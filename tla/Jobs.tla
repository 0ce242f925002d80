-------------------------------- MODULE Jobs --------------------------------
(* Background jobs: the registry of crates/agent/src/jobs.rs with its waiter  *)
(* threads, the requests start, logs, stop and list that run beside each      *)
(* other in the agent's worker threads, the process group behind each job,    *)
(* and the loop of `itai job logs --follow` (crates/cli/src/jobs.rs) that     *)
(* reads a log page by page over the relay.                                   *)
(*                                                                            *)
(* A job is the number of its start; new_id() never gives one twice. A log is *)
(* its length, since bytes are only ever appended: byte k is the k-th. An     *)
(* exit code is recorded or not; which code it is decides nothing. The Unix   *)
(* build is modelled, and a process id is taken as not reused while a stop    *)
(* that read it is under way.                                                 *)
EXTENDS Naturals, FiniteSets, Sequences

CONSTANTS
    MAX_JOBS,       \* jobs the registry keeps unless more are running
    DEFAULT_READ,   \* bytes one read of a log returns at most
    Starters,       \* requests of start that may run at once
    Stoppers,       \* requests of stop ever sent
    Followers,      \* `job logs --follow` sessions ever begun
    Offsets,        \* values given to --offset
    MaxStarts,      \* bound: jobs ever started
    MaxLog,         \* bound, per job: bytes its processes write
    Forking,        \* jobs whose command starts further processes
    Elevating,      \* jobs whose processes change their user, as under sudo
    MaxFaults,      \* bound: opens and reads of a log that fail
    MaxRestarts     \* bound: restarts of the agent

Ids == 1 .. MaxStarts

ASSUME ConstantsOK ==
    /\ MAX_JOBS \in Nat /\ MaxRestarts \in Nat /\ MaxFaults \in Nat
    /\ DEFAULT_READ \in Nat \ {0} /\ MaxStarts \in Nat \ {0}
    /\ MaxLog \in [Ids -> Nat] /\ Offsets \subseteq Nat
    /\ Forking \subseteq Ids /\ Elevating \subseteq Ids

VARIABLES
    leader,     \* per job, the process the agent spawned
    child,      \* per job, another process of its group
    size,       \* per job, the length of its log
    waiters,    \* jobs whose waiter thread has not stored an exit code
    exit,       \* per job: its exit code is recorded
    place,      \* per job, its place in Registry.jobs, 0 when it is not there
    pushes,     \* jobs ever pushed, which gives the next place
    started,    \* jobs ever started
    start,      \* per starter, the request it runs
    stop,       \* per stopper, the request it runs
    follow,     \* per follower, its loop and the read it waits for
    faults,
    restarts,
    atExit,     \* history: length of the log when the exit was recorded
    answered    \* history: jobs whose start this agent process answered

groups   == <<leader, child, size>>
registry == <<waiters, exit, place, pushes, started>>
history  == <<atExit, answered>>
bounds   == <<faults, restarts>>
vars == <<groups, registry, start, stop, follow, bounds, history>>

Registered == {i \in Ids : place[i] # 0}
Finished   == {i \in Registered : exit[i]}

(* A process is "alive", or "other" while it runs as a user the agent may    *)
(* not signal, or "dying" when SIGKILL finds it in a call that cannot be     *)
(* interrupted. The first two go on with what they do.                       *)
Live    == {"alive", "other"}
Running == Live \cup {"dying"}

(* killpg(pg, 0) fails: nothing of the group is left, not even a zombie, or  *)
(* only processes it may not signal; the code asks which for neither.        *)
GroupGone(i) == leader[i] \in {"none", "reaped", "other"} /\ child[i] \in {"none", "other"}

(* No process of the group goes on: all have ended or have SIGKILL pending. *)
GroupDead(i) == leader[i] \notin Live /\ child[i] \notin Live

(* Some process of the group runs as a user the agent may not signal. *)
OutOfReach(i) == "other" \in {leader[i], child[i]}

-----------------------------------------------------------------------------
(* The processes of a job                                                    *)

(* A process of the group appends to the log; a write may still be under way *)
(* in one that dies.                                                         *)
Writes(i) ==
    /\ {leader[i], child[i]} \cap Running # {}
    /\ size[i] < MaxLog[i]
    /\ size' = [size EXCEPT ![i] = @ + 1]
    /\ UNCHANGED <<leader, child, registry, start, stop, follow, bounds, history>>

(* The leader starts another process in its group, which runs as it does. *)
Fork(i) ==
    /\ leader[i] \in Live /\ child[i] = "none"
    /\ i \in Forking
    /\ child' = [child EXCEPT ![i] = leader[i]]
    /\ UNCHANGED <<leader, size, registry, start, stop, follow, bounds, history>>

(* A process takes another user than the agent's, or comes back to it. *)
ChangesUser(i) ==
    LET turned(p) == IF p = "alive" THEN "other" ELSE "alive" IN
    /\ i \in Elevating
    /\ \/ /\ leader[i] \in Live
          /\ leader' = [leader EXCEPT ![i] = turned(@)]
          /\ UNCHANGED child
       \/ /\ child[i] \in Live
          /\ child' = [child EXCEPT ![i] = turned(@)]
          /\ UNCHANGED leader
    /\ UNCHANGED <<size, registry, start, stop, follow, bounds, history>>

(* Processes end when they like; a SIGTERM may be why, or may be ignored. *)
ChildEnds(i) ==
    /\ child[i] \in Running
    /\ child' = [child EXCEPT ![i] = "none"]
    /\ UNCHANGED <<leader, size, registry, start, stop, follow, bounds, history>>

LeaderEnds(i) ==
    /\ leader[i] \in Running
    /\ leader' = [leader EXCEPT ![i] = "zombie"]
    /\ UNCHANGED <<child, size, registry, start, stop, follow, bounds, history>>

(* child.wait() returns in the waiter thread; init does it for an orphan. *)
Reap(i) ==
    /\ leader[i] = "zombie"
    /\ leader' = [leader EXCEPT ![i] = "reaped"]
    /\ UNCHANGED <<child, size, registry, start, stop, follow, bounds, history>>

(* ... and the waiter stores the exit code. *)
RecordExit(i) ==
    /\ i \in waiters
    /\ leader[i] = "reaped"
    /\ waiters' = waiters \ {i}
    /\ exit' = [exit EXCEPT ![i] = TRUE]
    /\ atExit' = [atExit EXCEPT ![i] = size[i]]
    /\ UNCHANGED <<groups, place, pushes, started, start, stop, follow, bounds,
                   answered>>

-----------------------------------------------------------------------------
(* The registry                                                              *)

\* Mutants of Pruned: finished or not; the newest first; one job short.
PrunedAny(p) ==
    LET here == {i \in Ids : p[i] # 0}
        before(i) == {j \in here : p[j] <= p[i]}
    IN {i \in here : Cardinality(before(i)) + MAX_JOBS <= Cardinality(here)}

(* Registry::prune: while the list is too long, remove the first finished    *)
(* job; stop when none is finished. What it removes of the places p.         *)
Pruned(p) ==
    LET here   == {i \in Ids : p[i] # 0}
        done   == {i \in here : exit[i]}
        before(i) == {j \in done : p[j] <= p[i]}
    IN {i \in done : Cardinality(before(i)) + MAX_JOBS <= Cardinality(here)}

Prune(p) == [i \in Ids |-> IF i \in Pruned(p) THEN 0 ELSE p[i]]

(* start() up to the spawn: the id, the log file and the process, or a       *)
(* failure (500) that leaves an empty log and no job.                        *)
Spawn(c) ==
    /\ start[c] = 0
    /\ started < MaxStarts
    /\ started' = started + 1
    /\ \/ /\ start' = [start EXCEPT ![c] = started']
          /\ leader' = [leader EXCEPT ![started'] = "alive"]
          /\ waiters' = waiters \cup {started'}
       \/ UNCHANGED <<start, leader, waiters>>
    /\ UNCHANGED <<child, size, exit, place, pushes, stop, follow, bounds, history>>

(* The rest of start(): under the lock, push the job and prune; answer.      *)
Register(c) ==
    LET i == start[c] IN
    /\ i # 0
    /\ start' = [start EXCEPT ![c] = 0]
    /\ pushes' = pushes + 1
    /\ place' = Prune([place EXCEPT ![i] = pushes'])
    /\ answered' = answered \cup {i}
    /\ UNCHANGED <<groups, waiters, exit, started, stop, follow, bounds,
                   atExit>>

(* list(): it prunes before it answers. *)
List ==
    /\ place' = Prune(place)
    /\ UNCHANGED <<groups, waiters, exit, pushes, started, start, stop, follow,
                   bounds, history>>

-----------------------------------------------------------------------------
(* stop                                                                      *)

StopRec == [pc : {"idle", "look", "check", "term", "wait", "killed",
                  "stopped", "refused", "unknown", "cut"},
            id : 0 .. MaxStarts,
            spared : BOOLEAN]   \* history: a process was out of the signals' reach

StopRequest(s, i) ==
    /\ stop[s].pc = "idle"
    /\ i <= started
    /\ stop' = [stop EXCEPT ![s] = [pc |-> "look", id |-> i, spared |-> FALSE]]
    /\ UNCHANGED <<groups, registry, start, follow, bounds, history>>

(* exit_of: the pid and the exit cell under the lock, or 404. *)
StopLook(s) ==
    /\ stop[s].pc = "look"
    /\ stop' = [stop EXCEPT ![s] = [@ EXCEPT !.pc =
                 IF stop[s].id \in Registered THEN "check" ELSE "unknown"]]
    /\ UNCHANGED <<groups, registry, start, follow, bounds, history>>

(* A job with a recorded exit is answered `stopped: false` and left alone. *)
StopCheck(s) ==
    /\ stop[s].pc = "check"
    /\ stop' = [stop EXCEPT ![s].pc = IF exit[stop[s].id] THEN "refused" ELSE "term"]
    /\ UNCHANGED <<groups, registry, start, follow, bounds, history>>

(* terminate: SIGTERM to the group, which its processes may handle, ... *)
StopTerm(s) ==
    /\ stop[s].pc = "term"
    /\ stop' = [stop EXCEPT ![s].pc = "wait"]
    /\ UNCHANGED <<groups, registry, start, follow, bounds, history>>

\* Mutant of StopSeesNone: the leader's exit is enough.
StopSeesExit(s) ==
    LET i == stop[s].id IN
    /\ stop[s].pc = "wait"
    /\ exit[i]
    /\ stop' = [stop EXCEPT ![s] = [@ EXCEPT !.pc = "stopped", !.spared = OutOfReach(i)]]
    /\ UNCHANGED <<groups, registry, start, follow, bounds, history>>

(* ... a look every 50 ms for an exit and an empty group, ... *)
StopSeesNone(s) ==
    LET i == stop[s].id IN
    /\ stop[s].pc = "wait"
    /\ exit[i] /\ GroupGone(i)
    /\ stop' = [stop EXCEPT ![s] = [@ EXCEPT !.pc = "stopped", !.spared = OutOfReach(i)]]
    /\ UNCHANGED <<groups, registry, start, follow, bounds, history>>

(* ... and SIGKILL once STOP_GRACE has passed without it, which reaches the  *)
(* processes of the agent's own user only and ends each at once or when the  *)
(* call it is in returns, ...                                                *)
StopKill(s) ==
    LET i == stop[s].id IN
    /\ stop[s].pc = "wait"
    /\ \E ended \in {"zombie", "dying"} :
         leader' = [leader EXCEPT ![i] = IF @ = "alive" THEN ended ELSE @]
    /\ \E ended \in {"none", "dying"} :
         child' = [child EXCEPT ![i] = IF @ = "alive" THEN ended ELSE @]
    /\ stop' = [stop EXCEPT ![s] = [@ EXCEPT !.pc = "killed", !.spared = OutOfReach(i)]]
    /\ UNCHANGED <<size, registry, start, follow, bounds, history>>

(* ... after which the exit is waited for two seconds, recorded or not. *)
StopKilled(s) ==
    /\ stop[s].pc = "killed"
    /\ stop' = [stop EXCEPT ![s].pc = "stopped"]
    /\ UNCHANGED <<groups, registry, start, follow, bounds, history>>

-----------------------------------------------------------------------------
(* logs, and the loop of a follower                                          *)

FollowRec == [pc : {"off", "find", "sample", "open", "read", "reply", "done", "failed"},
              id : 0 .. MaxStarts,
              from : Nat,         \* --offset
              offset : Nat,       \* next byte to ask for
              exited : BOOLEAN,   \* exit_code, as this read sampled it
              size : Nat,         \* size, as this read sampled it
              next : Nat,         \* offset of the answer
              blind : BOOLEAN,    \* history: this read found no log to open
              printed : Seq(Nat)] \* history: the bytes written to stdout

(* `job logs --follow` for a job some start has named. *)
FollowBegin(f, i, from) ==
    /\ follow[f].pc = "off"
    /\ i <= started
    /\ follow' = [follow EXCEPT ![f] = [@ EXCEPT !.pc = "find", !.id = i,
                                               !.from = from, !.offset = from]]
    /\ UNCHANGED <<groups, registry, start, stop, bounds, history>>

(* logs: the exit cell under the lock, or 404, which ends the loop; ... *)
LogsFind(f) ==
    /\ follow[f].pc = "find"
    /\ follow' = [follow EXCEPT ![f].pc = IF follow[f].id \in Registered
                                          THEN "sample" ELSE "failed"]
    /\ UNCHANGED <<groups, registry, start, stop, bounds, history>>

(* ... the exit code, sampled before the size; ... *)
LogsSample(f) ==
    /\ follow[f].pc = "sample"
    /\ follow' = [follow EXCEPT ![f] = [@ EXCEPT !.pc = "open", !.exited = exit[follow[f].id]]]
    /\ UNCHANGED <<groups, registry, start, stop, bounds, history>>

(* ... the log's length, ... *)
LogsSize(f) ==
    /\ follow[f].pc = "open"
    /\ follow' = [follow EXCEPT ![f] = [@ EXCEPT !.pc = "read", !.size = size[follow[f].id]]]
    /\ UNCHANGED <<groups, registry, start, stop, bounds, history>>

(* ... which is 0, with nothing to read, when the log cannot be opened or its *)
(* length not be had; ...                                                    *)
LogsBlind(f) ==
    /\ follow[f].pc = "open"
    /\ faults < MaxFaults
    /\ faults' = faults + 1
    /\ follow' = [follow EXCEPT ![f] = [@ EXCEPT !.pc = "reply", !.size = 0,
                                               !.next = follow[f].offset, !.blind = TRUE]]
    /\ UNCHANGED <<groups, registry, start, stop, restarts, history>>

(* The bytes from `offset` that a read finds: it may see more than the size  *)
(* sampled, when the log grew since, and never more than DEFAULT_READ.       *)
ReadTo(f) ==
    LET r   == follow[f]
        len == size[r.id]
    IN IF r.offset >= r.size THEN r.offset
       ELSE IF r.offset + DEFAULT_READ < len THEN r.offset + DEFAULT_READ ELSE len

\* Mutant of LogsRead: the exit is sampled with the answer, after the size.
LogsReadThenExit(f) ==
    /\ follow[f].pc = "read"
    /\ follow' = [follow EXCEPT ![f] = [@ EXCEPT !.pc = "reply", !.next = ReadTo(f),
                                               !.exited = exit[follow[f].id]]]
    /\ UNCHANGED <<groups, registry, start, stop, bounds, history>>

LogsRead(f) ==
    /\ follow[f].pc = "read"
    /\ follow' = [follow EXCEPT ![f] = [@ EXCEPT !.pc = "reply", !.next = ReadTo(f)]]
    /\ UNCHANGED <<groups, registry, start, stop, bounds, history>>

(* A seek or a read that fails is not told: the answer has what came before. *)
LogsReadShort(f) ==
    /\ follow[f].pc = "read"
    /\ faults < MaxFaults
    /\ faults' = faults + 1
    /\ \E to \in follow[f].offset .. ReadTo(f) :
         follow' = [follow EXCEPT ![f] = [@ EXCEPT !.pc = "reply", !.next = to]]
    /\ UNCHANGED <<groups, registry, start, stop, restarts, history>>

Eof(r) == r.exited /\ r.next >= r.size

(* The bytes an answer carries. *)
PageOf(r) == [k \in 1 .. (r.next - r.offset) |-> r.offset + k]

\* Mutant of Took: go on from the size of the answer.
TookToSize(r) ==
    [r EXCEPT !.printed = @ \o PageOf(r), !.offset = r.size,
              !.exited = FALSE, !.size = 0, !.next = 0, !.blind = @ /\ Eof(r),
              !.pc = IF Eof(r) THEN "done" ELSE "find"]

(* follow: write the data, go on from the offset of the answer, end at eof. *)
Took(r) ==
    [r EXCEPT !.printed = @ \o PageOf(r), !.offset = r.next,
              !.exited = FALSE, !.size = 0, !.next = 0, !.blind = @ /\ Eof(r),
              !.pc = IF Eof(r) THEN "done" ELSE "find"]

FollowPrint(f) ==
    /\ follow[f].pc = "reply"
    /\ follow' = [follow EXCEPT ![f] = Took(follow[f])]
    /\ UNCHANGED <<groups, registry, start, stop, bounds, history>>

(* A request or an answer the relay loses, or one that takes too long, is an *)
(* error of fetch and ends the loop.                                         *)
FollowError(f) ==
    /\ follow[f].pc \in {"find", "sample", "open", "read", "reply"}
    /\ follow' = [follow EXCEPT ![f].pc = "failed"]
    /\ UNCHANGED <<groups, registry, start, stop, bounds, history>>

-----------------------------------------------------------------------------
(* The agent ends and comes back: the registry, the waiter threads and every *)
(* request under way are gone, the processes and the logs stay.              *)
Restart ==
    /\ restarts < MaxRestarts
    /\ restarts' = restarts + 1
    /\ waiters' = {}
    /\ place' = [i \in Ids |-> 0]
    /\ start' = [c \in Starters |-> 0]
    /\ stop' = [s \in Stoppers |->
                  IF stop[s].pc \in {"look", "check", "term", "wait", "killed"}
                  THEN [stop[s] EXCEPT !.pc = "cut"] ELSE stop[s]]
    /\ follow' = [f \in Followers |->
                    IF follow[f].pc \in {"sample", "open", "read", "reply"}
                    THEN [follow[f] EXCEPT !.pc = "failed"] ELSE follow[f]]
    /\ answered' = {}
    /\ UNCHANGED <<groups, exit, pushes, started, faults, atExit>>

-----------------------------------------------------------------------------
Init ==
    /\ leader = [i \in Ids |-> "none"]
    /\ child = [i \in Ids |-> "none"]
    /\ size = [i \in Ids |-> 0]
    /\ waiters = {}
    /\ exit = [i \in Ids |-> FALSE]
    /\ place = [i \in Ids |-> 0]
    /\ pushes = 0
    /\ started = 0
    /\ start = [c \in Starters |-> 0]
    /\ stop = [s \in Stoppers |-> [pc |-> "idle", id |-> 0, spared |-> FALSE]]
    /\ follow = [f \in Followers |->
                   [pc |-> "off", id |-> 0, from |-> 0, offset |-> 0, exited |-> FALSE,
                    size |-> 0, next |-> 0, blind |-> FALSE, printed |-> <<>>]]
    /\ faults = 0
    /\ restarts = 0
    /\ atExit = [i \in Ids |-> 0]
    /\ answered = {}

Processes(i) == Writes(i) \/ Fork(i) \/ ChangesUser(i) \/ ChildEnds(i) \/ LeaderEnds(i)

StopStep(s) ==
    \/ StopLook(s) \/ StopCheck(s) \/ StopTerm(s)
    \/ StopSeesNone(s) \/ StopKill(s) \/ StopKilled(s)

FollowStep(f) ==
    \/ LogsFind(f) \/ LogsSample(f) \/ LogsSize(f) \/ LogsRead(f) \/ FollowPrint(f)

LogsFails(f) == LogsBlind(f) \/ LogsReadShort(f)

Next ==
    \/ \E i \in Ids : Processes(i) \/ Reap(i) \/ RecordExit(i)
    \/ \E c \in Starters : Spawn(c) \/ Register(c)
    \/ List
    \/ \E s \in Stoppers : StopStep(s) \/ \E i \in Ids : StopRequest(s, i)
    \/ \E f \in Followers :
         \/ FollowStep(f) \/ LogsFails(f) \/ FollowError(f)
         \/ \E i \in Ids, from \in Offsets : FollowBegin(f, i, from)
    \/ Restart

Spec == Init /\ [][Next]_vars

(* The waiters and the requests under way go on: their threads wait only for *)
(* each other's short critical sections or for a time limit. Users, the      *)
(* relay's losses and the jobs themselves owe nothing.                       *)
Fairness ==
    /\ \A i \in Ids : WF_vars(Reap(i) \/ RecordExit(i))
    /\ \A s \in Stoppers : WF_vars(StopStep(s))
    /\ \A f \in Followers : WF_vars(FollowStep(f))

FairSpec == Spec /\ Fairness

-----------------------------------------------------------------------------
(* Properties                                                                *)

(* Every part of the state has its type. *)
TypeOK ==
    /\ leader \in [Ids -> Running \cup {"none", "zombie", "reaped"}]
    /\ child \in [Ids -> Running \cup {"none"}]
    /\ size \in [Ids -> Nat]
    /\ waiters \subseteq Ids
    /\ exit \in [Ids -> BOOLEAN]
    /\ place \in [Ids -> Nat]
    /\ pushes \in Nat
    /\ started \in 0 .. MaxStarts
    /\ start \in [Starters -> 0 .. MaxStarts]
    /\ stop \in [Stoppers -> StopRec]
    /\ follow \in [Followers -> FollowRec]
    /\ faults \in Nat /\ restarts \in Nat
    /\ atExit \in [Ids -> Nat]
    /\ answered \subseteq Ids

(* A job the agent has answered for and whose command runs is in the         *)
(* registry, whatever else was started: it can be listed, read and stopped   *)
(* (jobs.rs:80, "forgetting one would leave it running with no way to stop   *)
(* it").                                                                     *)
RunningIsKnown ==
    \A i \in answered : leader[i] \in Running \cup {"zombie"} => i \in Registered

(* What prune may take: a job leaves the registry of a living agent only     *)
(* when it is finished and the list is over its limit, no finished job that  *)
(* came earlier stays, and no more are taken than bring it to the limit.     *)
DropsOldestFinished ==
    [][restarts' = restarts =>
        LET new     == {start[c] : c \in {d \in Starters : start'[d] # start[d]}} \ {0}
            dropped == (Registered \cup new) \ Registered'
        IN \A i \in dropped :
             /\ exit[i]
             /\ Cardinality(Registered') >= MAX_JOBS
             /\ \A j \in Registered \ dropped : exit[j] => i \in new \/ place[i] < place[j]]_vars

(* After each push or list the registry holds no more than MAX_JOBS jobs, or *)
(* nothing but running ones.                                                 *)
RegistryBounded ==
    [][place' # place =>
        \/ Cardinality(Registered') <= MAX_JOBS
        \/ \A i \in Registered' : ~exit[i]]_vars

(* When a stop answers `stopped: true`, no process of the group goes on,     *)
(* children that outlived the command and processes that ignore SIGTERM      *)
(* included, unless one ran as another user when the group was last looked   *)
(* at or killed: terminate asks no signal whether it was delivered           *)
(* (jobs.rs:237-246). A process in a call that cannot be interrupted has the *)
(* SIGKILL pending.                                                          *)
StoppedIsDead ==
    \A s \in Stoppers :
        stop[s].pc = "stopped" => stop[s].spared \/ GroupDead(stop[s].id)

(* A follower prints each byte of the log once and in order, from the offset *)
(* it was given, however the log grows while it is read.                     *)
PrintsTheLog ==
    \A f \in Followers :
        LET r == follow[f] IN
        /\ r.offset = r.from + Len(r.printed)
        /\ \A k \in DOMAIN r.printed : r.printed[k] = r.from + k

(* A follower that ended at eof has all the output there was when the        *)
(* command's exit was recorded: nothing the command itself wrote is missed,  *)
(* however the log grew and whatever reads of it failed (jobs.rs:159, the    *)
(* exit is sampled before the size), unless the log could not be opened for  *)
(* that last answer, which then counts as empty (jobs.rs:166, 172).          *)
EofMissesNothing ==
    \A f \in Followers :
        LET r == follow[f] IN
        r.pc = "done" => exit[r.id] /\ (r.offset >= atExit[r.id] \/ r.blind)

(* Once a command's exit is recorded, everybody who follows it gets to an end. *)
FollowEnds ==
    \A f \in Followers :
        (follow[f].pc # "off" /\ exit[follow[f].id])
            ~> (follow[f].pc \in {"done", "failed"})

(* A stop that found its job running ends, though nothing in the group heeds *)
(* SIGTERM, unless the agent itself ends.                                    *)
StopEnds ==
    \A s \in Stoppers :
        (stop[s].pc \in {"term", "wait", "killed"}) ~> (stop[s].pc \in {"stopped", "cut"})
=============================================================================
