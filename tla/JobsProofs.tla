----------------------------- MODULE JobsProofs -----------------------------
(***************************************************************************)
(* Invariants of Jobs proved for any number of jobs, requests, followers   *)
(* and restarts, any limit of the registry and any size of a read.         *)
(***************************************************************************)
EXTENDS Jobs, SequenceTheorems, TLAPS

Asked   == {"look", "check", "term", "wait", "killed", "stopped", "refused", "unknown", "cut"}
Reading == {"find", "sample", "open", "read", "reply", "done", "failed"}

(* Nothing exists of a job that was not started; a request names a job.     *)
FreshInv ==
    /\ \A i \in Ids : i > started =>
          /\ leader[i] = "none" /\ child[i] = "none" /\ ~exit[i]
          /\ i \notin waiters
    /\ \A c \in Starters : start[c] <= started
    /\ \A i \in answered : i <= started
    /\ \A s \in Stoppers : stop[s].pc \in Asked => stop[s].id \in 1 .. started
    /\ \A f \in Followers : follow[f].pc \in Reading => follow[f].id \in 1 .. started

(* An exit is recorded once, after the leader was reaped, with a log that   *)
(* only grows afterwards.                                                   *)
ExitInv ==
    \A i \in Ids :
        /\ i \in waiters => ~exit[i]
        /\ exit[i] => leader[i] = "reaped" /\ atExit[i] <= size[i]

(* What a read has sampled so far, against the job.                         *)
ReadInv ==
    \A f \in Followers :
        LET r == follow[f] IN
        /\ r.exited /\ r.pc \in {"open", "read", "reply"} => exit[r.id]
        /\ r.pc \in {"read", "reply"} => r.size <= size[r.id]
        /\ r.exited /\ r.pc \in {"read", "reply"} => atExit[r.id] <= r.size \/ r.blind
        /\ r.pc = "reply" => r.offset <= r.next
        /\ r.pc = "off" => r.printed = <<>>

(* A group that was sent SIGKILL, and wholly reached by it, has nothing left *)
(* to fork.                                                                 *)
KillInv ==
    \A s \in Stoppers :
        stop[s].pc \in {"killed", "stopped"} => stop[s].spared \/ GroupDead(stop[s].id)

Inv == /\ TypeOK /\ FreshInv /\ ExitInv /\ ReadInv /\ KillInv
       /\ RunningIsKnown /\ PrintsTheLog /\ EofMissesNothing
-----------------------------------------------------------------------------
USE DEF vars, groups, registry, bounds, history, Live, Running

(* What prune leaves has the place it had; only finished jobs go.           *)
LEMMA PruneKeeps ==
    ASSUME NEW p \in [Ids -> Nat]
    PROVE  /\ Prune(p) \in [Ids -> Nat]
           /\ \A i \in Ids : Prune(p)[i] = p[i] \/ exit[i]
  BY DEF Prune, Pruned

(* The bytes a read returns begin where it was asked to.                    *)
LEMMA ReadForward ==
    ASSUME TypeOK, NEW f \in Followers, follow[f].id \in Ids,
           follow[f].size <= size[follow[f].id]
    PROVE  ReadTo(f) \in Nat /\ follow[f].offset <= ReadTo(f)
<1> DEFINE r == follow[f]
<1>1. r \in FollowRec /\ size[r.id] \in Nat /\ DEFAULT_READ \in Nat
  BY ConstantsOK DEF TypeOK
<1>2. r.offset \in Nat /\ r.size \in Nat
  BY <1>1 DEF FollowRec
<1> QED BY <1>1, <1>2 DEF ReadTo

-----------------------------------------------------------------------------
(* Types.                                                                   *)

LEMMA TypeInit == Init => TypeOK
<1> SUFFICES ASSUME Init PROVE TypeOK
  OBVIOUS
<1>1. [pc |-> "idle", id |-> 0, spared |-> FALSE] \in StopRec
  BY ConstantsOK DEF StopRec
<1>2. [pc |-> "off", id |-> 0, from |-> 0, offset |-> 0, exited |-> FALSE,
       size |-> 0, next |-> 0, blind |-> FALSE, printed |-> <<>>] \in FollowRec
  BY ConstantsOK DEF FollowRec
<1> QED BY <1>1, <1>2, ConstantsOK DEF Init, TypeOK

(* What a follower makes of an answer.                                      *)
LEMMA TookType ==
    ASSUME NEW r \in FollowRec, r.printed \o PageOf(r) \in Seq(Nat)
    PROVE  Took(r) \in FollowRec
<1> DEFINE p == r.printed \o PageOf(r)
           q(pc) == [r EXCEPT !.printed = p, !.offset = r.next, !.exited = FALSE,
                              !.size = 0, !.next = 0, !.blind = r.blind /\ Eof(r), !.pc = pc]
<1>1. p \in Seq(Nat)
  OBVIOUS
<1>2. q("done") \in FollowRec /\ q("find") \in FollowRec
  <2>1. (r.blind /\ Eof(r)) \in BOOLEAN
    OBVIOUS
  <2> HIDE DEF p
  <2> QED BY <1>1, <2>1 DEF FollowRec
<1>3. CASE Eof(r)
  BY <1>2, <1>3 DEF Took
<1>4. CASE ~Eof(r)
  BY <1>2, <1>4 DEF Took
<1> QED BY <1>3, <1>4

LEMMA TypeStep == TypeOK /\ FreshInv /\ ReadInv /\ [Next]_vars => TypeOK'
<1> SUFFICES ASSUME TypeOK, FreshInv, ReadInv, [Next]_vars PROVE TypeOK'
  OBVIOUS
<1>1. ASSUME NEW i \in Ids, Processes(i) \/ Reap(i) \/ RecordExit(i) PROVE TypeOK'
  <2>1. CASE Writes(i)
    BY <2>1 DEF Writes, TypeOK
  <2>2. CASE Fork(i)
    BY <2>2 DEF Fork, TypeOK
  <2>7. CASE ChangesUser(i)
    BY <2>7 DEF ChangesUser, TypeOK
  <2>3. CASE ChildEnds(i)
    BY <2>3 DEF ChildEnds, TypeOK
  <2>4. CASE LeaderEnds(i)
    BY <2>4 DEF LeaderEnds, TypeOK
  <2>5. CASE Reap(i)
    BY <2>5 DEF Reap, TypeOK
  <2>6. CASE RecordExit(i)
    BY <2>6 DEF RecordExit, TypeOK
  <2> QED BY <1>1, <2>1, <2>2, <2>3, <2>4, <2>5, <2>6, <2>7 DEF Processes
<1>2. ASSUME NEW c \in Starters, Spawn(c) PROVE TypeOK'
  <2>1. started' \in 0 .. MaxStarts
    BY <1>2, ConstantsOK DEF Spawn, TypeOK
  <2>2. started' \in Ids
    BY <1>2, ConstantsOK DEF Spawn, TypeOK, Ids
  <2>3. start' \in [Starters -> 0 .. MaxStarts]
    BY <1>2, <2>1 DEF Spawn, TypeOK
  <2>4. leader' \in [Ids -> Running \cup {"none", "zombie", "reaped"}] /\ waiters' \subseteq Ids
    BY <1>2, <2>2 DEF Spawn, TypeOK
  <2> QED BY <1>2, <2>1, <2>3, <2>4 DEF Spawn, TypeOK
<1>3. ASSUME NEW c \in Starters, Register(c) PROVE TypeOK'
  <2>1. start[c] \in Ids /\ pushes' \in Nat
    BY <1>3, ConstantsOK DEF Register, TypeOK, Ids
  <2>2. [place EXCEPT ![start[c]] = pushes'] \in [Ids -> Nat]
    BY <2>1 DEF TypeOK
  <2>3. place' \in [Ids -> Nat]
    BY <1>3, <2>2, PruneKeeps DEF Register
  <2>4. start' \in [Starters -> 0 .. MaxStarts]
    BY <1>3, ConstantsOK DEF Register, TypeOK
  <2> QED BY <1>3, <2>1, <2>3, <2>4 DEF Register, TypeOK
<1>4. CASE List
  <2>1. place' \in [Ids -> Nat]
    BY <1>4, PruneKeeps DEF List, TypeOK
  <2> QED BY <1>4, <2>1 DEF List, TypeOK
<1>5. ASSUME NEW s \in Stoppers, StopStep(s) PROVE TypeOK'
  <2>1. CASE StopLook(s)
    BY <2>1 DEF StopLook, TypeOK, StopRec
  <2>2. CASE StopCheck(s)
    BY <2>2 DEF StopCheck, TypeOK, StopRec
  <2>3. CASE StopTerm(s)
    BY <2>3 DEF StopTerm, TypeOK, StopRec
  <2>6. \A pc \in {"killed", "stopped"}, spared \in BOOLEAN :
            [stop[s] EXCEPT !.pc = pc, !.spared = spared] \in StopRec
    BY DEF TypeOK, StopRec
  <2>7. OutOfReach(stop[s].id) \in BOOLEAN
    BY DEF OutOfReach
  <2>4. CASE StopSeesNone(s)
    BY <2>4, <2>6, <2>7 DEF StopSeesNone, TypeOK
  <2>8. CASE StopKilled(s)
    BY <2>8 DEF StopKilled, TypeOK, StopRec
  <2>5. CASE StopKill(s)
    <3>1. stop' \in [Stoppers -> StopRec]
      BY <2>5, <2>6, <2>7 DEF StopKill, TypeOK
    <3>2. leader' \in [Ids -> Running \cup {"none", "zombie", "reaped"}]
      BY <2>5 DEF StopKill, TypeOK
    <3>3. child' \in [Ids -> Running \cup {"none"}]
      BY <2>5 DEF StopKill, TypeOK
    <3> QED BY <2>5, <3>1, <3>2, <3>3 DEF StopKill, TypeOK
  <2> QED BY <1>5, <2>1, <2>2, <2>3, <2>4, <2>5, <2>8 DEF StopStep
<1>6. ASSUME NEW s \in Stoppers, NEW i \in Ids, StopRequest(s, i) PROVE TypeOK'
  <2>1. i \in 0 .. MaxStarts
    BY ConstantsOK DEF Ids
  <2>2. [pc |-> "look", id |-> i, spared |-> FALSE] \in StopRec
    BY <2>1 DEF StopRec
  <2> QED BY <1>6, <2>2 DEF StopRequest, TypeOK
<1>7. ASSUME NEW f \in Followers, FollowStep(f) PROVE TypeOK'
  <2> DEFINE r == follow[f]
  <2>0. r \in FollowRec
    BY DEF TypeOK
  <2>1. CASE LogsFind(f)
    <3>1. \A pc \in {"sample", "failed"} : [r EXCEPT !.pc = pc] \in FollowRec
      BY <2>0 DEF FollowRec
    <3>2. \E pc \in {"sample", "failed"} : follow' = [follow EXCEPT ![f] = [r EXCEPT !.pc = pc]]
      BY <2>1 DEF LogsFind
    <3> QED BY <2>1, <3>1, <3>2 DEF LogsFind, TypeOK
  <2>2. CASE LogsSample(f)
    <3>1. exit[r.id] \in BOOLEAN
      BY <2>2, ConstantsOK DEF LogsSample, FreshInv, Reading, TypeOK, Ids
    <3> QED BY <2>2, <3>1 DEF LogsSample, TypeOK, FollowRec
  <2>3. CASE LogsSize(f)
    <3>1. size[r.id] \in Nat
      BY <2>3, ConstantsOK DEF LogsSize, FreshInv, Reading, TypeOK, Ids
    <3> QED BY <2>3, <3>1 DEF LogsSize, TypeOK, FollowRec
  <2>4. CASE LogsRead(f)
    <3>1. r.id \in Ids /\ r.size <= size[r.id]
      BY <2>4, ConstantsOK DEF LogsRead, FreshInv, ReadInv, Reading, TypeOK, Ids
    <3>2. ReadTo(f) \in Nat
      BY <3>1, ReadForward
    <3> QED BY <2>4, <3>2 DEF LogsRead, TypeOK, FollowRec
  <2>5. CASE FollowPrint(f)
    <3>1. r.offset \in Nat /\ r.next \in Nat /\ r.printed \in Seq(Nat) /\ r.offset <= r.next
      BY <2>0, <2>5 DEF FollowRec, FollowPrint, ReadInv
    <3>2. PageOf(r) \in Seq(Nat)
      BY <3>1 DEF PageOf
    <3>3. r.printed \o PageOf(r) \in Seq(Nat)
      BY <3>1, <3>2
    <3>4. Took(r) \in FollowRec
      BY <2>0, <3>3, TookType
    <3> QED BY <2>5, <3>4 DEF FollowPrint, TypeOK
  <2> QED BY <1>7, <2>1, <2>2, <2>3, <2>4, <2>5 DEF FollowStep
<1>12. ASSUME NEW f \in Followers, LogsBlind(f) PROVE TypeOK'
  <2>1. follow[f] \in FollowRec /\ follow[f].offset \in Nat /\ faults + 1 \in Nat
    BY DEF TypeOK, FollowRec
  <2> QED BY <1>12, <2>1 DEF LogsBlind, TypeOK, FollowRec
<1>13. ASSUME NEW f \in Followers, LogsReadShort(f) PROVE TypeOK'
  <2> DEFINE r == follow[f]
  <2>1. r \in FollowRec /\ r.offset \in Nat /\ faults + 1 \in Nat
    BY DEF TypeOK, FollowRec
  <2>2. r.id \in Ids /\ r.size <= size[r.id]
    BY <1>13, ConstantsOK DEF LogsReadShort, FreshInv, ReadInv, Reading, TypeOK, Ids
  <2>3. ReadTo(f) \in Nat
    BY <2>2, ReadForward
  <2>4. ASSUME NEW to \in r.offset .. ReadTo(f)
        PROVE  [r EXCEPT !.pc = "reply", !.next = to] \in FollowRec
    <3>1. to \in Nat
      BY <2>1, <2>3
    <3> QED BY <2>1, <3>1 DEF FollowRec
  <2>5. \E to \in r.offset .. ReadTo(f) :
            follow' = [follow EXCEPT ![f] = [r EXCEPT !.pc = "reply", !.next = to]]
    BY <1>13 DEF LogsReadShort
  <2>6. follow' \in [Followers -> FollowRec]
    BY <2>4, <2>5 DEF TypeOK
  <2> QED BY <1>13, <2>1, <2>6 DEF LogsReadShort, TypeOK
<1>8. ASSUME NEW f \in Followers, FollowError(f) PROVE TypeOK'
  BY <1>8 DEF FollowError, TypeOK, FollowRec
<1>9. ASSUME NEW f \in Followers, NEW i \in Ids, NEW from \in Offsets, FollowBegin(f, i, from)
      PROVE  TypeOK'
  <2>1. i \in 0 .. MaxStarts /\ from \in Nat
    BY ConstantsOK DEF Ids, ConstantsOK
  <2>2. follow[f] \in FollowRec
    BY DEF TypeOK
  <2>3. [follow[f] EXCEPT !.pc = "find", !.id = i, !.from = from, !.offset = from] \in FollowRec
    BY <2>1, <2>2 DEF FollowRec
  <2> QED BY <1>9, <2>3 DEF FollowBegin, TypeOK
<1>10. CASE Restart
  <2>1. \A f \in Followers : follow[f] \in FollowRec /\ [follow[f] EXCEPT !.pc = "failed"] \in FollowRec
    BY DEF TypeOK, FollowRec
  <2>2. \A s \in Stoppers : stop[s] \in StopRec /\ [stop[s] EXCEPT !.pc = "cut"] \in StopRec
    BY DEF TypeOK, StopRec
  <2>3. follow' \in [Followers -> FollowRec]
    BY <1>10, <2>1 DEF Restart
  <2>4. stop' \in [Stoppers -> StopRec]
    BY <1>10, <2>2 DEF Restart
  <2> QED BY <1>10, <2>3, <2>4, ConstantsOK DEF Restart, TypeOK
<1>11. CASE UNCHANGED vars
  BY <1>11 DEF TypeOK
<1> QED BY <1>1, <1>2, <1>3, <1>4, <1>5, <1>6, <1>7, <1>8, <1>9, <1>10, <1>11, <1>12, <1>13
        DEF Next, LogsFails
-----------------------------------------------------------------------------
(* What no step undoes, for a job that was started.                         *)
Onward ==
    /\ started <= started'
    /\ \A i \in Ids : i <= started =>
          /\ size[i] <= size'[i]
          /\ exit[i] => exit'[i] /\ atExit'[i] = atExit[i]
          /\ leader[i] = "reaped" => leader'[i] = "reaped"
          /\ leader'[i] \in Running \cup {"zombie"} => leader[i] \in Running \cup {"zombie"}
          /\ GroupDead(i) => leader'[i] \notin Live /\ child'[i] \notin Live

LEMMA StepOnward == TypeOK /\ ExitInv /\ [Next]_vars => Onward
<1> SUFFICES ASSUME TypeOK, ExitInv, [Next]_vars PROVE Onward
  OBVIOUS
<1>1. ASSUME NEW i \in Ids, Processes(i) \/ Reap(i) \/ RecordExit(i) PROVE Onward
  <2>1. CASE Writes(i)
    BY <2>1 DEF Writes, TypeOK, Onward, GroupDead
  <2>2. CASE Fork(i)
    BY <2>2 DEF Fork, TypeOK, Onward, GroupDead
  <2>7. CASE ChangesUser(i)
    BY <2>7 DEF ChangesUser, TypeOK, Onward, GroupDead
  <2>3. CASE ChildEnds(i)
    BY <2>3 DEF ChildEnds, TypeOK, Onward, GroupDead
  <2>4. CASE LeaderEnds(i)
    BY <2>4 DEF LeaderEnds, TypeOK, Onward, GroupDead
  <2>5. CASE Reap(i)
    BY <2>5 DEF Reap, TypeOK, Onward, GroupDead
  <2>6. CASE RecordExit(i)
    BY <2>6 DEF RecordExit, ExitInv, TypeOK, Onward, GroupDead
  <2> QED BY <1>1, <2>1, <2>2, <2>3, <2>4, <2>5, <2>6, <2>7 DEF Processes
<1>2. ASSUME NEW c \in Starters, Spawn(c) PROVE Onward
  <2>1. started' = started + 1 /\ started \in Nat
    BY <1>2, ConstantsOK DEF Spawn, TypeOK
  <2>2. ASSUME NEW i \in Ids, i <= started PROVE leader'[i] = leader[i]
    <3>1. i # started'
      BY <2>1, <2>2 DEF Ids
    <3> QED BY <1>2, <3>1 DEF Spawn, TypeOK
  <2> QED BY <1>2, <2>1, <2>2 DEF Spawn, TypeOK, Onward, GroupDead
<1>3. ASSUME NEW s \in Stoppers, StopKill(s) PROVE Onward
  BY <1>3 DEF StopKill, TypeOK, Onward, GroupDead
<1>4. CASE UNCHANGED <<groups, exit, started, atExit>>
  BY <1>4 DEF TypeOK, Onward, GroupDead
<1>5. ASSUME NEW s \in Stoppers, StopStep(s), ~StopKill(s) PROVE UNCHANGED <<groups, exit, started, atExit>>
  BY <1>5 DEF StopStep, StopLook, StopCheck, StopTerm, StopSeesNone, StopKilled
<1>6. ASSUME NEW f \in Followers, FollowStep(f) \/ LogsFails(f) \/ FollowError(f)
      PROVE  UNCHANGED <<groups, exit, started, atExit>>
  BY <1>6 DEF FollowStep, FollowError, LogsFind, LogsSample, LogsSize, LogsRead, LogsFails,
                LogsBlind, LogsReadShort, FollowPrint
<1>7. ASSUME NEW c \in Starters, Register(c) PROVE UNCHANGED <<groups, exit, started, atExit>>
  BY <1>7 DEF Register
<1>8. ASSUME NEW s \in Stoppers, NEW i \in Ids, StopRequest(s, i)
      PROVE  UNCHANGED <<groups, exit, started, atExit>>
  BY <1>8 DEF StopRequest
<1>9. ASSUME NEW f \in Followers, NEW i \in Ids, NEW from \in Offsets, FollowBegin(f, i, from)
      PROVE  UNCHANGED <<groups, exit, started, atExit>>
  BY <1>9 DEF FollowBegin
<1>10. CASE List \/ Restart \/ UNCHANGED vars
  BY <1>4, <1>10 DEF List, Restart
<1> QED BY <1>1, <1>2, <1>3, <1>4, <1>5, <1>6, <1>7, <1>8, <1>9, <1>10 DEF Next
-----------------------------------------------------------------------------
(* A step of a follower touches only its own record, and never the job it   *)
(* follows nor where it began.                                              *)
LEMMA FollowShape ==
    ASSUME TypeOK, NEW f \in Followers, FollowStep(f) \/ LogsFails(f) \/ FollowError(f)
    PROVE  /\ follow[f].pc \in {"find", "sample", "open", "read", "reply"}
           /\ follow'[f].pc \in Reading
           /\ \A g \in Followers : /\ follow'[g].id = follow[g].id
                                   /\ follow'[g].from = follow[g].from
                                   /\ g # f => follow'[g] = follow[g]
<1>0. follow \in [Followers -> FollowRec]
  BY DEF TypeOK
<1>1. CASE LogsFind(f)
  BY <1>0, <1>1 DEF LogsFind, FollowRec, Reading
<1>2. CASE LogsSample(f)
  BY <1>0, <1>2 DEF LogsSample, FollowRec, Reading
<1>3. CASE LogsSize(f)
  BY <1>0, <1>3 DEF LogsSize, FollowRec, Reading
<1>4. CASE LogsRead(f)
  BY <1>0, <1>4 DEF LogsRead, FollowRec, Reading
<1>5. CASE FollowPrint(f)
  <2>1. \A r \in FollowRec : /\ Took(r).id = r.id /\ Took(r).from = r.from
                             /\ Took(r).pc \in {"done", "find"}
    BY DEF Took, FollowRec
  <2> QED BY <1>0, <1>5, <2>1 DEF FollowPrint, Reading
<1>6. CASE FollowError(f)
  BY <1>0, <1>6 DEF FollowError, FollowRec, Reading
<1>7. CASE LogsBlind(f)
  BY <1>0, <1>7 DEF LogsBlind, FollowRec, Reading
<1>8. CASE LogsReadShort(f)
  BY <1>0, <1>8 DEF LogsReadShort, FollowRec, Reading
<1> QED BY <1>1, <1>2, <1>3, <1>4, <1>5, <1>6, <1>7, <1>8 DEF FollowStep, LogsFails

(* A step of a stop touches only its own record, and never the job it is of. *)
LEMMA StopShape ==
    ASSUME TypeOK, NEW s \in Stoppers, StopStep(s)
    PROVE  /\ stop[s].pc \in {"look", "check", "term", "wait", "killed"}
           /\ \A u \in Stoppers : /\ stop'[u].id = stop[u].id
                                  /\ u # s => stop'[u] = stop[u]
<1>0. stop \in [Stoppers -> StopRec]
  BY DEF TypeOK
<1>1. CASE StopLook(s)
  BY <1>0, <1>1 DEF StopLook, StopRec
<1>2. CASE StopCheck(s)
  BY <1>0, <1>2 DEF StopCheck, StopRec
<1>3. CASE StopTerm(s)
  BY <1>0, <1>3 DEF StopTerm, StopRec
<1>4. CASE StopSeesNone(s)
  BY <1>0, <1>4 DEF StopSeesNone, StopRec
<1>5. CASE StopKill(s)
  BY <1>0, <1>5 DEF StopKill, StopRec
<1>6. CASE StopKilled(s)
  BY <1>0, <1>6 DEF StopKilled, StopRec
<1> QED BY <1>1, <1>2, <1>3, <1>4, <1>5, <1>6 DEF StopStep

(* Fresh jobs and recorded exits.                                           *)

LEMMA FreshInit == Init => FreshInv
  BY ConstantsOK DEF Init, FreshInv, Asked, Reading, Ids

LEMMA FreshStep == TypeOK /\ FreshInv /\ [Next]_vars => FreshInv'
<1> SUFFICES ASSUME TypeOK, FreshInv, [Next]_vars PROVE FreshInv'
  OBVIOUS
<1>0. started \in Nat /\ (\A i \in Ids : i \in Nat)
  BY ConstantsOK DEF TypeOK, Ids
<1>1. ASSUME NEW i \in Ids, Processes(i) \/ Reap(i) \/ RecordExit(i) PROVE FreshInv'
  <2>1. i <= started
    BY <1>0, <1>1 DEF Processes, Writes, Fork, ChangesUser, ChildEnds, LeaderEnds, Reap, RecordExit, FreshInv
  <2>2. \A j \in Ids : j > started =>
           leader'[j] = leader[j] /\ child'[j] = child[j] /\ exit'[j] = exit[j] /\ j # i
    BY <1>0, <1>1, <2>1 DEF Processes, Writes, Fork, ChangesUser, ChildEnds, LeaderEnds, Reap, RecordExit, TypeOK
  <2>3. waiters' \subseteq waiters /\ UNCHANGED <<started, start, stop, follow, answered>>
    BY <1>1 DEF Processes, Writes, Fork, ChangesUser, ChildEnds, LeaderEnds, Reap, RecordExit
  <2> QED BY <2>2, <2>3 DEF FreshInv
<1>2. ASSUME NEW c \in Starters, Spawn(c) PROVE FreshInv'
  <2>1. started' = started + 1 /\ started' \in Ids
    BY <1>0, <1>2, ConstantsOK DEF Spawn, TypeOK, Ids
  <2>2. ASSUME NEW i \in Ids, i > started'
        PROVE  leader'[i] = leader[i] /\ i \notin waiters' /\ i > started
    <3>1. i # started' /\ i > started
      BY <1>0, <2>1, <2>2
    <3> QED BY <1>2, <3>1 DEF Spawn, TypeOK, FreshInv
  <2>3. \A d \in Starters : start'[d] <= started'
    BY <1>0, <1>2, <2>1 DEF Spawn, TypeOK, FreshInv
  <2>4. \A k \in 1 .. started : k \in 1 .. started'
    BY <1>0, <2>1
  <2>5. \A i \in answered : i <= started'
    BY <1>0, <2>1 DEF FreshInv, TypeOK
  <2> QED BY <1>2, <2>2, <2>3, <2>4, <2>5 DEF Spawn, FreshInv
<1>3. ASSUME NEW c \in Starters, Register(c) PROVE FreshInv'
  BY <1>0, <1>3 DEF Register, FreshInv, TypeOK
<1>4. ASSUME NEW s \in Stoppers, StopStep(s) PROVE FreshInv'
  <2>1. stop[s].pc \in Asked /\ (\A u \in Stoppers : stop'[u].id = stop[u].id
           /\ (u # s => stop'[u] = stop[u]))
    BY <1>4, StopShape DEF Asked
  <2>2. \A u \in Stoppers : stop'[u].pc \in Asked => stop[u].pc \in Asked
    BY <2>1
  <2>3. UNCHANGED <<exit, waiters, started, start, follow, answered>>
    BY <1>4 DEF StopStep, StopLook, StopCheck, StopTerm, StopSeesNone, StopKill, StopKilled
  <2>4. \A i \in Ids : /\ leader[i] = "none" => leader'[i] = "none"
                       /\ child[i] = "none" => child'[i] = "none"
    <3>1. CASE StopKill(s)
      BY <3>1 DEF StopKill, TypeOK
    <3>2. CASE ~StopKill(s)
      BY <1>4, <3>2 DEF StopStep, StopLook, StopCheck, StopTerm, StopSeesNone, StopKilled
    <3> QED BY <3>1, <3>2
  <2>5. \A i \in Ids : i > started =>
           /\ leader'[i] = "none" /\ child'[i] = "none" /\ ~exit'[i] /\ i \notin waiters'
    BY <2>3, <2>4 DEF FreshInv
  <2>6. \A u \in Stoppers : stop'[u].pc \in Asked => stop'[u].id \in 1 .. started
    BY <2>1, <2>2 DEF FreshInv
  <2> QED BY <2>3, <2>5, <2>6 DEF FreshInv
<1>5. ASSUME NEW s \in Stoppers, NEW i \in Ids, StopRequest(s, i) PROVE FreshInv'
  <2>1. i \in 1 .. started
    BY <1>0, <1>5 DEF StopRequest, Ids
  <2> QED BY <1>5, <2>1 DEF StopRequest, FreshInv, TypeOK
<1>6. ASSUME NEW f \in Followers, FollowStep(f) \/ LogsFails(f) \/ FollowError(f) PROVE FreshInv'
  <2>1. follow[f].pc \in Reading /\ (\A g \in Followers : follow'[g].id = follow[g].id
           /\ (g # f => follow'[g] = follow[g]))
    BY <1>6, FollowShape DEF Reading
  <2>2. UNCHANGED <<groups, registry, start, stop, answered>>
    BY <1>6 DEF FollowStep, FollowError, LogsFind, LogsSample, LogsSize, LogsRead, LogsFails,
                LogsBlind, LogsReadShort, FollowPrint
  <2> QED BY <2>1, <2>2 DEF FreshInv
<1>7. ASSUME NEW f \in Followers, NEW i \in Ids, NEW from \in Offsets, FollowBegin(f, i, from)
      PROVE  FreshInv'
  <2>1. i \in 1 .. started
    BY <1>0, <1>7 DEF FollowBegin, Ids
  <2>2. follow'[f].id = i /\ (\A g \in Followers : g # f => follow'[g] = follow[g])
    BY <1>7 DEF FollowBegin, TypeOK, FollowRec
  <2> QED BY <1>7, <2>1, <2>2 DEF FollowBegin, FreshInv
<1>8. CASE List
  BY <1>8 DEF List, FreshInv
<1>9. CASE Restart
  <2>1. \A s \in Stoppers : stop'[s].id = stop[s].id /\ (stop'[s].pc \in Asked => stop[s].pc \in Asked)
    BY <1>9 DEF Restart, TypeOK, StopRec, Asked
  <2>2. \A f \in Followers : follow'[f].id = follow[f].id
                             /\ (follow'[f].pc \in Reading => follow[f].pc \in Reading)
    BY <1>9 DEF Restart, TypeOK, FollowRec, Reading
  <2> QED BY <1>0, <1>9, <2>1, <2>2 DEF Restart, FreshInv
<1>10. CASE UNCHANGED vars
  BY <1>10 DEF FreshInv
<1> QED BY <1>1, <1>2, <1>3, <1>4, <1>5, <1>6, <1>7, <1>8, <1>9, <1>10 DEF Next

LEMMA ExitInit == Init => ExitInv
  BY DEF Init, ExitInv

(* Only a waiter records an exit, and only a start makes a waiter.          *)
LEMMA ExitShape ==
    ASSUME TypeOK, [Next]_vars, NEW i \in Ids
    PROVE  /\ exit'[i] /\ ~exit[i] => RecordExit(i)
           /\ i \in waiters' => \/ i \in waiters /\ exit'[i] = exit[i]
                                \/ i = started + 1 /\ exit'[i] = exit[i]
<1> DEFINE Shape == /\ exit'[i] /\ ~exit[i] => RecordExit(i)
                    /\ i \in waiters' => \/ i \in waiters /\ exit'[i] = exit[i]
                                         \/ i = started + 1 /\ exit'[i] = exit[i]
<1>1. ASSUME NEW j \in Ids, RecordExit(j) PROVE exit' = [exit EXCEPT ![j] = TRUE] /\ waiters' = waiters \ {j}
  BY <1>1 DEF RecordExit
<1>2. ASSUME NEW j \in Ids, RecordExit(j)
      PROVE  Shape
  <2>1. (exit'[i] /\ ~exit[i] => j = i) /\ (i \in waiters' => i \in waiters /\ exit'[i] = exit[i])
    BY <1>1, <1>2 DEF TypeOK
  <2> QED BY <1>2, <2>1
<1>3. ASSUME NEW j \in Ids, Processes(j) \/ Reap(j) PROVE Shape
  BY <1>3 DEF Processes, Writes, Fork, ChangesUser, ChildEnds, LeaderEnds, Reap
<1>4. ASSUME NEW c \in Starters, Spawn(c) PROVE Shape
  BY <1>4 DEF Spawn
<1>5. ASSUME NEW c \in Starters, Register(c) PROVE Shape
  BY <1>5 DEF Register
<1>6. ASSUME NEW s \in Stoppers, StopStep(s) PROVE Shape
  BY <1>6 DEF StopStep, StopLook, StopCheck, StopTerm, StopSeesNone, StopKill, StopKilled
<1>7. ASSUME NEW s \in Stoppers, NEW j \in Ids, StopRequest(s, j) PROVE Shape
  BY <1>7 DEF StopRequest
<1>8. ASSUME NEW f \in Followers, FollowStep(f) \/ LogsFails(f) \/ FollowError(f) PROVE Shape
  BY <1>8 DEF FollowStep, FollowError, LogsFind, LogsSample, LogsSize, LogsRead, LogsFails,
                LogsBlind, LogsReadShort, FollowPrint
<1>9. ASSUME NEW f \in Followers, NEW j \in Ids, NEW from \in Offsets, FollowBegin(f, j, from)
      PROVE  Shape
  BY <1>9 DEF FollowBegin
<1>10. ASSUME List \/ UNCHANGED vars PROVE Shape
  BY <1>10 DEF List
<1>12. ASSUME Restart PROVE Shape
  BY <1>12 DEF Restart
<1>11. Shape
  <2> HIDE DEF Shape
  <2> QED BY <1>2, <1>3, <1>4, <1>5, <1>6, <1>7, <1>8, <1>9, <1>10, <1>12 DEF Next
<1> QED BY <1>11

LEMMA ExitStep == TypeOK /\ TypeOK' /\ FreshInv /\ ExitInv /\ [Next]_vars => ExitInv'
<1> SUFFICES ASSUME TypeOK, TypeOK', FreshInv, ExitInv, [Next]_vars, NEW i \in Ids
             PROVE  /\ i \in waiters' => ~exit'[i]
                    /\ exit'[i] => leader'[i] = "reaped" /\ atExit'[i] <= size'[i]
  BY DEF ExitInv
<1>0. Onward /\ started \in Nat /\ i \in Nat /\ size'[i] \in Nat /\ size[i] \in Nat /\ atExit[i] \in Nat
  <2>1. Onward
    BY StepOnward
  <2>2. started \in Nat /\ i \in Nat
    BY ConstantsOK DEF TypeOK, Ids
  <2>3. size'[i] \in Nat /\ size[i] \in Nat /\ atExit[i] \in Nat
    BY DEF TypeOK
  <2> QED BY <2>1, <2>2, <2>3
<1>1. CASE exit[i]
  <2>1. i <= started /\ i \notin waiters /\ leader[i] = "reaped" /\ atExit[i] <= size[i]
    BY <1>0, <1>1 DEF FreshInv, ExitInv
  <2>2. i \notin waiters'
    BY <1>0, <2>1, ExitShape
  <2> QED BY <1>0, <1>1, <2>1, <2>2 DEF Onward
<1>2. CASE ~exit[i] /\ RecordExit(i)
  BY <1>0, <1>2 DEF RecordExit, TypeOK
<1>3. CASE ~exit[i] /\ ~RecordExit(i)
  BY <1>3, ExitShape
<1> QED BY <1>1, <1>2, <1>3

-----------------------------------------------------------------------------
(* What a read has sampled.                                                 *)

LEMMA ReadInit == Init => ReadInv
  BY DEF Init, ReadInv

(* A follower the step leaves alone keeps its part of ReadInv.              *)
ReadPart(f) ==
    LET r == follow[f] IN
    /\ r.exited /\ r.pc \in {"open", "read", "reply"} => exit[r.id]
    /\ r.pc \in {"read", "reply"} => r.size <= size[r.id]
    /\ r.exited /\ r.pc \in {"read", "reply"} => atExit[r.id] <= r.size \/ r.blind
    /\ r.pc = "reply" => r.offset <= r.next
    /\ r.pc = "off" => r.printed = <<>>

LEMMA ReadKept ==
    ASSUME TypeOK, TypeOK', FreshInv, Onward, NEW f \in Followers, ReadPart(f), follow'[f] = follow[f]
    PROVE  ReadPart(f)'
<1> DEFINE r == follow[f]
<1>1. r \in FollowRec
  BY DEF TypeOK
<1>2. CASE r.pc \in Reading
  <2>1. r.id \in Ids /\ r.id <= started
    <3>1. r.id \in 1 .. started /\ started \in 0 .. MaxStarts
      BY <1>2 DEF FreshInv, TypeOK
    <3> QED BY <3>1, ConstantsOK DEF Ids
  <2>2. /\ exit[r.id] => exit'[r.id] /\ atExit'[r.id] = atExit[r.id]
        /\ size[r.id] <= size'[r.id] /\ size[r.id] \in Nat /\ size'[r.id] \in Nat
    BY <2>1 DEF Onward, TypeOK
  <2>3. r.size \in Nat
    BY <1>1 DEF FollowRec
  <2> QED BY <2>2, <2>3 DEF ReadPart
<1>3. CASE r.pc = "off"
  BY <1>3 DEF ReadPart
<1> QED BY <1>1, <1>2, <1>3 DEF FollowRec, Reading

(* What can happen to a follower's record.                                  *)
LEMMA FollowMoves ==
    ASSUME TypeOK, [Next]_vars, NEW f \in Followers
    PROVE  \/ follow'[f] = follow[f]
           \/ FollowStep(f) \/ LogsFails(f) \/ FollowError(f) \/ Restart
           \/ \E i \in Ids, from \in Offsets : FollowBegin(f, i, from)
<1>1. ASSUME NEW g \in Followers, g # f, FollowStep(g) \/ LogsFails(g) \/ FollowError(g) PROVE follow'[f] = follow[f]
  BY <1>1, FollowShape
<1>2. ASSUME NEW g \in Followers, g # f, NEW i \in Ids, NEW from \in Offsets, FollowBegin(g, i, from)
      PROVE  follow'[f] = follow[f]
  BY <1>2 DEF FollowBegin
<1>3. ASSUME follow' = follow PROVE follow'[f] = follow[f]
  BY <1>3
<1>4. ASSUME NEW i \in Ids, Processes(i) \/ Reap(i) \/ RecordExit(i) PROVE follow' = follow
  BY <1>4 DEF Processes, Writes, Fork, ChangesUser, ChildEnds, LeaderEnds, Reap, RecordExit
<1>5. ASSUME NEW c \in Starters, Spawn(c) \/ Register(c) PROVE follow' = follow
  BY <1>5 DEF Spawn, Register
<1>6. ASSUME NEW s \in Stoppers, StopStep(s) PROVE follow' = follow
  BY <1>6 DEF StopStep, StopLook, StopCheck, StopTerm, StopSeesNone, StopKill, StopKilled
<1>7. ASSUME NEW s \in Stoppers, NEW i \in Ids, StopRequest(s, i) PROVE follow' = follow
  BY <1>7 DEF StopRequest
<1>8. CASE List \/ UNCHANGED vars
  BY <1>1, <1>8 DEF List
<1> QED BY <1>1, <1>2, <1>4, <1>5, <1>6, <1>7, <1>8 DEF Next

LEMMA ReadStep == TypeOK /\ TypeOK' /\ FreshInv /\ ExitInv /\ ReadInv /\ [Next]_vars => ReadInv'
<1> SUFFICES ASSUME TypeOK, TypeOK', FreshInv, ExitInv, ReadInv, [Next]_vars,
                    NEW f \in Followers
             PROVE  ReadPart(f)'
  BY DEF ReadInv, ReadPart
<1> DEFINE r == follow[f]
<1>0. Onward /\ ReadPart(f) /\ r \in FollowRec
  BY StepOnward DEF ReadInv, ReadPart, TypeOK
<1>1. CASE follow'[f] = r
  BY <1>0, <1>1, ReadKept
<1>2. ASSUME FollowStep(f) PROVE ReadPart(f)'
  <2>0. r.pc \in Reading
    BY <1>2, FollowShape DEF Reading
  <2>1. r.id \in Ids
    <3>1. r.id \in 1 .. started /\ started \in 0 .. MaxStarts
      BY <2>0 DEF FreshInv, TypeOK
    <3> QED BY <3>1, ConstantsOK DEF Ids
  <2>2. size[r.id] \in Nat /\ atExit[r.id] \in Nat /\ (exit[r.id] => atExit[r.id] <= size[r.id])
    BY <2>1 DEF ExitInv, TypeOK
  <2>3. r.offset \in Nat /\ r.size \in Nat
    BY <1>0 DEF FollowRec
  <2>4. CASE LogsFind(f)
    BY <1>0, <2>4 DEF LogsFind, ReadPart, TypeOK, FollowRec
  <2>5. CASE LogsSample(f)
    BY <1>0, <2>5 DEF LogsSample, ReadPart, TypeOK, FollowRec
  <2>6. CASE LogsSize(f)
    BY <1>0, <2>2, <2>6 DEF LogsSize, ReadPart, TypeOK, FollowRec
  <2>7. CASE LogsRead(f)
    <3>1. ReadTo(f) \in Nat /\ r.offset <= ReadTo(f)
      BY <1>0, <2>1, <2>7, ReadForward DEF LogsRead, ReadPart
    <3> QED BY <1>0, <2>2, <2>7, <3>1 DEF LogsRead, ReadPart, TypeOK, FollowRec
  <2>8. CASE FollowPrint(f)
    <3>1. Took(r).pc \in {"done", "find"}
      BY <1>0 DEF Took, FollowRec
    <3> QED BY <2>8, <3>1 DEF FollowPrint, ReadPart, TypeOK
  <2> QED BY <1>2, <2>4, <2>5, <2>6, <2>7, <2>8 DEF FollowStep
<1>3. ASSUME FollowError(f) \/ Restart, follow'[f] # r PROVE ReadPart(f)'
  <2>1. follow'[f].pc = "failed"
    BY <1>0, <1>3 DEF FollowError, Restart, TypeOK, FollowRec
  <2> QED BY <2>1 DEF ReadPart
<1>4. ASSUME NEW i \in Ids, NEW from \in Offsets, FollowBegin(f, i, from) PROVE ReadPart(f)'
  <2>1. follow'[f].pc = "find"
    BY <1>0, <1>4 DEF FollowBegin, TypeOK, FollowRec
  <2> QED BY <2>1 DEF ReadPart
<1>5. CASE LogsBlind(f)
  <2>0. r.pc \in Reading /\ r.offset \in Nat
    BY <1>0, <1>5 DEF LogsBlind, Reading, FollowRec
  <2>1. r.id \in Ids /\ r.offset \in Nat
    <3>1. r.id \in 1 .. started /\ started \in 0 .. MaxStarts
      BY <2>0 DEF FreshInv, TypeOK
    <3> QED BY <2>0, <3>1, ConstantsOK DEF Ids
  <2>2. r.size \in Nat /\ size[r.id] \in Nat
    BY <1>0, <2>1 DEF TypeOK, FollowRec
  <2>3. UNCHANGED <<exit, size, atExit>>
    BY <1>5 DEF LogsBlind
  <2>4. follow'[f] = [r EXCEPT !.pc = "reply", !.size = 0, !.next = r.offset, !.blind = TRUE]
    BY <1>0, <1>5 DEF LogsBlind, TypeOK
  <2>5. /\ follow'[f].pc = "reply" /\ follow'[f].id = r.id /\ follow'[f].exited = r.exited
        /\ follow'[f].size = 0 /\ follow'[f].next = r.offset /\ follow'[f].offset = r.offset
        /\ follow'[f].blind
    BY <1>0, <2>4 DEF FollowRec
  <2>6. r.exited => exit[r.id]
    BY <1>0, <1>5 DEF LogsBlind, ReadPart
  <2>7. 0 <= size[r.id] /\ r.offset <= r.offset
    BY <2>0, <2>2
  <2> QED BY <2>3, <2>5, <2>6, <2>7 DEF ReadPart
<1>6. CASE LogsReadShort(f)
  <2>0. r.pc \in Reading /\ r.offset \in Nat
    BY <1>0, <1>6 DEF LogsReadShort, Reading, FollowRec
  <2>1. r.id \in Ids /\ r.offset \in Nat
    <3>1. r.id \in 1 .. started /\ started \in 0 .. MaxStarts
      BY <2>0 DEF FreshInv, TypeOK
    <3> QED BY <2>0, <3>1, ConstantsOK DEF Ids
  <2>2. ReadTo(f) \in Nat
    BY <1>0, <1>6, <2>1, ReadForward DEF LogsReadShort, ReadPart
  <2>3. PICK to \in r.offset .. ReadTo(f) : follow'[f] = [r EXCEPT !.pc = "reply", !.next = to]
    BY <1>0, <1>6 DEF LogsReadShort, TypeOK
  <2>4. to >= r.offset
    BY <2>1, <2>2, <2>3
  <2> QED BY <1>0, <1>6, <2>3, <2>4 DEF LogsReadShort, ReadPart, FollowRec
<1> QED BY <1>1, <1>2, <1>3, <1>4, <1>5, <1>6, FollowMoves DEF LogsFails

-----------------------------------------------------------------------------
(* What a follower has printed, and what it has when it ends.               *)

LEMMA PrintInit == Init => PrintsTheLog /\ EofMissesNothing
<1> SUFFICES ASSUME Init PROVE PrintsTheLog /\ EofMissesNothing
  OBVIOUS
<1>1. \A f \in Followers : /\ follow[f].offset = 0 /\ follow[f].from = 0
                           /\ follow[f].printed = <<>> /\ follow[f].pc = "off"
  BY DEF Init
<1> QED BY <1>1 DEF PrintsTheLog, EofMissesNothing

(* A page laid behind what was printed before goes on with the next byte.   *)
LEMMA PageFollows ==
    ASSUME NEW r \in FollowRec, r.offset <= r.next,
           r.offset = r.from + Len(r.printed),
           \A k \in DOMAIN r.printed : r.printed[k] = r.from + k
    PROVE  LET q == Took(r) IN
           /\ q.offset = q.from + Len(q.printed)
           /\ \A k \in DOMAIN q.printed : q.printed[k] = q.from + k
<1> DEFINE n == r.next - r.offset
           p == r.printed \o PageOf(r)
<1>1. r.offset \in Nat /\ r.next \in Nat /\ r.from \in Nat /\ r.printed \in Seq(Nat)
  BY DEF FollowRec
<1>2. n \in Nat /\ PageOf(r) \in Seq(Nat) /\ Len(PageOf(r)) = n
  <2>1. n \in Nat
    BY <1>1
  <2>2. PageOf(r) = [k \in 1 .. n |-> r.offset + k]
    BY DEF PageOf
  <2> HIDE DEF n
  <2>3. \A k \in 1 .. n : r.offset + k \in Nat
    BY <1>1, <2>1
  <2> QED BY <2>1, <2>2, <2>3
<1>3. \A k \in 1 .. n : PageOf(r)[k] = r.offset + k
  BY <1>1 DEF PageOf
<1>4. p \in Seq(Nat) /\ Len(p) = Len(r.printed) + n
  <2>1. Len(p) = Len(r.printed) + Len(PageOf(r)) /\ p \in Seq(Nat)
    BY <1>1, <1>2, ConcatProperties, Zenon
  <2> QED BY <1>2, <2>1
<1>5. ASSUME NEW k \in 1 .. Len(p) PROVE p[k] = r.from + k
  <2>1. CASE k <= Len(r.printed)
    BY <1>1, <1>2, <2>1
  <2>2. CASE k > Len(r.printed)
    <3>1. k - Len(r.printed) \in 1 .. n
      BY <1>1, <1>2, <1>4, <2>2
    <3>2. p[k] = PageOf(r)[k - Len(r.printed)]
      BY <1>1, <1>2, <1>4, <2>2
    <3> QED BY <1>1, <1>3, <3>1, <3>2
  <2> QED BY <1>1, <2>1, <2>2
<1>6. Took(r).printed = p /\ Took(r).offset = r.next /\ Took(r).from = r.from
  BY DEF Took, FollowRec
<1>7. r.next = r.from + Len(p)
  BY <1>1, <1>4
<1> HIDE DEF p
<1>8. DOMAIN p = 1 .. Len(p)
  BY <1>4
<1> QED BY <1>5, <1>6, <1>7, <1>8

LEMMA PrintStep ==
    TypeOK /\ ReadInv /\ PrintsTheLog /\ [Next]_vars => PrintsTheLog'
<1> SUFFICES ASSUME TypeOK, ReadInv, PrintsTheLog, [Next]_vars, NEW f \in Followers
             PROVE  /\ follow'[f].offset = follow'[f].from + Len(follow'[f].printed)
                    /\ \A k \in DOMAIN follow'[f].printed :
                          follow'[f].printed[k] = follow'[f].from + k
  BY DEF PrintsTheLog
<1> DEFINE r == follow[f]
<1>0. /\ follow \in [Followers -> FollowRec] /\ r \in FollowRec
      /\ r.offset = r.from + Len(r.printed)
      /\ \A k \in DOMAIN r.printed : r.printed[k] = r.from + k
  BY DEF TypeOK, PrintsTheLog
<1>1. ASSUME FollowStep(f) \/ LogsFails(f) \/ FollowError(f) \/ Restart, ~FollowPrint(f)
      PROVE  follow'[f].offset = r.offset /\ follow'[f].from = r.from /\ follow'[f].printed = r.printed
  <2>1. CASE LogsFind(f)
    BY <1>0, <2>1 DEF LogsFind, FollowRec
  <2>2. CASE LogsSample(f)
    BY <1>0, <2>2 DEF LogsSample, FollowRec
  <2>3. CASE LogsSize(f)
    BY <1>0, <2>3 DEF LogsSize, FollowRec
  <2>4. CASE LogsRead(f)
    BY <1>0, <2>4 DEF LogsRead, FollowRec
  <2>5. CASE FollowError(f)
    BY <1>0, <2>5 DEF FollowError, FollowRec
  <2>6. CASE Restart
    BY <1>0, <2>6 DEF Restart, FollowRec
  <2>7. CASE LogsBlind(f) \/ LogsReadShort(f)
    BY <1>0, <2>7 DEF LogsBlind, LogsReadShort, FollowRec
  <2> QED BY <1>1, <2>1, <2>2, <2>3, <2>4, <2>5, <2>6, <2>7 DEF FollowStep, LogsFails
<1>2. CASE FollowPrint(f)
  <2>1. r.offset <= r.next /\ follow'[f] = Took(r)
    BY <1>0, <1>2 DEF FollowPrint, ReadInv
  <2> QED BY <1>0, <2>1, PageFollows
<1>3. ASSUME NEW i \in Ids, NEW from \in Offsets, FollowBegin(f, i, from)
      PROVE  /\ follow'[f].printed = <<>> /\ follow'[f].offset = from /\ follow'[f].from = from
             /\ from \in Nat
  BY <1>0, <1>3, ConstantsOK DEF FollowBegin, FollowRec, ReadInv, ConstantsOK
<1>4. CASE follow'[f] = r
  BY <1>0, <1>4
<1>5. ASSUME NEW from \in Nat, follow'[f].printed = <<>>, follow'[f].offset = from, follow'[f].from = from
      PROVE  /\ follow'[f].offset = follow'[f].from + Len(follow'[f].printed)
             /\ \A k \in DOMAIN follow'[f].printed : follow'[f].printed[k] = follow'[f].from + k
  BY <1>5
<1> QED BY <1>0, <1>1, <1>2, <1>3, <1>4, <1>5, FollowMoves

LEMMA EofStep ==
    TypeOK /\ FreshInv /\ ExitInv /\ ReadInv /\ EofMissesNothing /\ [Next]_vars => EofMissesNothing'
<1> SUFFICES ASSUME TypeOK, FreshInv, ExitInv, ReadInv, EofMissesNothing, [Next]_vars,
                    NEW f \in Followers, follow'[f].pc = "done"
             PROVE  /\ exit'[follow'[f].id]
                    /\ follow'[f].offset >= atExit'[follow'[f].id] \/ follow'[f].blind
  BY DEF EofMissesNothing
<1> DEFINE r == follow[f]
<1>0. Onward /\ follow \in [Followers -> FollowRec] /\ r \in FollowRec
  BY StepOnward DEF TypeOK
<1>1. r.pc \in Reading => r.id \in Ids /\ r.id <= started
  BY ConstantsOK DEF FreshInv, TypeOK, Ids
<1>2. CASE follow'[f] = r
  <2>1. /\ exit[r.id] /\ r.id \in Ids /\ r.id <= started
        /\ r.offset >= atExit[r.id] \/ r.blind
    BY <1>1, <1>2 DEF EofMissesNothing, Reading
  <2> QED BY <1>0, <1>2, <2>1 DEF Onward
<1>3. CASE FollowPrint(f)
  <2>1. follow'[f] = Took(r) /\ r.pc = "reply" /\ r.id \in Ids /\ r.id <= started
    BY <1>0, <1>1, <1>3 DEF FollowPrint, Reading
  <2>2. /\ Took(r).pc = (IF Eof(r) THEN "done" ELSE "find")
        /\ Took(r).id = r.id /\ Took(r).offset = r.next
        /\ r.blind /\ Eof(r) => Took(r).blind
    BY <1>0 DEF Took, FollowRec
  <2>3. r.exited /\ r.next >= r.size /\ Eof(r)
    BY <2>1, <2>2 DEF Eof
  <2>4. exit[r.id] /\ (atExit[r.id] <= r.size \/ r.blind)
    BY <2>1, <2>3 DEF ReadInv
  <2>5. exit'[r.id] /\ atExit'[r.id] = atExit[r.id]
    BY <1>0, <2>1, <2>4 DEF Onward
  <2>6. atExit[r.id] \in Nat /\ r.size \in Nat /\ r.next \in Nat
    BY <1>0, <2>1 DEF TypeOK, FollowRec
  <2>7. Took(r).offset >= atExit[r.id] \/ Took(r).blind
    BY <2>2, <2>3, <2>4, <2>6
  <2> QED BY <2>1, <2>2, <2>4, <2>5, <2>7
<1>4. ASSUME FollowStep(f) \/ LogsFails(f) \/ FollowError(f), ~FollowPrint(f) PROVE follow'[f].pc # "done"
  <2>1. CASE LogsReadShort(f)
    BY <1>0, <2>1 DEF LogsReadShort, FollowRec
  <2>2. CASE LogsBlind(f)
    BY <1>0, <2>2 DEF LogsBlind, FollowRec
  <2>3. CASE FollowStep(f) \/ FollowError(f)
    BY <1>0, <1>4, <2>3 DEF FollowStep, LogsFind, LogsSample, LogsSize, LogsRead, FollowError,
                FollowRec
  <2> QED BY <1>4, <2>1, <2>2, <2>3 DEF LogsFails
<1>5. CASE Restart
  BY <1>0, <1>2, <1>5 DEF Restart, FollowRec
<1>6. ASSUME NEW i \in Ids, NEW from \in Offsets, FollowBegin(f, i, from) PROVE follow'[f].pc # "done"
  BY <1>0, <1>6 DEF FollowBegin, FollowRec
<1> QED BY <1>2, <1>3, <1>4, <1>5, <1>6, FollowMoves
-----------------------------------------------------------------------------
(* What a stop has killed stays dead.                                       *)

LEMMA KillInit == Init => KillInv
  BY DEF Init, KillInv

(* What can happen to a stopper's record.                                   *)
LEMMA StopMoves ==
    ASSUME TypeOK, [Next]_vars, NEW s \in Stoppers
    PROVE  \/ stop'[s] = stop[s]
           \/ StopStep(s) \/ Restart
           \/ \E i \in Ids : StopRequest(s, i)
<1>1. ASSUME NEW u \in Stoppers, u # s, StopStep(u) PROVE stop'[s] = stop[s]
  BY <1>1 DEF StopStep, StopLook, StopCheck, StopTerm, StopSeesNone, StopKill, StopKilled, TypeOK
<1>2. ASSUME NEW u \in Stoppers, u # s, NEW i \in Ids, StopRequest(u, i) PROVE stop'[s] = stop[s]
  BY <1>2 DEF StopRequest
<1>3. ASSUME NEW i \in Ids, Processes(i) \/ Reap(i) \/ RecordExit(i) PROVE stop' = stop
  BY <1>3 DEF Processes, Writes, Fork, ChangesUser, ChildEnds, LeaderEnds, Reap, RecordExit
<1>4. ASSUME NEW c \in Starters, Spawn(c) \/ Register(c) PROVE stop' = stop
  BY <1>4 DEF Spawn, Register
<1>5. ASSUME NEW f \in Followers, FollowStep(f) \/ LogsFails(f) \/ FollowError(f) PROVE stop' = stop
  BY <1>5 DEF FollowStep, FollowError, LogsFind, LogsSample, LogsSize, LogsRead, LogsFails,
                LogsBlind, LogsReadShort, FollowPrint
<1>6. ASSUME NEW f \in Followers, NEW i \in Ids, NEW from \in Offsets, FollowBegin(f, i, from)
      PROVE  stop' = stop
  BY <1>6 DEF FollowBegin
<1>7. CASE List \/ UNCHANGED vars
  BY <1>7 DEF List
<1> QED BY <1>1, <1>2, <1>3, <1>4, <1>5, <1>6, <1>7 DEF Next

LEMMA KillStep == TypeOK /\ FreshInv /\ ExitInv /\ KillInv /\ [Next]_vars => KillInv'
<1> SUFFICES ASSUME TypeOK, FreshInv, ExitInv, KillInv, [Next]_vars,
                    NEW s \in Stoppers, stop'[s].pc \in {"killed", "stopped"}
             PROVE  \/ stop'[s].spared
                    \/ leader'[stop'[s].id] \notin Live /\ child'[stop'[s].id] \notin Live
  BY DEF KillInv, GroupDead
<1> DEFINE i == stop[s].id
<1>0. Onward /\ stop \in [Stoppers -> StopRec] /\ stop[s] \in StopRec
  BY StepOnward DEF TypeOK
<1>1. stop[s].pc \in Asked => i \in Ids /\ i <= started
  BY ConstantsOK DEF FreshInv, TypeOK, Ids
<1>2. CASE stop'[s] = stop[s]
  BY <1>0, <1>1, <1>2 DEF Onward, KillInv, Asked
<1>3. CASE StopKill(s)
  <2>1. i \in Ids /\ stop'[s].id = i /\ (stop'[s].spared <=> OutOfReach(i))
    BY <1>0, <1>1, <1>3 DEF StopKill, StopRec, Asked, OutOfReach
  <2>2. leader'[i] = "alive" => FALSE
    BY <1>3, <2>1 DEF StopKill, TypeOK
  <2>3. child'[i] = "alive" => FALSE
    BY <1>3, <2>1 DEF StopKill, TypeOK
  <2>4. leader'[i] = "other" => leader[i] = "other"
    BY <1>3, <2>1 DEF StopKill, TypeOK
  <2>5. child'[i] = "other" => child[i] = "other"
    BY <1>3, <2>1 DEF StopKill, TypeOK
  <2> QED BY <2>1, <2>2, <2>3, <2>4, <2>5 DEF OutOfReach
<1>4. CASE StopKilled(s)
  BY <1>0, <1>4 DEF StopKilled, KillInv, GroupDead, StopRec
<1>5. CASE StopSeesNone(s)
  BY <1>0, <1>5 DEF StopSeesNone, GroupGone, OutOfReach, StopRec
<1>6. ASSUME StopLook(s) \/ StopCheck(s) \/ StopTerm(s) PROVE FALSE
  BY <1>0, <1>6 DEF StopLook, StopCheck, StopTerm, StopRec
<1>7. CASE Restart
  BY <1>0, <1>2, <1>7 DEF Restart, StopRec
<1>8. ASSUME NEW j \in Ids, StopRequest(s, j) PROVE FALSE
  BY <1>0, <1>8 DEF StopRequest
<1> QED BY <1>2, <1>3, <1>4, <1>5, <1>6, <1>7, <1>8, StopMoves DEF StopStep

-----------------------------------------------------------------------------
(* A running job is known.                                                  *)

LEMMA KnownStep ==
    TypeOK /\ FreshInv /\ ExitInv /\ RunningIsKnown /\ [Next]_vars => RunningIsKnown'
<1> SUFFICES ASSUME TypeOK, FreshInv, ExitInv, RunningIsKnown, [Next]_vars, NEW i \in answered',
                    leader'[i] \in Running \cup {"zombie"}
             PROVE  i \in Ids /\ place'[i] # 0
  BY DEF RunningIsKnown, Registered
<1>1. ASSUME i \in answered
      PROVE  i \in Ids /\ place[i] # 0 /\ ~exit[i]
  <2>1. i \in Ids /\ i <= started /\ Onward
    BY <1>1, StepOnward DEF FreshInv, TypeOK
  <2>2. leader[i] \in Running \cup {"zombie"}
    BY <2>1 DEF Onward
  <2> QED BY <1>1, <2>1, <2>2 DEF RunningIsKnown, Registered, ExitInv
<1>2. CASE UNCHANGED <<place, answered>>
  BY <1>1, <1>2
<1>3. ASSUME NEW c \in Starters, Register(c) PROVE i \in Ids /\ place'[i] # 0
  <2> DEFINE j == start[c]
             q == [place EXCEPT ![j] = pushes']
  <2>1. j \in Ids /\ pushes' \in Nat \ {0} /\ leader' = leader
    BY <1>3, ConstantsOK DEF Register, TypeOK, Ids
  <2>2. q \in [Ids -> Nat]
    BY <2>1 DEF TypeOK
  <2>3. i \in Ids /\ q[i] # 0
    BY <1>1, <1>3, <2>1 DEF Register, TypeOK
  <2>4. ~exit[i]
    BY <2>1, <2>3 DEF ExitInv
  <2>5. place'[i] = q[i]
    <3>1. place' = Prune(q)
      BY <1>3 DEF Register
    <3> HIDE DEF q
    <3> QED BY <2>2, <2>3, <2>4, <3>1, PruneKeeps
  <2> QED BY <2>3, <2>5
<1>4. CASE List
  BY <1>1, <1>4, PruneKeeps DEF List, TypeOK
<1>5. CASE Restart
  BY <1>5 DEF Restart
<1>6. ASSUME NEW j \in Ids, Processes(j) \/ Reap(j) \/ RecordExit(j) PROVE UNCHANGED <<place, answered>>
  BY <1>6 DEF Processes, Writes, Fork, ChangesUser, ChildEnds, LeaderEnds, Reap, RecordExit
<1>7. ASSUME NEW c \in Starters, Spawn(c) PROVE UNCHANGED <<place, answered>>
  BY <1>7 DEF Spawn
<1>8. ASSUME NEW s \in Stoppers, StopStep(s) \/ \E j \in Ids : StopRequest(s, j)
      PROVE  UNCHANGED <<place, answered>>
  BY <1>8 DEF StopStep, StopLook, StopCheck, StopTerm, StopSeesNone, StopKill, StopKilled, StopRequest
<1>9. ASSUME NEW f \in Followers, FollowStep(f) \/ LogsFails(f) \/ FollowError(f) PROVE UNCHANGED <<place, answered>>
  BY <1>9 DEF FollowStep, FollowError, LogsFind, LogsSample, LogsSize, LogsRead, LogsFails,
                LogsBlind, LogsReadShort, FollowPrint
<1>10. ASSUME NEW f \in Followers, NEW j \in Ids, NEW from \in Offsets, FollowBegin(f, j, from)
       PROVE  UNCHANGED <<place, answered>>
  BY <1>10 DEF FollowBegin
<1>11. CASE UNCHANGED vars
  BY <1>2, <1>11
<1> QED BY <1>2, <1>3, <1>4, <1>5, <1>6, <1>7, <1>8, <1>9, <1>10, <1>11 DEF Next

-----------------------------------------------------------------------------
(* The invariant, and what it says of every behaviour.                      *)

LEMMA InvInit == Init => Inv
<1>1. Init => RunningIsKnown
  BY DEF Init, RunningIsKnown
<1> QED BY <1>1, TypeInit, FreshInit, ExitInit, ReadInit, KillInit, PrintInit DEF Inv

LEMMA InvStep == Inv /\ [Next]_vars => Inv'
<1> SUFFICES ASSUME Inv, [Next]_vars PROVE Inv'
  OBVIOUS
<1>1. TypeOK'
  BY TypeStep DEF Inv
<1>2. FreshInv' /\ KillInv' /\ RunningIsKnown'
  BY FreshStep, KillStep, KnownStep DEF Inv
<1>3. ExitInv' /\ ReadInv'
  BY <1>1, ExitStep, ReadStep DEF Inv
<1>4. PrintsTheLog' /\ EofMissesNothing'
  BY PrintStep, EofStep DEF Inv
<1> QED BY <1>1, <1>2, <1>3, <1>4 DEF Inv

LEMMA InvHolds == Spec => []Inv
  BY InvInit, InvStep, PTL DEF Spec

(* Every part of the state has its type: a read never answers an offset     *)
(* before the one it was asked for, and a page is never of negative length. *)
THEOREM TypeCorrect == Spec => []TypeOK
<1>1. Inv => TypeOK
  BY DEF Inv
<1> QED BY <1>1, InvHolds, PTL

(* No push and no list, with any MAX_JOBS, makes the agent forget a job it  *)
(* answered for and whose command has not ended (Registry::prune).          *)
THEOREM RunningStaysKnown == Spec => []RunningIsKnown
<1>1. Inv => RunningIsKnown
  BY DEF Inv
<1> QED BY <1>1, InvHolds, PTL

(* A stop that answers `stopped: true` leaves nothing of the group that goes *)
(* on, then or later, whatever the processes do with SIGTERM, unless one ran *)
(* as a user the agent may not signal when it was looked at (terminate).    *)
THEOREM StopEndsTheGroup == Spec => []StoppedIsDead
<1>1. Inv => StoppedIsDead
  BY DEF Inv, KillInv, StoppedIsDead
<1> QED BY <1>1, InvHolds, PTL

(* With any page size and any growth of the log between the steps of a      *)
(* read, a follower prints the log from its offset, no byte twice and none  *)
(* left out (logs and follow).                                              *)
THEOREM FollowerPrintsTheLog == Spec => []PrintsTheLog
<1>1. Inv => PrintsTheLog
  BY DEF Inv
<1> QED BY <1>1, InvHolds, PTL

(* The end of a followed log is never claimed before all that had been      *)
(* written when the exit was recorded has been read, whichever reads failed *)
(* before, unless the log could not be opened for that answer (logs).       *)
THEOREM EofIsComplete == Spec => []EofMissesNothing
<1>1. Inv => EofMissesNothing
  BY DEF Inv
<1> QED BY <1>1, InvHolds, PTL
=============================================================================
