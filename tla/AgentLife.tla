------------------------------ MODULE AgentLife ------------------------------
(***************************************************************************)
(* The life of the agent's process on one device: the one-agent lock       *)
(* (instance.rs), the update slot (updatelock.rs), the replacement of the  *)
(* binary or of the Mac app (http.rs apply_update, selfheal.rs,            *)
(* appbundle.rs) by the timer (discovery.rs) and by the hub's POST /update,*)
(* and the service manager that starts what the autostart entry names.     *)
(*                                                                         *)
(* Builds are numbered by their version.  An external outcome (a failed    *)
(* rename, a short write, a refused exec) is a choice that costs a fault.  *)
(***************************************************************************)
EXTENDS Naturals, FiniteSets

CONSTANTS
    None,        \* no build, no process, no updater
    Stale,       \* the process id of a process that is gone
    Cut,         \* a file that holds only part of a build
    Procs,       \* process ids
    Builds,      \* the builds the hub may publish, by version
    Startable,   \* those this device can run
    Size,        \* their length in bytes
    PublishesSums,  \* the hub publishes SHA256SUMS
    Platforms, MaxStarts, MaxPublished, MaxFaults, MaxCrashes

ASSUME AgentAssumption ==
    /\ Builds \subseteq Nat /\ Startable \subseteq Builds /\ Startable # {}
    /\ Size \in [Builds -> Nat \ {0}]
    /\ PublishesSums \in BOOLEAN /\ Platforms \subseteq {"linux", "windows", "macos"}
    /\ None \notin Builds \cup Procs /\ Cut \notin Builds /\ Stale \notin Procs
    /\ None # Cut /\ None # Stale
    /\ {MaxStarts, MaxPublished, MaxFaults, MaxCrashes} \subseteq Nat

Updaters == {"timer", "push"}

\* Where binaries lie: the launch path, the paths Linux reports for a running
\* file that was replaced once and twice, and the Mac app.
Paths == {"bin", "bin (deleted)", "bin (deleted) (deleted)", "app"}

VARIABLES
    os,          \* the platform
    disk,        \* what each path holds
    stage, old,  \* the app a process has unpacked beside the app, and those it moved
                 \* aside (each update under a name of its own)
    entry,       \* the path the autostart entry starts
    managed,     \* a service manager starts the entry and restarts it when it ends
                 \* (the Windows task only starts it at logon: a start by hand here)
    reload,      \* launchd was told to load the entry again
    published,   \* the build the hub publishes
    agent,       \* the processes
    lock, pid,   \* who holds agent.lock, and the process id written in it
    slot,        \* each process's update slot (updatelock::SLOT)
    upd,         \* its updaters
    startsLeft, pubsLeft, faultsLeft, crashesLeft

fileVars == <<disk, stage, old>>
svcVars == <<entry, managed, reload, published>>
lockVars == <<lock, pid>>
boundVars == <<startsLeft, pubsLeft, faultsLeft, crashesLeft>>
vars == <<os, fileVars, svcVars, agent, lockVars, slot, upd, boundVars>>

NoAgent == [st |-> "none", build |-> None, exe |-> "bin", own |-> None, svc |-> FALSE]
NoUpdate == [st |-> "idle", got |-> None, at |-> "bin", aside |-> None]

Init ==
    /\ os \in Platforms
    /\ \E b \in Startable :
          /\ published = b
          /\ entry \in IF os = "macos" THEN {"bin", "app"} ELSE {"bin"}
          /\ disk = [x \in Paths |-> IF x = entry THEN b ELSE None]
    /\ stage = [p \in Procs |-> None] /\ old = [p \in Procs |-> {}]
    /\ managed \in IF os = "windows" THEN {FALSE} ELSE BOOLEAN
    /\ reload = FALSE
    /\ agent = [p \in Procs |-> NoAgent]
    /\ lock = None /\ pid = None
    /\ slot = [p \in Procs |-> None]
    /\ upd = [p \in Procs |-> [u \in Updaters |-> NoUpdate]]
    /\ startsLeft = MaxStarts /\ pubsLeft = MaxPublished
    /\ faultsLeft = MaxFaults /\ crashesLeft = MaxCrashes
-----------------------------------------------------------------------------
Alive(p) == agent[p].st # "none"
Unix == os # "windows"
Fault == faultsLeft > 0 /\ faultsLeft' = faultsLeft - 1
NoFault == UNCHANGED faultsLeft
At(p, u, st) == upd[p][u].st = st /\ Alive(p)
Goto(p, u, st) == upd' = [upd EXCEPT ![p][u].st = st]

\* The updater is done: its slot is free again (Drop of UpdateSlot).
Drop(p, u) ==
    /\ upd' = [upd EXCEPT ![p][u] = NoUpdate]
    /\ slot' = [slot EXCEPT ![p] = None]

\* Mutant of Held: the slot is released when the replacement was launched.
HeldNot(p) == slot' = [slot EXCEPT ![p] = None]
\* hold_until_exit: the slot is leaked, so that nothing updates a process that ends.
Held(p) == UNCHANGED slot

\* Processes end: their lock goes with their descriptors, their ids mean nobody.
\* The others are what after says.
End(gone, after) ==
    /\ agent' = [q \in Procs |-> IF q \in gone THEN NoAgent ELSE after[q]]
    /\ lock' = IF lock \in gone THEN None ELSE lock
    /\ pid' = IF pid \in gone THEN Stale ELSE pid
    /\ slot' = [q \in Procs |-> IF q \in gone THEN None ELSE slot[q]]
    /\ upd' = [q \in Procs |-> IF q \in gone THEN [u \in Updaters |-> NoUpdate] ELSE upd[q]]
Gone(p) == End({p}, agent)

\* What a process that starts from path x is; Windows has no one-agent lock.
Started(x, svc) == [st |-> IF Unix THEN "claim" ELSE "main", build |-> disk[x],
                    exe |-> x, own |-> None, svc |-> svc]
-----------------------------------------------------------------------------
(* Starting: main, cleanup_leftovers, instance::claim.                      *)

\* A process that starts from the app removes what updates left beside it,
\* whoever's they are.
Cleanup(x) ==
    IF x = "app" THEN /\ stage' = [q \in Procs |-> None]
                      /\ old' = [q \in Procs |-> {}]
                 ELSE UNCHANGED <<stage, old>>

Launch(p, svc) ==
    /\ ~Alive(p) /\ disk[entry] \in Startable
    /\ agent' = [agent EXCEPT ![p] = Started(entry, svc)]
    /\ Cleanup(entry)
    /\ UNCHANGED <<os, disk, svcVars, lockVars, slot, upd, pubsLeft, faultsLeft, crashesLeft>>

StartByHand(p) == startsLeft > 0 /\ startsLeft' = startsLeft - 1 /\ Launch(p, FALSE)

\* The service manager keeps one process of the entry running.
ServiceStart(p) ==
    /\ managed /\ ~reload /\ \A q \in Procs : Alive(q) => ~agent[q].svc
    /\ Launch(p, TRUE) /\ UNCHANGED startsLeft

\* The reload of an entry ends the process launchd started before.
Reload ==
    /\ reload /\ reload' = FALSE
    /\ End({q \in Procs : Alive(q) /\ agent[q].svc}, agent)
    /\ UNCHANGED <<os, fileVars, entry, managed, published, boundVars>>

\* started_by_service_manager: such a start leaves the running agent alone.
ExitsWhenTaken(p) == agent[p].svc

\* claim: take the lock; or exit, or end the process named in the file and wait (the
\* agent handles no signal: it ends at once); a file that names nobody, or this very
\* process, is no reason to wait.
Claim(p) ==
    /\ agent[p].st = "claim"
    /\ LET to(st) == [agent EXCEPT ![p].st = st]
       IN \/ /\ lock = None /\ lock' = p
             /\ agent' = to("truncate")
             /\ UNCHANGED <<pid, slot, upd, faultsLeft>>
          \/ lock # None /\ ExitsWhenTaken(p) /\ Gone(p) /\ NoFault
          \/ /\ lock # None /\ ~ExitsWhenTaken(p) /\ pid \notin {None, p}
             /\ End({pid} \cap Procs, to("wait")) /\ NoFault
          \/ /\ lock # None /\ ~ExitsWhenTaken(p) /\ pid \in {None, p}
             /\ agent' = to("main")
             /\ UNCHANGED <<lockVars, slot, upd, faultsLeft>>
          \/ /\ Fault                           \* the file cannot be opened or locked
             /\ agent' = to("main")
             /\ UNCHANGED <<lockVars, slot, upd>>
    /\ UNCHANGED <<os, fileVars, svcVars, startsLeft, pubsLeft, crashesLeft>>

\* record_pid: the file is emptied, then written.
RecordPid(p) ==
    /\ \/ /\ agent[p].st = "truncate" /\ pid' = None
          /\ agent' = [agent EXCEPT ![p].st = "record"]
       \/ /\ agent[p].st = "record" /\ pid' = p
          /\ agent' = [agent EXCEPT ![p].st = "main"]
    /\ UNCHANGED <<os, fileVars, svcVars, lock, slot, upd, boundVars>>

\* The 60 tries after the signal; another start may have been faster.
Wait(p) ==
    /\ agent[p].st = "wait"
    /\ \/ /\ lock = None /\ lock' = p
          /\ agent' = [agent EXCEPT ![p].st = "truncate"]
       \/ /\ lock # None /\ UNCHANGED lock
          /\ agent' = [agent EXCEPT ![p].st = "main"]
    /\ UNCHANGED <<os, fileVars, svcVars, pid, slot, upd, boundVars>>

\* main after the claim: the update timer's thread reads the binary it believes
\* it runs; the app has no timer.
Serve(p) ==
    /\ agent[p].st = "main"
    /\ LET x == agent[p].exe
           own == IF x # "app" /\ disk[x] \in Builds THEN disk[x] ELSE None
       IN agent' = [agent EXCEPT ![p].st = "serving", ![p].own = own]
    /\ UNCHANGED <<os, fileVars, svcVars, lockVars, slot, upd, boundVars>>

Crash(p) ==
    /\ Alive(p) /\ crashesLeft > 0 /\ crashesLeft' = crashesLeft - 1
    /\ Gone(p)
    /\ UNCHANGED <<os, fileVars, svcVars, startsLeft, pubsLeft, faultsLeft>>

Publish ==
    /\ pubsLeft > 0 /\ pubsLeft' = pubsLeft - 1
    /\ \E b \in Builds : b > published /\ published' = b
    /\ UNCHANGED <<os, fileVars, entry, managed, reload, agent, lockVars, slot, upd,
                   startsLeft, faultsLeft, crashesLeft>>
-----------------------------------------------------------------------------
(* One update, by the timer or by POST /update: from the slot to the new    *)
(* binary at the launch path.                                               *)

\* try_begin; a busy slot skips the timer's round and refuses the push.
SlotFree(p) == slot[p] = None

\* The timer compares the published checksum, if there is one, with what it read at
\* its start.
Begin(p, u) ==
    /\ agent[p].st = "serving" /\ upd[p][u].st = "idle" /\ SlotFree(p)
    /\ u = "timer" => agent[p].own # None /\ (PublishesSums => agent[p].own # published)
    /\ slot' = [slot EXCEPT ![p] = u]
    /\ Goto(p, u, IF os = "macos" THEN "stage" ELSE "fetch")
    /\ UNCHANGED <<os, fileVars, svcVars, agent, lockVars, boundVars>>

\* Mutant of AlreadyRunning: the downloaded build is always installed.
AlreadyRunningNever(p, u, got) == FALSE
\* is_running_binary, or the timer's comparison of the bytes.
AlreadyRunning(p, u, got) ==
    got = IF u = "timer" THEN agent[p].own ELSE disk[agent[p].exe]

Fetch(p, u) ==
    /\ At(p, u, "fetch")
    /\ \E got \in {published, Cut} :
          /\ IF got = Cut THEN Fault ELSE NoFault
          /\ \/ AlreadyRunning(p, u, got) /\ Drop(p, u)
             \/ /\ ~AlreadyRunning(p, u, got) /\ UNCHANGED slot
                /\ upd' = [upd EXCEPT ![p][u].st = "sig", ![p][u].got = got]
    /\ UNCHANGED <<os, fileVars, svcVars, agent, lockVars, startsLeft, pubsLeft, crashesLeft>>

\* The signature is fetched after the bytes; it fits what is published by then.
SignatureFits(got) == got = published

Verify(p, u) ==
    /\ At(p, u, "sig")
    /\ IF SignatureFits(upd[p][u].got) THEN Goto(p, u, "replace") /\ UNCHANGED slot
                                       ELSE Drop(p, u)
    /\ UNCHANGED <<os, fileVars, svcVars, agent, lockVars, boundVars>>

\* Linux reports the path of a running file that was replaced as deleted.
Deleted(x) == IF x = "bin" THEN "bin (deleted)" ELSE "bin (deleted) (deleted)"

\* self_replace: the file is replaced under the path, or not, or (Windows, which
\* first moves it aside) is missing afterwards; nothing to replace is a failure.
Replace(p, u) ==
    /\ At(p, u, "replace")
    /\ LET x == agent[p].exe
       IN \/ /\ disk[x] # None /\ NoFault
             /\ disk' = [disk EXCEPT ![x] = upd[p][u].got]
             /\ agent' = [q \in Procs |->
                    IF os = "linux" /\ Alive(q) /\ agent[q].exe = x
                    THEN [agent[q] EXCEPT !.exe = Deleted(x)] ELSE agent[q]]
             /\ upd' = [upd EXCEPT ![p][u].st = "ensure", ![p][u].at = x]
          \/ /\ IF disk[x] = None THEN NoFault ELSE Fault
             /\ disk' \in {disk} \cup IF os = "windows" THEN {[disk EXCEPT ![x] = None]} ELSE {}
             /\ upd' = [upd EXCEPT ![p][u].st = "ensure", ![p][u].at = x]
             /\ UNCHANGED agent
    /\ UNCHANGED <<os, stage, old, svcVars, lockVars, slot, startsLeft, pubsLeft, crashesLeft>>

\* "Holds bytes is judged by length" (ensure_installed).
Holds(x, got) == disk[x] \in Builds /\ got \in Builds /\ Size[disk[x]] = Size[got]

\* A file that is being executed cannot be opened for writing, except on a Mac.
Busy(x) == os # "macos" /\ \E q \in Procs : Alive(q) /\ agent[q].exe = x /\ agent[q].build = disk[x]

\* ensure_installed at the path captured before: leave it, or write it in place;
\* a failed or short write is reported and the process stays.
Ensure(p, u) ==
    /\ At(p, u, "ensure")
    /\ LET x == upd[p][u].at
           got == upd[p][u].got
       IN \/ /\ Holds(x, got) /\ NoFault /\ UNCHANGED <<disk, slot>>
             /\ Goto(p, u, "launch")
          \/ /\ ~Holds(x, got) /\ ~Busy(x) /\ NoFault /\ UNCHANGED slot
             /\ disk' = [disk EXCEPT ![x] = got]
             /\ Goto(p, u, "launch")
          \/ /\ ~Holds(x, got) /\ Drop(p, u)
             /\ \/ Busy(x) /\ NoFault /\ UNCHANGED disk
                \/ Fault /\ disk' \in {disk, [disk EXCEPT ![x] = Cut]}
    /\ UNCHANGED <<os, stage, old, svcVars, agent, lockVars, startsLeft, pubsLeft, crashesLeft>>

\* Mutant of Launched: the process ends although nothing was launched.
LaunchFailedExits(p, u) == Goto(p, u, "exit") /\ UNCHANGED slot
\* A replacement that did not start: the binary's update is over and the process
\* stays; the app is put back first.
LaunchFailed(p, u) ==
    IF agent[p].exe = "app" THEN Goto(p, u, "unswap") /\ UNCHANGED slot ELSE Drop(p, u)

\* exec in place on Unix, which keeps the process id but not the lock's descriptor;
\* or a child, after which the process ends; or neither.
Relaunch(p, u) ==
    /\ At(p, u, "launch")
    /\ LET x == upd[p][u].at
           runs == disk[x] \in Startable
       IN \/ /\ Unix /\ runs /\ NoFault
             /\ agent' = [agent EXCEPT ![p] = Started(x, agent[p].svc)]
             /\ lock' = IF lock = p THEN None ELSE lock
             /\ slot' = [slot EXCEPT ![p] = None]
             /\ upd' = [upd EXCEPT ![p] = [v \in Updaters |-> NoUpdate]]
             /\ Cleanup(x)
          \/ /\ runs /\ IF Unix THEN Fault ELSE NoFault
             /\ \E q \in Procs : ~Alive(q) /\ agent' = [agent EXCEPT ![q] = Started(x, agent[p].svc)]
             /\ Goto(p, u, "exit") /\ Held(p)
             /\ Cleanup(x) /\ UNCHANGED lock
          \/ /\ IF runs THEN Fault ELSE NoFault
             /\ LaunchFailed(p, u)
             /\ UNCHANGED <<agent, stage, old, lock>>
    /\ UNCHANGED <<os, disk, svcVars, pid, startsLeft, pubsLeft, crashesLeft>>

\* 500 or 700 ms later.
Exit(p, u) ==
    /\ At(p, u, "exit") /\ Gone(p)
    /\ UNCHANGED <<os, fileVars, svcVars, boundVars>>
-----------------------------------------------------------------------------
(* The Mac app: appbundle::install from within it, appbundle::migrate from a *)
(* bare binary, which falls back to updating the binary.                     *)

\* The app's update is over without a new process; the stage is removed.
Over(p, u) ==
    /\ stage' = [stage EXCEPT ![p] = None]
    /\ IF agent[p].exe = "app" THEN Drop(p, u) ELSE Goto(p, u, "fetch") /\ UNCHANGED slot

\* fetch_verified: the app the hub publishes, once its signature is checked.
AppOffered == published

IsNewer(b, running) == b > running
MayMigrateTo(b, running) == ~IsNewer(running, b)

\* What an app, or a bare binary, accepts.
Newer(p) == IF agent[p].exe = "app" THEN IsNewer(AppOffered, agent[p].build)
                                    ELSE MayMigrateTo(AppOffered, agent[p].build)

Unpack(p, u) ==
    /\ At(p, u, "stage")
    /\ \/ /\ Newer(p) /\ NoFault /\ UNCHANGED slot
          /\ stage' = [stage EXCEPT ![p] = AppOffered]
          /\ Goto(p, u, IF agent[p].exe = "app" \/ disk["app"] # None THEN "aside" ELSE "movein")
       \/ /\ IF Newer(p) THEN Fault ELSE NoFault
          /\ Over(p, u)
    /\ UNCHANGED <<os, disk, old, svcVars, agent, lockVars, startsLeft, pubsLeft, crashesLeft>>

\* swap, first rename.
MoveAside(p, u) ==
    /\ At(p, u, "aside")
    /\ \/ /\ disk["app"] # None /\ NoFault
          /\ old' = [old EXCEPT ![p] = @ \cup {disk["app"]}]
          /\ disk' = [disk EXCEPT !["app"] = None]
          /\ upd' = [upd EXCEPT ![p][u].st = "movein", ![p][u].aside = disk["app"]]
          /\ UNCHANGED <<slot, stage>>
       \/ /\ IF disk["app"] # None THEN Fault ELSE NoFault
          /\ Over(p, u) /\ UNCHANGED <<disk, old>>
    /\ UNCHANGED <<os, svcVars, agent, lockVars, startsLeft, pubsLeft, crashesLeft>>

\* swap, second rename; when it fails the old app is moved back.
MoveIn(p, u) ==
    /\ At(p, u, "movein")
    /\ \/ /\ stage[p] # None /\ disk["app"] = None /\ NoFault
          /\ disk' = [disk EXCEPT !["app"] = stage[p]]
          /\ stage' = [stage EXCEPT ![p] = None]
          /\ upd' = [upd EXCEPT ![p][u].st = IF agent[p].exe = "app" THEN "launch" ELSE "repoint",
                                ![p][u].at = "app"]
          /\ UNCHANGED slot
       \/ /\ IF stage[p] # None /\ disk["app"] = None THEN Fault ELSE NoFault
          /\ IF upd[p][u].aside # None THEN Goto(p, u, "putback") /\ UNCHANGED <<slot, stage>>
                              ELSE Over(p, u)
          /\ UNCHANGED disk
    /\ UNCHANGED <<os, old, svcVars, agent, lockVars, startsLeft, pubsLeft, crashesLeft>>

\* unswap, first rename (or undo_app's only one).
Unswap(p, u) ==
    /\ At(p, u, "unswap")
    /\ \/ /\ disk["app"] # None /\ NoFault
          /\ stage' = [stage EXCEPT ![p] = disk["app"]]
          /\ disk' = [disk EXCEPT !["app"] = None]
          /\ Goto(p, u, "putback") /\ UNCHANGED slot
       \/ /\ IF disk["app"] # None THEN Fault ELSE NoFault
          /\ Over(p, u) /\ UNCHANGED disk
    /\ UNCHANGED <<os, old, svcVars, agent, lockVars, startsLeft, pubsLeft, crashesLeft>>

\* Mutant of PutsBack: the app moved aside stays aside.
PutsBackNever(p, u) == FALSE
\* unswap, second rename, and the same rename in swap.
PutsBack(p, u) == upd[p][u].aside \in old[p] /\ disk["app"] = None

PutBack(p, u) ==
    /\ At(p, u, "putback")
    /\ \/ /\ PutsBack(p, u) /\ NoFault
          /\ disk' = [disk EXCEPT !["app"] = upd[p][u].aside]
          /\ old' = [old EXCEPT ![p] = @ \ {upd[p][u].aside}]
       \/ /\ IF PutsBack(p, u) THEN Fault ELSE NoFault
          /\ UNCHANGED <<disk, old>>
    /\ Over(p, u)
    /\ UNCHANGED <<os, svcVars, agent, lockVars, startsLeft, pubsLeft, crashesLeft>>

\* mac_repoint: only an entry that starts this binary is pointed at the app.
Repoint(p, u) ==
    /\ At(p, u, "repoint")
    /\ \/ /\ managed /\ entry = agent[p].exe /\ NoFault
          /\ entry' = "app" /\ Goto(p, u, "handover")
       \/ /\ IF managed /\ entry = agent[p].exe THEN Fault ELSE NoFault
          /\ Goto(p, u, "unswap") /\ UNCHANGED entry
    /\ UNCHANGED <<os, fileVars, managed, reload, published, agent, lockVars, slot, startsLeft,
                   pubsLeft, crashesLeft>>

\* mac_reload_detached, and back to the previous entry when its shell does not start.
HandOver(p, u) ==
    /\ At(p, u, "handover")
    /\ \/ /\ NoFault /\ reload' = TRUE /\ UNCHANGED entry
          /\ Goto(p, u, "exit") /\ Held(p)
       \/ /\ Fault /\ entry' = agent[p].exe /\ UNCHANGED reload
          /\ Goto(p, u, "unswap") /\ UNCHANGED slot
    /\ UNCHANGED <<os, fileVars, managed, published, agent, lockVars, startsLeft, pubsLeft,
                   crashesLeft>>
-----------------------------------------------------------------------------
ClaimStep(p) == Claim(p) \/ RecordPid(p) \/ Wait(p) \/ Serve(p)
AppStep(p, u) == Unpack(p, u) \/ MoveAside(p, u) \/ MoveIn(p, u) \/ Unswap(p, u)
                 \/ PutBack(p, u) \/ Repoint(p, u) \/ HandOver(p, u)
UpdateStep(p, u) == Fetch(p, u) \/ Verify(p, u) \/ Replace(p, u) \/ Ensure(p, u)
                    \/ Relaunch(p, u) \/ Exit(p, u) \/ AppStep(p, u)

Next ==
    \/ Reload \/ Publish
    \/ \E p \in Procs :
          \/ StartByHand(p) \/ ServiceStart(p) \/ ClaimStep(p) \/ Crash(p)
          \/ \E u \in Updaters : Begin(p, u) \/ UpdateStep(p, u)

Spec == Init /\ [][Next]_vars

\* The threads of a process run, and a service manager starts its
\* entry; nobody has to start an agent by hand, publish or push.
Fairness ==
    /\ WF_vars(Reload)
    /\ \A p \in Procs : /\ WF_vars(ClaimStep(p))
                        /\ \A u \in Updaters : WF_vars(UpdateStep(p, u))
    /\ WF_vars(\E p \in Procs : ServiceStart(p))

FairSpec == Spec /\ Fairness
-----------------------------------------------------------------------------
AgentType == [st : {"none", "claim", "wait", "truncate", "record", "main", "serving"},
              build : Builds \cup {None}, exe : Paths, own : Builds \cup {None}, svc : BOOLEAN]
UpdType == [st : {"idle", "fetch", "sig", "replace", "launch", "exit", "stage", "aside", "movein",
                  "unswap", "putback", "repoint", "handover", "ensure"},
            got : Builds \cup {None, Cut}, at : Paths, aside : Builds \cup {None}]

\* The type of every variable; an updater at work holds its process's slot
\* (update_ep and the timers take it before anything else).
TypeOK ==
    /\ os \in Platforms /\ entry \in {"bin", "app"} /\ managed \in BOOLEAN /\ reload \in BOOLEAN
    /\ disk \in [Paths -> Builds \cup {None, Cut}]
    /\ stage \in [Procs -> Builds \cup {None}] /\ old \in [Procs -> SUBSET Builds]
    /\ published \in Builds
    /\ agent \in [Procs -> AgentType]
    /\ lock \in Procs \cup {None} /\ pid \in Procs \cup {None, Stale}
    /\ slot \in [Procs -> Updaters \cup {None}]
    /\ upd \in [Procs -> [Updaters -> UpdType]]
    /\ {startsLeft, pubsLeft, faultsLeft, crashesLeft} \subseteq Nat
    /\ \A p \in Procs, u \in Updaters : upd[p][u].st # "idle" => slot[p] = u

\* "Callers must NOT exit the still-running process when this is false: a failed
\* relaunch with no supervisor would otherwise leave the device dead" (apply_update):
\* a process that ends after its update leaves another agent running, or a service
\* manager with a program it can start.  migrate hands over to an app whose signature
\* it verified and which nobody has started yet: that the app starts is assumed there.
NeverGoesDark ==
    [][\A p \in Procs : (\E u \in Updaters : upd[p][u].st = "exit") /\ Alive(p) /\ ~Alive(p)'
           /\ crashesLeft' = MaxCrashes
         => \/ \E q \in Procs \ {p} : Alive(q)
            \/ managed /\ (disk[entry] \in Startable \/ <<agent[p].exe, entry>> = <<"bin", "app">>)]_vars

\* One process was ever started, and nothing starts another.
Single == ~managed /\ startsLeft = MaxStarts - 1

\* "A hub that keeps pushing the same binary must not be able to turn that into a
\* restart loop" (update_ep): what an update launches, in the process's place (exec)
\* or beside it before it ends (a child: every restart on Windows, and what follows a
\* refused exec), runs another build than the process it replaces; but for one of the
\* same length after a replacement that failed, and for two agents that swap one app
\* (the slot is per process).
RestartChangesBuild ==
    [][\A p \in Procs, q \in Procs, u \in Updaters :
          /\ At(p, u, "launch") /\ upd'[p][u].st # "launch"
          /\ Alive(q)' /\ agent'[q] # agent[q] /\ (q = p \/ ~Alive(q))
          => \/ agent'[q].build # agent[p].build
             \/ faultsLeft < MaxFaults
             \/ agent[p].exe = "app" /\ ~Single]_vars

\* "On failure the original is back" (swap, unswap): an update of the app that ends
\* without a restart leaves a build that starts at the app's path; after a fault (a
\* rename refused, here or while putting back) it is there or still aside, never gone.
\* A second agent could meddle: there is none.
AppRollsBack ==
    [][\A p \in Procs, u \in Updaters :
          /\ upd[p][u].st # "idle" /\ upd'[p][u].st = "idle"
          /\ agent[p].exe = "app" /\ agent'[p] = agent[p]
          /\ Single
          => \/ disk'["app"] \in Startable
             \/ faultsLeft' < MaxFaults /\ old'[p] \cap Startable # {}]_vars

\* However starts, signals, execs, exits and crashes fall, a device whose entry a
\* service manager starts, or on which an agent was started by hand and none died of
\* something else, always has an agent that serves again, unless the entry names what
\* does not start (without a manager: the app of the assumption at NeverGoesDark).
SomeoneServes ==
    (managed \/ startsLeft < MaxStarts)
        ~> \/ \E p \in Procs : agent[p].st = "serving"
           \/ ~managed /\ crashesLeft < MaxCrashes
           \/ (managed \/ entry = "app") /\ disk[entry] \notin Startable
=============================================================================
