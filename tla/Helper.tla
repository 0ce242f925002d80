-------------------------------- MODULE Helper --------------------------------
(***************************************************************************)
(* A Windows service cannot see the desktop: it keeps one helper process   *)
(* in the console session and passes the requests of Screen on to it       *)
(* (crates/agent/src/winsession/client.rs, winsession/helper.rs,           *)
(* securedesk/logic.rs), which holds the table of sessions.  On the other  *)
(* devices Screen's requests are served in the agent.                      *)
(***************************************************************************)
EXTENDS Screen

CONSTANTS
    Pids,       \* bound: names for helper processes
    Ports       \* loopback ports

ASSUME HelperAssumption == None \notin Pids /\ None \notin Ports /\ None \notin {1, 2}

VARIABLES
    console,    \* the console session, or None
    slot,       \* [live, fails, cooling, holder]: SLOT and who holds its lock
    helper      \* the helper processes

vars == <<screenVars, console, slot, helper>>

\* cooling: the last failure is less than the backoff ago.
FreshSlot == [live |-> None, fails |-> 0, cooling |-> FALSE, holder |-> None]
NoHelper == [state |-> "ended", code |-> "idle", port |-> None, session |-> None, orphan |-> FALSE, rested |-> FALSE]

Init ==
    /\ ScreenInit
    /\ console = IF world.session0 THEN 1 ELSE None
    /\ slot = FreshSlot
    /\ helper = [h \in Pids |-> NoHelper]

Lives(h) == helper[h].state # "ended"
Serves(h) == helper[h].state = "serving"
Inside == {"here", "have", "captured", "done"}

\* record_failure
Failing(s) == [s EXCEPT !.fails = @ + 1, !.cooling = TRUE]

\* A helper that was idle did not fail.
CountsAsFailure(code) == code # "idle"

\* The requests inside a helper that ends fail, and its sessions are gone.
Ended(h, code) ==
    /\ helper' = [helper EXCEPT ![h].state = "ended", ![h].code = code]
    /\ IF helper[h].orphan THEN UNCHANGED <<table, hook>> ELSE table' = <<>> /\ hook' = "default"
Broke(p) ==
    [NoRequest EXCEPT !.pc = "broken", !.v = p.v, !.heard = p.heard, !.pid = p.pid, !.port = p.port]
Broken(h, c) ==
    [d \in Calls |-> IF d # c /\ req[d].pid = h /\ req[d].pc \in Inside THEN Broke(req[d]) ELSE req[d]]

Rest == <<world, screen, sess, viewer>>
Desk == <<table, hook>>
-----------------------------------------------------------------------------
(* ensure, holding the slot's lock.                                         *)

SlotNeverHeld == TRUE
SlotFree == slot.holder = None

\* A dead helper is taken out first.
Reaped ==
    LET h == slot.live
        out == [slot EXCEPT !.live = None]
    IN IF h = None \/ Lives(h) THEN slot
       ELSE IF CountsAsFailure(helper[h].code) THEN Failing(out) ELSE out

\* decide
AnySession(s) ==
    CASE console = None -> "NoSession"
      [] s.live # None -> "Reuse"
      [] OTHER -> IF s.fails > 0 /\ s.cooling THEN "Backoff" ELSE "Spawn"
Decision(s) ==
    CASE console = None -> "NoSession"
      [] s.live # None -> IF helper[s.live].session = console THEN "Reuse" ELSE "Replace"
      [] OTHER -> IF s.fails > 0 /\ s.cooling THEN "Backoff" ELSE "Spawn"

Ensure(c) ==
    LET s == Reaped
    IN /\ req[c].pc = "asked" /\ SlotFree
       /\ CASE Decision(s) = "Reuse" ->
                 /\ req' = [req EXCEPT ![c].pc = "call", ![c].pid = s.live, ![c].port = helper[s.live].port]
                 /\ slot' = s /\ UNCHANGED <<helper, Desk>>
            [] Decision(s) \in {"NoSession", "Backoff"} ->
                 /\ req' = [req EXCEPT ![c].pc = "failed"]
                 /\ slot' = s /\ UNCHANGED <<helper, Desk>>
            [] Decision(s) = "Replace" ->
                 /\ Ended(s.live, "killed")
                 /\ req' = [Broken(s.live, c) EXCEPT ![c].pc = "spawn"]
                 /\ slot' = [s EXCEPT !.live = None, !.holder = c]
            [] Decision(s) = "Spawn" ->
                 /\ req' = [req EXCEPT ![c].pc = "spawn"]
                 /\ slot' = [s EXCEPT !.holder = c] /\ UNCHANGED <<helper, Desk>>
       /\ UNCHANGED <<Rest, left, console>>

Fails(c, s) ==
    /\ req' = [req EXCEPT ![c].pc = "failed", ![c].pid = None]
    /\ slot' = [s EXCEPT !.holder = None]

\* spawn: free_port, then CreateProcess in the console session of now.
FreePids == {h \in Pids : ~Lives(h) /\ slot.live # h /\ \A c \in Calls : req[c].pid # h}
FreePorts == {n \in Ports : \A h \in Pids : Lives(h) => helper[h].port # n}
Spawn(c) ==
    /\ req[c].pc = "spawn"
    /\ \/ console = None /\ Fails(c, slot) /\ UNCHANGED <<helper, left>>
       \/ /\ console # None /\ FreePids # {}
          /\ \E n \in FreePorts :
                LET h == CHOOSE x \in FreePids : TRUE
                IN /\ helper' = [x \in Pids |->
                        CASE x = h -> [NoHelper EXCEPT !.state = "starting", !.port = n, !.session = console]
                          [] x \in FreePids \ {h} -> NoHelper
                          [] OTHER -> helper[x]]
                   /\ req' = [req EXCEPT ![c].pc = "starting", ![c].pid = h, ![c].port = n]
          /\ UNCHANGED <<slot, left>>
       \/ console # None /\ Spend("faults") /\ Fails(c, Failing(slot)) /\ UNCHANGED helper
    /\ UNCHANGED <<Rest, Desk, console>>

\* The helper binds its port and answers /hello, or exits; or it does neither in
\* five seconds and is killed.
NeverKilled(h) == UNCHANGED <<helper, Desk>>
Killed(h) == Ended(h, "killed")
Hello(c) ==
    LET h == req[c].pid
    IN /\ req[c].pc = "starting"
       /\ \/ /\ Serves(h)
             /\ req' = [req EXCEPT ![c].pc = "call"]
             /\ slot' = [FreshSlot EXCEPT !.live = h]
             /\ UNCHANGED <<helper, Desk, left>>
          \/ ~Lives(h) /\ Fails(c, Failing(slot)) /\ UNCHANGED <<helper, Desk, left>>
          \/ Lives(h) /\ Spend("faults") /\ Killed(h) /\ Fails(c, Failing(slot))
       /\ UNCHANGED <<Rest, console>>

\* request: what is there under this port answers with this key, or not.
Send(c) ==
    /\ req[c].pc = "call"
    /\ LET h == req[c].pid
       IN IF Serves(h)
          THEN req' = [req EXCEPT ![c].pc = "here"] /\ helper' = [helper EXCEPT ![h].rested = FALSE]
          ELSE req' = [req EXCEPT ![c].pc = "broken"] /\ UNCHANGED helper
    /\ UNCHANGED <<Rest, Desk, left, console, slot>>

\* It takes longer than ten seconds.
TimesOut(c) ==
    /\ req[c].pid # None /\ req[c].pc \in Inside /\ Spend("faults")
    /\ req' = [req EXCEPT ![c] = Broke(@)]
    /\ hook' = IF req[c].pc = "captured" THEN req[c].prev ELSE hook
    /\ UNCHANGED <<Rest, table, console, slot, helper>>

\* discard: the helper under this port is stopped.
Discard(c) ==
    LET h == slot.live
    IN /\ req[c].pc = "broken" /\ SlotFree
       /\ IF h # None /\ helper[h].port = req[c].port
          THEN /\ slot' = Failing([slot EXCEPT !.live = None])
               /\ IF Lives(h)
                  THEN Ended(h, "killed") /\ req' = [Broken(h, c) EXCEPT ![c].pc = "failed", ![c].pid = None]
                  ELSE UNCHANGED <<helper, Desk>> /\ req' = [req EXCEPT ![c].pc = "failed", ![c].pid = None]
          ELSE /\ req' = [req EXCEPT ![c].pc = "failed", ![c].pid = None]
               /\ UNCHANGED <<slot, helper, Desk>>
       /\ UNCHANGED <<Rest, left, console>>

\* 503
Refuse(c) ==
    /\ req[c].pc = "failed" /\ req' = [req EXCEPT ![c] = NoRequest]
    /\ UNCHANGED <<Rest, Desk, left, console, slot, helper>>
-----------------------------------------------------------------------------
(* The helper, and what happens around it.                                  *)

Binds(h) ==
    /\ helper[h].state = "starting" /\ ~helper[h].orphan
    /\ helper' = [helper EXCEPT ![h].state = "serving"]
    /\ table' = <<>> /\ hook' = "default" /\ UNCHANGED <<Rest, left, req, console, slot>>

\* The watchdog: nobody asked for ten minutes; or the service is gone.
Rests(h) ==
    /\ Serves(h) /\ ~helper[h].orphan /\ \A c \in Calls : req[c].pid # h
    /\ Spend("exits") /\ helper' = [helper EXCEPT ![h].rested = TRUE]
    /\ UNCHANGED <<Rest, Desk, req, console, slot>>
ExitsIdle(h) ==
    /\ Serves(h) /\ ~helper[h].orphan /\ helper[h].rested
    /\ Ended(h, "idle") /\ UNCHANGED <<Rest, left, req, console, slot>>
ParentGone(h) ==
    /\ Lives(h) /\ helper[h].orphan
    /\ Ended(h, "parent") /\ UNCHANGED <<Rest, left, req, console, slot>>

\* It dies, or its port was taken.
Dies(h) ==
    /\ Lives(h) /\ ~helper[h].orphan /\ Spend("faults")
    /\ Ended(h, "crash") /\ req' = Broken(h, None)
    /\ UNCHANGED <<Rest, console, slot>>

\* The backoff, 30 s at least, is over: a request takes ten at most.
CoolDown ==
    /\ slot.cooling /\ slot' = [slot EXCEPT !.cooling = FALSE]
    /\ \A c \in Calls : req[c].pid = None
    /\ UNCHANGED <<Rest, Desk, left, req, console, helper>>

\* Another user is switched to, or nobody is for a moment.
ConsoleMoves ==
    /\ world.session0 /\ Spend("consoles") /\ console' \in {None, 1, 2} \ {console}
    /\ UNCHANGED <<Rest, Desk, req, slot, helper>>

\* The service is started again; its helper learns of it within a second.
RestartService ==
    /\ world.session0 /\ Spend("restarts")
    /\ req' = [c \in Calls |-> NoRequest] /\ slot' = FreshSlot
    /\ table' = <<>> /\ hook' = "default"
    /\ helper' = [h \in Pids |-> [helper[h] EXCEPT !.orphan = Lives(h)]]
    /\ UNCHANGED <<Rest, console>>

Asks(v) == Ask(v, IF world.session0 THEN "asked" ELSE "here")
\* What is not at the console cannot be captured.
AtConsole(c) == req[c].pid # None => helper[req[c].pid].session = console
OfScreen(c) ==
    \/ SessionFor(c) \/ Capture(c) \/ Deliver(c)
    \/ AtConsole(c) /\ Respond(c)
    \/ ~AtConsole(c) /\ AnswerError(c) /\ UNCHANGED left
OfClient(c) == Ensure(c) \/ Spawn(c) \/ Hello(c) \/ Send(c) \/ Discard(c) \/ Refuse(c)

Next ==
    \/ /\ \/ \E v \in Viewers : Asks(v) \/ GiveUp(v) \/ Switch(v)
          \/ \E c \in Calls : OfScreen(c)
          \/ Paint \/ RestartAgent
       /\ UNCHANGED <<console, slot, helper>>
    \/ \E c \in Calls : OfClient(c) \/ TimesOut(c)
    \/ \E h \in Pids : Binds(h) \/ Rests(h) \/ ExitsIdle(h) \/ ParentGone(h) \/ Dies(h)
    \/ CoolDown \/ ConsoleMoves \/ RestartService

Spec == Init /\ [][Next]_vars

\* Threads go on, a viewer keeps asking, time passes.  A lock is got in the end, and
\* a request waits for no other to begin: Calls is a bound of the model.
Fairness ==
    /\ \A v \in Viewers : SF_vars(Asks(v) /\ UNCHANGED <<console, slot, helper>>)
    /\ \A c \in Calls :
        /\ SF_vars(OfScreen(c) /\ UNCHANGED <<console, slot, helper>>)
        /\ SF_vars(OfClient(c))
    /\ \A h \in Pids : WF_vars(Binds(h)) /\ WF_vars(ParentGone(h))
    /\ WF_vars(CoolDown)
FairSpec == Spec /\ Fairness
-----------------------------------------------------------------------------
(* Properties.                                                              *)

\* The state has its type: a request inside a helper has one, and the lock of the
\* slot is held exactly while a helper is being started (client.rs: ensure).
TypeOK ==
    /\ Len(table) <= MAX_SESSIONS
    /\ \A i, j \in DOMAIN table : table[i].sid = table[j].sid => i = j
    /\ \A c \in Calls : req[c].pc \in {"off", "asked", "spawn", "starting", "call", "broken", "failed"} \cup Inside
    /\ \A c \in Calls : req[c].pc \in {"spawn", "starting"} <=> slot.holder = c
    /\ slot.live # None => helper[slot.live].port # None /\ slot.holder = None
    /\ \A h, i \in Pids : Lives(h) /\ Lives(i) /\ helper[h].port = helper[i].port => h = i

\* A helper that runs, as SYSTEM on somebody's desktop, is the one in the slot or
\* the one being started, or it is about to notice that its service is gone
\* (client.rs: ensure, discard, spawn).
HelperIsKnown == \A h \in Pids :
    Lives(h) => helper[h].orphan \/ slot.live = h \/ \E c \in Calls : slot.holder = c /\ req[c].pid = h

\* Once everything around it has calmed down, every viewer gets to see the desktop
\* as it is and goes on seeing it, unless nobody is at the console or a lost reply
\* went unnoticed (LostBringsKey).
CatchesUp == \A v \in Viewers :
    <>[](v \in world.viewers => Shows(v, Scaled(screen, viewer[v].w)) \/ viewer[v].stale
                                \/ (world.session0 /\ console = None))
===============================================================================
