------------------------------- MODULE Schedules -------------------------------
(* The agent's own schedules (crates/agent/src/schedule.rs): a list in memory *)
(* under a mutex, a thread that fires what is due and arms it again or drops  *)
(* it, and schedules.json, rewritten in place after every change. What is due *)
(* is a question of the clock alone, which goes on while the agent is down.   *)
EXTENDS Naturals, FiniteSets

CONSTANTS
    Requests,   \* requests of the hub, some of which add or delete a schedule
    Ids,        \* the names the hub gives schedules
    Torn,       \* a schedules.json that does not parse
    MaxArms     \* bound: times a recurring schedule is armed

VARIABLES
    mem,        \* store(): the schedules, each by the request that added it
    saved,      \* schedules.json
    store,      \* the mutex: who holds it, at what, with what it still has to fire
    past,       \* clock: the times that have come, as <<request, arm>>
    over,       \* history: the times that were fired, deleted or replaced
    stale,      \* history: one of them was fired
    unsaved     \* history: the agent ended, or a save failed, with a change unsaved

schedules == <<mem, saved, store, past, over, stale, unsaved>>

Entries == [id : Ids, by : Requests, again : BOOLEAN, arm : 1 .. MaxArms + 1]

ASSUME TornAssumption == \A list \in SUBSET Entries : list # Torn

Time(e) == <<e.by, e.arm>>
IsDue(e) == Time(e) \in past

Unlocked == [by |-> "nobody", at |-> "free", due |-> {}]
Free     == store.at = "free"

\* Whoever holds the mutex saves next.
Save(who) == store' = [by |-> who, at |-> "open", due |-> {}]

-----------------------------------------------------------------------------
Without(id) == {e \in mem : e.id # id}
Named(id)   == mem \ Without(id)

(* add: the schedule of that name is replaced.                               *)
Add(r, id, again) ==
    /\ Free /\ Save(r)
    /\ mem' = Without(id) \cup {[id |-> id, by |-> r, again |-> again, arm |-> 1]}
    /\ over' = over \cup {Time(e) : e \in Named(id)}
    /\ UNCHANGED <<saved, past, stale, unsaved>>

Del(r, id) ==
    /\ Free /\ Save(r)
    /\ mem' = Without(id)
    /\ over' = over \cup {Time(e) : e \in Named(id)}
    /\ UNCHANGED <<saved, past, stale, unsaved>>

(* run_scheduler, every 30 s: what is due now.                               *)
Tick ==
    /\ Free /\ \E e \in mem : IsDue(e)
    /\ store' = [by |-> "tick", at |-> "fire", due |-> {e \in mem : IsDue(e)}]
    /\ UNCHANGED <<mem, saved, past, over, stale, unsaved>>

\* What is left of a schedule that was fired: a recurring one is armed again.
Rearmed(e) == IF e.again THEN {[e EXCEPT !.arm = @ + 1]} ELSE {}

(* One command is spawned, and its schedule armed again or dropped.          *)
Fire(e) ==
    /\ store.at = "fire" /\ e \in store.due
    /\ mem' = (mem \ {e}) \cup Rearmed(e)
    /\ store' = [store EXCEPT !.due = @ \ {e}]
    /\ over' = over \cup {Time(e)}
    /\ stale' = (stale \/ Time(e) \in over)
    /\ UNCHANGED <<saved, past, unsaved>>

\* Mutant: what was fired is not saved.
FiredUnsaved ==
    /\ store.at = "fire" /\ store.due = {}
    /\ store' = Unlocked
    /\ UNCHANGED <<mem, saved, past, over, stale, unsaved>>

Fired ==
    /\ store.at = "fire" /\ store.due = {}
    /\ Save("tick")
    /\ UNCHANGED <<mem, saved, past, over, stale, unsaved>>

(* save: fs::write truncates, then writes; its errors are ignored, and `how`  *)
(* says which it met. The mutex is free again afterwards.                    *)
Truncate ==
    /\ store.at = "open"
    /\ saved' = Torn
    /\ store' = [store EXCEPT !.at = "write"]
    /\ UNCHANGED <<mem, past, over, stale, unsaved>>

Written(how) ==
    /\ \/ how = "ok" /\ store.at = "write" /\ saved' = mem /\ UNCHANGED unsaved
       \/ how = "failed" /\ store.at \in {"open", "write"} /\ UNCHANGED saved /\ unsaved' = TRUE
    /\ store' = Unlocked
    /\ UNCHANGED <<mem, past, over, stale>>

(* A time comes.                                                             *)
Clock ==
    /\ \E e \in mem : /\ e.arm <= MaxArms /\ ~IsDue(e)
                      /\ past' = past \cup {Time(e)}
    /\ UNCHANGED <<mem, saved, store, over, stale, unsaved>>

(* The agent ends and starts again: load.                                    *)
Reload ==
    /\ mem' = IF saved = Torn THEN {} ELSE saved
    /\ store' = Unlocked
    /\ unsaved' = (unsaved \/ saved # mem)
    /\ UNCHANGED <<saved, past, over, stale>>

-----------------------------------------------------------------------------
SchedulesInit ==
    /\ mem = {} /\ saved = {} /\ store = Unlocked
    /\ past = {} /\ over = {} /\ stale = FALSE /\ unsaved = FALSE

Scheduler == Tick \/ Fired \/ \E e \in store.due : Fire(e)

(* Every variable has its type. *)
SchedulesTypeOK ==
    /\ mem \subseteq Entries
    /\ saved = Torn \/ saved \subseteq Entries
    /\ store \in [by : Requests \cup {"nobody", "tick"}, at : {"free", "fire", "open", "write"},
                  due : SUBSET mem]
    /\ past \subseteq Requests \X (1 .. MaxArms) /\ over \subseteq Requests \X (1 .. MaxArms + 1)
    /\ stale \in BOOLEAN /\ unsaved \in BOOLEAN

(* "persists it locally and fires it at the set time": a time that was fired, *)
(* deleted or replaced is never fired after that, across restarts, unless the *)
(* agent ended or a save failed before the change was in the file; and a list *)
(* whose every save went well is what the next start will find.              *)
FiresOnce ==
    ~unsaved => /\ ~stale
                /\ Free => saved = mem
                /\ \A e, f \in mem : e.id = f.id => e = f
================================================================================
