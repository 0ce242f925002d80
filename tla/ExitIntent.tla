------------------------------ MODULE ExitIntent ------------------------------
(***************************************************************************)
(* What the VPN exit promises the hub, without rules, devices or threads:  *)
(* the word it keeps on disk and the word it acts on are the hub's last,   *)
(* less the passes that have run out, and only the word on disk is brought *)
(* back after a crash.  A start that raced an apply is the one way to an   *)
(* older word.                                                             *)
(***************************************************************************)
CONSTANTS Peers, Relays, None

Desired == [id : Relays, peers : SUBSET Peers]

VARIABLES
    word,      \* what the hub last applied, None after a disable
    kept,      \* what a restart finds
    running,   \* what is acted on, None while there is nothing to act on
    lapsed,    \* passes that have run out
    raced      \* some start raced an apply

intentVars == <<word, kept, running, lapsed, raced>>

Less(d, gone) == [d EXCEPT !.peers = @ \ gone]

Init == /\ word = None /\ kept = None /\ running = None
        /\ lapsed = {} /\ raced = FALSE

Adopt(d) ==
    /\ \E gone \in SUBSET lapsed : kept' = Less(d, gone)
    /\ running' = kept'
    /\ UNCHANGED <<lapsed, raced>>

\* The hub applies a word.
Accept == \E d \in Desired : Adopt(d) /\ word' = kept'

\* The hub disables the exit.
Revoke == /\ word' = None /\ kept' = None /\ running' = None
          /\ UNCHANGED <<lapsed, raced>>

\* A new process takes up the word it finds on disk.
Restore == kept # None /\ Adopt(kept) /\ UNCHANGED word

\* Passes that have run out leave the word.
Prune == running # None /\ Adopt(running) /\ UNCHANGED word

\* A start that raced an apply takes up the word the apply replaced.
Relapse == raced /\ \E d \in Desired : Adopt(d) /\ UNCHANGED word

Crash == running' = None /\ UNCHANGED <<word, kept, lapsed, raced>>

Lapse(p) == lapsed' = lapsed \cup {p} /\ UNCHANGED <<word, kept, running, raced>>

LoseRace == raced' = TRUE /\ UNCHANGED <<word, kept, running, lapsed>>

Next ==
    \/ Accept \/ Revoke \/ Restore \/ Prune \/ Relapse \/ Crash \/ LoseRace
    \/ \E p \in Peers : Lapse(p)

Spec == Init /\ [][Next]_intentVars
=============================================================================
