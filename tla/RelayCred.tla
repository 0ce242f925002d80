------------------------------- MODULE RelayCred -------------------------------
(***************************************************************************)
(* The credential of an agent's relay calls (crates/agent/src/relaycred.rs)*)
(* and the threads that send it: the start-up fetches (config.rs), the     *)
(* relay loop and its heartbeat (relay.rs), and POST /persist.  The        *)
(* enrollment token enrolls once; the hub then issues a device secret,     *)
(* which is saved in relay.cred and may be rejected later.                 *)
(*                                                                         *)
(* The hub is external, modelled by docs/DEVICE-SECRETS.md as far as the   *)
(* agent's code relies on it.  A request the agent has given up on may     *)
(* still reach the hub, after later ones.                                  *)
(***************************************************************************)
EXTENDS Naturals

CONSTANTS
    None,        \* no value, no file
    Torn,        \* relay.cred exists and does not parse
    Faults,      \* the kinds of failure the environment may inject
    MaxFaults,   \* bound: injected failures
    MaxStarts,   \* bound: starts of the agent, restarts after self-updates included
    MaxHub       \* bound: rotations and revocations by the owner

FaultKinds == {"lost", "late", "save"}

ASSUME RelayAssumption ==
    /\ Faults \subseteq FaultKinds
    /\ MaxFaults \in Nat /\ MaxStarts \in Nat /\ MaxHub \in Nat
    /\ None # Torn
    /\ None \notin Nat /\ None \notin {"main", "beat", "post"}

VARIABLES
    file,      \* relay.cred: None, Torn or [enroll, device]
    start,     \* this start: [token: flag or env, persist: --persist, again: self-update]
    current,   \* RelayCred::current
    lock,      \* the holder of hello_lock
    th,        \* the agent's threads
    htok, hdev,            \* the hub's enrollment token and this device's secret
    minted,                \* secrets the hub has minted for this device
    late,                  \* enrollment tokens of hellos given up on and not seen yet
    faultsLeft, startsLeft, hubLeft,
    revoked,   \* history: secrets the owner revoked
    overtaken  \* history: the hub took a hello the agent had given up on

agentVars == <<file, start, current, lock, th>>
hubVars == <<htok, hdev, minted, late, overtaken>>
vars == <<agentVars, hubVars, faultsLeft, startsLeft, hubLeft, revoked>>

Enroll(n) == [kind |-> "enroll", n |-> n]
Device(n) == [kind |-> "device", n |-> n]
NoCred == [kind |-> "none", n |-> 0]
NoSecret == 0

\* "main" starts up and then runs relay_loop, "beat" is its heartbeat, "post" is
\* POST /persist.
Threads == {"main", "beat", "post"}
Off == [pc |-> "off", job |-> "hello", sent |-> NoCred, got |-> "none", new |-> NoSecret]
Step(t, pc) == th' = [th EXCEPT ![t].pc = pc]

HoldsSecret(f) == f \notin {None, Torn} /\ f.device # None

Inject(kind) == kind \in Faults /\ faultsLeft > 0 /\ faultsLeft' = faultsLeft - 1
NoFault == UNCHANGED faultsLeft

Init ==
    /\ file = None /\ current = NoCred /\ lock = None
    /\ start = [token |-> None, persist |-> FALSE, again |-> FALSE]
    /\ th = [t \in Threads |-> Off]
    /\ htok = 1 /\ hdev = NoSecret /\ minted = 0 /\ late = {} /\ overtaken = FALSE
    /\ faultsLeft = MaxFaults /\ startsLeft = MaxStarts /\ hubLeft = MaxHub
    /\ revoked = {}
-----------------------------------------------------------------------------
(* The end and the start of the process.                                    *)

Running == th["main"].pc # "off"

\* Hellos on their way when the process ends.
Abandoned ==
    {th[t].sent.n : t \in {u \in {"main", "beat"} :
        th[u].pc = "wait" /\ th[u].job = "hello" /\ th[u].sent.kind = "enroll"}}

Launch(s) ==
    /\ startsLeft > 0 /\ startsLeft' = startsLeft - 1
    /\ start' = s
    /\ current' = NoCred /\ lock' = None
    /\ th' = [t \in Threads |->
                IF t = "main" THEN [Off EXCEPT !.pc = IF s.persist THEN "persist" ELSE "resolve"]
                ELSE Off]
    /\ late' = IF "late" \in Faults THEN late \cup Abandoned ELSE late
    /\ UNCHANGED <<file, htok, hdev, minted, overtaken, faultsLeft, hubLeft, revoked>>

\* A start with the owner's enrollment token, with or without --persist, or from
\* an autostart entry, which carries no token; whatever ran before is gone.
Starts ==
    \/ \E persist \in BOOLEAN : Launch([token |-> htok, persist |-> persist, again |-> FALSE])
    \/ Launch([token |-> None, persist |-> FALSE, again |-> FALSE])

\* self_update: the same arguments and environment, marked with IT_AI_SELF_RESTART.
SelfUpdates == Running /\ Launch([start EXCEPT !.again = TRUE])
-----------------------------------------------------------------------------
(* relay.cred.                                                              *)

\* Mutant of Reenrolls: a self-update's --persist counts as an enrollment.
ReenrollsAgain(t) == t = "main"

\* prepare_persist_cred: --persist on this command line, not on a self-update's.
Reenrolls(t) == t = "main" /\ ~start.again

Persisted(t) == IF t = "main" THEN "resolve" ELSE "off"

\* save: the file is truncated and then written in place, by whoever has opened it.
\* A text written over another one, of another length, may not parse; a write that
\* fails leaves a part of it.
Written(cred) ==
    \/ NoFault /\ file' \in (IF file = Torn THEN {cred} ELSE {cred, Torn})
    \/ Inject("save") /\ file' = Torn

\* save_enroll_for_persist: whether to write.
PersistCheck(t) ==
    /\ th[t].pc = "persist"
    /\ Step(t, IF start.token = None \/ (HoldsSecret(file) /\ ~Reenrolls(t))
               THEN Persisted(t) ELSE "ptrunc")
    /\ UNCHANGED <<file, start, current, lock, hubVars, faultsLeft, startsLeft, hubLeft, revoked>>

\* The file cannot be opened, or is empty from here on.
PersistTruncate(t) ==
    /\ th[t].pc = "ptrunc"
    /\ \/ file' = Torn /\ Step(t, "pfill") /\ NoFault
       \/ Inject("save") /\ Step(t, Persisted(t)) /\ UNCHANGED file
    /\ UNCHANGED <<start, current, lock, hubVars, startsLeft, hubLeft, revoked>>

PersistFill(t) ==
    /\ th[t].pc = "pfill"
    /\ Step(t, Persisted(t))
    /\ Written([enroll |-> start.token, device |-> None])
    /\ UNCHANGED <<start, current, lock, hubVars, startsLeft, hubLeft, revoked>>

\* load and resolve: the secret on file, else the token of this start, else the
\* token on file, else the agent refuses to run.
Resolve ==
    /\ th["main"].pc = "resolve"
    /\ IF HoldsSecret(file)
       THEN current' = Device(file.device)
       ELSE IF start.token # None THEN current' = Enroll(start.token)
       ELSE IF file \notin {None, Torn} THEN current' = Enroll(file.enroll)
       ELSE current' = NoCred
    /\ th' = [th EXCEPT !["main"] =
                IF current' = NoCred THEN Off ELSE [Off EXCEPT !.pc = "ready", !.job = "key"]]
    /\ UNCHANGED <<file, start, lock, hubVars, faultsLeft, startsLeft, hubLeft, revoked>>

\* POST /persist, which the loopback server takes while the relay loop runs.
PostPersist ==
    /\ th["post"].pc = "off"
    /\ th["main"].job = "hello" /\ th["main"].pc \notin {"off", "persist", "ptrunc", "pfill", "resolve"}
    /\ Step("post", "persist")
    /\ UNCHANGED <<file, start, current, lock, hubVars, faultsLeft, startsLeft, hubLeft, revoked>>
-----------------------------------------------------------------------------
(* One relay call under hello_lock: a start-up fetch (call_with_fallback) or *)
(* a hello.                                                                  *)

\* Mutant of TakesLock: the call does not wait for the one before it.
TakesLockNever == TRUE
TakesLock == lock = None

Call(t) ==
    /\ th[t].pc = "ready" /\ TakesLock
    /\ lock' = t
    /\ th' = [th EXCEPT ![t].pc = "wait", ![t].sent = current, ![t].got = "none"]
    /\ UNCHANGED <<file, start, current, hubVars, faultsLeft, startsLeft, hubLeft, revoked>>

\* relay_ok, and the hello's own check.
Accepts(c) == \/ c.kind = "device" /\ hdev # NoSecret /\ c.n = hdev
              \/ c.kind = "enroll" /\ c.n = htok

\* A hello with an enrollment token mints a secret in place of the last one.
Mint == hdev' = minted + 1 /\ minted' = minted + 1

\* The hub takes the call; its answer arrives, or is lost.
HubAnswers(t) ==
    /\ th[t].pc = "wait"
    /\ LET c == th[t].sent
           mints == Accepts(c) /\ th[t].job = "hello" /\ c.kind = "enroll"
       IN /\ IF mints THEN Mint ELSE UNCHANGED <<hdev, minted>>
          /\ \/ /\ NoFault
                /\ th' = [th EXCEPT ![t].pc = "answer", ![t].new = IF mints THEN hdev' ELSE NoSecret,
                                    ![t].got = IF Accepts(c) THEN "ok" ELSE "401"]
             \/ /\ Inject("lost")
                /\ th' = [th EXCEPT ![t].pc = "answer", ![t].new = NoSecret, ![t].got = "error"]
    /\ UNCHANGED <<file, start, current, lock, htok, late, overtaken, startsLeft, hubLeft, revoked>>

\* The call times out before the hub took it; the hub may still do so, later.
TimesOut(t) ==
    /\ th[t].pc = "wait"
    /\ \/ Inject("lost") /\ UNCHANGED late
       \/ Inject("late") /\ late' = IF th[t].job = "hello" /\ th[t].sent.kind = "enroll"
                                    THEN late \cup {th[t].sent.n} ELSE late
    /\ th' = [th EXCEPT ![t].pc = "answer", ![t].new = NoSecret, ![t].got = "error"]
    /\ UNCHANGED <<file, start, current, lock, htok, hdev, minted, overtaken, startsLeft, hubLeft,
                   revoked>>

HubTakesLate(n) ==
    /\ n \in late
    /\ late' = late \ {n}
    /\ IF n = htok THEN Mint /\ overtaken' = TRUE ELSE UNCHANGED <<hdev, minted, overtaken>>
    /\ UNCHANGED <<agentVars, htok, faultsLeft, startsLeft, hubLeft, revoked>>

\* What a thread does after a call: the fetches follow each other, the relay loop
\* says hello until it gets through and polls from then on, with a heartbeat.
After(t, ok) ==
    [u \in Threads |->
        IF u = t THEN
            CASE th[t].job = "key" -> [Off EXCEPT !.pc = "ready", !.job = "cert"]
              [] th[t].job = "cert" -> [Off EXCEPT !.pc = "ready", !.job = "hello"]
              [] th[t].job = "hello" /\ t = "main" /\ ok -> [Off EXCEPT !.pc = "poll"]
              [] OTHER -> [Off EXCEPT !.pc = "ready"]
        ELSE IF u = "beat" /\ t = "main" /\ ok /\ th[t].job = "hello" /\ th[u].pc = "off"
        THEN [Off EXCEPT !.pc = "ready"]
        ELSE th[u]]

Rejected(t) == th[t].pc = "answer" /\ th[t].got = "401" /\ th[t].sent.kind = "device"

\* An answer that changes no credential.
Finish(t) ==
    /\ th[t].pc = "answer" /\ th[t].new = NoSecret /\ ~Rejected(t)
    /\ th' = After(t, th[t].got = "ok")
    /\ lock' = None
    /\ UNCHANGED <<file, start, current, hubVars, faultsLeft, startsLeft, hubLeft, revoked>>

\* Mutant of FallsBack: the answer to the rejection is to keep the secret.
FallsBackNever == FALSE
\* RelayCred::rejected: a token was supplied on this start.
FallsBack == start.token # None

\* A device secret is rejected.  A fetch is retried at once with the token it falls
\* back to; a hello is a failure; without a token a hello waits, holding hello_lock.
TakeRejection(t) ==
    /\ Rejected(t)
    /\ IF FallsBack
       THEN /\ current' = Enroll(start.token)
            /\ IF th[t].job = "hello"
               THEN th' = After(t, FALSE) /\ lock' = None
               ELSE th' = [th EXCEPT ![t].pc = "wait", ![t].sent = current', ![t].got = "none"]
                    /\ UNCHANGED lock
       ELSE /\ UNCHANGED current
            /\ IF th[t].job = "hello"
               THEN Step(t, "sleep") /\ UNCHANGED lock
               ELSE th' = After(t, FALSE) /\ lock' = None
    /\ UNCHANGED <<file, start, hubVars, faultsLeft, startsLeft, hubLeft, revoked>>

WakeUp(t) ==
    /\ th[t].pc = "sleep"
    /\ th' = After(t, FALSE) /\ lock' = None
    /\ UNCHANGED <<file, start, current, hubVars, faultsLeft, startsLeft, hubLeft, revoked>>

IssuedCred(secret) == [enroll |-> None, device |-> secret]

\* RelayCred::issued: the file first, then the memory even if the file failed.
Switch(t) ==
    /\ current' = Device(th[t].new)
    /\ th' = After(t, TRUE) /\ lock' = None

IssuedTruncate(t) ==
    /\ th[t].pc = "answer" /\ th[t].new # NoSecret
    /\ \/ file' = Torn /\ Step(t, "fill") /\ NoFault /\ UNCHANGED <<current, lock>>
       \/ Inject("save") /\ UNCHANGED file /\ Switch(t)
    /\ UNCHANGED <<start, hubVars, startsLeft, hubLeft, revoked>>

IssuedFill(t) ==
    /\ th[t].pc = "fill"
    /\ Written(IssuedCred(th[t].new))
    /\ Switch(t)
    /\ UNCHANGED <<start, hubVars, startsLeft, hubLeft, revoked>>

\* A poll that fails, whatever the reason, sends the relay loop back to its hello.
PollFails ==
    /\ th["main"].pc = "poll"
    /\ Step("main", "ready")
    /\ UNCHANGED <<file, start, current, lock, hubVars, faultsLeft, startsLeft, hubLeft, revoked>>
-----------------------------------------------------------------------------
(* The owner, on the hub.                                                   *)

Rotates ==
    /\ hubLeft > 0 /\ hubLeft' = hubLeft - 1
    /\ htok' = htok + 1
    /\ UNCHANGED <<agentVars, hdev, minted, late, overtaken, faultsLeft, startsLeft, revoked>>

Revokes ==
    /\ hubLeft > 0 /\ hubLeft' = hubLeft - 1 /\ hdev # NoSecret
    /\ hdev' = NoSecret /\ revoked' = revoked \cup {hdev}
    /\ UNCHANGED <<agentVars, htok, minted, late, overtaken, faultsLeft, startsLeft>>
-----------------------------------------------------------------------------
ThreadStep(t) ==
    \/ PersistCheck(t) \/ PersistTruncate(t) \/ PersistFill(t)
    \/ HubAnswers(t) \/ TimesOut(t) \/ Finish(t) \/ TakeRejection(t) \/ WakeUp(t)
    \/ IssuedTruncate(t) \/ IssuedFill(t)

Next ==
    \/ \E t \in Threads : Call(t) \/ ThreadStep(t)
    \/ Resolve \/ PollFails \/ PostPersist
    \/ Starts \/ SelfUpdates
    \/ \E n \in late : HubTakesLate(n)
    \/ Rotates \/ Revokes

Spec == Init /\ [][Next]_vars

\* The threads run; the heartbeat says hello every ten seconds, so a call that
\* waits for hello_lock gets it; a poll against a secret that is no longer good
\* fails.  The owner, the faults and the starts are not fair, and bounded.
FairSpec ==
    /\ Spec
    /\ \A t \in Threads : WF_vars(ThreadStep(t)) /\ SF_vars(Call(t))
    /\ WF_vars(Resolve)
-----------------------------------------------------------------------------
Creds == {NoCred} \cup [kind : {"enroll", "device"}, n : Nat]
ThreadType == [pc : {"off", "persist", "ptrunc", "pfill", "resolve", "ready", "wait", "answer",
                     "fill", "sleep", "poll"},
               job : {"key", "cert", "hello"}, sent : Creds,
               got : {"none", "ok", "401", "error"}, new : Nat]

\* The type of every variable; relay.cred never holds neither token (CredFile).
TypeOK ==
    /\ file \in {None, Torn} \cup [enroll : Nat \cup {None}, device : Nat \cup {None}]
    /\ file \notin {None, Torn} => (file.enroll = None) # (file.device = None)
    /\ start \in [token : Nat \cup {None}, persist : BOOLEAN, again : BOOLEAN]
    /\ current \in Creds
    /\ lock \in {None, "main", "beat"}
    /\ th \in [Threads -> ThreadType]
    /\ htok \in Nat /\ hdev \in Nat /\ minted \in Nat /\ late \subseteq Nat
    /\ overtaken \in BOOLEAN /\ revoked \subseteq Nat
    /\ faultsLeft \in Nat /\ startsLeft \in Nat /\ hubLeft \in Nat

Known(n) == n = hdev \/ n \in revoked

\* "Serialized on hello_lock so two hellos can't both mint and leave us on the
\* secret the hub already replaced" (hello): a secret in memory or on file is the
\* hub's, or was revoked.
SecretIsCurrent ==
    /\ current.kind = "device" => Known(current.n)
    /\ HoldsSecret(file) => Known(file.device)

\* The same, unless the hub took a hello after the agent had given it up.
SecretIsCurrentUnlessOvertaken == overtaken \/ SecretIsCurrent

\* No thread gives up a secret the hub still accepts, whatever answers the others
\* are still working on (hello, call_with_fallback under hello_lock).
GivesUpOnlyRejected ==
    [][current.kind = "device" /\ current'.kind = "enroll" => current.n # hdev]_vars

\* A persist step wipes a device secret.
Wipes(t) == HoldsSecret(file) /\ th[t].pc = "ptrunc" /\ th'[t].pc = "pfill"

\* The restart after a self-update "inherits --persist and the enrollment token of
\* the original start, but re-running its persist step is not an enrollment and must
\* not drop the device secret it holds" (ENV_RESTART, save_enroll_for_persist).
RestartKeepsSecret == [][start.again => ~Wipes("main")]_vars

\* "Otherwise (POST /persist, ...) a device secret for this hub is kept"
\* (save_enroll_for_persist).
PersistKeepsSecret == [][~Wipes("post")]_vars

\* "Store {hub, enroll} so the entry works after a reboot that comes before the first
\* hello" (save_enroll_for_persist): a start without a token of its own finds a
\* credential, once the agent has had one to save.
EntryStarts ==
    [][th["main"].pc = "resolve" /\ file # None => current' # NoCred]_vars

\* An agent that runs with the owner's token of the day, as its own start supplied
\* it, ends up on the secret the hub has for it, revoked or overtaken as it may
\* have been (hello, rejected, issued).
Enrolls ==
    <>[](Running /\ start.token = htok) => <>[](current = Device(hdev))
=============================================================================
