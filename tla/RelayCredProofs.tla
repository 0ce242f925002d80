--------------------------- MODULE RelayCredProofs ---------------------------
(***************************************************************************)
(* Invariants of RelayCred proved for every kind of failure and every      *)
(* bound: the types, that memory and file agree with the hub on the        *)
(* secret, and that neither a late rejection nor a restart drops it.       *)
(***************************************************************************)
EXTENDS RelayCred, TLAPS

Critical == {"wait", "answer", "fill", "sleep"}
Starting == {"persist", "ptrunc", "pfill", "resolve"}

\* hello_lock covers a call from its token to its answer's effect; nothing else
\* runs while the agent starts.
LockInv ==
    /\ \A t \in Threads : th[t].pc \in Critical => lock = t
    /\ th["post"].pc \in {"off", "persist", "ptrunc", "pfill"}
    /\ th["beat"].pc \notin Starting
    /\ th["main"].pc \in Starting =>
          current = NoCred /\ th["beat"].pc = "off" /\ th["post"].pc = "off"
    /\ \A t \in Threads : th[t].pc \in {"wait", "answer"} => th[t].sent = current
    /\ \A t \in Threads : th[t].pc \in {"ptrunc", "pfill"} => start.token \in Nat
    /\ th["main"].pc = "ptrunc" => ~(HoldsSecret(file) /\ start.again)

\* No secret is newer than the last one minted, and a rejected one is not the hub's.
MintedInv ==
    /\ hdev <= minted
    /\ current.kind = "device" => current.n \in 1 .. minted
    /\ HoldsSecret(file) => file.device \in 1 .. minted
    /\ \A t \in Threads :
          /\ th[t].new <= minted
          /\ th[t].pc = "fill" => th[t].new # NoSecret
          /\ th[t].pc = "answer" /\ th[t].got = "401" /\ th[t].sent.kind = "device" =>
                th[t].sent.n # hdev

\* Memory, file and the answer at hand against the hub: a secret on file that is not
\* the one in memory was revoked.
AgreeInv ==
    /\ SecretIsCurrent
    /\ HoldsSecret(file) /\ current.kind # "none" =>
          file.device \in revoked \/ current = Device(file.device)
    /\ \A t \in Threads :
          th[t].pc \in {"answer", "fill"} /\ th[t].new # NoSecret =>
              Known(th[t].new) /\ (th[t].pc = "answer" => current.kind = "enroll")

Inv == TypeOK /\ LockInv /\ MintedInv
-----------------------------------------------------------------------------
USE DEF vars, agentVars, hubVars, Threads, NoSecret, NoFault

\* A fault costs budget and nothing else.
LEMMA InjectCosts ==
    ASSUME NEW kind, faultsLeft \in Nat, Inject(kind)
    PROVE  faultsLeft' \in Nat
  BY DEF Inject

LEMMA ThreadOff == Off \in ThreadType
  BY DEF Off, ThreadType, Creds, NoCred

\* A call that ends leaves its thread ready or polling, without an answer, may start
\* the heartbeat, and touches no other thread.
LEMMA AfterShape ==
    ASSUME th \in [Threads -> ThreadType], NEW t \in {"main", "beat"}, NEW ok \in BOOLEAN
    PROVE  /\ After(t, ok) \in [Threads -> ThreadType]
           /\ After(t, ok)["post"] = th["post"]
           /\ \A u \in Threads :
                 \/ u # t /\ After(t, ok)[u] = th[u]
                 \/ After(t, ok)[u].pc \in {"ready", "poll"} /\ After(t, ok)[u].new = 0
           /\ th["main"].pc \in Starting /\ t # "main" => After(t, ok)["main"] = th["main"]
           /\ After(t, ok)[t].pc \in {"ready", "poll"}
<1>1. Off \in ThreadType
  BY ThreadOff
<1>2. [Off EXCEPT !.pc = "ready"] \in ThreadType /\ [Off EXCEPT !.pc = "ready"].pc = "ready"
      /\ [Off EXCEPT !.pc = "ready"].new = 0
  BY DEF Off, ThreadType, Creds, NoCred
<1>3. [Off EXCEPT !.pc = "poll"] \in ThreadType /\ [Off EXCEPT !.pc = "poll"].pc = "poll"
      /\ [Off EXCEPT !.pc = "poll"].new = 0
  BY DEF Off, ThreadType, Creds, NoCred
<1>4. \A j \in {"cert", "hello"} :
         LET o == [Off EXCEPT !.pc = "ready", !.job = j]
         IN o \in ThreadType /\ o.pc = "ready" /\ o.new = 0
  BY DEF Off, ThreadType, Creds, NoCred
<1> QED BY <1>2, <1>3, <1>4 DEF After
-----------------------------------------------------------------------------
(* Types.                                                                   *)

LEMMA CredType ==
    /\ NoCred \in Creds
    /\ \A n \in Nat : Enroll(n) \in Creds /\ Device(n) \in Creds
  BY DEF Creds, NoCred, Enroll, Device

LEMMA RetryType ==
    ASSUME th \in [Threads -> ThreadType], NEW t \in Threads, NEW c \in Creds
    PROVE  [th EXCEPT ![t].pc = "wait", ![t].sent = c, ![t].got = "none"]
             \in [Threads -> ThreadType]
  BY DEF ThreadType

LEMMA TypeInit == Init => TypeOK
<1> SUFFICES ASSUME Init PROVE TypeOK
  OBVIOUS
<1>1. th \in [Threads -> ThreadType]
  BY ThreadOff DEF Init
<1>2. start \in [token : Nat \cup {None}, persist : BOOLEAN, again : BOOLEAN]
  BY DEF Init
<1>3. current \in Creds
  BY CredType DEF Init
<1> QED BY <1>1, <1>2, <1>3, RelayAssumption DEF Init, TypeOK

LEMMA TypeStep == TypeOK /\ LockInv /\ [Next]_vars => TypeOK'
<1> SUFFICES ASSUME TypeOK, LockInv, [Next]_vars PROVE TypeOK'
  OBVIOUS
<1> USE RelayAssumption
<1> DEFINE Caller(t) == t \in {"main", "beat"}
<1>0. ASSUME NEW t \in Threads, th[t].pc \in Critical \cup {"ready"}
      PROVE  Caller(t)
  BY <1>0 DEF LockInv, Critical
<1>1. ASSUME NEW s \in [token : Nat \cup {None}, persist : BOOLEAN, again : BOOLEAN], Launch(s)
      PROVE  TypeOK'
  <2>1. [Off EXCEPT !.pc = "persist"] \in ThreadType /\ [Off EXCEPT !.pc = "resolve"] \in ThreadType
    BY DEF Off, ThreadType, Creds, NoCred
  <2>2. th' \in [Threads -> ThreadType]
    BY <1>1, <2>1, ThreadOff DEF Launch
  <2>3. Abandoned \subseteq Nat
    BY DEF Abandoned, TypeOK, ThreadType, Creds, NoCred
  <2> QED BY <1>1, <2>2, <2>3 DEF Launch, TypeOK, Creds
<1>2. CASE Starts
  <2>1. \A persist \in BOOLEAN :
           [token |-> htok, persist |-> persist, again |-> FALSE]
             \in [token : Nat \cup {None}, persist : BOOLEAN, again : BOOLEAN]
    BY DEF TypeOK
  <2> QED BY <1>1, <1>2, <2>1 DEF Starts
<1>3. CASE SelfUpdates
  BY <1>1, <1>3 DEF SelfUpdates, TypeOK
<1>4. ASSUME NEW t \in Threads, PersistCheck(t) PROVE TypeOK'
  BY <1>4 DEF PersistCheck, Step, Persisted, TypeOK, ThreadType
<1>5. ASSUME NEW t \in Threads, PersistTruncate(t) PROVE TypeOK'
  BY <1>5, InjectCosts DEF PersistTruncate, Step, Persisted, TypeOK, ThreadType
<1>6. ASSUME NEW t \in Threads, PersistFill(t) PROVE TypeOK'
  <2>1. start.token \in Nat
    BY <1>6 DEF PersistFill, LockInv
  <2>2. th' \in [Threads -> ThreadType]
    BY <1>6 DEF PersistFill, Step, Persisted, TypeOK, ThreadType
  <2>3. faultsLeft' \in Nat
    BY <1>6, InjectCosts DEF PersistFill, Written, TypeOK
  <2>4. file' \in {None, Torn} \/ file' = [enroll |-> start.token, device |-> None]
    BY <1>6 DEF PersistFill, Written
  <2> QED BY <1>6, <2>1, <2>2, <2>3, <2>4 DEF PersistFill, TypeOK
<1>7. CASE Resolve
  <2>1. current' \in Creds
    BY <1>7, CredType DEF Resolve, TypeOK, HoldsSecret
  <2>2. [Off EXCEPT !.pc = "ready", !.job = "key"] \in ThreadType
    BY DEF Off, ThreadType, Creds, NoCred
  <2>3. th' \in [Threads -> ThreadType]
    BY <1>7, <2>2, ThreadOff DEF Resolve, TypeOK
  <2> QED BY <1>7, <2>1, <2>3 DEF Resolve, TypeOK
<1>8. CASE PostPersist
  BY <1>8 DEF PostPersist, Step, TypeOK, ThreadType
<1>9. ASSUME NEW t \in Threads, Call(t) PROVE TypeOK'
  BY <1>0, <1>9 DEF Call, TypeOK, ThreadType
<1>10. ASSUME NEW t \in Threads, HubAnswers(t) PROVE TypeOK'
  BY <1>10, InjectCosts DEF HubAnswers, Mint, TypeOK, ThreadType
<1>11. ASSUME NEW t \in Threads, TimesOut(t) PROVE TypeOK'
  <2>1. th' \in [Threads -> ThreadType]
    BY <1>11 DEF TimesOut, TypeOK, ThreadType
  <2>2. late' \subseteq Nat
    BY <1>11 DEF TimesOut, TypeOK, ThreadType, Creds, NoCred
  <2>3. faultsLeft' \in Nat
    BY <1>11, InjectCosts DEF TimesOut, TypeOK
  <2> QED BY <1>11, <2>1, <2>2, <2>3 DEF TimesOut, TypeOK
<1>12. ASSUME NEW n \in late, HubTakesLate(n) PROVE TypeOK'
  <2>1. hdev' \in Nat /\ minted' \in Nat /\ overtaken' \in BOOLEAN
    <3>1. CASE n = htok
      BY <1>12, <3>1 DEF HubTakesLate, Mint, TypeOK
    <3>2. CASE n # htok
      BY <1>12, <3>2 DEF HubTakesLate, TypeOK
    <3> QED BY <3>1, <3>2
  <2>2. late' \subseteq Nat
    BY <1>12 DEF HubTakesLate, TypeOK
  <2> QED BY <1>12, <2>1, <2>2 DEF HubTakesLate, TypeOK
<1>13. ASSUME NEW t \in Threads, Finish(t) PROVE TypeOK'
  BY <1>0, <1>13, AfterShape DEF Finish, TypeOK, Critical
<1>14. ASSUME NEW t \in Threads, TakeRejection(t) PROVE TypeOK'
  <2>1. Caller(t)
    BY <1>0, <1>14 DEF TakeRejection, Rejected, Critical
  <2>2. current' \in Creds
    <3>1. CASE FallsBack
      <4>1. start.token \in Nat
        BY <3>1 DEF FallsBack, TypeOK
      <4> QED BY <1>14, <3>1, <4>1, CredType DEF TakeRejection
    <3>2. CASE ~FallsBack
      BY <1>14, <3>2 DEF TakeRejection, TypeOK
    <3> QED BY <3>1, <3>2
  <2>3. After(t, FALSE) \in [Threads -> ThreadType]
    BY <2>1, AfterShape DEF TypeOK
  <2>4. th' \in [Threads -> ThreadType]
    <3>1. [th EXCEPT ![t].pc = "sleep"] \in [Threads -> ThreadType]
      BY DEF TypeOK, ThreadType
    <3>2. [th EXCEPT ![t].pc = "wait", ![t].sent = current', ![t].got = "none"]
            \in [Threads -> ThreadType]
      BY <2>2, RetryType DEF TypeOK
    <3>3. \/ th' = After(t, FALSE)
          \/ th' = [th EXCEPT ![t].pc = "sleep"]
          \/ th' = [th EXCEPT ![t].pc = "wait", ![t].sent = current', ![t].got = "none"]
      BY <1>14 DEF TakeRejection, Step
    <3> QED BY <2>3, <3>1, <3>2, <3>3
  <2>5. lock' \in {None, "main", "beat"}
    BY <1>14 DEF TakeRejection, TypeOK
  <2> QED BY <1>14, <2>2, <2>4, <2>5 DEF TakeRejection, TypeOK
<1>15. ASSUME NEW t \in Threads, WakeUp(t) PROVE TypeOK'
  BY <1>0, <1>15, AfterShape DEF WakeUp, TypeOK, Critical
<1>16. ASSUME NEW t \in Threads, Switch(t), th[t].pc \in Critical
       PROVE  /\ current' \in Creds /\ th' \in [Threads -> ThreadType]
              /\ lock' \in {None, "main", "beat"}
  <2>1. Device(th[t].new) \in Creds
    BY CredType DEF TypeOK, ThreadType
  <2>2. After(t, TRUE) \in [Threads -> ThreadType]
    BY <1>0, <1>16, AfterShape DEF TypeOK
  <2> QED BY <1>16, <2>1, <2>2 DEF Switch
<1>17. ASSUME NEW t \in Threads, IssuedTruncate(t) \/ IssuedFill(t) PROVE TypeOK'
  <2>1. CASE IssuedTruncate(t)
    <3>1. faultsLeft' \in Nat
      BY <2>1, InjectCosts DEF IssuedTruncate, TypeOK
    <3>2. current' \in Creds /\ th' \in [Threads -> ThreadType] /\ lock' \in {None, "main", "beat"}
      BY <1>16, <2>1 DEF IssuedTruncate, Critical, Step, TypeOK, ThreadType
    <3> QED BY <2>1, <3>1, <3>2 DEF IssuedTruncate, TypeOK
  <2>2. CASE IssuedFill(t)
    <3>1. faultsLeft' \in Nat
      BY <2>2, InjectCosts DEF IssuedFill, Written, TypeOK
    <3>2. current' \in Creds /\ th' \in [Threads -> ThreadType] /\ lock' \in {None, "main", "beat"}
      BY <1>16, <2>2 DEF IssuedFill, Critical
    <3>3. th[t].new \in Nat
      BY DEF TypeOK, ThreadType
    <3>4. file' \in {None, Torn} \/ file' = [enroll |-> None, device |-> th[t].new]
      BY <2>2 DEF IssuedFill, Written, IssuedCred
    <3> QED BY <2>2, <3>1, <3>2, <3>3, <3>4 DEF IssuedFill, TypeOK
  <2> QED BY <1>17, <2>1, <2>2
<1>18. CASE PollFails
  BY <1>18 DEF PollFails, Step, TypeOK, ThreadType
<1>19. CASE Rotates
  BY <1>19 DEF Rotates, TypeOK
<1>20. CASE Revokes
  BY <1>20 DEF Revokes, TypeOK
<1>21. CASE UNCHANGED vars
  BY <1>21 DEF TypeOK
<1> QED
  BY <1>2, <1>3, <1>4, <1>5, <1>6, <1>7, <1>8, <1>9, <1>10, <1>11, <1>12, <1>13, <1>14, <1>15,
     <1>16, <1>17, <1>18, <1>19, <1>20, <1>21 DEF Next, ThreadStep
-----------------------------------------------------------------------------
(* The lock and the threads.                                                *)

LEMMA LockInit == Init => LockInv
  BY RelayAssumption DEF Init, LockInv, Off, Critical, Starting

LEMMA LockStep == TypeOK /\ LockInv /\ [Next]_vars => LockInv'
<1> SUFFICES ASSUME TypeOK, LockInv, [Next]_vars PROVE LockInv'
  OBVIOUS
<1> USE RelayAssumption DEF Critical, Starting
<1>0. ASSUME NEW t \in Threads, th[t].pc \in Critical
      PROVE  t \in {"main", "beat"} /\ lock = t /\ th["main"].pc \notin Starting
  BY <1>0 DEF LockInv
<1>1. ASSUME NEW s, Launch(s) PROVE LockInv'
  <2>1. th'["beat"] = Off /\ th'["post"] = Off /\ th'["main"].pc \in {"persist", "resolve"}
    BY <1>1 DEF Launch, Off
  <2> QED BY <1>1, <2>1 DEF Launch, LockInv, Off
<1>2. ASSUME NEW t \in Threads, PersistCheck(t) PROVE LockInv'
  <2>1. start.token # None => start.token \in Nat
    BY DEF TypeOK
  <2>2. th' = [th EXCEPT ![t].pc =
                 IF start.token = None \/ (HoldsSecret(file) /\ ~Reenrolls(t))
                 THEN Persisted(t) ELSE "ptrunc"]
    BY <1>2 DEF PersistCheck, Step
  <2> QED BY <1>2, <2>1, <2>2 DEF PersistCheck, Persisted, Reenrolls, LockInv, TypeOK, ThreadType,
              HoldsSecret
<1>3. ASSUME NEW t \in Threads, PersistTruncate(t) PROVE LockInv'
  BY <1>3 DEF PersistTruncate, Step, Persisted, LockInv, TypeOK, ThreadType, HoldsSecret
<1>4. ASSUME NEW t \in Threads, PersistFill(t) PROVE LockInv'
  BY <1>4 DEF PersistFill, Step, Persisted, LockInv, TypeOK, ThreadType
<1>5. CASE Resolve
  <2>1. th' = [th EXCEPT !["main"] = th'["main"]] /\ th'["main"].pc \in {"off", "ready"}
    BY <1>5 DEF Resolve, Off, TypeOK
  <2> QED BY <1>5, <2>1 DEF Resolve, LockInv, TypeOK, ThreadType
<1>6. CASE PostPersist
  BY <1>6 DEF PostPersist, Step, LockInv, TypeOK, ThreadType
<1>7. ASSUME NEW t \in Threads, Call(t) PROVE LockInv'
  BY <1>7 DEF Call, TakesLock, LockInv, TypeOK, ThreadType
<1>8. ASSUME NEW t \in Threads, HubAnswers(t) PROVE LockInv'
  <2>1. \A u \in Threads : u # t => th'[u] = th[u]
    BY <1>8 DEF HubAnswers, TypeOK
  <2>2. th'[t].pc = "answer" /\ th'[t].sent = th[t].sent
    BY <1>8 DEF HubAnswers, TypeOK, ThreadType
  <2> QED BY <1>8, <1>0, <2>1, <2>2 DEF HubAnswers, LockInv
<1>9. ASSUME NEW t \in Threads, TimesOut(t) PROVE LockInv'
  <2>1. \A u \in Threads : u # t => th'[u] = th[u]
    BY <1>9 DEF TimesOut, TypeOK
  <2>2. th'[t].pc = "answer" /\ th'[t].sent = th[t].sent
    BY <1>9 DEF TimesOut, TypeOK, ThreadType
  <2> QED BY <1>9, <1>0, <2>1, <2>2 DEF TimesOut, LockInv
<1>10. ASSUME NEW t \in {"main", "beat"}, NEW ok \in BOOLEAN, th[t].pc \in Critical,
              th' = After(t, ok), lock' = None, UNCHANGED start
       PROVE  LockInv'
  <2>1. \A u \in Threads : u # t => th[u].pc \notin Critical
    BY <1>0, <1>10
  <2>2. \A u \in Threads : th'[u].pc \notin Critical
    BY <1>10, <2>1, AfterShape DEF TypeOK
  <2>3. th'["main"].pc \notin Starting /\ th'["beat"].pc \notin Starting
        /\ th'["post"] = th["post"]
    BY <1>0, <1>10, AfterShape DEF TypeOK, LockInv
  <2> QED BY <1>10, <2>2, <2>3 DEF LockInv
<1>11. ASSUME NEW t \in Threads, Finish(t) PROVE LockInv'
  BY <1>0, <1>10, <1>11 DEF Finish
<1>12. ASSUME NEW t \in Threads, TakeRejection(t) PROVE LockInv'
  <2>1. th[t].pc \in Critical
    BY <1>12 DEF TakeRejection, Rejected
  <2>2. CASE th' = After(t, FALSE) /\ lock' = None
    BY <1>0, <1>10, <1>12, <2>1, <2>2 DEF TakeRejection
  <2>3. CASE Step(t, "sleep") /\ UNCHANGED lock /\ UNCHANGED current
    BY <1>0, <1>12, <2>1, <2>3 DEF TakeRejection, Step, LockInv, TypeOK, ThreadType
  <2>4. CASE /\ th' = [th EXCEPT ![t].pc = "wait", ![t].sent = current', ![t].got = "none"]
             /\ UNCHANGED lock
    <3>1. \A u \in Threads : u # t => th'[u] = th[u]
      BY <2>4 DEF TypeOK
    <3>2. th'[t].pc = "wait" /\ th'[t].sent = current'
      BY <2>4 DEF TypeOK, ThreadType
    <3>3. \A u \in Threads : u # t => th[u].pc \notin Critical
      BY <1>0, <2>1
    <3> QED BY <1>0, <1>12, <2>1, <2>4, <3>1, <3>2, <3>3 DEF TakeRejection, LockInv
  <2> QED BY <1>12, <2>2, <2>3, <2>4 DEF TakeRejection
<1>13. ASSUME NEW t \in Threads, WakeUp(t) PROVE LockInv'
  BY <1>0, <1>10, <1>13 DEF WakeUp
<1>14. ASSUME NEW t \in Threads, IssuedTruncate(t) PROVE LockInv'
  <2>1. CASE Switch(t)
    BY <1>0, <1>10, <1>14, <2>1 DEF IssuedTruncate, Switch
  <2>2. CASE file' = Torn /\ Step(t, "fill") /\ UNCHANGED <<current, lock>>
    BY <1>0, <1>14, <2>2 DEF IssuedTruncate, Step, LockInv, TypeOK, ThreadType, HoldsSecret
  <2> QED BY <1>14, <2>1, <2>2 DEF IssuedTruncate
<1>15. ASSUME NEW t \in Threads, IssuedFill(t) PROVE LockInv'
  BY <1>0, <1>10, <1>15 DEF IssuedFill, Switch
<1>16. CASE PollFails
  BY <1>16 DEF PollFails, Step, LockInv, TypeOK, ThreadType
<1>17. CASE UNCHANGED agentVars
  BY <1>17 DEF LockInv, HoldsSecret
<1> QED
  BY <1>1, <1>2, <1>3, <1>4, <1>5, <1>6, <1>7, <1>8, <1>9, <1>11, <1>12, <1>13, <1>14, <1>15,
     <1>16, <1>17
     DEF Next, ThreadStep, Starts, SelfUpdates, HubTakesLate, Rotates, Revokes
-----------------------------------------------------------------------------
(* The secrets minted.                                                      *)

LEMMA MintedInit == Init => MintedInv
  BY RelayAssumption DEF Init, MintedInv, Off, NoCred, HoldsSecret

LEMMA MintedStep == TypeOK /\ LockInv /\ MintedInv /\ [Next]_vars => MintedInv'
<1> SUFFICES ASSUME TypeOK, LockInv, MintedInv, [Next]_vars PROVE MintedInv'
  OBVIOUS
<1> USE RelayAssumption
<1>0. hdev \in Nat /\ minted \in Nat /\ \A t \in Threads : th[t].new \in Nat
  BY DEF TypeOK, ThreadType
<1>1. ASSUME NEW s, Launch(s) PROVE MintedInv'
  <2>1. \A t \in Threads : th'[t].new = 0 /\ th'[t].pc \notin {"fill", "answer"}
    BY <1>1 DEF Launch, Off
  <2> QED BY <1>0, <1>1, <2>1 DEF Launch, MintedInv, HoldsSecret, NoCred
<1>2. ASSUME NEW t \in Threads, NEW pc, pc \notin {"fill", "answer"}, Step(t, pc),
             UNCHANGED <<current, hdev, minted>>, HoldsSecret(file)' => UNCHANGED file
      PROVE  MintedInv'
  <2>1. \A u \in Threads : u # t => th'[u] = th[u]
    BY <1>2 DEF Step, TypeOK
  <2>2. th'[t].pc = pc /\ th'[t].new = th[t].new
    BY <1>2 DEF Step, TypeOK, ThreadType
  <2> QED BY <1>0, <1>2, <2>1, <2>2 DEF MintedInv, HoldsSecret
<1>3. ASSUME NEW t \in Threads, PersistCheck(t) PROVE MintedInv'
  BY <1>2, <1>3 DEF PersistCheck, Persisted
<1>4. ASSUME NEW t \in Threads, PersistTruncate(t) PROVE MintedInv'
  BY <1>2, <1>4 DEF PersistTruncate, Persisted, HoldsSecret
<1>5. ASSUME NEW t \in Threads, PersistFill(t) PROVE MintedInv'
  <2>1. ~HoldsSecret(file)'
    BY <1>5 DEF PersistFill, Written, HoldsSecret
  <2> QED BY <1>2, <1>5, <2>1 DEF PersistFill, Persisted
<1>6. CASE Resolve
  <2>1. /\ th' = [th EXCEPT !["main"] = th'["main"]]
        /\ th'["main"].pc \in {"off", "ready"} /\ th'["main"].new = 0
    BY <1>6 DEF Resolve, Off, TypeOK
  <2>2. current'.kind = "device" => current'.n \in 1 .. minted
    BY <1>6 DEF Resolve, MintedInv, Device, Enroll, NoCred
  <2> QED BY <1>0, <1>6, <2>1, <2>2 DEF Resolve, MintedInv, TypeOK, HoldsSecret
<1>7. CASE PostPersist
  BY <1>2, <1>7 DEF PostPersist
<1>8. ASSUME NEW t \in Threads, Call(t) PROVE MintedInv'
  <2>1. \A u \in Threads : u # t => th'[u] = th[u]
    BY <1>8 DEF Call, TypeOK
  <2>2. th'[t].pc = "wait" /\ th'[t].new = th[t].new
    BY <1>8 DEF Call, TypeOK, ThreadType
  <2> QED BY <1>0, <1>8, <2>1, <2>2 DEF Call, MintedInv, HoldsSecret
<1>9. ASSUME NEW t \in Threads, HubAnswers(t) PROVE MintedInv'
  <2>1. \A u \in Threads : u # t => th'[u] = th[u] /\ th[u].pc \notin {"answer", "fill"}
    BY <1>9 DEF HubAnswers, LockInv, TypeOK, Critical
  <2>2. UNCHANGED <<hdev, minted>> \/ (hdev' = minted + 1 /\ minted' = minted + 1)
    BY <1>9 DEF HubAnswers, Mint
  <2>3. th'[t].pc = "answer" /\ th'[t].new \in {0, hdev'} /\ th'[t].sent = th[t].sent
    BY <1>9 DEF HubAnswers, TypeOK, ThreadType
  <2>4. th'[t].got = "401" /\ th[t].sent.kind = "device" => th[t].sent.n # hdev /\ UNCHANGED hdev
    <3>1. ASSUME th'[t].got = "401" PROVE ~Accepts(th[t].sent)
      BY <1>9, <3>1 DEF HubAnswers, TypeOK, ThreadType
    <3>2. th[t].sent.kind = "device" => th[t].sent.n # 0
      BY <1>9 DEF HubAnswers, LockInv, MintedInv
    <3> QED BY <1>0, <1>9, <3>1, <3>2 DEF HubAnswers, Accepts
  <2> QED BY <1>0, <1>9, <2>1, <2>2, <2>3, <2>4 DEF HubAnswers, MintedInv, HoldsSecret
<1>10. ASSUME NEW t \in Threads, TimesOut(t) PROVE MintedInv'
  <2>1. \A u \in Threads : u # t => th'[u] = th[u]
    BY <1>10 DEF TimesOut, TypeOK
  <2>2. th'[t].pc = "answer" /\ th'[t].new = 0 /\ th'[t].got = "error"
    BY <1>10 DEF TimesOut, TypeOK, ThreadType
  <2>3. UNCHANGED <<file, current, hdev, minted>>
    BY <1>10 DEF TimesOut
  <2> QED BY <1>0, <2>1, <2>2, <2>3 DEF MintedInv, HoldsSecret
<1>11. ASSUME NEW n \in late, HubTakesLate(n) PROVE MintedInv'
  <2>1. UNCHANGED <<hdev, minted>> \/ (hdev' = minted + 1 /\ minted' = minted + 1)
    BY <1>11 DEF HubTakesLate, Mint
  <2>2. \A t \in Threads : th[t].pc = "answer" /\ th[t].sent.kind = "device" =>
            th[t].sent.n \in 1 .. minted
    BY DEF LockInv, MintedInv
  <2> QED BY <1>0, <1>11, <2>1, <2>2 DEF HubTakesLate, MintedInv, HoldsSecret
<1>12. ASSUME NEW t \in {"main", "beat"}, NEW ok \in BOOLEAN, th[t].pc \in Critical,
              th' = After(t, ok), UNCHANGED <<hdev, minted>>,
              current'.kind = "device" => current'.n \in 1 .. minted,
              HoldsSecret(file)' => file'.device \in 1 .. minted
       PROVE  MintedInv'
  <2>1. \A u \in Threads : \/ th'[u] = th[u]
                           \/ th'[u].pc \notin {"fill", "answer"} /\ th'[u].new = 0
    BY <1>12, AfterShape DEF TypeOK
  <2> QED BY <1>0, <1>12, <2>1 DEF MintedInv
<1>13. ASSUME NEW t \in Threads, th[t].pc \in Critical PROVE t \in {"main", "beat"}
  BY <1>13 DEF LockInv, Critical
<1>14. ASSUME NEW t \in Threads, Finish(t) \/ WakeUp(t) PROVE MintedInv'
  BY <1>12, <1>13, <1>14 DEF Finish, WakeUp, Critical, MintedInv, HoldsSecret
<1>15. ASSUME NEW t \in Threads, TakeRejection(t) PROVE MintedInv'
  <2>1. current'.kind = "device" => current'.n \in 1 .. minted
    <3>1. CASE FallsBack
      BY <1>15, <3>1 DEF TakeRejection, Enroll
    <3>2. CASE ~FallsBack
      BY <1>15, <3>2 DEF TakeRejection, MintedInv
    <3> QED BY <3>1, <3>2
  <2>2. HoldsSecret(file)' => file'.device \in 1 .. minted
    BY <1>15 DEF TakeRejection, MintedInv, HoldsSecret
  <2>3. CASE th' = After(t, FALSE)
    BY <1>12, <1>13, <1>15, <2>1, <2>2, <2>3 DEF TakeRejection, Rejected, Critical
  <2>4. CASE Step(t, "sleep") /\ UNCHANGED current
    BY <1>2, <1>15, <2>4 DEF TakeRejection
  <2>5. CASE th' = [th EXCEPT ![t].pc = "wait", ![t].sent = current', ![t].got = "none"]
    <3>1. \A u \in Threads : u # t => th'[u] = th[u]
      BY <2>5 DEF TypeOK
    <3>2. th'[t].pc = "wait" /\ th'[t].new = th[t].new
      BY <2>5 DEF TypeOK, ThreadType
    <3> QED BY <1>0, <1>15, <2>1, <2>2, <3>1, <3>2 DEF TakeRejection, MintedInv
  <2> QED BY <1>15, <2>3, <2>4, <2>5 DEF TakeRejection
<1>16. ASSUME NEW t \in Threads, Switch(t), th[t].new # 0
       PROVE  current'.n \in 1 .. minted
  BY <1>0, <1>16 DEF Switch, Device, MintedInv
<1>17. ASSUME NEW t \in Threads, IssuedTruncate(t) PROVE MintedInv'
  <2>1. CASE Switch(t) /\ UNCHANGED file
    <3>1. HoldsSecret(file)' => file'.device \in 1 .. minted
      BY <2>1 DEF MintedInv, HoldsSecret
    <3> QED BY <1>12, <1>13, <1>16, <1>17, <2>1, <3>1 DEF IssuedTruncate, Switch, Critical
  <2>2. CASE file' = Torn /\ Step(t, "fill") /\ UNCHANGED current
    <3>1. \A u \in Threads : u # t => th'[u] = th[u]
      BY <2>2 DEF Step, TypeOK
    <3>2. th'[t].pc = "fill" /\ th'[t].new = th[t].new
      BY <2>2 DEF Step, TypeOK, ThreadType
    <3> QED BY <1>0, <1>17, <2>2, <3>1, <3>2 DEF IssuedTruncate, MintedInv, HoldsSecret
  <2> QED BY <1>17, <2>1, <2>2 DEF IssuedTruncate
<1>18. ASSUME NEW t \in Threads, IssuedFill(t) PROVE MintedInv'
  <2>1. th[t].new \in 1 .. minted
    BY <1>0, <1>18 DEF IssuedFill, MintedInv
  <2>2. HoldsSecret(file)' => file'.device \in 1 .. minted
    BY <1>18, <2>1 DEF IssuedFill, Written, IssuedCred, HoldsSecret
  <2>3. current'.n \in 1 .. minted
    BY <1>0, <1>16, <1>18, <2>1 DEF IssuedFill
  <2>4. t \in {"main", "beat"} /\ th[t].pc \in Critical
    BY <1>13, <1>18 DEF IssuedFill, Critical
  <2> QED BY <1>12, <1>18, <2>2, <2>3, <2>4 DEF IssuedFill, Switch
<1>19. CASE PollFails
  BY <1>2, <1>19 DEF PollFails
<1>20. CASE Rotates
  BY <1>20 DEF Rotates, MintedInv, HoldsSecret
<1>21. CASE Revokes
  <2>1. \A t \in Threads : th[t].pc = "answer" /\ th[t].sent.kind = "device" => th[t].sent.n # 0
    BY DEF LockInv, MintedInv
  <2> QED BY <1>0, <1>21, <2>1 DEF Revokes, MintedInv, HoldsSecret
<1>22. CASE UNCHANGED vars
  BY <1>22 DEF MintedInv, HoldsSecret
<1> QED
  BY <1>1, <1>3, <1>4, <1>5, <1>6, <1>7, <1>8, <1>9, <1>10, <1>11, <1>14, <1>15, <1>17, <1>18,
     <1>19, <1>20, <1>21, <1>22 DEF Next, ThreadStep, Starts, SelfUpdates
-----------------------------------------------------------------------------
(* Agreement with the hub.                                                  *)

LEMMA AgreeInit == Init => AgreeInv
  BY RelayAssumption DEF Init, AgreeInv, SecretIsCurrent, Off, NoCred, HoldsSecret

\* Without a secret to give up, minting one leaves the file's a revoked one.
LEMMA AgreeStep ==
    Inv /\ (overtaken \/ AgreeInv) /\ [Next]_vars => (overtaken \/ AgreeInv)'
<1> SUFFICES ASSUME Inv, AgreeInv, [Next]_vars, ~overtaken' PROVE AgreeInv'
  <2>1. ASSUME overtaken, [Next]_vars PROVE overtaken'
    BY <2>1 DEF Next, ThreadStep, Starts, SelfUpdates, Launch, PersistCheck, PersistTruncate,
                PersistFill, Resolve, PostPersist, Call, HubAnswers, TimesOut, HubTakesLate,
                Finish, TakeRejection, WakeUp, IssuedTruncate, IssuedFill, PollFails, Rotates,
                Revokes
  <2> QED BY <2>1
<1> USE RelayAssumption
<1>0. /\ TypeOK /\ LockInv /\ MintedInv
      /\ hdev \in Nat /\ minted \in Nat /\ \A t \in Threads : th[t].new \in Nat
      /\ th \in [Threads -> ThreadType] /\ revoked \subseteq Nat
  BY DEF Inv, TypeOK, ThreadType
<1>1. ASSUME NEW s, Launch(s) PROVE AgreeInv'
  <2>1. \A t \in Threads : th'[t].pc \notin {"fill", "answer"}
    BY <1>1 DEF Launch, Off
  <2> QED BY <1>1, <2>1 DEF Launch, AgreeInv, SecretIsCurrent, Known, HoldsSecret, NoCred
\* A step that changes one thread's place, and at most wipes the file.
<1>2. ASSUME NEW t \in Threads, NEW pc, pc \notin {"fill", "answer"}, Step(t, pc),
             UNCHANGED <<current, hdev, revoked>>, HoldsSecret(file)' => UNCHANGED file
      PROVE  AgreeInv'
  <2>1. \A u \in Threads : u # t => th'[u] = th[u]
    BY <1>0, <1>2 DEF Step
  <2>2. th'[t].pc = pc
    BY <1>0, <1>2 DEF Step, ThreadType
  <2> QED BY <1>2, <2>1, <2>2 DEF AgreeInv, SecretIsCurrent, Known, HoldsSecret
<1>3. ASSUME NEW t \in Threads, PersistCheck(t) PROVE AgreeInv'
  BY <1>2, <1>3 DEF PersistCheck, Persisted
<1>4. ASSUME NEW t \in Threads, PersistTruncate(t) PROVE AgreeInv'
  BY <1>2, <1>4 DEF PersistTruncate, Persisted, HoldsSecret
<1>5. ASSUME NEW t \in Threads, PersistFill(t) PROVE AgreeInv'
  <2>1. ~HoldsSecret(file)'
    BY <1>5 DEF PersistFill, Written, HoldsSecret
  <2> QED BY <1>2, <1>5, <2>1 DEF PersistFill, Persisted
<1>6. CASE Resolve
  <2>1. /\ \A u \in Threads : u # "main" => th'[u] = th[u]
        /\ th'["main"].pc \in {"off", "ready"}
    BY <1>0, <1>6 DEF Resolve, Off
  <2>2. HoldsSecret(file) => current' = Device(file.device)
    BY <1>6 DEF Resolve
  <2>3. current'.kind = "device" => HoldsSecret(file)
    BY <1>6 DEF Resolve, Enroll, NoCred
  <2>4. UNCHANGED <<file, hdev, revoked>>
    BY <1>6 DEF Resolve
  <2>5. \A u \in Threads : th[u].pc \notin {"answer", "fill"}
    BY <1>0, <1>6 DEF Resolve, LockInv, Starting, Critical
  <2> QED BY <2>1, <2>2, <2>3, <2>4, <2>5
          DEF AgreeInv, SecretIsCurrent, Known, HoldsSecret, Device
<1>7. CASE PostPersist
  BY <1>2, <1>7 DEF PostPersist
<1>8. ASSUME NEW t \in Threads, Call(t) PROVE AgreeInv'
  <2>1. \A u \in Threads : u # t => th'[u] = th[u]
    BY <1>0, <1>8 DEF Call
  <2>2. th'[t].pc = "wait"
    BY <1>0, <1>8 DEF Call, ThreadType
  <2>3. UNCHANGED <<file, current, hdev, revoked>>
    BY <1>8 DEF Call
  <2> QED BY <2>1, <2>2, <2>3 DEF AgreeInv, SecretIsCurrent, Known, HoldsSecret
<1>9. ASSUME NEW t \in Threads, HubAnswers(t) PROVE AgreeInv'
  <2>1. \A u \in Threads : u # t => th'[u] = th[u] /\ th[u].pc \notin {"answer", "fill"}
    BY <1>0, <1>9 DEF HubAnswers, LockInv, Critical
  <2>2. UNCHANGED <<file, current, revoked>>
    BY <1>9 DEF HubAnswers
  <2>3. th[t].sent = current
    BY <1>0, <1>9 DEF HubAnswers, LockInv
  <2> DEFINE Mints == Accepts(current) /\ th[t].job = "hello" /\ current.kind = "enroll"
  <2>4. CASE Mints
    <3>1. current.kind = "enroll" /\ hdev' = minted + 1
      BY <1>9, <2>3, <2>4 DEF HubAnswers, Mint
    <3>2. HoldsSecret(file) => file.device \in revoked
      BY <3>1 DEF AgreeInv, Device
    <3>3. th'[t].new \in {0, hdev'}
      BY <1>0, <1>9, <2>3, <2>4 DEF HubAnswers, ThreadType
    <3> QED BY <2>1, <2>2, <3>1, <3>2, <3>3 DEF AgreeInv, SecretIsCurrent, Known, HoldsSecret
  <2>5. CASE ~Mints
    <3>1. UNCHANGED hdev
      BY <1>9, <2>3, <2>5 DEF HubAnswers
    <3>2. th'[t].new = 0
      BY <1>0, <1>9, <2>3, <2>5 DEF HubAnswers, ThreadType
    <3> QED BY <2>1, <2>2, <3>1, <3>2 DEF AgreeInv, SecretIsCurrent, Known, HoldsSecret
  <2> QED BY <2>4, <2>5
<1>10. ASSUME NEW t \in Threads, TimesOut(t) PROVE AgreeInv'
  <2>1. \A u \in Threads : u # t => th'[u] = th[u]
    BY <1>0, <1>10 DEF TimesOut
  <2>2. th'[t].new = 0
    BY <1>0, <1>10 DEF TimesOut, ThreadType
  <2>3. UNCHANGED <<file, current, hdev, revoked>>
    BY <1>10 DEF TimesOut
  <2> QED BY <2>1, <2>2, <2>3 DEF AgreeInv, SecretIsCurrent, Known, HoldsSecret
<1>11. ASSUME NEW n \in late, HubTakesLate(n) PROVE AgreeInv'
  <2>1. UNCHANGED <<th, file, current, hdev, revoked>>
    BY <1>11 DEF HubTakesLate
  <2> QED BY <2>1 DEF AgreeInv, SecretIsCurrent, Known, HoldsSecret
<1>12. ASSUME NEW t \in {"main", "beat"}, NEW ok \in BOOLEAN, th' = After(t, ok),
              UNCHANGED <<hdev, revoked>>,
              SecretIsCurrent',
              HoldsSecret(file)' /\ current'.kind # "none" =>
                  file'.device \in revoked \/ current' = Device(file'.device),
              th[t].pc \in Critical
       PROVE  AgreeInv'
  <2>1. \A u \in Threads : u # t => th[u].pc \notin {"answer", "fill"}
    BY <1>0, <1>12 DEF LockInv, Critical
  <2>2. \A u \in Threads : th'[u].pc \notin {"answer", "fill"}
    BY <1>0, <1>12, <2>1, AfterShape
  <2> QED BY <1>12, <2>2 DEF AgreeInv
<1>13. ASSUME NEW t \in Threads, th[t].pc \in Critical
       PROVE  t \in {"main", "beat"} /\ \A u \in Threads : u # t => th[u].pc \notin Critical
  BY <1>0, <1>13 DEF LockInv, Critical
<1>14. ASSUME NEW t \in Threads, Finish(t) \/ WakeUp(t) PROVE AgreeInv'
  <2>1. UNCHANGED <<file, current, hdev, revoked>>
    BY <1>14 DEF Finish, WakeUp
  <2>2. SecretIsCurrent' /\ (HoldsSecret(file)' /\ current'.kind # "none" =>
                  file'.device \in revoked \/ current' = Device(file'.device))
    BY <2>1 DEF AgreeInv, SecretIsCurrent, Known, HoldsSecret, Device
  <2> QED BY <1>12, <1>13, <1>14, <2>1, <2>2 DEF Finish, WakeUp, Critical
\* A rejected secret was the hub's once, and so was revoked.
<1>15. ASSUME NEW t \in Threads, TakeRejection(t) PROVE AgreeInv'
  <2>1. current.kind = "device" /\ current.n \in revoked
    BY <1>0, <1>15 DEF TakeRejection, Rejected, LockInv, MintedInv, AgreeInv, SecretIsCurrent,
                       Known
  <2>2. UNCHANGED <<file, hdev, revoked>> /\ th[t].pc \in Critical
    BY <1>15 DEF TakeRejection, Rejected, Critical
  <2>3. HoldsSecret(file) => file.device \in revoked
    BY <2>1 DEF AgreeInv, Device
  <2>4. UNCHANGED current \/ current'.kind = "enroll"
    <3>1. CASE FallsBack
      BY <1>15, <3>1 DEF TakeRejection, Enroll
    <3>2. CASE ~FallsBack
      BY <1>15, <3>2 DEF TakeRejection
    <3> QED BY <3>1, <3>2
  <2>5. SecretIsCurrent' /\ (HoldsSecret(file)' => file'.device \in revoked)
    BY <2>1, <2>2, <2>3, <2>4 DEF SecretIsCurrent, Known, HoldsSecret
  <2>6. CASE th' = After(t, FALSE)
    BY <1>12, <1>13, <2>2, <2>5, <2>6
  <2>7. CASE Step(t, "sleep") /\ UNCHANGED current
    BY <1>2, <2>2, <2>7
  <2>8. CASE th' = [th EXCEPT ![t].pc = "wait", ![t].sent = current', ![t].got = "none"]
    <3>1. \A u \in Threads : u # t => th'[u] = th[u] /\ th[u].pc \notin {"answer", "fill"}
      BY <1>0, <1>13, <2>2, <2>8 DEF Critical
    <3>2. th'[t].pc = "wait"
      BY <1>0, <2>8 DEF ThreadType
    <3> QED BY <2>2, <2>5, <3>1, <3>2 DEF AgreeInv
  <2> QED BY <1>15, <2>6, <2>7, <2>8 DEF TakeRejection
<1>16. ASSUME NEW t \in Threads, IssuedTruncate(t) PROVE AgreeInv'
  <2>1. Known(th[t].new) /\ current.kind = "enroll" /\ th[t].pc \in Critical
        /\ UNCHANGED <<hdev, revoked>>
    BY <1>16 DEF IssuedTruncate, AgreeInv, Critical
  <2>2. CASE Switch(t) /\ UNCHANGED file
    <3>1. current' = Device(th[t].new) /\ th' = After(t, TRUE)
      BY <2>2 DEF Switch
    <3>2. HoldsSecret(file)' => file'.device \in revoked
      BY <2>1, <2>2 DEF AgreeInv, Device, HoldsSecret
    <3>3. SecretIsCurrent'
      BY <2>1, <3>1, <3>2 DEF SecretIsCurrent, Known, Device
    <3> QED BY <1>12, <1>13, <2>1, <3>1, <3>2, <3>3
  <2>3. CASE file' = Torn /\ Step(t, "fill") /\ UNCHANGED current
    <3>1. \A u \in Threads : u # t => th'[u] = th[u] /\ th[u].pc \notin {"answer", "fill"}
      BY <1>0, <1>13, <2>1, <2>3 DEF Step, Critical
    <3>2. th'[t].pc = "fill" /\ th'[t].new = th[t].new
      BY <1>0, <2>3 DEF Step, ThreadType
    <3> QED BY <2>1, <2>3, <3>1, <3>2 DEF AgreeInv, SecretIsCurrent, Known, HoldsSecret
  <2> QED BY <1>16, <2>2, <2>3 DEF IssuedTruncate
<1>17. ASSUME NEW t \in Threads, IssuedFill(t) PROVE AgreeInv'
  <2>1. th[t].new # 0 /\ th[t].pc \in Critical
    BY <1>0, <1>17 DEF IssuedFill, MintedInv, Critical
  <2>2. Known(th[t].new)
    BY <1>17, <2>1 DEF IssuedFill, AgreeInv
  <2>3. /\ current' = Device(th[t].new) /\ th' = After(t, TRUE)
        /\ UNCHANGED <<hdev, revoked>>
    BY <1>17 DEF IssuedFill, Switch
  <2>4. HoldsSecret(file)' => file'.device = th[t].new
    BY <1>17 DEF IssuedFill, Written, IssuedCred, HoldsSecret
  <2>5. SecretIsCurrent'
    BY <2>2, <2>3, <2>4 DEF SecretIsCurrent, Known, Device
  <2>6. t \in {"main", "beat"}
    BY <1>13, <2>1
  <2> QED BY <1>12, <2>1, <2>3, <2>4, <2>5, <2>6
<1>18. CASE PollFails
  BY <1>2, <1>18 DEF PollFails
<1>19. CASE Rotates
  BY <1>19 DEF Rotates, AgreeInv, SecretIsCurrent, Known, HoldsSecret
<1>20. CASE Revokes
  <2>1. \A n : Known(n) => n \in revoked'
    BY <1>20 DEF Revokes, Known
  <2>2. UNCHANGED <<th, file, current>> /\ revoked \subseteq revoked'
    BY <1>20 DEF Revokes
  <2> QED BY <2>1, <2>2 DEF AgreeInv, SecretIsCurrent, Known, HoldsSecret
<1>21. CASE UNCHANGED vars
  BY <1>21 DEF AgreeInv, SecretIsCurrent, Known, HoldsSecret
<1> QED
  BY <1>1, <1>3, <1>4, <1>5, <1>6, <1>7, <1>8, <1>9, <1>10, <1>11, <1>14, <1>15, <1>16, <1>17,
     <1>18, <1>19, <1>20, <1>21 DEF Next, ThreadStep, Starts, SelfUpdates
-----------------------------------------------------------------------------
(* The theorems.                                                            *)

LEMMA InvHolds == Spec => []Inv
<1>1. Init => Inv
  BY TypeInit, LockInit, MintedInit DEF Inv
<1>2. Inv /\ [Next]_vars => Inv'
  BY TypeStep, LockStep, MintedStep DEF Inv
<1> QED BY <1>1, <1>2, PTL DEF Spec

\* Every reachable state is well typed (struct RelayCred, CredFile).
THEOREM TypeCorrect == Spec => []TypeOK
<1>1. Inv => TypeOK
  BY DEF Inv
<1> QED BY <1>1, InvHolds, PTL

\* The secret in memory and the one on file are the hub's, or were revoked, unless the
\* hub took a hello the agent had given up (hello under hello_lock, issued).
THEOREM SecretCurrent == Spec => []SecretIsCurrentUnlessOvertaken
<1>1. Init => (overtaken \/ AgreeInv)
  BY AgreeInit
<1>2. Inv /\ (overtaken \/ AgreeInv) /\ [Next]_vars => (overtaken \/ AgreeInv)'
  BY AgreeStep
<1>3. (overtaken \/ AgreeInv) => SecretIsCurrentUnlessOvertaken
  BY DEF AgreeInv, SecretIsCurrentUnlessOvertaken
<1> QED BY <1>1, <1>2, <1>3, InvHolds, PTL DEF Spec

\* No thread gives up a secret the hub still accepts (rejected, under hello_lock).
THEOREM GivesUp == Spec => GivesUpOnlyRejected
<1>1. ASSUME Inv, [Next]_vars, current.kind = "device", current'.kind = "enroll"
      PROVE  current.n # hdev
  <2>1. ~Resolve
    <3>1. ASSUME Resolve PROVE current.kind = "none"
      BY <1>1, <3>1 DEF Resolve, Inv, LockInv, Starting, NoCred
    <3> QED BY <1>1, <3>1
  <2>2. \E t \in Threads : TakeRejection(t)
    <3>1. current' # current /\ current' # NoCred
      BY <1>1 DEF NoCred
    <3>2. ASSUME NEW t \in Threads, IssuedTruncate(t) \/ IssuedFill(t) PROVE FALSE
      <4>1. current' = Device(th[t].new)
        BY <3>1, <3>2 DEF IssuedTruncate, IssuedFill, Switch
      <4> QED BY <1>1, <4>1 DEF Device
    <3>3. \A s : ~Launch(s)
      BY <3>1 DEF Launch
    <3> QED BY <1>1, <2>1, <3>1, <3>2, <3>3
            DEF Next, ThreadStep, Starts, SelfUpdates, PersistCheck, PersistTruncate,
                PersistFill, PostPersist, Call, HubAnswers, TimesOut, HubTakesLate, Finish,
                WakeUp, PollFails, Rotates, Revokes
  <2>3. PICK t \in Threads : TakeRejection(t)
    BY <2>2
  <2> QED BY <1>1, <2>3 DEF TakeRejection, Rejected, Inv, LockInv, MintedInv
<1>2. Inv /\ [Next]_vars => [current.kind = "device" /\ current'.kind = "enroll"
                               => current.n # hdev]_vars
  BY <1>1
<1> QED BY <1>2, InvHolds, PTL DEF Spec, GivesUpOnlyRejected

\* The restart after a self-update never wipes the secret on file
\* (save_enroll_for_persist, IT_AI_SELF_RESTART).
THEOREM RestartKeeps == Spec => RestartKeepsSecret
<1>1. Inv => [start.again => ~Wipes("main")]_vars
  BY DEF Inv, LockInv, Wipes
<1> QED BY <1>1, InvHolds, PTL DEF RestartKeepsSecret
=============================================================================
