------------------------------ MODULE TunnelProofs ------------------------------
(* Types, and where the requests that carry the token go, proved for any hosts,  *)
(* addresses, requests, moves of the hub, restarts and faults.                   *)
EXTENDS Tunnel, SequenceTheorems, TLAPS

Thread == [pc : {"off", "ready", "sent", "learn", "move", "end", "run", "saving"},
           kind : {"hello", "poll", "reply", "short"}, from : Addresses,
           at : Addresses, hops : 0 .. MaxHops, got : Requests \cup {None}]

(* What is about to fire is due, and so within the bound of the arms.          *)
DueInv == store.at = "fire" => \A e \in store.due : IsDue(e)

InFamily(a) == a.tls /\ <<Relay.host, a.host>> \in Below

(* After a hop a call is at https on the operator's host or below it, and a    *)
(* base is only learnt after one.                                              *)
CallHome(r) ==
    /\ AtHome(r.at)
    /\ r.hops > 0 => InFamily(r.at)
    /\ r.pc \in {"learn", "move"} => r.hops > 0

HomeInv == AtHome(base) /\ \A t \in Threads : CallHome(th[t])

Inv == TypeOK /\ DueInv /\ HomeInv
-----------------------------------------------------------------------------
USE DEF vars, agentVars, hubVars, schedules

LEMMA Constants ==
    /\ Relay \in Addresses /\ Addrs \subseteq Addresses /\ Gone \notin Addrs
    /\ MaxHops \in Nat /\ MaxArms \in Nat
    /\ Requests \subseteq Threads /\ "main" \in Threads /\ "beat" \in Threads
    /\ "main" \notin Requests /\ "beat" \notin Requests /\ None \notin Requests
  BY TunnelAssumption DEF Threads

LEMMA OffIsThread ==
    /\ Off \in Thread /\ CallHome(Off)
    /\ \A k \in {"hello", "poll", "reply", "short"} :
          Ready(k) \in Thread /\ CallHome(Ready(k))
    /\ [Off EXCEPT !.pc = "run"] \in Thread /\ CallHome([Off EXCEPT !.pc = "run"])
<1>1. Off \in Thread /\ CallHome(Off)
  BY Constants DEF Off, Thread, CallHome, AtHome
<1>2. Off.hops = 0 /\ Off.at = Relay
  BY DEF Off
<1>3. ASSUME NEW k \in {"hello", "poll", "reply", "short"}
      PROVE  Ready(k) \in Thread /\ CallHome(Ready(k))
  BY <1>1, <1>2 DEF Ready, Thread, CallHome
<1>4. [Off EXCEPT !.pc = "run"] \in Thread /\ CallHome([Off EXCEPT !.pc = "run"])
  BY <1>1, <1>2 DEF Thread, CallHome
<1> QED BY <1>1, <1>3, <1>4

(* However a call ends, its thread has nothing of it left.                     *)
LEMMA FinishHome ==
    ASSUME TypeOK, HomeInv, NEW t \in Threads, NEW ok \in BOOLEAN, Finish(t, ok)
    PROVE  /\ th' \in [Threads -> Thread] /\ lock' \in Threads \cup {None}
           /\ \A u \in Threads : CallHome(th'[u])
<1>1. \A u \in Threads : th[u] \in Thread /\ CallHome(th[u])
  BY DEF TypeOK, HomeInv, Thread
<1>2. lock' \in Threads \cup {None}
  BY DEF Finish, TypeOK
<1>3. ASSUME NEW u \in Threads PROVE th'[u] \in Thread /\ CallHome(th'[u])
  <2>1. th'[u] \in {th[u], Off, [Off EXCEPT !.pc = "run"], Ready("hello"), Ready("poll")}
    BY DEF Finish
  <2> QED BY <1>1, <2>1, OffIsThread
<1>4. th' = [u \in Threads |-> th'[u]]
  BY DEF Finish
<1> QED BY <1>2, <1>3, <1>4

(* Where a call was redirected to is below where it was.                       *)
LEMMA FollowedHome ==
    ASSUME TypeOK, HomeInv, NEW t \in Threads,
           There(th[t].at) # Gone, Followed(t)
    PROVE  There(th[t].at).to \in Addresses /\ InFamily(There(th[t].at).to)
<1> DEFINE a == th[t].at
           s == There(a)
<1>1. a \in Addresses /\ AtHome(a)
  BY DEF TypeOK, HomeInv, CallHome
<1>2. s \in [to : Addrs, keeps : BOOLEAN]
  BY DEF There, TypeOK
<1>3. s.to \in Addresses
  BY <1>2, Constants
<1>4. s.to.tls /\ <<a.host, s.to.host>> \in Below
  BY DEF Followed, SameFamily
<1>5. <<Relay.host, a.host>> \in Below
  <2>1. Relay.host \in Hosts
    BY Constants DEF Addresses
  <2> QED BY <1>1, <2>1, TunnelAssumption DEF AtHome
<1>6. <<Relay.host, s.to.host>> \in Below
  <2>1. Relay.host \in Hosts /\ a.host \in Hosts /\ s.to.host \in Hosts
    BY <1>1, <1>3, Constants DEF Addresses
  <2> QED BY <1>4, <1>5, <2>1, TunnelAssumption
<1> QED BY <1>3, <1>4, <1>6 DEF InFamily

(* A base that was learnt has the host of the address it was learnt from.      *)
LEMMA MovedToHome ==
    ASSUME NEW b \in Addresses, NEW from \in Addresses, NEW at \in Addresses
    PROVE  /\ MovedTo(b, from, at) \in Addresses
           /\ InFamily(at) => InFamily(MovedTo(b, from, at))
<1> DEFINE m == Len(b.path) + 1
           rest == SubSeq(from.path, m, Len(from.path))
           n == Len(at.path) - Len(rest)
           p == SubSeq(at.path, 1, n)
<1>1. b.path \in Seq(STRING) /\ from.path \in Seq(STRING) /\ at.path \in Seq(STRING)
  BY DEF Addresses
<1>2. Len(rest) \in Nat
  <2>1. m \in Int /\ m >= 1 /\ Len(from.path) \in Int
    BY <1>1
  <2> HIDE DEF m
  <2>2. \A i \in m .. Len(from.path) : from.path[i] \in STRING
    <3> SUFFICES ASSUME NEW i \in m .. Len(from.path) PROVE from.path[i] \in STRING
      OBVIOUS
    <3>1. i \in 1 .. Len(from.path)
      BY <2>1
    <3> QED BY <1>1, <3>1
  <2>3. rest \in Seq(STRING)
    BY <2>1, <2>2, SubSeqProperties
  <2> QED BY <2>3
<1>3. p \in Seq(STRING)
  <2> HIDE DEF rest
  <2>1. n \in Int /\ n <= Len(at.path)
    BY <1>1, <1>2
  <2>2. \A i \in 1 .. n : at.path[i] \in STRING
    BY <1>1, <2>1
  <2> HIDE DEF n
  <2> QED BY <2>1, <2>2, SubSeqProperties
<1>4. MovedTo(b, from, at) = [at EXCEPT !.path = p]
  BY DEF MovedTo, Rest
<1> HIDE DEF p
<1> QED BY <1>3, <1>4 DEF Addresses, InFamily

-----------------------------------------------------------------------------
(* Types, and what is due.                                                     *)

LEMMA InvInit == Init => Inv
<1> SUFFICES ASSUME Init PROVE Inv
  OBVIOUS
<1>1. PICK w \in Worlds : world = w /\ left = w.left
  BY DEF Init
<1>2. w.first \in Addrs /\ left \in [Bounds -> Nat]
  BY <1>1, TunnelAssumption
<1>3. \A t \in Threads : th[t] \in Thread /\ CallHome(th[t])
  BY OffIsThread DEF Init
<1>4. SchedulesTypeOK
  BY Constants DEF Init, SchedulesInit, SchedulesTypeOK, Unlocked
<1>5. sends \in [Addrs -> [to : Addrs, keeps : BOOLEAN] \cup {Gone}]
  BY <1>1, <1>2 DEF Init
<1>6. TypeOK
  <2>1. th \in [Threads -> Thread]
    BY <1>3 DEF Init
  <2>2. serves \in Addrs /\ served \subseteq Addrs
    BY <1>1, <1>2, TunnelAssumption DEF Init
  <2> QED BY <1>1, <1>2, <1>4, <1>5, <2>1, <2>2, Constants DEF Init, TypeOK, Thread
<1>7. DueInv
  BY DEF Init, SchedulesInit, Unlocked, DueInv
<1>8. HomeInv
  BY <1>3 DEF Init, HomeInv, AtHome
<1> QED BY <1>6, <1>7, <1>8 DEF Inv

(* Every step of Schedules keeps its types and fires only what is due.         *)
LEMMA AddType ==
    ASSUME TypeOK, NEW r \in Requests, NEW id \in Ids, NEW again \in BOOLEAN,
           Add(r, id, again) \/ Del(r, id)
    PROVE  SchedulesTypeOK' /\ DueInv'
<1>1. MaxArms + 1 \in Nat /\ 1 \in 1 .. MaxArms + 1
  BY Constants
<1>2. [id |-> id, by |-> r, again |-> again, arm |-> 1] \in Entries
  BY <1>1 DEF Entries
<1>3. mem' \subseteq Entries
  BY <1>2 DEF Add, Del, Without, TypeOK, SchedulesTypeOK
<1>4. over' \subseteq Requests \X (1 .. MaxArms + 1)
  BY DEF Add, Del, Named, Time, TypeOK, SchedulesTypeOK, Entries
<1>5. store' = [by |-> r, at |-> "open", due |-> {}]
  BY DEF Add, Del, Save
<1> QED BY <1>3, <1>4, <1>5 DEF Add, Del, TypeOK, SchedulesTypeOK, DueInv

LEMMA TickType ==
    ASSUME TypeOK, DueInv, Truncate \/ Scheduler \/ Clock
    PROVE  SchedulesTypeOK' /\ DueInv'
<1> USE DEF TypeOK, SchedulesTypeOK
<1>1. CASE Truncate
  BY <1>1 DEF Truncate, DueInv
<1>2. CASE Clock
  <2>1. PICK e \in mem : e.arm <= MaxArms /\ past' = past \cup {Time(e)}
    BY <1>2 DEF Clock
  <2>2. e.by \in Requests /\ e.arm \in 1 .. MaxArms
    BY <2>1, Constants DEF Entries
  <2> QED BY <1>2, <2>1, <2>2 DEF Clock, DueInv, Time, IsDue
<1>3. CASE Tick
  BY <1>3 DEF Tick, DueInv, IsDue, Time
<1>4. CASE Fired
  BY <1>4 DEF Fired, Save, DueInv
<1>5. ASSUME NEW e \in store.due, Fire(e) PROVE SchedulesTypeOK' /\ DueInv'
  <2>1. e \in Entries /\ Time(e) \in past
    BY <1>5 DEF Fire, DueInv, IsDue
  <2>2. e.arm \in 1 .. MaxArms
    BY <2>1 DEF Time
  <2>3. e.arm + 1 \in 1 .. MaxArms + 1
    BY <2>2, Constants
  <2>4. Rearmed(e) \subseteq Entries
    BY <2>1, <2>3 DEF Rearmed, Entries
  <2>5. mem' \subseteq Entries
    BY <1>5, <2>4 DEF Fire
  <2>6. over' \subseteq Requests \X (1 .. MaxArms + 1)
    BY <1>5, <2>1 DEF Fire, Time, Entries
  <2>7. store' = [store EXCEPT !.due = @ \ {e}] /\ past' = past
    BY <1>5 DEF Fire
  <2>8. store'.due \subseteq mem'
    BY <1>5, <2>7 DEF Fire
  <2>9. DueInv'
    BY <1>5, <2>7 DEF DueInv, IsDue, Time, Fire
  <2> QED BY <1>5, <2>5, <2>6, <2>7, <2>8, <2>9 DEF Fire
<1> QED BY <1>1, <1>2, <1>3, <1>4, <1>5 DEF Scheduler

LEMMA SavedType ==
    ASSUME TypeOK, (\E how \in {"ok", "failed"} : Written(how)) \/ Reload
    PROVE  SchedulesTypeOK' /\ DueInv'
<1> USE DEF TypeOK, SchedulesTypeOK
<1>1. Unlocked \in [by : Requests \cup {"nobody", "tick"}, at : {"free", "fire", "open", "write"},
                    due : SUBSET {}] /\ Unlocked.at = "free"
  BY DEF Unlocked
<1>2. store' = Unlocked
  BY DEF Written, Reload
<1>3. DueInv'
  BY <1>1, <1>2 DEF DueInv
<1>4. CASE \E how \in {"ok", "failed"} : Written(how)
  BY <1>1, <1>2, <1>3, <1>4 DEF Written
<1>5. CASE Reload
  BY <1>1, <1>2, <1>3, <1>5 DEF Reload
<1> QED BY <1>4, <1>5

-----------------------------------------------------------------------------
(* One step of each kind.                                                      *)

LEMMA CallStep ==
    ASSUME Inv, NEW t \in Threads, Send(t) \/ Called(t)
    PROVE  Inv'
<1> USE Constants
<1>1. TypeOK /\ HomeInv /\ DueInv /\ left \in [Bounds -> Nat] /\ th \in [Threads -> Thread]
  BY DEF Inv, TypeOK, Thread
<1>2. \A u \in Threads : th[u] \in Thread /\ CallHome(th[u])
  BY <1>1 DEF HomeInv
<1>3. UNCHANGED <<world, schedules, serves, sends, served>>
  BY DEF Send, Called, Redirect, Fails, Land, Learn, Moved, Ends, NoFault
<1>4. SchedulesTypeOK' /\ DueInv'
  BY <1>1, <1>3 DEF TypeOK, SchedulesTypeOK, DueInv, IsDue, Time
<1>5. SUFFICES /\ base' \in Addresses /\ AtHome(base') /\ lock' \in Threads \cup {None}
               /\ th' \in [Threads -> Thread] /\ \A u \in Threads : CallHome(th'[u])
               /\ request' \in [Requests -> {"none", "queued", "taken", "answered"}]
               /\ left' \in [Bounds -> Nat] /\ astray' \in BOOLEAN
  BY <1>1, <1>3, <1>4 DEF Inv, TypeOK, HomeInv, Thread, CallHome, AtHome, InFamily
<1>6. /\ base \in Addresses /\ AtHome(base) /\ lock \in Threads \cup {None}
      /\ request \in [Requests -> {"none", "queued", "taken", "answered"}] /\ astray \in BOOLEAN
  BY <1>1 DEF TypeOK, HomeInv
<1>7. \A b \in Bounds : Costs(b) => left' \in [Bounds -> Nat]
  BY <1>1 DEF Costs
<1>8. CASE Send(t)
  <2> DEFINE r == [th[t] EXCEPT !.pc = "sent", !.from = base, !.at = base, !.hops = 0]
  <2>1. th' = [th EXCEPT ![t] = r]
    BY <1>1, <1>8 DEF Send
  <2>2. r \in Thread /\ CallHome(r)
    <3>1. r \in Thread
      BY <1>2, <1>6, 0 \in 0 .. MaxHops DEF Thread
    <3>2. r.at = base /\ r.hops = 0 /\ r.pc = "sent"
      BY <1>2 DEF Thread
    <3> HIDE DEF r
    <3> QED BY <1>6, <3>1, <3>2 DEF CallHome
  <2> HIDE DEF r
  <2>3. th' \in [Threads -> Thread] /\ \A u \in Threads : CallHome(th'[u])
    BY <1>1, <1>2, <2>1, <2>2
  <2> QED BY <1>1, <1>6, <1>8, <2>3 DEF Send
<1>9. CASE Redirect(t)
  <2>1. CASE Followed(t)
    <3> DEFINE a == There(th[t].at).to
               r == [th[t] EXCEPT !.at = a, !.hops = @ + 1]
    <3>1. th' = [th EXCEPT ![t] = r] /\ UNCHANGED <<lock, base, request, left, astray>>
      BY <1>1, <1>9, <2>1 DEF Redirect
    <3>2. a \in Addresses /\ InFamily(a)
      BY <1>1, <1>9, <2>1, FollowedHome DEF Redirect
    <3>3. th[t].hops + 1 \in 1 .. MaxHops
      BY <1>2, <2>1 DEF Followed, Thread
    <3>4. r \in Thread
      <4>1. \A x \in Addresses, h \in 0 .. MaxHops : [th[t] EXCEPT !.at = x, !.hops = h] \in Thread
        BY <1>2 DEF Thread
      <4>2. th[t].hops + 1 \in 0 .. MaxHops
        BY <3>3
      <4> HIDE DEF a
      <4> QED BY <3>2, <4>1, <4>2
    <3>5. r.at = a /\ r.hops > 0
      <4>1. r.at = a /\ r.hops = th[t].hops + 1
        BY <1>2 DEF Thread
      <4> QED BY <3>3, <4>1
    <3>6. CallHome(r)
      <4> HIDE DEF r, a
      <4> QED BY <3>2, <3>5 DEF CallHome, AtHome, InFamily
    <3> HIDE DEF r
    <3> QED BY <1>1, <1>2, <1>6, <3>1, <3>4, <3>6
  <2>2. CASE ~Followed(t)
    <3>1. Finish(t, FALSE) /\ UNCHANGED <<base, request, left, astray>>
      BY <1>9, <2>2 DEF Redirect
    <3> QED BY <1>1, <1>6, <3>1, FinishHome
  <2> QED BY <2>1, <2>2
<1>10. CASE Fails(t)
  <2>1. Finish(t, FALSE) /\ UNCHANGED <<base, request, astray>>
    BY <1>10 DEF Fails
  <2>2. left' \in [Bounds -> Nat]
    BY <1>1, <1>7, <1>10 DEF Fails, NoFault, Bounds
  <2> QED BY <1>1, <1>6, <2>1, <2>2, FinishHome
<1>11. CASE Land(t)
  <2>1. PICK got \in Requests \cup {None} :
            /\ Takes(t, got)
            /\ \/ /\ NoFault /\ UNCHANGED lock
                  /\ th' = [th EXCEPT ![t].got = got,
                                    ![t].pc = IF th[t].hops > 0 THEN "learn" ELSE "end"]
               \/ Costs("faults") /\ Finish(t, FALSE)
    BY <1>11 DEF Land
  <2>2. request' \in [Requests -> {"none", "queued", "taken", "answered"}]
    BY <1>6, <2>1 DEF Takes
  <2>3. left' \in [Bounds -> Nat]
    BY <1>1, <1>7, <2>1 DEF NoFault, Bounds
  <2>4. UNCHANGED <<base, astray>>
    BY <1>11 DEF Land
  <2>5. CASE Finish(t, FALSE)
    BY <1>1, <1>6, <2>2, <2>3, <2>4, <2>5, FinishHome
  <2>6. CASE /\ UNCHANGED lock
             /\ th' = [th EXCEPT ![t].got = got,
                               ![t].pc = IF th[t].hops > 0 THEN "learn" ELSE "end"]
    <3> DEFINE r == [th[t] EXCEPT !.got = got, !.pc = IF th[t].hops > 0 THEN "learn" ELSE "end"]
    <3>1. th' = [th EXCEPT ![t] = r]
      BY <1>1, <2>6
    <3>2. r \in Thread
      BY <1>2 DEF Thread
    <3>3. r.at = th[t].at /\ r.hops = th[t].hops /\ (r.pc \in {"learn", "move"} => r.hops > 0)
      BY <1>2 DEF Thread
    <3>4. CallHome(r)
      <4> HIDE DEF r
      <4> QED BY <1>2, <3>3 DEF CallHome
    <3> HIDE DEF r
    <3>5. th' \in [Threads -> Thread] /\ \A u \in Threads : CallHome(th'[u])
      BY <1>1, <1>2, <3>1, <3>2, <3>4
    <3> QED BY <1>6, <2>2, <2>3, <2>4, <2>6, <3>5
  <2> QED BY <2>1, <2>5, <2>6
<1>12. CASE Learn(t)
  <2>1. PICK r \in Thread : CallHome(r) /\ th' = [th EXCEPT ![t] = r]
    <3> DEFINE moved == [th[t] EXCEPT !.pc = "move", !.at = MovedTo(base, th[t].from, th[t].at)]
               ended == [th[t] EXCEPT !.pc = "end"]
    <3>1. th' = [th EXCEPT ![t] = moved] \/ th' = [th EXCEPT ![t] = ended]
      BY <1>1, <1>12 DEF Learn
    <3>2. ended \in Thread /\ CallHome(ended)
      BY <1>2 DEF Thread, CallHome
    <3>3. th[t].hops > 0 /\ InFamily(th[t].at) /\ th[t].at \in Addresses /\ th[t].from \in Addresses
      BY <1>2, <1>12 DEF Learn, CallHome, Thread
    <3>4. /\ MovedTo(base, th[t].from, th[t].at) \in Addresses
          /\ InFamily(MovedTo(base, th[t].from, th[t].at))
      BY <1>6, <3>3, MovedToHome
    <3>5. moved \in Thread /\ CallHome(moved)
      BY <1>2, <3>3, <3>4 DEF Thread, CallHome, AtHome, InFamily
    <3> HIDE DEF moved, ended
    <3> QED BY <3>1, <3>2, <3>5
  <2>2. th' \in [Threads -> Thread] /\ \A u \in Threads : CallHome(th'[u])
    BY <1>1, <1>2, <2>1
  <2>3. UNCHANGED <<base, lock, request, left>>
    BY <1>12 DEF Learn
  <2>4. astray' \in BOOLEAN
    BY <1>6, <1>12 DEF Learn
  <2> QED BY <1>1, <1>6, <2>2, <2>3, <2>4
<1>13. CASE Moved(t)
  <2> DEFINE r == [th[t] EXCEPT !.pc = "end"]
  <2>1. th' = [th EXCEPT ![t] = r] /\ base' = th[t].at
    BY <1>1, <1>13 DEF Moved
  <2>2. r \in Thread /\ CallHome(r)
    BY <1>2 DEF Thread, CallHome
  <2>3. base' \in Addresses /\ AtHome(base')
    BY <1>2, <2>1 DEF Thread, CallHome
  <2>4. UNCHANGED <<lock, request, left, astray>>
    BY <1>13 DEF Moved
  <2> HIDE DEF r
  <2> QED BY <1>1, <1>2, <1>6, <2>1, <2>2, <2>3, <2>4
<1>14. CASE Ends(t)
  <2>1. Finish(t, TRUE) /\ UNCHANGED <<base, request, left, astray>>
    BY <1>14 DEF Ends
  <2> QED BY <1>1, <1>6, <2>1, FinishHome
<1> QED BY <1>8, <1>9, <1>10, <1>11, <1>12, <1>13, <1>14 DEF Called

LEMMA DeviceStep ==
    ASSUME Inv, (\E r \in Requests : Handle(r)) \/ SaveEnds \/ OfSchedules \/ Restart
    PROVE  Inv'
<1> USE Constants
<1>1. TypeOK /\ HomeInv /\ DueInv /\ left \in [Bounds -> Nat] /\ th \in [Threads -> Thread]
  BY DEF Inv, TypeOK, Thread
<1>2. \A u \in Threads : th[u] \in Thread /\ CallHome(th[u])
  BY <1>1 DEF HomeInv
<1>3. UNCHANGED <<world, serves, sends, request, served, astray>>
  BY DEF Handle, SaveEnds, OfSchedules, Restart, NoCall
<1>4. \A b \in Bounds : Costs(b) => left' \in [Bounds -> Nat]
  BY <1>1 DEF Costs
<1>5. SUFFICES /\ SchedulesTypeOK' /\ DueInv' /\ left' \in [Bounds -> Nat]
               /\ base' \in {base, Relay} /\ lock' \in {lock, None}
               /\ th' \in [Threads -> Thread] /\ \A u \in Threads : CallHome(th'[u])
  <2>1. base' \in Addresses /\ AtHome(base') /\ lock' \in Threads \cup {None}
    BY <1>1, <1>5 DEF TypeOK, HomeInv, AtHome
  <2> QED BY <1>1, <1>3, <1>5, <2>1 DEF Inv, TypeOK, HomeInv, Thread, CallHome, AtHome, InFamily
<1>6. ASSUME NEW r \in Requests, Handle(r) PROVE <1>5!1
  <2>1. world.asks[r] \in Ops
    BY <1>1, TunnelAssumption DEF TypeOK
  <2>2. CASE \E id \in Ids, again \in BOOLEAN : /\ Add(r, id, again) \/ Del(r, id)
                                             /\ th' = [th EXCEPT ![r].pc = "saving"] /\ NoFault
    <3> DEFINE q == [th[r] EXCEPT !.pc = "saving"]
    <3>1. q \in Thread /\ CallHome(q)
      BY <1>2 DEF Thread, CallHome
    <3>2. th' = [th EXCEPT ![r] = q] /\ UNCHANGED <<base, lock, left>>
      BY <1>1, <1>6, <2>2 DEF Handle, NoCall, NoFault
    <3> HIDE DEF q
    <3> QED BY <1>1, <1>2, <2>2, <3>1, <3>2, AddType
  <2>3. ASSUME NEW kind \in {"reply", "short"}, UNCHANGED schedules,
               th' = [th EXCEPT ![r] = Ready(kind)], left' \in [Bounds -> Nat]
        PROVE  <1>5!1
    <3>1. SchedulesTypeOK' /\ DueInv'
      BY <1>1, <2>3 DEF TypeOK, SchedulesTypeOK, DueInv, IsDue, Time
    <3>2. th' \in [Threads -> Thread] /\ \A u \in Threads : CallHome(th'[u])
      BY <1>1, <1>2, <2>3, OffIsThread
    <3>3. UNCHANGED <<base, lock>>
      BY <1>6 DEF Handle, NoCall
    <3> QED BY <2>3, <3>1, <3>2, <3>3
  <2>4. Costs("faults") => left' \in [Bounds -> Nat]
    BY <1>4 DEF Bounds
  <2> QED BY <1>1, <1>6, <2>1, <2>2, <2>3, <2>4 DEF Handle, Ops, NoFault
<1>7. CASE SaveEnds
  <2>1. PICK how \in {"ok", "failed"} :
            Written(how) /\ IF how = "ok" THEN NoFault ELSE Costs("faults")
    BY <1>7 DEF SaveEnds
  <2>2. left' \in [Bounds -> Nat]
    BY <1>1, <1>4, <2>1 DEF NoFault, Bounds
  <2>3. th' \in [Threads -> Thread] /\ \A u \in Threads : CallHome(th'[u])
    BY <1>1, <1>2, <1>7, OffIsThread DEF SaveEnds
  <2> QED BY <1>1, <1>7, <2>1, <2>2, <2>3, SavedType DEF SaveEnds, NoCall
<1>8. CASE OfSchedules
  BY <1>1, <1>2, <1>8, TickType DEF OfSchedules, NoCall
<1>9. CASE Restart
  <2>1. th' \in [Threads -> Thread] /\ \A u \in Threads : CallHome(th'[u])
    BY <1>9, OffIsThread DEF Restart
  <2>2. left' \in [Bounds -> Nat]
    BY <1>4, <1>9 DEF Restart, Bounds
  <2> QED BY <1>1, <1>9, <2>1, <2>2, SavedType DEF Restart
<1> QED BY <1>6, <1>7, <1>8, <1>9

LEMMA HubStep ==
    ASSUME Inv, (\E r \in Requests : Ask(r)) \/ \E a \in Addrs : Moves(a)
    PROVE  Inv'
<1>1. TypeOK /\ HomeInv /\ DueInv
  BY DEF Inv
<1>2. UNCHANGED <<world, base, lock, th, astray, schedules>>
  BY DEF Ask, Moves
<1>3. ASSUME NEW r \in Requests, Ask(r) PROVE Inv'
  BY <1>1, <1>2, <1>3 DEF Ask, Inv, TypeOK, SchedulesTypeOK, HomeInv, DueInv, IsDue, Time,
                         CallHome, AtHome, InFamily
<1>4. ASSUME NEW a \in Addrs, Moves(a) PROVE Inv'
  <2>1. left' \in [Bounds -> Nat]
    <3>1. left \in [Bounds -> Nat] /\ Costs("moves")
      BY <1>1, <1>4 DEF TypeOK, Moves
    <3> QED BY <3>1 DEF Costs, Bounds
  <2>2. serves' \in Addrs /\ served' \subseteq Addrs
    BY <1>1, <1>4 DEF Moves, TypeOK
  <2>3. sends' \in [Addrs -> [to : Addrs, keeps : BOOLEAN] \cup {Gone}]
    <3>1. sends \in [Addrs -> [to : Addrs, keeps : BOOLEAN] \cup {Gone}] /\ serves \in Addrs
      BY <1>1 DEF TypeOK
    <3>2. PICK keeps \in BOOLEAN :
              LET to == [to |-> a, keeps |-> keeps] IN
              sends' \in {[sends EXCEPT ![serves] = to], [sends EXCEPT ![serves] = Gone],
                          [x \in Addrs |-> IF x \in served THEN to ELSE Gone]}
      BY <1>4 DEF Moves
    <3> DEFINE to == [to |-> a, keeps |-> keeps]
    <3>3. to \in [to : Addrs, keeps : BOOLEAN]
      OBVIOUS
    <3> HIDE DEF to
    <3>4. sends' \in {[sends EXCEPT ![serves] = to], [sends EXCEPT ![serves] = Gone],
                      [x \in Addrs |-> IF x \in served THEN to ELSE Gone]}
      BY <3>2 DEF to
    <3> QED BY <3>1, <3>3, <3>4
  <2>4. request' = request
    BY <1>4 DEF Moves
  <2> QED BY <1>1, <1>2, <2>1, <2>2, <2>3, <2>4 DEF Inv, TypeOK, SchedulesTypeOK, HomeInv, DueInv,
                         IsDue, Time, CallHome, AtHome, InFamily
<1> QED BY <1>3, <1>4

LEMMA InvStep == Inv /\ [Next]_vars => Inv'
<1> SUFFICES ASSUME Inv, [Next]_vars PROVE Inv'
  OBVIOUS
<1>1. CASE UNCHANGED vars
  BY <1>1 DEF Inv, TypeOK, SchedulesTypeOK, HomeInv, DueInv, IsDue, Time, CallHome, AtHome, InFamily
<1>2. CASE Next
  BY <1>2, CallStep, DeviceStep, HubStep DEF Next
<1> QED BY <1>1, <1>2

-----------------------------------------------------------------------------
(* A time is fired once.                                                       *)

(* Only main polls, and a request is with main, or handled, after it was taken *)
(* from the hub, and with one of the two.                                      *)
TakenInv ==
    /\ \A t \in Threads \ {"main"} : th[t].got = None /\ th[t].kind # "poll"
    /\ \A r \in Requests : th["main"].got = r \/ th[r].pc = "run" =>
          request[r] \notin {"none", "queued"}
    /\ \A r \in Requests : th[r].pc = "run" => th["main"].got # r

\* The request has added nothing yet.
Fresh(r) == /\ \A e \in mem : e.by # r
            /\ \A k \in 1 .. MaxArms + 1 : <<r, k>> \notin over
Waits(r) == request[r] \in {"none", "queued"} \/ th["main"].got = r \/ th[r].pc = "run"

\* The times a schedule has ahead of it are not over.
Ahead(e) == \A k \in e.arm .. MaxArms + 1 : <<e.by, k>> \notin over

OnceInv ==
    ~unsaved => /\ ~stale
                /\ Free => saved = mem
                /\ \A e, f \in mem : e.id = f.id \/ e.by = f.by => e = f
                /\ \A e \in mem : Ahead(e)
                /\ \A r \in Requests : Waits(r) => Fresh(r)

LEMMA OnceInit == Init => TakenInv /\ OnceInv
<1> SUFFICES ASSUME Init PROVE TakenInv /\ OnceInv
  OBVIOUS
<1>1. \A t \in Threads : th[t].got = None /\ th[t].pc # "run" /\ th[t].kind # "poll"
  BY DEF Init, Off, Ready
<1>2. TakenInv
  BY <1>1, Constants DEF TakenInv
<1>3. OnceInv
  BY DEF Init, SchedulesInit, OnceInv, Free, Unlocked, Ahead, Fresh
<1> QED BY <1>2, <1>3

(* A step of Schedules that is nobody's request keeps what is once once.       *)
LEMMA TickOnce ==
    ASSUME TypeOK, OnceInv, UNCHANGED <<request, th>>, Truncate \/ Scheduler \/ Clock
    PROVE  OnceInv'
<1> SUFFICES ASSUME ~unsaved' PROVE OnceInv'
  BY DEF OnceInv
<1>1. unsaved' = unsaved
  BY DEF Truncate, Clock, Scheduler, Tick, Fired, Fire
<1>2. /\ ~stale
      /\ Free => saved = mem
      /\ \A e, f \in mem : e.id = f.id \/ e.by = f.by => e = f
      /\ \A e \in mem : Ahead(e)
      /\ \A r \in Requests : Waits(r) => Fresh(r)
  BY <1>1 DEF OnceInv
<1>3. CASE Truncate
  BY <1>2, <1>3 DEF Truncate, OnceInv, Free, Ahead, Fresh, Waits
<1>4. CASE Clock
  BY <1>2, <1>4 DEF Clock, OnceInv, Free, Ahead, Fresh, Waits
<1>5. CASE Tick
  BY <1>2, <1>5 DEF Tick, OnceInv, Free, Ahead, Fresh, Waits
<1>6. CASE Fired
  BY <1>2, <1>6 DEF Fired, Save, OnceInv, Free, Ahead, Fresh, Waits
<1>7. ASSUME NEW e \in store.due, Fire(e) PROVE OnceInv'
  <2>1. e \in mem /\ mem \subseteq Entries
    BY <1>7 DEF TypeOK, SchedulesTypeOK
  <2>2. e.arm \in 1 .. MaxArms + 1 /\ MaxArms \in Nat
    BY <2>1, Constants DEF Entries
  <2>3. \A f \in Rearmed(e) : f.id = e.id /\ f.by = e.by /\ f.arm = e.arm + 1 /\ f = [e EXCEPT !.arm = @ + 1]
    BY <2>1 DEF Rearmed, Entries
  <2>4. mem' = (mem \ {e}) \cup Rearmed(e) /\ over' = over \cup {<<e.by, e.arm>>}
    BY <1>7 DEF Fire, Time
  <2>5. ~stale'
    <3>1. e.arm \in e.arm .. MaxArms + 1
      BY <2>2
    <3>2. <<e.by, e.arm>> \notin over
      BY <1>2, <2>1, <3>1 DEF Ahead
    <3> QED BY <1>2, <1>7, <3>2 DEF Fire, Time
  <2>6. ~Free'
    BY <1>7 DEF Fire, Free, TypeOK, SchedulesTypeOK
  <2>7. \A f, g \in mem' : f.id = g.id \/ f.by = g.by => f = g
    BY <1>2, <2>1, <2>3, <2>4
  <2>8. \A f \in mem' : Ahead(f)'
    <3> SUFFICES ASSUME NEW f \in mem', NEW k \in f.arm .. MaxArms + 1
                 PROVE  <<f.by, k>> \notin over'
      BY DEF Ahead
    <3>1. CASE f \in Rearmed(e)
      <4>1. f.by = e.by /\ f.arm = e.arm + 1
        BY <2>3, <3>1
      <4>2. k \in e.arm .. MaxArms + 1 /\ k # e.arm
        BY <2>2, <4>1
      <4> QED BY <1>2, <2>1, <2>4, <4>1, <4>2 DEF Ahead
    <3>2. CASE f \in mem \ {e}
      BY <1>2, <2>1, <2>4, <3>2 DEF Ahead
    <3> QED BY <2>4, <3>1, <3>2
  <2>9. \A r \in Requests : Waits(r)' => Fresh(r)'
    BY <1>2, <2>1, <2>3, <2>4 DEF Waits, Fresh
  <2> QED BY <2>5, <2>6, <2>7, <2>8, <2>9 DEF OnceInv
<1> QED BY <1>3, <1>4, <1>5, <1>6, <1>7 DEF Scheduler

LEMMA AddOnce ==
    ASSUME TypeOK, OnceInv, NEW r \in Requests, NEW id \in Ids, NEW again \in BOOLEAN,
           Fresh(r), ~Waits(r)', request' = request,
           \A q \in Requests : Waits(q)' => Waits(q),
           Add(r, id, again) \/ Del(r, id)
    PROVE  OnceInv'
<1> SUFFICES ASSUME ~unsaved' PROVE OnceInv'
  BY DEF OnceInv
<1> DEFINE new == [id |-> id, by |-> r, again |-> again, arm |-> 1]
<1>1. unsaved' = unsaved /\ stale' = stale /\ ~Free'
  BY DEF Add, Del, Save, Free
<1>2. /\ ~stale
      /\ \A e, f \in mem : e.id = f.id \/ e.by = f.by => e = f
      /\ \A e \in mem : Ahead(e)
      /\ \A q \in Requests : Waits(q) => Fresh(q)
  BY <1>1 DEF OnceInv
<1>3. /\ mem' = Without(id) \/ mem' = Without(id) \cup {new}
      /\ over' = over \cup {<<e.by, e.arm>> : e \in Named(id)}
  BY DEF Add, Del, Time
<1>4. new.id = id /\ new.by = r /\ new.arm = 1
  OBVIOUS
<1> HIDE DEF new
<1>5. /\ Without(id) \subseteq mem /\ Named(id) \subseteq mem
      /\ \A e \in Without(id) : e.id # id
      /\ \A e \in Without(id), f \in Named(id) : e.by # f.by
  BY <1>2 DEF Without, Named
<1>6. \A e, f \in mem' : e.id = f.id \/ e.by = f.by => e = f
  BY <1>2, <1>3, <1>4, <1>5 DEF Fresh
<1>7. \A e \in mem' : Ahead(e)'
  <2> SUFFICES ASSUME NEW e \in mem', NEW k \in e.arm .. MaxArms + 1
               PROVE  <<e.by, k>> \notin over'
    BY DEF Ahead
  <2>1. CASE e \in Without(id)
    BY <1>2, <1>3, <1>5, <2>1 DEF Ahead
  <2>2. CASE e = new
    BY <1>3, <1>4, <1>5, <2>2 DEF Fresh
  <2> QED BY <1>3, <2>1, <2>2
<1>8. \A q \in Requests : Waits(q)' => Fresh(q)'
  <2> SUFFICES ASSUME NEW q \in Requests, Waits(q)' PROVE Fresh(q)'
    OBVIOUS
  <2>1. q # r /\ Fresh(q)
    BY <1>2
  <2> QED BY <1>3, <1>4, <1>5, <2>1 DEF Fresh
<1> QED BY <1>1, <1>2, <1>6, <1>7, <1>8 DEF OnceInv

(* A call moves a request on: from the hub's queue to main and from there to   *)
(* the request's own thread.                                                   *)
LEMMA FinishTaken ==
    ASSUME TypeOK, TakenInv, NEW t \in Threads, NEW ok \in BOOLEAN, Finish(t, ok),
           \A q \in Requests : request'[q] \in {"none", "queued"} => request[q] \in {"none", "queued"}
    PROVE  TakenInv' /\ \A q \in Requests : Waits(q)' => Waits(q)
<1> USE Constants
<1>1. ASSUME NEW u \in Threads
      PROVE  \/ th'[u] = th[u] /\ u # t
             \/ u = "main" /\ t = "main" /\ th'[u].got = None /\ th'[u].pc = "ready"
             \/ u # "main" /\ th'[u].got = None /\ th'[u].kind = "hello" /\ th'[u].pc \in {"off", "ready"}
             \/ u # "main" /\ u = th[t].got /\ th'[u].got = None /\ th'[u].kind = "hello" /\ th'[u].pc = "run"
  <2>1. \A k \in {"hello", "poll"} : Ready(k).got = None /\ Ready(k).kind = k /\ Ready(k).pc = "ready"
    BY DEF Ready, Off
  <2>2. Off.got = None /\ Off.kind = "hello" /\ Off.pc = "off"
    BY DEF Off
  <2>3. LET run == [Off EXCEPT !.pc = "run"] IN run.got = None /\ run.kind = "hello" /\ run.pc = "run"
    BY DEF Off
  <2>4. th[t].got \in Requests \cup {None}
    BY DEF TypeOK
  <2>5. th'[u] = CASE u = t /\ t = "main" -> Ready(IF ok THEN "poll" ELSE "hello")
                   [] u = t /\ t = "beat" -> Ready("hello")
                   [] u = t /\ t \in Requests -> Off
                   [] u = "beat" /\ t = "main" /\ ok /\ th[u].pc = "off" -> Ready("hello")
                   [] u = th[t].got /\ ok -> [Off EXCEPT !.pc = "run"]
                   [] OTHER -> th[u]
    BY DEF Finish
  <2>6. None \notin Threads
    BY TunnelAssumption DEF Threads
  <2>7. u = t => t = "main" \/ t = "beat" \/ t \in Requests
    BY DEF Threads
  <2> QED BY <2>1, <2>2, <2>3, <2>4, <2>5, <2>6, <2>7
<1>2. th[t].got \in Requests \cup {None} /\ (t # "main" => th[t].got = None)
  BY DEF TypeOK, TakenInv
<1>3. \A u \in Threads \ {"main"} : th'[u].got = None /\ th'[u].kind # "poll"
  BY <1>1 DEF TakenInv
<1>4. \A q \in Requests : th'[q].pc = "run" => th[q].pc = "run" \/ (t = "main" /\ th["main"].got = q)
  BY <1>1, <1>2
<1>5. th'["main"] = th["main"] \/ th'["main"].got = None
  BY <1>1
<1>6. t = "main" => th'["main"].got = None
  BY <1>1
<1>7. \A q \in Requests : Waits(q)' => Waits(q)
  BY <1>4, <1>5 DEF Waits
<1>8. TakenInv'
  BY <1>3, <1>4, <1>5, <1>6 DEF TakenInv
<1> QED BY <1>7, <1>8

LEMMA CallTaken ==
    ASSUME TypeOK, TakenInv, NEW t \in Threads, Send(t) \/ Called(t)
    PROVE  TakenInv' /\ \A q \in Requests : Waits(q)' => Waits(q)
<1> USE Constants
<1>1. th \in [Threads -> Thread] /\ \A u \in Threads : th[u] \in Thread
  BY DEF TypeOK, Thread
<1>2. ASSUME NEW r, th' = [th EXCEPT ![t] = r], r.got = th[t].got, r.kind = th[t].kind, r.pc # "run",
             request' = request
      PROVE  TakenInv' /\ \A q \in Requests : Waits(q)' => Waits(q)
  BY <1>1, <1>2 DEF TakenInv, Waits
<1>3. ASSUME \E ok \in BOOLEAN : Finish(t, ok), request' = request
      PROVE  TakenInv' /\ \A q \in Requests : Waits(q)' => Waits(q)
  BY <1>3, FinishTaken
<1>4. CASE Send(t)
  <2> DEFINE r == [th[t] EXCEPT !.pc = "sent", !.from = base, !.at = base, !.hops = 0]
  <2>1. th' = [th EXCEPT ![t] = r] /\ request' = request
    BY <1>1, <1>4 DEF Send
  <2>2. r.got = th[t].got /\ r.kind = th[t].kind /\ r.pc # "run"
    BY <1>1 DEF Thread
  <2> HIDE DEF r
  <2> QED BY <1>2, <2>1, <2>2
<1>5. CASE Redirect(t)
  <2>1. CASE Followed(t)
    <3> DEFINE r == [th[t] EXCEPT !.at = There(@).to, !.hops = @ + 1]
    <3>1. th' = [th EXCEPT ![t] = r] /\ request' = request
      BY <1>1, <1>5, <2>1 DEF Redirect
    <3>2. r.got = th[t].got /\ r.kind = th[t].kind /\ r.pc # "run"
      BY <1>1, <1>5 DEF Thread, Redirect
    <3> HIDE DEF r
    <3> QED BY <1>2, <3>1, <3>2
  <2> QED BY <1>3, <1>5, <2>1 DEF Redirect
<1>6. CASE Fails(t) \/ Ends(t)
  BY <1>3, <1>6 DEF Fails, Ends
<1>7. CASE Learn(t)
  <2> DEFINE moved == [th[t] EXCEPT !.pc = "move", !.at = MovedTo(base, th[t].from, th[t].at)]
             ended == [th[t] EXCEPT !.pc = "end"]
  <2>1. (th' = [th EXCEPT ![t] = moved] \/ th' = [th EXCEPT ![t] = ended]) /\ request' = request
    BY <1>1, <1>7 DEF Learn
  <2>2. /\ moved.got = th[t].got /\ moved.kind = th[t].kind /\ moved.pc # "run"
        /\ ended.got = th[t].got /\ ended.kind = th[t].kind /\ ended.pc # "run"
    BY <1>1 DEF Thread
  <2> HIDE DEF moved, ended
  <2> QED BY <1>2, <2>1, <2>2
<1>8. CASE Moved(t)
  <2> DEFINE r == [th[t] EXCEPT !.pc = "end"]
  <2>1. th' = [th EXCEPT ![t] = r] /\ request' = request
    BY <1>1, <1>8 DEF Moved
  <2>2. r.got = th[t].got /\ r.kind = th[t].kind /\ r.pc # "run"
    BY <1>1 DEF Thread
  <2> HIDE DEF r
  <2> QED BY <1>2, <2>1, <2>2
<1>9. CASE Land(t)
  <2>1. PICK got \in Requests \cup {None} :
            /\ Takes(t, got)
            /\ \/ th' = [th EXCEPT ![t].got = got,
                                ![t].pc = IF th[t].hops > 0 THEN "learn" ELSE "end"]
               \/ Finish(t, FALSE)
    BY <1>9 DEF Land
  <2>2. /\ \A q \in Requests : request'[q] \in {"none", "queued"} => request[q] \in {"none", "queued"}
        /\ got # None => /\ th[t].kind = "poll" /\ request[got] = "queued"
                         /\ request'[got] \notin {"none", "queued"}
    BY <2>1 DEF Takes, TypeOK
  <2>3. CASE Finish(t, FALSE)
    BY <2>2, <2>3, FinishTaken
  <2>4. CASE th' = [th EXCEPT ![t].got = got, ![t].pc = IF th[t].hops > 0 THEN "learn" ELSE "end"]
    <3> DEFINE r == [th[t] EXCEPT !.got = got, !.pc = IF th[t].hops > 0 THEN "learn" ELSE "end"]
    <3>1. th' = [th EXCEPT ![t] = r]
      BY <1>1, <2>4
    <3>2. r.got = got /\ r.kind = th[t].kind /\ r.pc # "run"
      BY <1>1 DEF Thread
    <3>3. got # None => t = "main"
      BY <2>2 DEF TakenInv
    <3> HIDE DEF r
    <3>4. \A u \in Threads \ {t} : th'[u] = th[u]
      BY <1>1, <3>1
    <3>5. th'[t] = r
      BY <1>1, <3>1
    <3>6. \A q \in Requests : th'[q].pc = "run" => th[q].pc = "run"
      BY <3>2, <3>4, <3>5
    <3>7. \A q \in Requests : th'["main"].got = q => th["main"].got = q \/ got = q
      BY <3>2, <3>4, <3>5
    <3>8. \A q \in Requests : Waits(q)' => Waits(q)
      BY <2>2, <3>6, <3>7 DEF Waits
    <3>9. TakenInv'
      BY <2>2, <3>2, <3>3, <3>4, <3>5, <3>6, <3>7 DEF TakenInv
    <3> QED BY <3>8, <3>9
  <2> QED BY <2>1, <2>3, <2>4
<1> QED BY <1>4, <1>5, <1>6, <1>7, <1>8, <1>9 DEF Called

(* What the device and the hub do to a request besides.                        *)
LEMMA HandleTaken ==
    ASSUME TypeOK, TakenInv, NEW r \in Requests, Handle(r)
    PROVE  /\ TakenInv' /\ \A q \in Requests : Waits(q)' => Waits(q)
           /\ Waits(r) /\ ~Waits(r)'
<1> USE Constants
<1>1. th \in [Threads -> Thread] /\ th[r] \in Thread
  BY DEF TypeOK, Thread
<1>2. PICK q : th' = [th EXCEPT ![r] = q] /\ q.got = None /\ q.kind # "poll" /\ q.pc # "run"
  <2> DEFINE saving == [th[r] EXCEPT !.pc = "saving"]
  <2>1. saving.got = None /\ saving.kind # "poll" /\ saving.pc # "run"
    BY <1>1 DEF Thread, TakenInv
  <2>2. \A k \in {"reply", "short"} : Ready(k).got = None /\ Ready(k).kind # "poll" /\ Ready(k).pc # "run"
    BY DEF Ready, Off
  <2>3. th' = [th EXCEPT ![r] = saving] \/ \E k \in {"reply", "short"} : th' = [th EXCEPT ![r] = Ready(k)]
    BY <1>1 DEF Handle
  <2> HIDE DEF saving
  <2> QED BY <2>1, <2>2, <2>3
<1>3. th[r].pc = "run" /\ request' = request
  BY DEF Handle, NoCall
<1> QED BY <1>1, <1>2, <1>3 DEF TakenInv, Waits

LEMMA OtherTaken ==
    ASSUME TypeOK, TakenInv,
           SaveEnds \/ OfSchedules \/ Restart \/ (\E r \in Requests : Ask(r)) \/ \E a \in Addrs : Moves(a)
    PROVE  TakenInv' /\ \A q \in Requests : Waits(q)' => Waits(q)
<1> USE Constants
<1>1. \A k \in {"hello", "reply"} : Ready(k).got = None /\ Ready(k).kind # "poll" /\ Ready(k).pc # "run"
  BY DEF Ready, Off
<1>2. Off.got = None /\ Off.kind # "poll" /\ Off.pc # "run"
  BY DEF Off
<1>3. None \notin Requests
  BY Constants
<1>4. CASE SaveEnds
  <2>1. th' = th \/ \E r \in Requests : th' = [th EXCEPT ![r] = Ready("reply")]
    BY <1>4 DEF SaveEnds
  <2>2. th \in [Threads -> Thread] /\ request' = request
    BY <1>4 DEF TypeOK, Thread, SaveEnds, NoCall
  <2> QED BY <1>1, <2>1, <2>2 DEF TakenInv, Waits
<1>5. CASE Restart
  <2>1. th' = [t \in Threads |-> IF t = "main" THEN Ready("hello") ELSE Off] /\ request' = request
    BY <1>5 DEF Restart
  <2>2. \A t \in Threads : th'[t].got = None /\ th'[t].kind # "poll" /\ th'[t].pc # "run"
    BY <1>1, <1>2, <2>1
  <2> QED BY <1>3, <2>1, <2>2 DEF TakenInv, Waits
<1>6. CASE OfSchedules \/ \E a \in Addrs : Moves(a)
  BY <1>6 DEF OfSchedules, NoCall, Moves, TakenInv, Waits
<1>7. CASE \E r \in Requests : Ask(r)
  <2>1. th' = th /\ \A q \in Requests : request'[q] = request[q]
                                        \/ (request[q] = "none" /\ request'[q] = "queued")
    BY <1>7 DEF Ask, TypeOK
  <2> QED BY <2>1 DEF TakenInv, Waits
<1> QED BY <1>4, <1>5, <1>6, <1>7

LEMMA TakenStep == Inv /\ TakenInv /\ [Next]_vars => TakenInv'
<1> SUFFICES ASSUME Inv, TakenInv, [Next]_vars PROVE TakenInv'
  OBVIOUS
<1>1. TypeOK
  BY DEF Inv
<1>2. CASE UNCHANGED vars
  BY <1>2 DEF TakenInv
<1> QED BY <1>1, <1>2, CallTaken, HandleTaken, OtherTaken DEF Next

(* What a save leaves, and what the next start finds.                          *)
LEMMA SavedOnce ==
    ASSUME TypeOK, OnceInv, \A q \in Requests : Waits(q)' => Waits(q),
           (\E how \in {"ok", "failed"} : Written(how)) \/ Reload
    PROVE  OnceInv'
<1> SUFFICES ASSUME ~unsaved' PROVE OnceInv'
  BY DEF OnceInv
<1>1. ~unsaved /\ mem' = mem /\ saved' = mem /\ UNCHANGED <<over, stale>>
  <2>1. CASE Reload
    <3>1. ~unsaved /\ saved = mem
      BY <2>1 DEF Reload
    <3>2. saved # Torn
      BY <3>1, TornAssumption DEF TypeOK, SchedulesTypeOK
    <3> QED BY <2>1, <3>1, <3>2 DEF Reload
  <2>2. CASE \E how \in {"ok", "failed"} : Written(how)
    BY <2>2 DEF Written
  <2> QED BY <2>1, <2>2
<1> QED BY <1>1 DEF OnceInv, Ahead, Fresh

LEMMA OnceStep == Inv /\ TakenInv /\ OnceInv /\ [Next]_vars => OnceInv'
<1> SUFFICES ASSUME Inv, TakenInv, OnceInv, [Next]_vars PROVE OnceInv'
  OBVIOUS
<1>1. TypeOK
  BY DEF Inv
<1>2. ASSUME UNCHANGED schedules, \A q \in Requests : Waits(q)' => Waits(q) PROVE OnceInv'
  BY <1>2 DEF OnceInv, Free, Ahead, Fresh
<1>3. CASE UNCHANGED vars
  BY <1>2, <1>3 DEF Waits
<1>4. ASSUME NEW t \in Threads, Send(t) \/ Called(t) PROVE OnceInv'
  <2>1. UNCHANGED schedules
    BY <1>4 DEF Send, Called, Redirect, Fails, Land, Learn, Moved, Ends
  <2> QED BY <1>1, <1>2, <1>4, <2>1, CallTaken
<1>5. ASSUME NEW r \in Requests, Handle(r) PROVE OnceInv'
  <2>1. /\ \A q \in Requests : Waits(q)' => Waits(q)
        /\ Waits(r) /\ ~Waits(r)'
    BY <1>1, <1>5, HandleTaken
  <2>2. request' = request
    BY <1>5 DEF Handle, NoCall
  <2>3. CASE UNCHANGED schedules
    BY <1>2, <2>1, <2>3
  <2>4. CASE \E id \in Ids, again \in BOOLEAN : Add(r, id, again) \/ Del(r, id)
    <3>1. CASE unsaved
      BY <2>4, <3>1 DEF Add, Del, OnceInv
    <3>2. CASE ~unsaved
      <4>1. Fresh(r)
        BY <2>1, <3>2 DEF OnceInv
      <4> QED BY <1>1, <2>1, <2>2, <2>4, <4>1, AddOnce
    <3> QED BY <3>1, <3>2
  <2>5. world.asks[r] \in Ops
    BY <1>1, TunnelAssumption DEF TypeOK
  <2> QED BY <1>5, <2>3, <2>4, <2>5 DEF Handle, Ops
<1>6. CASE SaveEnds \/ Restart
  <2>1. (\E how \in {"ok", "failed"} : Written(how)) \/ Reload
    BY <1>6 DEF SaveEnds, Restart
  <2> QED BY <1>1, <1>6, <2>1, SavedOnce, OtherTaken
<1>7. CASE OfSchedules
  BY <1>1, <1>7, TickOnce DEF OfSchedules, NoCall
<1>8. CASE (\E r \in Requests : Ask(r)) \/ \E a \in Addrs : Moves(a)
  <2>1. UNCHANGED schedules
    BY <1>8 DEF Ask, Moves
  <2> QED BY <1>1, <1>2, <1>8, <2>1, OtherTaken
<1> QED BY <1>3, <1>4, <1>5, <1>6, <1>7, <1>8 DEF Next

-----------------------------------------------------------------------------
LEMMA Invariant == Spec => []Inv
  BY InvInit, InvStep, PTL DEF Spec

LEMMA OnceInvariant == Spec => [](TakenInv /\ OnceInv)
  BY OnceInit, TakenStep, OnceStep, Invariant, PTL DEF Spec

(* Every variable keeps its type: no call takes more hops than MAX_HOPS, what is *)
(* to be fired is in the list, and no schedule is armed beyond what was due.     *)
THEOREM TypeCorrect == Spec => []TypeOK
<1>1. Inv => TypeOK
  BY DEF Inv
<1> QED BY <1>1, Invariant, PTL

(* The token goes to the operator's own address or to https at or below its     *)
(* host, whatever the hub redirects to, and through however many bases.         *)
THEOREM TokenHome == Spec => []TokenStaysHome
<1>1. Inv => TokenStaysHome
  BY DEF Inv, HomeInv, CallHome, TokenStaysHome
<1> QED BY <1>1, Invariant, PTL

(* A time is fired once, across restarts, while every change was saved; and    *)
(* the file is then the list.                                                  *)
THEOREM FiredOnce == Spec => []FiresOnce
<1>1. OnceInv => FiresOnce
  BY DEF OnceInv, FiresOnce
<1> QED BY <1>1, OnceInvariant, PTL
================================================================================
