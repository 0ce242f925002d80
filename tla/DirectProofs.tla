---------------------------- MODULE DirectProofs ----------------------------
(***************************************************************************)
(* Invariants of Direct proved for any number of calls, any requests and   *)
(* addresses, any leeway, lifetime of a grant and size of the cache.       *)
(***************************************************************************)
EXTENDS Direct, FiniteSetTheorems, TLAPS

Early == {"start", "grant", "probe", "probing", "mint"}
Past  == {"relaying", "hold", "done"}           \* the relay was asked, or nothing is left
Minting(kind) == IF kind = "op" THEN Early ELSE {"start", "grant"}

(* The grants somebody still holds, or may still send. *)
Held == {m.cap : m \in air}
        \cup {call[c].cap : c \in {d \in Calls : call[d].pc \in {"probe", "probing"}}}

(* Clocks agree within the leeway, and no grant is from the future.         *)
ClockInv ==
    /\ drift <= SKEW_SECS /\ -drift <= SKEW_SECS
    /\ \A g \in Held : g \in Grants /\ g.iat <= HubNow

(* A nonce names one grant, made when its call was past the minting.        *)
NonceInv ==
    /\ \A g, h \in Held : g.nonce = h.nonce => g = h
    /\ \A g \in Held : call[g.nonce[1]].pc \notin Minting(g.nonce[2])
    /\ \A d \in Devices : \A s \in agent[d].seen :
          /\ call[s.nonce[1]].pc \notin Minting(s.nonce[2])
          /\ \A g \in Held : g.nonce = s.nonce => g.exp = s.exp
    /\ \A p \in spent : call[p[2][1]].pc \notin Minting(p[2][2])

(* A nonce that was spent is in the cache until its grant is out of the     *)
(* window.                                                                  *)
SpentInv ==
    \A p \in spent : \A g \in Held :
        g.nonce = p[2] =>
            \/ g.exp + SKEW_SECS <= now
            \/ \E s \in agent[p[1]].seen : s.nonce = p[2]

(* A request for the operation is the only one of its call, and while the   *)
(* call counts on it the operation ran only if the answer says so.          *)
OpOK(m) ==
    /\ OpFor(Req[m.call]) # NoCapability
    /\ call[m.call].pc \notin Early
    /\ m.call \in gaveUp \/ call[m.call].pc = "wait"
    /\ m.call \notin gaveUp /\ m.st \in {"sent", "refused"} => runs[m.call] = {}

OpInv ==
    /\ \A m \in air : m.kind = "op" => OpOK(m)
    /\ \A m, n \in air : m.kind = "op" /\ n.kind = "op" /\ m.call = n.call => m = n

(* How far a call is, what the hub made of it, and where it ran.            *)
FlowOK(c) ==
    /\ call[c].pc \in Early \cup {"wait"} => c \notin gaveUp
    /\ call[c].pc \in Early => runs[c] = {}
    /\ call[c].pc \notin Past =>
          rel[c] = "none" /\ told[c] = "nothing" /\ c \notin denied
    /\ call[c].pc = "mint" => OpFor(Req[c]) # NoCapability
    /\ call[c].pc \notin Past \/ rel[c] \in {"queued", "pending", "running", "denied"} =>
          runs[c] \subseteq {"lan"}
    /\ c \notin gaveUp /\ "lan" \in runs[c] =>
          runs[c] = {"lan"} /\ rel[c] = "none" /\ call[c].pc \in {"wait", "done"}
    /\ ~({"relay", "approval"} \subseteq runs[c])
    /\ "stray" \notin runs[c]
    /\ c \in denied => rel[c] \in {"none", "answered", "denied"}
    /\ told[c] = "result" =>
          call[c].pc = "done" /\ rel[c] \notin {"queued", "pending", "running"}

FlowInv == \A c \in Calls : FlowOK(c)

Inv == TypeOK /\ ClockInv /\ NonceInv /\ SpentInv /\ OpInv /\ FlowInv /\ GrantServesOnce
-----------------------------------------------------------------------------
USE DEF vars, hub, agents, controller, clocks, history
USE DirectConstantsOK, CapabilityConstantsOK

CallRec ==
    [pc : PCs, addr : Addrs \cup {"none"}, tok : Nat, left : Seq(Addrs),
     cap : Grants \cup {NoGrant}]

HasAddress == {"probing", "mint", "wait"}

CallOK ==
    /\ call \in [Calls -> CallRec]
    /\ \A c \in Calls : call[c].pc \in HasAddress => call[c].addr \in Addrs

(* A call that moves on to a well-formed place leaves all calls well formed. *)
LEMMA Lands ==
    ASSUME CallOK, NEW c \in Calls, NEW r \in CallRec,
           r.pc \in HasAddress => r.addr \in Addrs,
           call' = [call EXCEPT ![c] = r]
    PROVE  /\ CallOK'
           /\ call'[c] = r
           /\ \A d \in Calls : d # c => call'[d] = call[d]
  BY DEF CallOK

LEMMA GotoLands ==
    ASSUME CallOK, NEW c \in Calls, NEW pc \in {"relay"} \cup Past, Goto(c, pc)
    PROVE  /\ CallOK'
           /\ call'[c].pc = pc
           /\ \A d \in Calls : d # c => call'[d] = call[d]
<1>1. At(pc, "none", 0) \in CallRec /\ At(pc, "none", 0).pc = pc
  <2>1. <<>> \in Seq(Addrs)
    OBVIOUS
  <2> QED BY <2>1 DEF At, CallRec, PCs, Past
<1>2. pc \notin HasAddress
  BY DEF HasAddress, Past
<1>3. call' = [call EXCEPT ![c] = At(pc, "none", 0)]
  BY DEF Goto
<1> QED BY <1>1, <1>2, <1>3, Lands

LEMMA FollowLands ==
    ASSUME CallOK, NEW c \in Calls, NEW r \in Routes, Follow(c, r)
    PROVE  /\ CallOK'
           /\ \/ call'[c].pc = "mint" /\ OpFor(Req[c]) # NoCapability
              \/ call'[c].pc = "relay"
           /\ \A d \in Calls : d # c => call'[d] = call[d]
<1>1. CASE r.kind = "direct" /\ OpFor(Req[c]) # NoCapability
  <2>1. r.addr \in Addrs /\ r.tok \in Nat
    BY <1>1 DEF Routes
  <2>2. <<>> \in Seq(Addrs)
    OBVIOUS
  <2> DEFINE w == At("mint", r.addr, r.tok)
  <2>3. w \in CallRec /\ w.pc = "mint" /\ w.addr \in Addrs
    BY <2>1, <2>2 DEF At, CallRec, PCs
  <2>4. call' = [call EXCEPT ![c] = w]
    BY <1>1 DEF Follow
  <2> HIDE DEF w
  <2> QED BY <1>1, <2>3, <2>4, Lands
<1>2. CASE ~(r.kind = "direct" /\ OpFor(Req[c]) # NoCapability)
  <2>1. Goto(c, "relay")
    BY <1>2 DEF Follow
  <2> QED BY <2>1, GotoLands
<1> QED BY <1>1, <1>2

LEMMA RelayIsRoute == Relay \in Routes /\ Relay.kind = "relay"
  BY DEF Relay, Routes

LEMMA TypeCall == TypeOK => CallOK /\ route \in Routes /\ air \subseteq Messages
  BY DEF TypeOK, CallOK, CallRec, HasAddress

(* What the first part of a call does to the calls, and to the route. *)
LEMMA Begun ==
    ASSUME CallOK, NEW c \in Calls, hubTok \in Nat, route \in Routes,
           UseRoute(c) \/ DirectInfo(c) \/ ProbeGrant(c) \/ ProbeSend(c) \/ ProbeYes(c) \/ ProbeNo(c),
           now \in Nat, drift \in Int
    PROVE  /\ CallOK' /\ route' \in Routes
           /\ \A d \in Calls : d # c => call'[d] = call[d]
           /\ \/ /\ call'[c].pc = "grant" /\ call[c].pc = "start"
              \/ /\ call'[c].pc = "probe" /\ call[c].pc = "grant"
                 /\ call'[c].cap = Minted(c, "probe", Probing) /\ ProbeGrant(c)
              \/ /\ call'[c].pc = "probing" /\ call[c].pc = "probe" /\ call'[c].cap = call[c].cap
              \/ /\ call'[c].pc = "probe" /\ call[c].pc = "probing" /\ call'[c].cap = call[c].cap
              \/ /\ call'[c].pc = "mint" /\ OpFor(Req[c]) # NoCapability
                 /\ call[c].pc \in Early \ {"mint"}
              \/ /\ call'[c].pc = "relay" /\ call[c].pc \in Early \ {"mint"}
<1>0. call[c] \in CallRec
  BY DEF CallOK
<1>1. CASE UseRoute(c)
  <2>1. Follow(c, route) /\ call[c].pc = "start" /\ route' = route
    BY <1>1 DEF UseRoute, Begins
  <2> QED BY <2>1, FollowLands DEF Early
<1>2. CASE DirectInfo(c)
  <2>0. call[c].pc = "start"
    BY <1>2 DEF DirectInfo, Begins
  <2>1. CASE Put(c, Relay)
    BY <2>0, <2>1, FollowLands, RelayIsRoute DEF Put, Early
  <2>2. CASE call' = [call EXCEPT ![c].pc = "grant", ![c].left = Ips, ![c].tok = hubTok] /\ route' = route
    <3> DEFINE w == [call[c] EXCEPT !.pc = "grant", !.left = Ips, !.tok = hubTok]
    <3>1. w \in CallRec /\ w.pc = "grant"
      BY <1>0 DEF CallRec, PCs
    <3>2. call' = [call EXCEPT ![c] = w]
      BY <2>2 DEF CallOK
    <3> HIDE DEF w
    <3> QED BY <2>0, <2>2, <3>1, <3>2, Lands DEF HasAddress
  <2> QED BY <1>2, <2>1, <2>2 DEF DirectInfo
<1>3. CASE ProbeGrant(c)
  <2>0. call[c].pc = "grant"
    BY <1>3 DEF ProbeGrant
  <2>1. CASE Put(c, Relay)
    BY <2>0, <2>1, FollowLands, RelayIsRoute DEF Put, Early
  <2>2. CASE call' = [call EXCEPT ![c].pc = "probe", ![c].cap = Minted(c, "probe", Probing)] /\ route' = route
    <3> DEFINE w == [call[c] EXCEPT !.pc = "probe", !.cap = Minted(c, "probe", Probing)]
    <3>0. Minted(c, "probe", Probing) \in Grants
      BY DEF Minted, Grants, HubNow
    <3>1. w \in CallRec /\ w.pc = "probe" /\ w.cap = Minted(c, "probe", Probing)
      BY <1>0, <3>0 DEF CallRec, PCs
    <3>2. call' = [call EXCEPT ![c] = w]
      BY <2>2 DEF CallOK
    <3> HIDE DEF w
    <3> QED BY <1>3, <2>0, <2>2, <3>1, <3>2, Lands DEF HasAddress
  <2> QED BY <1>3, <2>1, <2>2 DEF ProbeGrant
<1>4. CASE ProbeSend(c)
  <2>0. call[c].pc = "probe"
    BY <1>4 DEF ProbeSend
  <2>1. CASE Put(c, Relay)
    BY <2>0, <2>1, FollowLands, RelayIsRoute DEF Put, Early
  <2>2. CASE /\ call[c].left # <<>> /\ route' = route
             /\ call' = [call EXCEPT ![c].pc = "probing", ![c].addr = Head(call[c].left),
                                     ![c].left = Tail(@)]
    <3> DEFINE w == [call[c] EXCEPT !.pc = "probing", !.addr = Head(call[c].left), !.left = Tail(@)]
    <3>0. Head(call[c].left) \in Addrs /\ Tail(call[c].left) \in Seq(Addrs)
      <4>1. call[c].left \in Seq(Addrs)
        BY <1>0 DEF CallRec
      <4> QED BY <2>2, <4>1
    <3>1. w \in CallRec /\ w.pc = "probing" /\ w.addr \in Addrs /\ w.cap = call[c].cap
      BY <1>0, <3>0 DEF CallRec, PCs
    <3>2. call' = [call EXCEPT ![c] = w]
      BY <2>2 DEF CallOK
    <3> HIDE DEF w
    <3> QED BY <2>0, <2>2, <3>1, <3>2, Lands
  <2> QED BY <1>4, <2>1, <2>2 DEF ProbeSend
<1>5. CASE ProbeYes(c)
  <2> DEFINE r == [kind |-> "direct", addr |-> call[c].addr, tok |-> call[c].tok]
  <2>0. call[c].pc = "probing" /\ Put(c, r)
    BY <1>5 DEF ProbeYes
  <2>1. r \in Routes
    <3>1. call[c].addr \in Addrs /\ call[c].tok \in Nat
      BY <1>0, <2>0 DEF CallOK, HasAddress, CallRec
    <3> QED BY <3>1 DEF Routes
  <2> HIDE DEF r
  <2> QED BY <2>0, <2>1, FollowLands DEF Put, Early
<1>6. CASE ProbeNo(c)
  <2> DEFINE w == [call[c] EXCEPT !.pc = "probe"]
  <2>0. call[c].pc = "probing" /\ route' = route
    BY <1>6 DEF ProbeNo
  <2>1. w \in CallRec /\ w.pc = "probe" /\ w.cap = call[c].cap
    BY <1>0 DEF CallRec, PCs
  <2>2. call' = [call EXCEPT ![c] = w]
    BY <1>6 DEF CallOK, ProbeNo
  <2> HIDE DEF w
  <2> QED BY <2>0, <2>1, <2>2, Lands DEF HasAddress
<1> QED BY <1>1, <1>2, <1>3, <1>4, <1>5, <1>6

Later(c) ==
    \/ MintAndSend(c) \/ MintNothing(c) \/ MintRefused(c)
    \/ DirectAnswer(c) \/ DirectRefused(c) \/ DirectFails(c)
    \/ SendRelay(c) \/ RelayAnswer(c) \/ Hold(c) \/ RelayFails(c)
    \/ Settle(c) \/ WaitEnds(c)

(* The same for the rest of a call: out on the LAN, then the relay, the     *)
(* wait for a human, or the end.                                            *)
LEMMA Carried ==
    ASSUME CallOK, NEW c \in Calls, route \in Routes, Later(c)
    PROVE  /\ CallOK' /\ route' \in Routes
           /\ \A d \in Calls : d # c => call'[d] = call[d]
           /\ \/ call'[c].pc = "wait" /\ call[c].pc = "mint" /\ MintAndSend(c)
              \/ /\ call'[c].pc = "relay" /\ call[c].pc \in {"mint", "wait"}
              \/ call'[c].pc \in Past /\ call[c].pc \notin Early \ {"mint"}
<1>0. call[c] \in CallRec
  BY DEF CallOK
<1>1. CASE MintAndSend(c)
  <2> DEFINE w == [call[c] EXCEPT !.pc = "wait"]
  <2>0. call[c].pc = "mint" /\ route' = route
    BY <1>1 DEF MintAndSend
  <2>1. w \in CallRec /\ w.pc = "wait" /\ w.addr \in Addrs
    BY <1>0, <2>0 DEF CallRec, PCs, CallOK, HasAddress
  <2>2. call' = [call EXCEPT ![c] = w]
    BY <1>1 DEF CallOK, MintAndSend
  <2> HIDE DEF w
  <2> QED BY <1>1, <2>0, <2>1, <2>2, Lands
<1>2. CASE MintNothing(c)
  BY <1>2, GotoLands DEF MintNothing
<1>3. CASE MintRefused(c)
  BY <1>3, GotoLands DEF MintRefused, Tell, Past, Early
<1>4. CASE DirectAnswer(c)
  <2>1. Goto(c, "done") /\ call[c].pc = "wait" /\ route' = route
    BY <1>4 DEF DirectAnswer, Tell
  <2> QED BY <2>1, GotoLands DEF Past, Early
<1>5. CASE DirectRefused(c)
  BY <1>5, GotoLands, RelayIsRoute DEF DirectRefused, Demote
<1>6. CASE DirectFails(c)
  BY <1>6, GotoLands, RelayIsRoute DEF DirectFails, Demote
<1>7. CASE SendRelay(c)
  <2>1. Goto(c, "relaying") /\ call[c].pc = "relay" /\ route' = route
    BY <1>7 DEF SendRelay
  <2> QED BY <2>1, GotoLands DEF Past, Early
<1>8. CASE RelayAnswer(c)
  BY <1>8, GotoLands DEF RelayAnswer, Tell, Past, Early
<1>9. CASE Hold(c)
  BY <1>9, GotoLands DEF Hold, Past, Early
<1>10. CASE RelayFails(c)
  BY <1>10, GotoLands DEF RelayFails, Tell, Past, Early
<1>11. CASE Settle(c)
  BY <1>11, GotoLands DEF Settle, Tell, Past, Early
<1>12. CASE WaitEnds(c)
  BY <1>12, GotoLands DEF WaitEnds, Tell, Past, Early
<1> QED BY <1>1, <1>2, <1>3, <1>4, <1>5, <1>6, <1>7, <1>8, <1>9, <1>10, <1>11, <1>12 DEF Later

(* A call never comes back to where its grant was asked for.                *)
LEMMA NeverBack ==
    ASSUME TypeOK, Next, NEW c \in Calls, NEW kind \in {"probe", "op"},
           call[c].pc \notin Minting(kind)
    PROVE  call'[c].pc \notin Minting(kind)
<1>0. CallOK /\ route \in Routes /\ hubTok \in Nat /\ now \in Nat /\ drift \in Int
  BY TypeCall DEF TypeOK
<1>1. CASE call' = call
  BY <1>1
<1>2. ASSUME NEW d \in Calls, CallStep(d) PROVE call'[c].pc \notin Minting(kind)
  <2>1. CASE c # d
    BY <1>0, <1>2, <2>1, Begun, Carried DEF CallStep, Later
  <2>2. CASE c = d /\ Later(d)
    BY <1>0, <2>2, Carried DEF Minting, Early, Past
  <2>3. CASE c = d /\ ~Later(d)
    <3>1. UseRoute(d) \/ DirectInfo(d) \/ ProbeGrant(d) \/ ProbeSend(d) \/ ProbeYes(d) \/ ProbeNo(d)
      BY <1>2, <2>3 DEF CallStep, Later
    <3> QED BY <1>0, <2>3, <3>1, Begun DEF Minting, Early
  <2> QED BY <2>1, <2>2, <2>3
<1>3. ASSUME ~(\E d \in Calls : CallStep(d)) PROVE call' = call
  BY <1>3 DEF Next, RouteAges, TurnAway, Serve, RelayServe, Decide, Replay, Moves,
              PolicyChanges, Reenrolled, Restarts, Tick
<1> QED BY <1>1, <1>2, <1>3
-----------------------------------------------------------------------------
(* Types                                                                    *)

LEMMA MessageSent ==
    ASSUME TypeOK, NEW c \in Calls, NEW kind \in {"probe", "op"}, NEW addr \in Addrs,
           NEW tok \in Nat, NEW cap \in Grants
    PROVE  Sent(c, kind, addr, tok, cap) \subseteq Messages
  BY DEF Sent, Messages, TypeOK

LEMMA MessageAnswered ==
    ASSUME NEW m \in Messages, NEW st \in Answers
    PROVE  [m EXCEPT !.st = st] \in Messages
  BY DEF Messages

LEMMA Responded ==
    ASSUME air \subseteq Messages, NEW m \in air, NEW st \in Answers, Respond(m, st)
    PROVE  air' \subseteq Messages
  BY MessageAnswered DEF Respond

LEMMA GrantMinted ==
    ASSUME TypeOK, NEW c \in Calls, NEW kind \in {"probe", "op"},
           NEW op \in {OpFor(Req[d]) : d \in Calls} \cup {Probing}
    PROVE  /\ Minted(c, kind, op) \in Grants
           /\ Minted(c, kind, op).nonce = <<c, kind>>
           /\ Minted(c, kind, op).iat = HubNow
  BY DEF Minted, Grants, TypeOK, HubNow

(* The types of what a step of a call may leave alone. *)
HubOK ==
    /\ now \in Nat /\ drift \in Int /\ events \in Nat /\ hubTok \in Nat
    /\ tier \in [Operations -> {"run", "privileged", "blocked"}]
    /\ rel \in [Calls -> {"none", "queued", "answered"} \cup Approvals]

AgentsOK ==
    /\ agent \in [Devices -> [tok : Nat, key : BOOLEAN,
                   seen : SUBSET [nonce : Calls \X {"probe", "op"}, exp : Int]]]
    /\ shared \in BOOLEAN
    /\ at \in [Addrs -> Devices]

HistoryOK ==
    /\ told \in [Calls -> Told]
    /\ runs \in [Calls -> SUBSET {"lan", "stray", "relay", "approval"}]
    /\ gaveUp \subseteq Calls /\ denied \subseteq Calls
    /\ spent \subseteq Devices \X (Calls \X {"probe", "op"})
    /\ repeats \subseteq Int

LEMMA TypeParts ==
    TypeOK <=> CallOK /\ route \in Routes /\ air \subseteq Messages
               /\ HubOK /\ AgentsOK /\ HistoryOK
  BY DEF TypeOK, CallOK, CallRec, HasAddress, HubOK, AgentsOK, HistoryOK

LEMMA TypePartsNext ==
    CallOK' /\ route' \in Routes /\ air' \subseteq Messages
      /\ HubOK' /\ AgentsOK' /\ HistoryOK' => TypeOK'
  BY DEF TypeOK, CallOK, CallRec, HasAddress, HubOK, AgentsOK, HistoryOK

(* Everything in a call's hands is a grant. *)
LEMMA HeldCall ==
    ASSUME ClockInv, NEW c \in Calls, call[c].pc \in {"probe", "probing"}
    PROVE  call[c].cap \in Grants /\ call[c].cap.iat <= HubNow
  BY DEF ClockInv, Held

LEMMA TypeCallStep ==
    ASSUME TypeOK, ClockInv, NEW c \in Calls, CallStep(c)
    PROVE  TypeOK'
<1>0. /\ CallOK /\ route \in Routes /\ air \subseteq Messages
      /\ HubOK /\ AgentsOK /\ HistoryOK
  BY TypeParts
<1>1. CallOK' /\ route' \in Routes
  BY <1>0, Begun, Carried DEF CallStep, Later, HubOK
<1>2. agent' = agent /\ shared' = shared /\ at' = at
  BY DEF CallStep, UseRoute, DirectInfo, ProbeGrant, ProbeSend, ProbeYes, ProbeNo,
         MintAndSend, MintNothing, MintRefused, DirectAnswer, DirectRefused, DirectFails,
         SendRelay, RelayAnswer, Hold, RelayFails, Settle, WaitEnds
<1>3. /\ now' = now /\ drift' = drift /\ events' = events /\ hubTok' = hubTok
      /\ tier' = tier /\ runs' = runs /\ spent' = spent /\ repeats' = repeats
  BY DEF CallStep, UseRoute, DirectInfo, ProbeGrant, ProbeSend, ProbeYes, ProbeNo,
         MintAndSend, MintNothing, MintRefused, DirectAnswer, DirectRefused, DirectFails,
         SendRelay, RelayAnswer, Hold, RelayFails, Settle, WaitEnds
<1>4. HubOK'
  <2>1. CASE SendRelay(c)
    <3>1. rel' = rel \/ \E x \in {"queued", "answered", "pending"} : rel' = [rel EXCEPT ![c] = x]
      <4>1. tier[Operation(Req[c])] \in {"run", "privileged", "blocked"}
        BY <1>0 DEF HubOK, Operations
      <4> QED BY <2>1, <4>1 DEF SendRelay
    <3> QED BY <1>0, <1>3, <3>1 DEF HubOK, Approvals
  <2>2. CASE ~SendRelay(c)
    <3>1. rel' = rel
      BY <2>2 DEF CallStep, UseRoute, DirectInfo, ProbeGrant, ProbeSend, ProbeYes, ProbeNo,
         MintAndSend, MintNothing, MintRefused, DirectAnswer, DirectRefused, DirectFails,
         RelayAnswer, Hold, RelayFails, Settle, WaitEnds
    <3> QED BY <1>0, <1>3, <3>1 DEF HubOK
  <2> QED BY <2>1, <2>2
<1>5. AgentsOK'
  BY <1>0, <1>2 DEF AgentsOK
<1>6. HistoryOK'
  <2>1. \/ told' = told
        \/ \E x \in {"result", "error", "pending"} : told' = [told EXCEPT ![c] = x]
    BY DEF CallStep, UseRoute, DirectInfo, ProbeGrant, ProbeSend, ProbeYes, ProbeNo,
         MintAndSend, MintNothing, MintRefused, DirectAnswer, DirectRefused, DirectFails,
         SendRelay, RelayAnswer, Hold, RelayFails, Settle, WaitEnds, Tell
  <2>2. gaveUp' \subseteq gaveUp \cup {c} /\ denied' \subseteq denied \cup {c}
    BY DEF CallStep, UseRoute, DirectInfo, ProbeGrant, ProbeSend, ProbeYes, ProbeNo,
         MintAndSend, MintNothing, MintRefused, DirectAnswer, DirectRefused, DirectFails,
         SendRelay, RelayAnswer, Hold, RelayFails, Settle, WaitEnds
  <2> QED BY <1>0, <1>3, <2>1, <2>2 DEF HistoryOK, Told
<1>7. air' \subseteq Messages
  <2>1. CASE ProbeSend(c)
    <3>1. call[c].left # <<>> => Head(call[c].left) \in Addrs
      <4>1. call[c].left \in Seq(Addrs)
        BY <1>0 DEF CallOK, CallRec
      <4> QED BY <4>1
    <3>2. call[c].tok \in Nat /\ call[c].cap \in Grants
      BY <1>0, <2>1, HeldCall DEF CallOK, CallRec, ProbeSend
    <3>3. \/ air' = air
          \/ /\ call[c].left # <<>>
             /\ air' = air \cup Sent(c, "probe", Head(call[c].left), call[c].tok, call[c].cap)
      BY <2>1 DEF ProbeSend
    <3> QED BY <1>0, <3>1, <3>2, <3>3, MessageSent
  <2>2. CASE MintAndSend(c)
    <3>1. call[c].addr \in Addrs /\ call[c].tok \in Nat
      BY <1>0, <2>2 DEF CallOK, CallRec, MintAndSend, HasAddress
    <3>2. Minted(c, "op", OpFor(Req[c])) \in Grants
      BY GrantMinted
    <3> QED BY <1>0, <2>2, <3>1, <3>2, MessageSent DEF MintAndSend
  <2>3. CASE ~ProbeSend(c) /\ ~MintAndSend(c)
    <3>1. air' \subseteq air
      BY <2>3 DEF CallStep, UseRoute, DirectInfo, ProbeGrant, ProbeYes, ProbeNo, Abandon,
         MintNothing, MintRefused, DirectAnswer, DirectRefused, DirectFails,
         SendRelay, RelayAnswer, Hold, RelayFails, Settle, WaitEnds
    <3> QED BY <1>0, <3>1
  <2> QED BY <2>1, <2>2, <2>3
<1> QED BY <1>0, <1>1, <1>4, <1>5, <1>6, <1>7, TypePartsNext

LEMMA CacheClaimed ==
    ASSUME NEW seen \in SUBSET [nonce : Calls \X {"probe", "op"}, exp : Int],
           NEW g \in Grants, NEW t
    PROVE  Claimed(seen, g, t) \in SUBSET [nonce : Calls \X {"probe", "op"}, exp : Int]
  BY DEF Claimed, Swept, Grants

LEMMA TypeServe ==
    ASSUME TypeOK, NEW m \in air, Serve(m)
    PROVE  TypeOK'
<1>0. /\ CallOK /\ route \in Routes /\ air \subseteq Messages
      /\ HubOK /\ AgentsOK /\ HistoryOK /\ m \in Messages
  BY TypeParts
<1>1. UNCHANGED <<call, route, now, drift, events, hubTok, tier, rel, shared, at, told, gaveUp, denied>>
  BY DEF Serve
<1>2. AgentsOK'
  <2>1. m.cap \in Grants /\ m.dev \in Devices
    BY <1>0 DEF Messages
  <2>2. agent' = [agent EXCEPT ![m.dev].seen = Claimed(@, m.cap, now)]
    BY DEF Serve
  <2> DEFINE w == [agent[m.dev] EXCEPT !.seen = Claimed(@, m.cap, now)]
  <2>3. w \in [tok : Nat, key : BOOLEAN, seen : SUBSET [nonce : Calls \X {"probe", "op"}, exp : Int]]
    <3>1. agent[m.dev] \in [tok : Nat, key : BOOLEAN, seen : SUBSET [nonce : Calls \X {"probe", "op"}, exp : Int]]
      BY <1>0, <2>1 DEF AgentsOK
    <3>2. Claimed(agent[m.dev].seen, m.cap, now) \in SUBSET [nonce : Calls \X {"probe", "op"}, exp : Int]
      BY <2>1, <3>1, CacheClaimed
    <3> QED BY <3>1, <3>2
  <2>4. agent' = [agent EXCEPT ![m.dev] = w]
    BY <1>0, <2>1, <2>2 DEF AgentsOK
  <2> HIDE DEF w
  <2> QED BY <1>0, <1>1, <2>1, <2>3, <2>4 DEF AgentsOK
<1>3. air' \subseteq Messages
  BY <1>0, Responded DEF Serve, Answers
<1>4. HistoryOK'
  <2>1. m.call \in Calls /\ m.dev \in Devices /\ m.cap.nonce \in Calls \X {"probe", "op"}
    BY <1>0 DEF Messages, Grants
  <2>2. runs' = runs \/ \E leg \in {"lan", "stray"} : runs' = [runs EXCEPT ![m.call] = @ \cup {leg}]
    BY DEF Serve, Ran
  <2>3. spent' \subseteq spent \cup {<<m.dev, m.cap.nonce>>}
    BY <1>0 DEF Serve, Accept, HistoryOK
  <2>4. repeats' \subseteq Int
    <3>1. now - m.cap.exp \in Int
      BY <1>0 DEF TypeOK, Messages, Grants
    <3> QED BY <1>0, <3>1 DEF Serve, Accept, HistoryOK
  <2> QED BY <1>0, <1>1, <2>1, <2>2, <2>3, <2>4 DEF HistoryOK
<1> QED
  <2>1. CallOK' /\ route' \in Routes /\ HubOK'
    BY <1>0, <1>1 DEF CallOK, HubOK
  <2> QED BY <1>2, <1>3, <1>4, <2>1, TypePartsNext

LEMMA TypeOther ==
    ASSUME TypeOK, Next, ~(\E c \in Calls : CallStep(c)), ~(\E m \in air : Serve(m))
    PROVE  TypeOK'
<1>0. /\ CallOK /\ route \in Routes /\ air \subseteq Messages
      /\ HubOK /\ AgentsOK /\ HistoryOK
  BY TypeParts
<1>1. CASE RouteAges
  <2>1. route' \in Routes
    BY <1>1 DEF RouteAges, Routes
  <2> QED BY <1>1, <2>1, TypeParts, TypePartsNext DEF RouteAges, CallOK, HubOK, AgentsOK, HistoryOK
<1>2. ASSUME NEW m \in air, TurnAway(m) PROVE TypeOK'
  <2>1. air' \subseteq Messages
    BY <1>0, <1>2, Responded DEF TurnAway, Answers
  <2> QED BY <1>0, <1>2, <2>1, TypePartsNext DEF TurnAway, CallOK, HubOK, AgentsOK, HistoryOK
<1>3. ASSUME NEW c \in Calls, RelayServe(c) \/ Decide(c) \/ Replay(c) PROVE TypeOK'
  <2>1. \E x \in {"answered", "none", "running", "denied", "executed"} : rel' = [rel EXCEPT ![c] = x]
    BY <1>3 DEF RelayServe, Decide, Replay
  <2>2. HubOK'
    BY <1>0, <1>3, <2>1 DEF HubOK, Approvals, RelayServe, Decide, Replay
  <2>3. runs' = runs \/ \E x \in {"relay", "approval"} : runs' = [runs EXCEPT ![c] = @ \cup {x}]
    BY <1>3 DEF RelayServe, Decide, Replay, Ran
  <2>4. denied' \subseteq denied \cup {c}
    BY <1>3 DEF RelayServe, Decide, Replay
  <2>5. HistoryOK'
    <3>1. UNCHANGED <<told, gaveUp, spent, repeats>>
      BY <1>3 DEF RelayServe, Decide, Replay
    <3>2. runs' \in [Calls -> SUBSET {"lan", "stray", "relay", "approval"}]
      BY <1>0, <2>3 DEF HistoryOK
    <3> QED BY <1>0, <1>3, <2>4, <3>1, <3>2 DEF HistoryOK
  <2>6. CallOK' /\ route' \in Routes /\ air' \subseteq Messages /\ AgentsOK'
    BY <1>0, <1>3 DEF CallOK, AgentsOK, RelayServe, Decide, Replay
  <2> QED BY <2>2, <2>5, <2>6, TypePartsNext
<1>4. CASE Moves
  <2>1. AgentsOK' /\ events' \in Nat
    BY <1>0, <1>4 DEF Moves, Event, AgentsOK, HubOK
  <2> QED BY <1>0, <1>4, <2>1, TypePartsNext DEF Moves, CallOK, HubOK, HistoryOK
<1>5. CASE PolicyChanges
  <2>1. HubOK'
    BY <1>0, <1>5 DEF PolicyChanges, Event, HubOK
  <2> QED BY <1>0, <1>5, <2>1, TypePartsNext DEF PolicyChanges, CallOK, AgentsOK, HistoryOK
<1>6. CASE Reenrolled
  <2>1. HubOK'
    BY <1>0, <1>6 DEF Reenrolled, Event, HubOK
  <2> QED BY <1>0, <1>6, <2>1, TypePartsNext DEF Reenrolled, CallOK, AgentsOK, HistoryOK
<1>7. CASE Restarts
  <2>1. AgentsOK' /\ events' \in Nat
    <3>1. PICK key \in BOOLEAN : agent' = [agent EXCEPT !["device"] = [tok |-> hubTok, key |-> key, seen |-> {}]]
      BY <1>7 DEF Restarts
    <3> DEFINE w == [tok |-> hubTok, key |-> key, seen |-> {}]
    <3>2. w \in [tok : Nat, key : BOOLEAN, seen : SUBSET [nonce : Calls \X {"probe", "op"}, exp : Int]]
      BY <1>0 DEF HubOK
    <3>3. agent' = [agent EXCEPT !["device"] = w]
      BY <3>1
    <3> HIDE DEF w
    <3>4. shared' = shared /\ at' = at /\ events' \in Nat
      BY <1>0, <1>7 DEF Restarts, Event, HubOK
    <3> QED BY <1>0, <3>2, <3>3, <3>4 DEF AgentsOK
  <2>2. air' \subseteq Messages /\ spent' \subseteq spent
    BY <1>0, <1>7 DEF Restarts
  <2>3. HistoryOK'
    BY <1>0, <1>7, <2>2 DEF Restarts, HistoryOK
  <2> QED BY <1>0, <1>7, <2>1, <2>2, <2>3, TypePartsNext DEF Restarts, CallOK, HubOK
<1>8. CASE Tick
  <2>1. now' \in Nat
    BY <1>0, <1>8 DEF Tick, HubOK
  <2> QED BY <1>0, <1>8, <2>1, TypePartsNext DEF Tick, CallOK, HubOK, AgentsOK, HistoryOK
<1> QED BY <1>1, <1>2, <1>3, <1>4, <1>5, <1>6, <1>7, <1>8 DEF Next
-----------------------------------------------------------------------------
(* Grants                                                                   *)

LEMMA RespondKeeps ==
    ASSUME air \subseteq Messages, NEW m \in air, NEW st \in Answers, Respond(m, st),
           NEW n \in air'
    PROVE  \/ n \in air /\ n # m
           \/ n = [m EXCEPT !.st = st] /\ n.call = m.call /\ n.kind = m.kind
              /\ n.addr = m.addr /\ n.dev = m.dev /\ n.cap = m.cap /\ n.st = st /\ Awaited(m)
  BY DEF Respond, Messages

LEMMA AirCaps ==
    ASSUME TypeOK, Next, NEW n \in air'
    PROVE  \/ n.cap \in Held
           \/ \E c \in Calls : MintAndSend(c) /\ n.cap = Minted(c, "op", OpFor(Req[c]))
<1>0. air \subseteq Messages
  BY TypeCall
<1>1. CASE n \in air
  BY <1>1 DEF Held
<1>2. ASSUME NEW c \in Calls, ProbeSend(c), n \notin air PROVE n.cap \in Held
  <2>1. n \in Sent(c, "probe", Head(call[c].left), call[c].tok, call[c].cap)
    BY <1>2 DEF ProbeSend
  <2>2. n.cap = call[c].cap /\ call[c].pc = "probe"
    BY <1>2, <2>1 DEF Sent, ProbeSend
  <2> QED BY <2>2 DEF Held
<1>3. ASSUME NEW c \in Calls, MintAndSend(c), n \notin air
      PROVE  n.cap = Minted(c, "op", OpFor(Req[c]))
  BY <1>3 DEF MintAndSend, Sent
<1>4. ASSUME NEW m \in air, TurnAway(m) \/ Serve(m), n \notin air PROVE n.cap \in Held
  <2>1. \E st \in Answers : Respond(m, st)
    BY <1>4 DEF TurnAway, Serve, Answers
  <2> QED BY <1>0, <1>4, <2>1, RespondKeeps DEF Held
<1>5. ASSUME n \notin air, ~(\E c \in Calls : ProbeSend(c) \/ MintAndSend(c)),
             ~(\E m \in air : TurnAway(m) \/ Serve(m))
      PROVE  FALSE
  BY <1>5 DEF Next, CallStep, UseRoute, DirectInfo, ProbeGrant, ProbeYes, ProbeNo, Abandon,
         MintNothing, MintRefused, DirectAnswer, DirectRefused, DirectFails,
         SendRelay, RelayAnswer, Hold, RelayFails, Settle, WaitEnds,
         RouteAges, RelayServe, Decide, Replay, Moves, PolicyChanges, Reenrolled, Restarts, Tick
<1> QED BY <1>1, <1>2, <1>3, <1>4, <1>5

LEMMA CallCaps ==
    ASSUME TypeOK, Next, NEW d \in Calls, call'[d].pc \in {"probe", "probing"}
    PROVE  \/ call'[d].cap \in Held
           \/ /\ ProbeGrant(d) /\ call[d].pc = "grant" /\ call'[d].pc = "probe"
              /\ call'[d].cap = Minted(d, "probe", Probing)
<1>0. CallOK /\ route \in Routes /\ hubTok \in Nat /\ now \in Nat /\ drift \in Int
  BY TypeCall DEF TypeOK
<1>1. CASE call'[d] = call[d]
  BY <1>1 DEF Held
<1>2. ASSUME NEW c \in Calls, CallStep(c), c # d PROVE call'[d] = call[d]
  BY <1>0, <1>2, Begun, Carried DEF CallStep, Later
<1>3. CASE Later(d)
  BY <1>0, <1>3, Carried DEF Past
<1>4. CASE CallStep(d) /\ ~Later(d)
  <2>1. UseRoute(d) \/ DirectInfo(d) \/ ProbeGrant(d) \/ ProbeSend(d) \/ ProbeYes(d) \/ ProbeNo(d)
    BY <1>4 DEF CallStep, Later
  <2> QED BY <1>0, <2>1, Begun DEF Held
<1>5. ASSUME ~(\E c \in Calls : CallStep(c)) PROVE call' = call
  BY <1>5 DEF Next, RouteAges, TurnAway, Serve, RelayServe, Decide, Replay, Moves,
              PolicyChanges, Reenrolled, Restarts, Tick
<1> QED BY <1>1, <1>2, <1>3, <1>4, <1>5

(* The hub has just made g for call c, which had none of this kind before.  *)
Fresh(c, kind, g) ==
    /\ call[c].pc \in Minting(kind) /\ call'[c].pc \notin Minting(kind)
    /\ g \in Grants /\ g.nonce = <<c, kind>> /\ g.iat = HubNow
    /\ UNCHANGED <<now, drift, agent, spent>>

(* A step adds one grant at most to those that are held, and that is new.   *)
LEMMA HeldStep ==
    ASSUME TypeOK, Next
    PROVE  \/ Held' \subseteq Held
           \/ \E c \in Calls, kind \in {"probe", "op"} : \E g \in Grants :
                 Fresh(c, kind, g) /\ Held' \subseteq Held \cup {g}
<1>0. CallOK /\ route \in Routes
  BY TypeCall
<1>1. ASSUME NEW h \in Held', h \notin Held
      PROVE  \/ \E c \in Calls : MintAndSend(c) /\ h = Minted(c, "op", OpFor(Req[c]))
             \/ \E c \in Calls : /\ ProbeGrant(c) /\ call[c].pc = "grant" /\ call'[c].pc = "probe"
                                 /\ h = Minted(c, "probe", Probing)
  <2>1. CASE \E n \in air' : h = n.cap
    BY <1>1, <2>1, AirCaps
  <2>2. CASE \E d \in Calls : call'[d].pc \in {"probe", "probing"} /\ h = call'[d].cap
    BY <1>1, <2>2, CallCaps
  <2> QED BY <1>1, <2>1, <2>2 DEF Held
<1>2. CASE \E c \in Calls : MintAndSend(c)
  <2>1. PICK c \in Calls : MintAndSend(c)
    BY <1>2
  <2> DEFINE g == Minted(c, "op", OpFor(Req[c]))
  <2>2. g \in Grants /\ g.nonce = <<c, "op">> /\ g.iat = HubNow
    BY GrantMinted
  <2>3. Fresh(c, "op", g)
    <3>1. call[c].pc = "mint" /\ call'[c].pc = "wait"
      BY <1>0, <2>1 DEF MintAndSend, CallOK, CallRec
    <3> QED BY <2>1, <2>2, <3>1 DEF Fresh, Minting, Early, MintAndSend
  <2>4. ASSUME NEW h \in Held', h \notin Held PROVE h = g
    <3>1. call[c].pc = "mint" /\ call'[c].pc = "wait" /\ \A d \in Calls : d # c => call'[d] = call[d]
      BY <1>0, <2>1 DEF MintAndSend, CallOK, CallRec
    <3>2. ~(\E d \in Calls : ProbeGrant(d) /\ call[d].pc = "grant" /\ call'[d].pc = "probe")
      BY <3>1
    <3>3. ~(\E d \in Calls : d # c /\ MintAndSend(d))
      BY <1>0, <3>1 DEF MintAndSend, CallOK, CallRec
    <3> QED BY <1>1, <2>4, <3>2, <3>3
  <2> HIDE DEF g
  <2> QED BY <2>2, <2>3, <2>4
<1>3. CASE ~(\E c \in Calls : MintAndSend(c)) /\ \E c \in Calls : ProbeGrant(c)
  <2>1. PICK c \in Calls : ProbeGrant(c)
    BY <1>3
  <2> DEFINE g == Minted(c, "probe", Probing)
  <2>2. g \in Grants /\ g.nonce = <<c, "probe">> /\ g.iat = HubNow
    BY GrantMinted
  <2>3. \A d \in Calls : d # c => call'[d] = call[d]
    BY <1>0, <2>1, Begun DEF TypeOK
  <2>4. ASSUME NEW h \in Held', h \notin Held
        PROVE  h = g /\ call[c].pc = "grant" /\ call'[c].pc = "probe"
    BY <1>1, <1>3, <2>3, <2>4
  <2>5. ASSUME NEW h \in Held', h \notin Held PROVE Fresh(c, "probe", g)
    BY <2>1, <2>2, <2>4, <2>5 DEF Fresh, Minting, ProbeGrant
  <2> HIDE DEF g
  <2> QED BY <2>2, <2>4, <2>5
<1>4. CASE ~(\E c \in Calls : MintAndSend(c)) /\ ~(\E c \in Calls : ProbeGrant(c))
  BY <1>1, <1>4
<1> QED BY <1>2, <1>3, <1>4

SameTime == UNCHANGED <<now, drift>>

LEMMA TimePasses ==
    ASSUME Next
    PROVE  SameTime \/ Tick
  BY DEF Next, CallStep, UseRoute, DirectInfo, ProbeGrant, ProbeSend, ProbeYes, ProbeNo,
         MintAndSend, MintNothing, MintRefused, DirectAnswer, DirectRefused, DirectFails,
         SendRelay, RelayAnswer, Hold, RelayFails, Settle, WaitEnds,
         RouteAges, TurnAway, Serve, RelayServe, Decide, Replay, Moves,
         PolicyChanges, Reenrolled, Restarts, SameTime

LEMMA ClockStep ==
    ASSUME TypeOK, ClockInv, Next
    PROVE  ClockInv'
<1>0. now \in Nat /\ drift \in Int
  BY DEF TypeOK
<1>1. drift' = drift /\ now' \in Nat /\ now' >= now
  <2>1. SameTime \/ Tick
    BY TimePasses
  <2> QED BY <1>0, <2>1 DEF SameTime, Tick
<1>2. \A g \in Grants : g.iat \in Int
  BY DEF Grants
<1>3. ASSUME NEW g \in Held' PROVE g \in Grants /\ g.iat <= HubNow'
  <2>1. g \in Grants /\ g.iat <= HubNow
    BY <1>0, <1>1, <1>3, HeldStep DEF ClockInv, Fresh, HubNow
  <2> QED BY <1>0, <1>1, <1>2, <2>1 DEF HubNow
<1> QED BY <1>1, <1>3 DEF ClockInv

(* The caches and what was spent change where a request is served and where *)
(* an agent restarts.                                                       *)
LEMMA CachesChange ==
    ASSUME Next
    PROVE  \/ agent' = agent /\ spent' = spent
           \/ Restarts
           \/ \E m \in air : Serve(m)
  BY DEF Next, CallStep, UseRoute, DirectInfo, ProbeGrant, ProbeSend, ProbeYes, ProbeNo,
         MintAndSend, MintNothing, MintRefused, DirectAnswer, DirectRefused, DirectFails,
         SendRelay, RelayAnswer, Hold, RelayFails, Settle, WaitEnds,
         RouteAges, TurnAway, RelayServe, Decide, Replay, Moves,
         PolicyChanges, Reenrolled, Tick

LEMMA ServeCache ==
    ASSUME TypeOK, NEW m \in air, Serve(m)
    PROVE  /\ m \in Messages /\ m.dev \in Devices /\ m.cap \in Held /\ m.cap \in Grants
           /\ agent'[m.dev].seen = Claimed(agent[m.dev].seen, m.cap, now)
           /\ \A d \in Devices : d # m.dev => agent'[d] = agent[d]
           /\ \/ spent' = spent
              \/ /\ spent' = spent \cup {<<m.dev, m.cap.nonce>>}
                 /\ Claimable(agent[m.dev].seen, m.cap, now)
<1>1. m \in Messages /\ m.dev \in Devices /\ m.cap \in Held /\ m.cap \in Grants
  BY DEF TypeOK, Messages, Held
<1>2. agent' = [agent EXCEPT ![m.dev].seen = Claimed(@, m.cap, now)]
  BY DEF Serve
<1>3. agent \in [Devices -> [tok : Nat, key : BOOLEAN,
                   seen : SUBSET [nonce : Calls \X {"probe", "op"}, exp : Int]]]
  BY DEF TypeOK
<1>4. /\ agent'[m.dev].seen = Claimed(agent[m.dev].seen, m.cap, now)
      /\ \A d \in Devices : d # m.dev => agent'[d] = agent[d]
  BY <1>1, <1>2, <1>3
<1>5. \/ spent' = spent
      \/ /\ spent' = spent \cup {<<m.dev, m.cap.nonce>>}
         /\ Claimable(agent[m.dev].seen, m.cap, now)
  BY DEF Serve, Accept
<1> QED BY <1>1, <1>4, <1>5

LEMMA CacheEntries ==
    ASSUME NEW seen, NEW g, NEW t, NEW s \in Claimed(seen, g, t)
    PROVE  s \in seen \/ (s.nonce = g.nonce /\ s.exp = g.exp)
  BY DEF Claimed, Swept

(* An entry of a cache, before or after a step, or a spent nonce, is about   *)
(* a call that has its grant.                                               *)
LEMMA SeenStep ==
    ASSUME TypeOK, NonceInv, Next, NEW d \in Devices, NEW s \in agent'[d].seen
    PROVE  \/ s \in agent[d].seen
           \/ \E g \in Held : s.nonce = g.nonce /\ s.exp = g.exp
<1>1. CASE agent' = agent
  BY <1>1
<1>2. CASE Restarts
  <2>1. agent'[d] = agent[d] \/ agent'[d].seen = {}
    BY <1>2 DEF Restarts, TypeOK
  <2> QED BY <2>1
<1>3. ASSUME NEW m \in air, Serve(m)
      PROVE  s \in agent[d].seen \/ \E g \in Held : s.nonce = g.nonce /\ s.exp = g.exp
  <2>1. CASE d = m.dev
    BY <1>3, <2>1, ServeCache, CacheEntries
  <2>2. CASE d # m.dev
    BY <1>3, <2>2, ServeCache
  <2> QED BY <2>1, <2>2
<1> QED BY <1>1, <1>2, <1>3, CachesChange

LEMMA SpentStepped ==
    ASSUME TypeOK, Next, NEW p \in spent'
    PROVE  \/ p \in spent
           \/ \E m \in air : /\ Serve(m) /\ p = <<m.dev, m.cap.nonce>>
                             /\ Claimable(agent[m.dev].seen, m.cap, now)
<1>1. CASE Restarts
  BY <1>1 DEF Restarts
<1>2. ASSUME NEW m \in air, Serve(m)
      PROVE  p \in spent \/ (p = <<m.dev, m.cap.nonce>> /\ Claimable(agent[m.dev].seen, m.cap, now))
  BY <1>2, ServeCache
<1> QED BY <1>1, <1>2, CachesChange

LEMMA NonceTypes ==
    ASSUME TypeOK
    PROVE  /\ \A g \in Grants : g.nonce[1] \in Calls /\ g.nonce[2] \in {"probe", "op"}
           /\ \A d \in Devices : \A s \in agent[d].seen :
                 s.nonce[1] \in Calls /\ s.nonce[2] \in {"probe", "op"}
           /\ \A p \in spent : p[2][1] \in Calls /\ p[2][2] \in {"probe", "op"}
<1>1. \A g \in Grants : g.nonce[1] \in Calls /\ g.nonce[2] \in {"probe", "op"}
  BY DEF Grants
<1>2. ASSUME NEW d \in Devices, NEW s \in agent[d].seen
      PROVE  s.nonce[1] \in Calls /\ s.nonce[2] \in {"probe", "op"}
  <2>1. s \in [nonce : Calls \X {"probe", "op"}, exp : Int]
    BY <1>2 DEF TypeOK
  <2> QED BY <2>1
<1>3. \A p \in spent : p[2][1] \in Calls /\ p[2][2] \in {"probe", "op"}
  BY DEF TypeOK
<1> QED BY <1>1, <1>2, <1>3

LEMMA NonceStep ==
    ASSUME TypeOK, ClockInv, NonceInv, Next
    PROVE  NonceInv'
<1> DEFINE Done(n) == call[n[1]].pc \notin Minting(n[2])
<1> DEFINE DoneNow(n) == call'[n[1]].pc \notin Minting(n[2])
<1>0. ASSUME NEW n, n[1] \in Calls, n[2] \in {"probe", "op"}, Done(n) PROVE DoneNow(n)
  BY <1>0, NeverBack
<1>1. /\ \A g \in Held : g \in Grants /\ Done(g.nonce)
      /\ \A d \in Devices : \A s \in agent[d].seen :
            Done(s.nonce) /\ \A g \in Held : g.nonce = s.nonce => g.exp = s.exp
      /\ \A p \in spent : Done(p[2])
      /\ \A g, h \in Held : g.nonce = h.nonce => g = h
  BY DEF NonceInv, ClockInv
<1>2. \A g \in Held : DoneNow(g.nonce)
  BY <1>0, <1>1, NonceTypes
<1>3. \A d \in Devices : \A s \in agent'[d].seen : DoneNow(s.nonce)
  <2> SUFFICES ASSUME NEW d \in Devices, NEW s \in agent'[d].seen PROVE DoneNow(s.nonce)
    OBVIOUS
  <2>1. CASE s \in agent[d].seen
    <3>1. Done(s.nonce) /\ s.nonce[1] \in Calls /\ s.nonce[2] \in {"probe", "op"}
      BY <1>1, <2>1, NonceTypes
    <3> QED BY <1>0, <3>1
  <2>2. CASE \E g \in Held : s.nonce = g.nonce /\ s.exp = g.exp
    BY <1>2, <2>2
  <2> QED BY <2>1, <2>2, SeenStep
<1>4. \A p \in spent' : DoneNow(p[2])
  <2> SUFFICES ASSUME NEW p \in spent' PROVE DoneNow(p[2])
    OBVIOUS
  <2>1. CASE p \in spent
    <3>1. Done(p[2]) /\ p[2][1] \in Calls /\ p[2][2] \in {"probe", "op"}
      BY <1>1, <2>1, NonceTypes
    <3> QED BY <1>0, <3>1
  <2>2. ASSUME NEW m \in air, Serve(m), p = <<m.dev, m.cap.nonce>> PROVE DoneNow(p[2])
    BY <1>2, <2>2, ServeCache
  <2> QED BY <2>1, <2>2, SpentStepped
<1>5. ASSUME NEW d \in Devices, NEW s \in agent'[d].seen, NEW g \in Held, g.nonce = s.nonce
      PROVE  g.exp = s.exp
  BY <1>1, <1>5, SeenStep
<1>6. CASE Held' \subseteq Held
  <2> HIDE DEF Done
  <2>1. \A g, h \in Held' : g.nonce = h.nonce => g = h
    BY <1>1, <1>6
  <2> QED BY <1>2, <1>3, <1>4, <1>5, <1>6, <2>1 DEF NonceInv
<1>7. ASSUME NEW c \in Calls, NEW kind \in {"probe", "op"}, NEW f \in Grants,
             Fresh(c, kind, f), Held' \subseteq Held \cup {f}
      PROVE  NonceInv'
  <2>1. f.nonce = <<c, kind>> /\ ~Done(f.nonce) /\ DoneNow(f.nonce) /\ agent' = agent
    BY <1>7 DEF Fresh
  <2> HIDE DEF Done, DoneNow
  <2>2. \A g \in Held : g.nonce # f.nonce
    BY <1>1, <2>1
  <2>3. \A d \in Devices : \A s \in agent'[d].seen : s.nonce # f.nonce
    BY <1>1, <2>1
  <2>4. \A g, h \in Held' : g.nonce = h.nonce => g = h
    BY <1>1, <1>7, <2>2
  <2>5. \A g \in Held' : DoneNow(g.nonce)
    BY <1>2, <1>7, <2>1
  <2>6. \A d \in Devices : \A s \in agent'[d].seen :
           DoneNow(s.nonce) /\ \A g \in Held' : g.nonce = s.nonce => g.exp = s.exp
    BY <1>3, <1>5, <1>7, <2>3
  <2> QED BY <1>4, <2>4, <2>5, <2>6 DEF NonceInv, DoneNow
<1> QED BY <1>6, <1>7, HeldStep

(* The sweep keeps what may still be asked about.                           *)
LEMMA SweepKeeps ==
    ASSUME NEW seen, NEW g, NEW t, NEW s \in seen, s.exp + SKEW_SECS > t
    PROVE  s \in Claimed(seen, g, t)
  BY DEF Claimed, Swept

LEMMA SpentStep ==
    ASSUME TypeOK, ClockInv, NonceInv, SpentInv, Next
    PROVE  SpentInv'
<1>0. /\ now \in Nat /\ now' \in Nat /\ now' >= now
      /\ \A g \in Grants : g.exp \in Int
  <2>1. now \in Nat
    BY DEF TypeOK
  <2>2. now' \in Nat /\ now' >= now
    BY <2>1, TimePasses DEF SameTime, Tick
  <2> QED BY <2>1, <2>2 DEF Grants
<1> DEFINE Safe(p, g) ==
        \/ g.exp + SKEW_SECS <= now'
        \/ \E s \in agent'[p[1]].seen : s.nonce = p[2]
<1>1. ASSUME NEW p \in spent', NEW g \in Held, g.nonce = p[2]
      PROVE  Safe(p, g)
  <2>0. g \in Grants /\ g.exp \in Int
    BY <1>0 DEF ClockInv
  <2>1. CASE p \in spent
    <3>1. CASE g.exp + SKEW_SECS <= now
      BY <1>0, <2>0, <3>1
    <3>2. CASE ~(g.exp + SKEW_SECS <= now)
      <4>0. p[1] \in Devices
        BY <2>1 DEF TypeOK
      <4>1. PICK s \in agent[p[1]].seen : s.nonce = p[2]
        BY <1>1, <2>1, <3>2 DEF SpentInv
      <4>2. s.exp = g.exp
        BY <1>1, <4>0, <4>1 DEF NonceInv
      <4>3. CASE agent' = agent
        BY <4>1, <4>3
      <4>4. CASE Restarts
        <5>1. p[1] # "device"
          BY <4>4 DEF Restarts
        <5>2. agent'[p[1]] = agent[p[1]]
          BY <4>0, <4>4, <5>1 DEF Restarts, TypeOK
        <5> QED BY <4>1, <5>2
      <4>5. ASSUME NEW m \in air, Serve(m) PROVE s \in agent'[p[1]].seen
        <5>1. CASE p[1] = m.dev
          <6>1. s.exp + SKEW_SECS > now
            BY <1>0, <2>0, <3>2, <4>2
          <6> QED BY <4>1, <4>5, <5>1, <6>1, ServeCache, SweepKeeps
        <5>2. CASE p[1] # m.dev
          BY <4>0, <4>1, <4>5, <5>2, ServeCache
        <5> QED BY <5>1, <5>2
      <4> QED BY <4>1, <4>3, <4>4, <4>5, CachesChange
    <3> QED BY <3>1, <3>2
  <2>2. ASSUME NEW m \in air, Serve(m), p = <<m.dev, m.cap.nonce>>,
               Claimable(agent[m.dev].seen, m.cap, now)
        PROVE  \E s \in agent'[p[1]].seen : s.nonce = p[2]
    <3>1. [nonce |-> m.cap.nonce, exp |-> m.cap.exp] \in Claimed(agent[m.dev].seen, m.cap, now)
      BY <2>2 DEF Claimed
    <3>2. agent'[m.dev].seen = Claimed(agent[m.dev].seen, m.cap, now)
      BY <2>2, ServeCache
    <3> QED BY <2>2, <3>1, <3>2
  <2> QED BY <2>1, <2>2, SpentStepped
<1>2. CASE Held' \subseteq Held
  <2> HIDE DEF Safe
  <2>1. \A p \in spent' : \A g \in Held' : g.nonce = p[2] => Safe(p, g)
    BY <1>1, <1>2
  <2> QED BY <2>1 DEF SpentInv, Safe
<1>3. ASSUME NEW c \in Calls, NEW kind \in {"probe", "op"}, NEW f \in Grants,
             Fresh(c, kind, f), Held' \subseteq Held \cup {f}
      PROVE  SpentInv'
  <2>1. \A p \in spent' : p[2] # f.nonce
    BY <1>3 DEF Fresh, NonceInv
  <2> HIDE DEF Safe
  <2>2. \A p \in spent' : \A g \in Held' : g.nonce = p[2] => Safe(p, g)
    BY <1>1, <1>3, <2>1
  <2> QED BY <2>2 DEF SpentInv, Safe
<1> QED BY <1>2, <1>3, HeldStep

(* A grant is accepted a second time only in the last second of its window, *)
(* since the cache has its nonce until then.                                *)
LEMMA ReuseStep ==
    ASSUME TypeOK, ClockInv, NonceInv, SpentInv, GrantServesOnce, Next
    PROVE  GrantServesOnce'
<1>1. CASE repeats' = repeats
  BY <1>1 DEF GrantServesOnce
<1>2. ASSUME NEW m \in air, Serve(m), Claimable(agent[m.dev].seen, m.cap, now),
             <<m.dev, m.cap.nonce>> \in spent
      PROVE  now - m.cap.exp = SKEW_SECS
  <2>0. m.cap \in Held /\ m.cap \in Grants /\ m.dev \in Devices
    BY <1>2, ServeCache
  <2>1. now \in Nat /\ m.cap.exp \in Int
    BY <2>0 DEF TypeOK, Grants
  <2>2. now <= m.cap.exp + SKEW_SECS
    BY <1>2 DEF Serve, Gate, InWindow
  <2>3. ASSUME NEW s \in agent[m.dev].seen, s.nonce = m.cap.nonce
        PROVE  m.cap.exp + SKEW_SECS <= now
    <3>1. s.exp = m.cap.exp
      BY <2>0, <2>3 DEF NonceInv
    <3>2. s \notin Swept(agent[m.dev].seen, now)
      BY <1>2, <2>3 DEF Claimable, Replayed
    <3> QED BY <2>1, <3>1, <3>2 DEF Swept
  <2>4. m.cap.exp + SKEW_SECS <= now
    BY <1>2, <2>0, <2>3 DEF SpentInv
  <2> QED BY <2>1, <2>2, <2>4
<1>3. ASSUME NEW m \in air, Serve(m) PROVE GrantServesOnce'
  <2>1. \/ repeats' = repeats
        \/ /\ Claimable(agent[m.dev].seen, m.cap, now)
           /\ <<m.dev, m.cap.nonce>> \in spent
           /\ repeats' = repeats \cup {now - m.cap.exp}
    BY <1>3 DEF Serve, Accept
  <2> QED BY <1>1, <1>2, <1>3, <2>1 DEF GrantServesOnce
<1>4. ASSUME ~(\E m \in air : Serve(m)) PROVE repeats' = repeats
  BY <1>4 DEF Next, CallStep, UseRoute, DirectInfo, ProbeGrant, ProbeSend, ProbeYes, ProbeNo,
         MintAndSend, MintNothing, MintRefused, DirectAnswer, DirectRefused, DirectFails,
         SendRelay, RelayAnswer, Hold, RelayFails, Settle, WaitEnds,
         RouteAges, TurnAway, RelayServe, Decide, Replay, Moves,
         PolicyChanges, Reenrolled, Restarts, Tick
<1> QED BY <1>1, <1>3, <1>4

(* What the window allows for covers what the clocks differ by.             *)
LEMMA InTime ==
    ASSUME TypeOK, ClockInv
    PROVE  SkewTolerated
<1> SUFFICES ASSUME NEW m \in air, HubNow <= m.cap.exp PROVE Gate(m) # "out of window"
  BY DEF SkewTolerated
<1>1. /\ m.cap.iat \in Int /\ m.cap.exp \in Int /\ now \in Nat /\ drift \in Int
  BY DEF TypeOK, Messages, Grants
<1>2. m.cap.iat <= HubNow /\ drift <= SKEW_SECS /\ -drift <= SKEW_SECS
  BY DEF ClockInv, Held
<1>3. InWindow(m.cap, now)
  BY <1>1, <1>2 DEF InWindow, HubNow
<1> QED BY <1>3 DEF Gate
-----------------------------------------------------------------------------
(* The way of a call                                                        *)

(* Nothing of another call changes.                                         *)
Untouched(c) ==
    /\ call'[c] = call[c] /\ rel'[c] = rel[c] /\ told'[c] = told[c] /\ runs'[c] = runs[c]
    /\ (c \in gaveUp') = (c \in gaveUp)
    /\ (c \in denied') = (c \in denied)

LEMMA UntouchedFlow ==
    ASSUME NEW c \in Calls, FlowOK(c), Untouched(c)
    PROVE  FlowOK(c)'
  BY DEF FlowOK, Untouched

(* The parts of a call step that tell one kind from another.                *)
LEMMA CallStepFrame ==
    ASSUME TypeOK, NEW c \in Calls, CallStep(c)
    PROVE  /\ \A d \in Calls : d # c => Untouched(d)
           /\ runs' = runs /\ now' = now
           /\ gaveUp \subseteq gaveUp'
<1>0. CallOK /\ route \in Routes /\ hubTok \in Nat /\ now \in Nat /\ drift \in Int
  BY TypeCall DEF TypeOK
<1>1. \A d \in Calls : d # c => call'[d] = call[d]
  BY <1>0, Begun, Carried DEF CallStep, Later
<1>2. runs' = runs /\ gaveUp' \in {gaveUp, gaveUp \cup {c}} /\ denied' \in {denied, denied \cup {c}} /\ now' = now
  BY DEF CallStep, UseRoute, DirectInfo, ProbeGrant, ProbeSend, ProbeYes, ProbeNo,
         MintAndSend, MintNothing, MintRefused, DirectAnswer, DirectRefused, DirectFails,
         SendRelay, RelayAnswer, Hold, RelayFails, Settle, WaitEnds
<1>3. told' = told \/ \E x \in Told : told' = [told EXCEPT ![c] = x]
  BY DEF CallStep, UseRoute, DirectInfo, ProbeGrant, ProbeSend, ProbeYes, ProbeNo,
         MintAndSend, MintNothing, MintRefused, DirectAnswer, DirectRefused, DirectFails,
         SendRelay, RelayAnswer, Hold, RelayFails, Settle, WaitEnds, Tell, Told
<1>4. rel' = rel \/ \E x : rel' = [rel EXCEPT ![c] = x]
  BY DEF CallStep, UseRoute, DirectInfo, ProbeGrant, ProbeSend, ProbeYes, ProbeNo,
         MintAndSend, MintNothing, MintRefused, DirectAnswer, DirectRefused, DirectFails,
         SendRelay, RelayAnswer, Hold, RelayFails, Settle, WaitEnds
<1>5. \A d \in Calls : d # c => told'[d] = told[d] /\ rel'[d] = rel[d]
  BY <1>3, <1>4 DEF TypeOK
<1> QED BY <1>1, <1>2, <1>5 DEF Untouched

(* What the hub and the surroundings do to a call.                          *)
LEMMA OtherFrame ==
    ASSUME TypeOK, Next, ~(\E c \in Calls : CallStep(c)), NEW d \in Calls,
           ~(RelayServe(d) \/ Decide(d) \/ Replay(d)),
           \A m \in air : Serve(m) => m.call # d \/ m.kind # "op"
    PROVE  Untouched(d)
<1>1. CASE RouteAges \/ Moves \/ PolicyChanges \/ Reenrolled \/ Restarts \/ Tick
  BY <1>1 DEF RouteAges, Moves, PolicyChanges, Reenrolled, Restarts, Tick, Untouched
<1>2. ASSUME NEW m \in air, TurnAway(m) PROVE Untouched(d)
  BY <1>2 DEF TurnAway, Untouched
<1>3. ASSUME NEW m \in air, Serve(m) PROVE Untouched(d)
  <2>1. runs' = runs \/ (m.kind = "op" /\ \E leg \in {"lan", "stray"} : runs' = [runs EXCEPT ![m.call] = @ \cup {leg}])
    BY <1>3 DEF Serve, Ran
  <2>2. runs'[d] = runs[d]
    BY <1>3, <2>1 DEF TypeOK
  <2> QED BY <1>3, <2>2 DEF Serve, Untouched
<1>4. ASSUME NEW c \in Calls, RelayServe(c) \/ Decide(c) \/ Replay(c), c # d PROVE Untouched(d)
  <2>1. \E x : rel' = [rel EXCEPT ![c] = x]
    BY <1>4 DEF RelayServe, Decide, Replay
  <2>2. runs' = runs \/ \E x : runs' = [runs EXCEPT ![c] = x]
    BY <1>4 DEF RelayServe, Decide, Replay, Ran
  <2>3. denied' \in {denied, denied \cup {c}} /\ call' = call /\ told' = told /\ gaveUp' = gaveUp
    BY <1>4 DEF RelayServe, Decide, Replay
  <2>4. rel'[d] = rel[d] /\ runs'[d] = runs[d]
    BY <1>4, <2>1, <2>2 DEF TypeOK
  <2> QED BY <1>4, <2>3, <2>4 DEF Untouched
<1> QED BY <1>1, <1>2, <1>3, <1>4 DEF Next

LEMMA SameOperation ==
    ASSUME NEW r, OpFor(r) # NoCapability
    PROVE  OpFor(r) = Operation(r)
<1>0. r.path \in {"exec", "input"} => ClassOf(r.path) = "undefined"
  BY DEF ClassOf
<1>1. CASE r.path = "exec"
  <2>1. OpFor(r) = <<IF r.detach THEN "launch" ELSE "exec", r.arg>>
    BY <1>0, <1>1 DEF OpFor
  <2>2. CASE r.detach
    BY <1>1, <2>1, <2>2 DEF Operation
  <2>3. CASE ~r.detach
    BY <1>1, <2>1, <2>3 DEF Operation
  <2> QED BY <2>2, <2>3
<1>2. CASE r.path = "input"
  BY <1>0, <1>2 DEF OpFor, Operation
<1>3. CASE r.path \notin {"exec", "input"}
  <2>1. ClassOf(r.path) # "undefined"
    BY <1>3 DEF OpFor
  <2>2. OpFor(r) = <<ClassOf(r.path), NoArg>>
    BY <1>3, <2>1 DEF OpFor
  <2> QED BY <1>3, <2>2 DEF Operation
<1> QED BY <1>1, <1>2, <1>3

(* Behind the gates of an agent an operation is the one that was granted,   *)
(* on the device it was granted for.                                        *)
LEMMA GateMeansPermitted ==
    ASSUME TypeOK, OpInv, NEW m \in air, m.kind = "op", Gate(m) = "ok"
    PROVE  Permitted(m)
<1>1. Binds(m.cap, m.dev, OpFor(Req[m.call]))
  BY DEF Gate, OpOf
<1>2. m.cap.dev = "device"
  BY DEF TypeOK, Messages, Grants
<1>3. OpFor(Req[m.call]) # NoCapability
  BY DEF OpInv, OpOK
<1> QED BY <1>1, <1>2, <1>3, SameOperation DEF Binds, Permitted

(* A served request for an operation ran it over the LAN, or was refused.   *)
LEMMA ServeRuns ==
    ASSUME TypeOK, OpInv, NEW m \in air, Serve(m), m.kind = "op"
    PROVE  \/ /\ runs' = runs /\ Respond(m, "refused")
           \/ /\ runs' = [runs EXCEPT ![m.call] = @ \cup {"lan"}]
              /\ \E st \in {"ok", "failed"} : Respond(m, st)
<1>1. Permitted(m)
  BY GateMeansPermitted DEF Serve
<1> QED BY <1>1 DEF Serve, Ran

LEMMA FlowCallStep ==
    ASSUME TypeOK, OpInv, FlowInv, NEW c \in Calls, CallStep(c)
    PROVE  FlowOK(c)'
<1>0. /\ CallOK /\ route \in Routes /\ hubTok \in Nat /\ now \in Nat /\ drift \in Int
      /\ FlowOK(c) /\ runs' = runs
      /\ rel \in [Calls -> {"none", "queued", "answered"} \cup Approvals] /\ told \in [Calls -> Told]
  BY TypeCall, CallStepFrame DEF TypeOK, FlowInv
<1>1. CASE ~Later(c)
  <2>1. UseRoute(c) \/ DirectInfo(c) \/ ProbeGrant(c) \/ ProbeSend(c) \/ ProbeYes(c) \/ ProbeNo(c)
    BY <1>1 DEF CallStep, Later
  <2>2. call[c].pc \in Early
    BY <2>1, <1>0, Begun DEF Early
  <2>3. UNCHANGED <<rel, told, gaveUp, denied>>
    BY <2>1 DEF UseRoute, DirectInfo, ProbeGrant, ProbeSend, ProbeYes, ProbeNo
  <2>4. \/ call'[c].pc \in Early \ {"mint"}
        \/ call'[c].pc = "mint" /\ OpFor(Req[c]) # NoCapability
        \/ call'[c].pc = "relay"
    BY <2>1, <1>0, Begun DEF Early
  <2> QED BY <1>0, <2>2, <2>3, <2>4 DEF FlowOK, Early, Past
<1>2. CASE MintAndSend(c)
  <2>1. call'[c].pc = "wait" /\ call[c].pc = "mint"
    BY <1>0, <1>2 DEF MintAndSend, CallOK, CallRec
  <2>2. UNCHANGED <<rel, told, gaveUp, denied>>
    BY <1>2 DEF MintAndSend
  <2> QED BY <1>0, <2>1, <2>2 DEF FlowOK, Early, Past
<1>3. CASE MintNothing(c)
  <2>1. call'[c].pc = "relay" /\ call[c].pc = "mint"
    BY <1>0, <1>3, GotoLands DEF MintNothing
  <2>2. UNCHANGED <<rel, told, gaveUp, denied>>
    BY <1>3 DEF MintNothing
  <2> QED BY <1>0, <2>1, <2>2 DEF FlowOK, Early, Past
<1>4. CASE MintRefused(c)
  <2>1. call'[c].pc = "done" /\ call[c].pc = "mint"
    BY <1>0, <1>4, GotoLands DEF MintRefused, Tell, Past
  <2>2. UNCHANGED <<rel, gaveUp>>
    BY <1>4 DEF MintRefused
  <2> QED BY <1>0, <2>1, <2>2 DEF FlowOK, Early, Past
<1>5. CASE DirectAnswer(c)
  <2>1. call'[c].pc = "done" /\ call[c].pc = "wait"
    BY <1>0, <1>5, GotoLands DEF DirectAnswer, Tell, Past
  <2>2. UNCHANGED <<rel, gaveUp, denied>>
    BY <1>5 DEF DirectAnswer
  <2> QED BY <1>0, <2>1, <2>2 DEF FlowOK, Early, Past
<1>6. CASE DirectRefused(c)
  <2>1. call'[c].pc = "relay" /\ call[c].pc = "wait"
    BY <1>0, <1>6, GotoLands DEF DirectRefused
  <2>2. UNCHANGED <<rel, told, gaveUp, denied>>
    BY <1>6 DEF DirectRefused
  <2>3. PICK m \in Answered(c, "op") : ~PassedOn(m.st)
    BY <1>6 DEF DirectRefused
  <2>4. m \in air /\ m.kind = "op" /\ m.call = c /\ m.st = "refused"
    BY <2>3 DEF Answered, Mine, PassedOn, Answers
  <2>5. c \notin gaveUp
    BY <1>0, <2>1 DEF FlowOK
  <2>6. runs[c] = {}
    BY <2>4, <2>5 DEF OpInv, OpOK
  <2> QED BY <1>0, <2>1, <2>2, <2>6 DEF FlowOK, Early, Past
<1>7. CASE DirectFails(c)
  <2>1. call'[c].pc = "relay" /\ call[c].pc = "wait"
    BY <1>0, <1>7, GotoLands DEF DirectFails
  <2>2. UNCHANGED <<rel, told, denied>> /\ c \in gaveUp'
    BY <1>7 DEF DirectFails
  <2> QED BY <1>0, <2>1, <2>2 DEF FlowOK, Early, Past
<1>8. CASE SendRelay(c)
  <2>1. call'[c].pc = "relaying" /\ call[c].pc = "relay"
    BY <1>0, <1>8, GotoLands DEF SendRelay, Past
  <2>2. UNCHANGED <<told, gaveUp>>
    BY <1>8 DEF SendRelay
  <2>3. \/ rel' = rel /\ denied' = denied
        \/ rel' = [rel EXCEPT ![c] = "queued"] /\ denied' = denied
        \/ rel' = [rel EXCEPT ![c] = "answered"] /\ denied' = denied \cup {c}
        \/ rel' = [rel EXCEPT ![c] = "pending"] /\ denied' = denied
    <3>1. tier[Operation(Req[c])] \in {"run", "privileged", "blocked"}
      BY DEF TypeOK, Operations
    <3> QED BY <1>8, <3>1 DEF SendRelay
  <2>4. \/ rel'[c] = rel[c] /\ denied' = denied
        \/ rel'[c] \in {"queued", "pending"} /\ denied' = denied
        \/ rel'[c] = "answered" /\ denied' = denied \cup {c}
    BY <1>0, <2>3
  <2> QED BY <1>0, <2>1, <2>2, <2>4 DEF FlowOK, Early, Past
<1>9. CASE RelayAnswer(c)
  <2>1. call'[c].pc = "done" /\ call[c].pc = "relaying" /\ rel[c] = "answered"
    BY <1>0, <1>9, GotoLands DEF RelayAnswer, Tell, Past
  <2>2. UNCHANGED <<rel, gaveUp, denied>>
    BY <1>9 DEF RelayAnswer
  <2> QED BY <1>0, <2>1, <2>2 DEF FlowOK, Early, Past
<1>10. CASE Hold(c)
  <2>1. call'[c].pc = "hold" /\ call[c].pc = "relaying"
    BY <1>0, <1>10, GotoLands DEF Hold, Past
  <2>2. UNCHANGED <<rel, told, gaveUp, denied>>
    BY <1>10 DEF Hold
  <2> QED BY <1>0, <2>1, <2>2 DEF FlowOK, Early, Past
<1>11. CASE RelayFails(c) \/ WaitEnds(c)
  <2>1. call'[c].pc = "done" /\ call[c].pc \in {"relaying", "hold"}
    BY <1>0, <1>11, GotoLands DEF RelayFails, WaitEnds, Tell, Past
  <2>2. UNCHANGED <<rel, gaveUp, denied>> /\ told'[c] # "result"
    BY <1>0, <1>11 DEF RelayFails, WaitEnds, Tell
  <2> QED BY <1>0, <2>1, <2>2 DEF FlowOK, Early, Past
<1>12. CASE Settle(c)
  <2>1. call'[c].pc = "done" /\ call[c].pc = "hold" /\ rel[c] \in {"executed", "denied"}
    BY <1>0, <1>12, GotoLands DEF Settle, Tell, Past, Decided
  <2>2. UNCHANGED <<rel, gaveUp, denied>>
    BY <1>12 DEF Settle
  <2> QED BY <1>0, <2>1, <2>2 DEF FlowOK, Early, Past
<1> QED BY <1>1, <1>2, <1>3, <1>4, <1>5, <1>6, <1>7, <1>8, <1>9, <1>10, <1>11, <1>12 DEF Later

LEMMA FlowStep ==
    ASSUME TypeOK, OpInv, FlowInv, Next
    PROVE  FlowInv'
<1> SUFFICES ASSUME NEW c \in Calls PROVE FlowOK(c)'
  BY DEF FlowInv
<1>0. /\ FlowOK(c) /\ runs \in [Calls -> SUBSET {"lan", "stray", "relay", "approval"}]
      /\ rel \in [Calls -> {"none", "queued", "answered"} \cup Approvals]
  BY DEF TypeOK, FlowInv
<1>1. ASSUME NEW d \in Calls, CallStep(d) PROVE FlowOK(c)'
  BY <1>0, <1>1, CallStepFrame, FlowCallStep, UntouchedFlow
<1>2. CASE RelayServe(c)
  <2>1. UNCHANGED <<call, told, gaveUp, denied>> /\ rel[c] = "queued" /\ rel'[c] \in {"answered", "none"}
    BY <1>0, <1>2 DEF RelayServe
  <2>2. runs'[c] = runs[c] \/ runs'[c] = runs[c] \cup {"relay"}
    BY <1>0, <1>2 DEF RelayServe, Ran
  <2>3. call[c].pc \in Past /\ runs[c] \subseteq {"lan"}
    BY <1>0, <2>1 DEF FlowOK
  <2> QED BY <1>0, <2>1, <2>2, <2>3 DEF FlowOK, Early, Past
<1>3. CASE Decide(c)
  <2>1. UNCHANGED <<call, told, gaveUp, runs>> /\ rel[c] = "pending"
        /\ \/ rel'[c] = "running" /\ denied' = denied
           \/ rel'[c] = "denied"
    BY <1>0, <1>3 DEF Decide
  <2> QED BY <1>0, <2>1 DEF FlowOK
<1>4. CASE Replay(c)
  <2>1. UNCHANGED <<call, told, gaveUp, denied>> /\ rel[c] = "running" /\ rel'[c] = "executed"
    BY <1>0, <1>4 DEF Replay
  <2>2. runs'[c] = runs[c] \/ runs'[c] = runs[c] \cup {"approval"}
    BY <1>0, <1>4 DEF Replay, Ran
  <2>3. call[c].pc \in Past /\ runs[c] \subseteq {"lan"}
    BY <1>0, <2>1 DEF FlowOK
  <2> QED BY <1>0, <2>1, <2>2, <2>3 DEF FlowOK, Early, Past
<1>5. ASSUME NEW m \in air, Serve(m), m.call = c, m.kind = "op" PROVE FlowOK(c)'
  <2>1. UNCHANGED <<call, rel, told, gaveUp, denied>>
    BY <1>5 DEF Serve
  <2>2. runs'[c] = runs[c] \/ runs'[c] = runs[c] \cup {"lan"}
    BY <1>0, <1>5, ServeRuns
  <2>3. OpOK(m) /\ m.st = "sent"
    BY <1>5 DEF OpInv, Serve
  <2> QED BY <1>0, <1>5, <2>1, <2>2, <2>3 DEF FlowOK, OpOK, Early, Past
<1>6. CASE /\ ~(\E d \in Calls : CallStep(d))
           /\ ~(RelayServe(c) \/ Decide(c) \/ Replay(c))
           /\ \A m \in air : Serve(m) => m.call # c \/ m.kind # "op"
  BY <1>0, <1>6, OtherFrame, UntouchedFlow
<1> QED BY <1>1, <1>2, <1>3, <1>4, <1>5, <1>6

LEMMA OpStep ==
    ASSUME TypeOK, OpInv, FlowInv, Next
    PROVE  OpInv'
<1>0. /\ CallOK /\ route \in Routes /\ air \subseteq Messages
      /\ runs \in [Calls -> SUBSET {"lan", "stray", "relay", "approval"}]
  BY TypeCall DEF TypeOK
(* A request that stays on its way, of a call that does not lose it. *)
<1>1. ASSUME NEW n \in air, n.kind = "op", n \in air' PROVE OpOK(n)'
  <2>0. n.call \in Calls /\ OpOK(n)
    BY <1>0, <1>1 DEF OpInv, Messages
  <2>1. call'[n.call].pc \notin Early
    BY <2>0, NeverBack DEF OpOK, Minting
  <2>2. CASE CallStep(n.call)
    <3> DEFINE c == n.call
    <3>1. runs' = runs /\ gaveUp \subseteq gaveUp'
      BY <2>0, <2>2, CallStepFrame
    <3>2. CASE c \in gaveUp'
      BY <2>0, <2>1, <3>2 DEF OpOK
    <3>3. CASE c \notin gaveUp'
      <4>1. c \notin gaveUp /\ call[c].pc = "wait"
        BY <2>0, <3>1, <3>3 DEF OpOK
      <4>2. DirectAnswer(c) \/ DirectRefused(c) \/ DirectFails(c)
        BY <2>2, <4>1 DEF CallStep, UseRoute, DirectInfo, Begins, ProbeGrant, ProbeSend, ProbeYes,
           ProbeNo, MintAndSend, MintNothing, MintRefused, SendRelay, RelayAnswer, Hold,
           RelayFails, Settle, WaitEnds
      <4>3. ~DirectFails(c)
        BY <3>3 DEF DirectFails
      <4>4. PICK m \in Answered(c, "op") : air' = air \ {m}
        BY <4>2, <4>3 DEF DirectAnswer, DirectRefused
      <4>5. m \in air /\ m.kind = "op" /\ m.call = c
        BY <4>4 DEF Answered, Mine
      <4>6. m = n
        BY <1>1, <4>5 DEF OpInv
      <4> QED BY <1>1, <4>4, <4>6
    <3> QED BY <3>2, <3>3
  <2>3. CASE Untouched(n.call)
    BY <2>0, <2>1, <2>3 DEF OpOK, Untouched
  <2>4. ASSUME NEW d \in Calls, CallStep(d), d # n.call PROVE Untouched(n.call)
    BY <2>0, <2>4, CallStepFrame
  <2>5. CASE RelayServe(n.call) \/ Decide(n.call) \/ Replay(n.call)
    <3>1. rel[n.call] # "none" /\ call' = call /\ gaveUp' = gaveUp
      BY <2>5 DEF RelayServe, Decide, Replay
    <3>2. call[n.call].pc \in Past
      BY <2>0, <3>1 DEF FlowInv, FlowOK
    <3>3. n.call \in gaveUp
      BY <2>0, <3>2 DEF OpOK, Past
    <3> QED BY <2>0, <2>1, <3>1, <3>3 DEF OpOK
  <2>6. ASSUME NEW m \in air, Serve(m), m.call = n.call, m.kind = "op" PROVE FALSE
    <3>1. m = n
      BY <1>1, <2>6 DEF OpInv
    <3>2. PICK st \in {"ok", "failed", "refused"} : Respond(m, st)
      BY <2>6, ServeRuns
    <3>3. n.st = "sent"
      BY <2>6, <3>1 DEF Serve
    <3> QED BY <1>0, <1>1, <3>1, <3>2, <3>3, RespondKeeps DEF Answers
  <2> QED BY <2>0, <2>2, <2>3, <2>4, <2>5, <2>6, OtherFrame
(* A request that is new, or has its answer now. *)
<1>2. ASSUME NEW n \in air', n.kind = "op", n \notin air
      PROVE  \/ /\ MintAndSend(n.call) /\ n.call \in Calls /\ n.st = "sent"
                /\ n \in Sent(n.call, "op", call[n.call].addr, call[n.call].tok,
                               Minted(n.call, "op", OpFor(Req[n.call])))
             \/ \E m \in air, st \in Answers :
                   /\ (TurnAway(m) /\ st = "refused") \/ Serve(m)
                   /\ Respond(m, st) /\ n = [m EXCEPT !.st = st]
  <2>1. ASSUME NEW c \in Calls, MintAndSend(c)
        PROVE  /\ n.call = c /\ n.st = "sent"
               /\ n \in Sent(c, "op", call[c].addr, call[c].tok, Minted(c, "op", OpFor(Req[c])))
    BY <1>2, <2>1 DEF MintAndSend, Sent
  <2>2. ASSUME NEW c \in Calls, ProbeSend(c) PROVE FALSE
    BY <1>2, <2>2 DEF ProbeSend, Sent
  <2>3. ASSUME NEW m \in air, TurnAway(m) \/ Serve(m)
        PROVE  \E st \in Answers :
                   /\ (TurnAway(m) /\ st = "refused") \/ Serve(m)
                   /\ Respond(m, st) /\ n = [m EXCEPT !.st = st]
    <3>1. \E st \in Answers : ((TurnAway(m) /\ st = "refused") \/ Serve(m)) /\ Respond(m, st)
      BY <2>3 DEF TurnAway, Serve, Answers
    <3> QED BY <1>0, <1>2, <3>1, RespondKeeps
  <2>4. ASSUME ~(\E c \in Calls : ProbeSend(c) \/ MintAndSend(c)),
               ~(\E m \in air : TurnAway(m) \/ Serve(m))
        PROVE  air' \subseteq air
    BY <2>4 DEF Next, CallStep, UseRoute, DirectInfo, ProbeGrant, ProbeYes, ProbeNo, Abandon,
         MintNothing, MintRefused, DirectAnswer, DirectRefused, DirectFails,
         SendRelay, RelayAnswer, Hold, RelayFails, Settle, WaitEnds,
         RouteAges, RelayServe, Decide, Replay, Moves, PolicyChanges, Reenrolled, Restarts, Tick
  <2> QED BY <1>2, <2>1, <2>2, <2>3, <2>4
<1>3. ASSUME NEW n \in air', n.kind = "op", n \notin air PROVE OpOK(n)'
  <2>1. CASE MintAndSend(n.call) /\ n.call \in Calls
    <3>1. call[n.call].pc = "mint" /\ call'[n.call].pc = "wait" /\ runs' = runs
      BY <1>0, <2>1 DEF MintAndSend, CallOK, CallRec
    <3>2. OpFor(Req[n.call]) # NoCapability /\ runs[n.call] = {}
      BY <2>1, <3>1 DEF FlowInv, FlowOK, Early
    <3> QED BY <3>1, <3>2 DEF OpOK, Early
  <2>2. ASSUME NEW m \in air, NEW st \in Answers,
               (TurnAway(m) /\ st = "refused") \/ Serve(m),
               Respond(m, st), n = [m EXCEPT !.st = st]
        PROVE  OpOK(n)'
    <3>1. m \in Messages /\ n.call = m.call /\ n.kind = m.kind /\ n.st = st /\ m.call \in Calls
      BY <1>0, <2>2 DEF Messages
    <3>2. OpOK(m) /\ m.st = "sent" /\ call' = call /\ gaveUp' = gaveUp
      BY <1>3, <2>2, <3>1 DEF OpInv, TurnAway, Serve
    <3>3. st \in {"sent", "refused"} => runs' = runs
      <4>1. CASE TurnAway(m)
        BY <4>1 DEF TurnAway
      <4>2. CASE Serve(m) /\ st = "refused"
        <5>1. CASE runs' = runs
          BY <5>1
        <5>2. ASSUME NEW x \in {"ok", "failed"}, Respond(m, x) PROVE FALSE
          <6>1. n \in air' /\ n.st = "refused" /\ n # m
            BY <1>3, <3>1, <4>2
          <6>2. n \notin air
            BY <1>3
          <6> QED BY <1>0, <5>2, <6>1, <6>2, RespondKeeps DEF Answers
        <5> QED BY <1>3, <2>2, <3>1, <4>2, <5>1, <5>2, ServeRuns
      <4> QED BY <2>2, <4>1, <4>2 DEF Answers
    <3> QED BY <3>1, <3>2, <3>3 DEF OpOK
  <2> QED BY <1>2, <1>3, <2>1, <2>2
<1>4. ASSUME NEW n \in air', NEW k \in air', n.kind = "op", k.kind = "op", n.call = k.call
      PROVE  n = k
  <2>1. CASE n \in air /\ k \in air
    BY <1>4, <2>1 DEF OpInv
  <2>2. ASSUME NEW x \in air', NEW y \in air', x.kind = "op", y.kind = "op", x.call = y.call,
               x \notin air
        PROVE  x = y
    <3>1. CASE /\ MintAndSend(x.call) /\ x.call \in Calls
               /\ x \in Sent(x.call, "op", call[x.call].addr, call[x.call].tok,
                              Minted(x.call, "op", OpFor(Req[x.call])))
      <4> DEFINE S == Sent(x.call, "op", call[x.call].addr, call[x.call].tok,
                           Minted(x.call, "op", OpFor(Req[x.call])))
      <4>1. air' = air \cup S
        BY <3>1 DEF MintAndSend
      <4>2. y \notin air
        <5>1. call[x.call].pc \in Early
          BY <3>1 DEF MintAndSend, Early
        <5> QED BY <2>2, <5>1 DEF OpInv, OpOK
      <4>3. y \in S /\ x \in S
        BY <2>2, <3>1, <4>1, <4>2
      <4> QED BY <4>3 DEF Sent
    <3>2. ASSUME NEW m \in air, NEW st \in Answers, Respond(m, st), x = [m EXCEPT !.st = st]
          PROVE  x = y
      <4>1. m \in Messages /\ x.call = m.call /\ x.kind = m.kind
        BY <1>0, <3>2 DEF Messages
      <4>2. y \notin air \/ y = m
        BY <2>2, <4>1 DEF OpInv
      <4>3. y = [m EXCEPT !.st = st]
        BY <1>0, <3>2, <4>2, RespondKeeps
      <4> QED BY <3>2, <4>3
    <3> QED BY <1>2, <2>2, <3>1, <3>2
  <2> QED BY <1>4, <2>1, <2>2
<1> QED
  <2>1. ASSUME NEW n \in air', n.kind = "op" PROVE OpOK(n)'
    BY <1>1, <1>3, <2>1
  <2> QED BY <1>4, <2>1 DEF OpInv
-----------------------------------------------------------------------------
(* The invariant, and what follows from it                                  *)

LEMMA InvInit == Init => Inv
<1> SUFFICES ASSUME Init PROVE Inv
  OBVIOUS
<1>1. PICK s \in Starts :
         /\ drift = s.drift /\ shared = s.shared /\ tier = s.tier /\ at = s.at
         /\ agent = [d \in Devices |-> [tok |-> IF d = "device" THEN 1 ELSE 0,
                                        key |-> d = "other" \/ s.key, seen |-> {}]]
  BY DEF Init
<1>2. s \in Settings
  OBVIOUS
<1>3. At("start", "none", 0) \in CallRec
  <2>1. <<>> \in Seq(Addrs)
    OBVIOUS
  <2> QED BY <2>1 DEF At, CallRec, PCs
<1>4. CallOK /\ \A c \in Calls : call[c].pc = "start"
  <2> DEFINE w == At("start", "none", 0)
  <2>1. w \in CallRec /\ w.pc = "start"
    BY <1>3 DEF At
  <2>2. call = [c \in Calls |-> w]
    BY DEF Init
  <2> HIDE DEF w
  <2> QED BY <2>1, <2>2 DEF CallOK, HasAddress
<1>5. TypeOK
  <2>1. AgentsOK
    <3>1. \A d \in Devices : [tok |-> IF d = "device" THEN 1 ELSE 0,
                              key |-> d = "other" \/ s.key, seen |-> {}]
             \in [tok : Nat, key : BOOLEAN, seen : SUBSET [nonce : Calls \X {"probe", "op"}, exp : Int]]
      OBVIOUS
    <3>2. shared \in BOOLEAN /\ at \in [Addrs -> Devices]
      BY <1>1, <1>2 DEF Settings
    <3> QED BY <1>1, <3>1, <3>2 DEF AgentsOK
  <2>2. HubOK
    BY <1>1, <1>2 DEF Init, HubOK, Settings, Operations
  <2>3. HistoryOK
    BY DEF Init, HistoryOK, Told
  <2>4. route \in Routes /\ air \subseteq Messages
    BY DEF Init, Routes
  <2> QED BY <1>4, <2>1, <2>2, <2>3, <2>4, TypeParts
<1>6. Held = {}
  BY <1>4 DEF Held, Init
<1>7. ClockInv
  BY <1>1, <1>2, <1>6 DEF ClockInv, Settings
<1>8. NonceInv /\ SpentInv /\ OpInv /\ GrantServesOnce
  <2>1. \A d \in Devices : agent[d].seen = {}
    BY <1>1
  <2> QED BY <1>6, <2>1 DEF Init, NonceInv, SpentInv, OpInv, GrantServesOnce
<1>9. FlowInv
  BY <1>4 DEF Init, FlowInv, FlowOK, Early, Past
<1> QED BY <1>5, <1>7, <1>8, <1>9 DEF Inv

LEMMA TypeStep ==
    ASSUME TypeOK, ClockInv, Next
    PROVE  TypeOK'
  BY TypeCallStep, TypeServe, TypeOther

LEMMA InvStep == Inv /\ [Next]_vars => Inv'
<1>1. ASSUME Inv, Next PROVE Inv'
  BY <1>1, TypeStep, ClockStep, NonceStep, SpentStep, OpStep, FlowStep, ReuseStep DEF Inv
<1>2. ASSUME Inv, UNCHANGED vars PROVE Inv'
  <2>1. TypeOK'
    BY <1>2 DEF Inv, TypeOK
  <2>2. Held' = Held /\ HubNow' = HubNow
    BY <1>2 DEF Held, HubNow
  <2>3. ClockInv' /\ NonceInv' /\ SpentInv'
    BY <1>2, <2>2 DEF Inv, ClockInv, NonceInv, SpentInv
  <2>4. OpInv' /\ FlowInv' /\ GrantServesOnce'
    BY <1>2 DEF Inv, OpInv, OpOK, FlowInv, FlowOK, GrantServesOnce
  <2> QED BY <2>1, <2>3, <2>4 DEF Inv
<1> QED BY <1>1, <1>2

LEMMA InvHolds == Spec => []Inv
  BY InvInit, InvStep, PTL DEF Spec

(* Where an operation may run next. *)
LEMMA RunStep ==
    ASSUME Inv, Next, NEW c \in Calls
    PROVE  \/ runs'[c] \subseteq runs[c] \cup Late(c)
           \/ rel[c] \in {"queued", "running"}
           \/ call[c].pc = "wait"
<1>0. TypeOK /\ OpInv /\ FlowInv
  BY DEF Inv
<1>1. ASSUME NEW d \in Calls, CallStep(d) PROVE runs' = runs
  BY <1>0, <1>1, CallStepFrame
<1>2. CASE RelayServe(c) \/ Decide(c) \/ Replay(c)
  BY <1>2 DEF RelayServe, Decide, Replay
<1>3. ASSUME NEW m \in air, Serve(m), m.call = c, m.kind = "op", call[c].pc # "wait"
      PROVE  runs'[c] \subseteq runs[c] \cup Late(c)
  <2>1. c \in gaveUp
    BY <1>0, <1>3 DEF OpInv, OpOK
  <2>2. runs'[c] = runs[c] \/ runs'[c] = runs[c] \cup {"lan"}
    BY <1>0, <1>3, ServeRuns DEF TypeOK
  <2> QED BY <2>1, <2>2 DEF Late
<1>4. CASE /\ ~(\E d \in Calls : CallStep(d))
           /\ ~(RelayServe(c) \/ Decide(c) \/ Replay(c))
           /\ \A m \in air : Serve(m) => m.call # c \/ m.kind # "op"
  BY <1>0, <1>4, OtherFrame DEF Untouched
<1> QED BY <1>1, <1>2, <1>3, <1>4

(* Every variable keeps its type: a request that goes direct has an address, *)
(* and what is sent along is a grant for the device that is called.         *)
THEOREM TypeCorrect == Spec => []TypeOK
<1>1. Inv => TypeOK
  BY DEF Inv
<1> QED BY <1>1, InvHolds, PTL

(* Whatever device has an address, whatever passwords are shared: over the  *)
(* LAN an operation runs only where and as the hub allowed it (the gates of  *)
(* handle and capability_ok).                                               *)
THEOREM LanAllowed == Spec => []LanRunsAllowed
<1>1. Inv => LanRunsAllowed
  BY DEF Inv, FlowInv, FlowOK, LanRunsAllowed
<1> QED BY <1>1, InvHolds, PTL

(* One process of the agent takes a grant once, for any lifetime, leeway    *)
(* and size of the cache, but for the very last second in which it takes it *)
(* at all (parse_and_verify, ReplayCache::claim).                           *)
THEOREM ServesOnce == Spec => []GrantServesOnce
<1>1. Inv => GrantServesOnce
  BY DEF Inv
<1> QED BY <1>1, InvHolds, PTL

(* Clocks that differ by the leeway or less make no grant late or early     *)
(* that the hub calls good (parse_and_verify).                              *)
THEOREM SkewIsTolerated == Spec => []SkewTolerated
<1>1. Inv => SkewTolerated
  BY InTime DEF Inv
<1> QED BY <1>1, InvHolds, PTL

(* Whatever answers, refusals and restarts there are, a call has its        *)
(* operation run a second time only after a direct attempt failed in        *)
(* transport (call_device).                                                 *)
THEOREM TwiceIfLost == Spec => []TwiceOnlyIfLost
<1>1. ASSUME Inv PROVE TwiceOnlyIfLost
  <2> SUFFICES ASSUME NEW c \in Calls, c \notin gaveUp PROVE ~(Cardinality(runs[c]) > 1)
    BY DEF TwiceOnlyIfLost
  <2>1. FlowOK(c) /\ runs[c] \subseteq {"lan", "stray", "relay", "approval"}
    BY <1>1 DEF Inv, FlowInv, TypeOK
  <2>2. runs[c] \in {{}, {"lan"}, {"relay"}, {"approval"}}
    BY <2>1 DEF FlowOK
  <2>3. Cardinality({}) = 0 /\ \A x : Cardinality({x}) = 1
    BY FS_EmptySet, FS_Singleton
  <2>4. Cardinality(runs[c]) \in {0, 1}
    BY <2>2, <2>3
  <2> QED BY <2>4
<1> QED BY <1>1, InvHolds, PTL

(* A no is final: the operation is not tried another way, and runs later    *)
(* only if it was on the wire before (call_device, mint_capability).        *)
THEOREM DenyIsFinal == Spec => NoRunAfterDeny
<1> DEFINE Final == \A c \in denied : runs'[c] \subseteq runs[c] \cup Late(c)
<1>1. ASSUME Inv, Next PROVE Final
  <2> SUFFICES ASSUME NEW c \in denied PROVE runs'[c] \subseteq runs[c] \cup Late(c)
    OBVIOUS
  <2>1. c \in Calls /\ FlowOK(c)
    BY <1>1 DEF Inv, TypeOK, FlowInv
  <2>2. rel[c] \notin {"queued", "running"} /\ call[c].pc # "wait"
    BY <2>1 DEF FlowOK, Past
  <2> QED BY <1>1, <2>1, <2>2, RunStep
<1>2. Inv /\ [Next]_vars => [Final]_vars
  BY <1>1
<1> HIDE DEF Final
<1>3. Spec => [][Final]_vars
  BY <1>2, InvHolds, PTL DEF Spec
<1> QED BY <1>3 DEF NoRunAfterDeny, Final

(* A caller that was told a result, a refusal or a decision has seen the    *)
(* last of its operation, but for what was on the wire (settle, from_view).  *)
THEOREM ToldIsOver == Spec => ToldMeansOver
<1> DEFINE Over == \A c \in Calls :
                      told[c] = "result" => runs'[c] \subseteq runs[c] \cup Late(c)
<1>1. ASSUME Inv, Next PROVE Over
  <2> SUFFICES ASSUME NEW c \in Calls, told[c] = "result"
               PROVE  runs'[c] \subseteq runs[c] \cup Late(c)
    OBVIOUS
  <2>1. FlowOK(c)
    BY <1>1 DEF Inv, FlowInv
  <2>2. rel[c] \notin {"queued", "running"} /\ call[c].pc # "wait"
    BY <2>1 DEF FlowOK
  <2> QED BY <1>1, <2>2, RunStep
<1>2. Inv /\ [Next]_vars => [Over]_vars
  BY <1>1
<1> HIDE DEF Over
<1>3. Spec => [][Over]_vars
  BY <1>2, InvHolds, PTL DEF Spec
<1> QED BY <1>3 DEF ToldMeansOver, Over
=============================================================================
