---------------------------- MODULE VpnExitProofs ----------------------------
(***************************************************************************)
(* Invariants of VpnExit proved for every set of passes, relays, uplinks   *)
(* and requests, every kind of failure and every bound.                    *)
(***************************************************************************)
EXTENDS VpnExit, TLAPS

ApplySteps == {"checks", "iface", "wan", "record", "write", "del", "ins", "forward",
               "peers", "commit", "check"}
DisableSteps == {"restore", "unrecord", "unrule", "down"}

\* What the holder of op() has at hand at each of its steps.
OpShape ==
    /\ op.who = "nobody" => op = Idle
    /\ op.who \in {"apply", "resume"} => op.step \in ApplySteps /\ op.d \in Desired
    /\ op.who = "tick" => op.step \in {"del", "ins"}
    /\ op.who = "disable" => op.step \in DisableSteps
    /\ op.step \in {"record", "write", "del", "ins", "forward", "peers", "commit", "check"}
         => op.wan \in Uplinks

TypeInv == TypeOK /\ OpShape /\ (boot.step = "resume" => boot.d \in Desired)

\* ip_forward and its record through the steps that change either.
Unrestorable == "torn" \in amiss \/ "stuck" \in amiss
ForwardInv ==
    /\ ForwardingRestorable
    /\ agentOn => ipf = 1
    /\ At("write") =>
          /\ ipf = 0 => op.keep = 0
          /\ agentOn => op.keep = 0 \/ Unrestorable
    /\ op.who \in {"apply", "resume"} /\ op.step \in {"del", "ins", "forward"} =>
          (op.isolate <=> record = 0) /\ (ipf = 0 => record = 0)
    /\ At("unrecord") => ~agentOn \/ Unrestorable

\* e is d without some of the passes that have run out.
Pruned(d, e) == /\ e.id = d.id /\ e.peers \subseteq d.peers
                /\ d.peers \ e.peers \subseteq expired

\* The boot resume and the words it works with.
HubInv ==
    /\ HubHasLastWordUnlessRaced
    /\ DisabledStaysDisabled
    /\ desired # None => saved = desired
    /\ boot.gen <= generation
    /\ op.who = "resume" =>
          /\ boot.step = "resume" /\ IsCurrent(boot.gen)
          /\ op.step \notin {"commit", "check"} => op.d = boot.d
          /\ op.step = "commit" /\ ~bootRaced => Pruned(saved, op.d)
    /\ boot.step \in {"load", "resume"} /\ IsCurrent(boot.gen) => ~ApplyUnsaved \/ bootRaced
    /\ boot.step = "resume" /\ IsCurrent(boot.gen) =>
          /\ hubWord # None
          /\ ~bootRaced => Pruned(boot.d, saved)

WatchInv == EnabledIsWatched /\ (dog <=> watching)

Committing == {"forward", "peers", "commit", "check"}

\* What the rules and their record are at each step of an apply, a resume, a round
\* of the ticker and a disable.
PlanInv ==
    /\ op.step \in {"del", "ins"} \cup Committing => (op.isolate <=> record = 0)
    /\ op.step = "write" => record = Torn
    /\ op.step = "ins" =>
          /\ Len(fw) <= Len(Rules(op.isolate))
          /\ \A i \in 1 .. Len(fw) : fw[i] = Rules(op.isolate)[i]
          /\ fw # <<>> => fwWan = op.wan
    /\ op.step \in Committing => fw = Rules(op.isolate) /\ fwWan = op.wan
    /\ op.who = "disable" =>
          /\ saved = None /\ desired = None /\ shim = None
          /\ op.step \in {"unrule", "down"} => record = None
          /\ op.step = "down" => fw = <<>> /\ stale \subseteq op.left

\* The rules of an enabled exit, for the uplink u, with the isolation rule or without.
Whole(isolate, u) ==
    \/ fw = Rules(isolate) /\ fwWan = u
    \/ "cut" \in amiss /\ Begins(fw, Rules(isolate))
WholeInv ==
    /\ RulesWhole
    /\ op.step = "write" /\ desired # None => \E isolate \in BOOLEAN : Whole(isolate, wan)

\* What an apply or a resume has made by each of its steps, device included.
Prepared == {"wan", "record", "write", "del", "ins"} \cup Committing
RunInv ==
    /\ op.who \in {"apply", "resume"} /\ op.step \in Prepared => live # "none"
    /\ op.step \in {"peers", "commit", "check"} => ipf = 1 \/ "dark" \in amiss
    /\ op.step \in {"commit", "check"} /\ op.ok /\ iface # "none" =>
          /\ op.d.peers \subseteq devPeers
          /\ devPeers = op.d.peers \/ "kept" \in amiss
    /\ op.step = "check" => shim = op.d.id /\ saved = op.d /\ desired = op.d
-----------------------------------------------------------------------------
USE DEF vars, diskVars, hostVars, devVars, stateVars, procVars, worldVars, boundVars,
        historyVars, NoFault

\* A fault costs budget and nothing else.
LEMMA InjectCosts ==
    ASSUME NEW kind, faultsLeft \in Nat, Inject(kind)
    PROVE  faultsLeft' \in Nat
  BY DEF Inject

LEMMA BringUpType ==
    ASSUME faultsLeft \in Nat, NEW kind, NEW want \in SUBSET Peers, BringUp(kind, want)
    PROVE  /\ devPeers' \in SUBSET Peers /\ faultsLeft' \in Nat
           /\ live' \in {"kernel", "user"} /\ iface' \in {"kernel", "tun"}
  BY InjectCosts DEF BringUp

\* What ensure_iface may leave, whether it succeeds or not.
LEMMA EnsureIfaceType ==
    ASSUME TypeOK, NEW kind, EnsureIfaceOk(kind) \/ EnsureIfaceErr(kind)
    PROVE  /\ devPeers' \in SUBSET Peers /\ faultsLeft' \in Nat
           /\ live' \in {"none", "kernel", "user", "sick"}
           /\ iface' \in {"none", "kernel", "tun"}
<1>1. CASE EnsureIfaceOk(kind)
  BY <1>1, BringUpType DEF EnsureIfaceOk, TypeOK
<1>2. CASE EnsureIfaceErr(kind)
  BY <1>2, InjectCosts DEF EnsureIfaceErr, TypeOK, IfaceDown, StopDevice
<1> QED BY <1>1, <1>2

LEMMA ReconcileType ==
    ASSUME TypeOK, NEW want \in SUBSET Peers,
           ReconcileOk(want) \/ ReconcileKept(want) \/ ReconcileErr(want)
    PROVE  devPeers' \in SUBSET Peers /\ faultsLeft' \in Nat
  BY InjectCosts DEF ReconcileOk, ReconcileKept, ReconcileErr, TypeOK

LEMMA LivePeersType ==
    ASSUME NEW d \in Desired
    PROVE  LivePeers(d) \in Desired
  BY DEF LivePeers, Desired

LEMMA RulesType ==
    ASSUME NEW isolate \in BOOLEAN
    PROVE  /\ Rules(isolate) \in Seq(RuleTags)
           /\ Len(Rules(isolate)) \in {4, 5}
<1>1. CASE isolate
  BY <1>1 DEF Rules, RuleTags
<1>2. CASE ~isolate
  BY <1>2 DEF Rules, RuleTags
<1> QED BY <1>1, <1>2

LEMMA FailedType ==
    ASSUME NEW w \in WatchType, NEW g \in Nat
    PROVE  Failed(w, g) \in WatchType
  BY DEF Failed, WatchType

\* What a round of the watchdog may leave.
LEMMA WatchdogType ==
    ASSUME TypeOK, WatchdogRound, LivePeers(desired).peers \in SUBSET Peers
    PROVE  /\ watch' \in WatchType /\ lastError' \in BOOLEAN /\ faultsLeft' \in Nat
           /\ devPeers' \in SUBSET Peers /\ live' \in {"none", "kernel", "user", "sick"}
           /\ iface' \in {"none", "kernel", "tun"}
<1> DEFINE w == DropStale(watch)
           want == LivePeers(desired).peers
<1>1. w \in WatchType
  BY DEF TypeOK, DropStale, WatchType
<1>2. CASE watch' = w /\ UNCHANGED <<devVars, lastError, faultsLeft>>
  BY <1>1, <1>2 DEF TypeOK
<1>3. CASE /\ Unwell(w) /\ NoFault
           /\ IF watch'.health = "failed" THEN IfaceDown ELSE UNCHANGED devVars
  <2>1. watch' \in WatchType /\ lastError' \in BOOLEAN
    BY <1>1, <1>3, FailedType DEF Unwell, TypeOK
  <2> QED BY <1>3, <2>1 DEF TypeOK, IfaceDown, StopDevice
<1>4. CASE /\ RebuildOk(want) /\ lastError' = FALSE
           /\ watch' = [w EXCEPT !.health = "ok", !.episode = NoEpisode]
  <2>1. watch' \in WatchType
    BY <1>1, <1>4 DEF WatchType
  <2> HIDE DEF want
  <2>2. /\ devPeers' \in SUBSET Peers /\ faultsLeft' \in Nat
        /\ live' \in {"kernel", "user"} /\ iface' \in {"kernel", "tun"}
    BY <1>4, BringUpType DEF RebuildOk, TypeOK, want
  <2> QED BY <1>4, <2>1, <2>2
<1>5. CASE Unwell(w) /\ RebuildErr(want)
  <2>1. watch' \in WatchType /\ lastError' \in BOOLEAN
    BY <1>1, <1>5, FailedType DEF Unwell, TypeOK
  <2> QED BY <1>5, <2>1, InjectCosts DEF TypeOK, RebuildErr, IfaceDown, StopDevice
<1> QED BY <1>2, <1>3, <1>4, <1>5 DEF WatchdogRound

LEMMA TypeInit == Init => TypeInv
<1> SUFFICES ASSUME Init PROVE TypeInv
  OBVIOUS
<1>1. TypeOK
  <2>1. fw \in Seq(RuleTags) /\ fw = <<>>
    BY DEF Init
  <2>2. /\ ipf \in {0, 1} /\ uplink \in Uplinks \cup {None} /\ expired \in SUBSET Peers
        /\ hubLeft \in Nat /\ crashesLeft \in Nat /\ faultsLeft \in Nat /\ movesLeft \in Nat
    BY ConfigAssumption DEF Init
  <2>3. op \in OpType
    BY DEF Init, Idle, OpType, Steps
  <2>4. watch \in WatchType /\ boot \in BootType
    BY DEF Init, FreshWatch, BootStart, WatchType, BootType
  <2>5. amiss \in SUBSET Mishaps /\ stale \in SUBSET RuleTags
    BY DEF Init
  <2> QED BY <2>1, <2>2, <2>3, <2>4, <2>5 DEF Init, TypeOK
<1>2. OpShape /\ boot.step # "resume"
  BY DEF Init, OpShape, Idle, BootStart
<1> QED BY <1>1, <1>2 DEF TypeInv

\* Nobody holds op() after a step that lets go of it.
LEMMA IdleShape ==
    ASSUME op' = Idle
    PROVE  op' \in OpType /\ OpShape'
  BY DEF Idle, OpType, OpShape, Steps

LEMMA ReturnShape ==
    ASSUME TypeOK, NEW mishap \in SUBSET Mishaps, Return(mishap)
    PROVE  /\ op' \in OpType /\ OpShape' /\ lastError' \in BOOLEAN
           /\ amiss' \in SUBSET Mishaps
<1>1. op' = Idle /\ lastError' \in BOOLEAN
  BY DEF Return, TypeOK
<1>2. Abandoned \in SUBSET Mishaps
  BY DEF Abandoned, Mishaps
<1>3. amiss' \in SUBSET Mishaps
  BY <1>2 DEF Return, TypeOK
<1> QED BY <1>1, <1>3, IdleShape

\* Only the step changes when the holder of op() goes on to its next one.
LEMMA GotoIs ==
    ASSUME op \in OpType, NEW step \in Steps, Goto(step)
    PROVE  /\ op' \in OpType /\ op'.step = step
           /\ op'.who = op.who /\ op'.d = op.d /\ op'.wan = op.wan
           /\ op'.keep = op.keep /\ op'.isolate = op.isolate /\ op'.ok = op.ok
           /\ op'.left = op.left
  BY DEF Goto, OpType

\* What a delete of a tagged rule leaves, of the rules and of the holder of op().
LEMMA DeleteTaggedType ==
    ASSUME TypeOK, NEW next \in Steps, DeleteTagged(next)
    PROVE  /\ fw' \in Seq(RuleTags) /\ (fw' # <<>> => fw # <<>>)
           /\ stale' \in SUBSET RuleTags /\ faultsLeft' \in Nat
           /\ op' \in OpType /\ op'.who = op.who /\ op'.d = op.d /\ op'.wan = op.wan
           /\ op'.keep = op.keep /\ op'.isolate = op.isolate /\ op'.ok = op.ok
           /\ \/ op'.step = op.step
              \/ op'.step = next /\ fw' = <<>> /\ stale' \subseteq op'.left
<1>0. op \in OpType /\ fw \in Seq(RuleTags) /\ stale \in SUBSET RuleTags /\ faultsLeft \in Nat
  BY DEF TypeOK
<1>1. CASE fw # <<>>
  <2>1. Head(fw) \in RuleTags /\ Tail(fw) \in Seq(RuleTags)
    BY <1>0, <1>1
  <2>2. CASE fw' = Tail(fw) /\ NoFault /\ UNCHANGED <<op, stale>>
    BY <1>0, <1>1, <2>1, <2>2
  <2>3. CASE /\ Inject("delete") /\ fw' = Tail(fw) /\ stale' = stale \cup {Head(fw)}
             /\ op' = [op EXCEPT !.left = @ \cup {Head(fw)}]
    BY <1>0, <1>1, <2>1, <2>3, InjectCosts DEF OpType
  <2> QED BY <1>1, <2>2, <2>3 DEF DeleteTagged
<1>2. CASE fw = <<>>
  <2>1. CASE stale' = op.left /\ Goto(next) /\ NoFault /\ UNCHANGED fw
    <3>1. op.left \in SUBSET RuleTags
      BY <1>0 DEF OpType
    <3> QED BY <1>0, <1>2, <2>1, <3>1, GotoIs
  <2>2. CASE /\ Inject("delete") /\ op' = [op EXCEPT !.step = next, !.left = stale]
             /\ UNCHANGED <<fw, stale>>
    BY <1>0, <1>2, <2>2, InjectCosts DEF OpType
  <2> QED BY <1>2, <2>1, <2>2 DEF DeleteTagged
<1> QED BY <1>1, <1>2

\* The type survives a step that changes neither the boot thread nor the holder
\* of op() beyond what the two lemmas above cover.
LEMMA TypeStep == TypeInv /\ [Next]_vars => TypeInv'
<1> SUFFICES ASSUME TypeInv, [Next]_vars PROVE TypeInv'
  OBVIOUS
<1>0. TypeOK /\ OpShape /\ op \in OpType /\ boot \in BootType
  BY DEF TypeInv, TypeOK
<1>1. ASSUME NEW d \in HubConfigs, ApplyBegin(d) PROVE TypeInv'
  <2>1. d \in Desired
    BY ConfigAssumption
  <2>2. op' \in OpType /\ OpShape'
    BY <1>1, <2>1 DEF ApplyBegin, Idle, OpType, OpShape, Steps, ApplySteps
  <2>3. TypeOK'
    BY <1>0, <1>1, <2>2 DEF ApplyBegin, TypeOK
  <2> QED BY <1>1, <2>2, <2>3 DEF ApplyBegin, TypeInv
<1>2. CASE DisableBegin
  <2>1. op' \in OpType /\ OpShape'
    BY <1>2 DEF DisableBegin, Idle, OpType, OpShape, Steps, DisableSteps
  <2>2. FreshWatch \in WatchType
    BY DEF FreshWatch, WatchType
  <2>3. TypeOK'
    BY <1>0, <1>2, <2>1, <2>2 DEF DisableBegin, TypeOK
  <2> QED BY <1>2, <2>1, <2>3 DEF DisableBegin, TypeInv
<1>3. CASE BootReadGeneration
  <2>1. boot' \in BootType /\ boot'.step = "load"
    BY <1>0, <1>3 DEF BootReadGeneration, BootType, TypeOK
  <2>2. TypeOK'
    BY <1>0, <1>3, <2>1 DEF BootReadGeneration, TypeOK
  <2>3. OpShape'
    BY <1>0, <1>3 DEF BootReadGeneration, OpShape
  <2> QED BY <2>1, <2>2, <2>3 DEF TypeInv
<1>4. CASE BootLoad
  <2>1. boot' \in BootType /\ (boot'.step = "resume" => boot'.d \in Desired)
    BY <1>0, <1>4 DEF BootLoad, BootType, TypeOK
  <2>2. TypeOK'
    BY <1>0, <1>4, <2>1 DEF BootLoad, TypeOK
  <2>3. OpShape'
    BY <1>0, <1>4 DEF BootLoad, OpShape
  <2> QED BY <2>1, <2>2, <2>3 DEF TypeInv
<1>5. CASE ResumeTurn
  <2>1. boot' \in BootType /\ (boot'.step = "resume" => boot'.d \in Desired)
    BY <1>0, <1>5 DEF ResumeTurn, BootType, TypeInv
  <2>2. op' \in OpType /\ OpShape'
    <3>1. CASE op' = op
      BY <1>0, <3>1 DEF OpShape
    <3>2. CASE op' = [Idle EXCEPT !.who = "resume", !.step = "checks", !.d = boot.d]
      BY <1>5, <3>2 DEF ResumeTurn, TypeInv, Idle, OpType, OpShape, Steps, ApplySteps
    <3> QED BY <1>5, <3>1, <3>2 DEF ResumeTurn
  <2>3. TypeOK'
    BY <1>0, <1>5, <2>1, <2>2 DEF ResumeTurn, TypeOK
  <2> QED BY <2>1, <2>2, <2>3 DEF TypeInv
<1>6. CASE TickerRound
  <2>1. desired \in Desired /\ LivePeers(desired) \in Desired
    BY <1>0, <1>6, LivePeersType DEF TickerRound, TypeOK
  <2>2. devPeers' \in SUBSET Peers /\ faultsLeft' \in Nat
    <3>1. LivePeers(desired).peers \in SUBSET Peers
      BY <2>1 DEF Desired
    <3> QED BY <1>0, <1>6, <3>1, ReconcileType DEF TickerRound, TypeOK
  <2>3. op' \in OpType /\ OpShape'
    <3>1. CASE op' = op
      BY <1>0, <3>1 DEF OpShape
    <3>2. CASE /\ Moved
               /\ op' = [Idle EXCEPT !.who = "tick", !.step = "del", !.wan = uplink,
                                     !.isolate = ForwardToRestore(record)]
      BY <1>0, <3>2, ConfigAssumption
         DEF Moved, TypeOK, Idle, OpType, OpShape, Steps, ForwardToRestore
    <3> QED BY <1>6, <3>1, <3>2 DEF TickerRound
  <2>4. saved' \in Desired \cup {None} /\ desired' \in Desired \cup {None}
    BY <1>0, <1>6, <2>1 DEF TickerRound, TypeOK
  <2>5. TypeOK'
    BY <1>0, <1>6, <2>2, <2>3, <2>4 DEF TickerRound, TypeOK
  <2> QED BY <1>6, <2>3, <2>5 DEF TickerRound, TypeInv
<1>7. CASE Checks
  <2>1. /\ op' \in OpType /\ OpShape' /\ lastError' \in BOOLEAN /\ faultsLeft' \in Nat
        /\ amiss' \in SUBSET Mishaps
    <3>1. CASE Goto("iface") /\ NoFault /\ UNCHANGED <<lastError, amiss>>
      BY <1>0, <1>7, <3>1, GotoIs DEF Checks, At, OpShape, TypeOK, ApplySteps, DisableSteps, Steps
    <3>2. CASE Inject("prereq") /\ Return({})
      BY <1>0, <3>2, ReturnShape, InjectCosts DEF TypeOK
    <3> QED BY <1>7, <3>1, <3>2 DEF Checks
  <2>2. TypeOK'
    BY <1>0, <1>7, <2>1 DEF Checks, TypeOK
  <2> QED BY <1>7, <2>1, <2>2 DEF Checks, TypeInv
<1>8. CASE EnsureIface
  <2>1. op' \in OpType /\ OpShape' /\ lastError' \in BOOLEAN /\ amiss' \in SUBSET Mishaps
    <3>1. CASE Goto("wan") /\ UNCHANGED <<lastError, amiss>>
      BY <1>0, <1>8, <3>1, GotoIs DEF EnsureIface, At, OpShape, TypeOK, ApplySteps, DisableSteps, Steps
    <3>2. CASE Return({})
      BY <1>0, <3>2, ReturnShape
    <3> QED BY <1>8, <3>1, <3>2 DEF EnsureIface
  <2>2. TypeOK'
    BY <1>0, <1>8, <2>1, EnsureIfaceType DEF EnsureIface, TypeOK
  <2> QED BY <1>8, <2>1, <2>2 DEF EnsureIface, TypeInv
<1>9. CASE FindWan
  <2>1. op' \in OpType /\ OpShape' /\ lastError' \in BOOLEAN /\ amiss' \in SUBSET Mishaps
    <3>1. CASE uplink # None /\ op' = [op EXCEPT !.step = "record", !.wan = uplink]
                             /\ UNCHANGED <<lastError, amiss>>
      BY <1>0, <1>9, <3>1 DEF FindWan, At, OpShape, OpType, TypeOK, ApplySteps, DisableSteps, Steps
    <3>2. CASE Return({})
      BY <1>0, <3>2, ReturnShape
    <3> QED BY <1>9, <3>1, <3>2 DEF FindWan
  <2>2. TypeOK'
    BY <1>0, <1>9, <2>1 DEF FindWan, TypeOK
  <2> QED BY <1>9, <2>1, <2>2 DEF FindWan, TypeInv
<1>10. CASE RecordForwarding
  <2>1. /\ op' \in OpType /\ OpShape' /\ lastError' \in BOOLEAN /\ faultsLeft' \in Nat
        /\ record' \in {0, 1, Torn, None} /\ amiss' \in SUBSET Mishaps
    <3>1. CASE /\ op' = [op EXCEPT !.step = "write", !.keep = ForwardToRecord(ipf, record)]
               /\ record' = Torn /\ UNCHANGED <<lastError, faultsLeft, amiss>>
      <4>1. ForwardToRecord(ipf, record) \in {0, 1, Torn, None}
        BY <1>0 DEF ForwardToRecord, TypeOK
      <4> QED BY <1>0, <1>10, <3>1, <4>1
              DEF RecordForwarding, At, OpShape, OpType, TypeOK, ApplySteps, DisableSteps, Steps
    <3>2. CASE Inject("record") /\ Return({}) /\ UNCHANGED record
      BY <1>0, <3>2, ReturnShape, InjectCosts DEF TypeOK
    <3> QED BY <1>10, <3>1, <3>2 DEF RecordForwarding
  <2>2. TypeOK'
    BY <1>0, <1>10, <2>1 DEF RecordForwarding, TypeOK
  <2> QED BY <1>10, <2>1, <2>2 DEF RecordForwarding, TypeInv
<1>11. CASE WriteRecord
  <2>1. /\ op' \in OpType /\ OpShape' /\ lastError' \in BOOLEAN /\ faultsLeft' \in Nat
        /\ record' \in {0, 1, Torn, None} /\ amiss' \in SUBSET Mishaps
    <3>1. CASE /\ op' = [op EXCEPT !.step = "del", !.isolate = ForwardToRestore(op.keep)]
               /\ record' = op.keep /\ UNCHANGED <<lastError, faultsLeft, amiss>>
      BY <1>0, <1>11, <3>1
         DEF WriteRecord, At, OpShape, OpType, TypeOK, ApplySteps, DisableSteps, Steps,
             ForwardToRestore
    <3>2. CASE Inject("record") /\ Return({"torn"}) /\ UNCHANGED record
      BY <1>0, <3>2, ReturnShape, InjectCosts DEF TypeOK, Mishaps
    <3> QED BY <1>11, <3>1, <3>2 DEF WriteRecord
  <2>2. TypeOK'
    BY <1>0, <1>11, <2>1 DEF WriteRecord, TypeOK
  <2> QED BY <1>11, <2>1, <2>2 DEF WriteRecord, TypeInv
<1>12. CASE DeleteRule
  <2>1. /\ fw' \in Seq(RuleTags) /\ (fw' # <<>> => fw # <<>>)
        /\ stale' \in SUBSET RuleTags /\ faultsLeft' \in Nat
        /\ op' \in OpType /\ op'.who = op.who /\ op'.d = op.d /\ op'.wan = op.wan
        /\ op'.step \in {"del", "ins"} /\ op.who # "nobody" /\ op.step = "del"
    BY <1>0, <1>12, DeleteTaggedType DEF DeleteRule, At, Steps
  <2>2. OpShape'
    BY <1>0, <2>1 DEF OpShape, ApplySteps, DisableSteps
  <2>3. TypeOK'
    BY <1>0, <1>12, <2>1 DEF DeleteRule, TypeOK
  <2> QED BY <1>12, <2>2, <2>3 DEF DeleteRule, TypeInv
<1>13. CASE InsertRule
  <2>1. /\ op' \in OpType /\ OpShape' /\ lastError' \in BOOLEAN /\ faultsLeft' \in Nat
        /\ fw' \in Seq(RuleTags) /\ fwWan' \in Uplinks \cup {None}
        /\ fw' # <<>> => fwWan' \in Uplinks
        /\ amiss' \in SUBSET Mishaps
    <3>1. CASE /\ fw' = Append(fw, Rules(op.isolate)[Len(fw) + 1])
               /\ fwWan' = op.wan
               /\ UNCHANGED <<op, lastError, faultsLeft, amiss>>
      <4>1. op.isolate \in BOOLEAN /\ fw \in Seq(RuleTags)
        BY <1>0 DEF OpType, TypeOK
      <4>2. Rules(op.isolate) \in Seq(RuleTags) /\ Len(fw) + 1 \in 1 .. Len(Rules(op.isolate))
        BY <1>13, <4>1, RulesType DEF InsertRule, RulesDone
      <4>3. fw' \in Seq(RuleTags)
        BY <3>1, <4>1, <4>2
      <4>4. op.wan \in Uplinks
        BY <1>0, <1>13 DEF InsertRule, At, OpShape
      <4> QED BY <1>0, <3>1, <4>3, <4>4 DEF OpShape, TypeOK
    <3>2. CASE Inject("rule") /\ Return({"cut"}) /\ UNCHANGED <<fw, fwWan>>
      BY <1>0, <3>2, ReturnShape, InjectCosts DEF TypeOK, Mishaps
    <3> QED BY <1>13, <3>1, <3>2 DEF InsertRule
  <2>2. TypeOK'
    BY <1>0, <1>13, <2>1 DEF InsertRule, TypeOK
  <2> QED BY <1>13, <2>1, <2>2 DEF InsertRule, TypeInv
<1>14. CASE RulesIn
  <2>1. op' \in OpType /\ OpShape' /\ wan' \in Uplinks \cup {None}
    <3>1. CASE op.who = "tick"
      BY <1>0, <1>14, <3>1, IdleShape DEF RulesIn, OpType
    <3>2. CASE op.who # "tick"
      BY <1>0, <1>14, <3>2, GotoIs
         DEF RulesIn, At, OpShape, OpType, TypeOK, ApplySteps, DisableSteps, Steps
    <3> QED BY <3>1, <3>2
  <2>2. TypeOK'
    BY <1>0, <1>14, <2>1 DEF RulesIn, TypeOK
  <2> QED BY <1>14, <2>1, <2>2 DEF RulesIn, TypeInv
<1>15. CASE TurnForwardingOn
  <2>1. op' \in OpType /\ OpShape'
    BY <1>0, <1>15, GotoIs DEF TurnForwardingOn, At, OpShape, ApplySteps, DisableSteps, Steps
  <2>2. /\ agentOn' \in BOOLEAN /\ ipf' \in {0, 1} /\ faultsLeft' \in Nat
        /\ amiss' \in SUBSET Mishaps
    BY <1>0, <1>15, InjectCosts DEF TurnForwardingOn, TypeOK, Mishaps
  <2>3. TypeOK'
    BY <1>0, <1>15, <2>1, <2>2 DEF TurnForwardingOn, TypeOK
  <2> QED BY <1>15, <2>1, <2>3 DEF TurnForwardingOn, TypeInv
<1>16. CASE ReconcilePeers
  <2> DEFINE d == LivePeers(op.d)
  <2>1. d \in Desired
    BY <1>0, <1>16, LivePeersType
       DEF ReconcilePeers, At, OpShape, OpType, DisableSteps
  <2>2. devPeers' \in SUBSET Peers /\ faultsLeft' \in Nat
    BY <1>0, <1>16, <2>1, ReconcileType DEF ReconcilePeers, Desired
  <2>3. /\ \E ok \in BOOLEAN : op' = [op EXCEPT !.step = "commit", !.d = d, !.ok = ok]
        /\ amiss' \in SUBSET Mishaps
    BY <1>0, <1>16 DEF ReconcilePeers, TypeOK, Mishaps
  <2>4. op' \in OpType /\ OpShape'
    <3> HIDE DEF d
    <3> QED BY <1>0, <1>16, <2>1, <2>3
            DEF ReconcilePeers, At, OpShape, OpType, ApplySteps, DisableSteps, Steps
  <2>5. TypeOK'
    BY <1>0, <1>16, <2>2, <2>3, <2>4 DEF ReconcilePeers, TypeOK
  <2> QED BY <1>16, <2>4, <2>5 DEF ReconcilePeers, TypeInv
<1>17. CASE Commit
  <2>1. op' \in OpType /\ OpShape'
    BY <1>0, <1>17, GotoIs DEF Commit, At, OpShape, ApplySteps, DisableSteps, Steps
  <2>2. op.d \in Desired /\ op.wan \in Uplinks /\ op.d.id \in Relays
    <3>1. op.d \in Desired /\ op.wan \in Uplinks
      BY <1>0, <1>17 DEF Commit, At, OpShape, OpType, DisableSteps
    <3> QED BY <3>1 DEF Desired
  <2>3. FreshWatch \in WatchType
    BY DEF FreshWatch, WatchType
  <2>4. /\ hubWord' \in Desired \cup {None} /\ dog' \in BOOLEAN /\ watching' \in BOOLEAN
        /\ faultsLeft' \in Nat
    BY <1>0, <1>17, <2>2, InjectCosts DEF Commit, EnsureWatchdog, TypeOK
  <2>6. amiss' \in SUBSET Mishaps
    BY <1>0, <1>17 DEF Commit, TypeOK, Mishaps
  <2>5. TypeOK'
    BY <1>0, <1>17, <2>1, <2>2, <2>3, <2>4, <2>6 DEF Commit, TypeOK
  <2> QED BY <1>17, <2>1, <2>5 DEF Commit, TypeInv
<1>18. CASE CheckAndAnswer
  <2>1. op' \in OpType /\ OpShape'
    BY <1>18, IdleShape DEF CheckAndAnswer
  <2>2. watch' \in WatchType /\ lastError' \in BOOLEAN
    BY <1>0, <1>18, FailedType DEF CheckAndAnswer, TypeOK, Answered, Unhealthy, OpType
  <2>3. boot' \in BootType /\ (boot'.step = "resume" => boot'.d \in Desired)
    BY <1>0, <1>18 DEF CheckAndAnswer, BootType, TypeInv
  <2>4. TypeOK'
    BY <1>0, <1>18, <2>1, <2>2, <2>3 DEF CheckAndAnswer, TypeOK
  <2> QED BY <2>1, <2>3, <2>4 DEF TypeInv
<1>19. CASE RestoreForwarding
  <2>1. op' \in OpType /\ OpShape'
    BY <1>0, <1>19, GotoIs DEF RestoreForwarding, At, OpShape, ApplySteps, DisableSteps, Steps
  <2>2. /\ ipf' \in {0, 1} /\ agentOn' \in BOOLEAN /\ faultsLeft' \in Nat
        /\ amiss' \in SUBSET Mishaps
    BY <1>0, <1>19, InjectCosts DEF RestoreForwarding, TypeOK, Mishaps
  <2>3. TypeOK'
    BY <1>0, <1>19, <2>1, <2>2 DEF RestoreForwarding, TypeOK
  <2> QED BY <1>19, <2>1, <2>3 DEF RestoreForwarding, TypeInv
<1>20. CASE RemoveRecord
  <2>1. op' \in OpType /\ OpShape'
    BY <1>0, <1>20, GotoIs DEF RemoveRecord, At, OpShape, ApplySteps, DisableSteps, Steps
  <2>2. TypeOK'
    BY <1>0, <1>20, <2>1 DEF RemoveRecord, TypeOK
  <2> QED BY <1>20, <2>1, <2>2 DEF RemoveRecord, TypeInv
<1>21. CASE RemoveRules
  <2>1. /\ fw' \in Seq(RuleTags) /\ (fw' # <<>> => fw # <<>>)
        /\ stale' \in SUBSET RuleTags /\ faultsLeft' \in Nat
        /\ op' \in OpType /\ op'.who = op.who /\ op'.d = op.d /\ op'.wan = op.wan
        /\ op'.step \in {"unrule", "down"} /\ op.who # "nobody" /\ op.step = "unrule"
    BY <1>0, <1>21, DeleteTaggedType DEF RemoveRules, At, Steps
  <2>2. OpShape'
    BY <1>0, <2>1 DEF OpShape, ApplySteps, DisableSteps
  <2>3. TypeOK'
    BY <1>0, <1>21, <2>1 DEF RemoveRules, TypeOK
  <2> QED BY <1>21, <2>2, <2>3 DEF RemoveRules, TypeInv
<1>22. CASE DisableEnd
  <2>1. op' \in OpType /\ OpShape'
    BY <1>22, IdleShape DEF DisableEnd
  <2>2. /\ live' = "none" /\ iface' \in {"none", "kernel", "tun"} /\ devPeers' \in SUBSET Peers
        /\ faultsLeft' \in Nat /\ amiss' \in SUBSET Mishaps
    BY <1>0, <1>22, InjectCosts DEF DisableEnd, IfaceDown, LinkStays, StopDevice, TypeOK, Mishaps
  <2>3. TypeOK'
    BY <1>0, <1>22, <2>1, <2>2 DEF DisableEnd, TypeOK
  <2> QED BY <1>22, <2>1, <2>3 DEF DisableEnd, TypeInv
<1>23. CASE WatchdogEnds
  <2>1. /\ dog' \in BOOLEAN /\ watching' \in BOOLEAN
        /\ UNCHANGED <<diskVars, hostVars, devVars, stateVars, shim, boot, op, worldVars,
                       boundVars, historyVars>>
    BY <1>23 DEF WatchdogEnds
  <2>2. TypeOK'
    BY <1>0, <2>1 DEF TypeOK
  <2> QED BY <1>0, <2>1, <2>2 DEF TypeInv, OpShape
<1>24. CASE WatchdogRound
  <2>1. desired \in Desired /\ LivePeers(desired).peers \in SUBSET Peers
    <3>1. desired \in Desired /\ LivePeers(desired) \in Desired
      BY <1>0, <1>24, LivePeersType DEF WatchdogRound, TypeOK
    <3> QED BY <3>1 DEF Desired
  <2>2. UNCHANGED <<diskVars, hostVars, desired, wan, generation, procVars, boot, op,
                    worldVars, hubLeft, crashesLeft, movesLeft, historyVars>>
    BY <1>24 DEF WatchdogRound
  <2>3. /\ watch' \in WatchType /\ lastError' \in BOOLEAN /\ faultsLeft' \in Nat
        /\ devPeers' \in SUBSET Peers /\ live' \in {"none", "kernel", "user", "sick"}
        /\ iface' \in {"none", "kernel", "tun"}
    BY <1>0, <1>24, <2>1, WatchdogType
  <2>4. TypeOK'
    BY <1>0, <2>2, <2>3 DEF TypeOK
  <2> QED BY <1>0, <2>2, <2>4 DEF TypeInv, OpShape
<1>25. CASE WorkerDies
  <2>1. TypeOK'
    BY <1>0, <1>25, InjectCosts DEF WorkerDies, TypeOK
  <2> QED BY <1>0, <1>25, <2>1 DEF WorkerDies, TypeInv, OpShape
<1>26. CASE IfaceVanishes
  <2>1. TypeOK'
    BY <1>0, <1>26, InjectCosts DEF IfaceVanishes, TypeOK
  <2> QED BY <1>0, <1>26, <2>1 DEF IfaceVanishes, TypeInv, OpShape
<1>27. CASE FailureAges
  <2>1. watch' \in WatchType
    BY <1>0, <1>27 DEF FailureAges, WatchType, TypeOK
  <2>2. TypeOK'
    BY <1>0, <1>27, <2>1 DEF FailureAges, TypeOK
  <2> QED BY <1>0, <1>27, <2>2 DEF FailureAges, TypeInv, OpShape
<1>28. ASSUME NEW p \in Peers, PassExpires(p) PROVE TypeInv'
  <2>1. TypeOK'
    BY <1>0, <1>28 DEF PassExpires, TypeOK
  <2> QED BY <1>0, <1>28, <2>1 DEF PassExpires, TypeInv, OpShape
<1>29. ASSUME NEW u \in Uplinks \cup {None}, UplinkMoves(u) PROVE TypeInv'
  <2>1. TypeOK'
    BY <1>0, <1>29 DEF UplinkMoves, TypeOK
  <2> QED BY <1>0, <1>29, <2>1 DEF UplinkMoves, TypeInv, OpShape
<1>30. CASE ProcessLost /\ (AgentRestarts \/ Reboots)
  <2>1. op' \in OpType /\ OpShape'
    BY <1>30, IdleShape DEF ProcessLost
  <2>2. BootStart \in BootType /\ FreshWatch \in WatchType
    BY DEF BootStart, BootType, FreshWatch, WatchType
  <2>3. /\ iface' \in {"none", "kernel", "tun"} /\ devPeers' \in SUBSET Peers
        /\ ipf' \in {0, 1} /\ agentOn' \in BOOLEAN
        /\ fw' \in Seq(RuleTags) /\ fwWan' \in Uplinks \cup {None}
        /\ fw' # <<>> => fwWan' \in Uplinks
        /\ stale' \in SUBSET RuleTags /\ amiss' \in SUBSET Mishaps
    <3>1. CASE AgentRestarts
      <4>1. amiss' \in SUBSET Mishaps
        BY <1>0, <3>1 DEF AgentRestarts, TypeOK, Mishaps
      <4> QED BY <1>0, <3>1, <4>1 DEF AgentRestarts, TypeOK
    <3>2. CASE Reboots
      <4>1. ipf' \in {0, 1}
        BY <3>2, ConfigAssumption DEF Reboots
      <4>2. fw' = <<>> /\ fw' \in Seq(RuleTags)
        BY <3>2 DEF Reboots
      <4> QED BY <3>2, <4>1, <4>2 DEF Reboots
    <3> QED BY <1>30, <3>1, <3>2
  <2>4. crashesLeft' \in Nat
    BY <1>0, <1>30 DEF ProcessLost, TypeOK
  <2>5. /\ desired' = None /\ wan' = None /\ generation' = 0 /\ lastError' = FALSE
        /\ watch' = FreshWatch
        /\ watching' = FALSE /\ dog' = FALSE /\ shim' = None /\ live' = "none"
        /\ boot' = BootStart
        /\ UNCHANGED <<diskVars, worldVars, hubLeft, faultsLeft, movesLeft, hubWord, bootRaced>>
    BY <1>30 DEF ProcessLost
  <2>6. TypeOK'
    BY <1>0, <2>1, <2>2, <2>3, <2>4, <2>5 DEF TypeOK
  <2> QED BY <2>1, <2>5, <2>6 DEF BootStart, TypeInv
<1>31. CASE UNCHANGED vars
  <2>1. TypeOK'
    BY <1>0, <1>31 DEF TypeOK
  <2> QED BY <1>0, <1>31, <2>1 DEF TypeInv, OpShape
<1> QED
  BY <1>1, <1>2, <1>3, <1>4, <1>5, <1>6, <1>7, <1>8, <1>9, <1>10, <1>11, <1>12, <1>13,
     <1>14, <1>15, <1>16, <1>17, <1>18, <1>19, <1>20, <1>21, <1>22, <1>23, <1>24, <1>25,
     <1>26, <1>27, <1>28, <1>29, <1>30, <1>31
     DEF Next, OpStep, BootStep, Environment, AgentRestarts, Reboots

\* TypeOK holds of every reachable state, whatever the passes, the uplinks, the
\* requests and the failures (struct State, the files under ~/.it-ai/vpn, the host).
THEOREM TypeCorrect == Spec => []TypeOK
<1>1. TypeInv => TypeOK
  BY DEF TypeInv
<1> QED BY <1>1, TypeInit, TypeStep, PTL DEF Spec
-----------------------------------------------------------------------------
\* Who touches what the watchdog's existence depends on.
LEMMA WatchersFrame ==
    ASSUME Next
    PROVE  \/ DisableBegin \/ TickerRound \/ Commit \/ WatchdogEnds \/ ProcessLost
           \/ /\ UNCHANGED <<desired, dog, watching>>
              /\ "unwatched" \in amiss => "unwatched" \in amiss'
<1>1. CASE OpStep
  BY <1>1 DEF OpStep, Checks, EnsureIface, FindWan, RecordForwarding, WriteRecord, DeleteRule,
              InsertRule, RulesIn, TurnForwardingOn, ReconcilePeers, CheckAndAnswer,
              RestoreForwarding, RemoveRecord, RemoveRules, DisableEnd, Return
<1>2. CASE BootStep \/ WatchdogRound \/ \E d \in HubConfigs : ApplyBegin(d)
  BY <1>2 DEF BootStep, BootReadGeneration, BootLoad, ResumeTurn, WatchdogRound, ApplyBegin
<1>3. CASE Environment
  BY <1>3 DEF Environment, WorkerDies, IfaceVanishes, FailureAges, PassExpires, UplinkMoves,
              AgentRestarts, Reboots
<1> QED BY <1>1, <1>2, <1>3 DEF Next

LEMMA WatchStep == TypeInv /\ WatchInv /\ [Next]_vars => WatchInv'
<1> SUFFICES ASSUME TypeInv, WatchInv, [Next]_vars PROVE WatchInv'
  OBVIOUS
<1> USE DEF WatchInv, EnabledIsWatched
<1>1. CASE DisableBegin
  BY <1>1 DEF DisableBegin
<1>2. CASE TickerRound
  BY <1>2 DEF TickerRound
<1>3. CASE Commit
  <2>1. /\ EnsureWatchdog
        /\ dog' \/ "unwatched" \in amiss'
    BY <1>3 DEF Commit
  <2>2. dog \in BOOLEAN /\ watching \in BOOLEAN
    BY DEF TypeInv, TypeOK
  <2>3. CASE dog' = (dog \/ ~watching) /\ watching' = TRUE
    <3>1. dog' = TRUE
      BY <2>2, <2>3
    <3> QED BY <2>1, <2>3, <3>1
  <2>4. CASE UNCHANGED <<dog, watching>>
    BY <2>1, <2>4
  <2> QED BY <2>1, <2>3, <2>4 DEF EnsureWatchdog
<1>4. CASE WatchdogEnds
  BY <1>4 DEF WatchdogEnds
<1>5. CASE ProcessLost
  BY <1>5 DEF ProcessLost
<1>6. CASE /\ UNCHANGED <<desired, dog, watching>>
           /\ "unwatched" \in amiss => "unwatched" \in amiss'
  BY <1>6
<1>7. CASE UNCHANGED vars
  BY <1>7
<1> QED BY <1>1, <1>2, <1>3, <1>4, <1>5, <1>6, <1>7, WatchersFrame

\* An enabled exit has a watchdog thread unless the last commit could not spawn it, and
\* WATCHING is up just when there is one, so that the next commit tries again
\* (ensure_watchdog, the failing spawn included, and the end of watchdog()).
THEOREM Watched == Spec => []EnabledIsWatched
<1>1. Init => WatchInv
  BY DEF Init, WatchInv, EnabledIsWatched
<1>2. WatchInv => EnabledIsWatched
  BY DEF WatchInv
<1> QED BY <1>1, <1>2, TypeInit, TypeStep, WatchStep, PTL DEF Spec
-----------------------------------------------------------------------------
\* Who touches ip_forward, its record or the holder of op().
LEMMA ForwardFrame ==
    ASSUME Next
    PROVE  \/ OpStep \/ DisableBegin \/ ResumeTurn \/ TickerRound
           \/ \E d \in HubConfigs : ApplyBegin(d)
           \/ AgentRestarts \/ Reboots
           \/ UNCHANGED <<ipf, record, agentOn, amiss, op>>
  BY DEF Next, BootStep, BootReadGeneration, BootLoad, WatchdogEnds, WatchdogRound, Environment,
         WorkerDies, IfaceVanishes, FailureAges, PassExpires, UplinkMoves

\* A holder of op() at none of these steps has nothing to do with forwarding.
LEMMA ForwardElsewhere ==
    ASSUME ForwardInv, UNCHANGED <<ipf, record, agentOn>>, Unrestorable => Unrestorable',
           ~At("write"), op'.step \notin {"write", "del", "ins", "forward", "unrecord"}
    PROVE  ForwardInv'
  BY DEF ForwardInv, ForwardingRestorable, At, Unrestorable

\* Nobody but restore_forwarding makes up for a record that is lost.
LEMMA UnrestorableStays ==
    ASSUME OpStep, ~RestoreForwarding
    PROVE  Unrestorable => Unrestorable'
  BY DEF OpStep, Checks, EnsureIface, FindWan, RecordForwarding, WriteRecord, DeleteRule,
         InsertRule, RulesIn, TurnForwardingOn, ReconcilePeers, Commit, CheckAndAnswer,
         RemoveRecord, RemoveRules, DisableEnd, Return, Unrestorable

LEMMA ForwardStep == TypeInv /\ ForwardInv /\ [Next]_vars => ForwardInv'
<1> SUFFICES ASSUME TypeInv, ForwardInv, [Next]_vars PROVE ForwardInv'
  OBVIOUS
<1>0. op \in OpType /\ OpShape /\ ipf \in {0, 1}
  BY DEF TypeInv, TypeOK
<1>1. CASE \E d \in HubConfigs : ApplyBegin(d)
  <2>1. /\ UNCHANGED <<ipf, record, agentOn>> /\ op'.step = "checks" /\ ~At("write")
        /\ Unrestorable => Unrestorable'
    BY <1>1 DEF ApplyBegin, Idle, Free, At, Unrestorable
  <2> QED BY <2>1, ForwardElsewhere
<1>2. CASE DisableBegin
  <2>1. /\ UNCHANGED <<ipf, record, agentOn>> /\ op'.step = "restore" /\ ~At("write")
        /\ Unrestorable => Unrestorable'
    BY <1>2 DEF DisableBegin, Idle, Free, At, Unrestorable
  <2> QED BY <2>1, ForwardElsewhere
<1>3. CASE ResumeTurn
  <2>1. UNCHANGED <<ipf, record, agentOn, amiss>> /\ ~At("write")
    BY <1>3 DEF ResumeTurn, Free, At
  <2>2. op' = op \/ op'.step = "checks"
    BY <1>3 DEF ResumeTurn, Idle
  <2> QED BY <2>1, <2>2, ForwardElsewhere DEF ForwardInv, ForwardingRestorable, At, Unrestorable
<1>4. CASE TickerRound
  <2>1. UNCHANGED <<ipf, record, agentOn, amiss>> /\ ~At("write")
    BY <1>4 DEF TickerRound, Free, At
  <2>2. op' = op \/ (op'.step = "del" /\ op'.who = "tick")
    BY <1>4 DEF TickerRound, Idle
  <2> QED BY <2>1, <2>2 DEF ForwardInv, ForwardingRestorable, At, Unrestorable
<1>5. CASE Checks \/ EnsureIface \/ FindWan
  <2>1. UNCHANGED <<ipf, record, agentOn>> /\ ~At("write")
    BY <1>5 DEF Checks, EnsureIface, FindWan, At
  <2>2. op'.step \in {"iface", "wan", "record", "idle"}
    <3>1. CASE Goto("iface") \/ Goto("wan")
      BY <1>0, <3>1, GotoIs DEF Steps
    <3>2. CASE op' = [op EXCEPT !.step = "record", !.wan = uplink]
      BY <1>0, <3>2 DEF OpType
    <3>3. CASE Return({})
      BY <3>3 DEF Return, Idle
    <3> QED BY <1>5, <3>1, <3>2, <3>3 DEF Checks, EnsureIface, FindWan
  <2> QED BY <1>5, <2>1, <2>2, ForwardElsewhere, UnrestorableStays DEF OpStep,
         Checks, EnsureIface, FindWan, RestoreForwarding, At
<1>6. CASE RecordForwarding
  <2>1. /\ UNCHANGED <<ipf, agentOn>> /\ At("record")
        /\ Unrestorable => Unrestorable'
    BY <1>6 DEF RecordForwarding, Return, Unrestorable
  <2>2. CASE op' = [op EXCEPT !.step = "write", !.keep = ForwardToRecord(ipf, record)]
    <3>1. op'.step = "write" /\ op'.keep = ForwardToRecord(ipf, record)
      BY <1>0, <2>2 DEF OpType
    <3>2. /\ ipf = 0 => op'.keep = 0
          /\ agentOn => op'.keep = 0 \/ Unrestorable
      BY <2>1, <3>1, ConfigAssumption DEF ForwardToRecord, ForwardInv, ForwardingRestorable, At, Unrestorable
    <3>3. op'.who # "nobody"
      BY <1>0, <2>1, <2>2 DEF OpType, At
    <3> QED BY <2>1, <3>1, <3>2, <3>3 DEF ForwardInv, ForwardingRestorable, At, Unrestorable
  <2>3. CASE UNCHANGED record /\ op' = Idle
    BY <2>1, <2>3, ForwardElsewhere DEF Idle, At
  <2> QED BY <1>6, <2>2, <2>3 DEF RecordForwarding, Return
<1>7. CASE WriteRecord
  <2>1. UNCHANGED <<ipf, agentOn>> /\ At("write")
    BY <1>7 DEF WriteRecord
  <2>2. CASE /\ op' = [op EXCEPT !.step = "del", !.isolate = ForwardToRestore(op.keep)]
             /\ record' = op.keep /\ UNCHANGED amiss
    <3>1. op'.step = "del" /\ (op'.isolate <=> op.keep = 0)
      BY <1>0, <2>2 DEF OpType, ForwardToRestore
    <3> QED BY <2>1, <2>2, <3>1 DEF ForwardInv, ForwardingRestorable, At, Unrestorable
  <2>3. CASE "torn" \in amiss' /\ op' = Idle
    BY <2>1, <2>3 DEF ForwardInv, ForwardingRestorable, Idle, At, Unrestorable
  <2> QED BY <1>7, <2>2, <2>3 DEF WriteRecord, Return
<1>8. CASE DeleteRule \/ InsertRule \/ RulesIn
  <2>1. /\ UNCHANGED <<ipf, record, agentOn>> /\ ~At("write")
        /\ op.step \in {"del", "ins"} /\ op.who # "nobody"
        /\ Unrestorable => Unrestorable'
    BY <1>8 DEF DeleteRule, InsertRule, RulesIn, At, Return, Unrestorable
  <2>2. CASE op' = Idle
    BY <2>1, <2>2, ForwardElsewhere DEF Idle
  <2>3. CASE op' # Idle
    <3>1. op'.who = op.who /\ (op'.isolate <=> op.isolate)
          /\ op'.step \in {"del", "ins", "forward"}
      <4>1. CASE DeleteRule
        BY <1>0, <2>1, <4>1, DeleteTaggedType DEF DeleteRule, At, TypeInv, Steps
      <4>2. CASE op' = op \/ Goto("forward")
        BY <1>0, <2>1, <4>2, GotoIs DEF Steps
      <4> QED BY <1>8, <2>3, <4>1, <4>2 DEF InsertRule, RulesIn, Return
    <3> QED BY <2>1, <3>1 DEF ForwardInv, ForwardingRestorable, At, Unrestorable
  <2> QED BY <2>2, <2>3
<1>9. CASE TurnForwardingOn
  <2>1. /\ \/ ipf' = 1 /\ (agentOn' <=> agentOn \/ ipf = 0)
           \/ UNCHANGED <<ipf, agentOn>>
        /\ UNCHANGED record /\ At("forward") /\ Goto("peers")
        /\ Unrestorable => Unrestorable'
    BY <1>9 DEF TurnForwardingOn, Unrestorable
  <2>2. op'.step = "peers"
    BY <1>0, <2>1, GotoIs DEF Steps
  <2>3. op.who \in {"apply", "resume"}
    BY <1>0, <2>1 DEF OpShape, OpType, At, DisableSteps
  <2> QED BY <2>1, <2>2, <2>3 DEF ForwardInv, ForwardingRestorable, At, Unrestorable
<1>10. CASE ReconcilePeers \/ Commit \/ CheckAndAnswer
  <2>1. /\ UNCHANGED <<ipf, record, agentOn>> /\ ~At("write")
        /\ Unrestorable => Unrestorable'
    BY <1>10 DEF ReconcilePeers, Commit, CheckAndAnswer, At, Unrestorable
  <2>2. op'.step \in {"commit", "check", "idle"}
    <3>1. CASE ReconcilePeers
      BY <1>0, <3>1 DEF ReconcilePeers, OpType
    <3>2. CASE Commit
      BY <1>0, <3>2, GotoIs DEF Commit, Steps
    <3>3. CASE CheckAndAnswer
      BY <3>3 DEF CheckAndAnswer, Idle
    <3> QED BY <1>10, <3>1, <3>2, <3>3
  <2> QED BY <2>1, <2>2, ForwardElsewhere
<1>11. CASE RestoreForwarding
  <2>1. At("restore") /\ Goto("unrecord") /\ UNCHANGED record
    BY <1>11 DEF RestoreForwarding
  <2>2. op'.step = "unrecord"
    BY <1>0, <2>1, GotoIs DEF Steps
  <2>3. \/ ipf' = 0 /\ agentOn' = FALSE
        \/ UNCHANGED <<ipf, agentOn>> /\ (agentOn => "stuck" \in amiss')
        \/ record # 0 /\ UNCHANGED <<ipf, agentOn, amiss>>
    BY <1>11 DEF RestoreForwarding, ForwardToRestore
  <2> QED BY <2>1, <2>2, <2>3 DEF ForwardInv, ForwardingRestorable, At, Unrestorable
<1>12. CASE RemoveRecord
  <2>1. At("unrecord") /\ Goto("unrule") /\ UNCHANGED <<ipf, agentOn, amiss>>
    BY <1>12 DEF RemoveRecord
  <2>2. op'.step = "unrule"
    BY <1>0, <2>1, GotoIs DEF Steps
  <2> QED BY <2>1, <2>2 DEF ForwardInv, ForwardingRestorable, At, Unrestorable
<1>13. CASE RemoveRules \/ DisableEnd
  <2>1. /\ UNCHANGED <<ipf, record, agentOn>> /\ ~At("write")
        /\ Unrestorable => Unrestorable'
    BY <1>13 DEF RemoveRules, DisableEnd, At, Unrestorable
  <2>2. op'.step \in {"unrule", "down", "idle"}
    <3>1. CASE RemoveRules
      BY <1>0, <3>1, DeleteTaggedType DEF RemoveRules, At, TypeInv, Steps
    <3> QED BY <1>13, <3>1 DEF DisableEnd, Idle
  <2> QED BY <2>1, <2>2, ForwardElsewhere
<1>14. CASE AgentRestarts \/ Reboots
  <2>1. op' = Idle /\ record' = record
    BY <1>14 DEF AgentRestarts, Reboots, ProcessLost
  <2>2. \/ /\ UNCHANGED <<ipf, agentOn>>
           /\ Unrestorable \/ At("write") => Unrestorable'
        \/ agentOn' = FALSE
    BY <1>14 DEF AgentRestarts, Reboots, Unrestorable
  <2> QED BY <2>1, <2>2 DEF ForwardInv, ForwardingRestorable, Idle, At, Unrestorable
<1>15. CASE UNCHANGED <<ipf, record, agentOn, amiss, op>>
  BY <1>15 DEF ForwardInv, ForwardingRestorable, At, Unrestorable
<1>16. CASE UNCHANGED vars
  BY <1>15, <1>16
<1> QED BY <1>1, <1>2, <1>3, <1>4, <1>5, <1>6, <1>7, <1>8, <1>9, <1>10, <1>11, <1>12, <1>13,
           <1>14, <1>15, <1>16, ForwardFrame DEF OpStep

\* Whenever forwarding is on because of the agent, its record says to turn it off
\* again, at every step of every operation and across crashes and reboots, unless a
\* write of the record was cut in the middle or a disable's write of 0 was refused
\* (record_forwarding, restore_forwarding, whose failing write the code ignores).
THEOREM Restorable == Spec => []ForwardingRestorable
<1>1. Init => ForwardInv
  BY DEF Init, ForwardInv, ForwardingRestorable, Idle, At
<1>2. ForwardInv => ForwardingRestorable
  BY DEF ForwardInv
<1> QED BY <1>1, <1>2, TypeInit, TypeStep, ForwardStep, PTL DEF Spec
-----------------------------------------------------------------------------
\* Leaving out passes that have run out, again and again, is leaving them out.
LEMMA PrunedSelf ==
    ASSUME NEW d \in Desired
    PROVE  Pruned(d, d) /\ Pruned(d, LivePeers(d))
  BY DEF Pruned, LivePeers, Desired

LEMMA PrunedTrans ==
    ASSUME NEW a \in Desired, NEW b \in Desired, NEW c \in Desired, Pruned(a, b), Pruned(b, c)
    PROVE  Pruned(a, c)
  BY DEF Pruned

LEMMA PrunedLater ==
    ASSUME NEW a, NEW b, Pruned(a, b), expired \subseteq expired'
    PROVE  b.id = a.id /\ b.peers \subseteq a.peers /\ a.peers \ b.peers \subseteq expired'
  BY DEF Pruned

\* A file that was read before other passes ran out, and what is left of it now.
LEMMA PrunedRace ==
    ASSUME NEW a \in Desired, NEW b \in Desired, Pruned(a, b)
    PROVE  Pruned(b, LivePeers(a))
  BY DEF Pruned, LivePeers, Desired

LEMMA HubWordPruned ==
    ASSUME NEW d \in Desired, NEW e \in Desired, hubWord \in Desired \cup {None},
           IsHubWord(d), Pruned(d, e)
    PROVE  IsHubWord(e)
<1>1. hubWord \in Desired /\ Pruned(hubWord, d)
  BY ConfigAssumption DEF IsHubWord, Pruned
<1>2. Pruned(hubWord, e)
  BY <1>1, PrunedTrans
<1> QED BY <1>1, <1>2, ConfigAssumption DEF IsHubWord, Pruned

\* Who touches the hub's word, what is kept of it, or the boot thread.
LEMMA HubFrame ==
    ASSUME Next
    PROVE  \/ OpStep \/ BootStep \/ DisableBegin \/ TickerRound
           \/ \E d \in HubConfigs : ApplyBegin(d)
           \/ \E p \in Peers : PassExpires(p)
           \/ ProcessLost
           \/ UNCHANGED <<hubWord, saved, desired, expired, bootRaced, generation, boot, op>>
  BY DEF Next, WatchdogEnds, WatchdogRound, Environment, WorkerDies, IfaceVanishes, FailureAges,
         UplinkMoves, AgentRestarts, Reboots

\* A step of the holder of op() before its commit, or of a disable or the ticker.
Plain == /\ UNCHANGED <<hubWord, saved, desired, expired, bootRaced, generation, boot>>
         /\ \/ op' = Idle
            \/ /\ op'.who = op.who /\ op'.d = op.d
               /\ op.step \notin {"commit", "check"} /\ op'.step \notin {"commit", "check"}

LEMMA OpStepFrame ==
    ASSUME TypeInv, OpStep
    PROVE  Plain \/ ReconcilePeers \/ Commit \/ CheckAndAnswer
<1>0. op \in OpType
  BY DEF TypeInv, TypeOK
<1>1. ASSUME NEW step \in Steps \ {"commit", "check"}, Goto(step),
             op.step \notin {"commit", "check"}
      PROVE  op'.who = op.who /\ op'.d = op.d /\ op'.step \notin {"commit", "check"}
  BY <1>0, <1>1, GotoIs
<1>2. CASE Checks \/ EnsureIface
  <2>1. /\ Return({}) \/ Goto("iface") \/ Goto("wan")
        /\ op.step \in {"checks", "iface"}
        /\ UNCHANGED <<hubWord, saved, desired, expired, bootRaced, generation, boot>>
    BY <1>2 DEF Checks, EnsureIface, At
  <2> QED BY <2>1, <1>1 DEF Plain, Return, Steps
<1>3. CASE FindWan \/ RecordForwarding \/ WriteRecord
  <2>1. /\ op.step \in {"wan", "record", "write"}
        /\ UNCHANGED <<hubWord, saved, desired, expired, bootRaced, generation, boot>>
    BY <1>3 DEF FindWan, RecordForwarding, WriteRecord, At
  <2>2. \/ op' = Idle
        \/ op' = [op EXCEPT !.step = "record", !.wan = uplink]
        \/ op' = [op EXCEPT !.step = "write", !.keep = ForwardToRecord(ipf, record)]
        \/ op' = [op EXCEPT !.step = "del", !.isolate = ForwardToRestore(op.keep)]
    BY <1>3 DEF FindWan, RecordForwarding, WriteRecord, Return
  <2> QED BY <1>0, <2>1, <2>2 DEF Plain, OpType
<1>4. CASE DeleteRule \/ RemoveRules
  <2>1. /\ op.step \in {"del", "unrule"}
        /\ UNCHANGED <<hubWord, saved, desired, expired, bootRaced, generation, boot>>
    BY <1>4 DEF DeleteRule, RemoveRules, At
  <2>2. op'.who = op.who /\ op'.d = op.d /\ op'.step \in {"del", "ins", "unrule", "down"}
    BY <1>4, <2>1, DeleteTaggedType DEF DeleteRule, RemoveRules, TypeInv, Steps
  <2> QED BY <2>1, <2>2 DEF Plain
<1>5. CASE TurnForwardingOn \/ RestoreForwarding \/ RemoveRecord
  <2>1. /\ Goto("peers") \/ Goto("unrecord") \/ Goto("unrule")
        /\ op.step \in {"forward", "restore", "unrecord"}
        /\ UNCHANGED <<hubWord, saved, desired, expired, bootRaced, generation, boot>>
    BY <1>5 DEF TurnForwardingOn, RestoreForwarding, RemoveRecord, At
  <2> QED BY <2>1, <1>1 DEF Plain, Steps
<1>6. CASE InsertRule \/ RulesIn \/ DisableEnd
  <2>1. /\ op' = op \/ op' = Idle \/ Goto("forward")
        /\ op.step \in {"ins", "down"}
        /\ UNCHANGED <<hubWord, saved, desired, expired, bootRaced, generation, boot>>
    BY <1>6 DEF InsertRule, RulesIn, DisableEnd, At, Return
  <2> QED BY <2>1, <1>1 DEF Plain, Steps
<1> QED BY <1>2, <1>3, <1>4, <1>5, <1>6 DEF OpStep

LEMMA HubStep == TypeInv /\ HubInv /\ [Next]_vars => HubInv'
<1> SUFFICES ASSUME TypeInv, HubInv, [Next]_vars PROVE HubInv'
  OBVIOUS
<1>0. /\ op \in OpType /\ OpShape /\ boot \in BootType /\ generation \in Nat
      /\ saved \in Desired \cup {None} /\ desired \in Desired \cup {None}
      /\ hubWord \in Desired \cup {None} /\ (boot.step = "resume" => boot.d \in Desired)
      /\ None \notin Desired
  BY ConfigAssumption DEF TypeInv, TypeOK
<1> USE DEF HubHasLastWordUnlessRaced, HubHasLastWord, DisabledStaysDisabled
<1>1. CASE \E d \in HubConfigs : ApplyBegin(d)
  <2>1. /\ generation' = generation + 1 /\ op'.who = "apply"
        /\ UNCHANGED <<hubWord, saved, desired, expired, bootRaced, boot>>
    BY <1>1 DEF ApplyBegin, Idle
  <2>2. boot'.gen < generation'
    BY <1>0, <2>1 DEF BootType, HubInv
  <2> QED BY <1>0, <2>1, <2>2 DEF HubInv, IsHubWord, IsCurrent, Pruned, BootType
<1>2. CASE DisableBegin
  <2>1. /\ generation' = generation + 1 /\ op'.who = "disable"
        /\ hubWord' = None /\ saved' = None /\ desired' = None
        /\ UNCHANGED <<expired, bootRaced, boot>>
    BY <1>2 DEF DisableBegin, Idle
  <2>2. boot'.gen < generation'
    BY <1>0, <2>1 DEF BootType, HubInv
  <2> QED BY <1>0, <2>1, <2>2 DEF HubInv, IsHubWord, IsCurrent, Pruned, BootType
<1>3. CASE BootReadGeneration
  <2>1. /\ boot'.step = "load" /\ boot'.gen = generation
        /\ (bootRaced' <=> bootRaced \/ ApplyUnsaved) /\ op.who # "resume"
        /\ UNCHANGED <<hubWord, saved, desired, expired, generation, op>>
    BY <1>0, <1>3 DEF BootReadGeneration, BootType, HubInv
  <2> QED BY <1>0, <2>1 DEF HubInv, IsHubWord, IsCurrent, ApplyUnsaved
<1>4. CASE BootLoad
  <2>1. /\ boot'.gen = boot.gen /\ op.who # "resume"
        /\ boot'.step = "tick" \/ (boot'.step = "resume" /\ boot'.d = saved /\ saved # None)
        /\ UNCHANGED <<hubWord, saved, desired, expired, bootRaced, generation, op>>
    BY <1>0, <1>4 DEF BootLoad, BootType, HubInv
  <2>2. boot.step = "load"
    BY <1>4 DEF BootLoad
  <2> QED BY <1>0, <2>1, <2>2, PrunedSelf
          DEF HubInv, IsHubWord, IsCurrent, ApplyUnsaved, Pruned
<1>5. CASE ResumeTurn
  <2>1. /\ boot.step = "resume" /\ op.who = "nobody"
        /\ UNCHANGED <<hubWord, saved, desired, expired, bootRaced, generation>>
    BY <1>5 DEF ResumeTurn, Free
  <2>2. CASE boot'.step = "tick" /\ boot'.gen = boot.gen /\ op' = op
    BY <1>0, <2>1, <2>2 DEF HubInv, IsHubWord, IsCurrent, ApplyUnsaved
  <2>3. CASE /\ IsCurrent(boot.gen) /\ boot' = boot
             /\ op'.who = "resume" /\ op'.step = "checks" /\ op'.d = boot.d
    BY <1>0, <2>1, <2>3 DEF HubInv, IsHubWord, IsCurrent, ApplyUnsaved, Pruned
  <2> QED BY <1>0, <1>5, <2>2, <2>3 DEF ResumeTurn, BootType, Idle
<1>6. CASE TickerRound
  <2>1. /\ boot.step = "tick" /\ op.who = "nobody" /\ desired # None
        /\ op' = op \/ op'.who = "tick"
        /\ UNCHANGED <<hubWord, expired, bootRaced, generation, boot>>
    BY <1>6 DEF TickerRound, Free, Idle
  <2>2. CASE UNCHANGED <<saved, desired>>
    BY <1>0, <2>1, <2>2 DEF HubInv, IsHubWord, IsCurrent, ApplyUnsaved
  <2>3. CASE saved' = LivePeers(desired) /\ desired' = LivePeers(desired)
    <3>1. desired \in Desired /\ LivePeers(desired) \in Desired
      BY <1>0, <2>1, LivePeersType
    <3>2. ~bootRaced => IsHubWord(LivePeers(desired))
      BY <1>0, <2>1, <3>1, PrunedSelf, HubWordPruned DEF HubInv
    <3>3. hubWord # None
      BY <2>1 DEF HubInv
    <3> QED BY <1>0, <2>1, <2>3, <3>1, <3>2, <3>3
            DEF HubInv, IsHubWord, IsCurrent, ApplyUnsaved
  <2> QED BY <1>6, <2>2, <2>3 DEF TickerRound
<1>7. CASE Plain
  BY <1>0, <1>7 DEF Plain, HubInv, IsHubWord, IsCurrent, ApplyUnsaved, Pruned, Idle
<1>8. CASE ReconcilePeers
  <2>1. /\ op'.who = op.who /\ op'.step = "commit" /\ op'.d = LivePeers(op.d)
        /\ op.step = "peers" /\ op.d \in Desired
        /\ UNCHANGED <<hubWord, saved, desired, expired, bootRaced, generation, boot>>
    BY <1>0, <1>8 DEF ReconcilePeers, At, OpType, OpShape, DisableSteps
  <2>2. CASE op.who = "resume" /\ ~bootRaced
    <3>1. /\ boot.d \in Desired /\ saved \in Desired
          /\ Pruned(boot.d, saved) /\ op.d = boot.d
      BY <1>0, <2>1, <2>2 DEF HubInv, IsHubWord
    <3>2. Pruned(saved, LivePeers(op.d))
      BY <3>1, PrunedRace
    <3> QED BY <1>0, <2>1, <2>2, <3>2
            DEF HubInv, IsHubWord, IsCurrent, ApplyUnsaved, Pruned
  <2>3. CASE op.who # "resume" \/ bootRaced
    BY <1>0, <2>1, <2>3 DEF HubInv, IsHubWord, IsCurrent, ApplyUnsaved, Pruned
  <2> QED BY <2>2, <2>3
<1>9. CASE Commit
  <2>1. /\ op'.who = op.who /\ op'.step = "check" /\ op.step = "commit"
        /\ op.d \in Desired /\ op.who \in {"apply", "resume"}
        /\ saved' = op.d /\ desired' = op.d
        /\ hubWord' = IF op.who = "apply" THEN op.d ELSE hubWord
        /\ UNCHANGED <<expired, bootRaced, generation, boot>>
    BY <1>0, <1>9, GotoIs DEF Commit, At, OpType, OpShape, DisableSteps, Steps
  <2>2. CASE op.who = "apply"
    <3>1. Pruned(op.d, op.d)
      BY <2>1, PrunedSelf
    <3> QED BY <1>0, <2>1, <2>2, <3>1 DEF HubInv, IsHubWord, IsCurrent, ApplyUnsaved, Pruned
  <2>3. CASE op.who = "resume" /\ ~bootRaced
    <3>1. /\ saved \in Desired /\ Pruned(saved, op.d) /\ IsHubWord(saved)
          /\ boot.d \in Desired /\ Pruned(boot.d, saved) /\ hubWord # None
      BY <1>0, <2>1, <2>3 DEF HubInv, IsHubWord
    <3>2. IsHubWord(op.d) /\ Pruned(boot.d, op.d)
      BY <1>0, <2>1, <3>1, HubWordPruned, PrunedTrans
    <3> QED BY <1>0, <2>1, <2>3, <3>1, <3>2
            DEF HubInv, IsHubWord, IsCurrent, ApplyUnsaved, Pruned
  <2>4. CASE op.who = "resume" /\ bootRaced
    BY <1>0, <2>1, <2>4 DEF HubInv, IsHubWord, IsCurrent, ApplyUnsaved, Pruned
  <2> QED BY <2>1, <2>2, <2>3, <2>4
<1>10. CASE CheckAndAnswer
  <2>1. /\ op'.who = "nobody" /\ op.step = "check"
        /\ boot' = boot \/ (boot'.step = "tick" /\ boot'.gen = boot.gen)
        /\ UNCHANGED <<hubWord, saved, desired, expired, bootRaced, generation>>
    BY <1>0, <1>10 DEF CheckAndAnswer, At, Idle, BootType
  <2> QED BY <1>0, <2>1 DEF HubInv, IsHubWord, IsCurrent, ApplyUnsaved, Pruned
<1>11. CASE \E p \in Peers : PassExpires(p)
  <2>1. /\ expired \subseteq expired'
        /\ UNCHANGED <<hubWord, saved, desired, bootRaced, generation, boot, op>>
    BY <1>11 DEF PassExpires
  <2> QED BY <1>0, <2>1 DEF HubInv, IsHubWord, IsCurrent, ApplyUnsaved, Pruned
<1>12. CASE ProcessLost
  <2>1. /\ desired' = None /\ op'.who = "nobody" /\ boot'.step = "gen" /\ boot'.gen = 0
        /\ generation' = 0
        /\ UNCHANGED <<hubWord, saved, expired, bootRaced>>
    BY <1>12 DEF ProcessLost, Idle, BootStart
  <2> QED BY <1>0, <2>1 DEF HubInv, IsHubWord, IsCurrent, ApplyUnsaved, Pruned
<1>13. CASE UNCHANGED <<hubWord, saved, desired, expired, bootRaced, generation, boot, op>>
  BY <1>13 DEF HubInv, IsHubWord, IsCurrent, ApplyUnsaved, Pruned
<1> QED BY <1>1, <1>2, <1>3, <1>4, <1>5, <1>6, <1>7, <1>8, <1>9, <1>10, <1>11, <1>12, <1>13,
           HubFrame, OpStepFrame DEF BootStep

LEMMA HubInit == Init => HubInv
  BY DEF Init, HubInv, HubHasLastWordUnlessRaced, HubHasLastWord, DisabledStaysDisabled,
         IsHubWord, BootStart, Idle, ApplyUnsaved

\* What is saved and what is acted on is what the hub last applied or disabled, less
\* expired passes, whatever resume, ticker or watchdog were in flight, as long as no
\* boot read the generation of an apply that had not saved yet (start, resume).
THEOREM LastWord == Spec => []HubHasLastWordUnlessRaced
<1>1. HubInv => HubHasLastWordUnlessRaced
  BY DEF HubInv
<1> QED BY <1>1, HubInit, TypeInit, TypeStep, HubStep, PTL DEF Spec

\* After a disable nothing is saved and nothing acted on until the next apply, not
\* even when the boot thread raced an apply (disable_ep, resume, ticker).
THEOREM StaysDisabled == Spec => []DisabledStaysDisabled
<1>1. HubInv => DisabledStaysDisabled
  BY DEF HubInv
<1> QED BY <1>1, HubInit, TypeInit, TypeStep, HubStep, PTL DEF Spec
-----------------------------------------------------------------------------
\* What is left of a word is the word less some passes that have run out.
LEMMA PrunedAdopted ==
    ASSUME NEW d \in Desired, NEW e \in Desired, Pruned(d, e)
    PROVE  \E gone \in SUBSET expired : e = Intent!Less(d, gone)
<1>1. d.peers \ e.peers \in SUBSET expired
  BY DEF Pruned
<1>2. Intent!Less(d, d.peers \ e.peers) = e
  BY DEF Intent!Less, Desired, Pruned
<1> QED BY <1>1, <1>2

\* Each step of the exit is a step of its abstract specification, or leaves what
\* that specification speaks of alone.
LEMMA IntentStep ==
    ASSUME TypeInv, HubInv, [Next]_vars
    PROVE  [Intent!Next]_(Intent!intentVars)
<1>0. /\ op \in OpType /\ OpShape /\ saved \in Desired \cup {None}
      /\ desired \in Desired \cup {None} /\ hubWord \in Desired \cup {None}
      /\ None \notin Desired
  BY ConfigAssumption DEF TypeInv, TypeOK
<1>1. CASE DisableBegin
  <2>1. Intent!Revoke
    BY <1>1 DEF DisableBegin, Intent!Revoke
  <2> QED BY <2>1 DEF Intent!Next
<1>2. CASE TickerRound
  <2>1. desired # None /\ UNCHANGED <<hubWord, expired, bootRaced>>
    BY <1>2 DEF TickerRound
  <2>2. CASE UNCHANGED <<saved, desired>>
    BY <2>1, <2>2 DEF Intent!intentVars
  <2>3. CASE saved' = LivePeers(desired) /\ desired' = LivePeers(desired)
    <3>1. \E gone \in SUBSET expired : LivePeers(desired) = Intent!Less(desired, gone)
      BY <1>0, <2>1, LivePeersType, PrunedSelf, PrunedAdopted
    <3>2. Intent!Prune
      BY <2>1, <2>3, <3>1 DEF Intent!Prune, Intent!Adopt
    <3> QED BY <3>2 DEF Intent!Next
  <2> QED BY <1>2, <2>2, <2>3 DEF TickerRound
<1>3. CASE BootReadGeneration
  <2>1. /\ bootRaced' = bootRaced \/ bootRaced' = TRUE
        /\ UNCHANGED <<hubWord, saved, desired, expired>>
    <3>1. bootRaced \in BOOLEAN
      BY DEF TypeInv, TypeOK
    <3>2. /\ bootRaced' = (bootRaced \/ ApplyUnsaved)
          /\ UNCHANGED <<hubWord, saved, desired, expired>>
      BY <1>3 DEF BootReadGeneration
    <3> QED BY <3>1, <3>2
  <2> QED BY <2>1 DEF Intent!Next, Intent!LoseRace, Intent!intentVars
<1>4. CASE Commit
  <2>1. /\ op.step = "commit" /\ op.d \in Desired /\ op.who \in {"apply", "resume"}
        /\ saved' = op.d /\ desired' = op.d
        /\ hubWord' = IF op.who = "apply" THEN op.d ELSE hubWord
        /\ UNCHANGED <<expired, bootRaced>>
    BY <1>0, <1>4 DEF Commit, At, OpType, OpShape, DisableSteps
  <2>2. \E gone \in SUBSET expired : op.d = Intent!Less(op.d, gone)
    BY <2>1, PrunedSelf, PrunedAdopted
  <2>3. Intent!Adopt(op.d)
    BY <2>1, <2>2 DEF Intent!Adopt
  <2>4. CASE op.who = "apply"
    <3>1. Intent!Accept
      BY <2>1, <2>3, <2>4 DEF Intent!Accept, Intent!Desired, Desired
    <3> QED BY <3>1 DEF Intent!Next
  <2>5. CASE op.who = "resume" /\ bootRaced
    <3>1. Intent!Relapse
      BY <2>1, <2>3, <2>5 DEF Intent!Relapse, Intent!Desired, Desired
    <3> QED BY <3>1 DEF Intent!Next
  <2>6. CASE op.who = "resume" /\ ~bootRaced
    <3>1. saved \in Desired /\ Pruned(saved, op.d)
      BY <1>0, <2>1, <2>6 DEF HubInv, HubHasLastWordUnlessRaced, HubHasLastWord, IsHubWord
    <3>2. \E gone \in SUBSET expired : op.d = Intent!Less(saved, gone)
      BY <2>1, <3>1, PrunedAdopted
    <3>3. Intent!Restore
      BY <1>0, <2>1, <2>6, <3>1, <3>2 DEF Intent!Restore, Intent!Adopt
    <3> QED BY <3>3 DEF Intent!Next
  <2> QED BY <2>1, <2>4, <2>5, <2>6
<1>5. ASSUME NEW p \in Peers, PassExpires(p) PROVE Intent!Next
  BY <1>5 DEF PassExpires, Intent!Next, Intent!Lapse
<1>6. CASE ProcessLost
  <2>1. Intent!Crash
    BY <1>6 DEF ProcessLost, Intent!Crash
  <2> QED BY <2>1 DEF Intent!Next
<1>7. CASE \/ Plain \/ ReconcilePeers \/ CheckAndAnswer \/ BootLoad \/ ResumeTurn
           \/ \E d \in HubConfigs : ApplyBegin(d)
           \/ UNCHANGED <<hubWord, saved, desired, expired, bootRaced>>
  BY <1>7 DEF Plain, ReconcilePeers, CheckAndAnswer, BootLoad, ResumeTurn, ApplyBegin,
              Intent!intentVars
<1> QED BY <1>1, <1>2, <1>3, <1>4, <1>5, <1>6, <1>7, HubFrame, OpStepFrame DEF BootStep

\* The exit, step by step, implements the promise of ExitIntent: what is kept and
\* acted on is the hub's word less expired passes, a crash forgets only what is acted
\* on, and only a boot that raced an apply brings an older word back.
THEOREM Refines == Spec => ImplementsIntent
<1>1. Init => Intent!Init
  BY DEF Init, Intent!Init
<1>2. TypeInv /\ HubInv /\ [Next]_vars => [Intent!Next]_(Intent!intentVars)
  BY IntentStep
<1> QED BY <1>1, <1>2, HubInit, HubStep, TypeInit, TypeStep, PTL
        DEF Spec, ImplementsIntent, Intent!Spec
-----------------------------------------------------------------------------
(* The device.                                                              *)

LEMMA NeverExpired ==
    ASSUME NEW d \in Desired
    PROVE  LivePeers(d).peers \cap expired = {}
  BY DEF LivePeers, Desired

\* The actions that change the device.
LEMMA DeviceSteps ==
    ASSUME [Next]_vars
    PROVE  \/ EnsureIface \/ ReconcilePeers \/ DisableEnd \/ TickerRound \/ WatchdogRound
           \/ WorkerDies \/ IfaceVanishes \/ AgentRestarts \/ Reboots
           \/ UNCHANGED devVars
<1>1. CASE OpStep
  BY <1>1 DEF OpStep, Checks, FindWan, RecordForwarding, WriteRecord, DeleteRule, InsertRule,
              RulesIn, TurnForwardingOn, Commit, CheckAndAnswer, RestoreForwarding,
              RemoveRecord, RemoveRules
<1>2. CASE \/ \E d \in HubConfigs : ApplyBegin(d)
           \/ DisableBegin \/ BootStep \/ WatchdogEnds \/ UNCHANGED vars
  BY <1>2 DEF ApplyBegin, DisableBegin, BootStep, BootReadGeneration, BootLoad, ResumeTurn,
              WatchdogEnds
<1>3. CASE Environment
  BY <1>3 DEF Environment, FailureAges, PassExpires, UplinkMoves
<1> QED BY <1>1, <1>2, <1>3 DEF Next

\* Reconciling adds wanted passes only.
LEMMA ReconcileAdds ==
    ASSUME NEW want, ReconcileOk(want) \/ ReconcileKept(want) \/ ReconcileErr(want)
    PROVE  devPeers' \subseteq devPeers \cup want
  BY DEF ReconcileOk, ReconcileKept, ReconcileErr

LEMMA EnsureIfaceAdds ==
    ASSUME NEW kind, EnsureIfaceOk(kind) \/ EnsureIfaceErr(kind)
    PROVE  devPeers' \subseteq devPeers
  BY DEF EnsureIfaceOk, EnsureIfaceErr, BringUp, IfaceDown

\* No thread ever puts a pass that has run out on the device (live_peers in
\* apply_desired, rebuild and expiry_plan).
THEOREM NeverAdded == Spec => ExpiredNeverAdded
<1>1. ASSUME TypeInv, [Next]_vars, NEW p \in Peers, p \in expired, p \in devPeers'
      PROVE  p \in devPeers
  <2>0. TypeOK /\ OpShape
    BY <1>1 DEF TypeInv
  <2>1. CASE EnsureIface
    BY <1>1, <2>1, EnsureIfaceAdds DEF EnsureIface
  <2>2. CASE ReconcilePeers
    <3>1. op.d \in Desired
      BY <2>0, <2>2 DEF ReconcilePeers, At, OpShape, TypeOK, OpType, DisableSteps
    <3> QED BY <1>1, <2>2, <3>1, NeverExpired, ReconcileAdds DEF ReconcilePeers
  <2>3. CASE TickerRound
    <3>1. desired \in Desired
      BY <2>0, <2>3 DEF TickerRound, TypeOK
    <3> QED BY <1>1, <2>3, <3>1, NeverExpired, ReconcileAdds DEF TickerRound
  <2>4. CASE WatchdogRound
    <3>1. desired \in Desired
      BY <2>0, <2>4 DEF WatchdogRound, TypeOK
    <3> DEFINE want == LivePeers(desired).peers
    <3>2. devPeers' \subseteq devPeers \cup want
      BY <2>4 DEF WatchdogRound, RebuildOk, RebuildErr, BringUp, IfaceDown
    <3> QED BY <1>1, <3>1, <3>2, NeverExpired
  <2>5. CASE \/ DisableEnd \/ WorkerDies \/ IfaceVanishes \/ AgentRestarts \/ Reboots
             \/ UNCHANGED devVars
    BY <1>1, <2>5 DEF DisableEnd, IfaceDown, LinkStays, WorkerDies, IfaceVanishes,
                      AgentRestarts, Reboots
  <2> QED BY <1>1, <2>1, <2>2, <2>3, <2>4, <2>5, DeviceSteps
<1>2. TypeInv /\ [Next]_vars =>
          [\A p \in Peers : p \in expired /\ p \in devPeers' => p \in devPeers]_vars
  BY <1>1
<1> QED BY <1>2, TypeInit, TypeStep, PTL DEF Spec, ExpiredNeverAdded

\* After giving up, only an apply or the resume of a new process brings a device up.
THEOREM StaysDown == Spec => FailedStaysDown
<1>1. ASSUME TypeInv, [Next]_vars, watch.health = "failed", live = "none", live' # "none"
      PROVE  op.who \in {"apply", "resume"}
  <2>0. TypeOK /\ OpShape
    BY <1>1 DEF TypeInv
  <2>1. CASE EnsureIface
    BY <2>0, <2>1 DEF EnsureIface, At, OpShape, TypeOK, OpType, DisableSteps
  <2>2. CASE WatchdogRound
    <3>1. DropStale(watch).health = "failed"
      BY <1>1, <2>0 DEF DropStale, TypeOK, WatchType
    <3>2. UNCHANGED devVars
      BY <2>2, <3>1 DEF WatchdogRound, Rebuilds, Watches
    <3> QED BY <1>1, <3>2
  <2>3. CASE \/ ReconcilePeers \/ TickerRound \/ DisableEnd \/ WorkerDies \/ IfaceVanishes
             \/ AgentRestarts \/ Reboots \/ UNCHANGED devVars
    BY <1>1, <2>3 DEF ReconcilePeers, TickerRound, DisableEnd, IfaceDown, LinkStays, StopDevice,
                      WorkerDies, IfaceVanishes, AgentRestarts, Reboots, ProcessLost
  <2> QED BY <1>1, <2>1, <2>2, <2>3, DeviceSteps
<1>2. TypeInv /\ [Next]_vars =>
          [watch.health = "failed" /\ live = "none" /\ live' # "none"
             => op.who \in {"apply", "resume"}]_vars
  BY <1>1
<1> QED BY <1>2, TypeInit, TypeStep, PTL DEF Spec, FailedStaysDown
-----------------------------------------------------------------------------
\* Who touches the rules, the record or what a disable clears.
LEMMA PlanFrame ==
    ASSUME Next
    PROVE  \/ OpStep \/ DisableBegin \/ ResumeTurn \/ TickerRound
           \/ \E d \in HubConfigs : ApplyBegin(d)
           \/ AgentRestarts \/ Reboots
           \/ UNCHANGED <<hostVars, record, saved, shim, desired, wan, amiss, op>>
  BY DEF Next, BootStep, BootReadGeneration, BootLoad, WatchdogEnds, WatchdogRound, Environment,
         WorkerDies, IfaceVanishes, FailureAges, PassExpires, UplinkMoves

\* A holder of op() that has not come to the rules yet.
LEMMA PlanElsewhere ==
    ASSUME op'.step \notin {"del", "ins", "write"} \cup Committing, op'.who # "disable"
    PROVE  PlanInv'
  BY DEF PlanInv

LEMMA PlanStep == TypeInv /\ PlanInv /\ [Next]_vars => PlanInv'
<1> SUFFICES ASSUME TypeInv, PlanInv, [Next]_vars PROVE PlanInv'
  OBVIOUS
<1>0. op \in OpType /\ OpShape /\ fw \in Seq(RuleTags)
  BY DEF TypeInv, TypeOK
<1>1. CASE \E d \in HubConfigs : ApplyBegin(d)
  <2>1. op'.step = "checks" /\ op'.who = "apply"
    BY <1>1 DEF ApplyBegin, Idle
  <2> QED BY <2>1, PlanElsewhere DEF Committing
<1>2. CASE DisableBegin
  <2>1. /\ op'.step = "restore" /\ op'.who = "disable"
        /\ saved' = None /\ desired' = None /\ shim' = None
    BY <1>2 DEF DisableBegin, Idle
  <2> QED BY <2>1 DEF PlanInv, Committing
<1>3. CASE ResumeTurn
  <2>1. op = Idle /\ (op' = op \/ (op'.step = "checks" /\ op'.who = "resume"))
    BY <1>0, <1>3 DEF ResumeTurn, Free, OpShape, Idle
  <2>2. op'.step \in {"idle", "checks"} /\ op'.who # "disable"
    BY <2>1 DEF Idle
  <2> QED BY <2>2, PlanElsewhere DEF Committing
<1>4. CASE TickerRound
  <2>1. op = Idle /\ UNCHANGED record
    BY <1>0, <1>4 DEF TickerRound, Free, OpShape
  <2>2. \/ op' = op
        \/ op'.step = "del" /\ op'.who = "tick" /\ (op'.isolate <=> record = 0)
    BY <1>4 DEF TickerRound, Idle, ForwardToRestore
  <2>3. CASE op' = op
    BY <2>1, <2>3, PlanElsewhere DEF Committing, Idle
  <2> QED BY <2>1, <2>2, <2>3 DEF PlanInv, Committing
<1>5. CASE Checks \/ EnsureIface \/ FindWan
  <2>1. op.who \in {"apply", "resume"}
    BY <1>0, <1>5 DEF Checks, EnsureIface, FindWan, At, OpShape, OpType, DisableSteps
  <2>2. op'.step \in {"iface", "wan", "record", "idle"} /\ op'.who # "disable"
    <3>1. CASE Goto("iface") \/ Goto("wan")
      BY <1>0, <2>1, <3>1, GotoIs DEF Steps
    <3>2. CASE op' = [op EXCEPT !.step = "record", !.wan = uplink]
      BY <1>0, <2>1, <3>2 DEF OpType
    <3>3. CASE Return({})
      BY <3>3 DEF Return, Idle
    <3> QED BY <1>5, <3>1, <3>2, <3>3 DEF Checks, EnsureIface, FindWan
  <2> QED BY <2>2, PlanElsewhere DEF Committing
<1>6. CASE RecordForwarding
  <2>1. op.who \in {"apply", "resume"}
    BY <1>0, <1>6 DEF RecordForwarding, At, OpShape, OpType, DisableSteps
  <2>2. CASE /\ record' = Torn
             /\ op' = [op EXCEPT !.step = "write", !.keep = ForwardToRecord(ipf, record)]
    <3>1. op'.step = "write" /\ op'.who = op.who
      BY <1>0, <2>2 DEF OpType
    <3> QED BY <2>1, <2>2, <3>1 DEF PlanInv, Committing
  <2>3. CASE op' = Idle
    BY <2>3, PlanElsewhere DEF Idle, Committing
  <2> QED BY <1>6, <2>2, <2>3 DEF RecordForwarding, Return
<1>7. CASE WriteRecord
  <2>1. op.who \in {"apply", "resume"}
    BY <1>0, <1>7 DEF WriteRecord, At, OpShape, OpType, DisableSteps
  <2>2. CASE /\ record' = op.keep
             /\ op' = [op EXCEPT !.step = "del", !.isolate = ForwardToRestore(op.keep)]
    <3>1. op'.step = "del" /\ op'.who = op.who /\ (op'.isolate <=> op.keep = 0)
      BY <1>0, <2>2 DEF OpType, ForwardToRestore
    <3> QED BY <2>1, <2>2, <3>1 DEF PlanInv, Committing
  <2>3. CASE op' = Idle
    BY <2>3, PlanElsewhere DEF Idle, Committing
  <2> QED BY <1>7, <2>2, <2>3 DEF WriteRecord, Return
<1>8. CASE DeleteRule
  <2>1. op.step = "del" /\ op.who # "disable" /\ UNCHANGED record
    BY <1>0, <1>8 DEF DeleteRule, At, OpShape, DisableSteps
  <2>2. /\ op'.who = op.who /\ op'.isolate = op.isolate /\ op' \in OpType
        /\ op'.step = "del" \/ (op'.step = "ins" /\ fw' = <<>>)
    BY <1>8, <2>1, DeleteTaggedType DEF DeleteRule, TypeInv, Steps
  <2>3. CASE op'.step = "del"
    BY <2>1, <2>2, <2>3 DEF PlanInv, Committing
  <2>4. CASE op'.step = "ins" /\ fw' = <<>>
    <3>1. Len(fw') = 0 /\ Len(Rules(op'.isolate)) \in {4, 5}
      BY <2>2, <2>4, RulesType DEF OpType
    <3> QED BY <2>1, <2>2, <2>4, <3>1 DEF PlanInv, Committing
  <2> QED BY <2>2, <2>3, <2>4
<1>9. CASE InsertRule
  <2>1. op.step = "ins" /\ op.who # "disable" /\ UNCHANGED record
    BY <1>0, <1>9 DEF InsertRule, At, OpShape, DisableSteps
  <2>2. CASE op' = Idle
    BY <2>2, PlanElsewhere DEF Idle, Committing
  <2>3. CASE op' = op /\ fwWan' = op.wan /\ fw' = Append(fw, Rules(op.isolate)[Len(fw) + 1])
    <3>1. Len(Rules(op.isolate)) \in {4, 5} /\ Rules(op.isolate) \in Seq(RuleTags)
      BY <1>0, RulesType DEF OpType
    <3>2. Len(fw) < Len(Rules(op.isolate)) /\ Len(fw) \in Nat
      BY <1>0, <1>9, <3>1 DEF InsertRule, RulesDone
    <3>3. Rules(op.isolate)[Len(fw) + 1] \in RuleTags
      BY <3>1, <3>2
    <3>4. /\ Len(fw') = Len(fw) + 1
          /\ \A i \in 1 .. Len(fw) : fw'[i] = fw[i]
          /\ fw'[Len(fw) + 1] = Rules(op.isolate)[Len(fw) + 1]
      BY <1>0, <2>3, <3>3
    <3>5. \A i \in 1 .. Len(fw') : fw'[i] = Rules(op.isolate)[i]
      BY <2>1, <3>2, <3>4 DEF PlanInv
    <3> QED BY <2>1, <2>3, <3>1, <3>2, <3>4, <3>5 DEF PlanInv, Committing
  <2> QED BY <1>9, <2>2, <2>3 DEF InsertRule, Return
<1>10. CASE RulesIn
  <2>1. op.step = "ins" /\ op.who # "disable" /\ UNCHANGED <<record, fw, fwWan>>
    BY <1>0, <1>10 DEF RulesIn, At, OpShape, DisableSteps
  <2>2. CASE op' = Idle
    BY <2>2, PlanElsewhere DEF Idle, Committing
  <2>3. CASE Goto("forward")
    <3>1. /\ op'.step = "forward" /\ op'.who = op.who /\ op'.isolate = op.isolate
          /\ op'.wan = op.wan
      BY <1>0, <2>3, GotoIs DEF Steps
    <3>2. Len(Rules(op.isolate)) \in {4, 5} /\ Rules(op.isolate) \in Seq(RuleTags)
      BY <1>0, RulesType DEF OpType
    <3>3. Len(fw) = Len(Rules(op.isolate))
      BY <1>0, <1>10, <2>1, <3>2 DEF RulesIn, RulesDone, PlanInv
    <3>4. fw = Rules(op.isolate)
      BY <1>0, <2>1, <3>2, <3>3 DEF PlanInv
    <3>5. fw # <<>>
      BY <3>4 DEF Rules
    <3>6. fwWan = op.wan /\ (op.isolate <=> record = 0)
      BY <2>1, <3>5 DEF PlanInv
    <3>7. op'.step = "forward" /\ op'.who # "disable" /\ (op'.isolate <=> record' = 0)
          /\ fw' = Rules(op'.isolate) /\ fwWan' = op'.wan
      BY <2>1, <3>1, <3>4, <3>6
    <3> QED BY <3>7 DEF PlanInv, Committing
  <2> QED BY <1>10, <2>2, <2>3 DEF RulesIn
<1>11. CASE TurnForwardingOn \/ ReconcilePeers \/ Commit
  <2>1. op.step \in Committing /\ op.who # "disable" /\ UNCHANGED <<record, fw, fwWan>>
    BY <1>0, <1>11
       DEF TurnForwardingOn, ReconcilePeers, Commit, At, OpShape, DisableSteps, Committing
  <2>2. /\ op'.step \in Committing /\ op'.who = op.who /\ op'.isolate = op.isolate
        /\ op'.wan = op.wan
    <3>1. CASE Goto("peers") \/ Goto("check")
      BY <1>0, <3>1, GotoIs DEF Steps, Committing
    <3>2. CASE ReconcilePeers
      BY <1>0, <3>2 DEF ReconcilePeers, OpType, Committing
    <3> QED BY <1>11, <3>1, <3>2 DEF TurnForwardingOn, Commit
  <2> QED BY <2>1, <2>2 DEF PlanInv, Committing
<1>12. CASE CheckAndAnswer \/ DisableEnd
  <2>1. op' = Idle
    BY <1>12 DEF CheckAndAnswer, DisableEnd
  <2> QED BY <2>1, PlanElsewhere DEF Idle, Committing
<1>13. CASE RestoreForwarding \/ RemoveRecord
  <2>1. op.who = "disable" /\ UNCHANGED <<saved, desired, shim>>
    BY <1>0, <1>13 DEF RestoreForwarding, RemoveRecord, At, OpShape, OpType, ApplySteps
  <2>2. op'.who = op.who /\ (op'.step = "unrecord" \/ (op'.step = "unrule" /\ record' = None))
    BY <1>0, <1>13, GotoIs DEF RestoreForwarding, RemoveRecord, Steps
  <2> QED BY <2>1, <2>2 DEF PlanInv, Committing
<1>14. CASE RemoveRules
  <2>1. /\ op.who = "disable" /\ op.step = "unrule"
        /\ UNCHANGED <<saved, desired, shim, record>>
    BY <1>0, <1>14 DEF RemoveRules, At, OpShape, OpType, ApplySteps
  <2>2. /\ op'.who = op.who
        /\ \/ op'.step = "unrule"
           \/ op'.step = "down" /\ fw' = <<>> /\ stale' \subseteq op'.left
    BY <1>14, <2>1, DeleteTaggedType DEF RemoveRules, TypeInv, Steps
  <2> QED BY <2>1, <2>2 DEF PlanInv, Committing
<1>15. CASE AgentRestarts \/ Reboots
  <2>1. op' = Idle
    BY <1>15 DEF AgentRestarts, Reboots, ProcessLost
  <2> QED BY <2>1, PlanElsewhere DEF Idle, Committing
<1>16. CASE UNCHANGED <<hostVars, record, saved, shim, desired, wan, amiss, op>>
  BY <1>16 DEF PlanInv
<1> QED BY <1>1, <1>2, <1>3, <1>4, <1>5, <1>6, <1>7, <1>8, <1>9, <1>10, <1>11, <1>12, <1>13,
           <1>14, <1>15, <1>16, PlanFrame DEF OpStep

LEMMA PlanInit == Init => PlanInv
  BY PlanElsewhere DEF Init, PlanInv, Idle, Committing

\* Who lets the rules of an enabled exit, their record or the uplink of the state be.
LEMMA WholeElsewhere ==
    ASSUME WholeInv, UNCHANGED <<fw, fwWan, record, wan>>, desired' # None => desired # None,
           amiss \cap {"cut", "torn"} \subseteq amiss',
           op.step \notin {"write", "del", "ins"} \cup Committing,
           op'.step \notin {"write"} \cup Committing
    PROVE  WholeInv'
  BY DEF WholeInv, RulesWhole, Committing

\* The rules of an enabled exit change only between the write of the record and the
\* last insert, and an insert that fails leaves the beginning of a complete set.
LEMMA WholeStep == TypeInv /\ PlanInv /\ PlanInv' /\ WholeInv /\ [Next]_vars => WholeInv'
<1> SUFFICES ASSUME TypeInv, PlanInv, PlanInv', WholeInv, [Next]_vars PROVE WholeInv'
  OBVIOUS
<1>0. op \in OpType /\ OpShape /\ fw \in Seq(RuleTags)
  BY DEF TypeInv, TypeOK
<1>1. CASE desired' = None
  BY <1>1 DEF WholeInv, RulesWhole
<1>2. CASE op'.step \in {"del", "ins"}
  BY <1>2 DEF WholeInv, RulesWhole
<1>3. CASE RecordForwarding
  <2>1. /\ op.step = "record" /\ UNCHANGED <<fw, fwWan, desired, wan>>
        /\ amiss \cap {"cut", "torn"} \subseteq amiss'
    BY <1>3 DEF RecordForwarding, At, Return
  <2>2. CASE op' = Idle /\ UNCHANGED record
    BY <2>1, <2>2, WholeElsewhere DEF Idle, Committing
  <2>3. CASE op' = [op EXCEPT !.step = "write", !.keep = ForwardToRecord(ipf, record)]
    <3>1. op'.step = "write"
      BY <1>0, <2>3 DEF OpType
    <3>2. desired # None => \E isolate \in BOOLEAN : Whole(isolate, wan)
      BY <2>1 DEF WholeInv, RulesWhole, Whole
    <3> QED BY <2>1, <3>1, <3>2 DEF WholeInv, RulesWhole, Whole
  <2> QED BY <1>3, <2>2, <2>3 DEF RecordForwarding, Return
<1>4. CASE WriteRecord
  <2>1. op.step = "write" /\ UNCHANGED <<fw, fwWan, desired, wan>>
    BY <1>4 DEF WriteRecord, At
  <2>2. CASE op' = [op EXCEPT !.step = "del", !.isolate = ForwardToRestore(op.keep)]
    BY <1>0, <1>2, <2>2 DEF OpType
  <2>3. CASE Return({"torn"}) /\ UNCHANGED record
    <3>1. /\ op' = Idle /\ "torn" \in amiss' /\ ("cut" \in amiss => "cut" \in amiss')
          /\ record' # 0
      BY <2>1, <2>3 DEF PlanInv, Torn, Return
    <3>2. CASE desired # None
      <4>1. PICK isolate \in BOOLEAN : Whole(isolate, wan)
        BY <2>1, <3>2 DEF WholeInv
      <4> QED BY <2>1, <3>1, <4>1 DEF WholeInv, RulesWhole, Whole, Idle
    <3> QED BY <1>1, <2>1, <3>2
  <2> QED BY <1>4, <2>2, <2>3 DEF WriteRecord
<1>5. CASE DeleteRule
  <2>1. op'.step \in {"del", "ins"}
    BY <1>5, DeleteTaggedType DEF DeleteRule, At, TypeInv, Steps
  <2> QED BY <1>2, <2>1
<1>6. CASE InsertRule
  <2>1. op.step = "ins"
    BY <1>6 DEF InsertRule, At
  <2>2. CASE op' = op
    BY <1>2, <2>1, <2>2
  <2>3. CASE Return({"cut"}) /\ UNCHANGED <<fw, fwWan>>
    <3>1. op' = Idle /\ "cut" \in amiss' /\ UNCHANGED <<fw, record>>
      BY <1>6, <2>3 DEF InsertRule, Return
    <3>2. \E isolate \in BOOLEAN : (isolate <=> record = 0) /\ Begins(fw, Rules(isolate))
      BY <1>0, <2>1 DEF PlanInv, Begins, OpType
    <3>3. PICK isolate \in BOOLEAN : (isolate <=> record = 0) /\ Begins(fw, Rules(isolate))
      BY <3>2
    <3> QED BY <3>1, <3>3 DEF WholeInv, RulesWhole, Idle
  <2> QED BY <1>6, <2>2, <2>3 DEF InsertRule
<1>7. CASE RulesIn
  <2>1. op.step = "ins" /\ UNCHANGED <<fw, fwWan, record>>
    BY <1>7 DEF RulesIn, At
  <2>2. Len(Rules(op.isolate)) \in {4, 5} /\ Rules(op.isolate) \in Seq(RuleTags)
    BY <1>0, RulesType DEF OpType
  <2>3. Len(fw) = Len(Rules(op.isolate))
    BY <1>0, <1>7, <2>1, <2>2 DEF RulesIn, RulesDone, PlanInv
  <2>4. fw = Rules(op.isolate) /\ fw # <<>>
    <3>1. Len(<<>>) = 0
      OBVIOUS
    <3>2. fw = Rules(op.isolate)
      BY <1>0, <2>1, <2>2, <2>3 DEF PlanInv
    <3> QED BY <2>2, <3>1, <3>2
  <2>5. op.isolate \in BOOLEAN /\ (op.isolate <=> record = 0) /\ fwWan = op.wan
    BY <1>0, <2>1, <2>4 DEF PlanInv, OpType
  <2>6. CASE op.who = "tick"
    <3>1. wan' = op.wan /\ op' = Idle
      BY <1>7, <2>6 DEF RulesIn
    <3> QED BY <2>1, <2>4, <2>5, <3>1 DEF WholeInv, RulesWhole, Idle
  <2>7. CASE op.who # "tick"
    <3>1. op'.step = "forward" /\ op'.wan = op.wan
      BY <1>0, <1>7, <2>7, GotoIs DEF RulesIn, Steps
    <3> QED BY <2>1, <2>4, <2>5, <3>1 DEF WholeInv, RulesWhole
  <2> QED BY <2>6, <2>7
<1>8. CASE TurnForwardingOn \/ ReconcilePeers
  <2>1. op.step \in {"forward", "peers"} /\ UNCHANGED <<fw, fwWan, record>>
    BY <1>8 DEF TurnForwardingOn, ReconcilePeers, At
  <2>2. op'.step \in {"peers", "commit"} /\ op'.wan = op.wan
    BY <1>0, <1>8, GotoIs DEF TurnForwardingOn, ReconcilePeers, OpType, Steps
  <2>3. op.isolate \in BOOLEAN /\ (op.isolate <=> record = 0) /\ fw = Rules(op.isolate)
        /\ fwWan = op.wan
    BY <1>0, <2>1 DEF PlanInv, Committing, OpType
  <2> QED BY <2>1, <2>2, <2>3 DEF WholeInv, RulesWhole
<1>9. CASE Commit
  <2>1. op.step = "commit" /\ UNCHANGED <<fw, fwWan, record>> /\ wan' = op.wan
    BY <1>9 DEF Commit, At
  <2>2. op.isolate \in BOOLEAN /\ (op.isolate <=> record = 0) /\ fw = Rules(op.isolate)
        /\ fwWan = op.wan
    BY <1>0, <2>1 DEF PlanInv, Committing, OpType
  <2>3. op'.step = "check"
    BY <1>0, <1>9, GotoIs DEF Commit, Steps
  <2> QED BY <2>1, <2>2, <2>3 DEF WholeInv, RulesWhole
<1>10. CASE CheckAndAnswer
  <2>1. op.step = "check" /\ op' = Idle /\ UNCHANGED <<fw, fwWan, record, wan, desired, amiss>>
    BY <1>10 DEF CheckAndAnswer, At
  <2> QED BY <2>1 DEF WholeInv, RulesWhole, Idle
<1>11. CASE TickerRound
  <2>1. /\ op = Idle /\ UNCHANGED <<fw, fwWan, record, wan, amiss>> /\ desired # None
        /\ op' = op \/ op'.step = "del"
    BY <1>0, <1>11 DEF TickerRound, Free, OpShape, Idle
  <2> QED BY <1>2, <2>1, WholeElsewhere DEF Idle, Committing
<1>12. CASE DisableBegin \/ AgentRestarts \/ Reboots
  BY <1>1, <1>12 DEF DisableBegin, AgentRestarts, Reboots, ProcessLost
<1>13. CASE RestoreForwarding \/ RemoveRecord \/ RemoveRules \/ DisableEnd
  <2>1. op.who = "disable" /\ UNCHANGED desired
    BY <1>0, <1>13 DEF RestoreForwarding, RemoveRecord, RemoveRules, DisableEnd, At, OpShape,
                       OpType, ApplySteps
  <2> QED BY <1>1, <2>1 DEF PlanInv
<1>14. CASE Checks \/ EnsureIface \/ FindWan
  <2>1. /\ op.step \in {"checks", "iface", "wan"} /\ UNCHANGED <<fw, fwWan, record, wan, desired>>
        /\ amiss \cap {"cut", "torn"} \subseteq amiss'
    BY <1>14 DEF Checks, EnsureIface, FindWan, At, Return
  <2>2. op'.step \in {"iface", "wan", "record", "idle"}
    <3>1. CASE Goto("iface") \/ Goto("wan")
      BY <1>0, <3>1, GotoIs DEF Steps
    <3>2. CASE Return({})
      BY <3>2 DEF Return, Idle
    <3>3. CASE op' = [op EXCEPT !.step = "record", !.wan = uplink]
      BY <1>0, <3>3 DEF OpType
    <3> QED BY <1>14, <3>1, <3>2, <3>3 DEF Checks, EnsureIface, FindWan
  <2> QED BY <2>1, <2>2, WholeElsewhere DEF Committing
<1>15. CASE ResumeTurn \/ \E d \in HubConfigs : ApplyBegin(d)
  <2>1. op = Idle /\ UNCHANGED <<fw, fwWan, record, wan, desired, amiss>>
    BY <1>0, <1>15 DEF ResumeTurn, ApplyBegin, Free, OpShape
  <2>2. op' = op \/ op'.step = "checks"
    BY <1>15 DEF ResumeTurn, ApplyBegin, Idle
  <2> QED BY <2>1, <2>2, WholeElsewhere DEF Idle, Committing
<1>16. CASE UNCHANGED <<hostVars, record, saved, shim, desired, wan, amiss, op>>
  BY <1>16 DEF WholeInv, RulesWhole, Whole
<1>17. CASE UNCHANGED vars
  BY <1>16, <1>17
<1> QED BY <1>3, <1>4, <1>5, <1>6, <1>7, <1>8, <1>9, <1>10, <1>11, <1>12, <1>13, <1>14, <1>15,
           <1>16, <1>17, PlanFrame DEF OpStep

\* The rules of an enabled exit are whole, in order and for its uplink, with the
\* isolation rule if the agent turned forwarding on, whenever no thread is replacing
\* them, and the beginning of such a set after an insert that failed: across applies
\* cut short, retried and resumed, rounds of the ticker, refused inserts and deletes, a
\* moving uplink and a record lost half-way (ensure_rules, run_plan).
THEOREM StayWhole == Spec => []RulesWhole
<1>1. Init => WholeInv
  BY DEF Init, WholeInv, RulesWhole
<1>2. WholeInv => RulesWhole
  BY DEF WholeInv
<1> QED BY <1>1, <1>2, TypeInit, TypeStep, PlanInit, PlanStep, WholeStep, PTL DEF Spec

\* Forwarding goes on because of the agent only behind the complete rules, isolation
\* included, whatever fails (apply_desired: ensure_rules before ip_forward).
THEOREM RulesBeforeForwarding == Spec => ForwardOnlyBehindRules
<1>1. ASSUME TypeInv, PlanInv, ForwardInv, [Next]_vars, agentOn', ~agentOn
      PROVE  fw = Rules(TRUE)
  <2>0. op \in OpType /\ OpShape /\ ipf \in {0, 1}
    BY <1>1 DEF TypeInv, TypeOK
  <2>1. CASE TurnForwardingOn
    <3>1. op.step = "forward" /\ ipf = 0
      BY <1>1, <2>1 DEF TurnForwardingOn, At
    <3>2. op.who \in {"apply", "resume"}
      BY <2>0, <2>1 DEF TurnForwardingOn, At, OpShape, OpType, DisableSteps
    <3>3. op.isolate = TRUE
      BY <1>1, <2>0, <3>1, <3>2 DEF ForwardInv, OpType
    <3>4. fw = Rules(op.isolate)
      BY <1>1, <3>1 DEF PlanInv, Committing
    <3> QED BY <3>3, <3>4
  <2>2. CASE RestoreForwarding
    BY <1>1, <2>2 DEF RestoreForwarding
  <2>3. CASE AgentRestarts \/ Reboots
    BY <1>1, <2>3 DEF AgentRestarts, Reboots
  <2>4. CASE UNCHANGED agentOn
    BY <1>1, <2>4
  <2>5. OpStep => TurnForwardingOn \/ RestoreForwarding \/ UNCHANGED agentOn
    BY DEF OpStep, Checks, EnsureIface, FindWan, RecordForwarding, WriteRecord, DeleteRule,
           InsertRule, RulesIn, ReconcilePeers, Commit, CheckAndAnswer, RemoveRecord,
           RemoveRules, DisableEnd
  <2>6. ResumeTurn \/ TickerRound \/ DisableBegin \/ (\E d \in HubConfigs : ApplyBegin(d))
          => UNCHANGED agentOn
    BY DEF ResumeTurn, TickerRound, DisableBegin, ApplyBegin
  <2> QED BY <1>1, <2>1, <2>2, <2>3, <2>4, <2>5, <2>6, PlanFrame
<1>2. TypeInv /\ PlanInv /\ ForwardInv /\ [Next]_vars => [agentOn' /\ ~agentOn => fw = Rules(TRUE)]_vars
  BY <1>1
<1>3. Init => ForwardInv
  BY DEF Init, ForwardInv, ForwardingRestorable, Idle, At
<1> QED BY <1>2, <1>3, TypeInit, TypeStep, PlanInit, PlanStep, ForwardStep, PTL
        DEF Spec, ForwardOnlyBehindRules

\* A disable that runs to its end leaves nothing of the exit behind, whatever it
\* found (a half-made apply, rules of an earlier process, a sick device), but what the
\* system refused to take away, and each refusal leaves its own thing only (disable_ep).
THEOREM DisableClears == Spec => DisableIsClean
<1>1. ASSUME TypeInv, PlanInv, ForwardInv, [Next]_vars, op.who = "disable", op' = Idle,
             UNCHANGED crashesLeft
      PROVE  /\ agentOn' => amiss' \cap {"torn", "stuck"} # {}
             /\ fw' = <<>> /\ stale' \subseteq op.left
             /\ iface' = "none" \/ (iface' = "kernel" /\ "linked" \in amiss')
             /\ record' = None /\ live' = "none" /\ shim' = None
             /\ saved' = None /\ desired' = None
  <2>0. op \in OpType /\ OpShape /\ crashesLeft \in Nat
    BY <1>1 DEF TypeInv, TypeOK
  <2>1. CASE DisableEnd
    <3>1. op.step = "down"
      BY <2>1 DEF DisableEnd, At
    <3>2. /\ record = None /\ fw = <<>> /\ saved = None /\ desired = None /\ shim = None
          /\ stale \subseteq op.left
      BY <1>1, <3>1 DEF PlanInv
    <3>3. agentOn => "torn" \in amiss \/ "stuck" \in amiss
      BY <1>1, <3>1, <3>2, ConfigAssumption DEF ForwardInv, ForwardingRestorable, At
    <3>4. /\ UNCHANGED <<agentOn, fw, stale, record, shim, saved, desired>> /\ live' = "none"
          /\ amiss \cap {"torn", "stuck"} \subseteq amiss'
          /\ iface' = "none" \/ (iface' = "kernel" /\ "linked" \in amiss')
      BY <2>1 DEF DisableEnd, IfaceDown, LinkStays, StopDevice
    <3> QED BY <3>2, <3>3, <3>4
  <2>2. CASE AgentRestarts \/ Reboots
    BY <1>1, <2>0, <2>2 DEF AgentRestarts, Reboots, ProcessLost
  <2>3. CASE op' = op
    BY <1>1, <2>3 DEF Idle
  <2>4. CASE RestoreForwarding \/ RemoveRecord \/ RemoveRules
    <3>1. op'.who = op.who
      BY <1>1, <2>0, <2>4, GotoIs, DeleteTaggedType
         DEF RestoreForwarding, RemoveRecord, RemoveRules, Steps, TypeInv
    <3> QED BY <1>1, <3>1 DEF Idle
  <2>5. DisableSteps \cap ApplySteps = {} /\ op.step \in DisableSteps
    BY <1>1, <2>0 DEF OpShape, DisableSteps, ApplySteps
  <2>6. OpStep => DisableEnd \/ RestoreForwarding \/ RemoveRecord \/ RemoveRules
    BY <2>5 DEF OpStep, Checks, EnsureIface, FindWan, RecordForwarding, WriteRecord, DeleteRule,
           InsertRule, RulesIn, TurnForwardingOn, ReconcilePeers, Commit, CheckAndAnswer, At,
           DisableSteps, ApplySteps
  <2>7. ~(DisableBegin \/ ResumeTurn \/ TickerRound \/ \E d \in HubConfigs : ApplyBegin(d))
    BY <1>1 DEF DisableBegin, ResumeTurn, TickerRound, ApplyBegin, Free
  <2> QED BY <1>1, <2>1, <2>2, <2>3, <2>4, <2>6, <2>7, PlanFrame
<1>2. TypeInv /\ PlanInv /\ ForwardInv /\ [Next]_vars =>
          [op.who = "disable" /\ op' = Idle /\ UNCHANGED crashesLeft
             => /\ agentOn' => amiss' \cap {"torn", "stuck"} # {}
                /\ fw' = <<>> /\ stale' \subseteq op.left
                /\ iface' = "none" \/ (iface' = "kernel" /\ "linked" \in amiss')
                /\ record' = None /\ live' = "none" /\ shim' = None
                /\ saved' = None /\ desired' = None]_vars
  BY <1>1
<1>3. Init => ForwardInv
  BY DEF Init, ForwardInv, ForwardingRestorable, Idle, At
<1> QED BY <1>2, <1>3, TypeInit, TypeStep, PlanInit, PlanStep, ForwardStep, PTL
        DEF Spec, DisableIsClean
-----------------------------------------------------------------------------
LEMMA RunElsewhere ==
    ASSUME op'.step \notin Prepared
    PROVE  RunInv'
  BY DEF RunInv, Prepared, Committing

LEMMA RunStep ==
    ASSUME TypeInv, RunInv, [Next]_vars
    PROVE  RunInv'
<1>0. op \in OpType /\ OpShape
  BY DEF TypeInv, TypeOK
<1> DEFINE Applying == op.who \in {"apply", "resume"}
<1>1. CASE op'.step \notin Prepared
  BY <1>1, RunElsewhere
<1>2. CASE op' = Idle
  BY <1>1, <1>2 DEF Idle, Prepared, Committing
<1>3. CASE EnsureIface
  <2>1. Applying /\ op.step = "iface"
    BY <1>0, <1>3 DEF EnsureIface, At, OpShape, OpType, DisableSteps
  <2>2. CASE EnsureIfaceOk("iface") /\ Goto("wan")
    <3>1. live' # "none"
      BY <2>2 DEF EnsureIfaceOk, BringUp
    <3>2. op'.step = "wan"
      BY <1>0, <2>2, GotoIs DEF Steps
    <3> QED BY <1>0, <3>1, <3>2 DEF RunInv, Committing
  <2> QED BY <1>2, <1>3, <2>2 DEF EnsureIface, Return
<1>4. CASE FindWan \/ RecordForwarding \/ WriteRecord
  <2>1. /\ op.step \in {"wan", "record", "write"} /\ UNCHANGED live
        /\ Applying
    BY <1>0, <1>4 DEF FindWan, RecordForwarding, WriteRecord, At, OpShape, OpType, DisableSteps
  <2>2. op' = Idle \/ op'.step \in {"record", "write", "del"}
    BY <1>0, <1>4 DEF FindWan, RecordForwarding, WriteRecord, Return, OpType
  <2>3. live # "none"
    BY <2>1 DEF RunInv, Prepared
  <2> QED BY <1>0, <1>2, <2>1, <2>2, <2>3 DEF RunInv, Committing
<1>5. CASE DeleteRule
  <2>1. op.step = "del" /\ UNCHANGED live
    BY <1>5 DEF DeleteRule, At
  <2>2. op'.who = op.who /\ op'.step \in {"del", "ins"}
    BY <1>5, <2>1, DeleteTaggedType DEF DeleteRule, TypeInv, Steps
  <2> QED BY <1>0, <2>1, <2>2 DEF RunInv, Prepared, Committing
<1>6. CASE InsertRule
  <2>1. op.step = "ins" /\ UNCHANGED live
    BY <1>6 DEF InsertRule, At
  <2>2. CASE op' = op
    BY <1>0, <2>1, <2>2 DEF RunInv, Prepared, Committing
  <2> QED BY <1>2, <1>6, <2>2 DEF InsertRule, Return
<1>7. CASE RulesIn
  <2>1. op.step = "ins" /\ UNCHANGED live
    BY <1>7 DEF RulesIn, At
  <2>2. CASE Goto("forward")
    <3>1. op'.step = "forward" /\ op'.who = op.who
      BY <1>0, <2>2, GotoIs DEF Steps
    <3> QED BY <1>0, <2>1, <3>1 DEF RunInv, Prepared, Committing
  <2> QED BY <1>2, <1>7, <2>2 DEF RulesIn
<1>8. CASE TurnForwardingOn
  <2>1. op.step = "forward" /\ UNCHANGED live /\ (ipf' = 1 \/ "dark" \in amiss')
    <3>1. ipf = 1 \/ ipf = 0
      BY DEF TypeInv, TypeOK
    <3> QED BY <1>8, <3>1 DEF TurnForwardingOn, At
  <2>2. op'.step = "peers" /\ op'.who = op.who
    BY <1>0, <1>8, GotoIs DEF TurnForwardingOn, Steps
  <2> QED BY <1>0, <2>1, <2>2 DEF RunInv, Prepared, Committing
<1>9. CASE ReconcilePeers
  <2> DEFINE d == LivePeers(op.d)
  <2>1. /\ op.step = "peers" /\ UNCHANGED <<live, iface, ipf>>
        /\ "dark" \in amiss => "dark" \in amiss'
    BY <1>9 DEF ReconcilePeers, At
  <2>2. op'.step = "commit" /\ op'.who = op.who /\ op'.d = d
    BY <1>0, <1>9 DEF ReconcilePeers, OpType
  <2>3. op'.ok /\ iface # "none" =>
            d.peers \subseteq devPeers' /\ (devPeers' = d.peers \/ "kept" \in amiss')
    <3> HIDE DEF d
    <3>1. CASE ReconcileOk(d.peers)
      BY <3>1 DEF ReconcileOk
    <3>2. CASE ReconcileKept(d.peers) /\ amiss' = amiss \cup {"kept"}
      BY <3>2 DEF ReconcileKept
    <3>3. CASE op' = [op EXCEPT !.step = "commit", !.d = d, !.ok = FALSE]
      BY <1>0, <3>3 DEF OpType
    <3> QED BY <1>9, <3>1, <3>2, <3>3 DEF ReconcilePeers, d
  <2> QED BY <1>0, <2>1, <2>2, <2>3 DEF RunInv, Prepared, Committing
<1>10. CASE Commit
  <2>1. /\ op.step = "commit" /\ UNCHANGED <<live, iface, devPeers, ipf>>
        /\ shim' = op.d.id /\ saved' = op.d /\ desired' = op.d
        /\ amiss \cap {"dark", "kept"} \subseteq amiss'
    BY <1>10 DEF Commit, At
  <2>2. op'.step = "check" /\ op'.who = op.who /\ op'.d = op.d /\ op'.ok = op.ok
    BY <1>0, <1>10, GotoIs DEF Commit, Steps
  <2> QED BY <1>0, <2>1, <2>2 DEF RunInv, Prepared, Committing
<1>11. CASE Checks \/ RestoreForwarding \/ RemoveRecord \/ RemoveRules
  <2>1. op' = Idle \/ op'.step \in {"iface", "unrecord", "unrule", "down"}
    <3>1. CASE RemoveRules
      BY <3>1, DeleteTaggedType DEF RemoveRules, At, TypeInv, Steps
    <3> QED BY <1>0, <1>11, <3>1, GotoIs
            DEF Checks, RestoreForwarding, RemoveRecord, Return, Steps
  <2> QED BY <1>1, <1>2, <2>1 DEF Prepared, Committing
<1>12. CASE DisableBegin \/ ResumeTurn \/ \E d \in HubConfigs : ApplyBegin(d)
  <2>1. op = Idle /\ (op' = op \/ op'.step \in {"checks", "restore"})
    BY <1>0, <1>12 DEF DisableBegin, ResumeTurn, ApplyBegin, Free, OpShape, Idle
  <2> QED BY <1>1, <1>2, <2>1 DEF Prepared, Committing
<1>13. CASE TickerRound
  <2>1. op = Idle /\ (op' = op \/ (op'.step = "del" /\ op'.who = "tick"))
    BY <1>0, <1>13 DEF TickerRound, Free, OpShape, Idle
  <2>2. CASE op'.step = "del" /\ op'.who = "tick"
    BY <1>0, <2>2 DEF RunInv, Committing
  <2> QED BY <1>2, <2>1, <2>2
<1>14. CASE WatchdogRound
  BY <1>0, <1>2, <1>14 DEF WatchdogRound, Free, OpShape
<1>15. CASE WorkerDies \/ IfaceVanishes
  <2>1. /\ UNCHANGED <<op, amiss, ipf, shim, saved, desired>>
        /\ live # "none" => live' # "none"
        /\ iface' # "none" => devPeers' = devPeers /\ iface # "none"
    BY <1>15 DEF WorkerDies, IfaceVanishes
  <2> QED BY <1>0, <2>1 DEF RunInv
<1>16. CASE UNCHANGED <<op, devVars, amiss, ipf, shim, saved, desired>>
  BY <1>0, <1>16 DEF RunInv
<1>17. CASE CheckAndAnswer \/ DisableEnd \/ AgentRestarts \/ Reboots
  BY <1>2, <1>17 DEF CheckAndAnswer, DisableEnd, AgentRestarts, Reboots, ProcessLost
<1>18. CASE \/ WatchdogEnds \/ BootReadGeneration \/ BootLoad \/ FailureAges \/ UNCHANGED vars
            \/ \E p \in Peers : PassExpires(p)
            \/ \E u \in Uplinks \cup {None} : UplinkMoves(u)
  BY <1>16, <1>18 DEF WatchdogEnds, BootReadGeneration, BootLoad, FailureAges, PassExpires, UplinkMoves
<1> QED BY <1>3, <1>4, <1>5, <1>6, <1>7, <1>8, <1>9, <1>10, <1>11, <1>12, <1>13, <1>14, <1>15,
           <1>17, <1>18 DEF Next, OpStep, BootStep, Environment

\* An apply that is answered with 200 runs: device, passes, rules, forwarding and shim are
\* what the hub asked for, and what a restart brings back, but for the three errors the
\* code drops: the write of ip_forward, a `wg set peer remove`, and a kernel link that is
\* gone (apply_desired, reconcile_peers, SysExit.check).
THEOREM OkRuns == Spec => OkMeansRunning
<1>1. ASSUME TypeInv, PlanInv, RunInv, [Next]_vars, At("check"), op' = Idle, op.who = "apply",
             UNCHANGED crashesLeft, ~lastError'
      PROVE  /\ live' = "kernel" \/ (live' = "user" /\ iface' # "none")
             /\ iface' # "none" => /\ op.d.peers \subseteq devPeers'
                                   /\ (devPeers' = op.d.peers \/ "kept" \in amiss')
             /\ fw' = Rules(op.isolate) /\ fwWan' = op.wan
             /\ ipf' = 1 \/ "dark" \in amiss'
             /\ shim' = op.d.id /\ saved' = op.d /\ desired' = op.d
  <2>0. op \in OpType /\ OpShape /\ op.step = "check" /\ op # Idle /\ crashesLeft \in Nat
        /\ live \in {"none", "kernel", "user", "sick"}
    BY <1>1 DEF TypeInv, TypeOK, At, Idle
  <2>1. CASE CheckAndAnswer
    <3>1. op.ok /\ ~Unhealthy(live, iface)
      BY <1>1, <2>1 DEF CheckAndAnswer, Answered
    <3>2. live = "kernel" \/ (live = "user" /\ iface # "none")
      BY <1>1, <2>0, <3>1 DEF Unhealthy, RunInv, Prepared, Committing
    <3>3. /\ iface # "none" => /\ op.d.peers \subseteq devPeers
                               /\ (devPeers = op.d.peers \/ "kept" \in amiss)
          /\ ipf = 1 \/ "dark" \in amiss
          /\ shim = op.d.id /\ saved = op.d /\ desired = op.d
      BY <1>1, <2>0, <3>1 DEF RunInv
    <3>4. fw = Rules(op.isolate) /\ fwWan = op.wan
      BY <1>1, <2>0 DEF PlanInv, Committing
    <3> QED BY <2>1, <3>2, <3>3, <3>4 DEF CheckAndAnswer
  <2>2. ~(AgentRestarts \/ Reboots)
    BY <1>1, <2>0 DEF AgentRestarts, Reboots, ProcessLost
  <2>3. OpStep => CheckAndAnswer
    BY <2>0 DEF OpStep, Checks, EnsureIface, FindWan, RecordForwarding, WriteRecord, DeleteRule,
           InsertRule, RulesIn, TurnForwardingOn, ReconcilePeers, Commit, RestoreForwarding,
           RemoveRecord, RemoveRules, DisableEnd, At
  <2>4. ~(DisableBegin \/ ResumeTurn \/ TickerRound \/ \E d \in HubConfigs : ApplyBegin(d))
    BY <1>1 DEF DisableBegin, ResumeTurn, TickerRound, ApplyBegin, Free
  <2> QED BY <1>1, <2>0, <2>1, <2>2, <2>3, <2>4, PlanFrame
<1>2. TypeInv /\ PlanInv /\ RunInv /\ [Next]_vars =>
          [At("check") /\ op' = Idle /\ op.who = "apply" /\ UNCHANGED crashesLeft /\ ~lastError'
             => /\ live' = "kernel" \/ (live' = "user" /\ iface' # "none")
                /\ iface' # "none" => /\ op.d.peers \subseteq devPeers'
                                      /\ (devPeers' = op.d.peers \/ "kept" \in amiss')
                /\ fw' = Rules(op.isolate) /\ fwWan' = op.wan
                /\ ipf' = 1 \/ "dark" \in amiss'
                /\ shim' = op.d.id /\ saved' = op.d /\ desired' = op.d]_vars
  BY <1>1
<1>3. Init => RunInv
  BY DEF Init, RunInv, Idle, Committing, Prepared
<1>4. TypeInv /\ RunInv /\ [Next]_vars => RunInv'
  BY RunStep
<1> QED BY <1>2, <1>3, <1>4, TypeInit, TypeStep, PlanInit, PlanStep, PTL DEF Spec, OkMeansRunning
=============================================================================
