------------------------------- MODULE VpnExit -------------------------------
(***************************************************************************)
(* The VPN exit of the endpoint agent (crates/agent/src/vpn.rs and         *)
(* vpn/health.rs): the hub's apply and disable, the boot resume, the       *)
(* expiry ticker and the watchdog of the built-in WireGuard, all taking    *)
(* turns under the lock op(), over state that outlives the process (saved  *)
(* state, ip_forward record, firewall rules, a kernel interface).          *)
(*                                                                         *)
(* The thread holding op() is "who" of the variable op, and "step" is the  *)
(* next system call it makes, so a crash, a dying device or a change of    *)
(* uplink can fall between any two of them.  A watchdog round is one       *)
(* action: what it touches besides the device is memory, and the device    *)
(* it rebuilds does not outlive the process.                               *)
(***************************************************************************)
EXTENDS Integers, Sequences, FiniteSets

CONSTANTS
    Peers,         \* passes: a public key with its preshared key and address
    Relays,        \* relay address and HMAC secret, what the shim runs on
    HubConfigs,    \* the bodies the hub may send to /vpn/apply
    Uplinks,       \* interfaces a default route may leave by
    None,          \* no value
    HaveKernel,    \* the kernel has WireGuard, wg is installed, and it is not overridden
    BootForward,   \* the values net.ipv4.ip_forward may have after a reboot
    GiveUpAfter,   \* GIVE_UP_AFTER
    Faults,        \* the kinds of failure the environment may inject
    MaxHub,        \* bound: hub requests
    MaxCrashes,    \* bound: agent crashes and reboots
    MaxFaults,     \* bound: injected failures
    MaxMoves       \* bound: changes of the default route

Desired == [id : Relays, peers : SUBSET Peers]

\* The last four are refused without the code saying so: a write of ip_forward, the
\* delete of a rule, the delete of the link, the spawn of the watchdog.
FaultKinds == {"prereq", "iface", "record", "rule", "peer", "remove", "rebuild", "panic",
               "vanish", "forward", "delete", "link", "spawn"}

ASSUME ConfigAssumption ==
    /\ HubConfigs \subseteq Desired
    /\ None \notin Desired
    /\ None \notin Uplinks
    /\ None \notin Relays
    /\ None \notin -1 .. 1
    /\ HaveKernel \in BOOLEAN
    /\ BootForward \subseteq {0, 1} /\ BootForward # {}
    /\ GiveUpAfter \in Nat /\ GiveUpAfter >= 2
    /\ Faults \subseteq FaultKinds
    /\ MaxHub \in Nat /\ MaxCrashes \in Nat /\ MaxFaults \in Nat /\ MaxMoves \in Nat

VARIABLES
    saved,       \* ~/.it-ai/vpn/desired.json
    record,      \* ~/.it-ai/vpn/ip_forward.before: 0, 1, Torn or None
    ipf,         \* net.ipv4.ip_forward
    fw,          \* the tagged iptables rules, top to bottom
    stale,       \* tagged rules below those, left because their delete was refused
    fwWan,       \* the uplink those rules name
    iface,       \* itai-wg: "none", "kernel" or "tun"
    devPeers,    \* the peers configured on itai-wg
    desired, wan, generation, lastError, watch,   \* struct State
    live,        \* Option<Live>: "none", "kernel", "user", or "sick" (the userspace device
                 \* whose worker died or whose UAPI channel is out of step)
    watching,    \* WATCHING
    dog,         \* whether a watchdog thread exists
    shim,        \* the relay and secret the shim runs with
    boot,        \* the thread spawned by start(): [step, gen, d]
    op,          \* the holder of op() and where it is
    uplink,      \* the interface of the default route, or None
    expired,     \* passes whose expiresAt has passed
    hubLeft, crashesLeft, faultsLeft, movesLeft,  \* what is left of the bounds
    hubWord,     \* history: the last state the hub applied or disabled
    bootRaced,   \* history: some boot read the generation of an apply not yet saved
    agentOn,     \* history: ip_forward is 1 because the agent wrote it
    amiss        \* history: what has gone wrong unnoticed and is not made good yet

diskVars  == <<saved, record>>
hostVars  == <<ipf, fw, fwWan, stale, agentOn>>
devVars   == <<iface, devPeers, live>>
stateVars == <<desired, wan, generation, lastError, watch>>
procVars  == <<watching, dog, shim>>
worldVars == <<uplink, expired>>
boundVars == <<hubLeft, crashesLeft, faultsLeft, movesLeft>>
historyVars == <<hubWord, bootRaced, amiss>>
vars == <<diskVars, hostVars, devVars, stateVars, procVars, boot, op, worldVars,
          boundVars, historyVars>>

NoEpisode == -1
FreshWatch == [health |-> "ok", failures |-> 0, episode |-> NoEpisode]
Torn == -1    \* the record exists and is empty
Idle == [who |-> "nobody", step |-> "idle", d |-> None, wan |-> None, keep |-> None,
         isolate |-> FALSE, ok |-> TRUE, left |-> {}]

\* A write of the record cut between its truncation and its text; an insert that failed,
\* with the rules half in; the agent's forwarding on and a disable unable to take it
\* back; an apply unable to turn it on; a watchdog that could not be spawned; an apply
\* that failed and left the exit without a device; a link a disable could not delete; a
\* pass `wg` did not remove from the kernel's device.
Mishaps == {"torn", "cut", "stuck", "dark", "unwatched", "abandoned", "linked", "kept"}

BootStart == [step |-> "gen", gen |-> 0, d |-> None]

\* rules(): the drops of private ranges and peer-to-peer traffic, the two
\* accepts through the uplink, the drop of anything else on the tunnel, the
\* drop of everything that is not the tunnel's, then INPUT and NAT.
RuleTags == {"block", "accept", "refuse", "isolate", "nat"}
Rules(isolate) ==
    IF isolate THEN <<"block", "accept", "refuse", "isolate", "nat">>
               ELSE <<"block", "accept", "refuse", "nat">>
Installed(tag) == tag \in stale \/ \E i \in 1 .. Len(fw) : fw[i] = tag
Begins(s, t) == Len(s) <= Len(t) /\ \A i \in 1 .. Len(s) : s[i] = t[i]

\* live_peers
LivePeers(d) == [d EXCEPT !.peers = @ \ expired]

Free == op.who = "nobody"

\* An injected failure of one kind; every other step leaves the budget alone.
Inject(kind) ==
    /\ kind \in Faults
    /\ faultsLeft > 0
    /\ faultsLeft' = faultsLeft - 1
NoFault == UNCHANGED faultsLeft
-----------------------------------------------------------------------------
(* The system plumbing, as relations between a device and the next one.     *)

\* Device::stop always gives the device up, cleanly or by releasing what it held.
StopDevice == live' = "none"

\* iface_down: the device stopped, the link deleted.
IfaceDown == /\ StopDevice
             /\ iface' = "none"
             /\ devPeers' = {}

\* iface_down when `ip link del` fails, which is ignored.  A TUN goes with its device.
LinkStays == StopDevice /\ iface = "kernel" /\ UNCHANGED <<iface, devPeers>>

\* bring_up on a machine with no interface: the kernel module when it can be
\* used, the built-in WireGuard when it cannot or when the module fails.
BringUp(fault, peers) ==
    /\ devPeers' = peers
    /\ \/ /\ HaveKernel
          /\ live' = "kernel" /\ iface' = "kernel" /\ NoFault
       \/ /\ IF HaveKernel THEN Inject(fault) ELSE NoFault
          /\ live' = "user" /\ iface' = "tun"

\* Mutant of EnsureIfaceOk: a device left by an attempt that failed is not kept.
EnsureIfaceOkAnew(fault) ==
    live = "none" /\ BringUp(fault, {})

\* ensure_iface succeeds: a device that is up is kept (a sick one never gets
\* past its get=1), one that vanished is replaced, a kernel link left by an
\* earlier run is adopted.
EnsureIfaceOk(fault) ==
    \/ /\ live \in {"user", "kernel"} /\ iface # "none"
       /\ UNCHANGED devVars /\ NoFault
    \/ /\ live # "none" /\ iface = "none"
       /\ BringUp(fault, {})
    \/ /\ live = "none" /\ iface = "kernel" /\ HaveKernel
       /\ live' = "kernel" /\ UNCHANGED <<iface, devPeers>> /\ NoFault
    \/ /\ live = "none" /\ ~(iface = "kernel" /\ HaveKernel)
       /\ BringUp(fault, {})

\* ensure_iface fails: on a sick device at once, with nothing changed; by an
\* injected failure before anything was done, while creating the interface
\* (a vanished device is gone then), or after creating it.
EnsureIfaceErr(fault) ==
    \/ live = "sick" /\ iface # "none" /\ UNCHANGED devVars /\ NoFault
    \/ /\ Inject(fault)
       /\ \/ UNCHANGED devVars
          \/ (live = "none" \/ iface = "none") /\ IfaceDown
          \/ /\ iface = "none"
             /\ devPeers' = {}
             /\ IF HaveKernel THEN live' = "kernel" /\ iface' = "kernel"
                              ELSE live' = "user" /\ iface' = "tun"

\* reconcile_peers reaches exactly the wanted passes.
ReconcileOk(want) ==
    \/ /\ live \in {"user", "kernel"} /\ iface # "none"
       /\ devPeers' = want /\ NoFault
    \/ /\ live \in {"user", "kernel"} /\ iface = "none" /\ want = {}
       /\ UNCHANGED devPeers /\ NoFault

\* `wg set peer remove` and `wg show peers` fail, which is not reported.
ReconcileKept(want) ==
    /\ live = "kernel" /\ iface # "none"
    /\ Inject("remove")
    /\ \E kept \in SUBSET (devPeers \ want) : devPeers' = want \cup kept

\* reconcile_peers reports an error: there is no device, it does not answer,
\* or it refused a change after some of them were made.
ReconcileErr(want) ==
    \/ live \in {"none", "sick"} /\ UNCHANGED devPeers /\ NoFault
    \/ /\ live \in {"user", "kernel"} /\ iface = "none" /\ want # {}
       /\ UNCHANGED devPeers /\ NoFault
    \/ /\ live \in {"user", "kernel"} /\ iface # "none"
       /\ Inject("peer")
       /\ \E s \in SUBSET (devPeers \cup want) :
             /\ devPeers \cap want \subseteq s
             /\ s # want
             /\ devPeers' = s

\* Userspace::teardown, then rebuild(d) and its check, all of which succeed.
RebuildOk(want) == BringUp("rebuild", want)

\* The same, failing: no new device, the link of one that was stopped again, one
\* without all its passes, or one that is already sick.
RebuildErr(want) ==
    /\ Inject("rebuild")
    /\ \/ IfaceDown
       \/ /\ HaveKernel /\ "link" \in Faults
          /\ live' = "none" /\ iface' = "kernel"
          /\ devPeers' \in SUBSET (devPeers \cup want)
       \/ /\ devPeers' \in SUBSET want
          /\ IF HaveKernel
             THEN live' = "kernel" /\ iface' = "kernel" /\ devPeers' # want
             ELSE \/ live' = "user" /\ iface' = "tun" /\ devPeers' # want
                  \/ live' = "sick" /\ iface' = "tun"

\* Mutant of Unhealthy: a device that stopped answering passes its check.
UnhealthyIfGone(l, i) == l = "user" /\ i = "none"

\* SysExit.check: only a userspace device is watched.
Unhealthy(l, i) == l = "sick" \/ (l = "user" /\ i = "none")

\* Watch::failed.  The window is GiveUpAfter failures long; streak, which only
\* picks the length of the next wait, is left out.
Failed(w, g) ==
    LET n == w.failures + 1
    IN IF n >= GiveUpAfter
       THEN [health |-> "failed", failures |-> n, episode |-> NoEpisode]
       ELSE [health |-> "recovering", failures |-> n, episode |-> g]
-----------------------------------------------------------------------------
Init ==
    /\ saved = None /\ record = None
    /\ ipf \in BootForward /\ fw = <<>> /\ fwWan = None /\ stale = {} /\ agentOn = FALSE
    /\ iface = "none" /\ devPeers = {} /\ live = "none"
    /\ desired = None /\ wan = None /\ generation = 0 /\ lastError = FALSE
    /\ watch = FreshWatch
    /\ watching = FALSE /\ dog = FALSE /\ shim = None
    /\ boot = BootStart
    /\ op = Idle
    /\ uplink \in Uplinks /\ expired = {}
    /\ hubLeft = MaxHub /\ crashesLeft = MaxCrashes
    /\ faultsLeft = MaxFaults /\ movesLeft = MaxMoves
    /\ hubWord = None /\ bootRaced = FALSE /\ amiss = {}
-----------------------------------------------------------------------------
(* The operations that take op().                                          *)

\* apply_ep: op(), supersede, then apply_desired.
ApplyBegin(d) ==
    /\ Free /\ hubLeft > 0
    /\ hubLeft' = hubLeft - 1
    /\ generation' = generation + 1
    /\ op' = [Idle EXCEPT !.who = "apply", !.step = "checks", !.d = d]
    /\ UNCHANGED <<diskVars, hostVars, devVars, desired, wan, lastError, watch,
                   procVars, boot, worldVars, crashesLeft, faultsLeft, movesLeft, historyVars>>

\* Mutant of DisableBegin: a disable does not supersede what is in flight.
DisableUnnumbered ==
    /\ Free /\ hubLeft > 0
    /\ hubLeft' = hubLeft - 1
    /\ shim' = None
    /\ saved' = None /\ hubWord' = None
    /\ desired' = None /\ wan' = None /\ watch' = FreshWatch
    /\ op' = [Idle EXCEPT !.who = "disable", !.step = "restore"]
    /\ UNCHANGED <<record, hostVars, devVars, generation, lastError, watching, dog, boot,
                   worldVars, crashesLeft, faultsLeft, movesLeft, bootRaced, amiss>>

\* disable_ep up to the end of its state() block: the shim stops, the saved
\* file goes, the memory is cleared and the generation bumped.
DisableBegin ==
    /\ Free /\ hubLeft > 0
    /\ hubLeft' = hubLeft - 1
    /\ shim' = None
    /\ saved' = None /\ hubWord' = None
    /\ generation' = generation + 1
    /\ desired' = None /\ wan' = None /\ watch' = FreshWatch
    /\ op' = [Idle EXCEPT !.who = "disable", !.step = "restore"]
    /\ UNCHANGED <<record, hostVars, devVars, lastError, watching, dog, boot,
                   worldVars, crashesLeft, faultsLeft, movesLeft, bootRaced, amiss>>

\* History: the hub's apply has bumped the generation and not saved yet.
ApplyUnsaved == op.who = "apply" /\ op.step # "check"

\* start(): the generation is read first, then the file, neither under op().
BootReadGeneration ==
    /\ boot.step = "gen"
    /\ boot' = [boot EXCEPT !.step = "load", !.gen = generation]
    /\ bootRaced' = (bootRaced \/ ApplyUnsaved)
    /\ UNCHANGED <<diskVars, hostVars, devVars, stateVars, procVars, op, worldVars,
                   boundVars, hubWord, amiss>>

BootLoad ==
    /\ boot.step = "load"
    /\ boot' = IF saved = None THEN [boot EXCEPT !.step = "tick"]
               ELSE [boot EXCEPT !.step = "resume", !.d = saved]
    /\ UNCHANGED <<diskVars, hostVars, devVars, stateVars, procVars, op, worldVars,
                   boundVars, historyVars>>

\* resume: one turn of its loop, superseded unless the generation is current.
IsCurrent(g) == generation = g

ResumeTurn ==
    /\ Free /\ boot.step = "resume"
    /\ \/ /\ ~IsCurrent(boot.gen)
          /\ boot' = [boot EXCEPT !.step = "tick", !.d = None]
          /\ UNCHANGED op
       \/ /\ IsCurrent(boot.gen)
          /\ op' = [Idle EXCEPT !.who = "resume", !.step = "checks", !.d = boot.d]
          /\ UNCHANGED boot
    /\ UNCHANGED <<diskVars, hostVars, devVars, stateVars, procVars, worldVars,
                   boundVars, historyVars>>

\* Mutant of ForwardToRestore: isolates and restores a host that already forwarded.
ForwardToRestoreOn(recorded) == recorded \in {1, Torn}

\* forward_to_restore: the agent is the reason forwarding is on.
ForwardToRestore(recorded) == recorded = 0

\* Mutant of Moved: the uplink is looked for only while none is known.
MovedIfUnknown == uplink # None /\ wan = None

\* The default route left the uplink the rules were made for.
Moved == uplink # None /\ uplink # wan

\* One round of ticker(): expired passes leave the state, the file and the
\* device (whose errors are only logged); then, if the uplink is not the one
\* the rules were made for, the rules are replaced.
TickerRound ==
    /\ Free /\ boot.step = "tick" /\ desired # None
    /\ LET next == LivePeers(desired)
           shorter == next # desired
       IN /\ shorter \/ Moved
          /\ IF shorter
             THEN /\ desired' = next /\ saved' = next
                  /\ \/ ReconcileOk(next.peers) \/ ReconcileKept(next.peers)
                     \/ ReconcileErr(next.peers)
             ELSE UNCHANGED <<desired, saved, devPeers, faultsLeft>>
          /\ IF Moved
             THEN op' = [Idle EXCEPT !.who = "tick", !.step = "del", !.wan = uplink,
                                     !.isolate = ForwardToRestore(record)]
             ELSE UNCHANGED op
    /\ UNCHANGED <<record, hostVars, iface, live, wan, generation, lastError, watch,
                   procVars, boot, worldVars, hubLeft, crashesLeft, movesLeft, historyVars>>
-----------------------------------------------------------------------------
(* The steps of apply_desired, for the hub's apply and the boot resume.     *)

At(step) == op.step = step /\ op.who # "nobody"
Goto(step) == op' = [op EXCEPT !.step = step]

\* History: an apply that fails has ended the recovery that would bring the device of
\* an enabled exit back.
Abandoned == IF desired # None /\ live' = "none" THEN {"abandoned"} ELSE {}

\* An error returned: the hub's apply reports it, the resume tries again later,
\* the ticker keeps the old uplink on record and tries again.
Return(mishap) ==
    /\ op' = Idle
    /\ lastError' = IF op.who = "apply" THEN TRUE ELSE lastError
    /\ amiss' = mishap \cup (IF op.who = "apply" THEN (amiss \ {"abandoned"}) \cup Abandoned
                                                ELSE amiss)

Checks ==
    /\ At("checks")
    /\ UNCHANGED devVars
    /\ \/ Goto("iface") /\ NoFault /\ UNCHANGED <<lastError, amiss>>
       \/ Inject("prereq") /\ Return({})
    /\ UNCHANGED <<diskVars, hostVars, desired, wan, generation, watch, procVars, boot,
                   worldVars, hubLeft, crashesLeft, movesLeft, hubWord, bootRaced>>

EnsureIface ==
    /\ At("iface")
    /\ \/ EnsureIfaceOk("iface") /\ Goto("wan") /\ UNCHANGED <<lastError, amiss>>
       \/ EnsureIfaceErr("iface") /\ Return({})
    /\ UNCHANGED <<diskVars, hostVars, desired, wan, generation, watch, procVars,
                   boot, worldVars, hubLeft, crashesLeft, movesLeft, hubWord, bootRaced>>

FindWan ==
    /\ At("wan")
    /\ UNCHANGED devVars
    /\ \/ uplink # None /\ op' = [op EXCEPT !.step = "record", !.wan = uplink]
                        /\ UNCHANGED <<lastError, amiss>>
       \/ uplink = None /\ Return({})
    /\ UNCHANGED <<diskVars, hostVars, desired, wan, generation, watch, procVars,
                   boot, worldVars, boundVars, hubWord, bootRaced>>

\* Mutant of ForwardToRecord: an older record wins, even when forwarding is off now.
ForwardToRecordOldest(current, recorded) ==
    IF recorded # None THEN recorded ELSE current

\* forward_to_record: off now is what a disable returns to; on now keeps what
\* was recorded before, if anything was.
ForwardToRecord(current, recorded) ==
    IF current = 0 THEN 0 ELSE IF recorded # None THEN recorded ELSE current

\* record_forwarding: unlike desired.json, the record is written in place, so it
\* is empty between its truncation and its text.
RecordForwarding ==
    /\ At("record")
    /\ UNCHANGED devVars
    /\ \/ /\ record' = Torn
          /\ op' = [op EXCEPT !.step = "write", !.keep = ForwardToRecord(ipf, record)]
          /\ UNCHANGED <<lastError, faultsLeft, amiss>>
       \/ Inject("record") /\ Return({}) /\ UNCHANGED record
    /\ UNCHANGED <<saved, hostVars, desired, wan, generation, watch, procVars, boot,
                   worldVars, hubLeft, crashesLeft, movesLeft, hubWord, bootRaced>>

WriteRecord ==
    /\ At("write")
    /\ UNCHANGED devVars
    /\ \/ /\ record' = op.keep
          /\ op' = [op EXCEPT !.step = "del", !.isolate = ForwardToRestore(op.keep)]
          /\ UNCHANGED <<lastError, faultsLeft, amiss>>
       \/ Inject("record") /\ Return({"torn"}) /\ UNCHANGED record
    /\ UNCHANGED <<saved, hostVars, desired, wan, generation, watch, procVars, boot,
                   worldVars, hubLeft, crashesLeft, movesLeft, hubWord, bootRaced>>

\* The deletes of delete_tagged, top to bottom.  One that is refused is passed over: its
\* rule stays, below whatever is inserted next, until a later delete of it succeeds.
DeleteTagged(next) ==
    \/ fw # <<>> /\ fw' = Tail(fw) /\ NoFault /\ UNCHANGED <<op, stale>>
    \/ /\ fw # <<>> /\ Inject("delete")
       /\ fw' = Tail(fw)
       /\ stale' = stale \cup {Head(fw)}
       /\ op' = [op EXCEPT !.left = @ \cup {Head(fw)}]
    \/ fw = <<>> /\ stale' = op.left /\ Goto(next) /\ NoFault /\ UNCHANGED fw
    \/ /\ fw = <<>> /\ stale # op.left /\ Inject("delete")
       /\ op' = [op EXCEPT !.step = next, !.left = stale]
       /\ UNCHANGED <<fw, stale>>

\* run_plan: every tagged rule is deleted, then the new set is inserted in order; the
\* first insert that fails ends it.
DeleteRule ==
    /\ At("del") /\ DeleteTagged("ins")
    /\ UNCHANGED <<diskVars, ipf, fwWan, agentOn, devVars, stateVars, procVars, boot,
                   worldVars, hubLeft, crashesLeft, movesLeft, historyVars>>

\* Mutant of RulesDone: the last rule is not inserted.
RulesDoneShort == Len(fw) + 1 >= Len(Rules(op.isolate))
RulesDone == Len(fw) >= Len(Rules(op.isolate))

InsertRule ==
    /\ At("ins") /\ ~RulesDone
    /\ UNCHANGED devVars
    /\ \/ /\ fw' = Append(fw, Rules(op.isolate)[Len(fw) + 1])
          /\ fwWan' = op.wan
          /\ UNCHANGED <<op, lastError, faultsLeft, amiss>>
       \/ /\ Inject("rule") /\ Return({"cut"})
          /\ UNCHANGED <<fw, fwWan>>
    /\ UNCHANGED <<diskVars, ipf, stale, agentOn, desired, wan, generation, watch, procVars,
                   boot, worldVars, hubLeft, crashesLeft, movesLeft, hubWord, bootRaced>>

\* The ticker is done once its rules are in; an apply turns forwarding on.
RulesIn ==
    /\ At("ins") /\ RulesDone
    /\ IF op.who = "tick" THEN wan' = op.wan /\ op' = Idle
                          ELSE UNCHANGED wan /\ Goto("forward")
    /\ amiss' = amiss \ {"cut"}
    /\ UNCHANGED <<diskVars, hostVars, devVars, desired, generation, lastError, watch,
                   procVars, boot, worldVars, boundVars, hubWord, bootRaced>>

\* The write of ip_forward, whose error is dropped.
TurnForwardingOn ==
    /\ At("forward")
    /\ \/ /\ ipf' = 1 /\ agentOn' = (agentOn \/ ipf = 0)
          /\ amiss' = amiss \ {"dark"} /\ NoFault
       \/ /\ Inject("forward") /\ UNCHANGED <<ipf, agentOn>>
          /\ amiss' = IF ipf = 0 THEN amiss \cup {"dark"} ELSE amiss
    /\ Goto("peers")
    /\ UNCHANGED <<diskVars, fw, fwWan, stale, devVars, stateVars, procVars, boot, worldVars,
                   hubLeft, crashesLeft, movesLeft, hubWord, bootRaced>>

ReconcilePeers ==
    /\ At("peers")
    /\ LET d == LivePeers(op.d)
       IN \/ /\ ReconcileOk(d.peers)
             /\ op' = [op EXCEPT !.step = "commit", !.d = d, !.ok = TRUE]
             /\ amiss' = amiss \ {"kept"}
          \/ /\ ReconcileKept(d.peers)
             /\ op' = [op EXCEPT !.step = "commit", !.d = d, !.ok = TRUE]
             /\ amiss' = amiss \cup {"kept"}
          \/ /\ ReconcileErr(d.peers)
             /\ op' = [op EXCEPT !.step = "commit", !.d = d, !.ok = FALSE]
             /\ UNCHANGED amiss
    /\ UNCHANGED <<diskVars, hostVars, iface, live, stateVars, procVars, boot, worldVars,
                   hubLeft, crashesLeft, movesLeft, hubWord, bootRaced>>

\* ensure_watchdog: a thread is spawned only when WATCHING was off, and WATCHING is put
\* back when it could not be.
EnsureWatchdog ==
    \/ dog' = (dog \/ ~watching) /\ watching' = TRUE /\ NoFault
    \/ ~watching /\ Inject("spawn") /\ UNCHANGED <<dog, watching>>

\* shim_ensure, the state() block, and ensure_watchdog.
Commit ==
    /\ At("commit")
    /\ shim' = op.d.id
    /\ saved' = op.d /\ desired' = op.d /\ wan' = op.wan /\ lastError' = FALSE
    /\ watch' = FreshWatch
    /\ EnsureWatchdog
    /\ amiss' = (amiss \ {"abandoned", "unwatched"})
                   \cup (IF dog' THEN {} ELSE {"unwatched"})
    /\ hubWord' = IF op.who = "apply" THEN op.d ELSE hubWord
    /\ Goto("check")
    /\ UNCHANGED <<record, hostVars, devVars, generation, boot, worldVars, hubLeft,
                   crashesLeft, movesLeft, bootRaced>>

\* Mutant of Answered: a refused peer change does not fail the apply.
AnsweredAnyway(bad) == ~bad

\* 200 takes every peer change and a device that answers.
Answered(bad) == op.ok /\ ~bad

\* The check right after, and the answer.  A resume that is answered Ok is over.
CheckAndAnswer ==
    /\ At("check")
    /\ LET bad == Unhealthy(live, iface)
           answered == Answered(bad)
       IN /\ watch' = IF bad THEN Failed(watch, generation) ELSE watch
          /\ lastError' = IF op.who = "apply" THEN ~answered ELSE lastError
          /\ boot' = IF op.who = "resume" /\ answered
                     THEN [boot EXCEPT !.step = "tick", !.d = None] ELSE boot
    /\ op' = Idle
    /\ UNCHANGED <<diskVars, hostVars, devVars, desired, wan, generation, procVars,
                   worldVars, boundVars, historyVars>>
-----------------------------------------------------------------------------
(* The rest of disable_ep.                                                  *)

\* restore_forwarding: ip_forward first, and its record then, even if the write failed.
RestoreForwarding ==
    /\ At("restore")
    /\ \/ /\ ForwardToRestore(record)
          /\ ipf' = 0 /\ agentOn' = FALSE
          /\ amiss' = amiss \ {"torn", "stuck"} /\ NoFault
       \/ /\ ForwardToRestore(record) /\ Inject("forward")
          /\ amiss' = IF agentOn THEN amiss \cup {"stuck"} ELSE amiss
          /\ UNCHANGED <<ipf, agentOn>>
       \/ ~ForwardToRestore(record) /\ UNCHANGED <<ipf, agentOn, amiss, faultsLeft>>
    /\ Goto("unrecord")
    /\ UNCHANGED <<diskVars, fw, fwWan, stale, devVars, stateVars, procVars, boot, worldVars,
                   hubLeft, crashesLeft, movesLeft, hubWord, bootRaced>>

RemoveRecord ==
    /\ At("unrecord")
    /\ record' = None
    /\ Goto("unrule")
    /\ UNCHANGED <<saved, hostVars, devVars, stateVars, procVars, boot, worldVars,
                   boundVars, historyVars>>

\* Mutant of RemoveRules: the last tagged rule is left in place.
RemoveRulesButOne ==
    /\ At("unrule")
    /\ IF Len(fw) > 1 THEN fw' = Tail(fw) /\ UNCHANGED op
                      ELSE fw' = fw /\ Goto("down")
    /\ UNCHANGED <<diskVars, ipf, fwWan, stale, agentOn, devVars, stateVars, procVars, boot,
                   worldVars, boundVars, historyVars>>

RemoveRules ==
    /\ At("unrule") /\ DeleteTagged("down")
    /\ UNCHANGED <<diskVars, ipf, fwWan, agentOn, devVars, stateVars, procVars, boot,
                   worldVars, hubLeft, crashesLeft, movesLeft, historyVars>>

DisableEnd ==
    /\ At("down")
    /\ \/ IfaceDown /\ NoFault /\ amiss' = amiss \ {"linked"}
       \/ LinkStays /\ Inject("link") /\ amiss' = amiss \cup {"linked"}
    /\ op' = Idle
    /\ UNCHANGED <<diskVars, hostVars, stateVars, procVars, boot, worldVars, hubLeft,
                   crashesLeft, movesLeft, hubWord, bootRaced>>
-----------------------------------------------------------------------------
(* The watchdog.                                                            *)

\* Mutant of WatchdogEnds: the thread ends on what it saw before it took op().
WatchdogEndsAnyway ==
    /\ Free /\ dog
    /\ dog' = FALSE /\ watching' = FALSE
    /\ UNCHANGED <<diskVars, hostVars, devVars, stateVars, shim, boot, op, worldVars,
                   boundVars, historyVars>>

\* Seeing nothing desired, the thread clears WATCHING and ends.
WatchdogEnds ==
    /\ Free /\ dog /\ desired = None
    /\ dog' = FALSE /\ watching' = FALSE
    /\ UNCHANGED <<diskVars, hostVars, devVars, stateVars, shim, boot, op, worldVars,
                   boundVars, historyVars>>

\* step: a recovery that began under an older generation is dropped.
DropStale(w) ==
    IF w.episode # NoEpisode /\ w.episode # generation
    THEN [w EXCEPT !.episode = NoEpisode,
                   !.health = IF @ = "recovering" THEN "ok" ELSE @]
    ELSE w

\* step and the caller's handling of a failed check or rebuild: after giving up
\* the device is torn down and the error kept for the hub.
Unwell(w) ==
    /\ watch' = Failed(w, generation)
    /\ lastError' = (lastError \/ watch'.health = "failed")

\* step goes on with a recovery; it checks the device otherwise.
Rebuilds(w) == w.health # "failed" /\ w.episode # NoEpisode
Watches(w) == w.health # "failed" /\ w.episode = NoEpisode

WatchdogRound ==
    /\ Free /\ dog /\ desired # None
    /\ LET w == DropStale(watch)
           want == LivePeers(desired).peers
       IN \/ /\ ~Rebuilds(w) /\ ~(Watches(w) /\ Unhealthy(live, iface))
             /\ watch' = w
             /\ UNCHANGED <<devVars, lastError, faultsLeft>>
          \/ /\ Watches(w) /\ Unhealthy(live, iface)
             /\ Unwell(w)
             /\ IF watch'.health = "failed" THEN IfaceDown ELSE UNCHANGED devVars
             /\ NoFault
          \/ /\ Rebuilds(w)
             /\ RebuildOk(want)
             /\ watch' = [w EXCEPT !.health = "ok", !.episode = NoEpisode]
             /\ lastError' = FALSE
          \/ /\ Rebuilds(w)
             /\ Unwell(w)
             /\ RebuildErr(want)
             /\ watch'.health = "failed" => live' = "none"
    /\ UNCHANGED <<diskVars, hostVars, desired, wan, generation, procVars, boot, op,
                   worldVars, hubLeft, crashesLeft, movesLeft, historyVars>>
-----------------------------------------------------------------------------
(* The environment.                                                         *)

\* boringtun's worker panics or hangs, or a reply is missed.
WorkerDies ==
    /\ live = "user" /\ Inject("panic")
    /\ live' = "sick"
    /\ UNCHANGED <<diskVars, hostVars, iface, devPeers, stateVars, procVars, boot, op,
                   worldVars, hubLeft, crashesLeft, movesLeft, historyVars>>

\* Someone deletes the link.
IfaceVanishes ==
    /\ iface # "none" /\ Inject("vanish")
    /\ iface' = "none" /\ devPeers' = {}
    /\ UNCHANGED <<diskVars, hostVars, live, stateVars, procVars, boot, op, worldVars,
                   hubLeft, crashesLeft, movesLeft, historyVars>>

\* A failure leaves the window of WINDOW_SECS.
FailureAges ==
    /\ watch.failures > 0 /\ watch.health # "failed" /\ Free
    /\ watch' = [watch EXCEPT !.failures = @ - 1]
    /\ UNCHANGED <<diskVars, hostVars, devVars, desired, wan, generation, lastError,
                   procVars, boot, op, worldVars, boundVars, historyVars>>

PassExpires(p) ==
    /\ p \notin expired
    /\ expired' = expired \cup {p}
    /\ UNCHANGED <<diskVars, hostVars, devVars, stateVars, procVars, boot, op, uplink,
                   boundVars, historyVars>>

UplinkMoves(u) ==
    /\ movesLeft > 0 /\ u # uplink
    /\ movesLeft' = movesLeft - 1
    /\ uplink' = u
    /\ UNCHANGED <<diskVars, hostVars, devVars, stateVars, procVars, boot, op, expired,
                   hubLeft, crashesLeft, faultsLeft, historyVars>>

\* What a dead process leaves: the disk, the rules, ip_forward, and a kernel
\* interface with its peers; a TUN goes with the process.
ProcessLost ==
    /\ crashesLeft > 0 /\ crashesLeft' = crashesLeft - 1
    /\ desired' = None /\ wan' = None /\ generation' = 0 /\ lastError' = FALSE
    /\ watch' = FreshWatch
    /\ watching' = FALSE /\ dog' = FALSE /\ shim' = None /\ live' = "none"
    /\ boot' = BootStart
    /\ op' = Idle
    /\ UNCHANGED <<diskVars, worldVars, hubLeft, faultsLeft, movesLeft, hubWord, bootRaced>>

\* The agent dies (a kill, a panic, a self-update) and is started again.
AgentRestarts ==
    /\ ProcessLost
    /\ iface' = IF iface = "tun" THEN "none" ELSE iface
    /\ devPeers' = IF iface = "tun" THEN {} ELSE devPeers
    /\ amiss' = (amiss \ {"unwatched", "abandoned"}) \cup (IF At("write") THEN {"torn"} ELSE {})
    /\ UNCHANGED hostVars

\* The machine reboots: rules and interfaces are gone, ip_forward is whatever
\* the boot sets.
Reboots ==
    /\ ProcessLost
    /\ iface' = "none" /\ devPeers' = {}
    /\ ipf' \in BootForward /\ agentOn' = FALSE
    /\ fw' = <<>> /\ fwWan' = None /\ stale' = {}
    /\ amiss' = {}
-----------------------------------------------------------------------------
OpStep == \/ Checks \/ EnsureIface \/ FindWan \/ RecordForwarding \/ WriteRecord
          \/ DeleteRule \/ InsertRule \/ RulesIn \/ TurnForwardingOn
          \/ ReconcilePeers \/ Commit \/ CheckAndAnswer
          \/ RestoreForwarding \/ RemoveRecord \/ RemoveRules \/ DisableEnd

BootStep == BootReadGeneration \/ BootLoad \/ ResumeTurn

Environment ==
    \/ WorkerDies \/ IfaceVanishes \/ FailureAges
    \/ \E p \in Peers : PassExpires(p)
    \/ \E u \in Uplinks \cup {None} : UplinkMoves(u)
    \/ AgentRestarts \/ Reboots

Next ==
    \/ \E d \in HubConfigs : ApplyBegin(d)
    \/ DisableBegin
    \/ BootStep \/ TickerRound \/ OpStep
    \/ WatchdogEnds \/ WatchdogRound
    \/ Environment

Spec == Init /\ [][Next]_vars

\* Threads keep running: the holder of op() goes on, the boot thread, the ticker
\* and the watchdog come back after their sleeps.  The lock is not fair, and the
\* hub takes it a bounded number of times.
Fairness ==
    /\ WF_vars(OpStep)
    /\ WF_vars(BootReadGeneration) /\ WF_vars(BootLoad) /\ SF_vars(ResumeTurn)
    /\ SF_vars(TickerRound)
    /\ SF_vars(WatchdogEnds) /\ SF_vars(WatchdogRound)

FairSpec == Spec /\ Fairness
-----------------------------------------------------------------------------
Steps == {"idle", "checks", "iface", "wan", "record", "write", "del", "ins", "forward", "peers",
          "commit", "check", "restore", "unrecord", "unrule", "down"}

WatchType == [health : {"ok", "recovering", "failed"}, failures : Nat,
              episode : Nat \cup {NoEpisode}]
BootType == [step : {"gen", "load", "resume", "tick"}, gen : Nat, d : Desired \cup {None}]
OpType == [who : {"nobody", "apply", "resume", "tick", "disable"}, step : Steps,
           d : Desired \cup {None}, wan : Uplinks \cup {None}, keep : {0, 1, Torn, None},
           isolate : BOOLEAN, ok : BOOLEAN, left : SUBSET RuleTags]

\* The type of every variable; rules always name an uplink, and a watch, a boot
\* thread and a holder of op() are always complete (struct State, start, apply_desired).
TypeOK ==
    /\ saved \in Desired \cup {None} /\ record \in {0, 1, Torn, None}
    /\ ipf \in {0, 1} /\ fw \in Seq(RuleTags) /\ fwWan \in Uplinks \cup {None}
    /\ fw # <<>> => fwWan \in Uplinks
    /\ stale \in SUBSET RuleTags /\ agentOn \in BOOLEAN
    /\ iface \in {"none", "kernel", "tun"} /\ devPeers \in SUBSET Peers
    /\ live \in {"none", "kernel", "user", "sick"}
    /\ desired \in Desired \cup {None} /\ wan \in Uplinks \cup {None}
    /\ generation \in Nat /\ lastError \in BOOLEAN /\ watch \in WatchType
    /\ watching \in BOOLEAN /\ dog \in BOOLEAN /\ shim \in Relays \cup {None}
    /\ boot \in BootType /\ op \in OpType
    /\ uplink \in Uplinks \cup {None} /\ expired \in SUBSET Peers
    /\ hubLeft \in Nat /\ crashesLeft \in Nat /\ faultsLeft \in Nat /\ movesLeft \in Nat
    /\ hubWord \in Desired \cup {None} /\ bootRaced \in BOOLEAN
    /\ amiss \in SUBSET Mishaps

\* d is what the hub last settled, less passes that have expired since.
IsHubWord(d) ==
    IF hubWord = None THEN d = None
    ELSE /\ d # None /\ d.id = hubWord.id
         /\ d.peers \subseteq hubWord.peers
         /\ hubWord.peers \ d.peers \subseteq expired

\* "A hub apply that lands in between then either wrote the file we load, or
\* supersedes the resume" (start()): neither the boot resume, working on a file it
\* read before, nor the ticker ever brings back a state the hub has replaced.
HubHasLastWord ==
    /\ IsHubWord(saved)
    /\ desired # None => IsHubWord(desired)

\* The same, but for a boot thread that read the generation an apply had already
\* bumped and then the file it had not yet written: the one way round the check.
HubHasLastWordUnlessRaced == bootRaced \/ HubHasLastWord

\* The detailed exit implements the abstract one (ExitIntent).
Intent == INSTANCE ExitIntent WITH word <- hubWord, kept <- saved, running <- desired,
                                   lapsed <- expired, raced <- bootRaced
ImplementsIntent == Intent!Spec

\* A disabled exit is never brought back, whatever was in flight: not by a resume
\* that is retrying, not by the ticker, not by a recovery (README, "VPN exit").
DisabledStaysDisabled == hubWord = None => saved = None /\ desired = None

\* Whenever forwarding is on because of the agent, the record says to turn it off again,
\* across crashes and reboots at any step (record_forwarding before the write,
\* restore_forwarding before the record goes).  Two mishaps lose it until ip_forward is
\* 0 again: a write of the record cut in the middle, and a disable whose write of 0 was
\* refused, which removes the record all the same.
ForwardingRestorable ==
    agentOn => record = 0 \/ At("write") \/ "torn" \in amiss \/ "stuck" \in amiss

\* While the exit is enabled and no thread is replacing the rules, the rules are whole,
\* in order, made for the uplink of the apply under way or else of the state, and hold
\* the isolation rule if the agent is the reason forwarding is on; a record lost after
\* they were made does not change them.  From an insert that failed to the next complete
\* plan they are the beginning of such a set, its drops first (ensure_rules, run_plan).
RulesWhole ==
    desired # None /\ op.step \notin {"write", "del", "ins"} =>
        \E isolate \in BOOLEAN :
            /\ (isolate <=> record = 0) \/ (isolate /\ "torn" \in amiss)
            /\ \/ /\ fw = Rules(isolate)
                  /\ fwWan = IF op.step \in {"forward", "peers", "commit"} THEN op.wan ELSE wan
               \/ "cut" \in amiss /\ Begins(fw, Rules(isolate))

\* The agent turns forwarding on only behind the complete rules, isolation
\* included ("put the rules in place before forwarding goes on", apply_desired).
ForwardOnlyBehindRules ==
    [][agentOn' /\ ~agentOn => fw = Rules(TRUE)]_vars

\* A disable that runs to its end leaves no forwarding of the agent's, no record, no rule,
\* no interface, no device, no shim and nothing to resume, but for what the system has
\* refused to take away, each rest by itself: ip_forward whose write of 0 failed, the very
\* rules whose delete failed, a kernel link whose delete failed (disable_ep goes on, and
\* answers ok).
DisableIsClean ==
    [][op.who = "disable" /\ op' = Idle /\ UNCHANGED crashesLeft
         => /\ agentOn' => amiss' \cap {"torn", "stuck"} # {}
            /\ fw' = <<>> /\ stale' \subseteq op.left
            /\ iface' = "none" \/ (iface' = "kernel" /\ "linked" \in amiss')
            /\ record' = None /\ live' = "none" /\ shim' = None
            /\ saved' = None /\ desired' = None]_vars

\* An apply answered with 200 is running: the device is up and has every pass of the
\* request that is still valid and no other, behind the rules of the request's uplink,
\* with its shim up, and all of it is what a restart brings back.  What the code drops is
\* excepted, call by call: this apply's write of ip_forward refused by the kernel, a pass
\* `wg` did not remove, and a kernel link deleted meanwhile, which no check looks at.
OkMeansRunning ==
    [][At("check") /\ op' = Idle /\ op.who = "apply" /\ UNCHANGED crashesLeft
       /\ ~lastError'
         => /\ live' = "kernel" \/ (live' = "user" /\ iface' # "none")
            /\ iface' # "none" => /\ op.d.peers \subseteq devPeers'
                                  /\ (devPeers' = op.d.peers \/ "kept" \in amiss')
            /\ fw' = Rules(op.isolate) /\ fwWan' = op.wan
            /\ ipf' = 1 \/ "dark" \in amiss'
            /\ shim' = op.d.id /\ saved' = op.d /\ desired' = op.d]_vars

\* A pass that has expired is never put on the device, by no thread, whatever
\* list it works from (live_peers in apply_desired, rebuild and expiry_plan).
ExpiredNeverAdded ==
    [][\A p \in Peers : p \in expired /\ p \in devPeers' => p \in devPeers]_vars

\* After the watchdog gave up, the device stays down until an apply (or the
\* resume of a new process) brings it up: no recovery goes on.
FailedStaysDown ==
    [][watch.health = "failed" /\ live = "none" /\ live' # "none"
         => op.who \in {"apply", "resume"}]_vars

\* An enabled exit is never left unwatched: a watchdog thread exists whenever
\* something is desired, however disables, applies and the thread's own end fall, unless
\* the last commit could not spawn it; and WATCHING never stands for a thread that is not
\* there, so that the next commit tries again (WATCHING, ensure_watchdog).
EnabledIsWatched ==
    desired # None => /\ dog <=> watching
                      /\ dog \/ "unwatched" \in amiss

\* An enabled exit without a device is on record as recovering or failed, so
\* that the watchdog rebuilds it or the hub is told (health::step).
DownIsNotOk == desired # None /\ Free /\ live = "none" => watch.health # "ok"

\* What the README says of the rules and of ip_forward, at every moment between
\* two operations: "a tagged rule then drops every forwarded packet that does not
\* involve itai-wg".
IsolatedWhileForwarding == agentOn /\ Free => Installed("isolate")

\* An enabled exit whose device is gone or sick gets a device back, or is given up with
\* an error for the hub, or is disabled: never left as it is.  Two things may end that:
\* no watchdog could be spawned, or a later apply failed before its commit with the device
\* down, and the recovery is dropped as one "that apply rebuilt what it needed" for.
DeadComesBack ==
    (desired # None /\ live \notin {"user", "kernel"}) ~>
        (\/ live \in {"user", "kernel"} \/ watch.health = "failed" \/ desired = None
         \/ amiss \cap {"unwatched", "abandoned"} # {})

\* "Keep trying until it takes, unless the hub applies or disables in the
\* meantime": a resume the hub leaves alone gets through once there is a route, as
\* long as the worker of the device it made lives: before a commit no watchdog runs.
ResumeGetsThrough ==
    <>[](uplink # None /\ live # "sick") =>
        []((boot.step = "resume" /\ IsCurrent(boot.gen)) ~>
               (boot.step # "resume" \/ ~IsCurrent(boot.gen)))

\* The rules follow the uplink, all of them (ticker).  Only a boot resume that meets a
\* sick device nobody watches keeps its thread from ever becoming the ticker.
UplinkFollowed ==
    \A u \in Uplinks :
        (desired # None /\ uplink = u) ~>
            (\/ fwWan = u /\ fw = Rules(record = 0)
             \/ uplink # u \/ desired = None
             \/ "unwatched" \in amiss /\ live = "sick")

\* "Pass expiry is enforced on the device too": an expired pass leaves the device.
ExpiredLeaves ==
    \A p \in Peers : (p \in expired /\ desired # None) ~>
                          (p \notin devPeers \/ desired = None)
=============================================================================
