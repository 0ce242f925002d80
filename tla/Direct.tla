------------------------------- MODULE Direct -------------------------------
(* Calls of a controller (itai, it-ai-mcp) on one device: over the LAN when   *)
(* the route says so, and through the hub's relay otherwise.                  *)
(* crates/direct: call_device, route, probe, the route cache, settle;         *)
(* crates/agent: the gates of http.rs and the relay's self-call.              *)
(*                                                                            *)
(* Several calls may run at once, as the tools of one MCP session do. A       *)
(* request on the wire outlives the call that gave it up: the agent may serve *)
(* it later. The hub is external: it decides by tier, mints, forwards and     *)
(* keeps approvals, or cannot be reached. The clock is the agent's; the hub's *)
(* differs by `drift`.                                                        *)
EXTENDS Capability, Sequences

CONSTANTS
    Calls,          \* calls ever made
    Req,            \* per call, the request it sends: [path, detach, arg]
    Addrs,          \* LAN addresses
    Ips,            \* the addresses the hub reports for the device, in order
    TTL,            \* seconds a grant is good for
    Tiers,          \* tiers the hub's policy may change an operation to
    Starts,         \* settings a session may begin in
    MaxTime,        \* bound: last second of the model
    MaxOpen,        \* bound: calls under way at once
    MaxLate,        \* bound: given up LAN requests still on the wire at once
    MaxEvents       \* bound: moves, rotations, restarts and policy changes

Devices == {"device", "other"}   \* the device called, and another of the owner's

VARIABLES
    now, drift,
    tier,       \* hub: the tier of each operation
    hubTok,     \* hub: the direct token it hands out for the device
    agent,      \* per device: its direct token, whether it has the hub's key,
                \* and its cache of nonces
    shared,     \* the devices and the controller have the same password
    at,         \* per address, the device that has it
    route,      \* controller: the cached route, "none" when old or absent
    call,       \* per call: where it is, the address and token it uses, the
                \* addresses left to probe, the grant it probes with
    air,        \* LAN requests sent and not answered to their sender
    rel,        \* per call, what the hub makes of the relayed request
    told,       \* per call, what its caller was told
    events,
    runs,       \* history: the legs over which the operation ran
    gaveUp,     \* history: calls whose direct attempt failed in transport
    denied,     \* history: calls the hub or a human said no to
    spent,      \* history: grants the running agents accepted
    repeats     \* history: how long after its expiry one was accepted again

hub        == <<tier, hubTok, rel>>
agents     == <<agent, at, shared>>
controller == <<route, call, told>>
clocks     == <<now, drift>>
history    == <<runs, gaveUp, denied, spent, repeats>>
vars == <<clocks, hub, agents, controller, air, events, history>>

NoGrant == [nonce |-> "none"]

HubNow == now + drift

(* The hub's own name for the operation of a request: a command in the        *)
(* foreground and a detached one are two operations to its policy.            *)
Operation(r) ==
    IF r.path = "exec" /\ r.detach THEN <<"launch", r.arg>>
    ELSE IF r.path \in {"exec", "input"} THEN <<r.path, r.arg>>
    ELSE <<ClassOf(r.path), NoArg>>

Operations == {Operation(Req[c]) : c \in Calls}

(* The hub's clock is ahead of the agent's by `drift`; `shared`: both devices *)
(* and the controller have one password; `key`: the agent could fetch the     *)
(* hub's key; then the hub's policy and who has which address.                *)
Settings ==
    [drift : {d \in Int : d <= SKEW_SECS /\ -d <= SKEW_SECS},
     shared : BOOLEAN, key : BOOLEAN,
     tier : [Operations -> {"run", "privileged", "blocked"}],
     at : [Addrs -> Devices]]

ASSUME DirectConstantsOK ==
    /\ Ips \in Seq(Addrs)
    /\ TTL \in Nat /\ MaxTime \in Nat
    /\ MaxOpen \in Nat /\ MaxLate \in Nat /\ MaxEvents \in Nat
    /\ Tiers \subseteq {"run", "privileged", "blocked"}
    /\ \A s \in Starts : s \in Settings

Probing == <<"download", NoArg>>

Minted(c, kind, op) ==
    [dev |-> "device", op |-> op, iat |-> HubNow, exp |-> HubNow + TTL, nonce |-> <<c, kind>>]

Answers == {"ok", "failed", "refused"}

Approvals == {"pending", "running", "executed", "denied"}

-----------------------------------------------------------------------------
(* The controller: the route                                                 *)

At(pc, addr, tok) ==
    [pc |-> pc, addr |-> addr, tok |-> tok, left |-> <<>>, cap |-> NoGrant]

(* The step of a call that is past its route, and holds no address. *)
Goto(c, pc) == call' = [call EXCEPT ![c] = At(pc, "none", 0)]

Relay == [kind |-> "relay"]

(* The call goes on with the route it found or was just given. *)
Follow(c, r) ==
    IF r.kind = "direct" /\ OpFor(Req[c]) # NoCapability
    THEN call' = [call EXCEPT ![c] = At("mint", r.addr, r.tok)]
    ELSE Goto(c, "relay")

Put(c, r) == route' = r /\ Follow(c, r)

Begins(c) ==
    /\ call[c].pc = "start"
    /\ Cardinality({d \in Calls : call[d].pc \notin {"start", "done"}}) < MaxOpen

(* A cached route is used as it is. *)
UseRoute(c) ==
    /\ Begins(c)
    /\ route.kind # "none"
    /\ Follow(c, route)
    /\ UNCHANGED <<clocks, hub, agents, route, told, air, events, history>>

(* Without one the device is probed. GET /m/direct, and /m/ca for a process   *)
(* that has no client for the hub's CA yet: the device's addresses and token, *)
(* or the hub cannot say.                                                     *)
DirectInfo(c) ==
    /\ Begins(c)
    /\ route.kind = "none"
    /\ \/ /\ Ips # <<>>
          /\ call' = [call EXCEPT ![c].pc = "grant", ![c].left = Ips, ![c].tok = hubTok]
          /\ UNCHANGED route
       \/ Put(c, Relay)
    /\ UNCHANGED <<clocks, hub, agents, told, air, events, history>>

(* One `download` grant for the whole probe; without it there is no route. *)
ProbeGrant(c) ==
    /\ call[c].pc = "grant"
    /\ \/ /\ call' = [call EXCEPT ![c].pc = "probe",
                                  ![c].cap = Minted(c, "probe", Probing)]
          /\ UNCHANGED route
       \/ Put(c, Relay)
    /\ UNCHANGED <<clocks, hub, agents, told, air, events, history>>

(* A request to whoever has the address now. Where nobody answers, the call   *)
(* gives it up.                                                               *)
Sent(c, kind, addr, tok, cap) ==
    {[call |-> c, kind |-> kind, addr |-> addr, dev |-> at[addr],
      tok |-> tok, cap |-> cap, st |-> "sent"]}

(* The next address, or none is left and the device is on the relay. *)
ProbeSend(c) ==
    /\ call[c].pc = "probe"
    /\ \/ /\ call[c].left # <<>>
          /\ LET a == Head(call[c].left) IN
             /\ air' = air \cup Sent(c, "probe", a, call[c].tok, call[c].cap)
             /\ call' = [call EXCEPT ![c].pc = "probing", ![c].addr = a,
                                     ![c].left = Tail(@)]
          /\ UNCHANGED route
       \/ call[c].left = <<>> /\ Put(c, Relay) /\ UNCHANGED air
    /\ UNCHANGED <<clocks, hub, agents, told, events, history>>

Mine(c, kind) == {m \in air : m.call = c /\ m.kind = kind /\ m.addr = call[c].addr}

Answered(c, kind) == {m \in Mine(c, kind) : m.st \in Answers}

(* The address answered 200: it is the route. *)
ProbeYes(c) ==
    /\ call[c].pc = "probing"
    /\ \E m \in Answered(c, "probe") : m.st = "ok" /\ air' = air \ {m}
    /\ Put(c, [kind |-> "direct", addr |-> call[c].addr, tok |-> call[c].tok])
    /\ UNCHANGED <<clocks, hub, agents, told, events, history>>

Awaited(m) ==
    /\ call[m.call].pc = (IF m.kind = "op" THEN "wait" ELSE "probing")
    /\ call[m.call].addr = m.addr

(* The call stops waiting. Its request is lost with the connection, unless it *)
(* reached the agent, which then serves it all the same.                      *)
Abandon(c, kind) ==
    \/ air' = air \ Mine(c, kind)
    \/ /\ \E m \in Mine(c, kind) : m.st \notin Answers
       /\ Cardinality({m \in air : ~Awaited(m)}) < MaxLate
       /\ UNCHANGED air

(* Any other answer, or none within a second: the next address is tried. *)
ProbeNo(c) ==
    /\ call[c].pc = "probing"
    /\ Abandon(c, "probe")
    /\ call' = [call EXCEPT ![c].pc = "probe"]
    /\ UNCHANGED <<clocks, hub, agents, route, told, events, history>>

(* A cached decision is older than two minutes (and a call may ask for it). *)
RouteAges ==
    /\ route.kind # "none"
    /\ \E c \in Calls : call[c].pc = "start"
    /\ route' = [kind |-> "none"]
    /\ UNCHANGED <<clocks, hub, agents, call, told, air, events, history>>

-----------------------------------------------------------------------------
(* The controller: the direct leg                                            *)

(* What the caller is told: a result (an answer, a refusal or a decision), an *)
(* error of the transport, or that an approval is pending.                    *)
Tell(c, what) ==
    /\ told' = [told EXCEPT ![c] = what]
    /\ Goto(c, "done")

(* The hub allows the call and the request goes out with the grant.            *)
MintAndSend(c) ==
    /\ call[c].pc = "mint"
    /\ tier[OpFor(Req[c])] = "run"
    /\ air' = air \cup Sent(c, "op", call[c].addr, call[c].tok,
                            Minted(c, "op", OpFor(Req[c])))
    /\ call' = [call EXCEPT ![c].pc = "wait"]
    /\ UNCHANGED <<clocks, hub, agents, route, told, events, history>>

(* A privileged operation gets no grant, and neither does any call when the   *)
(* hub cannot be reached or understood: the relay decides.                    *)
MintNothing(c) ==
    /\ call[c].pc = "mint"
    /\ Goto(c, "relay")
    /\ UNCHANGED <<clocks, hub, agents, route, told, air, events, history>>

(* Mutant: a refusal by the hub sends the call over the relay. *)
MintRefusedThenRelay(c) ==
    /\ call[c].pc = "mint"
    /\ denied' = denied \cup {c}
    /\ Goto(c, "relay")
    /\ UNCHANGED <<clocks, hub, agents, route, told, air, events,
                   runs, gaveUp, spent, repeats>>

(* The hub said no, by the operation's tier or for a reason of its own: that *)
(* ends the call.                                                            *)
MintRefused(c) ==
    /\ call[c].pc = "mint"
    /\ denied' = denied \cup {c}
    /\ Tell(c, "result")
    /\ UNCHANGED <<clocks, hub, agents, route, air, events,
                   runs, gaveUp, spent, repeats>>

(* Mutant: only a 200 counts as the agent's answer. *)
PassedOnIfOk(st) == st = "ok"

(* The agent's own answer goes to the caller, errors of the handler included. *)
PassedOn(st) == st \in {"ok", "failed"}

Demote == route' = Relay

(* The answer is the call's, whatever the handler says; its body may still be *)
(* cut off on the way.                                                        *)
DirectAnswer(c) ==
    /\ call[c].pc = "wait"
    /\ \E m \in Answered(c, "op") :
          /\ PassedOn(m.st)
          /\ air' = air \ {m}
          /\ \E what \in {"result", "error"} : Tell(c, what)
    /\ UNCHANGED <<clocks, hub, agents, route, events, history>>

(* 401 and 403: this agent does not take the token or the grant. *)
DirectRefused(c) ==
    /\ call[c].pc = "wait"
    /\ \E m \in Answered(c, "op") : ~PassedOn(m.st) /\ air' = air \ {m}
    /\ Demote /\ Goto(c, "relay")
    /\ UNCHANGED <<clocks, hub, agents, told, events, history>>

(* No connection, a timeout or a lost answer. *)
DirectFails(c) ==
    /\ call[c].pc = "wait"
    /\ gaveUp' = gaveUp \cup {c}
    /\ Abandon(c, "op")
    /\ Demote /\ Goto(c, "relay")
    /\ UNCHANGED <<clocks, hub, agents, told, events, runs, denied, spent, repeats>>

-----------------------------------------------------------------------------
(* The controller: the relay leg and the wait for a human                    *)

(* The call goes to /m/<action>; it may not get there. The hub forwards,       *)
(* refuses, or stores it until a human decides, by the operation's tier.      *)
SendRelay(c) ==
    /\ call[c].pc = "relay"
    /\ Goto(c, "relaying")
    /\ \/ LET t == tier[Operation(Req[c])] IN
          /\ rel' = [rel EXCEPT ![c] = CASE t = "run" -> "queued"
                                         [] t = "blocked" -> "answered"
                                         [] t = "privileged" -> "pending"]
          /\ denied' = IF t = "blocked" THEN denied \cup {c} ELSE denied
       \/ UNCHANGED <<rel, denied>>
    /\ UNCHANGED <<clocks, tier, hubTok, agents, route, told, air, events,
                   runs, gaveUp, spent, repeats>>

(* The device's answer or the hub's refusal is read. *)
RelayAnswer(c) ==
    /\ call[c].pc = "relaying"
    /\ rel[c] = "answered"
    /\ Tell(c, "result")
    /\ UNCHANGED <<clocks, hub, agents, route, air, events, history>>

(* 202: an approval request was filed, and the call waits for a human. *)
Hold(c) ==
    /\ call[c].pc = "relaying"
    /\ rel[c] \in Approvals
    /\ Goto(c, "hold")
    /\ UNCHANGED <<clocks, hub, agents, route, told, air, events, history>>

(* The request, or its answer, is lost: the caller is told of an error. *)
RelayFails(c) ==
    /\ call[c].pc = "relaying"
    /\ Tell(c, "error")
    /\ UNCHANGED <<clocks, hub, agents, route, air, events, history>>

(* Settled::from_view: what an approval's state says is final. *)
Decided(view) == view \in {"executed", "denied"}

(* A poll of /m/approval sees a decision. *)
Settle(c) ==
    /\ call[c].pc = "hold"
    /\ Decided(rel[c])
    /\ Tell(c, "result")
    /\ UNCHANGED <<clocks, hub, agents, route, air, events, history>>

(* The wait is over and no poll saw a decision: the caller keeps the id. *)
WaitEnds(c) ==
    /\ call[c].pc = "hold"
    /\ Tell(c, "pending")
    /\ UNCHANGED <<clocks, hub, agents, route, air, events, history>>

-----------------------------------------------------------------------------
(* The agents                                                                *)

(* A request is answered; nobody reads the answer to one given up. *)
Respond(m, st) ==
    air' = (air \ {m}) \cup (IF Awaited(m) THEN {[m EXCEPT !.st = st]} ELSE {})

Authorized(m) == m.tok = agent[m.dev].tok \/ shared

OpOf(m) == IF m.kind = "probe" THEN Probing ELSE OpFor(Req[m.call])

(* The gates in front of the handler, up to the claim of the nonce: token or  *)
(* password, the hub's key, the window, and what the grant is bound to. The   *)
(* clock is read once for the window and the claim.                           *)
Gate(m) ==
    CASE ~Authorized(m) -> "unauthorized"
      [] ~agent[m.dev].key -> "no key"
      [] ~InWindow(m.cap, now) -> "out of window"
      [] ~Binds(m.cap, m.dev, OpOf(m)) -> "wrong"
      [] OTHER -> "ok"

Ran(c, leg) == runs' = [runs EXCEPT ![c] = @ \cup {leg}]

(* The hub allowed this very operation, on the device that runs it. *)
Permitted(m) == m.dev = "device" /\ m.cap.op = Operation(Req[m.call])

(* What the histories keep of an accepted claim. *)
Accept(m) ==
    /\ spent' = spent \cup {<<m.dev, m.cap.nonce>>}
    /\ repeats' = IF <<m.dev, m.cap.nonce>> \in spent
                  THEN repeats \cup {now - m.cap.exp} ELSE repeats

(* 401, or 403 before the cache was looked at. *)
TurnAway(m) ==
    /\ m.st = "sent"
    /\ Gate(m) # "ok"
    /\ Respond(m, "refused")
    /\ UNCHANGED <<clocks, hub, agents, controller, events, history>>

(* The nonce is claimed under the lock of the cache, or is spent already.     *)
(* Then the handler runs: the operation is done, well or not, or the agent    *)
(* has remote exec disabled. The probe reads the status of a job that does    *)
(* not exist.                                                                 *)
Serve(m) ==
    /\ m.st = "sent"
    /\ Gate(m) = "ok"
    /\ agent' = [agent EXCEPT ![m.dev].seen = Claimed(@, m.cap, now)]
    /\ IF Claimable(agent[m.dev].seen, m.cap, now)
       THEN /\ Accept(m)
            /\ \/ /\ m.kind = "op"
                  /\ Ran(m.call, IF Permitted(m) THEN "lan" ELSE "stray")
                  /\ \E st \in {"ok", "failed"} : Respond(m, st)
               \/ /\ m.kind = "op" /\ Req[m.call].path = "exec"
                  /\ Respond(m, "refused")
                  /\ UNCHANGED runs
               \/ /\ m.kind = "probe"
                  /\ Respond(m, "ok")
                  /\ UNCHANGED runs
       ELSE Respond(m, "refused") /\ UNCHANGED <<runs, spent, repeats>>
    /\ UNCHANGED <<clocks, hub, at, shared, controller, events, gaveUp, denied>>

(* handle_req: the relay's request is made to the agent's own loopback, past  *)
(* the gates of the LAN. It may fail, before or after the operation ran.      *)
(* Nobody gets the answer to a request that was given up.                     *)
RelayServe(c) ==
    /\ rel[c] = "queued"
    /\ rel' = [rel EXCEPT ![c] = IF call[c].pc = "relaying" THEN "answered" ELSE "none"]
    /\ Ran(c, "relay") \/ UNCHANGED runs
    /\ UNCHANGED <<clocks, tier, hubTok, agents, controller, air, events,
                   gaveUp, denied, spent, repeats>>

-----------------------------------------------------------------------------
(* The hub                                                                   *)

(* A human approves the request, or denies it, or nobody decides until it     *)
(* expires, which is told and counts like a denial.                           *)
Decide(c) ==
    /\ rel[c] = "pending"
    /\ \E d \in {"running", "denied"} :
          /\ rel' = [rel EXCEPT ![c] = d]
          /\ denied' = IF d = "running" THEN denied ELSE denied \cup {c}
    /\ UNCHANGED <<clocks, tier, hubTok, agents, controller, air, events,
                   runs, gaveUp, spent, repeats>>

(* The approved call is replayed once; it may fail to reach the device. *)
Replay(c) ==
    /\ rel[c] = "running"
    /\ rel' = [rel EXCEPT ![c] = "executed"]
    /\ Ran(c, "approval") \/ UNCHANGED runs
    /\ UNCHANGED <<clocks, tier, hubTok, agents, controller, air, events,
                   gaveUp, denied, spent, repeats>>

-----------------------------------------------------------------------------
(* The surroundings                                                          *)

Event == events < MaxEvents /\ events' = events + 1

(* Another device takes an address (DHCP). *)
Moves ==
    /\ Event
    /\ \E a \in Addrs, d \in Devices : d # at[a] /\ at' = [at EXCEPT ![a] = d]
    /\ UNCHANGED <<clocks, hub, agent, shared, controller, air, history>>

PolicyChanges ==
    /\ Event
    /\ \E o \in Operations, t \in Tiers : t # tier[o] /\ tier' = [tier EXCEPT ![o] = t]
    /\ UNCHANGED <<clocks, hubTok, rel, agents, controller, air, history>>

(* The device is enrolled anew: the hub hands out another token than the one  *)
(* its running agent was started with.                                        *)
Reenrolled ==
    /\ Event
    /\ hubTok' = hubTok + 1
    /\ UNCHANGED <<clocks, tier, rel, agents, controller, air, history>>

(* The agent starts anew: its token is the hub's, its cache is empty, the     *)
(* hub's key is there if it could be fetched; open connections are lost.      *)
Restarts ==
    /\ Event
    /\ \E key \in BOOLEAN :
          agent' = [agent EXCEPT !["device"] =
                      [tok |-> hubTok, key |-> key, seen |-> {}]]
    /\ air' = {m \in air : m.dev # "device" \/ m.st \in Answers}
    /\ spent' = {s \in spent : s[1] # "device"}
    /\ UNCHANGED <<clocks, hub, at, shared, controller,
                   runs, gaveUp, denied, repeats>>

(* Nothing but a grant depends on the time: it passes while one is under way. *)
Tick ==
    /\ now < MaxTime
    /\ air # {} \/ \E c \in Calls : call[c].cap # NoGrant
    /\ now' = now + 1
    /\ UNCHANGED <<drift, hub, agents, controller, air, events, history>>

-----------------------------------------------------------------------------
Init ==
    /\ now = SKEW_SECS
    /\ \E s \in Starts :
          /\ drift = s.drift /\ shared = s.shared /\ tier = s.tier /\ at = s.at
          /\ agent = [d \in Devices |-> [tok |-> IF d = "device" THEN 1 ELSE 0,
                                         key |-> d = "other" \/ s.key, seen |-> {}]]
    /\ hubTok = 1
    /\ route = [kind |-> "none"]
    /\ call = [c \in Calls |-> At("start", "none", 0)]
    /\ air = {}
    /\ rel = [c \in Calls |-> "none"]
    /\ told = [c \in Calls |-> "nothing"]
    /\ events = 0
    /\ runs = [c \in Calls |-> {}]
    /\ gaveUp = {} /\ denied = {}
    /\ spent = {} /\ repeats = {}

CallStep(c) ==
    \/ UseRoute(c) \/ DirectInfo(c) \/ ProbeGrant(c)
    \/ ProbeSend(c) \/ ProbeYes(c) \/ ProbeNo(c)
    \/ MintAndSend(c) \/ MintNothing(c) \/ MintRefused(c)
    \/ DirectAnswer(c) \/ DirectRefused(c) \/ DirectFails(c)
    \/ SendRelay(c) \/ RelayAnswer(c) \/ Hold(c) \/ RelayFails(c)
    \/ Settle(c) \/ WaitEnds(c)

Next ==
    \/ \E c \in Calls : CallStep(c)
    \/ RouteAges
    \/ \E m \in air : TurnAway(m) \/ Serve(m)
    \/ \E c \in Calls : RelayServe(c) \/ Decide(c) \/ Replay(c)
    \/ Moves \/ PolicyChanges \/ Reenrolled \/ Restarts \/ Tick

Spec == Init /\ [][Next]_vars

-----------------------------------------------------------------------------
Grants ==
    [dev : {"device"}, op : {OpFor(Req[c]) : c \in Calls} \cup {Probing},
     iat : Int, exp : Int, nonce : Calls \X {"probe", "op"}]

Messages ==
    [call : Calls, kind : {"probe", "op"}, addr : Addrs, dev : Devices, tok : Nat,
     cap : Grants, st : {"sent"} \cup Answers]

Routes ==
    [kind : {"none", "relay"}] \cup [kind : {"direct"}, addr : Addrs, tok : Nat]

PCs == {"start", "grant", "probe", "probing", "mint", "wait",
        "relay", "relaying", "hold", "done"}

Told == {"nothing", "result", "error", "pending"}

(* Every variable has its type: in particular a call that goes direct has an  *)
(* address, and a grant is for the device that is called.                     *)
TypeOK ==
    /\ now \in Nat /\ drift \in Int /\ events \in Nat /\ hubTok \in Nat
    /\ tier \in [Operations -> {"run", "privileged", "blocked"}]
    /\ agent \in [Devices -> [tok : Nat, key : BOOLEAN,
                   seen : SUBSET [nonce : Calls \X {"probe", "op"}, exp : Int]]]
    /\ shared \in BOOLEAN
    /\ at \in [Addrs -> Devices]
    /\ route \in Routes
    /\ call \in [Calls -> [pc : PCs, addr : Addrs \cup {"none"}, tok : Nat,
                           left : Seq(Addrs), cap : Grants \cup {NoGrant}]]
    /\ \A c \in Calls : call[c].pc \in {"probing", "mint", "wait"} => call[c].addr \in Addrs
    /\ air \subseteq Messages
    /\ rel \in [Calls -> {"none", "queued", "answered"} \cup Approvals]
    /\ told \in [Calls -> Told]
    /\ runs \in [Calls -> SUBSET {"lan", "stray", "relay", "approval"}]
    /\ gaveUp \subseteq Calls /\ denied \subseteq Calls
    /\ spent \subseteq Devices \X (Calls \X {"probe", "op"})
    /\ repeats \subseteq Int

(* Over the LAN an operation runs only on the device it was meant for, and    *)
(* only if the hub allowed this operation with this argument: the gates of    *)
(* http.rs give a direct call the control the relay has, whichever device     *)
(* answers on an address that was taken over, shared password or not.         *)
LanRunsAllowed ==
    \A c \in Calls : "stray" \notin runs[c]

(* One agent process accepts a nonce once, however requests, claims and the  *)
(* sweep of the cache interleave, but for the last second in which it takes  *)
(* the grant at all, SKEW_SECS after the expiry: the sweep of ReplayCache    *)
(* (cap/src/lib.rs:229) has dropped the nonce then, and the window (:191) is *)
(* still open. Within the grant's lifetime, and the rest of the leeway, it   *)
(* serves once.                                                              *)
GrantServesOnce ==
    \A late \in repeats : late = SKEW_SECS

(* Clocks that differ by no more than the leeway never make the agent refuse  *)
(* a grant that the hub's clock calls good.                                   *)
SkewTolerated ==
    \A m \in air :
        m.st = "sent" /\ HubNow <= m.cap.exp => Gate(m) # "out of window"

(* An operation runs a second time only when the direct attempt failed in     *)
(* transport: an agent's answer, and a refusal at its gates, never cause it.  *)
TwiceOnlyIfLost ==
    \A c \in Calls : Cardinality(runs[c]) > 1 => c \in gaveUp

(* What was on the wire when the direct attempt was given up may still run. *)
Late(c) == IF c \in gaveUp THEN {"lan"} ELSE {}

(* After the hub or a human said no the operation is not tried another way,   *)
(* whatever the policy becomes meanwhile.                                     *)
NoRunAfterDeny ==
    [][\A c \in denied : runs'[c] \subseteq runs[c] \cup Late(c)]_vars

(* Once the caller was told a result, a refusal or a decision, the operation  *)
(* does not run any more.                                                     *)
ToldMeansOver ==
    [][\A c \in Calls :
        told[c] = "result" =>
            runs'[c] \subseteq runs[c] \cup Late(c)]_vars
=============================================================================
