--------------------------------- MODULE Tunnel ---------------------------------
(* The agent's relay calls and where they go (crates/agent/src/relay.rs,       *)
(* relay_redirect.rs): the relay loop, its heartbeat, a thread for every       *)
(* request it polled, the redirects of a hub that moves and the base they      *)
(* teach. The requests that matter to the device are those of Schedules.      *)
(*                                                                             *)
(* The hub is external: it serves at one address and redirects from others.   *)
(* A URL is the address its endpoint is under. RelayCred has the credential   *)
(* of the same calls.                                                          *)
EXTENDS Schedules, Sequences, SequencesExt

CONSTANTS
    None,       \* no thread, no request
    Gone,       \* an address where nothing answers
    Hosts, Below,   \* host names, and the pairs <<f, t>> where t is f or a subdomain of f
    Addrs,      \* the addresses the hub may move to
    Relay,      \* the operator's --relay
    MaxHops,    \* MAX_HOPS
    Worlds      \* what the requests ask for, where the hub is at first, and the
                \* bounds of the environment

Addresses == [host : Hosts, tls : BOOLEAN, path : Seq(STRING)]
Ops    == [op : {"none", "add", "del", "other"}, id : Ids, again : BOOLEAN]
Bounds == {"moves", "restarts", "faults"}

ASSUME TunnelAssumption ==
    /\ Below \subseteq Hosts \X Hosts
    /\ \A h \in Hosts : <<h, h>> \in Below
    /\ \A f, g, h \in Hosts : <<f, g>> \in Below /\ <<g, h>> \in Below => <<f, h>> \in Below
    /\ Addrs \subseteq Addresses /\ Relay \in Addrs /\ Gone \notin Addrs
    /\ MaxHops \in Nat /\ MaxArms \in Nat
    /\ Worlds \subseteq [asks : [Requests -> Ops], first : Addrs, left : [Bounds -> Nat]]
    /\ {None, "nobody", "tick", "main", "beat"} \cap Requests = {}
    /\ None \notin {"main", "beat"}

VARIABLES
    world,      \* what each request asks for, and where the hub is at first
    base,       \* RelayCred::base
    lock,       \* the holder of hello_lock
    th,         \* the agent's threads
    serves,     \* the hub: where it answers
    sends,      \* per address: where it redirects, or Gone
    request,    \* the hub, per request: not made, queued, taken or answered
    left,       \* bounds: moves, restarts, faults
    served,     \* history: where the hub has answered
    astray      \* history: a base was learnt from a call begun on another one

agentVars == <<base, lock, th>>
hubVars   == <<serves, sends, request, served, astray>>
vars      == <<world, agentVars, hubVars, left, schedules>>

Costs(b) == left[b] > 0 /\ left' = [left EXCEPT ![b] = @ - 1]
NoFault  == UNCHANGED left

Threads == {"main", "beat"} \cup Requests
Off == [pc |-> "off", kind |-> "hello", from |-> Relay, at |-> Relay, hops |-> 0, got |-> None]
Ready(kind) == [Off EXCEPT !.pc = "ready", !.kind = kind]

\* What is at an address where the hub is not.
There(a) == IF a \in Addrs THEN sends[a] ELSE Gone

-----------------------------------------------------------------------------
(* One call: send.                                                           *)

Send(t) ==
    /\ th[t].pc = "ready"
    /\ IF th[t].kind = "hello" THEN lock = None /\ lock' = t ELSE UNCHANGED lock
    /\ th' = [th EXCEPT ![t].pc = "sent", ![t].from = base, ![t].at = base, ![t].hops = 0]
    /\ UNCHANGED <<world, base, hubVars, left, schedules>>

\* Mutant: any https host will do.
SameFamilyAnyHost(from, to) == to.tls

(* same_family, the ports left out.                                          *)
SameFamily(from, to) == to.tls /\ <<from.host, to.host>> \in Below

(* A redirect keeps the method and the body (307, 308) or does not; only a   *)
(* GET needs neither, and a streamed body is spent.                          *)
Followed(t) ==
    LET s == There(th[t].at) IN
    /\ SameFamily(th[t].at, s.to)
    /\ s.keeps \/ th[t].kind = "poll"
    /\ th[t].kind # "reply"
    /\ th[t].hops < MaxHops

\* The call is over, and with it what its thread was doing; a handler ends.
Finish(t, ok) ==
    /\ th' = [u \in Threads |->
          CASE u = t /\ t = "main" -> Ready(IF ok THEN "poll" ELSE "hello")
            [] u = t /\ t = "beat" -> Ready("hello")
            [] u = t /\ t \in Requests -> Off
            [] u = "beat" /\ t = "main" /\ ok /\ th[u].pc = "off" -> Ready("hello")
            [] u = th[t].got /\ ok -> [Off EXCEPT !.pc = "run"]
            [] OTHER -> th[u]]
    /\ lock' = IF lock = t THEN None ELSE lock

(* The address redirects: the same call goes there, or fails.                *)
Redirect(t) ==
    /\ th[t].pc = "sent" /\ th[t].at # serves /\ There(th[t].at) # Gone
    /\ IF Followed(t)
       THEN /\ th' = [th EXCEPT ![t].at = There(@).to, ![t].hops = @ + 1]
            /\ UNCHANGED lock
       ELSE Finish(t, FALSE)
    /\ UNCHANGED <<world, base, hubVars, left, schedules>>

(* Nothing answers there, or the network fails.                              *)
Fails(t) ==
    /\ th[t].pc = "sent"
    /\ IF th[t].at # serves /\ There(th[t].at) = Gone THEN NoFault ELSE Costs("faults")
    /\ Finish(t, FALSE)
    /\ UNCHANGED <<world, base, hubVars, schedules>>

(* What the hub does with it: a poll takes the next request, if there is one; *)
(* an answer is for the request it is the answer to.                         *)
Takes(t, got) ==
    CASE th[t].kind = "poll" ->
            IF got = None THEN (\A r \in Requests : request[r] # "queued") /\ UNCHANGED request
            ELSE request[got] = "queued" /\ request' = [request EXCEPT ![got] = "taken"]
      [] th[t].kind = "hello" -> got = None /\ UNCHANGED request
      [] OTHER -> got = None /\ request' = [request EXCEPT ![t] = "answered"]

(* The hub answers with a 2xx; or its answer is lost on the way.             *)
Land(t) ==
    /\ th[t].pc = "sent" /\ th[t].at = serves
    /\ \E got \in Requests \cup {None} :
          /\ Takes(t, got)
          /\ \/ /\ NoFault /\ UNCHANGED lock
                /\ th' = [th EXCEPT ![t].got = got,
                                  ![t].pc = IF th[t].hops > 0 THEN "learn" ELSE "end"]
             \/ Costs("faults") /\ Finish(t, FALSE)
    /\ UNCHANGED <<world, base, serves, sends, served, astray, schedules>>

\* The endpoint as learn sees it: what follows the base in the path.
Rest(b, from) == SubSeq(from.path, Len(b.path) + 1, Len(from.path))

\* Mutant: the base is set to where the call began.
MovedToFrom(b, from, at) == from

\* Where the endpoint `from` asked for lives now.
MovedTo(b, from, at) ==
    [at EXCEPT !.path = SubSeq(@, 1, Len(@) - Len(Rest(b, from)))]

(* learn: the base is read; the address the call was made to must be on it.  *)
Learn(t) ==
    LET from == th[t].from at == th[t].at
        onBase == /\ from.host = base.host /\ from.tls = base.tls
                  /\ IsPrefix(base.path, from.path)
                  /\ IsSuffix(Rest(base, from), at.path)
    IN /\ th[t].pc = "learn"
       /\ IF onBase
          THEN th' = [th EXCEPT ![t].pc = "move", ![t].at = MovedTo(base, from, at)]
          ELSE th' = [th EXCEPT ![t].pc = "end"]
       /\ astray' = (astray \/ (onBase /\ from # base))
       /\ UNCHANGED <<world, base, lock, serves, sends, request, served, left, schedules>>

(* ... and written, whatever it is by then.                                  *)
Moved(t) ==
    /\ th[t].pc = "move"
    /\ base' = th[t].at
    /\ th' = [th EXCEPT ![t].pc = "end"]
    /\ UNCHANGED <<world, lock, hubVars, left, schedules>>

(* The caller has its answer: a polled request gets a thread of its own.     *)
Ends(t) ==
    /\ th[t].pc = "end"
    /\ Finish(t, TRUE)
    /\ UNCHANGED <<world, base, hubVars, left, schedules>>

-----------------------------------------------------------------------------
(* handle_req: the request is done by the agent's own server.                *)

NoCall == UNCHANGED <<world, base, lock, hubVars>>

Handle(r) ==
    LET ask == world.asks[r] IN
    /\ th[r].pc = "run"
    /\ \/ /\ ask.op = "add" /\ Add(r, ask.id, ask.again)
          /\ th' = [th EXCEPT ![r].pc = "saving"] /\ NoFault
       \/ /\ ask.op = "del" /\ Del(r, ask.id)
          /\ th' = [th EXCEPT ![r].pc = "saving"] /\ NoFault
       \/ /\ ask.op = "other" /\ UNCHANGED schedules
          /\ th' = [th EXCEPT ![r] = Ready("reply")] /\ NoFault
       \/ /\ Costs("faults") /\ UNCHANGED schedules     \* the self-call fails
          /\ th' = [th EXCEPT ![r] = Ready("short")]
    /\ NoCall

(* A save ends; a request that made it is answered.                          *)
SaveEnds ==
    /\ \E how \in {"ok", "failed"} :
          /\ IF how = "ok" THEN NoFault ELSE Costs("faults")
          /\ Written(how)
    /\ th' = IF store.by \in Requests THEN [th EXCEPT ![store.by] = Ready("reply")] ELSE th
    /\ NoCall

OfSchedules == (Truncate \/ Scheduler \/ Clock) /\ NoCall /\ UNCHANGED <<th, left>>

(* The agent ends and starts: the base is the operator's address again.      *)
Restart ==
    /\ Costs("restarts")
    /\ base' = Relay /\ lock' = None
    /\ th' = [t \in Threads |-> IF t = "main" THEN Ready("hello") ELSE Off]
    /\ Reload
    /\ UNCHANGED <<world, hubVars>>

-----------------------------------------------------------------------------
(* The hub.                                                                  *)

Ask(r) ==
    /\ request[r] = "none" /\ world.asks[r].op # "none"
    /\ request' = [request EXCEPT ![r] = "queued"]
    /\ UNCHANGED <<world, agentVars, serves, sends, served, astray, left, schedules>>

(* It moves, and redirects from where it was, or from everywhere it was; or  *)
(* its old address answers no more.                                          *)
Moves(a) ==
    /\ Costs("moves") /\ a # serves
    /\ serves' = a /\ served' = served \cup {a}
    /\ \E keeps \in BOOLEAN :
          LET to == [to |-> a, keeps |-> keeps] IN
          sends' \in {[sends EXCEPT ![serves] = to], [sends EXCEPT ![serves] = Gone],
                      [x \in Addrs |-> IF x \in served THEN to ELSE Gone]}
    /\ UNCHANGED <<world, agentVars, request, astray, schedules>>

-----------------------------------------------------------------------------
Init ==
    /\ \E w \in Worlds : world = w /\ left = w.left
    /\ base = Relay /\ lock = None
    /\ th = [t \in Threads |-> IF t = "main" THEN Ready("hello") ELSE Off]
    /\ serves = world.first /\ served = {Relay, world.first}
    /\ sends = [x \in Addrs |-> IF x = Relay /\ x # serves THEN [to |-> serves, keeps |-> TRUE]
                                ELSE Gone]
    /\ request = [r \in Requests |-> "none"] /\ astray = FALSE
    /\ SchedulesInit

Called(t) == Redirect(t) \/ Fails(t) \/ Land(t) \/ Learn(t) \/ Moved(t) \/ Ends(t)

Next ==
    \/ \E t \in Threads : Send(t) \/ Called(t)
    \/ \E r \in Requests : Handle(r) \/ Ask(r)
    \/ SaveEnds \/ OfSchedules \/ Restart
    \/ \E a \in Addrs : Moves(a)

Spec == Init /\ [][Next]_vars

(* The threads run, hello_lock is given to who asks for it again and again,   *)
(* and every call has an answer or a time limit. The hub need not stay, and   *)
(* nothing has to fail.                                                       *)
FairSpec ==
    /\ Spec
    /\ \A t \in Threads : WF_vars(Called(t)) /\ SF_vars(Send(t))

-----------------------------------------------------------------------------
(* Every variable has its type. *)
TypeOK ==
    /\ SchedulesTypeOK
    /\ world \in Worlds
    /\ base \in Addresses /\ lock \in Threads \cup {None}
    /\ th \in [Threads -> [pc : {"off", "ready", "sent", "learn", "move", "end", "run", "saving"},
                           kind : {"hello", "poll", "reply", "short"}, from : Addresses,
                           at : Addresses, hops : 0 .. MaxHops, got : Requests \cup {None}]]
    /\ serves \in Addrs /\ served \subseteq Addrs
    /\ sends \in [Addrs -> [to : Addrs, keeps : BOOLEAN] \cup {Gone}]
    /\ request \in [Requests -> {"none", "queued", "taken", "answered"}]
    /\ left \in [Bounds -> Nat] /\ astray \in BOOLEAN

\* The operator's own address, or https on its host or below it.
AtHome(a) == a = Relay \/ (a.tls /\ <<Relay.host, a.host>> \in Below)

(* "The target is https and inside the host the operator already gave the      *)
(* token to": every request, which carries the token, goes to the operator's   *)
(* address or to https at or below its host, through all bases learnt, in any  *)
(* order, and all redirects followed.                                          *)
TokenStaysHome == AtHome(base) /\ \A t \in Threads : AtHome(th[t].at)

\* A hello at `a` gets to the hub, over the redirects the agent follows.
Leads(a) ==
    LET walk[n \in 0 .. MaxHops] ==
            IF n = 0 THEN {a}
            ELSE {sends[x].to : x \in {y \in walk[n - 1] :
                     /\ y # serves /\ There(y) # Gone
                     /\ SameFamily(y, sends[y].to) /\ sends[y].keeps}}
    IN \E n \in 0 .. MaxHops : serves \in walk[n]

(* "After the first call that lands it sends every later call straight to the  *)
(* new address": if the hub stays and leaves a way from everywhere it was,     *)
(* the agent's base ends up at its address for good, whatever old calls are    *)
(* still to teach it, unless one taught a base it was not begun on.            *)
Settles == <>[](~astray /\ \A a \in served : Leads(a)) => <>[](base = serves)

(* "Skipped if `started` was not built on the current base" (learn).           *)
LearnsFromBase == ~astray
================================================================================
