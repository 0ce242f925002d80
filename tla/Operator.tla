------------------------------- MODULE Operator -------------------------------
(* Tool calls of an operator's AI or command line (crates/mcp, crates/cli) on *)
(* one device: the requests a tool is made of, the hub's verdict on each, the *)
(* wait for a human, the pushes that poll the device's fetch job, and what    *)
(* the caller is told. Calls run beside each other, as an MCP client's do.    *)
(*                                                                            *)
(* The hub is external: by tier it runs a request, files an approval, refuses *)
(* it, or answers a dry run with its plan. Direct models the LAN leg; of it,  *)
(* a request that was given up on and is served later is left here.           *)
EXTENDS Files

CONSTANTS
    Calls,      \* tool calls ever made
    MaxPolls,   \* polls of /m/file-status a push makes (300 in the code)
    Worlds      \* what the tools are, the hub's tiers, the budgets

VARIABLES
    world,
    call,       \* per call: where it is, the request it is at, its polls
    reply,      \* per call, the hub's answer to the request under way
    approval,   \* hub, per request: its approval
    told,       \* per call, what its caller was told
    late,       \* requests given up on and still on their way
    queue,      \* agent: the channel to the injector thread
    keys,       \* device: the keys that are down
    left,       \* bounds
    ran,        \* history: requests that ran
    gaveUp,     \* history: calls with a request in `late`, once
    away,       \* history: requests that were turned away
    unheard     \* history: requests that ran and whose answer was lost

device == <<files, queue, keys, ran>>
vars   == <<world, call, reply, approval, told, late, left, gaveUp, away, unheard, device>>

Bounds == {"lost", "restarts", "lates", "offline", "unheard"}

(* The arguments of a tool, as far as they decide: the file it sends, the     *)
(* call whose approval it looks up, whether it is a dry run, whether the      *)
(* command line makes it, and whether a MoorAI receipt comes with it.         *)
Kinds == {"press", "type", "exec", "read", "upload", "push", "hub", "job", "check"}

Tools == [kind : Kinds, dry : BOOLEAN, file : FileNames, of : Calls, cli : BOOLEAN, receipt : BOOLEAN]

WorldSet == [tools : [Calls -> Tools], tiers : SUBSET {"run", "privileged", "blocked"},
             injects : BOOLEAN, named : BOOLEAN,
             folder : Folders, faults : Nat, budget : [Bounds -> Nat]]

Tool(c) == world.tools[c]

(* click and press_key send two events, type_text two for each character;    *)
(* push_file stages the file and has the device fetch it; every other tool   *)
(* is one request, to the device (run_command, screenshot, download_file,    *)
(* upload_file), to the hub's own actions, or to /m/job.                     *)
KeyRequests  == [press |-> <<"down", "up">>, type |-> <<"down", "up", "down", "up">>]
PushRequests == <<"stage", "fetch">>
DeviceKinds  == {"exec", "read", "upload"}
HubKinds     == {"hub"}
JobKinds     == {"job"}

Requests(t) ==
    CASE t.kind \in DOMAIN KeyRequests -> KeyRequests[t.kind]
      [] t.kind = "push" -> PushRequests
      [] OTHER -> <<t.kind>>

(* What itai can ask for: exec, get, put and approval; job start, stop, list.*)
CliJobs  == {"job"}
CliKinds == {"exec", "read", "upload", "check"} \cup CliJobs

(* A dry run of a push stages nothing.                                       *)
First(t) == IF t.kind = "push" /\ t.dry THEN 2 ELSE 1

Request(r) == Requests(Tool(r[1]))[r[2]]
Now(c)     == <<c, call[c].n>>

(* `dry_run` goes with the first request only.                               *)
Dry(c) == Tool(c).dry /\ call[c].n = First(Tool(c))

(* A receipt goes along with every request of its call, except a dry run's.  *)
Carries(c) == Tool(c).receipt /\ ~Tool(c).dry

(* `input`: an event is not held while a human decides; nor is `itai get`.   *)
IsInput(t) == t.kind \in DOMAIN KeyRequests
GetOnce(t) == t.cli /\ t.kind = "read"
Waits(t)   == ~IsInput(t) /\ ~GetOnce(t)

(* What `itai` lets a script know: its exit code (exec hands on the          *)
(* command's own).                                                           *)
ExitCode(what) ==
    IF what \in {"done", "approved", "dryrun"} THEN "exit 0"
    ELSE IF what = "pending" THEN "exit 75" ELSE "exit 1"

ASSUME OperatorConstantsOK ==
    /\ MaxPolls \in Nat \ {0} /\ IsFiniteSet(Calls)
    /\ Fetches = Calls \X {"pull"} /\ Uploads = Calls \X {"asked", "late"}
    /\ \A w \in Worlds :
          /\ w \in WorldSet
          /\ \A c \in Calls : w.tools[c].cli => w.tools[c].kind \in CliKinds

-----------------------------------------------------------------------------
(* The device                                                                *)

(* /input: the event goes to the injector's channel, if that thread runs,    *)
(* and the answer is "ok" either way.                                        *)
InputEp(what) == queue' = IF world.injects THEN Append(queue, what) ELSE queue

(* /download: the file, if the destination is one.                           *)
Downloads == ResolvePath /\ dest # 0

(* What a request does there once it is served.                              *)
OnDevice(r, leg) ==
    LET what == Request(r)
        f == Tool(r[1]).file
    IN /\ \/ /\ what \in {"down", "up"}
             /\ InputEp(what)
             /\ UNCHANGED files
          \/ /\ what = "fetch"
             /\ FetchFile(<<r[1], "pull">>, f)
             /\ UNCHANGED queue
          \/ /\ what = "upload"
             /\ UpOpen(<<r[1], leg>>, f)
             /\ UNCHANGED queue
          \/ /\ what \in {"stage", "exec", "hub", "job"} \/ (what = "read" /\ Downloads)
             /\ UNCHANGED <<files, queue>>
       /\ ran' = ran \cup {r}
       /\ UNCHANGED keys

(* The agent or its session turns the request away, or cannot be reached.    *)
TurnedAway(r) ==
    /\ \/ left.offline > 0 /\ left' = [left EXCEPT !.offline = @ - 1]
       \/ /\ \/ Request(r) = "fetch" /\ ~ResolvePath
             \/ Request(r) = "upload" /\ ~(ResolvePath /\ folder.dir.there)
             \/ Request(r) = "read" /\ ~Downloads
          /\ UNCHANGED left
    /\ away' = away \cup {r}
    /\ UNCHANGED unheard

(* It runs, and its answer does not get through: the agent's reply to the    *)
(* hub fails and is not sent again, or the hub's time for it is over. The    *)
(* hub answers for it with an error.                                         *)
Unheard(r) ==
    /\ left.unheard > 0 /\ left' = [left EXCEPT !.unheard = @ - 1]
    /\ unheard' = unheard \cup {r}
    /\ UNCHANGED away

(* The keys that map_key knows, or that are one character.                   *)
MapKey == IF world.named THEN {"key"} ELSE {}

(* The injector takes the next event off its channel.                        *)
Inject ==
    /\ queue # <<>>
    /\ keys' = IF Head(queue) = "down" THEN keys \cup MapKey ELSE keys \ MapKey
    /\ queue' = Tail(queue)
    /\ UNCHANGED <<world, call, reply, approval, told, late, left, gaveUp, away, unheard, files, ran>>

Pull(j) ==
    /\ FetchStep(j)
    /\ UNCHANGED <<world, call, reply, approval, told, late, left, gaveUp, away, unheard, queue, keys, ran>>

Write(u) ==
    /\ UpWrite(u)
    /\ UNCHANGED <<world, call, reply, approval, told, late, left, gaveUp, away, unheard, queue, keys, ran>>

(* An upload is over: whoever asked for it has the answer.                   *)
Written(u) ==
    /\ \E how \in {"ok", "failed"} :
          LET c == u[1] r == <<c, 1>> IN
          /\ UpEnds(u, how)
          /\ reply' = IF u[2] = "asked" /\ reply[c] = "served"
                      THEN [reply EXCEPT ![c] = IF how = "ok" THEN "done" ELSE "failed"] ELSE reply
          /\ approval' = IF u[2] = "asked" /\ approval[r] = "served"
                         THEN [approval EXCEPT ![r] = IF how = "ok" THEN "executed" ELSE "failed"]
                         ELSE approval
    /\ UNCHANGED <<world, call, told, late, left, gaveUp, away, unheard, queue, keys, ran>>

(* The agent starts again: what it was doing for somebody ended.             *)
Restart ==
    /\ left.restarts > 0
    /\ left' = [left EXCEPT !.restarts = @ - 1]
    /\ FilesRestart
    /\ queue' = <<>>
    /\ reply' = [c \in Calls |-> IF reply[c] = "served" THEN "failed" ELSE reply[c]]
    /\ approval' = [r \in DOMAIN approval |-> IF approval[r] = "served" THEN "failed" ELSE approval[r]]
    /\ UNCHANGED <<world, call, told, late, gaveUp, away, unheard, keys, ran>>

-----------------------------------------------------------------------------
(* The hub                                                                   *)

Asked(c) == call[c].pc = "sent" /\ reply[c] = "none"

Answer(c, a) == reply' = [reply EXCEPT ![c] = a]

(* It runs: the request goes to the device, or is answered for it. A receipt *)
(* may stand for the human.                                                  *)
Serve(c) ==
    /\ Asked(c) /\ ~Dry(c)
    /\ "run" \in world.tiers \/ ("privileged" \in world.tiers /\ Carries(c))
    /\ \/ /\ OnDevice(Now(c), "asked")
          /\ Answer(c, IF Request(Now(c)) = "upload" THEN "served" ELSE "done")
          /\ UNCHANGED <<left, away, unheard>>
       \/ /\ OnDevice(Now(c), "asked") /\ Unheard(Now(c))
          /\ Answer(c, "failed")
       \/ /\ TurnedAway(Now(c))
          /\ Answer(c, "failed")
          /\ UNCHANGED device
    /\ UNCHANGED <<world, call, approval, told, late, gaveUp>>

(* It does not run: the plan, an approval to wait for, or a refusal.         *)
Verdict(c) ==
    /\ Asked(c)
    /\ \/ /\ Dry(c)
          /\ Answer(c, "dryrun")
          /\ UNCHANGED approval
       \/ /\ ~Dry(c) /\ "privileged" \in world.tiers
          /\ approval' = [approval EXCEPT ![Now(c)] = "pending"]
          /\ Answer(c, "pending")
       \/ /\ ~Dry(c) /\ "blocked" \in world.tiers
          /\ Answer(c, "refused")
          /\ UNCHANGED approval
    /\ UNCHANGED <<world, call, told, late, left, gaveUp, away, unheard, device>>

(* A human approves or denies, or nobody does in time.                       *)
Decide(r) ==
    /\ approval[r] = "pending"
    /\ \E d \in {"running", "denied", "expired"} : approval' = [approval EXCEPT ![r] = d]
    /\ UNCHANGED <<world, call, reply, told, late, left, gaveUp, away, unheard, device>>

(* What was approved is replayed, once.                                      *)
Replay(r) ==
    /\ approval[r] = "running"
    /\ \/ /\ OnDevice(r, "asked")
          /\ approval' = [approval EXCEPT ![r] = IF Request(r) = "upload" THEN "served" ELSE "executed"]
          /\ UNCHANGED <<left, away, unheard>>
       \/ /\ OnDevice(r, "asked") /\ Unheard(r)
          /\ approval' = [approval EXCEPT ![r] = "failed"]
       \/ /\ TurnedAway(r)
          /\ approval' = [approval EXCEPT ![r] = "failed"]
          /\ UNCHANGED device
    /\ UNCHANGED <<world, call, reply, told, late, gaveUp>>

-----------------------------------------------------------------------------
(* The tools                                                                 *)

Stop(c, what) ==
    /\ call' = [call EXCEPT ![c].pc = "done"]
    /\ told' = [told EXCEPT ![c] = IF Tool(c).cli THEN ExitCode(what) ELSE what]
    /\ reply' = [reply EXCEPT ![c] = "none"]

(* The request at hand ran: the next one, the polls, or the end.             *)
Go(c, what) ==
    IF call[c].n < Len(Requests(Tool(c)))
    THEN /\ call' = [call EXCEPT ![c].pc = "ready", ![c].n = @ + 1]
         /\ reply' = [reply EXCEPT ![c] = "none"]
         /\ UNCHANGED told
    ELSE IF Tool(c).kind = "push"
    THEN /\ call' = [call EXCEPT ![c].pc = "poll"]
         /\ reply' = [reply EXCEPT ![c] = "none"]
         /\ UNCHANGED told
    ELSE Stop(c, what)

Still == UNCHANGED <<world, approval, late, left, gaveUp, away, unheard, device>>

(* resolve: one device has the name, or it is an error.                      *)
Resolve(c) ==
    /\ call[c].pc = "new" /\ Tool(c).kind # "check"
    /\ \/ /\ call' = [call EXCEPT ![c].pc = "ready", ![c].n = First(Tool(c))]
          /\ UNCHANGED <<told, reply>>
       \/ Stop(c, "error")
    /\ Still

Ask(c) ==
    /\ call[c].pc = "ready"
    /\ call' = [call EXCEPT ![c].pc = "sent"]
    /\ UNCHANGED <<reply, told>> /\ Still

(* The LAN attempt got no answer and its request is still on the wire; the   *)
(* call goes on over the relay. The jobs and the staged pushes have no such  *)
(* leg.                                                                      *)
LanGivesUp(c) ==
    /\ Asked(c) /\ ~Dry(c) /\ "run" \in world.tiers
    /\ IsInput(Tool(c)) \/ Tool(c).kind \in DeviceKinds
    /\ left.lates > 0
    /\ left' = [left EXCEPT !.lates = @ - 1]
    /\ late' = late \cup {Now(c)}
    /\ gaveUp' = gaveUp \cup {c}
    /\ UNCHANGED <<world, call, reply, approval, told, away, unheard, device>>

LateServed(r) ==
    /\ r \in late
    /\ late' = late \ {r}
    /\ OnDevice(r, "late") \/ UNCHANGED device
    /\ UNCHANGED <<world, call, reply, approval, told, left, gaveUp, away, unheard>>

(* The answer to a request is read.                                          *)
(* Input takes any answer that is no refusal and no request for an approval  *)
(* for the event having run; the other tools tell an error by its body.      *)
Take(c) ==
    /\ call[c].pc = "sent"
    /\ \/ reply[c] = "done" /\ Go(c, "done")
       \/ reply[c] = "failed" /\ IsInput(Tool(c)) /\ Go(c, "done")
       \/ reply[c] = "failed" /\ ~IsInput(Tool(c)) /\ Stop(c, "failed")
       \/ reply[c] \in {"dryrun", "refused"} /\ Stop(c, reply[c])
       \/ reply[c] = "pending" /\ ~Waits(Tool(c)) /\ Stop(c, "pending")
       \/ /\ reply[c] = "pending" /\ Waits(Tool(c))
          /\ call' = [call EXCEPT ![c].pc = "held"]
          /\ UNCHANGED <<told, reply>>
    /\ Still

(* The connection to the hub breaks, or a time limit passes: the request was *)
(* served, never will be, or still is on its way.                            *)
Breaks(c) ==
    /\ call[c].pc = "sent"
    /\ left.lost > 0
    /\ left' = [left EXCEPT !.lost = @ - 1]
    /\ \/ UNCHANGED <<late, gaveUp>>
       \/ /\ Asked(c) /\ ~Dry(c) /\ "run" \in world.tiers
          /\ late' = late \cup {Now(c)}
          /\ gaveUp' = gaveUp \cup {c}
    /\ Stop(c, "error")
    /\ UNCHANGED <<world, approval, away, unheard, device>>

\* Mutant: an approval that runs counts as executed.
FromViewEarly(v) ==
    IF v \in {"running", "executed"} THEN "executed"
    ELSE IF v \in {"failed", "denied", "expired"} THEN v ELSE "none"

(* Settled::from_view: none while it is pending or running. "failed" is      *)
(* executed, with a result that says ok: false.                              *)
FromView(v) == IF v \in {"executed", "failed", "denied", "expired"} THEN v ELSE "none"

(* A poll of /m/approval finds it decided.                                   *)
Settle(c) ==
    LET s == FromView(approval[Now(c)]) IN
    /\ call[c].pc = "held"
    /\ \/ s = "executed" /\ Go(c, "approved")
       \/ s \in {"failed", "denied", "expired"} /\ Stop(c, s)
    /\ Still

(* The wait runs out first: the approval's id is the caller's to keep.       *)
WaitEnds(c) ==
    /\ call[c].pc = "held"
    /\ Stop(c, "pending")
    /\ Still

ToldToWait == {"pending", "exit 75"}

(* approval_status, itai approval: one look at what another call was told to *)
(* wait for.                                                                 *)
Lookup(c) ==
    LET of == Tool(c).of s == FromView(approval[Now(of)]) IN
    /\ call[c].pc = "new" /\ Tool(c).kind = "check"
    /\ told[of] \in ToldToWait
    /\ Stop(c, IF s \in {"executed", "failed"} THEN "approved" ELSE IF s = "none" THEN "pending" ELSE s)
    /\ Still

Polled(c, n) == call' = [call EXCEPT ![c].polls = n] /\ UNCHANGED <<told, reply>>

\* Mutant: the polls go on until the job is over.
MorePollsTillDone(c) == UNCHANGED <<call, told, reply>>

\* One more of the polls is used up.
MorePolls(c) ==
    IF call[c].polls + 1 < MaxPolls THEN Polled(c, call[c].polls + 1) ELSE Stop(c, "timeout")

(* A poll of the device's fetch job: over, or not over or not answered.      *)
Poll(c) ==
    LET st == FileStatus(<<c, "pull">>) IN
    /\ call[c].pc = "poll"
    /\ \/ st = "ok" /\ Stop(c, "done")
       \/ st = "failed" /\ Stop(c, "transfer failed")
       \/ MorePolls(c)
    /\ Still

-----------------------------------------------------------------------------
Init ==
    /\ \E w \in Worlds :
          /\ world = w /\ folder = w.folder /\ faults = w.faults /\ left = w.budget
    /\ FilesInit
    /\ call = [c \in Calls |-> [pc |-> "new", n |-> 1, polls |-> 0]]
    /\ reply = [c \in Calls |-> "none"]
    /\ approval = [r \in Calls \X (1 .. 4) |-> "none"]
    /\ told = [c \in Calls |-> "none"]
    /\ late = {} /\ queue = <<>> /\ keys = {} /\ ran = {} /\ gaveUp = {}
    /\ away = {} /\ unheard = {}

OfTool(c)  == Ask(c) \/ Take(c) \/ Settle(c) \/ WaitEnds(c) \/ Poll(c)
OfHub(c)   == Serve(c) \/ Verdict(c)
OfAgent    == Inject \/ (\E j \in Fetches : Pull(j)) \/ \E u \in Uploads : Write(u) \/ Written(u)
OfOthers   == \/ Restart
              \/ \E r \in DOMAIN approval : Decide(r) \/ Replay(r) \/ LateServed(r)
              \/ \E c \in Calls : Breaks(c) \/ LanGivesUp(c)

Next == OfAgent \/ OfOthers
        \/ \E c \in Calls : Resolve(c) \/ Lookup(c) \/ OfTool(c) \/ OfHub(c)

Spec == Init /\ [][Next]_vars

(* The tool's own steps and its clock; the hub answers; the agent's threads  *)
(* run. A human need not decide, and nothing has to fail.                    *)
FairSpec ==
    /\ Spec
    /\ \A c \in Calls : WF_vars(OfTool(c)) /\ WF_vars(OfHub(c))
    /\ \A u \in Uploads : WF_vars(Write(u)) /\ WF_vars(Written(u))

-----------------------------------------------------------------------------
(* Every variable has its type. *)
TypeOK ==
    /\ FilesTypeOK
    /\ world \in Worlds
    /\ call \in [Calls -> [pc : {"new", "ready", "sent", "held", "poll", "done"},
                           n : 1 .. 4, polls : 0 .. MaxPolls]]
    /\ reply \in [Calls -> {"none", "served", "done", "failed", "pending", "refused", "dryrun"}]
    /\ approval \in [Calls \X (1 .. 4) -> {"none", "pending", "running", "served", "executed",
                                           "failed", "denied", "expired"}]
    /\ told \in [Calls -> {"none", "done", "failed", "transfer failed", "error", "dryrun", "pending", "approved",
                           "denied", "expired", "refused", "timeout",
                           "exit 0", "exit 1", "exit 75"}]
    /\ late \subseteq Calls \X (1 .. 4) /\ ran \subseteq Calls \X (1 .. 4)
    /\ queue \in Seq({"down", "up"}) /\ keys \subseteq {"key"}
    /\ left \in [Bounds -> Nat] /\ gaveUp \subseteq Calls
    /\ away \subseteq Calls \X (1 .. 4) /\ unheard \subseteq Calls \X (1 .. 4)

(* Input() takes an event whose answer was an error for one that ran.        *)
Went(r) == r \in ran \/ (IsInput(Tool(r[1])) /\ r \in away)

(* What a caller is told of a tool's requests fits what became of them, one   *)
(* looked up by approval_status aside. A call that stopped at a request had   *)
(* every request before it run, and none after it ever runs. At the request   *)
(* itself: what was refused, denied, expired or only planned never runs, and  *)
(* what was told to wait runs only if a human approved it; only a request     *)
(* given up on may have run besides. What is told to have run did, to its     *)
(* last request; of a key or a click told to be pressed no event was held or  *)
(* refused, and one that did not run was answered with an error.              *)
StopsWhereTold ==
    \A c \in Calls : told[c] # "none" /\ Tool(c).kind # "check" =>
        /\ \A m \in 1 .. call[c].n - 1 : Tool(c).dry \/ Went(<<c, m>>)
        /\ \A m \in 1 .. 4 : m > call[c].n => <<c, m>> \notin ran
        /\ told[c] \in {"dryrun", "refused", "denied", "expired"} /\ Now(c) \in ran => c \in gaveUp
        /\ told[c] \in ToldToWait /\ Now(c) \in ran
           => approval[Now(c)] \in {"served", "executed", "failed"} \/ c \in gaveUp
        /\ told[c] \in {"done", "approved"} \/ (told[c] = "exit 0" /\ ~Tool(c).dry)
           => \A m \in DOMAIN Requests(Tool(c)) : Went(<<c, m>>)

(* The pushed file is where the tool says: "pushed" means that the staged    *)
(* file was renamed to the destination, whole unless two pulls shared one    *)
(* `.part`; "transfer failed" means that this pull changed nothing there, and *)
(* so does "push failed", unless it is the answer to the request for the pull *)
(* that was lost.                                                            *)
PushTold ==
    \A c \in Calls : Tool(c).kind = "push" =>
        /\ told[c] = "done" => /\ landed[<<c, "pull">>] # <<>>
                               /\ crossed \/ landed[<<c, "pull">>] = <<Body(Tool(c).file)>>
        /\ told[c] \in {"failed", "transfer failed"} /\ landed[<<c, "pull">>] # <<>>
           => told[c] = "failed" /\ <<c, 2>> \in unheard

(* Every call that is under way comes to an answer, even if no human ever    *)
(* decides, the agent forgets the job or the polls stay unanswered.          *)
EveryCallAnswers ==
    \A c \in Calls : call[c].pc \notin {"new", "done"} ~> call[c].pc = "done"

(* "stop here and return this, because the hub did not simply run it": a key *)
(* is not left down by calls that all say they pressed it.                   *)
NoKeyHeldSilently ==
    (\A c \in Calls : told[c] = "done") /\ queue = <<>> /\ late = {} => keys = {}

(* "It has not run; a human must approve it": what approval_status says is   *)
(* still to be approved has not been begun.                                  *)
PendingHasNotRun ==
    [][\A c \in Calls :
          Tool(c).kind = "check" /\ told[c] = "none" /\ told'[c] \in ToldToWait
          => Now(Tool(c).of) \notin ran \/ Tool(c).of \in gaveUp]_vars
===============================================================================
