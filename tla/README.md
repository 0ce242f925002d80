# haive-agent: TLA+ models, checks and proofs

This directory holds TLA+ specifications of haive-agent, translated from the
source under `src/`, with TLC configurations that check them on small instances
and TLAPS proofs of what matters most for every instance. `PROJECT.json` lists
the components, the runs, the mutants every property must catch, the source
lines behind every definition, the hazards and the theorems.

Run `tlc -config <run>.cfg <module>` for a run and `tlapm` on the eight `*Proofs.tla`
(`VpnExit`, `RelayCred`, `Jobs`, `Direct`, `Autostart`, `Helper`, `Operator`, `Tunnel`) for
the proofs.

Sections 3 to 11 take the modules one by one, section 12 the proofs, section 13 what is
left out. A configuration that is no run is named where it belongs: most of them show a
sentence of the docs that the code does not keep to the letter, or a property outside
the conditions its run gives it, and TLC reports a violation; `jobs_more` checks further
properties and passes.

## 1. The system

haive-agent is a Rust workspace. `crates/agent` is a daemon on an endpoint: it
polls a hub (the relay) for requests and serves a loopback and a LAN port;
`crates/direct` is the controller side that talks to such daemons, directly or
through the relay, used by `crates/mcp` (an MCP server) and `crates/cli`;
`crates/cap` holds the capability tokens the two sides share.

| component (source) | state it keeps | operations | spoken to by |
|---|---|---|---|
| VPN exit (`agent/src/vpn.rs`, `vpn/health.rs`, `backend.rs`, `userspace.rs`, `uapi.rs`) | `STATE`, `desired.json`, `ip_forward.before`, iptables rules, `net.ipv4.ip_forward`, `itai-wg` and its peers, the shim, `WATCHING` | apply, disable, boot resume, expiry ticker, watchdog; all under the lock `op()` | hub requests over the relay loop; the kernel, boringtun, iptables |
| relay credential (`relaycred.rs`, `relay_redirect.rs`, `config.rs`) | `relay.cred`, current token, learnt base URL, `hello_lock` | load, save, resolve, issued, rejected, send and learn | relay loop, every hub fetch |
| relay loop (`relay.rs`) | hello, heartbeat and poll threads, one thread per request | hello, poll, handle a request, reply | hub |
| background jobs (`jobs.rs`) | registry of 50 jobs, a waiter thread each, log files | start, logs, stop, list, prune | hub, MCP and CLI through relay or LAN |
| capabilities (`cap/src/lib.rs`), HTTP server (`http.rs`) | replay cache of nonces | verify, claim | LAN clients |
| LAN-direct controller (`direct/src/*`), MCP server, CLI | route cache, pending approvals | mint, route, probe, direct call, relay fallback, wait for approval | agent and hub |
| agent files (`http.rs`) | the directory served, `fetch_jobs()`, `<dest>` and `<dest>.part` | upload, fetch by a thread, file status, download | MCP and CLI through hub and LAN |
| self-update, one agent per user (`discovery.rs`, `updatelock.rs`, `selfheal.rs`, `appbundle.rs`, `instance.rs`) | the binary or the Mac app, the app moved aside, an update slot per process, `agent.lock` | claim, check, download, replace, restart, roll back, hand over | timer, hub, command line, service manager |
| autostart entries (`persistence.rs`, `entryclean*`, `entrytoken.rs`) | service and autostart files, the Run value, the task, the saved sleep setting | install, uninstall, clean of tokens | start-up, hub, command line |
| live screen (`screen*`, `h264*`, `capture.rs`) | a table of sessions: last frame, its number, codec, encoder | one reply per request, from the frame before | viewers through hub or LAN |
| Windows helper (`winsession*`, `securedesk/logic.rs`) | the slot with the one live helper, its failures | ensure, spawn, request, discard, idle exit | the live screen of a service |
| schedules (`schedule.rs`) | the list of schedules, `schedules.json` | add, delete, list, fire every 30 s | hub requests over the relay loop |
| presence, wake lock, shell, logs | small, local | | |

What is hard in each of them, and what makes it correct:

- **VPN exit.** Five threads take turns under a mutex over state that outlives
  the process. A boot resume works for hours with a file it read before; a crash
  or a reboot falls between any two system calls; iptables inserts and peer
  changes fail half way; boringtun's worker may die while it holds the device; the
  default route moves. Correct means: the hub's last word holds on disk and in
  memory; forwarding is on only behind whole rules and can always be put back; a
  200 means the exit runs; a device that dies comes back or is reported; expired
  passes leave and are never added.
- **Relay credential.** Three threads react to a 401 of one secret while it is
  replaced, saved in place, and the base URL moves by redirects. Correct means:
  an issued device secret is not undone by a late 401, a device never goes back to
  an enrollment token without a cause, and a crash while saving does not lose
  both.
- **Relay loop and schedules.** Main, heartbeat and the requests' threads call through
  redirects of a hub that moves on, and each may teach a base after another; polled requests
  lose their order and may be lost with their answer. Commands are fired before the file
  says so. Correct means that the token never leaves the operator's host and those below
  it, that the base ends where the hub is, and that a time fires once.
- **Jobs.** A leader may exit before its children; exit and log size are sampled
  one after the other; a stop races the waiter; the registry is bounded. Correct
  means: `eof` is not said before the command's output was read, a follower misses
  and repeats nothing, a running job is never forgotten, a stop ends the whole group. A
  log that cannot be opened, and a process that may not be signalled, count as empty and
  as gone.
- **Capabilities.** One acceptance window and a replay cache that is swept:
  correct means that a grant serves once, but for the second in which cache and window
  disagree, and that clocks which differ by the leeway do not matter.
- **Controller.** A direct call whose answer is lost is retried over the relay;
  an approval may be granted after the wait ended. Correct means that what is done
  twice, and when, is known.
- **Self-update.** Timer, hub and service manager at once, in two processes; a
  replacement, a swap of the app or a restart that stops half way. Correct means that
  an agent serves again and that no process ends without a successor.
- **Autostart.** Root or the user rewrites files that others may change meanwhile, in
  places and with groups that may not be trusted; power cuts. Correct means that only
  what is the agent's own is rewritten, that the entry still starts an agent that finds
  its credential, and that the report to the hub is true.
- **Screen and helper.** Deltas refer to a frame the viewer may never have got; replies
  are lost, sizes and codecs change, encoders fail; on Windows a process in another session
  comes and goes. Correct means that an acknowledged picture is the picture, that no
  helper runs unknown, and that the picture catches up.
- **Operator's tools and files.** A tool is several requests with a verdict each, beside
  approvals, lost answers, restarts and other calls. Correct means that what the caller
  is told fits what ran, that files land whole, and that every call ends.

## 2. The plan

| | module | what | runs | theorems |
|---|---|---|---|---|
| done | `VpnExit`, `ExitIntent`, `MCVpnExit`, `VpnExitProofs` | the VPN exit, its abstract promise, proofs | 2 pass, 1 violation | 12 |
| done | `RelayCred`, `MCRelayCred`, `RelayCredProofs` | credential, 401 handling under `hello_lock`, save, persist and restart | 1 pass | 4 |
| done | `Jobs`, `MCJobs`, `JobsProofs` | registry, waiters, stop, logs, the follower in the CLI | 1 pass | 5 |
| done | `Capability`, `Direct`, `MCDirect`, `DirectProofs` | acceptance and replay cache over a clock; mint, route cache, fallback to the relay, approvals, composed with it | 1 pass | 7 |
| done | `AgentLife`, `MCAgentLife` | one agent per user, update slot, replacement of binary and app, restart, service manager | 1 pass | |
| done | `SecureFs`, `Autostart`, `MCAutostart`, `AutostartProofs` | entries, their cleaning, the rules of a safe rewrite | 1 pass | 5 |
| done | `Screen`, `Helper`, `MCHelper`, `HelperProofs` | live screen; the Windows helper composed with it | 1 pass | 4 |
| done | `Files`, `Operator`, `MCOperator`, `OperatorProofs` | the agent's files; the tools of MCP server and command line composed with them | 1 pass, 1 violation | 5 |
| done | `Schedules`, `Tunnel`, `MCTunnel`, `TunnelProofs` | the schedules; relay loop, redirects and base composed with them | 1 pass | 3 |
| left | `PeerPlan` | `peer_plan` (vpn/uapi.rs) against a reference definition | | |
| left | the relay shim of the VPN exit | | | |

The relay loop's threads are actions of `RelayCred`, since `hello_lock` is what ties
them. `Direct` extends `Capability`, as controller and agent use the same crate;
`Helper` extends `Screen`, whose sessions it holds on Windows; `Operator` extends
`Files`, whose endpoints its tools call; `Autostart` extends `SecureFs`; `Tunnel` extends
`Schedules`, which its requests change. Every safety property the runs check is proved
but those of `AgentLife` (`AppRollsBack`, `NeverGoesDark`, `RestartChangesBuild`), which
the proofs would go on with.

## 3. VpnExit

### State and code

| variables | code |
|---|---|
| `saved` | `desired.json` (`save_desired`, `load_desired`, `remove_desired`) |
| `record`, `op.keep` | `ip_forward.before`; `Torn` is the file between its truncation and its text |
| `ipf`, `fw`, `fwWan` | `net.ipv4.ip_forward`, the tagged rules top to bottom, the uplink they name |
| `stale`, `op.left` | tagged rules below those, whose delete was refused; those the deletes under way have left so far |
| `iface`, `devPeers`, `live` | the link `itai-wg`, its peers, `Option<Live>`; `live = "sick"` is a userspace device whose worker died or whose channel is out of step |
| `desired`, `wan`, `generation`, `lastError`, `watch` | `struct State` |
| `watching`, `dog`, `shim` | `WATCHING`, the watchdog thread, the shim's relay and secret |
| `boot` | the thread of `start()`: read the generation, load the file, resume, tick |
| `op` | who holds `op()` and the system call it makes next |
| `uplink`, `expired` | the default route, the passes whose `expiresAt` has passed |
| `hubWord`, `bootRaced`, `agentOn` | history, read by properties only |
| `amiss` | history: which failures the code passed over are not made good yet (`Mishaps`) |

A rule is one of five tags: `block` (private ranges and peer to peer), `accept`
(both accepts), `refuse` (anything else on the tunnel), `isolate` (anything
that is not the tunnel's), `nat` (INPUT and NAT). The properties tell these five
apart and no others.

### Actions and code

`ApplyBegin`, then `Checks`, `EnsureIface`, `FindWan`, `RecordForwarding`,
`WriteRecord`, `DeleteRule`*, `InsertRule`*, `RulesIn`, `TurnForwardingOn`,
`ReconcilePeers`, `Commit`, `CheckAndAnswer` are `apply_ep` and `apply_desired`,
one action for each call with an effect outside the process; the boot resume
(`BootReadGeneration`, `BootLoad`, `ResumeTurn`) goes through the same steps and
the ticker (`TickerRound`) through the rules. `DisableBegin`, `RestoreForwarding`,
`RemoveRecord`, `RemoveRules`*, `DisableEnd` are `disable_ep`. `WatchdogRound` is
one round of `watchdog()` with `health::step`; it is one action because outside
the process it touches only a device that does not outlive the process.
`WatchdogEnds` is its end. `WorkerDies`, `IfaceVanishes`, `FailureAges`,
`PassExpires`, `UplinkMoves`, `AgentRestarts` and `Reboots` are the environment.

A step that can fail has a disjunct that costs one of `MaxFaults` (`Inject`),
with what it leaves behind: an interface created or gone, part of the peers
changed, the rules inserted so far, an empty record.

Some failures are dropped by the code, which then goes on. Each is a disjunct that
puts a mark into `amiss`, which stays until what failed is made good:

| mark | failure | made good by |
|---|---|---|
| `torn` | the text of the record is not written after its truncation (vpn.rs:609), or the agent dies between the two | a disable that writes 0, a reboot |
| `dark` | the write of 1 to ip_forward (vpn.rs:790) | the next one that succeeds |
| `stuck` | the write of 0 by a disable (vpn.rs:620), which removes the record all the same | the same, a reboot |
| `cut` | the insert of a rule (vpn.rs:721) | the next complete plan |
| `unwatched` | the spawn of the watchdog (vpn.rs:865) | the next commit |
| `linked` | the delete of a kernel link by a disable (vpn.rs:518) | the next disable |
| `kept` | the removal of a peer from a kernel device (vpn.rs:757) | the next apply that removes it |
| `abandoned` | an apply that fails before its commit with no device left: it ended the recovery that would have brought one back | the next commit, or an apply that fails with a device up |

A delete of a rule that is refused (vpn.rs:702, 731) leaves the rule in `stale`, below
what is inserted next, until a later delete of it succeeds.

### What is abstracted

- Names, keys, addresses and ports: a pass is one value (key, preshared key and
  address together), and so is a relay.
- `desired.json` is replaced by a rename, so writing it is atomic here; its
  write errors, which the code only logs, are left out. The record of ip_forward
  is written in place, and its truncation and its text are two steps.
- The removals of the agent's own two files (vpn.rs:621, 1164) do not fail.
- `streak`, backoffs, the counters shown in the status, and the kick that shortens a
  wait: they say when a thread comes back, not what it does then.
- The window of failures is a count that may go down (`FailureAges`).
- The shim's own threads and frames, and the file descriptors of a worker that
  is parked.

### Runs

| run | expects | shows | bounds |
|---|---|---|---|
| `vpn_rules` | pass | `ForwardingRestorable`, `RulesWhole`, `ForwardOnlyBehindRules`, `DisableIsClean`, `OkMeansRunning`, and that `VpnExit` implements `ExitIntent` (`ImplementsIntent`) | two requests with different passes and relays, one crash or reboot, one failing step of any of ten kinds (prerequisite, interface, record, insert, delete, peer change, peer removal, ip_forward, delete of the link, an interface that vanishes), one change between two uplinks, a kernel device, ip_forward 0 or 1 at boot |
| `vpn_recovery` | pass | `EnabledIsWatched`, and under fairness `DeadComesBack`, `UplinkFollowed`, `ResumeGetsThrough` | two requests, so that an apply or a disable may cut a recovery short; one crash, two failing steps (interface, rebuild, panic, an interface that vanishes, the spawn of the watchdog) against `GIVE_UP_AFTER` 2, one change of uplink, none included, the built-in device |
| `vpn_boot_race` | violation of `HubHasLastWord` | a boot reads the generation of an apply that has not saved | |

Why the bounds are enough for the question: an order of two operations needs two
hub requests, and any third thread (resume, ticker, watchdog) is there without
cost; a crash is what brings the resume, and what it finds was left by at most the
requests before it; the failures of one attempt are independent of those of the
next, which starts from what the attempt left (`vpn_rules` also holds with two failing
steps when the uplink stays). `GIVE_UP_AFTER` is 2 or 3 instead of 5:
giving up, one short of it, and a failure that leaves the window all happen.
Both passing runs set `CHECK_DEADLOCK FALSE`: with the environment's budget
spent and nothing desired, every thread of the exit sleeps, and that is right.

Fairness (`FairSpec`, used by `vpn_recovery`): the holder of `op()`
keeps running (every call it makes has a time limit); the boot thread gets from
its read to its loop; the resume, the ticker and the watchdog get the lock again
and again, which needs strong fairness since others take it in between. That is
justified by `std::sync::Mutex` and by the loops, whose threads sleep ten seconds
or more between two turns. Nothing is assumed of the hub, of failures, crashes or
the uplink except that they are bounded, or stop.

### What the code does not keep

`vpn_boot_race`: `start()` reads the generation and then the file, with an
apply's bump and its save around them. The comment at `vpn.rs:305` says the
order of the two reads is enough; it is not when the apply has bumped and not
saved. The older state is then applied over the hub's.

Three configurations show what is not a run:

- `vpn_dropped_recovery` (`DownIsNotOk`): an apply that fails before it commits ends a
  recovery that had lost the device, whose comment says "that apply rebuilt what it
  needed" (vpn/health.rs:148); the exit stays down, enabled and "ok" until the next
  apply. `DeadComesBack`, checked with two requests, excepts this case by name
  (`abandoned`) and no other of its kind.
- `vpn_isolation_lost` (`IsolatedWhileForwarding`): an insert that fails in a re-apply
  leaves the agent's forwarding on with the rules half in, and nothing repairs it, where
  README.md:550-553 has "a tagged rule then drops every forwarded packet that does not
  involve `itai-wg`".
- `vpn_expiry_kernel` (`ExpiredLeaves`): when `wg set ... remove` fails the error is
  dropped and the ticker does not look again, so the pass stays on the device.

The properties state what is left of the docs where a call fails and the code goes on,
each by the mark of that call and by nothing wider:

- `ForwardingRestorable`: "disabling sets `ip_forward` back to `0`" (README.md:553) is lost
  when the write of 0 fails: the record goes all the same, and no later disable knows
  (`stuck`). A crash between the truncation and the text of the record loses the 0 too
  (`torn`).
- `OkMeansRunning`: an apply answers 200 with forwarding off when the write of 1 failed
  (`dark`), and over a kernel link that was deleted under it, since the check looks at a
  userspace device only.
- `DisableIsClean`: a disable answers ok with rules, a link or forwarding left
  (`stale`, `linked`, `stuck`), where README.md:542-543 has "Disabling removes the
  interface and every tagged rule". What one call fails to take away does not keep the
  disable from taking away the rest, which is what the property says.
- `EnabledIsWatched`: a watchdog that cannot be spawned leaves the exit enabled and
  unwatched (`unwatched`). `WATCHING` is put back, so the next commit tries again, and
  the property holds the code to that.

Some sentences of the docs hold with a proviso: between the deletes and the inserts of
a re-apply an accept of the old set is there without its drops; an apply that fails at
the interface is not saved, though README.md:533-536 says so; a host that turns
forwarding on itself after the agent did loses it at the disable; a resume whose worker
dies before the commit is refused a device for good, which is why `ResumeGetsThrough`
leaves a sick device out.

## 4. RelayCred

### State and code

| variable | code |
|---|---|
| `file` | `~/.it-ai/relay.cred` for this hub: absent, not parseable, or one of `enroll` and `device` (`CredFile`) |
| `start` | this start's enrollment token (flag or `HIVE_RELAY_TOKEN`), `--persist`, `IT_AI_SELF_RESTART` |
| `current`, `lock` | `RelayCred::current`, the holder of `hello_lock` |
| `th` | "main" (start-up, then `relay_loop`), "beat" (its heartbeat), "post" (`POST /persist`): where each is, the token its call carries, the answer and the secret in it |
| `htok`, `hdev`, `minted`, `late` | the hub, external: the enrollment token, this device's secret, hellos on their way |

Tokens and secrets are numbers; the hub counts up. `start.token` is what
`supplied_enroll` is made from.

### Actions and code

`Starts` and `SelfUpdates` end whatever runs, at any step, and start again.
`PersistCheck`, `PersistTruncate` and `PersistFill` are `save_enroll_for_persist`,
for `--persist` before anything else and for `POST /persist` next to the relay loop.
`Resolve` is `load` and `resolve`. `Call`, `HubAnswers` or `TimesOut`, and then
`Finish`, `TakeRejection` or `IssuedTruncate` and `IssuedFill`, are one call under
`hello_lock`: a start-up fetch (`call_with_fallback`, which tries once more with the
token it fell back to) or a hello. `WakeUp` is the end of `REJECTED_RETRY`, which is
slept with the lock held. `PollFails` sends the relay loop back to its hello.
`HubTakesLate` is a hello the agent has given up on, or did not live to see answered.

Left out: other hubs than `--relay` (a file for another hub counts as none); the
tightening of the file's mode; redirects (section 11); the fetches that use the credential and do
not react to its rejection; a second `POST /persist` next to the first. The agent
runs with TLS, so both start-up fetches happen.

### Runs

| run | expects | shows | bounds |
|---|---|---|---|
| `relay_cred` | pass | `SecretIsCurrentUnlessOvertaken`, `GivesUpOnlyRejected`, and under fairness `Enrolls` | three starts, one rotation or revocation, one lost or late answer or failing save |

Three starts are an enrollment, a self-update of it and an entry start after it, in
any order. One rotation or revocation is what makes a secret or a token stale; a
second of either kind repeats the first from a state like it (three starts with two
were checked once, 1.7 million states). The agent stops for good when it refuses to
run without a token, so deadlock is not checked.

Fairness: a thread that can run does; a thread that asks for `hello_lock` again and
again gets it (each holder has a time limit: 10 s for a call, `REJECTED_RETRY` for a
rejection). Nothing is assumed of polls, the owner, failures or starts.

### What the code does not keep

Two configurations show what is not a run. `relay_persist_race`
(`PersistKeepsSecret`): `POST /persist` looks at `relay.cred`, and writes it, while a
hello is saving the secret it was issued; the file ends with the enrollment token. The
secret in memory goes on being used, so this shows at the next start only, and there as a
new enrollment, or as none if the token was rotated since. `relay_torn_cred`
(`EntryStarts`): the process ends between the truncation and the text of `relay.cred`; a
start without a token then has no credential, relaycred.rs:154-156.

`SecretIsCurrent` holds with the exception of its name: `hello_lock` orders the agent's
hellos and not their arrival, and one that was given up may still replace the secret
(relay.rs:60-62).

## 5. Jobs

### State and code

| variables | code |
|---|---|
| `leader`, `child`, `size` | per job, outside the agent: the process it spawned, another process of its group, the length of `<id>.log`. A process is alive, alive as another user ("other"), "dying" while SIGKILL waits for it to leave a call, or gone |
| `place`, `pushes` | `Registry::jobs`: the order of the list, 0 for a job that is not in it |
| `waiters`, `exit` | the waiter threads, the `exit` cell they share with the job |
| `started`, `start` | the ids given, and the starts between spawn and push |
| `stop` | a `POST /jobs/stop`: where it is in `stop` and `terminate`, and how it was answered |
| `follow` | `itai job logs --follow`: the loop of `follow` (`cli/src/jobs.rs`) and the `logs` request it waits for, with what that has sampled |
| `faults` | opens and reads of a log that failed, against the bound |
| `atExit`, `answered`, `stop[s].spared`, `follow[f].from`, `.blind`, `.printed` | history, read by properties only |

Bytes are only appended to a log, so the k-th byte is its number and what a follower
prints is a sequence of numbers.

### Actions and code

`Spawn` and `Register` are `start()` before and after the spawn: the waiter runs, and
other requests take the lock, in between. `Register` and `List` prune. `Reap` and
`RecordExit` are the waiter thread. `StopRequest`, `StopLook`, `StopCheck`,
`StopTerm`, `StopSeesNone` or `StopKill`, and `StopKilled` are a stop: it asks no signal
whether it was delivered, takes any refusal for an empty group, and answers whether or not
the exit came. `LogsFind`, `LogsSample`, `LogsSize`, `LogsRead` are `logs()`, one action
for each thing it looks at; in `LogsBlind` the log cannot be opened, which makes it empty,
and in `LogsReadShort` a read of it fails. `FollowPrint` and `FollowError` are what the
follower does with the answer. `Writes`, `Fork`, `ChangesUser`, `ChildEnds` and
`LeaderEnds` are the job's processes. `Restart` ends the agent and every
request under way; processes and logs stay.

### What is abstracted

- Which exit code it is; `cwd`, the command, ids that are not well formed; `max` is
  always the default; the lossy decoding of a page that ends inside a character.
- The Unix build. SIGTERM may be handled in any way or ignored, so it adds nothing to
  processes that may end at any time. SIGKILL ends a process of the agent's user at once or
  when the call it is in returns; one that took another user, as under sudo, is not
  reached. Grandchildren are one process, and a process id is not given again while a stop
  that read it is under way.
- A prune reads the exit cells at one moment. In the code an exit may be recorded while
  the list is scanned; the scan then finds the job finished or not, as it would a
  moment later or earlier.
- The user starts a follower with an id a start has named; the hub's, the MCP server's
  and the relay's part in a request is that it may fail.

### Run

| run | expects | shows | bounds |
|---|---|---|---|
| `jobs` | pass | `RunningIsKnown`, `StoppedIsDead`, `PrintsTheLog`, `EofMissesNothing` | two jobs and a registry of one (the code: 50), two starts at once, one stop, one follower from byte 0 or from beyond the end, a log of two pages of one byte, the first job's processes may change their user, one open or read of a log fails, one restart |

The configuration `jobs_more` checks, with a follower from byte 0 and no change of user,
`DropsOldestFinished`, `RegistryBounded`, and under fairness `FollowEnds` and `StopEnds`;
it takes three minutes.
Two jobs over a limit of one have every case of a prune: nothing finished, the older
finished, the newer finished, the one just pushed finished. A log of two pages lets it
grow before, between and after the steps of a read. Requests share the registry only
through short critical sections, so a second stop or follower adds no case.
Nothing has to happen once every job ended, so deadlock is not checked.

Fairness: the waiter threads, the steps of a stop and those of a follower go on, since
they wait for a process that has ended, a lock held for a few instructions, or a time
limit (`STOP_GRACE`, the follower's 2 s, the relay's). Nothing is assumed of the job's
processes, of users or of the relay.

### What the docs say and the code does not

`jobs_stop_leftover` shows that `StopEndsChildren` (`MCJobs`) does not hold: once the
command's exit is recorded a stop answers `stopped: false` and leaves its children running
(docs/JOBS-API.md:30-31). So it does, with `stopped: true`, when a process of the group
runs as another user (jobs.rs:237-246): `StoppedIsDead` names that exception
(`spared`). `eof` is claimed for a log that cannot be opened (jobs.rs:166, 172), against
docs/JOBS-API.md:27-28 ("the caller has read to the end"): `EofMissesNothing` names that
one (`blind`). Each holds in every other case, which is what the run and the theorems show.
Two more sentences hold with a proviso: a process that outlives
the command still writes after `eof` (jobs.rs:159-160), and with the limit's worth of
running jobs a short command may be dropped before its start is answered
(docs/JOBS-API.md:33).

## 6. Capability and Direct

### State and code

| variables | code |
|---|---|
| `route` | the entry of `RouteCache` for the device: "none" when absent or older than its TTL |
| `call` | per `call_device`: where it is, the address and token it uses, the addresses its probe has left and the probe's grant |
| `told` | what the caller got: a result (an answer, a refusal, a decision), an error of the transport, or a pending approval |
| `agent`, `shared` | per device: `direct_token` of its process, whether `CAP_PUBKEY` is set, its `ReplayCache`; whether devices and controller have one password |
| `at`, `air` | which device has which LAN address; LAN requests under way, those their sender gave up included |
| `tier`, `hubTok`, `rel` | the hub, external: its policy, the token it hands out, and what became of a relayed request (queued, answered, or an approval) |
| `now`, `drift` | the agent's clock, and what the hub's is ahead of it |
| `runs`, `gaveUp`, `denied`, `spent`, `repeats` | history, read by properties only |

A grant is a record whose nonce names the minting it comes from, and an argument
stands for its hash. That only the hub makes grants takes the place of the signature.

### Actions and code

`UseRoute`, or `DirectInfo`, `ProbeGrant`, and `ProbeSend`, `ProbeYes`, `ProbeNo` for
each address, are `route()` and `probe()`. `MintAndSend`, `MintNothing`, `MintRefused`
are the three results of `mint_capability`; any `ok: false` of the hub ends the call. `DirectAnswer`, `DirectRefused` (401, 403)
and `DirectFails` are the three arms of the match in `call_device`; the last two demote
the route. `SendRelay`, `RelayAnswer`, `Hold`, `RelayFails`, `Settle`, `WaitEnds` are the
relay leg and `settle`. At the agent `TurnAway` and `Serve` are the gates of `handle`
and `capability_ok`, with the claim of the nonce, and `RelayServe` is `handle_req`.
`Decide` and `Replay` are a human and the hub, and `Moves`, `PolicyChanges`, `Reenrolled`,
`Restarts` and `Tick` the surroundings.

### What is abstracted

- One device, and another of the same owner that may take over its addresses.
- The format, signature and length checks of a token; its header; the port.
- What an operation does: it runs, well or not. The endpoints for which no grant exists
  (`op_for` gives none) are covered by `OpFor`, and go over the relay.
- A minting and the request that follows are one action: nothing else looks in
  between, except the policy, which the hub has applied by then, and the address, which
  is resolved when the request connects.
- The claim of a nonce and the handler's run are one action: after the claim nothing
  stops the handler.
- The wait between two polls of an approval, dry runs, and calls over the relay only.

### Run

| run | expects | shows | bounds |
|---|---|---|---|
| `direct` | pass | `LanRunsAllowed`, `GrantServesOnce`, `TwiceOnlyIfLost`, `NoRunAfterDeny` | two overlapping calls, one command in the foreground and detached; two addresses; a leeway of one second, grants good for the second they are made in, three seconds of time; one given up request under way; one move, new enrollment, restart or change of policy |

The bounds scale the code's 60 and 30 seconds to 0 and 1: a grant is then used in time,
in the leeway, in its last second, and too late. In that second (`exp + SKEW_SECS`) the
sweep has dropped the nonce (cap/src/lib.rs:229) while the window still takes the grant
(:191), so it can be accepted again: the run reaches this (`repeats = {1}`, a probe sent to
two addresses of the device), against "cannot be used twice inside its 60-second window"
(:209-210) if the leeway is counted in. `GrantServesOnce` says that it happens in that
second and in no other. Two calls share the route, the nonce
cache and the policy, and the probe of one meets the direct leg of the other. The two
sessions it begins with have a hub behind with a common password, and a hub ahead
without one and a blocked command. One event is enough for each race named under hazards:
every one needs a single change between two steps of a call. A cache of three nonces can
fill up, as two calls make four grants. The system may stop when every call has ended,
so deadlock is not checked.

No liveness is stated. Each wait of a call ends by a time limit, except the requests to
the hub for addresses, CA and grant (direct/src/lib.rs:183, :295, :321), which have none: no
fairness the code justifies makes a call end.

Two sentences hold with a proviso: after an answer that was lost the probe's grant is
spent, and the device's other address refuses it (direct/src/lib.rs:262-268); and a pending
approval may have run by the time its text is read (reply.rs:170).

## 7. AgentLife

### State and code

| variables | code |
|---|---|
| `disk` | what lies at the launch path, at the paths Linux reports for a running file that was replaced (`/proc/self/exe` with " (deleted)"), and at the Mac app's path: a build, nothing, or part of one (`Cut`) |
| `stage`, `old` | the app a process unpacked beside the app, and those its `swap`s moved aside, each under a tag of its own (appbundle.rs:170) |
| `entry`, `managed`, `reload` | what the autostart entry starts, whether a service manager does so and starts it again, and whether launchd was told to load it again |
| `agent` | per process: how far its start is, the build it runs, the path it believes it runs (`current_exe`), the build the timer read there at the start |
| `lock`, `pid` | who holds `agent.lock`, and the process id written in it |
| `slot`, `upd` | per process: `updatelock::SLOT`, and where its timer's and its hub's update are |
| `published` | the hub's newest build, external |

A build is its version; `Startable` are those this device can run, `Size` their length.

### Actions and code

`StartByHand`, `ServiceStart`, `Claim`, `RecordPid`, `Wait` and `Serve` are `main` with
`cleanup_leftovers` and `instance::claim`: take the lock, exit for a service manager's
start, or end the holder and wait for it. `Begin` is `try_begin`; `Fetch`, `Verify`,
`Replace`, `Ensure`, `Relaunch` and `Exit` are `auto_update_relay` and `update_ep` down to
`apply_update`, `self_replace`, `ensure_installed` and the exec or spawn; `Unpack`,
`MoveAside`, `MoveIn`, `Unswap`, `PutBack`, `Repoint` and `HandOver` are
`appbundle::install`, `swap`, `unswap`, `undo_app` and `migrate`. `Publish`, `Crash` and
`Reload` are the surroundings. Each step that can fail has a disjunct that costs a fault.

Abstracted: a signature fits the bytes that are published when it is fetched; version
strings, the download's retries and the time the timer sleeps; the tray, TLS files and
Windows helpers of the start. Two processes stand for any number: a third start meets a
lock in one of the same states. An app that `migrate` hands over to is signed, and is
assumed to start; a child whose parent runs under a service manager counts as the
manager's.

### Run

`agent_life` (pass): `AppRollsBack`, `NeverGoesDark`, `RestartChangesBuild`, and
under fairness `SomeoneServes`, on Linux, Windows and macOS, with and without a service
manager, with three builds of which two have one length and one does not start, one start
by hand, one publication, one failing call and one crash. One publication makes every
earlier comparison stale, one fault or crash meets every step, and two builds of a length
meet the comparison by length. `RestartChangesBuild` asks it of whatever an update
launches: the process itself after an exec, and the child that Windows always starts
(http.rs:759-766) and Unix starts after a refused exec. `AppRollsBack` covers a refused
rename and a put-back that fails too: the old app is then still aside. An agent that crashed with no manager, and one with every
bound spent, do nothing more, so deadlock is not checked.

Fairness: the threads of a process go on, launchd reloads, and a service manager starts
its entry. Nothing is assumed of starts by hand, publications, pushes or failures.

What reading and checking showed, stated in the properties as exceptions:

- On Linux, after `self_replace`, a failed exec and a failed spawn, the process stays and
  its `current_exe` is "it-ai (deleted)"; a second update is then written to that name, and
  the launch path keeps the build that did not start.
- A start by hand ends only the process named in the lock file. A second start between the
  truncation and the text of the file, or while a third holds the lock, gives up waiting
  and runs without the lock: two agents (instance.rs:4 speaks of one).
- `POST /update` compares the downloaded bytes with the file at `current_exe`, not with
  the build it runs; a build on disk that was never started counts as running.
- After a failed `self_replace` a file of the same length counts as the new build
  (`ensure_installed` compares lengths), so a restart may run the same build again.
- A start by hand between the two renames of a swap runs `cleanup_leftovers`, which
  removes the app another process moved aside; if that process ends or its second rename
  fails, no app is left. A crash between the two renames has the same end.

## 8. SecureFs and Autostart

### State and code

| variables | code |
|---|---|
| `entry` | per kind of entry (desktop file and systemd unit, LaunchAgent and LaunchDaemon, Run value and scheduled task): the facts of its text, its inode, who wrote it |
| `cred` | per home: `relay.cred`, for which hub, with a device secret or not, or torn: truncated and not (wholly) written |
| `lag` | what a power cut may leave instead of the last write |
| `p` | the agent: user and HOME, whether its credential is its own, where its cleaning is, what it read and plans, whether it tells the hub that a token is left, whether it is saving the secret it was issued; `unseen` and `blind` are history: the name got another file that its last look cannot tell, an entry of Windows could not be read |
| `q` | an install, an uninstall or a dissolve in another process or thread |
| `sleep`, `prior` | the machine's sleep setting, and the one saved under `~/.it-ai` |
| `rehub` | history: `relay.cred` went to another hub, or an agent of another hub than an entry's cleaned that entry |
| `world` | the machine: the owners and modes on the way to each file, the session, nsswitch.conf, the group's holders, glibc's version |

The text of an entry is three facts, since the parser and the rewriting are only about
them: it carries the token, it sets a HOME, it names a hub.

### Actions and code

`Look` is `entryclean::run` for one entry up to its decision: `Decide` (`decide`,
`plan_file`, `user_home`, `entrytoken`, and in `SecureFs` `check_file`,
`check_trusted_dir`, `private_group`, `nss_local`), or `ReadFails`, after which a file counts
as carrying the token and a Run value or a task is passed over. `WriteTemp`, `Recheck`,
`Rename`, `SyncDir` are `replace`; `SetRunValue`, `ChangeTask`, `QueryTask` the Windows
entries. `Hello` and `Issued` are the device secret before and after the truncation of
`relay.cred`; `SaveCred`, `SavedCred`, `Truncate`, `WriteEntry`, `KeepAwake` are an install,
`Remove`, `RestoreSleep` an uninstall. `Launch` is any launcher, with each HOME it may give
(external). `AdminReplaces`, `ProcessEnds`, `PowerCut` and `Flush` are the surroundings.

`SecureFs` states the rule of the code (`MayReplace`, `TrustedDir`) and, beside it, what it
must imply (`OnlyBy`: who can change a file by its mode, its owner and the groups as any
glibc reads nsswitch.conf); `RewritesOnlyOwn` compares the two over every place and every
database of `MCAutostart`.

Abstracted: one admin operation at a time; an installer of the same user has the usual
HOME; the quoting of a HOME that is pinned; temporary files that a crash leaves; ACLs; POST
/persist from an agent with another HOME than the user's. Two inode numbers are enough to
tell the file that was read from another one, and to give the number again: `replace` closed
the file it read, so a file made later may get its number. An install writes in place and
may be cut by a power cut; a launcher does not start a torn entry. A save of `relay.cred`
truncates it and then writes and syncs it: a power cut between the write and the sync is
taken with a write that fails, and two saves that overlap, whose texts may mix, cost a fault
like it. `SecureFs` has one fact for the NIS entries of both databases (`plus`), where
securefs.rs:229-239 looks at `/etc/<db>` of each: where they differ the model accepts less, so
`RewritesOnlyOwn` is checked and proved for databases that agree in it.

### Run

`autostart` (pass): `CleanedFinds`, `ReportIsRight`, `RewritesOnlyOwn`,
`RenameLosesNothing`, and under fairness `CleanableLeaves`: 1.35 million states from
more than a thousand machines, in two groups. Where anything moves (`Simple`), one start,
one install or uninstall, one replacement by an administrator and one failure (a read, a
write or a save among them) or power cut; where the machine is varied (`Places`, `Groups`), only the agent moves. One of each is
enough since the cleaning handles an entry from its start to its end before the next and keeps
nothing for it. Nothing has to happen after the last start, so the system may stop.

Fairness: a process that runs goes on; both are one thread.

Three configurations show what does not hold: `autostart_sleep` (`SleepRestored`,
"saving the prior setting so dissolve can restore it", persistence.rs:492: a second install
saves the setting the first one made, and on GNOME a machine that had none gets "suspend"),
`autostart_install` (`InstallSurvives`, "The name must still be the file that was read and
checked", securefs.rs:654: an install writes in place, so the name is still the file that
was read, and the rename loses what was written), and `autostart_hub` (`HubIsFound`,
"Existing installs with `--relay-token` in their autostart entry keep working",
DEVICE-SECRETS.md:117: an agent started by hand for a second hub asks of an entry only
whether its HOME is the one with the credential (entryclean.rs:159-169), takes the token
out of the entry of the first hub, and that entry then finds no credential for its hub).
That, and an enrollment at another hub during the cleaning, are the exceptions `rehub` makes
in `CleanedFinds`.

Two properties name what the code does not keep. `CleanedFinds` excepts a credential that a
save broke (`Spoilt`): `relaycred::save` truncates the file in place (relaycred.rs:108-118), so
that an entry cleaned of its token, started after a crash in between or a write that
failed, has neither token nor credential. `ReportIsRight` excepts an entry of Windows whose
reading failed (`Blind`): the Run key, its value, or the task (entryclean.rs:343-346, 378)
count as without the token, where entryclean.rs:173-175 says "Returns whether any of our
entries still carries the token afterwards" and a file that cannot be read counts as
carrying it (entryclean.rs:257-261).

## 9. Screen and Helper

### State and code

| variables | code |
|---|---|
| `screen` | what the desktop shows: a grid of tiles of two colours |
| `table`, `sess` | the sessions of `session_for` in the order of their use, and the objects (`seq`, `prev`, `codec`, encoder, `h264_failed`) |
| `req` | the requests under way, in the agent or the helper, and their replies |
| `viewer` | what each viewer has drawn, and the number it acknowledges (external, SCREEN-PROTOCOL.md) |
| `hook` | the process's panic hook, swapped during a capture |
| `console`, `slot`, `helper` | Windows: the console session, `SLOT` with its failures and lock, the helper processes with their ports |

### Actions and code

`SessionFor`, `Capture`, `AnswerUnchanged`, `AnswerTiles`, `AnswerVideo`, `AnswerError` are
`screen_ep` and `respond`, with `diff`, `merge`, `mostly_changed` (tiles.rs),
`encode_h264` and `with_param_sets`. `Ask`, `GiveUp`, `Deliver`, `Switch` are a viewer.
`Ensure`, `Spawn`, `Hello`, `Send`, `TimesOut`, `Discard`, `Refuse` are `client.rs` with
`decide` and `backoff` of `securedesk/logic.rs`; `Binds`, `Rests`, `ExitsIdle`,
`ParentGone`, `Dies` are `helper.rs`. On Windows the same `Screen` runs inside the helper,
and its table goes with it.

Abstracted: pixels, JPEG's loss and quality, the cursor, tiles of odd size at an edge; a
frame is captured at one moment, and the hook is put back and the reply made in one step; a
long poll that captures again is a later capture; the encoder's frames that come late; the
helper's other requests (`/input`, `/frame`), its token and nonces, the secure desktop. A
discarded helper is gone at once: `kill` (client.rs:76-82) ignores whether `TerminateProcess`
succeeds, which on a handle of its own child it does, and waits two seconds for the end. That
an encoder may give an IDR with any of its parameter sets is external. The backoff outlasts
the requests under way, which end in ten seconds (`CoolDown`).

### Run

`live_screen` (pass): `AckedIsShown`, `HelperIsKnown`, and under fairness
`CatchesUp`: every set of changed tiles of a 3x2 screen for the tiles; two viewers over a
table of one; video over two sizes; switches of codec; and behind a service a helper that
dies, hangs, rests, is in the wrong session or outlives its service, one event of each kind
with one request given up. A frame of 3x2 has runs of every shape that `merge` tells apart (two
rows alike, unlike, a hole in a row). Two requests at once are one per viewer, or a request and
one its viewer gave up. Deadlock is checked: a viewer can always ask again.

Fairness: threads go on, a lock is got in the end (each holder has a time limit), viewers
ask again, the backoff ends. Nothing is assumed of the desktop, the user or failures but
that they end.

`screen_stale_ack` shows that `LostBringsKey` does not hold: numbers start at 1 in every
session, so a viewer whose session was dropped may acknowledge a number of the new one and
be sent a delta to a frame it never got; SCREEN-PROTOCOL.md promises a key frame. `stale`
marks it in the properties. Three more races hold with a proviso: two captures at once may
leave the quiet panic hook installed (capture.rs), a helper that rests may be asked in the
moment it exits, and is then counted as failed, and a discard goes by the port, which a newer
helper may have.

## 10. Files and Operator

### State and code

| variables | code |
|---|---|
| `folder` | the directory asked for, and whether a share is configured (`resolve_path`) |
| `disk`, `dest`, `part` | inodes with their blocks; what `<dest>` and `<dest>.part` name |
| `fetch`, `status`, `upload` | the threads of `fetch_to_file`, `fetch_jobs()`, the requests that write in place |
| `world` | per call, the tool and its arguments; what the hub decides by tier |
| `call`, `reply`, `told` | per tool call: the request it is at, its polls, the hub's answer, what the caller is told |
| `approval`, `late` | the hub's approvals; requests given up on and still on their way |
| `away`, `unheard` | history: requests the device turned away, requests that ran and whose answer never reached the hub |
| `queue`, `keys` | the injector's channel, and the keys that are down on the device |

### Actions and code

`FetchFile`, `Get`, `Receive`, `FetchFails`, `FetchLands`, `FetchReports` are
`fetch_file_ep` and its thread; `UpOpen`, `UpWrite`, `UpEnds` are `upload_ep`. `Resolve`,
`Ask`, `Take`, `Settle`, `WaitEnds`, `Lookup`, `Poll` are a tool of the MCP server or a
command of `itai`: `input`, `hub`, `device_reply`, `finish`, `settled`, `wait_approval`,
`approval_status`, and the polls of `push_file`. `Serve`, `Verdict`, `Decide`, `Replay` are
the hub (external), `OnDevice` and `TurnedAway` the endpoints behind it, `Inject` the
injector's thread. `LanGivesUp`, `LateServed` and `Breaks` are lost answers between the
operator and the hub or the agent; in `Serve` and `Replay` a request may run and its answer
be lost on the way to the hub (`Unheard`: relay.rs:188-199 streams a reply once and does not
send it again), which the hub then answers as failed. `Restart` is the agent's.

Abstracted: the hub answers in the end (the MCP client sets no time limit of its own); one
destination for all files; the expected sum is always given; a download is read at one
moment; `itai check --wait` looks once; `exec` hands on the command's exit code as it is;
listings and the texts of answers. `MaxPolls` is 2 for 300 in the code: a poll that is not the
last, and the last.

### Runs

| run | expects | shows | bounds |
|---|---|---|---|
| `operator` | pass | `RestIsWhole`, `StopsWhereTold`, `PushTold`, and under fairness `EveryCallAnswers` | two calls beside each other from about a hundred pairs of tools, every verdict of the hub, one each of a broken connection, an agent's restart, a request served late, an answer lost after its request ran and an unreachable agent, files of one and two blocks, every kind of directory; 911,838 states |
| `push_torn` | violation of `LandsWhole` | two pulls share one `.part` | two pushes |

Two calls are what can meet at one file, one key or one approval; a third would meet the
same. Two blocks are the least a pull can be cut or overtaken in. All calls are bounded by
the code, and one that ended does nothing more, so deadlock is not checked.

Fairness: a tool's own steps and its clock, the hub's answer, and the agent's writing of an
upload. Nothing is assumed of a pull, of a human's decision or of failures:
`EveryCallAnswers` holds without them.

What the code does not keep:

- `push_torn`: "Writes to `<dest>.part` then renames, so a partial or corrupt download
  never lands at the final path" (http.rs:1531-1532). The name is shared, and the sum is
  of what the thread received. A push given up after ten minutes and repeated runs beside
  the first pull, which may go on for fifteen.
- `key_held` (a configuration, `NoKeyHeldSilently`): "`Some` = stop here and return this,
  because the hub did not simply run it" (mcp/src/main.rs:351-352). An answer that the agent
  was not reached is `None` too, the key stays down and the tool says "pressed". That
  is what `StopsWhereTold` allows the input tools (`Went`), and no more: each event of a
  sequence told as done ran, or was turned away with an error.
- A push told "failed" may land all the same: when the agent's answer to the request for the pull
  is lost, the hub's error is what `push_file` tells (reply.rs:94-100, mcp/src/main.rs:530-531),
  and the pull goes on. `PushTold` excepts it by name (`unheard`); a push told "transfer failed",
  after the agent said so of the job, has no such exception.
- `pending_ran` (a configuration, `PendingHasNotRun`): `approval_status` says of an approval
  that is running that it has not run.

Not stated as properties: with `--share` set, the default directory is the share's own
absolute path, which `resolve_path` refuses, so an upload or a fetch without a directory
always fails (http.rs:1355, 1398, 1474, 1609); and the tool says "pressed" when the injector
does not run or the key's name is unknown.

## 11. Schedules and Tunnel

### State and code

| variables | code |
|---|---|
| `mem`, `store` | `store()`: the list, and who holds its mutex and what that one does next |
| `saved` | `schedules.json`; `Torn` is the file between its truncation and its text |
| `base`, `lock` | `RelayCred::base` and the holder of `hello_lock` |
| `th` | main (`relay_loop`), beat (its heartbeat), and a thread for each request: the call it is in, the address it began at and the one it is at, its hops, the request it was given |
| `serves`, `sends`, `request` | the hub, external: where it answers, where each address redirects and with which kind of status, how far each request is |
| `world`, `left` | what the requests ask for, where the hub is at first, and the bounds |
| `past` | the clock: the times that have come |
| `over`, `stale`, `unsaved`, `served`, `astray` | history, read by properties only |

A URL is the address its endpoint is under: host, scheme, and the path as a sequence. A
schedule is named by its id and the request that added it, a time by that request and how
often it was armed.

### Actions and code

`Send`, `Redirect`, `Fails`, `Land` are the loop of `relay_redirect::send`, with `Followed`
its reasons to refuse; `Learn` and `Moved` are `learn` and `moved_to`, two actions because other
threads learn in between. `Ends` and `Finish` give the answer to `relay_loop`, the heartbeat
or a handler: a failed call of main leads to hello, a hello to the poll, a polled request to a thread.
`Handle` is `handle_req` with the self-call; `Add`, `Del`, `Truncate`, `Written` are `schedule.rs`,
`SaveEnds` the answer after it; `Tick`, `Fire`, `Fired` are `run_scheduler`. `Restart` ends every
thread, puts the base back to `--relay` and loads the file. `Ask`, `Moves` and `Clock` are
the surroundings.

Left out: ports, hosts that are IP addresses (which have no subdomains), a Location
that names another endpoint, and a page that answers 2xx where the hub is not; the credential
(section 4); `due`, which limits log lines; the seconds between calls; requests that touch
neither the schedules nor the base (`other`: they are asked and answered). A request goes over
hub and tunnel once.

### Run

`relay_tunnel` (pass): `TokenStaysHome`, `FiresOnce`, and under fairness `Settles`, about
580 000 states. The hub's addresses are the operator's over http, https on the same host, a path
there, a subdomain with a path, and another host, with `MAX_HOPS` 2 for 3 in the code, so that a
chain can be too long. Its moves are checked from each address, two of them, with main and the heartbeat:
two callers and two moves are what makes one learner late. Beside a request there is
one move, one restart and one fault. The schedules are checked with two requests of one
name (add and add, add and delete, in both orders), once and recurring with two arms, one restart
and one fault: two arms tell a schedule that fires again from one that is armed again. Deadlock
is checked: main always calls.

Fairness: a call ends (each has a time limit, or the network's), and a thread that wants
`hello_lock` again and again gets it, as its holders are done in ten seconds and sleep between.
Nothing is assumed of the hub, the clock, the requests or the scheduler. `Settles` asks that
from some moment the hub's former addresses lead to it; a subdomain that redirects up to its
parent does not lead there for this agent, which then waits for a restart.

What the code does not keep:

- `relay_astray` (a configuration, `LearnsFromBase`): "Skipped if `started` was not built on the
  current base" (relay_redirect.rs:139). The test is a prefix: a call begun on `https://hub/moved`
  is taken for one built on `https://hub`, and a base without its path is learnt, where nothing
  answers. It needs a hub that moves to a path, back, and away again while a call is under way;
  `astray` marks it in `Settles`.
- `FiresOnce` has the exception of its `unsaved`. Commands are spawned before the file says so, so
  an agent that ends in between fires them again; one that ends within the write loses every
  schedule, since a file that does not parse is an empty list; a write that fails is not reported, and
  the request is answered ok (schedule.rs:32).
- Requests are handled by a thread each: an add and a delete that the hub queued in this order
  may happen in the other.
- The answer to a request cannot be sent again after a redirect (relay.rs:195-198 says so), and a
  learner that is late may put the base back to an address that redirects.

## 12. Proofs

`VpnExitProofs` proves, for every set of passes, relays, uplinks and requests, every
choice of failures and every bound, from `ConfigAssumption` alone:

| theorem | property | argument |
|---|---|---|
| `TypeCorrect` | `TypeOK` | inductive with `OpShape`: which steps a holder of `op()` can be at, and that its state and uplink are there by then |
| `Watched` | `EnabledIsWatched` | `WatchInv`: the thread and the flag come and go together, also when nothing is desired; a spawn that fails leaves its mark |
| `Restorable` | `ForwardingRestorable` | `ForwardInv`: the value about to be written, while the record is empty, and that an apply about to turn forwarding on has recorded 0 if it was off; from a disable whose write of 0 failed on, the mark `stuck` stays while the agent's forwarding is on (`UnrestorableStays`) |
| `LastWord`, `StaysDisabled` | `HubHasLastWordUnlessRaced`, `DisabledStaysDisabled` | `HubInv`: a boot thread whose generation is current saw no unsaved apply, and what it read differs from what is saved by expired passes only |
| `Refines` | `ImplementsIntent` | with `HubInv`, each step is a step of `ExitIntent` or leaves its variables alone; the commit of a resume is `Restore`, or `Relapse` after the race that `vpn_boot_race` shows |
| `NeverAdded` | `ExpiredNeverAdded` | the actions that change the device add what `live_peers` leaves, or nothing |
| `StaysDown` | `FailedStaysDown` | `DropStale` leaves "failed" alone, and a failed exit is neither rebuilt nor checked |
| `StayWhole` | `RulesWhole` | `WholeInv` and `PlanInv`: the rules are whole when the record is cut for writing, and what a plan has inserted so far is the beginning of what it should be; an insert that fails keeps that beginning, and with it the drops, which come first |
| `RulesBeforeForwarding` | `ForwardOnlyBehindRules` | `PlanInv` at the step that turns forwarding on |
| `DisableClears` | `DisableIsClean` | `PlanInv`: what a disable has taken away at each of its steps, and that a rule left is one whose delete it saw refused; `ForwardInv` for forwarding |
| `OkRuns` | `OkMeansRunning` | `RunInv`: what an apply has made by each of its steps is still so, or the call that should have made it has left its mark, or the check at its end sees that it is not |

`RelayCredProofs` proves, from `RelayAssumption` alone:

| theorem | property | argument |
|---|---|---|
| `TypeCorrect` | `TypeOK` | inductive with `LockInv`: a thread in a call holds `hello_lock`, and nothing else runs while the agent starts |
| `SecretCurrent` | `SecretIsCurrentUnlessOvertaken` | `AgreeInv`: a secret on file that is not the one in memory was revoked, and a secret at hand was asked for without one in memory; so the mint that replaces the hub's secret finds none left behind |
| `GivesUp` | `GivesUpOnlyRejected` | `LockInv` (the credential a call was made with is still the current one) and `MintedInv` (no secret is newer than the last minted, so a rejected one never becomes the hub's again) |
| `RestartKeeps` | `RestartKeepsSecret` | the last part of `LockInv`: what the persist step saw of the file still holds when it writes, since nothing else runs yet |

`JobsProofs` proves, from `ConstantsOK` alone, for any number of jobs, requests,
followers and restarts, any limit and any page size:

| theorem | property | argument |
|---|---|---|
| `TypeCorrect` | `TypeOK` | inductive with `FreshInv` (a request names a started job) and `ReadInv`: the size a read sampled is not beyond the log, so no page has a negative length |
| `RunningStaysKnown` | `RunningIsKnown` | `ExitInv`: a recorded exit means the leader was reaped, and a prune takes recorded exits only (`PruneKeeps`) |
| `StopEndsTheGroup` | `StoppedIsDead` | `KillInv`: a group SIGKILL reached wholly stays dead, since only a leader that goes on forks (`StepOnward`) |
| `FollowerPrintsTheLog` | `PrintsTheLog` | `ReadForward` and `PageFollows`: a page begins where it was asked to and goes on with the next byte |
| `EofIsComplete` | `EofMissesNothing` | `ReadInv`: an exit sampled before the size means that the log at the exit is within that size, unless the log could not be opened |

`DirectProofs` proves, from `DirectConstantsOK` and `CapabilityConstantsOK` alone, for any
number of calls, requests and addresses, any leeway, lifetime of a grant and cache:

| theorem | property | argument |
|---|---|---|
| `TypeCorrect` | `TypeOK` | inductive with `ClockInv`: what a call holds while it probes is a grant |
| `SkewIsTolerated` | `SkewTolerated` | `ClockInv`: the two clocks differ by the leeway at most, and no grant is from the hub's future |
| `ServesOnce` | `GrantServesOnce` | `NonceInv` (a nonce names one grant, made once per call and kind, and a cache entry has its expiry) and `SpentInv` (a spent nonce is in the cache until its grant is `SKEW_SECS` past its expiry, which the sweep respects: `SweepKeeps`); the window closes after that second |
| `LanAllowed` | `LanRunsAllowed` | `GateMeansPermitted`: what passes the gates is bound to the device and operation of the grant, and `op_for` asks the hub for the operation the hub's policy knows (`SameOperation`) |
| `TwiceIfLost` | `TwiceOnlyIfLost` | `OpInv` (one direct request per call, and none left behind by a call that did not give it up) and `FlowInv` (which legs an operation can have run over at each point of its call) |
| `DenyIsFinal`, `ToldIsOver` | `NoRunAfterDeny`, `ToldMeansOver` | `RunStep`: an operation runs next only while its direct request is awaited, given up, or the hub has it queued or approved; `FlowInv` excludes these after a no and after a result |

`TunnelProofs` proves, from `TunnelAssumption` and `TornAssumption` alone, for any hosts,
addresses, requests, moves, restarts and faults:

| theorem | property | argument |
|---|---|---|
| `TypeCorrect` | `TypeOK` | inductive with `DueInv`: what is to be fired is due, and so within the bound of the arms |
| `TokenHome` | `TokenStaysHome` | `HomeInv`: after a hop a call is at https below the operator's host, since `Below` is transitive (`FollowedHome`), and a base is learnt from such a call only (`MovedToHome`) |
| `FiredOnce` | `FiresOnce` | `TakenInv` (a request is with main or with its own thread, after it left the hub's queue) and `OnceInv`: a request that has still to add has nothing in the list, and the times ahead of a schedule are not over |

`AutostartProofs` proves, from `AutostartAssumption` alone (the machines are machines, and
what systemd's UIDS-GIDS.md says of its users, which `private_group` relies on and quotes), for any
kind of machine, any places, modes, owners and homes, any nsswitch.conf and holder of the
group, and any number of starts, installs, replacements and failures:

| theorem | property | argument |
|---|---|---|
| `AutostartTypeOK` | `TypeOK` | inductive with `AtInv`: which steps an entry of each kind is taken through |
| `CleanedEntriesFind` | `CleanedFinds` | `FindInv`: what is planned finds the credential (`PlanFinds`) and goes on to, since a credential is replaced and never removed; what a power cut may bring back is as good. `TornInv`: a `relay.cred` is torn only while it is saved or after a fault |
| `ReportsRight` | `ReportIsRight` | `ReportInv`: an entry the cleaning is past has no token, unless the agent will say so, an administrator put it there, or it is one of Windows that could not be read |
| `OnlyOwnRewritten` | `RewritesOnlyOwn` | `OwnInv` (the checks of the look still hold at the rename) and `PrivateIsPrivate`: a group `private_group` takes for private has no other holder. That rests on `InForceIsLocal`: in a file `nss_local` accepts, each database has one line, both readings of glibc see it, and its sources are local |
| `NothingLost` | `RenameLosesNothing` | `NameInv`: after the second look the name is still of the file that was read, or of one that look cannot tell |

`HelperProofs` proves, from `ScreenAssumption` and `HelperAssumption` alone, for screens of
any size, any viewers, sessions, requests, helpers and faults:

| theorem | property | argument |
|---|---|---|
| `FrameIsShown` | `AckedIsShown` | `AckInv`: a viewer has acknowledged no number its session has not given; the number it acknowledges, if it is the last, stands for the frame its session keeps; a request still heard has the viewer's own number; each reply on its way gives, applied to the frame it is a delta of, the frame it was made from (`MergeCovers`: the rectangles cover every tile that changed) |
| `SlotIsKept` | | `SlotInv`: one request holds the slot, a live helper that is not an orphan is in the slot or being started by the holder, and no two have one port; the table names each session once |
| `HelperTypeOK` | `TypeOK` | from `Shape`, the types of requests, viewers, sessions and slot |
| `NoStrayHelper` | `HelperIsKnown` | from `SlotInv` |

`OperatorProofs` proves, from `FilesConstantsOK` and `OperatorConstantsOK` alone, for any
number of calls, tools, tiers, policies, restarts and lost answers, and files of any size:

| theorem | property | argument |
|---|---|---|
| `OperatorTypeOK` | `TypeOK` | inductive with which of the pulls and uploads have a file open, and how far they are |
| `RestStaysWhole` | `RestIsWhole` | `WholeInv`: while no two writers met, `<dest>.part` belongs to one pull, what a writer has written is the beginning of its file, and the destination is whole unless it is being written. It rests on `FewImages`: an inode is free for every writer |
| `LandsWholeAlone` | `LandsWhole`, under `~crossed` | `LandInv`: a pull lands once, before it is reported. `push_torn` shows the exception |
| `CallersToldRight` | `StopsWhereTold` | `CallRight`: the requests before the one a call is at went, in their order, for every tool; those after it are untouched; one the hub holds has not run unless the call gave it up; a dry run stops at its first |
| `PushesToldRight` | `PushTold` | `PushRight`: a push given up is told "error", never "failed"; one told "transfer failed" has its pull over, and a pull that failed never lands; one told "failed" has no pull, unless its answer was lost |

The lemma `StepOnward` says once what no step undoes (logs grow, an exit stays recorded
with the log it had, a dead group stays dead), and the invariants of Jobs about requests lean on it.

`SecretIsCurrent` without its exception, and `PersistKeepsSecret`, are false (section 4).

The strengthenings were first checked by TLC as invariants. `TypeOK` of these eight
modules, `RestartKeepsSecret`, `HubHasLastWordUnlessRaced`, `DisabledStaysDisabled`, `ExpiredNeverAdded`,
`FailedStaysDown`, `SkewTolerated` and `ToldMeansOver` are proved and not in a run any more.
Only model-checked: the three safety properties of `AgentLife`, which has no proof module, and all
liveness (`DeadComesBack`, `UplinkFollowed`, `ResumeGetsThrough`, `Enrolls`, `SomeoneServes`,
`CleanableLeaves`, `CatchesUp`, `EveryCallAnswers`, `Settles`), which is out of the prover's reach, as
are `ENABLED`, induction over data and `RECURSIVE` operators.

## 13. Not modelled

Every component of `PROJECT.json` with status `not_modelled`, or `partly`, has its reason
there. Presence is a set of probes that keep nothing, and the wake lock a child process with a
timer; shell, analysis and the log file are calls into the operating system or writes
nobody reads back, and Windows Update is one COM call; the relay shim of the VPN exit forwards
frames, and `VpnExit` has only which relay it runs with; TLS, certificates and their pinning are taken to accept what they should; the
vendored boringtun is modelled by what the agent sees of it. Platform glue (tray, Wayland,
Windows bootstrap and probe, the secure desktop, camera and codecs' own code) has no
state that outlives a call, or is made of system calls TLC cannot say anything about.
