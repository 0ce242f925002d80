------------------------------- MODULE Autostart -------------------------------
(***************************************************************************)
(* The entries that start the agent (crates/agent/src/persistence.rs) and  *)
(* the removal of the enrollment token from them at the start of the agent *)
(* (entryclean.rs, entrytoken.rs, entryclean/securefs.rs): a process that  *)
(* cleans, a process that installs or uninstalls meanwhile, the launchers  *)
(* that start what the entries say, crashes and power cuts.                *)
(*                                                                         *)
(* An entry is the facts of its text: whether it carries the token, the    *)
(* HOME it sets, the hub it names.                                         *)
(***************************************************************************)
EXTENDS SecureFs

CONSTANTS
    None,
    Worlds,      \* the machines to start from, see World
    MaxStarts,   \* bound: starts of the agent
    MaxOps,      \* bound: installs and uninstalls
    MaxSwaps,    \* bound: replacements of an entry by an administrator
    MaxFaults    \* bound: crashes, power cuts and failing writes

Hubs == {1, 2}

(***************************************************************************)
(* The homes: the passwd home of the service account, a link to it, the    *)
(* user's, and / (a system service without HOME).                          *)
(***************************************************************************)
Homes == {"pw", "link", "user", "slash"}
Real(h) == IF h = "link" THEN "pw" ELSE h
Odd == "odd"     \* a HOME that cannot be told from the entry, or the registry

Kinds(os) ==
    CASE os = "linux" -> <<"desktop", "unit">>
      [] os = "macos" -> <<"agent", "daemon">>
      [] os = "windows" -> <<"run", "task">>
IsFile(k) == k \in {"desktop", "unit", "agent", "daemon"}
IsService(k) == k \in {"unit", "daemon", "task"}
RunsAsRoot(k) == k \in {"unit", "daemon"}

(***************************************************************************)
(* An entry: token, home (None: it sets none), hub, the inode of its file, *)
(* and who wrote it: an old agent, an install in place, the cleaning, an   *)
(* administrator.  torn: its text is not whole.                            *)
(***************************************************************************)
Entry == [token : BOOLEAN, home : Homes \cup {None, Odd}, hub : Hubs, ino : {1, 2},
          by : {"old", "install", "clean", "admin"}, torn : BOOLEAN]
\* relay.cred; torn: a save truncated it and did not write it whole.
Cred == [hub : Hubs, device : BOOLEAN, torn : BOOLEAN]

VARIABLES
    world,      \* the machine: os, session, place, ways, db, glibc, task, sleep
    entry,      \* kind -> Entry or None
    cred,       \* real home -> Cred or None
    lag,        \* what a power cut may leave instead: [k, may], or None
    p,          \* the agent process
    q,          \* the process that installs or uninstalls
    sleep,      \* the machine's setting on AC power
    prior,      \* home -> the setting saved in sleep_prior, or None
    rehub,      \* history: relay.cred was written for another hub than it was for,
                \* or the entry of another hub than the agent's was cleaned
    startsLeft, opsLeft, swapsLeft, faultsLeft

vars == <<world, entry, cred, lag, p, q, sleep, prior, rehub, startsLeft, opsLeft, swapsLeft, faultsLeft>>

(***************************************************************************)
(* world.place[k]: the file of entry k, its directory and those above it.  *)
(* world.ways[h]: what is met on the way to home h and its .it-ai.         *)
(* world.session: the HOME of a start by a session.  world.task: whether   *)
(* the task logs on interactively, and as this user.  world.busy: whether  *)
(* anything but the agent moves.                                           *)
(***************************************************************************)
Settings == {"default", "custom", "never"}
RealHomes == {"pw", "user", "slash"}
Machine(w) ==
    /\ w.os \in {"linux", "macos", "windows"} /\ w.busy \in BOOLEAN
    /\ w.session \in Homes \cup {Odd} /\ w.sleep \in Settings
    /\ w.glibc \in Glibcs /\ IsConf(w.db.conf) /\ Plausible(w.db)
    /\ w.entries \in [{Kinds(w.os)[1], Kinds(w.os)[2]} -> Entry \cup {None}]
    /\ \A k \in DOMAIN w.entries : w.entries[k] # None => w.entries[k].by = "old" /\ ~w.entries[k].torn
    /\ w.creds \in [RealHomes -> Cred \cup {None}]
    /\ \A h \in RealHomes : w.creds[h] # None => ~w.creds[h].torn

ASSUME AutostartAssumption ==
    /\ \A w \in Worlds : Machine(w)
    /\ None \notin Entry \cup Cred \cup Homes \cup Settings \cup {Odd}
    /\ MaxStarts \in Nat /\ MaxOps \in Nat /\ MaxSwaps \in Nat /\ MaxFaults \in Nat

Working == {"temp", "recheck", "rename", "sync", "set", "change", "query"}
AllKinds == {"desktop", "unit", "agent", "daemon", "run", "task"}
Agents == [pc : {"off", "clean", "up"} \cup Working, root : BOOLEAN, home : Homes, hub : Hubs,
           device : BOOLEAN, token : BOOLEAN, ready : BOOLEAN, k : {1, 2}, read : Entry \cup {None},
           plan : Entry \cup {None}, unseen : BOOLEAN, still : BOOLEAN, blind : SUBSET {1, 2},
           saving : BOOLEAN]
Installers == [pc : {"off", "begin", "save", "truncate", "write", "awake", "second", "sleep"},
               op : {"install", "uninstall", "dissolve"}, k : AllKinds, home : Homes, hub : Hubs,
               root : BOOLEAN, cli : BOOLEAN, token : BOOLEAN, ino : {1, 2}]

Idle == [pc |-> "off", root |-> FALSE, home |-> "user", hub |-> 1, device |-> FALSE,
         token |-> FALSE, ready |-> FALSE, k |-> 1, read |-> None, plan |-> None,
         unseen |-> FALSE, still |-> FALSE, blind |-> {}, saving |-> FALSE]
Quiet == [pc |-> "off", op |-> "install", k |-> "desktop", home |-> "user",
          hub |-> 1, root |-> FALSE, cli |-> TRUE, token |-> FALSE, ino |-> 1]

Faults == IF world.busy THEN MaxFaults ELSE 0
Init ==
    /\ world \in Worlds
    /\ entry = world.entries /\ cred = world.creds
    /\ lag = None /\ p = Idle /\ q = Quiet
    /\ sleep = world.sleep /\ prior = [h \in Homes |-> None] /\ rehub = FALSE
    /\ startsLeft = MaxStarts /\ faultsLeft = Faults
    /\ opsLeft = IF world.busy THEN MaxOps ELSE 0
    /\ swapsLeft = IF world.busy THEN MaxSwaps ELSE 0

KindSet == {Kinds(world.os)[i] : i \in 1 .. 2}
bounds == <<startsLeft, opsLeft, swapsLeft, faultsLeft>>
power == <<sleep, prior>>
files == <<entry, lag>>

(***************************************************************************)
(* The launchers (external): the HOME a start of the entry runs with.  A   *)
(* session gives its own; systemd gives a system service none, so that     *)
(* home() is the working directory, /; launchd may give a daemon any.      *)
(***************************************************************************)
HomesOf(session, k, e) ==
    IF e.home \in Homes THEN {e.home}
    ELSE IF e.home = Odd THEN Homes
    ELSE CASE k = "unit" -> {"slash"}
           [] k = "daemon" -> Homes
           [] OTHER -> IF session = Odd THEN Homes ELSE {session}
HomesAt(k, e) == HomesOf(world.session, k, e)

\* RelayCred's resolve: a relay.cred for this hub, or a token on this start.
CredFor(h, hub) == cred[Real(h)] # None /\ cred[Real(h)].hub = hub /\ ~cred[Real(h)].torn
Resolves(h, hub, token) == CredFor(h, hub) \/ token
HoldsDevice(h, hub) == CredFor(h, hub) /\ cred[Real(h)].device

\* main up to entryclean::run: resolve exits without a token.  ready is what
\* run computes first.
Boot(root, h, hub, token) ==
    /\ p.pc = "off" /\ startsLeft > 0 /\ startsLeft' = startsLeft - 1
    /\ p' = IF Resolves(h, hub, token)
            THEN [Idle EXCEPT !.pc = "clean", !.root = root, !.home = h, !.hub = hub, !.token = token,
                              !.device = HoldsDevice(h, hub), !.ready = HoldsDevice(h, hub)]
            ELSE p
    /\ UNCHANGED <<world, files, cred, q, power, rehub, opsLeft, swapsLeft, faultsLeft>>

Launch == \E k \in KindSet :
    /\ entry[k] # None /\ ~entry[k].torn
    /\ \E h \in HomesAt(k, entry[k]) : Boot(RunsAsRoot(k), h, entry[k].hub, entry[k].token)

\* By hand, or with sudo, which may keep the user's HOME.
StartByHand == \E root \in BOOLEAN, h \in {"user", "pw"}, hub \in Hubs, token \in BOOLEAN :
    /\ hub = 2 => token
    /\ world.os # "windows" \/ ~root
    /\ root \/ h = "user"
    /\ Boot(root, h, hub, token)
-----------------------------------------------------------------------------
(* The plan for one entry.                                                  *)

Here(k) == Kinds(world.os)[p.k] = k
\* The user's entries lie under home(), the services' do not.
Visible(k) == k \in {"desktop", "agent"} => p.home = "user"

Euid == IF p.root THEN "root" ELSE "user"
ServiceHome == IF p.root THEN "pw" ELSE "user"

\* same_file(h/.it-ai/relay.cred, loaded): the same file, which must be there.
SamePath(h) == h \in Homes /\ h = p.home /\ cred[Real(h)] # None
Same(h) == h \in Homes /\ Real(h) = Real(p.home) /\ cred[Real(h)] # None

\* The HOME the entry runs with, as entrytoken and user_home make it out.
EntryHome(k, e) ==
    IF e.home # None THEN [how |-> IF e.home = Odd THEN "refused" ELSE "pinned", home |-> e.home]
    ELSE CASE k = "unit" -> [how |-> "default", home |-> "slash"]
           [] k = "daemon" -> [how |-> "unknown", home |-> Odd]
           [] OTHER -> [how |-> IF world.session = Odd THEN "unknown" ELSE "default", home |-> world.session]

Pinnable(k) == k = "agent" \/ (k \in {"unit", "daemon"} /\ p.root)
PinTarget == IF Same(ServiceHome) THEN ServiceHome ELSE p.home
SafeToPin(h) == TrustedDir(world.glibc, world.ways[h], Euid, world.db)

Stripped(e) == [e EXCEPT !.token = FALSE, !.by = "clean"]

\* decide and plan_file; None: left alone.
Plan(k, e) ==
    LET at == EntryHome(k, e)
        pin == [Stripped(e) EXCEPT !.home = PinTarget]
    IN CASE at.how \in {"pinned", "default"} /\ Same(at.home) -> Stripped(e)
         [] at.how \in {"default", "unknown"} /\ Pinnable(k) /\ SafeToPin(PinTarget) /\ Same(PinTarget) -> pin
         [] OTHER -> None

\* Next entry, or up: hello then tells the hub `still`.  blind: the entries of
\* Windows that it could not read, and said nothing of.
Pass(still, blind) ==
    p' = [p EXCEPT !.still = @ \/ still, !.blind = blind, !.read = None, !.plan = None,
                   !.unseen = FALSE, !.k = IF @ = 2 THEN 1 ELSE 2,
                   !.pc = IF p.k = 2 THEN "up" ELSE "clean"]
PassOn(still) == Pass(still, p.blind)
Unread == Pass(FALSE, p.blind \cup {p.k})

\* An entry that is left as it is still carries the token.
LeftSilently == PassOn(FALSE)
Left == PassOn(TRUE)

\* May the file be opened and read, and may it be replaced.
Opens(k) == IsFile(k) => world.place[k].file.kind = "file" /\ world.place[k].dir.kind = "dir"
Replaceable(k) ==
    CASE IsFile(k) -> MayReplace(world.glibc, world.place[k], Euid, world.db)
      [] k = "task" -> world.task.interactive /\ world.task.mine
      [] OTHER -> TRUE

CanFail == faultsLeft > 0 /\ faultsLeft' = faultsLeft - 1

\* The entry read: decide.
Decide(k) ==
    LET e == entry[k]
        plan == Plan(k, e)
    IN IF e = None \/ ~Visible(k) THEN PassOn(FALSE)
       ELSE IF ~Opens(k) THEN Left
       ELSE IF ~e.token THEN PassOn(FALSE)
       ELSE IF ~p.ready \/ ~Replaceable(k) \/ plan = None THEN Left
       ELSE p' = [p EXCEPT !.read = e, !.plan = plan,
                           !.pc = CASE IsFile(k) -> "temp" [] k = "run" -> "set" [] OTHER -> "change"]

\* A file that cannot be read is told as still carrying the token; a Run value or a
\* task is passed over; whoami may fail once the task was read.
ReadFails(k) ==
    /\ CanFail /\ entry[k] # None /\ Visible(k)
    /\ \/ IsFile(k) /\ Left
       \/ ~IsFile(k) /\ Unread
       \/ k = "task" /\ entry[k].token /\ p.ready /\ Left

\* entryclean: read the entry, decide.
Look == \E k \in KindSet :
    /\ p.pc = "clean" /\ Here(k)
    /\ \/ Decide(k) /\ UNCHANGED faultsLeft
       \/ ReadFails(k)
    /\ rehub' = (rehub \/ (p'.plan # None /\ entry[k].hub # p.hub))
    /\ UNCHANGED <<world, files, cred, q, power, startsLeft, opsLeft, swapsLeft>>

\* The temporary file: created, written, given mode and owner, synced.
\* Mutant of SyncsTemp: the text may still be in memory at the rename.
NeverSyncsTemp == FALSE
SyncsTemp == TRUE
WriteTemp ==
    /\ p.pc = "temp"
    /\ \/ p' = [p EXCEPT !.pc = "recheck"] /\ UNCHANGED faultsLeft
       \/ CanFail /\ Left
    /\ UNCHANGED <<world, files, cred, q, power, rehub, startsLeft, opsLeft, swapsLeft>>

\* The name must still be the file that was read.
StillThere(a, b) == a # None
SameInode(a, b) == a # None /\ a.ino = b.ino
Recheck == \E k \in KindSet :
    /\ p.pc = "recheck" /\ Here(k)
    /\ IF SameInode(entry[k], p.read) THEN p' = [p EXCEPT !.pc = "rename"] ELSE Left
    /\ UNCHANGED <<world, files, cred, q, power, rehub, bounds>>

Torn(e) == [e EXCEPT !.torn = TRUE, !.token = FALSE]

\* Until the directory is synced, a power cut may bring the old entry back.
Rename == \E k \in KindSet :
    LET new == [p.plan EXCEPT !.ino = 3 - p.read.ino]
    IN /\ p.pc = "rename" /\ Here(k)
       /\ entry' = [entry EXCEPT ![k] = new]
       /\ lag' = [k |-> k, may |-> {entry[k], new} \cup (IF SyncsTemp THEN {} ELSE {Torn(new)})]
       /\ p' = [p EXCEPT !.pc = "sync"]
       /\ UNCHANGED <<world, cred, q, power, rehub, bounds>>

\* fsync of the directory; then daemon-reload, which changes no entry.
SyncDir ==
    /\ p.pc = "sync" /\ lag' = None /\ PassOn(FALSE)
    /\ UNCHANGED <<world, entry, cred, q, power, rehub, bounds>>

\* The Run value: read, then set.
SetRunValue ==
    /\ p.pc = "set"
    /\ \/ entry' = [entry EXCEPT !["run"] = p.plan] /\ PassOn(FALSE) /\ UNCHANGED faultsLeft
       \/ CanFail /\ Left /\ UNCHANGED entry
    /\ UNCHANGED <<world, lag, cred, q, power, rehub, startsLeft, opsLeft, swapsLeft>>

\* The task: /Change fails when there is no task any more.
ChangeTask ==
    /\ p.pc = "change"
    /\ \/ /\ entry["task"] # None
          /\ entry' = [entry EXCEPT !["task"] = p.plan]
          /\ p' = [p EXCEPT !.pc = "query"] /\ UNCHANGED faultsLeft
       \/ entry["task"] = None /\ Left /\ UNCHANGED <<entry, faultsLeft>>
       \/ CanFail /\ Left /\ UNCHANGED entry
    /\ UNCHANGED <<world, lag, cred, q, power, rehub, startsLeft, opsLeft, swapsLeft>>

QueryTask ==
    /\ p.pc = "query"
    /\ \/ PassOn(entry["task"] = None \/ entry["task"].token) /\ UNCHANGED faultsLeft
       \/ CanFail /\ Left
    /\ UNCHANGED <<world, files, cred, q, power, rehub, startsLeft, opsLeft, swapsLeft>>

Clean == Look \/ WriteTemp \/ Recheck \/ Rename \/ SyncDir \/ SetRunValue \/ ChangeTask \/ QueryTask

-----------------------------------------------------------------------------
(* save of relay.cred: the file is truncated in place, then written and     *)
(* synced.  It stays torn where the process ends between the two, where the *)
(* write fails, and where two saves of it overlap and their texts mix: each *)
(* costs a fault.                                                           *)

Put(h, hub, device, torn) ==
    LET c == cred[Real(h)]
    IN /\ cred' = [cred EXCEPT ![Real(h)] = [hub |-> hub, device |-> device, torn |-> torn]]
       /\ rehub' = (rehub \/ (c # None /\ c.hub # hub))

Opened(h, hub, device) == Put(h, hub, device, TRUE) /\ UNCHANGED faultsLeft
NotOpened == CanFail /\ UNCHANGED <<cred, rehub>>
Written(h, hub, device) ==
    \/ Put(h, hub, device, FALSE) /\ UNCHANGED faultsLeft
    \/ Put(h, hub, device, TRUE) /\ CanFail

\* The first hello of an agent without its own secret: the hub issues one, which the
\* agent uses from then on, saved or not.  hello_lock: one hello at a time.
Hello ==
    /\ p.pc = "up" /\ ~p.device /\ ~p.saving
    /\ \/ Opened(p.home, p.hub, TRUE) /\ p' = [p EXCEPT !.saving = TRUE]
       \/ NotOpened /\ p' = [p EXCEPT !.device = TRUE]
    /\ UNCHANGED <<world, files, q, power, startsLeft, opsLeft, swapsLeft>>

Issued ==
    /\ p.saving /\ Written(p.home, p.hub, TRUE)
    /\ p' = [p EXCEPT !.saving = FALSE, !.device = TRUE]
    /\ UNCHANGED <<world, files, q, power, startsLeft, opsLeft, swapsLeft>>
-----------------------------------------------------------------------------
(* Installing and uninstalling: --persist, --install and --uninstall in a   *)
(* process of its own, POST /persist and /dissolve in the agent.            *)

Begin(op) == q.pc = "off" /\ opsLeft > 0 /\ opsLeft' = opsLeft - 1 /\ q' = [op EXCEPT !.pc = "begin"]
Others == <<world, power, rehub, startsLeft, swapsLeft, faultsLeft>>

\* The home an entry will run with, where the token on this command line goes.
InstallHome(k) == IF RunsAsRoot(k) THEN "pw" ELSE "user"

InstallByHand == \E k \in KindSet, hub \in Hubs, token \in BOOLEAN :
    /\ hub = 2 => token
    /\ Begin([Quiet EXCEPT !.k = k, !.home = InstallHome(k), !.hub = hub, !.token = token])
    /\ UNCHANGED <<Others, files, cred, p>>

\* POST /persist; only an agent in the user's home writes the user's entry.
Persist ==
    /\ p.pc = "up" /\ p.home = "user"
    /\ Begin([Quiet EXCEPT !.k = Kinds(world.os)[1], !.hub = p.hub, !.cli = FALSE, !.token = p.token])
    /\ UNCHANGED <<Others, files, cred, p>>

\* prepare_persist_cred; a failure to save is only told.
FirstWrite == IF IsFile(q.k) THEN "truncate" ELSE "write"
SaveCred ==
    LET saves == q.token /\ (q.cli \/ ~HoldsDevice(q.home, q.hub))
    IN /\ q.pc = "begin" /\ q.op = "install"
       /\ \/ saves /\ Opened(q.home, q.hub, FALSE) /\ q' = [q EXCEPT !.pc = "save"]
          \/ saves /\ NotOpened /\ q' = [q EXCEPT !.pc = FirstWrite]
          \/ ~saves /\ q' = [q EXCEPT !.pc = FirstWrite] /\ UNCHANGED <<cred, rehub, faultsLeft>>
       /\ UNCHANGED <<world, files, p, power, startsLeft, opsLeft, swapsLeft>>

SavedCred ==
    /\ q.pc = "save" /\ Written(q.home, q.hub, FALSE) /\ q' = [q EXCEPT !.pc = FirstWrite]
    /\ UNCHANGED <<world, files, p, power, startsLeft, opsLeft, swapsLeft>>

\* fs::write keeps the file that is there, or makes one; an inode number may
\* have been another file's before.
Installed(ino) == [token |-> FALSE, home |-> IF RunsAsRoot(q.k) THEN q.home ELSE None, hub |-> q.hub,
                   ino |-> ino, by |-> "install", torn |-> FALSE]
Truncate ==
    /\ q.pc = "truncate"
    /\ \E ino \in IF entry[q.k] = None THEN {1, 2} ELSE {entry[q.k].ino} :
        /\ entry' = [entry EXCEPT ![q.k] = Torn(Installed(ino))]
        /\ lag' = [k |-> q.k, may |-> {entry[q.k], Torn(Installed(ino))}]
        /\ q' = [q EXCEPT !.pc = "write", !.ino = ino]
    /\ UNCHANGED <<world, cred, p, power, rehub, bounds>>

\* To the file that was opened, which may have lost its name meanwhile; nothing
\* syncs it.  A full disk leaves it empty, and nobody is told.
WriteEntry ==
    /\ q.pc = "write"
    /\ q' = [q EXCEPT !.pc = "awake"]
    /\ \/ /\ ~IsFile(q.k) \/ SameInode(entry[q.k], q)
          /\ entry' = [entry EXCEPT ![q.k] = Installed(q.ino)]
          /\ lag' = IF IsFile(q.k) THEN [k |-> q.k, may |-> {Torn(entry'[q.k]), entry'[q.k]}] ELSE lag
          /\ UNCHANGED faultsLeft
       \/ IsFile(q.k) /\ ~SameInode(entry[q.k], q) /\ UNCHANGED <<files, faultsLeft>>
       \/ CanFail /\ UNCHANGED files
    /\ UNCHANGED <<world, cred, p, power, rehub, startsLeft, opsLeft, swapsLeft>>

\* keep_awake_on_ac: on GNOME a setting that never sleeps is not saved, the
\* other systems save whatever is set.
KeepAwake ==
    /\ q.pc = "awake" /\ q' = Quiet
    /\ prior' = IF world.os = "linux" /\ sleep = "never" THEN prior ELSE [prior EXCEPT ![q.home] = sleep]
    /\ sleep' = "never"
    /\ UNCHANGED <<world, files, cred, p, rehub, bounds>>

\* Only root removes a service's entry; a user's entry is found under home().
UninstallByHand == \E root \in BOOLEAN, h \in {"user", "pw"} :
    /\ h = "pw" => root
    /\ world.os = "windows" => h = "user"
    /\ Begin([Quiet EXCEPT !.op = "uninstall", !.k = Kinds(world.os)[1], !.home = h, !.root = root])
    /\ UNCHANGED <<Others, files, cred, p>>

Dissolve ==
    /\ p.pc = "up"
    /\ Begin([Quiet EXCEPT !.op = "dissolve", !.k = Kinds(world.os)[1], !.home = p.home, !.root = p.root])
    /\ UNCHANGED <<Others, files, cred, p>>

Removes(k) == IF IsFile(k) THEN IF IsService(k) THEN q.root ELSE q.home = "user" ELSE TRUE

\* The name of k is e now.  The cleaning sees that only at its last look, and
\* only by the inode's number, which another file may have been given meanwhile:
\* the file it read is closed.
Unseen(k, e) ==
    /\ Here(k)
    /\ \/ p.pc = "rename"
       \/ p.pc \in {"temp", "recheck"} /\ e # None /\ e.ino = p.read.ino
Named(k, e) == p' = [p EXCEPT !.unseen = @ \/ Unseen(k, e)]

Remove ==
    /\ q.pc \in {"begin", "second"} /\ q.op # "install"
    /\ entry' = IF Removes(q.k) THEN [entry EXCEPT ![q.k] = None] ELSE entry
    /\ IF Removes(q.k) THEN Named(q.k, None) ELSE UNCHANGED p
    /\ q' = [q EXCEPT !.pc = IF @ = "begin" THEN "second" ELSE "sleep", !.k = Kinds(world.os)[2]]
    /\ UNCHANGED <<world, lag, cred, power, rehub, bounds>>

\* restore_sleep; without a saved setting, the system's usual one.  A dissolve
\* then ends the agent: where that cuts a save short, it is a crash.
RestoreSleep ==
    /\ q.pc = "sleep" /\ q' = Quiet
    /\ sleep' = IF prior[q.home] = None THEN "default" ELSE prior[q.home]
    /\ prior' = [prior EXCEPT ![q.home] = None]
    /\ p' = IF q.op = "dissolve" THEN Idle ELSE p
    /\ IF q.op = "dissolve" /\ p.saving THEN CanFail ELSE UNCHANGED faultsLeft
    /\ UNCHANGED <<world, files, cred, rehub, startsLeft, opsLeft, swapsLeft>>

Installer == SaveCred \/ SavedCred \/ Truncate \/ WriteEntry \/ KeepAwake \/ Remove \/ RestoreSleep
-----------------------------------------------------------------------------
(* The environment.                                                         *)

\* An administrator's tool replaces an entry by another file.
AdminReplaces == \E k \in KindSet :
    /\ swapsLeft > 0 /\ swapsLeft' = swapsLeft - 1
    /\ entry[k] # None /\ IsFile(k)
    /\ entry' = [entry EXCEPT ![k].ino = 3 - @, ![k].by = "admin", ![k].home = None, ![k].torn = FALSE]
    /\ lag' = None
    /\ Named(k, entry'[k])
    /\ UNCHANGED <<world, cred, q, power, rehub, startsLeft, opsLeft, faultsLeft>>

\* The disk catches up.
Flush == lag # None /\ p.pc # "sync" /\ lag' = None
         /\ UNCHANGED <<world, entry, cred, p, q, power, rehub, bounds>>

ProcessEnds ==
    /\ CanFail
    /\ \/ p.pc # "off" /\ p' = Idle /\ UNCHANGED q
       \/ q.pc # "off" /\ q' = Quiet /\ UNCHANGED p
    /\ UNCHANGED <<world, files, cred, power, rehub, startsLeft, opsLeft, swapsLeft>>

PowerCut ==
    /\ CanFail /\ p' = Idle /\ q' = Quiet /\ lag' = None
    /\ entry' \in IF lag = None THEN {entry} ELSE {[entry EXCEPT ![lag.k] = e] : e \in lag.may}
    /\ UNCHANGED <<world, cred, power, rehub, startsLeft, opsLeft, swapsLeft>>

Next ==
    \/ Launch \/ StartByHand \/ Clean \/ Hello \/ Issued
    \/ InstallByHand \/ Persist \/ UninstallByHand \/ Dissolve \/ Installer
    \/ AdminReplaces \/ Flush \/ ProcessEnds \/ PowerCut

Spec == Init /\ [][Next]_vars

\* A process that runs goes on.
FairSpec == Spec /\ WF_vars(Clean) /\ WF_vars(Installer)
-----------------------------------------------------------------------------
(* Properties.                                                              *)

\* Every part of the state has its type; a process has an entry at hand only
\* where a step of the cleaning needs one, and plans without the token
\* (entryclean::run, Entry).
TypeOK ==
    /\ Machine(world)
    /\ entry \in [KindSet -> Entry \cup {None}]
    /\ cred \in [RealHomes -> Cred \cup {None}]
    /\ lag # None => lag.k \in KindSet /\ lag.may \subseteq Entry \cup {None}
    /\ p \in Agents /\ q \in Installers
    /\ sleep \in Settings /\ prior \in [Homes -> Settings \cup {None}] /\ rehub \in BOOLEAN
    /\ startsLeft \in Nat /\ opsLeft \in Nat /\ swapsLeft \in Nat /\ faultsLeft \in Nat
    /\ p.plan # None <=> p.pc \in Working
    /\ p.plan # None => p.ready /\ p.read # None /\ p.read.token /\ ~p.plan.token /\ p.plan.hub = p.read.hub
    /\ q.pc # "off" => q.k \in KindSet

\* A step by which the cleaning replaces the file of k.
Renames(k) == p.pc = "rename" /\ Here(k) /\ entry'[k] # None /\ entry'[k].by = "clean" /\ entry[k] # entry'[k]

\* The cleaning replaces a file, and pins a home, only where nobody but root
\* and the agent's user could change them, by the groups as any glibc reads
\* them and not as the agent could list them (securefs.rs: private_group,
\* nss_local, Entry::check, check_trusted_dir).
RewritesOnlyOwn == [][\A k \in KindSet : Renames(k) =>
    LET at == world.place[k]
    IN /\ OnlyBy(world.glibc, {at.file, at.dir} \cup at.above, Euid, world.db)
       /\ p.plan.home # p.read.home =>
            OnlyBy(world.glibc, world.ways[p.plan.home], Euid, world.db)]_vars

\* A save of relay.cred was cut short, failed or met another, or is not done yet: the
\* code truncates the file in place (relaycred.rs: save).
Faulty == faultsLeft < Faults
Saving(h) ==
    \/ p.saving /\ Real(p.home) = h
    \/ q.pc = "save" /\ Real(q.home) = h
Spoilt(h) == cred[h].torn /\ (Faulty \/ Saving(h))

\* An entry the cleaning rewrote is whole, whatever power cut or crash came, and
\* whoever starts it finds the credential, for its hub unless the device was
\* enrolled at another one, and unless a save of the credential since broke it
\* (entryclean.rs: decide, plan_file; securefs.rs: replace).
CleanedFinds == \A k \in KindSet :
    entry[k] # None /\ entry[k].by = "clean" =>
        /\ ~entry[k].torn
        /\ \A h \in HomesAt(k, entry[k]) :
              /\ cred[Real(h)] # None
              /\ CredFor(h, entry[k].hub) \/ Spoilt(Real(h)) \/ (rehub /\ ~cred[Real(h)].torn)

\* An agent that told the hub that no entry carries the token is right about the
\* entries it can see, whatever failed on the way, but for those an administrator
\* put there and, on Windows, those it could not read (entryclean::run, "Returns
\* whether any of our entries still carries the token afterwards"; a file that could
\* not be read is told as carrying it; hello's autostart_token).
Blind(k) == \E i \in p.blind : Kinds(world.os)[i] = k
ReportIsRight ==
    p.pc = "up" /\ ~p.still =>
        \A k \in KindSet :
            Visible(k) /\ entry[k] # None /\ entry[k].by # "admin" /\ (IsFile(k) \/ ~Blind(k))
            => ~entry[k].token

\* What replaces an entry is made from what is replaced: an install or an
\* uninstall is undone only if it wrote to the file in place, came after the last
\* look at the name, or made a file with the number of the one read (securefs.rs:
\* replace).
RenameLosesNothing == [][\A k \in KindSet : Renames(k) =>
    \/ entry[k] = p.read
    \/ p.unseen
    \/ entry[k] # None /\ entry[k].by = "install"]_vars

\* The entry is one only the agent's user can change, and its home finds the
\* credential or may be set to one that does.
Cleanable(k) ==
    /\ entry[k] # None /\ entry[k].token /\ Visible(k) /\ entry[k].by = "old"
    /\ IsFile(k) =>
        LET at == world.place[k]
        IN /\ at.file.kind = "file" /\ at.file.uid = Euid /\ at.file.nlink = 1 /\ at.dir.uid = Euid
           /\ \A m \in {at.file, at.dir} \cup at.above : m.uid \in {Euid, "root"} /\ ~m.gw /\ ~m.ow /\ m.kind # "link"
           /\ \A m \in {at.dir} \cup at.above : m.kind = "dir"
    /\ k = "task" => world.task.interactive /\ world.task.mine
    /\ \A h \in HomesAt(k, entry[k]) : Real(h) = Real(p.home)

\* A token in such an entry leaves when the agent starts with its own secret,
\* unless the process ends or a write fails (entryclean.rs: run).
CleanableLeaves == \A i \in {1, 2} :
    LET k == Kinds(world.os)[i]
    IN (p.pc = "clean" /\ p.k = i /\ p.ready /\ Cleanable(k))
         ~> (entry[k] = None \/ ~entry[k].token \/ entry[k].by = "admin" \/ Faulty)

\* An uninstall after an install puts back the setting the machine had before:
\* "saving the prior setting so dissolve can restore it" (persistence.rs:492).
SleepRestored ==
    [][q.pc = "sleep" /\ q' = Quiet /\ prior[q.home] # None => sleep' = world.sleep]_vars

\* What the rewritten entry names is what an installer last wrote: "The name must
\* still be the file that was read and checked" (securefs.rs:654).
InstallSurvives ==
    [][\A k \in KindSet : Renames(k) => ~(entry[k] # None /\ entry[k].by = "install")]_vars

\* A cleaned entry starts an agent for its own hub: "Existing installs with
\* `--relay-token` in their autostart entry keep working" (docs/DEVICE-SECRETS.md:117).
HubIsFound ==
    [][\A k \in KindSet : Renames(k) => \A h \in HomesAt(k, entry'[k]) : CredFor(h, entry'[k].hub)]_vars
===============================================================================
