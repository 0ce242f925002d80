---------------------------- MODULE AutostartProofs ----------------------------
(***************************************************************************)
(* Invariants of Autostart, and of SecureFs below it, proved for every set *)
(* of machines and every bound.                                            *)
(***************************************************************************)
EXTENDS Autostart, FiniteSetTheorems, TLAPS

\* The entry the cleaning is at, and the steps it takes for each kind.
At == Kinds(world.os)[p.k]
FileSteps == {"temp", "recheck", "rename", "sync"}
AtInv ==
    /\ p.pc \in FileSteps => IsFile(At)
    /\ p.pc = "set" => At = "run"
    /\ p.pc \in {"change", "query"} => At = "task"

\* An entry that is torn has no token; who starts one that was cleaned finds the
\* credential.
Finds(s, c, r, k, e) == \A h \in HomesOf(s, k, e) : c[Real(h)] # None /\ (r \/ c[Real(h)].hub = e.hub)
GoodIn(s, c, r, k, e) ==
    e # None =>
        /\ e.torn => ~e.token
        /\ e.by = "clean" => ~e.torn /\ Finds(s, c, r, k, e)
Good(k, e) == GoodIn(world.session, cred, rehub, k, e)
FindInv ==
    /\ \A k \in KindSet : Good(k, entry[k])
    /\ lag # None => \A e \in lag.may : Good(lag.k, e)
    /\ p.plan # None => p.plan.by = "clean" /\ Good(At, p.plan)
    /\ p.ready => cred[Real(p.home)] # None /\ (rehub \/ cred[Real(p.home)].hub = p.hub)

\* A relay.cred is torn only while it is saved, or after a fault.
TornInv ==
    /\ faultsLeft <= Faults
    /\ p.saving => p.pc = "up"
    /\ \A h \in RealHomes : cred[h] # None => ~cred[h].torn \/ Spoilt(h)

\* What the cleaning has left behind carries a token only if it says so, or it is no
\* file and was not read, or an administrator put it there.
Silent(k) == entry[k] # None /\ entry[k].by # "admin" => ~entry[k].token
Behind(i) == p.pc = "up" \/ (p.pc # "off" /\ i < p.k)
ReportInv ==
    /\ \A i \in {1, 2} : Behind(i) /\ Visible(Kinds(world.os)[i]) =>
          p.still \/ i \in p.blind \/ Silent(Kinds(world.os)[i])
    /\ \A i \in p.blind : ~IsFile(Kinds(world.os)[i])
    /\ p.pc \in {"sync", "query"} => Silent(At)

\* The checks of the place hold from the look on.
OwnInv ==
    p.pc \in {"temp", "recheck", "rename"} =>
        /\ MayReplace(world.glibc, world.place[At], Euid, world.db)
        /\ p.plan.home # p.read.home => SafeToPin(p.plan.home)

\* The name is still of the file that was read, or of one that shows or cannot be seen.
Kept == entry[At] = p.read \/ p.unseen \/ (entry[At] # None /\ entry[At].by = "install")
NameInv ==
    /\ p.pc \in {"temp", "recheck"} => Kept \/ ~SameInode(entry[At], p.read)
    /\ p.pc = "rename" => Kept

CleanInv == TypeOK /\ AtInv /\ FindInv /\ TornInv /\ ReportInv /\ OwnInv /\ NameInv
-----------------------------------------------------------------------------
(***************************************************************************)
(* The groups: what private_group takes for private is private.            *)
(***************************************************************************)

\* The lines of a database are finitely many; of one line there is one last.
LEMMA OneLine ==
  ASSUME NEW conf, IsConf(conf), NEW db, Cardinality(LinesOf(conf, db)) <= 1,
         NEW i \in LinesOf(conf, db)
  PROVE  LinesOf(conf, db) = {i}
<1>1. DOMAIN conf.lines = 1 .. Len(conf.lines) /\ Len(conf.lines) \in Nat  BY DEF IsConf
<1>2. IsFiniteSet(DOMAIN conf.lines)  BY <1>1, FS_Interval
<1>3. IsFiniteSet(LinesOf(conf, db))  BY <1>2, FS_Subset DEF LinesOf
<1>4. Cardinality(LinesOf(conf, db)) \in Nat /\ LinesOf(conf, db) # {}  BY <1>3, FS_CardinalityType
<1>5. Cardinality(LinesOf(conf, db)) # 0  BY <1>3, <1>4, FS_EmptySet
<1>6. Cardinality(LinesOf(conf, db)) = 1  BY <1>4, <1>5
<1>7. \E x : LinesOf(conf, db) = {x}  BY <1>3, <1>6, FS_Singleton
<1> QED  BY <1>7

\* Where nss_local says that lookups stay on the machine, each source in force is one
\* it names local, whichever glibc reads the file.
LEMMA InForceIsLocal ==
  ASSUME NEW conf, IsConf(conf), NEW plus, NssLocal(conf, plus),
         NEW v \in Glibcs, NEW db \in NSS_DBS, NEW s \in InForce(v, conf, db)
  PROVE  SourceLocal(conf, plus, db, s)
         /\ \E i \in DOMAIN conf.lines : conf.lines[i].name \in NSS_DBS /\ s \in conf.lines[i].srcs
<1> DEFINE here == {i \in LinesOf(conf, db) : i \in ReadLines(v, conf)}
           last == CHOOSE i \in here : \A j \in here : j <= i
<1>1. conf.ascii /\ ReadLines(v, conf) = DOMAIN conf.lines  BY DEF NssLocal, ReadLines
<1>2. here = LinesOf(conf, db)  BY <1>1 DEF LinesOf
<1>3. here # {}
  <2>1. here = {} => db \in Required  BY <1>1 DEF InForce
  <2> QED  BY <1>2, <2>1 DEF NssLocal
<1>4. PICK i \in here : TRUE  BY <1>3
<1>5. Cardinality(LinesOf(conf, db)) <= 1  BY DEF NssLocal
<1>6. here = {i}  BY <1>2, <1>4, <1>5, OneLine
<1>7. i \in DOMAIN conf.lines /\ conf.lines[i].name = db  BY <1>2, <1>4 DEF LinesOf
<1>8. i \in Nat  BY <1>7 DEF IsConf
<1>9. last = i  BY <1>6, <1>8
<1>10. ~LineRefused(conf.lines[i])  BY <1>7 DEF NssLocal
<1>11. conf.lines[i].colon /\ ~conf.lines[i].hash  BY <1>7, <1>10 DEF LineRefused
<1>12. conf.lines[i].tail = {}  BY <1>7, <1>11 DEF IsConf
<1>13. s \in conf.lines[i].srcs
  BY <1>1, <1>3, <1>9, <1>11, <1>12 DEF InForce
<1>14. SourceLocal(conf, plus, db, s)  BY <1>2, <1>4, <1>13 DEF NssLocal
<1> QED  BY <1>7, <1>13, <1>14

\* Nobody else holds a group that private_group takes for the user's own.
LEMMA PrivateIsPrivate ==
  ASSUME NEW d, IsConf(d.conf), Plausible(d), NEW v \in Glibcs, NEW uid, PrivateGroup(v, uid, d)
  PROVE  ~Holds(v, d)
<1> SUFFICES ASSUME Holds(v, d) PROVE FALSE
  OBVIOUS
<1>1. NssLocal(d.conf, d.plus) /\ ~d.nscd /\ ~Listed(v, d)  BY DEF PrivateGroup
<1>2. CASE \E db \in NSS_DBS : d.holder.src \in InForce(v, d.conf, db)
  <2>1. PICK db \in NSS_DBS : d.holder.src \in InForce(v, d.conf, db)  BY <1>2
  <2>2. SourceLocal(d.conf, d.plus, db, d.holder.src)  BY <1>1, <2>1, InForceIsLocal
  <2>3. \E i \in DOMAIN d.conf.lines :
          d.conf.lines[i].name \in NSS_DBS /\ d.holder.src \in d.conf.lines[i].srcs
    BY <1>1, <2>1, InForceIsLocal
  <2>4. d.holder.way = "unlisted"  BY <1>1, <2>2 DEF SourceLocal, LOCAL_NSS, Listed
  <2>5. d.holder.src = "systemd" /\ (d.env \/ ~d.regular)  BY <2>4 DEF Plausible
  <2>6. NssSystemd(d.conf)  BY <2>3, <2>5 DEF NssSystemd
  <2> QED  BY <2>5, <2>6 DEF PrivateGroup
<1>3. CASE /\ \E db \in Required : "compat" \in InForce(v, d.conf, db)
           /\ d.plus \/ \E c \in NSS_COMPAT_DBS : LinesOf(d.conf, c) # {}
  <2>1. PICK db \in Required : "compat" \in InForce(v, d.conf, db)  BY <1>3
  <2>2. db \in NSS_DBS  BY <2>1 DEF Required, NSS_DBS
  <2>3. SourceLocal(d.conf, d.plus, db, "compat")  BY <1>1, <2>1, <2>2, InForceIsLocal
  <2> QED  BY <1>3, <2>3 DEF SourceLocal, LOCAL_NSS
<1> QED  BY <1>1, <1>2, <1>3 DEF Holds

\* What the checks of a directory or a file accept, others cannot change.
LEMMA NotOthers ==
  ASSUME NEW d, IsConf(d.conf), Plausible(d), NEW v \in Glibcs, NEW m, NEW euid,
         m.uid \in {euid, "root"}, ~OthersCanWrite(v, m, d)
  PROVE  CanChange(v, m, d) \subseteq {euid, "root"}
<1>1. ~m.ow  BY DEF OthersCanWrite
<1>2. CASE ~m.gw  BY <1>1, <1>2 DEF CanChange
<1>3. CASE m.gw
  <2>1. PrivateGroup(v, m.uid, d)  BY <1>3 DEF OthersCanWrite
  <2>2. m.uid = "user" /\ d.own /\ euid = "user"  BY <2>1 DEF PrivateGroup
  <2>3. ~Holds(v, d)  BY <2>1, PrivateIsPrivate
  <2> QED  BY <1>1, <2>2, <2>3 DEF CanChange
<1> QED  BY <1>2, <1>3

LEMMA NoneOthers ==
  ASSUME NEW d, IsConf(d.conf), Plausible(d), NEW v \in Glibcs, NEW ms, NEW euid,
         \A m \in ms : m.uid \in {euid, "root"} /\ ~OthersCanWrite(v, m, d)
  PROVE  OnlyBy(v, ms, euid, d)
<1> SUFFICES ASSUME NEW m \in ms PROVE CanChange(v, m, d) \subseteq {euid, "root"}
  BY DEF OnlyBy
<1> QED  BY NotOthers

\* The rules of securefs.rs (check_file, check_dir, check_trusted_dir) let through only
\* what root and this process's user can change, by whatever groups.
LEMMA MayReplaceOwn ==
  ASSUME NEW d, IsConf(d.conf), Plausible(d), NEW v \in Glibcs, NEW at, NEW euid,
         MayReplace(v, at, euid, d)
  PROVE  OnlyBy(v, {at.file, at.dir} \cup at.above, euid, d)
<1> DEFINE ms == {at.file, at.dir} \cup at.above
<1>1. \A m \in ms : m.uid \in {euid, "root"} /\ ~OthersCanWrite(v, m, d)
  BY DEF MayReplace, CheckFile, CheckDir
<1> HIDE DEF ms
<1>2. OnlyBy(v, ms, euid, d)  BY <1>1, NoneOthers
<1> QED  BY <1>2 DEF ms

LEMMA TrustedOwn ==
  ASSUME NEW d, IsConf(d.conf), Plausible(d), NEW v \in Glibcs, NEW way, NEW euid,
         TrustedDir(v, way, euid, d)
  PROVE  OnlyBy(v, way, euid, d)
<1> SUFFICES ASSUME NEW m \in way PROVE CanChange(v, m, d) \subseteq {euid, "root"}
  BY DEF OnlyBy
<1>1. CASE m.kind = "link"  BY <1>1 DEF TrustedDir, CanChange
<1>2. CASE m.kind # "link"
  <2>1. m.uid \in {euid, "root"} /\ ~OthersCanWrite(v, m, d)  BY <1>2 DEF TrustedDir, CheckDir
  <2> QED  BY <2>1, NotOthers
<1> QED  BY <1>1, <1>2
-----------------------------------------------------------------------------
(***************************************************************************)
(* The types.                                                              *)
(***************************************************************************)
LEMMA KindFacts ==
  ASSUME TypeOK
  PROVE  /\ world.os \in {"linux", "macos", "windows"}
         /\ At \in KindSet /\ \A k \in KindSet : Here(k) <=> k = At
         /\ KindSet = {Kinds(world.os)[1], Kinds(world.os)[2]}
         /\ KindSet \in SUBSET AllKinds
BY DEF TypeOK, Machine, Agents, At, KindSet, Kinds, Here, AllKinds

LEMMA Nones ==
  /\ None \notin Entry /\ None \notin Cred /\ None \notin Homes /\ None # Odd
BY AutostartAssumption

\* The next entry, or up.
Passed(still) ==
    /\ p' \in Agents /\ p'.plan = None /\ p'.read = None
    /\ p'.pc \in {"clean", "up"} /\ (p'.pc = "up" <=> p.k = 2)
    /\ p'.k = (IF p.k = 2 THEN 1 ELSE 2)
    /\ p'.ready = p.ready /\ p'.home = p.home /\ p'.hub = p.hub /\ p'.root = p.root
    /\ p'.still = (p.still \/ still) /\ p'.saving = p.saving
    /\ p'.blind \in {p.blind, p.blind \cup {p.k}}
LEMMA Passing ==
  ASSUME TypeOK, NEW still \in BOOLEAN, NEW blind \in {p.blind, p.blind \cup {p.k}}, Pass(still, blind)
  PROVE  Passed(still)
<1>1. p \in Agents /\ blind \in SUBSET {1, 2}  BY DEF TypeOK, Agents
<1> QED  BY <1>1 DEF Pass, Passed, Agents

LEMMA Passes ==
  ASSUME TypeOK
  PROVE  /\ \A still \in BOOLEAN : PassOn(still) => Passed(still) /\ p'.blind = p.blind
         /\ Unread => Passed(FALSE)
<1>1. \A still \in BOOLEAN : PassOn(still) => p'.blind = p.blind  BY DEF TypeOK, Agents, PassOn, Pass
<1> QED  BY <1>1, Passing DEF PassOn, Unread

LEMMA TypeInit == Init => TypeOK
<1> SUFFICES ASSUME Init PROVE TypeOK
  OBVIOUS
<1>1. Machine(world)  BY AutostartAssumption DEF Init
<1>2. entry \in [KindSet -> Entry \cup {None}] /\ cred \in [RealHomes -> Cred \cup {None}]
  BY <1>1 DEF Init, Machine, KindSet
<1>3. p \in Agents /\ q \in Installers /\ p.plan = None /\ p.pc = "off" /\ q.pc = "off"
  BY DEF Init, Idle, Quiet, Agents, Installers, Homes, Hubs, AllKinds
<1>4. sleep \in Settings /\ prior \in [Homes -> Settings \cup {None}] /\ rehub \in BOOLEAN
  BY <1>1 DEF Init, Machine
<1>5. startsLeft \in Nat /\ opsLeft \in Nat /\ swapsLeft \in Nat /\ faultsLeft \in Nat
  BY AutostartAssumption DEF Init, Faults
<1> QED  BY <1>1, <1>2, <1>3, <1>4, <1>5 DEF TypeOK, Init, Working

TypeRest ==
    /\ sleep' \in Settings /\ prior' \in [Homes -> Settings \cup {None}] /\ rehub' \in BOOLEAN
    /\ startsLeft' \in Nat /\ opsLeft' \in Nat /\ swapsLeft' \in Nat /\ faultsLeft' \in Nat
FilesOK ==
    /\ entry' \in [KindSet -> Entry \cup {None}]
    /\ cred' \in [RealHomes -> Cred \cup {None}]
    /\ lag' # None => lag'.k \in KindSet /\ lag'.may \subseteq Entry \cup {None}
AgentOK ==
    /\ p' \in Agents
    /\ p'.plan # None <=> p'.pc \in Working
    /\ p'.plan # None => /\ p'.ready /\ p'.read # None /\ p'.read.token
                         /\ ~p'.plan.token /\ p'.plan.hub = p'.read.hub
QOK == q' \in Installers /\ (q'.pc # "off" => q'.k \in KindSet)

LEMMA TypeParts ==
  ASSUME TypeOK, world' = world, TypeRest, FilesOK, AgentOK, QOK
  PROVE  TypeOK'
BY DEF TypeOK, TypeRest, FilesOK, AgentOK, QOK, KindSet

LEMMA TypeSame ==
  ASSUME TypeOK
  PROVE  /\ UNCHANGED <<power, rehub, bounds>> => TypeRest
         /\ UNCHANGED <<entry, lag, cred>> => FilesOK
         /\ UNCHANGED p => AgentOK
         /\ UNCHANGED q => QOK
<1>1. UNCHANGED <<power, rehub, bounds>> => TypeRest  BY DEF TypeOK, TypeRest, power, bounds
<1>2. UNCHANGED <<entry, lag, cred>> => FilesOK  BY DEF TypeOK, FilesOK
<1>3. UNCHANGED p => AgentOK  BY DEF TypeOK, AgentOK
<1>4. UNCHANGED q => QOK  BY DEF TypeOK, QOK
<1> QED  BY <1>1, <1>2, <1>3, <1>4

LEMMA PassedOK ==
  ASSUME TypeOK, NEW still \in BOOLEAN, Passed(still)
  PROVE  AgentOK
<1>1. p' \in Agents /\ p'.plan = None /\ p'.pc \in {"clean", "up"}  BY DEF Passed
<1> QED  BY <1>1 DEF AgentOK, Working

LEMMA IdleOK ==
  ASSUME TypeOK
  PROVE  (p' = Idle => AgentOK) /\ (q' = Quiet => QOK)
<1>1. Idle \in Agents /\ Quiet \in Installers
  BY DEF Idle, Quiet, Agents, Installers, Homes, Hubs, AllKinds
<1>2. Idle.plan = None /\ Idle.pc \notin Working /\ Quiet.pc = "off"
  BY DEF Idle, Quiet, Working
<1> QED  BY <1>1, <1>2 DEF AgentOK, QOK

\* The agent's record, a field or two changed.
LEMMA BootOK ==
  ASSUME TypeOK, NEW root \in BOOLEAN, NEW h \in Homes, NEW hub \in Hubs, NEW token \in BOOLEAN,
         Boot(root, h, hub, token)
  PROVE  AgentOK
<1>1. HoldsDevice(h, hub) \in BOOLEAN
  <2>1. Real(h) \in RealHomes  BY DEF Homes, Real, RealHomes
  <2>2. cred[Real(h)] \in Cred \cup {None}  BY <2>1 DEF TypeOK
  <2> QED  BY <2>2 DEF HoldsDevice, CredFor, Cred
<1> DEFINE device == HoldsDevice(h, hub)
           new == [Idle EXCEPT !.pc = "clean", !.root = root, !.home = h, !.hub = hub, !.token = token,
                               !.device = device, !.ready = device]
<1> HIDE DEF device
<1>2. device \in BOOLEAN  BY <1>1 DEF device
<1>3. new \in Agents /\ new.plan = None /\ new.pc = "clean"  BY <1>2 DEF Idle, Agents
<1>4. p' = new \/ p' = p  BY DEF Boot, device
<1> QED  BY <1>3, <1>4 DEF TypeOK, AgentOK, Working

LEMMA PlanType ==
  ASSUME TypeOK, NEW k \in KindSet, NEW e \in Entry, Plan(k, e) # None
  PROVE  /\ Plan(k, e) \in Entry /\ ~Plan(k, e).token /\ ~(Plan(k, e).torn /\ ~e.torn)
         /\ Plan(k, e).hub = e.hub /\ Plan(k, e).by = "clean"
<1>1. PinTarget \in Homes  BY DEF TypeOK, Agents, PinTarget, ServiceHome, Homes
<1>2. Plan(k, e) \in {Stripped(e), [Stripped(e) EXCEPT !.home = PinTarget]}
  BY DEF Plan
<1> QED  BY <1>1, <1>2 DEF Stripped, Entry

LEMMA LookOK ==
  ASSUME TypeOK, Look
  PROVE  AgentOK
<1> PICK k \in KindSet : p.pc = "clean" /\ Here(k) /\ (Decide(k) \/ ReadFails(k))
  BY DEF Look
<1>1. CASE \E still \in BOOLEAN : Passed(still)  BY <1>1, PassedOK
<1>2. CASE /\ entry[k] # None /\ entry[k].token /\ p.ready /\ Plan(k, entry[k]) # None
           /\ p' = [p EXCEPT !.read = entry[k], !.plan = Plan(k, entry[k]),
                             !.pc = CASE IsFile(k) -> "temp" [] k = "run" -> "set" [] OTHER -> "change"]
  <2>1. entry[k] \in Entry  BY <1>2 DEF TypeOK
  <2>2. /\ Plan(k, entry[k]) \in Entry /\ ~Plan(k, entry[k]).token
        /\ Plan(k, entry[k]).hub = entry[k].hub
    BY <1>2, <2>1, PlanType
  <2>3. (CASE IsFile(k) -> "temp" [] k = "run" -> "set" [] OTHER -> "change") \in {"temp", "set", "change"}
    OBVIOUS
  <2> QED  BY <1>2, <2>1, <2>2, <2>3 DEF TypeOK, Agents, AgentOK, Working
<1>3. PassOn(FALSE) \/ Left \/ Unread => \E still \in BOOLEAN : Passed(still)  BY Passes DEF Left
<1> QED  BY <1>1, <1>2, <1>3 DEF Decide, ReadFails

LEMMA NamedOK ==
  ASSUME TypeOK, NEW k, NEW e, Named(k, e)
  PROVE  AgentOK /\ p'.pc = p.pc
<1>1. Unseen(k, e) \in BOOLEAN  BY DEF Unseen
<1> QED  BY <1>1 DEF TypeOK, Named, Agents, AgentOK

LEMMA AdvanceOK ==
  ASSUME TypeOK, NEW pc \in Working, p' = [p EXCEPT !.pc = pc], p.pc \in Working
  PROVE  AgentOK
BY DEF TypeOK, Agents, AgentOK, Working

LEMMA Boots ==
  ASSUME TypeOK, Launch \/ StartByHand
  PROVE  \E root \in BOOLEAN, h \in Homes, hub \in Hubs, token \in BOOLEAN : Boot(root, h, hub, token)
<1>1. \A k \in KindSet : entry[k] # None => entry[k].token \in BOOLEAN /\ entry[k].hub \in Hubs
  BY DEF TypeOK, Entry
<1>2. \A k \in KindSet : entry[k] # None => \A h \in HomesAt(k, entry[k]) : h \in Homes
  BY DEF TypeOK, Machine, HomesAt, HomesOf, Homes, Odd
<1>3. CASE Launch
  <2>1. PICK k \in KindSet : entry[k] # None /\ \E h \in HomesAt(k, entry[k]) :
          Boot(RunsAsRoot(k), h, entry[k].hub, entry[k].token)
    BY <1>3 DEF Launch
  <2>2. PICK h \in HomesAt(k, entry[k]) : Boot(RunsAsRoot(k), h, entry[k].hub, entry[k].token)
    BY <2>1
  <2>3. RunsAsRoot(k) \in BOOLEAN  BY DEF RunsAsRoot
  <2> QED  BY <1>1, <1>2, <2>1, <2>2, <2>3
<1>4. CASE StartByHand  BY <1>4 DEF StartByHand, Homes
<1> QED  BY <1>3, <1>4

LEMMA TypeStart ==
  ASSUME TypeOK, Launch \/ StartByHand
  PROVE  TypeOK'
<1> USE DEF power, bounds, files
<1>1. PICK root \in BOOLEAN, h \in Homes, hub \in Hubs, token \in BOOLEAN : Boot(root, h, hub, token)
  BY Boots
<1>2. AgentOK  BY <1>1, BootOK
<1>3. startsLeft' \in Nat  BY <1>1 DEF Boot, TypeOK
<1>4. TypeRest  BY <1>1, <1>3 DEF Boot, TypeOK, TypeRest
<1>5. world' = world /\ FilesOK /\ QOK  BY <1>1, TypeSame DEF Boot
<1> QED  BY <1>2, <1>4, <1>5, TypeParts

LEMMA TypeClean ==
  ASSUME TypeOK, AtInv, Clean
  PROVE  TypeOK'
<1> USE DEF power, bounds, files, FileSteps
<1>0. ASSUME CanFail, UNCHANGED <<power, rehub, startsLeft, opsLeft, swapsLeft>> PROVE TypeRest
  BY <1>0 DEF CanFail, TypeOK, TypeRest
<1>1. CASE Look
  <2>1. AgentOK  BY <1>1, LookOK
  <2>2. rehub' \in BOOLEAN  BY <1>1 DEF Look, TypeOK
  <2>3. world' = world /\ FilesOK /\ QOK  BY <1>1, TypeSame DEF Look
  <2>5. faultsLeft' \in Nat  BY <1>1 DEF Look, ReadFails, CanFail, TypeOK
  <2>4. TypeRest  BY <1>1, <2>2, <2>5 DEF Look, TypeOK, TypeRest
  <2> QED  BY <2>1, <2>3, <2>4, TypeParts
<1>2. CASE WriteTemp
  <2>1. AgentOK  BY <1>2, AdvanceOK, Passes, PassedOK DEF WriteTemp, Left, Working
  <2>2. TypeRest  BY <1>2, <1>0, TypeSame DEF WriteTemp
  <2> QED  BY <1>2, <2>1, <2>2, TypeSame, TypeParts DEF WriteTemp
<1>3. CASE Recheck
  <2>1. AgentOK  BY <1>3, AdvanceOK, Passes, PassedOK DEF Recheck, Left, Working
  <2> QED  BY <1>3, <2>1, TypeSame, TypeParts DEF Recheck
<1>4. CASE Rename
  <2>1. AgentOK  BY <1>4, AdvanceOK DEF Rename, Working
  <2>2. p.plan \in Entry /\ p.read \in Entry  BY <1>4 DEF Rename, TypeOK, Agents, Working
  <2>3. [p.plan EXCEPT !.ino = 3 - p.read.ino] \in Entry  BY <2>2 DEF Entry
  <2>4. FilesOK  BY <1>4, <2>3 DEF Rename, TypeOK, FilesOK, SyncsTemp
  <2> QED  BY <1>4, <2>1, <2>4, TypeSame, TypeParts DEF Rename
<1>5. CASE SyncDir
  <2>1. AgentOK  BY <1>5, Passes, PassedOK DEF SyncDir
  <2>2. FilesOK  BY <1>5 DEF SyncDir, TypeOK, FilesOK
  <2> QED  BY <1>5, <2>1, <2>2, TypeSame, TypeParts DEF SyncDir
<1>6. CASE SetRunValue
  <2>1. AgentOK  BY <1>6, Passes, PassedOK DEF SetRunValue, Left
  <2>2. p.plan \in Entry  BY <1>6 DEF SetRunValue, TypeOK, Agents, Working
  <2>3. FilesOK  BY <1>6, <2>2 DEF SetRunValue, TypeOK, FilesOK
  <2>4. TypeRest  BY <1>6, <1>0, TypeSame DEF SetRunValue
  <2> QED  BY <1>6, <2>1, <2>3, <2>4, TypeSame, TypeParts DEF SetRunValue
<1>7. CASE ChangeTask
  <2>1. AgentOK  BY <1>7, AdvanceOK, Passes, PassedOK DEF ChangeTask, Left, Working
  <2>2. p.plan \in Entry  BY <1>7 DEF ChangeTask, TypeOK, Agents, Working
  <2>3. FilesOK  BY <1>7, <2>2 DEF ChangeTask, TypeOK, FilesOK
  <2>4. TypeRest  BY <1>7, <1>0, TypeSame DEF ChangeTask
  <2> QED  BY <1>7, <2>1, <2>3, <2>4, TypeSame, TypeParts DEF ChangeTask
<1>8. CASE QueryTask
  <2>1. (entry["task"] = None \/ entry["task"].token) \in BOOLEAN  OBVIOUS
  <2>2. AgentOK  BY <1>8, <2>1, Passes, PassedOK DEF QueryTask, Left
  <2>3. TypeRest  BY <1>8, <1>0, TypeSame DEF QueryTask
  <2> QED  BY <1>8, <2>2, <2>3, TypeSame, TypeParts DEF QueryTask
<1> QED  BY <1>1, <1>2, <1>3, <1>4, <1>5, <1>6, <1>7, <1>8 DEF Clean

\* The agent is as it was, or ended, but for its first secret, and for a name it did
\* not see change.
LEMMA SaveOK ==
  ASSUME TypeOK, NEW h \in Homes, NEW hub \in Hubs, NEW device \in BOOLEAN,
         \/ Opened(h, hub, device) \/ NotOpened \/ Written(h, hub, device)
         \/ UNCHANGED <<cred, rehub, faultsLeft>>,
         UNCHANGED <<files, power, startsLeft, opsLeft, swapsLeft>>
  PROVE  FilesOK /\ TypeRest
<1> USE DEF power, files
<1>1. faultsLeft' \in Nat
  <2>1. CanFail \/ faultsLeft' = faultsLeft  BY DEF Opened, NotOpened, Written
  <2> QED  BY <2>1 DEF CanFail, TypeOK
<1>2. rehub' \in BOOLEAN  BY DEF Opened, NotOpened, Written, Put, TypeOK
<1>3. \A torn \in BOOLEAN : [hub |-> hub, device |-> device, torn |-> torn] \in Cred  BY DEF Cred
<1>4. cred' \in [RealHomes -> Cred \cup {None}]
  BY <1>3 DEF Opened, NotOpened, Written, Put, TypeOK
<1> QED  BY <1>1, <1>2, <1>4 DEF TypeOK, TypeRest, FilesOK

LEMMA TypeHello ==
  ASSUME TypeOK, Hello \/ Issued
  PROVE  TypeOK'
<1>1. AgentOK  BY DEF Hello, Issued, TypeOK, Agents, AgentOK, Working
<1>2. p.home \in Homes /\ p.hub \in Hubs  BY DEF TypeOK, Agents
<1>3. FilesOK /\ TypeRest  BY <1>2, SaveOK DEF Hello, Issued
<1> QED  BY <1>1, <1>3, TypeSame, TypeParts DEF Hello, Issued

LEMMA BeginOK ==
  ASSUME TypeOK, NEW op \in Installers, op.k \in KindSet, Begin(op)
  PROVE  QOK /\ opsLeft' \in Nat
BY DEF TypeOK, Begin, Installers, QOK

LEMMA FirstKind ==
  ASSUME TypeOK
  PROVE  Kinds(world.os)[1] \in KindSet /\ Kinds(world.os)[2] \in KindSet
BY DEF KindSet

LEMMA TypeBegin ==
  ASSUME TypeOK, InstallByHand \/ Persist \/ UninstallByHand \/ Dissolve
  PROVE  TypeOK'
<1> USE DEF power, bounds, files, Others
<1>0. KindSet \subseteq AllKinds  BY KindFacts
<1>1. QOK /\ opsLeft' \in Nat
  <2>1. CASE InstallByHand
    <3>1. PICK k \in KindSet, hub \in Hubs, token \in BOOLEAN :
            Begin([Quiet EXCEPT !.k = k, !.home = InstallHome(k), !.hub = hub, !.token = token])
      BY <2>1 DEF InstallByHand
    <3> DEFINE op == [Quiet EXCEPT !.k = k, !.home = InstallHome(k), !.hub = hub, !.token = token]
    <3>2. op \in Installers /\ op.k = k  BY <1>0 DEF Quiet, Installers, InstallHome, Homes
    <3> QED  BY <3>1, <3>2, BeginOK
  <2>2. CASE Persist
    <3> DEFINE op == [Quiet EXCEPT !.k = Kinds(world.os)[1], !.hub = p.hub, !.cli = FALSE, !.token = p.token]
    <3>1. op \in Installers /\ op.k \in KindSet
      BY <1>0, FirstKind DEF Quiet, Installers, TypeOK, Agents, Homes
    <3> QED  BY <2>2, <3>1, BeginOK DEF Persist
  <2>3. CASE UninstallByHand
    <3>1. PICK root \in BOOLEAN, h \in {"user", "pw"} :
            Begin([Quiet EXCEPT !.op = "uninstall", !.k = Kinds(world.os)[1], !.home = h, !.root = root])
      BY <2>3 DEF UninstallByHand
    <3> DEFINE op == [Quiet EXCEPT !.op = "uninstall", !.k = Kinds(world.os)[1], !.home = h, !.root = root]
    <3>2. op \in Installers /\ op.k \in KindSet  BY <1>0, FirstKind DEF Quiet, Installers, Homes, Hubs
    <3> QED  BY <3>1, <3>2, BeginOK
  <2>4. CASE Dissolve
    <3> DEFINE op == [Quiet EXCEPT !.op = "dissolve", !.k = Kinds(world.os)[1], !.home = p.home, !.root = p.root]
    <3>1. op \in Installers /\ op.k \in KindSet
      BY <1>0, FirstKind DEF Quiet, Installers, TypeOK, Agents, Hubs
    <3> QED  BY <2>4, <3>1, BeginOK DEF Dissolve
  <2> QED  BY <2>1, <2>2, <2>3, <2>4
<1>2. /\ UNCHANGED <<world, files, cred, p, power, rehub, startsLeft, swapsLeft, faultsLeft>>
  BY DEF InstallByHand, Persist, UninstallByHand, Dissolve
<1>3. TypeRest  BY <1>1, <1>2 DEF TypeOK, TypeRest
<1> QED  BY <1>1, <1>2, <1>3, TypeSame, TypeParts

LEMMA InstalledType ==
  ASSUME TypeOK, NEW ino \in {1, 2}
  PROVE  /\ Installed(ino) \in Entry /\ Torn(Installed(ino)) \in Entry
         /\ Installed(ino).by = "install" /\ ~Installed(ino).token /\ Installed(ino).ino = ino
         /\ Torn(Installed(ino)).by = "install" /\ ~Torn(Installed(ino)).token
         /\ Torn(Installed(ino)).ino = ino
BY DEF Installed, Torn, Entry, TypeOK, Installers

LEMMA TypeInstall ==
  ASSUME TypeOK, SaveCred \/ SavedCred \/ Truncate \/ WriteEntry \/ KeepAwake
  PROVE  TypeOK'
<1> USE DEF power, bounds, files
<1>1. CASE SaveCred \/ SavedCred
  <2>1. q.home \in Homes /\ q.hub \in Hubs  BY DEF TypeOK, Installers
  <2>2. FilesOK /\ TypeRest  BY <1>1, <2>1, SaveOK DEF SaveCred, SavedCred
  <2>3. FirstWrite \in {"truncate", "write"}  BY DEF FirstWrite
  <2>4. QOK  BY <1>1, <2>3 DEF SaveCred, SavedCred, TypeOK, Installers, QOK
  <2> QED  BY <1>1, <2>2, <2>4, TypeSame, TypeParts DEF SaveCred, SavedCred
<1>2. CASE Truncate
  <2>1. q.k \in KindSet  BY <1>2 DEF Truncate, TypeOK
  <2>2. PICK ino \in IF entry[q.k] = None THEN {1, 2} ELSE {entry[q.k].ino} :
          /\ entry' = [entry EXCEPT ![q.k] = Torn(Installed(ino))]
          /\ lag' = [k |-> q.k, may |-> {entry[q.k], Torn(Installed(ino))}]
          /\ q' = [q EXCEPT !.pc = "write", !.ino = ino]
    BY <1>2 DEF Truncate
  <2>3. ino \in {1, 2}  BY <2>1, <2>2 DEF TypeOK, Entry
  <2>4. Torn(Installed(ino)) \in Entry  BY <2>3, InstalledType
  <2>5. FilesOK  BY <1>2, <2>1, <2>2, <2>4 DEF Truncate, TypeOK, FilesOK
  <2>6. QOK  BY <2>1, <2>2, <2>3 DEF TypeOK, Installers, QOK
  <2> QED  BY <1>2, <2>5, <2>6, TypeSame, TypeParts DEF Truncate
<1>3. CASE WriteEntry
  <2>1. q.k \in KindSet /\ q.ino \in {1, 2}  BY <1>3 DEF WriteEntry, TypeOK, Installers
  <2>2. Installed(q.ino) \in Entry  BY <2>1, InstalledType
  <2>3. Torn(Installed(q.ino)) \in Entry  BY <2>1, InstalledType
  <2>4. FilesOK  BY <1>3, <2>1, <2>2, <2>3 DEF WriteEntry, TypeOK, FilesOK
  <2>5. TypeRest  BY <1>3 DEF WriteEntry, CanFail, TypeOK, TypeRest
  <2>6. QOK  BY <1>3 DEF WriteEntry, TypeOK, Installers, QOK
  <2> QED  BY <1>3, <2>4, <2>5, <2>6, TypeSame, TypeParts DEF WriteEntry
<1>4. CASE KeepAwake
  <2>1. q.home \in Homes  BY DEF TypeOK, Installers
  <2>2. TypeRest  BY <1>4, <2>1 DEF KeepAwake, TypeOK, TypeRest, Settings
  <2>3. QOK  BY <1>4, IdleOK DEF KeepAwake
  <2> QED  BY <1>4, <2>2, <2>3, TypeSame, TypeParts DEF KeepAwake
<1> QED  BY <1>1, <1>2, <1>3, <1>4

LEMMA TypeRemove ==
  ASSUME TypeOK, Remove \/ RestoreSleep
  PROVE  TypeOK'
<1> USE DEF power, bounds, files
<1>1. CASE Remove
  <2>1. q.k \in KindSet  BY <1>1 DEF Remove, TypeOK
  <2>2. FilesOK  BY <1>1, <2>1 DEF Remove, TypeOK, FilesOK
  <2>3. AgentOK  BY <1>1, NamedOK, TypeSame DEF Remove
  <2>4. Kinds(world.os)[2] \in AllKinds /\ Kinds(world.os)[2] \in KindSet  BY KindFacts, FirstKind
  <2>5. QOK  BY <1>1, <2>4 DEF Remove, TypeOK, Installers, QOK
  <2> QED  BY <1>1, <2>2, <2>3, <2>5, TypeSame, TypeParts DEF Remove
<1>2. CASE RestoreSleep
  <2>1. q.home \in Homes  BY DEF TypeOK, Installers
  <2>4. faultsLeft' \in Nat  BY <1>2 DEF RestoreSleep, CanFail, TypeOK
  <2>2. TypeRest  BY <1>2, <2>1, <2>4 DEF RestoreSleep, TypeOK, TypeRest, Settings
  <2>3. AgentOK /\ QOK  BY <1>2, IdleOK, TypeSame DEF RestoreSleep
  <2> QED  BY <1>2, <2>2, <2>3, TypeSame, TypeParts DEF RestoreSleep
<1> QED  BY <1>1, <1>2

LEMMA AdminType ==
  ASSUME NEW e \in Entry
  PROVE  [e EXCEPT !.ino = 3 - @, !.by = "admin", !.home = None, !.torn = FALSE] \in Entry
<1> DEFINE ino == 3 - e.ino
<1>1. ino \in {1, 2}  BY DEF Entry
<1> HIDE DEF ino
<1>2. [e EXCEPT !.ino = ino, !.by = "admin", !.home = None, !.torn = FALSE] \in Entry
  BY <1>1 DEF Entry
<1> QED  BY <1>2 DEF ino

LEMMA TypeAround ==
  ASSUME TypeOK, AdminReplaces \/ Flush \/ ProcessEnds \/ PowerCut
  PROVE  TypeOK'
<1> USE DEF power, bounds, files
<1>1. CASE AdminReplaces
  <2>1. PICK k \in KindSet :
          /\ swapsLeft' = swapsLeft - 1 /\ swapsLeft > 0
          /\ entry[k] # None /\ Named(k, entry'[k])
          /\ entry' = [entry EXCEPT ![k].ino = 3 - @, ![k].by = "admin", ![k].home = None, ![k].torn = FALSE]
    BY <1>1 DEF AdminReplaces
  <2>2. entry'[k] = [entry[k] EXCEPT !.ino = 3 - @, !.by = "admin", !.home = None, !.torn = FALSE]
    BY <2>1 DEF TypeOK
  <2>3. entry'[k] \in Entry  BY <2>1, <2>2, AdminType DEF TypeOK
  <2>4. entry' \in [KindSet -> Entry \cup {None}]  BY <2>1, <2>3 DEF TypeOK
  <2>5. FilesOK  BY <1>1, <2>4 DEF AdminReplaces, TypeOK, FilesOK
  <2>6. AgentOK  BY <2>1, NamedOK
  <2>7. TypeRest
    <3>1. swapsLeft' \in Nat  BY <2>1 DEF TypeOK
    <3> QED  BY <1>1, <3>1 DEF AdminReplaces, TypeOK, TypeRest
  <2> QED  BY <1>1, <2>5, <2>6, <2>7, TypeSame, TypeParts DEF AdminReplaces
<1>2. CASE Flush
  <2>1. FilesOK  BY <1>2 DEF Flush, TypeOK, FilesOK
  <2> QED  BY <1>2, <2>1, TypeSame, TypeParts DEF Flush
<1>3. ASSUME CanFail, UNCHANGED <<power, rehub, startsLeft, opsLeft, swapsLeft>> PROVE TypeRest
  BY <1>3 DEF CanFail, TypeOK, TypeRest
<1>4. CASE ProcessEnds
  <2>1. AgentOK /\ QOK  BY <1>4, IdleOK, TypeSame DEF ProcessEnds
  <2> QED  BY <1>3, <1>4, <2>1, TypeSame, TypeParts DEF ProcessEnds
<1>5. CASE PowerCut
  <2>1. AgentOK /\ QOK  BY <1>5, IdleOK DEF PowerCut
  <2>2. FilesOK
    <3>1. CASE lag = None  BY <1>5, <3>1 DEF PowerCut, TypeOK, FilesOK
    <3>2. CASE lag # None
      <4>1. PICK e \in lag.may : entry' = [entry EXCEPT ![lag.k] = e]  BY <1>5, <3>2 DEF PowerCut
      <4>2. e \in Entry \cup {None} /\ lag.k \in KindSet  BY <3>2, <4>1 DEF TypeOK
      <4> QED  BY <1>5, <4>1, <4>2 DEF PowerCut, TypeOK, FilesOK
    <3> QED  BY <3>1, <3>2
  <2> QED  BY <1>3, <1>5, <2>1, <2>2, TypeSame, TypeParts DEF PowerCut
<1> QED  BY <1>1, <1>2, <1>4, <1>5

-----------------------------------------------------------------------------
(***************************************************************************)
(* How a step changes the agent.                                           *)
(***************************************************************************)

\* It is as it was, but for a name it did not see change, and for its first secret.
Undisturbed ==
    /\ p'.pc = p.pc /\ p'.k = p.k /\ p'.read = p.read /\ p'.plan = p.plan /\ p'.ready = p.ready
    /\ p'.home = p.home /\ p'.hub = p.hub /\ p'.root = p.root /\ p'.still = p.still
    /\ p'.blind = p.blind /\ (p.unseen => p'.unseen)
Ended == p' = Idle
Started ==
    /\ p'.pc = "clean" /\ p'.plan = None /\ ~p'.still /\ p'.k = 1 /\ p'.blind = {}
    /\ p'.ready => CredFor(p'.home, p'.hub)
\* One step further with the same entry.
Onward ==
    /\ p' = [p EXCEPT !.pc = p'.pc] /\ p' \in Agents
    /\ \/ p.pc = "temp" /\ p'.pc = "recheck"
       \/ p.pc = "recheck" /\ p'.pc = "rename"
       \/ p.pc = "rename" /\ p'.pc = "sync"
       \/ p.pc = "change" /\ p'.pc = "query"
    /\ p.pc = "recheck" => SameInode(entry[At], p.read)
    /\ p.pc \in {"temp", "recheck"} => entry' = entry

\* An entry with the token is planned.
Planned ==
    LET e == entry[At]
    IN /\ e # None /\ e.token /\ p.ready /\ Replaceable(At) /\ Plan(At, e) # None
       /\ p' = [p EXCEPT !.read = e, !.plan = Plan(At, e), !.pc = p'.pc] /\ p' \in Agents
       /\ p'.pc = (CASE IsFile(At) -> "temp" [] At = "run" -> "set" [] OTHER -> "change")
       /\ rehub' = (rehub \/ e.hub # p.hub)
       /\ UNCHANGED <<entry, cred, lag>>

LEMMA StartMoves ==
  ASSUME TypeOK, NEW root \in BOOLEAN, NEW h \in Homes, NEW hub \in Hubs, NEW token \in BOOLEAN,
         Boot(root, h, hub, token)
  PROVE  (Undisturbed \/ Started) /\ UNCHANGED <<world, files, cred, rehub>>
BY DEF Boot, HoldsDevice, Undisturbed, Started, Idle

LEMMA LookMoves ==
  ASSUME TypeOK, TypeOK', Look
  PROVE  /\ \/ \E still \in BOOLEAN : Passed(still)
            \/ Planned
         /\ UNCHANGED <<world, entry, lag, cred>>
<1>1. PICK k \in KindSet :
       /\ p.pc = "clean" /\ Here(k) /\ (Decide(k) \/ ReadFails(k))
       /\ rehub' = (rehub \/ (p'.plan # None /\ entry[k].hub # p.hub))
       /\ UNCHANGED <<world, files, cred, q, power, startsLeft, opsLeft, swapsLeft>>
  BY DEF Look
<1>2. k = At  BY <1>1, KindFacts
<1>3. CASE \E still \in BOOLEAN : Passed(still)  BY <1>1, <1>3 DEF files
<1>4. CASE /\ entry[k] # None /\ entry[k].token /\ p.ready /\ Replaceable(k) /\ Plan(k, entry[k]) # None
           /\ p' = [p EXCEPT !.read = entry[k], !.plan = Plan(k, entry[k]),
                             !.pc = CASE IsFile(k) -> "temp" [] k = "run" -> "set" [] OTHER -> "change"]
  <2> DEFINE pc == CASE IsFile(k) -> "temp" [] k = "run" -> "set" [] OTHER -> "change"
  <2>1. p' = [p EXCEPT !.read = entry[k], !.plan = Plan(k, entry[k]), !.pc = pc]  BY <1>4
  <2> HIDE DEF pc
  <2>2. p'.pc = pc /\ p'.plan = Plan(k, entry[k]) /\ p' \in Agents  BY <2>1 DEF TypeOK, Agents
  <2>3. rehub' = (rehub \/ entry[k].hub # p.hub)  BY <1>1, <1>4, <2>2
  <2>4. p' = [p EXCEPT !.read = entry[k], !.plan = Plan(k, entry[k]), !.pc = p'.pc]  BY <2>1, <2>2
  <2> QED  BY <1>1, <1>2, <1>4, <2>2, <2>3, <2>4 DEF Planned, files, pc
<1>5. PassOn(FALSE) \/ Left \/ Unread => \E still \in BOOLEAN : Passed(still)  BY Passes DEF Left
<1> QED  BY <1>1, <1>3, <1>4, <1>5 DEF Decide, ReadFails

\* A step of the cleaning passes on, goes onward or plans.
LEMMA CleanMoves ==
  ASSUME TypeOK, TypeOK', Clean
  PROVE  /\ (\E still \in BOOLEAN : Passed(still)) \/ Onward \/ Planned
         /\ world' = world /\ cred' = cred /\ (rehub => rehub')
<1>1. CASE Look  BY <1>1, LookMoves DEF Look
<1>2. CASE WriteTemp  BY <1>2, Passes DEF WriteTemp, Left, Onward, TypeOK, Agents, files
<1>3. CASE Recheck
  <2>1. PICK k \in KindSet : /\ p.pc = "recheck" /\ Here(k)
          /\ IF SameInode(entry[k], p.read) THEN p' = [p EXCEPT !.pc = "rename"] ELSE Left
          /\ UNCHANGED <<world, files, cred, q, power, rehub, bounds>>
    BY <1>3 DEF Recheck
  <2>2. k = At  BY <2>1, KindFacts
  <2>5. world' = world /\ entry' = entry /\ cred' = cred /\ rehub' = rehub  BY <1>3 DEF Recheck, files
  <2>3. CASE SameInode(entry[k], p.read)
    <3>1. p' = [p EXCEPT !.pc = "rename"]  BY <2>1, <2>3
    <3>2. p'.pc = "rename" /\ p' = [p EXCEPT !.pc = p'.pc] /\ p' \in Agents  BY <3>1 DEF TypeOK, Agents
    <3>3. SameInode(entry[At], p.read)  BY <2>2, <2>3
    <3>4. p.pc = "recheck"  BY <2>1
    <3>5. Onward  BY <2>5, <3>2, <3>3, <3>4 DEF Onward
    <3> QED  BY <2>5, <3>5
  <2>4. CASE ~SameInode(entry[k], p.read)  BY <2>1, <2>4, <2>5, Passes DEF Left
  <2> QED  BY <2>3, <2>4
<1>4. CASE Rename  BY <1>4 DEF Rename, Onward, TypeOK, Agents
<1>5. CASE SyncDir  BY <1>5, Passes DEF SyncDir
<1>6. CASE SetRunValue  BY <1>6, Passes DEF SetRunValue, Left
<1>7. CASE ChangeTask  BY <1>7, Passes DEF ChangeTask, Left, Onward, TypeOK, Agents
<1>8. CASE QueryTask
  <2>1. (entry["task"] = None \/ entry["task"].token) \in BOOLEAN  OBVIOUS
  <2> QED  BY <1>8, <2>1, Passes DEF QueryTask, Left
<1> QED  BY <1>1, <1>2, <1>3, <1>4, <1>5, <1>6, <1>7, <1>8 DEF Clean

\* What the others do to an entry, and to what a power cut may leave.
ByInstall(e) == e # None /\ e.by = "install" /\ ~e.token
ByAdmin(k) ==
    /\ entry[k] # None /\ entry'[k] # None /\ entry'[k].by = "admin" /\ ~entry'[k].torn
    /\ entry'[k].ino # entry[k].ino
Replaced(k) ==
    /\ entry'[k] \in {entry[k], None} \/ ByInstall(entry'[k]) \/ ByAdmin(k)
    /\ k = At /\ p.pc = "rename" /\ entry'[k] # entry[k] => p'.unseen \/ ByInstall(entry'[k])
    /\ k = At /\ p.pc \in {"temp", "recheck"} /\ ByAdmin(k) /\ entry'[k].ino = p.read.ino => p'.unseen
Restored(k) == entry'[k] = entry[k] \/ (lag # None /\ k = lag.k /\ entry'[k] \in lag.may)
LagFrom ==
    lag' = lag \/ lag' = None
    \/ (lag'.k \in KindSet /\ \A e \in lag'.may : ByInstall(e) \/ e = entry[lag'.k] \/ e = entry'[lag'.k])
CredKept ==
    /\ rehub => rehub'
    /\ \A h \in RealHomes : cred[h] # None =>
         cred'[h] # None /\ (rehub' \/ cred'[h].hub = cred[h].hub)

OthersMove ==
    /\ world' = world /\ CredKept /\ LagFrom
    /\ \/ Undisturbed /\ \A k \in KindSet : Replaced(k)
       \/ Ended /\ \A k \in KindSet : Restored(k)

LEMMA NoReplace ==
  ASSUME entry' = entry
  PROVE  \A k \in KindSet : Replaced(k) /\ Restored(k)
BY DEF Replaced, Restored, ByAdmin

LEMMA CredSame ==
  ASSUME cred' = cred, rehub' = rehub
  PROVE  CredKept
BY DEF CredKept

LEMMA PSame == ASSUME p' = p PROVE Undisturbed
BY DEF Undisturbed

\* A credential that is put keeps the file, and is for the hub it was for or a history
\* says so.
LEMMA PutKeeps ==
  ASSUME TypeOK, NEW h \in Homes, NEW hub \in Hubs, NEW device \in BOOLEAN,
         \/ Opened(h, hub, device) \/ NotOpened \/ Written(h, hub, device)
         \/ UNCHANGED <<cred, rehub, faultsLeft>>
  PROVE  CredKept
<1>1. ASSUME NEW torn \in BOOLEAN, Put(h, hub, device, torn) PROVE CredKept
  <2> DEFINE r == Real(h)
             c == [hub |-> hub, device |-> device, torn |-> torn]
  <2>1. cred' = [cred EXCEPT ![r] = c] /\ rehub' = (rehub \/ (cred[r] # None /\ cred[r].hub # c.hub))
    BY <1>1 DEF Put
  <2>2. c \in Cred  BY DEF Cred
  <2> HIDE DEF r, c
  <2>3. c # None  BY <2>2, Nones
  <2> QED  BY <2>1, <2>3 DEF CredKept, TypeOK
<1> QED  BY <1>1, CredSame DEF Opened, NotOpened, Written

LEMMA HelloMoves ==
  ASSUME TypeOK, Hello \/ Issued
  PROVE  OthersMove
<1>1. Undisturbed  BY DEF Hello, Issued, Undisturbed, TypeOK, Agents
<1>2. p.home \in Homes /\ p.hub \in Hubs  BY DEF TypeOK, Agents
<1>3. CredKept  BY <1>2, PutKeeps DEF Hello, Issued
<1> QED  BY <1>1, <1>3, NoReplace DEF Hello, Issued, OthersMove, LagFrom, files

LEMMA BeginMoves ==
  ASSUME TypeOK, InstallByHand \/ Persist \/ UninstallByHand \/ Dissolve
  PROVE  OthersMove
<1>1. UNCHANGED <<world, entry, lag, cred, p, rehub>>
  BY DEF InstallByHand, Persist, UninstallByHand, Dissolve, Others, files
<1> QED  BY <1>1, NoReplace, CredSame, PSame DEF OthersMove, LagFrom

LEMMA SaveMoves ==
  ASSUME TypeOK, SaveCred \/ SavedCred
  PROVE  OthersMove
<1>1. UNCHANGED <<world, entry, lag, p>>  BY DEF SaveCred, SavedCred, files
<1>2. q.home \in Homes /\ q.hub \in Hubs  BY DEF TypeOK, Installers
<1>3. CredKept  BY <1>2, PutKeeps DEF SaveCred, SavedCred
<1> QED  BY <1>1, <1>3, NoReplace, PSame DEF OthersMove, LagFrom

LEMMA WriteMoves ==
  ASSUME TypeOK, Truncate \/ WriteEntry
  PROVE  OthersMove
<1>1. UNCHANGED <<world, cred, p, rehub>>  BY DEF Truncate, WriteEntry
<1>2. q.k \in KindSet /\ q.ino \in {1, 2}  BY DEF Truncate, WriteEntry, TypeOK, Installers
<1>3. ASSUME NEW e \in Entry, ByInstall(e), entry' = [entry EXCEPT ![q.k] = e]
      PROVE  \A k \in KindSet : Replaced(k)
  BY <1>2, <1>3 DEF TypeOK, Replaced, ByInstall, ByAdmin
<1>4. \A ino \in {1, 2} : /\ Installed(ino) \in Entry /\ ByInstall(Installed(ino))
                          /\ Torn(Installed(ino)) \in Entry /\ ByInstall(Torn(Installed(ino)))
  <2> TAKE ino \in {1, 2}
  <2>1. Installed(ino) \in Entry /\ Torn(Installed(ino)) \in Entry  BY InstalledType
  <2>2. Installed(ino) # None /\ Torn(Installed(ino)) # None  BY <2>1, Nones
  <2> QED  BY <2>1, <2>2, InstalledType DEF ByInstall
<1>5. CASE Truncate
  <2>1. PICK ino \in IF entry[q.k] = None THEN {1, 2} ELSE {entry[q.k].ino} :
          /\ entry' = [entry EXCEPT ![q.k] = Torn(Installed(ino))]
          /\ lag' = [k |-> q.k, may |-> {entry[q.k], Torn(Installed(ino))}]
    BY <1>5 DEF Truncate
  <2>2. ino \in {1, 2}  BY <1>2, <2>1 DEF TypeOK, Entry
  <2> DEFINE e == Torn(Installed(ino))
  <2>3. e \in Entry /\ ByInstall(e)  BY <1>4, <2>2
  <2> HIDE DEF e
  <2>4. entry' = [entry EXCEPT ![q.k] = e] /\ lag' = [k |-> q.k, may |-> {entry[q.k], e}]
    BY <2>1 DEF e
  <2>5. LagFrom  BY <1>2, <2>3, <2>4 DEF LagFrom
  <2> QED  BY <1>1, <1>3, <2>3, <2>4, <2>5, CredSame, PSame DEF OthersMove
<1>6. CASE WriteEntry
  <2> DEFINE e == Installed(q.ino)
             f == Torn(e)
  <2>1. e \in Entry /\ ByInstall(e) /\ ByInstall(f)  BY <1>2, <1>4
  <2>2. \/ entry' = [entry EXCEPT ![q.k] = e] /\ lag' = lag
        \/ entry' = [entry EXCEPT ![q.k] = e] /\ lag' = [k |-> q.k, may |-> {f, e}]
        \/ entry' = entry /\ lag' = lag
    <3>1. entry' = [entry EXCEPT ![q.k] = e] => entry'[q.k] = e  BY <1>2 DEF TypeOK
    <3> QED  BY <1>6, <3>1 DEF WriteEntry, files
  <2> HIDE DEF e, f
  <2>3. LagFrom  BY <1>2, <2>1, <2>2 DEF LagFrom
  <2> QED  BY <1>1, <1>3, <2>1, <2>2, <2>3, NoReplace, CredSame, PSame DEF OthersMove
<1> QED  BY <1>5, <1>6

LEMMA RemoveMoves ==
  ASSUME TypeOK, KeepAwake \/ Remove \/ RestoreSleep
  PROVE  OthersMove
<1>1. UNCHANGED <<world, lag, cred, rehub>>  BY DEF KeepAwake, Remove, RestoreSleep, files
<1>2. CASE KeepAwake \/ RestoreSleep
  <2>1. entry' = entry /\ (p' = p \/ Ended)  BY <1>2 DEF KeepAwake, RestoreSleep, files, Ended
  <2> QED  BY <1>1, <2>1, NoReplace, CredSame, PSame DEF OthersMove, LagFrom
<1>3. CASE Remove
  <2>1. CASE ~Removes(q.k)
    <3>1. entry' = entry /\ p' = p  BY <1>3, <2>1 DEF Remove
    <3> QED  BY <1>1, <3>1, NoReplace, CredSame, PSame DEF OthersMove, LagFrom
  <2>2. CASE Removes(q.k)
    <3>1. q.k \in KindSet  BY <1>3 DEF Remove, TypeOK
    <3>2. entry' = [entry EXCEPT ![q.k] = None] /\ Named(q.k, None)  BY <1>3, <2>2 DEF Remove
    <3>3. Undisturbed  BY <3>2 DEF Named, Undisturbed, TypeOK, Agents
    <3>4. p.pc = "rename" /\ q.k = At => p'.unseen
      BY <3>1, <3>2, KindFacts DEF Named, Unseen, TypeOK, Agents
    <3>5. \A k \in KindSet : Replaced(k)  BY <3>1, <3>2, <3>4 DEF Replaced, ByAdmin, TypeOK
    <3> QED  BY <1>1, <3>3, <3>5, CredSame DEF OthersMove, LagFrom
  <2> QED  BY <2>1, <2>2
<1> QED  BY <1>2, <1>3

LEMMA AroundMoves ==
  ASSUME TypeOK, AdminReplaces \/ Flush \/ ProcessEnds \/ PowerCut
  PROVE  OthersMove
<1>1. UNCHANGED <<world, cred, rehub>>  BY DEF AdminReplaces, Flush, ProcessEnds, PowerCut
<1>2. CASE AdminReplaces
  <2>1. PICK k \in KindSet :
          /\ entry[k] # None /\ Named(k, entry'[k])
          /\ entry' = [entry EXCEPT ![k].ino = 3 - @, ![k].by = "admin", ![k].home = None, ![k].torn = FALSE]
    BY <1>2 DEF AdminReplaces
  <2>2. entry'[k] = [entry[k] EXCEPT !.ino = 3 - @, !.by = "admin", !.home = None, !.torn = FALSE]
        /\ \A j \in KindSet \ {k} : entry'[j] = entry[j]
    BY <2>1 DEF TypeOK
  <2>3. entry[k] \in Entry  BY <2>1 DEF TypeOK
  <2>4. entry'[k].by = "admin" /\ ~entry'[k].torn /\ entry'[k].ino = 3 - entry[k].ino
    BY <2>2, <2>3 DEF Entry
  <2>5. entry'[k].ino # entry[k].ino  BY <2>3, <2>4 DEF Entry
  <2>6. entry'[k] # None  BY <2>2, <2>3, AdminType, Nones
  <2>7. Undisturbed  BY <2>1 DEF Named, Undisturbed, TypeOK, Agents
  <2>8. /\ p.pc = "rename" /\ k = At => p'.unseen
        /\ p.pc \in {"temp", "recheck"} /\ k = At /\ entry'[k].ino = p.read.ino => p'.unseen
    BY <2>1, <2>6, KindFacts DEF Named, Unseen, TypeOK, Agents
  <2>9. \A j \in KindSet : Replaced(j)
    BY <2>1, <2>2, <2>4, <2>5, <2>6, <2>8 DEF Replaced, ByAdmin
  <2> QED  BY <1>1, <1>2, <2>7, <2>9, CredSame DEF OthersMove, LagFrom, AdminReplaces
<1>3. CASE Flush \/ ProcessEnds
  <2>1. entry' = entry /\ (p' = p \/ Ended) /\ lag' \in {lag, None}
    BY <1>3 DEF Flush, ProcessEnds, files, Ended
  <2> QED  BY <1>1, <2>1, NoReplace, CredSame, PSame DEF OthersMove, LagFrom
<1>4. CASE PowerCut
  <2>1. Ended /\ lag' = None  BY <1>4 DEF PowerCut, Ended
  <2>2. \A k \in KindSet : Restored(k)
    <3>1. CASE lag = None  BY <1>4, <3>1 DEF PowerCut, Restored
    <3>2. CASE lag # None
      <4>1. PICK e \in lag.may : entry' = [entry EXCEPT ![lag.k] = e]  BY <1>4, <3>2 DEF PowerCut
      <4> QED  BY <3>2, <4>1 DEF TypeOK, Restored
    <3> QED  BY <3>1, <3>2
  <2> QED  BY <1>1, <2>1, <2>2, CredSame DEF OthersMove, LagFrom
<1> QED  BY <1>2, <1>3, <1>4

Rest ==
    \/ Hello \/ Issued \/ InstallByHand \/ Persist \/ UninstallByHand \/ Dissolve \/ Installer
    \/ AdminReplaces \/ Flush \/ ProcessEnds \/ PowerCut
LEMMA RestMoves ==
  ASSUME TypeOK, Rest
  PROVE  OthersMove
BY HelloMoves, BeginMoves, SaveMoves, WriteMoves, RemoveMoves, AroundMoves DEF Rest, Installer

\* Every variable has its type, and the cleaning is at an entry of the kind its step is
\* for.
LEMMA TypeStep ==
  ASSUME TypeOK, AtInv, [Next]_vars
  PROVE  TypeOK'
<1>1. CASE UNCHANGED vars
  BY <1>1, TypeSame, TypeParts DEF vars, files, power, bounds
<1>2. CASE Next
  BY <1>2, TypeStart, TypeClean, TypeHello, TypeBegin, TypeInstall, TypeRemove, TypeAround DEF Next, Installer
<1> QED  BY <1>1, <1>2

\* The steps, by what they do to the agent.
LEMMA Steps ==
  ASSUME TypeOK, TypeOK', [Next]_vars
  PROVE  \/ Launch \/ StartByHand
         \/ Clean
         \/ OthersMove
<1>1. CASE UNCHANGED vars
  <2>1. UNCHANGED <<world, entry, lag, cred, p, rehub>>  BY <1>1 DEF vars, files
  <2> QED  BY <2>1, NoReplace, CredSame, PSame DEF OthersMove, LagFrom
<1> QED  BY <1>1, RestMoves DEF Next, Rest

LEMMA StartsMove ==
  ASSUME TypeOK, Launch \/ StartByHand
  PROVE  (Undisturbed \/ Started) /\ UNCHANGED <<world, entry, lag, cred, rehub>>
<1>1. PICK root \in BOOLEAN, h \in Homes, hub \in Hubs, token \in BOOLEAN : Boot(root, h, hub, token)
  BY Boots
<1> QED  BY <1>1, StartMoves DEF files

LEMMA AtStep ==
  ASSUME TypeOK, TypeOK', AtInv, [Next]_vars
  PROVE  AtInv'
<1> USE DEF FileSteps
<1>0. world' = world  BY Steps, StartsMove, CleanMoves DEF OthersMove
<1>1. CASE Undisturbed  BY <1>0, <1>1 DEF Undisturbed, AtInv, At
<1>2. CASE p'.pc \in {"off", "clean", "up"}  BY <1>2 DEF AtInv
<1>3. CASE Onward
  <2>1. p'.k = p.k  BY <1>3 DEF Onward, TypeOK, Agents
  <2>2. \/ p.pc \in FileSteps /\ p'.pc \in FileSteps
        \/ p.pc = "change" /\ p'.pc = "query"
    BY <1>3 DEF Onward
  <2> QED  BY <1>0, <2>1, <2>2 DEF AtInv, At
<1>4. CASE Planned
  <2>1. p'.k = p.k  BY <1>4 DEF Planned, TypeOK, Agents
  <2>2. At \in AllKinds  BY KindFacts
  <2>3. ~IsFile(At) /\ At # "run" => At = "task"  BY <2>2 DEF AllKinds, IsFile
  <2>4. At' = At  BY <1>0, <2>1 DEF At
  <2>5. p'.pc = IF IsFile(At) THEN "temp" ELSE IF At = "run" THEN "set" ELSE "change"
    BY <1>4 DEF Planned, IsFile
  <2> QED  BY <2>3, <2>4, <2>5 DEF AtInv
<1>5. CASE Ended  BY <1>2, <1>5 DEF Ended, Idle
<1>6. CASE Started  BY <1>2, <1>6 DEF Started
<1>7. CASE \E still \in BOOLEAN : Passed(still)  BY <1>2, <1>7 DEF Passed
<1> QED  BY <1>1, <1>3, <1>4, <1>5, <1>6, <1>7, Steps, StartsMove, CleanMoves DEF OthersMove

-----------------------------------------------------------------------------
(***************************************************************************)
(* Who starts a cleaned entry finds the credential.                        *)
(***************************************************************************)
LEMMA HomesAreHomes ==
  ASSUME TypeOK, NEW k, NEW e \in Entry
  PROVE  \A h \in HomesOf(world.session, k, e) : h \in Homes /\ Real(h) \in RealHomes
<1>1. \A h \in Homes : Real(h) \in RealHomes  BY DEF Homes, Real, RealHomes
<1>2. world.session \in Homes \cup {Odd}  BY DEF TypeOK, Machine
<1>3. \A h \in HomesOf(world.session, k, e) : h \in Homes  BY <1>2 DEF HomesOf, Homes
<1> QED  BY <1>1, <1>3

\* What was found stays found.
LEMMA GoodStays ==
  ASSUME TypeOK, CredKept, world' = world, NEW k, NEW e \in Entry \cup {None},
         GoodIn(world.session, cred, rehub, k, e)
  PROVE  GoodIn(world'.session, cred', rehub', k, e)
<1>1. CASE e = None  BY <1>1 DEF GoodIn
<1>2. CASE e \in Entry
  <2>1. \A h \in HomesOf(world.session, k, e) : Real(h) \in RealHomes  BY <1>2, HomesAreHomes
  <2>2. Finds(world.session, cred, rehub, k, e) => Finds(world.session, cred', rehub', k, e)
    BY <2>1 DEF Finds, CredKept
  <2> QED  BY <2>2 DEF GoodIn
<1> QED  BY <1>1, <1>2

\* decide and plan_file: the rewritten entry finds the credential that was loaded.
LEMMA PlanFinds ==
  ASSUME TypeOK, p.ready => cred[Real(p.home)] # None /\ (rehub \/ cred[Real(p.home)].hub = p.hub),
         p.ready, NEW k \in KindSet, NEW e \in Entry, ~e.torn, Plan(k, e) # None
  PROVE  GoodIn(world.session, cred, rehub \/ e.hub # p.hub, k, Plan(k, e))
<1> DEFINE r == rehub \/ e.hub # p.hub
           new == Plan(k, e)
           pin == [Stripped(e) EXCEPT !.home = PinTarget]
           at == EntryHome(k, e)
<1>1. new \in Entry /\ ~new.token /\ ~new.torn /\ new.hub = e.hub /\ new.by = "clean"  BY PlanType
<1>2. \A h : Same(h) => cred[Real(h)] # None /\ (r \/ cred[Real(h)].hub = e.hub)
  BY DEF Same
<1>3. \/ new = Stripped(e) /\ at.how \in {"pinned", "default"} /\ Same(at.home)
      \/ new = pin /\ Same(PinTarget)
  BY DEF Plan
<1>4. CASE new = Stripped(e) /\ at.how \in {"pinned", "default"} /\ Same(at.home)
  <2>1. new.home = e.home  BY <1>4 DEF Stripped, Entry
  <2>2. at.home \in Homes  BY <1>4 DEF Same
  <2>3. HomesOf(world.session, k, new) = {at.home}
    <3>1. CASE e.home # None
      <4>1. at.home = e.home  BY <3>1 DEF EntryHome
      <4> QED  BY <2>1, <2>2, <4>1 DEF HomesOf
    <3>2. CASE e.home = None
      <4>1. new.home \notin Homes /\ new.home # Odd  BY <2>1, <3>2, Nones
      <4>2. /\ k # "daemon"
            /\ k = "unit" => at.home = "slash"
            /\ k # "unit" => at.home = world.session /\ world.session # Odd
        BY <1>4, <3>2 DEF EntryHome
      <4> QED  BY <4>1, <4>2 DEF HomesOf
    <3> QED  BY <3>1, <3>2
  <2>4. Finds(world.session, cred, r, k, new)  BY <1>1, <1>2, <1>4, <2>3 DEF Finds
  <2> QED  BY <1>1, <2>4 DEF GoodIn
<1>5. CASE new = pin /\ Same(PinTarget)
  <2>1. new.home = PinTarget  BY <1>5 DEF Stripped, Entry
  <2>2. PinTarget \in Homes  BY <1>5 DEF Same
  <2>3. HomesOf(world.session, k, new) = {PinTarget}  BY <2>1, <2>2 DEF HomesOf
  <2>4. Finds(world.session, cred, r, k, new)  BY <1>1, <1>2, <1>5, <2>3 DEF Finds
  <2> QED  BY <1>1, <2>4 DEF GoodIn
<1> QED  BY <1>3, <1>4, <1>5

\* What the cleaning does to the entries: only the one it is at, and that is its plan.
New == [p.plan EXCEPT !.ino = 3 - p.read.ino]
Cleaned ==
    /\ \A k \in KindSet \ {At} : entry'[k] = entry[k]
    /\ entry'[At] = entry[At] \/ (p.plan # None /\ entry'[At] \in {p.plan, New})
    /\ lag' = lag \/ lag' = None \/ (lag'.k = At /\ lag'.may \subseteq {entry[At], entry'[At]})
LEMMA CleanFiles ==
  ASSUME TypeOK, AtInv, Clean
  PROVE  Cleaned
<1> USE DEF Cleaned, files, AtInv, FileSteps
<1>0. At \in KindSet  BY KindFacts
<1>1. CASE Look \/ WriteTemp \/ Recheck \/ QueryTask  BY <1>1 DEF Look, WriteTemp, Recheck, QueryTask
<1>2. CASE Rename
  <2>1. p.plan # None  BY <1>2 DEF Rename, TypeOK, Working
  <2>2. PICK k \in KindSet : /\ Here(k) /\ entry' = [entry EXCEPT ![k] = New]
                             /\ lag' = [k |-> k, may |-> {entry[k], New} \cup (IF SyncsTemp THEN {} ELSE {Torn(New)})]
    BY <1>2 DEF Rename, New
  <2>3. k = At  BY <2>2, KindFacts
  <2>4. entry'[At] = New /\ lag'.k = At /\ lag'.may = {entry[At], New}
    BY <2>2, <2>3 DEF TypeOK, SyncsTemp
  <2> QED  BY <1>0, <2>1, <2>2, <2>3, <2>4 DEF TypeOK
<1>3. CASE SyncDir  BY <1>3 DEF SyncDir
<1>4. CASE SetRunValue
  <2>1. At = "run" /\ p.plan # None  BY <1>4 DEF SetRunValue, TypeOK, Working
  <2> QED  BY <1>0, <1>4, <2>1 DEF SetRunValue, TypeOK
<1>5. CASE ChangeTask
  <2>1. At = "task" /\ p.plan # None  BY <1>5 DEF ChangeTask, TypeOK, Working
  <2> QED  BY <1>0, <1>5, <2>1 DEF ChangeTask, TypeOK
<1> QED  BY <1>1, <1>2, <1>3, <1>4, <1>5 DEF Clean

\* A plan with another inode is as good.
LEMMA NewGood ==
  ASSUME TypeOK, p.plan # None, NEW s, NEW c, NEW r, GoodIn(s, c, r, At, p.plan)
  PROVE  GoodIn(s, c, r, At, New) /\ New \in Entry /\ ~New.token /\ New.by = p.plan.by
<1> DEFINE ino == 3 - p.read.ino
<1>1. p.plan \in Entry /\ p.read \in Entry /\ ~p.plan.token  BY DEF TypeOK, Agents
<1>2. ino \in {1, 2}  BY <1>1 DEF Entry
<1> HIDE DEF ino
<1>3. New = [p.plan EXCEPT !.ino = ino]  BY DEF New, ino
<1>4. New \in Entry /\ New.token = p.plan.token /\ New.by = p.plan.by /\ New.torn = p.plan.torn
      /\ New.home = p.plan.home /\ New.hub = p.plan.hub
  BY <1>1, <1>2, <1>3 DEF Entry
<1>5. HomesOf(s, At, New) = HomesOf(s, At, p.plan)  BY <1>4 DEF HomesOf
<1>6. p.plan # None /\ New # None  BY <1>1, <1>4, Nones
<1> QED  BY <1>1, <1>4, <1>5, <1>6 DEF GoodIn, Finds

EntriesGood == \A k \in KindSet : Good(k, entry[k])
LagGood == lag # None => \A e \in lag.may : Good(lag.k, e)
PlanGood == p.plan # None => p.plan.by = "clean" /\ Good(At, p.plan)
ReadyFinds == p.ready => cred[Real(p.home)] # None /\ (rehub \/ cred[Real(p.home)].hub = p.hub)

LEMMA FindParts == FindInv <=> EntriesGood /\ LagGood /\ PlanGood /\ ReadyFinds
BY DEF FindInv, EntriesGood, LagGood, PlanGood, ReadyFinds

LEMMA FindInit == Init => FindInv
<1> SUFFICES ASSUME Init PROVE FindInv
  OBVIOUS
<1>1. Machine(world)  BY AutostartAssumption DEF Init
<1>2. \A k \in KindSet : entry[k] # None => entry[k].by = "old" /\ ~entry[k].torn
  BY <1>1 DEF Init, Machine, KindSet
<1>3. EntriesGood  BY <1>2 DEF EntriesGood, Good, GoodIn
<1>4. LagGood /\ PlanGood /\ ReadyFinds  BY DEF Init, Idle, LagGood, PlanGood, ReadyFinds
<1> QED  BY <1>3, <1>4, FindParts

\* The ready agent's home keeps its credential.
LEMMA ReadyStays ==
  ASSUME TypeOK, CredKept, ReadyFinds, p'.ready = p.ready, p'.home = p.home, p'.hub = p.hub
  PROVE  ReadyFinds'
<1>1. Real(p.home) \in RealHomes  BY DEF TypeOK, Agents, Homes, Real, RealHomes
<1> QED  BY <1>1 DEF ReadyFinds, CredKept, Real

LEMMA FindOthers ==
  ASSUME TypeOK, TypeOK', FindInv, OthersMove
  PROVE  FindInv'
<1> USE FindParts
<1>0. world' = world /\ CredKept /\ KindSet' = KindSet  BY DEF OthersMove, KindSet
<1>1. \A k, e : e \in Entry \cup {None} /\ Good(k, e)
        => GoodIn(world'.session, cred', rehub', k, e)
  BY <1>0, GoodStays DEF Good
<1>2. \A k, e : ByInstall(e) => GoodIn(world'.session, cred', rehub', k, e)
  BY DEF ByInstall, GoodIn
<1>3. EntriesGood'
  <2> SUFFICES ASSUME NEW k \in KindSet PROVE GoodIn(world'.session, cred', rehub', k, entry'[k])
    BY <1>0 DEF EntriesGood, Good
  <2>1. CASE Replaced(k)
    <3>1. CASE entry'[k] = entry[k]  BY <1>1, <3>1 DEF EntriesGood, TypeOK
    <3>2. CASE entry'[k] = None  BY <3>2 DEF GoodIn
    <3>3. CASE ByInstall(entry'[k])  BY <1>2, <3>3
    <3>4. CASE ByAdmin(k)  BY <3>4 DEF ByAdmin, GoodIn
    <3> QED  BY <2>1, <3>1, <3>2, <3>3, <3>4 DEF Replaced
  <2>2. CASE Restored(k)
    <3>1. CASE entry'[k] = entry[k]  BY <1>1, <3>1 DEF EntriesGood, TypeOK
    <3>2. CASE lag # None /\ k = lag.k /\ entry'[k] \in lag.may  BY <1>1, <3>2 DEF LagGood, TypeOK
    <3> QED  BY <2>2, <3>1, <3>2 DEF Restored
  <2> QED  BY <2>1, <2>2 DEF OthersMove
<1>4. LagGood'
  <2> SUFFICES ASSUME lag' # None, NEW e \in lag'.may PROVE GoodIn(world'.session, cred', rehub', lag'.k, e)
    BY DEF LagGood, Good
  <2>1. CASE lag' = lag  BY <1>1, <2>1 DEF LagGood, TypeOK
  <2>2. CASE lag'.k \in KindSet /\ (ByInstall(e) \/ e = entry[lag'.k] \/ e = entry'[lag'.k])
    <3>1. Good(lag'.k, entry[lag'.k]) /\ entry[lag'.k] \in Entry \cup {None}  BY <2>2 DEF EntriesGood, TypeOK
    <3>2. GoodIn(world'.session, cred', rehub', lag'.k, entry'[lag'.k])
      BY <1>0, <1>3, <2>2 DEF EntriesGood, Good
    <3> QED  BY <1>1, <1>2, <2>2, <3>1, <3>2
  <2> QED  BY <2>1, <2>2 DEF OthersMove, LagFrom
<1>5. PlanGood' /\ ReadyFinds'
  <2>1. CASE Ended  BY <2>1 DEF Ended, Idle, PlanGood, ReadyFinds
  <2>2. CASE Undisturbed
    <3>1. At' = At  BY <1>0, <2>2 DEF At, Undisturbed
    <3>2. p'.plan # None => p.plan \in Entry /\ Good(At, p.plan) /\ p.plan.by = "clean"
      BY <2>2 DEF Undisturbed, TypeOK, Agents, PlanGood
    <3>3. p'.plan # None => GoodIn(world'.session, cred', rehub', At, p.plan)  BY <1>1, <3>2
    <3>4. PlanGood'  BY <2>2, <3>1, <3>2, <3>3 DEF PlanGood, Good, Undisturbed
    <3> QED  BY <1>0, <2>2, <3>4, ReadyStays DEF Undisturbed
  <2> QED  BY <2>1, <2>2 DEF OthersMove
<1> QED  BY <1>3, <1>4, <1>5, PTL

LEMMA FindStart ==
  ASSUME TypeOK, TypeOK', FindInv, Launch \/ StartByHand
  PROVE  FindInv'
<1>1. (Undisturbed \/ Started) /\ UNCHANGED <<world, entry, lag, cred, rehub>>  BY StartsMove
<1>2. CASE Undisturbed
  <2>1. OthersMove  BY <1>1, <1>2, NoReplace, CredSame DEF OthersMove, LagFrom
  <2> QED  BY <2>1, FindOthers
<1>3. CASE Started
  <2>1. EntriesGood' /\ LagGood'
    BY <1>1, FindParts DEF EntriesGood, LagGood, Good, KindSet
  <2>2. PlanGood' /\ ReadyFinds'  BY <1>1, <1>3 DEF Started, PlanGood, ReadyFinds, CredFor
  <2> QED  BY <2>1, <2>2, FindParts, PTL
<1> QED  BY <1>1, <1>2, <1>3

LEMMA FindClean ==
  ASSUME TypeOK, TypeOK', AtInv, FindInv, Clean
  PROVE  FindInv'
<1>0. /\ world' = world /\ cred' = cred /\ (rehub => rehub') /\ KindSet' = KindSet
      /\ (\E still \in BOOLEAN : Passed(still)) \/ Onward \/ Planned
      /\ At \in KindSet
  BY CleanMoves, KindFacts DEF KindSet
<1>1. CredKept  BY <1>0 DEF CredKept
<1>2. EntriesGood /\ LagGood /\ PlanGood /\ ReadyFinds  BY FindParts
<1>3. \A k, e : e \in Entry \cup {None} /\ Good(k, e)
        => GoodIn(world'.session, cred', rehub', k, e)
  BY <1>0, <1>1, GoodStays DEF Good
<1>4. Cleaned  BY CleanFiles
<1>5. \A k \in KindSet : GoodIn(world'.session, cred', rehub', k, entry[k])
  BY <1>2, <1>3 DEF EntriesGood, TypeOK
<1>6. p.plan # None => /\ GoodIn(world'.session, cred', rehub', At, p.plan)
                       /\ GoodIn(world'.session, cred', rehub', At, New)
  <2>1. p.plan # None => p.plan \in Entry  BY DEF TypeOK, Agents
  <2>2. p.plan # None => GoodIn(world'.session, cred', rehub', At, p.plan)
    BY <1>2, <1>3, <2>1 DEF PlanGood
  <2> QED  BY <2>2, NewGood
<1>7. \A k \in KindSet : GoodIn(world'.session, cred', rehub', k, entry'[k])
  BY <1>4, <1>5, <1>6 DEF Cleaned
<1>8. EntriesGood'  BY <1>0, <1>7 DEF EntriesGood, Good
<1>9. LagGood'
  <2> SUFFICES ASSUME lag' # None, NEW e \in lag'.may PROVE GoodIn(world'.session, cred', rehub', lag'.k, e)
    BY DEF LagGood, Good
  <2>1. CASE lag' = lag  BY <1>2, <1>3, <2>1 DEF LagGood, TypeOK
  <2>2. CASE lag'.k = At /\ lag'.may \subseteq {entry[At], entry'[At]}
    BY <1>0, <1>5, <1>7, <2>2
  <2> QED  BY <1>4, <2>1, <2>2 DEF Cleaned
<1>10. PlanGood'
  <2>1. CASE \E still \in BOOLEAN : Passed(still)  BY <2>1 DEF Passed, PlanGood
  <2>2. CASE Onward
    <3>1. p'.plan = p.plan /\ At' = At  BY <1>0, <2>2 DEF Onward, At, TypeOK, Agents
    <3> QED  BY <1>2, <1>6, <3>1 DEF PlanGood, Good
  <2>3. CASE Planned
    <3> DEFINE e == entry[At]
    <3>1. p'.plan = Plan(At, e) /\ p'.k = p.k  BY <2>3 DEF Planned, TypeOK, Agents
    <3>2. At' = At  BY <1>0, <3>1 DEF At
    <3>3. e \in Entry /\ e.token /\ p.ready /\ Plan(At, e) # None  BY <1>0, <2>3 DEF Planned, TypeOK
    <3>4. ~e.torn  BY <1>0, <1>2, <3>3, Nones DEF EntriesGood, Good, GoodIn
    <3>5. GoodIn(world.session, cred, rehub \/ e.hub # p.hub, At, Plan(At, e))
      BY <1>0, <1>2, <3>3, <3>4, PlanFinds DEF ReadyFinds
    <3>6. rehub' = (rehub \/ e.hub # p.hub)  BY <2>3 DEF Planned
    <3>7. Plan(At, e).by = "clean"  BY <1>0, <3>3, PlanType
    <3> HIDE DEF e
    <3> QED  BY <1>0, <3>1, <3>2, <3>5, <3>6, <3>7 DEF PlanGood, Good
  <2> QED  BY <1>0, <2>1, <2>2, <2>3
<1>11. ReadyFinds'
  <2>1. p'.ready = p.ready /\ p'.home = p.home /\ p'.hub = p.hub
    <3>1. CASE Onward  BY <3>1 DEF Onward, TypeOK, Agents
    <3>2. CASE Planned  BY <3>2 DEF Planned, TypeOK, Agents
    <3> QED  BY <1>0, <3>1, <3>2 DEF Passed
  <2> QED  BY <1>1, <1>2, <2>1, ReadyStays
<1> QED  BY <1>8, <1>9, <1>10, <1>11, FindParts, PTL

LEMMA FindStep ==
  ASSUME TypeOK, TypeOK', AtInv, FindInv, [Next]_vars
  PROVE  FindInv'
BY Steps, FindStart, FindClean, FindOthers

-----------------------------------------------------------------------------
(***************************************************************************)
(* A relay.cred is torn only while it is saved, or after a fault.          *)
(***************************************************************************)

\* Nothing happens to a credential or to a save of one.
Calmly ==
    /\ cred' = cred /\ faultsLeft' = faultsLeft
    /\ p'.saving = p.saving /\ (p.saving => p'.home = p.home)
    /\ q.pc = "save" => q'.pc = "save" /\ q'.home = q.home

LEMMA TornFault ==
  ASSUME TypeOK, TypeOK', TornInv, world' = world, faultsLeft' = faultsLeft - 1,
         p'.saving => p'.pc = "up"
  PROVE  TornInv'
<1>1. faultsLeft \in Nat /\ faultsLeft' \in Nat /\ Faults' = Faults  BY DEF TypeOK, Faults
<1>2. Faults \in Nat  BY AutostartAssumption DEF Faults
<1>3. faultsLeft' < Faults'  BY <1>1, <1>2 DEF TornInv
<1>4. Faulty' /\ faultsLeft' <= Faults'  BY <1>1, <1>2, <1>3 DEF Faulty
<1> QED  BY <1>4 DEF TornInv, Spoilt

LEMMA TornCalm ==
  ASSUME TypeOK, TornInv, world' = world, Calmly, p'.saving => p'.pc = "up"
  PROVE  TornInv'
<1>1. Faults' = Faults  BY DEF Faults
<1>2. Faulty' = Faulty  BY <1>1 DEF Faulty, Calmly
<1>3. ASSUME NEW h, Saving(h) PROVE Saving(h)'  BY <1>3 DEF Saving, Calmly
<1>4. ASSUME NEW h \in RealHomes, Spoilt(h) PROVE Spoilt(h)'  BY <1>2, <1>3, <1>4 DEF Spoilt, Calmly
<1> QED  BY <1>1, <1>4 DEF TornInv, Calmly

\* A save tears its file only while it goes on.
LEMMA TornSave ==
  ASSUME TypeOK, TypeOK', TornInv, Hello \/ Issued \/ SaveCred \/ SavedCred
  PROVE  TornInv'
<1>1. world' = world /\ Faults' = Faults  BY DEF Hello, Issued, SaveCred, SavedCred, Faults
<1>2. p'.saving => p'.pc = "up"
  BY DEF Hello, Issued, SaveCred, SavedCred, TypeOK, Agents, TornInv
<1>3. CASE CanFail  BY <1>1, <1>2, <1>3, TornFault DEF CanFail
<1>4. CASE UNCHANGED <<cred, faultsLeft>> /\ p' = p /\ q.pc # "save"
  <2>1. Calmly  BY <1>4 DEF Calmly
  <2> QED  BY <1>1, <1>2, <2>1, TornCalm
<1>5. ASSUME NEW r \in RealHomes, NEW c \in Cred, cred' = [cred EXCEPT ![r] = c],
             faultsLeft' = faultsLeft, c.torn => Saving(r)',
             \A h \in RealHomes \ {r} : Saving(h) => Saving(h)'
      PROVE  TornInv'
  <2>1. Faulty' = Faulty  BY <1>1, <1>5 DEF Faulty
  <2>2. cred'[r] = c /\ \A h \in RealHomes \ {r} : cred'[h] = cred[h]  BY <1>5 DEF TypeOK
  <2>3. ASSUME NEW h \in RealHomes, cred'[h] # None, cred'[h].torn PROVE Spoilt(h)'
    <3>1. CASE h = r  BY <1>5, <2>2, <2>3, <3>1 DEF Spoilt
    <3>2. CASE h # r  BY <1>5, <2>1, <2>2, <2>3, <3>2 DEF Spoilt, TornInv
    <3> QED  BY <3>1, <3>2
  <2> QED  BY <1>1, <1>2, <1>5, <2>3 DEF TornInv
<1>6. \A h \in Homes : Real(h) \in RealHomes  BY DEF Homes, Real, RealHomes
<1>7. \A hub \in Hubs, device \in BOOLEAN, torn \in BOOLEAN :
        [hub |-> hub, device |-> device, torn |-> torn] \in Cred
  BY DEF Cred
<1>8. CASE Hello /\ ~CanFail
  <2>0. PICK r \in RealHomes, c \in Cred :
          r = Real(p.home) /\ c = [hub |-> p.hub, device |-> TRUE, torn |-> TRUE]
    BY <1>6, <1>7 DEF TypeOK, Agents
  <2>1. /\ cred' = [cred EXCEPT ![r] = c] /\ faultsLeft' = faultsLeft /\ q' = q
        /\ p' = [p EXCEPT !.saving = TRUE] /\ ~p.saving
    BY <1>8, <2>0 DEF Hello, Opened, NotOpened, Put
  <2>2. Saving(r)' /\ \A h \in RealHomes : Saving(h) => Saving(h)'
    BY <2>0, <2>1 DEF Saving, TypeOK, Agents
  <2> QED  BY <1>5, <2>1, <2>2
<1>9. CASE Issued /\ ~CanFail
  <2> DEFINE r == Real(p.home)
             c == [hub |-> p.hub, device |-> TRUE, torn |-> FALSE]
  <2>1. /\ cred' = [cred EXCEPT ![r] = c] /\ faultsLeft' = faultsLeft /\ q' = q
    BY <1>9 DEF Issued, Written, Put
  <2>2. r \in RealHomes /\ c \in Cred /\ ~c.torn  BY <1>6, <1>7 DEF TypeOK, Agents
  <2>3. \A h \in RealHomes \ {r} : Saving(h) => Saving(h)'  BY <2>1 DEF Saving
  <2> HIDE DEF r, c
  <2> QED  BY <1>5, <2>1, <2>2, <2>3
<1>10. CASE SavedCred /\ ~CanFail
  <2> DEFINE r == Real(q.home)
             c == [hub |-> q.hub, device |-> FALSE, torn |-> FALSE]
  <2>1. /\ cred' = [cred EXCEPT ![r] = c] /\ faultsLeft' = faultsLeft /\ p' = p
    BY <1>10 DEF SavedCred, Written, Put
  <2>2. r \in RealHomes /\ c \in Cred /\ ~c.torn  BY <1>6, <1>7 DEF TypeOK, Installers
  <2>3. \A h \in RealHomes \ {r} : Saving(h) => Saving(h)'  BY <2>1 DEF Saving
  <2> HIDE DEF r, c
  <2> QED  BY <1>5, <2>1, <2>2, <2>3
<1>11. CASE SaveCred /\ ~CanFail
  <2>1. q.pc = "begin" /\ p' = p  BY <1>11 DEF SaveCred
  <2>2. CASE Opened(q.home, q.hub, FALSE) /\ q' = [q EXCEPT !.pc = "save"]
    <3>1. PICK r \in RealHomes, c \in Cred :
            r = Real(q.home) /\ c = [hub |-> q.hub, device |-> FALSE, torn |-> TRUE]
      BY <1>6, <1>7 DEF TypeOK, Installers
    <3>2. cred' = [cred EXCEPT ![r] = c] /\ faultsLeft' = faultsLeft  BY <2>2, <3>1 DEF Opened, Put
    <3>3. Saving(r)' /\ \A h \in RealHomes : Saving(h) => Saving(h)'
      BY <2>1, <2>2, <3>1 DEF Saving, TypeOK, Installers
    <3> QED  BY <1>5, <3>2, <3>3
  <2>3. CASE UNCHANGED <<cred, rehub, faultsLeft>>  BY <1>4, <2>1, <2>3
  <2> QED  BY <1>11, <2>2, <2>3 DEF SaveCred, NotOpened
<1> QED  BY <1>3, <1>8, <1>9, <1>10, <1>11

LEMMA TornStep ==
  ASSUME TypeOK, TypeOK', TornInv, [Next]_vars
  PROVE  TornInv'
<1> USE DEF bounds, files, power
<1>1. CASE UNCHANGED vars
  <2>1. Calmly /\ world' = world /\ p' = p  BY <1>1 DEF vars, Calmly
  <2> QED  BY <2>1, TornCalm DEF TornInv
<1>2. CASE Launch \/ StartByHand
  <2>1. PICK root \in BOOLEAN, h \in Homes, hub \in Hubs, token \in BOOLEAN : Boot(root, h, hub, token)
    BY <1>2, Boots
  <2>2. ~p.saving /\ ~p'.saving  BY <2>1 DEF Boot, TornInv, Idle, TypeOK, Agents
  <2>3. Calmly /\ world' = world  BY <2>1, <2>2 DEF Boot, Calmly, TypeOK, Agents
  <2> QED  BY <2>2, <2>3, TornCalm
<1>3. CASE Clean
  <2>1. ~p.saving
    BY <1>3 DEF TornInv, Clean, Look, WriteTemp, Recheck, Rename, SyncDir, SetRunValue, ChangeTask, QueryTask
  <2>2. p'.saving = p.saving
    <3>1. Onward => p'.saving = p.saving  BY DEF Onward, TypeOK, Agents
    <3>2. Planned => p'.saving = p.saving  BY DEF Planned, TypeOK, Agents
    <3> QED  BY <1>3, <3>1, <3>2, CleanMoves DEF Passed
  <2>3. world' = world /\ cred' = cred  BY <1>3, CleanMoves
  <2>4. q' = q
    BY <1>3 DEF Clean, Look, WriteTemp, Recheck, Rename, SyncDir, SetRunValue, ChangeTask, QueryTask
  <2>5. CanFail \/ faultsLeft' = faultsLeft
    BY <1>3 DEF Clean, Look, ReadFails, WriteTemp, Recheck, Rename, SyncDir, SetRunValue, ChangeTask, QueryTask
  <2>6. CASE CanFail  BY <2>1, <2>2, <2>3, <2>6, TornFault DEF CanFail
  <2>7. CASE faultsLeft' = faultsLeft
    <3>1. Calmly  BY <2>1, <2>2, <2>3, <2>4, <2>7 DEF Calmly
    <3> QED  BY <2>1, <2>2, <2>3, <3>1, TornCalm
  <2> QED  BY <2>5, <2>6, <2>7
<1>4. CASE Hello \/ Issued \/ SaveCred \/ SavedCred  BY <1>4, TornSave
<1>5. CASE InstallByHand \/ Persist \/ UninstallByHand \/ Dissolve
  <2>1. UNCHANGED <<world, cred, p, faultsLeft>> /\ q.pc = "off"
    BY <1>5 DEF InstallByHand, Persist, UninstallByHand, Dissolve, Others, Begin
  <2> QED  BY <2>1, TornCalm DEF Calmly, TornInv
<1>6. CASE Truncate \/ WriteEntry \/ KeepAwake
  <2>1. UNCHANGED <<world, cred, p>> /\ q.pc # "save"
    BY <1>6 DEF Truncate, WriteEntry, KeepAwake
  <2>2. CanFail \/ faultsLeft' = faultsLeft  BY <1>6 DEF Truncate, WriteEntry, KeepAwake
  <2>3. CASE CanFail  BY <2>1, <2>3, TornFault DEF CanFail, TornInv
  <2>4. CASE faultsLeft' = faultsLeft  BY <2>1, <2>4, TornCalm DEF Calmly, TornInv
  <2> QED  BY <2>2, <2>3, <2>4
<1>7. CASE Remove
  <2>1. UNCHANGED <<world, cred, faultsLeft>> /\ q.pc # "save"  BY <1>7 DEF Remove
  <2>2. p'.saving = p.saving /\ p'.home = p.home /\ p'.pc = p.pc
    BY <1>7 DEF Remove, Named, TypeOK, Agents
  <2> QED  BY <2>1, <2>2, TornCalm DEF Calmly, TornInv
<1>8. CASE RestoreSleep
  <2>1. UNCHANGED <<world, cred>> /\ q.pc # "save" /\ (p' = Idle \/ p' = p)  BY <1>8 DEF RestoreSleep
  <2>2. p'.saving => p'.pc = "up"  BY <2>1 DEF TornInv, Idle
  <2>3. CASE CanFail  BY <2>1, <2>2, <2>3, TornFault DEF CanFail
  <2>4. CASE ~CanFail
    <3>1. faultsLeft' = faultsLeft /\ p'.saving = p.saving /\ (p.saving => p' = p)
      BY <1>8, <2>4 DEF RestoreSleep, Idle, TypeOK, Agents
    <3> QED  BY <2>1, <2>2, <3>1, TornCalm DEF Calmly
  <2> QED  BY <2>3, <2>4
<1>9. CASE AdminReplaces \/ Flush
  <2>1. UNCHANGED <<world, cred, faultsLeft, q>>  BY <1>9 DEF AdminReplaces, Flush
  <2>2. p'.saving = p.saving /\ p'.home = p.home /\ p'.pc = p.pc
    BY <1>9 DEF AdminReplaces, Flush, Named, TypeOK, Agents
  <2> QED  BY <2>1, <2>2, TornCalm DEF Calmly, TornInv
<1>10. CASE ProcessEnds \/ PowerCut
  <2>1. world' = world /\ CanFail /\ (p' = Idle \/ p' = p)  BY <1>10 DEF ProcessEnds, PowerCut
  <2> QED  BY <2>1, TornFault DEF CanFail, Idle, TornInv
<1> QED  BY <1>1, <1>2, <1>3, <1>4, <1>5, <1>6, <1>7, <1>8, <1>9, <1>10 DEF Next, Installer

-----------------------------------------------------------------------------
(***************************************************************************)
(* The report, the place and the name.                                     *)
(***************************************************************************)
\* An entry the cleaning passes without saying so carries no token.
SilentNext(k) == entry'[k] # None /\ entry'[k].by # "admin" => ~entry'[k].token
LEMMA PassesSilently ==
  ASSUME TypeOK, TypeOK', AtInv, ReportInv, Clean
  PROVE  /\ p'.pc \in {"clean", "up"} =>
              p'.still \/ p.k \in p'.blind \/ ~Visible(At) \/ SilentNext(At)
         /\ p'.pc \in {"sync", "query"} => SilentNext(At)
<1> USE DEF FileSteps
<1>0. At \in KindSet  BY KindFacts
<1>1. \A b \in BOOLEAN : PassOn(b) => (b => p'.still) /\ p'.pc \in {"clean", "up"}
  BY Passes DEF Passed
<1>2. Left => p'.still /\ p'.pc \in {"clean", "up"}  BY <1>1 DEF Left
<1>3. CASE Look
  <2>1. PICK k \in KindSet : p.pc = "clean" /\ Here(k) /\ (Decide(k) \/ ReadFails(k))
    BY <1>3 DEF Look
  <2>2. k = At /\ entry' = entry  BY <1>3, <2>1, KindFacts DEF Look, files
  <2>3. CASE PassOn(FALSE) /\ (entry[k] = None \/ ~Visible(k))  BY <1>1, <2>2, <2>3 DEF SilentNext
  <2>4. CASE Left  BY <1>2, <2>4
  <2>5. CASE ~entry[k].token /\ PassOn(FALSE)  BY <1>1, <2>2, <2>5 DEF SilentNext
  <2>6. CASE p' = [p EXCEPT !.read = entry[k], !.plan = Plan(k, entry[k]),
                            !.pc = CASE IsFile(k) -> "temp" [] k = "run" -> "set" [] OTHER -> "change"]
    <3> DEFINE pc == CASE IsFile(k) -> "temp" [] k = "run" -> "set" [] OTHER -> "change"
    <3>1. pc \notin {"clean", "up", "sync", "query"}  OBVIOUS
    <3> HIDE DEF pc
    <3>2. p' = [p EXCEPT !.read = entry[k], !.plan = Plan(k, entry[k]), !.pc = pc]  BY <2>6 DEF pc
    <3> QED  BY <3>1, <3>2 DEF TypeOK, Agents
  <2>7. CASE Unread  BY <2>7 DEF Unread, Pass, TypeOK, Agents
  <2> QED  BY <2>1, <2>3, <2>4, <2>5, <2>6, <2>7 DEF Decide, ReadFails
<1>4. CASE WriteTemp  BY <1>2, <1>4 DEF WriteTemp, TypeOK, Agents
<1>5. CASE Recheck  BY <1>2, <1>5 DEF Recheck, TypeOK, Agents
<1>6. CASE Rename
  <2>1. p.plan # None /\ p'.pc = "sync"  BY <1>6 DEF Rename, TypeOK, Agents, Working
  <2>2. PICK k \in KindSet : Here(k) /\ entry' = [entry EXCEPT ![k] = New]  BY <1>6 DEF Rename, New
  <2>3. k = At  BY <2>2, KindFacts
  <2>4. entry'[At] = New  BY <2>2, <2>3 DEF TypeOK
  <2>5. New.token = p.plan.token  BY <2>1 DEF New, TypeOK, Agents, Entry
  <2> QED  BY <2>1, <2>4, <2>5 DEF SilentNext, TypeOK
<1>7. CASE SyncDir
  <2>1. p.pc = "sync" /\ entry' = entry  BY <1>7 DEF SyncDir
  <2> QED  BY <1>1, <1>7, <2>1 DEF SyncDir, ReportInv, Silent, SilentNext
<1>8. CASE SetRunValue
  <2>1. At = "run" /\ p.plan # None /\ ~p.plan.token  BY <1>8 DEF SetRunValue, AtInv, TypeOK, Working
  <2>2. CASE entry' = [entry EXCEPT !["run"] = p.plan] /\ PassOn(FALSE)
    <3>1. entry'[At] = p.plan  BY <1>0, <2>1, <2>2 DEF TypeOK
    <3> QED  BY <1>1, <2>1, <2>2, <3>1 DEF SilentNext
  <2> QED  BY <1>2, <1>8, <2>2 DEF SetRunValue
<1>9. CASE ChangeTask
  <2>1. At = "task" /\ p.plan # None /\ ~p.plan.token  BY <1>9 DEF ChangeTask, AtInv, TypeOK, Working
  <2>2. CASE entry' = [entry EXCEPT !["task"] = p.plan] /\ p' = [p EXCEPT !.pc = "query"]
    <3>1. entry'[At] = p.plan  BY <1>0, <2>1, <2>2 DEF TypeOK
    <3>2. p'.pc = "query"  BY <2>2 DEF TypeOK, Agents
    <3> QED  BY <2>1, <3>1, <3>2 DEF SilentNext
  <2> QED  BY <1>2, <1>9, <2>2 DEF ChangeTask
<1>10. CASE QueryTask
  <2> DEFINE b == entry["task"] = None \/ entry["task"].token
  <2>1. At = "task" /\ entry' = entry  BY <1>10 DEF QueryTask, AtInv, files
  <2>2. b \in BOOLEAN /\ (PassOn(b) \/ Left)  BY <1>10 DEF QueryTask
  <2>3. ~b => SilentNext(At)  BY <2>1 DEF SilentNext
  <2> HIDE DEF b
  <2> QED  BY <1>1, <1>2, <2>2, <2>3
<1> QED  BY <1>3, <1>4, <1>5, <1>6, <1>7, <1>8, <1>9, <1>10 DEF Clean

\* What it did not read is no file.
LEMMA BlindClean ==
  ASSUME TypeOK, TypeOK', AtInv, Clean
  PROVE  /\ p.blind \subseteq p'.blind
         /\ \A i \in p'.blind : i \in p.blind \/ (i = p.k /\ ~IsFile(At))
<1>1. \A b \in BOOLEAN : PassOn(b) => p'.blind = p.blind  BY Passes
<1>2. Left => p'.blind = p.blind  BY <1>1 DEF Left
<1>4. CASE Look
  <2>1. PICK k \in KindSet : Here(k) /\ (Decide(k) \/ ReadFails(k))  BY <1>4 DEF Look
  <2>2. k = At  BY <2>1, KindFacts
  <2>3. CASE ReadFails(k)
    <3>1. Unread => p'.blind = p.blind \cup {p.k}  BY DEF Unread, Pass, TypeOK, Agents
    <3>2. Left \/ (~IsFile(At) /\ Unread)  BY <2>2, <2>3 DEF ReadFails
    <3> QED  BY <1>2, <3>1, <3>2
  <2>4. CASE Decide(k)
    <3>1. PassOn(FALSE) \/ Left \/ p'.blind = p.blind
      <4>1. CASE p' = [p EXCEPT !.read = entry[k], !.plan = Plan(k, entry[k]),
                            !.pc = CASE IsFile(k) -> "temp" [] k = "run" -> "set" [] OTHER -> "change"]
        BY <4>1 DEF TypeOK, Agents
      <4> QED  BY <2>4, <4>1 DEF Decide
    <3> QED  BY <1>1, <1>2, <3>1
  <2> QED  BY <2>1, <2>3, <2>4
<1>5. CASE WriteTemp  BY <1>2, <1>5 DEF WriteTemp, TypeOK, Agents
<1>6. CASE Recheck  BY <1>2, <1>6 DEF Recheck, TypeOK, Agents
<1>7. CASE Rename  BY <1>7 DEF Rename, TypeOK, Agents
<1>8. CASE SyncDir  BY <1>1, <1>8 DEF SyncDir
<1>9. CASE SetRunValue  BY <1>1, <1>2, <1>9 DEF SetRunValue
<1>10. CASE ChangeTask  BY <1>2, <1>10 DEF ChangeTask, TypeOK, Agents
<1>11. CASE QueryTask
  <2>1. (entry["task"] = None \/ entry["task"].token) \in BOOLEAN  OBVIOUS
  <2> QED  BY <1>1, <1>2, <1>11, <2>1 DEF QueryTask
<1> QED  BY <1>4, <1>5, <1>6, <1>7, <1>8, <1>9, <1>10, <1>11 DEF Clean

LEMMA ReportClean ==
  ASSUME TypeOK, TypeOK', AtInv, ReportInv, Clean
  PROVE  ReportInv'
<1>0. /\ world' = world /\ Cleaned
      /\ (\E still \in BOOLEAN : Passed(still)) \/ Onward \/ Planned
  BY CleanMoves, CleanFiles
<1>1. /\ p.k \in {1, 2} /\ p.pc \notin {"off", "up"}
  BY DEF TypeOK, Agents, Clean, Look, WriteTemp, Recheck, Rename, SyncDir, SetRunValue, ChangeTask, QueryTask
<1>2. \A i \in {1, 2} : i # p.k => entry'[Kinds(world.os)[i]] = entry[Kinds(world.os)[i]]
  <2>1. Kinds(world.os)[1] # Kinds(world.os)[2]  BY DEF TypeOK, Machine, Kinds
  <2>2. \A i \in {1, 2} : Kinds(world.os)[i] \in KindSet  BY FirstKind
  <2> QED  BY <1>0, <1>1, <2>1, <2>2 DEF Cleaned, At
<1>3. \A i \in {1, 2} : i < p.k /\ Visible(Kinds(world.os)[i]) =>
        p.still \/ i \in p.blind \/ SilentNext(Kinds(world.os)[i])
  BY <1>1, <1>2 DEF ReportInv, Behind, Silent, SilentNext
<1>4. p'.home = p.home /\ (p.still => p'.still)
  <2>1. CASE Onward  BY <2>1 DEF Onward, TypeOK, Agents
  <2>2. CASE Planned  BY <2>2 DEF Planned, TypeOK, Agents
  <2> QED  BY <1>0, <2>1, <2>2 DEF Passed
<1>7. p.blind \subseteq p'.blind /\ \A i \in p'.blind : ~IsFile(Kinds(world.os)[i])
  <2>1. \A i \in p'.blind : i \in p.blind \/ (i = p.k /\ ~IsFile(At))  BY BlindClean
  <2> QED  BY <2>1, BlindClean DEF ReportInv, At
<1>5. CASE \E still \in BOOLEAN : Passed(still)
  <2>1. p'.pc \in {"clean", "up"} /\ (p'.pc = "up" <=> p.k = 2) /\ p'.k = (IF p.k = 2 THEN 1 ELSE 2)
    BY <1>5 DEF Passed
  <2>2. \A i \in {1, 2} : Behind(i)' => i = p.k \/ i < p.k  BY <1>1, <2>1 DEF Behind
  <2>3. \A i \in {1, 2} : i = p.k /\ Visible(Kinds(world.os)[i]) =>
          p'.still \/ i \in p'.blind \/ SilentNext(Kinds(world.os)[i])
    BY <2>1, PassesSilently DEF At
  <2> QED  BY <1>0, <1>3, <1>4, <1>7, <2>1, <2>2, <2>3 DEF ReportInv, Silent, SilentNext, Visible
<1>6. CASE Onward \/ Planned
  <2>1. p'.k = p.k /\ p'.pc \notin {"off", "up"}
    <3>1. CASE Onward  BY <3>1 DEF Onward, TypeOK, Agents
    <3>2. CASE Planned
      <4>1. (CASE IsFile(At) -> "temp" [] At = "run" -> "set" [] OTHER -> "change") \notin {"off", "up"}  OBVIOUS
      <4>2. p'.pc \notin {"off", "up"}  BY <3>2, <4>1 DEF Planned
      <4> QED  BY <3>2, <4>2 DEF Planned, TypeOK, Agents
    <3> QED  BY <1>6, <3>1, <3>2
  <2>2. \A i \in {1, 2} : Behind(i)' => i < p.k  BY <2>1 DEF Behind
  <2>3. At' = At  BY <1>0, <2>1 DEF At
  <2>4. p'.pc \in {"sync", "query"} => SilentNext(At)  BY PassesSilently
  <2> QED  BY <1>0, <1>3, <1>4, <1>7, <2>2, <2>3, <2>4 DEF ReportInv, Silent, SilentNext, Visible
<1> QED  BY <1>0, <1>5, <1>6

LEMMA ReportOthers ==
  ASSUME TypeOK, TypeOK', ReportInv, OthersMove
  PROVE  ReportInv'
<1>1. CASE Ended  BY <1>1 DEF Ended, Idle, ReportInv, Behind
<1>2. CASE Undisturbed /\ \A k \in KindSet : Replaced(k)
  <2>1. \A k \in KindSet : Silent(k) => SilentNext(k)
    BY <1>2 DEF Replaced, Silent, SilentNext, ByInstall, ByAdmin
  <2>2. \A i \in {1, 2} : Kinds(world.os)[i] \in KindSet  BY FirstKind
  <2>3. At \in KindSet /\ At' = At /\ world' = world
    BY <1>2, KindFacts DEF OthersMove, At, Undisturbed
  <2>4. \A i \in {1, 2} : Behind(i)' => Behind(i)  BY <1>2 DEF Behind, Undisturbed
  <2>5. p'.home = p.home /\ p'.still = p.still /\ p'.pc = p.pc /\ p'.blind = p.blind  BY <1>2 DEF Undisturbed
  <2> QED  BY <2>1, <2>2, <2>3, <2>4, <2>5 DEF ReportInv, Silent, SilentNext, Visible
<1> QED  BY <1>1, <1>2 DEF OthersMove

LEMMA ReportStep ==
  ASSUME TypeOK, TypeOK', AtInv, ReportInv, [Next]_vars
  PROVE  ReportInv'
<1>1. CASE Launch \/ StartByHand
  <2>1. (Undisturbed \/ Started) /\ UNCHANGED <<world, entry, lag, cred, rehub>>  BY <1>1, StartsMove
  <2>2. CASE Undisturbed
    <3>1. OthersMove  BY <2>1, <2>2, NoReplace, CredSame DEF OthersMove, LagFrom
    <3> QED  BY <3>1, ReportOthers
  <2>3. CASE Started
    <3>1. \A i \in {1, 2} : ~Behind(i)'  BY <2>3 DEF Started, Behind
    <3> QED  BY <2>3, <3>1 DEF ReportInv, Started
  <2> QED  BY <2>1, <2>2, <2>3
<1> QED  BY <1>1, Steps, ReportClean, ReportOthers

LEMMA PlanHome ==
  ASSUME TypeOK, NEW k \in KindSet, NEW e \in Entry, Plan(k, e) # None
  PROVE  Plan(k, e).home # e.home => SafeToPin(Plan(k, e).home)
<1>1. \/ Plan(k, e) = Stripped(e)
      \/ Plan(k, e) = [Stripped(e) EXCEPT !.home = PinTarget] /\ SafeToPin(PinTarget)
  BY DEF Plan
<1> QED  BY <1>1 DEF Stripped, Entry

\* The checks of a place, and of a home to pin, hold from the look to the rename.
OwnSteps == {"temp", "recheck", "rename"}
LEMMA OwnStep ==
  ASSUME TypeOK, TypeOK', AtInv, OwnInv, [Next]_vars
  PROVE  OwnInv'
<1>0. world' = world  BY Steps, StartsMove, CleanMoves DEF OthersMove
<1>1. CASE p'.pc \notin OwnSteps  BY <1>1 DEF OwnInv, OwnSteps
<1>2. CASE Undisturbed \/ Onward
  <2>1. p'.k = p.k /\ p'.root = p.root /\ p'.plan = p.plan /\ p'.read = p.read
    <3>1. CASE Onward  BY <3>1 DEF Onward, TypeOK, Agents
    <3> QED  BY <1>2, <3>1 DEF Undisturbed
  <2>2. p'.pc \in OwnSteps => p.pc \in OwnSteps  BY <1>2 DEF Undisturbed, Onward, OwnSteps
  <2>3. At' = At /\ Euid' = Euid  BY <1>0, <2>1 DEF At, Euid
  <2>4. \A h : SafeToPin(h)' <=> SafeToPin(h)  BY <1>0, <2>3 DEF SafeToPin
  <2> QED  BY <1>0, <2>1, <2>2, <2>3 DEF OwnInv, OwnSteps, SafeToPin
<1>3. CASE Planned
  <2> DEFINE e == entry[At]
  <2>1. p'.plan = Plan(At, e) /\ p'.read = e /\ p'.k = p.k /\ p'.root = p.root
    BY <1>3 DEF Planned, TypeOK, Agents
  <2>2. At' = At /\ Euid' = Euid  BY <1>0, <2>1 DEF At, Euid
  <2>3. At \in KindSet /\ e \in Entry /\ Plan(At, e) # None
    BY <1>3, KindFacts DEF Planned, TypeOK
  <2>4. Plan(At, e).home # e.home => SafeToPin(Plan(At, e).home)  BY <2>3, PlanHome
  <2>5. p'.pc \in OwnSteps => IsFile(At)
    <3>1. ~IsFile(At) => (CASE IsFile(At) -> "temp" [] At = "run" -> "set" [] OTHER -> "change") \in {"set", "change"}
      OBVIOUS
    <3> QED  BY <1>3, <3>1 DEF Planned, OwnSteps
  <2>6. IsFile(At) => MayReplace(world.glibc, world.place[At], Euid, world.db)
    <3>1. IsFile(At) => At # "task"  BY DEF IsFile
    <3> QED  BY <1>3, <3>1 DEF Planned, Replaceable
  <2> HIDE DEF e
  <2> QED  BY <1>0, <2>1, <2>2, <2>4, <2>5, <2>6 DEF OwnInv, OwnSteps, SafeToPin
<1>4. CASE Ended \/ Started \/ \E still \in BOOLEAN : Passed(still)
  BY <1>1, <1>4 DEF Ended, Idle, Started, Passed, OwnSteps
<1> QED  BY <1>2, <1>3, <1>4, Steps, StartsMove, CleanMoves DEF OthersMove

\* The name stays the read file's, or shows at the next look, or cannot be seen to have
\* changed.
LEMMA NameStep ==
  ASSUME TypeOK, TypeOK', AtInv, NameInv, [Next]_vars
  PROVE  NameInv'
<1>0. At \in KindSet  BY KindFacts
<1>1. CASE p'.pc \notin OwnSteps  BY <1>1 DEF NameInv, OwnSteps
<1>2. CASE Undisturbed /\ world' = world /\ \A k \in KindSet : Replaced(k)
  <2>1. At' = At  BY <1>2 DEF At, Undisturbed
  <2>2. Replaced(At)  BY <1>0, <1>2
  <2>3. p.pc \in {"temp", "recheck"} /\ (Kept \/ ~SameInode(entry[At], p.read))
        => Kept' \/ ~SameInode(entry[At], p.read)'
    <3> SUFFICES ASSUME p.pc \in {"temp", "recheck"}, Kept \/ ~SameInode(entry[At], p.read), ~p'.unseen
                 PROVE  Kept' \/ ~SameInode(entry[At], p.read)'
      BY DEF Kept
    <3>1. ~p.unseen /\ p'.read = p.read  BY <1>2 DEF Undisturbed
    <3>2. CASE entry'[At] = entry[At]  BY <2>1, <3>1, <3>2 DEF Kept, SameInode
    <3>3. CASE entry'[At] = None  BY <2>1, <3>3 DEF SameInode
    <3>4. CASE ByInstall(entry'[At])  BY <2>1, <3>4 DEF ByInstall, Kept
    <3>5. CASE ByAdmin(At)
      <4>1. entry'[At].ino # p.read.ino  BY <2>2, <3>5 DEF Replaced
      <4> QED  BY <2>1, <3>1, <4>1 DEF SameInode
    <3> QED  BY <2>2, <3>2, <3>3, <3>4, <3>5 DEF Replaced
  <2>4. p.pc = "rename" /\ Kept => Kept'
    <3>1. p'.read = p.read /\ (p.unseen => p'.unseen)  BY <1>2 DEF Undisturbed
    <3>2. p.pc = "rename" => entry'[At] = entry[At] \/ p'.unseen \/ ByInstall(entry'[At])
      BY <2>2 DEF Replaced
    <3> QED  BY <2>1, <3>1, <3>2 DEF Kept, ByInstall
  <2>5. p'.pc = p.pc  BY <1>2 DEF Undisturbed
  <2> QED  BY <2>1, <2>3, <2>4, <2>5 DEF NameInv
<1>3. CASE Onward /\ world' = world
  <2>1. p'.k = p.k /\ p'.read = p.read /\ p'.unseen = p.unseen  BY <1>3 DEF Onward, TypeOK, Agents
  <2>2. At' = At  BY <1>3, <2>1 DEF At
  <2>3. p.pc \in {"temp", "recheck"} => entry' = entry  BY <1>3 DEF Onward
  <2>4. p.pc = "recheck" => Kept  BY <1>3 DEF Onward, NameInv
  <2>5. p'.pc = "rename" => p.pc = "recheck"  BY <1>3 DEF Onward
  <2>6. p'.pc \in {"temp", "recheck"} => p.pc = "temp"  BY <1>3 DEF Onward
  <2> QED  BY <2>1, <2>2, <2>3, <2>4, <2>5, <2>6 DEF NameInv, Kept, SameInode
<1>4. CASE Planned /\ world' = world
  <2>1. p'.k = p.k /\ p'.read = entry[At] /\ entry' = entry  BY <1>4 DEF Planned, TypeOK, Agents
  <2>2. At' = At  BY <1>4, <2>1 DEF At
  <2>3. Kept'  BY <2>1, <2>2 DEF Kept
  <2> QED  BY <2>3 DEF NameInv
<1>5. CASE Ended \/ Started \/ \E still \in BOOLEAN : Passed(still)
  BY <1>1, <1>5 DEF Ended, Idle, Started, Passed, OwnSteps
<1>6. CASE Launch \/ StartByHand
  BY <1>2, <1>5, <1>6, StartsMove, NoReplace
<1>7. CASE Clean  BY <1>3, <1>4, <1>5, <1>7, CleanMoves
<1>8. CASE OthersMove  BY <1>2, <1>5, <1>8 DEF OthersMove
<1> QED  BY <1>6, <1>7, <1>8, Steps

-----------------------------------------------------------------------------
(***************************************************************************)
(* The theorems.                                                           *)
(***************************************************************************)
LEMMA CleanInit == Init => CleanInv
<1> SUFFICES ASSUME Init PROVE CleanInv
  OBVIOUS
<1>1. p.pc = "off" /\ p.plan = None  BY DEF Init, Idle
<1>2. AtInv /\ ReportInv /\ OwnInv /\ NameInv
  BY <1>1 DEF AtInv, FileSteps, ReportInv, Behind, OwnInv, NameInv, Init, Idle
<1>3. TornInv
  <2>1. faultsLeft = Faults /\ Faults \in Nat /\ ~p.saving
    BY AutostartAssumption DEF Init, Idle, Faults
  <2>2. \A h \in RealHomes : cred[h] # None => ~cred[h].torn
    BY AutostartAssumption DEF Init, Machine
  <2> QED  BY <2>1, <2>2 DEF TornInv
<1> QED  BY <1>2, <1>3, TypeInit, FindInit DEF CleanInv

LEMMA CleanAlways == Spec => []CleanInv
<1>1. CleanInv /\ [Next]_vars => CleanInv'
  <2> SUFFICES ASSUME CleanInv, [Next]_vars PROVE CleanInv'
    OBVIOUS
  <2>1. TypeOK /\ AtInv /\ FindInv /\ TornInv /\ ReportInv /\ OwnInv /\ NameInv  BY DEF CleanInv
  <2>2. TypeOK'  BY <2>1, TypeStep
  <2>3. AtInv' /\ FindInv' /\ TornInv' /\ ReportInv' /\ OwnInv' /\ NameInv'
    BY <2>1, <2>2, AtStep, FindStep, TornStep, ReportStep, OwnStep, NameStep
  <2> QED  BY <2>2, <2>3 DEF CleanInv
<1> QED  BY <1>1, CleanInit, PTL DEF Spec

\* Every variable of the entries, the processes and the machine has its type
\* (persistence.rs, entryclean.rs).
THEOREM AutostartTypeOK == Spec => []TypeOK
<1>1. CleanInv => TypeOK  BY DEF CleanInv
<1> QED  BY <1>1, CleanAlways, PTL

\* An entry the cleaning rewrote is whole and its launcher finds the credential, unless a
\* save of the credential since was cut short, failed or is not done, in every behaviour:
\* any kinds of entry, homes and sessions, any number of starts, hellos, installs, failed
\* writes, crashes and power cuts (entryclean.rs: decide, plan_file; securefs.rs: replace;
\* relaycred.rs: save).
THEOREM CleanedEntriesFind == Spec => []CleanedFinds
<1>1. CleanInv => CleanedFinds
  <2> SUFFICES ASSUME CleanInv, NEW k \in KindSet, entry[k] # None, entry[k].by = "clean"
               PROVE  /\ ~entry[k].torn
                      /\ \A h \in HomesAt(k, entry[k]) :
                           /\ cred[Real(h)] # None
                           /\ \/ CredFor(h, entry[k].hub)
                              \/ Spoilt(Real(h))
                              \/ rehub /\ ~cred[Real(h)].torn
    BY DEF CleanedFinds
  <2>1. TypeOK /\ TornInv /\ entry[k] \in Entry  BY DEF CleanInv, TypeOK
  <2>2. ~entry[k].torn /\ Finds(world.session, cred, rehub, k, entry[k])
    BY DEF CleanInv, FindInv, Good, GoodIn
  <2>3. \A h \in HomesAt(k, entry[k]) : Real(h) \in RealHomes  BY <2>1, HomesAreHomes DEF HomesAt
  <2> QED  BY <2>1, <2>2, <2>3 DEF Finds, HomesAt, CredFor, TornInv
<1> QED  BY <1>1, CleanAlways, PTL

\* What hello reports of the token is right about the entries the agent can see and, on
\* Windows, could read, whatever failed while it looked (entryclean.rs: run).
THEOREM ReportsRight == Spec => []ReportIsRight
<1>1. CleanInv => ReportIsRight
  <2> SUFFICES ASSUME CleanInv, p.pc = "up", ~p.still, NEW k \in KindSet,
                      Visible(k), entry[k] # None, entry[k].by # "admin", IsFile(k) \/ ~Blind(k)
               PROVE  ~entry[k].token
    BY DEF ReportIsRight
  <2>1. PICK i \in {1, 2} : k = Kinds(world.os)[i]  BY DEF KindSet
  <2>2. Behind(i)  BY DEF Behind
  <2>3. i \notin p.blind  BY <2>1 DEF CleanInv, ReportInv, Blind
  <2> QED  BY <2>1, <2>2, <2>3 DEF CleanInv, ReportInv, Silent
<1> QED  BY <1>1, CleanAlways, PTL

\* The rules of securefs.rs keep their promise: a file that is replaced, and a home that
\* is pinned, is one only root and the agent's user can change, whatever nsswitch.conf
\* says, whoever holds the group, and whichever glibc reads it (private_group, nss_local).
THEOREM OnlyOwnRewritten == Spec => RewritesOnlyOwn
<1>1. CleanInv => \A k \in KindSet : p.pc = "rename" /\ Here(k) =>
        LET at == world.place[k]
        IN /\ OnlyBy(world.glibc, {at.file, at.dir} \cup at.above, Euid, world.db)
           /\ p.plan.home # p.read.home =>
                OnlyBy(world.glibc, world.ways[p.plan.home], Euid, world.db)
  <2> SUFFICES ASSUME CleanInv, NEW k \in KindSet, p.pc = "rename", Here(k)
               PROVE  LET at == world.place[k]
                      IN /\ OnlyBy(world.glibc, {at.file, at.dir} \cup at.above, Euid, world.db)
                         /\ p.plan.home # p.read.home =>
                              OnlyBy(world.glibc, world.ways[p.plan.home], Euid, world.db)
    OBVIOUS
  <2>1. TypeOK /\ OwnInv  BY DEF CleanInv
  <2>2. k = At  BY <2>1, KindFacts
  <2>3. IsConf(world.db.conf) /\ Plausible(world.db) /\ world.glibc \in Glibcs
    BY <2>1 DEF TypeOK, Machine
  <2>4. MayReplace(world.glibc, world.place[k], Euid, world.db)
        /\ (p.plan.home # p.read.home => SafeToPin(p.plan.home))
    BY <2>1, <2>2 DEF OwnInv
  <2>5. OnlyBy(world.glibc, {world.place[k].file, world.place[k].dir} \cup world.place[k].above, Euid, world.db)
    BY <2>3, <2>4, MayReplaceOwn
  <2>6. p.plan.home # p.read.home => OnlyBy(world.glibc, world.ways[p.plan.home], Euid, world.db)
    BY <2>3, <2>4, TrustedOwn DEF SafeToPin
  <2> QED  BY <2>5, <2>6
<1>2. CleanInv /\ [Next]_vars =>
        [\A k \in KindSet : Renames(k) =>
           LET at == world.place[k]
           IN /\ OnlyBy(world.glibc, {at.file, at.dir} \cup at.above, Euid, world.db)
              /\ p.plan.home # p.read.home =>
                   OnlyBy(world.glibc, world.ways[p.plan.home], Euid, world.db)]_vars
  BY <1>1 DEF Renames
<1> QED  BY <1>2, CleanAlways, PTL DEF Spec, RewritesOnlyOwn

\* The rename loses no install, uninstall or replacement but those that wrote in place,
\* came after the last look, or brought the number of the inode back (securefs.rs:
\* replace).
THEOREM NothingLost == Spec => RenameLosesNothing
<1>1. CleanInv /\ [Next]_vars =>
        [\A k \in KindSet : Renames(k) =>
           \/ entry[k] = p.read
           \/ p.unseen
           \/ entry[k] # None /\ entry[k].by = "install"]_vars
  <2> SUFFICES ASSUME CleanInv, NEW k \in KindSet, Renames(k)
               PROVE  \/ entry[k] = p.read
                      \/ p.unseen
                      \/ entry[k] # None /\ entry[k].by = "install"
    OBVIOUS
  <2>1. k = At /\ p.pc = "rename"  BY KindFacts DEF Renames, CleanInv
  <2> QED  BY <2>1 DEF CleanInv, NameInv, Kept
<1> QED  BY <1>1, CleanAlways, PTL DEF Spec, RenameLosesNothing
===============================================================================
