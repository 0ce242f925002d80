------------------------------- MODULE SecureFs -------------------------------
(***************************************************************************)
(* When a process may rewrite a file, and when a directory is safe to pin  *)
(* as HOME (crates/agent/src/entryclean/securefs.rs), beside what the      *)
(* kernel and glibc really allow: a file nobody but its owner and root can *)
(* change.                                                                 *)
(***************************************************************************)
EXTENDS Naturals, Sequences, FiniteSets

(***************************************************************************)
(* stat, as far as the rules look at it: kind, owner, write permission of  *)
(* the group and of others, links.  The group of every file here is the    *)
(* one group the database below describes.                                 *)
(***************************************************************************)
Meta == [kind : {"file", "dir", "link"}, uid : {"root", "user", "other"},
         gw : BOOLEAN, ow : BOOLEAN, nlink : {1, 2}]

Dir(u) == [kind |-> "dir", uid |-> u, gw |-> FALSE, ow |-> FALSE, nlink |-> 2]
File(u) == [kind |-> "file", uid |-> u, gw |-> FALSE, ow |-> FALSE, nlink |-> 1]
Link(u) == [kind |-> "link", uid |-> u, gw |-> FALSE, ow |-> FALSE, nlink |-> 1]

(***************************************************************************)
(* A line of nsswitch.conf: the database it names, whether a single colon  *)
(* follows the name, its sources up to a #, those after it, and whether it *)
(* holds an action item.  A file: its lines, whether it ends in a newline, *)
(* and whether every byte of it is ASCII and not NUL.                      *)
(***************************************************************************)
Line(n, s) == [name |-> n, colon |-> TRUE, srcs |-> s, hash |-> FALSE, tail |-> {}, action |-> FALSE]

NSS_DBS == {"passwd", "group", "initgroups", "gshadow"}
NSS_COMPAT_DBS == {"passwd_compat", "group_compat"}
LOCAL_NSS == {"files", "systemd"}
Required == {"passwd", "group"}

\* A name that is one of ours in another case.
CaseOf(n) == IF n = "PASSWD" THEN "passwd" ELSE n

\* The line nss_local refuses by itself.
LineRefusedButHash(l) ==
    \/ l.name # CaseOf(l.name)
    \/ l.name \in NSS_DBS /\ (~l.colon \/ l.action)
    \/ l.name \notin NSS_DBS \cup NSS_COMPAT_DBS /\ ~l.colon
LineRefused(l) ==
    \/ l.name # CaseOf(l.name)
    \/ l.name \in NSS_DBS /\ (~l.colon \/ l.hash \/ l.action)
    \/ l.name \notin NSS_DBS \cup NSS_COMPAT_DBS /\ ~l.colon

LinesOf(conf, db) == {i \in DOMAIN conf.lines : conf.lines[i].name = db}

\* A source of a database: local, or compat when it stays in /etc.
SourceLocal(conf, plus, db, s) ==
    \/ s \in LOCAL_NSS
    \/ /\ s = "compat" /\ db \in Required /\ ~plus
       /\ \A d \in NSS_COMPAT_DBS : LinesOf(conf, d) = {}

\* plus: /etc/passwd or /etc/group has an entry that sends lookups to NIS.
NssLocal(conf, plus) ==
    /\ conf.ascii /\ conf.ends
    /\ \A i \in DOMAIN conf.lines : ~LineRefused(conf.lines[i])
    /\ \A db \in NSS_DBS :
        /\ Cardinality(LinesOf(conf, db)) <= 1
        /\ db \in Required => LinesOf(conf, db) # {}
        /\ \A i \in LinesOf(conf, db) :
            /\ conf.lines[i].srcs # {}
            /\ \A s \in conf.lines[i].srcs : SourceLocal(conf, plus, db, s)

NssSystemd(conf) ==
    \E i \in DOMAIN conf.lines : conf.lines[i].name \in NSS_DBS /\ "systemd" \in conf.lines[i].srcs

(***************************************************************************)
(* The user and group databases of the machine: nsswitch.conf and what     *)
(* bears on it, and who besides the owner holds the group, if anyone: the  *)
(* source that says so and how (as a listed member, by a primary group, at *)
(* login, or in a way getpwent does not list).                             *)
(***************************************************************************)
Ways == {"member", "primary", "login", "unlisted"}
Nobody == [src |-> "files", way |-> "none"]

(***************************************************************************)
(* What glibc does (external: nss/nss_database.c and nss/nsswitch.c, as    *)
(* the comments of nss_local quote them): 2.33 and later drop a last line  *)
(* without a newline and read a # as a source, earlier ones end the line   *)
(* there; of two lines the last wins; a missing one means a built-in       *)
(* default, compat on some builds; what neither reading settles may be     *)
(* anything.                                                               *)
(***************************************************************************)
Glibcs == {"old", "new"}
AnySource == {"files", "systemd", "compat", "sss"}

ReadLines(v, conf) ==
    IF v = "new" /\ ~conf.ends
    THEN {i \in DOMAIN conf.lines : i < Len(conf.lines)}
    ELSE DOMAIN conf.lines

InForce(v, conf, db) ==
    LET here == {i \in LinesOf(conf, db) : i \in ReadLines(v, conf)}
        last == CHOOSE i \in here : \A j \in here : j <= i
    IN IF ~conf.ascii THEN AnySource
       ELSE IF here = {} THEN IF db \in Required THEN {"compat", "files"} ELSE {}
       ELSE IF ~conf.lines[last].colon THEN AnySource
       ELSE conf.lines[last].srcs \cup (IF v = "new" THEN conf.lines[last].tail ELSE {})

\* The holder of the group is found by a login: through a source in force, or
\* through NIS entries that compat follows, or in nscd's cache.
Holds(v, d) ==
    /\ d.holder # Nobody
    /\ \/ d.holder.src = "nscd" /\ d.nscd
       \/ \E db \in NSS_DBS : d.holder.src \in InForce(v, d.conf, db)
       \/ /\ d.holder.src = "nis" /\ \E db \in Required : "compat" \in InForce(v, d.conf, db)
          /\ d.plus \/ \E c \in NSS_COMPAT_DBS : LinesOf(d.conf, c) # {}

\* getpwent, getgrgid and getgrouplist list every holder but those of a remote
\* source, of nscd's cache, and those nss-systemd keeps to itself.
Listed(v, d) ==
    /\ Holds(v, d)
    /\ d.holder.src \in {"files", "systemd", "compat"} /\ d.holder.way # "unlisted"

\* Facts about systemd's users that private_group relies on (docs/UIDS-GIDS.md):
\* only systemd has users that getpwent leaves out, and one of those holds no
\* group of the regular range, unless a variable hides it from this process.
Plausible(d) == d.holder.way = "unlisted" => d.holder.src = "systemd" /\ (d.env \/ ~d.regular)

\* nsswitch.conf as a parser of lines sees it: sources after a # need a #.
IsConf(c) ==
    /\ c.lines \in Seq([name : STRING, colon : BOOLEAN, srcs : SUBSET AnySource, hash : BOOLEAN,
                       tail : SUBSET AnySource, action : BOOLEAN])
    /\ \A i \in DOMAIN c.lines : c.lines[i].tail # {} => c.lines[i].hash

(***************************************************************************)
(* The rules.                                                              *)
(***************************************************************************)
\* own: the group is the owner's primary group and has the owner's name.
PrivateGroup(v, uid, d) ==
    /\ uid # "root"
    /\ ~d.mac /\ NssLocal(d.conf, d.plus)
    /\ ~d.nscd
    /\ NssSystemd(d.conf) => ~d.env /\ d.regular
    /\ uid = "user" /\ d.own
    /\ ~Listed(v, d)

OthersCanWrite(v, m, d) == m.ow \/ (m.gw /\ ~PrivateGroup(v, m.uid, d))

CheckFile(v, m, euid, d) ==
    m.kind = "file" /\ m.uid = euid /\ ~OthersCanWrite(v, m, d) /\ m.nlink = 1

CheckDir(v, m, euid, own, d) ==
    /\ m.kind = "dir"
    /\ m.uid = euid \/ (~own /\ m.uid = "root")
    /\ ~OthersCanWrite(v, m, d)

\* place: the entry file, its directory, and the directories above it.
MayReplace(v, place, euid, d) ==
    /\ CheckFile(v, place.file, euid, d)
    /\ CheckDir(v, place.dir, euid, TRUE, d)
    /\ \A m \in place.above : CheckDir(v, m, euid, FALSE, d)

\* The directories and links met on the way to a directory, links followed.
TrustedDir(v, way, euid, d) ==
    \A m \in way :
        IF m.kind = "link" THEN m.uid \in {euid, "root"} ELSE CheckDir(v, m, euid, FALSE, d)

(***************************************************************************)
(* What they are for: who can change a file, a directory or a link.        *)
(***************************************************************************)
CanChange(v, m, d) ==
    {m.uid}
    \cup (IF m.kind # "link" /\ m.gw
          THEN (IF Holds(v, d) THEN {"other"} ELSE {}) \cup (IF d.own THEN {"user"} ELSE {"user", "other"})
          ELSE {})
    \cup (IF m.kind # "link" /\ m.ow THEN {"user", "other"} ELSE {})

OnlyBy(v, ms, euid, d) == \A m \in ms : CanChange(v, m, d) \subseteq {euid, "root"}
===============================================================================
