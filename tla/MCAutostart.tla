----------------------------- MODULE MCAutostart -----------------------------
(***************************************************************************)
(* The machines the runs of Autostart start from.                          *)
(***************************************************************************)
EXTENDS Autostart

ConfOf(lines) == [lines |-> lines, ends |-> TRUE, ascii |-> TRUE]
Local == ConfOf(<<Line("passwd", {"files"}), Line("group", {"files"})>>)
PlainDb == [conf |-> Local, plus |-> FALSE, nscd |-> FALSE, env |-> FALSE, regular |-> TRUE,
            own |-> TRUE, mac |-> FALSE, holder |-> Nobody]

PlaceOf(u) == [file |-> File(u), dir |-> Dir(u), above |-> {Dir("root")}]
Ways0 == [h \in Homes |->
    CASE h = "user" -> {Dir("user"), Dir("root")}
      [] h = "link" -> {Link("root"), Dir("root")}
      [] OTHER -> {Dir("root")}]

Base(os) == [
    os |-> os, busy |-> TRUE, session |-> "user", glibc |-> "new", db |-> [PlainDb EXCEPT !.mac = (os = "macos")],
    place |-> [k \in {"desktop", "unit", "agent", "daemon", "run", "task"} |-> PlaceOf(IF RunsAsRoot(k) THEN "root" ELSE "user")],
    ways |-> Ways0, task |-> [interactive |-> TRUE, mine |-> TRUE], sleep |-> "custom",
    entries |-> [k \in {Kinds(os)[1], Kinds(os)[2]} |-> None],
    creds |-> [h \in {"pw", "user", "slash"} |-> None]]

Old(home) == [token |-> TRUE, home |-> home, hub |-> 1, ino |-> 1, by |-> "old", torn |-> FALSE]
Device == [hub |-> 1, device |-> TRUE, torn |-> FALSE]

\* One old entry, and a credential of this device somewhere.
With(w, k, home, at) == [w EXCEPT !.entries[k] = Old(home), !.creds[at] = Device]

\* The entry of another hub, in the home of a device of this one.
Elsewhere == [With(Base("linux"), "desktop", None, "user") EXCEPT !.creds["user"].hub = 2]

Simple ==
    {With(Base("linux"), "unit", c[1], c[2]) :
        c \in {<<"pw", "pw">>, <<"link", "pw">>, <<"pw", "user">>, <<None, "slash">>, <<None, "pw">>, <<None, "user">>, <<Odd, "pw">>}}
    \cup {With(Base("macos"), "daemon", h, "pw") : h \in {"pw", None}}
    \cup {With(Base("linux"), "desktop", None, "user"), With(Base("macos"), "agent", None, "user"),
          With(Base("macos"), "agent", "pw", "user")}
    \cup {[With(Base("windows"), k, None, "user") EXCEPT !.session = s] : k \in {"run", "task"}, s \in {"user", Odd}}
    \cup {Elsewhere, [Base("linux") EXCEPT !.entries = [desktop |-> Old(None), unit |-> Old(None)], !.creds["user"] = Device, !.creds["pw"] = Device]}

\* A GNOME desktop set to suspend, a Windows machine with a timeout of its own.
Twice == {[Base("linux") EXCEPT !.sleep = "default"], Base("windows")}

-----------------------------------------------------------------------------
(* Machines where only the agent moves: every place of a file, and every    *)
(* reading of the user and group databases.                                 *)

Calm(w) == [w EXCEPT !.busy = FALSE]
Writable(m) == {[m EXCEPT !.gw = g, !.ow = o] : g, o \in BOOLEAN}
Files(u) == {[f EXCEPT !.nlink = n] : f \in Writable(File(u)), n \in {1, 2}} \cup {Link(u), Dir(u)}
Desktop == Calm(With(Base("linux"), "desktop", None, "user"))
Unit == Calm(With(Base("linux"), "unit", None, "pw"))

Places ==
    {[Calm(With(Base("windows"), "task", None, "user")) EXCEPT !.task = [interactive |-> i, mine |-> n]] : i, n \in BOOLEAN}
    \cup {[Desktop EXCEPT !.place["desktop"].file = f] : f \in UNION {Files(u) : u \in {"user", "root", "other"}}}
    \cup {[Desktop EXCEPT !.place["desktop"].dir = d] : d \in UNION {Writable(Dir(u)) : u \in {"user", "root", "other"}}}
    \cup {[Desktop EXCEPT !.place["desktop"].above = {Dir("root"), d}] : d \in UNION {Writable(Dir(u)) : u \in {"user", "root", "other"}}}
    \cup {[Unit EXCEPT !.place["unit"].file = f] : f \in UNION {Files(u) : u \in {"user", "root"}}}
    \cup {[Unit EXCEPT !.ways["pw"] = {Dir("root"), d}] : d \in UNION {Writable(Dir(u)) : u \in {"user", "root"}} \cup {Link("user"), Link("root")}}
    \cup {[With(Calm(Base("macos")), k, IF k = "agent" THEN "pw" ELSE None, IF k = "agent" THEN "user" ELSE "pw") EXCEPT !.ways["pw"] = {d}, !.ways["user"] = {d}] :
            k \in {"agent", "daemon"}, d \in UNION {Writable(Dir(u)) : u \in {"user", "root"}}}

Passwd == Line("passwd", {"files"})
Lines ==
    {<<Line("passwd", s)>> : s \in {{"files"}, {"files", "systemd"}, {"compat"}, {"files", "sss"}, {}}}
    \cup {<<[Passwd EXCEPT !.name = "PASSWD"]>>, <<>>,
          <<[Passwd EXCEPT !.colon = FALSE]>>,
          <<[Passwd EXCEPT !.hash = TRUE, !.tail = {"sss"}]>>,
          <<[Passwd EXCEPT !.action = TRUE]>>,
          <<Passwd, Line("passwd", {"sss"})>>,
          <<Passwd, Line("initgroups", {"sss"})>>, <<Passwd, Line("gshadow", {"systemd"})>>,
          <<Passwd, Line("hosts", {"sss"})>>,
          <<Line("passwd", {"compat"}), Line("passwd_compat", {"sss"})>>}
Confs ==
    {[lines |-> <<Line("group", {"files"})>> \o l, ends |-> TRUE, ascii |-> TRUE] : l \in Lines}
    \cup {[lines |-> <<Line("group", {"files"}), Line("passwd", {"sss"}), Passwd>>, ends |-> e, ascii |-> a] : e, a \in BOOLEAN}
    \cup {[lines |-> <<Line("group", {"files"}), Passwd>>, ends |-> e, ascii |-> a] : e, a \in BOOLEAN}

Holders == {Nobody} \cup [src : {"files", "systemd", "sss", "nis", "nscd"}, way : {"member", "login", "unlisted"}]
Dbs == {d \in [conf : Confs, plus : BOOLEAN, nscd : BOOLEAN, env : BOOLEAN, regular : BOOLEAN,
               own : BOOLEAN, mac : {FALSE}, holder : Holders] :
            Plausible(d)}

GroupWrite == [Desktop EXCEPT !.place["desktop"].file.gw = TRUE, !.place["desktop"].dir.gw = TRUE]
Groups == {[GroupWrite EXCEPT !.db = d, !.glibc = v] : d \in Dbs, v \in Glibcs}

Machines == Simple \cup Places \cup Groups
==============================================================================
