------------------------------ MODULE MCOperator ------------------------------
(* Small instances of Operator: see the runs of README.md.                   *)
EXTENDS Operator

Pulls == Calls \X {"pull"}
Ups   == Calls \X {"asked", "late"}
Sizes == [f \in FileNames |-> IF f = "long" THEN 2 ELSE 1]

T(k) == [kind |-> k, cli |-> FALSE, dry |-> FALSE, file |-> "long", of |-> 1, receipt |-> FALSE]
Dried(k) == [T(k) EXCEPT !.dry = TRUE]
Cli(k)   == [T(k) EXCEPT !.cli = TRUE]
With(k)  == [T(k) EXCEPT !.receipt = TRUE]
No == [what \in Bounds |-> 0]
Once == [what \in Bounds |-> 1]
Home == [share |-> FALSE, dir |-> Default]

World(t1, t2) ==
    [tools |-> <<t1, t2>>, tiers |-> {"run"}, injects |-> TRUE, named |-> TRUE, folder |-> Home, faults |-> 1, budget |-> No]

Tiers == {"run", "privileged", "blocked"}

\* Keys: every verdict on every event, beside another call of the same key.
Keyed == {[World(T("press"), T(k)) EXCEPT !.tiers = Tiers, !.budget = [Once EXCEPT !.restarts = 0]] :
              k \in {"press"}}
         \cup {[World(T("type"), t) EXCEPT !.tiers = Tiers, !.budget.lost = 1, !.budget.restarts = 1,
                                           !.budget.offline = 1, !.budget.unheard = 1] :
                   t \in {T("check"), Dried("press")}}

\* Pushes: two to one place, of files of two lengths; beside an upload.
Pushed == {[World(T("push"), [T("push") EXCEPT !.file = f]) EXCEPT !.budget[b] = 1] :
               f \in {"long", "short"}, b \in {"restarts", "offline", "unheard"}}
          \cup {[World(T("push"), T("upload")) EXCEPT !.budget.restarts = 1]}
          \cup {[World(T("push"), T("check")) EXCEPT !.tiers = Tiers, !.budget = [Once EXCEPT !.lates = 0]]}

\* Uploads and other actions; dry runs; the command line; receipts.
Acted == {[World(t, u) EXCEPT !.tiers = Tiers, !.budget.restarts = 1, !.budget.lates = 1,
                       !.budget.unheard = 1, !.faults = 0] :
              t \in {T("upload"), Dried("upload"), Dried("push"), T("exec")},
              u \in {[T("upload") EXCEPT !.file = "short"], T("check")}}
         \cup {[World(t, Cli("check")) EXCEPT !.tiers = Tiers, !.budget.offline = 1, !.budget.lost = 1,
                                              !.budget.unheard = 1] :
                   t \in {Cli("exec"), Cli("upload"), Cli("read"), Cli("job"), [Cli("job") EXCEPT !.dry = TRUE],
                          T("job"), T("hub"), Dried("hub")}}
         \cup {[World(t, u) EXCEPT !.tiers = {"privileged"}] :
                   t \in {With("hub"), With("press"), [With("hub") EXCEPT !.dry = TRUE]},
                   u \in {T("check"), With("read")}}
         \cup {[World(T("press"), T("press")) EXCEPT !.injects = b, !.named = ~b] : b \in BOOLEAN}

\* The places a file may be meant for.
Dirs == {[World(T("push"), T("upload")) EXCEPT !.faults = 0, !.folder = [share |-> s, dir |-> d]] :
             s \in BOOLEAN, d \in {Default, [Default EXCEPT !.absolute = FALSE],
                                   [Default EXCEPT !.dotdot = TRUE], [Default EXCEPT !.there = FALSE]}}

All == Keyed \cup Pushed \cup Acted \cup Dirs
===============================================================================
