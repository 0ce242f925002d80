------------------------------- MODULE MCHelper -------------------------------
(* Small instances of Helper: see the runs of README.md.                     *)
EXTENDS Helper

CONSTANTS a, b

None0 == [what \in Bounds |-> 0]
Plain(g) == [t \in g |-> 0]
Base == [session0 |-> FALSE, h264 |-> FALSE, start |-> Plain(Grid(3, 2)), grids |-> {Grid(3, 2)},
         viewers |-> {a}, widths |-> {3}, width |-> 3, codecs |-> {"tiles"}, codec |-> "tiles",
         budget |-> [None0 EXCEPT !.paints = 1, !.giveups = 1, !.restarts = 1]]

\* Every set of changed tiles of a 3x2 screen.
Tiles == {Base}

\* Two viewers and a table of one; video; sizes.
Small == Grid(2, 1)
One == Grid(1, 1)
Two == {[Base EXCEPT !.start = Plain(One), !.grids = {One}, !.viewers = {a, b}, !.widths = {1}, !.width = 1,
                     !.budget = [None0 EXCEPT !.paints = 1]]}
Video == {[Base EXCEPT !.h264 = TRUE, !.start = Plain(Small), !.grids = {Small, Grid(1, 1)}, !.widths = {1, 2},
                       !.width = 2, !.codecs = Codecs, !.codec = "h264",
                       !.budget = [None0 EXCEPT !.paints = 1, !.giveups = 1, !.faults = 1, !.switches = 1]]}

Codecs2 == {[Base EXCEPT !.h264 = TRUE, !.start = Plain(One), !.grids = {One}, !.widths = {1}, !.width = 1,
                         !.codecs = Codecs, !.codec = "h264", !.budget = [None0 EXCEPT !.paints = 2, !.switches = 2]]}

\* A service: one viewer, with a request it gave up; two viewers.
Serving == [Base EXCEPT !.session0 = TRUE, !.start = Plain(One), !.grids = {One}, !.widths = {1}, !.width = 1]
Service == {[Serving EXCEPT !.budget = [None0 EXCEPT !.faults = 1, !.giveups = 1, ![what] = 1]] :
                what \in {"consoles", "exits", "restarts", "paints"}}
Both == {[Serving EXCEPT !.viewers = {a, b}, !.budget = [None0 EXCEPT ![what] = 1]] : what \in {"faults", "exits"}}

All == Tiles \cup Two \cup Video \cup Codecs2 \cup Service \cup Both
===============================================================================
