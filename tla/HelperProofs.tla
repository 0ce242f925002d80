----------------------------- MODULE HelperProofs -----------------------------
(***************************************************************************)
(* Invariants of Helper, and of Screen below it, proved for every set of   *)
(* viewers, requests, sessions, processes and ports, every device and      *)
(* every bound.                                                            *)
(***************************************************************************)
EXTENDS Helper, FiniteSetTheorems, SequenceTheorems, WellFoundedInduction, TLAPS

ReqFields == {"pc", "v", "ack", "of", "codec", "w", "heard", "sess", "img", "prev", "reply", "pid", "port"}
ViewerFields == {"ack", "of", "canvas", "codec", "w", "garbled", "stale"}
SessionFields == {"seq", "prev", "codec", "enc", "h264_failed"}

\* Where a request is before its session's answer, and while it has the slot's lock.
SlotSteps == {"spawn", "starting"}
Before == {"asked", "call", "here", "have", "captured"} \cup SlotSteps
Pcs == {"off", "broken", "failed", "done"} \cup Before

SlotType == [live : Pids \cup {None}, fails : Nat, cooling : BOOLEAN, holder : Calls \cup {None}]
HelperType == [state : {"starting", "serving", "ended"}, code : {"idle", "killed", "parent", "crash"},
               port : Ports \cup {None}, session : {None, 1, 2}, orphan : BOOLEAN, rested : BOOLEAN]

Framed(f) == \E m, n \in Nat \ {0} : f \in [Grid(m, n) -> {0, 1}]

\* A reply on its way.
ReplyFields == {"kind", "seq", "key", "img", "rects", "base", "au", "of"}
Kinds == {"error", "unchanged", "tiles", "h264"}
Replied(r) == r.seq \in Nat /\ r.of \in Sessions /\ r.kind \in Kinds

\* What a request is, by where it is.
Asking(p) ==
    /\ DOMAIN p = ReqFields
    /\ p.pc \in Pcs /\ p.heard \in BOOLEAN /\ p.ack \in Nat
    /\ p.pid \in Pids \cup {None}
    /\ p.pc = "starting" => p.pid \in Pids
    /\ p.pc = "off" => ~p.heard
    /\ p.pc # "off" => p.v \in Viewers
    /\ p.pc \in Before => p.codec \in Codecs /\ p.w \in Nat \ {0}
    /\ p.pc = "done" => p.heard /\ Replied(p.reply)
    /\ p.pc \in {"have", "captured"} => p.sess \in Sessions
    /\ p.pc = "captured" => Framed(p.img)

Watching(o) ==
    /\ DOMAIN o = ViewerFields
    /\ o.ack \in Nat /\ o.of \in Sessions \cup {None}
    /\ o.codec \in Codecs /\ o.w \in Nat \ {0}

\* The type of every variable.
ReqOK == DOMAIN req = Calls /\ \A c \in Calls : Asking(req[c])
ViewerOK == DOMAIN viewer = Viewers /\ \A v \in Viewers : Watching(viewer[v])
SessOK ==
    /\ DOMAIN sess = Sessions
    /\ \A s \in Sessions : DOMAIN sess[s] = SessionFields /\ sess[s].seq \in Nat
DeviceOK == world \in Worlds /\ left \in [Bounds -> Nat] /\ Framed(screen)
TableOK == table \in Seq([sid : Viewers, sess : Sessions])
SlotOK == slot \in SlotType /\ helper \in [Pids -> HelperType] /\ console \in {None, 1, 2}
Shape == ReqOK /\ ViewerOK /\ SessOK /\ DeviceOK /\ TableOK /\ SlotOK

\* The table of sessions.
TableInv ==
    /\ Len(table) <= MAX_SESSIONS
    /\ \A i, j \in DOMAIN table : table[i].sid = table[j].sid => i = j

\* The slot, its lock and the helpers.
Known(h) == slot.live = h \/ \E c \in Calls : req[c].pc = "starting" /\ req[c].pid = h

SlotInv ==
    /\ \A c \in Calls : req[c].pc \in SlotSteps <=> slot.holder = c
    /\ slot.live # None => slot.holder = None /\ helper[slot.live].port # None
    /\ \A h \in Pids : Lives(h) => helper[h].port # None
    /\ \A h \in Pids : Lives(h) /\ ~helper[h].orphan => Known(h)
    /\ \A h, i \in Pids : Lives(h) /\ Lives(i) /\ helper[h].port = helper[i].port => h = i

\* A reply on its way to v: what it does to what v has.
Covered(r) == \A t \in DOMAIN r.img : \E R \in r.rects : In(R, t)
Fits(o, r) == o.of = r.of /\ ~o.stale
Sound(v, r) ==
    /\ r.kind # "error" => r.seq <= sess[r.of].seq
    /\ r.kind = "unchanged" => ~r.key /\ r.seq = viewer[v].ack
    /\ r.kind \in {"tiles", "h264"} => (r.seq = sess[r.of].seq => sess[r.of].prev = r.img)
    /\ r.kind = "tiles" /\ r.key => Framed(r.img) /\ Covered(r)
    /\ r.kind = "tiles" /\ ~r.key /\ Fits(viewer[v], r) =>
          ~viewer[v].garbled /\ Drawn(viewer[v].canvas, r) = r.img
    /\ r.kind = "h264" /\ r.key => r.au.idr /\ r.au.sps /\ r.au.pps
    /\ r.kind = "h264" /\ ~r.key /\ Fits(viewer[v], r) =>
          ~viewer[v].garbled /\ viewer[v].canvas = r.base

\* What each viewer has against what its session takes it to have.
Current(o, s) ==
    /\ o.ack <= s.seq
    /\ o.ack = s.seq /\ ~o.stale => o.canvas = s.prev /\ ~o.garbled

Currents == \A v \in Viewers : viewer[v].of \in Sessions => Current(viewer[v], sess[viewer[v].of])
AsksWhatItHas == \A c \in Calls : req[c].heard /\ req[c].pc \in Before => req[c].ack = viewer[req[c].v].ack
OneAtATime == \A c, d \in Calls : req[c].heard /\ req[d].heard /\ req[c].v = req[d].v => c = d
EncodesPrev == \A s \in Sessions : sess[s].codec = "h264" => sess[s].enc = sess[s].prev
RepliesSound == \A c \in Calls : req[c].pc = "done" => Sound(req[c].v, req[c].reply)
AckInv == Currents /\ AsksWhatItHas /\ OneAtATime /\ EncodesPrev /\ RepliesSound
-----------------------------------------------------------------------------
(* The rectangles of a delta.                                               *)

LEMMA Least ==
    ASSUME NEW T \in SUBSET Nat, T # {}
    PROVE  \E x \in T : \A y \in T : x <= y
<1>1. PICK x \in T : \A y \in T : ~(<<y, x>> \in OpToRel(<, Nat))
  BY WFMin, NatLessThanWellFounded
<1>2. \A y \in T : ~(y < x)
  BY <1>1 DEF OpToRel
<1> QED BY <1>2

LEMMA Greatest ==
    ASSUME NEW T \in SUBSET Nat, T # {}, NEW n \in Nat, \A x \in T : x <= n
    PROVE  \E x \in T : \A y \in T : y <= x
<1> DEFINE U == {n - x : x \in T}
<1>1. U \in SUBSET Nat /\ U # {}
  <2>1. \A x \in T : n - x \in Nat
    OBVIOUS
  <2> QED BY <2>1
<1>2. PICK u \in U : \A w \in U : u <= w
  BY <1>1, Least
<1>3. PICK x \in T : u = n - x
  BY <1>2
<1>4. \A y \in T : y <= x
  <2>1. \A y \in T : n - y \in U
    OBVIOUS
  <2> QED BY <1>2, <1>3, <2>1
<1> QED BY <1>4

LEMMA GridSides ==
    ASSUME NEW m \in Nat \ {0}, NEW n \in Nat \ {0}, NEW f, DOMAIN f = Grid(m, n)
    PROVE  /\ Columns(f) = 1 .. m /\ Rows(f) = 1 .. n
           /\ Cardinality(Columns(f)) = m /\ Cardinality(Rows(f)) = n
<1>1. Columns(f) = 1 .. m
  <2>1. \A c \in 1 .. m : <<c, 1>> \in Grid(m, n)
    BY DEF Grid
  <2>2. \A t \in Grid(m, n) : t[1] \in 1 .. m
    BY DEF Grid
  <2>3. \A c \in 1 .. m : <<c, 1>>[1] = c
    OBVIOUS
  <2> QED BY <2>1, <2>2, <2>3 DEF Columns
<1>2. Rows(f) = 1 .. n
  <2>1. \A r \in 1 .. n : <<1, r>> \in Grid(m, n)
    BY DEF Grid
  <2>2. \A t \in Grid(m, n) : t[2] \in 1 .. n
    BY DEF Grid
  <2>3. \A r \in 1 .. n : <<1, r>>[2] = r
    OBVIOUS
  <2> QED BY <2>1, <2>2, <2>3 DEF Rows
<1>3. Cardinality(1 .. m) = m /\ Cardinality(1 .. n) = n
  BY FS_Interval
<1> QED BY <1>1, <1>2, <1>3

\* The full picture is one rectangle.
LEMMA FullCovers ==
    ASSUME NEW f, Framed(f), NEW t \in DOMAIN f
    PROVE  \E R \in Full(f) : In(R, t)
<1>1. PICK m \in Nat \ {0}, n \in Nat \ {0} : f \in [Grid(m, n) -> {0, 1}]
  BY DEF Framed
<1>2. t[1] \in 1 .. m /\ t[2] \in 1 .. n
  BY <1>1 DEF Grid
<1>3. Cardinality(Columns(f)) = m /\ Cardinality(Rows(f)) = n
  BY <1>1, GridSides
<1> DEFINE R == [c0 |-> 1, c1 |-> m, r0 |-> 1, r1 |-> n]
<1>4. Full(f) = {R}
  BY <1>3 DEF Full
<1>5. In(R, t)
  BY <1>2 DEF In
<1> QED BY <1>4, <1>5

\* A changed tile is in a run that cannot be made longer.
LEMMA RunExists ==
    ASSUME NEW m \in Nat \ {0}, NEW n \in Nat \ {0}, NEW f, DOMAIN f = Grid(m, n),
           NEW changed \in SUBSET Grid(m, n), NEW c \in Nat, NEW r \in Nat, <<c, r>> \in changed
    PROVE  \E c0, c1 \in 1 .. m : c \in c0 .. c1 /\ IsRun(changed, f, c0, c1, r)
<1>0. c \in 1 .. m /\ r \in 1 .. n /\ \A x, y : <<x, y>> \in changed => x \in 1 .. m
  BY DEF Grid
<1> DEFINE A == {x \in 1 .. m : x <= c /\ \A k \in x .. c : <<k, r>> \in changed}
           B == {x \in 1 .. m : c <= x /\ \A k \in c .. x : <<k, r>> \in changed}
<1>1. c \in A /\ c \in B
  BY <1>0
<1> HIDE DEF A, B
<1>2. PICK a \in A : \A x \in A : a <= x
  <2>1. A \in SUBSET Nat
    BY DEF A
  <2> QED BY <1>1, <2>1, Least
<1>3. PICK b \in B : \A x \in B : x <= b
  <2>1. B \in SUBSET Nat /\ \A x \in B : x <= m
    BY DEF B
  <2> QED BY <1>1, <2>1, Greatest
<1> USE DEF A, B
<1>4. <<a - 1, r>> \notin changed
  <2> SUFFICES ASSUME <<a - 1, r>> \in changed PROVE FALSE
    OBVIOUS
  <2>1. a - 1 \in 1 .. m
    BY <1>0
  <2>2. \A k \in (a - 1) .. c : k = a - 1 \/ k \in a .. c
    BY <1>0
  <2>3. a - 1 \in A
    BY <1>0, <2>1, <2>2
  <2> QED BY <1>2, <2>3
<1>5. <<b + 1, r>> \notin changed
  <2> SUFFICES ASSUME <<b + 1, r>> \in changed PROVE FALSE
    OBVIOUS
  <2>1. b + 1 \in 1 .. m
    BY <1>0
  <2>2. \A k \in c .. (b + 1) : k = b + 1 \/ k \in c .. b
    BY <1>0
  <2>3. b + 1 \in B
    BY <1>0, <2>1, <2>2
  <2> QED BY <1>3, <2>3
<1>6. \A k \in a .. b : k \in a .. c \/ k \in c .. b
  BY <1>0
<1>7. IsRun(changed, f, a, b, r)
  BY <1>0, <1>4, <1>5, <1>6 DEF IsRun
<1> QED BY <1>0, <1>7

\* The rectangles of a delta hold every changed tile (tiles.rs: merge).
LEMMA MergeCovers ==
    ASSUME NEW f, Framed(f), NEW changed \in SUBSET DOMAIN f, NEW t \in changed
    PROVE  \E R \in Merge(changed, f) : In(R, t)
<1>1. PICK m \in Nat \ {0}, n \in Nat \ {0} : f \in [Grid(m, n) -> {0, 1}]
  BY DEF Framed
<1> DEFINE c == t[1]  r == t[2]
<1>2. c \in 1 .. m /\ r \in 1 .. n /\ t = <<c, r>> /\ changed \in SUBSET Grid(m, n) /\ DOMAIN f = Grid(m, n)
  BY <1>1 DEF Grid
<1> HIDE DEF c, r
<1>3. PICK c0 \in 1 .. m, c1 \in 1 .. m : c \in c0 .. c1 /\ IsRun(changed, f, c0, c1, r)
  BY <1>2, RunExists
<1>4. \A y : IsRun(changed, f, c0, c1, y) => y \in 1 .. n
  <2>1. \A y : IsRun(changed, f, c0, c1, y) => <<c0, y>> \in changed
    BY DEF IsRun
  <2>2. \A y : <<c0, y>> \in Grid(m, n) => y \in 1 .. n
    BY DEF Grid
  <2> QED BY <1>2, <2>1, <2>2
<1> DEFINE Run(y) == IsRun(changed, f, c0, c1, y)
           A == {x \in 1 .. n : x <= r /\ \A k \in x .. r : Run(k)}
           B == {x \in 1 .. n : r <= x /\ \A k \in r .. x : Run(k)}
<1> HIDE DEF Run
<1>5. Run(r) /\ \A y : Run(y) => y \in 1 .. n
  BY <1>3, <1>4 DEF Run
<1>6. r \in A /\ r \in B
  BY <1>2, <1>5
<1> HIDE DEF A, B
<1>7. PICK a \in A : \A x \in A : a <= x
  <2>1. A \in SUBSET Nat
    BY DEF A
  <2> QED BY <1>6, <2>1, Least
<1>8. PICK b \in B : \A x \in B : x <= b
  <2>1. B \in SUBSET Nat /\ \A x \in B : x <= n
    BY DEF B
  <2> QED BY <1>6, <2>1, Greatest
<1> USE DEF A, B
<1>9. ~Run(a - 1)
  <2> SUFFICES ASSUME Run(a - 1) PROVE FALSE
    OBVIOUS
  <2>1. a - 1 \in 1 .. n
    BY <1>5
  <2>2. \A k \in (a - 1) .. r : k = a - 1 \/ k \in a .. r
    BY <1>2
  <2>3. a - 1 \in A
    BY <1>2, <2>1, <2>2
  <2> QED BY <1>7, <2>3
<1>10. ~Run(b + 1)
  <2> SUFFICES ASSUME Run(b + 1) PROVE FALSE
    OBVIOUS
  <2>1. b + 1 \in 1 .. n
    BY <1>5
  <2>2. \A k \in r .. (b + 1) : k = b + 1 \/ k \in r .. b
    BY <1>2
  <2>3. b + 1 \in B
    BY <1>2, <2>1, <2>2
  <2> QED BY <1>8, <2>3
<1>11. \A k \in a .. b : Run(k)
  <2>1. \A k \in a .. b : k \in a .. r \/ k \in r .. b
    BY <1>2
  <2> QED BY <2>1
<1> DEFINE R == [c0 |-> c0, c1 |-> c1, r0 |-> a, r1 |-> b]
<1>12. R \in [c0 : Columns(f), c1 : Columns(f), r0 : Rows(f), r1 : Rows(f)]
  <2>1. Columns(f) = 1 .. m /\ Rows(f) = 1 .. n
    BY <1>2, GridSides
  <2> QED BY <2>1
<1>13. R.r0 <= R.r1
  BY <1>2
<1>14. R \in Merge(changed, f)
  BY <1>9, <1>10, <1>11, <1>12, <1>13 DEF Merge, Run
<1>15. In(R, t)
  BY <1>2, <1>3 DEF In
<1> QED BY <1>14, <1>15
-----------------------------------------------------------------------------
(* Types.                                                                   *)

USE DEF Rest, Desk

LEMMA FramedIfGrid ==
    ASSUME NEW g, IsGrid(g), NEW f \in [g -> {0, 1}]
    PROVE  Framed(f)
<1>1. Cardinality(g) \in Nat
  BY FS_CardinalityType DEF IsGrid
<1> QED BY <1>1 DEF IsGrid, Framed

LEMMA ScaledFramed ==
    ASSUME NEW f, Framed(f), NEW w \in Nat \ {0}
    PROVE  Framed(Scaled(f, w))
<1>1. PICK m \in Nat \ {0}, n \in Nat \ {0} : f \in [Grid(m, n) -> {0, 1}]
  BY DEF Framed
<1> DEFINE k == IF m <= w THEN m ELSE w
           D == {u \in DOMAIN f : u[1] <= w}
<1>2. D = Grid(k, n)
  BY <1>1 DEF Grid
<1>3. k \in Nat \ {0}
  OBVIOUS
<1> HIDE DEF k, D
<1>4. [t \in D |-> f[t]] \in [Grid(k, n) -> {0, 1}]
  <2>1. \A t \in D : t \in DOMAIN f
    BY DEF D
  <2> QED BY <1>1, <1>2, <2>1
<1> QED BY <1>3, <1>4 DEF Framed, Scaled, D

LEMMA SpendType ==
    ASSUME NEW what \in Bounds, left \in [Bounds -> Nat], Spend(what)
    PROVE  left' \in [Bounds -> Nat]
  BY DEF Spend

LEMMA NobodyAsks == Asking(NoRequest) /\ NoRequest.pc = "off" /\ ~NoRequest.heard
  BY DEF Asking, NoRequest, ReqFields, Pcs, Before, SlotSteps

LEMMA BrokeIs ==
    ASSUME NEW p, Asking(p), p.pc # "off"
    PROVE  /\ Asking(Broke(p))
           /\ Broke(p).pc = "broken" /\ Broke(p).v = p.v /\ Broke(p).heard = p.heard
           /\ Broke(p).pid = p.pid
<1> DEFINE q == Broke(p)
<1>1. /\ q.pc = "broken" /\ q.v = p.v /\ q.heard = p.heard /\ q.pid = p.pid /\ q.ack = 0
      /\ DOMAIN q = ReqFields
  BY DEF Broke, NoRequest, ReqFields
<1> HIDE DEF q
<1>2. Asking(q)
  BY <1>1 DEF Asking, Pcs, Before, SlotSteps
<1> QED BY <1>1, <1>2 DEF q

\* One request changes.
OneRequest(c) == DOMAIN req' = Calls /\ \A d \in Calls \ {c} : req'[d] = req[d]

LEMMA OneAsks ==
    ASSUME ReqOK, NEW c \in Calls, OneRequest(c), Asking(req'[c])
    PROVE  ReqOK'
  BY DEF ReqOK, OneRequest

\* A request on its way into a helper, out of one, or over.
Later(p, q) ==
    \/ q = p \/ q = NoRequest
    \/ /\ p.pc # "off" /\ q.pc \in {"broken", "failed"}
       /\ DOMAIN q = ReqFields /\ q.v = p.v /\ q.heard = p.heard /\ q.ack \in Nat
       /\ q.pid \in Pids \cup {None}
    \/ /\ p.pc \in Before /\ q.pc \in {"asked", "call", "here"} \cup SlotSteps
       /\ DOMAIN q = ReqFields /\ q.v = p.v /\ q.heard = p.heard /\ q.ack = p.ack
       /\ q.codec = p.codec /\ q.w = p.w /\ q.pid \in Pids \cup {None}
       /\ q.pc = "starting" => q.pid \in Pids

LEMMA LaterAsks ==
    ASSUME NEW p, NEW q, Asking(p), Later(p, q)
    PROVE  Asking(q)
<1>1. CASE q = p \/ q = NoRequest
  BY <1>1, NobodyAsks
<1>2. CASE q # p /\ q # NoRequest
  BY <1>2 DEF Asking, Later, Pcs, Before, SlotSteps
<1> QED BY <1>1, <1>2

LEMMA LaterOK ==
    ASSUME ReqOK, DOMAIN req' = Calls, \A c \in Calls : Later(req[c], req'[c])
    PROVE  ReqOK'
  BY LaterAsks DEF ReqOK

LEMMA BrokenIs ==
    ASSUME ReqOK, NEW h, NEW c
    PROVE  /\ DOMAIN Broken(h, c) = Calls
           /\ \A d \in Calls : /\ Later(req[d], Broken(h, c)[d])
                               /\ \/ Broken(h, c)[d] = req[d]
                                  \/ /\ req[d].pc \in Inside /\ req[d].pid = h
                                     /\ Broken(h, c)[d].pc = "broken"
           /\ c \in Calls => Broken(h, c)[c] = req[c]
<1>1. DOMAIN Broken(h, c) = Calls
  BY DEF Broken
<1>2. ASSUME NEW d \in Calls
      PROVE  /\ Later(req[d], Broken(h, c)[d])
             /\ \/ Broken(h, c)[d] = req[d]
                \/ /\ req[d].pc \in Inside /\ req[d].pid = h
                   /\ Broken(h, c)[d].pc = "broken"
  <2>1. CASE d # c /\ req[d].pid = h /\ req[d].pc \in Inside
    <3>1. Broken(h, c)[d] = Broke(req[d])
      BY <2>1 DEF Broken
    <3>2. Asking(Broke(req[d])) /\ Broke(req[d]).pc = "broken" /\ Broke(req[d]).v = req[d].v
          /\ Broke(req[d]).heard = req[d].heard /\ Broke(req[d]).pid = req[d].pid
      BY <2>1, BrokeIs DEF ReqOK, Inside
    <3>3. Later(req[d], Broke(req[d]))
      BY <2>1, <3>2 DEF Later, Inside, Asking
    <3> QED BY <2>1, <3>1, <3>2, <3>3
  <2>2. CASE ~(d # c /\ req[d].pid = h /\ req[d].pc \in Inside)
    <3>1. Broken(h, c)[d] = req[d]
      BY <2>2 DEF Broken
    <3> QED BY <3>1 DEF Later
  <2> QED BY <2>1, <2>2
<1>3. c \in Calls => Broken(h, c)[c] = req[c]
  BY DEF Broken
<1> QED BY <1>1, <1>2, <1>3

LEMMA EndedType ==
    ASSUME SlotOK, TableOK, NEW h \in Pids, NEW code \in {"idle", "killed", "parent", "crash"},
           Ended(h, code)
    PROVE  /\ helper' \in [Pids -> HelperType] /\ TableOK'
           /\ helper'[h].state = "ended" /\ \A x \in Pids \ {h} : helper'[x] = helper[x]
           /\ helper'[h].orphan = helper[h].orphan /\ helper'[h].port = helper[h].port
           /\ table' = table \/ table' = <<>>
<1>1. table' = table \/ table' = <<>>
  BY DEF Ended
<1>2. helper' = [helper EXCEPT ![h].state = "ended", ![h].code = code]
  BY DEF Ended
<1>3. helper' \in [Pids -> HelperType]
  BY <1>2 DEF SlotOK, HelperType
<1>4. /\ helper'[h].state = "ended" /\ \A x \in Pids \ {h} : helper'[x] = helper[x]
      /\ helper'[h].orphan = helper[h].orphan /\ helper'[h].port = helper[h].port
  BY <1>2 DEF SlotOK, HelperType
<1>5. TableOK'
  <2>1. <<>> \in Seq([sid : Viewers, sess : Sessions])
    OBVIOUS
  <2> QED BY <1>1, <2>1 DEF TableOK
<1> QED BY <1>1, <1>3, <1>4, <1>5

\* What the client's and the helpers' steps do to the rest: no session and no viewer
\* changes, requests only move on, the table is kept or lost.
Moved ==
    /\ DOMAIN req' = Calls /\ \A c \in Calls : Later(req[c], req'[c])
    /\ table' = table \/ table' = <<>>
    /\ left' \in [Bounds -> Nat]
    /\ UNCHANGED Rest

LEMMA MovedShape ==
    ASSUME Shape, Moved, SlotOK'
    PROVE  Shape'
<1>1. ReqOK'
  BY LaterOK DEF Shape, Moved
<1>2. TableOK'
  <2>1. <<>> \in Seq([sid : Viewers, sess : Sessions])
    OBVIOUS
  <2> QED BY <2>1 DEF Shape, Moved, TableOK
<1>3. ViewerOK' /\ SessOK' /\ DeviceOK'
  BY DEF Shape, Moved, ViewerOK, SessOK, DeviceOK, Watching
<1> QED BY <1>1, <1>2, <1>3 DEF Shape

LEMMA SameLater == \A p : Later(p, p)
  BY DEF Later

LEMMA OneLater ==
    ASSUME ReqOK, NEW c \in Calls, OneRequest(c), Later(req[c], req'[c])
    PROVE  DOMAIN req' = Calls /\ \A d \in Calls : Later(req[d], req'[d])
  BY SameLater DEF ReqOK, OneRequest

LEMMA FailingType ==
    ASSUME NEW s \in SlotType
    PROVE  Failing(s) \in SlotType /\ Failing(s).live = s.live /\ Failing(s).holder = s.holder
<1> DEFINE n == s.fails + 1
<1>1. n \in Nat /\ Failing(s) = [s EXCEPT !.fails = n, !.cooling = TRUE]
  BY DEF SlotType, Failing
<1> HIDE DEF n
<1> QED BY <1>1 DEF SlotType

LEMMA ReapedType ==
    ASSUME SlotOK
    PROVE  /\ Reaped \in SlotType /\ Reaped.holder = slot.holder
           /\ Reaped.live \in {slot.live, None}
           /\ Reaped.live # None => Lives(Reaped.live)
           /\ Lives(slot.live) => Reaped.live = slot.live
<1>1. CASE slot.live = None \/ Lives(slot.live)
  BY <1>1 DEF SlotOK, Reaped
<1>2. CASE ~(slot.live = None \/ Lives(slot.live))
  <2> DEFINE out == [slot EXCEPT !.live = None]
  <2>1. out \in SlotType /\ out.live = None /\ out.holder = slot.holder
    BY DEF SlotOK, SlotType
  <2>2. Reaped = Failing(out) \/ Reaped = out
    BY <1>2 DEF Reaped
  <2> HIDE DEF out
  <2>3. Failing(out) \in SlotType /\ Failing(out).live = None /\ Failing(out).holder = slot.holder
    BY <2>1, FailingType
  <2> QED BY <1>2, <2>1, <2>2, <2>3
<1> QED BY <1>1, <1>2

LEMMA EnsureOK ==
    ASSUME Shape, NEW c \in Calls, Ensure(c)
    PROVE  Moved /\ SlotOK'
<1> DEFINE s == Reaped
<1>0. /\ s \in SlotType /\ req[c].pc = "asked" /\ UNCHANGED <<Rest, left, console>>
      /\ SlotOK /\ ReqOK /\ TableOK /\ left \in [Bounds -> Nat]
  BY ReapedType DEF Shape, Ensure, DeviceOK
<1>1. Decision(s) \in {"Reuse", "NoSession", "Backoff", "Replace", "Spawn"}
  BY DEF Decision
<1>2. Decision(s) \in {"Reuse", "Replace"} => s.live \in Pids
  BY <1>0 DEF Decision, SlotType
<1>3. CASE Decision(s) = "Reuse"
  <2>1. /\ req' = [req EXCEPT ![c].pc = "call", ![c].pid = s.live, ![c].port = helper[s.live].port]
        /\ slot' = s /\ UNCHANGED <<helper, Desk>>
    BY <1>3 DEF Ensure
  <2>2. OneRequest(c) /\ Later(req[c], req'[c])
    BY <1>0, <1>2, <1>3, <2>1 DEF ReqOK, OneRequest, Later, Asking, Before, ReqFields, SlotSteps
  <2> QED BY <1>0, <2>1, <2>2, OneLater DEF Moved, SlotOK
<1>4. CASE Decision(s) \in {"NoSession", "Backoff"}
  <2>1. req' = [req EXCEPT ![c].pc = "failed"] /\ slot' = s /\ UNCHANGED <<helper, Desk>>
    BY <1>4 DEF Ensure
  <2>2. OneRequest(c) /\ Later(req[c], req'[c])
    BY <1>0, <2>1 DEF ReqOK, OneRequest, Later, Asking, Before, ReqFields
  <2> QED BY <1>0, <2>1, <2>2, OneLater DEF Moved, SlotOK
<1>5. CASE Decision(s) = "Replace"
  <2>1. /\ Ended(s.live, "killed")
        /\ req' = [Broken(s.live, c) EXCEPT ![c].pc = "spawn"]
        /\ slot' = [s EXCEPT !.live = None, !.holder = c]
    BY <1>5 DEF Ensure
  <2>2. helper' \in [Pids -> HelperType] /\ (table' = table \/ table' = <<>>)
    BY <1>0, <1>2, <1>5, <2>1, EndedType
  <2>3. DOMAIN req' = Calls /\ \A d \in Calls : Later(req[d], req'[d])
    <3>1. /\ DOMAIN Broken(s.live, c) = Calls
          /\ \A d \in Calls : Later(req[d], Broken(s.live, c)[d])
          /\ Broken(s.live, c)[c] = req[c]
      BY <1>0, BrokenIs
    <3> HIDE DEF s
    <3>2. req'[c] = [req[c] EXCEPT !.pc = "spawn"]
      BY <2>1, <3>1
    <3>3. Later(req[c], req'[c])
      BY <1>0, <3>2 DEF ReqOK, Later, Asking, Before, ReqFields, SlotSteps
    <3> QED BY <2>1, <3>1, <3>3
  <2>4. slot' \in SlotType
    BY <1>0, <2>1 DEF SlotType
  <2> QED BY <1>0, <2>2, <2>3, <2>4 DEF Moved, SlotOK
<1>6. CASE Decision(s) = "Spawn"
  <2>1. /\ req' = [req EXCEPT ![c].pc = "spawn"]
        /\ slot' = [s EXCEPT !.holder = c] /\ UNCHANGED <<helper, Desk>>
    BY <1>6 DEF Ensure
  <2>2. OneRequest(c) /\ Later(req[c], req'[c])
    BY <1>0, <2>1 DEF ReqOK, OneRequest, Later, Asking, Before, ReqFields, SlotSteps
  <2>3. slot' \in SlotType
    BY <1>0, <2>1 DEF SlotType
  <2> QED BY <1>0, <2>1, <2>2, <2>3, OneLater DEF Moved, SlotOK
<1> QED BY <1>1, <1>3, <1>4, <1>5, <1>6

LEMMA ReqAt ==
    ASSUME Shape, NEW c \in Calls
    PROVE  /\ Asking(req[c]) /\ DOMAIN req = Calls /\ SlotOK /\ TableOK /\ left \in [Bounds -> Nat]
           /\ \A h \in Pids : helper[h] \in HelperType
  BY DEF Shape, ReqOK, DeviceOK, SlotOK

LEMMA FailsOK ==
    ASSUME Shape, NEW c \in Calls, req[c].pc # "off", NEW s \in SlotType, Fails(c, s)
    PROVE  /\ OneRequest(c) /\ Later(req[c], req'[c]) /\ slot' \in SlotType
           /\ req'[c].pc = "failed" /\ slot' = [s EXCEPT !.holder = None]
<1>1. req' = [req EXCEPT ![c].pc = "failed", ![c].pid = None] /\ slot' = [s EXCEPT !.holder = None]
  BY DEF Fails
<1>2. OneRequest(c) /\ Later(req[c], req'[c]) /\ req'[c].pc = "failed"
  BY <1>1, ReqAt DEF OneRequest, Later, Asking, ReqFields
<1>3. slot' \in SlotType
  BY <1>1 DEF SlotType
<1> QED BY <1>1, <1>2, <1>3

LEMMA SpawnOK ==
    ASSUME Shape, NEW c \in Calls, Spawn(c)
    PROVE  Moved /\ SlotOK'
<1>0. /\ req[c].pc = "spawn" /\ UNCHANGED <<Rest, Desk, console>>
      /\ Asking(req[c]) /\ DOMAIN req = Calls /\ SlotOK /\ ReqOK /\ left \in [Bounds -> Nat]
  BY ReqAt DEF Shape, Spawn
<1>1. ASSUME Fails(c, slot), UNCHANGED <<helper, left>>
      PROVE  Moved /\ SlotOK'
  <2>1. OneRequest(c) /\ Later(req[c], req'[c]) /\ slot' \in SlotType
    BY <1>0, <1>1, FailsOK DEF SlotOK
  <2> QED BY <1>0, <1>1, <2>1, OneLater DEF Moved, SlotOK
<1>2. ASSUME Spend("faults"), Fails(c, Failing(slot)), UNCHANGED helper
      PROVE  Moved /\ SlotOK'
  <2>1. Failing(slot) \in SlotType
    BY <1>0, FailingType DEF SlotOK
  <2>2. OneRequest(c) /\ Later(req[c], req'[c]) /\ slot' \in SlotType
    BY <1>0, <1>2, <2>1, FailsOK
  <2>3. left' \in [Bounds -> Nat]
    BY <1>0, <1>2, SpendType DEF Bounds
  <2> QED BY <1>0, <1>2, <2>2, <2>3, OneLater DEF Moved, SlotOK
<1>3. ASSUME console # None, FreePids # {}, NEW n \in FreePorts,
             LET h == CHOOSE x \in FreePids : TRUE
             IN /\ helper' = [x \in Pids |->
                     CASE x = h -> [NoHelper EXCEPT !.state = "starting", !.port = n, !.session = console]
                       [] x \in FreePids \ {h} -> NoHelper
                       [] OTHER -> helper[x]]
                /\ req' = [req EXCEPT ![c].pc = "starting", ![c].pid = h, ![c].port = n],
             UNCHANGED <<slot, left>>
      PROVE  Moved /\ SlotOK'
  <2> DEFINE h == CHOOSE x \in FreePids : TRUE
             new == [NoHelper EXCEPT !.state = "starting", !.port = n, !.session = console]
  <2>1. h \in Pids /\ n \in Ports
    BY <1>3 DEF FreePids, FreePorts
  <2>2. new \in HelperType /\ NoHelper \in HelperType
    BY <1>0, <2>1 DEF NoHelper, HelperType, SlotOK
  <2>3. helper' = [x \in Pids |-> CASE x = h -> new [] x \in FreePids \ {h} -> NoHelper [] OTHER -> helper[x]]
    BY <1>3
  <2> HIDE DEF new
  <2>4. helper' \in [Pids -> HelperType]
    BY <1>0, <2>2, <2>3 DEF SlotOK
  <2>5. req' = [req EXCEPT ![c].pc = "starting", ![c].pid = h, ![c].port = n]
    BY <1>3
  <2> HIDE DEF h
  <2>6. OneRequest(c) /\ Later(req[c], req'[c])
    BY <1>0, <2>1, <2>5 DEF OneRequest, Later, Asking, Before, ReqFields, SlotSteps
  <2> QED BY <1>0, <1>3, <2>4, <2>6, OneLater DEF Moved, SlotOK
<1> QED BY <1>1, <1>2, <1>3 DEF Spawn

LEMMA HelloOK ==
    ASSUME Shape, NEW c \in Calls, Hello(c)
    PROVE  Moved /\ SlotOK'
<1> DEFINE h == req[c].pid
<1>0. /\ req[c].pc = "starting" /\ UNCHANGED <<Rest, console>> /\ h \in Pids
      /\ Asking(req[c]) /\ DOMAIN req = Calls /\ SlotOK /\ ReqOK /\ TableOK /\ left \in [Bounds -> Nat]
  BY ReqAt DEF Shape, Hello, Asking
<1>1. Failing(slot) \in SlotType
  BY <1>0, FailingType DEF SlotOK
<1>2. ASSUME Serves(h), req' = [req EXCEPT ![c].pc = "call"], slot' = [FreshSlot EXCEPT !.live = h],
             UNCHANGED <<helper, Desk, left>>
      PROVE  Moved /\ SlotOK'
  <2>1. OneRequest(c) /\ Later(req[c], req'[c])
    BY <1>0, <1>2 DEF OneRequest, Later, Asking, Before, ReqFields, SlotSteps
  <2>2. slot' \in SlotType
    BY <1>0, <1>2 DEF FreshSlot, SlotType
  <2> QED BY <1>0, <1>2, <2>1, <2>2, OneLater DEF Moved, SlotOK
<1>3. ASSUME Fails(c, Failing(slot)), UNCHANGED <<helper, Desk, left>>
      PROVE  Moved /\ SlotOK'
  <2>1. OneRequest(c) /\ Later(req[c], req'[c]) /\ slot' \in SlotType
    BY <1>0, <1>1, <1>3, FailsOK
  <2> QED BY <1>0, <1>3, <2>1, OneLater DEF Moved, SlotOK
<1>4. ASSUME Spend("faults"), Ended(h, "killed"), Fails(c, Failing(slot))
      PROVE  Moved /\ SlotOK'
  <2>1. OneRequest(c) /\ Later(req[c], req'[c]) /\ slot' \in SlotType
    BY <1>0, <1>1, <1>4, FailsOK
  <2>2. helper' \in [Pids -> HelperType] /\ (table' = table \/ table' = <<>>)
    BY <1>0, <1>4, EndedType
  <2>3. left' \in [Bounds -> Nat]
    BY <1>0, <1>4, SpendType DEF Bounds
  <2> QED BY <1>0, <1>4, <2>1, <2>2, <2>3, OneLater DEF Moved, SlotOK
<1> QED BY <1>2, <1>3, <1>4 DEF Hello, Killed

LEMMA SendOK ==
    ASSUME Shape, NEW c \in Calls, Send(c)
    PROVE  Moved /\ SlotOK'
<1> DEFINE h == req[c].pid
<1>0. /\ req[c].pc = "call" /\ UNCHANGED <<Rest, Desk, left, console, slot>>
      /\ Asking(req[c]) /\ DOMAIN req = Calls /\ SlotOK /\ ReqOK /\ left \in [Bounds -> Nat]
  BY ReqAt DEF Shape, Send
<1>1. req' = [req EXCEPT ![c].pc = "here"] \/ req' = [req EXCEPT ![c].pc = "broken"]
  BY DEF Send
<1>2. OneRequest(c) /\ Later(req[c], req'[c])
  BY <1>0, <1>1 DEF OneRequest, Later, Asking, Before, ReqFields, SlotSteps
<1>3. helper' = helper \/ helper' = [helper EXCEPT ![h].rested = FALSE]
  BY DEF Send
<1>4. helper' \in [Pids -> HelperType]
  BY <1>0, <1>3 DEF SlotOK, HelperType
<1> QED BY <1>0, <1>2, <1>4, OneLater DEF Moved, SlotOK

LEMMA TimesOutOK ==
    ASSUME Shape, NEW c \in Calls, TimesOut(c)
    PROVE  Moved /\ SlotOK'
<1>0. /\ req[c].pc \in Inside /\ Spend("faults") /\ UNCHANGED <<Rest, table, console, slot, helper>>
      /\ req' = [req EXCEPT ![c] = Broke(@)]
      /\ Asking(req[c]) /\ DOMAIN req = Calls /\ SlotOK /\ ReqOK /\ left \in [Bounds -> Nat]
  BY ReqAt DEF Shape, TimesOut
<1>1. req'[c] = Broke(req[c]) /\ OneRequest(c)
  BY <1>0 DEF OneRequest
<1>2. Later(req[c], req'[c])
  BY <1>0, <1>1, BrokeIs DEF Later, Inside, Asking
<1>3. left' \in [Bounds -> Nat]
  BY <1>0, SpendType DEF Bounds
<1> QED BY <1>0, <1>1, <1>2, <1>3, OneLater DEF Moved, SlotOK

LEMMA DiscardOK ==
    ASSUME Shape, NEW c \in Calls, Discard(c)
    PROVE  Moved /\ SlotOK'
<1> DEFINE h == slot.live
<1>0. /\ req[c].pc = "broken" /\ UNCHANGED <<Rest, left, console>>
      /\ Asking(req[c]) /\ DOMAIN req = Calls /\ SlotOK /\ ReqOK /\ TableOK /\ left \in [Bounds -> Nat]
  BY ReqAt DEF Shape, Discard
<1>1. ASSUME req' = [req EXCEPT ![c].pc = "failed", ![c].pid = None]
      PROVE  OneRequest(c) /\ Later(req[c], req'[c])
  BY <1>0, <1>1 DEF OneRequest, Later, Asking, ReqFields
<1>2. ASSUME h # None
      PROVE  h \in Pids /\ Failing([slot EXCEPT !.live = None]) \in SlotType
  <2>1. h \in Pids /\ [slot EXCEPT !.live = None] \in SlotType
    BY <1>0, <1>2 DEF SlotOK, SlotType
  <2> QED BY <2>1, FailingType
<1>3. ASSUME h # None, Ended(h, "killed"), slot' = Failing([slot EXCEPT !.live = None]),
             req' = [Broken(h, c) EXCEPT ![c].pc = "failed", ![c].pid = None]
      PROVE  Moved /\ SlotOK'
  <2>1. helper' \in [Pids -> HelperType] /\ (table' = table \/ table' = <<>>)
    BY <1>0, <1>2, <1>3, EndedType
  <2>2. DOMAIN req' = Calls /\ \A d \in Calls : Later(req[d], req'[d])
    <3>1. /\ DOMAIN Broken(h, c) = Calls
          /\ \A d \in Calls : Later(req[d], Broken(h, c)[d])
          /\ Broken(h, c)[c] = req[c]
      BY <1>0, BrokenIs
    <3> HIDE DEF h
    <3>2. req'[c] = [req[c] EXCEPT !.pc = "failed", !.pid = None]
      BY <1>3, <3>1
    <3>3. Later(req[c], req'[c])
      BY <1>0, <3>2 DEF Later, Asking, ReqFields
    <3> QED BY <1>3, <3>1, <3>3
  <2> QED BY <1>0, <1>2, <1>3, <2>1, <2>2 DEF Moved, SlotOK
<1>4. ASSUME h # None, UNCHANGED <<helper, Desk>>, slot' = Failing([slot EXCEPT !.live = None]),
             req' = [req EXCEPT ![c].pc = "failed", ![c].pid = None]
      PROVE  Moved /\ SlotOK'
  BY <1>0, <1>1, <1>2, <1>4, OneLater DEF Moved, SlotOK
<1>5. ASSUME UNCHANGED <<slot, helper, Desk>>, req' = [req EXCEPT ![c].pc = "failed", ![c].pid = None]
      PROVE  Moved /\ SlotOK'
  BY <1>0, <1>1, <1>5, OneLater DEF Moved, SlotOK
<1> QED BY <1>3, <1>4, <1>5 DEF Discard

LEMMA RefuseOK ==
    ASSUME Shape, NEW c \in Calls, Refuse(c)
    PROVE  Moved /\ SlotOK'
<1>0. /\ UNCHANGED <<Rest, Desk, left, console, slot, helper>> /\ req' = [req EXCEPT ![c] = NoRequest]
      /\ DOMAIN req = Calls /\ SlotOK /\ ReqOK /\ left \in [Bounds -> Nat]
  BY ReqAt DEF Shape, Refuse
<1>1. OneRequest(c) /\ Later(req[c], req'[c])
  BY <1>0 DEF OneRequest, Later
<1> QED BY <1>0, <1>1, OneLater DEF Moved, SlotOK

\* The steps of the helpers and of what is around them.
Around(h) == Binds(h) \/ Rests(h) \/ ExitsIdle(h) \/ ParentGone(h) \/ Dies(h)

LEMMA AroundOK ==
    ASSUME Shape, NEW h \in Pids, Around(h)
    PROVE  Moved /\ SlotOK'
<1>0. SlotOK /\ ReqOK /\ TableOK /\ left \in [Bounds -> Nat] /\ DOMAIN req = Calls
  BY DEF Shape, DeviceOK, ReqOK
<1>1. ASSUME Binds(h)
      PROVE  Moved /\ SlotOK'
  <2>1. helper' = [helper EXCEPT ![h].state = "serving"] /\ table' = <<>>
        /\ UNCHANGED <<Rest, left, req, console, slot>>
    BY <1>1 DEF Binds
  <2>2. helper' \in [Pids -> HelperType]
    BY <1>0, <2>1 DEF SlotOK, HelperType
  <2> QED BY <1>0, <2>1, <2>2, SameLater DEF Moved, SlotOK
<1>2. ASSUME Rests(h)
      PROVE  Moved /\ SlotOK'
  <2>1. helper' = [helper EXCEPT ![h].rested = TRUE] /\ Spend("exits")
        /\ UNCHANGED <<Rest, Desk, req, console, slot>>
    BY <1>2 DEF Rests
  <2>2. helper' \in [Pids -> HelperType] /\ left' \in [Bounds -> Nat]
    BY <1>0, <2>1, SpendType DEF SlotOK, HelperType, Bounds
  <2> QED BY <1>0, <2>1, <2>2, SameLater DEF Moved, SlotOK
<1>3. ASSUME ExitsIdle(h) \/ ParentGone(h)
      PROVE  Moved /\ SlotOK'
  <2>1. (Ended(h, "idle") \/ Ended(h, "parent")) /\ UNCHANGED <<Rest, left, req, console, slot>>
    BY <1>3 DEF ExitsIdle, ParentGone
  <2>2. helper' \in [Pids -> HelperType] /\ (table' = table \/ table' = <<>>)
    BY <1>0, <2>1, EndedType
  <2> QED BY <1>0, <2>1, <2>2, SameLater DEF Moved, SlotOK
<1>4. ASSUME Dies(h)
      PROVE  Moved /\ SlotOK'
  <2>1. Ended(h, "crash") /\ req' = Broken(h, None) /\ Spend("faults") /\ UNCHANGED <<Rest, console, slot>>
    BY <1>4 DEF Dies
  <2>2. helper' \in [Pids -> HelperType] /\ (table' = table \/ table' = <<>>)
    BY <1>0, <2>1, EndedType
  <2>3. left' \in [Bounds -> Nat]
    BY <1>0, <2>1, SpendType DEF Bounds
  <2>4. DOMAIN req' = Calls /\ \A d \in Calls : Later(req[d], req'[d])
    BY <1>0, <2>1, BrokenIs
  <2> QED BY <1>0, <2>1, <2>2, <2>3, <2>4 DEF Moved, SlotOK
<1> QED BY <1>1, <1>2, <1>3, <1>4 DEF Around

LEMMA OutsideOK ==
    ASSUME Shape, CoolDown \/ ConsoleMoves \/ RestartService
    PROVE  Moved /\ SlotOK'
<1>0. SlotOK /\ ReqOK /\ TableOK /\ left \in [Bounds -> Nat] /\ DOMAIN req = Calls
  BY DEF Shape, DeviceOK, ReqOK
<1>1. ASSUME CoolDown
      PROVE  Moved /\ SlotOK'
  <2>1. slot' = [slot EXCEPT !.cooling = FALSE] /\ UNCHANGED <<Rest, Desk, left, req, console, helper>>
    BY <1>1 DEF CoolDown
  <2>2. slot' \in SlotType
    BY <1>0, <2>1 DEF SlotOK, SlotType
  <2> QED BY <1>0, <2>1, <2>2, SameLater DEF Moved, SlotOK
<1>2. ASSUME ConsoleMoves
      PROVE  Moved /\ SlotOK'
  <2>1. Spend("consoles") /\ console' \in {None, 1, 2} /\ UNCHANGED <<Rest, Desk, req, slot, helper>>
    BY <1>2 DEF ConsoleMoves
  <2>2. left' \in [Bounds -> Nat]
    BY <1>0, <2>1, SpendType DEF Bounds
  <2> QED BY <1>0, <2>1, <2>2, SameLater DEF Moved, SlotOK
<1>3. ASSUME RestartService
      PROVE  Moved /\ SlotOK'
  <2>1. /\ Spend("restarts") /\ req' = [c \in Calls |-> NoRequest] /\ slot' = FreshSlot /\ table' = <<>>
        /\ helper' = [h \in Pids |-> [helper[h] EXCEPT !.orphan = Lives(h)]] /\ UNCHANGED <<Rest, console>>
    BY <1>3 DEF RestartService
  <2>2. left' \in [Bounds -> Nat]
    BY <1>0, <2>1, SpendType DEF Bounds
  <2>3. helper' \in [Pids -> HelperType]
    <3>1. \A b \in BOOLEAN, x \in HelperType : [x EXCEPT !.orphan = b] \in HelperType
      BY DEF HelperType
    <3>2. \A h \in Pids : Lives(h) \in BOOLEAN /\ helper[h] \in HelperType
      BY <1>0 DEF Lives, SlotOK
    <3>3. \A h \in Pids : [helper[h] EXCEPT !.orphan = Lives(h)] \in HelperType
      BY <3>1, <3>2
    <3> QED BY <2>1, <3>3
  <2>4. slot' \in SlotType
    BY <2>1 DEF FreshSlot, SlotType
  <2>5. DOMAIN req' = Calls /\ \A d \in Calls : Later(req[d], req'[d])
    BY <2>1 DEF Later
  <2> QED BY <1>0, <2>1, <2>2, <2>3, <2>4, <2>5 DEF Moved, SlotOK
<1> QED BY <1>1, <1>2, <1>3

LEMMA ClientOK ==
    ASSUME Shape, NEW c \in Calls, OfClient(c) \/ TimesOut(c)
    PROVE  Moved /\ SlotOK'
  BY EnsureOK, SpawnOK, HelloOK, SendOK, DiscardOK, RefuseOK, TimesOutOK DEF OfClient

\* The steps of Screen leave the helpers alone.
LEMMA AskOK ==
    ASSUME Shape, NEW v \in Viewers, Asks(v), UNCHANGED <<console, slot, helper>>
    PROVE  Shape'
<1> DEFINE pc == IF world.session0 THEN "asked" ELSE "here"
<1>1. PICK c \in Calls :
        /\ req' = [req EXCEPT ![c] = [NoRequest EXCEPT !.pc = pc, !.v = v, !.heard = TRUE, !.ack = viewer[v].ack,
                                                       !.codec = viewer[v].codec, !.w = viewer[v].w]]
  BY DEF Asks, Ask
<1>2. pc \in {"asked", "here"} /\ UNCHANGED <<world, screen, table, sess, viewer, left>>
  BY DEF Asks, Ask
<1>3. Watching(viewer[v]) /\ ReqOK
  BY DEF Shape, ViewerOK
<1> HIDE DEF pc
<1>4. OneRequest(c) /\ Asking(req'[c])
  BY <1>1, <1>2, <1>3 DEF OneRequest, Asking, ReqOK, Watching, NoRequest, ReqFields, Pcs, Before, SlotSteps
<1>5. ReqOK'
  BY <1>3, <1>4, OneAsks
<1>6. ViewerOK' /\ SessOK' /\ DeviceOK' /\ TableOK' /\ SlotOK'
  BY <1>2 DEF Shape, ViewerOK, SessOK, DeviceOK, TableOK, SlotOK, Watching
<1> QED BY <1>5, <1>6 DEF Shape

LEMMA GiveUpOK ==
    ASSUME Shape, NEW v \in Viewers, GiveUp(v), UNCHANGED <<console, slot, helper>>
    PROVE  Shape'
<1>1. PICK c \in Calls :
        /\ req[c].heard /\ Spend("giveups")
        /\ req' = [req EXCEPT ![c] = IF @.pc = "done" THEN NoRequest ELSE [req[c] EXCEPT !.heard = FALSE]]
  BY DEF GiveUp
<1>2. UNCHANGED <<world, screen, table, sess, viewer>>
  BY DEF GiveUp
<1>3. ReqOK /\ Asking(req[c])
  BY DEF Shape, ReqOK
<1>4. OneRequest(c) /\ Asking(req'[c])
  <2>1. OneRequest(c) /\ (req'[c] = NoRequest \/ (req[c].pc # "done" /\ req'[c] = [req[c] EXCEPT !.heard = FALSE]))
    BY <1>1, <1>3 DEF OneRequest, ReqOK
  <2>2. ASSUME req'[c] = [req[c] EXCEPT !.heard = FALSE], req[c].pc # "done"
        PROVE  Asking(req'[c])
    BY <1>3, <2>2 DEF Asking, ReqFields
  <2> QED BY <2>1, <2>2, NobodyAsks
<1>5. ReqOK' /\ left' \in [Bounds -> Nat]
  BY <1>1, <1>3, <1>4, OneAsks, SpendType DEF Shape, DeviceOK, Bounds
<1>6. ViewerOK' /\ SessOK' /\ DeviceOK' /\ TableOK' /\ SlotOK'
  BY <1>2, <1>5 DEF Shape, ViewerOK, SessOK, DeviceOK, TableOK, SlotOK, Watching
<1> QED BY <1>5, <1>6 DEF Shape

LEMMA SwitchOK ==
    ASSUME Shape, NEW v \in Viewers, Switch(v), UNCHANGED <<console, slot, helper>>
    PROVE  /\ Shape' /\ v \in Viewers /\ UNCHANGED <<table, sess, req>>
           /\ \A u \in Viewers : /\ viewer'[u].ack = viewer[u].ack /\ viewer'[u].of = viewer[u].of
                                 /\ viewer'[u].canvas = viewer[u].canvas
                                 /\ viewer'[u].garbled = viewer[u].garbled /\ viewer'[u].stale = viewer[u].stale
<1>1. PICK w \in world.widths, codec \in world.codecs : viewer' = [viewer EXCEPT ![v].w = w, ![v].codec = codec]
  BY DEF Switch
<1>2. Spend("switches") /\ UNCHANGED <<world, screen, table, sess, req>>
  BY DEF Switch
<1>3. IsDevice(world)
  BY ScreenAssumption DEF Shape, DeviceOK
<1>4. w \in Nat \ {0} /\ codec \in Codecs
  BY <1>1, <1>3 DEF IsDevice
<1>5. \A u \in Viewers : /\ Watching(viewer'[u])
                         /\ viewer'[u].ack = viewer[u].ack /\ viewer'[u].of = viewer[u].of
                         /\ viewer'[u].canvas = viewer[u].canvas
                         /\ viewer'[u].garbled = viewer[u].garbled /\ viewer'[u].stale = viewer[u].stale
  BY <1>1, <1>4 DEF Shape, ViewerOK, Watching, ViewerFields
<1>6. DOMAIN viewer' = Viewers
  BY <1>1 DEF Shape, ViewerOK
<1>7. left' \in [Bounds -> Nat]
  BY <1>2, SpendType DEF Shape, DeviceOK, Bounds
<1>8. ViewerOK' /\ ReqOK' /\ SessOK' /\ DeviceOK' /\ TableOK' /\ SlotOK'
  BY <1>2, <1>5, <1>6, <1>7 DEF Shape, ViewerOK, ReqOK, SessOK, DeviceOK, TableOK, SlotOK, Asking
<1> QED BY <1>2, <1>5, <1>8 DEF Shape

\* A table in which no session id appears twice.
Entries == [sid : Viewers, sess : Sessions]
OneEach(q) == \A i, j \in DOMAIN q : q[i].sid = q[j].sid => i = j

LEMMA AppendOneEach ==
    ASSUME NEW q \in Seq(Entries), OneEach(q), NEW e \in Entries, \A i \in DOMAIN q : q[i].sid # e.sid
    PROVE  Append(q, e) \in Seq(Entries) /\ Len(Append(q, e)) = Len(q) + 1 /\ OneEach(Append(q, e))
<1> DEFINE a == Append(q, e)
<1>1. /\ a \in Seq(Entries) /\ Len(a) = Len(q) + 1 /\ DOMAIN a = 1 .. (Len(q) + 1) /\ DOMAIN q = 1 .. Len(q)
      /\ Len(q) \in Nat /\ a[Len(q) + 1] = e /\ \A i \in 1 .. Len(q) : a[i] = q[i]
  OBVIOUS
<1> HIDE DEF a
<1>2. ASSUME NEW i \in DOMAIN a, NEW j \in DOMAIN a, a[i].sid = a[j].sid
      PROVE  i = j
  <2>1. CASE i \in 1 .. Len(q) /\ j \in 1 .. Len(q)
    BY <1>1, <1>2, <2>1 DEF OneEach
  <2>2. CASE i = Len(q) + 1 \/ j = Len(q) + 1
    BY <1>1, <1>2, <2>2
  <2> QED BY <1>1, <2>1, <2>2
<1>3. OneEach(a)
  BY <1>2 DEF OneEach
<1> QED BY <1>1, <1>3 DEF a

\* The entries that stay when the idle ones and one more go.
LEMMA CutOneEach ==
    ASSUME NEW q \in Seq(Entries), OneEach(q), NEW k \in 0 .. Len(q)
    PROVE  LET r == SubSeq(q, k + 1, Len(q))
           IN r \in Seq(Entries) /\ OneEach(r) /\ Len(r) = Len(q) - k /\ \A i \in DOMAIN r : r[i] = q[k + i]
<1> DEFINE r == SubSeq(q, k + 1, Len(q))
<1>1. /\ r \in Seq(Entries) /\ Len(r) = Len(q) - k /\ DOMAIN r = 1 .. (Len(q) - k) /\ DOMAIN q = 1 .. Len(q)
      /\ Len(q) \in Nat /\ \A i \in 1 .. (Len(q) - k) : r[i] = q[k + i]
  OBVIOUS
<1> HIDE DEF r
<1>2. OneEach(r)
  <2> SUFFICES ASSUME NEW i \in DOMAIN r, NEW j \in DOMAIN r, r[i].sid = r[j].sid PROVE i = j
    BY DEF OneEach
  <2>1. i \in Nat /\ j \in Nat /\ k + i \in DOMAIN q /\ k + j \in DOMAIN q /\ r[i] = q[k + i] /\ r[j] = q[k + j]
    BY <1>1
  <2>2. k + i = k + j
    BY <2>1 DEF OneEach
  <2> QED BY <2>1, <2>2
<1> QED BY <1>1, <1>2 DEF r

LEMMA WithoutOneEach ==
    ASSUME NEW q \in Seq(Entries), OneEach(q), NEW at \in DOMAIN q
    PROVE  LET r == SubSeq(q, 1, at - 1) \o SubSeq(q, at + 1, Len(q))
           IN r \in Seq(Entries) /\ OneEach(r) /\ Len(r) = Len(q) - 1 /\ \A i \in DOMAIN r : r[i].sid # q[at].sid
<1> DEFINE a == SubSeq(q, 1, at - 1)
           b == SubSeq(q, at + 1, Len(q))
           r == a \o b
<1>1. /\ a \in Seq(Entries) /\ Len(a) = at - 1 /\ \A i \in 1 .. (at - 1) : a[i] = q[i]
      /\ b \in Seq(Entries) /\ Len(b) = Len(q) - at /\ \A i \in 1 .. (Len(q) - at) : b[i] = q[at + i]
      /\ DOMAIN q = 1 .. Len(q) /\ Len(q) \in Nat
  OBVIOUS
<1> HIDE DEF a, b
<1>2. /\ r \in Seq(Entries) /\ Len(r) = Len(q) - 1 /\ DOMAIN r = 1 .. (Len(q) - 1)
      /\ \A i \in 1 .. (at - 1) : r[i] = a[i]
      /\ \A i \in at .. (Len(q) - 1) : r[i] = b[i - (at - 1)]
  <2>1. /\ r \in Seq(Entries) /\ Len(r) = Len(a) + Len(b)
        /\ \A i \in 1 .. (Len(a) + Len(b)) : r[i] = IF i <= Len(a) THEN a[i] ELSE b[i - Len(a)]
    BY <1>1, ConcatProperties
  <2>2. at \in Nat /\ Len(a) + Len(b) = Len(q) - 1
    BY <1>1
  <2> HIDE DEF r
  <2>3. DOMAIN r = 1 .. (Len(q) - 1)
    BY <2>1, <2>2
  <2>4. \A i \in 1 .. (at - 1) : r[i] = a[i]
    BY <1>1, <2>1, <2>2
  <2>5. \A i \in at .. (Len(q) - 1) : r[i] = b[i - (at - 1)]
    BY <1>1, <2>1, <2>2
  <2> QED BY <2>1, <2>2, <2>3, <2>4, <2>5
<1> HIDE DEF r
<1>3. \A i \in 1 .. (Len(q) - 1) : r[i] = IF i < at THEN q[i] ELSE q[i + 1]
  <2> TAKE i \in 1 .. (Len(q) - 1)
  <2>1. CASE i < at
    <3>1. Len(q) \in Nat /\ at \in Nat /\ i \in 1 .. (at - 1)
      BY <1>1, <2>1
    <3>2. r[i] = a[i] /\ a[i] = q[i]
      BY <1>1, <1>2, <3>1
    <3> QED BY <2>1, <3>2
  <2>2. CASE ~(i < at)
    <3>0. Len(q) \in Nat /\ at \in Nat /\ i \in Nat
      BY <1>1
    <3>1. i \in at .. (Len(q) - 1) /\ i - (at - 1) \in 1 .. (Len(q) - at) /\ at + (i - (at - 1)) = i + 1
      BY <1>1, <2>2, <3>0
    <3> QED BY <1>1, <1>2, <2>2, <3>1
  <2> QED BY <2>1, <2>2
<1>4. OneEach(r)
  <2> SUFFICES ASSUME NEW i \in DOMAIN r, NEW j \in DOMAIN r, r[i].sid = r[j].sid PROVE i = j
    BY DEF OneEach
  <2> DEFINE e(k) == IF k < at THEN k ELSE k + 1
  <2>1. e(i) \in DOMAIN q /\ e(j) \in DOMAIN q /\ r[i] = q[e(i)] /\ r[j] = q[e(j)]
    BY <1>1, <1>2, <1>3
  <2>2. e(i) = e(j)
    BY <2>1 DEF OneEach
  <2> QED BY <1>1, <1>2, <2>2
<1>5. \A i \in DOMAIN r : r[i].sid # q[at].sid
  <2> SUFFICES ASSUME NEW i \in DOMAIN r, r[i].sid = q[at].sid PROVE FALSE
    OBVIOUS
  <2> DEFINE e == IF i < at THEN i ELSE i + 1
  <2>1. e \in DOMAIN q /\ r[i] = q[e] /\ e # at
    BY <1>1, <1>2, <1>3
  <2> QED BY <2>1 DEF OneEach
<1> QED BY <1>2, <1>4, <1>5 DEF r, a, b

\* session_for keeps the table within its bound, with one entry for each id.
LEMMA SessionForTable ==
    ASSUME Shape, TableInv, NEW c \in Calls, SessionFor(c)
    PROVE  /\ TableOK' /\ TableInv'
           /\ \E s \in Sessions : req' = [req EXCEPT ![c].pc = "have", ![c].sess = s]
           /\ left' \in [Bounds -> Nat]
<1>0. table \in Seq(Entries) /\ OneEach(table) /\ Len(table) <= MAX_SESSIONS /\ req[c].v \in Viewers
      /\ left \in [Bounds -> Nat]
  BY DEF Shape, TableOK, TableInv, Entries, OneEach, SessionFor, ReqOK, Asking, DeviceOK
<1>1. PICK idle \in 0 .. Len(table) :
        LET kept == SubSeq(table, idle + 1, Len(table))
            mine == {i \in DOMAIN kept : kept[i].sid = req[c].v}
            at == CHOOSE i \in mine : TRUE
            s == IF mine # {} THEN kept[at].sess ELSE CHOOSE x \in Unused : TRUE
            others == IF mine # {} THEN SubSeq(kept, 1, at - 1) \o SubSeq(kept, at + 1, Len(kept))
                      ELSE IF Len(kept) >= MAX_SESSIONS THEN Tail(kept) ELSE kept
        IN /\ IF idle = 0 THEN UNCHANGED left ELSE Spend("idles")
           /\ mine = {} => Unused # {}
           /\ table' = Append(others, [sid |-> req[c].v, sess |-> s])
           /\ req' = [req EXCEPT ![c].pc = "have", ![c].sess = s]
  BY DEF SessionFor
<1> DEFINE kept == SubSeq(table, idle + 1, Len(table))
           mine == {i \in DOMAIN kept : kept[i].sid = req[c].v}
           at == CHOOSE i \in mine : TRUE
           s == IF mine # {} THEN kept[at].sess ELSE CHOOSE x \in Unused : TRUE
           others == IF mine # {} THEN SubSeq(kept, 1, at - 1) \o SubSeq(kept, at + 1, Len(kept))
                     ELSE IF Len(kept) >= MAX_SESSIONS THEN Tail(kept) ELSE kept
           e == [sid |-> req[c].v, sess |-> s]
<1>2. /\ mine = {} => Unused # {}
      /\ table' = Append(others, e)
      /\ req' = [req EXCEPT ![c].pc = "have", ![c].sess = s]
      /\ UNCHANGED left \/ Spend("idles")
  BY <1>1
<1>3. kept \in Seq(Entries) /\ OneEach(kept) /\ Len(kept) <= MAX_SESSIONS
  BY <1>0, CutOneEach, ScreenAssumption
<1> HIDE DEF kept
<1>4. mine # {} => at \in DOMAIN kept /\ kept[at].sid = req[c].v
  OBVIOUS
<1>5. s \in Sessions
  <2>1. CASE mine # {}
    <3>1. kept[at] \in Entries
      BY <1>3, <1>4, <2>1
    <3> QED BY <2>1, <3>1 DEF Entries
  <2>2. CASE mine = {}
    BY <1>2, <2>2 DEF Unused
  <2> QED BY <2>1, <2>2
<1>6. /\ others \in Seq(Entries) /\ OneEach(others) /\ Len(others) < MAX_SESSIONS
      /\ \A i \in DOMAIN others : others[i].sid # req[c].v
  <2>1. CASE mine # {}
    <3> HIDE DEF mine, at
    <3>1. others = SubSeq(kept, 1, at - 1) \o SubSeq(kept, at + 1, Len(kept))
      BY <2>1
    <3>2. Len(kept) \in Nat /\ at \in DOMAIN kept /\ kept[at].sid = req[c].v
      BY <1>3, <1>4, <2>1
    <3> HIDE DEF others
    <3>3. /\ others \in Seq(Entries) /\ OneEach(others) /\ Len(others) = Len(kept) - 1
          /\ \A i \in DOMAIN others : others[i].sid # kept[at].sid
      BY <1>3, <3>1, <3>2, WithoutOneEach
    <3> QED BY <1>3, <3>2, <3>3, ScreenAssumption
  <2>2. CASE mine = {} /\ Len(kept) >= MAX_SESSIONS
    <3>1. Len(kept) \in Nat /\ 1 \in DOMAIN kept /\ Tail(kept) = SubSeq(kept, 1 + 1, Len(kept))
      BY <1>3, <2>2, ScreenAssumption
    <3>2. others = SubSeq(kept, 1 + 1, Len(kept)) /\ \A i \in DOMAIN kept : kept[i].sid # req[c].v
      BY <2>2, <3>1
    <3>3. 1 \in 0 .. Len(kept) /\ DOMAIN kept = 1 .. Len(kept)
      BY <1>3, <2>2, <3>1, ScreenAssumption
    <3> HIDE DEF others, mine
    <3>4. /\ others \in Seq(Entries) /\ OneEach(others) /\ Len(others) = Len(kept) - 1
          /\ \A i \in DOMAIN others : others[i] = kept[1 + i]
      BY <1>3, <3>2, <3>3, CutOneEach
    <3>5. \A i \in DOMAIN others : 1 + i \in DOMAIN kept
      BY <1>3, <3>3, <3>4
    <3> QED BY <1>3, <3>2, <3>4, <3>5, ScreenAssumption
  <2>3. CASE mine = {} /\ ~(Len(kept) >= MAX_SESSIONS)
    <3>1. others = kept /\ Len(kept) \in Nat
      BY <1>3, <2>3
    <3> QED BY <1>3, <2>3, <3>1, ScreenAssumption
  <2> QED BY <2>1, <2>2, <2>3
<1>7. e \in Entries /\ e.sid = req[c].v
  BY <1>0, <1>5 DEF Entries
<1> HIDE DEF others, e
<1>8. table' \in Seq(Entries) /\ Len(table') = Len(others) + 1 /\ OneEach(table')
  BY <1>2, <1>6, <1>7, AppendOneEach
<1>9. TableOK' /\ TableInv'
  BY <1>6, <1>8, ScreenAssumption DEF TableOK, TableInv, OneEach, Entries
<1>10. left' \in [Bounds -> Nat]
  BY <1>0, <1>2, SpendType DEF Bounds
<1> QED BY <1>2, <1>5, <1>9, <1>10

LEMMA SessionForOK ==
    ASSUME Shape, TableInv, NEW c \in Calls, SessionFor(c), UNCHANGED <<console, slot, helper>>
    PROVE  Shape' /\ TableInv'
<1>1. /\ TableOK' /\ TableInv' /\ left' \in [Bounds -> Nat]
      /\ \E s \in Sessions : req' = [req EXCEPT ![c].pc = "have", ![c].sess = s]
  BY SessionForTable
<1>2. /\ sess' = [x \in Sessions |-> IF x \in Unused THEN NoSession ELSE sess[x]]
      /\ viewer' = [v \in Viewers |-> IF viewer[v].of \in Unused THEN [viewer[v] EXCEPT !.of = None] ELSE viewer[v]]
      /\ UNCHANGED <<world, screen>> /\ req[c].pc = "here"
  BY DEF SessionFor
<1>3. PICK s \in Sessions : req' = [req EXCEPT ![c].pc = "have", ![c].sess = s]
  BY <1>1
<1>4. ReqOK /\ Asking(req[c])
  BY DEF Shape, ReqOK
<1>5. OneRequest(c) /\ Asking(req'[c])
  BY <1>2, <1>3, <1>4 DEF OneRequest, ReqOK, Asking, ReqFields, Pcs, Before, SlotSteps
<1>6. ReqOK'
  BY <1>4, <1>5, OneAsks
<1>7. DOMAIN NoSession = SessionFields /\ NoSession.seq \in Nat
  BY DEF NoSession, SessionFields
<1>8. SessOK'
  BY <1>2, <1>7 DEF Shape, SessOK
<1>9. \A o : Watching(o) => Watching([o EXCEPT !.of = None])
  BY DEF Watching, ViewerFields
<1>10. ViewerOK'
  BY <1>2, <1>9 DEF Shape, ViewerOK
<1>11. DeviceOK' /\ SlotOK'
  BY <1>1, <1>2 DEF Shape, DeviceOK, SlotOK
<1> QED BY <1>1, <1>6, <1>8, <1>10, <1>11 DEF Shape

LEMMA CaptureOK ==
    ASSUME Shape, NEW c \in Calls, Capture(c), UNCHANGED <<console, slot, helper>>
    PROVE  /\ Shape' /\ OneRequest(c) /\ UNCHANGED <<table, sess, viewer>>
           /\ req[c].pc = "have" /\ req'[c].pc = "captured" /\ req'[c].v = req[c].v
           /\ req'[c].heard = req[c].heard /\ req'[c].ack = req[c].ack /\ req'[c].pid = req[c].pid
<1>1. /\ req' = [req EXCEPT ![c].pc = "captured", ![c].img = Scaled(screen, req[c].w), ![c].prev = hook]
      /\ req[c].pc = "have" /\ UNCHANGED <<world, screen, table, sess, viewer, left>>
  BY DEF Capture
<1>2. ReqOK /\ Asking(req[c]) /\ Framed(screen)
  BY DEF Shape, ReqOK, DeviceOK
<1>3. Framed(Scaled(screen, req[c].w))
  BY <1>1, <1>2, ScaledFramed DEF Asking, Before
<1> DEFINE img == Scaled(screen, req[c].w)
<1>4. req' = [req EXCEPT ![c].pc = "captured", ![c].img = img, ![c].prev = hook] /\ Framed(img)
  BY <1>1, <1>3
<1> HIDE DEF img
<1>5. /\ OneRequest(c) /\ req'[c].pc = "captured" /\ req'[c].v = req[c].v
      /\ req'[c].heard = req[c].heard /\ req'[c].ack = req[c].ack /\ req'[c].pid = req[c].pid
  BY <1>2, <1>4 DEF OneRequest, ReqOK, Asking, ReqFields
<1>6. Asking(req'[c])
  BY <1>1, <1>2, <1>4 DEF ReqOK, Asking, ReqFields, Pcs, Before, SlotSteps
<1>7. ReqOK'
  BY <1>2, <1>5, <1>6, OneAsks
<1>8. ViewerOK' /\ SessOK' /\ DeviceOK' /\ TableOK' /\ SlotOK'
  BY <1>1 DEF Shape, ViewerOK, SessOK, DeviceOK, TableOK, SlotOK, Watching
<1> QED BY <1>1, <1>5, <1>7, <1>8 DEF Shape

LEMMA AnswerOK ==
    ASSUME Shape, NEW c \in Calls, req[c].pc = "captured", NEW s, NEW r, Answer(c, s, r),
           DOMAIN s = SessionFields, s.seq \in Nat,
           DOMAIN r = ReplyFields, r.seq \in Nat, r.kind \in Kinds, left' \in [Bounds -> Nat], UNCHANGED <<console, slot, helper>>
    PROVE  /\ Shape' /\ OneRequest(c) /\ UNCHANGED <<table, viewer>>
           /\ req'[c].pc \in {"off", "done"} /\ (req'[c].pc = "done" => req[c].heard)
           /\ req'[c].heard => req'[c].pc = "done" /\ req'[c].v = req[c].v
           /\ req'[c].pc = "done" => req'[c].reply = [r EXCEPT !.of = req[c].sess] /\ req'[c].v = req[c].v
           /\ req'[c].pc = "off" => req'[c] = NoRequest
           /\ req'[c].pc = "done" => req'[c].pid = req[c].pid
           /\ sess' = [sess EXCEPT ![req[c].sess] = s] /\ req[c].sess \in Sessions
<1> DEFINE p == req[c]
           out == [r EXCEPT !.of = p.sess]
           q == [NoRequest EXCEPT !.pc = "done", !.v = p.v, !.heard = TRUE, !.pid = p.pid, !.port = p.port,
                                  !.reply = out]
<1>1. /\ sess' = [sess EXCEPT ![p.sess] = s]
      /\ req' = [req EXCEPT ![c] = IF ~p.heard THEN NoRequest ELSE q]
      /\ UNCHANGED <<world, screen, table, viewer>>
  BY DEF Answer
<1>2. ReqOK /\ Asking(p) /\ p.sess \in Sessions
  BY DEF Shape, ReqOK, Asking
<1>0. out.seq = r.seq /\ out.kind = r.kind /\ out.of = p.sess
  BY DEF ReplyFields
<1> HIDE DEF out
<1>3. q.pc = "done" /\ q.v = p.v /\ q.heard /\ q.pid = p.pid /\ q.reply = out /\ q.ack = 0 /\ DOMAIN q = ReqFields
  BY DEF NoRequest, ReqFields
<1> HIDE DEF q, p
<1>4. p = req[c]
  BY DEF p
<1>5. Asking(q)
  <2>1. q.heard = TRUE
    BY DEF q, NoRequest
  <2>2. Replied(q.reply)
    BY <1>0, <1>2, <1>3 DEF Replied
  <2> QED BY <1>2, <1>3, <1>4, <2>1, <2>2 DEF Asking, Pcs, Before, SlotSteps
<1>6. OneRequest(c) /\ req'[c] = IF ~p.heard THEN NoRequest ELSE q
  BY <1>1, <1>2 DEF OneRequest, ReqOK
<1>7. Asking(req'[c])
  BY <1>5, <1>6, NobodyAsks
<1>8. ReqOK'
  BY <1>2, <1>6, <1>7, OneAsks
<1>9. SessOK'
  BY <1>1, <1>2 DEF Shape, SessOK
<1>10. ViewerOK' /\ DeviceOK' /\ TableOK' /\ SlotOK'
  BY <1>1 DEF Shape, ViewerOK, DeviceOK, TableOK, SlotOK, Watching
<1>11. Shape'
  BY <1>8, <1>9, <1>10 DEF Shape
<1>12. NoRequest.pc = "off" /\ ~NoRequest.heard
  BY NobodyAsks
<1>13. CASE p.heard
  <2>1. req'[c] = q
    BY <1>6, <1>13
  <2> QED BY <1>1, <1>2, <1>3, <1>4, <1>6, <1>11, <1>13, <2>1 DEF out
<1>14. CASE ~p.heard
  <2>1. req'[c] = NoRequest
    BY <1>6, <1>14
  <2> QED BY <1>1, <1>2, <1>4, <1>6, <1>11, <1>12, <1>14, <2>1
<1> QED BY <1>13, <1>14
-----------------------------------------------------------------------------
(* What a viewer has and what its session takes it to have.                 *)

\* An answer: nothing new, or the next frame, whole or against the one before.
Whole(p, r) == Framed(r.img) /\ Covered(r)
Against(p, old, r) ==
    /\ p.ack = old.seq /\ DOMAIN old.prev = DOMAIN r.img
    /\ \A t \in DOMAIN r.img : old.prev[t] # r.img[t] => \E R \in r.rects : In(R, t)
Quiet(p, old, s, r) ==
    /\ s = old
    /\ \/ r.kind = "error"
       \/ r.kind = "unchanged" /\ ~r.key /\ r.seq = old.seq /\ p.ack = old.seq
Fresh(p, old, s, r) ==
    /\ s.seq = old.seq + 1 /\ r.seq = s.seq /\ r.img = p.img /\ s.prev = p.img
    /\ s.codec = "h264" => s.enc = s.prev
    /\ \/ r.kind = "tiles" /\ (IF r.key THEN Whole(p, r) ELSE Against(p, old, r))
       \/ r.kind = "h264" /\ IF r.key THEN r.au.idr /\ r.au.sps /\ r.au.pps
                             ELSE p.ack = old.seq /\ old.codec = "h264" /\ r.base = old.enc
Sends(p, old, s, r) ==
    /\ DOMAIN s = SessionFields /\ s.seq \in Nat /\ DOMAIN r = ReplyFields /\ r.seq \in Nat
    /\ Quiet(p, old, s, r) \/ Fresh(p, old, s, r)

LEMMA HeaderIs ==
    ASSUME NEW kind, NEW seq, NEW key
    PROVE  /\ DOMAIN Header(kind, seq, key) = ReplyFields
           /\ Header(kind, seq, key).kind = kind /\ Header(kind, seq, key).seq = seq
           /\ Header(kind, seq, key).key = key
  BY DEF Header, ReplyFields

\* A reply of tiles brings a frame whole, or all that changed in it.
LEMMA TilesReplyIs ==
    ASSUME NEW p, Framed(p.img), NEW old, NEW s, DOMAIN s = SessionFields, s.seq \in Nat, s.seq = old.seq,
           s.prev = old.prev, NEW key \in BOOLEAN,
           ~key => p.ack = old.seq /\ DOMAIN old.prev = DOMAIN p.img
    PROVE  LET t == Sent(s, "tiles", p.img)
               r == TilesReply(s, key, p.img)
           IN Sends(p, old, t, r) /\ t.codec = "tiles"
<1> DEFINE t == Sent(s, "tiles", p.img)
           r == TilesReply(s, key, p.img)
           d == Diff(s.prev, p.img)
           full == key \/ MostlyChanged(d, p.img)
           rects == IF full THEN Full(p.img) ELSE Merge(d, p.img)
           n == s.seq + 1
<1>1. t = [s EXCEPT !.seq = n, !.codec = "tiles", !.prev = p.img]
  BY DEF Sent
<1>2. r = [Header("tiles", n, full) EXCEPT !.img = p.img, !.rects = rects]
  BY DEF TilesReply
<1>3. n \in Nat /\ n = old.seq + 1
  OBVIOUS
<1>4. \A u \in DOMAIN p.img : u \in d <=> s.prev[u] # p.img[u]
  BY DEF Diff
<1>5. d \in SUBSET DOMAIN p.img
  BY DEF Diff
<1>6. full \in BOOLEAN
  BY DEF MostlyChanged
<1> HIDE DEF d, n
<1>7. full => \A u \in DOMAIN p.img : \E R \in rects : In(R, u)
  BY FullCovers
<1>8. ~full => \A u \in d : \E R \in rects : In(R, u)
  BY <1>5, MergeCovers
<1>9. ~full => ~key
  OBVIOUS
<1> HIDE DEF t, r, full, rects
<1>10. DOMAIN t = SessionFields /\ t.seq = n /\ t.codec = "tiles" /\ t.prev = p.img
  BY <1>1 DEF SessionFields
<1>11. DOMAIN r = ReplyFields /\ r.kind = "tiles" /\ r.seq = n /\ r.img = p.img /\ r.rects = rects /\ r.key = full
  BY <1>2, HeaderIs DEF ReplyFields
<1>12. CASE full
  <2>1. r.key
    BY <1>11, <1>12
  <2>2. Whole(p, r)
    BY <1>7, <1>11, <1>12 DEF Whole, Covered
  <2>3. Fresh(p, old, t, r)
    BY <1>3, <1>10, <1>11, <2>1, <2>2 DEF Fresh
  <2> QED BY <1>3, <1>10, <1>11, <2>3 DEF Sends, t, r
<1>13. CASE ~full
  <2>1. ~r.key
    BY <1>11, <1>13
  <2>2. Against(p, old, r)
    BY <1>4, <1>8, <1>9, <1>11, <1>13 DEF Against
  <2>3. Fresh(p, old, t, r)
    BY <1>3, <1>10, <1>11, <2>1, <2>2 DEF Fresh
  <2> QED BY <1>3, <1>10, <1>11, <2>3 DEF Sends, t, r
<1> QED BY <1>12, <1>13

LEMMA NeedsKeyIs ==
    ASSUME NEW p, NEW s, NEW codec, ~NeedsKey(p, s, codec)
    PROVE  p.ack = s.seq /\ s.codec = codec /\ DOMAIN s.prev = DOMAIN p.img
  BY DEF NeedsKey

LEMMA KeyBoolean == \A p, s, codec : NeedsKey(p, s, codec) \in BOOLEAN
  BY DEF NeedsKey

LEMMA CapturedIs ==
    ASSUME Shape, NEW c \in Calls, req[c].pc = "captured"
    PROVE  LET s == sess[req[c].sess]
           IN DOMAIN s = SessionFields /\ s.seq \in Nat /\ Framed(req[c].img)
<1>1. req[c].sess \in Sessions /\ Framed(req[c].img)
  BY DEF Shape, ReqOK, Asking
<1> QED BY <1>1 DEF Shape, SessOK

LEMMA UnchangedSends ==
    ASSUME Shape, NEW c \in Calls, AnswerUnchanged(c)
    PROVE  \E s, r : Answer(c, s, r) /\ Sends(req[c], sess[req[c].sess], s, r)
<1> DEFINE p == req[c]
           s == sess[p.sess]
           codec == CodecFor(p, s)
           r == Header("unchanged", s.seq, FALSE)
<1>1. p.pc = "captured" /\ ~NeedsKey(p, s, codec) /\ Answer(c, s, r)
  BY DEF AnswerUnchanged, Unchanged
<1>2. DOMAIN s = SessionFields /\ s.seq \in Nat
  BY <1>1, CapturedIs
<1> HIDE DEF p, s
<1>3. r.kind = "unchanged" /\ r.key = FALSE /\ r.seq = s.seq /\ DOMAIN r = ReplyFields
  BY DEF Header, ReplyFields
<1> HIDE DEF r
<1>4. Quiet(p, s, s, r)
  BY <1>1, <1>3, NeedsKeyIs DEF Quiet
<1>5. Sends(p, s, s, r)
  BY <1>2, <1>3, <1>4 DEF Sends
<1> QED BY <1>1, <1>5 DEF p, s, r

LEMMA ErrorSends ==
    ASSUME Shape, NEW c \in Calls, AnswerError(c)
    PROVE  \E s, r : Answer(c, s, r) /\ Sends(req[c], sess[req[c].sess], s, r)
<1> DEFINE p == req[c]
           s == sess[p.sess]
           r == Header("error", 0, FALSE)
<1>1. p.pc = "captured" /\ Answer(c, s, r)
  BY DEF AnswerError
<1>2. DOMAIN s = SessionFields /\ s.seq \in Nat
  BY <1>1, CapturedIs
<1> HIDE DEF p, s
<1>3. r.kind = "error" /\ r.seq = 0 /\ DOMAIN r = ReplyFields
  BY DEF Header, ReplyFields
<1> HIDE DEF r
<1>4. Quiet(p, s, s, r)
  BY <1>3 DEF Quiet
<1>5. Sends(p, s, s, r)
  BY <1>2, <1>3, <1>4 DEF Sends
<1> QED BY <1>1, <1>5 DEF p, s, r

LEMMA TilesSends ==
    ASSUME Shape, NEW c \in Calls, AnswerTiles(c)
    PROVE  \E s, r : Answer(c, s, r) /\ Sends(req[c], sess[req[c].sess], s, r)
<1> DEFINE p == req[c]
           s == sess[p.sess]
           codec == CodecFor(p, s)
           key == NeedsKey(p, s, codec)
<1>1. p.pc = "captured" /\ codec = "tiles" /\ Answer(c, Sent(s, codec, p.img), TilesReply(s, key, p.img))
  BY DEF AnswerTiles
<1>2. DOMAIN s = SessionFields /\ s.seq \in Nat /\ Framed(p.img)
  BY <1>1, CapturedIs
<1>3. key \in BOOLEAN /\ (~key => p.ack = s.seq /\ DOMAIN s.prev = DOMAIN p.img)
  BY KeyBoolean, NeedsKeyIs
<1>4. Answer(c, Sent(s, "tiles", p.img), TilesReply(s, key, p.img))
  BY <1>1
<1> HIDE DEF p, s, key
<1>5. Sends(p, s, Sent(s, "tiles", p.img), TilesReply(s, key, p.img))
  BY <1>2, <1>3, TilesReplyIs
<1> QED BY <1>4, <1>5 DEF p, s

\* An access unit that says it is a key frame is one, with its parameter sets.
LEMMA ParamSets ==
    ASSUME NEW force \in BOOLEAN, NEW u \in Units(force), force \/ u.idr
    PROVE  LET w == WithParamSets(u) IN w.idr /\ w.sps /\ w.pps
<1>1. u \in [idr : BOOLEAN, sps : BOOLEAN, pps : BOOLEAN] /\ u.idr = TRUE
  BY DEF Units
<1>2. CASE u.sps /\ u.pps
  BY <1>1, <1>2 DEF WithParamSets
<1>3. CASE ~(u.sps /\ u.pps)
  <2>1. WithParamSets(u) = [u EXCEPT !.sps = TRUE, !.pps = TRUE]
    BY <1>1, <1>3 DEF WithParamSets
  <2> QED BY <1>1, <2>1
<1> QED BY <1>2, <1>3

LEMMA VideoSends ==
    ASSUME Shape, NEW c \in Calls, AnswerVideo(c)
    PROVE  \E s, r : Answer(c, s, r) /\ Sends(req[c], sess[req[c].sess], s, r)
<1> DEFINE p == req[c]
           s == sess[p.sess]
           codec == CodecFor(p, s)
           key == NeedsKey(p, s, codec)
           force == key \/ ~HasEncoder(s, p.img)
           t == [s EXCEPT !.enc = None, !.h264_failed = TRUE]
           Next264(u) == [Sent(s, codec, p.img) EXCEPT !.enc = p.img]
           Reply264(u) == [Header("h264", s.seq + 1, key \/ force \/ u.idr) EXCEPT
                              !.img = p.img, !.base = s.enc, !.au = WithParamSets(u)]
<1>1. p.pc = "captured" /\ codec = "h264"
  BY DEF AnswerVideo
<1>2. \/ \E u \in Units(force) : Answer(c, Next264(u), Reply264(u))
      \/ Answer(c, Sent(t, "tiles", p.img), TilesReply(t, TRUE, p.img))
  BY DEF AnswerVideo
<1>3. DOMAIN s = SessionFields /\ s.seq \in Nat /\ Framed(p.img)
  BY <1>1, CapturedIs
<1>4. key \in BOOLEAN /\ force \in BOOLEAN
  BY DEF NeedsKey, HasEncoder
<1>5. ~key => p.ack = s.seq /\ s.codec = "h264"
  BY <1>1, NeedsKeyIs
<1>6. ASSUME NEW u \in Units(force), Answer(c, Next264(u), Reply264(u))
      PROVE  \E s2, r : Answer(c, s2, r) /\ Sends(p, s, s2, r)
  <2> DEFINE whole == key \/ force \/ u.idr
             au == WithParamSets(u)
             n == s.seq + 1
             s2 == Next264(u)
             r == Reply264(u)
  <2>1. s2 = [[s EXCEPT !.seq = n, !.codec = codec, !.prev = p.img] EXCEPT !.enc = p.img]
    BY DEF Sent
  <2>2. r = [Header("h264", n, whole) EXCEPT !.img = p.img, !.base = s.enc, !.au = au]
    OBVIOUS
  <2>3. n \in Nat /\ n = s.seq + 1
    BY <1>3
  <2>4. whole \in BOOLEAN /\ (whole => au.idr /\ au.sps /\ au.pps) /\ (~whole => ~key)
    BY <1>4, ParamSets DEF Units
  <2>5. Answer(c, s2, r)
    BY <1>6
  <2> HIDE DEF whole, au, n, s2, r, key, force, p, s, codec
  <2>6. DOMAIN s2 = SessionFields /\ s2.seq = n /\ s2.prev = p.img /\ s2.enc = p.img
    BY <1>3, <2>1 DEF SessionFields
  <2>7. /\ DOMAIN r = ReplyFields /\ r.kind = "h264" /\ r.seq = n /\ r.img = p.img /\ r.base = s.enc
        /\ r.au = au /\ r.key = whole
    BY <2>2 DEF Header, ReplyFields
  <2>8. CASE whole
    <3>1. r.key /\ r.au.idr /\ r.au.sps /\ r.au.pps
      BY <2>4, <2>7, <2>8
    <3>2. Fresh(p, s, s2, r)
      BY <2>3, <2>6, <2>7, <3>1 DEF Fresh
    <3>3. Sends(p, s, s2, r)
      BY <2>3, <2>6, <2>7, <3>2 DEF Sends
    <3> QED BY <2>5, <3>3
  <2>9. CASE ~whole
    <3>1. ~r.key /\ p.ack = s.seq /\ s.codec = "h264"
      BY <1>5, <2>4, <2>7, <2>9
    <3>2. Fresh(p, s, s2, r)
      BY <2>3, <2>6, <2>7, <3>1 DEF Fresh
    <3>3. Sends(p, s, s2, r)
      BY <2>3, <2>6, <2>7, <3>2 DEF Sends
    <3> QED BY <2>5, <3>3
  <2> QED BY <2>8, <2>9
<1>7. ASSUME Answer(c, Sent(t, "tiles", p.img), TilesReply(t, TRUE, p.img))
      PROVE  \E s2, r : Answer(c, s2, r) /\ Sends(p, s, s2, r)
  <2> HIDE DEF p, s
  <2>1. DOMAIN t = SessionFields /\ t.seq = s.seq /\ t.prev = s.prev
    BY <1>3 DEF SessionFields
  <2> HIDE DEF t
  <2>2. Sends(p, s, Sent(t, "tiles", p.img), TilesReply(t, TRUE, p.img))
    BY <1>3, <2>1, TilesReplyIs
  <2> QED BY <1>7, <2>2
<1> QED BY <1>2, <1>6, <1>7

\* Every answer sends something, and keeps the types.
Responds(c) == Respond(c) \/ (AnswerError(c) /\ UNCHANGED left)

LEMMA RespondIs ==
    ASSUME Shape, NEW c \in Calls, Responds(c)
    PROVE  /\ req[c].pc = "captured" /\ left' \in [Bounds -> Nat]
           /\ \E s, r : Answer(c, s, r) /\ Sends(req[c], sess[req[c].sess], s, r)
<1>0. left \in [Bounds -> Nat] /\ "faults" \in Bounds
  BY DEF Shape, DeviceOK, Bounds
<1>1. CASE AnswerUnchanged(c)
  BY <1>0, <1>1, UnchangedSends DEF AnswerUnchanged
<1>2. CASE AnswerTiles(c)
  BY <1>0, <1>2, TilesSends DEF AnswerTiles
<1>3. CASE AnswerVideo(c)
  <2>1. left' \in [Bounds -> Nat]
    <3>1. UNCHANGED left \/ Spend("faults")
      BY <1>3 DEF AnswerVideo
    <3> QED BY <1>0, <3>1, SpendType
  <2>2. req[c].pc = "captured"
    BY <1>3 DEF AnswerVideo
  <2> QED BY <1>3, <2>1, <2>2, VideoSends
<1>4. CASE AnswerError(c) /\ (Spend("faults") \/ UNCHANGED left)
  <2>1. left' \in [Bounds -> Nat]
    BY <1>0, <1>4, SpendType
  <2>2. req[c].pc = "captured"
    BY <1>4 DEF AnswerError
  <2> QED BY <1>4, <2>1, <2>2, ErrorSends
<1> QED BY <1>1, <1>2, <1>3, <1>4 DEF Responds, Respond

LEMMA RespondOK ==
    ASSUME Shape, NEW c \in Calls, Responds(c), UNCHANGED <<console, slot, helper>>
    PROVE  Shape' /\ UNCHANGED table
<1>1. PICK s, r : Answer(c, s, r) /\ Sends(req[c], sess[req[c].sess], s, r)
  BY RespondIs
<1>2. /\ DOMAIN s = SessionFields /\ s.seq \in Nat /\ req[c].pc = "captured" /\ left' \in [Bounds -> Nat]
      /\ DOMAIN r = ReplyFields /\ r.seq \in Nat /\ r.kind \in Kinds
  BY <1>1, RespondIs DEF Sends, Quiet, Fresh, Kinds
<1> QED BY <1>1, <1>2, AnswerOK

LEMMA AppliedIs ==
    ASSUME NEW o, Watching(o), NEW r, Replied(r)
    PROVE  /\ Watching(Applied(o, r))
           /\ r.kind = "error" => Applied(o, r) = o
           /\ r.kind # "error" =>
                /\ Applied(o, r).ack = r.seq /\ Applied(o, r).of = r.of
                /\ Applied(o, r).stale = (~r.key /\ (o.stale \/ o.of # r.of))
           /\ r.kind = "unchanged" => Applied(o, r).canvas = o.canvas /\ Applied(o, r).garbled = o.garbled
           /\ r.kind = "tiles" => /\ Applied(o, r).canvas = Drawn(o.canvas, r)
                                  /\ Applied(o, r).garbled = (o.garbled /\ ~r.key)
           /\ r.kind = "h264" => /\ Applied(o, r).canvas = r.img
                                 /\ Applied(o, r).garbled = IF r.key THEN ~(r.au.idr /\ r.au.sps /\ r.au.pps)
                                                            ELSE o.garbled \/ o.canvas # r.base
<1> DEFINE new == [o EXCEPT !.ack = r.seq, !.of = r.of, !.stale = ~r.key /\ (@ \/ o.of # r.of)]
<1>1. /\ Watching(new) /\ new.ack = r.seq /\ new.of = r.of /\ new.canvas = o.canvas /\ new.garbled = o.garbled
      /\ new.stale = (~r.key /\ (o.stale \/ o.of # r.of))
  BY DEF Watching, ViewerFields, Replied
<1> HIDE DEF new
<1>2. CASE r.kind = "error"
  <2>1. Applied(o, r) = o
    BY <1>2 DEF Applied
  <2> QED BY <1>2, <2>1
<1>3. CASE r.kind = "unchanged"
  <2>1. Applied(o, r) = new
    BY <1>3 DEF Applied, new
  <2> QED BY <1>1, <1>3, <2>1
<1>4. CASE r.kind = "tiles"
  <2> DEFINE g == o.garbled /\ ~r.key
             d == Drawn(o.canvas, r)
  <2>1. Applied(o, r) = [new EXCEPT !.canvas = d, !.garbled = g]
    <3>1. Applied(o, r) = [new EXCEPT !.canvas = Drawn(o.canvas, r), !.garbled = @ /\ ~r.key]
      BY <1>4 DEF Applied, new
    <3> QED BY <1>1, <3>1
  <2> HIDE DEF g, d
  <2>2. /\ Watching(Applied(o, r)) /\ Applied(o, r).ack = new.ack /\ Applied(o, r).of = new.of
        /\ Applied(o, r).stale = new.stale /\ Applied(o, r).canvas = d /\ Applied(o, r).garbled = g
    BY <1>1, <2>1 DEF Watching, ViewerFields
  <2> QED BY <1>1, <1>4, <2>2 DEF g, d
<1>5. CASE r.kind = "h264"
  <2> DEFINE g == IF r.key THEN ~(r.au.idr /\ r.au.sps /\ r.au.pps) ELSE o.garbled \/ o.canvas # r.base
  <2>1. Applied(o, r) = [new EXCEPT !.canvas = r.img, !.garbled = g]
    <3>1. Applied(o, r) = [new EXCEPT !.canvas = r.img,
                !.garbled = IF r.key THEN ~(r.au.idr /\ r.au.sps /\ r.au.pps) ELSE @ \/ o.canvas # r.base]
      BY <1>5 DEF Applied, new
    <3> QED BY <1>1, <3>1
  <2> HIDE DEF g
  <2>2. /\ Watching(Applied(o, r)) /\ Applied(o, r).ack = new.ack /\ Applied(o, r).of = new.of
        /\ Applied(o, r).stale = new.stale /\ Applied(o, r).canvas = r.img /\ Applied(o, r).garbled = g
    BY <1>1, <2>1 DEF Watching, ViewerFields
  <2> QED BY <1>1, <1>5, <2>2 DEF g
<1> QED BY <1>2, <1>3, <1>4, <1>5 DEF Replied, Kinds

LEMMA DeliverOK ==
    ASSUME Shape, NEW c \in Calls, Deliver(c), UNCHANGED <<console, slot, helper>>
    PROVE  /\ Shape' /\ OneRequest(c) /\ req'[c] = NoRequest /\ UNCHANGED <<table, sess>>
           /\ req[c].pc = "done" /\ req[c].v \in Viewers
           /\ viewer'[req[c].v] = Applied(viewer[req[c].v], req[c].reply)
           /\ \A u \in Viewers \ {req[c].v} : viewer'[u] = viewer[u]
<1>1. /\ req[c].pc = "done" /\ req' = [req EXCEPT ![c] = NoRequest]
      /\ viewer' = [viewer EXCEPT ![req[c].v] = Applied(@, req[c].reply)]
      /\ UNCHANGED <<world, screen, table, sess, hook, left>>
  BY DEF Deliver
<1>2. ReqOK /\ ViewerOK /\ Asking(req[c]) /\ req[c].v \in Viewers /\ Replied(req[c].reply)
  BY <1>1 DEF Shape, ReqOK, Asking
<1>3. OneRequest(c) /\ req'[c] = NoRequest
  BY <1>1, <1>2 DEF OneRequest, ReqOK
<1>4. ReqOK'
  BY <1>2, <1>3, OneAsks, NobodyAsks
<1>5. /\ viewer'[req[c].v] = Applied(viewer[req[c].v], req[c].reply)
      /\ \A u \in Viewers \ {req[c].v} : viewer'[u] = viewer[u]
      /\ DOMAIN viewer' = Viewers
  BY <1>1, <1>2 DEF ViewerOK
<1>6. ViewerOK'
  BY <1>2, <1>5, AppliedIs DEF ViewerOK
<1>7. SessOK' /\ DeviceOK' /\ TableOK' /\ SlotOK'
  BY <1>1 DEF Shape, SessOK, DeviceOK, TableOK, SlotOK
<1> QED BY <1>1, <1>2, <1>3, <1>4, <1>5, <1>6, <1>7 DEF Shape

LEMMA PaintOK ==
    ASSUME Shape, Paint, UNCHANGED <<console, slot, helper>>
    PROVE  Shape' /\ UNCHANGED <<table, sess, req, viewer>>
<1>1. PICK g \in world.grids : \E f \in [g -> {0, 1}] : screen' = f
  BY DEF Paint
<1>2. Spend("paints") /\ UNCHANGED <<world, table, sess, req, viewer>>
  BY DEF Paint
<1>3. IsGrid(g)
  BY <1>1, ScreenAssumption DEF Shape, DeviceOK, IsDevice
<1>4. Framed(screen')
  BY <1>1, <1>3, FramedIfGrid
<1>5. left' \in [Bounds -> Nat]
  BY <1>2, SpendType DEF Shape, DeviceOK, Bounds
<1>6. ReqOK' /\ ViewerOK' /\ SessOK' /\ DeviceOK' /\ TableOK' /\ SlotOK'
  BY <1>2, <1>4, <1>5 DEF Shape, ReqOK, ViewerOK, SessOK, DeviceOK, TableOK, SlotOK, Asking, Watching
<1> QED BY <1>2, <1>6 DEF Shape

LEMMA RestartAgentOK ==
    ASSUME Shape, RestartAgent, UNCHANGED <<console, slot, helper>>
    PROVE  Moved /\ SlotOK'
<1>1. Spend("restarts") /\ table' = <<>> /\ req' = Lost /\ UNCHANGED <<world, screen, sess, viewer>>
  BY DEF RestartAgent
<1>2. left' \in [Bounds -> Nat]
  BY <1>1, SpendType DEF Shape, DeviceOK, Bounds
<1>3. DOMAIN req' = Calls /\ \A c \in Calls : Later(req[c], req'[c])
  BY <1>1 DEF Lost, Later
<1> QED BY <1>1, <1>2, <1>3 DEF Moved, Shape, SlotOK

LEMMA ShapeInit == Init => Shape /\ TableInv /\ AckInv
<1> SUFFICES ASSUME Init PROVE Shape /\ TableInv /\ AckInv
  OBVIOUS
<1> USE DEF Init, ScreenInit
<1>1. IsDevice(world)
  BY ScreenAssumption
<1>2. ReqOK
  <2>1. req = [c \in Calls |-> NoRequest]
    OBVIOUS
  <2> QED BY <2>1, NobodyAsks DEF ReqOK
<1>3. ViewerOK
  <2>1. \A v \in Viewers : viewer[v] = [NoViewer EXCEPT !.codec = world.codec, !.w = world.width]
    OBVIOUS
  <2>2. world.codec \in Codecs /\ world.width \in Nat \ {0}
    BY <1>1 DEF IsDevice
  <2>3. \A v \in Viewers : Watching(viewer[v])
    BY <2>1, <2>2 DEF Watching, NoViewer, ViewerFields
  <2> QED BY <2>3 DEF ViewerOK
<1>4. SessOK
  BY DEF SessOK, NoSession, SessionFields
<1>5. Framed(screen)
  BY <1>1, FramedIfGrid DEF IsDevice
<1>6. DeviceOK
  BY <1>1, <1>5 DEF DeviceOK, IsDevice
<1>7. TableOK /\ TableInv
  <2>1. table = <<>> /\ Len(table) = 0 /\ DOMAIN table = {}
    OBVIOUS
  <2>2. <<>> \in Seq([sid : Viewers, sess : Sessions])
    OBVIOUS
  <2> QED BY <2>1, <2>2, ScreenAssumption DEF TableOK, TableInv
<1>8. SlotOK
  BY DEF SlotOK, SlotType, HelperType, FreshSlot, NoHelper
<1>9. AckInv
  <2>1. \A v \in Viewers : viewer[v].of = None
    BY DEF NoViewer
  <2>2. \A c \in Calls : req[c].pc = "off" /\ ~req[c].heard
    BY DEF NoRequest
  <2>3. \A s \in Sessions : sess[s].codec = None /\ sess[s].enc = sess[s].prev
    BY DEF NoSession
  <2> QED BY <2>1, <2>2, <2>3, ScreenAssumption
         DEF AckInv, Currents, AsksWhatItHas, OneAtATime, EncodesPrev, RepliesSound, Before, SlotSteps
<1> QED BY <1>2, <1>3, <1>4, <1>6, <1>7, <1>8, <1>9 DEF Shape

\* Every step moves the helpers and their clients on, or is one of Screen.
OthersMove == \/ \E c \in Calls : OfClient(c) \/ TimesOut(c)
              \/ \E h \in Pids : Around(h)
              \/ CoolDown \/ ConsoleMoves \/ RestartService

LEMMA Steps ==
    ASSUME Next
    PROVE  \/ OthersMove
           \/ /\ UNCHANGED <<console, slot, helper>>
              /\ \/ \E v \in Viewers : Asks(v) \/ GiveUp(v) \/ Switch(v)
                 \/ \E c \in Calls : SessionFor(c) \/ Capture(c) \/ Deliver(c) \/ Responds(c)
                 \/ Paint \/ RestartAgent
  BY DEF Next, OthersMove, Around, OfScreen, Responds

LEMMA OthersOK ==
    ASSUME Shape, OthersMove
    PROVE  Moved /\ SlotOK'
  BY ClientOK, AroundOK, OutsideOK DEF OthersMove

LEMMA MovedTable ==
    ASSUME TableInv, Moved
    PROVE  TableInv'
<1>1. CASE table' = table
  BY <1>1 DEF TableInv
<1>2. CASE table' = <<>>
  <2>1. Len(table') = 0 /\ DOMAIN table' = {}
    BY <1>2
  <2> QED BY <2>1, ScreenAssumption DEF TableInv
<1> QED BY <1>1, <1>2 DEF Moved

LEMMA ShapeStep ==
    ASSUME Shape, TableInv, [Next]_vars
    PROVE  Shape' /\ TableInv'
<1>1. CASE UNCHANGED vars
  <2>1. ReqOK' /\ ViewerOK' /\ SessOK' /\ DeviceOK' /\ TableOK' /\ SlotOK' /\ TableInv'
    BY <1>1 DEF vars, screenVars, Shape, ReqOK, ViewerOK, SessOK, DeviceOK, TableOK, SlotOK, Asking, Watching,
                Replied, TableInv
  <2> QED BY <2>1 DEF Shape
<1>2. CASE OthersMove
  BY <1>2, OthersOK, MovedShape, MovedTable
<1>3. CASE UNCHANGED <<console, slot, helper>> /\ \E v \in Viewers : Asks(v) \/ GiveUp(v) \/ Switch(v)
  <2>1. PICK v \in Viewers : Asks(v) \/ GiveUp(v) \/ Switch(v)
    BY <1>3
  <2>2. Shape'
    BY <1>3, <2>1, AskOK, GiveUpOK, SwitchOK
  <2>3. UNCHANGED table
    BY <2>1 DEF Asks, Ask, GiveUp, Switch
  <2> QED BY <2>2, <2>3 DEF TableInv
<1>4. CASE UNCHANGED <<console, slot, helper>> /\ \E c \in Calls : Capture(c) \/ Deliver(c) \/ Responds(c)
  <2>1. PICK c \in Calls : Capture(c) \/ Deliver(c) \/ Responds(c)
    BY <1>4
  <2>2. Shape' /\ UNCHANGED table
    BY <1>4, <2>1, CaptureOK, DeliverOK, RespondOK
  <2> QED BY <2>2 DEF TableInv
<1>5. CASE UNCHANGED <<console, slot, helper>> /\ \E c \in Calls : SessionFor(c)
  BY <1>5, SessionForOK
<1>6. CASE UNCHANGED <<console, slot, helper>> /\ Paint
  BY <1>6, PaintOK DEF TableInv
<1>7. CASE UNCHANGED <<console, slot, helper>> /\ RestartAgent
  BY <1>7, RestartAgentOK, MovedShape, MovedTable
<1> QED BY <1>1, <1>2, <1>3, <1>4, <1>5, <1>6, <1>7, Steps

\* A frame a viewer draws the reply onto is the frame that was sent.
LEMMA DrawnWhole ==
    ASSUME NEW r, r.key, Framed(r.img), Covered(r), NEW canvas
    PROVE  Drawn(canvas, r) = r.img
<1>1. PICK m \in Nat \ {0}, n \in Nat \ {0} : r.img \in [Grid(m, n) -> {0, 1}]
  BY DEF Framed
<1>2. Drawn(canvas, r) = [t \in DOMAIN r.img |-> r.img[t]]
  BY DEF Drawn, Covered
<1> QED BY <1>1, <1>2

LEMMA DrawnAgainst ==
    ASSUME NEW r, ~r.key, Framed(r.img), NEW canvas, DOMAIN canvas = DOMAIN r.img,
           \A t \in DOMAIN r.img : canvas[t] # r.img[t] => \E R \in r.rects : In(R, t)
    PROVE  Drawn(canvas, r) = r.img
<1>1. PICK m \in Nat \ {0}, n \in Nat \ {0} : r.img \in [Grid(m, n) -> {0, 1}]
  BY DEF Framed
<1>2. Drawn(canvas, r) = [t \in DOMAIN canvas |->
        IF t \in DOMAIN r.img /\ \E R \in r.rects : In(R, t) THEN r.img[t] ELSE canvas[t]]
  BY DEF Drawn
<1>3. Drawn(canvas, r) = [t \in DOMAIN r.img |-> r.img[t]]
  BY <1>2
<1> QED BY <1>1, <1>3
\* It lasts while sessions stay, requests move on and no viewer gets anything.
Kept(p, q) ==
    /\ q.heard => p.heard /\ q.v = p.v
    /\ q.pc = "done" => q = p
    /\ q.heard /\ q.pc \in Before => p.pc \in Before /\ q.ack = p.ack
SameSight(o, n) ==
    n.ack = o.ack /\ n.of = o.of /\ n.canvas = o.canvas /\ n.garbled = o.garbled /\ n.stale = o.stale

LEMMA AckKept ==
    ASSUME Shape, AckInv, UNCHANGED sess,
           \A v \in Viewers : SameSight(viewer[v], viewer'[v]), \A c \in Calls : Kept(req[c], req'[c])
    PROVE  AckInv'
<1>1. \A c \in Calls : req[c].pc = "done" \/ req[c].heard => req[c].v \in Viewers
  BY DEF Shape, ReqOK, Asking
<1>2. Currents' /\ EncodesPrev'
  BY DEF AckInv, Currents, EncodesPrev, Current, SameSight
<1>3. AsksWhatItHas' /\ OneAtATime'
  BY <1>1 DEF AckInv, AsksWhatItHas, OneAtATime, Kept, SameSight
<1>4. RepliesSound'
  BY <1>1 DEF AckInv, RepliesSound, Sound, Fits, Kept, SameSight
<1> QED BY <1>2, <1>3, <1>4 DEF AckInv

LEMMA LaterKept ==
    ASSUME NEW p, NEW q, Later(p, q)
    PROVE  Kept(p, q)
  BY NobodyAsks DEF Later, Kept, Before, SlotSteps

LEMMA SameKept == \A p : Kept(p, p)
  BY DEF Kept

LEMMA AckMoved ==
    ASSUME Shape, AckInv, Moved
    PROVE  AckInv'
<1>1. UNCHANGED <<sess, viewer>> /\ \A c \in Calls : Kept(req[c], req'[c])
  BY LaterKept DEF Moved
<1>2. \A v \in Viewers : SameSight(viewer[v], viewer'[v])
  BY <1>1 DEF SameSight
<1> QED BY <1>1, <1>2, AckKept

LEMMA AckAsk ==
    ASSUME Shape, AckInv, NEW v \in Viewers, Asks(v)
    PROVE  AckInv'
<1> DEFINE pc == IF world.session0 THEN "asked" ELSE "here"
           q == [NoRequest EXCEPT !.pc = pc, !.v = v, !.heard = TRUE, !.ack = viewer[v].ack,
                                  !.codec = viewer[v].codec, !.w = viewer[v].w]
<1>1. PICK c \in Calls : req[c].pc = "off" /\ req' = [req EXCEPT ![c] = q]
  BY DEF Asks, Ask
<1>2. UNCHANGED <<sess, viewer>> /\ ~Waits(v)
  BY DEF Asks, Ask
<1>3. q.pc \in {"asked", "here"} /\ q.v = v /\ q.ack = viewer[v].ack
  BY DEF NoRequest
<1> HIDE DEF q
<1>4. req'[c] = q /\ \A d \in Calls \ {c} : req'[d] = req[d]
  BY <1>1 DEF Shape, ReqOK
<1>5. Currents' /\ EncodesPrev'
  BY <1>2 DEF AckInv, Currents, EncodesPrev, Current
<1>6. AsksWhatItHas'
  BY <1>2, <1>3, <1>4 DEF AckInv, AsksWhatItHas
<1>7. OneAtATime'
  BY <1>2, <1>3, <1>4 DEF AckInv, OneAtATime, Waits
<1>8. RepliesSound'
  BY <1>2, <1>3, <1>4 DEF AckInv, RepliesSound, Sound, Fits
<1> QED BY <1>5, <1>6, <1>7, <1>8 DEF AckInv

LEMMA AckGiveUp ==
    ASSUME Shape, AckInv, NEW v \in Viewers, GiveUp(v)
    PROVE  AckInv'
<1>1. PICK c \in Calls : req' = [req EXCEPT ![c] = IF @.pc = "done" THEN NoRequest ELSE [req[c] EXCEPT !.heard = FALSE]]
  BY DEF GiveUp
<1>2. UNCHANGED <<sess, viewer>>
  BY DEF GiveUp
<1>3. ReqOK /\ Asking(req[c])
  BY DEF Shape, ReqOK
<1>4. ASSUME NEW d \in Calls PROVE Kept(req[d], req'[d])
  <2>1. CASE d # c
    <3>1. req'[d] = req[d]
      BY <1>1, <1>3, <2>1 DEF ReqOK
    <3> QED BY <3>1, SameKept
  <2>2. CASE d = c /\ req[c].pc = "done"
    <3>1. req'[d] = NoRequest
      BY <1>1, <1>3, <2>2 DEF ReqOK
    <3> QED BY <3>1, NobodyAsks DEF Kept, Before, SlotSteps
  <2>3. CASE d = c /\ req[c].pc # "done"
    <3>1. req'[d] = [req[c] EXCEPT !.heard = FALSE]
      BY <1>1, <1>3, <2>3 DEF ReqOK
    <3>2. ~req'[d].heard /\ req'[d].pc = req[c].pc
      BY <1>3, <3>1 DEF Asking, ReqFields
    <3> QED BY <2>3, <3>2 DEF Kept
  <2> QED BY <2>1, <2>2, <2>3
<1>5. \A u \in Viewers : SameSight(viewer[u], viewer'[u])
  BY <1>2 DEF SameSight
<1> QED BY <1>2, <1>4, <1>5, AckKept

LEMMA AckSwitch ==
    ASSUME Shape, AckInv, NEW v \in Viewers, Switch(v), UNCHANGED <<console, slot, helper>>
    PROVE  AckInv'
<1>1. UNCHANGED <<sess, req>> /\ \A u \in Viewers : SameSight(viewer[u], viewer'[u])
  BY SwitchOK DEF SameSight
<1> QED BY <1>1, SameKept, AckKept

LEMMA AckCapture ==
    ASSUME Shape, AckInv, NEW c \in Calls, Capture(c), UNCHANGED <<console, slot, helper>>
    PROVE  AckInv'
<1>1. /\ OneRequest(c) /\ UNCHANGED <<sess, viewer>> /\ req[c].pc = "have" /\ req'[c].pc = "captured"
      /\ req'[c].v = req[c].v /\ req'[c].heard = req[c].heard /\ req'[c].ack = req[c].ack
  BY CaptureOK
<1>2. \A d \in Calls : Kept(req[d], req'[d])
  BY <1>1, SameKept DEF OneRequest, Kept, Before, SlotSteps
<1>3. \A u \in Viewers : SameSight(viewer[u], viewer'[u])
  BY <1>1 DEF SameSight
<1> QED BY <1>1, <1>2, <1>3, AckKept

\* An object that session_for makes anew has no reply of it anywhere.
LEMMA AckSessionFor ==
    ASSUME Shape, TableInv, AckInv, NEW c \in Calls, SessionFor(c)
    PROVE  AckInv'
<1>1. /\ sess' = [x \in Sessions |-> IF x \in Unused THEN NoSession ELSE sess[x]]
      /\ viewer' = [v \in Viewers |-> IF viewer[v].of \in Unused THEN [viewer[v] EXCEPT !.of = None] ELSE viewer[v]]
      /\ req[c].pc = "here"
  BY DEF SessionFor
<1>2. PICK s \in Sessions : req' = [req EXCEPT ![c].pc = "have", ![c].sess = s]
  BY SessionForTable
<1>3. ReqOK /\ Asking(req[c])
  BY DEF Shape, ReqOK
<1>4. \A d \in Calls : Kept(req[d], req'[d])
  <2>1. OneRequest(c) /\ req'[c] = [req[c] EXCEPT !.pc = "have", !.sess = s]
    BY <1>2, <1>3 DEF OneRequest, ReqOK
  <2>2. /\ req'[c].v = req[c].v /\ req'[c].heard = req[c].heard /\ req'[c].ack = req[c].ack /\ req'[c].pc = "have"
    BY <1>3, <2>1 DEF Asking, ReqFields
  <2> QED BY <1>1, <2>1, <2>2, SameKept DEF OneRequest, Kept, Before, SlotSteps
<1>5. ASSUME NEW v \in Viewers
      PROVE  /\ viewer'[v].ack = viewer[v].ack /\ viewer'[v].canvas = viewer[v].canvas
             /\ viewer'[v].garbled = viewer[v].garbled /\ viewer'[v].stale = viewer[v].stale
             /\ viewer'[v].of = IF viewer[v].of \in Unused THEN None ELSE viewer[v].of
  <2>1. \A o : Watching(o) => /\ [o EXCEPT !.of = None].ack = o.ack /\ [o EXCEPT !.of = None].canvas = o.canvas
                              /\ [o EXCEPT !.of = None].garbled = o.garbled
                              /\ [o EXCEPT !.of = None].stale = o.stale /\ [o EXCEPT !.of = None].of = None
    BY DEF Watching, ViewerFields
  <2>2. viewer'[v] = IF viewer[v].of \in Unused THEN [viewer[v] EXCEPT !.of = None] ELSE viewer[v]
    BY <1>1
  <2>3. Watching(viewer[v])
    BY DEF Shape, ViewerOK
  <2> QED BY <2>1, <2>2, <2>3
<1>6. Currents'
  <2> SUFFICES ASSUME NEW v \in Viewers, viewer'[v].of \in Sessions PROVE Current(viewer'[v], sess'[viewer'[v].of])
    BY DEF Currents
  <2>1. viewer[v].of \notin Unused /\ viewer'[v].of = viewer[v].of /\ sess'[viewer'[v].of] = sess[viewer[v].of]
    <3>1. viewer[v].of \notin Unused /\ viewer'[v].of = viewer[v].of
      BY <1>5, ScreenAssumption
    <3> QED BY <1>1, <3>1
  <2>2. Current(viewer[v], sess[viewer[v].of])
    BY <2>1 DEF AckInv, Currents
  <2> QED BY <1>5, <2>1, <2>2 DEF Current
<1>7. EncodesPrev'
  BY <1>1 DEF AckInv, EncodesPrev, NoSession
<1>8. \A d \in Calls : req[d].pc = "done" \/ req[d].heard => req[d].v \in Viewers
  BY DEF Shape, ReqOK, Asking
<1>9. AsksWhatItHas' /\ OneAtATime'
  BY <1>4, <1>5, <1>8 DEF AckInv, AsksWhatItHas, OneAtATime, Kept
<1>10. RepliesSound'
  <2> SUFFICES ASSUME NEW d \in Calls, req'[d].pc = "done" PROVE Sound(req[d].v, req[d].reply)'
    BY DEF RepliesSound
  <2>1. req'[d] = req[d] /\ Sound(req[d].v, req[d].reply) /\ req[d].v \in Viewers /\ Replied(req[d].reply)
    BY <1>4, <1>8 DEF Kept, AckInv, RepliesSound, Shape, ReqOK, Asking
  <2>2. req[d].reply.of \notin Unused /\ req[d].reply.of \in Sessions
    BY <2>1 DEF Unused, Replied
  <2>3. sess'[req[d].reply.of] = sess[req[d].reply.of]
    BY <1>1, <2>2
  <2>4. Fits(viewer'[req[d].v], req[d].reply) => Fits(viewer[req[d].v], req[d].reply)
    BY <1>5, <2>1, <2>2, ScreenAssumption DEF Fits
  <2> QED BY <1>5, <2>1, <2>3, <2>4 DEF Sound
<1> QED BY <1>6, <1>7, <1>9, <1>10 DEF AckInv

\* A viewer that draws what it is sent has the frame of that number.
LEMMA AppliedCurrent ==
    ASSUME Shape, AckInv, NEW v \in Viewers, NEW r, Replied(r), Sound(v, r), r.kind # "error"
    PROVE  Current(Applied(viewer[v], r), sess[r.of])
<1> DEFINE o == viewer[v]
           n == Applied(o, r)
           s == sess[r.of]
<1>1. Watching(o)
  BY DEF Shape, ViewerOK
<1>2. /\ n.ack = r.seq /\ n.stale = (~r.key /\ (o.stale \/ o.of # r.of))
      /\ r.kind = "unchanged" => n.canvas = o.canvas /\ n.garbled = o.garbled
      /\ r.kind = "tiles" => n.canvas = Drawn(o.canvas, r) /\ n.garbled = (o.garbled /\ ~r.key)
      /\ r.kind = "h264" => /\ n.canvas = r.img
                            /\ n.garbled = IF r.key THEN ~(r.au.idr /\ r.au.sps /\ r.au.pps)
                                           ELSE o.garbled \/ o.canvas # r.base
  BY <1>1, AppliedIs
<1>3. /\ r.seq <= s.seq
      /\ r.kind = "unchanged" => ~r.key /\ r.seq = o.ack
      /\ r.kind \in {"tiles", "h264"} => (r.seq = s.seq => s.prev = r.img)
      /\ r.kind = "tiles" /\ r.key => Framed(r.img) /\ Covered(r)
      /\ r.kind = "tiles" /\ ~r.key /\ Fits(o, r) => ~o.garbled /\ Drawn(o.canvas, r) = r.img
      /\ r.kind = "h264" /\ r.key => r.au.idr /\ r.au.sps /\ r.au.pps
      /\ r.kind = "h264" /\ ~r.key /\ Fits(o, r) => ~o.garbled /\ o.canvas = r.base
  BY DEF Sound
<1>4. o.of = r.of => Current(o, s)
  BY DEF AckInv, Currents, Replied
<1> HIDE DEF o, n, s
<1>5. ~r.key /\ ~n.stale => Fits(o, r)
  BY <1>2 DEF Fits
<1>6. ASSUME n.ack = s.seq, ~n.stale
      PROVE  n.canvas = s.prev /\ ~n.garbled
  <2>1. CASE r.kind = "unchanged"
    BY <1>2, <1>3, <1>4, <1>5, <1>6, <2>1 DEF Current, Fits
  <2>2. CASE r.kind = "tiles" /\ r.key
    <3>1. Drawn(o.canvas, r) = r.img
      BY <1>3, <2>2, DrawnWhole
    <3> QED BY <1>2, <1>3, <1>6, <2>2, <3>1
  <2>3. CASE r.kind = "tiles" /\ ~r.key
    BY <1>2, <1>3, <1>5, <1>6, <2>3
  <2>4. CASE r.kind = "h264"
    BY <1>2, <1>3, <1>5, <1>6, <2>4
  <2> QED BY <2>1, <2>2, <2>3, <2>4 DEF Replied, Kinds
<1>7. Current(n, s)
  BY <1>2, <1>3, <1>6 DEF Current
<1> QED BY <1>7 DEF n, o, s

LEMMA AckDeliver ==
    ASSUME Shape, AckInv, NEW c \in Calls, Deliver(c), UNCHANGED <<console, slot, helper>>
    PROVE  AckInv'
<1> DEFINE v == req[c].v
           r == req[c].reply
<1>1. /\ OneRequest(c) /\ req'[c] = NoRequest /\ UNCHANGED sess /\ req[c].pc = "done" /\ v \in Viewers
      /\ viewer'[v] = Applied(viewer[v], r) /\ \A u \in Viewers \ {v} : viewer'[u] = viewer[u]
  BY DeliverOK
<1>2. req[c].heard /\ Replied(r) /\ Watching(viewer[v]) /\ Sound(v, r)
  BY <1>1 DEF Shape, ReqOK, ViewerOK, Asking, AckInv, RepliesSound
<1>3. NoRequest.pc = "off" /\ ~NoRequest.heard
  BY NobodyAsks
<1>4. \A d \in Calls : req'[d].heard \/ req'[d].pc = "done" =>
          /\ d # c /\ req'[d] = req[d] /\ req[d].heard /\ req[d].v \in Viewers \ {v}
          /\ viewer'[req[d].v] = viewer[req[d].v]
  <2> SUFFICES ASSUME NEW d \in Calls, req'[d].heard \/ req'[d].pc = "done"
               PROVE  /\ d # c /\ req'[d] = req[d] /\ req[d].heard /\ req[d].v \in Viewers \ {v}
                      /\ viewer'[req[d].v] = viewer[req[d].v]
    OBVIOUS
  <2>1. d # c /\ req'[d] = req[d]
    BY <1>1, <1>3 DEF OneRequest
  <2>2. req[d].heard /\ req[d].v \in Viewers
    BY <2>1 DEF Shape, ReqOK, Asking
  <2>3. req[d].v # v
    BY <1>2, <2>1, <2>2 DEF AckInv, OneAtATime
  <2> QED BY <1>1, <2>1, <2>2, <2>3
<1>5. Currents'
  <2> SUFFICES ASSUME NEW u \in Viewers, viewer'[u].of \in Sessions PROVE Current(viewer'[u], sess'[viewer'[u].of])
    BY DEF Currents
  <2>1. CASE u # v
    <3>1. viewer'[u] = viewer[u]
      BY <1>1, <2>1
    <3> QED BY <1>1, <3>1 DEF AckInv, Currents
  <2>2. CASE u = v /\ r.kind = "error"
    <3>1. viewer'[u] = viewer[u]
      BY <1>1, <1>2, <2>2, AppliedIs
    <3> QED BY <1>1, <3>1 DEF AckInv, Currents
  <2>3. CASE u = v /\ r.kind # "error"
    <3> HIDE DEF r, v
    <3>1. viewer'[u].of = r.of
      BY <1>1, <1>2, <2>3, AppliedIs
    <3>2. Current(Applied(viewer[v], r), sess[r.of])
      BY <1>1, <1>2, <2>3, AppliedCurrent
    <3> QED BY <1>1, <2>3, <3>1, <3>2
  <2> QED BY <2>1, <2>2, <2>3
<1>6. EncodesPrev'
  BY <1>1 DEF AckInv, EncodesPrev
<1>7. AsksWhatItHas' /\ OneAtATime'
  BY <1>4 DEF AckInv, AsksWhatItHas, OneAtATime
<1>8. RepliesSound'
  BY <1>1, <1>4 DEF AckInv, RepliesSound, Sound, Fits
<1> QED BY <1>5, <1>6, <1>7, <1>8 DEF AckInv

\* What a session sends against the frame before fits a viewer that has it.
LEMMA SendsSound ==
    ASSUME Shape, AckInv, NEW c \in Calls, req[c].pc = "captured", req[c].heard,
           NEW s, NEW r, Sends(req[c], sess[req[c].sess], s, r), r.of = req[c].sess,
           sess' = [sess EXCEPT ![req[c].sess] = s], UNCHANGED viewer, NEW v, v = req[c].v
    PROVE  Sound(v, r)'
<1> DEFINE p == req[c]
           o == viewer[v]
           old == sess[p.sess]
<1>1. /\ v \in Viewers /\ p.sess \in Sessions /\ Framed(p.img) /\ p.ack = o.ack
  BY DEF Shape, ReqOK, Asking, AckInv, AsksWhatItHas, Before
<1>2. sess'[r.of] = s /\ viewer'[v] = o /\ old.seq \in Nat
  BY <1>1 DEF Shape, SessOK
<1>3. Fits(o, r) => Current(o, old)
  BY <1>1 DEF Fits, AckInv, Currents
<1>4. old.codec = "h264" => old.enc = old.prev
  BY <1>1 DEF AckInv, EncodesPrev
<1>5. Sends(p, old, s, r)
  OBVIOUS
<1>6. SUFFICES
        /\ r.kind # "error" => r.seq <= s.seq
        /\ r.kind = "unchanged" => ~r.key /\ r.seq = o.ack
        /\ r.kind \in {"tiles", "h264"} => (r.seq = s.seq => s.prev = r.img)
        /\ r.kind = "tiles" /\ r.key => Framed(r.img) /\ Covered(r)
        /\ r.kind = "tiles" /\ ~r.key /\ Fits(o, r) => ~o.garbled /\ Drawn(o.canvas, r) = r.img
        /\ r.kind = "h264" /\ r.key => r.au.idr /\ r.au.sps /\ r.au.pps
        /\ r.kind = "h264" /\ ~r.key /\ Fits(o, r) => ~o.garbled /\ o.canvas = r.base
  BY <1>2 DEF Sound, Fits
<1> HIDE DEF p, o, old
<1>7. CASE Quiet(p, old, s, r)
  BY <1>1, <1>2, <1>7 DEF Quiet
<1>8. CASE Fresh(p, old, s, r)
  <2>1. r.seq = s.seq /\ s.seq \in Nat /\ s.prev = r.img /\ r.kind \in {"tiles", "h264"} /\ Framed(r.img)
    BY <1>1, <1>5, <1>8 DEF Fresh, Sends
  <2>2. CASE r.key
    BY <1>8, <2>1, <2>2 DEF Fresh, Whole
  <2>3. CASE ~r.key
    <3>1. p.ack = old.seq
      BY <1>8, <2>3 DEF Fresh, Against
    <3>2. Fits(o, r) => o.canvas = old.prev /\ ~o.garbled
      BY <1>1, <1>3, <3>1 DEF Current, Fits
    <3>3. r.kind = "tiles" /\ Fits(o, r) => Drawn(o.canvas, r) = r.img
      <4> SUFFICES ASSUME r.kind = "tiles", Fits(o, r) PROVE Drawn(o.canvas, r) = r.img
        OBVIOUS
      <4>1. Against(p, old, r)
        BY <1>8, <2>3 DEF Fresh
      <4> QED BY <2>1, <2>3, <3>2, <4>1, DrawnAgainst DEF Against
    <3>4. r.kind = "h264" /\ Fits(o, r) => o.canvas = r.base
      BY <1>4, <1>8, <2>3, <3>2 DEF Fresh
    <3> QED BY <2>1, <2>3, <3>2, <3>3, <3>4
  <2> QED BY <2>2, <2>3
<1> QED BY <1>5, <1>7, <1>8 DEF Sends

LEMMA AckRespond ==
    ASSUME Shape, AckInv, NEW c \in Calls, Responds(c), UNCHANGED <<console, slot, helper>>
    PROVE  AckInv'
<1> DEFINE p == req[c]
           old == sess[p.sess]
<1>1. PICK s, r : Answer(c, s, r) /\ Sends(p, old, s, r)
  BY RespondIs
<1>2. p.pc = "captured" /\ left' \in [Bounds -> Nat]
  BY RespondIs
<1>3. /\ DOMAIN s = SessionFields /\ s.seq \in Nat
      /\ DOMAIN r = ReplyFields /\ r.seq \in Nat /\ r.kind \in Kinds
  BY <1>1 DEF Sends, Quiet, Fresh, Kinds
<1> DEFINE out == [r EXCEPT !.of = p.sess]
<1>4. /\ OneRequest(c) /\ UNCHANGED viewer
      /\ req'[c].pc \in {"off", "done"} /\ (req'[c].pc = "done" => p.heard)
      /\ req'[c].heard => req'[c].pc = "done" /\ req'[c].v = p.v
      /\ req'[c].pc = "done" => req'[c].reply = out /\ req'[c].v = p.v
      /\ req'[c].pc = "off" => req'[c] = NoRequest
      /\ sess' = [sess EXCEPT ![p.sess] = s] /\ p.sess \in Sessions
  BY <1>1, <1>2, <1>3, AnswerOK
<1>5. /\ out.of = p.sess /\ out.kind = r.kind /\ out.seq = r.seq /\ out.key = r.key /\ out.img = r.img
      /\ out.rects = r.rects /\ out.base = r.base /\ out.au = r.au /\ DOMAIN out = ReplyFields
  BY <1>3 DEF ReplyFields
<1> HIDE DEF out
<1>6. Sends(p, old, s, out)
  BY <1>1, <1>5 DEF Sends, Quiet, Fresh, Whole, Against, Covered
<1>7. old.seq \in Nat
  BY <1>4 DEF Shape, SessOK
<1>8. /\ s = old \/ (s.seq = old.seq + 1 /\ s.prev = p.img)
      /\ s.codec = "h264" => s.enc = s.prev
  <2>1. CASE Quiet(p, old, s, r)
    BY <1>4, <2>1 DEF Quiet, AckInv, EncodesPrev
  <2>2. CASE Fresh(p, old, s, r)
    BY <2>2 DEF Fresh
  <2> QED BY <1>1, <2>1, <2>2 DEF Sends
<1>9. /\ sess'[p.sess] = s /\ \A x \in Sessions \ {p.sess} : sess'[x] = sess[x]
  BY <1>4 DEF Shape, SessOK
<1>10. Currents'
  <2> SUFFICES ASSUME NEW u \in Viewers, viewer[u].of \in Sessions PROVE Current(viewer[u], sess'[viewer[u].of])
    BY <1>4 DEF Currents
  <2>1. Current(viewer[u], sess[viewer[u].of]) /\ viewer[u].ack \in Nat
    BY DEF AckInv, Currents, Shape, ViewerOK, Watching
  <2> HIDE DEF p, old
  <2>2. CASE viewer[u].of = p.sess
    <3>1. sess[viewer[u].of] = old
      BY <2>2 DEF old
    <3> QED BY <1>7, <1>8, <1>9, <2>1, <2>2, <3>1 DEF Current
  <2>3. CASE viewer[u].of # p.sess
    BY <1>9, <2>1, <2>3
  <2> QED BY <2>2, <2>3
<1>11. EncodesPrev'
  BY <1>8, <1>9 DEF AckInv, EncodesPrev
<1>12. AsksWhatItHas'
  <2>1. ~(req'[c].heard /\ req'[c].pc \in Before)
    BY <1>4 DEF Before, SlotSteps
  <2> QED BY <1>4, <2>1 DEF OneRequest, AckInv, AsksWhatItHas
<1>13. OneAtATime'
  BY <1>4 DEF OneRequest, AckInv, OneAtATime
<1>14. ASSUME NEW d \in Calls, NEW v, NEW t, req'[d].pc = "done", v = req'[d].v, t = req'[d].reply
       PROVE  Sound(v, t)'
  <2>1. CASE d = c
    <3>1. p.heard /\ v = p.v /\ t = out
      BY <1>4, <1>14, <2>1
    <3> QED BY <1>2, <1>4, <1>5, <1>6, <3>1, SendsSound
  <2>2. CASE d # c
    <3>1. req'[d] = req[d]
      BY <1>4, <2>2 DEF OneRequest
    <3>2. Sound(v, t) /\ t.of \in Sessions /\ t.seq \in Nat
      BY <1>14, <3>1 DEF AckInv, RepliesSound, Shape, ReqOK, Asking, Replied
    <3> HIDE DEF p, old
    <3>3. CASE t.of = p.sess
      <4>1. sess[t.of] = old /\ sess'[t.of] = s
        BY <1>9, <3>3 DEF old
      <4> QED BY <1>4, <1>7, <1>8, <3>2, <4>1 DEF Sound
    <3>4. CASE t.of # p.sess
      <4>1. sess'[t.of] = sess[t.of]
        BY <1>9, <3>2, <3>4
      <4> QED BY <1>4, <3>2, <4>1 DEF Sound
    <3> QED BY <3>3, <3>4
  <2> QED BY <2>1, <2>2
<1>15. RepliesSound'
  BY <1>14 DEF RepliesSound, Sound
<1> QED BY <1>10, <1>11, <1>12, <1>13, <1>15 DEF AckInv

LEMMA AckStep ==
    ASSUME Shape, TableInv, AckInv, [Next]_vars
    PROVE  AckInv'
<1>1. CASE UNCHANGED vars
  <2>1. UNCHANGED <<sess, req, viewer>>
    BY <1>1 DEF vars, screenVars
  <2>2. \A v \in Viewers : SameSight(viewer[v], viewer'[v])
    BY <2>1 DEF SameSight
  <2> QED BY <2>1, <2>2, SameKept, AckKept
<1>2. CASE OthersMove
  BY <1>2, OthersOK, AckMoved
<1>3. ASSUME UNCHANGED <<console, slot, helper>>, NEW v \in Viewers, Asks(v) \/ GiveUp(v) \/ Switch(v)
      PROVE  AckInv'
  BY <1>3, AckAsk, AckGiveUp, AckSwitch
<1>4. ASSUME UNCHANGED <<console, slot, helper>>, NEW c \in Calls,
             SessionFor(c) \/ Capture(c) \/ Deliver(c) \/ Responds(c)
      PROVE  AckInv'
  BY <1>4, AckSessionFor, AckCapture, AckDeliver, AckRespond
<1>5. CASE UNCHANGED <<console, slot, helper>> /\ Paint
  <2>1. UNCHANGED <<sess, req, viewer>>
    BY <1>5, PaintOK
  <2>2. \A v \in Viewers : SameSight(viewer[v], viewer'[v])
    BY <2>1 DEF SameSight
  <2> QED BY <2>1, <2>2, SameKept, AckKept
<1>6. CASE UNCHANGED <<console, slot, helper>> /\ RestartAgent
  BY <1>6, RestartAgentOK, AckMoved
<1> QED BY <1>1, <1>2, <1>3, <1>4, <1>5, <1>6, Steps

\* The frame a session takes a viewer to have, once its last reply is acknowledged,
\* is the frame the viewer has, in every behaviour and for every frame, size, codec,
\* loss and restart (screen.rs: respond; tiles.rs: merge; annexb.rs:
\* with_param_sets).
THEOREM FrameIsShown == Spec => []AckedIsShown
<1> DEFINE Inv == Shape /\ TableInv /\ AckInv
<1>1. Init => Inv
  BY ShapeInit
<1>2. Inv /\ [Next]_vars => Inv'
  BY ShapeStep, AckStep
<1>3. Inv => AckedIsShown
  <2> SUFFICES ASSUME Inv, NEW i \in DOMAIN table,
                      LET v == table[i].sid
                          s == sess[table[i].sess]
                      IN viewer[v].of = table[i].sess /\ viewer[v].ack = s.seq /\ ~viewer[v].stale
               PROVE  Shows(table[i].sid, sess[table[i].sess].prev)
    BY DEF AckedIsShown
  <2>1. table[i] \in [sid : Viewers, sess : Sessions]
    <3>1. table \in Seq(Entries) /\ i \in 1 .. Len(table)
      BY DEF Shape, TableOK, Entries
    <3>2. table[i] \in Entries
      BY <3>1
    <3> QED BY <3>2 DEF Entries
  <2>2. Current(viewer[table[i].sid], sess[table[i].sess])
    BY <2>1 DEF AckInv, Currents
  <2> QED BY <2>2 DEF Current, Shows
<1> QED BY <1>1, <1>2, <1>3, PTL DEF Spec
-----------------------------------------------------------------------------
(* The slot, its lock and the helpers.                                      *)

\* Requests that neither take nor leave the slot's lock, helpers that at most end.
Slotwise(p, q) ==
    /\ q.pc \in SlotSteps <=> p.pc \in SlotSteps
    /\ p.pc = "starting" => q.pc = "starting" /\ q.pid = p.pid
AtMostEnds(x, y) ==
    /\ y.port = x.port /\ y.orphan = x.orphan
    /\ y.state # "ended" => x.state # "ended"

LEMMA SlotKeep ==
    ASSUME Shape, SlotInv, slot'.live = slot.live, slot'.holder = slot.holder,
           \A c \in Calls : Slotwise(req[c], req'[c]), \A h \in Pids : AtMostEnds(helper[h], helper'[h])
    PROVE  SlotInv'
<1>1. \A h \in Pids : Lives(h)' => Lives(h)
  BY DEF Lives, AtMostEnds
<1>2. (\A c \in Calls : req[c].pc \in SlotSteps <=> slot.holder = c)'
  BY DEF SlotInv, Slotwise
<1>3. (slot.live # None => slot.holder = None /\ helper[slot.live].port # None)'
  BY DEF SlotInv, AtMostEnds, Shape, SlotOK, SlotType
<1>4. (\A h \in Pids : Lives(h) => helper[h].port # None)'
  BY <1>1 DEF SlotInv, AtMostEnds
<1>5. (\A h \in Pids : Lives(h) /\ ~helper[h].orphan => Known(h))'
  BY <1>1 DEF SlotInv, AtMostEnds, Known, Slotwise
<1>6. (\A h, i \in Pids : Lives(h) /\ Lives(i) /\ helper[h].port = helper[i].port => h = i)'
  BY <1>1 DEF SlotInv, AtMostEnds
<1> QED BY <1>2, <1>3, <1>4, <1>5, <1>6 DEF SlotInv

LEMMA SameSlotwise == \A p : Slotwise(p, p)
  BY DEF Slotwise
LEMMA SameEnds == \A x : AtMostEnds(x, x)
  BY DEF AtMostEnds

LEMMA OffSlotwise ==
    ASSUME NEW p, NEW q, p.pc \notin SlotSteps, q.pc \notin SlotSteps
    PROVE  Slotwise(p, q)
  BY DEF Slotwise, SlotSteps

LEMMA BrokenSlotwise ==
    ASSUME Shape, NEW h, NEW c, NEW d \in Calls
    PROVE  Slotwise(req[d], Broken(h, c)[d])
<1>1. \/ Broken(h, c)[d] = req[d]
      \/ req[d].pc \in Inside /\ Broken(h, c)[d].pc = "broken"
  BY BrokenIs DEF Shape
<1> QED BY <1>1, SameSlotwise, OffSlotwise DEF Inside, SlotSteps

LEMMA EndedEnds ==
    ASSUME Shape, NEW h \in Pids, NEW code \in {"idle", "killed", "parent", "crash"}, Ended(h, code)
    PROVE  /\ \A x \in Pids : AtMostEnds(helper[x], helper'[x])
           /\ ~Lives(h)'
<1>1. /\ helper'[h].state = "ended" /\ \A x \in Pids \ {h} : helper'[x] = helper[x]
      /\ helper'[h].orphan = helper[h].orphan /\ helper'[h].port = helper[h].port
  BY EndedType DEF Shape
<1> QED BY <1>1, SameEnds DEF AtMostEnds, Lives

\* While the lock is held nothing is in the slot and its holder alone starts a helper.
LEMMA Holding ==
    ASSUME Shape, SlotInv, NEW c \in Calls, req[c].pc \in SlotSteps
    PROVE  /\ slot.live = None /\ slot.holder = c
           /\ \A d \in Calls : req[d].pc \in SlotSteps => d = c
  BY ScreenAssumption DEF SlotInv

LEMMA NotHeld ==
    ASSUME Shape, SlotInv, slot.holder = None
    PROVE  /\ \A d \in Calls : req[d].pc \notin SlotSteps
           /\ \A h \in Pids : Lives(h) /\ ~helper[h].orphan => slot.live = h
  BY ScreenAssumption DEF SlotInv, Known, SlotSteps

LEMMA SlotFails ==
    ASSUME Shape, SlotInv, NEW c \in Calls, req[c].pc \in SlotSteps,
           NEW s, s \in {slot, Failing(slot)}, Fails(c, s),
           \A h \in Pids : AtMostEnds(helper[h], helper'[h]),
           req[c].pc = "starting" => helper'[req[c].pid].state = "ended"
    PROVE  SlotInv'
<1>0. slot.live = None /\ slot.holder = c /\ \A d \in Calls : req[d].pc \in SlotSteps => d = c
  BY Holding
<1>1. s \in SlotType /\ s.live = None
  BY <1>0, FailingType DEF Shape, SlotOK
<1>2. OneRequest(c) /\ req'[c].pc = "failed" /\ slot' = [s EXCEPT !.holder = None]
  BY <1>1, FailsOK DEF SlotSteps
<1>3. slot'.live = None /\ slot'.holder = None
  BY <1>1, <1>2 DEF SlotType
<1>4. \A d \in Calls : req'[d].pc \notin SlotSteps
  BY <1>0, <1>2 DEF OneRequest, SlotSteps
<1>5. \A h \in Pids : Lives(h)' => Lives(h)
  BY DEF Lives, AtMostEnds
<1>6. \A h \in Pids : Lives(h)' => helper'[h].orphan
  BY <1>0, <1>5, HelperAssumption DEF SlotInv, Known, AtMostEnds, SlotSteps, Lives
<1>7. (\A h \in Pids : Lives(h) => helper[h].port # None)'
  BY <1>5 DEF SlotInv, AtMostEnds
<1>8. (\A h, i \in Pids : Lives(h) /\ Lives(i) /\ helper[h].port = helper[i].port => h = i)'
  BY <1>5 DEF SlotInv, AtMostEnds
<1> QED BY <1>3, <1>4, <1>6, <1>7, <1>8, ScreenAssumption DEF SlotInv

LEMMA SlotEnsure ==
    ASSUME Shape, SlotInv, NEW c \in Calls, Ensure(c)
    PROVE  SlotInv'
<1> DEFINE s == Reaped
<1>0. /\ s \in SlotType /\ req[c].pc = "asked" /\ slot.holder = None /\ s.holder = None
      /\ s.live \in {slot.live, None} /\ (Lives(slot.live) => s.live = slot.live)
      /\ ReqOK /\ DOMAIN req = Calls /\ Asking(req[c])
      /\ s.live # None => Lives(s.live) /\ s.live \in Pids
  BY ReapedType DEF Shape, Ensure, SlotFree, ReqOK, SlotOK, SlotType
<1>1. /\ \A d \in Calls : req[d].pc \notin SlotSteps
      /\ \A h \in Pids : Lives(h) /\ ~helper[h].orphan => slot.live = h
  BY <1>0, NotHeld
<1>2. \A h \in Pids : Lives(h) /\ ~helper[h].orphan => s.live = h
  BY <1>0, <1>1
<1>3. s.live # None => helper[s.live].port # None
  BY <1>0 DEF SlotInv
<1>4. /\ \A h \in Pids : Lives(h) => helper[h].port # None
      /\ \A h, i \in Pids : Lives(h) /\ Lives(i) /\ helper[h].port = helper[i].port => h = i
  BY DEF SlotInv
<1>5. ASSUME slot' = s, UNCHANGED helper, OneRequest(c), req'[c].pc \notin SlotSteps
      PROVE  SlotInv'
  <2>1. \A d \in Calls : req'[d].pc \notin SlotSteps
    BY <1>0, <1>1, <1>5 DEF OneRequest
  <2>2. \A h \in Pids : Lives(h)' <=> Lives(h)
    BY <1>5 DEF Lives
  <2> QED BY <1>0, <1>2, <1>3, <1>4, <1>5, <2>1, <2>2, ScreenAssumption DEF SlotInv, Known
<1>6. CASE Decision(s) = "Reuse"
  <2>1. /\ req' = [req EXCEPT ![c].pc = "call", ![c].pid = s.live, ![c].port = helper[s.live].port]
        /\ slot' = s /\ UNCHANGED helper
    BY <1>6 DEF Ensure
  <2>2. OneRequest(c) /\ req'[c].pc = "call"
    BY <1>0, <2>1 DEF OneRequest, Asking, ReqFields
  <2> QED BY <1>5, <2>1, <2>2 DEF SlotSteps
<1>7. CASE Decision(s) \in {"NoSession", "Backoff"}
  <2>1. req' = [req EXCEPT ![c].pc = "failed"] /\ slot' = s /\ UNCHANGED helper
    BY <1>7 DEF Ensure
  <2>2. OneRequest(c) /\ req'[c].pc = "failed"
    BY <1>0, <2>1 DEF OneRequest, Asking, ReqFields
  <2> QED BY <1>5, <2>1, <2>2 DEF SlotSteps
<1>8. ASSUME slot'.live = None, slot'.holder = c, req'[c].pc = "spawn",
             \A d \in Calls \ {c} : Slotwise(req[d], req'[d]),
             \A h \in Pids : AtMostEnds(helper[h], helper'[h]),
             s.live # None => helper'[s.live].state = "ended"
      PROVE  SlotInv'
  <2>1. \A d \in Calls : req'[d].pc \in SlotSteps <=> d = c
    BY <1>1, <1>8 DEF Slotwise, SlotSteps
  <2>2. \A h \in Pids : Lives(h)' => Lives(h)
    BY <1>8 DEF Lives, AtMostEnds
  <2>3. \A h \in Pids : Lives(h)' => helper'[h].orphan
    BY <1>2, <1>8, <2>2, HelperAssumption DEF AtMostEnds, Lives
  <2>4. /\ \A h \in Pids : Lives(h)' => helper'[h].port # None
        /\ \A h, i \in Pids : Lives(h)' /\ Lives(i)' /\ helper'[h].port = helper'[i].port => h = i
    BY <1>4, <1>8, <2>2 DEF AtMostEnds
  <2> QED BY <1>8, <2>1, <2>3, <2>4 DEF SlotInv
<1>9. CASE Decision(s) = "Replace"
  <2>1. /\ Ended(s.live, "killed")
        /\ req' = [Broken(s.live, c) EXCEPT ![c].pc = "spawn"]
        /\ slot' = [s EXCEPT !.live = None, !.holder = c]
    BY <1>9 DEF Ensure
  <2>2. s.live \in Pids
    BY <1>0, <1>9 DEF Decision
  <2>3. slot'.live = None /\ slot'.holder = c
    BY <1>0, <2>1 DEF SlotType
  <2>4. /\ DOMAIN Broken(s.live, c) = Calls /\ Broken(s.live, c)[c] = req[c]
        /\ \A d \in Calls : Slotwise(req[d], Broken(s.live, c)[d])
    BY <1>0, BrokenIs, BrokenSlotwise
  <2>5. (\A h \in Pids : AtMostEnds(helper[h], helper'[h])) /\ helper'[s.live].state = "ended"
    <3> HIDE DEF s
    <3>1. \A x \in Pids : Ended(x, "killed") =>
            (\A h \in Pids : AtMostEnds(helper[h], helper'[h])) /\ helper'[x].state = "ended"
      BY EndedEnds DEF Lives
    <3> QED BY <2>1, <2>2, <3>1
  <2>6. req'[c].pc = "spawn" /\ \A d \in Calls \ {c} : Slotwise(req[d], req'[d])
    <3> HIDE DEF s
    <3>1. req'[c] = [req[c] EXCEPT !.pc = "spawn"] /\ \A d \in Calls \ {c} : req'[d] = Broken(s.live, c)[d]
      BY <2>1, <2>4
    <3> QED BY <1>0, <2>4, <3>1 DEF Asking, ReqFields
  <2> QED BY <1>8, <2>3, <2>5, <2>6
<1>10. CASE Decision(s) = "Spawn"
  <2>1. /\ req' = [req EXCEPT ![c].pc = "spawn"] /\ slot' = [s EXCEPT !.holder = c] /\ UNCHANGED helper
    BY <1>10 DEF Ensure
  <2>2. s.live = None
    BY <1>10 DEF Decision
  <2>3. slot'.live = None /\ slot'.holder = c
    BY <1>0, <2>1, <2>2 DEF SlotType
  <2>4. req'[c].pc = "spawn" /\ \A d \in Calls \ {c} : Slotwise(req[d], req'[d])
    BY <1>0, <2>1, SameSlotwise DEF Asking, ReqFields
  <2>5. \A h \in Pids : AtMostEnds(helper[h], helper'[h])
    BY <2>1, SameEnds
  <2> QED BY <1>8, <2>2, <2>3, <2>4, <2>5
<1>11. Decision(s) \in {"Reuse", "NoSession", "Backoff", "Replace", "Spawn"}
  BY DEF Decision
<1> QED BY <1>6, <1>7, <1>9, <1>10, <1>11

LEMMA SlotSpawn ==
    ASSUME Shape, SlotInv, NEW c \in Calls, Spawn(c)
    PROVE  SlotInv'
<1>0. /\ req[c].pc = "spawn" /\ DOMAIN req = Calls /\ Asking(req[c]) /\ SlotOK
      /\ slot.live = None /\ slot.holder = c /\ \A d \in Calls : req[d].pc \in SlotSteps => d = c
  BY ReqAt, Holding DEF Spawn, SlotSteps
<1>1. ASSUME NEW s \in {slot, Failing(slot)}, Fails(c, s), UNCHANGED helper
      PROVE  SlotInv'
  <2>1. \A h \in Pids : AtMostEnds(helper[h], helper'[h])
    BY <1>1, SameEnds
  <2> QED BY <1>0, <1>1, <2>1, SlotFails DEF SlotSteps
<1>2. ASSUME console # None, FreePids # {}, NEW n \in FreePorts,
             LET h == CHOOSE x \in FreePids : TRUE
             IN /\ helper' = [x \in Pids |->
                     CASE x = h -> [NoHelper EXCEPT !.state = "starting", !.port = n, !.session = console]
                       [] x \in FreePids \ {h} -> NoHelper
                       [] OTHER -> helper[x]]
                /\ req' = [req EXCEPT ![c].pc = "starting", ![c].pid = h, ![c].port = n],
             UNCHANGED slot
      PROVE  SlotInv'
  <2> DEFINE h == CHOOSE x \in FreePids : TRUE
             new == [NoHelper EXCEPT !.state = "starting", !.port = n, !.session = console]
  <2>1. h \in FreePids /\ h \in Pids /\ n \in Ports
    BY <1>2 DEF FreePids, FreePorts
  <2>2. new.state = "starting" /\ new.port = n /\ new.orphan = FALSE
    BY DEF NoHelper
  <2>3. helper' = [x \in Pids |-> CASE x = h -> new [] x \in FreePids \ {h} -> NoHelper [] OTHER -> helper[x]]
    BY <1>2
  <2>4. req' = [req EXCEPT ![c].pc = "starting", ![c].pid = h, ![c].port = n]
    BY <1>2
  <2> HIDE DEF new, h
  <2>5. /\ helper'[h] = new
        /\ \A x \in Pids \ {h} : helper'[x] = IF x \in FreePids THEN NoHelper ELSE helper[x]
    BY <2>1, <2>3
  <2>6. OneRequest(c) /\ req'[c].pc = "starting" /\ req'[c].pid = h
    BY <1>0, <2>4 DEF OneRequest, Asking, ReqFields
  <2>7. \A x \in Pids \ {h} : Lives(x)' => Lives(x) /\ helper'[x] = helper[x]
    BY <2>5 DEF Lives, NoHelper
  <2>8. \A x \in Pids \ {h} : Lives(x)' => helper'[x].port # n
    BY <1>2, <2>7 DEF FreePorts
  <2>9. \A d \in Calls : req'[d].pc \in SlotSteps <=> d = c
    BY <1>0, <2>6 DEF OneRequest, SlotSteps
  <2>10. \A x \in Pids : Lives(x)' /\ ~helper'[x].orphan => x = h
    BY <1>0, <2>7, HelperAssumption DEF SlotInv, Known, SlotSteps
  <2>11. \A x \in Pids : Lives(x)' => helper'[x].port # None
    BY <2>1, <2>2, <2>5, <2>7, HelperAssumption DEF SlotInv
  <2>12. \A x, y \in Pids : Lives(x)' /\ Lives(y)' /\ helper'[x].port = helper'[y].port => x = y
    BY <2>2, <2>5, <2>7, <2>8 DEF SlotInv
  <2>13. \A x \in Pids : Lives(x)' /\ ~helper'[x].orphan => Known(x)'
    BY <2>6, <2>10 DEF Known
  <2>14. slot'.live = None /\ \A d \in Calls : req'[d].pc \in SlotSteps <=> slot'.holder = d
    BY <1>0, <1>2, <2>9
  <2> QED BY <2>11, <2>12, <2>13, <2>14 DEF SlotInv
<1> QED BY <1>1, <1>2 DEF Spawn

LEMMA SlotHello ==
    ASSUME Shape, SlotInv, NEW c \in Calls, Hello(c)
    PROVE  SlotInv'
<1> DEFINE h == req[c].pid
<1>0. /\ req[c].pc = "starting" /\ DOMAIN req = Calls /\ Asking(req[c]) /\ SlotOK /\ h \in Pids
      /\ slot.live = None /\ slot.holder = c /\ \A d \in Calls : req[d].pc \in SlotSteps => d = c
  BY ReqAt, Holding DEF Hello, SlotSteps, Asking
<1>1. ASSUME Serves(h), req' = [req EXCEPT ![c].pc = "call"], slot' = [FreshSlot EXCEPT !.live = h],
             UNCHANGED helper
      PROVE  SlotInv'
  <2>1. OneRequest(c) /\ req'[c].pc = "call"
    BY <1>0, <1>1 DEF OneRequest, Asking, ReqFields
  <2>2. slot'.live = h /\ slot'.holder = None
    BY <1>1 DEF FreshSlot
  <2>3. \A d \in Calls : req'[d].pc \notin SlotSteps
    BY <1>0, <2>1 DEF OneRequest, SlotSteps
  <2>4. Lives(h) /\ \A x \in Pids : Lives(x)' <=> Lives(x)
    BY <1>1 DEF Lives, Serves
  <2>5. \A x \in Pids : Lives(x) /\ ~helper[x].orphan => x = h
    BY <1>0, HelperAssumption DEF SlotInv, Known, SlotSteps
  <2>6. helper[h].port # None
    BY <1>0, <2>4 DEF SlotInv
  <2> QED BY <1>1, <2>2, <2>3, <2>4, <2>5, <2>6, ScreenAssumption DEF SlotInv, Known
<1>2. ASSUME ~Lives(h), Fails(c, Failing(slot)), UNCHANGED helper
      PROVE  SlotInv'
  <2>1. (\A x \in Pids : AtMostEnds(helper[x], helper'[x])) /\ helper'[h].state = "ended"
    BY <1>2, SameEnds DEF Lives
  <2> QED BY <1>0, <1>2, <2>1, SlotFails DEF SlotSteps
<1>3. ASSUME Ended(h, "killed"), Fails(c, Failing(slot))
      PROVE  SlotInv'
  <2>1. (\A x \in Pids : AtMostEnds(helper[x], helper'[x])) /\ helper'[h].state = "ended"
    BY <1>0, <1>3, EndedEnds, EndedType DEF Shape
  <2> QED BY <1>0, <1>3, <2>1, SlotFails DEF SlotSteps
<1> QED BY <1>1, <1>2, <1>3 DEF Hello, Killed

LEMMA SlotDiscard ==
    ASSUME Shape, SlotInv, NEW c \in Calls, Discard(c)
    PROVE  SlotInv'
<1> DEFINE h == slot.live
           out == Failing([slot EXCEPT !.live = None])
<1>0. /\ req[c].pc = "broken" /\ slot.holder = None /\ DOMAIN req = Calls /\ Asking(req[c]) /\ SlotOK
      /\ \A d \in Calls : req[d].pc \notin SlotSteps
      /\ \A x \in Pids : Lives(x) /\ ~helper[x].orphan => slot.live = x
  BY ReqAt, NotHeld DEF Discard, SlotFree
<1>1. ASSUME req' = [req EXCEPT ![c].pc = "failed", ![c].pid = None]
      PROVE  OneRequest(c) /\ req'[c].pc = "failed"
  BY <1>0, <1>1 DEF OneRequest, Asking, ReqFields
<1>2. out.live = None /\ out.holder = None
  <2>1. [slot EXCEPT !.live = None] \in SlotType
    BY <1>0 DEF SlotOK, SlotType
  <2>2. [slot EXCEPT !.live = None].live = None /\ [slot EXCEPT !.live = None].holder = None
    BY <1>0 DEF SlotOK, SlotType
  <2> QED BY <2>1, <2>2, FailingType
<1>3. ASSUME slot' = out, h # None, \A x \in Pids : AtMostEnds(helper[x], helper'[x]),
             helper'[h].state = "ended", \A d \in Calls : req'[d].pc \notin SlotSteps
      PROVE  SlotInv'
  <2> HIDE DEF out
  <2>1. \A x \in Pids : Lives(x)' => Lives(x)
    BY <1>3 DEF Lives, AtMostEnds
  <2>2. \A x \in Pids : Lives(x)' => helper'[x].orphan
    BY <1>0, <1>3, <2>1 DEF AtMostEnds, Lives
  <2>3. /\ \A x \in Pids : Lives(x)' => helper'[x].port # None
        /\ \A x, y \in Pids : Lives(x)' /\ Lives(y)' /\ helper'[x].port = helper'[y].port => x = y
    BY <1>3, <2>1 DEF SlotInv, AtMostEnds
  <2> QED BY <1>2, <1>3, <2>2, <2>3, ScreenAssumption DEF SlotInv
<1>4. ASSUME h # None, Ended(h, "killed"), slot' = out,
             req' = [Broken(h, c) EXCEPT ![c].pc = "failed", ![c].pid = None]
      PROVE  SlotInv'
  <2>1. h \in Pids
    BY <1>0, <1>4 DEF SlotOK, SlotType
  <2>2. (\A x \in Pids : AtMostEnds(helper[x], helper'[x])) /\ helper'[h].state = "ended"
    BY <1>4, <2>1, EndedEnds, EndedType DEF Shape
  <2>3. /\ DOMAIN Broken(h, c) = Calls /\ Broken(h, c)[c] = req[c]
        /\ \A d \in Calls : Slotwise(req[d], Broken(h, c)[d])
    BY BrokenIs, BrokenSlotwise DEF Shape
  <2>4. \A d \in Calls : req'[d].pc \notin SlotSteps
    <3> HIDE DEF h
    <3>1. req'[c] = [req[c] EXCEPT !.pc = "failed", !.pid = None] /\ \A d \in Calls \ {c} : req'[d] = Broken(h, c)[d]
      BY <1>4, <2>3
    <3>2. req'[c].pc = "failed"
      BY <1>0, <3>1 DEF Asking, ReqFields
    <3> QED BY <1>0, <2>3, <3>1, <3>2 DEF Slotwise, SlotSteps
  <2> QED BY <1>3, <1>4, <2>2, <2>4
<1>5. ASSUME h # None, ~Lives(h), UNCHANGED helper, slot' = out,
             req' = [req EXCEPT ![c].pc = "failed", ![c].pid = None]
      PROVE  SlotInv'
  <2>1. \A d \in Calls : req'[d].pc \notin SlotSteps
    BY <1>0, <1>1, <1>5 DEF OneRequest, SlotSteps
  <2>2. (\A x \in Pids : AtMostEnds(helper[x], helper'[x])) /\ helper'[h].state = "ended"
    BY <1>5, SameEnds DEF Lives
  <2> QED BY <1>3, <1>5, <2>1, <2>2
<1>6. ASSUME UNCHANGED <<slot, helper>>, req' = [req EXCEPT ![c].pc = "failed", ![c].pid = None]
      PROVE  SlotInv'
  <2>1. \A d \in Calls : Slotwise(req[d], req'[d])
    BY <1>0, <1>1, <1>6, SameSlotwise, OffSlotwise DEF OneRequest, SlotSteps
  <2> QED BY <1>6, <2>1, SameEnds, SlotKeep
<1> QED BY <1>4, <1>5, <1>6 DEF Discard

LEMMA SlotCall ==
    ASSUME Shape, SlotInv, NEW c \in Calls, Send(c) \/ Refuse(c) \/ TimesOut(c)
    PROVE  SlotInv'
<1>0. DOMAIN req = Calls /\ Asking(req[c]) /\ SlotOK
  BY ReqAt
<1>1. CASE Send(c)
  <2>1. /\ req[c].pc = "call" /\ (req' = [req EXCEPT ![c].pc = "here"] \/ req' = [req EXCEPT ![c].pc = "broken"])
        /\ (helper' = helper \/ helper' = [helper EXCEPT ![req[c].pid].rested = FALSE]) /\ UNCHANGED slot
    BY <1>1 DEF Send
  <2>2. OneRequest(c) /\ req'[c].pc \in {"here", "broken"}
    BY <1>0, <2>1 DEF OneRequest, Asking, ReqFields
  <2>3. \A d \in Calls : Slotwise(req[d], req'[d])
    BY <2>1, <2>2, SameSlotwise, OffSlotwise DEF OneRequest, SlotSteps
  <2>4. \A h \in Pids : AtMostEnds(helper[h], helper'[h])
    BY <1>0, <2>1 DEF SlotOK, HelperType, AtMostEnds
  <2> QED BY <2>1, <2>3, <2>4, SlotKeep
<1>2. CASE Refuse(c)
  <2>1. req[c].pc = "failed" /\ req' = [req EXCEPT ![c] = NoRequest] /\ UNCHANGED <<slot, helper>>
    BY <1>2 DEF Refuse
  <2>2. \A d \in Calls : Slotwise(req[d], req'[d])
    BY <1>0, <2>1, NobodyAsks, SameSlotwise, OffSlotwise DEF SlotSteps
  <2> QED BY <2>1, <2>2, SameEnds, SlotKeep
<1>3. CASE TimesOut(c)
  <2>1. req[c].pc \in Inside /\ req' = [req EXCEPT ![c] = Broke(@)] /\ UNCHANGED <<slot, helper>>
    BY <1>3 DEF TimesOut
  <2>2. req[c].pc \notin SlotSteps /\ Broke(req[c]).pc = "broken"
    BY <1>0, <2>1, BrokeIs DEF Inside, SlotSteps
  <2>3. \A d \in Calls : Slotwise(req[d], req'[d])
    BY <1>0, <2>1, <2>2, SameSlotwise, OffSlotwise DEF SlotSteps
  <2> QED BY <2>1, <2>3, SameEnds, SlotKeep
<1> QED BY <1>1, <1>2, <1>3

LEMMA SlotAround ==
    ASSUME Shape, SlotInv, NEW h \in Pids, Around(h)
    PROVE  SlotInv'
<1>0. helper \in [Pids -> HelperType]
  BY DEF Shape, SlotOK
<1>1. CASE Binds(h)
  <2>1. helper[h].state = "starting" /\ helper' = [helper EXCEPT ![h].state = "serving"] /\ UNCHANGED <<req, slot>>
    BY <1>1 DEF Binds
  <2>2. \A x \in Pids : AtMostEnds(helper[x], helper'[x])
    BY <1>0, <2>1 DEF HelperType, AtMostEnds
  <2> QED BY <2>1, <2>2, SameSlotwise, SlotKeep
<1>2. CASE Rests(h)
  <2>1. helper' = [helper EXCEPT ![h].rested = TRUE] /\ UNCHANGED <<req, slot>>
    BY <1>2 DEF Rests
  <2>2. \A x \in Pids : AtMostEnds(helper[x], helper'[x])
    BY <1>0, <2>1 DEF HelperType, AtMostEnds
  <2> QED BY <2>1, <2>2, SameSlotwise, SlotKeep
<1>3. CASE ExitsIdle(h) \/ ParentGone(h)
  <2>1. (Ended(h, "idle") \/ Ended(h, "parent")) /\ UNCHANGED <<req, slot>>
    BY <1>3 DEF ExitsIdle, ParentGone
  <2>2. \A x \in Pids : AtMostEnds(helper[x], helper'[x])
    BY <2>1, EndedEnds
  <2> QED BY <2>1, <2>2, SameSlotwise, SlotKeep
<1>4. CASE Dies(h)
  <2>1. Ended(h, "crash") /\ req' = Broken(h, None) /\ UNCHANGED slot
    BY <1>4 DEF Dies
  <2>2. \A x \in Pids : AtMostEnds(helper[x], helper'[x])
    BY <2>1, EndedEnds
  <2>3. \A d \in Calls : Slotwise(req[d], req'[d])
    BY <2>1, BrokenSlotwise
  <2> QED BY <2>1, <2>2, <2>3, SlotKeep
<1> QED BY <1>1, <1>2, <1>3, <1>4 DEF Around

\* A service that starts again knows of no helper: those of before are orphans.
LEMMA SlotOutside ==
    ASSUME Shape, SlotInv, CoolDown \/ ConsoleMoves \/ RestartService
    PROVE  SlotInv'
<1>0. helper \in [Pids -> HelperType] /\ slot \in SlotType
  BY DEF Shape, SlotOK
<1>1. CASE CoolDown
  <2>1. slot' = [slot EXCEPT !.cooling = FALSE] /\ UNCHANGED <<req, helper>>
    BY <1>1 DEF CoolDown
  <2>2. slot'.live = slot.live /\ slot'.holder = slot.holder
    BY <1>0, <2>1 DEF SlotType
  <2> QED BY <2>1, <2>2, SameSlotwise, SameEnds, SlotKeep
<1>2. CASE ConsoleMoves
  <2>1. UNCHANGED <<req, slot, helper>>
    BY <1>2 DEF ConsoleMoves
  <2> QED BY <2>1, SameSlotwise, SameEnds, SlotKeep
<1>3. CASE RestartService
  <2>1. /\ req' = [c \in Calls |-> NoRequest] /\ slot' = FreshSlot
        /\ helper' = [h \in Pids |-> [helper[h] EXCEPT !.orphan = Lives(h)]]
    BY <1>3 DEF RestartService
  <2>2. slot'.live = None /\ slot'.holder = None
    BY <2>1 DEF FreshSlot
  <2>3. \A c \in Calls : req'[c].pc \notin SlotSteps
    BY <2>1, NobodyAsks DEF SlotSteps
  <2>4. \A h \in Pids : /\ helper'[h].state = helper[h].state /\ helper'[h].port = helper[h].port
                        /\ helper'[h].orphan = Lives(h)
    BY <1>0, <2>1 DEF HelperType
  <2>5. \A h \in Pids : (Lives(h)' <=> Lives(h)) /\ (Lives(h)' => helper'[h].orphan)
    BY <2>4 DEF Lives
  <2>6. /\ \A h \in Pids : Lives(h)' => helper'[h].port # None
        /\ \A h, i \in Pids : Lives(h)' /\ Lives(i)' /\ helper'[h].port = helper'[i].port => h = i
    BY <2>4, <2>5 DEF SlotInv
  <2> QED BY <2>2, <2>3, <2>5, <2>6, ScreenAssumption DEF SlotInv
<1> QED BY <1>1, <1>2, <1>3

\* The steps of Screen leave the slot and its requests where they are.
LEMMA SlotScreen ==
    ASSUME Shape, TableInv, SlotInv, UNCHANGED <<console, slot, helper>>,
           \/ \E v \in Viewers : Asks(v) \/ GiveUp(v) \/ Switch(v)
           \/ \E c \in Calls : SessionFor(c) \/ Capture(c) \/ Deliver(c) \/ Responds(c)
           \/ Paint \/ RestartAgent
    PROVE  SlotInv'
<1>1. SUFFICES \A d \in Calls : Slotwise(req[d], req'[d])
  BY SameEnds, SlotKeep
<1>2. ASSUME NEW v \in Viewers, Asks(v)
      PROVE  \A d \in Calls : Slotwise(req[d], req'[d])
  <2> DEFINE pc == IF world.session0 THEN "asked" ELSE "here"
             q == [NoRequest EXCEPT !.pc = pc, !.v = v, !.heard = TRUE, !.ack = viewer[v].ack,
                                    !.codec = viewer[v].codec, !.w = viewer[v].w]
  <2>1. PICK c \in Calls : req[c].pc = "off" /\ req' = [req EXCEPT ![c] = q]
    BY <1>2 DEF Asks, Ask
  <2>2. q.pc \in {"asked", "here"}
    BY DEF NoRequest
  <2> HIDE DEF q
  <2>3. req'[c] = q /\ \A d \in Calls \ {c} : req'[d] = req[d]
    BY <2>1 DEF Shape, ReqOK
  <2> QED BY <2>1, <2>2, <2>3, SameSlotwise, OffSlotwise DEF SlotSteps
<1>3. ASSUME NEW v \in Viewers, GiveUp(v)
      PROVE  \A d \in Calls : Slotwise(req[d], req'[d])
  <2>1. PICK c \in Calls :
          req' = [req EXCEPT ![c] = IF @.pc = "done" THEN NoRequest ELSE [req[c] EXCEPT !.heard = FALSE]]
    BY <1>3 DEF GiveUp
  <2>2. DOMAIN req = Calls /\ Asking(req[c])
    BY ReqAt
  <2>3. \A d \in Calls \ {c} : req'[d] = req[d]
    BY <2>1, <2>2
  <2>4. Slotwise(req[c], req'[c])
    <3>1. CASE req[c].pc = "done"
      <4>1. req'[c] = NoRequest
        BY <2>1, <2>2, <3>1
      <4> QED BY <3>1, <4>1, NobodyAsks, OffSlotwise DEF SlotSteps
    <3>2. CASE req[c].pc # "done"
      <4>1. req'[c] = [req[c] EXCEPT !.heard = FALSE]
        BY <2>1, <2>2, <3>2
      <4>2. req'[c].pc = req[c].pc /\ req'[c].pid = req[c].pid
        BY <2>2, <4>1 DEF Asking, ReqFields
      <4> QED BY <4>2 DEF Slotwise
    <3> QED BY <3>1, <3>2
  <2> QED BY <2>3, <2>4, SameSlotwise
<1>4. ASSUME NEW v \in Viewers, Switch(v)
      PROVE  \A d \in Calls : Slotwise(req[d], req'[d])
  BY <1>4, SameSlotwise DEF Switch
<1>5. ASSUME NEW c \in Calls, OneRequest(c), req[c].pc \notin SlotSteps, req'[c].pc \notin SlotSteps
      PROVE  \A d \in Calls : Slotwise(req[d], req'[d])
  BY <1>5, SameSlotwise, OffSlotwise DEF OneRequest
<1>6. ASSUME NEW c \in Calls, SessionFor(c)
      PROVE  \A d \in Calls : Slotwise(req[d], req'[d])
  <2>1. PICK s \in Sessions : req' = [req EXCEPT ![c].pc = "have", ![c].sess = s]
    BY <1>6, SessionForTable
  <2>2. req[c].pc = "here" /\ DOMAIN req = Calls /\ Asking(req[c])
    BY <1>6, ReqAt DEF SessionFor
  <2>3. OneRequest(c) /\ req'[c].pc = "have"
    BY <2>1, <2>2 DEF OneRequest, Asking, ReqFields
  <2> QED BY <1>5, <2>2, <2>3 DEF SlotSteps
<1>7. ASSUME NEW c \in Calls, Capture(c) \/ Deliver(c)
      PROVE  \A d \in Calls : Slotwise(req[d], req'[d])
  <2>1. OneRequest(c) /\ req[c].pc \in {"have", "done"} /\ req'[c].pc \in {"captured", "off"}
    BY <1>7, CaptureOK, DeliverOK, NobodyAsks
  <2> QED BY <1>5, <2>1 DEF SlotSteps
<1>8. ASSUME NEW c \in Calls, Responds(c)
      PROVE  \A d \in Calls : Slotwise(req[d], req'[d])
  <2>1. PICK s, r : Answer(c, s, r) /\ Sends(req[c], sess[req[c].sess], s, r)
    BY <1>8, RespondIs
  <2>2. /\ DOMAIN s = SessionFields /\ s.seq \in Nat /\ req[c].pc = "captured" /\ left' \in [Bounds -> Nat]
        /\ DOMAIN r = ReplyFields /\ r.seq \in Nat /\ r.kind \in Kinds
    BY <1>8, <2>1, RespondIs DEF Sends, Quiet, Fresh, Kinds
  <2>3. OneRequest(c) /\ req'[c].pc \in {"off", "done"}
    BY <2>1, <2>2, AnswerOK
  <2> QED BY <1>5, <2>2, <2>3 DEF SlotSteps
<1>9. ASSUME Paint
      PROVE  \A d \in Calls : Slotwise(req[d], req'[d])
  BY <1>9, SameSlotwise DEF Paint
<1>10. ASSUME RestartAgent
       PROVE  \A d \in Calls : Slotwise(req[d], req'[d])
  BY <1>10, SameSlotwise, OffSlotwise, NobodyAsks DEF RestartAgent, Lost, SlotSteps
<1> QED BY <1>2, <1>3, <1>4, <1>6, <1>7, <1>8, <1>9, <1>10

LEMMA SlotInit == Init => SlotInv
<1> SUFFICES ASSUME Init PROVE SlotInv
  OBVIOUS
<1>1. \A c \in Calls : req[c].pc \notin SlotSteps
  BY NobodyAsks DEF Init, ScreenInit, SlotSteps
<1>2. slot.live = None /\ slot.holder = None /\ \A h \in Pids : ~Lives(h)
  BY DEF Init, FreshSlot, NoHelper, Lives
<1> QED BY <1>1, <1>2, ScreenAssumption DEF SlotInv

LEMMA SlotStep ==
    ASSUME Shape, TableInv, SlotInv, [Next]_vars
    PROVE  SlotInv'
<1>1. CASE UNCHANGED vars
  <2>1. UNCHANGED <<req, slot, helper>>
    BY <1>1 DEF vars, screenVars
  <2> QED BY <2>1, SameSlotwise, SameEnds, SlotKeep
<1>2. CASE OthersMove
  BY <1>2, SlotEnsure, SlotSpawn, SlotHello, SlotDiscard, SlotCall, SlotAround, SlotOutside DEF OthersMove, OfClient
<1> QED BY <1>1, <1>2, SlotScreen, Steps

\* The slot's mutex has one holder, every helper that lives is known to it, to its spawner
\* or to a parent that is gone, and the table of sessions names a session once, through
\* ensure, spawn, hello, discard, time-outs, crashes and restarts (winsession/client.rs).
THEOREM SlotIsKept == Spec => [](Shape /\ TableInv /\ SlotInv)
<1>1. Init => Shape /\ TableInv /\ SlotInv
  BY ShapeInit, SlotInit
<1>2. Shape /\ TableInv /\ SlotInv /\ [Next]_vars => (Shape /\ TableInv /\ SlotInv)'
  BY ShapeStep, SlotStep
<1> QED BY <1>1, <1>2, PTL DEF Spec

\* The state keeps its type: the table its bound and one entry for each id, the lock
\* its one holder, the living helpers a port each.
THEOREM HelperTypeOK == Spec => []TypeOK
<1>1. Shape /\ TableInv /\ SlotInv => TypeOK
  <2> SUFFICES ASSUME Shape, TableInv, SlotInv PROVE TypeOK
    OBVIOUS
  <2>1. \A c \in Calls : req[c].pc \in {"off", "asked", "spawn", "starting", "call", "broken", "failed"} \cup Inside
    BY DEF Shape, ReqOK, Asking, Pcs, Before, SlotSteps, Inside
  <2> QED BY <2>1 DEF TableInv, SlotInv, SlotSteps, TypeOK
<1> QED BY <1>1, SlotIsKept, PTL

\* A helper that runs is the one in the slot or the one being started, or it is about
\* to notice that its service is gone: no step of ensure, discard, spawn, a crash or a
\* restart leaves one behind (winsession/client.rs).
THEOREM NoStrayHelper == Spec => []HelperIsKnown
<1>1. Shape /\ TableInv /\ SlotInv => HelperIsKnown
  BY DEF SlotInv, Known, HelperIsKnown, SlotSteps
<1> QED BY <1>1, SlotIsKept, PTL
===============================================================================
