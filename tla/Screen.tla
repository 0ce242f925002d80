-------------------------------- MODULE Screen --------------------------------
(***************************************************************************)
(* The live screen, GET /screen (crates/agent/src/screen.rs, tiles.rs,     *)
(* wire.rs, h264.rs and annexb.rs): the table of sessions, one reply at a  *)
(* time from the frame sent last, tiles or video; and the viewers that ask *)
(* for it (external: docs/SCREEN-PROTOCOL.md), whose requests and replies  *)
(* get lost.  A frame is a grid of tiles, a tile one of two colours.       *)
(***************************************************************************)
EXTENDS Naturals, Sequences, FiniteSets

CONSTANTS
    None,
    Viewers,        \* the viewers, and their session ids
    Calls,          \* bound: requests under way at once
    Sessions,       \* names for session objects
    MAX_SESSIONS,   \* size of the table
    Worlds          \* the devices to start from, see world

VARIABLES
    world,      \* the device, see Device
    screen,     \* the desktop: a frame
    table,      \* [sid, sess] in the order of last use
    sess,       \* the session objects
    req,        \* the requests under way
    viewer,     \* what each viewer has
    hook,       \* the process-wide panic hook
    left        \* what may still happen, see Spend

screenVars == <<world, screen, table, sess, req, viewer, hook, left>>

Grid(cols, rows) == (1 .. cols) \X (1 .. rows)
IsGrid(g) == IsFiniteSet(g) /\ \E cols, rows \in 1 .. Cardinality(g) : g = Grid(cols, rows)
Codecs == {"tiles", "h264"}

\* A device: whether it is a service that cannot see the desktop, whether it has
\* an encoder, its first frame and those that may follow, its viewers, what they
\* ask for, and the bounds of what may happen.
Bounds == {"paints", "giveups", "faults", "idles", "switches", "restarts", "consoles", "exits"}
IsDevice(w) ==
    /\ w.session0 \in BOOLEAN /\ w.h264 \in BOOLEAN
    /\ IsGrid(DOMAIN w.start) /\ w.start \in [DOMAIN w.start -> {0, 1}]
    /\ \A g \in w.grids : IsGrid(g)
    /\ w.viewers \subseteq Viewers
    /\ w.widths \subseteq Nat \ {0} /\ w.width \in Nat \ {0}
    /\ w.codecs \subseteq Codecs /\ w.codec \in Codecs
    /\ w.budget \in [Bounds -> Nat]

ASSUME ScreenAssumption ==
    /\ None \notin Viewers /\ None \notin Sessions /\ None \notin Calls
    /\ MAX_SESSIONS \in Nat \ {0}
    /\ \A w \in Worlds : IsDevice(w)

NoSession == [seq |-> 0, prev |-> None, codec |-> None, enc |-> None, h264_failed |-> FALSE]
NoRequest == [pc |-> "off", v |-> None, ack |-> 0, of |-> None, codec |-> "tiles", w |-> 0,
              heard |-> FALSE, sess |-> None, img |-> None, prev |-> "default",
              reply |-> None, pid |-> None, port |-> None]
NoViewer == [ack |-> 0, of |-> None, canvas |-> None, codec |-> "tiles", w |-> 0,
             garbled |-> FALSE, stale |-> FALSE]

ScreenInit ==
    /\ world \in Worlds
    /\ screen = world.start /\ left = world.budget /\ hook = "default"
    /\ table = <<>> /\ sess = [s \in Sessions |-> NoSession]
    /\ req = [c \in Calls |-> NoRequest]
    /\ viewer = [v \in Viewers |-> [NoViewer EXCEPT !.codec = world.codec, !.w = world.width]]

Spend(what) == left[what] > 0 /\ left' = [left EXCEPT ![what] = @ - 1]
-----------------------------------------------------------------------------
(* Tiles.                                                                   *)

\* grab_rgb, scaled down to w columns.
Scaled(f, w) == [t \in {u \in DOMAIN f : u[1] <= w} |-> f[t]]

Diff(a, b) == {t \in DOMAIN b : a[t] # b[t]}

MostlyChanged(changed, f) == Cardinality(changed) * 100 > Cardinality(DOMAIN f) * 60

Columns(f) == {t[1] : t \in DOMAIN f}
Rows(f) == {t[2] : t \in DOMAIN f}

\* A horizontal run of changed tiles in a row, as long as it gets.
IsRun(changed, f, c0, c1, r) ==
    /\ c0 <= c1
    /\ \A c \in c0 .. c1 : <<c, r>> \in changed
    /\ <<c0 - 1, r>> \notin changed /\ <<c1 + 1, r>> \notin changed

\* merge: the same run on consecutive rows becomes one rectangle.
NeverTaller(changed, f) ==
    {R \in [c0 : Columns(f), c1 : Columns(f), r0 : Rows(f), r1 : Rows(f)] :
        /\ R.r1 = R.r0 /\ IsRun(changed, f, R.c0, R.c1, R.r0)
        /\ ~IsRun(changed, f, R.c0, R.c1, R.r0 - 1)}
Merge(changed, f) ==
    {R \in [c0 : Columns(f), c1 : Columns(f), r0 : Rows(f), r1 : Rows(f)] :
        /\ R.r0 <= R.r1
        /\ \A r \in R.r0 .. R.r1 : IsRun(changed, f, R.c0, R.c1, r)
        /\ ~IsRun(changed, f, R.c0, R.c1, R.r0 - 1)
        /\ ~IsRun(changed, f, R.c0, R.c1, R.r1 + 1)}

Full(f) == {[c0 |-> 1, c1 |-> Cardinality(Columns(f)), r0 |-> 1, r1 |-> Cardinality(Rows(f))]}
In(R, t) == t[1] \in R.c0 .. R.c1 /\ t[2] \in R.r0 .. R.r1
-----------------------------------------------------------------------------
(* Video.  An access unit: whether it holds an IDR, SPS and PPS.            *)

\* The encoder (external) makes an IDR when told, and when it likes; its first
\* one comes with SPS and PPS, or they are found beside the stream.
Units(force) ==
    {u \in [idr : BOOLEAN, sps : BOOLEAN, pps : BOOLEAN] :
        (force => u.idr) /\ (u.sps \/ u.pps => u.idr)}

\* with_param_sets: an IDR that lacks either gets both.
ParamsIfNeither(u) == IF u.idr /\ ~u.sps /\ ~u.pps THEN [u EXCEPT !.sps = TRUE, !.pps = TRUE] ELSE u
WithParamSets(u) == IF u.idr /\ ~(u.sps /\ u.pps) THEN [u EXCEPT !.sps = TRUE, !.pps = TRUE] ELSE u
-----------------------------------------------------------------------------
(* The agent's side.                                                        *)

\* An object that is no longer there: nothing can be sent from it any more.
Unused == {s \in Sessions :
    /\ \A i \in DOMAIN table : table[i].sess # s
    /\ \A c \in Calls : req[c].sess # s /\ (req[c].pc = "done" => req[c].reply.of # s)}

\* session_for: entries idle for 60 s go; the entry of this sid is now the latest
\* used, or a new one takes the place of the least recently used.
SessionFor(c) ==
    /\ req[c].pc = "here"
    /\ \E idle \in 0 .. Len(table) :
        LET kept == SubSeq(table, idle + 1, Len(table))
            mine == {i \in DOMAIN kept : kept[i].sid = req[c].v}
            at == CHOOSE i \in mine : TRUE
            s == IF mine # {} THEN kept[at].sess ELSE CHOOSE x \in Unused : TRUE
            others == IF mine # {} THEN SubSeq(kept, 1, at - 1) \o SubSeq(kept, at + 1, Len(kept))
                      ELSE IF Len(kept) >= MAX_SESSIONS THEN Tail(kept) ELSE kept
        IN /\ IF idle = 0 THEN UNCHANGED left ELSE Spend("idles")
           /\ mine = {} => Unused # {}    \* Sessions is a bound
           /\ table' = Append(others, [sid |-> req[c].v, sess |-> s])
           /\ sess' = [x \in Sessions |-> IF x \in Unused THEN NoSession ELSE sess[x]]
           /\ viewer' = [v \in Viewers |-> IF viewer[v].of \in Unused THEN [viewer[v] EXCEPT !.of = None] ELSE viewer[v]]
           /\ req' = [req EXCEPT ![c].pc = "have", ![c].sess = s]
    /\ UNCHANGED <<world, screen, hook>>

\* The session's lock is held from here to the reply.  grab_rgb runs with a quiet
\* panic hook, and puts back the one it found.
Capture(c) ==
    /\ req[c].pc = "have"
    /\ \A d \in Calls : req[d].pc = "captured" => req[d].sess # req[c].sess
    /\ req' = [req EXCEPT ![c].pc = "captured", ![c].img = Scaled(screen, req[c].w), ![c].prev = hook]
    /\ hook' = "quiet"
    /\ UNCHANGED <<world, screen, table, sess, viewer, left>>

\* The codec a request gets from a session.
CodecFor(p, s) == IF p.codec = "h264" /\ world.h264 /\ ~s.h264_failed THEN "h264" ELSE "tiles"

NeedsKeyForSize(p, s, codec) ==
    p.ack = 0 \/ p.ack # s.seq \/ s.prev = None \/ DOMAIN s.prev # DOMAIN p.img
NeedsKey(p, s, codec) ==
    \/ p.ack = 0 \/ p.ack # s.seq \/ s.codec # codec
    \/ s.prev = None \/ DOMAIN s.prev # DOMAIN p.img

Header(kind, seq, key) ==
    [kind |-> kind, seq |-> seq, key |-> key, img |-> None, rects |-> {}, base |-> None, au |-> None,
     of |-> None]

\* The reply leaves, the lock and the hook are given back.
Answer(c, s, reply) ==
    /\ sess' = [sess EXCEPT ![req[c].sess] = s]
    /\ hook' = req[c].prev
    /\ LET p == req[c]
       IN req' = [req EXCEPT ![c] =
            IF ~p.heard THEN NoRequest
            ELSE [NoRequest EXCEPT !.pc = "done", !.v = p.v, !.heard = TRUE, !.pid = p.pid, !.port = p.port,
                                   !.reply = [reply EXCEPT !.of = p.sess]]]
    /\ UNCHANGED <<world, screen, table, viewer>>

\* Nothing changed: an empty update, after a while or when the pointer moved.
Unchanged(p, s, codec) == ~NeedsKey(p, s, codec) /\ Diff(s.prev, p.img) = {}
AnswerUnchanged(c) ==
    LET p == req[c]
        s == sess[p.sess]
        codec == CodecFor(p, s)
    IN /\ p.pc = "captured" /\ Unchanged(p, s, codec)
       /\ Answer(c, s, Header("unchanged", s.seq, FALSE))
       /\ UNCHANGED left

Sent(s, codec, img) == [s EXCEPT !.seq = @ + 1, !.codec = codec, !.prev = img]

TilesReply(s, key, img) ==
    LET full == key \/ MostlyChanged(Diff(s.prev, img), img)
    IN [Header("tiles", s.seq + 1, full) EXCEPT
            !.img = img, !.rects = IF full THEN Full(img) ELSE Merge(Diff(s.prev, img), img)]

AnswerTiles(c) ==
    LET p == req[c]
        s == sess[p.sess]
        codec == CodecFor(p, s)
    IN /\ p.pc = "captured" /\ codec = "tiles" /\ ~Unchanged(p, s, codec)
       /\ Answer(c, Sent(s, codec, p.img), TilesReply(s, NeedsKey(p, s, codec), p.img))
       /\ UNCHANGED left

\* encode_h264: a new encoder, which begins with an IDR, unless there is one of
\* this size.
HasEncoder(s, img) == s.enc # None /\ DOMAIN s.enc = DOMAIN img
AnswerVideo(c) ==
    LET p == req[c]
        s == sess[p.sess]
        codec == CodecFor(p, s)
        key == NeedsKey(p, s, codec)
        force == key \/ ~HasEncoder(s, p.img)
    IN /\ p.pc = "captured" /\ codec = "h264" /\ ~Unchanged(p, s, codec)
       /\ \/ \E u \in Units(force) :
               /\ Answer(c, [Sent(s, codec, p.img) EXCEPT !.enc = p.img],
                         [Header("h264", s.seq + 1, key \/ force \/ u.idr) EXCEPT
                             !.img = p.img, !.base = s.enc, !.au = WithParamSets(u)])
               /\ UNCHANGED left
          \* The encoder cannot be made, or fails: tiles from now on.
          \/ LET t == [s EXCEPT !.enc = None, !.h264_failed = TRUE]
             IN /\ Answer(c, Sent(t, "tiles", p.img), TilesReply(t, TRUE, p.img))
                /\ Spend("faults")

\* The capture fails: 500, and the session is as it was.
AnswerError(c) ==
    /\ req[c].pc = "captured"
    /\ Answer(c, sess[req[c].sess], Header("error", 0, FALSE))

Respond(c) ==
    \/ AnswerUnchanged(c) \/ AnswerTiles(c) \/ AnswerVideo(c)
    \/ AnswerError(c) /\ Spend("faults")
-----------------------------------------------------------------------------
(* The viewers (external), one request at a time each.                      *)

Waits(v) == \E c \in Calls : req[c].v = v /\ req[c].heard

Ask(v, pc) ==
    /\ v \in world.viewers /\ ~Waits(v)
    /\ \E c \in Calls :
        /\ req[c].pc = "off" /\ \A d \in Calls : d < c => req[d].pc # "off"
        /\ req' = [req EXCEPT ![c] = [NoRequest EXCEPT !.pc = pc, !.v = v, !.heard = TRUE, !.ack = viewer[v].ack,
                                                       !.codec = viewer[v].codec, !.w = viewer[v].w]]
    /\ UNCHANGED <<world, screen, table, sess, viewer, hook, left>>

\* It stops waiting; the agent may answer all the same.
GiveUp(v) == \E c \in Calls :
    /\ req[c].v = v /\ req[c].heard /\ Spend("giveups")
    /\ req' = [req EXCEPT ![c] = IF @.pc = "done" THEN NoRequest ELSE [req[c] EXCEPT !.heard = FALSE]]
    /\ UNCHANGED <<world, screen, table, sess, viewer, hook>>

\* It draws what it is sent onto what it has.  The picture of a delta that refers
\* to another one, or of an IDR without its parameters, is garbled until the next
\* key frame.  stale: it took a delta of a session it had no frame of.
Drawn(canvas, r) ==
    [t \in DOMAIN (IF r.key THEN r.img ELSE canvas) |->
        IF t \in DOMAIN r.img /\ \E R \in r.rects : In(R, t) THEN r.img[t]
        ELSE IF r.key THEN 2 ELSE canvas[t]]

Applied(o, r) ==
    LET new == [o EXCEPT !.ack = r.seq, !.of = r.of, !.stale = ~r.key /\ (@ \/ o.of # r.of)]
    IN CASE r.kind = "error" -> o
         [] r.kind = "unchanged" -> new
         [] r.kind = "tiles" -> [new EXCEPT !.canvas = Drawn(o.canvas, r), !.garbled = @ /\ ~r.key]
         [] r.kind = "h264" -> [new EXCEPT !.canvas = r.img,
                !.garbled = IF r.key THEN ~(r.au.idr /\ r.au.sps /\ r.au.pps) ELSE @ \/ o.canvas # r.base]

Deliver(c) ==
    /\ req[c].pc = "done"
    /\ viewer' = [viewer EXCEPT ![req[c].v] = Applied(@, req[c].reply)]
    /\ req' = [req EXCEPT ![c] = NoRequest]
    /\ UNCHANGED <<world, screen, table, sess, hook, left>>

\* The viewer asks for another size or codec from now on.
Switch(v) ==
    /\ v \in world.viewers /\ Spend("switches")
    /\ \E w \in world.widths, codec \in world.codecs :
        viewer' = [viewer EXCEPT ![v].w = w, ![v].codec = codec]
    /\ UNCHANGED <<world, screen, table, sess, req, hook>>

\* The desktop shows something else, perhaps at another resolution.
Paint ==
    /\ Spend("paints")
    /\ \E g \in world.grids : \E f \in [g -> {0, 1}] : screen' = f
    /\ UNCHANGED <<world, table, sess, req, viewer, hook>>

\* The process that holds the sessions ends, and every request it has with it.
Lost == [c \in Calls |-> IF req[c].pc \in {"here", "have", "captured", "done"} THEN NoRequest ELSE req[c]]
RestartAgent ==
    /\ ~world.session0 /\ Spend("restarts")
    /\ table' = <<>> /\ hook' = "default"
    /\ req' = Lost
    /\ UNCHANGED <<world, screen, sess, viewer>>

-----------------------------------------------------------------------------
(* Properties.                                                              *)

\* What the viewer shows.
Shows(v, f) == viewer[v].canvas = f /\ ~viewer[v].garbled

\* The frame a session takes the viewer to have, once its last reply is
\* acknowledged, is the frame the viewer has, through lost replies, changes of size
\* and codec and encoder failures, if the number is one this session gave
\* (screen.rs: respond; tiles.rs: merge; annexb.rs: with_param_sets).
AckedIsShown == \A i \in DOMAIN table :
    LET v == table[i].sid
        s == sess[table[i].sess]
    IN viewer[v].of = table[i].sess /\ viewer[v].ack = s.seq /\ ~viewer[v].stale => Shows(v, s.prev)

\* "`ack` != the session's last `seq` (a response was lost or this is a new viewer)"
\* (SCREEN-PROTOCOL.md): no delta reaches a viewer that did not get the frame before.
LostBringsKey == \A v \in Viewers : ~viewer[v].stale
===============================================================================
