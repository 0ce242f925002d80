-------------------------------- MODULE MCTunnel --------------------------------
(* Small instances of Tunnel: see the run relay_tunnel of README.md.            *)
EXTENDS Tunnel

A(host, tls, path) == [host |-> host, tls |-> tls, path |-> path]

\* The operator's host over http, the hub's moves: https, a path, a subdomain, elsewhere.
MCRelay == A("hub", FALSE, <<>>)
MCAddrs == {MCRelay, A("hub", TRUE, <<>>), A("hub", TRUE, <<"moved">>),
            A("new.hub", TRUE, <<"moved">>), A("other", TRUE, <<>>)}
MCBelow == {<<"hub", "hub">>, <<"hub", "new.hub">>, <<"new.hub", "new.hub">>, <<"other", "other">>}

Lim(m, r, f) == [moves |-> m, restarts |-> r, faults |-> f]
Op(op, again) == [op |-> op, id |-> "s", again |-> again]
World(o1, o2, a, l) == [asks |-> [r1 |-> o1, r2 |-> o2], first |-> a, left |-> l]

Nothing == Op("none", FALSE)
Other == Op("other", FALSE)
Moving == {World(Nothing, Nothing, a, Lim(2, 0, 0)) : a \in MCAddrs}
          \cup {World(Other, Nothing, MCRelay, Lim(1, 1, 1))}
Scheduling == {World(Op("add", b), Op(o, FALSE), MCRelay, Lim(0, 1, 1)) : b \in BOOLEAN, o \in {"add", "del"}}
All == Moving \cup Scheduling
=================================================================================
