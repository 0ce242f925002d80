------------------------------ MODULE MCVpnExit ------------------------------
(* Instances of VpnExit for TLC: two states the hub may apply, two uplinks.  *)
EXTENDS VpnExit

MCDesiredA == [id |-> "r1", peers |-> {"p1", "p2"}]
MCDesiredB == [id |-> "r2", peers |-> {"p2"}]
MCTwo == {MCDesiredA, MCDesiredB}
MCPair == {[id |-> "r1", peers |-> {}], [id |-> "r2", peers |-> {"p1"}]}
MCBare == {[id |-> "r1", peers |-> {}]}
MCOne == {[id |-> "r1", peers |-> {"p1"}]}

\* The uplinks are alike, so it does not matter which one is first.
MCInit == Init /\ uplink = "w1"
MCFairSpec == MCInit /\ [][Next]_vars /\ Fairness
=============================================================================
