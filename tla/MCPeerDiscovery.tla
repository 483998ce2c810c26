--------------------------- MODULE MCPeerDiscovery ---------------------------
(* Model checking of PeerDiscovery: what peers may answer.                  *)
EXTENDS PeerDiscovery

\* Any addresses; an answer that lists all of them lists one of them twice.
OneTwice ==
  LET twice == CHOOSE a \in Address : TRUE
      All == [a \in Address |-> IF a = twice THEN 2 ELSE 1]
  IN  {All} \cup {f \in [Address -> 0..1] : \E a \in Address : f[a] = 0}
=============================================================================
