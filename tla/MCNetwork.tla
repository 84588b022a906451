----------------------------- MODULE MCNetwork -----------------------------
(* Topologies for TLC. *)
EXTENDS Network

Full(a, b, delay, bandwidth) == NewLink(a, b, "FULL_DUPLEX", delay, bandwidth, FALSE)

\* A ring of five nodes on which paths tie under every metric.
Ring == <<Full(0, 4, 0, 1), Full(0, 1, 0, 2), Full(1, 3, 0, 2), Full(2, 4, 0, 2),
          Full(2, 3, 0, 1)>>

\* Five nodes, two of them doubly connected, with delays that differ and tie.
Mesh == <<Full(0, 1, 1, 2), Full(0, 1, 2, 1), Full(0, 2, 0, 1), Full(1, 2, 1, 2),
          Full(1, 3, 2, 2), Full(2, 4, 2, 1), Full(3, 4, 0, 2)>>

\* Three nodes: two parallel links, one of them lossy, a half-duplex link and a
\* simplex detour.
Triangle == <<NewLink(0, 1, "FULL_DUPLEX", 1, 2, TRUE),
              Full(0, 1, 2, 2),
              NewLink(1, 2, "HALF_DUPLEX", 0, 1, FALSE),
              NewLink(0, 2, "SIMPLEX", 3, 2, FALSE)>>

RoutingTopologies == {Ring, Mesh}
RoutingNewLinks == {Full(0, 3, 1, 2)}

PacketTopologies == {Triangle, Ring}
PacketFlows == {<<0, 2>>, <<2, 0>>, <<2, 1>>}
PacketNewLinks == {Full(0, 1, 0, 2)}

NoFlows == {}
=============================================================================
