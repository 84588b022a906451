------------------------ MODULE MCSimulationControl ------------------------
(* Topologies for TLC: none yet, and one link of either kind. *)
EXTENDS SimulationControl

Full == NewLink(0, 1, "FULL_DUPLEX", 0, 1, TRUE)
Half == NewLink(0, 1, "HALF_DUPLEX", 0, 1, TRUE)

MCTopologies == {<<>>, <<Full>>, <<Half>>}
=============================================================================
