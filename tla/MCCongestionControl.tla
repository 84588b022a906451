------------------------ MODULE MCCongestionControl ------------------------
(* A TLC instance of CongestionControl. *)
EXTENDS CongestionControl

\* From nothing to more than the largest window in steps that hit and miss
\* a multiple of the segment.
MCBytes == {0, 1, 3, 4, 5, 9, 16, 30, 47}

MCCubicIncreases == {1, 2, 7}
=============================================================================
