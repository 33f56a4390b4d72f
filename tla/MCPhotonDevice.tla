--------------------------- MODULE MCPhotonDevice ---------------------------
(* Instances of PhotonDevice small enough for TLC: a "second" of 2 ms, an   *)
(* int that overflows after 2 s and a 64-bit word that holds 0 .. 15.       *)
EXTENDS PhotonDevice

MCDelays == {0, 1, 3}
MCScoopCounts == {1, 2}
MCCheckInTimes == {0, 1, 3}
\* A long check-in: 5 ms are 2 or 3 seconds, more than an int can hold.
MCLongCheckInTimes == {0, 2, 5}
MCNoJumps == {0}
MCJumps == {-2, 0, 3}
=============================================================================
