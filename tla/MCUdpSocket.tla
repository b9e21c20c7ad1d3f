----------------------------- MODULE MCUdpSocket -----------------------------
(***************************************************************************)
(* Model-checking instances of UdpSocket.                                  *)
(***************************************************************************)
EXTENDS UdpSocket, TLC

CONSTANTS p1, p2, w1, w2

Symmetry == Permutations(Peers) \cup Permutations(Writers)
=============================================================================
