------------------------ MODULE MCStreamConnection ------------------------
(***************************************************************************)
(* Model-checking instances of StreamConnection.                           *)
(***************************************************************************)
EXTENDS StreamConnection, TLC

CONSTANTS w1, w2

Symmetry == Permutations({w1, w2})
===========================================================================
