----------------------------- MODULE MCTcpServer -----------------------------
(***************************************************************************)
(* The model-checking instance of TcpServer.  No symmetry: the run checks  *)
(* liveness too.                                                           *)
(***************************************************************************)
EXTENDS TcpServer

CONSTANTS c1, c2, h1, h2
=============================================================================
