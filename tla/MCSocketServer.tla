--------------------------- MODULE MCSocketServer ---------------------------
(***************************************************************************)
(* Instances of SocketServer for TLC.  age is only compared with the idle  *)
(* timeout; AgeBound keeps it finite when there is none.                   *)
(***************************************************************************)
EXTENDS SocketServer

AgeBound == age <= IdleTimeout + 1
=============================================================================
