----------------------------- MODULE MCPingPong -----------------------------
(***************************************************************************)
(* TLC instance of PingPong: a 32-bit board, which needs two words for a   *)
(* double, and one reset.                                                  *)
(***************************************************************************)
EXTENDS PingPong
=============================================================================
