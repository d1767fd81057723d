------------------------------ MODULE MCClient ------------------------------
(***************************************************************************)
(* TLC instances of Client: Tier 1 with its tokens, pools of two           *)
(* publishers and one subscriber, payloads that fit, that the codecs make  *)
(* too large for the buffers of the client, and that are too large for the *)
(* transport.                                                              *)
(***************************************************************************)
EXTENDS Client
=============================================================================
