--------------------------- MODULE MCDoubleBuffer ---------------------------
(***************************************************************************)
(* TLC instance of DoubleBuffer: the command buffer, with one reader and a *)
(* count of the writes.  The version counters wrap during a behaviour.     *)
(***************************************************************************)
EXTENDS DoubleBuffer
=============================================================================
