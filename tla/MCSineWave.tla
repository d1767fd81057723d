----------------------------- MODULE MCSineWave -----------------------------
(***************************************************************************)
(* TLC instance of SineWave: one period of four cycles.                    *)
(***************************************************************************)
EXTENDS SineWave
=============================================================================
