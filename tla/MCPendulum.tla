----------------------------- MODULE MCPendulum -----------------------------
(***************************************************************************)
(* TLC instance of Pendulum with a velocity of every kind: zero, both      *)
(* directions at two speeds, too slow, too fast and not finite.            *)
(***************************************************************************)
EXTENDS Pendulum

MCVelocities == {NaN, 0, 1, 2, -3, 9}
=============================================================================
