---------------------------- MODULE MCInputQueue ----------------------------
(***************************************************************************)
(* The instance of InputQueue for TLC: a negative delay, none, and one.    *)
(* There is no symmetry, since liveness is checked too.                    *)
(***************************************************************************)
EXTENDS InputQueue

MCDelays == {-1, 0, 1}
=============================================================================
