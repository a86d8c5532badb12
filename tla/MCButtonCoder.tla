--------------------------- MODULE MCButtonCoder ---------------------------
(***************************************************************************)
(* Up to two flags at once, and axes at the ends and in the middle of      *)
(* their range: with two flags every confusion of two fields shows.        *)
(***************************************************************************)
EXTENDS ButtonCoder, FiniteSets

MCInputs ==
  { [ flags |-> [f \in Flags |-> IF f \in pressed THEN 1 ELSE 0],
      axes  |-> [a \in Axes |-> IF a = "X_AXIS" THEN x ELSE y] ] :
      pressed \in {{f, g} : f, g \in Flags} \union {{}},
      x \in {-128, -1, 0, 127}, y \in {-128, 0, 127} }
=============================================================================
