----------------------------- MODULE MCLockstep -----------------------------
(***************************************************************************)
(* Two players, one of them with two ports on the same machine.            *)
(***************************************************************************)
EXTENDS Lockstep, TLC

CONSTANTS c1, c2, port1, port2, port3

MCOwner == port1 :> c1 @@ port2 :> c2 @@ port3 :> c1
MCDelay == port1 :> 1 @@ port2 :> 0 @@ port3 :> 1
=============================================================================
