-------------------------- MODULE MCLockstepHandlers -------------------------
(***************************************************************************)
(* Two players with different delays, whose streams may break.             *)
(***************************************************************************)
EXTENDS LockstepHandlers, TLC

CONSTANTS c1, c2, port1, port2

MCOwner == port1 :> c1 @@ port2 :> c2
MCDelay == port1 :> 1 @@ port2 :> 0
=============================================================================
