----------------------------- MODULE MCSession -----------------------------
(***************************************************************************)
(* A machine with two controllers, on channels 0 and 2, and one with one.  *)
(***************************************************************************)
EXTENDS Session

CONSTANTS m1, m2

MCChannels == [m \in Machines |-> IF m = m1 THEN {0, 2} ELSE {1}]
MCAttempts == [m \in Machines |-> IF m = m1 THEN 2 ELSE 1]
MCOneAttempt == [m \in Machines |-> 1]
MCDelays == [m \in Machines |-> IF m = m1 THEN 2 ELSE 0]

\* Any port and a given one, a given one, one that is no port, and none.
MCConfigurations ==
  { <<0, -1, 3, -1>>, <<-1, -1, -1, 1>>, <<7, -1, -1, -1>>, <<-1, -1, -1, -1>> }

MCValidConfigurations == { <<0, -1, 3, -1>>, <<-1, -1, -1, 1>> }
=============================================================================
