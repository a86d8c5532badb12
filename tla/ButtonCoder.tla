---------------------------- MODULE ButtonCoder ----------------------------
(***************************************************************************)
(* Mupen64ButtonCoder (client/plugins/mupen64/coder.cc): the buttons of    *)
(* one controller on their way through a KeyStatePB.  BUTTONS, of the      *)
(* emulator's API, has sixteen one-bit flags and two signed 8-bit axes;    *)
(* the fields of KeyStatePB are Booleans and integers.  Each function goes *)
(* through the fields one by one, so each has a table of its own here.     *)
(***************************************************************************)
EXTENDS Integers

CONSTANT Inputs  \* the buttons a player may press

Flags == {"R_DPAD", "L_DPAD", "D_DPAD", "U_DPAD", "START_BUTTON", "Z_TRIG",
          "B_BUTTON", "A_BUTTON", "R_CBUTTON", "L_CBUTTON", "D_CBUTTON",
          "U_CBUTTON", "R_TRIG", "L_TRIG", "Reserved1", "Reserved2"}

Axes == {"X_AXIS", "Y_AXIS"}

BUTTONS == [flags : [Flags -> {0, 1}], axes : [Axes -> -128..127]]

ASSUME InputsAssumption == Inputs \subseteq BUTTONS

VARIABLES in,   \* what the player pressed
          key,  \* the key on the wire, or none
          out   \* what the other machine has decoded, or none

vars == <<in, key, out>>

None == [flags |-> "none"]

\* The flag each field is set from; a bug has two of them the wrong way round.
TriggersSwapped ==
  [ right_d_pad |-> "R_DPAD", left_d_pad |-> "L_DPAD", down_d_pad |-> "D_DPAD",
    up_d_pad |-> "U_DPAD", start_button |-> "START_BUTTON", z_trigger |-> "Z_TRIG",
    b_button |-> "B_BUTTON", a_button |-> "A_BUTTON",
    right_c_button |-> "R_CBUTTON", left_c_button |-> "L_CBUTTON",
    down_c_button |-> "D_CBUTTON", up_c_button |-> "U_CBUTTON",
    left_trigger |-> "R_TRIG", right_trigger |-> "L_TRIG",
    reserved_1 |-> "Reserved1", reserved_2 |-> "Reserved2" ]

EncodedFrom ==
  [ right_d_pad |-> "R_DPAD", left_d_pad |-> "L_DPAD", down_d_pad |-> "D_DPAD",
    up_d_pad |-> "U_DPAD", start_button |-> "START_BUTTON", z_trigger |-> "Z_TRIG",
    b_button |-> "B_BUTTON", a_button |-> "A_BUTTON",
    right_c_button |-> "R_CBUTTON", left_c_button |-> "L_CBUTTON",
    down_c_button |-> "D_CBUTTON", up_c_button |-> "U_CBUTTON",
    left_trigger |-> "L_TRIG", right_trigger |-> "R_TRIG",
    reserved_1 |-> "Reserved1", reserved_2 |-> "Reserved2" ]

\* The field each flag is set from.
DecodedFrom ==
  [ R_DPAD |-> "right_d_pad", L_DPAD |-> "left_d_pad", D_DPAD |-> "down_d_pad",
    U_DPAD |-> "up_d_pad", START_BUTTON |-> "start_button", Z_TRIG |-> "z_trigger",
    B_BUTTON |-> "b_button", A_BUTTON |-> "a_button",
    R_CBUTTON |-> "right_c_button", L_CBUTTON |-> "left_c_button",
    D_CBUTTON |-> "down_c_button", U_CBUTTON |-> "up_c_button",
    R_TRIG |-> "right_trigger", L_TRIG |-> "left_trigger",
    Reserved1 |-> "reserved_1", Reserved2 |-> "reserved_2" ]

EncodeButtons(buttons) ==
  [ flags |-> [field \in DOMAIN EncodedFrom |-> buttons.flags[EncodedFrom[field]] = 1],
    axes  |-> buttons.axes ]

\* An integer stored in a signed 8-bit field.
Signed8(n) == ((n + 128) % 256) - 128

DecodeButtons(k) ==
  [ flags |-> [flag \in Flags |-> IF k.flags[DecodedFrom[flag]] THEN 1 ELSE 0],
    axes  |-> [axis \in Axes |-> Signed8(k.axes[axis])] ]

Init == in \in Inputs /\ key = None /\ out = None

Send == key = None /\ key' = EncodeButtons(in) /\ UNCHANGED <<in, out>>

Receive ==
  key # None /\ out = None /\ out' = DecodeButtons(key) /\ UNCHANGED <<in, key>>

Next == Send \/ Receive

Spec == Init /\ [][Next]_vars
-----------------------------------------------------------------------------
(***************************************************************************)
(* What was pressed on one machine is what the other is given: no flag is  *)
(* confused with another or forgotten by either function, and an axis      *)
(* keeps its sign.  (The coder has no test in the repository.)             *)
(***************************************************************************)
RoundTrip == out # None => out = in
=============================================================================
