------------------------- MODULE ButtonCoderProofs -------------------------
(***************************************************************************)
(* The round trip of every value of BUTTONS.                               *)
(***************************************************************************)
EXTENDS ButtonCoder, TLAPS

\* The two tables are inverse to each other on the flags.
LEMMA TablesMatch ==
  ASSUME NEW flag \in Flags
  PROVE  /\ DecodedFrom[flag] \in DOMAIN EncodedFrom
         /\ EncodedFrom[DecodedFrom[flag]] = flag
  BY DEF Flags, DecodedFrom, EncodedFrom

\* An axis is in range, so storing it in 8 bits changes nothing.
LEMMA Signed8InRange ==
  ASSUME NEW n \in -128..127
  PROVE  Signed8(n) = n
  BY DEF Signed8

\* Decoding what was encoded gives back the buttons, whatever they are.
LEMMA DecodeOfEncode ==
  ASSUME NEW buttons \in BUTTONS
  PROVE  DecodeButtons(EncodeButtons(buttons)) = buttons
<1> DEFINE k == EncodeButtons(buttons)
<1>1. ASSUME NEW flag \in Flags
      PROVE  (IF k.flags[DecodedFrom[flag]] THEN 1 ELSE 0) = buttons.flags[flag]
  <2>1. k.flags[DecodedFrom[flag]] <=> buttons.flags[flag] = 1
    BY <1>1, TablesMatch DEF EncodeButtons
  <2>2. buttons.flags[flag] \in {0, 1}
    BY <1>1 DEF BUTTONS
  <2> QED
    BY <2>1, <2>2
<1>2. ASSUME NEW axis \in Axes
      PROVE  Signed8(k.axes[axis]) = buttons.axes[axis]
  BY <1>2, Signed8InRange DEF EncodeButtons, BUTTONS
<1>3. DecodeButtons(k) = [ flags |-> [flag \in Flags |-> buttons.flags[flag]],
                           axes  |-> [axis \in Axes |-> buttons.axes[axis]] ]
  <2> HIDE DEF k
  <2> QED
    BY <1>1, <1>2 DEF DecodeButtons
<1> QED
  BY <1>3 DEF BUTTONS

(***************************************************************************)
(* What is decoded is what was pressed, for any buttons.                   *)
(***************************************************************************)
THEOREM RoundTripCorrect == Spec => []RoundTrip
<1> DEFINE Inv == /\ in \in BUTTONS
                  /\ key # None => key = EncodeButtons(in)
                  /\ RoundTrip
<1>1. Init => Inv
  BY InputsAssumption DEF Init, RoundTrip
<1>2. Inv /\ [Next]_vars => Inv'
  BY DecodeOfEncode DEF Next, Send, Receive, RoundTrip, vars
<1>3. Inv => RoundTrip
  OBVIOUS
<1> QED
  BY <1>1, <1>2, <1>3, PTL DEF Spec
=============================================================================
