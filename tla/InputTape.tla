------------------------------ MODULE InputTape ------------------------------
(***************************************************************************)
(* What one controller port promises the game: a tape of inputs indexed by *)
(* frame.  A cell is written at most once and never changes; the game is   *)
(* handed the cells in order, each exactly once, and only once written.    *)
(* The cells of the initial delay are written from the start, with the     *)
(* default buttons.  (README.md of the repository: "deterministic lockstep *)
(* netplay"; client/input-queue.h, the comments on the class, PutButtons   *)
(* and GetButtons.)  InputQueue and Lockstep implement this module.        *)
(***************************************************************************)
EXTENDS Integers, Sequences

CONSTANTS Buttons,  \* what a cell holds
          Default,  \* what the cells of the initial delay hold
          Delays,   \* the lengths the initial delay may have
          Frames    \* the cells somebody may write

VARIABLES inputs,  \* the written cells: a function from frames to buttons
          out      \* what the game has been handed, in order

vars == <<inputs, out>>

Init ==
  \E delay \in Delays :
     /\ inputs = [f \in 0..(delay - 1) |-> Default]
     /\ out = <<>>

\* An input for a cell nobody has written.
Write(frame, buttons) ==
  /\ frame \notin DOMAIN inputs
  /\ inputs' = [f \in DOMAIN inputs \union {frame} |->
                  IF f = frame THEN buttons ELSE inputs[f]]
  /\ UNCHANGED out

\* The game is handed the next cell.
Read ==
  /\ Len(out) \in DOMAIN inputs
  /\ out' = Append(out, [frame |-> Len(out), buttons |-> inputs[Len(out)]])
  /\ UNCHANGED inputs

Next ==
  \/ Read
  \/ \E frame \in Frames, buttons \in Buttons : Write(frame, buttons)

Spec == Init /\ [][Next]_vars
=============================================================================
