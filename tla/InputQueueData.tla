--------------------------- MODULE InputQueueData ---------------------------
(***************************************************************************)
(* The data of one InputQueue (client/input-queue.h, input-queue.hpp): the *)
(* members m_ guards, and what each locked section computes from them.     *)
(* Who runs these sections, and in what order, is the business of the      *)
(* modules that use this one: InputQueue (threads), EventStreamHandler     *)
(* (one client) and Lockstep (all clients of a console).                   *)
(***************************************************************************)
EXTENDS Integers, Functions

CONSTANTS Buttons,  \* the values of ButtonsType
          Default   \* ButtonsType(), what the frames of the delay are given

ASSUME DefaultAssumption == Default \in Buttons

(***************************************************************************)
(* The members of the class.  frame_buttons is the std::map, a function on *)
(* the frames it holds.                                                    *)
(***************************************************************************)
NewQueue(delay, initial) ==
  [ delay_frames           |-> delay,
    initial_frame_delay    |-> initial,
    latest_frame_requested |-> -1,
    frame_buttons          |-> [f \in {} |-> Default] ]

\* A bug: the frames of the delay are not given the default buttons.
MakeQueueWithoutInitialDelay(delay) == NewQueue(0, 0)
MakeShiftingQueueWithoutInitialDelay(delay) == NewQueue(delay, 0)

\* A local queue shifts what it is given by the delay of its port.
MakeLocalQueue(delay) == NewQueue(delay, delay)

\* A remote queue is given frames its sender has already shifted.
MakeRemoteQueue(delay) == NewQueue(0, delay)

Buffered(q) == DOMAIN q.frame_buttons

\* The type of a queue: no frame before frame 0 is ever in the map.
IsQueue(q) ==
  /\ q = [ delay_frames           |-> q.delay_frames,
           initial_frame_delay    |-> q.initial_frame_delay,
           latest_frame_requested |-> q.latest_frame_requested,
           frame_buttons          |-> q.frame_buttons ]
  /\ q.delay_frames \in Int
  /\ q.initial_frame_delay \in Int
  /\ q.latest_frame_requested \in Int
  /\ q.latest_frame_requested >= -1
  /\ Buffered(q) \subseteq Nat
  /\ q.frame_buttons \in [Buffered(q) -> Buttons]

DelayedFrame(q, frame) == frame + q.delay_frames

\* Bugs: an early return of PutButtons is missing.
AcceptsDuringDelay(q, frame) ==
  /\ frame >= 0
  /\ DelayedFrame(q, frame) > q.latest_frame_requested
  /\ DelayedFrame(q, frame) \notin Buffered(q)

AcceptsPast(q, frame) ==
  /\ frame >= 0
  /\ DelayedFrame(q, frame) >= q.initial_frame_delay
  /\ DelayedFrame(q, frame) \notin Buffered(q)

AcceptsDuplicates(q, frame) ==
  /\ frame >= 0
  /\ DelayedFrame(q, frame) >= q.initial_frame_delay
  /\ DelayedFrame(q, frame) > q.latest_frame_requested

\* A bug: the latest frame requested may still be put.
AcceptsLatest(q, frame) ==
  /\ frame >= 0
  /\ DelayedFrame(q, frame) >= q.initial_frame_delay
  /\ DelayedFrame(q, frame) >= q.latest_frame_requested
  /\ DelayedFrame(q, frame) \notin Buffered(q)

\* The four early returns of PutButtons, negated.
Accepts(q, frame) ==
  /\ frame >= 0
  /\ DelayedFrame(q, frame) >= q.initial_frame_delay
  /\ DelayedFrame(q, frame) > q.latest_frame_requested
  /\ DelayedFrame(q, frame) \notin Buffered(q)

\* frame_buttons_.insert({delayed_frame, buttons})
Insert(q, frame, buttons) ==
  [q EXCEPT !.frame_buttons =
     [f \in Buffered(q) \union {DelayedFrame(q, frame)} |->
        IF f = DelayedFrame(q, frame) THEN buttons ELSE q.frame_buttons[f]]]

\* The insertions of a batch one after the other: buttons_of is a function on
\* the delayed frames it brings.
InsertAll(q, buttons_of) ==
  [q EXCEPT !.frame_buttons =
     [f \in Buffered(q) \union DOMAIN buttons_of |->
        IF f \in DOMAIN buttons_of THEN buttons_of[f] ELSE q.frame_buttons[f]]]

ExpectedFrame(q) == q.latest_frame_requested + 1

\* A bug: off by one.
InDelayOrNext(q, frame) == frame <= q.initial_frame_delay

InInitialDelay(q, frame) == frame < q.initial_frame_delay

HasButtons(q, frame) == frame \in Buffered(q)

\* A frame of the initial delay is answered without looking at the map.
SkipDelay(q, frame) == [q EXCEPT !.latest_frame_requested = frame]

\* A bug: the frame is not erased.
TakeKeeping(q, frame) == [q EXCEPT !.latest_frame_requested = frame]

\* What a successful get of a buffered frame leaves behind.
Take(q, frame) ==
  [SkipDelay(q, frame) EXCEPT !.frame_buttons =
     Restrict(q.frame_buttons, Buffered(q) \ {frame})]

\* A bug: the expected frame is not enforced.
ReadyInAnyOrder(q, frame) == InInitialDelay(q, frame) \/ HasButtons(q, frame)

(***************************************************************************)
(* A get that does not wait, in one piece: when it succeeds, what it       *)
(* returns, and the queue it leaves.                                       *)
(***************************************************************************)
Ready(q, frame) ==
  /\ frame = ExpectedFrame(q)
  /\ InInitialDelay(q, frame) \/ HasButtons(q, frame)

Answer(q, frame) ==
  IF InInitialDelay(q, frame) THEN Default ELSE q.frame_buttons[frame]

Advance(q, frame) ==
  IF InInitialDelay(q, frame) THEN SkipDelay(q, frame) ELSE Take(q, frame)
=============================================================================
