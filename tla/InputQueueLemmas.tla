-------------------------- MODULE InputQueueLemmas --------------------------
(***************************************************************************)
(* What the operators of InputQueueData do to a queue, stated once for the *)
(* proofs about the modules that use them.                                 *)
(***************************************************************************)
EXTENDS InputQueueData, WellFoundedInduction, TLAPS

(***************************************************************************)
(* A queue as it is made (input-queue.hpp:17-34) is a queue, has nothing   *)
(* in its map, and has handed out nothing.                                 *)
(***************************************************************************)
LEMMA NewQueueLemma ==
  ASSUME NEW delay \in Int, NEW initial \in Int
  PROVE  LET q == NewQueue(delay, initial)
         IN  /\ IsQueue(q)
             /\ Buffered(q) = {}
             /\ q.latest_frame_requested = -1
             /\ q.delay_frames = delay
             /\ q.initial_frame_delay = initial
  BY DEF NewQueue, IsQueue, Buffered

(***************************************************************************)
(* An insertion PutButtons accepts (input-queue.hpp:80) adds one frame,    *)
(* later than the latest requested, and disturbs nothing else.             *)
(***************************************************************************)
LEMMA InsertLemma ==
  ASSUME NEW q, IsQueue(q), NEW frame \in Int, NEW buttons \in Buttons,
         Accepts(q, frame)
  PROVE  LET r == Insert(q, frame, buttons)
             d == DelayedFrame(q, frame)
         IN  /\ IsQueue(r)
             /\ d \in Nat
             /\ d > q.latest_frame_requested
             /\ d \notin Buffered(q)
             /\ ~InInitialDelay(q, d)
             /\ Buffered(r) = Buffered(q) \union {d}
             /\ r.frame_buttons[d] = buttons
             /\ \A f \in Buffered(q) : r.frame_buttons[f] = q.frame_buttons[f]
             /\ r.delay_frames = q.delay_frames
             /\ r.initial_frame_delay = q.initial_frame_delay
             /\ r.latest_frame_requested = q.latest_frame_requested
<1> DEFINE r == Insert(q, frame, buttons)
           d == DelayedFrame(q, frame)
<1>1. d \in Nat /\ d > q.latest_frame_requested /\ d \notin Buffered(q)
  BY DEF IsQueue, Accepts, DelayedFrame
<1>2. ~InInitialDelay(q, d)
  BY DEF IsQueue, Accepts, DelayedFrame, InInitialDelay
<1>3. r = [ delay_frames |-> q.delay_frames,
            initial_frame_delay |-> q.initial_frame_delay,
            latest_frame_requested |-> q.latest_frame_requested,
            frame_buttons |-> [f \in Buffered(q) \union {d} |->
                         IF f = d THEN buttons ELSE q.frame_buttons[f]] ]
  BY DEF IsQueue, Insert
<1>4. /\ Buffered(r) = Buffered(q) \union {d}
      /\ r.frame_buttons \in [Buffered(r) -> Buttons]
      /\ r.frame_buttons[d] = buttons
      /\ \A f \in Buffered(q) : r.frame_buttons[f] = q.frame_buttons[f]
  BY <1>1, <1>3 DEF IsQueue, Buffered
<1>5. IsQueue(r)
  BY <1>1, <1>3, <1>4 DEF IsQueue
<1> QED
  BY <1>1, <1>2, <1>3, <1>4, <1>5

(***************************************************************************)
(* Answering a frame of the initial delay (input-queue.hpp:110-114) moves  *)
(* the latest frame on and leaves the map alone.                           *)
(***************************************************************************)
LEMMA SkipDelayLemma ==
  ASSUME NEW q, IsQueue(q), NEW frame \in Nat
  PROVE  LET r == SkipDelay(q, frame)
         IN  /\ IsQueue(r)
             /\ r.frame_buttons = q.frame_buttons
             /\ Buffered(r) = Buffered(q)
             /\ r.delay_frames = q.delay_frames
             /\ r.initial_frame_delay = q.initial_frame_delay
             /\ r.latest_frame_requested = frame
<1> DEFINE r == SkipDelay(q, frame)
<1>1. r = [ delay_frames |-> q.delay_frames,
            initial_frame_delay |-> q.initial_frame_delay,
            latest_frame_requested |-> frame,
            frame_buttons |-> q.frame_buttons ]
  BY DEF IsQueue, SkipDelay
<1>2. Buffered(r) = Buffered(q)
  BY <1>1 DEF Buffered
<1>3. IsQueue(r)
  BY <1>1, <1>2 DEF IsQueue
<1> QED
  BY <1>1, <1>2, <1>3

(***************************************************************************)
(* Taking a frame (input-queue.hpp:135-137) removes it and only it, and    *)
(* makes it the latest requested.                                          *)
(***************************************************************************)
LEMMA TakeLemma ==
  ASSUME NEW q, IsQueue(q), NEW frame, HasButtons(q, frame)
  PROVE  LET r == Take(q, frame)
         IN  /\ IsQueue(r)
             /\ frame \in Nat
             /\ q.frame_buttons[frame] \in Buttons
             /\ Buffered(r) = Buffered(q) \ {frame}
             /\ \A f \in Buffered(r) : r.frame_buttons[f] = q.frame_buttons[f]
             /\ r.delay_frames = q.delay_frames
             /\ r.initial_frame_delay = q.initial_frame_delay
             /\ r.latest_frame_requested = frame
<1> DEFINE r == Take(q, frame)
<1>1. frame \in Nat /\ q.frame_buttons[frame] \in Buttons
  BY DEF IsQueue, HasButtons
<1>2. r = [ delay_frames |-> q.delay_frames,
            initial_frame_delay |-> q.initial_frame_delay,
            latest_frame_requested |-> frame,
            frame_buttons |-> [f \in Buffered(q) \ {frame} |->
                                 q.frame_buttons[f]] ]
  <2> DEFINE s == SkipDelay(q, frame)
  <2>1. /\ IsQueue(s)
        /\ s.delay_frames = q.delay_frames
        /\ s.initial_frame_delay = q.initial_frame_delay
        /\ s.latest_frame_requested = frame
    BY <1>1, SkipDelayLemma
  <2>2. r = [s EXCEPT !.frame_buttons =
                  [f \in Buffered(q) \ {frame} |-> q.frame_buttons[f]]]
    BY DEF Take, Restrict
  <2> HIDE DEF s
  <2> QED
    BY <2>1, <2>2 DEF IsQueue
<1>3. /\ Buffered(r) = Buffered(q) \ {frame}
      /\ r.frame_buttons \in [Buffered(r) -> Buttons]
      /\ \A f \in Buffered(r) : r.frame_buttons[f] = q.frame_buttons[f]
  BY <1>2 DEF IsQueue, Buffered
<1>4. IsQueue(r)
  BY <1>1, <1>2, <1>3 DEF IsQueue
<1> QED
  BY <1>1, <1>2, <1>3, <1>4

(***************************************************************************)
(* The insertions of one event (event-stream-handler.hpp:389-416) add      *)
(* their frames to the map and disturb nothing else.                       *)
(***************************************************************************)
LEMMA InsertAllLemma ==
  ASSUME NEW q, IsQueue(q), NEW buttons_of, DOMAIN buttons_of \subseteq Nat,
         \A f \in DOMAIN buttons_of : buttons_of[f] \in Buttons
  PROVE  LET r == InsertAll(q, buttons_of)
         IN  /\ IsQueue(r)
             /\ Buffered(r) = Buffered(q) \union DOMAIN buttons_of
             /\ \A f \in Buffered(r) :
                   r.frame_buttons[f] = IF f \in DOMAIN buttons_of THEN buttons_of[f]
                                        ELSE q.frame_buttons[f]
             /\ r.delay_frames = q.delay_frames
             /\ r.initial_frame_delay = q.initial_frame_delay
             /\ r.latest_frame_requested = q.latest_frame_requested
<1> DEFINE r == InsertAll(q, buttons_of)
<1>1. r = [ delay_frames |-> q.delay_frames,
            initial_frame_delay |-> q.initial_frame_delay,
            latest_frame_requested |-> q.latest_frame_requested,
            frame_buttons |-> [f \in Buffered(q) \union DOMAIN buttons_of |->
                   IF f \in DOMAIN buttons_of THEN buttons_of[f]
                   ELSE q.frame_buttons[f]] ]
  BY DEF IsQueue, InsertAll
<1> HIDE DEF r
<1>2. Buffered(r) = Buffered(q) \union DOMAIN buttons_of
  BY <1>1 DEF Buffered
<1>3. \A f \in Buffered(r) :
         r.frame_buttons[f] = IF f \in DOMAIN buttons_of THEN buttons_of[f]
                              ELSE q.frame_buttons[f]
  BY <1>1, <1>2
<1>4. r.frame_buttons \in [Buffered(r) -> Buttons]
  BY <1>1, <1>2 DEF IsQueue
<1>5. IsQueue(r)
  BY <1>1, <1>2, <1>4 DEF IsQueue
<1>6. /\ IsQueue(r)
      /\ Buffered(r) = Buffered(q) \union DOMAIN buttons_of
      /\ \A f \in Buffered(r) :
            r.frame_buttons[f] = IF f \in DOMAIN buttons_of THEN buttons_of[f]
                                 ELSE q.frame_buttons[f]
      /\ r.delay_frames = q.delay_frames
      /\ r.initial_frame_delay = q.initial_frame_delay
      /\ r.latest_frame_requested = q.latest_frame_requested
  BY <1>1, <1>2, <1>3, <1>5
<1> QED
  BY <1>6 DEF r

(***************************************************************************)
(* A set of natural numbers has a least one: what the loops that stop at   *)
(* the first element that fails need, and the game that is furthest back.  *)
(***************************************************************************)
LEMMA LeastNat ==
  ASSUME NEW T \in SUBSET Nat, T # {}
  PROVE  \E x \in T : \A y \in T : x <= y
<1> DEFINE R == OpToRel(<, Nat)
<1>1. IsWellFoundedOn(R, Nat)
  BY NatLessThanWellFounded
<1>2. ASSUME NEW x \in Nat, NEW y \in Nat, <<y, x>> \notin R
      PROVE  x <= y
  BY <1>2 DEF OpToRel
<1> HIDE DEF R
<1>3. PICK x \in T : \A y \in T : <<y, x>> \notin R
  BY <1>1, WFMin
<1>4. \A y \in T : x <= y
  <2> TAKE y \in T
  <2>1. <<y, x>> \notin R
    BY <1>3
  <2> QED
    BY <1>2, <2>1
<1> QED
  BY <1>4
=============================================================================
