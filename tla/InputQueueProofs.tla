-------------------------- MODULE InputQueueProofs --------------------------
(***************************************************************************)
(* IInv of InputQueue is inductive, and what follows from it, for any      *)
(* number of threads, any delay (a negative one included) and any frames.  *)
(***************************************************************************)
EXTENDS InputQueue, InputQueueLemmas

USE DefaultAssumption, DelaysAssumption, MaxFrameAssumption

-----------------------------------------------------------------------------
(***************************************************************************)
(* The heart of the argument: a consumer that finds the frame of its call  *)
(* in the map (input-queue.hpp:117-135) finds the next one, although it    *)
(* compared the two before it slept.                                       *)
(***************************************************************************)
LEMMA FrameIsNext ==
  ASSUME IInv, NEW frame \in Int, frame <= ExpectedFrame(queue),
         HasButtons(queue, frame)
  PROVE  /\ frame = ExpectedFrame(queue)
         /\ frame \in Nat
         /\ frame \in DOMAIN accepted
         /\ ~InInitialDelay(queue, frame)
         /\ queue.frame_buttons[frame] = accepted[frame]
         /\ queue.frame_buttons[frame] \in Buttons
<1>1. /\ queue.latest_frame_requested \in Int
      /\ frame \in Nat
      /\ queue.frame_buttons[frame] \in Buttons
  BY DEF IInv, TypeOK, IsQueue, HasButtons
<1>2. /\ frame \in DOMAIN accepted
      /\ queue.frame_buttons[frame] = accepted[frame]
      /\ frame > queue.latest_frame_requested
  BY DEF IInv, NothingLost, HasButtons
<1>3. ~InInitialDelay(queue, frame)
  BY <1>2 DEF IInv, AcceptedAfterDelay
<1> QED
  BY <1>1, <1>2, <1>3 DEF ExpectedFrame

(***************************************************************************)
(* Delivering the next frame keeps the record of what was delivered in     *)
(* order, whether the buttons come from the delay or from the map.         *)
(***************************************************************************)
LEMMA DeliverLemma ==
  ASSUME IInv, NEW frame \in Nat, frame = ExpectedFrame(queue),
         NEW buttons \in Buttons, Deliver(frame, buttons),
         IF InInitialDelay(queue, frame)
         THEN buttons = Default
         ELSE frame \in DOMAIN accepted /\ buttons = accepted[frame],
         accepted' = accepted,
         queue'.initial_frame_delay = queue.initial_frame_delay,
         queue'.latest_frame_requested = frame
  PROVE  /\ delivered' \in Seq([frame : Nat, buttons : Buttons])
         /\ DeliveredInOrder'
         /\ Counted'
<1> DEFINE r == [frame |-> frame, buttons |-> buttons]
<1>1. /\ delivered \in Seq([frame : Nat, buttons : Buttons])
      /\ Len(delivered) = frame
  BY DEF IInv, TypeOK, Counted
<1>2. r \in [frame : Nat, buttons : Buttons]
  OBVIOUS
<1> HIDE DEF r
<1>3. /\ delivered' \in Seq([frame : Nat, buttons : Buttons])
      /\ Len(delivered') = frame + 1
      /\ \A i \in 1..frame : delivered'[i] = delivered[i]
      /\ delivered'[frame + 1] = r
  BY <1>1, <1>2 DEF Deliver, r
<1>4. Counted'
  BY <1>3 DEF Counted, ExpectedFrame
<1>5. DeliveredInOrder'
  <2> SUFFICES ASSUME NEW i \in 1..(frame + 1)
               PROVE  /\ delivered'[i].frame = i - 1
                      /\ IF InInitialDelay(queue, i - 1)
                         THEN delivered'[i].buttons = Default
                         ELSE /\ (i - 1) \in DOMAIN accepted
                              /\ delivered'[i].buttons = accepted[i - 1]
    BY <1>3 DEF DeliveredInOrder, InInitialDelay
  <2>1. CASE i \in 1..frame
    BY <2>1, <1>1, <1>3 DEF IInv, DeliveredInOrder
  <2>2. CASE i = frame + 1
    BY <2>2, <1>3 DEF r
  <2> QED
    BY <2>1, <2>2
<1> QED
  BY <1>3, <1>4, <1>5

(***************************************************************************)
(* A successful return of GetButtons with buttons from the map             *)
(* (input-queue.hpp:135-139) preserves the invariant, at once or after a   *)
(* sleep.                                                                  *)
(***************************************************************************)
LEMMA ReturnButtonsLemma ==
  ASSUME IInv, NEW c \in Consumers, NEW frame \in Int,
         frame <= ExpectedFrame(queue), ReturnButtons(c, frame)
  PROVE  IInv' /\ queue'.latest_frame_requested = ExpectedFrame(queue)
<1>1. /\ frame = ExpectedFrame(queue)
      /\ frame \in Nat
      /\ frame \in DOMAIN accepted
      /\ ~InInitialDelay(queue, frame)
      /\ queue.frame_buttons[frame] = accepted[frame]
      /\ queue.frame_buttons[frame] \in Buttons
  BY FrameIsNext DEF ReturnButtons
<1>2. IsQueue(queue) /\ HasButtons(queue, frame)
  BY DEF IInv, TypeOK, ReturnButtons
<1>3. /\ IsQueue(queue')
      /\ Buffered(queue') = Buffered(queue) \ {frame}
      /\ \A f \in Buffered(queue') :
            queue'.frame_buttons[f] = queue.frame_buttons[f]
      /\ queue'.delay_frames = queue.delay_frames
      /\ queue'.initial_frame_delay = queue.initial_frame_delay
      /\ queue'.latest_frame_requested = frame
  BY <1>2, TakeLemma DEF ReturnButtons
<1>4. UNCHANGED <<notifying, accepted>>
  BY DEF ReturnButtons
<1>5. /\ delivered' \in Seq([frame : Nat, buttons : Buttons])
      /\ DeliveredInOrder'
      /\ Counted'
  BY <1>1, <1>3, <1>4, DeliverLemma DEF ReturnButtons
<1>6. /\ call' \in [Consumers -> Call]
      /\ call'[c] = Idle
      /\ \A d \in Consumers \ {c} : call'[d] = call[d]
  <2>1. Idle \in Call
    BY DEF Idle, Call, Frames
  <2> QED
    BY <2>1 DEF ReturnButtons, IInv, TypeOK
<1>7. TypeOK'
  BY <1>3, <1>4, <1>5, <1>6 DEF IInv, TypeOK
<1>8. NoLostWakeup'
  BY <1>3, <1>4, <1>6 DEF IInv, NoLostWakeup, Waiting, HasButtons, Idle
<1>9. NothingLost'
  <2>1. /\ DOMAIN accepted \subseteq Nat
        /\ queue.latest_frame_requested \in Int
    BY DEF IInv, TypeOK, IsQueue
  <2> QED
    BY <2>1, <1>1, <1>3, <1>4 DEF IInv, NothingLost, ExpectedFrame
<1>10. NeverAhead'
  <2>1. \A d \in Consumers : call[d].frame \in Int
    BY DEF IInv, TypeOK, Call, Frames
  <2>2. queue.latest_frame_requested \in Int
    BY DEF IInv, TypeOK, IsQueue
  <2> QED
    BY <2>1, <2>2, <1>1, <1>3, <1>6 DEF IInv, NeverAhead, ExpectedFrame, Idle
<1>11. AcceptedAfterDelay'
  BY <1>3, <1>4 DEF IInv, AcceptedAfterDelay, InInitialDelay
<1> QED
  BY <1>1, <1>3, <1>5, <1>7, <1>8, <1>9, <1>10, <1>11 DEF IInv

(***************************************************************************)
(* A frame PutButtons accepts (input-queue.hpp:56-81) preserves the        *)
(* invariant: the producer is now one that owes a notification.            *)
(***************************************************************************)
LEMMA PutButtonsLemma ==
  ASSUME IInv, NEW p \in Producers, NEW frame \in Frames,
         NEW buttons \in Buttons, PutButtons(p, frame, buttons)
  PROVE  /\ IInv'
         /\ queue'.latest_frame_requested = queue.latest_frame_requested
<1>1. CASE ~Accepts(queue, frame)
  <2>1. UNCHANGED vars
    BY <1>1 DEF PutButtons, vars
  <2> QED
    BY <2>1 DEF vars, IInv, TypeOK, NoLostWakeup, DeliveredInOrder,
                NothingLost, Counted, NeverAhead, AcceptedAfterDelay, Waiting
<1>2. CASE Accepts(queue, frame)
  <2> DEFINE d == DelayedFrame(queue, frame)
  <2>1. IsQueue(queue) /\ frame \in Int
    BY DEF IInv, TypeOK, Frames
  <2>2. /\ queue' = Insert(queue, frame, buttons)
        /\ accepted' = [f \in DOMAIN accepted \union {d} |->
                          IF f = d THEN buttons ELSE accepted[f]]
        /\ notifying' = notifying \union {p}
        /\ UNCHANGED <<call, delivered>>
    BY <1>2 DEF PutButtons
  <2>3. /\ IsQueue(queue')
        /\ d \in Nat
        /\ d > queue.latest_frame_requested
        /\ d \notin Buffered(queue)
        /\ ~InInitialDelay(queue, d)
        /\ Buffered(queue') = Buffered(queue) \union {d}
        /\ queue'.frame_buttons[d] = buttons
        /\ \A f \in Buffered(queue) :
              queue'.frame_buttons[f] = queue.frame_buttons[f]
        /\ queue'.delay_frames = queue.delay_frames
        /\ queue'.initial_frame_delay = queue.initial_frame_delay
        /\ queue'.latest_frame_requested = queue.latest_frame_requested
    BY <1>2, <2>1, <2>2, InsertLemma
  <2> HIDE DEF d
  <2>4. d \notin DOMAIN accepted
    BY <2>3 DEF IInv, NothingLost
  <2>5. /\ DOMAIN accepted' = DOMAIN accepted \union {d}
        /\ accepted'[d] = buttons
        /\ \A f \in DOMAIN accepted : accepted'[f] = accepted[f]
        /\ accepted' \in [DOMAIN accepted' -> Buttons]
    BY <2>2, <2>4 DEF IInv, TypeOK
  <2>6. TypeOK'
    BY <2>2, <2>3, <2>5 DEF IInv, TypeOK
  <2>7. NoLostWakeup'
    BY <2>2 DEF NoLostWakeup
  <2>8. DeliveredInOrder'
    BY <2>2, <2>3, <2>5 DEF IInv, DeliveredInOrder, InInitialDelay
  <2>9. NothingLost'
    <3>1. /\ DOMAIN accepted \subseteq Nat
          /\ queue.latest_frame_requested \in Int
      BY DEF IInv, TypeOK, IsQueue
    <3> QED
      BY <3>1, <2>3, <2>4, <2>5 DEF IInv, NothingLost
  <2>10. Counted' /\ NeverAhead'
    BY <2>2, <2>3 DEF IInv, Counted, NeverAhead, ExpectedFrame
  <2>11. AcceptedAfterDelay'
    BY <2>3, <2>5 DEF IInv, AcceptedAfterDelay, InInitialDelay
  <2> QED
    BY <2>3, <2>6, <2>7, <2>8, <2>9, <2>10, <2>11 DEF IInv
<1> QED
  BY <1>1, <1>2

(***************************************************************************)
(* notify_all (input-queue.hpp:83) empties the wait set, so it may take    *)
(* the last notification owed with it.                                     *)
(***************************************************************************)
LEMMA NotifyAllLemma ==
  ASSUME IInv, NEW p \in Producers, NotifyAll(p)
  PROVE  IInv' /\ queue' = queue
<1>1. /\ UNCHANGED <<queue, accepted, delivered>>
      /\ notifying' \subseteq notifying
  BY DEF NotifyAll
<1>2. /\ call' \in [Consumers -> Call]
      /\ \A c \in Consumers : /\ call'[c].at # "waiting"
                              /\ call'[c].at # "idle" => call[c].at # "idle"
                              /\ call'[c].frame = call[c].frame
  BY DEF NotifyAll, IInv, TypeOK, Call, Waiting
<1>3. TypeOK'
  BY <1>1, <1>2 DEF IInv, TypeOK
<1>4. NoLostWakeup'
  BY <1>2 DEF NoLostWakeup, Waiting
<1>5. DeliveredInOrder' /\ NothingLost' /\ Counted' /\ AcceptedAfterDelay'
  BY <1>1 DEF IInv, DeliveredInOrder, NothingLost, Counted, AcceptedAfterDelay
<1>6. NeverAhead'
  BY <1>1, <1>2 DEF IInv, NeverAhead
<1> QED
  BY <1>1, <1>3, <1>4, <1>5, <1>6 DEF IInv

(***************************************************************************)
(* A step that only moves one consumer inside GetButtons preserves the     *)
(* invariant, if the consumer does not fall asleep on a frame that is      *)
(* there (input-queue.hpp:117-124).                                        *)
(***************************************************************************)
LEMMA MoveLemma ==
  ASSUME IInv, NEW c \in Consumers, NEW new \in Call,
         call' = [call EXCEPT ![c] = new],
         UNCHANGED <<queue, notifying, accepted, delivered>>,
         new.at # "idle" => new.frame <= ExpectedFrame(queue),
         new.at = "waiting" => ~HasButtons(queue, new.frame)
  PROVE  IInv'
<1>1. /\ call' \in [Consumers -> Call]
      /\ call'[c] = new
      /\ \A d \in Consumers \ {c} : call'[d] = call[d]
  BY DEF IInv, TypeOK
<1>2. TypeOK'
  BY <1>1 DEF IInv, TypeOK
<1>3. NoLostWakeup'
  BY <1>1 DEF IInv, NoLostWakeup, Waiting
<1>4. DeliveredInOrder' /\ NothingLost' /\ Counted' /\ AcceptedAfterDelay'
  BY DEF IInv, DeliveredInOrder, NothingLost, Counted, AcceptedAfterDelay
<1>5. NeverAhead'
  BY <1>1 DEF IInv, NeverAhead
<1> QED
  BY <1>2, <1>3, <1>4, <1>5 DEF IInv

(***************************************************************************)
(* A call of GetButtons (input-queue.hpp:89-140), up to its return or its  *)
(* sleep, preserves the invariant and advances by one frame at most.       *)
(***************************************************************************)
LEMMA GetButtonsLemma ==
  ASSUME IInv, NEW c \in Consumers, NEW frame \in Frames,
         NEW timed \in BOOLEAN, GetButtons(c, frame, timed)
  PROVE  /\ IInv'
         /\ queue'.latest_frame_requested \in
              {queue.latest_frame_requested, ExpectedFrame(queue)}
<1>1. CASE UNCHANGED vars
  BY <1>1 DEF vars, IInv, TypeOK, NoLostWakeup, DeliveredInOrder,
              NothingLost, Counted, NeverAhead, AcceptedAfterDelay, Waiting
<1>2. CASE /\ frame = ExpectedFrame(queue)
           /\ InInitialDelay(queue, frame)
           /\ Deliver(frame, Default)
           /\ queue' = SkipDelay(queue, frame)
           /\ UNCHANGED <<call, notifying, accepted>>
  <2>1. IsQueue(queue) /\ frame \in Nat
    BY <1>2 DEF IInv, TypeOK, IsQueue, ExpectedFrame
  <2>2. /\ IsQueue(queue')
        /\ queue'.frame_buttons = queue.frame_buttons
        /\ Buffered(queue') = Buffered(queue)
        /\ queue'.delay_frames = queue.delay_frames
        /\ queue'.initial_frame_delay = queue.initial_frame_delay
        /\ queue'.latest_frame_requested = frame
    BY <1>2, <2>1, SkipDelayLemma
  <2>3. /\ delivered' \in Seq([frame : Nat, buttons : Buttons])
        /\ DeliveredInOrder'
        /\ Counted'
    BY <1>2, <2>1, <2>2, DeliverLemma
  <2>4. TypeOK'
    BY <1>2, <2>2, <2>3 DEF IInv, TypeOK
  <2>5. NoLostWakeup'
    BY <1>2, <2>2 DEF IInv, NoLostWakeup, Waiting, HasButtons
  <2>6. NothingLost'
    <3>1. \A f \in DOMAIN accepted : f \in Nat /\ f # frame
      BY <1>2 DEF IInv, TypeOK, AcceptedAfterDelay
    <3>2. queue.latest_frame_requested \in Int
      BY <2>1 DEF IsQueue
    <3> QED
      BY <1>2, <2>2, <3>1, <3>2 DEF IInv, NothingLost, ExpectedFrame
  <2>7. NeverAhead'
    <3>1. \A d \in Consumers : call[d].frame \in Int
      BY DEF IInv, TypeOK, Call, Frames
    <3> QED
      BY <1>2, <2>1, <2>2, <3>1 DEF IInv, NeverAhead, ExpectedFrame
  <2>8. AcceptedAfterDelay'
    BY <1>2, <2>2 DEF IInv, AcceptedAfterDelay, InInitialDelay
  <2> QED
    BY <1>2, <2>2, <2>3, <2>4, <2>5, <2>6, <2>7, <2>8 DEF IInv
<1>3. CASE frame = ExpectedFrame(queue) /\ ReturnButtons(c, frame)
  <2>1. frame \in Int /\ frame <= ExpectedFrame(queue)
    BY <1>3 DEF Frames
  <2> QED
    BY <1>3, <2>1, ReturnButtonsLemma
<1>4. CASE /\ frame = ExpectedFrame(queue)
           /\ ~HasButtons(queue, frame)
           /\ call' = [call EXCEPT ![c] =
                         [at |-> "waiting", frame |-> frame, timed |-> timed]]
           /\ UNCHANGED <<queue, notifying, accepted, delivered>>
  <2> DEFINE new == [at |-> "waiting", frame |-> frame, timed |-> timed]
  <2>1. new \in Call /\ frame <= ExpectedFrame(queue)
    BY <1>4 DEF Call, Frames
  <2> QED
    BY <1>4, <2>1, MoveLemma
<1> QED
  BY <1>1, <1>2, <1>3, <1>4 DEF GetButtons

(***************************************************************************)
(* What happens to a consumer asleep or just awake (input-queue.hpp:120 to *)
(* 139): a spurious wakeup, the deadline, and taking m_ again after either *)
(* or after a notification.                                                *)
(***************************************************************************)
LEMMA SleeperLemma ==
  ASSUME IInv, NEW c \in Consumers,
         SpuriousWake(c) \/ Expire(c) \/ Resume(c) \/ ResumeExpired(c)
  PROVE  /\ IInv'
         /\ queue'.latest_frame_requested \in
              {queue.latest_frame_requested, ExpectedFrame(queue)}
<1>1. /\ call[c] \in Call
      /\ call[c].frame \in Int
      /\ call[c].at # "idle" => call[c].frame <= ExpectedFrame(queue)
  BY DEF IInv, TypeOK, NeverAhead, Call, Frames
<1>2. CASE SpuriousWake(c) \/ Expire(c)
  <2>1. PICK at \in {"woken", "expired"} :
             call' = [call EXCEPT ![c] = [call[c] EXCEPT !.at = at]]
    BY <1>2 DEF SpuriousWake, Expire
  <2> DEFINE new == [call[c] EXCEPT !.at = at]
  <2>2. new \in Call /\ new.frame = call[c].frame /\ new.at = at
    BY <1>1 DEF Call
  <2>3. /\ UNCHANGED <<queue, notifying, accepted, delivered>>
        /\ call[c].at # "idle"
    BY <1>2 DEF SpuriousWake, Expire, Waiting
  <2> QED
    BY <1>1, <2>1, <2>2, <2>3, MoveLemma
<1>3. CASE Resume(c) \/ ResumeExpired(c)
  <2>1. call[c].at # "idle"
    BY <1>3 DEF Resume, ResumeExpired
  <2>2. CASE ReturnButtons(c, call[c].frame)
    BY <1>1, <2>1, <2>2, ReturnButtonsLemma
  <2>3. CASE /\ ~HasButtons(queue, call[c].frame)
             /\ call' = [call EXCEPT ![c] = [call[c] EXCEPT !.at = "waiting"]]
             /\ UNCHANGED <<queue, notifying, accepted, delivered>>
    <3> DEFINE new == [call[c] EXCEPT !.at = "waiting"]
    <3>1. new \in Call /\ new.frame = call[c].frame /\ new.at = "waiting"
      BY <1>1 DEF Call
    <3> QED
      BY <1>1, <2>1, <2>3, <3>1, MoveLemma
  <2>4. CASE /\ call' = [call EXCEPT ![c] = Idle]
             /\ UNCHANGED <<queue, notifying, accepted, delivered>>
    <3>1. Idle \in Call /\ Idle.at = "idle"
      BY DEF Idle, Call, Frames
    <3> QED
      BY <2>4, <3>1, MoveLemma
  <2> QED
    BY <1>3, <2>2, <2>3, <2>4 DEF Resume, ResumeExpired
<1> QED
  BY <1>2, <1>3

-----------------------------------------------------------------------------
(***************************************************************************)
(* The invariant holds when a queue is made, by either factory             *)
(* (input-queue.hpp:22-34).                                                *)
(***************************************************************************)
LEMMA InitLemma == Init => IInv
<1> SUFFICES ASSUME Init PROVE IInv
  OBVIOUS
<1>1. PICK delay \in Delays :
           queue \in {MakeLocalQueue(delay), MakeRemoteQueue(delay)}
  BY DEF Init
<1>2. /\ IsQueue(queue)
      /\ Buffered(queue) = {}
      /\ queue.latest_frame_requested = -1
      /\ queue.delay_frames \in Delays \union {0}
      /\ queue.initial_frame_delay \in Delays
  BY <1>1, NewQueueLemma DEF MakeLocalQueue, MakeRemoteQueue
<1>3. /\ call = [c \in Consumers |-> Idle]
      /\ notifying = {}
      /\ DOMAIN accepted = {}
      /\ accepted \in [DOMAIN accepted -> Buttons]
      /\ delivered = <<>>
  BY DEF Init
<1>4. TypeOK
  <2>1. Idle \in Call
    BY DEF Idle, Call, Frames
  <2> QED
    BY <1>2, <1>3, <2>1 DEF TypeOK
<1>5. NoLostWakeup /\ NeverAhead
  BY <1>3 DEF NoLostWakeup, NeverAhead, Waiting, Idle
<1>6. DeliveredInOrder /\ Counted
  BY <1>2, <1>3 DEF DeliveredInOrder, Counted, ExpectedFrame
<1>7. NothingLost /\ AcceptedAfterDelay
  BY <1>2, <1>3 DEF NothingLost, AcceptedAfterDelay
<1> QED
  BY <1>4, <1>5, <1>6, <1>7 DEF IInv

(***************************************************************************)
(* Every step of every thread preserves the invariant and moves the latest *)
(* frame requested on by one at most.                                      *)
(***************************************************************************)
LEMMA NextLemma ==
  IInv /\ [Next]_vars =>
    /\ IInv'
    /\ queue'.latest_frame_requested \in
         {queue.latest_frame_requested, ExpectedFrame(queue)}
<1> SUFFICES ASSUME IInv, [Next]_vars
             PROVE  /\ IInv'
                    /\ queue'.latest_frame_requested \in
                         {queue.latest_frame_requested, ExpectedFrame(queue)}
  OBVIOUS
<1>1. CASE UNCHANGED vars
  BY <1>1 DEF vars, IInv, TypeOK, NoLostWakeup, DeliveredInOrder,
              NothingLost, Counted, NeverAhead, AcceptedAfterDelay, Waiting
<1>2. ASSUME NEW p \in Producers, NotifyAll(p)
      PROVE  IInv' /\ queue' = queue
  BY <1>2, NotifyAllLemma
<1>3. ASSUME NEW p \in Producers, NEW frame \in Frames,
             NEW buttons \in Buttons, PutButtons(p, frame, buttons)
      PROVE  /\ IInv'
             /\ queue'.latest_frame_requested = queue.latest_frame_requested
  BY <1>3, PutButtonsLemma
<1>4. ASSUME NEW c \in Consumers, NEW frame \in Frames,
             NEW timed \in BOOLEAN, GetButtons(c, frame, timed)
      PROVE  /\ IInv'
             /\ queue'.latest_frame_requested \in
                  {queue.latest_frame_requested, ExpectedFrame(queue)}
  BY <1>4, GetButtonsLemma
<1>5. ASSUME NEW c \in Consumers,
             SpuriousWake(c) \/ Expire(c) \/ Resume(c) \/ ResumeExpired(c)
      PROVE  /\ IInv'
             /\ queue'.latest_frame_requested \in
                  {queue.latest_frame_requested, ExpectedFrame(queue)}
  BY <1>5, SleeperLemma
<1> QED
  BY <1>1, <1>2, <1>3, <1>4, <1>5 DEF Next

(***************************************************************************)
(* IInv is an invariant.                                                   *)
(***************************************************************************)
THEOREM Inductive == Spec => []IInv
<1>1. IInv /\ [Next]_vars => IInv'
  BY NextLemma
<1> QED
  BY InitLemma, <1>1, PTL DEF Spec

(***************************************************************************)
(* Type correctness of the queue, its callers and its histories.           *)
(***************************************************************************)
THEOREM TypeCorrect == Spec => []TypeOK
<1>1. IInv => TypeOK
  BY DEF IInv
<1> QED
  BY Inductive, <1>1, PTL

(***************************************************************************)
(* No wakeup is lost although notify_all is called without the lock.       *)
(***************************************************************************)
THEOREM WakeupsKept == Spec => []NoLostWakeup
<1>1. IInv => NoLostWakeup
  BY DEF IInv
<1> QED
  BY Inductive, <1>1, PTL

(***************************************************************************)
(* The n-th success of GetButtons is for frame n, with the right buttons.  *)
(***************************************************************************)
THEOREM InOrder == Spec => []DeliveredInOrder
<1>1. IInv => DeliveredInOrder
  BY DEF IInv
<1> QED
  BY Inductive, <1>1, PTL

(***************************************************************************)
(* A frame that was accepted is in the map or was handed out, not both.    *)
(***************************************************************************)
THEOREM Conservation == Spec => []NothingLost
<1>1. IInv => NothingLost
  BY DEF IInv
<1> QED
  BY Inductive, <1>1, PTL

(***************************************************************************)
(* A step hands out nothing or exactly the next frame.                     *)
(***************************************************************************)
THEOREM LockStep == Spec => OneFrameAtATime
<1>1. IInv /\ [Next]_vars =>
        [ queue'.latest_frame_requested \in
            {queue.latest_frame_requested,
             queue.latest_frame_requested + 1} ]_vars
  BY NextLemma DEF ExpectedFrame
<1> QED
  BY Inductive, <1>1, PTL DEF Spec, OneFrameAtATime

-----------------------------------------------------------------------------
(***************************************************************************)
(* The queue implements the tape: a put that is accepted writes a cell, a  *)
(* get that succeeds reads the next one, and every other step of a thread  *)
(* leaves the tape alone.                                                  *)
(***************************************************************************)

\* The tape before and after a step, in terms of the queue.
LEMMA TapeDomain ==
  ASSUME IInv
  PROVE  /\ DOMAIN TapeInputs =
              0..(queue.initial_frame_delay - 1) \union DOMAIN accepted
         /\ \A f \in DOMAIN TapeInputs :
              TapeInputs[f] = IF InInitialDelay(queue, f)
                              THEN Default ELSE accepted[f]
  BY DEF TapeInputs, IInv, TypeOK, AcceptedAfterDelay, InInitialDelay

\* A successful get reads the next cell.
LEMMA DeliverIsRead ==
  ASSUME IInv, NEW frame \in Nat, frame = ExpectedFrame(queue),
         NEW buttons, Deliver(frame, buttons),
         IF InInitialDelay(queue, frame)
         THEN buttons = Default
         ELSE frame \in DOMAIN accepted /\ buttons = accepted[frame],
         accepted' = accepted,
         queue'.initial_frame_delay = queue.initial_frame_delay
  PROVE  Tape!Read
<1>1. Len(delivered) = frame
  BY DEF IInv, Counted
<1>2. frame \in DOMAIN TapeInputs /\ TapeInputs[frame] = buttons
  BY TapeDomain DEF IInv, TypeOK, InInitialDelay
<1>3. TapeInputs' = TapeInputs
  BY DEF TapeInputs, InInitialDelay
<1> QED
  BY <1>1, <1>2, <1>3 DEF Tape!Read, Deliver

LEMMA ReturnIsRead ==
  ASSUME IInv, NEW c \in Consumers, NEW frame \in Int,
         frame <= ExpectedFrame(queue), ReturnButtons(c, frame)
  PROVE  Tape!Read
<1>1. /\ frame = ExpectedFrame(queue)
      /\ frame \in Nat
      /\ frame \in DOMAIN accepted
      /\ ~InInitialDelay(queue, frame)
      /\ queue.frame_buttons[frame] = accepted[frame]
  BY FrameIsNext DEF ReturnButtons
<1>2. queue'.initial_frame_delay = queue.initial_frame_delay
  BY TakeLemma DEF ReturnButtons, IInv, TypeOK
<1> QED
  BY <1>1, <1>2, DeliverIsRead DEF ReturnButtons

\* A put that is accepted writes a cell that nobody has written.
LEMMA PutIsWrite ==
  ASSUME IInv, NEW p \in Producers, NEW frame \in Frames,
         NEW buttons \in Buttons, PutButtons(p, frame, buttons),
         Accepts(queue, frame)
  PROVE  Tape!Write(DelayedFrame(queue, frame), buttons)
         /\ DelayedFrame(queue, frame) \in TapeFrames
<1> DEFINE d == DelayedFrame(queue, frame)
<1>1. /\ queue' = Insert(queue, frame, buttons)
      /\ accepted' = [f \in DOMAIN accepted \union {d} |->
                        IF f = d THEN buttons ELSE accepted[f]]
      /\ delivered' = delivered
  BY DEF PutButtons, vars
<1>2. /\ d \in Nat
      /\ d > queue.latest_frame_requested
      /\ d \notin Buffered(queue)
      /\ ~InInitialDelay(queue, d)
      /\ queue'.initial_frame_delay = queue.initial_frame_delay
  BY <1>1, InsertLemma DEF IInv, TypeOK, Frames
<1>3. d \in TapeFrames
  BY DEF Accepts, Frames, DelayedFrame, TapeFrames, IInv, TypeOK
<1> HIDE DEF d
<1>4. d \notin DOMAIN accepted
  BY <1>2 DEF IInv, NothingLost
<1>5. queue.initial_frame_delay \in Int
  BY DEF IInv, TypeOK
<1>6. d \notin DOMAIN TapeInputs
  BY <1>2, <1>4, <1>5, TapeDomain DEF IInv, InInitialDelay
<1>7. TapeInputs' = [f \in DOMAIN TapeInputs \union {d} |->
                       IF f = d THEN buttons ELSE TapeInputs[f]]
  BY <1>1, <1>2, <1>4, <1>5 DEF TapeInputs, InInitialDelay
<1> QED
  BY <1>1, <1>3, <1>6, <1>7 DEF Tape!Write, d

(***************************************************************************)
(* The queue, whatever its threads do, refines the tape.                   *)
(***************************************************************************)
THEOREM QueueImplementsTape == Spec => ImplementsTape
<1>1. Init => Tape!Init
  <2> SUFFICES ASSUME Init PROVE Tape!Init
    OBVIOUS
  <2>1. PICK delay \in Delays :
             queue \in {MakeLocalQueue(delay), MakeRemoteQueue(delay)}
    BY DEF Init
  <2>2. queue.initial_frame_delay = delay
    BY <2>1 DEF MakeLocalQueue, MakeRemoteQueue, NewQueue
  <2>3. TapeInputs = [f \in 0..(delay - 1) |-> Default]
    BY <2>2 DEF Init, TapeInputs, InInitialDelay
  <2> QED
    BY <2>3 DEF Tape!Init, Init
<1>2. IInv /\ [Next]_vars => [Tape!Next]_(Tape!vars)
  <2> SUFFICES ASSUME IInv, [Next]_vars
               PROVE  Tape!Next \/ UNCHANGED <<TapeInputs, delivered>>
    BY DEF Tape!vars
  <2>1. ASSUME UNCHANGED <<queue, accepted, delivered>>
        PROVE  UNCHANGED <<TapeInputs, delivered>>
    BY <2>1 DEF TapeInputs, InInitialDelay
  <2>2. CASE UNCHANGED vars
    BY <2>1, <2>2 DEF vars
  <2>3. ASSUME NEW p \in Producers, NotifyAll(p)
        PROVE  UNCHANGED <<TapeInputs, delivered>>
    BY <2>1, <2>3 DEF NotifyAll
  <2>4. ASSUME NEW p \in Producers, NEW frame \in Frames,
               NEW buttons \in Buttons, PutButtons(p, frame, buttons)
        PROVE  Tape!Next \/ UNCHANGED <<TapeInputs, delivered>>
    <3>1. CASE Accepts(queue, frame)
      BY <2>4, <3>1, PutIsWrite DEF Tape!Next
    <3>2. CASE ~Accepts(queue, frame)
      BY <2>1, <2>4, <3>2 DEF PutButtons, vars
    <3> QED
      BY <3>1, <3>2
  <2>5. ASSUME NEW c \in Consumers, NEW frame \in Frames,
               NEW timed \in BOOLEAN, GetButtons(c, frame, timed)
        PROVE  Tape!Next \/ UNCHANGED <<TapeInputs, delivered>>
    <3>1. CASE UNCHANGED <<queue, accepted, delivered>>
      BY <2>1, <3>1
    <3>2. CASE /\ frame = ExpectedFrame(queue)
               /\ InInitialDelay(queue, frame)
               /\ Deliver(frame, Default)
               /\ queue' = SkipDelay(queue, frame)
               /\ accepted' = accepted
      <4>1. IsQueue(queue) /\ frame \in Nat
        BY <3>2 DEF IInv, TypeOK, IsQueue, ExpectedFrame
      <4>2. queue'.initial_frame_delay = queue.initial_frame_delay
        BY <3>2, <4>1, SkipDelayLemma
      <4> QED
        BY <3>2, <4>1, <4>2, DeliverIsRead DEF Tape!Next
    <3>3. CASE frame = ExpectedFrame(queue) /\ ReturnButtons(c, frame)
      <4>1. frame \in Int /\ frame <= ExpectedFrame(queue)
        BY <3>3 DEF Frames
      <4> QED
        BY <3>3, <4>1, ReturnIsRead DEF Tape!Next
    <3> QED
      BY <2>5, <3>1, <3>2, <3>3 DEF GetButtons, vars
  <2>6. ASSUME NEW c \in Consumers,
               SpuriousWake(c) \/ Expire(c) \/ Resume(c) \/ ResumeExpired(c)
        PROVE  Tape!Next \/ UNCHANGED <<TapeInputs, delivered>>
    <3>1. CASE ReturnButtons(c, call[c].frame) /\ call[c].at # "idle"
      <4>1. /\ call[c].frame \in Int
            /\ call[c].frame <= ExpectedFrame(queue)
        BY <3>1 DEF IInv, TypeOK, NeverAhead, Call, Frames
      <4> QED
        BY <3>1, <4>1, ReturnIsRead DEF Tape!Next
    <3>2. CASE UNCHANGED <<queue, accepted, delivered>>
      BY <2>1, <3>2
    <3> QED
      BY <2>6, <3>1, <3>2 DEF SpuriousWake, Expire, Resume, ResumeExpired
  <2> QED
    BY <2>2, <2>3, <2>4, <2>5, <2>6 DEF Next
<1> QED
  BY Inductive, <1>1, <1>2, PTL DEF Spec, ImplementsTape, Tape!Spec
=============================================================================
