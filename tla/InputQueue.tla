----------------------------- MODULE InputQueue -----------------------------
(***************************************************************************)
(* InputQueue as a monitor shared by threads (client/input-queue.hpp).     *)
(*                                                                         *)
(* The mutex m_ is held from one step to the next only while a step runs,  *)
(* so a locked section is one action.  What is left between the actions is *)
(* what the lock leaves open: a producer between releasing m_ and calling  *)
(* notify_all, a consumer asleep in cv_.wait, one that is awake but has    *)
(* not got m_ back, and one whose wait_for has run out of time but that    *)
(* has not got m_ back either.                                             *)
(***************************************************************************)
EXTENDS InputQueueData, Sequences

CONSTANTS Producers, Consumers,  \* the threads
          Delays,                \* the delays a queue may be made with
          MaxFrame               \* bound on the frames the threads name

ASSUME DelaysAssumption == Delays \subseteq Int
ASSUME MaxFrameAssumption == MaxFrame \in Nat
ASSUME ThreadsAssumption == Producers \intersect Consumers = {}

VARIABLES
  queue,      \* the members m_ guards
  call,       \* of each consumer: where it is in GetButtons, and its arguments
  notifying,  \* the producers that released m_ and have not notified yet
  accepted,   \* history: the buttons PutButtons returned true for, by frame
  delivered   \* history: what the successful calls of GetButtons returned

vars == <<queue, call, notifying, accepted, delivered>>

Frames == -1..MaxFrame  \* PutButtons must also cope with a negative frame

Idle == [at |-> "idle", frame |-> 0, timed |-> FALSE]

Call == [at : {"idle", "waiting", "woken", "expired"},
         frame : Frames, timed : BOOLEAN]

Waiting(c) == call[c].at = "waiting"

Init ==
  /\ \E delay \in Delays :
       queue \in {MakeLocalQueue(delay), MakeRemoteQueue(delay)}
  /\ call = [c \in Consumers |-> Idle]
  /\ notifying = {}
  /\ accepted = [f \in {} |-> Default]
  /\ delivered = <<>>

-----------------------------------------------------------------------------
(***************************************************************************)
(* PutButtons, up to the release of m_.  A refused frame changes nothing.  *)
(***************************************************************************)
PutButtons(p, frame, buttons) ==
  /\ p \notin notifying
  /\ \/ /\ Accepts(queue, frame)
        /\ queue' = Insert(queue, frame, buttons)
        /\ accepted' = [f \in DOMAIN accepted \union {DelayedFrame(queue, frame)} |->
                          IF f = DelayedFrame(queue, frame)
                          THEN buttons ELSE accepted[f]]
        /\ notifying' = notifying \union {p}
        /\ UNCHANGED <<call, delivered>>
     \/ /\ ~Accepts(queue, frame)
        /\ UNCHANGED vars

\* Bugs: one consumer is notified, or none.
NotifyOne(p) ==
  /\ p \in notifying
  /\ notifying' = notifying \ {p}
  /\ IF \E c \in Consumers : Waiting(c)
     THEN \E c \in Consumers :
            Waiting(c) /\ call' = [call EXCEPT ![c].at = "woken"]
     ELSE UNCHANGED call
  /\ UNCHANGED <<queue, accepted, delivered>>

NotifyNobody(p) ==
  /\ p \in notifying
  /\ notifying' = notifying \ {p}
  /\ UNCHANGED <<queue, call, accepted, delivered>>

\* cv_.notify_all(), called without the lock: the wait set is emptied.
NotifyAll(p) ==
  /\ p \in notifying
  /\ notifying' = notifying \ {p}
  /\ call' = [c \in Consumers |->
                IF Waiting(c) THEN [call[c] EXCEPT !.at = "woken"] ELSE call[c]]
  /\ UNCHANGED <<queue, accepted, delivered>>

-----------------------------------------------------------------------------
\* GetButtons returns SUCCESS for frame, with the buttons given.
Deliver(frame, buttons) ==
  delivered' = Append(delivered, [frame |-> frame, buttons |-> buttons])

\* The buttons have come: GetButtons takes them and returns SUCCESS.
ReturnButtons(c, frame) ==
  /\ HasButtons(queue, frame)
  /\ Deliver(frame, queue.frame_buttons[frame])
  /\ queue' = Take(queue, frame)
  /\ call' = [call EXCEPT ![c] = Idle]
  /\ UNCHANGED <<notifying, accepted>>

(***************************************************************************)
(* GetButtons, up to its return or to the release of m_ inside the wait.   *)
(* With kReturnImmediately the wait is entered as well and expires.        *)
(***************************************************************************)
GetButtons(c, frame, timed) ==
  /\ call[c].at = "idle"
  /\ \/ /\ frame # ExpectedFrame(queue)      \* UNEXPECTED_FRAME
        /\ UNCHANGED vars
     \/ /\ frame = ExpectedFrame(queue)
        /\ InInitialDelay(queue, frame)
        /\ Deliver(frame, Default)
        /\ queue' = SkipDelay(queue, frame)
        /\ UNCHANGED <<call, notifying, accepted>>
     \/ /\ frame = ExpectedFrame(queue)
        /\ ~InInitialDelay(queue, frame)
        /\ ReturnButtons(c, frame)
     \/ /\ frame = ExpectedFrame(queue)
        /\ ~InInitialDelay(queue, frame)
        /\ ~HasButtons(queue, frame)
        /\ call' = [call EXCEPT ![c] =
                      [at |-> "waiting", frame |-> frame, timed |-> timed]]
        /\ UNCHANGED <<queue, notifying, accepted, delivered>>

\* A condition variable may wake a thread nobody has notified.
SpuriousWake(c) ==
  /\ Waiting(c)
  /\ call' = [call EXCEPT ![c].at = "woken"]
  /\ UNCHANGED <<queue, notifying, accepted, delivered>>

\* The deadline of wait_for passes while the thread is asleep.
Expire(c) ==
  /\ Waiting(c)
  /\ call[c].timed
  /\ call' = [call EXCEPT ![c].at = "expired"]
  /\ UNCHANGED <<queue, notifying, accepted, delivered>>

\* A woken thread gets m_ back, and evaluates the predicate of the wait.
Resume(c) ==
  /\ call[c].at = "woken"
  /\ \/ ReturnButtons(c, call[c].frame)
     \/ /\ ~HasButtons(queue, call[c].frame)
        /\ call' = [call EXCEPT ![c].at = "waiting"]
        /\ UNCHANGED <<queue, notifying, accepted, delivered>>

\* A bug: the wait is begun again instead of returning TIMEOUT.
ResumeExpiredAgain(c) ==
  /\ call[c].at = "expired"
  /\ \/ ReturnButtons(c, call[c].frame)
     \/ /\ ~HasButtons(queue, call[c].frame)
        /\ call' = [call EXCEPT ![c].at = "waiting"]
        /\ UNCHANGED <<queue, notifying, accepted, delivered>>

\* A thread out of time gets m_ back: wait_for evaluates the predicate once
\* more, and only then returns TIMEOUT.
ResumeExpired(c) ==
  /\ call[c].at = "expired"
  /\ \/ ReturnButtons(c, call[c].frame)
     \/ /\ ~HasButtons(queue, call[c].frame)
        /\ call' = [call EXCEPT ![c] = Idle]
        /\ UNCHANGED <<queue, notifying, accepted, delivered>>

Next ==
  \/ \E p \in Producers : NotifyAll(p)
  \/ \E p \in Producers, frame \in Frames, buttons \in Buttons :
       PutButtons(p, frame, buttons)
  \/ \E c \in Consumers, frame \in Frames, timed \in BOOLEAN :
       GetButtons(c, frame, timed)
  \/ \E c \in Consumers :
       SpuriousWake(c) \/ Expire(c) \/ Resume(c) \/ ResumeExpired(c)

(***************************************************************************)
(* The scheduler runs every thread that can run, and clocks advance.  A    *)
(* deadline that has passed expires the wait at the next chance, however   *)
(* often the thread was woken in vain before: that is strong fairness.     *)
(* Nobody is obliged to put a frame or to ask for one.                     *)
(***************************************************************************)
Fairness ==
  /\ \A p \in Producers : WF_vars(NotifyAll(p))
  /\ \A c \in Consumers : /\ WF_vars(Resume(c))
                          /\ WF_vars(ResumeExpired(c))
                          /\ SF_vars(Expire(c))

Spec == Init /\ [][Next]_vars

FairSpec == Spec /\ Fairness

-----------------------------------------------------------------------------
(***************************************************************************)
(* Every variable stays in its type.                                       *)
(***************************************************************************)
TypeOK ==
  /\ IsQueue(queue)
  /\ queue.delay_frames \in Delays \union {0}
  /\ queue.initial_frame_delay \in Delays
  /\ call \in [Consumers -> Call]
  /\ notifying \subseteq Producers
  /\ DOMAIN accepted \subseteq Nat
  /\ accepted \in [DOMAIN accepted -> Buttons]
  /\ delivered \in Seq([frame : Nat, buttons : Buttons])

(***************************************************************************)
(* No wakeup is lost although notify_all is called after m_ is released    *)
(* (input-queue.hpp:81-83): a consumer asleep on a frame that is there has *)
(* a producer about to notify it.                                          *)
(***************************************************************************)
NoLostWakeup ==
  \A c \in Consumers :
     Waiting(c) /\ HasButtons(queue, call[c].frame) => notifying # {}

(***************************************************************************)
(* Whatever threads call it, the n-th success of GetButtons is for frame   *)
(* n, and returns the default buttons in the initial delay and afterwards  *)
(* the ones PutButtons accepted for that frame (input-queue.h:34-51).  It  *)
(* takes a second consumer with a stale frame, or a put that comes after   *)
(* the get of its frame, to break it.                                      *)
(***************************************************************************)
DeliveredInOrder ==
  \A i \in 1..Len(delivered) :
     /\ delivered[i].frame = i - 1
     /\ IF InInitialDelay(queue, i - 1)
        THEN delivered[i].buttons = Default
        ELSE /\ (i - 1) \in DOMAIN accepted
             /\ delivered[i].buttons = accepted[i - 1]

(***************************************************************************)
(* A frame PutButtons returned true for is in the map, with those buttons, *)
(* or has been handed out: never both, never neither.                      *)
(***************************************************************************)
NothingLost ==
  /\ \A f \in DOMAIN accepted :
        f \in Buffered(queue) <=> f > queue.latest_frame_requested
  /\ \A f \in Buffered(queue) :
        /\ f \in DOMAIN accepted
        /\ queue.frame_buttons[f] = accepted[f]

(***************************************************************************)
(* The lock-step of the queue: a step hands out nothing, or exactly the    *)
(* frame after the latest (input-queue.hpp:99, "one at a time and in       *)
(* order"), even when the consumer asked for it long before.               *)
(***************************************************************************)
OneFrameAtATime ==
  [][ queue'.latest_frame_requested \in
        {queue.latest_frame_requested, queue.latest_frame_requested + 1} ]_vars

(***************************************************************************)
(* A consumer whose frame is there does not sleep on: its call returns, or *)
(* another consumer has taken the frame.                                   *)
(***************************************************************************)
BufferedFrameReturned ==
  \A c \in Consumers :
     Waiting(c) /\ HasButtons(queue, call[c].frame)
       ~> \/ call[c].at = "idle"
          \/ ~HasButtons(queue, call[c].frame)

(***************************************************************************)
(* A call with a timeout returns, whatever the other threads do.           *)
(***************************************************************************)
TimedCallReturns ==
  \A c \in Consumers : Waiting(c) /\ call[c].timed ~> call[c].at = "idle"

(***************************************************************************)
(* The inductive invariant of the module: the three safety invariants lean *)
(* on each other, on the number of frames delivered, and on a consumer     *)
(* never waiting for a frame past the next one.  From these two it follows *)
(* that the frame a consumer takes is the next one, however stale its call.*)
(***************************************************************************)
Counted == Len(delivered) = ExpectedFrame(queue)

NeverAhead ==
  \A c \in Consumers :
     call[c].at # "idle" => call[c].frame <= ExpectedFrame(queue)

AcceptedAfterDelay ==
  \A f \in DOMAIN accepted : ~InInitialDelay(queue, f)

IInv ==
  /\ TypeOK
  /\ NoLostWakeup
  /\ DeliveredInOrder
  /\ NothingLost
  /\ Counted
  /\ NeverAhead
  /\ AcceptedAfterDelay

(***************************************************************************)
(* The queue implements a tape: the cells written are the frames of the    *)
(* initial delay and the frames accepted, and what was delivered was read  *)
(* off the tape in order.                                                  *)
(***************************************************************************)
TapeInputs ==
  [f \in 0..(queue.initial_frame_delay - 1) \union DOMAIN accepted |->
     IF f \in DOMAIN accepted THEN accepted[f] ELSE Default]

TapeFrames == { f + d : f \in 0..MaxFrame, d \in Delays \union {0} }

Tape == INSTANCE InputTape
          WITH inputs <- TapeInputs, out <- delivered, Frames <- TapeFrames

ImplementsTape == Tape!Spec
=============================================================================
