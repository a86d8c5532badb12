---------------------- MODULE EventStreamHandlerProofs ----------------------
(***************************************************************************)
(* HInv of EventStreamHandler is inductive, for any ports and delays, any  *)
(* calls of the game, any events of the server, and a stream that may fail *)
(* in between.                                                             *)
(***************************************************************************)
EXTENDS EventStreamHandler, InputQueueLemmas

USE DefaultAssumption, PortsAssumption, ButtonsAssumption, FramesAssumption,
    BatchesAssumption, EventsAssumption

-----------------------------------------------------------------------------
(***************************************************************************)
(* The loops of PutButtons and of ReadUntilButtons                         *)
(* (event-stream-handler.hpp:201-247, 389-409) pass every element before   *)
(* the first that fails, and no other.                                     *)
(***************************************************************************)
LEMMA PassedLemma ==
  ASSUME NEW batch, Len(batch) \in Nat, NEW ok
  PROVE  LET n == Passed(batch, ok)
         IN  /\ n \in 0..Len(batch)
             /\ 1..n \subseteq ok
             /\ n < Len(batch) => n + 1 \notin ok
<1> DEFINE T == { m \in Nat : m >= Len(batch) \/ m + 1 \notin ok }
<1>1. Len(batch) \in T
  OBVIOUS
<1>2. PICK n \in T : \A m \in T : n <= m
  <2> HIDE DEF T
  <2>1. T \in SUBSET Nat
    BY DEF T
  <2> QED
    BY <1>1, <2>1, LeastNat
<1>3. n \in 0..Len(batch) /\ (n < Len(batch) => n + 1 \notin ok)
  BY <1>1, <1>2
<1>4. 1..n \subseteq ok
  <2> SUFFICES ASSUME NEW i \in 1..n
               PROVE  i \in ok
    OBVIOUS
  <2>1. i - 1 \notin T
    BY <1>2
  <2> QED
    BY <1>3, <2>1
<1> QED
  BY <1>3, <1>4 DEF Passed
-----------------------------------------------------------------------------
(***************************************************************************)
(* The queues and what was played from them, in the middle of an event as  *)
(* well as between two calls: HInv says this of input_queues and played.   *)
(***************************************************************************)
Ordered(queues, plays) ==
  /\ \A p \in DOMAIN queues :
        /\ IsQueue(queues[p])
        /\ \A f \in Buffered(queues[p]) :
              /\ f > queues[p].latest_frame_requested
              /\ ~InInitialDelay(queues[p], f)
        /\ \A k \in plays :
              k.port = p => k.frame \in 0..queues[p].latest_frame_requested
        /\ \A f \in 0..queues[p].latest_frame_requested :
              \E k \in plays : k.port = p /\ k.frame = f
  /\ plays \subseteq Key
  /\ \A k \in plays : k.port \in DOMAIN queues
  /\ \A k, l \in plays : k.port = l.port /\ k.frame = l.frame => k = l

\* TapeAt, of such queues.
TapeOf(queues, plays, port, frame) ==
  { k.buttons : k \in { l \in plays : l.port = port /\ l.frame = frame } }
    \union (IF HasButtons(queues[port], frame)
            THEN {queues[port].frame_buttons[frame]} ELSE {})

\* What was on a tape stays there, and nothing comes to it.
TapesKept(before, plays, after, plays_after) ==
  \A p \in DOMAIN before, f \in Int :
     TapeOf(before, plays, p, f) # {} =>
       TapeOf(after, plays_after, p, f) = TapeOf(before, plays, p, f)

\* The same ports, with the delays they had.
SameDelays(before, after) ==
  /\ DOMAIN after = DOMAIN before
  /\ \A p \in DOMAIN before :
        /\ after[p].delay_frames = before[p].delay_frames
        /\ after[p].initial_frame_delay = before[p].initial_frame_delay

\* Keys the queues accept, at the frames they are inserted at.
KeysFit(keys) ==
  /\ keys \subseteq [port : DOMAIN input_queues, frame : Nat, buttons : Buttons]
  /\ \A k \in keys :
        /\ k.frame > input_queues[k.port].latest_frame_requested
        /\ k.frame \notin Buffered(input_queues[k.port])
        /\ ~InInitialDelay(input_queues[k.port], k.frame)
  /\ \A k, l \in keys : k.port = l.port /\ k.frame = l.frame => k = l

(***************************************************************************)
(* Keys that are accepted come to stand on tapes that were empty there,    *)
(* with the buttons they have.                                             *)
(***************************************************************************)
LEMMA InsertedLemma ==
  ASSUME Ordered(input_queues, played), NEW keys, KeysFit(keys)
  PROVE  LET queues == Inserted(keys)
         IN  /\ Ordered(queues, played)
             /\ SameDelays(input_queues, queues)
             /\ TapesKept(input_queues, played, queues, played)
             /\ \A k \in keys : TapeOf(queues, played, k.port, k.frame) = {k.buttons}
             /\ \A p \in DOMAIN input_queues :
                   /\ queues[p].latest_frame_requested =
                        input_queues[p].latest_frame_requested
                   /\ \A f : HasButtons(queues[p], f) <=>
                          \/ HasButtons(input_queues[p], f)
                          \/ \E k \in keys : k.port = p /\ k.frame = f
<1> DEFINE queues == Inserted(keys)
<1>1. ASSUME NEW p \in DOMAIN input_queues
      PROVE  /\ IsQueue(queues[p])
             /\ Buffered(queues[p]) = Buffered(input_queues[p])
                  \union { k.frame : k \in { l \in keys : l.port = p } }
             /\ \A f \in Buffered(input_queues[p]) :
                   queues[p].frame_buttons[f] = input_queues[p].frame_buttons[f]
             /\ \A k \in keys : k.port = p =>
                   queues[p].frame_buttons[k.frame] = k.buttons
             /\ queues[p].delay_frames = input_queues[p].delay_frames
             /\ queues[p].initial_frame_delay = input_queues[p].initial_frame_delay
             /\ queues[p].latest_frame_requested =
                  input_queues[p].latest_frame_requested
  <2> DEFINE own == { k \in keys : k.port = p }
             frames == { k.frame : k \in own }
             buttons_of == [f \in frames |-> (CHOOSE k \in own : k.frame = f).buttons]
             q == input_queues[p]
             r == InsertAll(q, buttons_of)
  <2>1. queues[p] = r
    BY DEF Inserted
  <2>2. ASSUME NEW k \in own
        PROVE  k.frame \in frames /\ buttons_of[k.frame] = k.buttons
    <3>1. k.frame \in frames
      OBVIOUS
    <3> DEFINE l == CHOOSE m \in own : m.frame = k.frame
    <3>2. l \in own /\ l.frame = k.frame
      OBVIOUS
    <3>3. buttons_of[k.frame] = l.buttons
      BY <3>1
    <3> HIDE DEF l, buttons_of
    <3>4. l = k
      BY <3>2 DEF KeysFit
    <3> QED
      BY <3>1, <3>3, <3>4
  <2>3. /\ DOMAIN buttons_of = frames
        /\ frames \subseteq Nat
        /\ \A f \in frames : f \notin Buffered(q)
    BY DEF KeysFit
  <2> HIDE DEF buttons_of
  <2>4. \A f \in frames : buttons_of[f] \in Buttons
    <3> SUFFICES ASSUME NEW k \in own
                 PROVE  buttons_of[k.frame] \in Buttons
      OBVIOUS
    <3> QED
      BY <2>2 DEF KeysFit
  <2>5. IsQueue(q)
    BY DEF Ordered
  <2> HIDE DEF frames, own, q
  <2>6. /\ IsQueue(r)
        /\ Buffered(r) = Buffered(q) \union DOMAIN buttons_of
        /\ \A f \in Buffered(r) :
              r.frame_buttons[f] = IF f \in DOMAIN buttons_of THEN buttons_of[f]
                                   ELSE q.frame_buttons[f]
        /\ r.delay_frames = q.delay_frames
        /\ r.initial_frame_delay = q.initial_frame_delay
        /\ r.latest_frame_requested = q.latest_frame_requested
    <3>1. /\ DOMAIN buttons_of \subseteq Nat
          /\ \A f \in DOMAIN buttons_of : buttons_of[f] \in Buttons
      BY <2>3, <2>4
    <3> HIDE DEF r
    <3> QED
      BY <2>5, <3>1, InsertAllLemma, Zenon DEF r
  <2>7. /\ IsQueue(r)
        /\ Buffered(r) = Buffered(q) \union frames
        /\ \A f \in Buffered(r) :
              r.frame_buttons[f] = IF f \in frames THEN buttons_of[f]
                                   ELSE q.frame_buttons[f]
        /\ r.delay_frames = q.delay_frames
        /\ r.initial_frame_delay = q.initial_frame_delay
        /\ r.latest_frame_requested = q.latest_frame_requested
    <3> HIDE DEF r
    <3> QED
      BY <2>3, <2>6
  <2> HIDE DEF r
  <2>8. \A f \in Buffered(q) : r.frame_buttons[f] = q.frame_buttons[f]
    BY <2>3, <2>7
  <2>9. \A k \in own : r.frame_buttons[k.frame] = k.buttons
    BY <2>2, <2>7
  <2> QED
    BY <2>1, <2>7, <2>8, <2>9 DEF own, frames, q
<1>2. DOMAIN queues = DOMAIN input_queues
  BY DEF Inserted
<1> HIDE DEF queues
<1>3. SameDelays(input_queues, queues)
  BY <1>1, <1>2 DEF SameDelays
<1>4. Ordered(queues, played)
  <2>1. ASSUME NEW p \in DOMAIN queues, NEW f \in Buffered(queues[p])
        PROVE  /\ f > queues[p].latest_frame_requested
               /\ ~InInitialDelay(queues[p], f)
    BY <1>1, <1>2 DEF Ordered, KeysFit, InInitialDelay
  <2> QED
    BY <1>1, <1>2, <2>1 DEF Ordered
<1>5. ASSUME NEW p \in DOMAIN input_queues, NEW f
      PROVE  HasButtons(queues[p], f) <=>
               \/ HasButtons(input_queues[p], f)
               \/ \E k \in keys : k.port = p /\ k.frame = f
  BY <1>1 DEF HasButtons
<1>6. ASSUME NEW k \in keys
      PROVE  /\ TapeOf(queues, played, k.port, k.frame) = {k.buttons}
             /\ TapeOf(input_queues, played, k.port, k.frame) = {}
  <2>1. k.port \in DOMAIN input_queues /\ k.frame \in Nat
    BY DEF KeysFit
  <2>2. \A l \in played : ~(l.port = k.port /\ l.frame = k.frame)
    <3> SUFFICES ASSUME NEW l \in played, l.port = k.port, l.frame = k.frame
                 PROVE  FALSE
      OBVIOUS
    <3>1. l.frame \in 0..input_queues[k.port].latest_frame_requested
      BY <2>1 DEF Ordered
    <3> QED
      BY <2>1, <3>1 DEF KeysFit, Ordered, IsQueue
  <2>3. /\ HasButtons(queues[k.port], k.frame)
        /\ queues[k.port].frame_buttons[k.frame] = k.buttons
        /\ ~HasButtons(input_queues[k.port], k.frame)
    BY <1>1, <1>5, <2>1 DEF KeysFit, HasButtons
  <2> QED
    BY <2>2, <2>3 DEF TapeOf
<1>7. TapesKept(input_queues, played, queues, played)
  <2> SUFFICES ASSUME NEW p \in DOMAIN input_queues, NEW f \in Int,
                      TapeOf(input_queues, played, p, f) # {}
               PROVE  TapeOf(queues, played, p, f) = TapeOf(input_queues, played, p, f)
    BY DEF TapesKept
  <2>1. ~ \E k \in keys : k.port = p /\ k.frame = f
    BY <1>6
  <2>2. HasButtons(queues[p], f) <=> HasButtons(input_queues[p], f)
    BY <1>5, <2>1
  <2>3. HasButtons(input_queues[p], f) =>
          queues[p].frame_buttons[f] = input_queues[p].frame_buttons[f]
    BY <1>1 DEF HasButtons
  <2> QED
    BY <2>2, <2>3 DEF TapeOf
<1> QED
  BY <1>1, <1>3, <1>4, <1>5, <1>6, <1>7 DEF queues

(***************************************************************************)
(* A get that is answered (input-queue.hpp:110-137) moves one frame from   *)
(* the queue to the game, or gives it a frame of the delay; on the tapes   *)
(* nothing changes but that frame of the delay.                            *)
(***************************************************************************)
LEMMA PlayLemma ==
  ASSUME NEW queues, Ordered(queues, played), NEW port \in Ports, NEW frame \in Int,
         port \in DOMAIN queues, Ready(queues[port], frame),
         Play(queues, port, frame)
  PROVE  /\ Ordered(input_queues', played')
         /\ SameDelays(queues, input_queues')
         /\ TapesKept(queues, played, input_queues', played')
<1> DEFINE q == queues[port]
           r == Advance(q, frame)
           k == [port |-> port, frame |-> frame, buttons |-> Answer(q, frame)]
<1>1. /\ IsQueue(q)
      /\ frame \in Nat
      /\ frame = q.latest_frame_requested + 1
      /\ \A f \in Buffered(q) :
            f > q.latest_frame_requested /\ ~InInitialDelay(q, f)
  BY DEF Ordered, Ready, ExpectedFrame, IsQueue
<1>2. /\ IsQueue(r)
      /\ Answer(q, frame) \in Buttons
      /\ Buffered(r) = Buffered(q) \ {frame}
      /\ \A f \in Buffered(r) : r.frame_buttons[f] = q.frame_buttons[f]
      /\ HasButtons(q, frame) => Answer(q, frame) = q.frame_buttons[frame]
      /\ r.delay_frames = q.delay_frames
      /\ r.initial_frame_delay = q.initial_frame_delay
      /\ r.latest_frame_requested = frame
  <2> HIDE DEF q
  <2>1. CASE InInitialDelay(q, frame)
    <3>1. r = SkipDelay(q, frame) /\ Answer(q, frame) = Default
      BY <2>1 DEF Advance, Answer
    <3>2. frame \notin Buffered(q)
      BY <1>1, <2>1
    <3>3. LET t == SkipDelay(q, frame)
          IN  /\ IsQueue(t)
              /\ t.frame_buttons = q.frame_buttons
              /\ Buffered(t) = Buffered(q)
              /\ t.delay_frames = q.delay_frames
              /\ t.initial_frame_delay = q.initial_frame_delay
              /\ t.latest_frame_requested = frame
      BY <1>1, SkipDelayLemma
    <3> QED
      BY <3>1, <3>2, <3>3 DEF HasButtons
  <2>2. CASE ~InInitialDelay(q, frame)
    <3>1. /\ r = Take(q, frame)
          /\ Answer(q, frame) = q.frame_buttons[frame]
          /\ HasButtons(q, frame)
      BY <2>2 DEF Advance, Answer, Ready, q
    <3> QED
      BY <1>1, <3>1, TakeLemma
  <2> QED
    BY <2>1, <2>2
<1>3. /\ input_queues' = [queues EXCEPT ![port] = r]
      /\ played' = played \union {k}
  BY DEF Play
<1> HIDE DEF r
<1>4. /\ DOMAIN input_queues' = DOMAIN queues
      /\ input_queues'[port] = r
      /\ \A p \in DOMAIN queues \ {port} : input_queues'[p] = queues[p]
  BY <1>3
<1>5. SameDelays(queues, input_queues')
  BY <1>2, <1>4 DEF SameDelays
<1>6. k \in Key /\ k.port = port /\ k.frame = frame /\ k.buttons = Answer(q, frame)
  BY <1>2 DEF Key
<1> HIDE DEF k
<1>7. \A l \in played : ~(l.port = port /\ l.frame = frame)
  <2> SUFFICES ASSUME NEW l \in played, l.port = port, l.frame = frame
               PROVE  FALSE
    OBVIOUS
  <2>1. l.frame \in 0..q.latest_frame_requested
    BY DEF Ordered
  <2> QED
    BY <1>1, <2>1 DEF IsQueue
<1>8. Ordered(input_queues', played')
  <2>1. /\ played' \subseteq Key
        /\ \A l \in played' : l.port \in DOMAIN input_queues'
    BY <1>3, <1>4, <1>6 DEF Ordered
  <2>2. \A l, m \in played' : l.port = m.port /\ l.frame = m.frame => l = m
    BY <1>3, <1>6, <1>7 DEF Ordered
  <2>3. ASSUME NEW p \in DOMAIN input_queues'
        PROVE  /\ IsQueue(input_queues'[p])
               /\ \A f \in Buffered(input_queues'[p]) :
                     /\ f > input_queues'[p].latest_frame_requested
                     /\ ~InInitialDelay(input_queues'[p], f)
               /\ \A l \in played' : l.port = p =>
                     l.frame \in 0..input_queues'[p].latest_frame_requested
               /\ \A f \in 0..input_queues'[p].latest_frame_requested :
                     \E l \in played' : l.port = p /\ l.frame = f
    <3>1. CASE p = port
      <4>1. \A f \in Buffered(r) : f > frame /\ ~InInitialDelay(r, f)
        <5> SUFFICES ASSUME NEW f \in Buffered(r)
                     PROVE  f > frame /\ ~InInitialDelay(r, f)
          OBVIOUS
        <5>1. f \in Buffered(q) /\ f # frame /\ f \in Nat
          BY <1>1, <1>2 DEF IsQueue
        <5> QED
          BY <1>1, <1>2, <5>1 DEF IsQueue, InInitialDelay
      <4>2. \A l \in played' : l.port = p => l.frame \in 0..frame
        BY <1>1, <1>3, <1>6, <3>1 DEF Ordered, IsQueue
      <4>3. ASSUME NEW f \in 0..frame
            PROVE  \E l \in played' : l.port = p /\ l.frame = f
        <5>1. CASE f = frame
          BY <1>3, <1>6, <3>1, <5>1
        <5>2. CASE f # frame
          <6>1. f \in 0..q.latest_frame_requested
            BY <1>1, <5>2 DEF IsQueue
          <6> QED
            BY <1>3, <3>1, <6>1 DEF Ordered
        <5> QED
          BY <5>1, <5>2
      <4> HIDE DEF q
      <4> QED
        BY <1>2, <1>4, <3>1, <4>1, <4>2, <4>3
    <3>2. CASE p # port
      <4>1. \A l \in played' : l.port = p <=> l \in played /\ l.port = p
        BY <1>3, <1>6, <3>2
      <4> QED
        BY <1>3, <1>4, <3>2, <4>1 DEF Ordered
    <3> QED
      BY <3>1, <3>2
  <2> QED
    BY <2>1, <2>2, <2>3 DEF Ordered
<1>9. TapesKept(queues, played, input_queues', played')
  <2> SUFFICES ASSUME NEW p \in DOMAIN queues, NEW f \in Int,
                      TapeOf(queues, played, p, f) # {}
               PROVE  TapeOf(input_queues', played', p, f) = TapeOf(queues, played, p, f)
    BY DEF TapesKept
  <2>1. CASE p = port /\ f = frame
    <3>1. HasButtons(q, frame)
      BY <1>7, <2>1 DEF TapeOf
    <3>2. TapeOf(queues, played, p, f) = {q.frame_buttons[frame]}
      BY <1>7, <2>1, <3>1 DEF TapeOf
    <3>3. ~HasButtons(input_queues'[p], f)
      BY <1>2, <1>4, <2>1 DEF HasButtons
    <3>4. { l \in played' : l.port = p /\ l.frame = f } = {k}
      BY <1>3, <1>6, <1>7, <2>1
    <3>5. k.buttons = q.frame_buttons[frame]
      BY <1>2, <1>6, <3>1
    <3> HIDE DEF q
    <3>6. TapeOf(input_queues', played', p, f) = {k.buttons}
      BY <3>3, <3>4 DEF TapeOf
    <3> QED
      BY <3>2, <3>5, <3>6
  <2>2. CASE ~(p = port /\ f = frame)
    <3>1. { l \in played' : l.port = p /\ l.frame = f } =
            { l \in played : l.port = p /\ l.frame = f }
      BY <1>3, <1>6, <2>2
    <3>2. /\ HasButtons(input_queues'[p], f) <=> HasButtons(queues[p], f)
          /\ HasButtons(queues[p], f) =>
                input_queues'[p].frame_buttons[f] = queues[p].frame_buttons[f]
      BY <1>2, <1>4, <2>2 DEF HasButtons
    <3> QED
      BY <3>1, <3>2 DEF TapeOf
  <2> QED
    BY <2>1, <2>2
<1> QED
  BY <1>5, <1>8, <1>9

-----------------------------------------------------------------------------
(***************************************************************************)
(* Between two calls the queues are ordered, and the tapes are TapeAt.     *)
(***************************************************************************)
LEMMA HInvIsOrdered ==
  ASSUME HInv
  PROVE  /\ Ordered(input_queues, played)
         /\ \A p, f : TapeAt(p, f) = TapeOf(input_queues, played, p, f)
<1>1. ASSUME NEW p \in DOMAIN input_queues
      PROVE  /\ IsQueue(input_queues[p])
             /\ \A f \in Buffered(input_queues[p]) :
                   /\ f > input_queues[p].latest_frame_requested
                   /\ ~InInitialDelay(input_queues[p], f)
  BY DEF HInv, TypeOK, BufferedAhead
<1>2. ASSUME NEW p \in DOMAIN input_queues
      PROVE  /\ \A k \in played : k.port = p =>
                   k.frame \in 0..input_queues[p].latest_frame_requested
             /\ \A f \in 0..input_queues[p].latest_frame_requested :
                   \E k \in played : k.port = p /\ k.frame = f
  <2> DEFINE latest == input_queues[p].latest_frame_requested
             own == { l \in played : l.port = p }
             frames == { k.frame : k \in own }
  <2>1. frames = 0..latest
    BY DEF HInv, PlayedInOrder
  <2>2. \A k \in played : k.port = p => k.frame \in frames
    OBVIOUS
  <2>3. \A f \in frames : \E k \in played : k.port = p /\ k.frame = f
    OBVIOUS
  <2> QED
    BY <2>1, <2>2, <2>3
<1>3. /\ played \subseteq Key
      /\ \A k \in played : k.port \in DOMAIN input_queues
  BY DEF HInv, TypeOK, StartsOnce, Connected
<1>4. \A k, l \in played : k.port = l.port /\ k.frame = l.frame => k = l
  BY <1>3 DEF HInv, PlayedInOrder
<1>5. Ordered(input_queues, played)
  BY <1>1, <1>2, <1>3, <1>4 DEF Ordered
<1> QED
  BY <1>5 DEF TapeAt, TapeOf

(***************************************************************************)
(* A call that leaves the queues ordered, with their delays and with what  *)
(* is on their tapes, keeps what HInv says of queues and tapes.            *)
(***************************************************************************)
LEMMA TapesLemma ==
  ASSUME HInv, config' = config,
         Ordered(input_queues', played'), SameDelays(input_queues, input_queues'),
         TapesKept(input_queues, played, input_queues', played')
  PROVE  /\ QueuesMatchStart'
         /\ PlayedInOrder'
         /\ BufferedAhead'
         /\ \A p \in DOMAIN input_queues' : IsQueue(input_queues'[p])
         /\ played' \subseteq Key
         /\ DOMAIN input_queues' = DOMAIN input_queues
         /\ \A k \in put \union received \union played' : Connected(k.port)'
         /\ \A p, f : TapeAt(p, f)' = TapeOf(input_queues', played', p, f)
         /\ \A k \in put : TapeAt(k.port, k.frame)' = {k.buttons}
         /\ \A k \in received :
               ~Local(k.port) => TapeAt(k.port, k.frame)' = {k.buttons}
<1>1. DOMAIN input_queues' = DOMAIN input_queues
  BY DEF SameDelays
<1>2. QueuesMatchStart'
  BY <1>1 DEF HInv, QueuesMatchStart, SameDelays, Started, Local
<1>3. PlayedInOrder'
  <2> SUFFICES ASSUME NEW p \in DOMAIN input_queues'
               PROVE  /\ { k.frame : k \in { l \in played' : l.port = p } } =
                           0..input_queues'[p].latest_frame_requested
                      /\ \A k, l \in played' :
                           k.port = p /\ l.port = p /\ k.frame = l.frame => k = l
    BY DEF PlayedInOrder
  <2> DEFINE latest == input_queues'[p].latest_frame_requested
             own == { l \in played' : l.port = p }
             frames == { k.frame : k \in own }
  <2>1. frames \subseteq 0..latest
    BY DEF Ordered
  <2>2. ASSUME NEW f \in 0..latest
        PROVE  f \in frames
    <3>1. PICK k \in played' : k.port = p /\ k.frame = f
      BY DEF Ordered
    <3> QED
      BY <3>1
  <2>3. frames = 0..latest
    BY <2>1, <2>2
  <2> QED
    BY <2>3 DEF Ordered
<1>4. /\ BufferedAhead'
      /\ \A p \in DOMAIN input_queues' : IsQueue(input_queues'[p])
      /\ played' \subseteq Key
  BY DEF Ordered, BufferedAhead
<1>5. \A k \in put \union received \union played' : Connected(k.port)'
  BY <1>1 DEF HInv, StartsOnce, Ordered, Connected
<1>6. \A p, f : TapeAt(p, f)' = TapeOf(input_queues', played', p, f)
  BY DEF TapeAt, TapeOf
<1>7. ASSUME NEW k \in put \union received,
             TapeAt(k.port, k.frame) = {k.buttons}
      PROVE  TapeAt(k.port, k.frame)' = {k.buttons}
  <2>1. k.port \in DOMAIN input_queues /\ k.frame \in Int
    BY DEF HInv, TypeOK, StartsOnce, Connected, UnsentOnlyAfterFailure, Key
  <2>2. TapeOf(input_queues, played, k.port, k.frame) = {k.buttons}
    BY <1>7, HInvIsOrdered
  <2>3. TapeOf(input_queues', played', k.port, k.frame) = {k.buttons}
    BY <2>1, <2>2 DEF TapesKept
  <2> QED
    BY <1>6, <2>3
<1>8. /\ \A k \in put : TapeAt(k.port, k.frame)' = {k.buttons}
      /\ \A k \in received :
            ~Local(k.port) => TapeAt(k.port, k.frame)' = {k.buttons}
  BY <1>7 DEF HInv, PutIsPlayed, ReceivedIsPlayed
<1> QED
  BY <1>1, <1>2, <1>3, <1>4, <1>5, <1>6, <1>8

\* The calls there can be: what TypeOK says of call.
Call == [at : {"idle", "starting", "reading"}, port : Ports,
         frame : Frames \union {Idle.frame}]

(***************************************************************************)
(* Steps of the stream, and calls that fail or block, change no queue and  *)
(* no history.                                                             *)
(***************************************************************************)
LEMMA QueuesUnchangedLemma ==
  ASSUME HInv, UNCHANGED <<input_queues, status_, histories>>,
         stream' \in {"none", "open", "broken", "closed"}, call' \in Call,
         call'.at = "starting" => ~Started, ReadsOnlyWhatIsMissing'
  PROVE  HInv'
<1>1. UNCHANGED <<input_queues, status_, config, put, sent, received, played,
                  put_failed, logic_error>>
  BY DEF histories
<1>2. TypeOK'
  BY <1>1 DEF HInv, TypeOK, Call, Key
<1>3. QueuesMatchStart' /\ StartsOnce'
  BY <1>1 DEF HInv, QueuesMatchStart, StartsOnce, Started, Connected
<1>4. PlayedInOrder' /\ BufferedAhead'
  BY <1>1 DEF HInv, PlayedInOrder, BufferedAhead
<1>5. UnsentOnlyAfterFailure' /\ GotButtonsMeansReady'
  BY <1>1 DEF HInv, UnsentOnlyAfterFailure, GotButtonsMeansReady
<1>6. \A p, f : TapeAt(p, f)' = TapeAt(p, f)
  BY <1>1 DEF TapeAt
<1>7. PutIsPlayed' /\ ReceivedIsPlayed'
  BY <1>1, <1>6 DEF HInv, PutIsPlayed, ReceivedIsPlayed
<1> QED
  BY <1>2, <1>3, <1>4, <1>5, <1>7 DEF HInv

(***************************************************************************)
(* InitializeQueues (event-stream-handler.hpp:130-190) makes queues, with  *)
(* the delays the event gives, for the ports it has handled.               *)
(***************************************************************************)
LEMMA HandledLemma ==
  ASSUME NEW ports \in Seq([port : Ports, delay : Int])
  PROVE  /\ HandledPorts(ports) \subseteq Ports
         /\ \A p \in HandledPorts(ports) : DelayOf(ports, p) \in Int
<1> DEFINE n == Handled(ports)
<1>1. n \in 0..Len(ports)
  BY PassedLemma DEF Handled
<1> HIDE DEF n
<1>2. \A i \in 1..n : ports[i] \in [port : Ports, delay : Int]
  <2> DEFINE Entry == [port : Ports, delay : Int]
  <2>1. ports \in Seq(Entry)
    OBVIOUS
  <2> HIDE DEF Entry
  <2>2. \A i \in 1..n : ports[i] \in Entry
    BY <1>1, <2>1
  <2> QED
    BY <2>2 DEF Entry
<1>3. HandledPorts(ports) \subseteq Ports
  BY <1>2 DEF HandledPorts, n
<1>4. ASSUME NEW p \in HandledPorts(ports)
      PROVE  DelayOf(ports, p) \in Int
  <2> DEFINE entries == { ports[i] : i \in 1..n }
  <2>1. \E e \in entries : e.port = p
    BY DEF HandledPorts, n
  <2>2. entries \subseteq [port : Ports, delay : Int]
    BY <1>2
  <2>3. DelayOf(ports, p) = (CHOOSE e \in entries : e.port = p).delay
    BY DEF DelayOf, n
  <2> HIDE DEF entries
  <2> QED
    BY <2>1, <2>2, <2>3
<1> QED
  BY <1>3, <1>4

(***************************************************************************)
(* A start_game event that is accepted, refused half way, or not waited    *)
(* for, leaves the handler as it should be (event-stream-handler.hpp:      *)
(* 121-190): with queues that match the event, or with none.               *)
(***************************************************************************)
LEMMA ReadStartLemma ==
  ASSUME HInv, NEW event \in Events, ReadStart(event)
  PROVE  HInv'
<1> DEFINE ports == event.connected_ports
<1>1. /\ UNCHANGED <<stream, status_, put, sent, received, played, put_failed,
                     logic_error>>
      /\ call' = Idle
  BY DEF ReadStart
<1>2. /\ DOMAIN config = {}
      /\ DOMAIN input_queues = {}
      /\ put = {} /\ received = {} /\ played = {}
  <2>1. DOMAIN config = {} /\ DOMAIN input_queues = {}
    BY DEF ReadStart, HInv, StartsOnce, Started, QueuesMatchStart
  <2> QED
    BY <2>1 DEF HInv, StartsOnce, Connected
<1>3. sent = {}
  BY <1>2 DEF HInv, UnsentOnlyAfterFailure
<1>4. ports \in Seq([port : Ports, delay : Int])
  BY DEF IncomingEventPB
<1>5. /\ \A p \in DOMAIN input_queues' :
            /\ IsQueue(input_queues'[p])
            /\ Buffered(input_queues'[p]) = {}
            /\ input_queues'[p].latest_frame_requested = -1
      /\ DOMAIN config' \subseteq Ports
      /\ QueuesMatchStart'
  <2>1. CASE StartsConsole(event) /\ AllConnected(ports)
    <3>1. /\ input_queues' = Emplaced(ports)
          /\ config' = [p \in HandledPorts(ports) |-> DelayOf(ports, p)]
          /\ local_ports \subseteq HandledPorts(ports)
      BY <2>1 DEF ReadStart, StartedQueues, AllConnected
    <3> HIDE DEF ports
    <3>2. input_queues' = [p \in HandledPorts(ports) |->
                             IF Local(p) THEN MakeLocalQueue(DelayOf(ports, p))
                                         ELSE MakeRemoteQueue(DelayOf(ports, p))]
      BY <1>2, <3>1 DEF Emplaced, Connected
    <3>3. ASSUME NEW p \in HandledPorts(ports)
          PROVE  /\ IsQueue(input_queues'[p])
                 /\ Buffered(input_queues'[p]) = {}
                 /\ input_queues'[p].latest_frame_requested = -1
                 /\ input_queues'[p].initial_frame_delay = config'[p]
                 /\ input_queues'[p].delay_frames =
                      IF Local(p) THEN config'[p] ELSE 0
      <4> DEFINE delay == DelayOf(ports, p)
      <4>1. delay \in Int /\ config'[p] = delay
        BY <1>4, <3>1, HandledLemma
      <4>2. CASE Local(p)
        <5>1. input_queues'[p] = NewQueue(delay, delay)
          BY <3>2, <4>2 DEF MakeLocalQueue
        <5> QED
          BY <4>1, <4>2, <5>1, NewQueueLemma
      <4>3. CASE ~Local(p)
        <5>1. input_queues'[p] = NewQueue(0, delay)
          BY <3>2, <4>3 DEF MakeRemoteQueue
        <5> QED
          BY <4>1, <4>3, <5>1, NewQueueLemma
      <4> QED
        BY <4>2, <4>3
    <3>4. DOMAIN config' = HandledPorts(ports) /\ DOMAIN input_queues' = HandledPorts(ports)
      BY <3>1, <3>2
    <3> QED
      BY <1>4, <3>1, <3>3, <3>4, HandledLemma DEF QueuesMatchStart, Started, Local
  <2>2. CASE StartsConsole(event) /\ ~AllConnected(ports)
    <3>1. input_queues' = NoQueues /\ config' = config
      BY <2>2 DEF ReadStart, StartedQueues
    <3>2. DOMAIN input_queues' = {}
      BY <3>1 DEF NoQueues
    <3> QED
      BY <1>2, <3>1, <3>2 DEF QueuesMatchStart, Started
  <2>3. CASE ~StartsConsole(event)
    <3>1. input_queues' = input_queues /\ config' = config
      BY <2>3 DEF ReadStart
    <3> QED
      BY <1>2, <3>1 DEF QueuesMatchStart, Started
  <2> QED
    BY <2>1, <2>2, <2>3
<1>6. TypeOK'
  BY <1>1, <1>2, <1>3, <1>5 DEF HInv, TypeOK, Idle
<1>7. StartsOnce' /\ ReadsOnlyWhatIsMissing'
  BY <1>1, <1>2 DEF StartsOnce, ReadsOnlyWhatIsMissing, Idle
<1>8. PlayedInOrder'
  BY <1>1, <1>2, <1>5 DEF PlayedInOrder
<1>9. BufferedAhead' /\ PutIsPlayed' /\ ReceivedIsPlayed'
  BY <1>1, <1>2, <1>5 DEF BufferedAhead, PutIsPlayed, ReceivedIsPlayed
<1>10. UnsentOnlyAfterFailure' /\ GotButtonsMeansReady'
  BY <1>1 DEF HInv, UnsentOnlyAfterFailure, GotButtonsMeansReady
<1> QED
  BY <1>5, <1>6, <1>7, <1>8, <1>9, <1>10 DEF HInv

(***************************************************************************)
(* The elements of a batch that a queue accepts one after the other        *)
(* (input-queue.hpp:56-80) are keys that fit: no two of them are for the   *)
(* same port and frame, and none is for a frame that was played.           *)
(***************************************************************************)
LEMMA AsKeysLemma ==
  ASSUME HInv, NEW batch, Len(batch) \in Nat, NEW indices \in SUBSET (1..Len(batch)),
         \A i \in indices : /\ batch[i] \in Tuple
                            /\ Connected(batch[i].port)
                            /\ PutOK(batch, i)
  PROVE  KeysFit(AsKeys(batch, indices))
<1> DEFINE keys == AsKeys(batch, indices)
           q(i) == input_queues[batch[i].port]
           d(i) == DelayedFrame(q(i), batch[i].frame)
           key(i) == [port |-> batch[i].port, frame |-> d(i), buttons |-> batch[i].buttons]
           shifted(i) == [batch[i] EXCEPT !.frame = d(i)]
<1>1. \A i \in indices : shifted(i) = key(i)
  BY DEF Tuple
<1>2. keys = { key(i) : i \in indices }
  <2>1. keys = { shifted(i) : i \in indices }
    BY DEF AsKeys
  <2> HIDE DEF keys, shifted, key
  <2> QED
    BY <1>1, <2>1
<1>3. ASSUME NEW i \in indices
      PROVE  /\ batch[i].port \in DOMAIN input_queues
             /\ batch[i].buttons \in Buttons
             /\ batch[i].frame \in Int
             /\ q(i).delay_frames \in Int
             /\ d(i) \in Nat
             /\ d(i) > q(i).latest_frame_requested
             /\ d(i) \notin Buffered(q(i))
             /\ ~InInitialDelay(q(i), d(i))
  <2>1. IsQueue(q(i)) /\ Accepts(q(i), batch[i].frame)
    BY DEF HInv, TypeOK, Connected, PutOK
  <2>2. batch[i].port \in DOMAIN input_queues /\ batch[i] \in Tuple
    BY DEF Connected
  <2> HIDE DEF q
  <2> QED
    BY <2>1, <2>2 DEF IsQueue, Accepts, DelayedFrame, InInitialDelay, Tuple
<1>4. ASSUME NEW i \in indices, NEW j \in indices, batch[i].port = batch[j].port,
             d(i) = d(j)
      PROVE  i = j
  <2>1. batch[i].frame = batch[j].frame
    BY <1>3, <1>4 DEF DelayedFrame
  <2>2. ~(i < j) /\ ~(j < i)
    BY <1>4, <2>1 DEF PutOK
  <2> QED
    BY <2>2
<1>5. \A k \in keys : \E i \in indices : k = key(i)
  BY <1>2
<1> HIDE DEF keys, d
<1>6. keys \subseteq [port : DOMAIN input_queues, frame : Nat, buttons : Buttons]
  BY <1>3, <1>5
<1>7. \A k \in keys :
         /\ k.frame > input_queues[k.port].latest_frame_requested
         /\ k.frame \notin Buffered(input_queues[k.port])
         /\ ~InInitialDelay(input_queues[k.port], k.frame)
  BY <1>3, <1>5
<1>8. \A k, l \in keys : k.port = l.port /\ k.frame = l.frame => k = l
  <2> SUFFICES ASSUME NEW k \in keys, NEW l \in keys, k.port = l.port,
                      k.frame = l.frame
               PROVE  k = l
    OBVIOUS
  <2>1. PICK i \in indices : k = key(i)
    BY <1>5
  <2>2. PICK j \in indices : l = key(j)
    BY <1>5
  <2> QED
    BY <1>4, <2>1, <2>2
<1> QED
  BY <1>6, <1>7, <1>8 DEF KeysFit, keys

(***************************************************************************)
(* PutButtons (event-stream-handler.hpp:195-268) keeps the invariant: what *)
(* is queued for a local port comes to stand on its tape, and is written,  *)
(* with the frame it is queued at, or the call returns an error.           *)
(***************************************************************************)
LEMMA PutButtonsLemma ==
  ASSUME HInv, NEW batch \in Batches, PutButtons(batch)
  PROVE  HInv'
<1> DEFINE ok == { i \in 1..Len(batch) : Queued(batch, i) /\ Attached(batch, i) }
           n == Passed(batch, ok)
           queued == { i \in 1..Len(batch) : i <= n \/ (i = n + 1 /\ Queued(batch, i)) }
           keys == AsKeys(batch, queued)
<1>1. /\ call = Idle
      /\ input_queues' = Inserted(keys)
      /\ put' = put \union { k \in keys : Local(k.port) }
      /\ \/ n < Len(batch) /\ put_failed' = TRUE /\ sent' = sent
         \/ /\ n = Len(batch) /\ Outgoing(batch) = {}
            /\ put_failed' = put_failed /\ sent' = sent
         \/ /\ n = Len(batch) /\ sent' = sent \union Outgoing(batch)
            /\ put_failed' = put_failed
         \/ n = Len(batch) /\ put_failed' = TRUE /\ sent' = sent
      /\ UNCHANGED <<stream, status_, call, config, received, played, logic_error>>
  BY DEF PutButtons
<1>2. /\ Len(batch) \in Nat
      /\ \A i \in 1..Len(batch) : batch[i] \in Tuple
  <2>1. batch \in Seq(Tuple)
    OBVIOUS
  <2> QED
    BY <2>1
<1>3. n \in 0..Len(batch) /\ 1..n \subseteq ok
  <2> HIDE DEF ok
  <2> QED
    BY <1>2, PassedLemma
<1> HIDE DEF n
<1>4. \A i \in queued : Queued(batch, i)
  BY <1>3
<1>5. KeysFit(keys)
  <2>1. queued \in SUBSET (1..Len(batch))
    OBVIOUS
  <2> HIDE DEF queued
  <2> QED
    BY <1>2, <1>4, <2>1, AsKeysLemma DEF Queued
<1>6. n = Len(batch) => Outgoing(batch) = { k \in keys : Local(k.port) }
  <2> SUFFICES ASSUME n = Len(batch)
               PROVE  Outgoing(batch) = { k \in keys : Local(k.port) }
    OBVIOUS
  <2> DEFINE key(i) == [batch[i] EXCEPT !.frame =
                          DelayedFrame(input_queues[batch[i].port], batch[i].frame)]
  <2>1. queued = 1..Len(batch)
    BY <1>2
  <2>2. \A i \in 1..Len(batch) : key(i).port = batch[i].port
    BY <1>2 DEF Tuple
  <2>3. \A i \in 1..Len(batch) :
          key(i) = [batch[i] EXCEPT !.frame = @ + DelayFramesForPort(batch[i].port)]
    BY <1>4, <2>1 DEF Queued, DelayFramesForPort, DelayedFrame
  <2>4. keys = { key(i) : i \in 1..Len(batch) }
    BY <2>1 DEF AsKeys
  <2>5. Outgoing(batch) = { key(i) : i \in { j \in 1..Len(batch) : Local(batch[j].port) } }
    BY <2>3 DEF Outgoing
  <2> HIDE DEF keys, key
  <2> QED
    BY <2>2, <2>4, <2>5
<1> HIDE DEF keys
<1>7. /\ Ordered(input_queues', played')
      /\ SameDelays(input_queues, input_queues')
      /\ TapesKept(input_queues, played, input_queues', played')
      /\ \A k \in keys : TapeOf(input_queues', played', k.port, k.frame) = {k.buttons}
  BY <1>1, <1>5, HInvIsOrdered, InsertedLemma
<1>8. /\ QueuesMatchStart' /\ PlayedInOrder' /\ BufferedAhead'
      /\ \A p \in DOMAIN input_queues' : IsQueue(input_queues'[p])
      /\ DOMAIN input_queues' = DOMAIN input_queues
      /\ \A k \in put \union received \union played' : Connected(k.port)'
      /\ \A p, f : TapeAt(p, f)' = TapeOf(input_queues', played', p, f)
      /\ \A k \in put : TapeAt(k.port, k.frame)' = {k.buttons}
      /\ \A k \in received : ~Local(k.port) => TapeAt(k.port, k.frame)' = {k.buttons}
  BY <1>1, <1>7, TapesLemma
<1>9. keys \subseteq [port : DOMAIN input_queues, frame : Nat, buttons : Buttons]
  BY <1>5 DEF KeysFit
<1>10. keys \subseteq Key
  BY <1>9 DEF HInv, TypeOK, QueuesMatchStart, Key
<1>11. UnsentOnlyAfterFailure'
  BY <1>1, <1>6 DEF HInv, UnsentOnlyAfterFailure
<1>12. TypeOK'
  <2>1. put' \subseteq Key /\ sent' \subseteq put'
    BY <1>1, <1>10, <1>11 DEF HInv, TypeOK, UnsentOnlyAfterFailure
  <2> QED
    BY <1>1, <1>8, <2>1 DEF HInv, TypeOK
<1>13. StartsOnce'
  BY <1>1, <1>8, <1>9 DEF StartsOnce, Connected, Idle
<1>14. PutIsPlayed'
  BY <1>1, <1>7, <1>8 DEF PutIsPlayed
<1>15. ReceivedIsPlayed'
  BY <1>1, <1>8 DEF ReceivedIsPlayed
<1>16. ReadsOnlyWhatIsMissing' /\ GotButtonsMeansReady'
  BY <1>1 DEF HInv, ReadsOnlyWhatIsMissing, GotButtonsMeansReady, Idle
<1> QED
  BY <1>8, <1>11, <1>12, <1>13, <1>14, <1>15, <1>16 DEF HInv

(***************************************************************************)
(* GetButtons (event-stream-handler.hpp:273-352) keeps the invariant,      *)
(* whether it plays, fails, or goes on to read the stream.                 *)
(***************************************************************************)
LEMMA GetButtonsLemma ==
  ASSUME HInv, NEW port \in Ports, NEW frame \in Frames, GetButtons(port, frame)
  PROVE  HInv'
<1> DEFINE q == input_queues[port]
<1>1. /\ call = Idle
      /\ port \in DOMAIN input_queues
      /\ UNCHANGED <<stream, status_, config, put, sent, received, put_failed,
                     logic_error>>
  BY DEF GetButtons, Connected
<1>2. call \in Call /\ stream \in {"none", "open", "broken", "closed"}
  BY DEF HInv, TypeOK, Call
<1>3. CASE Ready(q, frame) /\ Play(input_queues, port, frame) /\ UNCHANGED call
  <2>1. /\ Ordered(input_queues', played')
        /\ SameDelays(input_queues, input_queues')
        /\ TapesKept(input_queues, played, input_queues', played')
    BY <1>1, <1>3, HInvIsOrdered, PlayLemma
  <2>2. /\ QueuesMatchStart' /\ PlayedInOrder' /\ BufferedAhead'
        /\ \A p \in DOMAIN input_queues' : IsQueue(input_queues'[p])
        /\ played' \subseteq Key
        /\ DOMAIN input_queues' = DOMAIN input_queues
        /\ \A k \in put \union received \union played' : Connected(k.port)'
        /\ \A k \in put : TapeAt(k.port, k.frame)' = {k.buttons}
        /\ \A k \in received : ~Local(k.port) => TapeAt(k.port, k.frame)' = {k.buttons}
    BY <1>1, <2>1, TapesLemma
  <2>3. TypeOK' /\ StartsOnce'
    BY <1>1, <1>3, <2>2 DEF HInv, TypeOK, StartsOnce, Idle, Key
  <2>4. PutIsPlayed' /\ ReceivedIsPlayed'
    BY <1>1, <2>2 DEF PutIsPlayed, ReceivedIsPlayed
  <2>5. ReadsOnlyWhatIsMissing' /\ UnsentOnlyAfterFailure' /\ GotButtonsMeansReady'
    BY <1>1, <1>3 DEF HInv, ReadsOnlyWhatIsMissing, UnsentOnlyAfterFailure,
                      GotButtonsMeansReady, Idle
  <2> QED
    BY <2>2, <2>3, <2>4, <2>5 DEF HInv
<1>4. CASE /\ ~Ready(q, frame) /\ ~Local(port) /\ frame = ExpectedFrame(q)
           /\ call' = [at |-> "reading", port |-> port, frame |-> frame]
           /\ UNCHANGED <<input_queues, played>>
  <2>1. UNCHANGED <<input_queues, status_, histories>>
    BY <1>1, <1>4 DEF histories
  <2>2. call' \in Call /\ call'.at # "starting"
    BY <1>4 DEF Call
  <2>3. ~HasButtons(q, frame) /\ ~InInitialDelay(q, frame)
    BY <1>4 DEF Ready
  <2>4. ReadsOnlyWhatIsMissing'
    BY <1>1, <1>4, <2>3
       DEF ReadsOnlyWhatIsMissing, Local, Connected
  <2> QED
    BY <1>1, <1>2, <2>1, <2>2, <2>4, QueuesUnchangedLemma
<1>5. CASE UNCHANGED <<input_queues, played, call>>
  <2>1. UNCHANGED <<input_queues, status_, histories>>
    BY <1>1, <1>5 DEF histories
  <2> QED
    BY <1>1, <1>2, <1>5, <2>1, QueuesUnchangedLemma
       DEF ReadsOnlyWhatIsMissing, Idle
<1> QED
  BY <1>3, <1>4, <1>5 DEF GetButtons

(***************************************************************************)
(* What is on a tape stays there from one call to the next as well.        *)
(***************************************************************************)
LEMMA TapesKeptTwice ==
  ASSUME NEW a, NEW b, NEW c, NEW s, NEW t, NEW u, SameDelays(a, b),
         TapesKept(a, s, b, t), TapesKept(b, t, c, u)
  PROVE  TapesKept(a, s, c, u)
  BY DEF SameDelays, TapesKept

(***************************************************************************)
(* An event with keys (event-stream-handler.hpp:355-421): those before the *)
(* first that cannot be used come to stand on the tapes, and the requested *)
(* one is played, for it is the next of its queue.                         *)
(***************************************************************************)
LEMMA ReadKeysLemma ==
  ASSUME HInv, NEW event \in Events, ReadKeys(event)
  PROVE  HInv'
<1> DEFINE batch == event.key_press
           ok == { i \in 1..Len(batch) : KeyOK(batch, i) }
           n == Passed(batch, ok)
           keys == AsKeys(batch, 1..n)
           queues == Inserted(keys)
<1>1. /\ call.at = "reading"
      /\ received' = received \union { batch[i] : i \in 1..n }
      /\ \/ input_queues' = queues /\ call' = Idle /\ UNCHANGED <<played, logic_error>>
         \/ /\ ~Found(batch, n) /\ input_queues' = queues
            /\ UNCHANGED <<call, played, logic_error>>
         \/ /\ Ready(queues[call.port], call.frame)
            /\ Play(queues, call.port, call.frame)
            /\ call' = Idle /\ UNCHANGED logic_error
         \/ Found(batch, n) /\ ~Ready(queues[call.port], call.frame)
      /\ UNCHANGED <<stream, status_, config, put, sent, put_failed>>
  BY DEF ReadKeys
<1>2. /\ Len(batch) \in Nat
      /\ \A i \in 1..Len(batch) : batch[i] \in Key
  <2>1. batch \in Seq(Key)
    BY DEF IncomingEventPB
  <2> QED
    BY <2>1
<1> HIDE DEF batch
<1>3. n \in 0..Len(batch) /\ 1..n \subseteq ok
  <2> HIDE DEF ok
  <2> QED
    BY <1>2, PassedLemma
<1> HIDE DEF n
<1>4. \A i \in 1..n : /\ batch[i] \in Tuple
                      /\ Connected(batch[i].port)
                      /\ PutOK(batch, i)
  BY <1>2, <1>3 DEF KeyOK, Key, Tuple
<1>5. KeysFit(keys)
  <2>1. 1..n \in SUBSET (1..Len(batch))
    BY <1>3
  <2> HIDE DEF ok
  <2> QED
    BY <1>2, <1>4, <2>1, AsKeysLemma
<1>6. \A i \in 1..n : ~Local(batch[i].port) => batch[i] \in keys
  <2> SUFFICES ASSUME NEW i \in 1..n, ~Local(batch[i].port)
               PROVE  batch[i] \in keys
    OBVIOUS
  <2> DEFINE q == input_queues[batch[i].port]
  <2>1. q.delay_frames = 0
    BY <1>4 DEF HInv, QueuesMatchStart, Connected
  <2>2. batch[i].frame \in Int
    BY <1>4 DEF Tuple
  <2>3. DelayedFrame(q, batch[i].frame) = batch[i].frame
    BY <2>1, <2>2 DEF DelayedFrame
  <2>4. [batch[i] EXCEPT !.frame = DelayedFrame(q, batch[i].frame)] = batch[i]
    BY <1>4, <2>3 DEF Tuple
  <2>5. [batch[i] EXCEPT !.frame = DelayedFrame(q, batch[i].frame)] \in keys
    BY DEF AsKeys
  <2> QED
    BY <2>4, <2>5
<1>7. \A k \in keys : \E i \in 1..n :
         k.port = batch[i].port /\ (~Local(k.port) => k = batch[i])
  <2> SUFFICES ASSUME NEW i \in 1..n
               PROVE  LET k == [batch[i] EXCEPT !.frame =
                                  DelayedFrame(input_queues[batch[i].port], batch[i].frame)]
                      IN  k.port = batch[i].port /\ (~Local(k.port) => k = batch[i])
    BY DEF AsKeys
  <2> DEFINE q == input_queues[batch[i].port]
  <2>1. CASE Local(batch[i].port)
    BY <1>4, <2>1 DEF Tuple
  <2>2. CASE ~Local(batch[i].port)
    <3>1. q.delay_frames = 0
      BY <1>4, <2>2 DEF HInv, QueuesMatchStart, Connected
    <3>2. batch[i] = [port |-> batch[i].port, frame |-> batch[i].frame,
                      buttons |-> batch[i].buttons] /\ batch[i].frame \in Int
      BY <1>4 DEF Tuple
    <3>3. DelayedFrame(q, batch[i].frame) = batch[i].frame
      BY <3>1, <3>2 DEF DelayedFrame
    <3> QED
      BY <3>2, <3>3
  <2> QED
    BY <2>1, <2>2
<1>8. /\ Ordered(queues, played)
      /\ SameDelays(input_queues, queues)
      /\ TapesKept(input_queues, played, queues, played)
      /\ \A k \in keys : TapeOf(queues, played, k.port, k.frame) = {k.buttons}
      /\ \A p \in DOMAIN input_queues :
            /\ queues[p].latest_frame_requested = input_queues[p].latest_frame_requested
            /\ \A f : HasButtons(queues[p], f) <=>
                   \/ HasButtons(input_queues[p], f)
                   \/ \E k \in keys : k.port = p /\ k.frame = f
  <2> HIDE DEF keys
  <2> QED
    BY <1>5, HInvIsOrdered, InsertedLemma
<1>9. /\ keys \subseteq [port : DOMAIN input_queues, frame : Nat, buttons : Buttons]
  <2> HIDE DEF keys
  <2> QED
    BY <1>5 DEF KeysFit
<1> HIDE DEF keys, queues, ok
<1>10. /\ ~Local(call.port)
       /\ call.port \in Ports
       /\ call.port \in DOMAIN input_queues
       /\ call.frame \in Int
       /\ call.frame = ExpectedFrame(input_queues[call.port])
       /\ ~HasButtons(input_queues[call.port], call.frame)
       /\ ~InInitialDelay(input_queues[call.port], call.frame)
  <2>1. call \in Call
    BY DEF HInv, TypeOK, Call
  <2>2. Idle.frame = 0
    BY DEF Idle
  <2>3. call.port \in Ports /\ call.frame \in Frames \union {0}
    BY <2>1, <2>2 DEF Call
  <2>4. call.frame \in Int
    <3>1. Frames \union {0} \subseteq Int
      BY FramesAssumption
    <3> QED
      BY <2>3, <3>1
  <2>5. call.at = "reading"
    BY <1>1
  <2> QED
    BY <2>3, <2>4, <2>5 DEF HInv, ReadsOnlyWhatIsMissing, Connected
<1>11. HasButtons(queues[call.port], call.frame) <=> Found(batch, n)
  <2>1. HasButtons(queues[call.port], call.frame) <=>
          \E k \in keys : k.port = call.port /\ k.frame = call.frame
    BY <1>8, <1>10
  <2>2. (\E k \in keys : k.port = call.port /\ k.frame = call.frame) <=>
          \E i \in 1..n : batch[i].port = call.port /\ batch[i].frame = call.frame
    BY <1>6, <1>7, <1>10
  <2> QED
    BY <2>1, <2>2 DEF Found
<1>12. Found(batch, n) => Ready(queues[call.port], call.frame)
  BY <1>8, <1>10, <1>11 DEF Ready, ExpectedFrame
<1>13. /\ Ordered(input_queues', played')
       /\ SameDelays(queues, input_queues')
       /\ TapesKept(queues, played, input_queues', played')
  <2>1. CASE input_queues' = queues /\ played' = played
    BY <1>8, <2>1 DEF SameDelays, TapesKept
  <2>2. CASE /\ Ready(queues[call.port], call.frame)
             /\ Play(queues, call.port, call.frame)
    <3>1. call.port \in DOMAIN queues
      BY <1>8, <1>10 DEF SameDelays
    <3> QED
      BY <1>8, <1>10, <2>2, <3>1, PlayLemma
  <2> QED
    BY <1>1, <1>12, <2>1, <2>2
<1>14. /\ SameDelays(input_queues, input_queues')
       /\ TapesKept(input_queues, played, input_queues', played')
  <2>1. SameDelays(input_queues, input_queues')
    BY <1>8, <1>13 DEF SameDelays
  <2> QED
    BY <1>8, <1>13, <2>1, TapesKeptTwice
<1>15. /\ QueuesMatchStart' /\ PlayedInOrder' /\ BufferedAhead'
       /\ \A p \in DOMAIN input_queues' : IsQueue(input_queues'[p])
       /\ played' \subseteq Key
       /\ DOMAIN input_queues' = DOMAIN input_queues
       /\ \A k \in put \union received \union played' : Connected(k.port)'
       /\ \A p, f : TapeAt(p, f)' = TapeOf(input_queues', played', p, f)
       /\ \A k \in put : TapeAt(k.port, k.frame)' = {k.buttons}
       /\ \A k \in received : ~Local(k.port) => TapeAt(k.port, k.frame)' = {k.buttons}
  BY <1>1, <1>13, <1>14, TapesLemma
<1>16. ASSUME NEW k \in keys
       PROVE  TapeAt(k.port, k.frame)' = {k.buttons}
  <2>1. k.port \in DOMAIN queues /\ k.frame \in Int
    BY <1>8, <1>9 DEF SameDelays
  <2>2. TapeOf(queues, played, k.port, k.frame) = {k.buttons}
    BY <1>8
  <2> QED
    BY <1>13, <1>15, <2>1, <2>2 DEF TapesKept
<1>17. call' = Idle \/ (call' = call /\ ~Found(batch, n) /\ input_queues' = queues)
  BY <1>1, <1>12
<1>18. logic_error' = logic_error
  BY <1>1, <1>12
<1>19. TypeOK'
  <2>1. received' \subseteq Key
    BY <1>1, <1>2, <1>3 DEF HInv, TypeOK
  <2>2. call' \in Call
    BY <1>17 DEF HInv, TypeOK, Call, Idle
  <2> QED
    BY <1>1, <1>15, <1>18, <2>1, <2>2 DEF HInv, TypeOK, Call
<1>20. StartsOnce'
  <2>1. \A i \in 1..n : batch[i].port \in DOMAIN input_queues
    BY <1>4 DEF Connected
  <2>2. call'.at # "starting"
    BY <1>1, <1>17 DEF Idle
  <2> QED
    BY <1>1, <1>15, <2>1, <2>2 DEF StartsOnce, Connected
<1>21. PutIsPlayed'
  BY <1>1, <1>15 DEF PutIsPlayed
<1>22. ReceivedIsPlayed'
  BY <1>1, <1>6, <1>15, <1>16 DEF ReceivedIsPlayed
<1>23. ReadsOnlyWhatIsMissing'
  <2>1. CASE call' = Idle
    BY <2>1 DEF ReadsOnlyWhatIsMissing, Idle
  <2>2. CASE call' = call /\ ~Found(batch, n) /\ input_queues' = queues
    <3>1. /\ queues[call.port].initial_frame_delay =
               input_queues[call.port].initial_frame_delay
          /\ queues[call.port].latest_frame_requested =
               input_queues[call.port].latest_frame_requested
          /\ DOMAIN queues = DOMAIN input_queues
      BY <1>8, <1>10 DEF SameDelays
    <3>2. ~HasButtons(queues[call.port], call.frame)
      BY <1>11, <2>2
    <3> QED
      BY <1>10, <2>2, <3>1, <3>2
         DEF ReadsOnlyWhatIsMissing, Connected, ExpectedFrame, InInitialDelay, Local
  <2> QED
    BY <1>17, <2>1, <2>2
<1>24. UnsentOnlyAfterFailure' /\ GotButtonsMeansReady'
  BY <1>1, <1>18 DEF HInv, UnsentOnlyAfterFailure, GotButtonsMeansReady
<1> QED
  BY <1>15, <1>19, <1>20, <1>21, <1>22, <1>23, <1>24 DEF HInv

-----------------------------------------------------------------------------
(***************************************************************************)
(* A handler as it is made (event-stream-handler.hpp:12-46) satisfies the  *)
(* invariant.                                                              *)
(***************************************************************************)
LEMMA HInvInit == Init => HInv
<1> SUFFICES ASSUME Init PROVE HInv
  OBVIOUS
<1>1. DOMAIN input_queues = {} /\ DOMAIN config = {}
  BY DEF Init, NoQueues, NoConfig
<1>2. TypeOK
  BY <1>1 DEF Init, TypeOK, Idle
<1>3. QueuesMatchStart /\ PlayedInOrder /\ BufferedAhead
  BY <1>1 DEF QueuesMatchStart, Started, PlayedInOrder, BufferedAhead
<1>4. ReadsOnlyWhatIsMissing /\ GotButtonsMeansReady /\ StartsOnce
  BY DEF Init, ReadsOnlyWhatIsMissing, GotButtonsMeansReady, StartsOnce, Idle
<1>5. UnsentOnlyAfterFailure /\ ReceivedIsPlayed /\ PutIsPlayed
  BY DEF Init, UnsentOnlyAfterFailure, ReceivedIsPlayed, PutIsPlayed
<1> QED
  BY <1>2, <1>3, <1>4, <1>5 DEF HInv

(***************************************************************************)
(* Every call of the game, event of the server and break of the stream     *)
(* keeps the invariant.                                                    *)
(***************************************************************************)
LEMMA HInvNext == HInv /\ [Next]_vars => HInv'
<1> SUFFICES ASSUME HInv, [Next]_vars PROVE HInv'
  OBVIOUS
<1>1. /\ call \in Call /\ Idle \in Call
      /\ stream \in {"none", "open", "broken", "closed"}
      /\ call.at = "starting" => ~Started
      /\ ReadsOnlyWhatIsMissing
  BY DEF HInv, TypeOK, StartsOnce, Call, Idle
<1>2. ASSUME UNCHANGED <<input_queues, status_, histories>>,
             stream' \in {"none", "open", "broken", "closed"},
             call' \in {call, Idle, [Idle EXCEPT !.at = "starting"]},
             call'.at = "starting" => ~Started
      PROVE  HInv'
  <2>1. call' \in Call
    BY <1>1, <1>2 DEF Call, Idle
  <2>2. ReadsOnlyWhatIsMissing'
    <3>1. call' = call \/ call'.at # "reading"
      BY <1>2 DEF Idle
    <3> QED
      BY <1>1, <1>2, <3>1 DEF ReadsOnlyWhatIsMissing, Local, Connected
  <2> QED
    BY <1>2, <2>1, <2>2, QueuesUnchangedLemma
<1>3. CASE ClientReady
  BY <1>1, <1>2, <1>3 DEF ClientReady
<1>4. CASE WaitForConsoleStart
  BY <1>1, <1>2, <1>4 DEF WaitForConsoleStart
<1>5. CASE ReadFails
  BY <1>2, <1>5 DEF ReadFails, Idle
<1>6. CASE StreamBreaks
  BY <1>1, <1>2, <1>6 DEF StreamBreaks
<1>7. CASE TryCancel
  BY <1>1, <1>2, <1>7 DEF TryCancel
<1>8. ASSUME NEW event \in Events, ReadStart(event)
      PROVE  HInv'
  BY <1>8, ReadStartLemma
<1>9. ASSUME NEW event \in Events, ReadManagement(event)
      PROVE  HInv'
  BY <1>1, <1>2, <1>9 DEF ReadManagement, Idle
<1>10. ASSUME NEW event \in Events, ReadKeys(event)
       PROVE  HInv'
  BY <1>10, ReadKeysLemma
<1>11. ASSUME NEW batch \in Batches, PutButtons(batch)
       PROVE  HInv'
  BY <1>11, PutButtonsLemma
<1>12. ASSUME NEW port \in Ports, NEW frame \in Frames, GetButtons(port, frame)
       PROVE  HInv'
  BY <1>12, GetButtonsLemma
<1>13. CASE UNCHANGED vars
  BY <1>1, <1>2, <1>13 DEF vars
<1> QED
  BY <1>3, <1>4, <1>5, <1>6, <1>7, <1>8, <1>9, <1>10, <1>11, <1>12, <1>13 DEF Next

(***************************************************************************)
(* HInv holds of every handler, whatever its game and its server do.       *)
(***************************************************************************)
THEOREM HandlerInductive == Spec => []HInv
  BY HInvInit, HInvNext, PTL DEF Spec

-----------------------------------------------------------------------------
(***************************************************************************)
(* Every variable of the handler stays in its type: the maps hold buttons  *)
(* that can be played, never what could not be decoded (event-stream-      *)
(* handler.hpp:389-404).                                                   *)
(***************************************************************************)
THEOREM HandlerTypeCorrect == Spec => []TypeOK
<1>1. HInv => TypeOK
  BY DEF HInv
<1> QED
  BY <1>1, HandlerInductive, PTL

(***************************************************************************)
(* There are queues exactly for the ports of the start_game event that was *)
(* accepted, with its delays: an attempt that failed half way leaves none  *)
(* behind (event-stream-handler.hpp:121-125).                              *)
(***************************************************************************)
THEOREM StartsOnlyWhatMatches == Spec => []QueuesMatchStart
<1>1. HInv => QueuesMatchStart
  BY DEF HInv
<1> QED
  BY <1>1, HandlerInductive, PTL

(***************************************************************************)
(* On each port the game is given frames 0, 1, 2, ... without a hole, and  *)
(* one input for each, whatever it asks for and whatever the server sends  *)
(* (event-stream-handler.hpp:273-352).                                     *)
(***************************************************************************)
THEOREM PlaysInOrder == Spec => []PlayedInOrder
<1>1. HInv => PlayedInOrder
  BY DEF HInv
<1> QED
  BY <1>1, HandlerInductive, PTL

(***************************************************************************)
(* The branch "Probable logic error." (event-stream-handler.hpp:342-349)   *)
(* is dead.                                                                *)
(***************************************************************************)
THEOREM FoundIsReady == Spec => []GotButtonsMeansReady
<1>1. HInv => GotButtonsMeansReady
  BY DEF HInv
<1> QED
  BY <1>1, HandlerInductive, PTL

(***************************************************************************)
(* The handler blocks on the stream only for the next frame of a remote    *)
(* port, and only while that frame is missing (event-stream-               *)
(* handler.hpp:315-352, 355-421).                                          *)
(***************************************************************************)
THEOREM BlocksOnlyOnWhatIsMissing == Spec => []ReadsOnlyWhatIsMissing
<1>1. HInv => ReadsOnlyWhatIsMissing
  BY DEF HInv
<1> QED
  BY <1>1, HandlerInductive, PTL

(***************************************************************************)
(* What is written was queued, and what was queued for a local port is     *)
(* written, unless a call of PutButtons returned an error (event-stream-   *)
(* handler.hpp:201-246).                                                   *)
(***************************************************************************)
THEOREM WritesWhatItQueues == Spec => []UnsentOnlyAfterFailure
<1>1. HInv => UnsentOnlyAfterFailure
  BY DEF HInv
<1> QED
  BY <1>1, HandlerInductive, PTL

(***************************************************************************)
(* What the server says of a remote port is what is played on it, in spite *)
(* of contradictory keys and of calls that fail half way through an event  *)
(* (event-stream-handler.hpp:389-421).                                     *)
(***************************************************************************)
THEOREM PlaysWhatItReads == Spec => []ReceivedIsPlayed
<1>1. HInv => ReceivedIsPlayed
  BY DEF HInv
<1> QED
  BY <1>1, HandlerInductive, PTL

(***************************************************************************)
(* What the other clients are told of a local port is what this client     *)
(* plays on it, at the frame that was written (event-stream-               *)
(* handler.hpp:201-246).                                                   *)
(***************************************************************************)
THEOREM PlaysWhatItWrites == Spec => []SentIsPlayed
<1>1. HInv => SentIsPlayed
  BY DEF HInv, UnsentOnlyAfterFailure, PutIsPlayed, SentIsPlayed
<1> QED
  BY <1>1, HandlerInductive, PTL
=============================================================================
