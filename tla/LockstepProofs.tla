--------------------------- MODULE LockstepProofs ---------------------------
(***************************************************************************)
(* LInv of Lockstep is inductive, for any number of clients and ports, any *)
(* delays, and streams that may break; and all clients agree on the input  *)
(* of every port and frame.                                                *)
(***************************************************************************)
EXTENDS Lockstep, InputQueueLemmas, SequenceTheorems

USE DefaultAssumption, OwnerAssumption, DelayAssumption, MaxFrameAssumption

-----------------------------------------------------------------------------
(***************************************************************************)
(* The queues with keys of the event just read (event-stream-handler.hpp:  *)
(* 389-416) hold inputs only, whatever the keys are and however they are   *)
(* grouped: two keys for a frame are the same.                             *)
(***************************************************************************)
LEMMA InsertedLemma ==
  ASSUME LInv, NEW c \in Clients, NEW p \in Ports, NEW keys \in SUBSET incoming[c]
  PROVE  QueueOK(c, p, Inserted(c, keys)[p])
<1> DEFINE q == queues[c][p]
           own == { k \in keys : k.port = p }
           buttons_of == [f \in { k.frame : k \in own } |->
                            (CHOOSE k \in own : k.frame = f).buttons]
           r == Inserted(c, keys)[p]
<1>1. QueueOK(c, p, q)
  BY DEF LInv
<1>2. /\ r = [q EXCEPT !.frame_buttons =
                [f \in Buffered(q) \union DOMAIN buttons_of |->
                   IF f \in DOMAIN buttons_of THEN buttons_of[f]
                   ELSE q.frame_buttons[f]]]
  BY DEF Inserted, InsertAll
<1>3. ASSUME NEW f \in DOMAIN buttons_of
      PROVE  f \in Nat /\ buttons_of[f] \in Buttons /\ IsInput(p, f, buttons_of[f])
  <2>1. PICK k \in own : k.frame = f
    OBVIOUS
  <2> DEFINE l == CHOOSE m \in own : m.frame = f
  <2>2. l \in own /\ l.frame = f
    BY <2>1
  <2>3. l \in incoming[c] /\ l \in Key /\ l.port = p
    BY <2>2 DEF LInv, TypeOK
  <2>4. buttons_of[f] = l.buttons
    OBVIOUS
  <2> HIDE DEF l, own, buttons_of
  <2>5. IsInput(p, f, l.buttons)
    BY <2>2, <2>3 DEF LInv
  <2> QED
    BY <2>2, <2>3, <2>4, <2>5 DEF Key
<1>4. IsQueue(q)
  BY <1>1 DEF QueueOK
<1> HIDE DEF q, buttons_of
<1>5. r = [ delay_frames |-> q.delay_frames,
            initial_frame_delay |-> q.initial_frame_delay,
            latest_frame_requested |-> q.latest_frame_requested,
            frame_buttons |-> [f \in Buffered(q) \union DOMAIN buttons_of |->
                   IF f \in DOMAIN buttons_of THEN buttons_of[f]
                   ELSE q.frame_buttons[f]] ]
  BY <1>2, <1>4 DEF IsQueue
<1> HIDE DEF r
<1>6. Buffered(r) = Buffered(q) \union DOMAIN buttons_of
  BY <1>5 DEF Buffered
<1>7. \A f \in Buffered(r) :
         r.frame_buttons[f] = IF f \in DOMAIN buttons_of THEN buttons_of[f]
                              ELSE q.frame_buttons[f]
  BY <1>5, <1>6
<1>8. IsQueue(r)
  BY <1>3, <1>4, <1>5, <1>6 DEF IsQueue
<1>9. \A f \in Buffered(r) : IsInput(p, f, r.frame_buttons[f])
  BY <1>1, <1>3, <1>6, <1>7 DEF QueueOK
<1>10. QueueOK(c, p, r)
  BY <1>1, <1>5, <1>6, <1>8, <1>9
     DEF QueueOK, ExpectedFrame, InInitialDelay, HasButtons
<1> QED
  BY <1>10 DEF r

(***************************************************************************)
(* A get that is answered (input-queue.hpp:110-137) is given the input of  *)
(* the port for its frame, and leaves a queue that has lost nothing else.  *)
(***************************************************************************)
LEMMA AnswerLemma ==
  ASSUME LInv, NEW c \in Clients, NEW p \in Ports, NEW q, QueueOK(c, p, q),
         NEW f \in Nat, Ready(q, f)
  PROVE  LET r == Advance(q, f)
         IN  /\ IsInput(p, f, Answer(q, f))
             /\ Answer(q, f) \in Buttons
             /\ f = Len(played[c][p])
             /\ IsQueue(r)
             /\ r.initial_frame_delay = q.initial_frame_delay
             /\ r.delay_frames = q.delay_frames
             /\ r.latest_frame_requested = f
             /\ Buffered(r) \subseteq Buffered(q)
             /\ Buffered(q) \ {f} \subseteq Buffered(r)
             /\ \A g \in Buffered(r) : r.frame_buttons[g] = q.frame_buttons[g]
<1> DEFINE r == Advance(q, f)
<1>1. /\ IsQueue(q)
      /\ f = Len(played[c][p])
      /\ q.latest_frame_requested = f - 1
      /\ q.initial_frame_delay = delay[p]
  BY DEF QueueOK, Ready, ExpectedFrame, IsQueue
<1>2. CASE InInitialDelay(q, f)
  <2>1. Answer(q, f) = Default /\ r = SkipDelay(q, f)
    BY <1>2 DEF Answer, Advance
  <2>2. f \in 0..(delay[p] - 1)
    BY <1>1, <1>2 DEF InInitialDelay
  <2>3. IsInput(p, f, Default)
    BY <2>2 DEF LInv
  <2>4. LET t == SkipDelay(q, f)
        IN  /\ IsQueue(t)
            /\ t.frame_buttons = q.frame_buttons
            /\ Buffered(t) = Buffered(q)
            /\ t.delay_frames = q.delay_frames
            /\ t.initial_frame_delay = q.initial_frame_delay
            /\ t.latest_frame_requested = f
    BY <1>1, SkipDelayLemma
  <2> QED
    BY <1>1, <2>1, <2>3, <2>4
<1>3. CASE ~InInitialDelay(q, f)
  <2>1. /\ HasButtons(q, f)
        /\ Answer(q, f) = q.frame_buttons[f]
        /\ r = Take(q, f)
    BY <1>3 DEF Ready, Answer, Advance
  <2>2. IsInput(p, f, q.frame_buttons[f])
    BY <2>1 DEF QueueOK, HasButtons
  <2> QED
    BY <1>1, <2>1, <2>2, TakeLemma
<1> QED
  BY <1>2, <1>3

(***************************************************************************)
(* A game that is given its input of a port, by GetButtons or after a read *)
(* (event-stream-handler.hpp:292-346), keeps the invariant.                *)
(***************************************************************************)
LEMMA PlayLemma ==
  ASSUME LInv, NEW c \in Clients, NEW p \in Ports, NEW qs,
         DOMAIN qs = Ports, \A x \in Ports : QueueOK(c, x, qs[x]),
         Ready(qs[p], frame[c]), Play(c, p, qs), UNCHANGED <<inputs, up>>,
         reading' \in [Clients -> SUBSET Ports], stopped' = stopped,
         DOMAIN incoming' = Clients,
         \A d \in Clients : incoming'[d] \subseteq incoming[d]
  PROVE  LInv'
<1> DEFINE f == frame[c]
           r == Advance(qs[p], f)
           b == Answer(qs[p], f)
<1>1. /\ f \in Nat
      /\ played \in [Clients -> [Ports -> Seq(Buttons)]]
      /\ DOMAIN queues = Clients
      /\ \A d \in Clients : DOMAIN queues[d] = Ports
  BY DEF LInv, TypeOK
<1>2. /\ IsInput(p, f, b)
      /\ b \in Buttons
      /\ f = Len(played[c][p])
      /\ IsQueue(r)
      /\ r.initial_frame_delay = qs[p].initial_frame_delay
      /\ r.delay_frames = qs[p].delay_frames
      /\ r.latest_frame_requested = f
      /\ Buffered(r) \subseteq Buffered(qs[p])
      /\ Buffered(qs[p]) \ {f} \subseteq Buffered(r)
      /\ \A g \in Buffered(r) : r.frame_buttons[g] = qs[p].frame_buttons[g]
  BY <1>1, AnswerLemma
<1>3. /\ played' = [played EXCEPT ![c][p] = Append(@, b)]
      /\ queues' = [queues EXCEPT ![c] = [qs EXCEPT ![p] = r]]
  BY DEF Play
<1> HIDE DEF r, b
<1>4. /\ played' \in [Clients -> [Ports -> Seq(Buttons)]]
      /\ \A d \in Clients, x \in Ports :
            played'[d][x] = IF d = c /\ x = p THEN Append(played[c][p], b)
                            ELSE played[d][x]
  <2>1. Append(played[c][p], b) \in Seq(Buttons)
    BY <1>1, <1>2
  <2> QED
    BY <1>1, <1>3, <2>1
<1>5. /\ DOMAIN queues' = Clients
      /\ \A d \in Clients : DOMAIN queues'[d] = Ports
      /\ \A d \in Clients, x \in Ports :
            queues'[d][x] = IF d # c THEN queues[d][x]
                            ELSE IF x = p THEN r ELSE qs[x]
  BY <1>1, <1>3
<1>6. ASSUME NEW d \in Clients, NEW x \in Ports
      PROVE  QueueOK(d, x, queues[d][x])'
  <2>1. CASE d # c
    <3>1. QueueOK(d, x, queues[d][x])
      BY DEF LInv
    <3> QED
      BY <1>4, <1>5, <2>1, <3>1 DEF QueueOK, IsInput
  <2>2. CASE d = c /\ x # p
    <3>1. QueueOK(d, x, qs[x])
      BY <2>2
    <3> QED
      BY <1>4, <1>5, <2>2, <3>1 DEF QueueOK, IsInput
  <2>3. CASE d = c /\ x = p
    <3>1. QueueOK(c, p, qs[p])
      OBVIOUS
    <3>2. queues'[d][x] = r /\ played'[d][x] = Append(played[c][p], b)
      BY <1>4, <1>5, <2>3
    <3>3. Len(played'[d][x]) = f + 1
      BY <1>1, <1>2, <3>2
    <3>4. qs[p].latest_frame_requested = f - 1
      BY <1>1 DEF Ready, ExpectedFrame, QueueOK, IsQueue
    <3>5. \A g \in Buffered(r) : IsInput(p, g, r.frame_buttons[g])
      BY <1>2, <3>1 DEF QueueOK
    <3>6. owner[p] = c => \A g \in DOMAIN inputs[p] :
             InInitialDelay(r, g) \/ g <= f \/ HasButtons(r, g)
      <4> SUFFICES ASSUME owner[p] = c, NEW g \in DOMAIN inputs[p]
                   PROVE  InInitialDelay(r, g) \/ g <= f \/ HasButtons(r, g)
        OBVIOUS
      <4>1. g \in Nat
        BY DEF LInv, TypeOK
      <4>2. InInitialDelay(qs[p], g) \/ g <= f - 1 \/ HasButtons(qs[p], g)
        BY <3>1, <3>4 DEF QueueOK
      <4> QED
        BY <1>1, <1>2, <4>1, <4>2 DEF InInitialDelay, HasButtons
    <3> QED
      BY <1>2, <2>3, <3>1, <3>2, <3>3, <3>5, <3>6
         DEF QueueOK, IsInput, ExpectedFrame
  <2> QED
    BY <2>1, <2>2, <2>3
<1>7. PlayedIsInput'
  <2> SUFFICES ASSUME NEW d \in Clients, NEW x \in Ports,
                      NEW i \in 1..Len(played'[d][x])
               PROVE  IsInput(x, i - 1, played'[d][x][i])
    BY DEF PlayedIsInput, IsInput
  <2>0. LET s == played[c][p]
        IN  /\ Len(Append(s, b)) = f + 1
            /\ Append(s, b)[f + 1] = b
            /\ \A j \in 1..f : Append(s, b)[j] = s[j]
    <3>1. played[c][p] \in Seq(Buttons)
      BY <1>1
    <3> QED
      BY <1>2, <3>1
  <2>1. CASE d = c /\ x = p /\ i = f + 1
    <3>1. played'[d][x][i] = b
      BY <1>4, <2>0, <2>1
    <3> QED
      BY <1>1, <1>2, <2>1, <3>1
  <2>2. CASE ~(d = c /\ x = p /\ i = f + 1)
    <3>1. i \in 1..Len(played[d][x]) /\ played'[d][x][i] = played[d][x][i]
      <4>1. CASE d = c /\ x = p
        <5>1. played'[d][x] = Append(played[c][p], b)
          BY <1>4, <4>1
        <5>2. i \in 1..(f + 1) /\ i # f + 1
          BY <1>1, <2>0, <2>2, <4>1, <5>1
        <5>3. i \in 1..f
          <6>1. \A n \in Nat : \A j \in 1..(n + 1) : j # n + 1 => j \in 1..n
            OBVIOUS
          <6> QED
            BY <1>1, <5>2, <6>1
        <5> QED
          BY <1>2, <2>0, <4>1, <5>1, <5>3
      <4>2. CASE ~(d = c /\ x = p)
        BY <1>4, <4>2
      <4> QED
        BY <4>1, <4>2
    <3> QED
      BY <3>1 DEF LInv, PlayedIsInput, IsInput
  <2> QED
    BY <2>1, <2>2
<1>8. TypeOK'
  <2>1. /\ frame' \in [Clients -> Nat]
        /\ pending' \in [Clients -> SUBSET Ports]
    BY DEF LInv, TypeOK, Play
  <2>2. \A d \in Clients, x \in Ports : IsQueue(queues'[d][x])
    BY <1>6 DEF QueueOK
  <2> QED
    BY <1>4, <1>5, <2>1, <2>2 DEF LInv, TypeOK, Key
<1> QED
  BY <1>6, <1>7, <1>8 DEF LInv, IsInput

(***************************************************************************)
(* A put (event-stream-handler.hpp:197-268) writes inputs nobody has       *)
(* written: the queue of the port would have refused another.              *)
(***************************************************************************)
LEMMA PutIsNew ==
  ASSUME LInv, NEW p \in Ports, NEW g \in Nat,
         Accepts(queues[owner[p]][p], g)
  PROVE  g + delay[p] \notin DOMAIN inputs[p]
<1> DEFINE q == queues[owner[p]][p]
<1>1. QueueOK(owner[p], p, q)
  BY DEF LInv
<1>2. /\ DelayedFrame(q, g) = g + delay[p]
      /\ ~InInitialDelay(q, g + delay[p])
      /\ ~(g + delay[p] <= q.latest_frame_requested)
      /\ ~HasButtons(q, g + delay[p])
  BY <1>1 DEF QueueOK, IsQueue, Accepts, DelayedFrame, InInitialDelay, HasButtons
<1> QED
  BY <1>1, <1>2 DEF QueueOK

(***************************************************************************)
(* A put keeps the invariant: what it writes to the tape, puts in the      *)
(* queue and sends is the same input, for the same frame.                  *)
(***************************************************************************)
LEMMA PutLemma ==
  ASSUME LInv, NEW c \in Clients, NEW buttons \in [LocalPorts(c) -> Buttons],
         PutButtons(c, buttons)
  PROVE  LInv'
<1> DEFINE f == frame[c]
<1>1. /\ f \in Nat
      /\ DOMAIN queues = Clients
      /\ \A d \in Clients : DOMAIN queues[d] = Ports
  BY DEF LInv, TypeOK
<1>2. CASE stopped' = [stopped EXCEPT ![c] = TRUE] /\
           UNCHANGED <<frame, reading, up, played, queues, inputs, incoming, pending>>
  <2>1. TypeOK'
    BY <1>2 DEF LInv, TypeOK
  <2>2. /\ \A p \in Ports : \A g \in 0..(delay[p] - 1) : IsInput(p, g, Default)'
        /\ \A d \in Clients, p \in Ports : QueueOK(d, p, queues[d][p])'
        /\ \A d \in Clients : \A k \in incoming'[d] :
              IsInput(k.port, k.frame, k.buttons)'
        /\ PlayedIsInput'
    BY <1>2 DEF LInv, QueueOK, PlayedIsInput, IsInput
  <2> QED
    BY <2>1, <2>2 DEF LInv
<1>3. CASE /\ \A p \in LocalPorts(c) : Accepts(queues[c][p], f)
           /\ queues' = [queues EXCEPT ![c] =
                [p \in Ports |->
                   IF p \in LocalPorts(c)
                   THEN Insert(queues[c][p], f, buttons[p]) ELSE queues[c][p]]]
           /\ inputs' =
                [p \in Ports |->
                   IF p \in LocalPorts(c)
                   THEN [g \in DOMAIN inputs[p] \union {f + delay[p]} |->
                           IF g = f + delay[p] THEN buttons[p] ELSE inputs[p][g]]
                   ELSE inputs[p]]
           /\ incoming' =
                [d \in Clients |->
                   IF d # c /\ up[c] /\ up[d]
                   THEN incoming[d] \union OutgoingKeys(c, buttons)
                   ELSE incoming[d]]
           /\ pending' = [pending EXCEPT ![c] = Awaited(c)]
           /\ UNCHANGED <<stopped, frame, reading, up, played>>
  <2>0. played' = played
    BY <1>3
  <2>1. \A p \in LocalPorts(c) :
           p \in Ports /\ owner[p] = c /\ f + delay[p] \notin DOMAIN inputs[p]
    BY <1>1, <1>3, PutIsNew DEF LocalPorts
  <2>2. /\ DOMAIN inputs' = Ports
        /\ \A p \in Ports : \A g \in DOMAIN inputs[p] :
              g \in DOMAIN inputs'[p] /\ inputs'[p][g] = inputs[p][g]
        /\ \A p \in LocalPorts(c) :
              /\ DOMAIN inputs'[p] = DOMAIN inputs[p] \union {f + delay[p]}
              /\ inputs'[p][f + delay[p]] = buttons[p]
        /\ \A p \in Ports \ LocalPorts(c) : inputs'[p] = inputs[p]
    BY <1>3, <2>1
  <2> DEFINE IsInputNow(p, g, b) == g \in DOMAIN inputs'[p] /\ inputs'[p][g] = b
  <2>3. \A p, g, b : p \in Ports /\ IsInput(p, g, b) => IsInputNow(p, g, b)
    BY <2>2 DEF IsInput
  <2>4. \A p \in LocalPorts(c) : buttons[p] \in Buttons /\ f + delay[p] \in Nat
    BY <1>1, <2>1
  <2>5. \A p \in Ports : /\ DOMAIN inputs'[p] \subseteq Nat
                         /\ inputs'[p] \in [DOMAIN inputs'[p] -> Buttons]
    <3> SUFFICES ASSUME NEW p \in Ports
                 PROVE  /\ DOMAIN inputs'[p] \subseteq Nat
                        /\ inputs'[p] \in [DOMAIN inputs'[p] -> Buttons]
      OBVIOUS
    <3>1. /\ DOMAIN inputs[p] \subseteq Nat
          /\ inputs[p] \in [DOMAIN inputs[p] -> Buttons]
      BY DEF LInv, TypeOK
    <3>2. CASE p \notin LocalPorts(c)
      BY <2>2, <3>1, <3>2
    <3>3. CASE p \in LocalPorts(c)
      BY <1>3, <2>4, <3>1, <3>3
    <3> QED
      BY <3>2, <3>3
  <2>6. /\ DOMAIN queues' = Clients
        /\ \A d \in Clients : DOMAIN queues'[d] = Ports
        /\ \A d \in Clients, p \in Ports :
              queues'[d][p] = IF d = c /\ p \in LocalPorts(c)
                              THEN Insert(queues[c][p], f, buttons[p])
                              ELSE queues[d][p]
    BY <1>1, <1>3
  <2>7. ASSUME NEW d \in Clients, NEW p \in Ports
        PROVE  QueueOK(d, p, queues[d][p])'
    <3>1. QueueOK(d, p, queues[d][p])
      BY DEF LInv
    <3>2. CASE ~(d = c /\ p \in LocalPorts(c))
      <4>1. queues'[d][p] = queues[d][p]
        BY <2>6, <3>2
      <4>2. owner[p] = d => inputs'[p] = inputs[p]
        BY <2>2, <3>2 DEF LocalPorts
      <4>3. \A g \in Buffered(queues[d][p]) :
               IsInputNow(p, g, queues[d][p].frame_buttons[g])
        BY <2>3, <3>1, <4>1 DEF QueueOK
      <4> QED
        BY <2>0, <3>1, <4>1, <4>2, <4>3 DEF QueueOK, IsInput
    <3>3. CASE d = c /\ p \in LocalPorts(c)
      <4> DEFINE q == queues[c][p]
                 r == Insert(q, f, buttons[p])
                 e == f + delay[p]
      <4>1. IsQueue(q) /\ Accepts(q, f) /\ DelayedFrame(q, f) = e
        BY <1>3, <2>1, <3>1, <3>3 DEF QueueOK, DelayedFrame
      <4>2. /\ IsQueue(r)
            /\ Buffered(r) = Buffered(q) \union {e}
            /\ r.frame_buttons[e] = buttons[p]
            /\ \A g \in Buffered(q) : r.frame_buttons[g] = q.frame_buttons[g]
            /\ r.delay_frames = q.delay_frames
            /\ r.initial_frame_delay = q.initial_frame_delay
            /\ r.latest_frame_requested = q.latest_frame_requested
        BY <1>1, <2>4, <3>3, <4>1, InsertLemma
      <4>3. queues'[d][p] = r
        BY <2>6, <3>3
      <4> HIDE DEF r, e
      <4>4. \A g \in Buffered(r) : IsInputNow(p, g, r.frame_buttons[g])
        <5> SUFFICES ASSUME NEW g \in Buffered(r)
                     PROVE  IsInputNow(p, g, r.frame_buttons[g])
          OBVIOUS
        <5>1. CASE g = e
          BY <2>2, <3>3, <4>2, <5>1 DEF e
        <5>2. CASE g # e
          BY <2>3, <3>1, <3>3, <4>2, <5>2 DEF QueueOK
        <5> QED
          BY <5>1, <5>2
      <4>5. \A g \in DOMAIN inputs'[p] :
               \/ InInitialDelay(r, g)
               \/ g <= r.latest_frame_requested
               \/ HasButtons(r, g)
        BY <2>1, <2>2, <3>1, <3>3, <4>2
           DEF QueueOK, InInitialDelay, HasButtons, e
      <4> QED
        BY <1>3, <2>1, <3>1, <3>3, <4>2, <4>3, <4>4, <4>5
           DEF QueueOK, IsInput, ExpectedFrame
    <3> QED
      BY <3>2, <3>3
  <2>8. ASSUME NEW d \in Clients, NEW k \in incoming'[d]
        PROVE  k \in Key /\ IsInput(k.port, k.frame, k.buttons)'
    <3>1. CASE k \in incoming[d]
      <4>1. k \in Key /\ IsInput(k.port, k.frame, k.buttons)
        BY <3>1 DEF LInv, TypeOK
      <4> QED
        BY <2>3, <4>1 DEF Key, IsInput
    <3>2. CASE k \in OutgoingKeys(c, buttons)
      <4>1. PICK p \in LocalPorts(c) :
               k = [port |-> p, frame |-> f + delay[p], buttons |-> buttons[p]]
        BY <3>2 DEF OutgoingKeys
      <4> QED
        BY <2>1, <2>2, <2>4, <4>1 DEF Key, IsInput
    <3> QED
      BY <1>3, <3>1, <3>2
  <2>9. PlayedIsInput'
    <3> SUFFICES ASSUME NEW d \in Clients, NEW p \in Ports,
                        NEW i \in 1..Len(played[d][p])
                 PROVE  IsInputNow(p, i - 1, played[d][p][i])
      BY <2>0 DEF PlayedIsInput
    <3>1. IsInput(p, i - 1, played[d][p][i])
      BY DEF LInv, PlayedIsInput, IsInput
    <3> QED
      BY <2>3, <3>1
  <2>10. TypeOK'
    <3>1. \A d \in Clients, p \in Ports : IsQueue(queues'[d][p])
      BY <2>7 DEF QueueOK
    <3>2. pending' \in [Clients -> SUBSET Ports]
      BY <1>3 DEF LInv, TypeOK, Awaited
    <3> QED
      BY <1>3, <2>2, <2>5, <2>6, <2>8, <3>1, <3>2 DEF LInv, TypeOK
  <2>11. \A p \in Ports : \A g \in 0..(delay[p] - 1) : IsInput(p, g, Default)'
    BY <2>3 DEF LInv, IsInput
  <2> QED
    BY <2>7, <2>8, <2>9, <2>10, <2>11 DEF LInv
<1> QED
  BY <1>2, <1>3 DEF PutButtons

-----------------------------------------------------------------------------
(***************************************************************************)
(* The handlers as WaitForConsoleStart leaves them satisfy the invariant.  *)
(***************************************************************************)
LEMMA InitLemma == Init => LInv
<1> SUFFICES ASSUME Init PROVE LInv
  OBVIOUS
<1>1. ASSUME NEW c \in Clients, NEW p \in Ports
      PROVE  QueueOK(c, p, queues[c][p])
  <2> DEFINE q == queues[c][p]
  <2>1. /\ IsQueue(q)
        /\ Buffered(q) = {}
        /\ q.latest_frame_requested = -1
        /\ q.initial_frame_delay = delay[p]
        /\ q.delay_frames = IF owner[p] = c THEN delay[p] ELSE 0
    <3>1. CASE owner[p] = c
      <4>1. q = NewQueue(delay[p], delay[p])
        BY <3>1 DEF Init, NewHandler, MakeLocalQueue
      <4> QED
        BY <3>1, <4>1, NewQueueLemma
    <3>2. CASE owner[p] # c
      <4>1. q = NewQueue(0, delay[p])
        BY <3>2 DEF Init, NewHandler, MakeRemoteQueue
      <4> QED
        BY <3>2, <4>1, NewQueueLemma
    <3> QED
      BY <3>1, <3>2
  <2>2. Len(played[c][p]) = 0
    BY DEF Init
  <2>3. \A f \in DOMAIN inputs[p] : f < delay[p]
    BY DEF Init
  <2> QED
    BY <2>1, <2>2, <2>3 DEF QueueOK, ExpectedFrame, InInitialDelay
<1>2. \A p \in Ports : \A f \in 0..(delay[p] - 1) : IsInput(p, f, Default)
  BY DEF Init, IsInput
<1>3. PlayedIsInput
  BY DEF Init, PlayedIsInput
<1>4. TypeOK
  <2>1. \A p \in Ports : /\ DOMAIN inputs[p] \subseteq Nat
                         /\ inputs[p] \in [DOMAIN inputs[p] -> Buttons]
    BY DEF Init
  <2>2. /\ DOMAIN queues = Clients
        /\ \A c \in Clients : /\ DOMAIN queues[c] = Ports
                              /\ \A p \in Ports : IsQueue(queues[c][p])
    BY <1>1 DEF Init, NewHandler, QueueOK
  <2> QED
    BY <2>1, <2>2 DEF Init, TypeOK
<1> QED
  BY <1>1, <1>2, <1>3, <1>4 DEF LInv, Init

(***************************************************************************)
(* No step of any client, and no stream that breaks, violates LInv.        *)
(***************************************************************************)
LEMMA StepLemma == LInv /\ [Next]_vars => LInv'
<1> SUFFICES ASSUME LInv, [Next]_vars PROVE LInv'
  OBVIOUS
<1> USE DEF Free
<1>1. ASSUME NEW c \in Clients, Put(c) PROVE LInv'
  BY <1>1, PutLemma DEF Put
<1>2. ASSUME NEW c \in Clients, NEW p \in Ports, GetButtons(c, p) PROVE LInv'
  <2>1. CASE Ready(queues[c][p], frame[c]) /\ Play(c, p, queues[c]) /\
             UNCHANGED <<reading, stopped, up, incoming, inputs>>
    <3> DEFINE qs == queues[c]
    <3>1. DOMAIN qs = Ports /\ \A x \in Ports : QueueOK(c, x, qs[x])
      BY DEF LInv, TypeOK
    <3>2. reading' \in [Clients -> SUBSET Ports] /\ DOMAIN incoming' = Clients
      BY <2>1 DEF LInv, TypeOK
    <3> QED
      BY <2>1, <3>1, <3>2, PlayLemma
  <2>2. CASE /\ reading' = [reading EXCEPT ![c] = {p}]
             /\ UNCHANGED <<frame, pending, queues, played, stopped, up, incoming, inputs>>
    <3>1. TypeOK'
      BY <2>2 DEF LInv, TypeOK
    <3> QED
      BY <2>2, <3>1 DEF LInv, QueueOK, PlayedIsInput, IsInput
  <2>3. CASE /\ stopped' = [stopped EXCEPT ![c] = TRUE]
             /\ UNCHANGED <<frame, pending, reading, queues, played, up, incoming, inputs>>
    <3>1. TypeOK'
      BY <2>3 DEF LInv, TypeOK
    <3> QED
      BY <2>3, <3>1 DEF LInv, QueueOK, PlayedIsInput, IsInput
  <2> QED
    BY <1>2, <2>1, <2>2, <2>3 DEF GetButtons
<1>3. ASSUME NEW c \in Clients, NEW p \in Ports, NEW keys \in SUBSET incoming[c],
             ReadKeys(c, p, keys)
      PROVE  LInv'
  <2> DEFINE qs == Inserted(c, keys)
  <2>1. DOMAIN qs = Ports /\ \A x \in Ports : QueueOK(c, x, qs[x])
    BY InsertedLemma DEF Inserted
  <2>2. /\ DOMAIN incoming' = Clients
        /\ \A d \in Clients : incoming'[d] \subseteq incoming[d]
        /\ UNCHANGED <<up, inputs>>
    BY <1>3 DEF ReadKeys, LInv, TypeOK
  <2>3. CASE /\ Ready(qs[p], frame[c])
             /\ Play(c, p, qs)
             /\ reading' = [reading EXCEPT ![c] = {}]
             /\ UNCHANGED stopped
    <3>1. reading' \in [Clients -> SUBSET Ports]
      BY <2>3 DEF LInv, TypeOK
    <3> HIDE DEF qs
    <3> QED
      BY <2>1, <2>2, <2>3, <3>1, PlayLemma
  <2>4. CASE /\ queues' = [queues EXCEPT ![c] = qs]
             /\ UNCHANGED <<frame, pending, reading, played, stopped>>
    <3> HIDE DEF qs
    <3>1. /\ DOMAIN queues' = Clients
          /\ \A d \in Clients : DOMAIN queues'[d] = Ports
          /\ \A d \in Clients, x \in Ports :
                queues'[d][x] = IF d = c THEN qs[x] ELSE queues[d][x]
      BY <2>1, <2>4 DEF LInv, TypeOK
    <3>2. \A d \in Clients, x \in Ports : QueueOK(d, x, queues[d][x])'
      BY <2>1, <2>2, <2>4, <3>1 DEF LInv, QueueOK, IsInput
    <3>3. \A d \in Clients, x \in Ports : IsQueue(queues'[d][x])
      BY <3>2 DEF QueueOK
    <3>4. TypeOK'
      BY <2>2, <2>4, <3>1, <3>3 DEF LInv, TypeOK
    <3> QED
      BY <2>2, <2>4, <3>2, <3>4 DEF LInv, PlayedIsInput, IsInput
  <2>5. CASE /\ reading' = [reading EXCEPT ![c] = {}]
             /\ stopped' = [stopped EXCEPT ![c] = TRUE]
             /\ UNCHANGED <<frame, pending, queues, played>>
    <3>1. TypeOK'
      BY <2>2, <2>5 DEF LInv, TypeOK
    <3> QED
      BY <2>2, <2>5, <3>1 DEF LInv, QueueOK, PlayedIsInput, IsInput
  <2> QED
    BY <1>3, <2>3, <2>4, <2>5 DEF ReadKeys
<1>4. ASSUME NEW c \in Clients, StreamBreaks(c) PROVE LInv'
  <2>1. /\ DOMAIN incoming' = Clients
        /\ \A d \in Clients : incoming'[d] \subseteq incoming[d]
    BY <1>4 DEF StreamBreaks, LInv, TypeOK
  <2>2. TypeOK'
    BY <1>4, <2>1 DEF StreamBreaks, LInv, TypeOK
  <2> QED
    BY <1>4, <2>1, <2>2 DEF StreamBreaks, LInv, QueueOK, PlayedIsInput, IsInput
<1>5. ASSUME NEW c \in Clients, ReadFails(c) PROVE LInv'
  <2>1. TypeOK'
    BY <1>5 DEF ReadFails, LInv, TypeOK
  <2> QED
    BY <1>5, <2>1 DEF ReadFails, LInv, QueueOK, PlayedIsInput, IsInput
<1>6. CASE UNCHANGED vars
  <2>1. TypeOK'
    BY <1>6 DEF vars, LInv, TypeOK
  <2> QED
    BY <1>6, <2>1 DEF vars, LInv, QueueOK, PlayedIsInput, IsInput
<1> QED
  BY <1>1, <1>2, <1>3, <1>4, <1>5, <1>6 DEF Next, Get, Read

(***************************************************************************)
(* LInv holds in every reachable state.                                    *)
(***************************************************************************)
THEOREM LockstepInductive == Spec => []LInv
  BY InitLemma, StepLemma, PTL DEF Spec

(***************************************************************************)
(* Type correctness.                                                       *)
(***************************************************************************)
THEOREM LockstepTypeCorrect == Spec => []TypeOK
<1>1. LInv => TypeOK
  BY DEF LInv
<1> QED
  BY <1>1, LockstepInductive, PTL

(***************************************************************************)
(* What any game is given is what the player of the port did, delayed      *)
(* (event-stream-handler.hpp:199-346).                                     *)
(***************************************************************************)
THEOREM PlaysInputs == Spec => []PlayedIsInput
<1>1. LInv => PlayedIsInput
  BY DEF LInv
<1> QED
  BY <1>1, LockstepInductive, PTL

(***************************************************************************)
(* Lock-step: no two games are ever given different input for a port and a *)
(* frame, however keys are ordered and grouped and whatever streams break. *)
(***************************************************************************)
THEOREM GamesAgree == Spec => []Agreement
<1>1. LInv => Agreement
  <2> SUFFICES ASSUME LInv, NEW c \in Clients, NEW d \in Clients, NEW p \in Ports,
                      NEW i \in 1..Len(played[c][p]), i <= Len(played[d][p])
               PROVE  played[c][p][i] = played[d][p][i]
    BY DEF Agreement
  <2>1. played[d][p] \in Seq(Buttons) /\ played[c][p] \in Seq(Buttons)
    BY DEF LInv, TypeOK
  <2>2. i \in 1..Len(played[d][p])
    BY <2>1
  <2> QED
    BY <2>2 DEF LInv, PlayedIsInput
<1> QED
  BY <1>1, LockstepInductive, PTL

-----------------------------------------------------------------------------
(***************************************************************************)
(* What a game was given, as the tape's record of what it handed out.      *)
(***************************************************************************)
LEMMA AppendFrame ==
  ASSUME NEW s \in Seq(Buttons), NEW b \in Buttons
  PROVE  /\ Len(AsFrames(s)) = Len(s)
         /\ AsFrames(Append(s, b)) =
              Append(AsFrames(s), [frame |-> Len(s), buttons |-> b])
<1> DEFINE n == Len(s)
           t == AsFrames(s)
           e == [frame |-> n, buttons |-> b]
<1>1. /\ n \in Nat
      /\ Append(s, b) \in Seq(Buttons)
      /\ Len(Append(s, b)) = n + 1
      /\ \A i \in 1..n : Append(s, b)[i] = s[i]
      /\ Append(s, b)[n + 1] = b
  OBVIOUS
<1>2. /\ t = [i \in 1..n |-> [frame |-> i - 1, buttons |-> s[i]]]
      /\ \A i \in 1..n : s[i] \in Buttons
  BY DEF AsFrames
<1> DEFINE Record == [frame : Int, buttons : Buttons]
           u == AsFrames(Append(s, b))
<1>3. e \in Record
  BY <1>1
<1>4. t \in Seq(Record) /\ Len(t) = n
  <2>1. t \in [1..n -> Record]
    BY <1>1, <1>2
  <2> HIDE DEF t, n, Record
  <2>2. t \in Seq(Record)
    BY <1>1, <2>1, SeqDef
  <2> QED
    BY <1>1, <2>1, <2>2, LenProperties
<1>5. /\ u = [i \in 1..(n + 1) |-> [frame |-> i - 1, buttons |-> Append(s, b)[i]]]
      /\ u \in [1..(n + 1) -> Record]
  <2>1. \A i \in 1..(n + 1) : Append(s, b)[i] \in Buttons
    BY <1>1
  <2> QED
    BY <1>1, <2>1 DEF AsFrames
<1>6. /\ Append(t, e) \in Seq(Record)
      /\ Len(Append(t, e)) = n + 1
      /\ \A i \in 1..n : Append(t, e)[i] = t[i]
      /\ Append(t, e)[n + 1] = e
  <2> HIDE DEF t, e, n, Record
  <2> QED
    BY <1>3, <1>4, AppendProperties
<1>7. u \in Seq(Record) /\ Len(u) = n + 1
  <2> DEFINE m == n + 1
  <2>1. m \in Nat /\ u \in [1..m -> Record]
    BY <1>1, <1>5
  <2> HIDE DEF u, m, Record
  <2>2. u \in Seq(Record)
    BY <2>1, SeqDef
  <2>3. Len(u) = m
    BY <2>1, <2>2, LenProperties
  <2> QED
    BY <2>2, <2>3 DEF m
<1>8. ASSUME NEW i \in 1..(n + 1) PROVE u[i] = Append(t, e)[i]
  <2>1. u[i] = [frame |-> i - 1, buttons |-> Append(s, b)[i]]
    BY <1>5
  <2>2. CASE i = n + 1
    BY <1>1, <1>6, <2>1, <2>2
  <2>3. CASE i # n + 1
    <3>1. i \in 1..n
      BY <1>1, <2>3
    <3>2. t[i] = [frame |-> i - 1, buttons |-> s[i]]
      BY <1>2, <3>1
    <3> QED
      BY <1>1, <1>6, <2>1, <3>1, <3>2
  <2> QED
    BY <2>2, <2>3
<1>9. u = Append(t, e)
  <2> HIDE DEF u, t, e, n, Record
  <2> QED
    BY <1>6, <1>7, <1>8, SeqEqual
<1> QED
  BY <1>4, <1>9

(***************************************************************************)
(* A put of a client writes a cell of each of its tapes.                   *)
(***************************************************************************)
LEMMA PutIsWrite ==
  ASSUME LInv, NEW c \in Clients, NEW buttons \in [LocalPorts(c) -> Buttons],
         PutButtons(c, buttons), NEW d \in Clients, NEW p \in Ports
  PROVE  \/ Tape(d, p)!Next
         \/ UNCHANGED <<inputs[p], AsFrames(played[d][p])>>
<1> DEFINE e == frame[c] + delay[p]
<1>1. played' = played
  BY DEF PutButtons
<1>2. CASE inputs'[p] = inputs[p]
  BY <1>1, <1>2 DEF AsFrames
<1>3. CASE inputs'[p] # inputs[p]
  <2>1. /\ p \in LocalPorts(c)
        /\ frame[c] <= MaxFrame
        /\ Accepts(queues[c][p], frame[c])
        /\ inputs'[p] = [g \in DOMAIN inputs[p] \union {e} |->
                           IF g = e THEN buttons[p] ELSE inputs[p][g]]
    BY <1>3 DEF PutButtons
  <2>2. owner[p] = c /\ frame[c] \in Nat /\ buttons[p] \in Buttons
    BY <2>1 DEF LocalPorts, LInv, TypeOK
  <2>3. e \in 0..(MaxFrame + delay[p]) /\ e \notin DOMAIN inputs[p]
    BY <2>1, <2>2, PutIsNew
  <2> HIDE DEF e
  <2>4. Tape(d, p)!Write(e, buttons[p])
    BY <1>1, <2>1, <2>3 DEF Tape!Write, AsFrames
  <2> QED
    BY <2>2, <2>3, <2>4 DEF Tape!Next
<1> QED
  BY <1>2, <1>3

(***************************************************************************)
(* A game that is given its input of a port reads the next cell of that    *)
(* port's tape, and of no other.                                           *)
(***************************************************************************)
LEMMA PlayIsRead ==
  ASSUME LInv, NEW c \in Clients, NEW p \in Ports, NEW qs, QueueOK(c, p, qs[p]),
         Ready(qs[p], frame[c]), Play(c, p, qs), UNCHANGED inputs,
         NEW d \in Clients, NEW x \in Ports
  PROVE  \/ Tape(d, x)!Next
         \/ UNCHANGED <<inputs[x], AsFrames(played[d][x])>>
<1> DEFINE f == frame[c]
           b == Answer(qs[p], f)
           s == played[c][p]
<1>1. /\ f \in Nat
      /\ played \in [Clients -> [Ports -> Seq(Buttons)]]
  BY DEF LInv, TypeOK
<1>2. IsInput(p, f, b) /\ b \in Buttons /\ f = Len(s)
  BY <1>1, AnswerLemma
<1>3. played' = [played EXCEPT ![c][p] = Append(@, b)]
  BY DEF Play
<1> HIDE DEF b
<1>4. CASE d = c /\ x = p
  <2>1. played'[d][x] = Append(s, b)
    BY <1>1, <1>3, <1>4
  <2>2. /\ Len(AsFrames(s)) = f
        /\ AsFrames(Append(s, b)) = Append(AsFrames(s), [frame |-> f, buttons |-> b])
    BY <1>1, <1>2, AppendFrame
  <2>3. f \in DOMAIN inputs[p] /\ inputs[p][f] = b
    BY <1>2 DEF IsInput
  <2>4. AsFrames(played[d][x])' = AsFrames(Append(s, b))
    BY <2>1 DEF AsFrames
  <2>5. Tape(d, x)!Read
    BY <1>4, <2>2, <2>3, <2>4 DEF Tape!Read
  <2> QED
    BY <2>5 DEF Tape!Next
<1>5. CASE ~(d = c /\ x = p)
  <2>1. played'[d][x] = played[d][x]
    BY <1>1, <1>3, <1>5
  <2> QED
    BY <2>1 DEF AsFrames
<1> QED
  BY <1>4, <1>5

(***************************************************************************)
(* All clients' views of a port implement one tape: the player writes it,  *)
(* every game reads it in order, and nothing that happens to a stream      *)
(* changes what is on it.                                                  *)
(***************************************************************************)
THEOREM GamesShareTapes == Spec => SharedTapes
<1>1. Init => \A c \in Clients, p \in Ports : Tape(c, p)!Init
  <2> SUFFICES ASSUME Init, NEW c \in Clients, NEW p \in Ports
               PROVE  Tape(c, p)!Init
    OBVIOUS
  <2>1. /\ inputs[p] = [f \in 0..(delay[p] - 1) |-> Default]
        /\ AsFrames(played[c][p]) = <<>>
    BY DEF Init, AsFrames
  <2> QED
    BY <2>1 DEF Tape!Init
<1>2. LInv /\ [Next]_vars =>
        [ \A c \in Clients, p \in Ports :
             [Tape(c, p)!Next]_(Tape(c, p)!vars) ]_vars
  <2> SUFFICES ASSUME LInv, [Next]_vars, NEW c \in Clients, NEW p \in Ports
               PROVE  \/ Tape(c, p)!Next
                      \/ UNCHANGED <<inputs[p], AsFrames(played[c][p])>>
    BY DEF Tape!vars
  <2>1. ASSUME UNCHANGED <<inputs, played>>
        PROVE  UNCHANGED <<inputs[p], AsFrames(played[c][p])>>
    BY <2>1 DEF AsFrames
  <2>2. CASE UNCHANGED vars
    BY <2>1, <2>2 DEF vars
  <2>3. ASSUME NEW d \in Clients, Put(d)
        PROVE  Tape(c, p)!Next \/ UNCHANGED <<inputs[p], AsFrames(played[c][p])>>
    BY <2>3, PutIsWrite DEF Put
  <2>4. ASSUME NEW d \in Clients, NEW x \in Ports, GetButtons(d, x)
        PROVE  Tape(c, p)!Next \/ UNCHANGED <<inputs[p], AsFrames(played[c][p])>>
    <3>1. QueueOK(d, x, queues[d][x])
      BY DEF LInv
    <3>2. CASE Ready(queues[d][x], frame[d])
      BY <2>4, <3>1, <3>2, PlayIsRead DEF GetButtons
    <3>3. CASE ~Ready(queues[d][x], frame[d])
      BY <2>1, <2>4, <3>3 DEF GetButtons
    <3> QED
      BY <3>2, <3>3
  <2>5. ASSUME NEW d \in Clients, NEW x \in Ports, NEW keys \in SUBSET incoming[d],
               ReadKeys(d, x, keys)
        PROVE  Tape(c, p)!Next \/ UNCHANGED <<inputs[p], AsFrames(played[c][p])>>
    <3> DEFINE qs == Inserted(d, keys)
    <3>1. QueueOK(d, x, qs[x])
      BY InsertedLemma
    <3> HIDE DEF qs
    <3>2. CASE Ready(qs[x], frame[d]) /\ Play(d, x, qs) /\ UNCHANGED inputs
      BY <3>1, <3>2, PlayIsRead
    <3>3. CASE UNCHANGED <<inputs, played>>
      BY <2>1, <3>3
    <3> QED
      BY <2>5, <3>2, <3>3 DEF ReadKeys, qs
  <2>6. ASSUME NEW d \in Clients, StreamBreaks(d) \/ ReadFails(d)
        PROVE  UNCHANGED <<inputs[p], AsFrames(played[c][p])>>
    BY <2>1, <2>6 DEF StreamBreaks, ReadFails
  <2> QED
    BY <2>2, <2>3, <2>4, <2>5, <2>6 DEF Next, Get, Read
<1> QED
  BY <1>1, <1>2, LockstepInductive, PTL DEF Spec, SharedTapes
=============================================================================
