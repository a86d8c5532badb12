------------------------ MODULE LockstepPhaseProofs ------------------------
(***************************************************************************)
(* PhaseInv of Lockstep is inductive, and what follows from it: a game     *)
(* ends only for its own broken stream, games stay within a bounded skew,  *)
(* and queues within a bounded size.                                       *)
(***************************************************************************)
EXTENDS LockstepProofs, FiniteSetTheorems

USE DefaultAssumption, OwnerAssumption, DelayAssumption, MaxFrameAssumption

-----------------------------------------------------------------------------
\* A key for frame f of port p is among these.
Brings(keys, p, f) == \E k \in keys : k.port = p /\ k.frame = f

(***************************************************************************)
(* Keys read off the stream are added to the queue of their port, and the  *)
(* frame it expects stays what it was (event-stream-handler.hpp:389-416).  *)
(***************************************************************************)
LEMMA InsertedShape ==
  ASSUME LInv, NEW c \in Clients, NEW p \in Ports, NEW keys
  PROVE  LET q == queues[c][p]
             r == Inserted(c, keys)[p]
         IN  /\ r.latest_frame_requested = q.latest_frame_requested
             /\ r.initial_frame_delay = q.initial_frame_delay
             /\ \A f : f \in Buffered(r) <=>
                        f \in Buffered(q) \/ Brings(keys, p, f)
<1> DEFINE q == queues[c][p]
           own == { k \in keys : k.port = p }
           buttons_of == [f \in { k.frame : k \in own } |->
                            (CHOOSE k \in own : k.frame = f).buttons]
           r == Inserted(c, keys)[p]
<1>1. IsQueue(q)
  BY DEF LInv, QueueOK
<1>2. /\ r = [q EXCEPT !.frame_buttons =
                [f \in Buffered(q) \union DOMAIN buttons_of |->
                   IF f \in DOMAIN buttons_of THEN buttons_of[f]
                   ELSE q.frame_buttons[f]]]
  BY DEF Inserted, InsertAll
<1>3. DOMAIN buttons_of = { k.frame : k \in own }
  OBVIOUS
<1> HIDE DEF q, own, buttons_of
<1>4. /\ r.latest_frame_requested = q.latest_frame_requested
      /\ r.initial_frame_delay = q.initial_frame_delay
      /\ r.frame_buttons = [f \in Buffered(q) \union DOMAIN buttons_of |->
                              IF f \in DOMAIN buttons_of THEN buttons_of[f]
                              ELSE q.frame_buttons[f]]
  BY <1>1, <1>2 DEF IsQueue
<1> HIDE DEF r
<1>5. Buffered(r) = Buffered(q) \union DOMAIN buttons_of
  BY <1>4 DEF Buffered
<1>6. \A f : f \in DOMAIN buttons_of <=> Brings(keys, p, f)
  BY <1>3 DEF own, Brings
<1> QED
  BY <1>4, <1>5, <1>6 DEF q, r

(***************************************************************************)
(* Two keys on their way to a client, of one port and frame, are the same. *)
(***************************************************************************)
LEMMA KeysAreUnique ==
  ASSUME LInv, NEW c \in Clients, NEW k \in incoming[c], NEW l \in incoming[c],
         k.port = l.port, k.frame = l.frame
  PROVE  k = l
<1>1. k \in Key /\ l \in Key
  BY DEF LInv, TypeOK
<1>2. k.buttons = l.buttons
  BY DEF LInv, IsInput
<1> QED
  BY <1>1, <1>2 DEF Key

(***************************************************************************)
(* No queue refuses a key of a correct server, however the keys are        *)
(* ordered and grouped (event-stream-handler.hpp:404-409).                 *)
(***************************************************************************)
LEMMA KeysAreAccepted ==
  ASSUME PhaseInv, NEW c \in Clients, NEW keys \in SUBSET incoming[c]
  PROVE  AllAccepted(c, keys)
<1> SUFFICES ASSUME NEW k \in keys
             PROVE  /\ Accepts(queues[c][k.port], k.frame)
                    /\ \A l \in keys : l.port = k.port /\ l.frame = k.frame => l = k
  BY DEF AllAccepted
<1> DEFINE q == queues[c][k.port]
<1>1. k \in Key /\ KeyIsNew(c, k)
  BY DEF PhaseInv, LInv, TypeOK
<1>2. QueueOK(c, k.port, q)
  BY <1>1 DEF PhaseInv, LInv, Key
<1>3. k.frame \in Nat /\ q.delay_frames = 0 /\ q.initial_frame_delay \in Nat
  BY <1>1, <1>2 DEF Key, KeyIsNew, QueueOK
<1>4. Accepts(q, k.frame)
  BY <1>1, <1>2, <1>3
     DEF Accepts, DelayedFrame, KeyIsNew, StillToPlay, InInitialDelay, HasButtons,
         QueueOK, IsQueue
<1> QED
  BY <1>4, KeysAreUnique DEF PhaseInv

(***************************************************************************)
(* What a queue expects next is the frame of the game, for the ports whose *)
(* input the game still has to get; and the local input is there.          *)
(***************************************************************************)
LEMMA PendingIsExpected ==
  ASSUME PhaseInv, NEW c \in Clients, NEW p \in pending[c]
  PROVE  /\ p \in Ports
         /\ frame[c] \in Nat
         /\ frame[c] = ExpectedFrame(queues[c][p])
         /\ owner[p] = c => Ready(queues[c][p], frame[c])
<1> DEFINE q == queues[c][p]
           f == frame[c]
<1>1. p \in Ports /\ f \in Nat
  BY DEF PhaseInv, LInv, TypeOK
<1>2. q.latest_frame_requested = f - 1
  BY <1>1 DEF PhaseInv, Requested
<1>3. f = ExpectedFrame(q)
  BY <1>1, <1>2 DEF ExpectedFrame
<1>4. ASSUME owner[p] = c PROVE Ready(q, f)
  <2>1. DOMAIN inputs[p] = 0..(f + delay[p])
    BY <1>1, <1>4 DEF PhaseInv, LastInput
  <2>2. f \in DOMAIN inputs[p]
    BY <1>1, <2>1
  <2>3. InInitialDelay(q, f) \/ f <= q.latest_frame_requested \/ HasButtons(q, f)
    BY <1>1, <1>4, <2>2 DEF PhaseInv, LInv, QueueOK
  <2> QED
    BY <1>1, <1>2, <1>3, <2>3 DEF Ready
<1> QED
  BY <1>1, <1>3, <1>4

(***************************************************************************)
(* The next phase of a frame, or the next frame: a game is given its input *)
(* of a port it had still to get.                                          *)
(***************************************************************************)
LEMMA PlayPhase ==
  ASSUME PhaseInv, LInv', NEW c \in Clients, NEW p \in pending[c], NEW qs,
         DOMAIN qs = Ports,
         \A x \in Ports :
            /\ QueueOK(c, x, qs[x])
            /\ qs[x].latest_frame_requested = Requested(c, x)
            /\ \A f \in Buffered(qs[x]) : StillToPlay(qs[x], f),
         Ready(qs[p], frame[c]), Play(c, p, qs), UNCHANGED <<inputs, up, stopped>>,
         \A d \in Clients : reading'[d] = IF d = c THEN {} ELSE reading[d],
         \A d \in Clients \ {c} : incoming'[d] = incoming[d],
         \A k \in incoming'[c] : /\ k.port \in Ports
                                 /\ owner[k.port] # c
                                 /\ StillToPlay(qs[k.port], k.frame)
                                 /\ ~HasButtons(qs[k.port], k.frame)
  PROVE  PhaseInv'
<1> DEFINE f == frame[c]
           r == Advance(qs[p], f)
<1>1. /\ f \in Nat
      /\ p \in Ports
      /\ frame \in [Clients -> Nat]
      /\ pending \in [Clients -> SUBSET Ports]
      /\ DOMAIN queues = Clients
      /\ \A d \in Clients : DOMAIN queues[d] = Ports
  BY DEF PhaseInv, LInv, TypeOK
<1>2. /\ r.initial_frame_delay = qs[p].initial_frame_delay
      /\ r.latest_frame_requested = f
      /\ Buffered(r) \subseteq Buffered(qs[p])
  BY <1>1, AnswerLemma DEF PhaseInv
<1>3. f \notin Buffered(r)
  <2>1. CASE InInitialDelay(qs[p], f)
    BY <1>1, <1>2, <2>1 DEF StillToPlay
  <2>2. CASE ~InInitialDelay(qs[p], f)
    <3>1. IsQueue(qs[p]) /\ HasButtons(qs[p], f) /\ r = Take(qs[p], f)
      BY <1>1, <2>2 DEF Ready, Advance, QueueOK
    <3>2. LET t == Take(qs[p], f) IN Buffered(t) = Buffered(qs[p]) \ {f}
      BY <3>1, TakeLemma
    <3> QED
      BY <3>1, <3>2
  <2> QED
    BY <2>1, <2>2
<1>4. /\ qs[p].latest_frame_requested = f - 1
      /\ QueueOK(c, p, qs[p])
  BY <1>1 DEF Requested
<1>5. /\ pending' = [pending EXCEPT ![c] = @ \ {p}]
      /\ frame' = IF pending[c] = {p} THEN [frame EXCEPT ![c] = f + 1] ELSE frame
      /\ queues' = [queues EXCEPT ![c] = [qs EXCEPT ![p] = r]]
  BY DEF Play
<1> HIDE DEF r
<1>6. \A g \in Nat : StillToPlay(qs[p], g) /\ g # f => StillToPlay(r, g)
  <2> SUFFICES ASSUME NEW g \in Nat, StillToPlay(qs[p], g), g # f
               PROVE  StillToPlay(r, g)
    OBVIOUS
  <2>1. g > f - 1 /\ ~(g < qs[p].initial_frame_delay)
    BY <1>4 DEF StillToPlay, InInitialDelay
  <2>2. g > f
    <3>1. \A m, n \in Nat : m > n - 1 /\ m # n => m > n
      OBVIOUS
    <3> QED
      BY <1>1, <2>1, <3>1
  <2>3. ~(g < r.initial_frame_delay)
    BY <1>2, <2>1
  <2> QED
    BY <1>2, <2>2, <2>3 DEF StillToPlay, InInitialDelay
<1>7. \A g \in Buffered(r) : StillToPlay(r, g)
  <2>1. Buffered(qs[p]) \subseteq Nat
    BY <1>4 DEF QueueOK, IsQueue
  <2> QED
    BY <1>1, <1>2, <1>3, <1>6, <2>1
<1>8. \A d \in Clients, x \in Ports :
         queues'[d][x] = IF d # c THEN queues[d][x]
                         ELSE IF x = p THEN r ELSE qs[x]
  BY <1>1, <1>5
<1>9. /\ \A d \in Clients \ {c} : pending'[d] = pending[d] /\ frame'[d] = frame[d]
      /\ pending'[c] = pending[c] \ {p}
      /\ frame'[c] = IF pending'[c] = {} THEN f + 1 ELSE f
  BY <1>1, <1>5
<1>10. \A d \in Clients : reading'[d] \subseteq pending'[d]
  BY <1>9 DEF PhaseInv
<1>11. ASSUME NEW d \in Clients, NEW x \in Ports
       PROVE  /\ queues'[d][x].latest_frame_requested = Requested(d, x)'
              /\ \A g \in Buffered(queues'[d][x]) : StillToPlay(queues'[d][x], g)
  <2>1. CASE d # c
    <3>1. queues'[d][x] = queues[d][x]
      BY <1>8, <2>1
    <3>2. Requested(d, x)' = Requested(d, x)
      BY <1>9, <2>1 DEF Requested
    <3>3. /\ queues[d][x].latest_frame_requested = Requested(d, x)
          /\ \A g \in Buffered(queues[d][x]) : StillToPlay(queues[d][x], g)
      BY DEF PhaseInv
    <3> QED
      BY <3>1, <3>2, <3>3
  <2>2. CASE d = c /\ x # p
    <3>1. queues'[d][x] = qs[x] /\ qs[x].latest_frame_requested = Requested(c, x)
      BY <1>8, <2>2
    <3>2. Requested(d, x)' = Requested(c, x)
      BY <1>1, <1>9, <2>2 DEF Requested
    <3> QED
      BY <2>2, <3>1, <3>2
  <2>3. CASE d = c /\ x = p
    <3>1. queues'[d][x] = r
      BY <1>8, <2>3
    <3>2. Requested(d, x)' = f
      BY <1>1, <1>9, <2>3 DEF Requested
    <3> QED
      BY <1>2, <1>7, <3>1, <3>2
  <2> QED
    BY <2>1, <2>2, <2>3
<1>12. ASSUME NEW x \in Ports PROVE DOMAIN inputs'[x] = 0..LastInput(x)'
  <2>1. LastInput(x)' = LastInput(x)
    <3>1. CASE owner[x] # c
      BY <1>9, <3>1 DEF LastInput
    <3>2. CASE owner[x] = c
      BY <1>1, <1>9, <3>2 DEF LastInput
    <3> QED
      BY <3>1, <3>2
  <2> QED
    BY <2>1 DEF PhaseInv
<1>13. ASSUME NEW d \in Clients, NEW k \in incoming'[d]
       PROVE  KeyIsNew(d, k)'
  <2>1. k \in Key
    BY DEF LInv, TypeOK, Key
  <2>2. CASE d # c
    <3>1. KeyIsNew(d, k) /\ queues'[d][k.port] = queues[d][k.port]
      BY <1>8, <2>1, <2>2 DEF PhaseInv, Key
    <3> QED
      BY <3>1 DEF KeyIsNew
  <2>3. CASE d = c /\ k.port # p
    <3>1. queues'[d][k.port] = qs[k.port]
      BY <1>8, <2>3
    <3> QED
      BY <2>3, <3>1 DEF KeyIsNew
  <2>4. CASE d = c /\ k.port = p
    <3>1. queues'[d][k.port] = r
      BY <1>1, <1>8, <2>4
    <3>2. k.frame # f
      BY <1>4, <2>4 DEF StillToPlay, Ready
    <3>3. StillToPlay(r, k.frame) /\ ~HasButtons(r, k.frame)
      BY <1>2, <1>6, <2>1, <2>4, <3>2 DEF HasButtons, Key
    <3> QED
      BY <2>4, <3>1, <3>3 DEF KeyIsNew
  <2> QED
    BY <2>2, <2>3, <2>4
<1>14. StopsOnlyWhenBroken'
  BY DEF PhaseInv, StopsOnlyWhenBroken
<1> QED
  BY <1>10, <1>11, <1>12, <1>13, <1>14 DEF PhaseInv, StillToPlay, InInitialDelay

(***************************************************************************)
(* No queue refuses the input of the frame its game is at, before the game *)
(* has put it (event-stream-handler.hpp:197-268).                          *)
(***************************************************************************)
LEMMA PutsAreAccepted ==
  ASSUME PhaseInv, NEW c \in Clients, pending[c] = {}, NEW p \in LocalPorts(c)
  PROVE  Accepts(queues[c][p], frame[c])
<1> DEFINE f == frame[c]
           q == queues[c][p]
           e == f + delay[p]
<1>1. p \in Ports /\ owner[p] = c /\ f \in Nat
  BY DEF LocalPorts, PhaseInv, LInv, TypeOK
<1>2. /\ IsQueue(q)
      /\ q.delay_frames = delay[p]
      /\ q.initial_frame_delay = delay[p]
      /\ q.latest_frame_requested = f - 1
      /\ DOMAIN inputs[p] = 0..(f + delay[p] - 1)
  BY <1>1 DEF PhaseInv, LInv, QueueOK, Requested, LastInput
<1>3. DelayedFrame(q, f) = e /\ e \in Nat
  BY <1>1, <1>2 DEF DelayedFrame
<1>4. e >= q.initial_frame_delay /\ e > q.latest_frame_requested
  BY <1>1, <1>2, <1>3
<1>5. e \notin DOMAIN inputs[p]
  BY <1>1, <1>2, <1>3
<1>6. e \notin Buffered(q)
  BY <1>1, <1>5 DEF PhaseInv, LInv, QueueOK, IsInput
<1> QED
  BY <1>1, <1>3, <1>4, <1>6 DEF Accepts

(***************************************************************************)
(* A put starts the frame: the queue takes it, and the others have not had *)
(* that key.                                                               *)
(***************************************************************************)
LEMMA PutPhase ==
  ASSUME PhaseInv, LInv', NEW c \in Clients,
         NEW buttons \in [LocalPorts(c) -> Buttons], PutButtons(c, buttons)
  PROVE  PhaseInv'
<1> DEFINE f == frame[c]
<1>1. /\ f \in Nat
      /\ frame \in [Clients -> Nat]
      /\ pending \in [Clients -> SUBSET Ports]
      /\ pending[c] = {}
      /\ reading[c] = {}
      /\ DOMAIN incoming = Clients
      /\ DOMAIN queues = Clients
      /\ \A d \in Clients : DOMAIN queues[d] = Ports
  BY DEF PhaseInv, LInv, TypeOK, PutButtons, Free
<1>2. \A p \in LocalPorts(c) :
         /\ p \in Ports /\ owner[p] = c
         /\ IsQueue(queues[c][p])
         /\ queues[c][p].delay_frames = delay[p]
         /\ queues[c][p].initial_frame_delay = delay[p]
         /\ queues[c][p].latest_frame_requested = f - 1
         /\ DOMAIN inputs[p] = 0..(f + delay[p] - 1)
  BY <1>1 DEF LocalPorts, PhaseInv, LInv, QueueOK, Requested, LastInput
<1>3. \A p \in LocalPorts(c) : Accepts(queues[c][p], f)
  BY <1>1, PutsAreAccepted
<1>4. /\ queues' = [queues EXCEPT ![c] =
           [p \in Ports |->
              IF p \in LocalPorts(c)
              THEN Insert(queues[c][p], f, buttons[p]) ELSE queues[c][p]]]
      /\ inputs' =
           [p \in Ports |->
              IF p \in LocalPorts(c)
              THEN [g \in DOMAIN inputs[p] \union {f + delay[p]} |->
                      IF g = f + delay[p] THEN buttons[p] ELSE inputs[p][g]]
              ELSE inputs[p]]
      /\ incoming' =
           [d \in Clients |->
              IF d # c /\ up[c] /\ up[d]
              THEN incoming[d] \union OutgoingKeys(c, buttons)
              ELSE incoming[d]]
      /\ pending' = [pending EXCEPT ![c] = Ports]
      /\ UNCHANGED <<stopped, frame, reading, up>>
  BY <1>3 DEF PutButtons, Awaited
<1>5. \A d \in Clients, p \in Ports :
         queues'[d][p] = IF d = c /\ p \in LocalPorts(c)
                         THEN Insert(queues[c][p], f, buttons[p])
                         ELSE queues[d][p]
  BY <1>1, <1>4
<1>6. \A d \in Clients : reading'[d] \subseteq pending'[d]
  BY <1>1, <1>4 DEF PhaseInv
<1>7. \A d \in Clients, p \in Ports : Requested(d, p)' = Requested(d, p)
  BY <1>1, <1>4 DEF Requested
<1>8. ASSUME NEW d \in Clients, NEW p \in Ports
      PROVE  /\ queues'[d][p].latest_frame_requested = Requested(d, p)'
             /\ \A g \in Buffered(queues'[d][p]) : StillToPlay(queues'[d][p], g)
  <2> DEFINE q == queues[d][p]
  <2>1. /\ q.latest_frame_requested = Requested(d, p)
        /\ \A g \in Buffered(q) : StillToPlay(q, g)
    BY DEF PhaseInv
  <2>2. CASE ~(d = c /\ p \in LocalPorts(c))
    BY <1>5, <1>7, <2>1, <2>2
  <2>3. CASE d = c /\ p \in LocalPorts(c)
    <3> DEFINE r == Insert(q, f, buttons[p])
               e == DelayedFrame(q, f)
    <3>0. IsQueue(q) /\ Accepts(q, f) /\ buttons[p] \in Buttons /\ f \in Int
      BY <1>1, <1>2, <1>3, <2>3
    <3>1. /\ Buffered(r) = Buffered(q) \union {e}
          /\ e > q.latest_frame_requested
          /\ ~InInitialDelay(q, e)
          /\ r.initial_frame_delay = q.initial_frame_delay
          /\ r.latest_frame_requested = q.latest_frame_requested
      <4> HIDE DEF q
      <4> QED
        BY <3>0, InsertLemma
    <3>2. queues'[d][p] = r
      BY <1>5, <2>3
    <3> HIDE DEF r, e
    <3>3. \A g \in Buffered(r) : StillToPlay(r, g)
      BY <2>1, <3>1 DEF StillToPlay, InInitialDelay
    <3> QED
      BY <1>7, <2>1, <3>1, <3>2, <3>3
  <2> QED
    BY <2>2, <2>3
<1>9. ASSUME NEW p \in Ports PROVE DOMAIN inputs'[p] = 0..LastInput(p)'
  <2>1. CASE p \in LocalPorts(c)
    <3>1. DOMAIN inputs'[p] = 0..(f + delay[p] - 1) \union {f + delay[p]}
      BY <1>2, <1>4, <2>1
    <3>2. LastInput(p)' = f + delay[p]
      BY <1>1, <1>2, <1>4, <2>1 DEF LastInput
    <3> QED
      BY <1>1, <3>1, <3>2
  <2>2. CASE p \notin LocalPorts(c)
    <3>1. inputs'[p] = inputs[p] /\ owner[p] # c
      BY <1>4, <2>2 DEF LocalPorts
    <3>2. LastInput(p)' = LastInput(p)
      BY <1>1, <1>4, <3>1 DEF LastInput
    <3> QED
      BY <3>1, <3>2 DEF PhaseInv
  <2> QED
    BY <2>1, <2>2
<1>10. ASSUME NEW d \in Clients, NEW k \in incoming'[d] PROVE KeyIsNew(d, k)'
  <2>1. CASE k \in incoming[d]
    <3>1. k \in Key /\ KeyIsNew(d, k)
      BY <2>1 DEF PhaseInv, LInv, TypeOK
    <3>2. queues'[d][k.port] = queues[d][k.port]
      BY <1>5, <3>1 DEF Key, KeyIsNew, LocalPorts
    <3> QED
      BY <3>1, <3>2 DEF KeyIsNew
  <2>2. CASE k \notin incoming[d]
    <3>1. d # c
      BY <1>4, <2>2
    <3>2. PICK p \in LocalPorts(c) :
             k = [port |-> p, frame |-> f + delay[p], buttons |-> buttons[p]]
      BY <1>4, <2>2 DEF OutgoingKeys
    <3> DEFINE q == queues[d][p]
               e == f + delay[p]
    <3>3. p \in Ports /\ owner[p] = c /\ e \in Nat /\ e \notin DOMAIN inputs[p]
      BY <1>1, <1>2
    <3>4. /\ QueueOK(d, p, q)
          /\ q.latest_frame_requested \in Int
      BY <3>3 DEF PhaseInv, LInv, QueueOK, IsQueue
    <3>5. ~HasButtons(q, e) /\ ~InInitialDelay(q, e)
      BY <1>1, <3>3, <3>4 DEF QueueOK, IsInput, HasButtons, InInitialDelay
    <3>6. e > q.latest_frame_requested
      <4> SUFFICES ASSUME e <= q.latest_frame_requested PROVE FALSE
        BY <3>3, <3>4
      <4> DEFINE i == e + 1
      <4>1. Len(played[d][p]) = q.latest_frame_requested + 1
        BY <3>4 DEF QueueOK, ExpectedFrame
      <4>2. i \in 1..Len(played[d][p]) /\ i - 1 = e
        BY <3>3, <3>4, <4>1
      <4> HIDE DEF i
      <4>3. i - 1 \in DOMAIN inputs[p]
        BY <3>3, <4>2 DEF PhaseInv, LInv, PlayedIsInput
      <4> QED
        BY <3>3, <4>2, <4>3
    <3>7. queues'[d][p] = q
      BY <1>5, <3>1, <3>3
    <3> QED
      BY <3>1, <3>2, <3>3, <3>5, <3>6, <3>7 DEF KeyIsNew, StillToPlay
  <2> QED
    BY <2>1, <2>2
<1>11. StopsOnlyWhenBroken'
  BY <1>4 DEF PhaseInv, StopsOnlyWhenBroken
<1> QED
  BY <1>6, <1>8, <1>9, <1>10, <1>11 DEF PhaseInv, StillToPlay, InInitialDelay

-----------------------------------------------------------------------------
(***************************************************************************)
(* Before the first frame nothing was put, sent or played.                 *)
(***************************************************************************)
LEMMA PhaseInit == Init => PhaseInv
<1> SUFFICES ASSUME Init PROVE PhaseInv
  OBVIOUS
<1>1. LInv
  BY InitLemma
<1>2. ASSUME NEW c \in Clients, NEW p \in Ports
      PROVE  /\ queues[c][p].latest_frame_requested = Requested(c, p)
             /\ \A f \in Buffered(queues[c][p]) : StillToPlay(queues[c][p], f)
  BY DEF Init, NewHandler, MakeLocalQueue, MakeRemoteQueue, NewQueue, Buffered, Requested
<1>3. \A p \in Ports : DOMAIN inputs[p] = 0..LastInput(p)
  BY DEF Init, LastInput
<1> QED
  BY <1>1, <1>2, <1>3 DEF Init, PhaseInv, StopsOnlyWhenBroken

(***************************************************************************)
(* No step of any client, and no stream that breaks, violates PhaseInv.    *)
(***************************************************************************)
LEMMA PhaseStep == PhaseInv /\ [Next]_vars => PhaseInv'
<1> SUFFICES ASSUME PhaseInv, [Next]_vars PROVE PhaseInv'
  OBVIOUS
<1>0. LInv'
  BY StepLemma DEF PhaseInv
<1>a. /\ reading \in [Clients -> SUBSET Ports]
      /\ stopped \in [Clients -> BOOLEAN]
      /\ up \in [Clients -> BOOLEAN]
      /\ DOMAIN incoming = Clients
      /\ DOMAIN queues = Clients
      /\ \A d \in Clients : DOMAIN queues[d] = Ports /\ incoming[d] \subseteq Key
  BY DEF PhaseInv, LInv, TypeOK
<1>1. ASSUME NEW c \in Clients, Put(c) PROVE PhaseInv'
  BY <1>0, <1>1, PutPhase DEF Put
<1>2. ASSUME NEW c \in Clients, NEW p \in Ports, GetButtons(c, p) PROVE PhaseInv'
  <2>1. p \in pending[c] /\ reading[c] = {}
    BY <1>2 DEF GetButtons, Free
  <2>2. CASE Ready(queues[c][p], frame[c]) /\ Play(c, p, queues[c]) /\
             UNCHANGED <<reading, stopped, up, incoming, inputs>>
    <3> DEFINE qs == queues[c]
    <3>1. /\ DOMAIN qs = Ports
          /\ \A x \in Ports : /\ QueueOK(c, x, qs[x])
                              /\ qs[x].latest_frame_requested = Requested(c, x)
                              /\ \A f \in Buffered(qs[x]) : StillToPlay(qs[x], f)
      BY <1>a DEF PhaseInv, LInv
    <3>2. \A d \in Clients : reading'[d] = IF d = c THEN {} ELSE reading[d]
      BY <2>1, <2>2
    <3>3. \A k \in incoming'[c] : /\ k.port \in Ports
                                  /\ owner[k.port] # c
                                  /\ StillToPlay(qs[k.port], k.frame)
                                  /\ ~HasButtons(qs[k.port], k.frame)
      BY <1>a, <2>2 DEF PhaseInv, KeyIsNew, Key
    <3> HIDE DEF qs
    <3> QED
      BY <1>0, <2>1, <2>2, <3>1, <3>2, <3>3, PlayPhase DEF qs
  <2>3. CASE /\ reading' = [reading EXCEPT ![c] = {p}]
             /\ UNCHANGED <<frame, pending, queues, stopped, up, incoming, inputs>>
    <3>1. \A d \in Clients : reading'[d] \subseteq pending'[d]
      BY <1>a, <2>1, <2>3 DEF PhaseInv
    <3> QED
      BY <1>0, <2>3, <3>1
         DEF PhaseInv, Requested, LastInput, KeyIsNew, StopsOnlyWhenBroken
  <2>4. CASE /\ ~Ready(queues[c][p], frame[c])
             /\ owner[p] = c \/ frame[c] # ExpectedFrame(queues[c][p])
    BY <2>1, <2>4, PendingIsExpected
  <2> QED
    BY <1>2, <2>2, <2>3, <2>4 DEF GetButtons
<1>3. ASSUME NEW c \in Clients, NEW p \in Ports, NEW keys \in SUBSET incoming[c],
             ReadKeys(c, p, keys)
      PROVE  PhaseInv'
  <2> DEFINE qs == Inserted(c, keys)
  <2>1. AllAccepted(c, keys)
    BY KeysAreAccepted
  <2>2. p \in pending[c]
    BY <1>3 DEF ReadKeys, PhaseInv
  <2>3. ASSUME NEW x \in Ports
        PROVE  /\ QueueOK(c, x, qs[x])
               /\ qs[x].latest_frame_requested = Requested(c, x)
               /\ qs[x].initial_frame_delay = queues[c][x].initial_frame_delay
               /\ \A f : f \in Buffered(qs[x]) <=>
                          f \in Buffered(queues[c][x]) \/ Brings(keys, x, f)
               /\ \A f \in Buffered(qs[x]) : StillToPlay(qs[x], f)
    <3>1. QueueOK(c, x, qs[x])
      BY InsertedLemma DEF PhaseInv
    <3>2. /\ qs[x].latest_frame_requested = queues[c][x].latest_frame_requested
          /\ qs[x].initial_frame_delay = queues[c][x].initial_frame_delay
          /\ \A f : f \in Buffered(qs[x]) <=>
                     f \in Buffered(queues[c][x]) \/ Brings(keys, x, f)
      <4>1. LInv
        BY DEF PhaseInv
      <4> QED
        BY <4>1, InsertedShape
    <3> HIDE DEF qs
    <3>3. ASSUME NEW f \in Buffered(qs[x]) PROVE StillToPlay(qs[x], f)
      <4>1. StillToPlay(queues[c][x], f)
        <5>1. CASE f \in Buffered(queues[c][x])
          BY <5>1 DEF PhaseInv
        <5>2. CASE Brings(keys, x, f)
          BY <5>2 DEF Brings, PhaseInv, KeyIsNew
        <5> QED
          BY <3>2, <5>1, <5>2
      <4> QED
        BY <3>2, <4>1 DEF StillToPlay, InInitialDelay
    <3>4. qs[x].latest_frame_requested = Requested(c, x)
      BY <3>2 DEF PhaseInv
    <3> QED
      BY <3>1, <3>2, <3>3, <3>4
  <2>4. DOMAIN qs = Ports
    BY DEF Inserted
  <2> HIDE DEF qs
  <2>5. incoming' = [incoming EXCEPT ![c] = @ \ keys] /\ UNCHANGED <<up, inputs>>
    BY <1>3 DEF ReadKeys
  <2>6. ASSUME NEW k \in incoming'[c]
        PROVE  /\ k.port \in Ports
               /\ owner[k.port] # c
               /\ StillToPlay(qs[k.port], k.frame)
               /\ ~HasButtons(qs[k.port], k.frame)
    <3>1. k \in incoming[c] /\ k \notin keys /\ k.port \in Ports /\ KeyIsNew(c, k)
      BY <1>a, <2>5 DEF PhaseInv, Key
    <3>2. StillToPlay(qs[k.port], k.frame)
      BY <2>3, <3>1 DEF PhaseInv, KeyIsNew, StillToPlay, InInitialDelay
    <3>3. ~Brings(keys, k.port, k.frame)
      BY <3>1, KeysAreUnique DEF PhaseInv, Brings
    <3>4. ~HasButtons(qs[k.port], k.frame)
      <4>1. k.frame \notin Buffered(queues[c][k.port])
        BY <3>1 DEF KeyIsNew, HasButtons
      <4>2. k.frame \notin Buffered(qs[k.port])
        BY <2>3, <3>1, <3>3, <4>1
      <4> QED
        BY <4>2 DEF HasButtons
    <3> QED
      BY <3>1, <3>2, <3>4 DEF KeyIsNew
  <2>7. \A d \in Clients \ {c} : incoming'[d] = incoming[d]
    BY <1>a, <2>5
  <2>8. CASE /\ Ready(qs[p], frame[c])
             /\ Play(c, p, qs)
             /\ reading' = [reading EXCEPT ![c] = {}]
             /\ UNCHANGED stopped
    <3>1. \A d \in Clients : reading'[d] = IF d = c THEN {} ELSE reading[d]
      BY <1>a, <2>8
    <3> QED
      BY <1>0, <2>2, <2>3, <2>4, <2>5, <2>6, <2>7, <2>8, <3>1, PlayPhase
  <2>9. CASE /\ queues' = [queues EXCEPT ![c] = qs]
             /\ UNCHANGED <<frame, pending, reading, played, stopped>>
    <3>1. \A d \in Clients, x \in Ports :
             queues'[d][x] = IF d = c THEN qs[x] ELSE queues[d][x]
      BY <1>a, <2>9
    <3>2. \A d \in Clients, x \in Ports : Requested(d, x)' = Requested(d, x)
      BY <2>9 DEF Requested
    <3>3. ASSUME NEW d \in Clients, NEW x \in Ports
          PROVE  /\ queues'[d][x].latest_frame_requested = Requested(d, x)'
                 /\ \A f \in Buffered(queues'[d][x]) : StillToPlay(queues'[d][x], f)
      <4>1. CASE d = c
        <5>1. queues'[d][x] = qs[x] /\ Requested(d, x)' = Requested(c, x)
          BY <3>1, <3>2, <4>1
        <5>2. /\ qs[x].latest_frame_requested = Requested(c, x)
              /\ \A f \in Buffered(qs[x]) : StillToPlay(qs[x], f)
          BY <2>3
        <5> QED
          BY <5>1, <5>2
      <4>2. CASE d # c
        <5>1. queues'[d][x] = queues[d][x]
          BY <3>1, <4>2
        <5>2. /\ queues[d][x].latest_frame_requested = Requested(d, x)
              /\ \A f \in Buffered(queues[d][x]) : StillToPlay(queues[d][x], f)
          BY DEF PhaseInv
        <5> QED
          BY <3>2, <5>1, <5>2
      <4> QED
        BY <4>1, <4>2
    <3>4. ASSUME NEW d \in Clients, NEW k \in incoming'[d] PROVE KeyIsNew(d, k)'
      <4>1. CASE d = c
        BY <2>6, <3>1, <4>1 DEF KeyIsNew
      <4>2. CASE d # c
        <5>1. KeyIsNew(d, k) /\ k.port \in Ports
          BY <1>a, <2>7, <4>2 DEF PhaseInv, Key
        <5> QED
          BY <3>1, <4>2, <5>1 DEF KeyIsNew
      <4> QED
        BY <4>1, <4>2
    <3>5. /\ \A d \in Clients : reading'[d] \subseteq pending'[d]
          /\ \A x \in Ports : DOMAIN inputs'[x] = 0..LastInput(x)'
          /\ StopsOnlyWhenBroken'
      BY <2>5, <2>9 DEF PhaseInv, LastInput, StopsOnlyWhenBroken
    <3> QED
      BY <1>0, <3>3, <3>4, <3>5 DEF PhaseInv, StillToPlay, InInitialDelay
  <2> QED
    BY <1>3, <2>1, <2>8, <2>9 DEF ReadKeys, qs
<1>4. ASSUME NEW c \in Clients, StreamBreaks(c) PROVE PhaseInv'
  <2>1. \A d \in Clients : incoming'[d] \subseteq incoming[d]
    BY <1>4, <1>a DEF StreamBreaks
  <2>2. StopsOnlyWhenBroken'
    BY <1>4, <1>a DEF StreamBreaks, PhaseInv, StopsOnlyWhenBroken
  <2> QED
    BY <1>0, <1>4, <2>1, <2>2 DEF StreamBreaks, PhaseInv, Requested, LastInput, KeyIsNew
<1>5. ASSUME NEW c \in Clients, ReadFails(c) PROVE PhaseInv'
  <2>1. \A d \in Clients : reading'[d] \subseteq pending'[d]
    BY <1>5, <1>a DEF ReadFails, PhaseInv
  <2>2. StopsOnlyWhenBroken'
    BY <1>5, <1>a DEF ReadFails, PhaseInv, StopsOnlyWhenBroken
  <2> QED
    BY <1>0, <1>5, <2>1, <2>2 DEF ReadFails, PhaseInv, Requested, LastInput, KeyIsNew
<1>6. CASE UNCHANGED vars
  BY <1>0, <1>6 DEF vars, PhaseInv, Requested, LastInput, KeyIsNew, StopsOnlyWhenBroken
<1> QED
  BY <1>1, <1>2, <1>3, <1>4, <1>5, <1>6 DEF Next, Get, Read

(***************************************************************************)
(* PhaseInv holds in every reachable state.                                *)
(***************************************************************************)
THEOREM PhaseInductive == Spec => []PhaseInv
  BY PhaseInit, PhaseStep, PTL DEF Spec

(***************************************************************************)
(* A game ends early only because its own stream broke: every put of the   *)
(* game loop is taken, every get is for the expected frame and finds local *)
(* input, and every key is accepted (event-stream-handler.hpp:199-416).    *)
(***************************************************************************)
THEOREM EndsOnlyWhenBroken == Spec => []StopsOnlyWhenBroken
<1>1. PhaseInv => StopsOnlyWhenBroken
  BY DEF PhaseInv
<1> QED
  BY <1>1, PhaseInductive, PTL

(***************************************************************************)
(* A game that has finished a frame had every player's input for it.       *)
(***************************************************************************)
LEMMA SkewLemma == PhaseInv => SkewBound
<1> SUFFICES ASSUME PhaseInv, NEW c \in Clients, NEW p \in Ports
             PROVE  frame[c] <= frame[owner[p]] + delay[p] + 1
  BY DEF SkewBound
<1> DEFINE f == frame[c]
           g == frame[owner[p]]
<1>1. f \in Nat /\ g \in Nat /\ delay[p] \in Nat
  BY DEF PhaseInv, LInv, TypeOK
<1>2. Len(played[c][p]) = f \/ Len(played[c][p]) = f + 1
  BY <1>1 DEF PhaseInv, LInv, QueueOK, ExpectedFrame, Requested
<1>3. LastInput(p) \in Int /\ LastInput(p) <= g + delay[p]
  BY <1>1 DEF LastInput
<1>4. CASE f = 0
  BY <1>1, <1>4
<1>5. CASE f # 0
  <2>1. f \in 1..Len(played[c][p])
    BY <1>1, <1>2, <1>5
  <2>2. f - 1 \in DOMAIN inputs[p]
    BY <2>1 DEF PhaseInv, LInv, PlayedIsInput
  <2>3. f - 1 \in 0..LastInput(p)
    BY <2>2 DEF PhaseInv
  <2> HIDE DEF f, g
  <2>4. f <= g + delay[p] + 1
    BY <1>1, <1>3, <2>3
  <2> QED
    BY <2>4 DEF f, g
<1> QED
  BY <1>4, <1>5

(***************************************************************************)
(* No game runs away from a player by more than that player's delay and    *)
(* one frame, streams that break included.                                 *)
(***************************************************************************)
THEOREM SkewBounded == Spec => []SkewBound
  BY SkewLemma, PhaseInductive, PTL

(***************************************************************************)
(* The map of a queue (input-queue.hpp:80, which sets no limit) is bounded *)
(* by two delays and two frames.                                           *)
(***************************************************************************)
THEOREM QueuesBounded == Spec => []QueueBound
<1>1. PhaseInv => QueueBound
  <2> SUFFICES ASSUME PhaseInv, NEW c \in Clients, NEW p \in Ports, NEW own \in Ports,
                      owner[own] = c
               PROVE  Cardinality(Buffered(queues[c][p])) <= delay[p] + delay[own] + 2
    BY DEF QueueBound
  <2> DEFINE q == queues[c][p]
             f == frame[c]
             g == frame[owner[p]]
             dp == delay[p]
             down == delay[own]
             last == f + down + 1 + dp
  <2>1. f \in Nat /\ g \in Nat /\ dp \in Nat /\ down \in Nat
    BY DEF PhaseInv, LInv, TypeOK
  <2>2. g <= f + down + 1
    BY SkewLemma DEF SkewBound
  <2>3. ASSUME NEW x \in Buffered(q) PROVE x \in f..last
    <3>1. x \in Nat /\ x > q.latest_frame_requested
      BY DEF PhaseInv, LInv, QueueOK, IsQueue, StillToPlay
    <3>2. q.latest_frame_requested = f \/ q.latest_frame_requested = f - 1
      BY DEF PhaseInv, Requested
    <3>3. x \in 0..LastInput(p)
      <4>1. x \in DOMAIN inputs[p]
        BY DEF PhaseInv, LInv, QueueOK, IsInput
      <4>2. DOMAIN inputs[p] = 0..LastInput(p)
        BY DEF PhaseInv
      <4> QED
        BY <4>1, <4>2
    <3>4. LastInput(p) = g + dp \/ LastInput(p) = g + dp - 1
      BY DEF LastInput
    <3> HIDE DEF f, g, dp, down, q
    <3>5. x >= f
      BY <2>1, <3>1, <3>2
    <3>6. x <= g + dp
      BY <2>1, <3>3, <3>4
    <3> QED
      BY <2>1, <2>2, <3>1, <3>5, <3>6
  <2> HIDE DEF q, f, g, dp, down
  <2>4. /\ IsFiniteSet(f..last)
        /\ Cardinality(f..last) = dp + down + 2
    <3>1. last \in Int /\ f \in Int /\ f <= last /\ last - f + 1 = dp + down + 2
      BY <2>1
    <3> HIDE DEF last
    <3>2. IsFiniteSet(f..last) /\ Cardinality(f..last) = last - f + 1
      <4>1. /\ IsFiniteSet(f..last)
            /\ Cardinality(f..last) = IF f > last THEN 0 ELSE last - f + 1
        BY <3>1, FS_Interval
      <4>2. ~(f > last)
        BY <3>1
      <4> QED
        BY <4>1, <4>2
    <3> QED
      BY <3>1, <3>2
  <2> HIDE DEF last
  <2>5. Buffered(q) \subseteq f..last
    BY <2>3
  <2>6. IsFiniteSet(Buffered(q)) /\ Cardinality(Buffered(q)) <= dp + down + 2
    BY <2>4, <2>5, FS_Subset
  <2> QED
    BY <2>6 DEF q, dp, down
<1> QED
  BY <1>1, PhaseInductive, PTL

-----------------------------------------------------------------------------
(***************************************************************************)
(* Nothing sent to a game whose stream holds is lost when it is given its  *)
(* input of a port: what leaves the queue has been played.                 *)
(***************************************************************************)
LEMMA PlayKeepsKeys ==
  ASSUME LInv, KeysDelivered, NEW c \in Clients, NEW p \in Ports, NEW qs,
         DOMAIN qs = Ports, \A x \in Ports : QueueOK(c, x, qs[x]),
         Ready(qs[p], frame[c]), Play(c, p, qs), UNCHANGED <<inputs, up>>,
         \A d \in Clients \ {c} : incoming'[d] = incoming[d],
         \A x \in Ports : up[c] /\ up[owner[x]] =>
            \A f \in DOMAIN inputs[x] :
               \/ f < Len(played[c][x])
               \/ InInitialDelay(qs[x], f)
               \/ HasButtons(qs[x], f)
               \/ Brings(incoming'[c], x, f)
  PROVE  KeysDelivered'
<1> DEFINE f == frame[c]
           r == Advance(qs[p], f)
           b == Answer(qs[p], f)
           s == played[c][p]
<1>1. /\ f \in Nat
      /\ played \in [Clients -> [Ports -> Seq(Buttons)]]
      /\ DOMAIN queues = Clients
      /\ \A d \in Clients : DOMAIN queues[d] = Ports
      /\ \A x \in Ports : DOMAIN inputs[x] \subseteq Nat
  BY DEF LInv, TypeOK
<1>2. /\ b \in Buttons
      /\ f = Len(s)
      /\ r.initial_frame_delay = qs[p].initial_frame_delay
      /\ Buffered(qs[p]) \ {f} \subseteq Buffered(r)
  BY <1>1, AnswerLemma
<1>3. /\ played' = [played EXCEPT ![c][p] = Append(s, b)]
      /\ queues' = [queues EXCEPT ![c] = [qs EXCEPT ![p] = r]]
  BY DEF Play
<1> HIDE DEF r, b
<1>4. Len(Append(s, b)) = f + 1
  BY <1>1, <1>2
<1>5. \A d \in Clients, x \in Ports :
         /\ played'[d][x] = IF d = c /\ x = p THEN Append(s, b) ELSE played[d][x]
         /\ queues'[d][x] = IF d # c THEN queues[d][x]
                            ELSE IF x = p THEN r ELSE qs[x]
  BY <1>1, <1>3
<1> SUFFICES ASSUME NEW d \in Clients, NEW x \in Ports, up[d], up[owner[x]],
                    NEW g \in DOMAIN inputs[x]
             PROVE  \/ g < Len(played'[d][x])
                    \/ InInitialDelay(queues'[d][x], g)
                    \/ HasButtons(queues'[d][x], g)
                    \/ Brings(incoming'[d], x, g)
  BY DEF KeysDelivered, Brings, InInitialDelay, HasButtons, Buffered
<1>6. CASE d # c
  BY <1>5, <1>6 DEF KeysDelivered, Brings
<1>7. CASE d = c /\ x # p
  BY <1>5, <1>7
<1>8. CASE d = c /\ x = p
  <2>1. played'[d][x] = Append(s, b) /\ queues'[d][x] = r
    BY <1>5, <1>8
  <2>2. g < f => g < f + 1
    BY <1>1
  <2>3. g = f => g < f + 1
    BY <1>1
  <2> HIDE DEF s, f
  <2> QED
    BY <1>2, <1>4, <1>8, <2>1, <2>2, <2>3 DEF InInitialDelay, HasButtons, s, f
<1> QED
  BY <1>6, <1>7, <1>8

(***************************************************************************)
(* A put reaches the queue of the port's own machine at once, and is on    *)
(* its way to every other game whose stream holds.                         *)
(***************************************************************************)
LEMMA PutKeepsKeys ==
  ASSUME PhaseInv, KeysDelivered, NEW c \in Clients,
         NEW buttons \in [LocalPorts(c) -> Buttons], PutButtons(c, buttons)
  PROVE  KeysDelivered'
<1> DEFINE f == frame[c]
<1>1. /\ f \in Nat
      /\ DOMAIN incoming = Clients
      /\ DOMAIN queues = Clients
      /\ \A d \in Clients : DOMAIN queues[d] = Ports
  BY DEF PhaseInv, LInv, TypeOK
<1>2. CASE UNCHANGED <<queues, inputs, incoming, up, played>>
  BY <1>2 DEF KeysDelivered
<1>3. CASE /\ \A p \in LocalPorts(c) : Accepts(queues[c][p], f)
           /\ queues' = [queues EXCEPT ![c] =
                [p \in Ports |->
                   IF p \in LocalPorts(c)
                   THEN Insert(queues[c][p], f, buttons[p]) ELSE queues[c][p]]]
           /\ inputs' =
                [p \in Ports |->
                   IF p \in LocalPorts(c)
                   THEN [g \in DOMAIN inputs[p] \union {f + delay[p]} |->
                           IF g = f + delay[p] THEN buttons[p] ELSE inputs[p][g]]
                   ELSE inputs[p]]
           /\ incoming' =
                [d \in Clients |->
                   IF d # c /\ up[c] /\ up[d]
                   THEN incoming[d] \union OutgoingKeys(c, buttons)
                   ELSE incoming[d]]
           /\ UNCHANGED <<up, played>>
  <2>1. ASSUME NEW d \in Clients, NEW p \in Ports
        PROVE  /\ queues'[d][p].initial_frame_delay = queues[d][p].initial_frame_delay
               /\ Buffered(queues[d][p]) \subseteq Buffered(queues'[d][p])
               /\ d = c /\ owner[p] = c => f + delay[p] \in Buffered(queues'[d][p])
    <3> DEFINE q == queues[d][p]
    <3>1. CASE ~(d = c /\ p \in LocalPorts(c))
      <4>1. queues'[d][p] = q
        BY <1>1, <1>3, <3>1
      <4> QED
        BY <3>1, <4>1 DEF LocalPorts
    <3>2. CASE d = c /\ p \in LocalPorts(c)
      <4>1. /\ queues'[d][p] = Insert(q, f, buttons[p])
            /\ IsQueue(q)
            /\ Accepts(q, f)
            /\ owner[p] = c
            /\ q.delay_frames = delay[p]
            /\ buttons[p] \in Buttons
        BY <1>1, <1>3, <3>2 DEF LocalPorts, PhaseInv, LInv, QueueOK
      <4>2. f \in Int /\ DelayedFrame(q, f) = f + delay[p]
        BY <1>1, <4>1 DEF DelayedFrame
      <4> HIDE DEF q
      <4>3. LET r == Insert(q, f, buttons[p])
            IN  /\ Buffered(r) = Buffered(q) \union {DelayedFrame(q, f)}
                /\ r.initial_frame_delay = q.initial_frame_delay
        BY <4>1, <4>2, InsertLemma
      <4> QED
        BY <4>1, <4>2, <4>3 DEF q
    <3> QED
      BY <3>1, <3>2
  <2>2. \A d \in Clients : incoming[d] \subseteq incoming'[d]
    BY <1>3
  <2>3. ASSUME NEW d \in Clients, d # c, up[d], up[c], NEW p \in Ports, owner[p] = c
        PROVE  Brings(incoming'[d], p, f + delay[p])
    <3>1. [port |-> p, frame |-> f + delay[p], buttons |-> buttons[p]]
             \in OutgoingKeys(c, buttons)
      BY <2>3 DEF OutgoingKeys, LocalPorts
    <3>2. incoming'[d] = incoming[d] \union OutgoingKeys(c, buttons)
      BY <1>3, <2>3
    <3> QED
      BY <3>1, <3>2 DEF Brings
  <2>4. \A p \in Ports : \A g \in DOMAIN inputs'[p] :
           g \in DOMAIN inputs[p] \/ (owner[p] = c /\ g = f + delay[p])
    BY <1>3 DEF LocalPorts
  <2> HIDE DEF f
  <2> SUFFICES ASSUME NEW d \in Clients, NEW p \in Ports, up[d], up[owner[p]],
                      NEW g \in DOMAIN inputs'[p]
               PROVE  \/ g < Len(played[d][p])
                      \/ InInitialDelay(queues'[d][p], g)
                      \/ HasButtons(queues'[d][p], g)
                      \/ Brings(incoming'[d], p, g)
    BY <1>3 DEF KeysDelivered, Brings, InInitialDelay, HasButtons, Buffered
  <2>5. CASE g \in DOMAIN inputs[p]
    <3>1. \/ g < Len(played[d][p])
          \/ InInitialDelay(queues[d][p], g)
          \/ HasButtons(queues[d][p], g)
          \/ Brings(incoming[d], p, g)
      BY <2>5 DEF KeysDelivered, Brings
    <3> QED
      BY <2>1, <2>2, <3>1 DEF InInitialDelay, HasButtons, Brings
  <2>6. CASE owner[p] = c /\ g = f + delay[p]
    BY <2>1, <2>3, <2>6 DEF HasButtons
  <2> QED
    BY <2>4, <2>5, <2>6
<1> QED
  BY <1>2, <1>3 DEF PutButtons


(***************************************************************************)
(* Nothing was put before the first frame but the frames of the delay,     *)
(* which every queue of the port answers by itself.                        *)
(***************************************************************************)
LEMMA WaitInit == Init => WaitInv
<1> SUFFICES ASSUME Init PROVE WaitInv
  OBVIOUS
<1>1. PhaseInv
  BY PhaseInit
<1>2. KeysDelivered
  <2> SUFFICES ASSUME NEW c \in Clients, NEW p \in Ports, NEW f \in DOMAIN inputs[p]
               PROVE  InInitialDelay(queues[c][p], f)
    BY DEF KeysDelivered
  <2>1. f \in 0..(delay[p] - 1) /\ delay[p] \in Nat
    BY DEF Init
  <2>2. queues[c][p].initial_frame_delay = delay[p]
    BY DEF Init, NewHandler, MakeLocalQueue, MakeRemoteQueue, NewQueue
  <2> QED
    BY <2>1, <2>2 DEF InInitialDelay
<1> QED
  BY <1>1, <1>2 DEF Init, WaitInv, ReadsMissing

(***************************************************************************)
(* No step of any client, and no stream that breaks, violates WaitInv.     *)
(***************************************************************************)
LEMMA WaitStep == WaitInv /\ [Next]_vars => WaitInv'
<1> SUFFICES ASSUME WaitInv, [Next]_vars PROVE WaitInv'
  OBVIOUS
<1>0. PhaseInv /\ LInv /\ KeysDelivered /\ ReadsMissing /\ PhaseInv'
  BY PhaseStep DEF WaitInv, PhaseInv
<1> SUFFICES KeysDelivered' /\ ReadsMissing'
  BY <1>0 DEF WaitInv
<1>a. /\ reading \in [Clients -> SUBSET Ports]
      /\ frame \in [Clients -> Nat]
      /\ up \in [Clients -> BOOLEAN]
      /\ DOMAIN incoming = Clients
      /\ DOMAIN queues = Clients
      /\ \A d \in Clients : DOMAIN queues[d] = Ports
  BY <1>0 DEF LInv, TypeOK
<1>b. ASSUME NEW c \in Clients, NEW p \in Ports, NEW qs, Play(c, p, qs),
             \A d \in Clients : reading'[d] = IF d = c THEN {} ELSE reading[d]
      PROVE  ReadsMissing'
  BY <1>0, <1>a, <1>b DEF Play, ReadsMissing
<1>1. ASSUME NEW c \in Clients, Put(c) PROVE KeysDelivered' /\ ReadsMissing'
  <2>1. KeysDelivered'
    BY <1>0, <1>1, PutKeepsKeys DEF Put
  <2>2. /\ reading' = reading /\ frame' = frame /\ reading[c] = {}
        /\ \A d \in Clients \ {c} : queues'[d] = queues[d]
    BY <1>1, <1>a DEF Put, PutButtons, Free
  <2> QED
    BY <1>0, <2>1, <2>2 DEF ReadsMissing
<1>2. ASSUME NEW c \in Clients, NEW p \in Ports, GetButtons(c, p)
      PROVE  KeysDelivered' /\ ReadsMissing'
  <2>1. reading[c] = {} /\ UNCHANGED <<up, incoming, inputs>>
    BY <1>2 DEF GetButtons, Free
  <2>2. CASE /\ Ready(queues[c][p], frame[c])
             /\ Play(c, p, queues[c])
             /\ UNCHANGED <<reading, stopped>>
    <3> DEFINE qs == queues[c]
    <3>1. /\ DOMAIN qs = Ports
          /\ \A x \in Ports : QueueOK(c, x, qs[x])
      BY <1>0, <1>a DEF LInv
    <3>2. \A d \in Clients : reading'[d] = IF d = c THEN {} ELSE reading[d]
      BY <2>1, <2>2
    <3>3. \A x \in Ports : up[c] /\ up[owner[x]] =>
             \A f \in DOMAIN inputs[x] :
                \/ f < Len(played[c][x])
                \/ InInitialDelay(qs[x], f)
                \/ HasButtons(qs[x], f)
                \/ Brings(incoming'[c], x, f)
      BY <1>0, <2>1 DEF KeysDelivered, Brings
    <3>4. ReadsMissing'
      BY <1>b, <2>2, <3>2
    <3> HIDE DEF qs
    <3>5. KeysDelivered'
      <4>1. Ready(qs[p], frame[c]) /\ Play(c, p, qs)
        BY <2>2 DEF qs
      <4> QED
        BY <1>0, <2>1, <3>1, <3>3, <4>1, PlayKeepsKeys
    <3> QED
      BY <3>4, <3>5
  <2>3. CASE /\ ~Ready(queues[c][p], frame[c])
             /\ reading' = [reading EXCEPT ![c] = {p}]
             /\ UNCHANGED <<frame, queues, played>>
    <3>1. ReadsMissing'
      BY <1>0, <1>a, <2>1, <2>3 DEF ReadsMissing
    <3>2. KeysDelivered'
      BY <1>0, <2>1, <2>3 DEF KeysDelivered
    <3> QED
      BY <3>1, <3>2
  <2>4. CASE UNCHANGED <<frame, reading, queues, played>>
    BY <1>0, <2>1, <2>4 DEF KeysDelivered, ReadsMissing
  <2> QED
    BY <1>2, <2>2, <2>3, <2>4 DEF GetButtons
<1>3. ASSUME NEW c \in Clients, NEW p \in Ports, NEW keys \in SUBSET incoming[c],
             ReadKeys(c, p, keys)
      PROVE  KeysDelivered' /\ ReadsMissing'
  <2> DEFINE qs == Inserted(c, keys)
  <2>1. AllAccepted(c, keys)
    BY <1>0, KeysAreAccepted
  <2>2. /\ incoming' = [incoming EXCEPT ![c] = @ \ keys]
        /\ UNCHANGED <<up, inputs>>
    BY <1>3 DEF ReadKeys
  <2>3. /\ DOMAIN qs = Ports
        /\ \A x \in Ports : QueueOK(c, x, qs[x])
    BY <1>0, InsertedLemma DEF Inserted
  <2>4. ASSUME NEW x \in Ports, up[c], up[owner[x]], NEW f \in DOMAIN inputs[x]
        PROVE  \/ f < Len(played[c][x])
               \/ InInitialDelay(qs[x], f)
               \/ HasButtons(qs[x], f)
               \/ Brings(incoming'[c], x, f)
    <3>1. /\ qs[x].initial_frame_delay = queues[c][x].initial_frame_delay
          /\ \A g : g \in Buffered(qs[x]) <=>
                     g \in Buffered(queues[c][x]) \/ Brings(keys, x, g)
      BY <1>0, InsertedShape
    <3>2. \/ f < Len(played[c][x])
          \/ InInitialDelay(queues[c][x], f)
          \/ HasButtons(queues[c][x], f)
          \/ Brings(incoming[c], x, f)
      BY <1>0, <2>4 DEF KeysDelivered, Brings
    <3>3. Brings(incoming[c], x, f) =>
             Brings(keys, x, f) \/ Brings(incoming'[c], x, f)
      BY <1>a, <2>2 DEF Brings
    <3> HIDE DEF qs
    <3> QED
      BY <3>1, <3>2, <3>3 DEF InInitialDelay, HasButtons
  <2>5. \A d \in Clients \ {c} : incoming'[d] = incoming[d]
    BY <1>a, <2>2
  <2> HIDE DEF qs
  <2>6. CASE /\ Ready(qs[p], frame[c])
             /\ Play(c, p, qs)
             /\ reading' = [reading EXCEPT ![c] = {}]
    <3>1. \A d \in Clients : reading'[d] = IF d = c THEN {} ELSE reading[d]
      BY <1>a, <2>6
    <3>2. ReadsMissing'
      BY <1>b, <2>6, <3>1
    <3>3. KeysDelivered'
      BY <1>0, <2>2, <2>3, <2>4, <2>5, <2>6, PlayKeepsKeys
    <3> QED
      BY <3>2, <3>3
  <2>7. CASE /\ ~Ready(qs[p], frame[c])
             /\ queues' = [queues EXCEPT ![c] = qs]
             /\ UNCHANGED <<frame, reading, played>>
    <3>1. \A d \in Clients, x \in Ports :
             queues'[d][x] = IF d = c THEN qs[x] ELSE queues[d][x]
      BY <1>a, <2>7
    <3>2. KeysDelivered'
      <4> SUFFICES ASSUME NEW d \in Clients, NEW x \in Ports, up[d], up[owner[x]],
                          NEW f \in DOMAIN inputs[x]
                   PROVE  \/ f < Len(played[d][x])
                          \/ InInitialDelay(queues'[d][x], f)
                          \/ HasButtons(queues'[d][x], f)
                          \/ Brings(incoming'[d], x, f)
        BY <2>2, <2>7 DEF KeysDelivered, Brings, InInitialDelay, HasButtons, Buffered
      <4>1. CASE d = c
        BY <2>4, <3>1, <4>1
      <4>2. CASE d # c
        BY <1>0, <2>5, <3>1, <4>2 DEF KeysDelivered, Brings
      <4> QED
        BY <4>1, <4>2
    <3>3. reading[c] = {p}
      BY <1>0, <1>3 DEF ReadKeys, ReadsMissing
    <3>4. ReadsMissing'
      BY <1>0, <1>a, <2>7, <3>1, <3>3 DEF ReadsMissing
    <3> QED
      BY <3>2, <3>4
  <2> QED
    BY <1>3, <2>1, <2>6, <2>7 DEF ReadKeys, qs
<1>4. ASSUME NEW c \in Clients, StreamBreaks(c) PROVE KeysDelivered' /\ ReadsMissing'
  <2>1. /\ up' = [up EXCEPT ![c] = FALSE]
        /\ \A d \in Clients \ {c} : incoming'[d] = incoming[d]
        /\ UNCHANGED <<frame, reading, queues, inputs, played>>
    BY <1>4, <1>a DEF StreamBreaks
  <2>2. KeysDelivered'
    <3> SUFFICES ASSUME NEW d \in Clients, NEW p \in Ports, up'[d], up'[owner[p]],
                        NEW f \in DOMAIN inputs[p]
                 PROVE  \/ f < Len(played[d][p])
                        \/ InInitialDelay(queues[d][p], f)
                        \/ HasButtons(queues[d][p], f)
                        \/ \E k \in incoming'[d] : k.port = p /\ k.frame = f
      BY <2>1 DEF KeysDelivered
    <3>1. d # c /\ up[d] /\ up[owner[p]] /\ incoming'[d] = incoming[d]
      BY <1>a, <2>1
    <3> QED
      BY <1>0, <3>1 DEF KeysDelivered
  <2> QED
    BY <1>0, <1>a, <2>1, <2>2 DEF ReadsMissing
<1>5. ASSUME NEW c \in Clients, ReadFails(c) PROVE KeysDelivered' /\ ReadsMissing'
  <2>1. /\ \A d \in Clients : reading'[d] \subseteq reading[d]
        /\ UNCHANGED <<frame, queues, up, incoming, inputs, played>>
    BY <1>5, <1>a DEF ReadFails
  <2>2. KeysDelivered'
    BY <1>0, <2>1 DEF KeysDelivered
  <2> QED
    BY <1>0, <1>a, <2>1, <2>2 DEF ReadsMissing
<1>6. CASE UNCHANGED vars
  <2>1. KeysDelivered'
    BY <1>0, <1>6 DEF vars, KeysDelivered
  <2> QED
    BY <1>0, <1>6, <2>1 DEF vars, ReadsMissing
<1> QED
  BY <1>1, <1>2, <1>3, <1>4, <1>5, <1>6 DEF Next, Get, Read


(***************************************************************************)
(* WaitInv holds in every reachable state.                                 *)
(***************************************************************************)
THEOREM WaitInductive == Spec => []WaitInv
  BY WaitInit, WaitStep, PTL DEF Spec

(***************************************************************************)
(* While two streams hold, every input of the one player is on its way to  *)
(* the other, in the queue or played, whatever that one is waiting for     *)
(* when it reads the key (event-stream-handler.hpp:238-241, 366-410).      *)
(***************************************************************************)
THEOREM NoInputIsLost == Spec => []KeysDelivered
<1>1. WaitInv => KeysDelivered
  BY DEF WaitInv
<1> QED
  BY <1>1, WaitInductive, PTL

(***************************************************************************)
(* A game that waits, waits for one that is further back, or whose own     *)
(* input for this very frame is still to be put (no delay): every other    *)
(* input is on its way (event-stream-handler.hpp:336, 366).                *)
(***************************************************************************)
LEMMA WaitsForAnother ==
  ASSUME WaitInv, \A d \in Clients : up[d], NEW c \in Clients, NEW p \in reading[c],
         \A k \in incoming[c] : k.port # p \/ k.frame # frame[c]
  PROVE  LET o == owner[p]
         IN  /\ o \in Clients
             /\ frame[o] <= frame[c]
             /\ frame[o] = frame[c] => reading[o] = {}
<1> DEFINE q == queues[c][p]
           f == frame[c]
           o == owner[p]
           g == frame[o]
<1>1. PhaseInv /\ KeysDelivered /\ ~Ready(q, f)
  BY DEF WaitInv, ReadsMissing
<1>2. p \in pending[c]
  BY <1>1 DEF PhaseInv
<1>3. p \in Ports /\ f \in Nat /\ f = ExpectedFrame(q)
  BY <1>1, <1>2, PendingIsExpected
<1>4. o \in Clients /\ g \in Nat /\ delay[p] \in Nat
  BY <1>1, <1>3 DEF PhaseInv, LInv, TypeOK
<1>5. f \notin DOMAIN inputs[p]
  <2> SUFFICES ASSUME f \in DOMAIN inputs[p] PROVE FALSE
    OBVIOUS
  <2>1. ~InInitialDelay(q, f) /\ ~HasButtons(q, f)
    BY <1>1, <1>3 DEF Ready
  <2>2. f < Len(played[c][p])
    BY <1>1, <1>3, <1>4, <2>1 DEF KeysDelivered
  <2>3. Len(played[c][p]) = f
    BY <1>1, <1>3 DEF PhaseInv, LInv, QueueOK
  <2> QED
    BY <1>3, <2>2, <2>3
<1>6. f \notin 0..LastInput(p)
  BY <1>1, <1>3, <1>5 DEF PhaseInv
<1>7. CASE pending[o] # {}
  <2>1. LastInput(p) = g + delay[p]
    BY <1>7 DEF LastInput
  <2>2. g < f
    <3> HIDE DEF f, g
    <3> QED
      BY <1>3, <1>4, <1>6, <2>1
  <2> QED
    BY <1>3, <1>4, <2>2
<1>8. CASE pending[o] = {}
  <2>1. LastInput(p) = g + delay[p] - 1
    BY <1>8 DEF LastInput
  <2>2. g <= f
    <3> HIDE DEF f, g
    <3> QED
      BY <1>3, <1>4, <1>6, <2>1
  <2>3. reading[o] = {}
    BY <1>1, <1>4, <1>8 DEF PhaseInv
  <2> QED
    BY <1>4, <2>2, <2>3
<1> QED
  BY <1>7, <1>8

(***************************************************************************)
(* The games never all wait for each other: of those that have frames left *)
(* the one that is furthest back, or a player it waits for, does not.      *)
(***************************************************************************)
THEOREM NeverAllWaiting == Spec => []SomebodyGoesOn
<1>1. WaitInv => SomebodyGoesOn
  <2> SUFFICES ASSUME WaitInv, \A d \in Clients : up[d], Unfinished # {}
               PROVE  \E c \in Unfinished : ~stopped[c] /\ ~Waits(c)
    BY DEF SomebodyGoesOn
  <2>1. /\ frame \in [Clients -> Nat]
        /\ \A d \in Clients : ~stopped[d]
    BY DEF WaitInv, PhaseInv, LInv, TypeOK, StopsOnlyWhenBroken
  <2> DEFINE T == { frame[d] : d \in Unfinished }
  <2>2. T \in SUBSET Nat /\ T # {}
    BY <2>1 DEF Unfinished
  <2>3. PICK x \in T : \A y \in T : x <= y
    <3> HIDE DEF T
    <3> QED
      BY <2>2, LeastNat
  <2>4. PICK c \in Unfinished : frame[c] = x
    BY <2>3
  <2>5. c \in Clients /\ frame[c] \in Nat /\ frame[c] <= MaxFrame
    BY <2>1, <2>4 DEF Unfinished
  <2>6. \A d \in Unfinished : frame[c] <= frame[d]
    BY <2>3, <2>4
  <2>7. CASE ~Waits(c)
    BY <2>1, <2>4, <2>5, <2>7
  <2>8. CASE Waits(c)
    <3>1. PICK p \in reading[c] :
             \A k \in incoming[c] : k.port # p \/ k.frame # frame[c]
      BY <2>8 DEF Waits
    <3> DEFINE o == owner[p]
    <3>2. /\ o \in Clients
          /\ frame[o] <= frame[c]
          /\ frame[o] = frame[c] => reading[o] = {}
      BY <2>5, <3>1, WaitsForAnother
    <3>3. frame[o] \in Nat /\ o \in Unfinished
      BY <2>1, <2>5, <3>2 DEF Unfinished
    <3>4. frame[o] = frame[c]
      BY <2>5, <2>6, <3>2, <3>3
    <3>5. ~Waits(o)
      BY <3>2, <3>4 DEF Waits
    <3> QED
      BY <2>1, <3>2, <3>3, <3>5
  <2> QED
    BY <2>7, <2>8
<1> QED
  BY <1>1, WaitInductive, PTL

=============================================================================
