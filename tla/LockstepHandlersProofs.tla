----------------------- MODULE LockstepHandlersProofs -----------------------
(***************************************************************************)
(* That every client of Lockstep is an EventStreamHandler: the histories   *)
(* of a handler are computed from the games (PlayHistories, HeldInserted,  *)
(* PutHistories), each action of a game is then the handler's action with  *)
(* the same name (GetIsGet, ReadIsRead, PutIsPut), and no step of another  *)
(* client touches the handler.                                             *)
(***************************************************************************)
EXTENDS LockstepHandlers, LockstepPhaseProofs

USE DefaultAssumption, OwnerAssumption, DelayAssumption, MaxFrameAssumption

(***************************************************************************)
(* SetToSeq lists the elements of a finite set, each of them once: the     *)
(* keys of an event, and the tuples of a batch, in some order.             *)
(***************************************************************************)
LEMMA SeqOfSet ==
  ASSUME NEW S, IsFiniteSet(S)
  PROVE  LET s == SetToSeq(S)
         IN  /\ Len(s) \in Nat
             /\ \A i \in 1..Len(s) : s[i] \in S
             /\ \A x \in S : \E i \in 1..Len(s) : s[i] = x
             /\ \A i, j \in 1..Len(s) : s[i] = s[j] => i = j
<1> DEFINE n == Cardinality(S)
           s == SetToSeq(S)
<1>1. n \in Nat /\ ExistsBijection(1..n, S)
  BY FS_CardinalityType
<1>2. PICK f \in [1..n -> S] : IsInjective(f)
  BY <1>1 DEF ExistsBijection, Bijection, Injection
<1>3. s \in [1..n -> S] /\ IsInjective(s)
  <2> HIDE DEF n
  <2>1. (CHOOSE g \in [1..n -> S] : IsInjective(g)) \in [1..n -> S]
         /\ IsInjective(CHOOSE g \in [1..n -> S] : IsInjective(g))
    BY <1>2
  <2> QED
    BY <2>1 DEF SetToSeq, n
<1>4. s \in Surjection(1..n, S)
  <2>1. s \in Injection(1..n, S)
    BY <1>3 DEF Injection
  <2>2. Cardinality(1..n) = Cardinality(S)
    <3> HIDE DEF n
    <3>1. Cardinality(1..n) = n
      BY <1>1, FS_Interval
    <3> QED
      BY <3>1 DEF n
  <2> HIDE DEF s, n
  <2> QED
    BY <2>1, <2>2, FS_Injection
<1> HIDE DEF s, n
<1>5. s \in Seq(S) /\ Len(s) = n
  <2>1. s \in Seq(S)
    BY <1>1, <1>3, SeqDef
  <2> QED
    BY <1>1, <1>3, <2>1, LenProperties
<1>6. /\ \A i \in 1..n : s[i] \in S
      /\ \A x \in S : \E i \in 1..n : s[i] = x
      /\ \A i, j \in 1..n : s[i] = s[j] => i = j
  BY <1>3, <1>4 DEF Surjection, IsInjective
<1> QED
  BY <1>1, <1>5, <1>6 DEF s

(***************************************************************************)
(* A handler and the games work on the queues with the same operators      *)
(* (input-queue.hpp).                                                      *)
(***************************************************************************)
LEMMA SameQueues ==
  ASSUME NEW c \in Clients, NEW q, NEW f
  PROVE  /\ Handler(c)!Accepts(q, f) = Accepts(q, f)
         /\ Handler(c)!Ready(q, f) = Ready(q, f)
         /\ Handler(c)!Answer(q, f) = Answer(q, f)
         /\ Handler(c)!Advance(q, f) = Advance(q, f)
         /\ Handler(c)!DelayedFrame(q, f) = DelayedFrame(q, f)
         /\ Handler(c)!ExpectedFrame(q) = ExpectedFrame(q)
<1> USE DEF Handler!DelayedFrame, Handler!ExpectedFrame, Handler!InInitialDelay,
            Handler!HasButtons, Handler!Buffered, DelayedFrame, ExpectedFrame,
            InInitialDelay, HasButtons, Buffered
<1>1. Handler(c)!Accepts(q, f) = Accepts(q, f)
  BY DEF Handler!Accepts, Accepts
<1>2. Handler(c)!Ready(q, f) = Ready(q, f)
  BY DEF Handler!Ready, Ready
<1>3. Handler(c)!Answer(q, f) = Answer(q, f)
  BY DEF Handler!Answer, Answer
<1>4. Handler(c)!Take(q, f) = Take(q, f) /\ Handler(c)!SkipDelay(q, f) = SkipDelay(q, f)
  BY DEF Handler!Take, Take, Handler!SkipDelay, SkipDelay, Handler!Restrict, Restrict
<1>5. Handler(c)!Advance(q, f) = Advance(q, f)
  BY <1>4 DEF Handler!Advance, Advance
<1> QED
  BY <1>1, <1>2, <1>3, <1>5

(***************************************************************************)
(* Both insert the keys of an event in the same way (event-stream-         *)
(* handler.hpp:366-416).                                                   *)
(***************************************************************************)
LEMMA SameInserted ==
  ASSUME NEW c \in Clients, NEW keys, DOMAIN queues[c] = Ports
  PROVE  Handler(c)!Inserted(keys) = Inserted(c, keys)
  BY DEF Handler!Inserted, Inserted, Handler!InsertAll, InsertAll, Handler!Buffered, Buffered

-----------------------------------------------------------------------------
\* Of the keys the handler of c received: those its game was given already.
RemotePlayed(c) ==
  { k \in PlayedBy(c) : owner[k.port] # c /\ k.frame >= delay[k.port] }

\* And those that are still in the queues of remote ports.
Held(c, qs) ==
  UNION { { K(p, f, qs[p].frame_buttons[f]) : f \in Buffered(qs[p]) }
          : p \in Ports \ LocalPorts(c) }

(***************************************************************************)
(* A get that succeeds: the key it answers moves from the queue to what    *)
(* was played, and what was received is the same keys as before.           *)
(***************************************************************************)
LEMMA PlayHistories ==
  ASSUME LInv, NEW c \in Clients, NEW p \in Ports, NEW qs,
         DOMAIN qs = Ports, \A x \in Ports : QueueOK(c, x, qs[x]),
         Ready(qs[p], frame[c]), Play(c, p, qs)
  PROVE  /\ queues'[c] = [qs EXCEPT ![p] = Advance(qs[p], frame[c])]
         /\ PlayedBy(c)' = PlayedBy(c) \union {K(p, frame[c], Answer(qs[p], frame[c]))}
         /\ ReceivedBy(c)' = RemotePlayed(c) \union Held(c, qs)
<1> DEFINE f == frame[c]
           r == Advance(qs[p], f)
           b == Answer(qs[p], f)
           s == played[c][p]
           new == K(p, f, b)
<1>1. /\ f \in Nat
      /\ played \in [Clients -> [Ports -> Seq(Buttons)]]
      /\ c \in DOMAIN queues
  BY DEF LInv, TypeOK
<1>2. /\ b \in Buttons
      /\ f = Len(s)
      /\ \A g \in Buffered(r) : r.frame_buttons[g] = qs[p].frame_buttons[g]
  BY <1>1, AnswerLemma
<1>3. /\ played' = [played EXCEPT ![c][p] = Append(s, b)]
      /\ queues'[c] = [qs EXCEPT ![p] = r]
  BY <1>1 DEF Play
<1>4. \/ /\ Buffered(r) = Buffered(qs[p])
         /\ f < delay[p]
      \/ /\ Buffered(r) = Buffered(qs[p]) \ {f}
         /\ f \in Buffered(qs[p])
         /\ b = qs[p].frame_buttons[f]
         /\ f >= delay[p]
  <2>1. IsQueue(qs[p]) /\ qs[p].initial_frame_delay = delay[p] /\ delay[p] \in Nat
    BY DEF QueueOK
  <2>2. CASE InInitialDelay(qs[p], f)
    <3>1. r = SkipDelay(qs[p], f)
      BY <2>2 DEF Advance
    <3>2. LET t == SkipDelay(qs[p], f) IN Buffered(t) = Buffered(qs[p])
      BY <1>1, <2>1, SkipDelayLemma
    <3> QED
      BY <2>1, <2>2, <3>1, <3>2 DEF InInitialDelay
  <2>3. CASE ~InInitialDelay(qs[p], f)
    <3>1. HasButtons(qs[p], f) /\ r = Take(qs[p], f) /\ b = qs[p].frame_buttons[f]
      BY <2>3 DEF Ready, Advance, Answer
    <3>2. LET t == Take(qs[p], f) IN Buffered(t) = Buffered(qs[p]) \ {f}
      BY <2>1, <3>1, TakeLemma
    <3>3. f >= delay[p]
      BY <1>1, <2>1, <2>3 DEF InInitialDelay
    <3> QED
      BY <3>1, <3>2, <3>3 DEF HasButtons
  <2> QED
    BY <2>2, <2>3
<1> HIDE DEF r, b
<1>5. /\ \A x \in Ports : x # p => played'[c][x] = played[c][x]
      /\ played'[c][p] = Append(s, b)
      /\ Len(played'[c][p]) = f + 1
      /\ played'[c][p][f + 1] = b
      /\ \A i \in 1..f : played'[c][p][i] = s[i]
  <2>1. s \in Seq(Buttons) /\ f \in Nat
    BY <1>1
  <2>2. \A x \in Ports : played'[c][x] = IF x = p THEN Append(s, b) ELSE played[c][x]
    BY <1>1, <1>3
  <2> HIDE DEF s, f
  <2>3. /\ Len(Append(s, b)) = f + 1
        /\ Append(s, b)[f + 1] = b
        /\ \A i \in 1..f : Append(s, b)[i] = s[i]
    BY <1>2, <2>1
  <2> QED
    BY <2>2, <2>3
<1>a. \A k : k \in PlayedBy(c) <=> \E x \in Ports : \E i \in 1..Len(played[c][x]) :
                                    k = K(x, i - 1, played[c][x][i])
  BY DEF PlayedBy
<1>b. \A k : k \in PlayedBy(c)' <=> \E x \in Ports : \E i \in 1..Len(played'[c][x]) :
                                    k = K(x, i - 1, played'[c][x][i])
  BY DEF PlayedBy
<1>6. PlayedBy(c)' = PlayedBy(c) \union {new}
  <2>1. ASSUME NEW k \in PlayedBy(c)' PROVE k \in PlayedBy(c) \union {new}
    <3>0. PICK x \in Ports : \E i \in 1..Len(played'[c][x]) :
                                k = K(x, i - 1, played'[c][x][i])
      BY <1>b, <2>1
    <3>1. PICK i \in 1..Len(played'[c][x]) : k = K(x, i - 1, played'[c][x][i])
      BY <3>0
    <3>2. CASE x # p
      BY <1>5, <1>a, <3>1, <3>2
    <3>3. CASE x = p /\ i = f + 1
      BY <1>1, <1>5, <3>1, <3>3
    <3>4. CASE x = p /\ i # f + 1
      <4>1. i \in 1..f
        BY <1>1, <1>5, <3>1, <3>4
      <4> QED
        BY <1>2, <1>5, <1>a, <3>1, <3>4, <4>1
    <3> QED
      BY <3>2, <3>3, <3>4
  <2>2. ASSUME NEW k \in PlayedBy(c) PROVE k \in PlayedBy(c)'
    <3>0. PICK x \in Ports : \E i \in 1..Len(played[c][x]) :
                                k = K(x, i - 1, played[c][x][i])
      BY <1>a, <2>2
    <3>1. PICK i \in 1..Len(played[c][x]) : k = K(x, i - 1, played[c][x][i])
      BY <3>0
    <3>2. i \in 1..Len(played'[c][x]) /\ played'[c][x][i] = played[c][x][i]
      <4>1. CASE x # p
        BY <1>5, <4>1
      <4>2. CASE x = p
        <5>1. i \in 1..f /\ played'[c][x][i] = played[c][x][i]
          BY <1>2, <1>5, <4>2
        <5>2. Len(played'[c][x]) = f + 1 /\ f \in Nat
          BY <1>1, <1>5, <4>2
        <5> HIDE DEF f
        <5> QED
          BY <5>1, <5>2
      <4> QED
        BY <4>1, <4>2
    <3> QED
      BY <1>b, <3>1, <3>2
  <2>3. new \in PlayedBy(c)'
    <3>1. f + 1 \in 1..Len(played'[c][p]) /\ (f + 1) - 1 = f
      BY <1>1, <1>5
    <3>2. K(p, (f + 1) - 1, played'[c][p][f + 1]) \in PlayedBy(c)'
      <4> DEFINE i == f + 1
      <4> HIDE DEF i
      <4> QED
        BY <3>1 DEF PlayedBy, i
    <3> QED
      BY <1>5, <3>1, <3>2
  <2> QED
    BY <2>1, <2>2, <2>3
<1> HIDE DEF s
<1>7. ReceivedBy(c)' = { k \in PlayedBy(c)' : owner[k.port] # c /\ k.frame >= delay[k.port] }
                         \union Held(c, queues[c])'
  BY DEF ReceivedBy, Held
<1>8. { k \in PlayedBy(c)' : owner[k.port] # c /\ k.frame >= delay[k.port] }
        = RemotePlayed(c) \union (IF owner[p] # c /\ f >= delay[p] THEN {new} ELSE {})
  BY <1>6 DEF RemotePlayed, K
<1>9. \A x \in Ports : queues'[c][x] = IF x = p THEN r ELSE qs[x]
  BY <1>3
<1> HIDE DEF f
<1>10. CASE owner[p] = c
  <2>1. \A x \in Ports \ LocalPorts(c) : queues'[c][x] = qs[x]
    BY <1>9, <1>10 DEF LocalPorts
  <2>2. Held(c, queues[c])' = Held(c, qs)
    BY <2>1 DEF Held
  <2> QED
    BY <1>3, <1>6, <1>7, <1>8, <1>10, <2>2 DEF f, r, b
<1>11. CASE owner[p] # c
  <2> DEFINE rest == UNION { { K(x, g, qs[x].frame_buttons[g]) : g \in Buffered(qs[x]) }
                             : x \in (Ports \ LocalPorts(c)) \ {p} }
             of(q) == { K(p, g, q.frame_buttons[g]) : g \in Buffered(q) }
  <2>1. p \in Ports \ LocalPorts(c)
    BY <1>11 DEF LocalPorts
  <2>2. Held(c, qs) = rest \union of(qs[p])
    BY <2>1 DEF Held
  <2>3. Held(c, queues[c])' = rest \union of(r)
    BY <1>9, <2>1 DEF Held
  <2>4. of(qs[p]) = of(r) \union (IF f >= delay[p] THEN {new} ELSE {})
    BY <1>1, <1>2, <1>4 DEF K
  <2> HIDE DEF rest, of
  <2>5. ReceivedBy(c)' = RemotePlayed(c) \union Held(c, qs)
    BY <1>7, <1>8, <1>11, <2>2, <2>3, <2>4
  <2> QED
    BY <1>3, <1>6, <2>5 DEF f, r, b
<1> QED
  BY <1>10, <1>11

(***************************************************************************)
(* An event: what the queues of remote ports hold afterwards is what they  *)
(* held and the keys of the event, none of which they had.                 *)
(***************************************************************************)
LEMMA HeldInserted ==
  ASSUME PhaseInv, NEW c \in Clients, NEW keys \in SUBSET incoming[c]
  PROVE  Held(c, Inserted(c, keys)) = Held(c, queues[c]) \union keys
<1>0. LInv /\ keys \subseteq Key
  BY DEF PhaseInv, LInv, TypeOK
<1> DEFINE of(p, q) == { K(p, f, q.frame_buttons[f]) : f \in Buffered(q) }
           own(p) == { k \in keys : k.port = p }
<1>1. ASSUME NEW p \in Ports
      PROVE  of(p, Inserted(c, keys)[p]) = of(p, queues[c][p]) \union own(p)
  <2> DEFINE q == queues[c][p]
             mine == own(p)
             buttons_of == [f \in { k.frame : k \in mine } |->
                              (CHOOSE k \in mine : k.frame = f).buttons]
             r == Inserted(c, keys)[p]
  <2>1. IsQueue(q)
    BY <1>0 DEF LInv, QueueOK
  <2>2. r = InsertAll(q, buttons_of)
    BY DEF Inserted
  <2>3. ASSUME NEW k \in mine
        PROVE  /\ k.frame \in DOMAIN buttons_of
               /\ buttons_of[k.frame] = k.buttons
               /\ k.frame \in Nat /\ k.buttons \in Buttons
               /\ k.frame \notin Buffered(q)
               /\ k = K(p, k.frame, k.buttons)
    <3>1. k \in incoming[c] /\ k \in Key /\ k.port = p
      BY <1>0
    <3>2. \A l \in mine : l.frame = k.frame => l = k
      BY <1>0, <3>1, KeysAreUnique
    <3>3. (CHOOSE l \in mine : l.frame = k.frame) = k
      <4> HIDE DEF mine
      <4> QED
        BY <3>2
    <3>4. k.frame \notin Buffered(q)
      BY <3>1 DEF PhaseInv, KeyIsNew, HasButtons
    <3>5. k.frame \in DOMAIN buttons_of /\ buttons_of[k.frame] = k.buttons
      <4> HIDE DEF mine
      <4> QED
        BY <3>3
    <3> QED
      BY <3>1, <3>4, <3>5 DEF Key, K
  <2>4. \A f \in DOMAIN buttons_of : \E k \in mine : k.frame = f
    OBVIOUS
  <2> HIDE DEF buttons_of, mine
  <2>5. /\ Buffered(r) = Buffered(q) \union DOMAIN buttons_of
        /\ \A f \in Buffered(r) :
              r.frame_buttons[f] = IF f \in DOMAIN buttons_of THEN buttons_of[f]
                                   ELSE q.frame_buttons[f]
    <3>1. /\ DOMAIN buttons_of \subseteq Nat
          /\ \A f \in DOMAIN buttons_of : buttons_of[f] \in Buttons
      BY <2>3, <2>4
    <3> HIDE DEF q
    <3> QED
      BY <2>1, <2>2, <3>1, InsertAllLemma
  <2> HIDE DEF q, r
  <2>6. ASSUME NEW x \in of(p, r) PROVE x \in of(p, q) \union mine
    <3>1. PICK f \in Buffered(r) : x = K(p, f, r.frame_buttons[f])
      BY <2>6
    <3>2. CASE f \in DOMAIN buttons_of
      BY <2>3, <2>4, <2>5, <3>1, <3>2
    <3>3. CASE f \notin DOMAIN buttons_of
      BY <2>5, <3>1, <3>3
    <3> QED
      BY <3>2, <3>3
  <2>7. ASSUME NEW x \in of(p, q) PROVE x \in of(p, r)
    <3>1. PICK f \in Buffered(q) : x = K(p, f, q.frame_buttons[f])
      BY <2>7
    <3>2. f \notin DOMAIN buttons_of
      BY <2>3, <2>4
    <3> QED
      BY <2>5, <3>1, <3>2
  <2>8. ASSUME NEW x \in mine PROVE x \in of(p, r)
    BY <2>3, <2>5, <2>8
  <2>9. of(p, r) = of(p, q) \union mine
    BY <2>6, <2>7, <2>8
  <2> QED
    BY <2>9 DEF q, r, mine
<1>2. \A k \in keys : k.port \in Ports \ LocalPorts(c)
  BY <1>0 DEF PhaseInv, KeyIsNew, Key, LocalPorts
<1>3. keys = UNION { own(p) : p \in Ports \ LocalPorts(c) }
  BY <1>2
<1>4. \A qs : Held(c, qs) = UNION { of(p, qs[p]) : p \in Ports \ LocalPorts(c) }
  BY DEF Held
<1> HIDE DEF of, own
<1>5. UNION { of(p, Inserted(c, keys)[p]) : p \in Ports \ LocalPorts(c) }
        = (UNION { of(p, queues[c][p]) : p \in Ports \ LocalPorts(c) })
          \union UNION { own(p) : p \in Ports \ LocalPorts(c) }
  BY <1>1
<1> QED
  BY <1>3, <1>4, <1>5

(***************************************************************************)
(* A get of the game is GetButtons of the handler, with the same early     *)
(* returns (event-stream-handler.hpp:273-352).                             *)
(***************************************************************************)
LEMMA GetIsGet ==
  ASSUME HandlersInv, NEW c \in Clients, NEW p \in Ports, GetButtons(c, p), sent' = sent
  PROVE  Handler(c)!GetButtons(p, frame[c])
<1> DEFINE f == frame[c]
           q == queues[c][p]
<1>0. PhaseInv /\ LInv
  BY DEF HandlersInv, WaitInv, PhaseInv
<1>1. /\ f \in Nat
      /\ reading \in [Clients -> SUBSET Ports]
      /\ DOMAIN queues[c] = Ports
      /\ \A x \in Ports : QueueOK(c, x, queues[c][x])
  BY <1>0 DEF LInv, TypeOK
<1>2. reading[c] = {} /\ p \in pending[c] /\ UNCHANGED <<up, incoming, inputs>>
  BY DEF GetButtons, Free
<1>3. f = ExpectedFrame(q) /\ (owner[p] = c => Ready(q, f))
  BY <1>0, <1>2, PendingIsExpected
<1>4. CallOf(c) = Handler(c)!Idle /\ Handler(c)!Connected(p)
  BY <1>1, <1>2 DEF CallOf, Handler!Idle, Handler!Connected
<1>5. PutBy(c)' = PutBy(c) /\ sent'[c] = sent[c]
  BY <1>2 DEF PutBy
<1>6. CASE Ready(q, f) /\ Play(c, p, queues[c]) /\ UNCHANGED <<reading, stopped>>
  <2>1. /\ queues'[c] = [queues[c] EXCEPT ![p] = Advance(q, f)]
        /\ PlayedBy(c)' = PlayedBy(c) \union {K(p, f, Answer(q, f))}
        /\ ReceivedBy(c)' = RemotePlayed(c) \union Held(c, queues[c])
    BY <1>0, <1>1, <1>6, PlayHistories
  <2>2. ReceivedBy(c)' = ReceivedBy(c)
    BY <2>1 DEF ReceivedBy, RemotePlayed, Held
  <2>3. CallOf(c)' = CallOf(c) /\ StreamOf(c)' = StreamOf(c)
    BY <1>2, <1>6 DEF CallOf, StreamOf
  <2>4. Handler(c)!Play(queues[c], p, f)
    BY <2>1, SameQueues DEF Handler!Play, K
  <2> HIDE DEF f, q
  <2> QED
    BY <1>4, <1>5, <1>6, <2>2, <2>3, <2>4, SameQueues DEF Handler!GetButtons, f, q
<1>7. CASE /\ ~Ready(q, f)
           /\ owner[p] # c
           /\ reading' = [reading EXCEPT ![c] = {p}]
           /\ UNCHANGED <<frame, pending, queues, played, stopped>>
  <2>1. reading'[c] = {p}
    BY <1>1, <1>7
  <2>2. CallOf(c)' = [at |-> "reading", port |-> p, frame |-> f]
    BY <1>7, <2>1 DEF CallOf
  <2>3. StreamOf(c)' = StreamOf(c) /\ PlayedBy(c)' = PlayedBy(c)
    BY <1>2, <1>7 DEF StreamOf, PlayedBy
  <2>4. ReceivedBy(c)' = ReceivedBy(c)
    BY <1>7, <2>3 DEF ReceivedBy
  <2>5. p \notin LocalPorts(c)
    BY <1>7 DEF LocalPorts
  <2> QED
    BY <1>3, <1>4, <1>5, <1>7, <2>2, <2>3, <2>4, <2>5, SameQueues
       DEF Handler!GetButtons, Handler!Local
<1>8. CASE ~Ready(q, f) /\ (owner[p] = c \/ f # ExpectedFrame(q))
  BY <1>3, <1>8
<1> QED
  BY <1>6, <1>7, <1>8 DEF GetButtons

(***************************************************************************)
(* A loop that stops at the first element that is not OK runs to the end   *)
(* when all are.                                                           *)
(***************************************************************************)
LEMMA AllPassed ==
  ASSUME NEW c \in Clients, NEW s, Len(s) \in Nat, NEW ok, 1..Len(s) \subseteq ok
  PROVE  Handler(c)!Passed(s, ok) = Len(s)
<1> DEFINE n == Len(s)
           Good(m) == 1..m \subseteq ok /\ (m < n => m + 1 \notin ok)
<1> HIDE DEF n
<1>1. n \in Nat /\ n \in 0..n /\ 1..n \subseteq ok
  BY DEF n
<1>2. Good(n)
  BY <1>1
<1>3. \A m \in 0..n : Good(m) => m = n
  <2> SUFFICES ASSUME NEW m \in 0..n, Good(m), m # n PROVE FALSE
    OBVIOUS
  <2>1. m < n /\ m + 1 \in 1..n
    BY <1>1
  <2> QED
    BY <1>1, <2>1
<1> HIDE DEF Good
<1>4. (CHOOSE m \in 0..n : Good(m)) = n
  BY <1>1, <1>2, <1>3
<1> QED
  BY <1>4 DEF Handler!Passed, n, Good

(***************************************************************************)
(* An event read by a game is ReadKeys of the handler: it passes all keys  *)
(* of the event, in whatever order SetToSeq has them, and finds the        *)
(* requested one just if the queue is ready then (event-stream-            *)
(* handler.hpp:366-416).                                                   *)
(***************************************************************************)
LEMMA ReadIsRead ==
  ASSUME HandlersInv, NEW c \in Clients, NEW p \in Ports, NEW keys \in SUBSET incoming[c],
         ReadKeys(c, p, keys), sent' = sent
  PROVE  Handler(c)!ReadKeys(KeyEvent(keys))
<1> DEFINE f == frame[c]
           s == SetToSeq(keys)
           n == Len(s)
           qs == Inserted(c, keys)
           event == KeyEvent(keys)
<1>0. PhaseInv /\ LInv /\ ReadsMissing
  BY DEF HandlersInv, WaitInv, PhaseInv
<1>1. /\ f \in Nat
      /\ reading \in [Clients -> SUBSET Ports]
      /\ c \in DOMAIN queues /\ DOMAIN queues[c] = Ports
      /\ \A x \in Ports : QueueOK(c, x, queues[c][x])
      /\ keys \subseteq Key
  BY <1>0 DEF LInv, TypeOK
<1>2. reading[c] = {p} /\ p \in pending[c] /\ UNCHANGED <<up, inputs>>
  BY <1>0 DEF ReadKeys, ReadsMissing, PhaseInv
<1>a. IsFiniteSet(incoming[c]) /\ ~stopped[c]
  <2>1. IsFiniteSet(incoming[c]) /\ (stopped[c] => reading[c] = {})
    BY DEF HandlersInv
  <2>2. reading[c] # {}
    BY <1>2
  <2> QED
    BY <2>1, <2>2
<1>3. /\ f = ExpectedFrame(queues[c][p])
      /\ ~Ready(queues[c][p], f)
  BY <1>0, <1>2, PendingIsExpected DEF ReadsMissing
<1>4. AllAccepted(c, keys)
  BY <1>0, KeysAreAccepted
<1>5. /\ n \in Nat
      /\ \A i \in 1..n : s[i] \in keys
      /\ \A k \in keys : \E i \in 1..n : s[i] = k
      /\ \A i, j \in 1..n : s[i] = s[j] => i = j
  <2>1. IsFiniteSet(keys)
    BY <1>a, FS_Subset
  <2> QED
    BY <2>1, SeqOfSet
<1>6. \A k \in keys : /\ k.port \in Ports /\ k.buttons \in Buttons /\ k.frame \in Nat
                      /\ queues[c][k.port].delay_frames = 0
                      /\ k = [port |-> k.port, frame |-> k.frame, buttons |-> k.buttons]
  BY <1>0, <1>1 DEF Key, PhaseInv, KeyIsNew, QueueOK
<1>7. /\ event.has_stop_console = FALSE
      /\ event.has_start_game = FALSE
      /\ event.has_invalid_data = FALSE
      /\ event.key_press = s
  BY DEF KeyEvent
<1>8. CallOf(c).at = "reading" /\ CallOf(c).port = p /\ CallOf(c).frame = f
  BY <1>2 DEF CallOf
<1> SUFFICES Handler(c)!ReadKeys(event)
  OBVIOUS
<1> HIDE DEF s, n, qs, event, f
<1>9. ASSUME NEW i \in 1..n PROVE Handler(c)!KeyOK(s, i)
  <2>1. s[i] \in keys
    BY <1>5
  <2>2. Accepts(queues[c][s[i].port], s[i].frame)
    BY <1>4, <2>1 DEF AllAccepted
  <2>3. ASSUME NEW j \in 1..(i - 1)
        PROVE  s[j].port # s[i].port \/ s[j].frame # s[i].frame
    <3>1. j \in 1..n /\ j # i
      BY <1>5
    <3>2. s[j] # s[i] /\ s[j] \in keys
      BY <1>5, <3>1
    <3> QED
      BY <1>4, <2>1, <3>2 DEF AllAccepted
  <2>4. Handler(c)!PutOK(s, i)
    BY <2>2, <2>3, SameQueues DEF Handler!PutOK
  <2> QED
    BY <1>1, <1>6, <2>1, <2>4, GarbageAssumption DEF Handler!KeyOK, Handler!Connected
<1>10. Handler(c)!Passed(s, { i \in 1..n : Handler(c)!KeyOK(s, i) }) = n
  BY <1>5, <1>9, AllPassed DEF n
<1>11. { s[i] : i \in 1..n } = keys
  BY <1>5
<1>12. Handler(c)!AsKeys(s, 1..n) = keys
  <2>1. ASSUME NEW i \in 1..n
        PROVE  [s[i] EXCEPT !.frame =
                  Handler(c)!DelayedFrame(queues[c][s[i].port], s[i].frame)] = s[i]
    <3>1. s[i] \in keys
      BY <1>5
    <3>2. DelayedFrame(queues[c][s[i].port], s[i].frame) = s[i].frame
      BY <1>6, <3>1 DEF DelayedFrame
    <3> QED
      BY <1>6, <3>1, <3>2, SameQueues
  <2>2. Handler(c)!AsKeys(s, 1..n) = { s[i] : i \in 1..n }
    BY <2>1 DEF Handler!AsKeys
  <2> QED
    BY <1>11, <2>2
<1>13. Handler(c)!Inserted(keys) = qs
  BY <1>1, SameInserted DEF qs
<1>14. Handler(c)!Found(s, n) <=> Brings(keys, p, f)
  BY <1>5, <1>8 DEF Handler!Found, Brings
<1>15. /\ DOMAIN qs = Ports
       /\ \A x \in Ports : QueueOK(c, x, qs[x])
       /\ Held(c, qs) = Held(c, queues[c]) \union keys
  BY <1>0, InsertedLemma, HeldInserted DEF qs, Inserted
<1>16. Ready(qs[p], f) <=> Brings(keys, p, f)
  <2>1. /\ qs[p].latest_frame_requested = queues[c][p].latest_frame_requested
        /\ qs[p].initial_frame_delay = queues[c][p].initial_frame_delay
        /\ f \in Buffered(qs[p]) <=> f \in Buffered(queues[c][p]) \/ Brings(keys, p, f)
    BY <1>0, InsertedShape DEF qs
  <2> QED
    BY <1>3, <2>1 DEF Ready, ExpectedFrame, InInitialDelay, HasButtons
<1>17. PutBy(c)' = PutBy(c) /\ sent'[c] = sent[c]
  BY <1>2 DEF PutBy
<1>18. StreamOf(c) \in {"open", "broken"}
  BY <1>a DEF StreamOf
<1> DEFINE ks == event.key_press
           m == Handler(c)!Passed(ks, { i \in 1..Len(ks) : Handler(c)!KeyOK(ks, i) })
<1>21. ks = s /\ m = n
  <2>1. { i \in 1..Len(ks) : Handler(c)!KeyOK(ks, i) } = { i \in 1..n : Handler(c)!KeyOK(s, i) }
    BY <1>7 DEF n
  <2> QED
    BY <1>7, <1>10, <2>1
<1>22. /\ Handler(c)!Inserted(Handler(c)!AsKeys(ks, 1..m)) = qs
       /\ { ks[i] : i \in 1..m } = keys
       /\ Handler(c)!Found(ks, m) <=> Brings(keys, p, f)
       /\ m = Len(ks)
  BY <1>11, <1>12, <1>13, <1>14, <1>21 DEF n
<1>19. CASE Ready(qs[p], f) /\ Play(c, p, qs) /\ reading' = [reading EXCEPT ![c] = {}] /\
            UNCHANGED stopped
  <2>1. /\ queues'[c] = [qs EXCEPT ![p] = Advance(qs[p], f)]
        /\ PlayedBy(c)' = PlayedBy(c) \union {K(p, f, Answer(qs[p], f))}
        /\ ReceivedBy(c)' = RemotePlayed(c) \union Held(c, qs)
    BY <1>0, <1>15, <1>19, PlayHistories DEF f
  <2>2. ReceivedBy(c)' = ReceivedBy(c) \union keys
    BY <1>15, <2>1 DEF ReceivedBy, RemotePlayed, Held
  <2>3. CallOf(c)' = Handler(c)!Idle /\ StreamOf(c)' = StreamOf(c)
    BY <1>1, <1>2, <1>19 DEF CallOf, StreamOf, Handler!Idle
  <2>4. Handler(c)!Play(qs, p, f)
    <3>1. /\ Handler(c)!Advance(qs[p], f) = Advance(qs[p], f)
          /\ Handler(c)!Answer(qs[p], f) = Answer(qs[p], f)
      BY SameQueues
    <3> QED
      BY <2>1, <3>1 DEF Handler!Play, K
  <2>5. Handler(c)!Ready(qs[p], f)
    BY <1>19, SameQueues
  <2> QED
    BY <1>7, <1>8, <1>16, <1>17, <1>18, <1>19, <1>22,
       <2>2, <2>3, <2>4, <2>5 DEF Handler!ReadKeys
<1>20. CASE /\ ~Ready(qs[p], f)
            /\ queues' = [queues EXCEPT ![c] = qs]
            /\ UNCHANGED <<frame, pending, reading, played, stopped>>
  <2>1. queues'[c] = qs
    BY <1>1, <1>20
  <2>2. CallOf(c)' = CallOf(c) /\ StreamOf(c)' = StreamOf(c) /\ PlayedBy(c)' = PlayedBy(c)
    BY <1>2, <1>20 DEF CallOf, StreamOf, PlayedBy
  <2>3. ReceivedBy(c)' = RemotePlayed(c) \union Held(c, qs)
    BY <2>1, <2>2 DEF ReceivedBy, RemotePlayed, Held
  <2>4. ReceivedBy(c)' = ReceivedBy(c) \union keys
    BY <1>15, <2>3 DEF ReceivedBy, RemotePlayed, Held
  <2> QED
    BY <1>7, <1>8, <1>16, <1>17, <1>18, <1>20, <1>22,
       <2>1, <2>2, <2>4 DEF Handler!ReadKeys
<1> QED
  BY <1>4, <1>19, <1>20 DEF ReadKeys, qs, f

(***************************************************************************)
(* What the handler of c has put, key by key.                              *)
(***************************************************************************)
LEMMA PutByIs ==
  ASSUME NEW c \in Clients
  PROVE  /\ \A k : k \in PutBy(c) <=>
               \E p \in LocalPorts(c) : \E g \in DOMAIN inputs[p] \ 0..(delay[p] - 1) :
                  k = K(p, g, inputs[p][g])
         /\ \A k : k \in PutBy(c)' <=>
               \E p \in LocalPorts(c) : \E g \in DOMAIN inputs'[p] \ 0..(delay[p] - 1) :
                  k = K(p, g, inputs'[p][g])
<1>1. \A k : k \in PutBy(c) <=>
         \E p \in LocalPorts(c) : \E g \in DOMAIN inputs[p] \ 0..(delay[p] - 1) :
            k = K(p, g, inputs[p][g])
  BY DEF PutBy
<1>2. PutBy(c)' =
        UNION { { K(p, g, inputs'[p][g]) : g \in DOMAIN inputs'[p] \ 0..(delay[p] - 1) }
                : p \in LocalPorts(c) }
  BY DEF PutBy, LocalPorts
<1>3. \A k : k \in PutBy(c)' <=>
         \E p \in LocalPorts(c) : \E g \in DOMAIN inputs'[p] \ 0..(delay[p] - 1) :
            k = K(p, g, inputs'[p][g])
  BY <1>2
<1> QED
  BY <1>1, <1>3

(***************************************************************************)
(* A put adds to what was put just the keys that go out, and they are new. *)
(***************************************************************************)
LEMMA PutHistories ==
  ASSUME LInv, NEW c \in Clients, NEW buttons \in [LocalPorts(c) -> Buttons],
         \A p \in LocalPorts(c) : Accepts(queues[c][p], frame[c]),
         \A p \in LocalPorts(c) :
            /\ DOMAIN inputs'[p] = DOMAIN inputs[p] \union {frame[c] + delay[p]}
            /\ inputs'[p][frame[c] + delay[p]] = buttons[p]
            /\ \A g \in DOMAIN inputs[p] \ {frame[c] + delay[p]} : inputs'[p][g] = inputs[p][g]
  PROVE  /\ PutBy(c)' = PutBy(c) \union OutgoingKeys(c, buttons)
         /\ PutBy(c) \intersect OutgoingKeys(c, buttons) = {}
<1> DEFINE f == frame[c]
<1>1. f \in Nat
  BY DEF LInv, TypeOK
<1>2. \A p \in LocalPorts(c) :
         /\ p \in Ports /\ owner[p] = c /\ delay[p] \in Nat
         /\ f + delay[p] \in Nat
         /\ f + delay[p] \notin 0..(delay[p] - 1)
         /\ f + delay[p] \notin DOMAIN inputs[p]
  <2> SUFFICES ASSUME NEW p \in LocalPorts(c)
               PROVE  /\ p \in Ports /\ owner[p] = c /\ delay[p] \in Nat
                      /\ f + delay[p] \in Nat
                      /\ f + delay[p] \notin 0..(delay[p] - 1)
                      /\ f + delay[p] \notin DOMAIN inputs[p]
    OBVIOUS
  <2>1. p \in Ports /\ owner[p] = c /\ delay[p] \in Nat
    BY DEF LocalPorts
  <2> QED
    BY <1>1, <2>1, PutIsNew
<1>3. \A k : k \in PutBy(c) <=>
         \E p \in LocalPorts(c) : \E g \in DOMAIN inputs[p] \ 0..(delay[p] - 1) :
            k = K(p, g, inputs[p][g])
  BY PutByIs
<1>4. \A k : k \in PutBy(c)' <=>
         \E p \in LocalPorts(c) : \E g \in DOMAIN inputs'[p] \ 0..(delay[p] - 1) :
            k = K(p, g, inputs'[p][g])
  BY PutByIs
<1>5. \A k : k \in OutgoingKeys(c, buttons) <=>
         \E p \in LocalPorts(c) : k = K(p, f + delay[p], buttons[p])
  BY DEF OutgoingKeys, K
<1>6. \A p \in LocalPorts(c) :
         /\ DOMAIN inputs'[p] = DOMAIN inputs[p] \union {f + delay[p]}
         /\ inputs'[p][f + delay[p]] = buttons[p]
         /\ \A g \in DOMAIN inputs[p] : inputs'[p][g] = inputs[p][g]
  BY <1>2
<1> HIDE DEF f
<1>7. PutBy(c)' \subseteq PutBy(c) \union OutgoingKeys(c, buttons)
  <2> SUFFICES ASSUME NEW k \in PutBy(c)', k \notin PutBy(c)
               PROVE  k \in OutgoingKeys(c, buttons)
    OBVIOUS
  <2>1. PICK p \in LocalPorts(c) : \E g \in DOMAIN inputs'[p] \ 0..(delay[p] - 1) :
                                      k = K(p, g, inputs'[p][g])
    BY <1>4
  <2>2. PICK g \in DOMAIN inputs'[p] \ 0..(delay[p] - 1) : k = K(p, g, inputs'[p][g])
    BY <2>1
  <2>3. g \notin DOMAIN inputs[p]
    BY <1>3, <1>6, <2>2
  <2>4. g = f + delay[p]
    BY <1>6, <2>3
  <2> QED
    BY <1>5, <1>6, <2>2, <2>4
<1>8. PutBy(c) \subseteq PutBy(c)' /\ OutgoingKeys(c, buttons) \subseteq PutBy(c)'
  <2>1. ASSUME NEW k \in PutBy(c) PROVE k \in PutBy(c)'
    <3>1. PICK p \in LocalPorts(c) : \E g \in DOMAIN inputs[p] \ 0..(delay[p] - 1) :
                                        k = K(p, g, inputs[p][g])
      BY <1>3, <2>1
    <3>2. PICK g \in DOMAIN inputs[p] \ 0..(delay[p] - 1) : k = K(p, g, inputs[p][g])
      BY <3>1
    <3>3. g \in DOMAIN inputs'[p] \ 0..(delay[p] - 1) /\ k = K(p, g, inputs'[p][g])
      BY <1>6, <3>2
    <3> QED
      BY <1>4, <3>3
  <2>2. ASSUME NEW k \in OutgoingKeys(c, buttons) PROVE k \in PutBy(c)'
    <3>1. PICK p \in LocalPorts(c) : k = K(p, f + delay[p], buttons[p])
      BY <1>5, <2>2
    <3> DEFINE e == f + delay[p]
    <3>2. e \in DOMAIN inputs'[p] \ 0..(delay[p] - 1) /\ k = K(p, e, inputs'[p][e])
      BY <1>2, <1>6, <3>1
    <3> HIDE DEF e
    <3> QED
      BY <1>4, <3>2
  <2> QED
    BY <2>1, <2>2
<1>9. PutBy(c) \intersect OutgoingKeys(c, buttons) = {}
  <2> SUFFICES ASSUME NEW k \in PutBy(c), k \in OutgoingKeys(c, buttons) PROVE FALSE
    OBVIOUS
  <2>1. PICK p \in LocalPorts(c) : \E g \in DOMAIN inputs[p] : k = K(p, g, inputs[p][g])
    BY <1>3
  <2>2. PICK x \in LocalPorts(c) : k = K(x, f + delay[x], buttons[x])
    BY <1>5
  <2>3. k.port = p /\ k.port = x /\ k.frame \in DOMAIN inputs[p] /\ k.frame = f + delay[x]
    BY <2>1, <2>2 DEF K
  <2> QED
    BY <1>2, <2>3
<1> QED
  BY <1>7, <1>8, <1>9

(***************************************************************************)
(* A put of the game is PutButtons of the handler: all local ports are     *)
(* queued and attached, and the keys written are those of the event, or    *)
(* the write fails (event-stream-handler.hpp:197-268).                     *)
(***************************************************************************)
LEMMA PutIsPut ==
  ASSUME HandlersInv, NEW c \in Clients, NEW buttons \in [LocalPorts(c) -> Buttons],
         PutAndWrite(c, buttons)
  PROVE  Handler(c)!PutButtons(Batch(c, frame[c], buttons))
<1> DEFINE f == frame[c]
           keys == OutgoingKeys(c, buttons)
           tuples == { K(p, f, buttons[p]) : p \in LocalPorts(c) }
           b == Batch(c, f, buttons)
           n == Len(b)
<1>0. PhaseInv /\ LInv
  BY DEF HandlersInv, WaitInv, PhaseInv
<1>1. /\ f \in Nat
      /\ sent[c] \subseteq PutBy(c)
      /\ DOMAIN queues = Clients /\ DOMAIN queues[c] = Ports
      /\ \A x \in Ports : QueueOK(c, x, queues[c][x])
  BY <1>0 DEF LInv, TypeOK, HandlersInv
<1>2. /\ reading[c] = {} /\ pending[c] = {} /\ ~stopped[c]
      /\ UNCHANGED <<frame, reading, up, played>>
  BY DEF PutAndWrite, PutButtons, Free
<1>3. \A p \in LocalPorts(c) :
         /\ p \in Ports /\ owner[p] = c /\ delay[p] \in Nat
         /\ buttons[p] \in Buttons
         /\ Accepts(queues[c][p], f)
         /\ IsQueue(queues[c][p])
         /\ queues[c][p].delay_frames = delay[p]
  BY <1>0, <1>1, <1>2, PutsAreAccepted DEF LocalPorts, QueueOK
<1>4. /\ queues' = [queues EXCEPT ![c] =
           [p \in Ports |->
              IF p \in LocalPorts(c)
              THEN Insert(queues[c][p], f, buttons[p]) ELSE queues[c][p]]]
      /\ inputs' =
           [p \in Ports |->
              IF p \in LocalPorts(c)
              THEN [g \in DOMAIN inputs[p] \union {f + delay[p]} |->
                      IF g = f + delay[p] THEN buttons[p] ELSE inputs[p][g]]
              ELSE inputs[p]]
      /\ stopped' = stopped
  BY <1>3 DEF PutAndWrite, PutButtons
<1>5. sent' = IF up[c] THEN [sent EXCEPT ![c] = @ \union keys] ELSE sent
  BY <1>2, <1>4 DEF PutAndWrite
<1>6. /\ PutBy(c)' = PutBy(c) \union keys
      /\ PutBy(c) \intersect keys = {}
  <2>1. \A p \in LocalPorts(c) :
           inputs'[p] = [g \in DOMAIN inputs[p] \union {f + delay[p]} |->
                           IF g = f + delay[p] THEN buttons[p] ELSE inputs[p][g]]
    BY <1>3, <1>4
  <2>2. \A p \in LocalPorts(c) :
           /\ DOMAIN inputs'[p] = DOMAIN inputs[p] \union {f + delay[p]}
           /\ inputs'[p][f + delay[p]] = buttons[p]
           /\ \A g \in DOMAIN inputs[p] \ {f + delay[p]} : inputs'[p][g] = inputs[p][g]
    BY <2>1
  <2> QED
    BY <1>0, <1>3, <2>2, PutHistories
<1>7. /\ n \in Nat
      /\ \A i \in 1..n : b[i] \in tuples
      /\ \A k \in tuples : \E i \in 1..n : b[i] = k
      /\ \A i, j \in 1..n : b[i] = b[j] => i = j
  <2>1. IsFiniteSet(tuples)
    <3>1. IsFiniteSet(LocalPorts(c))
      BY FinitePortsAssumption, FS_Subset DEF LocalPorts
    <3> DEFINE g == [p \in LocalPorts(c) |-> K(p, f, buttons[p])]
    <3>2. g \in Surjection(LocalPorts(c), tuples)
      BY DEF Surjection
    <3> HIDE DEF g, tuples
    <3> QED
      BY <3>1, <3>2, FS_Surjection
  <2> HIDE DEF tuples
  <2>2. b = SetToSeq(tuples)
    BY DEF Batch, tuples
  <2> QED
    BY <2>1, <2>2, SeqOfSet
<1> SUFFICES Handler(c)!PutButtons(b)
  OBVIOUS
<1> HIDE DEF f, b, n
<1>8. ASSUME NEW i \in 1..n
      PROVE  /\ b[i].port \in LocalPorts(c)
             /\ b[i] = K(b[i].port, f, buttons[b[i].port])
             /\ b[i].frame = f
             /\ b[i].buttons = buttons[b[i].port]
  <2>1. PICK p \in LocalPorts(c) : b[i] = K(p, f, buttons[p])
    BY <1>7
  <2> QED
    BY <2>1 DEF K
<1>9. \A p \in LocalPorts(c) : \E i \in 1..n : b[i] = K(p, f, buttons[p])
  BY <1>7
<1> HIDE DEF tuples
<1>10. ASSUME NEW i \in 1..n
       PROVE  /\ Handler(c)!Queued(b, i)
              /\ Handler(c)!Attached(b, i)
              /\ Handler(c)!Local(b[i].port)
              /\ Handler(c)!DelayFramesForPort(b[i].port) = delay[b[i].port]
              /\ Handler(c)!DelayedFrame(queues[c][b[i].port], b[i].frame)
                   = f + delay[b[i].port]
  <2>1. /\ b[i].port \in LocalPorts(c) /\ b[i].frame = f
        /\ b[i].buttons = buttons[b[i].port]
    BY <1>8
  <2>2. ASSUME NEW j \in 1..(i - 1) PROVE b[j].port # b[i].port
    <3>1. j \in 1..n /\ j # i
      BY <1>7
    <3>2. b[j] # b[i]
      BY <1>7, <3>1
    <3> QED
      BY <1>8, <3>1, <3>2
  <2>3. Handler(c)!Connected(b[i].port) /\ Handler(c)!Local(b[i].port)
    BY <1>1, <1>3, <2>1 DEF Handler!Connected, Handler!Local
  <2>4. Handler(c)!Accepts(queues[c][b[i].port], b[i].frame)
    BY <1>3, <2>1, SameQueues
  <2>5. Handler(c)!Queued(b, i)
    BY <2>2, <2>3, <2>4 DEF Handler!Queued, Handler!PutOK
  <2>6. Handler(c)!DelayFramesForPort(b[i].port) = delay[b[i].port]
    BY <1>3, <2>1, <2>3 DEF Handler!DelayFramesForPort
  <2>7. Handler(c)!Attached(b, i)
    BY <1>3, <2>1, <2>6 DEF Handler!Attached
  <2>8. Handler(c)!DelayedFrame(queues[c][b[i].port], b[i].frame) = f + delay[b[i].port]
    BY <1>3, <2>1, SameQueues DEF DelayedFrame
  <2> QED
    BY <2>3, <2>5, <2>6, <2>7, <2>8
<1>11. /\ { [b[i] EXCEPT !.frame = f + delay[b[i].port]] : i \in 1..n } = keys
       /\ { [b[i] EXCEPT !.frame = @ + delay[b[i].port]] : i \in 1..n } = keys
  <2>1. ASSUME NEW i \in 1..n
        PROVE  LET k == [port |-> b[i].port, frame |-> f + delay[b[i].port],
                         buttons |-> buttons[b[i].port]]
               IN  /\ [b[i] EXCEPT !.frame = f + delay[b[i].port]] = k
                   /\ [b[i] EXCEPT !.frame = @ + delay[b[i].port]] = k
    <3> DEFINE x == b[i]
               p == b[i].port
               e == f + delay[b[i].port]
               v == buttons[b[i].port]
    <3>1. x = [port |-> p, frame |-> f, buttons |-> v] /\ x.frame + delay[p] = e
      BY <1>8 DEF K
    <3> HIDE DEF x, p, e, v
    <3>2. [x EXCEPT !.frame = e] = [port |-> p, frame |-> e, buttons |-> v]
      BY <3>1
    <3>3. [x EXCEPT !.frame = @ + delay[p]] = [port |-> p, frame |-> e, buttons |-> v]
      BY <3>1
    <3> QED
      BY <3>2, <3>3 DEF x, p, e, v
  <2>2. keys = { [port |-> b[i].port, frame |-> f + delay[b[i].port],
                  buttons |-> buttons[b[i].port]] : i \in 1..n }
    <3>1. \A p \in LocalPorts(c) : \E i \in 1..n : b[i].port = p
      <4>1. \A p : K(p, f, buttons[p]).port = p
        BY DEF K
      <4> QED
        BY <1>9, <4>1
    <3>2. \A i \in 1..n : b[i].port \in LocalPorts(c)
      BY <1>8
    <3> QED
      BY <3>1, <3>2 DEF OutgoingKeys, f
  <2> DEFINE key(i) == [port |-> b[i].port, frame |-> f + delay[b[i].port],
                        buttons |-> buttons[b[i].port]]
  <2>3. \A i \in 1..n : /\ [b[i] EXCEPT !.frame = f + delay[b[i].port]] = key(i)
                        /\ [b[i] EXCEPT !.frame = @ + delay[b[i].port]] = key(i)
    BY <2>1
  <2>4. keys = { key(i) : i \in 1..n }
    BY <2>2
  <2> HIDE DEF keys, key
  <2>5. { [b[i] EXCEPT !.frame = f + delay[b[i].port]] : i \in 1..n } = keys
    BY <2>3, <2>4
  <2>6. { [b[i] EXCEPT !.frame = @ + delay[b[i].port]] : i \in 1..n } = keys
    BY <2>3, <2>4
  <2> QED
    BY <2>5, <2>6
<1>12. Handler(c)!AsKeys(b, 1..n) = keys
  BY <1>10, <1>11 DEF Handler!AsKeys
<1>13. Handler(c)!Outgoing(b) = keys
  <2>1. { j \in 1..Len(b) : Handler(c)!Local(b[j].port) } = 1..n
    BY <1>10 DEF n
  <2> HIDE DEF keys
  <2> QED
    BY <1>10, <1>11, <2>1 DEF Handler!Outgoing
<1>14. Handler(c)!Passed(b, { i \in 1..Len(b) : Handler(c)!Queued(b, i) /\
                                                 Handler(c)!Attached(b, i) }) = Len(b)
  <2> DEFINE ok == { i \in 1..Len(b) : Handler(c)!Queued(b, i) /\ Handler(c)!Attached(b, i) }
  <2>1. Len(b) \in Nat /\ 1..Len(b) \subseteq ok
    BY <1>7, <1>10 DEF n
  <2> HIDE DEF ok
  <2>2. Handler(c)!Passed(b, ok) = Len(b)
    BY <2>1, AllPassed
  <2> QED
    BY <2>2 DEF ok
<1>15. Handler(c)!Inserted(keys) = queues'[c]
  <2> DEFINE own(p) == { k \in keys : k.port = p }
             buttons_of(p) == [g \in { k.frame : k \in own(p) } |->
                                 (CHOOSE k \in own(p) : k.frame = g).buttons]
  <2>1. ASSUME NEW p \in Ports PROVE InsertAll(queues[c][p], buttons_of(p)) = queues'[c][p]
    <3>1. CASE p \in LocalPorts(c)
      <4> DEFINE e == f + delay[p]
                 q == queues[c][p]
                 k0 == [port |-> p, frame |-> e, buttons |-> buttons[p]]
      <4>1. own(p) = {k0}
        BY <3>1 DEF OutgoingKeys, f
      <4>2. buttons_of(p) = [g \in {e} |-> buttons[p]]
        <5> DEFINE o == own(p)
        <5>1. o = {k0} /\ k0.frame = e /\ k0.buttons = buttons[p]
          BY <4>1
        <5> HIDE DEF o, k0
        <5>2. { k.frame : k \in o } = {e} /\ (CHOOSE k \in o : k.frame = e) = k0
          BY <5>1
        <5>3. [g \in { k.frame : k \in o } |-> (CHOOSE k \in o : k.frame = g).buttons]
                = [g \in {e} |-> buttons[p]]
          BY <5>1, <5>2
        <5> QED
          BY <5>3 DEF o
      <4>3. queues'[c][p] = Insert(q, f, buttons[p]) /\ DelayedFrame(q, f) = e
        BY <1>1, <1>3, <1>4, <3>1 DEF DelayedFrame
      <4>4. InsertAll(q, [g \in {e} |-> buttons[p]]) = Insert(q, f, buttons[p])
        <5> HIDE DEF e, q
        <5>1. [g \in Buffered(q) \union {e} |->
                 IF g \in {e} THEN [h \in {e} |-> buttons[p]][g] ELSE q.frame_buttons[g]]
                = [g \in Buffered(q) \union {e} |->
                     IF g = e THEN buttons[p] ELSE q.frame_buttons[g]]
          OBVIOUS
        <5> QED
          BY <4>3, <5>1 DEF InsertAll, Insert
      <4> HIDE DEF buttons_of
      <4> QED
        BY <4>2, <4>3, <4>4
    <3>2. CASE p \notin LocalPorts(c)
      <4> DEFINE q == queues[c][p]
      <4>1. own(p) = {}
        BY <3>2 DEF OutgoingKeys
      <4>2. DOMAIN buttons_of(p) = {}
        BY <4>1
      <4>3. queues'[c][p] = q /\ IsQueue(q)
        BY <1>1, <1>4, <3>2 DEF QueueOK
      <4> HIDE DEF buttons_of, q
      <4>4. InsertAll(q, buttons_of(p)) = q
        <5>1. [g \in Buffered(q) \union DOMAIN buttons_of(p) |->
                 IF g \in DOMAIN buttons_of(p) THEN buttons_of(p)[g] ELSE q.frame_buttons[g]]
                = q.frame_buttons
          BY <4>2, <4>3 DEF IsQueue, Buffered
        <5> QED
          BY <4>3, <5>1 DEF InsertAll, IsQueue
      <4> QED
        BY <4>3, <4>4 DEF q
    <3> QED
      BY <3>1, <3>2
  <2>2. Inserted(c, keys) = [p \in Ports |-> InsertAll(queues[c][p], buttons_of(p))]
    BY DEF Inserted
  <2>3. queues'[c] = [p \in Ports |-> queues'[c][p]]
    BY <1>1, <1>4
  <2> HIDE DEF buttons_of, keys
  <2>4. Inserted(c, keys) = queues'[c]
    BY <2>1, <2>2, <2>3
  <2> QED
    BY <1>1, <2>4, SameInserted
<1>16. /\ StreamOf(c)' = StreamOf(c) /\ CallOf(c)' = CallOf(c)
       /\ PlayedBy(c)' = PlayedBy(c) /\ ReceivedBy(c)' = ReceivedBy(c)
  <2>1. StreamOf(c)' = StreamOf(c) /\ CallOf(c)' = CallOf(c) /\ PlayedBy(c)' = PlayedBy(c)
    BY <1>2, <1>4 DEF StreamOf, CallOf, PlayedBy
  <2>2. \A x \in Ports \ LocalPorts(c) : queues'[c][x] = queues[c][x]
    BY <1>1, <1>4
  <2>3. Held(c, queues[c])' = Held(c, queues[c])
    BY <2>2 DEF Held
  <2> QED
    BY <2>1, <2>3 DEF ReceivedBy, Held
<1>17. CallOf(c) = Handler(c)!Idle
  BY <1>2 DEF CallOf, Handler!Idle
<1>18. \A k \in keys : Handler(c)!Local(k.port)
  BY DEF OutgoingKeys, Handler!Local
<1> DEFINE m == Handler(c)!Passed(b, { i \in 1..Len(b) : Handler(c)!Queued(b, i) /\
                                                     Handler(c)!Attached(b, i) })
           queued == { i \in 1..Len(b) : i <= m \/ (i = m + 1 /\ Handler(c)!Queued(b, i)) }
           ks == Handler(c)!AsKeys(b, queued)
<1> HIDE DEF keys
<1>19. m = Len(b) /\ ks = keys /\ { k \in ks : Handler(c)!Local(k.port) } = keys
  <2>1. m = n
    BY <1>14 DEF n
  <2>2. queued = 1..n
    <3>1. Len(b) = n
      BY DEF n
    <3> HIDE DEF m
    <3> QED
      BY <1>7, <2>1, <3>1
  <2> HIDE DEF m, queued
  <2>3. ks = keys
    BY <1>12, <2>2
  <2> QED
    BY <1>18, <2>1, <2>3 DEF n
<1>20. /\ Handler(c)!Inserted(ks) = queues'[c]
       /\ PutBy(c)' = PutBy(c) \union { k \in ks : Handler(c)!Local(k.port) }
  BY <1>6, <1>15, <1>19
<1>21. c \in DOMAIN sent
  BY DEF HandlersInv
<1>22. CASE keys = {}
  <2>1. sent'[c] = sent[c] /\ PutBy(c)' = PutBy(c)
    BY <1>5, <1>6, <1>21, <1>22
  <2> QED
    BY <1>13, <1>16, <1>17, <1>19, <1>20, <1>22, <2>1 DEF Handler!PutButtons
<1>23. CASE keys # {} /\ up[c]
  <2>1. sent'[c] = sent[c] \union keys
    BY <1>5, <1>21, <1>23
  <2>2. (sent'[c] # PutBy(c)') <=> (sent[c] # PutBy(c))
    BY <1>1, <1>6, <2>1
  <2>3. StreamOf(c) = "open"
    BY <1>23 DEF StreamOf
  <2> QED
    BY <1>13, <1>16, <1>17, <1>19, <1>20, <1>23, <2>1, <2>2, <2>3 DEF Handler!PutButtons
<1>24. CASE keys # {} /\ ~up[c]
  <2>1. sent'[c] = sent[c]
    BY <1>5, <1>24
  <2>2. sent'[c] # PutBy(c)'
    BY <1>1, <1>6, <1>24, <2>1
  <2>3. StreamOf(c) # "open"
    BY <1>24 DEF StreamOf
  <2> QED
    BY <1>13, <1>16, <1>17, <1>19, <1>20, <1>24, <2>1, <2>2, <2>3 DEF Handler!PutButtons
<1> QED
  BY <1>22, <1>23, <1>24

-----------------------------------------------------------------------------
\* The steps of HandlersNext that are the game's and the stream's of client c.
StepOf(c) ==
  \/ \E buttons \in [LocalPorts(c) -> Buttons] : PutAndWrite(c, buttons)
  \/ /\ Get(c) \/ Read(c) \/ StreamBreaks(c) \/ ReadFails(c)
     /\ UNCHANGED sent

(***************************************************************************)
(* The composition is a Lockstep, to which it only adds what was written.  *)
(***************************************************************************)
LEMMA HandlersAreLockstep ==
  /\ HandlersInit => Init
  /\ [HandlersNext]_hvars => [Next]_vars
<1>1. HandlersInit => Init
  BY DEF HandlersInit
<1>2. HandlersNext => Next
  BY DEF HandlersNext, Next, Put, PutAndWrite
<1>3. UNCHANGED hvars => UNCHANGED vars
  BY DEF hvars
<1> QED
  BY <1>1, <1>2, <1>3

(***************************************************************************)
(* A step of one client leaves the handlers of the others alone.           *)
(***************************************************************************)
LEMMA OtherHandlersAreLeftAlone ==
  ASSUME HandlersInv, NEW c \in Clients, NEW d \in Clients, d # c, StepOf(c)
  PROVE  UNCHANGED HandlerState(d) /\ PutBy(d)' = PutBy(d) /\ pending'[d] = pending[d]
<1>0. PhaseInv /\ TypeOK /\ DOMAIN sent = Clients
  BY DEF HandlersInv, WaitInv, PhaseInv, LInv
<1>1. ASSUME NEW buttons \in [LocalPorts(c) -> Buttons], PutAndWrite(c, buttons)
      PROVE  /\ UNCHANGED <<frame, reading, up, played>>
             /\ queues'[d] = queues[d] /\ stopped'[d] = stopped[d] /\ sent'[d] = sent[d]
             /\ pending'[d] = pending[d]
             /\ \A p \in LocalPorts(d) : inputs'[p] = inputs[p]
  <2>1. pending[c] = {} /\ UNCHANGED <<frame, reading, up, played>>
    BY <1>1 DEF PutAndWrite, PutButtons
  <2>2. \A p \in LocalPorts(c) : Accepts(queues[c][p], frame[c])
    BY <1>0, <2>1, PutsAreAccepted
  <2>3. /\ queues'[d] = queues[d] /\ stopped'[d] = stopped[d]
        /\ pending'[d] = pending[d]
    BY <1>0, <1>1, <2>2 DEF PutAndWrite, PutButtons, TypeOK
  <2>4. sent'[d] = sent[d]
    BY <1>0, <1>1 DEF PutAndWrite
  <2>5. \A p \in LocalPorts(d) : inputs'[p] = inputs[p]
    <3>1. \A p \in LocalPorts(d) : p \in Ports /\ p \notin LocalPorts(c)
      BY DEF LocalPorts
    <3>2. inputs' =
            [p \in Ports |->
               IF p \in LocalPorts(c)
               THEN [f \in DOMAIN inputs[p] \union {frame[c] + delay[p]} |->
                       IF f = frame[c] + delay[p] THEN buttons[p] ELSE inputs[p][f]]
               ELSE inputs[p]]
      BY <1>1, <2>2 DEF PutAndWrite, PutButtons
    <3> QED
      BY <3>1, <3>2
  <2> QED
    BY <2>1, <2>3, <2>4, <2>5
<1>2. ASSUME Get(c) \/ Read(c) \/ StreamBreaks(c) \/ ReadFails(c), UNCHANGED sent
      PROVE  /\ frame'[d] = frame[d] /\ reading'[d] = reading[d] /\ up'[d] = up[d]
             /\ queues'[d] = queues[d] /\ stopped'[d] = stopped[d] /\ sent'[d] = sent[d]
             /\ played'[d] = played[d]
             /\ pending'[d] = pending[d]
             /\ inputs' = inputs
  <2> USE <1>0 DEF TypeOK
  <2>1. CASE Get(c)
    BY <1>2, <2>1 DEF Get, GetButtons, Play
  <2>2. CASE Read(c)
    BY <1>2, <2>2 DEF Read, ReadKeys, Play
  <2>3. CASE StreamBreaks(c)
    BY <1>2, <2>3 DEF StreamBreaks
  <2>4. CASE ReadFails(c)
    BY <1>2, <2>4 DEF ReadFails
  <2> QED
    BY <1>2, <2>1, <2>2, <2>3, <2>4
<1>3. /\ frame'[d] = frame[d] /\ reading'[d] = reading[d] /\ up'[d] = up[d]
      /\ queues'[d] = queues[d] /\ stopped'[d] = stopped[d] /\ sent'[d] = sent[d]
      /\ played'[d] = played[d]
      /\ pending'[d] = pending[d]
      /\ \A p \in LocalPorts(d) : inputs'[p] = inputs[p]
  BY <1>1, <1>2 DEF StepOf
<1>4. [p \in LocalPorts(d) |-> inputs[p]]' = [p \in LocalPorts(d) |-> inputs[p]]
  BY <1>3 DEF LocalPorts
<1>5. UNCHANGED HandlerState(d)
  BY <1>3, <1>4 DEF HandlerState
<1>6. PutBy(d)' = PutBy(d)
  <2>1. \A k : k \in PutBy(d)' <=> k \in PutBy(d)
    BY <1>3, PutByIs
  <2> QED
    BY <2>1
<1> QED
  BY <1>3, <1>5, <1>6

(***************************************************************************)
(* What a put hands out is finitely many keys.                             *)
(***************************************************************************)
LEMMA OutgoingIsFinite ==
  ASSUME NEW c \in Clients, NEW buttons
  PROVE  IsFiniteSet(OutgoingKeys(c, buttons))
<1> DEFINE keys == OutgoingKeys(c, buttons)
           g == [p \in LocalPorts(c) |-> [port |-> p, frame |-> frame[c] + delay[p],
                                          buttons |-> buttons[p]]]
<1>1. IsFiniteSet(LocalPorts(c))
  BY FinitePortsAssumption, FS_Subset DEF LocalPorts
<1>2. g \in Surjection(LocalPorts(c), keys)
  BY DEF Surjection, OutgoingKeys
<1> HIDE DEF g, keys
<1>3. IsFiniteSet(keys)
  BY <1>1, <1>2, FS_Surjection
<1> QED
  BY <1>3 DEF keys

(***************************************************************************)
(* The invariant at the start of the console, and across a step.           *)
(***************************************************************************)
LEMMA HandlersInvInit == HandlersInit => HandlersInv
<1> SUFFICES ASSUME HandlersInit PROVE HandlersInv
  OBVIOUS
<1>1. Init /\ sent = [c \in Clients |-> {}]
  BY DEF HandlersInit
<1>2. WaitInv
  BY <1>1, WaitInit
<1>3. ASSUME NEW c \in Clients
      PROVE  /\ sent[c] \subseteq PutBy(c)
             /\ IsFiniteSet(incoming[c])
             /\ pending[c] # {} => frame[c] <= MaxFrame
             /\ stopped[c] => reading[c] = {}
  BY <1>1, FS_EmptySet DEF Init
<1> QED
  BY <1>1, <1>2, <1>3 DEF HandlersInv

LEMMA HandlersInvStep == HandlersInv /\ [HandlersNext]_hvars => HandlersInv'
<1> SUFFICES ASSUME HandlersInv, [HandlersNext]_hvars PROVE HandlersInv'
  OBVIOUS
<1>0. WaitInv /\ PhaseInv /\ LInv /\ TypeOK /\ DOMAIN sent = Clients
  BY DEF HandlersInv, WaitInv, PhaseInv, LInv
<1>1. WaitInv'
  BY <1>0, HandlersAreLockstep, WaitStep
<1> DEFINE Ok(c) == /\ sent[c] \subseteq PutBy(c)
                    /\ IsFiniteSet(incoming[c])
                    /\ pending[c] # {} => frame[c] <= MaxFrame
                    /\ stopped[c] => reading[c] = {}
<1>2. \A c \in Clients : Ok(c)
  BY DEF HandlersInv
<1>3. CASE UNCHANGED hvars
  <2>1. UNCHANGED <<vars, sent>>
    BY <1>3 DEF hvars
  <2>2. \A c \in Clients : Ok(c)'
    BY <1>2, <2>1 DEF vars, PutBy, LocalPorts
  <2> QED
    BY <1>0, <1>1, <2>1, <2>2 DEF HandlersInv
<1>4. CASE HandlersNext
  <2>1. PICK c \in Clients : StepOf(c)
    BY <1>4 DEF HandlersNext, StepOf
  <2>2. DOMAIN sent' = Clients
    BY <1>0, <2>1 DEF StepOf, PutAndWrite
  <2>3. \A d \in Clients : IsFiniteSet(incoming'[d])
    <3>1. ASSUME NEW buttons \in [LocalPorts(c) -> Buttons], PutAndWrite(c, buttons),
                 NEW d \in Clients
          PROVE  IsFiniteSet(incoming'[d])
      <4>1. \/ incoming'[d] = incoming[d]
            \/ incoming'[d] = incoming[d] \union OutgoingKeys(c, buttons)
        BY <1>0, <3>1 DEF PutAndWrite, PutButtons
      <4>2. IsFiniteSet(incoming[d]) /\ IsFiniteSet(OutgoingKeys(c, buttons))
        BY <1>2, OutgoingIsFinite
      <4>3. IsFiniteSet(incoming[d] \union OutgoingKeys(c, buttons))
        BY <4>2, FS_Union
      <4> QED
        BY <4>1, <4>2, <4>3
    <3>2. ASSUME Get(c) \/ Read(c) \/ StreamBreaks(c) \/ ReadFails(c), NEW d \in Clients
          PROVE  IsFiniteSet(incoming'[d])
      <4>1. incoming'[d] \subseteq incoming[d]
        <5>1. DOMAIN incoming = Clients
          BY <1>0 DEF TypeOK
        <5>2. CASE Get(c)
          BY <5>2 DEF Get, GetButtons
        <5>3. CASE Read(c)
          <6>1. PICK p \in Ports, keys \in SUBSET incoming[c] : ReadKeys(c, p, keys)
            BY <5>3 DEF Read
          <6>2. incoming' = [incoming EXCEPT ![c] = @ \ keys]
            BY <6>1 DEF ReadKeys
          <6> QED
            BY <5>1, <6>2
        <5>4. CASE StreamBreaks(c)
          <6>1. PICK kept \in SUBSET incoming[c] : incoming' = [incoming EXCEPT ![c] = kept]
            BY <5>4 DEF StreamBreaks
          <6> QED
            BY <5>1, <6>1
        <5>5. CASE ReadFails(c)
          BY <5>5 DEF ReadFails
        <5> QED
          BY <3>2, <5>2, <5>3, <5>4, <5>5
      <4> QED
        BY <1>2, <4>1, FS_Subset
    <3> QED
      BY <2>1, <3>1, <3>2 DEF StepOf
  <2>4. ASSUME NEW d \in Clients, d # c
        PROVE  /\ sent'[d] \subseteq PutBy(d)'
               /\ pending'[d] # {} => frame'[d] <= MaxFrame
               /\ stopped'[d] => reading'[d] = {}
    <3>1. /\ PutBy(d)' = PutBy(d) /\ pending'[d] = pending[d]
          /\ sent'[d] = sent[d] /\ frame'[d] = frame[d]
          /\ stopped'[d] = stopped[d] /\ reading'[d] = reading[d]
      BY <2>1, <2>4, OtherHandlersAreLeftAlone DEF HandlerState
    <3> QED
      BY <1>2, <3>1
  <2>5. ASSUME NEW buttons \in [LocalPorts(c) -> Buttons], PutAndWrite(c, buttons)
        PROVE  /\ sent'[c] \subseteq PutBy(c)'
               /\ pending'[c] # {} => frame'[c] <= MaxFrame
               /\ stopped'[c] => reading'[c] = {}
    <3>1. /\ pending[c] = {} /\ reading[c] = {} /\ ~stopped[c] /\ frame[c] <= MaxFrame
          /\ UNCHANGED <<frame, reading, up>>
      BY <2>5 DEF PutAndWrite, PutButtons, Free
    <3>2. \A p \in LocalPorts(c) : Accepts(queues[c][p], frame[c])
      BY <1>0, <3>1, PutsAreAccepted
    <3>3. /\ \A p \in LocalPorts(c) : inputs'[p] =
               [f \in DOMAIN inputs[p] \union {frame[c] + delay[p]} |->
                  IF f = frame[c] + delay[p] THEN buttons[p] ELSE inputs[p][f]]
          /\ sent'[c] \subseteq sent[c] \union OutgoingKeys(c, buttons)
      BY <1>0, <2>5, <3>2 DEF PutAndWrite, PutButtons, LocalPorts
    <3>4. \A p \in LocalPorts(c) :
             /\ DOMAIN inputs'[p] = DOMAIN inputs[p] \union {frame[c] + delay[p]}
             /\ inputs'[p][frame[c] + delay[p]] = buttons[p]
             /\ \A g \in DOMAIN inputs[p] \ {frame[c] + delay[p]} :
                   inputs'[p][g] = inputs[p][g]
      BY <3>3
    <3>5. PutBy(c)' = PutBy(c) \union OutgoingKeys(c, buttons)
      BY <1>0, <3>2, <3>4, PutHistories
    <3>6. sent'[c] \subseteq PutBy(c)'
      BY <1>2, <3>3, <3>5
    <3> QED
      BY <3>1, <3>6
  <2>6. ASSUME Get(c) \/ Read(c) \/ StreamBreaks(c) \/ ReadFails(c), UNCHANGED sent
        PROVE  /\ sent'[c] \subseteq PutBy(c)'
               /\ pending'[c] # {} => frame'[c] <= MaxFrame
               /\ stopped'[c] => reading'[c] = {}
    <3>1. sent'[c] \subseteq PutBy(c)'
      <4>1. inputs' = inputs
        BY <2>6 DEF Get, GetButtons, Read, ReadKeys, StreamBreaks, ReadFails
      <4>2. PutBy(c)' = PutBy(c)
        BY <4>1 DEF PutBy, LocalPorts
      <4> QED
        BY <1>2, <2>6, <4>2
    <3>2. ASSUME NEW p \in Ports, NEW qs, Play(c, p, qs)
          PROVE  pending'[c] # {} => frame'[c] <= MaxFrame
      <4>1. pending'[c] = pending[c] \ {p} /\ (frame' = frame \/ pending[c] = {p})
        BY <1>0, <3>2 DEF Play, TypeOK
      <4> QED
        BY <1>2, <4>1
    <3>3. pending'[c] # {} => frame'[c] <= MaxFrame
      <4>1. \/ UNCHANGED <<pending, frame>>
            \/ \E p \in Ports, qs \in {queues[c]} \union
                  { Inserted(c, keys) : keys \in SUBSET incoming[c] } : Play(c, p, qs)
        BY <2>6 DEF Get, GetButtons, Read, ReadKeys, StreamBreaks, ReadFails
      <4> QED
        BY <1>2, <3>2, <4>1
    <3>4. stopped'[c] => reading'[c] = {}
      <4> USE <1>0, <1>2 DEF TypeOK
      <4>1. CASE Get(c)
        BY <4>1 DEF Get, GetButtons, Free
      <4>2. CASE Read(c)
        BY <4>2 DEF Read, ReadKeys
      <4>3. CASE StreamBreaks(c)
        BY <4>3 DEF StreamBreaks
      <4>4. CASE ReadFails(c)
        BY <4>4 DEF ReadFails
      <4> QED
        BY <2>6, <4>1, <4>2, <4>3, <4>4
    <3> QED
      BY <3>1, <3>3, <3>4
  <2>7. /\ sent'[c] \subseteq PutBy(c)'
        /\ pending'[c] # {} => frame'[c] <= MaxFrame
        /\ stopped'[c] => reading'[c] = {}
    BY <2>1, <2>5, <2>6 DEF StepOf
  <2> QED
    BY <1>1, <2>2, <2>3, <2>4, <2>7 DEF HandlersInv
<1> QED
  BY <1>3, <1>4

(***************************************************************************)
(* What the game and the stream of c do, its handler does.                 *)
(***************************************************************************)
LEMMA OwnHandlerSteps ==
  ASSUME HandlersInv, NEW c \in Clients, StepOf(c)
  PROVE  HandlerStep(c)
<1>0. PhaseInv /\ TypeOK /\ StopsOnlyWhenBroken /\ (stopped[c] => reading[c] = {})
  BY DEF HandlersInv, WaitInv, PhaseInv, LInv
<1>1. ASSUME NEW buttons \in [LocalPorts(c) -> Buttons], PutAndWrite(c, buttons)
      PROVE  HandlerStep(c)
  <2>1. Handler(c)!PutButtons(Batch(c, frame[c], buttons))
    BY <1>1, PutIsPut
  <2>2. reading[c] = {} /\ frame[c] <= MaxFrame
    BY <1>1 DEF PutAndWrite, PutButtons, Free
  <2> QED
    BY <2>1, <2>2 DEF HandlerStep
<1>2. ASSUME Get(c), UNCHANGED sent PROVE HandlerStep(c)
  <2>1. PICK p \in Ports : GetButtons(c, p)
    BY <1>2 DEF Get
  <2>2. Handler(c)!GetButtons(p, frame[c])
    BY <1>2, <2>1, GetIsGet
  <2>3. reading[c] = {} /\ p \in pending[c]
    BY <2>1 DEF GetButtons, Free
  <2> QED
    BY <2>2, <2>3 DEF HandlerStep
<1>3. ASSUME Read(c), UNCHANGED sent PROVE HandlerStep(c)
  <2>1. PICK p \in Ports, keys \in SUBSET incoming[c] : ReadKeys(c, p, keys)
    BY <1>3 DEF Read
  <2>2. Handler(c)!ReadKeys(KeyEvent(keys))
    BY <1>3, <2>1, ReadIsRead
  <2>3. reading[c] # {} /\ incoming'[c] = incoming[c] \ keys
    BY <1>0, <2>1 DEF ReadKeys, TypeOK
  <2>4. incoming[c] \ incoming'[c] = keys
    BY <2>3
  <2>5. Handler(c)!ReadKeys(KeyEvent(incoming[c] \ incoming'[c]))
    BY <2>2, <2>4
  <2> QED
    BY <2>3, <2>5 DEF HandlerStep
<1>4. ASSUME StreamBreaks(c), UNCHANGED sent PROVE HandlerStep(c)
  <2>1. /\ up[c] /\ ~up'[c] /\ ~stopped[c]
        /\ UNCHANGED <<frame, reading, queues, stopped, inputs, played>>
    BY <1>0, <1>4 DEF StreamBreaks, TypeOK, StopsOnlyWhenBroken
  <2>2. StreamOf(c) = "open" /\ StreamOf(c)' = "broken" /\ CallOf(c)' = CallOf(c)
    BY <2>1 DEF StreamOf, CallOf
  <2>3. PutBy(c)' = PutBy(c) /\ PlayedBy(c)' = PlayedBy(c)
    BY <2>1 DEF PutBy, PlayedBy, LocalPorts
  <2>4. ReceivedBy(c)' = ReceivedBy(c)
    BY <2>1, <2>3 DEF ReceivedBy, LocalPorts
  <2>5. Handler(c)!StreamBreaks
    BY <1>4, <2>1, <2>2, <2>3, <2>4 DEF Handler!StreamBreaks, Handler!histories
  <2> QED
    BY <2>1, <2>5 DEF HandlerStep
<1>5. ASSUME ReadFails(c), UNCHANGED sent PROVE HandlerStep(c)
  <2>1. /\ ~up[c] /\ ~stopped[c] /\ reading[c] # {}
        /\ reading'[c] = {} /\ stopped'[c]
        /\ UNCHANGED <<frame, queues, up, inputs, played>>
    BY <1>0, <1>5 DEF ReadFails, TypeOK
  <2>2. StreamOf(c) = "broken" /\ StreamOf(c)' = "closed"
    BY <2>1 DEF StreamOf
  <2>3. CallOf(c) # Handler(c)!Idle /\ CallOf(c)' = Handler(c)!Idle
    <3>1. CallOf(c).at = "reading" /\ Handler(c)!Idle.at = "idle"
      BY <2>1 DEF CallOf, Handler!Idle
    <3>2. CallOf(c)' = Handler(c)!Idle
      BY <2>1 DEF CallOf, Handler!Idle
    <3> QED
      BY <3>1, <3>2
  <2>4. PutBy(c)' = PutBy(c) /\ PlayedBy(c)' = PlayedBy(c)
    BY <2>1 DEF PutBy, PlayedBy, LocalPorts
  <2>5. ReceivedBy(c)' = ReceivedBy(c)
    BY <2>1, <2>4 DEF ReceivedBy, LocalPorts
  <2>6. Handler(c)!ReadFails
    BY <1>5, <2>1, <2>2, <2>3, <2>4, <2>5 DEF Handler!ReadFails, Handler!histories
  <2> QED
    BY <2>1, <2>6 DEF HandlerStep
<1> QED
  BY <1>1, <1>2, <1>3, <1>4, <1>5 DEF StepOf

(***************************************************************************)
(* The queues of the games are those of a handler whose console has        *)
(* started with these ports and delays (event-stream-handler.hpp:130-190). *)
(***************************************************************************)
LEMMA QueuesOfStartedHandlers ==
  HandlersInv => \A c \in Clients : Handler(c)!QueuesMatchStart
<1> SUFFICES ASSUME HandlersInv, NEW c \in Clients PROVE Handler(c)!QueuesMatchStart
  OBVIOUS
<1>1. /\ DOMAIN queues[c] = Ports
      /\ \A p \in Ports : QueueOK(c, p, queues[c][p])
      /\ LocalPorts(c) \subseteq Ports
  BY DEF HandlersInv, WaitInv, PhaseInv, LInv, TypeOK, LocalPorts
<1>2. ASSUME NEW p \in Ports
      PROVE  /\ queues[c][p].initial_frame_delay = delay[p]
             /\ queues[c][p].delay_frames = IF Handler(c)!Local(p) THEN delay[p] ELSE 0
  BY <1>1 DEF QueueOK, LocalPorts, Handler!Local
<1> QED
  BY <1>1, <1>2 DEF Handler!QueuesMatchStart

(***************************************************************************)
(* Every client of a console is an EventStreamHandler: a step of the games *)
(* and of the server is, for each handler, one of the steps it may take    *)
(* with an arbitrary server, or none (event-stream-handler.hpp).           *)
(***************************************************************************)
THEOREM ClientsImplementHandlers == HandlersSpec => ClientsAreHandlers
<1>1. HandlersInit => HandlersInv
  BY HandlersInvInit
<1>2. HandlersInv /\ [HandlersNext]_hvars => HandlersInv'
  BY HandlersInvStep
<1>3. HandlersInv => \A c \in Clients : Handler(c)!QueuesMatchStart
  BY QueuesOfStartedHandlers
<1>4. HandlersInv /\ [HandlersNext]_hvars =>
        [ \A c \in Clients : UNCHANGED HandlerState(c) \/ HandlerStep(c) ]_hvars
  <2> SUFFICES ASSUME HandlersInv, HandlersNext, NEW d \in Clients
               PROVE  UNCHANGED HandlerState(d) \/ HandlerStep(d)
    OBVIOUS
  <2>1. PICK c \in Clients : StepOf(c)
    BY DEF HandlersNext, StepOf
  <2>2. CASE d = c
    BY <2>1, <2>2, OwnHandlerSteps
  <2>3. CASE d # c
    BY <2>1, <2>3, OtherHandlersAreLeftAlone
  <2> QED
    BY <2>2, <2>3
<1> QED
  BY <1>1, <1>2, <1>3, <1>4, PTL DEF HandlersSpec, ClientsAreHandlers

(***************************************************************************)
(* A client that does nothing leaves its handler as it is.                 *)
(***************************************************************************)
LEMMA StutteringHandlers ==
  ASSUME NEW c \in Clients, UNCHANGED HandlerState(c)
  PROVE  UNCHANGED Handler(c)!vars
<1>1. /\ frame'[c] = frame[c] /\ reading'[c] = reading[c] /\ queues'[c] = queues[c]
      /\ up'[c] = up[c] /\ stopped'[c] = stopped[c]
      /\ played'[c] = played[c] /\ sent'[c] = sent[c]
  BY DEF HandlerState
<1>2. \A p \in LocalPorts(c) : inputs'[p] = inputs[p]
  <2>1. [p \in LocalPorts(c) |-> inputs'[p]] = [p \in LocalPorts(c) |-> inputs[p]]
    BY DEF HandlerState, LocalPorts
  <2> DEFINE before == [p \in LocalPorts(c) |-> inputs[p]]
             after == [p \in LocalPorts(c) |-> inputs'[p]]
  <2>2. \A p \in LocalPorts(c) : before[p] = inputs[p] /\ after[p] = inputs'[p]
    OBVIOUS
  <2>3. after = before
    BY <2>1
  <2> HIDE DEF before, after
  <2> QED
    BY <2>2, <2>3
<1>3. PutBy(c)' = PutBy(c)
  <2>1. \A k : k \in PutBy(c)' <=> k \in PutBy(c)
    BY <1>2, PutByIs
  <2> QED
    BY <2>1
<1>4. /\ StreamOf(c)' = StreamOf(c) /\ CallOf(c)' = CallOf(c)
      /\ PlayedBy(c)' = PlayedBy(c)
  BY <1>1 DEF StreamOf, CallOf, PlayedBy
<1>5. ReceivedBy(c)' = ReceivedBy(c)
  BY <1>1, <1>4 DEF ReceivedBy, LocalPorts
<1> QED
  BY <1>1, <1>3, <1>4, <1>5 DEF Handler!vars, Handler!histories

(***************************************************************************)
(* The witnesses of HandlerStep are inputs EventStreamHandler considers:   *)
(* the batches are of frames the game has, the events are of keys, and     *)
(* have finitely many.                                                     *)
(***************************************************************************)
LEMMA HandlerStepsAreNext ==
  ASSUME HandlersInv, NEW c \in Clients, HandlerStep(c)
  PROVE  Handler(c)!Next
<1>0. TypeOK /\ IsFiniteSet(incoming[c]) /\ (pending[c] # {} => frame[c] <= MaxFrame)
  BY DEF HandlersInv, WaitInv, PhaseInv, LInv
<1>1. frame[c] \in Nat /\ incoming[c] \subseteq Key /\ pending[c] \subseteq Ports
  BY <1>0 DEF TypeOK
<1>2. CASE Handler(c)!StreamBreaks \/ Handler(c)!ReadFails
  BY <1>2 DEF Handler!Next
<1>3. CASE Handler(c)!ReadKeys(KeyEvent(incoming[c] \ incoming'[c]))
  <2> DEFINE keys == incoming[c] \ incoming'[c]
  <2>1. keys \in { S \in SUBSET Key : IsFiniteSet(S) }
    BY <1>0, <1>1, FS_Subset
  <2> HIDE DEF keys
  <2>2. KeyEvent(keys) \in { KeyEvent(ks) : ks \in { S \in SUBSET Key : IsFiniteSet(S) } }
    BY <2>1
  <2>3. Handler(c)!ReadKeys(KeyEvent(keys))
    BY <1>3 DEF keys
  <2> QED
    BY <2>2, <2>3 DEF Handler!Next
<1>4. CASE \E p \in pending[c] : Handler(c)!GetButtons(p, frame[c])
  <2>1. PICK p \in pending[c] : Handler(c)!GetButtons(p, frame[c])
    BY <1>4
  <2>2. p \in Ports \union {PORT_ANY} /\ frame[c] \in 0..MaxFrame
    BY <1>0, <1>1, <2>1
  <2> DEFINE f == frame[c]
  <2>4. f \in 0..MaxFrame /\ Handler(c)!GetButtons(p, f)
    BY <2>1, <2>2
  <2> HIDE DEF f
  <2>3. \E port \in Ports \union {PORT_ANY}, g \in 0..MaxFrame :
           Handler(c)!GetButtons(port, g)
    BY <2>2, <2>4 DEF Handler!GetButtons, Handler!Play
  <2> QED
    BY <2>3 DEF Handler!Next
<1>5. CASE /\ frame[c] <= MaxFrame
           /\ \E buttons \in [LocalPorts(c) -> Buttons] :
                Handler(c)!PutButtons(Batch(c, frame[c], buttons))
  <2>1. PICK buttons \in [LocalPorts(c) -> Buttons] :
          Handler(c)!PutButtons(Batch(c, frame[c], buttons))
    BY <1>5
  <2>2. frame[c] \in 0..MaxFrame
    BY <1>1, <1>5
  <2>3. Batch(c, frame[c], buttons) \in
          { Batch(c, f, bs) : f \in 0..MaxFrame, bs \in [LocalPorts(c) -> Buttons] }
    BY <2>2
  <2> QED
    BY <2>1, <2>3 DEF Handler!Next
<1> QED
  BY <1>2, <1>3, <1>4, <1>5 DEF HandlerStep

(***************************************************************************)
(* So a client refines EventStreamHandler, by the mapping of Handler(c),   *)
(* from the start of the console on.  Its Events are infinitely many, so   *)
(* that no run can check the disjunction itself.                           *)
(***************************************************************************)
THEOREM ClientsRefineHandlers ==
  HandlersSpec => [][ \A c \in Clients : [Handler(c)!Next]_(Handler(c)!vars) ]_hvars
<1>1. HandlersInit => HandlersInv
  BY HandlersInvInit
<1>2. HandlersInv /\ [HandlersNext]_hvars => HandlersInv'
  BY HandlersInvStep
<1>3. HandlersInv /\ [HandlersNext]_hvars =>
        [ \A c \in Clients : [Handler(c)!Next]_(Handler(c)!vars) ]_hvars
  <2> SUFFICES ASSUME HandlersInv, HandlersNext, NEW d \in Clients
               PROVE  Handler(d)!Next \/ UNCHANGED Handler(d)!vars
    OBVIOUS
  <2>1. PICK c \in Clients : StepOf(c)
    BY DEF HandlersNext, StepOf
  <2>2. CASE d = c
    BY <2>1, <2>2, OwnHandlerSteps, HandlerStepsAreNext
  <2>3. CASE d # c
    BY <2>1, <2>3, OtherHandlersAreLeftAlone, StutteringHandlers
  <2> QED
    BY <2>2, <2>3
<1> QED
  BY <1>1, <1>2, <1>3, PTL DEF HandlersSpec
=============================================================================
