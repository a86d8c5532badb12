------------------------------ MODULE Lockstep ------------------------------
(***************************************************************************)
(* All the clients of one console, each with its queues, playing the same  *)
(* game in lock-step (the repository's README.md).  A client's steps are   *)
(* those of EventStreamHandler once the console has started; the game loop *)
(* that calls it is the one of integration_tests/integration-tests.cc: for *)
(* each frame, put the input of the local ports, then get the input of     *)
(* every port.  The server, which this repository does not hold, relays a  *)
(* key to every client but its sender; the order in which keys of several  *)
(* players reach a client, and their grouping into events, are arbitrary.  *)
(***************************************************************************)
EXTENDS InputQueueData, Sequences, FiniteSets

CONSTANTS Clients, Ports,
          owner,     \* the client each port is local to
          delay,     \* the delay frames of each port
          MaxFrame   \* bound: the games end after this frame

ASSUME OwnerAssumption == owner \in [Ports -> Clients]
ASSUME DelayAssumption == delay \in [Ports -> Nat]
ASSUME MaxFrameAssumption == MaxFrame \in Nat

VARIABLES
  frame,     \* of each client: the frame its game is at
  pending,   \* the ports whose input of that frame it has still to get
  reading,   \* the port whose get is blocked on the stream, as a set
  queues,    \* the queues of its handler
  up,        \* its stream is not broken
  stopped,   \* a get has failed, and its game is over
  incoming,  \* the keys on their way to it, or in its stream, not read yet
  inputs,    \* history, of each port: what its player did, by frame
  played     \* history, of each client and port: what its game was given

vars == <<frame, pending, reading, queues, up, stopped, incoming, inputs, played>>

LocalPorts(c) == { p \in Ports : owner[p] = c }

Key == [port : Ports, frame : Nat, buttons : Buttons]

NewHandler(c) ==
  [p \in Ports |-> IF owner[p] = c THEN MakeLocalQueue(delay[p])
                                   ELSE MakeRemoteQueue(delay[p])]

Init ==
  /\ frame = [c \in Clients |-> 0]
  /\ pending = [c \in Clients |-> {}]
  /\ reading = [c \in Clients |-> {}]
  /\ queues = [c \in Clients |-> NewHandler(c)]
  /\ up = [c \in Clients |-> TRUE]
  /\ stopped = [c \in Clients |-> FALSE]
  /\ incoming = [c \in Clients |-> {}]
  /\ inputs = [p \in Ports |-> [f \in 0..(delay[p] - 1) |-> Default]]
  /\ played = [c \in Clients |-> [p \in Ports |-> <<>>]]

\* The game of c is between two calls of its handler.
Free(c) == ~stopped[c] /\ reading[c] = {}

\* A bug: the game goes on when it has its own input.
AwaitedLocal(c) == LocalPorts(c)

\* The ports whose input a frame of the game of c needs: all of them.
Awaited(c) == Ports

-----------------------------------------------------------------------------
\* Bugs: the delay has the wrong sign, or is forgotten.
OutgoingKeysEarly(c, buttons) ==
  { [port |-> p, frame |-> frame[c] - delay[p], buttons |-> buttons[p]]
      : p \in LocalPorts(c) }

OutgoingKeysUndelayed(c, buttons) ==
  { [port |-> p, frame |-> frame[c], buttons |-> buttons[p]]
      : p \in LocalPorts(c) }

\* The key of each local port, at the delayed frame.
OutgoingKeys(c, buttons) ==
  { [port |-> p, frame |-> frame[c] + delay[p], buttons |-> buttons[p]]
      : p \in LocalPorts(c) }

(***************************************************************************)
(* PutButtons with the input of all local ports.  When the stream is       *)
(* broken the others are not told, although the input is in the queue; the *)
(* game goes on as long as it can.  A queue that refuses ends the game.    *)
(***************************************************************************)
PutButtons(c, buttons) ==
  /\ Free(c)
  /\ pending[c] = {}
  /\ frame[c] <= MaxFrame
  /\ \/ /\ \A p \in LocalPorts(c) : Accepts(queues[c][p], frame[c])
        /\ queues' = [queues EXCEPT ![c] =
             [p \in Ports |->
                IF p \in LocalPorts(c)
                THEN Insert(queues[c][p], frame[c], buttons[p])
                ELSE queues[c][p]]]
        /\ inputs' =
             [p \in Ports |->
                IF p \in LocalPorts(c)
                THEN [f \in DOMAIN inputs[p] \union {frame[c] + delay[p]} |->
                        IF f = frame[c] + delay[p]
                        THEN buttons[p] ELSE inputs[p][f]]
                ELSE inputs[p]]
        /\ incoming' =
             [d \in Clients |->
                IF d # c /\ up[c] /\ up[d]
                THEN incoming[d] \union OutgoingKeys(c, buttons)
                ELSE incoming[d]]
        /\ pending' = [pending EXCEPT ![c] = Awaited(c)]
        /\ UNCHANGED stopped
     \/ /\ \E p \in LocalPorts(c) : ~Accepts(queues[c][p], frame[c])
        /\ stopped' = [stopped EXCEPT ![c] = TRUE]
        /\ UNCHANGED <<queues, inputs, incoming, pending>>
  /\ UNCHANGED <<frame, reading, up, played>>

\* The game of c is given its input of port p, from the queues given: the
\* frame is over when it has that of every port.
Play(c, p, qs) ==
  /\ played' = [played EXCEPT ![c][p] = Append(@, Answer(qs[p], frame[c]))]
  /\ queues' = [queues EXCEPT ![c] = [qs EXCEPT ![p] = Advance(@, frame[c])]]
  /\ pending' = [pending EXCEPT ![c] = @ \ {p}]
  /\ frame' = IF pending[c] = {p} THEN [frame EXCEPT ![c] = @ + 1] ELSE frame

(***************************************************************************)
(* GetButtons, up to its return or to the first Read.                      *)
(***************************************************************************)
GetButtons(c, p) ==
  /\ Free(c)
  /\ p \in pending[c]
  /\ \/ /\ Ready(queues[c][p], frame[c])
        /\ Play(c, p, queues[c])
        /\ UNCHANGED <<reading, stopped>>
     \/ /\ ~Ready(queues[c][p], frame[c])
        /\ owner[p] # c
        /\ frame[c] = ExpectedFrame(queues[c][p])
        /\ reading' = [reading EXCEPT ![c] = {p}]
        /\ UNCHANGED <<frame, pending, queues, played, stopped>>
     \/ /\ ~Ready(queues[c][p], frame[c])
        /\ owner[p] = c \/ frame[c] # ExpectedFrame(queues[c][p])
        /\ stopped' = [stopped EXCEPT ![c] = TRUE]
        /\ UNCHANGED <<frame, pending, reading, queues, played>>
  /\ UNCHANGED <<up, incoming, inputs>>

-----------------------------------------------------------------------------
\* A bug: the keys of frames the game has not got to are dropped.
InsertedSoFar(c, keys) ==
  [p \in Ports |->
     LET own == { k \in keys : k.port = p /\ k.frame <= frame[c] } IN
     InsertAll(queues[c][p],
               [f \in { k.frame : k \in own } |->
                  (CHOOSE k \in own : k.frame = f).buttons])]

\* The queues of c with the keys of an event inserted.
Inserted(c, keys) ==
  [p \in Ports |->
     LET own == { k \in keys : k.port = p } IN
     InsertAll(queues[c][p],
               [f \in { k.frame : k \in own } |->
                  (CHOOSE k \in own : k.frame = f).buttons])]

\* Every key of the event is accepted, whatever their order in it.
AllAccepted(c, keys) ==
  \A k \in keys :
     /\ Accepts(queues[c][k.port], k.frame)
     /\ \A l \in keys : l.port = k.port /\ l.frame = k.frame => l = k

(***************************************************************************)
(* ReadUntilButtons reads an event, which carries some of the keys on      *)
(* their way: the call goes on reading, returns the buttons, or fails.     *)
(***************************************************************************)
ReadKeys(c, p, keys) ==
  /\ p \in reading[c]
  /\ keys # {}
  /\ incoming' = [incoming EXCEPT ![c] = @ \ keys]
  /\ \/ /\ AllAccepted(c, keys)
        /\ Ready(Inserted(c, keys)[p], frame[c])
        /\ Play(c, p, Inserted(c, keys))
        /\ reading' = [reading EXCEPT ![c] = {}]
        /\ UNCHANGED stopped
     \/ /\ AllAccepted(c, keys)
        /\ ~Ready(Inserted(c, keys)[p], frame[c])
        /\ queues' = [queues EXCEPT ![c] = Inserted(c, keys)]
        /\ UNCHANGED <<frame, pending, reading, played, stopped>>
     \/ /\ ~AllAccepted(c, keys)
        /\ reading' = [reading EXCEPT ![c] = {}]
        /\ stopped' = [stopped EXCEPT ![c] = TRUE]
        /\ UNCHANGED <<frame, pending, queues, played>>
  /\ UNCHANGED <<up, inputs>>

\* The stream of c breaks: what was on its way to c may be lost.
StreamBreaks(c) ==
  /\ up[c]
  /\ up' = [up EXCEPT ![c] = FALSE]
  /\ \E kept \in SUBSET incoming[c] :
       incoming' = [incoming EXCEPT ![c] = kept]
  /\ UNCHANGED <<frame, pending, reading, queues, stopped, inputs, played>>

\* Read returns false, and the call that was blocked fails.
ReadFails(c) ==
  /\ ~up[c]
  /\ reading[c] # {}
  /\ reading' = [reading EXCEPT ![c] = {}]
  /\ stopped' = [stopped EXCEPT ![c] = TRUE]
  /\ UNCHANGED <<frame, pending, queues, up, incoming, inputs, played>>

\* The calls of PluginImpl for the controllers of the emulator, which are ports of
\* the console: M64PortToPort (in Session) never answers UNKNOWN for one of them.
Put(c) == \E buttons \in [LocalPorts(c) -> Buttons] : PutButtons(c, buttons)
Get(c) == \E p \in Ports : GetButtons(c, p)
Read(c) ==
  \E p \in Ports, keys \in SUBSET incoming[c] : ReadKeys(c, p, keys)

Next ==
  \E c \in Clients :
     Put(c) \/ Get(c) \/ Read(c) \/ StreamBreaks(c) \/ ReadFails(c)

Spec == Init /\ [][Next]_vars

(***************************************************************************)
(* The game loop of a client goes on calling its handler, the server goes  *)
(* on delivering what it was sent, and a Read of a broken stream returns.  *)
(* Nothing makes a player's machine faster than another's, and nothing     *)
(* makes a stream break.                                                   *)
(***************************************************************************)
FairSpec ==
  Spec /\ \A c \in Clients : WF_vars(Put(c) \/ Get(c) \/ Read(c) \/ ReadFails(c))

-----------------------------------------------------------------------------
(***************************************************************************)
(* Every variable stays in its type.                                       *)
(***************************************************************************)
TypeOK ==
  /\ frame \in [Clients -> Nat]
  /\ pending \in [Clients -> SUBSET Ports]
  /\ reading \in [Clients -> SUBSET Ports]
  /\ DOMAIN queues = Clients
  /\ \A c \in Clients :
        /\ DOMAIN queues[c] = Ports
        /\ \A p \in Ports : IsQueue(queues[c][p])
        /\ incoming[c] \subseteq Key
  /\ DOMAIN incoming = Clients
  /\ up \in [Clients -> BOOLEAN]
  /\ stopped \in [Clients -> BOOLEAN]
  /\ DOMAIN inputs = Ports
  /\ \A p \in Ports : /\ DOMAIN inputs[p] \subseteq Nat
                       /\ inputs[p] \in [DOMAIN inputs[p] -> Buttons]
  /\ played \in [Clients -> [Ports -> Seq(Buttons)]]

(***************************************************************************)
(* Lock-step: two games are never given different input for the same port  *)
(* and frame, so a deterministic game is the same on every machine.        *)
(***************************************************************************)
Agreement ==
  \A c, d \in Clients, p \in Ports :
     \A i \in 1..Len(played[c][p]) :
        i <= Len(played[d][p]) => played[c][p][i] = played[d][p][i]

(***************************************************************************)
(* And it is what the player of the port did, delayed: the i-th input is   *)
(* the one for frame i - 1, on the player's own machine included.          *)
(***************************************************************************)
PlayedIsInput ==
  \A c \in Clients, p \in Ports :
     \A i \in 1..Len(played[c][p]) :
        /\ (i - 1) \in DOMAIN inputs[p]
        /\ played[c][p][i] = inputs[p][i - 1]

(***************************************************************************)
(* What makes PlayedIsInput inductive: whatever of port p a client holds,  *)
(* or is on its way to it, is an input of p for that frame; each queue has *)
(* handed out as much as was played; and the queue of the player's own     *)
(* machine has had every input of the port, so that it refuses a frame     *)
(* that has one already, and no input is ever changed.                     *)
(***************************************************************************)
IsInput(p, f, buttons) == f \in DOMAIN inputs[p] /\ inputs[p][f] = buttons

QueueOK(c, p, q) ==
  /\ IsQueue(q)
  /\ q.initial_frame_delay = delay[p]
  /\ q.delay_frames = IF owner[p] = c THEN delay[p] ELSE 0
  /\ \A f \in Buffered(q) : IsInput(p, f, q.frame_buttons[f])
  /\ Len(played[c][p]) = ExpectedFrame(q)
  /\ owner[p] = c =>
       \A f \in DOMAIN inputs[p] :
          \/ InInitialDelay(q, f)
          \/ f <= q.latest_frame_requested
          \/ HasButtons(q, f)

LInv ==
  /\ TypeOK
  /\ \A p \in Ports : \A f \in 0..(delay[p] - 1) : IsInput(p, f, Default)
  /\ \A c \in Clients, p \in Ports : QueueOK(c, p, queues[c][p])
  /\ \A c \in Clients : \A k \in incoming[c] : IsInput(k.port, k.frame, k.buttons)
  /\ PlayedIsInput

(***************************************************************************)
(* A game ends early only because its own stream broke.  No queue refuses  *)
(* a key of a correct server, however the keys are ordered and grouped, no *)
(* get is for an unexpected frame, and local input is there when the game  *)
(* asks for it (event-stream-handler.hpp:302-310, 404-409).                *)
(***************************************************************************)
StopsOnlyWhenBroken == \A c \in Clients : stopped[c] => ~up[c]

(***************************************************************************)
(* No game runs away from a player: it can be ahead by the delay of the    *)
(* player's port and one frame, also when that player's stream has broken. *)
(***************************************************************************)
SkewBound ==
  \A c \in Clients, p \in Ports : frame[c] <= frame[owner[p]] + delay[p] + 1

(***************************************************************************)
(* So the queue of a port is bounded (input-queue.hpp inserts without a    *)
(* limit): by the delay of the port, and that of any port of the client    *)
(* the queue belongs to.                                                   *)
(***************************************************************************)
QueueBound ==
  \A c \in Clients, p, own \in Ports :
     owner[own] = c =>
       Cardinality(Buffered(queues[c][p])) <= delay[p] + delay[own] + 2

(***************************************************************************)
(* What makes these three inductive: the phase of its frame a game is in   *)
(* fixes how far each queue has been read, and how far the tapes of its    *)
(* own ports are written, without a hole; no queue holds a frame of the    *)
(* past or of the delay; and a key on its way is one its receiver has not  *)
(* had yet, of another player.                                             *)
(***************************************************************************)
Requested(c, p) ==
  IF pending[c] # {} /\ p \notin pending[c] THEN frame[c] ELSE frame[c] - 1

LastInput(p) ==
  IF pending[owner[p]] # {} THEN frame[owner[p]] + delay[p]
                            ELSE frame[owner[p]] + delay[p] - 1

StillToPlay(q, f) == f > q.latest_frame_requested /\ ~InInitialDelay(q, f)

KeyIsNew(c, k) ==
  /\ owner[k.port] # c
  /\ StillToPlay(queues[c][k.port], k.frame)
  /\ ~HasButtons(queues[c][k.port], k.frame)

PhaseInv ==
  /\ LInv
  /\ \A c \in Clients : reading[c] \subseteq pending[c]
  /\ \A c \in Clients, p \in Ports :
        /\ queues[c][p].latest_frame_requested = Requested(c, p)
        /\ \A f \in Buffered(queues[c][p]) : StillToPlay(queues[c][p], f)
  /\ \A p \in Ports : DOMAIN inputs[p] = 0..LastInput(p)
  /\ \A c \in Clients : \A k \in incoming[c] : KeyIsNew(c, k)
  /\ StopsOnlyWhenBroken

(***************************************************************************)
(* While two streams hold, no input of the one player is lost to the       *)
(* other: it is on its way, in the queue or played, also when the other    *)
(* reads slowly, or reads it while waiting for somebody else               *)
(* (event-stream-handler.hpp:238-241, 366-410).                            *)
(***************************************************************************)
KeysDelivered ==
  \A c \in Clients, p \in Ports : up[c] /\ up[owner[p]] =>
     \A f \in DOMAIN inputs[p] :
        \/ f < Len(played[c][p])
        \/ InInitialDelay(queues[c][p], f)
        \/ HasButtons(queues[c][p], f)
        \/ \E k \in incoming[c] : k.port = p /\ k.frame = f

(***************************************************************************)
(* The games never all wait for each other: while all streams hold, and    *)
(* some game has frames left, one of those games can call its handler, or  *)
(* the input it is blocked on is on its way to it.  GetButtons waits       *)
(* without a deadline (event-stream-handler.hpp:336, 366).                 *)
(***************************************************************************)
Unfinished == { c \in Clients : frame[c] <= MaxFrame }

Waits(c) ==
  \E p \in reading[c] : \A k \in incoming[c] : k.port # p \/ k.frame # frame[c]

SomebodyGoesOn ==
  (\A c \in Clients : up[c]) /\ Unfinished # {} =>
    \E c \in Unfinished : ~stopped[c] /\ ~Waits(c)

\* What makes these two inductive besides: a game is blocked in one get at a
\* time, for input that is missing.
ReadsMissing ==
  \A c \in Clients : \A p \in reading[c] :
     /\ ~Ready(queues[c][p], frame[c])
     /\ reading[c] = {p}

WaitInv == PhaseInv /\ KeysDelivered /\ ReadsMissing

(***************************************************************************)
(* Every game gets to its last frame, or fails when its own stream breaks, *)
(* unless the stream of another player does: the players waiting for each  *)
(* other never all wait (event-stream-handler.hpp:336, 366).               *)
(***************************************************************************)
EveryGameAdvances ==
  \A c \in Clients :
    <>(frame[c] = MaxFrame + 1 \/ stopped[c] \/ \E d \in Clients \ {c} : ~up[d])

(***************************************************************************)
(* Each client's view of a port implements the tape, and the tape is the   *)
(* same for all the clients: the conjunction of all Tape(c, p)!Spec, with  *)
(* the quantifier inside the box.                                          *)
(***************************************************************************)
AsFrames(buttons) ==
  [i \in 1..Len(buttons) |-> [frame |-> i - 1, buttons |-> buttons[i]]]

Tape(c, p) ==
  INSTANCE InputTape
    WITH inputs <- inputs[p], out <- AsFrames(played[c][p]),
         Delays <- {delay[p]}, Frames <- 0..(MaxFrame + delay[p])

SharedTapes ==
  /\ \A c \in Clients, p \in Ports : Tape(c, p)!Init
  /\ [][ \A c \in Clients, p \in Ports :
            [Tape(c, p)!Next]_(Tape(c, p)!vars) ]_vars
=============================================================================
