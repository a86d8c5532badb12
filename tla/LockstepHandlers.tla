-------------------------- MODULE LockstepHandlers --------------------------
(***************************************************************************)
(* The composition: every client of Lockstep is an EventStreamHandler, and *)
(* the game loop and the relaying server are one way to use it.  Lockstep  *)
(* keeps the inputs of the players instead of what each handler put, read  *)
(* and played, so these are computed from it; only what a client has       *)
(* managed to write to its stream needs a variable more.                   *)
(***************************************************************************)
EXTENDS Lockstep, SequencesExt

CONSTANTS PORT_ANY, Garbage

ASSUME PortAnyAssumption == PORT_ANY \notin Ports
ASSUME GarbageAssumption == Garbage \notin Buttons
ASSUME FinitePortsAssumption == IsFiniteSet(Ports)

VARIABLE sent  \* history, of each client: the keys written to its stream

hvars == <<vars, sent>>

HandlersInit == Init /\ sent = [c \in Clients |-> {}]

\* A put whose Write succeeds.
PutAndWrite(c, buttons) ==
  /\ PutButtons(c, buttons)
  /\ sent' = IF up[c] /\ ~stopped'[c]
             THEN [sent EXCEPT ![c] = @ \union OutgoingKeys(c, buttons)] ELSE sent

HandlersNext ==
  \E c \in Clients :
     \/ \E buttons \in [LocalPorts(c) -> Buttons] : PutAndWrite(c, buttons)
     \/ /\ Get(c) \/ Read(c) \/ StreamBreaks(c) \/ ReadFails(c)
        /\ UNCHANGED sent

HandlersSpec == HandlersInit /\ [][HandlersNext]_hvars

-----------------------------------------------------------------------------
(***************************************************************************)
(* What the handler of c has put, read and played, as sets of keys.        *)
(***************************************************************************)
K(port, f, buttons) == [port |-> port, frame |-> f, buttons |-> buttons]

PutBy(c) ==
  UNION { { K(p, f, inputs[p][f]) : f \in DOMAIN inputs[p] \ 0..(delay[p] - 1) }
          : p \in LocalPorts(c) }

PlayedBy(c) ==
  UNION { { K(p, i - 1, played[c][p][i]) : i \in 1..Len(played[c][p]) }
          : p \in Ports }

ReceivedBy(c) ==
  { k \in PlayedBy(c) : owner[k.port] # c /\ k.frame >= delay[k.port] }
    \union UNION { { K(p, f, queues[c][p].frame_buttons[f]) : f \in Buffered(queues[c][p]) }
                   : p \in Ports \ LocalPorts(c) }

StreamOf(c) ==
  IF up[c] THEN "open" ELSE IF stopped[c] THEN "closed" ELSE "broken"

CallOf(c) ==
  IF reading[c] = {}
  THEN [at |-> "idle", port |-> PORT_ANY, frame |-> 0]
  ELSE [at |-> "reading", port |-> CHOOSE p \in reading[c] : TRUE, frame |-> frame[c]]

\* The argument of a put, and an event with keys, in some order.
Batch(c, f, buttons) ==
  SetToSeq({ K(p, f, buttons[p]) : p \in LocalPorts(c) })

KeyEvent(keys) ==
  [ has_stop_console |-> FALSE, has_start_game |-> FALSE, right_console |-> TRUE,
    connected_ports |-> <<>>, has_invalid_data |-> FALSE, key_press |-> SetToSeq(keys) ]

Handler(c) ==
  INSTANCE EventStreamHandler
    WITH Ports <- Ports \union {PORT_ANY}, local_ports <- LocalPorts(c),
         Frames <- 0..MaxFrame, Encodable <- Buttons,
         Batches <- { Batch(c, f, buttons) :
                        f \in 0..MaxFrame, buttons \in [LocalPorts(c) -> Buttons] },
         Events <- { KeyEvent(keys) : keys \in { S \in SUBSET Key : IsFiniteSet(S) } },
         stream <- StreamOf(c), input_queues <- queues[c],
         status_ <- "NOT_YET_STARTED", call <- CallOf(c), config <- delay,
         put <- PutBy(c), sent <- sent[c], received <- ReceivedBy(c),
         played <- PlayedBy(c), put_failed <- sent[c] # PutBy(c),
         logic_error <- FALSE

\* The state the handler of c is mapped from.
HandlerState(c) ==
  <<frame[c], reading[c], queues[c], up[c], stopped[c], played[c], sent[c],
    [p \in LocalPorts(c) |-> inputs[p]]>>

(***************************************************************************)
(* Each step of a game, and of the server on its way to it, is one that    *)
(* EventStreamHandler allows, or leaves the handler alone: what Lockstep   *)
(* says of all clients together it says of the handler that is checked     *)
(* against an arbitrary server, with the same queues, the same early       *)
(* returns, and the same keys on the stream (event-stream-handler.hpp).    *)
(* The disjuncts name the witnesses of EventStreamHandler's Next.          *)
(***************************************************************************)
HandlerStep(c) ==
  \/ /\ up[c] # up'[c]
     /\ Handler(c)!StreamBreaks
  \/ /\ reading[c] # {}
     /\ \/ Handler(c)!ReadFails
        \/ Handler(c)!ReadKeys(KeyEvent(incoming[c] \ incoming'[c]))
  \/ /\ reading[c] = {}
     /\ \/ \E p \in pending[c] : Handler(c)!GetButtons(p, frame[c])
        \/ /\ frame[c] <= MaxFrame
           /\ \E buttons \in [LocalPorts(c) -> Buttons] :
                Handler(c)!PutButtons(Batch(c, frame[c], buttons))

ClientsAreHandlers ==
  /\ \A c \in Clients : Handler(c)!QueuesMatchStart
  /\ [][ \A c \in Clients : UNCHANGED HandlerState(c) \/ HandlerStep(c) ]_hvars

(***************************************************************************)
(* What this rests on besides WaitInv: what was written was put, an event  *)
(* has finitely many keys, a game that gets its input has a frame left,    *)
(* and one that has failed is blocked in no call.                          *)
(***************************************************************************)
HandlersInv ==
  /\ WaitInv
  /\ DOMAIN sent = Clients
  /\ \A c \in Clients :
        /\ sent[c] \subseteq PutBy(c)
        /\ IsFiniteSet(incoming[c])
        /\ pending[c] # {} => frame[c] <= MaxFrame
        /\ stopped[c] => reading[c] = {}
=============================================================================
