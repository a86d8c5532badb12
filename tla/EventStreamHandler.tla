------------------------- MODULE EventStreamHandler -------------------------
(***************************************************************************)
(* One EventStreamHandler (client/event-stream-handler.hpp): the queues of *)
(* one client, between the game that calls it and the stream to the        *)
(* server.  The handler is used by one thread, so a method that does not   *)
(* block is one action; one that blocks in stream_->Read is one action up  *)
(* to the Read and one for each answer of the stream, and in between the   *)
(* stream may break.  The server is not trusted here: it may send any      *)
(* event of Events at any time.                                            *)
(***************************************************************************)
EXTENDS InputQueueData, Sequences

CONSTANTS Ports,        \* the ports of a console, PORT_ANY among them
          PORT_ANY,
          local_ports,  \* the ports of this client
          Frames,       \* bound on the frames the game names
          Encodable,    \* the buttons EncodeButtons can encode
          Garbage,      \* a key that DecodeButtons cannot decode
          Batches,      \* the arguments the game gives PutButtons
          Events        \* the events the server may send

Key == [port : Ports, frame : Int, buttons : Buttons \union {Garbage}]

\* The arguments of PutButtons, and what of an event the handler looks at.
Tuple == [port : Ports, frame : Int, buttons : Buttons]
IncomingEventPB ==
  [ has_stop_console : BOOLEAN, has_start_game : BOOLEAN, right_console : BOOLEAN,
    connected_ports : Seq([port : Ports, delay : Int]),
    has_invalid_data : BOOLEAN, key_press : Seq(Key) ]

\* What the constructor aborts on, and what the inputs look like.
ASSUME PortsAssumption ==
  PORT_ANY \in Ports /\ local_ports \subseteq Ports \ {PORT_ANY}
ASSUME ButtonsAssumption ==
  Encodable \subseteq Buttons /\ Garbage \notin Buttons
ASSUME FramesAssumption == Frames \subseteq Int
ASSUME BatchesAssumption == Batches \subseteq Seq(Tuple)
ASSUME EventsAssumption == Events \subseteq IncomingEventPB

VARIABLES
  stream,        \* stream_: none, open, broken (Write fails) or closed (Read too)
  input_queues,  \* the queue of each connected port
  status_,       \* what status() returns
  call,          \* the blocked call, or idle
  config,        \* history: the delays of the start_game event accepted
  put,           \* history: what the game put into the queues of local ports
  sent,          \* history: the keys written to the stream
  received,      \* history: the keys read off the stream and queued
  played,        \* history: the keys GetButtons returned
  put_failed,    \* history: PutButtons has returned something but SUCCESS
  logic_error    \* history: the branch "Probable logic error." was taken

histories == <<config, put, sent, received, played, put_failed, logic_error>>
vars == <<stream, input_queues, status_, call, histories>>

NoQueues == [p \in {} |-> MakeLocalQueue(0)]
NoConfig == [p \in {} |-> 0]
Idle     == [at |-> "idle", port |-> PORT_ANY, frame |-> 0]

\* WaitForConsoleStart has returned true.
Started == DOMAIN config # {}

Connected(port) == port \in DOMAIN input_queues
Local(port) == port \in local_ports

Init ==
  /\ stream = "none"
  /\ input_queues = NoQueues
  /\ status_ = "NOT_YET_STARTED"
  /\ call = Idle
  /\ config = NoConfig
  /\ put = {} /\ sent = {} /\ received = {} /\ played = {}
  /\ put_failed = FALSE
  /\ logic_error = FALSE

-----------------------------------------------------------------------------
(***************************************************************************)
(* Batches.  PutButtons and ReadUntilButtons walk through a sequence and   *)
(* stop at the first element that fails; those before it stay inserted.    *)
(***************************************************************************)

\* queue->PutButtons succeeds for element i, after those before it.
PutOK(batch, i) ==
  /\ Accepts(input_queues[batch[i].port], batch[i].frame)
  /\ \A j \in 1..(i - 1) : \/ batch[j].port # batch[i].port
                           \/ batch[j].frame # batch[i].frame

\* The number of elements passed before the first one that is not OK.
Passed(batch, ok) ==
  CHOOSE n \in 0..Len(batch) :
    /\ 1..n \subseteq ok
    /\ n < Len(batch) => n + 1 \notin ok

\* The elements of a batch with these indices, as keys at their delayed frame.
AsKeys(batch, indices) ==
  { [batch[i] EXCEPT !.frame =
       DelayedFrame(input_queues[batch[i].port], batch[i].frame)] : i \in indices }

\* The queues with these keys inserted.
Inserted(keys) ==
  [p \in DOMAIN input_queues |->
     LET own == { k \in keys : k.port = p } IN
     InsertAll(input_queues[p],
               [f \in { k.frame : k \in own } |->
                  (CHOOSE k \in own : k.frame = f).buttons])]

-----------------------------------------------------------------------------
(***************************************************************************)
(* Starting the console.                                                   *)
(***************************************************************************)

\* A stream is opened, in place of one there was, and the ready event written
\* to it; Write may fail.
ClientReady ==
  /\ call = Idle
  /\ stream' \in {"open", "broken"}
  /\ UNCHANGED <<input_queues, status_, call, histories>>

\* The console is started once; the caller may try again after a failure.
WaitForConsoleStart ==
  /\ call = Idle
  /\ stream # "none"
  /\ ~Started
  /\ call' = [Idle EXCEPT !.at = "starting"]
  /\ UNCHANGED <<stream, input_queues, status_, histories>>

PortOK(ports, i) ==
  /\ ports[i].port # PORT_ANY
  /\ \A j \in 1..(i - 1) : ports[j].port # ports[i].port

\* The entries handled before the loop of InitializeQueues ends or returns.
Handled(ports) ==
  IF Len(ports) > 4
  THEN 0 ELSE Passed(ports, { i \in 1..Len(ports) : PortOK(ports, i) })

HandledPorts(ports) == { ports[i].port : i \in 1..Handled(ports) }

DelayOf(ports, port) ==
  (CHOOSE e \in { ports[i] : i \in 1..Handled(ports) } : e.port = port).delay

\* input_queues_.emplace keeps a queue that is there already.
Emplaced(ports) ==
  [p \in DOMAIN input_queues \union HandledPorts(ports) |->
     IF Connected(p) THEN input_queues[p]
     ELSE IF Local(p) THEN MakeLocalQueue(DelayOf(ports, p))
                      ELSE MakeRemoteQueue(DelayOf(ports, p))]

\* InitializeQueues returns true.
AllConnected(ports) ==
  /\ Handled(ports) = Len(ports)
  /\ local_ports \subseteq HandledPorts(ports)

\* A bug: the queues of an attempt that failed are kept.
StartedQueuesKept(ports) == Emplaced(ports)

\* What InitializeQueues, and the clear that follows its failure, leave.
StartedQueues(ports) ==
  IF AllConnected(ports) THEN Emplaced(ports) ELSE NoQueues

\* The event WaitForConsoleStart waits for.
StartsConsole(event) ==
  /\ ~event.has_stop_console
  /\ event.has_start_game
  /\ event.right_console

ReadStart(event) ==
  /\ call.at = "starting"
  /\ stream \in {"open", "broken"}
  /\ call' = Idle
  /\ \/ /\ StartsConsole(event)
        /\ input_queues' = StartedQueues(event.connected_ports)
        /\ config' = IF AllConnected(event.connected_ports)
                     THEN [p \in HandledPorts(event.connected_ports) |->
                             DelayOf(event.connected_ports, p)]
                     ELSE config
     \/ /\ ~StartsConsole(event)
        /\ UNCHANGED <<input_queues, config>>
  /\ UNCHANGED <<stream, status_, put, sent, received, played, put_failed,
                 logic_error>>

-----------------------------------------------------------------------------
(***************************************************************************)
(* PutButtons.                                                             *)
(***************************************************************************)

DelayFramesForPort(port) ==
  IF Connected(port) THEN input_queues[port].delay_frames ELSE -1

\* A key of a local port is attached to the outgoing event.
Attached(batch, i) ==
  Local(batch[i].port) => /\ DelayFramesForPort(batch[i].port) >= 0
                          /\ batch[i].buttons \in Encodable

Queued(batch, i) == Connected(batch[i].port) /\ PutOK(batch, i)

\* A bug: only the first tuple of the batch is attached.
OutgoingFirst(batch) ==
  { [batch[i] EXCEPT !.frame = @ + DelayFramesForPort(batch[i].port)]
      : i \in { j \in 1..Len(batch) : j = 1 /\ Local(batch[j].port) } }

\* A bug: the frame is transmitted as the game numbers it.
OutgoingUndelayed(batch) ==
  { batch[i] : i \in { j \in 1..Len(batch) : Local(batch[j].port) } }

\* The event a batch is transmitted as, if all of it was queued and attached.
Outgoing(batch) ==
  { [batch[i] EXCEPT !.frame = @ + DelayFramesForPort(batch[i].port)]
      : i \in { j \in 1..Len(batch) : Local(batch[j].port) } }

(***************************************************************************)
(* The element the loop stops at may be in its queue already, and nothing  *)
(* is sent then; nor is anything taken back when Write fails.              *)
(***************************************************************************)
PutButtons(batch) ==
  LET n == Passed(batch, { i \in 1..Len(batch) :
                             Queued(batch, i) /\ Attached(batch, i) })
      queued == { i \in 1..Len(batch) : i <= n \/ (i = n + 1 /\ Queued(batch, i)) }
      keys == AsKeys(batch, queued)
  IN  /\ call = Idle
      /\ input_queues' = Inserted(keys)
      /\ put' = put \union { k \in keys : Local(k.port) }
      /\ \/ /\ n < Len(batch)
            /\ put_failed' = TRUE
            /\ UNCHANGED sent
         \/ /\ n = Len(batch)
            /\ Outgoing(batch) = {}
            /\ UNCHANGED <<put_failed, sent>>
         \/ /\ n = Len(batch)
            /\ Outgoing(batch) # {}
            /\ stream = "open"
            /\ sent' = sent \union Outgoing(batch)
            /\ UNCHANGED put_failed
         \/ /\ n = Len(batch)
            /\ Outgoing(batch) # {}
            /\ stream # "open"
            /\ put_failed' = TRUE
            /\ UNCHANGED sent
      /\ UNCHANGED <<stream, status_, call, config, received, played,
                     logic_error>>

-----------------------------------------------------------------------------
(***************************************************************************)
(* GetButtons.                                                             *)
(***************************************************************************)

\* A get that succeeds, from the queues given: the current ones, or those
\* with the keys of an event inserted.
Play(queues, port, frame) ==
  /\ input_queues' = [queues EXCEPT ![port] = Advance(@, frame)]
  /\ played' = played \union
       {[port |-> port, frame |-> frame, buttons |-> Answer(queues[port], frame)]}

(***************************************************************************)
(* A get that finds its frame in the queue returns it.  Otherwise a local  *)
(* port fails, and so does a frame that is not the next one; only a remote *)
(* port goes on to read the stream.                                        *)
(***************************************************************************)
GetButtons(port, frame) ==
  /\ call = Idle
  /\ Connected(port)
  /\ \/ /\ Ready(input_queues[port], frame)
        /\ Play(input_queues, port, frame)
        /\ UNCHANGED call
     \/ /\ ~Ready(input_queues[port], frame)
        /\ ~Local(port)
        /\ frame = ExpectedFrame(input_queues[port])
        /\ call' = [at |-> "reading", port |-> port, frame |-> frame]
        /\ UNCHANGED <<input_queues, played>>
     \/ /\ ~Ready(input_queues[port], frame)
        /\ Local(port) \/ frame # ExpectedFrame(input_queues[port])
        /\ UNCHANGED <<input_queues, played, call>>
  /\ UNCHANGED <<stream, status_, config, put, sent, received, put_failed,
                 logic_error>>

\* An event that is not about keys ends ReadUntilButtons, whatever it carries.
ReadManagement(event) ==
  /\ call.at = "reading"
  /\ stream \in {"open", "broken"}
  /\ event.has_stop_console \/ event.has_start_game \/ event.has_invalid_data
  /\ call' = Idle
  /\ UNCHANGED <<stream, input_queues, status_, histories>>

\* The element of the event can be decoded and queued.
KeyOK(keys, i) ==
  /\ Connected(keys[i].port)
  /\ keys[i].buttons # Garbage
  /\ PutOK(keys, i)

\* A bug: the port of the key is not compared.
FoundOnAnyPort(keys, n) == \E i \in 1..n : keys[i].frame = call.frame

\* A bug: each key of the event overwrites the answer of the one before.
FoundLast(keys, n) ==
  n > 0 /\ keys[n].port = call.port /\ keys[n].frame = call.frame

\* The requested key is among the first n.
Found(keys, n) ==
  \E i \in 1..n : keys[i].port = call.port /\ keys[i].frame = call.frame

(***************************************************************************)
(* An event with keys.  A key that fails ends the call with FAILURE, even  *)
(* when the requested key came before it.  Once the requested key is found *)
(* the queue is asked again, and is not expected to refuse.                *)
(***************************************************************************)
ReadKeys(event) ==
  LET keys == event.key_press
      n == Passed(keys, { i \in 1..Len(keys) : KeyOK(keys, i) })
      queues == Inserted(AsKeys(keys, 1..n))
  IN  /\ call.at = "reading"
      /\ stream \in {"open", "broken"}
      /\ ~event.has_stop_console
      /\ ~event.has_start_game
      /\ ~event.has_invalid_data
      /\ received' = received \union { keys[i] : i \in 1..n }
      /\ \/ /\ n < Len(keys)
            /\ input_queues' = queues
            /\ call' = Idle
            /\ UNCHANGED <<played, logic_error>>
         \/ /\ n = Len(keys)
            /\ ~Found(keys, n)
            /\ input_queues' = queues
            /\ UNCHANGED <<call, played, logic_error>>
         \/ /\ n = Len(keys)
            /\ Found(keys, n)
            /\ Ready(queues[call.port], call.frame)
            /\ Play(queues, call.port, call.frame)
            /\ call' = Idle
            /\ UNCHANGED logic_error
         \/ /\ n = Len(keys)
            /\ Found(keys, n)
            /\ ~Ready(queues[call.port], call.frame)
            /\ input_queues' = queues
            /\ logic_error' = TRUE
            /\ call' = Idle
            /\ UNCHANGED played
      /\ UNCHANGED <<stream, status_, config, put, sent, put_failed>>

-----------------------------------------------------------------------------
(***************************************************************************)
(* The stream.                                                             *)
(***************************************************************************)

\* Read returns false: the blocked call fails, and so will the next Read.
ReadFails ==
  /\ call # Idle
  /\ stream \in {"broken", "closed"}
  /\ stream' = "closed"
  /\ call' = Idle
  /\ UNCHANGED <<input_queues, status_, histories>>

\* The network fails, or the server ends the stream.  TryCancel asks for the
\* same and, as its comment says, cannot guarantee it.
StreamBreaks ==
  /\ stream = "open"
  /\ stream' = "broken"
  /\ UNCHANGED <<input_queues, status_, call, histories>>

TryCancel ==
  /\ stream # "none"
  /\ stream' \in {stream, "closed"}
  /\ UNCHANGED <<input_queues, status_, call, histories>>

Next ==
  \/ ClientReady \/ WaitForConsoleStart
  \/ ReadFails \/ StreamBreaks \/ TryCancel
  \/ \E event \in Events :
       ReadStart(event) \/ ReadManagement(event) \/ ReadKeys(event)
  \/ \E batch \in Batches : PutButtons(batch)
  \/ \E port \in Ports, frame \in Frames : GetButtons(port, frame)

Spec == Init /\ [][Next]_vars
-----------------------------------------------------------------------------
(***************************************************************************)
(* Every variable stays in its type.                                       *)
(***************************************************************************)
TypeOK ==
  /\ stream \in {"none", "open", "broken", "closed"}
  /\ \A p \in DOMAIN input_queues : IsQueue(input_queues[p])
  /\ status_ \in {"NOT_YET_STARTED", "CONSOLE_RUNNING", "CONSOLE_TERMINATED"}
  /\ call \in [at : {"idle", "starting", "reading"}, port : Ports,
              frame : Frames \union {Idle.frame}]
  /\ DOMAIN config \subseteq Ports
  /\ put \union sent \union received \union played \subseteq Key
  /\ put_failed \in BOOLEAN /\ logic_error \in BOOLEAN

(***************************************************************************)
(* What the port's queue holds, or its game has been given, for a frame.   *)
(***************************************************************************)
TapeAt(port, frame) ==
  { k.buttons : k \in { l \in played : l.port = port /\ l.frame = frame } }
    \union (IF HasButtons(input_queues[port], frame)
            THEN {input_queues[port].frame_buttons[frame]} ELSE {})

(***************************************************************************)
(* After GOT_BUTTONS the queue has the buttons for the requested frame     *)
(* (event-stream-handler.h:170-176): the branch that logs "Probable logic  *)
(* error." (event-stream-handler.hpp:342-349) is dead, whatever order,     *)
(* grouping or repetition of keys the server chooses.                      *)
(***************************************************************************)
GotButtonsMeansReady == ~logic_error

(***************************************************************************)
(* What the other clients are told of a local port is what this client     *)
(* plays on it: a key that was written is in the queue or was returned,    *)
(* with those buttons and no others, at the frame that was written         *)
(* (event-stream-handler.hpp:216-241).                                     *)
(***************************************************************************)
SentIsPlayed ==
  \A k \in sent : TapeAt(k.port, k.frame) = {k.buttons}

(***************************************************************************)
(* The converse: the game never plays local input the others have not been *)
(* told of, unless a call of PutButtons returned an error.                 *)
(***************************************************************************)
UnsentOnlyAfterFailure ==
  /\ sent \subseteq put
  /\ put # sent => put_failed

(***************************************************************************)
(* What the server says of a remote port is what is played on it, in spite *)
(* of contradictory keys, calls that fail half way through an event, and   *)
(* reads abandoned for a broken stream.                                    *)
(***************************************************************************)
ReceivedIsPlayed ==
  \A k \in received :
     ~Local(k.port) => TapeAt(k.port, k.frame) = {k.buttons}

(***************************************************************************)
(* On each port the game is given frames 0, 1, 2, ... without a hole, and  *)
(* one input for each.                                                     *)
(***************************************************************************)
PlayedInOrder ==
  \A p \in DOMAIN input_queues :
     LET latest == input_queues[p].latest_frame_requested
         frames == { k.frame : k \in { l \in played : l.port = p } }
     IN  /\ frames = 0..latest
         /\ \A k, l \in played :
              k.port = p /\ l.port = p /\ k.frame = l.frame => k = l

(***************************************************************************)
(* The handler blocks on the stream only for the next frame of a remote    *)
(* port, and only while that frame is missing: it never sleeps on input    *)
(* that came earlier, in the middle of another event.                      *)
(***************************************************************************)
ReadsOnlyWhatIsMissing ==
  call.at = "reading" =>
    /\ ~Local(call.port)
    /\ Connected(call.port)
    /\ call.frame = ExpectedFrame(input_queues[call.port])
    /\ ~HasButtons(input_queues[call.port], call.frame)
    /\ ~InInitialDelay(input_queues[call.port], call.frame)

(***************************************************************************)
(* There are queues exactly for the ports of the start_game event that was *)
(* accepted, all local ports among them, with its delays: an attempt that  *)
(* failed half way leaves none behind (event-stream-handler.hpp:121-125;   *)
(* event-stream-handler.h:138-141).                                        *)
(***************************************************************************)
QueuesMatchStart ==
  /\ DOMAIN input_queues = DOMAIN config
  /\ Started => local_ports \subseteq DOMAIN config
  /\ \A p \in DOMAIN config :
        /\ input_queues[p].initial_frame_delay = config[p]
        /\ input_queues[p].delay_frames = IF Local(p) THEN config[p] ELSE 0

-----------------------------------------------------------------------------
(***************************************************************************)
(* What an induction over the calls of a handler needs besides.            *)
(***************************************************************************)

\* No queue and no call survives from before the console was started.
StartsOnce ==
  /\ call.at = "starting" => ~Started
  /\ \A k \in put \union received \union played : Connected(k.port)

\* A queue holds no frame that was already answered, or will be by the delay.
BufferedAhead ==
  \A p \in DOMAIN input_queues : \A f \in Buffered(input_queues[p]) :
     /\ f > input_queues[p].latest_frame_requested
     /\ ~InInitialDelay(input_queues[p], f)

\* As SentIsPlayed, for what was queued and not written as well.
PutIsPlayed ==
  \A k \in put : TapeAt(k.port, k.frame) = {k.buttons}

HInv ==
  /\ TypeOK
  /\ QueuesMatchStart
  /\ PlayedInOrder
  /\ ReadsOnlyWhatIsMissing
  /\ UnsentOnlyAfterFailure
  /\ ReceivedIsPlayed
  /\ GotButtonsMeansReady
  /\ StartsOnce
  /\ BufferedAhead
  /\ PutIsPlayed

(***************************************************************************)
(* What event-stream-handler.h:28-40 says of status(): NOT_YET_STARTED     *)
(* until the console was started, CONSOLE_RUNNING from then on.            *)
(***************************************************************************)
StatusFollowsConsole ==
  Started => status_ \in {"CONSOLE_RUNNING", "CONSOLE_TERMINATED"}
=============================================================================
