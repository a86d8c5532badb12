------------------------------ MODULE Session ------------------------------
(***************************************************************************)
(* From the start of the emulator to the first frame: what the plugin of   *)
(* each machine does in its entry points (mupen64.cc, plugin-impl.cc), and *)
(* most of all in InitiateNetplay, with the RPCs of NetplayClient and      *)
(* host_utils, and what the scripts do.  Each stage ends in a              *)
(* call to the server or to the player, so each is an action, and the      *)
(* machines interleave between them.  An RPC that fails may have reached   *)
(* the server or not.  The server itself is not in the repository: it      *)
(* plugs ports that are free in a console that has not started, and starts *)
(* a console when all its clients are ready (integration-tests.cc:96-136). *)
(***************************************************************************)
EXTENDS Integers, Sequences, FiniteSets, Functions

CONSTANTS Machines,
          Channels,        \* of each machine: the input channels present
          delay_frames,    \* of each machine: the delay in its configuration
          Configurations,  \* the Port*Request settings a player may choose
          MaxConsoles,     \* bound on the consoles ever made
          MaxAttempts      \* of each machine: bound on the games it starts

M64Ports == {"PORT_1", "PORT_2", "PORT_3", "PORT_4"}
Port == M64Ports \union {"PORT_ANY", "UNKNOWN"}
ConsoleIds == 1..MaxConsoles

ASSUME ChannelsAssumption == Channels \in [Machines -> SUBSET (0..3)]
ASSUME DelayAssumption == delay_frames \in [Machines -> Int]
ASSUME ConfigurationsAssumption == Configurations \subseteq [1..4 -> Int]
ASSUME BoundsAssumption ==
  MaxConsoles \in Nat /\ MaxAttempts \in [Machines -> Nat]

VARIABLES
  at,           \* the stage of InitiateNetplay, or how it ended
  attempts,     \* the games started so far
  enabled,      \* *netplay_info->Enabled, which the emulator keeps
  handler,      \* l_PluginImpl is there, and it has a stream_handler_
  created,      \* created_new_console
  console,      \* new_console_id
  client,       \* client_: the NetplayClient
  controllers,  \* netplay_info->NetplayControls
  consoles,     \* the server: what is plugged into each console, and who is ready
  clients,      \* the server: the client ids given out
  arriving      \* the ready events on their way to the server

plugin == <<enabled, handler, created, console, client, controllers>>
server == <<consoles, clients, arriving>>
vars == <<at, attempts, plugin, server>>

NewClient == [console_id |-> -1, client_id |-> -1, local_ports |-> <<>>]
NewConsole == [plugged |-> {}, ready |-> {}, started |-> FALSE]
Absent == [Present |-> 0, Remote |-> 0, Delay |-> -1, Channel |-> -1]
NoControllers == [i \in 0..3 |-> Absent]

Init ==
  /\ at = [m \in Machines |-> "loaded"]
  /\ attempts = [m \in Machines |-> 0]
  /\ enabled = [m \in Machines |-> FALSE]
  /\ handler = [m \in Machines |-> FALSE]
  /\ created = [m \in Machines |-> FALSE]
  /\ console = [m \in Machines |-> -1]
  /\ client = [m \in Machines |-> NewClient]
  /\ controllers = [m \in Machines |-> NoControllers]
  /\ consoles = [id \in {} |-> NewConsole]
  /\ clients = 0
  /\ arriving = {}

GoTo(m, stage) == at' = [at EXCEPT ![m] = stage]

\* InitiateNetplay returns 0; what was made for it stays where it is.
Fail(m) == GoTo(m, "failed") /\ UNCHANGED <<attempts, plugin>>

-----------------------------------------------------------------------------
(***************************************************************************)
(* The conversions of util.cc.                                             *)
(***************************************************************************)
M64RequestedIntToPort(encoded) ==
  IF encoded \in 0..4
  THEN <<"PORT_ANY", "PORT_1", "PORT_2", "PORT_3", "PORT_4">>[encoded + 1]
  ELSE "UNKNOWN"

M64PortToPort(index) ==
  IF index \in 0..3
  THEN <<"PORT_1", "PORT_2", "PORT_3", "PORT_4">>[index + 1] ELSE "UNKNOWN"

PortToM64Port(port) ==
  IF port \in M64Ports THEN CHOOSE i \in 0..3 : M64PortToPort(i) = port ELSE -1

-----------------------------------------------------------------------------
\* A bug: the client of the game before is used again.
ClientKept(m) == client[m]

\* l_PluginImpl is made anew for every game, with a client of its own.
ClientOfNewGame(m) == NewClient

\* The emulator has loaded the plugin.  Any further call changes nothing, and
\* neither do PluginShutdown, RomOpen and RomClosed.
PluginStartup(m) ==
  /\ at[m] = "loaded"
  /\ GoTo(m, "idle")
  /\ UNCHANGED <<attempts, plugin, server>>

\* MakeConfigHandler returns no configuration, and that is dereferenced.
ConfigMissing(m) == GoTo(m, "crashed") /\ UNCHANGED plugin

\* Netplay is disabled in the configuration, or the configuration is the
\* default one since the name of the server could not be read.
ConfigDisabled(m) == GoTo(m, "off") /\ UNCHANGED plugin

\* A plugin of its own for this game, without a handler yet.  A controller in
\* RawData mode ends the attempt.
ConfigEnabled(m) ==
  /\ GoTo(m, "asking") \/ GoTo(m, "failed")
  /\ enabled' = [enabled EXCEPT ![m] = TRUE]
  /\ handler' = [handler EXCEPT ![m] = FALSE]
  /\ created' = [created EXCEPT ![m] = FALSE]
  /\ console' = [console EXCEPT ![m] = -1]
  /\ client' = [client EXCEPT ![m] = ClientOfNewGame(m)]
  /\ controllers' = [controllers EXCEPT ![m] = NoControllers]

\* A game is opened.
InitiateNetplay(m) ==
  /\ at[m] \in {"idle", "off", "failed", "playing"}
  /\ attempts[m] < MaxAttempts[m]
  /\ attempts' = [attempts EXCEPT ![m] = @ + 1]
  /\ ConfigMissing(m) \/ ConfigDisabled(m) \/ ConfigEnabled(m)
  /\ UNCHANGED server

\* The emulator calls PutKeys and GetKeys in a game it runs with netplay
\* enabled.  What they do with a handler is the subject of Lockstep.
Keys(m) ==
  /\ at[m] \in {"off", "playing"}
  /\ enabled[m]
  /\ ~handler[m]
  /\ GoTo(m, "crashed")
  /\ UNCHANGED <<attempts, plugin, server>>

(***************************************************************************)
(* The player ends the emulator (Read has no deadline, there is no other   *)
(* way out of a wait), or it has crashed, and starts it again.  Nothing of *)
(* the plugin is persistent.                                               *)
(***************************************************************************)
Restart(m) ==
  /\ at[m] # "loaded"
  /\ attempts[m] < MaxAttempts[m]
  /\ GoTo(m, "loaded")
  /\ enabled' = [enabled EXCEPT ![m] = FALSE]
  /\ handler' = [handler EXCEPT ![m] = FALSE]
  /\ created' = [created EXCEPT ![m] = FALSE]
  /\ console' = [console EXCEPT ![m] = -1]
  /\ client' = [client EXCEPT ![m] = NewClient]
  /\ controllers' = [controllers EXCEPT ![m] = NoControllers]
  /\ UNCHANGED <<attempts, server>>

-----------------------------------------------------------------------------
\* The server makes a console, if it may.
AddConsole ==
  /\ Cardinality(DOMAIN consoles) < MaxConsoles
  /\ consoles' = [id \in DOMAIN consoles \union {Cardinality(DOMAIN consoles) + 1} |->
                    IF id \in DOMAIN consoles THEN consoles[id] ELSE NewConsole]
  /\ UNCHANGED <<clients, arriving>>

\* The script make-console.
MakeConsole == AddConsole /\ UNCHANGED <<at, attempts, plugin>>

\* ReadBool and ReadInt64 give up when the input has ended or is no answer.
InputEnds(m) == Fail(m) /\ UNCHANGED server

UseConsole(m, id, is_new) ==
  /\ GoTo(m, "requesting")
  /\ created' = [created EXCEPT ![m] = is_new]
  /\ console' = [console EXCEPT ![m] = id]
  /\ UNCHANGED <<attempts, enabled, handler, client, controllers>>

\* The dialogue asks for a console.  When the server refuses, MakeConsole of
\* host_utils still returns true, and the id is read without having been written.
CreateConsole(m) ==
  \/ Fail(m) /\ AddConsole
  \/ /\ AddConsole
     /\ UseConsole(m, Cardinality(DOMAIN consoles) + 1, TRUE)
  \/ \E id \in ConsoleIds \union {-1} :
       UseConsole(m, id, TRUE) /\ UNCHANGED server

\* The dialogue: the input ends (an RPC that does not reach the server does the
\* same), an id is typed in, or a console is asked for.
InteractiveConfig(m) ==
  /\ at[m] = "asking"
  /\ \/ InputEnds(m)
     \/ \E id \in ConsoleIds : UseConsole(m, id, FALSE) /\ UNCHANGED server
     \/ CreateConsole(m)

-----------------------------------------------------------------------------
\* A setting of -1 asks for no port.  An integer that the protocol has not got
\* in its enumeration (which is not in the repository) makes InitiateNetplay give
\* up, and one that it has, and that is none of 0..4, asks for UNKNOWN.
PortRequest(encoded) ==
  IF encoded = -1 THEN <<>> ELSE <<M64RequestedIntToPort(encoded)>>

\* The ports asked for by the four settings, in their order.
RequestedPorts(configuration) ==
  PortRequest(configuration[1]) \o PortRequest(configuration[2])
    \o PortRequest(configuration[3]) \o PortRequest(configuration[4])

\* PlugControllers sends what asks for one to four ports, whatever these are.
ValidRequest(requested) == Len(requested) \in 1..4

\* The ports the server may answer with, in the order of the request.  It plugs
\* none when UNKNOWN is asked for.
Assignments(id, requested) ==
  LET free == M64Ports \ { e.port : e \in consoles[id].plugged }
  IN  { ports \in [1..Len(requested) -> free] :
          /\ IsInjective(ports)
          /\ \A i \in 1..Len(requested) : requested[i] \in {"PORT_ANY", ports[i]} }

\* The server plugs these ports for a client with a new id.
Plug(id, ports, delay) ==
  /\ clients' = clients + 1
  /\ consoles' = [consoles EXCEPT ![id].plugged = @ \union
       { [client |-> clients + 1, port |-> p, delay |-> delay] : p \in Range(ports) }]
  /\ UNCHANGED arriving

\* A bug: the client takes the ports it asked for.
PortsAskedFor(requested, response) == requested

\* The ports the client appends to local_ports_: those of the response.
PortsAnswered(requested, response) == response

\* An answer that is about this console: the client takes what it says,
\* whatever its status.
TakeAnswer(m, client_id, ports) ==
  /\ GoTo(m, "plugged")
  /\ client' = [client EXCEPT ![m] =
       [ console_id  |-> console[m],
         client_id   |-> client_id,
         local_ports |-> @.local_ports \o ports ]]
  /\ UNCHANGED <<attempts, enabled, handler, created, console, controllers>>

(***************************************************************************)
(* The requested ports, and the RPC.  A setting may be no port at all, and *)
(* the RPC may fail before or after the server has plugged the ports; an   *)
(* answer about another console fails too.                                 *)
(***************************************************************************)
PlugControllers(m) ==
  /\ at[m] = "requesting"
  /\ \E configuration \in Configurations :
       LET requested == RequestedPorts(configuration) IN
       \/ Fail(m) /\ UNCHANGED server
       \/ /\ ValidRequest(requested)
          /\ console[m] \in DOMAIN consoles
          /\ ~consoles[console[m]].started
          /\ \E ports \in Assignments(console[m], requested) :
               /\ Plug(console[m], ports, delay_frames[m])
               /\ \/ TakeAnswer(m, clients + 1, PortsAnswered(requested, ports))
                  \/ Fail(m)
       \/ /\ ValidRequest(requested)      \* refused
          /\ TakeAnswer(m, 0, <<>>)
          /\ UNCHANGED server

-----------------------------------------------------------------------------
\* What the constructor of EventStreamHandler does not abort on.
HandlerOK(c) ==
  /\ c.console_id > 0
  /\ c.client_id > 0
  /\ Len(c.local_ports) <= 4
  /\ IsInjective(c.local_ports)
  /\ "PORT_ANY" \notin Range(c.local_ports)

MakeEventStreamHandler(m) ==
  /\ at[m] = "plugged"
  /\ \/ /\ HandlerOK(client[m])
        /\ GoTo(m, "made")
        /\ handler' = [handler EXCEPT ![m] = TRUE]
     \/ /\ ~HandlerOK(client[m])
        /\ GoTo(m, "aborted")
        /\ UNCHANGED handler
  /\ UNCHANGED <<attempts, enabled, created, console, client, controllers, server>>

\* A bug: who starts the console is not told to be ready as well.
ReadyUnlessStarting(m) ==
  IF created[m] THEN {}
  ELSE {[id |-> client[m].console_id, client |-> client[m].client_id]}

ReadyEvent(m) == {[id |-> client[m].console_id, client |-> client[m].client_id]}

\* The ready event is written to the stream, or the write fails.
ClientReady(m) ==
  /\ at[m] = "made"
  /\ \/ Fail(m) /\ UNCHANGED server
     \/ /\ GoTo(m, IF created[m] THEN "starting" ELSE "waiting")
        /\ arriving' = arriving \union ReadyEvent(m)
        /\ UNCHANGED <<attempts, plugin, consoles, clients>>

\* The server reads a ready event; it may come after a StartGame sent later.
ReceiveReady(event) ==
  /\ event \in arriving
  /\ arriving' = arriving \ {event}
  /\ consoles' = [consoles EXCEPT ![event.id].ready = @ \union {event.client}]
  /\ UNCHANGED <<at, attempts, plugin, clients>>

MayStart(id) ==
  /\ id \in DOMAIN consoles
  /\ ~consoles[id].started
  /\ consoles[id].plugged # {}
  /\ { e.client : e \in consoles[id].plugged } \subseteq consoles[id].ready

Start(id) ==
  /\ MayStart(id)
  /\ consoles' = [consoles EXCEPT ![id].started = TRUE]
  /\ UNCHANGED <<clients, arriving>>

\* The script start-game starts a console as well.
StartGame(id) == Start(id) /\ UNCHANGED <<at, attempts, plugin>>

\* StartGame of host_utils: the console is started, or the server refuses, or it
\* is not reached.  It returns true when the RPC went through, also when refused.
RequestStart(id) == Start(id) \/ UNCHANGED server

\* The player presses enter.
InteractiveStartConsole(m) ==
  /\ at[m] = "starting"
  /\ RequestStart(console[m])
  /\ \/ Fail(m)
     \/ GoTo(m, "waiting") /\ UNCHANGED <<attempts, plugin>>

-----------------------------------------------------------------------------
Connected(id) == { e.port : e \in consoles[id].plugged }

DelayOf(id, port) == (CHOOSE e \in consoles[id].plugged : e.port = port).delay

\* A bug: the channels are numbered instead of listed.
ChannelNumbered(m, port) ==
  Cardinality({ p \in Range(client[m].local_ports) :
                  PortToM64Port(p) < PortToM64Port(port) })

\* The sorted set of local ports and the available channels, pairwise.
ChannelOf(m, port) ==
  CHOOSE channel \in Channels[m] :
    Cardinality({ c \in Channels[m] : c < channel }) =
      Cardinality({ p \in Range(client[m].local_ports) :
                      PortToM64Port(p) < PortToM64Port(port) })

\* The loops of PermuteNetplayControllers.
PermuteNetplayControllers(m, id) ==
  [i \in 0..3 |->
     LET port == M64PortToPort(i) IN
     IF port \in Range(client[m].local_ports)
     THEN [Present |-> 1, Remote |-> 0, Delay |-> DelayOf(id, port),
           Channel |-> ChannelOf(m, port)]
     ELSE IF port \in Connected(id)
     THEN [Present |-> 1, Remote |-> 1, Delay |-> 0, Channel |-> -1]
     ELSE controllers[m][i]]

\* A bug: the first event is taken for the start of the game.
AnyEvent(m, id) == id = client[m].console_id

\* The server has sent the start_game event of console id to the client.
StartGameEvent(m, id) ==
  /\ id = client[m].console_id
  /\ consoles[id].started
  /\ client[m].client_id \in consoles[id].ready

\* The channels of the machine are as many as its ports.
ChannelsFit(m) == Cardinality(Channels[m]) = Cardinality(Range(client[m].local_ports))

(***************************************************************************)
(* WaitForConsoleStart reads the event, and the controllers are permuted   *)
(* unless their number does not fit.                                       *)
(***************************************************************************)
WaitForConsoleStart(m) ==
  /\ at[m] = "waiting"
  /\ UNCHANGED server
  /\ \E id \in DOMAIN consoles :
       /\ StartGameEvent(m, id)
       /\ \/ ~ChannelsFit(m) /\ Fail(m)
          \/ /\ ChannelsFit(m)
             /\ GoTo(m, "playing")
             /\ controllers' =
                  [controllers EXCEPT ![m] = PermuteNetplayControllers(m, id)]
             /\ UNCHANGED <<attempts, enabled, handler, created, console, client>>

\* The stream ends, or the next event is another one.
WaitFails(m) == at[m] = "waiting" /\ Fail(m) /\ UNCHANGED server

Next ==
  \/ \E m \in Machines :
       \/ PluginStartup(m) \/ InitiateNetplay(m) \/ Keys(m) \/ Restart(m)
       \/ InteractiveConfig(m) \/ PlugControllers(m)
       \/ MakeEventStreamHandler(m) \/ ClientReady(m)
       \/ InteractiveStartConsole(m) \/ WaitForConsoleStart(m) \/ WaitFails(m)
  \/ \E event \in arriving : ReceiveReady(event)
  \/ \E id \in ConsoleIds : StartGame(id)
  \/ MakeConsole

Spec == Init /\ [][Next]_vars

(***************************************************************************)
(* Each machine goes on with what it does not wait for, and reads what has *)
(* been sent to it (InitiateNetplay calls one after the other), and the    *)
(* server reads what it was sent.  A call or a stream may still fail.      *)
(* Nothing is assumed of the players, and so nobody need ever ask for the  *)
(* start: the plugin asks once, when its player presses enter, and does    *)
(* not look at the answer (plugin-impl.cc:96-99, 304-324).                 *)
(***************************************************************************)
FairSpec ==
  /\ Spec
  /\ \A m \in Machines :
        /\ WF_vars(MakeEventStreamHandler(m))
        /\ WF_vars(ClientReady(m))
        /\ WF_vars(WaitForConsoleStart(m))
  /\ WF_vars(\E event \in arriving : ReceiveReady(event))

-----------------------------------------------------------------------------
(***************************************************************************)
(* Every variable stays in its type.                                       *)
(***************************************************************************)
TypeOK ==
  /\ at \in [Machines -> {"loaded", "idle", "off", "asking", "requesting", "plugged",
                          "made", "starting", "waiting", "playing", "failed",
                          "aborted", "crashed"}]
  /\ DOMAIN attempts = Machines
  /\ \A m \in Machines : attempts[m] \in 0..MaxAttempts[m]
  /\ {enabled, handler, created} \subseteq [Machines -> BOOLEAN]
  /\ console \in [Machines -> ConsoleIds \union {-1}]
  /\ client \in
       [Machines -> [console_id : ConsoleIds \union {-1}, client_id : -1..clients,
                     local_ports : Seq(M64Ports)]]
  /\ controllers \in
       [Machines -> [0..3 -> [Present : {0, 1}, Remote : {0, 1}, Delay : Int,
                              Channel : -1..3]]]
  /\ clients \in Nat
  /\ DOMAIN consoles = 1..Cardinality(DOMAIN consoles)
  /\ DOMAIN consoles \subseteq ConsoleIds
  /\ \A id \in DOMAIN consoles :
        consoles[id] \in
          [plugged : SUBSET [client : 1..clients, port : M64Ports, delay : Int],
           ready : SUBSET (1..clients), started : BOOLEAN]
  /\ arriving \subseteq [id : ConsoleIds, client : 1..clients]

Owner(id, port) == (CHOOSE e \in consoles[id].plugged : e.port = port).client

ControllersMatch(m) ==
  LET id == console[m]
      c  == controllers[m]
      local == { i \in 0..3 : c[i].Present = 1 /\ c[i].Remote = 0 }
  IN  /\ { i \in 0..3 : c[i].Present = 1 } =
           { PortToM64Port(p) : p \in Connected(id) }
      /\ local = { PortToM64Port(p) : p \in
                     { q \in Connected(id) : Owner(id, q) = client[m].client_id } }
      /\ \A i \in local : c[i].Delay = delay_frames[m]
      /\ \A i \in 0..3 : c[i].Remote = 1 => c[i].Delay = 0 /\ c[i].Channel = -1
      /\ { c[i].Channel : i \in local } = Channels[m]
      /\ \A i, j \in local : i < j => c[i].Channel < c[j].Channel

(***************************************************************************)
(* When InitiateNetplay has returned 1, the emulator's controllers are the *)
(* ports of the server's console, whatever games were tried before: the    *)
(* ports of this client are local, with its delay and one input channel    *)
(* each, in the same order, and all others are remote, without a channel   *)
(* and with the delay 0 of a remote queue (plugin-impl.cc:173-224).        *)
(***************************************************************************)
ControllersMatchConsole ==
  \A m \in Machines : at[m] = "playing" => ControllersMatch(m)

(***************************************************************************)
(* What lock-step rests on (OwnerAssumption of Lockstep): machines that    *)
(* play on the same console have the same controllers, and no two of them  *)
(* put input for the same one, whatever games each has tried before, and   *)
(* in whatever order they were plugged and started (client.hpp:81-84,      *)
(* plugin-impl.cc:173-224).                                                *)
(***************************************************************************)
PresentOn(m) == { i \in 0..3 : controllers[m][i].Present = 1 }
LocalOn(m) == { i \in PresentOn(m) : controllers[m][i].Remote = 0 }

OneOwnerPerPort ==
  \A m, n \in Machines :
     m # n /\ at[m] = "playing" /\ at[n] = "playing" /\ console[m] = console[n] =>
       /\ PresentOn(m) = PresentOn(n)
       /\ LocalOn(m) \intersect LocalOn(n) = {}

(***************************************************************************)
(* The constructor of the handler aborts the emulator only for a client    *)
(* the server refused: a client that was plugged never has a port twice,   *)
(* whatever failed in the games before (event-stream-handler.hpp:24-45,    *)
(* client.hpp:81-84 appends to local_ports_).                              *)
(***************************************************************************)
PluggedNeverAborts ==
  \A m \in Machines : at[m] = "aborted" =>
    \A id \in DOMAIN consoles : \A e \in consoles[id].plugged :
       e.client # client[m].client_id

(***************************************************************************)
(* No game plays while a client of its console is still on its way to the  *)
(* ready event: the first frame waits for nobody who may give up first.    *)
(***************************************************************************)
PlaysTogether ==
  \A m, n \in Machines :
     /\ at[m] = "playing"
     /\ n # m
     /\ client[n].console_id = client[m].console_id
     /\ client[n].client_id \in { e.client : e \in consoles[console[m]].plugged }
     => at[n] \notin {"plugged", "made"}

(***************************************************************************)
(* What an induction over the steps of all machines needs besides, first   *)
(* of one machine and the server.                                          *)
(***************************************************************************)

\* The stages in which client_ is what PlugControllers was answered.
Answered == {"plugged", "made", "starting", "waiting", "playing", "aborted"}

\* A game starts with a client that has no ports, and goes on with one the
\* constructor of the handler does not abort on.
ClientFits(m) ==
  /\ at[m] \in {"asking", "requesting"} => client[m] = NewClient
  /\ at[m] \in Answered => client[m].console_id = console[m]
  /\ at[m] = "plugged" /\ client[m].client_id > 0 => HandlerOK(client[m])
  /\ at[m] \in {"made", "starting", "waiting", "playing"} => HandlerOK(client[m])
  /\ at[m] = "aborted" => client[m].client_id <= 0
  /\ at[m] \in {"asking", "requesting", "plugged", "made", "starting", "waiting"}
       => controllers[m] = NoControllers

\* The ports of a client are those the server has plugged for it.
PortsArePlugged(m) ==
  at[m] \in Answered /\ client[m].client_id > 0 =>
    /\ console[m] \in DOMAIN consoles
    /\ Range(client[m].local_ports) =
         { e.port : e \in { d \in consoles[console[m]].plugged :
                              d.client = client[m].client_id } }
    /\ \A e \in consoles[console[m]].plugged :
         e.client = client[m].client_id => e.delay = delay_frames[m]

\* Nobody has told the server that a client without a handler is ready.
NotReadyYet(m) ==
  at[m] \in {"plugged", "made"} =>
    /\ \A id \in DOMAIN consoles : client[m].client_id \notin consoles[id].ready
    /\ \A event \in arriving : event.client # client[m].client_id

PlaysStartedConsole(m) ==
  at[m] = "playing" => consoles[console[m]].started

\* No two machines have the same client, nor two clients the same port, and a
\* console starts when all its clients are ready.
OneClientEach ==
  \A m, n \in Machines :
     client[m].client_id = client[n].client_id /\ client[m].client_id > 0 => m = n

ConsoleOK(id) ==
  /\ \A e, f \in consoles[id].plugged : e.port = f.port => e = f
  /\ consoles[id].started =>
       { e.client : e \in consoles[id].plugged } \subseteq consoles[id].ready

SInv ==
  /\ TypeOK
  /\ OneClientEach
  /\ \A id \in DOMAIN consoles : ConsoleOK(id)
  /\ \A m \in Machines : /\ ClientFits(m)
                          /\ PortsArePlugged(m)
                          /\ NotReadyYet(m)
                          /\ PlaysStartedConsole(m)
  /\ ControllersMatchConsole

\* Some client of console id was given up before it was ready: its emulator
\* was ended, or PlugControllers failed after the server had plugged it.
Abandoned(id) ==
  \E e \in consoles[id].plugged :
     /\ e.client \notin consoles[id].ready
     /\ [id |-> id, client |-> e.client] \notin arriving
     /\ \A m \in Machines :
          client[m].client_id = e.client =>
            at[m] \notin {"plugged", "made", "starting", "waiting", "playing"}

(***************************************************************************)
(* What a wait without a deadline (event-stream-handler.hpp:91) may be for *)
(* for ever.  A machine never waits on when its console was started; and   *)
(* when it was not, then in the end all its clients are known to be ready, *)
(* so that a single request would start it, whatever requests came too     *)
(* early, or a client was given up, which nothing unplugs                  *)
(* (client.hpp:63-70).  That the request is not made again is what         *)
(* WaitsForStartedConsole is about.                                        *)
(***************************************************************************)
WaitsOnlyForRequest ==
  \A m \in Machines :
    <>[](at[m] = "waiting") =>
      <>[](/\ at[m] = "waiting"
           /\ \/ MayStart(client[m].console_id)
              \/ Abandoned(client[m].console_id))

(***************************************************************************)
(* The test InitiateNetplayNetplayDisabled (plugin-impl_test.cc:434-445)   *)
(* expects of a game with netplay disabled that Enabled is false and no    *)
(* controller is present.  The entry point never gets that far.            *)
(***************************************************************************)
DisabledIsOff ==
  \A m \in Machines :
    at[m] = "off" => ~enabled[m] /\ controllers[m] = NoControllers

(***************************************************************************)
(* client.h:73-74 says of MakeEventStreamHandlerRaw that the return value  *)
(* will satisfy "val == nullptr" on failure.  It aborts instead.           *)
(***************************************************************************)
NullOnFailure == \A m \in Machines : at[m] # "aborted"

(***************************************************************************)
(* plugin-impl.cc:292-293 tells the player "Created new console with ID".  *)
(***************************************************************************)
CreatedConsoleExists ==
  \A m \in Machines :
     at[m] = "requesting" /\ created[m] => console[m] \in DOMAIN consoles

(***************************************************************************)
(* InitiateNetplay goes on after InteractiveStartConsole only when it has  *)
(* not "Failed to start console" (plugin-impl.cc:96-99, 317-321).         *)
(***************************************************************************)
WaitsForStartedConsole ==
  \A m \in Machines :
     at[m] = "waiting" /\ created[m] =>
       console[m] \in DOMAIN consoles /\ consoles[console[m]].started
=============================================================================
