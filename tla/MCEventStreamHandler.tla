------------------------ MODULE MCEventStreamHandler ------------------------
(***************************************************************************)
(* A client with one local port, a console with one more player and one    *)
(* port that is not connected.  The server sends the events it should,     *)
(* and one of each kind it should not.                                     *)
(***************************************************************************)
EXTENDS EventStreamHandler

CONSTANTS any, local, remote, unused,  \* ports
          none, a, b, garbled          \* buttons

MCPorts == {any, local, remote, unused}
MCLocalPorts == {local}
MCFrames == 0..2
MCButtons == {none, a, b}
MCEncodable == {none, a}

K(port, frame, buttons) == [port |-> port, frame |-> frame, buttons |-> buttons]

\* One frame of the local port; the second tuple of a batch may fail for
\* every reason there is.
MCBatches ==
  { <<K(local, f, a)>> : f \in MCFrames }
    \union { <<K(local, 0, a), K(local, 1, none)>>,
             <<K(local, 1, a), K(local, 2, b)>>,      \* cannot be encoded
             <<K(local, 0, none), K(unused, 0, a)>>,  \* no such port
             <<K(local, 1, none), K(local, 1, a)>>,   \* rejected
             <<K(remote, 2, b)>>, <<>> }              \* not transmitted

Event(stop, start, right, ports, invalid, keys) ==
  [ has_stop_console |-> stop, has_start_game |-> start,
    right_console |-> right, connected_ports |-> ports,
    has_invalid_data |-> invalid, key_press |-> keys ]

Start(ports) == Event(FALSE, TRUE, TRUE, ports, FALSE, <<>>)
Keys(keys) == Event(FALSE, FALSE, FALSE, <<>>, FALSE, keys)
Port(port, delay) == [port |-> port, delay |-> delay]

MCStarts ==
  { Start(<<Port(local, 1), Port(remote, 1)>>),
    Start(<<Port(remote, 0), Port(local, -1)>>),
    Start(<<Port(remote, 0)>>),                                  \* local missing
    Start(<<Port(local, 0), Port(any, 0)>>),                     \* PORT_ANY
    Event(FALSE, TRUE, TRUE, <<Port(local, 1), Port(remote, 0)>>, FALSE,
          <<K(remote, 0, a)>>),                                  \* with a key
    Start(<<Port(local, 0), Port(remote, 0), Port(local, 1)>>),  \* duplicate
    Event(FALSE, TRUE, FALSE, <<Port(local, 1)>>, FALSE, <<>>) } \* other console

MCKeys ==
  { Keys(<<K(remote, 1, a)>>), Keys(<<K(remote, 1, b)>>),
    Keys(<<K(remote, 2, a), K(remote, 0, b)>>),
    Keys(<<K(remote, 1, b), K(remote, 2, b)>>),
    Keys(<<K(remote, 2, b), K(remote, 2, a)>>),
    Keys(<<K(remote, 1, a), K(remote, 2, garbled)>>),
    Keys(<<K(unused, 1, a)>>), Keys(<<K(local, 1, b)>>) }

MCEvents ==
  MCStarts \union MCKeys
    \union { Event(TRUE, FALSE, FALSE, <<>>, FALSE, <<>>),
             Event(FALSE, FALSE, FALSE, <<>>, TRUE, <<K(remote, 1, a)>>) }
=============================================================================
