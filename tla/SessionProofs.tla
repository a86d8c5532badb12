---------------------------- MODULE SessionProofs ----------------------------
(***************************************************************************)
(* SInv of Session is inductive, for any machines and channels, any delays *)
(* and settings, and any RPCs that fail: a game that plays has the         *)
(* controllers of the server's console, and the handler is never made for  *)
(* a client it would abort on.                                             *)
(***************************************************************************)
EXTENDS Session, FiniteSetTheorems, SequenceTheorems, WellFoundedInduction, TLAPS

-----------------------------------------------------------------------------
(***************************************************************************)
(* PermuteNetplayControllers walks two sorted sets of the same size side   *)
(* by side (plugin-impl.cc:173-224).  The place of x in S, sorted by k.    *)
(***************************************************************************)
Place(S, k, x) == Cardinality({ y \in S : k[y] < k[x] })

(***************************************************************************)
(* The places follow the order, and there is an element at each of them.   *)
(***************************************************************************)
LEMMA Places ==
  ASSUME NEW S, IsFiniteSet(S), NEW k \in [S -> Int],
         \A x, y \in S : k[x] = k[y] => x = y
  PROVE  /\ \A x \in S : Place(S, k, x) \in 0..(Cardinality(S) - 1)
         /\ \A x, y \in S : k[x] < k[y] => Place(S, k, x) < Place(S, k, y)
         /\ \A r \in 0..(Cardinality(S) - 1) : \E x \in S : Place(S, k, x) = r
<1> DEFINE before(x) == { y \in S : k[y] < k[x] }
           f == [x \in S |-> Cardinality(before(x))]
           n == Cardinality(S)
           T == 0..(n - 1)
<1>1. n \in Nat
  BY FS_CardinalityType
<1>2. \A x \in S : before(x) \in SUBSET S /\ x \notin before(x)
  OBVIOUS
<1>3. \A x, y \in S : k[x] < k[y] => before(x) \union {x} \subseteq before(y)
  OBVIOUS
<1>4. \A x \in S : Place(S, k, x) = f[x] /\ f[x] = Cardinality(before(x))
  BY DEF Place
<1> HIDE DEF before, f, n, T
<1>5. ASSUME NEW x \in S, NEW R \in SUBSET S, before(x) \union {x} \subseteq R
      PROVE  f[x] \in Nat /\ Cardinality(R) \in Nat /\ f[x] + 1 <= Cardinality(R)
  <2>1. IsFiniteSet(before(x)) /\ IsFiniteSet(R)
    BY <1>2, FS_Subset
  <2>2. f[x] \in Nat /\ Cardinality(R) \in Nat
    BY <1>4, <2>1, FS_CardinalityType
  <2>3. Cardinality(before(x) \union {x}) = f[x] + 1
    <3>1. Cardinality(before(x) \union {x}) = Cardinality(before(x)) + 1
      BY <1>2, <2>1, FS_AddElement
    <3> QED
      BY <1>4, <3>1
  <2>4. Cardinality(before(x) \union {x}) <= Cardinality(R)
    BY <1>5, <2>1, FS_Subset
  <2> QED
    BY <2>2, <2>3, <2>4
<1>6. ASSUME NEW x \in S
      PROVE  f[x] \in T
  <2>1. before(x) \union {x} \subseteq S
    BY <1>2
  <2>2. f[x] \in Nat /\ f[x] + 1 <= n
    BY <1>5, <2>1 DEF n
  <2> QED
    BY <1>1, <2>2 DEF T
<1>7. ASSUME NEW x \in S, NEW y \in S, k[x] < k[y]
      PROVE  f[x] < f[y]
  <2>1. before(x) \union {x} \subseteq before(y) /\ before(y) \in SUBSET S
    BY <1>2, <1>3, <1>7
  <2>2. f[x] \in Nat /\ f[y] \in Nat /\ f[x] + 1 <= f[y]
    BY <1>4, <1>5, <2>1
  <2> QED
    BY <2>2
<1>8. f \in [S -> T]
  BY <1>6 DEF f
<1>9. f \in Surjection(S, T)
  <2>1. \A x \in S : k[x] \in Int /\ f[x] \in Int
    BY <1>8 DEF T
  <2>2. ASSUME NEW x \in S, NEW y \in S, f[x] = f[y]
        PROVE  x = y
    <3>1. ~(k[x] < k[y]) /\ ~(k[y] < k[x])
      BY <1>7, <2>1, <2>2
    <3> QED
      BY <2>1, <3>1
  <2>3. f \in Injection(S, T)
    BY <1>8, <2>2 DEF Injection, IsInjective
  <2>4. IsFiniteSet(T) /\ Cardinality(T) = n
    BY <1>1, FS_Interval DEF T
  <2> QED
    BY <2>3, <2>4, FS_Injection DEF n
<1>10. \A r \in T : \E x \in S : f[x] = r
  BY <1>9 DEF Surjection
<1>11. /\ \A x \in S : f[x] \in T
       /\ \A x, y \in S : k[x] < k[y] => f[x] < f[y]
  BY <1>6, <1>7
<1> QED
  BY <1>4, <1>10, <1>11 DEF T, n

(***************************************************************************)
(* The conversions of util.cc: the four ports and the four controllers     *)
(* correspond.                                                             *)
(***************************************************************************)
LEMMA PortIndex ==
  /\ \A p \in M64Ports : PortToM64Port(p) \in 0..3 /\ M64PortToPort(PortToM64Port(p)) = p
  /\ \A i \in 0..3 : M64PortToPort(i) \in M64Ports /\ PortToM64Port(M64PortToPort(i)) = i
<1>1. /\ M64PortToPort(0) = "PORT_1" /\ M64PortToPort(1) = "PORT_2"
      /\ M64PortToPort(2) = "PORT_3" /\ M64PortToPort(3) = "PORT_4"
  BY DEF M64PortToPort
<1>2. 0..3 = {0, 1, 2, 3}
  OBVIOUS
<1>3. \A i \in 0..3 : M64PortToPort(i) \in M64Ports
  BY <1>1, <1>2 DEF M64Ports
<1>4. \A i, j \in 0..3 : M64PortToPort(i) = M64PortToPort(j) => i = j
  BY <1>1, <1>2
<1>5. \A p \in M64Ports : \E i \in 0..3 : M64PortToPort(i) = p
  BY <1>1, <1>2 DEF M64Ports
<1>6. \A p \in M64Ports : PortToM64Port(p) \in 0..3 /\ M64PortToPort(PortToM64Port(p)) = p
  BY <1>5 DEF PortToM64Port
<1> QED
  BY <1>3, <1>4, <1>6

\* There are four ports, and four controllers.
LEMMA FourAreFinite == IsFiniteSet(0..3) /\ IsFiniteSet(M64Ports)
<1>1. IsFiniteSet(0..3)
  <2>1. 0 \in Int /\ 3 \in Int
    OBVIOUS
  <2> QED
    BY <2>1, FS_Interval, Zenon
<1>2. IsFiniteSet({"PORT_1", "PORT_2", "PORT_3", "PORT_4"})
  <2>1. IsFiniteSet({"PORT_1"})
    BY FS_Singleton
  <2>2. IsFiniteSet({"PORT_1"} \union {"PORT_2"})
    BY <2>1, FS_AddElement
  <2>3. IsFiniteSet({"PORT_1"} \union {"PORT_2"} \union {"PORT_3"})
    BY <2>2, FS_AddElement
  <2>4. IsFiniteSet({"PORT_1"} \union {"PORT_2"} \union {"PORT_3"} \union {"PORT_4"})
    BY <2>3, FS_AddElement
  <2>5. {"PORT_1", "PORT_2", "PORT_3", "PORT_4"} =
          {"PORT_1"} \union {"PORT_2"} \union {"PORT_3"} \union {"PORT_4"}
    OBVIOUS
  <2> QED
    BY <2>4, <2>5
<1> QED
  BY <1>1, <1>2 DEF M64Ports

(***************************************************************************)
(* The channels given to the local ports: each port gets one, the order of *)
(* the ports is kept, and no channel is left out.                          *)
(***************************************************************************)
LEMMA ChannelsLemma ==
  ASSUME NEW m \in Machines, ChannelsAssumption,
         NEW ports \in SUBSET M64Ports, ports = Range(client[m].local_ports),
         ChannelsFit(m)
  PROVE  /\ \A p \in ports : ChannelOf(m, p) \in Channels[m]
         /\ \A p, q \in ports : PortToM64Port(p) < PortToM64Port(q) =>
              ChannelOf(m, p) < ChannelOf(m, q)
         /\ \A c \in Channels[m] : \E p \in ports : ChannelOf(m, p) = c
<1> DEFINE C == Channels[m]
           k == [p \in ports |-> PortToM64Port(p)]
           h == [c \in C |-> c]
           n == Cardinality(C)
           f == [p \in ports |-> Place(ports, k, p)]
           g == [c \in C |-> Place(C, h, c)]
           channel == [p \in ports |-> ChannelOf(m, p)]
<1>1. C \subseteq 0..3 /\ Cardinality(ports) = n
  BY DEF ChannelsAssumption, ChannelsFit
<1>2. IsFiniteSet(C) /\ IsFiniteSet(ports)
  BY <1>1, FourAreFinite, FS_Subset
<1>3. k \in [ports -> Int] /\ \A p, q \in ports : k[p] = k[q] => p = q
  BY PortIndex
<1>4. h \in [C -> Int] /\ \A c, d \in C : h[c] = h[d] => c = d
  BY <1>1
<1>5. \A p \in ports : k[p] = PortToM64Port(p)
  OBVIOUS
<1>6. \A c \in C : h[c] = c
  OBVIOUS
<1>7. \A p \in ports :
        f[p] = Cardinality({ q \in ports : PortToM64Port(q) < PortToM64Port(p) })
  <2> SUFFICES ASSUME NEW p \in ports
               PROVE  f[p] = Cardinality({ q \in ports :
                                             PortToM64Port(q) < PortToM64Port(p) })
    OBVIOUS
  <2>1. { q \in ports : k[q] < k[p] } =
          { q \in ports : PortToM64Port(q) < PortToM64Port(p) }
    BY <1>5
  <2> HIDE DEF k
  <2> QED
    BY <2>1 DEF Place
<1>8. \A c \in C : g[c] = Cardinality({ d \in C : d < c })
  <2> SUFFICES ASSUME NEW c \in C  PROVE g[c] = Cardinality({ d \in C : d < c })
    OBVIOUS
  <2>1. { d \in C : h[d] < h[c] } = { d \in C : d < c }
    BY <1>6
  <2> HIDE DEF h
  <2> QED
    BY <2>1 DEF Place
<1> HIDE DEF k, h, n
<1>9. /\ \A p \in ports : f[p] \in 0..(n - 1)
      /\ \A p, q \in ports : k[p] < k[q] => f[p] < f[q]
      /\ \A r \in 0..(n - 1) : \E p \in ports : f[p] = r
  BY <1>1, <1>2, <1>3, Places
<1>10. /\ \A c \in C : g[c] \in 0..(n - 1)
       /\ \A c, d \in C : h[c] < h[d] => g[c] < g[d]
       /\ \A r \in 0..(n - 1) : \E c \in C : g[c] = r
  <2> HIDE DEF C
  <2>1. /\ \A c \in C : Place(C, h, c) \in 0..(n - 1)
        /\ \A c, d \in C : h[c] < h[d] => Place(C, h, c) < Place(C, h, d)
        /\ \A r \in 0..(n - 1) : \E c \in C : Place(C, h, c) = r
    BY <1>2, <1>4, Places DEF n
  <2> QED
    BY <2>1
<1> HIDE DEF f, g, C
<1>11. \A p \in ports : ChannelOf(m, p) = CHOOSE c \in C : g[c] = f[p]
  BY <1>7, <1>8 DEF ChannelOf, C
<1>12. \A p \in ports : channel[p] \in C /\ g[channel[p]] = f[p]
  BY <1>9, <1>10, <1>11
<1> HIDE DEF channel
<1>13. \A c \in C : c \in Int /\ g[c] \in Int
  BY <1>1, <1>10
<1>14. \A p, q \in ports : k[p] < k[q] => channel[p] < channel[q]
  <2> SUFFICES ASSUME NEW p \in ports, NEW q \in ports, k[p] < k[q]
               PROVE  channel[p] < channel[q]
    OBVIOUS
  <2>1. f[p] < f[q]
    BY <1>9
  <2>2. g[channel[p]] < g[channel[q]]
    BY <1>12, <2>1
  <2>3. ~(h[channel[q]] < h[channel[p]]) /\ channel[p] # channel[q]
    BY <1>10, <1>12, <1>13, <2>2
  <2> QED
    BY <1>6, <1>12, <1>13, <2>3 DEF C
<1>15. \A c \in C : \E p \in ports : channel[p] = c
  <2> SUFFICES ASSUME NEW c \in C  PROVE \E p \in ports : channel[p] = c
    OBVIOUS
  <2>1. PICK p \in ports : f[p] = g[c]
    BY <1>9, <1>10
  <2>2. channel[p] \in C /\ g[channel[p]] = g[c]
    BY <1>12, <2>1
  <2>3. ~(h[channel[p]] < h[c]) /\ ~(h[c] < h[channel[p]])
    BY <1>10, <1>13, <2>2
  <2>4. channel[p] = c
    BY <1>6, <1>13, <2>2, <2>3 DEF C
  <2> QED
    BY <2>4
<1> QED
  BY <1>5, <1>12, <1>14, <1>15 DEF channel, C

-----------------------------------------------------------------------------
USE ChannelsAssumption, DelayAssumption, ConfigurationsAssumption, BoundsAssumption

-----------------------------------------------------------------------------
(***************************************************************************)
(* The server.  What TypeOK says of it, who it has heard to be ready, and  *)
(* what each of its steps guarantees to the machines that take no part:    *)
(* news are the clients it is told of.                                     *)
(***************************************************************************)
ServerTyped ==
  /\ clients \in Nat
  /\ DOMAIN consoles = 1..Cardinality(DOMAIN consoles)
  /\ DOMAIN consoles \subseteq ConsoleIds
  /\ \A id \in DOMAIN consoles :
        consoles[id] \in
          [plugged : SUBSET [client : 1..clients, port : M64Ports, delay : Int],
           ready : SUBSET (1..clients), started : BOOLEAN]
  /\ arriving \subseteq [id : ConsoleIds, client : 1..clients]

Heard(c) ==
  \/ \E id \in DOMAIN consoles : c \in consoles[id].ready
  \/ \E event \in arriving : event.client = c

\* A console keeps its clients, gets none but new ones, and none once started.
Grows(id) ==
  /\ id \in DOMAIN consoles'
  /\ consoles[id].plugged \subseteq consoles'[id].plugged
  /\ \A e \in consoles'[id].plugged : e \in consoles[id].plugged \/ e.client > clients
  /\ consoles[id].started =>
       consoles'[id].started /\ consoles'[id].plugged = consoles[id].plugged

ServerStep(news) ==
  /\ ServerTyped'
  /\ clients' >= clients
  /\ \A id \in DOMAIN consoles' : ConsoleOK(id)'
  /\ \A id \in DOMAIN consoles : Grows(id)
  /\ \A c : Heard(c)' => Heard(c) \/ c \in news

(***************************************************************************)
(* A step of a machine that does not reach the server.                     *)
(***************************************************************************)
LEMMA NoServerStep ==
  ASSUME SInv, UNCHANGED server
  PROVE  ServerStep({})
<1>1. UNCHANGED <<consoles, clients, arriving>>
  BY DEF server
<1>2. ServerTyped /\ \A id \in DOMAIN consoles : ConsoleOK(id)
  BY DEF SInv, TypeOK, ServerTyped
<1> QED
  BY <1>1, <1>2 DEF ServerStep, ServerTyped, ConsoleOK, Grows, Heard

(***************************************************************************)
(* A console is made (scripts/make-console.cc, host-utils.cc:10-35): it    *)
(* has a new id and no clients.                                            *)
(***************************************************************************)
LEMMA AddConsoleStep ==
  ASSUME SInv, AddConsole
  PROVE  /\ ServerStep({})
         /\ Cardinality(DOMAIN consoles) + 1 \in ConsoleIds
<1> DEFINE n == Cardinality(DOMAIN consoles)
<1>1. /\ n < MaxConsoles
      /\ consoles' = [id \in DOMAIN consoles \union {n + 1} |->
                        IF id \in DOMAIN consoles THEN consoles[id] ELSE NewConsole]
      /\ UNCHANGED <<clients, arriving>>
  BY DEF AddConsole
<1>2. ServerTyped /\ \A id \in DOMAIN consoles : ConsoleOK(id)
  BY DEF SInv, TypeOK, ServerTyped
<1>3. n \in Nat /\ DOMAIN consoles = 1..n
  <2>1. IsFiniteSet(DOMAIN consoles)
    <3>1. IsFiniteSet(ConsoleIds)
      BY FS_Interval DEF ConsoleIds
    <3> QED
      BY <1>2, <3>1, FS_Subset DEF ServerTyped
  <2> QED
    BY <1>2, <2>1, FS_CardinalityType DEF ServerTyped
<1> HIDE DEF n
<1>4. DOMAIN consoles' = 1..(n + 1) /\ n + 1 \notin DOMAIN consoles
  BY <1>1, <1>3
<1>5. Cardinality(DOMAIN consoles') = n + 1
  BY <1>3, <1>4, FS_Interval
<1>6. n + 1 \in ConsoleIds
  BY <1>1, <1>3 DEF ConsoleIds
<1>7. /\ \A id \in DOMAIN consoles : consoles'[id] = consoles[id]
      /\ consoles'[n + 1] = NewConsole
  BY <1>1, <1>4
<1>8. ServerTyped'
  <2>1. DOMAIN consoles' \subseteq ConsoleIds
    BY <1>2, <1>3, <1>4, <1>6 DEF ServerTyped
  <2>2. NewConsole \in
          [plugged : SUBSET [client : 1..clients, port : M64Ports, delay : Int],
           ready : SUBSET (1..clients), started : BOOLEAN]
    BY DEF NewConsole
  <2> QED
    BY <1>1, <1>2, <1>3, <1>4, <1>5, <1>7, <2>1, <2>2 DEF ServerTyped
<1>9. \A id \in DOMAIN consoles' : ConsoleOK(id)'
  <2> SUFFICES ASSUME NEW id \in DOMAIN consoles'  PROVE ConsoleOK(id)'
    OBVIOUS
  <2>1. CASE id \in DOMAIN consoles
    BY <1>2, <1>7, <2>1 DEF ConsoleOK
  <2>2. CASE id = n + 1
    BY <1>7, <2>2 DEF ConsoleOK, NewConsole
  <2> QED
    BY <1>3, <1>4, <2>1, <2>2
<1>10. \A id \in DOMAIN consoles : Grows(id)
  BY <1>3, <1>4, <1>7 DEF Grows
<1>11. \A c : Heard(c)' => Heard(c)
  BY <1>1, <1>3, <1>4, <1>7 DEF Heard, NewConsole
<1>12. clients' >= clients
  BY <1>1, <1>2 DEF ServerTyped
<1>13. ServerStep({})
  BY <1>8, <1>9, <1>10, <1>11, <1>12 DEF ServerStep
<1> QED
  BY <1>6, <1>13 DEF n

(***************************************************************************)
(* A console is started (scripts/start-game.cc, host-utils.cc:37-60): all  *)
(* its clients are ready, and it gets no other.                            *)
(***************************************************************************)
LEMMA StartStep ==
  ASSUME SInv, NEW id, Start(id)
  PROVE  ServerStep({})
<1>1. /\ id \in DOMAIN consoles
      /\ { e.client : e \in consoles[id].plugged } \subseteq consoles[id].ready
      /\ consoles' = [consoles EXCEPT ![id].started = TRUE]
      /\ UNCHANGED <<clients, arriving>>
  BY DEF Start, MayStart
<1>2. ServerTyped /\ \A i \in DOMAIN consoles : ConsoleOK(i)
  BY DEF SInv, TypeOK, ServerTyped
<1>3. /\ DOMAIN consoles' = DOMAIN consoles
      /\ \A i \in DOMAIN consoles :
            /\ consoles'[i].plugged = consoles[i].plugged
            /\ consoles'[i].ready = consoles[i].ready
            /\ consoles[i].started => consoles'[i].started
            /\ i # id => consoles'[i] = consoles[i]
            /\ consoles'[i] \in
                 [plugged : SUBSET [client : 1..clients, port : M64Ports, delay : Int],
                  ready : SUBSET (1..clients), started : BOOLEAN]
  BY <1>1, <1>2 DEF ServerTyped
<1>4. ServerTyped'
  BY <1>1, <1>2, <1>3 DEF ServerTyped
<1>5. \A i \in DOMAIN consoles' : ConsoleOK(i)'
  BY <1>1, <1>2, <1>3 DEF ConsoleOK
<1>6. \A i \in DOMAIN consoles : Grows(i)
  BY <1>3 DEF Grows
<1>7. \A c : Heard(c)' => Heard(c)
  BY <1>1, <1>3 DEF Heard
<1>8. clients' >= clients
  BY <1>1, <1>2 DEF ServerTyped
<1> QED
  BY <1>4, <1>5, <1>6, <1>7, <1>8 DEF ServerStep

(***************************************************************************)
(* The server reads a ready event, of a client it had been told of.        *)
(***************************************************************************)
LEMMA ReceiveReadyStep ==
  ASSUME SInv, NEW event, ReceiveReady(event)
  PROVE  ServerStep({})
<1>1. /\ event \in arriving
      /\ arriving' \subseteq arriving
      /\ consoles' = [consoles EXCEPT ![event.id].ready = @ \union {event.client}]
      /\ UNCHANGED clients
  BY DEF ReceiveReady
<1>2. ServerTyped /\ \A i \in DOMAIN consoles : ConsoleOK(i)
  BY DEF SInv, TypeOK, ServerTyped
<1>3. event.client \in 1..clients
  BY <1>1, <1>2 DEF ServerTyped
<1>4. /\ DOMAIN consoles' = DOMAIN consoles
      /\ \A i \in DOMAIN consoles :
            /\ consoles'[i].plugged = consoles[i].plugged
            /\ consoles[i].ready \subseteq consoles'[i].ready
            /\ consoles'[i].ready \subseteq consoles[i].ready \union {event.client}
            /\ consoles'[i].started = consoles[i].started
            /\ consoles'[i] \in
                 [plugged : SUBSET [client : 1..clients, port : M64Ports, delay : Int],
                  ready : SUBSET (1..clients), started : BOOLEAN]
  BY <1>1, <1>2, <1>3 DEF ServerTyped
<1>5. ServerTyped'
  BY <1>1, <1>2, <1>4 DEF ServerTyped
<1>6. \A i \in DOMAIN consoles' : ConsoleOK(i)'
  BY <1>2, <1>4 DEF ConsoleOK
<1>7. \A i \in DOMAIN consoles : Grows(i)
  BY <1>4 DEF Grows
<1>8. \A c : Heard(c)' => Heard(c)
  BY <1>1, <1>4 DEF Heard
<1>9. clients' >= clients
  BY <1>1, <1>2 DEF ServerTyped
<1> QED
  BY <1>5, <1>6, <1>7, <1>8, <1>9 DEF ServerStep

(***************************************************************************)
(* Ports are plugged for a client with a new id (plugin-impl.cc:76-83,     *)
(* client.hpp:22-89): free ports, of a console that has not started.       *)
(***************************************************************************)
LEMMA PlugStep ==
  ASSUME SInv, NEW id \in DOMAIN consoles, NEW requested \in Seq(Port), NEW delay \in Int,
         NEW ports \in Assignments(id, requested), ~consoles[id].started,
         Plug(id, ports, delay)
  PROVE  /\ ServerStep({})
         /\ clients' = clients + 1
         /\ \A e \in consoles'[id].plugged :
               e.client = clients + 1 => e.port \in Range(ports) /\ e.delay = delay
         /\ \A p \in Range(ports) : \E e \in consoles'[id].plugged :
               e.client = clients + 1 /\ e.port = p
<1> DEFINE Entry == [client : 1..clients, port : M64Ports, delay : Int]
           NewEntry == [client : 1..(clients + 1), port : M64Ports, delay : Int]
           added == { [client |-> clients + 1, port |-> p, delay |-> delay] :
                        p \in Range(ports) }
<1>1. /\ clients' = clients + 1
      /\ consoles' = [consoles EXCEPT ![id].plugged = @ \union added]
      /\ UNCHANGED arriving
  BY DEF Plug
<1>2. ServerTyped /\ \A i \in DOMAIN consoles : ConsoleOK(i)
  BY DEF SInv, TypeOK, ServerTyped
<1>3. clients \in Nat /\ clients' >= clients
  BY <1>1, <1>2 DEF ServerTyped
<1>4. \A p \in Range(ports) : p \in M64Ports /\ \A e \in consoles[id].plugged : e.port # p
  BY DEF Assignments, Range
<1>5. \A e \in added : /\ e \in NewEntry
                       /\ e.client = clients + 1
                       /\ e.delay = delay
                       /\ e.port \in Range(ports)
  BY <1>3, <1>4
<1>6. \A e, f \in added : e.port = f.port => e = f
  OBVIOUS
<1>7. \A p \in Range(ports) : \E e \in added : e.port = p
  <2> SUFFICES ASSUME NEW p \in Range(ports)  PROVE \E e \in added : e.port = p
    OBVIOUS
  <2> WITNESS [client |-> clients + 1, port |-> p, delay |-> delay] \in added
  <2> QED
    OBVIOUS
<1>8. /\ Entry \subseteq NewEntry
      /\ 1..clients \subseteq 1..(clients + 1)
      /\ \A e \in Entry : e.client # clients + 1
  BY <1>3
<1>9. \A i \in DOMAIN consoles :
        consoles[i] \in [plugged : SUBSET Entry, ready : SUBSET (1..clients), started : BOOLEAN]
  BY <1>2 DEF ServerTyped
<1> HIDE DEF added, Entry, NewEntry
<1>10. /\ DOMAIN consoles' = DOMAIN consoles
       /\ consoles'[id].plugged = consoles[id].plugged \union added
       /\ \A i \in DOMAIN consoles :
             /\ i # id => consoles'[i] = consoles[i]
             /\ consoles'[i].ready = consoles[i].ready
             /\ consoles'[i].started = consoles[i].started
             /\ consoles'[i] \in
                  [plugged : SUBSET NewEntry, ready : SUBSET (1..(clients + 1)),
                   started : BOOLEAN]
  BY <1>1, <1>5, <1>8, <1>9
<1>11. ServerTyped'
  <2>1. arriving' \subseteq [id : ConsoleIds, client : 1..clients']
    BY <1>1, <1>2, <1>8 DEF ServerTyped
  <2>2. \A i \in DOMAIN consoles' :
          consoles'[i] \in
            [plugged : SUBSET [client : 1..clients', port : M64Ports, delay : Int],
             ready : SUBSET (1..clients'), started : BOOLEAN]
    BY <1>1, <1>10 DEF NewEntry
  <2>3. clients' \in Nat
    BY <1>1, <1>3
  <2> QED
    BY <1>2, <1>10, <2>1, <2>2, <2>3 DEF ServerTyped
<1>12. \A i \in DOMAIN consoles' : ConsoleOK(i)'
  <2> SUFFICES ASSUME NEW i \in DOMAIN consoles  PROVE ConsoleOK(i)'
    BY <1>10
  <2>1. CASE i # id
    BY <1>2, <1>10, <2>1 DEF ConsoleOK
  <2>2. CASE i = id
    <3>1. \A e, f \in consoles[id].plugged : e.port = f.port => e = f
      BY <1>2 DEF ConsoleOK
    <3>2. \A e, f \in consoles'[id].plugged : e.port = f.port => e = f
      BY <1>4, <1>5, <1>6, <1>10, <3>1
    <3> QED
      BY <1>10, <2>2, <3>2 DEF ConsoleOK
  <2> QED
    BY <2>1, <2>2
<1>13. \A i \in DOMAIN consoles : Grows(i)
  <2> SUFFICES ASSUME NEW i \in DOMAIN consoles  PROVE Grows(i)
    OBVIOUS
  <2>1. CASE i # id
    BY <1>10, <2>1 DEF Grows
  <2>2. CASE i = id
    <3>1. \A e \in added : e.client > clients
      BY <1>3, <1>5
    <3> QED
      BY <1>10, <2>2, <3>1 DEF Grows
  <2> QED
    BY <2>1, <2>2
<1>14. \A c : Heard(c)' => Heard(c)
  BY <1>1, <1>10 DEF Heard
<1>15. ServerStep({})
  BY <1>3, <1>11, <1>12, <1>13, <1>14 DEF ServerStep
<1>16. \A e \in consoles'[id].plugged :
         e.client = clients + 1 => e.port \in Range(ports) /\ e.delay = delay
  <2>1. \A e \in consoles[id].plugged : e \in Entry
    BY <1>9
  <2> QED
    BY <1>5, <1>8, <1>10, <2>1
<1>17. \A p \in Range(ports) : \E e \in consoles'[id].plugged :
         e.client = clients + 1 /\ e.port = p
  BY <1>5, <1>7, <1>10
<1> QED
  BY <1>1, <1>15, <1>16, <1>17

(***************************************************************************)
(* A client tells the server that it is ready (plugin-impl.cc:86-94).      *)
(***************************************************************************)
LEMMA ReadyStep ==
  ASSUME SInv, NEW m \in Machines, HandlerOK(client[m]),
         arriving' = arriving \union ReadyEvent(m), UNCHANGED <<consoles, clients>>
  PROVE  ServerStep({client[m].client_id})
<1> DEFINE event == [id |-> client[m].console_id, client |-> client[m].client_id]
<1>1. ServerTyped /\ \A i \in DOMAIN consoles : ConsoleOK(i)
  BY DEF SInv, TypeOK, ServerTyped
<1>2. arriving' = arriving \union {event}
  BY DEF ReadyEvent
<1>3. event \in [id : ConsoleIds, client : 1..clients]
  <2>1. client[m] \in [console_id : ConsoleIds \union {-1}, client_id : -1..clients,
                       local_ports : Seq(M64Ports)]
    BY DEF SInv, TypeOK
  <2>2. client[m].console_id \in ConsoleIds
    BY <2>1 DEF HandlerOK
  <2>3. client[m].client_id \in 1..clients
    BY <1>1, <2>1 DEF HandlerOK, ServerTyped
  <2> QED
    BY <2>2, <2>3
<1>4. ServerTyped'
  BY <1>1, <1>2, <1>3 DEF ServerTyped
<1>5. event.client = client[m].client_id
  OBVIOUS
<1> HIDE DEF event
<1>6. \A c : Heard(c)' => Heard(c) \/ c = client[m].client_id
  BY <1>2, <1>5 DEF Heard
<1>7. clients' >= clients
  BY <1>1 DEF ServerTyped
<1>8. /\ \A i \in DOMAIN consoles' : ConsoleOK(i)'
      /\ \A i \in DOMAIN consoles : Grows(i)
  BY <1>1 DEF ConsoleOK, Grows
<1> QED
  BY <1>4, <1>6, <1>7, <1>8 DEF ServerStep

-----------------------------------------------------------------------------
(***************************************************************************)
(* The machines.  What TypeOK says of them, and what SInv says of one.     *)
(***************************************************************************)
Stages == {"loaded", "idle", "off", "asking", "requesting", "plugged", "made", "starting",
           "waiting", "playing", "failed", "aborted", "crashed"}

Client == [console_id : ConsoleIds \union {-1}, client_id : -1..clients,
           local_ports : Seq(M64Ports)]

Controllers == [0..3 -> [Present : {0, 1}, Remote : {0, 1}, Delay : Int, Channel : -1..3]]

MachinesTyped ==
  /\ at \in [Machines -> Stages]
  /\ DOMAIN attempts = Machines
  /\ \A m \in Machines : attempts[m] \in 0..MaxAttempts[m]
  /\ {enabled, handler, created} \subseteq [Machines -> BOOLEAN]
  /\ console \in [Machines -> ConsoleIds \union {-1}]
  /\ client \in [Machines -> Client]
  /\ controllers \in [Machines -> Controllers]

MachineOK(m) ==
  /\ ClientFits(m)
  /\ PortsArePlugged(m)
  /\ NotReadyYet(m)
  /\ PlaysStartedConsole(m)
  /\ at[m] = "playing" => ControllersMatch(m)

SInvAsParts ==
  /\ MachinesTyped
  /\ ServerTyped
  /\ OneClientEach
  /\ \A id \in DOMAIN consoles : ConsoleOK(id)
  /\ \A m \in Machines : MachineOK(m)

LEMMA SInvParts == (SInv <=> SInvAsParts) /\ (SInv' <=> SInvAsParts')
<1>1. SInv <=> SInvAsParts
  <2>1. TypeOK <=> MachinesTyped /\ ServerTyped
    BY DEF TypeOK, MachinesTyped, ServerTyped, Stages, Client, Controllers
  <2> QED
    BY <2>1 DEF SInv, SInvAsParts, MachineOK, ControllersMatchConsole
<1>2. SInv' <=> SInvAsParts'
  BY <1>1, PTL
<1> QED
  BY <1>1, <1>2

\* What ControllersMatch says, of the values it depends on.
Matches(c, plugged, client_id, delay, channels) ==
  LET connected == { e.port : e \in plugged }
      local == { i \in 0..3 : c[i].Present = 1 /\ c[i].Remote = 0 }
  IN  /\ { i \in 0..3 : c[i].Present = 1 } = { PortToM64Port(p) : p \in connected }
      /\ local = { PortToM64Port(p) : p \in
                     { q \in connected :
                         (CHOOSE e \in plugged : e.port = q).client = client_id } }
      /\ \A i \in local : c[i].Delay = delay
      /\ \A i \in 0..3 : c[i].Remote = 1 => c[i].Delay = 0 /\ c[i].Channel = -1
      /\ { c[i].Channel : i \in local } = channels
      /\ \A i, j \in local : i < j => c[i].Channel < c[j].Channel

LEMMA MatchesLemma ==
  ASSUME NEW m
  PROVE  /\ ControllersMatch(m) <=>
              Matches(controllers[m], consoles[console[m]].plugged, client[m].client_id,
                      delay_frames[m], Channels[m])
         /\ ControllersMatch(m)' <=>
              Matches(controllers'[m], consoles'[console'[m]].plugged, client'[m].client_id,
                      delay_frames[m], Channels[m])
  BY DEF ControllersMatch, Connected, Owner, Matches

(***************************************************************************)
(* The server keeps what it has plugged for a client, and plugs no more.   *)
(***************************************************************************)
LEMMA PortsKept ==
  ASSUME SInv, NEW news, ServerStep(news), NEW k \in Machines, at[k] \in Answered,
         client'[k] = client[k], console'[k] = console[k]
  PROVE  PortsArePlugged(k)'
<1> SUFFICES ASSUME client[k].client_id > 0
             PROVE  PortsArePlugged(k)'
  BY DEF PortsArePlugged
<1> DEFINE mine(plugged) == { d \in plugged : d.client = client[k].client_id }
<1>1. /\ console[k] \in DOMAIN consoles
      /\ Range(client[k].local_ports) =
           { e.port : e \in mine(consoles[console[k]].plugged) }
      /\ \A e \in consoles[console[k]].plugged :
           e.client = client[k].client_id => e.delay = delay_frames[k]
  BY SInvParts DEF SInvAsParts, MachineOK, PortsArePlugged
<1>2. client[k].client_id \in -1..clients /\ clients \in Nat
  BY SInvParts DEF SInvAsParts, MachinesTyped, Client, ServerTyped
<1>3. Grows(console[k])
  BY <1>1 DEF ServerStep
<1>4. \A e \in consoles'[console[k]].plugged :
        e.client = client[k].client_id => e \in consoles[console[k]].plugged
  BY <1>2, <1>3 DEF Grows
<1>5. mine(consoles'[console[k]].plugged) = mine(consoles[console[k]].plugged)
  BY <1>3, <1>4 DEF Grows
<1>6. console[k] \in DOMAIN consoles'
  BY <1>3 DEF Grows
<1> QED
  BY <1>1, <1>4, <1>5, <1>6 DEF PortsArePlugged

(***************************************************************************)
(* What the server does and what other machines do is nothing to a machine *)
(* that is not told of by the news: a console that has started keeps its   *)
(* clients, and new clients have new ids.                                  *)
(***************************************************************************)
LEMMA OthersKept ==
  ASSUME SInv, NEW news, ServerStep(news), NEW k \in Machines,
         at'[k] = at[k], client'[k] = client[k], console'[k] = console[k],
         controllers'[k] = controllers[k], client[k].client_id \notin news
  PROVE  MachineOK(k)'
<1>1. MachineOK(k) /\ client[k] \in Client
  BY SInvParts DEF SInvAsParts, MachinesTyped
<1>3. ClientFits(k)'
  BY <1>1 DEF MachineOK, ClientFits
<1>4. PortsArePlugged(k)'
  <2>1. CASE at[k] \in Answered
    BY <2>1, PortsKept
  <2>2. CASE at[k] \notin Answered
    BY <2>2 DEF PortsArePlugged
  <2> QED
    BY <2>1, <2>2
<1>5. NotReadyYet(k)'
  <2>1. at[k] \in {"plugged", "made"} => ~Heard(client[k].client_id)
    BY <1>1 DEF MachineOK, NotReadyYet, Heard
  <2>2. Heard(client[k].client_id)' => Heard(client[k].client_id)
    <3> DEFINE c == client[k].client_id
    <3>1. c' = c
      OBVIOUS
    <3> HIDE DEF c
    <3>2. \A d : Heard(d)' => Heard(d) \/ d \in news
      BY DEF ServerStep
    <3> QED
      BY <3>1, <3>2 DEF Heard, c
  <2> QED
    BY <2>1, <2>2 DEF NotReadyYet, Heard
<1>6. at[k] = "playing" =>
        /\ console[k] \in DOMAIN consoles
        /\ consoles[console[k]].started
        /\ Grows(console[k])
  <2>1. at[k] = "playing" => console[k] \in DOMAIN consoles
    BY <1>1 DEF MachineOK, PortsArePlugged, Answered, ClientFits, HandlerOK
  <2> QED
    BY <1>1, <2>1 DEF MachineOK, PlaysStartedConsole, ServerStep
<1>7. PlaysStartedConsole(k)'
  BY <1>6 DEF PlaysStartedConsole, Grows
<1>8. at[k] = "playing" => ControllersMatch(k)'
  <2> SUFFICES ASSUME at[k] = "playing"  PROVE ControllersMatch(k)'
    OBVIOUS
  <2>1. consoles'[console[k]].plugged = consoles[console[k]].plugged
    BY <1>6 DEF Grows
  <2>2. ControllersMatch(k)
    BY <1>1 DEF MachineOK
  <2> QED
    BY <2>1, <2>2, MatchesLemma
<1> QED
  BY <1>3, <1>4, <1>5, <1>7, <1>8 DEF MachineOK

\* The client ids known to the server only get more.
LEMMA ClientsGrow ==
  ASSUME SInv, NEW news, ServerStep(news)
  PROVE  Client \subseteq Client'
<1>1. clients \in Nat /\ clients' \in Nat /\ clients' >= clients
  BY SInvParts DEF SInvAsParts, ServerStep, ServerTyped
<1>2. -1..clients \subseteq -1..clients'
  BY <1>1
<1> QED
  BY <1>2 DEF Client

(***************************************************************************)
(* A step of one machine: it has to keep what SInv says of itself, take no *)
(* client id of another machine, and tell the server of no other client.   *)
(***************************************************************************)
LEMMA MachineStep ==
  ASSUME SInv, NEW m \in Machines, NEW news, ServerStep(news),
         \A c \in news : c = client[m].client_id /\ c > 0,
         MachinesTyped', MachineOK(m)',
         \A k \in Machines : k # m =>
            /\ at'[k] = at[k] /\ client'[k] = client[k]
            /\ console'[k] = console[k] /\ controllers'[k] = controllers[k],
         \/ client'[m].client_id = client[m].client_id
         \/ client'[m].client_id > clients
         \/ client'[m].client_id <= 0
  PROVE  SInv'
<1>1. OneClientEach /\ MachinesTyped /\ clients \in Nat
  BY SInvParts DEF SInvAsParts, ServerTyped
<1>2. \A k \in Machines : k # m => client[k].client_id \notin news
  BY <1>1 DEF OneClientEach
<1>3. \A k \in Machines : MachineOK(k)'
  BY <1>2, OthersKept
<1>4. \A k \in Machines : client[k].client_id \in -1..clients
  BY <1>1 DEF MachinesTyped, Client
<1>5. client'[m].client_id \in Int
  BY DEF MachinesTyped, Client
<1>6. OneClientEach'
  BY <1>1, <1>4, <1>5 DEF OneClientEach
<1>7. ServerTyped' /\ \A id \in DOMAIN consoles' : ConsoleOK(id)'
  BY DEF ServerStep
<1> QED
  BY <1>3, <1>6, <1>7, SInvParts DEF SInvAsParts

(***************************************************************************)
(* A step of the server alone.                                             *)
(***************************************************************************)
LEMMA ServerAlone ==
  ASSUME SInv, ServerStep({}), UNCHANGED <<at, attempts, plugin>>
  PROVE  SInv'
<1>1. UNCHANGED <<at, attempts, enabled, handler, created, console, client, controllers>>
  BY DEF plugin
<1>2. MachinesTyped'
  BY <1>1, SInvParts, ClientsGrow DEF SInvAsParts, MachinesTyped, Controllers
<1>3. \A k \in Machines : MachineOK(k)'
  BY <1>1, OthersKept
<1>4. OneClientEach'
  BY <1>1, SInvParts DEF SInvAsParts, OneClientEach
<1>5. ServerTyped' /\ \A id \in DOMAIN consoles' : ConsoleOK(id)'
  BY DEF ServerStep
<1> QED
  BY <1>2, <1>3, <1>4, <1>5, SInvParts DEF SInvAsParts

(***************************************************************************)
(* A machine that fails, crashes, or has netplay disabled keeps what its   *)
(* plugin has: nothing is promised of it.                                  *)
(***************************************************************************)
LEMMA StopStep ==
  ASSUME SInv, NEW m \in Machines, ServerStep({}),
         NEW stage \in {"idle", "off", "failed", "crashed"}, GoTo(m, stage),
         DOMAIN attempts' = Machines,
         \A k \in Machines : attempts'[k] \in 0..MaxAttempts[k],
         UNCHANGED plugin
  PROVE  SInv'
<1>1. /\ at' = [at EXCEPT ![m] = stage]
      /\ UNCHANGED <<enabled, handler, created, console, client, controllers>>
  BY DEF GoTo, plugin
<1>2. MachinesTyped /\ stage \in Stages
  BY SInvParts DEF SInvAsParts, Stages
<1>3. /\ at' \in [Machines -> Stages] /\ at'[m] = stage
      /\ \A k \in Machines : k # m => at'[k] = at[k]
  BY <1>1, <1>2 DEF MachinesTyped
<1>4. MachinesTyped'
  BY <1>1, <1>2, <1>3, ClientsGrow DEF MachinesTyped, Controllers
<1>5. MachineOK(m)'
  BY <1>3 DEF MachineOK, ClientFits, PortsArePlugged, NotReadyYet, PlaysStartedConsole,
    Answered
<1> QED
  BY <1>1, <1>3, <1>4, <1>5, MachineStep

(***************************************************************************)
(* A new game, or a new start of the emulator: the plugin is as new        *)
(* (plugin-impl.cc:21-34).                                                 *)
(***************************************************************************)
LEMMA ResetStep ==
  ASSUME SInv, NEW m \in Machines, UNCHANGED server,
         NEW stage \in {"loaded", "asking", "failed"}, GoTo(m, stage),
         DOMAIN attempts' = Machines,
         \A k \in Machines : attempts'[k] \in 0..MaxAttempts[k],
         NEW on \in BOOLEAN, enabled' = [enabled EXCEPT ![m] = on],
         handler' = [handler EXCEPT ![m] = FALSE],
         created' = [created EXCEPT ![m] = FALSE],
         console' = [console EXCEPT ![m] = -1],
         client' = [client EXCEPT ![m] = NewClient],
         controllers' = [controllers EXCEPT ![m] = NoControllers]
  PROVE  SInv'
<1>1. ServerStep({})
  BY NoServerStep
<1>2. MachinesTyped /\ ServerTyped
  BY SInvParts DEF SInvAsParts
<1>3. /\ at' \in [Machines -> Stages] /\ at'[m] = stage
      /\ client'[m] = NewClient /\ console'[m] = -1 /\ controllers'[m] = NoControllers
      /\ \A k \in Machines : k # m =>
            /\ at'[k] = at[k] /\ client'[k] = client[k]
            /\ console'[k] = console[k] /\ controllers'[k] = controllers[k]
  BY <1>2 DEF MachinesTyped, GoTo, Stages
<1>4. NewClient \in Client' /\ NoControllers \in Controllers
  <2>1. -1 \in -1..clients'
    BY <1>1 DEF ServerStep, ServerTyped
  <2>2. <<>> \in Seq(M64Ports)
    OBVIOUS
  <2>3. Absent \in [Present : {0, 1}, Remote : {0, 1}, Delay : Int, Channel : -1..3]
    BY DEF Absent
  <2> QED
    BY <2>1, <2>2, <2>3 DEF NewClient, NoControllers, Client, Controllers
<1>5. client' \in [Machines -> Client'] /\ controllers' \in [Machines -> Controllers]
  BY <1>1, <1>2, <1>4, ClientsGrow DEF MachinesTyped
<1>6. /\ {enabled', handler', created'} \subseteq [Machines -> BOOLEAN]
      /\ console' \in [Machines -> ConsoleIds \union {-1}]
  BY <1>2 DEF MachinesTyped
<1>7. MachinesTyped'
  BY <1>3, <1>5, <1>6 DEF MachinesTyped, Controllers
<1>8. MachineOK(m)'
  BY <1>3 DEF MachineOK, ClientFits, PortsArePlugged, NotReadyYet, PlaysStartedConsole,
    Answered
<1>9. client'[m].client_id <= 0
  BY <1>3 DEF NewClient
<1> QED
  BY <1>1, <1>3, <1>7, <1>8, <1>9, MachineStep

(***************************************************************************)
(* The player has chosen a console: the controllers are as when the game   *)
(* was opened, and so is the client (plugin-impl.cc:51-57).                *)
(***************************************************************************)
LEMMA UseStep ==
  ASSUME SInv, NEW m \in Machines, at[m] = "asking", ServerStep({}),
         NEW id \in ConsoleIds \union {-1}, NEW is_new \in BOOLEAN,
         UseConsole(m, id, is_new)
  PROVE  SInv'
<1>1. /\ at' = [at EXCEPT ![m] = "requesting"]
      /\ created' = [created EXCEPT ![m] = is_new]
      /\ console' = [console EXCEPT ![m] = id]
      /\ UNCHANGED <<attempts, enabled, handler, client, controllers>>
  BY DEF UseConsole, GoTo
<1>2. MachinesTyped /\ ClientFits(m)
  BY SInvParts DEF SInvAsParts, MachineOK
<1>3. /\ at' \in [Machines -> Stages] /\ at'[m] = "requesting"
      /\ console' \in [Machines -> ConsoleIds \union {-1}]
      /\ created' \in [Machines -> BOOLEAN]
      /\ \A k \in Machines : k # m => at'[k] = at[k] /\ console'[k] = console[k]
  BY <1>1, <1>2 DEF MachinesTyped, Stages
<1>4. MachinesTyped'
  BY <1>1, <1>2, <1>3, ClientsGrow DEF MachinesTyped, Controllers
<1>5. client'[m] = NewClient /\ controllers'[m] = NoControllers
  BY <1>1, <1>2 DEF ClientFits
<1>6. MachineOK(m)'
  BY <1>3, <1>5 DEF MachineOK, ClientFits, PortsArePlugged, NotReadyYet,
    PlaysStartedConsole, Answered
<1> QED
  BY <1>1, <1>3, <1>4, <1>6, MachineStep

-----------------------------------------------------------------------------
\* Two sequences, one behind the other.
LEMMA ConcatBound ==
  ASSUME NEW S, NEW s \in Seq(S), NEW t \in Seq(S), NEW n \in Nat, NEW k \in Nat,
         Len(s) <= n, Len(t) <= k
  PROVE  s \o t \in Seq(S) /\ Len(s \o t) <= n + k
<1>1. s \o t \in Seq(S) /\ Len(s \o t) = Len(s) + Len(t)
  BY ConcatProperties
<1>2. Len(s) \in Nat /\ Len(t) \in Nat
  BY LenProperties
<1> QED
  BY <1>1, <1>2

\* An array of n elements is a sequence of length n.
LEMMA FunctionIsSeq ==
  ASSUME NEW S, NEW n \in Nat, NEW f \in [1..n -> S]
  PROVE  f \in Seq(S) /\ Len(f) = n
<1>1. f \in Seq(S)
  BY SeqDef
<1>2. Len(f) \in Nat /\ DOMAIN f = 1..Len(f)
  BY <1>1, LenProperties
<1> QED
  BY <1>1, <1>2

(***************************************************************************)
(* A setting asks for one port or for none (plugin-impl.cc:62-74).         *)
(***************************************************************************)
LEMMA PortRequestLemma ==
  ASSUME NEW encoded \in Int
  PROVE  PortRequest(encoded) \in Seq(Port) /\ Len(PortRequest(encoded)) <= 1
<1>1. M64RequestedIntToPort(encoded) \in Port
  BY DEF M64RequestedIntToPort, Port, M64Ports
<1>2. CASE encoded = -1
  <2>1. <<>> \in Seq(Port) /\ Len(<<>>) = 0
    OBVIOUS
  <2> QED
    BY <1>2, <2>1 DEF PortRequest
<1>3. CASE encoded # -1
  <2> DEFINE port == M64RequestedIntToPort(encoded)
  <2>1. <<port>> \in Seq(Port) /\ Len(<<port>>) = 1
    BY <1>1
  <2> QED
    BY <1>3, <2>1 DEF PortRequest
<1> QED
  BY <1>2, <1>3

(***************************************************************************)
(* The ports asked for are at most four, whatever the settings are         *)
(* (plugin-impl.cc:62-74).                                                 *)
(***************************************************************************)
LEMMA RequestLemma ==
  ASSUME NEW configuration \in Configurations
  PROVE  /\ RequestedPorts(configuration) \in Seq(Port)
         /\ Len(RequestedPorts(configuration)) <= 4
<1> DEFINE r1 == PortRequest(configuration[1])
           r2 == PortRequest(configuration[2])
           r3 == PortRequest(configuration[3])
           r4 == PortRequest(configuration[4])
<1>1. /\ configuration[1] \in Int /\ configuration[2] \in Int
      /\ configuration[3] \in Int /\ configuration[4] \in Int
  OBVIOUS
<1>2. /\ r1 \in Seq(Port) /\ Len(r1) <= 1
      /\ r2 \in Seq(Port) /\ Len(r2) <= 1
      /\ r3 \in Seq(Port) /\ Len(r3) <= 1
      /\ r4 \in Seq(Port) /\ Len(r4) <= 1
  BY <1>1, PortRequestLemma
<1>3. RequestedPorts(configuration) = r1 \o r2 \o r3 \o r4
  BY DEF RequestedPorts
<1> HIDE DEF r1, r2, r3, r4
<1>4. r1 \o r2 \in Seq(Port) /\ Len(r1 \o r2) <= 1 + 1
  BY <1>2, ConcatBound
<1>5. r1 \o r2 \o r3 \in Seq(Port) /\ Len(r1 \o r2 \o r3) <= 1 + 1 + 1
  BY <1>2, <1>4, ConcatBound
<1>6. r1 \o r2 \o r3 \o r4 \in Seq(Port) /\ Len(r1 \o r2 \o r3 \o r4) <= 1 + 1 + 1 + 1
  BY <1>2, <1>5, ConcatBound
<1> QED
  BY <1>3, <1>6

(***************************************************************************)
(* A client without ports that takes an answer has those of the answer,    *)
(* and the id it was given (client.hpp:80-88).                             *)
(***************************************************************************)
LEMMA TakeAnswerLemma ==
  ASSUME SInv, NEW m \in Machines, at[m] = "requesting", NEW news, ServerStep(news),
         NEW client_id \in -1..clients', NEW ports \in Seq(M64Ports),
         TakeAnswer(m, client_id, ports)
  PROVE  /\ MachinesTyped'
         /\ at'[m] = "plugged" /\ console'[m] = console[m]
         /\ controllers'[m] = NoControllers
         /\ client'[m].console_id = console[m]
         /\ client'[m].client_id = client_id
         /\ client'[m].local_ports = ports
         /\ \A k \in Machines : k # m =>
              /\ at'[k] = at[k] /\ client'[k] = client[k]
              /\ console'[k] = console[k] /\ controllers'[k] = controllers[k]
<1> DEFINE answer == [ console_id |-> console[m], client_id |-> client_id,
                       local_ports |-> client[m].local_ports \o ports ]
<1>1. /\ at' = [at EXCEPT ![m] = "plugged"]
      /\ client' = [client EXCEPT ![m] = answer]
      /\ UNCHANGED <<attempts, enabled, handler, created, console, controllers>>
  BY DEF TakeAnswer, GoTo
<1>2. MachinesTyped /\ ClientFits(m)
  BY SInvParts DEF SInvAsParts, MachineOK
<1>3. client[m] = NewClient /\ controllers[m] = NoControllers
  BY <1>2 DEF ClientFits
<1>4. client[m].local_ports \o ports = ports
  BY <1>3 DEF NewClient
<1>5. answer \in Client'
  BY <1>2, <1>4 DEF MachinesTyped, Client
<1>6. /\ answer.console_id = console[m]
      /\ answer.client_id = client_id
      /\ answer.local_ports = ports
  BY <1>4
<1> HIDE DEF answer
<1>7. client' \in [Machines -> Client']
  BY <1>1, <1>2, <1>5, ClientsGrow DEF MachinesTyped
<1>8. at' \in [Machines -> Stages]
  BY <1>1, <1>2 DEF MachinesTyped, Stages
<1>9. MachinesTyped'
  BY <1>1, <1>2, <1>7, <1>8 DEF MachinesTyped, Controllers
<1>10. at'[m] = "plugged" /\ client'[m] = answer
  BY <1>1, <1>2 DEF MachinesTyped
<1>11. \A k \in Machines : k # m => at'[k] = at[k] /\ client'[k] = client[k]
  BY <1>1, <1>2 DEF MachinesTyped
<1> QED
  BY <1>1, <1>3, <1>6, <1>9, <1>10, <1>11

(***************************************************************************)
(* The server plugs the ports, and the client takes its answer.            *)
(***************************************************************************)
LEMMA PluggedStep ==
  ASSUME SInv, NEW m \in Machines, at[m] = "requesting",
         NEW requested \in Seq(Port), Len(requested) <= 4,
         console[m] \in DOMAIN consoles, ~consoles[console[m]].started,
         NEW ports \in Assignments(console[m], requested),
         Plug(console[m], ports, delay_frames[m]), TakeAnswer(m, clients + 1, ports)
  PROVE  SInv'
<1> DEFINE id == console[m]
<1>1. /\ ServerStep({})
      /\ clients' = clients + 1
      /\ \A e \in consoles'[id].plugged :
            e.client = clients + 1 => e.port \in Range(ports) /\ e.delay = delay_frames[m]
      /\ \A p \in Range(ports) : \E e \in consoles'[id].plugged :
            e.client = clients + 1 /\ e.port = p
  BY PlugStep
<1>2. ServerTyped /\ clients \in Nat
  BY SInvParts DEF SInvAsParts, ServerTyped
<1>3. ports \in [1..Len(requested) -> M64Ports] /\ IsInjective(ports)
  BY DEF Assignments
<1>4. ports \in Seq(M64Ports) /\ Len(ports) <= 4
  <2>1. Len(requested) \in Nat
    BY LenProperties
  <2> QED
    BY <1>3, <2>1, FunctionIsSeq
<1>5. clients + 1 \in -1..clients'
  BY <1>1, <1>2
<1>6. /\ MachinesTyped'
      /\ at'[m] = "plugged" /\ console'[m] = id
      /\ controllers'[m] = NoControllers
      /\ client'[m].console_id = id
      /\ client'[m].client_id = clients + 1
      /\ client'[m].local_ports = ports
      /\ \A k \in Machines : k # m =>
           /\ at'[k] = at[k] /\ client'[k] = client[k]
           /\ console'[k] = console[k] /\ controllers'[k] = controllers[k]
  BY <1>1, <1>4, <1>5, TakeAnswerLemma
<1>7. id > 0 /\ id \in DOMAIN consoles'
  BY <1>1, <1>2 DEF ServerTyped, ConsoleIds, ServerStep, Grows
<1>8. "PORT_ANY" \notin Range(ports)
  BY <1>3 DEF Range, M64Ports
<1>9. HandlerOK(client'[m])
  BY <1>2, <1>3, <1>4, <1>6, <1>7, <1>8 DEF HandlerOK
<1>10. ClientFits(m)'
  BY <1>2, <1>6, <1>9 DEF ClientFits
<1>11. PortsArePlugged(m)'
  <2>1. Range(ports) = { e.port : e \in { d \in consoles'[id].plugged :
                                            d.client = clients + 1 } }
    BY <1>1
  <2> QED
    BY <1>1, <1>6, <1>7, <2>1 DEF PortsArePlugged
<1>12. ~Heard(clients + 1)
  BY <1>2 DEF ServerTyped, Heard
<1>13. NotReadyYet(m)'
  <2>1. \A c : Heard(c)' => Heard(c)
    BY <1>1 DEF ServerStep
  <2> QED
    BY <1>6, <1>12, <2>1 DEF NotReadyYet, Heard
<1>14. MachineOK(m)'
  BY <1>6, <1>10, <1>11, <1>13 DEF MachineOK, PlaysStartedConsole
<1>15. client'[m].client_id > clients
  BY <1>2, <1>6
<1> QED
  BY <1>1, <1>6, <1>14, <1>15, MachineStep

(***************************************************************************)
(* The server refuses: the client gets no ports, and no id.                *)
(***************************************************************************)
LEMMA RefusedStep ==
  ASSUME SInv, NEW m \in Machines, at[m] = "requesting", UNCHANGED server,
         TakeAnswer(m, 0, <<>>)
  PROVE  SInv'
<1>1. ServerStep({})
  BY NoServerStep
<1>2. 0 \in -1..clients' /\ <<>> \in Seq(M64Ports) /\ ServerTyped'
  BY <1>1 DEF ServerStep, ServerTyped
<1>3. /\ MachinesTyped'
      /\ at'[m] = "plugged" /\ console'[m] = console[m]
      /\ controllers'[m] = NoControllers
      /\ client'[m].console_id = console[m]
      /\ client'[m].client_id = 0
      /\ \A k \in Machines : k # m =>
           /\ at'[k] = at[k] /\ client'[k] = client[k]
           /\ console'[k] = console[k] /\ controllers'[k] = controllers[k]
  BY <1>1, <1>2, TakeAnswerLemma
<1>4. NotReadyYet(m)'
  <2>1. \A id \in DOMAIN consoles' : consoles'[id].ready \subseteq 1..clients'
    BY <1>2 DEF ServerTyped
  <2>2. \A event \in arriving' : event.client \in 1..clients'
    BY <1>2 DEF ServerTyped
  <2>3. 0 \notin 1..clients'
    OBVIOUS
  <2> QED
    BY <1>3, <2>1, <2>2, <2>3 DEF NotReadyYet
<1>5. MachineOK(m)'
  BY <1>3, <1>4 DEF MachineOK, ClientFits, PortsArePlugged, PlaysStartedConsole
<1> QED
  BY <1>1, <1>3, <1>5, MachineStep

(***************************************************************************)
(* A machine with a handler goes on, or is about to get one: its client is *)
(* as it was (plugin-impl.cc:85-104).                                      *)
(***************************************************************************)
LEMMA StageStep ==
  ASSUME SInv, NEW m \in Machines, HandlerOK(client[m]),
         NEW stage \in {"made", "starting", "waiting"}, GoTo(m, stage),
         \/ at[m] = "plugged" /\ stage = "made"
         \/ at[m] \in {"made", "starting"} /\ stage # "made",
         NEW news \in SUBSET {client[m].client_id}, ServerStep(news),
         stage = "made" => news = {},
         handler' \in [Machines -> BOOLEAN],
         UNCHANGED <<attempts, enabled, created, console, client, controllers>>
  PROVE  SInv'
<1>1. MachinesTyped /\ MachineOK(m)
  BY SInvParts DEF SInvAsParts
<1>2. /\ at' \in [Machines -> Stages] /\ at'[m] = stage
      /\ \A k \in Machines : k # m => at'[k] = at[k]
  BY <1>1 DEF MachinesTyped, Stages, GoTo
<1>3. MachinesTyped'
  BY <1>1, <1>2, ClientsGrow DEF MachinesTyped, Controllers
<1>4. ClientFits(m)'
  BY <1>1, <1>2 DEF MachineOK, ClientFits, Answered
<1>5. at[m] \in Answered
  BY DEF Answered
<1>6. PortsArePlugged(m)'
  BY <1>5, PortsKept
<1>7. NotReadyYet(m)'
  <2>1. CASE stage = "made"
    <3>1. ~Heard(client[m].client_id)
      BY <1>1, <2>1 DEF MachineOK, NotReadyYet, Heard
    <3>2. \A c : Heard(c)' => Heard(c)
      BY <2>1 DEF ServerStep
    <3> QED
      BY <3>1, <3>2 DEF NotReadyYet, Heard
  <2>2. CASE stage # "made"
    BY <1>2, <2>2 DEF NotReadyYet
  <2> QED
    BY <2>1, <2>2
<1>8. MachineOK(m)'
  BY <1>2, <1>4, <1>6, <1>7 DEF MachineOK, PlaysStartedConsole
<1>9. client[m].client_id > 0
  BY DEF HandlerOK
<1> QED
  BY <1>2, <1>3, <1>8, <1>9, MachineStep

(***************************************************************************)
(* The handler aborts the emulator (event-stream-handler.hpp:24-45): only  *)
(* for a client the server had refused.                                    *)
(***************************************************************************)
LEMMA AbortStep ==
  ASSUME SInv, NEW m \in Machines, at[m] = "plugged", ~HandlerOK(client[m]),
         GoTo(m, "aborted"), UNCHANGED <<attempts, plugin, server>>
  PROVE  SInv'
<1>1. MachinesTyped /\ MachineOK(m) /\ ServerStep({})
  BY SInvParts, NoServerStep DEF SInvAsParts
<1>2. UNCHANGED <<attempts, enabled, handler, created, console, client, controllers>>
  BY DEF plugin
<1>3. /\ at' \in [Machines -> Stages] /\ at'[m] = "aborted"
      /\ \A k \in Machines : k # m => at'[k] = at[k]
  BY <1>1 DEF MachinesTyped, Stages, GoTo
<1>4. client[m].client_id <= 0
  BY <1>1 DEF MachineOK, ClientFits, MachinesTyped, Client
<1>5. MachinesTyped'
  BY <1>1, <1>2, <1>3, ClientsGrow DEF MachinesTyped, Controllers
<1>6. client'[m].console_id = console'[m]
  BY <1>1, <1>2 DEF MachineOK, ClientFits, Answered
<1>7. MachineOK(m)'
  BY <1>1, <1>2, <1>3, <1>4, <1>6 DEF MachineOK, ClientFits, PortsArePlugged, NotReadyYet,
    PlaysStartedConsole, MachinesTyped, Client
<1> QED
  BY <1>1, <1>2, <1>3, <1>5, <1>7, MachineStep


-----------------------------------------------------------------------------
(***************************************************************************)
(* The loops of PermuteNetplayControllers, for a machine whose channels    *)
(* are as many as its ports, and controllers that were all absent          *)
(* (plugin-impl.cc:173-224): they make the controllers match the console.  *)
(***************************************************************************)
LEMMA PermuteLemma ==
  ASSUME SInv, NEW m \in Machines, at[m] = "waiting", ChannelsFit(m)
  PROVE  LET c == PermuteNetplayControllers(m, console[m]) IN
         /\ c \in Controllers
         /\ Matches(c, consoles[console[m]].plugged, client[m].client_id, delay_frames[m],
                    Channels[m])
<1> DEFINE id == console[m]
           plugged == consoles[id].plugged
           mine == client[m].client_id
           ports == Range(client[m].local_ports)
           entry(q) == CHOOSE e \in plugged : e.port = q
           connected == { e.port : e \in plugged }
           c == PermuteNetplayControllers(m, id)
           local == { i \in 0..3 : c[i].Present = 1 /\ c[i].Remote = 0 }
<1>1. /\ MachinesTyped /\ ServerTyped /\ ClientFits(m) /\ PortsArePlugged(m)
      /\ \A i \in DOMAIN consoles : ConsoleOK(i)
  BY SInvParts DEF SInvAsParts, MachineOK
<1>2. mine > 0 /\ controllers[m] = NoControllers
  BY <1>1 DEF ClientFits, HandlerOK
<1>3. /\ id \in DOMAIN consoles
      /\ ports = { e.port : e \in { d \in plugged : d.client = mine } }
      /\ \A e \in plugged : e.client = mine => e.delay = delay_frames[m]
  BY <1>1, <1>2 DEF PortsArePlugged, Answered
<1>4. \A e, f \in plugged : e.port = f.port => e = f
  BY <1>1, <1>3 DEF ConsoleOK
<1>5. \A e \in plugged : e.port \in M64Ports
  BY <1>1, <1>3 DEF ServerTyped
<1>6. ports \in SUBSET M64Ports
  BY <1>3, <1>5
<1>7. \A q \in connected : entry(q) \in plugged /\ entry(q).port = q
  OBVIOUS
<1>8. \A q \in connected : entry(q).client = mine <=> q \in ports
  BY <1>3, <1>4, <1>7
<1>9. ports \subseteq connected /\ connected \subseteq M64Ports
  BY <1>3, <1>5
<1>10. /\ \A p \in ports : ChannelOf(m, p) \in Channels[m]
       /\ \A p, q \in ports : PortToM64Port(p) < PortToM64Port(q) =>
            ChannelOf(m, p) < ChannelOf(m, q)
       /\ \A k \in Channels[m] : \E p \in ports : ChannelOf(m, p) = k
  BY <1>6, ChannelsLemma
<1>11. \A p \in ports : DelayOf(id, p) = delay_frames[m] /\ DelayOf(id, p) \in Int
  <2>1. \A p \in ports : DelayOf(id, p) = entry(p).delay
    BY DEF DelayOf
  <2>2. delay_frames[m] \in Int
    OBVIOUS
  <2> HIDE DEF entry, ports, plugged, connected
  <2>3. \A p \in ports : entry(p) \in plugged /\ entry(p).client = mine
    BY <1>7, <1>8, <1>9
  <2>4. \A p \in ports : entry(p).delay = delay_frames[m]
    BY <1>3, <2>3
  <2> QED
    BY <2>1, <2>2, <2>4
<1>12. c = [i \in 0..3 |->
             IF M64PortToPort(i) \in ports
             THEN [Present |-> 1, Remote |-> 0, Delay |-> DelayOf(id, M64PortToPort(i)),
                   Channel |-> ChannelOf(m, M64PortToPort(i))]
             ELSE IF M64PortToPort(i) \in connected
             THEN [Present |-> 1, Remote |-> 1, Delay |-> 0, Channel |-> -1]
             ELSE Absent]
  BY <1>2 DEF PermuteNetplayControllers, Connected, NoControllers
<1> HIDE DEF id, plugged, mine, ports, entry, connected, c
<1>13. \A i \in 0..3 :
         /\ M64PortToPort(i) \in ports =>
              /\ c[i].Present = 1 /\ c[i].Remote = 0
              /\ c[i].Delay = DelayOf(id, M64PortToPort(i))
              /\ c[i].Channel = ChannelOf(m, M64PortToPort(i))
         /\ M64PortToPort(i) \in connected \ ports =>
              /\ c[i].Present = 1 /\ c[i].Remote = 1
              /\ c[i].Delay = 0 /\ c[i].Channel = -1
         /\ M64PortToPort(i) \notin connected => c[i].Present = 0 /\ c[i].Remote = 0
  BY <1>9, <1>12 DEF Absent
<1>14. c \in Controllers
  <2>1. \A p \in ports : ChannelOf(m, p) \in -1..3
    BY <1>10
  <2> DEFINE Controller == [Present : {0, 1}, Remote : {0, 1}, Delay : Int, Channel : -1..3]
  <2>2. \A p \in ports : [Present |-> 1, Remote |-> 0, Delay |-> DelayOf(id, p),
                          Channel |-> ChannelOf(m, p)] \in Controller
    BY <1>11, <2>1
  <2>3. /\ [Present |-> 1, Remote |-> 1, Delay |-> 0, Channel |-> -1] \in Controller
        /\ Absent \in Controller
    BY DEF Absent
  <2> HIDE DEF Controller
  <2> QED
    BY <1>12, <2>2, <2>3 DEF Controllers, Controller
<1>15. \A i \in 0..3 : i \in local <=> M64PortToPort(i) \in ports
  BY <1>9, <1>13
<1>16. { i \in 0..3 : c[i].Present = 1 } = { PortToM64Port(p) : p \in connected }
  <2>1. \A i \in 0..3 : c[i].Present = 1 <=> M64PortToPort(i) \in connected
    BY <1>9, <1>13
  <2> QED
    BY <1>9, <2>1, PortIndex
<1>17. local = { PortToM64Port(p) : p \in { q \in connected : entry(q).client = mine } }
  <2>1. { q \in connected : entry(q).client = mine } = ports
    BY <1>8, <1>9
  <2>2. \A i \in local : i \in 0..3
    OBVIOUS
  <2> HIDE DEF local
  <2>3. local = { PortToM64Port(p) : p \in ports }
    BY <1>6, <1>15, <2>2, PortIndex
  <2> QED
    BY <2>1, <2>3
<1>18. /\ \A i \in local : i \in 0..3
       /\ \A i \in local : /\ c[i].Delay = delay_frames[m]
                           /\ c[i].Channel = ChannelOf(m, M64PortToPort(i))
  BY <1>11, <1>13, <1>15
<1> HIDE DEF local
<1>19. { c[i].Channel : i \in local } = Channels[m]
  <2>1. \A i \in local : c[i].Channel \in Channels[m]
    BY <1>10, <1>15, <1>18
  <2>2. ASSUME NEW k \in Channels[m]
        PROVE  \E i \in local : c[i].Channel = k
    <3>1. PICK p \in ports : ChannelOf(m, p) = k
      BY <1>10
    <3>2. PortToM64Port(p) \in 0..3 /\ M64PortToPort(PortToM64Port(p)) = p
      BY <1>6, PortIndex
    <3>3. PortToM64Port(p) \in local
      BY <1>15, <3>2
    <3> QED
      BY <1>18, <3>1, <3>2, <3>3
  <2> QED
    BY <2>1, <2>2
<1>20. ASSUME NEW i \in local, NEW j \in local, i < j
       PROVE  c[i].Channel < c[j].Channel
  <2>1. /\ M64PortToPort(i) \in ports /\ PortToM64Port(M64PortToPort(i)) = i
        /\ M64PortToPort(j) \in ports /\ PortToM64Port(M64PortToPort(j)) = j
    BY <1>15, <1>18, PortIndex
  <2>2. ChannelOf(m, M64PortToPort(i)) < ChannelOf(m, M64PortToPort(j))
    BY <1>10, <1>20, <2>1
  <2> QED
    BY <1>18, <2>2
<1>21. \A i \in 0..3 : c[i].Remote = 1 => c[i].Delay = 0 /\ c[i].Channel = -1
  BY <1>9, <1>13
<1>22. Matches(c, plugged, mine, delay_frames[m], Channels[m])
  BY <1>16, <1>17, <1>18, <1>19, <1>20, <1>21 DEF Matches, local, entry, connected
<1> QED
  BY <1>14, <1>22 DEF c, id, plugged, mine

(***************************************************************************)
(* The start_game event has been read, and the emulator runs the game.     *)
(***************************************************************************)
LEMMA PlayStep ==
  ASSUME SInv, NEW m \in Machines, at[m] = "waiting", UNCHANGED server,
         console[m] \in DOMAIN consoles, consoles[console[m]].started,
         ChannelsFit(m), GoTo(m, "playing"),
         controllers' = [controllers EXCEPT ![m] = PermuteNetplayControllers(m, console[m])],
         UNCHANGED <<attempts, enabled, handler, created, console, client>>
  PROVE  SInv'
<1> DEFINE c == PermuteNetplayControllers(m, console[m])
<1>1. MachinesTyped /\ MachineOK(m) /\ ServerStep({})
  BY SInvParts, NoServerStep DEF SInvAsParts
<1>2. UNCHANGED <<consoles, clients, arriving>>
  BY DEF server
<1>3. /\ c \in Controllers
      /\ Matches(c, consoles[console[m]].plugged, client[m].client_id, delay_frames[m],
                 Channels[m])
  BY PermuteLemma
<1> HIDE DEF c
<1>4. /\ at' \in [Machines -> Stages] /\ at'[m] = "playing"
      /\ controllers' \in [Machines -> Controllers] /\ controllers'[m] = c
      /\ \A k \in Machines : k # m => at'[k] = at[k] /\ controllers'[k] = controllers[k]
  BY <1>1, <1>3 DEF MachinesTyped, Stages, GoTo, c
<1>5. MachinesTyped'
  BY <1>1, <1>4, ClientsGrow DEF MachinesTyped, Controllers
<1>6. ClientFits(m)'
  BY <1>1, <1>4 DEF MachineOK, ClientFits, Answered
<1>7. PortsArePlugged(m)'
  BY <1>1, PortsKept DEF Answered
<1>8. ControllersMatch(m)'
  BY <1>2, <1>3, <1>4, MatchesLemma
<1>9. MachineOK(m)'
  BY <1>2, <1>4, <1>6, <1>7, <1>8 DEF MachineOK, NotReadyYet, PlaysStartedConsole
<1> QED
  BY <1>1, <1>4, <1>5, <1>9, MachineStep

-----------------------------------------------------------------------------
(***************************************************************************)
(* The emulators have been started, and the server has no consoles.        *)
(***************************************************************************)
LEMMA SInvInit == Init => SInv
<1> SUFFICES ASSUME Init  PROVE SInv
  OBVIOUS
<1>1. /\ at = [m \in Machines |-> "loaded"]
      /\ attempts = [m \in Machines |-> 0]
      /\ enabled = [m \in Machines |-> FALSE]
      /\ handler = [m \in Machines |-> FALSE]
      /\ created = [m \in Machines |-> FALSE]
      /\ console = [m \in Machines |-> -1]
      /\ client = [m \in Machines |-> NewClient]
      /\ controllers = [m \in Machines |-> NoControllers]
      /\ DOMAIN consoles = {}
      /\ clients = 0
      /\ arriving = {}
  BY DEF Init
<1>2. Cardinality(DOMAIN consoles) = 0
  BY <1>1, FS_EmptySet
<1>3. ServerTyped
  BY <1>1, <1>2 DEF ServerTyped
<1>4. NewClient \in Client
  <2>1. <<>> \in Seq(M64Ports)
    OBVIOUS
  <2> QED
    BY <1>1, <2>1 DEF NewClient, Client
<1>5. NoControllers \in Controllers
  <2>1. Absent \in [Present : {0, 1}, Remote : {0, 1}, Delay : Int, Channel : -1..3]
    BY DEF Absent
  <2> QED
    BY <2>1 DEF NoControllers, Controllers
<1>6. \A m \in Machines : MaxAttempts[m] \in Nat
  OBVIOUS
<1>7. MachinesTyped
  BY <1>1, <1>4, <1>5, <1>6 DEF MachinesTyped, Stages
<1>8. \A m \in Machines : MachineOK(m)
  BY <1>1 DEF MachineOK, ClientFits, PortsArePlugged, NotReadyYet, PlaysStartedConsole,
    Answered
<1>9. OneClientEach
  BY <1>1 DEF OneClientEach, NewClient
<1> QED
  BY <1>1, <1>3, <1>7, <1>8, <1>9, SInvParts DEF SInvAsParts

(***************************************************************************)
(* A game is opened, or the emulator is started, or started again.         *)
(***************************************************************************)
LEMMA OpenSteps ==
  ASSUME SInv, NEW m \in Machines,
         PluginStartup(m) \/ InitiateNetplay(m) \/ Keys(m) \/ Restart(m)
  PROVE  SInv'
<1>1. MachinesTyped
  BY SInvParts DEF SInvAsParts
<1>2. /\ DOMAIN attempts = Machines
      /\ \A k \in Machines : attempts[k] \in 0..MaxAttempts[k] /\ MaxAttempts[k] \in Nat
  BY <1>1 DEF MachinesTyped
<1>3. CASE PluginStartup(m)
  <2>1. ServerStep({})
    BY <1>3, NoServerStep DEF PluginStartup
  <2> QED
    BY <1>2, <1>3, <2>1, StopStep DEF PluginStartup
<1>4. CASE InitiateNetplay(m)
  <2>1. /\ attempts[m] < MaxAttempts[m]
        /\ attempts' = [attempts EXCEPT ![m] = @ + 1]
        /\ UNCHANGED server
    BY <1>4 DEF InitiateNetplay
  <2>2. /\ DOMAIN attempts' = Machines
        /\ \A k \in Machines : attempts'[k] \in 0..MaxAttempts[k]
    BY <1>2, <2>1
  <2>3. ServerStep({})
    BY <2>1, NoServerStep
  <2>4. CASE ConfigMissing(m)
    BY <2>2, <2>3, <2>4, StopStep DEF ConfigMissing
  <2>5. CASE ConfigDisabled(m)
    BY <2>2, <2>3, <2>5, StopStep DEF ConfigDisabled
  <2>6. CASE ConfigEnabled(m)
    <3>1. PICK stage \in {"asking", "failed"} : GoTo(m, stage)
      BY <2>6 DEF ConfigEnabled
    <3> QED
      BY <2>1, <2>2, <2>6, <3>1, ResetStep DEF ConfigEnabled, ClientOfNewGame
  <2> QED
    BY <1>4, <2>4, <2>5, <2>6 DEF InitiateNetplay
<1>5. CASE Keys(m)
  <2>1. ServerStep({})
    BY <1>5, NoServerStep DEF Keys
  <2> QED
    BY <1>2, <1>5, <2>1, StopStep DEF Keys
<1>6. CASE Restart(m)
  BY <1>2, <1>6, ResetStep DEF Restart
<1> QED
  BY <1>3, <1>4, <1>5, <1>6

\* InitiateNetplay returns 0, whatever the server has done.
LEMMA FailStep ==
  ASSUME SInv, NEW m \in Machines, ServerStep({}), Fail(m)
  PROVE  SInv'
<1>1. /\ DOMAIN attempts = Machines
      /\ \A k \in Machines : attempts[k] \in 0..MaxAttempts[k]
  BY SInvParts DEF SInvAsParts, MachinesTyped
<1> QED
  BY <1>1, StopStep DEF Fail

(***************************************************************************)
(* The dialogue about the console, and the RPC that plugs the controllers. *)
(***************************************************************************)
LEMMA SetupSteps ==
  ASSUME SInv, NEW m \in Machines, InteractiveConfig(m) \/ PlugControllers(m)
  PROVE  SInv'
<1>1. CASE InteractiveConfig(m)
  <2>1. at[m] = "asking"
    BY <1>1 DEF InteractiveConfig
  <2>2. CASE InputEnds(m)
    BY <2>2, NoServerStep, FailStep DEF InputEnds
  <2>3. CASE \E id \in ConsoleIds : UseConsole(m, id, FALSE) /\ UNCHANGED server
    BY <2>1, <2>3, NoServerStep, UseStep
  <2>4. CASE CreateConsole(m)
    <3>1. CASE Fail(m) /\ AddConsole
      BY <3>1, AddConsoleStep, FailStep
    <3>2. CASE AddConsole /\ UseConsole(m, Cardinality(DOMAIN consoles) + 1, TRUE)
      BY <2>1, <3>2, AddConsoleStep, UseStep
    <3>3. CASE \E id \in ConsoleIds \union {-1} :
                 UseConsole(m, id, TRUE) /\ UNCHANGED server
      BY <2>1, <3>3, NoServerStep, UseStep
    <3> QED
      BY <2>4, <3>1, <3>2, <3>3 DEF CreateConsole
  <2> QED
    BY <1>1, <2>2, <2>3, <2>4 DEF InteractiveConfig
<1>2. CASE PlugControllers(m)
  <2>1. at[m] = "requesting"
    BY <1>2 DEF PlugControllers
  <2> DEFINE R(configuration) == RequestedPorts(configuration)
  <2>2. CASE Fail(m) /\ UNCHANGED server
    BY <2>2, NoServerStep, FailStep
  <2>3. CASE TakeAnswer(m, 0, <<>>) /\ UNCHANGED server
    BY <2>1, <2>3, RefusedStep
  <2>4. ASSUME NEW configuration \in Configurations,
               console[m] \in DOMAIN consoles, ~consoles[console[m]].started,
               NEW ports \in Assignments(console[m], R(configuration)),
               Plug(console[m], ports, delay_frames[m]),
               TakeAnswer(m, clients + 1, ports) \/ Fail(m)
        PROVE  SInv'
    <3>1. R(configuration) \in Seq(Port) /\ Len(R(configuration)) <= 4
      BY RequestLemma
    <3>2. delay_frames[m] \in Int
      OBVIOUS
    <3> HIDE DEF R
    <3>3. CASE TakeAnswer(m, clients + 1, ports)
      BY <2>1, <2>4, <3>1, <3>3, PluggedStep
    <3>4. CASE Fail(m)
      <4>1. ServerStep({})
        BY <2>4, <3>1, <3>2, PlugStep
      <4> QED
        BY <3>4, <4>1, FailStep
    <3> QED
      BY <2>4, <3>3, <3>4
  <2> QED
    BY <1>2, <2>2, <2>3, <2>4 DEF PlugControllers, PortsAnswered
<1> QED
  BY <1>1, <1>2

(***************************************************************************)
(* From the handler to the first frame.                                    *)
(***************************************************************************)
LEMMA StartSteps ==
  ASSUME SInv, NEW m \in Machines,
         \/ MakeEventStreamHandler(m) \/ ClientReady(m) \/ InteractiveStartConsole(m)
         \/ WaitForConsoleStart(m) \/ WaitFails(m)
  PROVE  SInv'
<1>1. MachinesTyped /\ MachineOK(m) /\ handler \in [Machines -> BOOLEAN]
  BY SInvParts DEF SInvAsParts, MachinesTyped
<1>2. at[m] \in {"made", "starting", "waiting"} => HandlerOK(client[m])
  BY <1>1 DEF MachineOK, ClientFits
<1>3. CASE MakeEventStreamHandler(m)
  <2>1. /\ at[m] = "plugged"
        /\ UNCHANGED <<attempts, enabled, created, console, client, controllers, server>>
    BY <1>3 DEF MakeEventStreamHandler
  <2>2. ServerStep({})
    BY <2>1, NoServerStep
  <2>3. CASE /\ HandlerOK(client[m])
             /\ GoTo(m, "made")
             /\ handler' = [handler EXCEPT ![m] = TRUE]
    <3>1. handler' \in [Machines -> BOOLEAN]
      BY <1>1, <2>3
    <3> QED
      BY <2>1, <2>2, <2>3, <3>1, StageStep
  <2>4. CASE ~HandlerOK(client[m]) /\ GoTo(m, "aborted") /\ UNCHANGED handler
    BY <2>1, <2>4, AbortStep DEF plugin
  <2> QED
    BY <1>3, <2>3, <2>4 DEF MakeEventStreamHandler
<1>4. CASE ClientReady(m)
  <2>1. at[m] = "made"
    BY <1>4 DEF ClientReady
  <2>2. CASE Fail(m) /\ UNCHANGED server
    BY <2>2, NoServerStep, FailStep
  <2>3. CASE /\ GoTo(m, IF created[m] THEN "starting" ELSE "waiting")
             /\ arriving' = arriving \union ReadyEvent(m)
             /\ UNCHANGED <<attempts, plugin, consoles, clients>>
    <3>1. ServerStep({client[m].client_id})
      BY <1>2, <2>1, <2>3, ReadyStep
    <3>2. PICK stage \in {"starting", "waiting"} : GoTo(m, stage)
      BY <2>3
    <3> QED
      BY <1>1, <1>2, <2>1, <2>3, <3>1, <3>2, StageStep DEF plugin
  <2> QED
    BY <1>4, <2>2, <2>3 DEF ClientReady
<1>5. CASE InteractiveStartConsole(m)
  <2>1. /\ at[m] = "starting"
        /\ \/ Fail(m)
           \/ GoTo(m, "waiting") /\ UNCHANGED <<attempts, plugin>>
    BY <1>5 DEF InteractiveStartConsole
  <2>2. ServerStep({})
    BY <1>5, NoServerStep, StartStep DEF InteractiveStartConsole, RequestStart
  <2>3. CASE Fail(m)
    BY <2>2, <2>3, FailStep
  <2>4. CASE GoTo(m, "waiting") /\ UNCHANGED <<attempts, plugin>>
    BY <1>1, <1>2, <2>1, <2>2, <2>4, StageStep DEF plugin
  <2> QED
    BY <2>1, <2>3, <2>4
<1>6. CASE WaitForConsoleStart(m)
  <2>1. at[m] = "waiting" /\ UNCHANGED server
    BY <1>6 DEF WaitForConsoleStart
  <2>2. client[m].console_id = console[m]
    BY <1>1, <2>1 DEF MachineOK, ClientFits, Answered
  <2>3. PICK id \in DOMAIN consoles :
          /\ StartGameEvent(m, id)
          /\ \/ ~ChannelsFit(m) /\ Fail(m)
             \/ /\ ChannelsFit(m)
                /\ GoTo(m, "playing")
                /\ controllers' =
                     [controllers EXCEPT ![m] = PermuteNetplayControllers(m, id)]
                /\ UNCHANGED <<attempts, enabled, handler, created, console, client>>
    BY <1>6 DEF WaitForConsoleStart
  <2>4. id = console[m] /\ consoles[id].started
    BY <2>2, <2>3 DEF StartGameEvent
  <2>5. CASE Fail(m)
    BY <2>1, <2>5, NoServerStep, FailStep
  <2>6. CASE ChannelsFit(m) /\ ~Fail(m)
    BY <2>1, <2>3, <2>4, <2>6, PlayStep
  <2> QED
    BY <2>3, <2>5, <2>6
<1>7. CASE WaitFails(m)
  BY <1>7, NoServerStep, FailStep DEF WaitFails
<1> QED
  BY <1>3, <1>4, <1>5, <1>6, <1>7

(***************************************************************************)
(* Every step keeps SInv.                                                  *)
(***************************************************************************)
LEMMA SInvNext == SInv /\ [Next]_vars => SInv'
<1> SUFFICES ASSUME SInv, [Next]_vars  PROVE SInv'
  OBVIOUS
<1>1. ASSUME NEW m \in Machines,
             PluginStartup(m) \/ InitiateNetplay(m) \/ Keys(m) \/ Restart(m)
      PROVE  SInv'
  BY <1>1, OpenSteps
<1>2. ASSUME NEW m \in Machines, InteractiveConfig(m) \/ PlugControllers(m)
      PROVE  SInv'
  BY <1>2, SetupSteps
<1>3. ASSUME NEW m \in Machines,
             \/ MakeEventStreamHandler(m) \/ ClientReady(m) \/ InteractiveStartConsole(m)
             \/ WaitForConsoleStart(m) \/ WaitFails(m)
      PROVE  SInv'
  BY <1>3, StartSteps
<1>4. ASSUME NEW event \in arriving, ReceiveReady(event)
      PROVE  SInv'
  BY <1>4, ReceiveReadyStep, ServerAlone DEF ReceiveReady
<1>5. ASSUME NEW id \in ConsoleIds, StartGame(id)
      PROVE  SInv'
  BY <1>5, StartStep, ServerAlone DEF StartGame
<1>6. CASE MakeConsole
  BY <1>6, AddConsoleStep, ServerAlone DEF MakeConsole
<1>7. CASE UNCHANGED vars
  BY <1>7, NoServerStep, ServerAlone DEF vars
<1> QED
  BY <1>1, <1>2, <1>3, <1>4, <1>5, <1>6, <1>7 DEF Next

-----------------------------------------------------------------------------
(***************************************************************************)
(* SInv holds in every state of any number of machines that start their    *)
(* games (plugin-impl.cc:21-113).                                          *)
(***************************************************************************)
THEOREM SessionInductive == Spec => []SInv
<1> QED
  BY SInvInit, SInvNext, PTL DEF Spec

(***************************************************************************)
(* Every variable of the machines and of the server stays in its type.     *)
(***************************************************************************)
THEOREM SessionTypeCorrect == Spec => []TypeOK
<1>1. SInv => TypeOK
  BY DEF SInv
<1> QED
  BY <1>1, SessionInductive, PTL

(***************************************************************************)
(* The controllers of every game that runs are those of the server's       *)
(* console (plugin-impl.cc:173-224).                                       *)
(***************************************************************************)
THEOREM PlaysWhatIsPlugged == Spec => []ControllersMatchConsole
<1>1. SInv => ControllersMatchConsole
  BY DEF SInv
<1> QED
  BY <1>1, SessionInductive, PTL

(***************************************************************************)
(* So machines on the same console have the same controllers, and each of  *)
(* these takes the input of one of them at most: the server never plugs a  *)
(* port twice, nor gives two machines the same client (client.hpp:63-89).  *)
(***************************************************************************)
THEOREM NobodySharesAPort == Spec => []OneOwnerPerPort
<1>1. SInv => OneOwnerPerPort
  <2> SUFFICES ASSUME SInv, NEW m \in Machines, NEW n \in Machines, m # n,
                      at[m] = "playing", at[n] = "playing", console[m] = console[n]
               PROVE  /\ PresentOn(m) = PresentOn(n)
                      /\ LocalOn(m) \intersect LocalOn(n) = {}
    BY DEF OneOwnerPerPort
  <2> DEFINE id == console[m]
             owned(c) == { PortToM64Port(p) : p \in { q \in Connected(id) : Owner(id, q) = c } }
  <2>1. ControllersMatch(m) /\ ControllersMatch(n) /\ PortsArePlugged(m)
    BY DEF SInv, ControllersMatchConsole
  <2>2. /\ PresentOn(m) = { PortToM64Port(p) : p \in Connected(id) }
        /\ LocalOn(m) = owned(client[m].client_id)
    BY <2>1 DEF ControllersMatch, PresentOn, LocalOn
  <2>3. /\ PresentOn(n) = { PortToM64Port(p) : p \in Connected(id) }
        /\ LocalOn(n) = owned(client[n].client_id)
    BY <2>1 DEF ControllersMatch, PresentOn, LocalOn
  <2>4. client[m].client_id > 0 /\ client[m].client_id # client[n].client_id
    BY DEF SInv, ClientFits, HandlerOK, OneClientEach
  <2>5. Connected(id) \subseteq M64Ports
    <3>1. id \in DOMAIN consoles
      BY <2>1, <2>4 DEF PortsArePlugged, Answered
    <3>2. consoles[id].plugged \subseteq [client : 1..clients, port : M64Ports, delay : Int]
      BY <3>1 DEF SInv, TypeOK
    <3> QED
      BY <3>2 DEF Connected
  <2>6. \A p, q \in M64Ports : PortToM64Port(p) = PortToM64Port(q) => p = q
    BY PortIndex
  <2>7. owned(client[m].client_id) \intersect owned(client[n].client_id) = {}
    BY <2>4, <2>5, <2>6
  <2> QED
    BY <2>2, <2>3, <2>7
<1> QED
  BY <1>1, SessionInductive, PTL

(***************************************************************************)
(* The constructor of the handler aborts for no client that was plugged    *)
(* (event-stream-handler.hpp:24-45).                                       *)
(***************************************************************************)
THEOREM AbortsOnlyRefused == Spec => []PluggedNeverAborts
<1>1. SInv => PluggedNeverAborts
  <2> SUFFICES ASSUME SInv, NEW m \in Machines, at[m] = "aborted",
                      NEW id \in DOMAIN consoles, NEW e \in consoles[id].plugged
               PROVE  e.client # client[m].client_id
    BY DEF PluggedNeverAborts
  <2>1. client[m].client_id <= 0
    BY DEF SInv, ClientFits
  <2>2. e.client \in 1..clients
    BY DEF SInv, TypeOK
  <2> QED
    BY <2>1, <2>2
<1> QED
  BY <1>1, SessionInductive, PTL

(***************************************************************************)
(* No game runs while a client of its console has not said that it is      *)
(* ready (plugin-impl.cc:86-105).                                          *)
(***************************************************************************)
THEOREM WaitsForEveryClient == Spec => []PlaysTogether
<1>1. SInv => PlaysTogether
  <2> SUFFICES ASSUME SInv, NEW m \in Machines, NEW n \in Machines, at[m] = "playing",
                      client[n].client_id \in
                        { e.client : e \in consoles[console[m]].plugged }
               PROVE  at[n] \notin {"plugged", "made"}
    BY DEF PlaysTogether
  <2>1. console[m] \in DOMAIN consoles
    BY DEF SInv, ClientFits, HandlerOK, PortsArePlugged, Answered
  <2>2. consoles[console[m]].started
    BY DEF SInv, PlaysStartedConsole
  <2>3. client[n].client_id \in consoles[console[m]].ready
    BY <2>1, <2>2 DEF SInv, ConsoleOK
  <2> QED
    BY <2>1, <2>3 DEF SInv, NotReadyYet
<1> QED
  BY <1>1, SessionInductive, PTL
=============================================================================
