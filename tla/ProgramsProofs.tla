---------------------------- MODULE ProgramsProofs ----------------------------
(***************************************************************************)
(* Proofs about Programs: its types, who has the ports of a host, and that *)
(* the namenode does not answer itself.                                    *)
(*                                                                         *)
(* The ping port is what makes a host exclusive.  A datanode or a tool     *)
(* gets past its check only when it has received a pong itself, so it has  *)
(* the ping port, and so has no other process of the host.                 *)
(***************************************************************************)
EXTENDS Programs, TLAPS

Checkers == Datanodes \cup Tools

\* A port of a host belongs to one process.
Alone ==
  \A p, q \in Processes, port \in Ports :
    p # q /\ Host[p] = Host[q] /\ Bound(p, port) => ~Bound(q, port)

\* Sockets other than that of the ping thread exist while main is past its
\* check, and only for the services of the program.
InUse ==
  \A p \in Processes, port \in Ports :
    socket[p][port] # "none" =>
      main[p] # "off" /\ (port # "ping" => main[p] = "serving" /\ port \in Services(p))

\* Who has had an answer, and whoever has gone on because of it, has the port.
Answered ==
  \A p \in Checkers :
    main[p] = "serving" \/ (main[p] = "checking" /\ pingsuccess[p]) => Bound(p, "ping")

\* On a host without the namenode every thread gets its port.
NoneDeaf ==
  \A p \in Checkers :
    main[p] = "serving" /\ Host[p] # Home => \A port \in Ports : socket[p][port] # "deaf"

\* As long as no tool of its host has slipped in, the namenode is asked from
\* other hosts only, and its answers go there.
AskedFromOutside ==
  ~intruded =>
    /\ \A t \in Tools : Host[t] = Home => main[t] # "serving"
    /\ \A m \in net : m.port = "monitor" =>
         IF m.hops = 0 THEN m.from # Home ELSE m.hops = 1 /\ m.to # Home

PortInv == Alone /\ InUse /\ Answered /\ NoneDeaf
Inv == TypeOK /\ PortInv /\ AskedFromOutside
-----------------------------------------------------------------------------
USE DEF Ports

LEMMA ServicesArePorts ==
  ASSUME NEW p \in Processes
  PROVE  Services(p) \subseteq Ports /\ "ping" \notin Services(p)
BY DEF Services

\* Which processes have services that a checked program has as well.
LEMMA ServiceOfChecker ==
  ASSUME NEW q \in Processes, Services(q) # {}, q # namenode
  PROVE  q \in Checkers
BY DEF Services, Checkers

LEMMA ProcessSets ==
  /\ Checkers \subseteq Processes /\ Clients \subseteq Processes /\ namenode \in Processes
  /\ namenode \notin Checkers /\ Checkers \cap Clients = {} /\ namenode \notin Clients
  /\ Tools \subseteq Checkers /\ Home \in Hosts
  /\ \A p \in Processes : Host[p] \in Hosts
BY ProgramsAssumption DEF Processes, Checkers, Hosts, Home

\* The sockets of a process whose threads are created.
LEMMA ListeningType ==
  ASSUME TypeOK, NEW p \in Processes, NEW ports \in SUBSET Ports
  PROVE  Listening(p, ports) \in [Ports -> {"none", "new", "bound", "deaf"}]
BY DEF TypeOK, Listening

LEMMA PingType ==
  ASSUME NEW h \in Hosts
  PROVE  Ping(h) \in Pings
BY ProcessSets DEF Ping, Pings

LEMMA InitInv == Init => Inv
<1> SUFFICES ASSUME Init PROVE Inv
  OBVIOUS
<1>1. TypeOK
  <2>1. pingsuccess \in [Processes -> BOOLEAN] /\ intruded \in BOOLEAN
    BY Zenon DEF Init
  <2>2. socket \in [Processes -> [Ports -> {"none", "new", "bound", "deaf"}]]
    BY DEF Init, NoSockets
  <2> QED BY <2>1, <2>2, ProgramsAssumption DEF Init, TypeOK
<1>2. PortInv
  BY ProcessSets DEF Init, PortInv, Alone, InUse, Answered, NoneDeaf, NoSockets, Bound
<1>3. AskedFromOutside
  BY ProcessSets DEF Init, AskedFromOutside
<1> QED BY <1>1, <1>2, <1>3 DEF Inv
-----------------------------------------------------------------------------
(* Types.                                                                   *)

LEMMA TypeStep == TypeOK /\ [Next]_vars => TypeOK'
<1> SUFFICES ASSUME TypeOK, [Next]_vars PROVE TypeOK'
  OBVIOUS
<1> USE ProcessSets
<1>1. CASE StartNameNode
  <2>1. Listening(namenode, {"ping"} \cup Services(namenode)) \in [Ports -> {"none", "new", "bound", "deaf"}]
    BY ListeningType, ServicesArePorts
  <2> QED BY <1>1, <2>1, ProgramsAssumption DEF StartNameNode, TypeOK
<1>2. ASSUME NEW p \in Processes, StartChecking(p) \/ StartClient(p) PROVE TypeOK'
  <2>1. Listening(p, {"ping"}) \in [Ports -> {"none", "new", "bound", "deaf"}]
    BY ListeningType
  <2>2. Ping(Host[p]) \in Pings
    BY PingType
  <2>3. pingsuccess' \in [Processes -> BOOLEAN]
    BY <1>2, Zenon DEF StartChecking, StartClient, TypeOK
  <2>4. starts' \in 0..MaxStarts
    BY <1>2, ProgramsAssumption DEF StartChecking, StartClient, TypeOK
  <2> QED BY <1>2, <2>1, <2>2, <2>3, <2>4 DEF StartChecking, StartClient, TypeOK
<1>3. ASSUME NEW p \in Processes, CheckPassed(p) PROVE TypeOK'
  <2>1. Listening(p, Services(p)) \in [Ports -> {"none", "new", "bound", "deaf"}]
    BY ListeningType, ServicesArePorts
  <2>2. intruded' \in BOOLEAN
    BY <1>3, Zenon DEF CheckPassed, Intrudes, TypeOK
  <2> QED BY <1>3, <2>1, <2>2 DEF CheckPassed, TypeOK
<1>4. ASSUME NEW p \in Processes, Exit(p) PROVE TypeOK'
  BY <1>4 DEF Exit, TypeOK, NoSockets
<1>5. ASSUME NEW p \in Processes, NEW port \in Ports, Bind(p, port) PROVE TypeOK'
  <2>1. PICK s \in {"deaf", "bound"} : socket' = [socket EXCEPT ![p][port] = s]
    BY <1>5 DEF Bind
  <2> QED BY <1>5, <2>1 DEF Bind, TypeOK
<1>6. ASSUME NEW p \in Processes, NEW m \in net, m.port = "ping", ReceivePing(p, m) PROVE TypeOK'
  <2>1. m \in Pings
    BY <1>6 DEF TypeOK, MonitorCommands
  <2>2. [m EXCEPT !.text = "pong", !.from = Host[p], !.to = m.from] \in Pings
    BY <2>1 DEF Pings
  <2>3. net' \subseteq Pings \cup MonitorCommands
    BY <1>6, <2>2 DEF ReceivePing, TypeOK
  <2>4. pingsuccess' \in [Processes -> BOOLEAN]
    BY <1>6 DEF ReceivePing, TypeOK
  <2> QED BY <1>6, <2>3, <2>4 DEF ReceivePing, TypeOK
<1>7. ASSUME NEW t \in Tools, NEW text \in {"dnlist", "senrep"}, NEW n \in Counts \cup {None},
             text = "senrep" <=> n # None, EnterCommand(t, text, n)
      PROVE TypeOK'
  <2>1. [port |-> "monitor", text |-> text, count |-> n, from |-> Host[t], to |-> Home, hops |-> 0]
          \in MonitorCommands
    BY <1>7 DEF MonitorCommands
  <2> QED BY <1>7, <2>1, ProgramsAssumption DEF EnterCommand, TypeOK
<1>8. ASSUME NEW t \in Tools, NEW m \in net, Show(t, m) PROVE TypeOK'
  BY <1>8 DEF Show, TypeOK
<1>9. ASSUME NEW m \in net, m.port = "monitor", HandleCommand(m) PROVE TypeOK'
  <2> DEFINE hops == IF m.hops = 2 THEN 2 ELSE m.hops + 1
             answer == [m EXCEPT !.from = Home, !.to = m.from, !.hops = hops]
  <2>1. m \in MonitorCommands
    BY <1>9 DEF TypeOK, Pings
  <2>2. hops \in 0..2
    BY <2>1 DEF MonitorCommands
  <2> HIDE DEF hops
  <2>3. answer \in MonitorCommands
    BY <2>1, <2>2 DEF MonitorCommands
  <2> HIDE DEF answer
  <2>4. net' = (net \ {m}) \cup {answer}
    BY <1>9 DEF HandleCommand, answer, hops
  <2>5. replication_count' \in Counts \cup {0}
    BY <1>9, <2>1 DEF HandleCommand, TypeOK, MonitorCommands
  <2> QED BY <1>9, <2>3, <2>4, <2>5 DEF HandleCommand, TypeOK
<1>10. CASE UNCHANGED vars
  BY <1>10 DEF vars, TypeOK
<1> QED BY <1>1, <1>2, <1>3, <1>4, <1>5, <1>6, <1>7, <1>8, <1>9, <1>10, ProgramsAssumption
        DEF Next, MainStep
-----------------------------------------------------------------------------
(* Ports.                                                                   *)

\* A step that changes the main of p and gives it sockets, where it has no
\* port that was not its own.
LEMMA MainAlone ==
  ASSUME TypeOK, Alone, NEW p \in Processes, NEW sockets \in [Ports -> {"none", "new", "bound", "deaf"}],
         socket' = [socket EXCEPT ![p] = sockets],
         \A port \in Ports : sockets[port] = "bound" => Bound(p, port)
  PROVE  Alone'
<1>1. \A q \in Processes, port \in Ports : Bound(q, port)' => Bound(q, port)
  BY DEF TypeOK, Bound
<1> QED BY <1>1 DEF Alone

LEMMA StartNameNodeInv == TypeOK /\ PortInv /\ StartNameNode => PortInv'
<1> SUFFICES ASSUME TypeOK, PortInv, StartNameNode PROVE PortInv'
  OBVIOUS
<1> DEFINE new == Listening(namenode, {"ping"} \cup Services(namenode))
<1>1. \A port \in Ports : socket[namenode][port] = "none"
  BY ProcessSets DEF StartNameNode, PortInv, InUse
<1>2. \A port \in Ports :
        new[port] = IF port \in {"ping"} \cup Services(namenode) THEN "new" ELSE "none"
  BY <1>1 DEF Listening
<1>3. new \in [Ports -> {"none", "new", "bound", "deaf"}]
  BY ProcessSets, ServicesArePorts, ListeningType
<1>4. socket' = [socket EXCEPT ![namenode] = new] /\ main' = [main EXCEPT ![namenode] = "serving"]
  BY DEF StartNameNode
<1> HIDE DEF new
<1>5. Alone'
  BY <1>2, <1>3, <1>4, MainAlone, ProcessSets DEF PortInv
<1>6. InUse'
  BY <1>2, <1>4, ProcessSets DEF TypeOK, PortInv, InUse
<1>7. Answered'
  <2> SUFFICES ASSUME NEW q \in Checkers,
                      main'[q] = "serving" \/ (main'[q] = "checking" /\ pingsuccess'[q])
               PROVE  Bound(q, "ping")'
    BY DEF Answered
  <2>1. q # namenode /\ q \in Processes
    BY ProcessSets
  <2>2. main'[q] = main[q] /\ socket'[q] = socket[q]
    BY <1>4, <2>1 DEF TypeOK
  <2>3. pingsuccess'[q] = pingsuccess[q]
    BY <2>1, Zenon DEF StartNameNode, TypeOK
  <2> QED BY <2>2, <2>3 DEF PortInv, Answered, Bound
<1>8. NoneDeaf'
  BY <1>4, ProcessSets DEF TypeOK, PortInv, NoneDeaf
<1> QED BY <1>5, <1>6, <1>7, <1>8 DEF PortInv

LEMMA StartInv ==
  ASSUME TypeOK, PortInv, NEW p \in Processes, StartChecking(p) \/ StartClient(p)
  PROVE  PortInv'
<1> DEFINE new == Listening(p, {"ping"})
<1>1. main[p] = "off" /\ \A port \in Ports : socket[p][port] = "none"
  BY DEF StartChecking, StartClient, PortInv, InUse
<1>2. \A port \in Ports : new[port] = IF port = "ping" THEN "new" ELSE "none"
  BY <1>1 DEF Listening
<1>3. new \in [Ports -> {"none", "new", "bound", "deaf"}]
  BY ListeningType
<1>4. /\ socket' = [socket EXCEPT ![p] = new]
      /\ main' = [main EXCEPT ![p] = main'[p]]
      /\ main'[p] = "checking" \/ (p \in Clients /\ main'[p] = "serving")
  BY DEF StartChecking, StartClient, TypeOK
<1> HIDE DEF new
<1>5. Alone'
  BY <1>2, <1>3, <1>4, MainAlone DEF PortInv
<1>6. InUse'
  BY <1>2, <1>4 DEF TypeOK, PortInv, InUse
<1>7. Answered'
  <2> SUFFICES ASSUME NEW q \in Checkers,
                      main'[q] = "serving" \/ (main'[q] = "checking" /\ pingsuccess'[q])
               PROVE  Bound(q, "ping")'
    BY DEF Answered
  <2>1. q \in Processes
    BY ProcessSets
  <2>2. CASE q # p
    <3>1. main'[q] = main[q] /\ socket'[q] = socket[q]
      BY <1>4, <2>1, <2>2 DEF TypeOK
    <3>2. pingsuccess'[q] = pingsuccess[q]
      BY <2>1, <2>2, Zenon DEF StartChecking, StartClient, TypeOK
    <3> QED BY <3>1, <3>2 DEF PortInv, Answered, Bound
  <2>3. CASE q = p
    <3>1. main'[p] = "checking"
      BY <1>4, <2>3, ProcessSets
    <3>2. ~pingsuccess'[p]
      BY Zenon DEF StartChecking, StartClient, TypeOK
    <3> QED BY <2>3, <3>1, <3>2
  <2> QED BY <2>2, <2>3
<1>8. NoneDeaf'
  BY <1>4, ProcessSets DEF TypeOK, PortInv, NoneDeaf
<1> QED BY <1>5, <1>6, <1>7, <1>8 DEF PortInv

LEMMA CheckPassedInv ==
  ASSUME TypeOK, PortInv, NEW p \in Processes, CheckPassed(p)
  PROVE  PortInv'
<1> DEFINE new == Listening(p, Services(p))
<1>1. main[p] = "checking" /\ pingsuccess[p]
  BY DEF CheckPassed
<1>2. \A port \in Ports \ {"ping"} : socket[p][port] = "none"
  BY <1>1 DEF PortInv, InUse
<1>3. /\ new["ping"] = socket[p]["ping"]
      /\ \A port \in Ports \ {"ping"} : new[port] = IF port \in Services(p) THEN "new" ELSE "none"
  BY <1>2, ServicesArePorts DEF Listening
<1>4. new \in [Ports -> {"none", "new", "bound", "deaf"}]
  BY ListeningType, ServicesArePorts
<1>5. socket' = [socket EXCEPT ![p] = new] /\ main' = [main EXCEPT ![p] = "serving"]
  BY DEF CheckPassed
<1>6. p \in Checkers => Bound(p, "ping")
  BY <1>1 DEF PortInv, Answered
<1> HIDE DEF new
<1>7. Alone'
  BY <1>3, <1>4, <1>5, MainAlone DEF PortInv, Bound
<1>8. InUse'
  BY <1>3, <1>5 DEF TypeOK, PortInv, InUse
<1>9. Answered'
  <2> SUFFICES ASSUME NEW q \in Checkers,
                      main'[q] = "serving" \/ (main'[q] = "checking" /\ pingsuccess'[q])
               PROVE  Bound(q, "ping")'
    BY DEF Answered
  <2>1. q \in Processes
    BY ProcessSets
  <2>2. CASE q # p
    <3>1. main'[q] = main[q] /\ socket'[q] = socket[q]
      BY <1>5, <2>1, <2>2 DEF TypeOK
    <3>2. pingsuccess'[q] = pingsuccess[q]
      BY Zenon DEF CheckPassed
    <3> QED BY <3>1, <3>2 DEF PortInv, Answered, Bound
  <2>3. CASE q = p
    BY <1>3, <1>5, <1>6, <2>3 DEF TypeOK, Bound
  <2> QED BY <2>2, <2>3
<1>10. NoneDeaf'
  <2> SUFFICES ASSUME NEW q \in Checkers, main'[q] = "serving", Host[q] # Home, NEW port \in Ports
               PROVE  socket'[q][port] # "deaf"
    BY DEF NoneDeaf
  <2>1. CASE q # p
    BY <1>5, <2>1, ProcessSets DEF TypeOK, PortInv, NoneDeaf
  <2>2. CASE q = p
    BY <1>3, <1>5, <1>6, <2>2 DEF TypeOK, Bound
  <2> QED BY <2>1, <2>2
<1> QED BY <1>7, <1>8, <1>9, <1>10 DEF PortInv

LEMMA ExitInv ==
  ASSUME TypeOK, PortInv, NEW p \in Processes, Exit(p)
  PROVE  PortInv'
<1>1. /\ main' = [main EXCEPT ![p] = "off"]
      /\ socket' = [socket EXCEPT ![p] = NoSockets]
      /\ \A port \in Ports : NoSockets[port] = "none"
  BY DEF Exit, NoSockets
<1>2. NoSockets \in [Ports -> {"none", "new", "bound", "deaf"}]
  BY DEF NoSockets
<1>3. Alone'
  BY <1>1, <1>2, MainAlone DEF PortInv
<1>4. InUse'
  BY <1>1 DEF TypeOK, PortInv, InUse
<1>5. Answered'
  <2> SUFFICES ASSUME NEW q \in Checkers,
                      main'[q] = "serving" \/ (main'[q] = "checking" /\ pingsuccess'[q])
               PROVE  Bound(q, "ping")'
    BY DEF Answered
  <2>1. q # p /\ main'[q] = main[q] /\ socket'[q] = socket[q]
    BY <1>1, ProcessSets DEF TypeOK
  <2>2. pingsuccess'[q] = pingsuccess[q]
    BY Zenon DEF Exit
  <2> QED BY <2>1, <2>2 DEF PortInv, Answered, Bound
<1>6. NoneDeaf'
  BY <1>1, ProcessSets DEF TypeOK, PortInv, NoneDeaf
<1> QED BY <1>3, <1>4, <1>5, <1>6 DEF PortInv

\* A port of a host without the namenode is taken only by a process that has the
\* ping port as well, or is the ping port.
LEMMA BindInv ==
  ASSUME TypeOK, PortInv, NEW p \in Processes, NEW port \in Ports, Bind(p, port)
  PROVE  PortInv'
<1> DEFINE taken == \E q \in Processes : Host[q] = Host[p] /\ Bound(q, port)
<1>1. socket[p][port] = "new" /\ main' = main /\ pingsuccess' = pingsuccess
  BY DEF Bind
<1>2. socket' = [socket EXCEPT ![p][port] = IF taken THEN "deaf" ELSE "bound"]
  BY DEF Bind
<1>3. \A q \in Processes, o \in Ports :
        socket'[q][o] = IF q = p /\ o = port THEN (IF taken THEN "deaf" ELSE "bound") ELSE socket[q][o]
  BY <1>2 DEF TypeOK
<1>4. Alone'
  BY <1>3 DEF PortInv, Alone, Bound
<1>5. InUse'
  BY <1>1, <1>3 DEF PortInv, InUse
<1>6. Answered'
  <2> SUFFICES ASSUME NEW q \in Checkers,
                      main'[q] = "serving" \/ (main'[q] = "checking" /\ pingsuccess'[q])
               PROVE  Bound(q, "ping")'
    BY DEF Answered
  <2>1. Bound(q, "ping") /\ q \in Processes
    BY <1>1, ProcessSets, Zenon DEF PortInv, Answered
  <2> QED BY <1>1, <1>3, <2>1 DEF Bound
<1>7. NoneDeaf'
  <2> SUFFICES ASSUME NEW q \in Checkers, main'[q] = "serving", Host[q] # Home, NEW o \in Ports
               PROVE  socket'[q][o] # "deaf"
    BY DEF NoneDeaf
  <2>1. q \in Processes /\ main[q] = "serving"
    BY <1>1, ProcessSets
  <2>2. CASE q # p \/ o # port
    BY <1>3, <2>1, <2>2 DEF PortInv, NoneDeaf
  <2>3. CASE q = p /\ o = port
    <3> SUFFICES ASSUME taken PROVE FALSE
      BY <1>3, <2>1, <2>3
    <3>1. PICK r \in Processes : Host[r] = Host[p] /\ Bound(r, port)
      OBVIOUS
    <3>2. Bound(p, "ping") /\ r # p
      BY <1>1, <2>1, <2>3, <3>1 DEF PortInv, Answered, Bound
    <3>3. port # "ping"
      BY <1>1, <3>2 DEF Bound
    <3>4. main[r] = "serving" /\ port \in Services(r)
      BY <3>1, <3>3 DEF PortInv, InUse, Bound
    <3>5. r # namenode
      BY <2>3, <3>1 DEF Home
    <3>6. r \in Checkers
      BY <3>4, <3>5, ServiceOfChecker
    <3>7. Bound(r, "ping")
      BY <3>4, <3>6 DEF PortInv, Answered
    <3> QED BY <3>1, <3>2, <3>7 DEF PortInv, Alone
  <2> QED BY <2>2, <2>3
<1> QED BY <1>4, <1>5, <1>6, <1>7 DEF PortInv

LEMMA ReceivePingInv ==
  ASSUME TypeOK, PortInv, NEW p \in Processes, NEW m \in net, m.port = "ping", ReceivePing(p, m)
  PROVE  PortInv'
<1>1. Bound(p, "ping") /\ main' = main /\ socket' = socket
  BY DEF ReceivePing, Arrives
<1>2. \A q \in Processes : q # p => pingsuccess'[q] = pingsuccess[q]
  BY Zenon DEF ReceivePing, TypeOK
<1>3. Answered'
  <2> SUFFICES ASSUME NEW q \in Checkers,
                      main'[q] = "serving" \/ (main'[q] = "checking" /\ pingsuccess'[q])
               PROVE  Bound(q, "ping")'
    BY DEF Answered
  <2>1. q \in Processes
    BY ProcessSets
  <2>2. CASE q = p
    BY <1>1, <2>2 DEF Bound
  <2>3. CASE q # p
    BY <1>1, <1>2, <2>1, <2>3 DEF PortInv, Answered, Bound
  <2> QED BY <2>2, <2>3
<1> QED BY <1>1, <1>3 DEF PortInv, Alone, InUse, NoneDeaf, Bound

LEMMA QuietInv ==
  ASSUME PortInv, UNCHANGED <<main, socket, pingsuccess>>
  PROVE  PortInv'
BY DEF PortInv, Alone, InUse, Answered, NoneDeaf, Bound

LEMMA PortStep == TypeOK /\ PortInv /\ [Next]_vars => PortInv'
<1> SUFFICES ASSUME TypeOK, PortInv, [Next]_vars PROVE PortInv'
  OBVIOUS
<1>1. CASE StartNameNode
  BY <1>1, StartNameNodeInv
<1>2. ASSUME NEW p \in Processes, MainStep(p) PROVE PortInv'
  BY <1>2, StartInv, CheckPassedInv, ExitInv DEF MainStep
<1>3. ASSUME NEW p \in Processes, NEW port \in Ports, Bind(p, port) PROVE PortInv'
  BY <1>3, BindInv
<1>4. ASSUME NEW p \in Processes, NEW m \in net, m.port = "ping", ReceivePing(p, m) PROVE PortInv'
  BY <1>4, ReceivePingInv
<1>5. ASSUME NEW t \in Tools, NEW text, NEW n, EnterCommand(t, text, n) PROVE PortInv'
  BY <1>5, QuietInv DEF EnterCommand
<1>6. ASSUME NEW t \in Tools, NEW m \in net, Show(t, m) PROVE PortInv'
  BY <1>6, QuietInv DEF Show
<1>7. ASSUME NEW m \in net, HandleCommand(m) PROVE PortInv'
  BY <1>7, QuietInv DEF HandleCommand
<1>8. CASE UNCHANGED vars
  BY <1>8, QuietInv DEF vars
<1> QED BY <1>1, <1>2, <1>3, <1>4, <1>5, <1>6, <1>7, <1>8 DEF Next
-----------------------------------------------------------------------------
(* Echoes.                                                                  *)

\* A tool on the namenode's host that gets past its check has the ping port, so
\* the namenode has not.
LEMMA ToolAtHomeIntrudes ==
  ASSUME TypeOK, PortInv, NEW t \in Tools, Host[t] = Home, CheckPassed(t)
  PROVE  intruded'
<1>1. Bound(t, "ping")
  BY ProcessSets DEF CheckPassed, PortInv, Answered
<1>2. ~Bound(namenode, "ping")
  BY <1>1, ProcessSets DEF PortInv, Alone, Home
<1>3. Intrudes(t)
  BY <1>2 DEF Intrudes
<1> QED BY <1>3, Zenon DEF CheckPassed

LEMMA EchoStep == TypeOK /\ PortInv /\ AskedFromOutside /\ [Next]_vars => AskedFromOutside'
<1> SUFFICES ASSUME TypeOK, PortInv, AskedFromOutside, [Next]_vars, ~intruded'
             PROVE  AskedFromOutside'
  BY DEF AskedFromOutside
<1>1. CASE StartNameNode
  <2>1. ~intruded /\ net' = net /\ \A t \in Tools : main'[t] = main[t]
    BY <1>1, ProcessSets DEF StartNameNode, TypeOK
  <2> QED BY <2>1 DEF AskedFromOutside
<1>2. ASSUME NEW p \in Processes, StartChecking(p) \/ StartClient(p) PROVE AskedFromOutside'
  <2>1. ~intruded /\ net' = net \cup {Ping(Host[p])} /\ Ping(Host[p]).port = "ping"
    BY <1>2 DEF StartChecking, StartClient, Ping
  <2>2. \A t \in Tools : main'[t] = main[t] \/ main'[t] = "checking"
    BY <1>2, ProcessSets DEF StartChecking, StartClient, TypeOK
  <2> QED BY <2>1, <2>2 DEF AskedFromOutside
<1>3. ASSUME NEW p \in Processes, CheckPassed(p) PROVE AskedFromOutside'
  <2>1. ~intruded /\ net' = net
    BY <1>3, Zenon DEF CheckPassed
  <2>2. p \in Tools => Host[p] # Home
    BY <1>3, ToolAtHomeIntrudes
  <2>3. \A t \in Tools : t # p => main'[t] = main[t]
    BY <1>3, ProcessSets DEF CheckPassed, TypeOK
  <2> QED BY <2>1, <2>2, <2>3 DEF AskedFromOutside
<1>4. ASSUME NEW p \in Processes, Exit(p) PROVE AskedFromOutside'
  <2>1. ~intruded /\ net' = net /\ \A t \in Tools : main'[t] = main[t] \/ main'[t] = "off"
    BY <1>4, ProcessSets DEF Exit, TypeOK
  <2> QED BY <2>1 DEF AskedFromOutside
<1>5. ASSUME NEW p \in Processes, NEW port \in Ports, Bind(p, port) PROVE AskedFromOutside'
  BY <1>5 DEF Bind, AskedFromOutside
<1>6. ASSUME NEW p \in Processes, NEW m \in net, m.port = "ping", ReceivePing(p, m)
      PROVE AskedFromOutside'
  <2> DEFINE pong == [m EXCEPT !.text = "pong", !.from = Host[p], !.to = m.from]
  <2>1. m \in Pings
    BY <1>6 DEF TypeOK, MonitorCommands
  <2>2. pong.port = "ping"
    BY <2>1 DEF Pings
  <2> HIDE DEF pong
  <2>3. net' \subseteq net \cup {pong} /\ main' = main /\ ~intruded
    BY <1>6 DEF ReceivePing, pong
  <2> QED BY <2>2, <2>3 DEF AskedFromOutside
<1>7. ASSUME NEW t \in Tools, NEW text, NEW n, EnterCommand(t, text, n) PROVE AskedFromOutside'
  <2> DEFINE asked == [port |-> "monitor", text |-> text, count |-> n, from |-> Host[t],
                       to |-> Home, hops |-> 0]
  <2>1. ~intruded /\ main' = main /\ net' = net \cup {asked}
    BY <1>7 DEF EnterCommand
  <2>2. asked.hops = 0 /\ asked.from # Home
    BY <1>7, <2>1 DEF EnterCommand, AskedFromOutside
  <2> HIDE DEF asked
  <2> QED BY <2>1, <2>2 DEF AskedFromOutside
<1>8. ASSUME NEW t \in Tools, NEW m \in net, Show(t, m) PROVE AskedFromOutside'
  BY <1>8 DEF Show, AskedFromOutside
<1>9. ASSUME NEW m \in net, m.port = "monitor", HandleCommand(m) PROVE AskedFromOutside'
  <2> DEFINE hops == IF m.hops = 2 THEN 2 ELSE m.hops + 1
             answer == [m EXCEPT !.from = Home, !.to = m.from, !.hops = hops]
  <2>1. m \in MonitorCommands
    BY <1>9 DEF TypeOK, Pings
  <2>2. ~intruded /\ main' = main /\ net' = (net \ {m}) \cup {answer}
    BY <1>9 DEF HandleCommand
  <2>3. m.to = Home
    BY <1>9 DEF HandleCommand, Arrives, Home
  <2>4. m.hops = 0 /\ m.from # Home
    BY <1>9, <2>2, <2>3 DEF AskedFromOutside
  <2>5. answer.hops = 1 /\ answer.to # Home
    BY <2>1, <2>4 DEF MonitorCommands
  <2> HIDE DEF answer
  <2> QED BY <2>2, <2>5 DEF AskedFromOutside
<1>10. CASE UNCHANGED vars
  BY <1>10 DEF vars, AskedFromOutside
<1> QED BY <1>1, <1>2, <1>3, <1>4, <1>5, <1>6, <1>7, <1>8, <1>9, <1>10 DEF Next, MainStep
-----------------------------------------------------------------------------
LEMMA InvHolds == Spec => []Inv
<1>1. Inv /\ [Next]_vars => Inv'
  BY TypeStep, PortStep, EchoStep DEF Inv
<1> QED BY InitInv, <1>1, PTL DEF Spec

\* The types of Programs, for any processes on any hosts.
THEOREM ProgramsTypeCorrect == Spec => []TypeOK
<1>1. Inv => TypeOK
  BY DEF Inv
<1> QED BY <1>1, InvHolds, PTL

\* Of the datanodes and tools of a host at most one is past its check, and on a
\* host without the namenode it has its ports or will get them.
THEOREM PortsAreOwned == Spec => []PortsOwned
<1>1. Inv => PortsOwned
  <2> SUFFICES ASSUME Inv, NEW p \in Checkers, main[p] = "serving"
               PROVE  /\ \A q \in Checkers \ {p} : Host[q] = Host[p] => main[q] # "serving"
                      /\ Host[p] # Home => \A port \in Ports : socket[p][port] # "deaf"
    BY DEF PortsOwned, Checkers
  <2>1. ASSUME NEW q \in Checkers \ {p}, Host[q] = Host[p], main[q] = "serving" PROVE FALSE
    <3>1. Bound(p, "ping") /\ Bound(q, "ping")
      BY <2>1 DEF Inv, PortInv, Answered
    <3> QED BY <2>1, <3>1, ProcessSets DEF Inv, PortInv, Alone
  <2>2. Host[p] # Home => \A port \in Ports : socket[p][port] # "deaf"
    BY DEF Inv, PortInv, NoneDeaf
  <2> QED BY <2>1, <2>2
<1> QED BY <1>1, InvHolds, PTL

\* The namenode answers an answer of its own only if a tool of its host has got
\* past its check before the namenode had the ping port.
THEOREM NoEchoHolds == Spec => []NoEcho
<1>1. Inv => NoEcho
  BY DEF Inv, AskedFromOutside, NoEcho
<1> QED BY <1>1, InvHolds, PTL
=============================================================================
