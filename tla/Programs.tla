------------------------------- MODULE Programs -------------------------------
(***************************************************************************)
(* The programs of the system on their hosts: src/namenode.c, datanode.c,  *)
(* monitor.c and client.c, how each starts, the UDP ports its threads      *)
(* listen at, and the commands of the monitor tool.                        *)
(*                                                                         *)
(* A datanode and a monitor tool go on only if a ping of the namenode's    *)
(* host is answered.  Every program answers pings, and a thread whose port *)
(* another process of the host has does not notice: bind returns -1, the   *)
(* code tests for > 0, and nothing ever arrives at its socket.  What the   *)
(* commands of clients and datanodes do is in NameNode and DataPath, what  *)
(* the pings of the namenode mean in PingProbe.                            *)
(***************************************************************************)
EXTENDS Naturals

CONSTANTS
  namenode, Datanodes, Tools, Clients,   \* the processes
  Host,           \* the host of each
  Counts,         \* replication counts a user enters
  None,           \* no count
  MaxStarts,      \* bound: processes started
  MaxCommands     \* bound: commands entered

Processes == {namenode} \cup Datanodes \cup Tools \cup Clients
Hosts == {Host[p] : p \in Processes}
Home == Host[namenode]

ASSUME ProgramsAssumption ==
  /\ Processes = DOMAIN Host
  /\ namenode \notin Datanodes \cup Tools \cup Clients
  /\ Datanodes \cap Tools = {} /\ (Datanodes \cup Tools) \cap Clients = {}
  /\ Counts \subseteq Nat /\ None \notin Counts \cup {0}
  /\ MaxStarts \in Nat /\ MaxCommands \in Nat

Ports == {"ping", "command", "replication", "monitor"}

\* The ports the threads of a process listen at once it has got past its check.
\* A client's reply port is in ClientCalls.
Services(p) ==
  IF p = namenode THEN {"command", "monitor"}
  ELSE IF p \in Datanodes THEN {"command", "replication"}
  ELSE IF p \in Tools THEN {"monitor"} ELSE {}

VARIABLES
  main,      \* where main of each process is; off when it does not run
  socket,    \* the socket of each thread: none, not yet bound, bound, or deaf
  pingsuccess,
  replication_count,
  net,       \* datagrams on their way
  starts, commands,
  intruded   \* history: a tool on the namenode's host has got past its check when
             \* the namenode's ping thread had not got its port

vars == <<main, socket, pingsuccess, replication_count, net, starts, commands, intruded>>

\* Requests of a tool and answers of the namenode have one form.  Hops, a history,
\* says how often the namenode has answered: not, once, more often.
Pings == [port : {"ping"}, text : {"ping", "pong"}, from : Hosts, to : Hosts]
MonitorCommands ==
  {m \in [port : {"monitor"}, text : {"dnlist", "senrep"}, count : Counts \cup {None},
          from : Hosts, to : Hosts, hops : 0..2] :
     m.text = "senrep" <=> m.count # None}

TypeOK ==
  /\ main \in [Processes -> {"off", "checking", "serving"}]
  /\ socket \in [Processes -> [Ports -> {"none", "new", "bound", "deaf"}]]
  /\ pingsuccess \in [Processes -> BOOLEAN]
  /\ replication_count \in Counts \cup {0}
  /\ net \subseteq Pings \cup MonitorCommands
  /\ starts \in 0..MaxStarts /\ commands \in 0..MaxCommands
  /\ intruded \in BOOLEAN

NoSockets == [port \in Ports |-> "none"]

Init ==
  /\ main = [p \in Processes |-> "off"]
  /\ socket = [p \in Processes |-> NoSockets]
  /\ pingsuccess = [p \in Processes |-> TRUE]
  /\ replication_count = 0
  /\ net = {} /\ starts = 0 /\ commands = 0 /\ intruded = FALSE

Bound(p, port) == socket[p][port] = "bound"
Listening(p, ports) ==
  [port \in Ports |-> IF port \in ports THEN "new" ELSE socket[p][port]]
-----------------------------------------------------------------------------
(* The main functions.                                                      *)

Ping(h) == [port |-> "ping", text |-> "ping", from |-> h, to |-> Home]

\* A datanode or a tool: the ping thread, sendping, and a loop that waits.
StartChecking(p) ==
  /\ p \in Datanodes \cup Tools /\ main[p] = "off" /\ starts < MaxStarts
  /\ starts' = starts + 1
  /\ main' = [main EXCEPT ![p] = "checking"]
  /\ socket' = [socket EXCEPT ![p] = Listening(p, {"ping"})]
  /\ pingsuccess' = [pingsuccess EXCEPT ![p] = FALSE]
  /\ net' = net \cup {Ping(Host[p])}
  /\ UNCHANGED <<replication_count, commands, intruded>>

\* A client sends the ping before it has a thread for the answer, and goes on.
StartClient(p) ==
  /\ p \in Clients /\ main[p] = "off" /\ starts < MaxStarts
  /\ starts' = starts + 1
  /\ main' = [main EXCEPT ![p] = "serving"]
  /\ socket' = [socket EXCEPT ![p] = Listening(p, {"ping"})]
  /\ pingsuccess' = [pingsuccess EXCEPT ![p] = FALSE]
  /\ net' = net \cup {Ping(Host[p])}
  /\ UNCHANGED <<replication_count, commands, intruded>>

StartNameNode ==
  /\ main[namenode] = "off" /\ starts < MaxStarts
  /\ starts' = starts + 1
  /\ main' = [main EXCEPT ![namenode] = "serving"]
  /\ socket' = [socket EXCEPT ![namenode] = Listening(namenode, {"ping"} \cup Services(namenode))]
  /\ pingsuccess' = [pingsuccess EXCEPT ![namenode] = TRUE]
  /\ replication_count' = 0
  /\ UNCHANGED <<net, commands, intruded>>

Intrudes(p) == p \in Tools /\ Host[p] = Home /\ ~Bound(namenode, "ping")

\* The answer is not waited for, as in the client.
BugCheckPassed(p) ==
  /\ main[p] = "checking"
  /\ main' = [main EXCEPT ![p] = "serving"]
  /\ socket' = [socket EXCEPT ![p] = Listening(p, Services(p))]
  /\ intruded' = (intruded \/ Intrudes(p))
  /\ UNCHANGED <<pingsuccess, replication_count, net, starts, commands>>
CheckPassed(p) ==
  /\ main[p] = "checking" /\ pingsuccess[p]
  /\ main' = [main EXCEPT ![p] = "serving"]
  /\ socket' = [socket EXCEPT ![p] = Listening(p, Services(p))]
  /\ intruded' = (intruded \/ Intrudes(p))
  /\ UNCHANGED <<pingsuccess, replication_count, net, starts, commands>>

\* "Namenode not reachable", "shut down", the end of the command thread of a
\* datanode, or of the process for any other reason.
Exit(p) ==
  /\ main[p] # "off"
  /\ main' = [main EXCEPT ![p] = "off"]
  /\ socket' = [socket EXCEPT ![p] = NoSockets]
  /\ UNCHANGED <<pingsuccess, replication_count, net, starts, commands, intruded>>
-----------------------------------------------------------------------------
(* The threads.                                                             *)

\* The port is shared with the process that has it.
BugBind(p, port) ==
  /\ socket[p][port] = "new"
  /\ socket' = [socket EXCEPT ![p][port] = "bound"]
  /\ UNCHANGED <<main, pingsuccess, replication_count, net, starts, commands, intruded>>
Bind(p, port) ==
  /\ socket[p][port] = "new"
  /\ LET taken == \E q \in Processes : Host[q] = Host[p] /\ Bound(q, port)
     IN socket' = [socket EXCEPT ![p][port] = IF taken THEN "deaf" ELSE "bound"]
  /\ UNCHANGED <<main, pingsuccess, replication_count, net, starts, commands, intruded>>

\* A datagram that is lost is one that stays on its way.
Arrives(p, m) == m.to = Host[p] /\ Bound(p, m.port)

\* receiveping: any pong will do, and every process answers.
ReceivePing(p, m) ==
  /\ Arrives(p, m)
  /\ \/ /\ m.text = "ping"
        /\ net' = (net \ {m}) \cup {[m EXCEPT !.text = "pong", !.from = Host[p], !.to = m.from]}
        /\ UNCHANGED pingsuccess
     \/ /\ m.text = "pong"
        /\ net' = net \ {m}
        /\ pingsuccess' = [pingsuccess EXCEPT ![p] = TRUE]
  /\ UNCHANGED <<main, socket, replication_count, starts, commands, intruded>>

\* main of a tool: dnlist and replica.
EnterCommand(t, text, count) ==
  /\ main[t] = "serving" /\ commands < MaxCommands
  /\ commands' = commands + 1
  /\ net' = net \cup {[port |-> "monitor", text |-> text, count |-> count,
                       from |-> Host[t], to |-> Home, hops |-> 0]}
  /\ UNCHANGED <<main, socket, pingsuccess, replication_count, starts, intruded>>

\* The branch of SENDREP is taken for every command.
BugHandleCommand(m) ==
  /\ Arrives(namenode, m)
  /\ replication_count' = m.count
  /\ net' = (net \ {m}) \cup
       {[m EXCEPT !.from = Home, !.to = m.from, !.hops = IF m.hops = 2 THEN 2 ELSE m.hops + 1]}
  /\ UNCHANGED <<main, socket, pingsuccess, starts, commands, intruded>>
\* monitorcommand_namenode, senddnlist and sendAckRep.
HandleCommand(m) ==
  /\ Arrives(namenode, m)
  /\ replication_count' = IF m.text = "senrep" THEN m.count ELSE replication_count
  /\ net' = (net \ {m}) \cup
       {[m EXCEPT !.from = Home, !.to = m.from, !.hops = IF m.hops = 2 THEN 2 ELSE m.hops + 1]}
  /\ UNCHANGED <<main, socket, pingsuccess, starts, commands, intruded>>

\* receivecommand_monitor shows the user what has arrived.
Show(t, m) ==
  /\ Arrives(t, m)
  /\ net' = net \ {m}
  /\ UNCHANGED <<main, socket, pingsuccess, replication_count, starts, commands, intruded>>
-----------------------------------------------------------------------------
MainStep(p) == StartChecking(p) \/ StartClient(p) \/ CheckPassed(p) \/ Exit(p)

Next ==
  \/ StartNameNode
  \/ \E p \in Processes :
       \/ MainStep(p)
       \/ \E port \in Ports : Bind(p, port)
       \/ \E m \in net : m.port = "ping" /\ ReceivePing(p, m)
  \/ \E t \in Tools :
       \/ EnterCommand(t, "dnlist", None)
       \/ \E n \in Counts : EnterCommand(t, "senrep", n)
       \/ \E m \in net : m.port = "monitor" /\ Show(t, m)
  \/ \E m \in net : m.port = "monitor" /\ HandleCommand(m)

Spec == Init /\ [][Next]_vars
-----------------------------------------------------------------------------
(* Safety.                                                                  *)

\* The ping port is a lock: of the datanodes and tools of a host at most one is
\* past its check, although nothing in the code asks for it, and all its threads
\* have their ports or will get them, unless the namenode, which makes no check,
\* is started on that host as well.
PortsOwned ==
  \A p \in Datanodes \cup Tools :
    main[p] = "serving" =>
      /\ \A q \in (Datanodes \cup Tools) \ {p} : Host[q] = Host[p] => main[q] # "serving"
      /\ Host[p] # Home => \A port \in Ports : socket[p][port] # "deaf"

\* The namenode does not answer its own answers, which look like requests and
\* would go round for ever, unless a tool on its own host has got past its check
\* before the namenode had the ping port.
NoEcho == (\E m \in net : m.port = "monitor" /\ m.hops = 2) => intruded
=============================================================================
