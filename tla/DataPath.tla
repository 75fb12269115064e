------------------------------ MODULE DataPath ------------------------------
(***************************************************************************)
(* A file operation from the client that calls it to the datanode that     *)
(* executes it and back: src/client.c, the namenode of src/socket_command.c *)
(* and src/datanode.c, over UDP that loses, delays and reorders messages.  *)
(*                                                                         *)
(* The namenode is the abstract Directory, which the detailed NameNode is  *)
(* shown to implement; the call itself is one step here and ClientCalls    *)
(* there; a datanode executes an operation as DataNode says.  Datanodes    *)
(* and the namenode stop and start again; files survive that.              *)
(***************************************************************************)
EXTENDS DataNode, Naturals

CONSTANTS
  Nodes, NN,    \* the datanodes, and the host of the namenode
  NULL,
  Named,        \* the paths clients call operations on
  Glued,        \* the path whose name is that of another with the new size behind it
  Ops,          \* the operations called
  MaxCalls,     \* bound: calls of the client
  MaxFaults     \* bound: processes that end and calls that give up

Hosts == Nodes \cup {NN}
Calls == 1..MaxCalls

\* Operations the kernel calls on the mount point itself.
RootOps == {"getattr", "access", "readdir", "statfs", "chmod"}
\* mkdir without filenode_insert.
BugCreateCmds == {"open", "write", "mknod"}
\* The branches of receivecommand_namenode that call filenode_insert.
CreateCmds == {"open", "write", "mkdir", "mknod"}

ASSUME DataPathAssumption ==
  /\ NN \notin Nodes /\ NULL \notin Nodes
  /\ Named \subseteq Paths
  /\ Glued \in [Named -> Paths \ {Root}]
  /\ Ops \subseteq Operations
  /\ MaxCalls \in Nat /\ MaxFaults \in Nat

VARIABLES
  members, home, routed,   \* of the Directory
  up,         \* the datanodes that run
  disk,       \* the files of each host
  requests,   \* operations on their way to the namenode
  forwards,   \* operations on their way to a datanode
  replies,    \* answers on their way to the client
  calls,      \* how many calls have been made
  pending,    \* the call the client waits in, or NULL
  faults,     \* how many processes have ended and calls have given up
  doubtful,   \* history: the paths of calls that gave up, and may still be executed
  loose,      \* history: the paths the table of the namenode has lost track of
  believed    \* history: what the answers so far say stands at each path

namenode == <<members, home, routed>>
datanode == <<up, disk>>
network  == <<requests, forwards, replies>>
client   == <<calls, pending, doubtful, believed>>
vars == <<namenode, datanode, network, client, loose, faults>>

D == INSTANCE Directory WITH Files <- Paths

Unknown == NULL
Message == [id : Calls, op : Ops, path : Paths, data : Data \cup {Empty}, target : Paths]
\* The client waits in a call or in none.
ASSUME MessageAssumption == NULL \notin Message
Reply == [id : Calls, ok : BOOLEAN, data : Contents, names : SUBSET Paths, by : Hosts]

TypeOK ==
  /\ members \subseteq Nodes
  /\ home \in [Paths \ {Root} -> Nodes \cup {NULL}]
  /\ routed \in [path : Paths, to : Nodes \cup {NULL}] \cup {NULL}
  /\ up \subseteq Nodes
  /\ disk \in [Hosts -> Trees]
  /\ faults \in 0..MaxFaults
  /\ requests \subseteq Message
  /\ forwards \subseteq [msg : Message, to : Nodes]
  /\ replies \subseteq Reply
  /\ calls \in 0..MaxCalls
  /\ pending \in {m \in Message : m.path \in Named} \cup {NULL}
  /\ doubtful \subseteq Paths
  /\ loose \subseteq Paths
  /\ believed \in [Paths -> Entries \cup {Unknown}]

Init ==
  /\ D!DirInit
  /\ up = Nodes /\ disk = [h \in Hosts |-> [q \in Names |-> Absent]]
  /\ requests = {} /\ forwards = {} /\ replies = {}
  /\ calls = 0 /\ pending = NULL
  /\ doubtful = {} /\ loose = {} /\ faults = 0
  /\ believed = [q \in Paths |-> IF q = Root THEN Unknown ELSE Absent]
-----------------------------------------------------------------------------
(* The network loses, delays and reorders.  A message that is lost, or for  *)
(* which no socket is bound when it arrives, or whose sender the receiver   *)
(* cannot resolve, is one that stays on its way.                            *)

\* The answer to message m with outcome o from host h.  One that finds its
\* caller gone is left out here: what it does to a later call is in ClientCalls.
Answered(m, o, h) ==
  IF pending # NULL /\ pending.id = m.id
  THEN {[id |-> m.id, ok |-> o.ok, data |-> o.data, names |-> o.names, by |-> h]}
  ELSE replies

\* The result of a refused call not looked at.
BugOutcomes(t, m) == {Perform(t, m), Success(t)}
\* The system may refuse any call.
Outcomes(t, m) == {Perform(t, m), Failure(t)}
-----------------------------------------------------------------------------
(* The datanode.                                                            *)

StartNode(n) ==
  /\ n \notin up
  /\ up' = up \cup {n}
  /\ UNCHANGED <<namenode, disk, network, client, loose, faults>>

\* After the registration has been sent and the command thread created.
\* EEXIST is no error: the files of an earlier start are kept.
MakeDirs(n) ==
  /\ n \in up /\ disk[n][Root] = Absent
  /\ disk' = [disk EXCEPT ![n][Root] = Dir]
  /\ UNCHANGED <<namenode, up, network, client, loose, faults>>

Serve(f) ==
  /\ f.to \in up
  /\ \E o \in Outcomes(disk[f.to], f.msg) :
       /\ disk' = [disk EXCEPT ![f.to] = o.tree]
       /\ replies' = Answered(f.msg, o, f.to)
  /\ forwards' = forwards \ {f}
  /\ UNCHANGED <<namenode, up, requests, client, loose, faults>>

\* A shutdown sent by the namenode or the monitor ends the command thread, and
\* main waits for nothing else; a crash ends the process at any time.
Shutdown(n) ==
  /\ n \in up /\ faults < MaxFaults
  /\ up' = up \ {n} /\ faults' = faults + 1
  /\ UNCHANGED <<namenode, disk, network, client, loose>>
-----------------------------------------------------------------------------
(* The namenode.                                                            *)

\* The sender of the datagram is registered in place of the node it names.
BugHandleJoin(n) ==
  /\ n \in up \ members
  /\ D!Register(NN, {})
  /\ UNCHANGED <<datanode, network, client, loose, faults>>
\* A datanode registers when it starts, whether or not its command thread
\* listens and its directory exists yet; dnconfig registers again, at a
\* restart, the nodes it lists.  That members may get lost is left out: the
\* steps of a larger set include those of a smaller one.
HandleJoin(n) ==
  /\ n \in up \ members
  /\ D!Register(n, {})
  /\ UNCHANGED <<datanode, network, client, loose, faults>>

\* A command that may create the path records its home with the forwarding,
\* before the datanode has done anything.
Forward(m, n) ==
  /\ \/ /\ m.op \in CreateCmds /\ m.path # Root
        /\ D!Place(m.path, n)
     \/ /\ m.op \in CreateCmds /\ m.path # Root => home[m.path] # NULL
        /\ m.op # "statfs"
        /\ m.path = Root => n \in members
        /\ D!Route(m.path, n)
  /\ forwards' = forwards \cup {[msg |-> m, to |-> n]}
  /\ requests' = requests \ {m}
  /\ UNCHANGED <<datanode, replies, client, loose, faults>>

\* What the namenode executes itself: statfs on the path, the others on JUNK
\* with size and mode 0, rename without its second path.
LocalOutcomes(m) ==
  LET t == disk[NN] IN
  CASE m.op = "statfs" -> Outcomes(t, m)
    [] m.op = "rename" -> {Failure(t)}
    [] OTHER -> Outcomes(t, [m EXCEPT !.path = Junk, !.data = Empty])

Local(m) ==
  /\ D!Answer(m.path)
  /\ \E o \in LocalOutcomes(m) :
       /\ disk' = [disk EXCEPT ![NN] = o.tree]
       /\ replies' = Answered(m, o, NN)
  /\ requests' = requests \ {m}
  /\ UNCHANGED <<up, forwards, client, loose, faults>>

\* The process ends and starts again: the homes are gone.  The table has lost
\* track of what stands on the datanodes, or will when a message arrives.
Restart ==
  /\ faults < MaxFaults
  /\ D!Forget
  /\ faults' = faults + 1
  /\ LET lost == {q \in Paths : \E n \in Nodes : disk[n][q] # Absent}
                   \cup {f.msg.path : f \in forwards}
     IN loose' = loose \cup lost
        /\ believed' = [q \in Paths |-> IF q \in lost THEN Unknown ELSE believed[q]]
  /\ UNCHANGED <<datanode, network, calls, pending, doubtful>>
-----------------------------------------------------------------------------
(* The client.                                                              *)

\* truncate appends the new size to the path, without a comma.
Sent(op, p) == IF op = "truncate" THEN Glued[p] ELSE p

\* The kernel looks a path up before it calls an operation on it, and calls
\* what fits: the operations below on what is not known to be something else.
Fits(op, p) ==
  CASE op \in {"mknod", "mkdir"} ->
         believed[p] \in {Absent, Unknown} /\ (Parent[p] = Root \/ believed[Parent[p]] \in {Dir, Unknown})
    [] op \in {"unlink", "truncate", "write", "read"} -> believed[p] \in Contents \cup {Unknown}
    [] op \in {"rmdir", "readdir"} -> believed[p] \in {Dir, Unknown}
    [] op \in {"open", "chmod", "rename"} -> believed[p] # Absent
    [] OTHER -> TRUE

Call(op, p, d, to) ==
  /\ pending = NULL /\ calls < MaxCalls
  /\ IF p = Root THEN op \in RootOps ELSE Fits(op, p)
  /\ IF op = "write" THEN d \in Data ELSE d = Empty
  /\ IF op = "rename" THEN to \in Named \ {Root, p} ELSE to = p
  /\ LET m == [id |-> calls + 1, op |-> op, path |-> p, data |-> d, target |-> to]
     IN pending' = m /\ requests' = requests \cup {[m EXCEPT !.path = Sent(op, p)]}
  /\ calls' = calls + 1
  /\ loose' = IF op = "rename" THEN loose \cup {p, to} \cup Below(p) \cup Below(to) ELSE loose
  /\ UNCHANGED <<namenode, datanode, forwards, replies, doubtful, faults, believed>>

\* What success of the pending call says about the paths.
Result ==
  CASE pending.op = "mknod" -> Empty
    [] pending.op = "mkdir" -> Dir
    [] pending.op \in {"unlink", "rmdir"} -> Absent
    [] pending.op = "write" /\ pending.data \notin Commas -> pending.data
    [] pending.op = "write" -> Unknown
    [] OTHER -> believed[pending.path]

\* Nothing is said of a path that a rename or the missing comma of a truncate
\* has touched.
Believed ==
  LET silent == loose \cup doubtful \cup IF pending.op = "truncate" THEN {Glued[pending.path]} ELSE {}
  IN [q \in Paths |-> IF q \in silent THEN Unknown
                      ELSE IF q = pending.path THEN Result ELSE believed[q]]

Return(r) ==
  /\ pending # NULL
  /\ believed' = IF r.ok /\ r.by # NN THEN Believed ELSE believed
  /\ pending' = NULL
  /\ replies' = replies \ {r}
  /\ UNCHANGED <<namenode, datanode, requests, forwards, calls, doubtful, loose, faults>>

\* "Enough waiting", at any time.
GiveUp ==
  /\ pending # NULL /\ faults < MaxFaults
  /\ faults' = faults + 1
  /\ pending' = NULL /\ replies' = {}
  /\ LET p == pending.path
         new == {p} \cup IF pending.op = "truncate" THEN {Glued[p]} ELSE {}
     IN doubtful' = doubtful \cup new
        /\ believed' = [q \in Paths |-> IF q \in new \cup loose THEN Unknown ELSE believed[q]]
  /\ UNCHANGED <<namenode, datanode, requests, forwards, calls, loose>>
-----------------------------------------------------------------------------
DataNodeNext ==
  \/ \E n \in Nodes : StartNode(n) \/ MakeDirs(n) \/ Shutdown(n)
  \/ \E f \in forwards : Serve(f)

NameNodeNext ==
  \/ \E n \in Nodes : HandleJoin(n)
  \/ \E m \in requests : Local(m) \/ \E n \in Nodes : Forward(m, n)
  \/ Restart

ClientNext ==
  \/ \E op \in Ops, p \in Named, d \in Data \cup {Empty}, to \in Named : Call(op, p, d, to)
  \/ \E r \in replies : Return(r)
  \/ GiveUp

Next == DataNodeNext \/ NameNodeNext \/ ClientNext

Spec == Init /\ [][Next]_vars
-----------------------------------------------------------------------------
(* Safety.                                                                  *)

\* A file stands only on the home of its path, whatever is lost, late or
\* executed after its caller gave up; except for the paths the table does not
\* follow: those a rename was called with (socket_command.c:636-655), and
\* those that were stored or on their way when the namenode ended.
PlacedWhereStored ==
  \A n \in Nodes, p \in Paths \ ({Root} \cup loose) : disk[n][p] # Absent => home[p] = n

\* What the answers of datanodes say is what stands at the home of each path:
\* an operation reported done was done, on the path it names, where every later
\* operation on the path will look, and one reported failed did nothing.  A path
\* a call gave up on, or that the table has lost track of, is no longer known.
StoreAgrees ==
  pending = NULL =>
    \A p \in Paths \ {Root} :
      \/ believed[p] = Unknown
      \/ believed[p] = Absent /\ home[p] = NULL
      \/ home[p] # NULL /\ disk[home[p]][p] = believed[p]

\* A read answered by a datanode returns what was written last, and a listing
\* of a directory names exactly its entries.  The mount point is on every
\* datanode, and after a restart of the namenode another directory may be on two:
\* then only the entries of one are listed.
AnswersAgree ==
  \A r \in replies :
    pending # NULL /\ r.ok /\ r.by # NN =>
      /\ pending.op = "read" /\ believed[pending.path] # Unknown =>
           r.data = believed[pending.path]
      /\ pending.op = "readdir" /\ pending.path \notin {Root} \cup loose =>
           \A q \in Below(pending.path) :
             believed[q] # Unknown => (q \in r.names <=> believed[q] # Absent)
=============================================================================
