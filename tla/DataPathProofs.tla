---------------------------- MODULE DataPathProofs ----------------------------
(***************************************************************************)
(* Proofs about DataNode and DataPath: types, and that a file stands only  *)
(* on the home of its path.                                                *)
(*                                                                         *)
(* What creates a path on a datanode is a mknod or mkdir that was          *)
(* forwarded there, and such a request has recorded the home before it was *)
(* sent.  A home never changes; only a restart forgets it, and from then   *)
(* on the paths that had one are among the exempted.                       *)
(***************************************************************************)
EXTENDS DataPath, TLAPS

\* What is asked of Perform: a Message, or one with the path JUNK.
Asked == [id : Calls, op : Operations, path : Names, data : Data \cup {Empty}, target : Paths]
Answers == [ok : BOOLEAN, data : Contents, names : SUBSET Paths, tree : Trees]

LEMMA EntryTypes ==
  /\ Empty \in Contents /\ Garbled \in Contents /\ Data \subseteq Contents
  /\ Contents \subseteq Entries /\ Absent \in Entries /\ Dir \in Entries
  /\ Absent # Dir /\ Absent \notin Contents /\ Dir \notin Contents
  /\ Root \in Paths /\ Paths \subseteq Names /\ Junk \in Names /\ Junk \notin Paths
BY DataNodeAssumption DEF Contents, Entries, Names

\* The tree after an operation has changed what stands at one path.
LEMMA Changed ==
  ASSUME NEW t \in Trees, NEW p \in Names, NEW e \in Entries
  PROVE  [t EXCEPT ![p] = e] \in Trees
BY DEF Trees

LEMMA CheckedType ==
  ASSUME NEW ok \in BOOLEAN, NEW new \in Trees, NEW old \in Trees
  PROVE  Checked(ok, new, old) \in Answers
BY EntryTypes DEF Checked, Success, Failure, Answers

\* The four kinds of functions sendresponse_: those that only look, those that
\* create a path, those that need the path, and rename.
Looks == {"getattr", "access", "open", "chmod", "statfs", "read", "readdir"}
Creates == {"mknod", "mkdir"}
Changes == {"unlink", "rmdir", "truncate", "write"}

\* An outcome is of its type, and makes nothing appear but what a mknod or mkdir
\* names or a rename moves.
Fine(t, m, o) ==
  /\ o \in Answers
  /\ \A q \in Names :
       t[q] = Absent /\ o.tree[q] # Absent =>
         (m.op \in Creates /\ q = m.path) \/ (m.op = "rename" /\ q = m.target)

LEMMA LookFine ==
  ASSUME NEW t \in Trees, NEW m \in Asked, m.op \in Looks
  PROVE  Fine(t, m, Perform(t, m))
<1> USE EntryTypes
<1>1. Success(t) \in Answers /\ Failure(t) \in Answers /\ Success(t).tree = t /\ Failure(t).tree = t
  BY DEF Success, Failure, Answers
<1>2. CASE m.op \in {"getattr", "access", "open", "chmod", "statfs"}
  <2>1. Perform(t, m) = Found(t, m.path)
    BY <1>2 DEF Perform, sendresponse_getattr, sendresponse_access, sendresponse_open,
                sendresponse_chmod, sendresponse_statfs
  <2>2. Found(t, m.path) \in {Success(t), Failure(t)}
    BY DEF Found, Checked
  <2> QED BY <1>1, <2>1, <2>2 DEF Fine
<1>3. CASE m.op = "read"
  <2>1. Perform(t, m) = sendresponse_read(t, m.path)
    BY <1>3 DEF Perform
  <2>2. CASE IsFile(t, m.path)
    <3>1. /\ sendresponse_read(t, m.path) \in Answers
          /\ sendresponse_read(t, m.path).tree = t
      BY <2>2 DEF sendresponse_read, Success, Answers, IsFile
    <3> QED BY <2>1, <3>1 DEF Fine
  <2>3. CASE ~IsFile(t, m.path)
    BY <1>1, <2>1, <2>3 DEF sendresponse_read, Fine
  <2> QED BY <2>2, <2>3
<1>4. CASE m.op = "readdir"
  <2>1. Perform(t, m) = sendresponse_readdir(t, m.path)
    BY <1>4 DEF Perform
  <2>2. CASE t[m.path] = Dir
    <3>1. Children(t, m.path) \in SUBSET Paths
      BY DEF Children, Below
    <3>2. /\ sendresponse_readdir(t, m.path) \in Answers
          /\ sendresponse_readdir(t, m.path).tree = t
      BY <2>2, <3>1 DEF sendresponse_readdir, Success, Answers
    <3> QED BY <2>1, <3>2 DEF Fine
  <2>3. CASE t[m.path] # Dir
    BY <1>1, <2>1, <2>3 DEF sendresponse_readdir, Fine
  <2> QED BY <2>2, <2>3
<1> QED BY <1>2, <1>3, <1>4 DEF Looks

\* A checked operation leaves the new tree or the old one.
LEMMA CheckedTree ==
  ASSUME NEW ok \in BOOLEAN, NEW new, NEW old
  PROVE  Checked(ok, new, old).tree = IF ok THEN new ELSE old
BY DEF Checked, Success, Failure

LEMMA CreateFine ==
  ASSUME NEW t \in Trees, NEW m \in Asked, m.op \in Creates
  PROVE  Fine(t, m, Perform(t, m))
<1> DEFINE e == IF m.op = "mknod" THEN Empty ELSE Dir
           new == [t EXCEPT ![m.path] = e]
           ok == t[m.path] = Absent /\ HasParent(t, m.path)
<1>1. Perform(t, m) = Checked(ok, new, t)
  BY DEF Perform, sendresponse_mknod, sendresponse_mkdir, Creates
<1>2. m.path \in Names /\ e \in Entries
  BY EntryTypes DEF Asked
<1>3. new \in Trees /\ \A q \in Names : q # m.path => new[q] = t[q]
  BY <1>2, Changed DEF Trees
<1>4. ok \in BOOLEAN
  BY Zenon
<1> HIDE DEF new, ok
<1>5. Checked(ok, new, t) \in Answers
  BY <1>3, <1>4, CheckedType
<1> QED BY <1>1, <1>3, <1>4, <1>5, CheckedTree DEF Fine

\* What stood nowhere does not get anything: the operation is refused.
LEMMA ChangeFine ==
  ASSUME NEW t \in Trees, NEW m \in Asked, m.op \in Changes
  PROVE  Fine(t, m, Perform(t, m))
<1> DEFINE e == IF m.op \in {"unlink", "rmdir"} THEN Absent
                ELSE IF m.op = "truncate" THEN Empty ELSE Stored(m.data)
           new == [t EXCEPT ![m.path] = e]
           ok == IF m.op = "rmdir" THEN t[m.path] = Dir /\ Children(t, m.path) = {}
                 ELSE IsFile(t, m.path)
<1>1. Perform(t, m) = Checked(ok, new, t)
  BY DEF Perform, sendresponse_unlink, sendresponse_rmdir, sendresponse_truncate,
         sendresponse_write, Changes
<1>2. m.path \in Names /\ e \in Entries
  <2>1. m.path \in Names /\ m.data \in Data \cup {Empty}
    BY DEF Asked
  <2>2. Stored(m.data) \in Entries
    BY <2>1, EntryTypes DEF Stored
  <2> QED BY <2>1, <2>2, EntryTypes
<1>3. new \in Trees /\ \A q \in Names : q # m.path => new[q] = t[q]
  BY <1>2, Changed DEF Trees
<1>4. ok \in BOOLEAN
  <2>1. CASE m.op = "rmdir"
    BY <2>1, Zenon
  <2>2. CASE m.op # "rmdir"
    BY <2>2 DEF IsFile
  <2> QED BY <2>1, <2>2
<1>5. ok => t[m.path] # Absent
  BY EntryTypes DEF IsFile
<1> HIDE DEF new, ok
<1>6. Checked(ok, new, t) \in Answers
  BY <1>3, <1>4, CheckedType
<1> QED BY <1>1, <1>3, <1>4, <1>5, <1>6, CheckedTree DEF Fine

LEMMA RenameFine ==
  ASSUME NEW t \in Trees, NEW m \in Asked, m.op = "rename"
  PROVE  Fine(t, m, Perform(t, m))
<1> DEFINE p == m.path
           to == m.target
           new == [q \in Names |-> IF q = to THEN t[p]
                                   ELSE IF q = p \/ q \in Below(p) THEN Absent ELSE t[q]]
           ok == /\ t[p] # Absent /\ HasParent(t, to) /\ to # p /\ to \notin Below(p)
                 /\ \/ t[to] = Absent
                    \/ IsFile(t, p) /\ IsFile(t, to)
                    \/ t[p] = Dir /\ t[to] = Dir /\ Children(t, to) = {}
<1>1. Perform(t, m) = Checked(ok, new, t)
  BY DEF Perform, sendresponse_rename
<1>2. p \in Names /\ to \in Names
  BY EntryTypes DEF Asked
<1>3. new \in Trees
  BY <1>2, EntryTypes DEF Trees
<1>4. \A q \in Names : q # to /\ t[q] = Absent => new[q] = Absent
  OBVIOUS
<1>5. ok \in BOOLEAN
  BY Zenon
<1> HIDE DEF new, ok
<1>6. Checked(ok, new, t) \in Answers
  BY <1>3, <1>5, CheckedType
<1> QED BY <1>1, <1>3, <1>4, <1>5, <1>6, CheckedTree DEF Fine

LEMMA PerformFine ==
  ASSUME NEW t \in Trees, NEW m \in Asked
  PROVE  Fine(t, m, Perform(t, m))
<1>1. m.op \in Looks \cup Creates \cup Changes \cup {"rename"}
  BY DEF Asked, Operations, Looks, Creates, Changes
<1> QED BY <1>1, LookFine, CreateFine, ChangeFine, RenameFine

LEMMA OutcomesFine ==
  ASSUME NEW t \in Trees, NEW m \in Asked, NEW o \in Outcomes(t, m)
  PROVE  Fine(t, m, o)
<1>1. Fine(t, m, Failure(t))
  BY EntryTypes DEF Fine, Failure, Success, Answers
<1> QED BY <1>1, PerformFine DEF Outcomes
-----------------------------------------------------------------------------
(* Types.                                                                   *)

LEMMA SetsOfHosts ==
  Nodes \subseteq Hosts /\ NN \in Hosts /\ NN \notin Nodes /\ NULL \notin Nodes
BY DataPathAssumption DEF Hosts

LEMMA MessageAsked == Message \subseteq Asked
BY DataPathAssumption, EntryTypes DEF Message, Asked

LEMMA AnsweredType ==
  ASSUME TypeOK, NEW m \in Message, NEW o \in Answers, NEW h \in Hosts
  PROVE  Answered(m, o, h) \subseteq Reply
BY DEF TypeOK, Answered, Answers, Message, Reply

LEMMA LocalOutcomesType ==
  ASSUME TypeOK, NEW m \in Message, NEW o \in LocalOutcomes(m)
  PROVE  o \in Answers
<1>1. disk[NN] \in Trees
  BY SetsOfHosts DEF TypeOK
<1>2. m \in Asked
  BY MessageAsked
<1>3. [m EXCEPT !.path = Junk, !.data = Empty] \in Asked
  BY <1>2, EntryTypes DEF Asked
<1>4. CASE m.op = "statfs"
  BY <1>1, <1>2, <1>4, OutcomesFine DEF LocalOutcomes, Fine
<1>5. CASE m.op = "rename"
  <2>1. o = Failure(disk[NN])
    BY <1>5 DEF LocalOutcomes
  <2> QED BY <1>1, <2>1, EntryTypes DEF Failure, Success, Answers
<1>6. CASE m.op # "statfs" /\ m.op # "rename"
  <2>1. o \in Outcomes(disk[NN], [m EXCEPT !.path = Junk, !.data = Empty])
    BY <1>6 DEF LocalOutcomes
  <2> QED BY <1>1, <1>3, <2>1, OutcomesFine DEF Fine
<1> QED BY <1>4, <1>5, <1>6

LEMMA ResultType ==
  ASSUME TypeOK, pending # NULL
  PROVE  Result \in Entries \cup {Unknown}
<1>1. pending \in Message /\ believed[pending.path] \in Entries \cup {Unknown}
  BY DEF TypeOK, Message
<1>2. pending.data \in Data \cup {Empty}
  BY <1>1 DEF Message
<1> QED BY <1>1, <1>2, EntryTypes DEF Result

LEMMA TypeInit == Init => TypeOK
<1> SUFFICES ASSUME Init PROVE TypeOK
  OBVIOUS
<1>1. /\ members = {} /\ routed = NULL
      /\ home = [q \in Paths \ {Root} |-> NULL]
  BY DEF Init, D!DirInit, D!NoHomes, D!Placeable
<1>2. disk \in [Hosts -> Trees]
  BY EntryTypes DEF Init, Trees
<1>3. believed \in [Paths -> Entries \cup {Unknown}]
  BY EntryTypes DEF Init
<1>4. calls \in 0..MaxCalls /\ faults \in 0..MaxFaults
  BY DataPathAssumption DEF Init
<1> QED BY <1>1, <1>2, <1>3, <1>4 DEF Init, TypeOK

LEMMA TypeNode ==
  ASSUME TypeOK, NEW n \in Nodes, StartNode(n) \/ MakeDirs(n) \/ Shutdown(n)
  PROVE  TypeOK'
<1>1. CASE StartNode(n)
  BY <1>1 DEF StartNode, TypeOK, namenode, network, client
<1>2. CASE MakeDirs(n)
  <2>1. disk[n] \in Trees /\ [disk[n] EXCEPT ![Root] = Dir] \in Trees
    BY Changed, EntryTypes, SetsOfHosts DEF TypeOK
  <2>2. disk' = [disk EXCEPT ![n] = [disk[n] EXCEPT ![Root] = Dir]]
    BY <1>2 DEF MakeDirs
  <2>3. disk' \in [Hosts -> Trees]
    BY <2>1, <2>2, SetsOfHosts DEF TypeOK
  <2> QED BY <1>2, <2>3 DEF MakeDirs, TypeOK, namenode, network, client
<1>3. CASE Shutdown(n)
  BY <1>3, DataPathAssumption DEF Shutdown, TypeOK, namenode, network, client
<1> QED BY <1>1, <1>2, <1>3

LEMMA TypeServe ==
  ASSUME TypeOK, NEW f \in forwards, Serve(f)
  PROVE  TypeOK'
<1>1. PICK o \in Outcomes(disk[f.to], f.msg) :
        disk' = [disk EXCEPT ![f.to] = o.tree] /\ replies' = Answered(f.msg, o, f.to)
  BY DEF Serve
<1>2. f.msg \in Message /\ f.to \in Nodes /\ f.to \in Hosts /\ disk[f.to] \in Trees
  BY SetsOfHosts DEF TypeOK
<1>3. o \in Answers
  BY <1>2, MessageAsked, OutcomesFine DEF Fine
<1>4. replies' \subseteq Reply
  BY <1>1, <1>2, <1>3, AnsweredType
<1>5. disk' \in [Hosts -> Trees]
  BY <1>1, <1>2, <1>3 DEF TypeOK, Answers
<1> QED BY <1>4, <1>5 DEF Serve, TypeOK, namenode, client

LEMMA TypeForward ==
  ASSUME TypeOK, NEW m \in requests, NEW n \in Nodes, Forward(m, n)
  PROVE  TypeOK'
<1>1. m \in Message /\ m.path \in Paths
  BY DEF TypeOK, Message
<1>2. forwards' = forwards \cup {[msg |-> m, to |-> n]} /\ requests' = requests \ {m}
  BY DEF Forward
<1>3. /\ members' = members
      /\ home' \in [Paths \ {Root} -> Nodes \cup {NULL}]
      /\ routed' \in [path : Paths, to : Nodes \cup {NULL}] \cup {NULL}
  <2>1. CASE D!Place(m.path, n)
    BY <1>1, <2>1 DEF D!Place, TypeOK
  <2>2. CASE D!Route(m.path, n)
    BY <1>1, <2>2 DEF D!Route, TypeOK
  <2> QED BY <2>1, <2>2 DEF Forward
<1> QED BY <1>1, <1>2, <1>3 DEF Forward, TypeOK, datanode, client

LEMMA TypeLocal ==
  ASSUME TypeOK, NEW m \in requests, Local(m)
  PROVE  TypeOK'
<1>1. PICK o \in LocalOutcomes(m) :
        disk' = [disk EXCEPT ![NN] = o.tree] /\ replies' = Answered(m, o, NN)
  BY DEF Local
<1>2. m \in Message /\ m.path \in Paths
  BY DEF TypeOK, Message
<1>3. o \in Answers
  BY <1>2, LocalOutcomesType
<1>4. replies' \subseteq Reply
  BY <1>1, <1>2, <1>3, AnsweredType, SetsOfHosts
<1>5. disk' \in [Hosts -> Trees]
  BY <1>1, <1>3, SetsOfHosts DEF TypeOK, Answers
<1>6. /\ members' = members /\ home' = home
      /\ routed' \in [path : Paths, to : Nodes \cup {NULL}] \cup {NULL}
  BY <1>2 DEF Local, D!Answer
<1> QED BY <1>4, <1>5, <1>6 DEF Local, TypeOK, client

LEMMA TypeRestart == TypeOK /\ Restart => TypeOK'
<1> SUFFICES ASSUME TypeOK, Restart PROVE TypeOK'
  OBVIOUS
<1>1. members' = {} /\ routed' = NULL /\ home' = [q \in Paths \ {Root} |-> NULL]
  BY DEF Restart, D!Forget, D!NoHomes, D!Placeable
<1>2. loose' \subseteq Paths /\ believed' \in [Paths -> Entries \cup {Unknown}]
  BY DEF Restart, TypeOK, Message
<1>3. faults' \in 0..MaxFaults
  BY DataPathAssumption DEF Restart, TypeOK
<1> QED BY <1>1, <1>2, <1>3 DEF Restart, TypeOK, datanode, network

LEMMA TypeCall ==
  ASSUME TypeOK, NEW op \in Ops, NEW p \in Named, NEW d \in Data \cup {Empty}, NEW to \in Named,
         Call(op, p, d, to)
  PROVE  TypeOK'
<1> DEFINE m == [id |-> calls + 1, op |-> op, path |-> p, data |-> d, target |-> to]
<1>1. calls + 1 \in Calls /\ calls' \in 0..MaxCalls
  BY DataPathAssumption DEF Call, TypeOK, Calls
<1>2. m \in Message /\ m.path \in Named
  BY <1>1, DataPathAssumption DEF Message
<1>3. Sent(op, p) \in Paths
  BY DataPathAssumption DEF Sent
<1>4. [m EXCEPT !.path = Sent(op, p)] \in Message
  BY <1>2, <1>3 DEF Message
<1>5. pending' = m /\ requests' = requests \cup {[m EXCEPT !.path = Sent(op, p)]}
  BY DEF Call
<1> HIDE DEF m
<1>6. loose' \subseteq Paths
  BY DataPathAssumption DEF Call, TypeOK, Below
<1> QED BY <1>1, <1>2, <1>4, <1>5, <1>6 DEF Call, TypeOK, namenode, datanode

LEMMA TypeReturn ==
  ASSUME TypeOK, NEW r \in replies, Return(r)
  PROVE  TypeOK'
<1>1. Believed \in [Paths -> Entries \cup {Unknown}]
  BY ResultType DEF Return, Believed, TypeOK
<1>2. believed' \in [Paths -> Entries \cup {Unknown}]
  BY <1>1 DEF Return, TypeOK
<1> QED BY <1>2 DEF Return, TypeOK, namenode, datanode

LEMMA TypeGiveUp == TypeOK /\ GiveUp => TypeOK'
<1> SUFFICES ASSUME TypeOK, GiveUp PROVE TypeOK'
  OBVIOUS
<1>1. believed' \in [Paths -> Entries \cup {Unknown}]
  BY DEF GiveUp, TypeOK
<1>2. pending \in Message /\ pending.path \in Named
  BY DEF GiveUp, TypeOK
<1>3. doubtful' \subseteq Paths
  <2>1. pending.path \in Paths
    BY <1>2 DEF Message
  <2>2. doubtful' = doubtful \cup {pending.path}
                      \cup IF pending.op = "truncate" THEN {Glued[pending.path]} ELSE {}
    BY DEF GiveUp
  <2> QED BY <1>2, <2>1, <2>2, DataPathAssumption DEF TypeOK
<1>4. faults' \in 0..MaxFaults
  BY DataPathAssumption DEF GiveUp, TypeOK
<1> QED BY <1>1, <1>3, <1>4 DEF GiveUp, TypeOK, namenode, datanode

LEMMA TypeStep == TypeOK /\ [Next]_vars => TypeOK'
<1> SUFFICES ASSUME TypeOK, [Next]_vars PROVE TypeOK'
  OBVIOUS
<1>1. CASE DataNodeNext
  BY <1>1, TypeNode, TypeServe DEF DataNodeNext
<1>2. ASSUME NEW n \in Nodes, HandleJoin(n) PROVE TypeOK'
  BY <1>2 DEF HandleJoin, D!Register, TypeOK, datanode, network, client
<1>3. CASE NameNodeNext
  BY <1>2, <1>3, TypeForward, TypeLocal, TypeRestart DEF NameNodeNext
<1>4. CASE ClientNext
  BY <1>4, TypeCall, TypeReturn, TypeGiveUp DEF ClientNext
<1>5. CASE UNCHANGED vars
  BY <1>5 DEF vars, namenode, datanode, network, client, TypeOK
<1> QED BY <1>1, <1>3, <1>4, <1>5 DEF Next

\* The types of DataPath, for any nodes, paths and number of calls and faults.
THEOREM DataPathTypeCorrect == Spec => []TypeOK
BY TypeInit, TypeStep, PTL DEF Spec
-----------------------------------------------------------------------------
(* Placement.                                                               *)

\* What may create a path on a datanode was forwarded to the home of the path.
SentHome ==
  \A f \in forwards :
    f.msg.op \in Creates /\ f.msg.path \notin {Root} \cup loose => home[f.msg.path] = f.to

\* The table is known not to follow the target of a rename on its way.
RenamesLoose ==
  /\ \A m \in requests : m.op = "rename" => m.target \in loose
  /\ \A f \in forwards : f.msg.op = "rename" => f.msg.target \in loose

PlaceInv == PlacedWhereStored /\ SentHome /\ RenamesLoose

LEMMA PlaceInit == Init => PlaceInv
<1> SUFFICES ASSUME Init PROVE PlaceInv
  OBVIOUS
<1>1. \A n \in Nodes, q \in Paths : disk[n][q] = Absent
  BY SetsOfHosts, EntryTypes DEF Init
<1> QED BY <1>1 DEF Init, PlaceInv, PlacedWhereStored, SentHome, RenamesLoose

\* A step that leaves the homes alone, sends nothing new and makes no file
\* appear but where it belongs.
LEMMA PlaceKept ==
  ASSUME PlaceInv, home' = home, loose \subseteq loose',
         forwards' \subseteq forwards, requests' \subseteq requests,
         \A n \in Nodes, q \in Paths \ ({Root} \cup loose) :
           disk'[n][q] # Absent => disk[n][q] # Absent \/ home[q] = n
  PROVE  PlaceInv'
<1>1. PlacedWhereStored'
  BY DEF PlaceInv, PlacedWhereStored
<1>2. SentHome' /\ RenamesLoose'
  BY DEF PlaceInv, SentHome, RenamesLoose
<1> QED BY <1>1, <1>2 DEF PlaceInv

LEMMA PlaceNode ==
  ASSUME TypeOK, PlaceInv, NEW n \in Nodes, StartNode(n) \/ MakeDirs(n) \/ Shutdown(n)
  PROVE  PlaceInv'
<1>1. home' = home /\ loose' = loose /\ forwards' = forwards /\ requests' = requests
  BY DEF StartNode, MakeDirs, Shutdown, namenode, network
<1>2. \A k \in Nodes, q \in Paths \ {Root} : disk'[k][q] = disk[k][q]
  <2>1. CASE disk' = disk
    BY <2>1
  <2>2. CASE disk' = [disk EXCEPT ![n][Root] = Dir]
    BY <2>2, SetsOfHosts, EntryTypes DEF TypeOK, Trees
  <2> QED BY <2>1, <2>2 DEF StartNode, MakeDirs, Shutdown
<1> QED BY <1>1, <1>2, PlaceKept

LEMMA PlaceServe ==
  ASSUME TypeOK, PlaceInv, NEW f \in forwards, Serve(f)
  PROVE  PlaceInv'
<1>1. PICK o \in Outcomes(disk[f.to], f.msg) : disk' = [disk EXCEPT ![f.to] = o.tree]
  BY DEF Serve
<1>2. f.msg \in Asked /\ f.to \in Nodes /\ disk[f.to] \in Trees
  BY SetsOfHosts, MessageAsked DEF TypeOK
<1>3. Fine(disk[f.to], f.msg, o)
  BY <1>2, OutcomesFine
<1>4. home' = home /\ loose' = loose /\ requests' = requests /\ forwards' = forwards \ {f}
  BY DEF Serve, namenode
<1>5. ASSUME NEW n \in Nodes, NEW q \in Paths \ ({Root} \cup loose), disk'[n][q] # Absent
      PROVE  disk[n][q] # Absent \/ home[q] = n
  <2>1. CASE n # f.to
    BY <1>1, <1>5, <2>1, SetsOfHosts DEF TypeOK
  <2>2. CASE n = f.to /\ disk[n][q] = Absent
    <3>1. o.tree[q] # Absent
      BY <1>1, <1>2, <1>5, <2>2, SetsOfHosts DEF TypeOK
    <3>2. CASE f.msg.op \in Creates /\ q = f.msg.path
      BY <2>2, <3>2 DEF PlaceInv, SentHome
    <3>3. CASE f.msg.op = "rename" /\ q = f.msg.target
      BY <3>3 DEF PlaceInv, RenamesLoose
    <3> QED BY <1>3, <2>2, <3>1, <3>2, <3>3, EntryTypes DEF Fine
  <2> QED BY <2>1, <2>2
<1> QED BY <1>4, <1>5, PlaceKept

\* A home is given to a path that has none, where no file stands therefore.
LEMMA PlaceForward ==
  ASSUME TypeOK, PlaceInv, NEW m \in requests, NEW n \in Nodes, Forward(m, n)
  PROVE  PlaceInv'
<1> DEFINE f == [msg |-> m, to |-> n]
<1>1. /\ forwards' = forwards \cup {f} /\ requests' = requests \ {m}
      /\ disk' = disk /\ loose' = loose
  BY DEF Forward, datanode
<1>2. m.path \in Paths
  BY DEF TypeOK, Message
<1>3. \A q \in Paths \ {Root} : home[q] # NULL => home'[q] = home[q]
  <2>1. CASE D!Place(m.path, n)
    BY <2>1 DEF D!Place, TypeOK
  <2>2. CASE D!Route(m.path, n)
    BY <2>2 DEF D!Route
  <2> QED BY <2>1, <2>2 DEF Forward
<1>4. m.op \in Creates /\ m.path # Root => home'[m.path] = n
  <2> SUFFICES ASSUME m.op \in Creates, m.path # Root PROVE home'[m.path] = n
    OBVIOUS
  <2>1. m.op \in CreateCmds
    BY DEF Creates, CreateCmds
  <2>2. CASE D!Place(m.path, n)
    BY <1>2, <2>2 DEF D!Place, TypeOK
  <2>3. CASE home[m.path] # NULL /\ D!Route(m.path, n)
    BY <1>2, <2>3 DEF D!Route, D!Placeable
  <2> QED BY <2>1, <2>2, <2>3 DEF Forward
<1>5. PlacedWhereStored'
  <2> SUFFICES ASSUME NEW k \in Nodes, NEW q \in Paths \ ({Root} \cup loose), disk[k][q] # Absent
               PROVE  home'[q] = k
    BY <1>1 DEF PlacedWhereStored
  <2>1. home[q] = k
    BY DEF PlaceInv, PlacedWhereStored
  <2> QED BY <1>3, <2>1, SetsOfHosts
<1>6. SentHome'
  <2> SUFFICES ASSUME NEW g \in forwards', g.msg.op \in Creates, g.msg.path \notin {Root} \cup loose
               PROVE  home'[g.msg.path] = g.to
    BY <1>1 DEF SentHome
  <2>1. CASE g \in forwards
    <3>1. home[g.msg.path] = g.to
      BY <2>1 DEF PlaceInv, SentHome
    <3>2. g.to \in Nodes /\ g.msg.path \in Paths \ {Root}
      BY <2>1 DEF TypeOK, Message
    <3> QED BY <1>3, <3>1, <3>2, SetsOfHosts
  <2>2. CASE g = f
    BY <1>4, <2>2
  <2> QED BY <1>1, <2>1, <2>2
<1>7. RenamesLoose'
  BY <1>1 DEF PlaceInv, RenamesLoose
<1> QED BY <1>5, <1>6, <1>7 DEF PlaceInv

LEMMA PlaceLocal ==
  ASSUME TypeOK, PlaceInv, NEW m \in requests, Local(m)
  PROVE  PlaceInv'
<1>1. home' = home /\ loose' = loose /\ forwards' = forwards /\ requests' = requests \ {m}
  BY DEF Local, D!Answer
<1>2. \A n \in Nodes : disk'[n] = disk[n]
  BY SetsOfHosts DEF Local, TypeOK
<1> QED BY <1>1, <1>2, PlaceKept

\* Every path that had a home, or whose message might still create it, is loose.
LEMMA PlaceRestart == TypeOK /\ PlaceInv /\ Restart => PlaceInv'
<1> SUFFICES ASSUME TypeOK, PlaceInv, Restart PROVE PlaceInv'
  OBVIOUS
<1>1. disk' = disk /\ forwards' = forwards /\ requests' = requests
  BY DEF Restart, datanode, network
<1>2. loose' = loose \cup {q \in Paths : \E n \in Nodes : disk[n][q] # Absent}
                     \cup {f.msg.path : f \in forwards}
  BY DEF Restart
<1>3. PlacedWhereStored'
  BY <1>1, <1>2 DEF PlacedWhereStored
<1>4. SentHome'
  BY <1>1, <1>2 DEF SentHome
<1>5. RenamesLoose'
  BY <1>1, <1>2 DEF PlaceInv, RenamesLoose
<1> QED BY <1>3, <1>4, <1>5 DEF PlaceInv

LEMMA PlaceCall ==
  ASSUME TypeOK, PlaceInv, NEW op \in Ops, NEW p \in Named, NEW d \in Data \cup {Empty},
         NEW to \in Named, Call(op, p, d, to)
  PROVE  PlaceInv'
<1> DEFINE m == [id |-> calls + 1, op |-> op, path |-> p, data |-> d, target |-> to]
           sent == [m EXCEPT !.path = Sent(op, p)]
<1>1. /\ home' = home /\ disk' = disk /\ forwards' = forwards
      /\ requests' = requests \cup {sent}
  BY DEF Call, namenode, datanode
<1>2. loose \subseteq loose' /\ (op = "rename" => to \in loose')
  BY DEF Call
<1>3. sent.op = op /\ sent.target = to
  OBVIOUS
<1> HIDE DEF sent
<1>4. PlacedWhereStored' /\ SentHome'
  BY <1>1, <1>2 DEF PlaceInv, PlacedWhereStored, SentHome
<1>5. RenamesLoose'
  BY <1>1, <1>2, <1>3 DEF PlaceInv, RenamesLoose
<1> QED BY <1>4, <1>5 DEF PlaceInv

LEMMA PlaceStep == TypeOK /\ PlaceInv /\ [Next]_vars => PlaceInv'
<1> SUFFICES ASSUME TypeOK, PlaceInv, [Next]_vars PROVE PlaceInv'
  OBVIOUS
<1>1. CASE DataNodeNext
  BY <1>1, PlaceNode, PlaceServe DEF DataNodeNext
<1>2. ASSUME NEW n \in Nodes, HandleJoin(n) PROVE PlaceInv'
  BY <1>2, PlaceKept DEF HandleJoin, D!Register, datanode, network
<1>3. CASE NameNodeNext
  BY <1>2, <1>3, PlaceForward, PlaceLocal, PlaceRestart DEF NameNodeNext
<1>4. ASSUME NEW r \in replies, Return(r) PROVE PlaceInv'
  BY <1>4, PlaceKept DEF Return, namenode, datanode
<1>5. CASE GiveUp
  BY <1>5, PlaceKept DEF GiveUp, namenode, datanode
<1>6. CASE ClientNext
  BY <1>4, <1>5, <1>6, PlaceCall DEF ClientNext
<1>7. CASE UNCHANGED vars
  BY <1>7, PlaceKept DEF vars, namenode, datanode, network
<1> QED BY <1>1, <1>3, <1>6, <1>7 DEF Next

\* Whatever is lost, late, or executed after its caller gave up, a file stands on
\* the home of its path only, for any nodes, paths, calls and faults; paths of a
\* rename or from before a restart of the namenode excepted.
THEOREM StoredAtHome == Spec => []PlacedWhereStored
<1>1. PlaceInv => PlacedWhereStored
  BY DEF PlaceInv
<1> QED BY <1>1, TypeInit, TypeStep, PlaceInit, PlaceStep, PTL DEF Spec
=============================================================================
