----------------------------- MODULE StoreProofs -----------------------------
(***************************************************************************)
(* What the client was told is what the datanodes store, and what they      *)
(* answer it with (StoreAgrees and AnswersAgree of DataPath), for any        *)
(* number of datanodes, paths, calls and faults.                            *)
(*                                                                         *)
(* The invariant says why: of a call there is one message at a time; what a *)
(* call that gave up may still do, it does to paths nothing is said about;  *)
(* what the client will believe once it has taken the reply on its way is   *)
(* already true of the home of each path, and nothing stands elsewhere;     *)
(* what stands in a directory stands in one that is there.                  *)
(***************************************************************************)
EXTENDS DataPathProofs

\* The paths at which executing m may change what stands there.
Touched(m) ==
  IF m.op \in Looks THEN {}
  ELSE IF m.op = "rename" THEN {m.path, m.target} \cup Below(m.path)
  ELSE {m.path}

InFlight == requests \cup {f.msg : f \in forwards}
Current(m) == pending # NULL /\ m.id = pending.id

\* Calls are numbered.  What is on its way of the pending call is what was sent,
\* and only some operations are called on the mount point.
Numbered ==
  /\ pending # NULL =>
       /\ pending.id = calls
       /\ pending.path = Root => pending.op \in RootOps
  /\ \A m \in InFlight :
       /\ m.id <= calls
       /\ m.op = "rename" => m.path # Root
       /\ Current(m) =>
            /\ m.op = pending.op /\ m.path = Sent(pending.op, pending.path)
            /\ m.data = pending.data /\ m.target = pending.target

\* Of a call there is one message at most: the request, its forward, or the reply
\* to the client that waits for it.
Once ==
  /\ \A m1, m2 \in requests : m1.id = m2.id => m1 = m2
  /\ \A f1, f2 \in forwards : f1.msg.id = f2.msg.id => f1 = f2
  /\ \A m \in requests, f \in forwards : m.id # f.msg.id
  /\ \A r \in replies : pending # NULL /\ r.id = pending.id /\ \A m \in InFlight : m.id # r.id
  /\ \A r1, r2 \in replies : r1 = r2

\* A path about which nothing is said, now or later.
Dark == {q \in doubtful \cup loose : believed[q] = Unknown}

\* What a call that gave up may still do, it does to dark paths.
Silent ==
  /\ \A m \in InFlight : ~Current(m) => Touched(m) \subseteq Dark
  /\ doubtful \subseteq Dark
  /\ pending # NULL /\ pending.op = "rename" =>
       {pending.path, pending.target} \cup Below(pending.path) \subseteq loose

\* What b says stands at a path is what stands at its home, and nowhere else, when
\* the hosts have the files dk and the homes are hm.
AgreeAt(dk, hm, b, q) ==
  b[q] # Unknown =>
    /\ \A n \in Nodes : dk[n][q] # Absent => hm[q] = n
    /\ IF hm[q] = NULL THEN b[q] = Absent ELSE dk[hm[q]][q] = b[q]
Agree(dk, hm, b) == \A q \in Paths \ {Root} : AgreeAt(dk, hm, b, q)

\* What the client will believe once it has taken reply r.
Shown(r) == IF r.ok /\ r.by # NN THEN Believed ELSE believed

Agreed ==
  /\ replies = {} => Agree(disk, home, believed)
  /\ \A r \in replies : Agree(disk, home, Shown(r))

\* What stands in a directory stands in a directory that is there.
NestedTree(t) ==
  \A q \in Paths \ {Root} : Parent[q] # Root /\ t[q] # Absent => t[Parent[q]] = Dir
Nested == \A n \in Nodes : NestedTree(disk[n])

StoreInv == Numbered /\ Once /\ Silent /\ Agreed /\ Nested /\ AnswersAgree
-----------------------------------------------------------------------------
(* What an operation does to a tree.                                        *)

Single == Creates \cup Changes

\* What a single operation puts at its path, and when it is allowed.
Entry(m) ==
  IF m.op \in {"mknod", "truncate"} THEN Empty
  ELSE IF m.op = "mkdir" THEN Dir
  ELSE IF m.op = "write" THEN Stored(m.data)
  ELSE Absent
Allowed(t, m) ==
  IF m.op \in Creates THEN t[m.path] = Absent /\ HasParent(t, m.path)
  ELSE IF m.op = "rmdir" THEN t[m.path] = Dir /\ Children(t, m.path) = {}
  ELSE IsFile(t, m.path)

LEMMA CheckedOk ==
  ASSUME NEW ok \in BOOLEAN, NEW new, NEW old
  PROVE  /\ Checked(ok, new, old).ok <=> ok
         /\ Checked(ok, new, old).tree = IF ok THEN new ELSE old
BY DEF Checked, Success, Failure

LEMMA AllowedType == ASSUME NEW t, NEW m PROVE Allowed(t, m) \in BOOLEAN
<1>1. CASE m.op \in Creates
  BY <1>1, Zenon DEF Allowed
<1>2. CASE m.op \notin Creates /\ m.op = "rmdir"
  BY <1>2, Zenon DEF Allowed
<1>3. CASE m.op \notin Creates /\ m.op # "rmdir"
  BY <1>3 DEF Allowed, IsFile
<1> QED BY <1>1, <1>2, <1>3

LEMMA SingleIs ==
  ASSUME NEW t \in Trees, NEW m \in Asked, m.op \in Single
  PROVE  Perform(t, m) = Checked(Allowed(t, m), [t EXCEPT ![m.path] = Entry(m)], t)
BY DEF Perform, Single, Creates, Changes, Allowed, Entry, sendresponse_mknod, sendresponse_mkdir,
       sendresponse_unlink, sendresponse_rmdir, sendresponse_truncate, sendresponse_write

\* A single operation changes its path only, to what its name says.
LEMMA SingleEffect ==
  ASSUME NEW t \in Trees, NEW m \in Asked, m.op \in Single
  PROVE  LET o == Perform(t, m) IN
         /\ o.ok <=> Allowed(t, m)
         /\ ~o.ok => o.tree = t
         /\ o.ok => o.tree = [t EXCEPT ![m.path] = Entry(m)]
BY SingleIs, AllowedType, CheckedOk

\* Operations that only look leave the tree.
LEMMA LookEffect ==
  ASSUME NEW t \in Trees, NEW m \in Asked, m.op \in Looks
  PROVE  LET o == Perform(t, m) IN
         /\ o.tree = t
         /\ o.ok /\ m.op = "read" => o.data = t[m.path] /\ t[m.path] \in Contents
         /\ o.ok /\ m.op = "readdir" => o.names = Children(t, m.path) /\ t[m.path] = Dir
<1>1. /\ Success(t).tree = t /\ Failure(t).tree = t
      /\ Success(t).ok /\ ~Failure(t).ok
  BY DEF Success, Failure
<1>2. CASE m.op \in {"getattr", "access", "open", "chmod", "statfs"}
  <2>1. Perform(t, m) = Found(t, m.path)
    BY <1>2 DEF Perform, sendresponse_getattr, sendresponse_access, sendresponse_open,
                sendresponse_chmod, sendresponse_statfs
  <2> QED BY <1>1, <1>2, <2>1 DEF Found, Checked
<1>3. CASE m.op = "read"
  <2>1. Perform(t, m) = sendresponse_read(t, m.path)
    BY <1>3 DEF Perform
  <2>2. CASE IsFile(t, m.path)
    <3>1. /\ sendresponse_read(t, m.path).tree = t
          /\ sendresponse_read(t, m.path).data = t[m.path]
      BY <2>2 DEF sendresponse_read, Success
    <3> QED BY <1>3, <2>1, <2>2, <3>1 DEF IsFile
  <2>3. CASE ~IsFile(t, m.path)
    BY <1>1, <1>3, <2>1, <2>3 DEF sendresponse_read
  <2> QED BY <2>2, <2>3
<1>4. CASE m.op = "readdir"
  <2>1. Perform(t, m) = sendresponse_readdir(t, m.path)
    BY <1>4 DEF Perform
  <2>2. CASE t[m.path] = Dir
    <3>1. /\ sendresponse_readdir(t, m.path).tree = t
          /\ sendresponse_readdir(t, m.path).names = Children(t, m.path)
      BY <2>2 DEF sendresponse_readdir, Success
    <3> QED BY <1>4, <2>1, <2>2, <3>1
  <2>3. CASE t[m.path] # Dir
    BY <1>1, <1>4, <2>1, <2>3 DEF sendresponse_readdir
  <2> QED BY <2>2, <2>3
<1> QED BY <1>2, <1>3, <1>4 DEF Looks

\* A rename that is done: the old path and what was below it are gone.
Renamed(t, m) ==
  [q \in Names |-> IF q = m.target THEN t[m.path]
                   ELSE IF q = m.path \/ q \in Below(m.path) THEN Absent ELSE t[q]]
Renames(t, m) ==
  /\ t[m.path] # Absent /\ HasParent(t, m.target) /\ m.target # m.path
  /\ m.target \notin Below(m.path)
  /\ \/ t[m.target] = Absent
     \/ IsFile(t, m.path) /\ IsFile(t, m.target)
     \/ t[m.path] = Dir /\ t[m.target] = Dir /\ Children(t, m.target) = {}

LEMMA RenameEffect ==
  ASSUME NEW t \in Trees, NEW m \in Asked, m.op = "rename"
  PROVE  LET o == Perform(t, m) IN
         /\ o.ok <=> Renames(t, m)
         /\ ~o.ok => o.tree = t
         /\ o.ok => o.tree = Renamed(t, m)
<1>1. Perform(t, m) = Checked(Renames(t, m), Renamed(t, m), t)
  BY DEF Perform, sendresponse_rename, Renames, Renamed
<1>2. Renames(t, m) \in BOOLEAN
  BY Zenon DEF Renames
<1> QED BY <1>1, <1>2, CheckedOk

LEMMA OpKinds == ASSUME NEW m \in Asked PROVE m.op \in Looks \cup Single \cup {"rename"}
BY DEF Asked, Operations, Looks, Creates, Changes, Single

\* An operation does something to the paths it touches only, and nothing if it
\* reports an error.
LEMMA OutcomeTouches ==
  ASSUME NEW t \in Trees, NEW m \in Asked, NEW o \in Outcomes(t, m)
  PROVE  /\ \A q \in Names \ Touched(m) : o.tree[q] = t[q]
         /\ ~o.ok => o.tree = t
<1>1. CASE o = Failure(t)
  BY <1>1 DEF Failure, Success
<1>2. CASE o = Perform(t, m) /\ m.op \in Looks
  BY <1>2, LookEffect
<1>3. CASE o = Perform(t, m) /\ m.op \in Single
  <2>1. Touched(m) = {m.path}
    BY <1>3 DEF Touched, Single, Looks, Creates, Changes
  <2>2. t \in [Names -> Entries]
    BY DEF Trees
  <2> QED BY <1>3, <2>1, <2>2, SingleEffect
<1>4. CASE o = Perform(t, m) /\ m.op = "rename"
  <2>1. Touched(m) = {m.path, m.target} \cup Below(m.path)
    BY <1>4 DEF Touched, Looks
  <2>2. CASE ~o.ok
    BY <1>4, <2>2, RenameEffect
  <2>3. CASE o.ok
    <3>1. o.tree = Renamed(t, m)
      BY <1>4, <2>3, RenameEffect
    <3> QED BY <2>1, <2>3, <3>1 DEF Renamed
  <2> QED BY <2>2, <2>3
<1> QED BY <1>1, <1>2, <1>3, <1>4, OpKinds DEF Outcomes

\* The answers of operations that make, remove or write a path, or look at one.
LEMMA SingleDone ==
  ASSUME NEW t \in Trees, NEW m \in Asked, NEW o \in Outcomes(t, m), o.ok
  PROVE  /\ m.op \in Single => o.tree[m.path] = Entry(m)
         /\ m.op \in Changes => t[m.path] # Absent
         /\ m.op = "read" => o.data = t[m.path] /\ t[m.path] \in Contents
         /\ m.op = "readdir" => o.names = Children(t, m.path) /\ t[m.path] = Dir
<1>1. o = Perform(t, m)
  BY DEF Outcomes, Failure, Success
<1>2. CASE m.op \in Looks
  BY <1>1, <1>2, LookEffect DEF Looks, Single, Creates, Changes
<1>3. CASE m.op \in Single
  <2>1. m.path \in Names /\ t \in [Names -> Entries]
    BY DEF Asked, Trees
  <2>2. o.tree = [t EXCEPT ![m.path] = Entry(m)] /\ Allowed(t, m)
    BY <1>1, <1>3, SingleEffect
  <2>3. o.tree[m.path] = Entry(m)
    BY <2>1, <2>2
  <2>4. m.op \in Changes => t[m.path] # Absent
    BY <2>2, EntryTypes DEF Allowed, IsFile, Creates, Changes
  <2> QED BY <1>3, <2>3, <2>4 DEF Single, Creates, Changes
<1>4. CASE m.op = "rename"
  BY <1>4 DEF Single, Creates, Changes
<1> QED BY <1>2, <1>3, <1>4, OpKinds

\* No directory loses what is in it, and nothing appears outside one.
LEMMA NestedKept ==
  ASSUME NEW t \in Trees, NEW m \in Asked, m.path \in Paths, m.target \in Paths,
         m.op = "rename" => m.path # Root, NestedTree(t), NEW o \in Outcomes(t, m)
  PROVE  NestedTree(o.tree)
<1> USE EntryTypes
<1>1. CASE o = Failure(t)
  BY <1>1 DEF Failure, Success
<1>2. CASE o = Perform(t, m) /\ m.op \in Looks
  BY <1>2, LookEffect
<1>3. CASE o = Perform(t, m) /\ m.op \in Single
  <2>1. CASE ~o.ok
    BY <1>3, <2>1, SingleEffect
  <2>2. CASE o.ok
    <3>1. o.tree = [t EXCEPT ![m.path] = Entry(m)] /\ Allowed(t, m)
      BY <1>3, <2>2, SingleEffect
    <3>2. /\ t \in [Names -> Entries] /\ m.path \in Names
          /\ \A q \in Paths \ {Root} : q \in Names /\ Parent[q] \in Names
      BY DataNodeAssumption DEF Trees
    <3> SUFFICES ASSUME NEW q \in Paths \ {Root}, Parent[q] # Root, o.tree[q] # Absent
                 PROVE  o.tree[Parent[q]] = Dir
      BY DEF NestedTree
    <3>3. Parent[q] # q
      BY DataNodeAssumption
    <3>4. CASE q = m.path
      <4>1. o.tree[Parent[q]] = t[Parent[q]]
        BY <3>1, <3>2, <3>3, <3>4
      <4>2. CASE m.op \in Creates
        BY <3>1, <3>4, <4>1, <4>2 DEF Allowed, HasParent
      <4>3. CASE m.op \notin Creates
        <5>1. t[q] # Absent
          BY <3>1, <3>4, <4>3 DEF Allowed, IsFile
        <5> QED BY <4>1, <5>1 DEF NestedTree
      <4> QED BY <4>2, <4>3
    <3>5. CASE q # m.path /\ Parent[q] = m.path
      <4>1. t[q] # Absent /\ t[m.path] = Dir
        BY <3>1, <3>2, <3>5 DEF NestedTree
      <4>2. m.op = "rmdir"
        BY <3>1, <4>1 DEF Allowed, IsFile
      <4>3. q \in Children(t, m.path)
        BY <3>5, <4>1 DEF Children, Below
      <4> QED BY <3>1, <4>2, <4>3 DEF Allowed, Creates
    <3>6. CASE q # m.path /\ Parent[q] # m.path
      BY <3>1, <3>2, <3>6 DEF NestedTree
    <3> QED BY <3>4, <3>5, <3>6
  <2> QED BY <2>1, <2>2
<1>4. CASE o = Perform(t, m) /\ m.op = "rename"
  <2>1. CASE ~o.ok
    BY <1>4, <2>1, RenameEffect
  <2>2. CASE o.ok
    <3> DEFINE p == m.path
               to == m.target
    <3>1. o.tree = Renamed(t, m) /\ Renames(t, m) /\ p # Root
      BY <1>4, <2>2, RenameEffect
    <3>2. \A q \in Paths \ {Root} : q \in Names /\ Parent[q] \in Names /\ Parent[q] \in Paths
      BY DataNodeAssumption
    <3> SUFFICES ASSUME NEW q \in Paths \ {Root}, Parent[q] # Root, o.tree[q] # Absent
                 PROVE  o.tree[Parent[q]] = Dir
      BY DEF NestedTree
    <3>3. Parent[Parent[q]] = Root /\ Parent[q] # q
      BY DataNodeAssumption
    <3>4. Parent[q] \notin Below(p)
      BY <3>1, <3>3 DEF Below
    <3>5. CASE q = to
      <4>1. t[Parent[to]] = Dir /\ Parent[to] # p /\ Parent[to] # to
        BY <3>1, <3>3, <3>5 DEF Renames, HasParent, Below
      <4> QED BY <3>1, <3>2, <3>4, <3>5, <4>1 DEF Renamed
    <3>6. CASE q # to
      <4>1. q # p /\ q \notin Below(p) /\ t[q] # Absent
        BY <3>1, <3>2, <3>6 DEF Renamed
      <4>2. t[Parent[q]] = Dir
        BY <4>1 DEF NestedTree
      <4>3. Parent[q] # p
        BY <4>1 DEF Below
      <4>4. Parent[q] # to
        <5> SUFFICES ASSUME Parent[q] = to PROVE FALSE
          OBVIOUS
        <5>1. q \in Children(t, to)
          BY <4>1 DEF Children, Below
        <5> QED BY <3>1, <4>2, <5>1 DEF Renames, IsFile
      <4> QED BY <3>1, <3>2, <3>4, <4>2, <4>3, <4>4 DEF Renamed
    <3> QED BY <3>5, <3>6
  <2> QED BY <2>1, <2>2
<1> QED BY <1>1, <1>2, <1>3, <1>4, OpKinds DEF Outcomes
-----------------------------------------------------------------------------
(* Messages.                                                                *)

LEMMA InFlightType ==
  ASSUME TypeOK, NEW m \in InFlight
  PROVE  m \in Message /\ m \in Asked /\ m.path \in Paths /\ m.target \in Paths /\ m.id \in Nat
<1>1. m \in Message
  BY DEF TypeOK, InFlight
<1>2. \A k \in Calls : k \in Nat
  BY DEF Calls
<1> QED BY <1>1, <1>2, MessageAsked DEF Message

\* The messages of a step that sends nothing new.
LEMMA NumberedKept ==
  ASSUME Numbered, InFlight' \subseteq InFlight, calls' = calls, pending' = pending \/ pending' = NULL
  PROVE  Numbered'
BY DEF Numbered, Current

\* A call is numbered, and sent to the namenode under the path Sent gives it.
LEMMA CallSends ==
  ASSUME TypeOK, NEW op \in Ops, NEW p \in Named, NEW d \in Data \cup {Empty}, NEW to \in Named,
         Call(op, p, d, to)
  PROVE  /\ pending = NULL /\ pending' # NULL /\ calls' = calls + 1
         /\ pending'.id = calls + 1 /\ pending'.op = op /\ pending'.path = p
         /\ pending'.data = d /\ pending'.target = to
         /\ forwards' = forwards /\ replies' = replies
         /\ \E sent :
              /\ requests' = requests \cup {sent} /\ InFlight' = InFlight \cup {sent}
              /\ sent.id = calls + 1 /\ sent.op = op /\ sent.path = Sent(op, p)
              /\ sent.data = d /\ sent.target = to
<1> DEFINE new == [id |-> calls + 1, op |-> op, path |-> p, data |-> d, target |-> to]
           sent == [new EXCEPT !.path = Sent(op, p)]
<1>1. calls + 1 \in Calls
  BY DataPathAssumption DEF Call, TypeOK, Calls
<1>2. new \in Message
  BY <1>1, DataPathAssumption DEF Message
<1>3. new # NULL
  BY <1>2, MessageAssumption
<1>4. /\ pending = NULL /\ pending' = new /\ calls' = calls + 1
      /\ requests' = requests \cup {sent} /\ forwards' = forwards /\ replies' = replies
  BY DEF Call
<1>5. /\ new.id = calls + 1 /\ new.op = op /\ new.path = p /\ new.data = d /\ new.target = to
      /\ sent.id = calls + 1 /\ sent.op = op /\ sent.path = Sent(op, p) /\ sent.data = d
      /\ sent.target = to
  OBVIOUS
<1> HIDE DEF new, sent
<1>6. InFlight' = InFlight \cup {sent}
  BY <1>4 DEF InFlight
<1> QED BY <1>3, <1>4, <1>5, <1>6

LEMMA NumberedInit == Init => Numbered
BY DEF Init, Numbered, InFlight

LEMMA NumberedStep == TypeOK /\ Numbered /\ [Next]_vars => Numbered'
<1> SUFFICES ASSUME TypeOK, Numbered, [Next]_vars PROVE Numbered'
  OBVIOUS
<1>1. CASE DataNodeNext
  <2>1. ASSUME NEW n \in Nodes, StartNode(n) \/ MakeDirs(n) \/ Shutdown(n) PROVE Numbered'
    BY <2>1, NumberedKept DEF StartNode, MakeDirs, Shutdown, network, client, InFlight
  <2>2. ASSUME NEW f \in forwards, Serve(f) PROVE Numbered'
    BY <2>2, NumberedKept DEF Serve, client, InFlight
  <2> QED BY <1>1, <2>1, <2>2 DEF DataNodeNext
<1>2. CASE NameNodeNext
  <2>1. ASSUME NEW n \in Nodes, HandleJoin(n) PROVE Numbered'
    BY <2>1, NumberedKept DEF HandleJoin, network, client, InFlight
  <2>2. ASSUME NEW m \in requests, Local(m) PROVE Numbered'
    BY <2>2, NumberedKept DEF Local, client, InFlight
  <2>3. ASSUME NEW m \in requests, NEW n \in Nodes, Forward(m, n) PROVE Numbered'
    BY <2>3, NumberedKept DEF Forward, client, InFlight
  <2>4. CASE Restart
    BY <2>4, NumberedKept DEF Restart, network, InFlight
  <2> QED BY <1>2, <2>1, <2>2, <2>3, <2>4 DEF NameNodeNext
<1>3. CASE ClientNext
  <2>1. ASSUME NEW op \in Ops, NEW p \in Named, NEW d \in Data \cup {Empty}, NEW to \in Named,
               Call(op, p, d, to)
        PROVE  Numbered'
    <3>1. /\ pending' # NULL /\ calls' = calls + 1
          /\ pending'.id = calls + 1 /\ pending'.op = op /\ pending'.path = p
          /\ pending'.data = d /\ pending'.target = to
      BY <2>1, CallSends
    <3>2. PICK sent :
            /\ InFlight' = InFlight \cup {sent}
            /\ sent.id = calls + 1 /\ sent.op = op /\ sent.path = Sent(op, p) /\ sent.data = d
            /\ sent.target = to
      BY <2>1, CallSends
    <3>4. p = Root => op \in RootOps
      BY <2>1 DEF Call
    <3>5. \A m \in InFlight : m.id <= calls /\ m.id \in Nat /\ calls \in Nat
      BY InFlightType DEF Numbered, TypeOK
    <3>6. calls \in Nat
      BY DEF TypeOK
    <3>7. ASSUME NEW m \in InFlight
          PROVE  m.id <= calls' /\ ~Current(m)' /\ (m.op = "rename" => m.path # Root)
      <4>1. m.id # calls + 1 /\ m.id <= calls + 1
        BY <3>5
      <4> QED BY <3>1, <3>2, <4>1 DEF Numbered, Current
    <3>8. op = "rename" => sent.path # Root
      BY <3>2, <3>4 DEF RootOps, Sent
    <3>9. sent.id <= calls'
      BY <3>1, <3>2, <3>6
    <3> QED BY <3>1, <3>2, <3>4, <3>7, <3>8, <3>9 DEF Numbered, Current
  <2>2. ASSUME NEW r \in replies, Return(r) PROVE Numbered'
    BY <2>2, NumberedKept DEF Return, InFlight
  <2>3. CASE GiveUp
    BY <2>3, NumberedKept DEF GiveUp, InFlight
  <2> QED BY <1>3, <2>1, <2>2, <2>3 DEF ClientNext
<1>4. CASE UNCHANGED vars
  BY <1>4, NumberedKept DEF vars, network, client, InFlight
<1> QED BY <1>1, <1>2, <1>3, <1>4 DEF Next
-----------------------------------------------------------------------------
LEMMA OnceInit == Init => Once
BY DEF Init, Once, InFlight

\* The reply to message m is the only thing left of its call.
LEMMA OnceAnswered ==
  ASSUME Once, NEW m \in InFlight, NEW o, NEW h, InFlight' \subseteq InFlight,
         \A k \in InFlight' : k.id # m.id,
         requests' \subseteq requests, forwards' \subseteq forwards, pending' = pending,
         replies' = Answered(m, o, h)
  PROVE  Once'
<1>1. CASE Current(m)
  <2> DEFINE r == [id |-> m.id, ok |-> o.ok, data |-> o.data, names |-> o.names, by |-> h]
  <2>1. replies' = {r} /\ r.id = m.id
    BY <1>1 DEF Answered, Current
  <2> HIDE DEF r
  <2> QED BY <1>1, <2>1 DEF Once, Current
<1>2. CASE ~Current(m)
  <2>1. replies' = replies
    BY <1>2 DEF Answered, Current
  <2> QED BY <2>1 DEF Once
<1> QED BY <1>1, <1>2

LEMMA OnceStep == TypeOK /\ Numbered /\ Once /\ [Next]_vars => Once'
<1> SUFFICES ASSUME TypeOK, Numbered, Once, [Next]_vars PROVE Once'
  OBVIOUS
<1>1. CASE DataNodeNext
  <2>1. ASSUME NEW n \in Nodes, StartNode(n) \/ MakeDirs(n) \/ Shutdown(n) PROVE Once'
    BY <2>1 DEF StartNode, MakeDirs, Shutdown, network, client, InFlight, Once
  <2>2. ASSUME NEW f \in forwards, Serve(f) PROVE Once'
    <3>1. /\ forwards' = forwards \ {f} /\ requests' = requests /\ pending' = pending
          /\ \E o : replies' = Answered(f.msg, o, f.to)
      BY <2>2 DEF Serve, client
    <3>2. f.msg \in InFlight /\ InFlight' \subseteq InFlight /\ \A k \in InFlight' : k.id # f.msg.id
      BY <3>1 DEF InFlight, Once
    <3> QED BY <3>1, <3>2, OnceAnswered
  <2> QED BY <1>1, <2>1, <2>2 DEF DataNodeNext
<1>2. CASE NameNodeNext
  <2>1. ASSUME NEW n \in Nodes, HandleJoin(n) PROVE Once'
    BY <2>1 DEF HandleJoin, network, client, InFlight, Once
  <2>2. ASSUME NEW m \in requests, Local(m) PROVE Once'
    <3>1. /\ requests' = requests \ {m} /\ forwards' = forwards /\ pending' = pending
          /\ \E o : replies' = Answered(m, o, NN)
      BY <2>2 DEF Local, client
    <3>2. m \in InFlight /\ InFlight' \subseteq InFlight /\ \A k \in InFlight' : k.id # m.id
      BY <3>1 DEF InFlight, Once
    <3> QED BY <3>1, <3>2, OnceAnswered
  <2>3. ASSUME NEW m \in requests, NEW n \in Nodes, Forward(m, n) PROVE Once'
    <3> DEFINE f == [msg |-> m, to |-> n]
    <3>1. /\ forwards' = forwards \cup {f} /\ requests' = requests \ {m}
          /\ replies' = replies /\ pending' = pending
      BY <2>3 DEF Forward, client
    <3>2. f.msg = m
      OBVIOUS
    <3> HIDE DEF f
    <3>3. InFlight' \subseteq InFlight
      BY <3>1, <3>2 DEF InFlight
    <3> QED BY <3>1, <3>2, <3>3 DEF Once
  <2>4. CASE Restart
    BY <2>4 DEF Restart, network, InFlight, Once
  <2> QED BY <1>2, <2>1, <2>2, <2>3, <2>4 DEF NameNodeNext
<1>3. CASE ClientNext
  <2>1. ASSUME NEW op \in Ops, NEW p \in Named, NEW d \in Data \cup {Empty}, NEW to \in Named,
               Call(op, p, d, to)
        PROVE  Once'
    <3>1. pending = NULL /\ forwards' = forwards /\ replies' = replies
      BY <2>1, CallSends
    <3>2. PICK sent :
            requests' = requests \cup {sent} /\ InFlight' = InFlight \cup {sent} /\ sent.id = calls + 1
      BY <2>1, CallSends
    <3>3. \A m \in InFlight : m.id # calls + 1
      BY InFlightType DEF Numbered, TypeOK
    <3>4. replies = {}
      BY <3>1 DEF Once
    <3>5. \A m \in requests : m \in InFlight
      BY DEF InFlight
    <3>6. \A m \in requests : m.id # sent.id
      BY <3>2, <3>3, <3>5
    <3>7. \A f \in forwards' : f.msg.id # sent.id
      <4>1. \A f \in forwards : f.msg \in InFlight
        BY DEF InFlight
      <4> QED BY <3>1, <3>2, <3>3, <4>1
    <3> QED BY <3>1, <3>2, <3>4, <3>6, <3>7 DEF Once
  <2>2. ASSUME NEW r \in replies, Return(r) PROVE Once'
    <3>1. replies' = {} /\ requests' = requests /\ forwards' = forwards
      BY <2>2 DEF Return, Once
    <3> QED BY <3>1 DEF Once
  <2>3. CASE GiveUp
    BY <2>3 DEF GiveUp, Once
  <2> QED BY <1>3, <2>1, <2>2, <2>3 DEF ClientNext
<1>4. CASE UNCHANGED vars
  BY <1>4 DEF vars, network, client, InFlight, Once
<1> QED BY <1>1, <1>2, <1>3, <1>4 DEF Next
-----------------------------------------------------------------------------
(* Paths nothing is said about.                                             *)

LEMMA SilentInit == Init => Silent
BY DEF Init, Silent, InFlight, Dark

LEMMA SilentKept ==
  ASSUME Silent, InFlight' \subseteq InFlight, pending' = pending, doubtful' = doubtful,
         loose \subseteq loose', \A q \in Dark : believed'[q] = Unknown
  PROVE  Silent'
<1>1. Dark \subseteq Dark'
  BY DEF Dark
<1> QED BY <1>1 DEF Silent, Current

LEMMA SilentReturn ==
  ASSUME TypeOK, Numbered, Once, Silent, NEW r \in replies, Return(r)
  PROVE  Silent'
<1>1. /\ pending' = NULL /\ InFlight' = InFlight /\ doubtful' = doubtful /\ loose' = loose
      /\ believed' = Shown(r)
  BY DEF Return, InFlight, Shown
<1>2. \A q \in Dark : Shown(r)[q] = Unknown
  BY DEF Shown, Believed, Dark, TypeOK
<1>3. Dark \subseteq Dark'
  BY <1>1, <1>2 DEF Dark
<1>4. \A m \in InFlight : ~Current(m)
  BY DEF Once, Current
<1> QED BY <1>1, <1>3, <1>4 DEF Silent

LEMMA SilentGiveUp ==
  ASSUME TypeOK, Numbered, Silent, GiveUp
  PROVE  Silent'
<1> DEFINE new == {pending.path} \cup IF pending.op = "truncate" THEN {Glued[pending.path]} ELSE {}
<1>1. /\ pending # NULL /\ pending' = NULL /\ InFlight' = InFlight /\ loose' = loose
      /\ doubtful' = doubtful \cup new
      /\ believed' = [q \in Paths |-> IF q \in new \cup loose THEN Unknown ELSE believed[q]]
  BY DEF GiveUp, InFlight
<1>2. new \cup loose \cup doubtful \subseteq Paths
  <2>1. pending.path \in Named
    BY <1>1 DEF TypeOK
  <2> QED BY <2>1, DataPathAssumption DEF TypeOK
<1> HIDE DEF new
<1>3. new \cup loose \cup doubtful \subseteq Dark'
  BY <1>1, <1>2 DEF Dark, Silent
<1>4. ASSUME NEW m \in InFlight PROVE Touched(m) \subseteq Dark'
  <2>1. CASE ~Current(m)
    BY <1>3, <2>1 DEF Silent, Dark
  <2>2. CASE Current(m)
    <3>1. m.op = pending.op /\ m.path = Sent(pending.op, pending.path) /\ m.target = pending.target
      BY <2>2 DEF Numbered
    <3>2. CASE m.op = "rename"
      BY <1>1, <1>3, <3>1, <3>2 DEF Touched, Looks, Silent, Sent
    <3>3. CASE m.op # "rename"
      BY <1>3, <3>1, <3>3 DEF Touched, Sent, new
    <3> QED BY <3>2, <3>3
  <2> QED BY <2>1, <2>2
<1> QED BY <1>1, <1>3, <1>4 DEF Silent

LEMMA SilentStep == TypeOK /\ Numbered /\ Once /\ Silent /\ [Next]_vars => Silent'
<1> SUFFICES ASSUME TypeOK, Numbered, Once, Silent, [Next]_vars PROVE Silent'
  OBVIOUS
<1>1. CASE DataNodeNext
  <2>1. ASSUME NEW n \in Nodes, StartNode(n) \/ MakeDirs(n) \/ Shutdown(n) PROVE Silent'
    BY <2>1, SilentKept DEF StartNode, MakeDirs, Shutdown, network, client, InFlight, Dark
  <2>2. ASSUME NEW f \in forwards, Serve(f) PROVE Silent'
    BY <2>2, SilentKept DEF Serve, client, InFlight, Dark
  <2> QED BY <1>1, <2>1, <2>2 DEF DataNodeNext
<1>2. CASE NameNodeNext
  <2>1. ASSUME NEW n \in Nodes, HandleJoin(n) PROVE Silent'
    BY <2>1, SilentKept DEF HandleJoin, network, client, InFlight, Dark
  <2>2. ASSUME NEW m \in requests, Local(m) PROVE Silent'
    BY <2>2, SilentKept DEF Local, client, InFlight, Dark
  <2>3. ASSUME NEW m \in requests, NEW n \in Nodes, Forward(m, n) PROVE Silent'
    BY <2>3, SilentKept DEF Forward, client, InFlight, Dark
  <2>4. CASE Restart
    <3>1. /\ InFlight' = InFlight /\ pending' = pending /\ doubtful' = doubtful /\ loose \subseteq loose'
          /\ \A q \in Paths : believed'[q] \in {Unknown, believed[q]}
      BY <2>4 DEF Restart, network, InFlight
    <3>2. Dark \subseteq Paths
      BY DEF Dark, TypeOK
    <3> QED BY <3>1, <3>2, SilentKept DEF Dark
  <2> QED BY <1>2, <2>1, <2>2, <2>3, <2>4 DEF NameNodeNext
<1>3. CASE ClientNext
  <2>1. ASSUME NEW op \in Ops, NEW p \in Named, NEW d \in Data \cup {Empty}, NEW to \in Named,
               Call(op, p, d, to)
        PROVE  Silent'
    <3>1. /\ pending = NULL /\ pending' # NULL /\ pending'.id = calls + 1
          /\ pending'.op = op /\ pending'.path = p /\ pending'.target = to
      BY <2>1, CallSends
    <3>2. PICK sent : InFlight' = InFlight \cup {sent} /\ sent.id = calls + 1
      BY <2>1, CallSends
    <3>3. /\ loose' = IF op = "rename" THEN loose \cup {p, to} \cup Below(p) \cup Below(to) ELSE loose
          /\ doubtful' = doubtful /\ believed' = believed
      BY <2>1 DEF Call
    <3>4. Dark \subseteq Dark'
      BY <3>3 DEF Dark
    <3>5. \A m \in InFlight : Touched(m) \subseteq Dark
      BY <3>1 DEF Silent, Current
    <3> QED BY <3>1, <3>2, <3>3, <3>4, <3>5 DEF Silent, Current
  <2>2. CASE GiveUp
    BY <2>2, SilentGiveUp
  <2> QED BY <1>3, <2>1, <2>2, SilentReturn DEF ClientNext
<1>4. CASE UNCHANGED vars
  BY <1>4, SilentKept DEF vars, network, client, InFlight, Dark
<1> QED BY <1>1, <1>2, <1>3, <1>4 DEF Next
-----------------------------------------------------------------------------
(* Directories.                                                             *)

LEMMA NestedInit == Init => Nested
BY SetsOfHosts, EntryTypes DEF Init, Nested, NestedTree

LEMMA NestedServe ==
  ASSUME TypeOK, Numbered, Nested, NEW f \in forwards, Serve(f)
  PROVE  Nested'
<1>1. PICK o \in Outcomes(disk[f.to], f.msg) : disk' = [disk EXCEPT ![f.to] = o.tree]
  BY DEF Serve
<1>2. f.msg \in InFlight /\ f.to \in Nodes /\ disk[f.to] \in Trees
  BY SetsOfHosts DEF TypeOK, InFlight
<1>3. NestedTree(o.tree)
  BY <1>2, InFlightType, NestedKept DEF Nested, Numbered
<1>4. \A n \in Nodes : disk'[n] = IF n = f.to THEN o.tree ELSE disk[n]
  BY <1>1, SetsOfHosts DEF TypeOK
<1> QED BY <1>3, <1>4 DEF Nested

LEMMA NestedStep == TypeOK /\ Numbered /\ Nested /\ [Next]_vars => Nested'
<1> SUFFICES ASSUME TypeOK, Numbered, Nested, [Next]_vars PROVE Nested'
  OBVIOUS
<1>1. ASSUME disk' = disk PROVE Nested'
  BY <1>1 DEF Nested
<1>2. CASE DataNodeNext
  <2>1. ASSUME NEW n \in Nodes, MakeDirs(n) PROVE Nested'
    <3>1. \A k \in Nodes : disk[k] \in [Names -> Entries] /\ k \in Hosts
      BY SetsOfHosts DEF TypeOK, Trees
    <3>2. \A k \in Nodes, q \in Paths \ {Root} : disk'[k][q] = disk[k][q]
      BY <2>1, <3>1, EntryTypes DEF MakeDirs, TypeOK
    <3>3. \A q \in Paths \ {Root} : Parent[q] \in Paths
      BY DataNodeAssumption
    <3> QED BY <3>2, <3>3 DEF Nested, NestedTree
  <2>2. ASSUME NEW n \in Nodes, StartNode(n) \/ Shutdown(n) PROVE Nested'
    BY <1>1, <2>2 DEF StartNode, Shutdown
  <2> QED BY <1>2, <2>1, <2>2, NestedServe DEF DataNodeNext
<1>3. CASE NameNodeNext
  <2>1. ASSUME NEW m \in requests, Local(m) PROVE Nested'
    <3>1. \A n \in Nodes : disk'[n] = disk[n]
      BY <2>1, SetsOfHosts DEF Local, TypeOK
    <3> QED BY <3>1 DEF Nested
  <2>2. ASSUME NEW n \in Nodes, HandleJoin(n) PROVE Nested'
    BY <1>1, <2>2 DEF HandleJoin, datanode
  <2>3. ASSUME NEW m \in requests, NEW n \in Nodes, Forward(m, n) PROVE Nested'
    BY <1>1, <2>3 DEF Forward, datanode
  <2>4. CASE Restart
    BY <1>1, <2>4 DEF Restart, datanode
  <2> QED BY <1>3, <2>1, <2>2, <2>3, <2>4 DEF NameNodeNext
<1>4. CASE ClientNext
  <2>1. disk' = disk
    <3>1. ASSUME NEW op, NEW p, NEW d, NEW to, Call(op, p, d, to) PROVE disk' = disk
      BY <3>1 DEF Call, datanode
    <3> QED BY <1>4, <3>1 DEF ClientNext, Return, GiveUp, datanode
  <2> QED BY <1>1, <2>1
<1>5. CASE UNCHANGED vars
  BY <1>1, <1>5 DEF vars, datanode
<1> QED BY <1>2, <1>3, <1>4, <1>5 DEF Next
-----------------------------------------------------------------------------
(* Beliefs.                                                                 *)

\* Who believes less of the same files agrees with them as well.
LEMMA AgreeLess ==
  ASSUME NEW dk, NEW dk2, NEW hm \in [Paths \ {Root} -> Nodes \cup {NULL}], NEW b, NEW b2,
         Agree(dk, hm, b),
         \A q \in Paths \ {Root} : b2[q] # Unknown =>
           b2[q] = b[q] /\ \A n \in Nodes : dk2[n][q] = dk[n][q]
  PROVE  Agree(dk2, hm, b2)
<1> SUFFICES ASSUME NEW q \in Paths \ {Root}, b2[q] # Unknown
             PROVE  AgreeAt(dk2, hm, b2, q)
  BY DEF Agree, AgreeAt
<1>1. b2[q] = b[q] /\ AgreeAt(dk, hm, b, q) /\ hm[q] \in Nodes \cup {NULL}
      /\ \A n \in Nodes : dk2[n][q] = dk[n][q]
  BY DEF Agree
<1> QED BY <1>1 DEF AgreeAt

\* A path with no home of which something is said has nothing anywhere.
LEMMA AgreePlace ==
  ASSUME NEW dk, NEW hm \in [Paths \ {Root} -> Nodes \cup {NULL}], NEW b, Agree(dk, hm, b),
         NEW p \in Paths \ {Root}, hm[p] = NULL, NEW n \in Nodes
  PROVE  Agree(dk, [hm EXCEPT ![p] = n], b)
<1> DEFINE hm2 == [hm EXCEPT ![p] = n]
<1> SUFFICES ASSUME NEW q \in Paths \ {Root} PROVE AgreeAt(dk, hm2, b, q)
  BY DEF Agree
<1>1. AgreeAt(dk, hm, b, q)
  BY DEF Agree
<1>2. CASE q # p
  BY <1>1, <1>2 DEF AgreeAt
<1>3. CASE q = p
  <2>1. hm2[p] = n /\ n # NULL
    BY SetsOfHosts
  <2>2. b[p] # Unknown => b[p] = Absent /\ \A k \in Nodes : dk[k][p] = Absent
    BY <1>1, <1>3, SetsOfHosts DEF AgreeAt
  <2> QED BY <1>3, <2>1, <2>2 DEF AgreeAt
<1> QED BY <1>2, <1>3

\* When the homes are forgotten, what is said of paths with nothing anywhere
\* stays true.
LEMMA AgreeForget ==
  ASSUME NEW dk, NEW hm \in [Paths \ {Root} -> Nodes \cup {NULL}], NEW b, NEW b2, Agree(dk, hm, b),
         \A q \in Paths \ {Root} : b2[q] # Unknown =>
           b2[q] = b[q] /\ \A n \in Nodes : dk[n][q] = Absent
  PROVE  Agree(dk, [q \in Paths \ {Root} |-> NULL], b2)
<1> SUFFICES ASSUME NEW q \in Paths \ {Root}, b2[q] # Unknown
             PROVE  b2[q] = Absent /\ \A n \in Nodes : dk[n][q] = Absent
  BY DEF Agree, AgreeAt
<1>1. b2[q] = b[q] /\ AgreeAt(dk, hm, b, q) /\ hm[q] \in Nodes \cup {NULL}
  BY DEF Agree
<1> QED BY <1>1 DEF AgreeAt

LEMMA ShownType ==
  ASSUME TypeOK, NEW r \in replies
  PROVE  \A q \in Dark : q \in Paths /\ Shown(r)[q] = Unknown
BY DEF Shown, Believed, Dark, TypeOK

LEMMA AgreedInit == Init => Agreed
<1> SUFFICES ASSUME Init PROVE Agreed
  OBVIOUS
<1>1. \A n \in Nodes, q \in Paths : disk[n][q] = Absent
  BY SetsOfHosts, EntryTypes DEF Init
<1>2. \A q \in Paths \ {Root} : home[q] = NULL /\ believed[q] = Absent
  BY DEF Init, D!DirInit, D!NoHomes, D!Placeable
<1> QED BY <1>1, <1>2 DEF Agreed, Agree, AgreeAt, Init

\* Steps that change no file but at dark paths, and no belief.
LEMMA AgreedKept ==
  ASSUME TypeOK, Agreed, home' = home, replies' = replies, pending' = pending,
         loose' = loose, doubtful' = doubtful, believed' = believed,
         \A n \in Nodes, q \in Paths \ ({Root} \cup Dark) : disk'[n][q] = disk[n][q]
  PROVE  Agreed'
<1>1. home \in [Paths \ {Root} -> Nodes \cup {NULL}]
  BY DEF TypeOK
<1>2. replies = {} => Agree(disk', home', believed')
  <2> SUFFICES ASSUME replies = {} PROVE Agree(disk', home, believed)
    OBVIOUS
  <2>1. \A q \in Dark : believed[q] = Unknown
    BY DEF Dark
  <2> QED BY <1>1, <2>1, AgreeLess DEF Agreed
<1>3. ASSUME NEW r \in replies PROVE Agree(disk', home', Shown(r)')
  <2>1. Shown(r)' = Shown(r)
    BY DEF Shown, Believed, Result
  <2>2. Agree(disk', home, Shown(r))
    <3>1. \A q \in Paths \ {Root} : Shown(r)[q] # Unknown =>
            \A n \in Nodes : disk'[n][q] = disk[n][q]
      BY ShownType
    <3> QED BY <1>1, <3>1, AgreeLess DEF Agreed
  <2> QED BY <2>1, <2>2
<1> QED BY <1>2, <1>3 DEF Agreed

\* What a done call says of a path, if anything.
LEMMA BelievedIs ==
  ASSUME TypeOK, pending # NULL, NEW q \in Paths \ {Root}, Believed[q] # Unknown
  PROVE  /\ q \notin loose \cup doubtful
         /\ pending.op = "truncate" => q # Glued[pending.path]
         /\ q # pending.path => Believed[q] = believed[q]
         /\ q = pending.path => Believed[q] = Result
BY DEF Believed

LEMMA ResultIs ==
  /\ pending.op \notin Single \ {"truncate"} => Result = believed[pending.path]
  /\ pending.op \in Single \ {"truncate"} /\ Result # Unknown => Result = Entry(pending)
BY DEF Result, Entry, Stored, Single, Creates, Changes

\* The operation of the pending call, done at datanode f.to, makes true what the
\* client will believe.
LEMMA ServeAgrees ==
  ASSUME TypeOK, PlacedWhereStored, PlacedWhereStored', Numbered, Silent,
         Agree(disk, home, believed), NEW f \in forwards, Current(f.msg),
         NEW o \in Outcomes(disk[f.to], f.msg), o.ok,
         disk' = [disk EXCEPT ![f.to] = o.tree], home' = home, loose' = loose
  PROVE  Agree(disk', home, Believed)
<1> DEFINE m == f.msg
<1> SUFFICES ASSUME NEW q \in Paths \ {Root}, Believed[q] # Unknown
             PROVE  AgreeAt(disk', home, Believed, q)
  BY DEF Agree, AgreeAt
<1>1. /\ m \in InFlight /\ pending # NULL
      /\ m.op = pending.op /\ m.path = Sent(pending.op, pending.path)
      /\ m.data = pending.data /\ m.target = pending.target
  BY DEF InFlight, Numbered, Current
<1>2. m \in Asked /\ f.to \in Nodes /\ disk[f.to] \in Trees
  BY <1>1, InFlightType, SetsOfHosts DEF TypeOK
<1>3. \A n \in Nodes : disk'[n] = IF n = f.to THEN o.tree ELSE disk[n]
  BY SetsOfHosts DEF TypeOK
<1>4. q \in Names
  BY EntryTypes
<1> HIDE DEF m
<1>5. CASE q = pending.path /\ pending.op \in Single \ {"truncate"}
  <2>1. m.path = q /\ m.op \in Single
    BY <1>1, <1>5 DEF Sent
  <2>2. Believed[q] = Entry(m)
    <3>1. Entry(m) = Entry(pending)
      BY <1>1 DEF Entry
    <3> QED BY <1>1, <1>5, <3>1, BelievedIs, ResultIs
  <2>3. o.tree[q] = Entry(m) /\ (m.op \in Changes => disk[f.to][q] # Absent)
    BY <1>2, <2>1, SingleDone DEF m
  <2>4. q \notin loose
    BY <1>1, BelievedIs
  <2>5. home[q] = f.to
    <3>1. CASE m.op \in Creates
      <4>1. Entry(m) # Absent
        BY <3>1, EntryTypes DEF Entry, Creates
      <4> QED BY <1>2, <1>3, <2>3, <2>4, <4>1 DEF PlacedWhereStored
    <3>2. CASE m.op \in Changes
      BY <1>2, <2>3, <2>4, <3>2 DEF PlacedWhereStored
    <3> QED BY <2>1, <3>1, <3>2 DEF Single
  <2>6. \A n \in Nodes : disk'[n][q] # Absent => home[q] = n
    BY <2>4 DEF PlacedWhereStored
  <2> QED BY <1>2, <1>3, <2>2, <2>3, <2>5, <2>6, SetsOfHosts DEF AgreeAt
<1>6. CASE q # pending.path \/ pending.op \notin Single \ {"truncate"}
  <2>1. Believed[q] = believed[q]
    BY <1>1, <1>6, BelievedIs, ResultIs
  <2>2. q \notin Touched(m)
    <3>1. q \notin loose /\ (pending.op = "truncate" => q # Glued[pending.path])
      BY <1>1, BelievedIs
    <3>2. CASE m.op = "rename"
      BY <1>1, <3>1, <3>2 DEF Touched, Looks, Silent, Sent
    <3>3. CASE m.op \in Looks
      BY <3>3 DEF Touched
    <3>4. CASE m.op \in Single
      <4>1. m.path # q
        BY <1>1, <1>6, <3>1, <3>4 DEF Sent
      <4> QED BY <3>4, <4>1 DEF Touched, Single, Creates, Changes
    <3> QED BY <1>2, <3>2, <3>3, <3>4, OpKinds
  <2>3. o.tree[q] = disk[f.to][q]
    BY <1>2, <1>4, <2>2, OutcomeTouches DEF m
  <2>4. \A n \in Nodes : disk'[n][q] = disk[n][q]
    BY <1>3, <2>3
  <2>5. AgreeAt(disk, home, believed, q) /\ home[q] \in Nodes \cup {NULL}
    BY DEF Agree, TypeOK
  <2> QED BY <2>1, <2>4, <2>5 DEF AgreeAt
<1> QED BY <1>5, <1>6

LEMMA AgreedServe ==
  ASSUME TypeOK, PlacedWhereStored, PlacedWhereStored', Numbered, Once, Silent, Agreed,
         NEW f \in forwards, Serve(f)
  PROVE  Agreed'
<1>1. PICK o \in Outcomes(disk[f.to], f.msg) :
        disk' = [disk EXCEPT ![f.to] = o.tree] /\ replies' = Answered(f.msg, o, f.to)
  BY DEF Serve
<1>2. /\ home' = home /\ pending' = pending /\ loose' = loose /\ doubtful' = doubtful
      /\ believed' = believed
  BY DEF Serve, namenode, client
<1>3. f.msg \in InFlight /\ f.msg \in Asked /\ f.to \in Nodes /\ disk[f.to] \in Trees
  BY InFlightType, SetsOfHosts DEF TypeOK, InFlight
<1>4. \A n \in Nodes : disk'[n] = IF n = f.to THEN o.tree ELSE disk[n]
  BY <1>1, SetsOfHosts DEF TypeOK
<1>5. CASE ~Current(f.msg)
  <2>1. replies' = replies
    BY <1>1, <1>5 DEF Answered, Current
  <2>2. Touched(f.msg) \subseteq Dark
    BY <1>3, <1>5 DEF Silent
  <2>3. \A q \in Paths \ ({Root} \cup Dark) : o.tree[q] = disk[f.to][q]
    BY <1>3, <2>2, OutcomeTouches, EntryTypes
  <2> QED BY <1>2, <1>4, <2>1, <2>3, AgreedKept
<1>6. CASE Current(f.msg)
  <2> DEFINE r == [id |-> f.msg.id, ok |-> o.ok, data |-> o.data, names |-> o.names, by |-> f.to]
  <2>1. replies' = {r} /\ r.ok = o.ok /\ r.by # NN
    BY <1>1, <1>3, <1>6, SetsOfHosts DEF Answered, Current
  <2>2. Agree(disk, home, believed)
    BY <1>3, <1>6 DEF Once, Current, Agreed
  <2> HIDE DEF r
  <2>3. Shown(r)' = IF o.ok THEN Believed ELSE believed
    BY <1>2, <2>1 DEF Shown, Believed, Result
  <2>4. CASE o.ok
    BY <1>1, <1>2, <1>6, <2>1, <2>2, <2>3, <2>4, ServeAgrees DEF Agreed
  <2>5. CASE ~o.ok
    <3>1. o.tree = disk[f.to]
      BY <1>3, <2>5, OutcomeTouches
    <3>2. \A n \in Nodes : disk'[n] = disk[n]
      BY <1>4, <3>1
    <3>3. Agree(disk', home, believed)
      BY <2>2, <3>2, AgreeLess DEF TypeOK
    <3> QED BY <1>2, <2>1, <2>3, <2>5, <3>3 DEF Agreed
  <2> QED BY <2>4, <2>5
<1> QED BY <1>5, <1>6

LEMMA AgreedLocal ==
  ASSUME TypeOK, Once, Agreed, NEW m \in requests, Local(m)
  PROVE  Agreed'
<1>1. PICK o : disk' = [disk EXCEPT ![NN] = o.tree] /\ replies' = Answered(m, o, NN)
  BY DEF Local
<1>2. /\ home' = home /\ pending' = pending /\ loose' = loose /\ doubtful' = doubtful
      /\ believed' = believed
  BY DEF Local, client, D!Answer
<1>3. \A n \in Nodes : disk'[n] = disk[n]
  BY <1>1, SetsOfHosts DEF TypeOK
<1>4. CASE ~Current(m)
  <2>1. replies' = replies
    BY <1>1, <1>4 DEF Answered, Current
  <2> QED BY <1>2, <1>3, <2>1, AgreedKept
<1>5. CASE Current(m)
  <2> DEFINE r == [id |-> m.id, ok |-> o.ok, data |-> o.data, names |-> o.names, by |-> NN]
  <2>1. replies' = {r} /\ r.by = NN
    BY <1>1, <1>5 DEF Answered, Current
  <2> HIDE DEF r
  <2>2. Agree(disk, home, believed)
    BY <1>5 DEF Once, Current, Agreed, InFlight
  <2>3. Agree(disk', home, believed)
    BY <1>3, <2>2, AgreeLess DEF TypeOK
  <2> QED BY <1>2, <2>1, <2>3 DEF Agreed, Shown
<1> QED BY <1>4, <1>5

LEMMA AgreedForward ==
  ASSUME TypeOK, Agreed, NEW m \in requests, NEW n \in Nodes, Forward(m, n)
  PROVE  Agreed'
<1>1. /\ disk' = disk /\ replies' = replies /\ pending' = pending /\ loose' = loose
      /\ doubtful' = doubtful /\ believed' = believed
  BY DEF Forward, datanode, client
<1>2. \/ home' = home
      \/ m.path \in Paths \ {Root} /\ home[m.path] = NULL /\ home' = [home EXCEPT ![m.path] = n]
  BY DEF Forward, D!Place, D!Route, TypeOK, Message
<1>3. \A r : Shown(r)' = Shown(r)
  BY <1>1 DEF Shown, Believed, Result
<1>4. ASSUME NEW b, Agree(disk, home, b) PROVE Agree(disk', home', b)
  <2>1. CASE home' = home
    BY <1>1, <1>4, <2>1
  <2>2. CASE /\ m.path \in Paths \ {Root} /\ home[m.path] = NULL
             /\ home' = [home EXCEPT ![m.path] = n]
    <3>1. home \in [Paths \ {Root} -> Nodes \cup {NULL}]
      BY DEF TypeOK
    <3>2. Agree(disk, [home EXCEPT ![m.path] = n], b)
      BY <1>4, <2>2, <3>1, AgreePlace
    <3> QED BY <1>1, <2>2, <3>2
  <2> QED BY <1>2, <2>1, <2>2
<1> QED BY <1>1, <1>3, <1>4 DEF Agreed

LEMMA AgreedRestart ==
  ASSUME TypeOK, Agreed, Restart
  PROVE  Agreed'
<1> DEFINE lost == {q \in Paths : \E n \in Nodes : disk[n][q] # Absent}
                     \cup {f.msg.path : f \in forwards}
<1>1. /\ disk' = disk /\ replies' = replies /\ pending' = pending /\ doubtful' = doubtful
      /\ loose' = loose \cup lost
      /\ believed' = [q \in Paths |-> IF q \in lost THEN Unknown ELSE believed[q]]
      /\ home' = [q \in Paths \ {Root} |-> NULL]
  BY DEF Restart, datanode, network, D!Forget, D!NoHomes, D!Placeable
<1>2. \A q \in Paths \ lost, n \in Nodes : disk[n][q] = Absent
  OBVIOUS
<1> HIDE DEF lost
<1>3. ASSUME NEW b, NEW b2, Agree(disk, home, b),
             \A q \in Paths \ {Root} : b2[q] # Unknown => q \notin lost /\ b2[q] = b[q]
      PROVE  Agree(disk', home', b2)
  BY <1>1, <1>2, <1>3, AgreeForget DEF TypeOK
<1>4. \A q \in Paths : believed'[q] # Unknown => q \notin lost /\ believed'[q] = believed[q]
  BY <1>1
<1>5. ASSUME NEW r \in replies
      PROVE  \A q \in Paths : Shown(r)'[q] # Unknown => q \notin lost /\ Shown(r)'[q] = Shown(r)[q]
  <2>1. CASE r.ok /\ r.by # NN
    <3> SUFFICES ASSUME NEW q \in Paths, Believed'[q] # Unknown
                 PROVE  q \notin lost /\ Believed'[q] = Believed[q]
      BY <2>1 DEF Shown
    <3>1. q \notin loose' \cup doubtful
      BY <1>1 DEF Believed
    <3>2. q \notin lost
      BY <1>1, <3>1
    <3>3. believed'[q] = believed[q]
      BY <1>1, <3>2
    <3>4. q = pending.path => Result' = Result
      BY <1>1, <3>2, <3>3 DEF Result
    <3> QED BY <1>1, <3>2, <3>3, <3>4 DEF Believed
  <2>2. CASE ~(r.ok /\ r.by # NN)
    BY <1>4, <2>2 DEF Shown
  <2> QED BY <2>1, <2>2
<1>6. replies' = {} => Agree(disk', home', believed')
  BY <1>1, <1>3, <1>4 DEF Agreed
<1>7. ASSUME NEW r \in replies PROVE Agree(disk', home', Shown(r)')
  BY <1>3, <1>5, <1>7 DEF Agreed
<1> QED BY <1>1, <1>6, <1>7 DEF Agreed

LEMMA AgreedReturn ==
  ASSUME Once, Agreed, NEW r \in replies, Return(r)
  PROVE  Agreed'
<1>1. replies' = {} /\ believed' = Shown(r) /\ disk' = disk /\ home' = home
  BY DEF Return, Once, Shown, datanode, namenode
<1> QED BY <1>1 DEF Agreed

LEMMA AgreedGiveUp ==
  ASSUME TypeOK, Once, Silent, Agreed, GiveUp
  PROVE  Agreed'
<1> DEFINE new == {pending.path} \cup IF pending.op = "truncate" THEN {Glued[pending.path]} ELSE {}
<1>1. /\ replies' = {} /\ disk' = disk /\ home' = home
      /\ believed' = [q \in Paths |-> IF q \in new \cup loose THEN Unknown ELSE believed[q]]
  BY DEF GiveUp, datanode, namenode
<1>2. home \in [Paths \ {Root} -> Nodes \cup {NULL}]
  BY DEF TypeOK
<1>3. CASE replies = {}
  <2>1. Agree(disk, home, believed')
    BY <1>1, <1>2, <1>3, AgreeLess DEF Agreed
  <2> QED BY <1>1, <2>1 DEF Agreed
<1>4. CASE replies # {}
  <2>1. PICK r \in replies : Agree(disk, home, Shown(r))
    BY <1>4 DEF Agreed
  <2>2. ASSUME NEW q \in Paths, believed'[q] # Unknown
        PROVE  believed'[q] = Shown(r)[q]
    <3>1. q \notin new /\ q \notin loose /\ believed'[q] = believed[q] /\ believed[q] # Unknown
      BY <1>1, <2>2
    <3>2. q \notin doubtful
      BY <3>1 DEF Silent, Dark
    <3> QED BY <3>1, <3>2 DEF Shown, Believed
  <2>3. Agree(disk, home, believed')
    BY <1>2, <2>1, <2>2, AgreeLess
  <2> QED BY <1>1, <2>3 DEF Agreed
<1> QED BY <1>3, <1>4

LEMMA AgreedStep ==
  /\ TypeOK /\ PlacedWhereStored /\ PlacedWhereStored' /\ Numbered /\ Once /\ Silent /\ Agreed
  /\ [Next]_vars
  => Agreed'
<1> SUFFICES ASSUME TypeOK, PlacedWhereStored, PlacedWhereStored', Numbered, Once, Silent, Agreed,
                    [Next]_vars
             PROVE  Agreed'
  OBVIOUS
<1>1. CASE DataNodeNext
  <2>1. ASSUME NEW n \in Nodes, MakeDirs(n) PROVE Agreed'
    <3>1. \A k \in Nodes, q \in Paths \ {Root} : disk'[k][q] = disk[k][q]
      <4>1. \A k \in Nodes : disk[k] \in [Names -> Entries] /\ k \in Hosts
        BY SetsOfHosts DEF TypeOK, Trees
      <4> QED BY <2>1, <4>1, EntryTypes DEF MakeDirs, TypeOK
    <3> QED BY <2>1, <3>1, AgreedKept DEF MakeDirs, namenode, network, client
  <2>2. ASSUME NEW n \in Nodes, StartNode(n) \/ Shutdown(n) PROVE Agreed'
    BY <2>2, AgreedKept DEF StartNode, Shutdown, namenode, network, client
  <2> QED BY <1>1, <2>1, <2>2, AgreedServe DEF DataNodeNext
<1>2. CASE NameNodeNext
  <2>1. ASSUME NEW n \in Nodes, HandleJoin(n) PROVE Agreed'
    BY <2>1, AgreedKept DEF HandleJoin, D!Register, datanode, network, client
  <2> QED BY <1>2, <2>1, AgreedLocal, AgreedForward, AgreedRestart DEF NameNodeNext
<1>3. CASE ClientNext
  <2>1. ASSUME NEW op \in Ops, NEW p \in Named, NEW d \in Data \cup {Empty}, NEW to \in Named,
               Call(op, p, d, to)
        PROVE  Agreed'
    <3>1. pending = NULL /\ replies' = replies
      BY <2>1, CallSends
    <3>2. replies = {}
      BY <3>1 DEF Once
    <3>3. disk' = disk /\ home' = home /\ believed' = believed
      BY <2>1 DEF Call, namenode, datanode
    <3> QED BY <3>1, <3>2, <3>3 DEF Agreed
  <2> QED BY <1>3, <2>1, AgreedReturn, AgreedGiveUp DEF ClientNext
<1>4. CASE UNCHANGED vars
  BY <1>4, AgreedKept DEF vars, namenode, datanode, network, client
<1> QED BY <1>1, <1>2, <1>3, <1>4 DEF Next
-----------------------------------------------------------------------------
(* Answers.                                                                 *)

\* A listing of directory p by datanode h: its entries are all on h.
LEMMA ListingAgrees ==
  ASSUME TypeOK, PlacedWhereStored, Nested, Agree(disk, home, believed), NEW h \in Nodes,
         NEW p \in Paths \ ({Root} \cup loose), disk[h][p] = Dir,
         NEW q \in Below(p), believed[q] # Unknown
  PROVE  q \in Children(disk[h], p) <=> believed[q] # Absent
<1>1. q \in Paths \ {Root} /\ Parent[q] = p
  BY DEF Below
<1>2. AgreeAt(disk, home, believed, q) /\ home[q] \in Nodes \cup {NULL}
  BY <1>1 DEF Agree, TypeOK
<1>3. home[p] = h
  BY EntryTypes DEF PlacedWhereStored
<1>4. ASSUME disk[h][q] # Absent PROVE believed[q] # Absent
  BY <1>2, <1>4, SetsOfHosts DEF AgreeAt
<1>5. ASSUME believed[q] # Absent PROVE disk[h][q] # Absent
  <2>1. home[q] \in Nodes /\ disk[home[q]][q] # Absent
    BY <1>2, <1>5 DEF AgreeAt
  <2>2. disk[home[q]][p] = Dir
    BY <1>1, <2>1 DEF Nested, NestedTree
  <2>3. home[p] = home[q]
    BY <2>1, <2>2, EntryTypes DEF PlacedWhereStored
  <2> QED BY <1>3, <2>1, <2>3
<1> QED BY <1>4, <1>5 DEF Children

LEMMA AnswersKept ==
  ASSUME AnswersAgree, replies' = replies, pending' = pending, loose' = loose, believed' = believed
  PROVE  AnswersAgree'
BY DEF AnswersAgree

LEMMA AnswersServe ==
  ASSUME TypeOK, PlacedWhereStored, Numbered, Once, Agreed, Nested, AnswersAgree,
         NEW f \in forwards, Serve(f)
  PROVE  AnswersAgree'
<1> DEFINE m == f.msg
<1>1. PICK o \in Outcomes(disk[f.to], m) : replies' = Answered(m, o, f.to)
  BY DEF Serve
<1>2. pending' = pending /\ loose' = loose /\ believed' = believed
  BY DEF Serve, client
<1>3. m \in InFlight /\ m \in Asked /\ f.to \in Nodes /\ disk[f.to] \in Trees
  BY InFlightType, SetsOfHosts DEF TypeOK, InFlight
<1>4. CASE ~Current(m)
  BY <1>1, <1>2, <1>4, AnswersKept DEF Answered, Current
<1>5. CASE Current(m)
  <2> DEFINE r == [id |-> m.id, ok |-> o.ok, data |-> o.data, names |-> o.names, by |-> f.to]
  <2>1. replies' = {r} /\ r.ok = o.ok /\ r.data = o.data /\ r.names = o.names
    BY <1>1, <1>5 DEF Answered, Current
  <2>2. Agree(disk, home, believed)
    BY <1>3, <1>5 DEF Once, Current, Agreed
  <2>3. /\ pending # NULL /\ m.op = pending.op /\ m.path = Sent(pending.op, pending.path)
        /\ pending.path = Root => pending.op \in RootOps
        /\ pending.path \in Paths
    BY <1>3, <1>5, DataPathAssumption DEF Numbered, Current, TypeOK
  <2> HIDE DEF r, m
  <2>4. ASSUME o.ok, pending.op = "read", believed[pending.path] # Unknown
        PROVE  o.data = believed[pending.path]
    <3>1. m.op = "read" /\ m.path = pending.path /\ m.path \in Paths \ {Root}
      BY <2>3, <2>4 DEF Sent, RootOps
    <3>2. o.data = disk[f.to][m.path] /\ disk[f.to][m.path] # Absent
      BY <1>3, <2>4, <3>1, SingleDone, EntryTypes DEF m
    <3>3. AgreeAt(disk, home, believed, m.path)
      BY <2>2, <3>1 DEF Agree
    <3> QED BY <1>3, <2>4, <3>1, <3>2, <3>3, SetsOfHosts DEF AgreeAt
  <2>5. ASSUME o.ok, pending.op = "readdir", pending.path \notin {Root} \cup loose,
               NEW q \in Below(pending.path), believed[q] # Unknown
        PROVE  q \in o.names <=> believed[q] # Absent
    <3>1. m.op = "readdir" /\ m.path = pending.path
      BY <2>3, <2>5 DEF Sent
    <3>2. o.names = Children(disk[f.to], m.path) /\ disk[f.to][m.path] = Dir
      BY <1>3, <2>5, <3>1, SingleDone DEF m
    <3> QED BY <1>3, <2>2, <2>3, <2>5, <3>1, <3>2, ListingAgrees
  <2> QED BY <1>2, <2>1, <2>4, <2>5 DEF AnswersAgree
<1> QED BY <1>4, <1>5

LEMMA AnswersLocal ==
  ASSUME AnswersAgree, NEW m \in requests, Local(m)
  PROVE  AnswersAgree'
<1>1. /\ pending' = pending /\ loose' = loose /\ believed' = believed
      /\ \E o : replies' = Answered(m, o, NN)
  BY DEF Local, client
<1>2. replies' = replies \/ \A r \in replies' : r.by = NN
  BY <1>1 DEF Answered
<1> QED BY <1>1, <1>2 DEF AnswersAgree

LEMMA AnswersStep ==
  /\ TypeOK /\ PlacedWhereStored /\ Numbered /\ Once /\ Agreed /\ Nested /\ AnswersAgree
  /\ [Next]_vars
  => AnswersAgree'
<1> SUFFICES ASSUME TypeOK, PlacedWhereStored, Numbered, Once, Agreed, Nested, AnswersAgree,
                    [Next]_vars
             PROVE  AnswersAgree'
  OBVIOUS
<1>1. CASE DataNodeNext
  <2>1. ASSUME NEW n \in Nodes, StartNode(n) \/ MakeDirs(n) \/ Shutdown(n) PROVE AnswersAgree'
    BY <2>1, AnswersKept DEF StartNode, MakeDirs, Shutdown, network, client
  <2> QED BY <1>1, <2>1, AnswersServe DEF DataNodeNext
<1>2. CASE NameNodeNext
  <2>1. ASSUME NEW n \in Nodes, HandleJoin(n) PROVE AnswersAgree'
    BY <2>1, AnswersKept DEF HandleJoin, network, client
  <2>2. ASSUME NEW m \in requests, NEW n \in Nodes, Forward(m, n) PROVE AnswersAgree'
    BY <2>2, AnswersKept DEF Forward, client
  <2>3. CASE Restart
    <3>1. /\ replies' = replies /\ pending' = pending /\ loose \subseteq loose'
          /\ \A q \in Paths : believed'[q] \in {Unknown, believed[q]}
      BY <2>3 DEF Restart, network
    <3>2. \A q : Below(q) \subseteq Paths
      BY DEF Below
    <3>3. pending # NULL => pending.path \in Paths
      BY DataPathAssumption DEF TypeOK
    <3> QED BY <3>1, <3>2, <3>3 DEF AnswersAgree
  <2> QED BY <1>2, <2>1, <2>2, <2>3, AnswersLocal DEF NameNodeNext
<1>3. CASE ClientNext
  <2>1. ASSUME NEW op \in Ops, NEW p \in Named, NEW d \in Data \cup {Empty}, NEW to \in Named,
               Call(op, p, d, to)
        PROVE  AnswersAgree'
    BY <2>1, CallSends DEF Once, AnswersAgree
  <2>2. ASSUME NEW r \in replies, Return(r) PROVE AnswersAgree'
    BY <2>2 DEF Return, AnswersAgree
  <2>3. CASE GiveUp
    BY <2>3 DEF GiveUp, AnswersAgree
  <2> QED BY <1>3, <2>1, <2>2, <2>3 DEF ClientNext
<1>4. CASE UNCHANGED vars
  BY <1>4, AnswersKept DEF vars, network, client
<1> QED BY <1>1, <1>2, <1>3, <1>4 DEF Next
-----------------------------------------------------------------------------
LEMMA StoreInit == Init => StoreInv
<1>1. Init => AnswersAgree
  BY DEF Init, AnswersAgree
<1> QED BY <1>1, NumberedInit, OnceInit, SilentInit, AgreedInit, NestedInit DEF StoreInv

LEMMA StoreStep ==
  TypeOK /\ PlaceInv /\ PlaceInv' /\ StoreInv /\ [Next]_vars => StoreInv'
<1>1. (PlaceInv => PlacedWhereStored) /\ (PlaceInv' => PlacedWhereStored')
  BY DEF PlaceInv
<1> QED BY <1>1, NumberedStep, OnceStep, SilentStep, AgreedStep, NestedStep, AnswersStep DEF StoreInv

LEMMA StoreInvariant == Spec => []StoreInv
<1>1. TypeOK /\ PlaceInv /\ StoreInv /\ [Next]_vars => TypeOK' /\ PlaceInv' /\ StoreInv'
  BY TypeStep, PlaceStep, StoreStep
<1> QED BY <1>1, TypeInit, PlaceInit, StoreInit, PTL DEF Spec

\* Whatever messages are lost, late or overtaken, whichever processes end and
\* start again and whichever calls give up, when the client waits in no call what
\* the answers of the datanodes said is what the home of each path stores: the
\* loops of receivecommand_datanode and receivecommand_namenode and the waiting
\* of src/client.c.
THEOREM BelievedIsStored == Spec => []StoreAgrees
<1>1. TypeOK /\ StoreInv => StoreAgrees
  <2> SUFFICES ASSUME TypeOK, StoreInv, pending = NULL, NEW p \in Paths \ {Root}
               PROVE  \/ believed[p] = Unknown
                      \/ believed[p] = Absent /\ home[p] = NULL
                      \/ home[p] # NULL /\ disk[home[p]][p] = believed[p]
    BY DEF StoreAgrees
  <2>1. replies = {}
    BY DEF StoreInv, Once
  <2>2. AgreeAt(disk, home, believed, p)
    BY <2>1 DEF StoreInv, Agreed, Agree
  <2> QED BY <2>2 DEF AgreeAt
<1> QED BY <1>1, DataPathTypeCorrect, StoreInvariant, PTL

\* What a datanode answers a read with is what was last written to the path, and
\* its listing of a directory below the mount point names its entries, those of
\* which something is known: sendresponse_read and sendresponse_readdir, sent to
\* the home the namenode has recorded.
THEOREM AnswersAreRight == Spec => []AnswersAgree
<1>1. StoreInv => AnswersAgree
  BY DEF StoreInv
<1> QED BY <1>1, StoreInvariant, PTL
=============================================================================
