-------------------------- MODULE CorefsServerProofs --------------------------
(***************************************************************************)
(* Theorems about the corefs server and its clients, for any number of     *)
(* clients, calls and nodes and any limit of the list.                     *)
(***************************************************************************)
EXTENDS CorefsServer, FiniteSetTheorems, FunctionTheorems, SequenceTheorems, WellFoundedInduction,
        TLAPS

\* Types, but for the list.
LinkType ==
  /\ holding \in [client : Clients, op : Ops, id : Calls] \cup {NULL}
  /\ mode \in {"up", "ended", "lost"}
  /\ conn \in [Clients -> {"none", "backlog", "open"}]
  /\ end \in [Clients -> {"none", "up", "closed", "reset"}]
  /\ toServer \in [Clients -> Seq(Packets)]
  /\ toClient \in [Clients -> Seq(Replies)]
  /\ pending \in [Clients -> [op : Ops, id : Calls, unsent : BOOLEAN] \cup {NULL}]
  /\ calls \in 0..MaxCalls
  /\ extra \in [Clients -> Nat]

Holds(c) == holding # NULL /\ holding.client = c
-----------------------------------------------------------------------------
(* Lemmas about the operations and about counting requests.                 *)

\* The operations with data are the ones whose handlers wait for it, and every
\* handler answers in a type its client understands.
Fits(type, op) == type \in {"ERROR", op.reply} \/ (type = "MOREDATA" /\ op = do_readdir)

LEMMA HandlersFit ==
  ASSUME NEW op \in Ops, NEW p, p.kind = "request", p.op = op,
         NEW type \in handle_command(p)
  PROVE  IF type = "wait" THEN op.data /\ op.reply = "STATUS"
         ELSE Fits(type, op) /\ type \in {"ERROR", "ATTR", "DATA", "MOREDATA", "STATUS"}
<1> USE DEF handle_command, Fits, Op
<1>1. op \in Operations
  BY CorefsServerAssumption
<1>2. CASE op = do_getattr
  BY <1>2 DEF handle_fileop, handle_getattr, do_getattr
<1>3. CASE op = do_read
  BY <1>3 DEF handle_fileop, handle_read, do_read
<1>4. CASE op = do_write
  BY <1>4 DEF handle_fileop, handle_write, do_write
<1>5. CASE op = do_readdir
  BY <1>5 DEF handle_fileop, handle_readdir, do_readdir
<1>6. CASE op = do_readlink
  BY <1>6 DEF handle_fileop, handle_readlink, do_readlink
<1>7. CASE op = do_setxattr
  BY <1>7 DEF handle_xattr, handle_setxattr, do_setxattr
<1>8. CASE op = do_removexattr
  BY <1>8 DEF handle_xattr, handle_removexattr, do_removexattr
<1>9. CASE op = simple_op
  BY <1>9 DEF handle_simple, simple_op
<1>10. ASSUME NEW size \in {0, 1}, op = do_getxattr(size)
       PROVE  Fits(type, op) /\ type \in {"DATA", "STATUS", "ERROR"}
  BY <1>10 DEF handle_xattr, handle_getxattr, do_getxattr
<1>11. ASSUME NEW size \in {0, 1}, op = do_listxattr(size)
       PROVE  Fits(type, op) /\ type \in {"DATA", "STATUS", "ERROR"}
  BY <1>11 DEF handle_xattr, handle_listxattr, do_listxattr
<1> QED
  BY <1>1, <1>2, <1>3, <1>4, <1>5, <1>6, <1>7, <1>8, <1>9, <1>10, <1>11 DEF Operations

LEMMA DataIsBoolean == \A op \in Ops : op.data \in BOOLEAN
<1> SUFFICES ASSUME NEW op \in Ops PROVE op.data \in BOOLEAN
  OBVIOUS
<1>1. op \in Operations
  BY CorefsServerAssumption
<1>2. \A size : do_getxattr(size).data = FALSE /\ do_listxattr(size).data = FALSE
  BY DEF do_getxattr, do_listxattr, Op
<1>3. /\ do_getattr.data = FALSE /\ do_read.data = FALSE /\ do_write.data = TRUE
      /\ do_readdir.data = FALSE /\ do_readlink.data = FALSE /\ do_setxattr.data = TRUE
      /\ do_removexattr.data = FALSE /\ simple_op.data = FALSE
  BY DEF do_getattr, do_read, do_write, do_readdir, do_readlink, do_setxattr, do_removexattr,
         simple_op, Op
<1> QED
  BY <1>1, <1>2, <1>3 DEF Operations

Requesting(s) == {i \in 1..Len(s) : s[i].kind = "request"}

LEMMA RequestsFinite ==
  ASSUME NEW s \in Seq(Packets)
  PROVE  /\ IsFiniteSet(Requesting(s)) /\ RequestsIn(s) = Cardinality(Requesting(s))
         /\ RequestsIn(s) \in Nat
<1>1. IsFiniteSet(1..Len(s))
  BY FS_Interval, LenProperties
<1> QED
  BY <1>1, FS_Subset, FS_CardinalityType DEF Requesting, RequestsIn

LEMMA NoRequests == RequestsIn(<<>>) = 0
<1>1. {i \in 1..Len(<<>>) : <<>>[i].kind = "request"} = {}
  OBVIOUS
<1> QED
  BY <1>1, FS_EmptySet DEF RequestsIn

LEMMA SomeRequest ==
  ASSUME NEW s \in Seq(Packets), NEW i \in 1..Len(s), s[i].kind = "request"
  PROVE  RequestsIn(s) >= 1
<1>1. Requesting(s) # {}
  BY DEF Requesting
<1> QED
  BY <1>1, RequestsFinite, FS_EmptySet

LEMMA AppendCounts ==
  ASSUME NEW s \in Seq(Packets), NEW p \in Packets
  PROVE  RequestsIn(Append(s, p)) = RequestsIn(s) + (IF p.kind = "request" THEN 1 ELSE 0)
<1> DEFINE t == Append(s, p)
<1>1. /\ t \in Seq(Packets) /\ Len(t) = Len(s) + 1 /\ t[Len(s) + 1] = p
      /\ \A i \in 1..Len(s) : t[i] = s[i]
  BY AppendProperties
<1>2. Len(s) \in Nat
  BY LenProperties
<1> HIDE DEF t
<1>3. Requesting(t) = IF p.kind = "request" THEN Requesting(s) \cup {Len(s) + 1} ELSE Requesting(s)
  BY <1>1, <1>2 DEF Requesting
<1>4. Len(s) + 1 \notin Requesting(s)
  BY <1>2 DEF Requesting
<1>5. RequestsIn(t) = RequestsIn(s) + (IF p.kind = "request" THEN 1 ELSE 0)
  BY <1>1, <1>3, <1>4, RequestsFinite, FS_AddElement
<1> QED
  BY <1>5 DEF t

\* A packet taken from the front is counted no more.
LEMMA TailCounts ==
  ASSUME NEW s \in Seq(Packets), s # <<>>
  PROVE  RequestsIn(s) = RequestsIn(Tail(s)) + (IF Head(s).kind = "request" THEN 1 ELSE 0)
<1> DEFINE t == Tail(s)
           later == Requesting(s) \ {1}
           f == [i \in Requesting(t) |-> i + 1]
<1>1. /\ t \in Seq(Packets) /\ Len(t) = Len(s) - 1 /\ \A i \in 1..Len(t) : t[i] = s[i + 1]
      /\ Len(s) \in Nat /\ Len(s) >= 1 /\ Head(s) = s[1]
  BY HeadTailProperties, LenProperties, EmptySeq
<1> HIDE DEF t
<1>2. \A i \in Requesting(t) : i \in Nat /\ i + 1 \in later
  BY <1>1 DEF Requesting
<1>3. \A j \in later : j \in Nat /\ j - 1 \in Requesting(t) /\ (j - 1) + 1 = j
  BY <1>1 DEF Requesting
<1>4. f \in Bijection(Requesting(t), later)
  <2>1. f \in [Requesting(t) -> later]
    BY <1>2
  <2>2. \A i, j \in Requesting(t) : f[i] = f[j] => i = j
    BY <1>2
  <2>3. \A j \in later : \E i \in Requesting(t) : f[i] = j
    BY <1>3
  <2> QED
    BY <2>1, <2>2, <2>3, Fun_IsBij
<1>5. Cardinality(later) = Cardinality(Requesting(t))
  BY <1>1, <1>4, RequestsFinite, FS_Bijection DEF ExistsBijection
<1>6. 1 \in Requesting(s) <=> Head(s).kind = "request"
  BY <1>1 DEF Requesting
<1>7. /\ RequestsIn(s) = Cardinality(Requesting(s)) /\ RequestsIn(s) \in Nat
      /\ RequestsIn(t) = Cardinality(Requesting(t))
      /\ IsFiniteSet(Requesting(s))
  BY <1>1, RequestsFinite
<1>8. Cardinality(later) =
        IF 1 \in Requesting(s) THEN Cardinality(Requesting(s)) - 1 ELSE Cardinality(Requesting(s))
  BY <1>7, FS_RemoveElement
<1> HIDE DEF later
<1>9. RequestsIn(s) = RequestsIn(t) + (IF Head(s).kind = "request" THEN 1 ELSE 0)
  BY <1>5, <1>6, <1>7, <1>8
<1> QED
  BY <1>9 DEF t
-----------------------------------------------------------------------------
(* The inductive invariant, client by client.                               *)

\* Requests not answered yet.
Owed(c) == RequestsIn(toServer[c]) + (IF Holds(c) THEN 1 ELSE 0)

Sending(call, id) == call # NULL /\ call.unsent /\ call.id = id

\* Behind a request with data comes its data, or nothing yet.
Paired(packets, up, call) ==
  \A i \in 1..Len(packets) :
    packets[i].kind = "request" /\ packets[i].op.data =>
      \/ /\ i < Len(packets)
         /\ packets[i + 1].kind = "data" /\ packets[i + 1].id = packets[i].id
      \/ i = Len(packets) /\ (up => Sending(call, packets[i].id))

OnlyOf(packets, call) ==
  \A i \in 1..Len(packets) :
    packets[i].kind = "request" => packets[i].id = call.id /\ packets[i].op = call.op

RepliesTo(replies, call) ==
  \A i \in 1..Len(replies) : replies[i].id = call.id /\ Fits(replies[i].type, call.op)

QuietInv(c) ==
  /\ end[c] # "up" => pending[c] = NULL /\ toClient[c] = <<>>
  /\ conn[c] = "none" => end[c] = "none" /\ toServer[c] = <<>> /\ extra[c] = 0

PairInv(c) == Paired(toServer[c], end[c] = "up", pending[c])

HoldInv(c) ==
  Holds(c) =>
    /\ conn[c] = "open" /\ holding.op.reply = "STATUS"
    /\ \/ Ended(c)
       \/ toServer[c] # <<>> /\ Head(toServer[c]).kind = "data" /\ Head(toServer[c]).id = holding.id
       \/ toServer[c] = <<>> /\ Sending(pending[c], holding.id)

LagInv(c) ==
  mode # "ended" /\ end[c] = "up" =>
    Owed(c) + Len(toClient[c]) = extra[c] + (IF pending[c] = NULL THEN 0 ELSE 1)

\* A client that has ended behind no data taken for a command is owed one answer
\* at most, and none once its connection is reset.
LeftInv(c) ==
  mode # "ended" /\ end[c] # "up" /\ extra[c] = 0 => Owed(c) <= IF end[c] = "closed" THEN 1 ELSE 0

OwnInv(c) ==
  end[c] = "up" /\ extra[c] = 0 /\ pending[c] # NULL =>
    /\ OnlyOf(toServer[c], pending[c])
    /\ Holds(c) => holding.id = pending[c].id /\ holding.op = pending[c].op
    /\ RepliesTo(toClient[c], pending[c])

ClientInv(c) ==
  QuietInv(c) /\ PairInv(c) /\ HoldInv(c) /\ LagInv(c) /\ LeftInv(c) /\ OwnInv(c)

LinkInv == LinkType /\ \A c \in Clients : ClientInv(c)
-----------------------------------------------------------------------------
LEMMA TypeStep == LinkType /\ [Next]_vars => LinkType'
<1> SUFFICES ASSUME LinkType, [Next]_vars PROVE LinkType'
  OBVIOUS
<1> USE CorefsServerAssumption DEF LinkType, Calls
<1>1. CASE UNCHANGED vars
  BY <1>1 DEF vars, link
<1>2. ASSUME NEW c \in Clients, NEW op \in Ops, Request(c, op)
      PROVE  /\ calls' \in 0..MaxCalls /\ toServer' \in [Clients -> Seq(Packets)]
             /\ pending' \in [Clients -> [op : Ops, id : Calls, unsent : BOOLEAN] \cup {NULL}]
  <2>1. op.data \in BOOLEAN
    BY DataIsBoolean
  <2>2. [kind |-> "request", op |-> op, id |-> calls + 1] \in Packets
    BY <1>2 DEF Request, Packets
  <2>3. Append(toServer[c], [kind |-> "request", op |-> op, id |-> calls + 1]) \in Seq(Packets)
    BY <2>2, AppendProperties
  <2> QED
    BY <1>2, <2>1, <2>3 DEF Request
<1>3. ASSUME NEW c \in Clients, Connect(c) PROVE LinkType'
  BY <1>3 DEF Connect
<1>4. ASSUME NEW c \in Clients, NEW op \in Ops, Call(c, op) PROVE LinkType'
  BY <1>2, <1>4 DEF Call
<1>5. ASSUME NEW c \in Clients, SendData(c) PROVE LinkType'
  <2>1. pending[c] \in [op : Ops, id : Calls, unsent : BOOLEAN]
    BY <1>5 DEF SendData
  <2>2. [kind |-> "data", op |-> pending[c].op, id |-> pending[c].id] \in Packets
    BY <2>1 DEF Packets
  <2>3. Append(toServer[c], [kind |-> "data", op |-> pending[c].op, id |-> pending[c].id])
          \in Seq(Packets)
    BY <2>2, AppendProperties
  <2> QED
    BY <1>5, <2>1, <2>3 DEF SendData
<1>6. ASSUME NEW c \in Clients, Answer(c) PROVE LinkType'
  <2>1. toClient' \in [Clients -> Seq(Replies)]
    <3>1. toClient[c] # <<>> => Tail(toClient[c]) \in Seq(Replies)
      BY HeadTailProperties
    <3> QED
      BY <1>6, <3>1 DEF Answer
  <2>2. do_readdir \in Ops \/ Returned(c)
    BY <1>6 DEF Answer, Waiting
  <2> QED
    BY <1>2, <1>6, <2>1, <2>2 DEF Answer, Returned
<1>7. ASSUME NEW c \in Clients, Close(c) PROVE LinkType'
  <2>1. <<>> \in Seq(Replies) /\ <<>> \in Seq(Packets)
    BY EmptySeq
  <2>2. toServer' \in [Clients -> Seq(Packets)] /\ toClient' \in [Clients -> Seq(Replies)]
    <3>1. toClient' = [toClient EXCEPT ![c] = <<>>]
      BY <1>7 DEF Close
    <3>2. toServer' = toServer \/ toServer' = [toServer EXCEPT ![c] = <<>>]
      BY <1>7 DEF Close
    <3>3. toClient' \in [Clients -> Seq(Replies)]
      BY <2>1, <3>1
    <3>4. toServer' \in [Clients -> Seq(Packets)]
      BY <2>1, <3>2
    <3> QED
      BY <3>3, <3>4
  <2>3. pending' \in [Clients -> [op : Ops, id : Calls, unsent : BOOLEAN] \cup {NULL}]
    BY <1>7 DEF Close
  <2>4. end' \in [Clients -> {"none", "up", "closed", "reset"}]
    BY <1>7 DEF Close
  <2> QED
    BY <1>7, <2>2, <2>3, <2>4 DEF Close
<1>8. ASSUME NEW c \in Clients, Accept(c) PROVE LinkType'
  BY <1>8 DEF Accept
<1>9. ASSUME NEW c \in Clients, Lost(c) \/ AcceptCrashes(c) PROVE LinkType'
  BY <1>9 DEF Lost, AcceptCrashes, link
<1>10. ASSUME NEW c \in Clients, NEW p, p.id \in Calls, NEW type, Reply(c, p, type),
              type \in {"ERROR", "ATTR", "DATA", "MOREDATA", "STATUS"}
       PROVE  /\ toClient' \in [Clients -> Seq(Replies)]
              /\ end' \in [Clients -> {"none", "up", "closed", "reset"}]
              /\ mode' \in {"up", "ended", "lost"}
  <2>1. Append(toClient[c], [type |-> type, id |-> p.id]) \in Seq(Replies)
    BY <1>10, AppendProperties DEF Replies
  <2> QED
    BY <1>10, <2>1 DEF Reply
<1>11. ASSUME NEW c \in Clients, Serve(c) PROVE LinkType'
  <2> DEFINE p == Head(toServer[c])
  <2>1. p \in Packets /\ toServer' \in [Clients -> Seq(Packets)]
    BY <1>11, HeadTailProperties DEF Serve
  <2>2. /\ extra' \in [Clients -> Nat]
        /\ UNCHANGED <<conn, pending, calls>>
    BY <1>11 DEF Serve, Handle
  <2>3. PICK type \in handle_command(p) :
          IF type = "wait"
          THEN holding' = [client |-> c, op |-> p.op, id |-> p.id] /\ UNCHANGED <<toClient, end, mode>>
          ELSE Reply(c, p, type) /\ UNCHANGED holding
    BY <1>11 DEF Serve, Handle
  <2>4. type = "wait" \/ type \in {"ERROR", "ATTR", "DATA", "MOREDATA", "STATUS"}
    <3>1. CASE p.kind = "data"
      <4>1. handle_command(p) = {"ERROR"}
        BY <3>1 DEF handle_command
      <4> QED
        BY <2>3, <4>1
    <3>2. CASE p.kind = "request"
      BY <2>1, <2>3, <3>2, HandlersFit DEF Packets
    <3> QED
      BY <2>1, <3>1, <3>2 DEF Packets
  <2>5. p.id \in Calls /\ p.op \in Ops
    BY <2>1 DEF Packets
  <2> HIDE DEF p
  <2>6. CASE type = "wait"
    <3>1. holding' \in [client : Clients, op : Ops, id : Calls] \cup {NULL}
      BY <2>3, <2>5, <2>6
    <3> QED
      BY <2>1, <2>2, <2>3, <2>6, <3>1
  <2>7. CASE type # "wait"
    <3>1. Reply(c, p, type) /\ holding' = holding
      BY <2>3, <2>7
    <3>2. /\ toClient' \in [Clients -> Seq(Replies)]
          /\ end' \in [Clients -> {"none", "up", "closed", "reset"}]
          /\ mode' \in {"up", "ended", "lost"}
      BY <1>10, <2>4, <2>5, <2>7, <3>1
    <3> QED
      BY <2>1, <2>2, <3>1, <3>2
  <2> QED
    BY <2>6, <2>7
<1>12. ASSUME NEW c \in Clients, ServeData(c) PROVE LinkType'
  <2>1. holding.id \in Calls
    BY <1>12 DEF ServeData
  <2>2. toServer' \in [Clients -> Seq(Packets)]
    <3>1. toServer[c] # <<>> => Tail(toServer[c]) \in Seq(Packets)
      BY HeadTailProperties
    <3> QED
      BY <1>12, <3>1 DEF ServeData
  <2>3. \E type \in {"ERROR", "STATUS"} : Reply(c, holding, type)
    BY <1>12 DEF ServeData
  <2> QED
    BY <1>10, <1>12, <2>1, <2>2, <2>3 DEF ServeData
<1>13. ASSUME NEW c \in Clients, Drop(c) PROVE LinkType'
  BY <1>13 DEF Drop
<1> QED
  BY <1>1, <1>3, <1>4, <1>5, <1>6, <1>7, <1>8, <1>9, <1>11, <1>12, <1>13
  DEF Next, ServerStep, ClientStep
-----------------------------------------------------------------------------
(* The clients a step is not about, and the packets of the one it is about. *)

SameAt(c) ==
  /\ toServer'[c] = toServer[c] /\ toClient'[c] = toClient[c]
  /\ conn'[c] = conn[c] /\ end'[c] = end[c] /\ pending'[c] = pending[c] /\ extra'[c] = extra[c]

HoldsSame(c) == (Holds(c)' <=> Holds(c)) /\ (Holds(c) => holding' = holding)

LEMMA OthersKept ==
  ASSUME NEW c \in Clients, ClientInv(c), SameAt(c), HoldsSame(c), mode = "ended" => mode' = "ended"
  PROVE  ClientInv(c)'
<1> USE DEF SameAt, HoldsSame
<1>1. QuietInv(c)' /\ PairInv(c)'
  BY DEF ClientInv, QuietInv, PairInv
<1>2. HoldInv(c)'
  BY DEF ClientInv, HoldInv, Ended
<1>3. Owed(c)' = Owed(c)
  BY DEF Owed
<1>4. LagInv(c)' /\ LeftInv(c)'
  BY <1>3 DEF ClientInv, LagInv, LeftInv
<1>5. OwnInv(c)'
  BY DEF ClientInv, OwnInv
<1> QED
  BY <1>1, <1>2, <1>4, <1>5 DEF ClientInv

LEMMA PairedTail ==
  ASSUME NEW s \in Seq(Packets), s # <<>>, NEW up \in BOOLEAN, NEW call, Paired(s, up, call)
  PROVE  Paired(Tail(s), up, call)
<1> DEFINE t == Tail(s)
<1>1. /\ Len(t) = Len(s) - 1 /\ Len(s) \in Nat /\ Len(t) \in Nat
      /\ \A i \in 1..Len(t) : t[i] = s[i + 1]
  BY HeadTailProperties, LenProperties
<1> HIDE DEF t
<1>2. SUFFICES ASSUME NEW i \in 1..Len(t), t[i].kind = "request", t[i].op.data
               PROVE  \/ i < Len(t) /\ t[i + 1].kind = "data" /\ t[i + 1].id = t[i].id
                      \/ i = Len(t) /\ (up => Sending(call, t[i].id))
  BY DEF Paired, t
<1>3. i + 1 \in 1..Len(s) /\ t[i] = s[i + 1]
  BY <1>1
<1>4. \/ /\ i + 1 < Len(s)
         /\ s[(i + 1) + 1].kind = "data" /\ s[(i + 1) + 1].id = s[i + 1].id
      \/ i + 1 = Len(s) /\ (up => Sending(call, s[i + 1].id))
  BY <1>2, <1>3 DEF Paired
<1>5. i + 1 < Len(s) => t[i + 1] = s[(i + 1) + 1]
  BY <1>1
<1> QED
  BY <1>1, <1>3, <1>4, <1>5

\* What a client sends next goes with what it sent last.
LEMMA PairedAppend ==
  ASSUME NEW s \in Seq(Packets), NEW p \in Packets, NEW call, NEW after, Paired(s, TRUE, call),
         p.kind = "data" => ~call.unsent \/ call.id = p.id,
         p.kind = "request" => /\ call = NULL \/ ~call.unsent
                               /\ p.op.data => Sending(after, p.id)
  PROVE  Paired(Append(s, p), TRUE, after)
<1> DEFINE t == Append(s, p)
<1>1. /\ Len(s) \in Nat /\ Len(t) = Len(s) + 1 /\ t[Len(s) + 1] = p
      /\ \A i \in 1..Len(s) : t[i] = s[i]
  BY AppendProperties, LenProperties
<1> HIDE DEF t
<1>2. SUFFICES ASSUME NEW i \in 1..Len(t), t[i].kind = "request", t[i].op.data
               PROVE  \/ i < Len(t) /\ t[i + 1].kind = "data" /\ t[i + 1].id = t[i].id
                      \/ i = Len(t) /\ Sending(after, t[i].id)
  BY DEF Paired, t
<1>3. CASE i = Len(t)
  BY <1>1, <1>2, <1>3
<1>4. CASE i < Len(s)
  <2>1. s[i + 1].kind = "data" /\ s[i + 1].id = s[i].id
    BY <1>1, <1>2, <1>4 DEF Paired
  <2> QED
    BY <1>1, <1>4, <2>1
<1>5. CASE i = Len(s)
  <2>1. Sending(call, s[i].id)
    BY <1>1, <1>2, <1>5 DEF Paired
  <2>2. p.kind = "data" /\ call.id = p.id
    BY <2>1 DEF Sending, Packets
  <2>3. call.id = s[i].id
    BY <2>1 DEF Sending
  <2>4. i < Len(t) /\ t[i + 1] = p /\ t[i] = s[i]
    BY <1>1, <1>5
  <2> QED
    BY <2>2, <2>3, <2>4
<1> QED
  BY <1>1, <1>3, <1>4, <1>5

LEMMA OnlyOfTail ==
  ASSUME NEW s \in Seq(Packets), s # <<>>, NEW call, OnlyOf(s, call)
  PROVE  OnlyOf(Tail(s), call)
BY HeadTailProperties, LenProperties DEF OnlyOf

LEMMA OnlyOfAppend ==
  ASSUME NEW s \in Seq(Packets), NEW p \in Packets, NEW call, OnlyOf(s, call),
         p.kind = "request" => p.id = call.id /\ p.op = call.op
  PROVE  OnlyOf(Append(s, p), call)
BY AppendProperties, LenProperties DEF OnlyOf

LEMMA NoneOwed ==
  ASSUME NEW s \in Seq(Packets), RequestsIn(s) = 0, NEW call
  PROVE  OnlyOf(s, call)
BY SomeRequest DEF OnlyOf

LEMMA HeadIsFirst ==
  ASSUME NEW S, NEW s \in Seq(S), s # <<>>
  PROVE  Head(s) = s[1] /\ 1 \in 1..Len(s) /\ Head(s) \in S /\ Len(s) \in Nat
BY HeadTailProperties, LenProperties, EmptySeq

LEMMA HeadOfAppend ==
  ASSUME NEW S, NEW s \in Seq(S), NEW e \in S
  PROVE  /\ Append(s, e) # <<>> /\ Append(s, e) \in Seq(S)
         /\ Head(Append(s, e)) = IF s = <<>> THEN e ELSE Head(s)
<1>1. /\ Append(s, e) \in Seq(S) /\ Len(Append(s, e)) = Len(s) + 1 /\ Len(s) \in Nat
      /\ Append(s, e)[Len(s) + 1] = e /\ \A i \in 1..Len(s) : Append(s, e)[i] = s[i]
  BY AppendProperties, LenProperties
<1>2. Append(s, e) # <<>>
  BY <1>1, EmptySeq
<1> QED
  BY <1>1, <1>2, HeadIsFirst, AppendProperties
-----------------------------------------------------------------------------
(* Steps of a client keep its part of the invariant.                        *)

LEMMA OwedIsNat ==
  ASSUME LinkType, NEW c \in Clients
  PROVE  Owed(c) \in Nat /\ RequestsIn(toServer[c]) \in Nat /\ Len(toClient[c]) \in Nat
BY RequestsFinite, LenProperties DEF LinkType, Owed

LEMMA ConnectKeeps ==
  ASSUME LinkType, NEW c \in Clients, ClientInv(c), Connect(c)
  PROVE  ClientInv(c)'
<1> USE DEF LinkType
<1>1. /\ end[c] = "none" /\ toServer[c] = <<>> /\ extra[c] = 0
      /\ pending[c] = NULL /\ toClient[c] = <<>> /\ ~Holds(c)
  BY DEF Connect, ClientInv, QuietInv, HoldInv
<1>2. /\ end'[c] = "up" /\ conn'[c] = "backlog"
      /\ UNCHANGED <<toServer, toClient, pending, extra, holding, mode>>
  BY DEF Connect
<1>3. Owed(c)' = 0 /\ ~Holds(c)'
  BY <1>1, <1>2, NoRequests DEF Owed, Holds
<1>4. Len(<<>>) = 0 /\ Paired(<<>>, TRUE, NULL)
  BY DEF Paired
<1> QED
  BY <1>1, <1>2, <1>3, <1>4 DEF ClientInv, QuietInv, PairInv, HoldInv, LagInv, LeftInv, OwnInv

LEMMA RequestKeeps ==
  ASSUME LinkType, LinkType', NEW c \in Clients, ClientInv(c), NEW op \in Ops, Request(c, op),
         end[c] = "up", pending[c] = NULL \/ ~pending[c].unsent,
         UNCHANGED <<holding, mode, conn, end, extra>>,
         Owed(c) + Len(toClient'[c]) = extra[c]
  PROVE  ClientInv(c)'
<1> DEFINE p == [kind |-> "request", op |-> op, id |-> calls + 1]
           call == [op |-> op, id |-> calls + 1, unsent |-> op.data]
<1>1. /\ toServer[c] \in Seq(Packets) /\ p \in Packets /\ call # NULL
      /\ pending'[c] = call /\ toServer'[c] = Append(toServer[c], p)
      /\ end'[c] = "up" /\ conn'[c] = conn[c] /\ extra'[c] = extra[c] /\ extra[c] \in Nat
      /\ toClient'[c] \in Seq(Replies)
  BY CorefsServerAssumption, DataIsBoolean DEF LinkType, Request, Packets, Calls
<1>2. Holds(c)' <=> Holds(c)
  BY DEF Holds
<1>3. Owed(c) \in Nat /\ Owed(c)' = Owed(c) + 1 /\ Len(toClient'[c]) \in Nat
  BY <1>1, <1>2, AppendCounts, OwedIsNat, LenProperties DEF Owed
<1>4. QuietInv(c)'
  BY <1>1 DEF ClientInv, QuietInv
<1>5. PairInv(c)'
  <2>1. Paired(toServer[c], TRUE, pending[c])
    BY DEF ClientInv, PairInv
  <2>2. p.kind = "request" /\ (p.op.data => Sending(call, p.id))
    BY <1>1 DEF Sending
  <2>3. Paired(Append(toServer[c], p), TRUE, call)
    BY <1>1, <2>1, <2>2, PairedAppend
  <2> QED
    BY <1>1, <2>3 DEF PairInv
<1>6. HoldInv(c)'
  <2>1. CASE ~Holds(c)
    BY <1>2, <2>1 DEF HoldInv
  <2>2. CASE Holds(c)
    <3>1. ~Ended(c) /\ ~Sending(pending[c], holding.id)
      BY DEF Ended, Sending
    <3>2. /\ conn[c] = "open" /\ holding.op.reply = "STATUS"
          /\ toServer[c] # <<>> /\ Head(toServer[c]).kind = "data"
          /\ Head(toServer[c]).id = holding.id
      BY <2>2, <3>1 DEF ClientInv, HoldInv
    <3>3. toServer'[c] # <<>> /\ Head(toServer'[c]) = Head(toServer[c])
      BY <1>1, <3>2, HeadOfAppend
    <3> QED
      BY <1>1, <3>2, <3>3 DEF HoldInv
  <2> QED
    BY <2>1, <2>2
<1>7. LagInv(c)' /\ LeftInv(c)'
  <2>1. LagInv(c)'
    BY <1>1, <1>3 DEF LagInv
  <2>2. LeftInv(c)'
    BY <1>1 DEF LeftInv
  <2> QED
    BY <2>1, <2>2
<1>8. OwnInv(c)'
  <2>1. CASE extra[c] = 0
    <3>1. Owed(c) = 0 /\ Len(toClient'[c]) = 0
      BY <1>3, <2>1
    <3>2. RequestsIn(toServer[c]) = 0 /\ ~Holds(c)
      BY <3>1, OwedIsNat DEF Owed, Holds
    <3>3. OnlyOf(toServer[c], call)
      BY <1>1, <3>2, NoneOwed
    <3>4. p.id = call.id /\ p.op = call.op
      OBVIOUS
    <3>5. OnlyOf(Append(toServer[c], p), call)
      BY <1>1, <3>3, <3>4, OnlyOfAppend
    <3>6. RepliesTo(toClient'[c], call)
      BY <3>1 DEF RepliesTo
    <3> QED
      BY <1>1, <1>2, <3>2, <3>5, <3>6 DEF OwnInv
  <2>2. CASE extra[c] # 0
    BY <1>1, <2>2 DEF OwnInv
  <2> QED
    BY <2>1, <2>2
<1> QED
  BY <1>4, <1>5, <1>6, <1>7, <1>8 DEF ClientInv

LEMMA CallKeeps ==
  ASSUME LinkType, LinkType', NEW c \in Clients, ClientInv(c), NEW op \in Ops, Call(c, op)
  PROVE  ClientInv(c)'
<1>1. /\ Request(c, op) /\ end[c] = "up" /\ pending[c] = NULL /\ mode # "ended"
      /\ UNCHANGED <<holding, mode, conn, end, extra, toClient>>
  BY DEF Call
<1>2. Owed(c) + Len(toClient[c]) = extra[c] + 0
  BY <1>1 DEF ClientInv, LagInv
<1>3. Owed(c) + Len(toClient'[c]) = extra[c]
  BY <1>1, <1>2 DEF LinkType
<1> QED
  BY <1>1, <1>3, RequestKeeps

LEMMA SendDataKeeps ==
  ASSUME LinkType, LinkType', NEW c \in Clients, ClientInv(c), SendData(c)
  PROVE  ClientInv(c)'
<1> DEFINE p == [kind |-> "data", op |-> pending[c].op, id |-> pending[c].id]
<1>1. /\ pending[c] # NULL /\ pending[c] \in [op : Ops, id : Calls, unsent : BOOLEAN]
      /\ pending[c].unsent
  BY DEF SendData, LinkType
<1>2. /\ toServer[c] \in Seq(Packets) /\ p \in Packets
      /\ toServer'[c] = Append(toServer[c], p)
      /\ pending'[c] \in [op : Ops, id : Calls, unsent : BOOLEAN] /\ pending'[c] # NULL
      /\ pending'[c].op = pending[c].op /\ pending'[c].id = pending[c].id
      /\ UNCHANGED <<holding, mode, conn, end, toClient, extra>>
  <2>1. p \in Packets
    BY <1>1 DEF Packets
  <2>2. pending'[c] = [pending[c] EXCEPT !.unsent = FALSE]
    BY DEF SendData, LinkType
  <2>3. /\ pending'[c] \in [op : Ops, id : Calls, unsent : BOOLEAN]
        /\ pending'[c].op = pending[c].op /\ pending'[c].id = pending[c].id
    BY <1>1, <2>2
  <2>4. pending'[c] # NULL
    BY <2>3, CorefsServerAssumption DEF Calls
  <2> QED
    BY <2>1, <2>3, <2>4 DEF SendData, LinkType
<1>3. end[c] = "up"
  BY <1>1 DEF ClientInv, QuietInv
<1>4. Owed(c)' = Owed(c) /\ (Holds(c)' <=> Holds(c))
  BY <1>2, AppendCounts, OwedIsNat DEF Owed, Holds
<1>5. QuietInv(c)'
  BY <1>2, <1>3 DEF ClientInv, QuietInv
<1>6. PairInv(c)'
  <2>1. Paired(toServer[c], TRUE, pending[c])
    BY <1>3 DEF ClientInv, PairInv
  <2>2. p.kind = "data" /\ pending[c].id = p.id
    OBVIOUS
  <2>3. Paired(Append(toServer[c], p), TRUE, pending'[c])
    BY <1>2, <2>1, <2>2, PairedAppend
  <2> QED
    BY <1>2, <1>3, <2>3 DEF PairInv
<1>7. HoldInv(c)'
  <2>1. CASE ~Holds(c)
    BY <1>4, <2>1 DEF HoldInv
  <2>2. CASE Holds(c)
    <3>1. /\ conn[c] = "open" /\ holding.op.reply = "STATUS"
          /\ \/ /\ toServer[c] # <<>> /\ Head(toServer[c]).kind = "data"
                /\ Head(toServer[c]).id = holding.id
             \/ toServer[c] = <<>> /\ pending[c].id = holding.id
      BY <1>3, <2>2 DEF ClientInv, HoldInv, Ended, Sending
    <3>2. /\ toServer'[c] # <<>>
          /\ Head(toServer'[c]) = IF toServer[c] = <<>> THEN p ELSE Head(toServer[c])
      BY <1>2, HeadOfAppend
    <3>3. Head(toServer'[c]).kind = "data" /\ Head(toServer'[c]).id = holding.id
      BY <3>1, <3>2
    <3> QED
      BY <1>2, <3>1, <3>2, <3>3 DEF HoldInv
  <2> QED
    BY <2>1, <2>2
<1>8. LagInv(c)' /\ LeftInv(c)'
  BY <1>1, <1>2, <1>3, <1>4 DEF ClientInv, LagInv, LeftInv
<1>9. OwnInv(c)'
  <2>1. OnlyOf(toServer[c], pending[c]) => OnlyOf(toServer'[c], pending'[c])
    <3>1. p.kind = "data"
      OBVIOUS
    <3>2. OnlyOf(toServer[c], pending[c]) => OnlyOf(Append(toServer[c], p), pending[c])
      BY <1>2, <3>1, OnlyOfAppend
    <3> QED
      BY <1>2, <3>2 DEF OnlyOf
  <2>2. RepliesTo(toClient[c], pending[c]) => RepliesTo(toClient'[c], pending'[c])
    BY <1>2 DEF RepliesTo
  <2> QED
    BY <1>1, <1>2, <1>3, <1>4, <2>1, <2>2 DEF ClientInv, OwnInv
<1> QED
  BY <1>5, <1>6, <1>7, <1>8, <1>9 DEF ClientInv

LEMMA AnswerKeeps ==
  ASSUME LinkType, LinkType', NEW c \in Clients, ClientInv(c), Answer(c)
  PROVE  ClientInv(c)'
<1>1. /\ pending[c] # NULL /\ ~pending[c].unsent
      /\ UNCHANGED <<holding, mode, conn, end, extra>>
  BY DEF Answer, Waiting
<1>2. end[c] = "up"
  BY <1>1 DEF ClientInv, QuietInv
<1>3. CASE Returned(c)
  <2>1. /\ pending'[c] = NULL /\ end'[c] = "up" /\ conn'[c] = conn[c] /\ extra'[c] = extra[c]
        /\ toServer'[c] = toServer[c] /\ holding' = holding /\ mode' = mode
    BY <1>1, <1>2, <1>3 DEF Returned, LinkType
  <2>2. Owed(c)' = Owed(c)
    BY <2>1 DEF Owed, Holds
  <2>3. mode # "ended" => toClient[c] # <<>> /\ toClient'[c] = Tail(toClient[c])
    BY DEF Answer, LinkType
  <2>4. toClient[c] # <<>> => Len(Tail(toClient[c])) = Len(toClient[c]) - 1
    BY HeadTailProperties DEF LinkType
  <2>5. mode # "ended" => Owed(c) + Len(toClient[c]) = extra[c] + 1
    BY <1>1, <1>2 DEF ClientInv, LagInv
  <2>6. LagInv(c)'
    <3>1. SUFFICES ASSUME mode # "ended"
                   PROVE  Owed(c)' + Len(toClient'[c]) = extra'[c]
      BY <2>1 DEF LagInv, LinkType
    <3>2. Len(toClient'[c]) = Len(toClient[c]) - 1
      BY <2>3, <2>4, <3>1
    <3>3. extra[c] \in Nat
      BY DEF LinkType
    <3>4. Owed(c) \in Nat /\ Len(toClient[c]) \in Nat
      BY OwedIsNat
    <3>5. Owed(c) + Len(toClient[c]) = extra[c] + 1
      BY <2>5, <3>1
    <3>6. Owed(c) + (Len(toClient[c]) - 1) = extra[c]
      BY <3>3, <3>4, <3>5
    <3> QED
      BY <2>1, <2>2, <3>2, <3>6
  <2>7. PairInv(c)'
    BY <1>1, <1>2, <2>1 DEF ClientInv, PairInv, Paired, Sending
  <2>8. HoldInv(c)'
    BY <1>1, <1>2, <2>1 DEF ClientInv, HoldInv, Holds, Ended, Sending
  <2> QED
    BY <1>2, <2>1, <2>6, <2>7, <2>8 DEF ClientInv, QuietInv, LeftInv, OwnInv
<1>4. CASE ~Returned(c)
  <2>1. /\ toClient[c] # <<>> /\ toClient'[c] = Tail(toClient[c]) /\ mode # "ended"
        /\ Request(c, do_readdir) /\ do_readdir \in Ops
    BY <1>1, <1>4 DEF Answer, LinkType
  <2>2. Owed(c) + Len(toClient[c]) = extra[c] + 1
    BY <1>1, <1>2, <2>1 DEF ClientInv, LagInv
  <2>3. Len(Tail(toClient[c])) = Len(toClient[c]) - 1
    BY <2>1, HeadTailProperties DEF LinkType
  <2>4. Owed(c) + Len(toClient'[c]) = extra[c]
    BY <2>1, <2>2, <2>3, OwedIsNat DEF LinkType
  <2> QED
    BY <1>1, <1>2, <2>1, <2>4, RequestKeeps
<1> QED
  BY <1>3, <1>4

LEMMA CloseKeeps ==
  ASSUME LinkType, NEW c \in Clients, ClientInv(c), Close(c)
  PROVE  ClientInv(c)'
<1>1. /\ end[c] = "up" /\ pending'[c] = NULL /\ toClient'[c] = <<>>
      /\ UNCHANGED <<holding, mode, conn, extra>>
      /\ end'[c] = IF toClient[c] = <<>> THEN "closed" ELSE "reset"
      /\ toServer'[c] \in {toServer[c], <<>>}
  BY DEF Close, LinkType
<1>2. Owed(c)' <= Owed(c) /\ Owed(c)' \in Nat
  BY <1>1, NoRequests, OwedIsNat DEF Owed, Holds
<1>3. toClient[c] = <<>> \/ Len(toClient[c]) >= 1
  BY EmptySeq, OwedIsNat DEF LinkType
<1>4. LeftInv(c)'
  <2>1. mode # "ended" /\ extra[c] = 0 =>
          Owed(c) + Len(toClient[c]) = IF pending[c] = NULL THEN 0 ELSE 1
    BY <1>1 DEF ClientInv, LagInv
  <2> QED
    BY <1>1, <1>2, <1>3, <2>1, OwedIsNat DEF LeftInv
<1>5. QuietInv(c)'
  BY <1>1 DEF ClientInv, QuietInv
<1>6. PairInv(c)'
  <2>1. \A i \in 1..Len(<<>>) : FALSE
    OBVIOUS
  <2> QED
    BY <1>1, <2>1 DEF ClientInv, PairInv, Paired
<1>7. HoldInv(c)'
  BY <1>1 DEF ClientInv, HoldInv, Holds, Ended
<1> QED
  BY <1>1, <1>4, <1>5, <1>6, <1>7 DEF ClientInv, LagInv, OwnInv
-----------------------------------------------------------------------------
(* Steps of the server do too.                                              *)

LEMMA AcceptKeeps ==
  ASSUME LinkType, NEW c \in Clients, ClientInv(c), Accept(c)
  PROVE  ClientInv(c)'
<1>1. /\ holding = NULL /\ conn[c] = "backlog" /\ conn'[c] = "open"
      /\ UNCHANGED <<holding, mode, end, toServer, toClient, pending, extra>>
  BY DEF Accept, Ready, LinkType
<1>2. Owed(c)' = Owed(c)
  BY <1>1 DEF Owed, Holds
<1> QED
  BY <1>1, <1>2
  DEF ClientInv, QuietInv, PairInv, HoldInv, LagInv, LeftInv, OwnInv, Holds

LEMMA DropKeeps ==
  ASSUME LinkType, NEW c \in Clients, ClientInv(c), Drop(c)
  PROVE  ClientInv(c)'
<1>1. /\ holding = NULL /\ conn'[c] = "none" /\ end'[c] = "none" /\ extra'[c] = 0
      /\ toServer[c] = <<>> /\ end[c] # "up"
      /\ UNCHANGED <<holding, mode, toServer, toClient, pending>>
  BY DEF Drop, Ready, Ended, LinkType
<1>2. Owed(c)' = 0
  BY <1>1, NoRequests DEF Owed, Holds
<1>3. \A i \in 1..Len(<<>>) : FALSE
  OBVIOUS
<1> QED
  BY <1>1, <1>2, <1>3
  DEF ClientInv, QuietInv, PairInv, Paired, HoldInv, LagInv, LeftInv, OwnInv, Holds

LEMMA OneMore ==
  ASSUME NEW owed \in Nat, NEW owes \in Nat, NEW before \in Nat, NEW after \in Nat,
         NEW n \in Nat, NEW call \in Nat, owed + n = before + call,
         (after = before /\ owed = owes + 1) \/ (after = before + 1 /\ owes = owed)
  PROVE  owes + (n + 1) = after + call
OBVIOUS

\* An answer to one request, or to data taken for one.
LEMMA ReplyKeeps ==
  ASSUME LinkType, LinkType', NEW c \in Clients, ClientInv(c), NEW p, NEW type, Reply(c, p, type),
         [type |-> type, id |-> p.id] \in Replies,
         mode = "up", holding' = NULL, conn[c] = "open", UNCHANGED <<conn, pending>>,
         Paired(toServer'[c], end[c] = "up", pending[c]),
         \/ extra'[c] = extra[c] /\ Owed(c) = Owed(c)' + 1
         \/ extra'[c] = extra[c] + 1 /\ Owed(c)' = Owed(c),
         end[c] = "up" /\ extra'[c] = 0 /\ pending[c] # NULL =>
           OnlyOf(toServer'[c], pending[c]) /\ p.id = pending[c].id /\ Fits(type, pending[c].op)
  PROVE  ClientInv(c)' /\ (mode' = "ended" => extra'[c] > 0)
<1> DEFINE r == [type |-> type, id |-> p.id]
<1>1. /\ Owed(c) \in Nat /\ Owed(c)' \in Nat /\ extra[c] \in Nat /\ extra'[c] \in Nat
      /\ ~Holds(c)' /\ conn'[c] = "open" /\ pending'[c] = pending[c] /\ toClient[c] \in Seq(Replies)
  <2>1. Owed(c)' \in Nat
    BY RequestsFinite DEF LinkType, Owed
  <2> QED
    BY <2>1, OwedIsNat DEF LinkType, Holds
<1>2. \/ end[c] = "up" /\ end'[c] = "up" /\ mode' = mode /\ toClient'[c] = Append(toClient[c], r)
      \/ end[c] # "up" /\ end'[c] = "reset" /\ mode' = mode /\ toClient'[c] = toClient[c]
      \/ end[c] = "reset" /\ end'[c] = "reset" /\ mode' = "ended" /\ toClient'[c] = toClient[c]
  BY DEF Reply, LinkType
<1>3. extra'[c] = 0 /\ end[c] # "up" => end[c] = "closed" /\ Owed(c)' = 0
  <2>1. extra[c] = 0 /\ end[c] # "up" => Owed(c) <= IF end[c] = "closed" THEN 1 ELSE 0
    BY DEF ClientInv, LeftInv
  <2> QED
    BY <1>1, <2>1
<1>4. QuietInv(c)' /\ HoldInv(c)' /\ PairInv(c)'
  BY <1>1, <1>2 DEF ClientInv, QuietInv, HoldInv, PairInv
<1>5. LeftInv(c)' /\ (mode' = "ended" => extra'[c] > 0)
  BY <1>1, <1>2, <1>3 DEF LeftInv
<1>6. end[c] = "up" => /\ Len(Append(toClient[c], r)) = Len(toClient[c]) + 1
                       /\ Len(toClient[c]) \in Nat
                       /\ Append(toClient[c], r)[Len(toClient[c]) + 1] = r
                       /\ \A i \in 1..Len(toClient[c]) : Append(toClient[c], r)[i] = toClient[c][i]
  BY <1>1, AppendProperties, LenProperties
<1>7. LagInv(c)'
  <2>1. end[c] = "up" =>
          Owed(c) + Len(toClient[c]) = extra[c] + (IF pending[c] = NULL THEN 0 ELSE 1)
    BY DEF ClientInv, LagInv
  <2>2. SUFFICES ASSUME end'[c] = "up"
                 PROVE  Owed(c)' + Len(toClient'[c])
                          = extra'[c] + (IF pending[c] = NULL THEN 0 ELSE 1)
    BY <1>1 DEF LagInv
  <2>3. end[c] = "up" /\ toClient'[c] = Append(toClient[c], r)
    BY <1>2, <2>2
  <2> HIDE DEF r
  <2> DEFINE call == IF pending[c] = NULL THEN 0 ELSE 1
             n == Len(toClient[c])
  <2>4. Len(toClient'[c]) = n + 1 /\ n \in Nat /\ call \in Nat
    BY <1>6, <2>3
  <2>5. Owed(c) + n = extra[c] + call
    BY <2>1, <2>3
  <2> HIDE DEF call, n
  <2>6. Owed(c)' + (n + 1) = extra'[c] + call
    <3> DEFINE owed == Owed(c)
               owes == Owed(c)'
               before == extra[c]
               after == extra'[c]
    <3>1. /\ owed \in Nat /\ owes \in Nat /\ before \in Nat /\ after \in Nat
          /\ owed + n = before + call
          /\ (after = before /\ owed = owes + 1) \/ (after = before + 1 /\ owes = owed)
      BY <1>1, <2>5
    <3> HIDE DEF owed, owes, before, after
    <3>2. owes + (n + 1) = after + call
      BY <2>4, <3>1, OneMore
    <3> QED
      BY <3>2 DEF owes, after
  <2> QED
    BY <2>4, <2>6 DEF call
<1>8. OwnInv(c)'
  <2>1. SUFFICES ASSUME end'[c] = "up", extra'[c] = 0, pending[c] # NULL
                 PROVE  OnlyOf(toServer'[c], pending[c]) /\ RepliesTo(toClient'[c], pending[c])
    BY <1>1 DEF OwnInv
  <2>2. end[c] = "up" /\ extra[c] = 0 /\ toClient'[c] = Append(toClient[c], r)
    BY <1>1, <1>2, <2>1
  <2>3. RepliesTo(toClient[c], pending[c])
    BY <2>1, <2>2 DEF ClientInv, OwnInv
  <2>4. r.id = pending[c].id /\ Fits(r.type, pending[c].op)
    BY <2>1, <2>2
  <2> HIDE DEF r
  <2>5. RepliesTo(toClient'[c], pending[c])
    BY <1>6, <2>2, <2>3, <2>4 DEF RepliesTo
  <2> QED
    BY <2>1, <2>2, <2>5
<1> QED
  BY <1>4, <1>5, <1>7, <1>8 DEF ClientInv

\* What the head of a well paired queue is followed by.
LEMMA PairedHead ==
  ASSUME NEW s \in Seq(Packets), s # <<>>, NEW up \in BOOLEAN, NEW call, Paired(s, up, call)
  PROVE  Head(s).kind = "request" /\ Head(s).op.data =>
           \/ Tail(s) # <<>> /\ Head(Tail(s)).kind = "data" /\ Head(Tail(s)).id = Head(s).id
           \/ Tail(s) = <<>> /\ (up => Sending(call, Head(s).id))
<1> DEFINE t == Tail(s)
<1>1. Head(s) = s[1] /\ 1 \in 1..Len(s) /\ Len(s) \in Nat
  BY HeadIsFirst
<1>2. t \in Seq(Packets) /\ Len(t) = Len(s) - 1 /\ \A i \in 1..Len(t) : t[i] = s[i + 1]
  BY HeadTailProperties
<1>3. s[1].kind = "request" /\ s[1].op.data =>
        \/ Len(s) > 1 /\ s[1 + 1].kind = "data" /\ s[1 + 1].id = s[1].id
        \/ Len(s) = 1 /\ (up => Sending(call, s[1].id))
  BY <1>1 DEF Paired
<1> HIDE DEF t
<1>4. CASE Len(s) > 1
  <2>1. Len(t) # 0 /\ 1 \in 1..Len(t)
    BY <1>1, <1>2, <1>4
  <2>2. t # <<>> /\ t[1] = s[1 + 1]
    BY <1>2, <2>1, EmptySeq
  <2>3. Head(t) = t[1]
    BY <1>2, <2>2, HeadIsFirst
  <2> QED
    BY <1>1, <1>3, <1>4, <2>2, <2>3 DEF t
<1>5. CASE Len(s) = 1
  <2>1. Len(t) = 0
    BY <1>2, <1>5
  <2>2. t = <<>>
    BY <1>2, <2>1, EmptySeq
  <2>3. ~(Len(s) > 1)
    BY <1>1, <1>5
  <2>4. Head(s).kind = "request" /\ Head(s).op.data => (up => Sending(call, Head(s).id))
    BY <1>1, <1>3, <2>3
  <2> QED
    BY <2>2, <2>4 DEF t
<1>6. Len(s) > 1 \/ Len(s) = 1
  BY EmptySeq
<1> QED
  BY <1>4, <1>5, <1>6

LEMMA ServeKeeps ==
  ASSUME LinkType, LinkType', NEW c \in Clients, ClientInv(c), Serve(c)
  PROVE  ClientInv(c)' /\ (mode' = "ended" => extra'[c] > 0)
<1> DEFINE p == Head(toServer[c])
<1>1. /\ mode = "up" /\ holding = NULL /\ conn[c] = "open" /\ toServer[c] # <<>>
      /\ toServer[c] \in Seq(Packets) /\ toServer'[c] = Tail(toServer[c])
      /\ toServer'[c] \in Seq(Packets)
      /\ UNCHANGED <<conn, pending>> /\ extra[c] \in Nat
  BY DEF Serve, Ready, LinkType
<1>2. p \in Packets /\ p = toServer[c][1] /\ 1 \in 1..Len(toServer[c])
  BY <1>1, HeadIsFirst
<1>3. PICK type \in handle_command(p) :
        IF type = "wait"
        THEN holding' = [client |-> c, op |-> p.op, id |-> p.id] /\ UNCHANGED <<toClient, end, mode>>
        ELSE Reply(c, p, type) /\ UNCHANGED holding
  BY DEF Serve, Handle
<1>4. extra'[c] = IF p.kind = "data" THEN extra[c] + 1 ELSE extra[c]
  BY DEF Serve, Handle, LinkType
<1>5. /\ Owed(c) = RequestsIn(toServer[c]) /\ RequestsIn(toServer'[c]) \in Nat
      /\ RequestsIn(toServer[c]) = RequestsIn(toServer'[c]) + (IF p.kind = "request" THEN 1 ELSE 0)
  <2>1. Owed(c) = RequestsIn(toServer[c])
    BY <1>1, OwedIsNat DEF Owed, Holds
  <2> QED
    BY <1>1, <2>1, TailCounts, RequestsFinite
<1>6. Paired(toServer[c], end[c] = "up", pending[c])
      /\ Paired(toServer'[c], end[c] = "up", pending[c])
  BY <1>1, PairedTail DEF ClientInv, PairInv
<1>7. p.id \in Calls /\ p.op \in Ops /\ p.kind \in {"request", "data"}
  BY <1>2 DEF Packets
<1>8. p.kind = "data" => type = "ERROR"
  BY <1>3 DEF handle_command
<1>9. p.kind = "request" =>
        IF type = "wait" THEN p.op.data /\ p.op.reply = "STATUS"
        ELSE Fits(type, p.op) /\ type \in {"ERROR", "ATTR", "DATA", "MOREDATA", "STATUS"}
  BY <1>3, <1>7, HandlersFit
<1>10. end[c] = "up" /\ extra[c] = 0 /\ pending[c] # NULL =>
         /\ OnlyOf(toServer[c], pending[c]) /\ OnlyOf(toServer'[c], pending[c])
         /\ p.kind = "request" => p.id = pending[c].id /\ p.op = pending[c].op
         /\ RepliesTo(toClient[c], pending[c])
  BY <1>1, <1>2, OnlyOfTail DEF ClientInv, OwnInv, OnlyOf
<1> HIDE DEF p
<1>11. CASE type # "wait"
  <2>1. Reply(c, p, type) /\ holding' = NULL /\ [type |-> type, id |-> p.id] \in Replies
    BY <1>1, <1>3, <1>7, <1>8, <1>9, <1>11 DEF Replies
  <2>2. Owed(c)' = RequestsIn(toServer'[c])
    BY <1>5, <2>1 DEF Owed, Holds
  <2>3. \/ extra'[c] = extra[c] /\ Owed(c) = Owed(c)' + 1
        \/ extra'[c] = extra[c] + 1 /\ Owed(c)' = Owed(c)
    BY <1>4, <1>5, <1>7, <2>2
  <2>4. end[c] = "up" /\ extra'[c] = 0 /\ pending[c] # NULL =>
          OnlyOf(toServer'[c], pending[c]) /\ p.id = pending[c].id /\ Fits(type, pending[c].op)
    <3>1. extra'[c] = 0 => extra[c] = 0 /\ p.kind = "request"
      BY <1>1, <1>4, <1>7
    <3> QED
      BY <1>9, <1>10, <1>11, <3>1
  <2> QED
    BY <1>1, <1>6, <2>1, <2>3, <2>4, ReplyKeeps
<1>12. CASE type = "wait"
  <2>1. /\ p.kind = "request" /\ p.op.data /\ p.op.reply = "STATUS"
        /\ holding' = [client |-> c, op |-> p.op, id |-> p.id]
        /\ UNCHANGED <<toClient, end, mode>> /\ extra'[c] = extra[c]
    BY <1>3, <1>4, <1>7, <1>8, <1>9, <1>12
  <2>2. Holds(c)' /\ holding'.op = p.op /\ holding'.id = p.id
    <3>1. [client |-> c, op |-> p.op, id |-> p.id] \in [client : Clients, op : Ops, id : 1..MaxCalls]
      BY <1>7 DEF Calls
    <3> QED
      BY <2>1, <3>1, CorefsServerAssumption DEF Holds
  <2>3. Owed(c)' = Owed(c)
    BY <1>5, <2>1, <2>2 DEF Owed
  <2>4. QuietInv(c)' /\ PairInv(c)' /\ LagInv(c)' /\ LeftInv(c)'
    BY <1>1, <1>6, <2>1, <2>3 DEF ClientInv, QuietInv, PairInv, LagInv, LeftInv
  <2>5. HoldInv(c)'
    <3>1. \/ /\ toServer'[c] # <<>> /\ Head(toServer'[c]).kind = "data"
             /\ Head(toServer'[c]).id = p.id
          \/ toServer'[c] = <<>> /\ (end[c] = "up" => Sending(pending[c], p.id))
      BY <1>1, <1>6, <2>1, PairedHead DEF p
    <3> QED
      BY <1>1, <2>1, <2>2, <3>1 DEF HoldInv, Ended
  <2>6. OwnInv(c)'
    BY <1>1, <1>10, <2>1, <2>2 DEF OwnInv
  <2> QED
    BY <1>1, <2>1, <2>4, <2>5, <2>6 DEF ClientInv
<1> QED
  BY <1>11, <1>12

LEMMA ServeDataKeeps ==
  ASSUME LinkType, LinkType', NEW c \in Clients, ClientInv(c), ServeData(c)
  PROVE  ClientInv(c)' /\ (mode' = "ended" => extra'[c] > 0)
<1>1. /\ mode = "up" /\ Holds(c) /\ holding' = NULL /\ UNCHANGED <<conn, pending, extra>>
      /\ toServer[c] \in Seq(Packets) /\ extra[c] \in Nat
      /\ holding.id \in Calls
  BY DEF ServeData, LinkType, Holds
<1>2. PICK type \in {"STATUS", "ERROR"} : Reply(c, holding, type)
  BY DEF ServeData
<1>3. conn[c] = "open" /\ holding.op.reply = "STATUS"
  BY <1>1 DEF ClientInv, HoldInv
<1>4. \/ toServer[c] # <<>> /\ toServer'[c] = Tail(toServer[c]) /\ Head(toServer[c]).kind = "data"
      \/ toServer'[c] = toServer[c]
  <2>1. toServer[c] # <<>> => Head(toServer[c]).kind = "data"
    BY <1>1 DEF ClientInv, HoldInv, Ended
  <2> QED
    BY <2>1 DEF ServeData, LinkType
<1>5. RequestsIn(toServer'[c]) = RequestsIn(toServer[c]) /\ RequestsIn(toServer[c]) \in Nat
  <2>1. CASE toServer'[c] = toServer[c]
    BY <1>1, <2>1, RequestsFinite
  <2>2. CASE /\ toServer[c] # <<>> /\ toServer'[c] = Tail(toServer[c])
             /\ Head(toServer[c]).kind = "data"
    <3>1. Tail(toServer[c]) \in Seq(Packets)
      BY <1>1, <2>2, HeadTailProperties
    <3>2. RequestsIn(toServer[c]) = RequestsIn(Tail(toServer[c])) + 0
      BY <1>1, <2>2, TailCounts
    <3>3. RequestsIn(Tail(toServer[c])) \in Nat
      BY <3>1, RequestsFinite
    <3> QED
      BY <2>2, <3>2, <3>3
  <2> QED
    BY <1>4, <2>1, <2>2
<1>6. Owed(c) = Owed(c)' + 1 /\ extra'[c] = extra[c]
  BY <1>1, <1>5 DEF Owed, Holds
<1>7. Paired(toServer'[c], end[c] = "up", pending[c])
  BY <1>1, <1>4, PairedTail DEF ClientInv, PairInv
<1>8. end[c] = "up" /\ extra'[c] = 0 /\ pending[c] # NULL =>
        /\ OnlyOf(toServer'[c], pending[c])
        /\ holding.id = pending[c].id /\ Fits(type, pending[c].op)
  BY <1>1, <1>3, <1>4, <1>6, OnlyOfTail DEF ClientInv, OwnInv, Fits
<1>9. [type |-> type, id |-> holding.id] \in Replies
  BY <1>1 DEF Replies
<1> QED
  BY <1>1, <1>2, <1>3, <1>6, <1>7, <1>8, <1>9, ReplyKeeps
-----------------------------------------------------------------------------
(* A step is about one client, and leaves the others theirs.                *)

ActsFor(c) ==
  \/ ServerStep(c) \/ ClientStep(c)
  \/ Connect(c) \/ Close(c)
  \/ \E op \in Ops : Call(c, op)

LEMMA OnlyActing ==
  ASSUME LinkType, NEW c \in Clients, ActsFor(c), NEW d \in Clients, d # c
  PROVE  SameAt(d) /\ HoldsSame(d)
<1> USE DEF LinkType, SameAt, HoldsSame, Holds
<1>1. ASSUME NEW op \in Ops, Request(c, op)
      PROVE  toServer'[d] = toServer[d] /\ pending'[d] = pending[d]
  BY <1>1 DEF Request
<1>2. ASSUME NEW p, NEW type, Reply(c, p, type)
      PROVE  toClient'[d] = toClient[d] /\ end'[d] = end[d]
  BY <1>2 DEF Reply
<1>3. CASE Connect(c)
  BY <1>3 DEF Connect
<1>4. CASE \E op \in Ops : Call(c, op)
  BY <1>1, <1>4 DEF Call
<1>5. CASE SendData(c)
  BY <1>5 DEF SendData
<1>6. CASE Answer(c)
  <2>1. Returned(c) \/ (Request(c, do_readdir) /\ do_readdir \in Ops)
    BY <1>6 DEF Answer, Waiting
  <2>2. toServer'[d] = toServer[d] /\ pending'[d] = pending[d]
    BY <1>1, <2>1 DEF Returned
  <2>3. toClient'[d] = toClient[d]
    BY <1>6 DEF Answer
  <2> QED
    BY <1>6, <2>2, <2>3 DEF Answer
<1>7. CASE Close(c)
  BY <1>7 DEF Close
<1>8. CASE Accept(c)
  BY <1>8 DEF Accept
<1>9. CASE Lost(c) \/ AcceptCrashes(c)
  BY <1>9 DEF Lost, AcceptCrashes, link
<1>10. CASE Serve(c)
  <2>1. toClient'[d] = toClient[d] /\ end'[d] = end[d] /\ extra'[d] = extra[d]
    BY <1>2, <1>10 DEF Serve, Handle
  <2>2. holding = NULL /\ (holding' = NULL \/ holding'.client = c)
    BY <1>10 DEF Serve, Handle, Ready
  <2> QED
    BY <1>10, <2>1, <2>2 DEF Serve
<1>11. CASE ServeData(c)
  <2>1. toClient'[d] = toClient[d] /\ end'[d] = end[d]
    BY <1>2, <1>11 DEF ServeData
  <2>2. toServer'[d] = toServer[d] /\ UNCHANGED <<conn, pending, extra>>
    BY <1>11 DEF ServeData
  <2>3. holding.client = c /\ holding' = NULL
    BY <1>11 DEF ServeData
  <2> QED
    BY <2>1, <2>2, <2>3
<1>12. CASE Drop(c)
  BY <1>12 DEF Drop
<1> QED
  BY <1>3, <1>4, <1>5, <1>6, <1>7, <1>8, <1>9, <1>10, <1>11, <1>12
  DEF ActsFor, ServerStep, ClientStep

\* A server that has ended does not come back, and forgets nothing.
LEMMA EndedStays ==
  ASSUME LinkType, NEW c \in Clients, ActsFor(c), mode = "ended"
  PROVE  mode' = "ended" /\ extra' = extra /\ overflowed' = overflowed
BY DEF ActsFor, ServerStep, ClientStep, Connect, Call, SendData, Answer, Close, Accept, AcceptCrashes,
       Lost, Serve, ServeData, Drop, Ready

LEMMA ActingKept ==
  ASSUME LinkType, LinkType', NEW c \in Clients, ClientInv(c), ActsFor(c)
  PROVE  /\ ClientInv(c)'
         /\ mode # "ended" /\ mode' = "ended" => extra'[c] > 0 \/ AcceptCrashes(c)
<1>1. CASE Connect(c)
  BY <1>1, ConnectKeeps DEF Connect
<1>2. CASE \E op \in Ops : Call(c, op)
  BY <1>2, CallKeeps DEF Call
<1>3. CASE SendData(c)
  BY <1>3, SendDataKeeps DEF SendData
<1>4. CASE Answer(c)
  BY <1>4, AnswerKeeps DEF Answer
<1>5. CASE Close(c)
  BY <1>5, CloseKeeps DEF Close
<1>6. CASE Accept(c)
  BY <1>6, AcceptKeeps DEF Accept
<1>7. CASE Lost(c) \/ AcceptCrashes(c)
  <2>1. SameAt(c) /\ HoldsSame(c) /\ mode = "up" /\ (mode' = "lost" \/ AcceptCrashes(c))
    BY <1>7 DEF Lost, AcceptCrashes, Ready, link, SameAt, HoldsSame, Holds
  <2> QED
    BY <2>1, OthersKept
<1>8. CASE Serve(c)
  BY <1>8, ServeKeeps
<1>9. CASE ServeData(c)
  BY <1>9, ServeDataKeeps
<1>10. CASE Drop(c)
  BY <1>10, DropKeeps DEF Drop
<1> QED
  BY <1>1, <1>2, <1>3, <1>4, <1>5, <1>6, <1>7, <1>8, <1>9, <1>10
  DEF ActsFor, ServerStep, ClientStep

LEMMA LinkInit == Init => LinkInv
<1> SUFFICES ASSUME Init PROVE LinkInv
  OBVIOUS
<1>1. LinkType
  BY EmptySeq, CorefsServerAssumption DEF Init, LinkType
<1>2. ASSUME NEW c \in Clients PROVE ClientInv(c)
  <2>1. /\ toServer[c] = <<>> /\ toClient[c] = <<>> /\ pending[c] = NULL /\ holding = NULL
        /\ conn[c] = "none" /\ end[c] = "none" /\ extra[c] = 0
    BY DEF Init
  <2>2. Owed(c) = 0
    BY <2>1, NoRequests DEF Owed, Holds
  <2>3. \A i \in 1..Len(<<>>) : FALSE
    OBVIOUS
  <2> QED
    BY <2>1, <2>2, <2>3
    DEF ClientInv, QuietInv, PairInv, Paired, HoldInv, LagInv, LeftInv, OwnInv, Holds
<1> QED
  BY <1>1, <1>2 DEF LinkInv

LEMMA LinkStep == LinkInv /\ [Next]_vars => LinkInv'
<1> SUFFICES ASSUME LinkInv, [Next]_vars PROVE LinkInv'
  OBVIOUS
<1>1. LinkType /\ LinkType'
  BY TypeStep DEF LinkInv
<1>2. CASE UNCHANGED vars
  <2>1. ASSUME NEW d \in Clients PROVE ClientInv(d)'
    <3>1. SameAt(d) /\ HoldsSame(d) /\ mode' = mode
      BY <1>2 DEF vars, link, SameAt, HoldsSame, Holds
    <3> QED
      BY <3>1, OthersKept DEF LinkInv
  <2> QED
    BY <1>1, <1>2, <2>1 DEF LinkInv
<1>3. ASSUME NEW c \in Clients, ActsFor(c) PROVE LinkInv'
  <2>1. ClientInv(c)'
    BY <1>1, <1>3, ActingKept DEF LinkInv
  <2>2. mode = "ended" => mode' = "ended"
    BY <1>1, <1>3, EndedStays
  <2>3. ASSUME NEW d \in Clients, d # c PROVE ClientInv(d)'
    BY <1>1, <1>3, <2>2, <2>3, OnlyActing, OthersKept DEF LinkInv
  <2> QED
    BY <1>1, <2>1, <2>3 DEF LinkInv
<1> QED
  BY <1>2, <1>3 DEF Next, ActsFor

LEMMA LinkInvHolds == Spec => []LinkInv
BY LinkInit, LinkStep, PTL DEF Spec

\* While the server waits for data in handle_write or handle_setxattr, serving
\* nobody else, that data is in the connection, or its client is between the two
\* sends of do_write or do_setxattr, or has ended: the wait is never for a client
\* that waits for the server.
THEOREM WaitIsForSender == Spec => []WaitsForSender
<1>1. LinkInv => WaitsForSender
  <2> SUFFICES ASSUME LinkInv, holding # NULL PROVE WaitsForSender
    BY DEF WaitsForSender
  <2>1. holding.client \in Clients /\ Holds(holding.client)
    BY DEF LinkInv, LinkType, Holds
  <2>2. HoldInv(holding.client)
    BY <2>1 DEF LinkInv, ClientInv
  <2> QED
    BY <2>1, <2>2 DEF HoldInv, WaitsForSender, Sending
<1> QED
  BY <1>1, LinkInvHolds, PTL

\* A connection stays behind by as many replies as packets of its data have been
\* taken for commands by the loop of main: none is dropped and none is made up.
THEOREM LagAlwaysExtra == Spec => []LagIsExtra
<1>1. LinkInv => LagIsExtra
  <2> SUFFICES ASSUME LinkInv, mode # "ended", NEW c \in Clients, end[c] = "up"
               PROVE  RequestsIn(toServer[c]) + Len(toClient[c])
                        + (IF holding # NULL /\ holding.client = c THEN 1 ELSE 0)
                      = extra[c] + (IF pending[c] = NULL THEN 0 ELSE 1)
    BY DEF LagIsExtra
  <2>1. Owed(c) + Len(toClient[c]) = extra[c] + (IF pending[c] = NULL THEN 0 ELSE 1)
    BY DEF LinkInv, ClientInv, LagInv
  <2>2. Owed(c) = RequestsIn(toServer[c]) + (IF holding # NULL /\ holding.client = c THEN 1 ELSE 0)
    BY DEF Owed, Holds
  <2>3. RequestsIn(toServer[c]) \in Nat /\ Len(toClient[c]) \in Nat
    BY OwedIsNat DEF LinkInv
  <2> QED
    BY <2>1, <2>2, <2>3
<1> QED
  BY <1>1, LinkInvHolds, PTL

\* The reply client_receive_specified takes is to the call its client is in, and of
\* a type the call can use, as long as no data of the connection was taken for a
\* command.
THEOREM RepliesAreOwn == Spec => []AnswersOwn
<1>1. LinkInv => AnswersOwn
  <2> SUFFICES ASSUME LinkInv, NEW c \in Clients, Waiting(c), toClient[c] # <<>>, extra[c] = 0
               PROVE  /\ Head(toClient[c]).id = pending[c].id
                      /\ \/ Head(toClient[c]).type \in {"ERROR", pending[c].op.reply}
                         \/ Head(toClient[c]).type = "MOREDATA" /\ pending[c].op = do_readdir
    BY DEF AnswersOwn
  <2>1. pending[c] # NULL /\ end[c] = "up"
    BY DEF Waiting, LinkInv, ClientInv, QuietInv
  <2>2. RepliesTo(toClient[c], pending[c])
    BY <2>1 DEF LinkInv, ClientInv, OwnInv
  <2>3. Head(toClient[c]) = toClient[c][1] /\ 1 \in 1..Len(toClient[c])
    BY HeadIsFirst DEF LinkInv, LinkType
  <2> QED
    BY <2>2, <2>3 DEF RepliesTo, Fits
<1> QED
  BY <1>1, LinkInvHolds, PTL
-----------------------------------------------------------------------------
(* Lemmas about the list: where a search goes.                              *)

Steps == 0..Cardinality(Cells)

LEMMA Least ==
  ASSUME NEW T \in SUBSET Nat, T # {}
  PROVE  \E m \in T : \A k \in T : m <= k
<1> DEFINE R == OpToRel(<, Nat)
<1>1. IsWellFoundedOn(R, Nat)
  BY NatLessThanWellFounded
<1>2. \A x, y \in Nat : x < y => <<x, y>> \in R
  BY DEF OpToRel
<1> HIDE DEF R
<1>3. PICK m \in T : \A k \in T : ~ (<<k, m>> \in R)
  BY <1>1, WFMin
<1>4. ASSUME NEW k \in T PROVE m <= k
  <2>1. m \in Nat /\ k \in Nat
    OBVIOUS
  <2>2. ~ (k < m)
    BY <1>2, <1>3, <2>1
  <2> QED
    BY <2>1, <2>2
<1> QED
  BY <1>4

LEMMA CellsFinite ==
  /\ IsFiniteSet(Cells) /\ IsFiniteSet(Nodes)
  /\ Cardinality(Nodes) \in Nat /\ Cardinality(Cells) = Cardinality(Nodes) + 1
BY CorefsListAssumption, FS_AddElement, FS_CardinalityType DEF Cells

\* The cell after c.
NextOf(l, c) == IF c = NULL THEN NULL ELSE l.cell[c].next

\* The function Follow defines exists.
LEMMA FollowUnfolds ==
  ASSUME NEW l
  PROVE  Follow(l) = [i \in Steps |-> IF i = 0 THEN head ELSE NextOf(l, Follow(l)[i - 1])]
<1> DEFINE N == Cardinality(Cells)
           Def(g, k) == g = [i \in 0..k |-> IF i = 0 THEN head ELSE NextOf(l, g[i - 1])]
           Bad == {k \in 0..N : ~ \E g : Def(g, k)}
<1>1. N \in Nat
  BY CellsFinite
<1> HIDE DEF N
<1>2. Bad = {}
  <2>1. SUFFICES ASSUME Bad # {} PROVE FALSE
    OBVIOUS
  <2>2. PICK m \in Bad : \A k \in Bad : m <= k
    <3>1. Bad \in SUBSET Nat
      BY <1>1
    <3> QED
      BY <2>1, <3>1, Least
  <2>3. m \in 0..N /\ m \in Nat
    BY <1>1
  <2>4. CASE m = 0
    <3>1. Def([i \in 0..0 |-> head], 0)
      OBVIOUS
    <3> QED
      BY <2>2, <2>4, <3>1
  <2>5. CASE m # 0
    <3>1. m - 1 \in 0..N /\ ~(m <= m - 1)
      BY <1>1, <2>3, <2>5
    <3>2. PICK g : Def(g, m - 1)
      BY <2>2, <3>1
    <3> DEFINE h == [i \in 0..m |-> IF i = 0 THEN head ELSE NextOf(l, g[i - 1])]
    <3>3. \A i \in 0..(m - 1) : h[i] = g[i]
      BY <2>3, <2>5, <3>2
    <3>4. \A i \in 0..m : i # 0 => i - 1 \in 0..(m - 1)
      BY <2>3, <2>5
    <3>5. Def(h, m)
      BY <3>3, <3>4
    <3> QED
      BY <2>2, <3>5
  <2> QED
    BY <2>4, <2>5
<1>3. \E g : Def(g, N)
  BY <1>1, <1>2
<1>4. Follow(l) = CHOOSE g : g = [i \in 0..N |-> IF i = 0 THEN head
                                 ELSE IF g[i - 1] = NULL THEN NULL ELSE l.cell[g[i - 1]].next]
  BY DEF Follow, N
<1>5. Def(Follow(l), N)
  BY <1>3, <1>4 DEF NextOf
<1> QED
  BY <1>5 DEF Steps, N

-----------------------------------------------------------------------------
(* A list that is linked in an order, and what becomes of the order.        *)

\* The cell at i, the head first, and the one that follows.
At(s, i) == IF i = 0 THEN head ELSE s[i]
NextAt(s, n, i) == IF i = n THEN NULL ELSE s[i + 1]

Linked(cell, tail, s, n) ==
  /\ n \in Nat /\ s \in [1..n -> Nodes]
  /\ \A i, j \in 1..n : s[i] = s[j] => i = j
  /\ cell \in [Cells -> Cell]
  /\ \A i \in 0..n : cell[At(s, i)].next = NextAt(s, n, i)
  /\ \A i \in 1..n : cell[s[i]].prev = At(s, i - 1)
  /\ n > 0 => tail = s[n]

\* The cells are the same but for their links.
SameContents(cell, new) ==
  \A c \in Cells : new[c].server_addr = cell[c].server_addr /\ new[c].data = cell[c].data

LEMMA LinkedFits ==
  ASSUME NEW cell, NEW tail, NEW s, NEW n, Linked(cell, tail, s, n)
  PROVE  n < Cardinality(Cells) /\ n \in Nat
<1>1. s \in Injection(1..n, Nodes) /\ n \in Nat
  BY Fun_IsInj DEF Linked
<1>2. Cardinality(1..n) = n
  BY <1>1, FS_Interval
<1>3. Cardinality(1..n) <= Cardinality(Nodes)
  BY <1>1, CellsFinite, FS_Injection DEF ExistsInjection
<1> QED
  BY <1>1, <1>2, <1>3, CellsFinite

\* A search goes through the list in its order, and ends.
LEMMA FollowLinked ==
  ASSUME NEW l, NEW s, NEW n, Linked(l.cell, l.tail, s, n)
  PROVE  \A i \in Steps : Follow(l)[i] = IF i <= n THEN At(s, i) ELSE NULL
<1> DEFINE N == Cardinality(Cells)
           at == Follow(l)
           Right(i) == at[i] = IF i <= n THEN At(s, i) ELSE NULL
           Bad == {i \in Steps : ~Right(i)}
<1>1. N \in Nat /\ Steps = 0..N /\ n \in Nat
  BY CellsFinite DEF Steps, Linked
<1>2. \A i \in Steps : at[i] = IF i = 0 THEN head ELSE NextOf(l, at[i - 1])
  BY FollowUnfolds
<1> HIDE DEF N, at
<1>3. SUFFICES ASSUME Bad # {} PROVE FALSE
  BY DEF at
<1>4. PICK m \in Bad : \A i \in Bad : m <= i
  <2>1. Bad \in SUBSET Nat
    BY <1>1
  <2> QED
    BY <1>3, <2>1, Least
<1>5. m \in Steps /\ m \in Nat /\ ~Right(m)
  BY <1>1
<1>6. CASE m = 0
  BY <1>1, <1>2, <1>5, <1>6 DEF At
<1>7. CASE m # 0
  <2>1. m - 1 \in Steps /\ m - 1 \in Nat /\ ~(m <= m - 1)
    BY <1>1, <1>5, <1>7
  <2>2. Right(m - 1)
    BY <1>4, <2>1
  <2>3. at[m] = NextOf(l, at[m - 1])
    BY <1>2, <1>5, <1>7
  <2>4. CASE m - 1 <= n
    <3>1. at[m - 1] = At(s, m - 1) /\ m - 1 \in 0..n
      BY <1>1, <2>1, <2>2, <2>4
    <3>2. At(s, m - 1) # NULL
      BY <1>1, <3>1, CorefsListAssumption DEF At, Linked
    <3>3. l.cell[At(s, m - 1)].next = NextAt(s, n, m - 1)
      BY <3>1 DEF Linked
    <3>4. at[m] = NextAt(s, n, m - 1)
      BY <2>3, <3>1, <3>2, <3>3 DEF NextOf
    <3>5. (m - 1) + 1 = m /\ (m - 1 = n <=> ~(m <= n))
      BY <1>1, <1>5, <2>4
    <3>6. Right(m)
      BY <1>7, <3>4, <3>5 DEF NextAt, At
    <3> QED
      BY <1>5, <3>6
  <2>5. CASE ~(m - 1 <= n)
    <3>1. at[m - 1] = NULL
      BY <2>2, <2>5
    <3>2. ~(m <= n)
      BY <1>1, <1>5, <2>5
    <3> QED
      BY <1>5, <2>3, <3>1, <3>2 DEF NextOf
  <2> QED
    BY <2>4, <2>5
<1> QED
  BY <1>6, <1>7

\* A search finds the node that has the key, if one has.
LEMMA FindLinked ==
  ASSUME NEW l, NEW s, NEW n, Linked(l.cell, l.tail, s, n),
         \A i, j \in 1..n : l.cell[s[i]].server_addr = l.cell[s[j]].server_addr => i = j
  PROVE  \A key :
           /\ \A i \in 1..n : l.cell[s[i]].server_addr = key => Find(l, key) = s[i]
           /\ (\A i \in 1..n : l.cell[s[i]].server_addr # key) => Find(l, key) = NULL
<1> SUFFICES ASSUME NEW key
             PROVE  /\ \A i \in 1..n : l.cell[s[i]].server_addr = key => Find(l, key) = s[i]
                    /\ (\A i \in 1..n : l.cell[s[i]].server_addr # key) => Find(l, key) = NULL
  OBVIOUS
<1> DEFINE N == Cardinality(Cells)
           at == Follow(l)
           found == {i \in 1..N : at[i] # NULL /\ l.cell[at[i]].server_addr = key}
<1>1. N \in Nat /\ Steps = 0..N /\ n \in Nat /\ n < N /\ N \in Steps
  BY CellsFinite, LinkedFits DEF Steps
<1>2. \A i \in Steps : at[i] = IF i <= n THEN At(s, i) ELSE NULL
  BY FollowLinked
<1>3. Find(l, key) = IF found # {} THEN at[CHOOSE i \in found : \A j \in found : i <= j]
                     ELSE IF at[N] # NULL THEN Loops ELSE NULL
  BY DEF Find, Cyclic
<1>4. \A i \in 1..n : at[i] = s[i] /\ s[i] # NULL /\ i \in 1..N
  <2>1. ASSUME NEW i \in 1..n PROVE at[i] = s[i] /\ s[i] # NULL /\ i \in 1..N
    <3>1. i \in Steps /\ i <= n /\ i # 0 /\ i \in 1..N
      BY <1>1
    <3> QED
      BY <1>2, <3>1, CorefsListAssumption DEF At, Linked
  <2> QED
    BY <2>1
<1>5. at[N] = NULL /\ \A i \in 1..N : at[i] # NULL => i \in 1..n
  BY <1>1, <1>2
<1> HIDE DEF N, at
<1>6. found = {i \in 1..n : l.cell[s[i]].server_addr = key}
  BY <1>4, <1>5
<1>7. ASSUME NEW i \in 1..n, l.cell[s[i]].server_addr = key PROVE Find(l, key) = s[i]
  <2>1. found = {i}
    BY <1>6, <1>7
  <2>2. i \in Nat /\ i <= i
    BY <1>1
  <2>3. (CHOOSE j \in found : \A k \in found : j <= k) = i
    BY <2>1, <2>2
  <2> QED
    BY <1>3, <1>4, <2>1, <2>3
<1>8. ASSUME \A i \in 1..n : l.cell[s[i]].server_addr # key PROVE Find(l, key) = NULL
  BY <1>3, <1>5, <1>6, <1>8
<1> QED
  BY <1>7, <1>8

LEMMA LinkedIsWell ==
  ASSUME NEW l, NEW s, NEW n, Linked(l.cell, l.tail, s, n), l.alength = n,
         \A i, j \in 1..n : l.cell[s[i]].server_addr = l.cell[s[j]].server_addr => i = j
  PROVE  WellLinked(l)
<1> DEFINE N == Cardinality(Cells)
           at == Follow(l)
<1>1. N \in Nat /\ Steps = 0..N /\ n \in Nat /\ n < N /\ N \in Steps
  BY CellsFinite, LinkedFits DEF Steps
<1>2. \A i \in Steps : at[i] = IF i <= n THEN At(s, i) ELSE NULL
  BY FollowLinked
<1>3. \A i \in 0..n : at[i] = At(s, i) /\ At(s, i) # NULL
  <2>1. ASSUME NEW i \in 0..n PROVE at[i] = At(s, i) /\ At(s, i) # NULL
    <3>1. i \in Steps /\ i <= n
      BY <1>1
    <3> QED
      BY <1>1, <1>2, <3>1, CorefsListAssumption DEF At, Linked
  <2> QED
    BY <2>1
<1> HIDE DEF N, at
<1>4. at[N] = NULL /\ \A i \in 1..N : at[i] # NULL <=> i <= n
  BY <1>1, <1>2, <1>3
<1>5. ASSUME NEW i \in 1..n
      PROVE  /\ l.cell[at[i]].prev = at[i - 1]
             /\ \A j \in 1..(i - 1) : l.cell[at[i]].server_addr # l.cell[at[j]].server_addr
  <2>1. at[i] = s[i] /\ at[i - 1] = At(s, i - 1)
    BY <1>1, <1>3 DEF At
  <2>2. \A j \in 1..(i - 1) : j \in 1..n /\ at[j] = s[j] /\ j # i
    BY <1>1, <1>3 DEF At
  <2> QED
    BY <2>1, <2>2 DEF Linked
<1>6. n > 0 => l.tail = at[n]
  BY <1>1, <1>3 DEF Linked, At
<1> QED
  BY <1>4, <1>5, <1>6 DEF WellLinked, Cyclic, N, at

Front(s, n, node) == [i \in 1..(n + 1) |-> IF i = 1 THEN node ELSE s[i - 1]]
Without(s, n, k) == [i \in 1..(n - 1) |-> IF i < k THEN s[i] ELSE s[i + 1]]

\* Contents and one link of d are the same, the other is what it is said to be.
KeepsNext(cell, new, d) ==
  /\ new[d].next = cell[d].next
  /\ new[d].server_addr = cell[d].server_addr /\ new[d].data = cell[d].data
KeepsPrev(cell, new, d) ==
  /\ new[d].prev = cell[d].prev
  /\ new[d].server_addr = cell[d].server_addr /\ new[d].data = cell[d].data

WithNext(cell, c, to) == [cell EXCEPT ![c].next = to]
WithPrev(cell, c, to) == [cell EXCEPT ![c].prev = to]

LEMMA SetNext ==
  ASSUME NEW cell \in [Cells -> Cell], NEW c \in Cells, NEW to \in Links
  PROVE  /\ WithNext(cell, c, to) \in [Cells -> Cell]
         /\ \A d \in Cells :
              /\ KeepsPrev(cell, WithNext(cell, c, to), d)
              /\ WithNext(cell, c, to)[d].next = IF d = c THEN to ELSE cell[d].next
<1> DEFINE new == [cell EXCEPT ![c].next = to]
<1>1. cell[c] \in Cell
  OBVIOUS
<1>2. /\ [cell[c] EXCEPT !.next = to] \in Cell
      /\ [cell[c] EXCEPT !.next = to].next = to
      /\ [cell[c] EXCEPT !.next = to].prev = cell[c].prev
      /\ [cell[c] EXCEPT !.next = to].server_addr = cell[c].server_addr
      /\ [cell[c] EXCEPT !.next = to].data = cell[c].data
  BY <1>1 DEF Cell
<1>3. new \in [Cells -> Cell]
  BY <1>2
<1>4. new[c] = [cell[c] EXCEPT !.next = to] /\ \A d \in Cells : d # c => new[d] = cell[d]
  OBVIOUS
<1> QED
  BY <1>2, <1>3, <1>4 DEF KeepsPrev, WithNext

LEMMA SetPrev ==
  ASSUME NEW cell \in [Cells -> Cell], NEW c \in Cells, NEW to \in Links
  PROVE  /\ WithPrev(cell, c, to) \in [Cells -> Cell]
         /\ \A d \in Cells :
              /\ KeepsNext(cell, WithPrev(cell, c, to), d)
              /\ WithPrev(cell, c, to)[d].prev = IF d = c THEN to ELSE cell[d].prev
<1> DEFINE new == [cell EXCEPT ![c].prev = to]
<1>1. cell[c] \in Cell
  OBVIOUS
<1>2. /\ [cell[c] EXCEPT !.prev = to] \in Cell
      /\ [cell[c] EXCEPT !.prev = to].prev = to
      /\ [cell[c] EXCEPT !.prev = to].next = cell[c].next
      /\ [cell[c] EXCEPT !.prev = to].server_addr = cell[c].server_addr
      /\ [cell[c] EXCEPT !.prev = to].data = cell[c].data
  BY <1>1 DEF Cell
<1>3. new \in [Cells -> Cell]
  BY <1>2
<1>4. new[c] = [cell[c] EXCEPT !.prev = to] /\ \A d \in Cells : d # c => new[d] = cell[d]
  OBVIOUS
<1> QED
  BY <1>2, <1>3, <1>4 DEF KeepsNext, WithPrev

\* The fields of the cells once node has been put in front.
LEMMA PushedFields ==
  ASSUME NEW cell \in [Cells -> Cell], NEW node \in Nodes
  PROVE  LET first == cell[head].next
             new == PushFront(cell, node)
         IN /\ new \in [Cells -> Cell]
            /\ \A c \in Cells :
                 /\ new[c].next = IF c = head THEN node ELSE IF c = node THEN first ELSE cell[c].next
                 /\ new[c].prev = IF c = node THEN head ELSE IF c = first THEN node ELSE cell[c].prev
                 /\ new[c].server_addr = cell[c].server_addr /\ new[c].data = cell[c].data
<1> DEFINE first == cell[head].next
           new == PushFront(cell, node)
<1>1. head \in Cells /\ node \in Cells /\ node # head /\ NULL \notin Cells
  BY CorefsListAssumption DEF Cells
<1>2. first \in Links
  BY <1>1 DEF Cell
<1> DEFINE one == IF first = NULL THEN cell ELSE WithPrev(cell, first, node)
           two == WithNext(one, node, first)
           three == WithPrev(two, node, head)
           four == WithNext(three, head, node)
<1>3. new = four
  BY DEF PushFront, WithNext, WithPrev
<1>4. node \in Links /\ head \in Links /\ (first # NULL => first \in Cells)
  BY <1>1, <1>2 DEF Links
<1>5. /\ one \in [Cells -> Cell]
      /\ \A c \in Cells :
           KeepsNext(cell, one, c) /\ one[c].prev = IF c = first THEN node ELSE cell[c].prev
  <2> HIDE DEF first
  <2>1. CASE first = NULL
    BY <1>1, <2>1 DEF KeepsNext
  <2>2. CASE first # NULL
    <3>1. one = WithPrev(cell, first, node) /\ first \in Cells
      BY <1>4, <2>2
    <3> HIDE DEF one
    <3>2. /\ WithPrev(cell, first, node) \in [Cells -> Cell]
          /\ \A c \in Cells :
               /\ KeepsNext(cell, WithPrev(cell, first, node), c)
               /\ WithPrev(cell, first, node)[c].prev = IF c = first THEN node ELSE cell[c].prev
      BY <1>1, <1>4, <3>1, SetPrev
    <3> QED
      BY <3>1, <3>2
  <2> QED
    BY <2>1, <2>2
<1> HIDE DEF one, first
<1>6. /\ two \in [Cells -> Cell]
      /\ \A c \in Cells :
           KeepsPrev(one, two, c) /\ two[c].next = IF c = node THEN first ELSE one[c].next
  BY <1>1, <1>2, <1>5, SetNext
<1> HIDE DEF two
<1>7. /\ three \in [Cells -> Cell]
      /\ \A c \in Cells :
           KeepsNext(two, three, c) /\ three[c].prev = IF c = node THEN head ELSE two[c].prev
  BY <1>1, <1>4, <1>6, SetPrev
<1> HIDE DEF three
<1>8. /\ four \in [Cells -> Cell]
      /\ \A c \in Cells :
           KeepsPrev(three, four, c) /\ four[c].next = IF c = head THEN node ELSE three[c].next
  BY <1>1, <1>4, <1>7, SetNext
<1> HIDE DEF four
<1>9. ASSUME NEW c \in Cells
      PROVE  /\ four[c].next = IF c = head THEN node ELSE IF c = node THEN first ELSE cell[c].next
             /\ four[c].prev = IF c = node THEN head ELSE IF c = first THEN node ELSE cell[c].prev
             /\ four[c].server_addr = cell[c].server_addr /\ four[c].data = cell[c].data
  BY <1>5, <1>6, <1>7, <1>8 DEF KeepsNext, KeepsPrev
<1> QED
  BY <1>3, <1>8, <1>9 DEF first

LEMMA PushLinked ==
  ASSUME NEW cell, NEW tail, NEW s, NEW n, Linked(cell, tail, s, n),
         NEW node \in Nodes, \A i \in 1..n : s[i] # node
  PROVE  /\ Linked(PushFront(cell, node), IF n = 0 THEN node ELSE tail, Front(s, n, node), n + 1)
         /\ SameContents(cell, PushFront(cell, node))
<1> DEFINE first == cell[head].next
           new == PushFront(cell, node)
           t == Front(s, n, node)
<1>1. /\ n \in Nat /\ s \in [1..n -> Nodes] /\ cell \in [Cells -> Cell]
      /\ head \in Cells /\ node \in Cells /\ node # head /\ Nodes \subseteq Cells
      /\ head \notin Nodes /\ NULL \notin Cells
  BY CorefsListAssumption DEF Linked, Cells
<1>2. first = IF n = 0 THEN NULL ELSE s[1]
  BY <1>1 DEF Linked, At, NextAt
<1>3. first \in Links
  BY <1>1 DEF Cell
<1>4. new \in [Cells -> Cell]
  BY <1>1, PushedFields
<1>5. \A c \in Cells :
        /\ new[c].next = IF c = head THEN node ELSE IF c = node THEN first ELSE cell[c].next
        /\ new[c].prev = IF c = node THEN head ELSE IF c = first THEN node ELSE cell[c].prev
        /\ new[c].server_addr = cell[c].server_addr /\ new[c].data = cell[c].data
  BY <1>1, PushedFields
<1> HIDE DEF new
<1>6. t \in [1..(n + 1) -> Nodes] /\ t[1] = node /\ \A i \in 2..(n + 1) : t[i] = s[i - 1]
  BY <1>1 DEF Front
<1> HIDE DEF t
<1>7. \A i, j \in 1..(n + 1) : t[i] = t[j] => i = j
  <2>1. \A i \in 2..(n + 1) : i - 1 \in 1..n /\ t[i] # node
    BY <1>1, <1>6
  <2>2. \A i, j \in 2..(n + 1) : t[i] = t[j] => i - 1 = j - 1
    BY <1>6, <2>1 DEF Linked
  <2> QED
    BY <1>1, <1>6, <2>1, <2>2
<1>8. ASSUME NEW i \in 0..(n + 1) PROVE new[At(t, i)].next = NextAt(t, n + 1, i)
  <2>1. CASE i = 0
    BY <1>1, <1>5, <1>6, <2>1 DEF At, NextAt
  <2>2. CASE i = 1
    BY <1>1, <1>2, <1>5, <1>6, <2>2 DEF At, NextAt
  <2>3. CASE i > 1
    <3>1. i - 1 \in 1..n /\ i \in 2..(n + 1) /\ At(t, i) = s[i - 1] /\ At(s, i - 1) = s[i - 1]
      BY <1>1, <1>6, <2>3 DEF At
    <3>2. s[i - 1] \in Nodes /\ s[i - 1] # node
      BY <1>1, <3>1
    <3>3. new[At(t, i)].next = NextAt(s, n, i - 1)
      BY <1>1, <1>5, <3>1, <3>2 DEF Linked
    <3>4. i < n + 1 => t[i + 1] = s[(i - 1) + 1]
      BY <1>1, <1>6, <2>3
    <3> QED
      BY <1>1, <2>3, <3>3, <3>4 DEF NextAt
  <2> QED
    BY <1>1, <2>1, <2>2, <2>3
<1>9. ASSUME NEW i \in 1..(n + 1) PROVE new[t[i]].prev = At(t, i - 1)
  <2>1. CASE i = 1
    BY <1>1, <1>5, <1>6, <2>1 DEF At
  <2>2. CASE i = 2
    <3>1. n # 0 /\ t[2] = first /\ first \in Nodes /\ first # node /\ t[2 - 1] = node
      BY <1>1, <1>2, <1>6, <2>2
    <3> QED
      BY <1>1, <1>5, <2>2, <3>1 DEF At
  <2>3. CASE i > 2
    <3>1. i - 1 \in 1..n /\ i \in 2..(n + 1) /\ i - 1 \in 2..(n + 1) /\ 1 \in 1..n
      BY <1>1, <2>3
    <3>2. t[i] = s[i - 1] /\ t[i - 1] = s[(i - 1) - 1] /\ s[i - 1] \in Nodes
      BY <1>1, <1>6, <3>1
    <3>3. s[i - 1] # node /\ s[i - 1] # first
      BY <1>1, <1>2, <2>3, <3>1 DEF Linked
    <3>4. new[t[i]].prev = At(s, (i - 1) - 1)
      BY <1>1, <1>5, <3>1, <3>2, <3>3 DEF Linked
    <3> QED
      BY <1>1, <2>3, <3>2, <3>4 DEF At
  <2> QED
    BY <1>1, <2>1, <2>2, <2>3
<1>10. (IF n = 0 THEN node ELSE tail) = t[n + 1]
  BY <1>1, <1>6 DEF Linked
<1>11. Linked(new, IF n = 0 THEN node ELSE tail, t, n + 1)
  BY <1>1, <1>4, <1>6, <1>7, <1>8, <1>9, <1>10 DEF Linked
<1> QED
  BY <1>5, <1>11 DEF SameContents, new, t

IsRecord(l) == l = [cell |-> l.cell, tail |-> l.tail, alength |-> l.alength]

\* The fields of the list once node has been taken out.
LEMMA UnlinkedFields ==
  ASSUME NEW l, IsRecord(l), l.cell \in [Cells -> Cell], NEW node,
         NEW prev \in Cells, NEW next \in Links,
         l.cell[node].prev = prev, l.cell[node].next = next
  PROVE  LET out == Unlink(l, node)
         IN /\ out = [cell |-> out.cell, tail |-> IF next = NULL THEN prev ELSE l.tail,
                      alength |-> l.alength]
            /\ out.cell \in [Cells -> Cell]
            /\ \A c \in Cells :
                 /\ out.cell[c].next = IF c = prev THEN next ELSE l.cell[c].next
                 /\ out.cell[c].prev = IF c = next THEN prev ELSE l.cell[c].prev
                 /\ out.cell[c].server_addr = l.cell[c].server_addr
                 /\ out.cell[c].data = l.cell[c].data
<1> DEFINE cell == l.cell
           cut == WithNext(cell, prev, next)
           new == IF next = NULL THEN cut ELSE WithPrev(cut, next, prev)
           out == Unlink(l, node)
           last == IF next = NULL THEN prev ELSE l.tail
<1>1. prev \in Links /\ (next # NULL => next \in Cells) /\ NULL \notin Cells
  BY CorefsListAssumption DEF Links, Cells
<1>2. out = [cell |-> new, tail |-> last, alength |-> l.alength]
  BY DEF IsRecord, Unlink, WithNext, WithPrev
<1> HIDE DEF cell
<1>3. /\ cut \in [Cells -> Cell]
      /\ \A c \in Cells : /\ KeepsPrev(cell, cut, c)
                          /\ cut[c].next = IF c = prev THEN next ELSE cell[c].next
  BY SetNext DEF cell
<1> HIDE DEF cut
<1>4. /\ new \in [Cells -> Cell]
      /\ \A c \in Cells : /\ KeepsNext(cut, new, c)
                          /\ new[c].prev = IF c = next THEN prev ELSE cut[c].prev
  <2>1. CASE next = NULL
    BY <1>1, <1>3, <2>1 DEF KeepsNext
  <2>2. CASE next # NULL
    <3>1. new = WithPrev(cut, next, prev) /\ next \in Cells
      BY <1>1, <2>2
    <3> HIDE DEF new
    <3>2. /\ WithPrev(cut, next, prev) \in [Cells -> Cell]
          /\ \A c \in Cells :
               /\ KeepsNext(cut, WithPrev(cut, next, prev), c)
               /\ WithPrev(cut, next, prev)[c].prev = IF c = next THEN prev ELSE cut[c].prev
      BY <1>1, <1>3, <3>1, SetPrev
    <3> QED
      BY <3>1, <3>2
  <2> QED
    BY <2>1, <2>2
<1> HIDE DEF new
<1>5. \A c \in Cells :
        /\ new[c].next = IF c = prev THEN next ELSE cell[c].next
        /\ new[c].prev = IF c = next THEN prev ELSE cell[c].prev
        /\ new[c].server_addr = cell[c].server_addr /\ new[c].data = cell[c].data
  BY <1>3, <1>4 DEF KeepsNext, KeepsPrev
<1>6. out.cell = new
  BY <1>2
<1> HIDE DEF out
<1> QED
  BY <1>2, <1>4, <1>5, <1>6 DEF cell, out

LEMMA UnlinkLinked ==
  ASSUME NEW l, NEW s, NEW n, Linked(l.cell, l.tail, s, n), NEW k \in 1..n,
         IsRecord(l)
  PROVE  /\ Linked(Unlink(l, s[k]).cell, Unlink(l, s[k]).tail, Without(s, n, k), n - 1)
         /\ SameContents(l.cell, Unlink(l, s[k]).cell)
         /\ IsRecord(Unlink(l, s[k])) /\ Unlink(l, s[k]).alength = l.alength
<1> DEFINE cell == l.cell
           prev == At(s, k - 1)
           next == NextAt(s, n, k)
           out == Unlink(l, s[k])
           new == out.cell
           t == Without(s, n, k)
           last == IF next = NULL THEN prev ELSE l.tail
<1>1. /\ n \in Nat /\ s \in [1..n -> Nodes] /\ cell \in [Cells -> Cell] /\ k \in Nat
      /\ Nodes \subseteq Cells /\ head \in Cells /\ head \notin Nodes /\ NULL \notin Cells
      /\ \A i, j \in 1..n : s[i] = s[j] => i = j
  BY CorefsListAssumption DEF Linked, Cells
<1>2. /\ prev \in Cells /\ prev \in Links /\ next \in Links
      /\ next = IF k = n THEN NULL ELSE s[k + 1]
      /\ prev = IF k = 1 THEN head ELSE s[k - 1]
      /\ next # NULL => next \in Cells
  BY <1>1 DEF At, NextAt, Links
<1>3. cell[s[k]].prev = prev /\ cell[s[k]].next = next
  BY <1>1 DEF Linked, At
<1>4. out = [cell |-> new, tail |-> last, alength |-> l.alength]
  BY <1>1, <1>2, <1>3, UnlinkedFields
<1>7. /\ new \in [Cells -> Cell]
      /\ \A c \in Cells :
           /\ new[c].next = IF c = prev THEN next ELSE cell[c].next
           /\ new[c].prev = IF c = next THEN prev ELSE cell[c].prev
           /\ new[c].server_addr = cell[c].server_addr /\ new[c].data = cell[c].data
  BY <1>1, <1>2, <1>3, UnlinkedFields
<1> HIDE DEF prev, next, cell, new
<1>8. t \in [1..(n - 1) -> Nodes] /\ \A i \in 1..(n - 1) : t[i] = IF i < k THEN s[i] ELSE s[i + 1]
  BY <1>1 DEF Without
<1> HIDE DEF t
<1>9. \A i, j \in 1..(n - 1) : t[i] = t[j] => i = j
  BY <1>1, <1>8
<1>10. ASSUME NEW i \in 0..(n - 1) PROVE new[At(t, i)].next = NextAt(t, n - 1, i)
  <2>1. CASE i < k - 1
    <3>1. At(t, i) = At(s, i) /\ At(s, i) \in Cells /\ At(s, i) # prev
      BY <1>1, <1>2, <1>8, <2>1 DEF At
    <3>2. cell[At(s, i)].next = NextAt(s, n, i) /\ i \in 0..n
      BY <1>1 DEF Linked, cell
    <3>3. NextAt(s, n, i) = s[i + 1] /\ NextAt(t, n - 1, i) = t[i + 1] /\ t[i + 1] = s[i + 1]
      BY <1>1, <1>8, <2>1 DEF NextAt
    <3> QED
      BY <1>7, <3>1, <3>2, <3>3
  <2>2. CASE i = k - 1
    <3>1. At(t, i) = prev
      BY <1>1, <1>2, <1>8, <2>2 DEF At
    <3>2. NextAt(t, n - 1, i) = next
      BY <1>1, <1>2, <1>8, <2>2 DEF NextAt
    <3> QED
      BY <1>2, <1>7, <3>1, <3>2
  <2>3. CASE i > k - 1
    <3>1. i \in 1..(n - 1) /\ i + 1 \in 1..n /\ At(t, i) = s[i + 1] /\ At(s, i + 1) = s[i + 1]
      BY <1>1, <1>8, <2>3 DEF At
    <3>2. s[i + 1] \in Cells /\ s[i + 1] # prev
      BY <1>1, <1>2, <2>3, <3>1
    <3>3. cell[s[i + 1]].next = NextAt(s, n, i + 1)
      BY <1>1, <3>1 DEF Linked, cell
    <3>4. NextAt(t, n - 1, i) = NextAt(s, n, i + 1)
      <4>1. CASE i = n - 1
        BY <1>1, <4>1 DEF NextAt
      <4>2. CASE i # n - 1
        <5>1. i + 1 \in 1..(n - 1) /\ ~(i + 1 < k) /\ i + 1 # n
          BY <1>1, <2>3, <3>1, <4>2
        <5> QED
          BY <1>8, <4>2, <5>1 DEF NextAt
      <4> QED
        BY <4>1, <4>2
    <3> QED
      BY <1>7, <3>1, <3>2, <3>3, <3>4
  <2> QED
    BY <1>1, <2>1, <2>2, <2>3
<1>11. ASSUME NEW i \in 1..(n - 1) PROVE new[t[i]].prev = At(t, i - 1)
  <2>1. CASE i < k
    <3>1. t[i] = s[i] /\ i \in 1..n /\ s[i] \in Cells /\ s[i] # next
      BY <1>1, <1>2, <1>8, <2>1
    <3>2. cell[s[i]].prev = At(s, i - 1)
      BY <3>1 DEF Linked, cell
    <3>3. At(t, i - 1) = At(s, i - 1)
      BY <1>1, <1>8, <2>1 DEF At
    <3> QED
      BY <1>7, <3>1, <3>2, <3>3
  <2>2. CASE i = k
    <3>1. t[i] = next /\ next \in Cells
      BY <1>1, <1>2, <1>8, <2>2
    <3>2. At(t, i - 1) = prev
      BY <1>1, <1>2, <1>8, <2>2 DEF At
    <3> QED
      BY <1>7, <3>1, <3>2
  <2>3. CASE i > k
    <3>1. t[i] = s[i + 1] /\ i + 1 \in 1..n /\ s[i + 1] \in Cells /\ s[i + 1] # next
      BY <1>1, <1>2, <1>8, <2>3
    <3>2. cell[s[i + 1]].prev = At(s, (i + 1) - 1)
      BY <3>1 DEF Linked, cell
    <3>3. At(t, i - 1) = s[i] /\ At(s, (i + 1) - 1) = s[i]
      BY <1>1, <1>8, <2>3 DEF At
    <3> QED
      BY <1>7, <3>1, <3>2, <3>3
  <2> QED
    BY <1>1, <2>1, <2>2, <2>3
<1>12. n - 1 > 0 => last = t[n - 1]
  <2>1. SUFFICES ASSUME n - 1 > 0 PROVE last = t[n - 1]
    OBVIOUS
  <2>2. n - 1 \in 1..(n - 1) /\ (n - 1) + 1 = n /\ n > 0
    BY <1>1, <2>1
  <2>3. CASE k = n
    BY <1>2, <1>8, <2>2, <2>3
  <2>4. CASE k # n
    <3>1. ~(n - 1 < k) /\ k + 1 \in 1..n
      BY <1>1, <2>4
    <3>2. t[n - 1] = s[n] /\ next # NULL
      BY <1>1, <1>2, <1>8, <2>2, <2>4, <3>1
    <3> QED
      BY <2>2, <3>2 DEF Linked
  <2> QED
    BY <2>3, <2>4
<1>13. Linked(new, last, t, n - 1)
  BY <1>1, <1>7, <1>8, <1>9, <1>10, <1>11, <1>12 DEF Linked
<1>14. out.cell = new /\ out.tail = last
  BY <1>4
<1>15. SameContents(cell, new)
  BY <1>7 DEF SameContents
<1> HIDE DEF out
<1> QED
  BY <1>4, <1>13, <1>14, <1>15 DEF out, t, cell, IsRecord

\* A node that is not in the list may become anything.
LEMMA LinkedElsewhere ==
  ASSUME NEW cell, NEW tail, NEW s, NEW n, Linked(cell, tail, s, n),
         NEW node \in Nodes, \A i \in 1..n : s[i] # node,
         NEW new \in [Cells -> Cell], \A c \in Cells \ {node} : new[c] = cell[c]
  PROVE  Linked(new, tail, s, n)
<1>1. \A i \in 0..n : At(s, i) \in Cells \ {node}
  BY CorefsListAssumption DEF Linked, At, Cells
<1>2. \A i \in 1..n : s[i] \in Cells \ {node}
  BY DEF Linked, Cells
<1> QED
  BY <1>1, <1>2 DEF Linked

Members(s, n) == {s[i] : i \in 1..n}

LEMMA FrontMembers ==
  ASSUME NEW s, NEW n \in Nat, NEW node
  PROVE  Members(Front(s, n, node), n + 1) = Members(s, n) \cup {node}
<1> DEFINE t == Front(s, n, node)
<1>1. t[1] = node /\ \A i \in 1..n : i + 1 \in 1..(n + 1) /\ t[i + 1] = s[i]
  BY DEF Front
<1>2. \A i \in 1..(n + 1) : i = 1 \/ (i - 1 \in 1..n /\ t[i] = s[i - 1])
  BY DEF Front
<1> HIDE DEF t
<1>3. Members(t, n + 1) = Members(s, n) \cup {node}
  BY <1>1, <1>2 DEF Members
<1> QED
  BY <1>3 DEF t

LEMMA WithoutMembers ==
  ASSUME NEW s, NEW n \in Nat, NEW k \in 1..n, \A i, j \in 1..n : s[i] = s[j] => i = j
  PROVE  Members(Without(s, n, k), n - 1) = Members(s, n) \ {s[k]}
<1> DEFINE t == Without(s, n, k)
<1>1. \A i \in 1..(n - 1) : \E j \in 1..n : j # k /\ t[i] = s[j]
  BY DEF Without
<1>2. \A j \in 1..n : j # k => \E i \in 1..(n - 1) : t[i] = s[j]
  <2>1. ASSUME NEW j \in 1..n, j # k PROVE \E i \in 1..(n - 1) : t[i] = s[j]
    <3>1. CASE j < k
      <4>1. j \in 1..(n - 1) /\ t[j] = s[j]
        BY <3>1 DEF Without
      <4> QED
        BY <4>1
    <3>2. CASE j > k
      <4>1. j - 1 \in 1..(n - 1) /\ ~(j - 1 < k) /\ (j - 1) + 1 = j
        BY <3>2
      <4>2. t[j - 1] = s[j]
        BY <4>1 DEF Without
      <4> QED
        BY <4>1, <4>2
    <3> QED
      BY <2>1, <3>1, <3>2
  <2> QED
    BY <2>1
<1> HIDE DEF t
<1>3. Members(t, n - 1) = Members(s, n) \ {s[k]}
  BY <1>1, <1>2 DEF Members
<1> QED
  BY <1>3 DEF t

\* The list holds the contexts of the clients of open, each with its own.
OwnContexts(cell, nodes, open) ==
  /\ \A m \in nodes : cell[m].server_addr \in open /\ cell[m].data = cell[m].server_addr
  /\ \A m, o \in nodes : cell[m].server_addr = cell[o].server_addr => m = o
  /\ \A c \in open : \E m \in nodes : cell[m].server_addr = c

Contexts(l, s, n, open) ==
  /\ Linked(l.cell, l.tail, s, n)
  /\ IsRecord(l) /\ l.alength = n /\ n <= MAX_LIST_LENGTH
  /\ OwnContexts(l.cell, Members(s, n), open)

LEMMA SearchContexts ==
  ASSUME NEW l, NEW s, NEW n, NEW open \in SUBSET Clients, Contexts(l, s, n, open)
  PROVE  /\ WellLinked(l)
         /\ \A c \in open : /\ Find(l, c) \in Members(s, n) /\ Find(l, c) \in Nodes
                            /\ l.cell[Find(l, c)].server_addr = c /\ l.cell[Find(l, c)].data = c
         /\ \A c \in Clients \ open : Find(l, c) = NULL
<1>1. /\ Linked(l.cell, l.tail, s, n) /\ l.alength = n /\ n \in Nat /\ s \in [1..n -> Nodes]
      /\ \A i, j \in 1..n : s[i] = s[j] => i = j
      /\ OwnContexts(l.cell, Members(s, n), open)
  BY DEF Contexts, Linked
<1>2. \A i \in 1..n : s[i] \in Members(s, n) /\ s[i] \in Nodes
  BY <1>1 DEF Members
<1>3. \A i, j \in 1..n : l.cell[s[i]].server_addr = l.cell[s[j]].server_addr => i = j
  BY <1>1, <1>2 DEF OwnContexts
<1>4. WellLinked(l)
  BY <1>1, <1>3, LinkedIsWell
<1>5. \A c : /\ \A i \in 1..n : l.cell[s[i]].server_addr = c => Find(l, c) = s[i]
             /\ (\A i \in 1..n : l.cell[s[i]].server_addr # c) => Find(l, c) = NULL
  <2>1. Linked(l.cell, l.tail, s, n)
    BY <1>1
  <2>2. \A key :
           /\ \A i \in 1..n : l.cell[s[i]].server_addr = key => Find(l, key) = s[i]
           /\ (\A i \in 1..n : l.cell[s[i]].server_addr # key) => Find(l, key) = NULL
    BY <2>1, <1>3, FindLinked
  <2> QED
    BY <2>2
<1>6. ASSUME NEW c \in open
      PROVE  /\ Find(l, c) \in Members(s, n) /\ Find(l, c) \in Nodes
             /\ l.cell[Find(l, c)].server_addr = c /\ l.cell[Find(l, c)].data = c
  <2>1. PICK i \in 1..n : l.cell[s[i]].server_addr = c
    BY <1>1 DEF OwnContexts, Members
  <2> QED
    BY <1>1, <1>2, <1>5, <2>1 DEF OwnContexts
<1>7. ASSUME NEW c \in Clients \ open PROVE Find(l, c) = NULL
  BY <1>1, <1>2, <1>5 DEF OwnContexts
<1> QED
  BY <1>4, <1>6, <1>7

LEMMA InsertContexts ==
  ASSUME NEW l, NEW s, NEW n, NEW open \in SUBSET Clients, Contexts(l, s, n, open),
         NEW c \in Clients \ open, l.alength # MAX_LIST_LENGTH, Free(l) # {}
  PROVE  \E t : Contexts(insert_info_ptr(l, c, c), t, n + 1, open \cup {c})
<1> DEFINE node == CHOOSE m \in Free(l) : TRUE
           new == [l.cell EXCEPT ![node].server_addr = c, ![node].data = c]
           tail == IF n = 0 THEN node ELSE l.tail
           t == Front(s, n, node)
<1>1. /\ Linked(l.cell, l.tail, s, n) /\ l.alength = n /\ n \in Nat /\ s \in [1..n -> Nodes]
      /\ OwnContexts(l.cell, Members(s, n), open) /\ l.cell \in [Cells -> Cell]
      /\ n <= MAX_LIST_LENGTH
  BY DEF Contexts, Linked
<1>1a. n + 1 <= MAX_LIST_LENGTH /\ More(l.alength) = n + 1
  BY <1>1, CorefsListAssumption DEF More
<1>2. node \in Nodes /\ l.cell[node] = Blank
  BY DEF Free
<1>3. c \in Keys /\ c \in Datas /\ c # NULL /\ NULL \notin Clients /\ Nodes \subseteq Cells
  BY CorefsServerAssumption DEF Cells
<1> HIDE DEF node
<1>4. \A m \in Members(s, n) : m \in Nodes /\ m # node
  BY <1>1, <1>2, <1>3 DEF OwnContexts, Members, Blank
<1>5. /\ new \in [Cells -> Cell]
      /\ new[node].server_addr = c /\ new[node].data = c
      /\ \A d \in Cells \ {node} : new[d] = l.cell[d]
  <2>1. l.cell[node] \in Cell /\ node \in Cells
    BY <1>1, <1>2, <1>3
  <2>2. [l.cell[node] EXCEPT !.server_addr = c, !.data = c] \in Cell
    BY <1>3, <2>1 DEF Cell
  <2>3. new[node] = [l.cell[node] EXCEPT !.server_addr = c, !.data = c]
    BY <1>1, <2>1
  <2> QED
    BY <1>1, <1>3, <2>1, <2>2, <2>3 DEF Cell
<1> HIDE DEF new
<1>6. \A i \in 1..n : s[i] # node
  BY <1>4 DEF Members
<1>7. Linked(new, l.tail, s, n)
  BY <1>1, <1>2, <1>5, <1>6, LinkedElsewhere
<1>8. Linked(PushFront(new, node), tail, t, n + 1) /\ SameContents(new, PushFront(new, node))
  BY <1>2, <1>6, <1>7, PushLinked
<1>9. insert_info_ptr(l, c, c) = [cell |-> PushFront(new, node), tail |-> tail, alength |-> n + 1]
  BY <1>1, <1>1a DEF insert_info_ptr, node, new
<1>10. Members(t, n + 1) = Members(s, n) \cup {node}
  BY <1>1, FrontMembers
<1> HIDE DEF t, tail
<1>11. \A m \in Members(s, n) \cup {node} :
         /\ PushFront(new, node)[m].server_addr = IF m = node THEN c ELSE l.cell[m].server_addr
         /\ PushFront(new, node)[m].data = IF m = node THEN c ELSE l.cell[m].data
  BY <1>2, <1>3, <1>4, <1>5, <1>8 DEF SameContents
<1>12. OwnContexts(PushFront(new, node), Members(t, n + 1), open \cup {c})
  BY <1>1, <1>4, <1>10, <1>11 DEF OwnContexts
<1>13. Contexts(insert_info_ptr(l, c, c), t, n + 1, open \cup {c})
  BY <1>1a, <1>8, <1>9, <1>12 DEF Contexts, IsRecord
<1> QED
  BY <1>13

LEMMA GetContexts ==
  ASSUME NEW l, NEW s, NEW n, NEW open \in SUBSET Clients, Contexts(l, s, n, open), NEW c \in open
  PROVE  \E t : Contexts(get_info_ptr(l, c), t, n, open)
<1> DEFINE node == Find(l, c)
           out == Unlink(l, node)
           got == [out EXCEPT !.cell = PushFront(out.cell, node)]
<1>1. /\ Linked(l.cell, l.tail, s, n) /\ l.alength = n /\ n \in Nat /\ s \in [1..n -> Nodes]
      /\ IsRecord(l) /\ n <= MAX_LIST_LENGTH
      /\ OwnContexts(l.cell, Members(s, n), open)
      /\ \A i, j \in 1..n : s[i] = s[j] => i = j
  BY DEF Contexts, Linked
<1>2. node \in Members(s, n) /\ node \in Nodes
  BY SearchContexts
<1>3. get_info_ptr(l, c) = IF l.cell[node].prev = head THEN l ELSE got
  BY <1>2 DEF get_info_ptr
<1>4. CASE l.cell[node].prev = head
  BY <1>3, <1>4
<1>5. CASE l.cell[node].prev # head
  <2> HIDE DEF node
  <2>1. PICK k \in 1..n : node = s[k]
    BY <1>2 DEF Members
  <2> DEFINE v == Without(s, n, k)
             t == Front(v, n - 1, node)
  <2>2. k # 1 /\ n - 1 \in Nat /\ n - 1 # 0 /\ (n - 1) + 1 = n
    <3>1. l.cell[s[k]].prev = At(s, k - 1)
      BY <1>1 DEF Linked
    <3> QED
      BY <1>1, <1>5, <2>1, <3>1 DEF At
  <2>3. /\ Linked(out.cell, out.tail, v, n - 1)
        /\ SameContents(l.cell, out.cell)
        /\ out = [cell |-> out.cell, tail |-> out.tail, alength |-> n]
    <3>1. IsRecord(out) /\ out.alength = n /\ Linked(out.cell, out.tail, v, n - 1)
          /\ SameContents(l.cell, out.cell)
      <4>1. /\ Linked(Unlink(l, s[k]).cell, Unlink(l, s[k]).tail, v, n - 1)
            /\ SameContents(l.cell, Unlink(l, s[k]).cell)
            /\ IsRecord(Unlink(l, s[k])) /\ Unlink(l, s[k]).alength = l.alength
        BY <1>1, UnlinkLinked
      <4> QED
        BY <1>1, <2>1, <4>1
    <3> HIDE DEF out
    <3> QED
      BY <3>1 DEF IsRecord
  <2>4. Members(v, n - 1) = Members(s, n) \ {node}
    BY <1>1, <2>1, WithoutMembers
  <2> HIDE DEF out, v
  <2>5. \A i \in 1..(n - 1) : v[i] # node
    BY <2>4 DEF Members
  <2>6. /\ Linked(PushFront(out.cell, node), out.tail, t, n)
        /\ SameContents(out.cell, PushFront(out.cell, node))
    BY <1>2, <2>2, <2>3, <2>5, PushLinked
  <2>7. Members(t, n) = Members(s, n)
    <3>1. Members(t, (n - 1) + 1) = Members(v, n - 1) \cup {node}
      BY <2>2, FrontMembers
    <3> HIDE DEF t
    <3> QED
      BY <1>2, <2>2, <2>4, <3>1
  <2> HIDE DEF t
  <2>8. got = [cell |-> PushFront(out.cell, node), tail |-> out.tail, alength |-> n]
    BY <2>3
  <2>9. OwnContexts(PushFront(out.cell, node), Members(t, n), open)
    <3>1. \A m \in Members(s, n) : m \in Cells
      BY <1>1 DEF Members, Cells
    <3> QED
      BY <1>1, <2>3, <2>6, <2>7, <3>1 DEF OwnContexts, SameContents
  <2>10. Contexts(got, t, n, open)
    BY <1>1, <2>6, <2>8, <2>9 DEF Contexts, IsRecord
  <2> QED
    BY <1>3, <1>5, <2>10
<1> QED
  BY <1>4, <1>5

LEMMA RemoveContexts ==
  ASSUME NEW l, NEW s, NEW n, NEW open \in SUBSET Clients, Contexts(l, s, n, open), NEW c \in open
  PROVE  \E t : Contexts(remove_info(l, c), t, n - 1, open \ {c})
<1> DEFINE node == Find(l, c)
           out == Unlink(l, node)
           freed == IF Referred(out, node) THEN out.cell[node] ELSE Blank
           new == [out.cell EXCEPT ![node] = freed]
<1>1. /\ Linked(l.cell, l.tail, s, n) /\ l.alength = n /\ n \in Nat /\ s \in [1..n -> Nodes]
      /\ IsRecord(l) /\ n <= MAX_LIST_LENGTH
      /\ OwnContexts(l.cell, Members(s, n), open)
      /\ \A i, j \in 1..n : s[i] = s[j] => i = j
  BY DEF Contexts, Linked
<1>2. node \in Members(s, n) /\ node \in Nodes /\ l.cell[node].server_addr = c
  BY SearchContexts
<1>3. remove_info(l, c) = [out EXCEPT !.cell[node] = freed, !.alength = Less(n)]
  BY <1>1, <1>2 DEF remove_info
<1> HIDE DEF node
<1>4. PICK k \in 1..n : node = s[k]
  BY <1>2 DEF Members
<1>4a. Less(n) = n - 1 /\ n - 1 <= MAX_LIST_LENGTH
  BY <1>1, CorefsListAssumption DEF Less
<1> DEFINE t == Without(s, n, k)
<1>5. /\ Linked(out.cell, out.tail, t, n - 1)
      /\ SameContents(l.cell, out.cell)
      /\ out = [cell |-> out.cell, tail |-> out.tail, alength |-> n]
  <2>1. IsRecord(out) /\ out.alength = n /\ Linked(out.cell, out.tail, t, n - 1)
        /\ SameContents(l.cell, out.cell)
    <3>1. /\ Linked(Unlink(l, s[k]).cell, Unlink(l, s[k]).tail, t, n - 1)
          /\ SameContents(l.cell, Unlink(l, s[k]).cell)
          /\ IsRecord(Unlink(l, s[k])) /\ Unlink(l, s[k]).alength = l.alength
      BY <1>1, UnlinkLinked
    <3> QED
      BY <1>1, <1>4, <3>1
  <2> HIDE DEF out
  <2> QED
    BY <2>1 DEF IsRecord
<1>6. Members(t, n - 1) = Members(s, n) \ {node}
  BY <1>1, <1>4, WithoutMembers
<1> HIDE DEF out, t
<1>7. remove_info(l, c) = [cell |-> new, tail |-> out.tail, alength |-> n - 1]
  BY <1>3, <1>4a, <1>5
<1>8. out.cell \in [Cells -> Cell] /\ node \in Cells
  BY <1>2, <1>5 DEF Linked, Cells
<1>9. freed \in Cell
  BY <1>8 DEF Blank, Cell, Links
<1> HIDE DEF freed
<1>10. new \in [Cells -> Cell] /\ \A d \in Cells \ {node} : new[d] = out.cell[d]
  BY <1>8, <1>9
<1> HIDE DEF new
<1>11. \A i \in 1..(n - 1) : t[i] # node
  BY <1>6 DEF Members
<1>12. Linked(new, out.tail, t, n - 1)
  BY <1>2, <1>5, <1>10, <1>11, LinkedElsewhere
<1>13. \A m \in Members(s, n) \ {node} :
         new[m].server_addr = l.cell[m].server_addr /\ new[m].data = l.cell[m].data
  <2>1. \A m \in Members(s, n) : m \in Cells
    BY <1>1 DEF Members, Cells
  <2> QED
    BY <1>5, <1>10, <2>1 DEF SameContents
<1>14. OwnContexts(new, Members(t, n - 1), open \ {c})
  BY <1>1, <1>2, <1>6, <1>13 DEF OwnContexts
<1>15. Contexts(remove_info(l, c), t, n - 1, open \ {c})
  BY <1>4a, <1>7, <1>12, <1>14 DEF Contexts, IsRecord
<1> QED
  BY <1>15
-----------------------------------------------------------------------------
(* The server's list.                                                       *)

Open == {c \in Clients : conn[c] = "open"}

\* Until a client is accepted beyond the limit, the list is linked in some order
\* and holds the contexts of the clients accepted; and only a client whose context
\* is not found can get the server lost.
ListInv ==
  /\ ~overflowed => \E s, n : Contexts(list, s, n, Open)
  /\ mode = "lost" => overflowed

LEMMA ListInit == Init => ListInv
<1> SUFFICES ASSUME Init PROVE ListInv
  OBVIOUS
<1>1. list = [cell |-> [c \in Cells |-> Blank], tail |-> NULL, alength |-> 0] /\ mode = "up"
  BY DEF Init, init_list_head
<1>2. Open = {}
  BY DEF Init, Open
<1>3. list.cell \in [Cells -> Cell] /\ head \in Cells /\ list.cell[head].next = NULL
  BY <1>1 DEF Blank, Cell, Links, Cells
<1> DEFINE s == [i \in 1..0 |-> head]
<1>4. Linked(list.cell, list.tail, s, 0)
  BY <1>3 DEF Linked, At, NextAt
<1>5. Members(s, 0) = {}
  BY DEF Members
<1>6. Contexts(list, s, 0, Open)
  BY <1>1, <1>2, <1>4, <1>5, CorefsListAssumption DEF Contexts, IsRecord, OwnContexts
<1> QED
  BY <1>1, <1>6 DEF ListInv

LEMMA ListStep == LinkType /\ ListInv /\ [Next]_vars => ListInv'
<1> SUFFICES ASSUME LinkType, ListInv, [Next]_vars PROVE ListInv'
  OBVIOUS
<1>1. Open \in SUBSET Clients
  BY DEF Open
<1>2. ASSUME UNCHANGED <<list, overflowed>>, Open' = Open, mode' = "lost" => mode = "lost" \/ overflowed
      PROVE  ListInv'
  BY <1>2 DEF ListInv
<1>3. CASE UNCHANGED vars
  BY <1>2, <1>3 DEF vars, link, Open
<1>4. ASSUME NEW c \in Clients, Connect(c) PROVE ListInv'
  BY <1>2, <1>4 DEF Connect, Open, LinkType
<1>5. ASSUME NEW c \in Clients, NEW op \in Ops, Call(c, op) PROVE ListInv'
  BY <1>2, <1>5 DEF Call, Open
<1>6. ASSUME NEW c \in Clients, ClientStep(c) \/ Close(c) PROVE ListInv'
  BY <1>2, <1>6 DEF ClientStep, SendData, Answer, Close, Open
<1>7. ASSUME NEW c \in Clients, NEW p, NEW type, Reply(c, p, type) PROVE mode' = "lost" => mode = "lost"
  BY <1>7 DEF Reply
<1>8. ASSUME NEW c \in Clients, ServeData(c) PROVE ListInv'
  <2>1. mode' = "lost" => mode = "lost"
    BY <1>7, <1>8 DEF ServeData
  <2> QED
    BY <1>2, <1>8, <2>1 DEF ServeData, Open
<1>9. ASSUME NEW c \in Clients, Lost(c) PROVE ListInv'
  <2>1. c \in Open /\ Find(list, c) \notin Nodes
    BY <1>9 DEF Lost, Open
  <2>2. overflowed
    BY <1>1, <2>1, SearchContexts DEF ListInv
  <2> QED
    BY <1>9, <2>2 DEF Lost, ListInv
<1>9a. ASSUME NEW c \in Clients, AcceptCrashes(c) PROVE ListInv'
  BY <1>2, <1>9a DEF AcceptCrashes, link, Open
<1>10. ASSUME NEW c \in Clients, Accept(c) PROVE ListInv'
  <2>1. /\ c \in Clients \ Open /\ mode' = mode
        /\ list' = insert_info_ptr(list, c, c)
        /\ list.alength # MAX_LIST_LENGTH => Free(list) # {}
        /\ overflowed' = (overflowed \/ list.alength = MAX_LIST_LENGTH)
    BY <1>10 DEF Accept, Open
  <2>2. Open' = Open \cup {c}
    BY <1>10 DEF Accept, Open, LinkType
  <2>3. SUFFICES ASSUME ~overflowed' PROVE \E s, n : Contexts(list', s, n, Open')
    BY <2>1 DEF ListInv
  <2>4. ~overflowed /\ list.alength # MAX_LIST_LENGTH /\ Free(list) # {}
    BY <2>1, <2>3
  <2>5. PICK s, n : Contexts(list, s, n, Open)
    BY <2>4 DEF ListInv
  <2>6. \E t : Contexts(insert_info_ptr(list, c, c), t, n + 1, Open \cup {c})
    BY <1>1, <2>1, <2>4, <2>5, InsertContexts
  <2> QED
    BY <2>1, <2>2, <2>6
<1>11. ASSUME NEW c \in Clients, Serve(c) PROVE ListInv'
  <2>1. c \in Open /\ list' = get_info_ptr(list, c) /\ overflowed' = overflowed /\ Open' = Open
    BY <1>11 DEF Serve, Open
  <2>2. mode' # "lost"
    BY <1>7, <1>11 DEF Serve, Handle, Ready
  <2>3. ASSUME ~overflowed PROVE \E s, n : Contexts(list', s, n, Open)
    <3>1. PICK s, n : Contexts(list, s, n, Open)
      BY <2>3 DEF ListInv
    <3>2. \E t : Contexts(get_info_ptr(list, c), t, n, Open)
      BY <1>1, <2>1, <3>1, GetContexts
    <3> QED
      BY <2>1, <3>2
  <2> QED
    BY <2>1, <2>2, <2>3 DEF ListInv
<1>12. ASSUME NEW c \in Clients, Drop(c) PROVE ListInv'
  <2>1. /\ c \in Open /\ list' = remove_info(get_info_ptr(list, c), c)
        /\ overflowed' = overflowed /\ mode' = mode
    BY <1>12 DEF Drop, Open
  <2>2. Open' = Open \ {c}
    BY <1>12 DEF Drop, Open, LinkType
  <2>3. ASSUME ~overflowed PROVE \E s, n : Contexts(list', s, n, Open \ {c})
    <3>1. PICK s, n : Contexts(list, s, n, Open)
      BY <2>3 DEF ListInv
    <3>2. PICK t : Contexts(get_info_ptr(list, c), t, n, Open)
      BY <1>1, <2>1, <3>1, GetContexts
    <3>3. \E u : Contexts(remove_info(get_info_ptr(list, c), c), u, n - 1, Open \ {c})
      BY <1>1, <2>1, <3>2, RemoveContexts
    <3> QED
      BY <2>1, <3>3
  <2> QED
    BY <2>1, <2>2, <2>3 DEF ListInv
<1> QED
  BY <1>3, <1>4, <1>5, <1>6, <1>8, <1>9, <1>9a, <1>10, <1>11, <1>12
  DEF Next, ServerStep

LEMMA ListInvHolds == Spec => []ListInv
<1>1. LinkInv => LinkType
  BY DEF LinkInv
<1> QED
  BY <1>1, ListInit, ListStep, LinkInvHolds, PTL DEF Spec

\* As long as no client was accepted with the list at MAX_LIST_LENGTH, whatever
\* insert_info_ptr, get_info_ptr and remove_info do to the links in whatever order,
\* the list stays linked both ways with its tail and its length right, a search of
\* it ends, and finds the context of each client accepted and of no other.
THEOREM ContextsAreKept == Spec => []ContextsKept
<1>1. ListInv => ContextsKept
  <2> SUFFICES ASSUME ListInv, ~overflowed
               PROVE  /\ WellLinked(list)
                      /\ \A c \in Clients :
                           IF conn[c] = "open"
                           THEN Find(list, c) \in Nodes /\ list.cell[Find(list, c)].data = c
                           ELSE Find(list, c) = NULL
    BY DEF ContextsKept
  <2>1. PICK s, n : Contexts(list, s, n, Open)
    BY DEF ListInv
  <2>2. Open \in SUBSET Clients
    BY DEF Open
  <2>3. /\ WellLinked(list)
        /\ \A c \in Open : Find(list, c) \in Nodes /\ list.cell[Find(list, c)].data = c
        /\ \A c \in Clients \ Open : Find(list, c) = NULL
    BY <2>1, <2>2, SearchContexts
  <2> QED
    BY <2>3 DEF Open
<1> QED
  BY <1>1, ListInvHolds, PTL

-----------------------------------------------------------------------------
(* How the server may end.                                                  *)

EndedInv == mode = "ended" => overflowed \/ \E c \in Clients : extra[c] > 0

\* The tail of a list within its limit is not the head.
LEMMA TailInList ==
  ASSUME ListInv, list.alength = MAX_LIST_LENGTH, list.tail = head
  PROVE  overflowed
<1> SUFFICES ASSUME ~overflowed PROVE FALSE
  OBVIOUS
<1>1. PICK s, n : Contexts(list, s, n, Open)
  BY DEF ListInv
<1>2. n = MAX_LIST_LENGTH /\ n \in 1..n
  BY <1>1, CorefsListAssumption DEF Contexts
<1>3. list.tail = s[n] /\ s[n] \in Nodes
  BY <1>1, <1>2 DEF Contexts, Linked
<1> QED
  BY <1>3, CorefsListAssumption

LEMMA EndedStep == LinkInv /\ ListInv /\ EndedInv /\ [Next]_vars => EndedInv'
<1> SUFFICES ASSUME LinkInv, ListInv, EndedInv, [Next]_vars, mode' = "ended"
             PROVE  overflowed' \/ \E c \in Clients : extra'[c] > 0
  BY DEF EndedInv
<1>1. LinkType /\ LinkType'
  BY TypeStep DEF LinkInv
<1>2. CASE UNCHANGED vars
  BY <1>2 DEF vars, EndedInv
<1>3. ASSUME NEW c \in Clients, ActsFor(c)
      PROVE  overflowed' \/ \E d \in Clients : extra'[d] > 0
  <2>1. CASE mode = "ended"
    BY <1>1, <1>3, <2>1, EndedStays DEF EndedInv
  <2>2. CASE mode # "ended"
    <3>1. extra'[c] > 0 \/ AcceptCrashes(c)
      BY <1>1, <1>3, <2>2, ActingKept DEF LinkInv
    <3>2. CASE AcceptCrashes(c)
      BY <3>2, TailInList DEF AcceptCrashes
    <3> QED
      BY <3>1, <3>2
  <2> QED
    BY <2>1, <2>2
<1> QED
  BY <1>2, <1>3 DEF Next, ActsFor

\* As long as its list has not been beyond its limit, the server does not get lost,
\* and a client that ends brings SIGPIPE on it only behind data taken for a command.
THEOREM ServerAlwaysStays == Spec => []ServerStays
<1>1. Init => EndedInv
  BY DEF Init, EndedInv
<1>2. ListInv /\ EndedInv => ServerStays
  BY DEF ListInv, EndedInv, ServerStays
<1> QED
  BY <1>1, <1>2, EndedStep, LinkInvHolds, ListInvHolds, PTL DEF Spec

-----------------------------------------------------------------------------
(* The types of the list, beyond its limit too.                             *)

\* The nodes in U are in use, but for the prev of those in Fresh, and no other is.
InUse(cell, tail, U, Fresh) ==
  /\ cell \in [Cells -> Cell] /\ U \subseteq Nodes
  /\ \A n \in Nodes \ U : cell[n] = Blank
  /\ \A n \in U : cell[n].server_addr # NULL
  /\ \A n \in U \ Fresh : cell[n].prev # NULL
  /\ \A c \in Cells : cell[c].next \in U \cup {NULL} /\ cell[c].prev \in U \cup {head, NULL}
  /\ tail \in U \cup {head, NULL}

ListType(l) == l \in Lists /\ LinksInUse(l)

LEMMA NodesAreCells ==
  /\ head \in Cells /\ Nodes \subseteq Cells /\ head \notin Nodes
  /\ NULL \notin Cells /\ NULL \notin Nodes /\ NULL # head
BY CorefsListAssumption DEF Cells

LEMMA SameCell ==
  ASSUME NEW a \in Cell, NEW b \in Cell, a.server_addr = b.server_addr, a.data = b.data,
         a.next = b.next, a.prev = b.prev
  PROVE  a = b
BY DEF Cell

\* The two ways to say which nodes are in use.
LEMMA InUseList ==
  ASSUME NEW l, IsRecord(l), l.alength \in 0..UINT_MAX, NEW U, InUse(l.cell, l.tail, U, {}),
         l.tail = NULL => l.alength = 0 /\ U = {}
  PROVE  ListType(l)
<1>1. Free(l) = Nodes \ U
  BY NodesAreCells DEF Free, InUse, Blank
<1>2. l \in Lists
  BY NodesAreCells DEF Lists, Links, InUse, IsRecord
<1> QED
  BY <1>1, <1>2, NodesAreCells DEF LinksInUse, InUse, ListType

LEMMA ListInUse ==
  ASSUME NEW l, ListType(l)
  PROVE  LET U == Nodes \ Free(l)
         IN /\ InUse(l.cell, l.tail, U, {}) /\ IsRecord(l) /\ l.alength \in 0..UINT_MAX
            /\ l.tail = NULL => l.alength = 0 /\ U = {}
<1> DEFINE U == Nodes \ Free(l)
<1>1. /\ l.cell \in [Cells -> Cell] /\ l.tail \in Links /\ LinksInUse(l)
      /\ IsRecord(l) /\ l.alength \in 0..UINT_MAX
  BY DEF Lists, ListType, IsRecord
<1>2. \A c \in Cells : l.cell[c].next \in Links /\ l.cell[c].prev \in Links
  BY <1>1 DEF Cell
<1>3. \A x \in Links : x \notin Free(l) => x \in U \cup {head, NULL}
  BY DEF Links, Cells
<1>4. \A n \in Nodes \ U : l.cell[n] = Blank
  BY DEF Free
<1>5. /\ \A n \in U : l.cell[n].server_addr # NULL /\ l.cell[n].prev # NULL
      /\ \A c \in Cells : /\ l.cell[c].next \notin Free(l) /\ l.cell[c].next # head
                          /\ l.cell[c].prev \notin Free(l)
      /\ l.tail \notin Free(l)
  BY <1>1, NodesAreCells DEF LinksInUse
<1>6. l.tail = NULL => l.alength = 0 /\ U = {}
  BY <1>1 DEF LinksInUse
<1> QED
  BY <1>1, <1>2, <1>3, <1>4, <1>5, <1>6 DEF InUse

LEMMA PushInUse ==
  ASSUME NEW cell, NEW tail, NEW U, NEW node \in U, InUse(cell, tail, U, {node})
  PROVE  InUse(PushFront(cell, node), tail, U, {})
<1> DEFINE first == cell[head].next
           new == PushFront(cell, node)
<1>1. /\ cell \in [Cells -> Cell] /\ node \in Nodes /\ U \subseteq Nodes
      /\ first \in U \cup {NULL} /\ tail \in U \cup {head, NULL}
      /\ \A c \in Cells : /\ cell[c].next \in U \cup {NULL}
                          /\ cell[c].prev \in U \cup {head, NULL}
  BY NodesAreCells DEF InUse
<1>2. /\ new \in [Cells -> Cell]
      /\ \A c \in Cells :
           /\ new[c].next = IF c = head THEN node ELSE IF c = node THEN first ELSE cell[c].next
           /\ new[c].prev = IF c = node THEN head ELSE IF c = first THEN node ELSE cell[c].prev
           /\ new[c].server_addr = cell[c].server_addr /\ new[c].data = cell[c].data
  BY <1>1, PushedFields
<1> HIDE DEF first, new
<1>3. ASSUME NEW n \in Nodes \ U PROVE new[n] = Blank
  <2>1. n \in Cells /\ n # head /\ n # node /\ n # first
    BY <1>1, NodesAreCells
  <2>2. new[n] = cell[n]
    BY <1>1, <1>2, <2>1, SameCell
  <2> QED
    BY <2>2 DEF InUse
<1>4. ASSUME NEW n \in U PROVE new[n].server_addr # NULL /\ new[n].prev # NULL
  <2>1. cell[n].server_addr # NULL /\ (n # node => cell[n].prev # NULL)
    BY DEF InUse
  <2> QED
    BY <1>1, <1>2, <2>1, NodesAreCells
<1>5. ASSUME NEW c \in Cells
      PROVE  new[c].next \in U \cup {NULL} /\ new[c].prev \in U \cup {head, NULL}
  BY <1>1, <1>2
<1>6. InUse(new, tail, U, {})
  BY <1>1, <1>2, <1>3, <1>4, <1>5 DEF InUse
<1> QED
  BY <1>6 DEF new

LEMMA UnlinkInUse ==
  ASSUME NEW l, NEW U, NEW node \in U, InUse(l.cell, l.tail, U, {}), IsRecord(l)
  PROVE  LET out == Unlink(l, node)
         IN /\ IsRecord(out) /\ out.alength = l.alength
            /\ InUse(out.cell, out.tail, U, {})
            /\ l.tail # NULL => out.tail # NULL
<1> DEFINE prev == l.cell[node].prev
           next == l.cell[node].next
           out == Unlink(l, node)
           new == out.cell
<1>1. /\ l.cell \in [Cells -> Cell] /\ U \subseteq Nodes /\ node \in Cells
      /\ prev \in U \cup {head} /\ next \in U \cup {NULL} /\ l.tail \in U \cup {head, NULL}
      /\ \A c \in Cells : /\ l.cell[c].next \in U \cup {NULL}
                          /\ l.cell[c].prev \in U \cup {head, NULL}
  BY NodesAreCells DEF InUse
<1>2. prev \in Cells /\ next \in Links /\ prev # NULL
  BY <1>1, NodesAreCells DEF Links
<1>3. out = [cell |-> new, tail |-> IF next = NULL THEN prev ELSE l.tail, alength |-> l.alength]
  BY <1>1, <1>2, UnlinkedFields
<1>4. /\ new \in [Cells -> Cell]
      /\ \A c \in Cells :
           /\ new[c].next = IF c = prev THEN next ELSE l.cell[c].next
           /\ new[c].prev = IF c = next THEN prev ELSE l.cell[c].prev
           /\ new[c].server_addr = l.cell[c].server_addr /\ new[c].data = l.cell[c].data
  BY <1>1, <1>2, UnlinkedFields
<1> HIDE DEF prev, next, out
<1>5. out.tail = (IF next = NULL THEN prev ELSE l.tail) /\ out.alength = l.alength
  BY <1>3
<1>6. IsRecord(out)
  BY <1>3, <1>5 DEF IsRecord
<1> HIDE DEF new
<1>7. ASSUME NEW n \in Nodes \ U PROVE new[n] = Blank
  <2>1. n \in Cells /\ n # prev /\ n # next
    BY <1>1, NodesAreCells
  <2>2. new[n] = l.cell[n]
    BY <1>1, <1>4, <2>1, SameCell
  <2> QED
    BY <2>2 DEF InUse
<1>8. ASSUME NEW n \in U PROVE new[n].server_addr # NULL /\ new[n].prev # NULL
  <2>1. l.cell[n].server_addr # NULL /\ l.cell[n].prev # NULL /\ n \in Cells
    BY <1>1, NodesAreCells DEF InUse
  <2> QED
    BY <1>2, <1>4, <2>1
<1>9. ASSUME NEW c \in Cells
      PROVE  new[c].next \in U \cup {NULL} /\ new[c].prev \in U \cup {head, NULL}
  BY <1>1, <1>4
<1>10. out.tail \in U \cup {head, NULL} /\ (l.tail # NULL => out.tail # NULL)
  BY <1>1, <1>2, <1>5
<1>11. InUse(new, out.tail, U, {})
  BY <1>1, <1>4, <1>7, <1>8, <1>9, <1>10 DEF InUse
<1> QED
  BY <1>5, <1>6, <1>10, <1>11 DEF out, new

\* A node that is found has the key.
LEMMA FindsKey ==
  ASSUME NEW l, NEW key, Find(l, key) \in Nodes
  PROVE  l.cell[Find(l, key)].server_addr = key
<1> DEFINE at == Follow(l)
           found == {i \in 1..Cardinality(Cells) : at[i] # NULL /\ l.cell[at[i]].server_addr = key}
           least == CHOOSE i \in found : \A j \in found : i <= j
<1>1. NULL \notin Nodes /\ Loops \notin Nodes
  BY CorefsListAssumption
<1>2. Find(l, key) = IF found # {} THEN at[least] ELSE IF Cyclic(l) THEN Loops ELSE NULL
  BY DEF Find
<1> HIDE DEF at
<1>3. found # {}
  BY <1>1, <1>2
<1>4. found \in SUBSET Nat
  BY CellsFinite
<1>5. \E i \in found : \A j \in found : i <= j
  <2> HIDE DEF found
  <2> QED
    BY <1>3, <1>4, Least
<1>6. least \in found
  <2> HIDE DEF found
  <2> QED
    BY <1>5
<1>7. l.cell[at[least]].server_addr = key
  <2> HIDE DEF least
  <2> QED
    BY <1>6
<1> QED
  BY <1>2, <1>3, <1>7

\* It is in use.
LEMMA FindsUsed ==
  ASSUME NEW l, ListType(l), NEW key, key # NULL, Find(l, key) \in Nodes
  PROVE  Find(l, key) \in Nodes \ Free(l) /\ l.tail # NULL
<1>1. l.cell[Find(l, key)].server_addr = key
  BY FindsKey
<1>2. Find(l, key) \notin Free(l)
  BY <1>1 DEF Free, Blank
<1> QED
  BY <1>2, ListInUse

LEMMA GetType ==
  ASSUME NEW l, ListType(l), NEW key, key # NULL
  PROVE  ListType(get_info_ptr(l, key))
<1> DEFINE node == Find(l, key)
           U == Nodes \ Free(l)
           out == Unlink(l, node)
           new == PushFront(out.cell, node)
<1>1. CASE node \notin Nodes \/ l.cell[node].prev = head
  BY <1>1 DEF get_info_ptr
<1>2. CASE ~(node \notin Nodes \/ l.cell[node].prev = head)
  <2>1. node \in U /\ l.tail # NULL
    BY <1>2, FindsUsed
  <2>2. InUse(l.cell, l.tail, U, {}) /\ IsRecord(l) /\ l.alength \in 0..UINT_MAX
    BY ListInUse
  <2>3. get_info_ptr(l, key) = [out EXCEPT !.cell = new]
    BY <1>2 DEF get_info_ptr
  <2> HIDE DEF node, U
  <2>4. /\ IsRecord(out) /\ out.alength = l.alength /\ out.tail # NULL
        /\ InUse(out.cell, out.tail, U, {})
    BY <2>1, <2>2, UnlinkInUse
  <2> HIDE DEF out
  <2>5. InUse(out.cell, out.tail, U, {node})
    BY <2>4 DEF InUse
  <2>6. InUse(new, out.tail, U, {})
    BY <2>1, <2>5, PushInUse
  <2> HIDE DEF new
  <2>7. [out EXCEPT !.cell = new] = [cell |-> new, tail |-> out.tail, alength |-> l.alength]
    BY <2>4 DEF IsRecord
  <2> DEFINE k == [cell |-> new, tail |-> out.tail, alength |-> l.alength]
  <2>8. k.cell = new /\ k.tail = out.tail /\ k.alength = l.alength /\ IsRecord(k)
    BY DEF IsRecord
  <2> HIDE DEF k
  <2>9. ListType(k)
    BY <2>2, <2>4, <2>6, <2>8, InUseList
  <2> QED
    BY <2>3, <2>7, <2>9 DEF k
<1> QED
  BY <1>1, <1>2

LEMMA RemoveType ==
  ASSUME NEW l, ListType(l), NEW key, key # NULL
  PROVE  ListType(remove_info(l, key))
<1> DEFINE node == Find(l, key)
           U == Nodes \ Free(l)
           out == Unlink(l, node)
           new == [out.cell EXCEPT ![node] = IF Referred(out, node) THEN @ ELSE Blank]
           k == [cell |-> new, tail |-> out.tail, alength |-> Less(l.alength)]
<1>1. CASE node \notin Nodes
  BY <1>1 DEF remove_info
<1>2. CASE node \in Nodes
  <2>1. node \in U /\ l.tail # NULL
    BY <1>2, FindsUsed
  <2>2. InUse(l.cell, l.tail, U, {}) /\ IsRecord(l) /\ l.alength \in 0..UINT_MAX
    BY ListInUse
  <2>3. remove_info(l, key) = [out EXCEPT !.cell[node] = IF Referred(out, node) THEN @ ELSE Blank,
                                          !.alength = Less(l.alength)]
    BY <1>2 DEF remove_info
  <2> HIDE DEF node, U
  <2>4. /\ IsRecord(out) /\ out.alength = l.alength /\ out.tail # NULL
        /\ InUse(out.cell, out.tail, U, {})
    BY <2>1, <2>2, UnlinkInUse
  <2> HIDE DEF out
  <2>5. remove_info(l, key) = k
    BY <2>3, <2>4 DEF IsRecord
  <2>6. k.cell = new /\ k.tail = out.tail /\ k.alength = Less(l.alength) /\ IsRecord(k)
    BY DEF IsRecord
  <2>7. Less(l.alength) \in 0..UINT_MAX
    BY <2>2, CorefsListAssumption DEF Less
  <2>8. \E V : InUse(new, out.tail, V, {})
    <3>1. CASE Referred(out, node)
      <4>1. new = out.cell
        BY <2>4, <3>1 DEF InUse
      <4> QED
        BY <2>4, <4>1
    <3>2. CASE ~Referred(out, node)
      <4> DEFINE V == U \ {node}
      <4>1. /\ out.cell \in [Cells -> Cell] /\ U \subseteq Nodes /\ node \in Nodes /\ node \in Cells
            /\ out.tail \in U \cup {head, NULL}
            /\ \A n \in Nodes \ U : out.cell[n] = Blank
            /\ \A n \in U : out.cell[n].server_addr # NULL /\ out.cell[n].prev # NULL
            /\ \A c \in Cells : /\ out.cell[c].next \in U \cup {NULL}
                                /\ out.cell[c].prev \in U \cup {head, NULL}
        BY <2>1, <2>4, NodesAreCells DEF InUse
      <4>2. /\ out.tail # node
            /\ \A c \in Cells \ {node} : out.cell[c].next # node /\ out.cell[c].prev # node
        BY <3>2 DEF Referred
      <4>3. Blank \in Cell /\ Blank.next = NULL /\ Blank.prev = NULL
        BY DEF Blank, Cell, Links
      <4>4. /\ new \in [Cells -> Cell] /\ new[node] = Blank
            /\ \A c \in Cells \ {node} : new[c] = out.cell[c]
        BY <3>2, <4>1, <4>3
      <4> HIDE DEF new
      <4>5. ASSUME NEW c \in Cells
            PROVE  new[c].next \in V \cup {NULL} /\ new[c].prev \in V \cup {head, NULL}
        <5>1. CASE c = node
          BY <4>3, <4>4, <5>1
        <5>2. CASE c # node
          BY <4>1, <4>2, <4>4, <5>2
        <5> QED
          BY <5>1, <5>2
      <4>6. V \subseteq Nodes /\ out.tail \in V \cup {head, NULL}
        BY <4>1, <4>2
      <4>7. \A n \in Nodes \ V : new[n] = Blank
        BY <4>1, <4>4, NodesAreCells
      <4>8. \A n \in V : new[n].server_addr # NULL /\ new[n].prev # NULL
        BY <4>1, <4>4, NodesAreCells
      <4>9. InUse(new, out.tail, V, {})
        BY <4>4, <4>5, <4>6, <4>7, <4>8 DEF InUse
      <4> QED
        BY <4>9
    <3> QED
      BY <3>1, <3>2
  <2>9. PICK V : InUse(new, out.tail, V, {})
    BY <2>8
  <2> HIDE DEF k, new
  <2>10. ListType(k)
    BY <2>4, <2>6, <2>7, <2>9, InUseList
  <2> QED
    BY <2>5, <2>10
<1> QED
  BY <1>1, <1>2

\* A client accepted beyond the limit, but for the head as the tail.
LEMMA InsertType ==
  ASSUME NEW l, ListType(l), NEW key \in Keys, NEW data \in Datas,
         IF l.alength = MAX_LIST_LENGTH THEN l.tail # head ELSE Free(l) # {}
  PROVE  ListType(insert_info_ptr(l, key, data))
<1> DEFINE U == Nodes \ Free(l)
<1>1. /\ InUse(l.cell, l.tail, U, {}) /\ IsRecord(l) /\ l.alength \in 0..UINT_MAX
      /\ l.tail = NULL => l.alength = 0 /\ U = {}
  BY ListInUse
<1>2. MAX_LIST_LENGTH \in Nat \ {0} /\ UINT_MAX \in Nat /\ key # NULL
  BY CorefsListAssumption
<1>3. CASE l.alength = MAX_LIST_LENGTH
  <2> DEFINE node == l.tail
             kept == [l.cell EXCEPT ![node].server_addr = key, ![node].data = data,
                                    ![node].next = NULL]
             prev == l.cell[node].prev
             last == IF MAX_LIST_LENGTH = 1 THEN node ELSE prev
             new == IF MAX_LIST_LENGTH = 1 THEN kept ELSE PushFront(kept, node)
             k == [cell |-> new, tail |-> last, alength |-> l.alength]
  <2> HIDE DEF U
  <2>1. /\ node \in U /\ U \subseteq Nodes /\ node \in Cells /\ l.cell \in [Cells -> Cell]
        /\ prev # NULL /\ prev \in U \cup {head, NULL} /\ node # NULL
    BY <1>1, <1>2, <1>3, NodesAreCells DEF InUse
  <2>2. insert_info_ptr(l, key, data) = k
    <3>1. insert_info_ptr(l, key, data) =
            IF MAX_LIST_LENGTH = 1 THEN [l EXCEPT !.cell = kept]
            ELSE [l EXCEPT !.cell = PushFront(kept, node), !.tail = prev]
      BY <1>3 DEF insert_info_ptr
    <3> HIDE DEF kept, prev
    <3> QED
      BY <1>1, <3>1 DEF IsRecord
  <2> HIDE DEF node, prev
  <2>3. /\ kept \in [Cells -> Cell]
        /\ kept[node].server_addr = key /\ kept[node].next = NULL
        /\ kept[node].prev = l.cell[node].prev
        /\ \A c \in Cells \ {node} : kept[c] = l.cell[c]
    <3>1. l.cell[node] \in Cell
      BY <2>1
    <3>2. LET c == [l.cell[node] EXCEPT !.server_addr = key, !.data = data, !.next = NULL]
          IN /\ c \in Cell /\ c.server_addr = key /\ c.next = NULL /\ c.prev = l.cell[node].prev
             /\ kept[node] = c
      BY <2>1, <3>1 DEF Cell, Links
    <3>3. \A c \in Cells \ {node} : kept[c] = l.cell[c]
      BY <2>1
    <3>4. DOMAIN kept = Cells /\ kept = [c \in Cells |-> kept[c]]
      BY <2>1
    <3>5. kept \in [Cells -> Cell]
      BY <2>1, <3>2, <3>3, <3>4
    <3> QED
      BY <3>2, <3>3, <3>5
  <2> HIDE DEF kept
  <2>4. InUse(kept, last, U, {node}) /\ InUse(kept, last, U, {})
    <3>1. last \in U \cup {head, NULL}
      BY <2>1
    <3>2. \A n \in Nodes \ U : kept[n] = Blank
      BY <1>1, <2>1, <2>3, NodesAreCells DEF InUse
    <3>3. \A n \in U : kept[n].server_addr # NULL /\ kept[n].prev # NULL
      BY <1>1, <1>2, <2>1, <2>3, NodesAreCells DEF InUse
    <3>4. \A c \in Cells : /\ kept[c].next \in U \cup {NULL}
                        /\ kept[c].prev \in U \cup {head, NULL}
      BY <1>1, <2>1, <2>3 DEF InUse
    <3> QED
      BY <2>1, <2>3, <3>1, <3>2, <3>3, <3>4 DEF InUse
  <2>5. InUse(new, last, U, {})
    BY <2>1, <2>4, PushInUse
  <2>6. last # NULL
    BY <2>1
  <2>7. k.cell = new /\ k.tail = last /\ k.alength = l.alength /\ IsRecord(k)
    BY DEF IsRecord
  <2> HIDE DEF k, new, last
  <2>8. ListType(k)
    BY <1>1, <2>5, <2>6, <2>7, InUseList
  <2> QED
    BY <2>2, <2>8
<1>4. CASE l.alength # MAX_LIST_LENGTH
  <2> DEFINE node == CHOOSE n \in Free(l) : TRUE
             new == [l.cell EXCEPT ![node].server_addr = key, ![node].data = data]
             last == IF l.alength = 0 THEN node ELSE l.tail
             V == U \cup {node}
             k == [cell |-> PushFront(new, node), tail |-> last, alength |-> More(l.alength)]
  <2>1. node \in Free(l)
    BY <1>4
  <2>2. insert_info_ptr(l, key, data) = k
    BY <1>4 DEF insert_info_ptr
  <2> HIDE DEF node
  <2>3. /\ node \in Nodes /\ node \in Cells /\ l.cell \in [Cells -> Cell] /\ U \subseteq Nodes
        /\ l.cell[node] = Blank /\ node # NULL
    BY <1>1, <2>1, NodesAreCells DEF InUse, Free
  <2>4. V \subseteq Nodes /\ Nodes \ V = Free(l) \ {node}
    BY <2>1, <2>3 DEF Free
  <2> HIDE DEF U
  <2>5. /\ new \in [Cells -> Cell]
        /\ new[node].server_addr = key /\ new[node].next = NULL /\ new[node].prev = NULL
        /\ \A c \in Cells \ {node} : new[c] = l.cell[c]
    <3>1. l.cell[node] \in Cell /\ l.cell[node].next = NULL /\ l.cell[node].prev = NULL
      BY <2>3 DEF Blank
    <3> DEFINE c == [l.cell[node] EXCEPT !.server_addr = key, !.data = data]
    <3>2. /\ c \in Cell /\ c.server_addr = key
           /\ c.next = l.cell[node].next /\ c.prev = l.cell[node].prev /\ new[node] = c
      BY <2>3, <3>1 DEF Cell, Links
    <3> HIDE DEF c
    <3>3. \A d \in Cells \ {node} : new[d] = l.cell[d]
      BY <2>3
    <3>4. new = [d \in Cells |-> new[d]]
      BY <2>3
    <3>5. new \in [Cells -> Cell]
      BY <2>3, <3>2, <3>3, <3>4
    <3> QED
      BY <3>1, <3>2, <3>3, <3>5
  <2> HIDE DEF new
  <2>6. InUse(new, last, V, {node})
    <3>1. last \in V \cup {head, NULL}
      BY <1>1 DEF InUse
    <3>2. \A n \in Nodes \ V : new[n] = Blank
      BY <2>3, <2>4, <2>5, NodesAreCells DEF Free
    <3>3. \A n \in V : new[n].server_addr # NULL
      BY <1>1, <1>2, <2>3, <2>5, NodesAreCells DEF InUse
    <3>4. \A n \in V \ {node} : new[n].prev # NULL
      BY <1>1, <2>3, <2>5, NodesAreCells DEF InUse
    <3>5. \A c \in Cells : /\ new[c].next \in V \cup {NULL}
                        /\ new[c].prev \in V \cup {head, NULL}
      BY <1>1, <2>3, <2>5 DEF InUse
    <3> QED
      BY <2>4, <2>5, <3>1, <3>2, <3>3, <3>4, <3>5 DEF InUse
  <2>7. InUse(PushFront(new, node), last, V, {})
    BY <2>6, PushInUse
  <2>8. last # NULL /\ More(l.alength) \in 0..UINT_MAX
    BY <1>1, <1>2, <2>3 DEF More
  <2>9. k.cell = PushFront(new, node) /\ k.tail = last /\ k.alength = More(l.alength) /\ IsRecord(k)
    BY DEF IsRecord
  <2> HIDE DEF k, last, V
  <2>10. ListType(k)
    BY <2>7, <2>8, <2>9, InUseList
  <2> QED
    BY <2>2, <2>10
<1> QED
  BY <1>3, <1>4

-----------------------------------------------------------------------------
(* All types.                                                               *)

\* Packets of data, and what is to be one.
DataIn(s) == Len(s) - RequestsIn(s)
Unsent(c) == IF pending[c] # NULL /\ pending[c].unsent THEN 1 ELSE 0

\* Data taken for commands was sent in a call each, and so is what may yet be.
TakenInv(c) == extra[c] + DataIn(toServer[c]) + Unsent(c) <= calls

TypeInv ==
  /\ LinkType /\ ListType(list) /\ overflowed \in BOOLEAN
  /\ \A c \in Clients : TakenInv(c)

LEMMA DataIsNat ==
  ASSUME NEW s \in Seq(Packets)
  PROVE  DataIn(s) \in Nat
<1>1. Len(s) \in Nat
  BY LenProperties
<1>2. IsFiniteSet(1..Len(s)) /\ Cardinality(1..Len(s)) = Len(s)
  <2>1. ASSUME NEW n \in Nat PROVE IsFiniteSet(1..n) /\ Cardinality(1..n) = n
    <3>1. Cardinality(1..n) = IF 1 > n THEN 0 ELSE n - 1 + 1
      BY FS_Interval
    <3>2. IsFiniteSet(1..n)
      BY FS_Interval
    <3> QED
      BY <3>1, <3>2
  <2> QED
    BY <1>1, <2>1
<1>3. Requesting(s) \subseteq 1..Len(s)
  BY DEF Requesting
<1>4. Cardinality(Requesting(s)) <= Len(s)
  BY <1>2, <1>3, FS_Subset
<1>5. RequestsIn(s) \in Nat /\ RequestsIn(s) <= Len(s)
  BY <1>4, RequestsFinite
<1> QED
  BY <1>1, <1>5 DEF DataIn

LEMMA DataAppended ==
  ASSUME NEW s \in Seq(Packets), NEW p \in Packets
  PROVE  DataIn(Append(s, p)) = DataIn(s) + (IF p.kind = "request" THEN 0 ELSE 1)
<1>1. Len(Append(s, p)) = Len(s) + 1 /\ Len(s) \in Nat
  BY AppendProperties, LenProperties
<1>2. RequestsIn(Append(s, p)) = RequestsIn(s) + (IF p.kind = "request" THEN 1 ELSE 0)
  BY AppendCounts
<1>3. RequestsIn(s) \in Nat
  BY RequestsFinite
<1> QED
  BY <1>1, <1>2, <1>3 DEF DataIn

LEMMA DataTaken ==
  ASSUME NEW s \in Seq(Packets), s # <<>>
  PROVE  DataIn(s) = DataIn(Tail(s)) + (IF Head(s).kind = "request" THEN 0 ELSE 1)
<1>1. Len(Tail(s)) = Len(s) - 1 /\ Len(s) \in Nat /\ Tail(s) \in Seq(Packets)
  BY HeadTailProperties, LenProperties
<1>2. RequestsIn(s) = RequestsIn(Tail(s)) + (IF Head(s).kind = "request" THEN 1 ELSE 0)
  BY TailCounts
<1>3. RequestsIn(Tail(s)) \in Nat
  BY <1>1, RequestsFinite
<1> QED
  BY <1>1, <1>2, <1>3 DEF DataIn

\* A step that leaves a client its packets and its call leaves it TakenInv.
LEMMA TakenKept ==
  ASSUME NEW c \in Clients, LinkType, LinkType', TakenInv(c), toServer'[c] = toServer[c],
         pending'[c] = pending[c], extra'[c] = extra[c] \/ extra'[c] = 0, calls' >= calls
  PROVE  TakenInv(c)'
<1>1. /\ DataIn(toServer[c]) \in Nat /\ Unsent(c) \in Nat /\ Unsent(c)' = Unsent(c)
      /\ extra[c] \in Nat /\ extra'[c] \in Nat /\ calls \in Nat /\ calls' \in Nat
  BY DataIsNat DEF LinkType, Unsent
<1> QED
  BY <1>1 DEF TakenInv

LEMMA TakenStep ==
  ASSUME LinkType, LinkType', NEW c \in Clients, ActsFor(c), NEW d \in Clients, TakenInv(d)
  PROVE  TakenInv(d)'
<1> DEFINE s == toServer[d]
<1>1. /\ s \in Seq(Packets) /\ DataIn(s) \in Nat /\ extra[d] \in Nat /\ calls \in Nat
      /\ Unsent(d) \in {0, 1} /\ Unsent(d)' \in {0, 1} /\ extra'[d] \in Nat /\ calls' \in Nat
      /\ <<>> \in Seq(Packets) /\ DataIn(<<>>) = 0
      /\ extra \in [Clients -> Nat] /\ toServer \in [Clients -> Seq(Packets)]
      /\ DOMAIN pending = Clients
  <2>1. DataIn(<<>>) = 0
    BY NoRequests, EmptySeq DEF DataIn
  <2>2. /\ s \in Seq(Packets) /\ DataIn(s) \in Nat /\ <<>> \in Seq(Packets)
    BY DataIsNat, EmptySeq DEF LinkType
  <2> QED
    BY <2>1, <2>2 DEF LinkType, Unsent
<1>2. ASSUME NEW op \in Ops, Request(c, op), Unsent(c) = 0, extra' = extra PROVE TakenInv(d)'
  <2> DEFINE p == [kind |-> "request", op |-> op, id |-> calls + 1]
  <2>1. calls' = calls + 1 /\ p \in Packets /\ p.kind = "request"
    BY <1>1, <1>2 DEF Request, Packets, Calls, LinkType
  <2>2. CASE d = c
    <3>1. toServer'[d] = Append(s, p)
      BY <1>1, <1>2, <2>2 DEF Request
    <3> HIDE DEF p
    <3>2. DataIn(toServer'[d]) = DataIn(s)
      BY <1>1, <2>1, <3>1, DataAppended
    <3> QED
      BY <1>1, <1>2, <2>1, <2>2, <3>2 DEF TakenInv
  <2>3. CASE d # c
    <3>1. toServer'[d] = toServer[d] /\ pending'[d] = pending[d] /\ extra'[d] = extra[d]
      BY <1>1, <1>2, <2>3 DEF Request
    <3> QED
      BY <1>1, <2>1, <3>1, TakenKept
  <2> QED
    BY <2>2, <2>3
<1>3. ASSUME Connect(c) \/ Accept(c) \/ AcceptCrashes(c) \/ Lost(c) \/ Drop(c) PROVE TakenInv(d)'
  <2>1. toServer'[d] = toServer[d] /\ pending'[d] = pending[d] /\ calls' = calls
    BY <1>3 DEF Connect, Accept, AcceptCrashes, Lost, Drop, link
  <2>2. extra'[d] = extra[d] \/ extra'[d] = 0
    BY <1>1, <1>3 DEF Connect, Accept, AcceptCrashes, Lost, Drop, link
  <2> QED
    BY <1>1, <2>1, <2>2, TakenKept
<1>4. ASSUME NEW op \in Ops, Call(c, op) PROVE TakenInv(d)'
  <2>1. Request(c, op) /\ Unsent(c) = 0 /\ extra' = extra
    BY <1>4 DEF Call, Unsent
  <2> QED
    BY <1>2, <2>1
<1>5. ASSUME SendData(c) PROVE TakenInv(d)'
  <2> DEFINE p == [kind |-> "data", op |-> pending[c].op, id |-> pending[c].id]
  <2>1. /\ calls' = calls /\ extra' = extra /\ p \in Packets /\ p.kind # "request"
        /\ pending[c] # NULL /\ pending[c].unsent
    BY <1>5 DEF SendData, LinkType, Packets
  <2>2. CASE d = c
    <3>1. toServer'[d] = Append(s, p) /\ Unsent(d) = 1
      BY <1>1, <1>5, <2>1, <2>2 DEF SendData, Unsent
    <3>2. ~ pending'[d].unsent
      <4>1. pending[c] \in [op : Ops, id : Calls, unsent : BOOLEAN]
        BY <2>1 DEF LinkType
      <4>2. pending'[c] = [pending[c] EXCEPT !.unsent = FALSE]
        BY <1>1, <1>5 DEF SendData
      <4> QED
        BY <2>2, <4>1, <4>2
    <3>3. Unsent(d)' = 0
      BY <3>2 DEF Unsent
    <3> HIDE DEF p
    <3>4. DataIn(toServer'[d]) = DataIn(s) + 1
      BY <1>1, <2>1, <3>1, DataAppended
    <3> QED
      BY <1>1, <2>1, <3>1, <3>3, <3>4 DEF TakenInv
  <2>3. CASE d # c
    <3>1. toServer'[d] = toServer[d] /\ pending'[d] = pending[d]
      BY <1>1, <1>5, <2>3 DEF SendData
    <3> QED
      BY <1>1, <2>1, <3>1, TakenKept
  <2> QED
    BY <2>2, <2>3
<1>6. ASSUME Returned(c), extra' = extra PROVE TakenInv(d)'
  <2>1. toServer' = toServer /\ calls' = calls /\ (d # c => pending'[d] = pending[d])
    BY <1>1, <1>6 DEF Returned
  <2>2. d = c => Unsent(d)' = 0
    BY <1>1, <1>6 DEF Returned, Unsent
  <2> QED
    BY <1>1, <1>6, <2>1, <2>2, TakenKept DEF TakenInv
<1>7. ASSUME Answer(c) PROVE TakenInv(d)'
  <2>1. extra' = extra /\ Unsent(c) = 0
    BY <1>7 DEF Answer, Waiting, Unsent
  <2>2. Returned(c) \/ (Request(c, do_readdir) /\ do_readdir \in Ops)
    BY <1>7 DEF Answer, Waiting, LinkType
  <2> QED
    BY <1>2, <1>6, <2>1, <2>2
<1>8. ASSUME Close(c) PROVE TakenInv(d)'
  <2>1. /\ calls' = calls /\ extra' = extra /\ (d # c => pending'[d] = pending[d])
        /\ toServer'[d] = toServer[d] \/ (d = c /\ toServer'[d] = <<>>)
    BY <1>1, <1>8 DEF Close
  <2>2. d = c => Unsent(d)' = 0
    BY <1>1, <1>8 DEF Close, Unsent
  <2>3. CASE d = c
    <3>1. DataIn(toServer'[d]) <= DataIn(s) /\ DataIn(toServer'[d]) \in Nat
      BY <1>1, <2>1
    <3> QED
      BY <1>1, <2>1, <2>2, <2>3, <3>1 DEF TakenInv
  <2>4. CASE d # c
    BY <1>1, <2>1, <2>4, TakenKept
  <2> QED
    BY <2>3, <2>4
<1>9. ASSUME Serve(c) PROVE TakenInv(d)'
  <2>1. /\ calls' = calls /\ pending' = pending /\ s \in Seq(Packets)
        /\ toServer' = [toServer EXCEPT ![c] = Tail(@)] /\ toServer[c] # <<>>
        /\ extra' = IF Head(toServer[c]).kind = "data" THEN [extra EXCEPT ![c] = @ + 1] ELSE extra
    BY <1>1, <1>9 DEF Serve, Handle
  <2>2. CASE d = c
    <3>1. toServer'[d] = Tail(s) /\ s # <<>> /\ Unsent(d)' = Unsent(d)
      BY <1>1, <2>1, <2>2 DEF Unsent
    <3>2. Head(s).kind \in {"request", "data"} /\ Tail(s) \in Seq(Packets)
      <4>1. Head(s) \in Packets /\ Tail(s) \in Seq(Packets)
        BY <1>1, <3>1, HeadTailProperties
      <4> QED
        BY <4>1 DEF Packets
    <3>3. extra'[d] = IF Head(s).kind = "request" THEN extra[d] ELSE extra[d] + 1
      BY <1>1, <2>1, <2>2, <3>2
    <3>4. DataIn(s) = DataIn(Tail(s)) + (IF Head(s).kind = "request" THEN 0 ELSE 1)
          /\ DataIn(Tail(s)) \in Nat
      BY <1>1, <3>1, <3>2, DataTaken, DataIsNat
    <3> HIDE DEF s
    <3>5. extra[d] + DataIn(s) + Unsent(d) <= calls
      BY DEF TakenInv, s
    <3>6. extra'[d] + DataIn(Tail(s)) + Unsent(d) <= calls
      BY <1>1, <3>3, <3>4, <3>5
    <3> QED
      BY <2>1, <3>1, <3>6 DEF TakenInv
  <2>3. CASE d # c
    <3>1. toServer'[d] = toServer[d] /\ extra'[d] = extra[d]
      BY <1>1, <2>1, <2>3
    <3> QED
      BY <1>1, <2>1, <3>1, TakenKept
  <2> QED
    BY <2>2, <2>3
<1>10. ASSUME ServeData(c) PROVE TakenInv(d)'
  <2>1. /\ calls' = calls /\ pending' = pending /\ extra' = extra
        /\ \/ toServer' = toServer
           \/ toServer' = [toServer EXCEPT ![c] = Tail(@)] /\ toServer[c] # <<>>
    BY <1>10 DEF ServeData
  <2>2. CASE toServer'[d] = toServer[d]
    BY <1>1, <2>1, <2>2, TakenKept
  <2>3. CASE toServer'[d] # toServer[d]
    <3>1. toServer'[d] = Tail(s) /\ s # <<>> /\ Unsent(d)' = Unsent(d)
      BY <1>1, <2>1, <2>3 DEF Unsent
    <3>2. Tail(s) \in Seq(Packets)
      BY <1>1, <3>1, HeadTailProperties
    <3>3. DataIn(s) = DataIn(Tail(s)) + (IF Head(s).kind = "request" THEN 0 ELSE 1)
      BY <1>1, <3>1, DataTaken
    <3>4. DataIn(Tail(s)) \in Nat
      BY <3>2, DataIsNat
    <3>5. extra[d] + DataIn(s) + Unsent(d) <= calls
      BY DEF TakenInv
    <3> HIDE DEF s
    <3>6. extra[d] \in Nat /\ Unsent(d) \in Nat /\ calls \in Nat
      BY <1>1
    <3>7. extra[d] + DataIn(Tail(s)) + Unsent(d) <= calls
      BY <3>3, <3>4, <3>5, <3>6
    <3> QED
      BY <2>1, <3>1, <3>7 DEF TakenInv
  <2> QED
    BY <2>2, <2>3
<1> QED
  BY <1>3, <1>4, <1>5, <1>7, <1>8, <1>9, <1>10 DEF ActsFor, ServerStep, ClientStep

LEMMA TypeInvStep == TypeInv /\ [Next]_vars => TypeInv'
<1> SUFFICES ASSUME TypeInv, [Next]_vars PROVE TypeInv'
  OBVIOUS
<1>1. LinkType /\ LinkType'
  BY TypeStep DEF TypeInv
<1>2. CASE UNCHANGED vars
  BY <1>1, <1>2 DEF vars, link, TypeInv, TakenInv, Unsent
<1>3. ASSUME NEW c \in Clients, ActsFor(c) PROVE TypeInv'
  <2>1. ASSUME NEW d \in Clients PROVE TakenInv(d)'
    BY <1>1, <1>3, TakenStep DEF TypeInv
  <2>2. c \in Keys /\ c \in Datas /\ c # NULL /\ ListType(list)
    BY CorefsServerAssumption DEF TypeInv
  <2>3. ListType(list')
    <3>1. CASE Accept(c)
      BY <2>2, <3>1, InsertType DEF Accept
    <3>2. CASE Serve(c)
      BY <2>2, <3>2, GetType DEF Serve
    <3>3. CASE Drop(c)
      BY <2>2, <3>3, GetType, RemoveType DEF Drop
    <3>4. CASE ~Accept(c) /\ ~Serve(c) /\ ~Drop(c)
      <4>1. list' = list
        BY <1>3, <3>4 DEF ActsFor, ServerStep, ClientStep, Connect, Call, SendData, Answer, Close,
                          AcceptCrashes, Lost, ServeData
      <4> QED
        BY <2>2, <4>1
    <3> QED
      BY <3>1, <3>2, <3>3, <3>4
  <2>4. overflowed' \in BOOLEAN
    <3>1. overflowed' = overflowed \/ overflowed' = (overflowed \/ list.alength = MAX_LIST_LENGTH)
      BY <1>3 DEF ActsFor, ServerStep, ClientStep, Connect, Call, SendData, Answer, Close,
                  Accept, AcceptCrashes, Lost, Serve, ServeData, Drop
    <3> QED
      BY <3>1 DEF TypeInv
  <2>5. ListType(list)'
    BY <2>3 DEF ListType, LinksInUse, Free
  <2> QED
    BY <1>1, <2>1, <2>4, <2>5 DEF TypeInv
<1> QED
  BY <1>2, <1>3 DEF Next, ActsFor

\* Every variable has its type, however far beyond its limit the list of the server
\* has been: its links lead to nodes in use or the head, and there is always one to
\* take a node out of it by.
THEOREM ServerTypeCorrect == Spec => []TypeOK
<1>1. Init => TypeInv
  <2> SUFFICES ASSUME Init PROVE TypeInv
    OBVIOUS
  <2>1. LinkType /\ overflowed \in BOOLEAN
    BY LinkInit DEF LinkInv, Init
  <2>2. ListType(list)
    <3>1. Blank \in Cell /\ Blank.next = NULL /\ Blank.prev = NULL
      BY DEF Blank, Cell, Links
    <3>2. /\ list.cell = [c \in Cells |-> Blank] /\ list.tail = NULL /\ list.alength = 0
          /\ IsRecord(list) /\ list.alength \in 0..UINT_MAX
      BY CorefsListAssumption DEF Init, init_list_head, IsRecord
    <3>3. InUse(list.cell, list.tail, {}, {})
      BY <3>1, <3>2, NodesAreCells DEF InUse
    <3> QED
      BY <3>2, <3>3, InUseList
  <2>3. ASSUME NEW c \in Clients PROVE TakenInv(c)
    <3>1. DataIn(<<>>) = 0
      BY NoRequests, EmptySeq DEF DataIn
    <3> QED
      BY <3>1 DEF Init, TakenInv, Unsent
  <2> QED
    BY <2>1, <2>2, <2>3 DEF TypeInv
<1>2. TypeInv => TypeOK
  <2> SUFFICES ASSUME TypeInv PROVE TypeOK
    OBVIOUS
  <2>1. LinkType /\ ListType(list) /\ overflowed \in BOOLEAN /\ MaxCalls \in Nat
    BY CorefsServerAssumption DEF TypeInv
  <2>2. ASSUME NEW c \in Clients PROVE extra[c] \in 0..MaxCalls
    <3>1. /\ DataIn(toServer[c]) \in Nat /\ Unsent(c) \in Nat /\ extra[c] \in Nat
          /\ calls \in 0..MaxCalls
      BY <2>1, DataIsNat DEF LinkType, Unsent
    <3>2. extra[c] + DataIn(toServer[c]) + Unsent(c) <= calls
      BY DEF TypeInv, TakenInv
    <3> QED
      BY <2>1, <3>1, <3>2
  <2>3. extra \in [Clients -> 0..MaxCalls]
    BY <2>1, <2>2 DEF LinkType
  <2> QED
    BY <2>1, <2>3 DEF LinkType, ListType, TypeOK
<1> QED
  BY <1>1, <1>2, TypeInvStep, PTL DEF Spec
=============================================================================
