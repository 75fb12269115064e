----------------------------- MODULE CorefsServer -----------------------------
(***************************************************************************)
(* The server of corefs-1.5/src/fs/server.c with its clients (client.c),   *)
(* each over a TCP connection: requests and replies in order, one process  *)
(* that serves whatever client has sent something.  A write or setxattr is *)
(* sent as two packets, the request and its data, whatever the server      *)
(* answers to the first.                                                   *)
(*                                                                         *)
(* A packet is known by the number of the call it is sent in; nothing in   *)
(* the code looks at such a number.  The files themselves, paths and       *)
(* contents are left out: an operation is done or refused.                 *)
(***************************************************************************)
EXTENDS CorefsList

CONSTANTS
  Clients,
  Ops,            \* the operations called, of those below
  MaxCalls        \* bound: requests sent

\* An operation of the client: the type and the size in its request, whether it
\* sends a packet of data after it, and the type of reply it waits for.
Op(type, size, data, reply) == [type |-> type, size |-> size, data |-> data, reply |-> reply]

do_getattr         == Op("GETATTR", 0, FALSE, "ATTR")
do_read            == Op("READ", 1, FALSE, "DATA")
do_write           == Op("WRITE", 1, TRUE, "STATUS")
do_readdir         == Op("READDIR", 0, FALSE, "DATA")
do_readlink        == Op("READLINK", 1, FALSE, "DATA")
do_setxattr        == Op("SETXATTR", 1, TRUE, "STATUS")
do_getxattr(size)  == Op("GETXATTR", size, FALSE, IF size = 0 THEN "STATUS" ELSE "DATA")
do_listxattr(size) == Op("LISTXATTR", size, FALSE, IF size = 0 THEN "STATUS" ELSE "DATA")
do_removexattr     == Op("REMOVEXATTR", 0, FALSE, "STATUS")
\* access, truncate, mknod, unlink, rename, symlink, link, mkdir, rmdir, open,
\* release, chmod and utime.
simple_op          == Op("SIMPLE", 0, FALSE, "STATUS")

Operations ==
  {do_getattr, do_read, do_write, do_readdir, do_readlink, do_setxattr, do_removexattr, simple_op}
    \cup {do_getxattr(size) : size \in {0, 1}} \cup {do_listxattr(size) : size \in {0, 1}}

ASSUME CorefsServerAssumption ==
  /\ Keys = Clients /\ Datas = Clients   \* a descriptor, and the context made for it
  /\ NULL \notin Clients
  /\ Ops \subseteq Operations
  /\ MaxCalls \in Nat
  /\ NULL \notin [op : Ops, id : 1..MaxCalls, unsent : BOOLEAN]
  /\ NULL \notin [client : Clients, op : Ops, id : 1..MaxCalls]

VARIABLES
  list,       \* the contexts of the clients the server has accepted
  holding,    \* the request whose data the server waits for, or NULL
  mode,       \* the server's process: up, ended, or lost in accept or a search
  conn,       \* per client: no connection, one to be accepted, one accepted
  end,        \* per client: its end of the connection, as its kernel has it
  toServer, toClient,
  pending,    \* per client: the call it is in, or NULL
  calls,      \* requests sent so far
  extra,      \* history: data packets of the connection taken for commands
  overflowed  \* history: a client was accepted when the list was at its limit

link == <<conn, end, toServer, toClient>>
vars == <<list, holding, mode, link, pending, calls, extra, overflowed>>

Calls == 1..MaxCalls
Packets == [kind : {"request", "data"}, op : Ops, id : Calls]
Replies == [type : {"ERROR", "ATTR", "DATA", "MOREDATA", "STATUS"}, id : Calls]

TypeOK ==
  /\ list \in Lists /\ LinksInUse(list)
  /\ holding \in [client : Clients, op : Ops, id : Calls] \cup {NULL}
  /\ mode \in {"up", "ended", "lost"}
  /\ conn \in [Clients -> {"none", "backlog", "open"}]
  /\ end \in [Clients -> {"none", "up", "closed", "reset"}]
  /\ toServer \in [Clients -> Seq(Packets)]
  /\ toClient \in [Clients -> Seq(Replies)]
  /\ pending \in [Clients -> [op : Ops, id : Calls, unsent : BOOLEAN] \cup {NULL}]
  /\ calls \in 0..MaxCalls
  /\ extra \in [Clients -> 0..MaxCalls]
  /\ overflowed \in BOOLEAN

Init ==
  /\ list = init_list_head /\ holding = NULL /\ mode = "up" /\ overflowed = FALSE
  /\ conn = [c \in Clients |-> "none"] /\ end = [c \in Clients |-> "none"]
  /\ toServer = [c \in Clients |-> <<>>] /\ toClient = [c \in Clients |-> <<>>]
  /\ pending = [c \in Clients |-> NULL]
  /\ calls = 0 /\ extra = [c \in Clients |-> 0]
-----------------------------------------------------------------------------
(* The client.                                                              *)

Connect(c) ==
  /\ mode # "ended" /\ conn[c] = "none"
  /\ conn' = [conn EXCEPT ![c] = "backlog"]
  /\ end' = [end EXCEPT ![c] = "up"]
  /\ UNCHANGED <<list, holding, mode, toServer, toClient, pending, calls, extra, overflowed>>

\* A write sends no data after its request.
BugRequest(c, op) ==
  /\ calls < MaxCalls
  /\ calls' = calls + 1
  /\ pending' = [pending EXCEPT
       ![c] = [op |-> op, id |-> calls + 1, unsent |-> op.type = "SETXATTR"]]
  /\ toServer' = [toServer EXCEPT
       ![c] = Append(@, [kind |-> "request", op |-> op, id |-> calls + 1])]
Request(c, op) ==
  /\ calls < MaxCalls
  /\ calls' = calls + 1
  /\ pending' = [pending EXCEPT ![c] = [op |-> op, id |-> calls + 1, unsent |-> op.data]]
  /\ toServer' = [toServer EXCEPT
       ![c] = Append(@, [kind |-> "request", op |-> op, id |-> calls + 1])]

\* A server that has ended makes the call fail at once.
Call(c, op) ==
  /\ mode # "ended" /\ end[c] = "up" /\ pending[c] = NULL
  /\ Request(c, op)
  /\ UNCHANGED <<list, holding, mode, conn, end, toClient, extra, overflowed>>

\* The second packet of do_write and do_setxattr.
SendData(c) ==
  /\ pending[c] # NULL /\ pending[c].unsent
  /\ pending' = [pending EXCEPT ![c].unsent = FALSE]
  /\ toServer' = [toServer EXCEPT
       ![c] = Append(@, [kind |-> "data", op |-> pending[c].op, id |-> pending[c].id])]
  /\ UNCHANGED <<list, holding, mode, conn, end, toClient, calls, extra, overflowed>>

Waiting(c) == pending[c] # NULL /\ ~pending[c].unsent
Returned(c) == pending' = [pending EXCEPT ![c] = NULL] /\ UNCHANGED <<toServer, calls>>

\* A receive that gives up leaves its reply to the next one.
BugAnswer(c) ==
  /\ Waiting(c) /\ Returned(c)
  /\ \/ toClient[c] # <<>> /\ toClient' = [toClient EXCEPT ![c] = Tail(@)]
     \/ UNCHANGED toClient
  /\ UNCHANGED <<list, holding, mode, conn, end, extra, overflowed>>
\* client_receive_specified.  A reply of the wrong type ends the call as an error
\* does, and so does a connection the server has ended.  do_readdir asks again
\* when there is more, unless its buffer is full.
Answer(c) ==
  /\ Waiting(c)
  /\ \/ /\ toClient[c] # <<>>
        /\ toClient' = [toClient EXCEPT ![c] = Tail(@)]
        /\ \/ Returned(c)
           \/ /\ pending[c].op = do_readdir /\ Head(toClient[c]).type = "MOREDATA"
              /\ mode # "ended"
              /\ Request(c, do_readdir)
     \/ /\ mode = "ended" /\ toClient[c] = <<>>
        /\ Returned(c) /\ UNCHANGED toClient
  /\ UNCHANGED <<list, holding, mode, conn, end, extra, overflowed>>

\* The client ends, in a call or not.  With replies it has not read its kernel
\* resets the connection, and what it has sent may be lost.
Close(c) ==
  /\ end[c] = "up"
  /\ pending' = [pending EXCEPT ![c] = NULL]
  /\ toClient' = [toClient EXCEPT ![c] = <<>>]
  /\ IF toClient[c] = <<>>
     THEN end' = [end EXCEPT ![c] = "closed"] /\ UNCHANGED toServer
     ELSE /\ end' = [end EXCEPT ![c] = "reset"]
          /\ toServer' = [toServer EXCEPT ![c] = <<>>] \/ UNCHANGED toServer
  /\ UNCHANGED <<list, holding, mode, conn, calls, extra, overflowed>>
-----------------------------------------------------------------------------
(* The server: the loop of main, one client at a time.                      *)

Ready == mode = "up" /\ holding = NULL
Ended(c) == toServer[c] = <<>> /\ end[c] # "up"

\* Bound: Nodes; a list that was beyond its limit may keep nodes removed from it.
Accept(c) ==
  /\ Ready /\ conn[c] = "backlog"
  /\ IF list.alength = MAX_LIST_LENGTH THEN list.tail # head ELSE Free(list) # {}
  /\ conn' = [conn EXCEPT ![c] = "open"]
  /\ list' = insert_info_ptr(list, c, c)
  /\ overflowed' = (overflowed \/ list.alength = MAX_LIST_LENGTH)
  /\ UNCHANGED <<holding, mode, end, toServer, toClient, pending, calls, extra>>

\* At the limit with the head as the tail, the key is copied to the head, which has
\* no memory for one: its alength, which should be the length of a key, is the
\* length of the list and not less than FDLEN, so none is allocated.
AcceptCrashes(c) ==
  /\ Ready /\ conn[c] = "backlog"
  /\ list.alength = MAX_LIST_LENGTH /\ list.tail = head
  /\ mode' = "ended"
  /\ UNCHANGED <<list, holding, link, pending, calls, extra, overflowed>>

\* The context of the client is not found.  The search does not end; or the
\* descriptor is closed and stays among those select waits for, which then fails
\* at once and leaves main in accept.  What main does once another client comes
\* is left out.
Lost(c) ==
  /\ Ready /\ conn[c] = "open"
  /\ toServer[c] # <<>> \/ Ended(c)
  /\ Find(list, c) \notin Nodes
  /\ mode' = "lost"
  /\ UNCHANGED <<list, holding, link, pending, calls, extra, overflowed>>

\* A reply to packet p.  The first to a client that has ended goes nowhere and
\* has the connection reset; the next may raise SIGPIPE, which ends the server:
\* nothing in it handles the signal, and send is not told to leave it out.
Reply(c, p, type) ==
  \/ /\ end[c] = "up"
     /\ toClient' = [toClient EXCEPT ![c] = Append(@, [type |-> type, id |-> p.id])]
     /\ UNCHANGED <<end, mode>>
  \/ /\ end[c] # "up"
     /\ end' = [end EXCEPT ![c] = "reset"]
     /\ UNCHANGED <<toClient, mode>>
  \/ /\ end[c] = "reset"
     /\ mode' = "ended"
     /\ UNCHANGED <<toClient, end>>

\* What a handler may answer to a request; "wait" for its data first.  Any
\* operation may fail.
handle_getattr(op)     == {"ATTR", "ERROR"}
handle_read(op)        == {"DATA", "ERROR"}
handle_write(op)       == {"wait", "ERROR"}   \* fopen may refuse it at once
handle_readdir(op)     == {"DATA", "MOREDATA", "ERROR"}
handle_readlink(op)    == {"DATA", "ERROR"}
handle_setxattr(op)    == {"wait"}
handle_getxattr(op)    == {IF op.size = 0 THEN "STATUS" ELSE "DATA", "ERROR"}
handle_listxattr(op)   == {IF op.size = 0 THEN "STATUS" ELSE "DATA", "ERROR"}
handle_removexattr(op) == {"STATUS", "ERROR"}
handle_simple(op)      == {"STATUS", "ERROR"}

handle_fileop(op) ==
  CASE op.type = "GETATTR"  -> handle_getattr(op)
    [] op.type = "READ"     -> handle_read(op)
    [] op.type = "WRITE"    -> handle_write(op)
    [] op.type = "READDIR"  -> handle_readdir(op)
    [] op.type = "READLINK" -> handle_readlink(op)

handle_xattr(op) ==
  CASE op.type = "SETXATTR"    -> handle_setxattr(op)
    [] op.type = "GETXATTR"    -> handle_getxattr(op)
    [] op.type = "REMOVEXATTR" -> handle_removexattr(op)
    [] op.type = "LISTXATTR"   -> handle_listxattr(op)

\* A packet of data is no request.
handle_command(p) ==
  IF p.kind = "data" THEN {"ERROR"}
  ELSE CASE p.op.type = "SIMPLE" -> handle_simple(p.op)
         [] p.op.type \in {"SETXATTR", "GETXATTR", "REMOVEXATTR", "LISTXATTR"} -> handle_xattr(p.op)
         [] OTHER -> handle_fileop(p.op)

\* An operation that fails is not answered.
BugHandle(c, p) ==
  /\ \E type \in handle_command(p) \ {"wait"} :
       IF type = "ERROR" THEN UNCHANGED <<toClient, end, mode>> ELSE Reply(c, p, type)
  /\ UNCHANGED <<holding, extra>>
Handle(c, p) ==
  /\ \E type \in handle_command(p) :
       IF type = "wait"
       THEN holding' = [client |-> c, op |-> p.op, id |-> p.id] /\ UNCHANGED <<toClient, end, mode>>
       ELSE Reply(c, p, type) /\ UNCHANGED holding
  /\ extra' = IF p.kind = "data" THEN [extra EXCEPT ![c] = @ + 1] ELSE extra

Serve(c) ==
  /\ Ready /\ conn[c] = "open"
  /\ toServer[c] # <<>> /\ Find(list, c) \in Nodes
  /\ list' = get_info_ptr(list, c)
  /\ toServer' = [toServer EXCEPT ![c] = Tail(@)]
  /\ Handle(c, Head(toServer[c]))
  /\ UNCHANGED <<conn, pending, calls, overflowed>>

\* server_receive_specified, and the rest of handle_write or handle_setxattr.
ServeData(c) ==
  /\ mode = "up" /\ holding # NULL /\ holding.client = c
  /\ holding' = NULL
  /\ \/ /\ toServer[c] # <<>>
        /\ toServer' = [toServer EXCEPT ![c] = Tail(@)]
        /\ \/ Head(toServer[c]).kind = "data" /\ Reply(c, holding, "STATUS")
           \/ Reply(c, holding, "ERROR")
     \/ /\ Ended(c)
        /\ Reply(c, holding, "ERROR")
        /\ UNCHANGED toServer
  /\ UNCHANGED <<list, conn, pending, calls, extra, overflowed>>

\* Nothing more comes from a client that has ended.
Drop(c) ==
  /\ Ready /\ conn[c] = "open"
  /\ Ended(c) /\ Find(list, c) \in Nodes
  /\ list' = remove_info(get_info_ptr(list, c), c)
  /\ conn' = [conn EXCEPT ![c] = "none"]
  /\ end' = [end EXCEPT ![c] = "none"]
  /\ extra' = [extra EXCEPT ![c] = 0]
  /\ UNCHANGED <<holding, mode, toServer, toClient, pending, calls, overflowed>>
-----------------------------------------------------------------------------
ServerStep(c) == Accept(c) \/ AcceptCrashes(c) \/ Lost(c) \/ Serve(c) \/ ServeData(c) \/ Drop(c)
ClientStep(c) == SendData(c) \/ Answer(c)

Next ==
  \E c \in Clients :
    \/ ServerStep(c) \/ ClientStep(c)
    \/ Connect(c) \/ Close(c)
    \/ \E op \in Ops : Call(c, op)

Spec == Init /\ [][Next]_vars

-----------------------------------------------------------------------------
(* Safety.                                                                  *)

\* As long as there have never been more than MAX_LIST_LENGTH clients at once,
\* the list is well linked and holds the clients accepted, each with its own
\* context.
ContextsKept ==
  ~overflowed =>
    /\ WellLinked(list)
    /\ \A c \in Clients :
         LET node == Find(list, c) IN
         IF conn[c] = "open" THEN node \in Nodes /\ list.cell[node].data = c ELSE node = NULL

\* The server loses its way only with a list that was beyond its limit.  With any
\* other a client that ends takes the server with it only if data of its connection
\* was taken for a command.
ServerStays ==
  /\ mode = "lost" => overflowed
  /\ mode = "ended" => overflowed \/ \E c \in Clients : extra[c] > 0

RequestsIn(packets) == Cardinality({i \in 1..Len(packets) : packets[i].kind = "request"})

\* How far a connection is behind: each request is answered once, but data taken
\* for a command is answered too, and for as long as the connection lasts the
\* client has that many replies too many before it.
LagIsExtra ==
  mode # "ended" =>
    \A c \in Clients : end[c] = "up" =>
      RequestsIn(toServer[c]) + Len(toClient[c])
        + (IF holding # NULL /\ holding.client = c THEN 1 ELSE 0)
      = extra[c] + (IF pending[c] = NULL THEN 0 ELSE 1)

\* A reply the client takes is to its own call, and of a type it understands, if
\* no data of its connection was taken for a command.
AnswersOwn ==
  \A c \in Clients :
    Waiting(c) /\ toClient[c] # <<>> /\ extra[c] = 0 =>
      LET reply == Head(toClient[c]) IN
      /\ reply.id = pending[c].id
      /\ \/ reply.type \in {"ERROR", pending[c].op.reply}
         \/ reply.type = "MOREDATA" /\ pending[c].op = do_readdir

\* While the server waits for the second packet of one client it serves nobody
\* else: that packet is there, or its client is about to send it, or has ended.
WaitsForSender ==
  holding # NULL =>
    LET c == holding.client IN
    \/ Ended(c)
    \/ toServer[c] # <<>> /\ Head(toServer[c]).kind = "data" /\ Head(toServer[c]).id = holding.id
    \/ toServer[c] = <<>> /\ pending[c] # NULL /\ pending[c].unsent /\ pending[c].id = holding.id
=============================================================================
