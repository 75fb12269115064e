------------------------------ MODULE ClientCalls ------------------------------
(***************************************************************************)
(* The remote calls of the FUSE client: the operations of src/client.c and *)
(* the thread receiveresponse_client of src/socket_command.c each of them  *)
(* starts to wait for the reply.                                           *)
(*                                                                         *)
(* A caller and its receiver share only global variables: COMMAND_NAME,    *)
(* which tells the receiver where to put the reply, the reply buffers, the *)
(* flag clientreceive_success, and the UDP port 8013, which one socket can *)
(* have at a time.  After a bounded number of polls the caller gives up,   *)
(* but pthread_kill(thread, 0) kills nothing: the receiver stays.          *)
(*                                                                         *)
(* A reply is known here by the number of the call it answers; no code     *)
(* reads that number.  A definition whose name starts with Bug is the      *)
(* definition after it with a plausible mistake in it; no specification    *)
(* uses one.                                                               *)
(***************************************************************************)
EXTENDS Naturals, FiniteSets

CONSTANTS
  Callers,     \* the threads of FUSE
  Ops,         \* the operations they call, out of AllOps
  NULL,
  MaxPolls,    \* polls before "Enough waiting": 101 in the source
  MaxCalls,    \* bound: number of calls
  Duplicates   \* whether the network may deliver a datagram twice
-----------------------------------------------------------------------------
(* The operations.  All have the same body, up to what the record says:     *)
(*   command  what goes into COMMAND_NAME, and so the buffer the receiver   *)
(*            fills                                                         *)
(*   buffer   the buffer the caller parses                                  *)
(*   resets   clientreceive_success = 0 before the request is sent          *)
(*   joins    pthread_join before the buffer is parsed                      *)
(*   frees    free(COMMAND_NAME) after a reply                              *)
(*   fields   the fields of the reply the parser insists on                 *)

Operation(name) ==
  [command |-> name, buffer |-> name, resets |-> TRUE, joins |-> FALSE, frees |-> TRUE,
   fields |-> 2]

my_getattr   == [Operation("getattr") EXCEPT !.joins = TRUE]
xmp_access   == Operation("access")
xmp_readdir  == [Operation("readdir") EXCEPT !.fields = 1]
xmp_mknod    == Operation("mknod")
xmp_mkdir    == [Operation("mkdir") EXCEPT !.joins = TRUE, !.frees = FALSE]
xmp_unlink   == Operation("unlink")
xmp_rmdir    == Operation("rmdir")
xmp_rename   == Operation("rename")
xmp_chmod    == Operation("chmod")
xmp_truncate == Operation("truncate")
xmp_open     == Operation("open")
xmp_read     == Operation("read")
xmp_write    == Operation("write")
xmp_statfs   == [Operation("statfs") EXCEPT !.command = "write", !.resets = FALSE]

AllOps == {my_getattr, xmp_access, xmp_readdir, xmp_mknod, xmp_mkdir, xmp_unlink, xmp_rmdir,
           xmp_rename, xmp_chmod, xmp_truncate, xmp_open, xmp_read, xmp_write, xmp_statfs}

ASSUME ClientAssumption ==
  /\ Ops \subseteq AllOps
  /\ MaxPolls \in Nat \ {0} /\ MaxCalls \in Nat
  /\ Duplicates \in BOOLEAN

\* The buffers that are cleared before the receiver waits; mkdir_buf has 10
\* bytes, and 10000 are cleared.
Cleared == {"getattr", "readdir", "truncate", "unlink", "rmdir", "statfs", "mkdir", "chmod",
            "rename"}
Overrun == {"mkdir"}

Calls == 1..MaxCalls
Buffers == {o.command : o \in Ops} \cup {o.buffer : o \in Ops}

\* A buffer the receiver has chosen is not "no match".
ASSUME BufferAssumption == NULL \notin Buffers

\* Contents of a buffer that are not a reply: nothing, or what strtok left of
\* a reply that has been parsed, its first field.
Empty == 0
Spent == MaxCalls + 1

VARIABLES
  alive,    \* FALSE when the process has died
  calls,    \* how many calls have been started
  op,       \* the operation of each call
  cpc,      \* where each caller is
  cur,      \* the number of its call
  polls,    \* failed polls of its call
  command,  \* what COMMAND_NAME points to, and whether that has been freed
  flag,     \* clientreceive_success
  buf,      \* the reply buffers
  rpc,      \* where the receiver of each call is
  rbuf,     \* the buffer it has chosen
  port,     \* the receiver whose socket is bound to port 8013, 0 if none
  req,      \* requests on their way
  net,      \* replies on their way
  got,      \* history: the reply each call has returned
  failed    \* history: the calls that have given up

caller   == <<calls, op, cpc, cur, polls, got, failed>>
receiver == <<rpc, rbuf, port>>
vars == <<alive, calls, op, cpc, cur, polls, command, flag, buf, rpc, rbuf, port, req, net,
          got, failed>>

TypeOK ==
  /\ alive \in BOOLEAN
  /\ calls \in 0..MaxCalls
  /\ op \in [Calls -> Ops \cup {NULL}]
  /\ cpc \in [Callers -> {"idle", "reset", "send", "poll", "join", "parse"}]
  /\ cur \in [Callers -> 0..MaxCalls]
  /\ polls \in [Callers -> 0..MaxPolls]
  /\ command \in [name : Buffers, freed : BOOLEAN] \cup {NULL}
  /\ flag \in BOOLEAN
  /\ buf \in [Buffers -> Empty..Spent]
  /\ rpc \in [Calls -> {"none", "new", "bind", "choose", "wait", "close", "flag", "done"}]
  /\ rbuf \in [Calls -> Buffers \cup {NULL}]
  /\ port \in 0..MaxCalls
  /\ req \subseteq Calls /\ net \subseteq Calls
  /\ got \in [Calls -> Empty..Spent]
  /\ failed \subseteq Calls

Init ==
  /\ alive = TRUE /\ calls = 0 /\ op = [n \in Calls |-> NULL]
  /\ cpc = [c \in Callers |-> "idle"] /\ cur = [c \in Callers |-> 0]
  /\ polls = [c \in Callers |-> 0]
  /\ command = NULL /\ flag = TRUE /\ buf = [b \in Buffers |-> Empty]
  /\ rpc = [n \in Calls |-> "none"] /\ rbuf = [n \in Calls |-> NULL] /\ port = 0
  /\ req = {} /\ net = {} /\ got = [n \in Calls |-> Empty] /\ failed = {}

\* The operation a caller is in.
Op(c) == op[cur[c]]

\* The process dies: atoi(NULL), a double free, an overrun buffer.
Die ==
  /\ alive' = FALSE
  /\ UNCHANGED <<caller, command, flag, buf, receiver, req, net>>

\* free(COMMAND_NAME); a second free of the same memory is noticed or not.
Free ==
  /\ command' = [command EXCEPT !.freed = TRUE]
  /\ alive' \in IF command.freed THEN BOOLEAN ELSE {TRUE}
-----------------------------------------------------------------------------
(* The caller.                                                              *)

\* COMMAND_NAME is set and the receiver's thread created.
Call(c, o) ==
  /\ alive /\ cpc[c] = "idle" /\ calls < MaxCalls
  /\ calls' = calls + 1
  /\ op' = [op EXCEPT ![calls'] = o]
  /\ cur' = [cur EXCEPT ![c] = calls'] /\ polls' = [polls EXCEPT ![c] = 0]
  /\ command' = [name |-> o.command, freed |-> FALSE]
  /\ rpc' = [rpc EXCEPT ![calls'] = "new"]
  /\ cpc' = [cpc EXCEPT ![c] = IF o.resets THEN "reset" ELSE "send"]
  /\ UNCHANGED <<alive, flag, buf, rbuf, port, req, net, got, failed>>

\* The flag of the last call is left as it is.
BugReset(c) ==
  /\ alive /\ cpc[c] = "reset"
  /\ cpc' = [cpc EXCEPT ![c] = "send"]
  /\ UNCHANGED <<alive, calls, op, cur, polls, command, flag, buf, receiver, req, net, got,
                 failed>>

Reset(c) ==
  /\ alive /\ cpc[c] = "reset"
  /\ flag' = FALSE
  /\ cpc' = [cpc EXCEPT ![c] = "send"]
  /\ UNCHANGED <<alive, calls, op, cur, polls, command, buf, receiver, req, net, got, failed>>

\* "return -1"; the receiver is left to itself.
GiveUp(c) ==
  /\ Free
  /\ failed' = failed \cup {cur[c]}
  /\ cpc' = [cpc EXCEPT ![c] = "idle"]
  /\ UNCHANGED <<calls, op, cur, flag, buf, receiver, req, net, got>>

SendRequest(c) ==
  /\ alive /\ cpc[c] = "send"
  /\ req' = req \cup {cur[c]}
  /\ cpc' = [cpc EXCEPT ![c] = "poll"]
  /\ UNCHANGED <<alive, calls, op, cur, polls, command, flag, buf, receiver, net, got, failed>>

\* The namenode's name cannot be resolved.
SendFails(c) ==
  /\ alive /\ cpc[c] = "send"
  /\ UNCHANGED polls /\ GiveUp(c)

PollHit(c) ==
  /\ alive /\ cpc[c] = "poll" /\ flag
  /\ \/ /\ Op(c).joins
        /\ cpc' = [cpc EXCEPT ![c] = "join"]
        /\ UNCHANGED <<alive, command>>
     \/ /\ ~Op(c).joins
        /\ cpc' = [cpc EXCEPT ![c] = "parse"]
        /\ Free
  /\ UNCHANGED <<calls, op, cur, polls, flag, buf, receiver, req, net, got, failed>>

\* The polls are not counted.
BugPollMiss(c) ==
  /\ alive /\ cpc[c] = "poll" /\ ~flag
  /\ UNCHANGED vars

\* One more poll than the bound.
BugPollOnceMore(c) ==
  /\ alive /\ cpc[c] = "poll" /\ ~flag
  /\ polls' = [polls EXCEPT ![c] = @ + 1]
  /\ IF polls'[c] > MaxPolls
     THEN GiveUp(c)
     ELSE UNCHANGED <<alive, calls, op, cpc, cur, command, flag, buf, receiver, req, net, got,
                      failed>>

\* usleep(10); counter++; then "Enough waiting" or the next poll.
PollMiss(c) ==
  /\ alive /\ cpc[c] = "poll" /\ ~flag
  /\ polls' = [polls EXCEPT ![c] = @ + 1]
  /\ IF polls'[c] = MaxPolls
     THEN GiveUp(c)
     ELSE UNCHANGED <<alive, calls, op, cpc, cur, command, flag, buf, receiver, req, net, got,
                      failed>>

Join(c) ==
  /\ alive /\ cpc[c] = "join" /\ rpc[cur[c]] = "done"
  /\ cpc' = [cpc EXCEPT ![c] = "parse"]
  /\ IF Op(c).frees THEN Free ELSE UNCHANGED <<alive, command>>
  /\ UNCHANGED <<calls, op, cur, polls, flag, buf, receiver, req, net, got, failed>>

\* atoi(NULL): a field is not there.  A buffer that is empty or has been
\* parsed lacks fields for sure, the reply to another operation perhaps.
ParseFails(c) ==
  LET content == buf[Op(c).buffer] IN
  /\ alive /\ cpc[c] = "parse"
  /\ \/ content = Empty
     \/ content = Spent /\ Op(c).fields > 1
     \/ content \in Calls /\ op[content] # Op(c)
  /\ Die

\* strtok cuts the fields out of the buffer in place.
Parse(c) ==
  LET b == Op(c).buffer IN
  /\ alive /\ cpc[c] = "parse"
  /\ buf[b] # Empty /\ (buf[b] = Spent => Op(c).fields = 1)
  /\ got' = [got EXCEPT ![cur[c]] = buf[b]]
  /\ buf' = [buf EXCEPT ![b] = Spent]
  /\ cpc' = [cpc EXCEPT ![c] = "idle"]
  /\ UNCHANGED <<alive, calls, op, cur, polls, command, flag, receiver, req, net, failed>>

CallerStep(c) ==
  \/ Reset(c) \/ SendRequest(c) \/ SendFails(c) \/ PollHit(c) \/ PollMiss(c) \/ Join(c)
  \/ Parse(c) \/ ParseFails(c)
-----------------------------------------------------------------------------
(* receiveresponse_client, started by call n.                               *)

ReceiverStart(n) ==
  /\ alive /\ rpc[n] = "new"
  /\ flag' = FALSE
  /\ rpc' = [rpc EXCEPT ![n] = "bind"]
  /\ UNCHANGED <<alive, caller, command, buf, rbuf, port, req, net>>

\* bind returns -1 when the port is taken, which "> 0" does not notice: the
\* receiver goes on with a socket nothing can be sent to.
Bind(n) ==
  /\ alive /\ rpc[n] = "bind"
  /\ port' = IF port = 0 THEN n ELSE port
  /\ rpc' = [rpc EXCEPT ![n] = "choose"]
  /\ UNCHANGED <<alive, caller, command, flag, buf, rbuf, req, net>>

\* The names COMMAND_NAME is compared with; freed memory may hold anything.
Chosen == {command.name} \cup IF command.freed THEN {NULL} ELSE {}

\* What the receiver does to the buffers before it waits: the overrun of
\* mkdir_buf wipes out the buffers that happen to lie behind it (what else it
\* may hit, Overflow stands for).
Wiped(b) ==
  IF b \in Overrun THEN {S \cup {b} : S \in SUBSET Buffers}
  ELSE IF b \in Cleared THEN {{b}} ELSE {{}}

\* The comparisons with COMMAND_NAME; no match leads straight to the end.
ChooseBuffer(n) ==
  /\ alive /\ rpc[n] = "choose"
  /\ \E b \in Chosen :
       \/ /\ b = NULL
          /\ rpc' = [rpc EXCEPT ![n] = "close"]
          /\ UNCHANGED <<rbuf, buf>>
       \/ /\ b # NULL
          /\ rpc' = [rpc EXCEPT ![n] = "wait"] /\ rbuf' = [rbuf EXCEPT ![n] = b]
          /\ \E S \in Wiped(b) : buf' = [x \in Buffers |-> IF x \in S THEN Empty ELSE buf[x]]
  /\ UNCHANGED <<alive, caller, command, flag, port, req, net>>

\* memset(mkdir_buf, '\0', 10000) reaches a page that is not there.
Overflow(n) ==
  /\ alive /\ rpc[n] = "choose" /\ command.name \in Overrun
  /\ Die

\* What is left of a datagram in the network once it has been taken.
Left(set, r) == IF Duplicates THEN {set, set \ {r}} ELSE {set \ {r}}

\* The flag is raised before the socket is closed.
BugReceive(n, r) ==
  /\ alive /\ rpc[n] = "wait" /\ port = n
  /\ buf' = [buf EXCEPT ![rbuf[n]] = r]
  /\ net' \in Left(net, r)
  /\ rpc' = [rpc EXCEPT ![n] = "close"] /\ flag' = TRUE
  /\ UNCHANGED <<alive, caller, command, rbuf, port, req>>

\* recvfrom on the bound socket; any datagram will do.
Receive(n, r) ==
  /\ alive /\ rpc[n] = "wait" /\ port = n
  /\ buf' = [buf EXCEPT ![rbuf[n]] = r]
  /\ net' \in Left(net, r)
  /\ rpc' = [rpc EXCEPT ![n] = "close"]
  /\ UNCHANGED <<alive, caller, command, flag, rbuf, port, req>>

Close(n) ==
  /\ alive /\ rpc[n] = "close"
  /\ port' = IF port = n THEN 0 ELSE port
  /\ rpc' = [rpc EXCEPT ![n] = "flag"]
  /\ UNCHANGED <<alive, caller, command, flag, buf, rbuf, req, net>>

RaiseFlag(n) ==
  /\ alive /\ rpc[n] = "flag"
  /\ flag' = TRUE
  /\ rpc' = [rpc EXCEPT ![n] = "done"]
  /\ UNCHANGED <<alive, caller, command, buf, rbuf, port, req, net>>

ReceiverStep(n) ==
  \/ ReceiverStart(n) \/ Bind(n) \/ ChooseBuffer(n) \/ Overflow(n) \/ Close(n) \/ RaiseFlag(n)
-----------------------------------------------------------------------------
(* The servers and the network: a request is answered at most once, or      *)
(* lost; a reply is received, late or never.  One that finds no socket at   *)
(* port 8013, or the socket closed before it is read, is lost.              *)

Answer(r) ==
  /\ req' \in Left(req, r) /\ net' = net \cup {r}
  /\ UNCHANGED <<alive, caller, command, flag, buf, receiver>>

LoseRequest(r) ==
  /\ req' = req \ {r}
  /\ UNCHANGED <<alive, caller, command, flag, buf, receiver, net>>

LoseReply(r) ==
  /\ net' = net \ {r}
  /\ UNCHANGED <<alive, caller, command, flag, buf, receiver, req>>

Network ==
  \/ \E r \in req : Answer(r) \/ LoseRequest(r)
  \/ \E r \in net : LoseReply(r)

Next ==
  \/ \E c \in Callers : CallerStep(c) \/ \E o \in Ops : Call(c, o)
  \/ \E n \in Calls : ReceiverStep(n) \/ \E r \in net : Receive(n, r)
  \/ Network

Spec == Init /\ [][Next]_vars
\* Every thread is scheduled; nothing is assumed of the network.
FairSpec ==
  /\ Spec
  /\ \A c \in Callers : WF_vars(CallerStep(c))
  /\ \A n \in Calls : WF_vars(ReceiverStep(n))
-----------------------------------------------------------------------------
(* One caller, no duplicated datagrams, operations other than statfs.       *)

\* Until a call has given up, every call returns its own reply and the client
\* does not crash, however late the threads and the datagrams are.
CleanCalls == failed = {} => alive /\ \A n \in Calls : got[n] \in {Empty, n}

\* Every call that gives up leaves at most one receiver behind, with its
\* socket perhaps, and the others leave none: receivers do not pile up faster
\* than calls fail, even when the receiver of one call serves another.
LeaksBounded ==
  Cardinality({n \in 1..calls : rpc[n] # "done"}) <=
    Cardinality(failed) + Cardinality({c \in Callers : cpc[c] # "idle"})

\* A call comes back, or the client dies, if it does not join its receiver or
\* no call has given up before.
CallsReturn ==
  \A c \in Callers :
    (cpc[c] # "idle" /\ (failed = {} \/ ~Op(c).joins)) ~> (cpc[c] = "idle" \/ ~alive)
-----------------------------------------------------------------------------
(* What comments of the source say.                                         *)

\* client.c:59 "now receive response and do something..": a call returns the
\* reply to its own request.
OwnReply == \A n \in Calls : got[n] \in {Empty, n}

\* client.c:68 "Enough waiting": a caller waits for a bounded time.
EnoughWaiting == \A c \in Callers : cpc[c] # "idle" ~> cpc[c] = "idle" \/ ~alive
=============================================================================
