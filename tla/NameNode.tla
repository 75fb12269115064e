------------------------------ MODULE NameNode ------------------------------
(***************************************************************************)
(* The namenode process: the registry of datanodes and the file table of   *)
(* src/list.c, the command thread of src/socket_command.c                  *)
(* (receivecommand_namenode) that is the only writer of both, the monitor  *)
(* thread of src/namenode.c that walks the registry, and the file          *)
(* "dnconfig" the registry is saved in and reloaded from.                  *)
(*                                                                         *)
(* Both threads walk the registry with ONE global pointer, dlist.  The     *)
(* module therefore takes every loop over the registry one pointer access  *)
(* at a time: a test of the loop and a move of the pointer are different   *)
(* steps, and the other thread may run between them.  A NULL dereference   *)
(* kills the process (pc = "segv").                                        *)
(*                                                                         *)
(* A definition whose name starts with Bug is the definition after it with *)
(* a plausible mistake in it.  No specification uses one: they show that   *)
(* each property can fail.                                                 *)
(***************************************************************************)
EXTENDS Naturals, Sequences

CONSTANTS
  Nodes,       \* host names of the datanodes
  Files,       \* paths the clients use, the root directory among them
  Root,        \* DATANODE_DIR, the path every registration adds a replica to
  NULL,        \* the C null pointer, where a node or a request may be absent
  MaxSlots,    \* replica slots of one file-table entry: 50 in the source
  Cmds,        \* the commands the clients send, out of PathCmds
  MaxQueries,  \* bound: how often the monitor tool asks for the list
  MaxStarts,   \* bound: how often the namenode is started
  MaxCells     \* bound: registrations stop when the registry has as many cells

\* Commands after which the file table gets a replica, and the others.
CreateCmds == {"open", "write", "mkdir", "mknod"}
PathCmds == CreateCmds \cup {"getattr", "access", "readdir", "read", "truncate",
                             "unlink", "rmdir", "chmod", "rename"}

ASSUME NameNodeAssumption ==
  /\ Root \in Files
  /\ NULL \notin Nodes
  /\ MaxSlots \in Nat \ {0}
  /\ Cmds \subseteq PathCmds
  /\ MaxQueries \in Nat /\ MaxStarts \in Nat
  /\ MaxCells \in Nat

\* An entry of the registry.  The saved IP address is left out: every send
\* resolves the host name again.
Cell == [node : Nodes, alive : BOOLEAN]

VARIABLES
  config,   \* the file dnconfig, a line per cell; survives a crash
  chain,    \* the cells reachable from firstdlist, in list order
  dlist,    \* the shared pointer: a position in chain, 0 for NULL
  files,    \* file table: the used replica slots of each path, <<>> = no entry
  pc,       \* where the command thread is
  caller,   \* on whose behalf datanode_search or datanode_filewrite runs
  ins,      \* the cell datanode_insert was called with
  req,      \* the client request being handled
  slot,     \* the index i of getRepfetchnum
  dpath,    \* what getfiledn returned
  wbuf,     \* dn_buf of datanode_filewrite
  rest,     \* lines of dnconfig that readdnconfig has not read yet
  out,      \* the last request dispatched, and to whom (NULL: run locally)
  mpc,      \* where the monitor thread is
  queries,  \* how many lists the monitor tool has asked for
  starts    \* how often the process has been started

registry == <<chain, dlist>>
locals   == <<caller, ins, req, slot, dpath>>
monitor  == <<mpc, queries, starts>>
vars == <<config, chain, dlist, files, pc, caller, ins, req, slot, dpath,
          wbuf, rest, out, mpc, queries, starts>>

Requests == [cmd : Cmds, path : Files]

TypeOK ==
  /\ config \in Seq(Cell)
  /\ chain \in Seq(Cell)
  /\ dlist \in 0..Len(chain)
  /\ files \in [Files -> Seq(Nodes)]
  /\ \A f \in Files : Len(files[f]) <= MaxSlots
  /\ pc \in {"down", "segv", "stopped", "load", "recv", "s_test", "s_adv", "s_ret",
             "t_test", "t_adv", "link", "w_test", "w_adv", "w_flush", "d_test",
             "d_adv", "f_test", "f_ping", "f_adv", "f_ret", "r_slot", "r_ping",
             "send", "local"}
  /\ caller \in {"none", "load", "register", "rep", "fetch_hit", "fetch_end"}
  /\ ins \in Cell \cup {NULL}
  /\ req \in Requests \cup {NULL}
  /\ slot \in 0..(MaxSlots + 1)
  /\ dpath \in Nodes \cup {NULL}
  /\ wbuf \in Seq(Cell)
  /\ rest \in Seq(Cell)
  /\ out \in [path : Files, to : Nodes \cup {NULL}] \cup {NULL}
  /\ mpc \in {"off", "recv", "test", "adv"}
  /\ queries \in 0..MaxQueries
  /\ starts \in 0..MaxStarts

NoFiles == [f \in Files |-> <<>>]

Init ==
  /\ config = <<>> /\ chain = <<>> /\ dlist = 0 /\ files = NoFiles
  /\ pc = "down" /\ caller = "none" /\ ins = NULL /\ req = NULL
  /\ slot = 0 /\ dpath = NULL /\ wbuf = <<>> /\ rest = <<>>
  /\ out = NULL /\ mpc = "off" /\ queries = 0 /\ starts = 0
-----------------------------------------------------------------------------
(* Moving the shared pointer. *)

First == IF chain = <<>> THEN 0 ELSE 1           \* dlist = firstdlist
After == IF dlist = Len(chain) THEN 0 ELSE dlist + 1  \* dlist->next

\* A dereference of NULL: the whole process dies, both threads with it.
Segv ==
  /\ pc' = "segv" /\ mpc' = "off"
  /\ UNCHANGED <<config, registry, files, locals, wbuf, rest, out, queries, starts>>

\* dlist = dlist->next at the end of a loop body, then back to the test.
Advance(body, test) ==
  /\ pc = body
  /\ \/ dlist = 0 /\ Segv
     \/ /\ dlist # 0
        /\ dlist' = After /\ pc' = test
        /\ UNCHANGED <<config, chain, files, locals, wbuf, rest, out, monitor>>

\* A test of a loop over dlist that changes nothing but the thread's place.
Goto(l) ==
  /\ pc' = l
  /\ UNCHANGED <<config, registry, files, locals, wbuf, rest, out, monitor>>

\* The thread waits in recvfrom again; its local variables are dead.
Idle ==
  /\ pc' = "recv" /\ caller' = "none" /\ ins' = NULL /\ req' = NULL
  /\ slot' = 0 /\ dpath' = NULL
-----------------------------------------------------------------------------
(* filenode_insert: a slot is added without looking for an equal one; when *)
(* all are used getRepcreatenum answers -1, the name lands in front of the *)
(* array and the table does not change.                                    *)

\* The search for a free slot runs past the last one.
BugWithReplica(f, n) == [files EXCEPT ![f] = Append(@, n)]

WithReplica(f, n) ==
  IF Len(files[f]) < MaxSlots THEN [files EXCEPT ![f] = Append(@, n)] ELSE files
-----------------------------------------------------------------------------
(* Start, crash, recovery. *)

\* main, init and initdatanodelist: nothing but dnconfig survives.
Start ==
  /\ pc \in {"down", "segv"} /\ starts < MaxStarts
  /\ pc' = "load" /\ rest' = config /\ starts' = starts + 1
  /\ chain' = <<>> /\ dlist' = 0 /\ files' = NoFiles
  /\ caller' = "none" /\ ins' = NULL /\ req' = NULL /\ slot' = 0 /\ dpath' = NULL
  /\ wbuf' = <<>> /\ out' = NULL
  /\ UNCHANGED <<config, mpc, queries>>

\* A kill at any point; dnconfig keeps what was in it at that moment.  Stands
\* also for the wild next pointer filenode_insert leaves in a new entry.
Crash ==
  /\ pc \notin {"down", "segv"}
  /\ pc' = "down" /\ mpc' = "off" /\ out' = NULL
  /\ chain' = <<>> /\ dlist' = 0 /\ files' = NoFiles
  /\ caller' = "none" /\ ins' = NULL /\ req' = NULL /\ slot' = 0 /\ dpath' = NULL
  /\ wbuf' = <<>> /\ rest' = <<>>
  /\ UNCHANGED <<config, queries, starts>>

\* readdnconfig: one line through datanode_insert, which rewrites dnconfig
\* from what has been reloaded so far.
LoadLine ==
  /\ pc = "load" /\ rest # <<>>
  /\ ins' = Head(rest) /\ rest' = Tail(rest)
  /\ caller' = "load" /\ dlist' = First /\ pc' = "s_test"
  /\ UNCHANGED <<config, chain, files, req, slot, dpath, wbuf, out, monitor>>

\* Only now are the command and the monitor thread created.
LoadDone ==
  /\ pc = "load" /\ rest = <<>>
  /\ Idle /\ mpc' = "recv"
  /\ UNCHANGED <<config, registry, files, wbuf, rest, out, queries, starts>>
-----------------------------------------------------------------------------
(* The requests the command thread takes from its socket. *)

\* DATANODE: hostname_to_ip of the sender, then datanode_insert.
RecvRegister(n) ==
  /\ pc = "recv" /\ Len(chain) < MaxCells
  /\ ins' = [node |-> n, alive |-> TRUE]
  /\ caller' = "register" /\ dlist' = First /\ pc' = "s_test"
  /\ UNCHANGED <<config, chain, files, req, slot, dpath, wbuf, rest, out, monitor>>

\* DATANODE from a host that cannot be resolved: "return -1" ends the thread.
RecvUnresolved ==
  /\ pc = "recv"
  /\ Goto("stopped")

\* A command about a path: getfiledn looks the path up in the file table.
Recv(c, f) ==
  /\ pc = "recv"
  /\ req' = [cmd |-> c, path |-> f]
  /\ \/ /\ files[f] # <<>>
        /\ slot' = 1 /\ pc' = "r_slot"
        /\ UNCHANGED dlist
     \/ /\ files[f] = <<>>
        /\ dlist' = First
        /\ pc' = IF chain = <<>> THEN "local" ELSE "f_test"
        /\ UNCHANGED slot
  /\ UNCHANGED <<config, chain, files, caller, ins, dpath, wbuf, rest, out, monitor>>

\* STATFS never leaves the namenode.
RecvStatfs(f) ==
  /\ pc = "recv"
  /\ out' = [path |-> f, to |-> NULL]
  /\ UNCHANGED <<config, registry, files, pc, locals, wbuf, rest, monitor>>
-----------------------------------------------------------------------------
(* datanode_search and datanode_insert. *)

\* The name searched for: a recorded replica, or the node to insert.
Target == IF caller = "rep" THEN files[req.path][slot] ELSE ins.node

\* Only live nodes are found, so a dead one is inserted a second time.
BugSearchTest ==
  /\ pc = "s_test" /\ dlist # 0
  /\ Goto(IF chain[dlist].alive /\ chain[dlist].node = Target THEN "s_ret" ELSE "s_adv")

\* strcmp(dlist->node, name): found, or on to the next cell.
SearchTest ==
  /\ pc = "s_test" /\ dlist # 0
  /\ Goto(IF chain[dlist].node = Target THEN "s_ret" ELSE "s_adv")

SearchAdvance == Advance("s_adv", "s_test")

\* datanode_filewrite starts: dlist = firstdlist with an empty buffer.
BeginWrite(who) ==
  /\ pc' = "w_test" /\ caller' = who /\ wbuf' = <<>>

\* The replica of the root is forgotten.
BugInsertDone(newChain) ==
  /\ chain' = newChain /\ dlist' = 1
  /\ BeginWrite(caller)
  /\ UNCHANGED <<config, files, ins, req, slot, dpath, rest, out, monitor>>

\* The end of datanode_insert: a replica of the root, then the save.
InsertDone(newChain) ==
  /\ chain' = newChain /\ dlist' = 1
  /\ files' = WithReplica(Root, ins.node)
  /\ BeginWrite(caller)
  /\ UNCHANGED <<config, ins, req, slot, dpath, rest, out, monitor>>

\* datanode_search returned NULL: the new cell becomes the head of an empty
\* list, or the walk to the tail of the list starts.
InsertNew ==
  \/ chain = <<>> /\ InsertDone(<<ins>>)
  \/ /\ chain # <<>>
     /\ dlist' = 1 /\ pc' = "t_test"
     /\ UNCHANGED <<config, chain, files, locals, wbuf, rest, out, monitor>>

\* getRepfetchnum dereferences the result of the search unchecked.
SearchMiss ==
  /\ pc = "s_test" /\ dlist = 0
  /\ IF caller = "rep" THEN Segv ELSE InsertNew

\* "return dlist" reads the shared pointer once more.
SearchReturn ==
  /\ pc = "s_ret"
  /\ \/ /\ dlist = 0
        /\ IF caller = "rep" THEN Segv ELSE InsertNew
     \/ /\ dlist # 0 /\ caller = "rep"
        /\ Goto("r_ping")
     \/ /\ dlist # 0 /\ caller # "rep"
        /\ InsertDone([chain EXCEPT ![dlist].alive = TRUE])

\* while (dlist != NULL)
BugTailTest ==
  /\ pc = "t_test"
  /\ Goto(IF dlist = 0 THEN "link" ELSE "t_adv")

\* while (dlist->next != NULL)
TailTest ==
  /\ pc = "t_test"
  /\ IF dlist = 0 THEN Segv
     ELSE Goto(IF dlist = Len(chain) THEN "link" ELSE "t_adv")

TailAdvance == Advance("t_adv", "t_test")

\* The new cell is linked in place of the last one ...
BugLink ==
  /\ pc = "link"
  /\ \/ dlist = 0 /\ Segv
     \/ dlist # 0 /\ InsertDone(Append(SubSeq(chain, 1, dlist - 1), ins))

\* ... or not linked at all.
BugLinkLost ==
  /\ pc = "link"
  /\ \/ dlist = 0 /\ Segv
     \/ dlist # 0 /\ InsertDone(chain)

\* dlist->next = p: whatever followed the pointer is cut off.
Link ==
  /\ pc = "link"
  /\ \/ dlist = 0 /\ Segv
     \/ dlist # 0 /\ InsertDone(Append(SubSeq(chain, 1, dlist), ins))
-----------------------------------------------------------------------------
(* datanode_filewrite and writednconfig. *)

WriteCell ==
  /\ pc = "w_test" /\ dlist # 0
  /\ wbuf' = Append(wbuf, chain[dlist]) /\ pc' = "w_adv"
  /\ UNCHANGED <<config, registry, files, locals, rest, out, monitor>>

WriteAdvance == Advance("w_adv", "w_test")

\* fopen(namenode_configfile, "w") truncates the file ...
WriteOpen ==
  /\ pc = "w_test" /\ dlist = 0
  /\ config' = <<>> /\ pc' = "w_flush"
  /\ UNCHANGED <<registry, files, locals, wbuf, rest, out, monitor>>

\* The pointer is put back after the save, so that a datanode is returned.
BugWriteFlush ==
  /\ pc = "w_flush"
  /\ config' = wbuf /\ wbuf' = <<>>
  /\ pc' = CASE caller = "load" -> "load" [] caller = "register" -> "d_test"
            [] caller = "fetch_hit" -> "f_ret" [] caller = "fetch_end" -> "local"
  /\ dlist' = First /\ ins' = NULL
  /\ UNCHANGED <<chain, files, caller, req, slot, dpath, rest, out, monitor>>

\* ... and fclose writes the buffer.  A registration then goes through
\* datanode_display, a fetch back to fetch_datanode.
WriteFlush ==
  /\ pc = "w_flush"
  /\ config' = wbuf /\ wbuf' = <<>>
  /\ \/ /\ caller = "load"
        /\ pc' = "load" /\ ins' = NULL /\ UNCHANGED dlist
     \/ /\ caller = "register"
        /\ pc' = "d_test" /\ ins' = NULL /\ dlist' = First
     \/ /\ caller = "fetch_hit"
        /\ pc' = "f_ret" /\ UNCHANGED <<dlist, ins>>
     \/ /\ caller = "fetch_end"
        /\ pc' = "local" /\ UNCHANGED <<dlist, ins>>
  /\ UNCHANGED <<chain, files, caller, req, slot, dpath, rest, out, monitor>>

DisplayTest ==
  /\ pc = "d_test"
  /\ \/ dlist # 0 /\ Goto("d_adv")
     \/ /\ dlist = 0 /\ Idle
        /\ UNCHANGED <<config, registry, files, wbuf, rest, out, monitor>>

DisplayAdvance == Advance("d_adv", "d_test")
-----------------------------------------------------------------------------
(* fetch_datanode: the first cell marked alive that answers a ping.  What   *)
(* check_nodealive answers is left open; PingProbe says why.                *)

FetchTest ==
  /\ pc = "f_test" /\ dlist # 0
  /\ Goto(IF chain[dlist].alive THEN "f_ping" ELSE "f_adv")

FetchSave(who) ==
  /\ dlist' = First /\ BeginWrite(who)
  /\ UNCHANGED <<config, chain, files, ins, req, slot, dpath, rest, out, monitor>>

FetchEnd == pc = "f_test" /\ dlist = 0 /\ FetchSave("fetch_end")

\* The registry is not saved when a node is found.
BugFetchPingOk ==
  /\ pc = "f_ping"
  /\ Goto("f_ret")

FetchPingOk == pc = "f_ping" /\ FetchSave("fetch_hit")

\* No answer within 100 polls: dlist->alive = 0.
FetchPingFail ==
  /\ pc = "f_ping"
  /\ \/ dlist = 0 /\ Segv
     \/ /\ dlist # 0
        /\ chain' = [chain EXCEPT ![dlist].alive = FALSE] /\ pc' = "f_adv"
        /\ UNCHANGED <<config, dlist, files, locals, wbuf, rest, out, monitor>>

FetchAdvance == Advance("f_adv", "f_test")

\* "return dlist" after datanode_filewrite has walked dlist to the end.
FetchReturn ==
  /\ pc = "f_ret"
  /\ \/ dlist = 0 /\ Goto("local")
     \/ /\ dlist # 0
        /\ dpath' = chain[dlist].node /\ pc' = "send"
        /\ UNCHANGED <<config, registry, files, caller, ins, req, slot, wbuf, rest,
                       out, monitor>>
-----------------------------------------------------------------------------
(* getRepfetchnum: the first recorded replica whose node answers a ping.    *)
(* The second pass, getRepfetchnum1, looks for rep > 1, which nothing sets. *)

RepSlot ==
  /\ pc = "r_slot"
  /\ \/ slot > Len(files[req.path]) /\ Goto("local")
     \/ /\ slot <= Len(files[req.path])
        /\ caller' = "rep" /\ dlist' = First /\ pc' = "s_test"
        /\ UNCHANGED <<config, chain, files, ins, req, slot, dpath, wbuf, rest, out,
                       monitor>>

\* The answer is read through the shared pointer instead of the slot.
BugRepPingOk ==
  /\ pc = "r_ping" /\ dlist # 0
  /\ dpath' = chain[dlist].node /\ pc' = "send"
  /\ UNCHANGED <<config, registry, files, caller, ins, req, slot, wbuf, rest, out,
                 monitor>>

RepPingOk ==
  /\ pc = "r_ping"
  /\ dpath' = files[req.path][slot] /\ pc' = "send"
  /\ UNCHANGED <<config, registry, files, caller, ins, req, slot, wbuf, rest, out,
                 monitor>>

\* The next slot is never reached.
BugRepPingFail == pc = "r_ping" /\ Goto("r_slot")

RepPingFail ==
  /\ pc = "r_ping"
  /\ slot' = slot + 1 /\ pc' = "r_slot"
  /\ UNCHANGED <<config, registry, files, caller, ins, req, dpath, wbuf, rest, out,
                 monitor>>
-----------------------------------------------------------------------------
(* The end of a request. *)

\* sendcommand to the datanode; the commands that may create the file record
\* the node as a replica, before anybody knows what the node did.
SendOk ==
  /\ pc = "send"
  /\ out' = [path |-> req.path, to |-> dpath]
  /\ files' = IF req.cmd \in CreateCmds THEN WithReplica(req.path, dpath) ELSE files
  /\ Idle
  /\ UNCHANGED <<config, registry, wbuf, rest, monitor>>

\* sendcommand cannot resolve the node any more: GETATTR returns from the
\* thread's function, every other command goes on with the next request.
SendFails ==
  /\ pc = "send"
  /\ \/ req.cmd = "getattr" /\ Goto("stopped")
     \/ /\ req.cmd # "getattr" /\ Idle
        /\ UNCHANGED <<config, registry, files, wbuf, rest, out, monitor>>

\* getfiledn returned NULL: sendresponse_... runs here, on the path JUNK.
Local ==
  /\ pc = "local"
  /\ out' = [path |-> req.path, to |-> NULL]
  /\ Idle
  /\ UNCHANGED <<config, registry, files, wbuf, rest, monitor>>
-----------------------------------------------------------------------------
(* monitorcommand_namenode: DNLIST walks the registry in datanode_sendlist. *)

MonRecv ==
  /\ mpc = "recv" /\ queries < MaxQueries
  /\ queries' = queries + 1 /\ dlist' = First /\ mpc' = "test"
  /\ UNCHANGED <<config, chain, files, pc, locals, wbuf, rest, out, starts>>

MonTest ==
  /\ mpc = "test"
  /\ mpc' = IF dlist = 0 THEN "recv" ELSE "adv"
  /\ UNCHANGED <<config, registry, files, pc, locals, wbuf, rest, out, queries, starts>>

MonAdvance ==
  /\ mpc = "adv"
  /\ \/ dlist = 0 /\ Segv
     \/ /\ dlist # 0
        /\ dlist' = After /\ mpc' = "test"
        /\ UNCHANGED <<config, chain, files, pc, locals, wbuf, rest, out, queries, starts>>

MonitorNext == MonRecv \/ MonTest \/ MonAdvance
-----------------------------------------------------------------------------
\* The steps the command thread takes by itself once it has a request.
CommandStep ==
  \/ LoadLine \/ LoadDone
  \/ SearchTest \/ SearchAdvance \/ SearchMiss \/ SearchReturn
  \/ TailTest \/ TailAdvance \/ Link
  \/ WriteCell \/ WriteAdvance \/ WriteOpen \/ WriteFlush
  \/ DisplayTest \/ DisplayAdvance
  \/ FetchTest \/ FetchEnd \/ FetchPingOk \/ FetchPingFail \/ FetchAdvance \/ FetchReturn
  \/ RepSlot \/ RepPingOk \/ RepPingFail
  \/ SendOk \/ SendFails \/ Local

\* What the outside world does to the process.
Environment ==
  \/ Start \/ Crash \/ RecvUnresolved
  \/ \E n \in Nodes : RecvRegister(n)
  \/ \E c \in Cmds, f \in Files : Recv(c, f)
  \/ \E f \in Files : RecvStatfs(f)

CommandNext == CommandStep \/ Environment
Next == CommandNext \/ MonitorNext

\* The monitor tool is never started: the command thread has dlist to itself.
CommandSpec == Init /\ [][CommandNext]_vars
\* Both threads run.
Spec == Init /\ [][Next]_vars
\* The threads are scheduled: a runnable loop keeps running.
FairSpec == Spec /\ WF_vars(CommandStep) /\ WF_vars(MonTest \/ MonAdvance)
-----------------------------------------------------------------------------
(* Properties of the command thread alone (CommandSpec).                    *)

Up == pc \notin {"down", "segv"}
Names(cells) == {cells[i].node : i \in DOMAIN cells}

\* No loop over the registry and no unchecked result of datanode_search is
\* ever dereferenced as NULL (list.c:153-154 has no test): the process does
\* not die by itself as long as one thread owns dlist.
NoNullDereference == pc # "segv"

\* Every replica recorded in the file table is the name of a cell of the
\* registry, what getRepfetchnum relies on.
ReplicasRegistered ==
  \A f \in Files : \A i \in DOMAIN files[f] : files[f][i] \in Names(chain)

\* Whenever the thread waits for a request dnconfig holds the registry, cell
\* for cell, the marks of dead nodes included; and while it reloads,
\* dnconfig holds the part reloaded, or still all of it before the first line.
ConfigAgrees ==
  /\ pc = "recv" => config = chain
  /\ pc = "load" => config = chain \/ (chain = <<>> /\ rest = config)

\* A node is listed once.  A second line in dnconfig would mark a dead node
\* alive at the next start, because datanode_insert does so for known names.
ListedOnce ==
  /\ \A i, j \in DOMAIN chain : chain[i].node = chain[j].node => i = j
  /\ \A i, j \in DOMAIN config : config[i].node = config[j].node => i = j

\* A registered node is a replica of the root directory, unless the slots of
\* the root have been used up by earlier registrations of the same nodes.
RootCoversRegistry ==
  pc = "recv" /\ Len(files[Root]) < MaxSlots =>
    \A i \in DOMAIN chain : \E j \in DOMAIN files[Root] : files[Root][j] = chain[i].node

\* No path but the root ever gets into the file table: getfiledn finds no
\* datanode for a path it does not know.
NothingPlaced == \A f \in Files \ {Root} : files[f] = <<>>

\* While the process runs cells stay where they are, and a node marked dead
\* is marked alive again only by a registration of that node.
RegistryStable ==
  [][Up /\ Up' =>
       /\ Len(chain) <= Len(chain')
       /\ \A i \in DOMAIN chain :
            /\ chain'[i].node = chain[i].node
            /\ chain'[i].alive /\ ~chain[i].alive =>
                 pc = "s_ret" /\ ins.node = chain[i].node]_vars

\* Every request is answered and every reload ends, unless the thread or the
\* process ends: the walks over the registry terminate.
RequestsEnd == Up ~> pc \in {"recv", "stopped", "down", "segv"}
-----------------------------------------------------------------------------
(* Properties of the two threads together (Spec).                           *)

\* All slots of a path but the root name one node: a file never gets a second
\* replica and never moves, whatever the pings answer and whichever thread
\* moved dlist.
SingleHome ==
  \A f \in Files \ {Root} : \A i, j \in DOMAIN files[f] : files[f][i] = files[f][j]

\* The namenode implements the directory.
Home == [f \in Files \ {Root} |-> IF files[f] = <<>> THEN NULL ELSE files[f][1]]
Dir == INSTANCE Directory WITH members <- Names(chain), home <- Home, routed <- out
ImplementsDirectory == Dir!DirSpec
-----------------------------------------------------------------------------
(* What comments of the source say.                                         *)

\* socket_command.c:379 "Return a datanode, where file can be created": after
\* a datanode answered its ping, fetch_datanode returns a datanode.
FetchReturnsDatanode == pc = "f_ret" => dlist # 0
=============================================================================
