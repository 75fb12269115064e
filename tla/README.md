# Verification of dsproj

dsproj is a small distributed file system in C: FUSE clients send file
operations over UDP to a *namenode*, which keeps a registry of *datanodes* and a
table saying which datanode has which path, and forwards each operation to a
datanode, which executes it and answers the client directly. This directory
holds TLA+ models of it, TLC configurations that check them on small instances,
and theorems about them checked by TLAPS.

    tlc -config MCNameNode_command.cfg MCNameNode      # a run
    tlapm NameNodeProofs.tla                           # the proofs of a module

`PROJECT.json` lists the runs, the source lines every definition models, the
hazards of the code and the properties about them.

## 1. Inventory

### Parts of the system

| part | source | state it keeps | operations |
|---|---|---|---|
| namenode registry and file table | `list.c`, `namenode.c`, `receivecommand_namenode` in `socket_command.c` | list of datanodes `firstdlist` with an alive mark, the walking pointer `dlist` (global, shared by two threads), file table with 50 replica slots per path, the file `dnconfig` | start and reload, register, look up a path, record a replica, save, list for the monitor |
| liveness probe | `ping.c`, `network_common.c` | the flag `pingsuccess` | ping, pong, `check_nodealive` |
| client calls | `client.c`, `receiveresponse_client` in `socket_command.c` | `COMMAND_NAME`, one reply buffer per operation, the flag `clientreceive_success`, UDP port 8013, one receiver thread per call | fourteen FUSE operations |
| datanode | `datanode.c`, `receivecommand_datanode` and `sendresponse_*` in `socket_command.c` | the local files, the command and replica threads | start, registration, execution of each operation, shutdown |
| monitor tool | `monitor.c`, `monitor_sockets.c` | none; the replication count is the namenode's | ask for the datanodes, set the replication count |
| programs on their hosts | the `main` functions, `global.h` | which process of a host has which UDP port | start, ping check, binding of each thread's port, end |
| replication | `replica.c`, `replica_sockets.c` | buffers and flag of a replica request | copy a file to another node (never called) |
| directory tree | `dd.c` | a first-child, next-sibling tree and its stored form | search, add, remove, store, recover |
| corefs | `corefs-1.5/` | the server's list of client contexts, the connections, the client's attribute cache (switched off) | request and reply over TCP |

### How they interact

- Client to namenode, namenode to datanode, datanode to client: UDP datagrams on
  ports of their own. Nothing is acknowledged or retried. A sender gives up
  after a bounded number of polls of a global flag.
- Inside the namenode the command thread, the monitor thread and the ping
  receiver share globals without a lock: `dlist`, `pingsuccess`.
- Inside the client each FUSE operation and the receiver thread it starts share
  globals, and receivers of earlier calls may still be there.
- Registry and `dnconfig`: the registry is saved after every registration and
  every fetch, and the reload at the start goes through the same insertion,
  which rewrites the file that is being read.

### Behaviours that are hard, and what makes each part correct

| part | hard because | correct when |
|---|---|---|
| namenode | one pointer walked by two threads; a file truncated before it is rewritten; a crash at any step; a search result that is used without a test | no walk dereferences NULL while the command thread is alone, every recorded replica is registered, file and registry agree when idle, no node is listed twice, a placed path never moves, every request ends |
| probe | pongs that are late, lost, duplicated, or of another probe | no old flag is believed, no pong of the probe is missed by a poll, a probe ends |
| client | receivers outlive the call that gave up; flag, buffer and port are shared | a call returns its own reply, receivers do not pile up, a call ends |
| datanode | registers before its threads listen; executes what the namenode forwards while the namenode has already recorded success; executes calls whose caller gave up | an operation reported done was done on the right path, at the path's home, and a file stands only there |
| programs | ports shared by the processes of a host, an error of bind that nobody notices, answers that look like requests | a program that has got past its check has its ports; no answer goes round |
| directory tree, corefs list | pointer surgery at the head, the tail and the bound | the structure stays a tree, a list; what was added and not removed is found |
| corefs | two packets per write with an early error answer; one thread for all clients; clients that end in the middle | a reply belongs to the call that takes it; one client cannot stop the others |

## 2. Plan

Done, in this order: `Directory` and `NameNode`; `PingProbe`, what the answer of
`check_nodealive`, left open in `NameNode`, means; `ClientCalls`, what a FUSE
operation may return; `DataNode` and `DataPath`, the way of an operation from
the client to a datanode and back, over the abstract `Directory`; `DirTree`;
`CorefsList` and `CorefsServer`; `Programs`.

How they compose: `NameNode` implements `Directory`, `DataPath` uses it; the
answer of a ping is free in `NameNode` and explained by `PingProbe`; a call is
one step of `DataPath` and explained by `ClientCalls`; whether the processes
have their ports is free in all of them and the subject of `Programs`.
`CorefsServer` extends `CorefsList`, its server keeps one.

All that TLC checks of the safety of these modules, invariants, action
properties and the refinement, is also proved for every value of the constants.
Liveness is left to TLC (see the end of the proofs).

Every module meant for proofs declares no RECURSIVE operator, names its
assumptions and has one action per operation.

## 3. Modules

A definition whose name starts with `Bug` is the definition that follows it with
a plausible mistake in it. No specification uses one; put in the place of the
original it violates a property, which shows that the property can fail.

### `NameNode` (and `Directory`, `MCNameNode`, `NameNodeProofs`)

| in the model | in the code |
|---|---|
| `chain`, `dlist` | the cells reachable from `firstdlist`; the global pointer as a position, 0 for NULL |
| `config`, `rest`, `wbuf` | `dnconfig`, its unread lines during the reload, `dn_buf` of `datanode_filewrite` |
| `files` | the used replica slots of each path |
| `pc`, `caller`, `ins`, `req`, `slot`, `dpath` | the command thread: where it is, in which call, its local variables |
| `mpc` | the monitor thread in `datanode_sendlist` |
| `Start`, `LoadLine`, `LoadDone`, `Crash` | `main`, `initdatanodelist`, `readdnconfig`, the end of the process |
| `Recv*` | one branch (or group of equal branches) of `receivecommand_namenode` |
| `Search*`, `InsertNew`, `Tail*`, `Link`, `InsertDone` | `datanode_search`, `datanode_insert` |
| `BeginWrite`, `Write*` | `datanode_filewrite`, `writednconfig` |
| `Fetch*`, `Rep*` | `fetch_datanode`, `getRepfetchnum` |
| `SendOk`, `SendFails`, `Local` | the end of a branch: forwarded, not resolvable, executed by the namenode |
| `Mon*` | `monitorcommand_namenode`, DNLIST |

Each loop over the registry is taken one access to `dlist` at a time, because the
monitor thread may move the pointer between any two. What is merged: the test of
a loop and the dereference in the same expression; `dlist = p` and
`firstdlist = dlist` of one insertion. `Cell` leaves out the IP address (each
send resolves the name again). A slot written at index -1 when all 50 are used
leaves the table as it is. `SENDREP` sets a replication count that nothing reads
and so is no action. A path with a trailing slash is the same path. `dnconfig`
is read in one buffer of 4096 bytes and host names have fewer than 20
characters. `filenode_insert` never sets `next` of a fresh entry; what a walk
through that wild pointer may do besides finding NULL there is among the crashes
`Crash` allows at any moment, and so are errors of `recvfrom` and requests with
missing fields. `global.h:76` lacks a semicolon in this commit; the models take
the declaration as it is meant.

`Directory` is the abstract promise: members, a home per path, and where the last
request went. A path is placed at most once, on a member, and a placed path is
routed to its home or answered by the namenode. `NameNode` implements it with
`members <- Names(chain)`, `home <- Home` (the first replica slot of a path) and
`routed <- out`. That this holds with the monitor thread moving `dlist` is not
obvious: the pointer race can lose members and crash the process, and the
refinement says that it cannot move a file.

### `PingProbe` (and `MCPingProbe`, `PingProbeProofs`)

`check_nodealive` as called by the command thread (`pc`, `counter`, `target`),
`receiveping` at both ends, the flag `pingsuccess`, and UDP with loss,
duplication, delay and reordering. `sendping` resets the flag before it sends,
`receiveping` raises it for any pong. A message carries the number of its
probe as history only.

### `ClientCalls` (and `MCClientCalls`, `ClientCallsProofs`)

The fourteen operations share one body; `Operation` says in which points an
operation differs (the buffer it names and the one it parses, whether it resets
the flag, joins the receiver, frees the name), and each `my_getattr`, `xmp_*` is
such a record. The receiver `receiveresponse_client` starts, tries to bind,
chooses a buffer by `COMMAND_NAME`, waits, closes, raises the flag. A second
bind fails unnoticed (`> 0`), `pthread_kill(thread, 0)` ends nothing, so the
receiver of a call that gave up stays. A reply is known by the number of its
call, which no code reads.

Merged: `malloc`, `strcpy` and `pthread_create`; the parse of a reply. A freed
`COMMAND_NAME` compares equal to its name or to none. Clearing 10000 bytes of
the 10-byte `mkdir_buf` clears any set of buffers, or kills the process. A
double free is noticed or not. Tails of longer replies in buffers that are not
cleared, and the path buffers of 100 bytes, are not modelled.

### `DataNode`, `DataPath` (and `MCDataPath`, `DataPathProofs`, `StoreProofs`)

`DataNode` has one operator per `sendresponse_*`: what the client is told and the
files that are left, with the checks of the system call it makes. `DataPath`
composes it with a client and with the abstract `Directory` in the place of the
namenode.

| in the model | in the code |
|---|---|
| `members`, `home`, `routed` | the directory, see `NameNode` |
| `up`, `disk` | the datanodes that run and `DATANODE_DIR` of each; `disk[NN]` is the working directory of the namenode, where `JUNK` stands |
| `requests`, `forwards`, `replies` | datagrams to ports 8012 of the namenode, 8012 of a datanode, 8013 of the client |
| `pending`, `Call`, `Return`, `GiveUp` | the client in one operation, its reply, "Enough waiting" |
| `Forward`, `Local` | a branch of `receivecommand_namenode`: forwarded to a datanode with `filenode_insert` in those commands that call it, or executed on `JUNK` |
| `StartNode`, `MakeDirs`, `HandleJoin`, `Serve`, `Shutdown` | `main` of a datanode, its registration, its command thread |
| `Restart` | the namenode ends and starts: the file table is in memory only |
| `Sent` | `truncate` appends the size to the path without a comma |

`believed` is a history variable: what the answers so far say stands at each
path. `loose` and `doubtful` are the paths about which nothing is said: renamed
ones, those the namenode forgot at a restart, those of calls that gave up, the
path a `truncate` really names. The exemptions are the hazards of the code, each
as narrow as it was found to hold. A reply of the namenode itself (executed on
`JUNK`) says nothing about a path.

### `DirTree` (and `MCDirTree`, `DirTreeProofs`)

The tree of `dd.c` as cells with `next`, `prev` and `fold`, the file `data.txt`
as its lines. `search`, `searchlast`, `addnode`, `removefile`, `removefold`,
`storelist` with `recursestore`, and `recoverlist` with its first line and each
next one. Following NULL ends the process (`Crash`). A path is a sequence of
names. Adding to the path of a file is left out: it links a node below a file,
which no other function looks at. Adding and reading need a free cell, `Cells`
being the bound of the heap. The walks over siblings and along a path are
functions of the number of steps made, and `recursestore` is a function on the
nodes of the tree (`InTree`), so that they are defined for any tree.

### `CorefsList`, `CorefsServer` (and `MCCorefsServer`, `CorefsServerProofs`)

`CorefsList` is `list.c` of corefs cell by cell, with its error at the limit:
the last cell is reused for the new first entry and the list becomes a cycle.
`Follow` is a walk along `next`, by the number of steps made. `alength` is
unsigned: removals from a list that has been beyond its limit may wrap it below
zero (`More`, `Less`, `UINT_MAX`). `LinksInUse` is what is left of a list there:
links lead to nodes in use or, by `prev` and `tail` only, to the head.
`CorefsServer` is the loop of the server over all its clients, which finds the
context of a descriptor in that list, with one handler per request, and the
client's operations. A data packet that arrives when the server waits for a
request is answered with an error, and from then on every reply is late by one.
A client that is accepted when the list is at its limit and the head its tail
ends the server (`AcceptCrashes`): its key is copied to the head, which has
memory for none.

### `Programs` (and `MCPrograms`, `ProgramsProofs`)

The processes of the system on their hosts: `main` of each, `socket` (for each
port of a process: no thread, not yet bound, bound, or deaf when another process
has the port), the ping at the start, and the commands of the monitor tool. A
datagram stays on its way until it is received, so it may be lost or late; two
equal ones are one.

Pings of a namenode's own probes are in `PingProbe`. What `Programs` adds to it:
any program of a host answers pings, so a client keeps a datanode of its host
alive that has ended, and a datanode or a tool may pass "Ping namenode and check
if it is valid" because some client runs on the namenode's host.

## 4. Runs

| run | expected | what it shows |
|---|---|---|
| `command` | pass | The command thread alone, crash at any step and three starts: `TypeOK`; `NoNullDereference`; `ReplicasRegistered`; `ConfigAgrees` (dnconfig holds the registry whenever the thread is idle); `ListedOnce`; `RootCoversRegistry`; `NothingPlaced`; `RegistryStable`. |
| `monitor` | pass | Both threads: `SingleHome`, the refinement `ImplementsDirectory`, and `RequestsEnd`: every request and reload ends, or the process dies. |
| `fetch` | violation | `fetch_datanode` returns the pointer that the save has just walked to NULL. |
| `probe` | pass | `TypeOK`, `AliveHasPong`, `PongNotMissed`, `AliveMeansAnswered`, `ProbeEnds`. |
| `calls` | pass | `CleanCalls`: until a call gives up every call returns its own reply and the client lives; `LeaksBounded`: receivers left behind never outnumber failed calls. |
| `callsmkdir` | pass | `TypeOK`, `LeaksBounded` and `CallsReturn` with the operation that overruns its buffer and duplicated datagrams. |
| `late` | violation | The receiver of a call that gave up hands a late reply to the next call. |
| `hang` | violation | After a timeout `getattr` joins a receiver that waits on an unbound socket. |
| `store` | pass | `PlacedWhereStored`: a file stands only at the home of its path; `StoreAgrees`: what answers of datanodes say is what stands there; `AnswersAgree`: reads and listings return what was written and made, but for a directory the namenode has lost track of at a restart, which may be on two datanodes and is then listed from one. |
| `dirtree` | pass | `LinksAgree`: the links form a tree; `NeverWalks`; `FoundWhereAdded` and `AddLosesNothing`: nodes are misplaced and lost in one situation only, when the last node of a folder is a folder; `RecoverRestores`: what was stored once comes back; what was stored twice, or a path that is back at the head, may end the reader. |
| `corefs` | pass | `ContextsKept` up to the limit of the list; `ServerStays`: what gets the server lost or ended (within the limit only SIGPIPE behind data taken for a command); `TypeOK`, beyond the limit too, with `LinksInUse`; `LagIsExtra`: a connection is behind by the number of data packets taken for commands; `AnswersOwn` when there were none; `WaitsForSender`: the packet the server waits for is there, about to be sent, or its client has ended. |
| `programs` | pass | `PortsOwned`: of the datanodes and tools of a host at most one gets past its check, and has its ports; `NoEcho`: the namenode answers no answer of its own, unless a tool passed its check on the namenode's host before the namenode had the ping port. |

The violated properties quote a comment of the source; `PROJECT.json` "findings"
gives the lines.

`NothingPlaced` deserves a word. It holds for the command thread alone because of
the finding of `fetch`: no path but the root ever gets a datanode, so the
namenode executes every operation on such a path itself, with the name JUNK. Only the race with the
monitor thread lets `fetch_datanode` return a node; `monitor` therefore is the
run in which files are placed, and `SingleHome` is not vacuous there (its mutant
puts a file on two nodes). `store` stands on the abstract directory, in which
files may be placed at any time: what it shows holds with that race and would
hold with `fetch_datanode` mended.

### Bounds

- `Nodes` of `NameNode`: two. The list operations treat head, middle and tail
  differently; with `MaxCells = 3` (`command`) a registration comes when the list has
  both its cells. `monitor` has `MaxCells = 2`: with a third cell its liveness
  property does not finish in reasonable time.
- `Files`: the root and one file; paths do not interact in the table except
  through the root, to which every registration adds.
- `MaxSlots`: 2 or 3 instead of 50, so that the slots of the root are used up.
- `MaxStarts = 3` of `NameNode`: a crash while reloading what survived a crash.
- `MaxQueries = 1`: one walk of the monitor thread against everything.
- `Cmds`: one command that records a replica, one that ends the thread when
  its send fails, one that does neither; all commands of a kind have one body.
- `MaxPolls`: 2 instead of 101: a hit on the first and on the last poll, and
  giving up. `MaxProbes = 2`: a probe and one that inherits its pongs.
- `MaxCalls` of `ClientCalls`: 2 or 3 calls: one that gives up, its successor,
  and a third that starts on what the second left.
- `Callers`: one. FUSE is started multi-threaded (`client.c:1338`), and with two
  callers `CleanCalls`, `LeaksBounded` and `CallsReturn` all fail: one thread's
  receiver answers the other's call. The hazard list says so.
- `store`: two datanodes, a directory, a file in it, and the path a `truncate`
  of the directory's name would hit; `MaxCalls = 3` (make, change, look), and
  `MaxFaults = 1`: one process that ends or one call that gives up. Contents with
  and without a comma. `getattr`, `access` and `chmod` do there what `open` does
  without recording a home, and are not called.
- `dirtree`: five cells, two names, and a path of each kind: `home`, a folder in
  it, a folder in that, a path that does not start at `home`, and one that names
  it again. With five cells there is a folder in a folder with a sibling each.
  The names are not symmetric, since the paths do not treat them alike.
  `MaxStores = 2`: a file stored once, and twice.
- `corefs`: five clients with a list limited to two, so that the limit is passed
  often enough to make the head the tail; `UINT_MAX` far above what is counted
  up to; the four operations that differ in their packets. The constraint
  `FewCalls` allows three requests while two clients are connected, two while
  three are, and one while more are: what requests do does not depend on clients
  that do nothing but connect.
- `programs`: six processes on two hosts, four starts, so that a process may
  come again where another has been; one command, whose answers may go round.

`CHECK_DEADLOCK FALSE` is used everywhere but in `dirtree`: the process may be
down for good, the client dead, or all calls made.

### Fairness

`WF(CommandStep)`, `WF(MonTest \/ MonAdvance)`, `WF(ProberStep)` and weak
fairness of each caller and receiver say that a runnable thread is scheduled by
the operating system. No fairness is assumed of requests, datagrams, crashes,
restarts or of a receiver's `recvfrom`: a reply may never come. `CommandStep`
leaves out the arrival of a request, so `RequestsEnd` is about walks that were
started. `store`, `dirtree`, `corefs` and `programs` have safety properties
only: over UDP nothing has to arrive, and of corefs `WaitsForSender` is what
liveness would rest on (nobody waits for a packet that nobody is to send).

## 5. Proofs

All theorems hold for every value of the constants that satisfies the named
assumption of the module (`NameNodeAssumption`: root is a path, NULL is not a
node, the bounds are numbers; `PingAssumption`: the bounds are numbers;
`ClientAssumption` and `BufferAssumption`: operations are the ones of the code,
NULL is no buffer; `CorefsListAssumption` and `CorefsServerAssumption`: nodes are
finitely many and distinct from NULL, a context is made for each descriptor, NULL
is no record; `DirTreeAssumption`: cells are finitely many, `home` and `Root` are
no names of files). Further hypotheses of a theorem are in its statement.

`NameNodeProofs`:

- `TypeCorrect` (`Spec => []TypeOK`). `TypeOK` is not inductive: that
  `files[req.path][slot]` is a node needs to know that there is a request and
  that the slot is used when a replica is searched, and so on. `ControlInv` says
  which locals are defined at which place of the thread, and
  `TypeInv == TypeOK /\ ControlInv` is inductive.
- `SingleHomeHolds` (`Spec => []SingleHome`), both threads. A replica of a path
  is recorded by `SendOk` from `dpath`. `HomeInv` adds to `SingleHome` that a
  `dpath` obtained for a path that has replicas is one of them, and that a path
  fetched for has none: the decision was made on the table as it still is,
  because the command thread is its only writer. The pointer race does not
  enter: `getRepfetchnum` returns a slot, not a cell.
- `NeverNullDereference`, `ReplicasAlwaysRegistered`, `NothingEverPlaced`
  (`CommandSpec`), by one invariant, since each needs the others:
  `PointerInv` (where `dlist` is non-NULL), `AheadInv` (a search for a recorded
  replica has its cell still ahead), `RootInv` (only the root is looked up in
  the table), `ReplicasRegistered` and `NothingPlaced`.
- `ConfigAlwaysAgrees`, `NodesListedOnce`, `RootAlwaysCovers` (`CommandSpec`), by
  `RegistryInv`: the buffer of `datanode_filewrite` is the part of the registry
  the walk has passed (`BufferInv`), `dnconfig` is the registry wherever nothing
  has changed since it was written, and during the reload is still the file being
  read or already the registry (`SavedInv`); a search that has passed a cell did
  not have its name there (`FreshInv`), so what is linked is new (`UniqueNames`)
  in registry and file; and an inserted node was just recorded for the root
  (`Covers`). `RegistryAlwaysStable` is the action property, by the same
  invariant.
- `DirectoryIsImplemented` (`Spec => ImplementsDirectory`), both threads: the
  namenode is a `Directory` with `members <- Names(chain)`, `home <- Home`,
  `routed <- out`. The initial state maps to the initial state. The end of
  `datanode_insert` (`SearchReturn`, `SearchMiss`, `Link`) is a `Register`,
  `SendOk` a `Place` or a `Route`, `Local` and `RecvStatfs` an `Answer`, `Start`
  and `Crash` a `Forget`; every other step, all of the monitor thread among them,
  changes none of the three and is a stutter. A placement needs
  `HomeInv` and `SentMember`: the `dpath` of a path without replicas is a member.
  The pointer race can make `dlist` NULL between its test and its use, but not
  make it a cell that is none.

`PingProbeProofs`: `ProbeTypeCorrect`; `AliveHasPongHolds` and
`PongNotMissedHolds` from `PongInv` (messages of a probe do not exist before its
ping is sent, so the reset cannot wipe out a pong of its own probe);
`AliveMeansAnsweredHolds` from `PromptInv` (everything in flight belongs to this
probe if nothing else was in flight when it began).

`ClientCallsProofs`:

- `CallsTypeCorrect`, for any number of callers. `CallType` adds which calls have
  a receiver and that a caller in its loop has polls left.
- `LeaksAreBounded` (`Spec => []LeaksBounded`), for one caller (`OneCaller`) and
  without `statfs` (`NoStatfs`). `LeakInv`: the receivers that have not ended are
  no more than the failed calls, and one more while the caller waits for one.
  Any receiver may raise the flag the caller waits for; it is then that one that
  has ended, and the count is right whichever it was. `statfs` does not lower the
  flag, so that it ends its loop with its receiver still there.
- `CallsAreClean` (`Spec => []CleanCalls`), with the further hypotheses `NoMkdir`
  and `~Duplicates`. `CleanInv`: until a call gives up, all receivers but the one
  of the current call have ended (`PastInv`); the request, or the reply, or the
  filled buffer of this call exists, and nothing of another (`ReplyInv`); the
  flag is up only when that receiver has ended, and `COMMAND_NAME` names the
  buffer of the call while anybody reads it (`FlagInv`).

Each hypothesis is needed. With two callers all three properties of the calls
fail (see the bounds). `mkdir` clears 10000 bytes from a buffer of 10, which may be
another buffer with the reply in it or the end of the process. A reply delivered
twice is found by the next call's receiver. The run `calls` is an instance that
satisfies them all, `callsmkdir` checks `LeaksBounded` without the last two.

`DirTreeProofs`, for any number of cells and paths of any length:

- `RemovefoldNeverWalks` (`Spec => []NeverWalks`). The invariant is `TreeInv`:
  only a file has a next sibling, and only a folder has something in it.
  `addnode` keeps it since what comes after a folder is put into it, and
  `Unlinked` since what it takes out has a next sibling and so is a file.
  `removefold` therefore follows NULL at the one or the other link. This proof
  needs nothing of the recursive functions: it does not matter which node a
  search finds.
- `TreeTypeCorrect`, `LinksAlwaysAgree` (`Spec => []LinksAgree`) and the action
  property `AddsLoseNothing`, by `LinkInv`: types, `TreeInv` and `Agreeing` (the
  nodes that links lead to are in use, and the `prev` of each is the node the
  link comes from). Here it does matter that a search stays in the tree: a node
  put behind a cell that was cut off, or a freed cell taken out again, would break
  the links. `InTreeLeast` says that `InTree`, defined by following links as many
  times as there are cells, is the least set that has the head and is closed under
  links; hence a set of nodes each led to from the set is empty (`NoCycle`), and a
  walk over siblings ends (`WalksEnd`). A function defined by `f[i]` from
  `f[i - 1]` exists (`Iterates`, by the least number at which it would not), which
  gives the siblings, the folders along a path, and so where `search` and
  `searchlast` may end (`SearchInTree`, `SearchlastInTree`).
- `TreeIsAlwaysList`, `NodesFoundWhereAdded` (`Spec => []FoundWhereAdded`) and the
  action property `RecoverAlwaysRestores`. By `TreeInv` a node leads to one
  other at most, so the tree is a list (`ChainExists`): the walk along these links
  from the head ends (`WalksEnd`), meets no node twice, and what it meets is closed
  under links. A node is therefore known by its place, and the tree by the lines
  of its nodes in that order (`Listed`). This replaces the induction over the tree:
  facts about places are handed on from `i` to `i + 1` (`HandedOn`), or back.
  `recursestore` writes just these lines (`StoredIsList`), two trees with the same
  lines have the same `Shape` (`SameShape`), and which place a path leads to can
  be read off the lines (`LeadsTo`): a search finds the node there (`Leading`) and
  finds no other (`Found`).
  The inductive invariant is `ListInv`. `LinkInv` and the lines of the tree are a
  `GoodList`: the head is the first line and no other is called `home`, and each
  line is where an addition puts it (`Placed`), that is, its `loc` leads to a
  folder before it, and only files, or last a folder, stand between the two. Where
  a path leads to depends on the lines up to there only (`SameBegin`), so lines
  put behind others, or after lines were cut off, leave these as they are
  (`AddedList`, `GoodExtended`). A removal takes out a file that is not the last
  and moves the places behind it (`RemovedList`, `LeadsWithout`, `GoodWithout`).
  `FoundWhereAdded` follows from `GoodList` (`GoodFound`). While data.txt is read
  the list is moreover a beginning of the one that was stored (`Reading`): the
  next line goes behind the last, as only files stand between it and the folder
  its `loc` leads to; when all are read the lists are equal, and with them the
  shapes; and the line behind those is the head again, whose `loc` leads nowhere
  (`TopNowhere`).

  The first forms of both properties were refuted when TLC was given a path that
  names `home` again: `searchloc` returns the head for `home/b/home` while there
  is a node `home/b`, so a node may be added there that is found neither before
  nor after `b` is removed, and that cannot be read back without it. Such paths
  (`HomeAgain`) are now named in the properties and in the run.

`CorefsServerProofs`, for any number of clients and calls:

- `WaitIsForSender` (`Spec => []WaitsForSender`), `LagAlwaysExtra` (`LagIsExtra`),
  `RepliesAreOwn` (`AnswersOwn`), by `LinkInv`, which has for each client: nothing
  is pending or sent where there is no connection (`QuietInv`); in the connection
  each request with data is followed by its data, or is last with its client
  between the two sends (`PairInv`); what the server waits for is the head of
  the connection or about to be sent (`HoldInv`); the answers owed and on their
  way are as many as the data packets taken for requests, and one more for a
  call (`LagInv`, `LeftInv` for a client that has ended); and with none taken
  all of them are of the pending call, in a type it understands (`OwnInv`). That
  needs how `Append` and `Tail` change the number of requests, proved by lemmas.
- `ContextsAreKept` (`Spec => []ContextsKept`) by `ListInv`: as long as no client
  was accepted beyond the limit, there is an order (`Linked`) in which the cells
  are linked both ways with the right tail and length, and it holds the
  contexts of the clients accepted and no others. `insert_info_ptr` puts a cell
  before the order, `remove_info` closes a gap at its head, in the middle or at its
  tail; that the search finds an entry is a fact about the first index where it
  is (`Least`). `ServerAlwaysStays` combines both invariants: a list at its limit
  that has not been beyond it has its tail in the order, so not at the head.
- `ServerTypeCorrect` (`Spec => []TypeOK`), beyond the limit of the list too. Its
  invariant counts the nodes in use (`InUse`): a new one may have no `prev` until
  it is put in front, all others have a key, a `prev` to be unlinked by, and lead
  to nodes in use; `insert_info_ptr`, `get_info_ptr` and `remove_info` keep that
  (`PushInUse`, `UnlinkInUse`). No search reaches the head again, and the tail,
  which `main` does not initialize, is set before it is read. `TakenInv` bounds
  the data packets taken for commands by the calls made.

The first attempt at `TypeOK` was refuted by TLC with one client more than the
instance had then: `alength` was bounded by `MAX_LIST_LENGTH` and went below
zero. With five the head became the tail, which the model had not foreseen, and
`AcceptCrashes` was added.

The first attempt at `RepliesAreOwn` failed because two arms of the CASE in
`handle_command` overlapped: for a request that can be answered both ways the value of
CASE is not determined, and TLC evaluates the first arm only. The arms are
exclusive now, as the returns of the code are.

`DataPathProofs`: `DataPathTypeCorrect`, which rests on what an operation of a
datanode can make appear (`Fine`: nothing but what a mknod or mkdir names and
what a rename moves); and `StoredAtHome` (`Spec => []PlacedWhereStored`).
`PlacedWhereStored` is not inductive: `PlaceInv` adds that an operation that
creates a path was forwarded to its home (`SentHome`) and that the target of a
rename on its way is loose (`RenamesLoose`). The assumptions are
`DataNodeAssumption` and `DataPathAssumption`: paths, contents and hosts are
distinct things, and the namenode is no datanode.

`StoreProofs`: `BelievedIsStored` (`Spec => []StoreAgrees`) and `AnswersAreRight`
(`Spec => []AnswersAgree`). What the client believes changes only when it takes a
reply, long after the datanode has acted, and messages of calls that gave up are
still on their way; so neither is inductive. `StoreInv` adds:

- `Numbered` and `Once`: what is on its way of the pending call is what was sent,
  and of a call there is the request, or its forward, or the reply, never two;
- `Silent`: what a message of an earlier call may still change are paths about
  which nothing is said, now or later (`Dark`);
- `Agreed`: with no reply on its way what is believed, and with one what will be
  believed once it is taken, is what stands at the home of each path, and nothing
  stands elsewhere (`Shown`, `Agree`);
- `Nested`: an entry stands only below a directory of the same datanode, which is
  why a listing from the home of the directory is complete.

That an operation done by a datanode makes true what its answer will be taken to
say is `ServeAgrees`; it uses `PlacedWhereStored` before the step for what needs
the path to exist and after it for what creates it. The additional assumption is
`MessageAssumption`: NULL is no message.

`ProgramsProofs`: `ProgramsTypeCorrect`; `PortsAreOwned`
(`Spec => []PortsOwned`), for any number of processes, hosts and starts;
`NoEchoHolds`. `PortInv` says that a port of a host belongs to one process
(`Alone`), that the sockets besides the ping socket exist only while main is past
its check (`InUse`), and that a datanode or tool that has had a pong, or has gone
on because of one, has the ping port of its host (`Answered`): it received the
pong itself. Hence no thread of such a program is deaf (`NoneDeaf`), except on
the namenode's host. `NoEchoHolds` needs `AskedFromOutside`: as long as no tool
of its host has slipped in, the namenode is asked from other hosts only.

Only model-checked: all liveness (`RequestsEnd`, `ProbeEnds`, `CallsReturn`),
which is out of the reach of the prover. The violations of the runs `fetch`, `late`
and `hang` are counterexamples TLC finds, about which there is nothing to prove.

## 6. Not modelled

- Replication: `replica.c` is built by no target of the Makefile and called by
  nobody. `receivecommand_replica` runs in every datanode, but nothing sends it
  a request; `Programs` has its port.
- `DN_COMMAND`, `DISP_RESULTS`, `R_READ`, `R_FILEEXIST` of the monitor tool: sent
  by nobody (`sendmonitorcommand_datanode` would take the length of a `char`).
- `receivecommand_server`, `remove_datanode`, `remove_fileentry`,
  `getRepfetchnum1` beyond its answer: called by nobody, or with a replication
  count that nothing reads.
- Attributes, modes, offsets and error numbers of file operations; that
  `statfs` fills the buffer of `write` and parses its own (`client.c:1110`,
  `1147`); that the mount point is listed by one datanode only, and that
  `readdir` takes an error for an empty listing (`client.c:282`).
- `readlink`, `symlink`, `link`, `chown`, `utimens` and the xattr operations of
  the dsproj client: they act on the client's local file system and share no state.
- `dd.c`: `getdatanode`, `storefile`, the numbers of nodes. The programs call
  only `ninitialize`; `dummymain` is the only caller of the rest.
- corefs: the server that forks for each client (`-f`), where nothing is shared;
  the attribute cache of `corefs.c` (`cache_attr` is 0); the padding of
  `encap` and `decap`; clients that connect again after the server has ended.
  The client runs FUSE with `-s`, so one call at a time. The comment at
  `common.c:724-729` promises -EIO where the code returns -EPROTO (757, 771);
  no property depends on which. Liveness of corefs did not finish in reasonable
  time on an instance in which the limit of the list is reached.
- `hello.c`, `fusexmp.c`, `testfs.c`, the hooks of
  `corefs-1.5/src/fs/dummy_mod.c` other than `my_receive`, the Makefiles:
  samples, a scratch program, empty functions and the build.
