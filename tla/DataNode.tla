------------------------------ MODULE DataNode ------------------------------
(***************************************************************************)
(* What a datanode does with one operation: the functions sendresponse_*   *)
(* of src/socket_command.c.  Each makes one system call on the local file  *)
(* system and sends the result to the client.  Here each is an operator on *)
(* the tree of files, whose value is what the client is told and the tree  *)
(* that is left.  The namenode calls the same functions with the path JUNK *)
(* when it finds no datanode.                                              *)
(*                                                                         *)
(* A tree says what stands at each path: nothing, a directory, or a file   *)
(* with its contents.  Attributes, modes, file offsets and the numbers of  *)
(* errors are left out: any call may also be refused by the system.        *)
(***************************************************************************)
EXTENDS FiniteSets

CONSTANTS
  Paths, Root,   \* the paths clients use, among them DATANODE_DIR itself
  Junk,          \* the name JUNK in the working directory of the namenode
  Parent,        \* the directory each path is in
  Data,          \* contents of a file
  Commas,        \* those of them with a comma in them
  Absent, Dir, Empty, Garbled

Names == Paths \cup {Junk}
Contents == Data \cup {Empty, Garbled}
Entries == Contents \cup {Absent, Dir}
Trees == [Names -> Entries]

ASSUME DataNodeAssumption ==
  /\ Root \in Paths /\ Junk \notin Paths
  /\ Parent \in [Paths \ {Root} -> Paths]
  \* Paths of one or two names, which is as deep as the properties look.
  /\ \A p \in Paths \ {Root} : Parent[p] = Root \/ Parent[Parent[p]] = Root
  /\ Commas \subseteq Data
  /\ {Absent, Dir} \cap Contents = {} /\ Absent # Dir

Below(p) == {q \in Paths \ {Root} : Parent[q] = p}
Children(t, p) == {q \in Below(p) : t[q] # Absent}
HasParent(t, p) == p \in {Root, Junk} \/ t[Parent[p]] = Dir
IsFile(t, p) == t[p] \in Contents

\* A reply: did the call succeed, the data of a read, the names of a listing.
Success(t) == [ok |-> TRUE, data |-> Empty, names |-> {}, tree |-> t]
Failure(t) == [Success(t) EXCEPT !.ok = FALSE]
Checked(ok, new, old) == IF ok THEN Success(new) ELSE Failure(old)
Found(t, p) == Checked(t[p] # Absent, t, t)

sendresponse_getattr(t, p) == Found(t, p)
sendresponse_access(t, p)  == Found(t, p)
sendresponse_open(t, p)    == Found(t, p)
sendresponse_chmod(t, p)   == Found(t, p)
sendresponse_statfs(t, p)  == Found(t, p)

\* open with O_CREAT and O_EXCL.
sendresponse_mknod(t, p) ==
  Checked(t[p] = Absent /\ HasParent(t, p), [t EXCEPT ![p] = Empty], t)

sendresponse_mkdir(t, p) ==
  Checked(t[p] = Absent /\ HasParent(t, p), [t EXCEPT ![p] = Dir], t)

sendresponse_unlink(t, p) == Checked(IsFile(t, p), [t EXCEPT ![p] = Absent], t)

sendresponse_rmdir(t, p) ==
  Checked(t[p] = Dir /\ Children(t, p) = {}, [t EXCEPT ![p] = Absent], t)

\* The message is cut at commas, and nothing follows the path: size_c is NULL
\* and the size is 0.
sendresponse_truncate(t, p) == Checked(IsFile(t, p), [t EXCEPT ![p] = Empty], t)

\* What is left of the contents after strtok, and whatever stands behind it in
\* the buffer of the message.
Stored(d) == IF d \in Commas THEN Garbled ELSE d
sendresponse_write(t, p, d) == Checked(IsFile(t, p), [t EXCEPT ![p] = Stored(d)], t)

\* pread with size and offset exchanged.
Bugsendresponse_read(t, p) == IF IsFile(t, p) THEN Success(t) ELSE Failure(t)
sendresponse_read(t, p) ==
  IF IsFile(t, p) THEN [Success(t) EXCEPT !.data = t[p]] ELSE Failure(t)

sendresponse_readdir(t, p) ==
  IF t[p] = Dir THEN [Success(t) EXCEPT !.names = Children(t, p)] ELSE Failure(t)

\* What was below the old name gets names no path in Paths has.
sendresponse_rename(t, p, to) ==
  Checked(/\ t[p] # Absent /\ HasParent(t, to) /\ to # p /\ to \notin Below(p)
          /\ \/ t[to] = Absent
             \/ IsFile(t, p) /\ IsFile(t, to)
             \/ t[p] = Dir /\ t[to] = Dir /\ Children(t, to) = {},
          [q \in Names |-> IF q = to THEN t[p]
                           ELSE IF q = p \/ q \in Below(p) THEN Absent ELSE t[q]],
          t)

\* The branches of receivecommand_datanode for the operations of a client.
Perform(t, m) ==
  CASE m.op = "getattr"  -> sendresponse_getattr(t, m.path)
    [] m.op = "access"   -> sendresponse_access(t, m.path)
    [] m.op = "open"     -> sendresponse_open(t, m.path)
    [] m.op = "chmod"    -> sendresponse_chmod(t, m.path)
    [] m.op = "statfs"   -> sendresponse_statfs(t, m.path)
    [] m.op = "mknod"    -> sendresponse_mknod(t, m.path)
    [] m.op = "mkdir"    -> sendresponse_mkdir(t, m.path)
    [] m.op = "unlink"   -> sendresponse_unlink(t, m.path)
    [] m.op = "rmdir"    -> sendresponse_rmdir(t, m.path)
    [] m.op = "truncate" -> sendresponse_truncate(t, m.path)
    [] m.op = "write"    -> sendresponse_write(t, m.path, m.data)
    [] m.op = "read"     -> sendresponse_read(t, m.path)
    [] m.op = "readdir"  -> sendresponse_readdir(t, m.path)
    [] m.op = "rename"   -> sendresponse_rename(t, m.path, m.target)

Operations == {"getattr", "access", "open", "chmod", "statfs", "mknod", "mkdir", "unlink",
               "rmdir", "truncate", "write", "read", "readdir", "rename"}
=============================================================================
