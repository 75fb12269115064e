------------------------------- MODULE DirTree -------------------------------
(***************************************************************************)
(* The directory tree of src/dd.c: nodes linked by next and prev to their  *)
(* siblings and by fold to the first node in them, kept by path and stored *)
(* in data.txt.                                                            *)
(*                                                                         *)
(* A path is the sequence of its names.  Node numbers and the datanodes of *)
(* a node are left out: no function that changes the tree looks at them.   *)
(* A node that has been cut off is not freed and never looked at again.    *)
(* Following a NULL pointer ends the process.                              *)
(***************************************************************************)
EXTENDS Naturals, Sequences, FiniteSets

CONSTANTS
  Cells, head,   \* where nodes are allocated, and the first of them
  DNULL,
  Fault,         \* a NULL pointer has been followed
  home,          \* the name of the head
  Top,           \* its loc, "Root"
  Names,         \* the names of files and folders
  Paths,         \* the paths functions are called with
  MaxStores      \* bound: times a process stores the tree before it ends

ASSUME DirTreeAssumption ==
  /\ IsFiniteSet(Cells) /\ head \in Cells
  /\ DNULL \notin Cells /\ Fault \notin Cells /\ DNULL # Fault
  /\ home \notin Names /\ Top \notin Names /\ Top # home
  /\ Paths \subseteq Seq(Names \cup {home}) \ {<<>>}
  /\ MaxStores \in Nat

VARIABLES
  tree,     \* the node in each cell
  status,   \* what the process does, or that it has followed a NULL pointer
  file,     \* the lines of data.txt, while a process reads them
  read,     \* how many it has read
  stored    \* history: the shape of the tree that was stored

vars == <<tree, status, file, read, stored>>

Locs == Paths \cup {<<Top>>}
Lines == [fname : Names \cup {home}, dflag : BOOLEAN, loc : Locs]
Links == Cells \cup {DNULL}
Node == [used : BOOLEAN, fname : Names \cup {home}, dflag : BOOLEAN, loc : Locs,
         next : Links, prev : Links, fold : Links]

TypeOK ==
  /\ status \in {"running", "reading", "crashed", "walking"}
  /\ tree \in [Cells -> Node] /\ tree[head].used
  /\ file \in Seq(Lines)
  /\ read \in 0..Len(file)

create_node(line, prev) ==
  [used |-> TRUE, fname |-> line.fname, dflag |-> line.dflag, loc |-> line.loc,
   next |-> DNULL, prev |-> prev, fold |-> DNULL]

\* The name and the loc exchanged.
BugHeadLine == [fname |-> Top, dflag |-> TRUE, loc |-> <<home>>]
HeadLine == [fname |-> home, dflag |-> TRUE, loc |-> <<Top>>]

Unused == [used |-> FALSE, fname |-> home, dflag |-> FALSE, loc |-> <<Top>>,
           next |-> DNULL, prev |-> DNULL, fold |-> DNULL]
NewTree(line) == [c \in Cells |-> IF c = head THEN create_node(line, DNULL) ELSE Unused]
ninitialize == NewTree(HeadLine)

Init == tree = ninitialize /\ status = "running" /\ file = <<>> /\ read = 0 /\ stored = <<>>
-----------------------------------------------------------------------------
\* The cells a walk over the next siblings of c is at, c first, DNULL behind the last.
NextOf(t, x) == IF x = DNULL THEN DNULL ELSE t[x].next
Siblings(t, c) ==
  LET at[i \in 1..(Cardinality(Cells) + 1)] == IF i = 1 THEN c ELSE NextOf(t, at[i - 1])
  IN at

\* The cell at the first of some places, or DNULL.
FirstOf(at, places) ==
  IF places = {} THEN DNULL ELSE at[CHOOSE i \in places : \A j \in places : i <= j]

\* The first of the siblings of c that is called name, or DNULL.
Named(t, c, name) ==
  LET at == Siblings(t, c)
  IN FirstOf(at, {i \in DOMAIN at : at[i] # DNULL /\ t[at[i]].fname = name})

\* The first node in the folder x.
FoldOf(t, x) == IF x = DNULL THEN DNULL ELSE t[x].fold

\* The search does not go down into the folder it has found.
Bugsearchloc(t, c, path) ==
  IF Len(path) = 1 /\ t[head].fold = DNULL THEN Fault
  ELSE Named(t, IF t[c].fname = home THEN t[head].fold ELSE c, path[Len(path)])
\* The last name of a path, compared with that of the first node in the folder
\* before it is known that there is one.
LastName(t, first, name) ==
  IF name = home THEN head
  ELSE IF first = DNULL THEN Fault
  ELSE Named(t, IF t[first].fname = home THEN t[head].fold ELSE first, name)
\* A path is looked up name by name, each in the folder of the one before.
searchloc(t, c, path) ==
  LET n == Len(path)
      folder[i \in 1..(n - 1)] ==
        Named(t, IF i = 1 THEN c ELSE FoldOf(t, folder[i - 1]), path[i])
  IN IF n = 1 THEN LastName(t, c, path[1])
     ELSE IF folder[n - 1] = DNULL THEN DNULL
     ELSE LastName(t, t[folder[n - 1]].fold, path[n])

search(t, path) == IF path = <<home>> THEN head ELSE searchloc(t, head, path)

\* The last of the cells of a walk that is not DNULL.
LastOf(t, at) == at[CHOOSE i \in DOMAIN at : at[i] # DNULL /\ t[at[i]].next = DNULL]

\* The first node in the folder instead of the last.
BugLastIn(t, folder) ==
  IF folder \notin Cells THEN Fault
  ELSE IF t[folder].fold = DNULL THEN folder
  ELSE t[folder].fold
\* The last node in the folder, or the folder when there is none in it.
LastIn(t, folder) ==
  IF folder \notin Cells THEN Fault
  ELSE IF t[folder].fold = DNULL THEN folder
  ELSE LastOf(t, Siblings(t, t[folder].fold))
searchlast(t, path) == LastIn(t, search(t, path))

\* The first free cell, for the node that malloc returns.
malloc(t) == CHOOSE c \in Cells : ~t[c].used

\* A node put behind its last sibling whatever that is.
Bugaddnode(t, line) ==
  LET last == searchlast(t, line.loc)
      new  == malloc(t)
      linked == IF last = search(t, line.loc) THEN [t EXCEPT ![last].fold = new]
                                              ELSE [t EXCEPT ![last].next = new]
  IN IF last = Fault THEN <<>> ELSE [linked EXCEPT ![new] = create_node(line, last)]
\* The last node of a folder may itself be a folder: then the new node becomes
\* the first in that one, and what was in it is cut off.  The empty tree stands
\* for a process that has followed a NULL pointer.
addnode(t, line) ==
  LET last == searchlast(t, line.loc)
      new  == malloc(t)
      linked == IF t[last].dflag THEN [t EXCEPT ![last].fold = new]
                                 ELSE [t EXCEPT ![last].next = new]
  IN IF last = Fault THEN <<>> ELSE [linked EXCEPT ![new] = create_node(line, last)]

\* The next node keeps its prev.
BugUnlinked(t, c) ==
  LET prev == t[c].prev
      linked == IF t[prev].dflag THEN [t EXCEPT ![prev].fold = t[c].next]
                                 ELSE [t EXCEPT ![prev].next = t[c].next]
  IN [linked EXCEPT ![c] = Unused]
\* The nodes before and after c linked to each other, c freed.
Unlinked(t, c) ==
  LET prev == t[c].prev
      next == t[c].next
      linked == IF t[prev].dflag THEN [t EXCEPT ![prev].fold = next]
                                 ELSE [t EXCEPT ![prev].next = next]
  IN [linked EXCEPT ![next].prev = prev, ![c] = Unused]

\* The cells of the tree t, by following links from the head.
Children(t, c) == {t[c].next, t[c].fold} \ {DNULL}
InTree(t) ==
  LET within[i \in 1..Cardinality(Cells)] ==
        IF i = 1 THEN {head}
        ELSE UNION {{c} \cup Children(t, c) : c \in within[i - 1]}
  IN within[Cardinality(Cells)]

\* What is behind a node before what is in it.
Bugrecursestore(t, c) ==
  LET from[x \in InTree(t) \cup {DNULL}] ==
        IF x = DNULL THEN <<>>
        ELSE <<[fname |-> t[x].fname, dflag |-> t[x].dflag, loc |-> t[x].loc]>>
               \o from[t[x].next]
  IN from[c]
\* The lines of the nodes from c: a node, what is in it, its next siblings.
recursestore(t, c) ==
  LET from[x \in InTree(t) \cup {DNULL}] ==
        IF x = DNULL THEN <<>>
        ELSE <<[fname |-> t[x].fname, dflag |-> t[x].dflag, loc |-> t[x].loc]>>
               \o from[t[x].fold] \o from[t[x].next]
  IN from[c]
-----------------------------------------------------------------------------
Running == status = "running"
HasRoom == \E c \in Cells : ~tree[c].used

\* The tree ends with the process.
Crash ==
  /\ status' = "crashed" /\ tree' = ninitialize
  /\ file' = <<>> /\ read' = 0 /\ stored' = <<>>

\* addfile and addfolder.  Their loc may not exist, but is not that of a file.
Add(name, dflag, loc) ==
  /\ Running /\ HasRoom
  /\ LET folder == search(tree, loc) IN folder \in Cells => tree[folder].dflag
  /\ LET new == addnode(tree, [fname |-> name, dflag |-> dflag, loc |-> loc]) IN
     IF new = <<>> THEN Crash
     ELSE tree' = new /\ UNCHANGED <<status, file, read, stored>>

removefile(path) ==
  LET c == search(tree, path) IN
  /\ Running
  /\ IF c \notin Cells \/ c = head \/ tree[c].next = DNULL THEN Crash
     ELSE tree' = Unlinked(tree, c) /\ UNCHANGED <<status, file, read, stored>>

\* Unlinks the folder and walks what is in it.  There is no model of the walk:
\* NeverWalks says that it is not reached.
removefold(path) ==
  LET c == search(tree, path) IN
  /\ Running
  /\ IF c \notin Cells \/ c = head \/ tree[c].next = DNULL \/ tree[c].fold = DNULL THEN Crash
     ELSE status' = "walking" /\ UNCHANGED <<tree, file, read, stored>>

\* The names in the tree t, each with what is in it.
Shape(t) ==
  LET from[x \in InTree(t) \cup {DNULL}] ==
        IF x = DNULL THEN <<>>
        ELSE <<[fname |-> t[x].fname, dflag |-> t[x].dflag, inside |-> from[t[x].fold]]>>
               \o from[t[x].next]
  IN from[head]

Copies(lines, n) == [i \in 1..(n * Len(lines)) |-> lines[1 + ((i - 1) % Len(lines))]]

\* The process stores the tree, ends, and the next one starts: recoverlist takes
\* the first line of data.txt for the head.  Storing appends to the file.  A
\* process that stores and goes on leaves in it a tree that it has had.
Restart(n) ==
  /\ Running
  /\ status' = "reading"
  /\ file' = Copies(recursestore(tree, head), n)
  /\ tree' = NewTree(file'[1])
  /\ stored' = Shape(tree)
  /\ read' = 1

\* recoverlist adds the node of the next line.
ReadLine ==
  /\ status = "reading" /\ read < Len(file)
  /\ LET new == addnode(tree, file[read + 1]) IN
     IF new = <<>> THEN Crash
     ELSE HasRoom /\ tree' = new /\ read' = read + 1 /\ UNCHANGED <<status, file, stored>>

EndOfFile ==
  /\ status = "reading" /\ read = Len(file)
  /\ status' = "running" /\ file' = <<>> /\ read' = 0 /\ stored' = <<>>
  /\ UNCHANGED tree

\* After a crash.  No data.txt: recoverlist calls ninitialize.
Start ==
  /\ status = "crashed"
  /\ status' = "running" /\ tree' = ninitialize
  /\ UNCHANGED <<file, read, stored>>

Next ==
  \/ \E p \in Paths :
       \/ \E name \in Names, dflag \in BOOLEAN : Add(name, dflag, p)
       \/ removefile(p)
       \/ removefold(p)
  \/ \E n \in 1..MaxStores : Restart(n)
  \/ ReadLine
  \/ EndOfFile
  \/ Start

Spec == Init /\ [][Next]_vars
-----------------------------------------------------------------------------
(* Safety.                                                                  *)

\* The tree is one: every node of it but the head is led to by exactly one
\* link, from the node its prev names, and no link leads to a freed cell.
LinksAgree ==
  \A c \in InTree(tree) :
    /\ tree[c].used
    /\ \A x \in Children(tree, c) : tree[x].prev = c /\ tree[c].next # tree[c].fold
    /\ c # head => tree[c].prev \in InTree(tree)

\* removefold never gets as far as to walk what is in a folder: whatever path
\* it is called with, it has followed a NULL pointer before.
NeverWalks == status # "walking"

\* A path that names home behind its beginning.  A search for the name home is
\* back at the head when there is a node with the names before it, so that such
\* a path may lead to the head, and nothing is found below it.
HomeAgain(path) == \E i \in 2..Len(path) : path[i] = home

\* A node is found under the path it was added at if that starts at home, unless
\* the node it was put behind was itself a folder, or a file before it has its
\* name.
FoundWhereAdded ==
  \A c \in {x \in InTree(tree) : tree[x].loc[1] = home /\ ~HomeAgain(tree[x].loc)} :
    LET found == search(tree, Append(tree[c].loc, tree[c].fname)) IN
    \/ found = c
    \/ tree[tree[c].prev].dflag /\ tree[c].prev # search(tree, tree[c].loc)
    \/ found \in Cells /\ ~tree[found].dflag /\ tree[found].fname = tree[c].fname

\* What is stored once is read back as it was, nodes in a wrong folder included.
\* Only a file that was stored twice ends the process that reads it, or a line
\* at a path that leads back to the head by way of a node that was removed.
RecoverRestores ==
  [][status = "reading" =>
       /\ Running' => Shape(tree') = stored
       /\ status' = "crashed" =>
            (\E i \in 2..Len(file) : file[i] = file[1]) \/ HomeAgain(file[read + 1].loc)]_vars

\* An add cuts nothing off, unless the last node in the folder is a folder.
AddLosesNothing ==
  [][Running' /\ ~(InTree(tree) \subseteq InTree(tree')) =>
       \A p \in Paths, name \in Names, dflag \in BOOLEAN :
         Add(name, dflag, p) =>
           LET last == searchlast(tree, p) IN last # search(tree, p) /\ tree[last].dflag]_vars
=============================================================================
