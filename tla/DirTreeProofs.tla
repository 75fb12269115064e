---------------------------- MODULE DirTreeProofs ----------------------------
(***************************************************************************)
(* Proofs about DirTree.                                                   *)
(*                                                                         *)
(* First, removefold never walks what is in a folder.  A node has a next   *)
(* sibling only if it is a file, and a node in it only if it is a folder:  *)
(* addnode puts a node into a folder when the node it found last is one.   *)
(* So no node has both, and removefold follows a NULL pointer at the one   *)
(* or the other.  Nothing is needed of which node a search returns.        *)
(*                                                                         *)
(* Then the types, that the links of the nodes form a tree (Agreeing), and *)
(* that an addition loses nothing but below a folder that is last.  These  *)
(* need what the model's recursive functions return:                       *)
(*   - InTree is the least set with the head in it that no link leaves     *)
(*     (InTreeLeast), so nothing in the tree is a cycle (NoCycle) and a    *)
(*     walk along links that agree ends within Cardinality(Cells) steps    *)
(*     (WalksEnd);                                                         *)
(*   - a function defined by handing a value from i to i + 1 exists        *)
(*     (Iterates): so do the siblings of a node and the node that each     *)
(*     folder of a path leads to, and a search ends in the tree            *)
(*     (SearchInTree, SearchlastInTree).                                   *)
(*                                                                         *)
(* Last, that a node is found where it was added and that what is stored   *)
(* is read back.  A node leads to one other at most, so the tree is a list *)
(* (ChainExists), and the lines of its nodes (Listed) say all of it:       *)
(*   - recursestore writes those lines (StoredIsList), and trees with the  *)
(*     same lines have the same shape (SameShape);                         *)
(*   - which line a path leads to (LeadsTo) is what a search for it finds  *)
(*     (Leading, Found), and depends on the lines before it only           *)
(*     (SameBegin);                                                        *)
(*   - each line is where an addition at its loc put it (GoodList): that   *)
(*     an addition to the list (GoodExtended) and a removal from it        *)
(*     (GoodWithout) keep, and FoundWhereAdded follows (GoodFound);        *)
(*   - while data.txt is read, the tree is the first lines of the list     *)
(*     that was stored (Reading), and the next line goes behind them       *)
(*     (ReadList).                                                         *)
(***************************************************************************)
EXTENDS DirTree, FiniteSetTheorems, SequenceTheorems, NaturalsInduction,
        WellFoundedInduction, TLAPS

Fields(n) == n = [used |-> n.used, fname |-> n.fname, dflag |-> n.dflag, loc |-> n.loc,
                  next |-> n.next, prev |-> n.prev, fold |-> n.fold]

NodeInv(n) ==
  /\ Fields(n)
  /\ n.dflag => n.next = DNULL
  /\ ~n.dflag => n.fold = DNULL

TreeInv(t) ==
  /\ t = [c \in Cells |-> t[c]]
  /\ \A c \in Cells : NodeInv(t[c])

Inv == TreeInv(tree) /\ NeverWalks

LEMMA CreateNode ==
  ASSUME NEW line, NEW prev
  PROVE  NodeInv(create_node(line, prev))
BY DEF NodeInv, Fields, create_node

LEMMA UnusedInv == NodeInv(Unused)
BY DEF NodeInv, Fields, Unused

\* A new tree: the head and cells without a node.
LEMMA NewTreeInv ==
  ASSUME NEW line
  PROVE  TreeInv(NewTree(line))
BY CreateNode, UnusedInv DEF TreeInv, NewTree

\* addnode links the new node by fold to a folder and by next to a file.
LEMMA AddNode ==
  ASSUME NEW t, NEW line, TreeInv(t), addnode(t, line) # <<>>
  PROVE  TreeInv(addnode(t, line))
<1> DEFINE last == searchlast(t, line.loc)
           new == malloc(t)
           linked == IF t[last].dflag THEN [t EXCEPT ![last].fold = new]
                                      ELSE [t EXCEPT ![last].next = new]
           node == create_node(line, last)
<1>1. addnode(t, line) = [linked EXCEPT ![new] = node]
  BY DEF addnode
<1>2. NodeInv(node)
  BY CreateNode
<1> HIDE DEF last, new, node
<1>3. TreeInv(linked)
  <2>1. linked = [c \in Cells |-> linked[c]]
    BY DEF TreeInv
  <2>2. ASSUME NEW c \in Cells PROVE NodeInv(linked[c])
    <3>1. NodeInv(t[c])
      BY DEF TreeInv
    <3>2. CASE c # last
      BY <3>1, <3>2 DEF TreeInv
    <3>3. CASE c = last /\ t[last].dflag
      <4>1. linked[c] = [t[c] EXCEPT !.fold = new]
        BY <3>3 DEF TreeInv
      <4> QED BY <3>1, <3>3, <4>1 DEF NodeInv, Fields
    <3>4. CASE c = last /\ ~t[last].dflag
      <4>1. linked[c] = [t[c] EXCEPT !.next = new]
        BY <3>4 DEF TreeInv
      <4> QED BY <3>1, <3>4, <4>1 DEF NodeInv, Fields
    <3> QED BY <3>2, <3>3, <3>4
  <2> QED BY <2>1, <2>2 DEF TreeInv
<1> HIDE DEF linked
<1> QED BY <1>1, <1>2, <1>3 DEF TreeInv

\* Taking out a node that has a next one, which is therefore a file.
LEMMA Unlink ==
  ASSUME NEW t, NEW c \in Cells, TreeInv(t), t[c].next # DNULL
  PROVE  TreeInv(Unlinked(t, c))
<1> DEFINE prev == t[c].prev
           next == t[c].next
           linked == IF t[prev].dflag THEN [t EXCEPT ![prev].fold = next]
                                      ELSE [t EXCEPT ![prev].next = next]
           back == [linked EXCEPT ![next].prev = prev]
<1>1. Unlinked(t, c) = [back EXCEPT ![c] = Unused]
  BY DEF Unlinked
<1> HIDE DEF prev, next
<1>2. TreeInv(linked)
  <2>1. linked = [x \in Cells |-> linked[x]]
    BY DEF TreeInv
  <2>2. ASSUME NEW x \in Cells PROVE NodeInv(linked[x])
    <3>1. NodeInv(t[x])
      BY DEF TreeInv
    <3>2. CASE x # prev
      BY <3>1, <3>2 DEF TreeInv
    <3>3. CASE x = prev /\ t[prev].dflag
      <4>1. linked[x] = [t[x] EXCEPT !.fold = next]
        BY <3>3 DEF TreeInv
      <4> QED BY <3>1, <3>3, <4>1 DEF NodeInv, Fields
    <3>4. CASE x = prev /\ ~t[prev].dflag
      <4>1. linked[x] = [t[x] EXCEPT !.next = next]
        BY <3>4 DEF TreeInv
      <4> QED BY <3>1, <3>4, <4>1 DEF NodeInv, Fields
    <3> QED BY <3>2, <3>3, <3>4
  <2> QED BY <2>1, <2>2 DEF TreeInv
<1> HIDE DEF linked
<1>3. TreeInv(back)
  <2>1. back = [x \in Cells |-> back[x]]
    BY <1>2 DEF TreeInv
  <2>2. ASSUME NEW x \in Cells PROVE NodeInv(back[x])
    <3>1. NodeInv(linked[x])
      BY <1>2 DEF TreeInv
    <3>2. CASE x # next
      BY <1>2, <3>1, <3>2 DEF TreeInv
    <3>3. CASE x = next
      <4>1. back[x] = [linked[x] EXCEPT !.prev = prev]
        BY <1>2, <3>3 DEF TreeInv
      <4> QED BY <3>1, <4>1 DEF NodeInv, Fields
    <3> QED BY <3>2, <3>3
  <2> QED BY <2>1, <2>2 DEF TreeInv
<1> HIDE DEF back
<1> QED BY <1>1, <1>3, UnusedInv DEF TreeInv

LEMMA InitInv == Init => Inv
BY NewTreeInv DEF Init, Inv, NeverWalks, ninitialize

LEMMA CrashInv == Crash => Inv'
BY NewTreeInv DEF Crash, Inv, NeverWalks, ninitialize

LEMMA AddInv ==
  ASSUME Inv, NEW name, NEW dflag, NEW p, Add(name, dflag, p)
  PROVE  Inv'
<1> DEFINE line == [fname |-> name, dflag |-> dflag, loc |-> p]
<1>1. CASE Crash
  BY <1>1, CrashInv
<1>2. CASE addnode(tree, line) # <<>> /\ tree' = addnode(tree, line) /\ status' = status
  BY <1>2, AddNode DEF Inv, NeverWalks
<1> QED BY <1>1, <1>2 DEF Add

LEMMA RemovefileInv ==
  ASSUME Inv, NEW p, removefile(p)
  PROVE  Inv'
<1> DEFINE c == search(tree, p)
<1>1. CASE Crash
  BY <1>1, CrashInv
<1>2. CASE /\ c \in Cells /\ tree[c].next # DNULL
           /\ tree' = Unlinked(tree, c) /\ status' = status
  BY <1>2, Unlink DEF Inv, NeverWalks
<1> QED BY <1>1, <1>2 DEF removefile

\* What removefold finds is not in the tree, or has no next sibling, or has
\* nothing in it.
LEMMA RemovefoldInv ==
  ASSUME Inv, NEW p, removefold(p)
  PROVE  Inv'
<1> DEFINE c == search(tree, p)
<1>1. CASE Crash
  BY <1>1, CrashInv
<1>2. CASE c \in Cells /\ tree[c].next # DNULL /\ tree[c].fold # DNULL
  BY <1>2 DEF Inv, TreeInv, NodeInv
<1> QED BY <1>1, <1>2 DEF removefold

LEMMA ReadInv ==
  ASSUME Inv, ReadLine
  PROVE  Inv'
<1> DEFINE line == file[read + 1]
<1>1. CASE Crash
  BY <1>1, CrashInv
<1>2. CASE addnode(tree, line) # <<>> /\ tree' = addnode(tree, line) /\ status' = status
  BY <1>2, AddNode DEF Inv, NeverWalks
<1> QED BY <1>1, <1>2 DEF ReadLine

\* removefold does not reach its walk, whatever the cells, names and paths.
THEOREM RemovefoldNeverWalks == Spec => []NeverWalks
<1>1. Inv /\ [Next]_vars => Inv'
  <2> SUFFICES ASSUME Inv, [Next]_vars PROVE Inv'
    OBVIOUS
  <2>1. CASE \E p \in Paths, name \in Names, dflag \in BOOLEAN : Add(name, dflag, p)
    BY <2>1, AddInv
  <2>2. CASE \E p \in Paths : removefile(p)
    BY <2>2, RemovefileInv
  <2>3. CASE \E p \in Paths : removefold(p)
    BY <2>3, RemovefoldInv
  <2>4. CASE \E n \in 1..MaxStores : Restart(n)
    BY <2>4, NewTreeInv DEF Restart, Inv, NeverWalks
  <2>5. CASE ReadLine
    BY <2>5, ReadInv
  <2>6. CASE EndOfFile
    BY <2>6 DEF EndOfFile, Inv, NeverWalks
  <2>7. CASE Start
    BY <2>7, NewTreeInv DEF Start, Inv, NeverWalks, ninitialize
  <2>8. CASE UNCHANGED vars
    BY <2>8 DEF vars, Inv, NeverWalks
  <2> QED BY <2>1, <2>2, <2>3, <2>4, <2>5, <2>6, <2>7, <2>8 DEF Next
<1>2. Inv => NeverWalks
  BY DEF Inv
<1> QED BY InitInv, <1>1, <1>2, PTL DEF Spec

-----------------------------------------------------------------------------
(* Numbers, and functions defined by recursion on them.                     *)

\* A set of numbers that is not empty has a least element.
LEMMA Least ==
  ASSUME NEW T \in SUBSET Nat, T # {}
  PROVE  \E m \in T : \A k \in T : m <= k
<1> DEFINE R == OpToRel(<, Nat)
<1>1. IsWellFoundedOn(R, Nat)
  BY NatLessThanWellFounded
<1>2. \A x, y \in Nat : x < y => <<x, y>> \in R
  BY DEF OpToRel
<1> HIDE DEF R
<1>3. PICK m \in T : \A k \in T : ~ (<<k, m>> \in R)
  BY <1>1, WFMin
<1>4. ASSUME NEW k \in T PROVE m <= k
  <2>1. m \in Nat /\ k \in Nat
    OBVIOUS
  <2>2. ~ (k < m)
    BY <1>2, <1>3, <2>1
  <2> QED
    BY <2>1, <2>2
<1> QED
  BY <1>4

\* What the first one has and each one hands on, all have.
LEMMA HandedOn ==
  ASSUME NEW n \in Nat, NEW Has,
         n > 0 => 1 \in Has,
         \A i \in 1..n : i > 1 /\ i - 1 \in Has => i \in Has
  PROVE  1..n \subseteq Has
<1> DEFINE Bad == {i \in 1..n : i \notin Has}
<1> SUFFICES ASSUME Bad # {} PROVE FALSE
  OBVIOUS
<1>1. PICK m \in Bad : \A k \in Bad : m <= k
  <2>1. Bad \in SUBSET Nat
    OBVIOUS
  <2> QED
    BY <2>1, Least
<1>2. m \in Nat /\ m \in 1..n /\ m \notin Has /\ n > 0
  BY <1>1
<1>3. CASE m = 1
  BY <1>2, <1>3
<1>4. CASE m > 1
  <2>1. m - 1 \in 1..n /\ ~(m <= m - 1)
    BY <1>2, <1>4
  <2>2. m - 1 \in Has
    BY <1>1, <2>1
  <2> QED
    BY <1>2, <1>4, <2>2
<1> QED
  BY <1>2, <1>3, <1>4

\* Each value of g on 1..n is what the function of its place in F makes of the
\* one before.
Runs(g, n, D, d, F) ==
  /\ g \in [1..n -> D] /\ g[1] = d
  /\ \A i \in 1..n : i > 1 => g[i] = F[i][g[i - 1]]

\* Such a g exists.
LEMMA Iterates ==
  ASSUME NEW n \in Nat, n > 0, NEW D, NEW d \in D, NEW F \in [1..n -> [D -> D]]
  PROVE  \E g : Runs(g, n, D, d, F)
<1> DEFINE Has == {k \in 1..n : \E g : Runs(g, k, D, d, F)}
<1>1. 1 \in Has
  <2> DEFINE h == [i \in 1..1 |-> d]
  <2>1. h \in [1..1 -> D] /\ h[1] = d /\ \A i \in 1..1 : ~(i > 1)
    OBVIOUS
  <2>2. Runs(h, 1, D, d, F)
    BY <2>1 DEF Runs
  <2> HIDE DEF h
  <2> QED
    BY <2>2
<1>2. ASSUME NEW k \in 1..n, k > 1, k - 1 \in Has PROVE k \in Has
  <2>1. PICK g : Runs(g, k - 1, D, d, F)
    BY <1>2
  <2> DEFINE h == [i \in 1..k |-> IF i = k THEN F[k][g[k - 1]] ELSE g[i]]
  <2>2. /\ 1 \in 1..(k - 1) /\ k \in 1..k /\ 1 # k
        /\ \A i \in 1..k : i # k => i \in 1..(k - 1)
        /\ \A i \in 1..k : i > 1 => i - 1 \in 1..(k - 1) /\ i - 1 \in 1..k /\ i - 1 # k
    BY <1>2
  <2>3. g[k - 1] \in D
    BY <1>2, <2>1, <2>2 DEF Runs
  <2>4. h \in [1..k -> D]
    BY <2>1, <2>2, <2>3 DEF Runs
  <2>5. h[1] = d
    BY <1>2, <2>1, <2>2 DEF Runs
  <2>6. ASSUME NEW i \in 1..k, i > 1
        PROVE  h[i] = F[i][h[i - 1]]
    <3>1. h[i - 1] = g[i - 1]
      BY <2>2, <2>6
    <3> QED
      BY <2>1, <2>2, <2>6, <3>1 DEF Runs
  <2>7. Runs(h, k, D, d, F)
    BY <2>4, <2>5, <2>6 DEF Runs
  <2> HIDE DEF h
  <2> QED
    BY <2>7
<1> HIDE DEF Has
<1>3. 1..n \subseteq Has
  BY <1>1, <1>2, HandedOn
<1>4. n \in Has
  BY <1>3
<1> QED
  BY <1>4 DEF Has

-----------------------------------------------------------------------------
(* The cells of a tree.                                                     *)

LEMMA CellsFinite ==
  /\ IsFiniteSet(Cells) /\ Cardinality(Cells) \in Nat /\ Cardinality(Cells) > 0
  /\ DNULL \notin Cells /\ head \in Cells /\ Fault \notin Links
BY DirTreeAssumption, FS_CardinalityType, FS_EmptySet DEF Links

Within(t) ==
  CHOOSE within : within =
    [i \in 1..Cardinality(Cells) |->
       IF i = 1 THEN {head}
       ELSE UNION {{c} \cup Children(t, c) : c \in within[i - 1]}]

\* The cells within some number of links from the head.
LEMMA WithinUnfolds ==
  ASSUME NEW t \in [Cells -> Node]
  PROVE  LET w == Within(t)
             N == Cardinality(Cells)
         IN /\ InTree(t) = w[N]
            /\ w \in [1..N -> SUBSET Cells]
            /\ w[1] = {head}
            /\ \A i \in 1..N : i > 1 =>
                 w[i] = UNION {{c} \cup Children(t, c) : c \in w[i - 1]}
<1> DEFINE N == Cardinality(Cells)
           w == Within(t)
           More(S) == UNION {{c} \cup Children(t, c) : c \in S}
           Def(g) == g = [i \in 1..N |-> IF i = 1 THEN {head} ELSE More(g[i - 1])]
           F == [i \in 1..N |-> [S \in SUBSET Cells |-> More(S)]]
<1>1. N \in Nat /\ N > 0 /\ {head} \in SUBSET Cells
  BY CellsFinite
<1>2. \A S \in SUBSET Cells : More(S) \in SUBSET Cells
  BY DEF Children, Node, Links
<1> HIDE DEF N, More
<1>3. F \in [1..N -> [SUBSET Cells -> SUBSET Cells]]
  BY <1>2
<1>4. PICK g : Runs(g, N, SUBSET Cells, {head}, F)
  <2> HIDE DEF F
  <2> QED
    BY <1>1, <1>3, Iterates
<1>5. Def(g)
  <2>1. ASSUME NEW i \in 1..N, i > 1
        PROVE  g[i] = More(g[i - 1])
    <3>1. i - 1 \in 1..N
      BY <1>1, <2>1
    <3>2. F[i][g[i - 1]] = More(g[i - 1])
      BY <1>4, <3>1 DEF Runs
    <3> QED
      BY <1>4, <2>1, <3>2 DEF Runs
  <2>2. \A i \in 1..N : i = 1 \/ i > 1
    BY <1>1
  <2> HIDE DEF F
  <2> QED
    BY <1>4, <2>1, <2>2 DEF Runs
<1>6. w = CHOOSE h : Def(h)
  BY DEF Within, N, More
<1>7. Def(w)
  BY <1>5, <1>6
<1> HIDE DEF w
<1>8. w[1] = {head} /\ \A i \in 1..N : i > 1 => w[i] = More(w[i - 1])
  BY <1>1, <1>7
<1>9. w \in [1..N -> SUBSET Cells]
  <2> DEFINE Has == {i \in 1..N : w[i] \in SUBSET Cells}
  <2>1. 1 \in Has
    BY <1>1, <1>8
  <2>2. \A i \in 1..N : i > 1 /\ i - 1 \in Has => i \in Has
    BY <1>2, <1>8
  <2> HIDE DEF Has
  <2>3. 1..N \subseteq Has
    BY <1>1, <2>1, <2>2, HandedOn
  <2> QED
    BY <1>7, <2>3 DEF Has
<1>10. InTree(t) = w[N]
  BY DEF InTree, Within, w, N
<1> QED
  BY <1>8, <1>9, <1>10 DEF w, N, More

\* They are the least set that has the head in it and that no link leaves.
Closed(t, S) == \A c \in S : Children(t, c) \subseteq S

LEMMA InTreeLeast ==
  ASSUME NEW t \in [Cells -> Node]
  PROVE  /\ InTree(t) \subseteq Cells /\ head \in InTree(t) /\ Closed(t, InTree(t))
         /\ \A S : head \in S /\ Closed(t, S) => InTree(t) \subseteq S
<1> DEFINE N == Cardinality(Cells)
           w == Within(t)
<1>1. N \in Nat /\ N > 0 /\ IsFiniteSet(Cells)
  BY CellsFinite
<1>2. /\ InTree(t) = w[N] /\ w \in [1..N -> SUBSET Cells] /\ w[1] = {head}
      /\ \A i \in 1..N : i > 1 => w[i] = UNION {{c} \cup Children(t, c) : c \in w[i - 1]}
  BY WithinUnfolds
<1> HIDE DEF N, w
<1>3. \A i \in 1..N : IsFiniteSet(w[i]) /\ Cardinality(w[i]) \in Nat
  BY <1>1, <1>2, FS_Subset, FS_CardinalityType
<1>4. ASSUME NEW i \in 1..N, i > 1
      PROVE  w[i - 1] \subseteq w[i] /\ (w[i] = w[i - 1] <=> Closed(t, w[i - 1]))
  <2>1. w[i] = UNION {{c} \cup Children(t, c) : c \in w[i - 1]}
    BY <1>2, <1>4
  <2> QED
    BY <2>1 DEF Closed
<1>5. \A i \in 1..N : head \in w[i]
  <2> DEFINE Has == {i \in 1..N : head \in w[i]}
  <2>1. 1 \in Has
    BY <1>1, <1>2
  <2>2. \A i \in 1..N : i > 1 /\ i - 1 \in Has => i \in Has
    BY <1>4
  <2> HIDE DEF Has
  <2>3. 1..N \subseteq Has
    BY <1>1, <2>1, <2>2, HandedOn
  <2> QED
    BY <2>3 DEF Has
<1>6. ASSUME NEW S, head \in S, Closed(t, S)
      PROVE  w[N] \subseteq S
  <2> DEFINE Has == {i \in 1..N : w[i] \subseteq S}
  <2>1. 1 \in Has
    BY <1>1, <1>2, <1>6
  <2>2. \A i \in 1..N : i > 1 /\ i - 1 \in Has => i \in Has
    BY <1>2, <1>6 DEF Closed
  <2> HIDE DEF Has
  <2>3. 1..N \subseteq Has
    BY <1>1, <2>1, <2>2, HandedOn
  <2> QED
    BY <1>1, <2>3 DEF Has
    \* As long as a link leads out of them they become more, and there are only so many.
<1>7. Closed(t, w[N])
  <2> DEFINE Has == {i \in 1..N : Closed(t, w[i]) \/ Cardinality(w[i]) >= i}
  <2>1. 1 \in Has
    <3>1. Cardinality(w[1]) = 1
      BY <1>2, FS_Singleton
    <3> QED
      BY <1>1, <3>1
  <2>2. ASSUME NEW i \in 1..N, i > 1, i - 1 \in Has
        PROVE  i \in Has
    <3>1. CASE w[i] = w[i - 1]
      BY <1>4, <2>2, <3>1
    <3>2. CASE w[i] # w[i - 1]
      <4>1. i - 1 \in 1..N /\ w[i - 1] \subseteq w[i]
        BY <1>4, <2>2
      <4>2. Cardinality(w[i - 1]) >= i - 1
        BY <1>4, <2>2, <3>2
      <4>3. Cardinality(w[i - 1]) <= Cardinality(w[i])
            /\ Cardinality(w[i - 1]) # Cardinality(w[i])
        BY <1>3, <3>2, <4>1, FS_Subset
      <4>4. Cardinality(w[i]) >= i
        BY <1>3, <4>1, <4>2, <4>3
      <4> QED
        BY <4>4
    <3> QED
      BY <3>1, <3>2
  <2> HIDE DEF Has
  <2>3. 1..N \subseteq Has
    BY <1>1, <2>1, <2>2, HandedOn
  <2>4. Closed(t, w[N]) \/ Cardinality(w[N]) >= N
    BY <1>1, <2>3 DEF Has
  <2>5. CASE Cardinality(w[N]) >= N
    <3>1. N \in 1..N /\ w[N] \subseteq Cells
      BY <1>1, <1>2
    <3>2. Cardinality(w[N]) <= N /\ (Cardinality(w[N]) = N => w[N] = Cells)
      BY <1>1, <3>1, FS_Subset DEF N
    <3>3. w[N] = Cells
      BY <1>1, <1>3, <2>5, <3>1, <3>2
    <3> QED
      BY <3>3 DEF Closed, Children, Node, Links
  <2> QED
    BY <2>4, <2>5
<1> QED
  BY <1>1, <1>2, <1>5, <1>6, <1>7

-----------------------------------------------------------------------------
(* A tree whose links agree.                                                *)

\* The links of the nodes in the tree agree with their prev.
Agreeing(t) ==
  /\ t \in [Cells -> Node]
  /\ t[head].used /\ t[head].prev = DNULL
  /\ \A c \in InTree(t) : t[c].used
  /\ \A c \in InTree(t) : \A x \in Children(t, c) : t[x].prev = c

LEMMA ChildrenInTree ==
  ASSUME NEW t, Agreeing(t), NEW c \in InTree(t)
  PROVE  /\ c \in Cells /\ Children(t, c) \subseteq InTree(t)
         /\ t[c].next \in InTree(t) \cup {DNULL} /\ t[c].fold \in InTree(t) \cup {DNULL}
         /\ head \notin Children(t, c)
<1>1. InTree(t) \subseteq Cells /\ Closed(t, InTree(t))
  BY InTreeLeast DEF Agreeing
<1>2. t[head].prev # c
  BY <1>1, CellsFinite DEF Agreeing
<1> QED
  BY <1>1, <1>2 DEF Closed, Children, Agreeing

\* Every node of the tree but the head is in or behind the one its prev names.
LEMMA ParentInTree ==
  ASSUME NEW t, Agreeing(t), NEW c \in InTree(t), c # head
  PROVE  t[c].prev \in InTree(t) /\ c \in Children(t, t[c].prev)
<1>1. PICK p \in InTree(t) : c \in Children(t, p)
  <2> DEFINE S == InTree(t) \ {c}
  <2>1. SUFFICES ASSUME \A p \in InTree(t) : c \notin Children(t, p) PROVE FALSE
    OBVIOUS
  <2>2. head \in S
    BY InTreeLeast DEF Agreeing
  <2>3. Closed(t, S)
    BY <2>1, ChildrenInTree DEF Closed
  <2> HIDE DEF S
  <2>4. InTree(t) \subseteq S
    BY <2>2, <2>3, InTreeLeast DEF Agreeing
  <2> QED
    BY <2>4 DEF S
<1> QED
  BY <1>1 DEF Agreeing

\* No nodes of the tree have their parents among themselves only: what the head
\* leads to can be reached without them.
LEMMA NoCycle ==
  ASSUME NEW t, Agreeing(t), NEW K, K \subseteq InTree(t),
         \A x \in K : \E p \in K : x \in Children(t, p)
  PROVE  K = {}
<1> DEFINE S == InTree(t) \ K
<1>1. \A p \in InTree(t), x \in InTree(t) : x \in Children(t, p) => t[x].prev = p
  BY DEF Agreeing
<1>2. head \in S
  BY ChildrenInTree, InTreeLeast DEF Agreeing
<1>3. Closed(t, S)
  <2> SUFFICES ASSUME NEW c \in S, NEW x \in Children(t, c), x \in K PROVE FALSE
    BY ChildrenInTree DEF Closed
  <2>1. PICK p \in K : x \in Children(t, p)
    OBVIOUS
  <2>2. t[x].prev = c /\ t[x].prev = p
    BY <1>1, <2>1
  <2> QED
    BY <2>2
<1> HIDE DEF S
<1>4. InTree(t) \subseteq S
  BY <1>2, <1>3, InTreeLeast DEF Agreeing
<1> QED
  BY <1>4 DEF S

\* A walk along links comes to its end before it has been at more cells than there are.
LEMMA WalksEnd ==
  ASSUME NEW t, Agreeing(t), NEW at,
         at \in [1..(Cardinality(Cells) + 1) -> InTree(t)],
         \A i \in 1..(Cardinality(Cells) + 1) : i > 1 => at[i] \in Children(t, at[i - 1])
  PROVE  FALSE
<1> DEFINE N == Cardinality(Cells)
<1>1. N \in Nat /\ IsFiniteSet(Cells) /\ InTree(t) \subseteq Cells
  BY CellsFinite, InTreeLeast DEF Agreeing
<1>2. IsFiniteSet(1..(N + 1)) /\ Cardinality(1..(N + 1)) = N + 1
  BY <1>1, FS_Interval
<1>3. at \in [1..(N + 1) -> Cells] /\ N < N + 1
  BY <1>1
<1> HIDE DEF N
<1>4. PICK i \in 1..(N + 1), j \in 1..(N + 1) : i # j /\ at[i] = at[j]
  <2>1. \E x, y \in 1..(N + 1) : x # y /\ at[x] = at[y]
    BY <1>1, <1>2, <1>3, FS_PigeonHole DEF N
  <2> QED
    BY <2>1
<1>5. ASSUME NEW a \in 1..(N + 1), NEW b \in 1..(N + 1), a < b, at[a] = at[b]
      PROVE  FALSE
  <2> DEFINE K == {at[k] : k \in a..b}
  <2>1. \A k \in a..b : k \in 1..(N + 1)
    BY <1>1
  <2>2. K \subseteq InTree(t) /\ at[a] \in K
    BY <1>1, <1>5, <2>1 DEF N
  <2>3. ASSUME NEW k \in a..b PROVE \E p \in K : at[k] \in Children(t, p)
    <3>1. CASE k > a
      <4>1. k - 1 \in a..b /\ k > 1 /\ k \in 1..(N + 1)
        BY <1>1, <3>1
      <4>2. at[k] \in Children(t, at[k - 1])
        BY <4>1 DEF N
      <4> QED
        BY <4>1, <4>2
    <3>2. CASE k = a
      <4>1. b - 1 \in a..b /\ b > 1
        BY <1>1, <1>5
      <4>2. at[b] \in Children(t, at[b - 1])
        BY <4>1 DEF N
      <4> QED
        BY <1>5, <3>2, <4>1, <4>2
    <3> QED
      BY <1>1, <3>1, <3>2
  <2>4. \A x \in K : \E p \in K : x \in Children(t, p)
    BY <2>3
  <2> HIDE DEF K
  <2> QED
    BY <2>2, <2>4, NoCycle
<1> QED
  BY <1>1, <1>4, <1>5
-----------------------------------------------------------------------------
(* What searches find.                                                      *)

\* A walk over next siblings, inside the tree until it ends.
LEMMA SiblingsUnfold ==
  ASSUME NEW t, Agreeing(t), NEW c \in InTree(t) \cup {DNULL}
  PROVE  LET at == Siblings(t, c)
             n == Cardinality(Cells) + 1
         IN /\ at \in [1..n -> InTree(t) \cup {DNULL}]
            /\ at[1] = c /\ \A i \in 1..n : i > 1 => at[i] = NextOf(t, at[i - 1])
<1> DEFINE n == Cardinality(Cells) + 1
           D == InTree(t) \cup {DNULL}
           F == [i \in 1..n |-> [x \in D |-> NextOf(t, x)]]
           Def(g) == g = [i \in 1..n |-> IF i = 1 THEN c ELSE NextOf(t, g[i - 1])]
           at == Siblings(t, c)
<1>1. n \in Nat /\ n > 0
  BY CellsFinite
<1>2. \A x \in D : NextOf(t, x) \in D
  BY ChildrenInTree, CellsFinite DEF NextOf
<1> HIDE DEF n, D
<1>3. F \in [1..n -> [D -> D]] /\ c \in D
  BY <1>2 DEF D
<1>4. PICK g : Runs(g, n, D, c, F)
  <2> HIDE DEF F
  <2> QED
    BY <1>1, <1>3, Iterates
<1>5. Def(g)
  <2>1. ASSUME NEW i \in 1..n, i > 1
        PROVE  g[i] = NextOf(t, g[i - 1])
    <3>1. i - 1 \in 1..n
      BY <1>1, <2>1
    <3>2. F[i][g[i - 1]] = NextOf(t, g[i - 1])
      BY <1>4, <3>1 DEF Runs
    <3> QED
      BY <1>4, <2>1, <3>2 DEF Runs
  <2>2. \A i \in 1..n : i = 1 \/ i > 1
    BY <1>1
  <2> HIDE DEF F
  <2> QED
    BY <1>4, <2>1, <2>2 DEF Runs
<1>6. at = CHOOSE g1 : Def(g1)
  BY DEF Siblings, n
<1>7. Def(at)
  BY <1>5, <1>6
<1> HIDE DEF at, F
<1>8. at[1] = c /\ \A i \in 1..n : i > 1 => at[i] = NextOf(t, at[i - 1])
  BY <1>1, <1>7
<1>9. at \in [1..n -> D]
  <2> DEFINE Has == {i \in 1..n : at[i] \in D}
  <2>1. 1 \in Has
    BY <1>1, <1>3, <1>8
  <2>2. \A i \in 1..n : i > 1 /\ i - 1 \in Has => i \in Has
    BY <1>2, <1>8
  <2> HIDE DEF Has
  <2>3. 1..n \subseteq Has
    BY <1>1, <2>1, <2>2, HandedOn
  <2> QED
    BY <1>7, <2>3 DEF Has
<1> QED
  BY <1>8, <1>9 DEF n, D, at

LEMMA NamedInTree ==
  ASSUME NEW t, Agreeing(t), NEW c \in InTree(t) \cup {DNULL}, NEW name
  PROVE  Named(t, c, name) \in InTree(t) \cup {DNULL}
<1> DEFINE n == Cardinality(Cells) + 1
           at == Siblings(t, c)
           called == {i \in DOMAIN at : at[i] # DNULL /\ t[at[i]].fname = name}
<1>1. n \in Nat /\ at \in [1..n -> InTree(t) \cup {DNULL}]
  BY CellsFinite, SiblingsUnfold
<1> HIDE DEF n, at
<1>2. ASSUME called # {}
      PROVE  at[CHOOSE i \in called : \A j \in called : i <= j] \in InTree(t) \cup {DNULL}
  <2>1. called \in SUBSET Nat /\ called \subseteq 1..n
    BY <1>1
  <2>2. \E m \in called : \A k \in called : m <= k
    BY <1>2, <2>1, Least
  <2> QED
    BY <1>1, <2>1, <2>2
<1> QED
  BY <1>2 DEF Named, FirstOf, at

\* The last sibling: there is one.
LEMMA LastSibling ==
  ASSUME NEW t, Agreeing(t), NEW c \in InTree(t)
  PROVE  LET at == Siblings(t, c)
         IN \E i \in DOMAIN at : at[i] # DNULL /\ t[at[i]].next = DNULL
<1> DEFINE N == Cardinality(Cells)
           at == Siblings(t, c)
<1>1. N \in Nat /\ DNULL \notin InTree(t)
  BY CellsFinite, InTreeLeast DEF Agreeing
<1>2. /\ at \in [1..(N + 1) -> InTree(t) \cup {DNULL}]
      /\ at[1] = c /\ \A i \in 1..(N + 1) : i > 1 => at[i] = NextOf(t, at[i - 1])
  BY SiblingsUnfold
<1> HIDE DEF at
<1> SUFFICES ASSUME \A i \in 1..(N + 1) : at[i] # DNULL => t[at[i]].next # DNULL
             PROVE  FALSE
  BY <1>2 DEF at
<1>3. ASSUME NEW i \in 1..(N + 1), i > 1, at[i - 1] \in InTree(t)
      PROVE  at[i] \in InTree(t) /\ at[i] \in Children(t, at[i - 1])
  <2>1. i - 1 \in 1..(N + 1)
    BY <1>1, <1>3
  <2>2. at[i] = t[at[i - 1]].next /\ at[i] # DNULL
    BY <1>1, <1>2, <1>3, <2>1 DEF NextOf
  <2> QED
    BY <1>2, <1>3, <2>2 DEF Children
<1>4. \A i \in 1..(N + 1) : at[i] \in InTree(t)
  <2> DEFINE Has == {i \in 1..(N + 1) : at[i] \in InTree(t)}
  <2>1. 1 \in Has /\ N + 1 \in Nat
    BY <1>1, <1>2
  <2>2. \A i \in 1..(N + 1) : i > 1 /\ i - 1 \in Has => i \in Has
    BY <1>3
  <2> HIDE DEF Has
  <2>3. 1..(N + 1) \subseteq Has
    BY <2>1, <2>2, HandedOn
  <2> QED
    BY <2>3 DEF Has
<1>5. \A i \in 1..(N + 1) : i > 1 => at[i] \in Children(t, at[i - 1])
  <2>1. \A i \in 1..(N + 1) : i > 1 => i - 1 \in 1..(N + 1)
    BY <1>1
  <2> QED
    BY <1>3, <1>4, <2>1
<1>6. at \in [1..(N + 1) -> InTree(t)]
  BY <1>2, <1>4
<1> QED
  BY <1>5, <1>6, WalksEnd

\* The node that each folder of a path leads to, and what is found from the last.
Folders(t, c, path, folder) ==
  LET n == Len(path)
  IN /\ folder \in [1..(n - 1) -> InTree(t) \cup {DNULL}]
     /\ n > 1 => folder[1] = Named(t, c, path[1])
     /\ \A i \in 1..(n - 1) : i > 1 => folder[i] = Named(t, FoldOf(t, folder[i - 1]), path[i])
     /\ searchloc(t, c, path) =
          IF n = 1 THEN LastName(t, c, path[1])
          ELSE IF folder[n - 1] = DNULL THEN DNULL
          ELSE LastName(t, t[folder[n - 1]].fold, path[n])

LEMMA SearchlocUnfolds ==
  ASSUME NEW t, Agreeing(t), NEW c \in InTree(t), NEW path, Len(path) \in Nat, Len(path) > 0
  PROVE  \E folder : Folders(t, c, path, folder)
<1> DEFINE n == Len(path)
           D == InTree(t) \cup {DNULL}
           Inside(x, i) == Named(t, FoldOf(t, x), path[i])
           F == [i \in 1..(n - 1) |-> [x \in D |-> Inside(x, i)]]
           Def(g) == g = [i \in 1..(n - 1) |->
                            Named(t, IF i = 1 THEN c ELSE FoldOf(t, g[i - 1]), path[i])]
           folder == CHOOSE g : Def(g)
<1>1. n \in Nat /\ n > 0
  OBVIOUS
<1> HIDE DEF n
<1>2. \A x \in D : FoldOf(t, x) \in D
  BY ChildrenInTree, CellsFinite DEF FoldOf
<1>3. \A x \in D, i \in 1..(n - 1) : Inside(x, i) \in D
  BY <1>2, NamedInTree
<1>4. Named(t, c, path[1]) \in D
  BY NamedInTree
<1>5. searchloc(t, c, path) =
        IF n = 1 THEN LastName(t, c, path[1])
        ELSE IF folder[n - 1] = DNULL THEN DNULL
        ELSE LastName(t, t[folder[n - 1]].fold, path[n])
  BY DEF searchloc, n
<1>6. CASE n = 1
  <2> DEFINE none == [i \in 1..0 |-> DNULL]
  <2>1. Folders(t, c, path, none)
    <3>1. n - 1 = 0 /\ 1..0 = {}
      BY <1>6
    <3>2. none \in [1..0 -> InTree(t) \cup {DNULL}]
      OBVIOUS
    <3> HIDE DEF none, folder
    <3> QED
      BY <1>5, <1>6, <3>1, <3>2 DEF Folders, n
  <2> HIDE DEF none
  <2> QED
    BY <2>1
<1>7. CASE n > 1
  <2> HIDE DEF D, Inside
  <2>1. n - 1 \in Nat /\ n - 1 > 0 /\ F \in [1..(n - 1) -> [D -> D]]
    BY <1>1, <1>3, <1>7
  <2>2. PICK g : Runs(g, n - 1, D, Named(t, c, path[1]), F)
    <3> HIDE DEF F
    <3> QED
      BY <1>4, <2>1, Iterates
  <2>3. Def(g)
    <3>1. ASSUME NEW i \in 1..(n - 1), i > 1
          PROVE  g[i] = Inside(g[i - 1], i)
      <4>1. i - 1 \in 1..(n - 1)
        BY <1>1, <3>1
      <4>2. F[i][g[i - 1]] = Inside(g[i - 1], i)
        BY <2>2, <4>1 DEF Runs
      <4> QED
        BY <2>2, <3>1, <4>2 DEF Runs
    <3>2. \A i \in 1..(n - 1) : i = 1 \/ i > 1
      BY <1>1
    <3> HIDE DEF F
    <3> QED
      BY <2>2, <3>1, <3>2 DEF Runs, Inside
  <2>4. Def(folder)
    BY <2>3
  <2> HIDE DEF folder, F
  <2>5. /\ folder[1] = Named(t, c, path[1])
        /\ \A i \in 1..(n - 1) : i > 1 => folder[i] = Inside(folder[i - 1], i)
    BY <2>1, <2>4 DEF Inside
  <2> DEFINE Has == {i \in 1..(n - 1) : folder[i] \in D}
  <2>6. 1 \in Has
    BY <1>4, <2>1, <2>5
  <2>7. \A i \in 1..(n - 1) : i > 1 /\ i - 1 \in Has => i \in Has
    BY <1>3, <2>5
  <2> HIDE DEF Has
  <2>8. 1..(n - 1) \subseteq Has
    BY <2>1, <2>6, <2>7, HandedOn
  <2>9. folder \in [1..(n - 1) -> D]
    BY <2>4, <2>8 DEF Has
  <2> QED
    BY <1>5, <2>5, <2>9 DEF Folders, n, D, Inside
<1> QED
  BY <1>1, <1>6, <1>7

LEMMA SearchlocInTree ==
  ASSUME NEW t, Agreeing(t), NEW c \in InTree(t), NEW path, Len(path) \in Nat, Len(path) > 0
  PROVE  searchloc(t, c, path) \in InTree(t) \cup {DNULL, Fault}
<1> DEFINE n == Len(path)
           D == InTree(t) \cup {DNULL}
<1>1. PICK folder : Folders(t, c, path, folder)
  BY SearchlocUnfolds
<1>2. head \in InTree(t)
  BY InTreeLeast DEF Agreeing
<1>3. ASSUME NEW first \in D, NEW name
      PROVE  LastName(t, first, name) \in D \cup {Fault}
  <2>1. CASE name = home \/ first = DNULL
    BY <1>2, <2>1 DEF LastName
  <2>2. CASE name # home /\ first # DNULL
    <3>1. t[head].fold \in D
      BY <1>2, ChildrenInTree
    <3>2. Named(t, IF t[first].fname = home THEN t[head].fold ELSE first, name) \in D
      BY <3>1, NamedInTree
    <3> QED
      BY <2>2, <3>2 DEF LastName
  <2> QED
    BY <2>1, <2>2
<1>4. CASE n = 1
  BY <1>1, <1>3, <1>4 DEF Folders
<1>5. CASE n > 1 /\ folder[n - 1] = DNULL
  BY <1>1, <1>5 DEF Folders
<1>6. CASE n > 1 /\ folder[n - 1] # DNULL
  <2>1. n - 1 \in 1..(n - 1) /\ folder[n - 1] \in D
    <3>1. n \in Nat /\ folder \in [1..(n - 1) -> D]
      BY <1>1 DEF Folders
    <3>2. n - 1 \in 1..(n - 1)
      BY <1>6, <3>1
    <3> QED
      BY <3>1, <3>2
  <2>2. t[folder[n - 1]].fold \in D
    BY <1>6, <2>1, ChildrenInTree
  <2> QED
    BY <1>1, <1>3, <1>6, <2>2 DEF Folders
<1>7. n \in Nat /\ n > 0
  OBVIOUS
<1> HIDE DEF n, D
<1> QED
  BY <1>4, <1>5, <1>6, <1>7 DEF D

LEMMA PathLength ==
  ASSUME NEW path \in Locs
  PROVE  Len(path) \in Nat /\ Len(path) > 0
<1>1. CASE path = <<Top>>
  BY <1>1
<1>2. CASE path \in Paths
  <2>1. path \in Seq(Names \cup {home}) /\ path # <<>>
    BY <1>2, DirTreeAssumption
  <2> QED
    BY <2>1, EmptySeq, LenProperties
<1> QED
  BY <1>1, <1>2 DEF Locs

LEMMA SearchInTree ==
  ASSUME NEW t, Agreeing(t), NEW path \in Locs
  PROVE  search(t, path) \in InTree(t) \cup {DNULL, Fault}
<1>1. head \in InTree(t)
  BY InTreeLeast DEF Agreeing
<1> QED
  BY <1>1, PathLength, SearchlocInTree DEF search

\* A new node goes behind a node that is the last in its folder, or into a folder
\* that is empty, or behind a file that was taken for a folder.
LEMMA SearchlastInTree ==
  ASSUME NEW t, Agreeing(t), NEW path \in Locs, searchlast(t, path) # Fault
  PROVE  LET folder == search(t, path)
             last   == searchlast(t, path)
         IN /\ folder \in InTree(t) /\ last \in InTree(t)
            /\ \/ last = folder /\ t[folder].fold = DNULL
               \/ last # folder /\ t[last].next = DNULL
<1> DEFINE folder == search(t, path)
           at == Siblings(t, t[folder].fold)
           n == Cardinality(Cells) + 1
           i == CHOOSE j \in DOMAIN at : at[j] # DNULL /\ t[at[j]].next = DNULL
<1>1. folder \in InTree(t)
  <2>1. folder \in Cells
    BY DEF searchlast, LastIn, LastOf
  <2> QED
    BY <2>1, SearchInTree, CellsFinite DEF Links
<1> HIDE DEF folder
<1>2. folder \in Cells /\ n \in Nat /\ InTree(t) \subseteq Cells /\ DNULL \notin InTree(t)
  BY <1>1, CellsFinite, InTreeLeast DEF Agreeing
<1>3. CASE t[folder].fold = DNULL
  BY <1>1, <1>2, <1>3 DEF searchlast, LastIn, LastOf, folder
<1>4. CASE t[folder].fold # DNULL
  <2>1. t[folder].fold \in InTree(t) /\ t[folder].fold \in Children(t, folder)
    BY <1>1, <1>4, ChildrenInTree DEF Children
  <2>2. /\ at \in [1..n -> InTree(t) \cup {DNULL}] /\ at[1] = t[folder].fold
        /\ \A j \in 1..n : j > 1 => at[j] = NextOf(t, at[j - 1])
    BY <2>1, SiblingsUnfold
  <2>3. \E j \in DOMAIN at : at[j] # DNULL /\ t[at[j]].next = DNULL
    BY <2>1, LastSibling
  <2>4. searchlast(t, path) = at[i]
    BY <1>2, <1>4 DEF searchlast, LastIn, LastOf, folder
  <2> HIDE DEF n, at
  <2>5. i \in 1..n /\ at[i] # DNULL /\ t[at[i]].next = DNULL
    BY <2>2, <2>3
  <2> HIDE DEF i
  <2>6. at[i] # folder
    <3> SUFFICES ASSUME at[i] = folder PROVE FALSE
      OBVIOUS
    <3> DEFINE K == {at[j] : j \in 1..n} \ {DNULL}
    <3>1. K \subseteq InTree(t) /\ folder \in K
      BY <1>2, <2>2, <2>5
    <3>2. ASSUME NEW j \in 1..n, at[j] # DNULL PROVE \E p \in K : at[j] \in Children(t, p)
      <4>1. CASE j = 1
        BY <2>1, <2>2, <3>1, <4>1
      <4>2. CASE j > 1
        <5>1. j - 1 \in 1..n /\ at[j] = NextOf(t, at[j - 1])
          BY <1>2, <2>2, <4>2 DEF n
        <5>2. at[j - 1] # DNULL /\ at[j] = t[at[j - 1]].next
          BY <3>2, <5>1 DEF NextOf
        <5> QED
          BY <3>2, <5>1, <5>2 DEF Children
      <4> QED
        BY <1>2, <4>1, <4>2 DEF n
    <3>3. \A x \in K : \E p \in K : x \in Children(t, p)
      BY <3>2
    <3> HIDE DEF K
    <3> QED
      BY <3>1, <3>3, NoCycle
  <2>7. at[i] \in InTree(t)
    BY <2>2, <2>5
  <2> QED
    BY <1>1, <2>4, <2>5, <2>6, <2>7 DEF folder
<1> QED
  BY <1>3, <1>4

-----------------------------------------------------------------------------
(* Operations keep a tree one.                                              *)

LEMMA CreateNodeType ==
  ASSUME NEW line \in Lines, NEW prev \in Links
  PROVE  create_node(line, prev) \in Node
BY DEF create_node, Lines, Node, Links

LEMMA UnusedType == Unused \in Node
BY DEF Unused, Node, Locs, Links

\* A new tree consists of its head.
LEMMA NewTreeAgrees ==
  ASSUME NEW line \in Lines
  PROVE  Agreeing(NewTree(line))
<1> DEFINE t == NewTree(line)
<1>1. t \in [Cells -> Node]
  BY CreateNodeType, UnusedType DEF NewTree, Links
<1>2. t[head].used /\ t[head].prev = DNULL /\ Children(t, head) = {}
  BY CellsFinite DEF NewTree, create_node, Children
<1> HIDE DEF t
<1>3. InTree(t) \subseteq {head}
  <2>1. Closed(t, {head})
    BY <1>2 DEF Closed
  <2> QED
    BY <1>1, <2>1, InTreeLeast
<1> QED
  BY <1>1, <1>2, <1>3 DEF Agreeing, t

LEMMA HeadLineType == HeadLine \in Lines
BY DEF HeadLine, Lines, Locs

\* The tree with a new node, by cases of where it goes.
LEMMA Added ==
  ASSUME NEW t, TreeInv(t), Agreeing(t), NEW line \in Lines,
         \E c \in Cells : ~t[c].used, addnode(t, line) # <<>>
  PROVE  LET u    == addnode(t, line)
             last == searchlast(t, line.loc)
             new  == malloc(t)
         IN /\ last # Fault /\ last \in InTree(t) /\ new \in Cells \ InTree(t) /\ new # head
            /\ u \in [Cells -> Node] /\ u[new] = create_node(line, last)
            /\ \A c \in Cells \ {last, new} : u[c] = t[c]
            /\ u[last] = IF t[last].dflag THEN [t[last] EXCEPT !.fold = new]
                                          ELSE [t[last] EXCEPT !.next = new]
<1> DEFINE last == searchlast(t, line.loc)
           new == malloc(t)
           linked == IF t[last].dflag THEN [t EXCEPT ![last].fold = new]
                                      ELSE [t EXCEPT ![last].next = new]
           node == create_node(line, last)
           u == addnode(t, line)
<1>1. last # Fault /\ u = [linked EXCEPT ![new] = node]
  BY DEF addnode
<1>2. last \in InTree(t) /\ last \in Cells
  <2>1. line.loc \in Locs
    BY DEF Lines
  <2> QED
    BY <1>1, <2>1, SearchlastInTree, InTreeLeast DEF Agreeing
<1>3. new \in Cells \ InTree(t) /\ new # head
  BY DEF malloc, Agreeing
<1>4. node \in Node
  BY <1>2, CreateNodeType DEF Links
<1> HIDE DEF last, new, node, u
<1>5. linked \in [Cells -> Node] /\ t \in [Cells -> Node]
  <2>1. t[last] \in Node /\ new \in Links
    BY <1>2, <1>3 DEF Agreeing, Links
  <2>2. [t[last] EXCEPT !.fold = new] \in Node /\ [t[last] EXCEPT !.next = new] \in Node
    BY <2>1 DEF Node
  <2> QED
    BY <2>2 DEF Agreeing
<1>6. /\ \A c \in Cells \ {last} : linked[c] = t[c]
      /\ linked[last] = IF t[last].dflag THEN [t[last] EXCEPT !.fold = new]
                                         ELSE [t[last] EXCEPT !.next = new]
  BY <1>2, <1>5
<1> HIDE DEF linked
<1>7. u \in [Cells -> Node] /\ u[new] = node /\ \A c \in Cells \ {new} : u[c] = linked[c]
  BY <1>1, <1>3, <1>4, <1>5
<1> QED
  BY <1>1, <1>2, <1>3, <1>6, <1>7 DEF last, new, node, u

LEMMA AddAgrees ==
  ASSUME NEW t, TreeInv(t), Agreeing(t), NEW line \in Lines,
         \E c \in Cells : ~t[c].used, addnode(t, line) # <<>>
  PROVE  Agreeing(addnode(t, line))
<1> DEFINE u == addnode(t, line)
           last == searchlast(t, line.loc)
           new == malloc(t)
           S == InTree(t) \cup {new}
<1>1. /\ last \in InTree(t) /\ new \in Cells \ InTree(t) /\ new # head
      /\ u \in [Cells -> Node] /\ u[new] = create_node(line, last)
      /\ \A c \in Cells \ {last, new} : u[c] = t[c]
      /\ u[last] = IF t[last].dflag THEN [t[last] EXCEPT !.fold = new]
                                    ELSE [t[last] EXCEPT !.next = new]
  BY Added
<1>2. InTree(t) \subseteq Cells /\ head \in InTree(t) /\ t \in [Cells -> Node]
  BY InTreeLeast DEF Agreeing
<1> HIDE DEF u, last, new
<1>3. t[last] \in Node /\ (t[last].dflag => t[last].next = DNULL)
                       /\ (~t[last].dflag => t[last].fold = DNULL)
  BY <1>1, <1>2 DEF TreeInv, NodeInv
<1>4. Children(u, last) = {new} /\ last # new /\ new # DNULL
  BY <1>1, <1>2, <1>3, CellsFinite DEF Children, Node
<1>5. Children(u, new) = {} /\ u[new].used /\ u[new].prev = last
  BY <1>1 DEF Children, create_node
<1>6. \A c \in InTree(t) \ {last} : u[c] = t[c] /\ Children(u, c) = Children(t, c)
  BY <1>1, <1>2 DEF Children
<1>7. u[last].used = t[last].used /\ u[last].prev = t[last].prev
  BY <1>1, <1>3 DEF Node
<1>8. InTree(u) \subseteq S
  <2>1. Closed(u, S)
    BY <1>4, <1>5, <1>6, ChildrenInTree DEF Closed
  <2>2. head \in S
    BY <1>2
  <2> HIDE DEF S
  <2> QED
    BY <1>1, <2>1, <2>2, InTreeLeast
<1>9. \A c \in InTree(t) : u[c].used /\ u[c].prev = t[c].prev
  BY <1>6, <1>7 DEF Agreeing
<1>10. ASSUME NEW c \in InTree(u), NEW x \in Children(u, c)
       PROVE  u[x].prev = c
  <2>1. CASE c = new
    BY <1>5, <2>1
  <2>2. CASE c = last
    BY <1>4, <1>5, <2>2
  <2>3. CASE c \in InTree(t) \ {last}
    <3>1. x \in InTree(t) /\ t[x].prev = c
      BY <1>6, <1>10, <2>3, ChildrenInTree DEF Agreeing
    <3> QED
      BY <1>9, <3>1
  <2> QED
    BY <1>8, <2>1, <2>2, <2>3
<1>11. u[head].used /\ u[head].prev = DNULL
  BY <1>2, <1>9 DEF Agreeing
<1>12. \A c \in InTree(u) : u[c].used
  BY <1>5, <1>8, <1>9
<1>13. Agreeing(u)
  BY <1>1, <1>10, <1>11, <1>12 DEF Agreeing
<1> QED
  BY <1>13 DEF u

\* Nothing is cut off, unless the last node in the folder is a folder.
LEMMA AddKeepsAll ==
  ASSUME NEW t, TreeInv(t), Agreeing(t), NEW line \in Lines,
         \E c \in Cells : ~t[c].used, addnode(t, line) # <<>>,
         search(t, line.loc) \in Cells => t[search(t, line.loc)].dflag
  PROVE  \/ InTree(t) \subseteq InTree(addnode(t, line))
         \/ LET last == searchlast(t, line.loc) IN last # search(t, line.loc) /\ t[last].dflag
<1> DEFINE u == addnode(t, line)
           last == searchlast(t, line.loc)
           folder == search(t, line.loc)
           new == malloc(t)
           S == InTree(t) \cap InTree(u)
<1>1. /\ last # Fault /\ last \in InTree(t) /\ new \in Cells \ InTree(t)
      /\ u \in [Cells -> Node] /\ u[new] = create_node(line, last)
      /\ \A c \in Cells \ {last, new} : u[c] = t[c]
      /\ u[last] = IF t[last].dflag THEN [t[last] EXCEPT !.fold = new]
                                    ELSE [t[last] EXCEPT !.next = new]
  BY Added
<1>2. InTree(t) \subseteq Cells /\ head \in InTree(t) /\ t \in [Cells -> Node]
  BY InTreeLeast DEF Agreeing
<1>3. /\ folder \in InTree(t)
      /\ \/ last = folder /\ t[folder].fold = DNULL
         \/ last # folder /\ t[last].next = DNULL
  <2>1. line.loc \in Locs
    BY DEF Lines
  <2> QED
    BY <1>1, <2>1, SearchlastInTree
<1>4. t[folder].dflag
  BY <1>2, <1>3
<1> HIDE DEF u, last, new, folder
<1>5. \A c \in Cells : (t[c].dflag => t[c].next = DNULL) /\ (~t[c].dflag => t[c].fold = DNULL)
  BY DEF TreeInv, NodeInv
<1>6. CASE last # folder /\ t[last].dflag
  BY <1>6 DEF last, folder
<1>7. CASE ~(last # folder /\ t[last].dflag)
  <2>1. Children(t, last) = {}
    BY <1>1, <1>2, <1>3, <1>4, <1>5, <1>7 DEF Children
  <2>2. head \in InTree(u) /\ Closed(u, InTree(u))
    BY <1>1, InTreeLeast
  <2>3. \A c \in InTree(t) : Children(t, c) \subseteq Children(u, c)
    <3>1. \A c \in InTree(t) \ {last} : u[c] = t[c]
      BY <1>1, <1>2
    <3> QED
      BY <2>1, <3>1 DEF Children
  <2>4. Closed(t, S)
    BY <2>2, <2>3, ChildrenInTree DEF Closed
  <2>5. head \in S
    BY <1>2, <2>2
  <2> HIDE DEF S
  <2>6. InTree(t) \subseteq S
    BY <1>2, <2>4, <2>5, InTreeLeast
  <2> QED
    BY <2>6 DEF S, u
<1> QED
  BY <1>6, <1>7

\* The tree without a file, by cases of the cells around it.
LEMMA Removed ==
  ASSUME NEW t, TreeInv(t), Agreeing(t), NEW c \in InTree(t), c # head, t[c].next # DNULL
  PROVE  LET u    == Unlinked(t, c)
             prev == t[c].prev
             next == t[c].next
         IN /\ prev \in InTree(t) /\ c \in Children(t, prev)
            /\ next \in InTree(t) /\ next \in Children(t, c) /\ next # head
            /\ prev # c /\ next # c /\ next # prev
            /\ u \in [Cells -> Node] /\ u[c] = Unused
            /\ u[next] = [t[next] EXCEPT !.prev = prev]
            /\ u[prev] = IF t[prev].dflag THEN [t[prev] EXCEPT !.fold = next]
                                          ELSE [t[prev] EXCEPT !.next = next]
            /\ \A x \in Cells \ {c, next, prev} : u[x] = t[x]
<1> DEFINE prev == t[c].prev
           next == t[c].next
           linked == IF t[prev].dflag THEN [t EXCEPT ![prev].fold = next]
                                      ELSE [t EXCEPT ![prev].next = next]
           u == Unlinked(t, c)
<1>1. u = [linked EXCEPT ![next].prev = prev, ![c] = Unused]
  BY DEF Unlinked
<1>2. InTree(t) \subseteq Cells /\ head \in InTree(t) /\ t \in [Cells -> Node]
  BY InTreeLeast DEF Agreeing
<1>3. prev \in InTree(t) /\ c \in Children(t, prev)
  BY ParentInTree
<1>4. next \in InTree(t) /\ next \in Children(t, c) /\ t[next].prev = c /\ next # head
  BY ChildrenInTree DEF Children, Agreeing
<1>5. prev # c /\ next # c /\ next # prev
  <2>1. ASSUME c \in Children(t, c) PROVE FALSE
    <3>1. \A x \in {c} : \E p \in {c} : x \in Children(t, p)
      BY <2>1
    <3>2. {c} \subseteq InTree(t)
      OBVIOUS
    <3>3. {c} = {}
      BY <3>1, <3>2, NoCycle
    <3> QED
      BY <3>3
  <2>2. ASSUME next = prev PROVE FALSE
    <3> DEFINE K == {c, prev}
    <3>1. \A x \in K : \E p \in K : x \in Children(t, p)
      BY <1>3, <1>4, <2>2
    <3>2. K \subseteq InTree(t)
      BY <1>3
    <3>3. K # {}
      OBVIOUS
    <3> HIDE DEF K
    <3> QED
      BY <3>1, <3>2, <3>3, NoCycle
  <2> HIDE DEF prev, next
  <2> QED
    BY <1>3, <1>4, <2>1, <2>2
<1> HIDE DEF prev, next, u
<1>6. linked \in [Cells -> Node]
  <2>1. t[prev] \in Node /\ next \in Links
    BY <1>2, <1>3, <1>4 DEF Links
  <2>2. [t[prev] EXCEPT !.fold = next] \in Node /\ [t[prev] EXCEPT !.next = next] \in Node
    BY <2>1 DEF Node
  <2> QED
    BY <1>2, <2>2
<1>7. /\ \A x \in Cells \ {prev} : linked[x] = t[x]
      /\ linked[prev] = IF t[prev].dflag THEN [t[prev] EXCEPT !.fold = next]
                                         ELSE [t[prev] EXCEPT !.next = next]
  BY <1>2, <1>3
<1> HIDE DEF linked
<1>8. /\ u \in [Cells -> Node] /\ u[c] = Unused
      /\ u[next] = [t[next] EXCEPT !.prev = prev] /\ u[prev] = linked[prev]
      /\ \A x \in Cells \ {c, next, prev} : u[x] = t[x]
  <2>1. [linked[next] EXCEPT !.prev = prev] \in Node
    <3>1. linked[next] \in Node /\ prev \in Links
      BY <1>2, <1>3, <1>4, <1>6 DEF Links
    <3> QED
      BY <3>1 DEF Node
  <2>2. linked[next] = t[next]
    BY <1>2, <1>4, <1>5, <1>7
  <2> DEFINE back == [linked EXCEPT ![next].prev = prev]
  <2>3. back \in [Cells -> Node] /\ back[next] = [t[next] EXCEPT !.prev = prev]
        /\ \A x \in Cells \ {next} : back[x] = linked[x]
    BY <1>2, <1>4, <1>6, <2>1, <2>2
  <2>4. u = [back EXCEPT ![c] = Unused]
    BY <1>1
  <2> HIDE DEF back
  <2>5. u \in [Cells -> Node] /\ u[c] = Unused /\ \A x \in Cells \ {c} : u[x] = back[x]
    BY <1>2, <2>3, <2>4, UnusedType
  <2> QED
    BY <1>2, <1>3, <1>4, <1>5, <1>7, <2>3, <2>5
<1> QED
  BY <1>3, <1>4, <1>5, <1>7, <1>8 DEF u, prev, next

\* A file taken out from between its neighbours.
LEMMA UnlinkAgrees ==
  ASSUME NEW t, TreeInv(t), Agreeing(t), NEW c \in InTree(t), c # head, t[c].next # DNULL
  PROVE  Agreeing(Unlinked(t, c))
<1> DEFINE prev == t[c].prev
           next == t[c].next
           u == Unlinked(t, c)
           S == InTree(t) \ {c}
<1>1. InTree(t) \subseteq Cells /\ head \in InTree(t) /\ t \in [Cells -> Node]
  BY InTreeLeast DEF Agreeing
<1>2. /\ prev \in InTree(t) /\ c \in Children(t, prev)
      /\ next \in InTree(t) /\ next \in Children(t, c) /\ next # head
      /\ prev # c /\ next # c /\ next # prev
      /\ u \in [Cells -> Node] /\ u[c] = Unused
      /\ u[next] = [t[next] EXCEPT !.prev = prev]
      /\ u[prev] = IF t[prev].dflag THEN [t[prev] EXCEPT !.fold = next]
                                    ELSE [t[prev] EXCEPT !.next = next]
      /\ \A x \in Cells \ {c, next, prev} : u[x] = t[x]
  BY Removed
<1>3. t[next].prev = c
  BY <1>2 DEF Agreeing
<1>4. \A x \in Cells : (t[x].dflag => t[x].next = DNULL) /\ (~t[x].dflag => t[x].fold = DNULL)
  BY DEF TreeInv, NodeInv
<1> HIDE DEF prev, next, u
<1>5. t[prev] \in Node /\ t[next] \in Node /\ t[c] \in Node
  BY <1>1, <1>2, <1>3
<1>6. /\ Children(u, prev) = {next}
       /\ u[prev].used = t[prev].used /\ u[prev].prev = t[prev].prev
  <2>1. next # DNULL /\ prev \in Cells
    BY <1>1, <1>2, <1>3, CellsFinite
  <2>2. u[prev].used = t[prev].used /\ u[prev].prev = t[prev].prev
    BY <1>2, <1>5 DEF Node
  <2>3. CASE t[prev].dflag
    <3>1. u[prev].fold = next /\ u[prev].next = DNULL
      BY <1>2, <1>4, <1>5, <2>1, <2>3 DEF Node
    <3> QED
      BY <2>1, <2>2, <3>1 DEF Children
  <2>4. CASE ~t[prev].dflag
    <3>1. u[prev].next = next /\ u[prev].fold = DNULL
      BY <1>2, <1>4, <1>5, <2>1, <2>4 DEF Node
    <3> QED
      BY <2>1, <2>2, <3>1 DEF Children
  <2> QED
    BY <2>3, <2>4
<1>7. u[next].used = t[next].used /\ Children(u, next) = Children(t, next) /\ u[next].prev = prev
  BY <1>2, <1>5 DEF Node, Children
<1>8. \A x \in S \ {prev} : Children(u, x) = Children(t, x) /\ c \notin Children(t, x)
  <2>1. \A x \in S \ {prev, next} : u[x] = t[x]
    BY <1>1, <1>2
  <2>2. \A x \in S \ {prev} : c \notin Children(t, x)
    BY DEF Agreeing, prev
  <2> QED
    BY <1>7, <2>1, <2>2 DEF Children
<1>9. \A x \in S : u[x].used /\ (x # next => u[x].prev = t[x].prev)
  <2>1. \A x \in S \ {prev, next} : u[x] = t[x]
    BY <1>1, <1>2
  <2> QED
    BY <1>2, <1>3, <1>6, <1>7, <2>1 DEF Agreeing
<1>10. InTree(u) \subseteq S
  <2>1. Closed(u, S)
    BY <1>2, <1>3, <1>6, <1>8, ChildrenInTree DEF Closed
  <2>2. head \in S
    BY <1>1
  <2> HIDE DEF S
  <2> QED
    BY <1>2, <2>1, <2>2, InTreeLeast
<1>11. ASSUME NEW x \in InTree(u), NEW y \in Children(u, x)
       PROVE  u[y].prev = x
  <2>1. CASE x = prev
    BY <1>6, <1>7, <1>11, <2>1
  <2>2. CASE x # prev
    <3>1. x \in S \ {prev} /\ x \in InTree(t)
      BY <1>10, <2>2
    <3>2. y \in Children(t, x) /\ y # c
      BY <1>8, <1>11, <3>1
    <3>3. y \in InTree(t) /\ t[y].prev = x
      BY <3>1, <3>2, ChildrenInTree DEF Agreeing
    <3>4. y # next
      BY <1>2, <1>3, <3>1, <3>3
    <3> QED
      BY <1>9, <3>2, <3>3, <3>4
  <2> QED
    BY <2>1, <2>2
<1>12. u[head].used /\ u[head].prev = DNULL
  BY <1>1, <1>2, <1>3, <1>9 DEF Agreeing
<1>13. \A x \in InTree(u) : u[x].used
  BY <1>9, <1>10
<1>14. Agreeing(u)
  BY <1>2, <1>11, <1>12, <1>13 DEF Agreeing
<1> QED
  BY <1>14 DEF u

-----------------------------------------------------------------------------
(* The tree is a list: a folder has no next sibling and a file nothing in   *)
(* it, so a node leads to one other at most.                                *)

Succ(t, c) == IF t[c].dflag THEN t[c].fold ELSE t[c].next

\* The nodes of a tree, in the order in which they lead to each other.
Chain(t, ch, k) ==
  /\ k \in Nat /\ k > 0 /\ ch \in [1..k -> Cells] /\ ch[1] = head
  /\ \A i \in 1..k : Succ(t, ch[i]) = IF i = k THEN DNULL ELSE ch[i + 1]
  /\ \A i, j \in 1..k : ch[i] = ch[j] => i = j
  /\ InTree(t) = {ch[i] : i \in 1..k}

LEMMA OneChild ==
  ASSUME NEW t, TreeInv(t), NEW c \in Cells
  PROVE  /\ Children(t, c) = {Succ(t, c)} \ {DNULL}
         /\ t[c].dflag => t[c].next = DNULL /\ t[c].fold = Succ(t, c)
         /\ ~t[c].dflag => t[c].fold = DNULL /\ t[c].next = Succ(t, c)
BY DEF TreeInv, NodeInv, Children, Succ

\* Cells that lead to each other from the head to a last one are the tree.
LEMMA ChainFrom ==
  ASSUME NEW t \in [Cells -> Node], TreeInv(t), NEW k \in Nat, k > 0,
         NEW ch \in [1..k -> Cells], ch[1] = head,
         \A i \in 1..k : Succ(t, ch[i]) = IF i = k THEN DNULL ELSE ch[i + 1],
         \A i, j \in 1..k : ch[i] = ch[j] => i = j
  PROVE  Chain(t, ch, k)
<1> DEFINE S == {ch[i] : i \in 1..k}
<1>1. head \in InTree(t) /\ Closed(t, InTree(t)) /\ 1 \in 1..k /\ DNULL \notin Cells
  BY InTreeLeast, CellsFinite
<1>2. InTree(t) \subseteq S
  <2>1. Closed(t, S)
    <3> SUFFICES ASSUME NEW i \in 1..k, NEW x \in Children(t, ch[i]) PROVE x \in S
      BY DEF Closed
    <3>1. x = Succ(t, ch[i]) /\ x # DNULL
      BY OneChild
    <3>2. i + 1 \in 1..k /\ x = ch[i + 1]
      BY <3>1
    <3> QED
      BY <3>2
  <2>2. head \in S
    BY <1>1
  <2> HIDE DEF S
  <2> QED
    BY <2>1, <2>2, InTreeLeast
<1>3. S \subseteq InTree(t)
  <2> DEFINE Has == {i \in 1..k : ch[i] \in InTree(t)}
  <2>1. 1 \in Has
    BY <1>1
  <2>2. ASSUME NEW i \in 1..k, i > 1, i - 1 \in Has PROVE i \in Has
    <3>1. Succ(t, ch[i - 1]) = ch[i] /\ ch[i - 1] \in Cells /\ ch[i - 1] \in InTree(t)
      BY <2>2
    <3>2. ch[i] \in Children(t, ch[i - 1])
      BY <1>1, <3>1, OneChild
    <3> QED
      BY <1>1, <3>1, <3>2 DEF Closed
  <2> HIDE DEF Has
  <2>3. 1..k \subseteq Has
    BY <2>1, <2>2, HandedOn
  <2> QED
    BY <2>3 DEF Has
<1> QED
  BY <1>2, <1>3 DEF Chain

\* Every tree is one, whatever its shape was meant to be.
LEMMA ChainExists ==
  ASSUME NEW t, TreeInv(t), Agreeing(t)
  PROVE  \E ch, k : Chain(t, ch, k)
<1> DEFINE N == Cardinality(Cells)
           D == InTree(t) \cup {DNULL}
           Follow(x) == IF x = DNULL THEN DNULL ELSE Succ(t, x)
           F == [i \in 1..(N + 1) |-> [x \in D |-> Follow(x)]]
<1>1. /\ N \in Nat /\ N + 1 \in Nat /\ N + 1 > 0
      /\ head \in InTree(t) /\ InTree(t) \subseteq Cells /\ DNULL \notin Cells
  <2>1. N \in Nat /\ head \in InTree(t) /\ InTree(t) \subseteq Cells /\ DNULL \notin Cells
    BY CellsFinite, InTreeLeast DEF Agreeing
  <2> QED
    BY <2>1
<1> HIDE DEF N
<1>2. \A x \in InTree(t) : Succ(t, x) \in D
  BY ChildrenInTree DEF Succ
<1>3. F \in [1..(N + 1) -> [D -> D]] /\ head \in D
  BY <1>1, <1>2
<1>4. PICK g : Runs(g, N + 1, D, head, F)
  <2> HIDE DEF F, D
  <2> QED
    BY <1>1, <1>3, Iterates
<1>5. g \in [1..(N + 1) -> D] /\ g[1] = head
  BY <1>4 DEF Runs
<1>6. ASSUME NEW i \in 1..(N + 1), i > 1 PROVE g[i] = Follow(g[i - 1])
  <2>1. i - 1 \in 1..(N + 1)
    BY <1>1, <1>6
  <2>2. g[i] = F[i][g[i - 1]] /\ g[i - 1] \in D
    BY <1>4, <1>5, <1>6, <2>1 DEF Runs
  <2> QED
    BY <2>2
<1> HIDE DEF F
<1> DEFINE Ends == {i \in 1..(N + 1) : g[i] = DNULL}
<1>7. Ends # {}
  <2> SUFFICES ASSUME Ends = {} PROVE FALSE
    OBVIOUS
  <2>1. g \in [1..(N + 1) -> InTree(t)]
    BY <1>5
  <2>2. ASSUME NEW i \in 1..(N + 1), i > 1 PROVE g[i] \in Children(t, g[i - 1])
    <3>1. i - 1 \in 1..(N + 1)
      BY <1>1, <2>2
    <3>2. g[i] = Succ(t, g[i - 1]) /\ g[i] # DNULL /\ g[i - 1] \in Cells
      BY <1>1, <1>6, <2>1, <2>2, <3>1
    <3> QED
      BY <3>2, OneChild
  <2> QED
    BY <2>1, <2>2, WalksEnd DEF N
<1>8. PICK m \in Ends : \A i \in Ends : m <= i
  <2>1. Ends \in SUBSET Nat
    BY <1>1
  <2> QED
    BY <1>7, <2>1, Least
<1> DEFINE k == m - 1
           ch == [i \in 1..k |-> g[i]]
<1>9. /\ m \in 1..(N + 1) /\ g[m] = DNULL /\ m # 1
      /\ k \in Nat /\ k > 0 /\ 1 \in 1..k
  BY <1>1, <1>5, <1>8
<1>10. \A i \in 1..k : i \in 1..(N + 1) /\ i + 1 \in 1..(N + 1) /\ g[i] \in InTree(t)
  <2> SUFFICES ASSUME NEW i \in 1..k
               PROVE  i \in 1..(N + 1) /\ i + 1 \in 1..(N + 1) /\ g[i] \in InTree(t)
    OBVIOUS
  <2>1. i \in 1..(N + 1) /\ i + 1 \in 1..(N + 1) /\ ~(m <= i)
    BY <1>1, <1>9
  <2>2. g[i] # DNULL
    BY <1>8, <2>1
  <2> QED
    BY <1>5, <2>1, <2>2
<1>11. \A i \in 1..k : Succ(t, ch[i]) = IF i = k THEN DNULL ELSE ch[i + 1]
  <2> SUFFICES ASSUME NEW i \in 1..k
               PROVE  Succ(t, ch[i]) = IF i = k THEN DNULL ELSE ch[i + 1]
    OBVIOUS
  <2>1. i + 1 \in 1..(N + 1) /\ i + 1 > 1 /\ (i + 1) - 1 = i /\ g[i] # DNULL
    BY <1>1, <1>9, <1>10
  <2>2. g[i + 1] = Succ(t, g[i])
    BY <1>6, <2>1
  <2>3. i = k => i + 1 = m
    BY <1>9
  <2>4. i # k => i + 1 \in 1..k
    BY <1>9
  <2> QED
    BY <1>9, <2>2, <2>3, <2>4
<1>12. ch \in [1..k -> Cells] /\ ch[1] = head /\ \A i \in 1..k : ch[i] \in InTree(t)
  BY <1>1, <1>5, <1>9, <1>10
<1> HIDE DEF ch, k
<1>13. ASSUME NEW i \in 1..k, i > 1
       PROVE  i - 1 \in 1..k /\ t[ch[i]].prev = ch[i - 1] /\ ch[i] # head
  <2>1. i - 1 \in 1..k /\ i - 1 # k /\ (i - 1) + 1 = i
    BY <1>9, <1>13
  <2>2. Succ(t, ch[i - 1]) = ch[i] /\ ch[i] # DNULL
    BY <1>1, <1>11, <1>12, <2>1
  <2>3. ch[i] \in Children(t, ch[i - 1]) /\ ch[i - 1] \in InTree(t)
    BY <1>12, <2>1, <2>2, OneChild
  <2> QED
    BY <2>1, <2>3, ChildrenInTree DEF Agreeing
<1> DEFINE Bad == {i \in 1..k : \E j \in 1..k : i < j /\ ch[i] = ch[j]}
<1>14. Bad = {}
  <2> SUFFICES ASSUME Bad # {} PROVE FALSE
    OBVIOUS
  <2>1. Bad \in SUBSET Nat
    BY <1>9
  <2>2. PICK b \in Bad : \A i \in Bad : b <= i
    BY <2>1, Least
  <2>3. PICK j \in 1..k : b < j /\ ch[b] = ch[j]
    OBVIOUS
  <2>4. b \in 1..k /\ j > 1
    BY <1>9, <2>3
  <2>5. CASE b = 1
    BY <1>12, <1>13, <2>3, <2>4, <2>5
  <2>6. CASE b > 1
    <3>1. ch[b - 1] = ch[j - 1] /\ b - 1 \in 1..k /\ j - 1 \in 1..k
      BY <1>13, <2>3, <2>4, <2>6
    <3>2. b - 1 < j - 1 /\ ~(b <= b - 1)
      BY <1>9, <2>3, <2>4
    <3>3. b - 1 \in Bad
      BY <3>1, <3>2
    <3> QED
      BY <2>2, <3>2, <3>3
  <2> QED
    BY <1>9, <2>4, <2>5, <2>6
<1>15. \A i, j \in 1..k : ch[i] = ch[j] => i = j
  <2> SUFFICES ASSUME NEW i \in 1..k, NEW j \in 1..k, ch[i] = ch[j], i # j PROVE FALSE
    OBVIOUS
  <2>1. i < j \/ j < i
    BY <1>9
  <2> QED
    BY <1>14, <2>1
<1>16. t \in [Cells -> Node]
  BY DEF Agreeing
<1>17. Chain(t, ch, k)
  BY <1>9, <1>11, <1>12, <1>15, <1>16, ChainFrom
<1> QED
  BY <1>17

-----------------------------------------------------------------------------
(* What is stored.                                                          *)

\* The line of a node, and the lines of a tree in the order of its nodes.
LineOf(t, x) == [fname |-> t[x].fname, dflag |-> t[x].dflag, loc |-> t[x].loc]

Listed(t, ch, ls) ==
  /\ TreeInv(t) /\ Agreeing(t) /\ Chain(t, ch, Len(ls)) /\ ls \in Seq(Lines)
  /\ \A i \in 1..Len(ls) : ls[i] = LineOf(t, ch[i])

LEMMA LineType ==
  ASSUME NEW t, Agreeing(t), NEW x \in InTree(t)
  PROVE  LineOf(t, x) \in Lines
<1>1. t[x] \in Node
  BY InTreeLeast DEF Agreeing
<1> QED
  BY <1>1 DEF Node, Lines, LineOf

LEMMA ListedExists ==
  ASSUME NEW t, TreeInv(t), Agreeing(t)
  PROVE  \E ch, ls : Listed(t, ch, ls)
<1>1. PICK ch, k : Chain(t, ch, k)
  BY ChainExists
<1> DEFINE ls == [i \in 1..k |-> LineOf(t, ch[i])]
<1>2. k \in Nat /\ \A i \in 1..k : LineOf(t, ch[i]) \in Lines
  BY <1>1, LineType DEF Chain
<1>3. ls \in Seq(Lines) /\ Len(ls) = k
  BY <1>2, IsASeq, LenProperties
<1>4. \A i \in 1..k : ls[i] = LineOf(t, ch[i])
  OBVIOUS
<1> HIDE DEF ls
<1>5. Listed(t, ch, ls)
  BY <1>1, <1>3, <1>4 DEF Listed
<1> QED
  BY <1>5

LEMMA ListedFacts ==
  ASSUME NEW t, NEW ch, NEW ls, Listed(t, ch, ls)
  PROVE  LET k == Len(ls)
         IN /\ k \in Nat /\ k > 0 /\ DNULL \notin InTree(t)
            /\ \A i \in 1..k : ch[i] \in InTree(t) /\ ch[i] \in Cells /\ ls[i] \in Lines
            /\ \A x \in InTree(t) : \E i \in 1..k : x = ch[i]
<1>1. DNULL \notin InTree(t)
  BY CellsFinite, InTreeLeast DEF Listed, Agreeing
<1>2. \A i \in 1..Len(ls) : ls[i] \in Lines
  BY ElementOfSeq DEF Listed
<1> QED
  BY <1>1, <1>2 DEF Listed, Chain

\* Two functions are equal on a tree when they are behind its last node, and at
\* a node if they are where it leads to.
LEMMA FromLast ==
  ASSUME NEW t, NEW ch, NEW k, Chain(t, ch, k), NEW f, NEW g, f[DNULL] = g[DNULL],
         \A x \in InTree(t) : f[Succ(t, x)] = g[Succ(t, x)] => f[x] = g[x]
  PROVE  \A x \in InTree(t) : f[x] = g[x]
<1>1. k \in Nat /\ k > 0 /\ InTree(t) = {ch[i] : i \in 1..k}
  BY DEF Chain
<1> DEFINE Has == {j \in 1..k : f[ch[k + 1 - j]] = g[ch[k + 1 - j]]}
<1>2. 1 \in Has
  <2>1. 1 \in 1..k /\ k + 1 - 1 = k /\ k \in 1..k
    BY <1>1
  <2>2. Succ(t, ch[k]) = DNULL /\ ch[k] \in InTree(t)
    BY <1>1, <2>1 DEF Chain
  <2> QED
    BY <2>1, <2>2
<1>3. ASSUME NEW j \in 1..k, j > 1, j - 1 \in Has PROVE j \in Has
  <2> DEFINE i == k + 1 - j
  <2>1. i \in 1..k /\ i # k /\ k + 1 - (j - 1) = i + 1
    BY <1>1, <1>3
  <2>2. Succ(t, ch[i]) = ch[i + 1] /\ ch[i] \in InTree(t)
    BY <1>1, <2>1 DEF Chain
  <2>3. f[ch[i + 1]] = g[ch[i + 1]]
    BY <1>3, <2>1
  <2> QED
    BY <2>2, <2>3
<1> HIDE DEF Has
<1>4. 1..k \subseteq Has
  BY <1>1, <1>2, <1>3, HandedOn
<1>5. ASSUME NEW i \in 1..k PROVE f[ch[i]] = g[ch[i]]
  <2>1. k + 1 - i \in 1..k /\ k + 1 - (k + 1 - i) = i
    BY <1>1
  <2> QED
    BY <1>4, <2>1 DEF Has
<1> QED
  BY <1>1, <1>5

\* What the lines from x are made of, and a function that gives them for each node.
FromHere(t, f, x) ==
  IF x = DNULL THEN <<>> ELSE <<LineOf(t, x)>> \o f[t[x].fold] \o f[t[x].next]
Storing(t, f) == f = [x \in InTree(t) \cup {DNULL} |-> FromHere(t, f, x)]

LEMMA StoringOnce ==
  ASSUME NEW t, NEW ch, NEW ls, Listed(t, ch, ls), NEW f, Storing(t, f), NEW g, Storing(t, g)
  PROVE  f = g
<1>1. \A x \in InTree(t) \cup {DNULL} : f[x] = FromHere(t, f, x) /\ g[x] = FromHere(t, g, x)
  BY DEF Storing
<1>2. f[DNULL] = g[DNULL]
  BY <1>1 DEF FromHere
<1>3. ASSUME NEW x \in InTree(t), f[Succ(t, x)] = g[Succ(t, x)] PROVE f[x] = g[x]
  <2>1. f[t[x].fold] = g[t[x].fold] /\ f[t[x].next] = g[t[x].next]
    BY <1>2, <1>3, OneChild, ListedFacts DEF Listed
  <2> QED
    BY <1>1, <2>1 DEF FromHere
<1>4. Chain(t, ch, Len(ls))
  BY DEF Listed
<1>5. \A x \in InTree(t) : f[x] = g[x]
  BY <1>2, <1>3, <1>4, FromLast
<1> QED
  BY <1>2, <1>5 DEF Storing

\* recursestore stores the lines of the tree in the order of its nodes.
LEMMA StoredIsList ==
  ASSUME NEW t, NEW ch, NEW ls, Listed(t, ch, ls)
  PROVE  recursestore(t, head) = ls
<1> DEFINE k == Len(ls)
           At(x) == CHOOSE i \in 1..k : ch[i] = x
           Rest(i) == SubSeq(ls, i, k)
           f == [x \in InTree(t) \cup {DNULL} |-> IF x = DNULL THEN <<>> ELSE Rest(At(x))]
<1>1. /\ k \in Nat /\ k > 0 /\ DNULL \notin InTree(t)
      /\ \A i \in 1..k : ch[i] \in InTree(t) /\ ch[i] \in Cells
      /\ \A x \in InTree(t) : \E i \in 1..k : x = ch[i]
  BY ListedFacts
<1>2. \A i, j \in 1..k : ch[i] = ch[j] => i = j
  BY DEF Listed, Chain
<1>3. \A i \in 1..k : Succ(t, ch[i]) = IF i = k THEN DNULL ELSE ch[i + 1]
  BY DEF Listed, Chain
<1>4. \A i \in 1..k : At(ch[i]) = i
  BY <1>2
<1> HIDE DEF At
<1>5. \A i \in 1..k : f[ch[i]] = Rest(i)
  BY <1>1, <1>4
<1>6. f[DNULL] = <<>>
  OBVIOUS
<1>7. ASSUME NEW i \in 1..k
      PROVE  /\ f[Succ(t, ch[i])] = Rest(i + 1) /\ Rest(i) = <<ls[i]>> \o Rest(i + 1)
             /\ Rest(i + 1) \in Seq(Lines) /\ <<ls[i]>> \in Seq(Lines) /\ ls[i] = LineOf(t, ch[i])
  <2>1. ls \in Seq(Lines) /\ ls[i] \in Lines /\ ls[i] = LineOf(t, ch[i])
    BY ElementOfSeq DEF Listed
  <2>2. Rest(i) = <<ls[i]>> \o Rest(i + 1)
    BY <1>1, <2>1, SubSeqRecursiveFirst
  <2>3. Rest(i + 1) \in Seq(Lines)
    <3> DEFINE m == i + 1
    <3>1. m \in Int /\ k \in Int /\ \A j \in m..k : j \in 1..k
      BY <1>1
    <3>2. \A j \in m..k : ls[j] \in Lines
      BY <3>1, <2>1, ElementOfSeq
    <3> HIDE DEF m, k
    <3>3. SubSeq(ls, m, k) \in Seq(Lines)
      BY <3>1, <3>2, SubSeqProperties
    <3> QED
      BY <3>3 DEF m
  <2>4. i = k => Rest(i + 1) = <<>>
    BY <1>1, SubSeqEmpty
  <2>5. <<ls[i]>> \in Seq(Lines)
    BY <2>1
  <2> HIDE DEF f, Rest
  <2>6. CASE i = k
    BY <1>3, <1>6, <2>1, <2>2, <2>3, <2>4, <2>5, <2>6
  <2>7. CASE i # k
    <3>1. i + 1 \in 1..k
      BY <1>1, <2>7
    <3>2. Succ(t, ch[i]) = ch[i + 1] /\ f[ch[i + 1]] = Rest(i + 1)
      BY <1>3, <1>5, <2>7, <3>1
    <3> QED
      BY <2>1, <2>2, <2>3, <2>5, <3>2
  <2> QED
    BY <2>6, <2>7
<1> HIDE DEF f, Rest
<1>8. ASSUME NEW i \in 1..k PROVE f[ch[i]] = FromHere(t, f, ch[i])
  <2> DEFINE x == ch[i]
  <2>1. x # DNULL /\ x \in Cells /\ f[x] = <<ls[i]>> \o Rest(i + 1)
    BY <1>1, <1>5, <1>7
  <2>2. CASE t[x].dflag
    <3>1. t[x].next = DNULL /\ t[x].fold = Succ(t, x)
      BY <2>1, <2>2, OneChild DEF Listed
    <3>2. FromHere(t, f, x) = (<<ls[i]>> \o Rest(i + 1)) \o <<>>
      BY <1>6, <1>7, <2>1, <3>1 DEF FromHere
    <3>3. <<ls[i]>> \o Rest(i + 1) \in Seq(Lines)
      BY <1>7, ConcatProperties
    <3> QED
      BY <2>1, <3>2, <3>3, ConcatEmptySeq
  <2>3. CASE ~t[x].dflag
    <3>1. t[x].fold = DNULL /\ t[x].next = Succ(t, x)
      BY <2>1, <2>3, OneChild DEF Listed
    <3>2. FromHere(t, f, x) = (<<ls[i]>> \o <<>>) \o Rest(i + 1)
      BY <1>6, <1>7, <2>1, <3>1 DEF FromHere
    <3>3. <<ls[i]>> \o <<>> = <<ls[i]>>
      BY <1>7, ConcatEmptySeq
    <3> QED
      BY <2>1, <3>2, <3>3
  <2> QED
    BY <2>2, <2>3
<1>9. Storing(t, f)
  <2>1. f = [x \in InTree(t) \cup {DNULL} |-> f[x]]
    BY DEF f
  <2>2. FromHere(t, f, DNULL) = <<>>
    BY DEF FromHere
  <2>3. \A x \in InTree(t) \cup {DNULL} : f[x] = FromHere(t, f, x)
    BY <1>1, <1>6, <1>8, <2>2
  <2> QED
    BY <2>1, <2>3 DEF Storing
<1>10. recursestore(t, head) = (CHOOSE g : Storing(t, g))[head]
  BY DEF recursestore, Storing, FromHere, LineOf
<1>11. Storing(t, CHOOSE g : Storing(t, g))
  BY <1>9
<1>12. (CHOOSE g : Storing(t, g)) = f
  BY <1>9, <1>11, StoringOnce
<1>13. head = ch[1] /\ 1 \in 1..k /\ ls = Rest(1)
  BY <1>1, SubSeqFull DEF Listed, Chain, Rest
<1> QED
  BY <1>5, <1>10, <1>12, <1>13

\* The lines from the head: lines, and there is one at least.
LEMMA StoredLines ==
  ASSUME NEW t, TreeInv(t), Agreeing(t)
  PROVE  /\ recursestore(t, head) \in Seq(Lines)
         /\ Len(recursestore(t, head)) \in Nat /\ Len(recursestore(t, head)) > 0
<1>1. PICK ch, ls : Listed(t, ch, ls)
  BY ListedExists
<1>2. ls \in Seq(Lines) /\ Len(ls) \in Nat /\ Len(ls) > 0
  BY <1>1, ListedFacts DEF Listed
<1> QED
  BY <1>1, <1>2, StoredIsList

-----------------------------------------------------------------------------
(* Types, and links that agree, in every state.                             *)

LinkInv == TypeOK /\ TreeInv(tree) /\ Agreeing(tree)

LEMMA CopiesType ==
  ASSUME NEW lines \in Seq(Lines), Len(lines) > 0, NEW n \in Nat, n > 0
  PROVE  LET c == Copies(lines, n) IN c \in Seq(Lines) /\ Len(c) \in Nat /\ Len(c) > 0
<1> DEFINE k == Len(lines)
           m == n * k
           c == [i \in 1..m |-> lines[1 + ((i - 1) % k)]]
<1>1. k \in Nat /\ k > 0
  BY LenProperties
<1>2. \A i \in Nat : 1 + (i % k) \in 1..k
  <2> HIDE DEF k
  <2> QED
    BY <1>1
<1>3. m \in Nat /\ m > 0
  <2> HIDE DEF k
  <2>1. n * k \in Nat
    BY <1>1
  <2>2. n * k > 0
    BY <1>1, SMTT(20)
  <2> QED
    BY <2>1, <2>2
<1> HIDE DEF k, m
<1>4. \A i \in 1..m : lines[1 + ((i - 1) % k)] \in Lines
  <2>1. \A i \in 1..m : i - 1 \in Nat
    BY <1>3
  <2>2. \A j \in 1..k : lines[j] \in Lines
    BY ElementOfSeq DEF k
  <2> QED
    BY <1>2, <2>1, <2>2
<1>5. c \in Seq(Lines) /\ Len(c) = m
  BY <1>3, <1>4, IsASeq, LenProperties
<1>6. Copies(lines, n) = c
  BY DEF Copies, m, k
<1> QED
  BY <1>3, <1>5, <1>6

LEMMA LinkInit == Init => LinkInv
<1> SUFFICES ASSUME Init PROVE LinkInv
  OBVIOUS
<1>1. Agreeing(tree) /\ TreeInv(tree)
  BY HeadLineType, NewTreeAgrees, NewTreeInv DEF Init, ninitialize
<1>2. file \in Seq(Lines) /\ Len(file) = 0 /\ read = 0
  BY EmptySeq DEF Init
<1> QED
  BY <1>1, <1>2 DEF Init, LinkInv, TypeOK, Agreeing

\* A step that makes a tree like that, with nothing to read.
LEMMA LinkFresh ==
  ASSUME TreeInv(tree'), Agreeing(tree'), file' = <<>>, read' = 0,
         status' \in {"running", "reading", "crashed", "walking"}
  PROVE  LinkInv'
<1>1. file' \in Seq(Lines) /\ Len(file') = 0
  BY EmptySeq
<1> QED
  BY <1>1 DEF LinkInv, TypeOK, Agreeing

\* A step that makes a tree like that of it and reads no line.
LEMMA LinkKept ==
  ASSUME LinkInv, TreeInv(tree'), Agreeing(tree'), file' = file, read' = read,
         status' \in {"running", "reading", "crashed", "walking"}
  PROVE  LinkInv'
BY DEF LinkInv, TypeOK, Agreeing

LEMMA CrashLinks == Crash => LinkInv'
BY HeadLineType, NewTreeAgrees, NewTreeInv, LinkFresh DEF Crash, ninitialize

LEMMA AddLinks ==
  ASSUME LinkInv, NEW name \in Names, NEW dflag \in BOOLEAN, NEW p \in Paths,
         Add(name, dflag, p)
  PROVE  LinkInv'
<1> DEFINE line == [fname |-> name, dflag |-> dflag, loc |-> p]
<1>1. line \in Lines
  BY DEF Lines, Locs
<1> HIDE DEF line
<1>2. CASE Crash
  BY <1>2, CrashLinks
<1>3. CASE /\ HasRoom /\ addnode(tree, line) # <<>> /\ tree' = addnode(tree, line)
           /\ UNCHANGED <<status, file, read>>
  <2>1. Agreeing(tree') /\ TreeInv(tree')
    BY <1>1, <1>3, AddAgrees, AddNode DEF LinkInv, HasRoom
  <2> QED
    BY <1>3, <2>1, LinkKept DEF LinkInv, TypeOK
<1> QED
  BY <1>2, <1>3 DEF Add, line

LEMMA RemovefileLinks ==
  ASSUME LinkInv, NEW p \in Paths, removefile(p)
  PROVE  LinkInv'
<1> DEFINE c == search(tree, p)
<1>1. CASE Crash
  BY <1>1, CrashLinks
<1>2. CASE /\ c \in Cells /\ c # head /\ tree[c].next # DNULL
           /\ tree' = Unlinked(tree, c) /\ UNCHANGED <<status, file, read>>
  <2>1. c \in InTree(tree)
    BY <1>2, SearchInTree, CellsFinite DEF LinkInv, Locs, Links
  <2>2. Agreeing(tree') /\ TreeInv(tree')
    BY <1>2, <2>1, UnlinkAgrees, Unlink DEF LinkInv
  <2> QED
    BY <1>2, <2>2, LinkKept DEF LinkInv, TypeOK
<1> QED
  BY <1>1, <1>2 DEF removefile

LEMMA RestartLinks ==
  ASSUME LinkInv, NEW n \in 1..MaxStores, Restart(n)
  PROVE  LinkInv'
<1> DEFINE lines == recursestore(tree, head)
<1>1. lines \in Seq(Lines) /\ Len(lines) > 0
  BY StoredLines DEF LinkInv
<1>2. n \in Nat /\ n > 0
  BY DirTreeAssumption
<1> HIDE DEF lines
<1>3. file' \in Seq(Lines) /\ Len(file') \in Nat /\ Len(file') > 0
  BY <1>1, <1>2, CopiesType DEF Restart, lines
<1>4. file'[1] \in Lines
  BY <1>3, ElementOfSeq
<1>5. Agreeing(tree') /\ TreeInv(tree')
  BY <1>4, NewTreeAgrees, NewTreeInv DEF Restart
<1>6. status' = "reading" /\ read' = 1
  BY DEF Restart
<1> QED
  BY <1>3, <1>5, <1>6 DEF LinkInv, TypeOK, Agreeing

LEMMA ReadLinks ==
  ASSUME LinkInv, ReadLine
  PROVE  LinkInv'
<1> DEFINE line == file[read + 1]
<1>1. Len(file) \in Nat /\ read \in Nat /\ read + 1 \in 1..Len(file)
  BY LenProperties DEF LinkInv, TypeOK, ReadLine
<1>2. line \in Lines
  BY <1>1, ElementOfSeq DEF LinkInv, TypeOK
<1> HIDE DEF line
<1>3. CASE Crash
  BY <1>3, CrashLinks
<1>4. CASE /\ HasRoom /\ addnode(tree, line) # <<>> /\ tree' = addnode(tree, line)
           /\ read' = read + 1 /\ UNCHANGED <<status, file>>
  <2>1. Agreeing(tree') /\ TreeInv(tree')
    BY <1>2, <1>4, AddAgrees, AddNode DEF LinkInv, HasRoom
  <2>2. read' \in 0..Len(file')
    BY <1>1, <1>4
  <2> QED
    BY <1>4, <2>1, <2>2 DEF LinkInv, TypeOK, Agreeing
<1> QED
  BY <1>3, <1>4 DEF ReadLine, line

LEMMA LinkStep == LinkInv /\ [Next]_vars => LinkInv'
<1> SUFFICES ASSUME LinkInv, [Next]_vars PROVE LinkInv'
  OBVIOUS
<1>1. CASE \E p \in Paths, name \in Names, dflag \in BOOLEAN : Add(name, dflag, p)
  BY <1>1, AddLinks
<1>2. CASE \E p \in Paths : removefile(p)
  BY <1>2, RemovefileLinks
<1>3. ASSUME NEW p \in Paths, removefold(p) PROVE LinkInv'
  <2>1. CASE Crash
    BY <2>1, CrashLinks
  <2>2. CASE status' = "walking" /\ UNCHANGED <<tree, file, read, stored>>
    BY <2>2, LinkKept DEF LinkInv
  <2> QED
    BY <1>3, <2>1, <2>2 DEF removefold
<1>4. CASE \E n \in 1..MaxStores : Restart(n)
  BY <1>4, RestartLinks
<1>5. CASE ReadLine
  BY <1>5, ReadLinks
<1>6. CASE EndOfFile
  <2>1. TreeInv(tree') /\ Agreeing(tree')
    BY <1>6 DEF EndOfFile, LinkInv
  <2> QED
    BY <1>6, <2>1, LinkFresh DEF EndOfFile
<1>7. CASE Start
  <2>1. TreeInv(tree') /\ Agreeing(tree')
    BY <1>7, HeadLineType, NewTreeAgrees, NewTreeInv DEF Start, ninitialize
  <2> QED
    BY <1>7, <2>1, LinkKept DEF Start
<1>8. CASE UNCHANGED vars
  BY <1>8, LinkKept DEF vars, LinkInv, TypeOK
<1> QED
  BY <1>1, <1>2, <1>3, <1>4, <1>5, <1>6, <1>7, <1>8 DEF Next

\* Cells hold nodes and data.txt lines, whatever is added, removed, stored and read.
THEOREM TreeTypeCorrect == Spec => []TypeOK
<1>1. LinkInv => TypeOK
  BY DEF LinkInv
<1> QED
  BY LinkInit, LinkStep, <1>1, PTL DEF Spec

\* The links of dd.c form a tree in every state, for any number of nodes: addnode
\* and removefile never leave a link to a freed node or two links to one.
THEOREM LinksAlwaysAgree == Spec => []LinksAgree
<1>1. LinkInv => LinksAgree
  <2> SUFFICES ASSUME LinkInv, NEW c \in InTree(tree)
               PROVE  /\ tree[c].used
                      /\ \A x \in Children(tree, c) :
                           tree[x].prev = c /\ tree[c].next # tree[c].fold
                      /\ c # head => tree[c].prev \in InTree(tree)
    BY DEF LinksAgree
  <2>1. tree[c].used /\ \A x \in Children(tree, c) : tree[x].prev = c
    BY DEF LinkInv, Agreeing
  <2>2. c \in Cells
    BY ChildrenInTree DEF LinkInv
  <2>3. Children(tree, c) # {} => tree[c].next # tree[c].fold
    BY <2>2 DEF LinkInv, TreeInv, NodeInv, Children
  <2>4. c # head => tree[c].prev \in InTree(tree)
    BY ParentInTree DEF LinkInv
  <2> QED
    BY <2>1, <2>3, <2>4
<1> QED
  BY LinkInit, LinkStep, <1>1, PTL DEF Spec

\* addfile and addfolder cut nothing off the tree, unless the last node of the
\* folder is itself a folder.
THEOREM AddsLoseNothing == Spec => AddLosesNothing
<1> DEFINE LastIsFolder(p) ==
             LET last == searchlast(tree, p) IN last # search(tree, p) /\ tree[last].dflag
           Lossless ==
             Running' /\ ~(InTree(tree) \subseteq InTree(tree')) =>
               \A p \in Paths, name \in Names, dflag \in BOOLEAN :
                 Add(name, dflag, p) => LastIsFolder(p)
<1>1. ASSUME LinkInv, Running', ~(InTree(tree) \subseteq InTree(tree')),
             NEW p \in Paths, NEW name \in Names, NEW dflag \in BOOLEAN, Add(name, dflag, p)
      PROVE  LastIsFolder(p)
  <2> DEFINE line == [fname |-> name, dflag |-> dflag, loc |-> p]
  <2>1. line \in Lines /\ line.loc = p
    BY DEF Lines, Locs
  <2> HIDE DEF line
  <2>2. ~Crash
    BY <1>1 DEF Running, Crash
  <2>3. /\ HasRoom /\ addnode(tree, line) # <<>> /\ tree' = addnode(tree, line)
        /\ search(tree, p) \in Cells => tree[search(tree, p)].dflag
    BY <1>1, <2>2 DEF Add, line
  <2> QED
    BY <1>1, <2>1, <2>3, AddKeepsAll DEF LinkInv, HasRoom
<1>2. LinkInv => Lossless
  BY <1>1
<1> HIDE DEF Lossless
<1>3. Spec => [][Lossless]_vars
  BY LinkInit, LinkStep, <1>2, PTL DEF Spec
<1> QED
  BY <1>3 DEF AddLosesNothing, Lossless

-----------------------------------------------------------------------------
(* The shape of a tree follows from its lines.                              *)

\* What the shape from x is made of, and a function that gives it for each node.
ShapeHere(t, f, x) ==
  IF x = DNULL THEN <<>>
  ELSE <<[fname |-> t[x].fname, dflag |-> t[x].dflag, inside |-> f[t[x].fold]]>> \o f[t[x].next]
Shaping(t, f) == f = [x \in InTree(t) \cup {DNULL} |-> ShapeHere(t, f, x)]

LEMMA ShapingOnce ==
  ASSUME NEW t, NEW ch, NEW ls, Listed(t, ch, ls), NEW f, Shaping(t, f), NEW g, Shaping(t, g)
  PROVE  f = g
<1>1. \A x \in InTree(t) \cup {DNULL} : f[x] = ShapeHere(t, f, x) /\ g[x] = ShapeHere(t, g, x)
  BY DEF Shaping
<1>2. f[DNULL] = g[DNULL]
  BY <1>1 DEF ShapeHere
<1>3. ASSUME NEW x \in InTree(t), f[Succ(t, x)] = g[Succ(t, x)] PROVE f[x] = g[x]
  <2>1. f[t[x].fold] = g[t[x].fold] /\ f[t[x].next] = g[t[x].next]
    BY <1>2, <1>3, OneChild, ListedFacts DEF Listed
  <2> QED
    BY <1>1, <2>1 DEF ShapeHere
<1>4. Chain(t, ch, Len(ls))
  BY DEF Listed
<1>5. \A x \in InTree(t) : f[x] = g[x]
  BY <1>2, <1>3, <1>4, FromLast
<1> QED
  BY <1>2, <1>5 DEF Shaping

\* The shapes from the lines of ls, from behind: of none, of the last, and so on.
Piece(line, rest) ==
  IF line.dflag
  THEN <<[fname |-> line.fname, dflag |-> line.dflag, inside |-> rest]>> \o <<>>
  ELSE <<[fname |-> line.fname, dflag |-> line.dflag, inside |-> <<>>]>> \o rest
Shapes(ls, n, h) ==
  h = [i \in 1..n |-> IF i = 1 THEN <<>> ELSE Piece(ls[Len(ls) + 2 - i], h[i - 1])]

LEMMA ShapesExist ==
  ASSUME NEW ls, Len(ls) \in Nat
  PROVE  \E h : Shapes(ls, Len(ls) + 1, h)
<1> DEFINE k == Len(ls) + 1
           Has == {n \in 1..k : \E h : Shapes(ls, n, h)}
<1>1. k \in Nat /\ k > 0 /\ k \in 1..k /\ 1 \in 1..k
  OBVIOUS
<1> HIDE DEF k
<1>2. 1 \in Has
  <2> DEFINE h == [i \in 1..1 |-> <<>>]
  <2>1. \A i \in 1..1 : i = 1
    OBVIOUS
  <2>2. h = [i \in 1..1 |-> IF i = 1 THEN <<>> ELSE Piece(ls[Len(ls) + 2 - i], h[i - 1])]
    BY <2>1
  <2>3. Shapes(ls, 1, h)
    BY <2>2 DEF Shapes
  <2> HIDE DEF h
  <2> QED
    BY <1>1, <2>3
<1>3. ASSUME NEW n \in 1..k, n > 1, n - 1 \in Has PROVE n \in Has
  <2>1. PICK g : Shapes(ls, n - 1, g)
    BY <1>3
  <2> DEFINE Rest(i, f) == IF i = 1 THEN <<>> ELSE Piece(ls[Len(ls) + 2 - i], f[i - 1])
             h == [i \in 1..n |-> IF i = n THEN Rest(n, g) ELSE g[i]]
  <2>2. \A i \in 1..(n - 1) : g[i] = Rest(i, g)
    BY <2>1 DEF Shapes
  <2>3. \A i \in 1..n : /\ i # n => i \in 1..(n - 1)
                        /\ i # 1 => i - 1 \in 1..n /\ i - 1 # n
    BY <1>1
  <2>4. \A i \in 1..n : i # 1 => h[i - 1] = g[i - 1]
    BY <2>3
  <2>5. \A i \in 1..n : Rest(i, h) = Rest(i, g)
    BY <2>4
  <2>6. \A i \in 1..n : h[i] = Rest(i, g)
    <3> HIDE DEF Rest
    <3> QED
      BY <2>2, <2>3
  <2> HIDE DEF Rest
  <2>7. h = [i \in 1..n |-> Rest(i, h)]
    <3>1. h = [i \in 1..n |-> h[i]]
      OBVIOUS
    <3> HIDE DEF h
    <3> QED
      BY <2>5, <2>6, <3>1
  <2> HIDE DEF h
  <2>8. Shapes(ls, n, h)
    BY <2>7 DEF Shapes, Rest
  <2> QED
    BY <2>8
<1> HIDE DEF Has
<1>4. 1..k \subseteq Has
  BY <1>1, <1>2, <1>3, HandedOn
<1> QED
  BY <1>1, <1>4 DEF Has, k

LEMMA ShapeIs ==
  ASSUME NEW t, NEW ch, NEW ls, Listed(t, ch, ls), NEW h, Shapes(ls, Len(ls) + 1, h)
  PROVE  Shape(t) = h[Len(ls) + 1]
<1> DEFINE k == Len(ls)
           At(x) == CHOOSE i \in 1..k : ch[i] = x
           f == [x \in InTree(t) \cup {DNULL} |-> IF x = DNULL THEN <<>> ELSE h[k + 2 - At(x)]]
<1>1. /\ k \in Nat /\ k > 0 /\ DNULL \notin InTree(t)
      /\ \A i \in 1..k : ch[i] \in InTree(t) /\ ch[i] \in Cells
      /\ \A x \in InTree(t) : \E i \in 1..k : x = ch[i]
  BY ListedFacts
<1>2. \A i, j \in 1..k : ch[i] = ch[j] => i = j
  BY DEF Listed, Chain
<1>3. \A i \in 1..k : Succ(t, ch[i]) = IF i = k THEN DNULL ELSE ch[i + 1]
  BY DEF Listed, Chain
<1>4. \A i \in 1..k : At(ch[i]) = i
  BY <1>2
<1> HIDE DEF At
<1>5. f[DNULL] = <<>> /\ \A i \in 1..k : f[ch[i]] = h[k + 2 - i]
  BY <1>1, <1>4
<1>6. f = [x \in InTree(t) \cup {DNULL} |-> f[x]]
  OBVIOUS
<1> HIDE DEF f
<1>7. h[1] = <<>> /\ \A i \in 1..k : h[k + 2 - i] = Piece(ls[i], h[k + 1 - i])
  <2>1. \A j \in 1..(k + 1) : h[j] = IF j = 1 THEN <<>> ELSE Piece(ls[k + 2 - j], h[j - 1])
    BY DEF Shapes
  <2>2. 1 \in 1..(k + 1)
    BY <1>1
  <2>3. h[1] = <<>>
    BY <2>1, <2>2
  <2>4. ASSUME NEW i \in 1..k PROVE h[k + 2 - i] = Piece(ls[i], h[k + 1 - i])
    <3> DEFINE j == k + 2 - i
    <3>1. j \in 1..(k + 1) /\ j # 1 /\ j - 1 = k + 1 - i /\ k + 2 - j = i
      BY <1>1
    <3> HIDE DEF j
    <3>2. h[j] = Piece(ls[k + 2 - j], h[j - 1])
      BY <2>1, <3>1
    <3> QED
      BY <3>1, <3>2 DEF j
  <2> QED
    BY <2>3, <2>4
<1>8. ASSUME NEW i \in 1..k PROVE f[ch[i]] = ShapeHere(t, f, ch[i])
  <2> DEFINE x == ch[i]
             rest == h[k + 1 - i]
  <2>1. /\ x # DNULL /\ x \in Cells /\ f[x] = Piece(ls[i], rest)
        /\ ls[i].fname = t[x].fname /\ ls[i].dflag = t[x].dflag
    <3>1. ls[i] = LineOf(t, x)
      BY DEF Listed
    <3>2. ls[i].fname = t[x].fname /\ ls[i].dflag = t[x].dflag
      BY <3>1 DEF LineOf
    <3>3. f[x] = Piece(ls[i], rest)
      BY <1>5, <1>7
    <3> QED
      BY <1>1, <3>2, <3>3
  <2>2. f[Succ(t, x)] = rest
    <3>1. CASE i = k
      <4>1. k + 1 - i = 1
        BY <1>1, <3>1
      <4> QED
        BY <1>3, <1>5, <1>7, <3>1, <4>1
    <3>2. CASE i # k
      <4>1. i + 1 \in 1..k /\ k + 2 - (i + 1) = k + 1 - i
        BY <1>1, <3>2
      <4>2. Succ(t, x) = ch[i + 1] /\ f[ch[i + 1]] = h[k + 2 - (i + 1)]
        BY <1>3, <1>5, <3>2, <4>1
      <4> QED
        BY <4>1, <4>2
    <3> QED
      BY <3>1, <3>2
  <2> HIDE DEF rest
  <2>3. CASE t[x].dflag
    <3>1. t[x].next = DNULL /\ t[x].fold = Succ(t, x)
      BY <2>1, <2>3, OneChild DEF Listed
    <3> QED
      BY <1>5, <2>1, <2>2, <2>3, <3>1 DEF ShapeHere, Piece
  <2>4. CASE ~t[x].dflag
    <3>1. t[x].fold = DNULL /\ t[x].next = Succ(t, x)
      BY <2>1, <2>4, OneChild DEF Listed
    <3> QED
      BY <1>5, <2>1, <2>2, <2>4, <3>1 DEF ShapeHere, Piece
  <2> QED
    BY <2>3, <2>4
<1>9. Shaping(t, f)
  <2>1. ShapeHere(t, f, DNULL) = <<>>
    BY DEF ShapeHere
  <2>2. \A x \in InTree(t) \cup {DNULL} : f[x] = ShapeHere(t, f, x)
    BY <1>1, <1>5, <1>8, <2>1
  <2> QED
    BY <1>6, <2>2 DEF Shaping
<1>10. Shape(t) = (CHOOSE g : Shaping(t, g))[head]
  BY DEF Shape, Shaping, ShapeHere
<1>11. Shaping(t, CHOOSE g : Shaping(t, g))
  BY <1>9
<1>12. (CHOOSE g : Shaping(t, g)) = f
  BY <1>9, <1>11, ShapingOnce
<1>13. head = ch[1] /\ 1 \in 1..k /\ k + 2 - 1 = k + 1
  BY <1>1 DEF Listed, Chain
<1> QED
  BY <1>5, <1>10, <1>12, <1>13

\* Trees with the same lines have the same shape.
LEMMA SameShape ==
  ASSUME NEW t, NEW ch, NEW ls, Listed(t, ch, ls), NEW u, NEW dh, Listed(u, dh, ls)
  PROVE  Shape(t) = Shape(u)
<1>1. Len(ls) \in Nat
  BY ListedFacts
<1>2. PICK h : Shapes(ls, Len(ls) + 1, h)
  BY <1>1, ShapesExist
<1>3. Shape(t) = h[Len(ls) + 1] /\ Shape(u) = h[Len(ls) + 1]
  BY <1>2, ShapeIs
<1> QED
  BY <1>3

-----------------------------------------------------------------------------
(* Searches on the list.                                                    *)

\* Where the links of the node at a place lead.
LEMMA LinksOf ==
  ASSUME NEW t, NEW ch, NEW ls, Listed(t, ch, ls), NEW p \in 1..Len(ls)
  PROVE  /\ t[ch[p]].fname = ls[p].fname /\ t[ch[p]].dflag = ls[p].dflag /\ t[ch[p]].loc = ls[p].loc
         /\ t[ch[p]].next = IF ls[p].dflag \/ p = Len(ls) THEN DNULL ELSE ch[p + 1]
         /\ t[ch[p]].fold = IF ls[p].dflag /\ p # Len(ls) THEN ch[p + 1] ELSE DNULL
         /\ p # Len(ls) => p + 1 \in 1..Len(ls)
<1> DEFINE c == ch[p]
<1>1. ls[p] = LineOf(t, c)
  BY DEF Listed
<1>2. ls[p].fname = t[c].fname /\ ls[p].dflag = t[c].dflag /\ ls[p].loc = t[c].loc
  BY <1>1 DEF LineOf
<1>3. Succ(t, c) = IF p = Len(ls) THEN DNULL ELSE ch[p + 1]
  BY DEF Listed, Chain
<1>4. c \in Cells /\ TreeInv(t)
  BY ListedFacts DEF Listed
<1> HIDE DEF c
<1>5. /\ t[c].dflag => t[c].next = DNULL /\ t[c].fold = Succ(t, c)
      /\ ~t[c].dflag => t[c].fold = DNULL /\ t[c].next = Succ(t, c)
  BY <1>4, OneChild
<1>6. /\ t[c].next = IF ls[p].dflag \/ p = Len(ls) THEN DNULL ELSE ch[p + 1]
      /\ t[c].fold = IF ls[p].dflag /\ p # Len(ls) THEN ch[p + 1] ELSE DNULL
  BY <1>2, <1>3, <1>5
<1>7. p # Len(ls) => p + 1 \in 1..Len(ls)
  <2>1. Len(ls) \in Nat
    BY ListedFacts
  <2> QED
    BY <2>1
<1> QED
  BY <1>2, <1>6, <1>7 DEF c

LEMMA ListShort ==
  ASSUME NEW t, NEW ch, NEW ls, Listed(t, ch, ls)
  PROVE  Len(ls) <= Cardinality(Cells)
<1> DEFINE k == Len(ls)
           N == Cardinality(Cells)
<1>1. k \in Nat /\ N \in Nat /\ IsFiniteSet(Cells)
  BY ListedFacts, CellsFinite
<1>2. IsFiniteSet(1..k) /\ Cardinality(1..k) = k
  <2> HIDE DEF k
  <2>1. 1 \in Int /\ k \in Int /\ IF 1 > k THEN k = 0 ELSE k - 1 + 1 = k
    BY <1>1
  <2> QED
    BY <2>1, FS_Interval
<1>3. ch \in [1..k -> Cells] /\ \A i, j \in 1..k : ch[i] = ch[j] => i = j
  BY DEF Listed, Chain
<1> SUFFICES ASSUME N < k PROVE FALSE
  BY <1>1
<1>4. Cardinality(Cells) < Cardinality(1..k)
  BY <1>2
<1> HIDE DEF k, N
<1>5. \E i, j \in 1..k : i # j /\ ch[i] = ch[j]
  BY <1>1, <1>2, <1>3, <1>4, FS_PigeonHole
<1> QED
  BY <1>3, <1>5

\* The place of the last node that a walk over next siblings from s is at.
EndOf(ls, s, e) ==
  /\ e \in s..Len(ls) /\ \A p \in s..(e - 1) : ~ls[p].dflag
  /\ e = Len(ls) \/ ls[e].dflag

LEMMA EndExists ==
  ASSUME NEW ls, Len(ls) \in Nat, NEW s \in 1..Len(ls)
  PROVE  \E e : EndOf(ls, s, e)
<1> DEFINE T == {e \in s..Len(ls) : e = Len(ls) \/ ls[e].dflag}
<1>1. T \in SUBSET Nat /\ Len(ls) \in T
  OBVIOUS
<1>2. PICK m \in T : \A e \in T : m <= e
  BY <1>1, Least
<1>3. ASSUME NEW p \in s..(m - 1) PROVE ~ls[p].dflag
  <2>1. p \in s..Len(ls) /\ ~(m <= p)
    BY <1>2
  <2>2. p \notin T
    BY <1>2, <2>1
  <2> QED
    BY <2>1, <2>2
<1> QED
  BY <1>2, <1>3 DEF EndOf

LEMMA SiblingsAre ==
  ASSUME NEW t, NEW ch, NEW ls, Listed(t, ch, ls), NEW s \in 1..Len(ls),
         NEW e, EndOf(ls, s, e)
  PROVE  LET at == Siblings(t, ch[s])
             n  == Cardinality(Cells) + 1
         IN /\ DOMAIN at = 1..n /\ n \in Nat
            /\ \A j \in 1..n : at[j] = IF s + j - 1 <= e THEN ch[s + j - 1] ELSE DNULL
<1> DEFINE k == Len(ls)
           n == Cardinality(Cells) + 1
           at == Siblings(t, ch[s])
           There(j) == IF s + j - 1 <= e THEN ch[s + j - 1] ELSE DNULL
           Has == {j \in 1..n : at[j] = There(j)}
<1>1. /\ k \in Nat /\ n \in Nat /\ n > 0 /\ s \in 1..k /\ e \in s..k
      /\ \A p \in s..(e - 1) : ~ls[p].dflag
      /\ e = k \/ ls[e].dflag
  <2>1. k \in Nat /\ n \in Nat /\ n > 0
    BY ListedFacts, CellsFinite
  <2> QED
    BY <2>1 DEF EndOf
<1>2. /\ at \in [1..n -> InTree(t) \cup {DNULL}]
      /\ at[1] = ch[s] /\ \A i \in 1..n : i > 1 => at[i] = NextOf(t, at[i - 1])
  <2>1. ch[s] \in InTree(t) /\ Agreeing(t)
    BY ListedFacts DEF Listed
  <2> QED
    BY <2>1, SiblingsUnfold
<1>3. \A p \in 1..k : /\ ch[p] # DNULL
                      /\ t[ch[p]].next = IF ls[p].dflag \/ p = k THEN DNULL ELSE ch[p + 1]
  <2>1. \A p \in 1..k : ch[p] # DNULL
    BY ListedFacts
  <2> QED
    BY <2>1, LinksOf
<1> HIDE DEF k, n, at
<1>4. 1 \in Has
  <2>1. s + 1 - 1 = s /\ s <= e /\ 1 \in 1..n
    BY <1>1
  <2> QED
    BY <1>2, <2>1
<1>5. ASSUME NEW i \in 1..n, i > 1, i - 1 \in Has PROVE i \in Has
  <2> DEFINE p == s + (i - 1) - 1
  <2>1. at[i] = NextOf(t, at[i - 1]) /\ at[i - 1] = There(i - 1)
    BY <1>2, <1>5
  <2>2. p \in Nat /\ p >= s /\ s + i - 1 = p + 1 /\ e \in Nat
    BY <1>1, <1>5
  <2>3. CASE p < e
    <3>1. p \in s..(e - 1) /\ p \in 1..k /\ p # k /\ p + 1 <= e
      BY <1>1, <2>2, <2>3
    <3>2. at[i - 1] = ch[p] /\ ~ls[p].dflag
      BY <1>1, <2>1, <3>1
    <3>3. at[i] = ch[p + 1]
      BY <1>3, <2>1, <3>1, <3>2 DEF NextOf
    <3> QED
      BY <2>2, <3>1, <3>3
  <2>4. CASE p = e
    <3>1. p \in 1..k /\ p <= e /\ ~(p + 1 <= e)
      BY <1>1, <2>2, <2>4
    <3>2. at[i - 1] = ch[p]
      BY <2>1, <3>1
    <3>3. at[i] = DNULL
      BY <1>1, <1>3, <2>1, <2>4, <3>1, <3>2 DEF NextOf
    <3> QED
      BY <2>2, <3>1, <3>3
  <2>5. CASE p > e
    <3>1. ~(p <= e) /\ ~(p + 1 <= e)
      BY <2>2, <2>5
    <3>2. at[i] = DNULL
      BY <2>1, <3>1 DEF NextOf
    <3> QED
      BY <2>2, <3>1, <3>2
  <2> QED
    BY <2>2, <2>3, <2>4, <2>5
<1> HIDE DEF Has
<1>6. 1..n \subseteq Has
  BY <1>1, <1>4, <1>5, HandedOn
<1> QED
  BY <1>1, <1>2, <1>6 DEF Has, n, at

\* The first of the nodes from s that is called name, all before it files.
FirstAt(ls, s, name, q) ==
  /\ q \in s..Len(ls) /\ ls[q].fname = name
  /\ \A p \in s..(q - 1) : ~ls[p].dflag /\ ls[p].fname # name

LEMMA FirstIsOne ==
  ASSUME NEW ls, Len(ls) \in Nat, NEW s \in Nat, NEW name,
         NEW q, FirstAt(ls, s, name, q), NEW r, FirstAt(ls, s, name, r)
  PROVE  q = r
<1>1. /\ q \in s..Len(ls) /\ ls[q].fname = name /\ \A p \in s..(q - 1) : ls[p].fname # name
      /\ r \in s..Len(ls) /\ ls[r].fname = name /\ \A p \in s..(r - 1) : ls[p].fname # name
  BY DEF FirstAt
<1>2. CASE q < r
  <2>1. q \in s..(r - 1)
    BY <1>1, <1>2
  <2> QED
    BY <1>1, <2>1
<1>3. CASE r < q
  <2>1. r \in s..(q - 1)
    BY <1>1, <1>3
  <2> QED
    BY <1>1, <2>1
<1> QED
  BY <1>1, <1>2, <1>3

LEMMA NamedAt ==
  ASSUME NEW t, NEW ch, NEW ls, Listed(t, ch, ls), NEW s \in 1..Len(ls), NEW name
  PROVE  /\ \A q : FirstAt(ls, s, name, q) => Named(t, ch[s], name) = ch[q]
         /\ Named(t, ch[s], name) # DNULL => \E q : FirstAt(ls, s, name, q)
<1> DEFINE k == Len(ls)
           n == Cardinality(Cells) + 1
           at == Siblings(t, ch[s])
           called == {i \in DOMAIN at : at[i] # DNULL /\ t[at[i]].fname = name}
           m == CHOOSE i \in called : \A j \in called : i <= j
<1>1. k \in Nat /\ s \in 1..k /\ \A p \in 1..k : ch[p] # DNULL /\ t[ch[p]].fname = ls[p].fname
  <2>1. \A p \in 1..k : ch[p] # DNULL
    BY ListedFacts
  <2>2. \A p \in 1..k : t[ch[p]].fname = ls[p].fname
    BY LinksOf
  <2> QED
    BY <2>1, <2>2, ListedFacts
<1>2. PICK e : EndOf(ls, s, e)
  BY <1>1, EndExists
<1>3. /\ DOMAIN at = 1..n /\ n \in Nat
      /\ \A j \in 1..n : at[j] = IF s + j - 1 <= e THEN ch[s + j - 1] ELSE DNULL
  BY <1>2, SiblingsAre
<1>4. Named(t, ch[s], name) = FirstOf(at, called)
  BY DEF Named
<1>5. e \in s..k /\ (\A p \in s..(e - 1) : ~ls[p].dflag) /\ (e = k \/ ls[e].dflag)
  BY <1>2 DEF EndOf
<1>6. k < n
  <2>1. k <= Cardinality(Cells) /\ Cardinality(Cells) \in Nat
    BY ListShort, CellsFinite
  <2> HIDE DEF k
  <2> QED
    BY <1>1, <2>1
<1> HIDE DEF k, n, at
<1>7. ASSUME NEW i \in 1..n
      PROVE  i \in called <=> s + i - 1 <= e /\ ls[s + i - 1].fname = name
  <2> DEFINE p == s + i - 1
  <2>1. p <= e => p \in 1..k
    BY <1>1, <1>3, <1>5
  <2>2. at[i] = IF p <= e THEN ch[p] ELSE DNULL
    BY <1>3
  <2> HIDE DEF p
  <2>3. i \in called <=> p <= e /\ ls[p].fname = name
    BY <1>1, <1>3, <2>1, <2>2
  <2> QED
    BY <2>3 DEF p
<1>8. called \in SUBSET Nat /\ called \subseteq 1..n
  BY <1>3
<1>9. ASSUME NEW q, FirstAt(ls, s, name, q)
      PROVE  (q - s) + 1 \in called
  <2>1. q \in s..k /\ ls[q].fname = name /\ \A p \in s..(q - 1) : ~ls[p].dflag
    BY <1>9 DEF FirstAt, k
  <2>2. q <= e
    <3>1. CASE e < q
      <4>1. e \in s..(q - 1) /\ e # k
        BY <1>1, <1>5, <2>1, <3>1
      <4> QED
        BY <1>5, <2>1, <4>1
    <3> QED
      BY <1>1, <1>5, <2>1, <3>1
  <2>3. (q - s) + 1 \in 1..n /\ s + ((q - s) + 1) - 1 = q
    BY <1>1, <1>3, <1>6, <2>1
  <2> HIDE DEF called
  <2> QED
    BY <1>7, <2>1, <2>2, <2>3
<1>10. CASE called = {}
  <2>1. Named(t, ch[s], name) = DNULL
    BY <1>4, <1>10 DEF FirstOf
  <2> QED
    BY <1>9, <1>10, <2>1
<1>11. CASE called # {}
  <2> DEFINE r == s + m - 1
  <2>1. m \in called /\ \A j \in called : m <= j
    <3>1. \E i \in called : \A j \in called : i <= j
      BY <1>8, <1>11, Least
    <3> HIDE DEF called
    <3> QED
      BY <3>1
  <2>2. Named(t, ch[s], name) = at[m]
    BY <1>4, <1>11 DEF FirstOf
  <2> HIDE DEF called, m
  <2>3. m \in 1..n /\ r <= e /\ ls[r].fname = name
    BY <1>7, <1>8, <2>1
  <2>4. at[m] = ch[r]
    BY <1>3, <2>3
  <2>5. m \in Nat /\ r \in s..k
    BY <1>1, <1>3, <1>5, <2>3
  <2>6. ASSUME NEW p \in s..(r - 1)
        PROVE  ~ls[p].dflag /\ ls[p].fname # name
    <3>1. p \in s..(e - 1)
      BY <1>1, <1>5, <2>3, <2>5
    <3>2. (p - s) + 1 \in 1..n /\ ~(m <= (p - s) + 1) /\ s + ((p - s) + 1) - 1 = p /\ p <= e
      BY <1>1, <1>3, <1>5, <1>6, <2>3, <2>5
    <3>3. ls[p].fname # name
      BY <1>7, <2>1, <3>2
    <3> QED
      BY <1>5, <3>1, <3>3
  <2> HIDE DEF r
  <2>7. FirstAt(ls, s, name, r)
    BY <2>3, <2>5, <2>6 DEF FirstAt, k
  <2>8. \A q : FirstAt(ls, s, name, q) => q = r
    BY <1>1, <2>7, FirstIsOne DEF k
  <2> QED
    BY <2>2, <2>4, <2>7, <2>8
<1> QED
  BY <1>10, <1>11

\* Nothing is found from no node.
LEMMA NamedNowhere ==
  ASSUME NEW t, Agreeing(t), NEW name
  PROVE  Named(t, DNULL, name) = DNULL
<1> DEFINE n == Cardinality(Cells) + 1
           at == Siblings(t, DNULL)
           Has == {i \in 1..n : at[i] = DNULL}
<1>1. n \in Nat /\ at \in [1..n -> InTree(t) \cup {DNULL}] /\ at[1] = DNULL
      /\ \A i \in 1..n : i > 1 => at[i] = NextOf(t, at[i - 1])
  BY CellsFinite, SiblingsUnfold
<1> HIDE DEF n, at
<1>2. n > 0 => 1 \in Has
  BY <1>1
<1>3. \A i \in 1..n : i > 1 /\ i - 1 \in Has => i \in Has
  BY <1>1 DEF NextOf
<1> HIDE DEF Has
<1>4. 1..n \subseteq Has
  BY <1>1, <1>2, <1>3, HandedOn
<1>5. {i \in DOMAIN at : at[i] # DNULL /\ t[at[i]].fname = name} = {}
  BY <1>1, <1>4 DEF Has
<1> QED
  BY <1>5 DEF Named, FirstOf, at

\* What a name leads to in the folder at p.
InFolder(ls, p, name, q) == p \in 1..Len(ls) /\ ls[p].dflag /\ FirstAt(ls, p + 1, name, q)

LEMMA NamedIn ==
  ASSUME NEW t, NEW ch, NEW ls, Listed(t, ch, ls), NEW p \in 1..Len(ls), NEW name
  PROVE  LET found == Named(t, FoldOf(t, ch[p]), name)
         IN /\ \A q : InFolder(ls, p, name, q) => found = ch[q] /\ t[ch[p]].fold # DNULL
            /\ found # DNULL => \E q : InFolder(ls, p, name, q)
<1>1. Len(ls) \in Nat /\ ch[p] # DNULL /\ Agreeing(t)
  BY ListedFacts DEF Listed
<1>2. /\ FoldOf(t, ch[p]) = t[ch[p]].fold
      /\ t[ch[p]].fold = IF ls[p].dflag /\ p # Len(ls) THEN ch[p + 1] ELSE DNULL
      /\ p # Len(ls) => p + 1 \in 1..Len(ls)
  BY <1>1, LinksOf DEF FoldOf
<1>3. CASE ls[p].dflag /\ p # Len(ls)
  <2>1. ch[p + 1] # DNULL
    BY <1>2, <1>3, ListedFacts
  <2> QED
    BY <1>2, <1>3, <2>1, NamedAt DEF InFolder
<1>4. CASE ~(ls[p].dflag /\ p # Len(ls))
  <2>1. \A q : ~InFolder(ls, p, name, q)
    <3>1. p = Len(ls) => (p + 1)..Len(ls) = {}
      BY <1>1
    <3> QED
      BY <1>4, <3>1 DEF InFolder, FirstAt
  <2> QED
    BY <1>1, <1>2, <1>4, <2>1, NamedNowhere
<1> QED
  BY <1>3, <1>4

\* What the last one has and each one hands back, all have.
LEMMA HandedBack ==
  ASSUME NEW n \in Nat, NEW Has, n \in Has,
         \A i \in 1..n : i > 1 /\ i \in Has => i - 1 \in Has
  PROVE  1..n \subseteq Has
<1> DEFINE Back == {j \in 1..n : n + 1 - j \in Has}
<1>1. n > 0 => 1 \in Back
  OBVIOUS
<1>2. ASSUME NEW j \in 1..n, j > 1, j - 1 \in Back PROVE j \in Back
  <2> DEFINE i == n + 1 - (j - 1)
  <2>1. i \in 1..n /\ i > 1 /\ i - 1 = n + 1 - j /\ i \in Has
    BY <1>2
  <2> HIDE DEF i
  <2> QED
    BY <2>1
<1> HIDE DEF Back
<1>3. 1..n \subseteq Back
  BY <1>1, <1>2, HandedOn
<1>4. ASSUME NEW i \in 1..n PROVE i \in Has
  <2>1. n + 1 - i \in 1..n /\ n + 1 - (n + 1 - i) = i
    OBVIOUS
  <2> QED
    BY <1>3, <2>1 DEF Back
<1> QED
  BY <1>4

\* The head is the first line, and the only one called home.
Headed(ls) ==
  /\ Len(ls) \in Nat /\ Len(ls) > 0 /\ ls[1] = HeadLine
  /\ \A i \in 2..Len(ls) : ls[i].fname # home

LEMMA NoHomeInside ==
  ASSUME NEW ls, Headed(ls), NEW p, NEW q
  PROVE  ~InFolder(ls, p, home, q)
<1> SUFFICES ASSUME InFolder(ls, p, home, q) PROVE FALSE
  OBVIOUS
<1>1. p \in 1..Len(ls) /\ q \in (p + 1)..Len(ls) /\ ls[q].fname = home
  BY DEF InFolder, FirstAt
<1>2. q \in 2..Len(ls)
  BY <1>1 DEF Headed
<1> QED
  BY <1>1, <1>2 DEF Headed

LEMMA HeadIs ==
  ASSUME NEW t, NEW ch, NEW ls, Listed(t, ch, ls), Headed(ls)
  PROVE  /\ 1 \in 1..Len(ls) /\ ch[1] = head /\ head \in InTree(t) /\ head \in Cells
         /\ ls[1].fname = home /\ ls[1].dflag /\ t[head].fname = home
         /\ head # DNULL
         /\ \A name : Named(t, head, name) = IF name = home THEN head ELSE DNULL
<1>1. 1 \in 1..Len(ls) /\ ch[1] = head /\ head \in InTree(t) /\ head \in Cells /\ head # DNULL
  <2>1. 1 \in 1..Len(ls) /\ ch[1] = head
    BY DEF Headed, Listed, Chain
  <2> QED
    BY <2>1, ListedFacts, CellsFinite
<1>2. ls[1].fname = home /\ ls[1].dflag
  BY DEF Headed, HeadLine
<1>3. t[head].fname = home
  BY <1>1, <1>2, LinksOf
<1>4. ASSUME NEW name PROVE Named(t, head, name) = IF name = home THEN head ELSE DNULL
  <2>1. /\ \A q : FirstAt(ls, 1, name, q) => Named(t, ch[1], name) = ch[q]
        /\ Named(t, ch[1], name) # DNULL => \E q : FirstAt(ls, 1, name, q)
    BY <1>1, NamedAt
  <2>2. ASSUME NEW q, FirstAt(ls, 1, name, q) PROVE name = home
    <3>1. q \in 1..Len(ls) /\ ls[q].fname = name /\ \A p \in 1..(q - 1) : ~ls[p].dflag
      BY <2>2 DEF FirstAt
    <3>2. CASE q = 1
      BY <1>2, <3>1, <3>2
    <3>3. CASE q # 1
      <4>1. 1 \in 1..(q - 1)
        BY <3>1, <3>3
      <4> QED
        BY <1>2, <3>1, <4>1
    <3> QED
      BY <3>2, <3>3
  <2>3. FirstAt(ls, 1, home, 1)
    <3>1. 1..(1 - 1) = {}
      OBVIOUS
    <3> QED
      BY <1>1, <1>2, <3>1 DEF FirstAt
  <2> QED
    BY <1>1, <2>1, <2>2, <2>3
<1> QED
  BY <1>1, <1>2, <1>3, <1>4

\* The last name of a path, looked up in the folder at p.
LEMMA LastNameIn ==
  ASSUME NEW t, NEW ch, NEW ls, Listed(t, ch, ls), Headed(ls), NEW p \in 1..Len(ls),
         NEW name, name # home,
         NEW first, first = t[ch[p]].fold \/ (first = head /\ p = 1)
  PROVE  LET found == LastName(t, first, name)
         IN /\ \A q : InFolder(ls, p, name, q) => found = ch[q]
            /\ found \in Cells => \E q : InFolder(ls, p, name, q) /\ found = ch[q]
<1> DEFINE in == Named(t, FoldOf(t, ch[p]), name)
<1>1. /\ \A q : InFolder(ls, p, name, q) => in = ch[q] /\ t[ch[p]].fold # DNULL
      /\ in # DNULL => \E q : InFolder(ls, p, name, q)
  BY NamedIn
<1>2. ch[p] # DNULL /\ FoldOf(t, ch[p]) = t[ch[p]].fold
  BY ListedFacts DEF FoldOf
<1>3. head # DNULL /\ t[head].fname = home /\ ch[1] = head
  BY HeadIs
<1>4. CASE first = head /\ p = 1
  <2>1. LastName(t, first, name) = in
    BY <1>2, <1>3, <1>4 DEF LastName
  <2> QED
    BY <1>1, <2>1, CellsFinite
<1>5. CASE first = t[ch[p]].fold
  <2>1. CASE first = DNULL
    <3>1. LastName(t, first, name) = Fault
      BY <2>1 DEF LastName
    <3> QED
      BY <1>1, <1>5, <2>1, <3>1, CellsFinite DEF Links
  <2>2. CASE first # DNULL
    <3>1. p # Len(ls) /\ first = ch[p + 1] /\ p + 1 \in 1..Len(ls)
      BY <1>5, <2>2, LinksOf
    <3>2. t[first].fname = ls[p + 1].fname
      BY <3>1, LinksOf
    <3>3. p + 1 \in 2..Len(ls)
      BY <3>1 DEF Headed
    <3>4. t[first].fname # home
      BY <3>2, <3>3 DEF Headed
    <3>5. LastName(t, first, name) = in
      BY <1>2, <1>5, <2>2, <3>4 DEF LastName
    <3> QED
      BY <1>1, <3>5, CellsFinite
  <2> QED
    BY <2>1, <2>2
<1> QED
  BY <1>4, <1>5

\* The places that the folders of a path lead to.
LEMMA FoldersLead ==
  ASSUME NEW t, NEW ch, NEW ls, Listed(t, ch, ls), Headed(ls), NEW path, Len(path) \in Nat,
         Len(path) > 1, NEW folder, Folders(t, head, path, folder),
         folder[Len(path) - 1] # DNULL
  PROVE  /\ path[1] = home
         /\ \E phi \in [1..(Len(path) - 1) -> 1..Len(ls)] :
              /\ phi[1] = 1 /\ folder[Len(path) - 1] = ch[phi[Len(path) - 1]]
              /\ \A i \in 1..(Len(path) - 1) :
                   i > 1 => InFolder(ls, phi[i - 1], path[i], phi[i])
<1> DEFINE n == Len(path) - 1
           k == Len(ls)
           Has == {i \in 1..n : folder[i] # DNULL}
           Place(x) == CHOOSE p \in 1..k : x = ch[p]
           phi == [i \in 1..n |-> Place(folder[i])]
<1>1. n \in Nat /\ n > 0 /\ 1 \in 1..n /\ n \in 1..n
  OBVIOUS
<1>2. /\ folder \in [1..n -> InTree(t) \cup {DNULL}] /\ folder[1] = Named(t, head, path[1])
      /\ \A i \in 1..n : i > 1 => folder[i] = Named(t, FoldOf(t, folder[i - 1]), path[i])
      /\ folder[n] # DNULL
  BY DEF Folders
<1>3. /\ Agreeing(t) /\ \A x \in InTree(t) : \E p \in 1..k : x = ch[p]
      /\ \A p, q \in 1..k : ch[p] = ch[q] => p = q
      /\ \A p \in 1..k : ch[p] # DNULL
  <2>1. Agreeing(t) /\ \A p, q \in 1..k : ch[p] = ch[q] => p = q
    BY DEF Listed, Chain
  <2> QED
    BY <2>1, ListedFacts
<1> HIDE DEF n, k
<1>4. 1..n \subseteq Has
  <2>1. n \in Has
    BY <1>1, <1>2
  <2>2. ASSUME NEW i \in 1..n, i > 1, i \in Has PROVE i - 1 \in Has
    <3>1. i - 1 \in 1..n
      BY <1>1, <2>2
    <3>2. folder[i - 1] # DNULL
      BY <1>2, <1>3, <2>2, NamedNowhere DEF FoldOf
    <3> QED
      BY <3>1, <3>2
  <2> HIDE DEF Has
  <2> QED
    BY <1>1, <2>1, <2>2, HandedBack
<1>5. \A i \in 1..n : phi[i] \in 1..k /\ folder[i] = ch[phi[i]]
  BY <1>2, <1>3, <1>4
<1>6. phi = [i \in 1..n |-> phi[i]]
  OBVIOUS
<1> HIDE DEF phi, Has
<1>7. path[1] = home /\ phi[1] = 1
  <2>1. folder[1] # DNULL
    BY <1>1, <1>3, <1>5
  <2>2. path[1] = home /\ folder[1] = head /\ head = ch[1] /\ 1 \in 1..k
    BY <1>2, <2>1, HeadIs DEF k
  <2> QED
    BY <1>1, <1>3, <1>5, <2>2
<1>8. ASSUME NEW i \in 1..n, i > 1 PROVE InFolder(ls, phi[i - 1], path[i], phi[i])
  <2>1. i - 1 \in 1..n
    BY <1>1, <1>8
  <2>2. folder[i] = Named(t, FoldOf(t, ch[phi[i - 1]]), path[i]) /\ folder[i] # DNULL
    BY <1>2, <1>3, <1>5, <1>8, <2>1
  <2>3. phi[i - 1] \in 1..Len(ls)
    BY <1>5, <2>1 DEF k
  <2>4. PICK q : InFolder(ls, phi[i - 1], path[i], q)
    BY <2>2, <2>3, NamedIn
  <2>5. folder[i] = ch[q]
    BY <2>2, <2>3, <2>4, NamedIn
  <2>6. q \in 1..k
    <3>1. phi[i - 1] \in 1..k /\ q \in (phi[i - 1] + 1)..k
      BY <2>4 DEF InFolder, FirstAt, k
    <3> QED
      BY <3>1
  <2>7. q = phi[i]
    BY <1>3, <1>5, <2>5, <2>6
  <2> QED
    BY <2>4, <2>7
<1>9. phi \in [1..n -> 1..k] /\ folder[n] = ch[phi[n]]
  BY <1>1, <1>5, <1>6
<1> QED
  BY <1>7, <1>8, <1>9 DEF n, k

\* The path leads from the head to the node at f, each name to a node behind the
\* one that the name before leads to.
Leads(ls, path, f) ==
  \E phi \in [1..Len(path) -> 1..f] :
    /\ phi[1] = 1 /\ phi[Len(path)] = f
    /\ \A i \in 2..Len(path) : InFolder(ls, phi[i - 1], path[i], phi[i])

\* Where the node is that a search for the path finds if it finds one.
LeadsTo(ls, path, f) ==
  /\ f \in 1..Len(ls)
  /\ IF HomeAgain(path) THEN f = 1
     ELSE IF path[1] = home THEN Leads(ls, path, f)
     ELSE Len(path) = 1 /\ InFolder(ls, 1, path[1], f)

LEMMA NotHome ==
  ASSUME NEW path, Len(path) # 1
  PROVE  path # <<home>>
<1> SUFFICES ASSUME path = <<home>> PROVE FALSE
  OBVIOUS
<1>1. Len(<<home>>) = 1
  OBVIOUS
<1> QED
  BY <1>1

\* It is found, unless the path names home behind its beginning.
LEMMA Leading ==
  ASSUME NEW t, NEW ch, NEW ls, Listed(t, ch, ls), Headed(ls),
         NEW path, Len(path) \in Nat, Len(path) > 0, ~HomeAgain(path),
         NEW f, LeadsTo(ls, path, f)
  PROVE  search(t, path) = ch[f]
<1> DEFINE n == Len(path)
<1>1. Agreeing(t) /\ ch[1] = head /\ head \in InTree(t) /\ 1 \in 1..Len(ls)
  BY HeadIs DEF Listed
<1>2. PICK folder : Folders(t, head, path, folder)
  BY <1>1, SearchlocUnfolds
<1>3. /\ n > 1 => folder[1] = Named(t, head, path[1])
      /\ \A i \in 1..(n - 1) : i > 1 => folder[i] = Named(t, FoldOf(t, folder[i - 1]), path[i])
      /\ searchloc(t, head, path) =
           IF n = 1 THEN LastName(t, head, path[1])
           ELSE IF folder[n - 1] = DNULL THEN DNULL
           ELSE LastName(t, t[folder[n - 1]].fold, path[n])
  BY <1>2 DEF Folders
<1>4. n \in Nat /\ n > 0
  OBVIOUS
<1>5. \A i \in 2..n : path[i] # home
  BY DEF HomeAgain
<1>6. CASE path[1] = home
  <2>1. PICK phi \in [1..n -> 1..f] :
          /\ phi[1] = 1 /\ phi[n] = f
          /\ \A i \in 2..n : InFolder(ls, phi[i - 1], path[i], phi[i])
    BY <1>6 DEF LeadsTo, Leads
  <2> HIDE DEF n
  <2>2. CASE n = 1
    <3>1. searchloc(t, head, path) = head
      BY <1>3, <1>6, <2>2 DEF LastName
    <3> QED
      BY <1>1, <2>1, <2>2, <3>1 DEF search
  <2>3. CASE n > 1
    <3> DEFINE Has == {i \in 1..(n - 1) : folder[i] = ch[phi[i]]}
    <3>1. \A i \in 1..(n - 1) : phi[i] \in 1..Len(ls) /\ i \in 1..n
      <4>1. f \in 1..Len(ls) /\ Len(ls) \in Nat
        BY ListedFacts DEF LeadsTo
      <4> QED
        BY <1>4, <2>1, <4>1
    <3>2. 1 \in Has /\ n - 1 \in 1..(n - 1)
      <4>1. 1 \in 1..(n - 1) /\ n - 1 \in 1..(n - 1)
        BY <1>4, <2>3
      <4>2. folder[1] = head
        BY <1>3, <1>6, <2>3, HeadIs
      <4> QED
        BY <1>1, <2>1, <4>1, <4>2
    <3>3. ASSUME NEW i \in 1..(n - 1), i > 1, i - 1 \in Has PROVE i \in Has
      <4>1. i \in 2..n /\ i - 1 \in 1..(n - 1)
        BY <1>4, <3>3
      <4>2. folder[i] = Named(t, FoldOf(t, ch[phi[i - 1]]), path[i])
        BY <1>3, <3>3
      <4>3. InFolder(ls, phi[i - 1], path[i], phi[i]) /\ phi[i - 1] \in 1..Len(ls)
        BY <2>1, <3>1, <4>1
      <4>4. folder[i] = ch[phi[i]]
        BY <4>2, <4>3, NamedIn
      <4> QED
        BY <4>4
    <3> HIDE DEF Has
    <3>4. 1..(n - 1) \subseteq Has
      <4>1. n - 1 \in Nat
        BY <1>4, <2>3
      <4> QED
        BY <3>2, <3>3, <4>1, HandedOn
    <3> DEFINE p == phi[n - 1]
    <3>5. folder[n - 1] = ch[p] /\ p \in 1..Len(ls)
      BY <3>1, <3>2, <3>4 DEF Has
    <3>6. InFolder(ls, p, path[n], f) /\ path[n] # home
      <4>1. n \in 2..n
        BY <1>4, <2>3
      <4> QED
        BY <1>5, <2>1, <4>1
    <3> HIDE DEF p
    <3>7. ch[p] # DNULL
      BY <3>5, ListedFacts
    <3>8. searchloc(t, head, path) = LastName(t, t[ch[p]].fold, path[n])
      BY <1>3, <1>4, <2>3, <3>5, <3>7
    <3>9. LastName(t, t[ch[p]].fold, path[n]) = ch[f]
      BY <3>5, <3>6, LastNameIn
    <3>10. path # <<home>>
      <4>1. n # 1
        BY <1>4, <2>3
      <4> QED
        BY <4>1, NotHome DEF n
    <3> QED
      BY <3>8, <3>9, <3>10 DEF search
  <2> QED
    BY <1>4, <2>2, <2>3
<1>7. CASE path[1] # home
  <2>1. n = 1 /\ InFolder(ls, 1, path[1], f)
    BY <1>7 DEF LeadsTo
  <2>2. LastName(t, head, path[1]) = ch[f]
    BY <1>1, <1>7, <2>1, LastNameIn
  <2>3. path # <<home>>
    BY <1>7
  <2> QED
    BY <1>3, <2>1, <2>2, <2>3 DEF search
<1> QED
  BY <1>6, <1>7

\* What a search finds is where the path leads to.
LEMMA Found ==
  ASSUME NEW t, NEW ch, NEW ls, Listed(t, ch, ls), Headed(ls),
         NEW path, Len(path) \in Nat, Len(path) > 0, search(t, path) \in Cells
  PROVE  \E f : LeadsTo(ls, path, f) /\ search(t, path) = ch[f]
<1> DEFINE n == Len(path)
           k == Len(ls)
<1>1. /\ Agreeing(t) /\ ch[1] = head /\ head \in InTree(t) /\ 1 \in 1..k /\ DNULL \notin Cells
      /\ <<home>>[1] = home /\ n \in Nat /\ n > 0 /\ k \in Nat
  BY HeadIs, CellsFinite, ListedFacts DEF Listed
<1>2. PICK folder : Folders(t, head, path, folder)
  BY <1>1, SearchlocUnfolds
<1>3. searchloc(t, head, path) =
        IF n = 1 THEN LastName(t, head, path[1])
        ELSE IF folder[n - 1] = DNULL THEN DNULL
        ELSE LastName(t, t[folder[n - 1]].fold, path[n])
  BY <1>2 DEF Folders
<1>4. CASE n = 1 /\ path[1] = home
  <2>1. searchloc(t, head, path) = head
    BY <1>3, <1>4 DEF LastName
  <2>2. search(t, path) = ch[1]
    BY <1>1, <2>1 DEF search
  <2>3. ~HomeAgain(path)
    <3>1. 2..n = {}
      BY <1>4
    <3> QED
      BY <3>1 DEF HomeAgain
  <2>4. Leads(ls, path, 1)
    <3> DEFINE phi == [i \in 1..1 |-> 1]
    <3>1. phi \in [1..n -> 1..1] /\ phi[1] = 1 /\ phi[n] = 1 /\ 2..n = {}
      BY <1>4
    <3> HIDE DEF phi
    <3> QED
      BY <3>1 DEF Leads
  <2> QED
    BY <1>1, <1>4, <2>2, <2>3, <2>4 DEF LeadsTo
<1>5. CASE n = 1 /\ path[1] # home
  <2>1. path # <<home>> /\ searchloc(t, head, path) = LastName(t, head, path[1])
    BY <1>1, <1>3, <1>5
  <2>2. LastName(t, head, path[1]) \in Cells /\ search(t, path) = LastName(t, head, path[1])
    BY <2>1 DEF search
  <2>3. PICK q : InFolder(ls, 1, path[1], q) /\ LastName(t, head, path[1]) = ch[q]
    BY <1>1, <1>5, <2>2, LastNameIn
  <2>4. ~HomeAgain(path)
    <3>1. 2..n = {}
      BY <1>5
    <3> QED
      BY <3>1 DEF HomeAgain
  <2>5. q \in 1..k
    <3>1. q \in 2..k
      BY <2>3 DEF InFolder, FirstAt
    <3> QED
      BY <3>1
  <2> QED
    BY <1>5, <2>2, <2>3, <2>4, <2>5 DEF LeadsTo
<1>6. CASE n > 1
  <2>1. path # <<home>>
    <3>1. n \in Nat
      OBVIOUS
    <3> HIDE DEF n
    <3>2. n # 1
      BY <1>6, <3>1
    <3> QED
      BY <3>2, NotHome DEF n
  <2>2. folder[n - 1] # DNULL /\ search(t, path) = LastName(t, t[folder[n - 1]].fold, path[n])
    BY <1>1, <1>3, <1>6, <2>1 DEF search
  <2>3. /\ path[1] = home
        /\ \E phi \in [1..(n - 1) -> 1..k] :
             /\ phi[1] = 1 /\ folder[n - 1] = ch[phi[n - 1]]
             /\ \A i \in 1..(n - 1) : i > 1 => InFolder(ls, phi[i - 1], path[i], phi[i])
    BY <1>2, <1>6, <2>2, FoldersLead
  <2>4. PICK psi \in [1..(n - 1) -> 1..k] :
          /\ psi[1] = 1 /\ folder[n - 1] = ch[psi[n - 1]]
          /\ \A i \in 1..(n - 1) : i > 1 => InFolder(ls, psi[i - 1], path[i], psi[i])
    BY <2>3
  <2>5. ASSUME NEW i \in 2..n, path[i] = home PROVE i = n
    <3> SUFFICES ASSUME i # n PROVE FALSE
      OBVIOUS
    <3>1. i \in 1..(n - 1) /\ i > 1
      BY <1>1
    <3>2. InFolder(ls, psi[i - 1], home, psi[i])
      BY <2>4, <2>5, <3>1
    <3> QED
      BY <3>2, NoHomeInside
  <2>6. n \in 2..n /\ n - 1 \in 1..(n - 1) /\ n - 1 \in Nat
    BY <1>1, <1>6
  <2> HIDE DEF n, k
  <2>7. CASE path[n] = home
    <3>1. HomeAgain(path)
      BY <2>6, <2>7 DEF HomeAgain, n
    <3>2. search(t, path) = ch[1]
      BY <1>1, <2>2, <2>7 DEF LastName
    <3> QED
      BY <1>1, <3>1, <3>2 DEF LeadsTo, k
  <2>8. CASE path[n] # home
    <3>1. ~HomeAgain(path)
      BY <2>5, <2>8 DEF HomeAgain, n
    <3> DEFINE p == psi[n - 1]
    <3>2. p \in 1..k /\ folder[n - 1] = ch[p]
      BY <2>4, <2>6
    <3> HIDE DEF p
    <3>3. PICK q : InFolder(ls, p, path[n], q) /\ search(t, path) = ch[q]
      <4>1. LastName(t, t[ch[p]].fold, path[n]) \in Cells
        BY <2>2, <3>2
      <4> QED
        BY <2>2, <2>8, <3>2, <4>1, LastNameIn DEF k
    <3> DEFINE phi == [i \in 1..n |-> IF i = n THEN q ELSE psi[i]]
               Has == {i \in 1..n : phi[i] \in 1..q}
    <3>4. q \in (p + 1)..k /\ p \in 1..k
      BY <3>3 DEF InFolder, FirstAt, k
    <3>5. q \in 1..k /\ q \in Nat /\ p \in 1..q
      BY <1>1, <3>4
    <3>6. \A i \in 1..n : phi[i] \in 1..k
      <4>1. \A i \in 1..n : i # n => i \in 1..(n - 1)
        BY <1>1
      <4> QED
        BY <2>4, <3>5, <4>1
    <3>7. phi[1] = 1 /\ phi[n] = q /\ 1 \in 1..n /\ n \in 1..n
      <4>1. 1 \in 1..n /\ n \in 1..n /\ 1 # n
        BY <1>1, <1>6
      <4> QED
        BY <2>4, <4>1
    <3>8. ASSUME NEW i \in 2..n PROVE InFolder(ls, phi[i - 1], path[i], phi[i])
      <4>1. i - 1 \in 1..n /\ i - 1 # n /\ i \in 1..n
        BY <1>1
      <4>2. phi[i - 1] = psi[i - 1]
        BY <4>1
      <4>3. CASE i = n
        BY <3>3, <4>1, <4>2, <4>3 DEF p
      <4>4. CASE i # n
        <5>1. i \in 1..(n - 1) /\ i > 1
          BY <1>1, <4>4
        <5> QED
          BY <2>4, <4>1, <4>2, <4>4, <5>1
      <4> QED
        BY <4>3, <4>4
    <3>9. phi = [i \in 1..n |-> phi[i]]
      OBVIOUS
    <3> HIDE DEF phi
    <3>10. n \in Has
      BY <1>1, <3>5, <3>7
    <3>11. ASSUME NEW i \in 1..n, i > 1, i \in Has PROVE i - 1 \in Has
      <4>1. i - 1 \in 1..n /\ i \in 2..n
        BY <1>1, <3>11
      <4>2. phi[i] \in (phi[i - 1] + 1)..k /\ phi[i - 1] \in 1..k /\ phi[i] \in 1..q
        BY <3>8, <3>11, <4>1 DEF InFolder, FirstAt, k
      <4>3. phi[i - 1] \in 1..q
        BY <3>5, <4>2
      <4> QED
        BY <4>1, <4>3
    <3> HIDE DEF Has
    <3>12. 1..n \subseteq Has
      BY <1>1, <3>10, <3>11, HandedBack
    <3>13. phi \in [1..n -> 1..q]
      BY <3>9, <3>12 DEF Has
    <3>14. Leads(ls, path, q)
      BY <3>7, <3>8, <3>13 DEF Leads, n
    <3> QED
      BY <2>3, <3>1, <3>3, <3>5, <3>14 DEF LeadsTo, k
  <2> QED
    BY <2>7, <2>8
<1>7. n \in Nat /\ n > 0
  OBVIOUS
<1> HIDE DEF n
<1>8. n = 1 \/ n > 1
  BY <1>7
<1> QED
  BY <1>4, <1>5, <1>6, <1>8

-----------------------------------------------------------------------------
(* Lists, each line of which was put where it is by an addition.            *)

\* The node at i is behind the last one of the folder its path leads to, or
\* in the folder behind that.
Placed(ls, i) ==
  \E f \in 1..(i - 1) :
    LeadsTo(ls, ls[i].loc, f) /\ ls[f].dflag /\ \A p \in (f + 1)..(i - 2) : ~ls[p].dflag

GoodList(ls) == ls \in Seq(Lines) /\ Headed(ls) /\ \A i \in 2..Len(ls) : Placed(ls, i)

\* Where a path leads to follows from the lines up to there.
LEMMA SameBegin ==
  ASSUME NEW ls, Len(ls) \in Nat, NEW ms, Len(ms) \in Nat, NEW g \in 0..Len(ms),
         \A i \in 1..g : ls[i] = ms[i], NEW path, NEW f \in 1..g, LeadsTo(ls, path, f)
  PROVE  LeadsTo(ms, path, f)
<1>1. f \in 1..Len(ms)
  OBVIOUS
<1>2. ASSUME NEW p, NEW name, NEW q, InFolder(ls, p, name, q), q \in 1..f
      PROVE  InFolder(ms, p, name, q)
  <2>1. /\ p \in 1..Len(ls) /\ ls[p].dflag /\ q \in (p + 1)..Len(ls) /\ ls[q].fname = name
        /\ \A r \in (p + 1)..(q - 1) : ~ls[r].dflag /\ ls[r].fname # name
    BY <1>2 DEF InFolder, FirstAt
  <2>2. /\ p \in 1..g /\ q \in 1..g /\ p \in 1..Len(ms) /\ q \in (p + 1)..Len(ms)
        /\ \A r \in (p + 1)..(q - 1) : r \in 1..g
    BY <1>2, <2>1
  <2>3. ms[p].dflag /\ ms[q].fname = name
    BY <2>1, <2>2
  <2>4. \A r \in (p + 1)..(q - 1) : ~ms[r].dflag /\ ms[r].fname # name
    BY <2>1, <2>2
  <2> QED
    BY <2>2, <2>3, <2>4 DEF InFolder, FirstAt
<1>3. CASE HomeAgain(path)
  BY <1>1, <1>3 DEF LeadsTo
<1>4. CASE ~HomeAgain(path) /\ path[1] = home
  <2>1. PICK phi \in [1..Len(path) -> 1..f] :
          /\ phi[1] = 1 /\ phi[Len(path)] = f
          /\ \A i \in 2..Len(path) : InFolder(ls, phi[i - 1], path[i], phi[i])
    BY <1>4 DEF LeadsTo, Leads
  <2>2. ASSUME NEW i \in 2..Len(path) PROVE InFolder(ms, phi[i - 1], path[i], phi[i])
    <3>1. i \in 1..Len(path)
      OBVIOUS
    <3>2. phi[i] \in 1..f
      BY <2>1, <3>1
    <3> QED
      BY <1>2, <2>1, <3>2
  <2>3. Leads(ms, path, f)
    BY <2>1, <2>2 DEF Leads
  <2> QED
    BY <1>1, <1>4, <2>3 DEF LeadsTo
<1>5. CASE ~HomeAgain(path) /\ path[1] # home
  <2>1. Len(path) = 1 /\ InFolder(ls, 1, path[1], f)
    BY <1>5 DEF LeadsTo
  <2>2. InFolder(ms, 1, path[1], f)
    BY <1>2, <2>1
  <2> QED
    BY <1>1, <1>5, <2>1, <2>2 DEF LeadsTo
<1> QED
  BY <1>3, <1>4, <1>5

LEMMA SamePlaced ==
  ASSUME NEW ls, Len(ls) \in Nat, NEW ms, Len(ms) \in Nat, NEW g \in 0..Len(ms),
         \A i \in 1..g : ls[i] = ms[i], NEW i \in 1..g, Placed(ls, i)
  PROVE  Placed(ms, i)
<1>1. PICK f \in 1..(i - 1) : /\ LeadsTo(ls, ls[i].loc, f) /\ ls[f].dflag
                              /\ \A p \in (f + 1)..(i - 2) : ~ls[p].dflag
  BY DEF Placed
<1>2. f \in 1..g /\ ls[f] = ms[f] /\ ls[i] = ms[i]
  OBVIOUS
<1>3. LeadsTo(ms, ms[i].loc, f)
  BY <1>1, <1>2, SameBegin
<1>4. \A p \in (f + 1)..(i - 2) : p \in 1..g
  OBVIOUS
<1>5. \A p \in (f + 1)..(i - 2) : ~ms[p].dflag
  BY <1>1, <1>4
<1> QED
  BY <1>1, <1>2, <1>3, <1>5 DEF Placed

\* A path of one more name leads to what that name leads to in the folder.
LEMMA LeadsOn ==
  ASSUME NEW ls, Len(ls) \in Nat, NEW S, NEW path \in Seq(S), Len(path) > 0, path[1] = home,
         ~HomeAgain(path), NEW f, LeadsTo(ls, path, f),
         NEW name \in S, name # home, NEW q, InFolder(ls, f, name, q)
  PROVE  /\ LeadsTo(ls, Append(path, name), q) /\ ~HomeAgain(Append(path, name))
         /\ Len(Append(path, name)) \in Nat /\ Len(Append(path, name)) > 0
<1> DEFINE n == Len(path)
           longer == Append(path, name)
<1>1. n \in Nat /\ n > 0 /\ Len(longer) = n + 1 /\ longer[n + 1] = name
      /\ \A i \in 1..n : longer[i] = path[i]
  BY LenProperties, AppendProperties
<1> HIDE DEF n, longer
<1>2. PICK phi \in [1..n -> 1..f] :
        /\ phi[1] = 1 /\ phi[n] = f
        /\ \A i \in 2..n : InFolder(ls, phi[i - 1], path[i], phi[i])
  BY DEF LeadsTo, Leads, n
<1>3. f \in 1..Len(ls) /\ q \in (f + 1)..Len(ls)
  BY DEF InFolder, FirstAt
<1>4. q \in 1..Len(ls) /\ 1..f \subseteq 1..q
  BY <1>3
<1> DEFINE psi == [i \in 1..(n + 1) |-> IF i = n + 1 THEN q ELSE phi[i]]
<1>5. \A i \in 1..(n + 1) : i # n + 1 => i \in 1..n
  BY <1>1
<1>6. psi \in [1..(n + 1) -> 1..q]
  <2>1. q \in 1..q
    BY <1>4
  <2> QED
    BY <1>2, <1>4, <1>5, <2>1
<1>7. psi[1] = 1 /\ psi[n + 1] = q
  <2>1. 1 \in 1..(n + 1) /\ 1 # n + 1 /\ n + 1 \in 1..(n + 1)
    BY <1>1
  <2> QED
    BY <1>2, <2>1
<1>8. ASSUME NEW i \in 2..(n + 1) PROVE InFolder(ls, psi[i - 1], longer[i], psi[i])
  <2>1. i - 1 \in 1..(n + 1) /\ i - 1 # n + 1 /\ i \in 1..(n + 1)
    BY <1>1
  <2>2. psi[i - 1] = phi[i - 1]
    BY <2>1
  <2>3. CASE i = n + 1
    <3>1. i - 1 = n
      BY <1>1, <2>3
    <3>2. psi[i - 1] = f /\ psi[i] = q /\ longer[i] = name
      BY <1>1, <1>2, <1>7, <2>2, <2>3, <3>1
    <3> QED
      BY <3>2
  <2>4. CASE i # n + 1
    <3>1. i \in 2..n /\ i \in 1..n
      BY <1>1, <2>4
    <3>2. psi[i] = phi[i] /\ longer[i] = path[i]
      BY <1>1, <2>1, <2>4, <3>1
    <3> QED
      BY <1>2, <2>2, <3>1, <3>2
  <2> QED
    BY <2>3, <2>4
<1> HIDE DEF psi
<1>9. Leads(ls, longer, q)
  BY <1>1, <1>6, <1>7, <1>8 DEF Leads
<1>10. ~HomeAgain(longer)
  <2> SUFFICES ASSUME NEW i \in 2..(n + 1), longer[i] = home PROVE FALSE
    BY <1>1 DEF HomeAgain
  <2>1. i # n + 1
    BY <1>1
  <2>2. i \in 2..n /\ i \in 1..n
    BY <1>1, <2>1
  <2> QED
    BY <1>1, <2>2 DEF HomeAgain, n
<1>11. longer[1] = home
  BY <1>1
<1>12. LeadsTo(ls, longer, q)
  BY <1>4, <1>9, <1>10, <1>11 DEF LeadsTo
<1>13. Len(longer) \in Nat /\ Len(longer) > 0
  BY <1>1
<1> QED
  BY <1>10, <1>12, <1>13 DEF longer

\* Where a path leads to in a good list is found, and found where it is.
LEMMA GoodFound ==
  ASSUME NEW ch, NEW ls, Listed(tree, ch, ls), GoodList(ls)
  PROVE  FoundWhereAdded
<1> SUFFICES ASSUME NEW c \in InTree(tree), tree[c].loc[1] = home, ~HomeAgain(tree[c].loc)
             PROVE  LET found == search(tree, Append(tree[c].loc, tree[c].fname)) IN
                    \/ found = c
                    \/ tree[tree[c].prev].dflag /\ tree[c].prev # search(tree, tree[c].loc)
                    \/ found \in Cells /\ ~tree[found].dflag /\ tree[found].fname = tree[c].fname
  BY DEF FoundWhereAdded
<1> DEFINE k == Len(ls)
<1>1. k \in Nat /\ Headed(ls) /\ Agreeing(tree) /\ Top # home
  BY ListedFacts, DirTreeAssumption DEF GoodList, Listed
<1>2. PICK i \in 1..k : c = ch[i]
  BY ListedFacts
<1> DEFINE path == tree[c].loc
           name == tree[c].fname
<1>3. name = ls[i].fname /\ path = ls[i].loc /\ ls[i] \in Lines
  BY <1>2, LinksOf, ListedFacts
<1> HIDE DEF k
<1>4. i \in 2..k /\ name # home
  <2>1. i # 1
    <3> SUFFICES ASSUME i = 1 PROVE FALSE
      OBVIOUS
    <3>1. path = <<Top>>
      BY <1>1, <1>3 DEF Headed, HeadLine
    <3> QED
      BY <1>1, <3>1
  <2>2. i \in 2..k
    BY <1>1, <2>1
  <2> QED
    BY <1>1, <1>3, <2>2 DEF Headed, k
<1>5. /\ path \in Seq(Names \cup {home}) /\ name \in Names \cup {home}
      /\ Len(path) \in Nat /\ Len(path) > 0
  <2>1. path \in Locs /\ name \in Names \cup {home}
    BY <1>3 DEF Lines
  <2>2. path # <<Top>>
    BY <1>1
  <2> QED
    BY <2>1, <2>2, PathLength, DirTreeAssumption DEF Locs
<1>6. PICK f \in 1..(i - 1) : /\ LeadsTo(ls, path, f) /\ ls[f].dflag
                              /\ \A p \in (f + 1)..(i - 2) : ~ls[p].dflag
  BY <1>3, <1>4 DEF GoodList, Placed, k
<1>7. f \in 1..k /\ i - 1 \in 1..k
  BY <1>1, <1>4
<1>8. search(tree, path) = ch[f]
  BY <1>1, <1>5, <1>6, Leading
<1>9. tree[c].prev = ch[i - 1]
  <2>1. i - 1 # k /\ (i - 1) + 1 = i
    BY <1>1, <1>4
  <2>2. Succ(tree, ch[i - 1]) = c /\ c # DNULL
    BY <1>1, <1>2, <1>7, <2>1, ListedFacts DEF Listed, Chain, k
  <2>3. ch[i - 1] \in InTree(tree) /\ ch[i - 1] \in Cells
    BY <1>7, ListedFacts DEF k
  <2>4. c \in Children(tree, ch[i - 1])
    BY <2>2, <2>3, OneChild DEF Listed
  <2> QED
    BY <1>1, <2>3, <2>4 DEF Agreeing
<1>10. tree[ch[i - 1]].dflag = ls[i - 1].dflag
  BY <1>7, LinksOf DEF k
<1> HIDE DEF path, name
<1>11. CASE i - 1 # f /\ ls[i - 1].dflag
  <2>1. ch[i - 1] # ch[f]
    BY <1>7, <1>11 DEF Listed, Chain, k
  <2> QED
    BY <1>8, <1>9, <1>10, <1>11, <2>1 DEF path
<1>12. CASE ~(i - 1 # f /\ ls[i - 1].dflag)
  <2>1. ASSUME NEW p \in (f + 1)..(i - 1) PROVE ~ls[p].dflag
    <3>1. p = i - 1 \/ p \in (f + 1)..(i - 2)
      BY <1>4
    <3>2. p # f
      BY <1>7
    <3> QED
      BY <1>6, <1>12, <3>1, <3>2
  <2> DEFINE Called == {p \in (f + 1)..i : ls[p].fname = name}
  <2>2. i \in Called /\ Called \in SUBSET Nat
    BY <1>3, <1>4, <1>6, <1>7
  <2>3. PICK q \in Called : \A p \in Called : q <= p
    BY <2>2, Least
  <2>4. q \in (f + 1)..i /\ ls[q].fname = name /\ q \in 1..k /\ q \in (f + 1)..k
    BY <1>1, <1>4, <1>7, <2>3
  <2>5. ASSUME NEW p \in (f + 1)..(q - 1) PROVE ~ls[p].dflag /\ ls[p].fname # name
    <3>1. p \in (f + 1)..(i - 1) /\ p \in (f + 1)..i /\ ~(q <= p)
      BY <1>4, <1>7, <2>4
    <3> QED
      BY <2>1, <2>3, <3>1
  <2>6. InFolder(ls, f, name, q)
    BY <1>6, <1>7, <2>4, <2>5 DEF InFolder, FirstAt, k
  <2>7. /\ LeadsTo(ls, Append(path, name), q) /\ ~HomeAgain(Append(path, name))
        /\ Len(Append(path, name)) \in Nat /\ Len(Append(path, name)) > 0
    <3> DEFINE S == Names \cup {home}
    <3>1. ~HomeAgain(path) /\ path[1] = home
      BY DEF path
    <3>2. path \in Seq(S) /\ Len(path) > 0 /\ name \in S /\ name # home
      BY <1>4, <1>5
    <3>3. Len(ls) \in Nat /\ LeadsTo(ls, path, f)
      BY <1>1, <1>6 DEF k
    <3> HIDE DEF S
    <3> QED
      BY <2>6, <3>1, <3>2, <3>3, LeadsOn
  <2>8. search(tree, Append(path, name)) = ch[q]
    <3> DEFINE longer == Append(path, name)
    <3>1. /\ LeadsTo(ls, longer, q) /\ ~HomeAgain(longer)
          /\ Len(longer) \in Nat /\ Len(longer) > 0
      BY <2>7
    <3> HIDE DEF longer
    <3>2. search(tree, longer) = ch[q]
      BY <1>1, <3>1, Leading
    <3> QED
      BY <3>2 DEF longer
  <2>9. CASE q = i
    BY <1>2, <2>8, <2>9 DEF path, name
  <2>10. CASE q # i
    <3>1. q \in (f + 1)..(i - 1)
      BY <1>4, <1>7, <2>4, <2>10
    <3>2. ~ls[q].dflag
      BY <2>1, <3>1
    <3>3. ch[q] \in Cells /\ ~tree[ch[q]].dflag /\ tree[ch[q]].fname = name
      BY <2>4, <3>2, LinksOf, ListedFacts DEF k
    <3> QED
      BY <2>8, <3>3 DEF path, name
  <2> QED
    BY <2>9, <2>10
<1> QED
  BY <1>11, <1>12

-----------------------------------------------------------------------------
(* What operations do to the list.                                          *)

\* A new tree is the list of its head.
LEMMA NewListed ==
  ASSUME NEW line \in Lines
  PROVE  Listed(NewTree(line), <<head>>, <<line>>)
<1> DEFINE t == NewTree(line)
<1>1. TreeInv(t) /\ Agreeing(t) /\ t \in [Cells -> Node]
  BY NewTreeInv, NewTreeAgrees DEF Agreeing
<1>2. head \in Cells /\ t[head] = create_node(line, DNULL)
  BY CellsFinite DEF NewTree
<1> HIDE DEF t
<1>3. /\ Succ(t, head) = DNULL
      /\ LineOf(t, head) = [fname |-> line.fname, dflag |-> line.dflag, loc |-> line.loc]
  BY <1>2 DEF create_node, Succ, LineOf
<1>4. line = [fname |-> line.fname, dflag |-> line.dflag, loc |-> line.loc]
  BY DEF Lines
<1>5. Chain(t, <<head>>, 1)
  <2>1. 1..1 = {1} /\ 1 \in Nat /\ 1 > 0 /\ <<head>> \in [1..1 -> Cells] /\ <<head>>[1] = head
    BY <1>2
  <2>2. \A i \in 1..1 : Succ(t, <<head>>[i]) = IF i = 1 THEN DNULL ELSE <<head>>[i + 1]
    BY <1>3, <2>1
  <2>3. \A i, j \in 1..1 : <<head>>[i] = <<head>>[j] => i = j
    OBVIOUS
  <2> QED
    BY <1>1, <2>1, <2>2, <2>3, ChainFrom
<1>6. /\ <<line>> \in Seq(Lines) /\ Len(<<line>>) = 1
      /\ \A i \in 1..1 : <<line>>[i] = LineOf(t, <<head>>[i])
  BY <1>3, <1>4
<1> QED
  BY <1>1, <1>5, <1>6 DEF Listed, t

\* The place behind which a new node goes into the folder at f: the end of the
\* files in it, or a folder behind those.
GroupEnd(ls, f, g) ==
  /\ g \in f..Len(ls) /\ \A p \in (f + 1)..(g - 1) : ~ls[p].dflag
  /\ g = Len(ls) \/ (g # f /\ ls[g].dflag)

LEMMA LastInIs ==
  ASSUME NEW t, NEW ch, NEW ls, Listed(t, ch, ls), NEW f \in 1..Len(ls), ls[f].dflag
  PROVE  \E g : GroupEnd(ls, f, g) /\ LastIn(t, ch[f]) = ch[g]
<1> DEFINE k == Len(ls)
<1>1. k \in Nat /\ ch[f] \in Cells
  BY ListedFacts
<1>2. t[ch[f]].fold = IF f # k THEN ch[f + 1] ELSE DNULL
  BY LinksOf
<1>3. CASE f = k
  <2>1. LastIn(t, ch[f]) = ch[f]
    BY <1>1, <1>2, <1>3 DEF LastIn
  <2>2. GroupEnd(ls, f, f)
    <3>1. f \in f..Len(ls) /\ (f + 1)..(f - 1) = {}
      BY <1>1
    <3> QED
      BY <1>3, <3>1 DEF GroupEnd
  <2> QED
    BY <2>1, <2>2
<1>4. CASE f # k
  <2> DEFINE s == f + 1
             n == Cardinality(Cells) + 1
             at == Siblings(t, ch[s])
             Last(j) == at[j] # DNULL /\ t[at[j]].next = DNULL
             i == CHOOSE j \in DOMAIN at : Last(j)
  <2>1. s \in 1..k
    BY <1>1, <1>4
  <2> HIDE DEF s
  <2>2. PICK e : EndOf(ls, s, e)
    BY <1>1, <2>1, EndExists
  <2>3. /\ DOMAIN at = 1..n /\ n \in Nat
        /\ \A j \in 1..n : at[j] = IF s + j - 1 <= e THEN ch[s + j - 1] ELSE DNULL
    BY <2>1, <2>2, SiblingsAre
  <2>4. e \in s..k /\ (\A p \in s..(e - 1) : ~ls[p].dflag) /\ (e = k \/ ls[e].dflag)
    BY <2>2 DEF EndOf
  <2>5. k < n
    <3>1. k <= Cardinality(Cells) /\ Cardinality(Cells) \in Nat
      BY ListShort, CellsFinite
    <3> HIDE DEF k
    <3> QED
      BY <1>1, <3>1
  <2>6. \A p \in 1..k : /\ ch[p] # DNULL
                        /\ t[ch[p]].next = IF ls[p].dflag \/ p = k THEN DNULL ELSE ch[p + 1]
                        /\ p # k => ch[p + 1] # DNULL
    <3>1. \A p \in 1..k : ch[p] # DNULL
      BY ListedFacts
    <3>2. \A p \in 1..k : p # k => p + 1 \in 1..k
      BY <1>1
    <3> QED
      BY <3>1, <3>2, LinksOf
  <2>7. LastIn(t, ch[f]) = at[i]
    <3>1. ch[s] # DNULL
      BY <2>1, <2>6
    <3> QED
      BY <1>1, <1>2, <1>4, <3>1 DEF LastIn, LastOf, s
  <2> HIDE DEF at, n, k
  <2>8. ASSUME NEW j \in 1..n
        PROVE  Last(j) <=> s + j - 1 = e
    <3> DEFINE p == s + j - 1
    <3>1. at[j] = IF p <= e THEN ch[p] ELSE DNULL
      BY <2>3
    <3>2. p <= e => p \in s..e /\ p \in 1..k
      BY <1>1, <2>1, <2>3, <2>4
    <3>3. p \in Int
      BY <1>1, <2>1, <2>3
    <3> HIDE DEF p
    <3>4. CASE p < e
      <4>1. p <= e /\ p \in s..(e - 1) /\ p \in 1..k /\ p # k /\ p # e
        BY <1>1, <2>4, <3>2, <3>3, <3>4
      <4>2. ~ls[p].dflag /\ t[ch[p]].next # DNULL
        BY <2>4, <2>6, <4>1
      <4> QED
        BY <3>1, <4>1, <4>2 DEF p
    <3>5. CASE p = e
      <4>1. p <= e /\ p \in 1..k
        BY <1>1, <2>4, <3>2, <3>3, <3>5
      <4>2. ch[p] # DNULL /\ t[ch[p]].next = DNULL
        BY <2>4, <2>6, <3>5, <4>1
      <4> QED
        BY <3>1, <3>5, <4>1, <4>2 DEF p
    <3>6. CASE p > e
      <4>1. ~(p <= e) /\ p # e
        BY <1>1, <2>4, <3>3, <3>6
      <4> QED
        BY <3>1, <4>1 DEF p
    <3> QED
      BY <1>1, <2>4, <3>3, <3>4, <3>5, <3>6
  <2>9. (e - s) + 1 \in 1..n /\ s + ((e - s) + 1) - 1 = e
    BY <1>1, <2>1, <2>3, <2>4, <2>5
  <2> HIDE DEF Last
  <2>10. i \in 1..n /\ s + i - 1 = e
    <3>1. \E j \in 1..n : Last(j)
      BY <2>8, <2>9
    <3>2. i \in 1..n /\ Last(i)
      BY <2>3, <3>1
    <3> QED
      BY <2>8, <3>2
  <2> HIDE DEF i
  <2>11. LastIn(t, ch[f]) = ch[e]
    <3>1. s + i - 1 <= e
      BY <2>4, <2>10
    <3> QED
      BY <2>3, <2>7, <2>10, <3>1
  <2>12. GroupEnd(ls, f, e)
    <3>1. e \in f..k /\ e # f
      BY <1>1, <2>1, <2>4 DEF s
    <3> QED
      BY <2>4, <3>1 DEF GroupEnd, s, k
  <2> QED
    BY <2>11, <2>12
<1> QED
  BY <1>3, <1>4

\* The lines up to g and one more.
Extended(ls, g, line, ms) ==
  /\ ms \in Seq(Lines) /\ Len(ms) = g + 1 /\ ms[g + 1] = line
  /\ \A i \in 1..g : ms[i] = ls[i]

LEMMA AddedList ==
  ASSUME NEW t, NEW ch, NEW ls, Listed(t, ch, ls), NEW line \in Lines,
         \E c \in Cells : ~t[c].used, addnode(t, line) # <<>>,
         NEW f \in 1..Len(ls), ls[f].dflag, search(t, line.loc) = ch[f]
  PROVE  \E dh, ms, g : /\ Listed(addnode(t, line), dh, ms)
                        /\ GroupEnd(ls, f, g) /\ Extended(ls, g, line, ms)
<1> DEFINE u == addnode(t, line)
           last == searchlast(t, line.loc)
           new == malloc(t)
           k == Len(ls)
<1>1. PICK g : GroupEnd(ls, f, g) /\ LastIn(t, ch[f]) = ch[g]
  BY LastInIs
<1>2. last = ch[g]
  BY <1>1 DEF searchlast
<1>3. TreeInv(t) /\ Agreeing(t) /\ TreeInv(u) /\ Agreeing(u)
  BY AddNode, AddAgrees DEF Listed
<1>4. /\ last \in InTree(t) /\ new \in Cells \ InTree(t)
      /\ u \in [Cells -> Node] /\ u[new] = create_node(line, last)
      /\ \A c \in Cells \ {last, new} : u[c] = t[c]
      /\ u[last] = IF t[last].dflag THEN [t[last] EXCEPT !.fold = new]
                                    ELSE [t[last] EXCEPT !.next = new]
  BY <1>3, Added
<1>5. k \in Nat /\ g \in 1..k /\ g \in Nat
  <2>1. k \in Nat /\ g \in f..k
    BY <1>1, ListedFacts DEF GroupEnd
  <2> QED
    BY <2>1
<1>6. /\ \A i \in 1..k : /\ ch[i] \in InTree(t) /\ ch[i] \in Cells /\ ls[i] \in Lines
                         /\ ls[i] = LineOf(t, ch[i])
      /\ \A i, j \in 1..k : ch[i] = ch[j] => i = j
      /\ \A i \in 1..k : Succ(t, ch[i]) = IF i = k THEN DNULL ELSE ch[i + 1]
      /\ ch[1] = head /\ 1 \in 1..k
  <2>1. \A i \in 1..k : ch[i] \in InTree(t) /\ ch[i] \in Cells /\ ls[i] \in Lines
    BY ListedFacts
  <2> QED
    BY <2>1 DEF Listed, Chain
<1> HIDE DEF u, last, new, k
<1>7. last \in Cells /\ t[last] \in Node /\ last # new
  BY <1>2, <1>3, <1>4, <1>5, <1>6 DEF Agreeing
<1>8. Succ(u, last) = new /\ LineOf(u, last) = LineOf(t, last)
  BY <1>4, <1>7 DEF Succ, LineOf, Node
<1>9. Succ(u, new) = DNULL /\ LineOf(u, new) = line
  <2>1. line = [fname |-> line.fname, dflag |-> line.dflag, loc |-> line.loc]
    BY DEF Lines
  <2> QED
    BY <1>4, <2>1 DEF Succ, LineOf, create_node
<1> DEFINE n == g + 1
           dh == [i \in 1..n |-> IF i = n THEN new ELSE ch[i]]
           ms == [i \in 1..n |-> IF i = n THEN line ELSE ls[i]]
<1>10. /\ n \in Nat /\ n > 0 /\ n \in 1..n /\ 1 \in 1..n /\ 1 # n
       /\ \A i \in 1..n : i # n => i \in 1..g /\ i \in 1..k
       /\ \A i \in 1..g : i # n /\ i \in 1..n /\ i + 1 \in 1..n /\ (i + 1 = n <=> i = g)
  BY <1>5
<1> HIDE DEF n
<1>11. ms \in Seq(Lines) /\ Len(ms) = n
  <2>1. \A i \in 1..n : (IF i = n THEN line ELSE ls[i]) \in Lines
    BY <1>6, <1>10
  <2> QED
    BY <1>10, <2>1, IsASeq, LenProperties
<1>12. ms[n] = line /\ \A i \in 1..g : ms[i] = ls[i]
  BY <1>10
<1>13. dh \in [1..n -> Cells] /\ dh[1] = head /\ dh[n] = new /\ \A i \in 1..g : dh[i] = ch[i]
  BY <1>4, <1>6, <1>10
<1> HIDE DEF dh, ms
<1>14. \A i, j \in 1..n : dh[i] = dh[j] => i = j
  BY <1>4, <1>6, <1>10, <1>13
<1>15. ASSUME NEW i \in 1..g, i # g PROVE u[ch[i]] = t[ch[i]]
  <2>1. i \in 1..k /\ g \in 1..k
    BY <1>5, <1>10
  <2>2. ch[i] # last /\ ch[i] # new /\ ch[i] \in Cells
    BY <1>2, <1>4, <1>6, <1>15, <2>1
  <2> QED
    BY <1>4, <2>2
<1>16. ASSUME NEW i \in 1..n
       PROVE  Succ(u, dh[i]) = IF i = n THEN DNULL ELSE dh[i + 1]
  <2>1. CASE i = n
    BY <1>9, <1>13, <2>1
  <2>2. CASE i # n /\ i = g
    BY <1>2, <1>8, <1>10, <1>13, <2>2
  <2>3. CASE i # n /\ i # g
    <3>1. i \in 1..g /\ i \in 1..k /\ i # k /\ i + 1 \in 1..g
      BY <1>5, <1>10, <2>3
    <3>2. Succ(u, ch[i]) = Succ(t, ch[i])
      BY <1>15, <2>3, <3>1 DEF Succ
    <3> QED
      BY <1>6, <1>13, <2>3, <3>1, <3>2
  <2> QED
    BY <2>1, <2>2, <2>3
<1>17. ASSUME NEW i \in 1..n PROVE ms[i] = LineOf(u, dh[i])
  <2>1. CASE i = n
    BY <1>9, <1>12, <1>13, <2>1
  <2>2. CASE i # n /\ i = g
    <3>1. i \in 1..g /\ i \in 1..k
      BY <1>10, <2>2
    <3> QED
      BY <1>2, <1>6, <1>8, <1>12, <1>13, <2>2, <3>1
  <2>3. CASE i # n /\ i # g
    <3>1. i \in 1..g /\ i \in 1..k
      BY <1>10, <2>3
    <3>2. LineOf(u, ch[i]) = LineOf(t, ch[i])
      BY <1>15, <2>3, <3>1 DEF LineOf
    <3> QED
      BY <1>6, <1>12, <1>13, <3>1, <3>2
  <2> QED
    BY <2>1, <2>2, <2>3
<1>18. Chain(u, dh, n)
  BY <1>3, <1>4, <1>10, <1>13, <1>14, <1>16, ChainFrom
<1>19. Listed(u, dh, ms)
  BY <1>3, <1>11, <1>17, <1>18 DEF Listed
<1>20. Extended(ls, g, line, ms)
  BY <1>11, <1>12 DEF Extended, n
<1> QED
  BY <1>1, <1>19, <1>20 DEF u

\* The lines without the one at q, and where each was.
Origin(q, i) == IF i < q THEN i ELSE i + 1
Without(ls, q) == [i \in 1..(Len(ls) - 1) |-> ls[Origin(q, i)]]

LEMMA RemovedList ==
  ASSUME NEW t, NEW ch, NEW ls, Listed(t, ch, ls), NEW q \in 2..Len(ls),
         NEW c, c = ch[q], t[c].next # DNULL
  PROVE  /\ \E dh : Listed(Unlinked(t, c), dh, Without(ls, q))
         /\ Without(ls, q) \in Seq(Lines) /\ Len(Without(ls, q)) = Len(ls) - 1
         /\ q # Len(ls) /\ ~ls[q].dflag
<1> DEFINE k == Len(ls)
           u == Unlinked(t, c)
           prev == t[c].prev
           next == t[c].next
<1>1. k \in Nat /\ q \in 1..k /\ q - 1 \in 1..k /\ q - 1 # k
  <2>1. k \in Nat
    BY ListedFacts
  <2> QED
    BY <2>1
<1>2. TreeInv(t) /\ Agreeing(t) /\ t \in [Cells -> Node]
  BY DEF Listed, Agreeing
<1>3. /\ \A i \in 1..k : /\ ch[i] \in InTree(t) /\ ch[i] \in Cells /\ ls[i] \in Lines
                         /\ ls[i] = LineOf(t, ch[i])
      /\ \A i, j \in 1..k : ch[i] = ch[j] => i = j
      /\ \A i \in 1..k : Succ(t, ch[i]) = IF i = k THEN DNULL ELSE ch[i + 1]
      /\ ch[1] = head /\ 1 \in 1..k /\ DNULL \notin InTree(t)
  <2>1. \A i \in 1..k : ch[i] \in InTree(t) /\ ch[i] \in Cells /\ ls[i] \in Lines
    BY ListedFacts
  <2>2. 1 \in 1..k
    BY <1>1
  <2> QED
    BY <2>1, <2>2, ListedFacts DEF Listed, Chain
<1>4. q # k /\ ~ls[q].dflag /\ next = ch[q + 1]
  BY <1>1, LinksOf
<1> HIDE DEF k, u
<1>5. c \in InTree(t) /\ c # head /\ next # DNULL
  <2>1. q # 1
    OBVIOUS
  <2> QED
    BY <1>1, <1>3, <2>1
<1>6. /\ prev \in InTree(t) /\ c \in Children(t, prev)
      /\ next \in InTree(t) /\ next \in Children(t, c) /\ next # head
      /\ prev # c /\ next # c /\ next # prev
      /\ u \in [Cells -> Node] /\ u[c] = Unused
      /\ u[next] = [t[next] EXCEPT !.prev = prev]
      /\ u[prev] = IF t[prev].dflag THEN [t[prev] EXCEPT !.fold = next]
                                    ELSE [t[prev] EXCEPT !.next = next]
      /\ \A x \in Cells \ {c, next, prev} : u[x] = t[x]
  BY <1>2, <1>5, Removed, SMTT(30) DEF u
<1>7. prev = ch[q - 1]
  <2>1. Succ(t, ch[q - 1]) = c /\ ch[q - 1] \in Cells /\ ch[q - 1] \in InTree(t)
    BY <1>1, <1>3
  <2>2. c \in Children(t, ch[q - 1])
    BY <1>2, <1>3, <1>5, <2>1, OneChild
  <2> QED
    BY <1>2, <2>1, <2>2 DEF Agreeing
<1>8. TreeInv(u) /\ Agreeing(u)
  <2>1. c \in Cells
    BY <1>1, <1>3
  <2> HIDE DEF prev, next
  <2> QED
    BY <1>2, <1>5, <2>1, Unlink, UnlinkAgrees DEF u, next
<1>9. q + 1 \in 1..k
  BY <1>1, <1>4
<1>10. prev \in Cells /\ next \in Cells /\ t[prev] \in Node /\ t[next] \in Node
  BY <1>1, <1>2, <1>3, <1>4, <1>7, <1>9
<1> HIDE DEF prev, next
<1>11. Succ(u, prev) = next /\ LineOf(u, prev) = LineOf(t, prev)
  BY <1>6, <1>10 DEF Succ, LineOf, Node
<1>12. ASSUME NEW i \in 1..k, i # q
       PROVE  /\ LineOf(u, ch[i]) = LineOf(t, ch[i])
              /\ i # q - 1 => Succ(u, ch[i]) = Succ(t, ch[i])
  <2>1. CASE i = q - 1
    BY <1>7, <1>11, <2>1
  <2>2. CASE i = q + 1
    <3>1. u[ch[i]] = [t[next] EXCEPT !.prev = prev] /\ ch[i] = next
      BY <1>4, <1>6, <2>2
    <3> QED
      BY <1>10, <3>1 DEF Succ, LineOf, Node
  <2>3. CASE i # q - 1 /\ i # q + 1
    <3>1. ch[i] # c /\ ch[i] # prev /\ ch[i] # next /\ ch[i] \in Cells
      BY <1>1, <1>3, <1>4, <1>7, <1>9, <1>12, <2>3
    <3>2. u[ch[i]] = t[ch[i]]
      BY <1>6, <3>1
    <3> QED
      BY <3>2 DEF Succ, LineOf
  <2> QED
    BY <2>1, <2>2, <2>3
<1> DEFINE n == k - 1
           dh == [i \in 1..n |-> ch[Origin(q, i)]]
           ms == [i \in 1..n |-> ls[Origin(q, i)]]
<1>13. /\ n \in Nat /\ n > 0 /\ 1 \in 1..n
       /\ \A i \in 1..n : Origin(q, i) \in 1..k /\ Origin(q, i) # q
       /\ \A i, j \in 1..n : Origin(q, i) = Origin(q, j) => i = j
       /\ Origin(q, 1) = 1
       /\ \A i \in 1..n : i # n => i + 1 \in 1..n
  BY <1>1, <1>4 DEF Origin
<1>14. ms \in Seq(Lines) /\ Len(ms) = n /\ ms = Without(ls, q)
  <2>1. \A i \in 1..n : ls[Origin(q, i)] \in Lines
    BY <1>3, <1>13
  <2> HIDE DEF n
  <2>2. ms \in Seq(Lines) /\ Len(ms) = n
    BY <1>13, <2>1, IsASeq, LenProperties
  <2> QED
    BY <2>2 DEF Without, n, k
<1>15. dh \in [1..n -> Cells] /\ dh[1] = head /\ \A i, j \in 1..n : dh[i] = dh[j] => i = j
  <2> HIDE DEF n
  <2> QED
    BY <1>3, <1>13
<1>16. \A i \in 1..n : dh[i] = ch[Origin(q, i)] /\ ms[i] = ls[Origin(q, i)]
  OBVIOUS
<1> HIDE DEF dh, ms
<1>17. ASSUME NEW i \in 1..n
       PROVE  Succ(u, dh[i]) = IF i = n THEN DNULL ELSE dh[i + 1]
  <2> DEFINE o == Origin(q, i)
  <2>1. o \in 1..k /\ o # q /\ dh[i] = ch[o]
    BY <1>13, <1>16
  <2>2. CASE i = q - 1
    <3>1. o = q - 1 /\ i # n /\ Origin(q, i + 1) = q + 1
      BY <1>1, <1>4, <2>2 DEF Origin
    <3>2. Succ(u, dh[i]) = ch[q + 1]
      BY <1>4, <1>7, <1>11, <2>1, <3>1
    <3>3. dh[i + 1] = ch[q + 1]
      BY <1>13, <1>16, <3>1
    <3> QED
      BY <3>1, <3>2, <3>3
  <2>3. CASE i # q - 1
    <3>1. o # q - 1 /\ (i = n <=> o = k) /\ (i # n => Origin(q, i + 1) = o + 1)
      BY <1>1, <1>4, <2>3 DEF Origin
    <3> HIDE DEF o
    <3>2. Succ(u, dh[i]) = IF o = k THEN DNULL ELSE ch[o + 1]
      BY <1>3, <1>12, <2>1, <3>1
    <3>3. i # n => dh[i + 1] = ch[o + 1]
      BY <1>13, <1>16, <3>1
    <3> QED
      BY <3>1, <3>2, <3>3
  <2> QED
    BY <2>2, <2>3
<1>18. ASSUME NEW i \in 1..n PROVE ms[i] = LineOf(u, dh[i])
  <2> DEFINE o == Origin(q, i)
  <2>1. o \in 1..k /\ o # q /\ dh[i] = ch[o] /\ ms[i] = ls[o]
    BY <1>13, <1>16
  <2> HIDE DEF o
  <2> QED
    BY <1>3, <1>12, <2>1
<1> HIDE DEF n
<1>19. Chain(u, dh, n)
  BY <1>6, <1>8, <1>13, <1>15, <1>17, ChainFrom
<1>20. Listed(u, dh, ms)
  BY <1>8, <1>14, <1>18, <1>19 DEF Listed
<1> QED
  BY <1>4, <1>14, <1>20 DEF u, n, k

\* An addition keeps a list good.
LEMMA GoodExtended ==
  ASSUME NEW ls, GoodList(ls), NEW g \in 1..Len(ls), NEW line, line.fname # home,
         NEW ms, Extended(ls, g, line, ms),
         NEW f \in 1..g, LeadsTo(ls, line.loc, f), ls[f].dflag,
         \A p \in (f + 1)..(g - 1) : ~ls[p].dflag
  PROVE  GoodList(ms)
<1>1. /\ Len(ls) \in Nat /\ Headed(ls) /\ \A i \in 2..Len(ls) : Placed(ls, i)
      /\ ms \in Seq(Lines) /\ Len(ms) = g + 1 /\ ms[g + 1] = line
      /\ \A i \in 1..g : ls[i] = ms[i]
  BY DEF GoodList, Headed, Extended
<1>2. Len(ms) \in Nat /\ Len(ms) > 0 /\ g \in 0..Len(ms) /\ f \in 1..(g + 1 - 1)
  BY <1>1
<1>3. Headed(ms)
  <2>1. 1 \in 1..g /\ ms[1] = HeadLine
    BY <1>1 DEF Headed
  <2>2. ASSUME NEW i \in 2..Len(ms) PROVE ms[i].fname # home
    <3>1. CASE i = g + 1
      BY <1>1, <3>1
    <3>2. CASE i # g + 1
      <4>1. i \in 1..g /\ i \in 2..Len(ls)
        BY <1>1, <3>2
      <4> QED
        BY <1>1, <4>1 DEF Headed
    <3> QED
      BY <3>1, <3>2
  <2> QED
    BY <1>2, <2>1, <2>2 DEF Headed
<1>4. ASSUME NEW i \in 2..Len(ms) PROVE Placed(ms, i)
  <2>1. CASE i = g + 1
    <3>1. LeadsTo(ms, line.loc, f)
      BY <1>1, <1>2, SameBegin
    <3>2. ms[f].dflag /\ ms[i].loc = line.loc
      BY <1>1, <2>1
    <3>3. ASSUME NEW p \in (f + 1)..(i - 2) PROVE ~ms[p].dflag
      <4>1. p \in (f + 1)..(g - 1) /\ p \in 1..g
        BY <2>1
      <4> QED
        BY <1>1, <4>1
    <3> QED
      BY <1>2, <2>1, <3>1, <3>2, <3>3 DEF Placed
  <2>2. CASE i # g + 1
    <3>1. i \in 1..g /\ i \in 2..Len(ls)
      BY <1>1, <2>2
    <3>2. Placed(ls, i)
      BY <1>1, <3>1
    <3> QED
      BY <1>1, <1>2, <3>1, <3>2, SamePlaced
  <2> QED
    BY <2>1, <2>2
<1> QED
  BY <1>1, <1>3, <1>4 DEF GoodList

\* The place of the line at p when the one at q is taken out.
Moved(q, p) == IF p < q THEN p ELSE p - 1

LEMMA LeadsWithout ==
  ASSUME NEW ls, Len(ls) \in Nat, NEW q \in 2..(Len(ls) - 1), ~ls[q].dflag,
         NEW ms, Len(ms) = Len(ls) - 1, \A i \in 1..Len(ms) : ms[i] = ls[Origin(q, i)],
         NEW path, Len(path) \in Nat, Len(path) > 0, NEW f, f # q, LeadsTo(ls, path, f)
  PROVE  LeadsTo(ms, path, Moved(q, f))
<1> DEFINE k == Len(ls)
           n == Len(ms)
<1>1. k \in Nat /\ n \in Nat /\ n = k - 1 /\ q \in 2..n
  OBVIOUS
<1> HIDE DEF k, n
<1>2. ASSUME NEW p \in 1..k, p # q
      PROVE  /\ Moved(q, p) \in 1..n /\ ms[Moved(q, p)] = ls[p]
             /\ \A r \in 1..k : r # q /\ p < r => Moved(q, p) < Moved(q, r)
  <2>1. Moved(q, p) \in 1..n /\ Origin(q, Moved(q, p)) = p
    BY <1>1, <1>2 DEF Moved, Origin
  <2>2. \A r \in 1..k : r # q /\ p < r => Moved(q, p) < Moved(q, r)
    BY <1>1, <1>2 DEF Moved
  <2> QED
    BY <2>1, <2>2 DEF n
<1>3. ASSUME NEW p, NEW name, NEW r, InFolder(ls, p, name, r), r # q
      PROVE  InFolder(ms, Moved(q, p), name, Moved(q, r)) /\ p # q
  <2>1. /\ p \in 1..k /\ ls[p].dflag /\ r \in (p + 1)..k /\ ls[r].fname = name
        /\ \A x \in (p + 1)..(r - 1) : ~ls[x].dflag /\ ls[x].fname # name
    BY <1>3 DEF InFolder, FirstAt, k
  <2>2. p # q /\ r \in 1..k /\ p < r
    BY <2>1
  <2>3. /\ Moved(q, p) \in 1..n /\ ms[Moved(q, p)].dflag
        /\ Moved(q, r) \in 1..n /\ ms[Moved(q, r)].fname = name
        /\ Moved(q, p) < Moved(q, r)
    BY <1>2, <1>3, <2>1, <2>2
  <2>4. ASSUME NEW x \in (Moved(q, p) + 1)..(Moved(q, r) - 1)
        PROVE  ~ms[x].dflag /\ ms[x].fname # name
    <3>1. x \in 1..n
      BY <1>1, <2>3
    <3>2. Origin(q, x) \in (p + 1)..(r - 1)
      BY <1>1, <1>3, <2>1, <2>2 DEF Origin, Moved
    <3>3. ms[x] = ls[Origin(q, x)]
      BY <3>1 DEF n
    <3> QED
      BY <2>1, <3>2, <3>3
  <2>5. Moved(q, r) \in (Moved(q, p) + 1)..n
    BY <1>1, <2>3
  <2> QED
    BY <2>2, <2>3, <2>4, <2>5 DEF InFolder, FirstAt, n
<1>4. f \in 1..k /\ Moved(q, f) \in 1..n /\ Moved(q, 1) = 1
  <2>1. f \in 1..k /\ Moved(q, 1) = 1
    BY <1>1 DEF LeadsTo, Moved, k
  <2> QED
    BY <1>2, <2>1
<1>5. CASE HomeAgain(path)
  BY <1>4, <1>5 DEF LeadsTo, n
<1>6. CASE ~HomeAgain(path) /\ path[1] = home
  <2> DEFINE m == Len(path)
  <2>1. PICK phi \in [1..m -> 1..f] :
          /\ phi[1] = 1 /\ phi[m] = f
          /\ \A i \in 2..m : InFolder(ls, phi[i - 1], path[i], phi[i])
    BY <1>6 DEF LeadsTo, Leads
  <2>2. m \in Nat /\ m > 0
    OBVIOUS
  <2> HIDE DEF m
  <2>3. ASSUME NEW i \in 1..m PROVE phi[i] # q
    <3>1. CASE i = m
      BY <2>1, <3>1
    <3>2. CASE i # m
      <4>1. i + 1 \in 2..m /\ (i + 1) - 1 = i
        BY <2>2, <3>2
      <4>2. InFolder(ls, phi[i], path[i + 1], phi[i + 1])
        BY <2>1, <4>1
      <4> QED
        BY <4>2 DEF InFolder
    <3> QED
      BY <3>1, <3>2
  <2> DEFINE psi == [i \in 1..m |-> Moved(q, phi[i])]
  <2>4. ASSUME NEW i \in 1..m PROVE Moved(q, phi[i]) \in 1..Moved(q, f)
    <3>1. phi[i] \in 1..f /\ phi[i] # q
      BY <2>1, <2>3
    <3> HIDE DEF psi
    <3> QED
      BY <1>1, <1>4, <3>1 DEF Moved
  <2>5. psi \in [1..m -> 1..Moved(q, f)]
    BY <2>4
  <2>6. \A i \in 2..m : i \in 1..m /\ i - 1 \in 1..m
    BY <2>2
  <2>7. 1 \in 1..m /\ m \in 1..m
    BY <2>2
  <2>8. ASSUME NEW i \in 2..m PROVE InFolder(ms, psi[i - 1], path[i], psi[i])
    <3>1. InFolder(ls, phi[i - 1], path[i], phi[i]) /\ phi[i] # q
      BY <2>1, <2>3, <2>6
    <3>2. InFolder(ms, Moved(q, phi[i - 1]), path[i], Moved(q, phi[i]))
      BY <1>3, <3>1
    <3> QED
      BY <2>6, <3>2
  <2>9. psi[1] = 1 /\ psi[m] = Moved(q, f)
    BY <1>4, <2>1, <2>7
  <2> HIDE DEF psi
  <2>10. Leads(ms, path, Moved(q, f))
    BY <2>5, <2>8, <2>9 DEF Leads, m
  <2> QED
    BY <1>4, <1>6, <2>10 DEF LeadsTo, n
<1>7. CASE ~HomeAgain(path) /\ path[1] # home
  <2>1. Len(path) = 1 /\ InFolder(ls, 1, path[1], f)
    BY <1>7 DEF LeadsTo
  <2>2. InFolder(ms, 1, path[1], Moved(q, f))
    BY <1>3, <1>4, <2>1
  <2> QED
    BY <1>4, <1>7, <2>1, <2>2 DEF LeadsTo, n
<1> QED
  BY <1>5, <1>6, <1>7

\* So does taking out a file that is not the last.
LEMMA GoodWithout ==
  ASSUME NEW ls, GoodList(ls), NEW q \in 2..(Len(ls) - 1), ~ls[q].dflag,
         Without(ls, q) \in Seq(Lines), Len(Without(ls, q)) = Len(ls) - 1
  PROVE  GoodList(Without(ls, q))
<1> DEFINE k == Len(ls)
           ms == Without(ls, q)
           n == Len(ms)
<1>1. /\ k \in Nat /\ Headed(ls) /\ \A i \in 2..k : Placed(ls, i)
      /\ \A i \in 1..k : ls[i] \in Lines
  BY ElementOfSeq DEF GoodList, Headed
<1>2. n = k - 1
  OBVIOUS
<1>3. \A i \in 1..(Len(ls) - 1) : ms[i] = ls[Origin(q, i)]
  BY DEF Without
<1>4. n \in Nat /\ n > 0 /\ q \in 2..n
  <2> HIDE DEF n
  <2> QED
    BY <1>1, <1>2
<1> HIDE DEF k, n, ms
<1>5. \A i \in 1..n : ms[i] = ls[Origin(q, i)]
  BY <1>2, <1>3 DEF k
<1>6. Headed(ms)
  <2>1. 1 \in 1..n /\ Origin(q, 1) = 1
    BY <1>4 DEF Origin
  <2>2. ms[1] = HeadLine
    BY <1>1, <1>5, <2>1 DEF Headed
  <2>3. ASSUME NEW i \in 2..n PROVE ms[i].fname # home
    <3>1. i \in 1..n /\ Origin(q, i) \in 2..k
      BY <1>1, <1>2, <1>4 DEF Origin
    <3> QED
      BY <1>1, <1>5, <3>1 DEF Headed, k
  <2> QED
    BY <1>4, <2>2, <2>3 DEF Headed, n
<1>7. ASSUME NEW i \in 2..n PROVE Placed(ms, i)
  <2> DEFINE o == Origin(q, i)
  <2>1. i \in 1..n /\ o \in 2..k /\ o \in 1..k /\ o # q
    BY <1>1, <1>2, <1>4 DEF Origin
  <2>2. ms[i] = ls[o]
    BY <1>5, <2>1
  <2>3. Moved(q, o) = i
    BY <1>4, <1>7 DEF Moved, Origin
  <2> HIDE DEF o
  <2>4. PICK f \in 1..(o - 1) : /\ LeadsTo(ls, ls[o].loc, f) /\ ls[f].dflag
                                /\ \A p \in (f + 1)..(o - 2) : ~ls[p].dflag
    BY <1>1, <2>1 DEF Placed
  <2>5. f # q /\ f \in 1..k /\ f < o
    <3>1. f \in 1..k /\ f < o
      BY <1>1, <2>1, <2>4
    <3> QED
      BY <2>4, <3>1
  <2>6. LeadsTo(ms, ls[o].loc, Moved(q, f))
    <3>1. ls[o].loc \in Locs
      BY <1>1, <2>1 DEF Lines
    <3>2. Len(ls[o].loc) \in Nat /\ Len(ls[o].loc) > 0
      BY <3>1, PathLength
    <3>3. Len(ls) \in Nat /\ q \in 2..(Len(ls) - 1) /\ Len(ms) = Len(ls) - 1
      BY <1>1, <1>2 DEF k, n
    <3>4. \A j \in 1..Len(ms) : ms[j] = ls[Origin(q, j)]
      BY <1>5 DEF n
    <3> QED
      BY <2>4, <2>5, <3>2, <3>3, <3>4, LeadsWithout
  <2>7. Moved(q, f) \in 1..(i - 1) /\ Moved(q, f) \in 1..n /\ Origin(q, Moved(q, f)) = f
    BY <1>1, <1>2, <1>4, <2>1, <2>3, <2>5 DEF Moved, Origin
  <2>8. ms[Moved(q, f)].dflag
    BY <1>5, <2>4, <2>7
  <2>9. ASSUME NEW p \in (Moved(q, f) + 1)..(i - 2) PROVE ~ms[p].dflag
    <3>1. p \in 1..n
      BY <1>4, <2>7
    <3>2. Origin(q, p) \in (f + 1)..(o - 2)
      BY <1>1, <1>4, <2>1, <2>3, <2>5 DEF Moved, Origin
    <3> QED
      BY <1>5, <2>4, <3>1, <3>2
  <2> QED
    BY <2>2, <2>6, <2>7, <2>8, <2>9 DEF Placed
<1>8. ms \in Seq(Lines)
  BY DEF ms
<1> QED
  BY <1>6, <1>7, <1>8 DEF GoodList, n, ms

-----------------------------------------------------------------------------
(* The list in every state.                                                 *)

LEMMA CopiesAt ==
  ASSUME NEW lines, Len(lines) \in Nat, Len(lines) > 0, NEW n \in Nat, n > 0
  PROVE  LET c == Copies(lines, n)
             k == Len(lines)
         IN /\ Len(c) \in Nat /\ k <= Len(c) /\ \A i \in 1..k : c[i] = lines[i]
            /\ k < Len(c) => c[k + 1] = lines[1]
<1> DEFINE k == Len(lines)
           m == n * k
           c == [i \in 1..m |-> lines[1 + ((i - 1) % k)]]
<1>1. k \in Nat /\ k > 0
  OBVIOUS
<1>2. Copies(lines, n) = c
  BY DEF Copies
<1> HIDE DEF k
<1>3. m \in Nat /\ k <= m
  <2>1. m \in Nat
    BY <1>1
  <2>2. n * k >= k
    BY <1>1, SMTT(20)
  <2> QED
    BY <1>1, <2>1, <2>2
<1> HIDE DEF m
<1>4. Len(c) = m
  BY <1>3, LenProperties
<1>5. ASSUME NEW i \in 1..k PROVE c[i] = lines[i]
  <2>1. i \in 1..m /\ (i - 1) % k = i - 1 /\ 1 + (i - 1) = i
    BY <1>1, <1>3
  <2> QED
    BY <2>1
<1>6. ASSUME k < m PROVE c[k + 1] = lines[1]
  <2>1. k + 1 \in 1..m /\ ((k + 1) - 1) % k = 0
    BY <1>1, <1>3, <1>6
  <2> QED
    BY <2>1
<1> HIDE DEF c
<1> QED
  BY <1>2, <1>3, <1>4, <1>5, <1>6 DEF k

\* The path of the head leads nowhere.
LEMMA TopNowhere ==
  ASSUME NEW t, NEW ch, NEW ls, Listed(t, ch, ls), Headed(ls)
  PROVE  search(t, <<Top>>) \notin Cells
<1> SUFFICES ASSUME search(t, <<Top>>) \in Cells PROVE FALSE
  OBVIOUS
<1> DEFINE path == <<Top>>
<1>1. Len(path) \in Nat /\ Len(path) > 0 /\ path[1] = Top /\ 2..Len(path) = {}
  OBVIOUS
<1> HIDE DEF path
<1>2. PICK f : LeadsTo(ls, path, f)
  <2>1. search(t, path) \in Cells
    BY DEF path
  <2> QED
    BY <1>1, <2>1, Found
<1>3. Top # home /\ Top \notin Names
  BY DirTreeAssumption
<1>4. ~HomeAgain(path)
  BY <1>1 DEF HomeAgain
<1>5. InFolder(ls, 1, Top, f) /\ f \in 1..Len(ls)
  BY <1>1, <1>2, <1>3, <1>4 DEF LeadsTo
<1>6. ls[f].fname = Top /\ ls[f] \in Lines
  BY <1>5, ListedFacts DEF InFolder, FirstAt
<1> QED
  BY <1>3, <1>6 DEF Lines

\* A search that an addition follows has found a node.
LEMMA FoundToAdd ==
  ASSUME NEW t, NEW ch, NEW ls, Listed(t, ch, ls), Headed(ls), NEW line \in Lines
  PROVE  /\ addnode(t, line) # <<>> =>
              \E f : LeadsTo(ls, line.loc, f) /\ search(t, line.loc) = ch[f]
         /\ \A f : LeadsTo(ls, line.loc, f) /\ ~HomeAgain(line.loc) => addnode(t, line) # <<>>
<1> DEFINE path == line.loc
<1>1. Len(path) \in Nat /\ Len(path) > 0
  <2>1. path \in Locs
    BY DEF Lines
  <2> QED
    BY <2>1, PathLength
<1> HIDE DEF path
<1>2. ASSUME addnode(t, line) # <<>>
      PROVE  \E f : LeadsTo(ls, path, f) /\ search(t, path) = ch[f]
  <2>1. search(t, path) \in Cells
    BY <1>2 DEF addnode, searchlast, LastIn, LastOf, path
  <2> QED
    BY <1>1, <2>1, Found
<1>3. ASSUME NEW f, LeadsTo(ls, path, f), ~HomeAgain(path)
      PROVE  addnode(t, line) # <<>>
  <2>1. search(t, path) = ch[f]
    BY <1>1, <1>3, Leading
  <2>2. f \in 1..Len(ls)
    BY <1>3 DEF LeadsTo
  <2>3. ch[f] \in InTree(t) /\ ch[f] \in Cells
    BY <2>2, ListedFacts
  <2>4. searchlast(t, path) \in Links
    <3>1. CASE t[ch[f]].fold = DNULL
      BY <2>1, <2>3, <3>1 DEF searchlast, LastIn, Links
    <3>2. CASE t[ch[f]].fold # DNULL
      <4> DEFINE at == Siblings(t, t[ch[f]].fold)
                 i == CHOOSE j \in DOMAIN at : at[j] # DNULL /\ t[at[j]].next = DNULL
      <4>1. Agreeing(t) /\ t[ch[f]].fold \in InTree(t) /\ InTree(t) \subseteq Cells
        BY <2>3, <3>2, ChildrenInTree, InTreeLeast DEF Listed, Agreeing
      <4>2. searchlast(t, path) = at[i]
        BY <2>1, <2>3, <3>2 DEF searchlast, LastIn, LastOf
      <4>3. \E j \in DOMAIN at : at[j] # DNULL /\ t[at[j]].next = DNULL
        BY <4>1, LastSibling
      <4>4. at \in [1..(Cardinality(Cells) + 1) -> InTree(t) \cup {DNULL}]
        BY <4>1, SiblingsUnfold
      <4> HIDE DEF at
      <4>5. i \in DOMAIN at
        BY <4>3
      <4> HIDE DEF i
      <4> QED
        BY <4>1, <4>2, <4>4, <4>5 DEF Links
    <3> QED
      BY <3>1, <3>2
  <2>5. searchlast(t, path) # Fault
    BY <2>4, CellsFinite
  <2> DEFINE last == searchlast(t, path)
             new == malloc(t)
             linked == IF t[last].dflag THEN [t EXCEPT ![last].fold = new]
                                        ELSE [t EXCEPT ![last].next = new]
  <2>6. addnode(t, line) = [linked EXCEPT ![new] = create_node(line, last)]
    BY <2>5 DEF addnode, path
  <2>7. head \in DOMAIN linked
    <3>1. t \in [Cells -> Node]
      BY DEF Listed, Agreeing
    <3> QED
      BY <3>1, CellsFinite
  <2> HIDE DEF linked
  <2>8. head \in DOMAIN addnode(t, line)
    BY <2>6, <2>7
  <2>9. DOMAIN <<>> = {}
    OBVIOUS
  <2> QED
    BY <2>8, <2>9
<1> QED
  BY <1>2, <1>3 DEF path

\* Some of the lines in the file, each a place to add the next one at, and the
\* shape that was stored.
Reading(ls) ==
  \E src, t, dh, n :
    /\ GoodList(src) /\ Listed(t, dh, src) /\ stored = Shape(t)
    /\ n \in Nat /\ n > 0 /\ file = Copies(src, n)
    /\ read \in 1..Len(src) /\ Len(ls) = read /\ \A i \in 1..read : ls[i] = src[i]

ListInv ==
  LinkInv /\ \E ch, ls : /\ Listed(tree, ch, ls) /\ GoodList(ls)
                         /\ status = "reading" => Reading(ls)

LEMMA HeadListGood == GoodList(<<HeadLine>>) /\ Listed(ninitialize, <<head>>, <<HeadLine>>)
<1> DEFINE ls == <<HeadLine>>
<1>1. ls \in Seq(Lines) /\ Len(ls) = 1 /\ ls[1] = HeadLine
  BY HeadLineType
<1>2. Listed(ninitialize, <<head>>, ls)
  BY HeadLineType, NewListed DEF ninitialize
<1> HIDE DEF ls
<1>3. 2..Len(ls) = {}
  BY <1>1
<1>4. GoodList(ls)
  BY <1>1, <1>3 DEF GoodList, Headed
<1> QED
  BY <1>2, <1>4 DEF ls

LEMMA FreshList ==
  ASSUME LinkInv', tree' = ninitialize, status' # "reading"
  PROVE  ListInv'
BY HeadListGood DEF ListInv

LEMMA CrashList ==
  ASSUME LinkInv', Crash
  PROVE  ListInv'
BY FreshList DEF Crash

LEMMA AddList ==
  ASSUME ListInv, LinkInv', NEW name \in Names, NEW dflag \in BOOLEAN, NEW p \in Paths,
         Add(name, dflag, p)
  PROVE  ListInv'
<1> DEFINE line == [fname |-> name, dflag |-> dflag, loc |-> p]
<1>1. line \in Lines /\ line.loc = p /\ line.fname # home
  BY DirTreeAssumption DEF Lines, Locs
<1>2. CASE Crash
  BY <1>2, CrashList
<1>3. CASE /\ HasRoom /\ addnode(tree, line) # <<>> /\ tree' = addnode(tree, line)
           /\ UNCHANGED status
           /\ LET folder == search(tree, p) IN folder \in Cells => tree[folder].dflag
  <2> HIDE DEF line
  <2>1. PICK ch, ls : Listed(tree, ch, ls) /\ GoodList(ls)
    BY DEF ListInv
  <2>2. Headed(ls) /\ Len(ls) \in Nat
    BY <2>1 DEF GoodList, Headed
  <2>3. PICK f : LeadsTo(ls, line.loc, f) /\ search(tree, line.loc) = ch[f]
    BY <1>1, <1>3, <2>1, <2>2, FoundToAdd
  <2>4. f \in 1..Len(ls)
    BY <2>3 DEF LeadsTo
  <2>5. ch[f] \in Cells
    BY <2>1, <2>4, ListedFacts
  <2>6. ls[f].dflag
    BY <1>1, <1>3, <2>1, <2>3, <2>4, <2>5, LinksOf
  <2>7. PICK dh, ms, g : /\ Listed(addnode(tree, line), dh, ms)
                         /\ GroupEnd(ls, f, g) /\ Extended(ls, g, line, ms)
    BY <1>1, <1>3, <2>1, <2>3, <2>4, <2>6, AddedList DEF HasRoom
  <2>8. g \in 1..Len(ls) /\ f \in 1..g /\ \A i \in (f + 1)..(g - 1) : ~ls[i].dflag
    <3>1. g \in f..Len(ls) /\ \A i \in (f + 1)..(g - 1) : ~ls[i].dflag
      BY <2>7 DEF GroupEnd
    <3> QED
      BY <2>2, <2>4, <3>1
  <2>9. GoodList(ms)
    BY <1>1, <2>1, <2>3, <2>6, <2>7, <2>8, GoodExtended
  <2>10. status' # "reading"
    BY <1>3 DEF Add, Running
  <2> QED
    BY <1>3, <2>7, <2>9, <2>10 DEF ListInv
<1> QED
  BY <1>2, <1>3 DEF Add

LEMMA RemovefileList ==
  ASSUME ListInv, LinkInv', NEW path \in Paths, removefile(path)
  PROVE  ListInv'
<1> DEFINE c == search(tree, path)
<1>1. CASE Crash
  BY <1>1, CrashList
<1>2. CASE /\ c \in Cells /\ c # head /\ tree[c].next # DNULL
           /\ tree' = Unlinked(tree, c) /\ UNCHANGED status
  <2>1. PICK ch, ls : Listed(tree, ch, ls) /\ GoodList(ls)
    BY DEF ListInv
  <2>2. Headed(ls) /\ Len(ls) \in Nat
    BY <2>1 DEF GoodList, Headed
  <2>3. c \in InTree(tree)
    BY <1>2, SearchInTree, CellsFinite DEF ListInv, LinkInv, Locs, Links
  <2> HIDE DEF c
  <2>4. PICK q \in 1..Len(ls) : c = ch[q]
    BY <2>1, <2>3, ListedFacts
  <2>5. q # 1
    BY <1>2, <2>1, <2>2, <2>4, HeadIs
  <2>6. q \in 2..Len(ls)
    BY <2>2, <2>4, <2>5
  <2> DEFINE ms == Without(ls, q)
  <2>7. /\ \E dh : Listed(Unlinked(tree, c), dh, ms)
        /\ ms \in Seq(Lines) /\ Len(ms) = Len(ls) - 1
        /\ q # Len(ls) /\ ~ls[q].dflag
    BY <1>2, <2>1, <2>4, <2>6, RemovedList
  <2>8. q \in 2..(Len(ls) - 1)
    BY <2>2, <2>6, <2>7
  <2>9. GoodList(ms)
    BY <2>1, <2>7, <2>8, GoodWithout
  <2>10. status' # "reading"
    BY <1>2 DEF removefile, Running
  <2> HIDE DEF ms
  <2> QED
    BY <1>2, <2>7, <2>9, <2>10 DEF ListInv
<1> QED
  BY <1>1, <1>2 DEF removefile

LEMMA RestartList ==
  ASSUME ListInv, LinkInv', NEW n \in 1..MaxStores, Restart(n)
  PROVE  ListInv'
<1>1. PICK ch, ls : Listed(tree, ch, ls) /\ GoodList(ls)
  BY DEF ListInv
<1>2. Len(ls) \in Nat /\ Len(ls) > 0 /\ ls[1] = HeadLine
  BY <1>1 DEF GoodList, Headed
<1>3. n \in Nat /\ n > 0
  BY DirTreeAssumption
<1>4. file' = Copies(ls, n)
  BY <1>1, StoredIsList DEF Restart
<1>5. Copies(ls, n)[1] = HeadLine
  <2>1. 1 \in 1..Len(ls)
    BY <1>2
  <2> QED
    BY <1>2, <1>3, <2>1, CopiesAt
<1> DEFINE ms == <<HeadLine>>
<1>6. Listed(tree', <<head>>, ms) /\ GoodList(ms) /\ Len(ms) = 1 /\ ms[1] = HeadLine
  BY <1>4, <1>5, HeadListGood DEF Restart, ninitialize
<1>7. stored' = Shape(tree) /\ read' = 1
  BY DEF Restart
<1> HIDE DEF ms
<1>8. read' \in 1..Len(ls) /\ \A i \in 1..read' : ms[i] = ls[i]
  BY <1>2, <1>6, <1>7
<1>9. Reading(ms)'
  BY <1>1, <1>3, <1>4, <1>6, <1>7, <1>8 DEF Reading
<1> QED
  BY <1>6, <1>9 DEF ListInv

\* The next line of the file is the head again, or belongs where it is read.
LEMMA NextLine ==
  ASSUME NEW ls, Reading(ls), read < Len(file)
  PROVE  LET line == file[read + 1]
         IN \/ line = HeadLine /\ line = file[1] /\ read + 1 \in 2..Len(file)
            \/ \E f \in 1..read :
                 /\ LeadsTo(ls, line.loc, f) /\ ls[f].dflag
                 /\ \A p \in (f + 1)..(read - 1) : ~ls[p].dflag
                 /\ line \in Lines /\ line.fname # home
<1> DEFINE line == file[read + 1]
<1>1. PICK src, t, dh, n :
        /\ GoodList(src) /\ Listed(t, dh, src)
        /\ n \in Nat /\ n > 0 /\ file = Copies(src, n)
        /\ read \in 1..Len(src) /\ Len(ls) = read /\ \A i \in 1..read : ls[i] = src[i]
  BY DEF Reading
<1> DEFINE k == Len(src)
<1>2. k \in Nat /\ k > 0 /\ src[1] = HeadLine /\ src \in Seq(Lines)
      /\ (\A i \in 2..k : src[i].fname # home) /\ \A i \in 2..k : Placed(src, i)
  BY <1>1 DEF GoodList, Headed
<1>3. /\ Len(file) \in Nat /\ k <= Len(file) /\ \A i \in 1..k : file[i] = src[i]
      /\ k < Len(file) => file[k + 1] = src[1]
  BY <1>1, <1>2, CopiesAt
<1>4. CASE read = k
  <2>1. line = HeadLine /\ file[1] = HeadLine /\ read + 1 \in 2..Len(file)
    <3> HIDE DEF k
    <3> QED
      BY <1>1, <1>2, <1>3, <1>4
  <2> QED
    BY <2>1
<1>5. CASE read # k
  <2>1. read \in 1..k /\ Len(ls) = read /\ \A i \in 1..read : src[i] = ls[i]
    BY <1>1
  <2> HIDE DEF k
  <2>2. read + 1 \in 2..k /\ read + 1 \in 1..k /\ read \in 0..Len(ls) /\ Len(ls) \in Nat
        /\ (read + 1) - 1 = read /\ (read + 1) - 2 = read - 1 /\ read \in Nat
    BY <1>2, <1>5, <2>1
  <2>3. line = src[read + 1] /\ line.fname # home /\ Placed(src, read + 1)
    BY <1>2, <1>3, <2>2
  <2>4. line \in Lines
    BY <1>2, <2>2, <2>3, ElementOfSeq DEF k
  <2>5. PICK f \in 1..read : /\ LeadsTo(src, src[read + 1].loc, f) /\ src[f].dflag
                             /\ \A p \in (f + 1)..(read - 1) : ~src[p].dflag
    BY <2>2, <2>3 DEF Placed
  <2>6. LeadsTo(ls, src[read + 1].loc, f)
    BY <1>2, <2>1, <2>2, <2>5, SameBegin DEF k
  <2>7. ls[f].dflag /\ \A p \in (f + 1)..(read - 1) : ~ls[p].dflag
    <3>1. \A p \in (f + 1)..(read - 1) : p \in 1..read
      BY <2>2, <2>5
    <3> QED
      BY <2>1, <2>5, <3>1
  <2> QED
    BY <2>3, <2>4, <2>5, <2>6, <2>7
<1> QED
  BY <1>4, <1>5

LEMMA ReadList ==
  ASSUME ListInv, LinkInv', status = "reading", ReadLine
  PROVE  ListInv'
<1> DEFINE line == file[read + 1]
<1>1. CASE Crash
  BY <1>1, CrashList
<1>2. CASE /\ HasRoom /\ addnode(tree, line) # <<>> /\ tree' = addnode(tree, line)
           /\ read' = read + 1 /\ UNCHANGED <<status, file, stored>>
  <2>1. PICK ch, ls : Listed(tree, ch, ls) /\ GoodList(ls) /\ Reading(ls)
    BY DEF ListInv
  <2>2. Headed(ls) /\ Len(ls) \in Nat
    BY <2>1 DEF GoodList, Headed
  <2>3. read < Len(file) /\ Len(ls) = read
    BY <2>1 DEF ReadLine, Reading
  <2> HIDE DEF line
  <2>4. line # HeadLine
    <3> SUFFICES ASSUME line = HeadLine PROVE FALSE
      OBVIOUS
    <3>1. HeadLine \in Lines /\ HeadLine.loc = <<Top>> /\ addnode(tree, HeadLine) # <<>>
      BY <1>2, HeadLineType DEF HeadLine
    <3>2. PICK f : LeadsTo(ls, <<Top>>, f) /\ search(tree, <<Top>>) = ch[f]
      BY <2>1, <2>2, <3>1, FoundToAdd
    <3>3. f \in 1..Len(ls)
      BY <3>2 DEF LeadsTo
    <3>4. ch[f] \in Cells
      BY <2>1, <3>3, ListedFacts
    <3> QED
      BY <2>1, <2>2, <3>2, <3>4, TopNowhere
  <2>5. PICK f \in 1..read :
          /\ LeadsTo(ls, line.loc, f) /\ ls[f].dflag
          /\ \A p \in (f + 1)..(read - 1) : ~ls[p].dflag
          /\ line \in Lines /\ line.fname # home
    BY <2>1, <2>3, <2>4, NextLine DEF line
  <2>6. PICK found : LeadsTo(ls, line.loc, found) /\ search(tree, line.loc) = ch[found]
    BY <1>2, <2>1, <2>2, <2>5, FoundToAdd
  <2>7. search(tree, line.loc) = ch[f]
    <3>1. CASE HomeAgain(line.loc)
      BY <2>5, <2>6, <3>1 DEF LeadsTo
    <3>2. CASE ~HomeAgain(line.loc)
      <4>1. line.loc \in Locs
        BY <2>5 DEF Lines
      <4>2. Len(line.loc) \in Nat /\ Len(line.loc) > 0
        BY <4>1, PathLength
      <4> QED
        BY <2>1, <2>2, <2>5, <3>2, <4>2, Leading
    <3> QED
      BY <3>1, <3>2
  <2>8. f \in 1..Len(ls)
    BY <2>3, <2>5
  <2>9. PICK dh, ms, g : /\ Listed(addnode(tree, line), dh, ms)
                         /\ GroupEnd(ls, f, g) /\ Extended(ls, g, line, ms)
    BY <1>2, <2>1, <2>5, <2>7, <2>8, AddedList DEF HasRoom
  <2>10. g = read
    <3>1. g \in f..read /\ (g = read \/ (g # f /\ ls[g].dflag))
      BY <2>3, <2>9 DEF GroupEnd
    <3>2. g # read /\ g # f => g \in (f + 1)..(read - 1)
      BY <2>2, <2>3, <2>5, <3>1
    <3> QED
      BY <2>5, <3>1, <3>2
  <2>11. g \in 1..Len(ls) /\ f \in 1..g /\ \A i \in (f + 1)..(g - 1) : ~ls[i].dflag
    BY <2>2, <2>3, <2>5, <2>8, <2>10
  <2>12. GoodList(ms)
    BY <2>1, <2>5, <2>9, <2>11, GoodExtended
  <2>13. Reading(ms)'
    <3>1. PICK src, t, eh, n :
            /\ GoodList(src) /\ Listed(t, eh, src) /\ stored = Shape(t)
            /\ n \in Nat /\ n > 0 /\ file = Copies(src, n)
            /\ read \in 1..Len(src) /\ \A i \in 1..read : ls[i] = src[i]
      BY <2>1 DEF Reading
    <3> DEFINE k == Len(src)
    <3>2. k \in Nat /\ k > 0 /\ src[1] = HeadLine
      BY <3>1 DEF GoodList, Headed
    <3>3. /\ k <= Len(file) /\ \A i \in 1..k : file[i] = src[i]
          /\ k < Len(file) => file[k + 1] = src[1]
      BY <3>1, <3>2, CopiesAt
    <3>4. read \in 1..k
      BY <3>1
    <3>5. Len(ms) = read + 1 /\ ms[read + 1] = line /\ \A i \in 1..read : ms[i] = ls[i]
      BY <2>9, <2>10 DEF Extended
    <3> HIDE DEF k
    <3>6. read # k
      BY <2>3, <2>4, <3>2, <3>3 DEF line
    <3>7. read + 1 \in 1..k
      BY <3>2, <3>4, <3>6
    <3>8. ms[read + 1] = src[read + 1]
      BY <3>3, <3>5, <3>7 DEF line
    <3>9. \A i \in 1..(read + 1) : ms[i] = src[i]
      <4>1. \A i \in 1..(read + 1) : i = read + 1 \/ i \in 1..read
        BY <3>4, <3>2
      <4> QED
        BY <3>1, <3>5, <3>8, <4>1
    <3> QED
      BY <1>2, <3>1, <3>5, <3>7, <3>9 DEF Reading, k
  <2> QED
    BY <1>2, <2>9, <2>12, <2>13 DEF ListInv
<1> QED
  BY <1>1, <1>2 DEF ReadLine

LEMMA ListInit == Init => ListInv
<1> SUFFICES ASSUME Init PROVE ListInv
  OBVIOUS
<1>1. LinkInv /\ tree = ninitialize /\ status # "reading"
  BY LinkInit DEF Init
<1> QED
  BY <1>1, HeadListGood DEF ListInv

LEMMA ListStep == ListInv /\ [Next]_vars => ListInv'
<1> SUFFICES ASSUME ListInv, [Next]_vars PROVE ListInv'
  OBVIOUS
<1> LinkInv'
  BY LinkStep DEF ListInv
<1>1. CASE \E p \in Paths, name \in Names, dflag \in BOOLEAN : Add(name, dflag, p)
  BY <1>1, AddList
<1>2. CASE \E p \in Paths : removefile(p)
  BY <1>2, RemovefileList
<1>3. ASSUME NEW p \in Paths, removefold(p) PROVE ListInv'
  <2>1. CASE Crash
    BY <2>1, CrashList
  <2>2. CASE status' = "walking" /\ UNCHANGED <<tree, file, read, stored>>
    BY <2>2 DEF ListInv
  <2> QED
    BY <1>3, <2>1, <2>2 DEF removefold
<1>4. CASE \E n \in 1..MaxStores : Restart(n)
  BY <1>4, RestartList
<1>5. CASE ReadLine
  BY <1>5, ReadList DEF ReadLine
<1>6. CASE EndOfFile
  BY <1>6 DEF EndOfFile, ListInv
<1>7. CASE Start
  BY <1>7, FreshList DEF Start
<1>8. CASE UNCHANGED vars
  BY <1>8 DEF vars, ListInv, Reading
<1> QED
  BY <1>1, <1>2, <1>3, <1>4, <1>5, <1>6, <1>7, <1>8 DEF Next

\* A step while lines are read ends the reading with the tree that was stored,
\* or crashes on the head's line or on a path that is back at the head.
LEMMA ReadStep ==
  ASSUME ListInv, [Next]_vars, status = "reading"
  PROVE  /\ Running' => Shape(tree') = stored
         /\ status' = "crashed" =>
              (\E i \in 2..Len(file) : file[i] = file[1]) \/ HomeAgain(file[read + 1].loc)
<1>1. PICK ch, ls : Listed(tree, ch, ls) /\ GoodList(ls) /\ Reading(ls)
  BY DEF ListInv
<1>2. (ReadLine /\ status' # "running") \/ EndOfFile \/ UNCHANGED vars
  <2>1. ReadLine => status' # "running"
    BY DEF ReadLine, Crash
  <2> QED
    BY <2>1 DEF Next, Add, removefile, removefold, Restart, Start, Running
<1>3. CASE ReadLine /\ status' # "running"
  <2> SUFFICES ASSUME status' = "crashed", ~HomeAgain(file[read + 1].loc)
               PROVE  \E i \in 2..Len(file) : file[i] = file[1]
    BY <1>3 DEF Running
  <2> DEFINE line == file[read + 1]
  <2>1. read < Len(file) /\ addnode(tree, line) = <<>>
    BY <1>3 DEF ReadLine
  <2>2. Headed(ls)
    BY <1>1 DEF GoodList
  <2> HIDE DEF line
  <2>3. ~\E f \in 1..read : LeadsTo(ls, line.loc, f) /\ line \in Lines
    BY <1>1, <2>1, <2>2, FoundToAdd DEF line
  <2>4. line = file[1] /\ read + 1 \in 2..Len(file)
    BY <1>1, <2>1, <2>3, NextLine DEF line
  <2> QED
    BY <2>4 DEF line
<1>4. CASE EndOfFile
  <2>1. PICK src, t, dh, n :
          /\ GoodList(src) /\ Listed(t, dh, src) /\ stored = Shape(t)
          /\ n \in Nat /\ n > 0 /\ file = Copies(src, n)
          /\ read \in 1..Len(src) /\ Len(ls) = read /\ \A i \in 1..read : ls[i] = src[i]
    BY <1>1 DEF Reading
  <2>2. /\ Len(src) \in Nat /\ Len(src) > 0
        /\ src \in Seq(Lines) /\ ls \in Seq(Lines)
    BY <1>1, <2>1 DEF GoodList, Headed
  <2>3. Len(src) <= Len(file) /\ Len(file) = read
    BY <1>4, <2>1, <2>2, CopiesAt DEF EndOfFile
  <2>4. Len(ls) = Len(src)
    BY <2>1, <2>2, <2>3
  <2>5. ls = src
    BY <2>1, <2>2, <2>4, SeqEqual
  <2>6. Shape(tree) = Shape(t)
    BY <1>1, <2>1, <2>5, SameShape
  <2> QED
    BY <1>4, <2>1, <2>6 DEF EndOfFile
<1>5. CASE UNCHANGED vars
  BY <1>5 DEF vars, Running
<1> QED
  BY <1>2, <1>3, <1>4, <1>5

\* Whatever is added, removed, stored and read, the tree of dd.c is a list: a node
\* leads to one other, the next one behind a file and the first one in a folder.
THEOREM TreeIsAlwaysList == Spec => [](\E ch, k : Chain(tree, ch, k))
<1>1. LinkInv => \E ch, k : Chain(tree, ch, k)
  BY ChainExists DEF LinkInv
<1> QED
  BY LinkInit, LinkStep, <1>1, PTL DEF Spec

\* searchloc finds a node under the path that addfile or addfolder put it at, for
\* any number of nodes, names and paths, and after it was stored and read back.
THEOREM NodesFoundWhereAdded == Spec => []FoundWhereAdded
<1>1. ListInv => FoundWhereAdded
  BY GoodFound DEF ListInv
<1> QED
  BY ListInit, ListStep, <1>1, PTL DEF Spec

\* recoverlist makes of the lines that recursestore wrote the tree they were
\* written from, and only ends the process on lines that were written twice or
\* on one whose path is back at the head.
THEOREM RecoverAlwaysRestores == Spec => RecoverRestores
<1> DEFINE Restores ==
      status = "reading" =>
        /\ Running' => Shape(tree') = stored
        /\ status' = "crashed" =>
             (\E i \in 2..Len(file) : file[i] = file[1]) \/ HomeAgain(file[read + 1].loc)
<1>1. ListInv /\ [Next]_vars => Restores
  BY ReadStep
<1> HIDE DEF Restores
<1>2. Spec => [][Restores]_vars
  BY ListInit, ListStep, <1>1, PTL DEF Spec
<1> QED
  BY <1>2 DEF RecoverRestores, Restores
=============================================================================
