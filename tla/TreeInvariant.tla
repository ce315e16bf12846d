--------------------------- MODULE TreeInvariant ---------------------------
(***************************************************************************)
(* The steps of BTree.tla keep the tree a B-Tree, for every set of keys    *)
(* and pages, every limit on the cells of a node and any number of failing *)
(* pager calls, between the writes of a split too.  The invariant says     *)
(* that some tree is on the pages, that the path of the call in progress   *)
(* lies in it, and that the node in hand fits where it is to be written.   *)
(* The second half follows the cells that the leaves hold: what a call     *)
(* adds, changes, removes or, when a split is cut short, loses, which      *)
(* pages it does not touch, and how far a scan has come.                   *)
(***************************************************************************)
EXTENDS TreeProofs

----------------------------------------------------------------------------
\* What holds of the tree between two pager calls

\* The pages of a call lead from the top of the tree downwards.
DownFrom(top, pages, m, T, h) ==
  /\ Len(pages) \in Nat \ {0} /\ pages[1] = top
  /\ \A j \in 1 .. Len(pages) : pages[j] \in T
  /\ \A j \in 1 .. Len(pages) - 1 : \E i \in Ways(m[pages[j]]) :
       pages[j + 1] = Child(m[pages[j]], i)
  /\ \A i, j \in 1 .. Len(pages) : i < j => h[pages[j]] < h[pages[i]]

\* They are the pages to which a search for k turns.
Toward(k, pages, m) ==
  \A j \in 1 .. Len(pages) - 1 : \A i \in Ways(m[pages[j]]) :
    pages[j + 1] = Child(m[pages[j]], i) => Between(m[pages[j]], i, k)

NothingLeadsTo(p, m) ==
  \A q \in PageNums : \A i \in Ways(m[q]) : Child(m[q], i) # p

\* The next root is about to be written: the first leaf of all, or a node over
\* the root and the page that took its right half.
RootAwaited(node, m, T, tops, h, under, top) ==
  \/ top = NoPage /\ node = Leaf(<<>>)
  \/ /\ top \in tops /\ HalfFullNode(m[top])
     /\ \E r \in T \ tops, k \in Keys :
          /\ node = Internal(<<[child |-> top, key |-> k]>>, r)
          /\ h[r] = h[top] /\ NothingLeadsTo(r, m)
          /\ \A x \in under[top] : x < k
          /\ \A x \in under[r] : k <= x

\* T may hold the pages of other trees, too.
TreeState(m, own, top, at, seek, pages, node, T, tops, h, under) ==
  /\ T \subseteq own /\ tops \subseteq T
  /\ Tree(m, T, h, under, tops)
  /\ top = NoPage \/ top \in tops
  /\ at \in {"descend", "write", "alloc", "right"} => DownFrom(top, pages, m, T, h)
  /\ at = "descend" => Toward(seek.key, pages, m)
  /\ at \in {"write", "alloc", "right"} =>
       Tree([m EXCEPT ![Last(pages)] = node], T, h, under, tops)
  /\ at \in {"alloc", "right"} => m[Last(pages)] = LeftHalf(node)
  /\ at \in {"rootalloc", "root"} => RootAwaited(node, m, T, tops, h, under, top)

\* Known: pages known to be of a tree; roots: those of them known to be on top.
HasTree(known, roots) ==
  \E T, tops \in SUBSET PageNums,
     h \in [PageNums -> Nat], under \in [PageNums -> SUBSET Int] :
    /\ known \subseteq T /\ roots \subseteq tops
    /\ TreeState(view, owned, root, pc, req, path, work, T, tops, h, under)

\* The root of the tree at work is not among those that stay on top.
TreeWith(known, roots) == Inv /\ root \notin roots /\ HasTree(known, roots)

TreeInv == TreeWith({}, {})

\* The invariant gives the two properties that the runs check.
LEMMA TreeInvGives == TreeInv => TreeSound /\ HalfFull
<1> SUFFICES ASSUME TreeInv, root # NoPage
             PROVE  /\ SearchTree(view, root)
                    /\ \A p \in Range(Preorder(view, root)) \ {root} :
                         view[p].type = "internal" =>
                           Len(view[p].cells) >= MaxInternalCells \div 2
  BY DEF TreeSound, HalfFull
<1>1. PICK T, tops \in SUBSET PageNums,
           h \in [PageNums -> Nat], under \in [PageNums -> SUBSET Int] :
        TreeState(view, owned, root, pc, req, path, work, T, tops, h, under)
  BY DEF TreeInv, TreeWith, HasTree
<1>2. root \in T /\ Tree(view, T, h, under, tops)
  BY <1>1 DEF TreeState
<1>3. /\ SearchTree(view, root)
      /\ \A p \in Range(Preorder(view, root)) \ {root} : HalfFullNode(view[p])
  BY <1>2, TreeIsSound
<1> QED
  BY <1>3 DEF HalfFullNode

\* Before NewBTree there is no tree: no page leads anywhere.
LEMMA InitTree == Init => TreeInv
<1> SUFFICES ASSUME Init PROVE TreeInv
  OBVIOUS
<1> DEFINE h == [p \in PageNums |-> 0]
           under == [p \in PageNums |-> {}]
<1>1. Inv
  BY InitInv
<1>2. /\ view = [p \in PageNums |-> Zero] /\ root = NoPage /\ pc = "idle"
      /\ {} \subseteq owned
  BY DEF Init, Store!Init
<1>3. /\ h \in [PageNums -> Nat] /\ under \in [PageNums -> SUBSET Int]
      /\ \A p \in PageNums : h[p] = 0
  OBVIOUS
<1>4. \A p \in PageNums : view[p] = Zero /\ Ways(view[p]) = {}
  BY <1>2 DEF Ways, Zero
<1>5. Typed(view, {}, h, under)
  BY <1>2, <1>3, PageFacts DEF Typed
<1> HIDE DEF h, under
<1>6. Tree(view, {}, h, under, {})
  BY <1>3, <1>4, <1>5 DEF Tree, Ranked, OneWayIn
<1>7. TreeState(view, owned, root, pc, req, path, work, {}, {}, h, under)
  BY <1>2, <1>6 DEF TreeState
<1>8. \E T, tops \in SUBSET PageNums,
         g \in [PageNums -> Nat], u \in [PageNums -> SUBSET Int] :
        /\ {} \subseteq T /\ {} \subseteq tops
        /\ TreeState(view, owned, root, pc, req, path, work, T, tops, g, u)
  BY <1>3, <1>7
<1> QED
  BY <1>1, <1>8 DEF TreeInv, TreeWith, HasTree

\* Pointers of a tree to the same page are one pointer.
LEMMA OneWay ==
  ASSUME NEW m, NEW T, OneWayIn(m, T), NEW p \in T, NEW q \in T,
         NEW i \in Ways(m[p]), NEW j \in Ways(m[q]), Child(m[p], i) = Child(m[q], j)
  PROVE  p = q /\ i = j
  BY DEF OneWayIn

\* A tree that the next state is known to have.
LEMMA TreeThen ==
  ASSUME NEW T, NEW tops, NEW h, NEW under, NEW known, NEW roots,
         known \subseteq T, roots \subseteq tops,
         TreeState(view', owned', root', pc', req', path', work', T, tops, h, under)
  PROVE  HasTree(known, roots)'
<1>1. /\ T \in SUBSET PageNums /\ tops \in SUBSET PageNums /\ h \in [PageNums -> Nat]
      /\ under \in [PageNums -> SUBSET Int]
  BY TreeNode DEF TreeState
<1> QED
  BY <1>1 DEF HasTree

\* Nothing leads to a page that is not linked, nor to one that is not owned.
LEMMA Unlinked ==
  ASSUME Inv, NEW f \in PageNums, f \notin LinkedPages
  PROVE  /\ NothingLeadsTo(f, view)
         /\ \A node \in RealNodes : PointsInto(node, LinkedPages) =>
              \A i \in Ways(node) : Child(node, i) # f
<1>1. ASSUME NEW node \in RealNodes, PointsInto(node, LinkedPages),
             NEW i \in Ways(node)
      PROVE  Child(node, i) # f
  <2>1. node.type = "internal" /\ Child(node, i) \in Children(node)
    BY WaysFacts DEF Ways
  <2> QED
    BY <1>1, <2>1 DEF PointsInto
<1>2. ASSUME NEW q \in PageNums, NEW i \in Ways(view[q])
      PROVE  Child(view[q], i) # f
  <2>1. view[q] \in Pages /\ view[q].type = "internal"
    BY DEF Inv, TypeOK, Store!TypeOK, Ways
  <2>2. view[q] \in RealNodes /\ view[q] # Zero
    BY <2>1, PageFacts DEF Zero
  <2>3. PointsInto(view[q], LinkedPages)
    BY <2>2 DEF Inv, PagesGood
  <2> QED
    BY <1>1, <2>2, <2>3
<1> QED
  BY <1>1, <1>2 DEF NothingLeadsTo

----------------------------------------------------------------------------
\* Leaves

\* A leaf whose keys ascend and are allowed.
LeafOver(node, keys) ==
  /\ node \in RealNodes /\ node.type = "leaf"
  /\ Ascending(node.cells)
  /\ \A i \in 1 .. Len(node.cells) : node.cells[i].key \in keys

\* Insert replaces the value of a key that the leaf has.
LEMMA CellPut ==
  ASSUME NEW node, NEW keys \in SUBSET Int, LeafOver(node, keys),
         NEW cell \in LeafCells, cell.key \in keys,
         NEW i \in Positions(node.cells, cell.key)
  PROVE  LeafOver(Leaf([node.cells EXCEPT ![i] = cell]), keys)
<1> DEFINE s == node.cells
           t == [s EXCEPT ![i] = cell]
<1>1. /\ s \in Seq(LeafCells) /\ Len(s) \in Nat /\ i \in 1 .. Len(s)
      /\ s[i].key = cell.key
  BY CellFacts DEF LeafOver, Positions
<1>2. /\ \A a, b \in 1 .. Len(s) : a < b => s[a].key < s[b].key
      /\ \A a \in 1 .. Len(s) : s[a].key \in keys
  BY DEF LeafOver, Ascending
<1> HIDE DEF s
<1>3. /\ t \in Seq(LeafCells) /\ Len(t) = Len(s)
      /\ \A j \in 1 .. Len(s) : t[j] = IF j = i THEN cell ELSE s[j]
  BY <1>1, ExceptSeq
<1> HIDE DEF t
<1>4. Leaf(t) \in RealNodes /\ Leaf(t).type = "leaf" /\ Leaf(t).cells = t
  BY <1>3, LeafIsNode
<1>5. \A j \in 1 .. Len(t) : t[j].key = s[j].key
  BY <1>1, <1>3
<1>6. LeafOver(Leaf(t), keys)
  BY <1>2, <1>3, <1>4, <1>5 DEF LeafOver, Ascending
<1> QED
  BY <1>6 DEF s, t

\* Insert puts a new key in front of the first one that is not less.
LEMMA CellAdded ==
  ASSUME NEW node, NEW keys \in SUBSET Int, LeafOver(node, keys),
         NEW cell \in LeafCells, cell.key \in keys,
         Positions(node.cells, cell.key) = {}, NEW i \in Slots(node.cells, cell.key)
  PROVE  LeafOver(Leaf(InsertAt(node.cells, i, cell)), keys)
<1> DEFINE s == node.cells
           t == InsertAt(s, i, cell)
           n == Len(s)
           k == cell.key
<1>1. s \in Seq(LeafCells) /\ n \in Nat /\ i \in 1 .. n + 1
  BY CellFacts DEF LeafOver, Slots
<1>2. /\ \A a, b \in 1 .. n : a < b => s[a].key < s[b].key
      /\ \A a \in 1 .. n : s[a].key \in keys /\ s[a].key \in Int
  BY DEF LeafOver, Ascending
<1>3. /\ \A j \in 1 .. n : s[j].key # k
      /\ \A j \in 1 .. i - 1 : s[j].key < k
      /\ i <= n => k <= s[i].key
  BY DEF Positions, Slots
<1> HIDE DEF s
<1>4. /\ t \in Seq(LeafCells) /\ Len(t) = n + 1 /\ t[i] = cell
      /\ \A j \in 1 .. i - 1 : t[j] = s[j]
      /\ \A j \in i .. n : t[j + 1] = s[j]
  <2>1. s \in Seq(LeafCells) /\ i \in 1 .. Len(s) + 1 /\ t = InsertAt(s, i, cell)
    BY <1>1
  <2> HIDE DEF t
  <2>2. t \in Seq(LeafCells) /\ Len(t) = Len(s) + 1
    BY <2>1, InsertAtFacts
  <2>3. t[i] = cell
    BY <2>1, InsertAtFacts
  <2>4. \A j \in 1 .. i - 1 : t[j] = s[j]
    BY <2>1, InsertAtFacts
  <2>5. \A j \in i .. Len(s) : t[j + 1] = s[j]
    BY <2>1, InsertAtFacts
  <2> QED
    BY <2>2, <2>3, <2>4, <2>5
<1>a. n = Len(s) /\ k = cell.key /\ k \in Int
  OBVIOUS
<1> HIDE DEF t, n, k
<1>5. \A j \in 1 .. n : i <= j => k < s[j].key
  <2>1. ASSUME NEW j \in 1 .. n, i <= j PROVE k < s[j].key
    <3>1. i \in 1 .. n /\ i <= n /\ (j = i \/ i < j)
      BY <1>1, <2>1
    <3>2. k < s[i].key
      BY <1>2, <1>3, <1>a, <3>1
    <3>3. i < j => s[i].key < s[j].key
      BY <1>2, <3>1
    <3> QED
      BY <1>2, <1>a, <3>1, <3>2, <3>3
  <2> QED
    BY <2>1
<1>6. \A j \in 1 .. n + 1 :
        \/ j < i /\ j \in 1 .. n /\ t[j] = s[j] /\ t[j].key < k
        \/ j = i /\ t[j] = cell
        \/ i < j /\ j - 1 \in 1 .. n /\ t[j] = s[j - 1] /\ k < t[j].key
  <2>1. ASSUME NEW j \in 1 .. n + 1, j < i
        PROVE  j \in 1 .. n /\ t[j] = s[j] /\ t[j].key < k
    <3>1. j \in 1 .. n /\ j \in 1 .. i - 1
      BY <1>1, <2>1
    <3> QED
      BY <1>3, <1>4, <3>1
  <2>2. ASSUME NEW j \in 1 .. n + 1, i < j
        PROVE  j - 1 \in 1 .. n /\ t[j] = s[j - 1] /\ k < t[j].key
    <3> DEFINE l == j - 1
    <3>1. l \in i .. n /\ l \in 1 .. n /\ i <= l /\ j = l + 1
      BY <1>1, <2>2
    <3> HIDE DEF l
    <3>2. t[j] = s[l] /\ k < s[l].key
      BY <1>4, <1>5, <3>1
    <3> QED
      BY <3>1, <3>2 DEF l
  <2> QED
    BY <1>1, <1>4, <2>1, <2>2
<1>7. \A j \in 1 .. n + 1 : t[j].key \in keys /\ t[j].key \in Int
  BY <1>2, <1>6, <1>a
<1>8. ASSUME NEW a \in 1 .. n + 1, NEW b \in 1 .. n + 1, a < b
      PROVE  t[a].key < t[b].key
  <2>1. CASE a < i /\ b < i
    <3>1. a \in 1 .. n /\ b \in 1 .. n /\ t[a] = s[a] /\ t[b] = s[b]
      BY <1>1, <1>6, <2>1
    <3> QED
      BY <1>2, <1>8, <3>1
  <2>2. CASE a < i /\ ~(b < i)
    <3>1. t[a].key < k /\ (t[b].key = k \/ k < t[b].key)
      BY <1>1, <1>6, <1>a, <2>2
    <3> QED
      BY <1>7, <1>a, <3>1
  <2>3. CASE a = i
    <3>1. t[a].key = k /\ k < t[b].key
      BY <1>1, <1>6, <1>8, <1>a, <2>3
    <3> QED
      BY <3>1
  <2>4. CASE i < a
    <3>1. /\ a - 1 \in 1 .. n /\ b - 1 \in 1 .. n /\ a - 1 < b - 1
          /\ t[a] = s[a - 1] /\ t[b] = s[b - 1]
      BY <1>1, <1>6, <1>8, <2>4
    <3> QED
      BY <1>2, <3>1
  <2> QED
    BY <1>1, <2>1, <2>2, <2>3, <2>4
<1>9. Leaf(t) \in RealNodes /\ Leaf(t).type = "leaf" /\ Leaf(t).cells = t
  BY <1>4, LeafIsNode
<1>10. LeafOver(Leaf(t), keys)
  BY <1>4, <1>7, <1>8, <1>9 DEF LeafOver, Ascending
<1> QED
  BY <1>10 DEF s, t

\* What is left when one cell is taken out.
LEMMA RemoveAtCells ==
  ASSUME NEW S, NEW s \in Seq(S), NEW i \in 1 .. Len(s)
  PROVE  /\ RemoveAt(s, i) \in Seq(S) /\ Len(RemoveAt(s, i)) = Len(s) - 1
         /\ \A j \in 1 .. Len(s) - 1 :
              RemoveAt(s, i)[j] = IF j < i THEN s[j] ELSE s[j + 1]
<1> DEFINE l == SubSeq(s, 1, i - 1)
           r == SubSeq(s, i + 1, Len(s))
           n == Len(s)
<1>0. n \in Nat /\ i \in 1 .. n /\ \A j \in 1 .. n : s[j] \in S
  BY LenProperties
<1>1. l \in Seq(S) /\ Len(l) = i - 1 /\ \A j \in 1 .. i - 1 : l[j] = s[j]
  BY <1>0, SubSeqProperties, Z3
<1>2. /\ r \in Seq(S) /\ Len(r) = n - i
      /\ \A j \in 1 .. n - i : r[j] = s[i + j]
  <2>1. i + 1 \in Int /\ n \in Int /\ \A j \in i + 1 .. n : s[j] \in S
    BY <1>0
  <2>2. /\ r \in Seq(S)
        /\ Len(r) = IF i + 1 <= n THEN n - (i + 1) + 1 ELSE 0
        /\ \A j \in 1 .. n - (i + 1) + 1 : r[j] = s[i + 1 + j - 1]
    BY <2>1, SubSeqProperties
  <2> HIDE DEF r
  <2>3. /\ n - (i + 1) + 1 = n - i /\ (~(i + 1 <= n) => n - i = 0)
        /\ \A j \in 1 .. n - i : i + 1 + j - 1 = i + j
    BY <1>0
  <2> QED
    BY <2>2, <2>3
<1>3. RemoveAt(s, i) = l \o r
  BY DEF RemoveAt
<1> HIDE DEF l, r, n
<1>4. /\ l \o r \in Seq(S) /\ Len(l \o r) = Len(l) + Len(r)
      /\ \A j \in 1 .. Len(l) + Len(r) :
           (l \o r)[j] = IF j <= Len(l) THEN l[j] ELSE r[j - Len(l)]
  BY <1>1, <1>2, ConcatProperties
<1>5. Len(l) + Len(r) = n - 1
  BY <1>0, <1>1, <1>2
<1>6. ASSUME NEW j \in 1 .. n - 1
      PROVE  (l \o r)[j] = IF j < i THEN s[j] ELSE s[j + 1]
  <2>1. CASE j < i
    <3>1. j \in 1 .. i - 1 /\ j <= Len(l)
      BY <1>0, <1>1, <2>1
    <3> QED
      BY <1>1, <1>4, <1>5, <2>1, <3>1
  <2>2. CASE ~(j < i)
    <3> DEFINE d == j - Len(l)
    <3>1. ~(j <= Len(l)) /\ d \in 1 .. n - i /\ i + d = j + 1
      BY <1>0, <1>1, <2>2
    <3> HIDE DEF d
    <3>2. (l \o r)[j] = r[d]
      BY <1>4, <1>5, <3>1 DEF d
    <3> QED
      BY <1>2, <2>2, <3>1, <3>2
  <2> QED
    BY <2>1, <2>2
<1> QED
  BY <1>3, <1>4, <1>5, <1>6 DEF n

\* Delete takes one key out.
LEMMA CellRemoved ==
  ASSUME NEW node, NEW keys \in SUBSET Int, LeafOver(node, keys),
         NEW i \in 1 .. Len(node.cells)
  PROVE  LeafOver(Leaf(RemoveAt(node.cells, i)), keys)
<1> DEFINE s == node.cells
           t == RemoveAt(s, i)
           n == Len(s)
<1>1. s \in Seq(LeafCells) /\ n \in Nat /\ i \in 1 .. n
  BY CellFacts DEF LeafOver
<1>2. /\ \A a, b \in 1 .. n : a < b => s[a].key < s[b].key
      /\ \A a \in 1 .. n : s[a].key \in keys
  BY DEF LeafOver, Ascending
<1> HIDE DEF s
<1>3. /\ t \in Seq(LeafCells) /\ Len(t) = n - 1
      /\ \A j \in 1 .. n - 1 : t[j] = IF j < i THEN s[j] ELSE s[j + 1]
  BY <1>1, RemoveAtCells
<1> HIDE DEF t, n
<1>4. ASSUME NEW a \in 1 .. n - 1, NEW b \in 1 .. n - 1, a < b
      PROVE  t[a].key < t[b].key
  <2> DEFINE c == IF a < i THEN a ELSE a + 1
             d == IF b < i THEN b ELSE b + 1
  <2>1. c \in 1 .. n /\ d \in 1 .. n /\ c < d
    BY <1>1, <1>4
  <2>2. t[a] = s[c] /\ t[b] = s[d]
    BY <1>3
  <2> HIDE DEF c, d
  <2> QED
    BY <1>2, <2>1, <2>2
<1>5. \A j \in 1 .. n - 1 : t[j].key \in keys
  <2>1. \A j \in 1 .. n - 1 : j \in 1 .. n /\ j + 1 \in 1 .. n
    BY <1>1
  <2> QED
    BY <1>2, <1>3, <2>1
<1>6. Leaf(t) \in RealNodes /\ Leaf(t).type = "leaf" /\ Leaf(t).cells = t
  BY <1>3, LeafIsNode
<1>7. LeafOver(Leaf(t), keys)
  BY <1>3, <1>4, <1>5, <1>6 DEF LeafOver, Ascending
<1> QED
  BY <1>7 DEF s, t

----------------------------------------------------------------------------
\* Every step keeps it

\* A step that writes nothing and has nothing in hand afterwards.
LEMMA TreeKept ==
  ASSUME NEW known, NEW roots, HasTree(known, roots),
         UNCHANGED <<view, owned, root>>, pc' \in {"idle", "scan", "panic"}
  PROVE  HasTree(known, roots)'
<1>1. PICK T, tops \in SUBSET PageNums,
           h \in [PageNums -> Nat], under \in [PageNums -> SUBSET Int] :
        /\ known \subseteq T /\ roots \subseteq tops
        /\ TreeState(view, owned, root, pc, req, path, work, T, tops, h, under)
  BY DEF HasTree
<1>2. TreeState(view', owned', root', pc', req', path', work', T, tops, h, under)
  BY <1>1 DEF TreeState
<1> QED
  BY <1>1, <1>2 DEF HasTree

\* Reading, failing to read or to allocate, and panicking write nothing.
LEMMA ReadingKeepsTree ==
  ASSUME NEW known, NEW roots, TreeWith(known, roots),
         \/ SearchLeaf \/ ScanLeaf \/ ScanInternal \/ ScanReturns
         \/ ReadFails \/ AllocateFails \/ NewBTreeFails
         \/ ReadPanics \/ WritePanics
  PROVE  HasTree(known, roots)'
<1>1. UNCHANGED <<view, owned, root>> /\ pc' \in {"idle", "scan", "panic"}
  BY DEF SearchLeaf, ScanLeaf, ScanInternal, ScanReturns, ReadFails, AllocateFails,
         NewBTreeFails, ReadPanics, WritePanics, Panics, Return
<1> QED
  BY <1>1, TreeKept DEF TreeWith

\* A call starts at the root, towards which every key leads.
LEMMA CallKeepsTree ==
  ASSUME NEW known, NEW roots, TreeWith(known, roots), NEW r \in Requests, Call(r)
  PROVE  HasTree(known, roots)'
<1>1. PICK T, tops \in SUBSET PageNums,
           h \in [PageNums -> Nat], under \in [PageNums -> SUBSET Int] :
        /\ known \subseteq T /\ roots \subseteq tops
        /\ TreeState(view, owned, root, pc, req, path, work, T, tops, h, under)
  BY DEF TreeWith, HasTree
<1>2. /\ UNCHANGED <<view, owned, root>> /\ pc' \in {"scan", "descend"}
      /\ root # NoPage /\ path' = <<root>>
  BY DEF Call
<1>3. Len(path') = 1 /\ path'[1] = root
  BY <1>2
<1>4. root \in T
  BY <1>1, <1>2 DEF TreeState
<1>5. DownFrom(root, path', view, T, h)
  BY <1>3, <1>4 DEF DownFrom
<1>6. Toward(req'.key, path', view)
  BY <1>3 DEF Toward
<1>7. TreeState(view', owned', root', pc', req', path', work', T, tops, h, under)
  BY <1>1, <1>2, <1>5, <1>6 DEF TreeState
<1> QED
  BY <1>1, <1>7 DEF HasTree

\* The descent turns to the child under which the key belongs.
LEMMA DescentKeepsTree ==
  ASSUME NEW known, NEW roots, TreeWith(known, roots), DescendInternal
  PROVE  HasTree(known, roots)'
<1> DEFINE p == Last(path)
           node == view[p]
           l == Len(path)
<1>1. PICK T, tops \in SUBSET PageNums,
           h \in [PageNums -> Nat], under \in [PageNums -> SUBSET Int] :
        /\ known \subseteq T /\ roots \subseteq tops
        /\ TreeState(view, owned, root, pc, req, path, work, T, tops, h, under)
  BY DEF TreeWith, HasTree
<1>2. /\ UNCHANGED <<view, owned, root, pc, req, work>> /\ pc = "descend"
      /\ node.type = "internal"
      /\ \E i \in Turns(node, req.key) : path' = Append(path, Child(node, i))
  BY DEF DescendInternal
<1>3. /\ Tree(view, T, h, under, tops) /\ DownFrom(root, path, view, T, h)
      /\ Toward(req.key, path, view)
  BY <1>1, <1>2 DEF TreeState
<1>4. path \in Seq(PageNums) /\ l \in Nat \ {0} /\ p = path[l] /\ p \in T
  BY <1>3 DEF DownFrom, Last, TreeWith, Inv, TypeOK
<1>5. PICK i \in Turns(node, req.key) : path' = Append(path, Child(node, i))
  BY <1>2
<1>6. /\ node \in RealNodes /\ Ways(node) = 1 .. Len(node.cells) + 1
      /\ Len(node.cells) \in Nat
  BY <1>2, <1>3, <1>4, TreeNode, CellFacts, WaysFacts
<1>7. i \in Ways(node) /\ Between(node, i, req.key)
  <2>1. /\ i \in 1 .. Len(node.cells) + 1
        /\ \A j \in 1 .. i - 1 : node.cells[j].key <= req.key
        /\ i <= Len(node.cells) => req.key < node.cells[i].key
    BY DEF Turns
  <2>2. i > 1 => i - 1 \in 1 .. i - 1
    BY <2>1
  <2> QED
    BY <1>6, <2>1, <2>2 DEF Between
<1> DEFINE c == Child(node, i)
<1>8. c \in T /\ c \in PageNums /\ h[p] = h[c] + 1 /\ h[c] \in Nat
  <2>1. T \subseteq PageNums /\ h \in [PageNums -> Nat]
    BY <1>3, TreeNode
  <2>2. p \in PageNums
    BY <1>4, <2>1
  <2>3. c \in T
    <3>1. \A s \in T : \A j \in Ways(view[s]) : Child(view[s], j) \in T
      BY <1>3, TreeNode
    <3> QED
      BY <1>4, <1>7, <3>1
  <2>4. h[p] = h[c] + 1
    BY <1>3, <1>7, <2>2, TreeNode
  <2> QED
    BY <2>1, <2>3, <2>4
<1> HIDE DEF c, l
<1>9. /\ Len(path') = l + 1 /\ path'[l + 1] = c
      /\ \A j \in 1 .. l : path'[j] = path[j]
  BY <1>4, <1>5, <1>8, AppendProperties DEF c, l
<1>10. l = Len(path)
  BY DEF l
<1>11. DownFrom(root, path', view, T, h)
  <2>1. /\ path[1] = root /\ \A j \in 1 .. l : path[j] \in T
        /\ \A j \in 1 .. l - 1 : \E a \in Ways(view[path[j]]) :
             path[j + 1] = Child(view[path[j]], a)
        /\ \A a, b \in 1 .. l : a < b => h[path[b]] < h[path[a]]
    BY <1>3, <1>10 DEF DownFrom
  <2>2. path'[1] = root /\ \A j \in 1 .. l + 1 : path'[j] \in T
    <3>1. \A j \in 1 .. l + 1 : j \in 1 .. l \/ j = l + 1
      BY <1>4
    <3>2. 1 \in 1 .. l
      BY <1>4
    <3> QED
      BY <1>8, <1>9, <2>1, <3>1, <3>2
  <2>3. ASSUME NEW j \in 1 .. l
        PROVE  \E a \in Ways(view[path'[j]]) : path'[j + 1] = Child(view[path'[j]], a)
    <3>1. CASE j = l
      BY <1>4, <1>7, <1>9, <3>1 DEF c
    <3>2. CASE j # l
      <4>1. j \in 1 .. l - 1 /\ j + 1 \in 1 .. l
        BY <1>4, <3>2
      <4> QED
        BY <1>9, <2>1, <4>1
    <3> QED
      BY <3>1, <3>2
  <2>4. ASSUME NEW a \in 1 .. l + 1, NEW b \in 1 .. l + 1, a < b
        PROVE  h[path'[b]] < h[path'[a]]
    <3>1. \A j \in 1 .. l : h[path[j]] \in Nat
      BY <1>3, <2>1, TreeNode
    <3>2. a \in 1 .. l /\ (a = l \/ a < l)
      BY <1>4, <2>4
    <3>3. CASE b = l + 1
      <4>1. h[c] < h[p]
        BY <1>8
      <4>2. a < l => h[p] < h[path[a]]
        <5>1. l \in 1 .. l /\ p = path[l]
          BY <1>4
        <5> HIDE DEF p
        <5> QED
          BY <2>1, <3>2, <5>1
      <4> QED
        BY <1>4, <1>8, <1>9, <3>1, <3>2, <3>3, <4>1, <4>2
    <3>4. CASE b # l + 1
      <4>1. b \in 1 .. l
        BY <1>4, <3>4
      <4> QED
        BY <1>9, <2>1, <2>4, <3>2, <4>1
    <3> QED
      BY <3>3, <3>4
  <2>5. /\ Len(path') \in Nat \ {0} /\ 1 .. Len(path') = 1 .. l + 1
        /\ 1 .. Len(path') - 1 = 1 .. l
    BY <1>4, <1>9
  <2> QED
    BY <2>2, <2>3, <2>4, <2>5 DEF DownFrom
<1>12. Toward(req.key, path', view)
  <2>1. ASSUME NEW j \in 1 .. l, NEW a \in Ways(view[path'[j]]),
               path'[j + 1] = Child(view[path'[j]], a)
        PROVE  Between(view[path'[j]], a, req.key)
    <3>1. CASE j = l
      <4>1. path'[j] = p /\ path'[j + 1] = c
        BY <1>4, <1>9, <3>1
      <4>2. a \in Ways(node) /\ Child(node, a) = Child(node, i)
        BY <2>1, <4>1 DEF c
      <4>3. OneWayIn(view, T)
        BY <1>3 DEF Tree
      <4>4. a = i
        BY <1>4, <1>7, <4>2, <4>3, OneWay
      <4> QED
        BY <1>7, <4>1, <4>4
    <3>2. CASE j # l
      <4>1. j \in 1 .. l - 1 /\ j \in 1 .. l /\ j + 1 \in 1 .. l
        BY <1>4, <3>2
      <4>2. path'[j] = path[j] /\ path'[j + 1] = path[j + 1]
        BY <1>9, <4>1
      <4> QED
        BY <1>3, <1>10, <2>1, <4>1, <4>2 DEF Toward
    <3> QED
      BY <3>1, <3>2
  <2>2. 1 .. Len(path') - 1 = 1 .. l
    BY <1>4, <1>9
  <2> QED
    BY <2>1, <2>2 DEF Toward
<1>13. TreeState(view', owned', root', pc', req', path', work', T, tops, h, under)
  BY <1>1, <1>2, <1>11, <1>12 DEF TreeState
<1> QED
  BY <1>1, <1>13 DEF HasTree

\* What is known of the last page of a call's path.
LEMMA LastPage ==
  ASSUME NEW m, NEW T, NEW h, NEW under, NEW tops, Tree(m, T, h, under, tops),
         NEW top, NEW pages, DownFrom(top, pages, m, T, h)
  PROVE  /\ Last(pages) = pages[Len(pages)] /\ Last(pages) \in T
         /\ Last(pages) \in PageNums /\ m[Last(pages)] \in RealNodes /\ top \in T
<1>1. /\ Last(pages) = pages[Len(pages)] /\ Last(pages) \in T
      /\ pages[1] = top /\ pages[1] \in T
  BY DEF DownFrom, Last
<1> QED
  BY <1>1, TreeNode

\* On the way to where a key belongs, all pages may hold it.
LEMMA KeyAllowedOnPath ==
  ASSUME NEW m, NEW T, NEW h, NEW under, NEW tops, Tree(m, T, h, under, tops),
         NEW top \in tops, NEW pages, DownFrom(top, pages, m, T, h),
         NEW k \in Int, Toward(k, pages, m)
  PROVE  LET S == {pages[j] : j \in 1 .. Len(pages)} IN
         Tree(m, T, h,
              [q \in PageNums |-> IF q \in S THEN under[q] \cup {k} ELSE under[q]], tops)
<1> DEFINE S == {pages[j] : j \in 1 .. Len(pages)}
           n == Len(pages)
<1>0. \A q \in T : \A i \in Ways(m[q]) : Child(m[q], i) # top
  BY TreeNode
<1>1. ASSUME NEW q \in T, NEW i \in Ways(m[q]), Child(m[q], i) \in S
      PROVE  q \in S /\ Between(m[q], i, k)
  <2>1. PICK j \in 1 .. n : Child(m[q], i) = pages[j]
    BY <1>1
  <2>2. n \in Nat \ {0} /\ pages[1] = top /\ Child(m[q], i) # top
    BY <1>0 DEF DownFrom
  <2> DEFINE a == j - 1
  <2>3. j # 1
    BY <2>1, <2>2
  <2>4. a \in 1 .. n - 1 /\ a \in 1 .. n /\ j = a + 1
    BY <2>2, <2>3
  <2> HIDE DEF a
  <2>5. /\ pages[a] \in T
        /\ \E b \in Ways(m[pages[a]]) : pages[a + 1] = Child(m[pages[a]], b)
    BY <2>4 DEF DownFrom
  <2>6. PICK b \in Ways(m[pages[a]]) : pages[a + 1] = Child(m[pages[a]], b)
    BY <2>5
  <2>7. OneWayIn(m, T)
    BY DEF Tree
  <2> DEFINE s == pages[a]
  <2>c. s \in T /\ b \in Ways(m[s]) /\ Child(m[s], b) = Child(m[q], i)
    BY <2>1, <2>4, <2>5, <2>6
  <2> HIDE DEF s
  <2>d. s = q /\ b = i
    BY <2>7, <2>c, OneWay
  <2>8. pages[a] = q /\ b = i
    BY <2>d DEF s
  <2>9. Between(m[pages[a]], b, k)
    BY <2>4, <2>6 DEF Toward
  <2> QED
    BY <2>4, <2>8, <2>9
<1> HIDE DEF S
<1>a. \A q \in T : \A i \in Ways(m[q]) :
        Child(m[q], i) \in S => q \in S /\ Between(m[q], i, k)
  BY <1>1
<1>2. Tree(m, T, h,
           [q \in PageNums |-> IF q \in S THEN under[q] \cup {k} ELSE under[q]], tops)
  BY <1>a, KeyAllowed, SMTT(60)
<1> QED
  BY <1>2 DEF S

\* A leaf is about to be written.
LEMMA LeafReady ==
  ASSUME NEW known, NEW roots, NEW T, NEW tops, NEW h, NEW under,
         known \subseteq T, roots \subseteq tops, tops \subseteq T, root \in tops,
         T \subseteq owned, Tree(view, T, h, under, tops),
         DownFrom(root, path, view, T, h),
         view[Last(path)].type = "leaf", LeafOver(work', under[Last(path)]),
         pc' = "write", UNCHANGED <<view, owned, root, path>>
  PROVE  HasTree(known, roots)'
<1> DEFINE p == Last(path)
<1>1. p \in T /\ root # NoPage
  <2>1. p \in T /\ T \subseteq PageNums
    BY LastPage, TreeNode
  <2> QED
    BY <2>1, BTreeAssumption DEF NoPage
<1>2. Tree([view EXCEPT ![p] = work'], T, h, under, tops)
  BY <1>1, LeafReplaced DEF LeafOver
<1>3. TreeState(view', owned', root', pc', req', path', work', T, tops, h, under)
  BY <1>1, <1>2 DEF TreeState
<1>4. /\ T \in SUBSET PageNums /\ tops \in SUBSET PageNums
      /\ h \in [PageNums -> Nat] /\ under \in [PageNums -> SUBSET Int]
  BY TreeNode
<1> QED
  BY <1>3, <1>4 DEF HasTree

\* What a call finds at a leaf.
LEMMA AtLeaf ==
  ASSUME NEW known, NEW roots, TreeWith(known, roots),
         pc = "descend", view[Last(path)].type = "leaf"
  PROVE  \E T, tops, h, under :
           /\ known \subseteq T /\ roots \subseteq tops /\ tops \subseteq T /\ root \in tops
           /\ T \subseteq owned /\ Tree(view, T, h, under, tops)
           /\ DownFrom(root, path, view, T, h) /\ Toward(req.key, path, view)
           /\ under[Last(path)] \in SUBSET Int
           /\ LeafOver(view[Last(path)], under[Last(path)])
<1>1. PICK T, tops \in SUBSET PageNums,
           h \in [PageNums -> Nat], under \in [PageNums -> SUBSET Int] :
        /\ known \subseteq T /\ roots \subseteq tops
        /\ TreeState(view, owned, root, pc, req, path, work, T, tops, h, under)
  BY DEF TreeWith, HasTree
<1>2. /\ T \subseteq owned /\ Tree(view, T, h, under, tops) /\ tops \subseteq T
      /\ root = NoPage \/ root \in tops
      /\ DownFrom(root, path, view, T, h) /\ Toward(req.key, path, view)
  BY <1>1 DEF TreeState
<1>3. root \in T /\ Last(path) \in T /\ Last(path) \in PageNums
  BY <1>2, LastPage
<1>4. view[Last(path)] \in RealNodes /\ Sorted(view[Last(path)], under[Last(path)], under)
  BY <1>2, <1>3, TreeNode
<1>5. LeafOver(view[Last(path)], under[Last(path)])
  BY <1>4 DEF Sorted, LeafOver
<1>6. under[Last(path)] \in SUBSET Int
  BY <1>3
<1>7. root \in tops
  BY <1>2, <1>3, BTreeAssumption DEF NoPage
<1> QED
  BY <1>1, <1>2, <1>5, <1>6, <1>7

\* Delete at its leaf: the leaf it is about to write keeps the tree one.
LEMMA DeleteKeepsTree ==
  ASSUME NEW known, NEW roots, TreeWith(known, roots), DeleteLeaf
  PROVE  HasTree(known, roots)'
<1> DEFINE node == view[Last(path)]
<1>1. /\ pc = "descend" /\ node.type = "leaf" /\ UNCHANGED <<view, owned, root>>
      /\ \/ Return("notfound", <<>>)
         \/ /\ \E i \in Positions(node.cells, req.key) :
                 work' = Leaf(RemoveAt(node.cells, i))
            /\ pc' = "write" /\ UNCHANGED path
  BY DEF DeleteLeaf
<1>2. CASE Return("notfound", <<>>)
  BY <1>1, <1>2, TreeKept DEF TreeWith, Return
<1>3. CASE /\ \E i \in Positions(node.cells, req.key) :
                work' = Leaf(RemoveAt(node.cells, i))
           /\ pc' = "write" /\ UNCHANGED path
  <2>1. PICK T, tops, h, under :
           /\ known \subseteq T /\ roots \subseteq tops /\ tops \subseteq T /\ root \in tops
           /\ T \subseteq owned /\ Tree(view, T, h, under, tops)
           /\ DownFrom(root, path, view, T, h) /\ Toward(req.key, path, view)
           /\ under[Last(path)] \in SUBSET Int
           /\ LeafOver(view[Last(path)], under[Last(path)])
    BY <1>1, AtLeaf
  <2>2. PICK i \in 1 .. Len(node.cells) : work' = Leaf(RemoveAt(node.cells, i))
    BY <1>3 DEF Positions
  <2>3. LeafOver(work', under[Last(path)])
    BY <2>1, <2>2, CellRemoved
  <2> QED
    BY <1>1, <1>3, <2>1, <2>3, LeafReady
<1> QED
  BY <1>1, <1>2, <1>3

\* Insert at its leaf: the same, as the key is allowed there.
LEMMA InsertKeepsTree ==
  ASSUME NEW known, NEW roots, TreeWith(known, roots), InsertLeaf
  PROVE  HasTree(known, roots)'
<1> DEFINE p == Last(path)
           node == view[p]
           k == req.key
           cell == [key |-> req.key, value |-> req.val]
           S == {path[j] : j \in 1 .. Len(path)}
<1>1. /\ pc = "descend" /\ req.op = "insert" /\ node.type = "leaf"
      /\ UNCHANGED <<view, owned, root, path>> /\ pc' = "write"
      /\ \/ \E i \in Positions(node.cells, k) :
              work' = Leaf([node.cells EXCEPT ![i] = cell])
         \/ /\ Positions(node.cells, k) = {}
            /\ \E i \in Slots(node.cells, k) : work' = Leaf(InsertAt(node.cells, i, cell))
  BY DEF InsertLeaf
<1>2. cell \in LeafCells /\ cell.key = k /\ k \in Int
  <2>1. req \in Requests
    BY <1>1 DEF TreeWith, Inv, WorkGood
  <2> QED
    <3>1. req.key \in Keys /\ req.val \in Vals
      BY <1>1, <2>1 DEF Requests
    <3> QED
      BY <3>1, BTreeAssumption DEF LeafCells
<1> HIDE DEF cell
<1>3. PICK T, tops, h, under :
         /\ known \subseteq T /\ roots \subseteq tops /\ tops \subseteq T /\ root \in tops
         /\ T \subseteq owned /\ Tree(view, T, h, under, tops)
         /\ DownFrom(root, path, view, T, h) /\ Toward(k, path, view)
         /\ under[p] \in SUBSET Int
         /\ LeafOver(node, under[p])
  BY <1>1, AtLeaf
<1> DEFINE u == [q \in PageNums |-> IF q \in S THEN under[q] \cup {k} ELSE under[q]]
<1>4. Tree(view, T, h, u, tops)
  BY <1>2, <1>3, KeyAllowedOnPath
<1>5. u[p] = under[p] \cup {k}
  <2>1. p \in PageNums /\ p = path[Len(path)] /\ Len(path) \in Nat \ {0}
    <3>1. Len(path) \in Nat \ {0}
      BY <1>3 DEF DownFrom
    <3> QED
      BY <1>3, <3>1, LastPage
  <2>2. p \in S
    BY <2>1
  <2> QED
    BY <2>1, <2>2
<1> HIDE DEF u, S
<1>6. LeafOver(node, u[p]) /\ u[p] \in SUBSET Int /\ k \in u[p]
  BY <1>2, <1>3, <1>5 DEF LeafOver
<1> HIDE DEF node, k
<1>7. LeafOver(work', u[p])
  <2>1. CASE \E i \in Positions(node.cells, k) :
              work' = Leaf([node.cells EXCEPT ![i] = cell])
    BY <1>2, <1>6, <2>1, CellPut
  <2>2. CASE /\ Positions(node.cells, k) = {}
             /\ \E i \in Slots(node.cells, k) :
                  work' = Leaf(InsertAt(node.cells, i, cell))
    BY <1>2, <1>6, <2>2, CellAdded
  <2> QED
    BY <1>1, <2>1, <2>2
<1> QED
  BY <1>1, <1>3, <1>4, <1>7, LeafReady DEF node

----------------------------------------------------------------------------
\* Writes

\* The other pages of a path are not its last one, and a tree that keeps what
\* is on them keeps the path.
LEMMA PathKept ==
  ASSUME NEW m, NEW T, NEW h, NEW under, NEW tops, Tree(m, T, h, under, tops),
         NEW top, NEW pages, DownFrom(top, pages, m, T, h)
  PROVE  /\ \A j \in 1 .. Len(pages) - 1 : pages[j] # Last(pages)
         /\ \A n, U, g : (/\ T \subseteq U /\ \A p \in T : g[p] = h[p]
                          /\ \A p \in T \ {Last(pages)} : n[p] = m[p])
                            => DownFrom(top, pages, n, U, g)
<1> DEFINE l == Len(pages)
<1>1. /\ l \in Nat \ {0} /\ pages[1] = top /\ Last(pages) = pages[l]
      /\ \A j \in 1 .. l : pages[j] \in T
      /\ \A j \in 1 .. l - 1 : \E i \in Ways(m[pages[j]]) :
           pages[j + 1] = Child(m[pages[j]], i)
      /\ \A i, j \in 1 .. l : i < j => h[pages[j]] < h[pages[i]]
  BY DEF DownFrom, Last
<1>2. \A p \in T : h[p] \in Nat
  BY TreeNode
<1> HIDE DEF l
<1>3. ASSUME NEW j \in 1 .. l - 1 PROVE pages[j] # Last(pages)
  <2>1. j \in 1 .. l /\ l \in 1 .. l /\ j < l
    BY <1>1
  <2>2. h[pages[l]] < h[pages[j]] /\ h[pages[l]] \in Nat
    BY <1>1, <1>2, <2>1
  <2> QED
    BY <1>1, <2>2
<1>4. ASSUME NEW n, NEW U, NEW g, T \subseteq U, \A p \in T : g[p] = h[p],
             \A p \in T \ {Last(pages)} : n[p] = m[p]
      PROVE  DownFrom(top, pages, n, U, g)
  <2>1. \A j \in 1 .. l - 1 : n[pages[j]] = m[pages[j]]
    <3>1. \A j \in 1 .. l - 1 : j \in 1 .. l
      BY <1>1
    <3> QED
      BY <1>1, <1>3, <1>4, <3>1
  <2> QED
    BY <1>1, <1>4, <2>1, SMTT(60) DEF DownFrom, l
<1> QED
  BY <1>3, <1>4 DEF l

\* The page of a write, and what it holds then.
LEMMA PageWritten ==
  ASSUME Inv, NEW f, NEW node,
         Store!Write(f, node) \/ Store!WriteFails(f, node)
  PROVE  view' = [view EXCEPT ![f] = node] /\ owned' = owned
  BY DEF Store!Write, Store!WriteFails

\* A page on the path is written, whole or as the left half.
LEMMA WriteOnPath ==
  ASSUME NEW known, NEW roots, TreeWith(known, roots), pc = "write", UNCHANGED root,
         Store!Write(Target, Image) \/ Store!WriteFails(Target, Image),
         \/ pc' = "idle"
         \/ pc' = "alloc" /\ Overfull(work) /\ UNCHANGED <<path, work>>
  PROVE  HasTree(known, roots)'
<1> DEFINE p == Last(path)
           V == [view EXCEPT ![p] = work]
<1>1. PICK T, tops \in SUBSET PageNums,
           h \in [PageNums -> Nat], under \in [PageNums -> SUBSET Int] :
        /\ known \subseteq T /\ roots \subseteq tops
        /\ TreeState(view, owned, root, pc, req, path, work, T, tops, h, under)
  BY DEF TreeWith, HasTree
<1>2. /\ T \subseteq owned /\ Tree(view, T, h, under, tops) /\ tops \subseteq T
      /\ root = NoPage \/ root \in tops
      /\ DownFrom(root, path, view, T, h) /\ Tree(V, T, h, under, tops)
  BY <1>1 DEF TreeState
<1>3. p \in T /\ p \in PageNums /\ root \in T /\ root # NoPage
  BY <1>1, <1>2, LastPage, BTreeAssumption DEF NoPage
<1>4. /\ view' = [view EXCEPT ![p] = Image] /\ owned' = owned
      /\ Image = IF Overfull(work) THEN LeftHalf(work) ELSE work
  BY PageWritten DEF TreeWith, Target, Image
<1>5. view \in [PageNums -> Pages]
  BY <1>2, TreeNode
<1>6. V[p] = work /\ [V EXCEPT ![p] = LeftHalf(work)] = [view EXCEPT ![p] = LeftHalf(work)]
  BY <1>3, <1>5
<1>7. Tree(view', T, h, under, tops)
  <2>1. CASE Overfull(work)
    <3> HIDE DEF V
    <3>1. Tree([V EXCEPT ![p] = LeftHalf(V[p])], T, h, under, tops)
      BY <1>2, <1>3, <1>6, <2>1, Halved
    <3> QED
      BY <1>4, <1>6, <2>1, <3>1
  <2>2. CASE ~Overfull(work)
    BY <1>2, <1>4, <2>2
  <2> QED
    BY <2>1, <2>2
<1>8. CASE pc' = "idle"
  <2>1. TreeState(view', owned', root', pc', req', path', work', T, tops, h, under)
    BY <1>2, <1>3, <1>4, <1>7, <1>8 DEF TreeState
  <2> QED
    BY <1>1, <2>1 DEF HasTree
<1>9. CASE pc' = "alloc" /\ Overfull(work) /\ UNCHANGED <<path, work>>
  <2>1. \A q \in T \ {p} : view'[q] = view[q]
    BY <1>2, <1>4, <1>5, TreeNode
  <2>2. DownFrom(root, path, view', T, h)
    BY <1>2, <2>1, PathKept
  <2>3. view'[p] = LeftHalf(work) /\ [view' EXCEPT ![p] = work] = V
    BY <1>3, <1>4, <1>5, <1>9
  <2>4. TreeState(view', owned', root', pc', req', path', work', T, tops, h, under)
    BY <1>2, <1>3, <1>4, <1>7, <1>9, <2>2, <2>3 DEF TreeState
  <2> QED
    BY <1>1, <2>4 DEF HasTree
<1> QED
  BY <1>8, <1>9

\* A page is handed out.
LEMMA AllocationKeepsTree ==
  ASSUME NEW known, NEW roots, TreeWith(known, roots),
         AllocateRight \/ AllocateRoot \/ NewBTree
  PROVE  HasTree(known, roots)'
<1>1. PICK T, tops \in SUBSET PageNums,
           h \in [PageNums -> Nat], under \in [PageNums -> SUBSET Int] :
        /\ known \subseteq T /\ roots \subseteq tops
        /\ TreeState(view, owned, root, pc, req, path, work, T, tops, h, under)
  BY DEF TreeWith, HasTree
<1>2. PICK f \in Fresh : Allocates(f)
  BY DEF AllocateRight, AllocateRoot, NewBTree
<1>3. /\ f \in PageNums /\ f \notin owned /\ owned' = owned \cup {f}
      /\ view' = [view EXCEPT ![f] = Zero] /\ UNCHANGED <<root, path>>
  BY <1>2 DEF Fresh, Allocates, Store!Alloc, AllocateRight, AllocateRoot, NewBTree
<1>4. /\ T \subseteq owned /\ Tree(view, T, h, under, tops) /\ f \notin T
      /\ tops \subseteq T /\ (root = NoPage \/ root \in tops)
  BY <1>1, <1>3 DEF TreeState
<1>5. /\ f \notin LinkedPages /\ Zero \in Pages /\ Zero.type # "internal"
      /\ Ways(Zero) = {}
  BY <1>3, PageFacts DEF LinkedPages, Ways, Zero
<1>6. NothingLeadsTo(f, view)
  BY <1>3, <1>5, Unlinked DEF TreeWith
<1> DEFINE g == [h EXCEPT ![f] = 0]
<1>7. Tree(view', T, g, under, tops)
  BY <1>3, <1>4, <1>5, <1>6, OtherWritten DEF NothingLeadsTo
<1>8. /\ view \in [PageNums -> Pages] /\ g \in [PageNums -> Nat]
      /\ \A q \in PageNums \ {f} : g[q] = h[q] /\ view'[q] = view[q]
      /\ view'[f] = Zero
  BY <1>3, <1>4, TreeNode
<1> HIDE DEF g
<1>9. CASE AllocateRight
  <2> DEFINE p == Last(path)
             V == [view EXCEPT ![p] = work]
  <2>1. /\ pc = "alloc" /\ pc' = "right" /\ UNCHANGED work
    BY <1>9 DEF AllocateRight
  <2>2. /\ DownFrom(root, path, view, T, h) /\ Tree(V, T, h, under, tops)
        /\ view[p] = LeftHalf(work)
    BY <1>1, <2>1 DEF TreeState
  <2>3. p \in T /\ p \in PageNums /\ p # f /\ root \in T /\ root # NoPage
    BY <1>1, <1>4, <2>2, LastPage, BTreeAssumption DEF NoPage
  <2>4. NothingLeadsTo(f, V)
    <3>1. work \in RealNodes /\ PointsInto(work, LinkedPages)
      BY <2>1 DEF TreeWith, Inv, WorkGood
    <3>2. \A i \in Ways(work) : Child(work, i) # f
      BY <1>3, <1>5, <3>1, Unlinked DEF TreeWith
    <3>3. \A q \in PageNums : V[q] = IF q = p THEN work ELSE view[q]
      BY <1>8, <2>3
    <3> QED
      BY <1>6, <3>2, <3>3 DEF NothingLeadsTo
  <2>5. [view' EXCEPT ![p] = work] = [V EXCEPT ![f] = Zero]
    BY <1>3, <1>8, <2>3
  <2> HIDE DEF V
  <2>6. Tree([V EXCEPT ![f] = Zero], T, g, under, tops)
    BY <1>3, <1>4, <1>5, <2>2, <2>4, OtherWritten DEF NothingLeadsTo, g
  <2>7. DownFrom(root, path, view', T, g)
    <3>1. /\ T \subseteq T /\ \A q \in T : g[q] = h[q]
          /\ \A q \in T \ {Last(path)} : view'[q] = view[q]
      BY <1>4, <1>8, TreeNode
    <3> QED
      BY <1>4, <2>2, <3>1, PathKept
  <2>8. view'[p] = LeftHalf(work)
    BY <1>8, <2>2, <2>3
  <2>9. TreeState(view', owned', root', pc', req', path', work', T, tops, g, under)
    BY <1>3, <1>4, <1>7, <2>1, <2>3, <2>5, <2>6, <2>7, <2>8 DEF TreeState
  <2> QED
    BY <1>1, <1>8, <2>9 DEF HasTree
<1>10. CASE AllocateRoot
  <2>1. /\ pc = "rootalloc" /\ pc' = "root" /\ UNCHANGED work
    BY <1>10 DEF AllocateRoot
  <2>2. RootAwaited(work, view, T, tops, h, under, root)
    BY <1>1, <2>1 DEF TreeState
  <2>3. \A r : NothingLeadsTo(r, view) => NothingLeadsTo(r, view')
    BY <1>5, <1>8 DEF NothingLeadsTo
  <2>4. \A q \in T : g[q] = h[q] /\ view'[q] = view[q]
    BY <1>4, <1>8
  <2>5. RootAwaited(work', view', T, tops, g, under, root)
    <3>1. CASE root = NoPage /\ work = Leaf(<<>>)
      BY <2>1, <3>1 DEF RootAwaited
    <3>2. CASE root \in tops /\ HalfFullNode(view[root])
      BY <1>4, <2>1, <2>2, <2>3, <2>4, <3>2 DEF RootAwaited
    <3> QED
      BY <2>2, <3>1, <3>2 DEF RootAwaited
  <2>6. TreeState(view', owned', root', pc', req', path', work', T, tops, g, under)
    BY <1>1, <1>3, <1>4, <1>7, <2>1, <2>5 DEF TreeState
  <2> QED
    BY <1>1, <1>8, <2>6 DEF HasTree
<1>11. CASE NewBTree
  <2>1. pc' = "root" /\ root = NoPage /\ work' = Leaf(<<>>)
    BY <1>11 DEF NewBTree
  <2>2. TreeState(view', owned', root', pc', req', path', work', T, tops, g, under)
    BY <1>1, <1>3, <1>4, <1>7, <2>1 DEF TreeState, RootAwaited
  <2> QED
    BY <1>1, <1>8, <2>2 DEF HasTree
<1> QED
  BY <1>9, <1>10, <1>11

\* The heights of the pages and the keys allowed under them, once page p has
\* split at key k and page f has its right half.
SplitHeights(h, p, f) == [h EXCEPT ![f] = h[p]]

SplitKeys(under, p, f, k) ==
  [under EXCEPT ![p] = LowKeys(under[p], k), ![f] = HighKeys(under[p], k)]

SplitTree(v, T, tops, h, under, p, f, k) ==
  Tree(v, T \cup {f}, SplitHeights(h, p, f), SplitKeys(under, p, f, k), tops)

\* The right half is written on the page that was handed out: the pages of the
\* tree are now those of T and that one.
LEMMA RightHalfWritten ==
  ASSUME Inv, pc = "right",
         Store!Write(Target, Image) \/ Store!WriteFails(Target, Image),
         NEW p, p = Last(path), NEW f, f = fresh,
         NEW T, NEW tops, NEW h, NEW under,
         TreeState(view, owned, root, pc, req, path, work, T, tops, h, under)
  PROVE  LET k == PromotedKey(work)
         IN  /\ T \cup {f} \subseteq owned' /\ owned' = owned
             /\ f \in PageNums /\ f \notin T /\ f \notin tops /\ NothingLeadsTo(f, view')
             /\ k \in Keys /\ k \in under[p] /\ LowKeys(under[p], k) # {}
             /\ SplitTree(view', T, tops, h, under, p, f, k)
             /\ DownFrom(root, path, view, T, h)
             /\ Tree([view EXCEPT ![p] = work], T, h, under, tops)
             /\ view' = [view EXCEPT ![f] = RightHalf(work)]
             /\ view[p] = LeftHalf(work) /\ HalfFullNode(view[p])
             /\ p \in T /\ root \in tops /\ tops \subseteq T
<1> DEFINE k == PromotedKey(work)
           V == [view EXCEPT ![p] = work]
<1>1. /\ T \subseteq owned /\ Tree(view, T, h, under, tops)
      /\ DownFrom(root, path, view, T, h) /\ Tree(V, T, h, under, tops)
      /\ view[p] = LeftHalf(work) /\ tops \subseteq T /\ (root = NoPage \/ root \in tops)
  BY DEF TreeState
<1>2. p \in T /\ p \in PageNums /\ root \in tops
  <2>1. p \in T /\ p \in PageNums /\ root \in T /\ T \subseteq PageNums
    BY <1>1, LastPage, TreeNode
  <2> QED
    BY <1>1, <2>1, BTreeAssumption DEF NoPage
<1>3. /\ work \in RealNodes /\ PointsInto(work, LinkedPages) /\ Overfull(work)
      /\ f \in owned /\ view[f] = Zero
  BY DEF Inv, WorkGood
<1>4. f \in PageNums /\ f \notin LinkedPages
  BY <1>3 DEF Inv, TypeOK, Store!TypeOK, LinkedPages
<1>5. f \notin T
  <2>1. \A q \in T : view[q] \in RealNodes
    BY <1>1, TreeNode
  <2> QED
    BY <1>3, <2>1, CellFacts
<1>6. NothingLeadsTo(f, view) /\ \A i \in Ways(work) : Child(work, i) # f
  BY <1>3, <1>4, Unlinked
<1>7. view' = [view EXCEPT ![f] = RightHalf(work)] /\ owned' = owned
  BY PageWritten DEF Target, Image
<1>8. view \in [PageNums -> Pages]
  BY <1>1, TreeNode
<1>9. /\ V[p] = work /\ p # f
      /\ view' = [V EXCEPT ![p] = LeftHalf(work), ![f] = RightHalf(work)]
      /\ \A q \in PageNums : V[q] = IF q = p THEN work ELSE view[q]
      /\ \A q \in PageNums : view'[q] = IF q = f THEN RightHalf(work) ELSE view[q]
  BY <1>1, <1>2, <1>4, <1>5, <1>7, <1>8
<1>10. \A q \in PageNums : \A i \in Ways(V[q]) : Child(V[q], i) # f
  BY <1>6, <1>9 DEF NothingLeadsTo
<1> HIDE DEF V
<1>11. /\ k \in under[p] /\ k \in Keys /\ LowKeys(under[p], k) # {}
       /\ SplitTree(view', T, tops, h, under, p, f, k)
  <2>1. Overfull(V[p])
    BY <1>3, <1>9
  <2>2. LET l == PromotedKey(V[p]) IN
        /\ l \in under[p] /\ l \in Keys /\ LowKeys(under[p], l) # {}
        /\ Tree([V EXCEPT ![p] = LeftHalf(V[p]), ![f] = RightHalf(V[p])],
                T \cup {f}, [h EXCEPT ![f] = h[p]],
                [under EXCEPT ![p] = LowKeys(under[p], l),
                              ![f] = HighKeys(under[p], l)], tops)
    BY <1>1, <1>2, <1>4, <1>5, <1>10, <2>1, SplitOff
  <2> QED
    BY <1>9, <2>2 DEF SplitTree, SplitHeights, SplitKeys
<1>12. NothingLeadsTo(f, view')
  <2>1. \A i \in Ways(RightHalf(work)) : Child(RightHalf(work), i) # f
    BY <1>3, <1>6, HalvesWays
  <2> QED
    BY <1>6, <1>9, <2>1 DEF NothingLeadsTo
<1>13. HalfFullNode(view[p])
  <2>1. Sorted(work, under[p], under) /\ under[p] \in SUBSET Int
        /\ under \in [PageNums -> SUBSET Int]
    BY <1>1, <1>2, <1>9, TreeNode
  <2> QED
    BY <1>1, <1>3, <2>1, HalvesSorted
<1>14. T \cup {f} \subseteq owned'
  BY <1>1, <1>3, <1>7
<1> QED
  BY <1>1, <1>2, <1>4, <1>5, <1>7, <1>11, <1>12, <1>13, <1>14 DEF V

\* What the pages are then a tree of.
LEMMA RightHalfTree ==
  ASSUME Inv, pc = "right",
         Store!Write(Target, Image) \/ Store!WriteFails(Target, Image),
         NEW T, NEW tops, NEW h, NEW under,
         TreeState(view, owned, root, pc, req, path, work, T, tops, h, under)
  PROVE  SplitTree(view', T, tops, h, under, Last(path), fresh, PromotedKey(work))
<1>1. PICK p, f : p = Last(path) /\ f = fresh
  OBVIOUS
<1>2. SplitTree(view', T, tops, h, under, p, f, PromotedKey(work))
  BY <1>1, RightHalfWritten
<1> QED
  BY <1>1, <1>2

\* The page it is written on.
LEMMA RightHalfPage ==
  ASSUME Inv, pc = "right",
         Store!Write(Target, Image) \/ Store!WriteFails(Target, Image),
         NEW T, NEW tops, NEW h, NEW under,
         TreeState(view, owned, root, pc, req, path, work, T, tops, h, under)
  PROVE  /\ T \cup {fresh} \subseteq owned' /\ owned' = owned
         /\ fresh \in PageNums /\ fresh \notin T /\ fresh \notin tops
         /\ NothingLeadsTo(fresh, view')
<1>1. PICK p, f : p = Last(path) /\ f = fresh
  OBVIOUS
<1>2. /\ T \cup {f} \subseteq owned' /\ owned' = owned
      /\ f \in PageNums /\ f \notin T /\ f \notin tops
      /\ NothingLeadsTo(f, view')
  BY <1>1, RightHalfWritten
<1> QED
  BY <1>1, <1>2

\* The key that goes up.
LEMMA RightHalfKey ==
  ASSUME Inv, pc = "right",
         Store!Write(Target, Image) \/ Store!WriteFails(Target, Image),
         NEW T, NEW tops, NEW h, NEW under,
         TreeState(view, owned, root, pc, req, path, work, T, tops, h, under)
  PROVE  /\ PromotedKey(work) \in Keys /\ PromotedKey(work) \in under[Last(path)]
         /\ LowKeys(under[Last(path)], PromotedKey(work)) # {}
<1>1. PICK p, f : p = Last(path) /\ f = fresh
  OBVIOUS
<1>2. /\ PromotedKey(work) \in Keys /\ PromotedKey(work) \in under[p]
      /\ LowKeys(under[p], PromotedKey(work)) # {}
  BY <1>1, RightHalfWritten
<1> QED
  BY <1>1, <1>2

\* The tree as it was with the whole node on its page.
LEMMA RightHalfBefore ==
  ASSUME Inv, pc = "right",
         Store!Write(Target, Image) \/ Store!WriteFails(Target, Image),
         NEW T, NEW tops, NEW h, NEW under,
         TreeState(view, owned, root, pc, req, path, work, T, tops, h, under)
  PROVE  /\ DownFrom(root, path, view, T, h)
         /\ Tree([view EXCEPT ![Last(path)] = work], T, h, under, tops)
         /\ Last(path) \in T /\ root \in tops /\ tops \subseteq T
<1>1. PICK p, f : p = Last(path) /\ f = fresh
  OBVIOUS
<1>2. /\ DownFrom(root, path, view, T, h)
      /\ Tree([view EXCEPT ![p] = work], T, h, under, tops)
      /\ p \in T /\ root \in tops /\ tops \subseteq T
  BY <1>1, RightHalfWritten
<1> QED
  BY <1>1, <1>2

\* What the two pages hold.
LEMMA RightHalfImages ==
  ASSUME Inv, pc = "right",
         Store!Write(Target, Image) \/ Store!WriteFails(Target, Image),
         NEW T, NEW tops, NEW h, NEW under,
         TreeState(view, owned, root, pc, req, path, work, T, tops, h, under)
  PROVE  /\ view' = [view EXCEPT ![fresh] = RightHalf(work)]
         /\ view[Last(path)] = LeftHalf(work) /\ HalfFullNode(view[Last(path)])
<1>1. PICK p, f : p = Last(path) /\ f = fresh
  OBVIOUS
<1>2. /\ view' = [view EXCEPT ![f] = RightHalf(work)]
      /\ view[p] = LeftHalf(work) /\ HalfFullNode(view[p])
  BY <1>1, RightHalfWritten
<1> QED
  BY <1>1, <1>2

\* Nothing is in hand afterwards: the call has failed, or the process panics.
LEMMA RightHalfLeft ==
  ASSUME NEW known, NEW roots, TreeWith(known, roots), pc = "right",
         UNCHANGED root, pc' \in {"idle", "panic"},
         Store!Write(Target, Image) \/ Store!WriteFails(Target, Image)
  PROVE  HasTree(known, roots)'
<1>1. PICK T, tops \in SUBSET PageNums,
           h \in [PageNums -> Nat], under \in [PageNums -> SUBSET Int] :
        /\ known \subseteq T /\ roots \subseteq tops
        /\ TreeState(view, owned, root, pc, req, path, work, T, tops, h, under)
  BY DEF TreeWith, HasTree
<1> DEFINE p == Last(path)
           f == fresh
           k == PromotedKey(work)
           g == SplitHeights(h, p, f)
           u == SplitKeys(under, p, f, k)
           U == T \cup {f}
<1>2. /\ U \subseteq owned' /\ Tree(view', U, g, u, tops)
      /\ root \in tops /\ tops \subseteq T
  <2>1. Inv
    BY DEF TreeWith
  <2>2. U \subseteq owned'
    BY <1>1, <2>1, RightHalfPage
  <2>3. SplitTree(view', T, tops, h, under, p, f, k)
    BY <1>1, <2>1, RightHalfTree
  <2>4. root \in tops /\ tops \subseteq T
    <3>1. /\ tops \subseteq T /\ (root = NoPage \/ root \in tops)
          /\ Tree(view, T, h, under, tops) /\ DownFrom(root, path, view, T, h)
      BY <1>1 DEF TreeState
    <3>2. root \in T
      BY <3>1, LastPage
    <3> QED
      BY <3>1, <3>2, BTreeAssumption DEF NoPage
  <2> QED
    BY <2>2, <2>3, <2>4 DEF SplitTree
<1> HIDE DEF g, u
<1>3. TreeState(view', owned', root', pc', req', path', work', U, tops, g, u)
  BY <1>2 DEF TreeState
<1>4. known \subseteq U /\ roots \subseteq tops
  BY <1>1
<1> QED
  BY <1>3, <1>4, TreeThen

\* The parent of the page that has split is about to be written.
LEMMA WriteRightKeepsTree ==
  ASSUME NEW known, NEW roots, TreeWith(known, roots), WriteRight
  PROVE  HasTree(known, roots)'
<1> DEFINE l == Len(path)
           a == l - 1
           p == Last(path)
           q == path[a]
           f == fresh
           parent == view[q]
           k == PromotedKey(work)
<1>1. /\ pc = "right" /\ l > 1 /\ Store!Write(Target, Image) /\ UNCHANGED root
      /\ \/ pc' = "panic"
         \/ /\ pc' = "write" /\ path' = Front(path)
            /\ \E i \in Slots(parent.cells, k) : work' = WithSplitChild(parent, i, k, p, f)
  BY DEF WriteRight, WritesImage
<1>2. CASE pc' = "panic"
  BY <1>1, <1>2, RightHalfLeft
<1>3. CASE /\ pc' = "write" /\ path' = Front(path)
           /\ \E i \in Slots(parent.cells, k) : work' = WithSplitChild(parent, i, k, p, f)
  <2>1. PICK T, tops \in SUBSET PageNums,
             h \in [PageNums -> Nat], under \in [PageNums -> SUBSET Int] :
          /\ known \subseteq T /\ roots \subseteq tops
          /\ TreeState(view, owned, root, pc, req, path, work, T, tops, h, under)
    BY DEF TreeWith, HasTree
  <2> DEFINE g == SplitHeights(h, p, f)
             low == LowKeys(under[p], k)
             high == HighKeys(under[p], k)
             u == SplitKeys(under, p, f, k)
             U == T \cup {f}
             V == [view EXCEPT ![p] = work]
  <2>2. /\ U \subseteq owned' /\ owned' = owned
        /\ f \in PageNums /\ f \notin T /\ f \notin tops /\ NothingLeadsTo(f, view')
        /\ k \in Keys /\ k \in under[p] /\ LowKeys(under[p], k) # {}
        /\ Tree(view', U, g, u, tops)
        /\ DownFrom(root, path, view, T, h) /\ Tree(V, T, h, under, tops)
        /\ view' = [view EXCEPT ![f] = RightHalf(work)]
        /\ p \in T /\ root \in tops /\ tops \subseteq T
    <3>1. /\ Inv /\ pc = "right" /\ Store!Write(Target, Image)
      BY <1>1 DEF TreeWith
    <3>2. /\ U \subseteq owned' /\ owned' = owned
          /\ f \in PageNums /\ f \notin T /\ f \notin tops /\ NothingLeadsTo(f, view')
          /\ k \in Keys /\ k \in under[p] /\ LowKeys(under[p], k) # {}
          /\ Tree(view', U, g, u, tops)
      <4>1. U \subseteq owned' /\ owned' = owned
        BY <2>1, <3>1, RightHalfPage
      <4>2. f \in PageNums /\ f \notin T /\ f \notin tops /\ NothingLeadsTo(f, view')
        BY <2>1, <3>1, RightHalfPage
      <4>3. k \in Keys /\ k \in under[p] /\ LowKeys(under[p], k) # {}
        BY <2>1, <3>1, RightHalfKey
      <4>4. SplitTree(view', T, tops, h, under, p, f, k)
        BY <2>1, <3>1, RightHalfTree
      <4>5. Tree(view', U, g, u, tops)
        BY <4>4 DEF SplitTree
      <4> QED
        BY <4>1, <4>2, <4>3, <4>5
    <3>3. /\ DownFrom(root, path, view, T, h) /\ Tree(V, T, h, under, tops)
          /\ view' = [view EXCEPT ![f] = RightHalf(work)]
          /\ p \in T /\ root \in tops /\ tops \subseteq T
      <4>1. /\ DownFrom(root, path, view, T, h) /\ Tree(V, T, h, under, tops)
            /\ p \in T /\ root \in tops /\ tops \subseteq T
        BY <2>1, <3>1, RightHalfBefore
      <4>2. view' = [view EXCEPT ![f] = RightHalf(work)]
        BY <2>1, <3>1, RightHalfImages
      <4> QED
        BY <4>1, <4>2
    <3> QED
      BY <3>2, <3>3
  <2>3. /\ path \in Seq(PageNums) /\ l \in Nat /\ a \in 1 .. l /\ a + 1 = l
        /\ a \in 1 .. l - 1 /\ p = path[l]
    BY <1>1, LenProperties DEF TreeWith, Inv, TypeOK, Last
  <2>4. /\ path[1] = root /\ \A j \in 1 .. l : path[j] \in T
        /\ \A j \in 1 .. l - 1 : \E i \in Ways(view[path[j]]) :
             path[j + 1] = Child(view[path[j]], i)
        /\ \A i, j \in 1 .. l : i < j => h[path[j]] < h[path[i]]
    BY <2>2 DEF DownFrom
  <2>5. \A j \in 1 .. l - 1 : path[j] # p
    BY <1>1, <2>1, <2>2, PathKept DEF TreeState
  <2>6. PICK i \in Ways(parent) : p = Child(parent, i)
    BY <2>3, <2>4
  <2>7. q \in T /\ q # p /\ q # f /\ p # f /\ p \in PageNums /\ q \in PageNums
    BY <2>2, <2>3, <2>4, <2>5
  <2>8. /\ view \in [PageNums -> Pages] /\ view'[q] = parent
        /\ \A s \in PageNums : s # f => view'[s] = view[s]
        /\ V[q] = parent
    <3>1. view \in [PageNums -> Pages]
      BY DEF TreeWith, Inv, TypeOK, Store!TypeOK
    <3> QED
      BY <2>2, <2>7, <3>1
  <2> HIDE DEF l, a, q, V, parent, k, f, p
  <2>9. \A x \in under[p] : x \in under[q] /\ Between(parent, i, x) /\ x \in Int
    <3>1. Sorted(V[q], under[q], under)
      BY <2>2, <2>7, TreeNode
    <3> QED
      BY <2>6, <2>7, <2>8, <3>1 DEF Sorted
  <2>10. /\ g[f] = h[p] /\ g[p] = h[p] /\ u[p] = low /\ u[f] = high /\ u[q] = under[q]
         /\ \A s \in T : g[s] = h[s]
    BY <2>7, <2>2 DEF SplitHeights, SplitKeys
  <2>11. /\ \A x \in u[p] : x < k
         /\ u[p] # {}
         /\ \A x \in u[f] : k <= x /\ x \in u[q] /\ Between(parent, i, x)
         /\ k \in u[q] /\ Between(parent, i, k)
    BY <2>2, <2>9, <2>10 DEF LowKeys, HighKeys
  <2> HIDE DEF g, u, low, high
  <2>12. q \in U /\ f \in U /\ f \notin tops /\ g[f] = g[p]
    BY <2>2, <2>7, <2>10
  <2>13. /\ \A j \in Slots(parent.cells, k) : j = i
         /\ Tree([view' EXCEPT ![q] = WithSplitChild(parent, i, k, p, f)], U, g, u, tops)
    <3> DEFINE n == view'
    <3>0. Tree(n, U, g, u, tops)
      BY <2>2
    <3>1. n[q] = parent /\ Tree(n, U, g, u, tops) /\ i \in Ways(n[q])
          /\ p = Child(n[q], i) /\ Between(n[q], i, k)
          /\ \A x \in u[f] : k <= x /\ x \in u[q] /\ Between(n[q], i, x)
      BY <2>2, <2>6, <2>8, <2>11
    <3>2. \A s \in U : \A j \in Ways(n[s]) : Child(n[s], j) # f
      <4>1. U \subseteq PageNums
        BY <2>2
      <4> QED
        BY <2>2, <4>1 DEF NothingLeadsTo
    <3> HIDE DEF n
    <3>a. SplitBelow(n, U, g, u, tops, q, i, p, f, k)
      BY <2>2, <2>11, <2>12, <3>1, <3>2 DEF SplitBelow
    <3> HIDE DEF U
    <3>3. /\ \A j \in Slots(n[q].cells, k) : j = i
          /\ Tree([n EXCEPT ![q] = WithSplitChild(n[q], i, k, p, f)], U, g, u, tops)
      <4>1. \A j \in Slots(n[q].cells, k) : j = i
        BY <3>0, <3>a, OneSlot
      <4>2. Tree([n EXCEPT ![q] = WithSplitChild(n[q], i, k, p, f)], U, g, u, tops)
        BY <3>0, <3>a, Adopted
      <4> QED
        BY <4>1, <4>2
    <3> QED
      BY <3>1, <3>3 DEF n
  <2>14. work' = WithSplitChild(parent, i, k, p, f)
    BY <1>3, <2>13
  <2>15. /\ Len(path') = a /\ Last(path') = q
         /\ \A j \in 1 .. a : path'[j] = path[j]
    <3>1. path # <<>>
      BY <1>1 DEF l
    <3>2. /\ Len(path') = Len(path) - 1
          /\ \A j \in 1 .. Len(path) - 1 : path'[j] = path[j]
      BY <1>3, <2>3, <3>1, FrontFacts
    <3>3. Len(path) - 1 = a /\ a \in 1 .. a
      BY <2>3 DEF l
    <3> QED
      BY <3>2, <3>3 DEF Last, q
  <2>16. DownFrom(root, path', view', U, g)
    <3>1. /\ a \in Nat \ {0} /\ 1 \in 1 .. a
          /\ \A j \in 1 .. a : j \in 1 .. l /\ j \in 1 .. l - 1
          /\ \A j \in 1 .. a - 1 : j \in 1 .. a /\ j + 1 \in 1 .. a
      BY <2>3
    <3>2. \A j \in 1 .. a : path'[j] \in T /\ view'[path'[j]] = view[path[j]]
                            /\ g[path'[j]] = h[path[j]]
      <4>1. T \subseteq PageNums
        OBVIOUS
      <4> QED
        BY <2>2, <2>4, <2>8, <2>10, <2>15, <3>1, <4>1
    <3>3. path'[1] = root /\ \A j \in 1 .. a : path'[j] \in U
      BY <2>4, <2>15, <3>1, <3>2
    <3>4. \A j \in 1 .. a - 1 : \E b \in Ways(view'[path'[j]]) :
            path'[j + 1] = Child(view'[path'[j]], b)
      <4>1. ASSUME NEW j \in 1 .. a - 1
            PROVE  \E b \in Ways(view'[path'[j]]) :
                     path'[j + 1] = Child(view'[path'[j]], b)
        <5>1. /\ j \in 1 .. a /\ j \in 1 .. l - 1
              /\ path'[j + 1] = path[j + 1] /\ view'[path'[j]] = view[path[j]]
          BY <2>15, <3>1, <3>2
        <5>2. \E b \in Ways(view[path[j]]) : path[j + 1] = Child(view[path[j]], b)
          BY <2>4, <5>1
        <5> QED
          BY <5>1, <5>2
      <4> QED
        BY <4>1
    <3>5. \A b, c \in 1 .. a : b < c => g[path'[c]] < g[path'[b]]
      BY <2>4, <3>1, <3>2
    <3> QED
      BY <2>15, <3>1, <3>3, <3>4, <3>5 DEF DownFrom
  <2>17. TreeState(view', owned', root', pc', req', path', work', U, tops, g, u)
    BY <1>1, <1>3, <2>2, <2>13, <2>14, <2>15, <2>16 DEF TreeState
  <2>18. known \subseteq U /\ roots \subseteq tops
    BY <2>1
  <2> QED
    BY <2>17, <2>18, TreeThen
<1> QED
  BY <1>1, <1>2, <1>3

\* The root has split, and a new one is to be made.
LEMMA WriteRightOfRootKeepsTree ==
  ASSUME NEW known, NEW roots, TreeWith(known, roots), WriteRightOfRoot
  PROVE  HasTree(known, roots)'
<1>1. PICK T, tops \in SUBSET PageNums,
           h \in [PageNums -> Nat], under \in [PageNums -> SUBSET Int] :
        /\ known \subseteq T /\ roots \subseteq tops
        /\ TreeState(view, owned, root, pc, req, path, work, T, tops, h, under)
  BY DEF TreeWith, HasTree
<1> DEFINE p == Last(path)
           f == fresh
           k == PromotedKey(work)
           g == SplitHeights(h, p, f)
           low == LowKeys(under[p], k)
           high == HighKeys(under[p], k)
           u == SplitKeys(under, p, f, k)
           U == T \cup {f}
<1>2. /\ pc = "right" /\ Len(path) = 1 /\ Store!Write(Target, Image)
      /\ pc' = "rootalloc" /\ UNCHANGED root
      /\ work' = Internal(<<[child |-> p, key |-> k]>>, f)
  BY DEF WriteRightOfRoot, WritesImage
<1>3. /\ U \subseteq owned' /\ f \in PageNums /\ f \notin T /\ f \notin tops
      /\ NothingLeadsTo(f, view')
      /\ k \in Keys /\ Tree(view', U, g, u, tops)
      /\ DownFrom(root, path, view, T, h)
      /\ view' = [view EXCEPT ![f] = RightHalf(work)] /\ HalfFullNode(view[p])
      /\ p \in T /\ root \in tops /\ tops \subseteq T
  <2>1. Inv /\ pc = "right" /\ Store!Write(Target, Image)
    BY <1>2 DEF TreeWith
  <2>2. /\ U \subseteq owned' /\ f \in PageNums /\ f \notin T /\ f \notin tops
        /\ NothingLeadsTo(f, view')
    BY <1>1, <2>1, RightHalfPage
  <2>3. SplitTree(view', T, tops, h, under, p, f, k)
    BY <1>1, <2>1, RightHalfTree
  <2>4. /\ DownFrom(root, path, view, T, h)
        /\ p \in T /\ root \in tops /\ tops \subseteq T
    BY <1>1, <2>1, RightHalfBefore
  <2>6. view' = [view EXCEPT ![f] = RightHalf(work)] /\ HalfFullNode(view[p])
    BY <1>1, <2>1, RightHalfImages
  <2>7. k \in Keys
    BY <1>1, <2>1, RightHalfKey
  <2>5. Tree(view', U, g, u, tops)
    BY <2>3 DEF SplitTree
  <2> QED
    BY <2>2, <2>4, <2>5, <2>6, <2>7
<1>4. p = root /\ p # f
  BY <1>2, <1>3 DEF DownFrom, Last
<1>5. view \in [PageNums -> Pages] /\ p \in PageNums
  BY <1>3 DEF TreeWith, Inv, TypeOK, Store!TypeOK
<1>6. HalfFullNode(view'[root])
  BY <1>3, <1>4, <1>5
<1>7. g[f] = g[p] /\ u[p] = low /\ u[f] = high
  BY <1>3, <1>4, <1>5 DEF SplitHeights, SplitKeys
<1>8. (\A x \in u[p] : x < k) /\ \A x \in u[f] : k <= x
  BY <1>7 DEF LowKeys, HighKeys
<1> HIDE DEF g, u, p, f, k
<1>9. RootAwaited(work', view', U, tops, g, u, root)
  BY <1>2, <1>3, <1>4, <1>6, <1>7, <1>8 DEF RootAwaited
<1>10. TreeState(view', owned', root', pc', req', path', work', U, tops, g, u)
  BY <1>2, <1>3, <1>9 DEF TreeState
<1>11. known \subseteq U /\ roots \subseteq tops
  BY <1>1
<1> QED
  BY <1>10, <1>11, TreeThen

\* The awaited root is written and taken, or it could not be written and is
\* left: then nothing leads to it.
LEMMA RootWritten ==
  ASSUME NEW known, NEW roots, TreeWith(known, roots), pc = "root", pc' = "idle",
         \/ Store!Write(Target, Image) /\ root' = fresh
         \/ Store!WriteFails(Target, Image) /\ UNCHANGED root
  PROVE  HasTree(known, roots)'
<1>1. PICK T, tops \in SUBSET PageNums,
           h \in [PageNums -> Nat], under \in [PageNums -> SUBSET Int] :
        /\ known \subseteq T /\ roots \subseteq tops
        /\ TreeState(view, owned, root, pc, req, path, work, T, tops, h, under)
  BY DEF TreeWith, HasTree
<1> DEFINE f == fresh
<1>2. /\ T \subseteq owned /\ Tree(view, T, h, under, tops)
      /\ tops \subseteq T /\ (root = NoPage \/ root \in tops)
      /\ RootAwaited(work, view, T, tops, h, under, root)
      /\ root \notin roots
  BY <1>1 DEF TreeState, TreeWith
<1>3. /\ work \in RealNodes /\ PointsInto(work, LinkedPages)
      /\ f \in owned /\ view[f] = Zero
  BY DEF TreeWith, Inv, WorkGood
<1>4. f \in PageNums /\ f \notin LinkedPages
  BY <1>3 DEF TreeWith, Inv, TypeOK, Store!TypeOK, LinkedPages
<1>5. f \notin T
  <2>1. \A q \in T : view[q] \in RealNodes
    BY <1>2, TreeNode
  <2> QED
    BY <1>3, <2>1, CellFacts DEF Zero
<1>6. NothingLeadsTo(f, view) /\ \A i \in Ways(work) : Child(work, i) # f
  BY <1>3, <1>4, Unlinked DEF TreeWith
<1>7. /\ view' = [view EXCEPT ![f] = work] /\ owned' = owned
      /\ f \in T \cup {f} /\ T \cup {f} \subseteq owned' /\ f # NoPage
  <2>1. Target = f /\ Image = work
    BY DEF Target, Image
  <2>2. view' = [view EXCEPT ![f] = work] /\ owned' = owned
    BY <2>1, PageWritten DEF TreeWith
  <2> QED
    BY <1>2, <1>3, <1>4, <2>2, BTreeAssumption DEF NoPage
<1>8. root' = f \/ root' = root
  OBVIOUS
<1> HIDE DEF f
<1>a. /\ known \subseteq T /\ known \subseteq T \cup {f} /\ roots \subseteq tops
      /\ roots \subseteq tops \cup {f} /\ roots \subseteq (tops \ {root}) \cup {f}
  BY <1>1, <1>2
<1>9. CASE root = NoPage /\ work = Leaf(<<>>)
  <2> DEFINE g == [h EXCEPT ![f] = 0]
  <2>1. work.type # "internal" /\ Ways(work) = {} /\ work \in Pages
    BY <1>3, <1>9, PageFacts DEF Ways, Leaf
  <2>2. CASE root' = f
    <3>1. Tree(view', T \cup {f}, g, under, tops \cup {f})
      <4>1. Tree([view EXCEPT ![f] = Leaf(<<>>)], T \cup {f}, g, under, tops \cup {f})
        BY <1>2, <1>4, <1>5, <1>6, FirstLeafMade DEF NothingLeadsTo
      <4> QED
        BY <1>7, <1>9, <4>1
    <3> HIDE DEF g
    <3>2. TreeState(view', owned', root', pc', req', path', work', T \cup {f},
                    tops \cup {f}, g, under)
      BY <1>2, <1>7, <2>2, <3>1 DEF TreeState
    <3> QED
      BY <1>a, <3>2, TreeThen
  <2>3. CASE root' = root
    <3>1. Tree(view', T, g, under, tops)
      BY <1>2, <1>4, <1>5, <1>6, <1>7, <2>1, OtherWritten DEF NothingLeadsTo
    <3> HIDE DEF g
    <3>2. TreeState(view', owned', root', pc', req', path', work', T, tops, g, under)
      BY <1>2, <1>7, <2>3, <3>1 DEF TreeState
    <3> QED
      BY <1>a, <3>2, TreeThen
  <2> QED
    BY <1>8, <2>2, <2>3
<1>10. CASE root \in tops /\ HalfFullNode(view[root])
            /\ \E r \in T \ tops, k \in Keys :
                 /\ work = Internal(<<[child |-> root, key |-> k]>>, r)
                 /\ h[r] = h[root] /\ NothingLeadsTo(r, view)
                 /\ \A x \in under[root] : x < k
                 /\ \A x \in under[r] : k <= x
  <2>1. PICK r \in T \ tops, k \in Keys :
          /\ work = Internal(<<[child |-> root, key |-> k]>>, r)
          /\ h[r] = h[root] /\ NothingLeadsTo(r, view)
          /\ \A x \in under[root] : x < k
          /\ \A x \in under[r] : k <= x
    BY <1>10
  <2> DEFINE g == [h EXCEPT ![f] = h[root] + 1]
             keys == under[root] \cup under[r] \cup {k}
             u == [under EXCEPT ![f] = keys]
             W == (tops \ {root}) \cup {f}
  <2>2. CASE root' = f
    <3>1. Tree(view', T \cup {f}, g, u, W)
      <4>1. \A q \in PageNums : \A i \in Ways(view[q]) : Child(view[q], i) \notin {r, f}
        BY <1>6, <2>1 DEF NothingLeadsTo
      <4>2. Tree([view EXCEPT ![f] = Internal(<<[child |-> root, key |-> k]>>, r)],
                 T \cup {f}, g, u, W)
        BY <1>2, <1>4, <1>5, <1>10, <2>1, <4>1, RootMade
      <4> QED
        BY <1>7, <2>1, <4>2
    <3>2. W \subseteq T \cup {f} /\ f \in W /\ roots \subseteq W
      BY <1>2, <1>a
    <3> HIDE DEF g, u, W
    <3>3. TreeState(view', owned', root', pc', req', path', work', T \cup {f}, W, g, u)
      BY <1>7, <2>2, <3>1, <3>2 DEF TreeState
    <3> QED
      BY <1>a, <3>2, <3>3, TreeThen
  <2>3. CASE root' = root
    <3>1. Tree(view', T, g, under, tops)
      <4>1. root \in PageNums /\ r \in PageNums /\ h[root] + 1 \in Nat
        BY <1>2, <1>10
      <4>2. /\ work.type = "internal" /\ Ways(work) = {1, 2}
            /\ Child(work, 1) = root /\ Child(work, 2) = r
        BY <2>1, <4>1, RootShape
      <4>3. \A i \in Ways(work) : /\ Child(work, i) \in PageNums \ {f}
                                  /\ h[root] + 1 = h[Child(work, i)] + 1
        BY <1>6, <2>1, <4>1, <4>2
      <4>4. work \in Pages
        BY <1>3, PageFacts
      <4> QED
        BY <1>2, <1>4, <1>5, <1>6, <1>7, <4>1, <4>2, <4>3, <4>4, OtherWritten
        DEF NothingLeadsTo
    <3> HIDE DEF g
    <3>2. TreeState(view', owned', root', pc', req', path', work', T, tops, g, under)
      BY <1>2, <1>7, <1>10, <2>3, <3>1 DEF TreeState
    <3> QED
      BY <1>a, <3>2, TreeThen
  <2> QED
    BY <1>8, <2>2, <2>3
<1> QED
  BY <1>2, <1>9, <1>10 DEF RootAwaited

\* The writes, each with its error.
LEMMA WriteWholeKeepsTree ==
  ASSUME NEW known, NEW roots, TreeWith(known, roots), WriteWhole
  PROVE  HasTree(known, roots)'
  BY WriteOnPath DEF WriteWhole, WritesImage, Return

\* The left half of a split is written first: the cells of the right half are
\* gone from the tree until they are written, and what is left is a tree.
LEMMA WriteLeftKeepsTree ==
  ASSUME NEW known, NEW roots, TreeWith(known, roots), WriteLeft
  PROVE  HasTree(known, roots)'
  BY WriteOnPath DEF WriteLeft, WritesImage

\* The new root is the root from this write on.
LEMMA WriteRootKeepsTree ==
  ASSUME NEW known, NEW roots, TreeWith(known, roots), WriteRoot
  PROVE  HasTree(known, roots)'
  BY RootWritten DEF WriteRoot, WritesImage, Return

\* A write whose error goes to the caller has changed the page in memory, and
\* leaves the tree as that write would.
LEMMA WriteFailsKeepsTree ==
  ASSUME NEW known, NEW roots, TreeWith(known, roots), WriteFails
  PROVE  HasTree(known, roots)'
<1>1. /\ pc \in {"write", "right", "root"} /\ pc' = "idle" /\ UNCHANGED root
      /\ Store!WriteFails(Target, Image)
  BY DEF WriteFails, Return
<1> QED
  BY <1>1, WriteOnPath, RightHalfLeft, RootWritten

----------------------------------------------------------------------------
\* The invariant of the specification

\* Every step keeps the invariant.
LEMMA TreeStep ==
  ASSUME NEW known, NEW roots, TreeWith(known, roots), [Next]_vars
  PROVE  Inv' /\ HasTree(known, roots)'
<1>1. Inv'
  BY InvStep DEF TreeWith
<1> SUFFICES HasTree(known, roots)'
  BY <1>1
<1>2. CASE NewBTree \/ NewBTreeFails
  BY <1>2, AllocationKeepsTree, ReadingKeepsTree
<1>3. CASE \E r \in Requests : Call(r)
  BY <1>3, CallKeepsTree
<1>4. CASE \/ DescendInternal \/ SearchLeaf \/ InsertLeaf \/ DeleteLeaf
           \/ ScanLeaf \/ ScanInternal \/ ScanReturns
  BY <1>4, DescentKeepsTree, InsertKeepsTree, DeleteKeepsTree, ReadingKeepsTree
<1>5. CASE \/ WriteWhole \/ WriteLeft \/ AllocateRight \/ WriteRight
           \/ WriteRightOfRoot \/ AllocateRoot \/ WriteRoot
  BY <1>5, WriteWholeKeepsTree, WriteLeftKeepsTree, AllocationKeepsTree,
     WriteRightKeepsTree, WriteRightOfRootKeepsTree, WriteRootKeepsTree
<1>6. CASE ReadFails \/ WriteFails \/ AllocateFails \/ ReadPanics \/ WritePanics
  BY <1>6, WriteFailsKeepsTree, ReadingKeepsTree
<1>7. CASE UNCHANGED vars
  BY <1>7 DEF TreeWith, HasTree, vars, call
<1> QED
  BY <1>2, <1>3, <1>4, <1>5, <1>6, <1>7 DEF Next, Proceed

\* In every state, between any two pager calls and after any failures, the
\* pages hold such a tree.
THEOREM TreeInvariance == Spec => []TreeInv
<1>1. Init => TreeInv
  BY InitTree
<1>2. TreeInv /\ [Next]_vars => TreeInv'
  BY TreeStep DEF TreeInv, TreeWith
<1> QED
  BY <1>1, <1>2, PTL DEF Spec

\* So a search down from the root finds every key: a write that fails half
\* way through a split loses cells and never misplaces one.
THEOREM TreeSoundInvariance == Spec => []TreeSound
  BY TreeInvariance, TreeInvGives, PTL

\* And a split leaves enough in both halves, whatever is deleted afterwards.
THEOREM HalfFullInvariance == Spec => []HalfFull
  BY TreeInvariance, TreeInvGives, PTL

----------------------------------------------------------------------------
\* The cells that a step disturbs

\* A cell whose key the pages of a call lead towards is under the first of them

\* when it is under the last.
LEMMA CellsOnPath ==
  ASSUME NEW m, NEW T, NEW h, NEW under, NEW tops, Tree(m, T, h, under, tops),
         NEW top, NEW pages, DownFrom(top, pages, m, T, h),
         NEW k \in Int, Toward(k, pages, m)
  PROVE  \A c : c.key = k =>
           (c \in CellsUnder(m, top) <=> c \in CellsUnder(m, Last(pages)))
<1> DEFINE l == Len(pages)
           Alike(j) == \A c : c.key = k =>
             (c \in CellsUnder(m, top) <=> c \in CellsUnder(m, pages[j + 1]))
           G == {j \in Nat : j < l => Alike(j)}
<1>1. l \in Nat \ {0} /\ pages[1] = top /\ \A j \in 1 .. l : pages[j] \in T
  BY DEF DownFrom
<1>2. ASSUME NEW j \in Nat, \A i \in Nat : i < j => i \in G PROVE j \in G
  <2> SUFFICES ASSUME j < l PROVE Alike(j)
    OBVIOUS
  <2>1. CASE j = 0
    <3>1. pages[j + 1] = top
      BY <1>1, <2>1
    <3> QED
      BY <3>1
  <2>2. CASE j > 0
    <3>1. j - 1 \in Nat /\ j - 1 < j /\ j - 1 < l /\ j \in 1 .. l - 1 /\ j \in 1 .. l
          /\ j - 1 + 1 = j
      BY <1>1, <2>2
    <3>2. Alike(j - 1)
      BY <1>2, <3>1
    <3>3. PICK i \in Ways(m[pages[j]]) : pages[j + 1] = Child(m[pages[j]], i)
      BY <3>1 DEF DownFrom
    <3>4. Between(m[pages[j]], i, k)
      BY <3>1, <3>3 DEF Toward
    <3>5. pages[j] \in T
      BY <1>1, <3>1
    <3>6. \A c : c.key = k => (c \in CellsUnder(m, pages[j])
                                 <=> c \in CellsUnder(m, pages[j + 1]))
      BY <3>3, <3>4, <3>5, CellsToward
    <3> QED
      BY <3>1, <3>2, <3>6
  <2> QED
    BY <2>1, <2>2
<1> HIDE DEF G
<1>3. Nat \subseteq G
  BY <1>2, CourseOfValues
<1>4. l - 1 \in G /\ l - 1 < l /\ l - 1 + 1 = l
  BY <1>1, <1>3
<1>5. Alike(l - 1)
  BY <1>4 DEF G
<1> QED
  BY <1>4, <1>5 DEF Last

\* The leaf that a call has come to is written, with no change but to the key

\* that it was looking for.
LEMMA LeafPut ==
  ASSUME NEW m, NEW T, NEW h, NEW under, NEW tops, Tree(m, T, h, under, tops),
         NEW top, NEW pages, DownFrom(top, pages, m, T, h),
         NEW k \in Int, Toward(k, pages, m),
         NEW p, p = Last(pages), m[p].type = "leaf",
         NEW node \in RealNodes, node.type = "leaf",
         NEW n, n = [m EXCEPT ![p] = node],
         NEW u, Tree(n, T, h, u, tops),
         \A c \in LeafCells : c.key # k => (c \in Range(node.cells) <=> c \in Range(m[p].cells))
  PROVE  \A c \in LeafCells :
           c \in CellsUnder(n, top) <=>
             IF c.key = k THEN c \in Range(node.cells) ELSE c \in CellsUnder(m, top)
<1>0. /\ m \in [PageNums -> Pages] /\ h \in [PageNums -> Nat] /\ Falling(m, h)
      /\ n \in [PageNums -> Pages] /\ Falling(n, h)
      /\ T \subseteq PageNums
  BY TreeFalls
<1>1. p \in T /\ p \in PageNums /\ top \in T
  BY LastPage
<1>2. n[p] = node /\ \A q \in T : q # p => n[q] = m[q]
  BY <1>0, <1>1
<1>3. \A q \in T : q # p => \A i \in Ways(m[q]) : Child(m[q], i) \in T
  BY TreeNode
<1>4. DownFrom(top, pages, n, T, h)
  BY <1>2, PathKept
<1>5. Toward(k, pages, n)
  <2>1. ASSUME NEW j \in 1 .. Len(pages) - 1 PROVE n[pages[j]] = m[pages[j]]
    <3>1. pages[j] # p
      BY PathKept
    <3>2. pages[j] \in T
      BY DEF DownFrom
    <3> QED
      BY <1>2, <3>1, <3>2
  <2> QED
    BY <2>1 DEF Toward
<1>6. \A c : c.key = k => (c \in CellsUnder(n, top) <=> c \in CellsUnder(n, p))
  BY <1>4, <1>5, CellsOnPath
<1>7. /\ CellsUnder(n, p) = Range(node.cells)
      /\ CellsUnder(m, p) = Range(m[p].cells)
  BY <1>0, <1>1, <1>2, CellUnder
<1> DEFINE K == {c \in LeafCells : c.key # k}
<1>8. ASSUME NEW q \in T
      PROVE  Within(n, m, K, T, q) /\ Within(m, n, K, T, q)
  <2>1. CASE q = p
    <3>1. Ways(n[q]) = {} /\ Ways(m[q]) = {}
      BY <1>2, <2>1 DEF Ways
    <3>2. /\ n[q].type # "internal" /\ m[q].type # "internal"
          /\ Range(n[q].cells) \cap K \subseteq Range(m[q].cells)
          /\ Range(m[q].cells) \cap K \subseteq Range(n[q].cells)
      BY <1>2, <2>1
    <3> QED
      BY <3>1, <3>2 DEF Within
  <2>2. CASE q # p
    BY <1>2, <1>3, <2>2 DEF Within
  <2> QED
    BY <2>1, <2>2
<1> HIDE DEF K
<1>9. CellsUnder(n, top) \cap K \subseteq CellsUnder(m, top)
  BY <1>0, <1>1, <1>8, CellsCompared
<1>10. CellsUnder(m, top) \cap K \subseteq CellsUnder(n, top)
  BY <1>0, <1>1, <1>8, CellsCompared
<1>11. \A c \in LeafCells : c.key # k => c \in K
  BY DEF K
<1> QED
  BY <1>6, <1>7, <1>9, <1>10, <1>11

\* A page that no pointer leads to is written: under the others nothing changes.
LEMMA CellsElsewhere ==
  ASSUME NEW m \in [PageNums -> Pages], NEW g \in [PageNums -> Nat], Falling(m, g),
         NEW f \in PageNums, NothingLeadsTo(f, m),
         NEW n \in [PageNums -> Pages], NEW h \in [PageNums -> Nat], Falling(n, h),
         \A q \in PageNums : q # f => n[q] = m[q]
  PROVE  \A q \in PageNums : q # f => CellsUnder(n, q) = CellsUnder(m, q)
<1> DEFINE S == PageNums \ {f}
<1>1. ASSUME NEW q \in S PROVE Unchanged(n, m, S, q)
  <2>1. n[q] = m[q]
    OBVIOUS
  <2>2. ASSUME NEW i \in Ways(m[q]) PROVE Child(m[q], i) \in S
    <3>1. Child(m[q], i) # f
      BY DEF NothingLeadsTo
    <3>2. m[q].type = "internal"
      BY DEF Ways
    <3>3. Child(m[q], i) \in PageNums
      BY <3>2, FallingPages DEF Ways
    <3> QED
      BY <3>1, <3>3
  <2> QED
    BY <2>1, <2>2 DEF Unchanged
<1>2. S \in SUBSET PageNums
  OBVIOUS
<1> HIDE DEF S
<1>3. \A q \in S : CellsUnder(n, q) = CellsUnder(m, q)
  BY <1>1, <1>2, CellsSame
<1> QED
  BY <1>3 DEF S

\* A cell is taken out.
LEMMA RemovedCells ==
  ASSUME NEW s \in Seq(LeafCells), Ascending(s), NEW k, NEW i \in Positions(s, k),
         NEW t, t = RemoveAt(s, i)
  PROVE  \A c : c \in Range(t) <=> c.key # k /\ c \in Range(s)
<1>1. i \in 1 .. Len(s) /\ s[i].key = k /\ Len(s) \in Nat
  BY DEF Positions
<1>2. /\ t \in Seq(LeafCells) /\ Len(t) = Len(s) - 1
      /\ \A j \in 1 .. Len(s) - 1 : t[j] = IF j < i THEN s[j] ELSE s[j + 1]
  BY <1>1, RemoveAtCells
<1>3. \A j \in 1 .. Len(s) : s[j].key = k => j = i
  BY <1>1, OnePosition
<1>4. /\ \A c : c \in Range(s) <=> \E j \in 1 .. Len(s) : c = s[j]
      /\ \A c : c \in Range(t) <=> \E j \in 1 .. Len(s) - 1 : c = t[j]
  BY <1>2, CellIn
<1>5. ASSUME NEW c, c \in Range(t)
      PROVE  c.key # k /\ c \in Range(s)
  <2>1. PICK j \in 1 .. Len(s) - 1 : c = t[j]
    BY <1>4, <1>5
  <2> DEFINE d == IF j < i THEN j ELSE j + 1
  <2>2. d \in 1 .. Len(s) /\ d # i /\ c = s[d]
    BY <1>1, <1>2, <2>1
  <2> QED
    BY <1>3, <1>4, <2>2
<1>6. ASSUME NEW c, c.key # k, c \in Range(s)
      PROVE  c \in Range(t)
  <2>1. PICK j \in 1 .. Len(s) : c = s[j]
    BY <1>4, <1>6
  <2> DEFINE d == IF j < i THEN j ELSE j - 1
  <2>2. j # i
    BY <1>1, <1>6, <2>1
  <2>3. /\ d \in 1 .. Len(s) - 1 /\ (j < i => d < i /\ d = j)
        /\ (~(j < i) => ~(d < i) /\ d + 1 = j)
    BY <1>1, <2>2
  <2>4. c = t[d]
    BY <1>2, <2>1, <2>3
  <2> QED
    BY <1>4, <2>3, <2>4
<1> QED
  BY <1>5, <1>6

----------------------------------------------------------------------------
\* The cells of the tree during a call

\* The cells that a call leaves, when it succeeds, of those it found.
Goal(r, B) ==
  CASE r.op = "insert" -> {c \in B : c.key # r.key} \cup {[key |-> r.key, value |-> r.val]}
    [] r.op = "delete" -> {c \in B : c.key # r.key}
    [] OTHER -> B

\* The tree as it will be when the node in hand is written.
Ahead == [view EXCEPT ![Last(path)] = work]

\* B is what the tree held when the call began.  Between the writes of a split
\* the tree may have lost cells of it, but none is lost from what is in hand.
CellState(B) ==
  /\ CellsUnder(view, root) \subseteq B \cup Goal(req, B)
  /\ req.op # "insert" => CellsUnder(view, root) = B
  /\ pc \in {"descend", "scan"} => CellsUnder(view, root) = B
  /\ pc \in {"write", "alloc", "right"} => CellsUnder(Ahead, root) = Goal(req, B)
  /\ pc \in {"rootalloc", "root"} => CellsOf(view, work) = Goal(req, B)
  /\ pc = "scan" => req.op = "scan"
  /\ pc = "write" => \/ req.op = "insert"
                     \/ /\ req.op = "delete" /\ ~Overfull(work)
                        /\ \E c \in B : c.key = req.key
  /\ pc \in {"alloc", "right", "rootalloc"} => req.op = "insert"
  /\ pc = "root" => req.op = "insert" \/ (req.op = "new" /\ root = NoPage)

\* What a call that found the cells B may answer, and leave: A.
Answer(r, B, A, out) ==
  \/ /\ out.status = "ok" /\ A = Goal(r, B)
     /\ r.op \in {"insert", "new"} => out.rows = <<>>
     /\ r.op = "new" => B = {}
     /\ r.op = "delete" => out.rows = <<>> /\ \E c \in B : c.key = r.key
     /\ r.op = "search" => \E c \in B : c.key = r.key /\ out.rows = <<c>>
     /\ r.op = "scan" => /\ out.rows \in Seq(LeafCells)
                         /\ Range(out.rows) = B /\ Ascending(out.rows)
  \/ /\ out = [status |-> "notfound", rows |-> <<>>]
     /\ r.op \in {"search", "delete"} /\ A = B /\ \A c \in B : c.key # r.key
  \/ /\ out = [status |-> "error", rows |-> <<>>]
     /\ A \in {B, Goal(r, B)}

\* An insert that failed half-way may have lost cells.
Loss(r, B, A, out) ==
  /\ out = [status |-> "error", rows |-> <<>>]
  /\ r.op = "insert" /\ A \subseteq B \cup Goal(r, B)

\* The recursive definitions are defined in memory, now and after the step.
LEMMA ViewFalls ==
  ASSUME NEW known, NEW roots, TreeWith(known, roots)
  PROVE  view \in [PageNums -> Pages] /\ \E h \in [PageNums -> Nat] : Falling(view, h)
<1>1. PICK T, tops \in SUBSET PageNums,
           h \in [PageNums -> Nat], under \in [PageNums -> SUBSET Int] :
        TreeState(view, owned, root, pc, req, path, work, T, tops, h, under)
  BY DEF TreeWith, HasTree
<1>2. Tree(view, T, h, under, tops)
  BY <1>1 DEF TreeState
<1> QED
  BY <1>2, TreeFalls

\* The same after a step.
LEMMA ViewFallsThen ==
  ASSUME NEW known, NEW roots, HasTree(known, roots)'
  PROVE  view' \in [PageNums -> Pages] /\ \E h \in [PageNums -> Nat] : Falling(view', h)
<1>1. PICK T, tops \in SUBSET PageNums,
           h \in [PageNums -> Nat], under \in [PageNums -> SUBSET Int] :
        TreeState(view', owned', root', pc', req', path', work', T, tops, h, under)
  BY DEF HasTree
<1>2. Tree(view', T, h, under, tops)
  BY <1>1 DEF TreeState
<1> QED
  BY <1>2, TreeFalls

\* The leaf that a call has come to is where the tree has the key of the call.
LEMMA CellsAtLeaf ==
  ASSUME NEW known, NEW roots, TreeWith(known, roots), pc = "descend",
         view[Last(path)].type = "leaf", req.key \in Int
  PROVE  LET s == view[Last(path)].cells IN
         \A c : c.key = req.key =>
           (c \in CellsUnder(view, root) <=> \E i \in Positions(s, req.key) : c = s[i])
<1> DEFINE s == view[Last(path)].cells
           k == req.key
<1>1. PICK T, tops, h, under :
        /\ Tree(view, T, h, under, tops)
        /\ DownFrom(root, path, view, T, h) /\ Toward(k, path, view)
        /\ LeafOver(view[Last(path)], under[Last(path)])
  BY AtLeaf
<1>2. s \in Seq(LeafCells)
  BY <1>1, CellFacts DEF LeafOver
<1>3. /\ view \in [PageNums -> Pages] /\ h \in [PageNums -> Nat] /\ Falling(view, h)
      /\ Last(path) \in PageNums
  BY <1>1, TreeFalls, LastPage
<1>4. CellsUnder(view, Last(path)) = Range(s)
  BY <1>3, CellUnder
<1>5. ASSUME NEW c, c.key = k
      PROVE  c \in CellsUnder(view, root) <=> \E i \in Positions(s, k) : c = s[i]
  <2>1. c \in CellsUnder(view, root) <=> c \in Range(s)
    BY <1>1, <1>4, <1>5, CellsOnPath
  <2>2. c \in Range(s) <=> \E i \in 1 .. Len(s) : c = s[i]
    BY <1>2, CellIn
  <2> QED
    BY <1>5, <2>1, <2>2 DEF Positions
<1> QED
  BY <1>5

\* A leaf is about to be written, with no change but to the key of the call.
LEMMA LeafWritten ==
  ASSUME NEW known, NEW roots, TreeWith(known, roots), HasTree(known, roots)',
         pc = "descend", pc' = "write", UNCHANGED <<view, root, path, req>>,
         view[Last(path)].type = "leaf", work' \in RealNodes, work'.type = "leaf",
         req.key \in Int,
         \A c \in LeafCells : c.key # req.key =>
           (c \in Range(work'.cells) <=> c \in Range(view[Last(path)].cells))
  PROVE  /\ CellsUnder(view, root) \subseteq LeafCells
         /\ CellsUnder(Ahead', root') \subseteq LeafCells
         /\ \A c \in LeafCells :
              c \in CellsUnder(Ahead', root') <=>
                IF c.key = req.key THEN c \in Range(work'.cells)
                                   ELSE c \in CellsUnder(view, root)
<1>1. PICK T, tops \in SUBSET PageNums,
           h \in [PageNums -> Nat], under \in [PageNums -> SUBSET Int] :
        TreeState(view', owned', root', pc', req', path', work', T, tops, h, under)
  BY DEF HasTree
<1> DEFINE n == [view EXCEPT ![Last(path)] = work']
<1>2. /\ Tree(view, T, h, under, tops) /\ DownFrom(root, path, view, T, h)
      /\ Tree(n, T, h, under, tops)
  BY <1>1 DEF TreeState
<1>3. Toward(req.key, path, view)
  BY DEF TreeWith, HasTree, TreeState
<1>4. Ahead' = n /\ root' = root
  BY DEF Ahead
<1>5. root \in T
  BY <1>2, LastPage
<1>6. CellsUnder(view, root) \subseteq LeafCells /\ CellsUnder(n, root) \subseteq LeafCells
  <2> HIDE DEF n
  <2> QED
    BY <1>2, <1>5, TreeFalls, CellsUnderFacts
<1>7. \A c \in LeafCells :
        c \in CellsUnder(n, root) <=>
          IF c.key = req.key THEN c \in Range(work'.cells) ELSE c \in CellsUnder(view, root)
  BY <1>2, <1>3, LeafPut
<1> QED
  BY <1>4, <1>6, <1>7

\* Insert has put its cell in the leaf in hand.
LEMMA InsertCells ==
  ASSUME NEW known, NEW roots, TreeWith(known, roots), HasTree(known, roots)',
         NEW B, CellState(B), InsertLeaf
  PROVE  CellState(B)'
<1> DEFINE k == req.key
           cell == [key |-> req.key, value |-> req.val]
           s == view[Last(path)].cells
<1>1. /\ pc = "descend" /\ req.op = "insert" /\ view[Last(path)].type = "leaf"
      /\ pc' = "write" /\ UNCHANGED <<view, root, path, req>>
      /\ \/ \E i \in Positions(s, k) : work' = Leaf([s EXCEPT ![i] = cell])
         \/ /\ Positions(s, k) = {}
            /\ \E i \in Slots(s, k) : work' = Leaf(InsertAt(s, i, cell))
  BY DEF InsertLeaf
<1>2. cell \in LeafCells /\ k \in Int /\ cell.key = k
  <2>1. req \in Requests
    BY <1>1 DEF TreeWith, Inv, WorkGood
  <2>2. req.key \in Keys /\ req.val \in Vals
    BY <1>1, <2>1 DEF Requests
  <2> QED
    BY <2>2, BTreeAssumption DEF LeafCells
<1>3. s \in Seq(LeafCells) /\ Ascending(s)
  <2>1. PICK T, tops, h, under : LeafOver(view[Last(path)], under[Last(path)])
    BY <1>1, AtLeaf
  <2> QED
    BY <2>1, CellFacts DEF LeafOver
<1> HIDE DEF cell, s
<1>4. \E t \in Seq(LeafCells) :
        /\ work' = Leaf(t)
        /\ \A c : c \in Range(t) <=> c = cell \/ (c.key # k /\ c \in Range(s))
  <2>1. CASE \E i \in Positions(s, k) : work' = Leaf([s EXCEPT ![i] = cell])
    <3>1. PICK i \in Positions(s, k) : work' = Leaf([s EXCEPT ![i] = cell])
      BY <2>1
    <3>2. [s EXCEPT ![i] = cell] \in Seq(LeafCells)
      BY <1>2, <1>3, <3>1, ExceptSeq DEF Positions
    <3>3. i \in Positions(s, cell.key)
      BY <1>2
    <3>4. \A c : c \in Range([s EXCEPT ![i] = cell])
                   <=> c = cell \/ (c.key # k /\ c \in Range(s))
      BY <1>2, <1>3, <3>3, PutCells
    <3> QED
      BY <3>1, <3>2, <3>4
  <2>2. CASE /\ Positions(s, k) = {}
             /\ \E i \in Slots(s, k) : work' = Leaf(InsertAt(s, i, cell))
    <3>1. PICK i \in Slots(s, k) : work' = Leaf(InsertAt(s, i, cell))
      BY <2>2
    <3>2. i \in 1 .. Len(s) + 1
      BY DEF Slots
    <3>3. InsertAt(s, i, cell) \in Seq(LeafCells)
      BY <1>2, <1>3, <3>2, InsertAtFacts
    <3>4. i \in Slots(s, cell.key) /\ Positions(s, cell.key) = {}
      BY <1>2, <2>2
    <3>5. \A c : c \in Range(InsertAt(s, i, cell))
                   <=> c = cell \/ (c.key # k /\ c \in Range(s))
      BY <1>2, <1>3, <3>4, AddedCells
    <3> QED
      BY <3>1, <3>3, <3>5
  <2> QED
    BY <1>1, <2>1, <2>2 DEF s
<1>5. PICK t \in Seq(LeafCells) :
        /\ work' = Leaf(t)
        /\ \A c : c \in Range(t) <=> c = cell \/ (c.key # k /\ c \in Range(s))
  BY <1>4
<1>6. work' \in RealNodes /\ work'.type = "leaf" /\ work'.cells = t
  BY <1>5, LeafIsNode
<1>7. \A c \in LeafCells : c.key # k =>
        (c \in Range(work'.cells) <=> c \in Range(view[Last(path)].cells))
  BY <1>2, <1>5, <1>6 DEF s
<1>8. /\ CellsUnder(view, root) \subseteq LeafCells
      /\ CellsUnder(Ahead', root') \subseteq LeafCells
      /\ \A c \in LeafCells :
           c \in CellsUnder(Ahead', root') <=>
             IF c.key = k THEN c \in Range(work'.cells) ELSE c \in CellsUnder(view, root)
  BY <1>1, <1>2, <1>6, <1>7, LeafWritten
<1>9. CellsUnder(view, root) = B
  BY <1>1 DEF CellState
<1>10. CellsUnder(Ahead', root') = {c \in B : c.key # k} \cup {cell}
  BY <1>2, <1>5, <1>6, <1>8, <1>9
<1>11. Goal(req', B) = {c \in B : c.key # k} \cup {cell}
  BY <1>1 DEF Goal, cell
<1> QED
  BY <1>1, <1>9, <1>10, <1>11 DEF CellState

\* Delete has taken its cell out of the leaf in hand, or found none.
LEMMA DeleteCells ==
  ASSUME NEW known, NEW roots, TreeWith(known, roots), HasTree(known, roots)',
         NEW B, CellState(B), DeleteLeaf
  PROVE  IF pc' = "idle" THEN Answer(req, B, CellsUnder(view', root'), res')
                         ELSE CellState(B)' /\ UNCHANGED req
<1> DEFINE k == req.key
           s == view[Last(path)].cells
<1>1. /\ pc = "descend" /\ req.op = "delete" /\ view[Last(path)].type = "leaf"
      /\ UNCHANGED <<view, root>>
      /\ \/ Positions(s, k) = {} /\ Return("notfound", <<>>)
         \/ /\ \E i \in Positions(s, k) : work' = Leaf(RemoveAt(s, i))
            /\ pc' = "write" /\ UNCHANGED <<path, req>>
  BY DEF DeleteLeaf
<1>2. k \in Int
  <2>1. req \in Requests
    BY <1>1 DEF TreeWith, Inv, WorkGood
  <2>2. req.key \in Keys
    BY <1>1, <2>1 DEF Requests
  <2> QED
    BY <2>2, BTreeAssumption
<1>3. s \in Seq(LeafCells) /\ Ascending(s)
  <2>1. PICK T, tops, h, under : LeafOver(view[Last(path)], under[Last(path)])
    BY <1>1, AtLeaf
  <2> QED
    BY <2>1, CellFacts DEF LeafOver
<1>4. CellsUnder(view, root) = B
  BY <1>1 DEF CellState
<1>5. CASE Positions(s, k) = {} /\ Return("notfound", <<>>)
  <2>1. pc' = "idle" /\ res' = [status |-> "notfound", rows |-> <<>>]
    BY <1>5 DEF Return
  <2>2. \A c \in B : c.key # k
    <3> SUFFICES ASSUME NEW c \in B, c.key = k PROVE FALSE
      OBVIOUS
    <3>1. PICK i \in Positions(s, k) : c = s[i]
      BY <1>1, <1>2, <1>4, CellsAtLeaf
    <3> QED
      BY <1>5, <3>1
  <2> QED
    BY <1>1, <1>4, <2>1, <2>2 DEF Answer
<1>6. CASE /\ \E i \in Positions(s, k) : work' = Leaf(RemoveAt(s, i))
           /\ pc' = "write" /\ UNCHANGED <<path, req>>
  <2> HIDE DEF s
  <2>1. PICK i \in Positions(s, k) : work' = Leaf(RemoveAt(s, i))
    BY <1>6
  <2>a. i \in 1 .. Len(s) /\ Len(s) \in Nat
    BY <1>3 DEF Positions
  <2>2. PICK t \in Seq(LeafCells) : t = RemoveAt(s, i) /\ Len(t) = Len(s) - 1
    BY <1>3, <2>a, RemoveAtFacts
  <2>3. \A c : c \in Range(t) <=> c.key # k /\ c \in Range(s)
    BY <1>3, <2>2, RemovedCells
  <2>4. work' \in RealNodes /\ work'.type = "leaf" /\ work'.cells = t
    BY <2>1, <2>2, LeafIsNode
  <2>5. \A c \in LeafCells : c.key # k =>
          (c \in Range(work'.cells) <=> c \in Range(view[Last(path)].cells))
    BY <2>3, <2>4 DEF s
  <2>6. /\ CellsUnder(view, root) \subseteq LeafCells
        /\ CellsUnder(Ahead', root') \subseteq LeafCells
        /\ \A c \in LeafCells :
             c \in CellsUnder(Ahead', root') <=>
               IF c.key = k THEN c \in Range(work'.cells) ELSE c \in CellsUnder(view, root)
    BY <1>1, <1>2, <1>6, <2>4, <2>5, LeafWritten
  <2>7. CellsUnder(Ahead', root') = {c \in B : c.key # k}
    BY <1>4, <2>3, <2>4, <2>6
  <2>8. Goal(req', B) = {c \in B : c.key # k}
    BY <1>1, <1>6 DEF Goal
  <2>9. ~Overfull(work')
    <3>1. path # <<>>
      BY <1>1 DEF TreeWith, Inv, PathGood
    <3>2. InBounds(view[Last(path)])
      BY <3>1, PathFacts, NodeAt DEF TreeWith
    <3>3. Len(s) <= MaxLeafCells /\ MaxLeafCells \in Nat
      BY <1>1, <3>2, BTreeAssumption DEF InBounds, MaxCells, s
    <3> QED
      BY <2>2, <2>4, <2>a, <3>3 DEF Overfull, MaxCells
  <2>10. CellsUnder(view', root') = B
    BY <1>1, <1>4
  <2>11. \E c \in B : c.key = req'.key
    <3>1. s[i] \in B /\ s[i].key = k
      BY <1>1, <1>2, <1>4, CellsAtLeaf DEF Positions, s
    <3> QED
      BY <1>6, <3>1
  <2> QED
    BY <1>1, <1>6, <2>7, <2>8, <2>9, <2>10, <2>11 DEF CellState
<1> QED
  BY <1>1, <1>5, <1>6

\* Search answers from the leaf it has come to.
LEMMA SearchCells ==
  ASSUME NEW known, NEW roots, TreeWith(known, roots), NEW B, CellState(B), SearchLeaf
  PROVE  Answer(req, B, CellsUnder(view', root'), res')
<1> DEFINE k == req.key
           s == view[Last(path)].cells
<1>1. /\ pc = "descend" /\ req.op = "search" /\ view[Last(path)].type = "leaf"
      /\ UNCHANGED <<view, root>>
      /\ \/ \E i \in Positions(s, k) : Return("ok", <<s[i]>>)
         \/ Positions(s, k) = {} /\ Return("notfound", <<>>)
  BY DEF SearchLeaf
<1>2. k \in Int
  <2>1. req \in Requests
    BY <1>1 DEF TreeWith, Inv, WorkGood
  <2>2. req.key \in Keys
    BY <1>1, <2>1 DEF Requests
  <2> QED
    BY <2>2, BTreeAssumption
<1>3. CellsUnder(view, root) = B /\ CellsUnder(view', root') = B
  BY <1>1 DEF CellState
<1>4. \A c : c.key = k => (c \in B <=> \E i \in Positions(s, k) : c = s[i])
  BY <1>1, <1>2, <1>3, CellsAtLeaf
<1>5. Goal(req, B) = B
  BY <1>1 DEF Goal
<1>6. CASE \E i \in Positions(s, k) : Return("ok", <<s[i]>>)
  <2>1. PICK i \in Positions(s, k) : Return("ok", <<s[i]>>)
    BY <1>6
  <2>2. s[i].key = k
    BY DEF Positions
  <2>3. s[i] \in B
    BY <1>4, <2>2
  <2>4. res'.status = "ok" /\ res'.rows = <<s[i]>>
    BY <2>1 DEF Return
  <2>5. \E c \in B : c.key = req.key /\ res'.rows = <<c>>
    BY <2>2, <2>3, <2>4
  <2> QED
    BY <1>1, <1>3, <1>5, <2>4, <2>5 DEF Answer
<1>7. CASE Positions(s, k) = {} /\ Return("notfound", <<>>)
  <2>1. res' = [status |-> "notfound", rows |-> <<>>]
    BY <1>7 DEF Return
  <2>2. \A c \in B : c.key # k
    BY <1>4, <1>7
  <2> QED
    BY <1>1, <1>3, <2>1, <2>2 DEF Answer
<1> QED
  BY <1>1, <1>6, <1>7

\* Ahead is a memory in which the recursive definitions are defined, too.
LEMMA AheadFalls ==
  ASSUME NEW known, NEW roots, TreeWith(known, roots), pc \in {"write", "alloc", "right"}
  PROVE  Ahead \in [PageNums -> Pages] /\ \E h \in [PageNums -> Nat] : Falling(Ahead, h)
<1>1. PICK T, tops \in SUBSET PageNums,
           h \in [PageNums -> Nat], under \in [PageNums -> SUBSET Int] :
        TreeState(view, owned, root, pc, req, path, work, T, tops, h, under)
  BY DEF TreeWith, HasTree
<1>2. Tree(Ahead, T, h, under, tops)
  BY <1>1 DEF TreeState, Ahead
<1> QED
  BY <1>2, TreeFalls

\* The same after a step.
LEMMA AheadFallsThen ==
  ASSUME NEW known, NEW roots, HasTree(known, roots)', pc' \in {"write", "alloc", "right"}
  PROVE  /\ Ahead' \in [PageNums -> Pages]
         /\ \E h \in [PageNums -> Nat] : Falling(Ahead', h)
<1>1. PICK T, tops \in SUBSET PageNums,
           h \in [PageNums -> Nat], under \in [PageNums -> SUBSET Int] :
        TreeState(view', owned', root', pc', req', path', work', T, tops, h, under)
  BY DEF HasTree
<1>2. Tree(Ahead', T, h, under, tops)
  BY <1>1 DEF TreeState, Ahead
<1> QED
  BY <1>2, TreeFalls

\* What the pages in hand are, at a write.
LEMMA WritingFacts ==
  ASSUME NEW known, NEW roots, TreeWith(known, roots), pc \in {"write", "alloc", "right"}
  PROVE  /\ view \in [PageNums -> Pages] /\ Last(path) \in PageNums /\ Last(path) \in LinkedPages
         /\ root \in PageNums /\ root \in LinkedPages
         /\ work \in RealNodes /\ PointsInto(work, LinkedPages)
<1>1. Inv
  BY DEF TreeWith
<1>2. path # <<>> /\ work \in RealNodes /\ PointsInto(work, LinkedPages)
  BY <1>1 DEF Inv, PathGood, WorkGood
<1>3. Last(path) \in LinkedPages
  BY <1>1, <1>2, PathFacts
<1>4. view \in [PageNums -> Pages] /\ LinkedPages \subseteq PageNums
  BY <1>1 DEF Inv, TypeOK, Store!TypeOK, LinkedPages
<1>5. root \in LinkedPages
  <2>1. PICK T, tops \in SUBSET PageNums,
             h \in [PageNums -> Nat], under \in [PageNums -> SUBSET Int] :
          TreeState(view, owned, root, pc, req, path, work, T, tops, h, under)
    BY DEF TreeWith, HasTree
  <2>2. Tree(view, T, h, under, tops) /\ DownFrom(root, path, view, T, h)
    BY <2>1 DEF TreeState
  <2>3. root \in PageNums
    BY <2>2, LastPage
  <2> QED
    BY <1>1, <2>3, BTreeAssumption DEF Inv, PathGood, NoPage
<1> QED
  BY <1>2, <1>3, <1>4, <1>5

\* The page that comes next on the path is written, whole or its left half.
LEMMA WriteCells ==
  ASSUME NEW known, NEW roots, TreeWith(known, roots), HasTree(known, roots)',
         NEW B, CellState(B), pc = "write", UNCHANGED root,
         Store!Write(Target, Image) \/ Store!WriteFails(Target, Image)
  PROVE  /\ view' = [view EXCEPT ![Last(path)] = IF Overfull(work) THEN LeftHalf(work)
                                                                   ELSE work]
         /\ ~Overfull(work) => CellsUnder(view', root') = Goal(req, B)
         /\ Overfull(work) => CellsUnder(view', root') \subseteq Goal(req, B)
<1> DEFINE p == Last(path)
<1>1. Inv
  BY DEF TreeWith
<1>2. /\ Target = p /\ Image = IF Overfull(work) THEN LeftHalf(work) ELSE work
  BY DEF Target, Image
<1>3. view' = [view EXCEPT ![p] = Image]
  BY <1>1, <1>2, PageWritten
<1>4. /\ view \in [PageNums -> Pages] /\ p \in PageNums /\ root \in PageNums
      /\ work \in RealNodes
  BY WritingFacts
<1>5. CellsUnder(Ahead, root) = Goal(req, B)
  BY DEF CellState
<1>6. CASE ~Overfull(work)
  <2>1. view' = Ahead
    BY <1>2, <1>3, <1>6 DEF Ahead
  <2> QED
    BY <1>2, <1>3, <1>5, <1>6, <2>1
<1>7. CASE Overfull(work)
  <2>1. view' = [view EXCEPT ![p] = LeftHalf(work)]
    BY <1>2, <1>3, <1>7
  <2>2. Ahead[p] = work /\ view' = [Ahead EXCEPT ![p] = LeftHalf(Ahead[p])]
    BY <1>4, <2>1 DEF Ahead
  <2>3. PICK g \in [PageNums -> Nat] : Falling(Ahead, g)
    BY AheadFalls
  <2>4. PICK h \in [PageNums -> Nat] : Falling(view', h)
    BY ViewFallsThen
  <2>5. Ahead \in [PageNums -> Pages] /\ view' \in [PageNums -> Pages]
    BY AheadFalls, ViewFallsThen
  <2>6. Ahead[p] \in RealNodes /\ Overfull(Ahead[p])
    BY <1>4, <1>7, <2>2
  <2>7. \A q \in PageNums : CellsUnder(view', q) \subseteq CellsUnder(Ahead, q)
    <3> HIDE DEF p
    <3> QED
      BY <1>4, <2>2, <2>3, <2>4, <2>5, <2>6, HalfLost DEF p
  <2> QED
    BY <1>4, <1>5, <1>7, <2>1, <2>7
<1> QED
  BY <1>6, <1>7

\* A page that is not linked is written or handed out: this changes no cell.
LEMMA FreshCells ==
  ASSUME NEW known, NEW roots, TreeWith(known, roots), HasTree(known, roots)',
         NEW f \in PageNums, f \notin LinkedPages,
         \A q \in PageNums : q # f => view'[q] = view[q]
  PROVE  /\ \A q \in PageNums : q # f => CellsUnder(view', q) = CellsUnder(view, q)
         /\ CellsUnder(view', root) = CellsUnder(view, root)
         /\ \A node \in RealNodes : PointsInto(node, LinkedPages) =>
              CellsOf(view', node) = CellsOf(view, node)
<1>1. Inv
  BY DEF TreeWith
<1>2. NothingLeadsTo(f, view)
  BY <1>1, Unlinked
<1>3. PICK g \in [PageNums -> Nat] : Falling(view, g)
  BY ViewFalls
<1>4. PICK h \in [PageNums -> Nat] : Falling(view', h)
  BY ViewFallsThen
<1>5. view \in [PageNums -> Pages] /\ view' \in [PageNums -> Pages]
  BY ViewFalls, ViewFallsThen
<1>6. \A q \in PageNums : q # f => CellsUnder(view', q) = CellsUnder(view, q)
  BY <1>2, <1>3, <1>4, <1>5, CellsElsewhere
<1>7. CellsUnder(view', root) = CellsUnder(view, root)
  <2>1. CASE root = NoPage
    BY <2>1, NoCells
  <2>2. CASE root # NoPage
    <3>1. root \in PageNums /\ root # f
      BY <1>1, <2>2 DEF Inv, PathGood, LinkedPages, TypeOK, Store!TypeOK
    <3> QED
      BY <1>6, <3>1
  <2> QED
    BY <2>1, <2>2
<1>8. ASSUME NEW node \in RealNodes, PointsInto(node, LinkedPages)
      PROVE  CellsOf(view', node) = CellsOf(view, node)
  <2>1. \A i \in Ways(node) : Child(node, i) \in PageNums /\ Child(node, i) # f
    BY <1>1, <1>8, Unlinked, WaysFacts
  <2>2. \A i \in Ways(node) :
          CellsUnder(view', Child(node, i)) = CellsUnder(view, Child(node, i))
    BY <1>6, <2>1
  <2>3. CASE node.type = "internal"
    <3>1. \A c : c \in CellsOf(view', node) <=> c \in CellsOf(view, node)
      BY <2>2, <2>3, CellOf
    <3>2. node.type = "internal" => /\ CellsOf(view', node) \subseteq CellsOf(view, node)
                                    /\ CellsOf(view, node) \subseteq CellsOf(view', node)
      BY <3>1
    <3> QED
      BY <2>3, <3>2
  <2>4. CASE node.type # "internal"
    BY <2>4, CellOf
  <2> QED
    BY <2>3, <2>4
<1> QED
  BY <1>6, <1>7, <1>8

\* The left half of a split is written; what the right half will hold is lost
\* from the tree, and still in hand.
LEMMA WriteLeftCells ==
  ASSUME NEW known, NEW roots, TreeWith(known, roots), HasTree(known, roots)',
         NEW B, CellState(B), WriteLeft
  PROVE  CellState(B)' /\ UNCHANGED req
<1> DEFINE p == Last(path)
<1>1. /\ pc = "write" /\ Overfull(work) /\ Store!Write(Target, Image)
      /\ pc' = "alloc" /\ UNCHANGED <<root, req, path, work>>
  BY DEF WriteLeft, WritesImage
<1>2. req.op = "insert"
  BY <1>1 DEF CellState
<1>3. /\ view' = [view EXCEPT ![p] = LeftHalf(work)]
      /\ CellsUnder(view', root') \subseteq Goal(req, B)
  <2>1. view' = [view EXCEPT ![p] = IF Overfull(work) THEN LeftHalf(work) ELSE work]
    BY <1>1, WriteCells
  <2>2. CellsUnder(view', root') \subseteq Goal(req, B)
    BY <1>1, WriteCells
  <2> QED
    BY <1>1, <2>1, <2>2
<1>4. Ahead' = Ahead
  <2>1. view \in [PageNums -> Pages] /\ p \in PageNums
    BY <1>1, WritingFacts
  <2>2. [view' EXCEPT ![p] = work] = [view EXCEPT ![p] = work]
    BY <1>3, <2>1
  <2> QED
    BY <1>1, <2>2 DEF Ahead
<1>5. CellsUnder(Ahead', root') = Goal(req', B)
  BY <1>1, <1>4 DEF CellState
<1> QED
  BY <1>1, <1>2, <1>3, <1>5 DEF CellState

\* A page is handed out for the right half, or for a new root.
LEMMA AllocateCells ==
  ASSUME NEW known, NEW roots, TreeWith(known, roots), HasTree(known, roots)',
         NEW B, CellState(B), AllocateRight \/ AllocateRoot
  PROVE  CellState(B)' /\ UNCHANGED req
<1>1. PICK f \in Fresh : Allocates(f)
  BY DEF AllocateRight, AllocateRoot
<1>2. /\ f \in PageNums /\ f \notin LinkedPages
      /\ view' = [view EXCEPT ![f] = Zero]
  BY <1>1 DEF Allocates, Store!Alloc, LinkedPages
<1>3. /\ \A q \in PageNums : q # f => view'[q] = view[q]
      /\ view \in [PageNums -> Pages]
  BY <1>2 DEF TreeWith, Inv, TypeOK, Store!TypeOK
<1>4. CellsUnder(view', root) = CellsUnder(view, root)
  BY <1>2, <1>3, FreshCells
<1>5. CASE AllocateRight
  <2>1. /\ pc = "alloc" /\ pc' = "right" /\ UNCHANGED <<root, req, path, work>>
    BY <1>5 DEF AllocateRight
  <2>2. req.op = "insert" /\ CellsUnder(Ahead, root) = Goal(req, B)
    BY <2>1 DEF CellState
  <2>3. /\ Last(path) \in PageNums /\ Last(path) \in LinkedPages
        /\ root \in PageNums /\ root \in LinkedPages
        /\ work \in RealNodes /\ PointsInto(work, LinkedPages)
    BY <2>1, WritingFacts
  <2>4. \A q \in PageNums : q # f => Ahead'[q] = Ahead[q]
    <3>1. Ahead' = [view' EXCEPT ![Last(path)] = work]
      BY <2>1 DEF Ahead
    <3> QED
      BY <1>2, <1>3, <2>3, <3>1 DEF Ahead
  <2>5. NothingLeadsTo(f, Ahead)
    <3>1. NothingLeadsTo(f, view) /\ \A i \in Ways(work) : Child(work, i) # f
      BY <1>2, <2>3, Unlinked DEF TreeWith
    <3>2. \A q \in PageNums : Ahead[q] = IF q = Last(path) THEN work ELSE view[q]
      BY <1>3, <2>3 DEF Ahead
    <3> QED
      BY <3>1, <3>2 DEF NothingLeadsTo
  <2>6. PICK g \in [PageNums -> Nat] : Falling(Ahead, g)
    BY <2>1, AheadFalls
  <2>7. PICK h \in [PageNums -> Nat] : Falling(Ahead', h)
    BY <2>1, AheadFallsThen
  <2>8. Ahead \in [PageNums -> Pages] /\ Ahead' \in [PageNums -> Pages]
    BY <2>1, AheadFalls, AheadFallsThen
  <2>9. \A q \in PageNums : q # f => CellsUnder(Ahead', q) = CellsUnder(Ahead, q)
    BY <1>2, <2>4, <2>5, <2>6, <2>7, <2>8, CellsElsewhere
  <2>10. CellsUnder(Ahead', root') = Goal(req', B)
    BY <1>2, <2>1, <2>2, <2>3, <2>9
  <2>11. CellsUnder(view', root') \subseteq B \cup Goal(req', B)
    BY <1>4, <2>1 DEF CellState
  <2> QED
    BY <2>1, <2>2, <2>10, <2>11 DEF CellState
<1>6. CASE AllocateRoot
  <2>1. /\ pc = "rootalloc" /\ pc' = "root" /\ UNCHANGED <<root, req, path, work>>
    BY <1>6 DEF AllocateRoot
  <2>2. req.op = "insert" /\ CellsOf(view, work) = Goal(req, B)
    BY <2>1 DEF CellState
  <2>3. work \in RealNodes /\ PointsInto(work, LinkedPages)
    BY <2>1 DEF TreeWith, Inv, WorkGood
  <2>4. CellsOf(view', work) = CellsOf(view, work)
    BY <1>2, <1>3, <2>3, FreshCells
  <2>5. CellsOf(view', work') = Goal(req', B)
    BY <2>1, <2>2, <2>4
  <2>6. CellsUnder(view', root') \subseteq B \cup Goal(req', B)
    BY <1>4, <2>1 DEF CellState
  <2> QED
    BY <2>1, <2>2, <2>5, <2>6 DEF CellState
<1> QED
  BY <1>5, <1>6

\* No two pointers of the parent are the same, so that the separator goes where

\* the child that was split is.
LEMMA SlotOfChild ==
  ASSUME NEW node \in RealNodes, node.type = "internal",
         NEW i \in 1 .. Len(node.cells) + 1, NEW j \in 1 .. Len(node.cells) + 1,
         NEW k \in Keys, NEW r \in PageNums,
         NEW new, new = WithSplitChild(node, j, k, Child(node, i), r),
         \A a, b \in Ways(new) : Child(new, a) = Child(new, b) => a = b
  PROVE  i = j
<1> DEFINE n == Len(node.cells)
           l == Child(node, i)
<1>1. l \in PageNums /\ n \in Nat
  BY CellFacts, ChildFacts
<1>2. /\ new.type = "internal" /\ Len(new.cells) = n + 1
      /\ \A a \in 1 .. n + 2 :
           Child(new, a) = IF a < j THEN Child(node, a)
                           ELSE IF a = j THEN l
                           ELSE IF a = j + 1 THEN r ELSE Child(node, a - 1)
  BY <1>1, SplitShape
<1>3. Ways(new) = 1 .. n + 2
  <2>1. n + 1 + 1 = n + 2
    BY <1>1
  <2> QED
    BY <1>2, <2>1 DEF Ways
<1> HIDE DEF n, l
<1>a. i \in 1 .. n + 1 /\ j \in 1 .. n + 1 /\ l = Child(node, i)
  BY DEF n, l
<1>4. ASSUME i < j PROVE FALSE
  <2>1. i \in 1 .. n + 2 /\ j \in 1 .. n + 2 /\ Child(new, i) = l /\ Child(new, j) = l
    BY <1>1, <1>2, <1>4, <1>a
  <2> QED
    BY <1>1, <1>3, <1>4, <1>a, <2>1
<1>5. ASSUME j < i PROVE FALSE
  <2>1. i + 1 \in 1 .. n + 2 /\ j \in 1 .. n + 2 /\ j < i + 1
        /\ i + 1 # j + 1 /\ i + 1 - 1 = i /\ ~(i + 1 < j) /\ i + 1 # j
    BY <1>1, <1>5, <1>a
  <2>2. Child(new, i + 1) = l /\ Child(new, j) = l
    BY <1>1, <1>2, <1>a, <2>1
  <2> QED
    BY <1>1, <1>3, <1>a, <2>1, <2>2
<1> QED
  BY <1>1, <1>4, <1>5, <1>a

\* The right half is written on the page that was handed out; what is in hand
\* is now the parent of the two halves, or a new root over them.
LEMMA WriteRightCells ==
  ASSUME NEW known, NEW roots, TreeWith(known, roots), HasTree(known, roots)',
         NEW B, CellState(B), WriteRight, pc' # "panic"
  PROVE  CellState(B)' /\ UNCHANGED req
<1> DEFINE l == Len(path)
           p == Last(path)
           q == path[l - 1]
           f == fresh
           parent == view[q]
           k == PromotedKey(work)
           m == Ahead
           n == Ahead'
<1>1. /\ pc = "right" /\ l > 1 /\ Store!Write(Target, Image) /\ UNCHANGED <<root, req>>
      /\ pc' = "write" /\ path' = Front(path)
      /\ \E j \in Slots(parent.cells, k) : work' = WithSplitChild(parent, j, k, p, f)
  BY DEF WriteRight, WritesImage
<1>2. /\ req.op = "insert" /\ CellsUnder(m, root) = Goal(req, B)
      /\ CellsUnder(view, root) \subseteq B \cup Goal(req, B)
  BY <1>1 DEF CellState
<1>3. PICK T, tops \in SUBSET PageNums,
           h \in [PageNums -> Nat], under \in [PageNums -> SUBSET Int] :
        TreeState(view, owned, root, pc, req, path, work, T, tops, h, under)
  BY DEF TreeWith, HasTree
<1>4. /\ f \in PageNums /\ f \notin T /\ k \in Keys
      /\ DownFrom(root, path, view, T, h) /\ Tree(m, T, h, under, tops)
      /\ view' = [view EXCEPT ![f] = RightHalf(work)] /\ view[p] = LeftHalf(work)
      /\ p \in T /\ Tree(view, T, h, under, tops)
  <2>1. Inv /\ pc = "right" /\ Store!Write(Target, Image)
    BY <1>1 DEF TreeWith
  <2>2. f \in PageNums /\ f \notin T /\ k \in Keys
    BY <1>3, <2>1, RightHalfPage, RightHalfKey
  <2>3. DownFrom(root, path, view, T, h) /\ Tree(m, T, h, under, tops)
    BY <1>3, <2>1, RightHalfBefore DEF Ahead
  <2>4. view' = [view EXCEPT ![f] = RightHalf(work)]
    BY <1>3, <2>1, RightHalfImages
  <2>6. view[p] = LeftHalf(work)
    BY <1>3, <2>1, RightHalfImages
  <2>7. p \in T
    <3>1. Tree(view, T, h, under, tops)
      BY <1>3 DEF TreeState
    <3> QED
      BY <2>3, <3>1, LastPage
  <2>5. Tree(view, T, h, under, tops)
    BY <1>3 DEF TreeState
  <2> QED
    BY <2>2, <2>3, <2>4, <2>5, <2>6, <2>7
<1>5. /\ path \in Seq(PageNums) /\ l \in Nat /\ l - 1 \in 1 .. l - 1 /\ l - 1 \in 1 .. l
      /\ l - 1 + 1 = l /\ p = path[l] /\ 1 \in 1 .. l - 1 /\ Inv /\ path # <<>>
  BY <1>1, LenProperties DEF TreeWith, Inv, TypeOK, Last
<1>6. /\ path[1] = root /\ q \in T /\ root \in T
      /\ \E i \in Ways(view[q]) : path[l] = Child(view[q], i)
  <2>1. path[1] = root /\ \A j \in 1 .. l : path[j] \in T
    BY <1>4 DEF DownFrom
  <2>2. \A j \in 1 .. l - 1 : \E i \in Ways(view[path[j]]) :
          path[j + 1] = Child(view[path[j]], i)
    BY <1>4 DEF DownFrom
  <2>3. \E i \in Ways(view[path[l - 1]]) : path[l - 1 + 1] = Child(view[path[l - 1]], i)
    BY <1>5, <2>2
  <2>4. 1 \in 1 .. l
    BY <1>5
  <2> QED
    BY <1>5, <2>1, <2>3, <2>4
<1>7. q # p /\ root # p
  BY <1>4, <1>5, <1>6, PathKept
<1>8. PICK i \in Ways(parent) : p = Child(parent, i)
  BY <1>5, <1>6
<1>9. /\ view \in [PageNums -> Pages] /\ q \in PageNums /\ p \in PageNums /\ q # f /\ p # f
      /\ root \in PageNums /\ root # f /\ work \in RealNodes
      /\ Overfull(work) /\ f \notin LinkedPages
  <2>1. view \in [PageNums -> Pages] /\ root \in PageNums /\ work \in RealNodes
    BY <1>1, WritingFacts
  <2>2. Overfull(work) /\ f \notin LinkedPages
    BY <1>1 DEF TreeWith, Inv, WorkGood, LinkedPages
  <2> QED
    BY <1>4, <1>6, <2>1, <2>2
<1> HIDE DEF q, p, f, k, parent, m
<1>10. m[p] = work /\ m[q] = parent /\ \A s \in PageNums : s # p => m[s] = view[s]
  BY <1>7, <1>9 DEF m, Ahead, p, q, parent
<1>11. q = Last(path')
  <2>1. /\ Len(path') = l - 1 /\ \A j \in 1 .. l - 1 : path'[j] = path[j]
    BY <1>1, <1>5, FrontFacts
  <2> QED
    BY <1>5, <2>1 DEF Last, q
<1>12. \A s \in PageNums : n[s] = IF s = q THEN work' ELSE IF s = f THEN RightHalf(work)
                                  ELSE view[s]
  <2>1. n = [view' EXCEPT ![q] = work']
    BY <1>11 DEF Ahead
  <2> QED
    BY <1>4, <1>9, <2>1
<1>13. parent \in RealNodes /\ parent.type = "internal" /\ i \in 1 .. Len(parent.cells) + 1
  <2>1. parent \in RealNodes
    BY <1>4, <1>6, TreeNode DEF parent
  <2> QED
    BY <1>8, <2>1, WaysFacts DEF Ways
<1>14. work' = WithSplitChild(parent, i, k, p, f)
  <2>1. PICK j \in Slots(parent.cells, k) : work' = WithSplitChild(parent, j, k, p, f)
    BY <1>1 DEF parent, k, p, f, q
  <2>2. j \in 1 .. Len(parent.cells) + 1
    BY DEF Slots
  <2>3. \A a, b \in Ways(work') : Child(work', a) = Child(work', b) => a = b
    <3>1. PICK U, tops2 \in SUBSET PageNums,
               g \in [PageNums -> Nat], under2 \in [PageNums -> SUBSET Int] :
            TreeState(view', owned', root', pc', req', path', work', U, tops2, g, under2)
      BY DEF HasTree
    <3>2. /\ Tree(n, U, g, under2, tops2) /\ DownFrom(root', path', view', U, g)
          /\ Tree(view', U, g, under2, tops2)
      BY <1>1, <3>1 DEF TreeState, Ahead
    <3>3. q \in U
      BY <1>11, <3>2, LastPage
    <3>4. n[q] = work' /\ OneWayIn(n, U)
      BY <1>9, <1>12, <3>2 DEF Tree
    <3> HIDE DEF n
    <3> QED
      BY <3>3, <3>4 DEF OneWayIn
  <2>4. i = j
    BY <1>4, <1>8, <1>13, <2>1, <2>2, <2>3, SlotOfChild
  <2> QED
    BY <2>1, <2>4
<1>15. PICK g \in [PageNums -> Nat] : Falling(n, g)
  BY <1>1, AheadFallsThen
<1>16. n \in [PageNums -> Pages]
  BY <1>1, AheadFallsThen
<1>17. /\ n[p] = LeftHalf(m[p]) /\ n[f] = RightHalf(m[p])
       /\ n[q] = WithSplitChild(m[q], i, k, p, f)
       /\ \A s \in T \ {p, q} : n[s] = m[s]
  <2>1. n[p] = LeftHalf(m[p]) /\ n[f] = RightHalf(m[p])
    BY <1>4, <1>7, <1>9, <1>10, <1>12
  <2>2. n[q] = WithSplitChild(m[q], i, k, p, f)
    BY <1>9, <1>10, <1>12, <1>14
  <2>3. ASSUME NEW s \in T \ {p, q} PROVE n[s] = m[s]
    BY <1>4, <1>10, <1>12
  <2> QED
    BY <2>1, <2>2, <2>3
<1> HIDE DEF n
<1>18. \A s \in T \ {p} : CellsUnder(n, s) = CellsUnder(m, s)
  <2>1. Tree(m, T, h, under, tops) /\ p \in T /\ Overfull(m[p]) /\ f \in PageNums \ T
    BY <1>4, <1>9, <1>10
  <2>2. q \in T /\ i \in Ways(m[q]) /\ p = Child(m[q], i) /\ k \in Keys
    BY <1>4, <1>6, <1>8, <1>10
  <2>3. PICK M, N : M = m /\ N = n
    OBVIOUS
  <2>4. /\ Tree(M, T, h, under, tops) /\ Overfull(M[p]) /\ i \in Ways(M[q])
        /\ p = Child(M[q], i)
    BY <2>1, <2>2, <2>3
  <2>5. N \in [PageNums -> Pages] /\ Falling(N, g)
    BY <1>15, <1>16, <2>3
  <2>6. /\ N[p] = LeftHalf(M[p]) /\ N[f] = RightHalf(M[p])
        /\ N[q] = WithSplitChild(M[q], i, k, p, f)
        /\ \A s \in T \ {p, q} : N[s] = M[s]
    BY <1>17, <2>3
  <2>7. \A s \in T \ {p} : CellsUnder(N, s) = CellsUnder(M, s)
    BY <2>1, <2>2, <2>4, <2>5, <2>6, AdoptedCells, SMTT(30)
  <2> QED
    BY <2>3, <2>7
<1>19. CellsUnder(n, root') = Goal(req', B)
  BY <1>1, <1>2, <1>6, <1>7, <1>18 DEF m
<1>20. CellsUnder(view', root') \subseteq B \cup Goal(req', B)
  <2>1. \A s \in PageNums : s # f => view'[s] = view[s]
    BY <1>4, <1>9
  <2>2. CellsUnder(view', root) = CellsUnder(view, root)
    BY <1>4, <1>9, <2>1, FreshCells
  <2> QED
    BY <1>1, <1>2, <2>2
<1> QED
  BY <1>1, <1>2, <1>19, <1>20 DEF CellState, n

\* The root has split.
LEMMA WriteRightOfRootCells ==
  ASSUME NEW known, NEW roots, TreeWith(known, roots), HasTree(known, roots)',
         NEW B, CellState(B), WriteRightOfRoot
  PROVE  CellState(B)' /\ UNCHANGED req
<1> DEFINE p == Last(path)
           f == fresh
           k == PromotedKey(work)
           m == Ahead
<1>1. /\ pc = "right" /\ Len(path) = 1 /\ Store!Write(Target, Image)
      /\ UNCHANGED <<root, req>> /\ pc' = "rootalloc"
      /\ work' = Internal(<<[child |-> p, key |-> k]>>, f)
  BY DEF WriteRightOfRoot, WritesImage
<1>2. /\ req.op = "insert" /\ CellsUnder(m, root) = Goal(req, B)
      /\ CellsUnder(view, root) \subseteq B \cup Goal(req, B)
  BY <1>1 DEF CellState
<1>3. PICK T, tops \in SUBSET PageNums,
           h \in [PageNums -> Nat], under \in [PageNums -> SUBSET Int] :
        TreeState(view, owned, root, pc, req, path, work, T, tops, h, under)
  BY DEF TreeWith, HasTree
<1>4. /\ f \in PageNums /\ f \notin T /\ k \in Keys
      /\ DownFrom(root, path, view, T, h) /\ Tree(m, T, h, under, tops)
      /\ view' = [view EXCEPT ![f] = RightHalf(work)] /\ view[p] = LeftHalf(work)
      /\ p \in T
  <2>1. Inv /\ pc = "right" /\ Store!Write(Target, Image)
    BY <1>1 DEF TreeWith
  <2>2. f \in PageNums /\ f \notin T /\ k \in Keys
    BY <1>3, <2>1, RightHalfPage, RightHalfKey
  <2>3. DownFrom(root, path, view, T, h) /\ Tree(m, T, h, under, tops)
    BY <1>3, <2>1, RightHalfBefore DEF Ahead
  <2>4. view' = [view EXCEPT ![f] = RightHalf(work)]
    BY <1>3, <2>1, RightHalfImages
  <2>6. view[p] = LeftHalf(work)
    BY <1>3, <2>1, RightHalfImages
  <2>7. p \in T
    <3>1. Tree(view, T, h, under, tops)
      BY <1>3 DEF TreeState
    <3> QED
      BY <2>3, <3>1, LastPage
  <2> QED
    BY <2>2, <2>3, <2>4, <2>6, <2>7
<1>5. p = root
  BY <1>1, <1>4 DEF DownFrom, Last
<1>6. /\ view \in [PageNums -> Pages] /\ p \in PageNums /\ p # f
      /\ work \in RealNodes /\ Overfull(work) /\ f \notin LinkedPages
  <2>1. view \in [PageNums -> Pages] /\ work \in RealNodes
    BY <1>1, WritingFacts
  <2>2. Overfull(work) /\ f \notin LinkedPages
    BY <1>1 DEF TreeWith, Inv, WorkGood, LinkedPages
  <2> QED
    BY <1>4, <2>1, <2>2
<1> HIDE DEF p, f, k, m
<1>7. m[p] = work /\ \A s \in PageNums : s # p => m[s] = view[s]
  BY <1>6 DEF m, Ahead, p
<1>8. PICK g \in [PageNums -> Nat] : Falling(view', g)
  BY ViewFallsThen
<1>9. view' \in [PageNums -> Pages]
  BY ViewFallsThen
<1>10. /\ view'[p] = LeftHalf(m[p]) /\ view'[f] = RightHalf(m[p])
       /\ \A s \in T : s # p /\ h[s] <= h[p] => view'[s] = m[s]
  <2>1. \A s \in T : s \in PageNums /\ s # f
    BY <1>4
  <2> QED
    BY <1>4, <1>6, <1>7, <2>1
<1>11. \A c : c \in CellsUnder(m, p) <=>
                c \in CellsUnder(view', p) \/ c \in CellsUnder(view', f)
  <2>1. Tree(m, T, h, under, tops) /\ p \in T /\ Overfull(m[p]) /\ f \in PageNums \ T
    BY <1>4, <1>6, <1>7
  <2> QED
    BY <1>8, <1>9, <1>10, <2>1, SplitCells
<1>12. /\ work' \in RealNodes /\ work'.type = "internal" /\ Ways(work') = {1, 2}
       /\ Child(work', 1) = p /\ Child(work', 2) = f
  BY <1>1, <1>4, <1>6, RootShape DEF p, f, k
<1>13. \A c : c \in CellsOf(view', work') <=>
                c \in CellsUnder(view', p) \/ c \in CellsUnder(view', f)
  <2>1. \A c : c \in CellsOf(view', work') <=>
                 \E i \in Ways(work') : c \in CellsUnder(view', Child(work', i))
    BY <1>12, CellOf
  <2> QED
    BY <1>12, <2>1
<1>14. CellsOf(view', work') = Goal(req', B)
  <2>1. CellsOf(view', work') \subseteq CellsUnder(m, p)
    BY <1>11, <1>13
  <2>2. CellsUnder(m, p) \subseteq CellsOf(view', work')
    BY <1>11, <1>13
  <2> QED
    BY <1>1, <1>2, <1>5, <2>1, <2>2
<1>15. CellsUnder(view', root') \subseteq B \cup Goal(req', B)
  <2>1. \A s \in PageNums : s # f => view'[s] = view[s]
    BY <1>4, <1>6
  <2>2. CellsUnder(view', root) = CellsUnder(view, root)
    BY <1>4, <1>6, <2>1, FreshCells
  <2> QED
    BY <1>1, <1>2, <2>2
<1> QED
  BY <1>1, <1>2, <1>14, <1>15 DEF CellState

\* The write that ends an insert or a delete.
LEMMA WriteWholeCells ==
  ASSUME NEW known, NEW roots, TreeWith(known, roots), HasTree(known, roots)',
         NEW B, CellState(B), WriteWhole
  PROVE  Answer(req, B, CellsUnder(view', root'), res')
<1>1. /\ pc = "write" /\ ~Overfull(work) /\ Store!Write(Target, Image) /\ UNCHANGED root
      /\ res' = [status |-> "ok", rows |-> <<>>]
  BY DEF WriteWhole, WritesImage, Return
<1>2. CellsUnder(view', root') = Goal(req, B)
  BY <1>1, WriteCells
<1>3. req.op = "insert" \/ (req.op = "delete" /\ \E c \in B : c.key = req.key)
  BY <1>1 DEF CellState
<1>4. res'.status = "ok" /\ res'.rows = <<>>
  BY <1>1
<1> QED
  BY <1>2, <1>3, <1>4 DEF Answer

\* The page that was handed out last, while it is not yet written.
LEMMA FreshPage ==
  ASSUME NEW known, NEW roots, TreeWith(known, roots), pc \in {"right", "root"},
         Store!Write(Target, Image) \/ Store!WriteFails(Target, Image)
  PROVE  /\ fresh \in PageNums /\ fresh \notin LinkedPages
         /\ view' = [view EXCEPT ![fresh] = Image]
         /\ \A q \in PageNums : q # fresh => view'[q] = view[q]
<1>1. Inv /\ Target = fresh
  BY DEF TreeWith, Target
<1>2. fresh \in PageNums /\ fresh \notin LinkedPages /\ view \in [PageNums -> Pages]
  BY <1>1 DEF Inv, WorkGood, TypeOK, Store!TypeOK, LinkedPages
<1>3. view' = [view EXCEPT ![fresh] = Image]
  BY <1>1, PageWritten
<1> QED
  BY <1>2, <1>3

\* A root is written: with nothing under it, or with what was in hand.
LEMMA WriteRootCells ==
  ASSUME NEW known, NEW roots, TreeWith(known, roots), HasTree(known, roots)',
         NEW B, CellState(B), WriteRoot
  PROVE  Answer(req, B, CellsUnder(view', root'), res')
<1>1. /\ pc = "root" /\ Store!Write(Target, Image) /\ root' = fresh
      /\ res' = [status |-> "ok", rows |-> <<>>] /\ Image = work
  BY DEF WriteRoot, WritesImage, Return, Image
<1>2. CellsOf(view, work) = Goal(req, B)
  BY <1>1 DEF CellState
<1>3. /\ fresh \in PageNums /\ fresh \notin LinkedPages
      /\ view' = [view EXCEPT ![fresh] = work]
      /\ \A q \in PageNums : q # fresh => view'[q] = view[q]
  BY <1>1, FreshPage
<1>4. view \in [PageNums -> Pages] /\ work \in RealNodes /\ PointsInto(work, LinkedPages)
  BY <1>1 DEF TreeWith, Inv, WorkGood, TypeOK, Store!TypeOK
<1>5. CellsOf(view', work) = CellsOf(view, work)
  BY <1>3, <1>4, FreshCells
<1>6. CellsUnder(view', fresh) = CellsOf(view', work)
  <2>1. PICK h \in [PageNums -> Nat] : Falling(view', h)
    BY ViewFallsThen
  <2>2. view' \in [PageNums -> Pages]
    BY ViewFallsThen
  <2>3. CellsUnder(view', fresh) = CellsOf(view', view'[fresh])
    BY <1>3, <2>1, <2>2, CellsUnderFacts
  <2> QED
    BY <1>3, <1>4, <2>3
<1>7. CellsUnder(view', root') = Goal(req, B)
  BY <1>1, <1>2, <1>5, <1>6
<1>8. req.op = "insert" \/ (req.op = "new" /\ root = NoPage)
  BY <1>1 DEF CellState
<1>9. req.op = "new" => B = {}
  BY <1>8, NoCells DEF CellState
<1>10. res'.status = "ok" /\ res'.rows = <<>>
  BY <1>1
<1> QED
  BY <1>7, <1>8, <1>9, <1>10 DEF Answer

\* A write fails: only an insert can have lost cells.
LEMMA WriteFailsCells ==
  ASSUME NEW known, NEW roots, TreeWith(known, roots), HasTree(known, roots)',
         NEW B, CellState(B), WriteFails
  PROVE  \/ Answer(req, B, CellsUnder(view', root'), res')
         \/ Loss(req, B, CellsUnder(view', root'), res')
<1>1. /\ pc \in {"write", "right", "root"} /\ Store!WriteFails(Target, Image)
      /\ UNCHANGED root /\ res' = [status |-> "error", rows |-> <<>>]
  BY DEF WriteFails, Return
<1>2. CASE pc = "write"
  <2>1. CASE ~Overfull(work)
    <3>1. CellsUnder(view', root') = Goal(req, B)
      BY <1>1, <1>2, <2>1, WriteCells
    <3> QED
      BY <1>1, <3>1 DEF Answer
  <2>2. CASE Overfull(work)
    <3>1. CellsUnder(view', root') \subseteq Goal(req, B)
      BY <1>1, <1>2, <2>2, WriteCells
    <3>2. req.op = "insert"
      BY <1>2, <2>2 DEF CellState
    <3> QED
      BY <1>1, <3>1, <3>2 DEF Loss
  <2> QED
    BY <2>1, <2>2
<1>3. CASE pc \in {"right", "root"}
  <2>1. /\ fresh \in PageNums /\ fresh \notin LinkedPages
        /\ \A q \in PageNums : q # fresh => view'[q] = view[q]
    BY <1>1, <1>3, FreshPage
  <2>2. CellsUnder(view', root) = CellsUnder(view, root)
    BY <2>1, FreshCells
  <2>3. CASE req.op = "insert"
    <3>1. CellsUnder(view', root') \subseteq B \cup Goal(req, B)
      BY <1>1, <2>2 DEF CellState
    <3> QED
      BY <1>1, <2>3, <3>1 DEF Loss
  <2>4. CASE req.op # "insert"
    <3>1. CellsUnder(view', root') = B
      BY <1>1, <2>2, <2>4 DEF CellState
    <3> QED
      BY <1>1, <3>1 DEF Answer
  <2> QED
    BY <2>3, <2>4
<1> QED
  BY <1>1, <1>2, <1>3

\* No page is left for a split.
LEMMA AllocateFailsCells ==
  ASSUME NEW B, CellState(B), AllocateFails
  PROVE  \/ Answer(req, B, CellsUnder(view', root'), res')
         \/ Loss(req, B, CellsUnder(view', root'), res')
<1>1. /\ UNCHANGED <<view, root>> /\ res' = [status |-> "error", rows |-> <<>>]
  BY DEF AllocateFails, Return
<1>2. CellsUnder(view', root') \subseteq B \cup Goal(req, B)
  BY <1>1 DEF CellState
<1>3. pc \in {"alloc", "rootalloc"}
  BY DEF AllocateFails
<1>4. req.op = "insert"
  BY <1>3 DEF CellState
<1> QED
  BY <1>1, <1>2, <1>4 DEF Loss

\* A read fails, on the way down or in a scan: nothing has been written yet.
LEMMA ReadFailsCells ==
  ASSUME NEW B, CellState(B), ReadFails
  PROVE  Answer(req, B, CellsUnder(view', root'), res')
<1>1. /\ pc \in {"descend", "scan"} /\ UNCHANGED <<view, root>>
      /\ res' = [status |-> "error", rows |-> <<>>]
  BY DEF ReadFails, Return
<1>2. CellsUnder(view', root') = B
  BY <1>1 DEF CellState
<1> QED
  BY <1>1, <1>2 DEF Answer

\* NewBTree begins.
LEMMA NewBTreeCells ==
  ASSUME NewBTree
  PROVE  CellState({})' /\ CellsUnder(view, root) = {}
<1>1. /\ root = NoPage /\ root' = NoPage /\ pc' = "root" /\ req' = NewRequest
      /\ work' = Leaf(<<>>)
  BY DEF NewBTree
<1>2. CellsUnder(view, root) = {} /\ CellsUnder(view', root') = {}
  BY <1>1, NoCells
<1>3. CellsOf(view', work') = {}
  BY <1>1 DEF CellsOf, Leaf, Range
<1>4. req'.op = "new" /\ Goal(req', {}) = {}
  BY <1>1 DEF NewRequest, Goal
<1> QED
  BY <1>1, <1>2, <1>3, <1>4 DEF CellState

\* A call begins.
LEMMA CallCells ==
  ASSUME NEW r \in Requests, Call(r), NEW B, CellsUnder(view, root) = B
  PROVE  CellState(B)'
<1>1. /\ view' = view /\ root' = root /\ req' = r
      /\ pc' = IF r.op = "scan" THEN "scan" ELSE "descend"
  BY DEF Call
<1>2. CellsUnder(view', root') = B
  BY <1>1
<1>3. pc' = "scan" => req'.op = "scan"
  BY <1>1
<1>4. pc' \in {"scan", "descend"}
  BY <1>1
<1> QED
  BY <1>2, <1>3, <1>4 DEF CellState

\* What a call does on the way down or across writes nothing.
LEMMA ReadingCells ==
  ASSUME NEW B, CellState(B), DescendInternal \/ ScanLeaf \/ ScanInternal
  PROVE  CellState(B)' /\ UNCHANGED req
<1>1. UNCHANGED <<view, root, pc, req>> /\ pc \in {"descend", "scan"}
  BY DEF DescendInternal, ScanLeaf, ScanInternal
<1> QED
  BY <1>1 DEF CellState

\* The pages still to visit are of the tree, which is not written meanwhile.
Scanning(B) ==
  pc = "scan" => HasTree(Range(path), {}) /\ ScanList(view, res.rows, path, B)

\* A scan begins at the root.
LEMMA CallScans ==
  ASSUME TreeInv, NEW r \in Requests, Call(r), NEW B, CellsUnder(view, root) = B
  PROVE  Scanning(B)'
<1>1. /\ UNCHANGED <<view, owned, root>> /\ root # NoPage /\ path' = <<root>>
      /\ res' = NoResult /\ (pc' = "scan" \/ pc' # "scan")
  BY DEF Call
<1> SUFFICES ASSUME pc' = "scan"
             PROVE  HasTree(Range(path), {})' /\ ScanList(view', res'.rows, path', B)
  BY DEF Scanning
<1>2. PICK T, tops \in SUBSET PageNums,
           h \in [PageNums -> Nat], under \in [PageNums -> SUBSET Int] :
        TreeState(view, owned, root, pc, req, path, work, T, tops, h, under)
  BY DEF TreeInv, TreeWith, HasTree
<1>3. root \in T
  BY <1>1, <1>2 DEF TreeState
<1>4. TreeState(view', owned', root', pc', req', path', work', T, tops, h, under)
  BY <1>1, <1>2 DEF TreeState
<1>5. Range(path') = {root}
  BY <1>1 DEF Range
<1>6. HasTree(Range(path), {})'
  BY <1>3, <1>4, <1>5 DEF HasTree
<1>7. ScanList(view, <<>>, <<root>>, CellsUnder(view, root))
  BY ScanStarts
<1>8. res'.rows = <<>>
  BY <1>1 DEF NoResult
<1> QED
  BY <1>1, <1>6, <1>7, <1>8

\* The first page still to visit is of the tree.
LEMMA ScanHead ==
  ASSUME TreeInv, NEW B, Scanning(B), pc = "scan", path # <<>>
  PROVE  \E T, tops \in SUBSET PageNums,
            h \in [PageNums -> Nat], under \in [PageNums -> SUBSET Int] :
           /\ Range(path) \subseteq T /\ Head(path) \in T /\ path \in Seq(PageNums)
           /\ Tree(view, T, h, under, tops) /\ T \subseteq owned /\ tops \subseteq T
           /\ root = NoPage \/ root \in tops
<1>1. PICK T, tops \in SUBSET PageNums,
           h \in [PageNums -> Nat], under \in [PageNums -> SUBSET Int] :
        /\ Range(path) \subseteq T
        /\ TreeState(view, owned, root, pc, req, path, work, T, tops, h, under)
  BY DEF Scanning, HasTree
<1>2. path \in Seq(PageNums)
  BY DEF TreeInv, TreeWith, Inv, TypeOK
<1>3. 1 \in DOMAIN path /\ Head(path) = path[1]
  BY <1>2, EmptySeq
<1>4. Head(path) \in Range(path)
  BY <1>3 DEF Range
<1> QED
  BY <1>1, <1>2, <1>4 DEF TreeState

\* Each page is visited in its turn.
LEMMA ScanGoesOn ==
  ASSUME TreeInv, NEW B, Scanning(B), ScanLeaf \/ ScanInternal
  PROVE  Scanning(B)'
<1>1. /\ pc = "scan" /\ pc' = "scan" /\ path # <<>> /\ UNCHANGED <<view, owned, root>>
      /\ ScanList(view, res.rows, path, B)
  BY DEF ScanLeaf, ScanInternal, Scanning
<1>2. PICK T, tops \in SUBSET PageNums,
           h \in [PageNums -> Nat], under \in [PageNums -> SUBSET Int] :
        /\ Range(path) \subseteq T /\ Head(path) \in T /\ path \in Seq(PageNums)
        /\ Tree(view, T, h, under, tops) /\ T \subseteq owned /\ tops \subseteq T
        /\ root = NoPage \/ root \in tops
  BY <1>1, ScanHead
<1>3. /\ view \in [PageNums -> Pages] /\ h \in [PageNums -> Nat] /\ Falling(view, h)
  BY <1>2, TreeFalls
<1> DEFINE node == view[Head(path)]
<1>4. node \in RealNodes /\ Ascending(node.cells) /\ \A i \in Ways(node) : Child(node, i) \in T
  <2>1. PICK top \in T : top = Head(path)
    BY <1>2
  <2>2. Tree(view, T, h, under, tops)
    BY <1>2
  <2>3. /\ view[top] \in RealNodes /\ Sorted(view[top], under[top], under)
        /\ \A i \in Ways(view[top]) : Child(view[top], i) \in T \ tops
    BY <2>2, TreeNode
  <2> QED
    BY <2>1, <2>3 DEF Sorted
<1>5. Tail(path) \in Seq(PageNums) /\ Range(Tail(path)) \subseteq T
  <2>1. /\ Tail(path) \in Seq(PageNums) /\ Len(Tail(path)) = Len(path) - 1
        /\ \A i \in 1 .. Len(Tail(path)) : Tail(path)[i] = path[i + 1]
    BY <1>1, <1>2, HeadTailProperties
  <2>2. ASSUME NEW i \in DOMAIN Tail(path) PROVE Tail(path)[i] \in T
    <3>1. i \in 1 .. Len(Tail(path)) /\ i + 1 \in DOMAIN path
      BY <1>2, <2>1
    <3> QED
      BY <1>2, <2>1, <3>1 DEF Range
  <2> QED
    BY <2>1, <2>2 DEF Range
<1>6. Range(path') \subseteq T /\ ScanList(view', res'.rows, path', B)
  <2>1. CASE ScanLeaf
    <3>1. /\ node.type = "leaf" /\ res' = [res EXCEPT !.rows = @ \o node.cells]
          /\ path' = Tail(path)
      BY <2>1 DEF ScanLeaf
    <3>2. res'.rows = res.rows \o node.cells
      BY <3>1 DEF TreeInv, TreeWith, Inv, TypeOK
    <3>3. node.cells \in Seq(LeafCells)
      BY <1>4, <3>1, CellFacts
    <3>4. ScanList(view, res.rows \o node.cells, Tail(path), B)
      BY <1>1, <1>2, <1>3, <1>4, <3>1, <3>3, ScanReads
    <3> QED
      BY <1>1, <1>5, <3>1, <3>2, <3>4
  <2>2. CASE ScanInternal
    <3> DEFINE front == [i \in 1 .. Len(node.cells) + 1 |-> Child(node, i)]
    <3>1. node.type = "internal" /\ path' = front \o Tail(path) /\ UNCHANGED res
      BY <2>2 DEF ScanInternal
    <3>2. ScanList(view, res.rows, front \o Tail(path), B)
      BY <1>1, <1>2, <3>1, ScanOpens
    <3>3. Range(front) \subseteq T /\ front \in Seq(T)
      <4>1. \A i \in 1 .. Len(node.cells) + 1 : Child(node, i) \in T
        BY <1>4, <3>1 DEF Ways
      <4>2. Len(node.cells) + 1 \in Nat
        BY <1>4, CellFacts
      <4> HIDE DEF node
      <4>3. front \in Seq(T)
        BY <4>1, <4>2
      <4> QED
        BY <4>1, <4>3 DEF Range
    <3>4. Range(front \o Tail(path)) = Range(front) \cup Range(Tail(path))
      <4>1. front \in Seq(PageNums)
        <5>1. T \subseteq PageNums
          OBVIOUS
        <5> HIDE DEF front
        <5> QED
          BY <3>3, <5>1
      <4>2. PICK rest \in Seq(PageNums) : rest = Tail(path)
        BY <1>5
      <4> HIDE DEF front
      <4>3. Range(front \o rest) = Range(front) \cup Range(rest)
        BY <4>1, ConcatRange
      <4> QED
        BY <4>2, <4>3
    <3> QED
      BY <1>1, <1>5, <3>1, <3>2, <3>3, <3>4
  <2> QED
    BY <2>1, <2>2
<1>7. TreeState(view', owned', root', pc', req', path', work', T, tops, h, under)
  BY <1>1, <1>2 DEF TreeState
<1>8. HasTree(Range(path), {})'
  BY <1>6, <1>7 DEF HasTree
<1> QED
  BY <1>6, <1>8 DEF Scanning

\* Scan answers with all the rows of the tree, in order.
LEMMA ScanAnswers ==
  ASSUME NEW B, CellState(B), Scanning(B), ScanReturns
  PROVE  Answer(req, B, CellsUnder(view', root'), res')
<1>1. /\ pc = "scan" /\ path = <<>> /\ UNCHANGED <<view, root>>
      /\ res'.status = "ok" /\ res'.rows = res.rows
  BY DEF ScanReturns, Return
<1>2. CellsUnder(view', root') = B /\ req.op = "scan"
  BY <1>1 DEF CellState
<1>3. ScanList(view, res.rows, <<>>, B)
  BY <1>1 DEF Scanning
<1>4. res.rows \in Seq(LeafCells) /\ Ascending(res.rows) /\ Range(res.rows) = B
  BY <1>3, ScanEnds
<1>5. Goal(req, B) = B
  BY <1>2 DEF Goal
<1> QED
  BY <1>1, <1>2, <1>4, <1>5 DEF Answer
----------------------------------------------------------------------------
\* What a call comes to

\* One pager call of a call that found the cells B: it goes on, it ends the
\* process, or it returns with an answer.
CallGoesOn(B) ==
  /\ pc' \notin {"idle", "panic"} /\ UNCHANGED req
  /\ CellState(B)' /\ Scanning(B)'

CallReturns(B) ==
  /\ pc' = "idle" /\ req' = NoRequest
  /\ \/ Answer(req, B, CellsUnder(view', root'), res')
     \/ /\ WriteFails \/ AllocateFails
        /\ Loss(req, B, CellsUnder(view', root'), res')

\* Every step of a call is one of these.
LEMMA CallStepsOn ==
  ASSUME TreeInv, HasTree({}, {})', NEW B, CellState(B), Scanning(B), Proceed
  PROVE  CallGoesOn(B) \/ (pc' = "panic" /\ UNCHANGED req) \/ CallReturns(B)
<1>0. TreeWith({}, {})
  BY DEF TreeInv
<1>1. CASE ScanLeaf \/ ScanInternal
  <2>1. CellState(B)' /\ UNCHANGED req
    BY <1>1, ReadingCells
  <2>2. Scanning(B)'
    BY <1>1, ScanGoesOn
  <2>3. pc' = "scan"
    BY <1>1 DEF ScanLeaf, ScanInternal
  <2> QED
    BY <2>1, <2>2, <2>3 DEF CallGoesOn
<1>2. CASE DescendInternal
  <2>1. CellState(B)' /\ UNCHANGED req
    BY <1>2, ReadingCells
  <2>2. pc' = "descend"
    BY <1>2 DEF DescendInternal
  <2> QED
    BY <2>1, <2>2 DEF CallGoesOn, Scanning
<1>3. CASE InsertLeaf
  <2>1. CellState(B)'
    BY <1>0, <1>3, InsertCells
  <2>2. pc' = "write" /\ UNCHANGED req
    BY <1>3 DEF InsertLeaf
  <2> QED
    BY <2>1, <2>2 DEF CallGoesOn, Scanning
<1>4. CASE DeleteLeaf
  <2>1. IF pc' = "idle" THEN Answer(req, B, CellsUnder(view', root'), res')
                        ELSE CellState(B)' /\ UNCHANGED req
    BY <1>0, <1>4, DeleteCells
  <2>2. (pc' = "idle" /\ req' = NoRequest) \/ pc' = "write"
    BY <1>4 DEF DeleteLeaf, Return
  <2> QED
    BY <2>1, <2>2 DEF CallGoesOn, CallReturns, Scanning
<1>5. CASE SearchLeaf
  <2>1. Answer(req, B, CellsUnder(view', root'), res')
    BY <1>0, <1>5, SearchCells
  <2>2. pc' = "idle" /\ req' = NoRequest
    BY <1>5 DEF SearchLeaf, Return
  <2> QED
    BY <2>1, <2>2 DEF CallReturns
<1>6. CASE ScanReturns
  <2>1. Answer(req, B, CellsUnder(view', root'), res')
    BY <1>6, ScanAnswers
  <2>2. pc' = "idle" /\ req' = NoRequest
    BY <1>6 DEF ScanReturns, Return
  <2> QED
    BY <2>1, <2>2 DEF CallReturns
<1>7. CASE WriteLeft
  <2>1. CellState(B)' /\ UNCHANGED req
    BY <1>0, <1>7, WriteLeftCells
  <2>2. pc' = "alloc"
    BY <1>7 DEF WriteLeft
  <2> QED
    BY <2>1, <2>2 DEF CallGoesOn, Scanning
<1>8. CASE AllocateRight \/ AllocateRoot
  <2>1. CellState(B)' /\ UNCHANGED req
    BY <1>0, <1>8, AllocateCells
  <2>2. pc' \in {"right", "root"}
    BY <1>8 DEF AllocateRight, AllocateRoot
  <2> QED
    BY <2>1, <2>2 DEF CallGoesOn, Scanning
<1>9. CASE WriteRight
  <2>1. CASE pc' = "panic"
    BY <1>9, <2>1 DEF WriteRight
  <2>2. CASE pc' # "panic"
    <3>1. CellState(B)' /\ UNCHANGED req
      BY <1>0, <1>9, <2>2, WriteRightCells
    <3>2. pc' = "write"
      BY <1>9, <2>2 DEF WriteRight
    <3> QED
      BY <3>1, <3>2 DEF CallGoesOn, Scanning
  <2> QED
    BY <2>1, <2>2
<1>10. CASE WriteRightOfRoot
  <2>1. CellState(B)' /\ UNCHANGED req
    BY <1>0, <1>10, WriteRightOfRootCells
  <2>2. pc' = "rootalloc"
    BY <1>10 DEF WriteRightOfRoot
  <2> QED
    BY <2>1, <2>2 DEF CallGoesOn, Scanning
<1>11. CASE WriteWhole
  <2>1. Answer(req, B, CellsUnder(view', root'), res')
    BY <1>0, <1>11, WriteWholeCells
  <2>2. pc' = "idle" /\ req' = NoRequest
    BY <1>11 DEF WriteWhole, Return
  <2> QED
    BY <2>1, <2>2 DEF CallReturns
<1>12. CASE WriteRoot
  <2>1. Answer(req, B, CellsUnder(view', root'), res')
    BY <1>0, <1>12, WriteRootCells
  <2>2. pc' = "idle" /\ req' = NoRequest
    BY <1>12 DEF WriteRoot, Return
  <2> QED
    BY <2>1, <2>2 DEF CallReturns
<1>13. CASE ReadFails
  <2>1. Answer(req, B, CellsUnder(view', root'), res')
    BY <1>13, ReadFailsCells
  <2>2. pc' = "idle" /\ req' = NoRequest
    BY <1>13 DEF ReadFails, Return
  <2> QED
    BY <2>1, <2>2 DEF CallReturns
<1>14. CASE WriteFails
  <2>1. \/ Answer(req, B, CellsUnder(view', root'), res')
        \/ Loss(req, B, CellsUnder(view', root'), res')
    BY <1>0, <1>14, WriteFailsCells
  <2>2. pc' = "idle" /\ req' = NoRequest
    BY <1>14 DEF WriteFails, Return
  <2> QED
    BY <1>14, <2>1, <2>2 DEF CallReturns
<1>15. CASE AllocateFails
  <2>1. \/ Answer(req, B, CellsUnder(view', root'), res')
        \/ Loss(req, B, CellsUnder(view', root'), res')
    BY <1>15, AllocateFailsCells
  <2>2. pc' = "idle" /\ req' = NoRequest
    BY <1>15 DEF AllocateFails, Return
  <2> QED
    BY <1>15, <2>1, <2>2 DEF CallReturns
<1>16. CASE ReadPanics \/ WritePanics
  BY <1>16 DEF ReadPanics, WritePanics, Panics, call
<1> QED
  BY <1>1, <1>2, <1>3, <1>4, <1>5, <1>6, <1>7, <1>8, <1>9, <1>10, <1>11, <1>12,
     <1>13, <1>14, <1>15, <1>16 DEF Proceed
----------------------------------------------------------------------------
\* Maps, and the cells that they are

\* The maps from keys to values, in which none stands for no value.
MapsWith(none) == [Keys -> Vals \cup {none}]

\* The cells of a map.
CellsIn(d, none) == {[key |-> k, value |-> d[k]] : k \in {q \in Keys : d[q] # none}}

\* The map that a list of rows is.
RowMap(rows, none) ==
  [k \in Keys |-> IF \E i \in DOMAIN rows : rows[i].key = k
                  THEN rows[CHOOSE i \in DOMAIN rows : rows[i].key = k].value
                  ELSE none]

\* A map has a cell exactly for its values.
LEMMA MapCells ==
  ASSUME NEW none, none \notin Vals, NEW d \in MapsWith(none), NEW k \in Keys
  PROVE  /\ \A v \in Vals : [key |-> k, value |-> v] \in CellsIn(d, none) <=> d[k] = v
         /\ d[k] = none <=> \A c \in CellsIn(d, none) : c.key # k
         /\ d[k] \in Vals \cup {none}
         /\ CellsIn(d, none) \subseteq LeafCells
<1>1. d[k] \in Vals \cup {none}
  BY DEF MapsWith
<1>2. CellsIn(d, none) \subseteq LeafCells
  BY DEF CellsIn, MapsWith, LeafCells
<1>3. ASSUME NEW v \in Vals
      PROVE  [key |-> k, value |-> v] \in CellsIn(d, none) <=> d[k] = v
  BY <1>1 DEF CellsIn
<1>4. d[k] = none <=> \A c \in CellsIn(d, none) : c.key # k
  <2>1. ASSUME d[k] # none PROVE \E c \in CellsIn(d, none) : c.key = k
    <3>1. [key |-> k, value |-> d[k]] \in CellsIn(d, none)
      BY <1>1, <1>3, <2>1
    <3> QED
      BY <3>1
  <2>2. ASSUME NEW c \in CellsIn(d, none), c.key = k PROVE d[k] # none
    BY <2>2 DEF CellsIn
  <2> QED
    BY <2>1, <2>2
<1> QED
  BY <1>1, <1>2, <1>3, <1>4

\* Maps with the same cells at a key agree there.
LEMMA SameValue ==
  ASSUME NEW none, none \notin Vals, NEW d \in MapsWith(none), NEW e \in MapsWith(none),
         NEW k \in Keys,
         \A c \in LeafCells : c.key = k => (c \in CellsIn(d, none) <=> c \in CellsIn(e, none))
  PROVE  d[k] = e[k]
<1>1. ASSUME NEW v \in Vals PROVE d[k] = v <=> e[k] = v
  <2>1. [key |-> k, value |-> v] \in LeafCells
    BY DEF LeafCells
  <2> QED
    BY <2>1, MapCells
<1>2. d[k] \in Vals \cup {none} /\ e[k] \in Vals \cup {none}
  BY MapCells
<1> QED
  BY <1>1, <1>2

\* A map is known by its cells.
LEMMA SameMap ==
  ASSUME NEW none, none \notin Vals, NEW d \in MapsWith(none), NEW e \in MapsWith(none),
         CellsIn(d, none) = CellsIn(e, none)
  PROVE  d = e
<1>1. \A k \in Keys : d[k] = e[k]
  BY SameValue
<1> QED
  BY <1>1 DEF MapsWith

\* The map when an insert has succeeded.
LEMMA MapAfterInsert ==
  ASSUME NEW none, none \notin Vals, NEW d \in MapsWith(none), NEW e \in MapsWith(none),
         NEW r, r.op = "insert", r.key \in Keys, r.val \in Vals,
         CellsIn(e, none) = Goal(r, CellsIn(d, none))
  PROVE  e = [d EXCEPT ![r.key] = r.val]
<1>1. \A c : c \in CellsIn(e, none) <=> \/ c \in CellsIn(d, none) /\ c.key # r.key
                                        \/ c = [key |-> r.key, value |-> r.val]
  BY DEF Goal
<1>2. e[r.key] = r.val
  <2>1. [key |-> r.key, value |-> r.val] \in CellsIn(e, none)
    BY <1>1
  <2> QED
    BY <2>1, MapCells
<1>3. ASSUME NEW k \in Keys, k # r.key PROVE e[k] = d[k]
  BY <1>1, <1>3, SameValue
<1> QED
  BY <1>2, <1>3 DEF MapsWith

\* When a delete has succeeded, it is the map without the key.
LEMMA MapAfterDelete ==
  ASSUME NEW none, none \notin Vals, NEW d \in MapsWith(none), NEW e \in MapsWith(none),
         NEW r, r.op = "delete", r.key \in Keys,
         CellsIn(e, none) = Goal(r, CellsIn(d, none))
  PROVE  e = [d EXCEPT ![r.key] = none]
<1>1. \A c : c \in CellsIn(e, none) <=> c \in CellsIn(d, none) /\ c.key # r.key
  BY DEF Goal
<1>2. e[r.key] = none
  BY <1>1, MapCells
<1>3. ASSUME NEW k \in Keys, k # r.key PROVE e[k] = d[k]
  BY <1>1, <1>3, SameValue
<1> QED
  BY <1>2, <1>3 DEF MapsWith

\* The cells of a map with another value for a key.
LEMMA CellsWithKey ==
  ASSUME NEW none, none \notin Vals, NEW d \in MapsWith(none), NEW e \in MapsWith(none),
         NEW k \in Keys, \A q \in Keys : q # k => e[q] = d[q]
  PROVE  CellsIn(e, none) = {c \in CellsIn(d, none) : c.key # k}
                              \cup (IF e[k] = none THEN {} ELSE {[key |-> k, value |-> e[k]]})
<1> DEFINE X == {c \in CellsIn(d, none) : c.key # k}
           Y == IF e[k] = none THEN {} ELSE {[key |-> k, value |-> e[k]]}
<1>1. ASSUME NEW c \in CellsIn(e, none) PROVE c \in X \cup Y
  <2>1. PICK q \in Keys : e[q] # none /\ c = [key |-> q, value |-> e[q]]
    BY DEF CellsIn
  <2>2. CASE q = k
    BY <2>1, <2>2
  <2>3. CASE q # k
    BY <2>1, <2>3 DEF CellsIn
  <2> QED
    BY <2>2, <2>3
<1>2. ASSUME NEW c \in X PROVE c \in CellsIn(e, none)
  BY <1>2 DEF CellsIn
<1>3. ASSUME NEW c \in Y PROVE c \in CellsIn(e, none)
  BY <1>3 DEF CellsIn
<1> HIDE DEF X, Y
<1>4. CellsIn(e, none) = X \cup Y
  BY <1>1, <1>2, <1>3
<1> QED
  BY <1>4 DEF X, Y

\* An insert that succeeds leaves the cells of the map with its key changed.
LEMMA CellsAfterInsert ==
  ASSUME NEW none, none \notin Vals, NEW d \in MapsWith(none),
         NEW r, r.op = "insert", r.key \in Keys, r.val \in Vals
  PROVE  /\ [d EXCEPT ![r.key] = r.val] \in MapsWith(none)
         /\ CellsIn([d EXCEPT ![r.key] = r.val], none) = Goal(r, CellsIn(d, none))
<1> DEFINE e == [d EXCEPT ![r.key] = r.val]
<1>1. /\ e \in MapsWith(none) /\ e[r.key] = r.val
      /\ \A q \in Keys : q # r.key => e[q] = d[q]
  BY DEF MapsWith
<1> HIDE DEF e
<1>2. e[r.key] # none
  BY <1>1
<1>3. CellsIn(e, none) = {c \in CellsIn(d, none) : c.key # r.key}
                           \cup {[key |-> r.key, value |-> r.val]}
  BY <1>1, <1>2, CellsWithKey
<1>4. CellsIn(e, none) = Goal(r, CellsIn(d, none))
  BY <1>3 DEF Goal
<1> QED
  BY <1>1, <1>4 DEF e

\* So does a delete.
LEMMA CellsAfterDelete ==
  ASSUME NEW none, none \notin Vals, NEW d \in MapsWith(none),
         NEW r, r.op = "delete", r.key \in Keys
  PROVE  /\ [d EXCEPT ![r.key] = none] \in MapsWith(none)
         /\ CellsIn([d EXCEPT ![r.key] = none], none) = Goal(r, CellsIn(d, none))
<1> DEFINE e == [d EXCEPT ![r.key] = none]
<1>1. /\ e \in MapsWith(none) /\ e[r.key] = none
      /\ \A q \in Keys : q # r.key => e[q] = d[q]
  BY DEF MapsWith
<1> HIDE DEF e
<1>3. CellsIn(e, none) = {c \in CellsIn(d, none) : c.key # r.key}
  BY <1>1, CellsWithKey
<1>4. CellsIn(e, none) = Goal(r, CellsIn(d, none))
  BY <1>3 DEF Goal
<1> QED
  BY <1>1, <1>4 DEF e

\* Rows with different keys are the cells of their map.
LEMMA MapOfRows ==
  ASSUME NEW none, none \notin Vals, NEW rows \in Seq(LeafCells),
         \A c, d \in Range(rows) : c.key = d.key => c = d
  PROVE  /\ RowMap(rows, none) \in MapsWith(none)
         /\ CellsIn(RowMap(rows, none), none) = Range(rows)
<1> DEFINE e == RowMap(rows, none)
           C == Range(rows)
<1>1. /\ \A c : c \in C <=> \E i \in DOMAIN rows : c = rows[i]
      /\ \A i \in DOMAIN rows : rows[i] \in LeafCells
  BY DEF Range
<1>2. \A k \in Keys : e[k] = IF \E i \in DOMAIN rows : rows[i].key = k
                             THEN rows[CHOOSE i \in DOMAIN rows : rows[i].key = k].value
                             ELSE none
  BY DEF RowMap
<1>3. e = [k \in Keys |-> e[k]]
  BY DEF RowMap
<1> HIDE DEF e, C
<1>4. ASSUME NEW k \in Keys
      PROVE  \/ e[k] = none /\ \A c \in C : c.key # k
             \/ \E c \in C : c.key = k /\ c \in LeafCells /\ e[k] = c.value
  <2>1. CASE \E i \in DOMAIN rows : rows[i].key = k
    <3> DEFINE i == CHOOSE i \in DOMAIN rows : rows[i].key = k
    <3>1. i \in DOMAIN rows /\ rows[i].key = k
      BY <2>1
    <3>2. e[k] = rows[i].value
      BY <1>2, <2>1
    <3> HIDE DEF i
    <3> QED
      BY <1>1, <3>1, <3>2
  <2>2. CASE ~\E i \in DOMAIN rows : rows[i].key = k
    BY <1>1, <1>2, <2>2
  <2> QED
    BY <2>1, <2>2
<1>5. \A k \in Keys : e[k] \in Vals \cup {none}
  BY <1>4 DEF LeafCells
<1>6. e \in MapsWith(none)
  BY <1>3, <1>5 DEF MapsWith
<1>7. ASSUME NEW c, c \in CellsIn(e, none) PROVE c \in C
  <2>1. PICK k \in Keys : e[k] # none /\ c = [key |-> k, value |-> e[k]]
    BY <1>7 DEF CellsIn
  <2>2. PICK d \in C : d.key = k /\ d \in LeafCells /\ e[k] = d.value
    BY <1>4, <2>1
  <2>3. c = d
    BY <2>1, <2>2 DEF LeafCells
  <2> QED
    BY <2>3
<1>8. ASSUME NEW c \in C PROVE c \in CellsIn(e, none)
  <2>1. c \in LeafCells
    BY <1>1
  <2>2. c.key \in Keys /\ c.value \in Vals /\ c = [key |-> c.key, value |-> c.value]
    BY <2>1 DEF LeafCells
  <2>3. PICK d \in C : d.key = c.key /\ e[c.key] = d.value
    BY <1>4, <2>2
  <2>4. e[c.key] = c.value
    BY <2>3 DEF C
  <2> QED
    BY <1>6, <2>2, <2>4, MapCells
<1> QED
  BY <1>6, <1>7, <1>8 DEF e, C

\* So are the rows under a page of a tree.
LEMMA MapOfPage ==
  ASSUME NEW none, none \notin Vals,
         NEW m, NEW T, NEW h, NEW under, NEW tops, Tree(m, T, h, under, tops), NEW p \in T
  PROVE  /\ RowMap(RowsUnder(m, p), none) \in MapsWith(none)
         /\ CellsIn(RowMap(RowsUnder(m, p), none), none) = CellsUnder(m, p)
<1>1. m \in [PageNums -> Pages] /\ Falling(m, h) /\ T \subseteq PageNums
  BY TreeFalls
<1>2. h \in [PageNums -> Nat]
  BY TreeFalls
<1>3. RowsUnder(m, p) \in Seq(LeafCells)
  BY <1>1, <1>2, RowsRecursion
<1>4. \A c, d \in CellsUnder(m, p) : c.key = d.key => c = d
  BY CellsDistinct
<1> QED
  BY <1>3, <1>4, MapOfRows DEF CellsUnder

=============================================================================
