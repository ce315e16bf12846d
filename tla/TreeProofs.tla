----------------------------- MODULE TreeProofs -----------------------------
(***************************************************************************)
(* Proofs about BTree.tla, for every set of keys, values and pages, every  *)
(* limit on the cells of a node, every encoded length and any number of    *)
(* failing pager calls: every variable keeps its type, no node outgrows    *)
(* its limits, and no pointer, in memory or on disk, ever dangles.         *)
(*                                                                         *)
(* The rest is about the shape of the tree, with no state in it.           *)
(* A B-Tree is stated without recursion, by a height and a set of allowed  *)
(* keys for every page; it implies what the recursive definitions say of   *)
(* the pages under the root, and it is kept by everything that the code    *)
(* does to a node: a cell put, a split half written, two halves adopted by *)
(* the parent, a new root.  The cells under a page are then those of the   *)
(* leaves that are reached from it, and a scan has their keys in order.    *)
(***************************************************************************)
EXTENDS BTree, Induction, SequenceTheorems, FiniteSetTheorems, TLAPS

----------------------------------------------------------------------------
\* Sequences

\* One element more, the others in their order.
LEMMA InsertAtFacts ==
  ASSUME NEW S, NEW s \in Seq(S), NEW i \in 1 .. Len(s) + 1, NEW e \in S,
         NEW t, t = InsertAt(s, i, e)
  PROVE  /\ t \in Seq(S)
         /\ Len(t) = Len(s) + 1
         /\ \A j \in 1 .. i - 1 : t[j] = s[j]
         /\ t[i] = e
         /\ \A j \in i .. Len(s) : t[j + 1] = s[j]
<1> DEFINE l == SubSeq(s, 1, i - 1)
           r == SubSeq(s, i, Len(s))
<1>0. Len(s) \in Nat /\ \A j \in 1 .. Len(s) : s[j] \in S
  BY LenProperties
<1>1. l \in Seq(S) /\ Len(l) = i - 1 /\ \A j \in 1 .. i - 1 : l[j] = s[j]
  BY <1>0, SubSeqProperties, Z3
<1>2. /\ r \in Seq(S) /\ Len(r) = Len(s) - i + 1
      /\ \A j \in 1 .. Len(s) - i + 1 : r[j] = s[i + j - 1]
  BY <1>0, SubSeqProperties, Z3
<1> HIDE DEF l, r
<1> DEFINE m == l \o <<e>>
<1>3. /\ m \in Seq(S) /\ Len(m) = i
      /\ \A j \in 1 .. i : m[j] = IF j < i THEN s[j] ELSE e
  BY <1>0, <1>1, ConcatProperties
<1> HIDE DEF m
<1>4. /\ m \o r \in Seq(S)
      /\ Len(m \o r) = Len(m) + Len(r)
      /\ \A j \in 1 .. Len(m) + Len(r) :
           (m \o r)[j] = IF j <= Len(m) THEN m[j] ELSE r[j - Len(m)]
  BY <1>2, <1>3, ConcatProperties
<1>5. t = m \o r
  BY DEF InsertAt, l, r, m
<1> QED
  BY <1>0, <1>2, <1>3, <1>4, <1>5

\* One element less.
LEMMA RemoveAtFacts ==
  ASSUME NEW S, NEW s \in Seq(S), NEW i \in 1 .. Len(s)
  PROVE  RemoveAt(s, i) \in Seq(S) /\ Len(RemoveAt(s, i)) = Len(s) - 1
<1> DEFINE l == SubSeq(s, 1, i - 1)
           r == SubSeq(s, i + 1, Len(s))
<1>0. Len(s) \in Nat /\ \A j \in 1 .. Len(s) : s[j] \in S
  BY LenProperties
<1>1. l \in Seq(S) /\ Len(l) = i - 1
  BY <1>0, SubSeqProperties, Z3
<1>2. r \in Seq(S) /\ Len(r) = Len(s) - i
  BY <1>0, SubSeqProperties, Z3
<1> HIDE DEF l, r
<1>3. l \o r \in Seq(S) /\ Len(l \o r) = Len(l) + Len(r)
  BY <1>1, <1>2, ConcatProperties
<1>4. RemoveAt(s, i) = l \o r
  BY DEF RemoveAt, l, r
<1>5. Len(s) - 1 = (i - 1) + (Len(s) - i)
  BY <1>0
<1> QED
  BY <1>1, <1>2, <1>3, <1>4, <1>5

\* All but the last element.
LEMMA FrontFacts ==
  ASSUME NEW S, NEW s \in Seq(S), s # <<>>
  PROVE  /\ Last(s) \in S
         /\ Front(s) \in Seq(S) /\ Len(Front(s)) = Len(s) - 1
         /\ \A j \in 1 .. Len(s) - 1 : Front(s)[j] = s[j]
<1>0. Len(s) \in Nat \ {0} /\ \A j \in 1 .. Len(s) : s[j] \in S
  BY LenProperties, EmptySeq
<1>1. \A j \in 1 .. Len(s) - 1 : s[j] \in S
  BY <1>0
<1> DEFINE n == Len(s) - 1
<1>2. n \in Int /\ \A j \in 1 .. n : s[j] \in S
  BY <1>0
<1> HIDE DEF n
<1>3. /\ SubSeq(s, 1, n) \in Seq(S)
      /\ Len(SubSeq(s, 1, n)) = IF 1 <= n THEN n - 1 + 1 ELSE 0
      /\ \A j \in 1 .. n - 1 + 1 : SubSeq(s, 1, n)[j] = s[1 + j - 1]
  BY <1>2, SubSeqProperties
<1>4. /\ SubSeq(s, 1, n) \in Seq(S)
      /\ Len(SubSeq(s, 1, n)) = n
      /\ \A j \in 1 .. n : SubSeq(s, 1, n)[j] = s[j]
  <2>1. n \in Nat
    BY <1>0 DEF n
  <2> QED
    BY <2>1, <1>3
<1>5. Front(s) = SubSeq(s, 1, n)
  BY DEF Front, n
<1>6. Last(s) \in S
  BY <1>0 DEF Last
<1> QED
  BY <1>4, <1>5, <1>6 DEF n

----------------------------------------------------------------------------
\* Nodes

RealNodes == Leaves \cup Internals

\* What is known of the cells of a node.
LEMMA CellFacts ==
  ASSUME NEW node \in RealNodes
  PROVE  /\ node.type \in {"leaf", "internal"}
         /\ node.type = "leaf" =>
              /\ node \in Leaves /\ node.cells \in Seq(LeafCells)
              /\ \A i \in 1 .. Len(node.cells) : node.cells[i] \in LeafCells
         /\ node.type = "internal" =>
              /\ node \in Internals /\ node.cells \in Seq(InternalCells)
              /\ node.right \in PageNums
              /\ \A i \in 1 .. Len(node.cells) :
                   /\ node.cells[i] \in InternalCells
                   /\ node.cells[i].child \in PageNums
         /\ Len(node.cells) \in Nat
         /\ node # Zero
         /\ \A i \in 1 .. Len(node.cells) : node.cells[i].key \in Keys
<1>1. CASE node \in Leaves
  <2>1. node.type = "leaf" /\ node.cells \in Seq(LeafCells)
    BY <1>1 DEF Leaves
  <2>2. /\ Len(node.cells) \in Nat
        /\ \A i \in 1 .. Len(node.cells) : node.cells[i] \in LeafCells
    BY <2>1, LenProperties
  <2> QED
    BY <1>1, <2>1, <2>2 DEF Zero, LeafCells
<1>2. CASE node \in Internals
  <2>1. /\ node.type = "internal" /\ node.cells \in Seq(InternalCells)
        /\ node.right \in PageNums
    BY <1>2 DEF Internals
  <2>2. /\ Len(node.cells) \in Nat
        /\ \A i \in 1 .. Len(node.cells) : node.cells[i] \in InternalCells
    BY <2>1, LenProperties
  <2> QED
    BY <1>2, <2>1, <2>2 DEF Zero, InternalCells
<1> QED
  BY <1>1, <1>2 DEF RealNodes

\* A page holds a node or zeros.
LEMMA PageFacts ==
  /\ RealNodes \subseteq Pages /\ Zero \in Pages
  /\ \A page \in Pages : page # Zero => page \in RealNodes
  /\ \A page \in Pages : page.type \in {"leaf", "internal"} => page \in RealNodes
  BY DEF Pages, RealNodes, Zero

\* A list of rows makes a leaf.
LEMMA LeafIsNode ==
  ASSUME NEW cells \in Seq(LeafCells)
  PROVE  /\ Leaf(cells) \in RealNodes
         /\ Leaf(cells).type = "leaf" /\ Leaf(cells).cells = cells
  BY DEF Leaf, Leaves, RealNodes

\* A list of keys with pointers, and a last pointer, make an internal node.
LEMMA InternalIsNode ==
  ASSUME NEW cells \in Seq(InternalCells), NEW right \in PageNums
  PROVE  /\ Internal(cells, right) \in RealNodes
         /\ Internal(cells, right).type = "internal"
         /\ Internal(cells, right).cells = cells
         /\ Internal(cells, right).right = right
  BY DEF Internal, Internals, RealNodes

\* The pointers of an internal node are those of its cells and the right one.
LEMMA ChildFacts ==
  ASSUME NEW node \in RealNodes, node.type = "internal"
  PROVE  /\ \A i \in 1 .. Len(node.cells) + 1 :
              Child(node, i) \in PageNums /\ Child(node, i) \in Children(node)
         /\ Children(node) = {node.cells[i].child : i \in 1 .. Len(node.cells)}
                               \cup {node.right}
         /\ Children(node) \subseteq PageNums
<1>1. /\ node.cells \in Seq(InternalCells) /\ node.right \in PageNums
      /\ Len(node.cells) \in Nat
  BY CellFacts
<1>2. \A i \in 1 .. Len(node.cells) : node.cells[i].child \in PageNums
  BY CellFacts
<1>3. \A i \in 1 .. Len(node.cells) + 1 :
        Child(node, i) = IF i = Len(node.cells) + 1 THEN node.right
                                                    ELSE node.cells[i].child
  BY <1>1 DEF Child
<1>4. \A i \in 1 .. Len(node.cells) + 1 : Child(node, i) \in PageNums
  BY <1>1, <1>2, <1>3
<1>5. Children(node) = {node.cells[i].child : i \in 1 .. Len(node.cells)}
                         \cup {node.right}
  BY <1>1, <1>3 DEF Children
<1> QED
  BY <1>4, <1>5 DEF Children

\* The two halves of an overfull node are nodes of its type that share its
\* cells and pointers.
LEMMA HalfFacts ==
  ASSUME NEW node \in RealNodes, Overfull(node)
  PROVE  /\ PromotedKey(node) \in Keys
         /\ LeftHalf(node) \in RealNodes /\ LeftHalf(node).type = node.type
         /\ RightHalf(node) \in RealNodes /\ RightHalf(node).type = node.type
         /\ node.type = "internal" =>
              /\ Children(LeftHalf(node)) \subseteq Children(node)
              /\ Children(RightHalf(node)) \subseteq Children(node)
         /\ Len(node.cells) = MaxCells(node) + 1 =>
              /\ Len(LeftHalf(node).cells) \in 1 .. MaxCells(node)
              /\ Len(RightHalf(node).cells) \in 1 .. MaxCells(node)
<1> DEFINE n == Len(node.cells)
           m == Mid(node)
<1>1. /\ n \in Nat /\ n >= 2 /\ m \in Nat /\ m >= 1 /\ m + 1 <= n
      /\ node.type = "internal" => n >= 3 /\ m + 2 <= n
      /\ MaxCells(node) \in Nat
  <2>1. /\ n \in Nat /\ node.type \in {"leaf", "internal"}
        /\ MaxCells(node) \in Nat /\ n > MaxCells(node) /\ MaxCells(node) >= 1
        /\ node.type = "internal" => MaxCells(node) >= 2
    BY CellFacts, BTreeAssumption DEF Overfull, MaxCells
  <2>2. m = n \div 2
    BY DEF Mid
  <2> HIDE DEF n, m
  <2> QED
    BY <2>1, <2>2
<1>2. n = MaxCells(node) + 1 => /\ m \in 1 .. MaxCells(node)
                                /\ n - m \in 1 .. MaxCells(node)
  BY <1>1
<1>3. PromotedKey(node) \in Keys
  BY <1>1, CellFacts DEF PromotedKey
<1>4. CASE node.type = "leaf"
  <2>1. node.cells \in Seq(LeafCells) /\ \A i \in 1 .. n : node.cells[i] \in LeafCells
    BY <1>4, CellFacts
  <2>2. /\ SubSeq(node.cells, 1, m) \in Seq(LeafCells)
        /\ Len(SubSeq(node.cells, 1, m)) = m
    BY <1>1, <2>1, SubSeqProperties, Z3
  <2>3. /\ SubSeq(node.cells, m + 1, n) \in Seq(LeafCells)
        /\ Len(SubSeq(node.cells, m + 1, n)) = n - m
    BY <1>1, <2>1, SubSeqProperties, Z3
  <2> QED
    BY <1>1, <1>2, <1>3, <1>4, <2>2, <2>3, LeafIsNode DEF LeftHalf, RightHalf
<1>5. CASE node.type = "internal"
  <2>1. /\ node.cells \in Seq(InternalCells) /\ node.right \in PageNums
        /\ \A i \in 1 .. n : /\ node.cells[i] \in InternalCells
                             /\ node.cells[i].child \in PageNums
    BY <1>5, CellFacts
  <2> DEFINE l == SubSeq(node.cells, 1, m)
             r == SubSeq(node.cells, m + 2, n)
  <2>2. l \in Seq(InternalCells) /\ Len(l) = m /\ \A i \in 1 .. m : l[i] = node.cells[i]
    BY <1>1, <2>1, SubSeqProperties, Z3
  <2>3. /\ r \in Seq(InternalCells) /\ Len(r) = n - m - 1
        /\ \A i \in 1 .. n - m - 1 : r[i] = node.cells[m + 1 + i]
    <3> HIDE DEF m, n
    <3>1. /\ m + 2 \in Int /\ n \in Int /\ m + 2 <= n
          /\ \A j \in m + 2 .. n : node.cells[j] \in InternalCells
      BY <1>1, <1>5, <2>1
    <3>2. /\ r \in Seq(InternalCells)
          /\ Len(r) = IF m + 2 <= n THEN n - (m + 2) + 1 ELSE 0
          /\ \A i \in 1 .. n - (m + 2) + 1 : r[i] = node.cells[m + 2 + i - 1]
      BY <3>1, SubSeqProperties
    <3> HIDE DEF r
    <3> QED
      BY <1>1, <3>1, <3>2
  <2>4. /\ LeftHalf(node) = Internal(l, node.cells[m + 1].child)
        /\ RightHalf(node) = Internal(r, node.right)
    BY <1>5 DEF LeftHalf, RightHalf
  <2> HIDE DEF l, r
  <2>5. node.cells[m + 1].child \in PageNums
    BY <1>1, <2>1
  <2>6. /\ LeftHalf(node) \in RealNodes /\ LeftHalf(node).type = "internal"
        /\ LeftHalf(node).cells = l
        /\ LeftHalf(node).right = node.cells[m + 1].child
    BY <2>2, <2>4, <2>5, InternalIsNode
  <2>7. /\ RightHalf(node) \in RealNodes /\ RightHalf(node).type = "internal"
        /\ RightHalf(node).cells = r /\ RightHalf(node).right = node.right
    BY <2>1, <2>3, <2>4, InternalIsNode
  <2>a. Children(node) = {node.cells[j].child : j \in 1 .. n} \cup {node.right}
    BY <1>5, ChildFacts
  <2>8. Children(LeftHalf(node)) \subseteq Children(node)
    <3>1. Children(LeftHalf(node)) =
            {l[j].child : j \in 1 .. m} \cup {node.cells[m + 1].child}
      BY <2>2, <2>6, ChildFacts
    <3>2. \A j \in 1 .. m : j \in 1 .. n /\ l[j].child = node.cells[j].child
      BY <1>1, <2>2
    <3>3. m + 1 \in 1 .. n
      BY <1>1
    <3> HIDE DEF m, n
    <3> QED
      BY <2>a, <3>1, <3>2, <3>3
  <2>9. Children(RightHalf(node)) \subseteq Children(node)
    <3>1. Children(RightHalf(node)) =
            {r[j].child : j \in 1 .. n - m - 1} \cup {node.right}
      BY <2>3, <2>7, ChildFacts
    <3> HIDE DEF m, n
    <3>a. \A j \in 1 .. n - m - 1 : m + 1 + j \in 1 .. n
      BY <1>1
    <3>2. \A j \in 1 .. n - m - 1 :
            m + 1 + j \in 1 .. n /\ r[j].child = node.cells[m + 1 + j].child
      BY <2>3, <3>a
    <3> QED
      BY <2>a, <3>1, <3>2
  <2>10. n = MaxCells(node) + 1 => m \in 1 .. MaxCells(node)
                                   /\ n - m - 1 \in 1 .. MaxCells(node)
    BY <1>1, <1>5
  <2> QED
    BY <1>3, <1>5, <2>2, <2>3, <2>6, <2>7, <2>8, <2>9, <2>10
<1> QED
  BY <1>4, <1>5, CellFacts

\* A parent takes up the halves of a child: one key and one pointer more.
LEMMA SplitChildFacts ==
  ASSUME NEW node \in RealNodes, node.type = "internal",
         NEW i \in 1 .. Len(node.cells) + 1, NEW k \in Keys,
         NEW l \in PageNums, NEW r \in PageNums
  PROVE  LET new == WithSplitChild(node, i, k, l, r)
         IN  /\ new \in RealNodes /\ new.type = "internal"
             /\ Len(new.cells) = Len(node.cells) + 1
             /\ Children(new) \subseteq Children(node) \cup {l, r}
<1> DEFINE n == Len(node.cells)
           cell == [child |-> l, key |-> k]
           cells == InsertAt(node.cells, i, cell)
           moved == [cells EXCEPT ![i + 1].child = r]
           new == WithSplitChild(node, i, k, l, r)
<1>1. /\ node.cells \in Seq(InternalCells) /\ node.right \in PageNums /\ n \in Nat
      /\ cell \in InternalCells /\ cell.child = l
  BY CellFacts DEF InternalCells
<1>2. /\ cells \in Seq(InternalCells) /\ Len(cells) = n + 1
      /\ \A j \in 1 .. n + 1 :
           cells[j] = IF j < i THEN node.cells[j]
                      ELSE IF j = i THEN cell ELSE node.cells[j - 1]
  <2> DEFINE s == node.cells
  <2> HIDE DEF cell, cells
  <2>1. /\ s \in Seq(InternalCells) /\ cell \in InternalCells
        /\ i \in 1 .. Len(s) + 1 /\ cells = InsertAt(s, i, cell)
    BY <1>1 DEF cells
  <2> HIDE DEF s
  <2>2. cells \in Seq(InternalCells) /\ Len(cells) = Len(s) + 1
    BY <2>1, InsertAtFacts
  <2>3. \A j \in 1 .. i - 1 : cells[j] = s[j]
    BY <2>1, InsertAtFacts
  <2>4. cells[i] = cell
    BY <2>1, InsertAtFacts
  <2>5. \A j \in i .. Len(s) : cells[j + 1] = s[j]
    BY <2>1, InsertAtFacts
  <2>6. Len(s) \in Nat /\ \A j \in i + 1 .. Len(s) + 1 :
                             j - 1 \in i .. Len(s) /\ j = (j - 1) + 1
    BY <1>1, <2>1, LenProperties
  <2>7. \A j \in i + 1 .. Len(s) + 1 : cells[j] = s[j - 1]
    BY <2>5, <2>6
  <2> QED
    BY <1>1, <2>2, <2>3, <2>4, <2>7 DEF s
<1> HIDE DEF cell, cells
<1>a. Children(node) = {node.cells[j].child : j \in 1 .. n} \cup {node.right}
  BY ChildFacts
<1>3. \A j \in 1 .. n + 1 : cells[j].child \in Children(node) \cup {l}
  <2> HIDE DEF n
  <2> TAKE j \in 1 .. n + 1
  <2>1. CASE j < i
    <3>1. j \in 1 .. n /\ cells[j] = node.cells[j]
      BY <1>1, <1>2, <2>1 DEF n
    <3> QED
      BY <1>a, <3>1
  <2>2. CASE j = i
    BY <1>1, <1>2, <2>2
  <2>3. CASE j > i
    <3>1. j - 1 \in 1 .. n /\ cells[j] = node.cells[j - 1]
      BY <1>1, <1>2, <2>3 DEF n
    <3> QED
      BY <1>a, <3>1
  <2> QED
    BY <1>1, <2>1, <2>2, <2>3 DEF n
<1>4. CASE i <= n
  <2>1. i + 1 \in 1 .. Len(cells) /\ cells[i + 1] \in InternalCells
    BY <1>1, <1>2, <1>4, ElementOfSeq
  <2>2. moved = [cells EXCEPT ![i + 1] = [cells[i + 1] EXCEPT !.child = r]]
    OBVIOUS
  <2>3. [cells[i + 1] EXCEPT !.child = r] \in InternalCells
        /\ [cells[i + 1] EXCEPT !.child = r].child = r
    BY <2>1 DEF InternalCells
  <2>4. /\ moved \in Seq(InternalCells) /\ Len(moved) = n + 1
        /\ \A j \in 1 .. n + 1 :
             moved[j] = IF j = i + 1 THEN [cells[i + 1] EXCEPT !.child = r]
                                     ELSE cells[j]
    BY <1>2, <2>1, <2>2, <2>3, ExceptSeq
  <2>5. new = Internal(moved, node.right)
    BY <1>4 DEF WithSplitChild, cells, cell
  <2> HIDE DEF moved, new
  <2>6. /\ new \in RealNodes /\ new.type = "internal" /\ new.cells = moved
        /\ new.right = node.right
    BY <1>1, <2>4, <2>5, InternalIsNode
  <2>7. Children(new) = {moved[j].child : j \in 1 .. n + 1} \cup {node.right}
    BY <2>4, <2>6, ChildFacts
  <2>8. Children(new) \subseteq Children(node) \cup {l, r}
    <3>1. \A j \in 1 .. n + 1 : moved[j].child \in Children(node) \cup {l, r}
      BY <1>3, <2>3, <2>4
    <3>2. node.right \in Children(node)
      BY <1>a
    <3> QED
      BY <2>7, <3>1, <3>2
  <2> QED
    BY <2>4, <2>6, <2>8 DEF new
<1>5. CASE ~(i <= n)
  <2>1. new = Internal(cells, r)
    BY <1>5 DEF WithSplitChild, cells, cell
  <2> HIDE DEF new
  <2>2. new \in RealNodes /\ new.type = "internal" /\ new.cells = cells /\ new.right = r
    BY <1>2, <2>1, InternalIsNode
  <2>3. Children(new) = {cells[j].child : j \in 1 .. n + 1} \cup {r}
    BY <1>2, <2>2, ChildFacts
  <2> QED
    BY <1>2, <1>3, <2>2, <2>3 DEF new
<1> QED
  BY <1>4, <1>5

----------------------------------------------------------------------------
\* The inductive invariant

\* What a pointer may lead to.
LinkedPages == {p \in owned : view[p] # Zero /\ disk[p] # Zero}

PointsInto(node, pages) == node.type = "internal" => Children(node) \subseteq pages

InBounds(node) ==
  /\ Len(node.cells) <= MaxCells(node)
  /\ node.type = "internal" => Len(node.cells) >= 1

\* Every node that is in memory or on disk.
PagesGood ==
  \A p \in PageNums : \A node \in {view[p], disk[p]} :
    node # Zero => PointsInto(node, LinkedPages) /\ InBounds(node)

\* The pages of the call in progress, from the root down.
PathGood ==
  /\ root # NoPage => root \in LinkedPages
  /\ \A i \in 1 .. Len(path) : path[i] \in LinkedPages
  /\ pc \in {"descend", "write", "alloc", "right", "rootalloc"} => path # <<>>
  /\ pc \in {"descend", "write", "alloc", "right"} =>
       \A i \in 1 .. Len(path) - 1 : view[path[i]].type = "internal"

\* The node that is being written.  It can have one cell too many until it
\* is split, and both halves are kept in work until both are written.
WorkGood ==
  /\ pc = "descend" => req \in Requests /\ req.op # "scan"
  /\ pc \in {"write", "alloc", "right", "rootalloc", "root"} =>
       /\ work \in RealNodes
       /\ PointsInto(work, LinkedPages)
       /\ work.type = "internal" => Len(work.cells) >= 1
  /\ pc \in {"write", "alloc", "right"} =>
       /\ Len(work.cells) <= MaxCells(work) + 1
       /\ work.type = view[Last(path)].type
  /\ pc \in {"rootalloc", "root"} => InBounds(work)
  /\ pc \in {"alloc", "right"} => Overfull(work)
  /\ pc \in {"right", "root"} => fresh \in owned /\ view[fresh] = Zero

Inv == TypeOK /\ PagesGood /\ PathGood /\ WorkGood

\* The invariant gives the properties that the runs check.
LEMMA InvGives == Inv => TypeOK /\ NoDanglingPointers /\ NodesInBounds
<1> SUFFICES ASSUME Inv PROVE NoDanglingPointers /\ NodesInBounds
  BY DEF Inv
<1> USE DEF Inv
<1>1. Store!TypeOK
  BY DEF TypeOK
<1>2. \A m \in {view, disk} : \A node \in Nodes(m) :
        /\ node \in RealNodes
        /\ PointsInto(node, LinkedPages) /\ InBounds(node)
  BY <1>1, PageFacts DEF Nodes, Store!TypeOK, PagesGood
<1>3. NoDanglingPointers
  BY <1>2 DEF NoDanglingPointers, Linked, LinkedPages, PointsInto, PathGood
<1>4. NodesInBounds
  <2>1. \A node \in RealNodes : Len(node.cells) \in Nat
    BY CellFacts
  <2> QED
    BY <1>2, <2>1, BTreeAssumption DEF NodesInBounds, InBounds, MaxCells
<1> QED
  BY <1>3, <1>4

\* A page handed out disturbs no page in use.
LEMMA StoreAllocs ==
  ASSUME Store!TypeOK, PagesGood, NEW p \in PageNums, Store!Alloc(p)
  PROVE  /\ Store!TypeOK' /\ PagesGood'
         /\ p \in owned' /\ view'[p] = Zero
         /\ \A q \in LinkedPages : q \in LinkedPages' /\ view'[q] = view[q]
<1> USE DEF Store!TypeOK, Store!Alloc
<1>1. Store!TypeOK'
  BY PageFacts
<1>2. \A q \in LinkedPages : q \in LinkedPages' /\ view'[q] = view[q]
  BY DEF LinkedPages
<1>3. \A q \in PageNums : \A node \in {view'[q], disk'[q]} :
        node # Zero => node \in {view[q], disk[q]}
  OBVIOUS
<1>4. PagesGood'
  BY <1>2, <1>3 DEF PagesGood, PointsInto
<1> QED
  BY <1>1, <1>2, <1>4

\* Neither does a node whose own pointers are good, wherever it is written,
\* and whether or not it gets to the disk.
LEMMA StoreWrites ==
  ASSUME Store!TypeOK, PagesGood, NEW p \in PageNums, NEW node \in RealNodes,
         PointsInto(node, LinkedPages), InBounds(node),
         Store!Write(p, node) \/ Store!WriteFails(p, node)
  PROVE  /\ Store!TypeOK' /\ PagesGood'
         /\ owned' = owned /\ view' = [view EXCEPT ![p] = node]
         /\ view'[p] = node
         /\ \A q \in LinkedPages : q \in LinkedPages'
         /\ \A q \in PageNums : q # p => view'[q] = view[q]
         /\ Store!Write(p, node) => p \in LinkedPages'
<1> USE DEF Store!TypeOK, Store!Write, Store!WriteFails
<1>1. node \in Pages /\ node # Zero
  BY PageFacts, CellFacts
<1>2. Store!TypeOK' /\ owned' = owned /\ view' = [view EXCEPT ![p] = node]
  BY <1>1
<1>3. \A q \in PageNums : \A new \in {view'[q], disk'[q]} :
        new = node \/ new \in {view[q], disk[q]}
  OBVIOUS
<1>4. \A q \in LinkedPages : q \in LinkedPages'
  BY <1>1 DEF LinkedPages
<1>5. PagesGood'
  BY <1>3, <1>4 DEF PagesGood, PointsInto
<1>6. Store!Write(p, node) => p \in LinkedPages'
  BY <1>1 DEF LinkedPages
<1> QED
  BY <1>2, <1>4, <1>5, <1>6

----------------------------------------------------------------------------
\* Every step keeps the invariant

\* At the start there are no pages and no call.
LEMMA InitInv == Init => Inv
<1> SUFFICES ASSUME Init PROVE Inv
  OBVIOUS
<1> USE DEF Init
<1>1. Store!TypeOK
  BY PageFacts DEF Store!Init, Store!TypeOK
<1>2. path \in Seq(PageNums) /\ Len(path) = 0
  BY EmptySeq
<1>3. TypeOK
  BY <1>1, <1>2, PageFacts, BTreeAssumption, EmptySeq DEF TypeOK, PCs, NoResult
<1>4. PagesGood
  BY DEF Store!Init, PagesGood
<1> QED
  BY <1>2, <1>3, <1>4 DEF Inv, PathGood, WorkGood

\* A call that returns leaves nothing behind it but the pages.
LEMMA Returns ==
  ASSUME Store!TypeOK', PagesGood',
         NEW status \in {"none", "ok", "notfound", "error"},
         NEW rows \in Seq(LeafCells), Return(status, rows),
         root' \in PageNums \cup {NoPage}, root' # NoPage => root' \in LinkedPages',
         ioErrors' \in 0 .. MaxIOErrors
  PROVE  Inv'
<1> USE DEF Return
<1>1. path' \in Seq(PageNums) /\ Len(path') = 0
  BY EmptySeq
<1>2. TypeOK'
  BY <1>1, PageFacts DEF TypeOK, PCs
<1> QED
  BY <1>1, <1>2 DEF Inv, PathGood, WorkGood

\* Failing pager calls are counted up to their bound.
LEMMA IOErrorFacts ==
  ASSUME TypeOK, IOError \/ UNCHANGED ioErrors
  PROVE  ioErrors' \in 0 .. MaxIOErrors
  BY BTreeAssumption DEF TypeOK, IOError

\* What is written is a good node of the type of work.
LEMMA ImageFacts ==
  ASSUME Inv, pc \in {"write", "right", "root"}
  PROVE  /\ Image \in RealNodes /\ Image.type = work.type
         /\ PointsInto(Image, LinkedPages) /\ InBounds(Image)
         /\ Target \in PageNums
<1> USE DEF Inv, WorkGood
<1>1. /\ work \in RealNodes /\ PointsInto(work, LinkedPages)
      /\ Len(work.cells) \in Nat /\ MaxCells(work) \in Nat
      /\ work.type \in {"leaf", "internal"}
      /\ work.type = "internal" => Len(work.cells) >= 1
  BY CellFacts, BTreeAssumption DEF MaxCells
<1>2. Target \in PageNums
  BY FrontFacts DEF Target, TypeOK, PathGood, Store!TypeOK
<1>3. CASE pc = "root" \/ (pc = "write" /\ ~Overfull(work))
  <2>1. Image = work /\ InBounds(work)
    BY <1>1, <1>3 DEF Image, Overfull, InBounds
  <2> QED
    BY <1>1, <1>2, <2>1
<1>4. CASE pc = "right" \/ (pc = "write" /\ Overfull(work))
  <2>1. Overfull(work) /\ Len(work.cells) = MaxCells(work) + 1
    BY <1>1, <1>4 DEF Overfull
  <2>2. Image \in {LeftHalf(work), RightHalf(work)}
    BY <1>4, <2>1 DEF Image
  <2>3. /\ Image \in RealNodes /\ Image.type = work.type
        /\ work.type = "internal" => Children(Image) \subseteq Children(work)
        /\ Len(Image.cells) \in 1 .. MaxCells(work)
    BY <1>1, <2>1, <2>2, HalfFacts
  <2>4. MaxCells(Image) = MaxCells(work)
    BY <2>3 DEF MaxCells
  <2> QED
    BY <1>1, <1>2, <2>3, <2>4 DEF PointsInto, InBounds
<1> HIDE DEF Inv, WorkGood
<1> QED
  BY <1>3, <1>4

\* Hence a write leaves good pages, done or failed.
LEMMA ImageWritten ==
  ASSUME Inv, pc \in {"write", "right", "root"},
         Store!Write(Target, Image) \/ Store!WriteFails(Target, Image)
  PROVE  /\ Store!TypeOK' /\ PagesGood'
         /\ owned' = owned /\ view'[Target] = Image
         /\ \A q \in LinkedPages : q \in LinkedPages'
         /\ \A q \in PageNums : q # Target => view'[q] = view[q]
         /\ Store!Write(Target, Image) => Target \in LinkedPages'
<1>1. Store!TypeOK /\ PagesGood
  BY DEF Inv, TypeOK
<1> QED
  BY <1>1, ImageFacts, StoreWrites

\* NewBTree has a fresh page and an empty leaf for it.
LEMMA NewBTreeStep == ASSUME Inv, NewBTree PROVE Inv'
<1> USE DEF NewBTree, Inv
<1>1. PICK p \in Fresh : Allocates(p)
  OBVIOUS
<1>2. p \in PageNums /\ Store!Alloc(p) /\ fresh' = p
  BY <1>1 DEF Fresh, Allocates
<1>3. Store!TypeOK' /\ PagesGood' /\ p \in owned' /\ view'[p] = Zero
  BY <1>2, StoreAllocs DEF TypeOK
<1>4. \A q \in LinkedPages : q \in LinkedPages'
  BY <1>2, StoreAllocs DEF TypeOK
<1>5. /\ work' \in RealNodes /\ work'.type = "leaf" /\ work'.cells = <<>>
  BY LeafIsNode, EmptySeq
<1>6. InBounds(work')
  BY <1>5, EmptySeq, BTreeAssumption DEF InBounds, MaxCells
<1>7. TypeOK'
  BY <1>2, <1>3, <1>5, PageFacts, EmptySeq DEF TypeOK, PCs, NoResult
<1>8. PathGood'
  BY <1>4 DEF PathGood
<1>9. WorkGood'
  BY <1>2, <1>3, <1>5, <1>6 DEF WorkGood, PointsInto
<1> QED
  BY <1>3, <1>7, <1>8, <1>9

\* A call begins at the root.
LEMMA CallStep == ASSUME Inv, NEW r \in Requests, Call(r) PROVE Inv'
<1> USE DEF Call, Inv
<1>1. path' \in Seq(PageNums) /\ Len(path') = 1 /\ path'[1] = root
  BY DEF TypeOK
<1>2. TypeOK'
  BY <1>1, EmptySeq DEF TypeOK, PCs, NoResult, Store!TypeOK
<1>3. PagesGood'
  BY DEF PagesGood, LinkedPages
<1>4. PathGood'
  BY <1>1 DEF PathGood, LinkedPages
<1>5. WorkGood'
  BY DEF WorkGood
<1> QED
  BY <1>2, <1>3, <1>4, <1>5

\* What a step reads.
LEMMA NodeAt ==
  ASSUME Inv, NEW p \in LinkedPages
  PROVE  /\ p \in PageNums /\ p \in owned /\ view[p] \in RealNodes
         /\ PointsInto(view[p], LinkedPages) /\ InBounds(view[p])
  BY PageFacts DEF Inv, TypeOK, Store!TypeOK, PagesGood, LinkedPages

\* The pages that a call has come through are linked.
LEMMA PathFacts ==
  ASSUME Inv, path # <<>>
  PROVE  /\ Len(path) \in Nat \ {0} /\ path \in Seq(PageNums)
         /\ Last(path) = path[Len(path)]
         /\ Last(path) \in LinkedPages /\ Head(path) \in LinkedPages
<1>1. Len(path) \in Nat \ {0} /\ path \in Seq(PageNums)
  BY LenProperties, EmptySeq DEF Inv, TypeOK
<1>2. Head(path) = path[1] /\ Last(path) = path[Len(path)]
  BY <1>1, HeadTailProperties DEF Last
<1> QED
  BY <1>1, <1>2 DEF Inv, PathGood

\* A step that leaves the pages alone leaves the links.
LEMMA StoreKept ==
  ASSUME Inv, UNCHANGED <<view, disk, owned>>
  PROVE  Store!TypeOK' /\ PagesGood' /\ LinkedPages' = LinkedPages
  BY DEF Inv, TypeOK, Store!TypeOK, PagesGood, LinkedPages

\* A call that returns after it has read.
LEMMA ReadReturns ==
  ASSUME Inv, UNCHANGED <<view, disk, owned, root>>,
         NEW status \in {"ok", "notfound", "error"},
         NEW rows \in Seq(LeafCells), Return(status, rows),
         IOError \/ UNCHANGED ioErrors
  PROVE  Inv'
<1>1. Store!TypeOK' /\ PagesGood' /\ LinkedPages' = LinkedPages
  BY StoreKept
<1>2. TypeOK /\ (root # NoPage => root \in LinkedPages)
  BY DEF Inv, PathGood
<1>3. ioErrors' \in 0 .. MaxIOErrors /\ root' \in PageNums \cup {NoPage}
  BY <1>2, IOErrorFacts DEF TypeOK
<1> QED
  BY <1>1, <1>2, <1>3, Returns

\* The search turns to a child of the node it has read.
LEMMA DescendInternalStep == ASSUME Inv, DescendInternal PROVE Inv'
<1> USE DEF DescendInternal
<1> DEFINE node == view[Last(path)]
<1>1. path # <<>> /\ TypeOK /\ req \in Requests /\ req.op # "scan"
  BY DEF Inv, PathGood, WorkGood
<1>2. /\ Last(path) \in LinkedPages /\ Last(path) = path[Len(path)]
      /\ path \in Seq(PageNums) /\ Len(path) \in Nat \ {0}
  BY <1>1, PathFacts
<1>3. node \in RealNodes /\ node.type = "internal" /\ PointsInto(node, LinkedPages)
  BY <1>2, NodeAt
<1>4. PICK i \in 1 .. Len(node.cells) + 1 : path' = Append(path, Child(node, i))
  BY DEF Turns
<1> HIDE DEF node
<1> DEFINE c == Child(node, i)
<1>5. c \in PageNums /\ c \in LinkedPages
  BY <1>3, <1>4, ChildFacts DEF PointsInto
<1> HIDE DEF c
<1>6. /\ path' \in Seq(PageNums) /\ Len(path') = Len(path) + 1
      /\ \A j \in 1 .. Len(path) : path'[j] = path[j]
      /\ path'[Len(path) + 1] = c
  BY <1>2, <1>4, <1>5, AppendProperties DEF c
<1>7. Store!TypeOK' /\ PagesGood' /\ LinkedPages' = LinkedPages
  BY StoreKept
<1>8. TypeOK'
  BY <1>1, <1>6, <1>7 DEF TypeOK
<1>9. PathGood'
  <2>1. path' # <<>>
    BY <1>2, <1>6, EmptySeq
  <2>2. \A j \in 1 .. Len(path') : path'[j] \in LinkedPages'
    BY <1>2, <1>5, <1>6, <1>7 DEF Inv, PathGood
  <2>3. \A j \in 1 .. Len(path') - 1 : view'[path'[j]].type = "internal"
    BY <1>2, <1>3, <1>6 DEF Inv, PathGood, node
  <2> QED
    BY <1>7, <2>1, <2>2, <2>3 DEF Inv, PathGood
<1>10. WorkGood'
  BY <1>1 DEF WorkGood
<1> QED
  BY <1>7, <1>8, <1>9, <1>10 DEF Inv

\* Search returns with the row, or with none.
LEMMA SearchLeafStep == ASSUME Inv, SearchLeaf PROVE Inv'
<1> USE DEF SearchLeaf
<1> DEFINE node == view[Last(path)]
<1>1. path # <<>>
  BY DEF Inv, PathGood
<1>2. node \in RealNodes /\ node.type = "leaf"
  BY <1>1, PathFacts, NodeAt
<1>3. \A i \in Positions(node.cells, req.key) : node.cells[i] \in LeafCells
  BY <1>2, CellFacts DEF Positions
<1>4. CASE Return("notfound", <<>>)
  BY <1>4, ReadReturns, EmptySeq
<1>5. CASE \E i \in Positions(node.cells, req.key) : Return("ok", <<node.cells[i]>>)
  <2>1. PICK i \in Positions(node.cells, req.key) : Return("ok", <<node.cells[i]>>)
    BY <1>5
  <2>2. <<node.cells[i]>> \in Seq(LeafCells)
    BY <1>3
  <2> QED
    BY <2>1, <2>2, ReadReturns
<1> QED
  BY <1>4, <1>5

\* Insert and Delete have prepared a leaf to be written.
LEMMA LeafPrepared ==
  ASSUME Inv, pc = "descend", pc' = "write",
         NEW cells \in Seq(LeafCells), work' = Leaf(cells),
         view[Last(path)].type = "leaf",
         Len(cells) <= Len(view[Last(path)].cells) + 1,
         UNCHANGED <<view, disk, owned, root, req, path, fresh, res, ioErrors>>
  PROVE  Inv'
<1> DEFINE node == view[Last(path)]
<1>1. path # <<>> /\ TypeOK
  BY DEF Inv, PathGood
<1>2. /\ node \in RealNodes /\ InBounds(node)
      /\ Len(node.cells) \in Nat /\ Len(cells) \in Nat
  BY <1>1, PathFacts, NodeAt, CellFacts, LenProperties
<1>3. work' \in RealNodes /\ work'.type = "leaf" /\ work'.cells = cells
  BY LeafIsNode
<1>4. Store!TypeOK' /\ PagesGood' /\ LinkedPages' = LinkedPages
  BY StoreKept
<1>5. TypeOK'
  BY <1>1, <1>3, <1>4, PageFacts DEF TypeOK, PCs
<1>6. PathGood'
  BY <1>4 DEF Inv, PathGood
<1>7. Len(cells) <= MaxLeafCells + 1
  BY <1>2, BTreeAssumption DEF InBounds, MaxCells
<1>8. WorkGood'
  BY <1>3, <1>7 DEF WorkGood, PointsInto, MaxCells
<1> QED
  BY <1>4, <1>5, <1>6, <1>8 DEF Inv

\* Insert has a leaf in hand with at most one row too many.
LEMMA InsertLeafStep == ASSUME Inv, InsertLeaf PROVE Inv'
<1> USE DEF InsertLeaf
<1> DEFINE node == view[Last(path)]
           cell == [key |-> req.key, value |-> req.val]
<1>1. path # <<>> /\ req \in Requests /\ req.op = "insert"
  BY DEF Inv, PathGood, WorkGood
<1>2. cell \in LeafCells
  BY <1>1 DEF Requests, LeafCells
<1>3. node \in RealNodes /\ node.type = "leaf" /\ node.cells \in Seq(LeafCells)
      /\ Len(node.cells) \in Nat
  BY <1>1, PathFacts, NodeAt, CellFacts
<1> HIDE DEF cell
<1>4. CASE \E i \in Positions(node.cells, req.key) :
             work' = Leaf([node.cells EXCEPT ![i] = cell])
  <2>1. PICK i \in 1 .. Len(node.cells) :
          work' = Leaf([node.cells EXCEPT ![i] = cell])
    BY <1>4 DEF Positions
  <2> DEFINE cells == [node.cells EXCEPT ![i] = cell]
  <2>2. cells \in Seq(LeafCells) /\ Len(cells) = Len(node.cells)
    BY <1>2, <1>3, <2>1, ExceptSeq
  <2> HIDE DEF cells
  <2>3. work' = Leaf(cells) /\ Len(cells) <= Len(node.cells) + 1
    BY <1>3, <2>1, <2>2 DEF cells
  <2> QED
    BY <1>3, <2>2, <2>3, LeafPrepared
<1>5. CASE \E i \in Slots(node.cells, req.key) :
             work' = Leaf(InsertAt(node.cells, i, cell))
  <2>1. PICK i \in 1 .. Len(node.cells) + 1 :
          work' = Leaf(InsertAt(node.cells, i, cell))
    BY <1>5 DEF Slots
  <2> DEFINE cells == InsertAt(node.cells, i, cell)
  <2>2. cells \in Seq(LeafCells) /\ Len(cells) = Len(node.cells) + 1
    BY <1>2, <1>3, <2>1, InsertAtFacts
  <2> HIDE DEF cells
  <2>3. work' = Leaf(cells) /\ Len(cells) <= Len(node.cells) + 1
    BY <1>3, <2>1, <2>2 DEF cells
  <2> QED
    BY <1>3, <2>2, <2>3, LeafPrepared
<1> QED
  BY <1>4, <1>5 DEF cell

\* Delete has a leaf in hand with one row less, or returns.
LEMMA DeleteLeafStep == ASSUME Inv, DeleteLeaf PROVE Inv'
<1> USE DEF DeleteLeaf
<1> DEFINE node == view[Last(path)]
<1>1. path # <<>>
  BY DEF Inv, PathGood
<1>2. node \in RealNodes /\ node.type = "leaf" /\ node.cells \in Seq(LeafCells)
      /\ Len(node.cells) \in Nat
  BY <1>1, PathFacts, NodeAt, CellFacts
<1>3. CASE Return("notfound", <<>>)
  BY <1>3, ReadReturns, EmptySeq
<1>4. CASE /\ \E i \in Positions(node.cells, req.key) :
                work' = Leaf(RemoveAt(node.cells, i))
           /\ pc' = "write"
           /\ UNCHANGED <<req, path, fresh, res>>
  <2>1. PICK i \in 1 .. Len(node.cells) : work' = Leaf(RemoveAt(node.cells, i))
    BY <1>4 DEF Positions
  <2> DEFINE cells == RemoveAt(node.cells, i)
  <2>2. cells \in Seq(LeafCells) /\ Len(cells) = Len(node.cells) - 1
    BY <1>2, <2>1, RemoveAtFacts
  <2> HIDE DEF cells
  <2>3. work' = Leaf(cells) /\ Len(cells) <= Len(node.cells) + 1
    BY <1>2, <2>1, <2>2 DEF cells
  <2> QED
    BY <1>2, <1>4, <2>2, <2>3, LeafPrepared
<1> QED
  BY <1>3, <1>4

\* A scan takes the rows of a leaf.
LEMMA ScanLeafStep == ASSUME Inv, ScanLeaf PROVE Inv'
<1> USE DEF ScanLeaf
<1> DEFINE node == view[Head(path)]
<1>1. TypeOK /\ Head(path) \in LinkedPages /\ path \in Seq(PageNums)
  BY PathFacts DEF Inv
<1>2. node.cells \in Seq(LeafCells)
  BY <1>1, NodeAt, CellFacts
<1>3. res'.rows \in Seq(LeafCells) /\ res'.status = res.status
  BY <1>1, <1>2, ConcatProperties DEF TypeOK
<1>4. /\ path' \in Seq(PageNums) /\ Len(path') = Len(path) - 1
      /\ \A i \in 1 .. Len(path') : path'[i] = path[i + 1]
  BY <1>1, HeadTailProperties
<1>5. Store!TypeOK' /\ PagesGood' /\ LinkedPages' = LinkedPages
  BY StoreKept
<1>6. TypeOK'
  BY <1>1, <1>3, <1>4, <1>5 DEF TypeOK
<1>7. \A i \in 1 .. Len(path') : path'[i] \in LinkedPages'
  <2>1. Len(path) \in Nat
    BY <1>1, LenProperties
  <2> QED
    BY <2>1, <1>4, <1>5 DEF Inv, PathGood
<1> QED
  BY <1>5, <1>6, <1>7 DEF Inv, PathGood, WorkGood

\* A scan has the children of a node to visit.
LEMMA ScanInternalStep == ASSUME Inv, ScanInternal PROVE Inv'
<1> USE DEF ScanInternal
<1> DEFINE node == view[Head(path)]
           n == Len(node.cells)
           children == [i \in 1 .. n + 1 |-> Child(node, i)]
<1>1. TypeOK /\ Head(path) \in LinkedPages /\ path \in Seq(PageNums)
  BY PathFacts DEF Inv
<1>2. /\ node \in RealNodes /\ node.type = "internal"
      /\ n \in Nat /\ PointsInto(node, LinkedPages)
  BY <1>1, NodeAt, CellFacts
<1>3. \A i \in 1 .. n + 1 : Child(node, i) \in PageNums \cap LinkedPages
  BY <1>2, ChildFacts DEF PointsInto
<1>4. /\ children \in Seq(PageNums) /\ Len(children) = n + 1
      /\ \A i \in 1 .. n + 1 : children[i] \in LinkedPages
  <2> HIDE DEF node, n
  <2>1. n + 1 \in Nat /\ \A i \in 1 .. n + 1 : Child(node, i) \in PageNums
    BY <1>2, <1>3
  <2>2. children \in Seq(PageNums)
    BY <2>1, IsASeq
  <2> QED
    BY <1>3, <2>1, <2>2, LenProperties
<1>5. /\ Tail(path) \in Seq(PageNums) /\ Len(Tail(path)) \in Nat
      /\ \A i \in 1 .. Len(Tail(path)) : Tail(path)[i] \in LinkedPages
  <2>1. Len(path) \in Nat /\ Tail(path) \in Seq(PageNums)
        /\ Len(Tail(path)) = Len(path) - 1
        /\ \A i \in 1 .. Len(path) - 1 : Tail(path)[i] = path[i + 1]
    BY <1>1, HeadTailProperties, LenProperties
  <2>2. Len(path) >= 1 /\ \A i \in 1 .. Len(path) : path[i] \in LinkedPages
    BY <1>1, PathFacts DEF Inv, PathGood
  <2> QED
    BY <2>1, <2>2
<1>6. path' = children \o Tail(path)
  OBVIOUS
<1> HIDE DEF children, node
<1>7. /\ path' \in Seq(PageNums)
      /\ \A i \in 1 .. Len(path') : path'[i] \in LinkedPages
  <2> DEFINE tail == Tail(path)
  <2> HIDE DEF n, tail
  <2>1. /\ children \o tail \in Seq(PageNums)
        /\ Len(children \o tail) = Len(children) + Len(tail)
        /\ \A i \in 1 .. Len(children) + Len(tail) :
             (children \o tail)[i] = IF i <= Len(children) THEN children[i]
                                     ELSE tail[i - Len(children)]
    BY <1>4, <1>5, ConcatProperties DEF tail
  <2>2. path' = children \o tail
    BY <1>6 DEF tail
  <2>3. Len(children) \in Nat /\ Len(tail) \in Nat
    BY <1>4, <1>5, LenProperties DEF tail
  <2>4. /\ \A i \in 1 .. Len(children) : children[i] \in LinkedPages
        /\ \A i \in 1 .. Len(tail) : tail[i] \in LinkedPages
    BY <1>4, <1>5 DEF tail
  <2> SUFFICES ASSUME NEW i \in 1 .. Len(children) + Len(tail)
               PROVE  (children \o tail)[i] \in LinkedPages
    BY <2>1, <2>2
  <2>5. CASE i <= Len(children)
    BY <2>1, <2>3, <2>4, <2>5
  <2>6. CASE ~(i <= Len(children))
    <3>1. i - Len(children) \in 1 .. Len(tail)
      BY <2>3, <2>6
    <3> QED
      BY <2>1, <2>4, <2>6, <3>1
  <2> QED
    BY <2>5, <2>6
<1>8. Store!TypeOK' /\ PagesGood' /\ LinkedPages' = LinkedPages
  BY StoreKept
<1>9. TypeOK'
  BY <1>1, <1>7, <1>8 DEF TypeOK
<1> QED
  BY <1>7, <1>8, <1>9 DEF Inv, PathGood, WorkGood

\* A scan with no page left to visit returns its rows.
LEMMA ScanReturnsStep == ASSUME Inv, ScanReturns PROVE Inv'
<1>1. res.rows \in Seq(LeafCells)
  BY DEF Inv, TypeOK
<1> QED
  BY <1>1, ReadReturns DEF ScanReturns

\* A call that returns after it has written, or has failed to.
LEMMA WriteReturns ==
  ASSUME Inv, pc \in {"write", "right", "root"},
         \/ Store!Write(Target, Image)
         \/ Store!WriteFails(Target, Image) /\ UNCHANGED root,
         \/ UNCHANGED root
         \/ root' = Target,
         NEW status \in {"ok", "error"}, Return(status, <<>>),
         IOError \/ UNCHANGED ioErrors
  PROVE  Inv'
<1>1. TypeOK /\ (root # NoPage => root \in LinkedPages) /\ Target \in PageNums
  BY ImageFacts DEF Inv, PathGood
<1>2. /\ Store!TypeOK' /\ PagesGood'
      /\ \A q \in LinkedPages : q \in LinkedPages'
      /\ Store!Write(Target, Image) => Target \in LinkedPages'
  BY ImageWritten
<1>3. root' \in PageNums \cup {NoPage} /\ (root' # NoPage => root' \in LinkedPages')
  BY <1>1, <1>2 DEF TypeOK
<1>4. ioErrors' \in 0 .. MaxIOErrors
  BY <1>1, IOErrorFacts
<1> QED
  BY <1>2, <1>3, <1>4, Returns, EmptySeq

\* Calls that return after a write or an error.
LEMMA WriteWholeStep == ASSUME Inv, WriteWhole PROVE Inv'
  BY WriteReturns DEF WriteWhole, WritesImage

\* The last write of a call that split the root.
LEMMA WriteRootStep == ASSUME Inv, WriteRoot PROVE Inv'
  BY WriteReturns DEF WriteRoot, WritesImage, Target

\* A call whose write the disk refuses.
LEMMA WriteFailsStep == ASSUME Inv, WriteFails PROVE Inv'
  BY WriteReturns DEF WriteFails

\* A call that cannot read the node it is at.
LEMMA ReadFailsStep == ASSUME Inv, ReadFails PROVE Inv'
  BY ReadReturns, EmptySeq DEF ReadFails

\* A split that gets no page.
LEMMA AllocateFailsStep == ASSUME Inv, AllocateFails PROVE Inv'
  BY ReadReturns, EmptySeq DEF AllocateFails

\* A NewBTree whose page cannot be allocated or written.
LEMMA NewBTreeFailsStep == ASSUME Inv, NewBTreeFails PROVE Inv'
<1> USE DEF NewBTreeFails, call
<1>1. Store!TypeOK' /\ PagesGood' /\ LinkedPages' = LinkedPages
  BY StoreKept
<1>2. TypeOK'
  BY <1>1, IOErrorFacts DEF Inv, TypeOK
<1> QED
  BY <1>1, <1>2 DEF Inv, PathGood, WorkGood

\* A panic leaves the pages and the call as they are.
LEMMA PanicsStep ==
  ASSUME Inv, ReadPanics \/ WritePanics
  PROVE  Inv'
<1>1. Panics
  BY DEF ReadPanics, WritePanics
<1>2. Store!TypeOK' /\ PagesGood' /\ LinkedPages' = LinkedPages
  BY <1>1, StoreKept DEF Panics
<1>3. TypeOK'
  BY <1>1, <1>2 DEF Inv, TypeOK, Panics, PCs, call
<1> QED
  BY <1>1, <1>2, <1>3 DEF Inv, PathGood, WorkGood, Panics, call

\* The left half is within bounds, and its pointers are linked.
LEMMA WriteLeftStep == ASSUME Inv, WriteLeft PROVE Inv'
<1> USE DEF WriteLeft, WritesImage
<1>1. /\ path # <<>> /\ TypeOK /\ Target = Last(path) /\ Last(path) \in PageNums
      /\ Last(path) = path[Len(path)]
  BY PathFacts, NodeAt DEF Inv, PathGood, Target
<1>2. /\ Store!TypeOK' /\ PagesGood' /\ owned' = owned
      /\ view'[Last(path)] = Image /\ Image.type = work.type
      /\ \A q \in LinkedPages : q \in LinkedPages'
      /\ \A q \in PageNums : q # Last(path) => view'[q] = view[q]
  BY <1>1, ImageWritten, ImageFacts
<1>3. TypeOK'
  BY <1>1, <1>2 DEF TypeOK, PCs
<1>4. \A i \in 1 .. Len(path) - 1 : view'[path[i]].type = "internal"
  <2>1. Len(path) \in Nat /\ \A i \in 1 .. Len(path) : path[i] \in PageNums
    BY <1>1, LenProperties DEF TypeOK
  <2>2. \A i \in 1 .. Len(path) - 1 : view[path[i]].type = "internal"
    BY DEF Inv, PathGood
  <2>3. work.type = view[Last(path)].type
    BY DEF Inv, WorkGood
  <2> QED
    BY <1>2, <2>1, <2>2, <2>3
<1>5. PathGood'
  BY <1>1, <1>2, <1>4 DEF Inv, PathGood
<1>6. WorkGood'
  BY <1>1, <1>2 DEF Inv, WorkGood, PointsInto
<1> QED
  BY <1>2, <1>3, <1>5, <1>6 DEF Inv

\* The page for the right half, or for a new root.
LEMMA AllocateStep == ASSUME Inv, AllocateRight \/ AllocateRoot PROVE Inv'
<1> USE DEF AllocateRight, AllocateRoot
<1>1. PICK p \in Fresh : Allocates(p)
  OBVIOUS
<1>2. p \in PageNums /\ Store!Alloc(p) /\ fresh' = p
  BY <1>1 DEF Fresh, Allocates
<1>3. /\ Store!TypeOK' /\ PagesGood' /\ p \in owned' /\ view'[p] = Zero
      /\ \A q \in LinkedPages : q \in LinkedPages' /\ view'[q] = view[q]
  BY <1>2, StoreAllocs DEF Inv, TypeOK
<1>4. TypeOK'
  BY <1>2, <1>3 DEF Inv, TypeOK, PCs
<1>5. path # <<>> /\ Last(path) \in LinkedPages /\ Len(path) \in Nat \ {0}
  BY PathFacts DEF Inv, PathGood
<1>6. PathGood'
  BY <1>3, <1>5 DEF Inv, PathGood
<1>7. WorkGood'
  BY <1>2, <1>3, <1>5 DEF Inv, WorkGood, PointsInto
<1> QED
  BY <1>3, <1>4, <1>6, <1>7 DEF Inv

\* The right half is written on a page that no pointer leads to.
LEMMA RightWritten ==
  ASSUME Inv, pc = "right", WritesImage
  PROVE  /\ Store!TypeOK' /\ PagesGood' /\ owned' = owned
         /\ fresh \in LinkedPages' /\ fresh \in PageNums
         /\ \A q \in LinkedPages : q \in LinkedPages' /\ view'[q] = view[q]
<1>1. Target = fresh /\ view[fresh] = Zero
  BY DEF Target, Inv, WorkGood
<1>2. \A q \in LinkedPages : q # fresh /\ q \in PageNums
  BY <1>1, NodeAt DEF LinkedPages
<1> QED
  BY <1>1, <1>2, ImageWritten, ImageFacts DEF WritesImage

\* The parent takes the page of the right half, which is written by then.
LEMMA WriteRightStep == ASSUME Inv, WriteRight PROVE Inv'
<1> USE DEF WriteRight
<1> DEFINE parent == view[path[Len(path) - 1]]
           n == Len(path)
<1>1. /\ Store!TypeOK' /\ PagesGood' /\ owned' = owned
      /\ fresh \in LinkedPages' /\ fresh \in PageNums
      /\ \A q \in LinkedPages : q \in LinkedPages' /\ view'[q] = view[q]
  BY RightWritten
<1>2. /\ path # <<>> /\ TypeOK /\ path \in Seq(PageNums)
      /\ n \in Nat /\ n > 1 /\ \A i \in 1 .. n : path[i] \in LinkedPages
      /\ Last(path) = path[n] /\ Last(path) \in PageNums
  BY PathFacts, NodeAt DEF Inv, PathGood
<1>3. /\ parent \in RealNodes /\ parent.type = "internal"
      /\ PointsInto(parent, LinkedPages) /\ InBounds(parent)
  <2>1. n - 1 \in 1 .. n - 1
    BY <1>2
  <2> QED
    BY <1>2, <2>1, NodeAt DEF Inv, PathGood
<1>4. CASE CutOff(parent)
  <2>1. TypeOK'
    BY <1>1, <1>2, <1>4 DEF TypeOK, PCs
  <2>2. PathGood' /\ WorkGood'
    BY <1>1, <1>2, <1>4 DEF Inv, PathGood, WorkGood
  <2> QED
    BY <1>1, <2>1, <2>2 DEF Inv
<1>5. CASE ~CutOff(parent)
  <2> DEFINE k == PromotedKey(work)
  <2>1. PICK i \in 1 .. Len(parent.cells) + 1 :
          work' = WithSplitChild(parent, i, k, Last(path), fresh)
    BY <1>5 DEF Slots
  <2>2. k \in Keys
    BY HalfFacts DEF Inv, WorkGood
  <2> HIDE DEF parent, k
  <2>3. /\ work' \in RealNodes /\ work'.type = "internal"
        /\ Len(work'.cells) = Len(parent.cells) + 1
        /\ Children(work') \subseteq Children(parent) \cup {Last(path), fresh}
    BY <1>1, <1>2, <1>3, <2>1, <2>2, SplitChildFacts
  <2>4. /\ path' = Front(path) /\ path' \in Seq(PageNums)
        /\ Len(path') = n - 1 /\ \A j \in 1 .. n - 1 : path'[j] = path[j]
    BY <1>2, <1>5, FrontFacts DEF parent
  <2>5. path' # <<>> /\ Last(path') = path[n - 1]
    BY <1>2, <2>4, EmptySeq DEF Last
  <2>6. TypeOK'
    BY <1>1, <1>2, <1>5, <2>3, <2>4, PageFacts DEF TypeOK, PCs, parent
  <2>7. \A j \in 1 .. n - 1 : view'[path'[j]].type = "internal"
    BY <1>1, <1>2, <2>4 DEF Inv, PathGood
  <2>8. PathGood'
    BY <1>1, <1>2, <1>5, <2>4, <2>5, <2>7 DEF Inv, PathGood, parent
  <2>9. PointsInto(work', LinkedPages')
    BY <1>1, <1>2, <1>3, <2>3 DEF PointsInto
  <2>10. Len(work'.cells) >= 1 /\ Len(work'.cells) <= MaxCells(work') + 1
    BY <1>3, <2>3, CellFacts, BTreeAssumption DEF InBounds, MaxCells
  <2>11. view'[Last(path')].type = "internal"
    BY <1>1, <1>2, <1>3, <2>5 DEF parent
  <2>12. WorkGood'
    BY <1>5, <2>3, <2>9, <2>10, <2>11 DEF WorkGood, parent
  <2> QED
    BY <1>1, <2>6, <2>8, <2>12 DEF Inv
<1> QED
  BY <1>4, <1>5

\* Both halves of the root are written, and the new root points to them.
LEMMA WriteRightOfRootStep == ASSUME Inv, WriteRightOfRoot PROVE Inv'
<1> USE DEF WriteRightOfRoot
<1> DEFINE cell == [child |-> Last(path), key |-> PromotedKey(work)]
<1>1. /\ Store!TypeOK' /\ PagesGood' /\ owned' = owned
      /\ fresh \in LinkedPages' /\ fresh \in PageNums
      /\ \A q \in LinkedPages : q \in LinkedPages' /\ view'[q] = view[q]
  BY RightWritten
<1>2. /\ path # <<>> /\ TypeOK
      /\ Last(path) \in LinkedPages /\ Last(path) \in PageNums
  BY PathFacts, NodeAt DEF Inv, PathGood
<1>3. PromotedKey(work) \in Keys
  BY HalfFacts DEF Inv, WorkGood
<1>4. cell \in InternalCells /\ cell.child = Last(path)
  BY <1>2, <1>3 DEF InternalCells
<1> HIDE DEF cell
<1>5. /\ <<cell>> \in Seq(InternalCells) /\ Len(<<cell>>) = 1 /\ <<cell>>[1] = cell
  BY <1>4
<1>6. /\ work' \in RealNodes /\ work'.type = "internal"
      /\ work'.cells = <<cell>> /\ work'.right = fresh
  BY <1>1, <1>5, InternalIsNode DEF cell
<1>7. Children(work') \subseteq {Last(path), fresh}
  <2>1. Children(work') = {<<cell>>[j].child : j \in 1 .. 1} \cup {fresh}
    BY <1>5, <1>6, ChildFacts
  <2> QED
    BY <2>1, <1>4, <1>5
<1>8. TypeOK'
  BY <1>1, <1>2, <1>6, PageFacts DEF TypeOK, PCs
<1>9. PathGood'
  BY <1>1, <1>2 DEF Inv, PathGood
<1>10. PointsInto(work', LinkedPages')
  BY <1>1, <1>2, <1>7 DEF PointsInto
<1>11. Len(work'.cells) = 1
  BY <1>5, <1>6
<1>12. InBounds(work')
  <2>1. MaxCells(work') = MaxInternalCells
    BY <1>6 DEF MaxCells
  <2>2. MaxInternalCells \in Nat /\ MaxInternalCells >= 1
    BY BTreeAssumption
  <2> HIDE DEF WriteRightOfRoot
  <2> QED
    BY <1>11, <2>1, <2>2 DEF InBounds
<1>13. WorkGood'
  <2>1. pc' = "rootalloc" /\ Len(work'.cells) >= 1
    BY <1>11
  <2> HIDE DEF WriteRightOfRoot
  <2> QED
    BY <1>6, <1>10, <1>12, <2>1 DEF WorkGood
<1> QED
  BY <1>1, <1>8, <1>9, <1>13 DEF Inv

\* Every step keeps the invariant.
LEMMA InvStep == Inv /\ [Next]_vars => Inv'
<1> SUFFICES ASSUME Inv, [Next]_vars PROVE Inv'
  OBVIOUS
<1>1. CASE NewBTree \/ NewBTreeFails
  BY <1>1, NewBTreeStep, NewBTreeFailsStep
<1>2. CASE \E r \in Requests : Call(r)
  BY <1>2, CallStep
<1>3. CASE DescendInternal \/ SearchLeaf \/ InsertLeaf \/ DeleteLeaf
  BY <1>3, DescendInternalStep, SearchLeafStep, InsertLeafStep, DeleteLeafStep
<1>4. CASE ScanLeaf \/ ScanInternal \/ ScanReturns
  BY <1>4, ScanLeafStep, ScanInternalStep, ScanReturnsStep
<1>5. CASE \/ WriteWhole \/ WriteLeft \/ AllocateRight \/ WriteRight
           \/ WriteRightOfRoot \/ AllocateRoot \/ WriteRoot
  BY <1>5, WriteWholeStep, WriteLeftStep, AllocateStep, WriteRightStep,
     WriteRightOfRootStep, WriteRootStep
<1>6. CASE ReadFails \/ WriteFails \/ AllocateFails \/ ReadPanics \/ WritePanics
  BY <1>6, ReadFailsStep, WriteFailsStep, AllocateFailsStep, PanicsStep
<1>7. CASE UNCHANGED vars
  <2>1. Store!TypeOK' /\ PagesGood' /\ LinkedPages' = LinkedPages
    BY <1>7, StoreKept DEF vars
  <2> QED
    BY <1>7, <2>1 DEF Inv, TypeOK, PathGood, WorkGood, vars, call
<1> QED
  BY <1>1, <1>2, <1>3, <1>4, <1>5, <1>6, <1>7 DEF Next, Proceed

\* The types, bounds and links are an inductive invariant.
THEOREM Invariance == Spec => []Inv
  BY InitInv, InvStep, PTL DEF Spec

----------------------------------------------------------------------------

\* Every variable keeps its type: in particular only pages that the pager
\* handed out are read and written, and a split never asks for a cell that a
\* node does not have (writeLeafCells, writeInternalCells).
THEOREM TypeCorrect == Spec => []TypeOK
  BY Invariance, InvGives, PTL

\* In every tree, whatever fails and whenever the process is cut short, a
\* pointer in memory or on disk leads to a page that was handed out and holds
\* a node: the order of the writes of a split, halves before parents, is
\* what keeps it so.
THEOREM PointersLinked == Spec => []NoDanglingPointers
  BY Invariance, InvGives, PTL

\* No page ever holds a node of more cells than the limits of btree.go:29, or
\* an internal node without a key.
THEOREM Bounded == Spec => []NodesInBounds
  BY Invariance, InvGives, PTL

----------------------------------------------------------------------------
\* A tree, seen without recursion

\* The pointers of a node, by their slot.
Ways(node) ==
  IF node.type = "internal" THEN 1 .. Len(node.cells) + 1 ELSE {}

\* A key that lies where slot i of a node leads to.
Between(node, i, k) ==
  /\ i > 1 => node.cells[i - 1].key <= k
  /\ i <= Len(node.cells) => k < node.cells[i].key

Ascending(cells) ==
  \A i, j \in 1 .. Len(cells) : i < j => cells[i].key < cells[j].key

\* keys: the keys allowed in and under this node; under: the same of the others.
Sorted(node, keys, under) ==
  /\ Ascending(node.cells)
  /\ \A i \in 1 .. Len(node.cells) : node.cells[i].key \in keys
  /\ \A i \in Ways(node) : \A k \in under[Child(node, i)] :
       k \in keys /\ Between(node, i, k)

\* h is the height of every page, of those outside the tree too.
Ranked(m, h) ==
  \A p \in PageNums :
    /\ m[p].type # "internal" => h[p] = 0
    /\ \A i \in Ways(m[p]) : h[p] = h[Child(m[p], i)] + 1

HalfFullNode(node) ==
  node.type = "internal" => Len(node.cells) >= MaxInternalCells \div 2

Typed(m, T, h, under) ==
  /\ m \in [PageNums -> Pages]
  /\ T \subseteq PageNums
  /\ h \in [PageNums -> Nat]
  /\ under \in [PageNums -> SUBSET Int]

\* p holds a node of a tree with pages of T, under one of the tops.
TreePage(m, T, under, tops, p) ==
  /\ m[p] \in RealNodes
  /\ Sorted(m[p], under[p], under)
  /\ \A i \in Ways(m[p]) : Child(m[p], i) \in T \ tops
  /\ p \notin tops => HalfFullNode(m[p])

\* No two pointers on the pages of T lead to the same page.
OneWayIn(m, T) ==
  \A p, q \in T : \A i \in Ways(m[p]), j \in Ways(m[q]) :
    Child(m[p], i) = Child(m[q], j) => p = q /\ i = j

\* The nodes on the pages of T are those of B-Trees, each under one of the tops,
\* or under a page that nothing leads to: the right half of a top that has split.
Tree(m, T, h, under, tops) ==
  /\ Typed(m, T, h, under)
  /\ Ranked(m, h)
  /\ \A p \in T : TreePage(m, T, under, tops, p)
  /\ OneWayIn(m, T)

\* The pointers of a node lead to its children.
LEMMA WaysFacts ==
  ASSUME NEW node \in RealNodes
  PROVE  /\ Ways(node) \subseteq Nat \ {0}
         /\ \A i \in Ways(node) : /\ i \in 1 .. Len(node.cells) + 1
                                  /\ Child(node, i) \in PageNums
                                  /\ Child(node, i) \in Children(node)
         /\ node.type = "internal" => Ways(node) = 1 .. Len(node.cells) + 1
         /\ node.type # "internal" => Ways(node) = {}
         /\ node.type = "internal" => Children(node) = {Child(node, i) : i \in Ways(node)}
<1>1. Len(node.cells) \in Nat /\ node.type \in {"leaf", "internal"}
  BY CellFacts
<1> QED
  BY <1>1, ChildFacts DEF Ways, Children

----------------------------------------------------------------------------
\* The recursive definitions of BTree.tla, on pages that have heights

\* All that the recursion needs of h: pointers lead downwards.
Falling(m, h) == \A p \in PageNums : \A i \in Ways(m[p]) : h[Child(m[p], i)] < h[p]

\* The pointers of an internal page lead to lower pages.
LEMMA FallingPages ==
  ASSUME NEW m \in [PageNums -> Pages], NEW h \in [PageNums -> Nat], Falling(m, h),
         NEW p \in PageNums, m[p].type = "internal"
  PROVE  /\ m[p] \in RealNodes /\ Len(m[p].cells) + 1 \in Nat \ {0}
         /\ \A i \in 1 .. Len(m[p].cells) + 1 :
              Child(m[p], i) \in PageNums /\ h[Child(m[p], i)] < h[p]
<1>1. m[p] \in RealNodes
  BY PageFacts
<1>2. Len(m[p].cells) \in Nat /\ Ways(m[p]) = 1 .. Len(m[p].cells) + 1
  BY <1>1, CellFacts, WaysFacts
<1> QED
  BY <1>1, <1>2, WaysFacts DEF Falling

\* Pages that have heights do.
LEMMA RankedFalls ==
  ASSUME NEW m \in [PageNums -> Pages], NEW h \in [PageNums -> Nat], Ranked(m, h)
  PROVE  Falling(m, h)
<1> SUFFICES ASSUME NEW p \in PageNums, NEW i \in Ways(m[p])
             PROVE  h[Child(m[p], i)] < h[p]
  BY DEF Falling
<1>1. m[p].type = "internal" /\ m[p] \in RealNodes
  BY PageFacts DEF Ways
<1>2. Child(m[p], i) \in PageNums /\ h[p] = h[Child(m[p], i)] + 1
  BY <1>1, WaysFacts DEF Ranked
<1>3. \A q \in PageNums : h[q] \in Nat
  OBVIOUS
<1> QED
  BY <1>2, <1>3

\* With heights, to pages one lower.
LEMMA LowerPages ==
  ASSUME NEW m \in [PageNums -> Pages], NEW h \in [PageNums -> Nat], Ranked(m, h),
         NEW p \in PageNums, m[p].type = "internal"
  PROVE  /\ m[p] \in RealNodes /\ Len(m[p].cells) + 1 \in Nat \ {0}
         /\ \A i \in 1 .. Len(m[p].cells) + 1 :
              /\ Child(m[p], i) \in PageNums
              /\ h[Child(m[p], i)] < h[p] /\ h[p] = h[Child(m[p], i)] + 1
<1>1. m[p] \in RealNodes
  BY PageFacts
<1>2. Len(m[p].cells) \in Nat /\ Ways(m[p]) = 1 .. Len(m[p].cells) + 1
  BY <1>1, CellFacts, WaysFacts
<1>3. \A i \in 1 .. Len(m[p].cells) + 1 :
        Child(m[p], i) \in PageNums /\ h[p] = h[Child(m[p], i)] + 1
  BY <1>1, <1>2, WaysFacts DEF Ranked
<1>4. \A q \in PageNums : h[q] \in Nat
  OBVIOUS
<1> QED
  BY <1>1, <1>2, <1>3, <1>4

\* The recursion of Preorder exists: a page, then what lies under its pointers
\* from left to right.
LEMMA PreorderRecursion ==
  ASSUME NEW m \in [PageNums -> Pages], NEW h \in [PageNums -> Nat], Falling(m, h)
  PROVE  \A p \in PageNums :
           /\ Preorder(m, p) \in Seq(PageNums)
           /\ m[p].type # "internal" => Preorder(m, p) = <<p>>
           /\ m[p].type = "internal" =>
                Preorder(m, p) =
                  <<p>> \o FlattenSeq([i \in 1 .. Len(m[p].cells) + 1 |->
                                         Preorder(m, Child(m[p], i))])
<1> DEFINE S == Seq(PageNums)
           Parts(p, f) == [i \in 1 .. Len(m[p].cells) + 1 |-> f[Child(m[p], i)]]
           Body(p, f) == IF m[p].type = "internal"
                         THEN <<p>> \o FlattenSeq(Parts(p, f)) ELSE <<p>>
           Def == [p \in PageNums |-> [f \in [PageNums -> S] |-> Body(p, f)]]
<1>1. ASSUME NEW p \in PageNums, NEW f, \A q \in PageNums : h[q] < h[p] => f[q] \in S
      PROVE  Body(p, f) \in S
  <2>1. <<p>> \in Seq(PageNums)
    OBVIOUS
  <2>2. CASE m[p].type = "internal"
    <3> DEFINE n == Len(m[p].cells) + 1
    <3>1. n \in Nat \ {0} /\ \A i \in 1 .. n : f[Child(m[p], i)] \in S
      BY <1>1, <2>2, FallingPages
    <3>2. Parts(p, f) \in [1 .. n -> Seq(PageNums)]
      BY <3>1
    <3> HIDE DEF n, Parts
    <3>3. FlattenSeq(Parts(p, f)) \in Seq(PageNums)
      BY <3>1, <3>2, FlattenRange
    <3>4. <<p>> \o FlattenSeq(Parts(p, f)) \in Seq(PageNums)
      BY <2>1, <3>3, ConcatProperties
    <3> QED
      BY <2>2, <3>4
  <2>3. CASE m[p].type # "internal"
    BY <2>1, <2>3
  <2> QED
    BY <2>2, <2>3
<1>2. ASSUME NEW p \in PageNums, NEW f, NEW g,
             \A q \in PageNums : h[q] < h[p] => f[q] = g[q]
      PROVE  Body(p, f) = Body(p, g)
  <2>1. CASE m[p].type = "internal"
    <3>1. \A i \in 1 .. Len(m[p].cells) + 1 : f[Child(m[p], i)] = g[Child(m[p], i)]
      BY <1>2, <2>1, FallingPages
    <3>2. Parts(p, f) = Parts(p, g)
      BY <3>1
    <3> HIDE DEF Parts
    <3> QED
      BY <2>1, <3>2
  <2>2. CASE m[p].type # "internal"
    BY <2>2
  <2> QED
    BY <2>1, <2>2
<1>3. S # {}
  BY EmptySeq
<1> HIDE DEF S, Body
<1>4. Def \in [PageNums -> [[PageNums -> S] -> S]]
  BY <1>1
<1>5. \A p \in PageNums, f \in [PageNums -> S] : Def[p][f] = Body(p, f)
  OBVIOUS
<1> HIDE DEF Def
<1>6. RankedDefinition(PageNums, S, h, Def)
  <2>1. ASSUME NEW p \in PageNums, NEW f \in [PageNums -> S], NEW g \in [PageNums -> S],
               \A q \in PageNums : h[q] < h[p] => f[q] = g[q]
        PROVE  Def[p][f] = Def[p][g]
    <3>1. Def[p][f] = Body(p, f) /\ Def[p][g] = Body(p, g)
      BY <1>5
    <3> QED
      BY <1>2, <2>1, <3>1
  <2> QED
    BY <1>4, <2>1 DEF RankedDefinition
<1>7. PICK f \in [PageNums -> S] : \A p \in PageNums : f[p] = Def[p][f]
  BY <1>3, <1>6, RecursiveFunctionExists
<1>8. \A p \in PageNums : f[p] = Body(p, f)
  BY <1>5, <1>7
<1>9. f = [p \in PageNums |-> Body(p, f)]
  BY <1>8
<1> DEFINE pre == CHOOSE g : g = [p \in PageNums |-> Body(p, g)]
<1>10. pre = [p \in PageNums |-> Body(p, pre)]
  BY <1>9
<1>11. \A p \in PageNums : Preorder(m, p) = pre[p]
  BY DEF Preorder, Body
<1> HIDE DEF pre
<1>12. \A p \in PageNums : pre[p] = Body(p, pre)
  BY <1>10, Zenon
<1>13. \A p \in PageNums : pre[p] \in S
  <2> DEFINE T == {p \in PageNums : pre[p] \in S}
  <2>1. ASSUME NEW p \in PageNums, \A q \in PageNums : h[q] < h[p] => q \in T
        PROVE  p \in T
    <3>1. \A q \in PageNums : h[q] < h[p] => pre[q] \in S
      BY <2>1
    <3>2. Body(p, pre) \in S
      BY <1>1, <3>1
    <3> QED
      BY <1>12, <3>2
  <2> HIDE DEF T
  <2>2. \A p \in PageNums : p \in T
    BY <2>1, RankInduction
  <2> QED
    BY <2>2 DEF T
<1>14. ASSUME NEW p \in PageNums, m[p].type = "internal"
       PROVE  Preorder(m, p) = <<p>> \o FlattenSeq([i \in 1 .. Len(m[p].cells) + 1 |->
                                                      Preorder(m, Child(m[p], i))])
  <2>1. Parts(p, pre) = [i \in 1 .. Len(m[p].cells) + 1 |-> Preorder(m, Child(m[p], i))]
    <3>1. \A i \in 1 .. Len(m[p].cells) + 1 : Child(m[p], i) \in PageNums
      BY <1>14, FallingPages
    <3> QED
      BY <1>11, <3>1
  <2>2. pre[p] = <<p>> \o FlattenSeq(Parts(p, pre))
    BY <1>12, <1>14 DEF Body
  <2> QED
    BY <1>11, <2>1, <2>2
<1>15. ASSUME NEW p \in PageNums, m[p].type # "internal" PROVE Preorder(m, p) = <<p>>
  BY <1>11, <1>12, <1>15 DEF Body
<1> QED
  BY <1>11, <1>13, <1>14, <1>15 DEF S

\* What the pages below a page are, one level down.
LEMMA PreorderFacts ==
  ASSUME NEW m \in [PageNums -> Pages], NEW h \in [PageNums -> Nat], Ranked(m, h)
  PROVE  \A p \in PageNums :
           /\ Preorder(m, p) \in Seq(PageNums)
           /\ m[p].type # "internal" => Preorder(m, p) = <<p>>
           /\ m[p].type = "internal" =>
                Preorder(m, p) =
                  <<p>> \o FlattenSeq([i \in 1 .. Len(m[p].cells) + 1 |->
                                         Preorder(m, Child(m[p], i))])
  BY RankedFalls, PreorderRecursion

\* All leaves under a page are at one depth, its height.
LEMMA DepthsFacts ==
  ASSUME NEW m \in [PageNums -> Pages], NEW h \in [PageNums -> Nat], Ranked(m, h)
  PROVE  \A p \in PageNums : Depths(m, p) = {h[p]}
<1> DEFINE Body(p, f) == IF m[p].type = "internal"
                         THEN {d + 1 : d \in UNION {f[q] : q \in Children(m[p])}}
                         ELSE {0}
           heights == [p \in PageNums |-> {h[p]}]
           depths == CHOOSE f : f = [p \in PageNums |-> Body(p, f)]
<1>1. ASSUME NEW p \in PageNums, NEW f, \A q \in PageNums : h[q] < h[p] => f[q] = {h[q]}
      PROVE  Body(p, f) = {h[p]}
  <2>1. CASE m[p].type = "internal"
    <3> DEFINE n == Len(m[p].cells) + 1
    <3>1. /\ n \in Nat \ {0}
          /\ \A i \in 1 .. n : f[Child(m[p], i)] = {h[Child(m[p], i)]}
                               /\ h[p] = h[Child(m[p], i)] + 1
      BY <1>1, <2>1, LowerPages
    <3>2. h[p] - 1 \in Nat /\ \A i \in 1 .. n : f[Child(m[p], i)] = {h[p] - 1}
      <4>1. \A i \in 1 .. n : h[Child(m[p], i)] \in Nat
        BY <2>1, LowerPages
      <4> QED
        BY <3>1, <4>1, SMTT(60)
    <3>3. UNION {f[q] : q \in Children(m[p])} = {h[p] - 1}
      <4>1. 1 \in 1 .. n
        BY <3>1
      <4> QED
        BY <3>2, <4>1 DEF Children
    <3>4. {d + 1 : d \in {h[p] - 1}} = {h[p]}
      <4>1. (h[p] - 1) + 1 = h[p]
        BY <3>2
      <4> QED
        BY <4>1
    <3> QED
      BY <2>1, <3>3, <3>4
  <2>2. CASE m[p].type # "internal"
    BY <2>2 DEF Ranked
  <2> QED
    BY <2>1, <2>2
<1> HIDE DEF Body
<1>2. heights = [p \in PageNums |-> Body(p, heights)]
  BY <1>1
<1>3. depths = [p \in PageNums |-> Body(p, depths)]
  BY <1>2
<1>4. \A p \in PageNums : Depths(m, p) = depths[p]
  BY DEF Depths, Body
<1> HIDE DEF depths
<1>5. \A p \in PageNums : depths[p] = Body(p, depths)
  BY <1>3, Zenon
<1> DEFINE T == {p \in PageNums : depths[p] = {h[p]}}
<1>6. ASSUME NEW p \in PageNums, \A q \in PageNums : h[q] < h[p] => q \in T
      PROVE  p \in T
  <2>1. \A q \in PageNums : h[q] < h[p] => depths[q] = {h[q]}
    BY <1>6
  <2> QED
    BY <1>1, <1>5, <2>1
<1> HIDE DEF T
<1>7. \A p \in PageNums : p \in T
  BY <1>6, RankInduction
<1> QED
  BY <1>4, <1>7 DEF T

\* The keys that are found under a page of the tree are allowed there.
LEMMA KeysUnderFacts ==
  ASSUME NEW m, NEW T, NEW h, NEW under, NEW tops, Tree(m, T, h, under, tops)
  PROVE  \A p \in T : KeysUnder(m, p) \subseteq under[p]
<1>0. /\ m \in [PageNums -> Pages] /\ h \in [PageNums -> Nat] /\ Ranked(m, h)
      /\ T \subseteq PageNums
  BY DEF Tree, TreePage, OneWayIn, Typed
<1> DEFINE S == SUBSET Int
           Own(p) == {m[p].cells[i].key : i \in DOMAIN m[p].cells}
           Body(p, f) == Own(p) \cup (IF m[p].type = "internal"
                                      THEN UNION {f[q] : q \in Children(m[p])} ELSE {})
           Def == [p \in PageNums |-> [f \in [PageNums -> S] |-> Body(p, f)]]
<1>1. ASSUME NEW p \in PageNums PROVE Own(p) \in S
  <2>1. CASE m[p] = Zero
    BY <2>1, EmptySeq DEF Zero
  <2>2. CASE m[p] # Zero
    <3>1. m[p] \in RealNodes
      BY <1>0, <2>2, PageFacts
    <3>2. DOMAIN m[p].cells = 1 .. Len(m[p].cells)
      BY <3>1, CellFacts, LenProperties
    <3> QED
      BY <3>1, <3>2, CellFacts, BTreeAssumption
  <2> QED
    BY <2>1, <2>2
<1>2. ASSUME NEW p \in PageNums, NEW f \in [PageNums -> S] PROVE Body(p, f) \in S
  <2>1. m[p].type = "internal" => Children(m[p]) \subseteq PageNums
    BY <1>0, PageFacts, ChildFacts
  <2> HIDE DEF Own
  <2> QED
    BY <1>1, <2>1
<1>3. ASSUME NEW p \in PageNums, NEW f, NEW g,
             \A q \in PageNums : h[q] < h[p] => f[q] = g[q]
      PROVE  Body(p, f) = Body(p, g)
  <2>1. CASE m[p].type = "internal"
    <3>1. \A i \in 1 .. Len(m[p].cells) + 1 : f[Child(m[p], i)] = g[Child(m[p], i)]
      BY <1>0, <1>3, <2>1, LowerPages
    <3>2. UNION {f[q] : q \in Children(m[p])} = UNION {g[q] : q \in Children(m[p])}
      BY <3>1 DEF Children
    <3> QED
      BY <2>1, <3>2
  <2>2. CASE m[p].type # "internal"
    BY <2>2
  <2> QED
    BY <2>1, <2>2
<1> HIDE DEF Body
<1>4. Def \in [PageNums -> [[PageNums -> S] -> S]]
  BY <1>2
<1>5. \A p \in PageNums, f \in [PageNums -> S] : Def[p][f] = Body(p, f)
  OBVIOUS
<1>6. S # {}
  OBVIOUS
<1> HIDE DEF Def, S
<1>7. RankedDefinition(PageNums, S, h, Def)
  <2>1. ASSUME NEW p \in PageNums, NEW f \in [PageNums -> S], NEW g \in [PageNums -> S],
               \A q \in PageNums : h[q] < h[p] => f[q] = g[q]
        PROVE  Def[p][f] = Def[p][g]
    <3>1. Def[p][f] = Body(p, f) /\ Def[p][g] = Body(p, g)
      BY <1>5
    <3> QED
      BY <1>3, <2>1, <3>1
  <2> QED
    BY <1>0, <1>4, <2>1 DEF RankedDefinition
<1>8. PICK f \in [PageNums -> S] : \A p \in PageNums : f[p] = Def[p][f]
  BY <1>6, <1>7, RecursiveFunctionExists
<1>9. f = [p \in PageNums |-> Body(p, f)]
  <2>1. \A p \in PageNums : f[p] = Body(p, f)
    BY <1>5, <1>8
  <2> QED
    BY <2>1
<1> DEFINE keys == CHOOSE g : g = [p \in PageNums |-> Body(p, g)]
<1>10. keys = [p \in PageNums |-> Body(p, keys)]
  BY <1>9
<1>11. \A p \in PageNums : KeysUnder(m, p) = keys[p]
  BY DEF KeysUnder, Body
<1> HIDE DEF keys
<1>12. \A p \in PageNums : keys[p] = Body(p, keys)
  BY <1>10, Zenon
<1> DEFINE Within(p) == p \in T => keys[p] \subseteq under[p]
           B == {p \in PageNums : Within(p)}
<1>13. ASSUME NEW p \in PageNums, \A q \in PageNums : h[q] < h[p] => q \in B
       PROVE  p \in B
  <2> SUFFICES ASSUME p \in T PROVE keys[p] \subseteq under[p]
    OBVIOUS
  <2>1. /\ m[p] \in RealNodes /\ Sorted(m[p], under[p], under)
        /\ \A i \in Ways(m[p]) : Child(m[p], i) \in T
    BY DEF Tree, TreePage, OneWayIn
  <2>2. Own(p) \subseteq under[p]
    <3>1. DOMAIN m[p].cells = 1 .. Len(m[p].cells)
      BY <2>1, CellFacts, LenProperties
    <3> QED
      BY <2>1, <3>1 DEF Sorted
  <2>3. ASSUME m[p].type = "internal"
        PROVE  UNION {keys[q] : q \in Children(m[p])} \subseteq under[p]
    <3>1. \A i \in Ways(m[p]) : keys[Child(m[p], i)] \subseteq under[Child(m[p], i)]
      <4>1. Ways(m[p]) = 1 .. Len(m[p].cells) + 1
        BY <2>1, <2>3, WaysFacts
      <4>2. \A i \in Ways(m[p]) : Child(m[p], i) \in PageNums /\ h[Child(m[p], i)] < h[p]
        BY <1>0, <2>3, <4>1, LowerPages
      <4> QED
        BY <1>13, <2>1, <4>2
    <3>2. \A i \in Ways(m[p]) : under[Child(m[p], i)] \subseteq under[p]
      BY <2>1 DEF Sorted
    <3>3. Children(m[p]) = {Child(m[p], i) : i \in Ways(m[p])}
      BY <2>1, <2>3, WaysFacts
    <3> QED
      BY <3>1, <3>2, <3>3
  <2> HIDE DEF Own
  <2> QED
    BY <1>12, <2>2, <2>3 DEF Body
<1> HIDE DEF B
<1>14. \A p \in PageNums : p \in B
  BY <1>0, <1>13, RankInduction
<1> QED
  BY <1>0, <1>11, <1>14 DEF B

\* The pages reached from a page: those reached from where it leads to.
LEMMA ReachedFrom ==
  ASSUME NEW m, NEW T, NEW h, NEW under, NEW tops, Tree(m, T, h, under, tops),
         NEW p \in T
  PROVE  /\ Preorder(m, p) \in Seq(PageNums)
         /\ \A q : q \in Range(Preorder(m, p)) <=>
                     \/ q = p
                     \/ \E i \in Ways(m[p]) : q \in Range(Preorder(m, Child(m[p], i)))
<1>0. /\ m \in [PageNums -> Pages] /\ h \in [PageNums -> Nat] /\ Ranked(m, h)
      /\ p \in PageNums /\ m[p] \in RealNodes
  BY DEF Tree, TreePage, OneWayIn, Typed
<1>1. Preorder(m, p) \in Seq(PageNums)
  BY <1>0, PreorderFacts
<1>2. <<p>> \in Seq(PageNums) /\ Range(<<p>>) = {p}
  BY <1>0 DEF Range
<1>3. CASE m[p].type = "internal"
  <2> DEFINE n == Len(m[p].cells) + 1
             parts == [i \in 1 .. n |-> Preorder(m, Child(m[p], i))]
  <2>1. n \in Nat \ {0} /\ \A i \in 1 .. n : Child(m[p], i) \in PageNums
    BY <1>0, <1>3, LowerPages
  <2>2. parts \in [1 .. n -> Seq(PageNums)]
    BY <1>0, <2>1, PreorderFacts
  <2>3. Preorder(m, p) = <<p>> \o FlattenSeq(parts)
    BY <1>0, <1>3, PreorderFacts
  <2>4. \A i \in 1 .. n : parts[i] = Preorder(m, Child(m[p], i))
    OBVIOUS
  <2>5. Ways(m[p]) = 1 .. n
    BY <1>0, <1>3, WaysFacts
  <2> HIDE DEF parts, n
  <2>6. /\ FlattenSeq(parts) \in Seq(PageNums)
        /\ Range(FlattenSeq(parts)) = UNION {Range(parts[i]) : i \in 1 .. n}
    BY <2>1, <2>2, FlattenRange
  <2>7. Range(Preorder(m, p)) = {p} \cup Range(FlattenSeq(parts))
    <3> DEFINE first == <<p>>
               rest == FlattenSeq(parts)
    <3>1. first \in Seq(PageNums) /\ Range(first) = {p} /\ rest \in Seq(PageNums)
      BY <1>2, <2>6
    <3>2. Preorder(m, p) = first \o rest
      BY <2>3
    <3> HIDE DEF first, rest
    <3>3. Range(Preorder(m, p)) = {p} \cup Range(rest)
      BY <3>1, <3>2, ConcatRange
    <3> QED
      BY <3>3 DEF rest
  <2> QED
    BY <1>1, <2>4, <2>5, <2>6, <2>7
<1>4. CASE m[p].type # "internal"
  <2>1. Preorder(m, p) = <<p>> /\ Ways(m[p]) = {}
    BY <1>0, <1>4, PreorderFacts, WaysFacts
  <2> QED
    BY <1>1, <1>2, <2>1
<1> QED
  BY <1>3, <1>4

\* They are pages of T and, the page itself excepted, lower than it.
LEMMA ReachedPages ==
  ASSUME NEW m, NEW T, NEW h, NEW under, NEW tops, Tree(m, T, h, under, tops)
  PROVE  \A p \in T : \A q \in Range(Preorder(m, p)) :
           q \in T /\ h[q] <= h[p] /\ (q # p => h[q] < h[p] /\ q \notin tops)
<1>0. /\ m \in [PageNums -> Pages] /\ h \in [PageNums -> Nat] /\ Ranked(m, h)
      /\ T \subseteq PageNums /\ \A q \in T : h[q] \in Nat
  BY DEF Tree, TreePage, OneWayIn, Typed
<1> DEFINE Good(p) ==
      p \in T => \A q \in Range(Preorder(m, p)) :
                   q \in T /\ h[q] <= h[p] /\ (q # p => h[q] < h[p] /\ q \notin tops)
           G == {p \in PageNums : Good(p)}
<1>1. ASSUME NEW p \in PageNums, \A q \in PageNums : h[q] < h[p] => q \in G
      PROVE  p \in G
  <2> SUFFICES ASSUME p \in T, NEW q \in Range(Preorder(m, p)), q # p
               PROVE  q \in T /\ h[q] < h[p] /\ q \notin tops
    BY <1>0
  <2>1. PICK i \in Ways(m[p]) : q \in Range(Preorder(m, Child(m[p], i)))
    BY ReachedFrom
  <2> DEFINE c == Child(m[p], i)
  <2>2. c \in T /\ c \notin tops /\ h[p] = h[c] + 1
    BY <2>1 DEF Tree, TreePage, OneWayIn, Ranked
  <2>3. c \in PageNums /\ h[c] \in Nat /\ h[c] < h[p]
    BY <1>0, <2>2
  <2>4. Good(c)
    BY <1>1, <2>3
  <2> HIDE DEF c
  <2>5. q \in T /\ h[q] <= h[c] /\ (q # c => q \notin tops)
    BY <2>1, <2>2, <2>4 DEF c
  <2> QED
    BY <1>0, <2>2, <2>3, <2>5
<1> HIDE DEF G
<1>2. \A p \in PageNums : p \in G
  BY <1>0, <1>1, RankInduction
<1> QED
  BY <1>0, <1>2 DEF G

\* Two pages of one height reach no page in common.
LEMMA ReachedApart ==
  ASSUME NEW m, NEW T, NEW h, NEW under, NEW tops, Tree(m, T, h, under, tops)
  PROVE  \A p, q \in T : h[p] = h[q] /\ p # q =>
           Range(Preorder(m, p)) \cap Range(Preorder(m, q)) = {}
<1>0. /\ m \in [PageNums -> Pages] /\ h \in [PageNums -> Nat] /\ Ranked(m, h)
      /\ T \subseteq PageNums /\ \A q \in T : h[q] \in Nat
  BY DEF Tree, TreePage, OneWayIn, Typed
<1> DEFINE Apart(p) ==
      p \in T => \A q \in T : h[p] = h[q] /\ p # q =>
                   Range(Preorder(m, p)) \cap Range(Preorder(m, q)) = {}
           A == {p \in PageNums : Apart(p)}
<1>1. ASSUME NEW p \in PageNums, \A q \in PageNums : h[q] < h[p] => q \in A
      PROVE  p \in A
  <2> SUFFICES ASSUME p \in T, NEW q \in T, h[p] = h[q], p # q,
                      NEW x, x \in Range(Preorder(m, p)), x \in Range(Preorder(m, q))
               PROVE  FALSE
    OBVIOUS
  <2>1. x \in T /\ h[x] \in Nat /\ h[p] \in Nat
    BY <1>0, ReachedPages
  <2>2. x # p /\ x # q
    BY <2>1, ReachedPages
  <2>3. PICK i \in Ways(m[p]) : x \in Range(Preorder(m, Child(m[p], i)))
    BY <2>2, ReachedFrom
  <2>4. PICK j \in Ways(m[q]) : x \in Range(Preorder(m, Child(m[q], j)))
    BY <2>2, ReachedFrom
  <2> DEFINE c == Child(m[p], i)
             d == Child(m[q], j)
  <2>5. c \in T /\ d \in T /\ h[p] = h[c] + 1 /\ h[q] = h[d] + 1
    BY <1>0 DEF Tree, TreePage, OneWayIn, Ranked
  <2>6. c # d
    BY DEF Tree, TreePage, OneWayIn
  <2> HIDE DEF c, d
  <2>a. h[c] \in Nat /\ h[d] \in Nat /\ c \in PageNums
    BY <1>0, <2>5
  <2>7. c \in PageNums /\ h[c] < h[p] /\ h[c] = h[d]
    <3>1. h[p] = h[c] + 1 /\ h[c] + 1 = h[d] + 1
      BY <2>5
    <3> QED
      BY <2>a, <3>1
  <2>8. Apart(c)
    BY <1>1, <2>7
  <2> QED
    BY <2>3, <2>4, <2>5, <2>6, <2>7, <2>8 DEF c, d
<1> HIDE DEF A
<1>2. \A p \in PageNums : p \in A
  BY <1>0, <1>1, RankInduction
<1> QED
  BY <1>0, <1>2 DEF A

\* No page is reached twice.
LEMMA ReachedOnce ==
  ASSUME NEW m, NEW T, NEW h, NEW under, NEW tops, Tree(m, T, h, under, tops)
  PROVE  \A p \in T : IsInjective(Preorder(m, p))
<1>0. /\ m \in [PageNums -> Pages] /\ h \in [PageNums -> Nat] /\ Ranked(m, h)
      /\ T \subseteq PageNums /\ \A q \in T : h[q] \in Nat
  BY DEF Tree, TreePage, OneWayIn, Typed
<1> DEFINE O == {p \in PageNums : p \in T => IsInjective(Preorder(m, p))}
<1>1. ASSUME NEW p \in PageNums, \A q \in PageNums : h[q] < h[p] => q \in O
      PROVE  p \in O
  <2> SUFFICES ASSUME p \in T PROVE IsInjective(Preorder(m, p))
    OBVIOUS
  <2>1. <<p>> \in Seq(PageNums) /\ Range(<<p>>) = {p} /\ IsInjective(<<p>>)
    BY DEF Range, IsInjective
  <2>2. CASE m[p].type = "internal"
    <3> DEFINE n == Len(m[p].cells) + 1
               c(i) == Child(m[p], i)
               parts == [i \in 1 .. n |-> Preorder(m, c(i))]
    <3>1. m[p] \in RealNodes
      BY DEF Tree, TreePage, OneWayIn
    <3>2. Ways(m[p]) = 1 .. n /\ n \in Nat \ {0}
      BY <1>0, <2>2, <3>1, WaysFacts, LowerPages
    <3>3. \A i \in 1 .. n : c(i) \in T /\ c(i) \in PageNums /\ h[c(i)] < h[p]
                            /\ h[p] = h[c(i)] + 1
      <4>1. \A i \in 1 .. n : c(i) \in T
        BY <3>2 DEF Tree, TreePage, OneWayIn
      <4>2. p \in PageNums
        BY <1>0
      <4> QED
        BY <1>0, <2>2, <4>1, <4>2, LowerPages
    <3>4. \A i, j \in 1 .. n : i # j => c(i) # c(j) /\ h[c(i)] = h[c(j)]
      <4>1. \A i, j \in 1 .. n : i # j => c(i) # c(j)
        BY <3>2 DEF Tree, TreePage, OneWayIn
      <4> QED
        BY <1>0, <3>3, <4>1
    <3>5. parts \in [1 .. n -> Seq(PageNums)]
      BY <1>0, <3>3, PreorderFacts
    <3>6. Preorder(m, p) = <<p>> \o FlattenSeq(parts)
      BY <1>0, <2>2, PreorderFacts
    <3>7. \A i \in 1 .. n : parts[i] = Preorder(m, c(i))
      OBVIOUS
    <3> HIDE DEF n, c, parts
    <3>8. \A i \in 1 .. n : IsInjective(parts[i])
      BY <1>1, <3>3, <3>7
    <3>9. \A i, j \in 1 .. n : i # j => Range(parts[i]) \cap Range(parts[j]) = {}
      BY <3>3, <3>4, <3>7, ReachedApart
    <3>10. IsInjective(FlattenSeq(parts))
      BY <3>2, <3>5, <3>8, <3>9, FlattenInjective
    <3>11. /\ FlattenSeq(parts) \in Seq(PageNums)
           /\ Range(FlattenSeq(parts)) = UNION {Range(parts[i]) : i \in 1 .. n}
      BY <3>2, <3>5, FlattenRange
    <3>12. \A i \in 1 .. n : p \notin Range(parts[i])
      BY <1>0, <3>3, <3>7, ReachedPages
    <3>13. Range(<<p>>) \cap Range(FlattenSeq(parts)) = {}
      BY <2>1, <3>11, <3>12
    <3> DEFINE first == <<p>>
               rest == FlattenSeq(parts)
    <3>14. /\ first \in Seq(PageNums) /\ rest \in Seq(PageNums)
           /\ IsInjective(first) /\ IsInjective(rest)
           /\ Range(first) \cap Range(rest) = {}
      BY <2>1, <3>10, <3>11, <3>13
    <3>15. Preorder(m, p) = first \o rest
      BY <3>6
    <3> HIDE DEF first, rest
    <3> QED
      BY <3>14, <3>15, ConcatInjective
  <2>3. CASE m[p].type # "internal"
    BY <1>0, <2>1, <2>3, PreorderFacts
  <2> QED
    BY <2>2, <2>3
<1> HIDE DEF O
<1>2. \A p \in PageNums : p \in O
  BY <1>0, <1>1, RankInduction
<1> QED
  BY <1>0, <1>2 DEF O

\* What has no recursion in it implies what the runs check: under any page is a
\* tree all of whose pages are linked once, in order and, the first excepted,
\* half full.
LEMMA TreeIsSound ==
  ASSUME NEW m, NEW T, NEW h, NEW under, NEW tops, Tree(m, T, h, under, tops),
         NEW top \in T
  PROVE  /\ SearchTree(m, top)
         /\ \A p \in Range(Preorder(m, top)) \ {top} : HalfFullNode(m[p])
<1>0. /\ m \in [PageNums -> Pages] /\ h \in [PageNums -> Nat] /\ Ranked(m, h)
      /\ T \subseteq PageNums
  BY DEF Tree, TreePage, OneWayIn, Typed
<1>1. IsInjective(Preorder(m, top))
  BY ReachedOnce
<1>2. Cardinality(Depths(m, top)) = 1
  <2>1. Depths(m, top) = {h[top]}
    BY <1>0, DepthsFacts
  <2> QED
    BY <2>1, FS_Singleton
<1>3. \A p \in Range(Preorder(m, top)) : p \in T
  BY ReachedPages
<1>4. ASSUME NEW p \in T PROVE Ordered(m, p)
  <2> DEFINE cells == m[p].cells
  <2>1. /\ m[p] \in RealNodes /\ Sorted(m[p], under[p], under)
        /\ \A i \in Ways(m[p]) : Child(m[p], i) \in T
    BY DEF Tree, TreePage, OneWayIn
  <2>2. Len(cells) \in Nat /\ (m[p].type = "internal" => Ways(m[p]) = 1 .. Len(cells) + 1)
    BY <2>1, CellFacts, WaysFacts
  <2>3. ASSUME NEW i \in 2 .. Len(cells) PROVE cells[i - 1].key < cells[i].key
    <3>1. i - 1 \in 1 .. Len(cells) /\ i \in 1 .. Len(cells) /\ i - 1 < i
      BY <2>2
    <3> QED
      BY <2>1, <3>1 DEF Sorted, Ascending
  <2>4. ASSUME NEW i \in Ways(m[p]), NEW k \in KeysUnder(m, Child(m[p], i))
        PROVE  Between(m[p], i, k)
    <3>1. k \in under[Child(m[p], i)]
      BY <2>1, KeysUnderFacts
    <3> QED
      BY <2>1, <3>1 DEF Sorted
  <2> QED
    BY <2>2, <2>3, <2>4 DEF Ordered, Between
<1>5. \A p \in Range(Preorder(m, top)) \ {top} : HalfFullNode(m[p])
  <2>1. \A p \in Range(Preorder(m, top)) \ {top} : p \in T \ tops
    BY ReachedPages
  <2> QED
    BY <2>1 DEF Tree, TreePage
<1> QED
  BY <1>1, <1>2, <1>3, <1>4, <1>5 DEF SearchTree

----------------------------------------------------------------------------
\* What the code does to a node, cell by cell and pointer by pointer

\* The halves of a node of n cells that is split after the first mid.
HalvesOf(node, n, mid, left, right) ==
  /\ n \in Nat /\ mid \in 1 .. n - 1
  /\ PromotedKey(node) = node.cells[mid + 1].key
  /\ Len(left.cells) = mid
  /\ \A i \in 1 .. mid : left.cells[i] = node.cells[i]
  /\ node.type = "leaf" =>
       /\ Len(right.cells) = n - mid
       /\ \A i \in 1 .. n - mid : right.cells[i] = node.cells[mid + i]
  /\ node.type = "internal" =>
       /\ n > MaxInternalCells /\ mid + 2 <= n /\ mid = n \div 2
       /\ \A i \in 1 .. mid + 1 : Child(left, i) = Child(node, i)
       /\ Len(right.cells) = n - mid - 1
       /\ \A i \in 1 .. n - mid - 1 : right.cells[i] = node.cells[mid + 1 + i]
       /\ \A i \in 1 .. n - mid : Child(right, i) = Child(node, mid + 1 + i)

\* Where leftCells, rightCells and the promoted key of a split come from.
LEMMA HalfShape ==
  ASSUME NEW node \in RealNodes, Overfull(node)
  PROVE  HalvesOf(node, Len(node.cells), Mid(node), LeftHalf(node), RightHalf(node))
<1> DEFINE n == Len(node.cells)
           mid == Mid(node)
           left == LeftHalf(node)
           right == RightHalf(node)
<1> SUFFICES HalvesOf(node, n, mid, left, right)
  OBVIOUS
<1>1. /\ n \in Nat /\ n >= 2 /\ mid \in Nat /\ mid >= 1 /\ mid + 1 <= n
      /\ mid = n \div 2
      /\ node.type = "internal" => n >= 3 /\ mid + 2 <= n /\ n > MaxInternalCells
      /\ node.type \in {"leaf", "internal"}
  <2>1. /\ n \in Nat /\ node.type \in {"leaf", "internal"}
        /\ MaxCells(node) \in Nat /\ n > MaxCells(node) /\ MaxCells(node) >= 1
        /\ node.type = "internal" => MaxCells(node) >= 2 /\ MaxCells(node) = MaxInternalCells
    BY CellFacts, BTreeAssumption DEF Overfull, MaxCells
  <2>2. mid = n \div 2
    BY DEF Mid
  <2> HIDE DEF n, mid
  <2> QED
    BY <2>1, <2>2
<1>2. PromotedKey(node) = node.cells[mid + 1].key
  BY DEF PromotedKey
<1>a. n = Len(node.cells) /\ left = LeftHalf(node) /\ right = RightHalf(node) /\ mid = Mid(node)
  OBVIOUS
<1> HIDE DEF n, mid, left, right
<1> DEFINE l == SubSeq(node.cells, 1, mid)
<1>3. CASE node.type = "leaf"
  <2> DEFINE r == SubSeq(node.cells, mid + 1, n)
  <2>1. \A i \in 1 .. n : node.cells[i] \in LeafCells
    BY <1>3, <1>a, CellFacts
  <2>2. /\ l \in Seq(LeafCells) /\ Len(l) = mid
        /\ \A i \in 1 .. mid : l[i] = node.cells[i]
    BY <1>1, <2>1, SubSeqProperties, Z3
  <2>3. /\ r \in Seq(LeafCells) /\ Len(r) = n - mid
        /\ \A i \in 1 .. n - mid : r[i] = node.cells[mid + i]
    <3>1. /\ mid + 1 \in Int /\ n \in Int /\ mid + 1 <= n
          /\ \A j \in mid + 1 .. n : node.cells[j] \in LeafCells
      BY <1>1, <2>1
    <3>2. /\ r \in Seq(LeafCells)
          /\ Len(r) = IF mid + 1 <= n THEN n - (mid + 1) + 1 ELSE 0
          /\ \A i \in 1 .. n - (mid + 1) + 1 : r[i] = node.cells[mid + 1 + i - 1]
      BY <3>1, SubSeqProperties
    <3> HIDE DEF r
    <3> QED
      BY <1>1, <3>1, <3>2
  <2>4. left = Leaf(l) /\ right = Leaf(r)
    BY <1>3, <1>a DEF LeftHalf, RightHalf
  <2> HIDE DEF l, r
  <2>5. left.cells = l /\ right.cells = r
    BY <2>2, <2>3, <2>4, LeafIsNode
  <2> QED
    BY <1>1, <1>2, <1>3, <2>2, <2>3, <2>5 DEF HalvesOf
<1>4. CASE node.type = "internal"
  <2> DEFINE r == SubSeq(node.cells, mid + 2, n)
  <2>1. /\ node.right \in PageNums
        /\ \A i \in 1 .. n : /\ node.cells[i] \in InternalCells
                             /\ node.cells[i].child \in PageNums
    BY <1>4, <1>a, CellFacts
  <2>2. /\ l \in Seq(InternalCells) /\ Len(l) = mid
        /\ \A i \in 1 .. mid : l[i] = node.cells[i]
    BY <1>1, <2>1, SubSeqProperties, Z3
  <2>3. /\ r \in Seq(InternalCells) /\ Len(r) = n - mid - 1
        /\ \A i \in 1 .. n - mid - 1 : r[i] = node.cells[mid + 1 + i]
    <3>1. /\ mid + 2 \in Int /\ n \in Int /\ mid + 2 <= n
          /\ \A j \in mid + 2 .. n : node.cells[j] \in InternalCells
      BY <1>1, <1>4, <2>1
    <3>2. /\ r \in Seq(InternalCells)
          /\ Len(r) = IF mid + 2 <= n THEN n - (mid + 2) + 1 ELSE 0
          /\ \A i \in 1 .. n - (mid + 2) + 1 : r[i] = node.cells[mid + 2 + i - 1]
      BY <3>1, SubSeqProperties
    <3> HIDE DEF r
    <3> QED
      BY <1>1, <3>1, <3>2
  <2>4. /\ left = Internal(l, node.cells[mid + 1].child)
        /\ right = Internal(r, node.right)
    BY <1>4, <1>a DEF LeftHalf, RightHalf
  <2> HIDE DEF l, r
  <2>5. node.cells[mid + 1].child \in PageNums
    BY <1>1, <2>1
  <2>6. /\ left.cells = l /\ left.right = node.cells[mid + 1].child
        /\ right.cells = r /\ right.right = node.right
    BY <2>1, <2>2, <2>3, <2>4, <2>5, InternalIsNode
  <2>7. ASSUME NEW i \in 1 .. mid + 1 PROVE Child(left, i) = Child(node, i)
    <3>1. Child(node, i) = node.cells[i].child
      <4>1. i <= n
        BY <1>1
      <4> QED
        BY <1>a, <4>1 DEF Child
    <3>2. CASE i <= mid
      <4>1. i \in 1 .. mid /\ Child(left, i) = l[i].child
        BY <1>1, <2>2, <2>6, <3>2 DEF Child
      <4> QED
        BY <2>2, <3>1, <4>1
    <3>3. CASE i = mid + 1
      <4>1. ~(i <= mid)
        BY <1>1, <3>3
      <4> QED
        BY <2>2, <2>6, <3>1, <3>3, <4>1 DEF Child
    <3> QED
      BY <1>1, <3>2, <3>3
  <2>8. ASSUME NEW i \in 1 .. n - mid PROVE Child(right, i) = Child(node, mid + 1 + i)
    <3>1. CASE i <= n - mid - 1
      <4>1. i \in 1 .. n - mid - 1 /\ mid + 1 + i <= n
        BY <1>1, <3>1
      <4> QED
        BY <1>a, <2>3, <2>6, <4>1 DEF Child
    <3>2. CASE i = n - mid
      <4>1. ~(i <= n - mid - 1) /\ ~(mid + 1 + i <= n)
        BY <1>1, <3>2
      <4> QED
        BY <1>a, <2>3, <2>6, <4>1 DEF Child
    <3> QED
      BY <1>1, <3>1, <3>2
  <2> QED
    BY <1>1, <1>2, <1>4, <2>2, <2>3, <2>6, <2>7, <2>8 DEF HalvesOf
<1> QED
  BY <1>1, <1>3, <1>4

\* A parent that has taken up the halves l and r of the child at slot i.
LEMMA SplitShape ==
  ASSUME NEW node \in RealNodes, node.type = "internal",
         NEW i \in 1 .. Len(node.cells) + 1, NEW k \in Keys,
         NEW l \in PageNums, NEW r \in PageNums
  PROVE  LET n == Len(node.cells)
             new == WithSplitChild(node, i, k, l, r) IN
         /\ new \in RealNodes /\ new.type = "internal" /\ n \in Nat
         /\ Len(new.cells) = n + 1
         /\ \A j \in 1 .. n + 1 :
              new.cells[j].key = IF j < i THEN node.cells[j].key
                                 ELSE IF j = i THEN k ELSE node.cells[j - 1].key
         /\ \A j \in 1 .. n + 2 :
              Child(new, j) = IF j < i THEN Child(node, j)
                              ELSE IF j = i THEN l
                              ELSE IF j = i + 1 THEN r ELSE Child(node, j - 1)
<1> DEFINE n == Len(node.cells)
           new == WithSplitChild(node, i, k, l, r)
           cell == [child |-> l, key |-> k]
           cells == InsertAt(node.cells, i, cell)
           moved == [cells EXCEPT ![i + 1].child = r]
<1>a. n = Len(node.cells) /\ new = WithSplitChild(node, i, k, l, r) /\ i \in 1 .. n + 1
  OBVIOUS
<1> HIDE DEF new
<1>0. new \in RealNodes /\ new.type = "internal" /\ Len(new.cells) = n + 1
  BY SplitChildFacts DEF new
<1>1. /\ node.cells \in Seq(InternalCells) /\ node.right \in PageNums /\ n \in Nat
      /\ cell \in InternalCells /\ cell.child = l /\ cell.key = k
  BY CellFacts DEF InternalCells
<1>2. /\ cells \in Seq(InternalCells) /\ Len(cells) = n + 1
      /\ \A j \in 1 .. n + 1 :
           cells[j] = IF j < i THEN node.cells[j]
                      ELSE IF j = i THEN cell ELSE node.cells[j - 1]
  <2> DEFINE s == node.cells
  <2> HIDE DEF cell, cells
  <2>1. /\ s \in Seq(InternalCells) /\ cell \in InternalCells
        /\ i \in 1 .. Len(s) + 1 /\ cells = InsertAt(s, i, cell)
    BY <1>1 DEF cells
  <2> HIDE DEF s
  <2>2. cells \in Seq(InternalCells) /\ Len(cells) = Len(s) + 1
    BY <2>1, InsertAtFacts
  <2>3. \A j \in 1 .. i - 1 : cells[j] = s[j]
    BY <2>1, InsertAtFacts
  <2>4. cells[i] = cell
    BY <2>1, InsertAtFacts
  <2>5. \A j \in i .. Len(s) : cells[j + 1] = s[j]
    BY <2>1, InsertAtFacts
  <2>6. Len(s) \in Nat /\ \A j \in i + 1 .. Len(s) + 1 :
                             j - 1 \in i .. Len(s) /\ j = (j - 1) + 1
    BY <1>1, <2>1, LenProperties
  <2>7. \A j \in i + 1 .. Len(s) + 1 : cells[j] = s[j - 1]
    BY <2>5, <2>6
  <2> QED
    BY <1>1, <2>2, <2>3, <2>4, <2>7, SMTT(60) DEF s
<1> HIDE DEF cell, cells, n
<1>3. CASE i <= n
  <2> DEFINE other == [cells[i + 1] EXCEPT !.child = r]
  <2>1. i + 1 \in 1 .. n + 1 /\ cells[i + 1] \in InternalCells
    BY <1>1, <1>2, <1>a, <1>3, ElementOfSeq
  <2>2. moved = [cells EXCEPT ![i + 1] = other]
    OBVIOUS
  <2>3. other \in InternalCells /\ other.child = r /\ other.key = cells[i + 1].key
    BY <2>1 DEF InternalCells
  <2> HIDE DEF other
  <2>4. /\ moved \in Seq(InternalCells) /\ Len(moved) = n + 1
        /\ \A j \in 1 .. n + 1 : moved[j] = IF j = i + 1 THEN other ELSE cells[j]
    BY <1>2, <2>1, <2>2, <2>3, ExceptSeq, SMTT(60)
  <2>5. new = Internal(moved, node.right)
    BY <1>3 DEF WithSplitChild, cells, cell, new, n
  <2> HIDE DEF moved
  <2>6. new.cells = moved /\ new.right = node.right
    BY <1>1, <2>4, <2>5, InternalIsNode
  <2>7. ASSUME NEW j \in 1 .. n + 1
        PROVE  new.cells[j].key = IF j < i THEN node.cells[j].key
                                  ELSE IF j = i THEN k ELSE node.cells[j - 1].key
    <3>1. new.cells[j].key = cells[j].key
      BY <2>3, <2>4, <2>6
    <3> QED
      BY <1>1, <1>2, <1>a, <3>1
  <2>8. ASSUME NEW j \in 1 .. n + 2
        PROVE  Child(new, j) = IF j < i THEN Child(node, j)
                               ELSE IF j = i THEN l
                               ELSE IF j = i + 1 THEN r ELSE Child(node, j - 1)
    <3>1. CASE j = n + 2
      <4>1. Child(new, j) = node.right /\ Child(node, j - 1) = node.right
        BY <1>0, <1>1, <1>a, <2>6, <3>1 DEF Child, n
      <4> QED
        BY <1>1, <1>3, <3>1, <4>1
    <3>2. CASE j <= n + 1
      <4>1. j \in 1 .. n + 1 /\ Child(new, j) = moved[j].child
        BY <1>0, <1>1, <1>a, <2>6, <3>2 DEF Child, n
      <4>2. CASE j < i
        <5>1. moved[j] = node.cells[j]
          BY <1>1, <1>2, <1>a, <2>4, <4>1, <4>2
        <5> QED
          BY <1>1, <1>3, <4>1, <4>2, <5>1 DEF Child, n
      <4>3. CASE j = i
        BY <1>1, <1>2, <1>a, <2>4, <4>1, <4>3
      <4>4. CASE j = i + 1
        BY <1>1, <2>3, <2>4, <4>1, <4>4
      <4>5. CASE j > i + 1
        <5>1. moved[j] = node.cells[j - 1]
          BY <1>1, <1>2, <1>a, <2>4, <4>1, <4>5
        <5>2. j - 1 <= n
          BY <1>1, <4>1
        <5> QED
          BY <1>1, <4>1, <4>5, <5>1, <5>2 DEF Child, n
      <4> QED
        BY <1>1, <4>2, <4>3, <4>4, <4>5
    <3> QED
      BY <1>1, <3>1, <3>2
  <2> QED
    BY <1>0, <1>1, <1>a, <2>7, <2>8
<1>4. CASE i = n + 1
  <2>1. new = Internal(cells, r)
    BY <1>1, <1>4 DEF WithSplitChild, cells, cell, new, n
  <2>2. new.cells = cells /\ new.right = r
    BY <1>2, <2>1, InternalIsNode
  <2>3. ASSUME NEW j \in 1 .. n + 1
        PROVE  new.cells[j].key = IF j < i THEN node.cells[j].key
                                  ELSE IF j = i THEN k ELSE node.cells[j - 1].key
    BY <1>1, <1>2, <1>a, <2>2
  <2>4. ASSUME NEW j \in 1 .. n + 2
        PROVE  Child(new, j) = IF j < i THEN Child(node, j)
                               ELSE IF j = i THEN l
                               ELSE IF j = i + 1 THEN r ELSE Child(node, j - 1)
    <3>1. CASE j = n + 2
      BY <1>0, <1>1, <1>a, <1>4, <2>2, <3>1 DEF Child, n
    <3>2. CASE j = n + 1
      BY <1>0, <1>1, <1>a, <1>2, <1>4, <2>2, <3>2 DEF Child, n
    <3>3. CASE j <= n
      <4>1. Child(new, j) = node.cells[j].child
        BY <1>0, <1>1, <1>a, <1>2, <1>4, <2>2, <3>3 DEF Child, n
      <4> QED
        BY <1>1, <1>4, <3>3, <4>1 DEF Child, n
    <3> QED
      BY <1>1, <3>1, <3>2, <3>3
  <2> QED
    BY <1>0, <1>1, <1>a, <2>3, <2>4
<1> QED
  <2>1. i <= n \/ i = n + 1
    BY <1>1, <1>a
  <2> QED
    BY <2>1, <1>3, <1>4 DEF n, new

----------------------------------------------------------------------------
\* What the code does to a tree

\* What the definition of a tree says of its pages, one by one.
LEMMA TreeNode ==
  ASSUME NEW m, NEW T, NEW h, NEW under, NEW tops, Tree(m, T, h, under, tops)
  PROVE  /\ m \in [PageNums -> Pages] /\ T \subseteq PageNums
         /\ h \in [PageNums -> Nat] /\ under \in [PageNums -> SUBSET Int]
         /\ \A p \in PageNums : \A i \in Ways(m[p]) :
              /\ m[p] \in RealNodes /\ m[p].type = "internal"
              /\ Child(m[p], i) \in PageNums /\ Child(m[p], i) # p
              /\ h[p] = h[Child(m[p], i)] + 1
         /\ \A p \in T :
              /\ m[p] \in RealNodes /\ Sorted(m[p], under[p], under)
              /\ \A i \in Ways(m[p]) : Child(m[p], i) \in T \ tops
<1>1. /\ m \in [PageNums -> Pages] /\ T \subseteq PageNums
      /\ h \in [PageNums -> Nat] /\ under \in [PageNums -> SUBSET Int]
      /\ Ranked(m, h)
  BY DEF Tree, TreePage, OneWayIn, Typed
<1>2. ASSUME NEW p \in PageNums, NEW i \in Ways(m[p])
      PROVE  /\ m[p] \in RealNodes /\ m[p].type = "internal"
             /\ Child(m[p], i) \in PageNums /\ Child(m[p], i) # p
             /\ h[p] = h[Child(m[p], i)] + 1
  <2>1. m[p].type = "internal"
    BY DEF Ways
  <2>2. m[p] \in RealNodes
    BY <1>1, <2>1, PageFacts
  <2>3. Child(m[p], i) \in PageNums /\ h[p] = h[Child(m[p], i)] + 1
    BY <1>1, <2>2, WaysFacts DEF Ranked
  <2>4. h[p] \in Nat /\ h[p] # h[p] + 1
    BY <1>1
  <2> QED
    BY <2>1, <2>2, <2>3, <2>4
<1> QED
  BY <1>1, <1>2 DEF Tree, TreePage, OneWayIn

\* The pages of a tree can change as long as their pointers do not.
LEMMA SameWaysIn ==
  ASSUME NEW m, NEW n, NEW T, OneWayIn(m, T),
         \A q \in T : \A i \in Ways(n[q]) :
           i \in Ways(m[q]) /\ Child(n[q], i) = Child(m[q], i)
  PROVE  OneWayIn(n, T)
<1>1. ASSUME NEW p \in T, NEW q \in T, NEW i \in Ways(n[p]), NEW j \in Ways(n[q]),
             Child(n[p], i) = Child(n[q], j)
      PROVE  p = q /\ i = j
  <2>1. /\ i \in Ways(m[p]) /\ j \in Ways(m[q])
        /\ Child(m[p], i) = Child(m[q], j)
    BY <1>1
  <2> QED
    BY <2>1 DEF OneWayIn
<1> QED
  BY <1>1 DEF OneWayIn

\* A leaf is written anew, with keys that belong there.
LEMMA LeafReplaced ==
  ASSUME NEW m, NEW T, NEW h, NEW under, NEW tops, Tree(m, T, h, under, tops),
         NEW p \in T, m[p].type = "leaf",
         NEW node \in RealNodes, node.type = "leaf", Ascending(node.cells),
         \A i \in 1 .. Len(node.cells) : node.cells[i].key \in under[p]
  PROVE  Tree([m EXCEPT ![p] = node], T, h, under, tops)
<1> DEFINE n == [m EXCEPT ![p] = node]
<1>1. /\ m \in [PageNums -> Pages] /\ T \subseteq PageNums /\ p \in PageNums
      /\ h \in [PageNums -> Nat] /\ under \in [PageNums -> SUBSET Int]
  BY TreeNode
<1>2. n \in [PageNums -> Pages] /\ \A q \in PageNums : n[q] = IF q = p THEN node ELSE m[q]
  BY <1>1, PageFacts
<1>4. \A q \in PageNums : Ways(n[q]) = Ways(m[q])
                          /\ \A i \in Ways(m[q]) : Child(n[q], i) = Child(m[q], i)
  BY <1>2 DEF Ways
<1> HIDE DEF n
<1>5. Typed(n, T, h, under)
  BY <1>1, <1>2 DEF Typed
<1>6. Ranked(n, h)
  BY <1>2, <1>4 DEF Ranked, Tree, TreePage, OneWayIn
<1>7. ASSUME NEW q \in T
      PROVE  /\ n[q] \in RealNodes
             /\ Sorted(n[q], under[q], under)
             /\ \A i \in Ways(n[q]) : Child(n[q], i) \in T \ tops
             /\ q \notin tops => HalfFullNode(n[q])
  <2>1. CASE q = p
    <3>1. n[q] = node /\ Ways(node) = {}
      BY <1>1, <1>2, <2>1 DEF Ways
    <3>2. Sorted(node, under[p], under)
      BY <3>1 DEF Sorted
    <3> QED
      BY <2>1, <3>1, <3>2 DEF HalfFullNode
  <2>2. CASE q # p
    <3>1. n[q] = m[q]
      BY <1>1, <1>2, <2>2
    <3> QED
      BY <3>1 DEF Tree, TreePage, OneWayIn
  <2> QED
    BY <2>1, <2>2
<1>8. OneWayIn(n, T)
  BY <1>1, <1>4, SameWaysIn DEF Tree
<1>9. \A q \in T : TreePage(n, T, under, tops, q)
  BY <1>7 DEF TreePage
<1> QED
  BY <1>5, <1>6, <1>8, <1>9 DEF Tree, n

\* A key is allowed on all pages from the top down to one where it belongs.
LEMMA KeyAllowed ==
  ASSUME NEW m, NEW T, NEW h, NEW under, NEW tops, Tree(m, T, h, under, tops),
         NEW S, NEW k \in Int,
         \A q \in T : \A i \in Ways(m[q]) :
           Child(m[q], i) \in S => q \in S /\ Between(m[q], i, k)
  PROVE  Tree(m, T, h,
              [q \in PageNums |-> IF q \in S THEN under[q] \cup {k} ELSE under[q]], tops)
<1> DEFINE new == [q \in PageNums |-> IF q \in S THEN under[q] \cup {k} ELSE under[q]]
<1>1. /\ m \in [PageNums -> Pages] /\ T \subseteq PageNums
      /\ h \in [PageNums -> Nat] /\ under \in [PageNums -> SUBSET Int]
  BY TreeNode
<1>2. /\ new \in [PageNums -> SUBSET Int]
      /\ \A q \in PageNums : new[q] = IF q \in S THEN under[q] \cup {k} ELSE under[q]
  BY <1>1
<1> HIDE DEF new
<1>3. Typed(m, T, h, new)
  BY <1>1, <1>2 DEF Typed
<1>4. ASSUME NEW q \in T PROVE Sorted(m[q], new[q], new)
  <2>1. /\ Sorted(m[q], under[q], under) /\ q \in PageNums
        /\ \A i \in Ways(m[q]) : Child(m[q], i) \in PageNums
    BY <1>1, TreeNode
  <2>2. under[q] \subseteq new[q]
    BY <1>2, <2>1
  <2>3. ASSUME NEW i \in Ways(m[q]), NEW x \in new[Child(m[q], i)]
        PROVE  x \in new[q] /\ Between(m[q], i, x)
    <3>1. CASE x \in under[Child(m[q], i)]
      BY <2>1, <2>2, <3>1 DEF Sorted
    <3>2. CASE Child(m[q], i) \in S /\ x = k
      BY <1>2, <2>1, <3>2
    <3> QED
      BY <1>2, <2>1, <3>1, <3>2
  <2> QED
    BY <2>1, <2>2, <2>3 DEF Sorted
<1> QED
  BY <1>3, <1>4 DEF Tree, TreePage, OneWayIn, new

\* A page that is in no tree, and that nothing leads to, is written.
LEMMA OtherWritten ==
  ASSUME NEW m, NEW T, NEW h, NEW under, NEW tops, Tree(m, T, h, under, tops),
         NEW f \in PageNums, f \notin T,
         \A q \in PageNums : \A i \in Ways(m[q]) : Child(m[q], i) # f,
         NEW node \in Pages, NEW d \in Nat, node.type # "internal" => d = 0,
         \A i \in Ways(node) : /\ Child(node, i) \in PageNums \ {f}
                               /\ d = h[Child(node, i)] + 1
  PROVE  Tree([m EXCEPT ![f] = node], T, [h EXCEPT ![f] = d], under, tops)
<1> DEFINE n == [m EXCEPT ![f] = node]
           g == [h EXCEPT ![f] = d]
<1>1. /\ m \in [PageNums -> Pages] /\ T \subseteq PageNums
      /\ h \in [PageNums -> Nat] /\ under \in [PageNums -> SUBSET Int]
  BY TreeNode
<1>2. /\ n \in [PageNums -> Pages] /\ g \in [PageNums -> Nat]
      /\ n[f] = node /\ g[f] = d
      /\ \A q \in PageNums : q # f => n[q] = m[q] /\ g[q] = h[q]
  BY <1>1
<1> HIDE DEF n, g
<1>3. Typed(n, T, g, under)
  BY <1>1, <1>2 DEF Typed
<1>4. ASSUME NEW p \in PageNums
      PROVE  /\ n[p].type # "internal" => g[p] = 0
             /\ \A i \in Ways(n[p]) : g[p] = g[Child(n[p], i)] + 1
  <2>1. CASE p = f
    BY <1>2, <2>1
  <2>2. CASE p # f
    <3>1. n[p] = m[p] /\ g[p] = h[p]
      BY <1>2, <2>2
    <3>2. \A i \in Ways(m[p]) : Child(m[p], i) \in PageNums /\ Child(m[p], i) # f
                                /\ h[p] = h[Child(m[p], i)] + 1
      BY TreeNode
    <3> QED
      BY <1>2, <3>1, <3>2 DEF Tree, TreePage, OneWayIn, Ranked
  <2> QED
    BY <2>1, <2>2
<1>5. \A p \in T : n[p] = m[p]
  BY <1>1, <1>2
<1>6. OneWayIn(n, T)
  BY <1>5, SameWaysIn DEF Tree
<1>7. \A p \in T : TreePage(n, T, under, tops, p)
  BY <1>5 DEF Tree, TreePage
<1> QED
  BY <1>3, <1>4, <1>6, <1>7 DEF Tree, Ranked, n, g

----------------------------------------------------------------------------
\* Splits

\* A node in order is so within more keys, too.
LEMMA SortedWithin ==
  ASSUME NEW node, NEW keys, NEW wider, NEW under, keys \subseteq wider,
         Sorted(node, keys, under)
  PROVE  Sorted(node, wider, under)
  BY DEF Sorted

\* The keys on the two sides of a key.
LowKeys(keys, k) == {x \in keys : x < k}
HighKeys(keys, k) == {x \in keys : k <= x}

\* The halves of a node are in order on the two sides of the promoted key.
LEMMA HalvesSorted ==
  ASSUME NEW node \in RealNodes, Overfull(node), NEW keys \in SUBSET Int,
         NEW under \in [PageNums -> SUBSET Int], Sorted(node, keys, under)
  PROVE  LET k == PromotedKey(node) IN
         /\ k \in keys /\ k \in Int /\ LowKeys(keys, k) # {}
         /\ Sorted(LeftHalf(node), LowKeys(keys, k), under)
         /\ Sorted(RightHalf(node), HighKeys(keys, k), under)
         /\ HalfFullNode(LeftHalf(node)) /\ HalfFullNode(RightHalf(node))
<1> DEFINE k == PromotedKey(node)
           n == Len(node.cells)
           mid == Mid(node)
           left == LeftHalf(node)
           right == RightHalf(node)
<1>1. HalvesOf(node, n, mid, left, right)
  BY HalfShape
<1>2. /\ node.type \in {"leaf", "internal"}
      /\ left \in RealNodes /\ left.type = node.type
      /\ right \in RealNodes /\ right.type = node.type
  BY CellFacts, HalfFacts
<1>3. n = Len(node.cells) /\ k = PromotedKey(node)
  OBVIOUS
<1> SUFFICES /\ k \in keys /\ k \in Int /\ LowKeys(keys, k) # {}
             /\ Sorted(left, LowKeys(keys, k), under)
             /\ Sorted(right, HighKeys(keys, k), under)
             /\ HalfFullNode(left) /\ HalfFullNode(right)
  OBVIOUS
<1> HIDE DEF k, n, mid, left, right
<1>4. /\ n \in Nat /\ mid \in 1 .. n - 1 /\ k = node.cells[mid + 1].key
      /\ Len(left.cells) = mid
      /\ \A i \in 1 .. mid : left.cells[i] = node.cells[i]
      /\ node.type = "leaf" => Len(right.cells) = n - mid
      /\ node.type = "internal" =>
           /\ n > MaxInternalCells /\ mid + 2 <= n /\ mid = n \div 2
           /\ Len(right.cells) = n - mid - 1
  BY <1>1, <1>3 DEF HalvesOf
<1>5. \A i, j \in 1 .. n : i < j => node.cells[i].key < node.cells[j].key
  BY <1>3 DEF Sorted, Ascending
<1>6. \A i \in 1 .. n : node.cells[i].key \in keys /\ node.cells[i].key \in Int
  BY <1>3 DEF Sorted
<1>7. mid + 1 \in 1 .. n /\ k \in keys /\ k \in Int
  BY <1>4, <1>6
<1>8. \A i \in 1 .. mid : i \in 1 .. n /\ node.cells[i].key < k
  BY <1>4, <1>5, <1>7
<1>a. LowKeys(keys, k) # {}
  <2>1. 1 \in 1 .. mid /\ 1 \in 1 .. n
    BY <1>4
  <2> QED
    BY <1>6, <1>8, <2>1 DEF LowKeys, HighKeys
<1>9. \A i \in mid + 1 .. n : i \in 1 .. n /\ k <= node.cells[i].key
  <2>1. ASSUME NEW i \in mid + 1 .. n PROVE i \in 1 .. n /\ k <= node.cells[i].key
    <3>1. i \in 1 .. n /\ (i = mid + 1 \/ mid + 1 < i)
      BY <1>4
    <3>2. mid + 1 < i => k < node.cells[i].key
      BY <1>4, <1>5, <1>7, <3>1
    <3> QED
      BY <1>4, <1>6, <1>7, <3>1, <3>2
  <2> QED
    BY <2>1
<1>10. Ascending(left.cells) /\ \A i \in 1 .. Len(left.cells) :
                                   left.cells[i].key \in LowKeys(keys, k)
  BY <1>4, <1>5, <1>6, <1>8 DEF Ascending, LowKeys, HighKeys
<1>11. CASE node.type = "leaf"
  <2>1. Ways(left) = {} /\ Ways(right) = {}
    BY <1>2, <1>11 DEF Ways
  <2>2. \A i \in 1 .. n - mid : right.cells[i] = node.cells[mid + i]
                                /\ mid + i \in mid + 1 .. n /\ mid + i \in 1 .. n
    BY <1>1, <1>4, <1>11 DEF HalvesOf
  <2>3. \A i \in 1 .. Len(right.cells) : right.cells[i].key \in HighKeys(keys, k)
    BY <1>4, <1>6, <1>9, <1>11, <2>2 DEF LowKeys, HighKeys
  <2>4. ASSUME NEW i \in 1 .. n - mid, NEW j \in 1 .. n - mid, i < j
        PROVE  right.cells[i].key < right.cells[j].key
    <3>1. mid + i < mid + j
      BY <1>4, <2>4
    <3> QED
      BY <1>5, <2>2, <3>1
  <2>5. Ascending(right.cells)
    BY <1>4, <1>11, <2>4 DEF Ascending
  <2> QED
    BY <1>2, <1>7, <1>a, <1>10, <1>11, <2>1, <2>3, <2>5 DEF Sorted, HalfFullNode
<1>12. CASE node.type = "internal"
  <2>1. /\ Ways(left) = 1 .. mid + 1 /\ Ways(right) = 1 .. n - mid
        /\ Ways(node) = 1 .. n + 1
    <3>1. n - mid - 1 + 1 = n - mid
      BY <1>4
    <3> QED
      BY <1>2, <1>3, <1>4, <1>12, <3>1 DEF Ways
  <2>2. \A i \in 1 .. mid + 1 : Child(left, i) = Child(node, i) /\ i \in Ways(node)
    BY <1>1, <1>4, <1>12, <2>1 DEF HalvesOf
  <2>3. \A i \in 1 .. n - mid - 1 :
          right.cells[i] = node.cells[mid + 1 + i] /\ mid + 1 + i \in mid + 1 .. n
    BY <1>1, <1>4, <1>12 DEF HalvesOf
  <2>4. \A i \in 1 .. n - mid : Child(right, i) = Child(node, mid + 1 + i)
                                /\ mid + 1 + i \in Ways(node)
    BY <1>1, <1>4, <1>12, <2>1 DEF HalvesOf
  <2>5. \A i \in 1 .. Len(right.cells) : right.cells[i].key \in HighKeys(keys, k)
    BY <1>4, <1>6, <1>9, <1>12, <2>3 DEF LowKeys, HighKeys
  <2>6. ASSUME NEW i \in 1 .. n - mid - 1, NEW j \in 1 .. n - mid - 1, i < j
        PROVE  right.cells[i].key < right.cells[j].key
    <3>1. mid + 1 + i < mid + 1 + j
      BY <1>4, <2>6
    <3> QED
      BY <1>5, <1>9, <2>3, <3>1
  <2>7. Ascending(right.cells)
    BY <1>4, <1>12, <2>6 DEF Ascending
  <2>8. \A i \in Ways(node) : \A x \in under[Child(node, i)] :
          x \in keys /\ x \in Int /\ Between(node, i, x)
    BY DEF Sorted
  <2>9. ASSUME NEW i \in Ways(left), NEW x \in under[Child(left, i)]
        PROVE  x \in LowKeys(keys, k) /\ Between(left, i, x)
    <3>1. x \in keys /\ x \in Int /\ Between(node, i, x) /\ i \in 1 .. mid + 1
      BY <2>1, <2>2, <2>8
    <3>2. x < node.cells[i].key /\ i \in 1 .. n
      BY <1>3, <1>4, <3>1 DEF Between
    <3>3. x < k
      BY <1>4, <1>6, <1>7, <1>8, <3>1, <3>2
    <3>4. Between(left, i, x)
      <4>1. i > 1 => i - 1 \in 1 .. mid
        BY <1>4, <3>1
      <4>2. i <= mid => i \in 1 .. mid
        BY <1>4, <3>1
      <4> QED
        BY <1>4, <3>1, <3>2, <4>1, <4>2 DEF Between
    <3> QED
      BY <3>1, <3>3, <3>4 DEF LowKeys, HighKeys
  <2>10. ASSUME NEW i \in Ways(right), NEW x \in under[Child(right, i)]
         PROVE  x \in HighKeys(keys, k) /\ Between(right, i, x)
    <3> DEFINE j == mid + 1 + i
    <3>1. x \in keys /\ x \in Int /\ Between(node, j, x) /\ i \in 1 .. n - mid
      BY <2>1, <2>4, <2>8
    <3>2. j > 1 /\ j - 1 = mid + i /\ mid + i \in mid + 1 .. n
      BY <1>4, <3>1
    <3>3. node.cells[mid + i].key <= x
      BY <3>1, <3>2 DEF Between
    <3>4. k <= x
      BY <1>6, <1>7, <1>9, <3>1, <3>2, <3>3
    <3>5. i > 1 => right.cells[i - 1].key <= x
      <4>1. ASSUME i > 1
            PROVE  i - 1 \in 1 .. n - mid - 1 /\ mid + 1 + (i - 1) = mid + i
        BY <1>4, <3>1, <4>1
      <4> QED
        BY <2>3, <3>3, <4>1
    <3>6. i <= n - mid - 1 => x < right.cells[i].key
      <4>1. ASSUME i <= n - mid - 1
            PROVE  i \in 1 .. n - mid - 1 /\ j <= n
        BY <1>4, <3>1, <4>1
      <4> QED
        BY <1>3, <2>3, <3>1, <4>1 DEF Between
    <3> QED
      BY <1>4, <1>12, <3>1, <3>4, <3>5, <3>6 DEF Between, LowKeys, HighKeys
  <2>11. HalfFullNode(left) /\ HalfFullNode(right)
    <3>1. mid >= MaxInternalCells \div 2 /\ n - mid - 1 >= MaxInternalCells \div 2
      BY <1>4, <1>12, BTreeAssumption
    <3> QED
      BY <1>4, <1>12, <3>1 DEF HalfFullNode
  <2>12. \A i \in 1 .. Len(left.cells) : left.cells[i].key \in LowKeys(keys, k)
    BY <1>10
  <2> QED
    BY <1>7, <1>a, <1>10, <2>5, <2>7, <2>9, <2>10, <2>11 DEF Sorted
<1> QED
  BY <1>2, <1>11, <1>12

\* Their pointers are those of the node, on the two sides of one slot.
LEMMA HalvesWays ==
  ASSUME NEW node \in RealNodes, Overfull(node)
  PROVE  LET mid == Mid(node) IN
         /\ mid \in Nat
         /\ \A i \in Ways(LeftHalf(node)) :
              /\ i \in Ways(node) /\ i \in Nat /\ i <= mid + 1
              /\ Child(LeftHalf(node), i) = Child(node, i)
         /\ \A i \in Ways(RightHalf(node)) :
              /\ mid + 1 + i \in Ways(node) /\ i \in Nat \ {0}
              /\ Child(RightHalf(node), i) = Child(node, mid + 1 + i)
<1> DEFINE n == Len(node.cells)
           mid == Mid(node)
           left == LeftHalf(node)
           right == RightHalf(node)
<1>1. HalvesOf(node, n, mid, left, right)
  BY HalfShape
<1>2. /\ node.type \in {"leaf", "internal"}
      /\ left.type = node.type /\ right.type = node.type
  BY CellFacts, HalfFacts
<1>3. n = Len(node.cells)
  OBVIOUS
<1> SUFFICES /\ mid \in Nat
             /\ \A i \in Ways(left) :
                  /\ i \in Ways(node) /\ i \in Nat /\ i <= mid + 1
                  /\ Child(left, i) = Child(node, i)
             /\ \A i \in Ways(right) :
                  /\ mid + 1 + i \in Ways(node) /\ i \in Nat \ {0}
                  /\ Child(right, i) = Child(node, mid + 1 + i)
  OBVIOUS
<1> HIDE DEF n, mid, left, right
<1>4. n \in Nat /\ mid \in 1 .. n - 1 /\ Len(left.cells) = mid
  BY <1>1 DEF HalvesOf
<1>5. CASE node.type = "leaf"
  BY <1>2, <1>4, <1>5 DEF Ways
<1>6. CASE node.type = "internal"
  <2>1. /\ mid + 2 <= n /\ Len(right.cells) = n - mid - 1
        /\ \A i \in 1 .. mid + 1 : Child(left, i) = Child(node, i)
        /\ \A i \in 1 .. n - mid : Child(right, i) = Child(node, mid + 1 + i)
    BY <1>1, <1>6 DEF HalvesOf
  <2>2. n - mid - 1 + 1 = n - mid
    BY <1>4
  <2>3. /\ Ways(left) = 1 .. mid + 1 /\ Ways(right) = 1 .. n - mid
        /\ Ways(node) = 1 .. n + 1
    BY <1>2, <1>3, <1>4, <1>6, <2>1, <2>2 DEF Ways
  <2>4. /\ \A i \in 1 .. mid + 1 : i \in 1 .. n + 1 /\ i \in Nat /\ i <= mid + 1
        /\ \A i \in 1 .. n - mid : mid + 1 + i \in 1 .. n + 1 /\ i \in Nat \ {0}
    BY <1>4
  <2>5. \A i \in Ways(left) : /\ i \in Ways(node) /\ i \in Nat /\ i <= mid + 1
                              /\ Child(left, i) = Child(node, i)
    BY <2>1, <2>3, <2>4
  <2>6. \A i \in Ways(right) : /\ mid + 1 + i \in Ways(node) /\ i \in Nat \ {0}
                               /\ Child(right, i) = Child(node, mid + 1 + i)
    BY <2>1, <2>3, <2>4
  <2>7. mid \in Nat
    BY <1>4
  <2> QED
    BY <2>5, <2>6, <2>7
<1> QED
  BY <1>2, <1>5, <1>6

\* A node stays in order when there are fewer keys below it.
LEMMA SortedBelow ==
  ASSUME NEW node, NEW keys, NEW under, NEW fewer, Sorted(node, keys, under),
         \A i \in Ways(node) : fewer[Child(node, i)] \subseteq under[Child(node, i)]
  PROVE  Sorted(node, keys, fewer)
<1>1. \A i \in Ways(node) : \A k \in fewer[Child(node, i)] :
        k \in keys /\ Between(node, i, k)
  BY DEF Sorted
<1> QED
  BY <1>1 DEF Sorted

\* A node has split, and only the left half is written as yet.
LEMMA Halved ==
  ASSUME NEW m, NEW T, NEW h, NEW under, NEW tops, Tree(m, T, h, under, tops),
         NEW p \in T, Overfull(m[p])
  PROVE  Tree([m EXCEPT ![p] = LeftHalf(m[p])], T, h, under, tops)
<1> DEFINE left == LeftHalf(m[p])
           n == [m EXCEPT ![p] = left]
<1>1. /\ m \in [PageNums -> Pages] /\ T \subseteq PageNums /\ p \in PageNums
      /\ h \in [PageNums -> Nat] /\ under \in [PageNums -> SUBSET Int]
      /\ m[p] \in RealNodes /\ Sorted(m[p], under[p], under)
      /\ \A i \in Ways(m[p]) : Child(m[p], i) \in T \ tops
  BY TreeNode
<1>2. /\ left \in RealNodes /\ left.type = m[p].type
      /\ Sorted(left, under[p], under) /\ HalfFullNode(left)
      /\ \A i \in Ways(left) : i \in Ways(m[p]) /\ Child(left, i) = Child(m[p], i)
  <2> DEFINE k == PromotedKey(m[p])
             low == LowKeys(under[p], k)
  <2>1. Sorted(left, low, under) /\ HalfFullNode(left)
    BY <1>1, HalvesSorted
  <2>2. low \subseteq under[p]
    BY DEF LowKeys
  <2>3. left \in RealNodes /\ left.type = m[p].type
    BY <1>1, HalfFacts
  <2>4. \A i \in Ways(left) : i \in Ways(m[p]) /\ Child(left, i) = Child(m[p], i)
    BY <1>1, HalvesWays
  <2> HIDE DEF low, left
  <2> QED
    BY <2>1, <2>2, <2>3, <2>4, SortedWithin
<1> HIDE DEF left
<1>3. n \in [PageNums -> Pages] /\ \A q \in PageNums : n[q] = IF q = p THEN left ELSE m[q]
  BY <1>1, <1>2, PageFacts
<1> HIDE DEF n
<1>4. \A q \in PageNums :
        /\ n[q].type = m[q].type
        /\ \A i \in Ways(n[q]) : i \in Ways(m[q]) /\ Child(n[q], i) = Child(m[q], i)
  BY <1>2, <1>3
<1>5. Typed(n, T, h, under)
  BY <1>1, <1>3 DEF Typed
<1>6. Ranked(n, h)
  BY <1>4 DEF Tree, Ranked
<1>7. OneWayIn(n, T)
  BY <1>1, <1>4, SameWaysIn DEF Tree
<1>8. ASSUME NEW q \in T PROVE TreePage(n, T, under, tops, q)
  <2>1. CASE q = p
    <3>1. n[q] = left
      BY <1>1, <1>3, <2>1
    <3> QED
      BY <1>1, <1>2, <2>1, <3>1 DEF TreePage
  <2>2. CASE q # p
    <3>1. n[q] = m[q]
      BY <1>1, <1>3, <2>2
    <3> QED
      BY <3>1 DEF Tree, TreePage
  <2> QED
    BY <2>1, <2>2
<1> QED
  BY <1>5, <1>6, <1>7, <1>8 DEF Tree, n, left

\* Both halves are written, the right one on a page that is in no tree.
LEMMA SplitOff ==
  ASSUME NEW m, NEW T, NEW h, NEW under, NEW tops, Tree(m, T, h, under, tops),
         NEW p \in T, Overfull(m[p]),
         NEW f \in PageNums, f \notin T,
         \A q \in PageNums : \A i \in Ways(m[q]) : Child(m[q], i) # f
  PROVE  LET k == PromotedKey(m[p]) IN
         /\ k \in under[p] /\ k \in Keys /\ LowKeys(under[p], k) # {}
         /\ Tree([m EXCEPT ![p] = LeftHalf(m[p]), ![f] = RightHalf(m[p])],
                 T \cup {f}, [h EXCEPT ![f] = h[p]],
                 [under EXCEPT ![p] = LowKeys(under[p], k),
                               ![f] = HighKeys(under[p], k)],
                 tops)
<1> DEFINE k == PromotedKey(m[p])
           left == LeftHalf(m[p])
           right == RightHalf(m[p])
           mid == Mid(m[p])
           low == LowKeys(under[p], k)
           high == HighKeys(under[p], k)
           n == [m EXCEPT ![p] = left, ![f] = right]
           g == [h EXCEPT ![f] = h[p]]
           u == [under EXCEPT ![p] = low, ![f] = high]
           U == T \cup {f}
<1> SUFFICES /\ k \in under[p] /\ k \in Keys /\ LowKeys(under[p], k) # {}
             /\ Tree(n, U, g, u, tops)
  OBVIOUS
<1>1. /\ m \in [PageNums -> Pages] /\ T \subseteq PageNums /\ p \in PageNums
      /\ h \in [PageNums -> Nat] /\ under \in [PageNums -> SUBSET Int]
      /\ m[p] \in RealNodes /\ Sorted(m[p], under[p], under)
      /\ \A i \in Ways(m[p]) : Child(m[p], i) \in T \ tops
  BY TreeNode
<1>2. /\ k \in under[p] /\ low # {}
      /\ Sorted(left, low, under) /\ Sorted(right, high, under)
      /\ HalfFullNode(left) /\ HalfFullNode(right)
  <2>1. under[p] \in SUBSET Int
    BY <1>1
  <2> QED
    BY <1>1, <2>1, HalvesSorted
<1>3. /\ left \in RealNodes /\ left.type = m[p].type
      /\ right \in RealNodes /\ right.type = m[p].type /\ k \in Keys
  BY <1>1, HalfFacts
<1>4. /\ mid \in Nat
      /\ \A i \in Ways(left) : /\ i \in Ways(m[p]) /\ i \in Nat /\ i <= mid + 1
                               /\ Child(left, i) = Child(m[p], i)
      /\ \A i \in Ways(right) : /\ mid + 1 + i \in Ways(m[p]) /\ i \in Nat \ {0}
                                /\ Child(right, i) = Child(m[p], mid + 1 + i)
  BY <1>1, HalvesWays
<1>5. /\ low \subseteq under[p] /\ high \subseteq under[p]
      /\ \A x \in low : x < k
  BY DEF LowKeys, HighKeys
<1> HIDE DEF k, left, right, mid, low, high
<1>6. /\ n \in [PageNums -> Pages] /\ g \in [PageNums -> Nat]
      /\ u \in [PageNums -> SUBSET Int]
      /\ n[p] = left /\ n[f] = right /\ g[f] = h[p] /\ u[p] = low /\ u[f] = high
      /\ \A q \in PageNums : q # f => g[q] = h[q]
      /\ \A q \in PageNums : q # p /\ q # f => n[q] = m[q] /\ u[q] = under[q]
  BY <1>1, <1>3, <1>5, PageFacts
<1> HIDE DEF n, g, u
<1>7. Typed(n, U, g, u)
  BY <1>1, <1>6 DEF Typed, U
<1>8. Ranked(n, g)
  <2>1. \A q \in PageNums :
          /\ m[q].type # "internal" => h[q] = 0
          /\ \A i \in Ways(m[q]) : /\ Child(m[q], i) \in PageNums /\ Child(m[q], i) # f
                                   /\ h[q] = h[Child(m[q], i)] + 1
    <3>1. \A q \in PageNums : m[q].type # "internal" => h[q] = 0
      BY DEF Tree, Ranked
    <3>2. \A q \in PageNums : \A i \in Ways(m[q]) :
            Child(m[q], i) \in PageNums /\ h[q] = h[Child(m[q], i)] + 1
      BY TreeNode
    <3> QED
      BY <3>1, <3>2
  <2>2. ASSUME NEW q \in PageNums
        PROVE  /\ n[q].type # "internal" => g[q] = 0
               /\ \A i \in Ways(n[q]) : g[q] = g[Child(n[q], i)] + 1
    <3>1. CASE q = f
      <4>1. \A i \in Ways(right) :
              /\ Child(right, i) \in PageNums /\ Child(right, i) # f
              /\ h[p] = h[Child(right, i)] + 1
        BY <1>1, <1>4, <2>1
      <4> QED
        BY <1>1, <1>3, <1>6, <2>1, <3>1, <4>1
    <3>2. CASE q = p
      <4>1. \A i \in Ways(left) :
              /\ Child(left, i) \in PageNums /\ Child(left, i) # f
              /\ h[p] = h[Child(left, i)] + 1
        BY <1>1, <1>4, <2>1
      <4> QED
        BY <1>1, <1>3, <1>6, <2>1, <3>2, <4>1
    <3>3. CASE q # p /\ q # f
      BY <1>6, <2>1, <3>3
    <3> QED
      BY <3>1, <3>2, <3>3
  <2> QED
    BY <2>2 DEF Ranked
<1>9. OneWayIn(n, U)
  <2>1. \A q, r \in T : \A i \in Ways(m[q]), j \in Ways(m[r]) :
          Child(m[q], i) = Child(m[r], j) => q = r /\ i = j
    BY DEF Tree, OneWayIn
  <2>2. \A q \in T : \A i \in Ways(n[q]) :
          /\ i \in Ways(m[q]) /\ Child(n[q], i) = Child(m[q], i)
          /\ q = p => i \in Nat /\ i <= mid + 1
    BY <1>1, <1>4, <1>6
  <2>3. \A i \in Ways(n[f]) : /\ mid + 1 + i \in Ways(m[p]) /\ i \in Nat \ {0}
                              /\ Child(n[f], i) = Child(m[p], mid + 1 + i)
    BY <1>4, <1>6
  <2>4. ASSUME NEW q \in T, NEW i \in Ways(n[q]), NEW j \in Ways(n[f])
        PROVE  Child(n[q], i) # Child(n[f], j)
    <3>1. SUFFICES ASSUME Child(n[q], i) = Child(n[f], j) PROVE FALSE
      OBVIOUS
    <3> DEFINE l == mid + 1 + j
    <3>a. l \in Ways(m[p]) /\ Child(n[f], j) = Child(m[p], l)
      BY <2>3
    <3> HIDE DEF l
    <3>b. i \in Ways(m[q]) /\ Child(m[q], i) = Child(m[p], l)
      BY <2>2, <3>1, <3>a
    <3>2. q = p /\ i = l
      BY <2>1, <3>a, <3>b
    <3> USE DEF l
    <3> QED
      BY <1>4, <2>2, <2>3, <3>2
  <2>5. ASSUME NEW i \in Ways(n[f]), NEW j \in Ways(n[f]), Child(n[f], i) = Child(n[f], j)
        PROVE  i = j
    <3> DEFINE a == mid + 1 + i
               b == mid + 1 + j
    <3>1. /\ a \in Ways(m[p]) /\ b \in Ways(m[p]) /\ p \in T
          /\ Child(m[p], a) = Child(m[p], b)
      BY <2>3, <2>5
    <3> HIDE DEF a, b
    <3>2. a = b
      BY <2>1, <3>1
    <3> QED
      BY <1>4, <2>3, <3>2 DEF a, b
  <2>6. ASSUME NEW q \in T, NEW r \in T, NEW i \in Ways(n[q]), NEW j \in Ways(n[r]),
               Child(n[q], i) = Child(n[r], j)
        PROVE  q = r /\ i = j
    <3>1. OneWayIn(n, T)
      BY <2>2, SameWaysIn DEF Tree
    <3> QED
      BY <2>6, <3>1 DEF OneWayIn
  <2>7. ASSUME NEW q \in U, NEW r \in U, NEW i \in Ways(n[q]), NEW j \in Ways(n[r]),
               Child(n[q], i) = Child(n[r], j)
        PROVE  q = r /\ i = j
    BY <2>4, <2>5, <2>6, <2>7 DEF U
  <2> QED
    BY <2>7 DEF OneWayIn
<1>10. ASSUME NEW q \in U PROVE TreePage(n, U, u, tops, q)
  <2>1. T \subseteq U /\ f \notin T
    BY DEF U
  <2>2. \A c \in T : u[c] \subseteq under[c]
    BY <1>1, <1>5, <1>6
  <2>3. CASE q = p
    <3>1. \A i \in Ways(left) : Child(left, i) \in T \ tops
      BY <1>1, <1>4
    <3>2. Sorted(left, low, u)
      BY <1>2, <2>2, <3>1, SortedBelow
    <3> QED
      BY <1>2, <1>3, <1>6, <2>1, <2>3, <3>1, <3>2 DEF TreePage
  <2>4. CASE q = f
    <3>1. \A i \in Ways(right) : Child(right, i) \in T \ tops
      BY <1>1, <1>4
    <3>2. Sorted(right, high, u)
      BY <1>2, <2>2, <3>1, SortedBelow
    <3> QED
      BY <1>2, <1>3, <1>6, <2>1, <2>4, <3>1, <3>2 DEF TreePage
  <2>5. CASE q # p /\ q # f
    <3>1. q \in T /\ n[q] = m[q] /\ u[q] = under[q]
      BY <1>1, <1>6, <2>5 DEF U
    <3>2. TreePage(m, T, under, tops, q)
      BY <3>1 DEF Tree
    <3>3. Sorted(m[q], under[q], u)
      BY <2>2, <3>2, SortedBelow DEF TreePage
    <3> QED
      BY <2>1, <3>1, <3>2, <3>3 DEF TreePage
  <2> QED
    BY <2>3, <2>4, <2>5
<1> QED
  BY <1>2, <1>3, <1>5, <1>7, <1>8, <1>9, <1>10 DEF Tree, low

\* Page q has split into p and r around k, where slot i of q leads to: p holds
\* the lower keys, and nothing leads to r as yet.
SplitBelow(m, T, h, under, tops, q, i, p, r, k) ==
  /\ q \in T /\ i \in Ways(m[q]) /\ p = Child(m[q], i)
  /\ r \in T \ tops /\ h[r] = h[p]
  /\ \A s \in T : \A j \in Ways(m[s]) : Child(m[s], j) # r
  /\ k \in Keys /\ k \in under[q] /\ Between(m[q], i, k)
  /\ under[p] # {} /\ \A x \in under[p] : x < k
  /\ \A x \in under[r] : k <= x /\ x \in under[q] /\ Between(m[q], i, x)

\* The keys of the node above a split lie on their sides of the separator: the
\* cells before the slot hold smaller keys, the cells from it on larger ones.
LEMMA SlotKeys ==
  ASSUME NEW m, NEW T, NEW h, NEW under, NEW tops, Tree(m, T, h, under, tops),
         NEW q, NEW i, NEW p, NEW r, NEW k,
         SplitBelow(m, T, h, under, tops, q, i, p, r, k)
  PROVE  /\ \A j \in 1 .. Len(m[q].cells) : j < i => m[q].cells[j].key < k
         /\ \A j \in 1 .. Len(m[q].cells) : i <= j => k < m[q].cells[j].key
<1>0. /\ q \in T /\ i \in Ways(m[q]) /\ p = Child(m[q], i)
      /\ r \in T /\ r \notin tops /\ h[r] = h[p]
      /\ \A s \in T : \A j \in Ways(m[s]) : Child(m[s], j) # r
      /\ k \in Keys /\ k \in under[q] /\ Between(m[q], i, k)
      /\ under[p] # {} /\ \A x \in under[p] : x < k
      /\ \A x \in under[r] : k <= x /\ x \in under[q] /\ Between(m[q], i, x)
  BY DEF SplitBelow
<1> USE <1>0
<1> DEFINE node == m[q]
           n == Len(node.cells)
<1>1. /\ m \in [PageNums -> Pages] /\ T \subseteq PageNums /\ q \in PageNums
      /\ h \in [PageNums -> Nat] /\ under \in [PageNums -> SUBSET Int]
      /\ node \in RealNodes /\ node.type = "internal" /\ Sorted(node, under[q], under)
      /\ \A j \in Ways(node) : Child(node, j) \in T \ tops
      /\ p \in PageNums /\ h[q] = h[p] + 1
  BY TreeNode
<1>2. /\ n \in Nat /\ Ways(node) = 1 .. n + 1 /\ i \in 1 .. n + 1 /\ k \in Int
      /\ \A j \in 1 .. n : node.cells[j].key \in Int
      /\ \A a, b \in 1 .. n : a < b => node.cells[a].key < node.cells[b].key
  BY <1>1, CellFacts, WaysFacts, BTreeAssumption DEF Sorted, Ascending
<1>a. node = m[q] /\ n = Len(node.cells) /\ p = Child(node, i)
  OBVIOUS
<1> HIDE DEF n, node
<1>6. \A j \in 1 .. n + 1 : \A x \in under[Child(node, j)] :
        x \in Int /\ x \in under[q] /\ Between(node, j, x)
  BY <1>1, <1>2 DEF Sorted
<1>7. /\ i > 1 => node.cells[i - 1].key < k
      /\ i <= n => k < node.cells[i].key
  <2>1. PICK x \in under[p] : x \in Int /\ x < k /\ Between(node, i, x)
    BY <1>2, <1>6, <1>a
  <2>2. i > 1 => node.cells[i - 1].key <= x /\ i - 1 \in 1 .. n
    BY <1>2, <2>1 DEF Between
  <2>3. i <= n => k < node.cells[i].key
    BY <1>a DEF Between
  <2> QED
    BY <1>2, <2>1, <2>2, <2>3
<1>8. /\ \A j \in 1 .. n : j < i => node.cells[j].key < k
      /\ \A j \in 1 .. n : i <= j => k < node.cells[j].key
  <2>1. ASSUME NEW j \in 1 .. n, j < i PROVE node.cells[j].key < k
    <3>1. i > 1 /\ i - 1 \in 1 .. n /\ (j = i - 1 \/ j < i - 1)
      BY <1>2, <2>1
    <3>2. j < i - 1 => node.cells[j].key < node.cells[i - 1].key
      BY <1>2, <3>1
    <3> QED
      BY <1>2, <1>7, <3>1, <3>2
  <2>2. ASSUME NEW j \in 1 .. n, i <= j PROVE k < node.cells[j].key
    <3>1. i <= n /\ i \in 1 .. n /\ (j = i \/ i < j)
      BY <1>2, <2>2
    <3>2. i < j => node.cells[i].key < node.cells[j].key
      BY <1>2, <3>1
    <3> QED
      BY <1>2, <1>7, <3>1, <3>2
  <2> QED
    BY <2>1, <2>2
<1> QED
  BY <1>8, <1>a

\* Only one slot takes the separator: that of the child that was split.
LEMMA OneSlot ==
  ASSUME NEW m, NEW T, NEW h, NEW under, NEW tops, Tree(m, T, h, under, tops),
         NEW q, NEW i, NEW p, NEW r, NEW k,
         SplitBelow(m, T, h, under, tops, q, i, p, r, k)
  PROVE  \A j \in Slots(m[q].cells, k) : j = i
<1>0. /\ q \in T /\ i \in Ways(m[q]) /\ p = Child(m[q], i)
      /\ r \in T /\ r \notin tops /\ h[r] = h[p]
      /\ \A s \in T : \A j \in Ways(m[s]) : Child(m[s], j) # r
      /\ k \in Keys /\ k \in under[q] /\ Between(m[q], i, k)
      /\ under[p] # {} /\ \A x \in under[p] : x < k
      /\ \A x \in under[r] : k <= x /\ x \in under[q] /\ Between(m[q], i, x)
  BY DEF SplitBelow
<1> USE <1>0
<1> DEFINE node == m[q]
           n == Len(node.cells)
<1>1. /\ m \in [PageNums -> Pages] /\ T \subseteq PageNums /\ q \in PageNums
      /\ h \in [PageNums -> Nat] /\ under \in [PageNums -> SUBSET Int]
      /\ node \in RealNodes /\ node.type = "internal" /\ Sorted(node, under[q], under)
      /\ \A j \in Ways(node) : Child(node, j) \in T \ tops
      /\ p \in PageNums /\ h[q] = h[p] + 1
  BY TreeNode
<1>2. /\ n \in Nat /\ Ways(node) = 1 .. n + 1 /\ i \in 1 .. n + 1 /\ k \in Int
      /\ \A j \in 1 .. n : node.cells[j].key \in Int
      /\ \A a, b \in 1 .. n : a < b => node.cells[a].key < node.cells[b].key
  BY <1>1, CellFacts, WaysFacts, BTreeAssumption DEF Sorted, Ascending
<1>8. /\ \A j \in 1 .. n : j < i => node.cells[j].key < k
      /\ \A j \in 1 .. n : i <= j => k < node.cells[j].key
  BY SlotKeys
<1>a. node = m[q] /\ n = Len(node.cells) /\ p = Child(node, i)
  OBVIOUS
<1> HIDE DEF n, node
<1>9. \A j \in Slots(node.cells, k) : j = i
  <2>2. ASSUME NEW j \in Slots(node.cells, k) PROVE j = i
    <3>1. /\ j \in 1 .. n + 1 /\ \A l \in 1 .. j - 1 : node.cells[l].key < k
          /\ j <= n => k <= node.cells[j].key
      BY <1>a DEF Slots
    <3>2. ~(j < i)
      <4>1. SUFFICES ASSUME j < i PROVE FALSE
        OBVIOUS
      <4>2. j \in 1 .. n /\ j <= n
        BY <1>2, <3>1, <4>1
      <4>3. node.cells[j].key < k /\ k <= node.cells[j].key
        BY <1>8, <3>1, <4>1, <4>2
      <4> QED
        BY <1>2, <4>2, <4>3
    <3>3. ~(i < j)
      <4>1. SUFFICES ASSUME i < j PROVE FALSE
        OBVIOUS
      <4>2. i \in 1 .. n /\ i \in 1 .. j - 1 /\ i <= i
        BY <1>2, <3>1, <4>1
      <4>3. node.cells[i].key < k /\ k < node.cells[i].key
        BY <1>8, <3>1, <4>2
      <4> QED
        BY <1>2, <4>2, <4>3
    <3> QED
      BY <1>2, <3>1, <3>2, <3>3
  <2> QED
    BY <2>2
<1> QED
  BY <1>9, <1>a

\* Then q takes up the two halves.
LEMMA Adopted ==
  ASSUME NEW m, NEW T, NEW h, NEW under, NEW tops, Tree(m, T, h, under, tops),
         NEW q, NEW i, NEW p, NEW r, NEW k,
         SplitBelow(m, T, h, under, tops, q, i, p, r, k)
  PROVE  Tree([m EXCEPT ![q] = WithSplitChild(m[q], i, k, p, r)], T, h, under, tops)
<1>0. /\ q \in T /\ i \in Ways(m[q]) /\ p = Child(m[q], i)
      /\ r \in T /\ r \notin tops /\ h[r] = h[p]
      /\ \A s \in T : \A j \in Ways(m[s]) : Child(m[s], j) # r
      /\ k \in Keys /\ k \in under[q] /\ Between(m[q], i, k)
      /\ under[p] # {} /\ \A x \in under[p] : x < k
      /\ \A x \in under[r] : k <= x /\ x \in under[q] /\ Between(m[q], i, x)
  BY DEF SplitBelow
<1> USE <1>0
<1> DEFINE node == m[q]
           n == Len(node.cells)
           new == WithSplitChild(node, i, k, p, r)
           w == [m EXCEPT ![q] = new]
<1> SUFFICES Tree(w, T, h, under, tops)
  OBVIOUS
<1>1. /\ m \in [PageNums -> Pages] /\ T \subseteq PageNums /\ q \in PageNums
      /\ h \in [PageNums -> Nat] /\ under \in [PageNums -> SUBSET Int]
      /\ node \in RealNodes /\ node.type = "internal" /\ Sorted(node, under[q], under)
      /\ \A j \in Ways(node) : Child(node, j) \in T \ tops
      /\ p \in PageNums /\ h[q] = h[p] + 1
  BY TreeNode
<1>2. /\ n \in Nat /\ Ways(node) = 1 .. n + 1 /\ i \in 1 .. n + 1 /\ k \in Int
      /\ \A j \in 1 .. n : node.cells[j].key \in Int
      /\ \A a, b \in 1 .. n : a < b => node.cells[a].key < node.cells[b].key
  BY <1>1, CellFacts, WaysFacts, BTreeAssumption DEF Sorted, Ascending
<1>3. /\ new \in RealNodes /\ new.type = "internal" /\ Len(new.cells) = n + 1
      /\ \A j \in 1 .. n + 1 :
           new.cells[j].key = IF j < i THEN node.cells[j].key
                              ELSE IF j = i THEN k ELSE node.cells[j - 1].key
      /\ \A j \in 1 .. n + 2 :
           Child(new, j) = IF j < i THEN Child(node, j)
                           ELSE IF j = i THEN p
                           ELSE IF j = i + 1 THEN r ELSE Child(node, j - 1)
  <2>1. r \in PageNums
    BY <1>1
  <2>2. node \in RealNodes /\ node.type = "internal" /\ i \in 1 .. Len(node.cells) + 1
    BY <1>1, <1>2
  <2> HIDE DEF node
  <2>3. new \in RealNodes /\ new.type = "internal" /\ Len(new.cells) = n + 1
    BY <1>1, <2>1, <2>2, SplitShape
  <2>4. \A j \in 1 .. n + 1 :
          new.cells[j].key = IF j < i THEN node.cells[j].key
                             ELSE IF j = i THEN k ELSE node.cells[j - 1].key
    BY <1>1, <2>1, <2>2, SplitShape, SMTT(60)
  <2>5. \A j \in 1 .. n + 2 :
          Child(new, j) = IF j < i THEN Child(node, j)
                          ELSE IF j = i THEN p
                          ELSE IF j = i + 1 THEN r ELSE Child(node, j - 1)
    BY <1>1, <2>1, <2>2, SplitShape
  <2> QED
    BY <2>3, <2>4, <2>5
<1>8. /\ \A j \in 1 .. n : j < i => node.cells[j].key < k
      /\ \A j \in 1 .. n : i <= j => k < node.cells[j].key
  BY SlotKeys
<1>a. node = m[q] /\ n = Len(node.cells) /\ p = Child(node, i)
  OBVIOUS
<1> HIDE DEF new, n, node
<1>4. w \in [PageNums -> Pages] /\ w[q] = new /\ \A s \in PageNums : s # q => w[s] = m[s]
  BY <1>1, <1>3, PageFacts
<1> HIDE DEF w
<1>5. Ways(new) = 1 .. n + 2
  <2>1. n + 1 + 1 = n + 2
    BY <1>2
  <2> QED
    BY <1>3, <2>1 DEF Ways
<1>6. \A j \in 1 .. n + 1 : \A x \in under[Child(node, j)] :
        x \in Int /\ x \in under[q] /\ Between(node, j, x)
  BY <1>1, <1>2 DEF Sorted
<1>10. Ascending(new.cells)
  <2>1. ASSUME NEW a \in 1 .. n + 1, NEW b \in 1 .. n + 1, a < b
        PROVE  new.cells[a].key < new.cells[b].key
    <3>1. CASE b < i
      <4>1. a < i /\ a \in 1 .. n /\ b \in 1 .. n
        BY <1>2, <2>1, <3>1
      <4> QED
        BY <1>2, <1>3, <2>1, <3>1, <4>1
    <3>2. CASE b = i
      <4>1. a < i /\ a \in 1 .. n
        BY <1>2, <2>1, <3>2
      <4> QED
        BY <1>3, <1>8, <3>2, <4>1
    <3>3. CASE i < b
      <4>1. b - 1 \in 1 .. n /\ i <= b - 1 /\ ~(b < i) /\ b # i
        BY <1>2, <2>1, <3>3
      <4>2. new.cells[b].key = node.cells[b - 1].key
        BY <1>3, <4>1
      <4>3. CASE a < i
        <5>1. a \in 1 .. n /\ a < b - 1
          BY <1>2, <4>1, <4>3
        <5> QED
          BY <1>2, <1>3, <4>1, <4>2, <4>3, <5>1
      <4>4. CASE a = i
        BY <1>2, <1>3, <1>8, <4>1, <4>2, <4>4
      <4>5. CASE i < a
        <5>1. a - 1 \in 1 .. n /\ a - 1 < b - 1 /\ ~(a < i) /\ a # i
          BY <1>2, <2>1, <4>5
        <5>2. new.cells[a].key = node.cells[a - 1].key
          BY <1>3, <5>1
        <5> QED
          BY <1>2, <4>1, <4>2, <5>1, <5>2
      <4> QED
        BY <1>2, <4>3, <4>4, <4>5
    <3> QED
      BY <1>2, <3>1, <3>2, <3>3
  <2> QED
    BY <1>3, <2>1 DEF Ascending
<1>11. ASSUME NEW j \in Ways(new), NEW x \in under[Child(new, j)]
       PROVE  x \in under[q] /\ Between(new, j, x)
  <2>1. j \in 1 .. n + 2
    BY <1>5
  <2> SUFFICES /\ x \in under[q]
               /\ j > 1 => new.cells[j - 1].key <= x
               /\ j <= n + 1 => x < new.cells[j].key
    BY <1>3 DEF Between
  <2>2. CASE j < i
    <3>1. j \in 1 .. n + 1 /\ j <= n /\ Child(new, j) = Child(node, j)
      BY <1>2, <1>3, <2>1, <2>2
    <3>2. /\ x \in under[q] /\ (j > 1 => node.cells[j - 1].key <= x)
          /\ x < node.cells[j].key
      BY <1>6, <1>a, <3>1 DEF Between
    <3>3. j > 1 => j - 1 \in 1 .. n + 1 /\ j - 1 < i
      BY <1>2, <2>2, <3>1
    <3> QED
      BY <1>3, <2>2, <3>1, <3>2, <3>3
  <2>3. CASE j = i
    <3>1. Child(new, j) = p /\ j \in 1 .. n + 1 /\ new.cells[j].key = k
      BY <1>2, <1>3, <2>1, <2>3
    <3>2. x \in under[q] /\ (i > 1 => node.cells[i - 1].key <= x) /\ x < k
      BY <1>2, <1>6, <1>a, <3>1 DEF Between
    <3>3. i > 1 => i - 1 \in 1 .. n + 1 /\ i - 1 < i
      BY <1>2
    <3> QED
      BY <1>3, <2>3, <3>1, <3>2, <3>3
  <2>4. CASE j = i + 1
    <3>1. Child(new, j) = r /\ j - 1 = i /\ ~(j < i) /\ j # i
      BY <1>2, <1>3, <2>1, <2>4
    <3>2. x \in under[q] /\ k <= x /\ (i <= n => x < node.cells[i].key)
      BY <1>a, <3>1 DEF Between
    <3>3. j <= n + 1 => i <= n /\ new.cells[j].key = node.cells[i].key
      BY <1>2, <1>3, <2>1, <2>4, <3>1
    <3> QED
      BY <1>2, <1>3, <3>1, <3>2, <3>3
  <2>5. CASE i + 1 < j
    <3> DEFINE l == j - 1
    <3>1. /\ l \in 1 .. n + 1 /\ i < l /\ l > 1 /\ l - 1 \in 1 .. n /\ ~(j < i) /\ j # i
          /\ j # i + 1 /\ ~(l < i) /\ l # i /\ (j <= n + 1 => l <= n)
      BY <1>2, <2>1, <2>5
    <3>2. Child(new, j) = Child(node, l)
      BY <1>3, <2>1, <3>1
    <3>3. j <= n + 1 => new.cells[j].key = node.cells[l].key
      BY <1>3, <2>1, <3>1
    <3> HIDE DEF l
    <3>4. new.cells[l].key = node.cells[l - 1].key
      BY <1>3, <3>1
    <3>5. /\ x \in under[q] /\ node.cells[l - 1].key <= x
          /\ l <= n => x < node.cells[l].key
      BY <1>6, <1>a, <3>1, <3>2 DEF Between
    <3> QED
      BY <3>1, <3>3, <3>4, <3>5 DEF l
  <2> QED
    BY <1>2, <2>1, <2>2, <2>3, <2>4, <2>5
<1>12. \A j \in 1 .. n + 2 :
         \/ j = i + 1 /\ Child(new, j) = r
         \/ j <= i /\ j \in Ways(node) /\ Child(new, j) = Child(node, j)
         \/ i + 1 < j /\ j - 1 \in Ways(node) /\ Child(new, j) = Child(node, j - 1)
  <2>1. ASSUME NEW j \in 1 .. n + 2, j <= i
        PROVE  j \in Ways(node) /\ Child(new, j) = Child(node, j)
    <3>1. j \in 1 .. n + 1 /\ (j < i \/ j = i)
      BY <1>2, <2>1
    <3> QED
      BY <1>2, <1>3, <1>a, <3>1
  <2>2. ASSUME NEW j \in 1 .. n + 2, i + 1 < j
        PROVE  j - 1 \in Ways(node) /\ Child(new, j) = Child(node, j - 1)
    <3>1. j - 1 \in 1 .. n + 1 /\ ~(j < i) /\ j # i /\ j # i + 1
      BY <1>2, <2>2
    <3> QED
      BY <1>2, <1>3, <3>1
  <2>3. ASSUME NEW j \in 1 .. n + 2, j = i + 1 PROVE Child(new, j) = r
    BY <1>2, <1>3, <2>3
  <2>4. \A j \in 1 .. n + 2 : j <= i \/ j = i + 1 \/ i + 1 < j
    BY <1>2
  <2> QED
    BY <2>1, <2>2, <2>3, <2>4
<1>13. \A j \in Ways(new) : Child(new, j) \in T \ tops
  BY <1>1, <1>5, <1>12
<1>14. Typed(w, T, h, under)
  BY <1>1, <1>4 DEF Typed
<1>15. Ranked(w, h)
  <2>1. \A j \in Ways(node) : h[q] = h[Child(node, j)] + 1
    BY <1>1, <1>a, TreeNode
  <2>2. \A j \in Ways(new) : h[q] = h[Child(new, j)] + 1
    BY <1>1, <1>5, <1>12, <2>1
  <2>3. \A s \in PageNums : /\ m[s].type # "internal" => h[s] = 0
                            /\ \A j \in Ways(m[s]) : h[s] = h[Child(m[s], j)] + 1
    BY DEF Tree, Ranked
  <2> QED
    BY <1>3, <1>4, <2>2, <2>3 DEF Ranked
<1>16. OneWayIn(w, T)
  <2>1. \A s, t \in T : \A a \in Ways(m[s]), b \in Ways(m[t]) :
          Child(m[s], a) = Child(m[t], b) => s = t /\ a = b
    BY DEF Tree, OneWayIn
  <2>a. \A c, d \in Ways(node) : Child(node, c) = Child(node, d) => c = d
    <3>1. \A c \in Ways(m[q]), d \in Ways(m[q]) : Child(m[q], c) = Child(m[q], d) => c = d
      BY <2>1
    <3> QED
      BY <1>a, <3>1
  <2>b. \A s \in T : \A b \in Ways(m[s]) : \A c \in Ways(node) :
          Child(node, c) = Child(m[s], b) => s = q
    BY <1>a, <2>1
  <2>2. ASSUME NEW a \in Ways(new), NEW s \in T, s # q, NEW b \in Ways(m[s])
        PROVE  Child(new, a) # Child(m[s], b)
    BY <1>5, <1>12, <2>b, <2>2
  <2>3. ASSUME NEW a \in Ways(new), NEW b \in Ways(new), Child(new, a) = Child(new, b)
        PROVE  a = b
    <3>1. a \in 1 .. n + 2 /\ b \in 1 .. n + 2 /\ i \in Nat /\ a \in Nat /\ b \in Nat
      BY <1>2, <1>5
    <3>2. CASE a = i + 1
      BY <1>12, <1>a, <2>3, <3>1, <3>2
    <3>3. CASE b = i + 1
      BY <1>12, <1>a, <2>3, <3>1, <3>3
    <3>4. CASE a # i + 1 /\ b # i + 1
      <4> DEFINE c == IF a <= i THEN a ELSE a - 1
                 d == IF b <= i THEN b ELSE b - 1
      <4>1. c \in Ways(node) /\ Child(new, a) = Child(node, c)
        BY <1>12, <3>1, <3>4
      <4>2. d \in Ways(node) /\ Child(new, b) = Child(node, d)
        BY <1>12, <3>1, <3>4
      <4>3. c = d
        BY <2>a, <2>3, <4>1, <4>2
      <4> QED
        BY <3>1, <3>4, <4>3
    <3> QED
      BY <3>2, <3>3, <3>4
  <2>4. ASSUME NEW s \in T, NEW t \in T, NEW a \in Ways(w[s]), NEW b \in Ways(w[t]),
               Child(w[s], a) = Child(w[t], b)
        PROVE  s = t /\ a = b
    <3>1. s \in PageNums /\ t \in PageNums
      BY <1>1
    <3>2. CASE s = q /\ t = q
      BY <1>4, <2>3, <2>4, <3>2
    <3>3. CASE s = q /\ t # q
      BY <1>4, <2>2, <2>4, <3>1, <3>3
    <3>4. CASE s # q /\ t = q
      BY <1>4, <2>2, <2>4, <3>1, <3>4
    <3>5. CASE s # q /\ t # q
      BY <1>4, <2>1, <2>4, <3>1, <3>5
    <3> QED
      BY <3>2, <3>3, <3>4, <3>5
  <2> QED
    BY <2>4 DEF OneWayIn
<1>17. ASSUME NEW s \in T PROVE TreePage(w, T, under, tops, s)
  <2>1. CASE s = q
    <3>1. \A j \in 1 .. n + 1 : new.cells[j].key \in under[q]
      <4>1. ASSUME NEW j \in 1 .. n + 1 PROVE new.cells[j].key \in under[q]
        <5>1. \A l \in 1 .. n : node.cells[l].key \in under[q]
          BY <1>1, <1>a DEF Sorted
        <5>2. /\ j < i => j \in 1 .. n
              /\ ~(j < i) /\ j # i => j - 1 \in 1 .. n
          BY <1>2
        <5> QED
          BY <1>3, <5>1, <5>2
      <4> QED
        BY <4>1
    <3>2. Sorted(new, under[q], under)
      BY <1>3, <1>10, <1>11, <3>1 DEF Sorted
    <3>3. TreePage(m, T, under, tops, q)
      BY DEF Tree
    <3>4. q \notin tops => HalfFullNode(new)
      BY <1>1, <1>2, <1>3, <1>a, <3>3, BTreeAssumption, SMTT(60) DEF TreePage, HalfFullNode
    <3> QED
      BY <1>3, <1>4, <1>13, <2>1, <3>2, <3>4 DEF TreePage
  <2>2. CASE s # q
    <3>1. w[s] = m[s]
      BY <1>1, <1>4, <2>2
    <3> QED
      BY <3>1 DEF Tree, TreePage
  <2> QED
    BY <2>1, <2>2
<1> QED
  BY <1>14, <1>15, <1>16, <1>17 DEF Tree

\* A node with one key and two pointers.
LEMMA RootShape ==
  ASSUME NEW p \in PageNums, NEW r \in PageNums, NEW k \in Keys, NEW node,
         node = Internal(<<[child |-> p, key |-> k]>>, r)
  PROVE  /\ node \in RealNodes /\ node.type = "internal" /\ Len(node.cells) = 1
         /\ node.cells[1].key = k /\ Ways(node) = {1, 2}
         /\ Child(node, 1) = p /\ Child(node, 2) = r
<1> DEFINE cell == [child |-> p, key |-> k]
           cells == <<cell>>
<1>1. cell \in InternalCells /\ cell.child = p /\ cell.key = k
  BY DEF InternalCells
<1> HIDE DEF cell
<1>2. cells \in Seq(InternalCells) /\ Len(cells) = 1 /\ cells[1] = cell
  BY <1>1
<1>3. node = Internal(cells, r)
  BY DEF cell
<1> HIDE DEF cells
<1>4. /\ node \in RealNodes /\ node.type = "internal" /\ node.cells = cells
      /\ node.right = r
  BY <1>2, <1>3, InternalIsNode
<1>5. Ways(node) = {1, 2}
  <2>1. Ways(node) = 1 .. Len(cells) + 1
    BY <1>4 DEF Ways
  <2>2. Len(cells) + 1 = 2
    BY <1>2
  <2> QED
    BY <2>1, <2>2
<1> QED
  BY <1>1, <1>2, <1>4, <1>5 DEF Child

\* The top has split, and a page that nothing leads to becomes the new top.
LEMMA RootMade ==
  ASSUME NEW m, NEW T, NEW h, NEW under, NEW tops, Tree(m, T, h, under, tops),
         NEW p \in tops, p \in T, HalfFullNode(m[p]),
         NEW r \in T \ tops, h[r] = h[p],
         NEW f \in PageNums, f \notin T,
         \A q \in PageNums : \A i \in Ways(m[q]) : Child(m[q], i) \notin {r, f},
         NEW k \in Keys, \A x \in under[p] : x < k, \A x \in under[r] : k <= x
  PROVE  Tree([m EXCEPT ![f] = Internal(<<[child |-> p, key |-> k]>>, r)],
              T \cup {f}, [h EXCEPT ![f] = h[p] + 1],
              [under EXCEPT ![f] = under[p] \cup under[r] \cup {k}],
              (tops \ {p}) \cup {f})
<1> DEFINE node == Internal(<<[child |-> p, key |-> k]>>, r)
           keys == under[p] \cup under[r] \cup {k}
           n == [m EXCEPT ![f] = node]
           g == [h EXCEPT ![f] = h[p] + 1]
           u == [under EXCEPT ![f] = keys]
           U == T \cup {f}
           W == (tops \ {p}) \cup {f}
<1> SUFFICES Tree(n, U, g, u, W)
  OBVIOUS
<1>1. /\ m \in [PageNums -> Pages] /\ T \subseteq PageNums
      /\ h \in [PageNums -> Nat] /\ under \in [PageNums -> SUBSET Int]
      /\ p \in PageNums /\ r \in PageNums /\ k \in Int
  BY TreeNode, BTreeAssumption
<1>2. /\ node \in RealNodes /\ node.type = "internal" /\ Len(node.cells) = 1
      /\ node.cells[1].key = k /\ Ways(node) = {1, 2}
      /\ Child(node, 1) = p /\ Child(node, 2) = r
  BY <1>1, RootShape
<1>3. keys \in SUBSET Int
  BY <1>1
<1>4. \A q \in PageNums : \A i \in Ways(m[q]) :
        /\ Child(m[q], i) \in PageNums /\ Child(m[q], i) # f /\ Child(m[q], i) # r
        /\ h[q] = h[Child(m[q], i)] + 1
  BY TreeNode
<1>5. \A q \in PageNums : m[q].type # "internal" => h[q] = 0
  BY DEF Tree, Ranked
<1>6. keys = under[p] \cup under[r] \cup {k}
  OBVIOUS
<1> HIDE DEF node, keys
<1>7. /\ n \in [PageNums -> Pages] /\ g \in [PageNums -> Nat]
      /\ u \in [PageNums -> SUBSET Int]
      /\ n[f] = node /\ g[f] = h[p] + 1 /\ u[f] = keys
      /\ \A q \in PageNums : q # f => n[q] = m[q] /\ g[q] = h[q] /\ u[q] = under[q]
  BY <1>1, <1>2, <1>3, PageFacts
<1> HIDE DEF n, g, u
<1>8. p # f /\ r # f /\ \A q \in T : q # f /\ q \in PageNums
  BY <1>1
<1>9. Typed(n, U, g, u)
  BY <1>1, <1>7 DEF Typed, U
<1>10. Ranked(n, g)
  <2>1. ASSUME NEW q \in PageNums
        PROVE  /\ n[q].type # "internal" => g[q] = 0
               /\ \A i \in Ways(n[q]) : g[q] = g[Child(n[q], i)] + 1
    <3>1. CASE q = f
      <4>1. g[p] = h[p] /\ g[r] = h[p]
        BY <1>1, <1>7, <1>8
      <4> QED
        BY <1>2, <1>7, <3>1, <4>1
    <3>2. CASE q # f
      BY <1>4, <1>5, <1>7, <3>2
    <3> QED
      BY <3>1, <3>2
  <2> QED
    BY <2>1 DEF Ranked
<1>11. \A q \in T : \A i \in Ways(m[q]) : Child(m[q], i) \in T \ tops
  BY TreeNode
<1>12. OneWayIn(n, U)
  <2>1. \A q, s \in T : \A i \in Ways(m[q]), j \in Ways(m[s]) :
          Child(m[q], i) = Child(m[s], j) => q = s /\ i = j
    BY DEF Tree, OneWayIn
  <2>2. \A q \in T : n[q] = m[q]
    BY <1>7, <1>8
  <2>3. \A i, j \in Ways(node) : Child(node, i) = Child(node, j) => i = j
    BY <1>2
  <2>4. \A i \in Ways(node) : \A q \in T : \A j \in Ways(m[q]) :
          Child(node, i) # Child(m[q], j)
    BY <1>2, <1>4, <1>8, <1>11
  <2>5. ASSUME NEW q \in U, NEW s \in U, NEW i \in Ways(n[q]), NEW j \in Ways(n[s]),
               Child(n[q], i) = Child(n[s], j)
        PROVE  q = s /\ i = j
    <3>1. CASE q = f /\ s = f
      BY <1>7, <2>3, <2>5, <3>1
    <3>2. CASE q = f /\ s # f
      <4>1. s \in T /\ n[q] = node /\ n[s] = m[s]
        BY <1>7, <2>2, <3>2 DEF U
      <4> QED
        BY <2>4, <2>5, <4>1
    <3>3. CASE q # f /\ s = f
      <4>1. q \in T /\ n[s] = node /\ n[q] = m[q]
        BY <1>7, <2>2, <3>3 DEF U
      <4> QED
        BY <2>4, <2>5, <4>1
    <3>4. CASE q # f /\ s # f
      <4>1. q \in T /\ s \in T /\ n[q] = m[q] /\ n[s] = m[s]
        BY <2>2, <3>4 DEF U
      <4> QED
        BY <2>1, <2>5, <4>1
    <3> QED
      BY <3>1, <3>2, <3>3, <3>4
  <2> QED
    BY <2>5 DEF OneWayIn
<1>13. ASSUME NEW q \in U PROVE TreePage(n, U, u, W, q)
  <2>1. T \subseteq U
    BY DEF U
  <2>2. CASE q = f
    <3>1. \A i \in Ways(node) : Child(node, i) \in U \ W
      BY <1>2, <1>8, <2>1
    <3>2. u[p] = under[p] /\ u[r] = under[r]
      BY <1>1, <1>7, <1>8
    <3>3. Ascending(node.cells)
      BY <1>2 DEF Ascending
    <3>4. \A i \in 1 .. Len(node.cells) : node.cells[i].key \in keys
      BY <1>2, <1>6
    <3>5. \A x \in u[p] : x \in keys /\ Between(node, 1, x)
      BY <1>2, <1>6, <3>2 DEF Between
    <3>6. \A x \in u[r] : x \in keys /\ Between(node, 2, x)
      BY <1>2, <1>6, <3>2 DEF Between
    <3>7. Sorted(node, keys, u)
      BY <1>2, <3>3, <3>4, <3>5, <3>6 DEF Sorted
    <3>8. q \in W
      BY <2>2
    <3> HIDE DEF W
    <3> QED
      BY <1>2, <1>7, <2>2, <3>1, <3>7, <3>8 DEF TreePage
  <2>3. CASE q # f
    <3>1. q \in T /\ n[q] = m[q] /\ u[q] = under[q]
      BY <1>7, <1>8, <2>3 DEF U
    <3>2. TreePage(m, T, under, tops, q)
      BY <3>1 DEF Tree
    <3>3. \A i \in Ways(m[q]) : Child(m[q], i) \in T \ W /\ Child(m[q], i) # f
      BY <1>8, <1>11, <3>1
    <3>4. Sorted(m[q], under[q], u)
      <4>1. \A i \in Ways(m[q]) : u[Child(m[q], i)] \subseteq under[Child(m[q], i)]
        BY <1>7, <1>8, <3>3
      <4> QED
        BY <3>2, <4>1, SortedBelow DEF TreePage
    <3>5. q \notin W => HalfFullNode(m[q])
      BY <3>2 DEF TreePage
    <3> HIDE DEF W
    <3> QED
      BY <2>1, <3>1, <3>2, <3>3, <3>4, <3>5 DEF TreePage
  <2> QED
    BY <2>2, <2>3
<1> HIDE DEF W
<1> QED
  BY <1>9, <1>10, <1>12, <1>13 DEF Tree

\* Pages are left out of account, with all that leads to them; the pages they
\* led to are under no other.
LEMMA PagesLeft ==
  ASSUME NEW m, NEW T, NEW h, NEW under, NEW tops, Tree(m, T, h, under, tops),
         NEW U \in SUBSET T, NEW more \in SUBSET U,
         \A q \in U : \A i \in Ways(m[q]) : Child(m[q], i) \in U \ more
  PROVE  Tree(m, U, h, under, (tops \cap U) \cup more)
<1> DEFINE W == (tops \cap U) \cup more
<1>1. Typed(m, U, h, under) /\ Ranked(m, h) /\ OneWayIn(m, U)
  BY DEF Tree, Typed, OneWayIn
<1>2. \A q \in U : TreePage(m, U, under, W, q)
  BY DEF Tree, TreePage
<1> HIDE DEF W
<1>3. Tree(m, U, h, under, W)
  BY <1>1, <1>2 DEF Tree
<1> QED
  BY <1>3 DEF W

\* A leaf without cells is written on a page that nothing leads to.
LEMMA FirstLeafMade ==
  ASSUME NEW m, NEW T, NEW h, NEW under, NEW tops, Tree(m, T, h, under, tops),
         NEW f \in PageNums, f \notin T,
         \A q \in PageNums : \A i \in Ways(m[q]) : Child(m[q], i) # f
  PROVE  Tree([m EXCEPT ![f] = Leaf(<<>>)], T \cup {f}, [h EXCEPT ![f] = 0], under,
              tops \cup {f})
<1> DEFINE leaf == Leaf(<<>>)
           n == [m EXCEPT ![f] = leaf]
           g == [h EXCEPT ![f] = 0]
           U == T \cup {f}
           W == tops \cup {f}
<1>1. /\ leaf \in RealNodes /\ leaf.type = "leaf" /\ leaf.cells = <<>>
      /\ Len(leaf.cells) = 0 /\ Ways(leaf) = {} /\ leaf \in Pages
  BY EmptySeq, LeafIsNode, PageFacts DEF Ways
<1>2. m \in [PageNums -> Pages] /\ T \subseteq PageNums
  BY TreeNode
<1> HIDE DEF leaf
<1>3. Tree(n, T, g, under, tops)
  BY <1>1, OtherWritten
<1>4. n[f] = leaf /\ \A q \in T : n[q] = m[q]
  BY <1>2
<1> HIDE DEF n, g
<1>5. Typed(n, U, g, under) /\ Ranked(n, g)
  BY <1>3 DEF Tree, Typed
<1>6. TreePage(n, U, under, W, f)
  <2>1. 1 .. Len(leaf.cells) = {}
    BY <1>1
  <2>2. Sorted(leaf, under[f], under)
    BY <1>1, <2>1 DEF Sorted, Ascending
  <2> QED
    BY <1>1, <1>4, <2>2 DEF TreePage
<1>7. ASSUME NEW q \in T PROVE TreePage(n, U, under, W, q)
  <2>1. TreePage(n, T, under, tops, q)
    BY <1>3 DEF Tree
  <2>2. \A i \in Ways(n[q]) : Child(n[q], i) \in U \ W
    BY <2>1 DEF TreePage
  <2>3. q \notin W => q \notin tops
    OBVIOUS
  <2> HIDE DEF W, U
  <2> QED
    BY <2>1, <2>2, <2>3 DEF TreePage
<1>8. OneWayIn(n, U)
  <2>1. OneWayIn(n, T) /\ Ways(n[f]) = {}
    BY <1>1, <1>3, <1>4 DEF Tree
  <2> QED
    BY <2>1 DEF OneWayIn
<1>9. Tree(n, U, g, under, W)
  BY <1>5, <1>6, <1>7, <1>8 DEF Tree
<1> QED
  BY <1>9 DEF n, g, leaf

----------------------------------------------------------------------------
\* The cells under a page

\* The recursion of RowsUnder exists: the rows under a page are its own, or those

\* under its pointers from left to right.
LEMMA RowsRecursion ==
  ASSUME NEW m \in [PageNums -> Pages], NEW h \in [PageNums -> Nat], Falling(m, h)
  PROVE  \A p \in PageNums :
           /\ RowsUnder(m, p) \in Seq(LeafCells)
           /\ m[p].type # "internal" => RowsUnder(m, p) = m[p].cells
           /\ m[p].type = "internal" =>
                RowsUnder(m, p) = FlattenSeq([i \in 1 .. Len(m[p].cells) + 1 |->
                                                RowsUnder(m, Child(m[p], i))])
<1> DEFINE S == Seq(LeafCells)
           Parts(p, f) == [i \in 1 .. Len(m[p].cells) + 1 |-> f[Child(m[p], i)]]
           Body(p, f) == IF m[p].type = "internal"
                         THEN FlattenSeq(Parts(p, f)) ELSE m[p].cells
           Def == [p \in PageNums |-> [f \in [PageNums -> S] |-> Body(p, f)]]
<1>1. ASSUME NEW p \in PageNums, NEW f, \A q \in PageNums : h[q] < h[p] => f[q] \in S
      PROVE  Body(p, f) \in S
  <2>1. CASE m[p].type = "internal"
    <3> DEFINE n == Len(m[p].cells) + 1
    <3>1. n \in Nat \ {0} /\ \A i \in 1 .. n : f[Child(m[p], i)] \in S
      BY <1>1, <2>1, FallingPages
    <3>2. Parts(p, f) \in [1 .. n -> Seq(LeafCells)]
      BY <3>1
    <3> HIDE DEF n, Parts
    <3>3. FlattenSeq(Parts(p, f)) \in Seq(LeafCells)
      BY <3>1, <3>2, FlattenRange
    <3> QED
      BY <2>1, <3>3
  <2>2. CASE m[p].type # "internal"
    <3>1. m[p] \in Leaves \/ m[p] = Zero
      BY <2>2, PageFacts, CellFacts
    <3>2. m[p].cells \in Seq(LeafCells)
      <4>1. CASE m[p] \in Leaves
        BY <4>1 DEF Leaves
      <4>2. CASE m[p] = Zero
        BY <4>2, EmptySeq DEF Zero
      <4> QED
        BY <3>1, <4>1, <4>2
    <3> QED
      BY <2>2, <3>2
  <2> QED
    BY <2>1, <2>2
<1>2. ASSUME NEW p \in PageNums, NEW f, NEW g,
             \A q \in PageNums : h[q] < h[p] => f[q] = g[q]
      PROVE  Body(p, f) = Body(p, g)
  <2>1. CASE m[p].type = "internal"
    <3>1. \A i \in 1 .. Len(m[p].cells) + 1 : f[Child(m[p], i)] = g[Child(m[p], i)]
      BY <1>2, <2>1, FallingPages
    <3>2. Parts(p, f) = Parts(p, g)
      BY <3>1
    <3> HIDE DEF Parts
    <3> QED
      BY <2>1, <3>2
  <2>2. CASE m[p].type # "internal"
    BY <2>2
  <2> QED
    BY <2>1, <2>2
<1>3. S # {}
  BY EmptySeq
<1> HIDE DEF S, Body
<1>4. Def \in [PageNums -> [[PageNums -> S] -> S]]
  BY <1>1
<1>5. \A p \in PageNums, f \in [PageNums -> S] : Def[p][f] = Body(p, f)
  OBVIOUS
<1> HIDE DEF Def
<1>6. RankedDefinition(PageNums, S, h, Def)
  <2>1. ASSUME NEW p \in PageNums, NEW f \in [PageNums -> S], NEW g \in [PageNums -> S],
               \A q \in PageNums : h[q] < h[p] => f[q] = g[q]
        PROVE  Def[p][f] = Def[p][g]
    <3>1. Def[p][f] = Body(p, f) /\ Def[p][g] = Body(p, g)
      BY <1>5
    <3> QED
      BY <1>2, <2>1, <3>1
  <2> QED
    BY <1>4, <2>1 DEF RankedDefinition
<1>7. PICK f \in [PageNums -> S] : \A p \in PageNums : f[p] = Def[p][f]
  BY <1>3, <1>6, RecursiveFunctionExists
<1>8. \A p \in PageNums : f[p] = Body(p, f)
  BY <1>5, <1>7
<1>9. f = [p \in PageNums |-> Body(p, f)]
  BY <1>8
<1> DEFINE rows == CHOOSE g : g = [p \in PageNums |-> Body(p, g)]
<1>10. rows = [p \in PageNums |-> Body(p, rows)]
  BY <1>9
<1>11. \A p \in PageNums : RowsUnder(m, p) = rows[p]
  <2>1. \A p \in PageNums : p # NoPage
    BY BTreeAssumption DEF NoPage
  <2> QED
    BY <2>1 DEF RowsUnder, Body
<1> HIDE DEF rows
<1>12. \A p \in PageNums : rows[p] = Body(p, rows)
  BY <1>10, Zenon
<1> DEFINE T == {p \in PageNums : rows[p] \in S}
<1>13. ASSUME NEW p \in PageNums, \A q \in PageNums : h[q] < h[p] => q \in T
       PROVE  p \in T
  <2>1. \A q \in PageNums : h[q] < h[p] => rows[q] \in S
    BY <1>13
  <2>2. Body(p, rows) \in S
    BY <1>1, <2>1
  <2> QED
    BY <1>12, <2>2
<1> HIDE DEF T
<1>14. \A p \in PageNums : p \in T
  BY <1>13, RankInduction
<1>15. ASSUME NEW p \in PageNums, m[p].type = "internal"
       PROVE  RowsUnder(m, p) = FlattenSeq([i \in 1 .. Len(m[p].cells) + 1 |->
                                              RowsUnder(m, Child(m[p], i))])
  <2>1. [i \in 1 .. Len(m[p].cells) + 1 |-> RowsUnder(m, Child(m[p], i))] = Parts(p, rows)
    <3>1. \A i \in 1 .. Len(m[p].cells) + 1 : Child(m[p], i) \in PageNums
      BY <1>15, FallingPages
    <3> QED
      BY <1>11, <3>1
  <2>2. rows[p] = FlattenSeq(Parts(p, rows))
    BY <1>12, <1>15 DEF Body
  <2> QED
    BY <1>11, <2>1, <2>2
<1>16. \A p \in PageNums : m[p].type # "internal" => RowsUnder(m, p) = m[p].cells
  BY <1>11, <1>12 DEF Body
<1> QED
  BY <1>11, <1>14, <1>15, <1>16 DEF S, T

\* The cells under a page, and those under a node that is not on one.
CellsUnder(m, p) == Range(RowsUnder(m, p))

CellsOf(m, node) ==
  IF node.type = "internal"
  THEN UNION {CellsUnder(m, Child(node, i)) : i \in Ways(node)}
  ELSE Range(node.cells)

\* What the definition says of one cell.
LEMMA CellOf ==
  ASSUME NEW m, NEW node
  PROVE  /\ \A c : node.type = "internal" =>
              (c \in CellsOf(m, node) <=>
                 \E i \in Ways(node) : c \in CellsUnder(m, Child(node, i)))
         /\ node.type # "internal" => CellsOf(m, node) = Range(node.cells)
  BY DEF CellsOf

\* The cells of a leaf are those at its positions.
LEMMA CellIn ==
  ASSUME NEW s \in Seq(LeafCells)
  PROVE  /\ \A c : c \in Range(s) <=> \E i \in 1 .. Len(s) : c = s[i]
         /\ Range(s) \subseteq LeafCells
<1>1. DOMAIN s = 1 .. Len(s) /\ \A i \in 1 .. Len(s) : s[i] \in LeafCells
  OBVIOUS
<1> QED
  BY <1>1 DEF Range

\* The cells under a page are those of its node.
LEMMA CellsUnderFacts ==
  ASSUME NEW m \in [PageNums -> Pages], NEW h \in [PageNums -> Nat], Falling(m, h)
  PROVE  \A p \in PageNums : /\ CellsUnder(m, p) = CellsOf(m, m[p])
                             /\ CellsUnder(m, p) \subseteq LeafCells
<1> SUFFICES ASSUME NEW p \in PageNums
             PROVE  /\ CellsUnder(m, p) = CellsOf(m, m[p])
                    /\ CellsUnder(m, p) \subseteq LeafCells
  OBVIOUS
<1>1. RowsUnder(m, p) \in Seq(LeafCells)
  BY RowsRecursion
<1>2. CellsUnder(m, p) \subseteq LeafCells
  BY <1>1, CellIn DEF CellsUnder
<1>3. CASE m[p].type = "internal"
  <2> DEFINE n == Len(m[p].cells) + 1
             parts == [i \in 1 .. n |-> RowsUnder(m, Child(m[p], i))]
  <2>1. n \in Nat \ {0} /\ Ways(m[p]) = 1 .. n
        /\ \A i \in 1 .. n : Child(m[p], i) \in PageNums
    BY <1>3, FallingPages, WaysFacts
  <2>2. parts \in [1 .. n -> Seq(LeafCells)]
    BY <2>1, RowsRecursion
  <2>3. RowsUnder(m, p) = FlattenSeq(parts)
    BY <1>3, RowsRecursion
  <2>4. \A i \in 1 .. n : Range(parts[i]) = CellsUnder(m, Child(m[p], i))
    BY DEF CellsUnder
  <2> HIDE DEF n, parts
  <2>5. Range(FlattenSeq(parts)) = UNION {Range(parts[i]) : i \in 1 .. n}
    BY <2>1, <2>2, FlattenRange
  <2>6. UNION {Range(parts[i]) : i \in 1 .. n}
          = UNION {CellsUnder(m, Child(m[p], i)) : i \in Ways(m[p])}
    BY <2>1, <2>4
  <2>7. CellsUnder(m, p) = UNION {CellsUnder(m, Child(m[p], i)) : i \in Ways(m[p])}
    BY <2>3, <2>5, <2>6 DEF CellsUnder
  <2> QED
    BY <1>2, <1>3, <2>7 DEF CellsOf
<1>4. CASE m[p].type # "internal"
  <2>1. RowsUnder(m, p) = m[p].cells
    BY <1>4, RowsRecursion
  <2> QED
    BY <1>2, <1>4, <2>1 DEF CellsOf, CellsUnder
<1> QED
  BY <1>3, <1>4

\* One cell is under an internal page when it is under one of its pointers, and

\* under a leaf when the leaf holds it.
LEMMA CellUnder ==
  ASSUME NEW m \in [PageNums -> Pages], NEW h \in [PageNums -> Nat], Falling(m, h),
         NEW p \in PageNums
  PROVE  /\ \A c : m[p].type = "internal" =>
              (c \in CellsUnder(m, p) <=>
                 \E i \in Ways(m[p]) : c \in CellsUnder(m, Child(m[p], i)))
         /\ m[p].type # "internal" => CellsUnder(m, p) = Range(m[p].cells)
<1>1. CellsUnder(m, p) = CellsOf(m, m[p])
  BY CellsUnderFacts
<1> QED
  BY <1>1, CellOf

\* No cell is under no page.
LEMMA NoCells == ASSUME NEW m PROVE CellsUnder(m, NoPage) = {}
<1>1. RowsUnder(m, NoPage) = <<>>
  BY DEF RowsUnder
<1> QED
  BY <1>1 DEF CellsUnder, Range

\* The node on q in memory n is that in m, or has lost pointers and cells: of
\* the cells of K, it has none that it did not have.
Within(n, m, K, S, q) ==
  /\ n[q].type = "internal" <=> m[q].type = "internal"
  /\ \A i \in Ways(n[q]) : /\ Child(n[q], i) \in S
                           /\ \E j \in Ways(m[q]) : Child(m[q], j) = Child(n[q], i)
  /\ n[q].type # "internal" => Range(n[q].cells) \cap K \subseteq Range(m[q].cells)

\* What is under the pages of S, when each of them holds such a node or is known

\* already to have lost nothing else.
LEMMA CellsCompared ==
  ASSUME NEW m \in [PageNums -> Pages], NEW g \in [PageNums -> Nat], Falling(m, g),
         NEW n \in [PageNums -> Pages], NEW h \in [PageNums -> Nat], Falling(n, h),
         NEW K, NEW S \in SUBSET PageNums,
         \A q \in S : \/ CellsUnder(n, q) \cap K \subseteq CellsUnder(m, q)
                      \/ Within(n, m, K, S, q)
  PROVE  \A q \in S : CellsUnder(n, q) \cap K \subseteq CellsUnder(m, q)
<1> DEFINE Good(q) == q \in S => CellsUnder(n, q) \cap K \subseteq CellsUnder(m, q)
           G == {q \in PageNums : Good(q)}
<1>1. ASSUME NEW p \in PageNums, \A q \in PageNums : h[q] < h[p] => q \in G
      PROVE  p \in G
  <2> SUFFICES ASSUME p \in S, Within(n, m, K, S, p),
                      NEW c \in K, c \in CellsUnder(n, p)
               PROVE  c \in CellsUnder(m, p)
    OBVIOUS
  <2>1. CASE n[p].type = "internal"
    <3>1. m[p].type = "internal"
      BY <2>1 DEF Within
    <3>2. PICK i \in Ways(n[p]) : c \in CellsUnder(n, Child(n[p], i))
      BY <2>1, CellUnder
    <3>3. Child(n[p], i) \in S /\ \E j \in Ways(m[p]) : Child(m[p], j) = Child(n[p], i)
      BY DEF Within
    <3>4. h[Child(n[p], i)] < h[p]
      BY DEF Falling
    <3>5. c \in CellsUnder(m, Child(n[p], i))
      BY <1>1, <3>2, <3>3, <3>4
    <3> QED
      BY <3>1, <3>3, <3>5, CellUnder
  <2>2. CASE n[p].type # "internal"
    <3>1. m[p].type # "internal" /\ Range(n[p].cells) \cap K \subseteq Range(m[p].cells)
      BY <2>2 DEF Within
    <3>2. CellsUnder(n, p) = Range(n[p].cells)
      BY <2>2, CellUnder
    <3>3. CellsUnder(m, p) = Range(m[p].cells)
      BY <3>1, CellUnder
    <3> QED
      BY <3>1, <3>2, <3>3
  <2> QED
    BY <2>1, <2>2
<1> HIDE DEF G
<1>2. \A p \in PageNums : p \in G
  BY <1>1, RankInduction
<1> QED
  BY <1>2 DEF G

\* The page holds the same, as do those it leads to, or this is known of it.
Unchanged(n, m, S, q) ==
  \/ CellsUnder(n, q) = CellsUnder(m, q)
  \/ n[q] = m[q] /\ \A i \in Ways(m[q]) : Child(m[q], i) \in S

\* The same pages hold the same cells.
LEMMA CellsSame ==
  ASSUME NEW m \in [PageNums -> Pages], NEW g \in [PageNums -> Nat], Falling(m, g),
         NEW n \in [PageNums -> Pages], NEW h \in [PageNums -> Nat], Falling(n, h),
         NEW S \in SUBSET PageNums, \A q \in S : Unchanged(n, m, S, q)
  PROVE  \A q \in S : CellsUnder(n, q) = CellsUnder(m, q)
<1>1. \A q \in PageNums : CellsUnder(m, q) \subseteq LeafCells
                          /\ CellsUnder(n, q) \subseteq LeafCells
  BY CellsUnderFacts
<1>2. ASSUME NEW q \in S
      PROVE  /\ \/ CellsUnder(n, q) \cap LeafCells \subseteq CellsUnder(m, q)
                \/ Within(n, m, LeafCells, S, q)
             /\ \/ CellsUnder(m, q) \cap LeafCells \subseteq CellsUnder(n, q)
                \/ Within(m, n, LeafCells, S, q)
  <2>1. CASE CellsUnder(n, q) = CellsUnder(m, q)
    BY <2>1
  <2>2. CASE n[q] = m[q] /\ \A i \in Ways(m[q]) : Child(m[q], i) \in S
    BY <2>2 DEF Within
  <2> QED
    BY <2>1, <2>2 DEF Unchanged
<1>3. \A q \in S : CellsUnder(n, q) \cap LeafCells \subseteq CellsUnder(m, q)
  BY <1>2, CellsCompared
<1>4. \A q \in S : CellsUnder(m, q) \cap LeafCells \subseteq CellsUnder(n, q)
  BY <1>2, CellsCompared
<1> QED
  BY <1>1, <1>3, <1>4

\* The recursive definitions are defined on the pages of a tree.
LEMMA TreeFalls ==
  ASSUME NEW m, NEW T, NEW h, NEW under, NEW tops, Tree(m, T, h, under, tops)
  PROVE  /\ m \in [PageNums -> Pages] /\ h \in [PageNums -> Nat] /\ Falling(m, h)
         /\ T \subseteq PageNums
<1>1. /\ m \in [PageNums -> Pages] /\ h \in [PageNums -> Nat] /\ Ranked(m, h)
      /\ T \subseteq PageNums
  BY DEF Tree, Typed
<1> QED
  BY <1>1, RankedFalls

\* The cells under a page have keys that are allowed there.
LEMMA CellsAllowed ==
  ASSUME NEW m, NEW T, NEW h, NEW under, NEW tops, Tree(m, T, h, under, tops)
  PROVE  \A p \in T : \A c \in CellsUnder(m, p) : c.key \in under[p]
<1> DEFINE Good(p) == p \in T => \A c \in CellsUnder(m, p) : c.key \in under[p]
           G == {p \in PageNums : Good(p)}
<1>0. /\ m \in [PageNums -> Pages] /\ h \in [PageNums -> Nat] /\ Falling(m, h)
      /\ T \subseteq PageNums
  BY TreeFalls
<1>1. ASSUME NEW p \in PageNums, \A q \in PageNums : h[q] < h[p] => q \in G
      PROVE  p \in G
  <2> SUFFICES ASSUME p \in T, NEW c \in CellsUnder(m, p) PROVE c.key \in under[p]
    OBVIOUS
  <2>1. /\ m[p] \in RealNodes /\ Sorted(m[p], under[p], under)
        /\ \A i \in Ways(m[p]) : Child(m[p], i) \in T
    BY TreeNode
  <2>2. CASE m[p].type = "internal"
    <3>1. PICK i \in Ways(m[p]) : c \in CellsUnder(m, Child(m[p], i))
      BY <1>0, <2>2, CellUnder
    <3>2. Child(m[p], i) \in T /\ h[Child(m[p], i)] < h[p]
      BY <1>0, <2>1 DEF Falling
    <3>3. c.key \in under[Child(m[p], i)]
      BY <1>0, <1>1, <3>1, <3>2
    <3> QED
      BY <2>1, <3>3 DEF Sorted
  <2>3. CASE m[p].type # "internal"
    <3>1. m[p].cells \in Seq(LeafCells)
      BY <2>1, <2>3, CellFacts
    <3>2. c \in Range(m[p].cells)
      BY <1>0, <2>3, CellUnder
    <3>3. PICK i \in 1 .. Len(m[p].cells) : c = m[p].cells[i]
      BY <3>1, <3>2, CellIn
    <3> QED
      BY <2>1, <3>3 DEF Sorted
  <2> QED
    BY <2>2, <2>3
<1> HIDE DEF G
<1>2. \A p \in PageNums : p \in G
  BY <1>0, <1>1, RankInduction
<1> QED
  BY <1>0, <1>2 DEF G

\* The cells under a slot lie where it leads to.
LEMMA CellsBetween ==
  ASSUME NEW m, NEW T, NEW h, NEW under, NEW tops, Tree(m, T, h, under, tops),
         NEW p \in T, NEW i \in Ways(m[p]), NEW c \in CellsUnder(m, Child(m[p], i))
  PROVE  /\ Child(m[p], i) \in T /\ c \in LeafCells
         /\ c.key \in under[Child(m[p], i)] /\ Between(m[p], i, c.key)
<1>1. Sorted(m[p], under[p], under) /\ Child(m[p], i) \in T
  BY TreeNode
<1>2. c.key \in under[Child(m[p], i)]
  BY <1>1, CellsAllowed
<1>3. Between(m[p], i, c.key)
  BY <1>1, <1>2 DEF Sorted
<1>4. c \in LeafCells
  BY <1>1, TreeFalls, CellsUnderFacts
<1> QED
  BY <1>1, <1>2, <1>3, <1>4

\* A key lies where one slot leads to.
LEMMA OneSlotFor ==
  ASSUME NEW node \in RealNodes, Ascending(node.cells), NEW k \in Int,
         NEW i \in Ways(node), NEW j \in Ways(node),
         Between(node, i, k), Between(node, j, k)
  PROVE  i = j
<1> DEFINE n == Len(node.cells)
<1>1. n \in Nat /\ i \in 1 .. n + 1 /\ j \in 1 .. n + 1
  BY CellFacts, WaysFacts
<1>2. \A x \in 1 .. n : node.cells[x].key \in Int
  BY CellFacts, BTreeAssumption
<1>3. ASSUME NEW a \in 1 .. n + 1, NEW b \in 1 .. n + 1, a < b,
             Between(node, a, k), Between(node, b, k)
      PROVE  FALSE
  <2>1. a \in 1 .. n /\ b - 1 \in 1 .. n /\ a <= b - 1 /\ b > 1
    BY <1>1, <1>3
  <2>2. k < node.cells[a].key /\ node.cells[b - 1].key <= k
    BY <1>3, <2>1 DEF Between
  <2>3. a = b - 1 \/ a < b - 1
    BY <2>1
  <2>4. a < b - 1 => node.cells[a].key < node.cells[b - 1].key
    BY <2>1 DEF Ascending
  <2> QED
    BY <1>2, <2>1, <2>2, <2>3, <2>4
<1>4. ~(i < j) /\ ~(j < i)
  BY <1>1, <1>3
<1> QED
  BY <1>1, <1>4

\* No key is in two cells under a page.
LEMMA CellsDistinct ==
  ASSUME NEW m, NEW T, NEW h, NEW under, NEW tops, Tree(m, T, h, under, tops)
  PROVE  \A p \in T : \A c, d \in CellsUnder(m, p) : c.key = d.key => c = d
<1> DEFINE Good(p) == p \in T => \A c, d \in CellsUnder(m, p) : c.key = d.key => c = d
           G == {p \in PageNums : Good(p)}
<1>0. /\ m \in [PageNums -> Pages] /\ h \in [PageNums -> Nat] /\ Falling(m, h)
      /\ T \subseteq PageNums
  BY TreeFalls
<1>1. ASSUME NEW p \in PageNums, \A q \in PageNums : h[q] < h[p] => q \in G
      PROVE  p \in G
  <2> SUFFICES ASSUME p \in T, NEW c \in CellsUnder(m, p), NEW d \in CellsUnder(m, p),
                      c.key = d.key
               PROVE  c = d
    OBVIOUS
  <2>1. m[p] \in RealNodes /\ Ascending(m[p].cells)
    BY TreeNode DEF Sorted
  <2>2. CASE m[p].type = "internal"
    <3>1. PICK i \in Ways(m[p]) : c \in CellsUnder(m, Child(m[p], i))
      BY <1>0, <2>2, CellUnder
    <3>2. PICK j \in Ways(m[p]) : d \in CellsUnder(m, Child(m[p], j))
      BY <1>0, <2>2, CellUnder
    <3>3. Child(m[p], i) \in T /\ c \in LeafCells /\ Between(m[p], i, c.key)
      BY <3>1, CellsBetween
    <3>4. Between(m[p], j, d.key)
      BY <3>2, CellsBetween
    <3>5. c.key \in Int
      BY <3>3, BTreeAssumption DEF LeafCells
    <3>6. i = j
      BY <2>1, <3>3, <3>4, <3>5, OneSlotFor
    <3>7. h[Child(m[p], i)] < h[p]
      BY <1>0 DEF Falling
    <3> QED
      BY <1>0, <1>1, <3>1, <3>2, <3>3, <3>6, <3>7
  <2>3. CASE m[p].type # "internal"
    <3>1. m[p].cells \in Seq(LeafCells)
      BY <2>1, <2>3, CellFacts
    <3>2. c \in Range(m[p].cells) /\ d \in Range(m[p].cells)
      BY <1>0, <2>3, CellUnder
    <3>3. PICK i \in 1 .. Len(m[p].cells) : c = m[p].cells[i]
      BY <3>1, <3>2, CellIn
    <3>4. PICK j \in 1 .. Len(m[p].cells) : d = m[p].cells[j]
      BY <3>1, <3>2, CellIn
    <3>5. c.key \in Int
      BY <2>1, <3>3, CellFacts, BTreeAssumption
    <3>6. ~(i < j) /\ ~(j < i)
      BY <2>1, <3>3, <3>4, <3>5 DEF Ascending
    <3>7. i = j
      BY <3>6
    <3> QED
      BY <3>3, <3>4, <3>7
  <2> QED
    BY <2>2, <2>3
<1> HIDE DEF G
<1>2. \A p \in PageNums : p \in G
  BY <1>0, <1>1, RankInduction
<1> QED
  BY <1>0, <1>2 DEF G

\* A cell whose key belongs under a slot is under the page when it is under it.
LEMMA CellsToward ==
  ASSUME NEW m, NEW T, NEW h, NEW under, NEW tops, Tree(m, T, h, under, tops),
         NEW p \in T, NEW i \in Ways(m[p]), NEW k \in Int, Between(m[p], i, k)
  PROVE  \A c : c.key = k =>
           (c \in CellsUnder(m, p) <=> c \in CellsUnder(m, Child(m[p], i)))
<1>0. /\ m \in [PageNums -> Pages] /\ h \in [PageNums -> Nat] /\ Falling(m, h)
      /\ p \in PageNums /\ m[p].type = "internal"
  BY TreeFalls, TreeNode
<1>1. m[p] \in RealNodes /\ Ascending(m[p].cells)
  BY TreeNode DEF Sorted
<1>2. ASSUME NEW c, c.key = k, c \in CellsUnder(m, p)
      PROVE  c \in CellsUnder(m, Child(m[p], i))
  <2>1. PICK j \in Ways(m[p]) : c \in CellsUnder(m, Child(m[p], j))
    BY <1>0, <1>2, CellUnder
  <2>2. Between(m[p], j, k)
    BY <1>2, <2>1, CellsBetween
  <2> QED
    BY <1>1, <2>1, <2>2, OneSlotFor
<1>3. ASSUME NEW c, c \in CellsUnder(m, Child(m[p], i))
      PROVE  c \in CellsUnder(m, p)
  BY <1>0, <1>3, CellUnder
<1> QED
  BY <1>2, <1>3

\* The halves of a node share its cells and pointers out among them.
LEMMA HalvesCells ==
  ASSUME NEW node \in RealNodes, Overfull(node), NEW m, NEW n,
         \A i \in Ways(node) :
           CellsUnder(n, Child(node, i)) = CellsUnder(m, Child(node, i))
  PROVE  \A c : c \in CellsOf(m, node) <=>
                  c \in CellsOf(n, LeftHalf(node)) \/ c \in CellsOf(n, RightHalf(node))
<1> DEFINE len == Len(node.cells)
           mid == Mid(node)
           left == LeftHalf(node)
           right == RightHalf(node)
<1>1. HalvesOf(node, len, mid, left, right)
  BY HalfShape
<1>2. /\ left \in RealNodes /\ left.type = node.type
      /\ right \in RealNodes /\ right.type = node.type
      /\ node.type \in {"leaf", "internal"}
  BY HalfFacts, CellFacts
<1> HIDE DEF mid, left, right
<1> SUFFICES ASSUME NEW c
             PROVE  c \in CellsOf(m, node) <=> c \in CellsOf(n, left) \/ c \in CellsOf(n, right)
  BY DEF left, right
<1>3. CASE node.type = "leaf"
  <2>1. /\ node.cells \in Seq(LeafCells) /\ left.cells \in Seq(LeafCells)
        /\ right.cells \in Seq(LeafCells)
    BY <1>2, <1>3, CellFacts
  <2>2. /\ CellsOf(m, node) = Range(node.cells) /\ CellsOf(n, left) = Range(left.cells)
        /\ CellsOf(n, right) = Range(right.cells)
    BY <1>2, <1>3, CellOf
  <2>3. /\ len \in Nat /\ mid \in 1 .. len - 1
        /\ Len(left.cells) = mid /\ \A i \in 1 .. mid : left.cells[i] = node.cells[i]
        /\ Len(right.cells) = len - mid
        /\ \A i \in 1 .. len - mid : right.cells[i] = node.cells[mid + i]
    BY <1>1, <1>3 DEF HalvesOf
  <2>4. ASSUME NEW i \in 1 .. len, c = node.cells[i]
        PROVE  (\E j \in 1 .. mid : c = left.cells[j])
                 \/ \E j \in 1 .. len - mid : c = right.cells[j]
    <3>1. CASE i <= mid
      <4>1. i \in 1 .. mid
        BY <2>3, <3>1
      <4> QED
        BY <2>3, <2>4, <4>1
    <3>2. CASE i > mid
      <4>1. i - mid \in 1 .. len - mid /\ mid + (i - mid) = i
        BY <2>3, <3>2
      <4> QED
        BY <2>3, <2>4, <4>1
    <3> QED
      BY <2>3, <3>1, <3>2
  <2>5. ASSUME NEW j \in 1 .. mid, c = left.cells[j]
        PROVE  \E i \in 1 .. len : c = node.cells[i]
    <3>1. j \in 1 .. len
      BY <2>3
    <3> QED
      BY <2>3, <2>5, <3>1
  <2>6. ASSUME NEW j \in 1 .. len - mid, c = right.cells[j]
        PROVE  \E i \in 1 .. len : c = node.cells[i]
    <3>1. mid + j \in 1 .. len
      BY <2>3
    <3> QED
      BY <2>3, <2>6, <3>1
  <2>7. c \in Range(node.cells) <=> \E i \in 1 .. len : c = node.cells[i]
    BY <2>1, CellIn
  <2>8. c \in Range(left.cells) <=> \E i \in 1 .. mid : c = left.cells[i]
    <3>1. Len(left.cells) = mid
      BY <2>3
    <3> QED
      BY <2>1, <3>1, CellIn
  <2>9. c \in Range(right.cells) <=> \E i \in 1 .. len - mid : c = right.cells[i]
    <3>1. Len(right.cells) = len - mid
      BY <2>3
    <3> QED
      BY <2>1, <3>1, CellIn
  <2> QED
    BY <2>2, <2>4, <2>5, <2>6, <2>7, <2>8, <2>9
<1>4. CASE node.type = "internal"
  <2> DEFINE under(x, i) == c \in CellsUnder(m, Child(x, i))
             below(x, i) == c \in CellsUnder(n, Child(x, i))
  <2>1. /\ len \in Nat /\ mid \in 1 .. len - 1
        /\ Len(left.cells) = mid /\ Len(right.cells) = len - mid - 1
        /\ \A i \in 1 .. mid + 1 : Child(left, i) = Child(node, i)
        /\ \A i \in 1 .. len - mid : Child(right, i) = Child(node, mid + 1 + i)
    BY <1>1, <1>4 DEF HalvesOf
  <2>2. /\ Ways(node) = 1 .. len + 1 /\ Ways(left) = 1 .. mid + 1
        /\ Ways(right) = 1 .. len - mid
    <3>1. len - mid - 1 + 1 = len - mid
      BY <2>1
    <3> QED
      BY <1>2, <1>4, <2>1, <3>1 DEF Ways
  <2>3. /\ c \in CellsOf(m, node) <=> \E i \in 1 .. len + 1 : under(node, i)
        /\ c \in CellsOf(n, left) <=> \E i \in 1 .. mid + 1 : below(left, i)
        /\ c \in CellsOf(n, right) <=> \E i \in 1 .. len - mid : below(right, i)
    BY <1>2, <1>4, <2>2, CellOf
  <2>4. \A i \in 1 .. len + 1 : under(node, i) <=> below(node, i)
    BY <2>2
  <2>5. /\ \A i \in 1 .. mid + 1 : below(left, i) <=> below(node, i)
        /\ \A i \in 1 .. len - mid : below(right, i) <=> below(node, mid + 1 + i)
    BY <2>1
  <2> HIDE DEF under, below
  <2>6. ASSUME NEW i \in 1 .. len + 1, below(node, i)
        PROVE  (\E j \in 1 .. mid + 1 : below(left, j))
                 \/ \E j \in 1 .. len - mid : below(right, j)
    <3>1. CASE i <= mid + 1
      <4>1. i \in 1 .. mid + 1
        BY <2>1, <3>1
      <4> QED
        BY <2>5, <2>6, <4>1
    <3>2. CASE i > mid + 1
      <4>1. i - mid - 1 \in 1 .. len - mid /\ mid + 1 + (i - mid - 1) = i
        BY <2>1, <3>2
      <4> QED
        BY <2>5, <2>6, <4>1
    <3> QED
      BY <2>1, <3>1, <3>2
  <2>7. ASSUME NEW j \in 1 .. mid + 1, below(left, j)
        PROVE  \E i \in 1 .. len + 1 : below(node, i)
    <3>1. j \in 1 .. len + 1
      BY <2>1
    <3> QED
      BY <2>5, <2>7, <3>1
  <2>8. ASSUME NEW j \in 1 .. len - mid, below(right, j)
        PROVE  \E i \in 1 .. len + 1 : below(node, i)
    <3>1. mid + 1 + j \in 1 .. len + 1
      BY <2>1
    <3> QED
      BY <2>5, <2>8, <3>1
  <2> QED
    BY <2>3, <2>4, <2>6, <2>7, <2>8
<1> QED
  BY <1>2, <1>3, <1>4

\* A page of a tree is split, and what is below it and beside it stays.
LEMMA SplitCells ==
  ASSUME NEW m, NEW T, NEW h, NEW under, NEW tops, Tree(m, T, h, under, tops),
         NEW p \in T, Overfull(m[p]), NEW f \in PageNums \ T,
         NEW n \in [PageNums -> Pages], NEW g \in [PageNums -> Nat], Falling(n, g),
         n[p] = LeftHalf(m[p]), n[f] = RightHalf(m[p]),
         \A s \in T : s # p /\ h[s] <= h[p] => n[s] = m[s]
  PROVE  /\ \A s \in T : s # p /\ h[s] <= h[p] => CellsUnder(n, s) = CellsUnder(m, s)
         /\ \A c : c \in CellsUnder(m, p) <=>
                     c \in CellsUnder(n, p) \/ c \in CellsUnder(n, f)
<1>0. /\ m \in [PageNums -> Pages] /\ h \in [PageNums -> Nat] /\ Falling(m, h)
      /\ T \subseteq PageNums
  BY TreeFalls
<1> DEFINE S == {s \in T : s # p /\ h[s] <= h[p]}
<1>1. ASSUME NEW s \in T, h[s] <= h[p], NEW i \in Ways(m[s])
      PROVE  Child(m[s], i) \in S
  <2>1. Child(m[s], i) \in T
    BY TreeNode
  <2>2. h[Child(m[s], i)] < h[s]
    BY <1>0 DEF Falling
  <2>3. h[Child(m[s], i)] \in Nat /\ h[s] \in Nat /\ h[p] \in Nat
    BY <1>0, <2>1
  <2> QED
    BY <1>1, <2>1, <2>2, <2>3
<1>2. \A s \in S : Unchanged(n, m, S, s)
  BY <1>1 DEF Unchanged
<1>3. S \in SUBSET PageNums
  BY <1>0
<1>4. h[p] <= h[p]
  BY <1>0
<1>5. \A i \in Ways(m[p]) : Child(m[p], i) \in S
  BY <1>1, <1>4
<1>6. \A s \in S : CellsUnder(n, s) = CellsUnder(m, s)
  <2> HIDE DEF S
  <2> QED
    BY <1>0, <1>2, <1>3, CellsSame
<1>7. \A s \in T : s # p /\ h[s] <= h[p] => CellsUnder(n, s) = CellsUnder(m, s)
  BY <1>6
<1>8. m[p] \in RealNodes
  BY TreeNode
<1>9. /\ CellsUnder(m, p) = CellsOf(m, m[p]) /\ CellsUnder(n, p) = CellsOf(n, LeftHalf(m[p]))
      /\ CellsUnder(n, f) = CellsOf(n, RightHalf(m[p]))
  BY <1>0, CellsUnderFacts
<1>10. \A i \in Ways(m[p]) : CellsUnder(n, Child(m[p], i)) = CellsUnder(m, Child(m[p], i))
  BY <1>5, <1>6
<1>11. \A c : c \in CellsOf(m, m[p]) <=>
                c \in CellsOf(n, LeftHalf(m[p])) \/ c \in CellsOf(n, RightHalf(m[p]))
  BY <1>8, <1>10, HalvesCells
<1> QED
  BY <1>7, <1>9, <1>11

\* A parent that takes up the halves of a child leads to the same cells.
LEMMA AdoptedCells ==
  ASSUME NEW m, NEW T, NEW h, NEW under, NEW tops, Tree(m, T, h, under, tops),
         NEW p \in T, Overfull(m[p]), NEW f \in PageNums \ T,
         NEW q \in T, NEW i \in Ways(m[q]), p = Child(m[q], i), NEW k \in Keys,
         NEW n \in [PageNums -> Pages], NEW g \in [PageNums -> Nat], Falling(n, g),
         n[p] = LeftHalf(m[p]), n[f] = RightHalf(m[p]),
         n[q] = WithSplitChild(m[q], i, k, p, f),
         \A s \in T \ {p, q} : n[s] = m[s]
  PROVE  \A s \in T \ {p} : CellsUnder(n, s) = CellsUnder(m, s)
<1>0. /\ m \in [PageNums -> Pages] /\ h \in [PageNums -> Nat] /\ Falling(m, h)
      /\ T \subseteq PageNums /\ m[q] \in RealNodes /\ m[q].type = "internal"
      /\ OneWayIn(m, T) /\ p \in PageNums /\ q \in PageNums
  <2>1. /\ m \in [PageNums -> Pages] /\ h \in [PageNums -> Nat] /\ Falling(m, h)
        /\ T \subseteq PageNums
    BY TreeFalls
  <2>2. m[q] \in RealNodes
    BY TreeNode
  <2>3. m[q].type = "internal"
    BY DEF Ways
  <2> QED
    BY <2>1, <2>2, <2>3 DEF Tree
<1>1. h[q] = h[p] + 1 /\ q # p /\ h[p] \in Nat
  <2>1. h[q] = h[p] + 1
    BY <1>0 DEF Tree, Ranked
  <2> QED
    BY <1>0, <2>1
<1>a. \A s \in T : \A j \in Ways(m[s]) : /\ Child(m[s], j) \in T
                                         /\ h[s] = h[Child(m[s], j)] + 1
                                         /\ Child(m[s], j) = p => s = q /\ j = i
  <2>1. \A s \in T : \A j \in Ways(m[s]) : Child(m[s], j) \in T
    BY TreeNode
  <2>2. \A s \in T : \A j \in Ways(m[s]) : h[s] = h[Child(m[s], j)] + 1
    BY <1>0 DEF Tree, Ranked
  <2>3. \A s \in T : \A j \in Ways(m[s]) : Child(m[s], j) = p => s = q /\ j = i
    BY <1>0 DEF OneWayIn
  <2> QED
    BY <2>1, <2>2, <2>3
<1>2. \A s \in T : s # p /\ h[s] <= h[p] => s # q
  BY <1>0, <1>1
<1>3. /\ \A s \in T : s # p /\ h[s] <= h[p] => CellsUnder(n, s) = CellsUnder(m, s)
      /\ \A c : c \in CellsUnder(m, p) <=>
                  c \in CellsUnder(n, p) \/ c \in CellsUnder(n, f)
  <2>1. \A s \in T : s # p /\ h[s] <= h[p] => n[s] = m[s]
    BY <1>2
  <2>2. \A s \in T : s # p /\ h[s] <= h[p] => CellsUnder(n, s) = CellsUnder(m, s)
    BY <2>1, SplitCells
  <2>3. \A c : c \in CellsUnder(m, p) <=>
                 c \in CellsUnder(n, p) \/ c \in CellsUnder(n, f)
    BY <2>1, SplitCells
  <2> QED
    BY <2>2, <2>3
<1> DEFINE len == Len(m[q].cells)
<1>4. /\ len \in Nat /\ i \in 1 .. len + 1 /\ Ways(m[q]) = 1 .. len + 1
      /\ n[q] \in RealNodes /\ n[q].type = "internal" /\ Ways(n[q]) = 1 .. len + 2
      /\ \A j \in 1 .. len + 2 :
           Child(n[q], j) = IF j < i THEN Child(m[q], j)
                            ELSE IF j = i THEN p
                            ELSE IF j = i + 1 THEN f ELSE Child(m[q], j - 1)
  <2>1. len \in Nat /\ i \in 1 .. len + 1 /\ Ways(m[q]) = 1 .. len + 1
    BY <1>0, CellFacts, WaysFacts
  <2>2. /\ n[q] \in RealNodes /\ n[q].type = "internal" /\ Len(n[q].cells) = len + 1
        /\ \A j \in 1 .. len + 2 :
             Child(n[q], j) = IF j < i THEN Child(m[q], j)
                              ELSE IF j = i THEN p
                              ELSE IF j = i + 1 THEN f ELSE Child(m[q], j - 1)
    BY <1>0, <2>1, SplitShape
  <2>3. Ways(n[q]) = 1 .. len + 2
    <3>1. len + 1 + 1 = len + 2
      BY <2>1
    <3> QED
      BY <2>2, <3>1 DEF Ways
  <2> QED
    BY <2>1, <2>2, <2>3
<1>5. ASSUME NEW j \in 1 .. len + 1, j # i
      PROVE  CellsUnder(n, Child(m[q], j)) = CellsUnder(m, Child(m[q], j))
  <2>1. Child(m[q], j) \in T /\ Child(m[q], j) # p
    BY <1>4, <1>5, <1>a
  <2>2. h[q] = h[Child(m[q], j)] + 1 /\ h[Child(m[q], j)] \in Nat
    BY <1>0, <1>4, <1>a, <2>1
  <2>3. h[Child(m[q], j)] <= h[p]
    BY <1>0, <1>1, <2>2
  <2> QED
    BY <1>3, <2>1, <2>3
<1> HIDE DEF len
<1>b. \A c : /\ c \in CellsUnder(m, q) <=>
                  \E j \in 1 .. len + 1 : c \in CellsUnder(m, Child(m[q], j))
             /\ c \in CellsUnder(n, q) <=>
                  \E j \in 1 .. len + 2 : c \in CellsUnder(n, Child(n[q], j))
  <2>1. \A c : c \in CellsUnder(m, q) <=>
                 \E j \in Ways(m[q]) : c \in CellsUnder(m, Child(m[q], j))
    BY <1>0, CellUnder
  <2>2. \A c : c \in CellsUnder(n, q) <=>
                 \E j \in Ways(n[q]) : c \in CellsUnder(n, Child(n[q], j))
    <3>1. n[q].type = "internal" /\ q \in PageNums
      BY <1>0, <1>4
    <3> QED
      BY <3>1, CellUnder
  <2> QED
    BY <1>4, <2>1, <2>2
<1>6. CellsUnder(n, q) = CellsUnder(m, q)
  <2>1. ASSUME NEW c, c \in CellsUnder(m, q) PROVE c \in CellsUnder(n, q)
    <3>1. PICK j \in 1 .. len + 1 : c \in CellsUnder(m, Child(m[q], j))
      BY <1>b, <2>1
    <3>2. CASE j = i
      <4>1. c \in CellsUnder(n, p) \/ c \in CellsUnder(n, f)
        BY <1>3, <3>1, <3>2
      <4>2. i \in 1 .. len + 2 /\ i + 1 \in 1 .. len + 2
            /\ Child(n[q], i) = p /\ Child(n[q], i + 1) = f
        BY <1>4
      <4> QED
        BY <1>b, <4>1, <4>2
    <3>3. CASE j < i
      <4>1. j \in 1 .. len + 2 /\ Child(n[q], j) = Child(m[q], j)
        BY <1>4, <3>3
      <4> QED
        BY <1>b, <1>5, <3>1, <3>3, <4>1
    <3>4. CASE i < j
      <4>1. j + 1 \in 1 .. len + 2 /\ Child(n[q], j + 1) = Child(m[q], j)
        BY <1>4, <3>4
      <4> QED
        BY <1>b, <1>5, <3>1, <3>4, <4>1
    <3> QED
      BY <1>4, <3>2, <3>3, <3>4
  <2>2. ASSUME NEW c, c \in CellsUnder(n, q) PROVE c \in CellsUnder(m, q)
    <3>1. PICK j \in 1 .. len + 2 : c \in CellsUnder(n, Child(n[q], j))
      BY <1>b, <2>2
    <3>2. CASE j = i \/ j = i + 1
      <4>1. c \in CellsUnder(n, p) \/ c \in CellsUnder(n, f)
        BY <1>4, <3>1, <3>2
      <4>2. c \in CellsUnder(m, Child(m[q], i))
        BY <1>3, <4>1
      <4> QED
        BY <1>b, <1>4, <4>2
    <3>3. CASE j < i
      <4>1. j \in 1 .. len + 1 /\ Child(n[q], j) = Child(m[q], j)
        BY <1>4, <3>3
      <4> QED
        BY <1>b, <1>5, <3>1, <3>3, <4>1
    <3>4. CASE i + 1 < j
      <4>1. /\ j - 1 \in 1 .. len + 1 /\ j - 1 # i
            /\ Child(n[q], j) = Child(m[q], j - 1)
        BY <1>4, <3>4
      <4> QED
        BY <1>b, <1>5, <3>1, <4>1
    <3> QED
      BY <1>4, <3>2, <3>3, <3>4
  <2> QED
    BY <2>1, <2>2
<1>7. ASSUME NEW s \in T \ {p}
      PROVE  Unchanged(n, m, T \ {p}, s)
  <2>1. CASE s = q
    BY <1>6, <2>1 DEF Unchanged
  <2>2. CASE s # q
    <3>1. \A j \in Ways(m[s]) : Child(m[s], j) \in T /\ Child(m[s], j) # p
      BY <1>a, <2>2
    <3> QED
      BY <2>2, <3>1 DEF Unchanged
  <2> QED
    BY <2>1, <2>2
<1>8. PICK S \in SUBSET PageNums : S = T \ {p}
  BY <1>0
<1>9. \A s \in S : Unchanged(n, m, S, s)
  BY <1>7, <1>8
<1>10. \A s \in S : CellsUnder(n, s) = CellsUnder(m, s)
  BY <1>0, <1>8, <1>9, CellsSame
<1> QED
  BY <1>8, <1>10

\* While only its left half is written, a page has lost cells, and pages over it

\* have lost no others.
LEMMA HalfLost ==
  ASSUME NEW m \in [PageNums -> Pages], NEW g \in [PageNums -> Nat], Falling(m, g),
         NEW p \in PageNums, m[p] \in RealNodes, Overfull(m[p]),
         NEW n \in [PageNums -> Pages], n = [m EXCEPT ![p] = LeftHalf(m[p])],
         NEW h \in [PageNums -> Nat], Falling(n, h)
  PROVE  \A q \in PageNums : CellsUnder(n, q) \subseteq CellsUnder(m, q)
<1> DEFINE left == LeftHalf(m[p])
<1>1. left.type = m[p].type /\ left \in RealNodes
  BY HalfFacts
<1>2. HalvesOf(m[p], Len(m[p].cells), Mid(m[p]), left, RightHalf(m[p]))
  BY HalfShape
<1>3. \A i \in Ways(left) : i \in Ways(m[p]) /\ Child(left, i) = Child(m[p], i)
  BY HalvesWays
<1>4. left.type # "internal" => Range(left.cells) \subseteq Range(m[p].cells)
  <2> SUFFICES ASSUME left.type # "internal", NEW c \in Range(left.cells)
               PROVE  c \in Range(m[p].cells)
    OBVIOUS
  <2>1. left.cells \in Seq(LeafCells) /\ m[p].cells \in Seq(LeafCells)
    BY <1>1, CellFacts
  <2>2. PICK i \in 1 .. Len(left.cells) : c = left.cells[i]
    BY <2>1, CellIn
  <2>3. i \in 1 .. Len(m[p].cells) /\ left.cells[i] = m[p].cells[i]
    BY <1>2, <2>2 DEF HalvesOf
  <2> QED
    BY <2>1, <2>2, <2>3, CellIn
<1>5. ASSUME NEW q \in PageNums
      PROVE  Within(n, m, LeafCells, PageNums, q)
  <2>1. \A i \in Ways(m[q]) : Child(m[q], i) \in PageNums
    BY FallingPages DEF Ways
  <2>2. CASE q = p
    <3>1. n[q] = left
      BY <2>2
    <3> QED
      BY <1>1, <1>3, <1>4, <2>1, <2>2, <3>1 DEF Within
  <2>3. CASE q # p
    <3>1. n[q] = m[q]
      BY <2>3
    <3> QED
      BY <2>1, <3>1 DEF Within
  <2> QED
    BY <2>2, <2>3
<1>6. \A q \in PageNums : CellsUnder(n, q) \cap LeafCells \subseteq CellsUnder(m, q)
  BY <1>5, CellsCompared
<1>7. \A q \in PageNums : CellsUnder(n, q) \subseteq LeafCells
  BY CellsUnderFacts
<1> QED
  BY <1>6, <1>7

\* Cells of a leaf whose keys ascend: at one position only is a key.
LEMMA OnePosition ==
  ASSUME NEW s \in Seq(LeafCells), Ascending(s), NEW i \in 1 .. Len(s)
  PROVE  \A j \in 1 .. Len(s) : s[j].key = s[i].key => j = i
<1>1. Len(s) \in Nat /\ \A j \in 1 .. Len(s) : s[j].key \in Int
  <2>1. \A j \in 1 .. Len(s) : s[j] \in LeafCells
    OBVIOUS
  <2>2. \A j \in 1 .. Len(s) : s[j].key \in Keys
    BY <2>1 DEF LeafCells
  <2>3. Len(s) \in Nat
    OBVIOUS
  <2> QED
    BY <2>2, <2>3, BTreeAssumption
<1>2. ASSUME NEW j \in 1 .. Len(s), s[j].key = s[i].key PROVE j = i
  <2>1. ~(i < j) /\ ~(j < i)
    BY <1>1, <1>2 DEF Ascending
  <2> QED
    BY <2>1
<1> QED
  BY <1>2

\* A cell takes the place of the one with its key.
LEMMA PutCells ==
  ASSUME NEW s \in Seq(LeafCells), Ascending(s), NEW cell \in LeafCells,
         NEW i \in Positions(s, cell.key), NEW t, t = [s EXCEPT ![i] = cell]
  PROVE  \A c : c \in Range(t) <=> c = cell \/ (c.key # cell.key /\ c \in Range(s))
<1>1. i \in 1 .. Len(s) /\ s[i].key = cell.key
  BY DEF Positions
<1>2. /\ t \in Seq(LeafCells) /\ Len(t) = Len(s)
      /\ \A j \in 1 .. Len(s) : t[j] = IF j = i THEN cell ELSE s[j]
  BY <1>1, ExceptSeq
<1>3. \A j \in 1 .. Len(s) : s[j].key = cell.key => j = i
  BY <1>1, OnePosition
<1>4. /\ \A c : c \in Range(s) <=> \E j \in 1 .. Len(s) : c = s[j]
      /\ \A c : c \in Range(t) <=> \E j \in 1 .. Len(s) : c = t[j]
  <2>1. \A c : c \in Range(s) <=> \E j \in 1 .. Len(s) : c = s[j]
    BY CellIn
  <2>2. \A c : c \in Range(t) <=> \E j \in 1 .. Len(t) : c = t[j]
    BY <1>2, CellIn
  <2> QED
    BY <1>2, <2>1, <2>2
<1>5. ASSUME NEW c, c \in Range(t)
      PROVE  c = cell \/ (c.key # cell.key /\ c \in Range(s))
  <2>1. PICK j \in 1 .. Len(s) : c = t[j]
    BY <1>4, <1>5
  <2> QED
    BY <1>2, <1>3, <1>4, <2>1
<1>6. cell \in Range(t)
  BY <1>1, <1>2, <1>4
<1>7. ASSUME NEW c, c.key # cell.key, c \in Range(s)
      PROVE  c \in Range(t)
  <2>1. PICK j \in 1 .. Len(s) : c = s[j]
    BY <1>4, <1>7
  <2> QED
    BY <1>1, <1>2, <1>4, <1>7, <2>1
<1> QED
  BY <1>5, <1>6, <1>7

\* A cell is put between the others.
LEMMA AddedCells ==
  ASSUME NEW s \in Seq(LeafCells), NEW cell \in LeafCells,
         Positions(s, cell.key) = {}, NEW i \in Slots(s, cell.key),
         NEW t, t = InsertAt(s, i, cell)
  PROVE  \A c : c \in Range(t) <=> c = cell \/ (c.key # cell.key /\ c \in Range(s))
<1>1. i \in 1 .. Len(s) + 1 /\ Len(s) \in Nat
  BY DEF Slots
<1>2. /\ t \in Seq(LeafCells) /\ Len(t) = Len(s) + 1 /\ t[i] = cell
      /\ \A j \in 1 .. i - 1 : t[j] = s[j]
      /\ \A j \in i .. Len(s) : t[j + 1] = s[j]
  <2>1. t \in Seq(LeafCells) /\ Len(t) = Len(s) + 1
    BY <1>1, InsertAtFacts
  <2>2. t[i] = cell /\ \A j \in 1 .. i - 1 : t[j] = s[j]
    BY <1>1, InsertAtFacts
  <2>3. \A j \in i .. Len(s) : t[j + 1] = s[j]
    BY <1>1, InsertAtFacts
  <2> QED
    BY <2>1, <2>2, <2>3
<1>3. \A j \in 1 .. Len(s) : s[j].key # cell.key
  BY DEF Positions
<1>4. /\ \A c : c \in Range(s) <=> \E j \in 1 .. Len(s) : c = s[j]
      /\ \A c : c \in Range(t) <=> \E j \in 1 .. Len(s) + 1 : c = t[j]
  BY <1>2, CellIn
<1>5. ASSUME NEW c, c \in Range(t)
      PROVE  c = cell \/ (c.key # cell.key /\ c \in Range(s))
  <2>1. PICK j \in 1 .. Len(s) + 1 : c = t[j]
    BY <1>4, <1>5
  <2>2. CASE j = i
    BY <1>2, <2>1, <2>2
  <2>3. CASE j < i
    <3>1. j \in 1 .. Len(s) /\ t[j] = s[j]
      BY <1>1, <1>2, <2>3
    <3> QED
      BY <1>3, <1>4, <2>1, <3>1
  <2>4. CASE i < j
    <3>1. j - 1 \in 1 .. Len(s) /\ j - 1 \in i .. Len(s) /\ j - 1 + 1 = j
      BY <1>1, <2>4
    <3>2. t[j] = s[j - 1]
      BY <1>2, <3>1
    <3> QED
      BY <1>3, <1>4, <2>1, <3>1, <3>2
  <2> QED
    BY <1>1, <2>2, <2>3, <2>4
<1>6. cell \in Range(t)
  BY <1>1, <1>2, <1>4
<1>7. ASSUME NEW c, c \in Range(s)
      PROVE  c \in Range(t)
  <2>1. PICK j \in 1 .. Len(s) : c = s[j]
    BY <1>4, <1>7
  <2>2. CASE j < i
    <3>1. j \in 1 .. i - 1 /\ j \in 1 .. Len(s) + 1
      BY <1>1, <2>2
    <3> QED
      BY <1>2, <1>4, <2>1, <3>1
  <2>3. CASE i <= j
    <3>1. j \in i .. Len(s) /\ j + 1 \in 1 .. Len(s) + 1
      BY <1>1, <2>3
    <3> QED
      BY <1>2, <1>4, <2>1, <3>1
  <2> QED
    BY <1>1, <2>2, <2>3
<1> QED
  BY <1>5, <1>6, <1>7

----------------------------------------------------------------------------
\* Scan

\* The keys of X are less than those of Y.
Precede(X, Y) == \A c \in X, d \in Y : c.key < d.key

\* The rows found, and those under the pages still to visit, are the cells B in
\* the order of their keys.
ScanList(m, rows, pages, B) ==
  /\ rows \in Seq(LeafCells) /\ Ascending(rows)
  /\ \A c : c \in B <=> \/ c \in Range(rows)
                        \/ \E i \in 1 .. Len(pages) : c \in CellsUnder(m, pages[i])
  /\ \A i \in 1 .. Len(pages) : Precede(Range(rows), CellsUnder(m, pages[i]))
  /\ \A i, j \in 1 .. Len(pages) :
       i < j => Precede(CellsUnder(m, pages[i]), CellsUnder(m, pages[j]))

\* Cells are appended to others with smaller keys.
LEMMA RowsJoined ==
  ASSUME NEW s \in Seq(LeafCells), Ascending(s), NEW t \in Seq(LeafCells), Ascending(t),
         Precede(Range(s), Range(t))
  PROVE  /\ s \o t \in Seq(LeafCells) /\ Ascending(s \o t)
         /\ \A c : c \in Range(s \o t) <=> c \in Range(s) \/ c \in Range(t)
<1> DEFINE r == s \o t
<1>1. /\ r \in Seq(LeafCells) /\ Len(r) = Len(s) + Len(t)
      /\ \A i \in 1 .. Len(s) + Len(t) : r[i] = IF i <= Len(s) THEN s[i] ELSE t[i - Len(s)]
  BY ConcatProperties
<1>2. Len(s) \in Nat /\ Len(t) \in Nat
  OBVIOUS
<1>3. /\ \A c : c \in Range(s) <=> \E i \in 1 .. Len(s) : c = s[i]
      /\ \A c : c \in Range(t) <=> \E i \in 1 .. Len(t) : c = t[i]
      /\ \A c : c \in Range(r) <=> \E i \in 1 .. Len(r) : c = r[i]
  BY <1>1, CellIn
<1> HIDE DEF r
<1>4. ASSUME NEW i \in 1 .. Len(r), NEW j \in 1 .. Len(r), i < j
      PROVE  r[i].key < r[j].key
  <2>1. CASE j <= Len(s)
    <3>1. i \in 1 .. Len(s) /\ j \in 1 .. Len(s) /\ r[i] = s[i] /\ r[j] = s[j]
      BY <1>1, <1>2, <1>4, <2>1
    <3> QED
      BY <1>4, <3>1 DEF Ascending
  <2>2. CASE i <= Len(s) /\ ~(j <= Len(s))
    <3>1. /\ i \in 1 .. Len(s) /\ j - Len(s) \in 1 .. Len(t)
          /\ r[i] = s[i] /\ r[j] = t[j - Len(s)]
      BY <1>1, <1>2, <1>4, <2>2
    <3>2. r[i] \in Range(s) /\ r[j] \in Range(t)
      BY <1>3, <3>1
    <3> QED
      BY <3>2 DEF Precede
  <2>3. CASE ~(i <= Len(s))
    <3>1. /\ i - Len(s) \in 1 .. Len(t) /\ j - Len(s) \in 1 .. Len(t)
          /\ i - Len(s) < j - Len(s) /\ r[i] = t[i - Len(s)] /\ r[j] = t[j - Len(s)]
      BY <1>1, <1>2, <1>4, <2>3
    <3> QED
      BY <3>1 DEF Ascending
  <2> QED
    BY <2>1, <2>2, <2>3
<1>5. Ascending(r)
  BY <1>4 DEF Ascending
<1>6. Range(r) = Range(s) \cup Range(t)
  BY ConcatRange DEF r
<1> QED
  BY <1>1, <1>5, <1>6 DEF r

\* A scan starts with everything still to visit.
LEMMA ScanStarts ==
  ASSUME NEW m, NEW top
  PROVE  ScanList(m, <<>>, <<top>>, CellsUnder(m, top))
<1>1. <<>> \in Seq(LeafCells) /\ Ascending(<<>>) /\ Range(<<>>) = {}
  BY EmptySeq DEF Ascending, Range
<1>2. Len(<<top>>) = 1 /\ <<top>>[1] = top
  OBVIOUS
<1>3. 1 .. 1 = {1}
  OBVIOUS
<1> HIDE DEF CellsUnder
<1> QED
  BY <1>1, <1>2, <1>3 DEF ScanList, Precede

\* It ends with all of them, in order.
LEMMA ScanEnds ==
  ASSUME NEW m, NEW rows, NEW B, ScanList(m, rows, <<>>, B)
  PROVE  rows \in Seq(LeafCells) /\ Ascending(rows) /\ Range(rows) = B
<1>1. Len(<<>>) = 0 /\ 1 .. 0 = {}
  OBVIOUS
<1>2. \A c : c \in B <=> c \in Range(rows)
  BY <1>1 DEF ScanList
<1>3. B \subseteq Range(rows) /\ Range(rows) \subseteq B
  BY <1>2
<1> QED
  BY <1>3 DEF ScanList

\* The first page is a leaf.
LEMMA ScanReads ==
  ASSUME NEW m \in [PageNums -> Pages], NEW h \in [PageNums -> Nat], Falling(m, h),
         NEW rows, NEW pages \in Seq(PageNums), pages # <<>>, NEW B,
         ScanList(m, rows, pages, B),
         NEW cells \in Seq(LeafCells), cells = m[Head(pages)].cells,
         m[Head(pages)].type = "leaf", Ascending(cells)
  PROVE  ScanList(m, rows \o cells, Tail(pages), B)
<1> DEFINE rest == Tail(pages)
           all == rows \o cells
           l == Len(pages)
<1>1. /\ l \in Nat \ {0} /\ rest \in Seq(PageNums) /\ Len(rest) = l - 1
      /\ \A i \in 1 .. l - 1 : rest[i] = pages[i + 1]
      /\ Head(pages) = pages[1] /\ Head(pages) \in PageNums
  BY HeadTailProperties, EmptySeq
<1>2. CellsUnder(m, pages[1]) = Range(cells)
  BY <1>1, CellUnder
<1>3. /\ rows \in Seq(LeafCells) /\ Ascending(rows)
      /\ \A c : c \in B <=> \/ c \in Range(rows)
                            \/ \E i \in 1 .. l : c \in CellsUnder(m, pages[i])
      /\ \A i \in 1 .. l : Precede(Range(rows), CellsUnder(m, pages[i]))
      /\ \A i, j \in 1 .. l :
           i < j => Precede(CellsUnder(m, pages[i]), CellsUnder(m, pages[j]))
  BY DEF ScanList
<1> HIDE DEF rest, all, l
<1>4. 1 \in 1 .. l
  BY <1>1
<1>5. /\ all \in Seq(LeafCells) /\ Ascending(all)
      /\ \A c : c \in Range(all) <=> c \in Range(rows) \/ c \in Range(cells)
  <2>1. Precede(Range(rows), Range(cells))
    BY <1>2, <1>3, <1>4
  <2> QED
    BY <1>3, <2>1, RowsJoined DEF all
<1>6. ASSUME NEW i \in 1 .. l - 1
      PROVE  i + 1 \in 1 .. l /\ 1 < i + 1 /\ rest[i] = pages[i + 1]
  BY <1>1
<1>7. ASSUME NEW i \in 1 .. l - 1
      PROVE  Precede(Range(all), CellsUnder(m, rest[i]))
  <2>1. /\ Precede(Range(rows), CellsUnder(m, rest[i]))
        /\ Precede(Range(cells), CellsUnder(m, rest[i]))
    BY <1>2, <1>3, <1>4, <1>6
  <2> QED
    BY <1>5, <2>1 DEF Precede
<1>8. ASSUME NEW i \in 1 .. l - 1, NEW j \in 1 .. l - 1, i < j
      PROVE  Precede(CellsUnder(m, rest[i]), CellsUnder(m, rest[j]))
  <2>1. i + 1 < j + 1
    BY <1>8
  <2> QED
    BY <1>3, <1>6, <2>1
<1>9. ASSUME NEW c
      PROVE  c \in B <=> \/ c \in Range(all)
                         \/ \E i \in 1 .. l - 1 : c \in CellsUnder(m, rest[i])
  <2>1. ASSUME NEW i \in 1 .. l, c \in CellsUnder(m, pages[i])
        PROVE  c \in Range(cells) \/ \E j \in 1 .. l - 1 : c \in CellsUnder(m, rest[j])
    <3>1. CASE i = 1
      BY <1>2, <2>1, <3>1
    <3>2. CASE i # 1
      <4>1. i - 1 \in 1 .. l - 1 /\ i - 1 + 1 = i
        BY <1>1, <3>2
      <4>2. rest[i - 1] = pages[i]
        BY <1>1, <4>1
      <4> QED
        BY <2>1, <4>1, <4>2
    <3> QED
      BY <3>1, <3>2
  <2>2. ASSUME NEW i \in 1 .. l - 1, c \in CellsUnder(m, rest[i])
        PROVE  \E j \in 1 .. l : c \in CellsUnder(m, pages[j])
    BY <1>6, <2>2
  <2> QED
    BY <1>2, <1>3, <1>4, <1>5, <2>1, <2>2
<1>10. ScanList(m, all, rest, B)
  BY <1>1, <1>5, <1>7, <1>8, <1>9 DEF ScanList
<1> QED
  BY <1>10 DEF all, rest

\* The first page has an internal node: its pointers take its place.
LEMMA ScanOpens ==
  ASSUME NEW m, NEW T, NEW h, NEW under, NEW tops, Tree(m, T, h, under, tops),
         NEW rows, NEW pages \in Seq(PageNums), pages # <<>>, NEW B,
         ScanList(m, rows, pages, B),
         Head(pages) \in T, NEW node, node = m[Head(pages)], node.type = "internal"
  PROVE  ScanList(m, rows,
                  [i \in 1 .. Len(node.cells) + 1 |-> Child(node, i)] \o Tail(pages), B)
<1> DEFINE n == Len(node.cells)
           l == Len(pages)
           front == [i \in 1 .. n + 1 |-> Child(node, i)]
           next == front \o Tail(pages)
<1>0. /\ m \in [PageNums -> Pages] /\ h \in [PageNums -> Nat] /\ Falling(m, h)
  BY TreeFalls
<1>1. /\ l \in Nat \ {0} /\ Tail(pages) \in Seq(PageNums) /\ Len(Tail(pages)) = l - 1
      /\ \A i \in 1 .. l - 1 : Tail(pages)[i] = pages[i + 1]
      /\ Head(pages) = pages[1] /\ Head(pages) \in PageNums
  BY HeadTailProperties, EmptySeq
<1>2. node \in RealNodes /\ Ascending(node.cells)
  BY TreeNode DEF Sorted
<1>3. /\ n \in Nat /\ Ways(node) = 1 .. n + 1
      /\ \A i \in 1 .. n + 1 : Child(node, i) \in PageNums
      /\ \A i \in 1 .. n : node.cells[i].key \in Int
  <2>1. Ways(node) = 1 .. n + 1
    BY DEF Ways
  <2>2. n \in Nat /\ \A i \in 1 .. n : node.cells[i].key \in Int
    BY <1>2, CellFacts, BTreeAssumption
  <2>3. \A i \in 1 .. n + 1 : Child(node, i) \in PageNums
    BY <1>0, <1>1, FallingPages
  <2> QED
    BY <2>1, <2>2, <2>3
<1>4. front \in Seq(PageNums) /\ Len(front) = n + 1
  BY <1>3
<1>5. /\ Len(next) = n + l
      /\ \A i \in 1 .. n + 1 : next[i] = Child(node, i)
      /\ \A i \in n + 2 .. n + l : next[i] = pages[i - n]
  <2>1. /\ Len(next) = Len(front) + Len(Tail(pages))
        /\ \A i \in 1 .. Len(front) + Len(Tail(pages)) :
             next[i] = IF i <= Len(front) THEN front[i] ELSE Tail(pages)[i - Len(front)]
    BY <1>1, <1>4, ConcatProperties
  <2>2. Len(front) + Len(Tail(pages)) = n + l
    BY <1>1, <1>3, <1>4
  <2>3. ASSUME NEW i \in 1 .. n + 1 PROVE next[i] = Child(node, i)
    <3>1. i \in 1 .. n + l /\ i <= n + 1
      BY <1>1, <1>3
    <3>2. next[i] = front[i]
      BY <1>4, <2>1, <2>2, <3>1
    <3> QED
      BY <3>2
  <2>4. ASSUME NEW i \in n + 2 .. n + l PROVE next[i] = pages[i - n]
    <3>1. /\ i \in 1 .. n + l /\ ~(i <= n + 1) /\ i - (n + 1) \in 1 .. l - 1
          /\ i - (n + 1) + 1 = i - n
      BY <1>1, <1>3
    <3>2. next[i] = Tail(pages)[i - (n + 1)]
      BY <1>4, <2>1, <2>2, <3>1
    <3> QED
      BY <1>1, <3>1, <3>2
  <2> QED
    BY <2>1, <2>2, <2>3, <2>4
<1>6. /\ rows \in Seq(LeafCells) /\ Ascending(rows)
      /\ \A c : c \in B <=> \/ c \in Range(rows)
                            \/ \E i \in 1 .. l : c \in CellsUnder(m, pages[i])
      /\ \A i \in 1 .. l : Precede(Range(rows), CellsUnder(m, pages[i]))
      /\ \A i, j \in 1 .. l :
           i < j => Precede(CellsUnder(m, pages[i]), CellsUnder(m, pages[j]))
  BY DEF ScanList
<1> HIDE DEF n, l, front, next
<1>7. 1 \in 1 .. l
  BY <1>1
<1>8. \A c : c \in CellsUnder(m, pages[1])
               <=> \E i \in 1 .. n + 1 : c \in CellsUnder(m, Child(node, i))
  BY <1>0, <1>1, <1>3, CellUnder
<1>9. ASSUME NEW i \in 1 .. n + l
      PROVE  \/ /\ i \in 1 .. n + 1 /\ next[i] = Child(node, i)
                /\ \A c \in CellsUnder(m, next[i]) : c \in CellsUnder(m, pages[1])
             \/ /\ i - n \in 2 .. l /\ i - n \in 1 .. l /\ 1 < i - n /\ ~(i <= n + 1)
                /\ next[i] = pages[i - n]
  <2>1. CASE i <= n + 1
    <3>1. i \in 1 .. n + 1
      BY <1>3, <2>1
    <3> QED
      BY <1>5, <1>8, <3>1
  <2>2. CASE ~(i <= n + 1)
    <3>1. i \in n + 2 .. n + l /\ i - n \in 2 .. l /\ i - n \in 1 .. l /\ 1 < i - n
      BY <1>1, <1>3, <2>2
    <3> QED
      BY <1>5, <2>2, <3>1
  <2> QED
    BY <2>1, <2>2
<1>10. ASSUME NEW i \in 1 .. n + 1, NEW j \in 1 .. n + 1, i < j
       PROVE  Precede(CellsUnder(m, Child(node, i)), CellsUnder(m, Child(node, j)))
  <2> SUFFICES ASSUME NEW c \in CellsUnder(m, Child(node, i)),
                      NEW d \in CellsUnder(m, Child(node, j))
               PROVE  c.key < d.key
    BY DEF Precede
  <2>1. Between(node, i, c.key) /\ c \in LeafCells
    BY <1>3, CellsBetween
  <2>2. Between(node, j, d.key) /\ d \in LeafCells
    BY <1>3, CellsBetween
  <2>3. c.key \in Int /\ d.key \in Int
    BY <2>1, <2>2, BTreeAssumption DEF LeafCells
  <2>4. /\ i \in 1 .. n /\ j - 1 \in 1 .. n /\ i <= n /\ j > 1
        /\ (i = j - 1 \/ i < j - 1)
    BY <1>3, <1>10
  <2>5. c.key < node.cells[i].key /\ node.cells[j - 1].key <= d.key
    BY <2>1, <2>2, <2>4 DEF Between, n
  <2>6. i < j - 1 => node.cells[i].key < node.cells[j - 1].key
    BY <1>2, <2>4 DEF Ascending, n
  <2>7. node.cells[i].key \in Int /\ node.cells[j - 1].key \in Int
    BY <1>3, <2>4
  <2> QED
    BY <2>3, <2>4, <2>5, <2>6, <2>7
<1>11. ASSUME NEW i \in 1 .. n + l
       PROVE  Precede(Range(rows), CellsUnder(m, next[i]))
  BY <1>6, <1>7, <1>9 DEF Precede
<1>12. ASSUME NEW i \in 1 .. n + l, NEW j \in 1 .. n + l, i < j
       PROVE  Precede(CellsUnder(m, next[i]), CellsUnder(m, next[j]))
  <2>1. CASE j \in 1 .. n + 1
    <3>1. i \in 1 .. n + 1
      BY <1>3, <1>12, <2>1
    <3> QED
      BY <1>5, <1>10, <1>12, <2>1, <3>1
  <2>2. CASE i \in 1 .. n + 1 /\ j \notin 1 .. n + 1
    <3>1. /\ j - n \in 1 .. l /\ 1 < j - n /\ next[j] = pages[j - n]
          /\ \A c \in CellsUnder(m, next[i]) : c \in CellsUnder(m, pages[1])
      BY <1>3, <1>9, <2>2
    <3>2. Precede(CellsUnder(m, pages[1]), CellsUnder(m, next[j]))
      BY <1>6, <1>7, <3>1
    <3> QED
      BY <3>1, <3>2 DEF Precede
  <2>3. CASE i \notin 1 .. n + 1 /\ j \notin 1 .. n + 1
    <3>1. /\ i - n \in 1 .. l /\ j - n \in 1 .. l /\ next[i] = pages[i - n]
          /\ next[j] = pages[j - n]
      BY <1>9, <2>3
    <3>2. i - n < j - n
      BY <1>3, <1>12
    <3> QED
      BY <1>6, <3>1, <3>2
  <2>4. i \notin 1 .. n + 1 => j \notin 1 .. n + 1
    BY <1>3, <1>12
  <2> QED
    BY <2>1, <2>2, <2>3, <2>4
<1>13. ASSUME NEW c
       PROVE  (\E i \in 1 .. l : c \in CellsUnder(m, pages[i]))
                <=> \E i \in 1 .. n + l : c \in CellsUnder(m, next[i])
  <2>1. ASSUME NEW i \in 1 .. l, c \in CellsUnder(m, pages[i])
        PROVE  \E j \in 1 .. n + l : c \in CellsUnder(m, next[j])
    <3>1. CASE i = 1
      <4>1. PICK j \in 1 .. n + 1 : c \in CellsUnder(m, Child(node, j))
        BY <1>8, <2>1, <3>1
      <4>2. j \in 1 .. n + l
        BY <1>1, <1>3
      <4> QED
        BY <1>5, <4>1, <4>2
    <3>2. CASE i # 1
      <4>1. PICK j \in n + 2 .. n + l : j = i + n
        BY <1>1, <1>3, <3>2
      <4>2. j \in 1 .. n + l /\ j - n = i
        BY <1>1, <1>3, <4>1
      <4>3. next[j] = pages[i]
        BY <1>5, <4>2
      <4> QED
        BY <2>1, <4>2, <4>3
    <3> QED
      BY <3>1, <3>2
  <2>2. ASSUME NEW i \in 1 .. n + l, c \in CellsUnder(m, next[i])
        PROVE  \E j \in 1 .. l : c \in CellsUnder(m, pages[j])
    BY <1>7, <1>9, <2>2
  <2> QED
    BY <2>1, <2>2
<1>14. ScanList(m, rows, next, B)
  BY <1>5, <1>6, <1>11, <1>12, <1>13 DEF ScanList
<1> QED
  BY <1>14 DEF next, front, n

=============================================================================
