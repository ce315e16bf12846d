------------------------------- MODULE BTree -------------------------------
(***************************************************************************)
(* storage/btree.go: a B+Tree, one node per page, on the page store that   *)
(* the pager implements.  A call is a sequence of pager calls, and each of *)
(* those is one step here: between two of them the pager can refuse a      *)
(* write or run out of pages.                                              *)
(*                                                                         *)
(* Abstracted: keys are integers, compared as bytes.Compare does, and      *)
(* values are atoms; of the layout of a node only its length in bytes is   *)
(* kept, because a node that outgrows its page is where the code breaks.   *)
(*                                                                         *)
(* An operator whose name ends in Mutant is the definition after it with a *)
(* plausible bug; it is used only to see that the properties can fail.     *)
(***************************************************************************)
EXTENDS Integers, Sequences, FiniteSets, SequencesExt

CONSTANTS
  Keys, Vals,
  PageNums,           \* the pages the pager can hand out
  MaxLeafCells,       \* 30 in the code
  MaxInternalCells,   \* 100 in the code
  PageBytes,          \* PageSize, 4096 in the code
  KeyBytes, ValBytes, \* the encoded length of each key and value
  MaxIOErrors         \* bound: how many pager calls fail

ASSUME BTreeAssumption ==
  /\ Keys \subseteq Int
  /\ PageNums \subseteq Nat \ {0}
  /\ MaxLeafCells \in Nat \ {0}
  /\ MaxInternalCells \in Nat \ {0, 1}
  /\ PageBytes \in Nat
  /\ KeyBytes \in [Keys -> Nat]
  /\ ValBytes \in [Vals -> Nat]
  /\ MaxIOErrors \in Nat

HeaderSize == 9
CellHeader == 6     \* the two lengths, or the child and the key length

NoPage == 0         \* page 0 is the file header: never a node

----------------------------------------------------------------------------
\* Nodes

LeafCells == [key : Keys, value : Vals]
InternalCells == [child : PageNums, key : Keys]

Leaf(cells) == [type |-> "leaf", cells |-> cells, right |-> NoPage]
Internal(cells, right) ==
  [type |-> "internal", cells |-> cells, right |-> right]

\* A page of zero bytes.
Zero == [type |-> "zero", cells |-> <<>>, right |-> NoPage]

Leaves == [type : {"leaf"}, cells : Seq(LeafCells), right : {NoPage}]
Internals == [type : {"internal"}, cells : Seq(InternalCells), right : PageNums]
Pages == Leaves \cup Internals \cup {Zero}

\* The pointers of an internal node: one left of each key, and the last.
Child(node, i) ==
  IF i <= Len(node.cells) THEN node.cells[i].child ELSE node.right

Children(node) == {Child(node, i) : i \in 1 .. Len(node.cells) + 1}

\* A key equal to a separator goes left.
TurnsMutant(node, k) ==
  {i \in 1 .. Len(node.cells) + 1 :
     /\ \A j \in 1 .. i - 1 : node.cells[j].key < k
     /\ i <= Len(node.cells) => k <= node.cells[i].key}

\* Where a search for k turns: left of the first key that is greater.
Turns(node, k) ==
  {i \in 1 .. Len(node.cells) + 1 :
     /\ \A j \in 1 .. i - 1 : node.cells[j].key <= k
     /\ i <= Len(node.cells) => k < node.cells[i].key}

\* Where a cell with key k belongs: before the first key not less than k.
Slots(cells, k) ==
  {i \in 1 .. Len(cells) + 1 :
     /\ \A j \in 1 .. i - 1 : cells[j].key < k
     /\ i <= Len(cells) => k <= cells[i].key}

Positions(cells, k) == {i \in 1 .. Len(cells) : cells[i].key = k}

----------------------------------------------------------------------------
\* The bytes of a node.  copy stops silently at the end of the page, so a
\* node whose last field does not fit is written cut off; a fixed-size field
\* beyond the page is a slice out of range, and the process panics.

LastField(node, i) ==
  IF node.type = "leaf" THEN ValBytes[node.cells[i].value]
                        ELSE KeyBytes[node.cells[i].key]

CellBytes(node, i) ==
  CellHeader + KeyBytes[node.cells[i].key]
    + (IF node.type = "leaf" THEN ValBytes[node.cells[i].value] ELSE 0)

Bytes(node) ==
  HeaderSize +
    FoldLeft(LAMBDA sum, i : sum + CellBytes(node, i), 0,
             [i \in 1 .. Len(node.cells) |-> i])

CutOff(node) == Bytes(node) > PageBytes

Unwritable(node) ==
  LET n == Len(node.cells)
  IN  n > 0 /\ Bytes(node) - LastField(node, n) > PageBytes

\* A read of a cut-off node panics when it reaches the last cell.
PanicsAt(node, i) == CutOff(node) /\ i >= Len(node.cells)

----------------------------------------------------------------------------
\* Splitting: writeLeafCells and writeInternalCells

MaxCells(node) ==
  IF node.type = "leaf" THEN MaxLeafCells ELSE MaxInternalCells

\* One cell too many is let through.
OverfullMutant(node) == Len(node.cells) > MaxCells(node) + 1

Overfull(node) == Len(node.cells) > MaxCells(node)

Mid(node) == Len(node.cells) \div 2

PromotedKey(node) == node.cells[Mid(node) + 1].key

\* The right pointer of the left half is not set.
LeftHalfMutant(node) ==
  LET cells == SubSeq(node.cells, 1, Mid(node))
  IN  IF node.type = "leaf" THEN Leaf(cells) ELSE Internal(cells, NoPage)

LeftHalf(node) ==
  LET cells == SubSeq(node.cells, 1, Mid(node))
  IN  IF node.type = "leaf" THEN Leaf(cells)
      ELSE Internal(cells, node.cells[Mid(node) + 1].child)

\* A leaf keeps the cell of the promoted key, an internal node does not.
RightHalf(node) ==
  IF node.type = "leaf"
    THEN Leaf(SubSeq(node.cells, Mid(node) + 1, Len(node.cells)))
    ELSE Internal(SubSeq(node.cells, Mid(node) + 2, Len(node.cells)), node.right)

\* The pointer right of the new key still leads to the left half.
WithSplitChildMutant(node, i, k, l, r) ==
  Internal(InsertAt(node.cells, i, [child |-> l, key |-> k]), node.right)

\* insertInternal: the child at slot i has split into l and r around k.
WithSplitChild(node, i, k, l, r) ==
  LET n == Len(node.cells)
      cells == InsertAt(node.cells, i, [child |-> l, key |-> k])
  IN  IF i <= n THEN Internal([cells EXCEPT ![i + 1].child = r], node.right)
                ELSE Internal(cells, r)

----------------------------------------------------------------------------
VARIABLES
  view, disk, owned,  \* the page store
  root,      \* bt.rootPage; NoPage before NewBTree
  pc,        \* the pager call that comes next, or "idle"
  req,       \* the arguments of the call in progress
  path,      \* the pages of the recursion; for a scan those still to visit
  work,      \* the node being written, before it is split
  fresh,     \* the page that AllocatePage returned last
  res,       \* the result of the last call; the rows found so far
  ioErrors   \* how many pager calls have failed

Store == INSTANCE PageStore WITH Data <- Pages

call == <<req, path, work, fresh>>
vars == <<view, disk, owned, root, pc, call, res, ioErrors>>

Requests ==
  [op : {"insert"}, key : Keys, val : Vals]
    \cup [op : {"search", "delete"}, key : Keys]
    \cup {[op |-> "scan"]}

NoRequest == [op |-> "none"]
NewRequest == [op |-> "new"]

NoResult == [status |-> "none", rows |-> <<>>]

\* What pc names:
\*   "descend"    ReadPage of the last page of path
\*   "scan"       ReadPage of the first page of path
\*   "write"      WritePage of work, or of its left half
\*   "alloc"      AllocatePage for the right half
\*   "right"      WritePage of the right half
\*   "rootalloc"  AllocatePage for a new root
\*   "root"       WritePage of a root
\*   "panic"      the process has panicked
PCs == {"idle", "descend", "scan", "write", "alloc", "right", "rootalloc",
        "root", "panic"}

TypeOK ==
  /\ Store!TypeOK
  /\ root \in PageNums \cup {NoPage}
  /\ pc \in PCs
  /\ req \in Requests \cup {NoRequest, NewRequest}
  /\ path \in Seq(PageNums)
  /\ work \in Pages
  /\ fresh \in PageNums \cup {NoPage}
  /\ res \in [status : {"none", "ok", "notfound", "error"},
              rows : Seq(LeafCells)]
  /\ ioErrors \in 0 .. MaxIOErrors

Init ==
  /\ Store!Init
  /\ root = NoPage
  /\ pc = "idle"
  /\ req = NoRequest
  /\ path = <<>>
  /\ work = Zero
  /\ fresh = NoPage
  /\ res = NoResult
  /\ ioErrors = 0

----------------------------------------------------------------------------
\* The page AllocatePage hands out: the lowest that was never handed out.  (It
\* skips one after an allocation that was refused; to a tree all pages that
\* are fresh are alike.)
Fresh == {p \in PageNums \ owned : \A q \in PageNums \ owned : p <= q}

IOError == ioErrors < MaxIOErrors /\ ioErrors' = ioErrors + 1

Return(status, rows) ==
  /\ pc' = "idle"
  /\ req' = NoRequest
  /\ path' = <<>>
  /\ work' = Zero
  /\ fresh' = NoPage
  /\ res' = [status |-> status, rows |-> rows]

\* The page that the next WritePage writes, and what it writes on it.
Target == IF pc = "write" THEN Last(path) ELSE fresh

Image ==
  CASE pc = "write" -> IF Overfull(work) THEN LeftHalf(work) ELSE work
    [] pc = "right" -> RightHalf(work)
    [] pc = "root"  -> work

WritesImage == ~Unwritable(Image) /\ Store!Write(Target, Image)

Allocates(p) == Store!Alloc(p) /\ fresh' = p

----------------------------------------------------------------------------
\* NewBTree: a page, with an empty leaf on it.
NewBTree ==
  /\ pc = "idle" /\ root = NoPage
  /\ \E p \in Fresh : Allocates(p)
  /\ pc' = "root"
  /\ req' = NewRequest
  /\ work' = Leaf(<<>>)
  /\ res' = NoResult
  /\ UNCHANGED <<root, path, ioErrors>>

\* Insert, Search, Delete, Scan are called.
Call(r) ==
  /\ pc = "idle" /\ root # NoPage
  /\ pc' = IF r.op = "scan" THEN "scan" ELSE "descend"
  /\ req' = r
  /\ path' = <<root>>
  /\ res' = NoResult
  /\ UNCHANGED <<view, disk, owned, root, work, fresh, ioErrors>>

\* The recursion stays on the page it is on.
DescendInternalMutant ==
  /\ pc = "descend"
  /\ view[Last(path)].type = "internal"
  /\ UNCHANGED vars

\* searchInternal, insertInternal, deleteFromNode.
DescendInternal ==
  /\ pc = "descend"
  /\ LET node == view[Last(path)]
     IN  /\ node.type = "internal"
         /\ \E i \in Turns(node, req.key) :
              /\ ~PanicsAt(node, i)
              /\ path' = Append(path, Child(node, i))
  /\ UNCHANGED <<view, disk, owned, root, pc, req, work, fresh, res, ioErrors>>

\* searchLeaf stops at the cell it looks for.
SearchLeaf ==
  /\ pc = "descend" /\ req.op = "search"
  /\ LET node == view[Last(path)]
         found == Positions(node.cells, req.key)
     IN  /\ node.type = "leaf"
         /\ \/ \E i \in found : ~PanicsAt(node, i)
                                /\ Return("ok", <<node.cells[i]>>)
            \/ found = {} /\ ~CutOff(node) /\ Return("notfound", <<>>)
  /\ UNCHANGED <<view, disk, owned, root, ioErrors>>

\* insertLeaf reads the whole leaf and replaces the value, or makes room.
InsertLeaf ==
  /\ pc = "descend" /\ req.op = "insert"
  /\ LET node == view[Last(path)]
         cell == [key |-> req.key, value |-> req.val]
         found == Positions(node.cells, req.key)
     IN  /\ node.type = "leaf" /\ ~CutOff(node)
         /\ \/ \E i \in found :
                 work' = Leaf([node.cells EXCEPT ![i] = cell])
            \/ /\ found = {}
               /\ \E i \in Slots(node.cells, req.key) :
                    work' = Leaf(InsertAt(node.cells, i, cell))
  /\ pc' = "write"
  /\ UNCHANGED <<view, disk, owned, root, req, path, fresh, res, ioErrors>>

\* deleteFromNode, at the leaf.  The keys of a leaf ascend (Ordered), so that
\* filtering the key out removes one cell.
DeleteLeaf ==
  /\ pc = "descend" /\ req.op = "delete"
  /\ LET node == view[Last(path)]
     IN  /\ node.type = "leaf" /\ ~CutOff(node)
         /\ \/ /\ Positions(node.cells, req.key) = {}
               /\ Return("notfound", <<>>)
            \/ /\ \E i \in Positions(node.cells, req.key) :
                    work' = Leaf(RemoveAt(node.cells, i))
               /\ pc' = "write"
               /\ UNCHANGED <<req, path, fresh, res>>
  /\ UNCHANGED <<view, disk, owned, root, ioErrors>>

\* scanNode, with the recursion unfolded: path holds the pages to visit.  It
\* skips the keys of internal nodes, so it can pass one that is cut off.
ScanLeaf ==
  /\ pc = "scan" /\ path # <<>>
  /\ LET node == view[Head(path)]
     IN  /\ node.type = "leaf" /\ ~CutOff(node)
         /\ res' = [res EXCEPT !.rows = @ \o node.cells]
  /\ path' = Tail(path)
  /\ UNCHANGED <<view, disk, owned, root, pc, req, work, fresh, ioErrors>>

ScanInternal ==
  /\ pc = "scan" /\ path # <<>>
  /\ LET node == view[Head(path)]
         n == Len(node.cells)
     IN  /\ node.type = "internal"
         /\ path' = [i \in 1 .. n + 1 |-> Child(node, i)] \o Tail(path)
  /\ UNCHANGED <<view, disk, owned, root, pc, req, work, fresh, res, ioErrors>>

ScanReturns ==
  /\ pc = "scan" /\ path = <<>>
  /\ Return("ok", res.rows)
  /\ UNCHANGED <<view, disk, owned, root, ioErrors>>

----------------------------------------------------------------------------
\* writeLeafCells and writeInternalCells

WriteWhole ==
  /\ pc = "write" /\ ~Overfull(work)
  /\ WritesImage
  /\ Return("ok", <<>>)
  /\ UNCHANGED <<root, ioErrors>>

WriteLeft ==
  /\ pc = "write" /\ Overfull(work)
  /\ WritesImage
  /\ pc' = "alloc"
  /\ UNCHANGED <<root, req, path, work, fresh, res, ioErrors>>

AllocateRight ==
  /\ pc = "alloc"
  /\ \E p \in Fresh : Allocates(p)
  /\ pc' = "right"
  /\ UNCHANGED <<root, req, path, work, res, ioErrors>>

\* The split is returned to insertInternal, which puts it into the parent: the
\* copy of it that was read on the way down, and no step in between writes it.
WriteRight ==
  /\ pc = "right" /\ Len(path) > 1
  /\ WritesImage
  /\ LET parent == view[path[Len(path) - 1]]
     IN  IF CutOff(parent)
         THEN pc' = "panic" /\ UNCHANGED <<req, path, work, fresh>>
         ELSE /\ pc' = "write"
              /\ path' = Front(path)
              /\ \E i \in Slots(parent.cells, PromotedKey(work)) :
                   work' = WithSplitChild(parent, i, PromotedKey(work),
                                          Last(path), fresh)
              /\ UNCHANGED <<req, fresh>>
  /\ UNCHANGED <<root, res, ioErrors>>

\* The root has split: Insert makes a new one with the two halves.
WriteRightOfRoot ==
  /\ pc = "right" /\ Len(path) = 1
  /\ WritesImage
  /\ pc' = "rootalloc"
  /\ work' = Internal(<<[child |-> Last(path), key |-> PromotedKey(work)]>>, fresh)
  /\ UNCHANGED <<root, req, path, fresh, res, ioErrors>>

AllocateRoot ==
  /\ pc = "rootalloc"
  /\ \E p \in Fresh : Allocates(p)
  /\ pc' = "root"
  /\ UNCHANGED <<root, req, path, work, res, ioErrors>>

WriteRoot ==
  /\ pc = "root"
  /\ WritesImage
  /\ root' = fresh
  /\ Return("ok", <<>>)
  /\ UNCHANGED ioErrors

----------------------------------------------------------------------------
\* What can go wrong.  Every error goes straight back to the caller: what was
\* written before it stays written.

ReadFails ==
  /\ pc \in {"descend", "scan"} /\ path # <<>>
  /\ IOError
  /\ Return("error", <<>>)
  /\ UNCHANGED <<view, disk, owned, root>>

\* Insert takes the new root although it could not be written.
WriteFailsMutant ==
  /\ pc \in {"write", "right", "root"}
  /\ IOError
  /\ ~Unwritable(Image) /\ Store!WriteFails(Target, Image)
  /\ Return("error", <<>>)
  /\ root' = IF pc = "root" THEN fresh ELSE root

WriteFails ==
  /\ pc \in {"write", "right", "root"}
  /\ IOError
  /\ ~Unwritable(Image) /\ Store!WriteFails(Target, Image)
  /\ Return("error", <<>>)
  /\ UNCHANGED root

\* The error of AllocatePage is swallowed.
AllocateFailsMutant ==
  /\ pc \in {"alloc", "rootalloc"}
  /\ \/ Fresh = {} /\ UNCHANGED ioErrors
     \/ IOError
  /\ Return("ok", <<>>)
  /\ UNCHANGED <<view, disk, owned, root>>

\* The limit of the file is reached, or the file cannot be extended.
AllocateFails ==
  /\ pc \in {"alloc", "rootalloc"}
  /\ \/ Fresh = {} /\ UNCHANGED ioErrors
     \/ IOError
  /\ Return("error", <<>>)
  /\ UNCHANGED <<view, disk, owned, root>>

\* The same, for the first page of a tree.
NewBTreeFails ==
  /\ pc = "idle" /\ root = NoPage
  /\ \/ Fresh = {} /\ UNCHANGED ioErrors
     \/ IOError
  /\ UNCHANGED <<view, disk, owned, root, pc, call, res>>

Panics ==
  /\ pc' = "panic"
  /\ UNCHANGED <<view, disk, owned, root, call, res, ioErrors>>

ReadPanics ==
  /\ \/ /\ pc = "descend"
        /\ LET node == view[Last(path)]
           IN  IF node.type = "leaf"
               THEN /\ CutOff(node)
                    /\ req.op = "search" =>
                         \A i \in Positions(node.cells, req.key) : PanicsAt(node, i)
               ELSE \E i \in Turns(node, req.key) : PanicsAt(node, i)
     \/ /\ pc = "scan" /\ path # <<>>
        /\ view[Head(path)].type = "leaf" /\ CutOff(view[Head(path)])
  /\ Panics

WritePanics ==
  /\ pc \in {"write", "right", "root"}
  /\ Unwritable(Image)
  /\ Panics

Proceed ==
  \/ DescendInternal \/ SearchLeaf \/ InsertLeaf \/ DeleteLeaf
  \/ ScanLeaf \/ ScanInternal \/ ScanReturns
  \/ WriteWhole \/ WriteLeft \/ AllocateRight \/ WriteRight
  \/ WriteRightOfRoot \/ AllocateRoot \/ WriteRoot
  \/ ReadFails \/ WriteFails \/ AllocateFails \/ ReadPanics \/ WritePanics

Next ==
  \/ NewBTree \/ NewBTreeFails
  \/ \E r \in Requests : Call(r)
  \/ Proceed

Spec == Init /\ [][Next]_vars

\* A call runs on the goroutine of its caller, which does nothing else.
Fairness == WF_vars(Proceed)

----------------------------------------------------------------------------
\* Properties that hold at every step, for what the process sees (view) and
\* for what it would find after a restart (disk).

Nodes(m) == {m[p] : p \in {q \in PageNums : m[q] # Zero}}

\* Every pointer leads to a page that is owned and holds a node, for the
\* process and on disk: no call ever reads a page of zeros, and no crash can
\* leave a parent on disk that is ahead of its children.
Linked(p) == p \in owned /\ view[p] # Zero /\ disk[p] # Zero

NoDanglingPointers ==
  /\ root # NoPage => Linked(root)
  /\ \A m \in {view, disk} : \A node \in Nodes(m) :
       node.type = "internal" => \A p \in Children(node) : Linked(p)

\* No node on a page holds more cells than the code allows, and an internal
\* node always has a key: a split never leaves one with a lone pointer.
NodesInBounds ==
  \A m \in {view, disk} : \A node \in Nodes(m) :
    /\ node.type = "leaf" => Len(node.cells) <= MaxLeafCells
    /\ node.type = "internal" => Len(node.cells) \in 1 .. MaxInternalCells

\* The pages of the tree under top, in preorder.
Preorder(m, top) ==
  LET pre[p \in PageNums] ==
        IF m[p].type = "internal"
        THEN <<p>> \o FlattenSeq([i \in 1 .. Len(m[p].cells) + 1 |->
                                    pre[Child(m[p], i)]])
        ELSE <<p>>
  IN  pre[top]

Depths(m, top) ==
  LET depths[p \in PageNums] ==
        IF m[p].type = "internal"
        THEN {d + 1 : d \in UNION {depths[q] : q \in Children(m[p])}}
        ELSE {0}
  IN  depths[top]

KeysUnder(m, top) ==
  LET under[p \in PageNums] ==
        {m[p].cells[i].key : i \in DOMAIN m[p].cells}
          \cup (IF m[p].type = "internal"
                THEN UNION {under[q] : q \in Children(m[p])} ELSE {})
  IN  under[top]

\* Between two keys of an internal node lie exactly the keys of the child
\* between them, and the keys of a leaf ascend.
Ordered(m, p) ==
  LET cells == m[p].cells
  IN  /\ \A i \in 2 .. Len(cells) : cells[i - 1].key < cells[i].key
      /\ m[p].type = "internal" =>
           \A i \in 1 .. Len(cells) + 1 :
             \A k \in KeysUnder(m, Child(m[p], i)) :
               /\ i > 1 => cells[i - 1].key <= k
               /\ i <= Len(cells) => k < cells[i].key

\* Under top there is a B-Tree: no page is reached twice, all leaves are
\* equally deep, and the keys lie where a search looks for them.
SearchTree(m, top) ==
  /\ IsInjective(Preorder(m, top))
  /\ Cardinality(Depths(m, top)) = 1
  /\ \A p \in Range(Preorder(m, top)) : Ordered(m, p)

\* The process has a B-Tree before it at every step: between the writes of a
\* split, and after any call has failed half-way.
TreeSound == root # NoPage => SearchTree(view, root)

\* Internal nodes other than the root stay half full: the height is
\* logarithmic in the number of splits, whatever is deleted (btree.go:14).  With
\* nodes of two cells this is NodesInBounds; TreeInvariant.tla has it for all.
HalfFull ==
  root # NoPage =>
    \A p \in Range(Preorder(view, root)) \ {root} :
      view[p].type = "internal" =>
        Len(view[p].cells) >= MaxInternalCells \div 2

\* The process never panics in the tree.  (btree.go:46 has the cell limits
\* "tuned for 4KB pages".)
NoPanic == pc # "panic"

\* Every call returns to its caller, however often the nodes split.
CallsReturn == (pc # "idle") ~> (pc = "idle")

----------------------------------------------------------------------------
\* The rows of the tree under top, as Scan lists them.
RowsUnder(m, top) ==
  LET rows[p \in PageNums] ==
        IF m[p].type = "internal"
        THEN FlattenSeq([i \in 1 .. Len(m[p].cells) + 1 |->
                           rows[Child(m[p], i)]])
        ELSE m[p].cells
  IN  IF top = NoPage THEN <<>> ELSE rows[top]

Rows(m) == RowsUnder(m, root)

=============================================================================
