--------------------------- MODULE DatabaseProofs ---------------------------
(***************************************************************************)
(* The inductive invariant of Database.tla, which puts statements and      *)
(* catalogs on top of the trees of BTree.tla.  Its parts are               *)
(*                                                                         *)
(*   CallInv     the statement in progress, its call and the catalog       *)
(*               agree, and catalogs have linked roots;                    *)
(*   Layout      every page has a height and belongs to a tree,            *)
(*               pointers lead down inside a tree, and the tables have     *)
(*               trees of their own;                                       *)
(*   Stacked     trees grow only at the top: the root on page 1 is not     *)
(*               above the one in memory, nor that above the call's;       *)
(*   Trees       until a process starts on what failing pager calls have   *)
(*               left, the pages hold a tree for every root, in the sense  *)
(*               of TreeProofs.tla;                                        *)
(*   RowKeys     the keys of a table without a primary key are below       *)
(*               its NextRowID, also those on their way to a page;         *)
(*   TruthGood   the history has rows for every table.                     *)
(*                                                                         *)
(* Every step keeps each part, given those above it.  The second half of   *)
(* the module is about the rows.                                           *)
(***************************************************************************)
EXTENDS Database, TreeInvariant

----------------------------------------------------------------------------
\* What a step inside a B-Tree call does

\* Every step either leaves the pages alone, takes a fresh page, or writes.
StoreStep ==
  \/ UNCHANGED <<view, disk, owned>>
  \/ /\ pc \in {"alloc", "rootalloc"} \/ (pc = "idle" /\ root = NoPage)
     /\ \E p \in Fresh : Allocates(p)
  \/ pc \in {"write", "right", "root"} /\ Store!Write(Target, Image)
  \/ pc \in {"write", "right", "root"} /\ Store!WriteFails(Target, Image) /\ IOError

\* A step inside a call does to the pages what StoreStep says.
LEMMA ProceedStore == ASSUME Proceed PROVE StoreStep
<1>1. CASE DescendInternal \/ SearchLeaf \/ InsertLeaf \/ DeleteLeaf \/ ScanLeaf
           \/ ScanInternal \/ ScanReturns \/ ReadFails \/ AllocateFails
  BY <1>1 DEF StoreStep, DescendInternal, SearchLeaf, InsertLeaf, DeleteLeaf, ScanLeaf,
     ScanInternal, ScanReturns, ReadFails, AllocateFails
<1>2. CASE ReadPanics \/ WritePanics
  BY <1>2 DEF StoreStep, ReadPanics, WritePanics, Panics
<1>3. CASE WriteWhole \/ WriteLeft \/ WriteRight \/ WriteRightOfRoot \/ WriteRoot
  BY <1>3 DEF StoreStep, WriteWhole, WriteLeft, WriteRight, WriteRightOfRoot, WriteRoot, WritesImage
<1>4. CASE WriteFails
  BY <1>4 DEF StoreStep, WriteFails
<1>5. CASE AllocateRight \/ AllocateRoot
  BY <1>5 DEF StoreStep, AllocateRight, AllocateRoot
<1> QED
  BY <1>1, <1>2, <1>3, <1>4, <1>5 DEF Proceed

\* A page that is linked, or owned, stays so.
LEMMA LinkedStay ==
  ASSUME Inv, StoreStep PROVE LinkedPages \subseteq LinkedPages' /\ owned \subseteq owned'
<1>1. CASE UNCHANGED <<view, disk, owned>>
  BY <1>1 DEF LinkedPages
<1>2. CASE \E p \in Fresh : Allocates(p)
  <2>1. PICK p \in Fresh : Allocates(p)
    BY <1>2
  <2> QED
    BY <2>1, StoreAllocs DEF Fresh, Allocates, Inv, TypeOK, Store!Alloc
<1>3. CASE /\ pc \in {"write", "right", "root"}
           /\ Store!Write(Target, Image) \/ Store!WriteFails(Target, Image)
  BY <1>3, ImageWritten
<1> QED
  BY <1>1, <1>2, <1>3 DEF StoreStep

\* What the caller sees of it.
LEMMA ProceedFacts ==
  ASSUME Proceed
  PROVE  /\ pc \notin {"idle", "panic"}
         /\ root' = root \/ (pc = "root" /\ root' = fresh)
         /\ pc' # "idle" => req' = req /\ root' = root /\ pc' \in PCs
         /\ pc = "root" => /\ pc' \in {"idle", "panic"}
                           /\ (pc' = "idle" /\ res'.status = "ok" => root' = fresh)
         /\ pc' = "root" => pc = "rootalloc"
<1>1. CASE DescendInternal \/ SearchLeaf \/ InsertLeaf \/ DeleteLeaf
  BY <1>1 DEF DescendInternal, SearchLeaf, InsertLeaf, DeleteLeaf, Return, PCs
<1>2. CASE ScanLeaf \/ ScanInternal \/ ScanReturns
  BY <1>2 DEF ScanLeaf, ScanInternal, ScanReturns, Return, PCs
<1>3. CASE \/ WriteWhole \/ WriteLeft \/ AllocateRight \/ WriteRight
           \/ WriteRightOfRoot \/ AllocateRoot \/ WriteRoot
  BY <1>3 DEF WriteWhole, WriteLeft, AllocateRight, WriteRight, WriteRightOfRoot,
     AllocateRoot, WriteRoot, Return, PCs
<1>4. CASE ReadFails \/ WriteFails \/ AllocateFails
  BY <1>4 DEF ReadFails, WriteFails, AllocateFails, Return
<1>5. CASE ReadPanics \/ WritePanics
  BY <1>5 DEF ReadPanics, WritePanics, Panics, PCs, call
<1> QED
  BY <1>1, <1>2, <1>3, <1>4, <1>5 DEF Proceed

----------------------------------------------------------------------------
\* The statement in progress and the catalogs

\* A catalog has a linked root page for every table that it has.
CatalogGood(cat) ==
  /\ cat \in [Tables -> Infos \cup {NoTable}]
  /\ \A t \in Tables : cat[t] # NoTable => cat[t].root \in LinkedPages

\* CREATE has no call of a tree to make but NewBTree, which ends with a root.
Creating ==
  /\ stmt.todo = <<>> /\ stmt.phase \in {"wait", "save"}
  /\ pc # "idle" => pc \in {"root", "panic"} /\ root = NoPage
  /\ pc = "idle" /\ (res.status = "ok" \/ stmt.phase = "save") => root # NoPage
  /\ stmt.phase = "save" => mem[stmt.table] = [root |-> root, next |-> 1]

\* INSERT looks for its key, inserts it and saves the catalog.
Inserting ==
  \E k \in Keys :
    /\ stmt.keys = {k}
    /\ stmt.todo \in {<<[op |-> "search", key |-> k],
                        [op |-> "insert", key |-> k, val |-> stmt.val]>>,
                      <<[op |-> "insert", key |-> k, val |-> stmt.val]>>, <<>>}
    /\ stmt.phase = "save" <=> stmt.todo = <<>>

\* Any other statement but DROP has loaded a tree, and waits for the first of
\* the calls that it has yet to make.
Calling ==
  /\ root # NoPage /\ mem[stmt.table] # NoTable
  /\ stmt.phase = "wait" => stmt.todo # <<>> /\ (pc # "idle" => req = Head(stmt.todo))
  /\ stmt.phase = "save" => stmt.kind = "insert"
  /\ stmt.kind \in {"insert", "update"} => stmt.val \in Vals
  /\ stmt.kind = "insert" => Inserting

\* What the fields of the statement say of each other, of the call and of the catalog.
StmtGood ==
  /\ stmt \in Stmts \cup {NoStmt}
  /\ stmt = NoStmt => pc = "idle" /\ root = NoPage
  /\ stmt # NoStmt =>
       /\ stmt.phase # "wait" => pc = "idle"
       /\ stmt.kind = "create" => Creating
       /\ stmt.kind = "drop" => stmt.phase = "save" /\ root = NoPage /\ mem[stmt.table] = NoTable
       /\ stmt.kind \notin {"create", "drop"} => Calling

\* A statement and the call that it makes agree, and the catalogs hold linked roots.
CallInv ==
  /\ Inv /\ CatalogGood(mem) /\ CatalogGood(saved)
  /\ StmtGood /\ crashes \in 0 .. MaxCrashes

\* The fields of a statement.
LEMMA StmtFacts ==
  /\ \A s \in Stmts : /\ s # NoStmt /\ s.table \in Tables /\ s.todo \in Seq(Requests)
                      /\ s.phase \in {"call", "wait", "save"}
                      /\ s.keys \in SUBSET Keys /\ s.val \in Vals \cup {Absent}
                      /\ s.kind \in {"create", "drop", "insert", "update", "delete", "select"}
  BY DEF Stmts, NoStmt

\* A step that keeps the linked pages keeps the roots of both catalogs linked.
LEMMA CatalogsKept ==
  ASSUME CallInv, LinkedPages \subseteq LinkedPages', NEW cat, cat \in {mem, saved}
  PROVE  \A t \in Tables : cat[t] # NoTable => cat[t].root \in LinkedPages'
  BY DEF CallInv, CatalogGood

\* Between calls, a statement takes a root and gives it up.
LEMMA RootTaken ==
  ASSUME Inv, pc = "idle",
         UNCHANGED <<view, disk, owned, pc, req, path, work, fresh>>,
         root' = NoPage \/ root' \in LinkedPages,
         res' = res \/ res' = NoResult,
         IOError \/ UNCHANGED ioErrors
  PROVE  Inv' /\ LinkedPages' = LinkedPages
<1>1. Store!TypeOK' /\ PagesGood' /\ LinkedPages' = LinkedPages
  BY StoreKept
<1>2. ioErrors' \in 0 .. MaxIOErrors
  BY IOErrorFacts DEF Inv
<1>3. root' \in PageNums \cup {NoPage}
  BY DEF Inv, TypeOK, Store!TypeOK, LinkedPages
<1>4. TypeOK'
  <2>1. NoResult \in [status : {"none", "ok", "notfound", "error"}, rows : Seq(LeafCells)]
    BY EmptySeq DEF NoResult
  <2> QED
    BY <1>1, <1>2, <1>3, <2>1 DEF Inv, TypeOK
<1>5. PathGood'
  BY <1>1 DEF Inv, PathGood
<1>6. WorkGood'
  BY DEF WorkGood
<1> QED
  BY <1>1, <1>4, <1>5, <1>6 DEF Inv

\* A crash keeps the invariant of the tree and leaves every linked page linked.
LEMMA CrashKeeps ==
  ASSUME Inv, Crash PROVE Inv' /\ LinkedPages \subseteq LinkedPages'
<1> USE DEF Crash
<1>1. Store!TypeOK' /\ LinkedPages \subseteq LinkedPages'
  BY DEF Inv, TypeOK, Store!TypeOK, LinkedPages
<1>2. PagesGood'
  BY <1>1 DEF Inv, PagesGood, PointsInto
<1>3. path' \in Seq(PageNums) /\ Len(path') = 0
  BY EmptySeq
<1>4. TypeOK'
  BY <1>1, <1>3, PageFacts, EmptySeq DEF Inv, TypeOK, PCs, NoResult
<1> QED
  BY <1>1, <1>2, <1>3, <1>4 DEF Inv, PathGood, WorkGood

\* The catalogs of the next state, whose pages stay linked.
LEMMA CatalogsStay ==
  ASSUME CallInv, LinkedPages \subseteq LinkedPages', NEW cat, cat \in {mem, saved},
         NEW new, new = cat
  PROVE  /\ new \in [Tables -> Infos \cup {NoTable}]
         /\ \A t \in Tables : new[t] # NoTable => new[t].root \in LinkedPages'
  BY DEF CallInv, CatalogGood

\* Without a statement there is nothing more to say of the next state.
LEMMA NoStmtGood ==
  ASSUME stmt' = NoStmt, pc' = "idle", root' = NoPage
  PROVE  StmtGood'
  BY DEF StmtGood

\* CREATE TABLE starts with NewBTree and no calls to make.
LEMMA CreateKeeps == ASSUME CallInv, NEW t \in Tables, Create(t) PROVE CallInv'
<1> USE DEF Create, Ready, CallInv
<1>1. Inv' /\ LinkedPages \subseteq LinkedPages'
  <2>1. StoreStep
    BY DEF StoreStep, NewBTree
  <2> QED
    BY <2>1, LinkedStay, NewBTreeStep
<1>2. CatalogGood(mem)' /\ CatalogGood(saved)'
  BY <1>1 DEF CatalogGood
<1>3. pc' = "root" /\ root' = NoPage
  BY DEF NewBTree, StmtGood
<1>4. stmt' \in Stmts
  BY EmptySeq DEF Stmts
<1>5. StmtGood'
  BY <1>3, <1>4, StmtFacts DEF StmtGood, Creating
<1> QED
  BY <1>1, <1>2, <1>5

\* CREATE TABLE that gets no page ends its call with an error.
LEMMA CreateFailsKeeps == ASSUME CallInv, NEW t \in Tables, CreateFails(t) PROVE CallInv'
<1> USE DEF CreateFails, Ready, CallInv
<1>1. Inv' /\ UNCHANGED <<view, disk, owned, root, pc, req, res, mem, saved, stmt, crashes>>
  BY NewBTreeFailsStep DEF NewBTreeFails, call
<1>2. LinkedPages' = LinkedPages
  BY <1>1 DEF LinkedPages
<1>3. CatalogGood(mem)' /\ CatalogGood(saved)'
  BY <1>1, <1>2 DEF CatalogGood
<1>4. StmtGood'
  BY <1>1 DEF StmtGood
<1> QED
  BY <1>1, <1>3, <1>4

\* Steps that leave the trees alone.
LEMMA TreesAlone ==
  ASSUME CallInv, UNCHANGED vars
  PROVE  Inv' /\ LinkedPages' = LinkedPages
  BY InvStep DEF CallInv, vars, LinkedPages

\* DROP TABLE has only its save left to do.
LEMMA DropKeeps == ASSUME CallInv, NEW t \in Tables, Drop(t) PROVE CallInv'
<1> USE DEF Drop, Ready, CallInv
<1>1. Inv' /\ LinkedPages' = LinkedPages
  BY TreesAlone
<1>2. CatalogGood(mem)' /\ CatalogGood(saved)'
  BY <1>1 DEF CatalogGood
<1>3. stmt' \in Stmts /\ stmt' # NoStmt
  BY EmptySeq DEF Stmts, NoStmt
<1>4. pc' = "idle" /\ root' = NoPage
  BY DEF vars, StmtGood
<1>5. mem'[t] = NoTable
  BY DEF CatalogGood
<1>6. StmtGood'
  BY <1>3, <1>4, <1>5 DEF StmtGood
<1> QED
  BY <1>1, <1>2, <1>6

\* A table is loaded and the statement begins.
LEMMA LoadKeeps ==
  ASSUME CallInv, NEW t \in Tables, LoadBTree(t), UNCHANGED <<saved, crashes>>,
         mem' = mem \/ mem' = [mem EXCEPT ![t].next = @ + 1],
         NEW kind \in {"insert", "update", "delete", "select"}, NEW keys \in SUBSET Keys,
         NEW val \in Vals \cup {Absent}, NEW todo \in Seq(Requests),
         kind \in {"insert", "update"} => val \in Vals,
         Begin(kind, t, keys, val, todo),
         kind = "insert" => \E k \in Keys :
           keys = {k} /\ todo = <<[op |-> "search", key |-> k],
                                 [op |-> "insert", key |-> k, val |-> val]>>
  PROVE  CallInv'
<1> USE DEF LoadBTree, Ready, CallInv
<1>1. root' \in LinkedPages /\ mem[t] \in Infos
  BY DEF CatalogGood
<1>2. Inv' /\ LinkedPages' = LinkedPages
  BY <1>1, RootTaken
<1>3. /\ mem' \in [Tables -> Infos \cup {NoTable}] /\ mem'[t].root = mem[t].root
      /\ \A u \in Tables \ {t} : mem'[u] = mem[u]
      /\ mem'[t] \in Infos
  BY <1>1 DEF CatalogGood, Infos
<1>4. CatalogGood(mem)' /\ CatalogGood(saved)'
  BY <1>1, <1>2, <1>3 DEF CatalogGood
<1>5. stmt' \in Stmts /\ stmt' # NoStmt
  BY StmtFacts DEF Stmts, Begin
<1>6. root' # NoPage /\ mem'[t] # NoTable
  BY <1>1, <1>3, BTreeAssumption, DatabaseAssumption DEF LinkedPages, Inv, TypeOK, Store!TypeOK, NoPage
<1>7. StmtGood'
  BY <1>5, <1>6 DEF StmtGood, Calling, Begin, Inserting
<1> QED
  BY <1>2, <1>4, <1>7

\* INSERT starts with the search for its key.
LEMMA InsertKeeps ==
  ASSUME CallInv, NEW t \in Tables, NEW k \in Keys, NEW v \in Vals, Insert(t, k, v)
  PROVE  CallInv'
<1> DEFINE todo == <<[op |-> "search", key |-> k], [op |-> "insert", key |-> k, val |-> v]>>
<1>1. todo \in Seq(Requests)
  BY DEF Requests
<1>2. Begin("insert", t, {k}, v, todo)
  BY DEF Insert
<1>3. \E j \in Keys : {k} = {j} /\ todo = <<[op |-> "search", key |-> j],
                                            [op |-> "insert", key |-> j, val |-> v]>>
  OBVIOUS
<1> HIDE DEF todo
<1>4. mem' = mem \/ mem' = [mem EXCEPT ![t].next = @ + 1]
  BY DEF Insert
<1>5. LoadBTree(t) /\ UNCHANGED <<saved, crashes>>
  BY DEF Insert
<1> QED
  BY <1>1, <1>2, <1>3, <1>4, <1>5, LoadKeeps

\* UPDATE, DELETE and SELECT start with a scan.
LEMMA ScanKeeps ==
  ASSUME CallInv, NEW t \in Tables, NEW keys \in SUBSET Keys,
         NEW kind \in {"update", "delete", "select"}, NEW val \in Vals \cup {Absent},
         kind = "update" => val \in Vals, ScanAllRows(kind, t, keys, val)
  PROVE  CallInv'
<1> DEFINE todo == <<[op |-> "scan"]>>
<1>1. todo \in Seq(Requests)
  BY DEF Requests
<1>2. Begin(kind, t, keys, val, todo) /\ LoadBTree(t) /\ UNCHANGED <<mem, saved, crashes>>
  BY DEF ScanAllRows
<1> HIDE DEF todo
<1> QED
  BY <1>1, <1>2, LoadKeeps

\* The statement makes the first of its calls.
LEMMA CallBTreeKeeps == ASSUME CallInv, CallBTree PROVE CallInv'
<1> USE DEF CallBTree, CallInv
<1>1. stmt \in Stmts /\ stmt.todo # <<>> /\ stmt.phase = "call"
  BY DEF StmtGood
<1>2. Head(stmt.todo) \in Requests
  BY <1>1, StmtFacts, HeadTailProperties
<1>3. Inv'
  BY <1>2, CallStep
<1>4. LinkedPages' = LinkedPages
  BY DEF Call, LinkedPages
<1>5. CatalogGood(mem)' /\ CatalogGood(saved)'
  BY <1>4 DEF CatalogGood
<1>6. /\ stmt' \in Stmts /\ stmt' # NoStmt /\ stmt'.phase = "wait"
      /\ stmt'.todo = stmt.todo /\ stmt'.kind = stmt.kind /\ stmt'.val = stmt.val
      /\ stmt'.table = stmt.table /\ stmt'.keys = stmt.keys
  BY <1>1, StmtFacts DEF Stmts
<1>7. stmt.kind \notin {"create", "drop"}
  BY <1>1, StmtFacts DEF StmtGood, Creating
<1>8. StmtGood'
  BY <1>1, <1>6, <1>7, StmtFacts DEF StmtGood, Calling, Call, Inserting
<1> QED
  BY <1>3, <1>5, <1>8

\* A step inside the call, for which the statement waits.
LEMMA BTreeProceedsKeeps == ASSUME CallInv, BTreeProceeds PROVE CallInv'
<1> USE DEF BTreeProceeds, CallInv
<1>1. Inv'
  BY InvStep DEF Next
<1>2. LinkedPages \subseteq LinkedPages'
  BY ProceedStore, LinkedStay
<1>3. CatalogGood(mem)' /\ CatalogGood(saved)'
  BY <1>2 DEF CatalogGood
<1>4. stmt # NoStmt /\ stmt \in Stmts /\ stmt.phase = "wait"
  BY ProceedFacts, StmtFacts DEF StmtGood
<1>5. pc = "root" => fresh # NoPage
  BY BTreeAssumption DEF Inv, WorkGood, TypeOK, Store!TypeOK, NoPage
<1>6. stmt.kind = "create" => Creating'
  BY <1>4, <1>5, ProceedFacts DEF StmtGood, Creating
<1>7. stmt.kind \notin {"create", "drop"} => Calling'
  BY <1>4, <1>5, ProceedFacts DEF StmtGood, Calling, Inserting
<1>8. StmtGood'
  BY <1>4, <1>6, <1>7 DEF StmtGood
<1> QED
  BY <1>1, <1>3, <1>8

\* The catalog takes the root of a new table.
LEMMA TableCreatedKeeps == ASSUME CallInv, TableCreated PROVE CallInv'
<1> USE DEF TableCreated, Returned, CallInv
<1>1. Inv' /\ LinkedPages' = LinkedPages
  BY TreesAlone
<1>2. stmt \in Stmts /\ stmt.table \in Tables /\ Creating
  BY StmtFacts DEF StmtGood
<1>3. root # NoPage /\ root \in LinkedPages /\ root \in PageNums
  BY <1>2 DEF Creating, Inv, PathGood, TypeOK
<1> DEFINE info == [root |-> root, next |-> 1]
<1>4. info \in Infos /\ info.root = root
  BY <1>3 DEF Infos
<1>5. mem' = [mem EXCEPT ![stmt.table] = info] /\ saved' = saved
  OBVIOUS
<1> HIDE DEF info
<1>6. CatalogGood(mem)' /\ CatalogGood(saved)'
  BY <1>1, <1>2, <1>3, <1>4, <1>5 DEF CatalogGood
<1>7. mem'[stmt.table] = info
  BY <1>2, <1>5 DEF CatalogGood
<1>8. /\ stmt' \in Stmts /\ stmt' # NoStmt /\ stmt'.phase = "save"
      /\ stmt'.todo = stmt.todo /\ stmt'.kind = "create" /\ stmt'.table = stmt.table
  BY <1>2, StmtFacts DEF Stmts
<1>9. StmtGood'
  BY <1>2, <1>3, <1>7, <1>8 DEF StmtGood, Creating, vars, info
<1> QED
  BY <1>1, <1>6, <1>9

\* The calls for a row are requests.
LEMMA RowCalls ==
  ASSUME NEW s \in Stmts, stmt = s, s.kind = "update" => s.val \in Vals,
         s.kind \in {"update", "delete", "select"}, NEW cell \in LeafCells
  PROVE  CallsFor(cell) \in Seq(Requests)
<1>1. cell.key \in Keys
  BY DEF LeafCells
<1>2. CASE s.kind = "update"
  <2>1. CallsFor(cell) = <<[op |-> "search", key |-> cell.key],
                          [op |-> "insert", key |-> cell.key, val |-> s.val]>>
    BY <1>2 DEF CallsFor
  <2> QED
    BY <1>1, <1>2, <2>1 DEF Requests
<1>3. CASE s.kind = "delete"
  <2>1. CallsFor(cell) = <<[op |-> "delete", key |-> cell.key]>>
    BY <1>3 DEF CallsFor
  <2> QED
    BY <1>1, <2>1 DEF Requests
<1>4. CASE s.kind = "select"
  BY <1>4, EmptySeq DEF CallsFor
<1> QED
  BY <1>2, <1>3, <1>4

\* A scan leaves the statement with the calls for the rows that it found, as a
\* sequence of requests.
LEMMA ScannedTodo ==
  ASSUME CallInv, Scanned
  PROVE  LET calls == [i \in DOMAIN res.rows |->
                         IF res.rows[i].key \in stmt.keys
                         THEN CallsFor(res.rows[i]) ELSE <<>>]
         IN  /\ stmt' = [stmt EXCEPT !.phase = "call", !.todo = FlattenSeq(calls)]
             /\ FlattenSeq(calls) \in Seq(Requests)
             /\ Len(res.rows) \in Nat /\ calls \in [1 .. Len(res.rows) -> Seq(Requests)]
             /\ Len(res.rows) = 0 => FlattenSeq(calls) = <<>>
             /\ stmt \in Stmts /\ stmt.kind \in {"update", "delete", "select"}
<1> USE DEF Scanned, Returned, CallInv
<1> DEFINE calls == [i \in DOMAIN res.rows |-> IF res.rows[i].key \in stmt.keys
                                              THEN CallsFor(res.rows[i]) ELSE <<>>]
<1>1. stmt \in Stmts /\ stmt.todo # <<>> /\ stmt.phase = "wait"
  BY DEF StmtGood
<1>2. stmt.kind \notin {"create", "drop"} /\ Calling
  BY <1>1 DEF StmtGood, Creating
<1>3. res.rows \in Seq(LeafCells)
  BY DEF Inv, TypeOK
<1>4. /\ Len(res.rows) \in Nat /\ DOMAIN res.rows = 1 .. Len(res.rows)
      /\ \A i \in 1 .. Len(res.rows) : res.rows[i] \in LeafCells
  BY <1>3, LenProperties
<1>5. stmt.kind # "insert"
  BY <1>1, <1>2 DEF Calling, Inserting
<1>6. stmt.kind \in {"update", "delete", "select"} /\ (stmt.kind = "update" => stmt.val \in Vals)
  BY <1>1, <1>2, <1>5, StmtFacts DEF Calling
<1>7. ASSUME NEW i \in 1 .. Len(res.rows) PROVE calls[i] \in Seq(Requests)
  BY <1>1, <1>4, <1>6, RowCalls, EmptySeq
<1>8. calls \in [1 .. Len(res.rows) -> Seq(Requests)]
  BY <1>4, <1>7
<1>9. stmt' = [stmt EXCEPT !.phase = "call", !.todo = FlattenSeq(calls)]
  OBVIOUS
<1> HIDE DEF calls
<1>10. CASE Len(res.rows) = 0
  <2>1. Len(calls) = 0 /\ calls = <<>>
    BY <1>8, <1>10, EmptySeq
  <2>2. FlattenSeq(calls) = <<>>
    BY <2>1 DEF FlattenSeq
  <2> QED
    BY <1>1, <1>4, <1>6, <1>8, <1>9, <2>2, EmptySeq DEF calls
<1>11. CASE Len(res.rows) # 0
  <2>1. FlattenSeq(calls) \in Seq(Requests)
    BY <1>4, <1>8, <1>11, FlattenRange
  <2> QED
    BY <1>1, <1>4, <1>6, <1>8, <1>9, <1>11, <2>1 DEF calls
<1> QED
  BY <1>10, <1>11

\* A statement goes on to its next phase, with other calls to make.
GoesOn(new, s, phase, todo) ==
  \/ new = [s EXCEPT !.phase = phase, !.todo = todo]
  \/ new = [s EXCEPT !.todo = todo, !.phase = phase]

\* A statement that goes on stays a statement, with the same table and keys.
LEMMA StmtGoesOn ==
  ASSUME NEW s \in Stmts, NEW todo \in Seq(Requests), NEW phase \in {"call", "save"}, NEW new,
         GoesOn(new, s, phase, todo)
  PROVE  /\ new \in Stmts /\ new # NoStmt /\ new.phase = phase /\ new.todo = todo
         /\ new.kind = s.kind /\ new.val = s.val /\ new.table = s.table /\ new.keys = s.keys
<1>1. /\ new.phase = phase /\ new.todo = todo
      /\ new.kind = s.kind /\ new.val = s.val /\ new.table = s.table /\ new.keys = s.keys
  BY DEF Stmts, GoesOn
<1>2. new \in Stmts
  BY DEF Stmts, GoesOn
<1> QED
  BY <1>1, <1>2, StmtFacts

\* The statement goes on with the rows of a scan.
LEMMA ScannedKeeps == ASSUME CallInv, Scanned PROVE CallInv'
<1> USE DEF CallInv
<1>1. PICK todo \in Seq(Requests) :
        /\ stmt' = [stmt EXCEPT !.phase = "call", !.todo = todo]
        /\ stmt \in Stmts /\ stmt.kind \in {"update", "delete", "select"}
  BY ScannedTodo
<1>2. Inv' /\ LinkedPages' = LinkedPages /\ pc = "idle" /\ UNCHANGED <<vars, mem, saved, crashes>>
  BY TreesAlone DEF Scanned, Returned
<1>3. CatalogGood(mem)' /\ CatalogGood(saved)'
  BY <1>2 DEF CatalogGood
<1>4. /\ stmt' \in Stmts /\ stmt' # NoStmt /\ stmt'.phase = "call"
      /\ stmt'.todo = todo /\ stmt'.kind = stmt.kind /\ stmt'.val = stmt.val
      /\ stmt'.table = stmt.table /\ stmt'.keys = stmt.keys
  <2>1. GoesOn(stmt', stmt, "call", todo)
    BY <1>1 DEF GoesOn
  <2> QED
    BY <1>1, <2>1, StmtGoesOn
<1>5. StmtGood'
  BY <1>1, <1>2, <1>4, StmtFacts DEF StmtGood, Calling, vars
<1> QED
  BY <1>2, <1>3, <1>5

\* The statement goes on after a call, and the catalog takes the root that it has now.
LEMMA CallDoneKeeps == ASSUME CallInv, CallDone PROVE CallInv'
<1> USE DEF CallDone, Returned, CallInv
<1> DEFINE last == stmt.kind = "insert" /\ Tail(stmt.todo) = <<>>
<1>1. Inv' /\ LinkedPages' = LinkedPages
  BY TreesAlone
<1>2. /\ stmt \in Stmts /\ stmt.table \in Tables /\ stmt.todo # <<>> /\ stmt.phase = "wait"
      /\ stmt.todo \in Seq(Requests)
  BY StmtFacts DEF StmtGood
<1>3. Calling /\ stmt.kind \notin {"create", "drop"}
  BY <1>2 DEF StmtGood, Creating
<1> DEFINE rest == Tail(stmt.todo)
<1>4. rest \in Seq(Requests)
  BY <1>2, HeadTailProperties
<1>5. root # NoPage /\ root \in LinkedPages /\ root \in PageNums
  BY <1>3 DEF Calling, Inv, PathGood, TypeOK
<1>6. mem[stmt.table] \in Infos /\ mem[stmt.table] # NoTable
  BY <1>2, <1>3 DEF Calling, CatalogGood
<1>7. CASE last
  <2>1. mem' = [mem EXCEPT ![stmt.table].root = root] /\ saved' = saved
    BY <1>7
  <2>2. /\ mem' \in [Tables -> Infos \cup {NoTable}] /\ mem'[stmt.table].root = root
        /\ mem'[stmt.table] \in Infos
        /\ \A u \in Tables \ {stmt.table} : mem'[u] = mem[u]
    BY <1>2, <1>5, <1>6, <2>1 DEF CatalogGood, Infos
  <2>3. CatalogGood(mem)' /\ CatalogGood(saved)'
    BY <1>1, <1>5, <2>1, <2>2 DEF CatalogGood
  <2>4. /\ stmt' \in Stmts /\ stmt' # NoStmt /\ stmt'.phase = "save"
        /\ stmt'.todo = <<>> /\ stmt'.kind = "insert" /\ stmt'.val = stmt.val
        /\ stmt'.table = stmt.table /\ stmt'.keys = stmt.keys
    <3>1. GoesOn(stmt', stmt, "save", rest)
      BY <1>7 DEF GoesOn
    <3>2. rest = <<>> /\ stmt.kind = "insert"
      BY <1>7
    <3> HIDE DEF rest, CallDone
    <3>3. /\ stmt' \in Stmts /\ stmt' # NoStmt /\ stmt'.phase = "save"
          /\ stmt'.todo = rest /\ stmt'.kind = stmt.kind /\ stmt'.val = stmt.val
          /\ stmt'.table = stmt.table /\ stmt'.keys = stmt.keys
      BY <1>2, <1>4, <3>1, StmtGoesOn
    <3> QED
      BY <3>2, <3>3
  <2>5. mem'[stmt.table] # NoTable
    BY <2>2, DatabaseAssumption
  <2>6. StmtGood'
    BY <1>2, <1>3, <2>4, <2>5 DEF StmtGood, Calling, Inserting, vars
  <2> QED
    BY <1>1, <2>3, <2>6
<1>8. CASE ~last
  <2>1. mem' = mem /\ saved' = saved /\ UNCHANGED vars
    BY <1>8
  <2>2. CatalogGood(mem)' /\ CatalogGood(saved)'
    BY <1>1, <2>1 DEF CatalogGood
  <2>3. /\ stmt' \in Stmts /\ stmt' # NoStmt /\ stmt'.phase = "call"
        /\ stmt'.todo = rest /\ stmt'.kind = stmt.kind /\ stmt'.val = stmt.val
        /\ stmt'.table = stmt.table /\ stmt'.keys = stmt.keys
    <3>1. GoesOn(stmt', stmt, "call", rest)
      BY <1>8 DEF GoesOn
    <3> HIDE DEF rest, CallDone
    <3> QED
      BY <1>2, <1>4, <3>1, StmtGoesOn
  <2>4. stmt.kind = "insert" => Inserting'
    <3> SUFFICES ASSUME stmt.kind = "insert" PROVE Inserting'
      OBVIOUS
    <3>1. PICK k \in Keys :
            /\ stmt.keys = {k}
            /\ stmt.todo \in {<<[op |-> "search", key |-> k],
                                [op |-> "insert", key |-> k, val |-> stmt.val]>>,
                              <<[op |-> "insert", key |-> k, val |-> stmt.val]>>}
      BY <1>2, <1>3 DEF Calling, Inserting
    <3>2. Tail(stmt.todo) = <<[op |-> "insert", key |-> k, val |-> stmt.val]>>
      <4> DEFINE s1 == [op |-> "search", key |-> k]
                 s2 == [op |-> "insert", key |-> k, val |-> stmt.val]
      <4>1. Tail(<<s1, s2>>) = <<s2>> /\ Tail(<<s2>>) = <<>>
        OBVIOUS
      <4>2. stmt.todo = <<s1, s2>> \/ stmt.todo = <<s2>>
        BY <3>1
      <4> HIDE DEF s1, s2
      <4>3. Tail(stmt.todo) = <<s2>>
        BY <1>8, <4>1, <4>2
      <4> QED
        BY <4>3 DEF s2
    <3> QED
      BY <2>3, <3>1, <3>2 DEF Inserting
  <2>5. StmtGood'
    BY <1>2, <1>3, <2>1, <2>3, <2>4 DEF StmtGood, Calling, vars
  <2> QED
    BY <1>1, <2>2, <2>5
<1> QED
  BY <1>7, <1>8

\* A statement ends, and gives up its root.
LEMMA FinishKeeps ==
  ASSUME CallInv, Finish, stmt # NoStmt, pc = "idle",
         UNCHANGED <<view, disk, owned, pc, req, path, work, fresh, mem, crashes>>,
         saved' \in {saved, mem}, IOError \/ UNCHANGED ioErrors
  PROVE  CallInv'
<1> USE DEF Finish, CallInv
<1>1. Inv' /\ LinkedPages' = LinkedPages
  BY RootTaken
<1>2. CatalogGood(mem)' /\ CatalogGood(saved)'
  BY <1>1 DEF CatalogGood
<1> QED
  BY <1>1, <1>2, NoStmtGood

\* All but Save leave the catalog on page 1 as it is.
Ends == AllRowsDone \/ RefusedRow \/ EvaluationFails \/ CallFailed \/ Save \/ SaveFails

\* What every end of a statement has in common.
LEMMA EndsFacts ==
  ASSUME StmtGood, Ends
  PROVE  /\ Finish /\ stmt # NoStmt /\ pc = "idle"
         /\ UNCHANGED <<view, disk, owned, pc, req, path, work, fresh, mem, crashes>>
         /\ saved' \in {saved, mem} /\ (IOError \/ UNCHANGED ioErrors)
         /\ Acknowledge \/ Disclaim \/ (truth' = truth /\ stmt.kind = "insert")
<1>1. CASE AllRowsDone \/ EvaluationFails
  BY <1>1 DEF AllRowsDone, EvaluationFails, StmtGood
<1>2. CASE RefusedRow
  BY <1>2 DEF RefusedRow, Returned
<1>3. CASE CallFailed
  BY <1>3 DEF CallFailed, Returned
<1>4. CASE Save \/ SaveFails
  BY <1>4 DEF Save, SaveFails, StmtGood
<1> QED
  BY <1>1, <1>2, <1>3, <1>4 DEF Ends

\* However a statement ends, it keeps CallInv.
LEMMA EndsKeep == ASSUME CallInv, Ends PROVE CallInv'
  BY EndsFacts, FinishKeeps DEF CallInv

\* A restart reads the catalog of page 1.
LEMMA CrashKeepsCalls == ASSUME CallInv, Crash PROVE CallInv'
<1> USE DEF CallInv, Crash
<1>1. Inv' /\ LinkedPages \subseteq LinkedPages'
  BY CrashKeeps
<1>2. CatalogGood(mem)' /\ CatalogGood(saved)'
  BY <1>1 DEF CatalogGood
<1>3. crashes' \in 0 .. MaxCrashes
  BY DatabaseAssumption
<1> QED
  BY <1>1, <1>2, <1>3, NoStmtGood

\* CallInv holds at the start.
LEMMA InitCalls == DatabaseInit => CallInv
<1> SUFFICES ASSUME DatabaseInit PROVE CallInv
  OBVIOUS
<1>1. Inv
  BY InitInv DEF DatabaseInit
<1>2. CatalogGood(mem) /\ CatalogGood(saved)
  BY DEF DatabaseInit, CatalogGood
<1>3. StmtGood
  BY DEF DatabaseInit, StmtGood, Init
<1> QED
  BY <1>1, <1>2, <1>3, DatabaseAssumption DEF CallInv, DatabaseInit

\* A step that changes nothing keeps CallInv.
LEMMA UnchangedCalls == ASSUME CallInv, UNCHANGED databaseVars PROVE CallInv'
<1>1. Inv' /\ LinkedPages' = LinkedPages
  BY TreesAlone DEF databaseVars
<1> QED
  BY <1>1 DEF databaseVars, vars, CallInv, CatalogGood, StmtGood, Creating, Calling, Inserting, call

\* The steps of the database, by what they do to the pages and the catalogs.
LEMMA DatabaseSteps ==
  ASSUME [DatabaseNext]_databaseVars
  PROVE  \/ \E t \in Tables : Create(t) \/ CreateFails(t) \/ Drop(t)
         \/ \E t \in Tables, k \in Keys, v \in Vals : Insert(t, k, v)
         \/ \E t \in Tables, keys \in SUBSET Keys, val \in Vals \cup {Absent},
               kind \in {"update", "delete", "select"} :
              ScanAllRows(kind, t, keys, val) /\ (kind = "update" => val \in Vals)
         \/ CallBTree \/ BTreeProceeds \/ TableCreated \/ Scanned \/ CallDone
         \/ Ends \/ Crash \/ UNCHANGED databaseVars
<1>1. ASSUME NEW t \in Tables, Select(t)
      PROVE  ScanAllRows("select", t, Keys, Absent)
  BY <1>1 DEF Select
<1>2. ASSUME NEW t \in Tables, NEW keys \in Wheres, Delete(t, keys)
      PROVE  ScanAllRows("delete", t, keys, Absent) /\ keys \in SUBSET Keys
  BY <1>2, DatabaseAssumption DEF Delete
<1>3. ASSUME NEW t \in Tables, NEW keys \in Wheres, NEW v \in Vals, Update(t, keys, v)
      PROVE  ScanAllRows("update", t, keys, v) /\ keys \in SUBSET Keys
  BY <1>3, DatabaseAssumption DEF Update
<1> QED
  BY <1>1, <1>2, <1>3 DEF DatabaseNext, Ends

\* Every step of the database keeps CallInv.
LEMMA CallsStep == ASSUME CallInv, [DatabaseNext]_databaseVars PROVE CallInv'
<1>1. CASE \E t \in Tables : Create(t) \/ CreateFails(t) \/ Drop(t)
  BY <1>1, CreateKeeps, CreateFailsKeeps, DropKeeps
<1>2. CASE \E t \in Tables, k \in Keys, v \in Vals : Insert(t, k, v)
  BY <1>2, InsertKeeps
<1>3. CASE \E t \in Tables, keys \in SUBSET Keys, val \in Vals \cup {Absent},
               kind \in {"update", "delete", "select"} :
              ScanAllRows(kind, t, keys, val) /\ (kind = "update" => val \in Vals)
  BY <1>3, ScanKeeps
<1>4. CASE CallBTree \/ BTreeProceeds \/ TableCreated \/ Scanned \/ CallDone
  BY <1>4, CallBTreeKeeps, BTreeProceedsKeeps, TableCreatedKeeps, ScannedKeeps, CallDoneKeeps
<1>5. CASE Ends \/ Crash \/ UNCHANGED databaseVars
  BY <1>5, EndsKeep, CrashKeepsCalls, UnchangedCalls
<1> QED
  BY <1>1, <1>2, <1>3, <1>4, <1>5, DatabaseSteps

----------------------------------------------------------------------------
\* What is under a page, where pointers lead downwards

\* A set of pages that no pointer leads out of holds what its pages reach.
LEMMA ReachedWithin ==
  ASSUME NEW m \in [PageNums -> Pages], NEW h \in [PageNums -> Nat], Falling(m, h),
         NEW C, \A p \in PageNums : p \in C => \A i \in Ways(m[p]) : Child(m[p], i) \in C
  PROVE  \A p \in PageNums : p \in C => Range(Preorder(m, p)) \subseteq C
<1> DEFINE Good(p) == p \in C => Range(Preorder(m, p)) \subseteq C
           G == {p \in PageNums : Good(p)}
<1>1. ASSUME NEW p \in PageNums, \A q \in PageNums : h[q] < h[p] => q \in G
      PROVE  p \in G
  <2> SUFFICES ASSUME p \in C PROVE Range(Preorder(m, p)) \subseteq C
    OBVIOUS
  <2>1. <<p>> \in Seq(PageNums) /\ Range(<<p>>) = {p}
    BY DEF Range
  <2>2. CASE m[p].type = "internal"
    <3> DEFINE n == Len(m[p].cells) + 1
               parts == [i \in 1 .. n |-> Preorder(m, Child(m[p], i))]
    <3>1. /\ n \in Nat \ {0} /\ Ways(m[p]) = 1 .. n
          /\ \A i \in 1 .. n : Child(m[p], i) \in PageNums /\ h[Child(m[p], i)] < h[p]
      BY <2>2, FallingPages, WaysFacts
    <3>2. \A i \in 1 .. n : Range(Preorder(m, Child(m[p], i))) \subseteq C
      BY <1>1, <3>1
    <3>3. parts \in [1 .. n -> Seq(PageNums)]
      BY <3>1, PreorderRecursion
    <3>4. Preorder(m, p) = <<p>> \o FlattenSeq(parts)
      BY <2>2, PreorderRecursion
    <3>5. \A i \in 1 .. n : Range(parts[i]) \subseteq C
      BY <3>2
    <3>a. n \in Nat \ {0}
      BY <3>1
    <3> HIDE DEF parts, n
    <3>6. /\ FlattenSeq(parts) \in Seq(PageNums)
          /\ Range(FlattenSeq(parts)) = UNION {Range(parts[i]) : i \in 1 .. n}
      BY <3>a, <3>3, FlattenRange, ZenonT(30)
    <3> DEFINE first == <<p>>
               rest == FlattenSeq(parts)
    <3>7. first \in Seq(PageNums) /\ Range(first) = {p} /\ rest \in Seq(PageNums)
      BY <2>1, <3>6
    <3>8. Preorder(m, p) = first \o rest /\ Range(rest) \subseteq C
      BY <3>4, <3>5, <3>6
    <3> HIDE DEF first, rest
    <3>9. Range(Preorder(m, p)) = {p} \cup Range(rest)
      BY <3>7, <3>8, ConcatRange
    <3> QED
      BY <3>8, <3>9
  <2>3. CASE m[p].type # "internal"
    <3>1. Preorder(m, p) = <<p>>
      BY <2>3, PreorderRecursion
    <3> QED
      BY <2>1, <3>1
  <2> QED
    BY <2>2, <2>3
<1> HIDE DEF G
<1>2. \A p \in PageNums : p \in G
  BY <1>1, RankInduction
<1> QED
  BY <1>2 DEF G

----------------------------------------------------------------------------
\* Every page has a height and belongs to a tree, of which the root page of
\* a table is one: h and c.

\* Where the pointers of page p may lead.
Lower(h, c, p) == {q \in PageNums : h[q] < h[p] /\ c[q] = c[p]}

\* Every pointer leads to a lower page of the same tree.
PagesArranged(m, h, c) == \A p \in PageNums : PointsInto(m[p], Lower(h, c, p))

\* The path of the call goes down inside the tree of its root.
PathArranged(h, c) ==
  /\ pc \in {"descend", "scan", "write", "alloc", "right"} =>
       root # NoPage /\ \A i \in 1 .. Len(path) : c[path[i]] = c[root]
  /\ pc \in {"descend", "write", "alloc", "right"} =>
       /\ path[1] = root
       /\ \A i \in 1 .. Len(path) - 1 : h[path[i + 1]] < h[path[i]]

\* The pages that the pointers of a new root lead to.
OldTop(h, c) == {q \in PageNums : h[q] <= h[root] /\ c[q] = c[root]}

\* So will the pointers of the node in hand, once it is written.
WorkArranged(h, c) ==
  /\ pc \in {"write", "alloc", "right"} => PointsInto(work, Lower(h, c, Last(path)))
  /\ pc = "right" => h[fresh] = h[Last(path)] /\ c[fresh] = c[root]
  /\ pc = "rootalloc" => root # NoPage /\ PointsInto(work, OldTop(h, c))
  /\ pc = "root" => /\ PointsInto(work, Lower(h, c, fresh))
                    /\ root # NoPage => c[fresh] = c[root] /\ h[root] < h[fresh]

\* The heights and trees h and c fit the pages, on disk and buffered, and the call.
Arranged(h, c) ==
  /\ h \in [PageNums -> Nat] /\ c \in [PageNums -> PageNums]
  /\ \A p \in owned : c[p] \in owned
  /\ PagesArranged(view, h, c) /\ PagesArranged(disk, h, c)
  /\ PathArranged(h, c) /\ WorkArranged(h, c)

\* h2 and c2 say of the pages in use what h and c say.
Extends(h, c, h2, c2) == \A p \in owned : h2[p] = h[p] /\ c2[p] = c[p]

\* There are such h and c at the start.
LEMMA InitArranged ==
  ASSUME Init
  PROVE  \E h, c : Arranged(h, c)
<1> DEFINE h == [p \in PageNums |-> 0]
           c == [p \in PageNums |-> p]
<1>1. /\ view = [p \in PageNums |-> Zero] /\ disk = view /\ owned = {} /\ pc = "idle"
  BY DEF Init, Store!Init
<1>2. h \in [PageNums -> Nat] /\ c \in [PageNums -> PageNums]
  OBVIOUS
<1> HIDE DEF h, c
<1>3. PagesArranged(view, h, c)
  BY <1>1 DEF PagesArranged, PointsInto, Zero
<1>4. Arranged(h, c)
  BY <1>1, <1>2, <1>3 DEF Arranged, PathArranged, WorkArranged
<1> QED
  BY <1>4

\* Falling, which the recursive definitions need, is a part of it.
LEMMA ArrangedFalls ==
  ASSUME NEW m \in [PageNums -> Pages], NEW h, NEW c, PagesArranged(m, h, c)
  PROVE  /\ Falling(m, h)
         /\ \A p \in PageNums : \A i \in Ways(m[p]) :
              Child(m[p], i) \in PageNums /\ c[Child(m[p], i)] = c[p]
<1> SUFFICES ASSUME NEW p \in PageNums, NEW i \in Ways(m[p])
             PROVE  Child(m[p], i) \in Lower(h, c, p)
  BY DEF Falling, Lower
<1>1. m[p].type = "internal" /\ m[p] \in RealNodes
  BY PageFacts DEF Ways
<1> QED
  BY <1>1, WaysFacts DEF PagesArranged, PointsInto

\* Nothing is arranged of a call that has returned or panicked.
LEMMA NothingInHand ==
  ASSUME NEW h, NEW c, h \in [PageNums -> Nat], c \in [PageNums -> PageNums],
         \A p \in owned' : c[p] \in owned',
         PagesArranged(view', h, c), PagesArranged(disk', h, c),
         pc' \in {"idle", "panic"}
  PROVE  Arranged(h, c)'
  BY DEF Arranged, PathArranged, WorkArranged

\* A call that returns without writing leaves h and c as they are.
LEMMA ReturnsArranged ==
  ASSUME NEW h, NEW c, Arranged(h, c), UNCHANGED <<view, disk, owned>>,
         pc' \in {"idle", "panic"}
  PROVE  Arranged(h, c)'
  BY NothingInHand DEF Arranged

\* Pages whose pointers are linked, where a page is handed out.
LEMMA AllocArranged ==
  ASSUME Inv, NEW h, NEW c, Arranged(h, c), NEW p \in PageNums, Store!Alloc(p),
         NEW x \in Nat, NEW y \in PageNums, y = p \/ y \in owned,
         NEW h2, h2 = [h EXCEPT ![p] = x], NEW c2, c2 = [c EXCEPT ![p] = y]
  PROVE  /\ h2 \in [PageNums -> Nat] /\ c2 \in [PageNums -> PageNums]
         /\ Extends(h, c, h2, c2) /\ h2[p] = x /\ c2[p] = y
         /\ \A q \in owned' : c2[q] \in owned'
         /\ PagesArranged(view', h2, c2) /\ PagesArranged(disk', h2, c2)
<1>1. /\ h2 \in [PageNums -> Nat] /\ c2 \in [PageNums -> PageNums]
      /\ h2[p] = x /\ c2[p] = y
      /\ \A q \in PageNums \ {p} : h2[q] = h[q] /\ c2[q] = c[q]
  BY DEF Arranged
<1>2. p \notin owned /\ owned' = owned \cup {p} /\ owned \subseteq PageNums
  BY DEF Store!Alloc, Inv, TypeOK, Store!TypeOK
<1>3. Extends(h, c, h2, c2) /\ \A q \in owned' : c2[q] \in owned'
  BY <1>1, <1>2 DEF Extends, Arranged
<1>4. ASSUME NEW m \in [PageNums -> Pages], NEW m2, m2 = [m EXCEPT ![p] = Zero],
             PagesArranged(m, h, c),
             \A q \in PageNums : m[q] # Zero => PointsInto(m[q], LinkedPages)
      PROVE  PagesArranged(m2, h2, c2)
  <2> SUFFICES ASSUME NEW q \in PageNums, m2[q].type = "internal",
                      NEW r \in Children(m2[q])
               PROVE  r \in Lower(h2, c2, q)
    BY DEF PagesArranged, PointsInto
  <2>1. q # p /\ m2[q] = m[q] /\ m[q] # Zero
    BY <1>4 DEF Zero
  <2>2. r \in LinkedPages /\ r \in Lower(h, c, q)
    BY <1>4, <2>1 DEF PagesArranged, PointsInto
  <2>3. r # p
    BY <1>2, <2>2 DEF LinkedPages
  <2> QED
    BY <1>1, <2>1, <2>2, <2>3 DEF Lower
<1>5. /\ view \in [PageNums -> Pages] /\ disk \in [PageNums -> Pages]
      /\ view' = [view EXCEPT ![p] = Zero] /\ disk' = [disk EXCEPT ![p] = Zero]
      /\ PagesArranged(view, h, c) /\ PagesArranged(disk, h, c)
      /\ \A q \in PageNums : view[q] # Zero => PointsInto(view[q], LinkedPages)
      /\ \A q \in PageNums : disk[q] # Zero => PointsInto(disk[q], LinkedPages)
  BY DEF Inv, TypeOK, Store!TypeOK, PagesGood, Arranged, Store!Alloc
<1>6. PagesArranged(view', h2, c2)
  BY <1>4, <1>5
<1>7. PagesArranged(disk', h2, c2)
  BY <1>4, <1>5
<1> QED
  BY <1>1, <1>3, <1>6, <1>7

\* A node is written where its pointers may lead from.
LEMMA WriteArranged ==
  ASSUME Inv, NEW h, NEW c, Arranged(h, c), pc \in {"write", "right", "root"},
         Store!Write(Target, Image) \/ Store!WriteFails(Target, Image)
  PROVE  /\ PagesArranged(view', h, c) /\ PagesArranged(disk', h, c) /\ owned' = owned
<1>1. PointsInto(Image, Lower(h, c, Target))
  <2>1. work \in RealNodes /\ (pc = "right" => Overfull(work))
    BY DEF Inv, WorkGood
  <2>2. PointsInto(work, Lower(h, c, Target))
    <3>1. CASE pc = "write"
      BY <3>1 DEF Arranged, WorkArranged, Target
    <3>2. CASE pc = "root"
      BY <3>2 DEF Arranged, WorkArranged, Target
    <3>3. CASE pc = "right"
      <4>1. path # <<>>
        BY <3>3 DEF Inv, PathGood
      <4>2. c[Last(path)] = c[root]
        BY <3>3, <4>1, PathFacts DEF Arranged, PathArranged
      <4>3. Lower(h, c, fresh) = Lower(h, c, Last(path))
        BY <3>3, <4>2 DEF Arranged, WorkArranged, Lower
      <4> QED
        BY <3>3, <4>3 DEF Arranged, WorkArranged, Target
    <3> QED
      BY <3>1, <3>2, <3>3
  <2>3. \/ Image = work
        \/ Overfull(work) /\ Image \in {LeftHalf(work), RightHalf(work)}
    BY <2>1 DEF Image
  <2> QED
    BY <2>1, <2>2, <2>3, HalfFacts DEF PointsInto
<1>2. PagesArranged(view, h, c) /\ PagesArranged(disk, h, c)
  BY DEF Arranged
<1>3. view \in [PageNums -> Pages] /\ disk \in [PageNums -> Pages]
  BY DEF Inv, TypeOK, Store!TypeOK
<1>4. /\ view' = [view EXCEPT ![Target] = Image] /\ owned' = owned
      /\ disk' = disk \/ disk' = [disk EXCEPT ![Target] = Image]
  BY DEF Store!Write, Store!WriteFails
<1>5. PagesArranged(view', h, c)
  BY <1>1, <1>2, <1>3, <1>4 DEF PagesArranged
<1>6. PagesArranged(disk', h, c)
  BY <1>1, <1>2, <1>3, <1>4 DEF PagesArranged
<1> QED
  BY <1>4, <1>5, <1>6

\* A call that starts has the root as its path.
LEMMA CallArranged ==
  ASSUME Inv, NEW h, NEW c, Arranged(h, c), NEW r \in Requests, Call(r)
  PROVE  Arranged(h, c)'
<1> USE DEF Call
<1>1. path' = <<root>> /\ Len(path') = 1 /\ path'[1] = root /\ root # NoPage
  OBVIOUS
<1>2. PathArranged(h, c)'
  BY <1>1 DEF PathArranged
<1>3. WorkArranged(h, c)'
  BY DEF WorkArranged
<1> QED
  BY <1>2, <1>3 DEF Arranged

\* The first page of a tree is a tree of its own.
LEMMA NewBTreeArranged ==
  ASSUME Inv, NEW h, NEW c, Arranged(h, c), NewBTree
  PROVE  \E h2, c2 : /\ Arranged(h2, c2)' /\ Extends(h, c, h2, c2)
                     /\ fresh' \notin owned /\ c2[fresh'] = fresh'
<1> USE DEF NewBTree
<1>1. PICK p \in Fresh : Allocates(p)
  OBVIOUS
<1>2. p \in PageNums /\ p \notin owned /\ Store!Alloc(p) /\ fresh' = p /\ pc' = "root"
      /\ root' = NoPage
  BY <1>1 DEF Fresh, Allocates
<1> DEFINE h2 == [h EXCEPT ![p] = 0]
           c2 == [c EXCEPT ![p] = p]
<1>3. /\ h2 \in [PageNums -> Nat] /\ c2 \in [PageNums -> PageNums]
      /\ Extends(h, c, h2, c2) /\ h2[p] = 0 /\ c2[p] = p
      /\ \A q \in owned' : c2[q] \in owned'
      /\ PagesArranged(view', h2, c2) /\ PagesArranged(disk', h2, c2)
  BY <1>2, AllocArranged
<1> HIDE DEF h2, c2
<1>4. work'.type = "leaf"
  BY DEF Leaf
<1>5. Arranged(h2, c2)'
  BY <1>2, <1>3, <1>4 DEF Arranged, PathArranged, WorkArranged, PointsInto
<1> QED
  BY <1>2, <1>3, <1>5

\* A step down appends a lower page of the same tree.
LEMMA DescentArranged ==
  ASSUME Inv, NEW h, NEW c, Arranged(h, c), DescendInternal
  PROVE  Arranged(h, c)'
<1> USE DEF DescendInternal
<1> DEFINE node == view[Last(path)]
<1>1. path # <<>> /\ TypeOK /\ pc' = "descend" /\ root' = root
  BY DEF Inv, PathGood
<1>2. /\ Last(path) \in LinkedPages /\ Last(path) = path[Len(path)]
      /\ path \in Seq(PageNums) /\ Len(path) \in Nat \ {0}
  BY <1>1, PathFacts
<1>3. node \in RealNodes /\ node.type = "internal" /\ Last(path) \in PageNums
  BY <1>2, NodeAt
<1>4. PICK i \in 1 .. Len(node.cells) + 1 : path' = Append(path, Child(node, i))
  BY DEF Turns
<1> DEFINE q == Child(node, i)
<1>5. q \in PageNums /\ q \in Lower(h, c, Last(path))
  BY <1>3, <1>4, ChildFacts DEF Arranged, PagesArranged, PointsInto
<1> HIDE DEF node, q
<1>6. /\ path' \in Seq(PageNums) /\ Len(path') = Len(path) + 1
      /\ \A j \in 1 .. Len(path) : path'[j] = path[j]
      /\ path'[Len(path) + 1] = q
  BY <1>2, <1>4, <1>5, AppendProperties DEF q
<1>7. /\ root # NoPage /\ path[1] = root
      /\ \A j \in 1 .. Len(path) : c[path[j]] = c[root]
      /\ \A j \in 1 .. Len(path) - 1 : h[path[j + 1]] < h[path[j]]
  BY DEF Arranged, PathArranged
<1>8. h[q] < h[path[Len(path)]] /\ c[q] = c[root]
  BY <1>2, <1>5, <1>7 DEF Lower
<1>9. path'[1] = root /\ \A j \in 1 .. Len(path') : c[path'[j]] = c[root]
  BY <1>2, <1>6, <1>7, <1>8
<1>10. \A j \in 1 .. Len(path') - 1 : h[path'[j + 1]] < h[path'[j]]
  <2> SUFFICES ASSUME NEW j \in 1 .. Len(path) PROVE h[path'[j + 1]] < h[path'[j]]
    BY <1>2, <1>6
  <2>1. CASE j = Len(path)
    BY <2>1, <1>2, <1>6, <1>8
  <2>2. CASE j # Len(path)
    <3>1. j \in 1 .. Len(path) - 1 /\ j + 1 \in 1 .. Len(path)
      BY <1>2, <2>2
    <3> QED
      BY <1>6, <1>7, <3>1
  <2> QED
    BY <2>1, <2>2
<1>11. PathArranged(h, c)'
  BY <1>1, <1>7, <1>9, <1>10 DEF PathArranged
<1>12. WorkArranged(h, c)'
  BY <1>1 DEF WorkArranged
<1> QED
  BY <1>11, <1>12 DEF Arranged

\* A leaf leads nowhere.
LEMMA LeafArranged ==
  ASSUME Inv, NEW h, NEW c, Arranged(h, c), InsertLeaf \/ DeleteLeaf
  PROVE  Arranged(h, c)'
<1>1. UNCHANGED <<view, disk, owned, root>> /\ pc = "descend"
  BY DEF InsertLeaf, DeleteLeaf
<1>2. CASE pc' = "idle"
  BY <1>1, <1>2, ReturnsArranged
<1>3. CASE pc' # "idle"
  <2>1. pc' = "write" /\ path' = path /\ work'.type = "leaf"
    BY <1>3 DEF InsertLeaf, DeleteLeaf, Return, Leaf
  <2>2. PathArranged(h, c)'
    BY <1>1, <2>1 DEF Arranged, PathArranged
  <2>3. WorkArranged(h, c)'
    BY <2>1 DEF WorkArranged, PointsInto
  <2> QED
    BY <1>1, <2>2, <2>3 DEF Arranged
<1> QED
  BY <1>2, <1>3

\* A scan keeps to the pages of its tree.
LEMMA ScanArranged ==
  ASSUME Inv, NEW h, NEW c, Arranged(h, c), ScanLeaf \/ ScanInternal
  PROVE  Arranged(h, c)'
<1>1. UNCHANGED <<view, disk, owned, root, pc>> /\ pc = "scan" /\ path # <<>>
  BY DEF ScanLeaf, ScanInternal
<1>2. /\ path \in Seq(PageNums) /\ Len(path) \in Nat \ {0} /\ Head(path) = path[1]
      /\ Tail(path) \in Seq(PageNums) /\ Len(Tail(path)) = Len(path) - 1
      /\ \A i \in 1 .. Len(path) - 1 : Tail(path)[i] = path[i + 1]
  BY <1>1, PathFacts, HeadTailProperties
<1>3. root # NoPage /\ \A i \in 1 .. Len(path) : c[path[i]] = c[root]
  BY <1>1 DEF Arranged, PathArranged
<1>4. \A i \in 1 .. Len(Tail(path)) : c[Tail(path)[i]] = c[root]
  BY <1>2, <1>3
<1>5. \A i \in 1 .. Len(path') : c[path'[i]] = c[root]
  <2>1. CASE ScanLeaf
    BY <2>1, <1>4 DEF ScanLeaf
  <2>2. CASE ScanInternal
    <3> DEFINE node == view[Head(path)]
               children == [i \in 1 .. Len(node.cells) + 1 |-> Child(node, i)]
               tail == Tail(path)
    <3>1. /\ node \in RealNodes /\ node.type = "internal" /\ Head(path) \in PageNums
          /\ Len(node.cells) \in Nat
      BY <1>1, <2>2, PathFacts, NodeAt, CellFacts DEF ScanInternal
    <3>2. \A i \in 1 .. Len(node.cells) + 1 :
            Child(node, i) \in PageNums /\ c[Child(node, i)] = c[Head(path)]
      BY <3>1, ChildFacts DEF Arranged, PagesArranged, PointsInto, Lower
    <3>3. path' = children \o tail
      BY <2>2 DEF ScanInternal
    <3>4. Len(node.cells) + 1 \in Nat
      BY <3>1
    <3>5. children \in Seq(PageNums) /\ Len(children) = Len(node.cells) + 1
          /\ \A i \in 1 .. Len(children) : c[children[i]] = c[root]
      <4> HIDE DEF node
      <4>1. children \in Seq(PageNums)
        BY <3>2, <3>4, IsASeq
      <4> QED
        BY <1>2, <1>3, <3>2, <3>4, <4>1, LenProperties
    <3>6. tail \in Seq(PageNums) /\ \A i \in 1 .. Len(tail) : c[tail[i]] = c[root]
      BY <1>2, <1>4
    <3> HIDE DEF children, tail, node
    <3>7. /\ Len(children) \in Nat /\ Len(tail) \in Nat
          /\ Len(path') = Len(children) + Len(tail)
          /\ \A i \in 1 .. Len(children) + Len(tail) :
               path'[i] = IF i <= Len(children) THEN children[i] ELSE tail[i - Len(children)]
      BY <3>3, <3>5, <3>6, ConcatProperties, LenProperties
    <3> SUFFICES ASSUME NEW i \in 1 .. Len(children) + Len(tail)
                 PROVE  c[path'[i]] = c[root]
      BY <3>7
    <3>8. CASE i <= Len(children)
      BY <3>5, <3>7, <3>8
    <3>9. CASE ~(i <= Len(children))
      <4>1. i - Len(children) \in 1 .. Len(tail)
        BY <3>7, <3>9
      <4> QED
        BY <3>6, <3>7, <3>9, <4>1
    <3> QED
      BY <3>8, <3>9
  <2> QED
    BY <2>1, <2>2
<1>6. PathArranged(h, c)' /\ WorkArranged(h, c)'
  BY <1>1, <1>3, <1>5 DEF PathArranged, WorkArranged
<1> QED
  BY <1>1, <1>6 DEF Arranged
\* A node that is written has the pointers that it had in hand.
LEMMA WrittenArranged ==
  ASSUME Inv, NEW h, NEW c, Arranged(h, c), WriteWhole \/ WriteRoot \/ WriteFails
  PROVE  Arranged(h, c)'
<1>1. /\ pc \in {"write", "right", "root"} /\ pc' = "idle"
      /\ Store!Write(Target, Image) \/ Store!WriteFails(Target, Image)
  BY DEF WriteWhole, WriteRoot, WriteFails, WritesImage, Return
<1>2. PagesArranged(view', h, c) /\ PagesArranged(disk', h, c) /\ owned' = owned
  BY <1>1, WriteArranged
<1>3. /\ h \in [PageNums -> Nat] /\ c \in [PageNums -> PageNums]
      /\ \A p \in owned' : c[p] \in owned'
  BY <1>2 DEF Arranged
<1> QED
  BY <1>1, <1>2, <1>3, NothingInHand

\* The left half of a node that splits keeps its pointers.
LEMMA WriteLeftArranged ==
  ASSUME Inv, NEW h, NEW c, Arranged(h, c), WriteLeft
  PROVE  Arranged(h, c)'
<1>1. /\ pc = "write" /\ pc' = "alloc" /\ UNCHANGED <<root, path, work>>
      /\ Store!Write(Target, Image)
  BY DEF WriteLeft, WritesImage
<1>2. PagesArranged(view', h, c) /\ PagesArranged(disk', h, c) /\ owned' = owned
  BY <1>1, WriteArranged
<1>3. PathArranged(h, c)' /\ WorkArranged(h, c)'
  BY <1>1 DEF Arranged, PathArranged, WorkArranged
<1> QED
  BY <1>2, <1>3 DEF Arranged

\* The parent of a page that has split leads to it and to its right half, which
\* is as high as the page.
LEMMA WriteRightArranged ==
  ASSUME Inv, NEW h, NEW c, Arranged(h, c), WriteRight
  PROVE  Arranged(h, c)'
<1>1. /\ pc = "right" /\ root' = root /\ Store!Write(Target, Image) /\ Len(path) > 1
      /\ path # <<>>
  BY DEF WriteRight, WritesImage, Inv, PathGood
<1>2. PagesArranged(view', h, c) /\ PagesArranged(disk', h, c) /\ owned' = owned
  BY <1>1, WriteArranged
<1>3. CASE pc' = "panic"
  BY <1>2, <1>3, NothingInHand DEF Arranged
<1>4. CASE pc' # "panic"
  <2> DEFINE n == Len(path)
             q == path[n - 1]
             parent == view[q]
  <2>1. /\ n \in Nat /\ n > 1 /\ Last(path) = path[n] /\ Last(path) \in PageNums
        /\ path \in Seq(PageNums)
    BY <1>1, PathFacts, NodeAt
  <2>2. /\ Front(path) \in Seq(PageNums) /\ Len(Front(path)) = n - 1
        /\ \A j \in 1 .. n - 1 : Front(path)[j] = path[j]
    BY <1>1, <2>1, FrontFacts
  <2>3. q \in LinkedPages /\ n - 1 \in 1 .. n /\ n - 1 \in 1 .. n - 1 /\ parent.type = "internal"
    BY <1>1, <2>1 DEF Inv, PathGood
  <2>4. q \in PageNums /\ parent \in RealNodes
    BY <2>3, NodeAt
  <2>5. /\ work \in RealNodes /\ Overfull(work) /\ fresh \in PageNums
    BY <1>1 DEF Inv, WorkGood, TypeOK, Store!TypeOK
  <2>6. PromotedKey(work) \in Keys
    BY <2>5, HalfFacts
  <2>7. /\ pc' = "write" /\ path' = Front(path)
        /\ \E i \in Slots(parent.cells, PromotedKey(work)) :
             work' = WithSplitChild(parent, i, PromotedKey(work), Last(path), fresh)
    BY <1>4 DEF WriteRight
  <2>8. PICK i \in 1 .. Len(parent.cells) + 1 :
          work' = WithSplitChild(parent, i, PromotedKey(work), Last(path), fresh)
    BY <2>7 DEF Slots
  <2>9. /\ root # NoPage /\ path[1] = root
        /\ \A j \in 1 .. n : c[path[j]] = c[root]
        /\ \A j \in 1 .. n - 1 : h[path[j + 1]] < h[path[j]]
        /\ h[fresh] = h[Last(path)] /\ c[fresh] = c[root]
    BY <1>1 DEF Arranged, PathArranged, WorkArranged
  <2>10. Last(path) \in Lower(h, c, q) /\ fresh \in Lower(h, c, q)
    <3>1. (n - 1) + 1 = n
      BY <2>1
    <3>2. h[path[n]] < h[q] /\ c[q] = c[root] /\ c[path[n]] = c[root]
      <4>1. h[path[(n - 1) + 1]] < h[path[n - 1]]
        BY <2>3, <2>9
      <4>2. n \in 1 .. n
        BY <2>1
      <4> QED
        BY <2>3, <2>9, <3>1, <4>1, <4>2
    <3> QED
      BY <2>1, <2>5, <2>9, <3>2 DEF Lower
  <2>11. Children(parent) \subseteq Lower(h, c, q)
    BY <2>3, <2>4 DEF Arranged, PagesArranged, PointsInto
  <2> HIDE DEF parent
  <2>12. Children(work') \subseteq Children(parent) \cup {Last(path), fresh}
    BY <2>1, <2>3, <2>4, <2>5, <2>6, <2>8, SplitChildFacts
  <2> HIDE DEF q
  <2>13. PointsInto(work', Lower(h, c, q))
    BY <2>10, <2>11, <2>12 DEF PointsInto
  <2>14. Last(path') = q
    <3>1. Front(path) # <<>>
      BY <2>1, <2>2
    <3> QED
      BY <2>1, <2>2, <2>3, <2>7, <3>1 DEF Last, q
  <2>15. PathArranged(h, c)'
    <3>1. \A j \in 1 .. n - 1 : c[path'[j]] = c[root] /\ j \in 1 .. n
      BY <2>1, <2>2, <2>7, <2>9
    <3>2. path'[1] = root
      BY <2>1, <2>2, <2>7, <2>9
    <3>3. \A j \in 1 .. (n - 1) - 1 : h[path'[j + 1]] < h[path'[j]]
      <4> SUFFICES ASSUME NEW j \in 1 .. (n - 1) - 1 PROVE h[path'[j + 1]] < h[path'[j]]
        OBVIOUS
      <4>1. j \in 1 .. n - 1 /\ j + 1 \in 1 .. n - 1
        BY <2>1
      <4> QED
        BY <2>2, <2>7, <2>9, <4>1
    <3>4. Len(path') = n - 1 /\ root' # NoPage
      BY <1>1, <2>2, <2>7, <2>9
    <3> HIDE DEF n
    <3> QED
      BY <1>1, <2>7, <3>1, <3>2, <3>3, <3>4 DEF PathArranged
  <2>16. WorkArranged(h, c)'
    BY <2>7, <2>13, <2>14 DEF WorkArranged
  <2> QED
    BY <1>2, <2>15, <2>16 DEF Arranged
<1> QED
  BY <1>3, <1>4

\* The right half of a root that splits gets the height of the root.
LEMMA WriteRightOfRootArranged ==
  ASSUME Inv, NEW h, NEW c, Arranged(h, c), WriteRightOfRoot
  PROVE  Arranged(h, c)'
<1>1. /\ pc = "right" /\ pc' = "rootalloc" /\ root' = root /\ Store!Write(Target, Image)
      /\ work' = Internal(<<[child |-> Last(path), key |-> PromotedKey(work)]>>, fresh)
      /\ Len(path) = 1 /\ path # <<>>
  BY DEF WriteRightOfRoot, WritesImage, Inv, PathGood
<1>2. PagesArranged(view', h, c) /\ PagesArranged(disk', h, c) /\ owned' = owned
  BY <1>1, WriteArranged
<1>3. /\ work \in RealNodes /\ Overfull(work) /\ fresh \in PageNums
  BY <1>1 DEF Inv, WorkGood, TypeOK, Store!TypeOK
<1>4. /\ root # NoPage /\ Last(path) = root /\ Last(path) \in PageNums
      /\ h[fresh] = h[Last(path)] /\ c[fresh] = c[root]
  BY <1>1, PathFacts, NodeAt DEF Arranged, PathArranged, WorkArranged
<1>5. Last(path) \in OldTop(h, c) /\ fresh \in OldTop(h, c)
  <2>1. h[root] \in Nat
    BY <1>4 DEF Arranged
  <2> QED
    BY <1>3, <1>4, <2>1 DEF OldTop
<1>6. PointsInto(work', OldTop(h, c))
  <2>1. PromotedKey(work) \in Keys
    BY <1>3, HalfFacts
  <2>2. /\ work' \in RealNodes /\ work'.type = "internal" /\ Ways(work') = {1, 2}
        /\ Child(work', 1) = Last(path) /\ Child(work', 2) = fresh
    BY <1>1, <1>3, <1>4, <2>1, RootShape
  <2>3. Children(work') = {Child(work', i) : i \in {1, 2}}
    BY <2>2, WaysFacts
  <2> QED
    BY <1>5, <2>2, <2>3 DEF PointsInto
<1>7. OldTop(h, c)' = OldTop(h, c)
  BY <1>1 DEF OldTop
<1>8. PathArranged(h, c)' /\ WorkArranged(h, c)'
  BY <1>1, <1>4, <1>6, <1>7 DEF PathArranged, WorkArranged
<1> QED
  BY <1>2, <1>8 DEF Arranged

\* The right half is as high as the page, a new root is higher than the old one.
LEMMA AllocateArranged ==
  ASSUME Inv, NEW h, NEW c, Arranged(h, c), AllocateRight \/ AllocateRoot
  PROVE  \E h2, c2 : Arranged(h2, c2)' /\ Extends(h, c, h2, c2)
<1>1. PICK p \in Fresh : Allocates(p)
  BY DEF AllocateRight, AllocateRoot
<1>2. /\ p \in PageNums /\ p \notin owned /\ Store!Alloc(p) /\ fresh' = p
      /\ UNCHANGED <<root, path, work>>
      /\ \/ pc = "alloc" /\ pc' = "right"
         \/ pc = "rootalloc" /\ pc' = "root"
  BY <1>1 DEF Fresh, Allocates, AllocateRight, AllocateRoot
<1>3. path # <<>> /\ root # NoPage
  BY <1>2 DEF Inv, PathGood, Arranged, PathArranged, WorkArranged
<1>4. root \in LinkedPages /\ root \in owned /\ root \in PageNums
  BY <1>3, NodeAt DEF Inv, PathGood
<1>5. Last(path) \in PageNums /\ Last(path) \in owned
  BY <1>3, PathFacts, NodeAt
<1>6. h[root] \in Nat /\ h[Last(path)] \in Nat /\ c[root] \in PageNums /\ c[root] \in owned
  BY <1>4, <1>5 DEF Arranged
<1>7. PICK x \in Nat : x = IF pc = "alloc" THEN h[Last(path)] ELSE h[root] + 1
  BY <1>6
<1>a. PICK y \in PageNums : y = c[root] /\ y \in owned
  BY <1>6
<1> DEFINE h2 == [h EXCEPT ![p] = x]
           c2 == [c EXCEPT ![p] = y]
<1>8. /\ h2 \in [PageNums -> Nat] /\ c2 \in [PageNums -> PageNums]
      /\ Extends(h, c, h2, c2) /\ h2[p] = x /\ c2[p] = c[root]
      /\ \A q \in owned' : c2[q] \in owned'
      /\ PagesArranged(view', h2, c2) /\ PagesArranged(disk', h2, c2)
  <2>1. /\ h2 \in [PageNums -> Nat] /\ c2 \in [PageNums -> PageNums]
        /\ Extends(h, c, h2, c2) /\ h2[p] = x /\ c2[p] = y
        /\ \A q \in owned' : c2[q] \in owned'
        /\ PagesArranged(view', h2, c2) /\ PagesArranged(disk', h2, c2)
    <3>1. p \in PageNums /\ Store!Alloc(p) /\ x \in Nat /\ y \in PageNums /\ (y = p \/ y \in owned)
      BY <1>2, <1>a
    <3> QED
      BY <3>1, AllocArranged
  <2> QED
    BY <1>a, <2>1
<1> HIDE DEF h2, c2
<1>9. h2[root] = h[root] /\ c2[root] = c[root] /\ h2[Last(path)] = h[Last(path)]
      /\ c2[Last(path)] = c[Last(path)]
  BY <1>4, <1>5, <1>8 DEF Extends
<1>10. \A i \in 1 .. Len(path) : h2[path[i]] = h[path[i]] /\ c2[path[i]] = c[path[i]]
  BY <1>8 DEF Inv, PathGood, LinkedPages, Extends
<1>11. \A q \in LinkedPages : q \in PageNums /\ h2[q] = h[q] /\ c2[q] = c[q]
  BY <1>8, NodeAt DEF Extends
<1>12. work \in RealNodes /\ PointsInto(work, LinkedPages)
  BY <1>2 DEF Inv, WorkGood
<1>13. CASE pc = "alloc"
  <2>1. pc' = "right" /\ x = h[Last(path)]
    BY <1>2, <1>7, <1>13
  <2>2. /\ PointsInto(work, Lower(h, c, Last(path)))
        /\ path[1] = root
        /\ \A i \in 1 .. Len(path) : c[path[i]] = c[root]
        /\ \A i \in 1 .. Len(path) - 1 : h[path[i + 1]] < h[path[i]]
    BY <1>13 DEF Arranged, PathArranged, WorkArranged
  <2>3. PointsInto(work, Lower(h2, c2, Last(path)))
    BY <1>9, <1>11, <1>12, <2>2 DEF PointsInto, Lower
  <2>4. PathArranged(h2, c2)'
    <3>1. \A i \in 1 .. Len(path) : c2[path[i]] = c2[root]
      BY <1>9, <1>10, <2>2
    <3>2. \A i \in 1 .. Len(path) - 1 : h2[path[i + 1]] < h2[path[i]]
      <4> SUFFICES ASSUME NEW i \in 1 .. Len(path) - 1 PROVE h2[path[i + 1]] < h2[path[i]]
        OBVIOUS
      <4>1. i \in 1 .. Len(path) /\ i + 1 \in 1 .. Len(path)
        BY <1>3, PathFacts
      <4> QED
        BY <1>10, <2>2, <4>1
    <3> QED
      BY <1>2, <1>3, <2>1, <2>2, <3>1, <3>2 DEF PathArranged
  <2>5. WorkArranged(h2, c2)'
    BY <1>2, <1>8, <1>9, <2>1, <2>3 DEF WorkArranged
  <2> QED
    BY <1>8, <2>4, <2>5 DEF Arranged
<1>14. CASE pc = "rootalloc"
  <2>1. pc' = "root" /\ x = h[root] + 1
    BY <1>2, <1>7, <1>14
  <2>2. PointsInto(work, OldTop(h, c))
    BY <1>14 DEF Arranged, WorkArranged
  <2>3. PointsInto(work, Lower(h2, c2, p))
    <3> SUFFICES ASSUME work.type = "internal", NEW r \in Children(work)
                 PROVE  r \in Lower(h2, c2, p)
      BY DEF PointsInto
    <3>1. r \in LinkedPages /\ r \in OldTop(h, c)
      BY <1>12, <2>2 DEF PointsInto
    <3>2. r \in PageNums /\ h[r] <= h[root] /\ c[r] = c[root] /\ h[r] \in Nat
      BY <3>1 DEF OldTop, Arranged
    <3>3. h2[r] = h[r] /\ c2[r] = c[r]
      BY <1>11, <3>1
    <3>4. h2[r] < h2[p]
      BY <1>6, <1>8, <2>1, <3>2, <3>3
    <3> QED
      BY <1>8, <3>2, <3>3, <3>4 DEF Lower
  <2>4. PathArranged(h2, c2)'
    BY <2>1 DEF PathArranged
  <2>5. h2[root] < h2[p]
    BY <1>6, <1>8, <1>9, <2>1
  <2>6. WorkArranged(h2, c2)'
    BY <1>2, <1>8, <1>9, <2>1, <2>3, <2>5 DEF WorkArranged
  <2> QED
    BY <1>8, <2>4, <2>6 DEF Arranged
<1> QED
  BY <1>2, <1>13, <1>14

\* A tree keeps its pages to itself.
LEMMA ProceedArranged ==
  ASSUME Inv, NEW h, NEW c, Arranged(h, c), Proceed
  PROVE  \E h2, c2 : Arranged(h2, c2)' /\ Extends(h, c, h2, c2)
<1>1. Extends(h, c, h, c)
  BY DEF Extends
<1>2. CASE SearchLeaf \/ ScanReturns \/ ReadFails \/ AllocateFails
  <2>1. UNCHANGED <<view, disk, owned>> /\ pc' = "idle"
    BY <1>2 DEF SearchLeaf, ScanReturns, ReadFails, AllocateFails, Return
  <2> QED
    BY <1>1, <2>1, ReturnsArranged
<1>3. CASE ReadPanics \/ WritePanics
  <2>1. UNCHANGED <<view, disk, owned>> /\ pc' = "panic"
    BY <1>3 DEF ReadPanics, WritePanics, Panics
  <2> QED
    BY <1>1, <2>1, ReturnsArranged
<1>4. CASE DescendInternal \/ InsertLeaf \/ DeleteLeaf \/ ScanLeaf \/ ScanInternal
  BY <1>1, <1>4, DescentArranged, LeafArranged, ScanArranged
<1>5. CASE WriteWhole \/ WriteRoot \/ WriteFails \/ WriteLeft \/ WriteRight \/ WriteRightOfRoot
  BY <1>1, <1>5, WrittenArranged, WriteLeftArranged, WriteRightArranged, WriteRightOfRootArranged
<1>6. CASE AllocateRight \/ AllocateRoot
  BY <1>6, AllocateArranged
<1> QED
  BY <1>2, <1>3, <1>4, <1>5, <1>6 DEF Proceed

----------------------------------------------------------------------------
\* The trees of the tables are apart

\* No two tables share a tree, in memory, on page 1 or across.
TablesApart(c) ==
  \A a \in {mem, saved} : \A b \in {mem, saved} : \A t \in Tables : \A u \in Tables :
    t # u /\ a[t] # NoTable /\ b[u] # NoTable => c[a[t].root] # c[b[u].root]

\* The tree that a CREATE is making is no table's and has no rows.
NewTreeApart(c, p) ==
  /\ p \in owned
  /\ \A a \in {mem, saved} : \A u \in Tables : a[u] # NoTable => c[a[u].root] # c[p]
  /\ \A q \in owned : c[q] = c[p] => view[q].cells = <<>>

\* A statement works on the tree of its table, or on one that is no table's yet.
StmtApart(c) ==
  stmt # NoStmt =>
    /\ stmt.kind = "create" /\ stmt.phase = "wait" =>
         /\ \A p \in {root, fresh} \ {NoPage} : NewTreeApart(c, p)
         /\ pc = "root" => work.cells = <<>>
    /\ stmt.kind \notin {"create", "drop"} => c[root] = c[mem[stmt.table].root]

\* The tables and the statement in progress have trees of their own.
Apart(c) == TablesApart(c) /\ StmtApart(c)

\* Every table of a catalog has the tree that it had, in memory or on page 1.
TreesFrom(new, c, c2) ==
  \A t \in Tables : new[t] # NoTable =>
    \E a \in {mem, saved} : a[t] # NoTable /\ c2[new[t].root] = c[a[t].root]

\* All roots are pages in use.
LEMMA RootsOwned ==
  ASSUME CallInv
  PROVE  /\ \A a \in {mem, saved} : \A t \in Tables : a[t] # NoTable => a[t].root \in owned
         /\ root # NoPage => root \in owned
         /\ pc = "root" => fresh \in owned
  BY DEF CallInv, CatalogGood, LinkedPages, Inv, PathGood, WorkGood

\* h2 and c2 give every table the tree that it had.
LEMMA TreesStay ==
  ASSUME CallInv, NEW h, NEW c, NEW h2, NEW c2, Extends(h, c, h2, c2)
  PROVE  TreesFrom(mem, c, c2) /\ TreesFrom(saved, c, c2)
  BY RootsOwned DEF Extends, TreesFrom

\* Catalogs with no other trees than before keep their tables apart.
LEMMA TablesStayApart ==
  ASSUME NEW c, NEW c2, TablesApart(c), TreesFrom(mem', c, c2), TreesFrom(saved', c, c2)
  PROVE  TablesApart(c2)'
<1> SUFFICES ASSUME NEW a \in {mem', saved'}, NEW b \in {mem', saved'},
                    NEW t \in Tables, NEW u \in Tables,
                    t # u, a[t] # NoTable, b[u] # NoTable
             PROVE  c2[a[t].root] # c2[b[u].root]
  BY DEF TablesApart
<1>1. PICK a0 \in {mem, saved} : a0[t] # NoTable /\ c2[a[t].root] = c[a0[t].root]
  BY DEF TreesFrom
<1>2. PICK b0 \in {mem, saved} : b0[u] # NoTable /\ c2[b[u].root] = c[b0[u].root]
  BY DEF TreesFrom
<1> QED
  BY <1>1, <1>2 DEF TablesApart

\* Nothing is to be shown of a statement that is not there.
LEMMA NoStmtApart == ASSUME NEW c, stmt' = NoStmt PROVE StmtApart(c)'
  BY DEF StmtApart

\* h and c say what they say.
LEMMA ExtendsItself == ASSUME NEW h, NEW c PROVE Extends(h, c, h, c)
  BY DEF Extends

\* The page of a new tree is in the tree of no table.
LEMMA CreateApart ==
  ASSUME CallInv, NEW h, NEW c, Arranged(h, c), Apart(c), NEW t \in Tables, Create(t),
         NEW h2, NEW c2, Extends(h, c, h2, c2), fresh' \notin owned, c2[fresh'] = fresh'
  PROVE  Apart(c2)'
<1> USE DEF Create, Apart
<1>1. TablesApart(c2)'
  BY TreesStay, TablesStayApart
<1>2. PICK p \in Fresh : Allocates(p)
  BY DEF NewBTree
<1>3. /\ p \in PageNums /\ p \notin owned /\ fresh' = p /\ owned' = owned \cup {p}
      /\ view' = [view EXCEPT ![p] = Zero]
  BY <1>2 DEF Fresh, Allocates, Store!Alloc
<1>4. root' = NoPage /\ pc' = "root" /\ work' = Leaf(<<>>)
  BY DEF NewBTree
<1>5. NewTreeApart(c2, p)'
  <2>1. \A a \in {mem, saved} : \A u \in Tables : a[u] # NoTable =>
          c2[a[u].root] \in owned
    BY RootsOwned DEF Extends, Arranged
  <2>2. \A q \in owned' : c2[q] = p => q = p
    BY <1>3 DEF Extends, Arranged
  <2>3. view'[p].cells = <<>>
    BY <1>3 DEF CallInv, Inv, TypeOK, Store!TypeOK, Zero
  <2> QED
    BY <1>3, <2>1, <2>2, <2>3 DEF NewTreeApart
<1>6. StmtApart(c2)'
  BY <1>3, <1>4, <1>5 DEF StmtApart, Leaf
<1> QED
  BY <1>1, <1>6

\* The first page of a tree is written, or not.
LEMMA FirstPageWritten ==
  ASSUME Inv, Proceed, pc = "root"
  PROVE  /\ fresh' \in {fresh, NoPage} /\ root' \in {root, fresh} /\ pc' # "root"
         /\ owned' = owned /\ view' \in {view, [view EXCEPT ![fresh] = work]}
<1>1. WriteRoot \/ WriteFails \/ WritePanics
  BY DEF Proceed, DescendInternal, SearchLeaf, InsertLeaf, DeleteLeaf, ScanLeaf, ScanInternal,
     ScanReturns, WriteWhole, WriteLeft, AllocateRight, WriteRight, WriteRightOfRoot,
     AllocateRoot, ReadFails, AllocateFails, ReadPanics
<1>2. Target = fresh /\ Image = work
  BY DEF Target, Image
<1> QED
  BY <1>1, <1>2 DEF WriteRoot, WriteFails, WritePanics, WritesImage, Return, Panics, call,
     Store!Write, Store!WriteFails

\* A call takes only fresh pages into its tree.
LEMMA ProceedApart ==
  ASSUME CallInv, NEW h, NEW c, Arranged(h, c), Apart(c), BTreeProceeds,
         NEW h2, NEW c2, Extends(h, c, h2, c2)
  PROVE  Apart(c2)'
<1> USE DEF BTreeProceeds, Apart
<1>1. TablesApart(c2)'
  BY TreesStay, TablesStayApart
<1>2. stmt # NoStmt /\ stmt \in Stmts /\ stmt.phase = "wait" /\ stmt.table \in Tables /\ Inv
  BY ProceedFacts, StmtFacts DEF CallInv, StmtGood
<1>3. CASE stmt.kind = "create"
  <2>1. pc = "root" /\ root = NoPage
    BY <1>2, <1>3, ProceedFacts DEF CallInv, StmtGood, Creating
  <2>2. fresh \in owned /\ fresh # NoPage /\ fresh \in PageNums /\ view \in [PageNums -> Pages]
    BY <1>2, <2>1, BTreeAssumption DEF Inv, TypeOK, Store!TypeOK, WorkGood, NoPage
  <2>3. NewTreeApart(c, fresh) /\ work.cells = <<>>
    BY <1>2, <1>3, <2>1, <2>2 DEF StmtApart
  <2>4. /\ fresh' \in {fresh, NoPage} /\ root' \in {root, fresh} /\ pc' # "root"
        /\ owned' = owned /\ view' \in {view, [view EXCEPT ![fresh] = work]}
    BY <1>2, <2>1, FirstPageWritten
  <2>5. \A p : p = fresh => NewTreeApart(c2, p)'
    <3>1. \A a \in {mem, saved} : \A u \in Tables : a[u] # NoTable => c2[a[u].root] # c2[fresh]
      BY <2>2, <2>3, RootsOwned DEF NewTreeApart, Extends
    <3>2. \A q \in owned : c2[q] = c2[fresh] => view'[q].cells = <<>>
      <4> SUFFICES ASSUME NEW q \in owned, c2[q] = c2[fresh] PROVE view'[q].cells = <<>>
        OBVIOUS
      <4>1. view[q].cells = <<>> /\ q \in PageNums
        BY <1>2, <2>2, <2>3 DEF NewTreeApart, Extends, Inv, TypeOK, Store!TypeOK
      <4>2. view'[q] = view[q] \/ view'[q] = work
        BY <2>2, <2>4, <4>1
      <4> QED
        BY <2>3, <4>1, <4>2
    <3>3. \A p : p = fresh => NewTreeApart(c2, p)'
      BY <2>2, <2>4, <3>1, <3>2 DEF NewTreeApart
    <3> QED
      BY <3>3
  <2> QED
    BY <1>1, <1>3, <2>1, <2>4, <2>5 DEF StmtApart
<1>4. CASE stmt.kind \notin {"create", "drop"}
  <2>1. Calling
    BY <1>2, <1>4 DEF CallInv, StmtGood
  <2>2. root # NoPage /\ root \in owned /\ mem[stmt.table].root \in owned
    BY <1>2, <2>1, RootsOwned DEF Calling
  <2>3. c[root] = c[mem[stmt.table].root]
    BY <1>2, <1>4 DEF StmtApart
  <2>4. root' = root \/ (root' = fresh /\ fresh \in owned /\ c[fresh] = c[root])
    BY <2>2, ProceedFacts, RootsOwned DEF Arranged, WorkArranged
  <2>5. c2[root'] = c2[mem[stmt.table].root]
    BY <2>2, <2>3, <2>4 DEF Extends
  <2> QED
    BY <1>1, <1>4, <2>5 DEF StmtApart
<1>5. CASE stmt.kind = "drop"
  BY <1>1, <1>5 DEF StmtApart
<1> QED
  BY <1>1, <1>3, <1>4, <1>5

\* A table less keeps the others apart.
LEMMA DropApart ==
  ASSUME CallInv, NEW c, Apart(c), NEW t \in Tables, Drop(t)
  PROVE  Apart(c)'
<1> USE DEF Drop, Apart
<1>1. \A u \in Tables : mem'[u] # NoTable => mem'[u] = mem[u]
  BY DEF CallInv, CatalogGood
<1>2. TreesFrom(mem', c, c) /\ TreesFrom(saved', c, c)
  BY <1>1 DEF TreesFrom
<1>3. stmt'.kind = "drop"
  OBVIOUS
<1> QED
  BY <1>2, <1>3, TablesStayApart DEF StmtApart

\* A statement that loads the tree of its table works on that tree.
LEMMA LoadApart ==
  ASSUME CallInv, NEW c, Apart(c), NEW t \in Tables, LoadBTree(t), saved' = saved,
         mem' = mem \/ mem' = [mem EXCEPT ![t].next = @ + 1],
         NEW kind \in {"insert", "update", "delete", "select"}, NEW keys, NEW val, NEW todo,
         Begin(kind, t, keys, val, todo)
  PROVE  Apart(c)'
<1> USE DEF LoadBTree, Apart
<1>1. /\ \A u \in Tables : mem'[u] # NoTable => mem[u] # NoTable /\ mem'[u].root = mem[u].root
      /\ mem'[t].root = mem[t].root
  BY DEF CallInv, CatalogGood, Infos
<1>2. TreesFrom(mem', c, c) /\ TreesFrom(saved', c, c)
  BY <1>1 DEF TreesFrom
<1>3. stmt'.kind = kind /\ stmt'.table = t
  BY DEF Begin
<1>4. StmtApart(c)'
  BY <1>1, <1>3 DEF StmtApart
<1> QED
  BY <1>2, <1>4, TablesStayApart

\* The statement goes on with the tree that it has.
LEMMA SameTreeApart ==
  ASSUME CallInv, NEW c, Apart(c), CallBTree \/ Scanned
  PROVE  Apart(c)'
<1> USE DEF Apart
<1>1. /\ stmt # NoStmt /\ stmt \in Stmts /\ stmt.todo # <<>>
      /\ UNCHANGED <<root, mem, saved>>
  BY DEF CallBTree, Scanned, Returned, vars, Call, CallInv, StmtGood
<1>2. stmt.kind \notin {"create", "drop"}
  BY <1>1, StmtFacts DEF CallInv, StmtGood, Creating, CallBTree, Scanned, Returned
<1>3. stmt'.kind = stmt.kind /\ stmt'.table = stmt.table
  BY <1>1 DEF CallBTree, Scanned, Stmts
<1>4. TreesFrom(mem', c, c) /\ TreesFrom(saved', c, c)
  BY <1>1 DEF TreesFrom
<1>5. StmtApart(c)'
  BY <1>1, <1>2, <1>3 DEF StmtApart
<1> QED
  BY <1>4, <1>5, TablesStayApart

\* The new tree becomes the tree of its table.
LEMMA TableCreatedApart ==
  ASSUME CallInv, NEW c, Apart(c), TableCreated
  PROVE  Apart(c)'
<1> USE DEF TableCreated, Returned, Apart
<1>1. stmt \in Stmts /\ stmt.table \in Tables /\ root # NoPage
  BY StmtFacts DEF CallInv, StmtGood, Creating
<1>2. NewTreeApart(c, root)
  BY <1>1 DEF StmtApart
<1> DEFINE t == stmt.table
<1>3. /\ \A u \in Tables \ {t} : mem'[u] = mem[u]
      /\ mem'[t].root = root /\ saved' = saved
  BY <1>1 DEF CallInv, CatalogGood
<1> HIDE DEF TableCreated, Returned
<1>4. TablesApart(c)'
  <2> SUFFICES ASSUME NEW a \in {mem', saved'}, NEW b \in {mem', saved'},
                      NEW u \in Tables, NEW v \in Tables,
                      u # v, a[u] # NoTable, b[v] # NoTable
               PROVE  c[a[u].root] # c[b[v].root]
    BY DEF TablesApart
  <2> DEFINE Old(x, w) == \E d \in {mem, saved} : d[w] # NoTable /\ c[d[w].root] = c[x[w].root]
  <2>1. Old(a, u) \/ (u = t /\ c[a[u].root] = c[root])
    BY <1>3
  <2>2. Old(b, v) \/ (v = t /\ c[b[v].root] = c[root])
    BY <1>3
  <2>3. CASE Old(a, u) /\ Old(b, v)
    BY <2>3 DEF TablesApart
  <2>4. CASE Old(a, u) /\ v = t /\ c[b[v].root] = c[root]
    BY <1>2, <2>4 DEF NewTreeApart
  <2>5. CASE Old(b, v) /\ u = t /\ c[a[u].root] = c[root]
    BY <1>2, <2>5 DEF NewTreeApart
  <2> QED
    BY <2>1, <2>2, <2>3, <2>4, <2>5
<1>5. stmt'.kind = "create" /\ stmt'.phase = "save"
  BY <1>1 DEF Stmts, TableCreated
<1> QED
  BY <1>4, <1>5 DEF StmtApart

\* The new root of a table is in the tree that the table had.
LEMMA CallDoneApart ==
  ASSUME CallInv, NEW c, Apart(c), CallDone
  PROVE  Apart(c)'
<1> USE DEF CallDone, Returned, Apart
<1>1. /\ stmt \in Stmts /\ stmt.table \in Tables /\ stmt.kind \notin {"create", "drop"}
      /\ mem[stmt.table] # NoTable /\ root' = root /\ saved' = saved
  BY StmtFacts DEF CallInv, StmtGood, Creating, Calling, vars
<1>2. c[root] = c[mem[stmt.table].root]
  BY <1>1 DEF StmtApart
<1>3. stmt'.kind = stmt.kind /\ stmt'.table = stmt.table
  BY <1>1 DEF Stmts
<1>4. /\ \A u \in Tables \ {stmt.table} : mem'[u] = mem[u]
      /\ mem'[stmt.table].root \in {mem[stmt.table].root, root}
  BY <1>1 DEF CallInv, CatalogGood, Infos
<1>5. TreesFrom(mem', c, c) /\ TreesFrom(saved', c, c)
  BY <1>1, <1>2, <1>4 DEF TreesFrom
<1>6. StmtApart(c)'
  BY <1>1, <1>2, <1>3, <1>4 DEF StmtApart
<1> QED
  BY <1>5, <1>6, TablesStayApart

\* No statement is left, and page 1 gets the trees that are apart in memory.
LEMMA EndsApart ==
  ASSUME CallInv, NEW c, Apart(c), Ends \/ Crash \/ (\E t \in Tables : CreateFails(t))
  PROVE  Apart(c)'
<1> USE DEF Apart
<1>1. stmt' = NoStmt /\ mem' \in {mem, saved} /\ saved' \in {mem, saved}
  BY EndsFacts DEF CallInv, Finish, Crash, CreateFails, Ready
<1>2. TreesFrom(mem', c, c) /\ TreesFrom(saved', c, c)
  BY <1>1 DEF TreesFrom
<1> QED
  BY <1>1, <1>2, NoStmtApart, TablesStayApart

----------------------------------------------------------------------------
\* The rows that the history holds

\* The rows of a table: a value, or none, for every key.
RowMaps == [Keys -> Vals \cup {Absent}]

\* Every table in memory has rows, but one that a CREATE has not yet saved.
TruthGood ==
  /\ truth \in [Tables -> RowMaps \cup {NoTable}]
  /\ \A t \in Tables :
       mem[t] # NoTable /\ ~(stmt # NoStmt /\ stmt.kind = "create" /\ stmt.table = t) =>
         truth[t] \in RowMaps

\* The rows that the pages hold for a catalog are rows for every table of it.
LEMMA ContentsTyped ==
  ASSUME NEW m \in [PageNums -> Pages], NEW h \in [PageNums -> Nat], Falling(m, h),
         NEW cat \in [Tables -> Infos \cup {NoTable}]
  PROVE  /\ Contents(m, cat) \in [Tables -> RowMaps \cup {NoTable}]
         /\ \A t \in Tables : cat[t] # NoTable => Contents(m, cat)[t] \in RowMaps
<1> DEFINE TableOf(rows) ==
             [k \in Keys |-> IF \E i \in DOMAIN rows : rows[i].key = k
                             THEN rows[CHOOSE i \in DOMAIN rows : rows[i].key = k].value
                             ELSE Absent]
<1>1. ASSUME NEW rows \in Seq(LeafCells) PROVE TableOf(rows) \in RowMaps
  <2> SUFFICES ASSUME NEW k \in Keys, \E i \in DOMAIN rows : rows[i].key = k
               PROVE  rows[CHOOSE i \in DOMAIN rows : rows[i].key = k].value \in Vals
    BY DEF RowMaps
  <2>1. (CHOOSE i \in DOMAIN rows : rows[i].key = k) \in DOMAIN rows
    OBVIOUS
  <2>2. \A i \in DOMAIN rows : rows[i] \in LeafCells
    OBVIOUS
  <2> QED
    BY <2>1, <2>2 DEF LeafCells
<1> HIDE DEF TableOf
<1>2. \A t \in Tables : cat[t] # NoTable =>
        /\ RowsUnder(m, cat[t].root) \in Seq(LeafCells)
        /\ Contents(m, cat)[t] = TableOf(RowsUnder(m, cat[t].root))
  <2>1. \A t \in Tables : cat[t] # NoTable => cat[t].root \in PageNums
    BY DEF Infos
  <2>2. \A p \in PageNums : RowsUnder(m, p) \in Seq(LeafCells)
    BY RowsRecursion
  <2> QED
    BY <2>1, <2>2 DEF Contents, TableOf
<1>3. \A t \in Tables : cat[t] # NoTable => Contents(m, cat)[t] \in RowMaps
  BY <1>1, <1>2
<1>4. \A t \in Tables : cat[t] = NoTable => Contents(m, cat)[t] = NoTable
  BY DEF Contents
<1>5. Contents(m, cat) = [t \in Tables |-> Contents(m, cat)[t]]
  BY DEF Contents
<1> QED
  BY <1>3, <1>4, <1>5

\* The history stays while the tables in memory stay.
LEMMA TruthKept ==
  ASSUME CallInv, TruthGood, truth' = truth,
         \A t \in Tables : mem'[t] # NoTable =>
           \/ mem[t] # NoTable /\ (stmt # NoStmt => stmt.kind # "create" \/ stmt.table # t)
           \/ stmt' # NoStmt /\ stmt'.kind = "create" /\ stmt'.table = t
  PROVE  TruthGood'
  BY DEF TruthGood

\* The rows become those that are found in the trees of a catalog.
LEMMA TruthFound ==
  ASSUME CallInv, NEW h, NEW c, Arranged(h, c),
         \/ truth' = Contents(view, mem) /\ mem' = mem
         \/ truth' = Contents(disk, saved) /\ mem' = saved
  PROVE  TruthGood'
<1>1. /\ view \in [PageNums -> Pages] /\ disk \in [PageNums -> Pages]
      /\ mem \in [Tables -> Infos \cup {NoTable}] /\ saved \in [Tables -> Infos \cup {NoTable}]
  BY DEF CallInv, CatalogGood, Inv, TypeOK, Store!TypeOK
<1>2. h \in [PageNums -> Nat] /\ Falling(view, h) /\ Falling(disk, h)
  BY <1>1, ArrangedFalls DEF Arranged
<1>3. CASE truth' = Contents(view, mem) /\ mem' = mem
  BY <1>1, <1>2, <1>3, ContentsTyped DEF TruthGood
<1>4. CASE truth' = Contents(disk, saved) /\ mem' = saved
  BY <1>1, <1>2, <1>4, ContentsTyped DEF TruthGood
<1> QED
  BY <1>3, <1>4

\* An acknowledged statement puts the rows of the pages into the history.
LEMMA TruthAcknowledged ==
  ASSUME CallInv, TruthGood, Ends, Acknowledge
  PROVE  TruthGood'
<1>1. stmt # NoStmt /\ stmt \in Stmts /\ mem' = mem /\ stmt' = NoStmt
  BY EndsFacts DEF CallInv, StmtGood, Finish
<1> DEFINE t == stmt.table
<1>2. t \in Tables /\ stmt.val \in Vals \cup {Absent}
  BY <1>1, StmtFacts
<1>3. PICK new : truth' = [truth EXCEPT ![t] = new] /\
        new = CASE stmt.kind = "create" -> [k \in Keys |-> Absent]
          [] stmt.kind = "drop" -> NoTable
          [] stmt.kind \in {"insert", "update", "delete"} ->
               [k \in Keys |->
                  IF k \in stmt.keys /\ (stmt.kind = "insert" \/ truth[t][k] # Absent)
                  THEN stmt.val ELSE truth[t][k]]
          [] stmt.kind = "select" -> truth[t]
  BY DEF Acknowledge
<1>4. stmt.kind # "drop" => new \in RowMaps
  <2>1. CASE stmt.kind = "create"
    BY <1>3, <2>1 DEF RowMaps
  <2>2. CASE stmt.kind \in {"insert", "update", "delete", "select"}
    <3>1. mem[t] # NoTable
      BY <1>1, <2>2 DEF CallInv, StmtGood, Calling
    <3>2. truth[t] \in RowMaps
      BY <1>1, <1>2, <2>2, <3>1 DEF TruthGood
    <3> QED
      BY <1>2, <1>3, <2>2, <3>2 DEF RowMaps
  <2> QED
    BY <1>1, <2>1, <2>2, StmtFacts
<1>5. stmt.kind = "drop" => new = NoTable /\ mem[t] = NoTable
  BY <1>1, <1>3 DEF CallInv, StmtGood
<1>6. \A u \in Tables \ {t} : mem[u] # NoTable => truth[u] \in RowMaps
  BY <1>1 DEF TruthGood
<1> HIDE DEF t
<1>7. /\ truth' \in [Tables -> RowMaps \cup {NoTable}] /\ truth'[t] = new
      /\ \A u \in Tables \ {t} : truth'[u] = truth[u]
  BY <1>2, <1>3, <1>4, <1>5 DEF TruthGood
<1>8. \A u \in Tables : mem[u] # NoTable => truth'[u] \in RowMaps
  BY <1>4, <1>5, <1>6, <1>7
<1> QED
  BY <1>1, <1>7, <1>8 DEF TruthGood

\* Every step keeps the history well formed.
LEMMA TruthStep ==
  ASSUME CallInv, NEW h, NEW c, Arranged(h, c), TruthGood, [DatabaseNext]_databaseVars
  PROVE  TruthGood'
<1>1. CASE \E t \in Tables : Create(t) \/ CreateFails(t) \/ Drop(t)
  <2>1. stmt = NoStmt /\ truth' = truth /\ \A t \in Tables : mem'[t] # NoTable => mem[t] # NoTable
    BY <1>1 DEF Create, CreateFails, Drop, Ready, CallInv, CatalogGood
  <2> QED
    BY <2>1, TruthKept
<1>2. CASE \/ \E t \in Tables, k \in Keys, v \in Vals : Insert(t, k, v)
           \/ \E t \in Tables, keys \in SUBSET Keys, val \in Vals \cup {Absent},
                 kind \in {"update", "delete", "select"} : ScanAllRows(kind, t, keys, val)
  <2>1. stmt = NoStmt /\ truth' = truth /\ \A t \in Tables : mem'[t] # NoTable => mem[t] # NoTable
    BY <1>2 DEF Insert, ScanAllRows, LoadBTree, Ready, CallInv, CatalogGood
  <2> QED
    BY <2>1, TruthKept
<1>3. CASE CallBTree \/ BTreeProceeds
  <2>1. /\ truth' = truth /\ mem' = mem
        /\ stmt # NoStmt => stmt \in Stmts /\ (stmt' = stmt \/ stmt' = [stmt EXCEPT !.phase = "wait"])
    BY <1>3 DEF CallBTree, BTreeProceeds, CallInv, StmtGood
  <2>2. stmt # NoStmt
    BY <1>3, ProceedFacts DEF CallBTree, BTreeProceeds, CallInv, StmtGood
  <2>3. stmt' # NoStmt /\ stmt'.kind = stmt.kind /\ stmt'.table = stmt.table
    BY <2>1, <2>2, StmtFacts DEF Stmts, NoStmt
  <2> QED
    BY <2>1, <2>3, TruthKept
<1>4. CASE TableCreated \/ Scanned \/ CallDone
  <2>1. truth' = truth /\ stmt # NoStmt /\ stmt \in Stmts /\ stmt.table \in Tables
    BY <1>4, StmtFacts DEF TableCreated, Scanned, CallDone, Returned, CallInv, StmtGood
  <2>2. stmt' # NoStmt /\ stmt'.kind = stmt.kind /\ stmt'.table = stmt.table
    BY <1>4, <2>1 DEF TableCreated, Scanned, CallDone, Stmts, NoStmt
  <2>3. /\ \A t \in Tables \ {stmt.table} : mem'[t] = mem[t]
        /\ stmt.kind # "create" => mem[stmt.table] # NoTable
    <3>1. stmt.kind # "create" => stmt.kind # "drop"
      BY <1>4, <2>1 DEF TableCreated, Scanned, CallDone, Returned, CallInv, StmtGood
    <3> QED
      BY <1>4, <2>1, <3>1 DEF TableCreated, Scanned, CallDone, CallInv, CatalogGood, StmtGood, Calling
  <2> QED
    BY <2>1, <2>2, <2>3, TruthKept
<1>5. CASE Ends
  <2>1. /\ mem' = mem /\ stmt' = NoStmt /\ stmt # NoStmt
        /\ Acknowledge \/ Disclaim \/ (truth' = truth /\ stmt.kind = "insert")
    BY <1>5, EndsFacts DEF CallInv, Finish
  <2>2. CASE truth' = truth /\ stmt.kind = "insert"
    BY <2>1, <2>2, TruthKept
  <2> QED
    BY <1>5, <2>1, <2>2, TruthAcknowledged, TruthFound DEF Disclaim
<1>6. CASE Crash
  BY <1>6, TruthFound DEF Crash, Found
<1>7. CASE UNCHANGED databaseVars
  BY <1>7 DEF databaseVars, TruthGood
<1> QED
  BY <1>1, <1>2, <1>3, <1>4, <1>5, <1>6, <1>7, DatabaseSteps

----------------------------------------------------------------------------
\* Where every page belongs, and what a step adds to it

\* Heights and trees that fit the pages and keep the tables apart.
Layout(h, c) == Arranged(h, c) /\ Apart(c)

\* A layout fits the empty file.
LEMMA InitLayout == DatabaseInit => \E h, c : Layout(h, c)
<1> SUFFICES ASSUME DatabaseInit PROVE \E h, c : Layout(h, c)
  OBVIOUS
<1>1. PICK h, c : Arranged(h, c)
  BY InitArranged DEF DatabaseInit
<1>2. Apart(c)
  BY DEF DatabaseInit, Apart, TablesApart, StmtApart
<1> QED
  BY <1>1, <1>2 DEF Layout

\* Every step has a layout, and it says of the pages in use what the one before said.
LEMMA LayoutStep ==
  ASSUME CallInv, NEW h, NEW c, Layout(h, c), [DatabaseNext]_databaseVars
  PROVE  \E h2, c2 : Layout(h2, c2)' /\ Extends(h, c, h2, c2)
<1> USE DEF Layout
<1>a. Inv /\ Extends(h, c, h, c)
  BY ExtendsItself DEF CallInv
<1>1. CASE \E t \in Tables : Create(t)
  <2>1. PICK t \in Tables : Create(t)
    BY <1>1
  <2>2. NewBTree
    BY <2>1 DEF Create
  <2>3. PICK h2, c2 : /\ Arranged(h2, c2)' /\ Extends(h, c, h2, c2)
                      /\ fresh' \notin owned /\ c2[fresh'] = fresh'
    BY <1>a, <2>2, NewBTreeArranged
  <2>4. Apart(c2)'
    BY <2>1, <2>3, CreateApart
  <2> QED
    BY <2>3, <2>4
<1>2. CASE BTreeProceeds
  <2>1. PICK h2, c2 : Arranged(h2, c2)' /\ Extends(h, c, h2, c2)
    BY <1>a, <1>2, ProceedArranged DEF BTreeProceeds
  <2> QED
    BY <1>2, <2>1, ProceedApart
<1>3. CASE CallBTree
  <2>1. stmt \in Stmts /\ stmt.todo # <<>> /\ Call(Head(stmt.todo))
    BY <1>3 DEF CallBTree, CallInv, StmtGood
  <2>2. Head(stmt.todo) \in Requests
    BY <2>1, StmtFacts, HeadTailProperties
  <2> QED
    BY <1>3, <1>a, <2>1, <2>2, CallArranged, SameTreeApart
<1>4. CASE \E t \in Tables : CreateFails(t)
  <2>1. UNCHANGED <<view, disk, owned, pc>> /\ pc = "idle"
    BY <1>4 DEF CreateFails, Ready, NewBTreeFails
  <2> QED
    BY <1>4, <1>a, <2>1, ReturnsArranged, EndsApart
<1>5. CASE \E t \in Tables : Drop(t)
  <2>1. UNCHANGED <<view, disk, owned, pc>> /\ pc = "idle"
    BY <1>5 DEF Drop, Ready, vars
  <2> QED
    BY <1>5, <1>a, <2>1, ReturnsArranged, DropApart
<1>6. CASE \E t \in Tables, k \in Keys, v \in Vals : Insert(t, k, v)
  <2>1. PICK t \in Tables, k \in Keys, v \in Vals : Insert(t, k, v)
    BY <1>6
  <2>2. UNCHANGED <<view, disk, owned, pc>> /\ pc = "idle"
    BY <2>1 DEF Insert, LoadBTree, Ready
  <2>3. PICK keys, todo : Begin("insert", t, keys, v, todo)
    BY <2>1 DEF Insert
  <2>4. Apart(c)'
    <3>1. LoadBTree(t) /\ saved' = saved
      BY <2>1 DEF Insert
    <3>2. mem' = mem \/ mem' = [mem EXCEPT ![t].next = @ + 1]
      BY <2>1 DEF Insert
    <3> QED
      BY <2>3, <3>1, <3>2, LoadApart
  <2> QED
    BY <1>a, <2>2, <2>4, ReturnsArranged
<1>7. CASE \E t \in Tables, keys \in SUBSET Keys, val \in Vals \cup {Absent},
                kind \in {"update", "delete", "select"} : ScanAllRows(kind, t, keys, val)
  <2>1. PICK t \in Tables, keys \in SUBSET Keys, val \in Vals \cup {Absent},
             kind \in {"update", "delete", "select"} : ScanAllRows(kind, t, keys, val)
    BY <1>7
  <2>2. UNCHANGED <<view, disk, owned, pc>> /\ pc = "idle"
    BY <2>1 DEF ScanAllRows, LoadBTree, Ready
  <2>3. PICK todo : Begin(kind, t, keys, val, todo)
    BY <2>1 DEF ScanAllRows
  <2>4. Apart(c)'
    <3>1. LoadBTree(t) /\ saved' = saved /\ mem' = mem
      BY <2>1 DEF ScanAllRows
    <3> QED
      BY <2>3, <3>1, LoadApart
  <2> QED
    BY <1>a, <2>2, <2>4, ReturnsArranged
<1>8. CASE TableCreated \/ Scanned \/ CallDone
  <2>1. UNCHANGED <<view, disk, owned, pc>> /\ pc = "idle"
    BY <1>8 DEF TableCreated, Scanned, CallDone, Returned, vars
  <2> QED
    BY <1>8, <1>a, <2>1, ReturnsArranged, TableCreatedApart, SameTreeApart, CallDoneApart
<1>9. CASE Ends
  <2>1. UNCHANGED <<view, disk, owned, pc>> /\ pc = "idle"
    BY <1>9, EndsFacts DEF CallInv
  <2> QED
    BY <1>9, <1>a, <2>1, ReturnsArranged, EndsApart
<1>10. CASE Crash
  <2>1. view' = disk /\ disk' = disk /\ owned' = owned /\ pc' = "idle"
    BY <1>10 DEF Crash
  <2>2. Arranged(h, c)'
    BY <2>1, NothingInHand DEF Arranged
  <2> QED
    BY <1>10, <1>a, <2>2, EndsApart
<1>11. CASE UNCHANGED databaseVars
  <2>1. Arranged(h, c)' /\ Apart(c)'
    BY <1>11 DEF databaseVars, vars, call, Arranged, PathArranged, WorkArranged, PagesArranged, OldTop,
       Apart, TablesApart, StmtApart, NewTreeApart
  <2> QED
    BY <1>a, <2>1
<1> QED
  BY <1>1, <1>2, <1>3, <1>4, <1>5, <1>6, <1>7, <1>8, <1>9, <1>10, <1>11, DatabaseSteps

\* A page belongs to one table.
LEMMA PagesOfTables ==
  ASSUME CallInv, NEW h, NEW c, Layout(h, c),
         NEW m, NEW cat, (m = view /\ cat = mem) \/ (m = disk /\ cat = saved),
         NEW t \in Tables, cat[t] # NoTable
  PROVE  /\ Linked(cat[t].root)
         /\ \A u \in Tables \ {t} : cat[u] # NoTable =>
              Range(Preorder(m, cat[t].root)) \cap Range(Preorder(m, cat[u].root)) = {}
<1>1. cat \in {mem, saved} /\ CatalogGood(cat)
  BY DEF CallInv
<1>2. \A u \in Tables : cat[u] # NoTable => cat[u].root \in LinkedPages /\ cat[u].root \in PageNums
  BY <1>1 DEF CatalogGood, Infos
<1>3. m \in [PageNums -> Pages] /\ h \in [PageNums -> Nat] /\ PagesArranged(m, h, c)
  BY DEF CallInv, Inv, TypeOK, Store!TypeOK, Layout, Arranged
<1>4. Falling(m, h) /\ \A p \in PageNums : \A i \in Ways(m[p]) :
        Child(m[p], i) \in PageNums /\ c[Child(m[p], i)] = c[p]
  BY <1>3, ArrangedFalls
<1>5. \A u \in Tables : cat[u] # NoTable =>
        \A q \in Range(Preorder(m, cat[u].root)) : c[q] = c[cat[u].root]
  <2> SUFFICES ASSUME NEW u \in Tables, cat[u] # NoTable,
                      NEW q \in Range(Preorder(m, cat[u].root))
               PROVE  c[q] = c[cat[u].root]
    OBVIOUS
  <2> DEFINE C == {p \in PageNums : c[p] = c[cat[u].root]}
  <2>1. \A p \in PageNums : p \in C => \A i \in Ways(m[p]) : Child(m[p], i) \in C
    BY <1>4
  <2>2. cat[u].root \in C
    BY <1>2
  <2> HIDE DEF C
  <2>3. \A p \in PageNums : p \in C => Range(Preorder(m, p)) \subseteq C
    BY <1>3, <1>4, <2>1, ReachedWithin
  <2>4. q \in C
    BY <1>2, <2>2, <2>3
  <2> QED
    BY <2>4 DEF C
<1>6. \A u \in Tables \ {t} : cat[u] # NoTable => c[cat[t].root] # c[cat[u].root]
  BY <1>1 DEF Layout, Apart, TablesApart
<1>7. Linked(cat[t].root)
  BY <1>2 DEF LinkedPages, Linked
<1>8. ASSUME NEW u \in Tables \ {t}, cat[u] # NoTable
      PROVE  Range(Preorder(m, cat[t].root)) \cap Range(Preorder(m, cat[u].root)) = {}
  BY <1>5, <1>6, <1>8
<1> QED
  BY <1>7, <1>8

----------------------------------------------------------------------------
\* The keys of a table without a primary key are below its NextRowID

\* Of the rows of a leaf or of a result.
KeysBelow(cells, n) == \A i \in 1 .. Len(cells) : cells[i].key < n

\* Only leaves hold rows.
LeafBelow(node, n) == node.type = "leaf" => KeysBelow(node.cells, n)

\* In the tree that page r belongs to.
PagesBelow(m, own, c, r, n) == \A p \in own : c[p] = c[r] => LeafBelow(m[p], n)

\* Of the keys that the statement has yet to insert.
RequestsBelow(todo, n) == \A i \in 1 .. Len(todo) : todo[i].op = "insert" => todo[i].key < n

\* INSERT has yet to learn whether its key is there.
Searching == stmt.kind = "insert" /\ stmt.todo # <<>> /\ Head(stmt.todo).op = "search"

\* Of the statement that works on a tree of which mem says info.
StmtBelow(c, info) ==
  /\ stmt.kind = "insert" => stmt.keys = {info.next - 1}
  /\ RequestsBelow(stmt.todo, info.next)
  /\ pc \in {"write", "alloc", "right", "rootalloc", "root"} => LeafBelow(work, info.next)
  /\ stmt.phase = "wait" => KeysBelow(res.rows, info.next)
  /\ Searching => PagesBelow(view, owned, c, info.root, info.next - 1)
  /\ Searching /\ stmt.phase = "wait" =>
       IF pc = "idle" THEN res.status # "ok" ELSE pc \in {"descend", "panic"}

\* The statement makes calls of the tree of table t.
Working(t) == stmt # NoStmt /\ stmt.table = t /\ stmt.kind \notin {"create", "drop"}

\* A process that is started again may find a NextRowID that is behind.
RowKeys(c) ==
  crashes = 0 =>
    \A t \in RowIdTables :
      mem[t] # NoTable =>
        /\ PagesBelow(view, owned, c, mem[t].root, mem[t].next)
        /\ Working(t) => StmtBelow(c, mem[t])

\* No table has rows at the start.
LEMMA InitRowKeys == ASSUME DatabaseInit, NEW c PROVE RowKeys(c)
  BY DatabaseAssumption DEF DatabaseInit, RowKeys

\* PagesBelow is about the tree, not about how it is named.
LEMMA PagesStayBelow ==
  ASSUME NEW h, NEW c, NEW h2, NEW c2, Extends(h, c, h2, c2),
         NEW r, NEW r2, r \in owned, r2 \in owned, c[r2] = c[r],
         NEW n, PagesBelow(view, owned, c, r, n)
  PROVE  PagesBelow(view, owned, c2, r2, n)
  BY DEF Extends, PagesBelow

\* A NextRowID that grows leaves the keys below it.
LEMMA BelowMore ==
  ASSUME CallInv, NEW c, NEW r, NEW n \in Nat, PagesBelow(view, owned, c, r, n)
  PROVE  PagesBelow(view, owned, c, r, n + 1)
<1> SUFFICES ASSUME NEW p \in owned, c[p] = c[r], view[p].type = "leaf",
                    NEW i \in 1 .. Len(view[p].cells)
             PROVE  view[p].cells[i].key < n + 1
  BY DEF PagesBelow, LeafBelow, KeysBelow
<1>1. view[p] \in RealNodes
  BY PageFacts DEF CallInv, Inv, TypeOK, Store!TypeOK
<1>2. view[p].cells[i].key \in Int
  BY <1>1, CellFacts, BTreeAssumption
<1>3. view[p].cells[i].key < n
  BY DEF PagesBelow, LeafBelow, KeysBelow
<1> QED
  BY <1>2, <1>3

\* What CallInv says of a table whose keys are row ids.
LEMMA TablesFacts ==
  ASSUME CallInv, NEW t \in RowIdTables, mem[t] # NoTable
  PROVE  /\ t \in Tables /\ mem[t].root \in owned /\ mem[t].root \in PageNums
         /\ mem[t].next \in Nat /\ mem[t] \in Infos
  BY RootsOwned, DatabaseAssumption DEF CallInv, CatalogGood, Infos

\* Steps that end a statement, or begin one that has no tree.
LEMMA NoTreeBelow ==
  ASSUME CallInv, NEW h, NEW c, NEW h2, NEW c2, Extends(h, c, h2, c2), RowKeys(c),
         UNCHANGED <<view, owned, crashes>>,
         \A t \in Tables : mem'[t] # NoTable => mem'[t] = mem[t],
         stmt' # NoStmt => stmt'.kind \in {"create", "drop"}
  PROVE  RowKeys(c2)'
<1> SUFFICES ASSUME crashes = 0, NEW t \in RowIdTables, mem'[t] # NoTable
             PROVE  PagesBelow(view', owned', c2, mem'[t].root, mem'[t].next)
  BY DEF RowKeys, Working
<1>1. mem'[t] = mem[t] /\ mem[t] # NoTable
  BY DatabaseAssumption
<1>2. PagesBelow(view, owned, c, mem[t].root, mem[t].next) /\ mem[t].root \in owned
  BY <1>1, TablesFacts DEF RowKeys
<1>3. PagesBelow(view, owned, c2, mem[t].root, mem[t].next)
  BY <1>2, PagesStayBelow
<1> QED
  BY <1>1, <1>3

\* A new page is no table's.
LEMMA CreateBelow ==
  ASSUME CallInv, NEW h, NEW c, NEW h2, NEW c2, Extends(h, c, h2, c2), RowKeys(c),
         NEW t0 \in Tables, Create(t0), Apart(c2)'
  PROVE  RowKeys(c2)'
<1> SUFFICES ASSUME crashes = 0, NEW t \in RowIdTables, mem[t] # NoTable
             PROVE  PagesBelow(view', owned', c2, mem[t].root, mem[t].next)
  BY DEF RowKeys, Working, Create
<1>1. PICK p \in Fresh : Allocates(p)
  BY DEF Create, NewBTree
<1>2. /\ p \in PageNums /\ fresh' = p /\ owned' = owned \cup {p} /\ p # NoPage
      /\ view' = [view EXCEPT ![p] = Zero]
  BY <1>1, BTreeAssumption DEF Fresh, Allocates, Store!Alloc, NoPage
<1>3. stmt' # NoStmt /\ stmt'.kind = "create" /\ stmt'.phase = "wait" /\ mem' = mem
  BY DEF Create, NoStmt
<1>4. NewTreeApart(c2, fresh)'
  BY <1>2, <1>3 DEF Apart, StmtApart
<1>5. c2[mem[t].root] # c2[p]
  BY <1>2, <1>3, <1>4, TablesFacts DEF NewTreeApart
<1>6. PagesBelow(view, owned, c, mem[t].root, mem[t].next) /\ mem[t].root \in owned
  BY TablesFacts DEF RowKeys
<1>7. PagesBelow(view, owned, c2, mem[t].root, mem[t].next)
  BY <1>6, PagesStayBelow
<1> QED
  BY <1>2, <1>5, <1>7 DEF PagesBelow, CallInv, Inv, TypeOK, Store!TypeOK

\* The row id that an INSERT takes is above all others.
LEMMA InsertBelow ==
  ASSUME CallInv, NEW h, NEW c, NEW h2, NEW c2, Extends(h, c, h2, c2), RowKeys(c),
         NEW t0 \in Tables, NEW k \in Keys, NEW v \in Vals, Insert(t0, k, v)
  PROVE  RowKeys(c2)'
<1> USE DEF Insert, LoadBTree, Ready
<1> SUFFICES ASSUME crashes = 0, NEW t \in RowIdTables, mem'[t] # NoTable
             PROVE  /\ PagesBelow(view', owned', c2, mem'[t].root, mem'[t].next)
                    /\ Working(t)' => \A info : info = mem'[t] => StmtBelow(c2, info)'
  BY DEF RowKeys
<1>1. mem[t] # NoTable /\ t \in Tables
  BY DatabaseAssumption DEF CallInv, CatalogGood
<1>2. /\ PagesBelow(view, owned, c, mem[t].root, mem[t].next)
      /\ mem[t].root \in owned /\ mem[t].next \in Nat /\ mem[t] \in Infos
  BY <1>1, TablesFacts DEF RowKeys
<1>3. PagesBelow(view, owned, c2, mem[t].root, mem[t].next)
  BY <1>2, PagesStayBelow
<1>4. stmt' # NoStmt /\ stmt'.table = t0 /\ view' = view /\ owned' = owned
  BY DEF Begin, NoStmt
<1>5. CASE t # t0
  <2>1. mem'[t] = mem[t]
    BY <1>1, <1>5 DEF CallInv, CatalogGood
  <2> QED
    BY <1>3, <1>4, <1>5, <2>1 DEF Working
<1>6. CASE t = t0
  <2>1. mem'[t].root = mem[t].root /\ mem'[t].next = mem[t].next + 1 /\ k = mem[t].next
    BY <1>1, <1>2, <1>6 DEF CallInv, CatalogGood, Infos
  <2>2. PagesBelow(view, owned, c2, mem[t].root, mem[t].next + 1)
    BY <1>2, <1>3, BelowMore
  <2>3. (mem[t].next + 1) - 1 = mem[t].next
    BY <1>2
  <2>4. /\ stmt'.kind = "insert" /\ stmt'.keys = {k} /\ stmt'.phase = "call"
        /\ stmt'.todo = <<[op |-> "search", key |-> k], [op |-> "insert", key |-> k, val |-> v]>>
    BY DEF Begin
  <2>5. RequestsBelow(stmt'.todo, mem[t].next + 1)
    BY <1>2, <2>1, <2>4 DEF RequestsBelow
  <2>6. pc' = "idle"
    OBVIOUS
  <2> HIDE DEF Insert, LoadBTree
  <2>7. ASSUME NEW info, info = mem'[t] PROVE StmtBelow(c2, info)'
    BY <1>3, <1>4, <2>1, <2>3, <2>4, <2>5, <2>6, <2>7 DEF StmtBelow
  <2> QED
    BY <1>4, <2>1, <2>2, <2>7
<1> QED
  BY <1>5, <1>6

\* UPDATE, DELETE and SELECT start with no row to write.
LEMMA ScanBelow ==
  ASSUME CallInv, NEW h, NEW c, NEW h2, NEW c2, Extends(h, c, h2, c2), RowKeys(c),
         NEW t0 \in Tables, NEW keys, NEW val, NEW kind \in {"update", "delete", "select"},
         ScanAllRows(kind, t0, keys, val)
  PROVE  RowKeys(c2)'
<1> USE DEF ScanAllRows, LoadBTree, Ready
<1> SUFFICES ASSUME crashes = 0, NEW t \in RowIdTables, mem[t] # NoTable
             PROVE  /\ PagesBelow(view, owned, c2, mem[t].root, mem[t].next)
                    /\ \A info : info = mem[t] => StmtBelow(c2, info)'
  BY DEF RowKeys
<1>1. /\ PagesBelow(view, owned, c, mem[t].root, mem[t].next) /\ mem[t].root \in owned
  BY TablesFacts DEF RowKeys
<1>2. PagesBelow(view, owned, c2, mem[t].root, mem[t].next)
  BY <1>1, PagesStayBelow
<1>3. /\ stmt'.kind = kind /\ stmt'.todo = <<[op |-> "scan"]>> /\ stmt'.phase = "call"
      /\ pc' = "idle"
  BY DEF Begin
<1>4. ASSUME NEW info PROVE StmtBelow(c2, info)'
  BY <1>3 DEF StmtBelow, RequestsBelow, Searching
<1> QED
  BY <1>2, <1>4

\* A call starts with no row in hand.
LEMMA CallBelow ==
  ASSUME CallInv, NEW h, NEW c, NEW h2, NEW c2, Extends(h, c, h2, c2), RowKeys(c), CallBTree
  PROVE  RowKeys(c2)'
<1> USE DEF CallBTree, Call
<1> SUFFICES ASSUME crashes = 0, NEW t \in RowIdTables, mem[t] # NoTable
             PROVE  /\ PagesBelow(view, owned, c2, mem[t].root, mem[t].next)
                    /\ Working(t)' => \A info : info = mem[t] => StmtBelow(c2, info)'
  BY DEF RowKeys
<1>1. /\ PagesBelow(view, owned, c, mem[t].root, mem[t].next) /\ mem[t].root \in owned
      /\ Working(t) => StmtBelow(c, mem[t])
  BY TablesFacts DEF RowKeys
<1>2. PagesBelow(view, owned, c2, mem[t].root, mem[t].next)
  BY <1>1, PagesStayBelow
<1>3. stmt \in Stmts
  BY DEF CallInv, StmtGood
<1>4. /\ stmt'.kind = stmt.kind /\ stmt'.todo = stmt.todo /\ stmt'.phase = "wait"
      /\ stmt'.keys = stmt.keys /\ stmt'.table = stmt.table
  BY <1>3 DEF Stmts
<1>5. /\ pc' \in {"descend", "scan"} /\ Len(res'.rows) = 0
      /\ Head(stmt.todo).op = "search" => pc' = "descend"
  BY DEF NoResult
<1>6. ASSUME Working(t)', NEW info, info = mem[t] PROVE StmtBelow(c2, info)'
  <2>1. StmtBelow(c, mem[t])
    BY <1>1, <1>3, <1>4, <1>6 DEF Working
  <2>2. Searching => PagesBelow(view, owned, c2, mem[t].root, mem[t].next - 1)
    BY <1>1, <2>1, PagesStayBelow DEF StmtBelow
  <2>3. Searching' <=> Searching
    BY <1>4 DEF Searching
  <2>4. KeysBelow(res'.rows, mem[t].next)
    BY <1>5 DEF KeysBelow
  <2>5. UNCHANGED <<view, owned>>
    OBVIOUS
  <2> HIDE DEF CallBTree, Call
  <2> QED
    BY <1>4, <1>5, <1>6, <2>1, <2>2, <2>3, <2>4, <2>5 DEF StmtBelow, Searching
<1> QED
  BY <1>2, <1>6

\* The tree of a new table has no rows.
LEMMA TableCreatedBelow ==
  ASSUME CallInv, NEW h, NEW c, NEW h2, NEW c2, Extends(h, c, h2, c2), Apart(c), RowKeys(c),
         TableCreated
  PROVE  RowKeys(c2)'
<1> USE DEF TableCreated, Returned
<1>1. stmt \in Stmts /\ stmt.table \in Tables /\ root # NoPage /\ root \in owned
  BY StmtFacts, RootsOwned DEF CallInv, StmtGood, Creating
<1>2. NewTreeApart(c, root)
  BY <1>1 DEF Apart, StmtApart
<1>3. stmt'.kind = "create"
  BY <1>1 DEF Stmts
<1> SUFFICES ASSUME crashes = 0, NEW t \in RowIdTables, mem'[t] # NoTable
             PROVE  PagesBelow(view, owned, c2, mem'[t].root, mem'[t].next)
  BY <1>3 DEF RowKeys, Working, vars
<1>4. t \in Tables
  BY DatabaseAssumption
<1>5. CASE t = stmt.table
  <2>1. mem'[t] = [root |-> root, next |-> 1]
    BY <1>1, <1>5 DEF CallInv, CatalogGood
  <2>2. PagesBelow(view, owned, c, root, 1)
    BY <1>2 DEF NewTreeApart, PagesBelow, LeafBelow, KeysBelow
  <2>3. PagesBelow(view, owned, c2, root, 1)
    BY <1>1, <2>2, PagesStayBelow
  <2> QED
    BY <2>1, <2>3
<1>6. CASE t # stmt.table
  <2>1. mem'[t] = mem[t]
    BY <1>4, <1>6 DEF CallInv, CatalogGood
  <2>2. PagesBelow(view, owned, c, mem[t].root, mem[t].next) /\ mem[t].root \in owned
    BY <2>1, TablesFacts DEF RowKeys
  <2>3. PagesBelow(view, owned, c2, mem[t].root, mem[t].next)
    BY <2>2, PagesStayBelow
  <2> QED
    BY <2>1, <2>3
<1> QED
  BY <1>5, <1>6

\* The calls for rows that are there have the keys of these rows.
LEMMA RowCallsBelow ==
  ASSUME CallInv, Scanned, NEW n, KeysBelow(res.rows, n)
  PROVE  RequestsBelow(stmt'.todo, n)
<1> DEFINE calls == [i \in DOMAIN res.rows |->
                       IF res.rows[i].key \in stmt.keys THEN CallsFor(res.rows[i]) ELSE <<>>]
           size == Len(res.rows)
           todo == FlattenSeq(calls)
<1>1. /\ stmt' = [stmt EXCEPT !.phase = "call", !.todo = todo]
      /\ todo \in Seq(Requests) /\ size \in Nat /\ calls \in [1 .. size -> Seq(Requests)]
      /\ size = 0 => todo = <<>>
      /\ stmt \in Stmts
  BY ScannedTodo
<1>2. stmt'.todo = todo
  BY <1>1 DEF Stmts
<1>3. \A i \in 1 .. size : \A r \in Range(calls[i]) : r.op = "insert" => r.key < n
  <2> SUFFICES ASSUME NEW i \in 1 .. size, NEW r \in Range(calls[i]), r.op = "insert"
               PROVE  r.key < n
    OBVIOUS
  <2>1. i \in DOMAIN res.rows /\ res.rows[i].key < n
    BY <1>1 DEF KeysBelow
  <2> DEFINE cell == res.rows[i]
  <2>2. calls[i] = <<>> \/ calls[i] = CallsFor(cell)
    BY <2>1
  <2>3. \/ calls[i] = <<>>
        \/ calls[i] = <<[op |-> "search", key |-> cell.key],
                        [op |-> "insert", key |-> cell.key, val |-> stmt.val]>>
        \/ calls[i] = <<[op |-> "delete", key |-> cell.key]>>
    <3>1. stmt.kind \in {"update", "delete", "select"}
      BY ScannedTodo
    <3> QED
      BY <2>2, <3>1 DEF CallsFor
  <2> HIDE DEF calls, cell
  <2>4. r.key = cell.key
    BY <2>3 DEF Range
  <2> QED
    BY <2>1, <2>4 DEF cell
<1>4. CASE size = 0
  BY <1>1, <1>2, <1>4 DEF RequestsBelow
<1>5. CASE size # 0
  <2>1. size \in Nat \ {0} /\ calls \in [1 .. size -> Seq(Requests)]
    BY <1>1, <1>5
  <2> HIDE DEF calls, size
  <2>2. Range(FlattenSeq(calls)) = UNION {Range(calls[i]) : i \in 1 .. size}
    BY <2>1, FlattenRange, ZenonT(30)
  <2>3. \A r \in Range(todo) : r.op = "insert" => r.key < n
    BY <1>3, <2>2
  <2> HIDE DEF todo
  <2>4. \A i \in 1 .. Len(todo) : todo[i] \in Range(todo)
    BY <1>1 DEF Range
  <2> QED
    BY <1>2, <2>3, <2>4 DEF RequestsBelow
<1> QED
  BY <1>4, <1>5

\* The rows to write again are rows that the scan found.
LEMMA ScannedBelow ==
  ASSUME CallInv, NEW h, NEW c, NEW h2, NEW c2, Extends(h, c, h2, c2), RowKeys(c), Scanned
  PROVE  RowKeys(c2)'
<1> USE DEF Returned
<1>a. UNCHANGED <<vars, mem, crashes>> /\ pc = "idle" /\ stmt.phase = "wait"
  BY DEF Scanned
<1> SUFFICES ASSUME crashes = 0, NEW t \in RowIdTables, mem[t] # NoTable
             PROVE  /\ PagesBelow(view, owned, c2, mem[t].root, mem[t].next)
                    /\ Working(t)' => \A info : info = mem[t] => StmtBelow(c2, info)'
  BY <1>a DEF RowKeys, vars
<1>1. /\ PagesBelow(view, owned, c, mem[t].root, mem[t].next) /\ mem[t].root \in owned
      /\ Working(t) => StmtBelow(c, mem[t])
  BY TablesFacts DEF RowKeys
<1>2. PagesBelow(view, owned, c2, mem[t].root, mem[t].next)
  BY <1>1, PagesStayBelow
<1>3. stmt # NoStmt /\ stmt \in Stmts /\ stmt.kind \in {"update", "delete", "select"}
  BY ScannedTodo DEF Scanned
<1>4. stmt'.kind = stmt.kind /\ stmt'.table = stmt.table /\ stmt'.phase = "call"
  BY <1>3 DEF Stmts, Scanned
<1>5. ASSUME Working(t)', NEW info, info = mem[t] PROVE StmtBelow(c2, info)'
  <2>1. StmtBelow(c, mem[t])
    BY <1>1, <1>3, <1>4, <1>5 DEF Working
  <2>2. RequestsBelow(stmt'.todo, mem[t].next)
    BY <1>a, <2>1, RowCallsBelow DEF StmtBelow
  <2> QED
    BY <1>a, <1>3, <1>4, <1>5, <2>2 DEF StmtBelow, Searching, vars
<1> QED
  BY <1>2, <1>5

\* The row id that INSERT took is used, or given up, when its call is done.
LEMMA CallDoneBelow ==
  ASSUME CallInv, NEW h, NEW c, NEW h2, NEW c2, Extends(h, c, h2, c2), RowKeys(c),
         Apart(c), CallDone
  PROVE  RowKeys(c2)'
<1> USE DEF Returned
<1>a. /\ UNCHANGED <<vars, crashes>> /\ pc = "idle" /\ stmt.phase = "wait" /\ stmt # NoStmt
      /\ stmt \in Stmts /\ stmt.table \in Tables /\ stmt.todo # <<>>
  BY StmtFacts DEF CallDone, CallInv, StmtGood
<1>b. Calling /\ stmt.kind \notin {"create", "drop"} /\ c[root] = c[mem[stmt.table].root]
      /\ root \in owned
  BY <1>a, RootsOwned DEF CallInv, StmtGood, Creating, Calling, Apart, StmtApart
<1>c. /\ stmt'.kind = stmt.kind /\ stmt'.table = stmt.table /\ stmt'.phase \in {"save", "call"}
      /\ stmt'.keys = stmt.keys /\ stmt'.todo = Tail(stmt.todo)
  BY <1>a DEF Stmts, CallDone
<1>d. \A t \in Tables : mem'[t] # NoTable =>
        /\ mem[t] # NoTable
        /\ mem'[t] = mem[t] \/ (mem'[t] = [mem[t] EXCEPT !.root = root] /\ t = stmt.table)
  BY <1>a, <1>b DEF CallDone, CallInv, CatalogGood, Calling
<1>e. crashes' = crashes /\ view' = view /\ owned' = owned
  BY <1>a DEF vars
<1> SUFFICES ASSUME crashes = 0, NEW t \in RowIdTables, mem'[t] # NoTable
             PROVE  /\ PagesBelow(view, owned, c2, mem'[t].root, mem'[t].next)
                    /\ Working(t)' => \A info : info = mem'[t] => StmtBelow(c2, info)'
  BY <1>e DEF RowKeys
<1>1. mem[t] # NoTable /\ t \in Tables
  BY <1>d, DatabaseAssumption
<1>2. /\ PagesBelow(view, owned, c, mem[t].root, mem[t].next) /\ mem[t].root \in owned
      /\ Working(t) => StmtBelow(c, mem[t])
      /\ mem[t] \in Infos
  BY <1>1, TablesFacts DEF RowKeys
<1>3. /\ mem'[t].next = mem[t].next
      /\ mem'[t].root = mem[t].root \/ (mem'[t].root = root /\ c[root] = c[mem[t].root])
  BY <1>1, <1>2, <1>b, <1>d DEF Infos
<1>4. PagesBelow(view, owned, c2, mem'[t].root, mem[t].next)
  BY <1>2, <1>3, <1>b, PagesStayBelow
<1>5. ASSUME Working(t)', NEW info, info = mem'[t] PROVE StmtBelow(c2, info)'
  <2>1. StmtBelow(c, mem[t])
    BY <1>2, <1>5, <1>a, <1>c DEF Working
  <2>2. RequestsBelow(stmt'.todo, mem[t].next)
    <3> DEFINE rest == Tail(stmt.todo)
    <3>1. /\ stmt.todo \in Seq(Requests) /\ Len(stmt.todo) \in Nat /\ Len(rest) = Len(stmt.todo) - 1
          /\ \A i \in 1 .. Len(rest) : i + 1 \in 1 .. Len(stmt.todo) /\ rest[i] = stmt.todo[i + 1]
      BY <1>a, StmtFacts, HeadTailProperties
    <3> HIDE DEF rest
    <3> QED
      BY <1>c, <2>1, <3>1 DEF StmtBelow, RequestsBelow, rest
  <2>3. ~Searching'
    <3>1. CASE stmt.kind # "insert"
      BY <1>c, <3>1 DEF Searching
    <3>2. CASE stmt.kind = "insert"
      <4>1. PICK k \in Keys :
              stmt.todo \in {<<[op |-> "search", key |-> k],
                               [op |-> "insert", key |-> k, val |-> stmt.val]>>,
                             <<[op |-> "insert", key |-> k, val |-> stmt.val]>>}
        BY <1>a, <1>b, <3>2 DEF Calling, Inserting
      <4> DEFINE s1 == [op |-> "search", key |-> k]
                 s2 == [op |-> "insert", key |-> k, val |-> stmt.val]
      <4>2. stmt.todo = <<s1, s2>> \/ stmt.todo = <<s2>>
        BY <4>1
      <4>3. /\ Tail(<<s1, s2>>) = <<s2>> /\ Tail(<<s2>>) = <<>>
            /\ Head(<<s2>>) = s2 /\ s2.op = "insert"
        OBVIOUS
      <4> HIDE DEF s1, s2
      <4>4. stmt'.todo = <<s2>> \/ stmt'.todo = <<>>
        BY <1>c, <4>2, <4>3
      <4> QED
        BY <4>3, <4>4 DEF Searching
    <3> QED
      BY <3>1, <3>2
  <2>4. pc' = "idle"
    BY <1>a DEF vars
  <2> QED
    BY <1>2, <1>3, <1>5, <1>c, <2>1, <2>2, <2>3, <2>4 DEF StmtBelow
<1> QED
  BY <1>3, <1>4, <1>5

\* What is written has no other keys than the node that is being written.
LEMMA ImageBelow ==
  ASSUME Inv, pc \in {"write", "right", "root"}, NEW n, LeafBelow(work, n)
  PROVE  LeafBelow(Image, n)
<1>1. work \in RealNodes /\ (pc = "right" => Overfull(work))
  BY DEF Inv, WorkGood
<1>2. \/ Image = work
      \/ Overfull(work) /\ Image \in {LeftHalf(work), RightHalf(work)}
  BY <1>1 DEF Image
<1>3. CASE Image = work
  BY <1>3
<1>4. CASE Overfull(work) /\ Image \in {LeftHalf(work), RightHalf(work)}
  <2> SUFFICES ASSUME work.type = "leaf", NEW i \in 1 .. Len(Image.cells)
               PROVE  Image.cells[i].key < n
    BY <1>1, <1>4, HalfFacts DEF LeafBelow, KeysBelow
  <2>1. \E j \in 1 .. Len(work.cells) : Image.cells[i] = work.cells[j]
    <3> DEFINE size == Len(work.cells)
               mid == Mid(work)
    <3>1. HalvesOf(work, size, mid, LeftHalf(work), RightHalf(work))
      BY <1>1, <1>4, HalfShape
    <3> HIDE DEF size, mid
    <3>2. CASE Image = LeftHalf(work)
      <4>1. i \in 1 .. size /\ Image.cells[i] = work.cells[i]
        BY <3>1, <3>2 DEF HalvesOf
      <4> QED
        BY <4>1 DEF size
    <3>3. CASE Image = RightHalf(work)
      <4>1. mid + i \in 1 .. size /\ Image.cells[i] = work.cells[mid + i]
        BY <3>1, <3>3 DEF HalvesOf
      <4> QED
        BY <4>1 DEF size
    <3> QED
      BY <1>4, <3>2, <3>3
  <2> QED
    BY <2>1 DEF LeafBelow, KeysBelow
<1> QED
  BY <1>2, <1>3, <1>4

\* Pages of another tree are not written, and of this one with keys below n.
LEMMA PagesWrittenBelow ==
  ASSUME CallInv, NEW h, NEW c, Arranged(h, c), NEW h2, NEW c2, Extends(h, c, h2, c2), Proceed,
         NEW r \in owned, NEW n, PagesBelow(view, owned, c, r, n),
         pc \in {"write", "right", "root"} =>
           IF root = NoPage THEN c[fresh] # c[r] ELSE c[root] = c[r] => LeafBelow(work, n)
  PROVE  PagesBelow(view', owned', c2, r, n)
<1>1. StoreStep
  BY ProceedStore
<1>2. PagesBelow(view, owned, c2, r, n)
  BY PagesStayBelow
<1>3. CASE UNCHANGED <<view, disk, owned>>
  BY <1>2, <1>3
<1>4. CASE \E p \in Fresh : Allocates(p)
  <2>1. PICK p \in Fresh : Allocates(p)
    BY <1>4
  <2>2. /\ p \in PageNums /\ owned' = owned \cup {p} /\ view' = [view EXCEPT ![p] = Zero]
        /\ view \in [PageNums -> Pages]
    BY <2>1 DEF Fresh, Allocates, Store!Alloc, CallInv, Inv, TypeOK, Store!TypeOK
  <2>3. view'[p].type = "zero" /\ \A q \in owned : q # p => view'[q] = view[q]
    BY <2>2 DEF CallInv, Inv, TypeOK, Store!TypeOK, Zero
  <2> QED
    BY <1>2, <2>2, <2>3 DEF PagesBelow, LeafBelow
<1>5. CASE /\ pc \in {"write", "right", "root"}
           /\ Store!Write(Target, Image) \/ Store!WriteFails(Target, Image)
  <2>1. /\ owned' = owned /\ \A q \in PageNums : q # Target => view'[q] = view[q]
        /\ view'[Target] = Image /\ owned \subseteq PageNums
    BY <1>5, ImageWritten DEF CallInv, Inv, TypeOK, Store!TypeOK
  <2>2. Target \in owned /\ (root # NoPage => c[Target] = c[root])
        /\ (root = NoPage => Target = fresh)
    <3>1. CASE pc = "write"
      <4>1. path # <<>> /\ root # NoPage
        BY <3>1 DEF CallInv, Inv, PathGood, Arranged, PathArranged
      <4>2. Last(path) = path[Len(path)] /\ Len(path) \in 1 .. Len(path) /\ Last(path) \in owned
        BY <4>1, PathFacts, NodeAt DEF CallInv
      <4> QED
        BY <3>1, <4>1, <4>2 DEF Arranged, PathArranged, Target
    <3>2. CASE pc = "right"
      BY <3>2 DEF CallInv, Inv, WorkGood, Arranged, WorkArranged, Target
    <3>3. CASE pc = "root"
      BY <3>3 DEF CallInv, Inv, WorkGood, Arranged, WorkArranged, Target
    <3> QED
      BY <1>5, <3>1, <3>2, <3>3
  <2>3. c2[Target] = c[Target] /\ c2[r] = c[r]
    BY <2>2 DEF Extends
  <2>4. c[Target] = c[r] => LeafBelow(Image, n)
    BY <1>5, <2>2, ImageBelow DEF CallInv
  <2> SUFFICES ASSUME NEW q \in owned, c2[q] = c2[r] PROVE LeafBelow(view'[q], n)
    BY <2>1 DEF PagesBelow
  <2>5. CASE q = Target
    BY <2>1, <2>3, <2>4, <2>5
  <2>6. CASE q # Target
    BY <1>2, <2>1, <2>6 DEF PagesBelow
  <2> QED
    BY <2>5, <2>6
<1> QED
  BY <1>1, <1>3, <1>4, <1>5 DEF StoreStep

\* What a call reads is in its tree.
LEMMA LeafReadBelow ==
  ASSUME CallInv, NEW h, NEW c, Arranged(h, c), pc \in {"descend", "scan"}, path # <<>>,
         NEW n, PagesBelow(view, owned, c, root, n),
         NEW q \in {Head(path), Last(path)}, view[q].type = "leaf"
  PROVE  /\ q \in PageNums /\ view[q] \in RealNodes /\ view[q].cells \in Seq(LeafCells)
         /\ KeysBelow(view[q].cells, n)
<1>1. /\ Inv /\ q \in LinkedPages /\ Len(path) \in Nat \ {0}
      /\ Last(path) = path[Len(path)] /\ Head(path) = path[1]
  BY PathFacts DEF CallInv
<1>2. c[q] = c[root]
  BY <1>1 DEF Arranged, PathArranged
<1>3. q \in PageNums /\ q \in owned /\ view[q] \in RealNodes
  BY <1>1, NodeAt
<1> QED
  BY <1>2, <1>3, CellFacts DEF PagesBelow, LeafBelow

\* The leaf in hand has the keys of the leaf that was read and of the request.
LEMMA LeafWorkBelow ==
  ASSUME CallInv, NEW h, NEW c, Arranged(h, c), InsertLeaf \/ DeleteLeaf,
         NEW n, PagesBelow(view, owned, c, root, n),
         req.op = "insert" => req.key < n
  PROVE  pc' = "write" => LeafBelow(work', n)
<1> SUFFICES ASSUME pc' = "write" PROVE LeafBelow(work', n)
  OBVIOUS
<1> DEFINE cells == view[Last(path)].cells
<1>1. /\ pc = "descend" /\ path # <<>> /\ view[Last(path)].type = "leaf"
      /\ req \in Requests
  BY DEF InsertLeaf, DeleteLeaf, CallInv, Inv, PathGood, WorkGood
<1>2. cells \in Seq(LeafCells) /\ KeysBelow(cells, n)
  BY <1>1, LeafReadBelow
<1>3. \A i \in 1 .. Len(cells) : cells[i].key < n
  BY <1>2 DEF KeysBelow
<1>4. CASE InsertLeaf
  <2> DEFINE cell == [key |-> req.key, value |-> req.val]
  <2>1. cell \in LeafCells /\ cell.key < n
    BY <1>1, <1>4 DEF InsertLeaf, Requests, LeafCells
  <2>2. CASE \E i \in Positions(cells, req.key) : work' = Leaf([cells EXCEPT ![i] = cell])
    <3>1. PICK i \in 1 .. Len(cells) : work' = Leaf([cells EXCEPT ![i] = cell])
      BY <2>2 DEF Positions
    <3> HIDE DEF cells, cell
    <3>2. /\ Len([cells EXCEPT ![i] = cell]) = Len(cells)
          /\ \A j \in 1 .. Len(cells) : [cells EXCEPT ![i] = cell][j] \in {cell, cells[j]}
      BY <1>2, <2>1
    <3> QED
      BY <1>3, <2>1, <3>1, <3>2 DEF LeafBelow, KeysBelow, Leaf
  <2>3. CASE \E i \in Slots(cells, req.key) : work' = Leaf(InsertAt(cells, i, cell))
    <3>1. PICK i \in 1 .. Len(cells) + 1 : work' = Leaf(InsertAt(cells, i, cell))
      BY <2>3 DEF Slots
    <3> HIDE DEF cells, cell
    <3>a. PICK new : new = InsertAt(cells, i, cell)
      OBVIOUS
    <3>b. cells \in Seq(LeafCells) /\ cell \in LeafCells
      BY <1>2, <2>1
    <3>2. /\ Len(new) = Len(cells) + 1 /\ Len(cells) \in Nat
          /\ \A j \in 1 .. i - 1 : new[j] = cells[j]
          /\ new[i] = cell
          /\ \A j \in i .. Len(cells) : new[j + 1] = cells[j]
      BY <3>a, <3>b, InsertAtFacts
    <3>3. ASSUME NEW j \in 1 .. Len(new) PROVE new[j].key < n
      <4>1. CASE j < i
        <5>1. j \in 1 .. i - 1 /\ j \in 1 .. Len(cells)
          BY <3>2, <4>1
        <5> QED
          BY <1>3, <3>2, <5>1
      <4>2. CASE j = i
        BY <2>1, <3>2, <4>2
      <4>3. CASE j > i
        <5>1. j - 1 \in i .. Len(cells) /\ j - 1 \in 1 .. Len(cells) /\ (j - 1) + 1 = j
          BY <3>2, <4>3
        <5>2. new[(j - 1) + 1] = cells[j - 1]
          BY <3>2, <5>1
        <5> QED
          BY <1>3, <5>1, <5>2
      <4> QED
        BY <3>2, <4>1, <4>2, <4>3
    <3>4. work'.cells = new
      BY <3>1, <3>a DEF Leaf
    <3> QED
      BY <3>3, <3>4 DEF LeafBelow, KeysBelow
  <2> QED
    BY <1>4, <2>2, <2>3 DEF InsertLeaf
<1>5. CASE DeleteLeaf
  <2>1. PICK i \in 1 .. Len(cells) : work' = Leaf(RemoveAt(cells, i))
    BY <1>5 DEF DeleteLeaf, Positions, Return
  <2> DEFINE new == RemoveAt(cells, i)
  <2> HIDE DEF cells
  <2>2. /\ Len(new) = Len(cells) - 1 /\ Len(cells) \in Nat
        /\ \A j \in 1 .. Len(cells) - 1 : new[j] = IF j < i THEN cells[j] ELSE cells[j + 1]
    BY <1>2, RemoveAtCells
  <2> HIDE DEF new
  <2>3. ASSUME NEW j \in 1 .. Len(new) PROVE new[j].key < n
    <3>1. j \in 1 .. Len(cells) - 1 /\ j \in 1 .. Len(cells) /\ j + 1 \in 1 .. Len(cells)
      BY <2>2
    <3> QED
      BY <1>3, <2>2, <3>1
  <2>4. work'.cells = new
    BY <2>1 DEF new, Leaf
  <2> QED
    BY <2>3, <2>4 DEF LeafBelow, KeysBelow
<1> QED
  BY <1>4, <1>5

\* The rows that a call has found are in its tree.
LEMMA ReadingBelow ==
  ASSUME CallInv, NEW h, NEW c, Arranged(h, c), SearchLeaf \/ ScanLeaf,
         NEW n, PagesBelow(view, owned, c, root, n), KeysBelow(res.rows, n)
  PROVE  KeysBelow(res'.rows, n) /\ pc' \in {"idle", "scan"}
<1>0. path # <<>>
  BY DEF SearchLeaf, ScanLeaf, CallInv, Inv, PathGood
<1>1. CASE SearchLeaf
  <2> DEFINE cells == view[Last(path)].cells
  <2>1. cells \in Seq(LeafCells) /\ KeysBelow(cells, n)
    BY <1>0, <1>1, LeafReadBelow DEF SearchLeaf
  <2>2. pc' = "idle" /\ (res'.rows = <<>> \/ \E i \in 1 .. Len(cells) : res'.rows = <<cells[i]>>)
    BY <1>1 DEF SearchLeaf, Return, Positions
  <2> HIDE DEF cells
  <2> QED
    BY <2>1, <2>2 DEF KeysBelow
<1>2. CASE ScanLeaf
  <2> DEFINE cells == view[Head(path)].cells
             rows == res.rows
  <2>1. cells \in Seq(LeafCells) /\ KeysBelow(cells, n)
    BY <1>0, <1>2, LeafReadBelow DEF ScanLeaf
  <2>2. pc' = "scan" /\ rows \in Seq(LeafCells) /\ res'.rows = rows \o cells
    BY <1>2 DEF ScanLeaf, CallInv, Inv, TypeOK
  <2>3. KeysBelow(rows, n)
    OBVIOUS
  <2> HIDE DEF cells, rows
  <2>4. /\ Len(rows) \in Nat /\ Len(cells) \in Nat /\ Len(rows \o cells) = Len(rows) + Len(cells)
        /\ \A i \in 1 .. Len(rows) + Len(cells) :
             (rows \o cells)[i] = IF i <= Len(rows) THEN rows[i] ELSE cells[i - Len(rows)]
    BY <2>1, <2>2, ConcatProperties, LenProperties
  <2>5. ASSUME NEW i \in 1 .. Len(rows) + Len(cells) PROVE (rows \o cells)[i].key < n
    <3>1. CASE i <= Len(rows)
      BY <2>3, <2>4, <3>1 DEF KeysBelow
    <3>2. CASE ~(i <= Len(rows))
      <4>1. i - Len(rows) \in 1 .. Len(cells)
        BY <2>4, <3>2
      <4> QED
        BY <2>1, <2>4, <3>2, <4>1 DEF KeysBelow
    <3> QED
      BY <3>1, <3>2
  <2> QED
    BY <2>2, <2>4, <2>5 DEF KeysBelow
<1> QED
  BY <1>1, <1>2

\* The call has a node in hand.
Writing == {"write", "alloc", "right", "rootalloc", "root"}

\* So has the node in hand after every step of a call, and so have the rows found.
LEMMA TreeCallBelow ==
  ASSUME CallInv, NEW h, NEW c, Arranged(h, c), Proceed,
         NEW n, PagesBelow(view, owned, c, root, n),
         req.op = "insert" => req.key < n,
         pc \in Writing => LeafBelow(work, n), KeysBelow(res.rows, n)
  PROVE  /\ pc' \in Writing => LeafBelow(work', n)
         /\ KeysBelow(res'.rows, n)
<1> USE DEF Writing
<1>a. KeysBelow(<<>>, n)
  BY DEF KeysBelow
<1>1. CASE SearchLeaf \/ ScanLeaf
  BY <1>1, ReadingBelow
<1>2. CASE InsertLeaf \/ DeleteLeaf
  BY <1>a, <1>2, LeafWorkBelow DEF InsertLeaf, DeleteLeaf, Return
<1>3. CASE DescendInternal \/ ScanInternal
  BY <1>3 DEF DescendInternal, ScanInternal
<1>4. CASE ScanReturns \/ WriteWhole \/ WriteRoot \/ ReadFails \/ WriteFails \/ AllocateFails
  BY <1>a, <1>4 DEF ScanReturns, WriteWhole, WriteRoot, ReadFails, WriteFails, AllocateFails, Return
<1>5. CASE WriteLeft \/ AllocateRight \/ AllocateRoot
  BY <1>5 DEF WriteLeft, AllocateRight, AllocateRoot
<1>6. CASE WriteRight \/ WriteRightOfRoot
  <2>1. work'.type = "internal" \/ pc' = "panic"
    <3>1. \A node, i, k, l, x : WithSplitChild(node, i, k, l, x).type = "internal"
      BY DEF WithSplitChild, Internal
    <3> QED
      BY <1>6, <3>1 DEF WriteRight, WriteRightOfRoot, Internal
  <2> QED
    BY <1>6, <2>1 DEF WriteRight, WriteRightOfRoot, LeafBelow
<1>7. CASE ReadPanics \/ WritePanics
  BY <1>7 DEF ReadPanics, WritePanics, Panics
<1> QED
  BY <1>1, <1>2, <1>3, <1>4, <1>5, <1>6, <1>7 DEF Proceed

\* A search of a tree whose keys are all below does not find its key.
LEMMA SearchBelow ==
  ASSUME CallInv, NEW h, NEW c, Arranged(h, c), Proceed, pc = "descend", req.op = "search",
         PagesBelow(view, owned, c, root, req.key)
  PROVE  IF pc' = "idle" THEN res'.status # "ok" ELSE pc' \in {"descend", "panic"}
<1>1. DescendInternal \/ SearchLeaf \/ ReadFails \/ ReadPanics
  BY DEF Proceed, InsertLeaf, DeleteLeaf, ScanLeaf, ScanInternal, ScanReturns, WriteWhole,
     WriteLeft, AllocateRight, WriteRight, WriteRightOfRoot, AllocateRoot, WriteRoot,
     WriteFails, AllocateFails, WritePanics
<1>2. CASE DescendInternal
  BY <1>2 DEF DescendInternal
<1>3. CASE ReadFails
  BY <1>3 DEF ReadFails, Return
<1>4. CASE ReadPanics
  BY <1>4 DEF ReadPanics, Panics
<1>5. CASE SearchLeaf
  <2> DEFINE node == view[Last(path)]
  <2>1. path # <<>> /\ node.type = "leaf" /\ req \in Requests
    BY <1>5 DEF SearchLeaf, CallInv, Inv, PathGood, WorkGood
  <2>2. node \in RealNodes /\ KeysBelow(node.cells, req.key)
    BY <2>1, LeafReadBelow
  <2>3. Positions(node.cells, req.key) = {}
    <3> SUFFICES ASSUME NEW i \in 1 .. Len(node.cells), node.cells[i].key = req.key PROVE FALSE
      BY DEF Positions
    <3> HIDE DEF node
    <3>1. node.cells[i].key \in Int
      BY <2>2, CellFacts, BTreeAssumption
    <3> QED
      BY <2>2, <3>1 DEF KeysBelow
  <2> QED
    BY <1>5, <2>3 DEF SearchLeaf, Return
<1> QED
  BY <1>1, <1>2, <1>3, <1>4, <1>5

\* A step inside a call writes only such keys.
LEMMA ProceedBelow ==
  ASSUME CallInv, NEW h, NEW c, Layout(h, c), NEW h2, NEW c2, Extends(h, c, h2, c2),
         RowKeys(c), BTreeProceeds
  PROVE  RowKeys(c2)'
<1> USE DEF BTreeProceeds
<1>0. stmt # NoStmt /\ stmt \in Stmts /\ stmt.phase = "wait" /\ stmt.table \in Tables
      /\ Arranged(h, c) /\ Apart(c) /\ pc \notin {"idle", "panic"}
  BY ProceedFacts, StmtFacts DEF CallInv, StmtGood, Layout
<1> SUFFICES ASSUME crashes = 0, NEW t \in RowIdTables, mem[t] # NoTable
             PROVE  /\ PagesBelow(view', owned', c2, mem[t].root, mem[t].next)
                    /\ Working(t) => \A info : info = mem[t] => StmtBelow(c2, info)'
  BY DEF RowKeys, Working
<1> DEFINE r == mem[t].root
           n == mem[t].next
<1>1. PagesBelow(view, owned, c, r, n) /\ r \in owned /\ t \in Tables /\ n \in Nat
      /\ (Working(t) => StmtBelow(c, mem[t]))
  BY TablesFacts DEF RowKeys
<1>2. stmt.kind # "drop" /\ (stmt.kind = "create" => pc = "root" /\ root = NoPage)
      /\ (stmt.kind # "create" => Calling)
  BY <1>0 DEF CallInv, StmtGood, Creating
<1>3. CASE ~Working(t)
  <2>1. CASE stmt.kind = "create"
    <3>1. fresh # NoPage
      BY <1>2, <2>1, BTreeAssumption DEF CallInv, Inv, WorkGood, TypeOK, Store!TypeOK, NoPage
    <3>2. c[fresh] # c[r] /\ root = NoPage
      BY <1>0, <1>1, <1>2, <2>1, <3>1 DEF Apart, StmtApart, NewTreeApart
    <3> HIDE DEF r, n
    <3>3. PagesBelow(view', owned', c2, r, n)
      BY <1>0, <1>1, <3>2, PagesWrittenBelow
    <3> QED
      BY <1>3, <3>3 DEF r, n
  <2>2. CASE stmt.kind # "create"
    <3>1. root # NoPage /\ mem[stmt.table] # NoTable /\ stmt.table # t
      BY <1>0, <1>2, <1>3, <2>2 DEF Calling, Working
    <3>2. c[root] # c[r]
      BY <1>0, <1>1, <1>2, <2>2, <3>1 DEF Apart, StmtApart, TablesApart
    <3> HIDE DEF r, n
    <3>3. PagesBelow(view', owned', c2, r, n)
      BY <1>0, <1>1, <3>1, <3>2, PagesWrittenBelow
    <3> QED
      BY <1>3, <3>3 DEF r, n
  <2> QED
    BY <2>1, <2>2
<1>4. CASE Working(t)
  <2>1. /\ Calling /\ root # NoPage /\ stmt.table = t /\ req = Head(stmt.todo)
        /\ stmt.todo # <<>> /\ StmtBelow(c, mem[t])
    BY <1>0, <1>1, <1>2, <1>4 DEF Working, Calling
  <2>2. c[root] = c[r] /\ root \in owned
    BY <1>0, <1>4, <2>1, RootsOwned DEF Apart, StmtApart, Working
  <2>3. PagesBelow(view, owned, c, root, n)
    BY <1>1, <2>2 DEF PagesBelow
  <2>4. /\ pc \in Writing => LeafBelow(work, n)
        /\ KeysBelow(res.rows, n) /\ RequestsBelow(stmt.todo, n)
    BY <1>0, <2>1 DEF StmtBelow, Writing
  <2>5. req.op = "insert" => req.key < n
    <3>1. stmt.todo \in Seq(Requests) /\ Head(stmt.todo) = stmt.todo[1] /\ 1 \in 1 .. Len(stmt.todo)
      BY <1>0, <2>1, StmtFacts
    <3> QED
      BY <2>1, <2>4, <3>1 DEF RequestsBelow
  <2>a. root # NoPage /\ Proceed
    BY <2>1
  <2> HIDE DEF r, n
  <2>6. PagesBelow(view', owned', c2, r, n)
    BY <1>0, <1>1, <2>a, <2>4, PagesWrittenBelow DEF Writing
  <2>7. (pc' \in Writing => LeafBelow(work', n)) /\ KeysBelow(res'.rows, n)
    BY <1>0, <2>a, <2>3, <2>4, <2>5, TreeCallBelow
  <2>8. Searching =>
          /\ PagesBelow(view', owned', c2, r, n - 1)
          /\ IF pc' = "idle" THEN res'.status # "ok" ELSE pc' \in {"descend", "panic"}
    <3> SUFFICES ASSUME Searching
                 PROVE  /\ PagesBelow(view', owned', c2, r, n - 1)
                        /\ IF pc' = "idle" THEN res'.status # "ok" ELSE pc' \in {"descend", "panic"}
      OBVIOUS
    <3>1. pc = "descend" /\ PagesBelow(view, owned, c, r, n - 1) /\ stmt.keys = {n - 1}
      BY <1>0, <2>1 DEF StmtBelow, Searching, r, n
    <3>2. req.op = "search" /\ req.key = n - 1
      <4>1. PICK k \in Keys :
              /\ stmt.keys = {k}
              /\ stmt.todo \in {<<[op |-> "search", key |-> k],
                                  [op |-> "insert", key |-> k, val |-> stmt.val]>>,
                                <<[op |-> "insert", key |-> k, val |-> stmt.val]>>, <<>>}
        BY <2>1 DEF Calling, Inserting, Searching
      <4> DEFINE s1 == [op |-> "search", key |-> k]
                 s2 == [op |-> "insert", key |-> k, val |-> stmt.val]
      <4>2. stmt.todo \in {<<s1, s2>>, <<s2>>, <<>>}
        BY <4>1
      <4>3. /\ Head(<<s1, s2>>) = s1 /\ Head(<<s2>>) = s2
            /\ s1.op = "search" /\ s2.op = "insert" /\ s1.key = k
        OBVIOUS
      <4> HIDE DEF s1, s2
      <4>4. req = s1
        BY <2>1, <4>2, <4>3 DEF Searching
      <4> QED
        BY <3>1, <4>1, <4>3, <4>4
    <3>3. PagesBelow(view, owned, c, root, req.key)
      BY <2>2, <3>1, <3>2 DEF PagesBelow
    <3>4. IF pc' = "idle" THEN res'.status # "ok" ELSE pc' \in {"descend", "panic"}
      BY <1>0, <2>a, <3>1, <3>2, <3>3, SearchBelow
    <3>5. PagesBelow(view', owned', c2, r, n - 1)
      BY <1>0, <1>1, <2>a, <3>1, PagesWrittenBelow
    <3> QED
      BY <3>4, <3>5
  <2>9. ASSUME NEW info, info = mem[t] PROVE StmtBelow(c2, info)'
    <3>1. info.root = r /\ info.next = n /\ stmt' = stmt /\ mem' = mem
      BY <2>9 DEF r, n
    <3>2. stmt.kind = "insert" => stmt.keys = {n - 1}
      BY <2>1 DEF StmtBelow, n
    <3>3. Searching' <=> Searching
      BY <3>1 DEF Searching
    <3> QED
      BY <1>0, <2>4, <2>7, <2>8, <3>1, <3>2, <3>3 DEF StmtBelow, Writing
  <2> QED
    BY <2>6, <2>9 DEF r, n
<1> QED
  BY <1>3, <1>4

\* Every step of the database keeps the keys below NextRowID.
LEMMA RowKeysStep ==
  ASSUME CallInv, NEW h, NEW c, Layout(h, c), RowKeys(c), [DatabaseNext]_databaseVars,
         NEW h2, NEW c2, Layout(h2, c2)', Extends(h, c, h2, c2)
  PROVE  RowKeys(c2)'
<1>a. Arranged(h, c) /\ Apart(c) /\ Apart(c2)'
  BY DEF Layout
<1>1. CASE \E t \in Tables : Create(t)
  BY <1>1, <1>a, CreateBelow
<1>2. CASE Ends \/ \E t \in Tables : CreateFails(t) \/ Drop(t)
  <2>1. /\ UNCHANGED <<view, owned, crashes>>
        /\ \A t \in Tables : mem'[t] # NoTable => mem'[t] = mem[t]
        /\ stmt' # NoStmt => stmt'.kind \in {"create", "drop"}
    BY <1>2, EndsFacts DEF CallInv, CatalogGood, Finish, CreateFails, NewBTreeFails, Drop, Ready, vars
  <2> QED
    BY <2>1, NoTreeBelow
<1>3. CASE \/ \E t \in Tables, k \in Keys, v \in Vals : Insert(t, k, v)
           \/ \E t \in Tables, keys \in SUBSET Keys, val \in Vals \cup {Absent},
                 kind \in {"update", "delete", "select"} : ScanAllRows(kind, t, keys, val)
  BY <1>3, InsertBelow, ScanBelow
<1>4. CASE CallBTree \/ BTreeProceeds \/ TableCreated \/ Scanned \/ CallDone
  BY <1>4, <1>a, CallBelow, ProceedBelow, TableCreatedBelow, ScannedBelow, CallDoneBelow
<1>5. CASE Crash
  BY <1>5 DEF Crash, CallInv, RowKeys
<1>6. CASE UNCHANGED databaseVars
  <2> SUFFICES ASSUME crashes = 0, NEW t \in RowIdTables, mem[t] # NoTable
               PROVE  /\ PagesBelow(view, owned, c2, mem[t].root, mem[t].next)
                      /\ Working(t) => StmtBelow(c2, mem[t])'
    BY <1>6 DEF databaseVars, vars, RowKeys, Working
  <2>1. /\ PagesBelow(view, owned, c, mem[t].root, mem[t].next) /\ mem[t].root \in owned
        /\ Working(t) => StmtBelow(c, mem[t])
    BY TablesFacts DEF RowKeys
  <2>2. PagesBelow(view, owned, c2, mem[t].root, mem[t].next)
    BY <2>1, PagesStayBelow
  <2>3. ASSUME Working(t) PROVE StmtBelow(c2, mem[t])'
    <3>1. Searching => PagesBelow(view, owned, c2, mem[t].root, mem[t].next - 1)
      BY <2>1, <2>3, PagesStayBelow DEF StmtBelow
    <3> QED
      BY <1>6, <2>1, <2>3, <3>1 DEF databaseVars, vars, call, StmtBelow, Searching
  <2> QED
    BY <2>2, <2>3
<1> QED
  BY <1>1, <1>2, <1>3, <1>4, <1>5, <1>6, DatabaseSteps

\* Then the next row id is not among the keys of its table.
LEMMA RowIdsAreFresh ==
  ASSUME CallInv, NEW c, RowKeys(c)
  PROVE  RowIdsFresh
<1> SUFFICES ASSUME Returned, stmt.kind = "insert", stmt.table \in RowIdTables,
                    stmt.todo # <<>>, crashes = 0, Refused
             PROVE  FALSE
  BY DEF RowIdsFresh
<1>1. mem[stmt.table] # NoTable /\ Working(stmt.table)
  BY DEF CallInv, StmtGood, Calling, Working, Returned
<1>2. StmtBelow(c, mem[stmt.table])
  BY <1>1 DEF RowKeys
<1> QED
  BY <1>2 DEF StmtBelow, Searching, Refused, Returned

----------------------------------------------------------------------------
\* The trees of all tables

\* The roots that a catalog has for some tables.
RootsOf(cat, tables) == {cat[t].root : t \in {u \in tables : cat[u] # NoTable}}

\* The roots that the process has, and those that a restart would find.
TableRoots == RootsOf(mem, Tables) \cup RootsOf(saved, Tables)

\* No statement is at work on these.
RestingTables == IF stmt = NoStmt THEN Tables ELSE Tables \ {stmt.table}

\* They are the tops of their trees.
RestingRoots == RootsOf(mem, RestingTables)

\* The pages of the process are those that it has itself written, whether or not
\* the file has them too.
Clear == ioErrors = 0 \/ crashes = 0

\* As long as every pager call succeeds the file has the pages of the process.
\* These hold a tree for every table until a process starts on what failing
\* calls have left in the file.
Trees ==
  /\ ioErrors = 0 => view = disk
  /\ Clear => HasTree(TableRoots, RestingRoots)

\* Trees only grow at the top: the catalog in memory has a root that page 1 has
\* too or one above it, and the statement has one that is still higher.
Stacked(h, c) ==
  /\ \A t \in Tables :
       mem[t] # NoTable /\ saved[t] # NoTable /\ c[saved[t].root] = c[mem[t].root] =>
         h[saved[t].root] <= h[mem[t].root]
  /\ stmt # NoStmt /\ stmt.kind \notin {"create", "drop"} =>
       h[mem[stmt.table].root] <= h[root]

\* None of the known pages is above one of the roots in its tree.
Topmost(T, h, c, known, roots) ==
  /\ known \subseteq T /\ roots \subseteq T
  /\ \A r \in roots : \A q \in known \cup roots : c[q] = c[r] => h[q] <= h[r]

\* Pages are made the tops of their trees by leaving out what is above them.
LEMMA TopsMade ==
  ASSUME NEW m, NEW T, NEW g, NEW under, NEW tops, Tree(m, T, g, under, tops),
         NEW h, NEW c, h \in [PageNums -> Nat], PagesArranged(m, h, c),
         NEW known, NEW roots, Topmost(T, h, c, known, roots)
  PROVE  \E U, V : /\ U \subseteq T /\ V \subseteq U /\ known \subseteq U /\ roots \subseteq V
                   /\ Tree(m, U, g, under, V)
<1> DEFINE U == {q \in T : \A r \in roots : c[q] = c[r] => h[q] <= h[r]}
           V == (tops \cap U) \cup roots
<1>1. /\ m \in [PageNums -> Pages] /\ T \subseteq PageNums
      /\ \A q \in T : \A i \in Ways(m[q]) : Child(m[q], i) \in T \ tops
  BY TreeNode
<1>2. known \subseteq U /\ roots \subseteq U /\ U \subseteq T
  BY DEF Topmost
<1>3. ASSUME NEW q \in U, NEW i \in Ways(m[q])
      PROVE  Child(m[q], i) \in U \ roots
  <2> DEFINE x == Child(m[q], i)
  <2>1. q \in T /\ q \in PageNums /\ x \in T
    BY <1>1
  <2>2. x \in PageNums /\ c[x] = c[q] /\ h[x] < h[q]
    <3>1. /\ Falling(m, h)
          /\ \A p \in PageNums : \A j \in Ways(m[p]) :
               Child(m[p], j) \in PageNums /\ c[Child(m[p], j)] = c[p]
      BY <1>1, ArrangedFalls
    <3> QED
      BY <2>1, <3>1 DEF Falling
  <2> HIDE DEF x
  <2>3. \A r \in roots : c[q] = c[r] => h[q] <= h[r]
    OBVIOUS
  <2>4. h[x] \in Nat /\ h[q] \in Nat /\ \A r \in roots : h[r] \in Nat
    BY <1>1, <2>1, <2>2 DEF Topmost
  <2>5. x \notin roots
    BY <2>2, <2>3, <2>4
  <2>6. \A r \in roots : c[x] = c[r] => h[x] <= h[r]
    BY <2>2, <2>3, <2>4
  <2> QED
    BY <2>1, <2>5, <2>6 DEF x
<1> HIDE DEF U
<1>4. Tree(m, U, g, under, V)
  BY <1>2, <1>3, PagesLeft
<1> QED
  BY <1>2, <1>4

\* The trees that the next state is known to have.
LEMMA TreesThen ==
  ASSUME NEW T, NEW tops, NEW h, NEW under,
         TableRoots' \subseteq T, RestingRoots' \subseteq tops,
         TreeState(view', owned', root', pc', req', path', work', T, tops, h, under)
  PROVE  HasTree(TableRoots, RestingRoots)'
<1>1. /\ T \in SUBSET PageNums /\ tops \in SUBSET PageNums /\ h \in [PageNums -> Nat]
      /\ under \in [PageNums -> SUBSET Int]
  BY TreeNode DEF TreeState
<1> QED
  BY <1>1 DEF HasTree

\* All of them are pages in use.
LEMMA RootsFacts ==
  ASSUME CallInv
  PROVE  /\ TableRoots \subseteq owned /\ RestingRoots \subseteq TableRoots
         /\ TableRoots \subseteq PageNums /\ NoPage \notin TableRoots
         /\ owned \subseteq PageNums
<1>1. owned \subseteq PageNums /\ NoPage \notin PageNums
  BY BTreeAssumption DEF CallInv, Inv, TypeOK, Store!TypeOK, NoPage
<1>2. TableRoots \subseteq owned
  BY RootsOwned DEF TableRoots, RootsOf
<1>3. RestingRoots \subseteq TableRoots
  BY DEF TableRoots, RestingRoots, RootsOf, RestingTables
<1> QED
  BY <1>1, <1>2, <1>3

\* The statement works on a tree of its own.
LEMMA RootNotResting ==
  ASSUME CallInv, NEW h, NEW c, Layout(h, c)
  PROVE  root \notin RestingRoots
<1> USE DEF Layout, Apart
<1>1. CASE root = NoPage
  BY <1>1, RootsFacts
<1>2. CASE root # NoPage
  <2>1. stmt # NoStmt /\ stmt.table \in Tables /\ stmt \in Stmts
    BY <1>2, StmtFacts DEF CallInv, StmtGood
  <2> DEFINE t == stmt.table
  <2> SUFFICES ASSUME NEW u \in Tables \ {t}, mem[u] # NoTable PROVE c[mem[u].root] # c[root]
    BY <2>1 DEF RestingRoots, RootsOf, RestingTables
  <2>2. CASE stmt.kind = "create" /\ stmt.phase = "wait"
    <3>1. NewTreeApart(c, root)
      BY <1>2, <2>1, <2>2 DEF StmtApart
    <3> QED
      BY <3>1 DEF NewTreeApart
  <2>3. CASE stmt.kind = "create" /\ stmt.phase = "save"
    <3>1. mem[t] = [root |-> root, next |-> 1]
      BY <2>1, <2>3 DEF CallInv, StmtGood, Creating
    <3>2. mem[t] \in Infos /\ mem[t].root = root
      BY <1>2, <3>1 DEF CallInv, Inv, TypeOK, Infos
    <3>3. mem[t] # NoTable
      BY <3>2, DatabaseAssumption
    <3> QED
      BY <2>1, <3>2, <3>3 DEF TablesApart
  <2>4. CASE stmt.kind = "drop"
    BY <1>2, <2>1, <2>4 DEF CallInv, StmtGood
  <2>5. CASE stmt.kind \notin {"create", "drop"}
    <3>1. c[root] = c[mem[t].root] /\ mem[t] # NoTable
      BY <2>1, <2>5 DEF StmtApart, CallInv, StmtGood, Calling
    <3> QED
      BY <2>1, <3>1 DEF TablesApart
  <2>6. stmt.kind = "create" => stmt.phase \in {"wait", "save"}
    BY <2>1 DEF CallInv, StmtGood, Creating
  <2> QED
    BY <2>2, <2>3, <2>4, <2>5, <2>6
<1> QED
  BY <1>1, <1>2
\* Without a failing pager call the file holds what the process sees.
LEMMA TreeStepErrors ==
  ASSUME Inv, [Next]_vars, ioErrors' = 0
  PROVE  /\ ioErrors = 0
         /\ view = disk => view' = disk'
<1>1. ioErrors \in Nat
  BY BTreeAssumption DEF Inv, TypeOK
<1>2. IOError \/ UNCHANGED ioErrors
  <2>1. CASE \/ NewBTree \/ NewBTreeFails \/ (\E r \in Requests : Call(r)) \/ UNCHANGED vars
    BY <2>1 DEF NewBTree, NewBTreeFails, Call, vars
  <2>2. CASE \/ DescendInternal \/ SearchLeaf \/ InsertLeaf \/ DeleteLeaf
             \/ ScanLeaf \/ ScanInternal \/ ScanReturns
    BY <2>2 DEF DescendInternal, SearchLeaf, InsertLeaf, DeleteLeaf, ScanLeaf, ScanInternal,
       ScanReturns
  <2>3. CASE \/ WriteWhole \/ WriteLeft \/ AllocateRight \/ WriteRight
             \/ WriteRightOfRoot \/ AllocateRoot \/ WriteRoot
    BY <2>3 DEF WriteWhole, WriteLeft, AllocateRight, WriteRight, WriteRightOfRoot,
       AllocateRoot, WriteRoot
  <2>4. CASE ReadFails \/ WriteFails \/ AllocateFails \/ ReadPanics \/ WritePanics
    BY <2>4 DEF ReadFails, WriteFails, AllocateFails, ReadPanics, WritePanics, Panics
  <2> QED
    BY <2>1, <2>2, <2>3, <2>4 DEF Next, Proceed
<1>3. ~IOError
  BY <1>1 DEF IOError
<1>4. CASE \/ NewBTreeFails \/ (\E r \in Requests : Call(r)) \/ UNCHANGED vars
  BY <1>2, <1>3, <1>4 DEF NewBTreeFails, Call, vars
<1>5. CASE NewBTree
  BY <1>2, <1>3, <1>5 DEF NewBTree, Allocates, Store!Alloc
<1>6. CASE Proceed
  <2>1. StoreStep
    BY <1>6, ProceedStore
  <2> QED
    BY <1>2, <1>3, <2>1 DEF StoreStep, Allocates, Store!Alloc, Store!Write
<1> QED
  BY <1>4, <1>5, <1>6 DEF Next

\* A step of a tree leaves the roots of the others alone.
LEMMA TreesGrow ==
  ASSUME CallInv, NEW h, NEW c, Layout(h, c), Trees, [Next]_vars, crashes' = crashes,
         TableRoots' = TableRoots, RestingRoots' = RestingRoots
  PROVE  Trees'
<1>1. Inv
  BY DEF CallInv
<1>2. ioErrors' = 0 => ioErrors = 0 /\ view' = disk'
  BY <1>1, TreeStepErrors DEF Trees
<1>3. ASSUME Clear' PROVE HasTree(TableRoots, RestingRoots)'
  <2>1. HasTree(TableRoots, RestingRoots)
    BY <1>2, <1>3 DEF Trees, Clear
  <2>2. PICK known, roots : known = TableRoots /\ roots = RestingRoots
    OBVIOUS
  <2>3. TreeWith(known, roots)
    BY <1>1, <2>1, <2>2, RootNotResting DEF TreeWith
  <2>4. HasTree(known, roots)'
    BY <2>3, TreeStep
  <2> QED
    BY <2>2, <2>4 DEF HasTree
<1> QED
  BY <1>2, <1>3 DEF Trees

\* The trees stay as they are, and their roots are at hand.
LEMMA TreesHeld ==
  ASSUME Trees, UNCHANGED <<view, disk, owned, pc, req, path, work, crashes>>,
         ioErrors' = ioErrors \/ IOError, Inv,
         root' = root \/ (pc = "idle" /\ (root' = NoPage \/ root' \in RestingRoots)),
         TableRoots' \subseteq TableRoots \cup ({root} \ {NoPage}),
         RestingRoots' \subseteq RestingRoots \cup ({root} \ {NoPage})
  PROVE  Trees'
<1>1. ioErrors' = 0 => ioErrors = 0
  BY BTreeAssumption DEF Inv, TypeOK, IOError
<1> SUFFICES ASSUME Clear' PROVE HasTree(TableRoots, RestingRoots)'
  BY <1>1 DEF Trees
<1>2. PICK T, tops \in SUBSET PageNums,
           h \in [PageNums -> Nat], under \in [PageNums -> SUBSET Int] :
        /\ TableRoots \subseteq T /\ RestingRoots \subseteq tops
        /\ TreeState(view, owned, root, pc, req, path, work, T, tops, h, under)
  BY <1>1 DEF Trees, Clear, HasTree
<1>3. tops \subseteq T /\ (root = NoPage \/ root \in tops)
  BY <1>2 DEF TreeState
<1>4. TableRoots' \subseteq T /\ RestingRoots' \subseteq tops
  BY <1>2, <1>3
<1>5. TreeState(view', owned', root', pc', req', path', work', T, tops, h, under)
  <2>1. CASE root' = root
    BY <1>2, <2>1 DEF TreeState
  <2>2. CASE pc = "idle" /\ (root' = NoPage \/ root' \in RestingRoots)
    BY <1>2, <2>2 DEF TreeState
  <2> QED
    BY <2>1, <2>2
<1> QED
  BY <1>4, <1>5, TreesThen

\* A statement gives up its root: the tables keep theirs, and what is above
\* them belongs to no table any more.
LEMMA TreesGivenUp ==
  ASSUME CallInv', NEW h, NEW c, Layout(h, c)', Stacked(h, c)', Trees, Inv,
         owned' = owned, disk' = disk, ioErrors' = ioErrors \/ IOError,
         \/ view' = view /\ crashes' = crashes
         \/ view' = disk /\ crashes \in Nat /\ crashes' = crashes + 1,
         stmt' = NoStmt, root' = NoPage, pc' \in {"idle", "panic"},
         mem' \in {mem, saved}, saved' \in {mem, saved}
  PROVE  Trees'
<1>1. ioErrors' = 0 => ioErrors = 0
  BY BTreeAssumption DEF Inv, TypeOK, IOError
<1> SUFFICES ASSUME Clear' PROVE HasTree(TableRoots, RestingRoots)'
  BY <1>1 DEF Trees
<1>2. view' = view /\ Clear
  BY <1>1 DEF Trees, Clear
<1>3. PICK T, tops \in SUBSET PageNums,
           g \in [PageNums -> Nat], under \in [PageNums -> SUBSET Int] :
        /\ TableRoots \subseteq T
        /\ TreeState(view, owned, root, pc, req, path, work, T, tops, g, under)
  BY <1>2 DEF Trees, HasTree
<1>4. T \subseteq owned /\ Tree(view, T, g, under, tops)
  BY <1>3 DEF TreeState
<1> DEFINE known == RootsOf(mem', Tables) \cup RootsOf(saved', Tables)
           roots == RootsOf(mem', Tables)
<1>5. TableRoots' = known /\ RestingRoots' = roots
  BY DEF TableRoots, RestingRoots, RestingTables, RootsOf
<1>6. roots \subseteq T /\ known \subseteq T
  BY <1>3 DEF TableRoots
<1>7. /\ h \in [PageNums -> Nat] /\ PagesArranged(view', h, c)
  BY DEF Layout, Arranged
<1>8. Topmost(T, h, c, known, roots)
  <2> SUFFICES ASSUME NEW t \in Tables, mem'[t] # NoTable,
                      NEW a \in {mem', saved'}, NEW u \in Tables, a[u] # NoTable,
                      c[a[u].root] = c[mem'[t].root]
               PROVE  h[a[u].root] <= h[mem'[t].root]
    BY <1>6 DEF RootsOf, Topmost
  <2>1. u = t
    BY DEF Layout, Apart, TablesApart
  <2>2. mem'[t].root \in PageNums
    BY DEF CallInv, CatalogGood, LinkedPages, Inv, TypeOK, Store!TypeOK
  <2>3. CASE a = saved'
    BY <2>1, <2>3 DEF Stacked
  <2>4. CASE a = mem'
    BY <1>7, <2>1, <2>2, <2>4
  <2> QED
    BY <2>3, <2>4
<1> HIDE DEF known, roots
<1>9. PICK U, V : /\ U \subseteq T /\ V \subseteq U /\ known \subseteq U /\ roots \subseteq V
                  /\ Tree(view', U, g, under, V)
  <2>1. PICK m : m = view'
    OBVIOUS
  <2>2. Tree(m, T, g, under, tops) /\ PagesArranged(m, h, c)
    BY <1>2, <1>4, <1>7, <2>1
  <2>3. PICK U, V : /\ U \subseteq T /\ V \subseteq U /\ known \subseteq U /\ roots \subseteq V
                    /\ Tree(m, U, g, under, V)
    BY <1>7, <1>8, <2>2, TopsMade
  <2> QED
    BY <2>1, <2>3
<1>10. TreeState(view', owned', root', pc', req', path', work', U, V, g, under)
  BY <1>4, <1>9 DEF TreeState
<1> QED
  BY <1>5, <1>9, <1>10, TreesThen

\* The roots of the tables rise.
LEMMA StackedStay ==
  ASSUME CallInv, NEW h, NEW c, Stacked(h, c), NEW h2, NEW c2, Extends(h, c, h2, c2),
         UNCHANGED <<mem, saved, root, stmt>>
  PROVE  Stacked(h2, c2)'
<1>1. \A a \in {mem, saved} : \A t \in Tables : a[t] # NoTable =>
        /\ a[t].root \in owned
        /\ h2[a[t].root] = h[a[t].root] /\ c2[a[t].root] = c[a[t].root]
  BY RootsOwned DEF Extends
<1>2. stmt # NoStmt /\ stmt.kind \notin {"create", "drop"} =>
        /\ h2[mem[stmt.table].root] = h[mem[stmt.table].root]
        /\ h2[root] = h[root]
  <2> SUFFICES ASSUME stmt # NoStmt, stmt.kind \notin {"create", "drop"}
               PROVE  /\ h2[mem[stmt.table].root] = h[mem[stmt.table].root]
                      /\ h2[root] = h[root]
    OBVIOUS
  <2>1. stmt.table \in Tables /\ Calling
    BY StmtFacts DEF CallInv, StmtGood
  <2>2. root \in owned /\ mem[stmt.table] # NoTable
    BY <2>1, RootsOwned DEF Calling
  <2> QED
    BY <1>1, <2>1, <2>2 DEF Extends
<1> QED
  BY <1>1, <1>2 DEF Stacked

\* Catalogs with the roots of before, for a statement that has none yet.
LEMMA StackedKept ==
  ASSUME NEW h, NEW c, Stacked(h, c),
         \A t \in Tables : mem'[t] # NoTable => mem[t] # NoTable /\ mem'[t].root = mem[t].root,
         saved' = saved,
         \/ stmt' = NoStmt \/ stmt'.kind \in {"create", "drop"}
         \/ h[mem'[stmt'.table].root] <= h[root']
  PROVE  Stacked(h, c)'
  BY DEF Stacked

\* All of them are pages.
LEMMA RootsTyped ==
  ASSUME CallInv
  PROVE  /\ \A a \in {mem, saved} : \A t \in Tables : a[t] # NoTable => a[t].root \in PageNums
         /\ root # NoPage => root \in PageNums
  BY RootsOwned DEF CallInv, Inv, TypeOK, Store!TypeOK

\* The root of the statement only rises inside a call.
LEMMA StackedCalls ==
  ASSUME CallInv, NEW h, NEW c, Layout(h, c), Stacked(h, c), BTreeProceeds,
         NEW h2, NEW c2, Extends(h, c, h2, c2)
  PROVE  Stacked(h2, c2)'
<1> USE DEF BTreeProceeds
<1>1. CASE root' = root
  BY <1>1, StackedStay
<1>2. CASE root' # root
  <2>1. /\ pc = "root" /\ root' = fresh /\ stmt # NoStmt /\ stmt \in Stmts
        /\ stmt.table \in Tables
    BY <1>2, ProceedFacts, StmtFacts DEF CallInv, StmtGood
  <2>2. \A a \in {mem, saved} : \A t \in Tables : a[t] # NoTable =>
          /\ h2[a[t].root] = h[a[t].root] /\ c2[a[t].root] = c[a[t].root]
    BY RootsOwned DEF Extends
  <2>3. ASSUME stmt.kind \notin {"create", "drop"}
        PROVE  h2[mem[stmt.table].root] <= h2[fresh]
    <3>1. Calling
      BY <2>1, <2>3 DEF CallInv, StmtGood
    <3>2. root # NoPage /\ mem[stmt.table] # NoTable /\ fresh \in owned
      BY <2>1, <3>1, RootsOwned DEF Calling
    <3>3. h[root] < h[fresh] /\ h[mem[stmt.table].root] <= h[root]
      BY <2>1, <2>3, <3>2 DEF Layout, Arranged, WorkArranged, Stacked
    <3>4. /\ h[root] \in Nat /\ h[fresh] \in Nat /\ h[mem[stmt.table].root] \in Nat
          /\ fresh \in PageNums
      <4>1. /\ root \in PageNums /\ mem[stmt.table].root \in PageNums
            /\ fresh \in PageNums
        BY <2>1, <3>2, RootsTyped DEF CallInv, Inv, TypeOK, Store!TypeOK
      <4> QED
        BY <4>1 DEF Layout, Arranged
    <3>5. h[mem[stmt.table].root] <= h[fresh]
      BY <3>3, <3>4
    <3>6. h2[fresh] = h[fresh] /\ h2[mem[stmt.table].root] = h[mem[stmt.table].root]
      BY <2>1, <2>2, <3>2 DEF Extends
    <3> QED
      BY <3>5, <3>6
  <2> QED
    BY <2>1, <2>2, <2>3 DEF Stacked
<1> QED
  BY <1>1, <1>2

\* A statement starts with the root of its table.
LEMMA StackedLoad ==
  ASSUME CallInv, NEW h, NEW c, Layout(h, c), Stacked(h, c), NEW t \in Tables, LoadBTree(t),
         saved' = saved, mem' = mem \/ mem' = [mem EXCEPT ![t].next = @ + 1],
         NEW kind, NEW keys, NEW val, NEW todo, Begin(kind, t, keys, val, todo)
  PROVE  Stacked(h, c)'
<1> USE DEF LoadBTree
<1>1. /\ \A u \in Tables : mem'[u] # NoTable => mem[u] # NoTable /\ mem'[u].root = mem[u].root
      /\ mem'[t].root = mem[t].root
  BY DEF CallInv, CatalogGood, Infos
<1>2. stmt'.table = t
  BY DEF Begin
<1>3. h[mem[t].root] \in Nat
  BY RootsTyped DEF Layout, Arranged
<1>4. h[mem'[stmt'.table].root] <= h[root']
  BY <1>1, <1>2, <1>3
<1> QED
  BY <1>1, <1>4, StackedKept

\* Another layout of the same pages gives the same heights.
LEMMA StackedMore ==
  ASSUME CallInv', owned' = owned, NEW h, NEW c, Stacked(h, c)',
         NEW h2, NEW c2, Extends(h, c, h2, c2)
  PROVE  Stacked(h2, c2)'
<1>1. \A a \in {mem', saved'} : \A t \in Tables : a[t] # NoTable =>
        h2[a[t].root] = h[a[t].root] /\ c2[a[t].root] = c[a[t].root]
  BY DEF CallInv, CatalogGood, LinkedPages, Extends
<1>2. stmt' # NoStmt /\ stmt'.kind \notin {"create", "drop"} =>
        /\ h2[mem'[stmt'.table].root] = h[mem'[stmt'.table].root]
        /\ h2[root'] = h[root']
  <2> SUFFICES ASSUME stmt' # NoStmt, stmt'.kind \notin {"create", "drop"}
               PROVE  /\ h2[mem'[stmt'.table].root] = h[mem'[stmt'.table].root]
                      /\ h2[root'] = h[root']
    OBVIOUS
  <2>1. stmt'.table \in Tables /\ Calling'
    BY StmtFacts DEF CallInv, StmtGood
  <2>2. root' \in owned /\ mem'[stmt'.table] # NoTable
    BY <2>1 DEF Calling, CallInv, Inv, PathGood, LinkedPages
  <2> QED
    BY <1>1, <2>1, <2>2 DEF Extends
<1> QED
  BY <1>1, <1>2 DEF Stacked

\* A new table is not on page 1 yet, or was there with another tree.
LEMMA StackedCreated ==
  ASSUME CallInv, NEW h, NEW c, Layout(h, c), Stacked(h, c), TableCreated
  PROVE  Stacked(h, c)'
<1> USE DEF TableCreated, Returned
<1>1. stmt \in Stmts /\ stmt.table \in Tables /\ root # NoPage
  BY StmtFacts DEF CallInv, StmtGood, Creating
<1>2. NewTreeApart(c, root)
  BY <1>1 DEF Layout, Apart, StmtApart
<1> DEFINE t == stmt.table
<1>3. /\ \A u \in Tables \ {t} : mem'[u] = mem[u]
      /\ mem'[t].root = root /\ saved' = saved /\ stmt'.kind = "create"
  BY <1>1 DEF CallInv, CatalogGood, Stmts
<1>4. saved[t] # NoTable => c[saved[t].root] # c[root]
  BY <1>1, <1>2 DEF NewTreeApart
<1> HIDE DEF TableCreated, Returned
<1> QED
  BY <1>3, <1>4 DEF Stacked

\* The catalog takes the root of the statement, which is not below its own.
LEMMA StackedCallDone ==
  ASSUME CallInv, NEW h, NEW c, Layout(h, c), Stacked(h, c), CallDone
  PROVE  Stacked(h, c)'
<1> USE DEF CallDone, Returned
<1>1. /\ stmt \in Stmts /\ stmt # NoStmt /\ stmt.table \in Tables
      /\ stmt.kind \notin {"create", "drop"} /\ root # NoPage
      /\ mem[stmt.table] # NoTable /\ root' = root /\ saved' = saved
  BY StmtFacts DEF CallInv, StmtGood, Creating, Calling, vars
<1> DEFINE t == stmt.table
<1>2. c[root] = c[mem[t].root] /\ h[mem[t].root] <= h[root]
  BY <1>1 DEF Layout, Apart, StmtApart, Stacked
<1>3. stmt'.kind = stmt.kind /\ stmt'.table = t
  BY <1>1 DEF Stmts
<1>4. /\ \A u \in Tables \ {t} : mem'[u] = mem[u]
      /\ mem'[t].root \in {mem[t].root, root}
  BY <1>1 DEF CallInv, CatalogGood, Infos
<1> HIDE DEF CallDone, Returned
<1>5. /\ h[root] \in Nat /\ h[mem[t].root] \in Nat
      /\ saved[t] # NoTable => h[saved[t].root] \in Nat
  BY <1>1, RootsTyped DEF Layout, Arranged
<1>6. saved[t] # NoTable /\ c[saved[t].root] = c[mem[t].root] =>
        h[saved[t].root] <= h[mem[t].root]
  BY <1>1 DEF Stacked
<1>7. saved'[t] # NoTable /\ c[saved'[t].root] = c[mem'[t].root] =>
        h[saved'[t].root] <= h[mem'[t].root]
  BY <1>1, <1>2, <1>4, <1>5, <1>6
<1>8. h[mem'[t].root] <= h[root']
  BY <1>1, <1>2, <1>4, <1>5
<1> HIDE DEF t
<1>9. \A u \in Tables : mem'[u] # NoTable /\ saved'[u] # NoTable
                          /\ c[saved'[u].root] = c[mem'[u].root] =>
        h[saved'[u].root] <= h[mem'[u].root]
  BY <1>1, <1>4, <1>7 DEF Stacked
<1> QED
  BY <1>3, <1>8, <1>9 DEF Stacked

\* Page 1 gets the roots of the catalog, or the catalog those of page 1.
LEMMA StackedEnds ==
  ASSUME CallInv, NEW h, NEW c, Layout(h, c), Stacked(h, c), Ends \/ Crash
  PROVE  Stacked(h, c)'
<1>1. /\ stmt' = NoStmt
      /\ \/ mem' = mem /\ saved' \in {saved, mem}
         \/ mem' = saved /\ saved' = saved
  BY EndsFacts DEF CallInv, Finish, Crash
<1>2. \A a \in {mem, saved} : \A t \in Tables : a[t] # NoTable =>
        h[a[t].root] <= h[a[t].root]
  <2> SUFFICES ASSUME NEW a \in {mem, saved}, NEW t \in Tables, a[t] # NoTable
               PROVE  h[a[t].root] \in Nat
    OBVIOUS
  <2> QED
    BY RootsTyped DEF Layout, Arranged
<1> QED
  BY <1>1, <1>2 DEF Stacked

\* Every step keeps the order of the roots.
LEMMA StackedStep ==
  ASSUME CallInv, CallInv', NEW h, NEW c, Layout(h, c), Stacked(h, c),
         [DatabaseNext]_databaseVars, NEW h2, NEW c2, Extends(h, c, h2, c2)
  PROVE  Stacked(h2, c2)'
<1>1. CASE \E t \in Tables : Create(t) \/ CreateFails(t)
  <2>1. stmt' = stmt \/ stmt'.kind = "create"
    BY <1>1 DEF Create, CreateFails
  <2>2. mem' = mem /\ saved' = saved /\ stmt = NoStmt
    BY <1>1 DEF Create, CreateFails, Ready
  <2>3. \A a \in {mem, saved} : \A t \in Tables : a[t] # NoTable =>
          h2[a[t].root] = h[a[t].root] /\ c2[a[t].root] = c[a[t].root]
    BY RootsOwned DEF Extends
  <2> QED
    BY <2>1, <2>2, <2>3 DEF Stacked
<1>2. CASE \E t \in Tables : Drop(t)
  <2>1. PICK t \in Tables : Drop(t)
    BY <1>2
  <2>2. /\ \A u \in Tables : mem'[u] # NoTable => mem'[u] = mem[u]
        /\ saved' = saved /\ stmt'.kind = "drop" /\ owned' = owned
    BY <2>1 DEF Drop, CallInv, CatalogGood, vars
  <2>3. Stacked(h, c)'
    BY <2>2, StackedKept
  <2> QED
    BY <2>2, <2>3, StackedMore
<1>3. CASE \E t \in Tables, k \in Keys, v \in Vals : Insert(t, k, v)
  <2>1. PICK t \in Tables, k \in Keys, v \in Vals : Insert(t, k, v)
    BY <1>3
  <2>2. PICK keys, todo : Begin("insert", t, keys, v, todo)
    BY <2>1 DEF Insert
  <2>3. LoadBTree(t) /\ saved' = saved /\ owned' = owned
    BY <2>1 DEF Insert, LoadBTree
  <2>4. mem' = mem \/ mem' = [mem EXCEPT ![t].next = @ + 1]
    BY <2>1 DEF Insert
  <2>5. Stacked(h, c)'
    BY <2>2, <2>3, <2>4, StackedLoad
  <2> QED
    BY <2>3, <2>5, StackedMore
<1>4. CASE \E t \in Tables, keys \in SUBSET Keys, val \in Vals \cup {Absent},
                kind \in {"update", "delete", "select"} : ScanAllRows(kind, t, keys, val)
  <2>1. PICK t \in Tables, keys \in SUBSET Keys, val \in Vals \cup {Absent},
             kind \in {"update", "delete", "select"} : ScanAllRows(kind, t, keys, val)
    BY <1>4
  <2>2. PICK todo : Begin(kind, t, keys, val, todo)
    BY <2>1 DEF ScanAllRows
  <2>3. LoadBTree(t) /\ saved' = saved /\ mem' = mem /\ owned' = owned
    BY <2>1 DEF ScanAllRows, LoadBTree
  <2>4. Stacked(h, c)'
    BY <2>2, <2>3, StackedLoad
  <2> QED
    BY <2>3, <2>4, StackedMore
<1>5. CASE BTreeProceeds
  BY <1>5, StackedCalls
<1>6. CASE CallBTree \/ Scanned
  <2>1. /\ stmt # NoStmt /\ stmt \in Stmts /\ UNCHANGED <<root, mem, saved, owned>>
    BY <1>6 DEF CallBTree, Scanned, Returned, vars, Call, CallInv, StmtGood
  <2>2. stmt'.kind = stmt.kind /\ stmt'.table = stmt.table
    BY <1>6, <2>1 DEF CallBTree, Scanned, Stmts
  <2>3. Stacked(h, c)'
    BY <2>1, <2>2 DEF Stacked
  <2> QED
    BY <2>1, <2>3, StackedMore
<1>7. CASE TableCreated \/ CallDone
  <2>1. Stacked(h, c)'
    BY <1>7, StackedCreated, StackedCallDone
  <2>2. owned' = owned
    BY <1>7 DEF TableCreated, CallDone, vars
  <2> QED
    BY <2>1, <2>2, StackedMore
<1>8. CASE Ends \/ Crash
  <2>1. Stacked(h, c)'
    BY <1>8, StackedEnds
  <2>2. owned' = owned
    BY <1>8, EndsFacts DEF CallInv, Crash
  <2> QED
    BY <2>1, <2>2, StackedMore
<1>9. CASE UNCHANGED databaseVars
  <2>1. UNCHANGED <<mem, saved, root, stmt>>
    BY <1>9 DEF databaseVars, vars
  <2> QED
    BY <2>1, StackedStay
<1> QED
  BY <1>1, <1>2, <1>3, <1>4, <1>5, <1>6, <1>7, <1>8, <1>9, DatabaseSteps

\* CREATE TABLE grows a tree of its own.
LEMMA TreesCreate ==
  ASSUME CallInv, NEW h, NEW c, Layout(h, c), Trees,
         NEW t \in Tables, Create(t) \/ CreateFails(t)
  PROVE  Trees'
<1>1. mem' = mem /\ saved' = saved /\ stmt = NoStmt /\ mem[t] = NoTable
  BY DEF Create, CreateFails, Ready
<1>2. stmt' = stmt \/ (stmt' # NoStmt /\ stmt'.table = t)
  BY StmtFacts, EmptySeq DEF Create, CreateFails, Stmts, NoStmt
<1>3. TableRoots' = TableRoots
  BY <1>1 DEF TableRoots
<1>4. RestingRoots' = RestingRoots
  BY <1>1, <1>2 DEF RestingRoots, RestingTables, RootsOf
<1>5. [Next]_vars /\ crashes' = crashes
  BY DEF Create, CreateFails, Next
<1> QED
  BY <1>3, <1>4, <1>5, TreesGrow

\* A call keeps every tree, its own and those of the resting tables.
LEMMA TreesCall ==
  ASSUME CallInv, NEW h, NEW c, Layout(h, c), Trees, CallBTree \/ BTreeProceeds \/ Scanned
  PROVE  Trees'
<1>1. stmt # NoStmt /\ stmt \in Stmts /\ stmt.todo \in Seq(Requests) /\ mem' = mem /\ saved' = saved
  BY ProceedFacts, StmtFacts DEF CallBTree, BTreeProceeds, Scanned, Returned, CallInv, StmtGood
<1>2. stmt' # NoStmt /\ stmt'.table = stmt.table
  BY <1>1, StmtFacts DEF CallBTree, BTreeProceeds, Scanned, Stmts, NoStmt
<1>3. TableRoots' = TableRoots
  BY <1>1 DEF TableRoots
<1>4. RestingRoots' = RestingRoots
  BY <1>1, <1>2 DEF RestingRoots, RestingTables
<1>5. [Next]_vars
  <2>1. CASE CallBTree
    <3>1. Head(stmt.todo) \in Requests /\ Call(Head(stmt.todo))
      BY <1>1, <2>1, HeadTailProperties DEF CallBTree
    <3> QED
      BY <3>1 DEF Next
  <2>2. CASE BTreeProceeds
    BY <2>2 DEF BTreeProceeds, Next
  <2>3. CASE Scanned
    BY <2>3 DEF Scanned
  <2> QED
    BY <2>1, <2>2, <2>3
<1>6. crashes' = crashes
  BY DEF CallBTree, BTreeProceeds, Scanned
<1> QED
  BY <1>3, <1>4, <1>5, <1>6, TreesGrow

\* DROP TABLE forgets a root.
LEMMA TreesDrop ==
  ASSUME CallInv, Trees, NEW t \in Tables, Drop(t)
  PROVE  Trees'
<1> USE DEF Drop, Ready
<1>1. /\ \A u \in Tables \ {t} : mem'[u] = mem[u]
      /\ mem'[t] = NoTable /\ saved' = saved /\ stmt = NoStmt
  BY DEF CallInv, CatalogGood
<1>2. stmt' # NoStmt /\ stmt'.table = t
  BY DEF NoStmt
<1>3. TableRoots' \subseteq TableRoots
  BY <1>1 DEF TableRoots, RootsOf
<1>4. RestingRoots' \subseteq RestingRoots
  BY <1>1, <1>2 DEF RestingRoots, RestingTables, RootsOf
<1>5. UNCHANGED vars /\ Inv
  BY DEF CallInv
<1> QED
  BY <1>3, <1>4, <1>5, TreesHeld DEF vars, call

\* A statement takes its table from those at rest.
LEMMA TreesLoad ==
  ASSUME CallInv, Trees, NEW t \in Tables, LoadBTree(t), UNCHANGED <<saved, crashes>>,
         mem' = mem \/ mem' = [mem EXCEPT ![t].next = @ + 1],
         NEW kind, NEW keys, NEW val, NEW todo, Begin(kind, t, keys, val, todo)
  PROVE  Trees'
<1> USE DEF LoadBTree, Ready
<1>1. \A u \in Tables : (mem'[u] # NoTable <=> mem[u] # NoTable)
                        /\ (mem[u] # NoTable => mem'[u].root = mem[u].root)
  <2>1. mem[t] \in Infos /\ mem \in [Tables -> Infos \cup {NoTable}]
    BY DEF CallInv, CatalogGood
  <2>2. mem'[t] \in Infos \cup {NoTable} => mem'[t] \in Infos \/ mem'[t] = NoTable
    OBVIOUS
  <2>3. CASE mem' = mem
    BY <2>3
  <2>4. CASE mem' = [mem EXCEPT ![t].next = @ + 1]
    <3>1. /\ \A u \in Tables \ {t} : mem'[u] = mem[u]
          /\ mem'[t].root = mem[t].root /\ mem'[t] \in Infos
      BY <2>1, <2>4 DEF Infos
    <3>2. mem'[t] # NoTable
      BY <3>1, DatabaseAssumption
    <3> QED
      BY <3>1, <3>2
  <2> QED
    BY <2>3, <2>4
<1>2. stmt = NoStmt /\ stmt' # NoStmt /\ stmt'.table = t
  BY DEF Begin, NoStmt
<1>3. TableRoots' \subseteq TableRoots
  BY <1>1 DEF TableRoots, RootsOf
<1>4. RestingRoots' \subseteq RestingRoots
  BY <1>1, <1>2 DEF RestingRoots, RestingTables, RootsOf
<1>5. pc = "idle" /\ root' \in RestingRoots
  BY <1>2 DEF RestingRoots, RestingTables, RootsOf
<1>6. UNCHANGED <<view, disk, owned, pc, req, path, work>> /\ ioErrors' = ioErrors /\ Inv
  BY DEF CallInv
<1> HIDE DEF LoadBTree, Ready
<1> QED
  BY <1>3, <1>4, <1>5, <1>6, TreesHeld

\* The table takes the root that the statement has.
LEMMA TreesTaken ==
  ASSUME CallInv, Trees, TableCreated \/ CallDone
  PROVE  Trees'
<1>1. /\ stmt # NoStmt /\ stmt \in Stmts /\ stmt.table \in Tables /\ saved' = saved
      /\ UNCHANGED vars /\ crashes' = crashes /\ root # NoPage
  BY StmtFacts DEF TableCreated, CallDone, Returned, CallInv, StmtGood, Creating, Calling
<1> DEFINE t == stmt.table
<1>2. /\ \A u \in Tables \ {t} : mem'[u] = mem[u]
      /\ mem'[t] # NoTable => mem'[t].root = root \/ mem'[t] = mem[t]
  <2>1. CASE TableCreated
    BY <1>1, <2>1 DEF TableCreated, CallInv, CatalogGood
  <2>2. CASE CallDone
    <3>1. mem[t] \in Infos
      <4>1. Calling
        BY <1>1, <2>2 DEF CallDone, Returned, CallInv, StmtGood, Creating
      <4> QED
        BY <1>1, <4>1 DEF Calling, CallInv, CatalogGood
    <3>2. mem' = mem \/ mem' = [mem EXCEPT ![t].root = root]
      BY <2>2 DEF CallDone
    <3> QED
      BY <1>1, <3>1, <3>2 DEF CallInv, CatalogGood, Infos
  <2> QED
    BY <2>1, <2>2
<1>3. stmt' # NoStmt /\ stmt'.table = t
  BY <1>1, StmtFacts DEF TableCreated, CallDone, Stmts, NoStmt
<1>4. RestingRoots' = RestingRoots
  BY <1>1, <1>2, <1>3 DEF RestingRoots, RestingTables, RootsOf
<1>5. TableRoots' \subseteq TableRoots \cup {root}
  BY <1>1, <1>2 DEF TableRoots, RootsOf
<1> QED
  BY <1>1, <1>4, <1>5, TreesHeld DEF vars, call, CallInv

\* Every step keeps the trees.
LEMMA TreesDatabaseStep ==
  ASSUME CallInv, CallInv', NEW h, NEW c, Layout(h, c), Trees, [DatabaseNext]_databaseVars,
         NEW h2, NEW c2, Layout(h2, c2)', Stacked(h2, c2)'
  PROVE  Trees'
<1>1. CASE \E t \in Tables : Create(t) \/ CreateFails(t) \/ Drop(t)
  BY <1>1, TreesCreate, TreesDrop
<1>2. CASE \E t \in Tables, k \in Keys, v \in Vals : Insert(t, k, v)
  <2>1. PICK t \in Tables, k \in Keys, v \in Vals : Insert(t, k, v)
    BY <1>2
  <2>2. PICK keys, todo : Begin("insert", t, keys, v, todo)
    BY <2>1 DEF Insert
  <2>3. LoadBTree(t) /\ UNCHANGED <<saved, crashes>>
    BY <2>1 DEF Insert
  <2>4. mem' = mem \/ mem' = [mem EXCEPT ![t].next = @ + 1]
    BY <2>1 DEF Insert
  <2> QED
    BY <2>2, <2>3, <2>4, TreesLoad
<1>3. CASE \E t \in Tables, keys \in SUBSET Keys, val \in Vals \cup {Absent},
                kind \in {"update", "delete", "select"} : ScanAllRows(kind, t, keys, val)
  <2>1. PICK t \in Tables, keys \in SUBSET Keys, val \in Vals \cup {Absent},
             kind \in {"update", "delete", "select"} : ScanAllRows(kind, t, keys, val)
    BY <1>3
  <2>2. PICK todo : Begin(kind, t, keys, val, todo)
    BY <2>1 DEF ScanAllRows
  <2>3. LoadBTree(t) /\ UNCHANGED <<saved, crashes>> /\ mem' = mem
    BY <2>1 DEF ScanAllRows
  <2> QED
    BY <2>2, <2>3, TreesLoad
<1>4. CASE CallBTree \/ BTreeProceeds \/ Scanned
  BY <1>4, TreesCall
<1>5. CASE TableCreated \/ CallDone
  BY <1>5, TreesTaken
<1>6. CASE Ends
  <2>1. /\ Finish /\ pc = "idle" /\ UNCHANGED <<view, disk, owned, pc, mem, crashes>>
        /\ saved' \in {saved, mem} /\ (IOError \/ UNCHANGED ioErrors) /\ Inv
    BY <1>6, EndsFacts DEF CallInv, Ends, AllRowsDone, RefusedRow, EvaluationFails, CallFailed,
       Save, SaveFails
  <2> QED
    BY <2>1, TreesGivenUp DEF Finish
<1>7. CASE Crash
  BY <1>7, TreesGivenUp DEF Crash, CallInv
<1>8. CASE UNCHANGED databaseVars
  <2>1. UNCHANGED vars /\ UNCHANGED <<mem, saved, stmt, crashes>> /\ Inv
    BY <1>8 DEF databaseVars, CallInv
  <2>2. TableRoots' = TableRoots /\ RestingRoots' = RestingRoots
    BY <2>1 DEF TableRoots, RestingRoots, RestingTables
  <2> QED
    BY <2>1, <2>2, TreesGrow
<1> QED
  BY <1>1, <1>2, <1>3, <1>4, <1>5, <1>6, <1>7, <1>8, DatabaseSteps

----------------------------------------------------------------------------
\* The invariant of the database, and what it gives

\* All of it, with one layout that fits the pages, the roots and the keys.
DatabaseInv ==
  /\ CallInv
  /\ TruthGood
  /\ Trees
  /\ \E h, c : Layout(h, c) /\ Stacked(h, c) /\ RowKeys(c)

\* Under the root of every table is a search tree.
LEMMA TablesAreTrees ==
  ASSUME Trees, ioErrors = 0,
         NEW m, NEW cat, (m = view /\ cat = mem) \/ (m = disk /\ cat = saved),
         NEW t \in Tables, cat[t] # NoTable
  PROVE  SearchTree(m, cat[t].root)
<1>1. m = view /\ HasTree(TableRoots, RestingRoots)
  BY DEF Trees, Clear
<1>2. PICK T, tops \in SUBSET PageNums,
           h \in [PageNums -> Nat], under \in [PageNums -> SUBSET Int] :
        /\ TableRoots \subseteq T
        /\ TreeState(view, owned, root, pc, req, path, work, T, tops, h, under)
  BY <1>1 DEF HasTree
<1>3. Tree(view, T, h, under, tops)
  BY <1>2 DEF TreeState
<1>4. cat[t].root \in T
  BY <1>2 DEF TableRoots, RootsOf
<1>5. SearchTree(view, cat[t].root)
  BY <1>3, <1>4, TreeIsSound
<1> QED
  BY <1>1, <1>5

\* The invariant holds at the start.
LEMMA InitDatabase == DatabaseInit => DatabaseInv
<1> SUFFICES ASSUME DatabaseInit PROVE DatabaseInv
  OBVIOUS
<1>1. TruthGood
  BY DatabaseAssumption DEF DatabaseInit, TruthGood
<1>2. PICK h, c : Layout(h, c)
  BY InitLayout
<1>3. Stacked(h, c)
  BY DEF DatabaseInit, Stacked
<1>4. Trees
  <2>1. TreeInv /\ view = disk
    BY InitTree DEF DatabaseInit, Init, Store!Init
  <2>2. TableRoots = {} /\ RestingRoots = {}
    BY DEF DatabaseInit, TableRoots, RestingRoots, RestingTables, RootsOf
  <2> QED
    BY <2>1, <2>2 DEF Trees, TreeInv, TreeWith
<1> QED
  BY <1>1, <1>2, <1>3, <1>4, InitCalls, InitRowKeys DEF DatabaseInv

\* Every step of the database keeps it.
LEMMA DatabaseStep == DatabaseInv /\ [DatabaseNext]_databaseVars => DatabaseInv'
<1> SUFFICES ASSUME DatabaseInv, [DatabaseNext]_databaseVars PROVE DatabaseInv'
  OBVIOUS
<1>1. CallInv /\ TruthGood /\ Trees
  BY DEF DatabaseInv
<1>2. PICK h, c : Layout(h, c) /\ Stacked(h, c) /\ RowKeys(c)
  BY DEF DatabaseInv
<1>3. CallInv'
  BY <1>1, CallsStep
<1>4. TruthGood'
  BY <1>1, <1>2, TruthStep DEF Layout
<1>5. PICK h2, c2 : Layout(h2, c2)' /\ Extends(h, c, h2, c2)
  BY <1>1, <1>2, LayoutStep
<1>6. RowKeys(c2)'
  BY <1>1, <1>2, <1>5, RowKeysStep
<1>7. Stacked(h2, c2)'
  BY <1>1, <1>2, <1>3, <1>5, StackedStep
<1>8. Trees'
  BY <1>1, <1>2, <1>3, <1>5, <1>7, TreesDatabaseStep
<1> QED
  BY <1>3, <1>4, <1>5, <1>6, <1>7, <1>8 DEF DatabaseInv

\* So it holds in every state.
LEMMA DatabaseInvHolds == DatabaseSpec => []DatabaseInv
<1>1. DatabaseInit => DatabaseInv
  BY InitDatabase
<1>2. DatabaseInv /\ [DatabaseNext]_databaseVars => DatabaseInv'
  BY DatabaseStep
<1> QED
  BY <1>1, <1>2, PTL DEF DatabaseSpec

\* The variables of the database keep their types: the statement in progress, the
\* catalogs in memory and on page 1, the history, and all that the tree has.
THEOREM DatabaseTypeCorrect == DatabaseSpec => []DatabaseTypeOK
<1>1. DatabaseInv => DatabaseTypeOK
  BY DEF DatabaseInv, DatabaseTypeOK, CallInv, Inv, CatalogGood, StmtGood, TruthGood, RowMaps
<1> QED
  BY <1>1, DatabaseInvHolds, PTL

\* The row id that executeInsert takes next is the key of no row, as long as the
\* process has not been started again: the row that it inserts replaces none.
THEOREM RowIdsStayFresh == DatabaseSpec => []RowIdsFresh
<1>1. DatabaseInv => RowIdsFresh
  BY RowIdsAreFresh DEF DatabaseInv
<1> QED
  BY <1>1, DatabaseInvHolds, PTL

\* At every moment, in memory and on disk, the catalog gives every table a root page
\* in use, no two tables share a page, and, as long as every pager call succeeds, a
\* search tree lies under every root: across splits that move a root, statements that
\* fail half-way, DROP TABLE and restarts between any two writes.
THEOREM TablesStaySound == DatabaseSpec => []TablesSound
<1>1. DatabaseInv => TablesSound
  <2> SUFFICES ASSUME DatabaseInv, NEW m, NEW cat,
                      (m = view /\ cat = mem) \/ (m = disk /\ cat = saved),
                      NEW t \in Tables, cat[t] # NoTable
               PROVE  /\ Linked(cat[t].root)
                      /\ ioErrors = 0 => SearchTree(m, cat[t].root)
                      /\ \A u \in Tables \ {t} : cat[u] # NoTable =>
                           Range(Preorder(m, cat[t].root))
                             \cap Range(Preorder(m, cat[u].root)) = {}
    BY DEF TablesSound
  <2>1. PICK h, c : Layout(h, c)
    BY DEF DatabaseInv
  <2>2. CallInv
    BY DEF DatabaseInv
  <2>3. /\ Linked(cat[t].root)
        /\ \A u \in Tables \ {t} : cat[u] # NoTable =>
             Range(Preorder(m, cat[t].root)) \cap Range(Preorder(m, cat[u].root)) = {}
    BY <2>1, <2>2, PagesOfTables
  <2>4. ASSUME ioErrors = 0 PROVE SearchTree(m, cat[t].root)
    BY <2>4, TablesAreTrees DEF DatabaseInv
  <2> QED
    BY <2>3, <2>4
<1> QED
  BY <1>1, DatabaseInvHolds, PTL

----------------------------------------------------------------------------
(***************************************************************************)
(* What the statements do to the rows: that their calls, one after the     *)
(* other, add up to what the statement is for.  The invariant is RowsInv,  *)
(* on top of DatabaseInv and of what TreeInvariant.tla proves of a call.   *)
(* Its parts are                                                           *)
(*                                                                         *)
(*   RestingRows   a table that no statement is at work on has the rows    *)
(*                 that the history says;                                  *)
(*   StmtRows      the statement in progress is on its way from the rows   *)
(*                 that its table had to its new rows;                     *)
(*   SavedRows     page 1 leads to rows of before the statement.           *)
(*                                                                         *)
(* No failing call of the pager has then been followed by a restart.       *)
(***************************************************************************)

\* The rows of the tables, while statements change them

\* The cells that the rows of a table are.
RowCells(d) == CellsIn(d, Absent)

\* What the table of the statement in progress holds once it has succeeded.
NewRows ==
  LET rows == truth[stmt.table]
  IN  CASE stmt.kind = "create" -> [k \in Keys |-> Absent]
        [] stmt.kind \in {"insert", "update", "delete"} ->
             [k \in Keys |->
                IF k \in stmt.keys /\ (stmt.kind = "insert" \/ rows[k] # Absent)
                THEN stmt.val ELSE rows[k]]
        [] OTHER -> rows

\* The keys whose rows it has yet to change.
Pending == {r.key : r \in {x \in Range(stmt.todo) : x.op \in {"insert", "delete"}}}

\* It has changed none: INSERT changes a single row, and the other statements
\* read all rows first.
Untouched ==
  \/ stmt.todo = <<[op |-> "scan"]>>
  \/ stmt.kind = "insert" /\ stmt.todo # <<>>

\* d is what it has made of the rows so far.
Progress(d) ==
  IF Untouched THEN d = truth[stmt.table]
  ELSE \A k \in Keys : \/ d[k] = NewRows[k]
                       \/ k \in Pending /\ d[k] = truth[stmt.table][k]

\* A call that is yet to be made is about a row of the statement.
CallFits(r) ==
  /\ r.op = "scan" => stmt.todo = <<[op |-> "scan"]>>
  /\ r.op = "search" => stmt.kind \in {"insert", "update"}
  /\ r.op \in {"insert", "delete"} =>
       /\ r.key \in stmt.keys
       /\ stmt.kind # "insert" => truth[stmt.table][r.key] # Absent
  /\ r.op = "insert" => stmt.kind \in {"insert", "update"} /\ r.val = stmt.val
  /\ r.op = "delete" => stmt.kind = "delete"

\* The call that the statement waits for.
Asked == IF stmt.kind = "create" THEN NewRequest ELSE Head(stmt.todo)

\* CREATE and INSERT write pages that the tree does not have yet.
Growing == stmt.kind \in {"create", "insert"}

\* The other statements split no node: until the write of its leaf a call leaves
\* the cells as they are.
InPlace(B) ==
  /\ CellsUnder(view, root) = B
  /\ pc \in {"descend", "scan", "write", "panic"}
  /\ pc = "write" => ~Overfull(work)

\* The call found the cells B.
InCall(B) ==
  /\ pc # "panic" => req = Asked /\ CellState(B) /\ Scanning(B)
  /\ ~Growing => InPlace(B)

\* The tree held B when the last call began, or holds it before the next.
CallRows(B) ==
  IF stmt.phase # "wait" THEN CellsUnder(view, root) = B
  ELSE IF pc # "idle" THEN InCall(B)
  ELSE res.status # "error" \/ (ioErrors = 0 /\ ~Growing) =>
         Answer(Asked, B, CellsUnder(view, root), res)

\* The tree at work is that of the table, until INSERT has a root to tell of.
Rooted ==
  \/ root = mem[stmt.table].root
  \/ /\ stmt.kind = "insert" /\ stmt.phase = "wait" /\ pc = "idle"
     /\ Head(stmt.todo).op = "insert"

\* A statement is on its way from the rows that the table had to its new rows.
StmtRows ==
  stmt # NoStmt /\ stmt.kind # "drop" =>
    /\ stmt.kind = "create" =>
         truth[stmt.table] = NoTable /\ (stmt.phase = "wait" => mem[stmt.table] = NoTable)
    /\ stmt.kind # "create" => Rooted
    /\ stmt.kind = "delete" => stmt.val = Absent
    /\ \A r \in Range(stmt.todo) : CallFits(r)
    /\ \E d \in RowMaps : \E B \in {RowCells(d)} : Progress(d) /\ CallRows(B)

\* The other tables hold the rows of the history.
RestingRows ==
  \A t \in RestingTables :
    /\ mem[t] = NoTable <=> truth[t] = NoTable
    /\ mem[t] # NoTable => CellsUnder(view, mem[t].root) = RowCells(truth[t])

\* The table is in both catalogs with the same root, or in neither.
SameRoot(t) ==
  /\ saved[t] = NoTable <=> mem[t] = NoTable
  /\ mem[t] # NoTable => saved[t].root = mem[t].root

\* Only the save of the catalog is left of the statement about this table.
Saving(t) == stmt # NoStmt /\ stmt.phase = "save" /\ stmt.table = t

\* Under the root on page 1 are the rows of before, of an INSERT those of before
\* or of after, and maybe not all.
OldRows(cells) ==
  /\ stmt.kind = "drop" => cells = RowCells(truth[stmt.table])
  /\ stmt.kind = "insert" => cells \subseteq RowCells(truth[stmt.table]) \cup RowCells(NewRows)

\* What a restart would find, as long as no pager call fails and the catalog fits.
SavedRows ==
  ioErrors = 0 /\ Fits(truth) =>
    /\ \A t \in Tables : saved[t] = NoTable <=> truth[t] = NoTable
    /\ \A t \in Tables : ~Saving(t) => SameRoot(t)
    /\ stmt # NoStmt => OldRows(CellsUnder(view, saved[stmt.table].root))

\* The pages have the rows that the history says, those of the statement in
\* progress on their way from the old ones to the new.
RowsInv == Clear => RestingRows /\ StmtRows /\ SavedRows

----------------------------------------------------------------------------
\* A statement and the rows: what the steps of a tree leave alone

\* Every catalog entry of rows is a map.
LEMMA RowMapFacts ==
  /\ Absent \notin Vals /\ RowMaps = MapsWith(Absent)
  /\ \A d \in RowMaps : d # NoTable
  /\ \A d \in RowMaps : RowCells(d) = CellsIn(d, Absent)
  BY DatabaseAssumption DEF RowMaps, MapsWith, RowCells

\* A tree for all roots is one for some.
LEMMA TreeAtHand ==
  ASSUME CallInv, Trees, Clear
  PROVE  TreeInv /\ HasTree({}, {})
<1>1. HasTree({}, {})
  BY DEF Trees, HasTree
<1> QED
  BY <1>1 DEF CallInv, TreeInv, TreeWith

\* The same after a step.
LEMMA TreeAtHandThen ==
  (CallInv /\ Trees /\ Clear)' => HasTree({}, {})'
<1>1. CallInv /\ Trees /\ Clear => HasTree({}, {})
  BY TreeAtHand
<1> QED
  BY <1>1, PTL

\* No failure is forgotten, and no restart.
LEMMA FailuresStay ==
  ASSUME CallInv, [DatabaseNext]_databaseVars
  PROVE  /\ ioErrors' = 0 => ioErrors = 0
         /\ Clear' => Clear
<1>1. ioErrors \in Nat /\ crashes \in Nat
  BY BTreeAssumption, DatabaseAssumption DEF CallInv, Inv, TypeOK
<1>2. IOError => ioErrors' # 0
  BY <1>1 DEF IOError
<1>3. CASE \E t \in Tables : Create(t)
  <2>1. NewBTree /\ crashes' = crashes
    BY <1>3 DEF Create
  <2>2. ioErrors' = ioErrors
    BY <2>1 DEF NewBTree
  <2> QED
    BY <2>1, <2>2 DEF Clear
<1>4. CASE \E t \in Tables : CreateFails(t)
  <2>1. crashes' = crashes /\ (ioErrors' = ioErrors \/ IOError)
    BY <1>4 DEF CreateFails, NewBTreeFails
  <2> QED
    BY <1>2, <2>1 DEF Clear
<1>5. CASE \E t \in Tables : Drop(t)
  BY <1>5 DEF Drop, vars, Clear
<1>6. CASE \E t \in Tables : \/ Select(t)
                             \/ \E k \in Keys, v \in Vals : Insert(t, k, v)
                             \/ \E keys \in Wheres : Delete(t, keys)
                             \/ \E keys \in Wheres : \E v \in Vals : Update(t, keys, v)
  <2>1. UNCHANGED <<ioErrors, crashes>>
    BY <1>6 DEF Select, Insert, Delete, Update, ScanAllRows, LoadBTree
  <2> QED
    BY <2>1 DEF Clear
<1>7. CASE BTreeProceeds
  <2>1. [Next]_vars /\ Inv /\ crashes' = crashes
    BY <1>7 DEF BTreeProceeds, Next, CallInv
  <2>2. ioErrors' = 0 => ioErrors = 0
    BY <2>1, TreeStepErrors
  <2> QED
    BY <2>1, <2>2 DEF Clear
<1>8. CASE CallBTree \/ TableCreated \/ Scanned \/ CallDone
  <2>1. UNCHANGED <<ioErrors, crashes>>
    BY <1>8 DEF CallBTree, Call, TableCreated, Scanned, CallDone, vars
  <2> QED
    BY <2>1 DEF Clear
<1>9. CASE Ends
  <2>1. crashes' = crashes /\ (ioErrors' = ioErrors \/ IOError)
    BY <1>9 DEF Ends, AllRowsDone, RefusedRow, EvaluationFails, CallFailed, Save, SaveFails
  <2> QED
    BY <1>2, <2>1 DEF Clear
<1>10. CASE Crash
  BY <1>1, <1>10 DEF Crash, Clear
<1>11. CASE UNCHANGED databaseVars
  BY <1>11 DEF databaseVars, vars, Clear
<1> QED
  BY <1>3, <1>4, <1>5, <1>6, <1>7, <1>8, <1>9, <1>10, <1>11 DEF DatabaseNext, Ends

\* A call of a tree leaves the cells of the others as they are.
LEMMA OtherCells ==
  ASSUME CallInv, TreeInv, HasTree({}, {})', NEW h, NEW c, Layout(h, c),
         Proceed \/ NewBTree,
         NEW p \in LinkedPages, root = NoPage \/ c[p] # c[root]
  PROVE  CellsUnder(view', p) = CellsUnder(view, p)
<1>1. TreeWith({}, {}) /\ Inv
  BY DEF TreeInv, CallInv
<1>2. p \in PageNums /\ p \in owned
  BY <1>1 DEF LinkedPages, Inv, TypeOK, Store!TypeOK
<1>3. StoreStep
  BY ProceedStore DEF StoreStep, NewBTree
<1>4. CASE UNCHANGED <<view, disk, owned>>
  BY <1>4
<1>5. CASE \E f \in Fresh : Allocates(f)
  <2>1. PICK f \in Fresh : Allocates(f)
    BY <1>5
  <2>2. f \in PageNums /\ f \notin owned /\ view' = [view EXCEPT ![f] = Zero]
    BY <2>1 DEF Allocates, Store!Alloc
  <2>3. f \notin LinkedPages /\ \A q \in PageNums : q # f => view'[q] = view[q]
    BY <1>1, <2>2 DEF LinkedPages, Inv, TypeOK, Store!TypeOK
  <2>4. \A q \in PageNums : q # f => CellsUnder(view', q) = CellsUnder(view, q)
    BY <1>1, <2>2, <2>3, FreshCells
  <2> QED
    BY <1>2, <2>2, <2>4
<1>6. CASE /\ pc \in {"right", "root"}
           /\ Store!Write(Target, Image) \/ Store!WriteFails(Target, Image)
  <2>1. /\ fresh \in PageNums /\ fresh \notin LinkedPages
        /\ \A q \in PageNums : q # fresh => view'[q] = view[q]
    BY <1>1, <1>6, FreshPage
  <2>2. \A q \in PageNums : q # fresh => CellsUnder(view', q) = CellsUnder(view, q)
    BY <1>1, <2>1, FreshCells
  <2> QED
    BY <1>2, <2>1, <2>2
<1>7. CASE /\ pc = "write"
           /\ Store!Write(Target, Image) \/ Store!WriteFails(Target, Image)
  <2>1. /\ Target = Last(path) /\ path \in Seq(PageNums) /\ path # <<>>
    BY <1>1, <1>7 DEF Target, Inv, TypeOK, PathGood
  <2>2. Len(path) \in 1 .. Len(path) /\ Last(path) = path[Len(path)]
    BY <2>1, EmptySeq, LenProperties DEF Last
  <2>3. root # NoPage /\ c[Last(path)] = c[root]
    BY <1>7, <2>2 DEF Layout, Arranged, PathArranged
  <2>4. view' = [view EXCEPT ![Last(path)] = Image]
    BY <1>7, <2>1 DEF Store!Write, Store!WriteFails
  <2>5. /\ view \in [PageNums -> Pages] /\ view' \in [PageNums -> Pages]
    BY <1>1, ViewFalls, ViewFallsThen
  <2>6. PICK g \in [PageNums -> Nat] : Falling(view, g)
    BY <1>1, ViewFalls
  <2>7. PICK f \in [PageNums -> Nat] : Falling(view', f)
    BY ViewFallsThen
  <2>13. \A r \in PageNums : \A i \in Ways(view[r]) :
           Child(view[r], i) \in PageNums /\ c[Child(view[r], i)] = c[r]
    <3>1. PICK m : m = view
      OBVIOUS
    <3>2. m \in [PageNums -> Pages] /\ PagesArranged(m, h, c)
      BY <2>5, <3>1 DEF Layout, Arranged
    <3>3. /\ Falling(m, h)
          /\ \A r \in PageNums : \A i \in Ways(m[r]) :
               Child(m[r], i) \in PageNums /\ c[Child(m[r], i)] = c[r]
      BY <3>2, ArrangedFalls, SMTT(30)
    <3> QED
      BY <3>1, <3>3
  <2> DEFINE S == {q \in PageNums : c[q] # c[root]}
  <2>8. ASSUME NEW q \in S PROVE Unchanged(view', view, S, q)
    <3>1. view'[q] = view[q]
      BY <2>3, <2>4, <2>5
    <3>4. \A i \in Ways(view[q]) : Child(view[q], i) \in S
      BY <2>13
    <3> QED
      BY <3>1, <3>4 DEF Unchanged
  <2>9. p \in S /\ S \in SUBSET PageNums
    BY <1>2, <2>3
  <2>10. PICK m, n : m = view /\ n = view'
    OBVIOUS
  <2> HIDE DEF S
  <2>11. /\ m \in [PageNums -> Pages] /\ n \in [PageNums -> Pages]
         /\ Falling(m, g) /\ Falling(n, f) /\ \A q \in S : Unchanged(n, m, S, q)
    BY <2>5, <2>6, <2>7, <2>8, <2>10
  <2>12. \A q \in S : CellsUnder(n, q) = CellsUnder(m, q)
    BY <2>6, <2>7, <2>9, <2>11, CellsSame
  <2> QED
    BY <2>9, <2>10, <2>12
<1> QED
  BY <1>3, <1>4, <1>5, <1>6, <1>7 DEF StoreStep

\* While the last pages of a split are written, the root holds what it held.
LEMMA RootKeepsCells ==
  ASSUME TreeInv, HasTree({}, {})', Proceed, pc \in {"right", "root"}
  PROVE  CellsUnder(view', root) = CellsUnder(view, root)
<1>1. TreeWith({}, {})
  BY DEF TreeInv
<1>2. StoreStep
  BY ProceedStore
<1>3. CASE UNCHANGED view
  BY <1>3
<1>4. CASE Store!Write(Target, Image) \/ Store!WriteFails(Target, Image)
  <2>1. /\ fresh \in PageNums /\ fresh \notin LinkedPages
        /\ \A q \in PageNums : q # fresh => view'[q] = view[q]
    BY <1>1, <1>4, FreshPage
  <2> QED
    BY <1>1, <2>1, FreshCells
<1> QED
  BY <1>2, <1>3, <1>4 DEF StoreStep

\* A panic leaves the root as it was, too.
LEMMA PanicKeepsCells ==
  ASSUME TreeInv, HasTree({}, {})', Proceed, pc' = "panic"
  PROVE  CellsUnder(view', root) = CellsUnder(view, root)
<1>1. CASE ReadPanics \/ WritePanics
  BY <1>1 DEF ReadPanics, WritePanics, Panics
<1>2. CASE WriteRight
  BY <1>2, RootKeepsCells DEF WriteRight
<1>3. CASE \/ DescendInternal \/ SearchLeaf \/ InsertLeaf \/ DeleteLeaf
           \/ ScanLeaf \/ ScanInternal \/ ScanReturns
  BY <1>3 DEF DescendInternal, SearchLeaf, InsertLeaf, DeleteLeaf, ScanLeaf, ScanInternal,
     ScanReturns, Return
<1>4. CASE \/ WriteWhole \/ WriteLeft \/ AllocateRight
           \/ WriteRightOfRoot \/ AllocateRoot \/ WriteRoot
           \/ ReadFails \/ WriteFails \/ AllocateFails
  BY <1>4 DEF WriteWhole, WriteLeft, AllocateRight, WriteRightOfRoot, AllocateRoot, WriteRoot,
     ReadFails, WriteFails, AllocateFails, Return
<1> QED
  BY <1>1, <1>2, <1>3, <1>4 DEF Proceed

\* Under the root that a call began with there is nothing but what was there
\* and what the call is to put there.
LEMMA CellsBounded ==
  ASSUME TreeInv, HasTree({}, {})', NEW B, CellState(B), Scanning(B), Proceed
  PROVE  CellsUnder(view', root) \subseteq B \cup Goal(req, B)
<1>1. CellsUnder(view, root) \subseteq B \cup Goal(req, B)
  BY DEF CellState
<1>2. CASE root' # root
  <2>1. CellsUnder(view', root) = CellsUnder(view, root)
    BY <1>2, ProceedFacts, RootKeepsCells
  <2> QED
    BY <1>1, <2>1
<1>3. CASE pc' = "panic"
  BY <1>1, <1>3, PanicKeepsCells
<1>4. CASE root' = root /\ CallGoesOn(B)
  <2>1. req' = req /\ CellState(B)'
    BY <1>4 DEF CallGoesOn
  <2>2. CellsUnder(view', root') \subseteq B \cup Goal(req', B)
    BY <2>1 DEF CellState
  <2> QED
    BY <1>4, <2>1, <2>2
<1>5. CASE root' = root /\ CallReturns(B)
  <2>1. CASE Answer(req, B, CellsUnder(view', root'), res')
    <3>1. CellsUnder(view', root') \in {B, Goal(req, B)}
      BY <2>1 DEF Answer
    <3> QED
      BY <1>5, <3>1
  <2>2. CASE Loss(req, B, CellsUnder(view', root'), res')
    BY <1>5, <2>2 DEF Loss
  <2> QED
    BY <1>5, <2>1, <2>2 DEF CallReturns
<1> QED
  BY <1>2, <1>3, <1>4, <1>5, CallStepsOn

\* An insert of a key that is there replaces a cell: no leaf gets too large.
LEMMA ReplacedInPlace ==
  ASSUME TreeInv, NEW B, CellState(B), InsertLeaf, \E b \in B : b.key = req.key
  PROVE  ~Overfull(work')
<1>1. /\ pc = "descend" /\ view[Last(path)].type = "leaf" /\ TreeWith({}, {}) /\ Inv
  BY DEF InsertLeaf, TreeInv, TreeWith
<1> DEFINE node == view[Last(path)]
           cell == [key |-> req.key, value |-> req.val]
<1>2. req \in Requests /\ req.op = "insert" /\ req.key \in Int
  <2>1. req \in Requests /\ req.op = "insert"
    BY <1>1 DEF Inv, WorkGood, InsertLeaf
  <2>2. req.key \in Keys
    BY <2>1 DEF Requests
  <2> QED
    BY <2>1, <2>2, BTreeAssumption
<1>3. CellsUnder(view, root) = B
  BY <1>1 DEF CellState
<1>4. PICK b \in B : b.key = req.key
  OBVIOUS
<1>5. \E i \in Positions(node.cells, req.key) : b = node.cells[i]
  BY <1>1, <1>2, <1>3, <1>4, CellsAtLeaf
<1>6. PICK i \in Positions(node.cells, req.key) : work' = Leaf([node.cells EXCEPT ![i] = cell])
  BY <1>5 DEF InsertLeaf
<1>7. Last(path) \in PageNums /\ node \in RealNodes
  <2>1. PICK T, tops \in SUBSET PageNums,
             h \in [PageNums -> Nat], under \in [PageNums -> SUBSET Int] :
          TreeState(view, owned, root, pc, req, path, work, T, tops, h, under)
    BY <1>1 DEF TreeWith, HasTree
  <2>2. Tree(view, T, h, under, tops) /\ DownFrom(root, path, view, T, h)
    BY <1>1, <2>1 DEF TreeState
  <2>3. Last(path) \in T
    BY <2>2, LastPage
  <2> QED
    BY <2>2, <2>3, TreeNode
<1>8. node.cells \in Seq(LeafCells)
  BY <1>1, <1>7, CellFacts
<1>9. Len(node.cells) <= MaxLeafCells
  <2>1. node # Zero
    BY <1>1 DEF Zero
  <2>2. InBounds(node)
    BY <1>1, <1>7, <2>1 DEF Inv, PagesGood
  <2> QED
    BY <1>1, <2>2 DEF InBounds, MaxCells
<1> HIDE DEF node
<1>10. Len([node.cells EXCEPT ![i] = cell]) = Len(node.cells)
  BY <1>8
<1>11. /\ work'.type = "leaf" /\ Len(work'.cells) = Len(node.cells)
  BY <1>6, <1>10 DEF Leaf
<1> QED
  <2>1. Len(node.cells) \in Nat /\ MaxLeafCells \in Nat
    BY <1>8, BTreeAssumption
  <2> QED
    BY <1>9, <1>11, <2>1 DEF Overfull, MaxCells

\* A call that adds no key splits no node, and writes one leaf at most.
LEMMA StaysInPlace ==
  ASSUME TreeInv, HasTree({}, {})', NEW B, CellState(B), InPlace(B), Proceed,
         req.op = "insert" => \E b \in B : b.key = req.key,
         pc' \notin {"idle", "panic"} => CellState(B)' /\ req' = req,
         pc' # "idle"
  PROVE  InPlace(B)'
<1>1. CellsUnder(view, root) = B /\ (pc = "write" => ~Overfull(work))
  BY DEF InPlace
<1>2. root' = root
  BY ProceedFacts
<1>3. CASE DescendInternal \/ ScanLeaf \/ ScanInternal \/ ReadPanics \/ WritePanics
  <2>1. view' = view /\ pc' \in {"descend", "scan", "panic"}
    BY <1>3 DEF DescendInternal, ScanLeaf, ScanInternal, ReadPanics, WritePanics, Panics
  <2> QED
    BY <1>1, <1>2, <2>1 DEF InPlace
<1>4. CASE InsertLeaf
  <2>1. view' = view /\ pc' = "write" /\ req.op = "insert"
    BY <1>4 DEF InsertLeaf
  <2>2. ~Overfull(work')
    BY <1>4, <2>1, ReplacedInPlace
  <2> QED
    BY <1>1, <1>2, <2>1, <2>2 DEF InPlace
<1>5. CASE DeleteLeaf
  <2>1. view' = view /\ pc' = "write" /\ req.op = "delete"
    BY <1>5 DEF DeleteLeaf, Return
  <2>2. CellState(B)' /\ req'.op = "delete"
    BY <2>1
  <2>3. ~Overfull(work')
    BY <2>1, <2>2 DEF CellState
  <2> QED
    BY <1>1, <1>2, <2>1, <2>3 DEF InPlace
<1>6. CASE \/ SearchLeaf \/ ScanReturns \/ WriteWhole \/ WriteRoot
           \/ ReadFails \/ WriteFails \/ AllocateFails
  BY <1>6 DEF SearchLeaf, ScanReturns, WriteWhole, WriteRoot, ReadFails, WriteFails,
     AllocateFails, Return
<1>7. CASE WriteLeft \/ AllocateRight \/ WriteRight \/ WriteRightOfRoot \/ AllocateRoot
  BY <1>1, <1>7 DEF InPlace, WriteLeft, AllocateRight, WriteRight, WriteRightOfRoot, AllocateRoot
<1> QED
  BY <1>3, <1>4, <1>5, <1>6, <1>7 DEF Proceed

----------------------------------------------------------------------------
\* The rows, step by step

\* Definitions that look at the statement and the history only.
LEMMA SameStmt ==
  ASSUME stmt'.kind = stmt.kind, stmt'.table = stmt.table, stmt'.keys = stmt.keys,
         stmt'.val = stmt.val, truth' = truth
  PROVE  /\ NewRows' = NewRows /\ (Growing' <=> Growing)
         /\ stmt'.todo = stmt.todo =>
              /\ \A d : Progress(d)' <=> Progress(d)
              /\ \A r : CallFits(r)' <=> CallFits(r)
              /\ Asked' = Asked
<1>1. NewRows' = NewRows
  BY DEF NewRows
<1>2. Growing' <=> Growing
  BY DEF Growing
<1>3. ASSUME stmt'.todo = stmt.todo
      PROVE  /\ \A d : Progress(d)' <=> Progress(d)
             /\ \A r : CallFits(r)' <=> CallFits(r)
             /\ Asked' = Asked
  <2>1. Pending' = Pending
    BY <1>3 DEF Pending
  <2>2. Untouched' <=> Untouched
    BY <1>3 DEF Untouched
  <2>3. ASSUME NEW d PROVE Progress(d)' <=> Progress(d)
    BY <1>1, <2>1, <2>2 DEF Progress
  <2>4. ASSUME NEW r PROVE CallFits(r)' <=> CallFits(r)
    BY <1>3 DEF CallFits
  <2>5. Asked' = Asked
    BY <1>3 DEF Asked
  <2> QED
    BY <2>3, <2>4, <2>5
<1> QED
  BY <1>1, <1>2, <1>3

\* The new rows of the table are rows.
LEMMA NewRowsTyped ==
  ASSUME CallInv, TruthGood, stmt # NoStmt, stmt.kind # "drop"
  PROVE  NewRows \in RowMaps \/ (stmt.kind = "create" /\ NewRows = [k \in Keys |-> Absent])
<1>1. stmt \in Stmts
  BY DEF CallInv, StmtGood
<1>2. CASE stmt.kind = "create"
  BY <1>2 DEF NewRows
<1>3. CASE stmt.kind # "create"
  <2>1. mem[stmt.table] # NoTable /\ stmt.table \in Tables
    BY <1>1, <1>3, StmtFacts DEF CallInv, StmtGood, Calling
  <2>2. truth[stmt.table] \in RowMaps
    BY <1>3, <2>1 DEF TruthGood
  <2>3. stmt.val \in Vals \cup {Absent}
    BY <1>1, StmtFacts
  <2>4. CASE stmt.kind \in {"insert", "update", "delete"}
    BY <2>2, <2>3, <2>4 DEF NewRows, RowMaps
  <2>5. CASE stmt.kind \notin {"insert", "update", "delete"}
    BY <1>3, <2>2, <2>5 DEF NewRows
  <2> QED
    BY <2>4, <2>5
<1> QED
  BY <1>2, <1>3

\* What a resting table holds is not changed by a call of another tree.
LEMMA RestingCells ==
  ASSUME CallInv, TreeInv, HasTree({}, {})', NEW h, NEW c, Layout(h, c),
         Proceed \/ NewBTree, stmt # NoStmt \/ root = NoPage,
         stmt # NoStmt => stmt.phase = "wait" /\ pc # "idle",
         NEW t \in RestingTables, mem[t] # NoTable
  PROVE  CellsUnder(view', mem[t].root) = CellsUnder(view, mem[t].root)
<1>1. t \in Tables /\ mem[t].root \in LinkedPages
  BY DEF CallInv, CatalogGood, RestingTables
<1>2. root = NoPage \/ c[mem[t].root] # c[root]
  <2>1. CASE stmt = NoStmt \/ stmt.kind \in {"create", "drop"}
    BY <2>1 DEF CallInv, StmtGood, Creating
  <2>2. CASE stmt # NoStmt /\ stmt.kind \notin {"create", "drop"}
    <3>1. stmt \in Stmts /\ Calling
      BY <2>2 DEF CallInv, StmtGood
    <3>2. stmt.table \in Tables /\ mem[stmt.table] # NoTable /\ t # stmt.table
      BY <2>2, <3>1, StmtFacts DEF Calling, RestingTables
    <3>3. c[root] = c[mem[stmt.table].root]
      BY <2>2 DEF Layout, Apart, StmtApart
    <3> QED
      BY <1>1, <3>2, <3>3 DEF Layout, Apart, TablesApart
  <2> QED
    BY <2>1, <2>2
<1> QED
  BY <1>1, <1>2, OtherCells

\* The hypotheses of every step.
RowsStep ==
  /\ DatabaseInv /\ DatabaseInv' /\ [DatabaseNext]_databaseVars
  /\ Clear' /\ RowsInv

\* What they come to.
LEMMA RowsBefore ==
  ASSUME RowsStep
  PROVE  /\ CallInv /\ CallInv' /\ TruthGood /\ TruthGood'
         /\ TreeInv /\ HasTree({}, {})' /\ Trees /\ Trees'
         /\ RestingRows /\ StmtRows /\ SavedRows
         /\ Clear /\ (ioErrors' = 0 => ioErrors = 0)
<1>1. CallInv /\ CallInv' /\ TruthGood /\ TruthGood' /\ Trees /\ Trees' /\ Clear'
  BY DEF RowsStep, DatabaseInv
<1>2. Clear /\ (ioErrors' = 0 => ioErrors = 0)
  BY <1>1, FailuresStay DEF RowsStep
<1>3. TreeInv
  BY <1>1, <1>2, TreeAtHand
<1>4. HasTree({}, {})'
  BY <1>1, TreeAtHandThen
<1> QED
  BY <1>1, <1>2, <1>3, <1>4 DEF RowsStep, RowsInv

\* The other tables, when the catalog and the history keep them.
LEMMA RestingStay ==
  ASSUME RestingRows, RestingTables' \subseteq RestingTables,
         \A t \in RestingTables' :
           /\ truth'[t] = truth[t] /\ (mem'[t] = NoTable <=> mem[t] = NoTable)
           /\ mem[t] # NoTable => /\ mem'[t].root = mem[t].root
                                  /\ CellsUnder(view', mem[t].root) = CellsUnder(view, mem[t].root)
  PROVE  RestingRows'
<1> SUFFICES ASSUME NEW t \in RestingTables'
             PROVE  /\ mem'[t] = NoTable <=> truth'[t] = NoTable
                    /\ mem'[t] # NoTable => CellsUnder(view', mem'[t].root) = RowCells(truth'[t])
  BY DEF RestingRows
<1>1. t \in RestingTables
  OBVIOUS
<1> QED
  BY <1>1 DEF RestingRows

\* What a restart would find, when nothing of it has changed.
LEMMA SavedStay ==
  ASSUME SavedRows, UNCHANGED <<truth, saved>>, ioErrors' = 0 => ioErrors = 0,
         \A t \in Tables : ~Saving(t)' =>
           \/ /\ ~Saving(t) /\ (mem'[t] = NoTable <=> mem[t] = NoTable)
              /\ mem[t] # NoTable => mem'[t].root = mem[t].root,
         ioErrors' = 0 /\ Fits(truth) /\ stmt' # NoStmt =>
           OldRows(CellsUnder(view, saved[stmt.table].root))'
  PROVE  SavedRows'
<1> SUFFICES ASSUME ioErrors' = 0, Fits(truth')
             PROVE  /\ \A t \in Tables : saved'[t] = NoTable <=> truth'[t] = NoTable
                    /\ \A t \in Tables : ~Saving(t)' => SameRoot(t)'
                    /\ stmt' # NoStmt => OldRows(CellsUnder(view, saved[stmt.table].root))'
  BY DEF SavedRows
<1>1. ioErrors = 0 /\ Fits(truth)
  OBVIOUS
<1>2. \A t \in Tables : saved'[t] = NoTable <=> truth'[t] = NoTable
  BY <1>1 DEF SavedRows
<1>3. ASSUME NEW t \in Tables, ~Saving(t)' PROVE SameRoot(t)'
  <2>1. SameRoot(t)
    BY <1>1, <1>3 DEF SavedRows
  <2> QED
    BY <1>3, <2>1 DEF SameRoot
<1> QED
  BY <1>1, <1>2, <1>3

\* CREATE TABLE begins with a tree that has no rows.
LEMMA RowsCreate ==
  ASSUME RowsStep, NEW t \in Tables, Create(t)
  PROVE  RestingRows' /\ StmtRows' /\ SavedRows'
<1>0. /\ CallInv /\ TreeInv /\ HasTree({}, {})' /\ RestingRows /\ SavedRows
      /\ (ioErrors' = 0 => ioErrors = 0)
  BY RowsBefore
<1>1. /\ stmt = NoStmt /\ pc = "idle" /\ mem[t] = NoTable /\ NewBTree
      /\ stmt' = [kind |-> "create", table |-> t, keys |-> {}, val |-> Absent,
                  todo |-> <<>>, phase |-> "wait"]
      /\ UNCHANGED <<mem, saved, truth>>
  BY DEF Create, Ready
<1>2. stmt' # NoStmt /\ stmt'.table = t /\ stmt'.kind = "create" /\ stmt'.todo = <<>>
      /\ stmt'.phase = "wait" /\ stmt'.keys = {}
  BY <1>1 DEF NoStmt
<1>3. root = NoPage
  BY <1>0, <1>1 DEF CallInv, StmtGood
<1>4. RestingTables = Tables /\ RestingTables' = Tables \ {t}
  BY <1>1, <1>2 DEF RestingTables
<1>5. RestingRows'
  <2>1. PICK h, c : Layout(h, c)
    BY DEF RowsStep, DatabaseInv
  <2>2. ASSUME NEW u \in RestingTables, mem[u] # NoTable
        PROVE  CellsUnder(view', mem[u].root) = CellsUnder(view, mem[u].root)
    BY <1>0, <1>1, <1>3, <2>1, <2>2, RestingCells
  <2> QED
    BY <1>0, <1>1, <1>4, <2>2, RestingStay
<1>6. truth[t] = NoTable
  BY <1>0, <1>1, <1>4 DEF RestingRows
<1> DEFINE d == [k \in Keys |-> Absent]
<1>7. d \in RowMaps /\ RowCells(d) = {}
  BY DEF RowMaps, RowCells, CellsIn
<1>8. Progress(d)'
  <2>1. NewRows' = d
    BY <1>2 DEF NewRows
  <2>2. ~Untouched'
    BY <1>2 DEF Untouched
  <2>3. \A k \in Keys : d[k] = NewRows'[k]
    BY <2>1
  <2> QED
    BY <2>2, <2>3 DEF Progress
<1>9. CallRows({})'
  <2>1. /\ pc' = "root" /\ req' = NewRequest /\ CellState({})'
    BY <1>1, NewBTreeCells DEF NewBTree
  <2>2. Asked' = NewRequest /\ Growing'
    BY <1>2 DEF Asked, Growing
  <2>3. Scanning({})'
    BY <2>1 DEF Scanning
  <2>4. InCall({})'
    BY <2>1, <2>2, <2>3 DEF InCall
  <2> QED
    BY <1>2, <2>1, <2>4 DEF CallRows
<1>10. \A r \in Range(stmt'.todo) : CallFits(r)'
  BY <1>2 DEF Range
<1> HIDE DEF d
<1>11. StmtRows'
  BY <1>1, <1>2, <1>6, <1>7, <1>8, <1>9, <1>10 DEF StmtRows
<1>12. SavedRows'
  <2>1. \A u \in Tables : ~Saving(u)
    BY <1>1 DEF Saving
  <2>2. OldRows(CellsUnder(view, saved[stmt.table].root))'
    BY <1>2 DEF OldRows
  <2> QED
    BY <1>0, <1>1, <2>1, <2>2, SavedStay
<1> QED
  BY <1>5, <1>11, <1>12

\* CREATE TABLE that gets no page changes nothing.
LEMMA RowsCreateFails ==
  ASSUME RowsStep, NEW t \in Tables, CreateFails(t)
  PROVE  RestingRows' /\ StmtRows' /\ SavedRows'
<1>0. /\ RestingRows /\ SavedRows /\ (ioErrors' = 0 => ioErrors = 0)
  BY RowsBefore
<1>1. /\ stmt = NoStmt /\ stmt' = NoStmt /\ UNCHANGED <<view, mem, saved, truth>>
  BY DEF CreateFails, NewBTreeFails, Ready
<1>2. RestingRows'
  BY <1>0, <1>1, RestingStay DEF RestingTables
<1>3. StmtRows'
  BY <1>1 DEF StmtRows
<1>4. SavedRows'
  BY <1>0, <1>1, SavedStay DEF Saving
<1> QED
  BY <1>2, <1>3, <1>4

\* DROP TABLE leaves the rows of its table on their pages.
LEMMA RowsDrop ==
  ASSUME RowsStep, NEW t \in Tables, Drop(t)
  PROVE  RestingRows' /\ StmtRows' /\ SavedRows'
<1>0. /\ CallInv /\ RestingRows /\ SavedRows /\ (ioErrors' = 0 => ioErrors = 0)
  BY RowsBefore
<1>1. /\ stmt = NoStmt /\ mem[t] # NoTable /\ mem' = [mem EXCEPT ![t] = NoTable]
      /\ stmt' = [kind |-> "drop", table |-> t, keys |-> {}, val |-> Absent,
                  todo |-> <<>>, phase |-> "save"]
      /\ UNCHANGED <<view, saved, truth>>
  BY DEF Drop, Ready, vars
<1>2. stmt' # NoStmt /\ stmt'.table = t /\ stmt'.kind = "drop" /\ stmt'.phase = "save"
  BY <1>1 DEF NoStmt
<1>3. RestingTables = Tables /\ RestingTables' = Tables \ {t}
  BY <1>1, <1>2 DEF RestingTables
<1>4. \A u \in Tables \ {t} : mem'[u] = mem[u]
  BY <1>0, <1>1 DEF CallInv, CatalogGood
<1>5. RestingRows'
  BY <1>0, <1>1, <1>3, <1>4, RestingStay
<1>6. StmtRows'
  BY <1>2 DEF StmtRows
<1>7. SavedRows'
  <2>1. \A u \in Tables : ~Saving(u) /\ (~Saving(u)' => u # t)
    BY <1>1, <1>2 DEF Saving
  <2>2. ASSUME ioErrors' = 0, Fits(truth)
        PROVE  OldRows(CellsUnder(view, saved[stmt.table].root))'
    <3>1. SameRoot(t)
      BY <1>0, <2>1, <2>2 DEF SavedRows
    <3>2. CellsUnder(view, saved[t].root) = RowCells(truth[t])
      BY <1>0, <1>1, <1>3, <3>1 DEF RestingRows, SameRoot
    <3> QED
      BY <1>1, <1>2, <3>2 DEF OldRows
  <2> QED
    BY <1>0, <1>1, <1>4, <2>1, <2>2, SavedStay
<1> QED
  BY <1>5, <1>6, <1>7

\* Any other statement begins with the rows of its table.
LEMMA RowsLoad ==
  ASSUME RowsStep, NEW t \in Tables, LoadBTree(t), UNCHANGED <<saved, truth>>,
         mem' = mem \/ mem' = [mem EXCEPT ![t].next = @ + 1],
         NEW kind \in {"insert", "update", "delete", "select"}, NEW keys, NEW val, NEW todo,
         Begin(kind, t, keys, val, todo),
         IF kind = "insert"
         THEN \E k \in keys : todo = <<[op |-> "search", key |-> k],
                                       [op |-> "insert", key |-> k, val |-> val]>>
         ELSE todo = <<[op |-> "scan"]>> /\ (kind = "delete" => val = Absent)
  PROVE  RestingRows' /\ StmtRows' /\ SavedRows'
<1>0. /\ CallInv /\ TruthGood /\ RestingRows /\ SavedRows /\ (ioErrors' = 0 => ioErrors = 0)
  BY RowsBefore
<1>1. /\ stmt = NoStmt /\ mem[t] # NoTable /\ root' = mem[t].root /\ view' = view
      /\ pc' = "idle"
  BY DEF LoadBTree, Ready
<1>2. /\ stmt' # NoStmt /\ stmt'.table = t /\ stmt'.kind = kind /\ stmt'.phase = "call"
      /\ stmt'.todo = todo /\ stmt'.keys = keys /\ stmt'.val = val
  BY DEF Begin, NoStmt
<1>3. RestingTables = Tables /\ RestingTables' = Tables \ {t}
  BY <1>1, <1>2 DEF RestingTables
<1>4. /\ \A u \in Tables : /\ mem'[u] = NoTable <=> mem[u] = NoTable
                           /\ mem[u] # NoTable => mem'[u].root = mem[u].root
  <2>1. mem[t] \in Infos
    BY <1>0, <1>1 DEF CallInv, CatalogGood
  <2>2. [mem[t] EXCEPT !.next = @ + 1] \in Infos
    BY <2>1 DEF Infos
  <2>3. [mem[t] EXCEPT !.next = @ + 1].root = mem[t].root
    BY <2>1 DEF Infos
  <2> QED
    BY <1>0, <1>1, <2>2, <2>3, DatabaseAssumption DEF CallInv, CatalogGood
<1>5. RestingRows'
  BY <1>0, <1>1, <1>3, <1>4, RestingStay
<1>6. /\ truth[t] \in RowMaps /\ CellsUnder(view', root') = RowCells(truth[t])
  BY <1>0, <1>1, <1>3 DEF TruthGood, RestingRows
<1>7. /\ \A r \in Range(todo) : CallFits(r)'
      /\ Untouched'
  <2>1. CASE kind = "insert"
    <3>1. PICK k \in keys : todo = <<[op |-> "search", key |-> k],
                                     [op |-> "insert", key |-> k, val |-> val]>>
      BY <2>1
    <3>2. Range(todo) = {[op |-> "search", key |-> k], [op |-> "insert", key |-> k, val |-> val]}
      BY <3>1 DEF Range
    <3>3. todo # <<>>
      BY <3>1
    <3>4. CallFits([op |-> "search", key |-> k])'
      BY <1>2, <2>1 DEF CallFits
    <3>5. CallFits([op |-> "insert", key |-> k, val |-> val])'
      BY <1>2, <2>1 DEF CallFits
    <3> QED
      BY <1>2, <2>1, <3>2, <3>3, <3>4, <3>5 DEF Untouched
  <2>2. CASE kind # "insert"
    <3>1. todo = <<[op |-> "scan"]>> /\ Range(todo) = {[op |-> "scan"]}
      BY <2>2 DEF Range
    <3>2. CallFits([op |-> "scan"])'
      BY <1>2, <3>1 DEF CallFits
    <3> QED
      BY <1>2, <3>1, <3>2 DEF Untouched
  <2> QED
    BY <2>1, <2>2
<1>8. StmtRows'
  <2>1. PICK d, B : d = truth[t] /\ B = RowCells(d)
    OBVIOUS
  <2>2. Progress(d)' /\ CallRows(B)'
    BY <1>1, <1>2, <1>6, <1>7, <2>1 DEF Progress, CallRows
  <2>3. Rooted'
    BY <1>1, <1>2, <1>4 DEF Rooted
  <2>4. kind = "delete" => val = Absent
    OBVIOUS
  <2>5. \E e \in RowMaps : \E C \in {RowCells(e)} : Progress(e)' /\ CallRows(C)'
    BY <1>6, <2>1, <2>2
  <2> QED
    BY <1>2, <1>7, <2>3, <2>4, <2>5 DEF StmtRows
<1>9. SavedRows'
  <2>1. \A u \in Tables : ~Saving(u)
    BY <1>1 DEF Saving
  <2>2. ASSUME ioErrors' = 0, Fits(truth)
        PROVE  OldRows(CellsUnder(view, saved[stmt.table].root))'
    <3>1. SameRoot(t)
      BY <1>0, <2>1, <2>2 DEF SavedRows
    <3>2. CellsUnder(view, saved[t].root) = RowCells(truth[t])
      BY <1>1, <1>6, <3>1 DEF SameRoot
    <3> QED
      BY <1>1, <1>2, <3>2 DEF OldRows
  <2> QED
    BY <1>0, <1>1, <1>4, <2>1, <2>2, SavedStay
<1> QED
  BY <1>5, <1>8, <1>9

\* The statement goes on: its kind, its table and what it is about stay.
StmtStays ==
  /\ stmt # NoStmt /\ stmt' # NoStmt
  /\ stmt'.kind = stmt.kind /\ stmt'.table = stmt.table
  /\ stmt'.keys = stmt.keys /\ stmt'.val = stmt.val

\* What a restart would find, when the statement goes on and the pages stay.
LEMMA SavedOn ==
  ASSUME SavedRows, UNCHANGED <<truth, saved>>, ioErrors' = 0 => ioErrors = 0, StmtStays,
         \A t \in Tables : t # stmt.table => mem'[t] = mem[t],
         \/ stmt'.phase = "save"
         \/ stmt.phase # "save" /\ mem' = mem,
         ioErrors' = 0 /\ Fits(truth) =>
           OldRows(CellsUnder(view, saved[stmt.table].root))'
  PROVE  SavedRows'
<1>1. ASSUME NEW t \in Tables, ~Saving(t)'
      PROVE  /\ ~Saving(t) /\ (mem'[t] = NoTable <=> mem[t] = NoTable)
             /\ mem[t] # NoTable => mem'[t].root = mem[t].root
  <2>1. stmt'.phase # "save" \/ t # stmt.table
    BY <1>1 DEF Saving, StmtStays
  <2> QED
    BY <1>1, <2>1 DEF Saving, StmtStays
<1>2. ioErrors' = 0 /\ Fits(truth) /\ stmt' # NoStmt =>
        OldRows(CellsUnder(view, saved[stmt.table].root))'
  OBVIOUS
<1> QED
  BY <1>1, <1>2, SavedStay

\* The rows of before and of after are the same ones then.
LEMMA OldRowsOn ==
  ASSUME StmtStays, UNCHANGED truth, NEW cells, OldRows(cells)
  PROVE  OldRows(cells)'
<1>1. NewRows' = NewRows
  BY SameStmt DEF StmtStays
<1> QED
  BY <1>1 DEF OldRows, StmtStays

\* A statement makes the next of its calls.
LEMMA RowsCallBTree ==
  ASSUME RowsStep, CallBTree
  PROVE  RestingRows' /\ StmtRows' /\ SavedRows'
<1>0. /\ CallInv /\ TreeInv /\ RestingRows /\ StmtRows /\ SavedRows
      /\ (ioErrors' = 0 => ioErrors = 0)
  BY RowsBefore
<1>1. /\ stmt \in Stmts /\ stmt # NoStmt /\ stmt.phase = "call" /\ stmt.todo # <<>>
      /\ Call(Head(stmt.todo)) /\ UNCHANGED <<mem, saved, truth>>
  BY <1>0 DEF CallBTree, CallInv, StmtGood
<1>2. /\ StmtStays /\ stmt'.phase = "wait" /\ stmt'.todo = stmt.todo
  BY <1>1, StmtFacts DEF CallBTree, Stmts, StmtStays
<1>3. /\ view' = view /\ root' = root /\ req' = Head(stmt.todo) /\ pc' \in {"descend", "scan"}
  BY <1>1 DEF Call
<1>4. stmt.kind \notin {"create", "drop"}
  BY <1>0, <1>1, StmtFacts DEF CallInv, StmtGood, Creating
<1>5. RestingRows'
  <2>1. RestingTables' = RestingTables
    BY <1>2 DEF RestingTables, StmtStays
  <2> QED
    BY <1>0, <1>1, <1>3, <2>1, RestingStay
<1>6. StmtRows'
  <2>1. PICK d \in RowMaps : Progress(d) /\ CallRows(RowCells(d))
    BY <1>0, <1>1, <1>4 DEF StmtRows
  <2>2. PICK B : B = RowCells(d)
    OBVIOUS
  <2>3. Head(stmt.todo) \in Requests
    BY <1>1, StmtFacts, HeadTailProperties
  <2>4. CellsUnder(view, root) = B
    BY <1>1, <2>1, <2>2 DEF CallRows
  <2>5. PICK r \in Requests : r = Head(stmt.todo)
    BY <2>3
  <2>6. CellState(B)'
    BY <1>1, <2>4, <2>5, CallCells
  <2>7. Scanning(B)'
    BY <1>0, <1>1, <2>4, <2>5, CallScans
  <2>8. Asked' = req'
    BY <1>2, <1>3, <1>4 DEF Asked, StmtStays
  <2>9. InPlace(B)'
    BY <1>3, <2>4 DEF InPlace
  <2>10. CallRows(B)'
    BY <1>2, <1>3, <2>6, <2>7, <2>8, <2>9 DEF CallRows, InCall
  <2>11. Progress(d)' /\ \A x : CallFits(x)' <=> CallFits(x)
    BY <1>1, <1>2, <2>1, SameStmt DEF StmtStays
  <2>12. Rooted'
    BY <1>0, <1>1, <1>2, <1>3, <1>4 DEF StmtRows, Rooted, StmtStays
  <2>13. \A x \in Range(stmt'.todo) : CallFits(x)'
    BY <1>0, <1>1, <1>2, <1>4, <2>11 DEF StmtRows
  <2>14. \E e \in RowMaps : \E C \in {RowCells(e)} : Progress(e)' /\ CallRows(C)'
    BY <2>2, <2>10, <2>11
  <2> QED
    BY <1>0, <1>1, <1>2, <1>4, <2>12, <2>13, <2>14 DEF StmtRows, StmtStays
<1>7. SavedRows'
  <2>1. ASSUME ioErrors' = 0, Fits(truth)
        PROVE  OldRows(CellsUnder(view, saved[stmt.table].root))'
    <3>1. OldRows(CellsUnder(view, saved[stmt.table].root))
      BY <1>0, <1>1, <2>1 DEF SavedRows
    <3>2. PICK cells : cells = CellsUnder(view, saved[stmt.table].root)
      OBVIOUS
    <3>3. OldRows(cells)'
      BY <1>1, <1>2, <3>1, <3>2, OldRowsOn
    <3> QED
      BY <1>1, <1>2, <1>3, <3>2, <3>3 DEF StmtStays
  <2> QED
    BY <1>0, <1>1, <1>2, <2>1, SavedOn
<1> QED
  BY <1>5, <1>6, <1>7

----------------------------------------------------------------------------
\* Statements proceed

\* A statement that works on the tree of its table.
LEMMA AtWork ==
  ASSUME CallInv, TruthGood, StmtRows, stmt # NoStmt, stmt.kind \notin {"create", "drop"}
  PROVE  /\ stmt \in Stmts /\ stmt.table \in Tables /\ mem[stmt.table] # NoTable
         /\ truth[stmt.table] \in RowMaps /\ root # NoPage
         /\ stmt.phase = "wait" =>
              /\ stmt.todo # <<>> /\ Head(stmt.todo) \in Requests
              /\ Head(stmt.todo) \in Range(stmt.todo) /\ Asked = Head(stmt.todo)
              /\ CallFits(Head(stmt.todo))
              /\ pc # "idle" => req = Head(stmt.todo)
<1>1. stmt \in Stmts /\ Calling
  BY DEF CallInv, StmtGood
<1>2. stmt.table \in Tables /\ mem[stmt.table] # NoTable /\ root # NoPage
  BY <1>1, StmtFacts DEF Calling
<1>3. truth[stmt.table] \in RowMaps
  BY <1>2 DEF TruthGood
<1>4. ASSUME stmt.phase = "wait"
      PROVE  /\ stmt.todo # <<>> /\ Head(stmt.todo) \in Requests
             /\ Head(stmt.todo) \in Range(stmt.todo) /\ Asked = Head(stmt.todo)
             /\ CallFits(Head(stmt.todo))
             /\ pc # "idle" => req = Head(stmt.todo)
  <2>1. stmt.todo # <<>> /\ stmt.todo \in Seq(Requests) /\ (pc # "idle" => req = Head(stmt.todo))
    BY <1>1, <1>4, StmtFacts DEF Calling
  <2>2. Head(stmt.todo) \in Requests
    BY <2>1, HeadTailProperties
  <2>3. Head(stmt.todo) = stmt.todo[1] /\ 1 \in DOMAIN stmt.todo
    BY <2>1
  <2>4. Head(stmt.todo) \in Range(stmt.todo)
    BY <2>3 DEF Range
  <2>5. Asked = Head(stmt.todo)
    BY DEF Asked
  <2>6. CallFits(Head(stmt.todo))
    BY <2>4 DEF StmtRows
  <2> QED
    BY <2>1, <2>2, <2>4, <2>5, <2>6
<1> QED
  BY <1>1, <1>2, <1>3, <1>4

\* What INSERT's calls do to the rows that it found.
LEMMA InsertGoal ==
  ASSUME CallInv, TruthGood, StmtRows, stmt # NoStmt, stmt.kind = "insert", stmt.phase = "wait",
         NEW B, B = RowCells(truth[stmt.table])
  PROVE  /\ Head(stmt.todo).op \in {"search", "insert"}
         /\ Head(stmt.todo).op = "search" => Goal(Head(stmt.todo), B) = B
         /\ Head(stmt.todo).op = "insert" => Goal(Head(stmt.todo), B) = RowCells(NewRows)
         /\ NewRows \in RowMaps
<1>1. /\ stmt \in Stmts /\ truth[stmt.table] \in RowMaps /\ stmt.todo # <<>>
  BY AtWork
<1>2. Inserting /\ stmt.val \in Vals
  BY DEF CallInv, StmtGood, Calling
<1>3. PICK k \in Keys :
        /\ stmt.keys = {k}
        /\ stmt.todo \in {<<[op |-> "search", key |-> k],
                            [op |-> "insert", key |-> k, val |-> stmt.val]>>,
                          <<[op |-> "insert", key |-> k, val |-> stmt.val]>>, <<>>}
  BY <1>2 DEF Inserting
<1>4. Head(stmt.todo) \in {[op |-> "search", key |-> k],
                           [op |-> "insert", key |-> k, val |-> stmt.val]}
  BY <1>1, <1>3
<1> DEFINE d == truth[stmt.table]
<1>5. NewRows = [d EXCEPT ![k] = stmt.val]
  BY <1>1, <1>3 DEF NewRows, RowMaps
<1>6. ASSUME Head(stmt.todo).op = "insert"
      PROVE  Goal(Head(stmt.todo), B) = RowCells(NewRows) /\ NewRows \in RowMaps
  <2>1. PICK r : r = Head(stmt.todo)
    OBVIOUS
  <2>2. r.op = "insert" /\ r.key = k /\ r.val = stmt.val
    BY <1>4, <1>6, <2>1
  <2>3. d \in MapsWith(Absent) /\ Absent \notin Vals /\ r.key \in Keys /\ r.val \in Vals
    BY <1>1, <1>2, <2>2, RowMapFacts
  <2>4. /\ [d EXCEPT ![r.key] = r.val] \in MapsWith(Absent)
        /\ CellsIn([d EXCEPT ![r.key] = r.val], Absent) = Goal(r, CellsIn(d, Absent))
    BY <2>2, <2>3, CellsAfterInsert
  <2> QED
    BY <1>5, <2>1, <2>2, <2>4, RowMapFacts DEF RowCells
<1>7. NewRows \in RowMaps
  BY <1>1, <1>2, <1>5 DEF RowMaps
<1> QED
  BY <1>4, <1>6, <1>7 DEF Goal

\* UPDATE inserts under the keys of rows that are there.
LEMMA UpdatesRow ==
  ASSUME CallInv, TruthGood, StmtRows, stmt # NoStmt, stmt.kind = "update",
         stmt.phase = "wait", NEW d \in RowMaps, Progress(d), Head(stmt.todo).op = "insert"
  PROVE  \E b \in RowCells(d) : b.key = Head(stmt.todo).key
<1>1. /\ truth[stmt.table] \in RowMaps /\ Head(stmt.todo) \in Requests
      /\ CallFits(Head(stmt.todo)) /\ stmt.val \in Vals
  BY AtWork DEF CallInv, StmtGood, Calling
<1>2. PICK k : k = Head(stmt.todo).key
  OBVIOUS
<1>3. k \in Keys /\ k \in stmt.keys /\ truth[stmt.table][k] # Absent
  BY <1>1, <1>2 DEF CallFits, Requests
<1>4. d[k] \in {NewRows[k], truth[stmt.table][k]}
  <2>1. ~Untouched
    BY DEF Untouched
  <2> QED
    BY <1>3, <2>1 DEF Progress
<1>5. NewRows[k] = stmt.val
  BY <1>3 DEF NewRows
<1>6. d[k] # Absent
  BY <1>1, <1>3, <1>4, <1>5, RowMapFacts
<1>7. [key |-> k, value |-> d[k]] \in RowCells(d)
  BY <1>3, <1>6 DEF RowCells, CellsIn
<1> QED
  BY <1>2, <1>7

\* A step inside a call that adds no key leaves the cells in place.
LEMMA RowsInPlace ==
  ASSUME CallInv, TruthGood, TreeInv, HasTree({}, {})', StmtRows, stmt # NoStmt,
         stmt.kind # "drop", stmt.phase = "wait", pc \notin {"idle", "panic"}, ~Growing,
         NEW d \in RowMaps, Progress(d), NEW B, B = RowCells(d), InCall(B), Proceed,
         pc' \notin {"idle", "panic"} => CellState(B)' /\ req' = req, pc' # "idle"
  PROVE  InPlace(B)'
<1>1. stmt.kind \notin {"create", "drop", "insert"}
  BY DEF Growing
<1>2. req = Head(stmt.todo) /\ CallFits(Head(stmt.todo))
  BY <1>1, AtWork
<1>3. CellState(B) /\ InPlace(B)
  BY DEF InCall
<1>4. req.op = "insert" => \E b \in B : b.key = req.key
  <2>1. ASSUME req.op = "insert" PROVE stmt.kind = "update"
    BY <1>1, <1>2, <2>1 DEF CallFits
  <2> QED
    BY <1>2, <2>1, UpdatesRow
<1> QED
  BY <1>3, <1>4, StaysInPlace

\* Where the call that goes on leaves the tree and the rows.
LEMMA RowsCallOn ==
  ASSUME CallInv, TruthGood, TreeInv, HasTree({}, {})', StmtRows, stmt # NoStmt,
         stmt.kind # "drop", stmt.phase = "wait", pc \notin {"idle", "panic"}, UNCHANGED stmt,
         NEW d \in RowMaps, Progress(d), NEW B, B = RowCells(d), InCall(B), Proceed
  PROVE  CallRows(B)'
<1>1. /\ req = Asked /\ CellState(B) /\ Scanning(B) /\ (~Growing => InPlace(B))
  BY DEF InCall
<1>2. Asked' = Asked /\ (Growing' <=> Growing) /\ stmt'.phase = "wait"
  BY DEF Asked, Growing
<1>3. CASE CallGoesOn(B)
  <2>1. pc' \notin {"idle", "panic"} /\ req' = req /\ CellState(B)' /\ Scanning(B)'
    BY <1>3 DEF CallGoesOn
  <2>2. ~Growing => InPlace(B)'
    BY <2>1, RowsInPlace
  <2>3. InCall(B)'
    BY <1>1, <1>2, <2>1, <2>2 DEF InCall
  <2> QED
    BY <1>2, <2>1, <2>3 DEF CallRows
<1>4. CASE pc' = "panic" /\ UNCHANGED req
  <2>1. ~Growing => InPlace(B)'
    BY <1>4, RowsInPlace
  <2>2. InCall(B)'
    BY <1>2, <1>4, <2>1 DEF InCall
  <2> QED
    BY <1>2, <1>4, <2>2 DEF CallRows
<1>5. CASE CallReturns(B)
  <2>1. pc' = "idle"
    BY <1>5 DEF CallReturns
  <2>2. CASE Answer(req, B, CellsUnder(view', root'), res')
    BY <1>1, <1>2, <2>1, <2>2 DEF CallRows
  <2>3. CASE /\ WriteFails \/ AllocateFails
             /\ Loss(req, B, CellsUnder(view', root'), res')
    <3>1. res'.status = "error"
      BY <2>3 DEF Loss
    <3>2. ASSUME ioErrors' = 0 PROVE Growing
      <4>1. ioErrors \in Nat
        BY BTreeAssumption DEF CallInv, Inv, TypeOK
      <4>2. ~IOError
        BY <3>2, <4>1 DEF IOError
      <4>3. pc \in {"alloc", "rootalloc"}
        BY <2>3, <4>2 DEF WriteFails, AllocateFails
      <4> QED
        BY <1>1, <4>3 DEF InPlace
    <3> QED
      BY <1>2, <2>1, <3>1, <3>2 DEF CallRows
  <2> QED
    BY <1>5, <2>2, <2>3 DEF CallReturns
<1> QED
  BY <1>1, <1>3, <1>4, <1>5, CallStepsOn

\* A step inside a call: the root that a split has made is known to the statement
\* when INSERT's last call has returned.
LEMMA RowsBTreeProceeds ==
  ASSUME RowsStep, BTreeProceeds
  PROVE  RestingRows' /\ StmtRows' /\ SavedRows'
<1>0. /\ CallInv /\ TruthGood /\ TreeInv /\ HasTree({}, {})'
      /\ RestingRows /\ StmtRows /\ SavedRows /\ (ioErrors' = 0 => ioErrors = 0)
  BY RowsBefore
<1>1. Proceed /\ UNCHANGED <<mem, saved, stmt, truth>> /\ pc \notin {"idle", "panic"}
  BY ProceedFacts DEF BTreeProceeds
<1>2. /\ stmt \in Stmts /\ stmt # NoStmt /\ stmt.phase = "wait" /\ stmt.kind # "drop"
  BY <1>0, <1>1 DEF CallInv, StmtGood
<1>3. StmtStays /\ RestingTables' = RestingTables
  BY <1>1, <1>2 DEF StmtStays, RestingTables
<1>4. RestingRows'
  <2>1. PICK h, c : Layout(h, c)
    BY DEF RowsStep, DatabaseInv
  <2>2. ASSUME NEW t \in RestingTables, mem[t] # NoTable
        PROVE  CellsUnder(view', mem[t].root) = CellsUnder(view, mem[t].root)
    BY <1>0, <1>1, <1>2, <2>1, <2>2, RestingCells
  <2> QED
    BY <1>0, <1>1, <1>3, <2>2, RestingStay
<1>5. PICK d \in RowMaps : Progress(d) /\ InCall(RowCells(d))
  BY <1>0, <1>1, <1>2 DEF StmtRows, CallRows
<1>6. PICK B : B = RowCells(d) /\ InCall(B)
  BY <1>5
<1>7. CellState(B) /\ Scanning(B) /\ req = Asked
  BY <1>1, <1>6 DEF InCall
<1>8. stmt.kind # "create" => root = mem[stmt.table].root
  BY <1>0, <1>1, <1>2 DEF StmtRows, Rooted
<1>9. StmtRows'
  <2>1. CallRows(B)'
    BY <1>0, <1>1, <1>2, <1>5, <1>6, RowsCallOn
  <2>2. Progress(d)' /\ (\A x : CallFits(x)' <=> CallFits(x)) /\ stmt'.todo = stmt.todo
    BY <1>1, <1>5, SameStmt
  <2>3. ASSUME stmt.kind # "create" PROVE Rooted'
    <3>1. CASE root' = root
      BY <1>1, <1>8, <2>3, <3>1 DEF Rooted
    <3>2. CASE root' # root
      <4>1. pc = "root" /\ pc' = "idle"
        BY <1>1, <3>2, ProceedFacts
      <4>2. root # NoPage /\ Asked = Head(stmt.todo)
        BY <1>0, <1>2, <2>3, AtWork
      <4>3. Head(stmt.todo).op = "insert"
        BY <1>7, <4>1, <4>2 DEF CellState
      <4>4. Growing
        BY <1>6, <4>1 DEF InCall, InPlace
      <4> QED
        BY <1>1, <1>2, <2>3, <4>1, <4>3, <4>4 DEF Rooted, Growing
    <3> QED
      BY <3>1, <3>2
  <2>4. \A x \in Range(stmt'.todo) : CallFits(x)'
    BY <1>0, <1>2, <2>2 DEF StmtRows
  <2>5. \E e \in RowMaps : \E C \in {RowCells(e)} : Progress(e)' /\ CallRows(C)'
    BY <1>6, <2>1, <2>2
  <2>6. /\ stmt'.kind = "create" =>
             truth'[stmt'.table] = NoTable /\ (stmt'.phase = "wait" => mem'[stmt'.table] = NoTable)
        /\ stmt'.kind = "delete" => stmt'.val = Absent
    BY <1>0, <1>1, <1>2 DEF StmtRows
  <2> QED
    BY <1>1, <2>3, <2>4, <2>5, <2>6 DEF StmtRows
<1>10. SavedRows'
  <2>1. ASSUME ioErrors' = 0, Fits(truth)
        PROVE  OldRows(CellsUnder(view, saved[stmt.table].root))'
    <3>1. CASE stmt.kind = "insert"
      <4>1. /\ stmt.table \in Tables /\ mem[stmt.table] # NoTable
            /\ Asked = Head(stmt.todo) /\ stmt.todo # <<>>
        BY <1>0, <1>2, <3>1, AtWork
      <4>2. ~Saving(stmt.table)
        BY <1>2 DEF Saving
      <4>3. saved[stmt.table].root = root
        BY <1>0, <1>8, <2>1, <3>1, <4>1, <4>2 DEF SavedRows, SameRoot
      <4>4. B = RowCells(truth[stmt.table])
        BY <1>5, <1>6, <3>1, <4>1 DEF Progress, Untouched
      <4>5. CellsUnder(view', root) \subseteq B \cup Goal(req, B)
        BY <1>0, <1>1, <1>7, CellsBounded
      <4>6. Goal(req, B) \in {B, RowCells(NewRows)}
        BY <1>0, <1>2, <1>7, <3>1, <4>1, <4>4, InsertGoal
      <4>7. PICK cells : cells = CellsUnder(view', root)
        OBVIOUS
      <4>8. OldRows(cells)
        BY <3>1, <4>4, <4>5, <4>6, <4>7 DEF OldRows
      <4>9. OldRows(cells)'
        BY <1>1, <1>3, <4>8, OldRowsOn
      <4> QED
        BY <1>1, <4>3, <4>7, <4>9
    <3>2. CASE stmt.kind # "insert"
      BY <1>1, <1>2, <3>2 DEF OldRows
    <3> QED
      BY <3>1, <3>2
  <2> QED
    BY <1>0, <1>1, <1>2, <1>3, <2>1, SavedOn
<1> QED
  BY <1>4, <1>9, <1>10

\* The tree that CREATE has made is its table's, and holds no rows.
LEMMA RowsTableCreated ==
  ASSUME RowsStep, TableCreated
  PROVE  RestingRows' /\ StmtRows' /\ SavedRows'
<1>0. /\ CallInv /\ RestingRows /\ StmtRows /\ SavedRows /\ (ioErrors' = 0 => ioErrors = 0)
  BY RowsBefore
<1>1. /\ stmt \in Stmts /\ stmt # NoStmt /\ stmt.phase = "wait" /\ pc = "idle"
      /\ stmt.kind = "create" /\ res.status = "ok"
      /\ mem' = [mem EXCEPT ![stmt.table] = [root |-> root, next |-> 1]]
      /\ UNCHANGED <<view, root, saved, truth>>
  BY <1>0 DEF TableCreated, Returned, CallInv, StmtGood, vars
<1>2. StmtStays /\ stmt'.phase = "save" /\ stmt'.todo = stmt.todo /\ stmt.todo = <<>>
  BY <1>0, <1>1, StmtFacts DEF TableCreated, Stmts, StmtStays, CallInv, StmtGood, Creating
<1>3. \A t \in Tables : t # stmt.table => mem'[t] = mem[t]
  BY <1>0, <1>1 DEF CallInv, CatalogGood
<1>4. RestingRows'
  <2>1. RestingTables' = RestingTables /\ RestingTables \subseteq Tables \ {stmt.table}
    BY <1>1, <1>2 DEF RestingTables, StmtStays
  <2> QED
    BY <1>0, <1>1, <1>3, <2>1, RestingStay
<1>5. StmtRows'
  <2>1. PICK d \in RowMaps : Progress(d) /\ CallRows(RowCells(d))
    BY <1>0, <1>1 DEF StmtRows
  <2>2. PICK B : B = RowCells(d)
    OBVIOUS
  <2>3. CallRows(B)'
    <3>1. Answer(Asked, B, CellsUnder(view, root), res)
      BY <1>1, <2>1, <2>2 DEF CallRows
    <3>2. CellsUnder(view, root) = Goal(Asked, B) /\ Asked.op = "new"
      BY <1>1, <3>1 DEF Answer, Asked, NewRequest
    <3>3. CellsUnder(view, root) = B
      BY <3>2 DEF Goal
    <3> QED
      BY <1>1, <1>2, <3>3 DEF CallRows
  <2>4. Progress(d)'
    BY <1>1, <1>2, <2>1, SameStmt DEF StmtStays
  <2>5. \E e \in RowMaps : \E C \in {RowCells(e)} : Progress(e)' /\ CallRows(C)'
    BY <2>2, <2>3, <2>4
  <2>6. \A x \in Range(stmt'.todo) : CallFits(x)'
    BY <1>2 DEF Range
  <2>7. truth'[stmt'.table] = NoTable
    BY <1>0, <1>1, <1>2 DEF StmtRows, StmtStays
  <2> QED
    BY <1>1, <1>2, <2>5, <2>6, <2>7 DEF StmtRows, StmtStays
<1>6. SavedRows'
  <2>1. OldRows(CellsUnder(view, saved[stmt.table].root))'
    BY <1>1, <1>2 DEF OldRows, StmtStays
  <2> QED
    BY <1>0, <1>1, <1>2, <1>3, <2>1, SavedOn
<1> QED
  BY <1>4, <1>5, <1>6

\* The calls that ScanAllRows leads to, row by row.
LEMMA ScannedCalls ==
  ASSUME CallInv, Scanned
  PROVE  \A r : r \in Range(stmt'.todo) <=>
                  \E cell \in Range(res.rows) : cell.key \in stmt.keys /\ r \in Range(CallsFor(cell))
<1> DEFINE calls == [i \in DOMAIN res.rows |->
                       IF res.rows[i].key \in stmt.keys THEN CallsFor(res.rows[i]) ELSE <<>>]
           size == Len(res.rows)
           todo == FlattenSeq(calls)
<1>1. /\ stmt' = [stmt EXCEPT !.phase = "call", !.todo = todo]
      /\ todo \in Seq(Requests) /\ size \in Nat /\ calls \in [1 .. size -> Seq(Requests)]
      /\ size = 0 => todo = <<>>
      /\ stmt \in Stmts
  BY ScannedTodo
<1>2. stmt'.todo = todo
  BY <1>1 DEF Stmts
<1>3. DOMAIN res.rows = 1 .. size
  <2>1. res.rows \in Seq(LeafCells)
    BY DEF CallInv, Inv, TypeOK
  <2> QED
    BY <2>1, LenProperties
<1>4. \A r : (\E i \in 1 .. size : r \in Range(calls[i])) <=>
               \E cell \in Range(res.rows) : cell.key \in stmt.keys /\ r \in Range(CallsFor(cell))
  <2>1. \A i \in 1 .. size : \A r : r \in Range(calls[i]) <=>
          res.rows[i].key \in stmt.keys /\ r \in Range(CallsFor(res.rows[i]))
    <3> SUFFICES ASSUME NEW i \in 1 .. size
                 PROVE  \A r : r \in Range(calls[i]) <=>
                          res.rows[i].key \in stmt.keys /\ r \in Range(CallsFor(res.rows[i]))
      OBVIOUS
    <3>1. calls[i] = IF res.rows[i].key \in stmt.keys THEN CallsFor(res.rows[i]) ELSE <<>>
      BY <1>3
    <3>2. Range(<<>>) = {}
      BY DEF Range
    <3> QED
      BY <3>1, <3>2
  <2> HIDE DEF calls
  <2>2. \A cell : cell \in Range(res.rows) <=> \E i \in 1 .. size : cell = res.rows[i]
    BY <1>3 DEF Range
  <2> QED
    BY <2>1, <2>2
<1>5. CASE size = 0
  <2>1. Range(stmt'.todo) = {}
    BY <1>1, <1>2, <1>5 DEF Range
  <2>2. Range(res.rows) = {}
    BY <1>3, <1>5 DEF Range
  <2> QED
    BY <2>1, <2>2
<1>6. CASE size # 0
  <2>1. size \in Nat \ {0} /\ calls \in [1 .. size -> Seq(Requests)]
    BY <1>1, <1>6
  <2> HIDE DEF calls, size
  <2>2. Range(FlattenSeq(calls)) = UNION {Range(calls[i]) : i \in 1 .. size}
    BY <2>1, FlattenRange, ZenonT(30)
  <2> QED
    BY <1>2, <1>4, <2>2
<1> QED
  BY <1>5, <1>6

\* The calls for one row.
LEMMA CallsForRange ==
  ASSUME NEW cell
  PROVE  /\ stmt.kind = "update" =>
              Range(CallsFor(cell)) = {[op |-> "search", key |-> cell.key],
                                       [op |-> "insert", key |-> cell.key, val |-> stmt.val]}
         /\ stmt.kind = "delete" =>
              Range(CallsFor(cell)) = {[op |-> "delete", key |-> cell.key]}
         /\ stmt.kind = "select" => Range(CallsFor(cell)) = {}
<1>1. CASE stmt.kind = "update"
  BY <1>1 DEF CallsFor, Range
<1>2. CASE stmt.kind = "delete"
  BY <1>2 DEF CallsFor, Range
<1>3. CASE stmt.kind = "select"
  BY <1>3 DEF CallsFor, Range
<1> QED
  BY <1>1, <1>2, <1>3

\* The rows that were found are those of the table, and the ones to change are
\* those that the statement selects.
LEMMA RowsScanned ==
  ASSUME RowsStep, Scanned
  PROVE  RestingRows' /\ StmtRows' /\ SavedRows'
<1>0. /\ CallInv /\ TruthGood /\ RestingRows /\ StmtRows /\ SavedRows
      /\ (ioErrors' = 0 => ioErrors = 0)
  BY RowsBefore
<1>1. /\ stmt \in Stmts /\ stmt # NoStmt /\ stmt.phase = "wait" /\ pc = "idle"
      /\ Head(stmt.todo).op = "scan" /\ res.status = "ok"
      /\ UNCHANGED <<view, root, mem, saved, truth>>
  BY <1>0 DEF Scanned, Returned, CallInv, StmtGood, vars
<1>2. stmt.kind \in {"update", "delete", "select"}
  BY <1>0, ScannedTodo
<1>3. StmtStays /\ stmt'.phase = "call"
  <2>1. PICK todo \in Seq(Requests) : stmt' = [stmt EXCEPT !.phase = "call", !.todo = todo]
    BY <1>0, ScannedTodo
  <2>2. GoesOn(stmt', stmt, "call", todo)
    BY <2>1 DEF GoesOn
  <2> QED
    BY <1>1, <2>2, StmtGoesOn DEF StmtStays
<1>4. RestingRows'
  <2>1. RestingTables' = RestingTables
    BY <1>3 DEF RestingTables, StmtStays
  <2> QED
    BY <1>0, <1>1, <2>1, RestingStay
<1>5. PICK d : d = truth[stmt.table] /\ d \in RowMaps
  BY <1>0, <1>1, <1>2, AtWork
<1>6. PICK B : B = RowCells(d)
  OBVIOUS
<1>7. Asked = Head(stmt.todo) /\ stmt.todo = <<[op |-> "scan"]>>
  BY <1>0, <1>1, <1>2, AtWork DEF CallFits
<1>8. CellsUnder(view, root) = B /\ Range(res.rows) = B
  <2>1. CallRows(B)
    <3>1. PICK e \in RowMaps : Progress(e) /\ CallRows(RowCells(e))
      BY <1>0, <1>1, <1>2 DEF StmtRows
    <3>2. e = d
      BY <1>5, <1>7, <3>1 DEF Progress, Untouched
    <3> QED
      BY <1>6, <3>1, <3>2
  <2>2. Answer(Asked, B, CellsUnder(view, root), res)
    BY <1>1, <2>1 DEF CallRows
  <2>3. /\ CellsUnder(view, root) = Goal(Asked, B) /\ Range(res.rows) = B
    BY <1>1, <1>7, <2>2 DEF Answer
  <2> QED
    BY <1>1, <1>7, <2>3 DEF Goal
<1>9. ASSUME NEW k \in Keys, d[k] # Absent, k \in stmt.keys, stmt.kind # "select"
      PROVE  k \in Pending'
  <2>1. PICK cell : cell = [key |-> k, value |-> d[k]]
    OBVIOUS
  <2>2. cell \in Range(res.rows) /\ cell.key = k
    BY <1>6, <1>8, <1>9, <2>1 DEF RowCells, CellsIn
  <2>3. PICK r \in Range(CallsFor(cell)) : r.op \in {"insert", "delete"} /\ r.key = k
    <3>1. CASE stmt.kind = "update"
      <4>1. [op |-> "insert", key |-> cell.key, val |-> stmt.val] \in Range(CallsFor(cell))
        BY <3>1, CallsForRange
      <4> QED
        BY <2>2, <4>1
    <3>2. CASE stmt.kind = "delete"
      <4>1. [op |-> "delete", key |-> cell.key] \in Range(CallsFor(cell))
        BY <3>2, CallsForRange
      <4> QED
        BY <2>2, <4>1
    <3> QED
      BY <1>2, <1>9, <3>1, <3>2
  <2>4. r \in Range(stmt'.todo)
    BY <1>0, <1>9, <2>2, <2>3, ScannedCalls
  <2> QED
    BY <2>3, <2>4 DEF Pending
<1>10. NewRows' = NewRows
  BY <1>1, <1>3, SameStmt DEF StmtStays
<1>11. Progress(d)'
  <2>1. ASSUME NEW k \in Keys PROVE d[k] = NewRows[k] \/ k \in Pending'
    BY <1>2, <1>5, <1>9 DEF NewRows
  <2> QED
    BY <1>1, <1>3, <1>5, <1>10, <2>1 DEF Progress, StmtStays
<1>12. ASSUME NEW r \in Range(stmt'.todo) PROVE CallFits(r)'
  <2>1. PICK cell \in Range(res.rows) : cell.key \in stmt.keys /\ r \in Range(CallsFor(cell))
    BY <1>0, ScannedCalls
  <2>2. cell.key \in Keys /\ d[cell.key] # Absent
    BY <1>6, <1>8 DEF RowCells, CellsIn
  <2>3. /\ r.op \in {"search", "insert", "delete"} /\ r.key = cell.key
        /\ r.op \in {"search", "insert"} => stmt.kind = "update"
        /\ r.op = "insert" => r.val = stmt.val
        /\ r.op = "delete" => stmt.kind = "delete"
    <3>1. CASE stmt.kind = "update"
      BY <2>1, <3>1, CallsForRange
    <3>2. CASE stmt.kind = "delete"
      BY <2>1, <3>2, CallsForRange
    <3>3. CASE stmt.kind = "select"
      BY <2>1, <3>3, CallsForRange
    <3> QED
      BY <1>2, <3>1, <3>2, <3>3
  <2> QED
    BY <1>1, <1>3, <1>5, <2>1, <2>2, <2>3 DEF CallFits, StmtStays
<1>13. StmtRows'
  <2>1. CallRows(B)'
    BY <1>1, <1>3, <1>8 DEF CallRows
  <2>2. Rooted'
    BY <1>0, <1>1, <1>2, <1>3 DEF StmtRows, Rooted, StmtStays
  <2>3. stmt'.kind = "delete" => stmt'.val = Absent
    BY <1>0, <1>1, <1>3 DEF StmtRows, StmtStays
  <2>4. \E e \in RowMaps : \E C \in {RowCells(e)} : Progress(e)' /\ CallRows(C)'
    BY <1>5, <1>6, <1>11, <2>1
  <2> QED
    BY <1>2, <1>3, <1>12, <2>2, <2>3, <2>4 DEF StmtRows, StmtStays
<1>14. SavedRows'
  <2>1. OldRows(CellsUnder(view, saved[stmt.table].root))'
    BY <1>2, <1>3 DEF OldRows, StmtStays
  <2> QED
    BY <1>0, <1>1, <1>3, <2>1, SavedOn
<1> QED
  BY <1>4, <1>13, <1>14

\* The calls that are left.
LEMMA TodoTail ==
  ASSUME CallInv, TruthGood, StmtRows, stmt # NoStmt, stmt.kind \notin {"create", "drop"},
         stmt.phase = "wait", Head(stmt.todo).op # "scan", stmt'.todo = Tail(stmt.todo)
  PROVE  /\ Range(stmt'.todo) \subseteq Range(stmt.todo)
         /\ \A r \in Range(stmt.todo) : r = Head(stmt.todo) \/ r \in Range(stmt'.todo)
         /\ \A r \in Range(stmt.todo) : r.op # "scan"
         /\ stmt'.todo # <<[op |-> "scan"]>> /\ stmt.todo # <<[op |-> "scan"]>>
<1>1. stmt.todo # <<>> /\ stmt.todo \in Seq(Requests)
  BY AtWork, StmtFacts
<1>2. PICK s \in Seq(Requests) : s = stmt.todo /\ s # <<>>
  BY <1>1
<1>3. /\ Len(s) \in Nat \ {0} /\ Head(s) = s[1]
      /\ Tail(s) = [i \in 1 .. Len(s) - 1 |-> s[i + 1]]
      /\ DOMAIN s = 1 .. Len(s)
  BY <1>2
<1>4. \A i \in DOMAIN Tail(s) : i + 1 \in DOMAIN s /\ Tail(s)[i] = s[i + 1]
  BY <1>3
<1>5. \A i \in DOMAIN s : i = 1 \/ (i - 1 \in DOMAIN Tail(s) /\ Tail(s)[i - 1] = s[i])
  BY <1>3
<1>6. Range(Tail(s)) \subseteq Range(s)
  BY <1>4 DEF Range
<1>7. \A r \in Range(s) : r = Head(s) \/ r \in Range(Tail(s))
  <2> SUFFICES ASSUME NEW i \in DOMAIN s, s[i] # Head(s) PROVE s[i] \in Range(Tail(s))
    BY DEF Range
  <2>1. i - 1 \in DOMAIN Tail(s) /\ Tail(s)[i - 1] = s[i]
    BY <1>3, <1>5
  <2> QED
    BY <2>1 DEF Range
<1>8. s # <<[op |-> "scan"]>>
  BY <1>2
<1>9. \A r \in Range(s) : r.op # "scan"
  BY <1>2, <1>8 DEF StmtRows, CallFits
<1>10. Tail(s) # <<[op |-> "scan"]>>
  <2>1. SUFFICES ASSUME Tail(s) = <<[op |-> "scan"]>> PROVE FALSE
    OBVIOUS
  <2>2. PICK x : x = [op |-> "scan"]
    OBVIOUS
  <2>3. Tail(s) = <<x>>
    BY <2>1, <2>2
  <2>4. 1 \in DOMAIN <<x>> /\ <<x>>[1] = x
    OBVIOUS
  <2>5. x \in Range(Tail(s))
    BY <2>3, <2>4 DEF Range
  <2> QED
    BY <1>6, <1>9, <2>2, <2>5
<1> QED
  BY <1>2, <1>6, <1>7, <1>8, <1>9, <1>10

\* Every row that a call has brought to its new value is one less to change.
LEMMA RowDone ==
  ASSUME CallInv, TruthGood, StmtRows, StmtStays, truth' = truth,
         stmt.kind \in {"update", "delete"}, stmt.phase = "wait",
         Head(stmt.todo).op # "scan", stmt'.todo = Tail(stmt.todo),
         NEW d \in RowMaps, Progress(d), NEW e \in RowMaps,
         Head(stmt.todo).op = "search" => e = d,
         Head(stmt.todo).op # "search" =>
           /\ e[Head(stmt.todo).key] = NewRows[Head(stmt.todo).key]
           /\ \A q \in Keys : q # Head(stmt.todo).key => e[q] = d[q]
  PROVE  Progress(e)'
<1>0. stmt # NoStmt /\ stmt'.kind = stmt.kind
  BY DEF StmtStays
<1>1. /\ \A r \in Range(stmt.todo) : r = Head(stmt.todo) \/ r \in Range(stmt'.todo)
      /\ stmt'.todo # <<[op |-> "scan"]>> /\ stmt.todo # <<[op |-> "scan"]>>
  BY <1>0, TodoTail
<1>2. ~Untouched /\ ~Untouched'
  BY <1>0, <1>1 DEF Untouched
<1>3. NewRows' = NewRows
  BY SameStmt DEF StmtStays
<1>4. ASSUME NEW k \in Keys
      PROVE  e[k] = NewRows[k] \/ (k \in Pending' /\ e[k] = truth[stmt.table][k])
  <2>1. d[k] = NewRows[k] \/ (k \in Pending /\ d[k] = truth[stmt.table][k])
    BY <1>2 DEF Progress
  <2>2. CASE Head(stmt.todo).op # "search" /\ k = Head(stmt.todo).key
    BY <2>2
  <2>3. CASE ~(Head(stmt.todo).op # "search" /\ k = Head(stmt.todo).key)
    <3>1. e[k] = d[k]
      BY <2>3
    <3>2. ASSUME k \in Pending PROVE k \in Pending'
      <4>1. PICK r \in Range(stmt.todo) : r.op \in {"insert", "delete"} /\ r.key = k
        BY <3>2 DEF Pending
      <4>2. r # Head(stmt.todo)
        BY <2>3, <4>1
      <4> QED
        BY <1>1, <4>1, <4>2 DEF Pending
    <3> QED
      BY <2>1, <3>1, <3>2
  <2> QED
    BY <2>2, <2>3
<1> QED
  BY <1>2, <1>3, <1>4 DEF Progress, StmtStays

\* A call has returned, and INSERT saves the catalog after its last one.
LEMMA CallDoneStmt ==
  ASSUME CallInv, CallDone
  PROVE  /\ StmtStays /\ stmt'.todo = Tail(stmt.todo)
         /\ IF stmt.kind = "insert" /\ Tail(stmt.todo) = <<>>
            THEN stmt'.phase = "save" /\ mem' = [mem EXCEPT ![stmt.table].root = root]
            ELSE stmt'.phase = "call" /\ mem' = mem
         /\ stmt.kind = "insert" /\ Head(stmt.todo).op = "insert" => Tail(stmt.todo) = <<>>
<1>1. /\ stmt \in Stmts /\ stmt # NoStmt /\ stmt.todo # <<>> /\ stmt.todo \in Seq(Requests)
      /\ stmt.phase = "wait"
  BY StmtFacts DEF CallInv, StmtGood, CallDone, Returned
<1>2. PICK rest : rest = Tail(stmt.todo)
  OBVIOUS
<1>3. rest \in Seq(Requests)
  BY <1>1, <1>2, HeadTailProperties
<1>4. CASE stmt.kind = "insert" /\ rest = <<>>
  <2>1. /\ GoesOn(stmt', stmt, "save", rest)
        /\ mem' = [mem EXCEPT ![stmt.table].root = root]
    BY <1>2, <1>4 DEF CallDone, GoesOn
  <2>2. /\ stmt' # NoStmt /\ stmt'.phase = "save"
        /\ stmt'.todo = rest /\ stmt'.kind = stmt.kind /\ stmt'.val = stmt.val
        /\ stmt'.table = stmt.table /\ stmt'.keys = stmt.keys
    BY <1>1, <1>3, <2>1, StmtGoesOn
  <2> QED
    BY <1>1, <1>2, <1>4, <2>1, <2>2 DEF StmtStays
<1>5. CASE ~(stmt.kind = "insert" /\ rest = <<>>)
  <2>1. GoesOn(stmt', stmt, "call", rest) /\ mem' = mem
    BY <1>2, <1>5 DEF CallDone, GoesOn
  <2>2. /\ stmt' # NoStmt /\ stmt'.phase = "call"
        /\ stmt'.todo = rest /\ stmt'.kind = stmt.kind /\ stmt'.val = stmt.val
        /\ stmt'.table = stmt.table /\ stmt'.keys = stmt.keys
    BY <1>1, <1>3, <2>1, StmtGoesOn
  <2>3. ASSUME stmt.kind = "insert" PROVE Head(stmt.todo).op # "insert"
    <3>1. PICK k \in Keys :
            stmt.todo \in {<<[op |-> "search", key |-> k],
                            [op |-> "insert", key |-> k, val |-> stmt.val]>>,
                          <<[op |-> "insert", key |-> k, val |-> stmt.val]>>}
      BY <1>1, <2>3 DEF CallInv, StmtGood, Calling, Inserting
    <3>2. PICK x, y : /\ x = [op |-> "search", key |-> k]
                      /\ y = [op |-> "insert", key |-> k, val |-> stmt.val]
      OBVIOUS
    <3>3. stmt.todo = <<x, y>> \/ stmt.todo = <<y>>
      BY <3>1, <3>2
    <3>4. Tail(<<y>>) = <<>> /\ Head(<<x, y>>) = x
      OBVIOUS
    <3>5. Head(stmt.todo) = x
      BY <1>2, <1>5, <2>3, <3>3, <3>4
    <3> QED
      BY <3>2, <3>5
  <2> QED
    BY <1>1, <1>2, <1>5, <2>1, <2>2, <2>3 DEF StmtStays
<1> QED
  BY <1>4, <1>5

\* What the rows are after a call that has not failed.
LEMMA RowsAfterCall ==
  ASSUME CallInv, TruthGood, StmtRows, CallDone
  PROVE  \E e \in RowMaps : \E C \in {RowCells(e)} : Progress(e)' /\ CellsUnder(view, root) = C
<1>1. /\ stmt \in Stmts /\ stmt # NoStmt /\ stmt.phase = "wait" /\ pc = "idle"
      /\ stmt.todo # <<>> /\ Head(stmt.todo).op # "scan"
      /\ res.status # "error" /\ ~Refused /\ truth' = truth
  BY DEF CallDone, Returned, CallInv, StmtGood
<1>2. stmt.kind \notin {"create", "drop"}
  BY <1>1 DEF CallInv, StmtGood, Creating
<1>3. /\ Asked = Head(stmt.todo) /\ CallFits(Asked) /\ Asked \in Requests
      /\ truth[stmt.table] \in RowMaps
  BY <1>1, <1>2, AtWork
<1>4. StmtStays /\ stmt'.todo = Tail(stmt.todo)
  BY <1>1, CallDoneStmt
<1>5. PICK r : r = Asked
  OBVIOUS
<1>6. PICK d \in RowMaps : Progress(d) /\ CallRows(RowCells(d))
  BY <1>1, <1>2 DEF StmtRows
<1>7. PICK B : B = RowCells(d)
  OBVIOUS
<1>8. Answer(r, B, CellsUnder(view, root), res)
  BY <1>1, <1>5, <1>6, <1>7 DEF CallRows
<1>9. /\ r.op \in {"search", "insert", "delete"} /\ r.key \in Keys
      /\ r.op = "insert" => r.val \in Vals
      /\ r.op = "search" => stmt.kind \in {"insert", "update"}
      /\ r.op = "insert" => stmt.kind \in {"insert", "update"} /\ r.val = stmt.val
      /\ r.op = "delete" => stmt.kind = "delete"
      /\ r.op \in {"insert", "delete"} =>
           /\ r.key \in stmt.keys
           /\ stmt.kind # "insert" => truth[stmt.table][r.key] # Absent
  BY <1>1, <1>3, <1>5 DEF CallFits, Requests
<1>10. d \in MapsWith(Absent) /\ Absent \notin Vals
  BY RowMapFacts
<1>11. CASE stmt.kind = "insert"
  <2>1. d = truth[stmt.table]
    BY <1>1, <1>6, <1>11 DEF Progress, Untouched
  <2>2. /\ r.op = "search" => Goal(r, B) = B
        /\ r.op = "insert" => Goal(r, B) = RowCells(NewRows)
        /\ NewRows \in RowMaps
    BY <1>1, <1>3, <1>5, <1>7, <1>11, <2>1, InsertGoal
  <2>3. PICK k \in Keys :
          stmt.todo \in {<<[op |-> "search", key |-> k],
                          [op |-> "insert", key |-> k, val |-> stmt.val]>>,
                        <<[op |-> "insert", key |-> k, val |-> stmt.val]>>, <<>>}
    BY <1>1, <1>2, <1>11 DEF CallInv, StmtGood, Calling, Inserting
  <2>4. CASE r.op = "search"
    <3>1. CellsUnder(view, root) = B
      BY <1>1, <1>8, <2>2, <2>4 DEF Answer
    <3>2. stmt'.todo # <<>>
      <4>1. stmt.todo = <<[op |-> "search", key |-> k], [op |-> "insert", key |-> k, val |-> stmt.val]>>
        BY <1>1, <1>3, <1>5, <2>3, <2>4
      <4>2. Tail(stmt.todo) = <<[op |-> "insert", key |-> k, val |-> stmt.val]>>
        BY <4>1
      <4> QED
        BY <1>4, <4>2
    <3>3. Progress(d)'
      BY <1>1, <1>4, <1>11, <2>1, <3>2 DEF Progress, Untouched, StmtStays
    <3> QED
      BY <1>7, <3>1, <3>3
  <2>5. CASE r.op = "insert"
    <3>1. CellsUnder(view, root) = RowCells(NewRows)
      BY <1>1, <1>8, <2>2, <2>5 DEF Answer
    <3>2. stmt'.todo = <<>>
      <4>1. stmt.todo = <<[op |-> "insert", key |-> k, val |-> stmt.val]>>
        BY <1>1, <1>3, <1>5, <2>3, <2>5
      <4>2. Tail(stmt.todo) = <<>>
        BY <4>1
      <4> QED
        BY <1>4, <4>2
    <3>3. NewRows' = NewRows
      BY <1>1, <1>4, SameStmt DEF StmtStays
    <3>4. PICK e : e = NewRows /\ e = NewRows'
      BY <3>3
    <3>5. Progress(e)'
      BY <3>2, <3>4 DEF Progress, Untouched
    <3> QED
      BY <2>2, <3>1, <3>4, <3>5
  <2> QED
    BY <1>9, <1>11, <2>4, <2>5
<1>12. CASE stmt.kind \in {"update", "delete"}
  <2>1. CASE r.op = "search"
    <3>1. CellsUnder(view, root) = B
      BY <1>1, <1>8, <2>1 DEF Answer, Goal
    <3>2. Progress(d)'
      BY <1>1, <1>3, <1>4, <1>5, <1>6, <1>12, <2>1, RowDone
    <3> QED
      BY <1>7, <3>1, <3>2
  <2>2. CASE r.op = "insert"
    <3>1. CellsUnder(view, root) = Goal(r, B)
      BY <1>1, <1>8, <2>2 DEF Answer
    <3>2. PICK e : e = [d EXCEPT ![r.key] = r.val]
      OBVIOUS
    <3>3. e \in MapsWith(Absent) /\ CellsIn(e, Absent) = Goal(r, CellsIn(d, Absent))
      BY <1>9, <1>10, <2>2, <3>2, CellsAfterInsert
    <3>4. e \in RowMaps /\ RowCells(e) = Goal(r, B)
      BY <1>7, <3>3, RowMapFacts DEF RowCells
    <3>5. e[r.key] = NewRows[r.key] /\ \A q \in Keys : q # r.key => e[q] = d[q]
      <4>1. e[r.key] = stmt.val /\ \A q \in Keys : q # r.key => e[q] = d[q]
        BY <1>9, <2>2, <3>2 DEF RowMaps
      <4>2. NewRows[r.key] = stmt.val
        BY <1>9, <1>12, <2>2 DEF NewRows
      <4> QED
        BY <4>1, <4>2
    <3>6. Progress(e)'
      BY <1>1, <1>3, <1>4, <1>5, <1>6, <1>12, <2>2, <3>4, <3>5, RowDone
    <3> QED
      BY <3>1, <3>4, <3>6
  <2>3. CASE r.op = "delete"
    <3>0. stmt.kind = "delete" /\ stmt.val = Absent
      BY <1>1, <1>9, <2>3 DEF StmtRows
    <3>1. NewRows[r.key] = Absent
      BY <1>9, <2>3, <3>0 DEF NewRows
    <3>2. CASE res.status = "ok"
      <4>1. CellsUnder(view, root) = Goal(r, B)
        BY <1>8, <3>2 DEF Answer
      <4>2. PICK e : e = [d EXCEPT ![r.key] = Absent]
        OBVIOUS
      <4>3. e \in MapsWith(Absent) /\ CellsIn(e, Absent) = Goal(r, CellsIn(d, Absent))
        BY <1>9, <1>10, <2>3, <4>2, CellsAfterDelete
      <4>4. e \in RowMaps /\ RowCells(e) = Goal(r, B)
        BY <1>7, <4>3, RowMapFacts DEF RowCells
      <4>5. e[r.key] = NewRows[r.key] /\ \A q \in Keys : q # r.key => e[q] = d[q]
        BY <1>9, <3>1, <4>2 DEF RowMaps
      <4>6. Progress(e)'
        BY <1>1, <1>3, <1>4, <1>5, <1>6, <1>12, <2>3, <4>4, <4>5, RowDone
      <4> QED
        BY <4>1, <4>4, <4>6
    <3>3. CASE res.status # "ok"
      <4>1. CellsUnder(view, root) = B /\ \A c \in B : c.key # r.key
        BY <1>1, <1>8, <3>3 DEF Answer
      <4>2. d[r.key] = Absent
        BY <1>7, <1>9, <1>10, <4>1, MapCells DEF RowCells
      <4>3. Progress(d)'
        BY <1>1, <1>3, <1>4, <1>5, <1>6, <1>12, <2>3, <3>1, <4>2, RowDone
      <4> QED
        BY <1>7, <4>1, <4>3
    <3> QED
      BY <3>2, <3>3
  <2> QED
    BY <1>9, <2>1, <2>2, <2>3
<1> QED
  BY <1>9, <1>11, <1>12

\* A call has returned: its row has its new value, and after INSERT the catalog
\* in memory has the root that the tree now has.
LEMMA RowsCallDone ==
  ASSUME RowsStep, CallDone
  PROVE  RestingRows' /\ StmtRows' /\ SavedRows'
<1>0. /\ CallInv /\ TruthGood /\ RestingRows /\ StmtRows /\ SavedRows
      /\ (ioErrors' = 0 => ioErrors = 0)
  BY RowsBefore
<1>1. /\ stmt \in Stmts /\ stmt # NoStmt /\ stmt.phase = "wait" /\ pc = "idle"
      /\ stmt.todo # <<>> /\ Head(stmt.todo).op # "scan"
      /\ UNCHANGED <<view, root, saved, truth>>
  BY <1>0 DEF CallDone, Returned, CallInv, StmtGood, vars
<1>2. stmt.kind \notin {"create", "drop"}
  BY <1>0, <1>1 DEF CallInv, StmtGood, Creating
<1> DEFINE last == stmt.kind = "insert" /\ Tail(stmt.todo) = <<>>
<1>3. /\ StmtStays /\ stmt'.todo = Tail(stmt.todo)
      /\ stmt'.phase = IF last THEN "save" ELSE "call"
  BY <1>0, CallDoneStmt
<1>4. mem' = IF last THEN [mem EXCEPT ![stmt.table].root = root] ELSE mem
  BY DEF CallDone
<1>5. stmt.table \in Tables /\ mem[stmt.table] # NoTable
  BY <1>0, <1>1, <1>2, AtWork
<1>6. mem[stmt.table] \in Infos
  BY <1>0, <1>5 DEF CallInv, CatalogGood
<1>7. \A t \in Tables : t # stmt.table => mem'[t] = mem[t]
  BY <1>0, <1>4 DEF CallInv, CatalogGood
<1>8. RestingRows'
  <2>1. RestingTables' = RestingTables /\ RestingTables \subseteq Tables \ {stmt.table}
    BY <1>1, <1>3 DEF RestingTables, StmtStays
  <2> QED
    BY <1>0, <1>1, <1>7, <2>1, RestingStay
<1>9. Rooted'
  <2>1. CASE last
    <3>1. mem'[stmt.table].root = root
      BY <1>0, <1>4, <1>5, <1>6, <2>1 DEF CallInv, CatalogGood, Infos
    <3> QED
      BY <1>1, <1>3, <3>1 DEF Rooted, StmtStays
  <2>2. CASE ~last
    <3>1. root = mem[stmt.table].root
      <4>1. stmt.kind = "insert" => Head(stmt.todo).op # "insert"
        BY <1>0, <2>2, CallDoneStmt
      <4> QED
        BY <1>0, <1>1, <1>2, <4>1 DEF StmtRows, Rooted
    <3> QED
      BY <1>1, <1>3, <1>4, <2>2, <3>1 DEF Rooted, StmtStays
  <2> QED
    BY <2>1, <2>2
<1>10. ASSUME NEW x \in Range(stmt'.todo) PROVE CallFits(x)'
  <2>1. x \in Range(stmt.todo) /\ x.op # "scan"
    BY <1>0, <1>1, <1>2, <1>3, TodoTail
  <2>2. CallFits(x)
    BY <1>0, <1>1, <1>2, <2>1 DEF StmtRows
  <2> QED
    BY <1>1, <1>3, <2>1, <2>2 DEF CallFits, StmtStays
<1>11. StmtRows'
  <2>1. PICK e \in RowMaps : \E C \in {RowCells(e)} : Progress(e)' /\ CellsUnder(view, root) = C
    BY <1>0, RowsAfterCall
  <2>2. PICK C : C = RowCells(e) /\ Progress(e)' /\ CellsUnder(view, root) = C
    BY <2>1
  <2>3. CallRows(C)'
    BY <1>1, <1>3, <2>2 DEF CallRows
  <2>4. \E d \in RowMaps : \E B \in {RowCells(d)} : Progress(d)' /\ CallRows(B)'
    BY <2>2, <2>3
  <2>5. stmt'.kind = "delete" => stmt'.val = Absent
    BY <1>0, <1>1, <1>3 DEF StmtRows, StmtStays
  <2> QED
    BY <1>2, <1>3, <1>9, <1>10, <2>4, <2>5 DEF StmtRows, StmtStays
<1>12. SavedRows'
  <2>1. ASSUME ioErrors' = 0, Fits(truth)
        PROVE  OldRows(CellsUnder(view, saved[stmt.table].root))'
    <3>1. OldRows(CellsUnder(view, saved[stmt.table].root))
      BY <1>0, <1>1, <2>1 DEF SavedRows
    <3>2. PICK cells : cells = CellsUnder(view, saved[stmt.table].root)
      OBVIOUS
    <3>3. OldRows(cells)'
      BY <1>1, <1>3, <3>1, <3>2, OldRowsOn
    <3> QED
      BY <1>1, <1>3, <3>2, <3>3 DEF StmtStays
  <2>2. stmt'.phase = "save" \/ (stmt.phase # "save" /\ mem' = mem)
    BY <1>1, <1>3, <1>4
  <2> QED
    BY <1>0, <1>1, <1>3, <1>7, <2>1, <2>2, SavedOn
<1> QED
  BY <1>8, <1>11, <1>12

----------------------------------------------------------------------------
\* Statements end, and the process

\* Maps with the same cells are the same.
LEMMA SameRows ==
  ASSUME NEW d \in RowMaps, NEW e \in RowMaps, RowCells(d) = RowCells(e)
  PROVE  d = e
<1>1. /\ d \in MapsWith(Absent) /\ e \in MapsWith(Absent) /\ Absent \notin Vals
      /\ CellsIn(d, Absent) = CellsIn(e, Absent)
  BY RowMapFacts DEF RowCells
<1>2. ASSUME NEW k \in Keys PROVE d[k] = e[k]
  <2>1. /\ \A v \in Vals : [key |-> k, value |-> v] \in CellsIn(d, Absent) <=> d[k] = v
        /\ d[k] \in Vals \cup {Absent}
    BY <1>1, MapCells
  <2>2. /\ \A v \in Vals : [key |-> k, value |-> v] \in CellsIn(e, Absent) <=> e[k] = v
        /\ e[k] \in Vals \cup {Absent}
    BY <1>1, MapCells
  <2>3. \A v \in Vals : d[k] = v <=> e[k] = v
    BY <1>1, <2>1, <2>2
  <2> QED
    BY <2>1, <2>2, <2>3
<1> QED
  BY <1>2 DEF RowMaps

\* The rows of a table are the map of what is listed under its root.
LEMMA ContentsAt ==
  ASSUME NEW m, NEW cat, NEW t \in Tables, cat[t] # NoTable, NEW p, p = cat[t].root
  PROVE  Contents(m, cat)[t] = RowMap(RowsUnder(m, p), Absent)
  BY DEF Contents, RowMap

\* The rows that the pages hold for a catalog are the cells of its trees.
LEMMA ContentsCells ==
  ASSUME Trees, Clear, NEW cat, cat = mem \/ cat = saved, NEW t \in Tables
  PROVE  /\ Contents(view, cat)[t] = NoTable <=> cat[t] = NoTable
         /\ cat[t] # NoTable =>
              /\ Contents(view, cat)[t] \in RowMaps
              /\ RowCells(Contents(view, cat)[t]) = CellsUnder(view, cat[t].root)
<1>1. CASE cat[t] = NoTable
  BY <1>1 DEF Contents
<1>2. CASE cat[t] # NoTable
  <2>1. PICK T, tops \in SUBSET PageNums,
             h \in [PageNums -> Nat], under \in [PageNums -> SUBSET Int] :
          /\ TableRoots \subseteq T
          /\ TreeState(view, owned, root, pc, req, path, work, T, tops, h, under)
    BY DEF Trees, HasTree
  <2>2. Tree(view, T, h, under, tops)
    BY <2>1 DEF TreeState
  <2>3. PICK p, m : p = cat[t].root /\ m = view
    OBVIOUS
  <2>4. p \in T
    BY <1>2, <2>1, <2>3 DEF TableRoots, RootsOf
  <2>5. Contents(view, cat)[t] = RowMap(RowsUnder(m, p), Absent)
    BY <1>2, <2>3, ContentsAt
  <2>6. Tree(m, T, h, under, tops) /\ Absent \notin Vals
    BY <2>2, <2>3, RowMapFacts
  <2>7. /\ RowMap(RowsUnder(m, p), Absent) \in MapsWith(Absent)
        /\ CellsIn(RowMap(RowsUnder(m, p), Absent), Absent) = CellsUnder(m, p)
    BY <2>4, <2>6, MapOfPage
  <2>8. /\ Contents(view, cat)[t] \in RowMaps
        /\ RowCells(Contents(view, cat)[t]) = CellsUnder(view, p)
    BY <2>3, <2>5, <2>7, RowMapFacts DEF RowCells
  <2>9. Contents(view, cat)[t] # NoTable
    BY <2>8, RowMapFacts
  <2> QED
    BY <1>2, <2>3, <2>8, <2>9
<1> QED
  BY <1>1, <1>2

\* Catalogs with the same tables fit, or do not, together.
LEMMA SameFits ==
  ASSUME NEW a, NEW b, \A t \in Tables : a[t] = NoTable <=> b[t] = NoTable
  PROVE  Fits(a) <=> Fits(b)
<1>1. {t \in Tables : a[t] # NoTable} = {t \in Tables : b[t] # NoTable}
  OBVIOUS
<1> QED
  BY <1>1 DEF Fits

\* A statement ends before its save: page 1 is what it was.
LEMMA SavedAtEnd ==
  ASSUME SavedRows, stmt' = NoStmt, UNCHANGED <<mem, saved>>, ioErrors' = 0 => ioErrors = 0,
         \A t \in Tables : ~Saving(t) /\ (truth'[t] = NoTable <=> truth[t] = NoTable)
  PROVE  SavedRows'
<1> SUFFICES ASSUME ioErrors' = 0, Fits(truth')
             PROVE  /\ \A t \in Tables : saved'[t] = NoTable <=> truth'[t] = NoTable
                    /\ \A t \in Tables : SameRoot(t)'
  BY DEF SavedRows
<1>1. PICK a, b : a = truth' /\ b = truth
  OBVIOUS
<1>2. \A t \in Tables : a[t] = NoTable <=> b[t] = NoTable
  BY <1>1
<1>3. Fits(b)
  BY <1>1, <1>2, SameFits
<1> QED
  BY <1>1, <1>3 DEF SavedRows, SameRoot

\* All calls are made: d, the rows as they are, are the new ones.
LEMMA AllChanged ==
  ASSUME CallInv, TruthGood, StmtRows, stmt # NoStmt, stmt.kind # "drop",
         stmt.phase # "wait", stmt.todo = <<>>
  PROVE  CellsUnder(view, root) = RowCells(NewRows) /\ NewRows \in RowMaps
<1>1. PICK d \in RowMaps : Progress(d) /\ CallRows(RowCells(d))
  BY DEF StmtRows
<1>2. ~Untouched /\ Pending = {}
  BY DEF Untouched, Pending, Range
<1>3. \A k \in Keys : d[k] = NewRows[k]
  BY <1>1, <1>2 DEF Progress
<1>4. NewRows \in RowMaps
  BY NewRowsTyped DEF RowMaps
<1>5. d = NewRows
  BY <1>3, <1>4 DEF RowMaps
<1> QED
  BY <1>1, <1>4, <1>5 DEF CallRows

\* What Acknowledge writes into the history.
LEMMA Acknowledged ==
  ASSUME TruthGood, stmt \in Stmts, Acknowledge
  PROVE  /\ \A t \in Tables : t # stmt.table => truth'[t] = truth[t]
         /\ truth'[stmt.table] = IF stmt.kind = "drop" THEN NoTable ELSE NewRows
<1>1. stmt.table \in Tables
  BY StmtFacts
<1>2. PICK new : truth' = [truth EXCEPT ![stmt.table] = new]
                 /\ new = IF stmt.kind = "drop" THEN NoTable ELSE NewRows
  <2>1. CASE stmt.kind = "create"
    BY <2>1 DEF Acknowledge, NewRows
  <2>2. CASE stmt.kind = "drop"
    BY <2>2 DEF Acknowledge
  <2>3. CASE stmt.kind \in {"insert", "update", "delete"}
    BY <2>3 DEF Acknowledge, NewRows
  <2>4. CASE stmt.kind = "select"
    BY <2>4 DEF Acknowledge, NewRows
  <2> QED
    BY <2>1, <2>2, <2>3, <2>4, StmtFacts
<1> QED
  BY <1>1, <1>2 DEF TruthGood

\* UPDATE, DELETE and SELECT have made all their calls.
LEMMA RowsAllDone ==
  ASSUME RowsStep, AllRowsDone
  PROVE  RestingRows' /\ StmtRows' /\ SavedRows'
<1>0. /\ CallInv /\ TruthGood /\ RestingRows /\ StmtRows /\ SavedRows
      /\ (ioErrors' = 0 => ioErrors = 0)
  BY RowsBefore
<1>1. /\ stmt \in Stmts /\ stmt # NoStmt /\ stmt.phase = "call" /\ stmt.todo = <<>>
      /\ stmt' = NoStmt /\ Acknowledge /\ UNCHANGED <<view, mem, saved>>
  BY <1>0 DEF AllRowsDone, Finish, CallInv, StmtGood
<1>2. stmt.kind \notin {"create", "drop", "insert"}
  BY <1>0, <1>1 DEF CallInv, StmtGood, Creating, Calling, Inserting
<1>3. /\ stmt.table \in Tables /\ mem[stmt.table] # NoTable /\ truth[stmt.table] \in RowMaps
  BY <1>0, <1>1, <1>2, AtWork
<1>4. CellsUnder(view, root) = RowCells(NewRows) /\ NewRows \in RowMaps
  BY <1>0, <1>1, <1>2, AllChanged
<1>5. root = mem[stmt.table].root
  BY <1>0, <1>1, <1>2 DEF StmtRows, Rooted
<1>6. /\ \A t \in Tables : t # stmt.table => truth'[t] = truth[t]
      /\ truth'[stmt.table] = NewRows
  BY <1>0, <1>1, <1>2, Acknowledged
<1>7. RestingRows'
  <2> SUFFICES ASSUME NEW t \in Tables
               PROVE  /\ mem'[t] = NoTable <=> truth'[t] = NoTable
                      /\ mem'[t] # NoTable => CellsUnder(view', mem'[t].root) = RowCells(truth'[t])
    BY <1>1 DEF RestingRows, RestingTables
  <2>1. CASE t = stmt.table
    BY <1>1, <1>3, <1>4, <1>5, <1>6, <2>1, RowMapFacts
  <2>2. CASE t # stmt.table
    BY <1>0, <1>1, <1>6, <2>2 DEF RestingRows, RestingTables
  <2> QED
    BY <2>1, <2>2
<1>8. StmtRows'
  BY <1>1 DEF StmtRows
<1>9. SavedRows'
  <2>1. \A t \in Tables : ~Saving(t) /\ (truth'[t] = NoTable <=> truth[t] = NoTable)
    BY <1>1, <1>3, <1>4, <1>6, RowMapFacts DEF Saving
  <2> QED
    BY <1>0, <1>1, <2>1, SavedAtEnd
<1> QED
  BY <1>7, <1>8, <1>9

\* A statement reports an error: the history is what the pages hold.
LEMMA RowsDisclaimed ==
  ASSUME Trees, Clear, Disclaim, stmt' = NoStmt, UNCHANGED <<view, mem>>
  PROVE  RestingRows' /\ \A t \in Tables : truth'[t] = NoTable <=> mem[t] = NoTable
<1>1. PICK cat : cat = mem
  OBVIOUS
<1>2. ASSUME NEW t \in Tables
      PROVE  /\ truth'[t] = NoTable <=> mem[t] = NoTable
             /\ mem[t] # NoTable => RowCells(truth'[t]) = CellsUnder(view, mem[t].root)
  <2>1. /\ Contents(view, cat)[t] = NoTable <=> cat[t] = NoTable
        /\ cat[t] # NoTable => RowCells(Contents(view, cat)[t]) = CellsUnder(view, cat[t].root)
    BY <1>1, ContentsCells
  <2>2. truth' = Contents(view, cat)
    BY <1>1 DEF Disclaim
  <2> QED
    BY <1>1, <2>1, <2>2
<1> QED
  BY <1>2 DEF RestingRows, RestingTables

\* The same of all of them that end before their save.
LEMMA RowsGivenUp ==
  ASSUME RowsStep, stmt # NoStmt, stmt.phase # "save", Disclaim, stmt' = NoStmt,
         UNCHANGED <<view, mem, saved>>
  PROVE  RestingRows' /\ StmtRows' /\ SavedRows'
<1>0. /\ CallInv /\ TruthGood /\ RestingRows /\ StmtRows /\ SavedRows /\ Trees /\ Clear
      /\ (ioErrors' = 0 => ioErrors = 0)
  BY RowsBefore
<1>1. RestingRows' /\ \A t \in Tables : truth'[t] = NoTable <=> mem[t] = NoTable
  BY <1>0, RowsDisclaimed
<1>2. StmtRows'
  BY DEF StmtRows
<1>3. ASSUME NEW t \in Tables PROVE mem[t] = NoTable <=> truth[t] = NoTable
  <2>1. CASE t # stmt.table
    BY <1>0, <2>1 DEF RestingRows, RestingTables
  <2>2. CASE t = stmt.table /\ stmt.kind = "create"
    BY <1>0, <2>2 DEF StmtRows, CallInv, StmtGood, Creating
  <2>3. CASE t = stmt.table /\ stmt.kind # "create"
    <3>1. stmt.kind # "drop"
      BY <1>0 DEF CallInv, StmtGood
    <3> QED
      BY <1>0, <2>3, <3>1, AtWork, RowMapFacts
  <2> QED
    BY <2>1, <2>2, <2>3
<1>4. SavedRows'
  <2>1. \A t \in Tables : ~Saving(t) /\ (truth'[t] = NoTable <=> truth[t] = NoTable)
    BY <1>1, <1>3 DEF Saving
  <2> QED
    BY <1>0, <2>1, SavedAtEnd
<1> QED
  BY <1>1, <1>2, <1>4

\* INSERT is refused a key that is there, and has changed nothing.
LEMMA RowsRefused ==
  ASSUME RowsStep, RefusedRow
  PROVE  RestingRows' /\ StmtRows' /\ SavedRows'
<1>0. /\ CallInv /\ TruthGood /\ RestingRows /\ StmtRows /\ SavedRows
      /\ (ioErrors' = 0 => ioErrors = 0)
  BY RowsBefore
<1>1. /\ stmt \in Stmts /\ stmt # NoStmt /\ stmt.phase = "wait" /\ pc = "idle"
      /\ stmt.todo # <<>> /\ Refused
      /\ stmt' = NoStmt /\ UNCHANGED <<view, mem, saved, ioErrors>>
  BY <1>0 DEF RefusedRow, Returned, Finish, CallInv, StmtGood
<1>2. CASE stmt.kind # "insert"
  <2>1. Disclaim
    BY <1>2 DEF RefusedRow
  <2> QED
    BY <1>1, <2>1, RowsGivenUp
<1>3. CASE stmt.kind = "insert"
  <2>1. truth' = truth
    BY <1>3 DEF RefusedRow
  <2>2. Head(stmt.todo).op = "search" /\ res.status = "ok"
    BY <1>1, <1>3 DEF Refused
  <2>3. /\ stmt.table \in Tables /\ mem[stmt.table] # NoTable /\ truth[stmt.table] \in RowMaps
        /\ Asked = Head(stmt.todo)
    BY <1>0, <1>1, <1>3, AtWork
  <2>4. PICK d \in RowMaps : Progress(d) /\ CallRows(RowCells(d))
    BY <1>0, <1>1, <1>3 DEF StmtRows
  <2>5. d = truth[stmt.table]
    BY <1>1, <1>3, <2>4 DEF Progress, Untouched
  <2>6. PICK B : B = RowCells(d)
    OBVIOUS
  <2>7. CellsUnder(view, root) = B
    <3>1. Answer(Asked, B, CellsUnder(view, root), res)
      BY <1>1, <2>2, <2>4, <2>6 DEF CallRows
    <3> QED
      BY <2>2, <2>3, <3>1 DEF Answer, Goal
  <2>8. root = mem[stmt.table].root
    BY <1>0, <1>1, <1>3, <2>2 DEF StmtRows, Rooted
  <2>9. RestingRows'
    <3> SUFFICES ASSUME NEW t \in Tables
                 PROVE  /\ mem[t] = NoTable <=> truth[t] = NoTable
                        /\ mem[t] # NoTable => CellsUnder(view, mem[t].root) = RowCells(truth[t])
      BY <1>1, <2>1 DEF RestingRows, RestingTables
    <3>1. CASE t = stmt.table
      BY <2>3, <2>5, <2>6, <2>7, <2>8, <3>1, RowMapFacts
    <3>2. CASE t # stmt.table
      BY <1>0, <3>2 DEF RestingRows, RestingTables
    <3> QED
      BY <3>1, <3>2
  <2>10. StmtRows'
    BY <1>1 DEF StmtRows
  <2>11. SavedRows'
    <3>1. \A t \in Tables : ~Saving(t) /\ (truth'[t] = NoTable <=> truth[t] = NoTable)
      BY <1>1, <2>1 DEF Saving
    <3> QED
      BY <1>0, <1>1, <3>1, SavedAtEnd
  <2> QED
    BY <2>9, <2>10, <2>11
<1> QED
  BY <1>2, <1>3

\* The catalog is not saved, or maybe it is and an error is reported all the same.
LEMMA RowsSaveFails ==
  ASSUME RowsStep, SaveFails
  PROVE  RestingRows' /\ StmtRows' /\ SavedRows'
<1>0. CallInv /\ Trees /\ Clear /\ (ioErrors' = 0 => ioErrors = 0)
  BY RowsBefore
<1>1. stmt' = NoStmt /\ Disclaim /\ UNCHANGED <<view, mem>>
  BY DEF SaveFails, Finish
<1>2. RestingRows' /\ \A t \in Tables : truth'[t] = NoTable <=> mem[t] = NoTable
  BY <1>0, <1>1, RowsDisclaimed
<1>3. StmtRows'
  BY <1>1 DEF StmtRows
<1>4. SavedRows'
  <2> SUFFICES ASSUME ioErrors' = 0, Fits(truth') PROVE FALSE
    BY DEF SavedRows
  <2>1. ~IOError
    <3>1. ioErrors \in Nat
      BY <1>0, BTreeAssumption DEF CallInv, Inv, TypeOK
    <3> QED
      BY <3>1 DEF IOError
  <2>2. ~Fits(mem)
    BY <2>1 DEF SaveFails
  <2>3. PICK a, b : a = truth' /\ b = mem
    OBVIOUS
  <2>4. \A t \in Tables : a[t] = NoTable <=> b[t] = NoTable
    BY <1>2, <2>3
  <2> QED
    BY <2>2, <2>3, <2>4, SameFits
<1> QED
  BY <1>2, <1>3, <1>4

\* The catalog is saved.
LEMMA RowsSave ==
  ASSUME RowsStep, Save
  PROVE  RestingRows' /\ StmtRows' /\ SavedRows'
<1>0. /\ CallInv /\ TruthGood /\ RestingRows /\ StmtRows /\ SavedRows
  BY RowsBefore
<1>1. /\ stmt \in Stmts /\ stmt # NoStmt /\ stmt.phase = "save" /\ saved' = mem
      /\ stmt' = NoStmt /\ Acknowledge /\ UNCHANGED <<view, mem>>
  BY <1>0 DEF Save, Finish, CallInv, StmtGood
<1>2. stmt.table \in Tables /\ stmt.kind \in {"create", "drop", "insert"}
  BY <1>0, <1>1, StmtFacts DEF CallInv, StmtGood, Calling
<1>3. /\ \A t \in Tables : t # stmt.table => truth'[t] = truth[t]
      /\ truth'[stmt.table] = IF stmt.kind = "drop" THEN NoTable ELSE NewRows
  BY <1>0, <1>1, Acknowledged
<1>4. CASE stmt.kind = "drop"
  <2>1. mem[stmt.table] = NoTable
    BY <1>0, <1>1, <1>4 DEF CallInv, StmtGood
  <2> QED
    <3>1. RestingRows'
      <4> SUFFICES ASSUME NEW t \in Tables
                   PROVE  /\ mem[t] = NoTable <=> truth'[t] = NoTable
                          /\ mem[t] # NoTable =>
                               CellsUnder(view, mem[t].root) = RowCells(truth'[t])
        BY <1>1 DEF RestingRows, RestingTables
      <4>1. CASE t = stmt.table
        BY <1>3, <1>4, <2>1, <4>1
      <4>2. CASE t # stmt.table
        BY <1>0, <1>3, <4>2 DEF RestingRows, RestingTables
      <4> QED
        BY <4>1, <4>2
    <3>2. SavedRows'
      BY <1>1, <3>1 DEF SavedRows, RestingRows, RestingTables, SameRoot
    <3> QED
      BY <1>1, <3>1, <3>2 DEF StmtRows
<1>5. CASE stmt.kind # "drop"
  <2>1. stmt.todo = <<>>
    BY <1>0, <1>1, <1>2, <1>5 DEF CallInv, StmtGood, Creating, Calling, Inserting
  <2>2. CellsUnder(view, root) = RowCells(NewRows) /\ NewRows \in RowMaps
    BY <1>0, <1>1, <1>5, <2>1, AllChanged
  <2>3. mem[stmt.table] # NoTable /\ root = mem[stmt.table].root
    <3>1. CASE stmt.kind = "create"
      <4>1. mem[stmt.table] = [root |-> root, next |-> 1] /\ root # NoPage
        BY <1>0, <1>1, <3>1 DEF CallInv, StmtGood, Creating
      <4>2. root \in PageNums
        BY <1>0, <4>1 DEF CallInv, Inv, TypeOK
      <4>3. mem[stmt.table] \in Infos
        BY <4>1, <4>2 DEF Infos
      <4> QED
        BY <4>1, <4>3, DatabaseAssumption
    <3>2. CASE stmt.kind = "insert"
      <4>1. mem[stmt.table] # NoTable
        BY <1>0, <1>1, <3>2, AtWork
      <4>2. root = mem[stmt.table].root
        BY <1>0, <1>1, <3>2 DEF StmtRows, Rooted
      <4> QED
        BY <4>1, <4>2
    <3> QED
      BY <1>2, <1>5, <3>1, <3>2
  <2>4. RestingRows'
    <3> SUFFICES ASSUME NEW t \in Tables
                 PROVE  /\ mem[t] = NoTable <=> truth'[t] = NoTable
                        /\ mem[t] # NoTable =>
                             CellsUnder(view, mem[t].root) = RowCells(truth'[t])
      BY <1>1 DEF RestingRows, RestingTables
    <3>1. CASE t = stmt.table
      BY <1>3, <1>5, <2>2, <2>3, <3>1, RowMapFacts
    <3>2. CASE t # stmt.table
      BY <1>0, <1>3, <3>2 DEF RestingRows, RestingTables
    <3> QED
      BY <3>1, <3>2
  <2>5. SavedRows'
    BY <1>1, <2>4 DEF SavedRows, RestingRows, RestingTables, SameRoot
  <2> QED
    BY <1>1, <2>4, <2>5 DEF StmtRows
<1> QED
  BY <1>4, <1>5

\* A statement ends.
LEMMA RowsEnd ==
  ASSUME RowsStep, Ends
  PROVE  RestingRows' /\ StmtRows' /\ SavedRows'
<1>1. CASE AllRowsDone \/ RefusedRow \/ Save \/ SaveFails
  BY <1>1, RowsAllDone, RowsRefused, RowsSave, RowsSaveFails
<1>2. CASE EvaluationFails \/ CallFailed
  <2>1. /\ stmt # NoStmt /\ stmt.phase # "save" /\ Disclaim /\ stmt' = NoStmt
        /\ UNCHANGED <<view, mem, saved>>
    BY <1>2 DEF EvaluationFails, CallFailed, Returned, Finish
  <2> QED
    BY <2>1, RowsGivenUp
<1> QED
  BY <1>1, <1>2 DEF Ends

\* The process is started again on what the file has, which are the pages that it
\* had, for no pager call has failed.
LEMMA RowsCrash ==
  ASSUME RowsStep, Crash
  PROVE  RestingRows' /\ StmtRows' /\ SavedRows'
<1>0. CallInv /\ Trees /\ Clear /\ (ioErrors' = 0 => ioErrors = 0)
  BY RowsBefore
<1>1. /\ stmt' = NoStmt /\ mem' = saved /\ saved' = saved /\ view' = disk
      /\ truth' = Contents(disk, saved) /\ crashes' = crashes + 1
  BY DEF Crash, Found
<1>2. ioErrors = 0
  <2>1. crashes \in Nat
    BY <1>0, DatabaseAssumption DEF CallInv
  <2>2. ioErrors' = 0
    BY <1>1, <2>1 DEF RowsStep, Clear
  <2> QED
    BY <1>0, <2>2
<1>3. view = disk
  BY <1>0, <1>2 DEF Trees
<1>4. PICK cat : cat = saved
  OBVIOUS
<1>5. ASSUME NEW t \in Tables
      PROVE  /\ truth'[t] = NoTable <=> saved[t] = NoTable
             /\ saved[t] # NoTable => RowCells(truth'[t]) = CellsUnder(view, saved[t].root)
  <2>1. /\ Contents(view, cat)[t] = NoTable <=> cat[t] = NoTable
        /\ cat[t] # NoTable => RowCells(Contents(view, cat)[t]) = CellsUnder(view, cat[t].root)
    BY <1>0, <1>4, ContentsCells
  <2>2. truth' = Contents(view, cat)
    BY <1>1, <1>3, <1>4
  <2> QED
    BY <1>4, <2>1, <2>2
<1>6. RestingRows'
  BY <1>1, <1>3, <1>5 DEF RestingRows, RestingTables
<1>7. StmtRows'
  BY <1>1 DEF StmtRows
<1>8. SavedRows'
  BY <1>1, <1>5 DEF SavedRows, SameRoot
<1> QED
  BY <1>6, <1>7, <1>8

\* Nothing changes.
LEMMA RowsStutter ==
  ASSUME RowsInv, Clear, UNCHANGED databaseVars
  PROVE  RestingRows' /\ StmtRows' /\ SavedRows'
<1>1. /\ UNCHANGED <<view, root, pc, req, path, work, res, ioErrors>>
      /\ UNCHANGED <<mem, saved, stmt, truth>>
  BY DEF databaseVars, vars, call
<1>2. RestingRows'
  BY <1>1 DEF RowsInv, RestingRows, RestingTables
<1>3. SavedRows'
  <2>1. /\ NewRows' = NewRows /\ (Fits(truth) <=> Fits(truth'))
    BY <1>1 DEF NewRows
  <2>2. SavedRows
    BY DEF RowsInv
  <2> QED
    BY <1>1, <2>1, <2>2 DEF SavedRows, Saving, SameRoot, OldRows
<1>4. StmtRows'
  <2> SUFFICES ASSUME stmt # NoStmt, stmt.kind # "drop" PROVE StmtRows'
    BY <1>1 DEF StmtRows
  <2>1. StmtRows
    BY DEF RowsInv
  <2>2. /\ \A d : Progress(d)' <=> Progress(d)
        /\ \A r : CallFits(r)' <=> CallFits(r)
        /\ Asked' = Asked /\ (Growing' <=> Growing)
    BY <1>1, SameStmt
  <2>3. PICK d \in RowMaps : Progress(d) /\ CallRows(RowCells(d))
    BY <2>1 DEF StmtRows
  <2>4. PICK B : B = RowCells(d)
    OBVIOUS
  <2>5. CallRows(B)'
    <3>1. CASE stmt.phase # "wait"
      BY <1>1, <2>3, <2>4, <3>1 DEF CallRows
    <3>2. CASE stmt.phase = "wait" /\ pc = "idle"
      BY <1>1, <2>2, <2>3, <2>4, <3>2 DEF CallRows
    <3>3. CASE stmt.phase = "wait" /\ pc # "idle"
      <4>1. InCall(B)
        BY <2>3, <2>4, <3>3 DEF CallRows
      <4>2. CellState(B) => CellState(B)'
        BY <1>1 DEF CellState, Ahead
      <4>3. Scanning(B) => Scanning(B)'
        <5>1. owned' = owned
          BY DEF databaseVars, vars
        <5> QED
          BY <1>1, <5>1 DEF Scanning, HasTree
      <4>4. InPlace(B) => InPlace(B)'
        BY <1>1 DEF InPlace
      <4>5. InCall(B)'
        BY <1>1, <2>2, <4>1, <4>2, <4>3, <4>4 DEF InCall
      <4> QED
        BY <1>1, <3>3, <4>5 DEF CallRows
    <3> QED
      BY <3>1, <3>2, <3>3
  <2>6. \E e \in RowMaps : \E C \in {RowCells(e)} : Progress(e)' /\ CallRows(C)'
    BY <2>2, <2>3, <2>4, <2>5
  <2>7. Rooted' <=> Rooted
    BY <1>1 DEF Rooted
  <2> QED
    BY <1>1, <2>1, <2>2, <2>6, <2>7 DEF StmtRows
<1> QED
  BY <1>2, <1>3, <1>4

----------------------------------------------------------------------------
\* The invariant, and what it gives

\* At the start there are no tables.
LEMMA RowsInit == DatabaseInit => RowsInv
<1> SUFFICES ASSUME DatabaseInit PROVE RestingRows /\ StmtRows /\ SavedRows
  BY DEF RowsInv
<1>1. /\ stmt = NoStmt
      /\ \A t \in Tables : mem[t] = NoTable /\ saved[t] = NoTable /\ truth[t] = NoTable
  BY DEF DatabaseInit
<1> QED
  BY <1>1 DEF RestingRows, RestingTables, StmtRows, SavedRows, SameRoot

\* A statement that scans begins.
LEMMA RowsScan ==
  ASSUME RowsStep, NEW t \in Tables, NEW kind \in {"update", "delete", "select"},
         NEW keys, NEW val, kind = "delete" => val = Absent, ScanAllRows(kind, t, keys, val)
  PROVE  RestingRows' /\ StmtRows' /\ SavedRows'
<1>1. /\ LoadBTree(t) /\ UNCHANGED <<saved, truth>> /\ mem' = mem
      /\ Begin(kind, t, keys, val, <<[op |-> "scan"]>>)
  BY DEF ScanAllRows
<1>2. PICK todo : todo = <<[op |-> "scan"]>>
  OBVIOUS
<1>3. Begin(kind, t, keys, val, todo)
  BY <1>1, <1>2
<1>4. kind \in {"insert", "update", "delete", "select"} /\ kind # "insert"
  OBVIOUS
<1> QED
  BY <1>1, <1>2, <1>3, <1>4, RowsLoad

\* INSERT begins.
LEMMA RowsInsert ==
  ASSUME RowsStep, NEW t \in Tables, NEW k \in Keys, NEW v \in Vals, Insert(t, k, v)
  PROVE  RestingRows' /\ StmtRows' /\ SavedRows'
<1>1. PICK todo : todo = <<[op |-> "search", key |-> k], [op |-> "insert", key |-> k, val |-> v]>>
  OBVIOUS
<1>2. /\ LoadBTree(t) /\ UNCHANGED <<saved, truth>>
      /\ mem' = mem \/ mem' = [mem EXCEPT ![t].next = @ + 1]
      /\ Begin("insert", t, {k}, v, todo)
  BY <1>1 DEF Insert
<1>3. PICK keys, kind : keys = {k} /\ kind = "insert"
  OBVIOUS
<1>4. /\ Begin(kind, t, keys, v, todo)
      /\ \E q \in keys : todo = <<[op |-> "search", key |-> q],
                                  [op |-> "insert", key |-> q, val |-> v]>>
  BY <1>1, <1>2, <1>3
<1>5. kind \in {"insert", "update", "delete", "select"}
  BY <1>3
<1> QED
  BY <1>2, <1>3, <1>4, <1>5, RowsLoad

\* Every step keeps the rows.
LEMMA RowsInvStep ==
  DatabaseInv /\ DatabaseInv' /\ RowsInv /\ [DatabaseNext]_databaseVars => RowsInv'
<1> SUFFICES ASSUME DatabaseInv, DatabaseInv', RowsInv, [DatabaseNext]_databaseVars, Clear'
             PROVE  RestingRows' /\ StmtRows' /\ SavedRows'
  BY DEF RowsInv
<1>0. RowsStep /\ Clear
  BY RowsBefore DEF RowsStep
<1>1. CASE \E t \in Tables : Create(t) \/ CreateFails(t) \/ Drop(t)
  BY <1>0, <1>1, RowsCreate, RowsCreateFails, RowsDrop
<1>2. CASE \E t \in Tables, k \in Keys, v \in Vals : Insert(t, k, v)
  BY <1>0, <1>2, RowsInsert
<1>3. CASE \E t \in Tables : Select(t)
  BY <1>0, <1>3, RowsScan DEF Select
<1>4. CASE \E t \in Tables, keys \in Wheres : Delete(t, keys)
  BY <1>0, <1>4, RowsScan DEF Delete
<1>5. CASE \E t \in Tables, keys \in Wheres, v \in Vals : Update(t, keys, v)
  BY <1>0, <1>5, RowsScan DEF Update
<1>6. CASE CallBTree \/ BTreeProceeds \/ TableCreated \/ Scanned \/ CallDone
  BY <1>0, <1>6, RowsCallBTree, RowsBTreeProceeds, RowsTableCreated, RowsScanned, RowsCallDone
<1>7. CASE Ends \/ Crash
  BY <1>0, <1>7, RowsEnd, RowsCrash
<1>8. CASE UNCHANGED databaseVars
  BY <1>0, <1>8, RowsStutter
<1> QED
  BY <1>1, <1>2, <1>3, <1>4, <1>5, <1>6, <1>7, <1>8 DEF DatabaseNext, Ends

\* So the pages always have the rows that the history says.
THEOREM RowsInvariance == DatabaseSpec => []RowsInv
<1>1. DatabaseInit => RowsInv
  BY RowsInit
<1>2. DatabaseInv /\ DatabaseInv' /\ RowsInv /\ [DatabaseNext]_databaseVars => RowsInv'
  BY RowsInvStep
<1> QED
  BY <1>1, <1>2, DatabaseInvHolds, PTL DEF DatabaseSpec

\* When no statement is in progress the pages and the history have the same rows.
LEMMA RowsAgree ==
  ASSUME CallInv, TruthGood, Trees, Clear, RowsInv, stmt = NoStmt
  PROVE  Contents(view, mem) = truth
<1>1. RestingRows /\ RestingTables = Tables
  BY DEF RowsInv, RestingTables
<1>2. ASSUME NEW t \in Tables PROVE Contents(view, mem)[t] = truth[t]
  <2>1. PICK cat : cat = mem
    OBVIOUS
  <2>2. /\ Contents(view, cat)[t] = NoTable <=> cat[t] = NoTable
        /\ cat[t] # NoTable =>
             /\ Contents(view, cat)[t] \in RowMaps
             /\ RowCells(Contents(view, cat)[t]) = CellsUnder(view, cat[t].root)
    BY <2>1, ContentsCells
  <2>3. PICK d, e : d = Contents(view, cat)[t] /\ e = truth[t]
    OBVIOUS
  <2>4. CASE mem[t] = NoTable
    BY <1>1, <2>1, <2>2, <2>4 DEF RestingRows
  <2>5. CASE mem[t] # NoTable
    <3>1. e \in RowMaps
      BY <2>3, <2>5 DEF TruthGood
    <3>2. d \in RowMaps /\ RowCells(d) = RowCells(e)
      BY <1>1, <2>1, <2>2, <2>3, <2>5 DEF RestingRows
    <3>3. d = e
      BY <3>1, <3>2, SameRows
    <3> QED
      BY <2>1, <2>3, <3>3
  <2> QED
    BY <2>4, <2>5
<1>3. truth = [t \in Tables |-> truth[t]]
  BY DEF TruthGood
<1>4. Contents(view, mem) = [t \in Tables |-> Contents(view, mem)[t]]
  BY DEF Contents
<1> QED
  BY <1>2, <1>3, <1>4

\* And page 1 leads to the same rows.
LEMMA FoundAgrees ==
  ASSUME CallInv, TruthGood, Trees, RowsInv, stmt = NoStmt, ioErrors = 0, Fits(truth)
  PROVE  Found = truth
<1>1. Clear /\ view = disk
  BY DEF Clear, Trees
<1>2. Contents(view, mem) = truth
  BY <1>1, RowsAgree
<1>3. \A t \in Tables : SameRoot(t)
  BY <1>1 DEF RowsInv, SavedRows, Saving
<1>4. Contents(view, saved) = Contents(view, mem)
  <2>1. ASSUME NEW t \in Tables
        PROVE  /\ saved[t] = NoTable <=> mem[t] = NoTable
               /\ saved[t] # NoTable => saved[t].root = mem[t].root
    BY <1>3 DEF SameRoot
  <2>2. ASSUME NEW t \in Tables PROVE Contents(view, saved)[t] = Contents(view, mem)[t]
    <3>1. CASE mem[t] = NoTable
      BY <2>1, <3>1 DEF Contents
    <3>2. CASE mem[t] # NoTable
      <4>1. PICK p, m, a, b : p = mem[t].root /\ m = view /\ a = mem /\ b = saved
        OBVIOUS
      <4>2. a[t] # NoTable /\ a[t].root = p /\ b[t] # NoTable /\ b[t].root = p
        BY <2>1, <3>2, <4>1
      <4>3. Contents(m, a)[t] = RowMap(RowsUnder(m, p), Absent)
        BY <4>2, ContentsAt
      <4>4. Contents(m, b)[t] = RowMap(RowsUnder(m, p), Absent)
        BY <4>2, ContentsAt
      <4> QED
        BY <4>1, <4>3, <4>4
    <3> QED
      BY <3>1, <3>2
  <2>3. /\ Contents(view, saved) = [t \in Tables |-> Contents(view, saved)[t]]
        /\ Contents(view, mem) = [t \in Tables |-> Contents(view, mem)[t]]
    BY DEF Contents
  <2> QED
    BY <2>2, <2>3
<1> QED
  BY <1>1, <1>2, <1>4 DEF Found

\* Between statements every table has in memory and on its pages exactly the rows
\* that the statements which reported success have given it, and a statement that
\* reported an error has hidden nothing: for as long as no process starts on what
\* failing pager calls have left.
THEOREM RowsStayAsAcknowledged == DatabaseSpec => []RowsAsAcknowledged
<1>1. DatabaseInv /\ RowsInv => RowsAsAcknowledged
  BY RowsAgree DEF DatabaseInv, RowsAsAcknowledged, Ready, Clear
<1> QED
  BY <1>1, DatabaseInvHolds, RowsInvariance, PTL

\* Between statements page 1 and the file have all of these rows, as long as every
\* pager call succeeds and the catalog fits in its page: a restart loses nothing.
THEOREM AcknowledgedStaysDurable == DatabaseSpec => []AcknowledgedIsDurable
<1>1. DatabaseInv /\ RowsInv => AcknowledgedIsDurable
  BY FoundAgrees DEF DatabaseInv, AcknowledgedIsDurable, Ready
<1> QED
  BY <1>1, DatabaseInvHolds, RowsInvariance, PTL

\* The rows that ScanAllRows has read for a SELECT.
LEMMA SelectRows ==
  ASSUME CallInv, TruthGood, RowsInv, Clear, Returned, stmt.kind = "select", res.status = "ok"
  PROVE  /\ res.rows \in Seq(LeafCells)
         /\ Range(res.rows) = RowCells(truth[stmt.table]) /\ Ascending(res.rows)
<1>1. StmtRows /\ stmt # NoStmt /\ stmt.phase = "wait" /\ pc = "idle"
  BY DEF RowsInv, Returned
<1>2. /\ Head(stmt.todo) \in Requests /\ Asked = Head(stmt.todo)
      /\ CallFits(Head(stmt.todo))
  BY <1>1, AtWork
<1>3. PICK r : r = Head(stmt.todo)
  OBVIOUS
<1>4. r.op = "scan" /\ stmt.todo = <<[op |-> "scan"]>>
  BY <1>2, <1>3 DEF CallFits, Requests
<1>5. Untouched
  BY <1>4 DEF Untouched
<1>6. PICK d \in RowMaps : Progress(d) /\ CallRows(RowCells(d))
  BY <1>1 DEF StmtRows
<1>7. d = truth[stmt.table]
  BY <1>5, <1>6 DEF Progress
<1>8. Answer(Asked, RowCells(d), CellsUnder(view, root), res)
  BY <1>1, <1>6 DEF CallRows
<1>9. PICK B, A, out : B = RowCells(d) /\ A = CellsUnder(view, root) /\ out = res
  OBVIOUS
<1>10. Answer(r, B, A, out) /\ out.status = "ok"
  BY <1>2, <1>3, <1>8, <1>9
<1>11. out.rows \in Seq(LeafCells) /\ Range(out.rows) = B /\ Ascending(out.rows)
  BY <1>4, <1>10 DEF Answer
<1> QED
  BY <1>7, <1>9, <1>11

\* A SELECT is handed every row of its table, as the successful statements have left
\* it, once and in key order, whatever splits and restarts came before.
THEOREM SelectsSeeAcknowledged == DatabaseSpec => []SelectSeesAcknowledged
<1>1. DatabaseInv /\ RowsInv => SelectSeesAcknowledged
  <2> SUFFICES ASSUME DatabaseInv, RowsInv, Returned, stmt.kind = "select",
                      res.status = "ok", ioErrors = 0
               PROVE  /\ Range(res.rows) = {[key |-> k, value |-> truth[stmt.table][k]] :
                                  k \in {q \in Keys : truth[stmt.table][q] # Absent}}
                      /\ \A i \in 2 .. Len(res.rows) : res.rows[i - 1].key < res.rows[i].key
    BY DEF SelectSeesAcknowledged
  <2>1. /\ res.rows \in Seq(LeafCells)
        /\ Range(res.rows) = RowCells(truth[stmt.table]) /\ Ascending(res.rows)
    BY SelectRows DEF DatabaseInv, Clear
  <2>2. \A i \in 2 .. Len(res.rows) : res.rows[i - 1].key < res.rows[i].key
    <3>1. Len(res.rows) \in Nat
      BY <2>1
    <3>2. \A i \in 2 .. Len(res.rows) :
            i - 1 \in 1 .. Len(res.rows) /\ i \in 1 .. Len(res.rows) /\ i - 1 < i
      BY <3>1
    <3> QED
      BY <2>1, <3>2 DEF Ascending
  <2> QED
    BY <2>1, <2>2 DEF RowCells, CellsIn
<1> QED
  BY <1>1, DatabaseInvHolds, RowsInvariance, PTL

\* A row as it was, or as the statement in progress is to leave it.
OldOrNew(k, value) == value = truth[stmt.table][k] \/ (k \in stmt.keys /\ stmt.val = value)

\* At any moment of a statement that splits no node the tree at work has each row as
\* it was or as it is to be.
LEMMA RowsHalfWay ==
  ASSUME CallInv, TruthGood, StmtRows, stmt # NoStmt, ioErrors = 0,
         stmt.kind \in {"update", "delete", "select"}
  PROVE  \E e \in RowMaps : /\ CellsUnder(view, root) = RowCells(e)
                            /\ \A k \in Keys : OldOrNew(k, e[k])
<1>1. /\ stmt.phase = "wait" => /\ Asked = Head(stmt.todo) /\ Head(stmt.todo) \in Requests
                                /\ CallFits(Head(stmt.todo))
      /\ stmt.phase # "wait" => pc = "idle"
      /\ stmt.kind = "delete" => stmt.val = Absent
      /\ ~Growing
  BY AtWork DEF CallInv, StmtGood, StmtRows, Growing
<1>2. PICK d \in RowMaps : Progress(d) /\ CallRows(RowCells(d))
  BY DEF StmtRows
<1>3. ASSUME NEW k \in Keys PROVE OldOrNew(k, d[k])
  <2>1. NewRows[k] = truth[stmt.table][k] \/ (k \in stmt.keys /\ stmt.val = NewRows[k])
    BY DEF NewRows
  <2> QED
    BY <1>2, <2>1 DEF OldOrNew, Progress
<1>4. PICK B, A : B = RowCells(d) /\ A = CellsUnder(view, root)
  OBVIOUS
<1>5. CASE A = B
  BY <1>3, <1>4, <1>5
<1>6. CASE A # B
  <2>1. stmt.phase = "wait" /\ pc = "idle"
    BY <1>1, <1>2, <1>4, <1>6 DEF CallRows, InCall, InPlace
  <2>2. PICK r : r = Head(stmt.todo)
    OBVIOUS
  <2>3. Answer(r, B, A, res)
    BY <1>1, <1>2, <1>4, <2>1, <2>2 DEF CallRows
  <2>4. A = Goal(r, B)
    BY <1>6, <2>3 DEF Answer
  <2>5. r.op \in {"insert", "delete"}
    BY <1>6, <2>4 DEF Goal
  <2>6. /\ r.key \in Keys /\ r.key \in stmt.keys
        /\ r.op = "insert" => r.val \in Vals /\ r.val = stmt.val
        /\ r.op = "delete" => stmt.val = Absent
    BY <1>1, <2>1, <2>2, <2>5 DEF CallFits, Requests
  <2>7. d \in MapsWith(Absent) /\ Absent \notin Vals
    BY RowMapFacts
  <2> DEFINE e == [d EXCEPT ![r.key] = stmt.val]
  <2>8. e \in MapsWith(Absent) /\ CellsIn(e, Absent) = Goal(r, CellsIn(d, Absent))
    BY <2>5, <2>6, <2>7, CellsAfterInsert, CellsAfterDelete
  <2>9. e \in RowMaps /\ RowCells(e) = A
    BY <1>4, <2>4, <2>8, RowMapFacts DEF RowCells
  <2>10. \A k \in Keys : IF k = r.key THEN e[k] = stmt.val ELSE e[k] = d[k]
    BY DEF RowMaps
  <2>11. ASSUME NEW k \in Keys PROVE OldOrNew(k, e[k])
    BY <1>3, <2>6, <2>10 DEF OldOrNew
  <2> QED
    BY <1>4, <2>9, <2>11
<1> QED
  BY <1>5, <1>6

\* What a process that is started now would find of a row.
LEMMA FoundRows ==
  ASSUME CallInv, TruthGood, Trees, RowsInv, ioErrors = 0, Fits(truth), NEW t \in Tables
  PROVE  /\ Found[t] = NoTable <=> truth[t] = NoTable
         /\ truth[t] # NoTable =>
              \A k \in Keys : \/ Found[t][k] = truth[t][k]
                              \/ Touches(t, k, Found[t][k])
                              \/ KilledInInsert(t) /\ Found[t][k] = Absent
<1>1. Clear /\ view = disk
  BY DEF Clear, Trees
<1>2. /\ RestingRows /\ StmtRows
      /\ saved[t] = NoTable <=> truth[t] = NoTable
      /\ ~Saving(t) => SameRoot(t)
      /\ stmt # NoStmt => OldRows(CellsUnder(view, saved[stmt.table].root))
  BY <1>1 DEF RowsInv, SavedRows
<1>3. PICK cat : cat = saved
  OBVIOUS
<1>4. /\ Contents(view, cat)[t] = NoTable <=> cat[t] = NoTable
      /\ cat[t] # NoTable =>
           /\ Contents(view, cat)[t] \in RowMaps
           /\ RowCells(Contents(view, cat)[t]) = CellsUnder(view, cat[t].root)
  BY <1>1, <1>3, ContentsCells
<1>5. PICK f : f = Found[t]
  OBVIOUS
<1>6. Found[t] = NoTable <=> truth[t] = NoTable
  BY <1>1, <1>2, <1>3, <1>4 DEF Found
<1>7. ASSUME truth[t] # NoTable
      PROVE  \A k \in Keys : \/ f[k] = truth[t][k]
                             \/ Touches(t, k, f[k])
                             \/ KilledInInsert(t) /\ f[k] = Absent
  <2>1. /\ f \in RowMaps /\ RowCells(f) = CellsUnder(view, saved[t].root)
        /\ truth[t] \in RowMaps
    BY <1>1, <1>2, <1>3, <1>4, <1>5, <1>7 DEF Found, TruthGood
  <2>2. PICK rows : rows = truth[t]
    OBVIOUS
  <2>3. CASE t \in RestingTables
    <3>1. ~Saving(t)
      BY <2>3 DEF Saving, RestingTables
    <3>2. RowCells(f) = RowCells(rows)
      BY <1>2, <1>7, <2>1, <2>2, <2>3, <3>1 DEF SameRoot, RestingRows
    <3>3. f = rows
      BY <2>1, <2>2, <3>2, SameRows
    <3> QED
      BY <2>2, <3>3
  <2>4. CASE t \notin RestingTables
    <3>1. stmt # NoStmt /\ t = stmt.table /\ stmt \in Stmts
      BY <2>4 DEF RestingTables, CallInv, StmtGood
    <3>2. stmt.kind # "create"
      BY <1>2, <1>7, <3>1 DEF StmtRows
    <3>3. CASE stmt.kind = "drop"
      <4>1. RowCells(f) = RowCells(rows)
        BY <1>2, <2>1, <2>2, <3>1, <3>3 DEF OldRows
      <4>2. f = rows
        BY <2>1, <2>2, <4>1, SameRows
      <4> QED
        BY <2>2, <4>2
    <3>4. CASE stmt.kind = "insert"
      <4> SUFFICES ASSUME NEW k \in Keys, f[k] # Absent
                   PROVE  f[k] = truth[t][k] \/ Touches(t, k, f[k])
        BY <3>1, <3>4 DEF KilledInInsert
      <4>1. RowCells(f) \subseteq RowCells(truth[t]) \cup RowCells(NewRows)
        BY <1>2, <2>1, <3>1, <3>4 DEF OldRows
      <4>2. [key |-> k, value |-> f[k]] \in RowCells(f)
        BY DEF RowCells, CellsIn
      <4>3. f[k] = truth[t][k] \/ f[k] = NewRows[k]
        BY <4>1, <4>2 DEF RowCells, CellsIn
      <4>4. NewRows[k] = truth[t][k] \/ (k \in stmt.keys /\ stmt.val = NewRows[k])
        BY <3>1, <3>4 DEF NewRows
      <4> QED
        BY <3>1, <4>3, <4>4 DEF Touches
    <3>5. CASE stmt.kind \in {"update", "delete", "select"}
      <4>1. /\ ~Saving(t) /\ Rooted
        BY <1>2, <3>1, <3>5 DEF CallInv, StmtGood, Calling, Saving, StmtRows
      <4>2. root = saved[t].root
        BY <1>2, <1>7, <3>1, <3>5, <4>1 DEF SameRoot, Rooted
      <4>3. PICK e \in RowMaps : /\ CellsUnder(view, root) = RowCells(e)
                                 /\ \A k \in Keys : OldOrNew(k, e[k])
        BY <1>2, <3>1, <3>5, RowsHalfWay
      <4>4. RowCells(f) = RowCells(e)
        BY <2>1, <4>2, <4>3
      <4>5. f = e
        BY <2>1, <4>4, SameRows
      <4> QED
        BY <3>1, <4>3, <4>5 DEF OldOrNew, Touches
    <3> QED
      BY <3>1, <3>2, <3>3, <3>4, <3>5, StmtFacts
  <2> QED
    BY <2>3, <2>4
<1> QED
  BY <1>5, <1>6, <1>7

\* A process that is killed between any two writes of a statement that is no INSERT
\* loses no row that was acknowledged, brings none back, and changes none but those
\* that the statement was about to change; an INSERT puts the rows of its own table
\* at risk, but never those of another.
THEOREM KillsLoseOnlyInserts == DatabaseSpec => OnlyInsertsLoseRows
<1>1. DatabaseInv /\ RowsInv /\ [DatabaseNext]_databaseVars =>
        [crashes' # crashes /\ ioErrors = 0 /\ Fits(truth) =>
           \A t \in Tables :
             /\ Found[t] = NoTable <=> truth[t] = NoTable
             /\ truth[t] # NoTable =>
                  \A k \in Keys :
                    \/ Found[t][k] = truth[t][k]
                    \/ Touches(t, k, Found[t][k])
                    \/ KilledInInsert(t) /\ Found[t][k] = Absent]_databaseVars
  BY FoundRows DEF DatabaseInv
<1> QED
  BY <1>1, DatabaseInvHolds, RowsInvariance, PTL DEF DatabaseSpec, OnlyInsertsLoseRows

=============================================================================
