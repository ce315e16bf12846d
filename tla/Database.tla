------------------------------ MODULE Database ------------------------------
(***************************************************************************)
(* engine/catalog.go, engine/table.go and the statements of                *)
(* engine/executor.go that reach the storage: what a SQL statement does,   *)
(* call by call, to the B-Trees, to the catalog in memory and to the       *)
(* catalog on page 1, and what a process that is started again after any   *)
(* of those calls finds.                                                   *)
(*                                                                         *)
(* Abstracted: columns and expressions.  A row is a key and a value, WHERE *)
(* is a set of keys, and a statement that the executor rejects before it   *)
(* touches the storage does not occur.  An UPDATE does not assign the      *)
(* primary key, and a SELECT has no JOIN.                                  *)
(*                                                                         *)
(* An operator whose name ends in Mutant is the definition after it with a *)
(* plausible bug; it is used only to see that the properties can fail.     *)
(***************************************************************************)
EXTENDS BTree

CONSTANTS
  Tables,
  RowIdTables,        \* the tables created without a primary key
  Wheres,             \* the sets of keys that a WHERE selects
  CatalogCapacity,    \* how many tables fit in page 1
  Absent,             \* the value of a key that is not in a table
  NoTable,            \* what a name that is not a table maps to
  MaxCrashes          \* bound: how often the process is started again

Infos == [root : PageNums, next : Nat]

ASSUME DatabaseAssumption ==
  /\ RowIdTables \subseteq Tables
  /\ Wheres \subseteq SUBSET Keys
  /\ CatalogCapacity \in Nat
  /\ MaxCrashes \in Nat
  /\ Absent \notin Vals
  /\ NoTable \notin Infos \cup [Keys -> Vals \cup {Absent}]
  /\ 1 \notin PageNums      \* the page of the catalog

\* root, of BTree.tla, is that of the tree the statement has loaded.
VARIABLES
  mem,       \* catalog.Tables: of each table the root page and NextRowID
  saved,     \* the catalog on page 1
  stmt,      \* the statement in progress
  truth,     \* history: the rows of each table, as the statements that
             \* reported success have left them
  crashes    \* how often the process was started again

databaseVars == <<vars, mem, saved, stmt, truth, crashes>>

\* stmt.todo are the B-Tree calls it has yet to make; stmt.phase is "call"
\* before the first of them, "wait" until it returns, and "save" when only
\* Catalog.Save is left.
Stmts ==
  [kind : {"create", "drop", "insert", "update", "delete", "select"},
   table : Tables, keys : SUBSET Keys, val : Vals \cup {Absent},
   todo : Seq(Requests), phase : {"call", "wait", "save"}]

NoStmt == [kind |-> "none"]

DatabaseTypeOK ==
  /\ TypeOK
  /\ mem \in [Tables -> Infos \cup {NoTable}]
  /\ saved \in [Tables -> Infos \cup {NoTable}]
  /\ stmt \in Stmts \cup {NoStmt}
  /\ truth \in [Tables -> [Keys -> Vals \cup {Absent}] \cup {NoTable}]
  /\ crashes \in 0 .. MaxCrashes

\* NewCatalog on an empty file.  A page 1 of zeros and the empty catalog that
\* it then saves load as the same.
DatabaseInit ==
  /\ Init
  /\ mem = [t \in Tables |-> NoTable]
  /\ saved = mem
  /\ stmt = NoStmt
  /\ truth = [t \in Tables |-> NoTable]
  /\ crashes = 0

----------------------------------------------------------------------------
\* The rows of a catalog, on the pages of m.

Contents(m, cat) ==
  [t \in Tables |->
     IF cat[t] = NoTable THEN NoTable
     ELSE LET rows == RowsUnder(m, cat[t].root)
          IN  [k \in Keys |->
                 IF \E i \in DOMAIN rows : rows[i].key = k
                 THEN rows[CHOOSE i \in DOMAIN rows : rows[i].key = k].value
                 ELSE Absent]]

\* What a process that is started now would find.
Found == Contents(disk, saved)

Fits(cat) == Cardinality({t \in Tables : cat[t] # NoTable}) <= CatalogCapacity

Ready == stmt = NoStmt /\ pc = "idle"

Begin(kind, t, keys, val, todo) ==
  stmt' = [kind |-> kind, table |-> t, keys |-> keys, val |-> val,
           todo |-> todo, phase |-> "call"]

\* The B-Tree handle and its last result go out of scope.
Finish == stmt' = NoStmt /\ root' = NoPage /\ res' = NoResult

\* The success of the statement is reported.
Acknowledge ==
  LET rows == truth[stmt.table]
      new ==
        CASE stmt.kind = "create" -> [k \in Keys |-> Absent]
          [] stmt.kind = "drop" -> NoTable
          [] stmt.kind \in {"insert", "update", "delete"} ->
               [k \in Keys |->
                  IF k \in stmt.keys /\ (stmt.kind = "insert" \/ rows[k] # Absent)
                  THEN stmt.val ELSE rows[k]]
          [] stmt.kind = "select" -> rows
  IN  truth' = [truth EXCEPT ![stmt.table] = new]

\* An error is reported: what was done of the statement stays done.
Disclaim == truth' = Contents(view, mem)

----------------------------------------------------------------------------
\* Statements begin.

\* The table is in the catalog before NewBTree has written its page.
CreateMutant(t) ==
  /\ Ready /\ mem[t] = NoTable
  /\ NewBTree
  /\ mem' = [mem EXCEPT ![t] = [root |-> fresh', next |-> 1]]
  /\ stmt' = [kind |-> "create", table |-> t, keys |-> {}, val |-> Absent,
              todo |-> <<>>, phase |-> "wait"]
  /\ UNCHANGED <<saved, truth, crashes>>

\* executeCreate, CreateTable: NewBTree first.
Create(t) ==
  /\ Ready /\ mem[t] = NoTable
  /\ NewBTree
  /\ stmt' = [kind |-> "create", table |-> t, keys |-> {}, val |-> Absent,
              todo |-> <<>>, phase |-> "wait"]
  /\ UNCHANGED <<mem, saved, truth, crashes>>

\* The error of NewBTree is swallowed.
CreateFailsMutant(t) ==
  /\ Ready /\ mem[t] = NoTable
  /\ NewBTreeFails
  /\ mem' = [mem EXCEPT ![t] = [root |-> NoPage, next |-> 1]]
  /\ UNCHANGED <<saved, stmt, truth, crashes>>

CreateFails(t) ==
  /\ Ready /\ mem[t] = NoTable
  /\ NewBTreeFails
  /\ UNCHANGED <<mem, saved, stmt, truth, crashes>>

\* The table goes from memory only.
DropMutant(t) ==
  /\ Ready /\ mem[t] # NoTable
  /\ mem' = [mem EXCEPT ![t] = NoTable]
  /\ truth' = [truth EXCEPT ![t] = NoTable]
  /\ UNCHANGED <<vars, saved, stmt, crashes>>

\* executeDrop, DropTable: the pages of the table are never used again.
Drop(t) ==
  /\ Ready /\ mem[t] # NoTable
  /\ mem' = [mem EXCEPT ![t] = NoTable]
  /\ stmt' = [kind |-> "drop", table |-> t, keys |-> {}, val |-> Absent,
              todo |-> <<>>, phase |-> "save"]
  /\ UNCHANGED <<vars, saved, truth, crashes>>

LoadBTree(t) ==
  /\ Ready /\ mem[t] # NoTable
  /\ root' = mem[t].root
  /\ UNCHANGED <<view, disk, owned, pc, req, path, work, fresh, res, ioErrors>>

\* NextRowID is not counted up.
InsertMutant(t, k, v) ==
  /\ LoadBTree(t)
  /\ t \in RowIdTables => k = mem[t].next
  /\ Begin("insert", t, {k}, v,
           <<[op |-> "search", key |-> k], [op |-> "insert", key |-> k, val |-> v]>>)
  /\ UNCHANGED <<mem, saved, truth, crashes>>

\* executeInsert, InsertRow: the key is that of the row, or NextRowID.
Insert(t, k, v) ==
  /\ LoadBTree(t)
  /\ IF t \in RowIdTables
     THEN k = mem[t].next /\ mem' = [mem EXCEPT ![t].next = @ + 1]
     ELSE UNCHANGED mem
  /\ Begin("insert", t, {k}, v,
           <<[op |-> "search", key |-> k], [op |-> "insert", key |-> k, val |-> v]>>)
  /\ UNCHANGED <<saved, truth, crashes>>

\* executeUpdate, executeDelete and executeSelect begin with ScanAllRows.
ScanAllRows(kind, t, keys, val) ==
  /\ LoadBTree(t)
  /\ Begin(kind, t, keys, val, <<[op |-> "scan"]>>)
  /\ UNCHANGED <<mem, saved, truth, crashes>>

Update(t, keys, v) == ScanAllRows("update", t, keys, v)
Delete(t, keys) == ScanAllRows("delete", t, keys, Absent)
Select(t) == ScanAllRows("select", t, Keys, Absent)

----------------------------------------------------------------------------
\* Statements proceed.

CallBTree ==
  /\ stmt # NoStmt /\ stmt.phase = "call" /\ stmt.todo # <<>>
  /\ Call(Head(stmt.todo))
  /\ stmt' = [stmt EXCEPT !.phase = "wait"]
  /\ UNCHANGED <<mem, saved, truth, crashes>>

\* Between two pager calls of a B-Tree operation.
BTreeProceeds ==
  /\ Proceed
  /\ UNCHANGED <<mem, saved, stmt, truth, crashes>>

Returned == stmt # NoStmt /\ stmt.phase = "wait" /\ pc = "idle"

TableCreated ==
  /\ Returned /\ stmt.kind = "create" /\ res.status = "ok"
  /\ mem' = [mem EXCEPT ![stmt.table] = [root |-> root, next |-> 1]]
  /\ stmt' = [stmt EXCEPT !.phase = "save"]
  /\ UNCHANGED <<vars, saved, truth, crashes>>

\* The calls for the rows that match: UpdateRow, DeleteRow.
CallsFor(cell) ==
  CASE stmt.kind = "update" ->
         <<[op |-> "search", key |-> cell.key],
           [op |-> "insert", key |-> cell.key, val |-> stmt.val]>>
    [] stmt.kind = "delete" -> <<[op |-> "delete", key |-> cell.key]>>
    [] stmt.kind = "select" -> <<>>

Scanned ==
  /\ Returned /\ stmt.todo # <<>> /\ Head(stmt.todo).op = "scan"
  /\ res.status = "ok"
  /\ LET rows == res.rows
     IN  stmt' = [stmt EXCEPT !.phase = "call",
                              !.todo = FlattenSeq([i \in DOMAIN rows |->
                                         IF rows[i].key \in stmt.keys
                                         THEN CallsFor(rows[i]) ELSE <<>>])]
  /\ UNCHANGED <<vars, mem, saved, truth, crashes>>

\* InsertRow refuses a key that is there, UpdateRow one that is not.
Refused ==
  /\ Head(stmt.todo).op = "search"
  /\ res.status = IF stmt.kind = "insert" THEN "ok" ELSE "notfound"

\* The new root of a split is not put into the catalog.
CallDoneMutant ==
  /\ Returned /\ stmt.todo # <<>> /\ Head(stmt.todo).op # "scan"
  /\ res.status # "error" /\ ~Refused
  /\ stmt' = [stmt EXCEPT !.todo = Tail(@),
                          !.phase = IF stmt.kind = "insert" /\ Tail(stmt.todo) = <<>>
                                    THEN "save" ELSE "call"]
  /\ UNCHANGED <<vars, mem, saved, truth, crashes>>

\* After its B-Tree insert, InsertRow takes the root the tree now has.
CallDone ==
  /\ Returned /\ stmt.todo # <<>> /\ Head(stmt.todo).op # "scan"
  /\ res.status # "error" /\ ~Refused
  /\ LET last == stmt.kind = "insert" /\ Tail(stmt.todo) = <<>>
     IN  /\ stmt' = [stmt EXCEPT !.todo = Tail(@),
                                 !.phase = IF last THEN "save" ELSE "call"]
         /\ mem' = IF last THEN [mem EXCEPT ![stmt.table].root = root] ELSE mem
  /\ UNCHANGED <<vars, saved, truth, crashes>>

----------------------------------------------------------------------------
\* Statements end.

AllRowsDone ==
  /\ stmt # NoStmt /\ stmt.phase = "call" /\ stmt.todo = <<>>
  /\ Acknowledge /\ Finish
  /\ UNCHANGED <<view, disk, owned, pc, req, path, work, fresh, ioErrors,
                 mem, saved, crashes>>

RefusedRow ==
  /\ Returned /\ stmt.todo # <<>> /\ Refused
  /\ IF stmt.kind = "insert" THEN UNCHANGED truth ELSE Disclaim
  /\ Finish
  /\ UNCHANGED <<view, disk, owned, pc, req, path, work, fresh, ioErrors,
                 mem, saved, crashes>>

\* executeUpdate and executeDelete evaluate WHERE and the new values row by
\* row, and stop at the first that fails: the rows before it stay changed.
EvaluationFails ==
  /\ stmt # NoStmt /\ stmt.kind \in {"update", "delete"} /\ stmt.phase = "call"
  /\ stmt.todo # <<>> => Head(stmt.todo).op \in {"search", "delete"}
  /\ Disclaim /\ Finish
  /\ UNCHANGED <<view, disk, owned, pc, req, path, work, fresh, ioErrors,
                 mem, saved, crashes>>

CallFailed ==
  /\ Returned /\ res.status = "error"
  /\ Disclaim /\ Finish
  /\ UNCHANGED <<view, disk, owned, pc, req, path, work, fresh, ioErrors,
                 mem, saved, crashes>>

\* Page 1 keeps the root pages it has.
SaveMutant ==
  /\ stmt # NoStmt /\ stmt.phase = "save" /\ Fits(mem)
  /\ saved' = [t \in Tables |->
                 IF mem[t] # NoTable /\ saved[t] # NoTable
                 THEN [mem[t] EXCEPT !.root = saved[t].root] ELSE mem[t]]
  /\ Acknowledge /\ Finish
  /\ UNCHANGED <<view, disk, owned, pc, req, path, work, fresh, ioErrors,
                 mem, crashes>>

Save ==
  /\ stmt # NoStmt /\ stmt.phase = "save" /\ Fits(mem)
  /\ saved' = mem
  /\ Acknowledge /\ Finish
  /\ UNCHANGED <<view, disk, owned, pc, req, path, work, fresh, ioErrors,
                 mem, crashes>>

\* The catalog is too large for its page, or the page cannot be written; the
\* catalog in memory stays changed.
SaveFails ==
  /\ stmt # NoStmt /\ stmt.phase = "save"
  /\ \/ ~Fits(mem) /\ UNCHANGED <<saved, ioErrors>>
     \/ Fits(mem) /\ IOError /\ saved' \in {saved, mem}
  /\ Disclaim /\ Finish
  /\ UNCHANGED <<view, disk, owned, pc, req, path, work, fresh, mem, crashes>>

\* The process ends in the middle of whatever it is doing, by .quit, a panic
\* or a kill, and is started again: NewCatalog loads page 1.
Crash ==
  /\ crashes < MaxCrashes /\ crashes' = crashes + 1
  /\ mem' = saved
  /\ truth' = Found
  /\ stmt' = NoStmt
  /\ view' = disk
  /\ root' = NoPage
  /\ pc' = "idle"
  /\ req' = NoRequest
  /\ path' = <<>>
  /\ work' = Zero
  /\ fresh' = NoPage
  /\ res' = NoResult
  /\ UNCHANGED <<disk, owned, saved, ioErrors>>

DatabaseNext ==
  \/ \E t \in Tables :
       \/ Create(t) \/ CreateFails(t) \/ Drop(t) \/ Select(t)
       \/ \E k \in Keys, v \in Vals : Insert(t, k, v)
       \/ \E keys \in Wheres : Delete(t, keys) \/ \E v \in Vals : Update(t, keys, v)
  \/ CallBTree \/ BTreeProceeds \/ TableCreated \/ Scanned \/ CallDone
  \/ AllRowsDone \/ RefusedRow \/ EvaluationFails \/ CallFailed
  \/ Save \/ SaveFails
  \/ Crash

DatabaseSpec == DatabaseInit /\ [][DatabaseNext]_databaseVars

----------------------------------------------------------------------------
\* Properties

\* Between statements every table holds what the statements that reported
\* success say, a SELECT after them would list nothing else, and what a
\* statement that reported an error has left is visible at once: no statement
\* works on the old root of a tree that has grown.
RowsAsAcknowledged ==
  Ready /\ (ioErrors = 0 \/ crashes = 0) => Contents(view, mem) = truth

\* Between statements the same holds of what a restart would find, for as
\* long as the catalog fits in its page.
AcknowledgedIsDurable ==
  Ready /\ ioErrors = 0 /\ Fits(truth) => Found = truth

\* What ScanAllRows hands to a SELECT is every row of the table, once, in key
\* order.
SelectSeesAcknowledged ==
  Returned /\ stmt.kind = "select" /\ res.status = "ok" /\ ioErrors = 0 =>
    /\ Range(res.rows) = {[key |-> k, value |-> truth[stmt.table][k]] :
                            k \in {q \in Keys : truth[stmt.table][q] # Absent}}
    /\ \A i \in 2 .. Len(res.rows) : res.rows[i - 1].key < res.rows[i].key

\* For the process and for a restart at any moment: the root of every table
\* is a page with a node, under it is a B-Tree, and no page belongs to two
\* tables.
TablesSound ==
  \A s \in {<<view, mem>>, <<disk, saved>>} :
    LET m == s[1]
        cat == s[2]
        Exists(t) == cat[t] # NoTable
        PagesOf(t) == Range(Preorder(m, cat[t].root))
    IN  \A t \in {u \in Tables : Exists(u)} :
          /\ Linked(cat[t].root)
          /\ ioErrors = 0 => SearchTree(m, cat[t].root)
          /\ \A u \in Tables \ {t} : Exists(u) => PagesOf(t) \cap PagesOf(u) = {}

\* A generated row id is never refused as a duplicate, for as long as the
\* process lives.
RowIdsFresh ==
  Returned /\ stmt.kind = "insert" /\ stmt.table \in RowIdTables
    /\ stmt.todo # <<>> /\ crashes = 0 => ~Refused

\* The statement in progress is about to give row k of table t this value.
Touches(t, k, value) ==
  stmt # NoStmt /\ stmt.table = t /\ k \in stmt.keys /\ stmt.val = value

KilledInInsert(t) == stmt # NoStmt /\ stmt.kind = "insert" /\ stmt.table = t

\* A process that is killed in the middle of anything but an INSERT loses
\* nothing, and an INSERT can lose rows of its own table only; no kill brings
\* back a row or a table, or changes one, the rows that the statement in
\* progress is about to change excepted.
OnlyInsertsLoseRows ==
  [][crashes' # crashes /\ ioErrors = 0 /\ Fits(truth) =>
       \A t \in Tables :
         /\ Found[t] = NoTable <=> truth[t] = NoTable
         /\ truth[t] # NoTable =>
              \A k \in Keys :
                \/ Found[t][k] = truth[t][k]
                \/ Touches(t, k, Found[t][k])
                \/ KilledInInsert(t) /\ Found[t][k] = Absent]_databaseVars

\* What README.md:11 says, "Your data survives restarts", of a process that
\* ends between two statements: whatever becomes of the rows that the last
\* statement was about, a restart finds every other row of the saved tables.
SurvivesRestarts ==
  [][stmt # NoStmt /\ Ready' /\ crashes' = crashes =>
       \A t \in Tables :
         truth[t] # NoTable /\ truth'[t] # NoTable /\ Found'[t] # NoTable =>
           \A k \in Keys :
             truth[t][k] # Absent /\ ~(t = stmt.table /\ k \in stmt.keys) =>
               Found'[t][k] # Absent]_databaseVars

=============================================================================
