------------------------------- MODULE Table --------------------------------
(***************************************************************************)
(* One table as engine/executor.go and engine/table.go keep it: rows with  *)
(* columns in a map from keys to rows, and the INSERT, UPDATE and DELETE   *)
(* statements on it.  UPDATE and DELETE read all rows first and then deal  *)
(* with one row after the other.                                           *)
(*                                                                         *)
(* Abstracted: the map is the B-Tree of BTree.tla, whose calls succeed     *)
(* here; Database.tla has their failures.  A statement that names a column *)
(* which is not there, or a wrong number of values, does not occur.        *)
(*                                                                         *)
(* An operator whose name ends in Mutant is the definition after it with a *)
(* plausible bug; it is used only to see that the properties can fail.     *)
(***************************************************************************)
EXTENDS Keys, FiniteSets

CONSTANTS
  Columns, ColumnType,
  NotNull,         \* the columns that are declared NOT NULL
  PrimaryKeys,     \* the columns that can be the primary key, or NoColumn
  NoColumn,
  RowId,           \* the hidden column "_rowid"
  NoWhere,         \* a statement without WHERE
  Inputs,          \* what an INSERT gives: columns to values of any type
  Wheres,          \* the conditions, NoWhere possibly among them
  Changes,         \* the assignments of an UPDATE: columns to expressions
  Depth,           \* of each expression: how deep its operators nest
  AssignsKey       \* bound: whether an UPDATE may assign the primary key

\* The expressions that the parser builds: trees, of literals that are values.
WellFormed(e) ==
  \/ e.op = "literal" /\ e.value \in Values
  \/ e.op \in {"column", "*"}
  \/ /\ e.op \in Operators
     /\ \A part \in {e.left, e.right} : part \in Exprs /\ Depth[part] < Depth[e]

ASSUME TableAssumption ==
  /\ ColumnType \in [Columns -> {"INT", "TEXT", "BOOL"}]
  /\ NotNull \subseteq Columns
  /\ PrimaryKeys \subseteq Columns \cup {NoColumn}
  /\ NoColumn \notin Columns
  /\ RowId \notin Columns \cup {NoColumn}
  /\ \A given \in Inputs :
       /\ DOMAIN given \subseteq Columns
       /\ \A c \in DOMAIN given : given[c] \in Values \cup {Error}
  /\ Wheres \subseteq Exprs \cup {NoWhere}
  /\ Depth \in [Exprs -> Nat]
  /\ \A e \in Exprs : WellFormed(e)
  /\ \A a \in Changes : DOMAIN a \subseteq Columns /\ \A c \in DOMAIN a : a[c] \in Exprs
  /\ AssignsKey \in BOOLEAN

VARIABLES
  pk,        \* table.PrimaryKey
  tree,      \* the map from keys to rows
  next,      \* table.NextRowID
  stmt,      \* the UPDATE or DELETE in progress
  scan,      \* what it has read: the tree when it began
  reply      \* the answer to the last statement

vars == <<pk, tree, next, stmt, scan, reply>>

\* The rows that fit the columns.  A row need not have all columns: INSERT can
\* name some of them.
Fits(row) ==
  /\ DOMAIN row \subseteq Columns \cup {RowId}
  /\ \A c \in DOMAIN row :
       row[c] \in Values
         /\ Type(row[c]) \in {"NULL", IF c = RowId THEN "INT" ELSE ColumnType[c]}

NoStmt == [kind |-> "none"]
NoChange == <<>>

\* The keys of one table are of one type.
KeyType == IF pk = NoColumn THEN "INT" ELSE ColumnType[pk]

KeyValues == {v \in Values : Type(v) = KeyType}
KeysOfTable == {SerializeKey(v) : v \in KeyValues}

\* The state has its types, stmt.left being the keys of the rows still to come.
TypeOK ==
  /\ pk \in PrimaryKeys
  /\ DOMAIN tree \subseteq KeysOfTable
  /\ next \in Nat
  /\ stmt = NoStmt \/ stmt \in
       [kind : {"update", "delete"}, where : Wheres,
        change : Changes \cup {NoChange}, left : SUBSET DOMAIN scan, count : Nat]
  /\ DOMAIN scan \subseteq KeysOfTable
  /\ reply \in [status : {"ok", "error"}, count : Nat]

Init ==
  /\ pk \in PrimaryKeys
  /\ tree = <<>>
  /\ next = 1
  /\ stmt = NoStmt
  /\ scan = <<>>
  /\ reply = [status |-> "ok", count |-> 0]

Reply(status, count) == reply' = [status |-> status, count |-> count]

Cell(row, col) == IF col \in DOMAIN row THEN row[col] ELSE Null

\* Without the row id.
KeyValueMutant(row) == Cell(row, pk)

\* The value an UPDATE or DELETE finds a row by: its primary key, or else its
\* row id.
KeyValue(row) == IF Cell(row, pk) # Null THEN Cell(row, pk) ELSE Cell(row, RowId)

----------------------------------------------------------------------------
\* INSERT

Acceptable(given) ==
  \A c \in DOMAIN given :
    /\ Coercible(given[c], ColumnType[c])
    /\ given[c] = Null => c \notin NotNull

Typed(given) == [c \in DOMAIN given |-> Coerce(given[c], ColumnType[c])]

InsertFails(given) ==
  /\ stmt = NoStmt
  /\ \/ ~Acceptable(given)
     \/ pk # NoColumn /\ Cell(given, pk) = Null
  /\ Reply("error", 0)
  /\ UNCHANGED <<pk, tree, next, stmt, scan>>

\* The key is that of the value before it is converted.
InsertWithKeyMutant(given) ==
  /\ stmt = NoStmt
  /\ Acceptable(given)
  /\ pk # NoColumn /\ Cell(given, pk) # Null
  /\ LET key == SerializeKey(given[pk])
     IN  IF key \in DOMAIN tree
         THEN Reply("error", 0) /\ UNCHANGED tree
         ELSE /\ tree' = [k \in DOMAIN tree \cup {key} |->
                            IF k = key THEN Typed(given) ELSE tree[k]]
              /\ Reply("ok", 1)
  /\ UNCHANGED <<pk, next, stmt, scan>>

\* executeInsert and InsertRow, with a primary key.
InsertWithKey(given) ==
  /\ stmt = NoStmt
  /\ Acceptable(given)
  /\ pk # NoColumn /\ Cell(given, pk) # Null
  /\ LET key == SerializeKey(Typed(given)[pk])
     IN  IF key \in DOMAIN tree
         THEN Reply("error", 0) /\ UNCHANGED tree
         ELSE /\ tree' = [k \in DOMAIN tree \cup {key} |->
                            IF k = key THEN Typed(given) ELSE tree[k]]
              /\ Reply("ok", 1)
  /\ UNCHANGED <<pk, next, stmt, scan>>

\* The same with a generated row id.  That it is one of Ints is a bound.
InsertWithRowId(given) ==
  /\ stmt = NoStmt
  /\ Acceptable(given)
  /\ pk = NoColumn /\ next \in Ints
  /\ next' = next + 1
  /\ LET id == <<"INT", next>>
         row == [c \in DOMAIN given \cup {RowId} |->
                   IF c = RowId THEN id ELSE Typed(given)[c]]
         key == SerializeKey(id)
     IN  IF key \in DOMAIN tree
         THEN Reply("error", 0) /\ UNCHANGED tree
         ELSE /\ tree' = [k \in DOMAIN tree \cup {key} |->
                            IF k = key THEN row ELSE tree[k]]
              /\ Reply("ok", 1)
  /\ UNCHANGED <<pk, stmt, scan>>

----------------------------------------------------------------------------
\* UPDATE and DELETE

\* ScanAllRows: the statement goes through the rows that are there now.
Begin(kind, where, change) ==
  /\ stmt = NoStmt
  /\ stmt' = [kind |-> kind, where |-> where, change |-> change,
              left |-> DOMAIN tree, count |-> 0]
  /\ scan' = tree
  /\ UNCHANGED <<pk, tree, next, reply>>

\* The rows come in the order of their keys.
NextKeys == {k \in stmt.left : \A j \in stmt.left : ~LexLess(j, k)}

\* evaluateBoolExpression: anything but a boolean is an error.
Condition(where, row) ==
  IF where = NoWhere THEN True ELSE Evaluate(where, row)

Holds(where, row) == Condition(where, row) = True

Undecided(where, row) == Type(Condition(where, row)) # "BOOL"

\* The new values are computed from the row as it was read.
NewValue(change, c, row) == Evaluate(change[c], row)

Assignable(change, row) ==
  \A c \in DOMAIN change : Coercible(NewValue(change, c, row), ColumnType[c])

\* A row gets the assigned values, under the columns it has and new ones.
With(change, read, row) ==
  [c \in DOMAIN row \cup DOMAIN change |->
     IF c \in DOMAIN change THEN Coerce(NewValue(change, c, read), ColumnType[c])
     ELSE row[c]]

Proceed(k, dealtWith) ==
  stmt' = [stmt EXCEPT !.left = @ \ {k},
                       !.count = IF dealtWith THEN @ + 1 ELSE @]

SkipRow ==
  \E k \in NextKeys :
    /\ Condition(stmt.where, scan[k]) = <<"BOOL", FALSE>>
    /\ Proceed(k, FALSE)
    /\ UNCHANGED <<pk, tree, next, scan, reply>>

\* The row is looked up by its position in the scan.
UpdateRowMutant ==
  /\ stmt.kind = "update"
  /\ \E k \in NextKeys :
       /\ Holds(stmt.where, scan[k]) /\ Assignable(stmt.change, scan[k])
       /\ LET first == CHOOSE j \in DOMAIN tree : \A i \in DOMAIN tree : ~LexLess(i, j)
          IN  tree' = [tree EXCEPT ![first] = With(stmt.change, scan[k], @)]
       /\ Proceed(k, TRUE)
  /\ UNCHANGED <<pk, next, scan, reply>>

UpdateRow ==
  /\ stmt.kind = "update"
  /\ \E k \in NextKeys :
       LET key == SerializeKey(KeyValue(scan[k]))
       IN  /\ Holds(stmt.where, scan[k]) /\ Assignable(stmt.change, scan[k])
           /\ key \in DOMAIN tree
           /\ tree' = [tree EXCEPT ![key] = With(stmt.change, scan[k], @)]
           /\ Proceed(k, TRUE)
  /\ UNCHANGED <<pk, next, scan, reply>>

\* A key that is not there is not counted, and is no error.
DeleteRow ==
  /\ stmt.kind = "delete"
  /\ \E k \in NextKeys :
       LET key == SerializeKey(KeyValue(scan[k]))
       IN  /\ Holds(stmt.where, scan[k])
           /\ tree' = [j \in DOMAIN tree \ {key} |-> tree[j]]
           /\ Proceed(k, key \in DOMAIN tree)
  /\ UNCHANGED <<pk, next, scan, reply>>

End(status, count) == stmt' = NoStmt /\ scan' = <<>> /\ Reply(status, count)

\* The first row with an error ends the statement; the rows before it stay
\* changed.
RowFails ==
  /\ stmt # NoStmt
  /\ \E k \in NextKeys :
       \/ Undecided(stmt.where, scan[k])
       \/ /\ stmt.kind = "update" /\ Holds(stmt.where, scan[k])
          /\ \/ ~Assignable(stmt.change, scan[k])
             \/ SerializeKey(KeyValue(scan[k])) \notin DOMAIN tree
  /\ End("error", 0)
  /\ UNCHANGED <<pk, tree, next>>

AllRowsDone ==
  /\ stmt # NoStmt /\ stmt.left = {}
  /\ End("ok", stmt.count)
  /\ UNCHANGED <<pk, tree, next>>

Allowed(change) == AssignsKey \/ pk \notin DOMAIN change

Next ==
  \/ \E given \in Inputs :
       InsertFails(given) \/ InsertWithKey(given) \/ InsertWithRowId(given)
  \/ \E where \in Wheres :
       \/ Begin("delete", where, NoChange)
       \/ \E change \in Changes :
            Allowed(change) /\ Begin("update", where, change)
  \/ stmt # NoStmt /\ (SkipRow \/ UpdateRow \/ DeleteRow)
  \/ RowFails \/ AllRowsDone

Spec == Init /\ [][Next]_vars

----------------------------------------------------------------------------
\* Properties

\* Whatever INSERTs and UPDATEs are given, a column holds NULL and values of
\* its type and nothing else, so that a comparison within a column never mixes
\* the order of numbers with that of texts.
RowsFitColumns == \A k \in DOMAIN tree : Fits(tree[k])

\* Every row is where UPDATE and DELETE look for it (executor.go:362, 406), and
\* so under a key of its own: no row is out of their reach, and no two rows
\* are one to them.  With an UPDATE of the primary key this is not so: see
\* PrimaryKeyUnique.
RowsUnderTheirKeys ==
  ~AssignsKey => \A k \in DOMAIN tree : SerializeKey(KeyValue(tree[k])) = k

\* A scan, which goes by the bytes of the keys, lists the rows by their primary
\* key or row id: numbers as numbers, not digit by digit (table.go:55).
ScansSorted ==
  ~AssignsKey =>
    \A j, k \in DOMAIN tree :
      LexLess(j, k) <=> ~AtMost(KeyValue(tree[k]), KeyValue(tree[j]))

\* The row that an INSERT has given, but for its row id.
Gives(given, row) == [c \in DOMAIN row \ {RowId} |-> row[c]] = Typed(given)

\* The UPDATE or DELETE in progress, as it was asked for.
Asked ==
  CASE stmt.kind = "none"   -> NoStmt
    [] stmt.kind = "delete" -> [kind |-> "delete", where |-> stmt.where]
    [] stmt.kind = "update" ->
         [kind |-> "update", where |-> stmt.where, change |-> stmt.change]

\* The table implements the set of rows of SqlTable.tla: a statement that deals
\* with one row after the other, by key, changes, removes and counts exactly the
\* rows that match its own WHERE, with its own assignments, and one with an error
\* deals only with such rows.
Sql == INSTANCE SqlTable WITH
  asked <- Asked,
  Identity <- LAMBDA key, row : SerializeKey(IF Cell(row, key) # Null
                                             THEN Cell(row, key)
                                             ELSE Cell(row, RowId)),
  Changed <- LAMBDA a, row : With(a, row, row),
  rows <- IF stmt = NoStmt THEN {tree[k] : k \in DOMAIN tree}
                           ELSE {scan[k] : k \in DOMAIN scan}

ImplementsSqlTable == Sql!Spec

\* README.md:69, "Supported constraints: PRIMARY KEY": no two rows have the
\* same primary key.
PrimaryKeyUnique ==
  stmt = NoStmt /\ pk # NoColumn =>
    \A j, k \in DOMAIN tree : tree[j][pk] = tree[k][pk] => j = k

=============================================================================
