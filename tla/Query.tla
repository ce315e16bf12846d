------------------------------- MODULE Query --------------------------------
(***************************************************************************)
(* SELECT as executeSelect of engine/executor.go computes it: nested loops *)
(* over the rows of the joined tables, which are merged into one map from  *)
(* names to values, then WHERE, ORDER BY, LIMIT and the columns.           *)
(*                                                                         *)
(* Abstracted: the order in which Go goes through a map is not determined; *)
(* it matters where two writes of one name meet.  Tables are given as the  *)
(* rows a scan returns, and do not change while a SELECT runs.             *)
(*                                                                         *)
(* An operator whose name ends in Mutant is the definition after it with a *)
(* plausible bug; it is used only to see that the properties can fail.     *)
(***************************************************************************)
EXTENDS SqlSelect

CONSTANTS
  Databases,   \* contents: tables to what a scan of each returns
  Queries      \* SELECT statements as the parser returns them

IsList(s) == s \in Seq(Range(s))

\* Names are words of the lexer, which have no dot.
IsName(s) == IsList(s) /\ s # <<>> /\ "." \notin Range(s)

ASSUME NamesAssumption ==
  \A t \in DOMAIN ColumnsOf :
    IsName(t) /\ IsList(ColumnsOf[t]) /\ \A c \in ColumnSet(t) : IsName(c)

\* The rows of a table: columns, some of them with their values, and perhaps the
\* hidden "_rowid", which no table has as a column.
RowFits(row, t) ==
  /\ row \in [DOMAIN row -> Values]
  /\ \A c \in DOMAIN row :
       IsName(c) /\ (c \in ColumnSet(t) \/ \A u \in DOMAIN ColumnsOf : c \notin ColumnSet(u))

\* A column has values of one type (RowsFitColumns in Table.tla).
ASSUME DatabasesAssumption ==
  \A db \in Databases : \A t \in DOMAIN db :
    /\ t \in DOMAIN ColumnsOf /\ IsList(db[t])
    /\ \A i \in DOMAIN db[t] : RowFits(db[t][i], t)
    /\ \A c \in ColumnSet(t) : \E type \in {"INT", "TEXT", "BOOL"} :
         \A i \in DOMAIN db[t] : c \in DOMAIN db[t][i] => Type(db[t][i][c]) \in {type, "NULL"}

QueryFits(q) ==
  /\ q.kind = "SELECT" /\ q.limit \in Int
  /\ IsList(q.joins) /\ IsList(q.orderBy) /\ IsList(q.columns)
  /\ \A j \in DOMAIN q.joins : q.joins[j].on \in Exprs
  /\ q.where # NoWhere => q.where \in Exprs

ASSUME QueriesAssumption == \A q \in Queries : QueryFits(q)

VARIABLES
  tables,      \* what is in the database
  query,       \* the SELECT in progress, or the last one
  phase,       \* what it does next
  rows,        \* its rows so far
  joined,      \* the rows of the join in progress
  place,       \* how far that is: the join, its left and its right row
  answer       \* of the last SELECT

queryVars == <<tables, query, phase, rows, joined, place, answer>>

Start == [join |-> 1, left |-> 1, right |-> 1]
NoAnswer == [status |-> "none", rows |-> <<>>]

Init ==
  /\ tables \in Databases
  /\ query = [kind |-> "none"]
  /\ phase = "idle"
  /\ rows = <<>> /\ joined = <<>>
  /\ place = Start
  /\ answer = NoAnswer

End(ans) ==
  /\ phase' = "idle" /\ answer' = ans
  /\ rows' = <<>> /\ joined' = <<>> /\ place' = Start

Fail == End([status |-> "error", rows |-> <<>>])

\* FROM: the rows of the first table, in the order of their keys.
Begin(q) ==
  /\ phase = "idle"
  /\ query' = q
  /\ IF q.table \notin DOMAIN tables THEN Fail
     ELSE /\ rows' = tables[q.table] /\ joined' = <<>>
          /\ place' = Start
          /\ phase' = "join"
          /\ answer' = NoAnswer
  /\ UNCHANGED tables

----------------------------------------------------------------------------
\* JOIN

Cell(row, col) == IF col \in DOMAIN row THEN row[col] ELSE Null

\* The row with every name k also as t.k.  Where the row itself has a name t.k,
\* from an earlier join, the later of two writes stays, and which one that is
\* depends on the order of the map: k, for the names in last, or t.k.
Prefixed(row, t, last) ==
  [name \in DOMAIN row \cup {Dotted(t, k) : k \in DOMAIN row} |->
     LET short == {k \in DOMAIN row : Dotted(t, k) = name}
         wins == {k \in short : name \notin DOMAIN row \/ k \in last}
     IN  IF wins = {} THEN row[name] ELSE row[CHOOSE k \in wins : TRUE]]

WrittenTwice(row, t) == {k \in DOMAIN row : Dotted(t, k) \in DOMAIN row}

\* The names of the second row replace those of the first.
Over(first, second) ==
  [name \in DOMAIN first \cup DOMAIN second |->
     IF name \in DOMAIN second THEN second[name] ELSE first[name]]

\* The rows that a left and a right row can be merged into.
Merges(left, t, right) ==
  {Over(Prefixed(left, query.table, last), Prefixed(right, t, {})) :
     last \in SUBSET WrittenTwice(left, query.table)}

\* A right row of NULLs, with all columns of the table.
Nulls(t) == [c \in ColumnSet(t) |-> Null]

Join == query.joins[place.join]
Joining == phase = "join" /\ place.join <= Len(query.joins)
LeftRow == rows[place.left]

JoinTableMissing ==
  /\ Joining /\ Join.table \notin DOMAIN tables
  /\ Fail
  /\ UNCHANGED <<tables, query>>

\* One turn of the inner loop.
JoinPair ==
  /\ Joining /\ Join.table \in DOMAIN tables
  /\ place.left <= Len(rows) /\ place.right <= Len(tables[Join.table])
  /\ \E merged \in Merges(LeftRow, Join.table, tables[Join.table][place.right]) :
       LET match == Evaluate(Join.on, merged)
       IN  IF Type(match) # "BOOL" THEN Fail
           ELSE /\ joined' = IF match = True THEN Append(joined, merged) ELSE joined
                /\ place' = [place EXCEPT !.right = @ + 1]
                /\ UNCHANGED <<phase, rows, answer>>
  /\ UNCHANGED <<tables, query>>

\* hasMatchInJoin evaluates the condition again, on rows merged again; an error
\* is no match.
CanMatch(left, t, i) ==
  \E merged \in Merges(left, t, tables[t][i]) : Evaluate(Join.on, merged) = True

MustMatch(left, t, i) ==
  \A merged \in Merges(left, t, tables[t][i]) : Evaluate(Join.on, merged) = True

HasMatchInJoin(left, t) ==
  {found \in BOOLEAN :
     IF found THEN \E i \in DOMAIN tables[t] : CanMatch(left, t, i)
     ELSE \A i \in DOMAIN tables[t] : ~MustMatch(left, t, i)}

\* The last right row decides.
LeftRowDoneMutant ==
  /\ Joining /\ Join.table \in DOMAIN tables
  /\ place.left <= Len(rows) /\ place.right > Len(tables[Join.table])
  /\ \E merged \in Merges(LeftRow, Join.table, Nulls(Join.table)) :
       joined' = IF /\ Join.type = "LEFT"
                    /\ \/ tables[Join.table] = <<>>
                       \/ ~CanMatch(LeftRow, Join.table, Len(tables[Join.table]))
                 THEN Append(joined, merged) ELSE joined
  /\ place' = [place EXCEPT !.left = @ + 1, !.right = 1]
  /\ UNCHANGED <<tables, query, phase, rows, answer>>

\* The end of the inner loop.
LeftRowDone ==
  /\ Joining /\ Join.table \in DOMAIN tables
  /\ place.left <= Len(rows) /\ place.right > Len(tables[Join.table])
  /\ \E found \in HasMatchInJoin(LeftRow, Join.table),
        merged \in Merges(LeftRow, Join.table, Nulls(Join.table)) :
       joined' = IF Join.type = "LEFT" /\ ~found THEN Append(joined, merged) ELSE joined
  /\ place' = [place EXCEPT !.left = @ + 1, !.right = 1]
  /\ UNCHANGED <<tables, query, phase, rows, answer>>

\* The end of the outer loop: on to the next JOIN.
JoinDone ==
  /\ Joining /\ Join.table \in DOMAIN tables
  /\ place.left > Len(rows)
  /\ rows' = joined /\ joined' = <<>>
  /\ place' = [join |-> place.join + 1, left |-> 1, right |-> 1]
  /\ UNCHANGED <<tables, query, phase, answer>>

----------------------------------------------------------------------------
\* WHERE, ORDER BY, LIMIT and the columns

Condition(row) == IF query.where = NoWhere THEN True ELSE Evaluate(query.where, row)

Filter ==
  /\ phase = "join" /\ place.join > Len(query.joins)
  /\ IF \E n \in DOMAIN rows : Type(Condition(rows[n])) # "BOOL" THEN Fail
     ELSE /\ rows' = FlattenSeq([n \in DOMAIN rows |->
                       IF Condition(rows[n]) = True THEN <<rows[n]>> ELSE <<>>])
          /\ phase' = "show"
          /\ UNCHANGED <<joined, place, answer>>
  /\ UNCHANGED <<tables, query>>

\* The comparison of sort.SliceStable: by the first column in which the rows
\* differ.
Less(orderBy, a, b) ==
  \E n \in DOMAIN orderBy :
    LET v(row, i) == Cell(row, orderBy[i].column)
    IN  /\ \A i \in 1..(n - 1) : Same(v(a, i), v(b, i))
        /\ IF orderBy[n].desc THEN ~AtMost(v(a, n), v(b, n)) ELSE ~AtMost(v(b, n), v(a, n))

\* The stable sort: each row after those that are less, and after those before
\* it that are equal.  The comparison is an order, since the values of a column
\* have one type.
Sorted(orderBy, s) ==
  LET before(i, j) == Less(orderBy, s[i], s[j]) \/ (i < j /\ ~Less(orderBy, s[j], s[i]))
  IN  [n \in DOMAIN s |->
         s[CHOOSE i \in DOMAIN s : Cardinality({j \in DOMAIN s : before(j, i)}) = n - 1]]

Limited(limit, s) == IF limit >= 0 /\ limit < Len(s) THEN SubSeq(s, 1, limit) ELSE s

IsStar(col) == col.expr.op = "*"

\* The names under which the columns of the answer are looked up in a row: for
\* "*" the columns of the first table and the qualified ones of the others, and
\* else the alias, if there is one.
OutputColumns(q) ==
  IF \E n \in DOMAIN q.columns : IsStar(q.columns[n])
  THEN LET Of(n) == LET t == Scope(q)[n]
                    IN  [i \in DOMAIN ColumnsOf[t] |->
                           IF n = 1 THEN ColumnsOf[t][i] ELSE Dotted(t, ColumnsOf[t][i])]
       IN  FlattenSeq([n \in DOMAIN Scope(q) |-> Of(n)])
  ELSE [n \in DOMAIN q.columns |->
          LET col == q.columns[n]
          IN  IF col.expr.table # <<>> THEN Dotted(col.expr.table, col.expr.name)
              ELSE IF col.alias # <<>> THEN col.alias
              ELSE col.expr.name]

\* FormatTable: the cells it prints.
Cells(q, row) == [n \in DOMAIN OutputColumns(q) |-> Cell(row, OutputColumns(q)[n])]

\* LIMIT comes before ORDER BY.
ShowMutant ==
  /\ phase = "show"
  /\ \E shown \in {Sorted(query.orderBy, Limited(query.limit, rows))} :
       End([status |-> "ok", rows |-> [n \in DOMAIN shown |-> Cells(query, shown[n])]])
  /\ UNCHANGED <<tables, query>>

Show ==
  /\ phase = "show"
  /\ \E shown \in {Limited(query.limit, Sorted(query.orderBy, rows))} :
       End([status |-> "ok", rows |-> [n \in DOMAIN shown |-> Cells(query, shown[n])]])
  /\ UNCHANGED <<tables, query>>

Step == JoinTableMissing \/ JoinPair \/ LeftRowDone \/ JoinDone \/ Filter \/ Show

Next == (\E q \in Queries : Begin(q)) \/ Step

Spec == Init /\ [][Next]_queryVars

----------------------------------------------------------------------------
\* Properties

\* A SELECT whose names are clear is answered as it is meant: the rows that the
\* JOINs and WHERE select and no others, each as often as it is selected, in the
\* order of ORDER BY and otherwise of the scans, up to LIMIT; and it fails if a
\* condition is neither true nor false.
SelectMeansSql ==
  query.kind = "SELECT" /\ phase = "idle" /\ Clear(tables, query)
    => answer = Meaning(tables, query)

\* Rows are told apart and have a value, as they are and do by a primary key that is
\* not NULL.
RowsTold ==
  \A db \in Databases : \A t \in DOMAIN db : \A i \in DOMAIN db[t] :
    /\ \A j \in DOMAIN db[t] :
         j # i => \E c \in DOMAIN db[t][i] : Cell(db[t][j], c) # db[t][i][c]
    /\ \E c \in ColumnSet(t) : Cell(db[t][i], c) # Null

\* A LEFT JOIN with another table keeps every left row, with all its values under
\* its qualified names, whatever names the tables share, whatever columns their
\* rows lack and whatever the condition is: either with its matches or with
\* NULLs, and never with both (executor.go:216).
LeftRowsKept ==
  phase = "join" /\ place.join = 2 /\ Len(query.joins) = 1
    /\ query.joins[1].type = "LEFT" /\ query.joins[1].table # query.table
  => LET t == query.joins[1].table
     IN  \A i \in DOMAIN tables[query.table] :
           LET left == tables[query.table][i]
               of == {n \in DOMAIN rows :
                        \A c \in DOMAIN left : Cell(rows[n], Dotted(query.table, c)) = left[c]}
               alone == {n \in of :
                           \A c \in ColumnSet(t) : Cell(rows[n], Dotted(t, c)) = Null}
           IN  of # {} /\ (alone # {} => Cardinality(of) = 1)

\* README.md:133, "Left join (keeps all rows from the left table)": a SELECT with
\* LEFT JOINs only, and with nothing that takes rows away, shows at least as many
\* rows as its first table has.
LeftJoinKeepsRows ==
  answer.status = "ok" /\ query.where = NoWhere /\ query.limit = -1
    /\ (\A j \in DOMAIN query.joins : query.joins[j].type = "LEFT")
  => Len(answer.rows) >= Len(tables[query.table])

=============================================================================
