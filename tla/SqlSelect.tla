------------------------------ MODULE SqlSelect ------------------------------
(***************************************************************************)
(* What a SELECT means, said of combinations of rows: a combination has a  *)
(* row of every table of the statement, by its number in the scan, or 0    *)
(* for the row of NULLs of a LEFT JOIN.  No row is merged with another:    *)
(* every column keeps the table it is of.                                  *)
(***************************************************************************)
EXTENDS Values, Ast, SequencesExt

CONSTANT ColumnsOf   \* each table's columns, in order

ColumnSet(t) == {ColumnsOf[t][n] : n \in DOMAIN ColumnsOf[t]}

\* The tables of the statement.
Scope(q) ==
  [n \in 1..(Len(q.joins) + 1) |-> IF n = 1 THEN q.table ELSE q.joins[n - 1].table]

\* The value of column c in row i of table t.
Value(db, t, i, c) ==
  IF i > 0 /\ c \in DOMAIN db[t][i] THEN db[t][i][c] ELSE Null

\* What the names of a statement mean in a combination x, of its first tables:
\* "t.c" is column c of t, and "c" that of the table which has it.
Meant(db, q, x) ==
  LET sources == {s \in (DOMAIN x) \X UNION {ColumnSet(Scope(q)[n]) : n \in DOMAIN x} :
                    s[2] \in ColumnSet(Scope(q)[s[1]])}
      Names(s) == {s[2], Dotted(Scope(q)[s[1]], s[2])}
  IN  [name \in UNION {Names(s) : s \in sources} |->
         LET s == CHOOSE s \in sources : name \in Names(s)
         IN  Value(db, Scope(q)[s[1]], x[s[1]], s[2])]

Matches(db, q, j, x) == Evaluate(q.joins[j].on, Meant(db, q, x))

Numbers(db, t) == 1..Len(db[t])

\* A combination of the first tables that their JOINs make: its rows match or,
\* in a LEFT JOIN, no row matches and the row of NULLs is there.
Combined(db, q, x) ==
  /\ x[1] \in Numbers(db, q.table)
  /\ \A j \in 1..(Len(x) - 1) :
       LET start == SubSeq(x, 1, j)
           t == q.joins[j].table
       IN  \/ /\ x[j + 1] \in Numbers(db, t)
              /\ Matches(db, q, j, SubSeq(x, 1, j + 1)) = True
           \/ /\ x[j + 1] = 0 /\ q.joins[j].type = "LEFT"
              /\ \A i \in Numbers(db, t) : Matches(db, q, j, Append(start, i)) # True

Combinations(db, q, len) ==
  {x \in [1..len -> {0} \cup UNION {Numbers(db, t) : t \in DOMAIN db}] : Combined(db, q, x)}

Filtered(db, q, x) ==
  IF q.where = NoWhere THEN True ELSE Evaluate(q.where, Meant(db, q, x))

\* A condition that is neither true nor false of what it is asked about.
Undecided(db, q) ==
  \/ \E j \in DOMAIN q.joins :
       \E x \in Combinations(db, q, j), i \in Numbers(db, q.joins[j].table) :
         Type(Matches(db, q, j, Append(x, i))) # "BOOL"
  \/ \E x \in Combinations(db, q, Len(q.joins) + 1) : Type(Filtered(db, q, x)) # "BOOL"

\* x comes before y: by the first column of ORDER BY in which they differ, and
\* if there is none as the scans have them.
Precedes(db, q, x, y) ==
  LET v(z, n) == Meant(db, q, z)[q.orderBy[n].column]
      same(n) == Same(v(x, n), v(y, n))
  IN  IF \A n \in DOMAIN q.orderBy : same(n) THEN LexLess(x, y)
      ELSE \E n \in DOMAIN q.orderBy :
             /\ ~same(n) /\ \A i \in 1..(n - 1) : same(i)
             /\ IF q.orderBy[n].desc THEN AtMost(v(y, n), v(x, n)) ELSE AtMost(v(x, n), v(y, n))

\* The names of the columns that are shown, as "t.c".
Shown(q) ==
  IF \E n \in DOMAIN q.columns : q.columns[n].expr.op = "*"
  THEN LET Of(t) == [i \in DOMAIN ColumnsOf[t] |-> Dotted(t, ColumnsOf[t][i])]
       IN  FlattenSeq([n \in DOMAIN Scope(q) |-> Of(Scope(q)[n])])
  ELSE [n \in DOMAIN q.columns |->
          LET e == q.columns[n].expr
          IN  IF e.table = <<>> THEN e.name ELSE Dotted(e.table, e.name)]

\* The answer.
Meaning(db, q) ==
  IF Undecided(db, q) THEN [status |-> "error", rows |-> <<>>]
  ELSE LET all == {x \in Combinations(db, q, Len(q.joins) + 1) : Filtered(db, q, x) = True}
           number(x) == Cardinality({y \in all : Precedes(db, q, y, x)}) + 1
           size == IF q.limit \in 0..Cardinality(all) THEN q.limit ELSE Cardinality(all)
       IN  [status |-> "ok",
            rows |-> [n \in 1..size |->
                        LET x == CHOOSE x \in all : number(x) = n
                        IN  [i \in DOMAIN Shown(q) |-> Meant(db, q, x)[Shown(q)[i]]]]]

----------------------------------------------------------------------------
\* The statements whose names say of which table they are.

\* The column references of an expression.
Refs(expr) ==
  LET of[e \in Exprs] ==
        CASE e.op = "column" -> {<<e.table, e.name>>}
          [] e.op \in {"literal", "*"} -> {}
          [] OTHER -> of[e.left] \cup of[e.right]
  IN  of[expr]

Shared(q, c) ==
  Cardinality({n \in DOMAIN Scope(q) : c \in ColumnSet(Scope(q)[n])}) > 1

Complete(db, t, c) == \A i \in Numbers(db, t) : c \in DOMAIN db[t][i]

\* A reference among the first tables up to last: a plain column of one table
\* only, or a column with its table.  The latter may be one that several tables
\* have, but then every row must have it, and a JOIN before the last must not
\* have brought it too (see LeftJoinKeepsRows in Query.tla).
ClearRef(db, q, last, table, name) ==
  \E n \in 1..last :
    LET t == Scope(q)[n]
    IN  /\ name \in ColumnSet(t) /\ table \in {<<>>, t}
        /\ Shared(q, name) =>
             /\ table = t /\ Complete(db, t, name)
             /\ n = 1 => \A m \in 2..(last - 1) : name \notin ColumnSet(Scope(q)[m])

ClearExpr(db, q, last, e) == \A r \in Refs(e) : ClearRef(db, q, last, r[1], r[2])

\* Columns: "*" with no shared name among those of the first table, a plain
\* column without alias, or in a join one with its table.
ClearColumn(db, q, col) ==
  IF col.expr.op = "*" THEN \A c \in ColumnSet(q.table) : ~Shared(q, c)
  ELSE /\ ClearRef(db, q, Len(Scope(q)), col.expr.table, col.expr.name)
       /\ IF col.expr.table = <<>> THEN col.alias = <<>> ELSE q.joins # <<>>

Clear(db, q) ==
  /\ \A n \in DOMAIN Scope(q) :
       Scope(q)[n] \in DOMAIN db /\ \A m \in 1..(n - 1) : Scope(q)[m] # Scope(q)[n]
  /\ \A j \in DOMAIN q.joins :
       q.joins[j].type \in {"INNER", "LEFT"} /\ ClearExpr(db, q, j + 1, q.joins[j].on)
  /\ q.where # NoWhere => ClearExpr(db, q, Len(Scope(q)), q.where)
  /\ \A n \in DOMAIN q.orderBy : ClearRef(db, q, Len(Scope(q)), <<>>, q.orderBy[n].column)
  /\ \A n \in DOMAIN q.columns : ClearColumn(db, q, q.columns[n])

=============================================================================
