------------------------------- MODULE Parser -------------------------------
(***************************************************************************)
(* The recursive descent parser of parser/parser.go, as functions of the   *)
(* tokens and of the position of the current one.  What is parsed is a     *)
(* record of its node and of the next position, which is 0 after an error; *)
(* no rule goes on from there.                                             *)
(*                                                                         *)
(* An operator whose name ends in Mutant is the definition after it with a *)
(* plausible bug; it is used only to see that the properties can fail.     *)
(***************************************************************************)
EXTENDS Ast, Lexer, SequencesExt

CONSTANT MaxInt   \* the largest integer that strconv reads

ASSUME ParserAssumption == MaxInt \in Nat

Node(next, node) == [next |-> next, node |-> node]
SyntaxError == Node(0, "none")

\* The type of the current token, or of the one that peek returns.
TypeAt(ts, i) == IF i = 0 THEN "none" ELSE IF i <= Len(ts) THEN ts[i].type ELSE "EOF"

\* expect, for each of these types in turn.
Expect(ts, i, types) ==
  IF i # 0 /\ \A n \in DOMAIN types : TypeAt(ts, i + n - 1) = types[n]
  THEN i + Len(types) ELSE 0

Optional(ts, i, type) == IF TypeAt(ts, i) = type THEN i + 1 ELSE i

ParseName(ts, i) == IF TypeAt(ts, i) = "IDENT" THEN Node(i + 1, ts[i].literal) ELSE SyntaxError

Prepended(first, rest) == Node(rest.next, <<first.node>> \o rest.node)

\* The comma pattern: items with tokens of this type between them.
SepList(ts, i, sep, Item(_)) ==
  LET list[j \in 0..Len(ts)] ==
        LET From(first) == IF TypeAt(ts, first.next) = sep THEN Prepended(first, list[first.next + 1])
                           ELSE Node(first.next, <<first.node>>)
        IN  From(Item(j))
  IN  list[i]

----------------------------------------------------------------------------
\* Expressions

Number(literal) ==
  LET Digit(d) == (CHOOSE i \in DOMAIN Numerals : Numerals[i] = d) - 1
  IN  FoldLeft(LAMBDA n, d : (10 * n) + Digit(d), 0, literal)

\* Operators of one level group to the right.
LeftAssociativeMutant(op, operands) ==
  FoldRight(LAMBDA left, right : BinaryExpr(left, op, right), Front(operands), Last(operands))

LeftAssociative(op, operands) ==
  FoldLeft(LAMBDA left, right : BinaryExpr(left, op, right), Head(operands), Tail(operands))

Comparisons == {"=", "!=", "<", ">", "<=", ">="}

\* One level of precedence calls the next: OR, AND, comparison, primary.  A name
\* without a table is folded to lower case, one with its table is not.
Parsed(level, ts, i) ==
  LET parse[l \in {"OR", "AND", "comparison", "primary"}, j \in 0..Len(ts)] ==
    CASE l \in {"OR", "AND"} ->
           LET operands ==
                 SepList(ts, j, l, LAMBDA k : parse[IF l = "OR" THEN "AND" ELSE "comparison", k])
           IN  Node(operands.next, LeftAssociative(l, operands.node))
      [] l = "comparison" ->
           LET left == parse["primary", j]
               op == TypeAt(ts, left.next)
               right == parse["primary", left.next + 1]
           IN  IF op \notin Comparisons THEN left
               ELSE Node(right.next, BinaryExpr(left.node, op, right.node))
      [] OTHER ->
           LET type == TypeAt(ts, j)
               inner == parse["OR", j + 1]
               column == ParseName(ts, Expect(ts, j, <<"IDENT", ".">>))
           IN  CASE type = "INT_LIT" /\ Number(ts[j].literal) <= MaxInt ->
                      Node(j + 1, Literal(<<"INT", Number(ts[j].literal)>>))
                 [] type = "STRING_LIT" -> Node(j + 1, Literal(<<"TEXT", ts[j].literal>>))
                 [] type \in {"TRUE", "FALSE"} ->
                      Node(j + 1, Literal(<<"BOOL", type = "TRUE">>))
                 [] type = "NULL" -> Node(j + 1, Literal(<<"NULL">>))
                 [] type = "IDENT" /\ TypeAt(ts, j + 1) = "." ->
                      Node(column.next, ColumnExpr(ts[j].literal, column.node))
                 [] type = "IDENT" /\ TypeAt(ts, j + 1) # "." ->
                      Node(j + 1, ColumnExpr(<<>>, ToLower(ts[j].literal)))
                 [] type = "(" -> Node(Expect(ts, inner.next, <<")">>), inner.node)
                 [] type = "*" -> Node(j + 1, StarExpr)
                 [] OTHER -> SyntaxError
  IN  parse[level, i]

ParseExpression(ts, i) == Parsed("OR", ts, i)
ParsePrimaryExpression(ts, i) == Parsed("primary", ts, i)

OptionalWhere(ts, i) ==
  IF TypeAt(ts, i) = "WHERE" THEN ParseExpression(ts, i + 1) ELSE Node(i, NoWhere)

----------------------------------------------------------------------------
\* SELECT

\* The table of "t.*" is dropped: StarExpr has none.
ParseSelectColumn(ts, i) ==
  LET name == ParseName(ts, i)
      column == ParseName(ts, Expect(ts, i, <<"IDENT", ".">>))
      expr == CASE TypeAt(ts, i) = "*" -> Node(i + 1, StarExpr)
                [] TypeAt(ts, i) # "*" /\ TypeAt(ts, name.next) # "." ->
                     Node(name.next, ColumnExpr(<<>>, name.node))
                [] TypeAt(ts, name.next) = "." /\ TypeAt(ts, name.next + 1) = "*" ->
                     Node(i + 3, StarExpr)
                [] OTHER -> Node(column.next, ColumnExpr(name.node, column.node))
      alias == ParseName(ts, expr.next + 1)
  IN  IF TypeAt(ts, expr.next) = "AS"
      THEN Node(alias.next, SelectColumn(expr.node, alias.node))
      ELSE Node(expr.next, SelectColumn(expr.node, <<>>))

\* A join without ON is one with all the rows.
ParseJoinMutant(ts, i) ==
  LET type == TypeAt(ts, i)
      table == ParseName(ts, Expect(ts, IF type = "JOIN" THEN i ELSE i + 1, <<"JOIN">>))
      on == IF TypeAt(ts, table.next) # "ON" THEN Node(table.next, NoWhere)
            ELSE ParseExpression(ts, table.next + 1)
  IN  Node(on.next, JoinClause(IF type = "JOIN" THEN "INNER" ELSE type, table.node, on.node))

ParseJoin(ts, i) ==
  LET type == TypeAt(ts, i)
      table == ParseName(ts, Expect(ts, IF type = "JOIN" THEN i ELSE i + 1, <<"JOIN">>))
      on == ParseExpression(ts, Expect(ts, table.next, <<"ON">>))
  IN  Node(on.next, JoinClause(IF type = "JOIN" THEN "INNER" ELSE type, table.node, on.node))

ParseJoins(ts, i) ==
  LET joins[j \in 0..Len(ts)] ==
        IF TypeAt(ts, j) \notin {"INNER", "LEFT", "RIGHT", "JOIN"} THEN Node(j, <<>>)
        ELSE LET From(first) == Prepended(first, joins[first.next])
             IN  From(ParseJoin(ts, j))
  IN  joins[i]

ParseOrderBy(ts, i) ==
  LET Clause(j) ==
        LET name == ParseName(ts, j)
            desc == TypeAt(ts, name.next) = "DESC"
        IN  Node(IF desc THEN name.next + 1 ELSE Optional(ts, name.next, "ASC"),
                 OrderByClause(name.node, desc))
  IN  IF TypeAt(ts, i) = "ORDER"
      THEN SepList(ts, Expect(ts, i, <<"ORDER", "BY">>), ",", Clause)
      ELSE Node(i, <<>>)

\* LIMIT 0 is no LIMIT.
ParseLimitMutant(ts, i) ==
  IF TypeAt(ts, i) # "LIMIT" THEN Node(i, -1)
  ELSE IF TypeAt(ts, i + 1) = "INT_LIT" /\ Number(ts[i + 1].literal) <= MaxInt
       THEN Node(i + 2, IF Number(ts[i + 1].literal) = 0 THEN -1 ELSE Number(ts[i + 1].literal))
  ELSE SyntaxError

ParseLimit(ts, i) ==
  IF TypeAt(ts, i) # "LIMIT" THEN Node(i, -1)
  ELSE IF TypeAt(ts, i + 1) = "INT_LIT" /\ Number(ts[i + 1].literal) <= MaxInt
       THEN Node(i + 2, Number(ts[i + 1].literal))
  ELSE SyntaxError

ParseSelect(ts) ==
  LET columns == SepList(ts, Expect(ts, 1, <<"SELECT">>), ",", LAMBDA j : ParseSelectColumn(ts, j))
      table == ParseName(ts, Expect(ts, columns.next, <<"FROM">>))
      joins == ParseJoins(ts, table.next)
      where == OptionalWhere(ts, joins.next)
      orderBy == ParseOrderBy(ts, where.next)
      limit == ParseLimit(ts, orderBy.next)
  IN  Node(limit.next, SelectStmt(columns.node, table.node, joins.node, where.node,
                                  orderBy.node, limit.node))

----------------------------------------------------------------------------
\* The other statements

\* A "(" opens the list of columns if a name follows it.
ParseInsert(ts) ==
  LET table == ParseName(ts, Expect(ts, 1, <<"INSERT", "INTO">>))
      names == SepList(ts, table.next + 1, ",", LAMBDA j : ParseName(ts, j))
      columns == IF Expect(ts, table.next, <<"(", "IDENT">>) = 0 THEN Node(table.next, <<>>)
                 ELSE Node(Expect(ts, names.next, <<")">>), names.node)
      values == SepList(ts, Expect(ts, columns.next, <<"VALUES", "(">>), ",",
                        LAMBDA j : ParsePrimaryExpression(ts, j))
  IN  Node(Expect(ts, values.next, <<")">>), InsertStmt(table.node, columns.node, values.node))

ParseColumnDef(ts, i) ==
  LET name == ParseName(ts, i)
      type == TypeAt(ts, name.next)
      modified[j \in 0..Len(ts), isKey \in BOOLEAN, notNull \in BOOLEAN] ==
        CASE TypeAt(ts, j) = "PRIMARY" -> modified[Expect(ts, j, <<"PRIMARY", "KEY">>), TRUE, notNull]
          [] TypeAt(ts, j) = "NOT" -> modified[Expect(ts, j, <<"NOT", "NULL">>), isKey, TRUE]
          [] OTHER -> Node(j, ColumnDef(name.node, type, isKey, notNull))
  IN  IF type \in {"INT", "TEXT", "BOOL"} THEN modified[name.next + 1, FALSE, FALSE]
      ELSE SyntaxError

\* PRIMARY KEY(c) replaces the key so far; a column that says PRIMARY KEY is the
\* key if there is none.
ParseCreate(ts) ==
  LET table == ParseName(ts, Expect(ts, 1, <<"CREATE", "TABLE">>))
      Entry(j) ==
        LET key == ParseName(ts, Expect(ts, j, <<"PRIMARY", "KEY", "(">>))
            column == ParseColumnDef(ts, j)
        IN  IF TypeAt(ts, j) = "PRIMARY"
            THEN Node(Expect(ts, key.next, <<")">>), [column |-> <<>>, key |-> key.node])
            ELSE Node(column.next, [column |-> <<column.node>>, key |-> <<>>])
      entries == SepList(ts, Expect(ts, table.next, <<"(">>), ",", Entry)
      columns == FlattenSeq([n \in DOMAIN entries.node |-> entries.node[n].column])
      KeyAfter(key, entry) ==
        IF entry.column = <<>> THEN entry.key
        ELSE IF key = <<>> /\ entry.column[1].isKey THEN entry.column[1].name
        ELSE key
  IN  IF entries.next = 0 THEN SyntaxError
      ELSE Node(Expect(ts, entries.next, <<")">>),
                CreateTableStmt(table.node, columns, FoldLeft(KeyAfter, <<>>, entries.node)))

ParseUpdate(ts) ==
  LET table == ParseName(ts, Expect(ts, 1, <<"UPDATE">>))
      Assigned(j) ==
        LET column == ParseName(ts, j)
            value == ParsePrimaryExpression(ts, Expect(ts, column.next, <<"=">>))
        IN  Node(value.next, Assignment(column.node, value.node))
      assignments == SepList(ts, Expect(ts, table.next, <<"SET">>), ",", Assigned)
      where == OptionalWhere(ts, assignments.next)
  IN  Node(where.next, UpdateStmt(table.node, assignments.node, where.node))

ParseDelete(ts) ==
  LET table == ParseName(ts, Expect(ts, 1, <<"DELETE", "FROM">>))
      where == OptionalWhere(ts, table.next)
  IN  Node(where.next, DeleteStmt(table.node, where.node))

ParseDrop(ts) ==
  LET table == ParseName(ts, Expect(ts, 1, <<"DROP", "TABLE">>))
  IN  Node(table.next, DropTableStmt(table.node))

\* The statement that the tokens begin with, and an optional ";".  What comes
\* after it is not looked at.
Parse(ts) ==
  LET type == TypeAt(ts, 1)
      Ended(stmt) == Node(Optional(ts, stmt.next, ";"), stmt.node)
  IN  Ended(CASE type = "SELECT" -> ParseSelect(ts)
              [] type = "INSERT" -> ParseInsert(ts)
              [] type = "CREATE" -> ParseCreate(ts)
              [] type = "UPDATE" -> ParseUpdate(ts)
              [] type = "DELETE" -> ParseDelete(ts)
              [] type = "DROP" -> ParseDrop(ts)
              [] OTHER -> SyntaxError)

=============================================================================
