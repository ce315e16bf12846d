------------------------------ MODULE SqlText -------------------------------
(***************************************************************************)
(* How a statement is written: the reference for the lexer and the parser. *)
(* Parentheses are there only where the precedence of the operators needs  *)
(* them, and words that may be left out are left out.                      *)
(***************************************************************************)
EXTENDS Values, Ast, Lexer, SequencesExt

Word(type) ==
  Token(type, CASE type = "<=" -> <<"<", "=">>
                [] type = ">=" -> <<">", "=">>
                [] type = "!=" -> <<"!", "=">>
                [] OTHER -> <<type>>)
Words(types) == [n \in DOMAIN types |-> Word(types[n])]
Ident(name) == <<Token("IDENT", name)>>
Whole(n) == <<Token("INT_LIT", IntText[n])>>

\* Lists of tokens with a comma between each two.
Commas(lists) ==
  FoldLeft(LAMBDA all, list : all \o Words(<<",">>) \o list, Head(lists), Tail(lists))

Qualified(table, name) ==
  IF table = <<>> THEN Ident(name) ELSE Ident(table) \o Words(<<".">>) \o Ident(name)

\* How tightly an expression holds together.
Tightness(e) ==
  CASE e.op = "OR" -> 1
    [] e.op = "AND" -> 2
    [] e.op \in {"literal", "column", "*"} -> 4
    [] OTHER -> 3

\* The left part of OR and AND may be the same operator, the right one may not; the
\* parts of a comparison are not operators.
SpellExpr(expr) ==
  LET spell[e \in Exprs] ==
        LET Part(p, least) ==
              IF Tightness(p) < least THEN Words(<<"(">>) \o spell[p] \o Words(<<")">>)
              ELSE spell[p]
        IN  CASE e.op = "column" -> Qualified(e.table, e.name)
              [] e.op = "*" -> Words(<<"*">>)
              [] e.op = "literal" ->
                   CASE Type(e.value) = "INT" -> Whole(e.value[2])
                     [] Type(e.value) = "TEXT" -> <<Token("STRING_LIT", e.value[2])>>
                     [] Type(e.value) = "BOOL" -> Words(<<IF e.value[2] THEN "TRUE" ELSE "FALSE">>)
                     [] OTHER -> Words(<<"NULL">>)
              [] OTHER -> LET n == Tightness(e)
                          IN  Part(e.left, IF n = 3 THEN 4 ELSE n) \o Words(<<e.op>>)
                                \o Part(e.right, n + 1)
  IN  spell[expr]

\* An expression as a value of INSERT or UPDATE.
SpellValue(e) ==
  IF Tightness(e) = 4 THEN SpellExpr(e) ELSE Words(<<"(">>) \o SpellExpr(e) \o Words(<<")">>)

SpellWhere(where) == IF where = NoWhere THEN <<>> ELSE Words(<<"WHERE">>) \o SpellExpr(where)

SpellSelect(s) ==
  LET column(n) == SpellExpr(s.columns[n].expr)
                     \o (IF s.columns[n].alias = <<>> THEN <<>>
                         ELSE Words(<<"AS">>) \o Ident(s.columns[n].alias))
      join(n) == Words(IF s.joins[n].type = "INNER" THEN <<"JOIN">> ELSE <<s.joins[n].type, "JOIN">>)
                   \o Ident(s.joins[n].table) \o Words(<<"ON">>) \o SpellExpr(s.joins[n].on)
      by(n) == Ident(s.orderBy[n].column) \o (IF s.orderBy[n].desc THEN Words(<<"DESC">>) ELSE <<>>)
  IN  Words(<<"SELECT">>) \o Commas([n \in DOMAIN s.columns |-> column(n)])
        \o Words(<<"FROM">>) \o Ident(s.table)
        \o FlattenSeq([n \in DOMAIN s.joins |-> join(n)]) \o SpellWhere(s.where)
        \o (IF s.orderBy = <<>> THEN <<>>
            ELSE Words(<<"ORDER", "BY">>) \o Commas([n \in DOMAIN s.orderBy |-> by(n)]))
        \o (IF s.limit = -1 THEN <<>> ELSE Words(<<"LIMIT">>) \o Whole(s.limit))

SpellInsert(s) ==
  Words(<<"INSERT", "INTO">>) \o Ident(s.table)
    \o (IF s.columns = <<>> THEN <<>>
        ELSE Words(<<"(">>) \o Commas([n \in DOMAIN s.columns |-> Ident(s.columns[n])])
               \o Words(<<")">>))
    \o Words(<<"VALUES", "(">>) \o Commas([n \in DOMAIN s.values |-> SpellValue(s.values[n])])
    \o Words(<<")">>)

\* The key is said after the columns unless it is the first of those that say so.
SpellCreate(s) ==
  LET column(c) == Ident(c.name) \o Words(<<c.type>>)
                     \o Words(IF c.isKey THEN <<"PRIMARY", "KEY">> ELSE <<>>)
                     \o Words(IF c.notNull THEN <<"NOT", "NULL">> ELSE <<>>)
      keys == SelectSeq(s.columns, LAMBDA c : c.isKey)
      said == IF keys = <<>> THEN <<>> ELSE keys[1].name
  IN  Words(<<"CREATE", "TABLE">>) \o Ident(s.table) \o Words(<<"(">>)
        \o Commas([n \in DOMAIN s.columns |-> column(s.columns[n])])
        \o (IF s.pk = said THEN <<>>
            ELSE Words(<<",", "PRIMARY", "KEY", "(">>) \o Ident(s.pk) \o Words(<<")">>))
        \o Words(<<")">>)

SpellUpdate(s) ==
  LET assign(a) == Ident(a.column) \o Words(<<"=">>) \o SpellValue(a.value)
  IN  Words(<<"UPDATE">>) \o Ident(s.table) \o Words(<<"SET">>)
        \o Commas([n \in DOMAIN s.assignments |-> assign(s.assignments[n])]) \o SpellWhere(s.where)

Spell(s) ==
  CASE s.kind = "SELECT" -> SpellSelect(s)
    [] s.kind = "INSERT" -> SpellInsert(s)
    [] s.kind = "CREATE" -> SpellCreate(s)
    [] s.kind = "UPDATE" -> SpellUpdate(s)
    [] s.kind = "DELETE" -> Words(<<"DELETE", "FROM">>) \o Ident(s.table) \o SpellWhere(s.where)
    [] s.kind = "DROP" -> Words(<<"DROP", "TABLE">>) \o Ident(s.table)

=============================================================================
