------------------------------ MODULE MCQuery -------------------------------
(***************************************************************************)
(* Tables users (id, name), orders (id, user, paid) and items (order, qty), *)
(* of which the first two share the column id, with rows that lack columns *)
(* or have NULLs; and SELECTs that join them in every way.                 *)
(***************************************************************************)
EXTENDS Query, TLC

Users == <<"users">>
Orders == <<"orders">>
Items == <<"items">>
Id == <<"id">>
Name == <<"name">>
User == <<"user">>
Paid == <<"paid">>
Order == <<"order_id">>
Qty == <<"qty">>
RowId == <<"_", "rowid">>

MCColumnsOf == Users :> <<Id, Name>> @@ Orders :> <<Id, User, Paid>> @@ Items :> <<Order, Qty>>

MCInts == 0..3
MCChars == <<"0", "1", "2", "3", "<nil>", "ann", "bob", "false", "true">>
MCCode == [c \in {MCChars[i] : i \in DOMAIN MCChars} |->
             CHOOSE i \in DOMAIN MCChars : MCChars[i] = c]
MCTexts == {<<c>> : c \in DOMAIN MCCode}
MCIntText == [i \in MCInts |-> <<MCChars[i + 1]>>]
MCBoolText == [b \in BOOLEAN |-> IF b THEN <<"true">> ELSE <<"false">>]
MCNilText == <<"<nil>">>

I(n) == <<"INT", n>>
T(t) == <<"TEXT", <<t>>>>
B(b) == <<"BOOL", b>>

MCDatabases ==
  LET u1 == Id :> I(1) @@ Name :> T("bob")
      u2 == Id :> I(2) @@ Name :> T("ann")
      u3 == Id :> I(3)                                  \* without a name
      R(n) == RowId :> I(n)                             \* in tables without a key
      o1 == Id :> I(1) @@ User :> I(2) @@ Paid :> B(FALSE) @@ R(1)
      o2 == Id :> I(2) @@ User :> I(2) @@ Paid :> B(TRUE) @@ R(2)
      o3 == Id :> I(3) @@ User :> Null @@ Paid :> B(TRUE) @@ R(3)
      o4 == Id :> I(3) @@ User :> I(1) @@ R(2)          \* neither paid nor not
      i1 == Order :> I(2) @@ Qty :> I(1) @@ R(2)
      i2 == Order :> I(1) @@ Qty :> I(3) @@ R(1)
      D(u, o, i) == Users :> u @@ Orders :> o @@ Items :> i
  IN  { D(<<u1, u2, u3>>, <<o1, o2, o3>>, <<i2, i1>>),
        D(<<u2, u3>>, <<o1, o4>>, <<i1>>),
        Users :> <<u1, u2>> @@ Orders :> <<>> }         \* no items

ASSUME MCTold == RowsTold

Lit(v) == Literal(v)
Col(t, c) == ColumnExpr(t, c)
Plain(c) == ColumnExpr(<<>>, c)
Star == StarExpr
Bin(l, o, r) == BinaryExpr(l, o, r)
As(e, alias) == SelectColumn(e, alias)
By(c, desc) == OrderByClause(c, desc)
JoinOf(type, t, on) == JoinClause(type, t, on)
Select(cols, t, joins, where, by, limit) == SelectStmt(cols, t, joins, where, by, limit)

OnUser == Bin(Col(Users, Id), "=", Col(Orders, User))
OnOrder == Bin(Col(Orders, Id), "=", Plain(Order))
OnUserAndItem == Bin(Col(Users, Id), "=", Col(Items, Qty))

\* One table: WHERE, ORDER BY and LIMIT.
OneTable ==
  { Select(<<As(Star, <<>>)>>, Orders, <<>>, w, by, limit) :
      w \in {NoWhere, Plain(Paid), Bin(Plain(User), "!=", Lit(I(1))),
             Bin(Bin(Plain(User), "=", Lit(Null)), "OR", Bin(Plain(Id), "<", Lit(I(2))))},
      by \in {<<>>, <<By(User, TRUE)>>, <<By(Paid, FALSE), By(Id, TRUE)>>},
      limit \in {-1, 0, 2} }

\* Two tables: INNER, LEFT and RIGHT, with the shared column qualified or not.
TwoTables ==
  { Select(cols, Users, <<JoinOf(type, Orders, on)>>, w, by, limit) :
      cols \in {<<As(Col(Users, Id), <<>>), As(Plain(Paid), <<>>)>>,
                <<As(Plain(Name), Id), As(Star, <<>>)>>},
      type \in {"INNER", "LEFT", "RIGHT"},
      on \in {OnUser, Bin(Bin(Col(Orders, User), ">=", Col(Users, Id)), "AND", Plain(Paid)),
              Bin(Plain(Id), "=", Col(Orders, User)), Plain(Paid)},
      w \in {NoWhere, Bin(Col(Orders, Id), "!=", Lit(I(1)))},
      by \in {<<>>, <<By(User, FALSE), By(Name, TRUE)>>},
      limit \in {-1, 2} }

\* Three tables.
ThreeTables ==
  { Select(<<As(Plain(Name), <<>>), As(Col(Orders, Id), <<>>), As(Plain(Qty), <<>>)>>,
           Users, <<JoinOf(type, Orders, OnUser), JoinOf(last, Items, on)>>, NoWhere, <<>>, -1) :
      type \in {"INNER", "LEFT"}, last \in {"INNER", "LEFT"},
      on \in {OnOrder, OnUserAndItem} }

\* Three tables, of which the last shares a column with the first.
SharedLast ==
  { Select(<<As(Plain(Qty), <<>>), As(Col(Users, Id), <<>>), As(Col(Orders, Id), <<>>)>>,
           Users, <<JoinOf(type, Items, OnUserAndItem), JoinOf(last, Orders, on)>>,
           w, <<By(User, TRUE)>>, -1) :
      type \in {"INNER", "LEFT"}, last \in {"INNER", "LEFT"}, on \in {OnOrder, OnUser},
      w \in {NoWhere, Bin(Col(Users, Id), "<=", Col(Orders, User))} }

MCQueries == OneTable \cup TwoTables \cup ThreeTables \cup SharedLast

MCLeftQueries == {q \in ThreeTables : \A j \in DOMAIN q.joins : q.joins[j].type = "LEFT"}

\* The expressions with all their parts.
Parts(E) ==
  UNION {IF e.op \in {"literal", "column", "*"} THEN {} ELSE {e.left, e.right} : e \in E}

WholeExprs(Q) ==
  UNION {{q.joins[j].on : j \in DOMAIN q.joins} : q \in Q}
    \cup ({q.where : q \in Q} \ {NoWhere})

MCExprs ==
  LET whole == WholeExprs(MCQueries)
      parts == whole \cup Parts(whole)
  IN  parts \cup Parts(parts)

=============================================================================
