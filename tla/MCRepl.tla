------------------------------- MODULE MCRepl -------------------------------
(***************************************************************************)
(* Sessions over the tables of MCQuery: its SELECTs, expressions of up to  *)
(* three operators, the other statements, and lines that are not right.    *)
(***************************************************************************)
EXTENDS MCQuery, Repl

ReplInts == MCInts \cup {12}
ReplIntText == MCIntText @@ 12 :> <<"1", "2">>
ReplTexts == MCTexts \cup {<<"1", "2">>}

\* Letters: the names and the keywords, some of them in both cases.
Cases == "id" :> "ID" @@ "select" :> "SELECT" @@ "from" :> "FROM" @@ "where" :> "WHERE"
           @@ "and" :> "AND" @@ "null" :> "NULL" @@ "quit" :> "QUIT"
NameLetters == {"users", "orders", "items", "name", "user", "paid", "order_id", "qty", "a", "b", "help"}
MCLetters == NameLetters \cup Keywords \cup DOMAIN Cases \cup {Cases[c] : c \in DOMAIN Cases}
MCUpper == [c \in MCLetters |-> IF c \in DOMAIN Cases THEN Cases[c] ELSE c]
MCLower == [c \in MCLetters |->
              IF \E l \in DOMAIN Cases : Cases[l] = c
              THEN CHOOSE l \in DOMAIN Cases : Cases[l] = c ELSE c]

MCMaxInt == 20

----------------------------------------------------------------------------
\* Statements

A == <<"a">>
X1 == <<"_", "b", "1">>
QuotedText == Lit(<<"TEXT", <<"'", "a", " ", "'", "'">>>>)

\* Expressions of up to three operators over two atoms.
Small == {Plain(A), Col(Users, X1)}
Grown(E, F) == {Bin(l, op, r) : l \in E, op \in {"OR", "AND", ">="}, r \in F}
OneOp == Small \cup Grown(Small, Small)
Pair(op) == Bin(Plain(A), op, Col(Users, X1))
Pairs == {Pair("OR"), Pair("AND"), Pair("<")}
MCTrees == OneOp \cup Grown(OneOp, Small) \cup Grown(Small, OneOp) \cup Grown(Pairs, Pairs)

MCOther ==
  { InsertStmt(Users, <<>>, <<Lit(I(12)), QuotedText, Lit(B(TRUE)), Lit(Null)>>),
    InsertStmt(Users, <<Id, Name>>, <<Bin(Plain(A), "=", Lit(I(1))), Plain(A)>>),
    CreateTableStmt(A, <<ColumnDef(Id, "INT", TRUE, FALSE), ColumnDef(X1, "TEXT", FALSE, TRUE)>>, Id),
    CreateTableStmt(A, <<ColumnDef(Id, "INT", TRUE, TRUE), ColumnDef(X1, "BOOL", FALSE, FALSE)>>, X1),
    CreateTableStmt(A, <<ColumnDef(Id, "INT", TRUE, FALSE), ColumnDef(X1, "TEXT", TRUE, FALSE)>>, Id),
    CreateTableStmt(A, <<ColumnDef(Id, "INT", FALSE, FALSE)>>, <<>>),
    UpdateStmt(Users, <<Assignment(Id, Lit(I(2))), Assignment(Name, QuotedText)>>,
               Bin(Bin(Plain(A), "!=", Lit(B(FALSE))), "AND", Bin(Lit(I(3)), "<=", Plain(Id)))),
    UpdateStmt(Users, <<Assignment(Id, Bin(Plain(A), "OR", Star))>>, NoWhere),
    DeleteStmt(Users, NoWhere),
    DropTableStmt(Users),
    Select(<<As(Col(Users, Id), A), As(Star, <<>>)>>, Users, <<JoinOf("RIGHT", Orders, OnUser)>>,
           Bin(Plain(Id), "=", Lit(I(1))), <<By(Id, TRUE), By(User, FALSE)>>, 3) }

ById == DeleteStmt(Users, Bin(Plain(Id), "<", Col(Users, Id)))

MCStatements == {ById} \cup MCQueries \cup MCOther \cup {DeleteStmt(Users, e) : e \in MCTrees}

\* Expressions over these names and values, of which the operators are
\* nested up to four deep.
Names == {<<>>, Users, Orders, Items, Id, Name, User, Paid, Order, Qty, A, X1}
Literals == {I(n) : n \in ReplInts} \cup {B(TRUE), B(FALSE), Null, QuotedText.value}
Atoms == [op : {"literal"}, value : Literals] \cup [op : {"column"}, table : Names, name : Names]
           \cup {Star}
Nested(E) == E \cup [op : {"OR", "AND"} \cup Comparisons, left : E, right : E]
ReplExprs == Nested(Nested(Nested(Nested(Atoms))))

----------------------------------------------------------------------------
\* Lines as they should be

Apart(ts) == Tail(FlattenSeq([n \in DOMAIN ts |-> <<" ">> \o Spelling(ts[n])]))

\* With the blanks only that are needed.
Close(ts) ==
  LET word(n) == ts[n].type \in Keywords \cup {"IDENT", "INT_LIT"}
  IN  FlattenSeq([n \in DOMAIN ts |->
        IF n > 1 /\ word(n) /\ word(n - 1) THEN <<"\t">> \o Spelling(ts[n]) ELSE Spelling(ts[n])])

\* With keywords in lower case, INNER, ASC, zeros and ";".
Loose(ts) ==
  LET more(n) ==
        CASE TypeAt(ts, n) = "JOIN" /\ TypeAt(ts, n - 1) \notin {"LEFT", "RIGHT"} ->
               Words(<<"INNER", "JOIN">>)
          [] TypeAt(ts, n) = "BY" /\ TypeAt(ts, n + 2) # "DESC" ->
               Words(<<"BY">>) \o <<ts[n + 1], Token("ASC", <<"ASC">>)>>
          [] TypeAt(ts, n - 1) = "BY" /\ TypeAt(ts, n + 1) # "DESC" -> <<>>
          [] TypeAt(ts, n) = "INT_LIT" -> <<Token("INT_LIT", <<"0">> \o ts[n].literal)>>
          [] ts[n].type \in Keywords -> <<Token(ts[n].type, ToLower(ts[n].literal))>>
          [] OTHER -> <<ts[n]>>
  IN  FlattenSeq([n \in DOMAIN ts |-> more(n)]) \o Words(<<";">>)

\* DELETE with all parentheses, and with plain names in upper case.
Parenthesized(e) ==
  LET full[x \in Exprs] ==
        Words(<<"(">>)
          \o (IF x \in Small THEN SpellExpr(x)
              ELSE full[x.left] \o Words(<<x.op>>) \o full[x.right])
          \o Words(<<")">>)
  IN  Words(<<"DELETE", "FROM">>) \o Ident(Users) \o Words(<<"WHERE">>) \o full[e]

Uppercase(ts) ==
  [n \in DOMAIN ts |->
     IF ts[n].literal = Id /\ TypeAt(ts, n - 1) # "." THEN Token("IDENT", <<"ID">>) ELSE ts[n]]

MCIntended ==
  LET written == {<<Apart(Spell(s)), s>> : s \in MCStatements}
      loose == {<<Close(Loose(Spell(s))), s>> : s \in MCOther \cup OneTable}
      full == {<<Close(Parenthesized(e)), DeleteStmt(Users, e)>> : e \in MCTrees}
      upper == {<<Apart(Uppercase(Spell(ById))), ById>>}
      all == written \cup loose \cup full \cup upper
  IN  [l \in {p[1] : p \in all} |-> (CHOOSE p \in all : p[1] = l)[2]]

----------------------------------------------------------------------------
\* Lines with a token too few, one twice, two in the other order, or one more.

Without(ts, n) == SubSeq(ts, 1, n - 1) \o SubSeq(ts, n + 1, Len(ts))
Twice(ts, n) == SubSeq(ts, 1, n) \o SubSeq(ts, n, Len(ts))
Swapped(ts, n) == Without(SubSeq(ts, 1, n + 1), n) \o <<ts[n]>> \o SubSeq(ts, n + 2, Len(ts))

Wrong ==
  UNION {LET ts == Spell(s)
         IN  {Without(ts, n) : n \in DOMAIN ts} \cup {Twice(ts, n) : n \in DOMAIN ts}
               \cup {Swapped(ts, n) : n \in 1..(Len(ts) - 1)} : s \in MCOther}

Odd ==
  { <<>>, <<"\f", " ">>, <<".", "help">>, <<".", "QUIT">>,
    <<"DELETE", " ", "FROM", " ", "users", NUL, "WHERE", " ", "id">>,
    <<"SELECT", " ", "'", "a">>, <<"#">>, <<"a", "!", "<", ">", "=">>,
    <<"SELECT", "*", "FROM", " ", "users", "LIMIT", " ", "2", "1">>,
    <<"INSERT", " ", "INTO", " ", "users", " ", "VALUES", "(", "2", "1", ")">>,
    <<"SELECT", " ", "users", ".", "*", "FROM", " ", "users">>,
    <<"DELETE", " ", "FROM", " ", "users", " ", "help", " ", "id", "=", "1">> }

MCLines == {<<" ">> \o l : l \in DOMAIN MCIntended} \cup {Apart(ts) : ts \in Wrong} \cup Odd

----------------------------------------------------------------------------
\* TLC evaluates what a cfg gives a constant whenever the constant is used, and a
\* definition once.

ExprsOnce == ReplExprs
LinesOnce == MCLines
IntendedOnce == MCIntended
DatabasesOnce == MCDatabases
CodeOnce == MCCode
LettersOnce == MCLetters
UpperOnce == MCUpper
LowerOnce == MCLower

=============================================================================
