------------------------------ MODULE MCTable -------------------------------
(***************************************************************************)
(* A table (id INT, name TEXT NOT NULL, flag BOOL) whose primary key is    *)
(* id, or name, or none, and statements that meet the odd corners of the   *)
(* conversions: ints and booleans for a TEXT, columns left out, NULL.      *)
(***************************************************************************)
EXTENDS Table, TLC

MCInts == {1, 2, 5}

MCChars == <<"1", "2", "5", "<nil>", "false", "true">>   \* in the order of their bytes
MCCode == [c \in {MCChars[i] : i \in 1..6} |-> CHOOSE i \in 1..6 : MCChars[i] = c]
MCTexts == {<<c>> : c \in DOMAIN MCCode}

MCIntText == [i \in MCInts |-> CASE i = 1 -> <<"1">> [] i = 2 -> <<"2">> [] i = 5 -> <<"5">>]
MCBoolText == [b \in BOOLEAN |-> IF b THEN <<"true">> ELSE <<"false">>]
MCNilText == <<"<nil>">>

Id == <<"id">>
Name == <<"name">>
Flag == <<"flag">>
MCColumns == {Id, Name, Flag}
MCNotNull == {Name}
MCNoColumn == <<>>
MCPrimaryKeys == {Id, Name, MCNoColumn}
MCRowId == <<"_rowid">>

MCColumnType ==
  [c \in MCColumns |-> CASE c = Id -> "INT" [] c = Name -> "TEXT" [] c = Flag -> "BOOL"]

I(n) == <<"INT", n>>
T(t) == <<"TEXT", <<t>>>>
B(b) == <<"BOOL", b>>

Row(id, name, flag) == Id :> id @@ Name :> name @@ Flag :> flag
Half(id, name) == Id :> id @@ Name :> name

MCInputs ==
  { Row(I(1), T("2"), B(TRUE)),
    Row(I(5), I(1), B(FALSE)),       \* an int for a TEXT
    Half(I(1), B(TRUE)),             \* a column left out
    Id :> I(2),                      \* the NOT NULL one too
    Half(Null, T("1")),
    Half(I(1), Null),
    Half(T("1"), T("1")),            \* a text for an INT
    Half(I(2), Error) }              \* a column or a "*" for a value

Lit(v) == [op |-> "literal", value |-> v]
Col(c) == [op |-> "column", table |-> <<>>, name |-> c]
Bin(l, o, r) == [op |-> o, left |-> l, right |-> r]

NameIsOneOrFlag == Bin(Bin(Col(Name), "=", Lit(I(1))), "OR", Col(Flag))
FlagBelowName == Bin(Col(Flag), "<", Col(Name))

MCWheres == {NoWhere, Col(Flag), NameIsOneOrFlag}

MCChanges ==
  { Flag :> Lit(Null),
    Flag :> Col(Name),                                    \* a type error unless NULL
    Flag :> FlagBelowName @@ Name :> Col(Id),
    Id :> Lit(I(1)) }

\* The expressions with all their parts.
Parts(E) == UNION {IF e.op \in {"literal", "column", "*"} THEN {} ELSE {e.left, e.right} : e \in E}

MCExprs ==
  LET whole == (MCWheres \ {NoWhere}) \cup UNION {{a[c] : c \in DOMAIN a} : a \in MCChanges}
      parts == whole \cup Parts(whole)
  IN  parts \cup Parts(parts)

MCDepth ==
  LET depth[e \in MCExprs] ==
        IF e.op \in {"literal", "column", "*"} THEN 0
        ELSE 1 + (IF depth[e.left] < depth[e.right] THEN depth[e.right] ELSE depth[e.left])
  IN  depth

=============================================================================
