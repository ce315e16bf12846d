------------------------------- MODULE Values -------------------------------
(***************************************************************************)
(* The values of SQL as engine/executor.go computes with them: types,      *)
(* comparison, expressions, conversion to the type of a column.            *)
(*                                                                         *)
(* Names and texts are sequences of characters; a character of the model   *)
(* may stand for several of the program.                                   *)
(***************************************************************************)
EXTENDS Integers, Sequences

CONSTANTS
  Ints, Texts,
  Code,        \* the byte of each character: what strings.Compare compares
  IntText,     \* the text that "%v" makes of each int
  BoolText,    \* and of TRUE and FALSE
  NilText,     \* and of NULL: "<nil>"
  Exprs        \* expressions, with all their parts

Codes(text) == [i \in DOMAIN text |-> Code[text[i]]]

\* The order of byte strings: bytes.Compare and strings.Compare.
LexLess(s, t) ==
  \E n \in 1..Len(t) :
    /\ \A i \in 1..(n - 1) : i <= Len(s) /\ s[i] = t[i]
    /\ n > Len(s) \/ s[n] < t[n]

ASSUME ValuesAssumption ==
  /\ Ints \subseteq Int
  /\ \A c \in DOMAIN Code : Code[c] \in Nat
  /\ \A c, d \in DOMAIN Code : Code[c] = Code[d] => c = d
  /\ \A t \in Texts : t \in Seq(DOMAIN Code)
  /\ IntText \in [Ints -> Texts]
  /\ BoolText \in [BOOLEAN -> Texts]
  /\ NilText \in Texts
  /\ LexLess(Codes(BoolText[FALSE]), Codes(BoolText[TRUE]))
  /\ ~LexLess(Codes(BoolText[TRUE]), Codes(BoolText[FALSE]))

\* A value is a pair of its type and what it is.
Null == <<"NULL">>
True == <<"BOOL", TRUE>>

\* What evaluateExpression returns instead of a value when it fails.
Error == <<"ERROR">>

Values ==
  ({"INT"} \X Ints) \cup ({"TEXT"} \X Texts) \cup ({"BOOL"} \X BOOLEAN) \cup {Null}

Type(v) == v[1]

\* fmt.Sprintf("%v").
Text(v) ==
  CASE Type(v) = "INT" -> IntText[v[2]]
    [] Type(v) = "TEXT" -> v[2]
    [] Type(v) = "BOOL" -> BoolText[v[2]]
    [] OTHER -> NilText

\* compareValues(a, b) <= 0: NULL is less than any other value, two ints are
\* compared as numbers, and anything else by its text.
AtMost(a, b) ==
  \/ a = Null
  \/ /\ a # Null /\ b # Null
     /\ IF Type(a) = "INT" /\ Type(b) = "INT" THEN a[2] <= b[2]
        ELSE ~LexLess(Codes(Text(b)), Codes(Text(a)))

\* compareValues(a, b) = 0.
Same(a, b) == AtMost(a, b) /\ AtMost(b, a)

\* The key of column c of table t in a row that has the columns of several.
Dotted(t, c) == t \o <<".">> \o c

\* A column reference, as "table.column" if it names a table, and as the plain
\* column if that is not there.  A column that the row does not have is NULL.
ColumnRef(table, name, row) ==
  IF table # <<>> /\ Dotted(table, name) \in DOMAIN row THEN row[Dotted(table, name)]
  ELSE IF name \in DOMAIN row THEN row[name]
  ELSE Null

Operators == {"AND", "OR", "=", "!=", "<", ">", "<=", ">="}

Bool(b) == <<"BOOL", b>>

\* evaluateBinaryExpr.  AND and OR of anything but two booleans are FALSE.
Binary(op, l, r) ==
  CASE op \in {"AND", "OR"} ->
         Bool(/\ Type(l) = "BOOL" /\ Type(r) = "BOOL"
              /\ IF op = "AND" THEN l[2] /\ r[2] ELSE l[2] \/ r[2])
    [] op = "=" -> Bool(Same(l, r))
    [] op = "!=" -> Bool(~Same(l, r))
    [] op = "<=" -> Bool(AtMost(l, r))
    [] op = ">=" -> Bool(AtMost(r, l))
    [] op = "<" -> Bool(~AtMost(r, l))
    [] op = ">" -> Bool(~AtMost(l, r))

\* evaluateExpression.  A "*" is an error, and so is what it is part of.
Evaluate(expr, row) ==
  LET val[e \in Exprs] ==
        CASE e.op = "literal" -> e.value
          [] e.op = "column" -> ColumnRef(e.table, e.name, row)
          [] e.op = "*" -> Error
          [] OTHER -> LET l == val[e.left]
                          r == val[e.right]
                      IN  IF Error \in {l, r} THEN Error ELSE Binary(e.op, l, r)
  IN  val[expr]

----------------------------------------------------------------------------
\* coerceType: which values a column of this type takes, and as what.

Coercible(v, type) == Type(v) \in {type, "NULL"} \/ (type = "TEXT" /\ v # Error)

\* Any value is taken as it is.
CoerceMutant(v, type) == v

Coerce(v, type) ==
  IF type = "TEXT" /\ Type(v) \in {"INT", "BOOL"} THEN <<"TEXT", Text(v)>> ELSE v

=============================================================================
