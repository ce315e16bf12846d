-------------------------------- MODULE Repl --------------------------------
(***************************************************************************)
(* The loop of repl/repl.go: a line is read, taken apart by the lexer,     *)
(* parsed, executed and answered.  SELECT is executed by Query.tla, over   *)
(* tables that the other statements change; what they change is in         *)
(* Database.tla and Table.tla, and is any change here.                     *)
(*                                                                         *)
(* An operator whose name ends in Mutant is the definition after it with a *)
(* plausible bug; it is used only to see that the properties can fail.     *)
(***************************************************************************)
EXTENDS Query, Parser, SqlText

CONSTANTS
  Lines,       \* what is typed
  Intended     \* for lines that are written as a statement is: that statement

\* A line is a text.
ASSUME LinesAssumption == \A typed \in Lines : typed \in Seq(Range(typed))

VARIABLES
  doing,       \* where the loop is
  stmt,        \* the statement of the line
  next         \* the position behind it in the tokens

replVars == <<tables, query, phase, rows, joined, place, answer,
              line, at, tokens, doing, stmt, next>>

lineVars == <<line, at, tokens>>

NoStmt == [kind |-> "none"]

ReplInit ==
  /\ Init
  /\ line = <<>> /\ at = 1 /\ tokens = <<>>
  /\ doing = "read" /\ stmt = NoStmt /\ next = 1

Spaces == Blanks \cup {"\f"}

TrimSpace(text) ==
  LET kept == {i \in DOMAIN text : text[i] \notin Spaces}
  IN  IF kept = {} THEN <<>>
      ELSE SubSeq(text, CHOOSE i \in kept : \A j \in kept : i <= j,
                        CHOOSE i \in kept : \A j \in kept : j <= i)

\* ".quit" panics, and main ends the process; the other commands only print.
Quits == {<<".", "quit">>, <<".", "exit">>}

HandleDotCommand(input) ==
  /\ doing' = IF ToLower(input) \in Quits THEN "ended" ELSE "read"
  /\ UNCHANGED lineVars

ReadLine ==
  /\ doing = "read"
  /\ \E typed \in Lines :
       LET input == TrimSpace(typed)
       IN  IF input = <<>> THEN UNCHANGED <<doing, line, at, tokens>>
           ELSE IF input[1] = "." THEN HandleDotCommand(input)
           ELSE New(input) /\ doing' = "lex"
  /\ UNCHANGED <<queryVars, stmt, next>>

\* The scanner has no line any more, or one of more than 64 KB.
InputEnds ==
  /\ doing = "read" /\ doing' = "ended"
  /\ UNCHANGED <<queryVars, lineVars, stmt, next>>

Tokenize ==
  /\ doing = "lex"
  /\ NextToken
  /\ doing' = IF AllRead' THEN "parse" ELSE "lex"
  /\ UNCHANGED <<queryVars, stmt, next>>

ParseTokens ==
  /\ doing = "parse"
  /\ \E parsed \in {Parse(tokens)} :
       IF parsed.next = 0 THEN doing' = "print" /\ UNCHANGED <<stmt, next>>
       ELSE doing' = "execute" /\ stmt' = parsed.node /\ next' = parsed.next
  /\ UNCHANGED <<queryVars, lineVars>>

BeginSelect ==
  /\ doing = "execute" /\ stmt.kind = "SELECT"
  /\ Begin(stmt)
  /\ doing' = "select"
  /\ UNCHANGED <<lineVars, stmt, next>>

SelectStep ==
  /\ doing = "select"
  /\ Step
  /\ UNCHANGED <<lineVars, doing, stmt, next>>

\* An error is not printed.
SelectDoneMutant ==
  /\ doing = "select" /\ phase = "idle" /\ answer.status = "ok"
  /\ doing' = "print"
  /\ UNCHANGED <<queryVars, lineVars, stmt, next>>

SelectDone ==
  /\ doing = "select" /\ phase = "idle"
  /\ doing' = "print"
  /\ UNCHANGED <<queryVars, lineVars, stmt, next>>

ExecuteOther ==
  /\ doing = "execute" /\ stmt.kind # "SELECT"
  /\ tables' \in Databases
  /\ doing' = "print"
  /\ UNCHANGED <<query, phase, rows, joined, place, answer, lineVars, stmt, next>>

\* The answer, or the error, is printed, and all but the tables is gone.
PrintResult ==
  /\ doing = "print" /\ doing' = "read"
  /\ line' = <<>> /\ at' = 1 /\ tokens' = <<>> /\ stmt' = NoStmt /\ next' = 1
  /\ query' = [kind |-> "none"] /\ answer' = NoAnswer
  /\ UNCHANGED <<tables, phase, rows, joined, place>>

Answering ==
  Tokenize \/ ParseTokens \/ BeginSelect \/ SelectStep \/ SelectDone \/ ExecuteOther \/ PrintResult

ReplNext == ReadLine \/ InputEnds \/ Answering

\* The process goes on by itself; the user need not.
ReplSpec ==
  /\ ReplInit /\ [][ReplNext]_replVars
  /\ WF_replVars(Tokenize) /\ WF_replVars(SelectStep) /\ WF_replVars(SelectDone)

----------------------------------------------------------------------------
\* Properties

\* A line that is written as a statement is, with or without the parentheses,
\* words and blanks that may be left out, is executed as that statement: AND
\* before OR, either from the left, texts with quotes in them, the key of a table
\* wherever it is said (parser.go:939, parser.go:580, lexer.go:170).
StatementAsWritten ==
  line \in DOMAIN Intended /\ doing \notin {"lex", "parse"} => stmt = Intended[line]

\* A token without the ways in which it may be written.
Said(token) ==
  CASE token.type = "IDENT" -> <<"IDENT", ToLower(token.literal)>>
    [] token.type = "INT_LIT" -> <<"INT_LIT", Number(token.literal)>>
    [] token.type = "STRING_LIT" -> <<"STRING_LIT", token.literal>>
    [] OTHER -> <<token.type>>

\* The tokens without those that may be left out, and without the "t." of "t.*".
Essential(ts) ==
  LET star(n) == TypeAt(ts, n) = "IDENT" /\ TypeAt(ts, n + 1) = "." /\ TypeAt(ts, n + 2) = "*"
      kept(n) == /\ TypeAt(ts, n) \notin {"(", ")", "INNER", "ASC", ";"}
                 /\ ~star(n) /\ (n > 1 => ~star(n - 1))
  IN  FlattenSeq([n \in DOMAIN ts |-> IF kept(n) THEN <<Said(ts[n])>> ELSE <<>>])

Balanced(ts) ==
  LET number(type, n) == Cardinality({i \in 1..n : ts[i].type = type})
  IN  /\ \A n \in DOMAIN ts : number(")", n) <= number("(", n)
      /\ number(")", Len(ts)) = number("(", Len(ts))

\* Whatever is typed, a statement that is executed says what the tokens up to its
\* end say, no more and no less (parser.go:312): no clause of them is skipped and
\* none is made up, and their parentheses match.  The constraints of a CREATE may
\* come in any order.
AcceptedAsRead ==
  doing = "execute" =>
    LET read == SubSeq(tokens, 1, next - 1)
    IN  /\ Balanced(read)
        /\ stmt.kind # "CREATE" => Essential(read) = Essential(Spell(stmt))

\* Whatever is typed, a SELECT that is accepted is one that the executor can take
\* apart: every join has its ON, every condition is an expression, and the limit
\* is a number (executor.go:229).
ParsedFits == stmt.kind = "SELECT" => QueryFits(stmt)

\* Whatever is typed, the lexer comes to its end, and whatever the tables hold, a
\* SELECT comes to its answer or its error, and is answered (repl.go:58).  The
\* parser takes one step.
EveryLineAnswered ==
  /\ (doing = "lex") ~> (doing = "parse")
  /\ (doing = "select") ~> (doing = "print")

\* parser.go:80, "It parses the entire token stream": nothing but the end follows
\* the statement that is executed.
WholeLineParsed == doing = "execute" => TypeAt(tokens, next) = "EOF"

=============================================================================
