------------------------------- MODULE Lexer --------------------------------
(***************************************************************************)
(* The lexer of lexer/lexer.go: one call of NextToken to a step.           *)
(*                                                                         *)
(* A letter of the model may stand for several of the program: a keyword   *)
(* is one letter, and no sequence of letters spells one otherwise.         *)
(*                                                                         *)
(* An operator whose name ends in Mutant is the definition after it with a *)
(* plausible bug; it is used only to see that the properties can fail.     *)
(***************************************************************************)
EXTENDS Naturals, SequencesExt

CONSTANTS
  Letters,     \* the characters for which unicode.IsLetter holds
  Upper,       \* strings.ToUpper of each letter
  Lower        \* and strings.ToLower


VARIABLES
  line,        \* the input
  at,          \* the position in it
  tokens       \* read so far

Keywords ==
  {"SELECT", "FROM", "WHERE", "INSERT", "INTO", "VALUES", "UPDATE", "SET", "DELETE",
   "CREATE", "TABLE", "DROP", "ALTER", "ADD", "PRIMARY", "KEY", "NOT", "NULL", "AND",
   "OR", "ORDER", "BY", "ASC", "DESC", "INT", "TEXT", "BOOL", "TRUE", "FALSE", "JOIN",
   "INNER", "LEFT", "RIGHT", "ON", "AS", "FOREIGN", "REFERENCES", "CASCADE", "LIMIT"}

Numerals == <<"0", "1", "2", "3", "4", "5", "6", "7", "8", "9">>
Digits == {Numerals[i] : i \in DOMAIN Numerals}
NameChars == Letters \cup Digits \cup {"_"}
Blanks == {" ", "\t", "\n", "\r"}
Marks == {",", ";", "(", ")", "*", ".", "="}
Quote == "'"
NUL == "NUL"   \* the character 0, which is also what follows the last one

ASSUME LexerAssumption ==
  /\ Upper \in [Letters -> Letters] /\ Lower \in [Letters -> Letters]
  /\ NUL \notin Letters

ToUpper(text) == [i \in DOMAIN text |-> IF text[i] \in Letters THEN Upper[text[i]] ELSE text[i]]
ToLower(text) == [i \in DOMAIN text |-> IF text[i] \in Letters THEN Lower[text[i]] ELSE text[i]]

Char(text, i) == IF i <= Len(text) THEN text[i] ELSE NUL

Token(type, literal) == [type |-> type, literal |-> literal]

\* The first position from i on that has none of these characters.
After(text, i, chars) ==
  CHOOSE j \in i..(Len(text) + 1) :
    /\ Char(text, j) \notin chars
    /\ \A k \in i..(j - 1) : Char(text, k) \in chars

LookupIdent(literal) ==
  LET upper == ToUpper(literal)
  IN  IF Len(upper) = 1 /\ upper[1] \in Keywords THEN upper[1] ELSE "IDENT"

\* The second of two quotes is read again.
ReadStringMutant(text, i) ==
  LET read[j \in i..(Len(text) + 1)] ==
        IF Char(text, j) = NUL THEN [ok |-> FALSE, text |-> <<>>, next |-> j]
        ELSE IF Char(text, j) = Quote /\ Char(text, j + 1) # Quote
             THEN [ok |-> TRUE, text |-> <<>>, next |-> j + 1]
        ELSE LET rest == read[j + 1]
             IN  [rest EXCEPT !.text = <<Char(text, j)>> \o @]
  IN  read[i]

\* readString from behind the opening quote: the text up to the next quote that
\* is not doubled.
ReadString(text, i) ==
  LET read[j \in i..(Len(text) + 1)] ==
        IF Char(text, j) = NUL THEN [ok |-> FALSE, text |-> <<>>, next |-> j]   \* not closed
        ELSE IF Char(text, j) = Quote /\ Char(text, j + 1) # Quote
             THEN [ok |-> TRUE, text |-> <<>>, next |-> j + 1]
        ELSE LET rest == read[IF Char(text, j) = Quote THEN j + 2 ELSE j + 1]
             IN  [rest EXCEPT !.text = <<Char(text, j)>> \o @]
  IN  read[i]

\* The token from position i on, where no blank is, and the position behind it.
TokenAt(text, i) ==
  LET c == Char(text, i)
      Found(type, literal, next) == [token |-> Token(type, literal), next |-> next]
  IN  IF c = NUL THEN Found("EOF", <<>>, i + 1)
      ELSE IF c \in Marks THEN Found(c, <<c>>, i + 1)
      ELSE IF c \in {"<", ">", "!"} /\ Char(text, i + 1) = "="
           THEN Found(CASE c = "<" -> "<=" [] c = ">" -> ">=" [] c = "!" -> "!=", <<c, "=">>, i + 2)
      ELSE IF c \in {"<", ">"} THEN Found(c, <<c>>, i + 1)
      ELSE IF c = Quote
           THEN LET s == ReadString(text, i + 1)
                IN  Found(IF s.ok THEN "STRING_LIT" ELSE "ILLEGAL", IF s.ok THEN s.text ELSE <<>>, s.next)
      ELSE IF c \in Letters \cup {"_"}
           THEN LET next == After(text, i, NameChars)
                    literal == SubSeq(text, i, next - 1)
                IN  Found(LookupIdent(literal), literal, next)
      ELSE IF c \in Digits
           THEN LET next == After(text, i, Digits)
                IN  Found("INT_LIT", SubSeq(text, i, next - 1), next)
      ELSE Found("ILLEGAL", <<c>>, i + 1)

New(input) == line' = input /\ at' = 1 /\ tokens' = <<>>

AllRead == tokens # <<>> /\ tokens[Len(tokens)].type = "EOF"

\* One turn of the loop of Tokenize.
NextToken ==
  /\ ~AllRead
  /\ \E found \in {TokenAt(line, After(line, at, Blanks))} :
       tokens' = Append(tokens, found.token) /\ at' = found.next
  /\ UNCHANGED line

----------------------------------------------------------------------------
\* Properties

\* The characters of a token.  An ILLEGAL token keeps none of a text without
\* its closing quote.
Doubled(c) == IF c = Quote THEN <<Quote, Quote>> ELSE <<c>>

Spelling(token) ==
  CASE token.type = "EOF" -> <<>>
    [] token.type = "STRING_LIT" ->
         <<Quote>> \o FlattenSeq([i \in DOMAIN token.literal |-> Doubled(token.literal[i])])
           \o <<Quote>>
    [] OTHER -> token.literal

\* A text without blanks and the end of the input.
Dense(text) ==
  FlattenSeq([i \in DOMAIN text |-> IF text[i] \in Blanks \cup {NUL} THEN <<>> ELSE <<text[i]>>])

\* Nothing of a line is lost, doubled or moved by the lexer's two positions and
\* its look-ahead (lexer.go:170): the tokens so far, spelled one after the other,
\* are what was read of the line, blanks aside, unless a text is not closed.
TokensSpellLine ==
  LET spelled == FlattenSeq([n \in DOMAIN tokens |-> Spelling(tokens[n])])
      read == SubSeq(line, 1, IF at <= Len(line) THEN at - 1 ELSE Len(line))
  IN  (\A n \in DOMAIN tokens : tokens[n] # Token("ILLEGAL", <<>>))
        => Dense(spelled) = Dense(read)

=============================================================================
