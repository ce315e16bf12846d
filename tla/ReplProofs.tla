----------------------------- MODULE ReplProofs -----------------------------
(***************************************************************************)
(* A line is read to the last character: the tokens spell it, for every    *)
(* alphabet and all lines that may be typed.  The invariant keeps the      *)
(* position of the lexer on the line, or behind it once the EOF token is   *)
(* read.                                                                   *)
(*                                                                         *)
(* A SELECT whose names are clear is answered as SqlSelect.tla means it:   *)
(* alone, and in a session between other statements.  The rows that the    *)
(* executor merges are maps of names; the invariant has, for the rows so   *)
(* far, the combinations of the tables' rows that they show, in the order  *)
(* of the scans.                                                           *)
(*                                                                         *)
(* A LEFT JOIN keeps its left rows, whether names are clear or not.        *)
(***************************************************************************)
EXTENDS Repl, Induction, FiniteSetTheorems

Chars == {Quote} \cup UNION {Range(typed) : typed \in Lines}

TokenTypes ==
  Keywords \cup Marks \cup {"<=", ">=", "!=", "<", ">", "EOF", "STRING_LIT", "ILLEGAL", "IDENT", "INT_LIT"}

TokenSet == [type : TokenTypes, literal : Seq(Chars)]

NoText == Token("ILLEGAL", <<>>)

Ended(ts) == ts # <<>> /\ ts[Len(ts)].type = "EOF"

\* The position of the lexer is on the text until it has met the end, and the
\* tokens are those of the text up to it.
LexState(text, p, ts) ==
  /\ text \in Seq(Chars)
  /\ ts \in Seq(TokenSet)
  /\ p \in 1 .. Len(text) + 2
  /\ p = Len(text) + 2 => Ended(ts)
  /\ (\A n \in DOMAIN ts : ts[n] # NoText)
       => Dense(FlattenSeq([n \in DOMAIN ts |-> Spelling(ts[n])]))
            = Dense(SubSeq(text, 1, IF p <= Len(text) THEN p - 1 ELSE Len(text)))

LexInv == LexState(line, at, tokens)

----------------------------------------------------------------------------
\* Texts, spelled out

DenseOf == [c \in Chars |-> IF c \in Blanks \cup {NUL} THEN <<>> ELSE <<c>>]
DoubledOf == [c \in Chars |-> Doubled(c)]
SpellingOf == [t \in TokenSet |-> Spelling(t)]

\* Each of them gives a text for a character.
LEMMA CharacterTexts ==
  DenseOf \in [Chars -> Seq(Chars)] /\ DoubledOf \in [Chars -> Seq(Chars)]
<1>1. Quote \in Chars  BY DEF Chars
<1> QED  BY <1>1 DEF DenseOf, DoubledOf, Doubled

\* In which order texts are joined does not matter.
LEMMA TextsAssociate ==
  ASSUME NEW a \in Seq(Chars), NEW b \in Seq(Chars), NEW c \in Seq(Chars)
  PROVE  (a \o b) \o c = a \o (b \o c)
  BY ConcatAssociative

\* The texts that are put in the place of characters make a text.
LEMMA TextOfText ==
  ASSUME NEW g \in [Chars -> Seq(Chars)], NEW a \in Seq(Chars)
  PROVE  Spread(g, a) \in Seq(Chars)
  BY SpreadType

\* Those of two texts are those of one and those of the other.
LEMMA TextsJoined ==
  ASSUME NEW g \in [Chars -> Seq(Chars)], NEW a \in Seq(Chars), NEW b \in Seq(Chars)
  PROVE  Spread(g, a \o b) = Spread(g, a) \o Spread(g, b)
  BY SpreadConcat

\* One character more is one text more.
LEMMA OneTextMore ==
  ASSUME NEW g \in [Chars -> Seq(Chars)], NEW a \in Seq(Chars), NEW c \in Chars
  PROVE  Spread(g, Append(a, c)) = Spread(g, a) \o g[c]
  BY SpreadAppend

\* Two texts are dense together as each of them is.
LEMMA DenseParts ==
  ASSUME NEW a \in Seq(Chars), NEW b \in Seq(Chars)
  PROVE  /\ Dense(a) = Spread(DenseOf, a)
         /\ Dense(a) \in Seq(Chars)
         /\ Dense(a \o b) = Dense(a) \o Dense(b)
<1>1. ASSUME NEW t \in Seq(Chars) PROVE Dense(t) = Spread(DenseOf, t)
  <2>1. \A i \in DOMAIN t : t[i] \in Chars  BY LenProperties
  <2>2. \A i \in DOMAIN t :
          DenseOf[t[i]] = IF t[i] \in Blanks \cup {NUL} THEN <<>> ELSE <<t[i]>>
    BY <2>1 DEF DenseOf
  <2>3. [i \in DOMAIN t |-> IF t[i] \in Blanks \cup {NUL} THEN <<>> ELSE <<t[i]>>]
          = [i \in DOMAIN t |-> DenseOf[t[i]]]
    BY <2>2
  <2> QED  BY <2>3 DEF Dense, Spread
<1>2. a \o b \in Seq(Chars)  BY ConcatProperties
<1>3. Spread(DenseOf, a) \in Seq(Chars)  BY CharacterTexts, TextOfText
<1>4. Spread(DenseOf, a \o b) = Spread(DenseOf, a) \o Spread(DenseOf, b)
  BY CharacterTexts, TextsJoined
<1> QED  BY <1>1, <1>2, <1>3, <1>4

\* Nothing is dense, and so is one character that is kept.
LEMMA DenseNothing == <<>> \in Seq(Chars) /\ Dense(<<>>) = <<>>
<1>1. <<>> \in Seq(Chars)  BY EmptySeq
<1> QED  BY <1>1, DenseParts, SpreadNothing

\* Of blanks nothing is left.
LEMMA DenseBlanks ==
  ASSUME NEW s \in Seq(Chars), \A i \in 1 .. Len(s) : s[i] \in Blanks \cup {NUL}
  PROVE  Dense(s) = <<>>
<1> DEFINE B == Blanks \cup {NUL}
           T == {n \in Nat : \A u \in Seq(Chars) :
                   Len(u) = n /\ (\A i \in 1 .. Len(u) : u[i] \in B) => Spread(DenseOf, u) = <<>>}
<1>1. ASSUME NEW n \in Nat, \A j \in Nat : j < n => j \in T PROVE n \in T
  <2> SUFFICES ASSUME NEW u \in Seq(Chars), Len(u) = n, \A i \in 1 .. Len(u) : u[i] \in B
               PROVE  Spread(DenseOf, u) = <<>>
    OBVIOUS
  <2>1. CASE u = <<>>  BY <2>1, SpreadNothing
  <2>2. CASE u # <<>>
    <3>1. PICK v \in Seq(Chars), c \in Chars : u = Append(v, c)
      BY <2>2, SequenceEmptyOrAppend
    <3>2. /\ Len(u) = Len(v) + 1 /\ Len(v) \in Nat
          /\ \A i \in 1 .. Len(v) : u[i] = v[i]
          /\ u[Len(v) + 1] = c
      BY <3>1, AppendProperties, LenProperties
    <3>3. c \in B /\ \A i \in 1 .. Len(v) : v[i] \in B  BY <3>2
    <3>4. Len(v) \in T
      <4> HIDE DEF T
      <4> QED  BY <1>1, <3>2
    <3>5. Spread(DenseOf, v) = <<>>  BY <3>3, <3>4
    <3>6. DenseOf[c] = <<>>  BY <3>3 DEF DenseOf
    <3>7. Spread(DenseOf, u) = Spread(DenseOf, v) \o DenseOf[c]
      BY <3>1, CharacterTexts, OneTextMore
    <3>8. <<>> \o <<>> = <<>>  BY EmptySeq, ConcatEmptySeq
    <3> QED  BY <3>5, <3>6, <3>7, <3>8
  <2> QED  BY <2>1, <2>2
<1> HIDE DEF T
<1>2. Nat \subseteq T  BY <1>1, CourseOfValues
<1>3. Len(s) \in Nat  BY LenProperties
<1>4. Spread(DenseOf, s) = <<>>  BY <1>2, <1>3 DEF T
<1> QED  BY <1>4, DenseParts

\* A token is spelled with characters of the line and quotes.
LEMMA SpellingFacts ==
  /\ SpellingOf \in [TokenSet -> Seq(Chars)]
  /\ \A t \in TokenSet :
       Spelling(t) = CASE t.type = "EOF" -> <<>>
                       [] t.type = "STRING_LIT" -> <<Quote>> \o Spread(DoubledOf, t.literal) \o <<Quote>>
                       [] OTHER -> t.literal
<1>1. ASSUME NEW t \in TokenSet
      PROVE  FlattenSeq([i \in DOMAIN t.literal |-> Doubled(t.literal[i])]) = Spread(DoubledOf, t.literal)
  <2>1. t.literal \in Seq(Chars)  BY DEF TokenSet
  <2>2. \A i \in DOMAIN t.literal : t.literal[i] \in Chars  BY <2>1, LenProperties
  <2>3. [i \in DOMAIN t.literal |-> Doubled(t.literal[i])]
          = [i \in DOMAIN t.literal |-> DoubledOf[t.literal[i]]]
    BY <2>2 DEF DoubledOf
  <2> QED  BY <2>3 DEF Spread
<1>2. ASSUME NEW t \in TokenSet
      PROVE  Spelling(t) = CASE t.type = "EOF" -> <<>>
                       [] t.type = "STRING_LIT" -> <<Quote>> \o Spread(DoubledOf, t.literal) \o <<Quote>>
                       [] OTHER -> t.literal
  BY <1>1 DEF Spelling
<1>3. ASSUME NEW t \in TokenSet PROVE Spelling(t) \in Seq(Chars)
  <2>1. t.literal \in Seq(Chars)  BY DEF TokenSet
  <2>2. CASE t.type = "EOF"  BY <1>2, <2>2, DenseNothing
  <2>3. CASE t.type = "STRING_LIT"
    <3>1. Spread(DoubledOf, t.literal) \in Seq(Chars)  BY <2>1, CharacterTexts, TextOfText
    <3>2. Quote \in Chars  BY DEF Chars
    <3> USE <3>2
    <3>3. <<Quote>> \o Spread(DoubledOf, t.literal) \in Seq(Chars)  BY <3>1, <3>2, ConcatProperties
    <3>4. <<Quote>> \o Spread(DoubledOf, t.literal) \o <<Quote>> \in Seq(Chars)
      BY <3>2, <3>3, ConcatProperties
    <3> QED  BY <1>2, <2>3, <3>4
  <2>4. CASE t.type # "EOF" /\ t.type # "STRING_LIT"  BY <1>2, <2>1, <2>4
  <2> QED  BY <2>2, <2>3, <2>4
<1> QED  BY <1>2, <1>3 DEF SpellingOf
----------------------------------------------------------------------------
\* Reading on

\* A position on the text has its character, and behind it is NUL.
LEMMA CharFacts ==
  ASSUME NEW text \in Seq(Chars), NEW i \in 1 .. Len(text) + 2
  PROVE  /\ Len(text) \in Nat
         /\ i <= Len(text) => Char(text, i) = text[i] /\ text[i] \in Chars
         /\ i > Len(text) => Char(text, i) = NUL
<1>1. Len(text) \in Nat /\ \A k \in 1 .. Len(text) : text[k] \in Chars
  BY LenProperties
<1> QED  BY <1>1 DEF Char

\* The characters that are passed over end on the text or right behind it.
LEMMA AfterFacts ==
  ASSUME NEW text \in Seq(Chars), NEW i \in 1 .. Len(text) + 1, NEW chars, NUL \notin chars
  PROVE  /\ After(text, i, chars) \in i .. Len(text) + 1
         /\ Char(text, After(text, i, chars)) \notin chars
         /\ \A k \in i .. After(text, i, chars) - 1 : Char(text, k) \in chars
<1> DEFINE T == {j \in i .. Len(text) + 1 : Char(text, j) \notin chars}
<1>1. Len(text) \in Nat  BY LenProperties
<1>2. Len(text) + 1 \in T
  <2>1. Len(text) + 1 \in 1 .. Len(text) + 2 /\ Len(text) + 1 > Len(text)  BY <1>1
  <2>2. Char(text, Len(text) + 1) = NUL  BY <2>1, CharFacts
  <2> QED  BY <1>1, <2>2
<1>3. T \subseteq Nat  BY <1>1
<1>4. PICK j \in T : \A k \in T : j <= k  BY <1>2, <1>3, LeastNumber
<1>5. \A k \in i .. j - 1 : Char(text, k) \in chars  BY <1>1, <1>4
<1>6. \E n \in i .. Len(text) + 1 :
        Char(text, n) \notin chars /\ \A k \in i .. n - 1 : Char(text, k) \in chars
  BY <1>4, <1>5
<1> QED  BY <1>6 DEF After

\* What readString does at a position, given what it does at the later ones.
ReadOn(text, j, f) ==
  IF Char(text, j) = NUL THEN [ok |-> FALSE, text |-> <<>>, next |-> j]
  ELSE IF Char(text, j) = Quote /\ Char(text, j + 1) # Quote
       THEN [ok |-> TRUE, text |-> <<>>, next |-> j + 1]
  ELSE [f[IF Char(text, j) = Quote THEN j + 2 ELSE j + 1]
          EXCEPT !.text = <<Char(text, j)>> \o @]

Readings == [ok : BOOLEAN, text : Seq(Chars), next : Nat]

\* It goes on, if at all, at a later position that is not beyond the end.
LEMMA ReadsOn ==
  ASSUME NEW text \in Seq(Chars), NEW j \in 1 .. Len(text) + 1, Char(text, j) # NUL,
         ~(Char(text, j) = Quote /\ Char(text, j + 1) # Quote)
  PROVE  /\ Len(text) \in Nat /\ j <= Len(text)
         /\ Char(text, j) = text[j] /\ text[j] \in Chars
         /\ Char(text, j) = Quote => j + 2 \in j + 1 .. Len(text) + 1 /\ text[j + 1] = Quote
         /\ j + 1 \in j + 1 .. Len(text) + 1
<1>1. Len(text) \in Nat  BY LenProperties
<1>2. j \in 1 .. Len(text) + 2 /\ j + 1 \in 1 .. Len(text) + 2  BY <1>1
<1>3. j <= Len(text) /\ Char(text, j) = text[j] /\ text[j] \in Chars
  BY <1>1, <1>2, CharFacts
<1>4. ASSUME Char(text, j) = Quote
      PROVE  j + 2 \in j + 1 .. Len(text) + 1 /\ text[j + 1] = Quote
  <2>1. Char(text, j + 1) = Quote  BY <1>4
  <2>2. Quote # NUL  BY DEF Quote, NUL
  <2>3. j + 1 <= Len(text) /\ text[j + 1] = Quote  BY <1>1, <1>2, <2>1, <2>2, CharFacts
  <2> QED  BY <1>1, <2>3
<1> QED  BY <1>1, <1>3, <1>4

\* So the recursion has a solution.
LEMMA ReadingExists ==
  ASSUME NEW text \in Seq(Chars), NEW i \in 1 .. Len(text) + 1
  PROVE  \E f \in [i .. Len(text) + 1 -> Readings] :
           \A j \in i .. Len(text) + 1 : f[j] = ReadOn(text, j, f)
<1> DEFINE n == Len(text) + 1
           P == i .. n
           rank == [j \in P |-> n - j]
           Def == [j \in P |-> [f \in [P -> Readings] |-> ReadOn(text, j, f)]]
<1>1. n \in Nat /\ i \in Nat /\ i >= 1 /\ \A j \in P : j \in 1 .. Len(text) + 1 /\ j \in Nat
  BY LenProperties
<1>2. ASSUME NEW j \in P, NEW f \in [P -> Readings]
      PROVE  ReadOn(text, j, f) \in Readings
  <2>1. CASE Char(text, j) = NUL
    <3>1. ReadOn(text, j, f) = [ok |-> FALSE, text |-> <<>>, next |-> j]  BY <2>1 DEF ReadOn
    <3> QED  BY <1>1, <3>1, EmptySeq DEF Readings
  <2>2. CASE Char(text, j) # NUL /\ Char(text, j) = Quote /\ Char(text, j + 1) # Quote
    <3>1. ReadOn(text, j, f) = [ok |-> TRUE, text |-> <<>>, next |-> j + 1]  BY <2>2 DEF ReadOn
    <3>2. j + 1 \in Nat  BY <1>1
    <3> QED  BY <3>1, <3>2, EmptySeq DEF Readings
  <2>3. CASE Char(text, j) # NUL /\ ~(Char(text, j) = Quote /\ Char(text, j + 1) # Quote)
    <3> DEFINE k == IF Char(text, j) = Quote THEN j + 2 ELSE j + 1
    <3>1. k \in P /\ Char(text, j) \in Chars  BY <1>1, <2>3, ReadsOn
    <3> HIDE DEF k
    <3>2. f[k] \in Readings  BY <3>1
    <3>3. ReadOn(text, j, f) = [f[k] EXCEPT !.text = <<Char(text, j)>> \o @]
      BY <2>3 DEF ReadOn, k
    <3>4. <<Char(text, j)>> \o f[k].text \in Seq(Chars)
      <4>1. <<Char(text, j)>> \in Seq(Chars) /\ f[k].text \in Seq(Chars)
        BY <3>1, <3>2 DEF Readings
      <4> QED  BY <4>1, ConcatProperties
    <3> QED  BY <3>2, <3>3, <3>4 DEF Readings
  <2> QED  BY <2>1, <2>2, <2>3
<1>3. rank \in [P -> Nat] /\ \A j \in P : rank[j] = n - j  BY <1>1
<1>4. Def \in [P -> [[P -> Readings] -> Readings]]  BY <1>2
<1>5. \A j \in P, f \in [P -> Readings] : Def[j][f] = ReadOn(text, j, f)  OBVIOUS
<1>6. ASSUME NEW j \in P, NEW f \in [P -> Readings], NEW g \in [P -> Readings],
             \A q \in P : rank[q] < rank[j] => f[q] = g[q]
      PROVE  ReadOn(text, j, f) = ReadOn(text, j, g)
  <2>1. CASE Char(text, j) # NUL /\ ~(Char(text, j) = Quote /\ Char(text, j + 1) # Quote)
    <3> DEFINE k == IF Char(text, j) = Quote THEN j + 2 ELSE j + 1
    <3>1. k \in P /\ k > j  BY <1>1, <2>1, ReadsOn
    <3>2. f[k] = g[k]  BY <1>1, <1>3, <1>6, <3>1
    <3> QED  BY <3>2 DEF ReadOn
  <2>2. CASE Char(text, j) = NUL \/ (Char(text, j) = Quote /\ Char(text, j + 1) # Quote)
    BY <2>2 DEF ReadOn
  <2> QED  BY <2>1, <2>2
<1>7. Readings # {}
  <2>1. [ok |-> TRUE, text |-> <<>>, next |-> 0] \in Readings  BY EmptySeq DEF Readings
  <2> QED  BY <2>1
<1> HIDE DEF Def, rank, P, n
<1>8. RankedDefinition(P, Readings, rank, Def)
  <2>1. ASSUME NEW j \in P, NEW f \in [P -> Readings], NEW g \in [P -> Readings],
               \A q \in P : rank[q] < rank[j] => f[q] = g[q]
        PROVE  Def[j][f] = Def[j][g]
    <3>1. Def[j][f] = ReadOn(text, j, f) /\ Def[j][g] = ReadOn(text, j, g)  BY <1>5
    <3> QED  BY <1>6, <2>1, <3>1
  <2> QED  BY <1>3, <1>4, <2>1 DEF RankedDefinition
<1>9. \E f \in [P -> Readings] : \A j \in P : f[j] = Def[j][f]
  BY <1>7, <1>8, RecursiveFunctionExists
<1>10. PICK f \in [P -> Readings] : \A j \in P : f[j] = Def[j][f]  BY <1>9
<1>11. \A j \in P : f[j] = ReadOn(text, j, f)  BY <1>5, <1>10
<1> QED  BY <1>10, <1>11 DEF P, n
\* A part of one character.
LEMMA OneCharacter ==
  ASSUME NEW text \in Seq(Chars), NEW i \in 1 .. Len(text)
  PROVE  SubSeq(text, i, i) = <<text[i]>>
<1>1. Len(text) \in Nat /\ text[i] \in Chars  BY LenProperties
<1>2. SubSeq(text, i, i) = <<text[i]>> \o SubSeq(text, i + 1, i)
  BY <1>1, SubSeqRecursiveFirst
<1>3. SubSeq(text, i + 1, i) = <<>>  BY <1>1, SubSeqEmpty
<1>4. <<text[i]>> \in Seq(Chars)  BY <1>1
<1> QED  BY <1>2, <1>3, <1>4, ConcatEmptySeq

\* A part of two.
LEMMA TwoCharacters ==
  ASSUME NEW text \in Seq(Chars), NEW i \in 1 .. Len(text), i + 1 \in 1 .. Len(text)
  PROVE  SubSeq(text, i, i + 1) = <<text[i], text[i + 1]>>
<1> DEFINE p == SubSeq(text, i, i + 1)
           q == <<text[i], text[i + 1]>>
<1>1. /\ Len(text) \in Nat /\ \A k \in 1 .. Len(text) : text[k] \in Chars
      /\ i \in Int /\ i + 1 \in Int /\ i + 1 - i + 1 = 2 /\ i <= i + 1
      /\ i + 1 - 1 = i /\ i + 2 - 1 = i + 1
  BY LenProperties
<1>2. p \in Seq(Chars) /\ Len(p) = 2 /\ \A m \in 1 .. 2 : p[m] = text[i + m - 1]
  <2>1. \A k \in i .. i + 1 : text[k] \in Chars  BY <1>1
  <2> QED  BY <1>1, <2>1, SubSeqProperties
<1>3. q \in Seq(Chars) /\ Len(q) = 2 /\ q[1] = text[i] /\ q[2] = text[i + 1]  BY <1>1
<1> HIDE DEF p, q
<1>4. p[1] = text[i] /\ p[2] = text[i + 1]
  <2>1. p[1] = text[i + 1 - 1] /\ p[2] = text[i + 2 - 1]  BY <1>2
  <2> QED  BY <1>1, <2>1
<1>5. \A m \in 1 .. 2 : p[m] = q[m]  BY <1>3, <1>4
<1>6. p = q  BY <1>2, <1>3, <1>5, SeqEqual
<1> QED  BY <1>6 DEF p, q

\* A reading stands for the text from a position up to the next one: if it is
\* closed, doubling its quotes gives that text.
ReadRightly(text, j, r) ==
  /\ r \in Readings
  /\ r.next \in j .. Len(text) + 1
  /\ r.ok => /\ r.next \in j + 1 .. Len(text) + 1
             /\ Spread(DoubledOf, r.text) \o <<Quote>> = SubSeq(text, j, r.next - 1)

\* One character, or two quotes, more in front of a reading.
LEMMA ReadOneMore ==
  ASSUME NEW text \in Seq(Chars), NEW j \in 1 .. Len(text) + 1, Char(text, j) # NUL,
         ~(Char(text, j) = Quote /\ Char(text, j + 1) # Quote),
         NEW k, k = IF Char(text, j) = Quote THEN j + 2 ELSE j + 1,
         NEW r, ReadRightly(text, k, r)
  PROVE  ReadRightly(text, j, [r EXCEPT !.text = <<Char(text, j)>> \o @])
<1> DEFINE c == Char(text, j)
           q == [r EXCEPT !.text = <<c>> \o @]
<1>1. /\ Len(text) \in Nat /\ j \in Nat /\ j >= 1 /\ j <= Len(text)
      /\ c = text[j] /\ c \in Chars
      /\ c = Quote => j + 2 \in j + 1 .. Len(text) + 1 /\ text[j + 1] = Quote
      /\ k \in j + 1 .. Len(text) + 1
  BY ReadsOn
<1> HIDE DEF c
<1>2. r \in Readings /\ r.text \in Seq(Chars) /\ r.next \in Nat /\ r.ok \in BOOLEAN
  BY DEF ReadRightly, Readings
<1>3. <<c>> \in Seq(Chars) /\ <<c>> \o r.text \in Seq(Chars)
  <2>1. <<c>> \in Seq(Chars)  BY <1>1
  <2> QED  BY <1>2, <2>1, ConcatProperties
<1>4. q \in Readings /\ q.text = <<c>> \o r.text /\ q.next = r.next /\ q.ok = r.ok
  BY <1>2, <1>3 DEF Readings
<1> HIDE DEF q
<1>5. r.next \in k .. Len(text) + 1  BY DEF ReadRightly
<1>6. ASSUME r.ok
      PROVE  Spread(DoubledOf, q.text) \o <<Quote>> = SubSeq(text, j, r.next - 1)
  <2>1. /\ r.next \in k + 1 .. Len(text) + 1
        /\ Spread(DoubledOf, r.text) \o <<Quote>> = SubSeq(text, k, r.next - 1)
    BY <1>6 DEF ReadRightly
  <2> DEFINE w == Spread(DoubledOf, r.text)
             d == Doubled(c)
             e == <<Quote>>
  <2>2. w \in Seq(Chars) /\ e \in Seq(Chars)
    <3>1. Quote \in Chars  BY DEF Chars
    <3>2. w \in Seq(Chars)  BY <1>2, CharacterTexts, TextOfText
    <3> QED  BY <3>1, <3>2
  <2>3. d = DoubledOf[c] /\ d \in Seq(Chars)  BY <1>1, CharacterTexts DEF DoubledOf
  <2>4. Spread(DoubledOf, q.text) = Spread(DoubledOf, <<c>>) \o w
    <3>1. DoubledOf \in [Chars -> Seq(Chars)]  BY CharacterTexts
    <3>2. <<c>> \in Seq(Chars) /\ r.text \in Seq(Chars) /\ q.text = <<c>> \o r.text
      BY <1>2, <1>3, <1>4
    <3>3. \A a, b \in Seq(Chars) :
            Spread(DoubledOf, a \o b) = Spread(DoubledOf, a) \o Spread(DoubledOf, b)
      BY <3>1, TextsJoined
    <3> QED  BY <3>2, <3>3, Zenon
  <2>5. Spread(DoubledOf, <<c>>) = d
    <3>1. <<>> \in Seq(Chars) /\ <<c>> = Append(<<>>, c)  BY EmptySeq
    <3>2. Spread(DoubledOf, Append(<<>>, c)) = Spread(DoubledOf, <<>>) \o DoubledOf[c]
      BY <1>1, <3>1, OneTextMore, CharacterTexts
    <3>3. Spread(DoubledOf, <<>>) = <<>>  BY SpreadNothing
    <3>4. <<>> \o d = d  BY <2>3, ConcatEmptySeq
    <3> QED  BY <2>3, <3>1, <3>2, <3>3, <3>4
  <2>6. SubSeq(text, j, k - 1) = d
    <3>1. CASE c = Quote
      <4>1. k = j + 2 /\ j + 1 \in 1 .. Len(text) /\ j \in 1 .. Len(text)
            /\ text[j] = Quote /\ text[j + 1] = Quote
        BY <1>1, <3>1 DEF c
      <4>2. d = <<Quote, Quote>>  BY <3>1 DEF Doubled
      <4>3. SubSeq(text, j, j + 1) = <<text[j], text[j + 1]>>  BY <4>1, TwoCharacters
      <4>4. k - 1 = j + 1  BY <1>1, <4>1
      <4> QED  BY <4>1, <4>2, <4>3, <4>4
    <3>2. CASE c # Quote
      <4>1. k - 1 = j /\ j \in 1 .. Len(text)  BY <1>1, <3>2 DEF c
      <4>2. d = <<text[j]>>  BY <1>1, <3>2 DEF Doubled
      <4> QED  BY <4>1, <4>2, OneCharacter
    <3> QED  BY <3>1, <3>2
  <2>7. SubSeq(text, j, k - 1) \o SubSeq(text, k, r.next - 1) = SubSeq(text, j, r.next - 1)
    <3>1. /\ j \in 1 .. Len(text) + 1 /\ k - 1 \in j - 1 .. Len(text)
          /\ r.next - 1 \in k - 1 .. Len(text) /\ k - 1 + 1 = k
      <4>1. PICK len \in Nat : len = Len(text)  BY <1>1
      <4>2. k \in j + 1 .. len + 1 /\ j \in Nat /\ j >= 1 /\ j <= len  BY <1>1, <4>1
      <4>3. PICK n : n = r.next /\ n \in k + 1 .. len + 1  BY <2>1, <4>1
      <4>4. /\ j \in 1 .. len + 1 /\ k - 1 \in j - 1 .. len
            /\ n - 1 \in k - 1 .. len /\ k - 1 + 1 = k
        BY ONLY <4>1, <4>2, <4>3
      <4> QED  BY <4>1, <4>3, <4>4
    <3>2. SubSeq(text, j, k - 1) \o SubSeq(text, k - 1 + 1, r.next - 1)
            = SubSeq(text, j, r.next - 1)
      BY <3>1, ConcatAdjacentSubSeq
    <3> QED  BY <3>1, <3>2
  <2> HIDE DEF w, d, e
  <2>8. (d \o w) \o e = d \o (w \o e)
    BY <2>2, <2>3, TextsAssociate
  <2> QED  BY <2>1, <2>4, <2>5, <2>6, <2>7, <2>8 DEF w, e
<1>7. r.ok => r.next \in j + 1 .. Len(text) + 1  BY <1>1, <1>5
<1>8. r.next \in j .. Len(text) + 1  BY <1>1, <1>5
<1> QED  BY <1>4, <1>6, <1>7, <1>8 DEF ReadRightly, q, c

\* readString reads a text rightly.
LEMMA ReadStringFacts ==
  ASSUME NEW text \in Seq(Chars), NEW i \in 1 .. Len(text) + 1
  PROVE  ReadRightly(text, i, ReadString(text, i))
<1> DEFINE P == i .. Len(text) + 1
           g == CHOOSE h : h = [j \in i .. (Len(text) + 1) |-> ReadOn(text, j, h)]
<1>1. PICK f \in [P -> Readings] : \A j \in P : f[j] = ReadOn(text, j, f)
  BY ReadingExists
<1>2. f = [j \in P |-> ReadOn(text, j, f)]  BY <1>1
<1>3. g = [j \in P |-> ReadOn(text, j, g)]  BY <1>2
<1>4. ReadString(text, i) = g[i]  BY DEF ReadString, ReadOn
<1> HIDE DEF g
<1>5. Len(text) \in Nat /\ i \in P /\ \A j \in P : j \in 1 .. Len(text) + 1
  BY LenProperties
<1>6. \A j \in P : g[j] = ReadOn(text, j, g)
  <2> HIDE DEF P
  <2> QED  BY <1>3
<1> DEFINE rank == [j \in P |-> Len(text) + 1 - j]
           T == {j \in P : ReadRightly(text, j, g[j])}
<1>7. rank \in [P -> Nat] /\ \A j \in P : rank[j] = Len(text) + 1 - j  BY <1>5
<1>8. ASSUME NEW j \in P, \A q \in P : rank[q] < rank[j] => q \in T PROVE j \in T
  <2> SUFFICES ReadRightly(text, j, g[j])  OBVIOUS
  <2> HIDE DEF T, rank
  <2>0. g[j] = ReadOn(text, j, g) /\ j \in Nat  BY <1>5, <1>6
  <2>1. CASE Char(text, j) = NUL
    <3>1. g[j] = [ok |-> FALSE, text |-> <<>>, next |-> j]  BY <2>0, <2>1 DEF ReadOn
    <3> QED  BY <1>5, <2>0, <3>1, EmptySeq DEF ReadRightly, Readings
  <2>2. CASE Char(text, j) # NUL /\ Char(text, j) = Quote /\ Char(text, j + 1) # Quote
    <3>1. g[j] = [ok |-> TRUE, text |-> <<>>, next |-> j + 1]  BY <2>0, <2>2 DEF ReadOn
    <3>2. j \in 1 .. Len(text) + 2 /\ j \in 1 .. Len(text) + 1  BY <1>5
    <3>3. j \in 1 .. Len(text) /\ text[j] = Quote  BY <1>5, <2>2, <3>2, CharFacts
    <3>4. SubSeq(text, j, j) = <<Quote>>  BY <3>3, OneCharacter
    <3>5. Spread(DoubledOf, <<>>) \o <<Quote>> = <<Quote>>
      <4>1. Spread(DoubledOf, <<>>) = <<>>  BY SpreadNothing
      <4>2. <<Quote>> \in Seq({Quote})  OBVIOUS
      <4> QED  BY <4>1, <4>2, ConcatEmptySeq
    <3>6. j + 1 \in j + 1 .. Len(text) + 1 /\ j + 1 - 1 = j  BY <3>3, <1>5
    <3>7. <<>> \in Seq(Chars)  BY EmptySeq
    <3>8. PICK r : r = g[j]  OBVIOUS
    <3>9. r.ok = TRUE /\ r.text = <<>> /\ r.next = j + 1  BY <3>1, <3>8
    <3>10. r \in Readings  BY <2>0, <3>1, <3>7, <3>8 DEF Readings
    <3>11. Spread(DoubledOf, r.text) \o <<Quote>> = SubSeq(text, j, r.next - 1)
      <4>1. r.next - 1 = j  BY <3>6, <3>9
      <4>2. SubSeq(text, j, r.next - 1) = SubSeq(text, j, j)  BY <4>1
      <4>3. Spread(DoubledOf, r.text) = Spread(DoubledOf, <<>>)  BY <3>9
      <4> QED  BY <3>4, <3>5, <4>2, <4>3
    <3>12. r.next \in j + 1 .. Len(text) + 1 /\ r.next \in j .. Len(text) + 1
      BY <1>5, <2>0, <3>6, <3>9
    <3>13. ReadRightly(text, j, r)  BY <3>10, <3>11, <3>12 DEF ReadRightly
    <3> QED  BY <3>8, <3>13
  <2>3. CASE Char(text, j) # NUL /\ ~(Char(text, j) = Quote /\ Char(text, j + 1) # Quote)
    <3> DEFINE k == IF Char(text, j) = Quote THEN j + 2 ELSE j + 1
    <3>1. k \in P /\ k > j  BY <1>5, <2>3, ReadsOn
    <3>2. k \in T  BY <1>5, <1>7, <1>8, <3>1
    <3>3. ReadRightly(text, k, g[k])  BY <3>2 DEF T
    <3>4. g[j] = [g[k] EXCEPT !.text = <<Char(text, j)>> \o @]
      BY <2>0, <2>3 DEF ReadOn
    <3>5. j \in 1 .. Len(text) + 1  BY <1>5
    <3>6. k = IF Char(text, j) = Quote THEN j + 2 ELSE j + 1  OBVIOUS
    <3> HIDE DEF k, P
    <3>7. PICK r : r = g[k]  OBVIOUS
    <3>8. ReadRightly(text, k, r)  BY <3>3, <3>7
    <3>9. ReadRightly(text, j, [r EXCEPT !.text = <<Char(text, j)>> \o @])
      BY <2>3, <3>5, <3>6, <3>8, ReadOneMore
    <3> QED  BY <3>4, <3>7, <3>9
  <2> QED  BY <2>1, <2>2, <2>3
<1> HIDE DEF T, rank, P
<1>9. \A j \in P : j \in T  BY <1>7, <1>8, RankInduction
<1> QED  BY <1>4, <1>5, <1>9 DEF T

----------------------------------------------------------------------------
\* One token

\* The characters that a step has passed: NUL is not one of the line.
Passed(text, i, after) == SubSeq(text, i, IF after <= Len(text) THEN after - 1 ELSE Len(text))

\* What the token at i has to be.
TokenRight(text, i, r) ==
  /\ r.token \in TokenSet
  /\ r.next \in i + 1 .. Len(text) + 2
  /\ r.next = Len(text) + 2 => r.token.type = "EOF"
  /\ r.token # NoText => Dense(Spelling(r.token)) = Dense(Passed(text, i, r.next))

\* A token whose literal is the characters it was read from.
LEMMA LiteralToken ==
  ASSUME NEW text \in Seq(Chars), NEW i \in 1 .. Len(text), NEW after \in i + 1 .. Len(text) + 1,
         NEW type \in TokenTypes, type \notin {"EOF", "STRING_LIT"}
  PROVE  TokenRight(text, i, [token |-> Token(type, SubSeq(text, i, after - 1)), next |-> after])
<1> DEFINE literal == SubSeq(text, i, after - 1)
           token == Token(type, literal)
<1>1. Len(text) \in Nat /\ \A k \in 1 .. Len(text) : text[k] \in Chars  BY LenProperties
<1>2. literal \in Seq(Chars)  BY <1>1, SubSeqProperties
<1> HIDE DEF literal
<1>3. token \in TokenSet /\ token.type = type /\ token.literal = literal
  BY <1>2 DEF Token, TokenSet
<1> HIDE DEF token
<1>4. Spelling(token) = literal  BY <1>3, SpellingFacts
<1>5. Passed(text, i, after) = literal
  <2>1. CASE after <= Len(text)  BY <2>1 DEF Passed, literal
  <2>2. CASE ~(after <= Len(text))
    <3>1. Len(text) = after - 1  BY <1>1, <2>2
    <3> QED  BY <2>2, <3>1 DEF Passed, literal
  <2> QED  BY <2>1, <2>2
<1>6. after \in i + 1 .. Len(text) + 2 /\ after # Len(text) + 2  BY <1>1
<1> DEFINE r == [token |-> token, next |-> after]
<1>7. r.token = token /\ r.next = after  OBVIOUS
<1> HIDE DEF r
<1>8. TokenRight(text, i, r)  BY <1>3, <1>4, <1>5, <1>6, <1>7 DEF TokenRight
<1> QED  BY <1>8 DEF r, token, literal
\* NUL is no character of a name or a number, and no blank.
LEMMA NulAside == NUL \notin Blanks /\ NUL \notin Digits /\ NUL \notin NameChars
<1>1. NUL \notin Digits
  <2>1. DOMAIN Numerals = 1 .. 10  BY DEF Numerals
  <2>2. \A i \in 1 .. 10 : Numerals[i] # NUL  BY DEF Numerals, NUL
  <2> QED  BY <2>1, <2>2 DEF Digits
<1> QED  BY <1>1, LexerAssumption DEF Blanks, NameChars, NUL

\* A word or a number is read to its end.
LEMMA WordToken ==
  ASSUME NEW text \in Seq(Chars), NEW i \in 1 .. Len(text), NEW chars, NUL \notin chars,
         Char(text, i) \in chars,
         NEW type \in TokenTypes, type \notin {"EOF", "STRING_LIT"}
  PROVE  LET after == After(text, i, chars)
         IN  TokenRight(text, i, [token |-> Token(type, SubSeq(text, i, after - 1)), next |-> after])
<1>1. Len(text) \in Nat /\ i \in 1 .. Len(text) + 1  BY LenProperties
<1>2. PICK after : after = After(text, i, chars)  OBVIOUS
<1>3. after \in i .. Len(text) + 1 /\ Char(text, after) \notin chars
  BY <1>1, <1>2, AfterFacts
<1>4. after # i  BY <1>3
<1>5. after \in i + 1 .. Len(text) + 1  BY <1>1, <1>3, <1>4
<1> QED  BY <1>2, <1>5, LiteralToken

\* The end of the line.
LEMMA EndToken ==
  ASSUME NEW text \in Seq(Chars), NEW i \in 1 .. Len(text) + 1, Char(text, i) = NUL
  PROVE  TokenRight(text, i, [token |-> Token("EOF", <<>>), next |-> i + 1])
<1> DEFINE token == Token("EOF", <<>>)
           passed == Passed(text, i, i + 1)
           last == IF i + 1 <= Len(text) THEN i + 1 - 1 ELSE Len(text)
           r == [token |-> token, next |-> i + 1]
<1>1. Len(text) \in Nat /\ i \in Nat /\ i >= 1 /\ \A k \in 1 .. Len(text) : text[k] \in Chars
  BY LenProperties
<1>2. token \in TokenSet /\ token.type = "EOF"
  BY EmptySeq DEF Token, TokenSet, TokenTypes
<1>3. Dense(Spelling(token)) = <<>>
  BY <1>2, SpellingFacts, DenseNothing
<1>4. Dense(passed) = <<>>
  <2>1. passed = SubSeq(text, i, last)  BY DEF Passed
  <2>2. last \in Int /\ last <= i /\ last <= Len(text)  BY <1>1
  <2> HIDE DEF last, passed
  <2>3. \A k \in i .. last : text[k] \in Chars /\ text[k] = NUL
    <3> SUFFICES ASSUME NEW k \in i .. last PROVE text[k] \in Chars /\ text[k] = NUL
      OBVIOUS
    <3>1. k = i /\ i \in 1 .. Len(text) /\ i \in 1 .. Len(text) + 2  BY <1>1, <2>2
    <3> QED  BY <3>1, CharFacts
  <2>4. /\ passed \in Seq(Chars)
        /\ Len(passed) = IF i <= last THEN last - i + 1 ELSE 0
        /\ \A m \in 1 .. last - i + 1 : passed[m] = text[i + m - 1]
    BY <1>1, <2>1, <2>2, <2>3, SubSeqProperties
  <2>5. \A m \in 1 .. Len(passed) : passed[m] \in Blanks \cup {NUL}
    <3> SUFFICES ASSUME NEW m \in 1 .. Len(passed) PROVE passed[m] = NUL
      OBVIOUS
    <3>1. m \in 1 .. last - i + 1 /\ i + m - 1 \in i .. last  BY <1>1, <2>2, <2>4
    <3> QED  BY <2>3, <2>4, <3>1
  <2> QED  BY <2>4, <2>5, DenseBlanks
<1>5. r.token = token /\ r.next = i + 1 /\ i + 1 \in i + 1 .. Len(text) + 2  BY <1>1
<1> HIDE DEF r, token
<1>6. TokenRight(text, i, r)  BY <1>2, <1>3, <1>4, <1>5 DEF TokenRight, passed
<1> QED  BY <1>6 DEF r, token

\* A text in quotes, or what is left of the line when its quote is not closed.
LEMMA TextToken ==
  ASSUME NEW text \in Seq(Chars), NEW i \in 1 .. Len(text), Char(text, i) = Quote,
         NEW s, s = ReadString(text, i + 1)
  PROVE  TokenRight(text, i,
           [token |-> Token(IF s.ok THEN "STRING_LIT" ELSE "ILLEGAL", IF s.ok THEN s.text ELSE <<>>),
            next |-> s.next])
<1> DEFINE token == Token(IF s.ok THEN "STRING_LIT" ELSE "ILLEGAL", IF s.ok THEN s.text ELSE <<>>)
           r == [token |-> token, next |-> s.next]
<1>1. Len(text) \in Nat /\ i \in Nat /\ i >= 1 /\ i + 1 \in 1 .. Len(text) + 1
      /\ i \in 1 .. Len(text) + 2
  BY LenProperties
<1>2. text[i] = Quote  BY <1>1, CharFacts
<1>3. ReadRightly(text, i + 1, s)  BY <1>1, ReadStringFacts
<1>4. /\ s.ok \in BOOLEAN /\ s.text \in Seq(Chars) /\ s.next \in i + 1 .. Len(text) + 1
      /\ s.ok => /\ s.next \in i + 2 .. Len(text) + 1
                 /\ Spread(DoubledOf, s.text) \o <<Quote>> = SubSeq(text, i + 1, s.next - 1)
  BY <1>1, <1>3 DEF ReadRightly, Readings
<1>5. s.next \in i + 1 .. Len(text) + 2 /\ s.next # Len(text) + 2  BY <1>1, <1>4
<1>6. r.token = token /\ r.next = s.next  OBVIOUS
<1>7. CASE ~s.ok
  <2>1. token = NoText  BY <1>7 DEF NoText
  <2>2. token \in TokenSet  BY <2>1, EmptySeq DEF NoText, Token, TokenSet, TokenTypes
  <2> HIDE DEF r, token
  <2>3. TokenRight(text, i, r)  BY <1>5, <1>6, <2>1, <2>2 DEF TokenRight
  <2> QED  BY <2>3 DEF r, token
<1>8. CASE s.ok
  <2>1. token \in TokenSet /\ token.type = "STRING_LIT" /\ token.literal = s.text
    BY <1>4, <1>8 DEF Token, TokenSet, TokenTypes
  <2> HIDE DEF r, token
  <2>2. Spelling(token) = <<Quote>> \o Spread(DoubledOf, s.text) \o <<Quote>>
    BY <2>1, SpellingFacts
  <2> DEFINE w == Spread(DoubledOf, s.text)
             e == <<Quote>>
  <2>3. w \in Seq(Chars) /\ e \in Seq(Chars)
    <3>1. Quote \in Chars  BY DEF Chars
    <3>2. w \in Seq(Chars)  BY <1>4, CharacterTexts, TextOfText
    <3> QED  BY <3>1, <3>2
  <2>4. SubSeq(text, i, i) = e  BY <1>2, OneCharacter
  <2>5. SubSeq(text, i, i) \o SubSeq(text, i + 1, s.next - 1) = SubSeq(text, i, s.next - 1)
    <3>1. i \in 1 .. Len(text) + 1 /\ i \in i - 1 .. Len(text) /\ s.next - 1 \in i .. Len(text)
      BY <1>1, <1>4, <1>8
    <3> QED  BY <3>1, ConcatAdjacentSubSeq
  <2> HIDE DEF w, e
  <2>6. (e \o w) \o e = e \o (w \o e)  BY <2>3, TextsAssociate
  <2>7. Spelling(token) = SubSeq(text, i, s.next - 1)
    BY <1>4, <1>8, <2>2, <2>4, <2>5, <2>6 DEF w, e
  <2>8. Passed(text, i, s.next) = SubSeq(text, i, s.next - 1)
    <3>1. CASE s.next <= Len(text)  BY <3>1 DEF Passed
    <3>2. CASE ~(s.next <= Len(text))
      <4>1. Len(text) = s.next - 1  BY <1>1, <1>4, <3>2
      <4> QED  BY <3>2, <4>1 DEF Passed
    <3> QED  BY <3>1, <3>2
  <2>9. TokenRight(text, i, r)  BY <1>5, <1>6, <2>1, <2>7, <2>8 DEF TokenRight
  <2> QED  BY <2>9 DEF r, token
<1> QED  BY <1>4, <1>7, <1>8
\* The type of a word is a keyword or IDENT.
LEMMA IdentTypes ==
  ASSUME NEW literal
  PROVE  /\ LookupIdent(literal) \in TokenTypes
         /\ LookupIdent(literal) \notin {"EOF", "STRING_LIT"}
<1>1. LookupIdent(literal) \in Keywords \cup {"IDENT"}  BY DEF LookupIdent
<1>2. \A type \in Keywords \cup {"IDENT"} : type \notin {"EOF", "STRING_LIT"}
  BY DEF Keywords
<1> QED  BY <1>1, <1>2 DEF TokenTypes

\* Every token is right.
LEMMA TokenAtFacts ==
  ASSUME NEW text \in Seq(Chars), NEW i \in 1 .. Len(text) + 1
  PROVE  TokenRight(text, i, TokenAt(text, i))
<1> DEFINE c == Char(text, i)
<1>1. Len(text) \in Nat /\ i \in Nat /\ i >= 1 /\ i \in 1 .. Len(text) + 2  BY LenProperties
<1>2. CASE c = NUL
  <2>1. TokenAt(text, i) = [token |-> Token("EOF", <<>>), next |-> i + 1]
    BY <1>2 DEF TokenAt
  <2> QED  BY <1>2, <2>1, EndToken
<1>3. ASSUME c # NUL PROVE i \in 1 .. Len(text) /\ c = text[i]
  BY <1>1, <1>3, CharFacts
\* One character is the token.
<1>4. ASSUME c # NUL, NEW type \in TokenTypes, type \notin {"EOF", "STRING_LIT"}
      PROVE  TokenRight(text, i, [token |-> Token(type, <<c>>), next |-> i + 1])
  <2>1. i \in 1 .. Len(text) /\ c = text[i]  BY <1>3, <1>4
  <2>2. SubSeq(text, i, i) = <<c>>  BY <2>1, OneCharacter
  <2>3. i + 1 \in i + 1 .. Len(text) + 1 /\ i + 1 - 1 = i  BY <1>1, <2>1
  <2> HIDE DEF c
  <2>4. PICK after \in i + 1 .. Len(text) + 1 : after = i + 1 /\ after - 1 = i  BY <2>3
  <2>5. TokenRight(text, i, [token |-> Token(type, SubSeq(text, i, after - 1)), next |-> after])
    BY <1>4, <2>1, <2>4, LiteralToken
  <2> QED  BY <2>2, <2>4, <2>5
<1>5. CASE c # NUL /\ c \in Marks
  <2>1. TokenAt(text, i) = [token |-> Token(c, <<c>>), next |-> i + 1]
    BY <1>5 DEF TokenAt
  <2>2. c \in TokenTypes /\ c \notin {"EOF", "STRING_LIT"}  BY <1>5 DEF TokenTypes, Marks
  <2> QED  BY <1>4, <1>5, <2>1, <2>2
<1>6. CASE c # NUL /\ c \notin Marks /\ c \in {"<", ">", "!"} /\ Char(text, i + 1) = "="
  <2> DEFINE type == CASE c = "<" -> "<=" [] c = ">" -> ">=" [] c = "!" -> "!="
  <2>1. TokenAt(text, i) = [token |-> Token(type, <<c, "=">>), next |-> i + 2]
    BY <1>6 DEF TokenAt
  <2>2. type \in {"<=", ">=", "!="}  BY <1>6
  <2>3. type \in TokenTypes /\ type \notin {"EOF", "STRING_LIT"}  BY <2>2 DEF TokenTypes
  <2>4. i \in 1 .. Len(text) /\ c = text[i]  BY <1>3, <1>6
  <2>5. i + 1 \in 1 .. Len(text) /\ text[i + 1] = "="
    <3>1. i + 1 \in 1 .. Len(text) + 2 /\ "=" # NUL  BY <1>1, <2>4 DEF NUL
    <3> QED  BY <1>1, <1>6, <3>1, CharFacts
  <2>6. SubSeq(text, i, i + 1) = <<c, "=">>  BY <2>4, <2>5, TwoCharacters
  <2>7. i + 2 \in i + 1 .. Len(text) + 1 /\ i + 2 - 1 = i + 1  BY <1>1, <2>5
  <2> HIDE DEF c, type
  <2>8. PICK after \in i + 1 .. Len(text) + 1 : after = i + 2 /\ after - 1 = i + 1  BY <2>7
  <2>9. TokenRight(text, i, [token |-> Token(type, SubSeq(text, i, after - 1)), next |-> after])
    BY <2>3, <2>4, <2>8, LiteralToken
  <2> QED  BY <2>1, <2>6, <2>8, <2>9
<1>7. CASE c # NUL /\ c \notin Marks /\ ~(c \in {"<", ">", "!"} /\ Char(text, i + 1) = "=")
  <2>1. CASE c \in {"<", ">"}
    <3>1. TokenAt(text, i) = [token |-> Token(c, <<c>>), next |-> i + 1]
      BY <1>7, <2>1 DEF TokenAt
    <3>2. c \in TokenTypes /\ c \notin {"EOF", "STRING_LIT"}  BY <2>1 DEF TokenTypes
    <3> QED  BY <1>4, <1>7, <3>1, <3>2
  <2>2. CASE c \notin {"<", ">"} /\ c = Quote
    <3>1. PICK s : s = ReadString(text, i + 1)  OBVIOUS
    <3>2. TokenAt(text, i) =
            [token |-> Token(IF s.ok THEN "STRING_LIT" ELSE "ILLEGAL", IF s.ok THEN s.text ELSE <<>>),
             next |-> s.next]
      BY <1>7, <2>2, <3>1 DEF TokenAt
    <3>3. i \in 1 .. Len(text)  BY <1>3, <1>7
    <3> QED  BY <2>2, <3>1, <3>2, <3>3, TextToken
  <2>3. CASE c \notin {"<", ">"} /\ c # Quote /\ c \in Letters \cup {"_"}
    <3> DEFINE after == After(text, i, NameChars)
               literal == SubSeq(text, i, after - 1)
    <3>1. TokenAt(text, i) = [token |-> Token(LookupIdent(literal), literal), next |-> after]
      BY <1>7, <2>3 DEF TokenAt
    <3>2. c \in NameChars  BY <2>3 DEF NameChars
    <3>3. i \in 1 .. Len(text)  BY <1>3, <1>7
    <3>4. PICK type : type = LookupIdent(literal)  OBVIOUS
    <3>5. type \in TokenTypes /\ type \notin {"EOF", "STRING_LIT"}  BY <3>4, IdentTypes
    <3>6. TokenRight(text, i, [token |-> Token(type, literal), next |-> after])
      BY <3>2, <3>3, <3>5, NulAside, WordToken
    <3> QED  BY <3>1, <3>4, <3>6
  <2>4. CASE c \notin {"<", ">"} /\ c # Quote /\ c \notin Letters \cup {"_"} /\ c \in Digits
    <3> DEFINE after == After(text, i, Digits)
               literal == SubSeq(text, i, after - 1)
    <3>1. TokenAt(text, i) = [token |-> Token("INT_LIT", literal), next |-> after]
      BY <1>7, <2>4 DEF TokenAt
    <3>2. i \in 1 .. Len(text)  BY <1>3, <1>7
    <3>3. "INT_LIT" \in TokenTypes /\ "INT_LIT" \notin {"EOF", "STRING_LIT"}  BY DEF TokenTypes
    <3>4. TokenRight(text, i, [token |-> Token("INT_LIT", literal), next |-> after])
      BY <2>4, <3>2, <3>3, NulAside, WordToken
    <3> QED  BY <3>1, <3>4
  <2>5. CASE c \notin {"<", ">"} /\ c # Quote /\ c \notin Letters \cup {"_"} /\ c \notin Digits
    <3>1. TokenAt(text, i) = [token |-> Token("ILLEGAL", <<c>>), next |-> i + 1]
      BY <1>7, <2>5 DEF TokenAt
    <3>2. "ILLEGAL" \in TokenTypes /\ "ILLEGAL" \notin {"EOF", "STRING_LIT"}  BY DEF TokenTypes
    <3> QED  BY <1>4, <1>7, <3>1, <3>2
  <2> QED  BY <2>1, <2>2, <2>3, <2>4, <2>5
<1> QED  BY <1>2, <1>5, <1>6, <1>7
----------------------------------------------------------------------------
\* One step of the lexer

\* The tokens are spelled one after the other.
LEMMA SpelledFacts ==
  ASSUME NEW ts \in Seq(TokenSet)
  PROVE  /\ FlattenSeq([n \in DOMAIN ts |-> Spelling(ts[n])]) = Spread(SpellingOf, ts)
         /\ Spread(SpellingOf, ts) \in Seq(Chars)
<1>1. \A n \in DOMAIN ts : ts[n] \in TokenSet  BY LenProperties
<1>2. [n \in DOMAIN ts |-> Spelling(ts[n])] = [n \in DOMAIN ts |-> SpellingOf[ts[n]]]
  BY <1>1 DEF SpellingOf
<1>3. Spread(SpellingOf, ts) \in Seq(Chars)
  <2>1. PICK g \in [TokenSet -> Seq(Chars)] : g = SpellingOf  BY SpellingFacts
  <2>2. Spread(g, ts) \in Seq(Chars)  BY SpreadType
  <2> QED  BY <2>1, <2>2
<1> QED  BY <1>2, <1>3 DEF Spread

\* A new line is at its beginning.
LEMMA LexStart ==
  ASSUME NEW text \in Seq(Chars)
  PROVE  LexState(text, 1, <<>>)
<1>1. Len(text) \in Nat  BY LenProperties
<1>2. <<>> \in Seq(TokenSet)  BY EmptySeq
<1>3. FlattenSeq([n \in DOMAIN <<>> |-> Spelling(<<>>[n])]) = <<>>
  <2>1. PICK ts \in Seq(TokenSet) : ts = <<>>  BY <1>2
  <2>2. FlattenSeq([n \in DOMAIN ts |-> Spelling(ts[n])]) = Spread(SpellingOf, ts)
    BY SpelledFacts
  <2>3. Spread(SpellingOf, ts) = <<>>  BY <2>1, SpreadNothing
  <2> QED  BY <2>1, <2>2, <2>3
<1>4. SubSeq(text, 1, IF 1 <= Len(text) THEN 1 - 1 ELSE Len(text)) = <<>>
  <2>1. PICK m \in Int : m = (IF 1 <= Len(text) THEN 1 - 1 ELSE Len(text)) /\ m < 1
    BY <1>1
  <2>2. SubSeq(text, 1, m) = <<>>  BY <2>1, SubSeqEmpty
  <2> QED  BY <2>1, <2>2
<1>5. 1 \in 1 .. Len(text) + 2 /\ 1 # Len(text) + 2  BY <1>1
<1> QED  BY <1>2, <1>3, <1>4, <1>5 DEF LexState

\* A step reads the blanks, of which nothing is left, and the token.
LEMMA LexStep ==
  ASSUME NEW text, NEW p, NEW ts, LexState(text, p, ts), ~Ended(ts),
         NEW found, found = TokenAt(text, After(text, p, Blanks))
  PROVE  LexState(text, found.next, Append(ts, found.token))
<1> DEFINE end(i) == IF i <= Len(text) THEN i - 1 ELSE Len(text)
           t == found.token
           us == Append(ts, t)
<1>1. /\ text \in Seq(Chars) /\ ts \in Seq(TokenSet) /\ p \in 1 .. Len(text) + 1
      /\ Len(text) \in Nat /\ Len(ts) \in Nat /\ DOMAIN ts = 1 .. Len(ts)
  <2>1. text \in Seq(Chars) /\ ts \in Seq(TokenSet) /\ p \in 1 .. Len(text) + 2 /\ p # Len(text) + 2
    BY DEF LexState
  <2>2. Len(text) \in Nat  BY <2>1, LenProperties
  <2> QED  BY <2>1, <2>2, LenProperties
<1>2. PICK i : i = After(text, p, Blanks)  OBVIOUS
<1>3. /\ i \in p .. Len(text) + 1
      /\ \A k \in p .. i - 1 : Char(text, k) \in Blanks
  BY <1>1, <1>2, NulAside, AfterFacts
<1>4. i \in 1 .. Len(text) + 1  BY <1>1, <1>3
<1>5. TokenRight(text, i, found)  BY <1>1, <1>2, <1>4, TokenAtFacts
<1>6. t \in TokenSet /\ found.next \in i + 1 .. Len(text) + 2
  BY <1>5 DEF TokenRight
<1>7. /\ us \in Seq(TokenSet) /\ us # <<>> /\ Len(us) = Len(ts) + 1
      /\ \A n \in 1 .. Len(ts) : us[n] = ts[n]
      /\ us[Len(ts) + 1] = t
  BY <1>1, <1>6, AppendProperties
<1>8. DOMAIN us = 1 .. Len(ts) + 1  BY <1>7, LenProperties
<1>9. found.next \in 1 .. Len(text) + 2  BY <1>4, <1>6
<1>10. ASSUME found.next = Len(text) + 2 PROVE Ended(us)
  <2>1. t.type = "EOF"  BY <1>5, <1>10 DEF TokenRight
  <2> HIDE DEF us, t
  <2> QED  BY <1>7, <2>1 DEF Ended
<1>11. ASSUME \A n \in DOMAIN us : us[n] # NoText
       PROVE  Dense(FlattenSeq([n \in DOMAIN us |-> Spelling(us[n])]))
                = Dense(SubSeq(text, 1, end(found.next)))
  <2> HIDE DEF us, t
  <2>1. t # NoText /\ \A n \in DOMAIN ts : ts[n] # NoText
    <3>1. Len(ts) + 1 \in DOMAIN us /\ \A n \in DOMAIN ts : n \in DOMAIN us  BY <1>1, <1>8
    <3> QED  BY <1>1, <1>7, <1>11, <3>1
  <2> DEFINE q == found.next
             a == SubSeq(text, 1, p - 1)
             b == SubSeq(text, p, i - 1)
             c == SubSeq(text, i, end(q))
             w == Spread(SpellingOf, ts)
  <2>2. w \in Seq(Chars) /\ Dense(w) = Dense(a)
    <3>1. end(p) = p - 1  BY <1>1
    <3>2. Dense(FlattenSeq([n \in DOMAIN ts |-> Spelling(ts[n])])) = Dense(SubSeq(text, 1, end(p)))
      BY <2>1 DEF LexState
    <3> HIDE DEF end
    <3> QED  BY <1>1, <3>1, <3>2, SpelledFacts
  <2>3. Dense(Spelling(t)) = Dense(c)
    <3>1. Dense(Spelling(found.token)) = Dense(Passed(text, i, found.next))
      BY <1>5, <2>1 DEF TokenRight, t
    <3> QED  BY <3>1 DEF Passed, t
  <2>4. /\ end(q) \in i - 1 .. Len(text) /\ i - 1 \in p - 1 .. Len(text)
        /\ i - 1 + 1 = i /\ p - 1 + 1 = p /\ p \in Nat /\ i \in Nat /\ p >= 1 /\ i >= p
    BY <1>1, <1>3, <1>6
  <2> HIDE DEF end, q
  <2>5. a \in Seq(Chars) /\ b \in Seq(Chars) /\ c \in Seq(Chars)
    <3>1. \A k \in 1 .. Len(text) : text[k] \in Chars  BY <1>1, LenProperties
    <3>2. a \in Seq(Chars)
      <4>1. \A k \in 1 .. p - 1 : text[k] \in Chars  BY <1>1, <2>4, <3>1
      <4>2. 1 \in Int /\ p - 1 \in Int  BY <2>4
      <4> QED  BY <4>1, <4>2, SubSeqProperties
    <3>3. b \in Seq(Chars)
      <4>1. \A k \in p .. i - 1 : text[k] \in Chars  BY <1>1, <2>4, <3>1
      <4>2. p \in Int /\ i - 1 \in Int  BY <2>4
      <4> QED  BY <4>1, <4>2, SubSeqProperties
    <3>4. c \in Seq(Chars)
      <4>1. \A k \in i .. end(q) : text[k] \in Chars  BY <1>1, <2>4, <3>1
      <4>2. i \in Int /\ end(q) \in Int  BY <1>1, <2>4
      <4> QED  BY <4>1, <4>2, SubSeqProperties
    <3> QED  BY <3>2, <3>3, <3>4
  <2>6. SubSeq(text, 1, end(q)) = (a \o b) \o c
    <3>1. SubSeq(text, 1, p - 1) \o SubSeq(text, p - 1 + 1, i - 1) = SubSeq(text, 1, i - 1)
      <4>1. 1 \in 1 .. Len(text) + 1 /\ p - 1 \in 1 - 1 .. Len(text) /\ i - 1 \in p - 1 .. Len(text)
        BY <1>1, <2>4
      <4> QED  BY <1>1, <4>1, ConcatAdjacentSubSeq
    <3>2. SubSeq(text, 1, i - 1) \o SubSeq(text, i - 1 + 1, end(q)) = SubSeq(text, 1, end(q))
      <4>1. 1 \in 1 .. Len(text) + 1 /\ i - 1 \in 1 - 1 .. Len(text) /\ end(q) \in i - 1 .. Len(text)
        BY <1>1, <2>4
      <4> QED  BY <1>1, <4>1, ConcatAdjacentSubSeq
    <3> QED  BY <2>4, <3>1, <3>2
  <2>7. Dense(b) = <<>>
    <3>1. /\ Len(b) = IF p <= i - 1 THEN i - 1 - p + 1 ELSE 0
          /\ \A m \in 1 .. i - 1 - p + 1 : b[m] = text[p + m - 1]
      <4>1. \A k \in p .. i - 1 : text[k] \in Chars  BY <1>1, <2>4, LenProperties
      <4>2. p \in Int /\ i - 1 \in Int  BY <2>4
      <4> QED  BY <4>1, <4>2, SubSeqProperties
    <3> HIDE DEF b
    <3>2. \A m \in 1 .. Len(b) : b[m] \in Blanks \cup {NUL}
      <4> SUFFICES ASSUME NEW m \in 1 .. Len(b) PROVE b[m] \in Blanks
        OBVIOUS
      <4>1. m \in 1 .. i - 1 - p + 1 /\ p + m - 1 \in p .. i - 1  BY <2>4, <3>1
      <4>2. PICK k \in p .. i - 1 : k = p + m - 1  BY <4>1
      <4>3. k \in 1 .. Len(text) + 2 /\ k <= Len(text)  BY <1>1, <2>4, <4>2
      <4>4. Char(text, k) = text[k]  BY <1>1, <4>3, CharFacts
      <4> QED  BY <1>3, <3>1, <4>1, <4>2, <4>4
    <3> QED  BY <2>5, <3>2, DenseBlanks
  <2> HIDE DEF a, b, c, w
  <2>8. Dense((a \o b) \o c) = Dense(a) \o Dense(c)
    <3>1. a \o b \in Seq(Chars)  BY <2>5, ConcatProperties
    <3>2. Dense((a \o b) \o c) = Dense(a \o b) \o Dense(c)  BY <2>5, <3>1, DenseParts
    <3>3. Dense(a \o b) = Dense(a) \o Dense(b) /\ Dense(a) \in Seq(Chars)  BY <2>5, DenseParts
    <3>4. Dense(a) \o <<>> = Dense(a)  BY <3>3, ConcatEmptySeq
    <3> QED  BY <2>7, <3>2, <3>3, <3>4
  <2>9. FlattenSeq([n \in DOMAIN us |-> Spelling(us[n])]) = w \o Spelling(t)
    <3>1. PICK g \in [TokenSet -> Seq(Chars)] : g = SpellingOf  BY SpellingFacts
    <3>2. Spread(g, Append(ts, t)) = Spread(g, ts) \o g[t]
      BY <1>1, <1>6, SpreadAppend DEF t
    <3>3. g[t] = Spelling(t)  BY <1>6, <3>1 DEF SpellingOf, t
    <3>4. FlattenSeq([n \in DOMAIN us |-> Spelling(us[n])]) = Spread(SpellingOf, us)
      BY <1>7, SpelledFacts
    <3> QED  BY <3>1, <3>2, <3>3, <3>4 DEF w, us
  <2>10. Spelling(t) \in Seq(Chars)
    <3>1. t \in TokenSet  BY <1>6 DEF t
    <3> QED  BY <3>1, SpellingFacts DEF SpellingOf
  <2>11. Dense(w \o Spelling(t)) = Dense(w) \o Dense(Spelling(t))
    BY <2>2, <2>10, DenseParts
  <2> QED  BY <2>2, <2>3, <2>6, <2>8, <2>9, <2>11 DEF q
<1> HIDE DEF us, t
<1> QED  BY <1>1, <1>7, <1>9, <1>10, <1>11 DEF LexState, us, t
----------------------------------------------------------------------------
\* The loop

\* What is left of a typed line is a text.
LEMMA TrimSpaceFacts ==
  ASSUME NEW typed \in Lines
  PROVE  TrimSpace(typed) \in Seq(Chars)
<1>1. typed \in Seq(Chars)
  <2>1. typed \in Seq(Range(typed))  BY LinesAssumption
  <2>2. Range(typed) \subseteq Chars  BY DEF Chars
  <2> QED  BY <2>1, <2>2, SeqMonotonic
<1>2. Len(typed) \in Nat /\ DOMAIN typed = 1 .. Len(typed)
      /\ \A k \in 1 .. Len(typed) : typed[k] \in Chars
  BY <1>1, LenProperties
<1> DEFINE kept == {i \in DOMAIN typed : typed[i] \notin Spaces}
           first == CHOOSE i \in kept : \A j \in kept : i <= j
           last == CHOOSE i \in kept : \A j \in kept : j <= i
<1>3. CASE kept = {}
  <2>1. TrimSpace(typed) = <<>>  BY <1>3 DEF TrimSpace
  <2> QED  BY <2>1, EmptySeq
<1>4. CASE kept # {}
  <2>1. kept \subseteq 1 .. Len(typed) /\ kept \subseteq Nat  BY <1>2
  <2>2. TrimSpace(typed) = SubSeq(typed, first, last)  BY <1>4 DEF TrimSpace
  <2> HIDE DEF kept
  <2>3. first \in kept
    <3>1. \E i \in kept : \A j \in kept : i <= j  BY <1>4, <2>1, LeastNumber
    <3> QED  BY <3>1
  <2>4. last \in kept
    <3> DEFINE fromEnd == {Len(typed) - i : i \in kept}
    <3>1. fromEnd \subseteq Nat /\ fromEnd # {}
      <4>1. \A i \in kept : Len(typed) - i \in Nat  BY <1>2, <2>1
      <4>2. PICK i \in kept : TRUE  BY <1>4
      <4>3. Len(typed) - i \in fromEnd  BY <4>2
      <4> QED  BY <4>1, <4>3
    <3>2. PICK n \in fromEnd : \A m \in fromEnd : n <= m
      <4> HIDE DEF fromEnd
      <4> QED  BY <3>1, LeastNumber
    <3>3. PICK i \in kept : n = Len(typed) - i  BY <3>2
    <3>4. \A j \in kept : Len(typed) - i <= Len(typed) - j  BY <3>2, <3>3
    <3>5. \A j \in kept : j <= i  BY <1>2, <2>1, <3>3, <3>4
    <3>6. \E k \in kept : \A j \in kept : j <= k  BY <3>3, <3>5
    <3> QED  BY <3>6
  <2> HIDE DEF first, last
  <2>5. first \in 1 .. Len(typed) /\ last \in 1 .. Len(typed)  BY <2>1, <2>3, <2>4
  <2>6. \A k \in first .. last : typed[k] \in Chars  BY <1>2, <2>5
  <2>7. SubSeq(typed, first, last) \in Seq(Chars)
    <3>1. first \in Int /\ last \in Int  BY <1>2, <2>5
    <3> QED  BY <2>6, <3>1, SubSeqProperties
  <2> QED  BY <2>2, <2>7
<1> QED  BY <1>3, <1>4

\* Before the first line is read there is none.
LEMMA LexInit == ReplInit => LexInv
<1> SUFFICES ASSUME ReplInit PROVE LexInv  OBVIOUS
<1>1. line = <<>> /\ at = 1 /\ tokens = <<>>  BY DEF ReplInit
<1>2. LexState(<<>>, 1, <<>>)  BY EmptySeq, LexStart
<1> QED  BY <1>1, <1>2 DEF LexInv

\* No step of the loop loses the place in the line.
LEMMA LexInvariance == LexInv /\ [ReplNext]_replVars => LexInv'
<1> SUFFICES ASSUME LexInv, [ReplNext]_replVars PROVE LexInv'  OBVIOUS
<1>1. CASE ReadLine
  <2>1. PICK typed \in Lines :
          LET input == TrimSpace(typed)
          IN  IF input = <<>> THEN UNCHANGED <<doing, line, at, tokens>>
              ELSE IF input[1] = "." THEN HandleDotCommand(input)
              ELSE New(input) /\ doing' = "lex"
    BY <1>1 DEF ReadLine
  <2>2. PICK input \in Seq(Chars) : input = TrimSpace(typed)  BY TrimSpaceFacts
  <2>3. \/ UNCHANGED <<line, at, tokens>>
        \/ line' = input /\ at' = 1 /\ tokens' = <<>>
    BY <2>1, <2>2 DEF HandleDotCommand, lineVars, New
  <2>4. CASE UNCHANGED <<line, at, tokens>>  BY <2>4 DEF LexInv
  <2>5. CASE line' = input /\ at' = 1 /\ tokens' = <<>>
    <3>1. LexState(input, 1, <<>>)  BY LexStart
    <3> QED  BY <2>5, <3>1 DEF LexInv
  <2> QED  BY <2>3, <2>4, <2>5
<1>2. CASE Tokenize
  <2>1. NextToken  BY <1>2 DEF Tokenize
  <2>2. PICK text, p, ts : text = line /\ p = at /\ ts = tokens  OBVIOUS
  <2>3. LexState(text, p, ts) /\ ~Ended(ts)  BY <2>1, <2>2 DEF LexInv, NextToken, AllRead, Ended
  <2>4. PICK found : /\ found = TokenAt(text, After(text, p, Blanks))
                     /\ tokens' = Append(ts, found.token) /\ at' = found.next /\ line' = text
    BY <2>1, <2>2 DEF NextToken
  <2>5. LexState(text, found.next, Append(ts, found.token))  BY <2>3, <2>4, LexStep
  <2> QED  BY <2>4, <2>5 DEF LexInv
<1>3. CASE PrintResult
  <2>1. line' = <<>> /\ at' = 1 /\ tokens' = <<>>  BY <1>3 DEF PrintResult
  <2>2. LexState(<<>>, 1, <<>>)  BY EmptySeq, LexStart
  <2> QED  BY <2>1, <2>2 DEF LexInv
<1>4. CASE UNCHANGED lineVars  BY <1>4 DEF LexInv, lineVars
<1>5. CASE InputEnds \/ ParseTokens \/ BeginSelect \/ SelectStep \/ SelectDone \/ ExecuteOther
  <2>1. UNCHANGED lineVars
    BY <1>5 DEF InputEnds, ParseTokens, BeginSelect, SelectStep, SelectDone, ExecuteOther
  <2> QED  BY <1>4, <2>1
<1>6. CASE UNCHANGED replVars
  <2>1. UNCHANGED lineVars  BY <1>6 DEF replVars, lineVars
  <2> QED  BY <1>4, <2>1
<1> QED  BY <1>1, <1>2, <1>3, <1>5, <1>6 DEF ReplNext, Answering

\* The tokens of a state spell what was read.
LEMMA LexInvSpells == LexInv => TokensSpellLine
  BY DEF LexInv, LexState, TokensSpellLine, NoText

\* Nothing of a line is lost, doubled or moved by the lexer (lexer.go:170),
\* whatever is typed: the tokens so far, spelled one after the other, are what
\* was read of it, blanks aside, unless a text is not closed.
THEOREM TokensSpell == ReplSpec => []TokensSpellLine
<1>1. ReplInit => LexInv  BY LexInit
<1>2. LexInv /\ [ReplNext]_replVars => LexInv'  BY LexInvariance
<1>3. LexInv => TokensSpellLine  BY LexInvSpells
<1> QED  BY <1>1, <1>2, <1>3, PTL DEF ReplSpec

----------------------------------------------------------------------------
\* Orders by several columns

\* R puts any two of S in order, perhaps both ways.
TotalPreorder(S, R) ==
  /\ \A a, b \in S : <<a, b>> \in R \/ <<b, a>> \in R
  /\ \A a, b, c \in S : <<a, b>> \in R /\ <<b, c>> \in R => <<a, c>> \in R

\* i is less than j in the first of M columns in which they differ.
First(le, M, i, j) ==
  \E n \in 1 .. M :
    /\ \A m \in 1 .. n - 1 : <<i, j>> \in le[m] /\ <<j, i>> \in le[m]
    /\ <<j, i>> \notin le[n]

\* What is first before something is first before what that is before.
LEMMA FirstTransitive ==
  ASSUME NEW M \in Nat, NEW S, NEW le, \A n \in 1 .. M : TotalPreorder(S, le[n]),
         NEW i \in S, NEW j \in S, NEW k \in S, First(le, M, i, j), First(le, M, j, k)
  PROVE  First(le, M, i, k)
<1>1. PICK n \in 1 .. M : /\ \A m \in 1 .. n - 1 : <<i, j>> \in le[m] /\ <<j, i>> \in le[m]
                          /\ <<j, i>> \notin le[n]
  BY DEF First
<1>2. PICK p \in 1 .. M : /\ \A m \in 1 .. p - 1 : <<j, k>> \in le[m] /\ <<k, j>> \in le[m]
                          /\ <<k, j>> \notin le[p]
  BY DEF First
<1>3. \A m \in 1 .. M : \A a, b, c \in S : <<a, b>> \in le[m] /\ <<b, c>> \in le[m] => <<a, c>> \in le[m]
  BY DEF TotalPreorder
<1>4. CASE n <= p
  <2>1. ASSUME NEW m \in 1 .. n - 1 PROVE <<i, k>> \in le[m] /\ <<k, i>> \in le[m]
    <3>1. m \in 1 .. M /\ m \in 1 .. p - 1  BY <1>4
    <3> QED  BY <1>1, <1>2, <1>3, <3>1
  <2>2. <<j, k>> \in le[n]
    <3>1. CASE n = p  BY <1>2, <3>1 DEF TotalPreorder
    <3>2. CASE n # p
      <4>1. n \in 1 .. p - 1  BY <1>4, <3>2
      <4> QED  BY <1>2, <4>1
    <3> QED  BY <3>1, <3>2
  <2>3. <<k, i>> \notin le[n]  BY <1>1, <1>3, <2>2
  <2> QED  BY <2>1, <2>3 DEF First
<1>5. CASE p < n
  <2>1. ASSUME NEW m \in 1 .. p - 1 PROVE <<i, k>> \in le[m] /\ <<k, i>> \in le[m]
    <3>1. m \in 1 .. M /\ m \in 1 .. n - 1  BY <1>5
    <3> QED  BY <1>1, <1>2, <1>3, <3>1
  <2>2. p \in 1 .. n - 1  BY <1>5
  <2>3. <<i, j>> \in le[p]  BY <1>1, <2>2
  <2>4. <<k, i>> \notin le[p]  BY <1>2, <1>3, <2>3
  <2> QED  BY <2>1, <2>4 DEF First
<1> QED  BY <1>4, <1>5

\* Of two that differ, one is first; none is before itself.
LEMMA FirstTotal ==
  ASSUME NEW M \in Nat, NEW S, NEW le, \A n \in 1 .. M : TotalPreorder(S, le[n]),
         NEW i \in S, NEW j \in S
  PROVE  /\ First(le, M, i, j) \/ First(le, M, j, i)
              \/ \A n \in 1 .. M : <<i, j>> \in le[n] /\ <<j, i>> \in le[n]
         /\ ~First(le, M, i, i)
<1>1. ~First(le, M, i, i)  BY DEF First, TotalPreorder
<1>2. ASSUME ~ \A n \in 1 .. M : <<i, j>> \in le[n] /\ <<j, i>> \in le[n]
      PROVE  First(le, M, i, j) \/ First(le, M, j, i)
  <2> DEFINE D == {n \in 1 .. M : ~(<<i, j>> \in le[n] /\ <<j, i>> \in le[n])}
  <2>1. D # {} /\ D \subseteq Nat  BY <1>2
  <2>2. PICK n \in D : \A k \in D : n <= k
    <3> HIDE DEF D
    <3> QED  BY <2>1, LeastNumber
  <2>3. ASSUME NEW m \in 1 .. n - 1 PROVE <<i, j>> \in le[m] /\ <<j, i>> \in le[m]
    <3>1. m \in 1 .. M /\ ~(n <= m)  BY <2>2
    <3> QED  BY <2>2, <3>1
  <2> QED  BY <2>2, <2>3 DEF First
<1> QED  BY <1>1, <1>2

\* What comes before i.
Before(S, R, i) == {j \in S : <<j, i>> \in R}

\* Each of S comes before or after each other.
StrictOrder(S, R) ==
  /\ \A i \in S : <<i, i>> \notin R
  /\ \A i, j, k \in S : <<i, j>> \in R /\ <<j, k>> \in R => <<i, k>> \in R
  /\ \A i, j \in S : <<i, j>> \in R \/ <<j, i>> \in R \/ i = j

\* In an order the numbers of those before are the numbers from 0 on, each once.
LEMMA RanksAreNumbers ==
  ASSUME NEW S, IsFiniteSet(S), NEW R, StrictOrder(S, R)
  PROVE  /\ \A i, j \in S : Cardinality(Before(S, R, i)) = Cardinality(Before(S, R, j)) => i = j
         /\ \A n \in 1 .. Cardinality(S) : \E i \in S : Cardinality(Before(S, R, i)) = n - 1
<1>0. /\ \A i \in S : <<i, i>> \notin R
      /\ \A i, j, k \in S : <<i, j>> \in R /\ <<j, k>> \in R => <<i, k>> \in R
      /\ \A i, j \in S : <<i, j>> \in R \/ <<j, i>> \in R \/ i = j
  BY DEF StrictOrder
<1> DEFINE N == Cardinality(S)
           rank == [i \in S |-> Cardinality(Before(S, R, i))]
<1>1. N \in Nat  BY FS_CardinalityType
<1>2. ASSUME NEW i \in S
      PROVE  /\ IsFiniteSet(Before(S, R, i)) /\ Cardinality(Before(S, R, i)) \in Nat
             /\ Cardinality(Before(S, R, i)) < N
  <2>1. Before(S, R, i) \in SUBSET S /\ i \notin Before(S, R, i)  BY <1>0 DEF Before
  <2>2. /\ IsFiniteSet(Before(S, R, i)) /\ Cardinality(Before(S, R, i)) <= N
        /\ N = Cardinality(Before(S, R, i)) => S = Before(S, R, i)
    BY <2>1, FS_Subset
  <2>3. Cardinality(Before(S, R, i)) \in Nat  BY <2>2, FS_CardinalityType
  <2> QED  BY <1>1, <2>1, <2>2, <2>3
<1>3. ASSUME NEW i \in S, NEW j \in S, <<i, j>> \in R
      PROVE  Cardinality(Before(S, R, i)) # Cardinality(Before(S, R, j))
  <2>1. Before(S, R, i) \in SUBSET Before(S, R, j) /\ i \in Before(S, R, j) /\ i \notin Before(S, R, i)
    BY <1>0, <1>3 DEF Before
  <2>2. IsFiniteSet(Before(S, R, j))  BY <1>2
  <2>3. Cardinality(Before(S, R, j)) = Cardinality(Before(S, R, i))
          => Before(S, R, j) = Before(S, R, i)
    BY <2>1, <2>2, FS_Subset
  <2> QED  BY <2>1, <2>3
<1>4. \A i, j \in S : Cardinality(Before(S, R, i)) = Cardinality(Before(S, R, j)) => i = j
  BY <1>0, <1>3
<1>5. rank \in Injection(S, 0 .. N - 1)
  <2>1. rank \in [S -> 0 .. N - 1]
    <3>1. \A i \in S : Cardinality(Before(S, R, i)) \in 0 .. N - 1  BY <1>1, <1>2
    <3> QED  BY <3>1
  <2>2. \A i, j \in S : rank[i] = rank[j] => i = j  BY <1>4
  <2> HIDE DEF rank, N
  <2> QED  BY <2>1, <2>2 DEF Injection, IsInjective
<1>6. IsFiniteSet(0 .. N - 1) /\ Cardinality(0 .. N - 1) = N
  <2>1. N - 1 \in Int /\ 0 \in Int  BY <1>1
  <2> HIDE DEF N
  <2>2. IsFiniteSet(0 .. N - 1) /\ Cardinality(0 .. N - 1) = IF 0 > N - 1 THEN 0 ELSE N - 1 - 0 + 1
    BY <2>1, FS_Interval
  <2>3. (IF 0 > N - 1 THEN 0 ELSE N - 1 - 0 + 1) = N  BY <1>1
  <2> QED  BY <2>2, <2>3
<1>7. rank \in Surjection(S, 0 .. N - 1)
  <2> HIDE DEF rank
  <2>1. Cardinality(S) = Cardinality(0 .. N - 1)  BY <1>6
  <2> QED  BY <1>5, <1>6, <2>1, FS_Injection
<1>8. ASSUME NEW n \in 1 .. N PROVE \E i \in S : Cardinality(Before(S, R, i)) = n - 1
  <2>1. n - 1 \in 0 .. N - 1  BY <1>1
  <2>2. PICK i \in S : rank[i] = n - 1
    <3> HIDE DEF rank, N
    <3> QED  BY <1>7, <2>1 DEF Surjection
  <2> QED  BY <2>2
<1> QED  BY <1>4, <1>8

\* b is a with f of each element.
Mapped(f, a, b) == Len(b) = Len(a) /\ \A i \in 1 .. Len(a) : b[i] = f[a[i]]

\* Two lists mapped and joined are the joined list mapped.
LEMMA MappedConcat ==
  ASSUME NEW S, NEW R, NEW f \in [S -> R], NEW a \in Seq(S), NEW b \in Seq(R),
         NEW c \in Seq(S), NEW d \in Seq(R), Mapped(f, a, b), Mapped(f, c, d)
  PROVE  Mapped(f, a \o c, b \o d)
<1>1. Len(a) \in Nat /\ Len(c) \in Nat /\ Len(b) = Len(a) /\ Len(d) = Len(c)
  BY LenProperties DEF Mapped
<1>2. /\ Len(a \o c) = Len(a) + Len(c)
      /\ \A i \in 1 .. Len(a) + Len(c) : (a \o c)[i] = IF i <= Len(a) THEN a[i] ELSE c[i - Len(a)]
  BY ConcatProperties
<1>3. /\ Len(b \o d) = Len(b) + Len(d)
      /\ \A i \in 1 .. Len(b) + Len(d) : (b \o d)[i] = IF i <= Len(b) THEN b[i] ELSE d[i - Len(b)]
  BY ConcatProperties
<1> DEFINE u == a \o c
           v == b \o d
<1> HIDE DEF u, v
<1>4. ASSUME NEW i \in 1 .. Len(a) + Len(c) PROVE v[i] = f[u[i]]
  <2>1. CASE i <= Len(a)
    <3>1. i \in 1 .. Len(a)  BY <1>1, <2>1
    <3> QED  BY <1>1, <1>2, <1>3, <2>1, <3>1 DEF Mapped, u, v
  <2>2. CASE ~(i <= Len(a))
    <3>1. i - Len(a) \in 1 .. Len(c)  BY <1>1, <2>2
    <3> QED  BY <1>1, <1>2, <1>3, <2>2, <3>1 DEF Mapped, u, v
  <2> QED  BY <2>1, <2>2
<1> QED  BY <1>1, <1>2, <1>3, <1>4 DEF Mapped, u, v

\* To map what sequences are joined to is to join what they are mapped to.
LEMMA FlattenMapped ==
  ASSUME NEW S, NEW R, NEW f \in [S -> R], NEW n \in Nat \ {0},
         NEW s \in [1 .. n -> Seq(S)], NEW t \in [1 .. n -> Seq(R)],
         \A k \in 1 .. n : Mapped(f, s[k], t[k])
  PROVE  /\ FlattenSeq(s) \in Seq(S) /\ FlattenSeq(t) \in Seq(R)
         /\ Mapped(f, FlattenSeq(s), FlattenSeq(t))
<1>1. PICK g \in [1 .. n -> Seq(S)] : Joins(g, s, n) /\ FlattenSeq(s) = g[n]
  BY FlattenJoins
<1>2. PICK h \in [1 .. n -> Seq(R)] : Joins(h, t, n) /\ FlattenSeq(t) = h[n]
  BY FlattenJoins
<1> DEFINE T == {k \in Nat : k \in 1 .. n => Mapped(f, g[k], h[k])}
<1>3. ASSUME NEW k \in Nat, \A j \in Nat : j < k => j \in T PROVE k \in T
  <2> SUFFICES ASSUME k \in 1 .. n PROVE Mapped(f, g[k], h[k])  OBVIOUS
  <2>1. CASE k = 1  BY <1>1, <1>2, <2>1 DEF Joins
  <2>2. CASE k # 1
    <3>1. k - 1 \in Nat /\ k - 1 < k /\ k - 1 \in 1 .. n /\ k \in 2 .. n  BY <2>2
    <3>2. k - 1 \in T
      <4> HIDE DEF T
      <4> QED  BY <1>3, <3>1
    <3>3. Mapped(f, g[k - 1], h[k - 1])  BY <3>1, <3>2
    <3>4. /\ g[k - 1] \in Seq(S) /\ s[k] \in Seq(S) /\ h[k - 1] \in Seq(R) /\ t[k] \in Seq(R)
          /\ Mapped(f, s[k], t[k])
      BY <3>1
    <3>5. Mapped(f, g[k - 1] \o s[k], h[k - 1] \o t[k])  BY <3>3, <3>4, MappedConcat
    <3> QED  BY <1>1, <1>2, <3>1, <3>5 DEF Joins
  <2> QED  BY <2>1, <2>2
<1> HIDE DEF T
<1>4. n \in T  BY <1>3, CourseOfValues
<1> QED  BY <1>1, <1>2, <1>4 DEF T

\* Of the first k elements of s, w has those at the places P, which are in K.
Chosen(s, K, k, P, w) ==
  /\ P \in Seq(1 .. k)
  /\ \A i, j \in 1 .. Len(P) : i < j => P[i] < P[j]
  /\ \A i \in 1 .. Len(P) : P[i] \in K
  /\ \A m \in 1 .. k : m \in K => \E i \in 1 .. Len(P) : P[i] = m
  /\ Len(w) = Len(P)
  /\ \A i \in 1 .. Len(P) : w[i] = s[P[i]]

\* One element more of s is looked at, and taken if its place is in K.
LEMMA ChosenMore ==
  ASSUME NEW S, NEW n \in Nat, NEW s \in [1 .. n -> S], NEW K, NEW k \in Nat, k + 1 \in 1 .. n,
         NEW P, NEW w \in Seq(S), Chosen(s, K, k, P, w)
  PROVE  \E Q : Chosen(s, K, k + 1, Q, w \o (IF k + 1 \in K THEN <<s[k + 1]>> ELSE <<>>))
<1>1. Len(P) \in Nat /\ Len(w) = Len(P) /\ \A i \in 1 .. Len(P) : P[i] \in 1 .. k
  BY LenProperties DEF Chosen
<1>2. P \in Seq(1 .. k + 1)
  <2>1. 1 .. k \subseteq 1 .. k + 1  OBVIOUS
  <2>2. P \in Seq(1 .. k)  BY DEF Chosen
  <2> QED  BY <2>1, <2>2, SeqMonotonic
<1>3. \A m \in 1 .. k + 1 : m \in 1 .. k \/ m = k + 1  OBVIOUS
<1>4. CASE k + 1 \notin K
  <2>1. w \o <<>> = w  BY ConcatEmptySeq
  <2>2. Chosen(s, K, k + 1, P, w)  BY <1>1, <1>2, <1>3, <1>4 DEF Chosen
  <2> QED  BY <1>4, <2>1, <2>2
<1>5. CASE k + 1 \in K
  <2> DEFINE Q == Append(P, k + 1)
             e == s[k + 1]
             v == Append(w, e)
  <2>1. /\ Q \in Seq(1 .. k + 1) /\ Len(Q) = Len(P) + 1
        /\ \A i \in 1 .. Len(P) : Q[i] = P[i]
        /\ Q[Len(P) + 1] = k + 1
    BY <1>2, AppendProperties
  <2>2. e \in S  OBVIOUS
  <2> HIDE DEF Q, e
  <2>3. /\ v \in Seq(S) /\ Len(v) = Len(w) + 1
        /\ \A i \in 1 .. Len(w) : v[i] = w[i]
        /\ v[Len(w) + 1] = e
    BY <2>2, AppendProperties
  <2>4. w \o <<e>> = v
    <3>1. v = w \o <<e>>  BY <2>2, AppendIsConcat
    <3> QED  BY <3>1
  <2> HIDE DEF v
  <2>5. \A i \in 1 .. Len(Q) : i \in 1 .. Len(P) \/ i = Len(P) + 1  BY <1>1, <2>1
  <2>6. \A i, j \in 1 .. Len(Q) : i < j => Q[i] < Q[j]
    <3> SUFFICES ASSUME NEW i \in 1 .. Len(Q), NEW j \in 1 .. Len(Q), i < j PROVE Q[i] < Q[j]
      OBVIOUS
    <3>1. i \in 1 .. Len(P)  BY <1>1, <2>1
    <3>2. CASE j \in 1 .. Len(P)  BY <2>1, <3>1, <3>2 DEF Chosen
    <3>3. CASE j = Len(P) + 1  BY <1>1, <2>1, <3>1, <3>3
    <3> QED  BY <2>5, <3>2, <3>3
  <2>7. \A i \in 1 .. Len(Q) : Q[i] \in K  BY <1>5, <2>1, <2>5 DEF Chosen
  <2>8. ASSUME NEW m \in 1 .. k + 1, m \in K PROVE \E i \in 1 .. Len(Q) : Q[i] = m
    <3>1. CASE m = k + 1
      <4>1. Len(P) + 1 \in 1 .. Len(Q)  BY <1>1, <2>1
      <4> QED  BY <2>1, <3>1, <4>1
    <3>2. CASE m \in 1 .. k
      <4>1. PICK i \in 1 .. Len(P) : P[i] = m  BY <2>8, <3>2 DEF Chosen
      <4>2. i \in 1 .. Len(Q)  BY <1>1, <2>1
      <4> QED  BY <2>1, <4>1, <4>2
    <3> QED  BY <1>3, <3>1, <3>2
  <2>9. \A i \in 1 .. Len(Q) : v[i] = s[Q[i]]
    <3>1. \A i \in 1 .. Len(P) : v[i] = s[Q[i]]  BY <1>1, <2>1, <2>3 DEF Chosen
    <3>2. v[Len(P) + 1] = s[Q[Len(P) + 1]]  BY <1>1, <2>1, <2>3 DEF e
    <3> QED  BY <2>5, <3>1, <3>2
  <2>10. Chosen(s, K, k + 1, Q, v)
    BY <1>1, <2>1, <2>3, <2>6, <2>7, <2>8, <2>9 DEF Chosen
  <2> QED  BY <1>5, <2>4, <2>10 DEF e
<1> QED  BY <1>4, <1>5

\* The elements of s with a number in K.
Kept(s, n, K) == FlattenSeq([k \in 1 .. n |-> IF k \in K THEN <<s[k]>> ELSE <<>>])

\* To join each element that is in K, and nothing for the others, is to choose.
LEMMA FlattenChooses ==
  ASSUME NEW S, NEW n \in Nat, NEW s \in [1 .. n -> S], NEW K
  PROVE  Kept(s, n, K) \in Seq(S) /\ \E P : Chosen(s, K, n, P, Kept(s, n, K))
<1> DEFINE m == [k \in 1 .. n |-> IF k \in K THEN <<s[k]>> ELSE <<>>]
<1>0. Chosen(s, K, 0, <<>>, <<>>) /\ <<>> \in Seq(S)
  <2>1. <<>> \in Seq(1 .. 0) /\ <<>> \in Seq(S) /\ Len(<<>>) = 0  BY EmptySeq
  <2> QED  BY <2>1 DEF Chosen
<1>1. CASE n = 0
  <2>1. m = <<>>  BY <1>1
  <2> HIDE DEF m
  <2>2. FlattenSeq(m) = <<>>  BY <2>1 DEF FlattenSeq
  <2>3. FlattenSeq(m) \in Seq(S) /\ Chosen(s, K, n, <<>>, FlattenSeq(m))  BY <1>0, <1>1, <2>2
  <2> QED  BY <2>3 DEF m, Kept
<1>2. CASE n # 0
  <2>1. m \in [1 .. n -> Seq(S)]
    <3>1. ASSUME NEW k \in 1 .. n PROVE (IF k \in K THEN <<s[k]>> ELSE <<>>) \in Seq(S)
      <4>1. s[k] \in S  OBVIOUS
      <4> QED  BY <4>1
    <3> QED  BY <3>1
  <2>2. \A k \in 1 .. n : m[k] = IF k \in K THEN <<s[k]>> ELSE <<>>  OBVIOUS
  <2> HIDE DEF m
  <2>3. PICK g \in [1 .. n -> Seq(S)] : Joins(g, m, n) /\ FlattenSeq(m) = g[n]
    BY <1>2, <2>1, FlattenJoins
  <2> DEFINE T == {k \in Nat : k \in 1 .. n => \E P : Chosen(s, K, k, P, g[k])}
  <2>4. ASSUME NEW k \in Nat, \A j \in Nat : j < k => j \in T PROVE k \in T
    <3> SUFFICES ASSUME k \in 1 .. n PROVE \E P : Chosen(s, K, k, P, g[k])  OBVIOUS
    <3>1. CASE k = 1
      <4>1. g[1] = m[1] /\ m[1] \in Seq(S)  BY <2>1, <2>3, <3>1 DEF Joins
      <4>2. <<>> \o m[1] = m[1]  BY <4>1, ConcatEmptySeq
      <4>3. PICK z \in Nat : z = 0 /\ z + 1 = 1  OBVIOUS
      <4>4. z + 1 \in 1 .. n  BY <3>1, <4>3
      <4>5. Chosen(s, K, z, <<>>, <<>>) /\ <<>> \in Seq(S)  BY <1>0, <4>3
      <4>6. \E P : Chosen(s, K, z + 1, P, <<>> \o (IF z + 1 \in K THEN <<s[z + 1]>> ELSE <<>>))
        BY <4>4, <4>5, ChosenMore
      <4>7. \E P : Chosen(s, K, 1, P, <<>> \o m[1])  BY <2>2, <3>1, <4>3, <4>6
      <4> QED  BY <3>1, <4>1, <4>2, <4>7
    <3>2. CASE k # 1
      <4>1. k - 1 \in Nat /\ k - 1 < k /\ k - 1 \in 1 .. n /\ k \in 2 .. n /\ (k - 1) + 1 = k
        BY <3>2
      <4>2. k - 1 \in T
        <5> HIDE DEF T
        <5> QED  BY <2>4, <4>1
      <4>3. PICK P : Chosen(s, K, k - 1, P, g[k - 1])  BY <4>1, <4>2
      <4>4. g[k - 1] \in Seq(S)  BY <4>1
      <4>5. PICK j \in Nat : j = k - 1 /\ j + 1 = k  BY <4>1
      <4>6. \E Q : Chosen(s, K, j + 1, Q, g[j] \o (IF j + 1 \in K THEN <<s[j + 1]>> ELSE <<>>))
        <5>1. PICK w \in Seq(S) : w = g[j]  BY <4>4, <4>5
        <5>2. Chosen(s, K, j, P, w) /\ j + 1 \in 1 .. n  BY <4>3, <4>5, <5>1
        <5>3. \E Q : Chosen(s, K, j + 1, Q, w \o (IF j + 1 \in K THEN <<s[j + 1]>> ELSE <<>>))
          BY <5>2, ChosenMore
        <5> QED  BY <5>1, <5>3
      <4>7. g[k] = g[j] \o m[k]  BY <2>3, <4>1, <4>5 DEF Joins
      <4> QED  BY <2>2, <4>5, <4>6, <4>7
    <3> QED  BY <3>1, <3>2
  <2> HIDE DEF T
  <2>5. n \in T  BY <2>4, CourseOfValues
  <2>6. FlattenSeq(m) \in Seq(S) /\ \E P : Chosen(s, K, n, P, FlattenSeq(m))
    BY <1>2, <2>3, <2>5 DEF T
  <2> QED  BY <2>6 DEF m, Kept
<1> QED  BY <1>1, <1>2

----------------------------------------------------------------------------
\* Names with a dot

\* A sequence is a list, whatever it is a sequence of.
LEMMA SequencesAreLists ==
  ASSUME NEW S, NEW s \in Seq(S)
  PROVE  IsList(s)
<1>1. Len(s) \in Nat /\ DOMAIN s = 1 .. Len(s)  BY LenProperties
<1>2. s \in [1 .. Len(s) -> Range(s)]  BY <1>1 DEF Range
<1> QED  BY <1>1, <1>2 DEF IsList

\* What "t.k" is made of.
LEMMA DottedFacts ==
  ASSUME NEW t, NEW k, IsList(t), IsList(k)
  PROVE  /\ Len(t) \in Nat /\ Len(k) \in Nat
         /\ IsList(Dotted(t, k))
         /\ Len(Dotted(t, k)) = Len(t) + 1 + Len(k)
         /\ \A i \in 1 .. Len(t) : Dotted(t, k)[i] = t[i]
         /\ Dotted(t, k)[Len(t) + 1] = "."
         /\ \A i \in 1 .. Len(k) : Dotted(t, k)[Len(t) + 1 + i] = k[i]
<1> DEFINE S == Range(t) \cup {"."} \cup Range(k)
           dot == <<".">>
<1>1. t \in Seq(S) /\ k \in Seq(S) /\ dot \in Seq(S) /\ Len(dot) = 1 /\ dot[1] = "."
  <2>1. Range(t) \subseteq S /\ Range(k) \subseteq S  OBVIOUS
  <2>2. t \in Seq(Range(t)) /\ k \in Seq(Range(k))  BY DEF IsList
  <2> HIDE DEF S
  <2>3. t \in Seq(S) /\ k \in Seq(S)  BY <2>1, <2>2, SeqMonotonic
  <2> QED  BY <2>3 DEF S
<1> DEFINE a == t \o dot
<1> HIDE DEF S, dot
<1>2. /\ Len(t) \in Nat /\ a \in Seq(S) /\ Len(a) = Len(t) + 1
      /\ \A i \in 1 .. Len(a) : a[i] = IF i <= Len(t) THEN t[i] ELSE dot[i - Len(t)]
  <2>1. /\ a \in Seq(S) /\ Len(a) = Len(t) + Len(dot)
        /\ \A i \in 1 .. Len(t) + Len(dot) : a[i] = IF i <= Len(t) THEN t[i] ELSE dot[i - Len(t)]
    BY <1>1, ConcatProperties
  <2> QED  BY <1>1, <2>1, LenProperties
<1>3. /\ \A i \in 1 .. Len(t) : a[i] = t[i]
      /\ a[Len(t) + 1] = "."
  BY <1>1, <1>2
<1> HIDE DEF a
<1> DEFINE d == a \o k
<1>4. /\ Len(k) \in Nat /\ d \in Seq(S) /\ Len(d) = Len(a) + Len(k)
      /\ \A i \in 1 .. Len(d) : d[i] = IF i <= Len(a) THEN a[i] ELSE k[i - Len(a)]
  <2>1. /\ d \in Seq(S) /\ Len(d) = Len(a) + Len(k)
        /\ \A i \in 1 .. Len(a) + Len(k) : d[i] = IF i <= Len(a) THEN a[i] ELSE k[i - Len(a)]
    <3>1. a \in Seq(S) /\ k \in Seq(S)  BY <1>1, <1>2
    <3> QED  BY <3>1, ConcatProperties
  <2> QED  BY <1>1, <2>1, LenProperties
<1>5. d = Dotted(t, k)  BY DEF d, a, dot, Dotted
<1> HIDE DEF d
<1>6. IsList(d)  BY <1>4, SequencesAreLists
<1>7. \A i \in 1 .. Len(t) + 1 : d[i] = a[i]  BY <1>2, <1>4
<1>8. \A i \in 1 .. Len(k) : d[Len(t) + 1 + i] = k[i]
  <2> TAKE i \in 1 .. Len(k)
  <2>1. Len(t) + 1 + i \in 1 .. Len(d) /\ ~(Len(t) + 1 + i <= Len(a))
        /\ Len(t) + 1 + i - Len(a) = i
    BY <1>2, <1>4
  <2> QED  BY <1>4, <2>1
<1>9. \A i \in 1 .. Len(t) : d[i] = t[i]  BY <1>2, <1>3, <1>7
<1>10. d[Len(t) + 1] = "."  BY <1>2, <1>3, <1>7
<1>11. Len(d) = Len(t) + 1 + Len(k)  BY <1>2, <1>4
<1> QED  BY <1>2, <1>4, <1>5, <1>6, <1>8, <1>9, <1>10, <1>11

\* It says which two it is made of.
LEMMA DottedInjective ==
  ASSUME NEW t, NEW u, NEW k, NEW l, IsName(t), IsName(u), IsList(k), IsList(l),
         Dotted(t, k) = Dotted(u, l)
  PROVE  t = u /\ k = l
<1> DEFINE d == Dotted(t, k)
<1>0. IsList(t) /\ IsList(u)  BY DEF IsName
<1>1. /\ Len(t) \in Nat /\ Len(k) \in Nat /\ Len(d) = Len(t) + 1 + Len(k)
      /\ \A i \in 1 .. Len(t) : d[i] = t[i]
      /\ d[Len(t) + 1] = "."
      /\ \A i \in 1 .. Len(k) : d[Len(t) + 1 + i] = k[i]
  BY <1>0, DottedFacts
<1>2. d = Dotted(u, l)  OBVIOUS
<1> HIDE DEF d
<1>3. /\ Len(u) \in Nat /\ Len(l) \in Nat /\ Len(d) = Len(u) + 1 + Len(l)
      /\ \A i \in 1 .. Len(u) : d[i] = u[i]
      /\ d[Len(u) + 1] = "."
      /\ \A i \in 1 .. Len(l) : d[Len(u) + 1 + i] = l[i]
  BY <1>0, <1>2, DottedFacts
<1>4. /\ DOMAIN t = 1 .. Len(t) /\ DOMAIN u = 1 .. Len(u)
      /\ t \in Seq(Range(t)) /\ u \in Seq(Range(u))
      /\ k \in Seq(Range(k)) /\ l \in Seq(Range(l))
  BY <1>0, LenProperties DEF IsList
<1>5. (\A i \in 1 .. Len(t) : t[i] # ".") /\ (\A i \in 1 .. Len(u) : u[i] # ".")
  BY <1>4 DEF IsName, Range
<1>6. Len(t) = Len(u)
  <2>1. CASE Len(t) < Len(u)
    <3>1. Len(t) + 1 \in 1 .. Len(u)  BY <1>1, <1>3, <2>1
    <3> QED  BY <1>1, <1>3, <1>5, <3>1
  <2>2. CASE Len(u) < Len(t)
    <3>1. Len(u) + 1 \in 1 .. Len(t)  BY <1>1, <1>3, <2>2
    <3> QED  BY <1>1, <1>3, <1>5, <3>1
  <2> QED  BY <1>1, <1>3, <2>1, <2>2
<1>7. \A i \in 1 .. Len(t) : t[i] = u[i]  BY <1>1, <1>3, <1>6
<1>8. t = u
  <2>1. t \in Seq(Range(t) \cup Range(u)) /\ u \in Seq(Range(t) \cup Range(u))
    <3>1. Range(t) \subseteq Range(t) \cup Range(u) /\ Range(u) \subseteq Range(t) \cup Range(u)
      OBVIOUS
    <3> QED  BY <1>4, <3>1, SeqMonotonic
  <2> QED  BY <1>1, <1>6, <1>7, <2>1, SeqEqual
<1>9. Len(k) = Len(l)  BY <1>1, <1>3, <1>6
<1>10. \A i \in 1 .. Len(k) : k[i] = l[i]  BY <1>1, <1>3, <1>6, <1>9
<1>11. k = l
  <2>1. k \in [1 .. Len(k) -> Range(k)] /\ l \in [1 .. Len(l) -> Range(l)]
    BY <1>4, LenProperties
  <2>2. k = [i \in 1 .. Len(k) |-> k[i]] /\ l = [i \in 1 .. Len(l) |-> l[i]]  BY <2>1
  <2> QED  BY <1>9, <1>10, <2>2
<1> QED  BY <1>8, <1>11

\* A name of its own is never such a name.
LEMMA DottedIsNoName ==
  ASSUME NEW t, NEW k, IsList(t), IsList(k)
  PROVE  IsList(Dotted(t, k)) /\ ~IsName(Dotted(t, k))
<1> DEFINE d == Dotted(t, k)
<1>1. IsList(d) /\ Len(d) = Len(t) + 1 + Len(k) /\ d[Len(t) + 1] = "."
      /\ Len(t) \in Nat /\ Len(k) \in Nat
  BY DottedFacts
<1> HIDE DEF d
<1>2. DOMAIN d = 1 .. Len(d)  BY <1>1, LenProperties DEF IsList
<1>3. Len(t) + 1 \in DOMAIN d  BY <1>1, <1>2
<1>4. "." \in Range(d)  BY <1>1, <1>3 DEF Range
<1> QED  BY <1>1, <1>4 DEF IsName, d

----------------------------------------------------------------------------
\* What the merged rows show

Row(db, t, i) == IF i = 0 THEN Nulls(t) ELSE db[t][i]

\* A name that no table has as a column.
Hidden(name) == \A u \in DOMAIN ColumnsOf : name \notin ColumnSet(u)

Under(t, name) == \E k : IsList(k) /\ name = Dotted(t, k)

\* The names in a row merged of L tables: columns of theirs, hidden ones and,
\* once rows have been merged, those with a table.
Known(T, L, name) ==
  \/ IsName(name) /\ (Hidden(name) \/ \E n \in 1 .. L : name \in ColumnSet(T[n]))
  \/ L > 1 /\ \E n \in 1 .. L : Under(T[n], name)

\* The row r shows the combination x of rows of the tables T: a column that one
\* table has under its name, and every column under the table's name too, but
\* for the first table only until another table with that column is joined to
\* be joined again.
PlainShown(db, T, r, x) ==
  \A n \in 1 .. Len(x) : \A c \in ColumnSet(T[n]) :
    (\A m \in 1 .. Len(x) : m # n => c \notin ColumnSet(T[m]))
      => Cell(r, c) = Cell(Row(db, T[n], x[n]), c)

DottedShown(db, T, r, x) ==
  Len(x) > 1 =>
    \A n \in 1 .. Len(x) : \A c \in ColumnSet(T[n]) :
      (n = 1 => \A m \in 2 .. Len(x) - 1 : c \notin ColumnSet(T[m]))
        => /\ Cell(r, Dotted(T[n], c)) = Cell(Row(db, T[n], x[n]), c)
           /\ c \in DOMAIN Row(db, T[n], x[n]) => Dotted(T[n], c) \in DOMAIN r

\* And it has no other names; the row of one table is shown by itself only.
Shows(db, T, r, x) ==
  /\ \A name \in DOMAIN r : Known(T, Len(x), name)
  /\ Len(x) = 1 => r = Row(db, T[1], x[1])
  /\ PlainShown(db, T, r, x)
  /\ DottedShown(db, T, r, x)

\* Tables of the database, each of them once.
ScopeFits(db, T) ==
  /\ T \in Seq(DOMAIN db)
  /\ \A n, m \in DOMAIN T : T[n] = T[m] => n = m

\* The names of a row of a table.
LEMMA RowNames ==
  ASSUME NEW db \in Databases, NEW t \in DOMAIN db, NEW i \in 0 .. Len(db[t])
  PROVE  /\ t \in DOMAIN ColumnsOf /\ IsName(t) /\ IsList(t)
         /\ \A c \in ColumnSet(t) : IsName(c) /\ IsList(c) /\ ~Hidden(c)
         /\ \A name \in DOMAIN Row(db, t, i) :
              IsName(name) /\ IsList(name) /\ (name \in ColumnSet(t) \/ Hidden(name))
         /\ i = 0 => \A c \in ColumnSet(t) : c \in DOMAIN Row(db, t, i)
<1>1. t \in DOMAIN ColumnsOf  BY DatabasesAssumption
<1>2. IsName(t) /\ IsList(t)  BY <1>1, NamesAssumption DEF IsName
<1>3. \A c \in ColumnSet(t) : IsName(c) /\ IsList(c) /\ ~Hidden(c)
  BY <1>1, NamesAssumption DEF IsName, Hidden
<1>4. CASE i = 0
  <2>1. DOMAIN Row(db, t, i) = ColumnSet(t)  BY <1>4 DEF Row, Nulls
  <2> QED  BY <1>1, <1>2, <1>3, <2>1
<1>5. CASE i # 0
  <2>1. Row(db, t, i) = db[t][i]  BY <1>5 DEF Row
  <2>2. i \in DOMAIN db[t]
    <3>1. IsList(db[t])  BY DatabasesAssumption
    <3>2. Len(db[t]) \in Nat /\ DOMAIN db[t] = 1 .. Len(db[t])  BY <3>1, LenProperties DEF IsList
    <3> QED  BY <1>5, <3>2
  <2>3. RowFits(db[t][i], t)  BY <2>2, DatabasesAssumption
  <2>4. \A name \in DOMAIN db[t][i] : IsName(name) /\ (name \in ColumnSet(t) \/ Hidden(name))
    BY <2>3 DEF RowFits, Hidden
  <2> QED  BY <1>1, <1>2, <1>3, <1>5, <2>1, <2>4 DEF IsName
<1> QED  BY <1>4, <1>5

\* A name that is not written again stays.
LEMMA PrefixedKeeps ==
  ASSUME NEW row, NEW t, NEW last, NEW name, \A k \in DOMAIN row : Dotted(t, k) # name
  PROVE  /\ name \in DOMAIN Prefixed(row, t, last) <=> name \in DOMAIN row
         /\ Cell(Prefixed(row, t, last), name) = Cell(row, name)
<1>1. {k \in DOMAIN row : Dotted(t, k) = name} = {}  OBVIOUS
<1>2. name \in DOMAIN Prefixed(row, t, last) <=> name \in DOMAIN row  BY DEF Prefixed
<1>3. ASSUME name \in DOMAIN row PROVE Prefixed(row, t, last)[name] = row[name]
  BY <1>1, <1>3 DEF Prefixed
<1> QED  BY <1>2, <1>3 DEF Cell

\* "t.c" is written with c, or stays as it was.
LEMMA PrefixedWrites ==
  ASSUME NEW row, NEW t, NEW last, NEW c, IsName(t), IsList(c),
         \A k \in DOMAIN row : IsList(k)
  PROVE  /\ Dotted(t, c) \in DOMAIN Prefixed(row, t, last)
              <=> Dotted(t, c) \in DOMAIN row \/ c \in DOMAIN row
         /\ c \notin DOMAIN row
              => Cell(Prefixed(row, t, last), Dotted(t, c)) = Cell(row, Dotted(t, c))
         /\ c \in DOMAIN row =>
              \/ Cell(Prefixed(row, t, last), Dotted(t, c)) = row[c]
              \/ /\ Dotted(t, c) \in DOMAIN row
                 /\ Cell(Prefixed(row, t, last), Dotted(t, c)) = row[Dotted(t, c)]
<1> DEFINE name == Dotted(t, c)
           short == {k \in DOMAIN row : Dotted(t, k) = name}
           wins == {k \in short : name \notin DOMAIN row \/ k \in last}
           P == Prefixed(row, t, last)
<1>1. \A k \in DOMAIN row : Dotted(t, k) = name => k = c
  BY DottedInjective
<1>2. name \in DOMAIN P <=> name \in DOMAIN row \/ c \in DOMAIN row
  BY <1>1 DEF Prefixed
<1>3. CASE c \notin DOMAIN row
  <2>1. \A k \in DOMAIN row : Dotted(t, k) # name  BY <1>1, <1>3
  <2> HIDE DEF name
  <2>2. Cell(P, name) = Cell(row, name)  BY <2>1, PrefixedKeeps
  <2> QED  BY <1>2, <1>3, <2>2 DEF name
<1>4. CASE c \in DOMAIN row
  <2>1. short = {c}  BY <1>1, <1>4
  <2>2. name \in DOMAIN P  BY <1>2, <1>4
  <2>3. P[name] = IF wins = {} THEN row[name] ELSE row[CHOOSE k \in wins : TRUE]
    BY <2>2 DEF Prefixed
  <2>4. CASE wins = {}
    <3>1. P[name] = row[name]  BY <2>3, <2>4
    <3>2. name \in DOMAIN row  BY <2>1, <2>4
    <3> QED  BY <1>2, <1>4, <2>2, <3>1, <3>2 DEF Cell
  <2>5. CASE wins # {}
    <3>1. wins = {c}  BY <2>1, <2>5
    <3>2. (CHOOSE k \in wins : TRUE) = c  BY <3>1
    <3>3. P[name] = row[c]  BY <2>3, <2>5, <3>2
    <3> QED  BY <1>2, <1>4, <2>2, <3>3 DEF Cell
  <2> QED  BY <2>4, <2>5
<1> QED  BY <1>3, <1>4

\* The second row hides the first.
LEMMA OverCells ==
  ASSUME NEW first, NEW second, NEW name
  PROVE  /\ name \in DOMAIN Over(first, second) <=> name \in DOMAIN first \/ name \in DOMAIN second
         /\ name \in DOMAIN second => Cell(Over(first, second), name) = Cell(second, name)
         /\ name \notin DOMAIN second => Cell(Over(first, second), name) = Cell(first, name)
  BY DEF Over, Cell
\* A row that shows a combination, merged with a row of the next table, shows
\* both, in whatever order the names of the first are written.
LEMMA MergeShows ==
  ASSUME NEW db \in Databases, NEW T, ScopeFits(db, T),
         NEW x \in Seq(Nat), NEW i, Len(x) > 0, Len(x) + 1 \in DOMAIN T,
         \A n \in 1 .. Len(x) : x[n] \in 0 .. Len(db[T[n]]),
         i \in 0 .. Len(db[T[Len(x) + 1]]),
         NEW r, Shows(db, T, r, x), NEW last, NEW first, first = T[1],
         NEW u, u = T[Len(x) + 1]
  PROVE  Shows(db, T, Over(Prefixed(r, first, last), Prefixed(Row(db, u, i), u, {})), Append(x, i))
<1> DEFINE L == Len(x)
           R == Row(db, u, i)
           P == Prefixed(r, first, last)
           Q == Prefixed(R, u, {})
           M == Over(P, Q)
           y == Append(x, i)
<1>1. /\ L \in Nat \ {0} /\ DOMAIN T = 1 .. Len(T) /\ Len(T) \in Nat /\ L + 1 <= Len(T)
      /\ \A n \in 1 .. L + 1 : n \in DOMAIN T /\ T[n] \in DOMAIN db
  <2>1. T \in Seq(DOMAIN db)  BY DEF ScopeFits
  <2>2. DOMAIN T = 1 .. Len(T) /\ Len(T) \in Nat /\ \A n \in DOMAIN T : T[n] \in DOMAIN db
    BY <2>1, LenProperties
  <2>3. L \in Nat \ {0}  BY LenProperties
  <2> QED  BY <2>2, <2>3
<1>2. \A n, m \in 1 .. L + 1 : T[n] = T[m] => n = m  BY <1>1 DEF ScopeFits
<1>3. /\ Len(y) = L + 1 /\ y[L + 1] = i
      /\ \A n \in 1 .. L : y[n] = x[n]
  <2>1. u \in DOMAIN db  BY <1>1
  <2>2. IsList(db[u])  BY <2>1, DatabasesAssumption
  <2>3. i \in Nat  BY <2>2, LenProperties DEF IsList
  <2> QED  BY <2>3, AppendProperties
<1>4. /\ IsName(u) /\ IsList(u)
      /\ \A c \in ColumnSet(u) : IsName(c) /\ IsList(c) /\ ~Hidden(c)
      /\ \A name \in DOMAIN R : IsName(name) /\ IsList(name) /\ (name \in ColumnSet(u) \/ Hidden(name))
  BY <1>1, RowNames
<1>5. \A n \in 1 .. L :
        /\ IsName(T[n]) /\ IsList(T[n])
        /\ \A c \in ColumnSet(T[n]) : IsName(c) /\ IsList(c) /\ ~Hidden(c)
  <2> SUFFICES ASSUME NEW n \in 1 .. L
               PROVE  /\ IsName(T[n]) /\ IsList(T[n])
                      /\ \A c \in ColumnSet(T[n]) : IsName(c) /\ IsList(c) /\ ~Hidden(c)
    OBVIOUS
  <2>1. T[n] \in DOMAIN db /\ x[n] \in 0 .. Len(db[T[n]])  BY <1>1
  <2> QED  BY <2>1, RowNames
<1>6. /\ \A name \in DOMAIN r : Known(T, L, name)
      /\ L = 1 => r = Row(db, T[1], x[1])
      /\ PlainShown(db, T, r, x) /\ DottedShown(db, T, r, x)
  BY DEF Shows
<1>7. \A name \in DOMAIN r : IsList(name)
  <2> SUFFICES ASSUME NEW name \in DOMAIN r PROVE IsList(name)  OBVIOUS
  <2>1. CASE IsName(name)  BY <2>1 DEF IsName
  <2>2. CASE \E n \in 1 .. L : Under(T[n], name)
    <3>1. PICK n \in 1 .. L : Under(T[n], name)  BY <2>2
    <3>2. PICK k : IsList(k) /\ name = Dotted(T[n], k)  BY <3>1 DEF Under
    <3> QED  BY <1>5, <3>2, DottedIsNoName
  <2> QED  BY <1>6, <2>1, <2>2 DEF Known
<1>8. IsName(first) /\ IsList(first) /\ first = T[1] /\ 1 \in 1 .. L  BY <1>1, <1>5
<1> HIDE DEF R, P, Q, M, y, L
\* The names.
<1>9. ASSUME NEW name \in DOMAIN M PROVE Known(T, L + 1, name)
  <2>1. name \in DOMAIN P \/ name \in DOMAIN Q  BY <1>9, OverCells DEF M
  <2>2. CASE name \in DOMAIN r
    <3>1. Known(T, L, name)  BY <1>6, <2>2
    <3>2. \A n \in 1 .. L : n \in 1 .. L + 1  BY <1>1
    <3>3. L > 1 => L + 1 > 1  BY <1>1
    <3> QED  BY <3>1, <3>2, <3>3 DEF Known
  <2>3. CASE name \in DOMAIN R
    <3>1. L + 1 \in 1 .. L + 1 /\ u = T[L + 1]  BY <1>1 DEF L
    <3> QED  BY <1>4, <2>3, <3>1 DEF Known
  <2>4. CASE name \in DOMAIN P /\ name \notin DOMAIN r
    <3>1. \E k \in DOMAIN r : Dotted(first, k) = name  BY <2>4, PrefixedKeeps DEF P
    <3>2. Under(T[1], name)  BY <1>7, <1>8, <3>1 DEF Under
    <3>3. L + 1 > 1 /\ 1 \in 1 .. L + 1  BY <1>1
    <3> QED  BY <3>2, <3>3 DEF Known
  <2>5. CASE name \in DOMAIN Q /\ name \notin DOMAIN R
    <3>1. \E k \in DOMAIN R : Dotted(u, k) = name  BY <2>5, PrefixedKeeps DEF Q
    <3>2. Under(T[L + 1], name)  BY <1>4, <3>1 DEF Under, L
    <3>3. L + 1 > 1 /\ L + 1 \in 1 .. L + 1  BY <1>1
    <3> QED  BY <3>2, <3>3 DEF Known
  <2> QED  BY <2>1, <2>2, <2>3, <2>4, <2>5
\* A name of its own is written by no other.
<1>10. ASSUME NEW c, IsName(c)
       PROVE  /\ c \in DOMAIN P <=> c \in DOMAIN r
              /\ Cell(P, c) = Cell(r, c)
              /\ c \in DOMAIN Q <=> c \in DOMAIN R
              /\ Cell(Q, c) = Cell(R, c)
  <2>1. \A k \in DOMAIN r : Dotted(first, k) # c  BY <1>7, <1>8, <1>10, DottedIsNoName
  <2>2. \A k \in DOMAIN R : Dotted(u, k) # c  BY <1>4, <1>10, DottedIsNoName
  <2>3. (c \in DOMAIN P <=> c \in DOMAIN r) /\ Cell(P, c) = Cell(r, c)
    BY <2>1, PrefixedKeeps DEF P
  <2>4. (c \in DOMAIN Q <=> c \in DOMAIN R) /\ Cell(Q, c) = Cell(R, c)
    BY <2>2, PrefixedKeeps DEF Q
  <2> QED  BY <2>3, <2>4
<1>11. PlainShown(db, T, M, y)
  <2> SUFFICES ASSUME NEW n \in 1 .. L + 1, NEW c \in ColumnSet(T[n]),
                      \A m \in 1 .. L + 1 : m # n => c \notin ColumnSet(T[m])
               PROVE  Cell(M, c) = Cell(Row(db, T[n], y[n]), c)
    BY <1>3 DEF PlainShown
  <2>1. CASE n = L + 1
    <3>1. Row(db, T[n], y[n]) = R  BY <1>3, <2>1 DEF R, L
    <3>2. T[n] = u  BY <2>1 DEF L
    <3>3. IsName(c) /\ ~Hidden(c)  BY <1>4, <3>2
    <3>4. CASE c \in DOMAIN R
      BY <1>10, <3>1, <3>3, <3>4, OverCells DEF M
    <3>5. CASE c \notin DOMAIN R
      <4>1. c \notin DOMAIN r
        <5>1. \A m \in 1 .. L : c \notin ColumnSet(T[m])  BY <1>1, <2>1
        <5>2. ~Known(T, L, c)
          <6>1. \A m \in 1 .. L : ~Under(T[m], c)
            BY <1>5, <3>3, DottedIsNoName DEF Under
          <6> QED  BY <3>3, <5>1, <6>1 DEF Known
        <5> QED  BY <1>6, <5>2
      <4>2. Cell(M, c) = Cell(P, c)  BY <1>10, <3>3, <3>5, OverCells DEF M
      <4>3. Cell(P, c) = Null  BY <1>10, <3>3, <4>1 DEF Cell
      <4> QED  BY <3>1, <3>5, <4>2, <4>3 DEF Cell
    <3> QED  BY <3>4, <3>5
  <2>2. CASE n # L + 1
    <3>1. n \in 1 .. L /\ Row(db, T[n], y[n]) = Row(db, T[n], x[n])  BY <1>1, <1>3, <2>2
    <3>2. IsName(c) /\ ~Hidden(c)  BY <1>5, <3>1
    <3>3. c \notin ColumnSet(u)
      <4>1. L + 1 \in 1 .. L + 1 /\ u = T[L + 1]  BY <1>1 DEF L
      <4> QED  BY <2>2, <4>1
    <3>4. c \notin DOMAIN Q  BY <1>4, <1>10, <3>2, <3>3
    <3>5. Cell(M, c) = Cell(r, c)  BY <1>10, <3>2, <3>4, OverCells DEF M
    <3>6. \A m \in 1 .. L : m # n => c \notin ColumnSet(T[m])  BY <1>1
    <3>7. Cell(r, c) = Cell(Row(db, T[n], x[n]), c)
      BY <1>6, <3>1, <3>6 DEF PlainShown, L
    <3> QED  BY <3>1, <3>5, <3>7
  <2> QED  BY <2>1, <2>2
<1>12. ASSUME NEW n \in 1 .. L + 1, NEW c \in ColumnSet(T[n]),
              n = 1 => \A m \in 2 .. L : c \notin ColumnSet(T[m])
       PROVE  /\ Cell(M, Dotted(T[n], c)) = Cell(Row(db, T[n], y[n]), c)
              /\ c \in DOMAIN Row(db, T[n], y[n]) => Dotted(T[n], c) \in DOMAIN M
  <2> DEFINE name == Dotted(T[n], c)
  <2>1. CASE n = L + 1
    <3>1. Row(db, T[n], y[n]) = R /\ T[n] = u  BY <1>3, <2>1 DEF R, L
    <3>2. IsName(c) /\ IsList(c)  BY <1>4, <3>1
    <3>3. name \notin DOMAIN R  BY <1>4, <3>1, <3>2, DottedIsNoName
    <3>4. /\ name \in DOMAIN Q <=> c \in DOMAIN R
          /\ c \in DOMAIN R => Cell(Q, name) = R[c]
      BY <1>4, <3>1, <3>2, <3>3, PrefixedWrites DEF Q
    <3>5. CASE c \in DOMAIN R
      BY <3>1, <3>4, <3>5, OverCells DEF M, Cell
    <3>6. CASE c \notin DOMAIN R
      <4>1. name \notin DOMAIN r
        <5>1. ~IsName(name)  BY <1>4, <3>1, <3>2, DottedIsNoName
        <5>2. \A m \in 1 .. L : ~Under(T[m], name)
          <6> SUFFICES ASSUME NEW m \in 1 .. L, NEW k, IsList(k), name = Dotted(T[m], k)
                       PROVE  FALSE
            BY DEF Under
          <6>1. T[m] = T[n]
            <7>1. IsName(T[m]) /\ IsName(T[n])  BY <1>4, <1>5, <3>1
            <7> QED  BY <3>2, <7>1, DottedInjective
          <6> QED  BY <1>1, <1>2, <2>1, <6>1
        <5>3. ~Known(T, L, name)  BY <5>1, <5>2 DEF Known
        <5> QED  BY <1>6, <5>3
      <4>2. \A k \in DOMAIN r : Dotted(first, k) # name
        <5> SUFFICES ASSUME NEW k \in DOMAIN r, Dotted(first, k) = name PROVE FALSE
          OBVIOUS
        <5>1. T[1] = T[n]
          BY <1>4, <1>7, <1>8, <3>1, <3>2, DottedInjective
        <5> QED  BY <1>1, <1>2, <2>1, <5>1
      <4> HIDE DEF name
      <4>3. name \notin DOMAIN P  BY <4>1, <4>2, PrefixedKeeps DEF P
      <4>4. name \notin DOMAIN Q  BY <3>4, <3>6
      <4>5. Cell(M, name) = Null  BY <4>3, <4>4, OverCells DEF M, Cell
      <4> QED  BY <3>1, <3>6, <4>5 DEF Cell, name
    <3> QED  BY <3>5, <3>6
  <2>2. CASE n # L + 1
    <3>1. n \in 1 .. L /\ Row(db, T[n], y[n]) = Row(db, T[n], x[n])  BY <1>1, <1>3, <2>2
    <3>2. IsName(c) /\ IsList(c) /\ IsName(T[n]) /\ IsList(T[n])  BY <1>5, <3>1
    <3>3. ~IsName(name)  BY <3>2, DottedIsNoName
    <3>4. name \notin DOMAIN Q
      <4>1. name \notin DOMAIN R  BY <1>4, <3>3
      <4>2. \A k \in DOMAIN R : Dotted(u, k) # name
        <5> SUFFICES ASSUME NEW k \in DOMAIN R, Dotted(u, k) = name PROVE FALSE
          OBVIOUS
        <5>1. u = T[n]  BY <1>4, <3>2, DottedInjective
        <5>2. T[L + 1] = T[n] /\ L + 1 \in 1 .. L + 1  BY <1>1, <5>1 DEF L
        <5> QED  BY <1>2, <2>2, <5>2
      <4> HIDE DEF name
      <4> QED  BY <4>1, <4>2, PrefixedKeeps DEF Q
    <3>5. /\ Cell(M, name) = Cell(P, name)
          /\ name \in DOMAIN P => name \in DOMAIN M
      BY <3>4, OverCells DEF M
    <3>6. /\ Cell(P, name) = Cell(Row(db, T[n], x[n]), c)
          /\ c \in DOMAIN Row(db, T[n], x[n]) => name \in DOMAIN P
      <4>1. CASE n # 1
        <5>1. L > 1  BY <1>1, <3>1, <4>1
        <5>2. \A k \in DOMAIN r : Dotted(first, k) # name
          <6> SUFFICES ASSUME NEW k \in DOMAIN r, Dotted(first, k) = name PROVE FALSE
            OBVIOUS
          <6>1. T[1] = T[n]  BY <1>7, <1>8, <3>2, DottedInjective
          <6>2. 1 \in 1 .. L + 1  BY <1>1
          <6> QED  BY <1>2, <4>1, <6>1, <6>2
        <5>3. /\ Cell(r, name) = Cell(Row(db, T[n], x[n]), c)
              /\ c \in DOMAIN Row(db, T[n], x[n]) => name \in DOMAIN r
          BY <1>6, <3>1, <4>1, <5>1 DEF DottedShown, L
        <5> HIDE DEF name
        <5>4. (name \in DOMAIN P <=> name \in DOMAIN r) /\ Cell(P, name) = Cell(r, name)
          BY <5>2, PrefixedKeeps DEF P
        <5> QED  BY <5>3, <5>4
      <4>2. CASE n = 1
        <5> DEFINE val == Cell(Row(db, T[1], x[1]), c)
        <5>1. \A m \in 1 .. L : m # 1 => c \notin ColumnSet(T[m])
          <6>1. \A m \in 1 .. L : m # 1 => m \in 2 .. L  BY <1>1
          <6>2. \A m \in 2 .. L : c \notin ColumnSet(T[m])  BY <1>12, <4>2
          <6> QED  BY <6>1, <6>2
        <5>2. Cell(r, c) = val
          BY <1>6, <1>8, <4>2, <5>1 DEF PlainShown, L
        <5>3. /\ name \in DOMAIN P <=> name \in DOMAIN r \/ c \in DOMAIN r
              /\ c \notin DOMAIN r => Cell(P, name) = Cell(r, name)
              /\ c \in DOMAIN r =>
                   \/ Cell(P, name) = r[c]
                   \/ name \in DOMAIN r /\ Cell(P, name) = r[name]
          BY <1>7, <1>8, <3>2, <4>2, PrefixedWrites DEF P
        <5>4. CASE L = 1
          <6>1. name \notin DOMAIN r
            <7>1. ~Known(T, L, name)  BY <3>3, <5>4 DEF Known
            <7> QED  BY <1>6, <7>1
          <6>2. r = Row(db, T[1], x[1])  BY <1>6, <5>4
          <6>3. c \in DOMAIN r => Cell(P, name) = val  BY <5>3, <6>1, <6>2 DEF Cell
          <6>4. c \notin DOMAIN r => Cell(P, name) = Null /\ val = Null
            BY <5>3, <6>1, <6>2 DEF Cell
          <6> QED  BY <4>2, <5>3, <6>2, <6>3, <6>4
        <5>5. CASE L # 1
          <6>1. L > 1 /\ \A m \in 2 .. L - 1 : c \notin ColumnSet(T[m])
            <7>1. \A m \in 2 .. L - 1 : m \in 1 .. L /\ m # 1  BY <1>1
            <7>2. L > 1  BY <1>1, <5>5
            <7> QED  BY <5>1, <7>1, <7>2
          <6>2. /\ Cell(r, name) = val
                /\ c \in DOMAIN Row(db, T[1], x[1]) => name \in DOMAIN r
            BY <1>6, <1>8, <4>2, <6>1 DEF DottedShown, L
          <6>3. Cell(P, name) = val
            <7>1. CASE c \notin DOMAIN r  BY <5>3, <6>2, <7>1
            <7>2. CASE c \in DOMAIN r
              <8>1. r[c] = val  BY <5>2, <7>2 DEF Cell
              <8>2. name \in DOMAIN r => r[name] = val  BY <6>2 DEF Cell
              <8> QED  BY <5>3, <7>2, <8>1, <8>2
            <7> QED  BY <7>1, <7>2
          <6> QED  BY <4>2, <5>3, <6>2, <6>3
        <5> QED  BY <5>4, <5>5
      <4> QED  BY <4>1, <4>2
    <3> QED  BY <3>1, <3>5, <3>6
  <2> QED  BY <2>1, <2>2
<1>13. DottedShown(db, T, M, y)
  <2>1. \A m : m \in 2 .. L <=> m \in 2 .. Len(y) - 1  BY <1>1, <1>3
  <2> QED  BY <1>3, <1>12, <2>1 DEF DottedShown
<1>14. Len(y) # 1  BY <1>1, <1>3
<1>15. Shows(db, T, M, y)  BY <1>3, <1>9, <1>11, <1>13, <1>14 DEF Shows
<1> QED  BY <1>15 DEF M, P, Q, R, y
\* A row as it was read shows the combination of itself.
LEMMA FirstShows ==
  ASSUME NEW db \in Databases, NEW T, ScopeFits(db, T), 1 \in DOMAIN T,
         NEW i \in 1 .. Len(db[T[1]])
  PROVE  Shows(db, T, db[T[1]][i], <<i>>)
<1> DEFINE x == <<i>>
<1>1. T[1] \in DOMAIN db  BY LenProperties DEF ScopeFits
<1>2. Len(db[T[1]]) \in Nat  BY <1>1, DatabasesAssumption, LenProperties DEF IsList
<1>3. Len(x) = 1 /\ x[1] = i /\ i \in 0 .. Len(db[T[1]]) /\ i # 0  BY <1>2
<1>4. db[T[1]][i] = Row(db, T[1], i)  BY <1>3 DEF Row
<1> HIDE DEF x
<1>5. ASSUME NEW name \in DOMAIN Row(db, T[1], i) PROVE Known(T, 1, name)
  <2>1. IsName(name) /\ (name \in ColumnSet(T[1]) \/ Hidden(name))  BY <1>1, <1>3, RowNames
  <2>2. 1 \in 1 .. 1  OBVIOUS
  <2> QED  BY <2>1, <2>2 DEF Known
<1>6. PlainShown(db, T, Row(db, T[1], i), x)  BY <1>3 DEF PlainShown
<1>7. DottedShown(db, T, Row(db, T[1], i), x)  BY <1>3 DEF DottedShown
<1> QED  BY <1>3, <1>4, <1>5, <1>6, <1>7 DEF Shows, x

----------------------------------------------------------------------------
\* What the names mean

\* The value of a column is what its row shows of it.
LEMMA ValueShown ==
  ASSUME NEW db, NEW t, NEW i \in Nat, NEW c \in ColumnSet(t)
  PROVE  Value(db, t, i, c) = Cell(Row(db, t, i), c)
  BY DEF Value, Row, Cell, Nulls

\* Of the tables of a statement, one has a column that is not shared.
LEMMA NotShared ==
  ASSUME NEW q, Len(q.joins) \in Nat, NEW c, ~Shared(q, c),
         NEW n \in DOMAIN Scope(q), NEW m \in DOMAIN Scope(q),
         c \in ColumnSet(Scope(q)[n]), c \in ColumnSet(Scope(q)[m])
  PROVE  n = m
<1> DEFINE S == {k \in DOMAIN Scope(q) : c \in ColumnSet(Scope(q)[k])}
<1>1. DOMAIN Scope(q) = 1 .. Len(q.joins) + 1  BY DEF Scope
<1>2. IsFiniteSet(S)
  <2>1. IsFiniteSet(1 .. Len(q.joins) + 1)  BY FS_Interval
  <2> QED  BY <1>1, <2>1, FS_Subset
<1>3. n \in S /\ m \in S  OBVIOUS
<1>4. ~(Cardinality(S) > 1)  BY DEF Shared
<1> HIDE DEF S
<1>5. Cardinality(S) \in Nat  BY <1>2, FS_CardinalityType
<1>6. Cardinality(S) # 0  BY <1>2, <1>3, FS_EmptySet
<1>7. Cardinality(S) = 1  BY <1>4, <1>5, <1>6
<1>8. PICK k : S = {k}  BY <1>2, <1>7, FS_Singleton
<1> QED  BY <1>3, <1>8

\* x takes a row of each of the first tables.
Takes(db, T, x) ==
  /\ x \in Seq(Nat) /\ Len(x) <= Len(T)
  /\ \A n \in 1 .. Len(x) : x[n] \in 0 .. Len(db[T[n]])

\* The tables of a combination and their names.
LEMMA TakenNames ==
  ASSUME NEW db \in Databases, NEW T, ScopeFits(db, T), NEW x, Takes(db, T, x)
  PROVE  /\ Len(x) \in Nat /\ DOMAIN x = 1 .. Len(x) /\ Len(T) \in Nat /\ DOMAIN T = 1 .. Len(T)
         /\ \A n \in 1 .. Len(x) :
              /\ n \in DOMAIN T /\ T[n] \in DOMAIN db /\ x[n] \in Nat
              /\ x[n] \in 0 .. Len(db[T[n]]) /\ IsName(T[n]) /\ IsList(T[n])
              /\ \A c \in ColumnSet(T[n]) : IsName(c) /\ IsList(c) /\ ~Hidden(c)
<1>1. Len(x) \in Nat /\ DOMAIN x = 1 .. Len(x)  BY LenProperties DEF Takes
<1>2. Len(T) \in Nat /\ DOMAIN T = 1 .. Len(T) /\ \A n \in DOMAIN T : T[n] \in DOMAIN db
  BY LenProperties DEF ScopeFits
<1>3. ASSUME NEW n \in 1 .. Len(x)
      PROVE  /\ n \in DOMAIN T /\ T[n] \in DOMAIN db /\ x[n] \in Nat
             /\ x[n] \in 0 .. Len(db[T[n]]) /\ IsName(T[n]) /\ IsList(T[n])
             /\ \A c \in ColumnSet(T[n]) : IsName(c) /\ IsList(c) /\ ~Hidden(c)
  <2>1. n \in DOMAIN T /\ T[n] \in DOMAIN db /\ x[n] \in 0 .. Len(db[T[n]])
    BY <1>1, <1>2 DEF Takes
  <2>2. /\ IsName(T[n]) /\ IsList(T[n])
        /\ \A c \in ColumnSet(T[n]) : IsName(c) /\ IsList(c) /\ ~Hidden(c)
    BY <2>1, RowNames
  <2>3. x[n] \in Nat  BY <1>1, LenProperties DEF Takes
  <2> QED  BY <2>1, <2>2, <2>3
<1> QED  BY <1>1, <1>2, <1>3

\* "t.c" means column c of t, and c the column of the only table that has it.
LEMMA NamesMean ==
  ASSUME NEW db \in Databases, NEW q, ScopeFits(db, Scope(q)),
         NEW x, Takes(db, Scope(q), x), NEW n \in 1 .. Len(x), NEW c \in ColumnSet(Scope(q)[n])
  PROVE  /\ Dotted(Scope(q)[n], c) \in DOMAIN Meant(db, q, x)
         /\ Meant(db, q, x)[Dotted(Scope(q)[n], c)] = Cell(Row(db, Scope(q)[n], x[n]), c)
         /\ (\A m \in 1 .. Len(x) : m # n => c \notin ColumnSet(Scope(q)[m])) =>
              /\ c \in DOMAIN Meant(db, q, x)
              /\ Meant(db, q, x)[c] = Cell(Row(db, Scope(q)[n], x[n]), c)
<1> DEFINE T == Scope(q)
           sources == {s \in (DOMAIN x) \X UNION {ColumnSet(T[m]) : m \in DOMAIN x} :
                         s[2] \in ColumnSet(T[s[1]])}
           Names(s) == {s[2], Dotted(T[s[1]], s[2])}
           Of(s) == Value(db, T[s[1]], x[s[1]], s[2])
           M == Meant(db, q, x)
<1>0. n \in DOMAIN x /\ DOMAIN x = 1 .. Len(x)  BY TakenNames
<1>1. M = [name \in UNION {Names(s) : s \in sources} |->
             Of(CHOOSE s \in sources : name \in Names(s))]
  BY DEF Meant
<1>2. <<n, c>> \in sources /\ c \in Names(<<n, c>>) /\ Dotted(T[n], c) \in Names(<<n, c>>)
  BY <1>0
<1>3. ASSUME NEW s \in sources
      PROVE  s = <<s[1], s[2]>> /\ s[1] \in 1 .. Len(x) /\ s[2] \in ColumnSet(T[s[1]])
  BY <1>0
<1> HIDE DEF M, sources
<1>4. ASSUME NEW name, <<n, c>> \in sources, name \in Names(<<n, c>>),
             \A s \in sources : name \in Names(s) => s = <<n, c>>
      PROVE  name \in DOMAIN M /\ M[name] = Cell(Row(db, T[n], x[n]), c)
  <2>1. (CHOOSE s \in sources : name \in Names(s)) = <<n, c>>  BY <1>4
  <2>2. name \in UNION {Names(s) : s \in sources}  BY <1>4
  <2>3. name \in DOMAIN M /\ M[name] = Of(<<n, c>>)  BY <1>1, <2>1, <2>2
  <2>4. Of(<<n, c>>) = Value(db, T[n], x[n], c)  OBVIOUS
  <2>5. x[n] \in Nat  BY TakenNames
  <2> QED  BY <2>3, <2>4, <2>5, ValueShown
<1>5. /\ IsName(T[n]) /\ IsList(T[n]) /\ IsName(c) /\ IsList(c)
  BY TakenNames
<1>6. ASSUME NEW s \in sources
      PROVE  /\ IsName(T[s[1]]) /\ IsList(T[s[1]]) /\ IsName(s[2]) /\ IsList(s[2])
             /\ s[1] \in DOMAIN T
  BY <1>3, TakenNames
<1>7. ASSUME NEW s \in sources, Dotted(T[n], c) \in Names(s)
      PROVE  s = <<n, c>>
  <2>1. Dotted(T[n], c) # s[2]  BY <1>5, <1>6, DottedIsNoName
  <2>2. Dotted(T[n], c) = Dotted(T[s[1]], s[2])  BY <1>7, <2>1
  <2>3. T[n] = T[s[1]] /\ c = s[2]  BY <1>5, <1>6, <2>2, DottedInjective
  <2>4. n \in DOMAIN T  BY TakenNames
  <2>5. n = s[1]  BY <1>6, <2>3, <2>4 DEF ScopeFits
  <2> QED  BY <1>3, <2>3, <2>5
<1>8. ASSUME NEW s \in sources, c \in Names(s),
             \A m \in 1 .. Len(x) : m # n => c \notin ColumnSet(T[m])
      PROVE  s = <<n, c>>
  <2>1. c # Dotted(T[s[1]], s[2])  BY <1>5, <1>6, DottedIsNoName
  <2>2. c = s[2]  BY <1>8, <2>1
  <2>3. s[1] = n  BY <1>3, <1>8, <2>2
  <2> QED  BY <1>3, <2>2, <2>3
<1>9. Dotted(T[n], c) \in DOMAIN M /\ M[Dotted(T[n], c)] = Cell(Row(db, T[n], x[n]), c)
  <2>1. \A s \in sources : Dotted(T[n], c) \in Names(s) => s = <<n, c>>  BY <1>7
  <2> QED  BY <1>2, <1>4, <2>1
<1>10. ASSUME \A m \in 1 .. Len(x) : m # n => c \notin ColumnSet(T[m])
       PROVE  c \in DOMAIN M /\ M[c] = Cell(Row(db, T[n], x[n]), c)
  <2>1. \A s \in sources : c \in Names(s) => s = <<n, c>>  BY <1>8, <1>10
  <2> QED  BY <1>2, <1>4, <2>1
<1> QED  BY <1>9, <1>10 DEF M

\* A clear reference finds in a row that shows a combination what it means there.
LEMMA ClearRefShown ==
  ASSUME NEW db \in Databases, NEW q, Len(q.joins) \in Nat, ScopeFits(db, Scope(q)),
         NEW x, Takes(db, Scope(q), x), NEW r, Shows(db, Scope(q), r, x),
         NEW table, NEW name, ClearRef(db, q, Len(x), table, name)
  PROVE  ColumnRef(table, name, r) = ColumnRef(table, name, Meant(db, q, x))
<1> DEFINE T == Scope(q)
           L == Len(x)
           M == Meant(db, q, x)
<1>1. PICK n \in 1 .. L :
        /\ name \in ColumnSet(T[n]) /\ table \in {<<>>, T[n]}
        /\ Shared(q, name) =>
             /\ table = T[n] /\ Complete(db, T[n], name)
             /\ n = 1 => \A m \in 2 .. (L - 1) : name \notin ColumnSet(T[m])
  BY DEF ClearRef
<1> DEFINE val == Cell(Row(db, T[n], x[n]), name)
<1>2. /\ L \in Nat /\ n \in DOMAIN T /\ T[n] # <<>> /\ IsName(T[n]) /\ IsList(T[n])
      /\ x[n] \in 0 .. Len(db[T[n]])
      /\ IsName(name) /\ IsList(name) /\ ~Hidden(name)
      /\ \A m \in 1 .. L : m \in DOMAIN T /\ IsName(T[m]) /\ IsList(T[m])
  BY <1>1, TakenNames DEF IsName
<1>3. Dotted(T[n], name) \in DOMAIN M /\ M[Dotted(T[n], name)] = val
  BY <1>1, NamesMean
<1>4. CASE ~Shared(q, name)
  <2>1. \A m \in 1 .. L : m # n => name \notin ColumnSet(T[m])
    BY <1>1, <1>2, <1>4, NotShared
  <2>2. name \in DOMAIN M /\ M[name] = val
    BY <1>1, <2>1, NamesMean
  <2>3. Cell(r, name) = val
    BY <1>1, <2>1 DEF Shows, PlainShown
  <2>4. Dotted(T[n], name) \in DOMAIN r => r[Dotted(T[n], name)] = val
    <3> SUFFICES ASSUME Dotted(T[n], name) \in DOMAIN r PROVE r[Dotted(T[n], name)] = val
      OBVIOUS
    <3>1. L > 1
      <4>1. Known(T, L, Dotted(T[n], name))  BY DEF Shows
      <4>2. ~IsName(Dotted(T[n], name))  BY <1>2, DottedIsNoName
      <4> QED  BY <4>1, <4>2 DEF Known
    <3>2. n = 1 => \A m \in 2 .. L - 1 : name \notin ColumnSet(T[m])
      <4>1. \A m \in 2 .. L - 1 : m \in 1 .. L /\ m # 1  BY <1>2
      <4> QED  BY <2>1, <4>1
    <3>3. Cell(r, Dotted(T[n], name)) = val
      BY <1>1, <3>1, <3>2 DEF Shows, DottedShown
    <3> QED  BY <3>3 DEF Cell
  <2>5. CASE table = <<>>
    BY <2>2, <2>3, <2>5 DEF ColumnRef, Cell
  <2>6. CASE table = T[n]
    <3>1. ColumnRef(table, name, M) = val  BY <1>2, <1>3, <2>6 DEF ColumnRef
    <3>2. ColumnRef(table, name, r) = val  BY <1>2, <2>3, <2>4, <2>6 DEF ColumnRef, Cell
    <3> QED  BY <3>1, <3>2
  <2> QED  BY <1>1, <2>5, <2>6
<1>5. CASE Shared(q, name)
  <2>1. /\ table = T[n] /\ Complete(db, T[n], name)
        /\ n = 1 => \A m \in 2 .. (L - 1) : name \notin ColumnSet(T[m])
    BY <1>1, <1>5
  <2>2. name \in DOMAIN Row(db, T[n], x[n])
    <3>1. CASE x[n] = 0  BY <1>1, <3>1 DEF Row, Nulls
    <3>2. CASE x[n] # 0
      <4>1. x[n] \in Numbers(db, T[n])
        <5>1. x[n] \in Nat  BY TakenNames
        <5> QED  BY <1>2, <3>2, <5>1 DEF Numbers
      <4> QED  BY <2>1, <3>2, <4>1 DEF Complete, Row
    <3> QED  BY <3>1, <3>2
  <2>3. CASE L > 1
    <3>1. Cell(r, Dotted(T[n], name)) = val /\ Dotted(T[n], name) \in DOMAIN r
      BY <1>1, <2>1, <2>2, <2>3 DEF Shows, DottedShown
    <3>2. r[Dotted(T[n], name)] = val  BY <3>1 DEF Cell
    <3> QED  BY <1>2, <1>3, <2>1, <3>1, <3>2 DEF ColumnRef
  \* A single table so far, of a statement with more: the name is found as it is.
  <2>4. CASE ~(L > 1)
    <3>1. L = 1 /\ n = 1
      <4>1. L \in Nat /\ n \in 1 .. L  BY <1>2
      <4>2. \A k \in Nat : \A m \in 1 .. k : ~(k > 1) => k = 1 /\ m = 1  OBVIOUS
      <4> QED  BY <2>4, <4>1, <4>2
    <3>2. r = Row(db, T[1], x[1])  BY <3>1 DEF Shows
    <3>3. Dotted(T[n], name) \notin DOMAIN r
      <4>1. ~Known(T, L, Dotted(T[n], name))  BY <1>2, <2>4, DottedIsNoName DEF Known
      <4> QED  BY <4>1 DEF Shows
    <3>4. ColumnRef(table, name, r) = val  BY <2>1, <2>2, <3>1, <3>2, <3>3 DEF ColumnRef, Cell
    <3>5. ColumnRef(table, name, M) = val  BY <1>2, <1>3, <2>1 DEF ColumnRef
    <3> QED  BY <3>4, <3>5
  <2> QED  BY <2>3, <2>4
<1> QED  BY <1>4, <1>5
----------------------------------------------------------------------------
\* Expressions

\* Expressions are finite trees, as the parser builds them.
FiniteTrees ==
  \E depth \in [Exprs -> Nat] : \A e \in Exprs :
    /\ e.op \in Operators \cup {"literal", "column", "*"}
    /\ e.op \in Operators =>
         /\ e.left \in Exprs /\ e.right \in Exprs
         /\ depth[e.left] < depth[e] /\ depth[e.right] < depth[e]

\* An operator that is computed is true or false.
LEMMA BinaryIsBool ==
  ASSUME NEW op \in Operators, NEW l, NEW r
  PROVE  Binary(op, l, r) \in {Bool(TRUE), Bool(FALSE)}
<1> DEFINE b == /\ Type(l) = "BOOL" /\ Type(r) = "BOOL"
                /\ IF op = "AND" THEN l[2] /\ r[2] ELSE l[2] \/ r[2]
<1>1. \A x \in BOOLEAN : Bool(x) \in {Bool(TRUE), Bool(FALSE)}  OBVIOUS
<1>2. /\ b \in BOOLEAN /\ Same(l, r) \in BOOLEAN
      /\ AtMost(l, r) \in BOOLEAN /\ AtMost(r, l) \in BOOLEAN
  BY DEF Same, AtMost
<1>3. CASE op \in {"AND", "OR"}
  <2>1. Binary(op, l, r) = Bool(b)  BY <1>3 DEF Binary
  <2> QED  BY <1>1, <1>2, <2>1
<1>4. CASE op \in {"=", "!="}
  <2>1. Binary(op, l, r) \in {Bool(Same(l, r)), Bool(~Same(l, r))}  BY <1>4 DEF Binary
  <2> QED  BY <1>1, <1>2, <2>1
<1>5. CASE op \in {"<=", ">=", "<", ">"}
  <2>1. Binary(op, l, r) \in {Bool(AtMost(l, r)), Bool(~AtMost(l, r)),
                              Bool(AtMost(r, l)), Bool(~AtMost(r, l))}
    BY <1>5 DEF Binary
  <2> QED  BY <1>1, <1>2, <2>1
<1> QED  BY <1>3, <1>4, <1>5 DEF Operators

Outcome(e, f, row) ==
  CASE e.op = "literal" -> e.value
    [] e.op = "column" -> ColumnRef(e.table, e.name, row)
    [] e.op = "*" -> Error
    [] OTHER -> IF Error \in {f[e.left], f[e.right]} THEN Error ELSE Binary(e.op, f[e.left], f[e.right])

\* Evaluation comes to its end, and goes by the parts of an expression.
LEMMA EvaluateParts ==
  ASSUME FiniteTrees, NEW row, NEW expr \in Exprs
  PROVE  Evaluate(expr, row) =
           CASE expr.op = "literal" -> expr.value
             [] expr.op = "column" -> ColumnRef(expr.table, expr.name, row)
             [] expr.op = "*" -> Error
             [] OTHER -> IF Error \in {Evaluate(expr.left, row), Evaluate(expr.right, row)} THEN Error
                         ELSE Binary(expr.op, Evaluate(expr.left, row), Evaluate(expr.right, row))
<1>1. PICK depth \in [Exprs -> Nat] : \A e \in Exprs :
        /\ e.op \in Operators \cup {"literal", "column", "*"}
        /\ e.op \in Operators =>
             /\ e.left \in Exprs /\ e.right \in Exprs
             /\ depth[e.left] < depth[e] /\ depth[e.right] < depth[e]
  BY DEF FiniteTrees
<1> DEFINE V == {e.value : e \in Exprs} \cup {ColumnRef(e.table, e.name, row) : e \in Exprs}
                  \cup {Error, Bool(TRUE), Bool(FALSE)}
           Def == [e \in Exprs |-> [f \in [Exprs -> V] |-> Outcome(e, f, row)]]
<1>2. ASSUME NEW e \in Exprs, NEW f \in [Exprs -> V] PROVE Outcome(e, f, row) \in V
  <2>1. CASE e.op \in {"literal", "column", "*"}  BY <2>1 DEF Outcome
  <2>2. CASE e.op \notin {"literal", "column", "*"}
    <3>1. e.op \in Operators  BY <1>1, <2>2
    <3>2. Binary(e.op, f[e.left], f[e.right]) \in V  BY <3>1, BinaryIsBool
    <3>3. Outcome(e, f, row) \in {Error, Binary(e.op, f[e.left], f[e.right])}
      BY <2>2 DEF Outcome
    <3>4. Error \in V  OBVIOUS
    <3> HIDE DEF V
    <3> QED  BY <3>2, <3>3, <3>4
  <2> QED  BY <2>1, <2>2
<1>3. Def \in [Exprs -> [[Exprs -> V] -> V]]
  <2> HIDE DEF V
  <2> QED  BY <1>2
<1>4. \A e \in Exprs : \A f \in [Exprs -> V] : Def[e][f] = Outcome(e, f, row)
  OBVIOUS
<1>5. V # {}  OBVIOUS
<1> HIDE DEF V
<1>6. ASSUME NEW e \in Exprs, NEW f \in [Exprs -> V], NEW g \in [Exprs -> V],
             \A q \in Exprs : depth[q] < depth[e] => f[q] = g[q]
      PROVE  Outcome(e, f, row) = Outcome(e, g, row)
  <2>1. CASE e.op \in {"literal", "column", "*"}  BY <2>1 DEF Outcome
  <2>2. CASE e.op \notin {"literal", "column", "*"}
    <3>1. f[e.left] = g[e.left] /\ f[e.right] = g[e.right]  BY <1>1, <1>6, <2>2
    <3> QED  BY <2>2, <3>1 DEF Outcome
  <2> QED  BY <2>1, <2>2
<1> HIDE DEF Def
<1>7. RankedDefinition(Exprs, V, depth, Def)
  <2>1. \A e \in Exprs : \A f, g \in [Exprs -> V] :
          (\A q \in Exprs : depth[q] < depth[e] => f[q] = g[q]) => Def[e][f] = Def[e][g]
    BY <1>4, <1>6
  <2> QED  BY <1>3, <2>1 DEF RankedDefinition
<1>8. PICK f \in [Exprs -> V] : \A e \in Exprs : f[e] = Def[e][f]
  BY <1>5, <1>7, RecursiveFunctionExists
<1>9. f = [e \in Exprs |-> Outcome(e, f, row)]  BY <1>4, <1>8
<1> DEFINE val == CHOOSE g : g = [e \in Exprs |-> Outcome(e, g, row)]
<1>10. val = [e \in Exprs |-> Outcome(e, val, row)]  BY <1>9
<1>11. ASSUME NEW e PROVE Evaluate(e, row) = val[e]  BY DEF Evaluate, Outcome
<1> HIDE DEF val
<1>12. \A e \in Exprs : val[e] = Outcome(e, val, row)  BY <1>10
<1>13. Evaluate(expr, row) = Outcome(expr, val, row)  BY <1>11, <1>12
<1>14. val[expr.left] = Evaluate(expr.left, row) /\ val[expr.right] = Evaluate(expr.right, row)
  BY <1>11
<1> QED  BY <1>13, <1>14 DEF Outcome

RefsOf(e, f) ==
  CASE e.op = "column" -> {<<e.table, e.name>>}
    [] e.op \in {"literal", "*"} -> {}
    [] OTHER -> f[e.left] \cup f[e.right]

\* So do the references of an expression.
LEMMA RefsParts ==
  ASSUME FiniteTrees, NEW expr \in Exprs
  PROVE  Refs(expr) = CASE expr.op = "column" -> {<<expr.table, expr.name>>}
                        [] expr.op \in {"literal", "*"} -> {}
                        [] OTHER -> Refs(expr.left) \cup Refs(expr.right)
<1>1. PICK depth \in [Exprs -> Nat] : \A e \in Exprs :
        /\ e.op \in Operators \cup {"literal", "column", "*"}
        /\ e.op \in Operators =>
             /\ e.left \in Exprs /\ e.right \in Exprs
             /\ depth[e.left] < depth[e] /\ depth[e.right] < depth[e]
  BY DEF FiniteTrees
<1> DEFINE P == {<<e.table, e.name>> : e \in Exprs}
           V == SUBSET P
           Def == [e \in Exprs |-> [f \in [Exprs -> V] |-> RefsOf(e, f)]]
<1>2. ASSUME NEW e \in Exprs, NEW f \in [Exprs -> V] PROVE RefsOf(e, f) \in V
  <2>1. CASE e.op \in {"literal", "column", "*"}  BY <2>1 DEF RefsOf
  <2>2. CASE e.op \notin {"literal", "column", "*"}
    <3>1. e.left \in Exprs /\ e.right \in Exprs  BY <1>1, <2>2
    <3>2. RefsOf(e, f) = f[e.left] \cup f[e.right]  BY <2>2 DEF RefsOf
    <3>3. f[e.left] \in V /\ f[e.right] \in V
      <4> HIDE DEF V
      <4> QED  BY <3>1
    <3> QED  BY <3>2, <3>3
  <2> QED  BY <2>1, <2>2
<1>3. Def \in [Exprs -> [[Exprs -> V] -> V]]
  <2> HIDE DEF V
  <2> QED  BY <1>2
<1>4. \A e \in Exprs : \A f \in [Exprs -> V] : Def[e][f] = RefsOf(e, f)
  OBVIOUS
<1>5. V # {}  OBVIOUS
<1> HIDE DEF V
<1>6. ASSUME NEW e \in Exprs, NEW f \in [Exprs -> V], NEW g \in [Exprs -> V],
             \A q \in Exprs : depth[q] < depth[e] => f[q] = g[q]
      PROVE  RefsOf(e, f) = RefsOf(e, g)
  <2>1. CASE e.op \in {"literal", "column", "*"}  BY <2>1 DEF RefsOf
  <2>2. CASE e.op \notin {"literal", "column", "*"}
    <3>1. f[e.left] = g[e.left] /\ f[e.right] = g[e.right]  BY <1>1, <1>6, <2>2
    <3> QED  BY <2>2, <3>1 DEF RefsOf
  <2> QED  BY <2>1, <2>2
<1> HIDE DEF Def
<1>7. RankedDefinition(Exprs, V, depth, Def)
  <2>1. \A e \in Exprs : \A f, g \in [Exprs -> V] :
          (\A q \in Exprs : depth[q] < depth[e] => f[q] = g[q]) => Def[e][f] = Def[e][g]
    BY <1>4, <1>6
  <2> QED  BY <1>3, <2>1 DEF RankedDefinition
<1>8. PICK f \in [Exprs -> V] : \A e \in Exprs : f[e] = Def[e][f]
  BY <1>5, <1>7, RecursiveFunctionExists
<1>9. f = [e \in Exprs |-> RefsOf(e, f)]  BY <1>4, <1>8
<1> DEFINE of == CHOOSE g : g = [e \in Exprs |-> RefsOf(e, g)]
<1>10. of = [e \in Exprs |-> RefsOf(e, of)]  BY <1>9
<1>11. ASSUME NEW e PROVE Refs(e) = of[e]  BY DEF Refs, RefsOf
<1> HIDE DEF of
<1>12. \A e \in Exprs : of[e] = RefsOf(e, of)  BY <1>10
<1>13. Refs(expr) = RefsOf(expr, of)  BY <1>11, <1>12
<1>14. of[expr.left] = Refs(expr.left) /\ of[expr.right] = Refs(expr.right)
  BY <1>11
<1> QED  BY <1>13, <1>14 DEF RefsOf

\* An expression is what its references make of it.
LEMMA RefsDecide ==
  ASSUME FiniteTrees, NEW row, NEW other, NEW expr \in Exprs,
         \A ref \in Refs(expr) : ColumnRef(ref[1], ref[2], row) = ColumnRef(ref[1], ref[2], other)
  PROVE  Evaluate(expr, row) = Evaluate(expr, other)
<1>1. PICK depth \in [Exprs -> Nat] : \A e \in Exprs :
        /\ e.op \in Operators \cup {"literal", "column", "*"}
        /\ e.op \in Operators =>
             /\ e.left \in Exprs /\ e.right \in Exprs
             /\ depth[e.left] < depth[e] /\ depth[e.right] < depth[e]
  BY DEF FiniteTrees
<1> DEFINE Agree(e) == \A ref \in Refs(e) :
                         ColumnRef(ref[1], ref[2], row) = ColumnRef(ref[1], ref[2], other)
           T == {e \in Exprs : Agree(e) => Evaluate(e, row) = Evaluate(e, other)}
<1>2. ASSUME NEW e \in Exprs, \A q \in Exprs : depth[q] < depth[e] => q \in T
      PROVE  e \in T
  <2> SUFFICES ASSUME Agree(e) PROVE Evaluate(e, row) = Evaluate(e, other)
    OBVIOUS
  <2>1. CASE e.op = "column"
    <3>1. <<e.table, e.name>> \in Refs(e)  BY <2>1, RefsParts
    <3>2. ColumnRef(e.table, e.name, row) = ColumnRef(e.table, e.name, other)  BY <3>1
    <3>3. Evaluate(e, row) = ColumnRef(e.table, e.name, row)
          /\ Evaluate(e, other) = ColumnRef(e.table, e.name, other)
      BY <2>1, EvaluateParts
    <3> QED  BY <3>2, <3>3
  <2>2. CASE e.op = "literal"  BY <2>2, EvaluateParts
  <2>3. CASE e.op = "*"  BY <2>3, EvaluateParts
  <2>4. CASE e.op \notin {"literal", "column", "*"}
    <3>1. /\ e.left \in Exprs /\ depth[e.left] < depth[e]
          /\ e.right \in Exprs /\ depth[e.right] < depth[e]
      BY <1>1, <2>4
    <3>2. Refs(e) = Refs(e.left) \cup Refs(e.right)  BY <2>4, RefsParts
    <3>3. Agree(e.left) /\ Agree(e.right)  BY <3>2
    <3>4. e.left \in T /\ e.right \in T
      <4> HIDE DEF T
      <4> QED  BY <1>2, <3>1
    <3>5. Evaluate(e.left, row) = Evaluate(e.left, other)
          /\ Evaluate(e.right, row) = Evaluate(e.right, other)
      BY <3>3, <3>4
    <3> DEFINE Of(rw) == IF Error \in {Evaluate(e.left, rw), Evaluate(e.right, rw)} THEN Error
                         ELSE Binary(e.op, Evaluate(e.left, rw), Evaluate(e.right, rw))
    <3>6. Evaluate(e, row) = Of(row)  BY <2>4, EvaluateParts
    <3>7. Evaluate(e, other) = Of(other)  BY <2>4, EvaluateParts
    <3>8. Of(row) = Of(other)  BY <3>5
    <3> QED  BY <3>6, <3>7, <3>8
  <2> QED  BY <2>1, <2>2, <2>3, <2>4
<1> HIDE DEF T
<1>3. \A e \in Exprs : e \in T  BY <1>2, RankInduction
<1> QED  BY <1>3 DEF T

----------------------------------------------------------------------------
\* The order of values

\* LexLess is strict.
LEMMA LexAsymmetric ==
  ASSUME NEW s \in Seq(Int), NEW t \in Seq(Int), LexLess(s, t)
  PROVE  ~LexLess(t, s)
<1> SUFFICES ASSUME LexLess(t, s) PROVE FALSE  OBVIOUS
<1>0. Len(s) \in Nat /\ Len(t) \in Nat
      /\ (\A i \in 1 .. Len(s) : s[i] \in Int) /\ (\A i \in 1 .. Len(t) : t[i] \in Int)
  BY LenProperties
<1>1. PICK n \in 1 .. Len(t) : /\ \A i \in 1 .. n - 1 : i <= Len(s) /\ s[i] = t[i]
                               /\ n > Len(s) \/ s[n] < t[n]
  BY DEF LexLess
<1>2. PICK p \in 1 .. Len(s) : /\ \A i \in 1 .. p - 1 : i <= Len(t) /\ t[i] = s[i]
                               /\ p > Len(t) \/ t[p] < s[p]
  BY DEF LexLess
<1>3. CASE n < p
  <2>1. n \in 1 .. p - 1 /\ ~(n > Len(s)) /\ n \in 1 .. Len(s)  BY <1>0, <1>3
  <2> QED  BY <1>0, <1>1, <1>2, <2>1
<1>4. CASE p < n
  <2>1. p \in 1 .. n - 1 /\ ~(p > Len(t)) /\ p \in 1 .. Len(t)  BY <1>0, <1>4
  <2> QED  BY <1>0, <1>1, <1>2, <2>1
<1>5. CASE n = p
  <2>1. ~(n > Len(s)) /\ ~(p > Len(t))  BY <1>0, <1>5
  <2> QED  BY <1>0, <1>1, <1>2, <1>5, <2>1
<1> QED  BY <1>3, <1>4, <1>5

\* What is between two is after the one or before the other.
LEMMA LexBetween ==
  ASSUME NEW a \in Seq(Int), NEW b \in Seq(Int), NEW c \in Seq(Int), LexLess(a, c)
  PROVE  LexLess(a, b) \/ LexLess(b, c)
<1>0. Len(a) \in Nat /\ Len(b) \in Nat /\ Len(c) \in Nat
      /\ (\A i \in 1 .. Len(a) : a[i] \in Int) /\ (\A i \in 1 .. Len(b) : b[i] \in Int)
      /\ (\A i \in 1 .. Len(c) : c[i] \in Int)
  BY LenProperties
<1>1. PICK n \in 1 .. Len(c) : /\ \A i \in 1 .. n - 1 : i <= Len(a) /\ a[i] = c[i]
                               /\ n > Len(a) \/ a[n] < c[n]
  BY DEF LexLess
<1> DEFINE D == {i \in 1 .. n - 1 : i > Len(b) \/ b[i] # a[i]}
<1>2. CASE D = {}
  <2>1. ASSUME NEW i \in 1 .. n - 1 PROVE i <= Len(b) /\ b[i] = a[i]
    <3>1. ~(i > Len(b) \/ b[i] # a[i])  BY <1>2
    <3> QED  BY <1>0, <3>1
  <2>2. CASE n > Len(b) \/ b[n] < c[n]
    <3>1. \A i \in 1 .. n - 1 : i <= Len(b) /\ b[i] = c[i]  BY <1>1, <2>1
    <3> QED  BY <2>2, <3>1 DEF LexLess
  <2>3. CASE ~(n > Len(b) \/ b[n] < c[n])
    <3>1. n \in 1 .. Len(b) /\ c[n] <= b[n]  BY <1>0, <2>3
    <3>2. n > Len(a) \/ a[n] < b[n]
      <4>1. ASSUME ~(n > Len(a)) PROVE a[n] < b[n]
        <5>1. a[n] \in Int /\ b[n] \in Int /\ c[n] \in Int /\ a[n] < c[n]  BY <1>0, <1>1, <3>1, <4>1
        <5> QED  BY <3>1, <5>1
      <4> QED  BY <4>1
    <3>3. \A i \in 1 .. n - 1 : i <= Len(a) /\ a[i] = b[i]  BY <1>1, <2>1
    <3> QED  BY <3>1, <3>2, <3>3 DEF LexLess
  <2> QED  BY <2>2, <2>3
<1>3. CASE D # {}
  <2>1. D \subseteq Nat  OBVIOUS
  <2>2. PICK m \in D : \A k \in D : m <= k
    <3> HIDE DEF D
    <3> QED  BY <1>3, <2>1, LeastNumber
  <2>3. /\ m \in 1 .. n - 1 /\ m \in 1 .. Len(c) /\ m <= Len(a) /\ m \in 1 .. Len(a)
        /\ a[m] = c[m] /\ a[m] \in Int
    <3>1. m \in 1 .. n - 1  BY <2>2
    <3>2. m <= Len(a) /\ a[m] = c[m]  BY <1>1, <3>1
    <3>3. m \in 1 .. Len(c) /\ m \in 1 .. Len(a)  BY <1>0, <3>1, <3>2
    <3> QED  BY <1>0, <3>1, <3>2, <3>3
  <2>4. ASSUME NEW i \in 1 .. m - 1 PROVE i <= Len(b) /\ b[i] = a[i] /\ i <= Len(a) /\ a[i] = c[i]
    <3>1. i \in 1 .. n - 1 /\ ~(m <= i)  BY <2>3
    <3>2. i \notin D  BY <2>2, <3>1
    <3>3. ~(i > Len(b)) /\ b[i] = a[i]  BY <3>1, <3>2
    <3> QED  BY <1>0, <1>1, <3>1, <3>3
  <2>5. CASE m > Len(b)  BY <2>3, <2>4, <2>5 DEF LexLess
  <2>6. CASE ~(m > Len(b))
    <3>1. m \in 1 .. Len(b) /\ b[m] \in Int /\ b[m] # a[m]
      <4>1. m \in 1 .. Len(b)  BY <1>0, <2>3, <2>6
      <4>2. b[m] \in Int  BY <1>0, <4>1
      <4>3. b[m] # a[m]  BY <2>2, <2>3, <2>6
      <4> QED  BY <4>1, <4>2, <4>3
    <3>2. CASE b[m] < a[m]  BY <2>3, <2>4, <3>2 DEF LexLess
    <3>3. CASE a[m] < b[m]
      <4>1. \A i \in 1 .. m - 1 : i <= Len(a) /\ a[i] = b[i]  BY <2>4
      <4> QED  BY <3>1, <3>3, <4>1 DEF LexLess
    <3> QED  BY <2>3, <3>1, <3>2, <3>3
  <2> QED  BY <2>5, <2>6
<1> QED  BY <1>2, <1>3

\* Sequences that are in order stay so, whatever comes after them, and one is
\* ordered by what comes after it.
LEMMA LexAppend ==
  ASSUME NEW x \in Seq(Nat), NEW y \in Seq(Nat), Len(x) = Len(y), NEW a \in Nat, NEW b \in Nat
  PROVE  /\ LexLess(x, y) => LexLess(Append(x, a), Append(y, b))
         /\ a < b => LexLess(Append(x, a), Append(x, b))
<1> DEFINE u == Append(x, a)
           v == Append(y, b)
           w == Append(x, b)
<1>1. /\ Len(x) \in Nat /\ Len(u) = Len(x) + 1 /\ Len(v) = Len(x) + 1 /\ Len(w) = Len(x) + 1
      /\ \A i \in 1 .. Len(x) : u[i] = x[i] /\ v[i] = y[i] /\ w[i] = x[i]
      /\ u[Len(x) + 1] = a /\ w[Len(x) + 1] = b
  BY AppendProperties, LenProperties
<1> HIDE DEF u, v, w
<1>2. ASSUME LexLess(x, y) PROVE LexLess(u, v)
  <2>1. PICK n \in 1 .. Len(y) : /\ \A i \in 1 .. n - 1 : i <= Len(x) /\ x[i] = y[i]
                                 /\ n > Len(x) \/ x[n] < y[n]
    BY <1>2 DEF LexLess
  <2>2. n \in 1 .. Len(x) /\ n \in 1 .. Len(v) /\ ~(n > Len(x))  BY <1>1
  <2>3. u[n] < v[n]  BY <1>1, <2>1, <2>2
  <2>4. \A i \in 1 .. n - 1 : i <= Len(u) /\ u[i] = v[i]
    <3>1. \A i \in 1 .. n - 1 : i \in 1 .. Len(x) /\ i <= Len(u)  BY <1>1
    <3> QED  BY <1>1, <2>1, <3>1
  <2> QED  BY <2>2, <2>3, <2>4 DEF LexLess
<1>3. ASSUME a < b PROVE LexLess(u, w)
  <2>1. PICK n \in Nat : n = Len(x) + 1  BY <1>1
  <2>2. n \in 1 .. Len(w) /\ u[n] < w[n]  BY <1>1, <1>3, <2>1
  <2>3. \A i \in 1 .. n - 1 : i <= Len(u) /\ u[i] = w[i]  BY <1>1, <2>1
  <2> QED  BY <2>2, <2>3 DEF LexLess
<1> QED  BY <1>2, <1>3 DEF u, v, w

OfType(type) == {v \in Values : Type(v) \in {type, "NULL"}}

\* Values of one type are put in order, NULL before the others.
LEMMA ValueOrder ==
  ASSUME NEW type \in {"INT", "TEXT", "BOOL"},
         NEW a \in OfType(type), NEW b \in OfType(type), NEW c \in OfType(type)
  PROVE  /\ AtMost(a, b) \/ AtMost(b, a)
         /\ AtMost(a, b) /\ AtMost(b, c) => AtMost(a, c)
<1>1. CASE type = "INT"
  <2>1. \A v \in OfType(type) : v = Null \/ (Type(v) = "INT" /\ v[2] \in Int)
    BY <1>1, ValuesAssumption DEF OfType, Values, Type, Null
  <2> QED  BY <2>1 DEF AtMost
<1>2. CASE type \in {"TEXT", "BOOL"}
  <2> DEFINE C(v) == Codes(Text(v))
  <2>1. ASSUME NEW v \in OfType(type), v # Null PROVE Type(v) # "INT" /\ C(v) \in Seq(Int)
    <3>1. Type(v) = type /\ v \in Values  BY <2>1 DEF OfType, Values, Type, Null
    <3>2. Text(v) \in Texts
      <4>1. CASE type = "TEXT"  BY <3>1, <4>1 DEF Text, Values, Type, Null
      <4>2. CASE type = "BOOL"
        <5>1. v[2] \in BOOLEAN  BY <3>1, <4>2 DEF Values, Type, Null
        <5> QED  BY <3>1, <4>2, <5>1, ValuesAssumption DEF Text
      <4> QED  BY <1>2, <4>1, <4>2
    <3>3. Text(v) \in Seq(DOMAIN Code)  BY <3>2, ValuesAssumption
    <3> DEFINE t == Text(v)
    <3> HIDE DEF t
    <3>4. t \in Seq(DOMAIN Code)  BY <3>3 DEF t
    <3>5. DOMAIN t = 1 .. Len(t) /\ Len(t) \in Nat /\ \A i \in 1 .. Len(t) : t[i] \in DOMAIN Code
      BY <3>4, LenProperties
    <3>6. Codes(t) \in [1 .. Len(t) -> Int]  BY <3>5, ValuesAssumption DEF Codes
    <3>7. Codes(t) \in Seq(Int)  BY <3>5, <3>6
    <3> QED  BY <1>2, <3>1, <3>7 DEF t
  <2>2. \A v, w \in OfType(type) :
          v # Null /\ w # Null => (AtMost(v, w) <=> ~LexLess(C(w), C(v)))
    BY <2>1 DEF AtMost
  <2>3. \A v, w \in OfType(type) : v = Null => AtMost(v, w)  BY DEF AtMost
  <2>4. \A v, w \in OfType(type) : v # Null /\ w = Null => ~AtMost(v, w)  BY DEF AtMost
  <2> HIDE DEF C
  <2>5. AtMost(a, b) \/ AtMost(b, a)
    <3>1. CASE a = Null \/ b = Null  BY <2>3, <3>1
    <3>2. CASE a # Null /\ b # Null
      <4>1. C(a) \in Seq(Int) /\ C(b) \in Seq(Int)  BY <2>1, <3>2
      <4>2. ~LexLess(C(b), C(a)) \/ ~LexLess(C(a), C(b))  BY <4>1, LexAsymmetric
      <4> QED  BY <2>2, <3>2, <4>2
    <3> QED  BY <3>1, <3>2
  <2>6. ASSUME AtMost(a, b), AtMost(b, c) PROVE AtMost(a, c)
    <3>1. CASE a = Null  BY <2>3, <3>1
    <3>2. CASE a # Null
      <4>1. b # Null  BY <2>4, <2>6, <3>2
      <4>2. c # Null  BY <2>4, <2>6, <4>1
      <4>3. C(a) \in Seq(Int) /\ C(b) \in Seq(Int) /\ C(c) \in Seq(Int)  BY <2>1, <3>2, <4>1, <4>2
      <4>4. ~LexLess(C(b), C(a)) /\ ~LexLess(C(c), C(b))  BY <2>2, <2>6, <3>2, <4>1, <4>2
      <4>5. ~LexLess(C(c), C(a))  BY <4>3, <4>4, LexBetween
      <4> QED  BY <2>2, <3>2, <4>2, <4>5
    <3> QED  BY <3>1, <3>2
  <2> QED  BY <2>5, <2>6
<1> QED  BY <1>1, <1>2

----------------------------------------------------------------------------
\* Combinations

\* What a SELECT of the assumption has.
LEMMA QueryFacts ==
  ASSUME NEW q, QueryFits(q)
  PROVE  /\ Len(q.joins) \in Nat /\ DOMAIN q.joins = 1 .. Len(q.joins)
         /\ Len(q.orderBy) \in Nat /\ DOMAIN q.orderBy = 1 .. Len(q.orderBy)
         /\ Len(q.columns) \in Nat /\ DOMAIN q.columns = 1 .. Len(q.columns)
  BY LenProperties DEF QueryFits, IsList

\* Its tables.
LEMMA ScopeFacts ==
  ASSUME NEW db \in Databases, NEW q, QueryFits(q), Clear(db, q)
  PROVE  /\ Len(q.joins) \in Nat /\ DOMAIN q.joins = 1 .. Len(q.joins)
         /\ ScopeFits(db, Scope(q))
         /\ Len(Scope(q)) = Len(q.joins) + 1 /\ DOMAIN Scope(q) = 1 .. Len(q.joins) + 1
         /\ Scope(q)[1] = q.table
         /\ \A j \in 1 .. Len(q.joins) : Scope(q)[j + 1] = q.joins[j].table
         /\ \A n \in 1 .. Len(q.joins) + 1 :
              /\ Scope(q)[n] \in DOMAIN db /\ IsList(db[Scope(q)[n]])
              /\ Len(db[Scope(q)[n]]) \in Nat
              /\ DOMAIN db[Scope(q)[n]] = 1 .. Len(db[Scope(q)[n]])
<1> DEFINE T == Scope(q)
           K == Len(q.joins)
<1>1. K \in Nat /\ DOMAIN q.joins = 1 .. K  BY QueryFacts
<1>2. DOMAIN T = 1 .. K + 1 /\ T[1] = q.table /\ \A j \in 1 .. K : T[j + 1] = q.joins[j].table
  BY <1>1 DEF Scope
<1> HIDE DEF T
<1>3. \A n \in 1 .. K + 1 : T[n] \in DOMAIN db /\ \A m \in 1 .. n - 1 : T[m] # T[n]
  BY <1>2 DEF Clear, T
<1>4. T \in [1 .. K + 1 -> DOMAIN db]
  <2>1. T = [n \in DOMAIN T |-> T[n]]  BY DEF T, Scope
  <2> QED  BY <1>2, <1>3, <2>1
<1>5. T \in Seq(DOMAIN db) /\ Len(T) = K + 1  BY <1>1, <1>4
<1>6. \A n, m \in 1 .. K + 1 : T[n] = T[m] => n = m
  <2> SUFFICES ASSUME NEW n \in 1 .. K + 1, NEW m \in 1 .. K + 1, n # m PROVE T[n] # T[m]
    OBVIOUS
  <2>1. n \in 1 .. m - 1 \/ m \in 1 .. n - 1  BY <1>1
  <2> QED  BY <1>3, <2>1
<1>7. ScopeFits(db, T)  BY <1>2, <1>5, <1>6 DEF ScopeFits
<1>8. ASSUME NEW n \in 1 .. K + 1
      PROVE  /\ T[n] \in DOMAIN db /\ IsList(db[T[n]]) /\ Len(db[T[n]]) \in Nat
             /\ DOMAIN db[T[n]] = 1 .. Len(db[T[n]])
  <2>1. T[n] \in DOMAIN db  BY <1>3
  <2>2. IsList(db[T[n]])  BY <2>1, DatabasesAssumption
  <2> QED  BY <2>1, <2>2, LenProperties DEF IsList
<1> QED  BY <1>1, <1>2, <1>5, <1>7, <1>8 DEF T

\* One row more: it matches, or none does and the row of NULLs is there.
JoinedBy(db, q, j, x, i) ==
  \/ /\ i \in Numbers(db, q.joins[j].table)
     /\ Matches(db, q, j, Append(x, i)) = True
  \/ /\ i = 0 /\ q.joins[j].type = "LEFT"
     /\ \A k \in Numbers(db, q.joins[j].table) : Matches(db, q, j, Append(x, k)) # True

\* A combination takes rows of the tables.
LEMMA CombinationTakes ==
  ASSUME NEW db \in Databases, NEW q, QueryFits(q), Clear(db, q),
         NEW len \in 1 .. Len(q.joins) + 1, NEW x \in Combinations(db, q, len)
  PROVE  x \in Seq(Nat) /\ Len(x) = len /\ Takes(db, Scope(q), x)
<1> DEFINE T == Scope(q)
<1>0. /\ Len(q.joins) \in Nat /\ Len(T) = Len(q.joins) + 1 /\ T[1] = q.table
      /\ \A j \in 1 .. Len(q.joins) : T[j + 1] = q.joins[j].table
      /\ \A n \in 1 .. Len(q.joins) + 1 : Len(db[T[n]]) \in Nat
  BY ScopeFacts
<1>1. \A t \in DOMAIN db : Numbers(db, t) \subseteq Nat  BY DEF Numbers
<1>2. x \in [1 .. len -> Nat] /\ Combined(db, q, x)
  <2>1. {0} \cup UNION {Numbers(db, t) : t \in DOMAIN db} \subseteq Nat  BY <1>1
  <2> QED  BY <2>1 DEF Combinations
<1>3. x \in Seq(Nat) /\ Len(x) = len
  <2>1. len \in Nat  BY <1>0
  <2> QED  BY <1>2, <2>1
<1> HIDE DEF T
<1>4. ASSUME NEW n \in 1 .. Len(x) PROVE x[n] \in 0 .. Len(db[T[n]])
  <2>1. CASE n = 1
    BY <1>0, <1>2, <2>1 DEF Combined, Numbers
  <2>2. CASE n # 1
    <3>1. PICK j \in 1 .. Len(x) - 1 : j + 1 = n
      <4>1. n - 1 \in 1 .. Len(x) - 1 /\ (n - 1) + 1 = n  BY <1>0, <1>3, <2>2
      <4> QED  BY <4>1
    <3>2. j \in 1 .. Len(q.joins) /\ n \in 1 .. Len(q.joins) + 1  BY <1>0, <1>3, <3>1
    <3>3. x[j + 1] \in Numbers(db, q.joins[j].table) \/ x[j + 1] = 0
      BY <1>2, <3>1 DEF Combined
    <3>4. T[n] = q.joins[j].table  BY <1>0, <3>1, <3>2
    <3>5. x[n] \in Numbers(db, T[n]) \/ x[n] = 0  BY <3>1, <3>3, <3>4
    <3>6. Len(db[T[n]]) \in Nat  BY <1>0, <3>2
    <3> QED  BY <3>5, <3>6 DEF Numbers
  <2> QED  BY <2>1, <2>2
<1>5. Len(x) <= Len(T)  BY <1>0, <1>3
<1> QED  BY <1>3, <1>4, <1>5 DEF Takes, T

\* The first table gives each of its rows.
LEMMA CombinationOne ==
  ASSUME NEW db \in Databases, NEW q, QueryFits(q), Clear(db, q), NEW x
  PROVE  x \in Combinations(db, q, 1) <=> \E i \in Numbers(db, q.table) : x = <<i>>
<1>0. q.table \in DOMAIN db /\ Len(q.joins) \in Nat /\ 1 \in 1 .. Len(q.joins) + 1
  <2>1. Len(q.joins) \in Nat  BY ScopeFacts
  <2>2. 1 \in 1 .. Len(q.joins) + 1  BY <2>1
  <2> QED  BY <2>1, <2>2, ScopeFacts
<1>1. ASSUME x \in Combinations(db, q, 1) PROVE \E i \in Numbers(db, q.table) : x = <<i>>
  <2>1. x \in Seq(Nat) /\ Len(x) = 1  BY <1>0, <1>1, CombinationTakes
  <2>2. x[1] \in Numbers(db, q.table)  BY <1>1 DEF Combinations, Combined
  <2>3. x = <<x[1]>>  BY <2>1
  <2> QED  BY <2>2, <2>3
<1>2. ASSUME NEW i \in Numbers(db, q.table), x = <<i>> PROVE x \in Combinations(db, q, 1)
  <2>1. i \in {0} \cup UNION {Numbers(db, t) : t \in DOMAIN db}  BY <1>0
  <2>2. x \in [1 .. 1 -> {0} \cup UNION {Numbers(db, t) : t \in DOMAIN db}]  BY <1>2, <2>1
  <2>3. Combined(db, q, x)  BY <1>2 DEF Combined
  <2> QED  BY <2>2, <2>3 DEF Combinations
<1> QED  BY <1>1, <1>2

\* The start of a sequence is that of what it begins.
LEMMA StartOfAppend ==
  ASSUME NEW x \in Seq(Nat), NEW i \in Nat, NEW k \in 0 .. Len(x)
  PROVE  SubSeq(Append(x, i), 1, k) = SubSeq(x, 1, k)
<1> DEFINE y == Append(x, i)
           a == SubSeq(y, 1, k)
           b == SubSeq(x, 1, k)
<1>1. /\ y \in Seq(Nat) /\ Len(y) = Len(x) + 1 /\ Len(x) \in Nat
      /\ \A n \in 1 .. Len(x) : y[n] = x[n] /\ x[n] \in Nat
  BY AppendProperties, LenProperties
<1> HIDE DEF y
<1>2. \A n \in 1 .. k : x[n] \in Nat /\ y[n] \in Nat /\ y[n] = x[n]
  <2>1. \A n \in 1 .. k : n \in 1 .. Len(x)  BY <1>1
  <2> QED  BY <1>1, <2>1
<1>3. k \in Int /\ 1 \in Int  BY <1>1
<1>4. /\ a \in Seq(Nat) /\ Len(a) = (IF 1 <= k THEN k - 1 + 1 ELSE 0)
      /\ \A n \in 1 .. k - 1 + 1 : a[n] = y[1 + n - 1]
  BY <1>2, <1>3, SubSeqProperties
<1>5. /\ b \in Seq(Nat) /\ Len(b) = (IF 1 <= k THEN k - 1 + 1 ELSE 0)
      /\ \A n \in 1 .. k - 1 + 1 : b[n] = x[1 + n - 1]
  BY <1>2, <1>3, SubSeqProperties
<1> HIDE DEF a, b
<1>6. k \in Nat /\ Len(a) = k /\ Len(b) = k  BY <1>1, <1>4, <1>5
<1>7. \A n \in 1 .. k : a[n] = b[n]
  <2>1. \A n \in 1 .. k : n \in 1 .. k - 1 + 1 /\ 1 + n - 1 = n  BY <1>6
  <2>2. \A n \in 1 .. k : a[n] = y[n] /\ b[n] = x[n]  BY <1>4, <1>5, <2>1
  <2> QED  BY <1>2, <2>2
<1>8. a = b  BY <1>4, <1>5, <1>6, <1>7, SeqEqual
<1> QED  BY <1>8 DEF a, b, y

\* A table that is joined is there.
LEMMA JoinedTables ==
  ASSUME NEW db \in Databases, NEW q, QueryFits(q), Clear(db, q), NEW j \in 1 .. Len(q.joins)
  PROVE  q.joins[j].table \in DOMAIN db
<1> DEFINE T == Scope(q)
<1>1. Len(q.joins) \in Nat /\ j + 1 \in 1 .. Len(q.joins) + 1  BY QueryFacts
<1>2. \A n \in 1 .. Len(q.joins) + 1 :
        T[n] = IF n = 1 THEN q.table ELSE q.joins[n - 1].table
  BY DEF Scope
<1>3. DOMAIN T = 1 .. Len(q.joins) + 1
  BY DEF Scope
<1> HIDE DEF T
<1>4. \A n \in 1 .. Len(q.joins) + 1 : T[n] \in DOMAIN db
  BY <1>3 DEF Clear, T
<1>5. j + 1 # 1 /\ (j + 1) - 1 = j  OBVIOUS
<1>6. T[j + 1] = q.joins[j].table  BY <1>1, <1>2, <1>5
<1> QED  BY <1>1, <1>4, <1>6

\* A combination with one row more is a combination with a row joined to it.
LEMMA CombinationMore ==
  ASSUME NEW db \in Databases, NEW q, QueryFits(q), Clear(db, q), NEW j \in 1 .. Len(q.joins)
  PROVE  /\ \A x \in Combinations(db, q, j) : \A i :
              JoinedBy(db, q, j, x, i) => Append(x, i) \in Combinations(db, q, j + 1) /\ i \in Nat
         /\ \A y \in Combinations(db, q, j + 1) :
              \E x \in Combinations(db, q, j) : \E i \in Nat :
                y = Append(x, i) /\ JoinedBy(db, q, j, x, i)
<1> DEFINE V == {0} \cup UNION {Numbers(db, t) : t \in DOMAIN db}
           t == q.joins[j].table
<1>0. /\ Len(q.joins) \in Nat /\ j \in Nat \ {0} /\ j \in 1 .. Len(q.joins) + 1
      /\ j + 1 \in 1 .. Len(q.joins) + 1
  BY ScopeFacts
<1>1. t \in DOMAIN db  BY JoinedTables
<1>2. V \subseteq Nat /\ Numbers(db, t) \subseteq V /\ 0 \in V  BY <1>1 DEF Numbers
<1> HIDE DEF t
\* What a row joined to the first j does to the condition of each JOIN.
<1>3. ASSUME NEW x \in [1 .. j -> V], NEW i \in V
      PROVE  /\ x \in Seq(Nat) /\ Len(x) = j /\ Append(x, i) \in [1 .. j + 1 -> V]
             /\ Len(Append(x, i)) = j + 1
             /\ Combined(db, q, Append(x, i)) <=> Combined(db, q, x) /\ JoinedBy(db, q, j, x, i)
  <2> DEFINE y == Append(x, i)
             Of(z, m) ==
               \/ /\ z[m + 1] \in Numbers(db, q.joins[m].table)
                  /\ Matches(db, q, m, SubSeq(z, 1, m + 1)) = True
               \/ /\ z[m + 1] = 0 /\ q.joins[m].type = "LEFT"
                  /\ \A k \in Numbers(db, q.joins[m].table) :
                       Matches(db, q, m, Append(SubSeq(z, 1, m), k)) # True
  <2>1. /\ x \in Seq(V) /\ x \in Seq(Nat) /\ Len(x) = j /\ i \in Nat
    <3> HIDE DEF V
    <3>1. x \in Seq(V) /\ Len(x) = j  BY <1>0
    <3> QED  BY <1>2, <3>1, SeqMonotonic
  <2>2. /\ y \in Seq(V) /\ y \in Seq(Nat) /\ Len(y) = j + 1 /\ y[j + 1] = i
        /\ \A n \in 1 .. j : y[n] = x[n]
    <3> HIDE DEF V
    <3>1. /\ y \in Seq(V) /\ Len(y) = Len(x) + 1 /\ y[Len(x) + 1] = i
          /\ \A n \in 1 .. Len(x) : y[n] = x[n]
      BY <2>1, AppendProperties
    <3> QED  BY <1>2, <2>1, <3>1, SeqMonotonic
  <2>3. y \in [1 .. j + 1 -> V]  
    <3> HIDE DEF V, y
    <3> QED  BY <2>2, LenProperties
  <2>4. SubSeq(y, 1, j + 1) = y /\ SubSeq(y, 1, j) = x
    <3>1. SubSeq(y, 1, Len(y)) = y
      <4> HIDE DEF y
      <4> QED  BY <2>2, SubSeqFull
    <3>2. SubSeq(y, 1, j) = SubSeq(x, 1, j)
      <4>1. j \in 0 .. Len(x)  BY <1>0, <2>1
      <4> QED  BY <2>1, <4>1, StartOfAppend
    <3>3. SubSeq(x, 1, Len(x)) = x  BY <2>1, SubSeqFull
    <3> QED  BY <2>1, <2>2, <3>1, <3>2, <3>3
  <2>5. Of(y, j) <=> JoinedBy(db, q, j, x, i)
    <3> HIDE DEF y
    <3>1. Matches(db, q, j, y) = Matches(db, q, j, Append(x, i))  BY DEF y
    <3> QED  BY <2>2, <2>4, <3>1 DEF JoinedBy
  <2>6. ASSUME NEW m \in 1 .. j - 1 PROVE Of(y, m) <=> Of(x, m)
    <3>1. m + 1 \in 1 .. j /\ m + 1 \in 0 .. Len(x) /\ m \in 0 .. Len(x)  BY <1>0, <2>1
    <3>2. SubSeq(y, 1, m + 1) = SubSeq(x, 1, m + 1)  BY <2>1, <3>1, StartOfAppend
    <3>3. SubSeq(y, 1, m) = SubSeq(x, 1, m)  BY <2>1, <3>1, StartOfAppend
    <3>4. y[m + 1] = x[m + 1]  BY <2>2, <3>1
    <3> HIDE DEF y
    <3> QED  BY <3>2, <3>3, <3>4
  <2>7. y[1] = x[1]  BY <1>0, <2>2
  <2> HIDE DEF y
  <2>8. Combined(db, q, y) <=> y[1] \in Numbers(db, q.table) /\ \A m \in 1 .. j : Of(y, m)
    <3>1. Len(y) - 1 = j  BY <1>0, <2>2
    <3> QED  BY <3>1 DEF Combined
  <2>9. Combined(db, q, x) <=> x[1] \in Numbers(db, q.table) /\ \A m \in 1 .. j - 1 : Of(x, m)
    BY <2>1 DEF Combined
  <2> HIDE DEF Of
  <2>10. \A m : m \in 1 .. j <=> m \in 1 .. j - 1 \/ m = j  BY <1>0
  <2>11. Combined(db, q, y) <=> Combined(db, q, x) /\ JoinedBy(db, q, j, x, i)
    BY <2>5, <2>6, <2>7, <2>8, <2>9, <2>10
  <2> QED  BY <2>1, <2>2, <2>3, <2>11 DEF y
<1>4. ASSUME NEW x \in Combinations(db, q, j), NEW i, JoinedBy(db, q, j, x, i)
      PROVE  Append(x, i) \in Combinations(db, q, j + 1) /\ i \in Nat
  <2>1. x \in [1 .. j -> V] /\ Combined(db, q, x)  BY DEF Combinations
  <2>2. i \in V  BY <1>2, <1>4 DEF JoinedBy, t
  <2> HIDE DEF V
  <2>3. Append(x, i) \in [1 .. j + 1 -> V] /\ Combined(db, q, Append(x, i))
    BY <1>3, <1>4, <2>1, <2>2
  <2> QED  BY <1>2, <2>2, <2>3 DEF Combinations, V
<1>5. ASSUME NEW y \in Combinations(db, q, j + 1)
      PROVE  \E x \in Combinations(db, q, j) : \E i \in Nat :
               y = Append(x, i) /\ JoinedBy(db, q, j, x, i)
  <2>1. y \in [1 .. j + 1 -> V] /\ Combined(db, q, y)  BY DEF Combinations
  <2>2. y \in Seq(V) /\ Len(y) = j + 1 /\ y # <<>>
    <3> HIDE DEF V
    <3>1. y \in Seq(V) /\ Len(y) = j + 1  BY <1>0, <2>1
    <3>2. y # <<>>  BY <1>0, <3>1
    <3> QED  BY <3>1, <3>2
  <2> HIDE DEF V
  <2>3. \E x \in Seq(V), i \in V : y = Append(x, i)  BY <2>2, SequenceEmptyOrAppend
  <2>4. PICK x \in Seq(V), i \in V : y = Append(x, i)  BY <2>3
  <2>5. Len(x) = j /\ x \in [1 .. j -> V]
    <3>1. Len(Append(x, i)) = Len(x) + 1  BY <2>4, AppendProperties
    <3>2. Len(x) \in Nat  BY LenProperties
    <3>3. Len(x) = j  BY <1>0, <2>2, <2>4, <3>1, <3>2
    <3> QED  BY <3>3, LenProperties
  <2>6. Combined(db, q, x) /\ JoinedBy(db, q, j, x, i)  BY <1>3, <2>1, <2>4, <2>5
  <2>7. x \in Combinations(db, q, j)  BY <2>5, <2>6 DEF Combinations, V
  <2>8. i \in Nat  BY <1>2
  <2> QED  BY <2>4, <2>6, <2>7, <2>8
<1> QED  BY <1>4, <1>5

----------------------------------------------------------------------------
\* Conditions

\* An expression of clear names is in a row what it means in the combination
\* that the row shows.
LEMMA ConditionMeans ==
  ASSUME FiniteTrees, NEW db \in Databases, NEW q, Len(q.joins) \in Nat, ScopeFits(db, Scope(q)),
         NEW x, Takes(db, Scope(q), x), NEW r, Shows(db, Scope(q), r, x),
         NEW e \in Exprs, ClearExpr(db, q, Len(x), e)
  PROVE  Evaluate(e, r) = Evaluate(e, Meant(db, q, x))
<1> DEFINE M == Meant(db, q, x)
<1>1. ASSUME NEW ref \in Refs(e)
      PROVE  ColumnRef(ref[1], ref[2], r) = ColumnRef(ref[1], ref[2], M)
  <2>1. ClearRef(db, q, Len(x), ref[1], ref[2])  BY DEF ClearExpr
  <2> DEFINE t == ref[1]
             c == ref[2]
  <2> HIDE DEF t, c
  <2>2. ClearRef(db, q, Len(x), t, c)  BY <2>1 DEF t, c
  <2>3. ColumnRef(t, c, r) = ColumnRef(t, c, M)  BY <2>2, ClearRefShown
  <2> QED  BY <2>3 DEF t, c
<1> HIDE DEF M
<1>2. Evaluate(e, r) = Evaluate(e, M)  BY <1>1, RefsDecide
<1> QED  BY <1>2 DEF M

\* A SELECT of clear names.
ClearSelect == FiniteTrees /\ tables \in Databases /\ QueryFits(query) /\ Clear(tables, query)

\* The table of a JOIN.
Right(j) == query.joins[j].table

\* The tables of a SELECT whose names are clear: those of its FROM and its JOINs, in
\* their order, all of them in the database.
LEMMA SelectFacts ==
  ASSUME ClearSelect
  PROVE  /\ Len(query.joins) \in Nat /\ DOMAIN query.joins = 1 .. Len(query.joins)
         /\ ScopeFits(tables, Scope(query)) /\ Len(Scope(query)) = Len(query.joins) + 1
         /\ DOMAIN Scope(query) = 1 .. Len(query.joins) + 1
         /\ Scope(query)[1] = query.table /\ query.table \in DOMAIN tables
         /\ \A j \in 1 .. Len(query.joins) :
              /\ Scope(query)[j + 1] = Right(j) /\ Right(j) \in DOMAIN tables
              /\ IsList(tables[Right(j)]) /\ Len(tables[Right(j)]) \in Nat
              /\ DOMAIN tables[Right(j)] = 1 .. Len(tables[Right(j)])
              /\ Numbers(tables, Right(j)) = 1 .. Len(tables[Right(j)])
<1> DEFINE T == Scope(query)
           K == Len(query.joins)
<1>1. /\ K \in Nat /\ DOMAIN query.joins = 1 .. K
      /\ ScopeFits(tables, T) /\ Len(T) = K + 1
      /\ DOMAIN T = 1 .. K + 1
      /\ T[1] = query.table
      /\ \A j \in 1 .. K : T[j + 1] = query.joins[j].table
      /\ \A n \in 1 .. K + 1 :
           /\ T[n] \in DOMAIN tables /\ IsList(tables[T[n]]) /\ Len(tables[T[n]]) \in Nat
           /\ DOMAIN tables[T[n]] = 1 .. Len(tables[T[n]])
  <2>1. tables \in Databases /\ QueryFits(query) /\ Clear(tables, query)  BY DEF ClearSelect
  <2>2. PICK db, q : db = tables /\ q = query  OBVIOUS
  <2>3. db \in Databases /\ QueryFits(q) /\ Clear(db, q)  BY <2>1, <2>2
  <2>4. /\ Len(q.joins) \in Nat /\ DOMAIN q.joins = 1 .. Len(q.joins)
        /\ ScopeFits(db, Scope(q))
        /\ Len(Scope(q)) = Len(q.joins) + 1 /\ DOMAIN Scope(q) = 1 .. Len(q.joins) + 1
        /\ Scope(q)[1] = q.table
        /\ \A j \in 1 .. Len(q.joins) : Scope(q)[j + 1] = q.joins[j].table
        /\ \A n \in 1 .. Len(q.joins) + 1 :
             /\ Scope(q)[n] \in DOMAIN db /\ IsList(db[Scope(q)[n]])
             /\ Len(db[Scope(q)[n]]) \in Nat
             /\ DOMAIN db[Scope(q)[n]] = 1 .. Len(db[Scope(q)[n]])
    BY <2>3, ScopeFacts
  <2> QED  BY <2>2, <2>4
<1> HIDE DEF T, K
<1>2. query.table \in DOMAIN tables
  <2>1. 1 \in 1 .. K + 1  BY <1>1
  <2> QED  BY <1>1, <2>1
<1>3. ASSUME NEW j \in 1 .. K
      PROVE  /\ T[j + 1] = Right(j) /\ Right(j) \in DOMAIN tables
             /\ IsList(tables[Right(j)]) /\ Len(tables[Right(j)]) \in Nat
             /\ DOMAIN tables[Right(j)] = 1 .. Len(tables[Right(j)])
             /\ Numbers(tables, Right(j)) = 1 .. Len(tables[Right(j)])
  <2>1. PICK n \in 1 .. K + 1 : n = j + 1  BY <1>1
  <2>2. T[n] = Right(j)  BY <1>1, <2>1 DEF Right
  <2> QED  BY <1>1, <2>1, <2>2 DEF Numbers
<1> QED  BY <1>1, <1>2, <1>3 DEF T, K

\* A row r of the combination x is merged with the row i of the table of JOIN j.
Merging(j, x, r, i, merged) ==
  /\ j \in 1 .. Len(query.joins) /\ x \in Combinations(tables, query, j)
  /\ Shows(tables, Scope(query), r, x)
  /\ i \in 0 .. Len(tables[Right(j)])
  /\ merged \in Merges(r, Right(j), Row(tables, Right(j), i))

\* In whatever order that is done, the row shows both, and the condition of the
\* JOIN is what it means.
LEMMA MergedMeans ==
  ASSUME ClearSelect, NEW j, NEW x, NEW r, NEW i, NEW merged, Merging(j, x, r, i, merged)
  PROVE  /\ i \in Nat
         /\ Shows(tables, Scope(query), merged, Append(x, i))
         /\ Evaluate(query.joins[j].on, merged) = Matches(tables, query, j, Append(x, i))
<1> DEFINE T == Scope(query)
           y == Append(x, i)
           t == Right(j)
<1>1. /\ Len(query.joins) \in Nat /\ DOMAIN query.joins = 1 .. Len(query.joins)
      /\ j \in 1 .. Len(query.joins) /\ j \in Nat
      /\ ScopeFits(tables, T) /\ Len(T) = Len(query.joins) + 1
      /\ DOMAIN T = 1 .. Len(query.joins) + 1
      /\ T[1] = query.table /\ T[j + 1] = t
      /\ Len(tables[t]) \in Nat /\ i \in 0 .. Len(tables[t])
  BY SelectFacts DEF Merging
<1>2. /\ x \in Seq(Nat) /\ Len(x) = j /\ Takes(tables, T, x)
      /\ \A n \in 1 .. Len(x) : x[n] \in 0 .. Len(tables[T[n]])
  <2>1. PICK k \in 1 .. Len(query.joins) + 1 : k = j  BY <1>1
  <2>2. x \in Combinations(tables, query, k)  BY <2>1 DEF Merging
  <2>3. x \in Seq(Nat) /\ Len(x) = k /\ Takes(tables, T, x)
    BY <2>2, CombinationTakes DEF ClearSelect
  <2> QED  BY <2>1, <2>3 DEF Takes
<1>3. i \in Nat  BY <1>1
<1>4. y \in Seq(Nat) /\ Len(y) = j + 1 /\ y[j + 1] = i /\ \A n \in 1 .. j : y[n] = x[n]
  BY <1>2, <1>3, AppendProperties
<1>5. PICK last : merged = Over(Prefixed(r, query.table, last), Prefixed(Row(tables, t, i), t, {}))
  BY DEF Merges, Merging
<1>6. Shows(tables, T, merged, y)
  <2>1. Len(x) > 0 /\ Len(x) + 1 \in DOMAIN T /\ T[Len(x) + 1] = t /\ query.table = T[1]
    BY <1>1, <1>2
  <2>2. i \in 0 .. Len(tables[T[Len(x) + 1]])  BY <1>1, <2>1
  <2> DEFINE f == query.table
             d == tables
  <2> HIDE DEF T, f, d, t
  <2>3. d \in Databases /\ Shows(d, T, r, x) /\ ScopeFits(d, T)
        /\ (\A n \in 1 .. Len(x) : x[n] \in 0 .. Len(d[T[n]]))
        /\ i \in 0 .. Len(d[T[Len(x) + 1]])
    BY <1>1, <1>2, <2>2 DEF T, d, ClearSelect, Merging
  <2>4. f = T[1] /\ t = T[Len(x) + 1]  BY <2>1 DEF f
  <2>5. Shows(d, T, Over(Prefixed(r, f, last), Prefixed(Row(d, t, i), t, {})), Append(x, i))
    BY <1>2, <2>1, <2>3, <2>4, MergeShows
  <2> QED  BY <1>5, <2>5 DEF T, f, d
<1>7. Takes(tables, T, y)
  <2>1. ASSUME NEW n \in 1 .. Len(y) PROVE y[n] \in 0 .. Len(tables[T[n]])
    <3>1. n \in 1 .. j \/ n = j + 1  BY <1>1, <1>4
    <3> QED  BY <1>1, <1>2, <1>4, <3>1
  <2>2. Len(y) <= Len(T)  BY <1>1, <1>4
  <2> QED  BY <1>4, <2>1, <2>2 DEF Takes
<1>8. query.joins[j].on \in Exprs /\ ClearExpr(tables, query, Len(y), query.joins[j].on)
  <2>1. query.joins[j].on \in Exprs  BY <1>1 DEF ClearSelect, QueryFits
  <2>2. ClearExpr(tables, query, j + 1, query.joins[j].on)  BY <1>1 DEF ClearSelect, Clear
  <2> QED  BY <1>4, <2>1, <2>2
<1> HIDE DEF y
<1>9. Evaluate(query.joins[j].on, merged) = Evaluate(query.joins[j].on, Meant(tables, query, y))
  BY <1>1, <1>6, <1>7, <1>8, ConditionMeans DEF ClearSelect
<1> QED  BY <1>3, <1>6, <1>9 DEF Matches, y

\* So hasMatchInJoin finds out whether there is a match.
LEMMA FoundMeans ==
  ASSUME ClearSelect, NEW j, j = place.join, j \in 1 .. Len(query.joins),
         NEW x \in Combinations(tables, query, j), NEW r, Shows(tables, Scope(query), r, x),
         NEW found \in HasMatchInJoin(r, Right(j))
  PROVE  /\ found \in BOOLEAN
         /\ found <=> \E i \in Numbers(tables, Right(j)) :
                        Matches(tables, query, j, Append(x, i)) = True
<1> DEFINE t == Right(j)
<1>1. /\ Len(tables[t]) \in Nat /\ DOMAIN tables[t] = 1 .. Len(tables[t])
      /\ Numbers(tables, t) = 1 .. Len(tables[t])
  BY SelectFacts
<1>2. ASSUME NEW i \in DOMAIN tables[t], NEW merged \in Merges(r, t, tables[t][i])
      PROVE  Evaluate(Join.on, merged) = Matches(tables, query, j, Append(x, i))
  <2>1. i \in 0 .. Len(tables[t]) /\ i # 0  BY <1>1
  <2>2. Row(tables, t, i) = tables[t][i]  BY <2>1 DEF Row
  <2>3. Merging(j, x, r, i, merged)  BY <2>1, <2>2 DEF Merging
  <2>4. Evaluate(query.joins[j].on, merged) = Matches(tables, query, j, Append(x, i))
    BY <2>3, MergedMeans
  <2> QED  BY <2>4 DEF Join
<1> HIDE DEF t
<1>4. ASSUME found PROVE \E i \in Numbers(tables, t) : Matches(tables, query, j, Append(x, i)) = True
  <2>1. PICK i \in DOMAIN tables[t] : CanMatch(r, t, i)  BY <1>4 DEF HasMatchInJoin, t
  <2>2. PICK merged \in Merges(r, t, tables[t][i]) : Evaluate(Join.on, merged) = True
    BY <2>1 DEF CanMatch
  <2>3. Matches(tables, query, j, Append(x, i)) = True  BY <1>2, <2>2
  <2> QED  BY <1>1, <2>3
<1>5. ASSUME ~found, NEW i \in Numbers(tables, t)
      PROVE  Matches(tables, query, j, Append(x, i)) # True
  <2>1. i \in DOMAIN tables[t] /\ ~MustMatch(r, t, i)  BY <1>1, <1>5 DEF HasMatchInJoin, t
  <2>2. PICK merged \in Merges(r, t, tables[t][i]) : Evaluate(Join.on, merged) # True
    BY <2>1 DEF MustMatch
  <2> QED  BY <1>2, <2>1, <2>2
<1>6. found \in BOOLEAN  BY DEF HasMatchInJoin
<1> QED  BY <1>4, <1>5, <1>6 DEF t

----------------------------------------------------------------------------
\* The rows so far, as combinations

\* X has the combinations C in the order of the scans.
Listing(X, C) ==
  /\ X \in Seq(C)
  /\ \A n, m \in 1 .. Len(X) : n < m => LexLess(X[n], X[m])
  /\ \A x \in C : \E n \in 1 .. Len(X) : X[n] = x

\* The rows s show the combinations X.
RowsShow(db, T, s, X) ==
  /\ IsList(s) /\ Len(s) = Len(X)
  /\ \A n \in 1 .. Len(X) : Shows(db, T, s[n], X[n])

\* Append keeps a list one.
LEMMA ListMore ==
  ASSUME NEW s, IsList(s), NEW e
  PROVE  /\ IsList(Append(s, e)) /\ Len(Append(s, e)) = Len(s) + 1 /\ Len(s) \in Nat
         /\ \A n \in 1 .. Len(s) : Append(s, e)[n] = s[n]
         /\ Append(s, e)[Len(s) + 1] = e
<1> DEFINE S == Range(s) \cup {e}
<1>1. s \in Seq(S) /\ e \in S
  <2>1. Range(s) \subseteq S  OBVIOUS
  <2>2. s \in Seq(Range(s))  BY DEF IsList
  <2> HIDE DEF S
  <2> QED  BY <2>1, <2>2, SeqMonotonic DEF S
<1> HIDE DEF S
<1>2. /\ Append(s, e) \in Seq(S) /\ Len(Append(s, e)) = Len(s) + 1
      /\ \A n \in 1 .. Len(s) : Append(s, e)[n] = s[n]
      /\ Append(s, e)[Len(s) + 1] = e
  BY <1>1, AppendProperties
<1>3. IsList(Append(s, e))  BY <1>2, SequencesAreLists
<1> QED  BY <1>1, <1>2, <1>3, LenProperties

\* A combination after those that there are, and its row.
LEMMA ListingMore ==
  ASSUME NEW db, NEW T, NEW X, NEW C, NEW D, NEW e, NEW s, NEW r,
         Listing(X, C), RowsShow(db, T, s, X), D = C \cup {e}, Shows(db, T, r, e),
         \A x \in C : LexLess(x, e)
  PROVE  Listing(Append(X, e), D) /\ RowsShow(db, T, Append(s, r), Append(X, e))
<1>1. X \in Seq(D) /\ e \in D
  <2>1. C \subseteq D /\ X \in Seq(C)  BY DEF Listing
  <2> QED  BY <2>1, SeqMonotonic
<1> DEFINE Y == Append(X, e)
           z == Append(s, r)
<1>2. /\ Y \in Seq(D) /\ Len(Y) = Len(X) + 1 /\ Len(X) \in Nat
      /\ \A n \in 1 .. Len(X) : Y[n] = X[n]
      /\ Y[Len(X) + 1] = e
  BY <1>1, AppendProperties, LenProperties
<1>3. /\ IsList(z) /\ Len(z) = Len(X) + 1
      /\ \A n \in 1 .. Len(X) : z[n] = s[n]
      /\ z[Len(X) + 1] = r
  BY ListMore DEF RowsShow
<1> HIDE DEF Y, z
<1>4. \A n \in 1 .. Len(Y) : n \in 1 .. Len(X) \/ n = Len(X) + 1  BY <1>2
<1>5. ASSUME NEW n \in 1 .. Len(Y), NEW m \in 1 .. Len(Y), n < m PROVE LexLess(Y[n], Y[m])
  <2>1. n \in 1 .. Len(X) /\ Y[n] = X[n]  BY <1>2, <1>5
  <2>2. CASE m \in 1 .. Len(X)  BY <1>2, <1>5, <2>1, <2>2 DEF Listing
  <2>3. CASE m = Len(X) + 1
    <3>1. X[n] \in C  BY <2>1, LenProperties DEF Listing
    <3> QED  BY <1>2, <2>1, <2>3, <3>1
  <2> QED  BY <1>4, <2>2, <2>3
<1>6. ASSUME NEW x \in D PROVE \E n \in 1 .. Len(Y) : Y[n] = x
  <2>1. CASE x = e
    <3>1. Len(X) + 1 \in 1 .. Len(Y)  BY <1>2
    <3> QED  BY <1>2, <2>1, <3>1
  <2>2. CASE x \in C
    <3>1. PICK n \in 1 .. Len(X) : X[n] = x  BY <2>2 DEF Listing
    <3>2. n \in 1 .. Len(Y)  BY <1>2
    <3> QED  BY <1>2, <3>1, <3>2
  <2> QED  BY <2>1, <2>2
<1>7. Listing(Y, D)  BY <1>2, <1>5, <1>6 DEF Listing
<1>8. ASSUME NEW n \in 1 .. Len(Y) PROVE Shows(db, T, z[n], Y[n])
  <2>1. CASE n \in 1 .. Len(X)  BY <1>2, <1>3, <2>1 DEF RowsShow
  <2>2. CASE n = Len(X) + 1  BY <1>2, <1>3, <2>2
  <2> QED  BY <1>4, <2>1, <2>2
<1>9. RowsShow(db, T, z, Y)  BY <1>2, <1>3, <1>8 DEF RowsShow
<1> QED  BY <1>7, <1>9 DEF Y, z

\* The combinations that JOIN j has made once it is at the left row l, of the
\* combinations X, and the right row k.
Made(j, X, l, k) ==
  {y \in Combinations(tables, query, j + 1) :
     \E n \in 1 .. Len(X) : \E i \in Nat :
       y = Append(X[n], i) /\ (n < l \/ (n = l /\ i \in 1 .. k - 1))}

\* The conditions of what JOIN j has looked at so far are true or false.
Decided(j, X, l, k) ==
  \A n \in 1 .. Len(X) : \A i \in Numbers(tables, Right(j)) :
    n < l \/ (n = l /\ i < k) => Type(Matches(tables, query, j, Append(X[n], i))) = "BOOL"

\* So are those of the JOINs before.
DecidedBefore(last) ==
  \A j \in 1 .. last - 1 : \A x \in Combinations(tables, query, j) : \A i \in Numbers(tables, Right(j)) :
    Type(Matches(tables, query, j, Append(x, i))) = "BOOL"

Places == [join : Nat \ {0}, left : Nat \ {0}, right : Nat \ {0}]

\* X lists what the JOINs before made, which the rows show, and Y what this one
\* has made so far.
JoinRows(j, X, l, k, rs, jd) ==
  /\ Listing(X, Combinations(tables, query, j)) /\ RowsShow(tables, Scope(query), rs, X)
  /\ DecidedBefore(j)
  /\ j <= Len(query.joins) =>
       /\ Decided(j, X, l, k)
       /\ \E Y : Listing(Y, Made(j, X, l, k)) /\ RowsShow(tables, Scope(query), jd, Y)

\* JOINs are done up to this place, with these rows so far.
JoinState(pl, rs, jd) ==
  /\ pl \in Places /\ pl.join <= Len(query.joins) + 1
  /\ \E X : JoinRows(pl.join, X, pl.left, pl.right, rs, jd)

\* What a listing has in each of its places.
LEMMA ListingFacts ==
  ASSUME NEW X, NEW C, Listing(X, C)
  PROVE  /\ Len(X) \in Nat /\ DOMAIN X = 1 .. Len(X)
         /\ \A n \in 1 .. Len(X) : X[n] \in C
  BY LenProperties DEF Listing

\* Nothing is made at the start.
LEMMA NothingMade ==
  ASSUME NEW j, NEW X, Len(X) \in Nat
  PROVE  /\ Decided(j, X, 1, 1)
         /\ Listing(<<>>, Made(j, X, 1, 1)) /\ RowsShow(tables, Scope(query), <<>>, <<>>)
<1>1. Made(j, X, 1, 1) = {}
  <2> SUFFICES ASSUME NEW y \in Made(j, X, 1, 1) PROVE FALSE  OBVIOUS
  <2>1. PICK n \in 1 .. Len(X) : \E i \in Nat : n < 1 \/ (n = 1 /\ i \in 1 .. 1 - 1)  BY DEF Made
  <2> QED  BY <2>1
<1>2. <<>> \in Seq({}) /\ Len(<<>>) = 0 /\ <<>> \in Seq(Range(<<>>))  BY EmptySeq
<1>3. Listing(<<>>, {})  BY <1>2 DEF Listing
<1>4. RowsShow(tables, Scope(query), <<>>, <<>>)  BY <1>2 DEF RowsShow, IsList
<1>5. Decided(j, X, 1, 1)
  <2>1. \A n \in 1 .. Len(X) : \A i \in Numbers(tables, Right(j)) : ~(n < 1 \/ (n = 1 /\ i < 1))
    BY DEF Numbers
  <2> QED  BY <2>1 DEF Decided
<1> QED  BY <1>1, <1>3, <1>4, <1>5

\* Begin: the rows of the first table.
LEMMA StartState ==
  ASSUME ClearSelect
  PROVE  JoinState(Start, tables[query.table], <<>>)
<1> DEFINE s == tables[query.table]
           N == Len(s)
           X == [i \in 1 .. N |-> <<i>>]
           C == Combinations(tables, query, 1)
<1>1. /\ query.table \in DOMAIN tables /\ ScopeFits(tables, Scope(query))
      /\ Scope(query)[1] = query.table /\ 1 \in DOMAIN Scope(query)
      /\ Len(query.joins) \in Nat
  BY SelectFacts
<1>2. IsList(s) /\ N \in Nat
  <2>1. IsList(s)  BY <1>1, DatabasesAssumption DEF ClearSelect
  <2> QED  BY <2>1, LenProperties DEF IsList
<1>3. \A x : x \in C <=> \E i \in Numbers(tables, query.table) : x = <<i>>
  BY CombinationOne DEF ClearSelect
<1>4. Numbers(tables, query.table) = 1 .. N  BY DEF Numbers
<1> HIDE DEF N, C
<1>5. X \in Seq(C) /\ Len(X) = N /\ \A i \in 1 .. N : X[i] = <<i>>
  <2>1. \A i \in 1 .. N : <<i>> \in C  BY <1>3, <1>4
  <2>2. X \in [1 .. N -> C]  BY <2>1
  <2> HIDE DEF X
  <2>3. X \in Seq(C) /\ Len(X) = N  BY <1>2, <2>2
  <2> QED  BY <2>3 DEF X
<1> HIDE DEF X
<1>6. Listing(X, C)
  <2>1. ASSUME NEW n \in 1 .. Len(X), NEW m \in 1 .. Len(X), n < m PROVE LexLess(X[n], X[m])
    <3>1. X[n] = <<n>> /\ X[m] = <<m>>  BY <1>5
    <3> QED  BY <2>1, <3>1 DEF LexLess
  <2>2. ASSUME NEW x \in C PROVE \E n \in 1 .. Len(X) : X[n] = x  BY <1>3, <1>4, <1>5
  <2> QED  BY <1>5, <2>1, <2>2 DEF Listing
<1>7. RowsShow(tables, Scope(query), s, X)
  <2>1. ASSUME NEW n \in 1 .. N PROVE Shows(tables, Scope(query), s[n], <<n>>)
    <3> DEFINE T == Scope(query)
    <3>1. ScopeFits(tables, T) /\ 1 \in DOMAIN T /\ n \in 1 .. Len(tables[T[1]])
      BY <1>1 DEF N
    <3>2. s = tables[T[1]]  BY <1>1
    <3> HIDE DEF T, s
    <3>3. Shows(tables, T, tables[T[1]][n], <<n>>)  BY <3>1, FirstShows DEF ClearSelect
    <3> QED  BY <3>2, <3>3 DEF T
  <2> QED  BY <1>2, <1>5, <2>1 DEF RowsShow, N
<1>8. DecidedBefore(1)  BY DEF DecidedBefore
<1>9. Decided(1, X, 1, 1) /\ Listing(<<>>, Made(1, X, 1, 1))
      /\ RowsShow(tables, Scope(query), <<>>, <<>>)
  BY <1>2, <1>5, NothingMade
<1>10. JoinRows(1, X, 1, 1, s, <<>>)  BY <1>6, <1>7, <1>8, <1>9 DEF JoinRows, C
<1>11. Start \in Places /\ Start.join = 1 /\ Start.left = 1 /\ Start.right = 1
       /\ 1 <= Len(query.joins) + 1
  BY <1>1 DEF Start, Places
<1> QED  BY <1>10, <1>11 DEF JoinState

\* A left row and the row of the other table that is 1 if there is none.
At(j, X, l) ==
  /\ j \in 1 .. Len(query.joins) /\ Listing(X, Combinations(tables, query, j))
  /\ l \in 1 .. Len(X)

\* The left rows are combinations of the tables before, in the order of the scans,
\* and with any row of the next table they are combinations of one table more.
LEMMA AtFacts ==
  ASSUME ClearSelect, NEW j, NEW X, NEW l, At(j, X, l)
  PROVE  /\ Len(X) \in Nat /\ l \in Nat /\ j \in Nat
         /\ \A n \in 1 .. Len(X) :
              X[n] \in Combinations(tables, query, j) /\ X[n] \in Seq(Nat) /\ Len(X[n]) = j
         /\ \A n \in 1 .. Len(X) : n < l => LexLess(X[n], X[l])
         /\ \A n \in 1 .. Len(X) : \A i \in Nat :
              Append(X[n], i) \in Combinations(tables, query, j + 1)
                <=> JoinedBy(tables, query, j, X[n], i)
<1>1. /\ Len(X) \in Nat /\ l \in 1 .. Len(X) /\ j \in 1 .. Len(query.joins)
      /\ \A n \in 1 .. Len(X) : X[n] \in Combinations(tables, query, j)
  BY ListingFacts DEF At
<1>2. Len(query.joins) \in Nat  BY SelectFacts
<1>3. ASSUME NEW x \in Combinations(tables, query, j) PROVE x \in Seq(Nat) /\ Len(x) = j
  <2>1. PICK k \in 1 .. Len(query.joins) + 1 : k = j  BY <1>1, <1>2
  <2>2. x \in Combinations(tables, query, k)  BY <2>1
  <2> QED  BY <2>1, <2>2, CombinationTakes DEF ClearSelect
<1>4. ASSUME NEW x \in Combinations(tables, query, j), NEW i \in Nat
      PROVE  Append(x, i) \in Combinations(tables, query, j + 1) <=> JoinedBy(tables, query, j, x, i)
  <2>1. PICK k \in 1 .. Len(query.joins) : k = j  BY <1>1
  <2>2. /\ \A y \in Combinations(tables, query, k) : \A m :
             JoinedBy(tables, query, k, y, m) => Append(y, m) \in Combinations(tables, query, k + 1) /\ m \in Nat
        /\ \A z \in Combinations(tables, query, k + 1) :
             \E y \in Combinations(tables, query, k) : \E m \in Nat :
               z = Append(y, m) /\ JoinedBy(tables, query, k, y, m)
    BY CombinationMore DEF ClearSelect
  <2>3. ASSUME Append(x, i) \in Combinations(tables, query, j + 1) PROVE JoinedBy(tables, query, j, x, i)
    <3>1. PICK y \in Combinations(tables, query, j) :
            \E m \in Nat : Append(x, i) = Append(y, m) /\ JoinedBy(tables, query, j, y, m)
      BY <2>1, <2>2, <2>3
    <3>2. PICK m \in Nat : Append(x, i) = Append(y, m) /\ JoinedBy(tables, query, j, y, m)
      BY <3>1
    <3>3. x \in Seq(Nat) /\ y \in Seq(Nat)  BY <1>3
    <3>4. x = y /\ i = m  BY <3>2, <3>3, AppendInjective
    <3> QED  BY <3>2, <3>4
  <2> QED  BY <2>1, <2>2, <2>3
<1>5. \A n \in 1 .. Len(X) : n < l => LexLess(X[n], X[l])  BY <1>1 DEF At, Listing
<1>6. l \in Nat /\ j \in Nat  BY <1>1, <1>2
<1> QED  BY <1>1, <1>3, <1>4, <1>5, <1>6

\* What has been made comes before what is made next.
LEMMA MadeBefore ==
  ASSUME ClearSelect, NEW j, NEW X, NEW l, At(j, X, l), NEW k \in Nat, NEW y \in Made(j, X, l, k)
  PROVE  /\ LexLess(y, Append(X[l], k))
         /\ \/ LexLess(y, Append(X[l], 0))
            \/ \E i \in 1 .. k - 1 : y = Append(X[l], i) /\ JoinedBy(tables, query, j, X[l], i)
<1>1. PICK n \in 1 .. Len(X) : \E i \in Nat :
        y = Append(X[n], i) /\ (n < l \/ (n = l /\ i \in 1 .. k - 1))
  BY DEF Made
<1>2. PICK i \in Nat : y = Append(X[n], i) /\ (n < l \/ (n = l /\ i \in 1 .. k - 1))
  BY <1>1
<1>3. y \in Combinations(tables, query, j + 1)  BY DEF Made
<1>4. /\ l \in 1 .. Len(X) /\ X[n] \in Seq(Nat) /\ X[l] \in Seq(Nat) /\ Len(X[n]) = Len(X[l])
  BY AtFacts DEF At
<1>5. CASE n < l
  <2>1. LexLess(X[n], X[l])  BY <1>5, AtFacts
  <2>2. \A m \in Nat : LexLess(Append(X[n], i), Append(X[l], m))  BY <1>4, <2>1, LexAppend
  <2>3. 0 \in Nat  OBVIOUS
  <2> QED  BY <1>2, <2>2, <2>3
<1>6. CASE n = l /\ i \in 1 .. k - 1
  <2>1. LexLess(Append(X[l], i), Append(X[l], k))
    <3>1. i < k  BY <1>6
    <3> QED  BY <1>4, <3>1, LexAppend
  <2>2. JoinedBy(tables, query, j, X[l], i)  BY <1>2, <1>3, <1>6, AtFacts
  <2> QED  BY <1>2, <1>6, <2>1, <2>2
<1> QED  BY <1>2, <1>5, <1>6

\* One turn of the inner loop makes one combination more, if it matches.
LEMMA MadePair ==
  ASSUME ClearSelect, NEW j, NEW X, NEW l, At(j, X, l), NEW k \in Numbers(tables, Right(j))
  PROVE  Made(j, X, l, k + 1) =
           Made(j, X, l, k) \cup
             (IF Matches(tables, query, j, Append(X[l], k)) = True THEN {Append(X[l], k)} ELSE {})
<1> DEFINE e == Append(X[l], k)
           match == Matches(tables, query, j, e) = True
<1>1. k \in Nat /\ k > 0  BY DEF Numbers
<1>2. l \in 1 .. Len(X)  BY DEF At
<1>3. e \in Combinations(tables, query, j + 1) <=> match
  <2>1. e \in Combinations(tables, query, j + 1) <=> JoinedBy(tables, query, j, X[l], k)
    BY <1>1, <1>2, AtFacts
  <2>2. JoinedBy(tables, query, j, X[l], k) <=> match  BY <1>1 DEF JoinedBy, Right
  <2> QED  BY <2>1, <2>2
<1> HIDE DEF match, e
<1>4. ASSUME NEW y \in Made(j, X, l, k + 1) PROVE y \in Made(j, X, l, k) \/ (match /\ y = e)
  <2>1. PICK n \in 1 .. Len(X) : \E i \in Nat :
          y = Append(X[n], i) /\ (n < l \/ (n = l /\ i \in 1 .. (k + 1) - 1))
    BY DEF Made
  <2>2. PICK i \in Nat : y = Append(X[n], i) /\ (n < l \/ (n = l /\ i \in 1 .. (k + 1) - 1))
    BY <2>1
  <2>3. y \in Combinations(tables, query, j + 1)  BY DEF Made
  <2>4. CASE n < l \/ (n = l /\ i \in 1 .. k - 1)
    BY <2>2, <2>3, <2>4 DEF Made
  <2>5. CASE ~(n < l \/ (n = l /\ i \in 1 .. k - 1))
    <3>1. n = l /\ i = k  BY <1>1, <2>2, <2>5
    <3>2. y = e  BY <2>2, <3>1 DEF e
    <3> QED  BY <1>3, <2>3, <3>2
  <2> QED  BY <2>4, <2>5
<1>5. ASSUME NEW y \in Made(j, X, l, k) PROVE y \in Made(j, X, l, k + 1)
  <2>1. PICK n \in 1 .. Len(X) : \E i \in Nat :
          y = Append(X[n], i) /\ (n < l \/ (n = l /\ i \in 1 .. k - 1))
    BY DEF Made
  <2>2. PICK i \in Nat : y = Append(X[n], i) /\ (n < l \/ (n = l /\ i \in 1 .. k - 1))
    BY <2>1
  <2>3. n < l \/ (n = l /\ i \in 1 .. (k + 1) - 1)  BY <1>1, <2>2
  <2>4. y \in Combinations(tables, query, j + 1)  BY DEF Made
  <2> QED  BY <2>2, <2>3, <2>4 DEF Made
<1>6. ASSUME match PROVE e \in Made(j, X, l, k + 1)
  <2>1. k \in 1 .. (k + 1) - 1  BY <1>1
  <2>2. e = Append(X[l], k) /\ e \in Combinations(tables, query, j + 1)  BY <1>3, <1>6 DEF e
  <2> QED  BY <1>1, <1>2, <2>1, <2>2 DEF Made
<1>7. Made(j, X, l, k + 1) = Made(j, X, l, k) \cup (IF match THEN {e} ELSE {})
  BY <1>4, <1>5, <1>6
<1> QED  BY <1>7 DEF match, e

\* The end of the inner loop makes one with the row of NULLs, if there is none
\* else, and all else there is.
LEMMA MadeRow ==
  ASSUME ClearSelect, NEW j, NEW X, NEW l, At(j, X, l),
         NEW k \in Nat, k > Len(tables[Right(j)])
  PROVE  Made(j, X, l + 1, 1) =
           Made(j, X, l, k) \cup
             (IF JoinedBy(tables, query, j, X[l], 0) THEN {Append(X[l], 0)} ELSE {})
<1> DEFINE e == Append(X[l], 0)
           left == JoinedBy(tables, query, j, X[l], 0)
<1>1. /\ Len(X) \in Nat /\ l \in 1 .. Len(X) /\ 0 \in Nat
      /\ Numbers(tables, Right(j)) = 1 .. Len(tables[Right(j)])
      /\ Len(tables[Right(j)]) \in Nat
  BY AtFacts, SelectFacts DEF At
<1>2. e \in Combinations(tables, query, j + 1) <=> left  BY <1>1, AtFacts
<1> HIDE DEF left, e
<1>3. ASSUME NEW y \in Made(j, X, l + 1, 1) PROVE y \in Made(j, X, l, k) \/ (left /\ y = e)
  <2>1. PICK n \in 1 .. Len(X) : \E i \in Nat :
          y = Append(X[n], i) /\ (n < l + 1 \/ (n = l + 1 /\ i \in 1 .. 1 - 1))
    BY DEF Made
  <2>2. PICK i \in Nat : y = Append(X[n], i) /\ (n < l + 1 \/ (n = l + 1 /\ i \in 1 .. 1 - 1))
    BY <2>1
  <2>3. y \in Combinations(tables, query, j + 1)  BY DEF Made
  <2>4. n < l \/ n = l  BY <1>1, <2>2
  <2>5. CASE n < l  BY <2>2, <2>3, <2>5 DEF Made
  <2>6. CASE n = l
    <3>1. JoinedBy(tables, query, j, X[l], i)  BY <2>2, <2>3, <2>6, AtFacts
    <3>2. i \in 1 .. Len(tables[Right(j)]) \/ i = 0  BY <1>1, <3>1 DEF JoinedBy, Right
    <3>3. CASE i = 0
      <4>1. y = e  BY <2>2, <2>6, <3>3 DEF e
      <4> QED  BY <1>2, <2>3, <4>1
    <3>4. CASE i \in 1 .. Len(tables[Right(j)])
      <4>1. i \in 1 .. k - 1  BY <1>1, <3>4
      <4> QED  BY <2>2, <2>3, <2>6, <4>1 DEF Made
    <3> QED  BY <3>2, <3>3, <3>4
  <2> QED  BY <2>4, <2>5, <2>6
<1>4. ASSUME NEW y \in Made(j, X, l, k) PROVE y \in Made(j, X, l + 1, 1)
  <2>1. PICK n \in 1 .. Len(X) : \E i \in Nat :
          y = Append(X[n], i) /\ (n < l \/ (n = l /\ i \in 1 .. k - 1))
    BY DEF Made
  <2>2. PICK i \in Nat : y = Append(X[n], i) /\ (n < l \/ (n = l /\ i \in 1 .. k - 1))
    BY <2>1
  <2>3. n < l + 1  BY <1>1, <2>2
  <2>4. y \in Combinations(tables, query, j + 1)  BY DEF Made
  <2> QED  BY <2>2, <2>3, <2>4 DEF Made
<1>5. ASSUME left PROVE e \in Made(j, X, l + 1, 1)
  <2>1. l < l + 1  BY <1>1
  <2>2. e = Append(X[l], 0) /\ e \in Combinations(tables, query, j + 1)  BY <1>2, <1>5 DEF e
  <2> QED  BY <1>1, <2>1, <2>2 DEF Made
<1>6. Made(j, X, l + 1, 1) = Made(j, X, l, k) \cup (IF left THEN {e} ELSE {})
  BY <1>3, <1>4, <1>5
<1> QED  BY <1>6 DEF left, e

\* At the end of the outer loop the JOIN has made all that there is.
LEMMA MadeAll ==
  ASSUME ClearSelect, NEW j \in 1 .. Len(query.joins), NEW X,
         Listing(X, Combinations(tables, query, j)), NEW l \in Nat, l > Len(X), NEW k
  PROVE  Made(j, X, l, k) = Combinations(tables, query, j + 1)
<1>1. ASSUME NEW y \in Combinations(tables, query, j + 1) PROVE y \in Made(j, X, l, k)
  <2>0. \E x \in Combinations(tables, query, j) : \E i \in Nat :
          y = Append(x, i) /\ JoinedBy(tables, query, j, x, i)
    BY CombinationMore DEF ClearSelect
  <2>1. PICK x \in Combinations(tables, query, j) : \E i \in Nat : y = Append(x, i)
    BY <2>0
  <2>2. PICK i \in Nat : y = Append(x, i)  BY <2>1
  <2>3. PICK n \in 1 .. Len(X) : X[n] = x  BY DEF Listing
  <2>4. n < l
    <3>1. Len(X) \in Nat  BY ListingFacts
    <3> QED  BY <3>1
  <2> QED  BY <2>2, <2>3, <2>4 DEF Made
<1> QED  BY <1>1 DEF Made

\* A condition that is neither true nor false makes the SELECT fail, as it should.
LEMMA FailsAsMeant ==
  ASSUME ClearSelect, NEW j \in 1 .. Len(query.joins),
         NEW x \in Combinations(tables, query, j), NEW i \in Numbers(tables, Right(j)),
         Type(Matches(tables, query, j, Append(x, i))) # "BOOL"
  PROVE  Meaning(tables, query) = [status |-> "error", rows |-> <<>>]
<1>1. DOMAIN query.joins = 1 .. Len(query.joins)  BY SelectFacts
<1>2. Undecided(tables, query)  BY <1>1 DEF Undecided, Right
<1> QED  BY <1>2 DEF Meaning

\* What is known at a turn of the inner loop or its end.
LEMMA TurnFacts ==
  ASSUME ClearSelect, JoinState(place, rows, joined), Joining, place.left <= Len(rows)
  PROVE  \E X, Y :
           /\ JoinRows(place.join, X, place.left, place.right, rows, joined)
           /\ At(place.join, X, place.left)
           /\ Shows(tables, Scope(query), rows[place.left], X[place.left])
           /\ Listing(Y, Made(place.join, X, place.left, place.right))
           /\ RowsShow(tables, Scope(query), joined, Y)
<1>1. place \in Places  BY DEF JoinState
<1>2. PICK X : JoinRows(place.join, X, place.left, place.right, rows, joined)  BY DEF JoinState
<1>3. place.join \in 1 .. Len(query.joins)
  <2>1. Len(query.joins) \in Nat  BY SelectFacts
  <2> QED  BY <1>1, <2>1 DEF Places, Joining
<1>4. Listing(X, Combinations(tables, query, place.join)) /\ RowsShow(tables, Scope(query), rows, X)
  BY <1>2 DEF JoinRows
<1>5. place.left \in 1 .. Len(X)
  <2>1. Len(X) \in Nat /\ Len(rows) = Len(X)  BY <1>4, ListingFacts DEF RowsShow
  <2> QED  BY <1>1, <2>1 DEF Places
<1>6. At(place.join, X, place.left)  BY <1>3, <1>4, <1>5 DEF At
<1>7. Shows(tables, Scope(query), rows[place.left], X[place.left])  BY <1>4, <1>5 DEF RowsShow
<1>8. PICK Y : /\ Listing(Y, Made(place.join, X, place.left, place.right))
               /\ RowsShow(tables, Scope(query), joined, Y)
  BY <1>2 DEF JoinRows, Joining
<1> QED  BY <1>2, <1>6, <1>7, <1>8

\* One pair of rows: either it is joined exactly if its combination is meant to be,
\* or its condition is no truth value and the answer is the error that is meant.
LEMMA PairKeeps ==
  ASSUME ClearSelect, JoinState(place, rows, joined), JoinPair
  PROVE  \/ phase' = "join" /\ JoinState(place', rows', joined')
         \/ phase' = "idle" /\ answer' = Meaning(tables, query)
<1> DEFINE j == place.join
           l == place.left
           k == place.right
           t == Right(j)
<1>0. Joining /\ l <= Len(rows) /\ k <= Len(tables[t]) /\ Join.table = t
  BY DEF JoinPair, Right, Join
<1>1. PICK X, Y :
        /\ JoinRows(j, X, l, k, rows, joined)
        /\ At(j, X, l)
        /\ Shows(tables, Scope(query), rows[l], X[l])
        /\ Listing(Y, Made(j, X, l, k))
        /\ RowsShow(tables, Scope(query), joined, Y)
  BY <1>0, TurnFacts
<1>2. /\ place \in Places /\ j \in 1 .. Len(query.joins) /\ l \in Nat \ {0} /\ k \in Nat \ {0}
      /\ Len(query.joins) \in Nat /\ j <= Len(query.joins) + 1
      /\ Numbers(tables, t) = 1 .. Len(tables[t]) /\ Len(tables[t]) \in Nat
      /\ k \in Numbers(tables, t) /\ Len(X) \in Nat /\ l \in 1 .. Len(X)
  <2>1. place \in Places /\ l \in Nat \ {0} /\ k \in Nat \ {0}  BY DEF JoinState, Places
  <2>2. j \in 1 .. Len(query.joins) /\ l \in 1 .. Len(X)  BY <1>1 DEF At
  <2>3. Len(query.joins) \in Nat  BY SelectFacts
  <2>4. Numbers(tables, t) = 1 .. Len(tables[t]) /\ Len(tables[t]) \in Nat  BY <2>2, SelectFacts
  <2>5. k \in Numbers(tables, t)  BY <1>0, <2>1, <2>4
  <2>6. Len(X) \in Nat  BY <1>1, AtFacts
  <2>7. j <= Len(query.joins) + 1  BY <2>2, <2>3
  <2> QED  BY <2>1, <2>2, <2>3, <2>4, <2>5, <2>6, <2>7
<1>3. X[l] \in Combinations(tables, query, j)  BY <1>1, <1>2, AtFacts
<1> DEFINE e == Append(X[l], k)
           m == Matches(tables, query, j, e)
<1>4. PICK merged \in Merges(rows[l], t, tables[t][k]) :
        IF Type(Evaluate(Join.on, merged)) # "BOOL" THEN Fail
        ELSE /\ joined' = IF Evaluate(Join.on, merged) = True THEN Append(joined, merged) ELSE joined
             /\ place' = [place EXCEPT !.right = @ + 1]
             /\ UNCHANGED <<phase, rows, answer>>
  BY <1>0 DEF JoinPair, LeftRow
<1>5. Shows(tables, Scope(query), merged, e) /\ Evaluate(Join.on, merged) = m
  <2>1. Row(tables, t, k) = tables[t][k] /\ k \in 0 .. Len(tables[t])  BY <1>2 DEF Row
  <2>2. Merging(j, X[l], rows[l], k, merged)  BY <1>1, <1>2, <1>3, <1>4, <2>1 DEF Merging
  <2> QED  BY <2>2, MergedMeans DEF Join
<1>6. CASE Type(m) # "BOOL"
  <2>1. phase' = "idle" /\ answer' = [status |-> "error", rows |-> <<>>]
    BY <1>4, <1>5, <1>6 DEF Fail, End
  <2>2. Meaning(tables, query) = [status |-> "error", rows |-> <<>>]
    BY <1>2, <1>3, <1>6, FailsAsMeant
  <2> QED  BY <2>1, <2>2
<1>7. CASE Type(m) = "BOOL"
  <2>1. /\ joined' = (IF m = True THEN Append(joined, merged) ELSE joined)
        /\ place' = [place EXCEPT !.right = @ + 1]
        /\ phase' = phase /\ rows' = rows
    BY <1>4, <1>5, <1>7
  <2>2. place' \in Places /\ place'.join = j /\ place'.left = l /\ place'.right = k + 1
    <3>1. place \in Places /\ k + 1 \in Nat \ {0}  BY <1>2
    <3>2. place' = [place EXCEPT !.right = k + 1]  BY <2>1
    <3> QED  BY ONLY <3>1, <3>2 DEF Places
  <2>3. Made(j, X, l, k + 1) = Made(j, X, l, k) \cup (IF m = True THEN {e} ELSE {})
    BY <1>1, <1>2, MadePair
  <2>4. \E Z : Listing(Z, Made(j, X, l, k + 1)) /\ RowsShow(tables, Scope(query), joined', Z)
    <3>1. CASE m = True
      <4>1. Made(j, X, l, k + 1) = Made(j, X, l, k) \cup {e}  BY <2>3, <3>1
      <4>2. \A y \in Made(j, X, l, k) : LexLess(y, e)
        <5>1. k \in Nat  BY <1>2
        <5> QED  BY <1>1, <5>1, MadeBefore
      <4>3. joined' = Append(joined, merged)  BY <2>1, <3>1
      <4> DEFINE C == Made(j, X, l, k)
                 D == Made(j, X, l, k + 1)
                 T == Scope(query)
      <4> HIDE DEF C, D, T, e
      <4>4. /\ Listing(Y, C) /\ RowsShow(tables, T, joined, Y) /\ D = C \cup {e}
            /\ Shows(tables, T, merged, e) /\ \A y \in C : LexLess(y, e)
        BY <1>1, <1>5, <4>1, <4>2 DEF C, D, T
      <4>5. Listing(Append(Y, e), D) /\ RowsShow(tables, T, Append(joined, merged), Append(Y, e))
        BY <4>4, ListingMore
      <4> QED  BY <4>3, <4>5 DEF D, T
    <3>2. CASE m # True
      <4>1. Made(j, X, l, k + 1) = Made(j, X, l, k)  BY <2>3, <3>2
      <4>2. joined' = joined  BY <2>1, <3>2
      <4> QED  BY <1>1, <4>1, <4>2
    <3> QED  BY <3>1, <3>2
  <2>5. Decided(j, X, l, k + 1)
    <3> SUFFICES ASSUME NEW n \in 1 .. Len(X), NEW i \in Numbers(tables, t),
                        n < l \/ (n = l /\ i < k + 1)
                 PROVE  Type(Matches(tables, query, j, Append(X[n], i))) = "BOOL"
      BY DEF Decided
    <3>1. (n < l \/ (n = l /\ i < k)) \/ (n = l /\ i = k)  BY <1>2
    <3>2. CASE n < l \/ (n = l /\ i < k)
      <4>1. Decided(j, X, l, k)  BY <1>1, <1>2 DEF JoinRows
      <4> QED  BY <3>2, <4>1 DEF Decided
    <3>3. CASE n = l /\ i = k  BY <1>7, <3>3
    <3> QED  BY <3>1, <3>2, <3>3
  <2>6. JoinRows(j, X, l, k + 1, rows, joined')  BY <1>1, <2>4, <2>5 DEF JoinRows
  <2>7. JoinState(place', rows', joined')  BY <1>2, <2>1, <2>2, <2>6 DEF JoinState
  <2> QED  BY <1>0, <2>1, <2>7 DEF Joining
<1> QED  BY <1>6, <1>7

\* A left row at the end of the right table: it is kept with NULLs exactly if a LEFT
\* JOIN has joined it with none.
LEMMA LeftRowKeeps ==
  ASSUME ClearSelect, JoinState(place, rows, joined), LeftRowDone
  PROVE  phase' = "join" /\ JoinState(place', rows', joined')
<1> DEFINE j == place.join
           l == place.left
           k == place.right
           t == Right(j)
<1>0. Joining /\ l <= Len(rows) /\ k > Len(tables[t]) /\ Join.table = t
  BY DEF LeftRowDone, Right, Join
<1>1. PICK X, Y :
        /\ JoinRows(j, X, l, k, rows, joined)
        /\ At(j, X, l)
        /\ Shows(tables, Scope(query), rows[l], X[l])
        /\ Listing(Y, Made(j, X, l, k))
        /\ RowsShow(tables, Scope(query), joined, Y)
  BY <1>0, TurnFacts
<1>2. /\ place \in Places /\ j \in 1 .. Len(query.joins) /\ l \in Nat \ {0} /\ k \in Nat \ {0}
      /\ Len(query.joins) \in Nat /\ j <= Len(query.joins) + 1
      /\ Numbers(tables, t) = 1 .. Len(tables[t]) /\ Len(tables[t]) \in Nat
      /\ Len(X) \in Nat /\ l \in 1 .. Len(X)
  <2>1. place \in Places /\ l \in Nat \ {0} /\ k \in Nat \ {0}  BY DEF JoinState, Places
  <2>2. j \in 1 .. Len(query.joins) /\ l \in 1 .. Len(X)  BY <1>1 DEF At
  <2>3. Len(query.joins) \in Nat  BY SelectFacts
  <2>4. Numbers(tables, t) = 1 .. Len(tables[t]) /\ Len(tables[t]) \in Nat  BY <2>2, SelectFacts
  <2>6. Len(X) \in Nat  BY <1>1, AtFacts
  <2>7. j <= Len(query.joins) + 1  BY <2>2, <2>3
  <2> QED  BY <2>1, <2>2, <2>3, <2>4, <2>6, <2>7
<1>3. X[l] \in Combinations(tables, query, j)  BY <1>1, <1>2, AtFacts
<1> DEFINE e == Append(X[l], 0)
           left == JoinedBy(tables, query, j, X[l], 0)
<1>4. PICK found \in HasMatchInJoin(rows[l], t), merged \in Merges(rows[l], t, Nulls(t)) :
        joined' = IF Join.type = "LEFT" /\ ~found THEN Append(joined, merged) ELSE joined
  BY <1>0 DEF LeftRowDone, LeftRow
<1>5. /\ place' = [place EXCEPT !.left = @ + 1, !.right = 1]
      /\ phase' = "join" /\ rows' = rows
  BY <1>0 DEF LeftRowDone, Joining
<1>6. Shows(tables, Scope(query), merged, e)
  <2>1. Row(tables, t, 0) = Nulls(t) /\ 0 \in 0 .. Len(tables[t])  BY <1>2 DEF Row
  <2>2. Merging(j, X[l], rows[l], 0, merged)  BY <1>1, <1>2, <1>3, <1>4, <2>1 DEF Merging
  <2> QED  BY <2>2, MergedMeans
<1>7. (Join.type = "LEFT" /\ ~found) <=> left
  <2>1. found <=> \E i \in Numbers(tables, t) : Matches(tables, query, j, Append(X[l], i)) = True
    BY <1>1, <1>2, <1>3, <1>4, FoundMeans
  <2>2. 0 \notin Numbers(tables, t)  BY <1>2
  <2>3. left <=> (query.joins[j].type = "LEFT"
                  /\ \A i \in Numbers(tables, t) : Matches(tables, query, j, Append(X[l], i)) # True)
    BY <2>2 DEF JoinedBy, Right
  <2> QED  BY <2>1, <2>3 DEF Join
<1>8. place' \in Places /\ place'.join = j /\ place'.left = l + 1 /\ place'.right = 1
  <2>1. place = [join |-> j, left |-> l, right |-> k]  BY <1>2 DEF Places
  <2>2. place' = [join |-> j, left |-> l + 1, right |-> 1]  BY <1>5, <2>1
  <2> QED  BY <1>2, <2>2 DEF Places
<1>9. Made(j, X, l + 1, 1) = Made(j, X, l, k) \cup (IF left THEN {e} ELSE {})
  <2>1. At(j, X, l) /\ k \in Nat /\ k > Len(tables[Right(j)])  BY <1>0, <1>1, <1>2
  <2> HIDE DEF j, l, k
  <2> QED  BY <2>1, MadeRow
<1>10. \E Z : Listing(Z, Made(j, X, l + 1, 1)) /\ RowsShow(tables, Scope(query), joined', Z)
  <2>1. CASE left
    <3>1. Made(j, X, l + 1, 1) = Made(j, X, l, k) \cup {e}  BY <1>9, <2>1
    <3>2. ASSUME NEW y \in Made(j, X, l, k) PROVE LexLess(y, e)
      <4>1. k \in Nat  BY <1>2
      <4>2. \/ LexLess(y, Append(X[l], 0))
            \/ \E i \in 1 .. k - 1 : y = Append(X[l], i) /\ JoinedBy(tables, query, j, X[l], i)
        BY <1>1, <4>1, MadeBefore
      <4>3. ASSUME NEW i \in 1 .. k - 1 PROVE ~JoinedBy(tables, query, j, X[l], i)
        <5>1. i # 0  OBVIOUS
        <5>2. \A m \in Numbers(tables, t) : Matches(tables, query, j, Append(X[l], m)) # True
          <6>1. 0 \notin Numbers(tables, t)  BY <1>2
          <6> QED  BY <2>1, <6>1 DEF JoinedBy, Right
        <5> QED  BY <5>1, <5>2 DEF JoinedBy, Right
      <4> QED  BY <4>2, <4>3
    <3>3. joined' = Append(joined, merged)  BY <1>4, <1>7, <2>1
    <3> DEFINE C == Made(j, X, l, k)
               D == Made(j, X, l + 1, 1)
               T == Scope(query)
    <3> HIDE DEF C, D, T, e
    <3>4. /\ Listing(Y, C) /\ RowsShow(tables, T, joined, Y) /\ D = C \cup {e}
          /\ Shows(tables, T, merged, e) /\ \A y \in C : LexLess(y, e)
      BY <1>1, <1>6, <3>1, <3>2 DEF C, D, T
    <3>5. Listing(Append(Y, e), D) /\ RowsShow(tables, T, Append(joined, merged), Append(Y, e))
      BY <3>4, ListingMore
    <3> QED  BY <3>3, <3>5 DEF D, T
  <2>2. CASE ~left
    <3>1. Made(j, X, l + 1, 1) = Made(j, X, l, k)  BY <1>9, <2>2
    <3>2. joined' = joined  BY <1>4, <1>7, <2>2
    <3> QED  BY <1>1, <3>1, <3>2
  <2> QED  BY <2>1, <2>2
<1>11. Decided(j, X, l + 1, 1)
  <2> SUFFICES ASSUME NEW n \in 1 .. Len(X), NEW i \in Numbers(tables, t),
                      n < l + 1 \/ (n = l + 1 /\ i < 1)
               PROVE  Type(Matches(tables, query, j, Append(X[n], i))) = "BOOL"
    BY DEF Decided
  <2>1. n < l \/ (n = l /\ i < k)  BY <1>0, <1>2
  <2>2. Decided(j, X, l, k)  BY <1>1, <1>2 DEF JoinRows
  <2> QED  BY <2>1, <2>2 DEF Decided
<1>12. JoinRows(j, X, l + 1, 1, rows, joined')  BY <1>1, <1>10, <1>11 DEF JoinRows
<1>13. JoinState(place', rows', joined')  BY <1>2, <1>5, <1>8, <1>12 DEF JoinState
<1> QED  BY <1>5, <1>13

\* The rows of a finished JOIN are the left rows of the next one.
LEMMA JoinDoneKeeps ==
  ASSUME ClearSelect, JoinState(place, rows, joined), JoinDone
  PROVE  phase' = "join" /\ JoinState(place', rows', joined')
<1> DEFINE j == place.join
           l == place.left
           k == place.right
<1>0. /\ phase' = "join" /\ l > Len(rows) /\ j <= Len(query.joins)
      /\ rows' = joined /\ joined' = <<>>
      /\ place' = [join |-> j + 1, left |-> 1, right |-> 1]
  BY DEF JoinDone, Joining
<1>1. place \in Places /\ j \in Nat \ {0} /\ l \in Nat \ {0} /\ k \in Nat \ {0}
  BY DEF JoinState, Places
<1>2. PICK X : JoinRows(j, X, l, k, rows, joined)  BY DEF JoinState
<1>3. PICK Y : Listing(Y, Made(j, X, l, k)) /\ RowsShow(tables, Scope(query), joined, Y)
  BY <1>0, <1>2 DEF JoinRows
<1>4. Listing(X, Combinations(tables, query, j)) /\ Len(rows) = Len(X) /\ Len(X) \in Nat
  BY <1>2, ListingFacts DEF JoinRows, RowsShow
<1>5. j \in 1 .. Len(query.joins) /\ Len(query.joins) \in Nat
  <2>1. Len(query.joins) \in Nat  BY SelectFacts
  <2> QED  BY <1>0, <1>1, <2>1
<1>6. Made(j, X, l, k) = Combinations(tables, query, j + 1)
  <2>1. l \in Nat /\ l > Len(X)  BY <1>0, <1>1, <1>4
  <2> QED  BY <1>4, <1>5, <2>1, MadeAll
<1>7. DecidedBefore(j + 1)
  <2>0. PICK m1 \in Nat : m1 = j + 1  BY <1>1
  <2> SUFFICES ASSUME NEW m \in 1 .. m1 - 1, NEW x \in Combinations(tables, query, m),
                      NEW i \in Numbers(tables, Right(m))
               PROVE  Type(Matches(tables, query, m, Append(x, i))) = "BOOL"
    BY <2>0 DEF DecidedBefore
  <2>1. m \in 1 .. j - 1 \/ m = j  BY <1>1, <2>0
  <2>2. CASE m \in 1 .. j - 1
    <3>1. DecidedBefore(j)  BY <1>2 DEF JoinRows
    <3> QED  BY <2>2, <3>1 DEF DecidedBefore
  <2>3. CASE m = j
    <3>1. PICK n \in 1 .. Len(X) : X[n] = x  BY <1>4, <2>3 DEF Listing
    <3>2. n < l  BY <1>0, <1>1, <1>4
    <3>3. Decided(j, X, l, k)  BY <1>0, <1>2 DEF JoinRows
    <3> QED  BY <2>3, <3>1, <3>2, <3>3 DEF Decided
  <2> QED  BY <2>1, <2>2, <2>3
<1>8. Listing(Y, Combinations(tables, query, j + 1)) /\ Len(Y) \in Nat
  <2>1. Listing(Y, Combinations(tables, query, j + 1))  BY <1>3, <1>6
  <2> QED  BY <2>1, ListingFacts
<1>9. Decided(j + 1, Y, 1, 1) /\ Listing(<<>>, Made(j + 1, Y, 1, 1))
      /\ RowsShow(tables, Scope(query), <<>>, <<>>)
  BY <1>8, NothingMade
<1>10. JoinRows(j + 1, Y, 1, 1, joined, <<>>)  BY <1>3, <1>7, <1>8, <1>9 DEF JoinRows
<1>11. place' \in Places /\ place'.join = j + 1 /\ place'.left = 1 /\ place'.right = 1
       /\ j + 1 <= Len(query.joins) + 1
  BY <1>0, <1>1, <1>5 DEF Places
<1>12. JoinState(place', rows', joined')  BY <1>0, <1>10, <1>11 DEF JoinState
<1> QED  BY <1>0, <1>12

\* The combinations that WHERE selects.
Selected ==
  {x \in Combinations(tables, query, Len(query.joins) + 1) : Filtered(tables, query, x) = True}

\* The rows show them, in their order, and every condition is true or false.
ShowState(rs) ==
  /\ ~Undecided(tables, query)
  /\ \E X : Listing(X, Selected) /\ RowsShow(tables, Scope(query), rs, X)

\* A combination of all tables, which a row shows.
Full(r, x) ==
  /\ x \in Combinations(tables, query, Len(query.joins) + 1)
  /\ Shows(tables, Scope(query), r, x)

\* On a row that shows a combination, WHERE is what it is on the combination.
LEMMA FullFacts ==
  ASSUME ClearSelect, NEW r, NEW x, Full(r, x)
  PROVE  /\ x \in Seq(Nat) /\ Len(x) = Len(Scope(query)) /\ Takes(tables, Scope(query), x)
         /\ Condition(r) = Filtered(tables, query, x)
<1>1. Len(query.joins) \in Nat /\ ScopeFits(tables, Scope(query))
      /\ Len(Scope(query)) = Len(query.joins) + 1
  BY SelectFacts
<1>2. x \in Seq(Nat) /\ Len(x) = Len(Scope(query)) /\ Takes(tables, Scope(query), x)
  <2>1. PICK k \in 1 .. Len(query.joins) + 1 : k = Len(query.joins) + 1  BY <1>1
  <2>2. x \in Combinations(tables, query, k)  BY <2>1 DEF Full
  <2>3. x \in Seq(Nat) /\ Len(x) = k /\ Takes(tables, Scope(query), x)
    BY <2>2, CombinationTakes DEF ClearSelect
  <2> QED  BY <1>1, <2>1, <2>3
<1>3. Condition(r) = Filtered(tables, query, x)
  <2>1. CASE query.where = NoWhere  BY <2>1 DEF Condition, Filtered
  <2>2. CASE query.where # NoWhere
    <3>1. query.where \in Exprs  BY <2>2 DEF ClearSelect, QueryFits
    <3>2. ClearExpr(tables, query, Len(x), query.where)  BY <1>2, <2>2 DEF ClearSelect, Clear
    <3>3. Evaluate(query.where, r) = Evaluate(query.where, Meant(tables, query, x))
      BY <1>1, <1>2, <3>1, <3>2, ConditionMeans DEF ClearSelect, Full
    <3> QED  BY <2>2, <3>3 DEF Condition, Filtered
  <2> QED  BY <2>1, <2>2
<1> QED  BY <1>2, <1>3

\* Of the rows s, w are those that show combinations in D.
Picked(db, T, X, C, D, s, K, P, w) ==
  /\ Listing(X, C) /\ RowsShow(db, T, s, X) /\ D \subseteq C
  /\ \A n \in 1 .. Len(X) : n \in K <=> X[n] \in D
  /\ Chosen(s, K, Len(X), P, w) /\ IsList(w)

\* They list what is in D.
LEMMA ListingChosen ==
  ASSUME NEW db, NEW T, NEW X, NEW C, NEW D, NEW s, NEW K, NEW P, NEW w,
         Picked(db, T, X, C, D, s, K, P, w)
  PROVE  \E Y : Listing(Y, D) /\ RowsShow(db, T, w, Y)
<1>0. /\ Listing(X, C) /\ RowsShow(db, T, s, X) /\ D \subseteq C
      /\ \A n \in 1 .. Len(X) : n \in K <=> X[n] \in D
      /\ Chosen(s, K, Len(X), P, w) /\ IsList(w)
  BY DEF Picked
<1> DEFINE N == Len(P)
           Y == [i \in 1 .. N |-> X[P[i]]]
<1>1. /\ N \in Nat /\ Len(X) \in Nat /\ Len(w) = N
      /\ \A i \in 1 .. N : P[i] \in 1 .. Len(X) /\ P[i] \in K /\ w[i] = s[P[i]]
      /\ \A i, j \in 1 .. N : i < j => P[i] < P[j]
      /\ \A m \in 1 .. Len(X) : m \in K => \E i \in 1 .. N : P[i] = m
  BY <1>0, ListingFacts, LenProperties DEF Chosen
<1> HIDE DEF N
<1>2. Y \in [1 .. N -> D]  BY <1>0, <1>1
<1>3. \A i \in 1 .. N : Y[i] = X[P[i]]  OBVIOUS
<1> HIDE DEF Y
<1>4. Y \in Seq(D) /\ Len(Y) = N  BY <1>1, <1>2
<1>5. ASSUME NEW i \in 1 .. Len(Y), NEW j \in 1 .. Len(Y), i < j PROVE LexLess(Y[i], Y[j])
  <2>1. P[i] < P[j] /\ P[i] \in 1 .. Len(X) /\ P[j] \in 1 .. Len(X)  BY <1>1, <1>4, <1>5
  <2>2. LexLess(X[P[i]], X[P[j]])  BY <1>0, <2>1 DEF Listing
  <2> QED  BY <1>3, <1>4, <2>2
<1>6. ASSUME NEW x \in D PROVE \E i \in 1 .. Len(Y) : Y[i] = x
  <2>1. PICK m \in 1 .. Len(X) : X[m] = x  BY <1>0 DEF Listing
  <2>2. PICK i \in 1 .. N : P[i] = m  BY <1>0, <1>1, <2>1
  <2> QED  BY <1>3, <1>4, <2>1, <2>2
<1>7. Listing(Y, D)  BY <1>4, <1>5, <1>6 DEF Listing
<1>8. RowsShow(db, T, w, Y)
  <2>1. ASSUME NEW i \in 1 .. Len(Y) PROVE Shows(db, T, w[i], Y[i])
    <3>1. P[i] \in 1 .. Len(X) /\ w[i] = s[P[i]] /\ Y[i] = X[P[i]]  BY <1>1, <1>3, <1>4
    <3> QED  BY <1>0, <3>1 DEF RowsShow
  <2> QED  BY <1>0, <1>1, <1>4, <2>1 DEF RowsShow
<1> QED  BY <1>7, <1>8

\* WHERE takes the rows of the combinations that are selected, or fails on a
\* condition that is no truth value, as is meant.
LEMMA FilterKeeps ==
  ASSUME ClearSelect, JoinState(place, rows, joined), Filter
  PROVE  \/ phase' = "show" /\ ShowState(rows')
         \/ phase' = "idle" /\ answer' = Meaning(tables, query)
<1> DEFINE K == Len(query.joins)
<1>1. K \in Nat /\ DOMAIN query.joins = 1 .. K  BY SelectFacts
<1>2. place.join = K + 1
  <2>1. place.join > K  BY DEF Filter
  <2>2. place.join \in Nat /\ place.join <= K + 1  BY DEF JoinState, Places
  <2> QED  BY <1>1, <2>1, <2>2
<1>3. PICK X : /\ Listing(X, Combinations(tables, query, K + 1))
               /\ RowsShow(tables, Scope(query), rows, X)
               /\ DecidedBefore(K + 1)
  BY <1>2 DEF JoinState, JoinRows
<1> DEFINE N == Len(X)
<1>4. N \in Nat /\ IsList(rows) /\ Len(rows) = N /\ DOMAIN rows = 1 .. N
  <2>1. N \in Nat /\ IsList(rows) /\ Len(rows) = N  BY <1>3, ListingFacts DEF RowsShow
  <2> QED  BY <2>1, LenProperties DEF IsList
<1> HIDE DEF N
<1>5. ASSUME NEW n \in 1 .. N
      PROVE  /\ Condition(rows[n]) = Filtered(tables, query, X[n])
             /\ X[n] \in Combinations(tables, query, K + 1)
  <2>1. X[n] \in Combinations(tables, query, K + 1)  BY <1>3, ListingFacts DEF N
  <2>2. Full(rows[n], X[n])  BY <1>3, <2>1 DEF Full, RowsShow, N
  <2> QED  BY <2>1, <2>2, FullFacts
<1>6. CASE \E n \in DOMAIN rows : Type(Condition(rows[n])) # "BOOL"
  <2>1. phase' = "idle" /\ answer' = [status |-> "error", rows |-> <<>>]
    BY <1>6 DEF Filter, Fail, End
  <2>2. \E x \in Combinations(tables, query, K + 1) : Type(Filtered(tables, query, x)) # "BOOL"
    BY <1>4, <1>5, <1>6
  <2>3. Undecided(tables, query)  BY <2>2 DEF Undecided
  <2> QED  BY <2>1, <2>3 DEF Meaning
<1>7. CASE ~\E n \in DOMAIN rows : Type(Condition(rows[n])) # "BOOL"
  <2> DEFINE C == {n \in 1 .. N : Condition(rows[n]) = True}
  <2>1. /\ phase' = "show"
        /\ rows' = FlattenSeq([n \in DOMAIN rows |->
                     IF Condition(rows[n]) = True THEN <<rows[n]>> ELSE <<>>])
    BY <1>7 DEF Filter
  <2>2. rows' = FlattenSeq([n \in 1 .. N |-> IF n \in C THEN <<rows[n]>> ELSE <<>>])
    <3>1. [n \in DOMAIN rows |-> IF Condition(rows[n]) = True THEN <<rows[n]>> ELSE <<>>]
            = [n \in 1 .. N |-> IF n \in C THEN <<rows[n]>> ELSE <<>>]
      BY <1>4
    <3> QED  BY <2>1, <3>1
  <2>3. \A n \in 1 .. N : n \in C <=> X[n] \in Selected
    BY <1>5 DEF Selected
  <2>4. ~Undecided(tables, query)
    <3>1. ASSUME NEW j \in DOMAIN query.joins, NEW x \in Combinations(tables, query, j),
                 NEW i \in Numbers(tables, query.joins[j].table)
          PROVE  Type(Matches(tables, query, j, Append(x, i))) = "BOOL"
      <4>1. PICK last \in Nat : last = K + 1  BY <1>1
      <4>2. DecidedBefore(last) /\ j \in 1 .. last - 1  BY <1>1, <1>3, <4>1
      <4> QED  BY <4>2 DEF DecidedBefore, Right
    <3>2. ASSUME NEW x \in Combinations(tables, query, K + 1)
          PROVE  Type(Filtered(tables, query, x)) = "BOOL"
      <4>1. PICK n \in 1 .. N : X[n] = x  BY <1>3 DEF Listing, N
      <4> QED  BY <1>4, <1>5, <1>7, <4>1
    <3> QED  BY <3>1, <3>2 DEF Undecided
  <2> HIDE DEF C
  <2>5. rows \in [1 .. N -> Range(rows)]
    <3>1. rows \in Seq(Range(rows))  BY <1>4 DEF IsList
    <3> QED  BY <1>4, <3>1
  <2>6. rows' \in Seq(Range(rows)) /\ \E P : Chosen(rows, C, N, P, rows')
    <3> DEFINE S == Range(rows)
               f == Kept(rows, N, C)
    <3>1. N \in Nat /\ rows \in [1 .. N -> S]  BY <1>4, <2>5
    <3> HIDE DEF S, N
    <3>2. f \in Seq(S) /\ \E P : Chosen(rows, C, N, P, f)  BY ONLY <3>1, FlattenChooses
    <3> QED  BY <2>2, <3>2 DEF S, Kept
  <2>7. IsList(rows')  BY <2>6, SequencesAreLists
  <2>8. PICK P : Chosen(rows, C, N, P, rows')  BY <2>6
  <2>9. \E Y : Listing(Y, Selected) /\ RowsShow(tables, Scope(query), rows', Y)
    <3> DEFINE D == Selected
               A == Combinations(tables, query, K + 1)
               T == Scope(query)
    <3>1. D \subseteq A  BY DEF Selected
    <3> HIDE DEF D, A, T, K
    <3>2. PICK w : w = rows'  OBVIOUS
    <3>3. Picked(tables, T, X, A, D, rows, C, P, w)
      BY <1>3, <2>3, <2>7, <2>8, <3>1, <3>2 DEF Picked, A, D, T, N
    <3>4. \E Y : Listing(Y, D) /\ RowsShow(tables, T, w, Y)  BY <3>3, ListingChosen
    <3> QED  BY <3>2, <3>4 DEF D, T
  <2> QED  BY <2>1, <2>4, <2>9 DEF ShowState
<1> QED  BY <1>6, <1>7

\* What is numbered by a set has its size.
LEMMA SameSize ==
  ASSUME NEW A, IsFiniteSet(A), NEW B, NEW f,
         \A i \in A : f[i] \in B,
         \A i, j \in A : f[i] = f[j] => i = j,
         \A y \in B : \E i \in A : f[i] = y
  PROVE  IsFiniteSet(B) /\ Cardinality(B) = Cardinality(A)
<1> DEFINE g == [i \in A |-> f[i]]
<1>1. g \in [A -> B] /\ \A i \in A : g[i] = f[i]  OBVIOUS
<1> HIDE DEF g
<1>2. g \in Injection(A, B)  BY <1>1 DEF Injection, IsInjective
<1>3. g \in Surjection(A, B)  BY <1>1 DEF Surjection
<1>4. ExistsBijection(A, B)  BY <1>2, <1>3 DEF Bijection, ExistsBijection
<1> QED  BY <1>4, FS_Bijection

\* The numbers up to n.
LEMMA NumbersSize ==
  ASSUME NEW n \in Nat
  PROVE  IsFiniteSet(1 .. n) /\ Cardinality(1 .. n) = n
<1>1. 1 \in Int /\ n \in Int  OBVIOUS
<1>2. IsFiniteSet(1 .. n) /\ Cardinality(1 .. n) = IF 1 > n THEN 0 ELSE n - 1 + 1
  BY <1>1, FS_Interval
<1> QED  BY <1>2

----------------------------------------------------------------------------
\* ORDER BY

\* The n-th value by which a row is sorted.
Key(r, n) == Cell(r, query.orderBy[n].column)

\* It is what the column means, and all are of one type.
LEMMA KeyMeans ==
  ASSUME ClearSelect, NEW n \in 1 .. Len(query.orderBy)
  PROVE  \E type \in {"INT", "TEXT", "BOOL"} : \A r, x :
           Full(r, x) => /\ Key(r, n) = Meant(tables, query, x)[query.orderBy[n].column]
                         /\ Key(r, n) \in OfType(type)
<1> DEFINE T == Scope(query)
           c == query.orderBy[n].column
           L == Len(T)
<1>1. /\ L \in Nat /\ DOMAIN T = 1 .. L /\ ScopeFits(tables, T)
      /\ \A m \in 1 .. L : T[m] \in DOMAIN tables
      /\ Len(query.joins) \in Nat
      /\ \A m \in 1 .. L : DOMAIN tables[T[m]] = 1 .. Len(tables[T[m]])
  <2>1. /\ Len(query.joins) \in Nat /\ ScopeFits(tables, T)
        /\ L = Len(query.joins) + 1 /\ DOMAIN T = 1 .. Len(query.joins) + 1
    BY SelectFacts
  <2>2. \A m \in 1 .. Len(query.joins) + 1 :
          T[m] \in DOMAIN tables /\ DOMAIN tables[T[m]] = 1 .. Len(tables[T[m]])
    BY ScopeFacts DEF ClearSelect
  <2> HIDE DEF T
  <2> QED  BY <2>1, <2>2
<1>2. n \in DOMAIN query.orderBy  BY QueryFacts DEF ClearSelect
<1>3. ClearRef(tables, query, L, <<>>, c)  BY <1>2 DEF ClearSelect, Clear
<1> HIDE DEF T, c, L
<1>4. PICK m \in 1 .. L : /\ c \in ColumnSet(T[m]) /\ <<>> \in {<<>>, T[m]}
                          /\ Shared(query, c) => <<>> = T[m]
  BY <1>3 DEF ClearRef, T
<1>5. T[m] \in DOMAIN ColumnsOf /\ IsName(T[m])
  BY <1>1, DatabasesAssumption, NamesAssumption DEF ClearSelect
<1>6. ~Shared(query, c)  BY <1>4, <1>5 DEF IsName
<1>7. \A k \in 1 .. L : k # m => c \notin ColumnSet(T[k])
  <2>1. \A k \in DOMAIN Scope(query) : c \in ColumnSet(Scope(query)[k]) => k = m
    BY <1>1, <1>4, <1>6, NotShared DEF T
  <2> QED  BY <1>1, <2>1 DEF T
<1>8. PICK type \in {"INT", "TEXT", "BOOL"} :
        \A i \in DOMAIN tables[T[m]] :
          c \in DOMAIN tables[T[m]][i] => Type(tables[T[m]][i][c]) \in {type, "NULL"}
  BY <1>1, <1>4, DatabasesAssumption DEF ClearSelect
<1>9. ASSUME NEW r, NEW x, Full(r, x)
      PROVE  /\ Cell(r, c) = Meant(tables, query, x)[c]
             /\ Cell(r, c) \in OfType(type)
  <2>1. Len(x) = L /\ Takes(tables, T, x) /\ Shows(tables, T, r, x)
    BY <1>9, FullFacts DEF Full, L, T
  <2>2. m \in 1 .. Len(x) /\ x[m] \in 0 .. Len(tables[T[m]])
    BY <1>4, <2>1 DEF Takes
  <2>3. \A k \in 1 .. Len(x) : k # m => c \notin ColumnSet(T[k])  BY <1>7, <2>1
  <2>4. Cell(r, c) = Cell(Row(tables, T[m], x[m]), c)
    BY <1>4, <2>1, <2>2, <2>3 DEF Shows, PlainShown
  <2>5. Meant(tables, query, x)[c] = Cell(Row(tables, T[m], x[m]), c)
    <3>1. /\ tables \in Databases /\ ScopeFits(tables, Scope(query))
          /\ Takes(tables, Scope(query), x) /\ m \in 1 .. Len(x) /\ c \in ColumnSet(Scope(query)[m])
          /\ \A k \in 1 .. Len(x) : k # m => c \notin ColumnSet(Scope(query)[k])
      BY <1>1, <1>4, <2>1, <2>2, <2>3 DEF ClearSelect, T
    <3>2. Meant(tables, query, x)[c] = Cell(Row(tables, Scope(query)[m], x[m]), c)
      BY <3>1, NamesMean
    <3> QED  BY <3>2 DEF T
  <2>6. Cell(Row(tables, T[m], x[m]), c) \in OfType(type)
    <3>0. Null \in OfType(type)  BY DEF OfType, Null, Values, Type
    <3>1. CASE x[m] = 0  BY <3>0, <3>1 DEF Row, Cell, Nulls
    <3>2. CASE x[m] # 0
      <4>1. x[m] \in DOMAIN tables[T[m]]  BY <1>1, <1>4, <2>2, <3>2
      <4>2. RowFits(tables[T[m]][x[m]], T[m])
        BY <1>1, <1>4, <4>1, DatabasesAssumption DEF ClearSelect
      <4>3. Row(tables, T[m], x[m]) = tables[T[m]][x[m]]  BY <3>2 DEF Row
      <4> DEFINE row == tables[T[m]][x[m]]
      <4>4. c \in DOMAIN row => row[c] \in Values /\ Type(row[c]) \in {type, "NULL"}
        BY <1>8, <4>1, <4>2 DEF RowFits
      <4> HIDE DEF row
      <4> QED  BY <3>0, <4>3, <4>4 DEF Cell, OfType, row
    <3> QED  BY <3>1, <3>2
  <2> QED  BY <2>4, <2>5, <2>6
<1> QED  BY <1>9 DEF Key, c

\* The rows list what is selected.
SortState(X) ==
  /\ ClearSelect /\ Listing(X, Selected) /\ RowsShow(tables, Scope(query), rows, X)

\* A sorted column of a row is the value that its combination has under that name.
LEMMA SortFacts ==
  ASSUME NEW X, SortState(X)
  PROVE  /\ Len(rows) \in Nat /\ Len(X) = Len(rows) /\ DOMAIN rows = 1 .. Len(rows)
         /\ Len(query.orderBy) \in Nat /\ DOMAIN query.orderBy = 1 .. Len(query.orderBy)
         /\ \A i \in 1 .. Len(rows) : X[i] \in Selected /\ Full(rows[i], X[i])
         /\ \A n \in 1 .. Len(query.orderBy) : \A i \in 1 .. Len(rows) :
              Meant(tables, query, X[i])[query.orderBy[n].column] = Key(rows[i], n)
<1>1. /\ ClearSelect /\ Listing(X, Selected) /\ RowsShow(tables, Scope(query), rows, X)
  BY DEF SortState
<1>2. Len(rows) \in Nat /\ Len(X) = Len(rows) /\ DOMAIN rows = 1 .. Len(rows)
  <2>1. Len(X) \in Nat /\ Len(rows) = Len(X) /\ rows \in Seq(Range(rows))
    BY <1>1, ListingFacts DEF RowsShow, IsList
  <2> QED  BY <2>1, LenProperties
<1>3. Len(query.orderBy) \in Nat /\ DOMAIN query.orderBy = 1 .. Len(query.orderBy)
  BY <1>1, QueryFacts DEF ClearSelect
<1>4. ASSUME NEW i \in 1 .. Len(rows) PROVE X[i] \in Selected /\ Full(rows[i], X[i])
  <2>1. X[i] \in Selected /\ Shows(tables, Scope(query), rows[i], X[i])
    BY <1>1, <1>2, ListingFacts DEF RowsShow
  <2> QED  BY <2>1 DEF Full, Selected
<1>5. ASSUME NEW n \in 1 .. Len(query.orderBy), NEW i \in 1 .. Len(rows)
      PROVE  Meant(tables, query, X[i])[query.orderBy[n].column] = Key(rows[i], n)
  BY <1>1, <1>4, KeyMeans
<1> QED  BY <1>2, <1>3, <1>4, <1>5

\* The orders by which two rows are compared: of the values of each column of
\* ORDER BY, and at last of their places.
OrderedBy(s, n, i, j) ==
  IF n > Len(query.orderBy) THEN i <= j
  ELSE IF query.orderBy[n].desc THEN AtMost(Key(s[j], n), Key(s[i], n))
  ELSE AtMost(Key(s[i], n), Key(s[j], n))

Orders(s) ==
  [n \in 1 .. Len(query.orderBy) + 1 |->
     {p \in (1 .. Len(s)) \X (1 .. Len(s)) : OrderedBy(s, n, p[1], p[2])}]

\* When two rows are in each of the orders.
LEMMA OrdersHave ==
  ASSUME NEW X, SortState(X),
         NEW n \in 1 .. Len(query.orderBy) + 1, NEW i \in 1 .. Len(rows), NEW j \in 1 .. Len(rows)
  PROVE  <<i, j>> \in Orders(rows)[n] <=> OrderedBy(rows, n, i, j)
  BY DEF Orders

\* Each puts any two rows in order.
LEMMA OrdersTotal ==
  ASSUME NEW X, SortState(X), NEW n \in 1 .. Len(query.orderBy) + 1
  PROVE  TotalPreorder(1 .. Len(rows), Orders(rows)[n])
<1> DEFINE D == 1 .. Len(rows)
           M == Len(query.orderBy)
           R == Orders(rows)[n]
<1>1. M \in Nat /\ n \in Nat /\ \A i \in D : i \in Nat
  BY SortFacts
<1>2. \A i, j \in D : <<i, j>> \in R <=> OrderedBy(rows, n, i, j)  BY OrdersHave
<1> HIDE DEF R, M, D
<1>3. CASE n > M
  <2>1. \A i, j \in D : OrderedBy(rows, n, i, j) <=> i <= j  BY <1>3 DEF OrderedBy, M
  <2> QED  BY <1>1, <1>2, <2>1 DEF TotalPreorder, D, R
<1>4. CASE ~(n > M)
  <2>1. n \in 1 .. M  BY <1>1, <1>4
  <2>2. PICK type \in {"INT", "TEXT", "BOOL"} : \A r, x :
          Full(r, x) => /\ Key(r, n) = Meant(tables, query, x)[query.orderBy[n].column]
                        /\ Key(r, n) \in OfType(type)
    BY <2>1, KeyMeans DEF M, SortState
  <2>3. \A i \in D : Key(rows[i], n) \in OfType(type)  BY <2>2, SortFacts DEF D
  <2> DEFINE v == [i \in D |-> Key(rows[i], n)]
  <2>4. /\ \A i \in D : v[i] \in OfType(type)
        /\ \A i, j \in D :
             <<i, j>> \in R <=> IF query.orderBy[n].desc THEN AtMost(v[j], v[i]) ELSE AtMost(v[i], v[j])
    BY <1>2, <1>4, <2>3 DEF OrderedBy, M
  <2> HIDE DEF v
  <2>5. ASSUME NEW i \in D, NEW j \in D PROVE <<i, j>> \in R \/ <<j, i>> \in R
    <3>1. AtMost(v[i], v[j]) \/ AtMost(v[j], v[i])
      <4>1. v[i] \in OfType(type) /\ v[j] \in OfType(type)  BY <2>4
      <4> QED  BY <4>1, ValueOrder
    <3> QED  BY <2>4, <3>1
  <2>6. ASSUME NEW i \in D, NEW j \in D, NEW k \in D, <<i, j>> \in R, <<j, k>> \in R
        PROVE  <<i, k>> \in R
    <3>1. v[i] \in OfType(type) /\ v[j] \in OfType(type) /\ v[k] \in OfType(type)  BY <2>4
    <3>2. AtMost(v[i], v[j]) /\ AtMost(v[j], v[k]) => AtMost(v[i], v[k])  BY <3>1, ValueOrder
    <3>3. AtMost(v[k], v[j]) /\ AtMost(v[j], v[i]) => AtMost(v[k], v[i])  BY <3>1, ValueOrder
    <3>4. CASE query.orderBy[n].desc
      <4>1. AtMost(v[k], v[j]) /\ AtMost(v[j], v[i])  BY <2>4, <2>6, <3>4
      <4> QED  BY <2>4, <3>3, <3>4, <4>1
    <3>5. CASE ~query.orderBy[n].desc
      <4>1. AtMost(v[i], v[j]) /\ AtMost(v[j], v[k])  BY <2>4, <2>6, <3>5
      <4> QED  BY <2>4, <3>2, <3>5, <4>1
    <3> QED  BY <3>4, <3>5
  <2> QED  BY <2>5, <2>6 DEF TotalPreorder, D, R
<1> QED  BY <1>3, <1>4

\* The row i comes before the row j.
Goes(s, i, j) == First(Orders(s), Len(query.orderBy) + 1, i, j)

\* The comparison of the sort.
LEMMA LessFirst ==
  ASSUME NEW X, SortState(X), NEW i \in 1 .. Len(rows), NEW j \in 1 .. Len(rows)
  PROVE  Less(query.orderBy, rows[i], rows[j]) <=> First(Orders(rows), Len(query.orderBy), i, j)
<1> DEFINE M == Len(query.orderBy)
           le == Orders(rows)
           v(k, n) == Key(rows[k], n)
<1>1. M \in Nat /\ DOMAIN query.orderBy = 1 .. M  BY SortFacts
<1>2. ASSUME NEW n \in 1 .. M, NEW a \in 1 .. Len(rows), NEW b \in 1 .. Len(rows)
      PROVE  <<a, b>> \in le[n] <=>
               IF query.orderBy[n].desc THEN AtMost(v(b, n), v(a, n)) ELSE AtMost(v(a, n), v(b, n))
  <2>1. n \in 1 .. M + 1 /\ ~(n > M)  BY <1>1
  <2>2. <<a, b>> \in le[n] <=> OrderedBy(rows, n, a, b)  BY <2>1, OrdersHave
  <2> QED  BY <2>1, <2>2 DEF OrderedBy
<1> HIDE DEF le
<1>3. ASSUME NEW n \in 1 .. M
      PROVE  /\ <<i, j>> \in le[n] /\ <<j, i>> \in le[n] <=> Same(v(i, n), v(j, n))
             /\ <<j, i>> \notin le[n] <=>
                  IF query.orderBy[n].desc THEN ~AtMost(v(i, n), v(j, n)) ELSE ~AtMost(v(j, n), v(i, n))
  BY <1>2 DEF Same
<1>4. Less(query.orderBy, rows[i], rows[j]) <=>
        \E n \in 1 .. M :
          /\ \A m \in 1 .. n - 1 : Same(v(i, m), v(j, m))
          /\ IF query.orderBy[n].desc THEN ~AtMost(v(i, n), v(j, n)) ELSE ~AtMost(v(j, n), v(i, n))
  BY <1>1 DEF Less, Key
<1>5. \A n \in 1 .. M : \A m \in 1 .. n - 1 : m \in 1 .. M  BY <1>1
<1> HIDE DEF v, M
<1>6. First(le, M, i, j) <=>
        \E n \in 1 .. M :
          /\ \A m \in 1 .. n - 1 : Same(v(i, m), v(j, m))
          /\ IF query.orderBy[n].desc THEN ~AtMost(v(i, n), v(j, n)) ELSE ~AtMost(v(j, n), v(i, n))
  BY <1>3, <1>5 DEF First
<1> QED  BY <1>4, <1>6 DEF le, M

\* One comes first in all orders if it does in the orders before the last, or if
\* these have it both ways.
LEMMA FirstAtLast ==
  ASSUME NEW M \in Nat, NEW S, NEW le, \A n \in 1 .. M + 1 : TotalPreorder(S, le[n]),
         NEW i \in S, NEW j \in S
  PROVE  First(le, M + 1, i, j) <=>
           \/ First(le, M, i, j)
           \/ ~First(le, M, j, i) /\ <<j, i>> \notin le[M + 1]
<1>1. \A n \in 1 .. M + 1 : n \in 1 .. M \/ n = M + 1  OBVIOUS
<1>2. \A n \in 1 .. M : TotalPreorder(S, le[n])  OBVIOUS
<1>3. ASSUME First(le, M + 1, i, j)
      PROVE  First(le, M, i, j) \/ (~First(le, M, j, i) /\ <<j, i>> \notin le[M + 1])
  <2>1. PICK n \in 1 .. M + 1 :
          /\ \A m \in 1 .. n - 1 : <<i, j>> \in le[m] /\ <<j, i>> \in le[m]
          /\ <<j, i>> \notin le[n]
    BY <1>3 DEF First
  <2>2. CASE n \in 1 .. M  BY <2>1, <2>2 DEF First
  <2>3. CASE n = M + 1
    <3>1. \A m \in 1 .. M : <<i, j>> \in le[m]  BY <2>1, <2>3
    <3>2. ~First(le, M, j, i)  BY <3>1 DEF First
    <3> QED  BY <2>1, <2>3, <3>2
  <2> QED  BY <1>1, <2>2, <2>3
<1>4. ASSUME First(le, M, i, j) PROVE First(le, M + 1, i, j)
  <2>1. \A n \in 1 .. M : n \in 1 .. M + 1  OBVIOUS
  <2> QED  BY <1>4, <2>1 DEF First
<1>5. ASSUME ~First(le, M, i, j), ~First(le, M, j, i), <<j, i>> \notin le[M + 1]
      PROVE  First(le, M + 1, i, j)
  <2>1. \A n \in 1 .. M : <<i, j>> \in le[n] /\ <<j, i>> \in le[n]
    BY <1>2, <1>5, FirstTotal
  <2>2. M + 1 \in 1 .. M + 1 /\ (M + 1) - 1 = M  OBVIOUS
  <2> QED  BY <1>5, <2>1, <2>2 DEF First
<1> QED  BY <1>3, <1>4, <1>5

\* The places come in the order that all the orders make.
LEMMA GoesOrders ==
  ASSUME NEW X, SortState(X)
  PROVE  /\ \A i \in 1 .. Len(rows) : ~Goes(rows, i, i)
         /\ \A i, j, k \in 1 .. Len(rows) : Goes(rows, i, j) /\ Goes(rows, j, k) => Goes(rows, i, k)
         /\ \A i, j \in 1 .. Len(rows) : Goes(rows, i, j) \/ Goes(rows, j, i) \/ i = j
<1> DEFINE D == 1 .. Len(rows)
           M == Len(query.orderBy) + 1
           le == Orders(rows)
<1>1. M \in Nat /\ M \in 1 .. M /\ \A i \in D : i \in Nat  BY SortFacts
<1>2. \A n \in 1 .. M : TotalPreorder(D, le[n])  BY OrdersTotal
<1>3. \A i, j \in D : <<i, j>> \in le[M] => i <= j
  <2>1. \A i, j \in D : <<i, j>> \in le[M] <=> OrderedBy(rows, M, i, j)
    BY <1>1, OrdersHave
  <2>2. M > Len(query.orderBy)  BY SortFacts
  <2> QED  BY <2>1, <2>2 DEF OrderedBy
<1> HIDE DEF M, le, D
<1>4. \A i \in D : ~First(le, M, i, i)  BY <1>1, <1>2, FirstTotal
<1>5. \A i, j, k \in D : First(le, M, i, j) /\ First(le, M, j, k) => First(le, M, i, k)
  BY <1>1, <1>2, FirstTransitive
<1>6. ASSUME NEW i \in D, NEW j \in D PROVE First(le, M, i, j) \/ First(le, M, j, i) \/ i = j
  <2>1. First(le, M, i, j) \/ First(le, M, j, i)
          \/ \A n \in 1 .. M : <<i, j>> \in le[n] /\ <<j, i>> \in le[n]
    BY <1>1, <1>2, FirstTotal
  <2>2. ASSUME \A n \in 1 .. M : <<i, j>> \in le[n] /\ <<j, i>> \in le[n] PROVE i = j
    <3>1. i <= j /\ j <= i  BY <1>1, <1>3, <2>2
    <3> QED  BY <1>1, <3>1
  <2> QED  BY <2>1, <2>2
<1> QED  BY <1>4, <1>5, <1>6 DEF Goes, M, le, D

\* The stable sort puts the rows in it.
LEMMA SortGoes ==
  ASSUME NEW X, SortState(X), NEW i \in 1 .. Len(rows), NEW j \in 1 .. Len(rows)
  PROVE  Goes(rows, i, j) <=>
           \/ Less(query.orderBy, rows[i], rows[j])
           \/ i < j /\ ~Less(query.orderBy, rows[j], rows[i])
<1> DEFINE D == 1 .. Len(rows)
           M == Len(query.orderBy)
           le == Orders(rows)
<1>1. M \in Nat /\ i \in Nat /\ j \in Nat  BY SortFacts
<1>2. \A n \in 1 .. M + 1 : TotalPreorder(D, le[n])  BY OrdersTotal
<1>3. <<j, i>> \notin le[M + 1] <=> i < j
  <2>1. M + 1 \in 1 .. M + 1 /\ M + 1 > M  BY <1>1
  <2>2. <<j, i>> \in le[M + 1] <=> OrderedBy(rows, M + 1, j, i)  BY <2>1, OrdersHave
  <2>3. OrderedBy(rows, M + 1, j, i) <=> j <= i  BY <2>1 DEF OrderedBy
  <2> QED  BY <1>1, <2>2, <2>3
<1>4. /\ Less(query.orderBy, rows[i], rows[j]) <=> First(le, M, i, j)
      /\ Less(query.orderBy, rows[j], rows[i]) <=> First(le, M, j, i)
  BY LessFirst
<1>5. i \in D /\ j \in D  OBVIOUS
<1> HIDE DEF M, le, D
<1>6. First(le, M + 1, i, j) <=>
        First(le, M, i, j) \/ (~First(le, M, j, i) /\ <<j, i>> \notin le[M + 1])
  BY <1>1, <1>2, <1>5, FirstAtLast
<1>7. Goes(rows, i, j) <=> First(le, M + 1, i, j)  BY DEF Goes, M, le
<1> QED  BY <1>3, <1>4, <1>6, <1>7

\* So does ORDER BY, as it is meant.
LEMMA OrderGoes ==
  ASSUME NEW X, SortState(X), NEW i \in 1 .. Len(rows), NEW j \in 1 .. Len(rows)
  PROVE  Goes(rows, i, j) <=> Precedes(tables, query, X[i], X[j])
<1> DEFINE D == 1 .. Len(rows)
           M == Len(query.orderBy)
           le == Orders(rows)
           v(k, n) == Key(rows[k], n)
<1>1. /\ M \in Nat /\ i \in Nat /\ j \in Nat /\ DOMAIN query.orderBy = 1 .. M
      /\ \A n \in 1 .. M : /\ Meant(tables, query, X[i])[query.orderBy[n].column] = v(i, n)
                           /\ Meant(tables, query, X[j])[query.orderBy[n].column] = v(j, n)
  BY SortFacts
<1>2. \A n \in 1 .. M + 1 : TotalPreorder(D, le[n])  BY OrdersTotal
<1>3. \A n \in 1 .. M : \A a, b \in D :
        <<a, b>> \in le[n] <=>
          IF query.orderBy[n].desc THEN AtMost(v(b, n), v(a, n)) ELSE AtMost(v(a, n), v(b, n))
  <2> SUFFICES ASSUME NEW n \in 1 .. M, NEW a \in D, NEW b \in D
               PROVE  <<a, b>> \in le[n] <=>
                        IF query.orderBy[n].desc THEN AtMost(v(b, n), v(a, n)) ELSE AtMost(v(a, n), v(b, n))
    OBVIOUS
  <2>1. n \in 1 .. M + 1 /\ ~(n > M)  BY <1>1
  <2>2. <<a, b>> \in le[n] <=> OrderedBy(rows, n, a, b)  BY <2>1, OrdersHave
  <2> QED  BY <2>1, <2>2 DEF OrderedBy
<1>4. i \in D /\ j \in D  OBVIOUS
<1>5. <<j, i>> \notin le[M + 1] <=> LexLess(X[i], X[j])
  <2>1. M + 1 \in 1 .. M + 1 /\ M + 1 > M  BY <1>1
  <2>2. <<j, i>> \in le[M + 1] <=> OrderedBy(rows, M + 1, j, i)  BY <2>1, OrdersHave
  <2>3. OrderedBy(rows, M + 1, j, i) <=> j <= i  BY <2>1 DEF OrderedBy
  <2>4. LexLess(X[i], X[j]) <=> i < j
    <3>1. \A a, b \in 1 .. Len(X) : a < b => LexLess(X[a], X[b])  BY DEF SortState, Listing
    <3>2. i \in 1 .. Len(X) /\ j \in 1 .. Len(X)  BY SortFacts
    <3>3. X[i] \in Seq(Int) /\ X[j] \in Seq(Int)
      <4>1. X[i] \in Seq(Nat) /\ X[j] \in Seq(Nat)  BY SortFacts, FullFacts DEF SortState
      <4>2. Nat \subseteq Int  OBVIOUS
      <4> QED  BY <4>1, <4>2, SeqMonotonic
    <3>4. CASE i < j  BY <3>1, <3>2, <3>4
    <3>5. CASE j < i
      <4>1. LexLess(X[j], X[i])  BY <3>1, <3>2, <3>5
      <4>2. ~LexLess(X[i], X[j])  BY <3>3, <4>1, LexAsymmetric
      <4> QED  BY <1>1, <3>5, <4>2
    <3>6. CASE i = j
      <4>1. ~LexLess(X[i], X[j])  BY <3>3, <3>6, LexAsymmetric
      <4> QED  BY <1>1, <3>6, <4>1
    <3> QED  BY <1>1, <3>4, <3>5, <3>6
  <2> QED  BY <1>1, <2>2, <2>3, <2>4
<1>6. Precedes(tables, query, X[i], X[j]) <=>
        IF \A n \in 1 .. M : Same(v(i, n), v(j, n)) THEN LexLess(X[i], X[j])
        ELSE \E n \in 1 .. M :
               /\ ~Same(v(i, n), v(j, n)) /\ \A m \in 1 .. n - 1 : Same(v(i, m), v(j, m))
               /\ IF query.orderBy[n].desc THEN AtMost(v(j, n), v(i, n)) ELSE AtMost(v(i, n), v(j, n))
  <2>1. \A n \in 1 .. M : \A m \in 1 .. n - 1 : m \in 1 .. M  BY <1>1
  <2> DEFINE a(n) == Meant(tables, query, X[i])[query.orderBy[n].column]
             b(n) == Meant(tables, query, X[j])[query.orderBy[n].column]
  <2>2. Precedes(tables, query, X[i], X[j]) <=>
          IF \A n \in DOMAIN query.orderBy : Same(a(n), b(n)) THEN LexLess(X[i], X[j])
          ELSE \E n \in DOMAIN query.orderBy :
                 /\ ~Same(a(n), b(n)) /\ \A m \in 1 .. n - 1 : Same(a(m), b(m))
                 /\ IF query.orderBy[n].desc THEN AtMost(b(n), a(n)) ELSE AtMost(a(n), b(n))
    BY DEF Precedes
  <2>3. \A n \in 1 .. M : a(n) = v(i, n) /\ b(n) = v(j, n)  BY <1>1
  <2>4. DOMAIN query.orderBy = 1 .. M  BY <1>1
  <2> HIDE DEF v, M, a, b
  <2> QED  BY <2>1, <2>2, <2>3, <2>4
<1>7. ASSUME NEW n \in 1 .. M
      PROVE  /\ Same(v(i, n), v(j, n)) <=> <<i, j>> \in le[n] /\ <<j, i>> \in le[n]
             /\ <<i, j>> \in le[n] \/ <<j, i>> \in le[n]
             /\ <<i, j>> \in le[n] <=>
                  IF query.orderBy[n].desc THEN AtMost(v(j, n), v(i, n)) ELSE AtMost(v(i, n), v(j, n))
  <2>1. TotalPreorder(D, le[n])  BY <1>1, <1>2
  <2> HIDE DEF v, le, D, M
  <2>2. <<i, j>> \in le[n] \/ <<j, i>> \in le[n]  BY <1>4, <2>1 DEF TotalPreorder
  <2> QED  BY <1>3, <1>4, <2>2 DEF Same
<1> HIDE DEF v, le, M, D
<1>8. CASE \A n \in 1 .. M : Same(v(i, n), v(j, n))
  <2>1. ~First(le, M, i, j) /\ ~First(le, M, j, i)  BY <1>7, <1>8 DEF First
  <2>2. First(le, M + 1, i, j) <=> <<j, i>> \notin le[M + 1]
    BY <1>1, <1>2, <1>4, <2>1, FirstAtLast
  <2> QED  BY <1>5, <1>6, <1>8, <2>2 DEF Goes, le, M
<1>9. CASE ~\A n \in 1 .. M : Same(v(i, n), v(j, n))
  <2>1. \A n \in 1 .. M : \A m \in 1 .. n - 1 : m \in 1 .. M  BY <1>1
  <2>2. First(le, M, i, j) <=> Precedes(tables, query, X[i], X[j])
    <3>1. First(le, M, i, j) <=>
            \E n \in 1 .. M :
               /\ ~Same(v(i, n), v(j, n)) /\ \A m \in 1 .. n - 1 : Same(v(i, m), v(j, m))
               /\ IF query.orderBy[n].desc THEN AtMost(v(j, n), v(i, n)) ELSE AtMost(v(i, n), v(j, n))
      BY <1>7, <2>1 DEF First
    <3> QED  BY <1>6, <1>9, <3>1
  <2>3. First(le, M, i, j) \/ First(le, M, j, i)
    <3>1. \A n \in 1 .. M : TotalPreorder(D, le[n])  BY <1>1, <1>2
    <3>2. First(le, M, i, j) \/ First(le, M, j, i)
            \/ \A n \in 1 .. M : <<i, j>> \in le[n] /\ <<j, i>> \in le[n]
      BY <1>1, <1>4, <3>1, FirstTotal
    <3> QED  BY <1>7, <1>9, <3>2
  <2>4. First(le, M + 1, i, j) <=>
          First(le, M, i, j) \/ (~First(le, M, j, i) /\ <<j, i>> \notin le[M + 1])
    BY <1>1, <1>2, <1>4, FirstAtLast
  <2> QED  BY <2>2, <2>3, <2>4 DEF Goes, le, M
<1> QED  BY <1>8, <1>9

\* The places that come before i, and what is selected before x.
PlacesBefore(i) == {j \in 1 .. Len(rows) : Goes(rows, j, i)}
SelectedBefore(x) == {y \in Selected : Precedes(tables, query, y, x)}

\* They are as many, and the places have the numbers from 0 on.
LEMMA RankMeans ==
  ASSUME NEW X, SortState(X)
  PROVE  /\ Cardinality(Selected) = Len(rows)
         /\ \A i \in 1 .. Len(rows) :
              /\ Cardinality(PlacesBefore(i)) \in Nat
              /\ Cardinality(SelectedBefore(X[i])) = Cardinality(PlacesBefore(i))
         /\ \A i, j \in 1 .. Len(rows) :
              Cardinality(PlacesBefore(i)) = Cardinality(PlacesBefore(j)) => i = j
         /\ \A n \in 1 .. Len(rows) : \E i \in 1 .. Len(rows) : Cardinality(PlacesBefore(i)) = n - 1
<1> DEFINE D == 1 .. Len(rows)
<1>1. /\ Len(rows) \in Nat /\ Len(X) = Len(rows) /\ IsFiniteSet(D) /\ Cardinality(D) = Len(rows)
      /\ \A i \in D : X[i] \in Selected
      /\ \A x \in Selected : \E i \in D : X[i] = x
  <2>1. Len(rows) \in Nat /\ Len(X) = Len(rows) /\ \A i \in D : X[i] \in Selected
    BY SortFacts
  <2>2. \A x \in Selected : \E i \in D : X[i] = x  BY <2>1 DEF SortState, Listing
  <2> QED  BY <2>1, <2>2, NumbersSize
<1>2. /\ \A i \in D : ~Goes(rows, i, i)
      /\ \A i, j, k \in D : Goes(rows, i, j) /\ Goes(rows, j, k) => Goes(rows, i, k)
      /\ \A i, j \in D : Goes(rows, i, j) \/ Goes(rows, j, i) \/ i = j
  BY GoesOrders
<1>3. \A i, j \in D : Goes(rows, i, j) <=> Precedes(tables, query, X[i], X[j])
  BY OrderGoes
<1>4. \A i, j \in D : X[i] = X[j] => i = j
  BY <1>2, <1>3
<1>5. Cardinality(Selected) = Len(rows)
  <2> HIDE DEF D
  <2>1. Cardinality(Selected) = Cardinality(D)  BY <1>1, <1>4, SameSize
  <2> QED  BY <1>1, <2>1
<1>6. ASSUME NEW i \in D
      PROVE  /\ Cardinality(PlacesBefore(i)) \in Nat
             /\ Cardinality(SelectedBefore(X[i])) = Cardinality(PlacesBefore(i))
  <2> DEFINE A == PlacesBefore(i)
             B == SelectedBefore(X[i])
  <2>1. /\ A \in SUBSET D
        /\ \A j \in A : X[j] \in B
        /\ \A y \in B : \E j \in A : X[j] = y
    BY <1>1, <1>3 DEF PlacesBefore, SelectedBefore
  <2> HIDE DEF A, B, D
  <2>2. IsFiniteSet(A)  BY <1>1, <2>1, FS_Subset
  <2>3. \A j, k \in A : X[j] = X[k] => j = k  BY <1>4, <2>1
  <2>4. Cardinality(B) = Cardinality(A)  BY <2>1, <2>2, <2>3, SameSize
  <2>5. Cardinality(A) \in Nat  BY <2>2, FS_CardinalityType
  <2> QED  BY <2>4, <2>5 DEF A, B
<1> DEFINE R == {p \in D \X D : Goes(rows, p[1], p[2])}
<1>7. \A i, j \in D : <<i, j>> \in R <=> Goes(rows, i, j)  OBVIOUS
<1>8. \A i \in D : Before(D, R, i) = PlacesBefore(i)
  BY <1>7 DEF Before, PlacesBefore
<1> HIDE DEF D, R
<1>9. /\ \A i, j \in D : Cardinality(Before(D, R, i)) = Cardinality(Before(D, R, j)) => i = j
      /\ \A n \in 1 .. Cardinality(D) : \E i \in D : Cardinality(Before(D, R, i)) = n - 1
  <2>1. StrictOrder(D, R)  BY <1>2, <1>7 DEF StrictOrder
  <2> QED  BY <1>1, <2>1, RanksAreNumbers
<1>10. /\ \A i, j \in D : Cardinality(PlacesBefore(i)) = Cardinality(PlacesBefore(j)) => i = j
       /\ \A n \in 1 .. Len(rows) : \E i \in D : Cardinality(PlacesBefore(i)) = n - 1
  BY <1>1, <1>8, <1>9
<1> QED  BY <1>5, <1>6, <1>10 DEF D

\* The n-th row of the sort shows the n-th combination of the meaning.
LEMMA SortedMeans ==
  ASSUME NEW X, SortState(X), NEW n \in 1 .. Len(rows)
  PROVE  \E i \in 1 .. Len(rows) :
           /\ Sorted(query.orderBy, rows)[n] = rows[i]
           /\ (CHOOSE x \in Selected : Cardinality(SelectedBefore(x)) + 1 = n) = X[i]
<1> DEFINE D == 1 .. Len(rows)
<1>1. PICK i \in D : Cardinality(PlacesBefore(i)) = n - 1  BY RankMeans
<1>2. /\ Len(rows) \in Nat /\ DOMAIN rows = D /\ n \in Nat
      /\ \A j \in D : X[j] \in Selected
      /\ \A x \in Selected : \E j \in D : X[j] = x
  <2>1. Len(rows) \in Nat /\ DOMAIN rows = D /\ Len(X) = Len(rows) /\ \A j \in D : X[j] \in Selected
    BY SortFacts
  <2>2. \A x \in Selected : \E j \in D : X[j] = x  BY <2>1 DEF SortState, Listing
  <2> QED  BY <2>1, <2>2
<1>3. Sorted(query.orderBy, rows)[n] = rows[i]
  <2> DEFINE before(a, b) == \/ Less(query.orderBy, rows[a], rows[b])
                             \/ a < b /\ ~Less(query.orderBy, rows[b], rows[a])
             chosen == CHOOSE a \in DOMAIN rows :
                         Cardinality({b \in DOMAIN rows : before(b, a)}) = n - 1
  <2>1. \A a \in D : {b \in DOMAIN rows : before(b, a)} = PlacesBefore(a)
    BY <1>2, SortGoes DEF PlacesBefore
  <2>2. Sorted(query.orderBy, rows)[n] = rows[chosen]  BY <1>2 DEF Sorted
  <2> HIDE DEF before
  <2>3. chosen \in D /\ Cardinality({b \in DOMAIN rows : before(b, chosen)}) = n - 1
    BY <1>1, <1>2, <2>1
  <2> HIDE DEF chosen
  <2>4. Cardinality(PlacesBefore(chosen)) = Cardinality(PlacesBefore(i))  BY <1>1, <2>1, <2>3
  <2>5. chosen = i  BY <2>3, <2>4, RankMeans
  <2> QED  BY <2>2, <2>5
<1>4. (CHOOSE x \in Selected : Cardinality(SelectedBefore(x)) + 1 = n) = X[i]
  <2> DEFINE chosen == CHOOSE x \in Selected : Cardinality(SelectedBefore(x)) + 1 = n
  <2>1. \A j \in D : /\ Cardinality(SelectedBefore(X[j])) = Cardinality(PlacesBefore(j))
                     /\ Cardinality(PlacesBefore(j)) \in Nat
    BY RankMeans
  <2>2. X[i] \in Selected /\ Cardinality(SelectedBefore(X[i])) + 1 = n  BY <1>1, <1>2, <2>1
  <2>3. chosen \in Selected /\ Cardinality(SelectedBefore(chosen)) + 1 = n  BY <2>2
  <2> HIDE DEF chosen
  <2>4. PICK j \in D : X[j] = chosen  BY <1>2, <2>3
  <2>5. Cardinality(PlacesBefore(j)) = n - 1  BY <1>2, <2>1, <2>3, <2>4
  <2>6. j = i  BY <1>1, <2>5, RankMeans
  <2> QED  BY <2>4, <2>6 DEF chosen
<1> QED  BY <1>3, <1>4

----------------------------------------------------------------------------
\* The columns

\* A combination of all tables takes a row of each.
LEMMA ScopeOfFull ==
  ASSUME ClearSelect, NEW r, NEW x, Full(r, x)
  PROVE  /\ Len(x) \in Nat /\ Len(x) = Len(Scope(query)) /\ Len(x) = Len(query.joins) + 1
         /\ DOMAIN Scope(query) = 1 .. Len(x) /\ Len(x) > 0
         /\ ScopeFits(tables, Scope(query)) /\ Takes(tables, Scope(query), x)
         /\ \A m \in 1 .. Len(x) : \A c \in ColumnSet(Scope(query)[m]) :
              ~Shared(query, c) =>
                \A k \in 1 .. Len(x) : k # m => c \notin ColumnSet(Scope(query)[k])
<1>1. /\ Len(query.joins) \in Nat /\ ScopeFits(tables, Scope(query))
      /\ Len(Scope(query)) = Len(query.joins) + 1
      /\ DOMAIN Scope(query) = 1 .. Len(query.joins) + 1
  BY SelectFacts
<1>2. Len(x) = Len(Scope(query)) /\ Takes(tables, Scope(query), x)  BY FullFacts
<1>3. \A m \in 1 .. Len(x) : \A c \in ColumnSet(Scope(query)[m]) :
        ~Shared(query, c) =>
          \A k \in 1 .. Len(x) : k # m => c \notin ColumnSet(Scope(query)[k])
  BY <1>1, <1>2, NotShared
<1> QED  BY <1>1, <1>2, <1>3

\* A column that no other table has is under its name in the row.
LEMMA PlainMeans ==
  ASSUME ClearSelect, NEW r, NEW x, Full(r, x),
         NEW m \in 1 .. Len(x), NEW c \in ColumnSet(Scope(query)[m]), ~Shared(query, c)
  PROVE  /\ Cell(r, c) = Meant(tables, query, x)[c]
         /\ Cell(r, c) = Meant(tables, query, x)[Dotted(Scope(query)[m], c)]
<1>1. \A k \in 1 .. Len(x) : k # m => c \notin ColumnSet(Scope(query)[k])
  BY ScopeOfFull
<1>2. ScopeFits(tables, Scope(query)) /\ Takes(tables, Scope(query), x)  BY ScopeOfFull
<1>3. /\ Meant(tables, query, x)[c] = Cell(Row(tables, Scope(query)[m], x[m]), c)
      /\ Meant(tables, query, x)[Dotted(Scope(query)[m], c)]
           = Cell(Row(tables, Scope(query)[m], x[m]), c)
  BY <1>1, <1>2, NamesMean DEF ClearSelect
<1>4. Cell(r, c) = Cell(Row(tables, Scope(query)[m], x[m]), c)
  BY <1>1 DEF Full, Shows, PlainShown
<1> QED  BY <1>3, <1>4

\* Any column is under its table's name and its own, but for one of the first
\* table that a table between has too.
LEMMA DottedMeans ==
  ASSUME ClearSelect, NEW r, NEW x, Full(r, x), Len(x) > 1,
         NEW m \in 1 .. Len(x), NEW c \in ColumnSet(Scope(query)[m]),
         m = 1 => \A k \in 2 .. Len(x) - 1 : c \notin ColumnSet(Scope(query)[k])
  PROVE  Cell(r, Dotted(Scope(query)[m], c)) = Meant(tables, query, x)[Dotted(Scope(query)[m], c)]
<1>1. ScopeFits(tables, Scope(query)) /\ Takes(tables, Scope(query), x)  BY ScopeOfFull
<1>2. Meant(tables, query, x)[Dotted(Scope(query)[m], c)]
        = Cell(Row(tables, Scope(query)[m], x[m]), c)
  BY <1>1, NamesMean DEF ClearSelect
<1>3. Cell(r, Dotted(Scope(query)[m], c)) = Cell(Row(tables, Scope(query)[m], x[m]), c)
  BY DEF Full, Shows, DottedShown
<1> QED  BY <1>2, <1>3

\* The names that are looked up in a row, and what they mean.
Names(n, c) == IF n = 1 THEN c ELSE Dotted(Scope(query)[n], c)

StarPairs == {p \in (DOMAIN Scope(query)) \X UNION {ColumnSet(Scope(query)[n]) : n \in DOMAIN Scope(query)} :
                p[2] \in ColumnSet(Scope(query)[p[1]])}

Star == \E n \in DOMAIN query.columns : IsStar(query.columns[n])

\* With "*" they are of the same columns in the same order.
LEMMA StarColumns ==
  ASSUME ClearSelect, Star
  PROVE  \E s : /\ s \in Seq(StarPairs)
                /\ DOMAIN OutputColumns(query) = 1 .. Len(s) /\ DOMAIN Shown(query) = 1 .. Len(s)
                /\ \A i \in 1 .. Len(s) :
                     /\ OutputColumns(query)[i] = Names(s[i][1], s[i][2])
                     /\ Shown(query)[i] = Dotted(Scope(query)[s[i][1]], s[i][2])
<1> DEFINE T == Scope(query)
           L == Len(query.joins) + 1
           cols(n) == ColumnsOf[T[n]]
           S == StarPairs
           f == [p \in S |-> Names(p[1], p[2])]
           g == [p \in S |-> Dotted(T[p[1]], p[2])]
           a == [n \in 1 .. L |-> [i \in 1 .. Len(cols(n)) |-> <<n, cols(n)[i]>>]]
           b == [n \in 1 .. L |-> [i \in 1 .. Len(cols(n)) |-> Names(n, cols(n)[i])]]
           d == [n \in 1 .. L |-> [i \in 1 .. Len(cols(n)) |-> Dotted(T[n], cols(n)[i])]]
           F == {f[p] : p \in S}
           G == {g[p] : p \in S}
<1>1. /\ L \in Nat \ {0} /\ DOMAIN T = 1 .. L
      /\ \A n \in 1 .. L : /\ Len(cols(n)) \in Nat /\ DOMAIN cols(n) = 1 .. Len(cols(n))
                           /\ ColumnSet(T[n]) = {cols(n)[i] : i \in 1 .. Len(cols(n))}
  <2>1. Len(query.joins) \in Nat /\ DOMAIN T = 1 .. L  BY SelectFacts
  <2>2. ASSUME NEW n \in 1 .. L
        PROVE  /\ Len(cols(n)) \in Nat /\ DOMAIN cols(n) = 1 .. Len(cols(n))
               /\ ColumnSet(T[n]) = {cols(n)[i] : i \in 1 .. Len(cols(n))}
    <3>1. T[n] \in DOMAIN tables  BY ScopeFacts DEF ClearSelect
    <3>2. T[n] \in DOMAIN ColumnsOf  BY <3>1, DatabasesAssumption DEF ClearSelect
    <3>3. cols(n) \in Seq(Range(cols(n)))  BY <3>2, NamesAssumption DEF IsList
    <3>4. Len(cols(n)) \in Nat /\ DOMAIN cols(n) = 1 .. Len(cols(n))
      <4> HIDE DEF cols
      <4> QED  BY <3>3, LenProperties
    <3> QED  BY <3>4 DEF ColumnSet
  <2>3. L \in Nat \ {0} /\ DOMAIN T = 1 .. L  BY <2>1
  <2> HIDE DEF T, cols, L
  <2> QED  BY <2>2, <2>3
<1>2. \A n \in 1 .. L : \A i \in 1 .. Len(cols(n)) : <<n, cols(n)[i]>> \in S
  BY <1>1 DEF StarPairs
<1> HIDE DEF S, T, L, cols
<1>3. f \in [S -> F] /\ g \in [S -> G]  OBVIOUS
<1>4. /\ \A n \in 1 .. L : \A i \in 1 .. Len(cols(n)) :
           /\ f[<<n, cols(n)[i]>>] = Names(n, cols(n)[i])
           /\ g[<<n, cols(n)[i]>>] = Dotted(T[n], cols(n)[i])
      /\ \A p \in S : f[p] = Names(p[1], p[2]) /\ g[p] = Dotted(T[p[1]], p[2])
  BY <1>2
<1>5. /\ \A n \in 1 .. L : \A i \in 1 .. Len(cols(n)) :
           Names(n, cols(n)[i]) \in F /\ Dotted(T[n], cols(n)[i]) \in G
  BY <1>2, <1>4
<1> HIDE DEF f, g, F, G
<1>6. ASSUME NEW n \in 1 .. L
      PROVE  /\ a[n] \in Seq(S) /\ b[n] \in Seq(F) /\ d[n] \in Seq(G)
             /\ Mapped(f, a[n], b[n]) /\ Mapped(g, a[n], d[n])
  <2> DEFINE k == Len(cols(n))
  <2>1. /\ a[n] \in [1 .. k -> S] /\ b[n] \in [1 .. k -> F] /\ d[n] \in [1 .. k -> G]
        /\ k \in Nat
    BY <1>1, <1>2, <1>5
  <2>2. \A i \in 1 .. k : /\ a[n][i] = <<n, cols(n)[i]>> /\ b[n][i] = Names(n, cols(n)[i])
                          /\ d[n][i] = Dotted(T[n], cols(n)[i])
    OBVIOUS
  <2> HIDE DEF a, b, d, k
  <2>3. /\ a[n] \in Seq(S) /\ b[n] \in Seq(F) /\ d[n] \in Seq(G)
        /\ Len(a[n]) = k /\ Len(b[n]) = k /\ Len(d[n]) = k
    <3>1. \A s, V : s \in [1 .. k -> V] => s \in Seq(V) /\ Len(s) = k
      <4>1. k \in Nat  BY <2>1
      <4> HIDE DEF k
      <4> QED  BY ONLY <4>1
    <3>2. a[n] \in Seq(S) /\ Len(a[n]) = k  BY <2>1, <3>1, Zenon
    <3>3. b[n] \in Seq(F) /\ Len(b[n]) = k  BY <2>1, <3>1, Zenon
    <3>4. d[n] \in Seq(G) /\ Len(d[n]) = k  BY <2>1, <3>1, Zenon
    <3> QED  BY <3>2, <3>3, <3>4
  <2> QED  BY <1>4, <2>2, <2>3 DEF Mapped, k
<1>7. a \in [1 .. L -> Seq(S)] /\ b \in [1 .. L -> Seq(F)] /\ d \in [1 .. L -> Seq(G)]
  <2>1. DOMAIN a = 1 .. L /\ DOMAIN b = 1 .. L /\ DOMAIN d = 1 .. L
        /\ a = [n \in 1 .. L |-> a[n]] /\ b = [n \in 1 .. L |-> b[n]] /\ d = [n \in 1 .. L |-> d[n]]
    OBVIOUS
  <2> HIDE DEF a, b, d
  <2> QED  BY <1>6, <2>1
<1>8. OutputColumns(query) = FlattenSeq(b)
  <2>1. OutputColumns(query) =
          FlattenSeq([n \in DOMAIN T |->
            [i \in DOMAIN ColumnsOf[T[n]] |->
               IF n = 1 THEN ColumnsOf[T[n]][i] ELSE Dotted(T[n], ColumnsOf[T[n]][i])]])
    BY DEF OutputColumns, Star, T
  <2>2. b = [n \in DOMAIN T |->
              [i \in DOMAIN ColumnsOf[T[n]] |->
                 IF n = 1 THEN ColumnsOf[T[n]][i] ELSE Dotted(T[n], ColumnsOf[T[n]][i])]]
    BY <1>1 DEF Names, cols, T
  <2> QED  BY <2>1, <2>2
<1>9. Shown(query) = FlattenSeq(d)
  <2>1. Shown(query) =
          FlattenSeq([n \in DOMAIN T |->
            [i \in DOMAIN ColumnsOf[T[n]] |-> Dotted(T[n], ColumnsOf[T[n]][i])]])
    BY DEF Shown, Star, IsStar, T
  <2>2. d = [n \in DOMAIN T |->
              [i \in DOMAIN ColumnsOf[T[n]] |-> Dotted(T[n], ColumnsOf[T[n]][i])]]
    BY <1>1 DEF cols
  <2> QED  BY <2>1, <2>2
<1> HIDE DEF a, b, d
<1>10. /\ FlattenSeq(a) \in Seq(S) /\ FlattenSeq(b) \in Seq(F) /\ FlattenSeq(d) \in Seq(G)
       /\ Mapped(f, FlattenSeq(a), FlattenSeq(b)) /\ Mapped(g, FlattenSeq(a), FlattenSeq(d))
  <2>1. /\ FlattenSeq(a) \in Seq(S) /\ FlattenSeq(b) \in Seq(F)
        /\ Mapped(f, FlattenSeq(a), FlattenSeq(b))
    BY <1>1, <1>3, <1>6, <1>7, FlattenMapped
  <2>2. FlattenSeq(d) \in Seq(G) /\ Mapped(g, FlattenSeq(a), FlattenSeq(d))
    BY <1>1, <1>3, <1>6, <1>7, FlattenMapped
  <2> QED  BY <2>1, <2>2
<1> DEFINE s == FlattenSeq(a)
           u == FlattenSeq(b)
           v == FlattenSeq(d)
<1> HIDE DEF s, u, v
<1>11. /\ s \in Seq(S) /\ u \in Seq(F) /\ v \in Seq(G)
       /\ Mapped(f, s, u) /\ Mapped(g, s, v)
       /\ OutputColumns(query) = u /\ Shown(query) = v
  BY <1>8, <1>9, <1>10 DEF s, u, v
<1>12. /\ DOMAIN u = 1 .. Len(s) /\ DOMAIN v = 1 .. Len(s)
       /\ \A i \in 1 .. Len(s) : s[i] \in S /\ u[i] = f[s[i]] /\ v[i] = g[s[i]]
  BY <1>11, LenProperties DEF Mapped
<1>13. \A i \in 1 .. Len(s) :
         u[i] = Names(s[i][1], s[i][2]) /\ v[i] = Dotted(T[s[i][1]], s[i][2])
  BY <1>4, <1>12
<1> QED  BY <1>11, <1>12, <1>13 DEF S, T

\* Without "*" they are the names of the statement.
LEMMA NamedColumns ==
  ASSUME ClearSelect, ~Star
  PROVE  /\ OutputColumns(query) = Shown(query)
         /\ DOMAIN Shown(query) = 1 .. Len(query.columns)
         /\ \A n \in 1 .. Len(query.columns) :
              LET e == query.columns[n].expr
              IN  /\ ClearRef(tables, query, Len(Scope(query)), e.table, e.name)
                  /\ e.table # <<>> => query.joins # <<>>
                  /\ Shown(query)[n] = IF e.table = <<>> THEN e.name ELSE Dotted(e.table, e.name)
<1> DEFINE C == query.columns
<1>1. DOMAIN C = 1 .. Len(C)  BY QueryFacts DEF ClearSelect
<1>2. \A n \in DOMAIN C : ~IsStar(C[n])  BY DEF Star
<1>3. \A n \in DOMAIN C : ClearColumn(tables, query, C[n])  BY DEF ClearSelect, Clear
<1>4. \A n \in DOMAIN C :
        /\ ClearRef(tables, query, Len(Scope(query)), C[n].expr.table, C[n].expr.name)
        /\ IF C[n].expr.table = <<>> THEN C[n].alias = <<>> ELSE query.joins # <<>>
  BY <1>2, <1>3 DEF ClearColumn, IsStar
<1>5. Shown(query) = [n \in DOMAIN C |-> IF C[n].expr.table = <<>> THEN C[n].expr.name
                                         ELSE Dotted(C[n].expr.table, C[n].expr.name)]
  BY <1>2 DEF Shown, IsStar
<1>6. OutputColumns(query) =
        [n \in DOMAIN C |->
           IF C[n].expr.table # <<>> THEN Dotted(C[n].expr.table, C[n].expr.name)
           ELSE IF C[n].alias # <<>> THEN C[n].alias ELSE C[n].expr.name]
  BY <1>2 DEF OutputColumns
<1> HIDE DEF C
<1>7. OutputColumns(query) = Shown(query)
  <2>1. \A n \in DOMAIN C : C[n].expr.table = <<>> => C[n].alias = <<>>  BY <1>4
  <2> QED  BY <1>5, <1>6, <2>1
<1>8. ASSUME NEW n \in 1 .. Len(C)
      PROVE  /\ ClearRef(tables, query, Len(Scope(query)), C[n].expr.table, C[n].expr.name)
             /\ C[n].expr.table # <<>> => query.joins # <<>>
             /\ Shown(query)[n] = IF C[n].expr.table = <<>> THEN C[n].expr.name
                                  ELSE Dotted(C[n].expr.table, C[n].expr.name)
  BY <1>1, <1>4, <1>5
<1> QED  BY <1>1, <1>5, <1>7, <1>8 DEF C

\* A row that shows a combination is shown as it is meant.
LEMMA CellsMean ==
  ASSUME ClearSelect, NEW r, NEW x, Full(r, x)
  PROVE  Cells(query, r) =
           [i \in DOMAIN Shown(query) |-> Meant(tables, query, x)[Shown(query)[i]]]
<1> DEFINE M == Meant(tables, query, x)
           T == Scope(query)
<1>1. /\ Len(x) \in Nat /\ Len(x) = Len(T) /\ Len(x) = Len(query.joins) + 1
      /\ DOMAIN T = 1 .. Len(x) /\ Len(x) > 0 /\ ScopeFits(tables, T) /\ T[1] = query.table
      /\ Len(query.joins) \in Nat
  BY ScopeOfFull, SelectFacts
<1>2. CASE Star
  <2>1. PICK s : /\ s \in Seq(StarPairs)
                 /\ DOMAIN OutputColumns(query) = 1 .. Len(s) /\ DOMAIN Shown(query) = 1 .. Len(s)
                 /\ \A i \in 1 .. Len(s) :
                      /\ OutputColumns(query)[i] = Names(s[i][1], s[i][2])
                      /\ Shown(query)[i] = Dotted(T[s[i][1]], s[i][2])
    BY <1>2, StarColumns
  <2>2. ASSUME NEW i \in 1 .. Len(s)
        PROVE  Cell(r, OutputColumns(query)[i]) = M[Shown(query)[i]]
    <3> DEFINE n == s[i][1]
               c == s[i][2]
    <3>1. n \in 1 .. Len(x) /\ c \in ColumnSet(T[n])
      <4>1. s[i] \in StarPairs  BY <2>1, LenProperties
      <4> QED  BY <1>1, <4>1 DEF StarPairs
    <3>2. OutputColumns(query)[i] = Names(n, c) /\ Shown(query)[i] = Dotted(T[n], c)  BY <2>1
    <3> HIDE DEF n, c
    <3>3. CASE n = 1
      <4>1. ~Shared(query, c)
        <5>1. PICK k \in DOMAIN query.columns : IsStar(query.columns[k])  BY <1>2 DEF Star
        <5>2. ClearColumn(tables, query, query.columns[k])  BY DEF ClearSelect, Clear
        <5> QED  BY <1>1, <3>1, <3>3, <5>1, <5>2 DEF ClearColumn, IsStar
      <4>2. Cell(r, c) = M[Dotted(T[n], c)]  BY <3>1, <4>1, PlainMeans
      <4> QED  BY <3>2, <3>3, <4>2 DEF Names
    <3>4. CASE n # 1
      <4>1. Len(x) > 1  BY <1>1, <3>1, <3>4
      <4>2. Cell(r, Dotted(T[n], c)) = M[Dotted(T[n], c)]  BY <3>1, <3>4, <4>1, DottedMeans
      <4> QED  BY <3>2, <3>4, <4>2 DEF Names
    <3> QED  BY <3>3, <3>4
  <2> HIDE DEF M
  <2>3. Cells(query, r) = [i \in DOMAIN Shown(query) |-> M[Shown(query)[i]]]
    BY <2>1, <2>2 DEF Cells
  <2> QED  BY <2>3 DEF M
<1>3. CASE ~Star
  <2>1. ASSUME NEW n \in DOMAIN Shown(query)
        PROVE  Cell(r, OutputColumns(query)[n]) = M[Shown(query)[n]]
    <3> DEFINE t == query.columns[n].expr.table
               c == query.columns[n].expr.name
    <3>1. /\ ClearRef(tables, query, Len(T), t, c)
          /\ t # <<>> => query.joins # <<>>
          /\ Shown(query)[n] = IF t = <<>> THEN c ELSE Dotted(t, c)
          /\ OutputColumns(query)[n] = Shown(query)[n]
      BY <1>3, NamedColumns
    <3> HIDE DEF t, c
    <3>2. PICK m \in 1 .. Len(T) :
            /\ c \in ColumnSet(T[m]) /\ t \in {<<>>, T[m]}
            /\ Shared(query, c) => t = T[m] /\ (m = 1 => \A k \in 2 .. Len(T) - 1 : c \notin ColumnSet(T[k]))
      BY <3>1 DEF ClearRef
    <3>3. T[m] # <<>>
      <4>1. T[m] \in DOMAIN tables  BY <1>1, <3>2, ScopeFacts DEF ClearSelect
      <4>2. IsName(T[m])  BY <4>1, DatabasesAssumption, NamesAssumption DEF ClearSelect
      <4> QED  BY <4>2 DEF IsName
    <3>4. CASE t = <<>>
      <4>1. ~Shared(query, c)  BY <3>2, <3>3, <3>4
      <4>2. Cell(r, c) = M[c]  BY <1>1, <3>2, <4>1, PlainMeans
      <4> QED  BY <3>1, <3>4, <4>2
    <3>5. CASE t # <<>>
      <4>1. t = T[m]  BY <3>2, <3>5
      <4>2. Len(x) > 1
        <5>1. Len(query.joins) # 0
          <6>1. query.joins \in Seq(Range(query.joins))  BY DEF ClearSelect, QueryFits, IsList
          <6>2. query.joins # <<>>  BY <3>1, <3>5
          <6> QED  BY <6>1, <6>2, EmptySeq
        <5> QED  BY <1>1, <5>1
      <4>3. m = 1 => \A k \in 2 .. Len(x) - 1 : c \notin ColumnSet(T[k])
        <5>1. CASE Shared(query, c)  BY <1>1, <3>2, <5>1
        <5>2. CASE ~Shared(query, c)
          <6>1. \A k \in 1 .. Len(x) : k # m => c \notin ColumnSet(T[k])
            BY <1>1, <3>2, <5>2, ScopeOfFull
          <6>2. \A k \in 2 .. Len(x) - 1 : k \in 1 .. Len(x) /\ k # 1  BY <1>1
          <6> QED  BY <6>1, <6>2
        <5> QED  BY <5>1, <5>2
      <4>4. Cell(r, Dotted(T[m], c)) = M[Dotted(T[m], c)]
        <5>1. m \in 1 .. Len(x) /\ c \in ColumnSet(T[m])  BY <1>1, <3>2
        <5> QED  BY <4>2, <4>3, <5>1, DottedMeans
      <4> QED  BY <3>1, <3>5, <4>1, <4>4
    <3> QED  BY <3>4, <3>5
  <2>2. OutputColumns(query) = Shown(query)  BY <1>3, NamedColumns
  <2> HIDE DEF M
  <2>3. Cells(query, r) = [i \in DOMAIN Shown(query) |-> M[Shown(query)[i]]]
    BY <2>1, <2>2 DEF Cells
  <2> QED  BY <2>3 DEF M
<1> QED  BY <1>2, <1>3

----------------------------------------------------------------------------
\* The answer

\* The rows of the meaning, one by one.
MeantRow(n) ==
  LET x == CHOOSE x \in Selected : Cardinality(SelectedBefore(x)) + 1 = n
  IN  [i \in DOMAIN Shown(query) |-> Meant(tables, query, x)[Shown(query)[i]]]

MeantSize ==
  IF query.limit \in 0 .. Cardinality(Selected) THEN query.limit ELSE Cardinality(Selected)

\* LIMIT takes as many rows as it should, and they are the first of the sort.
LEMMA LimitMeans ==
  ASSUME NEW X, SortState(X)
  PROVE  LET shown == Limited(query.limit, Sorted(query.orderBy, rows))
         IN  /\ DOMAIN shown = 1 .. MeantSize
             /\ \A n \in 1 .. MeantSize :
                  n \in 1 .. Len(rows) /\ shown[n] = Sorted(query.orderBy, rows)[n]
<1> DEFINE N == Len(rows)
           s == Sorted(query.orderBy, rows)
           z == query.limit
<1>1. N \in Nat /\ DOMAIN rows = 1 .. N /\ Cardinality(Selected) = N /\ z \in Int
  BY SortFacts, RankMeans DEF SortState, ClearSelect, QueryFits
<1>2. s = [n \in 1 .. N |-> s[n]]  BY <1>1 DEF Sorted
<1> HIDE DEF s, N, z
<1>3. s \in Seq(Range(s)) /\ Len(s) = N /\ DOMAIN s = 1 .. N
  <2>1. DOMAIN s = 1 .. N  BY <1>2
  <2>2. \A n \in 1 .. N : s[n] \in Range(s)  BY <2>1 DEF Range
  <2>3. s \in [1 .. N -> Range(s)]  BY <1>2, <2>2
  <2> QED  BY <1>1, <2>1, <2>3
<1>4. CASE z \in 0 .. N /\ z < N
  <2>1. Limited(z, s) = SubSeq(s, 1, z)  BY <1>1, <1>3, <1>4 DEF Limited
  <2>2. DOMAIN SubSeq(s, 1, z) = 1 .. z /\ \A n \in 1 .. z : SubSeq(s, 1, z)[n] = s[n]
    BY <1>1, <1>3, <1>4
  <2>3. MeantSize = z  BY <1>1, <1>4 DEF MeantSize, z
  <2>4. \A n \in 1 .. z : n \in 1 .. N  BY <1>1, <1>4
  <2> QED  BY <2>1, <2>2, <2>3, <2>4 DEF s, N, z
<1>5. CASE ~(z \in 0 .. N /\ z < N)
  <2>1. ~(z >= 0 /\ z < N)  BY <1>1, <1>5
  <2>2. Limited(z, s) = s  BY <1>3, <2>1 DEF Limited
  <2>3. MeantSize = N
    <3>1. z \in 0 .. N => z = N  BY <1>1, <1>5
    <3> QED  BY <1>1, <3>1 DEF MeantSize, z
  <2> QED  BY <1>3, <2>2, <2>3 DEF s, N, z
<1> QED  BY <1>4, <1>5

\* ORDER BY, LIMIT and the columns: the rows of the answer are the selected
\* combinations, at the places that they are meant to have, with the cells meant.
LEMMA ShowMeans ==
  ASSUME ClearSelect, ShowState(rows), Show
  PROVE  phase' = "idle" /\ answer' = Meaning(tables, query)
<1>1. PICK X : SortState(X)  BY DEF ShowState, SortState
<1> DEFINE s == Sorted(query.orderBy, rows)
           shown == Limited(query.limit, s)
<1>2. /\ phase' = "idle"
      /\ answer' = [status |-> "ok", rows |-> [n \in DOMAIN shown |-> Cells(query, shown[n])]]
  BY DEF Show, End
<1>3. /\ DOMAIN shown = 1 .. MeantSize
      /\ \A n \in 1 .. MeantSize : n \in 1 .. Len(rows) /\ shown[n] = s[n]
  BY <1>1, LimitMeans
<1>4. Meaning(tables, query) = [status |-> "ok", rows |-> [n \in 1 .. MeantSize |-> MeantRow(n)]]
  <2>1. ~Undecided(tables, query)  BY DEF ShowState
  <2> QED  BY <2>1 DEF Meaning, MeantSize, MeantRow, Selected, SelectedBefore
<1>5. ASSUME NEW n \in 1 .. MeantSize PROVE Cells(query, shown[n]) = MeantRow(n)
  <2>1. PICK i \in 1 .. Len(rows) :
          /\ s[n] = rows[i]
          /\ (CHOOSE x \in Selected : Cardinality(SelectedBefore(x)) + 1 = n) = X[i]
    BY <1>1, <1>3, SortedMeans
  <2>2. Full(rows[i], X[i])  BY <1>1, SortFacts
  <2>3. Cells(query, rows[i]) =
          [k \in DOMAIN Shown(query) |-> Meant(tables, query, X[i])[Shown(query)[k]]]
    BY <2>2, CellsMean
  <2> QED  BY <1>3, <2>1, <2>3 DEF MeantRow
<1> HIDE DEF shown
<1>6. [n \in DOMAIN shown |-> Cells(query, shown[n])] = [n \in 1 .. MeantSize |-> MeantRow(n)]
  BY <1>3, <1>5
<1> QED  BY <1>2, <1>4, <1>6

----------------------------------------------------------------------------
\* The invariant: where a SELECT of clear names stands

\* In the JOINs, after WHERE, and answered.
SqlState ==
  /\ phase = "join" => JoinState(place, rows, joined)
  /\ phase = "show" => ShowState(rows)
  /\ phase = "idle" => answer = Meaning(tables, query)

\* Nothing is said of a SELECT whose names are not clear.
SqlInv ==
  /\ tables \in Databases /\ phase \in {"idle", "join", "show"}
  /\ query.kind = "SELECT" => QueryFits(query)
  /\ phase # "idle" => query.kind = "SELECT"
  /\ query.kind = "SELECT" /\ Clear(tables, query) => SqlState

\* Before the first SELECT there is nothing to say.
LEMMA SqlInit ==
  ASSUME Init PROVE SqlInv
<1>1. query.kind # "SELECT"  BY DEF Init
<1> QED  BY <1>1 DEF Init, SqlInv

\* A SELECT begins with the rows of its first table.
LEMMA BeginKeeps ==
  ASSUME FiniteTrees, SqlInv, NEW q, QueryFits(q), Begin(q)
  PROVE  SqlInv'
<1>1. query' = q /\ tables' = tables /\ q.kind = "SELECT"
  BY DEF Begin, QueryFits
<1>2. phase' \in {"idle", "join", "show"}  BY DEF Begin, Fail, End
<1>3. ASSUME Clear(tables, q)' PROVE SqlState'
  <2>1. ClearSelect'  BY <1>1, <1>3 DEF ClearSelect, SqlInv
  <2>2. (ClearSelect => /\ query.table \in DOMAIN tables
                        /\ JoinState(Start, tables[query.table], <<>>))'
    BY SelectFacts, StartState, PTL
  <2>3. q.table \in DOMAIN tables  BY <1>1, <2>1, <2>2
  <2>4. rows' = tables[q.table] /\ joined' = <<>> /\ place' = Start /\ phase' = "join"
    BY <2>3 DEF Begin
  <2>5. JoinState(place, rows, joined)'  BY <1>1, <2>1, <2>2, <2>4
  <2> QED  BY <2>4, <2>5 DEF SqlState
<1> QED  BY <1>1, <1>2, <1>3 DEF SqlInv

\* Every step of a SELECT keeps the invariant.
LEMMA StepKeeps ==
  ASSUME FiniteTrees, SqlInv, Step
  PROVE  SqlInv'
<1>1. tables' = tables /\ query' = query
  BY DEF Step, JoinTableMissing, JoinPair, LeftRowDone, JoinDone, Filter, Show
<1>2. phase # "idle"
  BY DEF Step, JoinTableMissing, JoinPair, LeftRowDone, JoinDone, Filter, Show, Joining
<1>3. query.kind = "SELECT" /\ QueryFits(query) /\ tables \in Databases
  BY <1>2 DEF SqlInv
<1>4. phase' \in {"idle", "join", "show"}
  <2>1. CASE JoinTableMissing  BY <2>1 DEF JoinTableMissing, Fail, End
  <2>2. CASE JoinPair  BY <2>2 DEF JoinPair, Joining, Fail, End
  <2>3. CASE LeftRowDone  BY <2>3 DEF LeftRowDone, Joining
  <2>4. CASE JoinDone  BY <2>4 DEF JoinDone, Joining
  <2>5. CASE Filter  BY <2>5 DEF Filter, Fail, End
  <2>6. CASE Show  BY <2>6 DEF Show, End
  <2> QED  BY <2>1, <2>2, <2>3, <2>4, <2>5, <2>6 DEF Step
<1>5. ASSUME Clear(tables, query) PROVE SqlState'
  <2>1. ClearSelect /\ SqlState  BY <1>3, <1>5 DEF ClearSelect, SqlInv
  <2>2. \/ phase' = "join" /\ JoinState(place', rows', joined')
        \/ phase' = "show" /\ ShowState(rows')
        \/ phase' = "idle" /\ answer' = Meaning(tables, query)
    <3>1. CASE JoinTableMissing
      <4>1. Joining /\ Join.table \notin DOMAIN tables  BY <3>1 DEF JoinTableMissing
      <4>2. JoinState(place, rows, joined)  BY <2>1, <4>1 DEF SqlState, Joining
      <4>3. place.join \in 1 .. Len(query.joins)
        BY <2>1, <4>1, <4>2, SelectFacts DEF JoinState, Places, Joining
      <4> QED  BY <2>1, <4>1, <4>3, SelectFacts DEF Join, Right
    <3>2. CASE JoinPair
      <4>1. JoinState(place, rows, joined)  BY <2>1, <3>2 DEF SqlState, JoinPair, Joining
      <4> QED  BY <2>1, <3>2, <4>1, PairKeeps
    <3>3. CASE LeftRowDone
      <4>1. JoinState(place, rows, joined)  BY <2>1, <3>3 DEF SqlState, LeftRowDone, Joining
      <4> QED  BY <2>1, <3>3, <4>1, LeftRowKeeps
    <3>4. CASE JoinDone
      <4>1. JoinState(place, rows, joined)  BY <2>1, <3>4 DEF SqlState, JoinDone, Joining
      <4> QED  BY <2>1, <3>4, <4>1, JoinDoneKeeps
    <3>5. CASE Filter
      <4>1. JoinState(place, rows, joined)  BY <2>1, <3>5 DEF SqlState, Filter
      <4> QED  BY <2>1, <3>5, <4>1, FilterKeeps
    <3>6. CASE Show
      <4>1. ShowState(rows)  BY <2>1, <3>6 DEF SqlState, Show
      <4> QED  BY <2>1, <3>6, <4>1, ShowMeans
    <3> QED  BY <3>1, <3>2, <3>3, <3>4, <3>5, <3>6 DEF Step
  <2>3. JoinState(place', rows', joined') => JoinState(place, rows, joined)'
    <3>1. \A j, X, l, k : Made(j, X, l, k)' = Made(j, X, l, k)  BY <1>1 DEF Made
    <3>2. \A j, X, l, k : Decided(j, X, l, k)' <=> Decided(j, X, l, k)  BY <1>1 DEF Decided, Right
    <3>3. \A j : DecidedBefore(j)' <=> DecidedBefore(j)  BY <1>1 DEF DecidedBefore, Right
    <3>4. \A j, X, l, k, rs, jd : JoinRows(j, X, l, k, rs, jd) => JoinRows(j, X, l, k, rs, jd)'
      BY <1>1, <3>1, <3>2, <3>3 DEF JoinRows
    <3> QED  BY <1>1, <3>4 DEF JoinState
  <2>4. ShowState(rows') => ShowState(rows)'
    BY <1>1 DEF ShowState, Selected
  <2>5. answer' = Meaning(tables, query) => (answer = Meaning(tables, query))'
    BY <1>1
  <2> QED  BY <2>2, <2>3, <2>4, <2>5 DEF SqlState
<1>6. Clear(tables, query)' => SqlState'  BY <1>1, <1>5
<1> QED  BY <1>1, <1>3, <1>4, <1>6 DEF SqlInv

\* A SELECT whose names are clear is answered as it is meant, whatever the tables
\* and their rows, however many JOINs it has and in whatever order Go goes through
\* its maps; its expressions are finite trees, as the parser builds them.
THEOREM SelectMeans == FiniteTrees => (Spec => []SelectMeansSql)
<1> DEFINE F == FiniteTrees
           FInv == F /\ SqlInv
<1>1. F /\ Init => FInv  BY SqlInit
<1>2. ASSUME FInv, [Next]_queryVars PROVE SqlInv'
  <2>1. CASE Next  BY <1>2, <2>1, QueriesAssumption, BeginKeeps, StepKeeps DEF Next
  <2>2. CASE UNCHANGED queryVars
    <3>1. SqlInv <=> SqlInv'
      BY <2>2 DEF queryVars, SqlInv, SqlState, JoinState, JoinRows, Decided, DecidedBefore, Made,
         Right, ShowState, Selected
    <3> QED  BY <1>2, <3>1
  <2> QED  BY <1>2, <2>1, <2>2
<1>3. FInv /\ [Next]_queryVars => FInv'
  <2>1. F => F'  BY DEF FiniteTrees
  <2> QED  BY <1>2, <2>1
<1>4. FInv => SelectMeansSql  BY DEF SqlInv, SqlState, SelectMeansSql
<1> HIDE DEF F, FInv
<1>5. F => (Spec => []SelectMeansSql)  BY <1>1, <1>3, <1>4, PTL DEF Spec
<1> QED  BY <1>5 DEF F

----------------------------------------------------------------------------
\* The answers of the REPL

\* A SELECT is in progress until it is answered; between two of them, when the
\* other statements change the tables, there is none.
ReplSqlInv ==
  /\ SqlInv
  /\ doing # "select" => phase = "idle"
  /\ doing \notin {"select", "print"} => query.kind # "SELECT"

\* A session begins without a SELECT.
LEMMA ReplSqlInit ==
  ASSUME ReplInit PROVE ReplSqlInv
<1>1. Init /\ doing = "read"  BY DEF ReplInit
<1>2. phase = "idle" /\ query.kind # "SELECT"  BY <1>1 DEF Init
<1> QED  BY <1>1, <1>2, SqlInit DEF ReplSqlInv

\* A step that leaves the variables of the SELECT alone leaves its state alone.
LEMMA SqlInvStays ==
  ASSUME SqlInv, UNCHANGED queryVars
  PROVE  SqlInv'
<1>1. SqlInv <=> SqlInv'
  BY DEF queryVars, SqlInv, SqlState, JoinState, JoinRows, Decided, DecidedBefore, Made,
     Right, ShowState, Selected
<1> QED  BY <1>1

\* A step of the loop is one of the SELECT, or leaves it alone; and the tables are
\* changed only while there is none.
LEMMA ReplKeeps ==
  ASSUME FiniteTrees, ReplSqlInv, ParsedFits, ReplNext
  PROVE  ReplSqlInv'
<1>0. SqlInv  BY DEF ReplSqlInv
<1>1. CASE ReadLine
  <2>1. UNCHANGED queryVars /\ doing = "read" /\ doing' # "select"
    BY <1>1 DEF ReadLine, HandleDotCommand
  <2> QED  BY <1>0, <2>1, SqlInvStays DEF ReplSqlInv, queryVars
<1>2. CASE InputEnds
  <2>1. UNCHANGED queryVars /\ doing = "read" /\ doing' # "select"  BY <1>2 DEF InputEnds
  <2> QED  BY <1>0, <2>1, SqlInvStays DEF ReplSqlInv, queryVars
<1>3. CASE Tokenize
  <2>1. UNCHANGED queryVars /\ doing = "lex" /\ doing' # "select"  BY <1>3 DEF Tokenize
  <2> QED  BY <1>0, <2>1, SqlInvStays DEF ReplSqlInv, queryVars
<1>4. CASE ParseTokens
  <2>1. UNCHANGED queryVars /\ doing = "parse" /\ doing' # "select"  BY <1>4 DEF ParseTokens
  <2> QED  BY <1>0, <2>1, SqlInvStays DEF ReplSqlInv, queryVars
<1>5. CASE BeginSelect
  <2>1. Begin(stmt) /\ QueryFits(stmt) /\ doing' = "select"  BY <1>5 DEF BeginSelect, ParsedFits
  <2>2. SqlInv'  BY <1>0, <2>1, BeginKeeps
  <2> QED  BY <2>1, <2>2 DEF ReplSqlInv
<1>6. CASE SelectStep
  <2>1. Step /\ doing = "select" /\ doing' = doing  BY <1>6 DEF SelectStep
  <2>2. SqlInv'  BY <1>0, <2>1, StepKeeps
  <2> QED  BY <2>1, <2>2 DEF ReplSqlInv
<1>7. CASE SelectDone
  <2>1. UNCHANGED queryVars /\ phase = "idle" /\ doing' = "print"  BY <1>7 DEF SelectDone
  <2> QED  BY <1>0, <2>1, SqlInvStays DEF ReplSqlInv, queryVars
<1>8. CASE ExecuteOther
  <2>1. /\ doing = "execute" /\ doing' = "print" /\ tables' \in Databases
        /\ query' = query /\ phase' = phase
    BY <1>8 DEF ExecuteOther
  <2>2. query.kind # "SELECT" /\ phase = "idle"  BY <2>1 DEF ReplSqlInv
  <2> QED  BY <2>1, <2>2 DEF ReplSqlInv, SqlInv
<1>9. CASE PrintResult
  <2>1. /\ doing = "print" /\ doing' = "read" /\ tables' = tables /\ phase' = phase
        /\ query' = [kind |-> "none"]
    BY <1>9 DEF PrintResult
  <2>2. query'.kind # "SELECT" /\ phase = "idle"  BY <2>1 DEF ReplSqlInv
  <2> QED  BY <1>0, <2>1, <2>2 DEF ReplSqlInv, SqlInv
<1> QED
  BY <1>1, <1>2, <1>3, <1>4, <1>5, <1>6, <1>7, <1>8, <1>9 DEF ReplNext, Answering

\* So are the SELECTs of a session, between whatever other lines, which may change
\* the tables in any way, if what the parser returns for them is a SELECT that the
\* executor can take apart.
THEOREM SessionMeansSql == FiniteTrees => (ReplSpec /\ []ParsedFits => []SelectMeansSql)
<1> DEFINE F == FiniteTrees
           FInv == F /\ ReplSqlInv
<1>1. F /\ ReplInit => FInv  BY ReplSqlInit
<1>2. ASSUME FInv, ParsedFits, [ReplNext]_replVars PROVE ReplSqlInv'
  <2>1. CASE ReplNext  BY <1>2, <2>1, ReplKeeps
  <2>2. CASE UNCHANGED replVars
    <3>1. UNCHANGED queryVars /\ UNCHANGED doing  BY <2>2 DEF replVars, queryVars
    <3> QED  BY <1>2, <3>1, SqlInvStays DEF ReplSqlInv, queryVars
  <2> QED  BY <1>2, <2>1, <2>2
<1>3. FInv /\ ParsedFits /\ [ReplNext]_replVars => FInv'
  <2>1. F => F'  BY DEF FiniteTrees
  <2> QED  BY <1>2, <2>1
<1>4. FInv => SelectMeansSql  BY DEF ReplSqlInv, SqlInv, SqlState, SelectMeansSql
<1> HIDE DEF F, FInv
<1>5. F => (ReplSpec /\ []ParsedFits => []SelectMeansSql)
  BY <1>1, <1>3, <1>4, PTL DEF ReplSpec
<1> QED  BY <1>5 DEF F

----------------------------------------------------------------------------
\* The rows of a LEFT JOIN, as pairs

\* The statement has one JOIN, a LEFT JOIN with another table.
OneLeft ==
  /\ Len(query.joins) = 1 /\ query.joins[1].type = "LEFT"
  /\ query.joins[1].table # query.table

\* Row i of the first table and row r of the other, or its row of NULLs, merged.
Pair(i, r) ==
  Over(Prefixed(tables[query.table][i], query.table, {}),
       Prefixed(Row(tables, Right(1), r), Right(1), {}))

OnHolds(i, r) == Evaluate(query.joins[1].on, Pair(i, r)) = True

Lefts == 1 .. Len(tables[query.table])
Rights == 1 .. Len(tables[Right(1)])

TwoTables ==
  /\ tables \in Databases /\ OneLeft
  /\ query.table \in DOMAIN tables /\ Right(1) \in DOMAIN tables

\* P has the numbers of what each row is merged of: rows that match, or the NULLs
\* for a left row that matches none and is in no other pair.
Paired(P, rs) ==
  /\ P \in Seq(Lefts \X ({0} \cup Rights)) /\ IsList(rs) /\ Len(rs) = Len(P)
  /\ \A n \in 1 .. Len(P) : rs[n] = Pair(P[n][1], P[n][2])
  /\ \A n \in 1 .. Len(P) : P[n][2] # 0 => OnHolds(P[n][1], P[n][2])
  /\ \A n \in 1 .. Len(P) : P[n][2] = 0 =>
       /\ \A r \in Rights : ~OnHolds(P[n][1], r)
       /\ \A m \in 1 .. Len(P) : P[m][1] = P[n][1] => m = n

\* The left rows before l are paired, and l with its matches before k.
Halfway(P, l, k) ==
  /\ \A n \in 1 .. Len(P) : P[n][1] < l \/ (P[n][1] = l /\ P[n][2] \in 1 .. k - 1)
  /\ \A i \in Lefts : i < l => \E n \in 1 .. Len(P) : P[n][1] = i
  /\ l \in Lefts =>
       \A r \in Rights : r < k /\ OnHolds(l, r) => \E n \in 1 .. Len(P) : P[n][1] = l

\* The JOIN is at this place, or done, with these rows.
LeftState(pl, rs, jd) ==
  /\ query.table \in DOMAIN tables /\ pl \in Places
  /\ \/ /\ pl.join = 1 /\ rs = tables[query.table]
        /\ Right(1) \in DOMAIN tables =>
             \E P : Paired(P, jd) /\ Halfway(P, pl.left, pl.right)
     \/ /\ pl.join = 2 /\ Right(1) \in DOMAIN tables
        /\ \E P : /\ Paired(P, rs)
                  /\ \A i \in Lefts : \E n \in 1 .. Len(P) : P[n][1] = i

LeftInv ==
  /\ tables \in Databases
  /\ phase = "join" /\ OneLeft => LeftState(place, rows, joined)

\* A pair has the values of both rows, each under its table's name.
LEMMA PairCells ==
  ASSUME TwoTables, NEW i \in Lefts, NEW r \in {0} \cup Rights
  PROVE  /\ \A c : IsName(c) =>
              Cell(Pair(i, r), Dotted(query.table, c)) = Cell(tables[query.table][i], c)
         /\ \A c \in ColumnSet(Right(1)) :
              Cell(Pair(i, r), Dotted(Right(1), c)) = Cell(Row(tables, Right(1), r), c)
<1> DEFINE T == query.table
           U == Right(1)
           a == tables[T][i]
           b == Row(tables, U, r)
           first == Prefixed(a, T, {})
           second == Prefixed(b, U, {})
<1>1. IsName(T) /\ IsName(U) /\ IsList(T) /\ IsList(U) /\ T # U /\ \A c \in ColumnSet(U) : IsName(c)
  <2>1. Len(tables[T]) \in Nat /\ Len(tables[U]) \in Nat
    BY DatabasesAssumption, LenProperties DEF TwoTables, IsList
  <2>2. 0 \in 0 .. Len(tables[T]) /\ 0 \in 0 .. Len(tables[U])  BY <2>1
  <2>3. T # U  BY DEF TwoTables, OneLeft, Right
  <2> QED  BY <2>2, <2>3, RowNames DEF TwoTables
<1>2. \A k \in DOMAIN a : IsName(k) /\ IsList(k)
  <2>1. Len(tables[T]) \in Nat
    BY DatabasesAssumption, LenProperties DEF TwoTables, IsList
  <2>2. i \in 0 .. Len(tables[T]) /\ Row(tables, T, i) = a  BY <2>1 DEF Lefts, Row
  <2> QED  BY <2>2, RowNames DEF TwoTables
<1>3. \A k \in DOMAIN b : IsName(k) /\ IsList(k)
  <2>1. Len(tables[U]) \in Nat
    BY DatabasesAssumption, LenProperties DEF TwoTables, IsList
  <2>2. r \in 0 .. Len(tables[U])  BY <2>1 DEF Rights
  <2> QED  BY <2>2, RowNames DEF TwoTables
<1>4. Pair(i, r) = Over(first, second)  BY DEF Pair
<1> HIDE DEF a, b, T, U
<1>5. ASSUME NEW c, IsName(c)
      PROVE  Cell(Over(first, second), Dotted(T, c)) = Cell(a, c)
  <2> DEFINE name == Dotted(T, c)
  <2>0. IsList(c)  BY <1>5 DEF IsName
  <2>1. ~IsName(name)  BY <1>1, <2>0, DottedIsNoName
  <2>2. name \notin DOMAIN a /\ name \notin DOMAIN b  BY <1>2, <1>3, <2>1
  <2>3. \A k \in DOMAIN b : Dotted(U, k) # name  BY <1>1, <1>3, <2>0, DottedInjective
  <2>4. name \notin DOMAIN second  BY <2>2, <2>3, PrefixedKeeps
  <2>5. Cell(Over(first, second), name) = Cell(first, name)  BY <2>4, OverCells
  <2>6. /\ c \notin DOMAIN a => Cell(first, name) = Cell(a, name)
        /\ c \in DOMAIN a => Cell(first, name) = a[c]
    BY <1>1, <1>2, <2>0, <2>2, PrefixedWrites
  <2> QED  BY <2>2, <2>5, <2>6 DEF Cell
<1>6. ASSUME NEW c, IsName(c)
      PROVE  Cell(Over(first, second), Dotted(U, c)) = Cell(b, c)
  <2> DEFINE name == Dotted(U, c)
  <2>0. IsList(c)  BY <1>6 DEF IsName
  <2>1. ~IsName(name)  BY <1>1, <2>0, DottedIsNoName
  <2>2. name \notin DOMAIN a /\ name \notin DOMAIN b  BY <1>2, <1>3, <2>1
  <2>3. /\ name \in DOMAIN second <=> c \in DOMAIN b
        /\ c \in DOMAIN b => Cell(second, name) = b[c]
    BY <1>1, <1>3, <2>0, <2>2, PrefixedWrites
  <2>4. \A k \in DOMAIN a : Dotted(T, k) # name  BY <1>1, <1>2, <2>0, DottedInjective
  <2>5. Cell(first, name) = Null  BY <2>2, <2>4, PrefixedKeeps DEF Cell
  <2> QED  BY <2>3, <2>5, OverCells DEF Cell
<1> QED  BY <1>1, <1>4, <1>5, <1>6 DEF T, U, a, b

\* Two rows of the database are merged in one way only.
LEMMA OneMerge ==
  ASSUME TwoTables, NEW i \in Lefts, NEW r \in {0} \cup Rights
  PROVE  Merges(tables[query.table][i], Right(1), Row(tables, Right(1), r)) = {Pair(i, r)}
<1> DEFINE T == query.table
           a == tables[T][i]
<1>1. Len(tables[T]) \in Nat
  BY DatabasesAssumption, LenProperties DEF TwoTables, IsList
<1>2. i \in 0 .. Len(tables[T]) /\ Row(tables, T, i) = a  BY <1>1 DEF Lefts, Row
<1>3. IsList(T) /\ \A k \in DOMAIN a : IsName(k) /\ IsList(k)
  BY <1>2, RowNames DEF TwoTables
<1>4. WrittenTwice(a, T) = {}  BY <1>3, DottedIsNoName DEF WrittenTwice
<1>5. SUBSET WrittenTwice(a, T) = {{}}  BY <1>4
<1> QED  BY <1>5 DEF Merges, Pair
\* Numbers of rows.
LEMMA CountFacts ==
  ASSUME TwoTables
  PROVE  /\ Len(tables[query.table]) \in Nat /\ Len(tables[Right(1)]) \in Nat
         /\ DOMAIN tables[query.table] = Lefts /\ DOMAIN tables[Right(1)] = Rights
         /\ IsList(tables[query.table])
<1>1. IsList(tables[query.table]) /\ IsList(tables[Right(1)])
  BY DatabasesAssumption DEF TwoTables
<1> QED  BY <1>1, LenProperties DEF IsList, Lefts, Rights

\* What a list of pairs has.
LEMMA PairedFacts ==
  ASSUME NEW P, NEW rs, Paired(P, rs)
  PROVE  /\ Len(P) \in Nat /\ Len(rs) = Len(P) /\ DOMAIN rs = 1 .. Len(P)
         /\ \A n \in 1 .. Len(P) : P[n][1] \in Lefts /\ P[n][2] \in {0} \cup Rights
<1>1. /\ P \in Seq(Lefts \X ({0} \cup Rights)) /\ IsList(rs) /\ Len(rs) = Len(P)
  BY DEF Paired
<1>2. /\ Len(P) \in Nat /\ DOMAIN rs = 1 .. Len(rs)
      /\ P \in [1 .. Len(P) -> Lefts \X ({0} \cup Rights)]
  BY <1>1, LenProperties DEF IsList
<1> QED  BY <1>1, <1>2

\* One more of them: a match of a left row that is not there with NULLs, or the NULLs
\* of one that is not there at all.
LEMMA PairedMore ==
  ASSUME NEW P, NEW rs, Paired(P, rs), NEW i \in Lefts, NEW r \in {0} \cup Rights, 0 \notin Rights,
         r # 0 => OnHolds(i, r) /\ \A n \in 1 .. Len(P) : P[n][1] = i => P[n][2] # 0,
         r = 0 => /\ \A k \in Rights : ~OnHolds(i, k)
                  /\ \A n \in 1 .. Len(P) : P[n][1] # i
  PROVE  Paired(Append(P, <<i, r>>), Append(rs, Pair(i, r)))
<1> DEFINE e == <<i, r>>
           w == Pair(i, r)
           S == Lefts \X ({0} \cup Rights)
           Q == Append(P, e)
           v == Append(rs, w)
<1>1. /\ Len(P) \in Nat /\ Len(rs) = Len(P)
      /\ \A n \in 1 .. Len(P) : P[n][1] \in Lefts /\ P[n][2] \in {0} \cup Rights
  BY PairedFacts
<1>2. P \in Seq(S) /\ e \in S /\ IsList(rs)  BY DEF Paired
<1>3. e[1] = i /\ e[2] = r  OBVIOUS
<1> HIDE DEF e, w, S
<1>4. /\ Q \in Seq(S) /\ Len(Q) = Len(P) + 1 /\ Q[Len(P) + 1] = e
      /\ \A n \in 1 .. Len(P) : Q[n] = P[n]
  BY <1>2, AppendProperties
<1>5. /\ IsList(v) /\ Len(v) = Len(rs) + 1 /\ v[Len(rs) + 1] = w
      /\ \A n \in 1 .. Len(rs) : v[n] = rs[n]
  BY <1>2, ListMore
<1> HIDE DEF Q, v
<1>6. \A n \in 1 .. Len(Q) : n \in 1 .. Len(P) \/ n = Len(P) + 1  BY <1>1, <1>4
<1>7. \A n \in 1 .. Len(Q) : v[n] = Pair(Q[n][1], Q[n][2])
  <2> TAKE n \in 1 .. Len(Q)
  <2>1. CASE n \in 1 .. Len(P)
    <3>1. v[n] = rs[n] /\ Q[n] = P[n]  BY <1>1, <1>4, <1>5, <2>1
    <3>2. rs[n] = Pair(P[n][1], P[n][2])  BY <2>1 DEF Paired
    <3> QED  BY <3>1, <3>2
  <2>2. CASE n = Len(P) + 1
    <3>1. v[n] = w /\ Q[n] = e  BY <1>1, <1>4, <1>5, <2>2
    <3> QED  BY <1>3, <3>1 DEF w
  <2> QED  BY <1>6, <2>1, <2>2
<1>8. \A n \in 1 .. Len(Q) : Q[n][2] # 0 => OnHolds(Q[n][1], Q[n][2])
  <2> TAKE n \in 1 .. Len(Q)
  <2>1. CASE n \in 1 .. Len(P)
    <3>1. Q[n] = P[n]  BY <1>4, <2>1
    <3>2. P[n][2] # 0 => OnHolds(P[n][1], P[n][2])  BY <2>1 DEF Paired
    <3> QED  BY <3>1, <3>2
  <2>2. CASE n = Len(P) + 1  BY <1>3, <1>4, <2>2
  <2> QED  BY <1>6, <2>1, <2>2
<1>9. \A n \in 1 .. Len(Q) : Q[n][2] = 0 =>
        /\ \A k \in Rights : ~OnHolds(Q[n][1], k)
        /\ \A m \in 1 .. Len(Q) : Q[m][1] = Q[n][1] => m = n
  <2> SUFFICES ASSUME NEW n \in 1 .. Len(Q), Q[n][2] = 0
               PROVE  /\ \A k \in Rights : ~OnHolds(Q[n][1], k)
                      /\ \A m \in 1 .. Len(Q) : Q[m][1] = Q[n][1] => m = n
    OBVIOUS
  <2>1. CASE n \in 1 .. Len(P)
    <3>1. Q[n] = P[n] /\ P[n][2] = 0  BY <1>4, <2>1
    <3>2. /\ \A k \in Rights : ~OnHolds(P[n][1], k)
          /\ \A m \in 1 .. Len(P) : P[m][1] = P[n][1] => m = n
      BY <2>1, <3>1 DEF Paired
    <3>3. i # P[n][1]  BY <2>1, <3>1
    <3>4. ASSUME NEW m \in 1 .. Len(Q), Q[m][1] = Q[n][1]  PROVE m = n
      <4>1. CASE m \in 1 .. Len(P)  BY <1>4, <3>1, <3>2, <3>4, <4>1
      <4>2. CASE m = Len(P) + 1  BY <1>3, <1>4, <3>1, <3>3, <3>4, <4>2
      <4> QED  BY <1>6, <4>1, <4>2
    <3> QED  BY <3>1, <3>2, <3>4
  <2>2. CASE n = Len(P) + 1
    <3>1. Q[n][1] = i /\ r = 0  BY <1>3, <1>4, <2>2
    <3>2. ASSUME NEW m \in 1 .. Len(Q), Q[m][1] = Q[n][1]  PROVE m = n
      <4>1. CASE m \in 1 .. Len(P)  BY <1>4, <3>1, <3>2, <4>1
      <4> QED  BY <1>6, <2>2, <4>1
    <3> QED  BY <3>1, <3>2
  <2> QED  BY <1>6, <2>1, <2>2
<1>10. Len(v) = Len(Q)  BY <1>1, <1>4, <1>5
<1>11. Paired(Q, v)  BY <1>4, <1>5, <1>7, <1>8, <1>9, <1>10 DEF Paired, S
<1> QED  BY <1>11 DEF Q, v, e, w
\* Where a turn of the JOIN finds its state.
LEMMA LeftTurn ==
  ASSUME tables \in Databases, OneLeft, LeftState(place, rows, joined), Joining,
         Join.table \in DOMAIN tables
  PROVE  /\ TwoTables /\ Join = query.joins[1] /\ Join.table = Right(1) /\ Join.type = "LEFT"
         /\ place.join = 1 /\ rows = tables[query.table]
         /\ place \in Places /\ place.left \in Nat \ {0} /\ place.right \in Nat \ {0}
         /\ \E P : Paired(P, joined) /\ Halfway(P, place.left, place.right)
         /\ Len(rows) \in Nat /\ Lefts = 1 .. Len(rows)
         /\ Len(tables[Right(1)]) \in Nat /\ Rights = 1 .. Len(tables[Right(1)])
<1>1. place \in Places /\ place.left \in Nat \ {0} /\ place.right \in Nat \ {0}
  BY DEF LeftState, Places
<1>2. place.join = 1
  <2>1. place.join \in {1, 2} /\ place.join <= 1  BY DEF LeftState, Joining, OneLeft
  <2> QED  BY <2>1
<1>3. Join = query.joins[1] /\ Join.table = Right(1)  BY <1>2 DEF Join, Right
<1>4. /\ rows = tables[query.table] /\ query.table \in DOMAIN tables
      /\ \E P : Paired(P, joined) /\ Halfway(P, place.left, place.right)
  BY <1>2, <1>3 DEF LeftState
<1>5. TwoTables  BY <1>3, <1>4 DEF TwoTables
<1>6. Join.type = "LEFT"  BY <1>3 DEF OneLeft
<1> QED  BY <1>1, <1>2, <1>3, <1>4, <1>5, <1>6, CountFacts DEF Lefts, Rights

\* The next pair of the left row l: if it matches, it is joined.
LEMMA PairedTurn ==
  ASSUME NEW P, NEW jd, Paired(P, jd), NEW l \in Lefts, NEW k \in Rights, Halfway(P, l, k),
         Rights \subseteq Nat \ {0}, Lefts \subseteq Nat
  PROVE  \E Q : /\ Paired(Q, IF OnHolds(l, k) THEN Append(jd, Pair(l, k)) ELSE jd)
                /\ Halfway(Q, l, k + 1)
<1>1. /\ Len(P) \in Nat
      /\ \A n \in 1 .. Len(P) : P[n][1] \in Lefts /\ P[n][2] \in {0} \cup Rights
  BY PairedFacts
<1>2. l \in Nat /\ k \in Nat  OBVIOUS
<1>3. /\ \A n \in 1 .. Len(P) : P[n][1] < l \/ (P[n][1] = l /\ P[n][2] \in 1 .. k - 1)
      /\ \A i \in Lefts : i < l => \E n \in 1 .. Len(P) : P[n][1] = i
      /\ \A r \in Rights : r < k /\ OnHolds(l, r) => \E n \in 1 .. Len(P) : P[n][1] = l
  BY DEF Halfway
<1>4. CASE OnHolds(l, k)
  <2> DEFINE e == <<l, k>>
             Q == Append(P, e)
  <2>1. \A n \in 1 .. Len(P) : P[n][1] = l => P[n][2] # 0  BY <1>1, <1>2, <1>3
  <2>2. k # 0 /\ 0 \notin Rights  OBVIOUS
  <2>3. Paired(Q, Append(jd, Pair(l, k)))  BY <1>4, <2>1, <2>2, PairedMore
  <2>4. /\ Len(Q) = Len(P) + 1 /\ Q[Len(P) + 1] = e
        /\ \A n \in 1 .. Len(P) : Q[n] = P[n]
    BY AppendProperties DEF Paired
  <2>5. e[1] = l /\ e[2] = k  OBVIOUS
  <2> HIDE DEF e, Q
  <2>6. \A n \in 1 .. Len(Q) : Q[n][1] < l \/ (Q[n][1] = l /\ Q[n][2] \in 1 .. (k + 1) - 1)
    <3> TAKE n \in 1 .. Len(Q)
    <3>1. n \in 1 .. Len(P) \/ n = Len(P) + 1  BY <1>1, <2>4
    <3>2. CASE n \in 1 .. Len(P)
      <4>1. Q[n] = P[n]  BY <2>4, <3>2
      <4>2. P[n][1] < l \/ (P[n][1] = l /\ P[n][2] \in 1 .. k - 1)  BY <1>3, <3>2
      <4> QED  BY <1>2, <4>1, <4>2
    <3>3. CASE n = Len(P) + 1
      <4>1. Q[n][1] = l /\ Q[n][2] = k  BY <2>4, <2>5, <3>3
      <4> QED  BY <1>2, <2>2, <4>1
    <3> QED  BY <3>1, <3>2, <3>3
  <2>7. \A i \in Lefts : i < l => \E n \in 1 .. Len(Q) : Q[n][1] = i
    <3> TAKE i \in Lefts
    <3> HAVE i < l
    <3>1. PICK n \in 1 .. Len(P) : P[n][1] = i  BY <1>3
    <3>2. n \in 1 .. Len(Q) /\ Q[n] = P[n]  BY <1>1, <2>4
    <3> QED  BY <3>1, <3>2
  <2>8. \E n \in 1 .. Len(Q) : Q[n][1] = l
    <3>1. Len(P) + 1 \in 1 .. Len(Q)  BY <1>1, <2>4
    <3> QED  BY <2>4, <2>5, <3>1
  <2>9. Halfway(Q, l, k + 1)  BY <2>6, <2>7, <2>8 DEF Halfway
  <2> QED  BY <1>4, <2>3, <2>9
<1>5. CASE ~OnHolds(l, k)
  <2>1. \A n \in 1 .. Len(P) : P[n][1] < l \/ (P[n][1] = l /\ P[n][2] \in 1 .. (k + 1) - 1)
    <3> TAKE n \in 1 .. Len(P)
    <3>1. P[n][1] < l \/ (P[n][1] = l /\ P[n][2] \in 1 .. k - 1)  BY <1>3
    <3> QED  BY <1>2, <3>1
  <2>2. \A r \in Rights : r < k + 1 /\ OnHolds(l, r) => \E n \in 1 .. Len(P) : P[n][1] = l
    <3> TAKE r \in Rights
    <3> HAVE r < k + 1 /\ OnHolds(l, r)
    <3>1. r < k  BY <1>2, <1>5
    <3> QED  BY <1>3, <3>1
  <2>3. Halfway(P, l, k + 1)  BY <1>3, <2>1, <2>2 DEF Halfway
  <2> QED  BY <1>5, <2>3
<1> QED  BY <1>4, <1>5

\* The left row l is done: it has a pair, and else gets the NULLs.
LEMMA PairedRow ==
  ASSUME NEW P, NEW jd, Paired(P, jd), NEW l \in Lefts, NEW k \in Nat, Halfway(P, l, k),
         \A r \in Rights : r < k, Rights \subseteq Nat \ {0}, Lefts \subseteq Nat
  PROVE  \E Q : /\ Paired(Q, IF \E r \in Rights : OnHolds(l, r) THEN jd
                             ELSE Append(jd, Pair(l, 0)))
                /\ Halfway(Q, l + 1, 1)
<1>1. /\ Len(P) \in Nat
      /\ \A n \in 1 .. Len(P) : P[n][1] \in Lefts /\ P[n][2] \in {0} \cup Rights
  BY PairedFacts
<1>3. /\ \A n \in 1 .. Len(P) : P[n][1] < l \/ (P[n][1] = l /\ P[n][2] \in 1 .. k - 1)
      /\ \A i \in Lefts : i < l => \E n \in 1 .. Len(P) : P[n][1] = i
      /\ \A r \in Rights : r < k /\ OnHolds(l, r) => \E n \in 1 .. Len(P) : P[n][1] = l
  BY DEF Halfway
<1>4. \A n \in 1 .. Len(P) : P[n][1] < l + 1  BY <1>1, <1>3
<1>5. \A i \in Lefts : i < l + 1 => i < l \/ i = l  OBVIOUS
<1>6. CASE \E r \in Rights : OnHolds(l, r)
  <2>1. \E n \in 1 .. Len(P) : P[n][1] = l  BY <1>3, <1>6
  <2>2. \A i \in Lefts : i < l + 1 => \E n \in 1 .. Len(P) : P[n][1] = i
    BY <1>3, <1>5, <2>1
  <2>3. \A r \in Rights : ~(r < 1)  OBVIOUS
  <2>4. Halfway(P, l + 1, 1)  BY <1>4, <2>2, <2>3 DEF Halfway
  <2> QED  BY <1>6, <2>4
<1>7. CASE ~(\E r \in Rights : OnHolds(l, r))
  <2> DEFINE e == <<l, 0>>
             Q == Append(P, e)
  <2>1. \A n \in 1 .. Len(P) : P[n][1] # l
    <3> SUFFICES ASSUME NEW n \in 1 .. Len(P), P[n][1] = l PROVE FALSE
      OBVIOUS
    <3>1. P[n][2] \in 1 .. k - 1  BY <1>1, <1>3
    <3>2. P[n][2] # 0 /\ P[n][2] \in Rights  BY <1>1, <3>1
    <3>3. OnHolds(P[n][1], P[n][2])  BY <3>2 DEF Paired
    <3> QED  BY <1>7, <3>2, <3>3
  <2>2. 0 \notin Rights /\ \A r \in Rights : ~OnHolds(l, r)  BY <1>7
  <2>3. Paired(Q, Append(jd, Pair(l, 0)))  BY <2>1, <2>2, PairedMore
  <2>4. /\ Len(Q) = Len(P) + 1 /\ Q[Len(P) + 1] = e
        /\ \A n \in 1 .. Len(P) : Q[n] = P[n]
    <3>1. P \in Seq(Lefts \X ({0} \cup Rights)) /\ e \in Lefts \X ({0} \cup Rights)
      BY DEF Paired
    <3> QED  BY <3>1, AppendProperties
  <2>5. e[1] = l  OBVIOUS
  <2> HIDE DEF e, Q
  <2>6. \A n \in 1 .. Len(Q) : Q[n][1] < l + 1
    <3> TAKE n \in 1 .. Len(Q)
    <3>1. n \in 1 .. Len(P) \/ n = Len(P) + 1  BY <1>1, <2>4
    <3>2. CASE n \in 1 .. Len(P)  BY <1>4, <2>4, <3>2
    <3>3. CASE n = Len(P) + 1  BY <2>4, <2>5, <3>3
    <3> QED  BY <3>1, <3>2, <3>3
  <2>7. \A i \in Lefts : i < l + 1 => \E n \in 1 .. Len(Q) : Q[n][1] = i
    <3> TAKE i \in Lefts
    <3> HAVE i < l + 1
    <3>1. CASE i < l
      <4>1. PICK n \in 1 .. Len(P) : P[n][1] = i  BY <1>3, <3>1
      <4>2. n \in 1 .. Len(Q) /\ Q[n] = P[n]  BY <1>1, <2>4
      <4> QED  BY <4>1, <4>2
    <3>2. CASE i = l
      <4>1. Len(P) + 1 \in 1 .. Len(Q)  BY <1>1, <2>4
      <4> QED  BY <2>4, <2>5, <3>2, <4>1
    <3> QED  BY <1>5, <3>1, <3>2
  <2>8. \A r \in Rights : ~(r < 1)  OBVIOUS
  <2>9. Halfway(Q, l + 1, 1)  BY <2>6, <2>7, <2>8 DEF Halfway
  <2> QED  BY <1>7, <2>3, <2>9
<1> QED  BY <1>6, <1>7
\* One pair of rows, if its condition is true or false.
LEMMA PairStays ==
  ASSUME tables \in Databases, OneLeft, LeftState(place, rows, joined), JoinPair, phase' = "join"
  PROVE  LeftState(place', rows', joined')
<1> DEFINE l == place.left
           k == place.right
<1>1. Joining /\ Join.table \in DOMAIN tables /\ l <= Len(rows) /\ k <= Len(tables[Join.table])
  BY DEF JoinPair
<1>2. /\ TwoTables /\ Join = query.joins[1] /\ Join.table = Right(1)
      /\ place.join = 1 /\ rows = tables[query.table]
      /\ place \in Places /\ l \in Nat \ {0} /\ k \in Nat \ {0}
      /\ Len(rows) \in Nat /\ Lefts = 1 .. Len(rows)
      /\ Len(tables[Right(1)]) \in Nat /\ Rights = 1 .. Len(tables[Right(1)])
  BY <1>1, LeftTurn
<1>3. PICK P : Paired(P, joined) /\ Halfway(P, l, k)  BY <1>1, LeftTurn
<1>4. l \in Lefts /\ k \in Rights /\ Rights \subseteq Nat \ {0} /\ Lefts \subseteq Nat
  BY <1>1, <1>2
<1>5. PICK merged \in Merges(LeftRow, Join.table, tables[Join.table][k]) :
        IF Type(Evaluate(Join.on, merged)) # "BOOL" THEN Fail
        ELSE /\ joined' = IF Evaluate(Join.on, merged) = True THEN Append(joined, merged) ELSE joined
             /\ place' = [place EXCEPT !.right = @ + 1]
             /\ UNCHANGED <<phase, rows, answer>>
  BY DEF JoinPair
<1>6. merged = Pair(l, k)
  <2>1. Row(tables, Right(1), k) = tables[Right(1)][k]  BY <1>2 DEF Row
  <2>2. LeftRow = tables[query.table][l]  BY <1>2 DEF LeftRow
  <2>3. merged \in Merges(tables[query.table][l], Right(1), Row(tables, Right(1), k))
    BY <1>2, <1>5, <2>1, <2>2
  <2>4. Merges(tables[query.table][l], Right(1), Row(tables, Right(1), k)) = {Pair(l, k)}
    BY <1>2, <1>4, OneMerge
  <2> QED  BY <2>3, <2>4
<1>7. /\ joined' = (IF OnHolds(l, k) THEN Append(joined, Pair(l, k)) ELSE joined)
      /\ place' = [place EXCEPT !.right = @ + 1]
      /\ rows' = rows
  <2>1. ~Fail  BY DEF Fail, End
  <2> QED  BY <1>2, <1>5, <1>6, <2>1 DEF OnHolds
<1>8. place' \in Places /\ place'.join = 1 /\ place'.left = l /\ place'.right = k + 1
  BY <1>2, <1>7 DEF Places
<1>9. \E Q : Paired(Q, joined') /\ Halfway(Q, l, k + 1)
  BY <1>3, <1>4, <1>7, PairedTurn
<1> QED  BY <1>2, <1>7, <1>8, <1>9 DEF LeftState, TwoTables

\* A left row at the end of the right table.
LEMMA LeftRowStays ==
  ASSUME tables \in Databases, OneLeft, LeftState(place, rows, joined), LeftRowDone
  PROVE  LeftState(place', rows', joined')
<1> DEFINE l == place.left
           k == place.right
           t == Right(1)
<1>1. Joining /\ Join.table \in DOMAIN tables /\ l <= Len(rows) /\ k > Len(tables[Join.table])
  BY DEF LeftRowDone
<1>2. /\ TwoTables /\ Join = query.joins[1] /\ Join.table = t /\ Join.type = "LEFT"
      /\ place.join = 1 /\ rows = tables[query.table]
      /\ place \in Places /\ l \in Nat \ {0} /\ k \in Nat \ {0}
      /\ Len(rows) \in Nat /\ Lefts = 1 .. Len(rows)
      /\ Len(tables[t]) \in Nat /\ Rights = 1 .. Len(tables[t])
  BY <1>1, LeftTurn
<1>3. PICK P : Paired(P, joined) /\ Halfway(P, l, k)  BY <1>1, LeftTurn
<1>4. l \in Lefts /\ k \in Nat /\ (\A r \in Rights : r < k)
      /\ Rights \subseteq Nat \ {0} /\ Lefts \subseteq Nat
  BY <1>1, <1>2
<1>5. PICK found \in HasMatchInJoin(LeftRow, Join.table), merged \in Merges(LeftRow, Join.table, Nulls(Join.table)) :
        joined' = IF Join.type = "LEFT" /\ ~found THEN Append(joined, merged) ELSE joined
  BY DEF LeftRowDone
<1>6. LeftRow = tables[query.table][l]  BY <1>2 DEF LeftRow
<1>7. merged = Pair(l, 0)
  <2>1. Row(tables, t, 0) = Nulls(t)  BY DEF Row
  <2>2. Merges(tables[query.table][l], t, Row(tables, t, 0)) = {Pair(l, 0)}
    BY <1>2, <1>4, OneMerge
  <2> QED  BY <1>2, <1>5, <1>6, <2>1, <2>2
<1>8. found <=> \E r \in Rights : OnHolds(l, r)
  <2>1. \A r \in Rights : Merges(LeftRow, t, tables[t][r]) = {Pair(l, r)}
    <3> TAKE r \in Rights
    <3>1. Row(tables, t, r) = tables[t][r]  BY <1>4 DEF Row
    <3>2. Merges(tables[query.table][l], t, Row(tables, t, r)) = {Pair(l, r)}
      BY <1>2, <1>4, OneMerge
    <3> QED  BY <1>6, <3>1, <3>2
  <2>2. \A r \in Rights : /\ CanMatch(LeftRow, t, r) <=> OnHolds(l, r)
                          /\ MustMatch(LeftRow, t, r) <=> OnHolds(l, r)
    <3> TAKE r \in Rights
    <3>1. Merges(LeftRow, t, tables[t][r]) = {Pair(l, r)}  BY <2>1
    <3>2. CanMatch(LeftRow, t, r) <=> OnHolds(l, r)  BY <1>2, <3>1 DEF CanMatch, OnHolds
    <3>3. MustMatch(LeftRow, t, r) <=> OnHolds(l, r)  BY <1>2, <3>1 DEF MustMatch, OnHolds
    <3> QED  BY <3>2, <3>3
  <2>3. DOMAIN tables[t] = Rights  BY <1>2, CountFacts
  <2>4. found \in BOOLEAN /\
        (IF found THEN \E i \in Rights : CanMatch(LeftRow, t, i)
         ELSE \A i \in Rights : ~MustMatch(LeftRow, t, i))
    BY <1>2, <1>5, <2>3 DEF HasMatchInJoin
  <2> QED  BY <2>2, <2>4
<1>9. /\ joined' = (IF \E r \in Rights : OnHolds(l, r) THEN joined ELSE Append(joined, Pair(l, 0)))
      /\ place' = [place EXCEPT !.left = @ + 1, !.right = 1]
      /\ rows' = rows
  <2>1. place' = [place EXCEPT !.left = @ + 1, !.right = 1] /\ rows' = rows  BY DEF LeftRowDone
  <2> QED  BY <1>2, <1>5, <1>7, <1>8, <2>1
<1>10. place' \in Places /\ place'.join = 1 /\ place'.left = l + 1 /\ place'.right = 1
  <2>1. l + 1 \in Nat \ {0} /\ 1 \in Nat \ {0}  BY <1>2
  <2>2. place' = [join |-> place.join, left |-> l + 1, right |-> 1]  BY <1>2, <1>9 DEF Places
  <2> QED  BY <1>2, <2>1, <2>2 DEF Places
<1>11. \E Q : Paired(Q, joined') /\ Halfway(Q, l + 1, 1)
  <2> HIDE DEF l, k, t
  <2> QED  BY <1>3, <1>4, <1>9, PairedRow
<1> QED  BY <1>2, <1>9, <1>10, <1>11 DEF LeftState, TwoTables

\* The end of the outer loop.
LEMMA DoneStays ==
  ASSUME tables \in Databases, OneLeft, LeftState(place, rows, joined), JoinDone
  PROVE  LeftState(place', rows', joined')
<1>1. Joining /\ Join.table \in DOMAIN tables /\ place.left > Len(rows)
  BY DEF JoinDone
<1>2. /\ TwoTables /\ place.join = 1 /\ place.left \in Nat \ {0}
      /\ Len(rows) \in Nat /\ Lefts = 1 .. Len(rows)
  BY <1>1, LeftTurn
<1>3. PICK P : Paired(P, joined) /\ Halfway(P, place.left, place.right)  BY <1>1, LeftTurn
<1>4. rows' = joined /\ place' = [join |-> place.join + 1, left |-> 1, right |-> 1]  BY DEF JoinDone
<1>5. place' \in Places /\ place'.join = 2  BY <1>2, <1>4 DEF Places
<1>6. \A i \in Lefts : i < place.left  BY <1>1, <1>2
<1>7. \A i \in Lefts : \E n \in 1 .. Len(P) : P[n][1] = i  BY <1>3, <1>6 DEF Halfway
<1> QED  BY <1>2, <1>3, <1>4, <1>5, <1>7 DEF LeftState, TwoTables

\* A SELECT begins with no pair.
LEMMA BeginPairs ==
  ASSUME LeftInv, NEW q, Begin(q)
  PROVE  LeftInv'
<1>1. tables' = tables /\ tables \in Databases  BY DEF Begin, LeftInv
<1>2. SUFFICES ASSUME phase' = "join", OneLeft' PROVE LeftState(place, rows, joined)'
  BY <1>1 DEF LeftInv
<1>3. /\ q.table \in DOMAIN tables /\ query' = q /\ rows' = tables[q.table] /\ joined' = <<>>
      /\ place' = Start
  BY <1>2 DEF Begin, Fail, End
<1>4. place' \in Places /\ place'.join = 1 /\ place'.left = 1 /\ place'.right = 1
  BY <1>3 DEF Start, Places
<1>5. ASSUME Right(1)' \in DOMAIN tables
      PROVE  (\E P : Paired(P, joined) /\ Halfway(P, place.left, place.right))'
  <2>1. TwoTables'  BY <1>1, <1>2, <1>3, <1>5 DEF TwoTables
  <2>2. (Lefts \subseteq Nat /\ Rights \subseteq Nat)'
    BY <2>1 DEF Lefts, Rights
  <2>3. /\ <<>> \in Seq(Lefts' \X ({0} \cup Rights')) /\ <<>> \in Seq(Range(<<>>))
        /\ Len(<<>>) = 0 /\ 1 .. 0 = {}
    BY EmptySeq
  <2>4. Paired(<<>>, joined)'  BY <1>3, <2>3 DEF Paired, IsList
  <2>5. \A i \in Lefts' : ~(i < 1)  BY DEF Lefts
  <2>6. \A r \in Rights' : ~(r < 1)  BY DEF Rights
  <2>7. Halfway(<<>>, place.left, place.right)'  BY <1>4, <2>3, <2>5, <2>6 DEF Halfway
  <2> QED  BY <2>4, <2>7
<1> QED  BY <1>1, <1>3, <1>4, <1>5 DEF LeftState

\* Where tables and statement stay, so does what is said of the rows.
LEMMA LeftStateStays ==
  ASSUME UNCHANGED <<tables, query>>
  PROVE  LeftState(place, rows, joined)' <=> LeftState(place', rows', joined')
  BY DEF LeftState, Paired, Halfway, Pair, OnHolds, Lefts, Rights, Right

\* A step of a SELECT.
LEMMA StepPairs ==
  ASSUME LeftInv, Step
  PROVE  LeftInv'
<1>1. UNCHANGED <<tables, query>>
  BY DEF Step, JoinTableMissing, JoinPair, LeftRowDone, JoinDone, Filter, Show
<1>2. SUFFICES ASSUME phase' = "join", OneLeft PROVE LeftState(place', rows', joined')
  <2>1. OneLeft' <=> OneLeft  BY <1>1 DEF OneLeft
  <2> QED  BY <1>1, <1>2, <2>1, LeftStateStays DEF LeftInv
<1>3. phase = "join"
  BY <1>2 DEF Step, JoinTableMissing, JoinPair, LeftRowDone, JoinDone, Filter, Show, Joining, Fail, End
<1>4. tables \in Databases /\ LeftState(place, rows, joined)  BY <1>2, <1>3 DEF LeftInv
<1>5. CASE JoinPair  BY <1>2, <1>4, <1>5, PairStays
<1>6. CASE LeftRowDone  BY <1>2, <1>4, <1>6, LeftRowStays
<1>7. CASE JoinDone  BY <1>2, <1>4, <1>7, DoneStays
<1>8. CASE JoinTableMissing \/ Filter \/ Show
  BY <1>2, <1>8 DEF JoinTableMissing, Filter, Show, Fail, End
<1> QED  BY <1>5, <1>6, <1>7, <1>8 DEF Step
\* At the end of the JOIN, the pairs of a left row are the rows with its values, and
\* the rows with NULLs those that have no right row.
LEMMA PairsKeepRows ==
  ASSUME RowsTold, LeftInv
  PROVE  LeftRowsKept
<1> DEFINE T == query.table
           U == Right(1)
<1>1. SUFFICES ASSUME phase = "join", place.join = 2, OneLeft,
                      NEW i \in DOMAIN tables[T]
      PROVE  LET left == tables[T][i]
                 of == {n \in DOMAIN rows :
                          \A c \in DOMAIN left : Cell(rows[n], Dotted(T, c)) = left[c]}
                 alone == {n \in of : \A c \in ColumnSet(U) : Cell(rows[n], Dotted(U, c)) = Null}
             IN  of # {} /\ (alone # {} => Cardinality(of) = 1)
  BY DEF LeftRowsKept, OneLeft, Right
<1> DEFINE left == tables[T][i]
           of == {n \in DOMAIN rows :
                    \A c \in DOMAIN left : Cell(rows[n], Dotted(T, c)) = left[c]}
           alone == {n \in of : \A c \in ColumnSet(U) : Cell(rows[n], Dotted(U, c)) = Null}
<1>2. tables \in Databases /\ LeftState(place, rows, joined)  BY <1>1 DEF LeftInv
<1>3. TwoTables  BY <1>1, <1>2 DEF LeftState, TwoTables
<1>4. PICK P : Paired(P, rows) /\ \A j \in Lefts : \E n \in 1 .. Len(P) : P[n][1] = j
  BY <1>1, <1>2 DEF LeftState
<1>5. /\ DOMAIN rows = 1 .. Len(P)
      /\ \A n \in 1 .. Len(P) : P[n][1] \in Lefts /\ P[n][2] \in {0} \cup Rights
      /\ \A n \in 1 .. Len(P) : rows[n] = Pair(P[n][1], P[n][2])
      /\ \A n \in 1 .. Len(P) : P[n][2] = 0 =>
           \A m \in 1 .. Len(P) : P[m][1] = P[n][1] => m = n
  BY <1>4, PairedFacts DEF Paired
<1>6. i \in Lefts /\ DOMAIN tables[T] = Lefts /\ DOMAIN tables[U] = Rights  BY <1>3, CountFacts
<1>7. \A c \in DOMAIN left : IsName(c)
  <2>1. RowFits(left, T)  BY <1>2, <1>3, <1>6, DatabasesAssumption DEF TwoTables
  <2> QED  BY <2>1 DEF RowFits
<1>8. \A n \in 1 .. Len(P) : \A c \in DOMAIN left :
        Cell(rows[n], Dotted(T, c)) = Cell(tables[T][P[n][1]], c)
  <2> SUFFICES ASSUME NEW n \in 1 .. Len(P), NEW c \in DOMAIN left
               PROVE  Cell(rows[n], Dotted(T, c)) = Cell(tables[T][P[n][1]], c)
    OBVIOUS
  <2>1. PICK j \in Lefts, k \in {0} \cup Rights : P[n][1] = j /\ P[n][2] = k  BY <1>5
  <2>2. rows[n] = Pair(j, k) /\ IsName(c)  BY <1>5, <1>7, <2>1
  <2>3. Cell(Pair(j, k), Dotted(T, c)) = Cell(tables[T][j], c)  BY <1>3, <2>2, PairCells
  <2> QED  BY <2>1, <2>2, <2>3
<1>9. \A n \in 1 .. Len(P) : n \in of <=> P[n][1] = i
  <2> TAKE n \in 1 .. Len(P)
  <2>1. CASE P[n][1] = i
    <3>1. \A c \in DOMAIN left : Cell(rows[n], Dotted(T, c)) = left[c]
      BY <1>8, <2>1 DEF Cell
    <3> QED  BY <1>5, <2>1, <3>1
  <2>2. CASE P[n][1] # i
    <3>1. P[n][1] \in DOMAIN tables[T]  BY <1>5, <1>6
    <3>2. PICK c \in DOMAIN left : Cell(tables[T][P[n][1]], c) # left[c]
      BY <1>2, <1>3, <2>2, <3>1 DEF RowsTold, TwoTables
    <3> QED  BY <1>8, <2>2, <3>2
  <2> QED  BY <2>1, <2>2
<1>10. of # {}
  <2>1. PICK n \in 1 .. Len(P) : P[n][1] = i  BY <1>4, <1>6
  <2>2. n \in of  BY <1>9, <2>1
  <2> QED  BY <2>2
<1>11. ASSUME NEW n \in alone PROVE P[n][2] = 0
  <2>1. n \in 1 .. Len(P) /\ \A c \in ColumnSet(U) : Cell(rows[n], Dotted(U, c)) = Null
    BY <1>5, <1>11
  <2>2. \A c \in ColumnSet(U) : Cell(Row(tables, U, P[n][2]), c) = Null
    <3>1. PICK j \in Lefts, k \in {0} \cup Rights : P[n][1] = j /\ P[n][2] = k  BY <1>5, <2>1
    <3>2. rows[n] = Pair(j, k)  BY <1>5, <2>1, <3>1
    <3>3. \A c \in ColumnSet(U) : Cell(Pair(j, k), Dotted(U, c)) = Cell(Row(tables, U, k), c)
      BY <1>3, PairCells
    <3> QED  BY <2>1, <3>1, <3>2, <3>3
  <2>3. CASE P[n][2] \in Rights /\ P[n][2] # 0
    <3>1. \E c \in ColumnSet(U) : Cell(tables[U][P[n][2]], c) # Null
      BY <1>2, <1>3, <1>6, <2>3 DEF RowsTold, TwoTables
    <3>2. Row(tables, U, P[n][2]) = tables[U][P[n][2]]  BY <2>3 DEF Row
    <3> QED  BY <2>2, <3>1, <3>2
  <2> QED  BY <1>5, <2>1, <2>3
<1>12. ASSUME alone # {} PROVE Cardinality(of) = 1
  <2>1. PICK n \in alone : TRUE  BY <1>12
  <2>2. n \in of /\ n \in 1 .. Len(P) /\ P[n][2] = 0  BY <1>5, <1>11
  <2>3. \A m \in of : m = n  BY <1>5, <1>9, <2>2
  <2>4. of = {n}  BY <2>2, <2>3
  <2> HIDE DEF of
  <2> QED  BY <2>4, FS_Singleton
<1> QED  BY <1>10, <1>12

\* In a session too.
ReplLeftInv ==
  /\ LeftInv
  /\ doing # "select" => phase = "idle"

\* A step of the loop is one of the SELECT, or leaves it alone, or changes the tables
\* while there is none.
LEMMA ReplKeepsPairs ==
  ASSUME ReplLeftInv, ReplNext
  PROVE  ReplLeftInv'
<1>0. LeftInv  BY DEF ReplLeftInv
<1>1. ASSUME UNCHANGED queryVars PROVE LeftInv'
  <2>1. LeftState(place, rows, joined)' <=> LeftState(place, rows, joined)
    BY <1>1, LeftStateStays DEF queryVars
  <2> QED  BY <1>0, <1>1, <2>1 DEF LeftInv, OneLeft, queryVars
<1>2. CASE ReadLine \/ InputEnds \/ Tokenize \/ ParseTokens
  <2>1. UNCHANGED queryVars /\ doing # "select"
    BY <1>2 DEF ReadLine, InputEnds, Tokenize, ParseTokens
  <2> QED  BY <1>1, <2>1 DEF ReplLeftInv, queryVars
<1>3. CASE BeginSelect
  <2>1. Begin(stmt) /\ doing' = "select"  BY <1>3 DEF BeginSelect
  <2> QED  BY <1>0, <2>1, BeginPairs DEF ReplLeftInv
<1>4. CASE SelectStep
  <2>1. Step /\ doing = "select" /\ doing' = doing  BY <1>4 DEF SelectStep
  <2> QED  BY <1>0, <2>1, StepPairs DEF ReplLeftInv
<1>5. CASE SelectDone
  <2>1. UNCHANGED queryVars /\ phase = "idle"  BY <1>5 DEF SelectDone
  <2> QED  BY <1>1, <2>1 DEF ReplLeftInv, queryVars
<1>6. CASE ExecuteOther
  <2>1. doing = "execute" /\ tables' \in Databases /\ phase' = phase  BY <1>6 DEF ExecuteOther
  <2> QED  BY <2>1 DEF ReplLeftInv, LeftInv
<1>7. CASE PrintResult
  <2>1. doing = "print" /\ tables' = tables /\ phase' = phase  BY <1>7 DEF PrintResult
  <2> QED  BY <1>0, <2>1 DEF ReplLeftInv, LeftInv
<1> QED  BY <1>2, <1>3, <1>4, <1>5, <1>6, <1>7 DEF ReplNext, Answering

\* A LEFT JOIN keeps its left rows, whatever the tables, the names that they share, the
\* condition and what else is typed, as long as rows are told apart and have a value.
THEOREM LeftRowsStay == RowsTold => (ReplSpec => []LeftRowsKept)
<1> DEFINE R == RowsTold
           RInv == R /\ ReplLeftInv
<1>1. R /\ ReplInit => RInv
  BY DEF ReplInit, Init, ReplLeftInv, LeftInv
<1>2. RInv /\ [ReplNext]_replVars => RInv'
  <2>1. R => R'  BY DEF RowsTold, Cell
  <2>2. ASSUME ReplLeftInv, UNCHANGED replVars PROVE ReplLeftInv'
    <3>1. LeftState(place, rows, joined)' <=> LeftState(place, rows, joined)
      BY <2>2, LeftStateStays DEF replVars
    <3> QED  BY <2>2, <3>1 DEF ReplLeftInv, LeftInv, OneLeft, replVars
  <2> QED  BY <2>1, <2>2, ReplKeepsPairs
<1>3. RInv => LeftRowsKept  BY PairsKeepRows DEF ReplLeftInv
<1> HIDE DEF R, RInv
<1>4. R => (ReplSpec => []LeftRowsKept)  BY <1>1, <1>2, <1>3, PTL DEF ReplSpec
<1> QED  BY <1>4 DEF R

=============================================================================
