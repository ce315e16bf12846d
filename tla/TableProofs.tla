---------------------------- MODULE TableProofs -----------------------------
(***************************************************************************)
(* Proofs about Keys.tla: the order of the keys, byte by byte, is the      *)
(* order of the values, for ints of any size of byte, and values of one    *)
(* type have different keys if they are different.                         *)
(*                                                                         *)
(* Proofs about Table.tla, for any columns, values, statements and primary *)
(* key: the types; that a column holds values of its type; that every row  *)
(* stays under its own key as long as no UPDATE assigns the primary key,   *)
(* and that the statements then mean what SqlTable.tla says.               *)
(***************************************************************************)
EXTENDS Table, TLAPS, Induction, FiniteSetTheorems

----------------------------------------------------------------------------
\* Lemmas about the bytes of a number

\* What the proofs need to know of a byte.
LEMMA ByteFacts == Byte \in Nat /\ Byte > 1 /\ 2 * (Byte \div 2) = Byte
BY KeysAssumption

\* The lowest byte and the rest determine the number.
LEMMA LowestByte ==
  ASSUME NEW u \in Nat
  PROVE  /\ u \div Byte \in Nat /\ u % Byte \in 0..(Byte - 1)
         /\ u = Byte * (u \div Byte) + (u % Byte)
<1> DEFINE q == u \div Byte
<1>1. q \in Int /\ u % Byte \in 0..(Byte - 1) /\ u = Byte * q + (u % Byte)
  BY ByteFacts
<1>2. q >= 0
  <2> SUFFICES ASSUME q <= -1 PROVE FALSE  BY <1>1
  <2> HIDE DEF q
  <2>1. Byte * q <= -Byte  BY <1>1, ByteFacts
  <2> QED  BY <2>1, <1>1, ByteFacts
<1> QED  BY <1>1, <1>2

\* Two numbers are in the order of what is left without the lowest byte or, if
\* that is the same, of the lowest byte.
LEMMA OrderByRest ==
  ASSUME NEW a \in Nat, NEW b \in Nat
  PROVE  /\ a < b <=> \/ a \div Byte < b \div Byte
                      \/ (a \div Byte = b \div Byte /\ a % Byte < b % Byte)
         /\ a = b <=> a \div Byte = b \div Byte /\ a % Byte = b % Byte
<1> DEFINE p == a \div Byte
           q == b \div Byte
           x == a % Byte
           y == b % Byte
<1>1. /\ p \in Nat /\ x \in 0..(Byte - 1) /\ a = Byte * p + x
      /\ q \in Nat /\ y \in 0..(Byte - 1) /\ b = Byte * q + y
  BY LowestByte
<1> HIDE DEF p, q, x, y
<1>2. ASSUME p < q PROVE a < b
  <2>1. Byte * (p + 1) <= Byte * q  BY <1>1, <1>2, ByteFacts
  <2>2. Byte * (p + 1) = Byte * p + Byte  BY <1>1, ByteFacts
  <2> QED  BY <2>1, <2>2, <1>1, ByteFacts
<1>3. ASSUME q < p PROVE b < a
  <2>1. Byte * (q + 1) <= Byte * p  BY <1>1, <1>3, ByteFacts
  <2>2. Byte * (q + 1) = Byte * q + Byte  BY <1>1, ByteFacts
  <2> QED  BY <2>1, <2>2, <1>1, ByteFacts
<1>4. ASSUME p = q PROVE (a < b <=> x < y) /\ (a = b <=> x = y)
  BY <1>1, <1>4, ByteFacts
<1>5. (a < b <=> p < q \/ (p = q /\ x < y)) /\ (a = b <=> p = q /\ x = y)
  BY <1>1, <1>2, <1>3, <1>4, ByteFacts
<1> QED  BY <1>5 DEF p, q, x, y

\* A shift by a byte takes a factor of Byte from a bound.
LEMMA ShiftedBound ==
  ASSUME NEW u \in Nat, NEW m \in Nat, u < m * Byte
  PROVE  u \div Byte < m
<1> DEFINE q == u \div Byte
           x == u % Byte
<1>1. q \in Nat /\ x \in 0..(Byte - 1) /\ u = Byte * q + x
  BY LowestByte
<1> HIDE DEF q, x
<1> SUFFICES ASSUME q >= m PROVE FALSE  BY <1>1 DEF q
<1>2. Byte * q >= Byte * m  BY <1>1, ByteFacts
<1>3. Byte * m = m * Byte  BY ByteFacts
<1> QED  BY <1>1, <1>2, <1>3, ByteFacts

\* Two strings of eight bytes are in the order of the first that differs.
LEMMA LexLessEight ==
  ASSUME NEW a1, NEW a2, NEW a3, NEW a4, NEW a5, NEW a6, NEW a7, NEW a8,
         NEW b1, NEW b2, NEW b3, NEW b4, NEW b5, NEW b6, NEW b7, NEW b8
  PROVE  LexLess(<<a1, a2, a3, a4, a5, a6, a7, a8>>, <<b1, b2, b3, b4, b5, b6, b7, b8>>)
         <=> \/ a1 < b1
             \/ a1 = b1 /\ a2 < b2
             \/ a1 = b1 /\ a2 = b2 /\ a3 < b3
             \/ a1 = b1 /\ a2 = b2 /\ a3 = b3 /\ a4 < b4
             \/ a1 = b1 /\ a2 = b2 /\ a3 = b3 /\ a4 = b4 /\ a5 < b5
             \/ a1 = b1 /\ a2 = b2 /\ a3 = b3 /\ a4 = b4 /\ a5 = b5 /\ a6 < b6
             \/ a1 = b1 /\ a2 = b2 /\ a3 = b3 /\ a4 = b4 /\ a5 = b5 /\ a6 = b6 /\ a7 < b7
             \/ a1 = b1 /\ a2 = b2 /\ a3 = b3 /\ a4 = b4 /\ a5 = b5 /\ a6 = b6 /\ a7 = b7
                /\ a8 < b8
<1> DEFINE s == <<a1, a2, a3, a4, a5, a6, a7, a8>>
           t == <<b1, b2, b3, b4, b5, b6, b7, b8>>
           At(n) == (\A i \in 1..(n - 1) : i <= 8 /\ s[i] = t[i]) /\ s[n] < t[n]
<1>1. LexLess(s, t) <=> \E n \in 1..8 : At(n)
  <2>1. Len(s) = 8 /\ Len(t) = 8  OBVIOUS
  <2> HIDE DEF s, t
  <2> QED  BY <2>1 DEF LexLess
<1>2. At(1) <=> a1 < b1  OBVIOUS
<1>3. At(2) <=> a1 = b1 /\ a2 < b2
  <2>1. 1..(2 - 1) = {1}  OBVIOUS
  <2> QED  BY <2>1
<1>4. At(3) <=> a1 = b1 /\ a2 = b2 /\ a3 < b3
  <2>1. 1..(3 - 1) = {1, 2}  OBVIOUS
  <2> QED  BY <2>1
<1>5. At(4) <=> a1 = b1 /\ a2 = b2 /\ a3 = b3 /\ a4 < b4
  <2>1. 1..(4 - 1) = {1, 2, 3}  OBVIOUS
  <2> QED  BY <2>1
<1>6. At(5) <=> a1 = b1 /\ a2 = b2 /\ a3 = b3 /\ a4 = b4 /\ a5 < b5
  <2>1. 1..(5 - 1) = {1, 2, 3, 4}  OBVIOUS
  <2> QED  BY <2>1
<1>7. At(6) <=> a1 = b1 /\ a2 = b2 /\ a3 = b3 /\ a4 = b4 /\ a5 = b5 /\ a6 < b6
  <2>1. 1..(6 - 1) = {1, 2, 3, 4, 5}  OBVIOUS
  <2> QED  BY <2>1
<1>8. At(7) <=> /\ a1 = b1 /\ a2 = b2 /\ a3 = b3 /\ a4 = b4 /\ a5 = b5 /\ a6 = b6
                /\ a7 < b7
  <2>1. 1..(7 - 1) = {1, 2, 3, 4, 5, 6}  OBVIOUS
  <2> QED  BY <2>1
<1>9. At(8) <=> /\ a1 = b1 /\ a2 = b2 /\ a3 = b3 /\ a4 = b4 /\ a5 = b5 /\ a6 = b6
                /\ a7 = b7 /\ a8 < b8
  <2>1. 1..(8 - 1) = {1, 2, 3, 4, 5, 6, 7}  OBVIOUS
  <2> QED  BY <2>1
<1>10. 1..8 = {1, 2, 3, 4, 5, 6, 7, 8}  OBVIOUS
<1> HIDE DEF At
<1>11. (\E n \in 1..8 : At(n))
       <=> At(1) \/ At(2) \/ At(3) \/ At(4) \/ At(5) \/ At(6) \/ At(7) \/ At(8)
  BY <1>10
<1> QED  BY <1>1, <1>11, <1>2, <1>3, <1>4, <1>5, <1>6, <1>7, <1>8, <1>9

\* After seven shifts one byte is left.
LEMMA HighestByte ==
  ASSUME NEW u \in Nat, u < 2 * IntLimit
  PROVE  ((((((u \div Byte) \div Byte) \div Byte) \div Byte)
             \div Byte) \div Byte) \div Byte < Byte
<1> DEFINE p2 == Byte * Byte
           p3 == p2 * Byte
           p4 == p3 * Byte
           p5 == p4 * Byte
           p6 == p5 * Byte
           p7 == p6 * Byte
           u1 == u \div Byte
           u2 == u1 \div Byte
           u3 == u2 \div Byte
           u4 == u3 \div Byte
           u5 == u4 \div Byte
           u6 == u5 \div Byte
           u7 == u6 \div Byte
           h == Byte \div 2
           h2 == h * Byte
           h3 == h2 * Byte
           h4 == h3 * Byte
           h5 == h4 * Byte
           h6 == h5 * Byte
           h7 == h6 * Byte
<1>1. IntLimit = h7 * Byte  BY DEF IntLimit
<1>2. h \in Nat /\ 2 * h = Byte  BY ByteFacts
<1> HIDE DEF h
<1>3. h2 \in Nat /\ p2 \in Nat /\ 2 * h2 = p2  BY <1>2, ByteFacts
<1> HIDE DEF h2, p2
<1>4. h3 \in Nat /\ p3 \in Nat /\ 2 * h3 = p3  BY <1>3, ByteFacts
<1> HIDE DEF h3, p3
<1>5. h4 \in Nat /\ p4 \in Nat /\ 2 * h4 = p4  BY <1>4, ByteFacts
<1> HIDE DEF h4, p4
<1>6. h5 \in Nat /\ p5 \in Nat /\ 2 * h5 = p5  BY <1>5, ByteFacts
<1> HIDE DEF h5, p5
<1>7. h6 \in Nat /\ p6 \in Nat /\ 2 * h6 = p6  BY <1>6, ByteFacts
<1> HIDE DEF h6, p6
<1>8. h7 \in Nat /\ p7 \in Nat /\ 2 * h7 = p7  BY <1>7, ByteFacts
<1>9. u < p7 * Byte
  <2> HIDE DEF h7, p7
  <2> QED  BY <1>1, <1>8, ByteFacts
<1>10. u1 \in Nat /\ u1 < p7  BY <1>8, <1>9, LowestByte, ShiftedBound
<1> HIDE DEF u1
<1>11. u2 \in Nat /\ u2 < p6  BY <1>7, <1>10, LowestByte, ShiftedBound
<1> HIDE DEF u2
<1>12. u3 \in Nat /\ u3 < p5  BY <1>6, <1>11, LowestByte, ShiftedBound DEF p6
<1> HIDE DEF u3
<1>13. u4 \in Nat /\ u4 < p4  BY <1>5, <1>12, LowestByte, ShiftedBound DEF p5
<1> HIDE DEF u4
<1>14. u5 \in Nat /\ u5 < p3  BY <1>4, <1>13, LowestByte, ShiftedBound DEF p4
<1> HIDE DEF u5
<1>15. u6 \in Nat /\ u6 < p2  BY <1>3, <1>14, LowestByte, ShiftedBound DEF p3
<1> HIDE DEF u6
<1>16. u7 < Byte  BY <1>15, ByteFacts, LowestByte, ShiftedBound DEF p2
<1> QED  BY <1>16 DEF u1, u2, u3, u4, u5, u6

\* The eight bytes of a number are in the order of the numbers, and tell them
\* apart.
LEMMA BigEndianOrder ==
  ASSUME NEW a \in Nat, NEW b \in Nat, a < 2 * IntLimit, b < 2 * IntLimit
  PROVE  /\ LexLess(BigEndian(a), BigEndian(b)) <=> a < b
         /\ BigEndian(a) = BigEndian(b) => a = b
<1> DEFINE a1 == a \div Byte
           a2 == a1 \div Byte
           a3 == a2 \div Byte
           a4 == a3 \div Byte
           a5 == a4 \div Byte
           a6 == a5 \div Byte
           a7 == a6 \div Byte
           b1 == b \div Byte
           b2 == b1 \div Byte
           b3 == b2 \div Byte
           b4 == b3 \div Byte
           b5 == b4 \div Byte
           b6 == b5 \div Byte
           b7 == b6 \div Byte
<1>1. /\ BigEndian(a) = <<a7 % Byte, a6 % Byte, a5 % Byte, a4 % Byte,
                          a3 % Byte, a2 % Byte, a1 % Byte, a % Byte>>
      /\ BigEndian(b) = <<b7 % Byte, b6 % Byte, b5 % Byte, b4 % Byte,
                          b3 % Byte, b2 % Byte, b1 % Byte, b % Byte>>
  BY DEF BigEndian
<1>a. a1 \in Nat /\ b1 \in Nat  BY LowestByte
<1>b. a2 \in Nat /\ b2 \in Nat  BY <1>a, LowestByte
<1>c. a3 \in Nat /\ b3 \in Nat  BY <1>b, LowestByte
<1>d. a4 \in Nat /\ b4 \in Nat  BY <1>c, LowestByte
<1>e. a5 \in Nat /\ b5 \in Nat  BY <1>d, LowestByte
<1>f. a6 \in Nat /\ b6 \in Nat  BY <1>e, LowestByte
<1>g. a7 \in Nat /\ b7 \in Nat  BY <1>f, LowestByte
<1>i. a7 < Byte /\ b7 < Byte  BY HighestByte
<1> HIDE DEF a1, a2, a3, a4, a5, a6, a7, b1, b2, b3, b4, b5, b6, b7
<1>2. a7 % Byte = a7 /\ b7 % Byte = b7
  <2>1. ASSUME NEW u \in Nat, u < Byte PROVE u % Byte = u
    BY <2>1, ByteFacts
  <2> QED  BY <2>1, <1>g, <1>i
<1>3. /\ a6 < b6 <=> a7 < b7 \/ (a7 = b7 /\ a6 % Byte < b6 % Byte)
      /\ a6 = b6 <=> a7 = b7 /\ a6 % Byte = b6 % Byte
  BY <1>f, OrderByRest DEF a7, b7
<1>4. /\ a5 < b5 <=> a6 < b6 \/ (a6 = b6 /\ a5 % Byte < b5 % Byte)
      /\ a5 = b5 <=> a6 = b6 /\ a5 % Byte = b5 % Byte
  BY <1>e, OrderByRest DEF a6, b6
<1>5. /\ a4 < b4 <=> a5 < b5 \/ (a5 = b5 /\ a4 % Byte < b4 % Byte)
      /\ a4 = b4 <=> a5 = b5 /\ a4 % Byte = b4 % Byte
  BY <1>d, OrderByRest DEF a5, b5
<1>6. /\ a3 < b3 <=> a4 < b4 \/ (a4 = b4 /\ a3 % Byte < b3 % Byte)
      /\ a3 = b3 <=> a4 = b4 /\ a3 % Byte = b3 % Byte
  BY <1>c, OrderByRest DEF a4, b4
<1>7. /\ a2 < b2 <=> a3 < b3 \/ (a3 = b3 /\ a2 % Byte < b2 % Byte)
      /\ a2 = b2 <=> a3 = b3 /\ a2 % Byte = b2 % Byte
  BY <1>b, OrderByRest DEF a3, b3
<1>8. /\ a1 < b1 <=> a2 < b2 \/ (a2 = b2 /\ a1 % Byte < b1 % Byte)
      /\ a1 = b1 <=> a2 = b2 /\ a1 % Byte = b1 % Byte
  BY <1>a, OrderByRest DEF a2, b2
<1>9. /\ a < b <=> a1 < b1 \/ (a1 = b1 /\ a % Byte < b % Byte)
      /\ a = b <=> a1 = b1 /\ a % Byte = b % Byte
  BY OrderByRest DEF a1, b1
<1> DEFINE x6 == a6 % Byte
           x5 == a5 % Byte
           x4 == a4 % Byte
           x3 == a3 % Byte
           x2 == a2 % Byte
           x1 == a1 % Byte
           x0 == a % Byte
           y6 == b6 % Byte
           y5 == b5 % Byte
           y4 == b4 % Byte
           y3 == b3 % Byte
           y2 == b2 % Byte
           y1 == b1 % Byte
           y0 == b % Byte
<1>10. /\ BigEndian(a) = <<a7, x6, x5, x4, x3, x2, x1, x0>>
       /\ BigEndian(b) = <<b7, y6, y5, y4, y3, y2, y1, y0>>
  BY <1>1, <1>2
<1> HIDE DEF x0, x1, x2, x3, x4, x5, x6, y0, y1, y2, y3, y4, y5, y6
<1>11. LexLess(BigEndian(a), BigEndian(b))
       <=> \/ a7 < b7
           \/ a7 = b7 /\ x6 < y6
           \/ a7 = b7 /\ x6 = y6 /\ x5 < y5
           \/ a7 = b7 /\ x6 = y6 /\ x5 = y5 /\ x4 < y4
           \/ a7 = b7 /\ x6 = y6 /\ x5 = y5 /\ x4 = y4 /\ x3 < y3
           \/ a7 = b7 /\ x6 = y6 /\ x5 = y5 /\ x4 = y4 /\ x3 = y3 /\ x2 < y2
           \/ a7 = b7 /\ x6 = y6 /\ x5 = y5 /\ x4 = y4 /\ x3 = y3 /\ x2 = y2 /\ x1 < y1
           \/ a7 = b7 /\ x6 = y6 /\ x5 = y5 /\ x4 = y4 /\ x3 = y3 /\ x2 = y2 /\ x1 = y1
              /\ x0 < y0
  BY <1>10, LexLessEight
<1>12. a < b <=> LexLess(BigEndian(a), BigEndian(b))
  BY Zenon, <1>3, <1>4, <1>5, <1>6, <1>7, <1>8, <1>9, <1>11
  DEF x0, x1, x2, x3, x4, x5, x6, y0, y1, y2, y3, y4, y5, y6
<1>13. BigEndian(a) = BigEndian(b) =>
         /\ a7 = b7 /\ x6 = y6 /\ x5 = y5 /\ x4 = y4
         /\ x3 = y3 /\ x2 = y2 /\ x1 = y1 /\ x0 = y0
  BY <1>10
<1>14. BigEndian(a) = BigEndian(b) => a = b
  BY <1>3, <1>4, <1>5, <1>6, <1>7, <1>8, <1>9, <1>13
  DEF x0, x1, x2, x3, x4, x5, x6, y0, y1, y2, y3, y4, y5, y6
<1> QED  BY <1>12, <1>14

----------------------------------------------------------------------------
\* Theorems

\* table.go:52: the keys of one column's values sort as the values do, negative
\* ints included.
THEOREM KeysSorted ==
  ASSUME NEW v \in Values, NEW w \in Values, v # Null, Type(v) = Type(w)
  PROVE  LexLess(SerializeKey(v), SerializeKey(w)) <=> ~AtMost(w, v)
<1>0. w # Null
  <2>1. Type(v) # "NULL"  BY DEF Values, Type, Null
  <2> QED  BY <2>1 DEF Type, Null
<1>1. CASE v \in {"INT"} \X Ints
  <2>1. /\ v = <<"INT", v[2]>> /\ v[2] \in Ints /\ Type(v) = "INT"
    BY <1>1 DEF Type
  <2>2. w = <<"INT", w[2]>> /\ w[2] \in Ints
    <3>1. w[1] = "INT"  BY <2>1 DEF Type
    <3> QED  BY <3>1, <1>0 DEF Values, Null
  <2> DEFINE a == v[2] + IntLimit
             b == w[2] + IntLimit
  <2>3. IntLimit \in Int /\ v[2] \in Int /\ w[2] \in Int
        /\ v[2] >= -IntLimit /\ v[2] < IntLimit
        /\ w[2] >= -IntLimit /\ w[2] < IntLimit
    <3>1. IntLimit \in Int
      <4> DEFINE h == Byte \div 2
      <4>1. h \in Int /\ Byte \in Int  BY ByteFacts
      <4> HIDE DEF h
      <4>2. h * Byte * Byte * Byte * Byte * Byte * Byte * Byte \in Int  BY <4>1
      <4> QED  BY <4>2 DEF IntLimit, h
    <3>2. v[2] \in -IntLimit .. IntLimit - 1 /\ w[2] \in -IntLimit .. IntLimit - 1
      BY <2>1, <2>2, KeysAssumption
    <3> QED  BY <3>1, <3>2
  <2>4. a \in Nat /\ b \in Nat /\ a < 2 * IntLimit /\ b < 2 * IntLimit
        /\ (a < b <=> ~(w[2] <= v[2]))
    BY <2>3
  <2>5. SerializeKey(v) = BigEndian(a) /\ SerializeKey(w) = BigEndian(b)
    <3>1. Type(w) = "INT"  BY <2>1
    <3> QED  BY <3>1, <2>1 DEF SerializeKey
  <2>6. AtMost(w, v) <=> w[2] <= v[2]
    BY <2>1, <1>0 DEF AtMost
  <2> HIDE DEF a, b
  <2> QED  BY <2>4, <2>5, <2>6, BigEndianOrder
<1>2. CASE v \in {"TEXT"} \X Texts
  <2>1. Type(v) = "TEXT" /\ Type(w) = "TEXT"  BY <1>2 DEF Type
  <2>2. SerializeKey(v) = Codes(v[2]) /\ SerializeKey(w) = Codes(w[2])
    BY <2>1 DEF SerializeKey
  <2>3. Text(v) = v[2] /\ Text(w) = w[2]
    <3>1. \A x : Type(x) = "TEXT" => Text(x) = x[2]  BY DEF Text
    <3> QED  BY <2>1, <3>1
  <2>4. AtMost(w, v) <=> ~LexLess(Codes(v[2]), Codes(w[2]))
    BY <1>0, <2>1, <2>3 DEF AtMost
  <2> QED  BY <2>2, <2>4
<1>3. CASE v \in {"BOOL"} \X BOOLEAN
  <2>1. Type(v) = "BOOL" /\ Type(w) = "BOOL" /\ v[2] \in BOOLEAN
    BY <1>3 DEF Type
  <2>2. w[2] \in BOOLEAN
    <3>1. w[1] = "BOOL"  BY <2>1 DEF Type
    <3> QED  BY <3>1, <1>0 DEF Values, Null
  <2>3. /\ SerializeKey(v) = IF v[2] THEN <<1>> ELSE <<0>>
        /\ SerializeKey(w) = IF w[2] THEN <<1>> ELSE <<0>>
    BY <2>1 DEF SerializeKey
  <2>4. Text(v) = BoolText[v[2]] /\ Text(w) = BoolText[w[2]]
    <3>1. \A x : Type(x) = "BOOL" => Text(x) = BoolText[x[2]]  BY DEF Text
    <3> QED  BY <2>1, <3>1
  <2>5. AtMost(w, v) <=> ~LexLess(Codes(BoolText[v[2]]), Codes(BoolText[w[2]]))
    BY <1>0, <2>1, <2>4 DEF AtMost
  <2>6. ASSUME NEW s, NEW t PROVE LexLess(<<s>>, <<t>>) <=> s < t
    BY DEF LexLess
  <2>7. ASSUME NEW s \in Seq(Nat) PROVE ~LexLess(s, s)
    BY DEF LexLess
  <2>8. \A b \in BOOLEAN : Codes(BoolText[b]) \in Seq(Nat)
    <3>1. \A b \in BOOLEAN : BoolText[b] \in Seq(DOMAIN Code)  BY ValuesAssumption
    <3>2. \A c \in DOMAIN Code : Code[c] \in Nat  BY ValuesAssumption
    <3>3. ASSUME NEW t \in Seq(DOMAIN Code) PROVE Codes(t) \in Seq(Nat)
      <4>1. DOMAIN t = 1..Len(t) /\ \A i \in 1..Len(t) : t[i] \in DOMAIN Code
        OBVIOUS
      <4>2. Codes(t) \in [1..Len(t) -> Nat]  BY <4>1, <3>2 DEF Codes
      <4> QED  BY <4>2
    <3> QED  BY <3>1, <3>3
  <2>9. LexLess(Codes(BoolText[v[2]]), Codes(BoolText[w[2]])) <=> ~v[2] /\ w[2]
    BY <2>1, <2>2, <2>7, <2>8, ValuesAssumption
  <2>10. LexLess(SerializeKey(v), SerializeKey(w)) <=> ~v[2] /\ w[2]
    BY <2>1, <2>2, <2>3, <2>6
  <2> QED  BY <2>5, <2>9, <2>10
<1> QED  BY <1>1, <1>2, <1>3 DEF Values

----------------------------------------------------------------------------
\* Rows under their keys

\* What is needed of an UPDATE in progress: it leaves the primary key alone if
\* all UPDATEs do.
ChangeAllowed ==
  stmt.kind = "update" => stmt.change \in Changes /\ Allowed(stmt.change)

\* What is in the column of the primary key, or is the row id, has its type.
KeysTyped == ~AssignsKey => \A k \in DOMAIN tree : KeyValue(tree[k]) \in KeyValues

\* Rows are found under their keys in every state, and what can change them is
\* restricted in every state: inductive together.
KeyInv == TypeOK /\ ChangeAllowed /\ RowsUnderTheirKeys /\ KeysTyped

\* What all of them say of the rows depends on the tree and the primary key.
LEMMA RowsUnchanged ==
  ASSUME RowsUnderTheirKeys, KeysTyped, UNCHANGED <<pk, tree>>
  PROVE  RowsUnderTheirKeys' /\ KeysTyped'
<1>1. \A row : KeyValue(row)' = KeyValue(row')  BY DEF KeyValue, Cell
<1> QED  BY DEF RowsUnderTheirKeys, KeysTyped, KeyValues, KeyType, KeyValue, Cell

----------------------------------------------------------------------------
\* Lemmas about the operators

\* coerceType makes a value of the type it is asked for, and no NULL of a value.
LEMMA CoerceTypes ==
  ASSUME NEW v \in Values \cup {Error}, NEW type \in {"INT", "TEXT", "BOOL"},
         Coercible(v, type), v # Null
  PROVE  /\ Coerce(v, type) \in Values
         /\ Type(Coerce(v, type)) = type
         /\ Coerce(v, type) # Null
<1>1. CASE v \in {"INT"} \X Ints
  <2>1. v = <<"INT", v[2]>> /\ v[2] \in Ints  BY <1>1
  <2>2. IntText[v[2]] \in Texts  BY <2>1, ValuesAssumption
  <2> QED  BY <2>1, <2>2 DEF Coerce, Coercible, Type, Text, Values, Null
<1>2. CASE v \in {"TEXT"} \X Texts
  <2>1. v = <<"TEXT", v[2]>> /\ v[2] \in Texts  BY <1>2
  <2> QED  BY <2>1 DEF Coerce, Coercible, Type, Text, Values, Null
<1>3. CASE v \in {"BOOL"} \X BOOLEAN
  <2>1. v = <<"BOOL", v[2]>> /\ v[2] \in BOOLEAN  BY <1>3
  <2>2. BoolText[v[2]] \in Texts  BY <2>1, ValuesAssumption
  <2> QED  BY <2>1, <2>2 DEF Coerce, Coercible, Type, Text, Values, Null
<1>4. CASE v = Error
  BY <1>4 DEF Coercible, Type, Error
<1> QED  BY <1>1, <1>2, <1>3, <1>4 DEF Values

\* Assigning columns other than the primary key leaves the key of a row.
LEMMA WithKeepsKey ==
  ASSUME NEW change \in Changes, pk \in PrimaryKeys, pk \notin DOMAIN change,
         NEW read, NEW row
  PROVE  KeyValue(With(change, read, row)) = KeyValue(row)
<1> DEFINE new == With(change, read, row)
<1>1. DOMAIN change \subseteq Columns /\ RowId \notin DOMAIN change
  BY TableAssumption
<1>2. ASSUME NEW c, c \notin DOMAIN change
      PROVE  Cell(new, c) = Cell(row, c)
  BY <1>2 DEF With, Cell
<1> HIDE DEF new
<1>3. Cell(new, pk) = Cell(row, pk) /\ Cell(new, RowId) = Cell(row, RowId)
  BY <1>1, <1>2
<1> QED  BY <1>3 DEF KeyValue, new

\* What INSERT puts in the primary key's column is a value of its type.
LEMMA TypedKey ==
  ASSUME NEW given \in Inputs, pk \in PrimaryKeys, Acceptable(given),
         pk # NoColumn, Cell(given, pk) # Null
  PROVE  /\ pk \in DOMAIN given
         /\ Typed(given)[pk] \in Values
         /\ Type(Typed(given)[pk]) = KeyType
         /\ Typed(given)[pk] # Null
<1>1. pk \in DOMAIN given /\ given[pk] # Null  BY DEF Cell
<1>2. pk \in Columns /\ given[pk] \in Values \cup {Error}
  BY <1>1, TableAssumption
<1>3. ColumnType[pk] \in {"INT", "TEXT", "BOOL"}  BY <1>2, TableAssumption
<1>4. Coercible(given[pk], ColumnType[pk])  BY <1>1 DEF Acceptable
<1>5. Typed(given)[pk] = Coerce(given[pk], ColumnType[pk])
  BY <1>1 DEF Typed
<1> QED  BY <1>1, <1>2, <1>3, <1>4, <1>5, CoerceTypes DEF KeyType

----------------------------------------------------------------------------
\* The invariant

\* An empty table.
LEMMA InitKeyInv == Init => KeyInv
<1> SUFFICES ASSUME Init PROVE KeyInv  OBVIOUS
<1>1. TypeOK  BY DEF Init, TypeOK
<1>2. ChangeAllowed  BY DEF Init, ChangeAllowed, NoStmt
<1>3. RowsUnderTheirKeys /\ KeysTyped  BY DEF Init, RowsUnderTheirKeys, KeysTyped
<1> QED  BY <1>1, <1>2, <1>3 DEF KeyInv

\* An INSERT leaves the statement in progress, of which there is none.
LEMMA InsertKeeps ==
  ASSUME KeyInv, NEW given \in Inputs,
         InsertFails(given) \/ InsertWithKey(given) \/ InsertWithRowId(given)
  PROVE  KeyInv'
<1> USE DEF KeyInv
<1>1. ChangeAllowed'
  BY DEF ChangeAllowed, NoStmt, InsertFails, InsertWithKey, InsertWithRowId, Allowed
<1>2. reply' \in [status : {"ok", "error"}, count : Nat]
  BY DEF Reply, InsertFails, InsertWithKey, InsertWithRowId
<1>3. CASE InsertFails(given)
  <2>1. UNCHANGED <<pk, tree, next, stmt, scan>>  BY <1>3 DEF InsertFails
  <2>2. TypeOK'  BY <2>1, <1>2 DEF TypeOK, KeysOfTable, KeyValues, KeyType
  <2>3. RowsUnderTheirKeys' /\ KeysTyped'  BY <2>1, RowsUnchanged
  <2> QED  BY <1>1, <2>2, <2>3
<1>4. CASE InsertWithKey(given)
  <2> DEFINE row == Typed(given)
             key == SerializeKey(row[pk])
  <2>1. /\ Acceptable(given) /\ pk # NoColumn /\ Cell(given, pk) # Null
        /\ UNCHANGED <<pk, next, stmt, scan>>
    BY <1>4 DEF InsertWithKey
  <2>2. /\ pk \in DOMAIN given
        /\ row[pk] \in Values /\ Type(row[pk]) = KeyType /\ row[pk] # Null
    BY <2>1, TypedKey DEF TypeOK
  <2>3. row[pk] \in KeyValues /\ key \in KeysOfTable
    BY <2>2 DEF KeyValues, KeysOfTable
  <2>4. KeyValue(row) = row[pk]
    <3>1. pk \in DOMAIN row  BY <2>2 DEF Typed
    <3>2. Cell(row, pk) = row[pk]  BY <3>1 DEF Cell
    <3> QED  BY <3>2, <2>2 DEF KeyValue
  <2>5. \/ UNCHANGED tree
        \/ tree' = [k \in DOMAIN tree \cup {key} |-> IF k = key THEN row ELSE tree[k]]
    BY <1>4 DEF InsertWithKey
  <2>8. SerializeKey(KeyValue(row)) = key  BY <2>4
  <2> HIDE DEF row, key
  <2>6. TypeOK'
    <3>1. (DOMAIN tree)' \subseteq KeysOfTable
      BY <2>3, <2>5 DEF TypeOK
    <3> QED  BY <3>1, <2>1, <1>2 DEF TypeOK, KeysOfTable, KeyValues, KeyType
  <2>7. RowsUnderTheirKeys' /\ KeysTyped'
    <3>1. SUFFICES ASSUME ~AssignsKey, NEW k \in DOMAIN tree'
                   PROVE  /\ SerializeKey(KeyValue(tree'[k])) = k
                          /\ KeyValue(tree'[k]) \in KeyValues
      BY <2>1 DEF RowsUnderTheirKeys, KeysTyped, KeyValues, KeyType, KeyValue, Cell
    <3>2. CASE k \in DOMAIN tree /\ tree'[k] = tree[k]
      BY <3>1, <3>2 DEF RowsUnderTheirKeys, KeysTyped
    <3>3. CASE k = key /\ tree'[k] = row  BY <3>3, <2>3, <2>4, <2>8
    <3> QED  BY <2>5, <3>1, <3>2, <3>3
  <2> QED  BY <1>1, <2>6, <2>7
<1>5. CASE InsertWithRowId(given)
  <2> DEFINE id == <<"INT", next>>
             key == SerializeKey(id)
             row == [c \in DOMAIN given \cup {RowId} |->
                       IF c = RowId THEN id ELSE Typed(given)[c]]
  <2>1. /\ pk = NoColumn /\ next \in Ints /\ next' = next + 1
        /\ UNCHANGED <<pk, stmt, scan>>
    BY <1>5 DEF InsertWithRowId
  <2>2. id # Null /\ id \in Values /\ Type(id) = KeyType
    BY <2>1 DEF Null, Values, Type, KeyType
  <2>3. id \in KeyValues /\ key \in KeysOfTable
    BY <2>2 DEF KeyValues, KeysOfTable
  <2>4. KeyValue(row) = id
    <3>1. pk \notin DOMAIN row
      <4>1. DOMAIN given \subseteq Columns  BY TableAssumption
      <4>2. NoColumn \notin Columns /\ NoColumn # RowId
        BY TableAssumption
      <4> QED  BY <4>1, <4>2, <2>1
    <3>2. Cell(row, pk) = Null  BY <3>1 DEF Cell
    <3>3. Cell(row, RowId) = id  BY DEF Cell
    <3> QED  BY <3>2, <3>3 DEF KeyValue
  <2>5. \/ UNCHANGED tree
        \/ tree' = [k \in DOMAIN tree \cup {key} |-> IF k = key THEN row ELSE tree[k]]
    BY <1>5 DEF InsertWithRowId
  <2>8. SerializeKey(KeyValue(row)) = key  BY <2>4
  <2> HIDE DEF row, id, key
  <2>6. TypeOK'
    <3>1. (DOMAIN tree)' \subseteq KeysOfTable
      BY <2>3, <2>5 DEF TypeOK
    <3>2. next' \in Nat  BY <2>1 DEF TypeOK
    <3> QED  BY <3>1, <3>2, <2>1, <1>2 DEF TypeOK, KeysOfTable, KeyValues, KeyType
  <2>7. RowsUnderTheirKeys' /\ KeysTyped'
    <3>1. SUFFICES ASSUME ~AssignsKey, NEW k \in DOMAIN tree'
                   PROVE  /\ SerializeKey(KeyValue(tree'[k])) = k
                          /\ KeyValue(tree'[k]) \in KeyValues
      BY <2>1 DEF RowsUnderTheirKeys, KeysTyped, KeyValues, KeyType, KeyValue, Cell
    <3>2. CASE k \in DOMAIN tree /\ tree'[k] = tree[k]
      BY <3>1, <3>2 DEF RowsUnderTheirKeys, KeysTyped
    <3>3. CASE k = key /\ tree'[k] = row  BY <3>3, <2>3, <2>4, <2>8
    <3> QED  BY <2>5, <3>1, <3>2, <3>3
  <2> QED  BY <1>1, <2>6, <2>7
<1> QED  BY <1>3, <1>4, <1>5

\* So do the beginning of a statement, which reads the tree and keeps it,
LEMMA BeginKeeps ==
  ASSUME KeyInv, NEW kind \in {"update", "delete"}, NEW where \in Wheres,
         NEW change \in Changes \cup {NoChange},
         kind = "update" => change \in Changes /\ Allowed(change),
         Begin(kind, where, change)
  PROVE  KeyInv'
<1>1. /\ stmt' = [kind |-> kind, where |-> where, change |-> change,
                  left |-> DOMAIN tree, count |-> 0]
      /\ scan' = tree
      /\ UNCHANGED <<pk, tree, next, reply>>
  BY DEF Begin
<1>2. TypeOK'
  <2>1. stmt' \in [kind : {"update", "delete"}, where : Wheres,
                   change : Changes \cup {NoChange},
                   left : SUBSET DOMAIN scan', count : Nat]
    BY <1>1
  <2> QED  BY <1>1, <2>1 DEF KeyInv, TypeOK, KeysOfTable, KeyValues, KeyType
<1>3. ChangeAllowed'  BY <1>1 DEF ChangeAllowed, Allowed
<1>4. RowsUnderTheirKeys' /\ KeysTyped'  BY <1>1, RowsUnchanged DEF KeyInv
<1> QED  BY <1>2, <1>3, <1>4 DEF KeyInv

\* going on to the next row,
LEMMA ProceedKeeps ==
  ASSUME TypeOK, ChangeAllowed, stmt # NoStmt, NEW k, NEW b, Proceed(k, b),
         UNCHANGED <<pk, scan>>
  PROVE  /\ stmt' \in [kind : {"update", "delete"}, where : Wheres,
                       change : Changes \cup {NoChange},
                       left : SUBSET DOMAIN scan', count : Nat]
         /\ ChangeAllowed'
<1>1. stmt \in [kind : {"update", "delete"}, where : Wheres,
                change : Changes \cup {NoChange}, left : SUBSET DOMAIN scan, count : Nat]
  BY DEF TypeOK
<1> DEFINE n == IF b THEN stmt.count + 1 ELSE stmt.count
<1>2. stmt' = [stmt EXCEPT !.left = stmt.left \ {k}, !.count = n]
  BY Zenon DEF Proceed
<1>0. n \in Nat  BY <1>1
<1> HIDE DEF n
<1>3. stmt'.kind = stmt.kind /\ stmt'.change = stmt.change  BY <1>1, <1>2
<1>4. ChangeAllowed'  BY <1>3 DEF ChangeAllowed, Allowed
<1> QED  BY <1>0, <1>1, <1>2, <1>4

\* an UPDATE of a row, which keeps the key of the row it writes,
LEMMA UpdateKeeps ==
  ASSUME KeyInv, stmt # NoStmt, UpdateRow
  PROVE  KeyInv'
<1>1. PICK k \in NextKeys :
        LET key == SerializeKey(KeyValue(scan[k]))
        IN  /\ key \in DOMAIN tree
            /\ tree' = [tree EXCEPT ![key] = With(stmt.change, scan[k], @)]
            /\ Proceed(k, TRUE)
  BY DEF UpdateRow
<1> DEFINE key == SerializeKey(KeyValue(scan[k]))
           new == With(stmt.change, scan[k], tree[key])
<1>2. /\ key \in DOMAIN tree
      /\ tree' = [tree EXCEPT ![key] = new]
      /\ Proceed(k, TRUE)
  BY <1>1
<1>3. stmt.kind = "update" /\ UNCHANGED <<pk, next, scan, reply>>
  BY DEF UpdateRow
<1>4. ~AssignsKey => KeyValue(new) = KeyValue(tree[key])
  <2>1. stmt.change \in Changes /\ (AssignsKey \/ pk \notin DOMAIN stmt.change)
    BY <1>3 DEF KeyInv, ChangeAllowed, Allowed
  <2>2. pk \in PrimaryKeys  BY DEF KeyInv, TypeOK
  <2> QED  BY <2>1, <2>2, WithKeepsKey
<1> HIDE DEF key, new
<1>5. DOMAIN tree' = DOMAIN tree  BY <1>2
<1>6. /\ stmt' \in [kind : {"update", "delete"}, where : Wheres,
                    change : Changes \cup {NoChange},
                    left : SUBSET DOMAIN scan', count : Nat]
      /\ ChangeAllowed'
  BY <1>2, <1>3, ProceedKeeps DEF KeyInv
<1>7. TypeOK'  BY <1>3, <1>5, <1>6 DEF KeyInv, TypeOK, KeysOfTable, KeyValues, KeyType
<1>8. RowsUnderTheirKeys' /\ KeysTyped'
  <2>1. SUFFICES ASSUME ~AssignsKey, NEW j \in DOMAIN tree
                 PROVE  /\ SerializeKey(KeyValue(tree'[j])) = j
                        /\ KeyValue(tree'[j]) \in KeyValues
    BY <1>3, <1>5
    DEF RowsUnderTheirKeys, KeysTyped, KeyValues, KeyType, KeyValue, Cell
  <2>2. SerializeKey(KeyValue(tree[j])) = j /\ KeyValue(tree[j]) \in KeyValues
    BY <2>1 DEF KeyInv, RowsUnderTheirKeys, KeysTyped
  <2>3. CASE j = key
    <3>1. tree'[j] = new  BY <2>3, <1>2
    <3> QED  BY <3>1, <2>1, <2>2, <2>3, <1>4
  <2>4. CASE j # key
    <3>1. tree'[j] = tree[j]  BY <2>4, <1>2
    <3> QED  BY <3>1, <2>2
  <2> QED  BY <2>3, <2>4
<1> QED  BY <1>6, <1>7, <1>8 DEF KeyInv

\* and a DELETE of a row, which keeps the others.
LEMMA DeleteKeeps ==
  ASSUME KeyInv, stmt # NoStmt, DeleteRow
  PROVE  KeyInv'
<1>1. PICK k \in NextKeys :
        LET key == SerializeKey(KeyValue(scan[k]))
        IN  /\ tree' = [j \in DOMAIN tree \ {key} |-> tree[j]]
            /\ Proceed(k, key \in DOMAIN tree)
  BY DEF DeleteRow
<1> DEFINE key == SerializeKey(KeyValue(scan[k]))
<1>2. /\ tree' = [j \in DOMAIN tree \ {key} |-> tree[j]]
      /\ Proceed(k, key \in DOMAIN tree)
  BY <1>1
<1>3. UNCHANGED <<pk, next, scan, reply>>  BY DEF DeleteRow
<1> HIDE DEF key
<1>4. /\ stmt' \in [kind : {"update", "delete"}, where : Wheres,
                    change : Changes \cup {NoChange},
                    left : SUBSET DOMAIN scan', count : Nat]
      /\ ChangeAllowed'
  BY <1>2, <1>3, ProceedKeeps DEF KeyInv
<1>5. DOMAIN tree' \subseteq DOMAIN tree /\ \A j \in DOMAIN tree' : tree'[j] = tree[j]
  BY <1>2
<1>6. TypeOK'  BY <1>3, <1>4, <1>5 DEF KeyInv, TypeOK, KeysOfTable, KeyValues, KeyType
<1>7. RowsUnderTheirKeys' /\ KeysTyped'
  <2>1. SUFFICES ASSUME ~AssignsKey, NEW j \in DOMAIN tree'
                 PROVE  /\ SerializeKey(KeyValue(tree'[j])) = j
                        /\ KeyValue(tree'[j]) \in KeyValues
    BY <1>3 DEF RowsUnderTheirKeys, KeysTyped, KeyValues, KeyType, KeyValue, Cell
  <2> QED  BY <2>1, <1>5 DEF KeyInv, RowsUnderTheirKeys, KeysTyped
<1> QED  BY <1>4, <1>6, <1>7 DEF KeyInv

\* A row that is skipped, and the end of a statement, leave the tree.
LEMMA OthersKeep ==
  ASSUME KeyInv, (SkipRow /\ stmt # NoStmt) \/ RowFails \/ AllRowsDone \/ UNCHANGED vars
  PROVE  KeyInv'
<1>1. UNCHANGED <<pk, tree, next>>
  BY DEF SkipRow, RowFails, AllRowsDone, vars
<1>2. RowsUnderTheirKeys' /\ KeysTyped'  BY <1>1, RowsUnchanged DEF KeyInv
<1>3. CASE SkipRow /\ stmt # NoStmt
  <2>1. PICK k \in NextKeys : Proceed(k, FALSE)  BY <1>3 DEF SkipRow
  <2>2. UNCHANGED <<pk, scan, reply>>  BY <1>3 DEF SkipRow
  <2>3. /\ stmt' \in [kind : {"update", "delete"}, where : Wheres,
                      change : Changes \cup {NoChange},
                      left : SUBSET DOMAIN scan', count : Nat]
        /\ ChangeAllowed'
    BY <1>3, <2>1, <2>2, ProceedKeeps DEF KeyInv
  <2>4. TypeOK'  BY <1>1, <2>2, <2>3 DEF KeyInv, TypeOK, KeysOfTable, KeyValues, KeyType
  <2> QED  BY <1>2, <2>3, <2>4 DEF KeyInv
<1>4. CASE RowFails \/ AllRowsDone
  <2>1. stmt' = NoStmt /\ scan' = <<>>  BY <1>4 DEF RowFails, AllRowsDone, End
  <2>2. reply' \in [status : {"ok", "error"}, count : Nat]
    <3>1. CASE RowFails  BY <3>1 DEF RowFails, End, Reply
    <3>2. CASE AllRowsDone
      <4>1. stmt.count \in Nat  BY <3>2 DEF AllRowsDone, KeyInv, TypeOK
      <4> QED  BY <3>2, <4>1 DEF AllRowsDone, End, Reply
    <3> QED  BY <1>4, <3>1, <3>2
  <2>3. TypeOK'  BY <1>1, <2>1, <2>2 DEF KeyInv, TypeOK, KeysOfTable, KeyValues, KeyType
  <2>4. ChangeAllowed'  BY <2>1 DEF ChangeAllowed, NoStmt
  <2> QED  BY <1>2, <2>3, <2>4 DEF KeyInv
<1>5. CASE UNCHANGED vars
  <2>1. TypeOK'  BY <1>5 DEF vars, KeyInv, TypeOK, KeysOfTable, KeyValues, KeyType
  <2>2. ChangeAllowed'  BY <1>5 DEF vars, KeyInv, ChangeAllowed, Allowed
  <2> QED  BY <1>2, <2>1, <2>2 DEF KeyInv
<1> QED  BY <1>3, <1>4, <1>5

\* Every step of a table keeps its types and its rows under their keys.
LEMMA NextKeeps == KeyInv /\ [Next]_vars => KeyInv'
<1> SUFFICES ASSUME KeyInv, [Next]_vars PROVE KeyInv'  OBVIOUS
<1>1. CASE \E given \in Inputs :
             InsertFails(given) \/ InsertWithKey(given) \/ InsertWithRowId(given)
  BY <1>1, InsertKeeps
<1>2. ASSUME NEW where \in Wheres, Begin("delete", where, NoChange)
      PROVE  KeyInv'
  BY <1>2, BeginKeeps
<1>3. ASSUME NEW where \in Wheres, NEW change \in Changes, Allowed(change),
             Begin("update", where, change)
      PROVE  KeyInv'
  BY <1>3, BeginKeeps
<1>4. CASE stmt # NoStmt /\ UpdateRow  BY <1>4, UpdateKeeps
<1>5. CASE stmt # NoStmt /\ DeleteRow  BY <1>5, DeleteKeeps
<1>6. CASE (SkipRow /\ stmt # NoStmt) \/ RowFails \/ AllRowsDone \/ UNCHANGED vars
  BY <1>6, OthersKeep
<1> QED  BY <1>1, <1>2, <1>3, <1>4, <1>5, <1>6 DEF Next

----------------------------------------------------------------------------
\* What expressions evaluate to

Results == Values \cup {Error}

\* Every column that the row has holds a value.
Valued(row) == \A c \in DOMAIN row : row[c] \in Values

\* One step of the recursion of Evaluate: f has the results of the parts.
Result(e, f, row) ==
  CASE e.op = "literal" -> e.value
    [] e.op = "column" -> ColumnRef(e.table, e.name, row)
    [] e.op = "*" -> Error
    [] OTHER -> LET l == f[e.left]
                    r == f[e.right]
                IN  IF Error \in {l, r} THEN Error ELSE Binary(e.op, l, r)

\* An operator makes a boolean of whatever it gets.
LEMMA BinaryTypes ==
  ASSUME NEW op \in Operators, NEW l, NEW r
  PROVE  Binary(op, l, r) \in Values
<1> DEFINE b == /\ Type(l) = "BOOL" /\ Type(r) = "BOOL"
                /\ IF op = "AND" THEN l[2] /\ r[2] ELSE l[2] \/ r[2]
<1>1. \A x \in BOOLEAN : Bool(x) \in Values
  BY DEF Values, Bool
<1>2. /\ b \in BOOLEAN /\ Same(l, r) \in BOOLEAN
      /\ AtMost(l, r) \in BOOLEAN /\ AtMost(r, l) \in BOOLEAN
  BY DEF Same, AtMost
<1>3. CASE op \in {"AND", "OR"}
  <2>1. Binary(op, l, r) = Bool(b)
    BY <1>3 DEF Binary
  <2> QED
    BY <1>1, <1>2, <2>1
<1>4. CASE op \in {"=", "!="}
  <2>1. Binary(op, l, r) \in {Bool(Same(l, r)), Bool(~Same(l, r))}
    BY <1>4 DEF Binary
  <2> QED
    BY <1>1, <1>2, <2>1
<1>5. CASE op \in {"<=", ">=", "<", ">"}
  <2>1. Binary(op, l, r) \in {Bool(AtMost(l, r)), Bool(~AtMost(l, r)),
                              Bool(AtMost(r, l)), Bool(~AtMost(r, l))}
    BY <1>5 DEF Binary
  <2> QED
    BY <1>1, <1>2, <2>1
<1> QED
  BY <1>3, <1>4, <1>5 DEF Operators

\* So the result of an expression is a value or an error, whatever its parts give.
LEMMA ResultTypes ==
  ASSUME NEW row, Valued(row), NEW e \in Exprs, NEW f
  PROVE  Result(e, f, row) \in Results
<1>1. WellFormed(e)
  BY TableAssumption
<1>2. CASE e.op = "literal" /\ e.value \in Values
  BY <1>2 DEF Result, Results
<1>3. CASE e.op = "column"
  <2>1. ColumnRef(e.table, e.name, row) \in Values
    BY DEF ColumnRef, Valued, Values
  <2> QED
    BY <1>3, <2>1 DEF Result, Results
<1>4. CASE e.op = "*"
  BY <1>4 DEF Result, Results
<1>5. CASE e.op \in Operators
  <2>1. Result(e, f, row) \in {Error, Binary(e.op, f[e.left], f[e.right])}
    BY <1>5 DEF Operators, Result
  <2> QED
    BY <1>5, <2>1, BinaryTypes DEF Results
<1> QED
  BY <1>1, <1>2, <1>3, <1>4, <1>5 DEF WellFormed

\* evaluateExpression comes to its end, with a value or an error.
LEMMA EvaluateTypes ==
  ASSUME NEW row, Valued(row), NEW expr \in Exprs
  PROVE  Evaluate(expr, row) \in Results
<1> DEFINE Def == [e \in Exprs |-> [f \in [Exprs -> Results] |-> Result(e, f, row)]]
<1>1. Def \in [Exprs -> [[Exprs -> Results] -> Results]]
  BY ResultTypes
<1>2. \A e \in Exprs : \A f \in [Exprs -> Results] : Def[e][f] = Result(e, f, row)
  OBVIOUS
<1>3. ASSUME NEW e \in Exprs, NEW f \in [Exprs -> Results], NEW g \in [Exprs -> Results],
             \A q \in Exprs : Depth[q] < Depth[e] => f[q] = g[q]
      PROVE  Result(e, f, row) = Result(e, g, row)
  <2>1. WellFormed(e)
    BY TableAssumption
  <2>2. CASE e.op \in {"literal", "column", "*"}
    BY <2>2 DEF Result
  <2>3. CASE e.op \notin {"literal", "column", "*"}
    <3>1. f[e.left] = g[e.left] /\ f[e.right] = g[e.right]
      BY <1>3, <2>1, <2>3 DEF WellFormed
    <3> QED
      BY <2>3, <3>1 DEF Result
  <2> QED
    BY <2>2, <2>3
<1> HIDE DEF Def
<1>4. RankedDefinition(Exprs, Results, Depth, Def)
  <2>1. \A e \in Exprs : \A f, g \in [Exprs -> Results] :
          (\A q \in Exprs : Depth[q] < Depth[e] => f[q] = g[q]) => Def[e][f] = Def[e][g]
    BY <1>2, <1>3
  <2> QED
    BY <1>1, <2>1, TableAssumption DEF RankedDefinition
<1>5. PICK f \in [Exprs -> Results] : \A e \in Exprs : f[e] = Def[e][f]
  <2>1. Results # {}
    BY DEF Results
  <2> QED
    BY <1>4, <2>1, RecursiveFunctionExists
<1>6. f = [e \in Exprs |-> Result(e, f, row)]
  BY <1>2, <1>5
<1> DEFINE val == CHOOSE g : g = [e \in Exprs |-> Result(e, g, row)]
<1>7. val = [e \in Exprs |-> Result(e, val, row)]
  BY <1>6
<1>8. Evaluate(expr, row) = val[expr]
  BY DEF Evaluate, Result
<1> HIDE DEF val
<1>9. val[expr] = Result(expr, val, row)
  BY <1>7
<1> QED
  BY <1>8, <1>9, ResultTypes

----------------------------------------------------------------------------
\* Rows fit their columns, those of the scan too

ScanFits == \A k \in DOMAIN scan : Fits(scan[k])

\* What coerceType lets pass fits the column.
LEMMA CoercedFits ==
  ASSUME NEW v \in Results, NEW type \in {"INT", "TEXT", "BOOL"}, Coercible(v, type)
  PROVE  Coerce(v, type) \in Values /\ Type(Coerce(v, type)) \in {"NULL", type}
<1>1. CASE v = Null
  BY <1>1 DEF Coerce, Null, Type, Values
<1>2. CASE v # Null
  BY <1>2, CoerceTypes DEF Results
<1> QED
  BY <1>1, <1>2

\* So do the rows that INSERT makes, with a key of their own
LEMMA TypedFits ==
  ASSUME NEW given \in Inputs, Acceptable(given)
  PROVE  Fits(Typed(given))
<1>1. DOMAIN given \subseteq Columns /\ \A c \in DOMAIN given : given[c] \in Results
  BY TableAssumption DEF Results
<1>2. ASSUME NEW c \in DOMAIN given
      PROVE  /\ c # RowId /\ Coerce(given[c], ColumnType[c]) \in Values
             /\ Type(Coerce(given[c], ColumnType[c])) \in {"NULL", ColumnType[c]}
  <2>1. c \in Columns /\ c # RowId /\ ColumnType[c] \in {"INT", "TEXT", "BOOL"}
    BY <1>1, TableAssumption
  <2>2. Coercible(given[c], ColumnType[c])
    BY DEF Acceptable
  <2> QED
    BY <1>1, <2>1, <2>2, CoercedFits
<1>3. DOMAIN Typed(given) = DOMAIN given
      /\ \A c \in DOMAIN given : Typed(given)[c] = Coerce(given[c], ColumnType[c])
  BY DEF Typed
<1> QED
  BY <1>1, <1>2, <1>3 DEF Fits

\* and with a row id,
LEMMA NumberedFits ==
  ASSUME NEW given \in Inputs, Acceptable(given), next \in Ints, NEW row,
         row = [c \in DOMAIN given \cup {RowId} |->
                  IF c = RowId THEN <<"INT", next>> ELSE Typed(given)[c]]
  PROVE  Fits(row)
<1>1. Fits(Typed(given)) /\ DOMAIN Typed(given) = DOMAIN given
  BY TypedFits DEF Typed
<1>2. <<"INT", next>> \in Values /\ Type(<<"INT", next>>) = "INT"
  BY DEF Values, Type
<1>3. DOMAIN row = DOMAIN given \cup {RowId}
  OBVIOUS
<1>4. \A c \in DOMAIN given \ {RowId} : row[c] = Typed(given)[c]
  OBVIOUS
<1>5. row[RowId] = <<"INT", next>>
  OBVIOUS
<1> QED
  BY <1>1, <1>2, <1>3, <1>4, <1>5 DEF Fits

\* and the rows that UPDATE makes of rows that fit.
LEMMA WithFits ==
  ASSUME NEW change \in Changes, NEW read, Fits(read), NEW row, Fits(row),
         Assignable(change, read)
  PROVE  Fits(With(change, read, row))
<1> DEFINE new == With(change, read, row)
<1>1. DOMAIN change \subseteq Columns /\ \A c \in DOMAIN change : change[c] \in Exprs
  BY TableAssumption
<1>2. ASSUME NEW c \in DOMAIN change
      PROVE  /\ c # RowId /\ new[c] \in Values /\ Type(new[c]) \in {"NULL", ColumnType[c]}
  <2>1. c \in Columns /\ c # RowId /\ ColumnType[c] \in {"INT", "TEXT", "BOOL"}
    BY <1>1, TableAssumption
  <2>2. NewValue(change, c, read) \in Results
    BY <1>1, EvaluateTypes DEF NewValue, Fits, Valued
  <2>3. Coercible(NewValue(change, c, read), ColumnType[c])
    BY DEF Assignable
  <2>4. new[c] = Coerce(NewValue(change, c, read), ColumnType[c])
    BY DEF With
  <2> QED
    BY <2>1, <2>2, <2>3, <2>4, CoercedFits
<1>3. DOMAIN new = DOMAIN row \cup DOMAIN change
      /\ \A c \in DOMAIN row \ DOMAIN change : new[c] = row[c]
  BY DEF With
<1> HIDE DEF new
<1> QED
  BY <1>1, <1>2, <1>3 DEF Fits, new

\* Every step keeps the rows of the table, and those read, in their columns.
LEMMA FitsStep ==
  ASSUME KeyInv, RowsFitColumns, ScanFits, [Next]_vars
  PROVE  RowsFitColumns' /\ ScanFits'
<1>1. CASE UNCHANGED <<tree, scan>>
  BY <1>1 DEF RowsFitColumns, ScanFits
<1>2. ASSUME NEW given \in Inputs, InsertFails(given) \/ InsertWithKey(given) \/ InsertWithRowId(given)
      PROVE  RowsFitColumns' /\ ScanFits'
  <2>1. CASE InsertFails(given)
    BY <1>1, <2>1 DEF InsertFails
  <2>2. CASE InsertWithKey(given)
    <3> DEFINE key == SerializeKey(Typed(given)[pk])
    <3>1. UNCHANGED scan /\ Fits(Typed(given))
      BY <2>2, TypedFits DEF InsertWithKey
    <3>2. \/ UNCHANGED tree
          \/ tree' = [k \in DOMAIN tree \cup {key} |->
                        IF k = key THEN Typed(given) ELSE tree[k]]
      BY <2>2 DEF InsertWithKey
    <3> HIDE DEF key
    <3> QED
      BY <3>1, <3>2 DEF RowsFitColumns, ScanFits
  <2>3. CASE InsertWithRowId(given)
    <3> DEFINE key == SerializeKey(<<"INT", next>>)
               row == [c \in DOMAIN given \cup {RowId} |->
                         IF c = RowId THEN <<"INT", next>> ELSE Typed(given)[c]]
    <3>1. UNCHANGED scan /\ Fits(row)
      BY <2>3, NumberedFits DEF InsertWithRowId
    <3>2. \/ UNCHANGED tree
          \/ tree' = [k \in DOMAIN tree \cup {key} |-> IF k = key THEN row ELSE tree[k]]
      BY <2>3 DEF InsertWithRowId
    <3> HIDE DEF key, row
    <3> QED
      BY <3>1, <3>2 DEF RowsFitColumns, ScanFits
  <2> QED
    BY <1>2, <2>1, <2>2, <2>3
<1>3. ASSUME NEW kind, NEW where, NEW change, Begin(kind, where, change)
      PROVE  RowsFitColumns' /\ ScanFits'
  BY <1>3 DEF Begin, RowsFitColumns, ScanFits
<1>4. CASE stmt # NoStmt /\ SkipRow
  BY <1>1, <1>4 DEF SkipRow
<1>5. CASE stmt # NoStmt /\ UpdateRow
  <2>1. PICK k \in NextKeys :
          /\ Assignable(stmt.change, scan[k])
          /\ SerializeKey(KeyValue(scan[k])) \in DOMAIN tree
          /\ tree' = [tree EXCEPT ![SerializeKey(KeyValue(scan[k]))] =
                        With(stmt.change, scan[k], tree[SerializeKey(KeyValue(scan[k]))])]
    BY <1>5 DEF UpdateRow
  <2>2. stmt.kind = "update" /\ UNCHANGED scan
    BY <1>5 DEF UpdateRow
  <2>3. stmt.change \in Changes /\ k \in DOMAIN scan
    BY <1>5, <2>2 DEF KeyInv, TypeOK, ChangeAllowed, NextKeys
  <2> DEFINE key == SerializeKey(KeyValue(scan[k]))
             new == With(stmt.change, scan[k], tree[key])
  <2>4. Fits(new)
    BY <2>1, <2>3, WithFits DEF RowsFitColumns, ScanFits
  <2>5. tree' = [tree EXCEPT ![key] = new]
    BY <2>1
  <2> HIDE DEF key, new
  <2> QED
    BY <2>2, <2>4, <2>5 DEF RowsFitColumns, ScanFits
<1>6. CASE stmt # NoStmt /\ DeleteRow
  <2>1. PICK key : tree' = [j \in DOMAIN tree \ {key} |-> tree[j]]
    BY <1>6 DEF DeleteRow
  <2> QED
    BY <1>6, <2>1 DEF DeleteRow, RowsFitColumns, ScanFits
<1>7. CASE RowFails \/ AllRowsDone
  BY <1>7 DEF RowFails, AllRowsDone, End, RowsFitColumns, ScanFits
<1>8. CASE UNCHANGED vars
  BY <1>1, <1>8 DEF vars
<1> QED
  BY <1>2, <1>3, <1>4, <1>5, <1>6, <1>7, <1>8 DEF Next

----------------------------------------------------------------------------
\* What a statement in progress has done so far

\* Row k of the scan as the statement s has left it in the rows.
RowDone(s, rows, read, k) ==
  \/ /\ Holds(s.where, read[k])
     /\ IF s.kind = "update"
        THEN k \in DOMAIN rows /\ rows[k] = With(s.change, read[k], read[k])
        ELSE k \notin DOMAIN rows
  \/ /\ Condition(s.where, read[k]) = <<"BOOL", FALSE>>
     /\ k \in DOMAIN rows /\ rows[k] = read[k]

\* The rows that it has changed or removed, as it read them.
Dealt(s, read) == {read[k] : k \in {j \in DOMAIN read \ s.left : Holds(s.where, read[j])}}

Progress ==
  /\ IsFiniteSet(DOMAIN tree)
  /\ stmt # NoStmt =>
       /\ DOMAIN tree \subseteq DOMAIN scan /\ IsFiniteSet(DOMAIN scan)
       /\ \A k \in DOMAIN scan : SerializeKey(KeyValue(scan[k])) = k
       /\ \A k \in stmt.left : k \in DOMAIN tree /\ tree[k] = scan[k]
       /\ \A k \in DOMAIN scan \ stmt.left : RowDone(stmt, tree, scan, k)
       /\ stmt.count = Cardinality(Dealt(stmt, scan))

\* A statement in progress is a record with all fields.
LEMMA StmtFields ==
  ASSUME TypeOK, stmt # NoStmt
  PROVE  /\ stmt \in [kind : {"update", "delete"}, where : Wheres,
                      change : Changes \cup {NoChange}, left : SUBSET DOMAIN scan, count : Nat]
         /\ stmt.left \subseteq DOMAIN scan /\ stmt.count \in Nat
         /\ stmt.kind \in {"update", "delete"} /\ stmt.where \in Wheres
  BY DEF TypeOK

\* The statement goes on to the next row.
LEMMA ProceedFacts ==
  ASSUME TypeOK, stmt # NoStmt, NEW k \in NextKeys, NEW b \in BOOLEAN, Proceed(k, b)
  PROVE  /\ stmt' # NoStmt /\ stmt'.left = stmt.left \ {k}
         /\ stmt'.count = IF b THEN stmt.count + 1 ELSE stmt.count
         /\ stmt'.kind = stmt.kind /\ stmt'.where = stmt.where /\ stmt'.change = stmt.change
         /\ k \in stmt.left /\ k \in DOMAIN scan
<1> DEFINE n == IF b THEN stmt.count + 1 ELSE stmt.count
<1>1. stmt' = [stmt EXCEPT !.left = stmt.left \ {k}, !.count = n]
  BY Zenon DEF Proceed
<1> HIDE DEF n
<1>2. stmt' \in [kind : {"update", "delete"}, where : Wheres,
                 change : Changes \cup {NoChange}, left : SUBSET DOMAIN scan, count : {n}]
  BY <1>1, StmtFields
<1>3. stmt' # NoStmt
  BY <1>2 DEF NoStmt
<1>4. /\ stmt'.left = stmt.left \ {k} /\ stmt'.count = n
      /\ stmt'.kind = stmt.kind /\ stmt'.where = stmt.where /\ stmt'.change = stmt.change
  BY <1>1, StmtFields
<1>5. k \in stmt.left /\ k \in DOMAIN scan
  BY StmtFields DEF NextKeys
<1> QED
  BY <1>3, <1>4, <1>5 DEF n

\* The values of a function on a finite set are finitely many.
LEMMA ImageFinite ==
  ASSUME NEW J, IsFiniteSet(J), NEW f
  PROVE  IsFiniteSet({f[j] : j \in J})
<1> DEFINE T == {f[j] : j \in J}
           g == [j \in J |-> f[j]]
<1>1. g \in [J -> T] /\ \A t \in T : \E j \in J : g[j] = t
  OBVIOUS
<1>2. g \in Surjection(J, T)
  BY <1>1 DEF Surjection
<1> QED
  BY <1>2, FS_Surjection

\* One more row of the scan, which is no other's equal, has been dealt with.
LEMMA DealtMore ==
  ASSUME TypeOK, Progress, stmt # NoStmt, NEW k \in NextKeys, NEW b \in BOOLEAN,
         Proceed(k, b), b <=> Holds(stmt.where, scan[k])
  PROVE  Cardinality(Dealt(stmt', scan)) = stmt'.count
<1>1. /\ stmt'.left = stmt.left \ {k} /\ stmt'.where = stmt.where
      /\ stmt'.count = IF b THEN stmt.count + 1 ELSE stmt.count
      /\ k \in stmt.left /\ k \in DOMAIN scan
  BY ProceedFacts
<1>2. CASE ~b
  <2>1. Dealt(stmt', scan) = Dealt(stmt, scan)
    BY <1>1, <1>2 DEF Dealt
  <2> QED
    BY <1>1, <1>2, <2>1 DEF Progress
<1>3. CASE b
  <2>1. Dealt(stmt', scan) = Dealt(stmt, scan) \cup {scan[k]}
    BY <1>1, <1>3 DEF Dealt
  <2>2. scan[k] \notin Dealt(stmt, scan)
    <3> SUFFICES ASSUME NEW j \in DOMAIN scan \ stmt.left, scan[j] = scan[k] PROVE FALSE
      BY DEF Dealt
    <3>1. SerializeKey(KeyValue(scan[j])) = j /\ SerializeKey(KeyValue(scan[k])) = k
      BY <1>1 DEF Progress
    <3> QED
      BY <1>1, <3>1
  <2>3. IsFiniteSet(Dealt(stmt, scan))
    <3>1. IsFiniteSet({j \in DOMAIN scan \ stmt.left : Holds(stmt.where, scan[j])})
      BY FS_Subset DEF Progress
    <3> QED
      BY <3>1, ImageFinite DEF Dealt
  <2>4. Cardinality(Dealt(stmt', scan)) = Cardinality(Dealt(stmt, scan)) + 1
    BY <2>1, <2>2, <2>3, FS_AddElement
  <2> QED
    BY <1>1, <1>3, <2>4 DEF Progress
<1> QED
  BY <1>2, <1>3

\* A row that is dealt with, or passed over, in its turn.
LEMMA RowProgress ==
  ASSUME TypeOK, Progress, stmt # NoStmt, NEW k \in NextKeys, NEW b \in BOOLEAN,
         Proceed(k, b), b <=> Holds(stmt.where, scan[k]), UNCHANGED <<pk, scan>>,
         RowDone(stmt, tree', scan, k),
         \A j : j # k => /\ j \in DOMAIN tree' <=> j \in DOMAIN tree
                         /\ j \in DOMAIN tree => tree'[j] = tree[j]
  PROVE  Progress'
<1>1. /\ stmt' # NoStmt /\ stmt'.left = stmt.left \ {k}
      /\ stmt'.kind = stmt.kind /\ stmt'.where = stmt.where /\ stmt'.change = stmt.change
      /\ k \in stmt.left /\ k \in DOMAIN scan
  BY ProceedFacts
<1>2. /\ DOMAIN tree \subseteq DOMAIN scan /\ IsFiniteSet(DOMAIN scan)
      /\ \A j \in DOMAIN scan : SerializeKey(KeyValue(scan[j])) = j
      /\ \A j \in stmt.left : j \in DOMAIN tree /\ tree[j] = scan[j]
      /\ \A j \in DOMAIN scan \ stmt.left : RowDone(stmt, tree, scan, j)
  BY DEF Progress
<1>3. DOMAIN tree' \subseteq DOMAIN scan
  BY <1>1, <1>2
<1>4. IsFiniteSet(DOMAIN tree')
  BY <1>2, <1>3, FS_Subset
<1>5. \A j \in DOMAIN scan : (SerializeKey(KeyValue(scan[j])) = j)'
  BY <1>2 DEF KeyValue, Cell
<1>6. \A j \in stmt'.left : j \in DOMAIN tree' /\ tree'[j] = scan[j]
  BY <1>1, <1>2
<1>7. ASSUME NEW j \in DOMAIN scan \ stmt'.left PROVE RowDone(stmt', tree', scan, j)
  <2>1. RowDone(stmt, tree', scan, j)
    <3>1. CASE j = k
      BY <3>1
    <3>2. CASE j # k
      <4>1. RowDone(stmt, tree, scan, j)
        BY <1>1, <1>2, <3>2
      <4>2. j \in DOMAIN tree' <=> j \in DOMAIN tree
        BY <3>2
      <4>3. j \in DOMAIN tree => tree'[j] = tree[j]
        BY <3>2
      <4> QED
        BY <4>1, <4>2, <4>3 DEF RowDone
    <3> QED
      BY <3>1, <3>2
  <2> QED
    BY <1>1, <2>1 DEF RowDone
<1>8. Cardinality(Dealt(stmt', scan)) = stmt'.count
  BY DealtMore
<1> QED
  BY <1>1, <1>3, <1>4, <1>5, <1>6, <1>7, <1>8, <1>2 DEF Progress

\* A row that does not match stays as it was read.
LEMMA SkipProgress ==
  ASSUME KeyInv, Progress, stmt # NoStmt, SkipRow
  PROVE  Progress'
<1>1. PICK k \in NextKeys : Condition(stmt.where, scan[k]) = <<"BOOL", FALSE>> /\ Proceed(k, FALSE)
  BY DEF SkipRow
<1>2. UNCHANGED <<pk, tree, scan>>
  BY DEF SkipRow
<1>3. ~Holds(stmt.where, scan[k])
  BY <1>1 DEF Holds, True
<1>4. RowDone(stmt, tree', scan, k)
  <2>1. k \in stmt.left
    BY <1>1, ProceedFacts DEF KeyInv
  <2> QED
    BY <1>1, <1>2, <2>1 DEF RowDone, Progress
<1>5. TypeOK
  BY DEF KeyInv
<1> QED
  BY <1>1, <1>2, <1>3, <1>4, <1>5, RowProgress

\* A row that is updated is the one that was read: it is under its key.
LEMMA UpdateProgress ==
  ASSUME KeyInv, Progress, stmt # NoStmt, UpdateRow
  PROVE  Progress'
<1>1. PICK k \in NextKeys :
        /\ Holds(stmt.where, scan[k])
        /\ tree' = [tree EXCEPT ![SerializeKey(KeyValue(scan[k]))] =
                      With(stmt.change, scan[k], tree[SerializeKey(KeyValue(scan[k]))])]
        /\ Proceed(k, TRUE)
  BY DEF UpdateRow
<1>2. stmt.kind = "update" /\ UNCHANGED <<pk, scan>>
  BY DEF UpdateRow
<1>3. TypeOK
  BY DEF KeyInv
<1>4. k \in stmt.left /\ k \in DOMAIN scan
  BY <1>1, <1>3, ProceedFacts
<1>5. SerializeKey(KeyValue(scan[k])) = k /\ k \in DOMAIN tree /\ tree[k] = scan[k]
  BY <1>4 DEF Progress
<1> DEFINE new == With(stmt.change, scan[k], scan[k])
<1>6. tree' = [tree EXCEPT ![k] = new]
  BY <1>1, <1>5
<1> HIDE DEF new
<1>7. tree'[k] = new /\ DOMAIN tree' = DOMAIN tree /\ \A j \in DOMAIN tree : j # k => tree'[j] = tree[j]
  BY <1>5, <1>6
<1>8. RowDone(stmt, tree', scan, k)
  BY <1>1, <1>2, <1>5, <1>7 DEF RowDone, new
<1> QED
  BY <1>1, <1>2, <1>3, <1>7, <1>8, RowProgress

\* So is a row that is deleted, which is there and counted.
LEMMA DeleteProgress ==
  ASSUME KeyInv, Progress, stmt # NoStmt, DeleteRow
  PROVE  Progress'
<1>1. PICK k \in NextKeys :
        /\ Holds(stmt.where, scan[k])
        /\ tree' = [j \in DOMAIN tree \ {SerializeKey(KeyValue(scan[k]))} |-> tree[j]]
        /\ Proceed(k, SerializeKey(KeyValue(scan[k])) \in DOMAIN tree)
  BY DEF DeleteRow
<1>2. stmt.kind = "delete" /\ UNCHANGED <<pk, scan>>
  BY DEF DeleteRow
<1>3. TypeOK
  BY DEF KeyInv
<1>4. k \in stmt.left /\ k \in DOMAIN scan
  BY <1>3, StmtFields DEF NextKeys
<1>5. SerializeKey(KeyValue(scan[k])) = k /\ k \in DOMAIN tree
  BY <1>4 DEF Progress
<1>6. tree' = [j \in DOMAIN tree \ {k} |-> tree[j]] /\ Proceed(k, TRUE)
  BY <1>1, <1>5
<1>7. RowDone(stmt, tree', scan, k)
  BY <1>1, <1>2, <1>6 DEF RowDone
<1>8. \A j : j # k => /\ j \in DOMAIN tree' <=> j \in DOMAIN tree
                      /\ j \in DOMAIN tree => tree'[j] = tree[j]
  BY <1>6
<1> QED
  BY <1>1, <1>2, <1>3, <1>6, <1>7, <1>8, RowProgress

\* A statement begins with all rows to come.
LEMMA BeginProgress ==
  ASSUME KeyInv, ~AssignsKey, Progress, NEW kind, NEW where, NEW change,
         Begin(kind, where, change)
  PROVE  Progress'
<1>1. /\ stmt' = [kind |-> kind, where |-> where, change |-> change,
                  left |-> DOMAIN tree, count |-> 0]
      /\ scan' = tree /\ UNCHANGED <<pk, tree>>
  BY DEF Begin
<1>2. IsFiniteSet(DOMAIN tree)
  BY DEF Progress
<1>3. \A k \in DOMAIN tree : (SerializeKey(KeyValue(tree[k])) = k)'
  BY <1>1 DEF KeyInv, RowsUnderTheirKeys, KeyValue, Cell
<1>4. stmt'.left = DOMAIN tree /\ stmt'.count = 0
  BY <1>1
<1>5. Dealt(stmt', tree) = {}
  BY <1>4 DEF Dealt
<1>6. Cardinality({}) = 0
  BY FS_EmptySet
<1> QED
  BY <1>1, <1>2, <1>3, <1>4, <1>5, <1>6 DEF Progress

\* An INSERT adds one row, if any.
LEMMA InsertProgress ==
  ASSUME Progress, NEW given,
         InsertFails(given) \/ InsertWithKey(given) \/ InsertWithRowId(given)
  PROVE  Progress'
<1>1. stmt' = NoStmt
  BY DEF InsertFails, InsertWithKey, InsertWithRowId
<1>2. \E key : DOMAIN tree' \subseteq DOMAIN tree \cup {key}
  BY DEF InsertFails, InsertWithKey, InsertWithRowId
<1>3. IsFiniteSet(DOMAIN tree')
  <2>1. PICK key : DOMAIN tree' \subseteq DOMAIN tree \cup {key}
    BY <1>2
  <2>2. IsFiniteSet(DOMAIN tree \cup {key})
    BY FS_AddElement DEF Progress
  <2> QED
    BY <2>1, <2>2, FS_Subset
<1> QED
  BY <1>1, <1>3 DEF Progress

\* Every step keeps the account of what a statement has done.
LEMMA ProgressStep ==
  ASSUME KeyInv, ~AssignsKey, Progress, [Next]_vars
  PROVE  Progress'
<1>1. CASE RowFails \/ AllRowsDone
  BY <1>1 DEF RowFails, AllRowsDone, End, Progress
<1>2. CASE UNCHANGED vars
  <2>1. UNCHANGED <<pk, tree, stmt, scan>>
    BY <1>2 DEF vars
  <2> QED
    BY <2>1 DEF Progress, KeyValue, Cell
<1> QED
  BY <1>1, <1>2, SkipProgress, UpdateProgress, DeleteProgress, BeginProgress, InsertProgress
  DEF Next

----------------------------------------------------------------------------
\* The table implements what SQL means by its statements.

\* What the rows of SqlTable.tla are here.
Rows == IF stmt = NoStmt THEN {tree[k] : k \in DOMAIN tree} ELSE {scan[k] : k \in DOMAIN scan}

\* When a statement begins, it has been asked for.
LEMMA BeginMeans ==
  ASSUME KeyInv, NEW where \in Wheres,
         \/ Begin("delete", where, NoChange)
         \/ \E change \in Changes : Begin("update", where, change)
  PROVE  Sql!Next
<1>1. /\ stmt = NoStmt /\ stmt' # NoStmt /\ scan' = tree
      /\ UNCHANGED <<pk, tree, reply>>
  BY DEF Begin, NoStmt
<1>2. Asked = Sql!Nothing
  BY <1>1 DEF Asked, NoStmt, Sql!Nothing
<1>3. Asked' \in Sql!Deletes \cup Sql!Updates
  <2>1. CASE Begin("delete", where, NoChange)
    <3>1. stmt'.kind = "delete" /\ stmt'.where = where
      BY <2>1 DEF Begin
    <3> QED
      BY <3>1 DEF Asked, Sql!Deletes
  <2>2. CASE \E change \in Changes : Begin("update", where, change)
    <3>1. PICK change \in Changes : Begin("update", where, change)
      BY <2>2
    <3>2. stmt'.kind = "update" /\ stmt'.where = where /\ stmt'.change = change
      BY <3>1 DEF Begin
    <3> QED
      BY <3>2 DEF Asked, Sql!Updates
  <2> QED
    BY <2>1, <2>2
<1>4. Rows' = Rows
  BY <1>1 DEF Rows
<1> QED
  BY <1>1, <1>2, <1>3, <1>4 DEF Sql!Next, Sql!Ask, Rows

\* While a statement goes through its rows, it has not happened yet.
LEMMA StepsWithin ==
  ASSUME KeyInv,
         \/ stmt # NoStmt /\ (SkipRow \/ UpdateRow \/ DeleteRow)
         \/ UNCHANGED vars
  PROVE  UNCHANGED Sql!vars
<1>1. CASE stmt # NoStmt /\ (SkipRow \/ UpdateRow \/ DeleteRow)
  <2>1. UNCHANGED <<pk, scan, reply>> /\ \E k \in NextKeys, b \in BOOLEAN : Proceed(k, b)
    <3>1. CASE SkipRow
      BY <3>1 DEF SkipRow
    <3>2. CASE UpdateRow
      BY <3>2 DEF UpdateRow
    <3>3. CASE DeleteRow
      <4>1. PICK k \in NextKeys : Proceed(k, SerializeKey(KeyValue(scan[k])) \in DOMAIN tree)
        BY <3>3 DEF DeleteRow
      <4>2. (SerializeKey(KeyValue(scan[k])) \in DOMAIN tree) \in BOOLEAN
        OBVIOUS
      <4> QED
        BY <3>3, <4>1, <4>2 DEF DeleteRow
    <3> QED
      BY <1>1, <3>1, <3>2, <3>3
  <2>2. /\ stmt' # NoStmt
        /\ stmt'.kind = stmt.kind /\ stmt'.where = stmt.where /\ stmt'.change = stmt.change
    BY <1>1, <2>1, ProceedFacts DEF KeyInv
  <2>3. Asked' = Asked
    BY <2>2 DEF Asked
  <2> QED
    BY <1>1, <2>1, <2>2, <2>3 DEF Sql!vars
<1>2. CASE UNCHANGED vars
  BY <1>2 DEF vars, Sql!vars, Asked
<1> QED
  BY <1>1, <1>2

\* An INSERT adds a row that is like no other, or refuses it.
LEMMA InsertMeans ==
  ASSUME KeyInv, KeyInv', RowsFitColumns', ~AssignsKey, NEW given \in Inputs,
         InsertFails(given) \/ InsertWithKey(given) \/ InsertWithRowId(given)
  PROVE  Sql!Next
<1>1. stmt = NoStmt /\ stmt' = NoStmt /\ UNCHANGED pk
  BY DEF InsertFails, InsertWithKey, InsertWithRowId
<1>2. CASE UNCHANGED tree /\ Reply("error", 0)
  <2>1. Asked = Sql!Nothing /\ UNCHANGED <<Asked, Rows>>
    BY <1>1, <1>2 DEF Asked, Rows, NoStmt, Sql!Nothing
  <2> QED
    BY <1>1, <1>2, <2>1 DEF Reply, Rows, Sql!Next, Sql!Refuse, Sql!Reply
<1>3. CASE /\ Reply("ok", 1)
           /\ \E key, row : /\ key \notin DOMAIN tree /\ Gives(given, row)
                            /\ tree' = [k \in DOMAIN tree \cup {key} |->
                                          IF k = key THEN row ELSE tree[k]]
  <2>1. PICK key, row : /\ key \notin DOMAIN tree /\ Gives(given, row)
                        /\ tree' = [k \in DOMAIN tree \cup {key} |->
                                      IF k = key THEN row ELSE tree[k]]
    BY <1>3
  <2>2. /\ DOMAIN tree' = DOMAIN tree \cup {key} /\ tree'[key] = row
        /\ \A k \in DOMAIN tree : tree'[k] = tree[k]
    BY <2>1
  <2>3. Fits(row)
    BY <2>2 DEF RowsFitColumns
  <2>4. SerializeKey(KeyValue(row)) = key
    BY <1>1, <2>2 DEF KeyInv, RowsUnderTheirKeys, KeyValue, Cell
  <2>5. \A k \in DOMAIN tree : SerializeKey(KeyValue(tree[k])) # key
    BY <2>1 DEF KeyInv, RowsUnderTheirKeys
  <2>6. row \notin {tree[k] : k \in DOMAIN tree}
    BY <2>4, <2>5
  <2>7. {tree'[k] : k \in DOMAIN tree'} = {tree[k] : k \in DOMAIN tree} \cup {row}
    BY <2>2
  <2>8. \A r \in {tree[k] : k \in DOMAIN tree} :
          SerializeKey(KeyValue(r)) # SerializeKey(KeyValue(row))
    BY <2>4, <2>5
  <2>9. Asked = Sql!Nothing /\ UNCHANGED Asked
    BY <1>1 DEF Asked, NoStmt, Sql!Nothing
  <2>10. Sql!Insert
    BY <1>1, <1>3, <2>1, <2>3, <2>6, <2>7, <2>8, <2>9 DEF Sql!Insert, Sql!Reply, Reply, KeyValue
  <2> QED
    BY <1>1, <2>10 DEF Sql!Next
<1>4. \/ UNCHANGED tree /\ Reply("error", 0)
      \/ /\ Reply("ok", 1)
         /\ \E key, row : /\ key \notin DOMAIN tree /\ Gives(given, row)
                          /\ tree' = [k \in DOMAIN tree \cup {key} |->
                                        IF k = key THEN row ELSE tree[k]]
  <2>0. DOMAIN Typed(given) = DOMAIN given /\ RowId \notin DOMAIN given
    BY TableAssumption DEF Typed
  <2>1. CASE InsertFails(given)
    BY <2>1 DEF InsertFails
  <2>2. CASE InsertWithKey(given)
    <3> DEFINE key == SerializeKey(Typed(given)[pk])
    <3>1. IF key \in DOMAIN tree
          THEN Reply("error", 0) /\ UNCHANGED tree
          ELSE /\ tree' = [k \in DOMAIN tree \cup {key} |->
                             IF k = key THEN Typed(given) ELSE tree[k]]
               /\ Reply("ok", 1)
      BY <2>2 DEF InsertWithKey
    <3>2. Gives(given, Typed(given))
      BY <2>0 DEF Gives, Typed
    <3> HIDE DEF key
    <3> QED
      BY <3>1, <3>2
  <2>3. CASE InsertWithRowId(given)
    <3> DEFINE key == SerializeKey(<<"INT", next>>)
               row == [c \in DOMAIN given \cup {RowId} |->
                         IF c = RowId THEN <<"INT", next>> ELSE Typed(given)[c]]
    <3>1. IF key \in DOMAIN tree
          THEN Reply("error", 0) /\ UNCHANGED tree
          ELSE /\ tree' = [k \in DOMAIN tree \cup {key} |-> IF k = key THEN row ELSE tree[k]]
               /\ Reply("ok", 1)
      BY <2>3 DEF InsertWithRowId
    <3>2. Gives(given, row)
      <4>1. DOMAIN row \ {RowId} = DOMAIN given
        BY <2>0
      <4>2. \A c \in DOMAIN given : row[c] = Typed(given)[c]
        BY <2>0
      <4> QED
        BY <2>0, <4>1, <4>2 DEF Gives, Typed
    <3> HIDE DEF key, row
    <3> QED
      BY <3>1, <3>2
  <2> QED
    BY <2>1, <2>2, <2>3
<1> QED
  BY <1>2, <1>3, <1>4

\* The rows that an UPDATE or DELETE leaves when it ends: those that it read,
\* less the ones dealt with, which an UPDATE puts back with their new values.
LEMMA RowsLeft ==
  ASSUME KeyInv, Progress, stmt # NoStmt
  PROVE  {tree[k] : k \in DOMAIN tree} =
           ({scan[k] : k \in DOMAIN scan} \ Dealt(stmt, scan))
           \cup {With(stmt.change, r, r) :
                   r \in IF stmt.kind = "update" THEN Dealt(stmt, scan) ELSE {}}
<1> DEFINE Old == {scan[k] : k \in DOMAIN scan}
           New == {With(stmt.change, r, r) :
                     r \in IF stmt.kind = "update" THEN Dealt(stmt, scan) ELSE {}}
           Matched == {j \in DOMAIN scan \ stmt.left : Holds(stmt.where, scan[j])}
<1>1. /\ DOMAIN tree \subseteq DOMAIN scan
      /\ \A k \in DOMAIN scan : SerializeKey(KeyValue(scan[k])) = k
      /\ \A k \in stmt.left : k \in DOMAIN tree /\ tree[k] = scan[k]
      /\ \A k \in DOMAIN scan \ stmt.left : RowDone(stmt, tree, scan, k)
      /\ stmt.left \subseteq DOMAIN scan
  BY StmtFields DEF Progress, KeyInv
<1>2. Dealt(stmt, scan) = {scan[k] : k \in Matched}
  BY DEF Dealt
<1>3. \A k \in DOMAIN scan : scan[k] \in Dealt(stmt, scan) <=> k \in Matched
  BY <1>1, <1>2
<1>4. ASSUME NEW k \in Matched
      PROVE  IF stmt.kind = "update"
             THEN k \in DOMAIN tree /\ tree[k] = With(stmt.change, scan[k], scan[k])
             ELSE k \notin DOMAIN tree
  <2>1. RowDone(stmt, tree, scan, k) /\ Holds(stmt.where, scan[k])
    BY <1>1
  <2>2. Condition(stmt.where, scan[k]) # <<"BOOL", FALSE>>
    BY <2>1 DEF Holds, True
  <2> QED
    BY <2>1, <2>2 DEF RowDone
<1>5. ASSUME NEW k \in DOMAIN scan \ Matched
      PROVE  k \in DOMAIN tree /\ tree[k] = scan[k]
  <2>1. CASE k \in stmt.left
    BY <1>1, <2>1
  <2>2. CASE k \notin stmt.left
    BY <1>1, <1>5, <2>2 DEF RowDone
  <2> QED
    BY <2>1, <2>2
<1> HIDE DEF Matched
<1>6. ASSUME NEW k \in DOMAIN tree
      PROVE  tree[k] \in (Old \ Dealt(stmt, scan)) \cup New
  <2>1. k \in DOMAIN scan
    BY <1>1
  <2>2. CASE k \in Matched
    <3>1. stmt.kind = "update" /\ tree[k] = With(stmt.change, scan[k], scan[k])
      BY <1>4, <2>2
    <3>2. scan[k] \in Dealt(stmt, scan)
      BY <1>2, <2>2
    <3> QED
      BY <3>1, <3>2
  <2>3. CASE k \notin Matched
    <3>1. tree[k] = scan[k] /\ scan[k] \notin Dealt(stmt, scan)
      BY <1>3, <1>5, <2>1, <2>3
    <3> QED
      BY <2>1, <3>1
  <2> QED
    BY <2>2, <2>3
<1>7. ASSUME NEW k \in DOMAIN scan, scan[k] \notin Dealt(stmt, scan)
      PROVE  scan[k] \in {tree[j] : j \in DOMAIN tree}
  <2>1. k \notin Matched
    BY <1>3, <1>7
  <2> QED
    BY <1>5, <2>1
<1>8. ASSUME NEW k \in Matched, stmt.kind = "update"
      PROVE  With(stmt.change, scan[k], scan[k]) \in {tree[j] : j \in DOMAIN tree}
  BY <1>4, <1>8
<1>9. Old \ Dealt(stmt, scan) \subseteq {tree[j] : j \in DOMAIN tree}
  BY <1>7
<1>10. New \subseteq {tree[j] : j \in DOMAIN tree}
  BY <1>2, <1>8
<1>11. {tree[j] : j \in DOMAIN tree} \subseteq (Old \ Dealt(stmt, scan)) \cup New
  BY <1>6
<1> QED
  BY <1>9, <1>10, <1>11

\* SqlTable.tla counts as this module does.
LEMMA SameCardinality ==
  ASSUME NEW S
  PROVE  Sql!Cardinality(S) = Cardinality(S)
  BY Zenon DEF Cardinality, Sql!Cardinality

\* The statement in progress is the one that was asked for.
LEMMA AskedFor ==
  ASSUME KeyInv, stmt # NoStmt
  PROVE  /\ Asked # Sql!Nothing
         /\ Asked.kind = stmt.kind /\ Asked.where = stmt.where
         /\ Asked.kind = "update" => Asked.change = stmt.change
<1>1. CASE stmt.kind = "update"
  BY <1>1 DEF Asked, Sql!Nothing
<1>2. CASE stmt.kind = "delete"
  BY <1>2 DEF Asked, Sql!Nothing
<1> QED
  BY <1>1, <1>2, StmtFields DEF KeyInv

\* What an UPDATE or DELETE has dealt with are rows that match.
LEMMA DealtMatches ==
  ASSUME KeyInv, stmt # NoStmt
  PROVE  Dealt(stmt, scan) \subseteq Sql!Matching
  BY StmtFields, AskedFor DEF Dealt, Sql!Matching, KeyInv

\* The rows that it leaves are what SqlTable.tla has after these.
LEMMA RowsAfter ==
  ASSUME KeyInv, Progress, stmt # NoStmt
  PROVE  {tree[k] : k \in DOMAIN tree} = Sql!After(Dealt(stmt, scan))
<1>1. /\ Asked.kind = stmt.kind
      /\ Asked.kind = "update" => Asked.change = stmt.change
  BY AskedFor
<1>2. {tree[k] : k \in DOMAIN tree} =
        ({scan[k] : k \in DOMAIN scan} \ Dealt(stmt, scan))
        \cup {With(stmt.change, r, r) :
                r \in IF stmt.kind = "update" THEN Dealt(stmt, scan) ELSE {}}
  BY RowsLeft
<1>3. CASE stmt.kind = "update"
  BY <1>1, <1>2, <1>3 DEF Sql!After
<1>4. CASE stmt.kind # "update"
  BY <1>1, <1>2, <1>4 DEF Sql!After
<1> QED
  BY <1>3, <1>4

\* A statement that an error ends has dealt with some of the matching rows.
LEMMA ErrorMeans ==
  ASSUME KeyInv, Progress, RowFails
  PROVE  Sql!Next
<1>1. /\ stmt # NoStmt /\ stmt' = NoStmt /\ UNCHANGED <<pk, tree>>
      /\ Reply("error", 0)
  BY DEF RowFails, End
<1>2. Asked # Sql!Nothing
  BY <1>1, AskedFor
<1>3. Dealt(stmt, scan) \in SUBSET Sql!Matching
  BY <1>1, DealtMatches
<1>4. Rows' = Sql!After(Dealt(stmt, scan))
  BY <1>1, RowsAfter DEF Rows
<1>5. Asked' = Sql!Nothing
  BY <1>1 DEF Asked, NoStmt, Sql!Nothing
<1>6. Sql!Stop
  BY <1>1, <1>2, <1>3, <1>4, <1>5 DEF Sql!Stop, Sql!Reply, Reply, Rows
<1> QED
  BY <1>1, <1>6 DEF Sql!Next

\* A statement that goes through all rows has dealt with the matching ones, and
\* counted them.
LEMMA DoneMeans ==
  ASSUME KeyInv, Progress, AllRowsDone
  PROVE  Sql!Next
<1>1. /\ stmt # NoStmt /\ stmt' = NoStmt /\ UNCHANGED <<pk, tree>>
      /\ stmt.left = {} /\ Reply("ok", stmt.count)
  BY DEF AllRowsDone, End
<1>2. Asked # Sql!Nothing /\ Asked.where = stmt.where
  BY <1>1, AskedFor
<1>3. Dealt(stmt, scan) = Sql!Matching
  BY <1>1, <1>2 DEF Dealt, Sql!Matching
<1>4. stmt.count = Sql!Cardinality(Sql!Matching)
  BY <1>1, <1>3, SameCardinality DEF Progress
<1>5. \A k \in DOMAIN scan : ~Undecided(stmt.where, scan[k])
  <2> SUFFICES ASSUME NEW k \in DOMAIN scan PROVE ~Undecided(stmt.where, scan[k])
    OBVIOUS
  <2>1. RowDone(stmt, tree, scan, k)
    BY <1>1 DEF Progress
  <2>2. Condition(stmt.where, scan[k]) \in {<<"BOOL", TRUE>>, <<"BOOL", FALSE>>}
    BY <2>1 DEF RowDone, Holds, True
  <2>3. Type(<<"BOOL", TRUE>>) = "BOOL" /\ Type(<<"BOOL", FALSE>>) = "BOOL"
    BY DEF Type
  <2> QED
    BY <2>2, <2>3 DEF Undecided
<1>6. \A r \in Rows : ~Undecided(Asked.where, r)
  BY <1>1, <1>2, <1>5 DEF Rows
<1>7. Rows' = Sql!After(Sql!Matching)
  BY <1>1, <1>3, RowsAfter DEF Rows
<1>8. Asked' = Sql!Nothing
  BY <1>1 DEF Asked, NoStmt, Sql!Nothing
<1>9. Sql!Answer
  BY <1>1, <1>2, <1>4, <1>6, <1>7, <1>8 DEF Sql!Answer, Sql!Reply, Reply, Rows
<1> QED
  BY <1>1, <1>9 DEF Sql!Next

\* Every step of the table is a step of SqlTable.tla, or none.
LEMMA SqlStep ==
  ASSUME KeyInv, KeyInv', RowsFitColumns', ~AssignsKey, Progress, [Next]_vars
  PROVE  [Sql!Next]_(Sql!vars)
<1>1. CASE \E given \in Inputs :
             InsertFails(given) \/ InsertWithKey(given) \/ InsertWithRowId(given)
  BY <1>1, InsertMeans
<1>2. CASE RowFails
  BY <1>2, ErrorMeans
<1>3. CASE AllRowsDone
  BY <1>3, DoneMeans
<1>4. CASE \E where \in Wheres :
             \/ Begin("delete", where, NoChange)
             \/ \E change \in Changes : Allowed(change) /\ Begin("update", where, change)
  BY <1>4, BeginMeans
<1>5. CASE \/ stmt # NoStmt /\ (SkipRow \/ UpdateRow \/ DeleteRow)
           \/ UNCHANGED vars
  BY <1>5, StepsWithin
<1> QED
  BY <1>1, <1>2, <1>3, <1>4, <1>5 DEF Next

\* An empty table is one to SQL.
LEMMA SqlInit ==
  ASSUME Init
  PROVE  Sql!Init /\ Progress
<1>1. stmt = NoStmt /\ tree = <<>> /\ reply = [status |-> "ok", count |-> 0]
  BY DEF Init
<1>2. DOMAIN tree = {}
  BY <1>1
<1>3. Sql!Init
  BY <1>1, <1>2 DEF Sql!Init, Asked, NoStmt, Sql!Nothing
<1> QED
  BY <1>1, <1>2, <1>3, FS_EmptySet DEF Progress

----------------------------------------------------------------------------
\* Theorems

\* The types of the rows' keys, of the statement in progress and of its scan.
THEOREM TableTypes == Spec => []TypeOK
<1>1. KeyInv => TypeOK  BY DEF KeyInv
<1> QED  BY InitKeyInv, NextKeeps, <1>1, PTL DEF Spec

\* As long as no UPDATE assigns the primary key, every row is where UPDATE and
\* DELETE look for it, in the middle of statements and after their errors too.
THEOREM RowsStayUnderTheirKeys == Spec => []RowsUnderTheirKeys
<1>1. KeyInv => RowsUnderTheirKeys  BY DEF KeyInv
<1> QED  BY InitKeyInv, NextKeeps, <1>1, PTL DEF Spec

\* Under the same condition a scan lists the rows in the order of their primary
\* keys or row ids, whatever the ints and texts, in the middle of statements and
\* after their errors too.
THEOREM ScansStaySorted == Spec => []ScansSorted
<1>1. KeyInv => ScansSorted
  <2> SUFFICES ASSUME KeyInv, ~AssignsKey, NEW j \in DOMAIN tree, NEW k \in DOMAIN tree
               PROVE  LexLess(j, k) <=> ~AtMost(KeyValue(tree[k]), KeyValue(tree[j]))
    BY DEF ScansSorted
  <2> DEFINE v == KeyValue(tree[j])
             w == KeyValue(tree[k])
  <2>1. v \in KeyValues /\ w \in KeyValues /\ SerializeKey(v) = j /\ SerializeKey(w) = k
    BY DEF KeyInv, KeysTyped, RowsUnderTheirKeys
  <2>2. KeyType # "NULL"
    BY TableAssumption DEF KeyInv, TypeOK, KeyType
  <2> HIDE DEF v, w
  <2>3. v \in Values /\ w \in Values /\ Type(v) = Type(w) /\ v # Null
    BY <2>1, <2>2 DEF KeyValues, Type, Null
  <2>4. LexLess(SerializeKey(v), SerializeKey(w)) <=> ~AtMost(w, v)
    BY <2>3, KeysSorted
  <2> QED  BY <2>1, <2>4 DEF v, w
<1> QED  BY InitKeyInv, NextKeeps, <1>1, PTL DEF Spec

\* Whatever INSERTs and UPDATEs are given, a column of the table holds NULL and
\* values of its type, in the middle of statements and after their errors too.
THEOREM RowsStayInColumns == Spec => []RowsFitColumns
<1> DEFINE FitsInv == KeyInv /\ RowsFitColumns /\ ScanFits
<1>1. Init => FitsInv
  BY InitKeyInv DEF Init, RowsFitColumns, ScanFits
<1>2. FitsInv /\ [Next]_vars => FitsInv'
  BY FitsStep, NextKeeps
<1> QED
  BY <1>1, <1>2, PTL DEF Spec

\* The statements on a table, which read its rows and then deal with one after
\* the other, find them again by key, and may stop half way, are to whoever
\* sends them the statements of SQL on a set of rows, each with the WHERE and the
\* assignments that were asked for, as long as none assigns the primary key:
\* PrimaryKeyUnique is what becomes of it then.
THEOREM TableImplementsSql ==
  ASSUME ~AssignsKey
  PROVE  Spec => ImplementsSqlTable
<1> DEFINE SqlInv == KeyInv /\ RowsFitColumns /\ ScanFits /\ Progress
<1>1. Init => SqlInv /\ Sql!Init
  BY InitKeyInv, SqlInit DEF Init, RowsFitColumns, ScanFits
<1>2. SqlInv /\ [Next]_vars => SqlInv'
  BY FitsStep, NextKeeps, ProgressStep
<1>3. SqlInv /\ SqlInv' /\ [Next]_vars => [Sql!Next]_(Sql!vars)
  BY SqlStep
<1> QED
  BY <1>1, <1>2, <1>3, PTL DEF Spec, ImplementsSqlTable, Sql!Spec

=============================================================================
