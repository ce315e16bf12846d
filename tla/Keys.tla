-------------------------------- MODULE Keys ---------------------------------
(***************************************************************************)
(* The keys of rows as engine/table.go makes them of values: strings of    *)
(* bytes whose order is the order of the values.                           *)
(***************************************************************************)
EXTENDS Values

CONSTANT Byte   \* how many values a byte has: 256, and less for TLC

\* 2^63 if a byte has 256 values.
IntLimit == (Byte \div 2) * Byte * Byte * Byte * Byte * Byte * Byte * Byte

ASSUME KeysAssumption ==
  /\ Byte \in Nat /\ Byte > 0 /\ Byte % 2 = 0
  /\ Ints \subseteq -IntLimit .. IntLimit - 1

\* The low byte first.
BigEndianMutant(u) ==
  LET s1 == u \div Byte
      s2 == s1 \div Byte
      s3 == s2 \div Byte
      s4 == s3 \div Byte
      s5 == s4 \div Byte
      s6 == s5 \div Byte
      s7 == s6 \div Byte
  IN  <<u % Byte, s1 % Byte, s2 % Byte, s3 % Byte,
        s4 % Byte, s5 % Byte, s6 % Byte, s7 % Byte>>

\* The eight bytes of an unsigned number, the highest first: what is left of u
\* when its lowest byte is shifted out, and so on.
BigEndian(u) ==
  LET s1 == u \div Byte
      s2 == s1 \div Byte
      s3 == s2 \div Byte
      s4 == s3 \div Byte
      s5 == s4 \div Byte
      s6 == s5 \div Byte
      s7 == s6 \div Byte
  IN  <<s7 % Byte, s6 % Byte, s5 % Byte, s4 % Byte,
        s3 % Byte, s2 % Byte, s1 % Byte, u % Byte>>

\* Flipping the sign bit of v in two's complement adds 2^63 to it.
SerializeKey(v) ==
  CASE Type(v) = "INT" -> BigEndian(v[2] + IntLimit)
    [] Type(v) = "TEXT" -> Codes(v[2])
    [] Type(v) = "BOOL" -> IF v[2] THEN <<1>> ELSE <<0>>
    [] OTHER -> Codes(NilText)

=============================================================================
