------------------------------ MODULE MCBTree ------------------------------
(***************************************************************************)
(* Small B-Trees for TLC: two cells to a node, so that three inserts split *)
(* a leaf and five ascending ones an internal node.  The sizes are those   *)
(* of the code, with 8 bytes to a key and 40 to a row where nothing else   *)
(* is said: LongKeys are keys of which one fits in a node and two do not,  *)
(* and big is a row longer than a page.                                    *)
(***************************************************************************)
EXTENDS BTreeMap

CONSTANTS a, b, big,
  LongKeys

MCKeyBytes == [k \in Keys |-> IF k \in LongKeys THEN 2050 ELSE 8]
MCValBytes == [v \in Vals |-> IF v = big THEN 5000 ELSE 40]

=============================================================================
