----------------------------- MODULE MCDatabase -----------------------------
(***************************************************************************)
(* Small databases for TLC: one row to a leaf, so that the second row of a *)
(* table splits its root; the sizes in bytes are those of the code.  A     *)
(* generated row id beyond Keys is not given out: a bound.                 *)
(***************************************************************************)
EXTENDS Database

CONSTANTS a, b, t, u

MCKeyBytes == [k \in Keys |-> 8]
MCValBytes == [v \in Vals |-> 40]

\* WHERE finds one row, or there is no WHERE.
MCWheres == {{k} : k \in Keys} \cup {Keys}

=============================================================================
