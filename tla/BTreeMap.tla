------------------------------ MODULE BTreeMap ------------------------------
(***************************************************************************)
(* The B-Tree of BTree.tla implements the map of OrderedMap.tla.  The map  *)
(* changes when a call returns; the history variable before holds the      *)
(* rows the tree had when the call began.                                  *)
(***************************************************************************)
EXTENDS BTree

CONSTANT Absent    \* not a value

ASSUME AbsentAssumption == Absent \notin Vals

VARIABLE before

Contents ==
  LET rows == Rows(view)
  IN  [k \in Keys |->
         IF \E i \in DOMAIN rows : rows[i].key = k
         THEN rows[CHOOSE i \in DOMAIN rows : rows[i].key = k].value
         ELSE Absent]

HInit == Init /\ before = [k \in Keys |-> Absent]

HNext ==
  /\ Next
  /\ before' = IF pc = "idle" THEN Contents ELSE before

HSpec == HInit /\ [][HNext]_<<vars, before>>

HFairSpec == HSpec /\ Fairness

Map == INSTANCE OrderedMap WITH
  dict <- IF pc = "idle" THEN Contents ELSE before,
  call <- req,
  reply <- IF pc = "idle" THEN res ELSE NoResult

\* Without failures the tree is the map: every Search, Delete and Scan answers
\* from the rows that the Inserts before it left, through any splits.
ImplementsMap == Map!Spec

\* With failures it is a map that a failed Insert can lose rows of, and in no
\* other way: nothing is invented, changed or brought back, and what Search
\* and Scan report is what is left.
ImplementsLossyMap == Map!LossySpec

=============================================================================
