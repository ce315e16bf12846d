------------------------------ MODULE SqlTable ------------------------------
(***************************************************************************)
(* What the statements of SQL mean for one table: a set of rows without    *)
(* any order or place, changed by one statement at a time.  An UPDATE or   *)
(* DELETE is asked for, and then answered or stopped by an error.          *)
(***************************************************************************)
EXTENDS Integers, FiniteSets

CONSTANTS
  Fits(_),         \* the rows that fit the columns of the table
  Identity(_, _),  \* Identity(pk, r): what no two rows of the table share
  Inputs,          \* what an INSERT can give
  Gives(_, _),     \* Gives(i, r): r is the row that i gives
  Wheres,          \* the conditions a statement can have
  Holds(_, _),     \* Holds(w, r): w is true of row r
  Undecided(_, _), \* Undecided(w, r): w is neither true nor false of it
  Changes,         \* the assignments an UPDATE can have
  Changed(_, _)    \* Changed(a, r): row r with the assignments a

VARIABLES
  pk,              \* the primary key
  asked,           \* the UPDATE or DELETE that is to be answered
  rows,
  reply            \* to the last statement: its status and how many rows

vars == <<pk, asked, rows, reply>>

Nothing == [kind |-> "none"]

Deletes == [kind : {"delete"}, where : Wheres]
Updates == [kind : {"update"}, where : Wheres, change : Changes]

Init ==
  /\ asked = Nothing
  /\ rows = {}
  /\ reply = [status |-> "ok", count |-> 0]

Reply(status, count) == reply' = [status |-> status, count |-> count]

\* The row that is given, if it is like no other, is added.
Insert ==
  /\ asked = Nothing
  /\ \E row \in rows' \ rows :
       /\ Fits(row)
       /\ \E i \in Inputs : Gives(i, row)
       /\ \A r \in rows : Identity(pk, r) # Identity(pk, row)
       /\ rows' = rows \cup {row}
  /\ Reply("ok", 1)
  /\ UNCHANGED asked

Refuse ==
  /\ asked = Nothing
  /\ Reply("error", 0)
  /\ UNCHANGED <<rows, asked>>

Ask ==
  /\ asked = Nothing
  /\ asked' \in Deletes \cup Updates
  /\ UNCHANGED <<rows, reply>>

\* The rows that match the condition of the statement asked for.
Matching == {r \in rows : Holds(asked.where, r)}

\* What the statement asked for makes of the rows done.
After(done) ==
  (rows \ done) \cup
    (IF asked.kind = "update" THEN {Changed(asked.change, r) : r \in done} ELSE {})

\* Exactly the matching rows are changed, each on its own, or removed, and
\* counted.
Answer ==
  /\ asked # Nothing
  /\ \A r \in rows : ~Undecided(asked.where, r)
  /\ rows' = After(Matching)
  /\ Reply("ok", Cardinality(Matching))
  /\ asked' = Nothing

\* A statement with an error may have dealt with some of them, and with no
\* other row.
Stop ==
  /\ asked # Nothing
  /\ \E done \in SUBSET Matching : rows' = After(done)
  /\ Reply("error", 0)
  /\ asked' = Nothing

Next == (Insert \/ Refuse \/ Ask \/ Answer \/ Stop) /\ UNCHANGED pk

Spec == Init /\ [][Next]_vars

=============================================================================
