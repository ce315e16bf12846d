---------------------------- MODULE OrderedMap -----------------------------
(***************************************************************************)
(* What a B-Tree promises its caller: a map from keys to values, with one  *)
(* call at a time.  Insert puts or replaces, Delete removes, Search finds, *)
(* Scan lists the whole map in key order.                                  *)
(***************************************************************************)
EXTENDS Integers, Sequences

CONSTANTS
  Keys,     \* ordered by <
  Vals,
  Absent    \* what a key without a value maps to

VARIABLES
  dict,     \* the map
  call,     \* the call in progress
  reply     \* the result of the last call

vars == <<dict, call, reply>>

Calls ==
  [op : {"insert"}, key : Keys, val : Vals]
    \cup [op : {"search", "delete"}, key : Keys]
    \cup {[op |-> "new"], [op |-> "scan"]}

NoCall == [op |-> "none"]

Pairs == {[key |-> k, value |-> dict[k]] : k \in {q \in Keys : dict[q] # Absent}}

Init ==
  /\ dict = [k \in Keys |-> Absent]
  /\ call = NoCall
  /\ reply = [status |-> "none", rows |-> <<>>]

Call(c) ==
  /\ call = NoCall
  /\ call' = c
  /\ reply' = [status |-> "none", rows |-> <<>>]
  /\ UNCHANGED dict

Return(status, rows) ==
  /\ call' = NoCall
  /\ reply' = [status |-> status, rows |-> rows]

\* The map is created empty.
New ==
  /\ call.op = "new"
  /\ Pairs = {}
  /\ Return("ok", <<>>)
  /\ UNCHANGED dict

Insert ==
  /\ call.op = "insert"
  /\ dict' = [dict EXCEPT ![call.key] = call.val]
  /\ Return("ok", <<>>)

Delete ==
  /\ call.op = "delete"
  /\ dict' = [dict EXCEPT ![call.key] = Absent]
  /\ Return(IF dict[call.key] = Absent THEN "notfound" ELSE "ok", <<>>)

Search ==
  /\ call.op = "search"
  /\ IF dict[call.key] = Absent
       THEN Return("notfound", <<>>)
       ELSE Return("ok", <<[key |-> call.key, value |-> dict[call.key]]>>)
  /\ UNCHANGED dict

\* The rows of a scan are the pairs of the map, each once, in key order.
Scan ==
  /\ call.op = "scan"
  /\ UNCHANGED dict
  /\ call' = NoCall
  /\ reply'.status = "ok"
  /\ {reply'.rows[i] : i \in DOMAIN reply'.rows} = Pairs
  /\ \A i \in 2 .. Len(reply'.rows) :
       reply'.rows[i - 1].key < reply'.rows[i].key

\* An error was reported, and the call took effect or did not.
Fails ==
  /\ call # NoCall
  /\ Return("error", <<>>)
  /\ \/ UNCHANGED dict
     \/ /\ call.op = "insert"
        /\ dict' = [dict EXCEPT ![call.key] = call.val]
     \/ /\ call.op = "delete"
        /\ dict' = [dict EXCEPT ![call.key] = Absent]

\* An error was reported, and an insert may also have lost any of the other
\* pairs; it has changed no value and added no key but its own.
LossyFails ==
  /\ call.op = "insert"
  /\ Return("error", <<>>)
  /\ \A k \in Keys :
       \/ dict'[k] \in {dict[k], Absent}
       \/ k = call.key /\ dict'[k] = call.val
  /\ DOMAIN dict' = Keys

Next ==
  \/ \E c \in Calls : Call(c)
  \/ New \/ Insert \/ Delete \/ Search \/ Scan \/ Fails

Spec == Init /\ [][Next]_vars

LossySpec == Init /\ [][Next \/ LossyFails]_vars

=============================================================================
