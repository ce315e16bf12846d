----------------------------- MODULE PageStore -----------------------------
(***************************************************************************)
(* What the storage layer may rely on: a store of numbered pages with a    *)
(* contents that the running process sees (view) and a contents that       *)
(* survives it (disk).  Every operation is one step.                       *)
(*                                                                         *)
(* Pager.tla, the page file with its cache and its header, implements this *)
(* module; BTree.tla is built on it.                                       *)
(***************************************************************************)
CONSTANTS
  PageNums,   \* the page numbers that can be handed out
  Data,       \* the possible contents of a page
  Zero        \* the contents of a page of zero bytes, in Data

VARIABLES
  view,       \* view[p]: what a read of page p returns to the process
  disk,       \* disk[p]: what a read of p returns after a restart
  owned       \* the pages that were handed out and whose hand-out is durable

vars == <<view, disk, owned>>

TypeOK ==
  /\ view \in [PageNums -> Data]
  /\ disk \in [PageNums -> Data]
  /\ owned \in SUBSET PageNums

Init ==
  /\ view = [p \in PageNums |-> Zero]
  /\ disk = [p \in PageNums |-> Zero]
  /\ owned = {}

\* A page handed out is fresh: it belongs to nobody and holds zeros.
Alloc(p) ==
  /\ p \in PageNums \ owned
  /\ owned' = owned \cup {p}
  /\ view' = [view EXCEPT ![p] = Zero]
  /\ disk' = [disk EXCEPT ![p] = Zero]

\* A write that is reported as done is durable at once.
Write(p, d) ==
  /\ p \in owned
  /\ view' = [view EXCEPT ![p] = d]
  /\ disk' = [disk EXCEPT ![p] = d]
  /\ UNCHANGED owned

\* A write that is reported as failed has reached the view, and may or may
\* not have reached the disk.
WriteFails(p, d) ==
  /\ p \in owned
  /\ view' = [view EXCEPT ![p] = d]
  /\ \/ disk' = disk
     \/ disk' = [disk EXCEPT ![p] = d]
  /\ UNCHANGED owned

\* The process ends, or drops its cache: what was not on disk is gone.
Reopen ==
  /\ view' = disk
  /\ UNCHANGED <<disk, owned>>

Next ==
  \/ \E p \in PageNums :
       \/ Alloc(p)
       \/ \E d \in Data : Write(p, d) \/ WriteFails(p, d)
  \/ Reopen

Spec == Init /\ [][Next]_vars

=============================================================================
