------------------------------- MODULE Pager -------------------------------
(***************************************************************************)
(* storage/pager.go: the database file as numbered pages, an in-memory     *)
(* cache of them, and a page count that is kept in memory and in the       *)
(* header page.  Every write to the file is one WriteAt followed by Sync,  *)
(* and is one step here; a method that writes twice is two steps, with a   *)
(* crash possible between them.                                            *)
(*                                                                         *)
(* Abstracted: the bytes of a page (Data), the magic bytes of the header,  *)
(* and a crash inside one WriteAt (a page is written whole or not at all). *)
(* The callers always pass buffers of PageSize bytes.                      *)
(*                                                                         *)
(* An operator whose name ends in Mutant is the definition after it with a *)
(* plausible bug; it is used only to see that the properties can fail.     *)
(***************************************************************************)
EXTENDS Naturals

CONSTANTS
  MaxPages,     \* MaxPages of pager.go: page numbers are below it
  Data,         \* contents of a page
  Zero,         \* the contents of a page of zero bytes
  Hole,         \* a page number that lies beyond the end of the file
  NotCached,    \* a page number that is not a key of the cache
  MaxIOErrors   \* bound: how many writes the operating system refuses

ASSUME PagerAssumption ==
  /\ MaxPages \in Nat \ {0}
  /\ MaxIOErrors \in Nat
  /\ Zero \in Data
  /\ Hole \notin Data
  /\ NotCached \notin Data
  /\ NotCached # Hole

\* Page 0 is the header; its count is the variable hdr.
PageNums == 1 .. MaxPages - 1

VARIABLES
  hdr,       \* the page count in the header on disk; 0: the file is empty
  file,      \* file[p]: the contents of page p on disk
  up,        \* OpenPager has returned a Pager and the process lives
  numPages,  \* p.numPages
  cache,     \* p.cache
  op,        \* the method in progress and the next write it will make
  owned,     \* history: the page numbers AllocatePage has returned
  ioErrors   \* how many writes have been refused

vars == <<hdr, file, up, numPages, cache, op, owned, ioErrors>>

Idle == [kind |-> "idle", page |-> 0, was |-> Zero]

\* op.kind names the write to the file that comes next:
\*   "open"    OpenPager writes the first header
\*   "write"   WritePage has updated the cache
\*   "zero"    AllocatePage has counted the page up
\*   "header"  AllocatePage has written the zeros
\* op.was is a history field: what the process saw on the page before.
OpKinds == {"idle", "open", "write", "zero", "header"}
Ops == [kind : OpKinds, page : 0 .. MaxPages - 1, was : Data]

TypeOK ==
  /\ hdr \in 0 .. MaxPages
  /\ file \in [PageNums -> Data \cup {Hole}]
  /\ up \in BOOLEAN
  /\ numPages \in 0 .. MaxPages
  /\ cache \in [PageNums -> Data \cup {NotCached}]
  /\ op \in Ops
  /\ owned \in SUBSET PageNums
  /\ ioErrors \in 0 .. MaxIOErrors

EmptyCache == [p \in PageNums |-> NotCached]

Init ==
  /\ hdr = 0
  /\ file = [p \in PageNums |-> Hole]
  /\ up = FALSE
  /\ numPages = 0
  /\ cache = EmptyCache
  /\ op = Idle
  /\ owned = {}
  /\ ioErrors = 0

----------------------------------------------------------------------------
\* What the file and the process show of a page.

Durable(p) == IF file[p] = Hole THEN Zero ELSE file[p]

Visible(p) == IF cache[p] = NotCached THEN Durable(p) ELSE cache[p]

\* The offset is one page too far.
FileWithMutant(p, d) ==
  [q \in PageNums |-> IF q = p + 1 THEN d
                      ELSE IF q <= p /\ file[q] = Hole THEN Zero
                      ELSE file[q]]

\* writePageRaw: WriteAt at p * PageSize; a gap before it is filled with zeros.
FileWith(p, d) ==
  [q \in PageNums |-> IF q = p THEN d
                      ELSE IF q < p /\ file[q] = Hole THEN Zero
                      ELSE file[q]]

\* An error of WriteAt leaves the file as it was; an error of the Sync after
\* it leaves the new contents.
IOError == ioErrors < MaxIOErrors /\ ioErrors' = ioErrors + 1

Ready == up /\ op.kind = "idle"

----------------------------------------------------------------------------
\* OpenPager

\* Without the test for an empty file.
OpenNewMutant ==
  /\ ~up /\ op.kind = "idle"
  /\ numPages' = 1
  /\ op' = [Idle EXCEPT !.kind = "open"]
  /\ UNCHANGED <<hdr, file, up, cache, owned, ioErrors>>

OpenNew ==
  /\ ~up /\ op.kind = "idle" /\ hdr = 0
  /\ numPages' = 1
  /\ op' = [Idle EXCEPT !.kind = "open"]
  /\ UNCHANGED <<hdr, file, up, cache, owned, ioErrors>>

OpenNewHeader ==
  /\ op.kind = "open"
  /\ hdr' = numPages
  /\ up' = TRUE
  /\ op' = Idle
  /\ UNCHANGED <<file, numPages, cache, owned, ioErrors>>

\* OpenPager returns the error and main exits.
OpenNewFails ==
  /\ op.kind = "open"
  /\ IOError
  /\ hdr' \in {hdr, numPages}
  /\ numPages' = 0
  /\ op' = Idle
  /\ UNCHANGED <<file, up, cache, owned>>

\* The header page is not counted.
OpenExistingMutant ==
  /\ ~up /\ op.kind = "idle" /\ hdr # 0
  /\ numPages' = hdr - 1
  /\ up' = TRUE
  /\ UNCHANGED <<hdr, file, cache, op, owned, ioErrors>>

OpenExisting ==
  /\ ~up /\ op.kind = "idle" /\ hdr # 0
  /\ numPages' = hdr
  /\ up' = TRUE
  /\ UNCHANGED <<hdr, file, cache, op, owned, ioErrors>>

----------------------------------------------------------------------------
\* The buffer is cached before it is filled.
ReadPageMutant(p) ==
  /\ Ready
  /\ cache[p] = NotCached
  /\ p < numPages
  /\ file[p] # Hole
  /\ cache' = [cache EXCEPT ![p] = Zero]
  /\ UNCHANGED <<hdr, file, up, numPages, op, owned, ioErrors>>

\* ReadPage of a page that is not cached.  A hit, a page number out of range
\* and a read past the end of the file change nothing.
ReadPage(p) ==
  /\ Ready
  /\ cache[p] = NotCached
  /\ p < numPages
  /\ file[p] # Hole
  /\ cache' = [cache EXCEPT ![p] = file[p]]
  /\ UNCHANGED <<hdr, file, up, numPages, op, owned, ioErrors>>

----------------------------------------------------------------------------
\* WritePage: the cache first, then the file.  Its callers write the pages
\* AllocatePage gave them.

WritePage(p, d) ==
  /\ Ready
  /\ p \in owned
  /\ cache' = [cache EXCEPT ![p] = d]
  /\ op' = [kind |-> "write", page |-> p, was |-> Visible(p)]
  /\ UNCHANGED <<hdr, file, up, numPages, owned, ioErrors>>

WriteReachesFile ==
  /\ op.kind = "write"
  /\ file' = FileWith(op.page, cache[op.page])
  /\ op' = Idle
  /\ UNCHANGED <<hdr, up, numPages, cache, owned, ioErrors>>

WriteFails ==
  /\ op.kind = "write"
  /\ IOError
  /\ file' \in {file, FileWith(op.page, cache[op.page])}
  /\ op' = Idle
  /\ UNCHANGED <<hdr, up, numPages, cache, owned>>

----------------------------------------------------------------------------
\* AllocatePage: count up, write the zeros, write the header.  At MaxPages it
\* returns an error and changes nothing.

\* Without the limit.
AllocatePageMutant ==
  /\ Ready
  /\ op' = [kind |-> "zero", page |-> numPages, was |-> Zero]
  /\ numPages' = numPages + 1
  /\ UNCHANGED <<hdr, file, up, cache, owned, ioErrors>>

AllocatePage ==
  /\ Ready
  /\ numPages < MaxPages
  /\ op' = [kind |-> "zero", page |-> numPages, was |-> Zero]
  /\ numPages' = numPages + 1
  /\ UNCHANGED <<hdr, file, up, cache, owned, ioErrors>>

\* The page is handed out without updateHeader.
AllocateZerosMutant ==
  /\ op.kind = "zero"
  /\ file' = FileWith(op.page, Zero)
  /\ owned' = owned \cup {op.page}
  /\ op' = Idle
  /\ UNCHANGED <<hdr, up, numPages, cache, ioErrors>>

AllocateZeros ==
  /\ op.kind = "zero"
  /\ file' = FileWith(op.page, Zero)
  /\ op' = [op EXCEPT !.kind = "header"]
  /\ UNCHANGED <<hdr, up, numPages, cache, owned, ioErrors>>

\* updateHeader, and the page number is returned.
AllocateHeader ==
  /\ op.kind = "header"
  /\ hdr' = numPages
  /\ owned' = owned \cup {op.page}
  /\ op' = Idle
  /\ UNCHANGED <<file, up, numPages, cache, ioErrors>>

\* Either write is refused: the count in memory keeps the increment.
AllocateFails ==
  /\ IOError
  /\ \/ /\ op.kind = "zero"
        /\ file' \in {file, FileWith(op.page, Zero)}
        /\ hdr' = hdr
     \/ /\ op.kind = "header"
        /\ hdr' \in {hdr, numPages}
        /\ file' = file
  /\ op' = Idle
  /\ UNCHANGED <<up, numPages, cache, owned>>

----------------------------------------------------------------------------
InvalidateCache ==
  /\ Ready
  /\ cache # EmptyCache
  /\ cache' = EmptyCache
  /\ UNCHANGED <<hdr, file, up, numPages, op, owned, ioErrors>>

\* The process ends, and with it everything held in memory.
ProcessEnds ==
  /\ up' = FALSE
  /\ numPages' = 0
  /\ cache' = EmptyCache
  /\ op' = Idle
  /\ UNCHANGED <<hdr, file, owned, ioErrors>>

\* Close only closes the file.
Close == Ready /\ ProcessEnds

\* The process is killed, or panics, at any moment.
Crash == (up \/ op.kind # "idle") /\ ProcessEnds

Next ==
  \/ OpenNew \/ OpenNewHeader \/ OpenNewFails \/ OpenExisting
  \/ \E p \in PageNums : ReadPage(p) \/ \E d \in Data : WritePage(p, d)
  \/ WriteReachesFile \/ WriteFails
  \/ AllocatePage \/ AllocateZeros \/ AllocateHeader \/ AllocateFails
  \/ InvalidateCache \/ Close \/ Crash

Spec == Init /\ [][Next]_vars

----------------------------------------------------------------------------
\* Properties

\* Every page AllocatePage has returned stays readable for ever: it is below
\* the durable page count, so that a restarted process accepts its number
\* (ReadPage rejects the others), and the file reaches that far.
OwnedPagesAddressable == \A p \in owned : p < hdr /\ file[p] # Hole

\* Pages handed out to nobody are still zeros, in the file and in the cache,
\* and the page an allocation is working on is one of them: a number is never
\* handed out twice, whichever writes of earlier allocations were refused and
\* wherever the process died.
FreePagesClean ==
  /\ \A p \in PageNums \ owned :
       file[p] \in {Hole, Zero} /\ cache[p] \in {NotCached, Zero}
  /\ op.kind \in {"zero", "header"} => op.page \notin owned

\* A process that has never been refused a write sees exactly what it would
\* see after a restart, the page it is just writing excepted: ReadPage never
\* serves a cached copy that is older or newer than the file.
CacheCoherent ==
  \A p \in PageNums :
    \/ Visible(p) = Durable(p)
    \/ op.kind = "write" /\ op.page = p
    \/ ioErrors > 0

\* The durable page count never goes down: not by a restart, a failed
\* allocation, or an allocation after a failed one.
HeaderNeverShrinks == [][hdr' >= hdr]_vars

\* The page file implements the page store.  A page that is being written
\* shows its old contents until the file is written.
StoreView ==
  [p \in PageNums |->
     IF op.kind = "write" /\ op.page = p THEN op.was ELSE Visible(p)]

StoreDisk == [p \in PageNums |-> Durable(p)]

Store == INSTANCE PageStore WITH view <- StoreView, disk <- StoreDisk

ImplementsPageStore == Store!Spec

=============================================================================
