---------------------------- MODULE PagerProofs ----------------------------
(***************************************************************************)
(* Proofs about Pager.tla, for every page limit, every set of contents and *)
(* every number of refused writes.                                         *)
(*                                                                         *)
(* The inductive invariant Inv adds to the properties what ties the page   *)
(* count in memory to the one in the header (Counts) and what a method in  *)
(* progress has already done (InFlight).                                   *)
(***************************************************************************)
EXTENDS Pager, TLAPS

\* A process that is up counts at least the pages of the header; one that is
\* not up holds nothing.
Counts ==
  /\ up => 1 <= hdr /\ hdr <= numPages
  /\ ~up => cache = EmptyCache /\ op.kind \in {"idle", "open"}
  /\ hdr = 0 => owned = {} /\ ~up

InFlight ==
  /\ op.kind = "open" => hdr = 0 /\ numPages = 1
  /\ op.kind = "write" =>
       op.page \in owned /\ cache[op.page] # NotCached
  /\ op.kind \in {"zero", "header"} =>
       /\ op.page \in PageNums \ owned
       /\ op.page + 1 = numPages
       /\ hdr <= op.page
  /\ op.kind = "header" => file[op.page] = Zero

Inv ==
  /\ TypeOK
  /\ Counts
  /\ InFlight
  /\ OwnedPagesAddressable
  /\ FreePagesClean
  /\ CacheCoherent

----------------------------------------------------------------------------
\* Writing a page changes no other page, but for holes that become zeros,
\* which read the same (writePageRaw).
LEMMA FileWithFacts ==
  ASSUME file \in [PageNums -> Data \cup {Hole}],
         NEW p \in PageNums, NEW d \in Data
  PROVE  /\ FileWith(p, d) \in [PageNums -> Data \cup {Hole}]
         /\ FileWith(p, d)[p] = d
         /\ \A q \in PageNums \ {p} :
              \/ FileWith(p, d)[q] = file[q]
              \/ file[q] = Hole /\ FileWith(p, d)[q] = Zero
  BY PagerAssumption DEF FileWith

\* The methods in progress, and what starting one makes of Idle.
LEMMA OpFacts ==
  /\ Idle \in Ops
  /\ [Idle EXCEPT !.kind = "open"] \in Ops
  /\ PageNums \subseteq 0 .. MaxPages - 1
  /\ \A k \in OpKinds, p \in 0 .. MaxPages - 1, d \in Data :
       [kind |-> k, page |-> p, was |-> d] \in Ops
<1> USE PagerAssumption DEF Idle, Ops, OpKinds, PageNums
<1>1. 0 \in 0 .. MaxPages - 1
  OBVIOUS
<1>2. Idle \in Ops /\ [Idle EXCEPT !.kind = "open"] \in Ops
  BY <1>1
<1> QED
  BY <1>2

\* What a write in progress does to the file, whether or not it is refused.
LEMMA WrittenFacts ==
  ASSUME TypeOK, InFlight, op.kind = "write",
         NEW f, f = FileWith(op.page, cache[op.page])
  PROVE  /\ op.page \in PageNums /\ op.page \in owned
         /\ cache[op.page] \in Data
         /\ f[op.page] = cache[op.page]
         /\ \A q \in PageNums \ {op.page} :
              f[q] = file[q] \/ (file[q] = Hole /\ f[q] = Zero)
  BY FileWithFacts DEF TypeOK, InFlight

\* A pager that has not been opened on an empty file.
LEMMA InitInv == Init => Inv
<1> SUFFICES ASSUME Init PROVE Inv
  OBVIOUS
<1> USE PagerAssumption DEF Init
<1>1. TypeOK
  <2>1. up \in BOOLEAN
    BY Zenon
  <2>2. QED
    BY <2>1, OpFacts DEF TypeOK, EmptyCache
<1>2. Counts /\ InFlight
  BY DEF Counts, InFlight, EmptyCache, Idle
<1>3. OwnedPagesAddressable /\ FreePagesClean
  BY DEF OwnedPagesAddressable, FreePagesClean, EmptyCache, Idle
<1>4. CacheCoherent
  BY DEF CacheCoherent, EmptyCache, Visible, Durable
<1> QED
  BY <1>1, <1>2, <1>3, <1>4 DEF Inv

\* What a read shows has the type of a page's contents.
LEMMA VisibleFacts ==
  ASSUME TypeOK, NEW p \in PageNums
  PROVE  Durable(p) \in Data /\ Visible(p) \in Data
  BY PagerAssumption DEF TypeOK, Durable, Visible

\* Every step keeps the types.
LEMMA TypeStep == Inv /\ [Next]_vars => TypeOK'
<1> SUFFICES ASSUME Inv, [Next]_vars PROVE TypeOK'
  OBVIOUS
<1> USE PagerAssumption DEF Inv, TypeOK, EmptyCache
<1>1. CASE OpenNew
  BY <1>1, OpFacts DEF OpenNew
<1>2. CASE OpenNewHeader
  BY <1>2, OpFacts DEF OpenNewHeader
<1>3. CASE OpenNewFails
  BY <1>3, OpFacts DEF OpenNewFails, IOError
<1>4. CASE OpenExisting
  BY <1>4 DEF OpenExisting
<1>5. ASSUME NEW p \in PageNums, ReadPage(p) PROVE TypeOK'
  BY <1>5 DEF ReadPage
<1>6. ASSUME NEW p \in PageNums, NEW d \in Data, WritePage(p, d) PROVE TypeOK'
  BY <1>6, OpFacts, VisibleFacts DEF WritePage, OpKinds, Ready
<1>7. CASE WriteReachesFile
  BY <1>7, OpFacts, FileWithFacts DEF WriteReachesFile, Counts, InFlight
<1>8. CASE WriteFails
  BY <1>8, OpFacts, FileWithFacts DEF WriteFails, Counts, InFlight, IOError
<1>9. CASE AllocatePage
  BY <1>9, OpFacts DEF AllocatePage, OpKinds, Ready, Counts, PageNums
<1>10. CASE AllocateZeros
  BY <1>10, OpFacts, FileWithFacts DEF AllocateZeros, InFlight, Ops, OpKinds
<1>11. CASE AllocateHeader
  BY <1>11, OpFacts DEF AllocateHeader, InFlight
<1>12. CASE AllocateFails
  BY <1>12, OpFacts, FileWithFacts DEF AllocateFails, InFlight, IOError
<1>13. CASE InvalidateCache
  BY <1>13 DEF InvalidateCache
<1>14. CASE Close \/ Crash
  <2>1. ProcessEnds
    BY <1>14 DEF Close, Crash
  <2>2. up' \in BOOLEAN
    BY <2>1, Zenon DEF ProcessEnds
  <2>3. QED
    BY <2>1, <2>2, OpFacts DEF ProcessEnds
<1>15. CASE UNCHANGED vars
  BY <1>15 DEF vars
<1> QED
  BY <1>1, <1>2, <1>3, <1>4, <1>5, <1>6, <1>7, <1>8, <1>9, <1>10, <1>11, <1>12, <1>13, <1>14, <1>15 DEF Next

\* Every step keeps the invariant: of each conjunct, the steps that disturb it.
LEMMA InvStep == Inv /\ [Next]_vars => Inv'
<1> SUFFICES ASSUME Inv, [Next]_vars PROVE Inv'
  OBVIOUS
<1> DEFINE Rest == /\ Counts /\ InFlight
                   /\ OwnedPagesAddressable /\ FreePagesClean /\ CacheCoherent
<1>0. TypeOK /\ TypeOK' /\ Rest
  BY TypeStep DEF Inv
<1> SUFFICES Rest'
  BY <1>0 DEF Inv
<1> USE PagerAssumption, <1>0
<1>1. CASE OpenNew
  <2>1. Counts'
    BY <1>1 DEF OpenNew, EmptyCache, Counts, TypeOK
  <2>2. InFlight'
    BY <1>1 DEF OpenNew, EmptyCache, InFlight, TypeOK, Counts, Idle, PageNums
  <2>3. OwnedPagesAddressable'
    BY <1>1 DEF OpenNew, EmptyCache, OwnedPagesAddressable, TypeOK, Counts, InFlight, PageNums
  <2>4. FreePagesClean'
    BY <1>1 DEF OpenNew, EmptyCache, FreePagesClean, TypeOK, Counts, InFlight, OwnedPagesAddressable, Idle, PageNums
  <2>5. CacheCoherent'
    BY <1>1 DEF OpenNew, EmptyCache, CacheCoherent, TypeOK, Counts, InFlight, OwnedPagesAddressable, FreePagesClean, Visible, Durable, Idle, PageNums
  <2> QED
    BY <2>1, <2>2, <2>3, <2>4, <2>5
<1>2. CASE OpenNewHeader
  <2>1. Counts'
    BY <1>2 DEF OpenNewHeader, Counts, TypeOK, InFlight, Idle
  <2>2. InFlight'
    BY <1>2 DEF OpenNewHeader, InFlight, TypeOK, Counts, Idle, PageNums
  <2>3. OwnedPagesAddressable'
    BY <1>2 DEF OpenNewHeader, OwnedPagesAddressable, TypeOK, Counts, InFlight, PageNums
  <2>4. FreePagesClean'
    BY <1>2 DEF OpenNewHeader, FreePagesClean, TypeOK, Counts, InFlight, OwnedPagesAddressable, Idle, PageNums
  <2>5. CacheCoherent'
    BY <1>2 DEF OpenNewHeader, CacheCoherent, TypeOK, Counts, InFlight, OwnedPagesAddressable, FreePagesClean, Visible, Durable, Idle, PageNums
  <2> QED
    BY <2>1, <2>2, <2>3, <2>4, <2>5
<1>3. CASE OpenNewFails
  <2>1. Counts'
    BY <1>3 DEF OpenNewFails, IOError, Counts, TypeOK, InFlight, Idle
  <2>2. InFlight'
    BY <1>3 DEF OpenNewFails, IOError, InFlight, TypeOK, Counts, Idle, PageNums
  <2>3. OwnedPagesAddressable'
    BY <1>3 DEF OpenNewFails, IOError, OwnedPagesAddressable, TypeOK, Counts, InFlight, PageNums
  <2>4. FreePagesClean'
    BY <1>3 DEF OpenNewFails, IOError, FreePagesClean, TypeOK, Counts, InFlight, OwnedPagesAddressable, Idle, PageNums
  <2>5. CacheCoherent'
    BY <1>3 DEF OpenNewFails, IOError, CacheCoherent, TypeOK, Counts, InFlight, OwnedPagesAddressable, FreePagesClean, Visible, Durable, Idle, PageNums
  <2> QED
    BY <2>1, <2>2, <2>3, <2>4, <2>5
<1>4. CASE OpenExisting
  <2>1. Counts'
    BY <1>4 DEF OpenExisting, Counts, TypeOK
  <2>2. InFlight'
    BY <1>4 DEF OpenExisting, InFlight, TypeOK, Counts, Idle, PageNums
  <2>3. OwnedPagesAddressable'
    BY <1>4 DEF OpenExisting, OwnedPagesAddressable, TypeOK, Counts, InFlight, PageNums
  <2>4. FreePagesClean'
    BY <1>4 DEF OpenExisting, FreePagesClean, TypeOK, Counts, InFlight, OwnedPagesAddressable, Idle, PageNums
  <2>5. CacheCoherent'
    BY <1>4 DEF OpenExisting, CacheCoherent, TypeOK, Counts, InFlight, OwnedPagesAddressable, FreePagesClean, Visible, Durable, Idle, PageNums
  <2> QED
    BY <2>1, <2>2, <2>3, <2>4, <2>5
<1>5. ASSUME NEW p \in PageNums, ReadPage(p) PROVE Rest'
  <2>1. Counts'
    BY <1>5 DEF ReadPage, Ready, Counts, TypeOK
  <2>2. InFlight'
    BY <1>5 DEF ReadPage, Ready, InFlight, TypeOK, Counts, Idle, PageNums
  <2>3. OwnedPagesAddressable'
    BY <1>5 DEF ReadPage, Ready, OwnedPagesAddressable, TypeOK, Counts, InFlight, PageNums
  <2>4. FreePagesClean'
    BY <1>5 DEF ReadPage, Ready, FreePagesClean, TypeOK, Counts, InFlight, OwnedPagesAddressable, Idle, PageNums
  <2>5. CacheCoherent'
    BY <1>5 DEF ReadPage, Ready, CacheCoherent, TypeOK, Counts, InFlight, OwnedPagesAddressable, FreePagesClean, Visible, Durable, Idle, PageNums
  <2> QED
    BY <2>1, <2>2, <2>3, <2>4, <2>5
<1>6. ASSUME NEW p \in PageNums, NEW d \in Data, WritePage(p, d) PROVE Rest'
  <2>1. Counts'
    BY <1>6 DEF WritePage, Ready, Counts, TypeOK
  <2>2. InFlight'
    BY <1>6 DEF WritePage, Ready, InFlight, TypeOK, Counts, Idle, PageNums
  <2>3. OwnedPagesAddressable'
    BY <1>6 DEF WritePage, Ready, OwnedPagesAddressable, TypeOK, Counts, InFlight, PageNums
  <2>4. FreePagesClean'
    BY <1>6 DEF WritePage, Ready, FreePagesClean, TypeOK, Counts, InFlight, OwnedPagesAddressable, Idle, PageNums
  <2>5. CacheCoherent'
    BY <1>6 DEF WritePage, Ready, CacheCoherent, TypeOK, Counts, InFlight, OwnedPagesAddressable, FreePagesClean, Visible, Durable, Idle, PageNums
  <2> QED
    BY <2>1, <2>2, <2>3, <2>4, <2>5
<1>7. CASE WriteReachesFile
  <2>1. Counts'
    BY <1>7 DEF WriteReachesFile, Counts, TypeOK
  <2>2. InFlight'
    BY <1>7, WrittenFacts DEF WriteReachesFile, InFlight, TypeOK, Counts, Idle, PageNums
  <2>3. OwnedPagesAddressable'
    BY <1>7, WrittenFacts DEF WriteReachesFile, OwnedPagesAddressable, TypeOK, Counts, InFlight, PageNums
  <2>4. FreePagesClean'
    BY <1>7, WrittenFacts DEF WriteReachesFile, FreePagesClean, TypeOK, Counts, InFlight, OwnedPagesAddressable, Idle, PageNums
  <2>5. CacheCoherent'
    BY <1>7, WrittenFacts DEF WriteReachesFile, CacheCoherent, TypeOK, Counts, InFlight, OwnedPagesAddressable, FreePagesClean, Visible, Durable, Idle, PageNums
  <2> QED
    BY <2>1, <2>2, <2>3, <2>4, <2>5
<1>8. CASE WriteFails
  <2>1. Counts'
    BY <1>8 DEF WriteFails, IOError, Counts, TypeOK
  <2>2. InFlight'
    BY <1>8, WrittenFacts DEF WriteFails, IOError, InFlight, TypeOK, Counts, Idle, PageNums
  <2>3. OwnedPagesAddressable'
    BY <1>8, WrittenFacts DEF WriteFails, IOError, OwnedPagesAddressable, TypeOK, Counts, InFlight, PageNums
  <2>4. FreePagesClean'
    BY <1>8, WrittenFacts DEF WriteFails, IOError, FreePagesClean, TypeOK, Counts, InFlight, OwnedPagesAddressable, Idle, PageNums
  <2>5. CacheCoherent'
    BY <1>8, WrittenFacts DEF WriteFails, IOError, CacheCoherent, TypeOK, Counts, InFlight, OwnedPagesAddressable, FreePagesClean, Visible, Durable, Idle, PageNums
  <2> QED
    BY <2>1, <2>2, <2>3, <2>4, <2>5
<1>9. CASE AllocatePage
  <2>1. Counts'
    BY <1>9 DEF AllocatePage, Ready, Counts, TypeOK
  <2>2. InFlight'
    BY <1>9 DEF AllocatePage, Ready, InFlight, TypeOK, Counts, PageNums,
       OwnedPagesAddressable
  <2>3. OwnedPagesAddressable'
    BY <1>9 DEF AllocatePage, Ready, OwnedPagesAddressable, TypeOK, Counts, InFlight, PageNums
  <2>4. FreePagesClean'
    BY <1>9 DEF AllocatePage, Ready, FreePagesClean, TypeOK, Counts, InFlight, OwnedPagesAddressable, Idle, PageNums
  <2>5. CacheCoherent'
    BY <1>9 DEF AllocatePage, Ready, CacheCoherent, TypeOK, Counts, InFlight, OwnedPagesAddressable, FreePagesClean, Visible, Durable, Idle, PageNums
  <2> QED
    BY <2>1, <2>2, <2>3, <2>4, <2>5
<1>10. CASE AllocateZeros
  <2>1. Counts'
    BY <1>10 DEF AllocateZeros, Counts, TypeOK
  <2>2. InFlight'
    BY <1>10, FileWithFacts DEF AllocateZeros, InFlight, TypeOK, Counts, Idle, PageNums
  <2>3. OwnedPagesAddressable'
    BY <1>10, FileWithFacts DEF AllocateZeros, OwnedPagesAddressable, TypeOK, Counts, InFlight, PageNums
  <2>4. FreePagesClean'
    BY <1>10, FileWithFacts DEF AllocateZeros, FreePagesClean, TypeOK, Counts, InFlight, OwnedPagesAddressable, Idle, PageNums
  <2>5. CacheCoherent'
    BY <1>10, FileWithFacts DEF AllocateZeros, CacheCoherent, TypeOK, Counts, InFlight, OwnedPagesAddressable, FreePagesClean, Visible, Durable, Idle, PageNums
  <2> QED
    BY <2>1, <2>2, <2>3, <2>4, <2>5
<1>11. CASE AllocateHeader
  <2>1. Counts'
    BY <1>11 DEF AllocateHeader, Counts, TypeOK
  <2>2. InFlight'
    BY <1>11 DEF AllocateHeader, InFlight, TypeOK, Counts, Idle, PageNums
  <2>3. OwnedPagesAddressable'
    BY <1>11 DEF AllocateHeader, OwnedPagesAddressable, TypeOK, Counts, InFlight, PageNums
  <2>4. FreePagesClean'
    BY <1>11 DEF AllocateHeader, FreePagesClean, TypeOK, Counts, InFlight, OwnedPagesAddressable, Idle, PageNums
  <2>5. CacheCoherent'
    BY <1>11 DEF AllocateHeader, CacheCoherent, TypeOK, Counts, InFlight, OwnedPagesAddressable, FreePagesClean, Visible, Durable, Idle, PageNums
  <2> QED
    BY <2>1, <2>2, <2>3, <2>4, <2>5
<1>12. CASE AllocateFails
  <2>1. Counts'
    BY <1>12 DEF AllocateFails, IOError, Counts, TypeOK
  <2>2. InFlight'
    BY <1>12, FileWithFacts DEF AllocateFails, IOError, InFlight, TypeOK, Counts, Idle, PageNums
  <2>3. OwnedPagesAddressable'
    BY <1>12, FileWithFacts DEF AllocateFails, IOError, OwnedPagesAddressable, TypeOK, Counts, InFlight, PageNums
  <2>4. FreePagesClean'
    BY <1>12, FileWithFacts DEF AllocateFails, IOError, FreePagesClean, TypeOK, Counts, InFlight, OwnedPagesAddressable, Idle, PageNums
  <2>5. CacheCoherent'
    BY <1>12, FileWithFacts DEF AllocateFails, IOError, CacheCoherent, TypeOK, Counts, InFlight, OwnedPagesAddressable, FreePagesClean, Visible, Durable, Idle, PageNums
  <2> QED
    BY <2>1, <2>2, <2>3, <2>4, <2>5
<1>13. CASE InvalidateCache
  <2>1. Counts'
    BY <1>13 DEF InvalidateCache, Ready, EmptyCache, Counts, TypeOK
  <2>2. InFlight'
    BY <1>13 DEF InvalidateCache, Ready, EmptyCache, InFlight, TypeOK, Counts, Idle, PageNums
  <2>3. OwnedPagesAddressable'
    BY <1>13 DEF InvalidateCache, Ready, EmptyCache, OwnedPagesAddressable, TypeOK, Counts, InFlight, PageNums
  <2>4. FreePagesClean'
    BY <1>13 DEF InvalidateCache, Ready, EmptyCache, FreePagesClean, TypeOK, Counts, InFlight, OwnedPagesAddressable, Idle, PageNums
  <2>5. CacheCoherent'
    BY <1>13 DEF InvalidateCache, Ready, EmptyCache, CacheCoherent, TypeOK, Counts, InFlight, OwnedPagesAddressable, FreePagesClean, Visible, Durable, Idle, PageNums
  <2> QED
    BY <2>1, <2>2, <2>3, <2>4, <2>5
<1>14. CASE Close \/ Crash
  <2>1. Counts'
    BY <1>14 DEF Close, Crash, ProcessEnds, Counts, TypeOK, Idle
  <2>2. InFlight'
    BY <1>14 DEF Close, Crash, ProcessEnds, EmptyCache, InFlight, TypeOK, Counts, Idle, PageNums
  <2>3. OwnedPagesAddressable'
    BY <1>14 DEF Close, Crash, ProcessEnds, EmptyCache, OwnedPagesAddressable, TypeOK, Counts, InFlight, PageNums
  <2>4. FreePagesClean'
    BY <1>14 DEF Close, Crash, ProcessEnds, EmptyCache, FreePagesClean, TypeOK, Counts, InFlight, OwnedPagesAddressable, Idle, PageNums
  <2>5. CacheCoherent'
    BY <1>14 DEF Close, Crash, ProcessEnds, EmptyCache, CacheCoherent, TypeOK, Counts, InFlight, OwnedPagesAddressable, FreePagesClean, Visible, Durable, Idle, PageNums
  <2> QED
    BY <2>1, <2>2, <2>3, <2>4, <2>5
<1>15. CASE UNCHANGED vars
  BY <1>15 DEF vars, Counts, InFlight, OwnedPagesAddressable, FreePagesClean,
     CacheCoherent, Visible, Durable
<1> QED
  BY <1>1, <1>2, <1>3, <1>4, <1>5, <1>6, <1>7, <1>8, <1>9, <1>10, <1>11, <1>12, <1>13, <1>14, <1>15 DEF Next

----------------------------------------------------------------------------
\* The invariant holds of the page file for ever.
THEOREM Invariance == Spec => []Inv
  BY InitInv, InvStep, PTL DEF Spec

\* Every variable of the page file keeps its type.
THEOREM TypeCorrect == Spec => []TypeOK
<1>1. Inv => TypeOK
  BY DEF Inv
<1> QED
  BY <1>1, Invariance, PTL

\* A page number that was handed out stays within the durable page count and
\* within the file: ReadPage never rejects it, in this process or a later one.
THEOREM OwnedAddressable == Spec => []OwnedPagesAddressable
<1>1. Inv => OwnedPagesAddressable
  BY DEF Inv
<1> QED
  BY <1>1, Invariance, PTL

\* A page is handed out once, and until then it is zeros.
THEOREM FreeClean == Spec => []FreePagesClean
<1>1. Inv => FreePagesClean
  BY DEF Inv
<1> QED
  BY <1>1, Invariance, PTL

\* Until a write is refused, the cache shows what a restart would show.
THEOREM Coherence == Spec => []CacheCoherent
<1>1. Inv => CacheCoherent
  BY DEF Inv
<1> QED
  BY <1>1, Invariance, PTL

\* The page count in the header never goes down.
THEOREM HeaderMonotone == Spec => HeaderNeverShrinks
<1>1. Inv /\ [Next]_vars => [hdr' >= hdr]_vars
  <2> SUFFICES ASSUME Inv, Next PROVE hdr' >= hdr
    BY DEF vars
  <2> USE DEF Inv, TypeOK, Counts, InFlight
  <2>1. CASE OpenNewHeader \/ OpenNewFails \/ AllocateHeader \/ AllocateFails
    BY <2>1, PagerAssumption
    DEF OpenNewHeader, OpenNewFails, AllocateHeader, AllocateFails
  <2>2. CASE hdr' = hdr
    BY <2>2
  <2> QED
    BY <2>1, <2>2
    DEF Next, OpenNew, OpenExisting, ReadPage, WritePage, WriteReachesFile,
        WriteFails, AllocatePage, AllocateZeros, InvalidateCache, Close, Crash,
        ProcessEnds
<1> QED
  BY <1>1, Invariance, PTL DEF Spec, HeaderNeverShrinks

----------------------------------------------------------------------------
\* The page file starts as an empty page store.
LEMMA StoreInit == Init => Store!Init
  BY DEF Init, Store!Init, StoreView, StoreDisk, Visible, Durable, EmptyCache,
     Idle

\* Every step of the pager is one step of the page store or none.
LEMMA StoreStep == Inv /\ Inv' /\ [Next]_vars => [Store!Next]_Store!vars
<1> SUFFICES ASSUME Inv, Inv', [Next]_vars PROVE [Store!Next]_Store!vars
  OBVIOUS
<1> USE PagerAssumption DEF Inv
<1> DEFINE Same == StoreView' = StoreView /\ StoreDisk' = StoreDisk
<1>a. Same /\ owned' = owned => [Store!Next]_Store!vars
  BY DEF Store!vars
<1>b. StoreView \in [PageNums -> Data] /\ StoreDisk \in [PageNums -> Data]
  BY VisibleFacts DEF StoreView, StoreDisk, TypeOK, Ops
<1>1. CASE OpenNew
  BY <1>1, <1>a DEF OpenNew, StoreView, StoreDisk, Visible, Durable, Idle
<1>2. CASE OpenNewHeader
  BY <1>2, <1>a DEF OpenNewHeader, StoreView, StoreDisk, Visible, Durable, Idle
<1>3. CASE OpenNewFails
  BY <1>3, <1>a DEF OpenNewFails, StoreView, StoreDisk, Visible, Durable, Idle
<1>4. CASE OpenExisting
  BY <1>4, <1>a DEF OpenExisting, StoreView, StoreDisk, Visible, Durable
<1>5. ASSUME NEW p \in PageNums, ReadPage(p) PROVE [Store!Next]_Store!vars
  <2>1. \A q \in PageNums : Visible(q)' = Visible(q)
    BY <1>5 DEF ReadPage, Visible, Durable, TypeOK
  <2> QED
    BY <2>1, <1>5, <1>a DEF ReadPage, StoreView, StoreDisk, Durable
<1>6. ASSUME NEW p \in PageNums, NEW d \in Data, WritePage(p, d)
      PROVE  [Store!Next]_Store!vars
  <2>1. \A q \in PageNums \ {p} : Visible(q)' = Visible(q)
    BY <1>6 DEF WritePage, Visible, Durable, TypeOK
  <2>2. StoreView' = StoreView
    BY <2>1, <1>6 DEF WritePage, Ready, StoreView
  <2> QED
    BY <2>2, <1>6, <1>a DEF WritePage, StoreDisk, Durable
<1>7. CASE WriteReachesFile
  <2>1. PICK p \in PageNums : p = op.page /\ p \in owned /\ cache[p] \in Data
    BY <1>7, WrittenFacts DEF WriteReachesFile
  <2>2. /\ file'[p] = cache[p]
        /\ \A q \in PageNums \ {p} :
             file'[q] = file[q] \/ (file[q] = Hole /\ file'[q] = Zero)
    BY <1>7, <2>1, WrittenFacts DEF WriteReachesFile
  <2>3. StoreView' = [StoreView EXCEPT ![p] = cache[p]]
    BY <1>7, <2>1, <2>2
    DEF WriteReachesFile, StoreView, Visible, Durable, Idle, TypeOK
  <2>4. StoreDisk' = [StoreDisk EXCEPT ![p] = cache[p]]
    BY <2>1, <2>2 DEF StoreDisk, Durable
  <2>5. Store!Write(p, cache[p])
    BY <1>7, <2>1, <2>3, <2>4 DEF Store!Write, WriteReachesFile
  <2> QED
    BY <2>1, <2>5 DEF Store!Next
<1>8. CASE WriteFails
  <2>1. PICK p \in PageNums : p = op.page /\ p \in owned /\ cache[p] \in Data
    BY <1>8, WrittenFacts DEF WriteFails
  <2>2. \/ file' = file
        \/ /\ file'[p] = cache[p]
           /\ \A q \in PageNums \ {p} :
                file'[q] = file[q] \/ (file[q] = Hole /\ file'[q] = Zero)
    BY <1>8, <2>1, WrittenFacts DEF WriteFails
  <2>3. StoreView' = [StoreView EXCEPT ![p] = cache[p]]
    BY <1>8, <2>1, <2>2
    DEF WriteFails, StoreView, Visible, Durable, Idle, TypeOK
  <2>4. \/ StoreDisk' = StoreDisk
        \/ StoreDisk' = [StoreDisk EXCEPT ![p] = cache[p]]
    BY <2>1, <2>2 DEF StoreDisk, Durable
  <2>5. Store!WriteFails(p, cache[p])
    BY <1>8, <2>1, <2>3, <2>4 DEF Store!WriteFails, WriteFails
  <2> QED
    BY <2>1, <2>5 DEF Store!Next
<1>9. CASE AllocatePage
  BY <1>9, <1>a
  DEF AllocatePage, Ready, StoreView, StoreDisk, Visible, Durable
<1>10. CASE AllocateZeros
  <2>1. \A q \in PageNums : Durable(q)' = Durable(q)
    BY <1>10, FileWithFacts
    DEF AllocateZeros, Durable, TypeOK, InFlight, FreePagesClean
  <2>2. StoreView' = StoreView
    BY <1>10, <2>1 DEF AllocateZeros, StoreView, Visible, TypeOK, Ops
  <2> QED
    BY <1>10, <2>1, <2>2, <1>a DEF AllocateZeros, StoreDisk
<1>11. CASE AllocateHeader
  <2>1. PICK p \in PageNums \ owned : p = op.page
    BY <1>11 DEF AllocateHeader, InFlight
  <2>2. StoreView[p] = Zero /\ StoreDisk[p] = Zero
    BY <1>11, <2>1
    DEF AllocateHeader, StoreView, StoreDisk, Visible, Durable, FreePagesClean
  <2>3. StoreView' = StoreView /\ StoreDisk' = StoreDisk
    BY <1>11
    DEF AllocateHeader, StoreView, StoreDisk, Visible, Durable, Idle
  <2>4. Store!Alloc(p)
    BY <1>11, <1>b, <2>1, <2>2, <2>3 DEF Store!Alloc, AllocateHeader
  <2> QED
    BY <2>1, <2>4 DEF Store!Next
<1>12. CASE AllocateFails
  <2>1. \A q \in PageNums : Durable(q)' = Durable(q)
    BY <1>12, FileWithFacts
    DEF AllocateFails, Durable, TypeOK, InFlight, FreePagesClean
  <2>2. StoreView' = StoreView
    BY <1>12, <2>1 DEF AllocateFails, StoreView, Visible, Idle
  <2> QED
    BY <1>12, <2>1, <2>2, <1>a DEF AllocateFails, StoreDisk
<1>13. CASE InvalidateCache \/ Close \/ Crash
  <2>1. cache' = EmptyCache /\ file' = file /\ owned' = owned
    BY <1>13 DEF InvalidateCache, Close, Crash, ProcessEnds
  <2>2. op'.kind # "write"
    BY <1>13 DEF InvalidateCache, Ready, Close, Crash, ProcessEnds, Idle
  <2>3. Store!Reopen
    BY <2>1, <2>2
    DEF Store!Reopen, StoreView, StoreDisk, Visible, Durable, EmptyCache
  <2> QED
    BY <2>3 DEF Store!Next
<1>14. CASE UNCHANGED vars
  BY <1>14, <1>a DEF vars, StoreView, StoreDisk, Visible, Durable
<1> QED
  BY <1>1, <1>2, <1>3, <1>4, <1>5, <1>6, <1>7, <1>8, <1>9, <1>10, <1>11,
     <1>12, <1>13, <1>14 DEF Next

\* The pager implements the page store: whatever a caller does, whichever
\* writes are refused and wherever the process dies, no page but the one named
\* in a call changes, and a restart shows the durable contents of every page.
THEOREM Refinement == Spec => ImplementsPageStore
  BY StoreInit, StoreStep, Invariance, PTL
  DEF Spec, ImplementsPageStore, Store!Spec

=============================================================================
