----------------------------- MODULE MapProofs -----------------------------
(***************************************************************************)
(* The B-Tree implements the ordered map: what Insert, Delete, Search and  *)
(* Scan do, one pager call at a time, is what the map of OrderedMap.tla    *)
(* does in one step, for every set of keys, values and pages and every     *)
(* limit on the cells of a node.                                           *)
(***************************************************************************)
EXTENDS BTreeMap, TreeInvariant

Dicts == MapsWith(Absent)

\* The pairs of a map.
PairsOf(d) == CellsIn(d, Absent)

\* What the call in progress has found, and how far it has come.
CallOpen ==
  \E B : B = PairsOf(before) /\ CellState(B) /\ Scanning(B)

MapInv ==
  /\ TreeInv
  /\ before \in Dicts
  /\ pc = "idle" => req = NoRequest
  /\ pc \notin {"idle", "panic"} => req # NoRequest /\ CallOpen

----------------------------------------------------------------------------
\* Maps and their pairs

\* A map has a pair exactly for its values.
LEMMA PairFacts ==
  ASSUME NEW d \in Dicts, NEW k \in Keys
  PROVE  /\ \A v \in Vals : [key |-> k, value |-> v] \in PairsOf(d) <=> d[k] = v
         /\ d[k] = Absent <=> \A c \in PairsOf(d) : c.key # k
         /\ d[k] \in Vals \cup {Absent}
         /\ PairsOf(d) \subseteq LeafCells
  BY AbsentAssumption, MapCells DEF Dicts, PairsOf

\* A map is known by its pairs.
LEMMA SamePairs ==
  ASSUME NEW d \in Dicts, NEW e \in Dicts, PairsOf(d) = PairsOf(e)
  PROVE  d = e
  BY AbsentAssumption, SameMap DEF Dicts, PairsOf

\* The map when a call has succeeded.
LEMMA GoalOfCall ==
  ASSUME NEW d \in Dicts, NEW e \in Dicts, NEW r, r.key \in Keys,
         PairsOf(e) = Goal(r, PairsOf(d))
  PROVE  /\ r.op = "insert" /\ r.val \in Vals => e = [d EXCEPT ![r.key] = r.val]
         /\ r.op = "delete" => e = [d EXCEPT ![r.key] = Absent]
  BY AbsentAssumption, MapAfterInsert, MapAfterDelete DEF Dicts, PairsOf

----------------------------------------------------------------------------
\* What the tree holds

\* Contents is the map whose pairs are the cells under the root.
LEMMA ContentsFacts ==
  ASSUME TreeInv
  PROVE  Contents \in Dicts /\ PairsOf(Contents) = CellsUnder(view, root)
<1> USE AbsentAssumption DEF Dicts, PairsOf
<1>1. Contents = RowMap(Rows(view), Absent)
  BY DEF Contents, RowMap
<1>2. CASE root = NoPage
  <2>1. Rows(view) = <<>> /\ CellsUnder(view, root) = {} /\ Range(<<>>) = {}
    BY <1>2, NoCells DEF Rows, RowsUnder, Range
  <2> QED
    BY <1>1, <2>1, EmptySeq, MapOfRows
<1>3. CASE root # NoPage
  <2>1. PICK T, tops \in SUBSET PageNums,
             h \in [PageNums -> Nat], under \in [PageNums -> SUBSET Int] :
          TreeState(view, owned, root, pc, req, path, work, T, tops, h, under)
    BY DEF TreeInv, TreeWith, HasTree
  <2>2. Tree(view, T, h, under, tops) /\ root \in T
    BY <1>3, <2>1 DEF TreeState
  <2>3. PICK m, p : m = view /\ p = root
    OBVIOUS
  <2>4. Tree(m, T, h, under, tops) /\ p \in T
    BY <2>2, <2>3
  <2>5. /\ RowMap(RowsUnder(m, p), Absent) \in MapsWith(Absent)
        /\ CellsIn(RowMap(RowsUnder(m, p), Absent), Absent) = CellsUnder(m, p)
    BY <2>4, MapOfPage
  <2> QED
    BY <1>1, <2>3, <2>5 DEF Rows
<1> QED
  BY <1>2, <1>3

\* So it is after a step that keeps the tree.
LEMMA ContentsThen ==
  TreeInv' => (Contents \in Dicts /\ PairsOf(Contents) = CellsUnder(view, root))'
<1>1. TreeInv => Contents \in Dicts /\ PairsOf(Contents) = CellsUnder(view, root)
  BY ContentsFacts
<1> QED
  BY <1>1, PTL

----------------------------------------------------------------------------
\* The steps of the tree are steps of the map

\* The arguments of a call.
LEMMA RequestFacts ==
  ASSUME NEW r \in Requests \cup {NewRequest}
  PROVE  /\ r \in Map!Calls /\ r # NoRequest
         /\ r.op \in {"insert", "delete", "search", "scan", "new"}
         /\ r.op \in {"insert", "delete", "search"} => r.key \in Keys
         /\ r.op = "insert" => r.val \in Vals
  BY DEF Requests, NewRequest, NoRequest, Map!Calls

\* A call begins with what the tree holds.
LEMMA CallBegins ==
  ASSUME MapInv, HNext, NewBTree \/ \E r \in Requests : Call(r)
  PROVE  Map!Next
<1>1. /\ pc = "idle" /\ pc' # "idle" /\ before' = Contents /\ res' = NoResult
      /\ req' \in Requests \cup {NewRequest}
  BY DEF NewBTree, Call, HNext
<1>2. req = NoRequest
  BY <1>1 DEF MapInv
<1>3. req' \in Map!Calls
  BY <1>1, RequestFacts
<1>4. Map!Call(req')
  BY <1>1, <1>2 DEF Map!Call, Map!NoCall, NoRequest, NoResult
<1> QED
  BY <1>3, <1>4 DEF Map!Next

\* It returns with what the map answers.
LEMMA AnswerIsRight ==
  ASSUME NEW B, B = PairsOf(before), before \in Dicts, Contents' \in Dicts,
         PairsOf(Contents') = CellsUnder(view', root'),
         pc \notin {"idle", "panic"}, pc' = "idle", req' = NoRequest,
         req \in Requests \cup {NewRequest},
         Answer(req, B, CellsUnder(view', root'), res'),
         res'.rows \in Seq(LeafCells),
         res' = [status |-> res'.status, rows |-> res'.rows]
  PROVE  Map!Next
<1> DEFINE d == before
           e == Contents'
           C == PairsOf(Contents')
<1>0. /\ d \in Dicts /\ e \in Dicts
      /\ Answer(req, PairsOf(d), PairsOf(e), res')
  OBVIOUS
<1>1. /\ req # NoRequest
      /\ req.op \in {"insert", "delete", "search", "scan", "new"}
      /\ req.op \in {"insert", "delete", "search"} => req.key \in Keys
      /\ req.op = "insert" => req.val \in Vals
  BY RequestFacts
<1>2. /\ req.op = "insert" /\ PairsOf(e) = Goal(req, PairsOf(d))
           => e = [d EXCEPT ![req.key] = req.val]
      /\ req.op = "delete" /\ PairsOf(e) = Goal(req, PairsOf(d))
           => e = [d EXCEPT ![req.key] = Absent]
      /\ req.op \notin {"insert", "delete"} /\ PairsOf(e) = Goal(req, PairsOf(d))
           => e = d
  <2>1. ASSUME req.op = "insert", PairsOf(e) = Goal(req, PairsOf(d))
        PROVE  e = [d EXCEPT ![req.key] = req.val]
    BY <1>0, <1>1, <2>1, GoalOfCall
  <2>2. ASSUME req.op = "delete", PairsOf(e) = Goal(req, PairsOf(d))
        PROVE  e = [d EXCEPT ![req.key] = Absent]
    BY <1>0, <1>1, <2>2, GoalOfCall
  <2>3. ASSUME req.op \notin {"insert", "delete"}, PairsOf(e) = Goal(req, PairsOf(d))
        PROVE  e = d
    <3>1. PairsOf(e) = PairsOf(d)
      BY <2>3 DEF Goal
    <3> QED
      BY <1>0, <3>1, SamePairs
  <2> QED
    BY <2>1, <2>2, <2>3
<1>3. PairsOf(e) = PairsOf(d) => e = d
  BY <1>0, SamePairs
<1>4. /\ pc # "idle" /\ pc' = "idle" /\ req' = NoRequest
      /\ Map!Pairs = PairsOf(d)
  BY DEF Map!Pairs, PairsOf, CellsIn
<1> USE DEF Map!Return, Map!NoCall, NoRequest
<1>5. CASE /\ res'.status = "ok" /\ PairsOf(e) = Goal(req, PairsOf(d))
           /\ req.op \in {"insert", "new"} => res'.rows = <<>>
           /\ req.op = "new" => PairsOf(d) = {}
           /\ req.op = "delete" =>
                res'.rows = <<>> /\ \E c \in PairsOf(d) : c.key = req.key
           /\ req.op = "search" =>
                \E c \in PairsOf(d) : c.key = req.key /\ res'.rows = <<c>>
           /\ req.op = "scan" =>
                Range(res'.rows) = PairsOf(d) /\ Ascending(res'.rows)
  <2>0. res' = [status |-> "ok", rows |-> res'.rows]
    BY <1>5
  <2>1. CASE req.op = "insert"
    <3>1. e = [d EXCEPT ![req.key] = req.val] /\ res' = [status |-> "ok", rows |-> <<>>]
      BY <1>2, <1>5, <2>0, <2>1
    <3>2. Map!Insert
      BY <1>4, <2>1, <3>1 DEF Map!Insert
    <3> QED
      BY <3>2 DEF Map!Next
  <2>2. CASE req.op = "delete"
    <3>1. e = [d EXCEPT ![req.key] = Absent] /\ res' = [status |-> "ok", rows |-> <<>>]
      BY <1>2, <1>5, <2>0, <2>2
    <3>2. d[req.key] # Absent
      BY <1>0, <1>1, <1>5, <2>2, PairFacts
    <3>3. Map!Delete
      BY <1>4, <2>2, <3>1, <3>2 DEF Map!Delete
    <3> QED
      BY <3>3 DEF Map!Next
  <2>3. CASE req.op = "search"
    <3>1. e = d /\ req.key \in Keys
      BY <1>1, <1>2, <1>5, <2>3
    <3>2. PICK c \in PairsOf(d) : c.key = req.key /\ res'.rows = <<c>>
      BY <1>5, <2>3
    <3>3. c \in LeafCells
      BY <1>0, <3>1, PairFacts
    <3>4. c = [key |-> req.key, value |-> c.value] /\ c.value \in Vals
      BY <3>2, <3>3 DEF LeafCells
    <3>5. d[req.key] = c.value
      BY <1>0, <3>1, <3>4, PairFacts
    <3>6. d[req.key] # Absent
      BY <3>4, <3>5, AbsentAssumption
    <3>7. Map!Search
      BY <1>4, <2>0, <2>3, <3>1, <3>2, <3>4, <3>5, <3>6 DEF Map!Search
    <3> QED
      BY <3>7 DEF Map!Next
  <2>4. CASE req.op = "scan"
    <3>1. e = d /\ Range(res'.rows) = PairsOf(d) /\ Ascending(res'.rows)
      BY <1>2, <1>5, <2>4
    <3>2. {res'.rows[i] : i \in DOMAIN res'.rows} = Map!Pairs
      BY <1>4, <3>1 DEF Range
    <3>3. \A i \in 2 .. Len(res'.rows) : res'.rows[i - 1].key < res'.rows[i].key
      <4>1. Len(res'.rows) \in Nat
        OBVIOUS
      <4>2. \A i \in 2 .. Len(res'.rows) :
              i - 1 \in 1 .. Len(res'.rows) /\ i \in 1 .. Len(res'.rows) /\ i - 1 < i
        BY <4>1
      <4> QED
        BY <3>1, <4>2 DEF Ascending
    <3>4. Map!Scan
      BY <1>4, <1>5, <2>4, <3>1, <3>2, <3>3 DEF Map!Scan
    <3> QED
      BY <3>4 DEF Map!Next
  <2>5. CASE req.op = "new"
    <3>1. e = d /\ Map!Pairs = {} /\ res' = [status |-> "ok", rows |-> <<>>]
      BY <1>2, <1>4, <1>5, <2>0, <2>5
    <3>2. Map!New
      BY <1>4, <2>5, <3>1 DEF Map!New
    <3> QED
      BY <3>2 DEF Map!Next
  <2> QED
    BY <1>1, <2>1, <2>2, <2>3, <2>4, <2>5
<1>6. CASE /\ res' = [status |-> "notfound", rows |-> <<>>]
           /\ req.op \in {"search", "delete"} /\ PairsOf(e) = PairsOf(d)
           /\ \A c \in PairsOf(d) : c.key # req.key
  <2>1. e = d /\ d[req.key] = Absent /\ req.key \in Keys
    <3>1. e = d /\ req.key \in Keys
      BY <1>1, <1>3, <1>6
    <3> QED
      BY <1>0, <1>6, <3>1, PairFacts
  <2>2. CASE req.op = "search"
    <3>1. Map!Search
      BY <1>4, <1>6, <2>1, <2>2 DEF Map!Search
    <3> QED
      BY <3>1 DEF Map!Next
  <2>3. CASE req.op = "delete"
    <3>1. e = [d EXCEPT ![req.key] = Absent]
      BY <1>0, <2>1 DEF Dicts, MapsWith
    <3>2. Map!Delete
      BY <1>4, <1>6, <2>1, <2>3, <3>1 DEF Map!Delete
    <3> QED
      BY <3>2 DEF Map!Next
  <2> QED
    BY <1>6, <2>2, <2>3
<1>7. CASE /\ res' = [status |-> "error", rows |-> <<>>]
           /\ PairsOf(e) \in {PairsOf(d), Goal(req, PairsOf(d))}
  <2>1. \/ e = d
        \/ req.op = "insert" /\ e = [d EXCEPT ![req.key] = req.val]
        \/ req.op = "delete" /\ e = [d EXCEPT ![req.key] = Absent]
    BY <1>1, <1>2, <1>3, <1>7
  <2>2. Map!Fails
    BY <1>1, <1>4, <1>7, <2>1 DEF Map!Fails
  <2> QED
    BY <2>2 DEF Map!Next
<1> QED
  BY <1>0, <1>5, <1>6, <1>7 DEF Answer

\* A failed insert loses rows as the lossy map may.
LEMMA LossIsAllowed ==
  ASSUME NEW B, B = PairsOf(before), before \in Dicts, Contents' \in Dicts,
         PairsOf(Contents') = CellsUnder(view', root'),
         pc \notin {"idle", "panic"}, pc' = "idle", req' = NoRequest,
         req \in Requests \cup {NewRequest},
         Loss(req, B, CellsUnder(view', root'), res')
  PROVE  Map!LossyFails
<1> DEFINE d == before
           e == Contents'
<1>1. /\ d \in Dicts /\ e \in Dicts
      /\ req.op = "insert" /\ req.key \in Keys /\ req.val \in Vals
      /\ res' = [status |-> "error", rows |-> <<>>]
      /\ PairsOf(e) \subseteq PairsOf(d) \cup Goal(req, PairsOf(d))
  BY RequestFacts DEF Loss
<1> DEFINE put == [key |-> req.key, value |-> req.val]
<1>2. \A c \in PairsOf(e) : c \in PairsOf(d) \/ c = put
  BY <1>1 DEF Goal
<1>3. ASSUME NEW k \in Keys
      PROVE  e[k] \in {d[k], Absent} \/ (k = req.key /\ e[k] = req.val)
  <2>1. CASE e[k] = Absent
    BY <2>1
  <2>2. CASE e[k] # Absent
    <3>1. e[k] \in Vals
      BY <1>1, <2>2, PairFacts
    <3>2. [key |-> k, value |-> e[k]] \in PairsOf(e)
      BY <1>1, <3>1, PairFacts
    <3>3. CASE [key |-> k, value |-> e[k]] \in PairsOf(d)
      <4>1. d[k] = e[k]
        BY <1>1, <3>1, <3>3, PairFacts
      <4> QED
        BY <4>1
    <3>4. CASE [key |-> k, value |-> e[k]] = put
      BY <3>4
    <3> QED
      BY <1>2, <3>2, <3>3, <3>4
  <2> QED
    BY <2>1, <2>2
<1>4. DOMAIN e = Keys
  BY <1>1 DEF Dicts, MapsWith
<1> QED
  BY <1>1, <1>3, <1>4 DEF Map!LossyFails, Map!Return, Map!NoCall, NoRequest

\* In between the map stands still.
LEMMA MapStands ==
  ASSUME HNext, pc # "idle", pc' # "idle", UNCHANGED req
  PROVE  UNCHANGED Map!vars
  BY DEF HNext, Map!vars

----------------------------------------------------------------------------
\* The invariant, and what each step of the tree is to the map

\* Before NewBTree the map is empty.
LEMMA InitMap == HInit => MapInv /\ Map!Init
<1> SUFFICES ASSUME HInit PROVE MapInv /\ Map!Init
  OBVIOUS
<1> DEFINE none == [k \in Keys |-> Absent]
<1>1. TreeInv /\ pc = "idle" /\ req = NoRequest /\ res = NoResult /\ before = none
      /\ root = NoPage
  BY InitTree DEF HInit, Init
<1>2. none \in Dicts /\ PairsOf(none) = {}
  BY DEF Dicts, MapsWith, PairsOf, CellsIn
<1>3. Contents \in Dicts /\ PairsOf(Contents) = {}
  BY <1>1, ContentsFacts, NoCells
<1>4. Contents = none
  BY <1>2, <1>3, SamePairs
<1>5. MapInv
  BY <1>1, <1>2 DEF MapInv
<1>6. Map!Init
  BY <1>1, <1>4 DEF Map!Init, Map!NoCall, NoRequest, NoResult
<1> QED
  BY <1>5, <1>6

\* What a step of a call in progress comes to.
LEMMA ProceedMaps ==
  ASSUME MapInv, HNext, Proceed
  PROVE  /\ MapInv'
         /\ \/ UNCHANGED Map!vars
            \/ Map!Next
            \/ (WriteFails \/ AllocateFails) /\ Map!LossyFails
<1>1. pc \notin {"idle", "panic"}
  BY DEF Proceed, DescendInternal, SearchLeaf, InsertLeaf, DeleteLeaf, ScanLeaf,
         ScanInternal, ScanReturns, WriteWhole, WriteLeft, AllocateRight, WriteRight,
         WriteRightOfRoot, AllocateRoot, WriteRoot, ReadFails, WriteFails,
         AllocateFails, ReadPanics, WritePanics
<1>2. PICK B : B = PairsOf(before) /\ CellState(B) /\ Scanning(B)
  BY <1>1 DEF MapInv, CallOpen
<1>3. TreeInv /\ Inv' /\ HasTree({}, {})'
  <2>1. TreeInv /\ [Next]_vars
    BY DEF MapInv, HNext
  <2> QED
    BY <2>1, TreeStep DEF TreeInv
<1>4. TreeInv'
  BY <1>3 DEF TreeInv, TreeWith
<1>5. before' = before /\ before \in Dicts
  BY <1>1 DEF HNext, MapInv
<1>6. CallGoesOn(B) \/ (pc' = "panic" /\ UNCHANGED req) \/ CallReturns(B)
  BY <1>2, <1>3, CallStepsOn
<1>7. CASE CallGoesOn(B)
  <2>1. pc' \notin {"idle", "panic"} /\ UNCHANGED req
    BY <1>7 DEF CallGoesOn
  <2>2. CallOpen'
    BY <1>2, <1>5, <1>7 DEF CallOpen, CallGoesOn
  <2>3. MapInv'
    BY <1>1, <1>4, <1>5, <2>1, <2>2 DEF MapInv
  <2>4. UNCHANGED Map!vars
    BY <1>1, <2>1, MapStands
  <2> QED
    BY <2>3, <2>4
<1>8. CASE pc' = "panic" /\ UNCHANGED req
  <2>1. MapInv'
    BY <1>4, <1>5, <1>8 DEF MapInv
  <2>2. UNCHANGED Map!vars
    BY <1>1, <1>8, MapStands
  <2> QED
    BY <2>1, <2>2
<1>9. CASE CallReturns(B)
  <2>1. pc' = "idle" /\ req' = NoRequest
    BY <1>9 DEF CallReturns
  <2>2. MapInv'
    BY <1>4, <1>5, <2>1 DEF MapInv
  <2>3. Contents' \in Dicts /\ PairsOf(Contents') = CellsUnder(view', root')
    BY <1>4, ContentsThen
  <2>4. res' \in [status : {"none", "ok", "notfound", "error"}, rows : Seq(LeafCells)]
    BY <1>3 DEF Inv, TypeOK
  <2>5. res'.rows \in Seq(LeafCells) /\ res' = [status |-> res'.status, rows |-> res'.rows]
    BY <2>4
  <2>6. req \in Requests \cup {NewRequest}
    BY <1>1, <1>3 DEF MapInv, TreeInv, TreeWith, Inv, TypeOK
  <2>7. CASE Answer(req, B, CellsUnder(view', root'), res')
    <3>1. Map!Next
      BY <1>1, <1>2, <1>5, <2>1, <2>3, <2>5, <2>6, <2>7, AnswerIsRight
    <3> QED
      BY <2>2, <3>1
  <2>8. CASE (WriteFails \/ AllocateFails) /\ Loss(req, B, CellsUnder(view', root'), res')
    <3>1. Map!LossyFails
      BY <1>1, <1>2, <1>5, <2>1, <2>3, <2>6, <2>8, LossIsAllowed
    <3> QED
      BY <2>2, <2>8, <3>1
  <2> QED
    BY <1>9, <2>7, <2>8 DEF CallReturns
<1> QED
  BY <1>6, <1>7, <1>8, <1>9

\* The call in progress has found what the tree held when it began.
LEMMA BeginningKeeps ==
  ASSUME MapInv, HNext, NewBTree \/ \E r \in Requests : Call(r)
  PROVE  MapInv'
<1>1. /\ pc = "idle" /\ pc' # "idle" /\ before' = Contents
      /\ req' \in Requests \cup {NewRequest}
  BY DEF NewBTree, Call, HNext
<1>2. TreeInv /\ TreeInv'
  <2>1. TreeInv /\ [Next]_vars
    BY DEF MapInv, HNext
  <2> QED
    BY <2>1, TreeStep DEF TreeInv, TreeWith
<1>3. PICK B : B = CellsUnder(view, root)
  OBVIOUS
<1>4. before' \in Dicts /\ PairsOf(before') = B
  BY <1>1, <1>2, <1>3, ContentsFacts
<1>5. CellState(B)' /\ Scanning(B)'
  <2>1. CASE NewBTree
    <3>1. CellState({})' /\ B = {}
      BY <1>3, <2>1, NewBTreeCells
    <3>2. pc' = "root"
      BY <2>1 DEF NewBTree
    <3> QED
      BY <3>1, <3>2 DEF Scanning
  <2>2. CASE \E r \in Requests : Call(r)
    <3>1. PICK r \in Requests : Call(r)
      BY <2>2
    <3> QED
      BY <1>2, <1>3, <3>1, CallCells, CallScans
  <2> QED
    BY <2>1, <2>2
<1>6. CallOpen'
  BY <1>4, <1>5 DEF CallOpen
<1>7. req' # NoRequest
  BY <1>1, RequestFacts
<1> QED
  BY <1>1, <1>2, <1>4, <1>6, <1>7 DEF MapInv

\* Doing nothing keeps the invariant.
LEMMA StutterKeeps ==
  ASSUME MapInv, UNCHANGED <<vars, before>>
  PROVE  MapInv' /\ UNCHANGED Map!vars
<1>1. /\ view' = view /\ disk' = disk /\ owned' = owned /\ root' = root /\ pc' = pc
      /\ req' = req /\ path' = path /\ work' = work /\ fresh' = fresh /\ res' = res
      /\ ioErrors' = ioErrors /\ before' = before
  BY DEF vars, call
<1>2. TreeInv'
  <2>1. TreeInv /\ [Next]_vars
    BY DEF MapInv
  <2> QED
    BY <2>1, TreeStep DEF TreeInv, TreeWith
<1>3. ASSUME NEW B, CellState(B), Scanning(B)
      PROVE  CellState(B)' /\ Scanning(B)'
  BY <1>1, <1>3 DEF CellState, Scanning, Ahead, HasTree
<1>4. CallOpen => CallOpen'
  BY <1>1, <1>3 DEF CallOpen
<1>5. MapInv'
  BY <1>1, <1>2, <1>4 DEF MapInv
<1>6. Contents' = Contents
  BY <1>1 DEF Contents, Rows
<1> QED
  BY <1>1, <1>5, <1>6 DEF Map!vars

\* Every step keeps the invariant and is a step of the map, or of the lossy map
\* when a write or an allocation fails.
LEMMA MapStep ==
  ASSUME MapInv, [HNext]_<<vars, before>>
  PROVE  /\ MapInv'
         /\ \/ UNCHANGED Map!vars
            \/ Map!Next
            \/ (WriteFails \/ AllocateFails) /\ Map!LossyFails
<1>1. CASE HNext /\ Proceed
  BY <1>1, ProceedMaps
<1>2. CASE HNext /\ (NewBTree \/ \E r \in Requests : Call(r))
  BY <1>2, CallBegins, BeginningKeeps
<1>3. CASE HNext /\ NewBTreeFails
  <2>1. /\ UNCHANGED <<view, root, pc, req, res>> /\ pc = "idle" /\ before' = Contents
    BY <1>3 DEF NewBTreeFails, HNext, call
  <2>2. TreeInv /\ TreeInv'
    <3>1. TreeInv /\ [Next]_vars
      BY <1>3 DEF MapInv, HNext
    <3> QED
      BY <3>1, TreeStep DEF TreeInv, TreeWith
  <2>3. before' \in Dicts
    BY <2>1, <2>2, ContentsFacts
  <2>4. MapInv'
    BY <2>1, <2>2, <2>3 DEF MapInv
  <2>5. Contents' = Contents
    BY <2>1 DEF Contents, Rows
  <2> QED
    BY <2>1, <2>4, <2>5 DEF Map!vars
<1>4. CASE UNCHANGED <<vars, before>>
  BY <1>4, StutterKeeps
<1> QED
  BY <1>1, <1>2, <1>3, <1>4 DEF HNext, Next

\* In every state the call in progress is on its way from what the tree held
\* when it began to what the map holds when it returns.
THEOREM MapInvariance == HSpec => []MapInv
<1>1. HInit => MapInv
  BY InitMap
<1>2. MapInv /\ [HNext]_<<vars, before>> => MapInv'
  BY MapStep
<1> QED
  BY <1>1, <1>2, PTL DEF HSpec

\* Whatever fails, the tree is a map that only a failed Insert loses rows of:
\* each call of btree.go takes effect at once, when it returns.
THEOREM LossyMapImplemented == HSpec => ImplementsLossyMap
<1>1. HInit => Map!Init
  BY InitMap
<1>2. MapInv /\ [HNext]_<<vars, before>> => [Map!Next \/ Map!LossyFails]_Map!vars
  BY MapStep
<1> QED
  BY <1>1, <1>2, MapInvariance, PTL DEF HSpec, ImplementsLossyMap, Map!LossySpec

\* While no page write and no allocation fails, it is the map, through any
\* splits, deletions and failing reads.
THEOREM MapImplemented ==
  HSpec /\ [][~WriteFails /\ ~AllocateFails]_<<vars, before>> => ImplementsMap
<1>1. HInit => Map!Init
  BY InitMap
<1>2. MapInv /\ [HNext]_<<vars, before>> /\ [~WriteFails /\ ~AllocateFails]_<<vars, before>>
        => [Map!Next]_Map!vars
  <2> SUFFICES ASSUME MapInv, [HNext]_<<vars, before>>,
                      [~WriteFails /\ ~AllocateFails]_<<vars, before>>
               PROVE  [Map!Next]_Map!vars
    OBVIOUS
  <2>1. CASE UNCHANGED <<vars, before>>
    BY <2>1, StutterKeeps
  <2>2. CASE ~WriteFails /\ ~AllocateFails
    BY <2>2, MapStep
  <2> QED
    BY <2>1, <2>2
<1> QED
  BY <1>1, <1>2, MapInvariance, PTL DEF HSpec, ImplementsMap, Map!Spec

=============================================================================
