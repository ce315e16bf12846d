# A TLA+ model of the go-SQL database engine

The repository is a small SQL database in Go: one process, one file, one
statement at a time. This directory models it from the line that is typed to the
page that is written, checks the models with TLC on small instances, and proves
the most important facts about its storage with TLAPS for every value of the
constants.

There is one goroutine (repl.go:35), so nothing here interleaves. What makes
this code hard is what happens *between* two writes to the file: a write that is
refused, a file that is full, a process that ends. `.quit` is such an end too:
it panics (repl.go:147) and main calls os.Exit without closing the pager
(main.go:45). The second hard thing is a tree that has to stay right through any
sequence of inserts, splits and deletes. The third is meaning: rows of several
tables are merged into one map of names, and a parser of one token of look-ahead
decides what a line says.

## The system

| part | state | operations | talks to |
|---|---|---|---|
| Pager (storage/pager.go) | the file, `numPages`, the cache; the page count in the header page | OpenPager, ReadPage, WritePage, AllocatePage, InvalidateCache, Close | the file |
| B+Tree (storage/btree.go) | one node per page; `rootPage` in the handle | NewBTree, LoadBTree, Search, Insert, Delete, Scan | Pager |
| Catalog (engine/catalog.go) | the map of tables in memory (root page, NextRowID, columns) and its copy on page 1 | NewCatalog, Load, Save, CreateTable, DropTable, GetTable | Pager, B+Tree |
| Table storage (engine/table.go) | none of its own | InsertRow, ScanAllRows, UpdateRow, DeleteRow, SerializeKey | B+Tree, TableInfo |
| Executor (engine/executor.go) | none of its own | CREATE, DROP, INSERT, SELECT, UPDATE, DELETE; expressions, joins | Catalog, table storage |
| Lexer (lexer/) | position in the line | New, NextToken, Tokenize | - |
| Parser (parser/) | position in the tokens | Parse, one rule per statement, clause and level of precedence | the tokens |
| REPL, main (repl/, main.go) | none | one line at a time, dot commands, .quit | Lexer, Parser, Executor |

What makes each part right:

* Pager: a page number is handed out once; a page that was handed out stays
  readable in every later process; the cache never shows anything but the file.
* B+Tree: it is a map from keys to values with ordered scans; it is a balanced
  search tree at every moment, in memory and on disk; every call returns.
* Catalog and table storage: the root in the catalog is the root of the table;
  tables share no page; generated row ids are new.
* Statements: what they report as done is visible, and still there after a
  restart; a statement that reports an error or is cut short harms nothing else.
* Rows: a column holds values of its type, a row is found under its primary key,
  a statement changes exactly the rows its WHERE selects.
* SELECT: the rows are those that the JOINs and WHERE select, in the order of
  ORDER BY, up to LIMIT; a LEFT JOIN keeps its left rows.
* Lexer, parser: no character and no token is lost or made up; a statement is
  executed as it is written; nothing is executed that was not written.
* REPL: every line is answered.

`PROJECT.json` lists under "hazards" the places in the code where these can go
wrong, with the properties that watch them.

## The modules

    PageStore   what the pager promises          OrderedMap  what the tree promises
       ^                                             ^
       | refinement (TLC and TLAPS)                  | refinement (TLC and TLAPS)
    Pager                                        BTreeMap --> BTree --> PageStore
                                                              ^
                                                 Database ----+    (extends it)

    SqlTable    what a table promises            SqlSelect   what a SELECT means
       ^                                             ^
       | refinement (TLC and TLAPS)                  | invariant (TLC and TLAPS)
    Table --> Keys --> Values <--------------------- Query ---------+
                                                                    |
    SqlText     how a statement is written                         Repl
       ^                                                            |
       | invariant (TLC)                                            |
    Parser --> Lexer, Ast <-----------------------------------------+

**PageStore.tla** is a store of numbered pages: `view` is what the process sees,
`disk` what a restart would see, `owned` the pages handed out. Alloc, Write and
Reopen are one step each; a write that fails reaches the view and perhaps the
disk.

**Pager.tla** is pager.go, one write to the file per step. `op` names the method
in progress and the write it makes next, so that a crash or a refused write can
come between the writes of one method (AllocatePage writes zeros, then the
header). Page 0 is not a page of `file`: its count is the variable `hdr`. The
cached header of `updateHeader` adds nothing to `numPages` and is left out; a
read that fails changes nothing and is left out here too. A WriteAt is
atomic, and an error of it or of the Sync leaves the old or the new contents.

**BTree.tla** is btree.go on the page store. The recursion is a stack `path` of
pages; `pc` names the pager call that comes next. DescendInternal is one turn of
searchInternal / insertInternal / deleteFromNode; InsertLeaf and DeleteLeaf
build the new leaf in `work`; WriteWhole, WriteLeft, AllocateRight, WriteRight
are the calls of writeLeafCells and writeInternalCells, which differ only in the
halves (LeftHalf, RightHalf); WriteRight returns the split to insertInternal;
WriteRightOfRoot, AllocateRoot and WriteRoot are the root split of Insert.
ReadFails, WriteFails and AllocateFails are the error returns: the call ends,
what was written stays. A scan keeps in `path` the pages still to visit.
Keys are integers, values are atoms, and of the encoding of a node only its
length is kept: a node that is longer than its page is written cut off, and
reading the cell that is cut off is a panic.

**BTreeMap.tla** adds the history variable `before` and the refinement mapping to
**OrderedMap.tla**, the abstract map: Insert, Delete, Search and Scan take effect
when the call returns. LossySpec is the weaker map of a tree whose calls can
fail: a failed insert may lose other rows, and nothing else may happen.

**Database.tla** is catalog.go, table.go and the statements of executor.go. It
extends BTree: the variables of the tree are the call in progress and the pages,
which all tables share, and `root` is the root of the tree that the statement in
progress has loaded. Its own specification is DatabaseSpec. `mem` is Catalog.Tables, `saved` page 1, `stmt` the
statement in progress with the B-Tree calls it has still to make. A statement
begins (Create, Drop, Insert, Update, Delete, Select), calls the tree
(CallBTree, BTreeProceeds), goes on with the result (TableCreated, Scanned,
CallDone) and ends: with success (AllRowsDone, Save) or an error (RefusedRow,
EvaluationFails, CallFailed, SaveFails). Crash ends the process at any step,
also between two pager calls, and starts it again: NewCatalog loads page 1.
`truth` is a history variable: the tables as the statements that reported success
have left them. After an error it is set to what is visible, because an error
says nothing about what was done. A row is a key and a value; WHERE is a set of
keys; joins are left out, columns and their checks are in Table.tla.

**Values.tla** is the part of executor.go that computes: values of three types
and NULL, compareValues, the evaluation of expressions, coerceType. Texts and
names are sequences of characters, and a character of the model may stand for
several of the program; "%v" of an int or a boolean is a text.

**Keys.tla** is SerializeKey: eight bytes of an int with its sign bit flipped, the
bytes of a text, one byte of a boolean. `Byte` is how many values a byte has: 256,
and 4 for TLC. Keys of Table.tla are these byte strings, and a scan goes by their
order.

**Table.tla** is one table with columns: INSERT (InsertFails, InsertWithKey,
InsertWithRowId), and UPDATE and DELETE, which read all rows (Begin) and deal
with one after the other (SkipRow, UpdateRow, DeleteRow) until the last
(AllRowsDone) or an error (RowFails). `tree` is the map that the B-Tree
implements, and its calls succeed here: failures are Database.tla's. `scan` is
the slice of rows read at the beginning, `stmt.left` the keys of those still to
come. It is as lax as the code: a column that INSERT does not list is missing
from the row, NOT NULL is checked for listed columns only, an UPDATE may write
NULL anywhere, and a row whose primary key was assigned stays where it was.
`Depth` says of each expression how deep its operators nest: what the parser builds
is a tree (WellFormed), which TLC has no use for and a proof about the recursion of
Evaluate needs.

**SqlTable.tla** is what these statements mean: a set of rows. An INSERT adds the
row it gives; an UPDATE or DELETE is asked for (Ask, Begin in Table), and answered
when it has dealt with exactly the rows that match its own WHERE, all at once, by
its own assignments, with their number (Answer); one with an error has dealt
with some of those and no other (Stop). A row of Table is there once its statement has
ended, and `asked` is `stmt` without what it has still to do. What is common to
both modules is the evaluation of a condition or an assignment on one row.

**Query.tla** is executeSelect, a turn of a loop to a step: Begin reads the first
table, JoinPair is the inner loop (merge two rows, evaluate ON), LeftRowDone the
NULL row of a LEFT JOIN, decided by hasMatchInJoin, JoinDone the next JOIN,
JoinTableMissing a table that is not there, Filter is WHERE, Show is ORDER BY,
LIMIT and the columns. A merged row is a map from names to values, as in the
code: a name of two tables is written twice and the later write stays. Where
which write is later depends on the order in which Go walks the map, Merges is
the set of rows that can come out. `answer` holds cells, not the printed table.

**SqlSelect.tla** is what a SELECT means, with nothing merged: a combination takes
a row, or the row of NULLs, from each table, and every column keeps its table.
`Clear(db, q)` says for which statements the names mean one thing: columns that
one table has, or that are qualified and of which no earlier merge took the name.
What the code does with the others is under Findings.

**Ast.tla** has the nodes of ast.go. **Lexer.tla** is the lexer, one NextToken to a
step: `at` is the position, `tokens` what was read. A keyword or a name is one
letter here, so that case, digits, "_", quotes, NUL, blanks and all marks are
characters of their own and words need not be spelled. **Parser.tla** is the
recursive descent as functions from the tokens and a position to a node and the
next position, 0 after an error; SepList is the comma loop that six rules share,
Parsed the four levels of expressions. **SqlText.tla** is the other direction, the
reference: how a statement is written with no word and no parenthesis too many.

**Repl.tla** puts them together: ReadLine (trim, skip an empty line, HandleDotCommand),
InputEnds, Tokenize, ParseTokens, BeginSelect, SelectStep, SelectDone, ExecuteOther
(the statements of Table.tla and Database.tla, here any change of the tables) and
PrintResult.

The theorems are in modules of their own:

    PagerProofs --> Pager        TableProofs --> Table --> Keys
                                      |
                     Induction <------+      recursion, sequences
                      ^      ^
                      |    ReplProofs --> Repl       the lexer; what a SELECT answers
                      |
    BTree <--- TreeProofs                    bounds and pointers; what a tree is, without
                   ^                         recursion, and which cells are under its pages
             TreeInvariant                   the steps of BTree keep trees, and
               ^        ^                    change the cells as they should
       MapProofs        DatabaseProofs       the map; the trees of all tables, and
           |              |                  what statements do to their rows
           v              v
       BTreeMap       Database

**MCPager**, **MCBTree**, **MCDatabase**, **MCTable**, **MCQuery** and
**MCRepl** the instances for TLC. In every module an operator that ends in Mutant
is a plausible bug in the definition that follows it; it is not part of the
specification and only shows that a property can fail.

## The runs

| run | question | instance | states |
|---|---|---|---|
| pager | is the page file consistent and is it a page store? | 3 pages, 2 contents, 2 refused writes, any number of crashes | 30 thousand |
| btree_map | is the tree a map, at every step a balanced search tree, and does every call return? | 5 keys, 2 values, 7 pages, 2 cells per node | 129 thousand |
| btree_faults | what is left when a pager call fails, the pages run out or a node outgrows its page? | 5 keys, of which two do not fit into one node together, 6 pages, 1 failure | 324 thousand |
| db | is what statements report what tables hold and what a restart finds? | 2 tables (one with generated row ids), a catalog for 1, 4 pages, 1 crash | 1.1 million |
| db_faults | the same with a refused read or write | 1 table, 2 values, 3 pages, 1 failure, 1 crash | 625 thousand |
| rows | do statements on rows with columns change exactly what they select, in place, and do scans go by the values of the keys? | 3 columns, keys of type INT, TEXT or generated, 8 inputs, 3 conditions, 4 assignments | 95 thousand |
| repl | is a line read, parsed, executed and answered as it is written? | 3 tables in 3 databases, 252 SELECTs, 185 expressions, 444 wrong lines | 87 thousand |
| btree_big, db_restart, rows_keys, select_left, repl_rest | see Findings | as above | - |

Bounds. Nodes of two cells (one row to a leaf in Database) split as nodes of 30
and 100 do: the code knows the limits only in `len(cells) <= max` and the middle
only as `len/2`, and with five keys in leaves of two both leaves, an internal
node and the root split, with two and three cells, so that even and odd middles
occur. The pages are enough for the deepest tree in btree_map, where AllocatePage
therefore never fails, and too few in the others, so that it does. Keys bound
the generated row ids: an INSERT whose id would be larger than the largest key
does not occur. MaxIOErrors and MaxCrashes bound failures and restarts: one
failure is enough for every error path, and the property that needs more (a
second failure after the first has left its traces) is checked for the pager.
The catalog for one table lets CREATE fail while another table is in use.
Ints of 1 and 2 and a handful of inputs fill a table with up to three rows; they
are chosen so that every conversion and every refusal of coerceType, a missing
column, a missing NOT NULL column, NULL, a condition that is not a boolean and a
failing second row occur. AssignsKey is FALSE in rows and TRUE in rows_keys.
The tables of repl have up to three rows, with NULLs, missing columns and a
shared column id; two JOINs of every pair of types follow each other, because what
a JOIN makes of the merged names of the one before it is the hard case, and a
third adds none. Expressions have up to three operators: any two of OR, AND and a
comparison then stand side by side, nested either way, and three of OR and AND.
The wrong lines are every other statement with one token left out, said twice or
swapped with the next. MaxInt is 20, so that an integer out of range occurs.
CHECK_DEADLOCK is FALSE in btree_faults, where the process may panic, and in repl
and repl_rest, where .quit and the end of the input end it.

What the properties say, beyond a type invariant per module:

* pager: OwnedPagesAddressable, FreePagesClean (no page twice, none dirty),
  CacheCoherent, HeaderNeverShrinks, ImplementsPageStore.
* tree: NoDanglingPointers (memory and disk, between any two writes), TreeSound
  (no page twice, all leaves equally deep, keys where a search looks, between any
  two writes), NodesInBounds, ImplementsMap, ImplementsLossyMap,
  CallsReturn.
* database: RowsAsAcknowledged, AcknowledgedIsDurable (as long as the catalog
  fits its page), SelectSeesAcknowledged, TablesSound (roots, trees, no shared
  pages, for the process and a restart), RowIdsFresh, and OnlyInsertsLoseRows: a
  kill in the middle of a statement loses nothing, except that a kill inside an
  INSERT can lose rows of that INSERT's table. That exception is the code: the
  left half of a root split is on disk before the catalog knows the new root.
* rows: RowsFitColumns, RowsUnderTheirKeys and ScansSorted (as long as no UPDATE
  assigns the primary key), ImplementsSqlTable (a statement does what was asked
  for, to the rows it was asked for, and says how many).
* repl: TokensSpellLine (no character is lost, doubled or moved), StatementAsWritten
  (the printed form of a statement, with or without what may be left out, is
  parsed to that statement), AcceptedAsRead (whatever is typed, a statement that
  is executed says what the tokens up to its end say, for wrong lines too),
  ParsedFits (a SELECT that is accepted, of a wrong line too, has an ON for every join,
  expressions for conditions and a number for a limit),
  SelectMeansSql (the answer of a SELECT with clear names is its meaning),
  LeftRowsKept (a LEFT JOIN keeps every left row, with matches or with NULLs and
  never both), EveryLineAnswered.

Fairness. CallsReturn assumes weak fairness of Proceed, the steps inside a B-Tree
call: a call runs on the goroutine of its caller, which does nothing else until
it returns. EveryLineAnswered assumes weak fairness of Tokenize, SelectStep and
SelectDone, which are loops of the same goroutine, that wait for nothing; the
parser is one step of the model. Nothing is assumed of callers and of who types.

## Findings

1. Nodes outgrow their page (btree_big). Nodes are split by number of cells.
   btree.go:46 says the numbers are "tuned for 4KB pages"; 30 rows of 140 bytes,
   or one of 4100, are written cut off, and the next read panics.
2. Data does not always survive a restart (db_restart). A CREATE TABLE that makes
   the catalog too large for page 1 reports an error and stays in memory; every
   later Save fails, so that the new root of a table that splits is never saved.
   README.md:11 of the repository promises that data survives restarts.
3. The primary key is not unique after an UPDATE of it (rows_keys). UpdateRow
   writes the changed row back under its old key (table.go:167-176); an INSERT of
   the new value is then accepted, or, the other way round, an INSERT of the old
   value refused. README.md:69 of the repository lists PRIMARY KEY as a supported
   constraint. This is why RowsUnderTheirKeys, ScansSorted and ImplementsSqlTable
   are stated for tables whose UPDATEs leave the key alone.
4. A second LEFT JOIN can lose left rows (select_left). After a first join the row
   has a plain `id`, of the second table, and a qualified `users.id`; the next
   merge writes both to `users.id` (executor.go:198), and which stays depends on
   the order of the map. The condition is evaluated in the loop on one such row
   and in hasMatchInJoin on another: if only the second matches, the left row is
   neither joined nor kept. README.md:133 of the repository says that a left join
   keeps all rows of the left table.
5. What follows a statement is ignored (repl_rest). `DELETE FROM users help id=1`
   deletes all users: the mistyped WHERE ends the statement. parser.go:80 says
   that Parse parses the entire token stream and refuses malformed SQL.

Not runs, but met on the way.

* A failed split loses rows: writeLeafCells writes the left half over the page
  before it allocates one for the right half, and when that fails the right half
  is gone (btree.go:519). This is why the tree with failures implements
  LossySpec and not Spec.
* WritePage updates the cache before the file: after a refused write the process
  goes on with a node that is not on disk, and a tree built on it is, after a
  restart, one that Scan lists out of order. TreeSound is stated for what the
  process sees.
* NOT NULL is not checked for columns that INSERT does not list, nor in UPDATE, so
  that Table.tla has no property of it.
* After a kill between the insert of a row with a generated id and the save of
  the catalog, the next INSERT is refused as a duplicate once.
* The comment of Close (pager.go:88) says it flushes cached writes; it only closes
  the file. There is nothing to flush: WritePage writes through.
* SELECT: a column with an alias is shown as NULL, because the row is asked for the
  alias (executor.go:303), and so is a qualified column without a JOIN. With `*`,
  a shared name of the first table shows the last joined table's value. A
  qualified column that a row lacks takes the plain name, of whatever table
  (executor.go:448); a column that does not exist is NULL. RIGHT JOIN is read by the
  parser (parser.go:384) and executed as INNER JOIN. `users.*` shows the columns of
  all tables.
* Names without a table are lowered in expressions (parser.go:1098) and nowhere
  else: WHERE never finds a column that was created with upper-case letters.
* There are no negative literals ('-' is ILLEGAL); ast.go:303 leaves that open.
  A NUL ends the line for the lexer.
* A line is a statement: the examples of the repository's README over several lines
  are several statements here. A line of more than 64 KB ends the session without
  a message.

## What is proved

All constants are parameters: the proofs hold for every page limit, every cell
limit (leaves of at least 1, internal nodes of at least 2), every set of keys
and values, every size in bytes, every number of failures and restarts. Assumed are only
the ASSUMEs of the modules and, in the two theorems about SELECT, the hypotheses named there.

**PagerProofs**: TypeCorrect, OwnedAddressable, FreeClean, Coherence,
HeaderMonotone, Refinement. The inductive invariant `Inv` adds to the four
invariants of the runs `Counts` (how numPages, the header and the end of the file
relate: the header is never ahead of the file, and memory never behind the
header) and `InFlight` (what the method in progress has already written). Without
them a crash between the two writes of AllocatePage could start from a state in
which the header counts a page that is not in the file. Refinement maps the
write in progress to the old contents (StoreView): the abstract Write happens when
the file is written, the abstract Alloc when the header is.

**TreeProofs**, the first half: TypeCorrect, PointersLinked (NoDanglingPointers), Bounded
(NodesInBounds). The inductive invariant is TypeOK with `PagesGood` (every node
in memory and on disk is within bounds and its pointers are linked), `PathGood`
(the pages of the recursion are linked, and those above the last are internal)
and `WorkGood` (what the node in `work` may be at each `pc`: within bounds but for
one cell, its pointers linked, and the fresh page the one that was just allocated).
WorkGood is where the order of the writes of a split enters: a parent is only
ever written when both halves are. The lemmas about Mid, LeftHalf, RightHalf and
WithSplitChild say that each half of an overfull node is within bounds and that
the pointers of the new nodes are the old ones and the new page.

**Induction**. The library states induction and recursion with operators as
parameters, which no prover here can instantiate. What they rest on can be used:
that < is well founded on Nat is a fact about a set of pairs. From it follow induction
over a set of numbers, induction along a rank, and RecursiveFunctionExists: a
function that asks only for what has a lower rank exists, so that a recursive
definition, which chooses such a function, does not choose in vain. FlattenSeq,
which both the pages under a root and the calls of an UPDATE are made with, is taken
apart once, here, as are texts in which every element of a sequence is replaced by
a sequence (`Spread`).

**TreeProofs** and **TreeInvariant**: TreeSoundInvariance (TreeSound) and
HalfFullInvariance (HalfFull, which no run checks: with the runs' nodes of two cells it
says what NodesInBounds says, and it takes six keys and internal nodes of four cells for
it to say more, 1.2 million states in which TLC found it true). The recursive
definitions (Preorder, Depths, KeysUnder) say what is right of a tree as a whole, and
no step can be followed through them. So TreeProofs states a tree without recursion: a height `h[p]` and a set of allowed
keys `under[p]` for every page, such that each node fits its children (`Tree`), and
no page is led to twice. TreeIsSound proves that this gives what the recursive
definitions say. The other lemmas are about nodes and know no state: a leaf is
replaced, a node halved, a half adopted by its parent, a root made. The invariant
`TreeInv` then says that some tree is on the pages; that `path` leads down in it
towards the key of the call; that the tree is there also with the node in `work` put
where it is to be written (in the middle of a split the page still has the left
half: what is lost if the next call fails is what is under the right half, and what is
left is a tree); and that a root about to be written fits over the old one. Without
that last part the step that writes a root could make anything of two trees. The
tree is stated for a forest with several `tops`, because the tables of Database.tla
share their pages.

**MapProofs**: MapImplemented (ImplementsMap), LossyMapImplemented
(ImplementsLossyMap), MapInvariance. What the map holds is computed by recursion over
the pages under the root (`CellsUnder`), and a step of a split changes pages while
their cells move. TreeProofs therefore compares the cells under a page in two
memories: pages that are the same with the same pages below hold the same
(CellsSame); the halves of a node share out its cells (HalvesCells, SplitCells), a
parent that adopts them leads to what it led to (AdoptedCells); while only the left half is
written cells are lost, and none added (HalfLost); a key is under a page exactly
when it is under the slot to which a search turns (CellsToward). TreeInvariant takes every
step of BTree through these. `CellState(B)` says of a call that found the cells B what
is under the root now, and what will be once the node in hand is written
(`Ahead`): B until the leaf is in hand, then what the call is for, under the root or
with what is in hand; between the writes of a split no other cells than these. In
a `Scanning(B)` the rows found so far, then the cells under each of the pages still
to visit, are B in ascending order. CallStepsOn puts them together: a step of a call
keeps both, or the call returns with what the map would answer (Answer), or a write or an
allocation failed in an insert that has lost cells (Loss). MapInv adds that the
B of the call in progress is the map that `before` remembers. MapImplemented assumes of the
behaviours that no page write and no allocation fails; that is where the lossy
map is needed, and nowhere else: reads may fail.

**DatabaseProofs**: DatabaseTypeCorrect (DatabaseTypeOK), TablesStaySound
(TablesSound), RowIdsStayFresh (RowIdsFresh), for every set of tables, catalog size
and number of restarts and failures. The inductive invariant is `DatabaseInv`:

* `CallInv`: what stage the statement is in, what it has still to call, what `pc` of
  the tree is and what the catalog has for its table agree; every root of `mem` and
  `saved` is linked. It rests on TreeProofs' Inv, of which TablesSound's linked roots
  follow.
* `Layout(h, c)`: a height `h[p]` and a tree `c[p]` for every page, on disk and in
  memory, even after failures; two tables have different `c`. That two tables share
  no page follows, and needs the fresh page of every split to get the colour of the
  tree that splits, and CREATE to get one of its own.
* `Stacked(h, c)`: roots move up only. The root on page 1 is not above the one in
  memory, nor that above the call's. This is what is left when page 1 is behind: after a
  crash the tables go back to lower roots, whose trees are still there.
* `Trees`: as long as no pager call has failed, the file has the pages of the process.
  Until a process starts on what failing calls have left in the file (`Clear`), the
  pages of the process hold a forest in which the
  roots of all tables are, and the roots of tables at rest are tops. A crash, and a
  statement that ends before its root is in the catalog, leave out of the forest the
  pages above the roots that remain (TreesGivenUp).
* `RowKeys(c)`: in a table without a primary key all keys are below NextRowID: in its
  leaves, in `work`, in the rows a scan has returned and in the calls still to make;
  while INSERT looks for its key, below that key. After a restart NextRowID may be
  behind (see Findings), therefore RowIdsFresh is about the first process.
* `TruthGood`: the history has rows where the catalog has a table. Its rows are computed
  by recursion over the tree, and that they are rows needs the heights of Layout.

**DatabaseProofs**, the second half: RowsStayAsAcknowledged (RowsAsAcknowledged), AcknowledgedStaysDurable
(AcknowledgedIsDurable), SelectsSeeAcknowledged (SelectSeesAcknowledged),
KillsLoseOnlyInserts (the action property OnlyInsertsLoseRows), RowsInvariance. What a
call of the tree does to its cells is CallStepsOn, which MapProofs rests on too; here the
calls of a statement are added up, and the cells of the other tables, whose pages lie among
those of the call, are shown to stay (OtherCells: pages of another `c` of Layout).
The properties speak of moments between statements, or of a kill, and are not
inductive. The inductive invariant is `RowsInv`, which holds until a process starts
on what failing calls have left:

* `RestingRows`: a table that no statement is at work on is in the catalog when the
  history has it, and its cells are the rows of the history.
* `StmtRows`: there is a map `d` of rows from which the call in progress set out
  (`CallRows`: the tree holds it between two calls; within one, CallState; when one has
  returned, its answer), and `d` lies between the rows of the history and the new rows
  of the statement (`Progress`: a row is new, or its call is still in `todo`). When nothing
  is left in `todo`, `d` is the new rows, and these are what Acknowledge puts into the
  history. UPDATE, DELETE and SELECT add no key, so that they split no node and the root
  has the cells `d` until a leaf is written (`InPlace`); INSERT, of a new key, may split,
  and is the reason why OnlyInsertsLoseRows has an exception. `CallFits` says that the calls
  in `todo` are about rows that were there, and that it is only INSERT whose tree may have
  a root that the catalog has not (`Rooted`).
* `SavedRows`: while no pager call has failed and the catalog fits, page 1 has the tables
  of the history, with the roots of the catalog in memory unless a save is all that is
  left of a statement; under the old root of a tree that has just grown are old or new
  rows (`OldRows`).

Before it was proved, TLC found RowsInv in all states of the runs db and db_faults, but for
the tree that Scanning says is there, which it cannot evaluate.

**TableProofs**: TableTypes, RowsStayUnderTheirKeys, ScansStaySorted,
RowsStayInColumns (RowsFitColumns), TableImplementsSql (ImplementsSqlTable) and KeysSorted, for any
columns, values, inputs, conditions and assignments. ScansStaySorted is KeysSorted
of the values that rows are kept under. The inductive invariant `KeyInv` is the
first two with `ChangeAllowed` (the assignments of the UPDATE in progress leave the primary key
alone). The argument is short: INSERT computes the key from the row it stores,
of a value that coerceType has made one of the column's type (CoerceTypes,
TypedKey), and an assignment of other columns keeps what the key is computed
from (WithKeepsKey). It does not matter which rows a statement selects.
RowsStayInColumns adds that the rows of a scan fit the columns, and EvaluateTypes: on
such a row an expression is a value or an error, which coerceType turns into a value of
the column's type or refuses. Evaluate is a recursion over expressions; that its
function exists follows, with Induction, from the assumption that expressions are
finite trees (`Depth`). TableImplementsSql, as long as no UPDATE assigns the primary
key, adds `Progress`: each row of the scan is under its own key, and is in the tree
as it was read (not yet reached, or WHERE is FALSE), with its new values, or no longer;
and `count` is the number of rows dealt with. The rows of SqlTable are those of
the scan as long as a statement is in progress: its first step is Ask (BeginMeans),
those on one row after the other are stutters, and its last is the Answer of the
statement that was asked for (DoneMeans, with AskedFor and RowsAfter) or, after an error,
its Stop (ErrorMeans). Distinct keys are what makes the rows a set here:
with two equal rows the number of them would not be the number of steps.

KeysSorted is about Keys.tla, for any even number of values of a byte and any ints
that eight such bytes can hold: the order of the byte strings is the order of the
values. BigEndian is taken apart byte by byte: two numbers whose upper bytes are
the same number differ in what is below, and the first byte that differs decides.

**ReplProofs**: TokensSpell (TokensSpellLine), for any letters and any lines, as long as
NUL is no letter. The invariant is `LexInv`: the lexer is on the line, or behind it
once EOF is the last token, and the tokens spell the part of the line that was read.
LexStep adds one token. TokenAt leaves blanks aside and takes what it then reads,
which After cuts where the first other character is; the hard case is readString,
whose recursion skips the second of two quotes: ReadStringFacts says, by induction from the
end of the line, that the text, with its quotes doubled again, is what stands between
the two quotes. Dense, which leaves out blanks, is taken apart at the seams of the tokens.

**ReplProofs**, the larger part: SelectMeans and SessionMeansSql (SelectMeansSql), for any
tables and rows, any number of JOINs, any expressions, ORDER BY and LIMIT. Assumed of the
constants are NamesAssumption (a name has no dot: the lexer ends a word there, and
without it `a.b` of one merge could be the plain name of another), DatabasesAssumption (a
row has columns of its table with values, of one type in each column, which is
RowsFitColumns, and perhaps `_rowid`, which is no column of any table: a table with a
column of that name is not covered), QueriesAssumption (QueryFits, of the statements that Spec begins). Both
theorems have the hypothesis FiniteTrees: an expression is a finite tree. Among the
expressions of repl, nested four deep, are too many for TLC to look for the depth of each,
which is why this is no ASSUME. SessionMeansSql is about the loop of Repl: other statements may put the tables
into any contents of Databases between two SELECTs; its other hypothesis is ParsedFits,
which says what a recursive descent returns for any text and is left to the run repl.

The executor and the meaning have nothing in common but Evaluate. A row that the
executor merges is a map from names to values, and where a name is written twice the
order of a Go map decides; SqlSelect has combinations of row numbers. The link is
`Shows(db, T, r, x)`: the row r has the cells of the combination x, a column that one
table has under its plain name, every column under its table's name too, but for the
first table only as long as no table joined since brought the same column. The lemmas on
Merges show that one more JOIN keeps this for whatever order is chosen (and thereby that a
choice never matters where names are clear); ClearRef is just what makes each reference
of an expression one of those that Shows speaks of, and the recursion of Evaluate carries it to
conditions. The inductive invariant `SqlInv` says where a SELECT of clear names stands:

* `JoinState`: the rows so far show the combinations that the JOINs done make, and `joined`
  those that this JOIN has made up to the left and the right row (`Made`), both in the
  order of LexLess (`Listing`), each once. A combination of a LEFT JOIN with 0 comes after the
  right rows and is smaller than they, but is there only when they are not. Every condition
  looked at was true or false (`Decided`), so that an error is met exactly if there is one to
  meet (Undecided): an INNER or LEFT JOIN evaluates ON on all pairs before it goes on.
* `ShowState`: the rows show the combinations that WHERE selects, in the same order.
* when it has ended, the answer is the Meaning.

Show is the rest of the way. Sorted picks for place n the row with n - 1 rows before it, and
Meaning the combination with n - 1 combinations before it. `First` is the lexicographic
order along a list of total preorders: with the columns of ORDER BY and then the place in
the scan it is both orders, a strict total one, so that the places are taken once each
(by counting, Cardinality) and the two choices are of the same row. That each column has values of one type is
needed for compareValues to be an order; it is not one between an int and a text. The
columns of the answer are looked up under OutputColumns' names by the executor and under Shown's
by the meaning, with `*` taken apart table by table.

LeftRowsStay (LeftRowsKept) is about sessions with one LEFT JOIN of two tables whose names
may be shared in any way, so that SqlInv says nothing. Its hypothesis is RowsTold: two rows
of a table differ in a value that the first has, and every row has a value other than NULL
(a row of NULLs that is joined could not be told from the NULLs of a row that is not).
TLC evaluates it on the databases of repl. The invariant `LeftState` has a list of pairs of
row numbers behind `joined` (`Paired`): a pair with a right row matches, one with 0 is the
only one of its left row, which matches none; and every left row that is done has a pair
(`Halfway`). Names with a dot cannot meet in a first merge, so that two rows are merged in one
way only (OneMerge), and what hasMatchInJoin finds the second time is what the loop found:
this is what fails with a second JOIN (Findings, 4).

Only model-checked:

* CallsReturn and EveryLineAnswered: liveness.
* StatementAsWritten, AcceptedAsRead and ParsedFits: they are inductions over the text
  of statements and expressions, with a rule of the parser as the parameter of SepList.

## Not modelled, and why

* The encodings: gob rows and catalog, node layout (only lengths), file magic.
  gob is a library; the layout is used by the same code on both sides.
* A crash inside one WriteAt (torn pages): the code relies on the file system.
* The layout of FormatTable, what the dot commands print, error texts. (Which
  cells FormatTable prints is in Query.tla, and that ".quit" ends the process in
  Repl.tla and Database.tla.)
* Letters as bytes: isLetter is asked of single bytes, so that a letter of more
  than one byte may be cut; all characters of the model are one byte.
* Locks (sync.RWMutex): one goroutine.
* The failures of the B-Tree inside Table.tla: Database.tla has them, with rows
  that are a key and a value.
* The failures of a scan inside Query.tla, and what INSERT, UPDATE and DELETE do to
  the tables in Repl.tla: Database.tla and Table.tla have them.

## Plan

Done: the storage (PageStore, Pager, OrderedMap, BTree, BTreeMap, Database), rows
(Values, Keys, SqlTable, Table), SELECT (SqlSelect, Query), text (Ast, Lexer, Parser,
SqlText) and the loop over them (Repl), with the proofs above. What is left
is an abstract table that says what the code does keep of NOT NULL.
