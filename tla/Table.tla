--------------------------------- MODULE Table --------------------------------
(***************************************************************************)
(* Reading the master file table (kam-storage/src/mft.rs).  One thread      *)
(* reads the runs the table is stored in and frames whole records out of    *)
(* what it reads; others parse the blocks it queues.  The results are       *)
(* merged in the order the blocks were read, and sizes kept in extension    *)
(* records are given to the records they extend.  What the index makes of   *)
(* the entries, totals and paths, follows (index.rs).                       *)
(*                                                                          *)
(* A record is two sectors on the disk; a run may end after either.         *)
(***************************************************************************)
EXTENDS Integers, Sequences, FiniteSets, FiniteSetsExt, SequencesExt

CONSTANTS
  Parsers,        \* the parsing threads, 1 .. n in the order they are joined
  ChunkSectors,   \* how much one read asks for: whole records
  Volumes,        \* the tables that may be on the disk: sequences of records
  MaxShort,       \* bound on the reads that return less than was asked for
  RootRecord,     \* the record of the root, which names itself as its parent
  PathBound,      \* steps path_of takes before it gives up
  NameOf(_)       \* the name a record carries, folded to lower case

ASSUME TableAssumption ==
  /\ IsFiniteSet(Parsers) /\ ChunkSectors \in Nat \ {0}
  /\ Volumes \subseteq Seq([what : STRING, parent : Nat, bytes : Int])

ASSUME IndexAssumption == PathBound \in Nat

VARIABLES
  onDisk,         \* the table's records
  runs,           \* the sectors still to be read, run by run
  carry,          \* sectors of a record whose other half is not read yet
  nextRecord,     \* the number of the next record to be framed
  sent,           \* blocks queued so far
  queue,
  parsing,        \* the block each parser holds
  mine,           \* what each parser has parsed, in the order it did
  tableRead,      \* "reading", "closed", "read", "failed" or "unasked"
  shorts,
  cut,            \* a run was left before its end
  snapshot        \* the entries by record number, and the records skipped

tableVars == <<onDisk, runs, carry, nextRecord, sent, queue, parsing, mine, tableRead, shorts, cut, snapshot>>

NoBlock == [sequence |-> 0, first |-> 0, sectors |-> <<>>]

NoData == -1

\* What a record says.  A blank one carries no signature; a torn one fails the
\* check of its sectors; an extension holds attributes, perhaps the size, of
\* another record.
RecordOf(what, parent, bytes) == [what |-> what, parent |-> parent, bytes |-> bytes]

-----------------------------------------------------------------------------
(* One block.                                                                *)

\* The record two sectors make: the one whose halves they are, or else one that
\* fails the check, recognised as a record when it begins like one.
Framed(table, first, second) ==
  IF first[1] = second[1] /\ first[2] = 1 /\ second[2] = 2 THEN table[first[1]]
  ELSE RecordOf(IF first[2] = 1 /\ table[first[1]].what /= "blank" THEN "torn" ELSE "blank", 0, NoData)

\* The size a base record gives: none for a folder, zero where it has no data.
OwnBytes(r) == IF r.what = "folder" \/ r.bytes = NoData THEN 0 ELSE r.bytes

ParseBlock(table, block) ==
  LET count  == Len(block.sectors) \div 2
      numbers == block.first .. block.first + count - 1
      half(n, k) == block.sectors[2 * (n - block.first) + k]
      record == [n \in numbers |-> Framed(table, half(n, 1), half(n, 2))]
      those(kinds) == {n \in numbers : record[n].what \in kinds}
  IN [sequence |-> block.sequence,
      entries  |-> {<<n, [parent |-> record[n].parent, folder |-> record[n].what = "folder",
                          bytes |-> OwnBytes(record[n])]>> : n \in those({"file", "folder"})},
      sizes    |-> [n \in {m \in those({"extension"}) : record[m].bytes /= NoData} |->
                      [of |-> record[n].parent, bytes |-> record[n].bytes]],
      skipped  |-> Cardinality(those({"torn"}))]

-----------------------------------------------------------------------------
(* The reading thread.                                                       *)

SectorsOf(table) == [k \in 1 .. 2 * Len(table) |-> <<(k + 1) \div 2, ((k + 1) % 2) + 1>>]

TableInit ==
  /\ onDisk \in Volumes
  /\ \E at \in 1 .. 2 * Len(onDisk) :
       LET all == SectorsOf(onDisk)
       IN runs = IF at = Len(all) THEN <<all>> ELSE <<SubSeq(all, 1, at), SubSeq(all, at + 1, Len(all))>>
  /\ carry = <<>> /\ nextRecord = 1 /\ sent = 0 /\ queue = <<>>
  /\ parsing = [p \in Parsers |-> NoBlock] /\ mine = [p \in Parsers |-> <<>>]
  /\ tableRead = "reading" /\ shorts = 0 /\ cut = FALSE
  /\ snapshot = [entries |-> <<>>, skipped |-> 0]

\* What is left to read once n sectors of the first run are.
After(n) ==
  LET rest == SubSeq(runs[1], n + 1, Len(runs[1]))
  IN IF rest = <<>> THEN Tail(runs) ELSE <<rest>> \o Tail(runs)

\* The remainder joins what was read; whole records go to the queue, which the
\* thread waits for while it is full, and the rest is carried over.
Frame(n) ==
  LET buffer == carry \o SubSeq(runs[1], 1, n)
      whole  == Len(buffer) \div 2
  IN /\ carry' = SubSeq(buffer, 2 * whole + 1, Len(buffer))
     /\ IF whole = 0 THEN UNCHANGED <<queue, sent, nextRecord>>
        ELSE /\ Len(queue) < Cardinality(Parsers) + 1
             /\ queue' = Append(queue, [sequence |-> sent + 1, first |-> nextRecord,
                                        sectors |-> SubSeq(buffer, 1, 2 * whole)])
             /\ sent' = sent + 1 /\ nextRecord' = nextRecord + whole

ReadChunk ==
  /\ tableRead = "reading" /\ runs /= <<>>
  /\ LET want == IF Len(runs[1]) < ChunkSectors THEN Len(runs[1]) ELSE ChunkSectors
     IN \E n \in 1 .. want :
          /\ n < want => shorts < MaxShort
          /\ shorts' = IF n < want THEN shorts + 1 ELSE shorts
          /\ Frame(n) /\ runs' = After(n)
  /\ UNCHANGED <<onDisk, parsing, mine, tableRead, cut, snapshot>>

\* A read that returns nothing ends its run, whatever is left of it.
ReadNothing ==
  /\ tableRead = "reading" /\ runs /= <<>> /\ shorts < MaxShort
  /\ shorts' = shorts + 1 /\ runs' = Tail(runs) /\ cut' = TRUE
  /\ UNCHANGED <<onDisk, carry, nextRecord, sent, queue, parsing, mine, tableRead, snapshot>>

ReadFails ==
  /\ tableRead = "reading" /\ runs /= <<>> /\ tableRead' = "failing"
  /\ UNCHANGED <<onDisk, runs, carry, nextRecord, sent, queue, parsing, mine, shorts, cut, snapshot>>

\* A slip: the queue stays open while the parsers are waited for.
CloseNever ==
  /\ tableRead = "reading" /\ runs = <<>> /\ tableRead' = "reading"
  /\ UNCHANGED <<onDisk, runs, carry, nextRecord, sent, queue, parsing, mine, shorts, cut, snapshot>>

\* Nothing more to read: dropping the sender is what tells the parsers.
Close ==
  /\ tableRead = "reading" /\ runs = <<>> /\ tableRead' = "closed"
  /\ UNCHANGED <<onDisk, runs, carry, nextRecord, sent, queue, parsing, mine, shorts, cut, snapshot>>

-----------------------------------------------------------------------------
(* The parsing threads.                                                      *)

\* The lock is held for the taking of one block, and not while it is parsed.
TakeBlock(p) ==
  /\ tableRead \in {"reading", "closed", "failing"} /\ parsing[p] = NoBlock /\ queue /= <<>>
  /\ parsing' = [parsing EXCEPT ![p] = Head(queue)] /\ queue' = Tail(queue)
  /\ UNCHANGED <<onDisk, runs, carry, nextRecord, sent, mine, tableRead, shorts, cut, snapshot>>

Parse(p) ==
  /\ parsing[p] /= NoBlock
  /\ mine' = [mine EXCEPT ![p] = Append(@, ParseBlock(onDisk, parsing[p]))]
  /\ parsing' = [parsing EXCEPT ![p] = NoBlock]
  /\ UNCHANGED <<onDisk, runs, carry, nextRecord, sent, queue, tableRead, shorts, cut, snapshot>>

-----------------------------------------------------------------------------
(* The merge.                                                                *)

\* What each parser has to hand over when it is joined, by parser and turn.
Gathered == [h \in UNION {{p} \X DOMAIN mine[p] : p \in Parsers} |-> mine[h[1]][h[2]]]

\* A slip: the blocks are merged as the parsers hand them over.
InHandedOrder(parsed, g, h) == g[1] < h[1] \/ (g[1] = h[1] /\ g[2] < h[2])

\* The blocks are merged in the order they were read.
InOrder(parsed, g, h) == parsed[g].sequence < parsed[h].sequence

\* A record with no size of its own takes the one its extension holds; of two,
\* the one that was merged last.
Merged(parsed) ==
  LET found == UNION {parsed[h].entries : h \in DOMAIN parsed}
      spilt(n) == {x \in UNION {{h} \X DOMAIN parsed[h].sizes : h \in DOMAIN parsed} :
                     parsed[x[1]].sizes[x[2]].of = n}
      later(x, y) == InOrder(parsed, y[1], x[1]) \/ (y[1] = x[1] /\ y[2] <= x[2])
      last(n) == CHOOSE x \in spilt(n) : \A y \in spilt(n) : later(x, y)
      entry(n) == CHOOSE e \in {f[2] : f \in found} : <<n, e>> \in found
  IN [n \in {f[1] : f \in found} |->
        IF entry(n).folder \/ entry(n).bytes /= 0 \/ spilt(n) = {} THEN entry(n)
        ELSE [entry(n) EXCEPT !.bytes = parsed[last(n)[1]].sizes[last(n)[2]].bytes]]

\* Every parser finds the queue closed and empty, and is joined.  An error of
\* the reading thread is returned in place of what was parsed.
Join ==
  /\ tableRead \in {"closed", "failing"} /\ queue = <<>> /\ \A p \in Parsers : parsing[p] = NoBlock
  /\ tableRead' = IF tableRead = "failing" THEN "failed" ELSE "read"
  /\ snapshot' = IF tableRead = "failing" THEN snapshot
                 ELSE LET torn == [h \in DOMAIN Gathered |-> Gathered[h].skipped]
                      IN [entries |-> Merged(Gathered), skipped |-> MapThenSumSet(LAMBDA h : torn[h], DOMAIN torn)]
  /\ UNCHANGED <<onDisk, runs, carry, nextRecord, sent, queue, parsing, mine, shorts, cut>>

TableNext ==
  \/ ReadChunk
  \/ ReadNothing
  \/ ReadFails
  \/ Close
  \/ \E p \in Parsers : TakeBlock(p)
  \/ \E p \in Parsers : Parse(p)
  \/ Join

-----------------------------------------------------------------------------
(* What a reading of the table must come to.                                 *)

\* The table as it is written: each record by its own number, and of the
\* extensions of one with no size the last that holds one.
AsWritten(table) ==
  LET these == {n \in DOMAIN table : table[n].what \in {"file", "folder"}}
      spills(n) == {k \in DOMAIN table : table[k].what = "extension" /\ table[k].parent = n
                                           /\ table[k].bytes /= NoData}
      last(n) == CHOOSE k \in spills(n) : \A j \in spills(n) : j <= k
      needs(n) == table[n].what = "file" /\ OwnBytes(table[n]) = 0 /\ spills(n) /= {}
  IN [n \in these |->
        [parent |-> table[n].parent, folder |-> table[n].what = "folder",
         bytes  |-> IF needs(n) THEN table[last(n)].bytes ELSE OwnBytes(table[n])]]

\* A table read to its end is the table on the disk: however the reads fell
\* across records and runs, and whichever parser was done first, every record
\* has its own number, its size is found wherever it is kept, and what failed
\* its check is counted (mft.rs: read).
ReadAsWritten ==
  tableRead = "read" /\ ~cut =>
    /\ snapshot.entries = AsWritten(onDisk)
    /\ snapshot.skipped = Cardinality({n \in DOMAIN onDisk : onDisk[n].what = "torn"})

\* Nobody waits for ever: while no step is left, the reading has ended, and
\* until it has the reader and the parsers between them have a step that changes
\* something (mft.rs: read, the queue that is closed before the join).
NobodyWaits ==
  tableRead \in {"read", "failed"} \/ ENABLED <<TableNext>>_tableVars

-----------------------------------------------------------------------------
(* The index (index.rs).  Entries are a function from record numbers, and     *)
(* nothing promises that they make a tree: a parent may be missing, a file,   *)
(* or the record's own descendant.                                           *)

\* The root's own edge is left out, or the tree would contain itself.
ChildrenOf(es, d) == {i \in DOMAIN es \ {RootRecord} : es[i].parent = d}

DirectoriesIn(es, d) == {i \in ChildrenOf(es, d) : es[i].folder}

FilesIn(es, d) == ChildrenOf(es, d) \ DirectoriesIn(es, d)

\* The sum for one folder, of what is known of the folders in it by then.
Summed(es, known, d) ==
  LET size == [i \in ChildrenOf(es, d) |-> IF ~es[i].folder THEN es[i].bytes
                                           ELSE IF i \in DOMAIN known THEN known[i] ELSE 0]
  IN MapThenSumSet(LAMBDA i : size[i], ChildrenOf(es, d))

Inserted(es, known, d) ==
  [i \in DOMAIN known \cup {d} |-> IF i = d THEN Summed(es, known, d) ELSE known[i]]

\* The folders in one that were not met before, in whatever order they are listed.
Met(es, visited, d) ==
  LET more == DirectoriesIn(es, d) \ visited
  IN [k \in 1 .. Cardinality(more) |-> <<SetToSeq(more)[k], FALSE>>]

\* A slip: a folder is summed when it is first met.
TurnOnTheWayDown(es, s) ==
  IF s.todo = <<>> THEN s
  ELSE LET d == Last(s.todo)[1]
       IN IF Last(s.todo)[2] THEN [s EXCEPT !.todo = Front(@)]
          ELSE [todo    |-> Append(Front(s.todo), <<d, TRUE>>) \o Met(es, s.visited, d),
                visited |-> s.visited \cup DirectoriesIn(es, d),
                known   |-> Inserted(es, s.known, d)]

\* One turn of the loop.  A folder is on the stack twice: first the folders in
\* it are put above it, and when it is on top again they have their totals and
\* it is summed.
Turn(es, s) ==
  IF s.todo = <<>> THEN s
  ELSE LET d == Last(s.todo)[1]
       IN IF Last(s.todo)[2]
          THEN [todo    |-> Front(s.todo),
                visited |-> s.visited,
                known   |-> Inserted(es, s.known, d)]
          ELSE [todo    |-> Append(Front(s.todo), <<d, TRUE>>) \o Met(es, s.visited, d),
                visited |-> s.visited \cup DirectoriesIn(es, d),
                known   |-> s.known]

\* The loop ends when the stack is empty, and by this many turns it is.
TotalDirectories(es) ==
  LET turns == 2 * Cardinality(DOMAIN es \cup {RootRecord})
      after[n \in 0 .. turns] ==
        IF n = 0 THEN [todo |-> <<<<RootRecord, FALSE>>>>, visited |-> {RootRecord}, known |-> <<>>]
        ELSE Turn(es, after[n - 1])
  IN after[turns].known

TotalBeneath(es, d) ==
  LET totals == TotalDirectories(es) IN IF d \in DOMAIN totals THEN totals[d] ELSE 0

Nowhere == <<"nowhere">>

\* The path of a record, rebuilt from its parents in a bounded number of steps.
PathOf(es, i) ==
  LET records == DOMAIN es \cup {es[k].parent : k \in DOMAIN es} \cup {RootRecord}
      within[n \in 0 .. PathBound] ==
        [r \in records |->
           IF n = 0 THEN Nowhere
           ELSE IF r = RootRecord THEN <<>>
           ELSE IF r \notin DOMAIN es THEN Nowhere
           ELSE LET above == within[n - 1][es[r].parent]
                IN IF above = Nowhere THEN Nowhere ELSE Append(above, NameOf(r))]
  IN within[PathBound][i]

\* A slip: a name is looked for among the folders, except the last.
ResolvePathPicky(es, path) ==
  LET at[n \in 0 .. Len(path)] ==
        IF n = 0 THEN {RootRecord}
        ELSE UNION {{i \in DirectoriesIn(es, d) : NameOf(i) = path[n]} : d \in at[n - 1]}
  IN at[Len(path)]

\* The records a path may resolve to: at each step the first child of the name,
\* and which of two that are alike comes first is not determined.
ResolvePath(es, path) ==
  LET at[n \in 0 .. Len(path)] ==
        IF n = 0 THEN {RootRecord}
        ELSE UNION {{i \in ChildrenOf(es, d) : NameOf(i) = path[n]} : d \in at[n - 1]}
  IN at[Len(path)]

-----------------------------------------------------------------------------
(* What the index must say of the entries.                                   *)

\* The records above a record, itself included, as far as the parents go.
Above(es, i) ==
  LET step(s) == s \cup {es[k].parent : k \in (s \cap DOMAIN es) \ {RootRecord}}
      after[n \in 0 .. Cardinality(DOMAIN es)] == IF n = 0 THEN {i} ELSE step(after[n - 1])
  IN after[Cardinality(DOMAIN es)]

\* The records that hang from the root by folders only.
InTree(es, i) ==
  /\ RootRecord \in Above(es, i)
  /\ \A k \in Above(es, i) \ {i, RootRecord} : k \in DOMAIN es /\ es[k].folder

BytesOf(es, files) ==
  LET size == [i \in files |-> es[i].bytes] IN MapThenSumSet(LAMBDA i : size[i], files)

TreeFiles(es, d) ==
  {i \in DOMAIN es \ {RootRecord} : ~es[i].folder /\ InTree(es, i) /\ d \in Above(es, i)}

\* A folder's total is the bytes of the files that hang below it, each once,
\* whatever the parents of the table say; and a folder that hangs from nothing
\* has none (index.rs: total_directories).
TotalsAreTrue(es) ==
  \A d \in DOMAIN es \cup {RootRecord} :
    TotalBeneath(es, d) = IF (d = RootRecord \/ (es[d].folder /\ InTree(es, d)))
                     THEN BytesOf(es, TreeFiles(es, d)) ELSE 0

\* A path that was rebuilt leads back: to the record itself, or to one that has
\* the very same path; and only records that hang from the root have one
\* (index.rs: path_of, resolve).
PathsLeadBack(es) ==
  \A i \in DOMAIN es :
    PathOf(es, i) /= Nowhere =>
      /\ RootRecord \in Above(es, i)
      /\ i \in ResolvePath(es, PathOf(es, i))
      /\ \A j \in ResolvePath(es, PathOf(es, i)) : PathOf(es, j) = PathOf(es, i)
=============================================================================
