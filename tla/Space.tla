--------------------------------- MODULE Space --------------------------------
(***************************************************************************)
(* Where the space went, by both routes (kam-storage/src/scan.rs): the     *)
(* tree built from the entries of the master file table and their totals,  *)
(* and the same volume walked folder by folder; and the tree trimmed for   *)
(* the window.                                                             *)
(***************************************************************************)
EXTENDS Table

CONSTANTS
  MaxDepth,        \* levels of the tree that are sent
  MaxChildren,     \* folders kept in a level
  LargestKept      \* files kept in the list of the largest

ASSUME ListsHaveRoom == {MaxDepth, MaxChildren, LargestKept} \subseteq Nat \ {0}

-----------------------------------------------------------------------------
(* The tree for the window.                                                  *)

\* Every file of the table, those no folder leads to as well.
TotalBytes(es) == BytesOf(es, {i \in DOMAIN es : ~es[i].folder})

RECURSIVE BuildBranch(_, _, _, _)

\* One level deeper than is sent, so that trimming has a tail to fold.
BuildBranch(es, totals, i, depth) ==
  LET below == SetToSeq(DirectoriesIn(es, i))
  IN [record   |-> i,
      bytes    |-> IF i \in DOMAIN totals THEN totals[i] ELSE 0,
      files    |-> IF i \in DOMAIN totals THEN Cardinality(FilesIn(es, i)) ELSE 0,
      children |-> IF depth > MaxDepth THEN <<>>
                   ELSE [k \in DOMAIN below |-> BuildBranch(es, totals, below[k], depth + 1)]]

SumOver(nodes, of(_)) == FoldLeft(LAMBDA n, c : n + of(c), 0, nodes)

Aggregate == 0

\* The largest children, the rest folded into one node unless it is empty.
Folded(children) ==
  LET sorted == SortSeq(children, LAMBDA a, b : a.bytes > b.bytes)
      tail   == SubSeq(sorted, MaxChildren + 1, Len(sorted))
      rest   == [record |-> Aggregate, bytes |-> SumOver(tail, LAMBDA c : c.bytes),
                 files |-> SumOver(tail, LAMBDA c : c.files), children |-> <<>>]
  IN SubSeq(sorted, 1, IF Len(sorted) < MaxChildren THEN Len(sorted) ELSE MaxChildren)
       \o (IF rest.bytes > 0 THEN <<rest>> ELSE <<>>)

RECURSIVE Prune(_, _)

\* A slip: the children past the last that is kept are left out.
PruneQuietly(node, depth) ==
  IF depth >= MaxDepth \/ node.children = <<>> THEN [node EXCEPT !.children = <<>>]
  ELSE LET sorted == SortSeq(node.children, LAMBDA a, b : a.bytes > b.bytes)
           kept   == SubSeq(sorted, 1, IF Len(sorted) < MaxChildren THEN Len(sorted) ELSE MaxChildren)
       IN [node EXCEPT !.children = [k \in DOMAIN kept |-> Prune(kept[k], depth + 1)]]

Prune(node, depth) ==
  IF depth >= MaxDepth \/ node.children = <<>> THEN [node EXCEPT !.children = <<>>]
  ELSE LET kept == Folded(node.children)
       IN [node EXCEPT !.children = [k \in DOMAIN kept |-> Prune(kept[k], depth + 1)]]

\* Only files of 64 MB and more are listed; the model's are all of that size.
Largest(sizes) ==
  LET sorted == SortSeq(sizes, LAMBDA a, b : a > b)
  IN SubSeq(sorted, 1, IF Len(sorted) < LargestKept THEN Len(sorted) ELSE LargestKept)

\* The largest files of the table; one whose path cannot be rebuilt is dropped
\* after the list is cut to its length.
LargestFiles(es) ==
  LET files == SetToSortSeq({i \in DOMAIN es : ~es[i].folder}, LAMBDA i, j : es[i].bytes > es[j].bytes)
      first == SubSeq(files, 1, IF Len(files) < LargestKept THEN Len(files) ELSE LargestKept)
      named == SelectSeq(first, LAMBDA i : PathOf(es, i) /= Nowhere)
  IN [k \in DOMAIN named |-> es[named[k]].bytes]

FromMasterFileTable(es) ==
  LET totals == TotalDirectories(es)
  IN [total   |-> TotalBytes(es),
      tree    |-> Prune(BuildBranch(es, totals, RootRecord, 0), 0),
      largest |-> LargestFiles(es)]

-----------------------------------------------------------------------------
(* The walk.                                                                 *)


(* A disk is the table, the further names its files have (the folder and the *)
(* file), and what ails each name: a folder may be "closed"; a name may be   *)
(* "unlisted" by a listing that fails on the way, or "faint", without its    *)
(* metadata; and the worker a folder was given to may end with it "lost".    *)

\* Folders this far down are given to worker threads.
ParallelDepth == 2

\* A slip: a folder that will not open is passed over.
UnopenedQuietly(d) ==
  [record |-> d, bytes |-> 0, counted |-> 0, files |-> 0, unreadable |-> 0, big |-> <<>>, children |-> <<>>]

\* A folder that will not open is counted as unreadable and holds nothing.
Unopened(d) ==
  [record |-> d, bytes |-> 0, counted |-> 0, files |-> 0, unreadable |-> 1, big |-> <<>>, children |-> <<>>]

\* A slip: the carried list is cut before it is sorted.
CarriedUnsorted(big) == SubSeq(big, 1, IF Len(big) < LargestKept THEN Len(big) ELSE LargestKept)

\* The largest files carried up, no more than the list has room for.
Carried(big) == IF Len(big) > LargestKept THEN Largest(big) ELSE big

RECURSIVE Walk(_, _, _)

\* A folder is listed, its files counted under every name they have, and its
\* folders walked, by threads or not.  A name the listing fails at is left out
\* without a word; one without metadata is counted as unreadable.  What a lost
\* worker had counted stays in the counters (all of it, here), and is not in
\* the tree.
Walk(disk, d, depth) ==
  IF disk.ails[d] = "closed" THEN Unopened(d)
  ELSE LET es     == disk.table
           listed == {i \in ChildrenOf(es, d) : disk.ails[i] /= "unlisted"}
           known  == {i \in listed : disk.ails[i] /= "faint"}
           below  == SetToSeq({i \in known : es[i].folder})
           files  == SetToSeq({i \in known : ~es[i].folder}) \o SetToSeq({l[2] : l \in {m \in disk.links : m[1] = d}})
           sizes  == [k \in DOMAIN files |-> es[files[k]].bytes]
           parts  == [k \in DOMAIN below |-> Walk(disk, below[k], depth + 1)]
           joined == SelectSeq(parts, LAMBDA c : depth >= ParallelDepth \/ Len(below) = 1
                                                   \/ disk.ails[c.record] /= "lost")
       IN [record     |-> d,
           bytes      |-> SumOver(sizes, LAMBDA n : n) + SumOver(joined, LAMBDA c : c.bytes),
           counted    |-> SumOver(sizes, LAMBDA n : n) + SumOver(parts, LAMBDA c : c.counted),
           files      |-> Len(files),
           unreadable |-> Cardinality(listed \ known) + SumOver(parts, LAMBDA c : c.unreadable),
           big        |-> Carried(sizes \o FlattenSeq([k \in DOMAIN joined |-> joined[k].big])),
           children   |-> joined]

\* The counters are kept apart from the tree, and are not cut with it.
WalkScan(disk) ==
  LET walked == Walk(disk, RootRecord, 0)
  IN [total |-> walked.counted, unreadable |-> walked.unreadable,
      tree  |-> Prune(walked, 0), largest |-> Largest(walked.big)]

-----------------------------------------------------------------------------
(* What the numbers must be.                                                 *)

RECURSIVE NodesOf(_)
NodesOf(node) == {node} \cup UNION {NodesOf(node.children[k]) : k \in DOMAIN node.children}

\* What is trimmed still adds up: the children of a node that is sent are, with
\* the one that stands for the rest, as large as the folders they stand for
\* (scan.rs: DEFAULT_MAX_CHILDREN, prune).
TrimmedAddsUp(es) ==
  \A node \in NodesOf(FromMasterFileTable(es).tree) :
    node.children /= <<>> =>
      SumOver(node.children, LAMBDA c : c.bytes) = node.bytes - BytesOf(es, FilesIn(es, node.record))

\* What a folder holds, each file once for every name it has there or below.
NamedBeneath(disk, d) ==
  TotalBeneath(disk.table, d)
    + FoldSet(LAMBDA l, n : n + disk.table[l[2]].bytes, 0, {l \in disk.links : d \in Above(disk.table, l[1])})

\* The two routes agree as far as the walk promises.  On a table that is a tree
\* it finds, folder for folder, the bytes the table gives, and once more those
\* of each further name of a file, which the table has once; never more than
\* that.  It falls short only where something failed, and says so unless a
\* listing broke off or a worker was lost, the two cases it passes over in
\* silence (scan.rs: 23-25, walk, walk_in_parallel).
RoutesAgree(disk) ==
  LET es     == disk.table
      walked == Walk(disk, RootRecord, 0)
      nodes  == NodesOf(walked)
      ills   == {disk.ails[i] : i \in DOMAIN es} \ {"well"}
      scan   == WalkScan(disk)
  IN (\A i \in DOMAIN es : InTree(es, i)) =>
       /\ \A n \in nodes : n.bytes <= NamedBeneath(disk, n.record)
       /\ ills = {} => \A n \in nodes : n.bytes = NamedBeneath(disk, n.record)
       /\ scan.total < NamedBeneath(disk, RootRecord) => scan.unreadable > 0 \/ "unlisted" \in ills
       /\ walked.bytes < scan.total => "lost" \in ills
       /\ ills = {} /\ disk.links = {} =>
            /\ scan.total = FromMasterFileTable(es).total
            /\ scan.largest = Largest(SetToSeq({es[i].bytes : i \in TreeFiles(es, RootRecord)}))
=============================================================================
