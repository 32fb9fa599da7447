---------------------------- MODULE MovesProofs -----------------------------
(***************************************************************************)
(* Proofs about the journal of moves, for any number of threads, paths,    *)
(* files and ids.                                                          *)
(***************************************************************************)
EXTENDS Moves, WellFoundedInduction, TLAPS

-----------------------------------------------------------------------------
(* Ids, records and threads have their types.                              *)

\* A set of naturals that is not empty has a least element.
LEMMA MinType ==
  ASSUME NEW S, S \subseteq Nat, S # {}
  PROVE  Min(S) \in S
<1> DEFINE R == OpToRel(<, Nat)
<1>1. \E x \in S : \A y \in S : ~(<<y, x>> \in R)
  BY NatLessThanWellFounded, WFMin
<1>2. \A x, y \in S : y < x => <<y, x>> \in R
  BY DEF OpToRel
<1> HIDE DEF R
<1>3. PICK x \in S : \A y \in S : ~(<<y, x>> \in R)
  BY <1>1, Zenon
<1>4. \A y \in S : ~(y < x)
  BY <1>2, <1>3, Zenon
<1>5. \A y \in S : x =< y
  BY <1>4
<1> QED BY <1>5 DEF Min

\* allocate_id gives an id, the overflow included.
LEMMA AllocateType ==
  ASSUME MovesTypeOK
  PROVE  AllocateId \in Ids
<1> DEFINE free == {k \in 0 .. Suffixes - 1 : <<clock, k>> \notin held}
           n == IF free = {} THEN Suffixes ELSE Min(free)
<1>1. free \subseteq Nat /\ free \subseteq 0 .. Suffixes /\ Suffixes \in 0 .. Suffixes
  BY MovesAssumption
<1>2. n \in 0 .. Suffixes
  BY <1>1, MinType
<1>3. clock \in 0 .. MaxTime
  BY DEF MovesTypeOK
<1>4. AllocateId = <<clock, n>>
  BY DEF AllocateId
<1> HIDE DEF free, n
<1> QED BY <1>2, <1>3, <1>4 DEF Ids

\* The values threads and records start from have their types.
LEMMA IdleType ==
  AnyPath \in Paths /\ <<0, 0>> \in Ids /\ Idle \in Threads
  /\ NoRecord \in Records /\ TornRecord \in Records
<1>1. AnyPath \in Paths
  BY MovesAssumption DEF AnyPath
<1>2. <<0, 0>> \in Ids
  BY MovesAssumption DEF Ids
<1> QED BY <1>1, <1>2 DEF Idle, Thread, Threads, NoRecord, TornRecord, Record, Records

-----------------------------------------------------------------------------
(* Types, and what a rename replaces.                                      *)

\* Whatever a thread aims at was free when it looked, or has been filled since.
AimInv == \A w \in Workers, p \in Paths : Aims(w, p) => w \in outrun \/ files[p] = Nothing

SafeInv == MovesTypeOK /\ NothingReplaced /\ AimInv

\* What a step of one thread does to the others' aims.
LEMMA AimsOthers ==
  ASSUME NEW w \in Workers, NEW t, MovesTypeOK, Become(w, t)
  PROVE  /\ worker'[w] = t
         /\ \A v \in Workers \ {w} : worker'[v] = worker[v]
         /\ \A v \in Workers \ {w}, p \in Paths : Aims(v, p)' <=> Aims(v, p)
<1>1. worker'[w] = t /\ \A v \in Workers \ {w} : worker'[v] = worker[v]
  BY DEF Become, MovesTypeOK
<1> QED BY <1>1 DEF Aims

\* A thread that does not aim at anything any more, and fills nothing, leaves
\* every aim as it was.
LEMMA AimLeft ==
  ASSUME SafeInv, NEW w \in Workers, NEW t, Become(w, t),
         t.pc \in {"idle", "forget", "mark"}, files' = files, outrun \ {w} \subseteq outrun'
  PROVE  AimInv'
<1>1. \A p \in Paths : ~Aims(w, p)'
  BY AimsOthers DEF SafeInv, Aims
<1> QED BY <1>1, AimsOthers DEF SafeInv, AimInv

\* A rename that is aimed at the name it fills replaces nothing, and leaves
\* every other thread that aims there outrun.
LEMMA RenameSafe ==
  ASSUME SafeInv, NEW w \in Workers, NEW p \in Paths, NEW q \in Paths,
         Aims(w, q), Rename(w, p, q),
         NEW t, Become(w, t), t.pc \in {"idle", "mark"}
  PROVE  /\ files' \in [Paths -> Contents \cup {Nothing}]
         /\ outrun' \subseteq Workers
         /\ lost' = {}
         /\ AimInv'
<1>1. /\ files \in [Paths -> Contents \cup {Nothing}] /\ outrun \subseteq Workers /\ lost = {}
      /\ MovesTypeOK
  BY DEF SafeInv, MovesTypeOK, NothingReplaced
<1>2. /\ files' = [files EXCEPT ![p] = Nothing, ![q] = files[p]]
      /\ outrun' = (outrun \cup Outrun(q)) \ {w}
      /\ lost' = IF w \in outrun THEN lost ELSE lost \cup ({files[q]} \ {Nothing})
  BY DEF Rename
<1>3. w \in outrun \/ files[q] = Nothing
  BY DEF SafeInv, AimInv
<1>4. /\ files' \in [Paths -> Contents \cup {Nothing}]
      /\ \A x \in Paths \ {q} : files'[x] \in {files[x], Nothing}
  BY <1>1, <1>2
<1>5. \A x \in Paths : ~Aims(w, x)'
  BY <1>1, AimsOthers DEF Aims
<1>6. ASSUME NEW v \in Workers \ {w}, NEW x \in Paths, Aims(v, x)
      PROVE  v \in outrun' \/ files'[x] = Nothing
  <2>1. CASE x = q
    BY <1>2, <1>6, <2>1 DEF Outrun
  <2>2. CASE x # q
    BY <1>2, <1>4, <1>6, <2>2 DEF SafeInv, AimInv
  <2> QED BY <2>1, <2>2
<1>7. AimInv'
  BY <1>1, <1>5, <1>6, AimsOthers DEF AimInv
<1> QED BY <1>1, <1>2, <1>3, <1>4, <1>7 DEF Outrun

\* Every step of one thread keeps the types and replaces nothing it saw.
LEMMA StepSafe ==
  ASSUME SafeInv, NEW w \in Workers, Step(w)
  PROVE  SafeInv'
<1>0. /\ MovesTypeOK /\ lost = {} /\ AimInv
      /\ worker[w] \in Threads /\ worker[w].id \in Ids
      /\ worker[w].from \in Paths /\ worker[w].to \in Paths
  BY DEF SafeInv, MovesTypeOK, NothingReplaced, Threads
<1>t. ASSUME NEW pc \in {"idle", "journal", "rename", "forget", "putback", "mark"},
             NEW i \in Ids, NEW p \in Paths, NEW q \in Paths
      PROVE  /\ Thread(pc, i, p, q) \in Threads /\ Thread(pc, i, p, q).pc = pc
             /\ Thread(pc, i, p, q).from = p /\ Thread(pc, i, p, q).to = q
             /\ Thread(pc, i, p, q).id = i
  BY DEF Thread, Threads
<1>r. ASSUME NEW l \in {"none", "torn", "moved", "undone"}, NEW p \in Paths, NEW q \in Paths
      PROVE  Record(l, p, q) \in Records
  BY DEF Record, Records
<1>b. ASSUME NEW t \in Threads, Become(w, t) PROVE worker' \in [Workers -> Threads]
  BY <1>0, <1>b DEF Become, MovesTypeOK
<1>w. ASSUME NEW i \in Ids, Write(i) PROVE written' \subseteq Ids /\ clash' \in BOOLEAN
  BY <1>0, <1>w DEF Write, MovesTypeOK
<1>1. ASSUME NEW pair \in Pairs, MoveStart(w, pair[1], pair[2]) PROVE SafeInv'
  <2> DEFINE t == Thread("journal", <<0, 0>>, pair[1], pair[2])
  <2>1. pair[1] \in Paths /\ pair[2] \in Paths
    BY MovesAssumption
  <2>2. t \in Threads /\ t.pc = "journal" /\ t.to = pair[2]
    BY <2>1, <1>t, IdleType
  <2> HIDE DEF t
  <2>3. Become(w, t) /\ files[pair[2]] = Nothing
        /\ UNCHANGED <<files, record, held, clock, origin, outrun, lost, written, clash>>
    BY <1>1 DEF MoveStart, t
  <2>4. \A p \in Paths : Aims(w, p)' => p = pair[2]
    BY <1>0, <2>2, <2>3, AimsOthers DEF Aims
  <2>5. AimInv'
    BY <1>0, <2>3, <2>4, AimsOthers DEF AimInv
  <2> QED BY <1>0, <1>b, <2>2, <2>3, <2>5 DEF SafeInv, MovesTypeOK, NothingReplaced
<1>2. CASE Journal(w)
  <2> DEFINE i == AllocateId
             t == Thread("rename", i, worker[w].from, worker[w].to)
             r == Record("moved", worker[w].from, worker[w].to)
  <2>1. i \in Ids
    BY <1>0, AllocateType
  <2>2. /\ worker[w].pc = "journal" /\ record' = [record EXCEPT ![i] = r]
        /\ Write(i) /\ Become(w, t)
        /\ UNCHANGED <<files, held, clock, origin, outrun, lost>>
    BY <1>2 DEF Journal
  <2> HIDE DEF i
  <2>3. r \in Records /\ t \in Threads /\ t.pc = "rename" /\ t.to = worker[w].to
    BY <1>0, <1>r, <1>t, <2>1
  <2> HIDE DEF t, r
  <2>4. \A p \in Paths : Aims(w, p)' => Aims(w, p)
    BY <1>0, <2>2, <2>3, AimsOthers DEF Aims
  <2>5. AimInv'
    BY <1>0, <2>2, <2>4, AimsOthers DEF AimInv
  <2> QED BY <1>0, <1>b, <1>w, <2>1, <2>2, <2>3, <2>5 DEF SafeInv, MovesTypeOK, NothingReplaced
<1>3. CASE MoveRename(w)
  <2> DEFINE p == worker[w].from
             q == worker[w].to
  <2>1. worker[w].pc = "rename" /\ Aims(w, q) /\ UNCHANGED <<record, held, clock, written, clash>>
    BY <1>3 DEF MoveRename, Aims
  <2>2. ASSUME Rename(w, p, q), origin' = [origin EXCEPT ![files[p]] = p], Become(w, Idle)
        PROVE  SafeInv'
    <3>1. Idle.pc = "idle" /\ Idle \in Threads
      BY IdleType DEF Idle, Thread
    <3>2. /\ files' \in [Paths -> Contents \cup {Nothing}] /\ outrun' \subseteq Workers
          /\ lost' = {} /\ AimInv'
      BY <1>0, <2>1, <2>2, <3>1, RenameSafe
    <3>3. origin' \in [Contents -> Paths \cup {NoPath}]
      BY <1>0, <2>2 DEF MovesTypeOK
    <3> QED BY <1>0, <1>b, <2>1, <2>2, <3>1, <3>2, <3>3 DEF SafeInv, MovesTypeOK, NothingReplaced
  <2>3. ASSUME Goto(w, "forget"), outrun' = outrun \ {w}, UNCHANGED <<files, origin, lost>>
        PROVE  SafeInv'
    <3> DEFINE t == Thread("forget", worker[w].id, p, q)
    <3>1. t \in Threads /\ t.pc = "forget" /\ Become(w, t)
      BY <1>0, <1>t, <2>3 DEF Goto
    <3> HIDE DEF t
    <3>2. AimInv'
      BY <2>3, <3>1, AimLeft
    <3> QED BY <1>0, <1>b, <2>1, <2>3, <3>1, <3>2 DEF SafeInv, MovesTypeOK, NothingReplaced
  <2> QED BY <1>3, <2>2, <2>3 DEF MoveRename
<1>4. CASE Forget(w)
  <2>1. Idle.pc = "idle" /\ Idle \in Threads /\ NoRecord \in Records
    BY IdleType DEF Idle, Thread
  <2>2. AimInv'
    BY <1>4, <2>1, AimLeft DEF Forget
  <2> QED BY <1>0, <1>4, <1>b, <2>1, <2>2 DEF Forget, SafeInv, MovesTypeOK, NothingReplaced
<1>5. ASSUME NEW i \in Ids, UndoStart(w, i) PROVE SafeInv'
  <2> DEFINE t == Thread("putback", i, record[i].from, record[i].to)
  <2>1. record[i].from \in Paths /\ record[i].to \in Paths
    BY <1>0 DEF MovesTypeOK, Records
  <2>2. t \in Threads /\ t.pc = "putback" /\ t.from = record[i].from
    BY <2>1, <1>t
  <2> HIDE DEF t
  <2>3. Become(w, t) /\ files[record[i].from] = Nothing
        /\ UNCHANGED <<files, record, held, clock, origin, outrun, lost, written, clash>>
    BY <1>5 DEF UndoStart, t
  <2>4. \A p \in Paths : Aims(w, p)' => p = record[i].from
    BY <1>0, <2>2, <2>3, AimsOthers DEF Aims
  <2>5. AimInv'
    BY <1>0, <2>3, <2>4, AimsOthers DEF AimInv
  <2> QED BY <1>0, <1>b, <2>2, <2>3, <2>5 DEF SafeInv, MovesTypeOK, NothingReplaced
<1>6. CASE PutBack(w)
  <2> DEFINE p == worker[w].from
             q == worker[w].to
             back == [c \in Contents |->
                        IF c = files[q] /\ origin[c] = p THEN NoPath ELSE origin[c]]
  <2>1. worker[w].pc = "putback" /\ Aims(w, p) /\ UNCHANGED <<record, held, clock, written, clash>>
    BY <1>6 DEF PutBack, Aims
  <2>2. ASSUME Rename(w, q, p), origin' = back, Goto(w, "mark")
        PROVE  SafeInv'
    <3> DEFINE t == Thread("mark", worker[w].id, p, q)
    <3>1. t \in Threads /\ t.pc = "mark" /\ Become(w, t)
      BY <1>0, <1>t, <2>2 DEF Goto
    <3> HIDE DEF t
    <3>2. /\ files' \in [Paths -> Contents \cup {Nothing}] /\ outrun' \subseteq Workers
          /\ lost' = {} /\ AimInv'
      BY <1>0, <2>1, <2>2, <3>1, RenameSafe
    <3>3. origin' \in [Contents -> Paths \cup {NoPath}]
      BY <1>0, <2>2 DEF MovesTypeOK
    <3> QED BY <1>0, <1>b, <2>1, <2>2, <3>1, <3>2, <3>3 DEF SafeInv, MovesTypeOK, NothingReplaced
  <2>3. ASSUME Become(w, Idle), outrun' = outrun \ {w}, UNCHANGED <<files, origin, lost>>
        PROVE  SafeInv'
    <3>1. Idle.pc = "idle" /\ Idle \in Threads
      BY IdleType DEF Idle, Thread
    <3>2. AimInv'
      BY <2>3, <3>1, AimLeft
    <3> QED BY <1>0, <1>b, <2>1, <2>3, <3>1, <3>2 DEF SafeInv, MovesTypeOK, NothingReplaced
  <2> QED BY <1>6, <2>2, <2>3 DEF PutBack
<1>7. CASE Mark(w)
  <2>1. Idle.pc = "idle" /\ Idle \in Threads /\ Record("undone", worker[w].from, worker[w].to) \in Records
    BY <1>0, <1>r, IdleType DEF Idle, Thread
  <2>2. AimInv'
    BY <1>7, <2>1, AimLeft DEF Mark
  <2> QED BY <1>0, <1>7, <1>b, <2>1, <2>2 DEF Mark, SafeInv, MovesTypeOK, NothingReplaced
<1>8. CASE TornWrite(w)
  <2>1. /\ Idle.pc = "idle" /\ Idle \in Threads /\ TornRecord \in Records /\ AllocateId \in Ids
        /\ Become(w, Idle) /\ outrun' = outrun \ {w}
        /\ UNCHANGED <<files, held, clock, origin, lost>>
    BY <1>0, <1>8, IdleType, AllocateType DEF Idle, Thread, TornWrite
  <2>2. AimInv'
    BY <2>1, AimLeft
  <2>3. record' \in [Ids -> Records] /\ written' \subseteq Ids /\ clash' \in BOOLEAN
    BY <1>0, <1>8, <1>w, <2>1 DEF TornWrite, MovesTypeOK
  <2> QED BY <1>0, <1>b, <2>1, <2>2, <2>3 DEF SafeInv, MovesTypeOK, NothingReplaced
<1> QED BY <1>1, <1>2, <1>3, <1>4, <1>5, <1>6, <1>7, <1>8 DEF Step

\* The initial states are safe.
LEMMA InitSafe == Init => SafeInv
<1> SUFFICES ASSUME Init PROVE SafeInv
  OBVIOUS
<1>1. MovesTypeOK
  <2>1. clock \in 0 .. MaxTime
    BY MovesAssumption DEF Init
  <2>2. record \in [Ids -> Records] /\ worker \in [Workers -> Threads]
    BY IdleType DEF Init
  <2>3. /\ files \in [Paths -> Contents \cup {Nothing}]
        /\ origin \in [Contents -> Paths \cup {NoPath}]
    BY DEF Init
  <2> QED BY <2>1, <2>2, <2>3 DEF Init, MovesTypeOK
<1>2. \A w \in Workers, p \in Paths : files[p] = Nothing
  BY DEF Init
<1>3. AimInv
  BY <1>2 DEF AimInv
<1>4. NothingReplaced
  BY DEF Init, NothingReplaced
<1> QED BY <1>1, <1>3, <1>4 DEF SafeInv

\* Every step is safe.
LEMMA NextSafe == SafeInv /\ [Next]_vars => SafeInv'
<1> SUFFICES ASSUME SafeInv, [Next]_vars PROVE SafeInv'
  OBVIOUS
<1>0. MovesTypeOK /\ lost = {} /\ AimInv
  BY DEF SafeInv, NothingReplaced
<1>1. CASE UNCHANGED vars
  BY <1>1 DEF vars, SafeInv, MovesTypeOK, NothingReplaced, AimInv, Aims
<1>2. ASSUME NEW c \in Contents, NEW p \in Paths, Appear(c, p) PROVE SafeInv'
  <2>1. /\ files' = [files EXCEPT ![p] = c] /\ outrun' = outrun \cup Outrun(p)
        /\ UNCHANGED <<record, held, worker, clock, origin, lost, written, clash>>
    BY <1>2 DEF Appear
  <2>2. AimInv'
    BY <1>0, <2>1 DEF AimInv, Aims, Outrun, MovesTypeOK
  <2> QED BY <1>0, <2>1, <2>2 DEF SafeInv, MovesTypeOK, NothingReplaced, Outrun
<1>3. ASSUME NEW p \in Deletable, UserDeletes(p) PROVE SafeInv'
  <2>1. p \in Paths /\ files' = [files EXCEPT ![p] = Nothing]
        /\ UNCHANGED <<record, held, worker, clock, origin, outrun, lost, written, clash>>
    BY <1>3, MovesAssumption DEF UserDeletes
  <2>2. AimInv'
    BY <1>0, <2>1 DEF AimInv, Aims, MovesTypeOK
  <2> QED BY <1>0, <2>1, <2>2 DEF SafeInv, MovesTypeOK, NothingReplaced
<1>4. CASE Crash
  <2>1. worker' = [w \in Workers |-> Idle] /\ Idle \in Threads /\ Idle.pc = "idle"
    BY <1>4, IdleType DEF Crash, Idle, Thread
  <2>2. AimInv'
    BY <2>1 DEF AimInv, Aims
  <2> QED BY <1>0, <1>4, <2>1, <2>2 DEF Crash, SafeInv, MovesTypeOK, NothingReplaced
<1>5. CASE Tick
  BY <1>0, <1>5, MovesAssumption DEF Tick, SafeInv, MovesTypeOK, NothingReplaced, AimInv, Aims
<1>6. ASSUME NEW i \in Ids, HeldChanges(i) PROVE SafeInv'
  BY <1>0, <1>6 DEF HeldChanges, SafeInv, MovesTypeOK, NothingReplaced, AimInv, Aims
<1> QED BY <1>1, <1>2, <1>3, <1>4, <1>5, <1>6, StepSafe DEF Next, Environment

\* For any threads, paths and files, whatever interleaves and wherever the
\* agent dies, neither a move nor an undo replaces a file it could have seen.
THEOREM MovesAreSafeAlways == Spec => []MovesAreSafe
<1>1. SafeInv => MovesAreSafe
  BY DEF SafeInv, MovesAreSafe
<1> QED BY <1>1, InitSafe, NextSafe, PTL DEF Spec

-----------------------------------------------------------------------------
(* The trail.                                                              *)

\* No two files that may be moved share the name they are moved to.
OneSourceEach ==
    /\ \A x, y \in Pairs : x[2] = y[2] => x[1] = y[1]
    /\ \A x \in Pairs : x[1] # x[2]

\* A file is in one place.
UniqueInv == \A x, y \in Paths : files[x] = files[y] /\ files[x] # Nothing => x = y

\* A record that is there was written under an id of its own, and says of a
\* move what check_movable let through.
JournalInv ==
    \A i \in Ids :
        /\ record[i].label # "none" => i \in written
        /\ record[i].label = "moved" => <<record[i].from, record[i].to>> \in Pairs

\* A thread goes by the record it wrote or read.
ThreadInv ==
    \A w \in Workers :
        /\ worker[w].pc # "idle" => <<worker[w].from, worker[w].to>> \in Pairs
        /\ worker[w].pc \in {"rename", "forget", "putback", "mark"} => worker[w].id \in written
        /\ worker[w].pc = "rename" =>
              record[worker[w].id] = Record("moved", worker[w].from, worker[w].to)
        /\ worker[w].pc \in {"putback", "mark"} /\ record[worker[w].id].label = "moved" =>
              record[worker[w].id] = Record("moved", worker[w].from, worker[w].to)

\* Two moves under way have two ids.
DistinctInv ==
    \A v, w \in Workers :
        /\ worker[v].pc \in {"rename", "forget"} /\ worker[w].pc \in {"rename", "forget"}
        /\ worker[v].id = worker[w].id
        => v = w

\* A record of a move that nobody is about to change.
Settled(i, o, x) ==
    /\ record[i] = Record("moved", o, x)
    /\ \A w \in Workers : worker[w].pc \in {"rename", "forget", "mark"} => worker[w].id # i

\* A moved file has such a record.
FileInv ==
    \A x \in Paths :
        files[x] # Nothing /\ origin[files[x]] # NoPath =>
            /\ <<origin[files[x]], x>> \in Pairs
            /\ \E i \in Ids : Settled(i, origin[files[x]], x)

TrailInv ==
    /\ UniqueInv /\ JournalInv /\ ThreadInv /\ DistinctInv /\ FileInv /\ ~EarlyUndo

\* What holds before a step that keeps the trail.
Before == SafeInv /\ TrailInv /\ OneSourceEach

\* A thread's own step leaves the other threads alone.
LEMMA OthersStay ==
  ASSUME Before, NEW w \in Workers, NEW t, Become(w, t)
  PROVE  worker'[w] = t /\ \A v \in Workers \ {w} : worker'[v] = worker[v]
BY AimsOthers DEF Before, SafeInv

\* Moved files keep their records when no file moves and no settled record is
\* touched.
LEMMA FileKept ==
  ASSUME Before, files' = files, origin' = origin,
         \A i \in Ids, o \in Paths, x \in Paths : Settled(i, o, x) => Settled(i, o, x)'
  PROVE  FileInv'
<1> SUFFICES ASSUME NEW x \in Paths, files[x] # Nothing, origin[files[x]] # NoPath
             PROVE  /\ <<origin[files[x]], x>> \in Pairs
                    /\ \E i \in Ids : Settled(i, origin[files[x]], x)'
  BY DEF FileInv
<1>1. PICK o \in Paths : o = origin[files[x]]
  BY DEF Before, SafeInv, MovesTypeOK
<1>2. <<o, x>> \in Pairs /\ \E i \in Ids : Settled(i, o, x)
  BY <1>1 DEF Before, TrailInv, FileInv
<1>3. \E i \in Ids : Settled(i, o, x)'
  BY <1>2
<1> QED BY <1>1, <1>2, <1>3 DEF Settled

\* A step of one thread that writes at most one record, under an id no move
\* has settled and nobody else goes by.
LEMMA RecordWritten ==
  ASSUME Before, NEW w \in Workers, NEW t \in Threads, Become(w, t), NEW i \in Ids, NEW r \in Records,
         record' = [record EXCEPT ![i] = r], files' = files, origin' = origin,
         \A o, x \in Paths : ~Settled(i, o, x),
         t.pc \in {"rename", "forget", "mark"} => \A o, x \in Paths : ~Settled(t.id, o, x)
  PROVE  FileInv' /\ UniqueInv'
<1>1. worker'[w] = t /\ \A v \in Workers \ {w} : worker'[v] = worker[v]
  BY OthersStay
<1>2. \A j \in Ids \ {i} : record'[j] = record[j]
  BY DEF Before, SafeInv, MovesTypeOK
<1>3. ASSUME NEW j \in Ids, NEW o \in Paths, NEW x \in Paths, Settled(j, o, x)
      PROVE  Settled(j, o, x)'
  <2>1. j # i
    BY <1>3
  <2>2. t.pc \in {"rename", "forget", "mark"} => t.id # j
    BY <1>3
  <2> QED BY <1>1, <1>2, <1>3, <2>1, <2>2 DEF Settled
<1>4. FileInv'
  BY <1>3, FileKept
<1>5. UniqueInv'
  BY DEF Before, TrailInv, UniqueInv
<1> QED BY <1>4, <1>5

\* A step of one thread that writes no record and moves no file.
LEMMA ThreadMoved ==
  ASSUME Before, NEW w \in Workers, NEW t \in Threads, Become(w, t),
         record' = record, files' = files, origin' = origin,
         t.pc \in {"rename", "forget", "mark"} => \A o, x \in Paths : ~Settled(t.id, o, x)
  PROVE  FileInv' /\ UniqueInv'
<1>1. worker'[w] = t /\ \A v \in Workers \ {w} : worker'[v] = worker[v]
  BY OthersStay
<1>3. ASSUME NEW j \in Ids, NEW o \in Paths, NEW x \in Paths, Settled(j, o, x)
      PROVE  Settled(j, o, x)'
  <2>2. t.pc \in {"rename", "forget", "mark"} => t.id # j
    BY <1>3
  <2> QED BY <1>1, <1>3, <2>2 DEF Settled
<1>4. FileInv'
  BY <1>3, FileKept
<1>5. UniqueInv'
  BY DEF Before, TrailInv, UniqueInv
<1> QED BY <1>4, <1>5

\* The three parts of the invariant about records and threads.
LedgerInv == JournalInv /\ ThreadInv /\ DistinctInv

\* The steps of move_file keep the trail.
LEMMA MoveTrail ==
  ASSUME Before, NEW w \in Workers, ~clash',
         \/ \E pair \in Pairs : MoveStart(w, pair[1], pair[2])
         \/ Journal(w) \/ MoveRename(w) \/ Forget(w)
  PROVE  UniqueInv' /\ LedgerInv' /\ FileInv'
<1>0. /\ MovesTypeOK /\ UniqueInv /\ JournalInv /\ ThreadInv /\ DistinctInv /\ FileInv /\ ~EarlyUndo
      /\ OneSourceEach /\ worker[w] \in Threads /\ worker[w].id \in Ids
      /\ worker[w].from \in Paths /\ worker[w].to \in Paths
  BY DEF Before, SafeInv, TrailInv, MovesTypeOK, Threads
<1>i. Idle \in Threads /\ Idle.pc = "idle" /\ NoRecord \in Records /\ NoRecord.label = "none"
  BY IdleType DEF Idle, Thread, NoRecord, Record
<1>t. ASSUME NEW pc \in {"idle", "journal", "rename", "forget", "putback", "mark"},
             NEW i \in Ids, NEW p \in Paths, NEW q \in Paths
      PROVE  /\ Thread(pc, i, p, q) \in Threads /\ Thread(pc, i, p, q).pc = pc
             /\ Thread(pc, i, p, q).from = p /\ Thread(pc, i, p, q).to = q
             /\ Thread(pc, i, p, q).id = i
  BY DEF Thread, Threads
<1>1. ASSUME NEW pair \in Pairs, MoveStart(w, pair[1], pair[2])
      PROVE  UniqueInv' /\ LedgerInv' /\ FileInv'
  <2> DEFINE t == Thread("journal", <<0, 0>>, pair[1], pair[2])
  <2>1. pair[1] \in Paths /\ pair[2] \in Paths /\ pair = <<pair[1], pair[2]>>
    BY MovesAssumption
  <2>2. t \in Threads /\ t.pc = "journal" /\ t.to = pair[2] /\ t.from = pair[1]
    BY <2>1, <1>t, IdleType
  <2> HIDE DEF t
  <2>3. Become(w, t) /\ UNCHANGED <<files, record, origin, written>>
    BY <1>1 DEF MoveStart, t
  <2>4. worker'[w] = t /\ \A v \in Workers \ {w} : worker'[v] = worker[v]
    BY <2>3, OthersStay
  <2>5. FileInv' /\ UniqueInv'
    BY <2>2, <2>3, ThreadMoved
  <2>6. JournalInv'
    BY <1>0, <2>3 DEF JournalInv
  <2>7. ThreadInv'
    BY <1>0, <2>1, <2>2, <2>3, <2>4 DEF ThreadInv
  <2>8. DistinctInv'
    BY <1>0, <2>2, <2>4 DEF DistinctInv
  <2> QED BY <2>5, <2>6, <2>7, <2>8 DEF LedgerInv
<1>2. CASE Journal(w)
  <2>1. PICK i \in Ids : i = AllocateId
    BY <1>0, AllocateType
  <2> DEFINE t == Thread("rename", i, worker[w].from, worker[w].to)
             r == Record("moved", worker[w].from, worker[w].to)
  <2>2. /\ worker[w].pc = "journal" /\ record' = [record EXCEPT ![i] = r]
        /\ Become(w, t) /\ written' = written \cup {i} /\ i \notin written
        /\ UNCHANGED <<files, origin>>
    BY <1>2, <2>1 DEF Journal, Write
  <2>3. /\ r \in Records /\ r.label = "moved" /\ r.from = worker[w].from /\ r.to = worker[w].to
        /\ t \in Threads /\ t.pc = "rename" /\ t.id = i
        /\ t.from = worker[w].from /\ t.to = worker[w].to
    BY <1>0, <1>t DEF Record, Records
  <2>4. /\ worker'[w] = t /\ \A v \in Workers \ {w} : worker'[v] = worker[v]
        /\ record'[i] = r /\ \A j \in Ids \ {i} : record'[j] = record[j]
        /\ record'[i] = Record("moved", t.from, t.to)
    BY <1>0, <2>2, <2>3, OthersStay DEF MovesTypeOK
  <2>5. record[i].label = "none"
    BY <1>0, <2>2 DEF JournalInv
  <2>6. \A o, x \in Paths : ~Settled(i, o, x)
    BY <2>5 DEF Settled, Record
  <2>7. <<t.from, t.to>> \in Pairs /\ <<r.from, r.to>> \in Pairs
    BY <1>0, <2>2, <2>3 DEF ThreadInv
  <2> HIDE DEF t, r
  <2>8. FileInv' /\ UniqueInv'
    BY <2>2, <2>3, <2>6, RecordWritten
  <2>9. JournalInv'
    BY <1>0, <2>2, <2>3, <2>4, <2>7 DEF JournalInv
  <2>10. ASSUME NEW v \in Workers \ {w},
                worker[v].pc \in {"rename", "forget", "putback", "mark"}
         PROVE  worker[v].id \in Ids \ {i} /\ worker[v].id \in written
    BY <1>0, <2>2, <2>10 DEF ThreadInv, MovesTypeOK
  <2>11. ThreadInv'
    BY <1>0, <2>2, <2>3, <2>4, <2>7, <2>10 DEF ThreadInv
  <2>12. DistinctInv'
    BY <1>0, <2>3, <2>4, <2>10 DEF DistinctInv
  <2> QED BY <2>8, <2>9, <2>11, <2>12 DEF LedgerInv
<1>3. CASE MoveRename(w)
  <2>1. PICK p \in Paths, q \in Paths, i \in Ids :
            p = worker[w].from /\ q = worker[w].to /\ i = worker[w].id
    BY <1>0
  <2>2. /\ worker[w].pc = "rename" /\ UNCHANGED <<record, written>>
        /\ <<p, q>> \in Pairs /\ p # q /\ record[i] = Record("moved", p, q) /\ i \in written
    <3>1. worker[w].pc = "rename" /\ UNCHANGED <<record, written>>
      BY <1>3 DEF MoveRename
    <3>2. <<p, q>> \in Pairs /\ record[i] = Record("moved", p, q) /\ i \in written
      BY <1>0, <2>1, <3>1 DEF ThreadInv
    <3>3. <<p, q>>[1] # <<p, q>>[2]
      BY <1>0, <3>2 DEF OneSourceEach
    <3> QED BY <3>1, <3>2, <3>3
  <2>3. ASSUME NEW v \in Workers \ {w}, worker[v].pc \in {"rename", "forget", "mark"}
        PROVE  worker[v].id # i
    BY <1>0, <2>1, <2>2, <2>3 DEF DistinctInv, EarlyUndo
  <2>4. ASSUME Rename(w, p, q), origin' = [origin EXCEPT ![files[p]] = p], Become(w, Idle)
        PROVE  UniqueInv' /\ LedgerInv' /\ FileInv'
    <3>1. worker'[w] = Idle /\ \A v \in Workers \ {w} : worker'[v] = worker[v]
      BY <2>4, OthersStay
    <3>2. PICK c \in Contents : c = files[p]
      BY <1>0, <2>4 DEF Rename, MovesTypeOK
    <3>3. /\ files'[q] = c /\ files'[p] = Nothing
          /\ \A x \in Paths \ {p, q} : files'[x] = files[x]
      BY <1>0, <2>2, <2>4, <3>2 DEF Rename, MovesTypeOK
    <3>4. origin'[c] = p /\ \A d \in Contents \ {c} : origin'[d] = origin[d]
      BY <1>0, <2>4, <3>2 DEF MovesTypeOK
    <3>5. c # Nothing /\ \A x \in Paths \ {p, q} : files[x] # c
      BY <1>0, <3>2, MovesAssumption DEF UniqueInv
    <3>6. UniqueInv'
      <4> SUFFICES ASSUME NEW x \in Paths, NEW y \in Paths, files'[x] = files'[y], files'[x] # Nothing
                   PROVE  x = y
        BY DEF UniqueInv
      <4>1. x # p /\ y # p
        BY <3>3
      <4>2. CASE x = q \/ y = q
        BY <3>3, <3>5, <4>1, <4>2
      <4>3. CASE x # q /\ y # q
        BY <1>0, <3>3, <4>1, <4>3 DEF UniqueInv
      <4> QED BY <4>2, <4>3
    <3>7. \A j \in Ids, o \in Paths, x \in Paths : Settled(j, o, x) => Settled(j, o, x)'
      BY <1>i, <2>2, <3>1 DEF Settled
    <3>8. Settled(i, p, q)'
      BY <1>i, <2>2, <2>3, <3>1 DEF Settled
    <3>9. FileInv'
      <4> SUFFICES ASSUME NEW x \in Paths, files'[x] # Nothing, origin'[files'[x]] # NoPath
                   PROVE  /\ <<origin'[files'[x]], x>> \in Pairs
                          /\ \E j \in Ids : Settled(j, origin[files[x]], x)'
        BY DEF FileInv
      <4>1. CASE x = q
        <5>1. origin'[files'[x]] = p
          BY <3>3, <3>4, <4>1
        <5>2. \E j \in Ids : Settled(j, p, x)'
          BY <3>8, <4>1
        <5> QED BY <2>2, <4>1, <5>1, <5>2 DEF Settled
      <4>2. CASE x # q
        <5>1. x # p /\ files'[x] = files[x] /\ files[x] \in Contents \ {c}
          BY <1>0, <3>3, <3>5, <4>2 DEF MovesTypeOK
        <5>2. PICK o \in Paths : o = origin'[files'[x]] /\ o = origin[files[x]]
          BY <1>0, <3>4, <5>1 DEF MovesTypeOK
        <5>3. <<o, x>> \in Pairs /\ \E j \in Ids : Settled(j, o, x)
          BY <1>0, <5>1, <5>2, MovesAssumption DEF FileInv
        <5>4. \E j \in Ids : Settled(j, o, x)'
          BY <5>3, <3>7
        <5> QED BY <5>2, <5>3, <5>4 DEF Settled
      <4> QED BY <4>1, <4>2
    <3>10. JournalInv' /\ ThreadInv' /\ DistinctInv'
      <4>1. JournalInv'
        BY <1>0, <2>2 DEF JournalInv
      <4>2. ThreadInv'
        BY <1>0, <1>i, <2>2, <3>1 DEF ThreadInv
      <4>3. DistinctInv'
        BY <1>0, <1>i, <3>1 DEF DistinctInv
      <4> QED BY <4>1, <4>2, <4>3
    <3> QED BY <3>6, <3>9, <3>10 DEF LedgerInv
  <2>5. ASSUME Goto(w, "forget"), UNCHANGED <<files, origin>>
        PROVE  UniqueInv' /\ LedgerInv' /\ FileInv'
    <3> DEFINE t == Thread("forget", i, p, q)
    <3>1. t \in Threads /\ t.pc = "forget" /\ t.id = i /\ t.from = p /\ t.to = q /\ Become(w, t)
      BY <1>t, <2>1, <2>5 DEF Goto
    <3> HIDE DEF t
    <3>2. worker'[w] = t /\ \A v \in Workers \ {w} : worker'[v] = worker[v]
      BY <3>1, OthersStay
    <3>3. \A o, x \in Paths : ~Settled(i, o, x)
      BY <2>1, <2>2 DEF Settled
    <3>4. FileInv' /\ UniqueInv'
      BY <2>2, <2>5, <3>1, <3>3, ThreadMoved
    <3>5. JournalInv'
      BY <1>0, <2>2 DEF JournalInv
    <3>6. ThreadInv'
      BY <1>0, <2>2, <3>1, <3>2 DEF ThreadInv
    <3>7. DistinctInv'
      BY <1>0, <2>1, <2>2, <2>3, <3>1, <3>2 DEF DistinctInv
    <3> QED BY <3>4, <3>5, <3>6, <3>7 DEF LedgerInv
  <2> QED BY <1>3, <2>1, <2>4, <2>5 DEF MoveRename
<1>4. CASE Forget(w)
  <2>1. PICK i \in Ids : i = worker[w].id
    BY <1>0
  <2>2. /\ worker[w].pc = "forget" /\ Become(w, Idle) /\ UNCHANGED <<files, origin, written>>
        /\ record' = [record EXCEPT ![i] = NoRecord]
    BY <1>4, <2>1 DEF Forget
  <2>3. /\ worker'[w] = Idle /\ \A v \in Workers \ {w} : worker'[v] = worker[v]
        /\ record'[i].label = "none" /\ \A j \in Ids \ {i} : record'[j] = record[j]
    BY <1>0, <1>i, <2>2, OthersStay DEF MovesTypeOK
  <2>4. \A o, x \in Paths : ~Settled(i, o, x)
    BY <2>1, <2>2 DEF Settled
  <2>5. FileInv' /\ UniqueInv'
    BY <1>i, <2>2, <2>4, RecordWritten
  <2>6. JournalInv'
    BY <1>0, <2>2, <2>3 DEF JournalInv
  <2>7. \A v \in Workers \ {w} : worker[v].id \in Ids /\ (worker[v].pc = "rename" => worker[v].id # i)
    BY <1>0, <2>1, <2>2 DEF DistinctInv, MovesTypeOK, Threads
  <2>8. ThreadInv'
    BY <1>0, <1>i, <2>2, <2>3, <2>7 DEF ThreadInv
  <2>9. DistinctInv'
    BY <1>0, <1>i, <2>3 DEF DistinctInv
  <2> QED BY <2>5, <2>6, <2>8, <2>9 DEF LedgerInv
<1> QED BY <1>1, <1>2, <1>3, <1>4

\* The steps of undo_move keep the trail, and so does a write that stops.
LEMMA UndoTrail ==
  ASSUME Before, NEW w \in Workers, ~clash',
         (\E i \in Ids : UndoStart(w, i)) \/ PutBack(w) \/ Mark(w) \/ TornWrite(w)
  PROVE  UniqueInv' /\ LedgerInv' /\ FileInv'
<1>0. /\ MovesTypeOK /\ UniqueInv /\ JournalInv /\ ThreadInv /\ DistinctInv /\ FileInv /\ ~EarlyUndo
      /\ OneSourceEach /\ worker[w] \in Threads /\ worker[w].id \in Ids
      /\ worker[w].from \in Paths /\ worker[w].to \in Paths
  BY DEF Before, SafeInv, TrailInv, MovesTypeOK, Threads
<1>i. /\ Idle \in Threads /\ Idle.pc = "idle" /\ TornRecord \in Records
      /\ TornRecord.label = "torn"
  BY IdleType DEF Idle, Thread, TornRecord, Record
<1>t. ASSUME NEW pc \in {"idle", "journal", "rename", "forget", "putback", "mark"},
             NEW i \in Ids, NEW p \in Paths, NEW q \in Paths
      PROVE  /\ Thread(pc, i, p, q) \in Threads /\ Thread(pc, i, p, q).pc = pc
             /\ Thread(pc, i, p, q).from = p /\ Thread(pc, i, p, q).to = q
             /\ Thread(pc, i, p, q).id = i
  BY DEF Thread, Threads
<1>1. ASSUME NEW i \in Ids, UndoStart(w, i)
      PROVE  UniqueInv' /\ LedgerInv' /\ FileInv'
  <2>1. PICK p \in Paths, q \in Paths : record[i] = Record("moved", p, q)
    BY <1>0, <1>1 DEF UndoStart, MovesTypeOK, Records, Record
  <2>2. record[i].from = p /\ record[i].to = q /\ record[i].label = "moved"
    BY <2>1 DEF Record
  <2> DEFINE t == Thread("putback", i, p, q)
  <2>3. t \in Threads /\ t.pc = "putback" /\ t.id = i /\ t.from = p /\ t.to = q
    BY <1>t
  <2>4. Become(w, t) /\ UNCHANGED <<files, record, origin, written>>
    BY <1>1, <2>2 DEF UndoStart
  <2> HIDE DEF t
  <2>5. worker'[w] = t /\ \A v \in Workers \ {w} : worker'[v] = worker[v]
    BY <2>4, OthersStay
  <2>6. FileInv' /\ UniqueInv'
    BY <2>3, <2>4, ThreadMoved
  <2>7. JournalInv'
    BY <1>0, <2>4 DEF JournalInv
  <2>8. <<p, q>> \in Pairs /\ i \in written
    BY <1>0, <2>2 DEF JournalInv
  <2>9. ThreadInv'
    BY <1>0, <2>1, <2>3, <2>4, <2>5, <2>8 DEF ThreadInv
  <2>10. DistinctInv'
    BY <1>0, <2>3, <2>5 DEF DistinctInv
  <2> QED BY <2>6, <2>7, <2>9, <2>10 DEF LedgerInv
<1>2. CASE PutBack(w)
  <2>1. PICK p \in Paths, q \in Paths, i \in Ids :
            p = worker[w].from /\ q = worker[w].to /\ i = worker[w].id
    BY <1>0
  <2>2. /\ worker[w].pc = "putback" /\ UNCHANGED <<record, written>>
        /\ <<p, q>> \in Pairs /\ p # q /\ i \in written
        /\ record[i].label = "moved" => record[i] = Record("moved", p, q)
    <3>1. worker[w].pc = "putback" /\ UNCHANGED <<record, written>>
      BY <1>2 DEF PutBack
    <3>2. /\ <<p, q>> \in Pairs /\ i \in written
          /\ record[i].label = "moved" => record[i] = Record("moved", p, q)
      BY <1>0, <2>1, <3>1 DEF ThreadInv
    <3>3. <<p, q>>[1] # <<p, q>>[2]
      BY <1>0, <3>2 DEF OneSourceEach
    <3> QED BY <3>1, <3>2, <3>3
  <2>3. ASSUME Rename(w, q, p), Goto(w, "mark"),
               origin' = [c \in Contents |->
                            IF c = files[q] /\ origin[c] = p THEN NoPath ELSE origin[c]]
        PROVE  UniqueInv' /\ LedgerInv' /\ FileInv'
    <3> DEFINE t == Thread("mark", i, p, q)
    <3>1. t \in Threads /\ t.pc = "mark" /\ t.id = i /\ t.from = p /\ t.to = q /\ Become(w, t)
      BY <1>t, <2>1, <2>3 DEF Goto
    <3> HIDE DEF t
    <3>2. worker'[w] = t /\ \A v \in Workers \ {w} : worker'[v] = worker[v]
      BY <3>1, OthersStay
    <3>3. PICK c \in Contents : c = files[q]
      BY <1>0, <2>3 DEF Rename, MovesTypeOK
    <3>4. /\ files'[p] = c /\ files'[q] = Nothing
          /\ \A x \in Paths \ {p, q} : files'[x] = files[x]
      BY <1>0, <2>2, <2>3, <3>3 DEF Rename, MovesTypeOK
    <3>5. c # Nothing /\ \A x \in Paths \ {p, q} : files[x] # c
      BY <1>0, <3>3, MovesAssumption DEF UniqueInv
    <3>6. origin'[c] = NoPath /\ \A d \in Contents \ {c} : origin'[d] = origin[d]
      <4>1. origin[c] # NoPath => origin[c] = p
        <5> SUFFICES ASSUME origin[c] # NoPath PROVE origin[c] = p
          OBVIOUS
        <5>1. <<origin[c], q>> \in Pairs
          BY <1>0, <3>3, <3>5 DEF FileInv
        <5>2. <<origin[c], q>>[1] = <<p, q>>[1]
          BY <1>0, <2>2, <5>1 DEF OneSourceEach
        <5> QED BY <5>2
      <4> QED BY <2>3, <3>3, <4>1
    <3>7. UniqueInv'
      <4> SUFFICES ASSUME NEW x \in Paths, NEW y \in Paths, files'[x] = files'[y], files'[x] # Nothing
                   PROVE  x = y
        BY DEF UniqueInv
      <4>1. x # q /\ y # q
        BY <3>4
      <4>2. CASE x = p \/ y = p
        BY <3>4, <3>5, <4>1, <4>2
      <4>3. CASE x # p /\ y # p
        BY <1>0, <3>4, <4>1, <4>3 DEF UniqueInv
      <4> QED BY <4>2, <4>3
    <3>8. ASSUME NEW j \in Ids, NEW o \in Paths, NEW x \in Paths \ {q}, Settled(j, o, x)
          PROVE  Settled(j, o, x)'
      <4>1. j # i
        BY <2>2, <3>8 DEF Settled, Record
      <4> QED BY <2>2, <3>1, <3>2, <3>8, <4>1 DEF Settled
    <3>9. FileInv'
      <4> SUFFICES ASSUME NEW x \in Paths, files'[x] # Nothing, origin'[files'[x]] # NoPath
                   PROVE  /\ <<origin'[files'[x]], x>> \in Pairs
                          /\ \E j \in Ids : Settled(j, origin[files[x]], x)'
        BY DEF FileInv
      <4>1. x # q /\ x # p
        BY <3>4, <3>6
      <4>2. files'[x] = files[x] /\ files[x] \in Contents \ {c}
        BY <1>0, <3>4, <3>5, <4>1 DEF MovesTypeOK
      <4>3. PICK o \in Paths : o = origin'[files'[x]] /\ o = origin[files[x]]
        BY <1>0, <3>6, <4>2 DEF MovesTypeOK
      <4>4. <<o, x>> \in Pairs /\ \E j \in Ids : Settled(j, o, x)
        BY <1>0, <4>2, <4>3, MovesAssumption DEF FileInv
      <4>5. \E j \in Ids : Settled(j, o, x)'
        BY <3>8, <4>1, <4>4
      <4> QED BY <4>3, <4>4, <4>5 DEF Settled
    <3>10. JournalInv'
      BY <1>0, <2>2 DEF JournalInv
    <3>11. ThreadInv'
      BY <1>0, <2>2, <3>1, <3>2 DEF ThreadInv
    <3>12. DistinctInv'
      BY <1>0, <3>1, <3>2 DEF DistinctInv
    <3> QED BY <3>7, <3>9, <3>10, <3>11, <3>12 DEF LedgerInv
  <2>4. ASSUME Become(w, Idle), UNCHANGED <<files, origin>>
        PROVE  UniqueInv' /\ LedgerInv' /\ FileInv'
    <3>1. worker'[w] = Idle /\ \A v \in Workers \ {w} : worker'[v] = worker[v]
      BY <2>4, OthersStay
    <3>2. FileInv' /\ UniqueInv'
      BY <1>i, <2>2, <2>4, ThreadMoved
    <3>3. JournalInv'
      BY <1>0, <2>2 DEF JournalInv
    <3>4. ThreadInv'
      BY <1>0, <1>i, <2>2, <3>1 DEF ThreadInv
    <3>5. DistinctInv'
      BY <1>0, <1>i, <3>1 DEF DistinctInv
    <3> QED BY <3>2, <3>3, <3>4, <3>5 DEF LedgerInv
  <2> QED BY <1>2, <2>1, <2>3, <2>4 DEF PutBack
<1>3. ASSUME NEW i \in Ids, i = worker[w].id, worker[w].pc = "mark", NEW r \in Records,
             r.label \in {"undone", "torn"}, record' = [record EXCEPT ![i] = r],
             Become(w, Idle), UNCHANGED <<files, origin, written>>
      PROVE  UniqueInv' /\ LedgerInv' /\ FileInv'
  <2>1. /\ worker'[w] = Idle /\ \A v \in Workers \ {w} : worker'[v] = worker[v]
        /\ record'[i] = r /\ \A j \in Ids \ {i} : record'[j] = record[j]
    BY <1>0, <1>3, OthersStay DEF MovesTypeOK
  <2>2. \A o, x \in Paths : ~Settled(i, o, x)
    BY <1>3 DEF Settled
  <2>3. FileInv' /\ UniqueInv'
    BY <1>3, <1>i, <2>2, RecordWritten
  <2>4. i \in written
    BY <1>0, <1>3 DEF ThreadInv
  <2>5. JournalInv'
    BY <1>0, <1>3, <2>1, <2>4 DEF JournalInv
  <2>6. \A v \in Workers \ {w} : worker[v].id \in Ids /\ (worker[v].pc = "rename" => worker[v].id # i)
    BY <1>0, <1>3 DEF EarlyUndo, MovesTypeOK, Threads
  <2>7. ThreadInv'
    BY <1>0, <1>i, <1>3, <2>1, <2>6 DEF ThreadInv
  <2>8. DistinctInv'
    BY <1>0, <1>i, <2>1 DEF DistinctInv
  <2> QED BY <2>3, <2>5, <2>7, <2>8 DEF LedgerInv
<1>4. CASE Mark(w)
  <2> DEFINE r == Record("undone", worker[w].from, worker[w].to)
  <2>1. r \in Records /\ r.label = "undone"
    BY <1>0 DEF Record, Records
  <2>2. /\ worker[w].pc = "mark" /\ record' = [record EXCEPT ![worker[w].id] = r]
        /\ Become(w, Idle) /\ UNCHANGED <<files, origin, written>>
    BY <1>4 DEF Mark
  <2> HIDE DEF r
  <2> QED BY <1>0, <1>3, <2>1, <2>2
<1>5. CASE TornWrite(w)
  <2>1. Become(w, Idle) /\ UNCHANGED <<files, origin>>
    BY <1>5 DEF TornWrite
  <2>2. ASSUME worker[w].pc = "mark", record' = [record EXCEPT ![worker[w].id] = TornRecord],
               UNCHANGED <<written, clash>>
        PROVE  UniqueInv' /\ LedgerInv' /\ FileInv'
    BY <1>0, <1>3, <1>i, <2>1, <2>2
  <2>3. ASSUME worker[w].pc = "journal", record' = [record EXCEPT ![AllocateId] = TornRecord],
               Write(AllocateId)
        PROVE  UniqueInv' /\ LedgerInv' /\ FileInv'
    <3>1. PICK i \in Ids : i = AllocateId
      BY <1>0, AllocateType
    <3>2. /\ record' = [record EXCEPT ![i] = TornRecord]
          /\ written' = written \cup {i} /\ i \notin written
      BY <2>3, <3>1 DEF Write
    <3>3. /\ worker'[w] = Idle /\ \A v \in Workers \ {w} : worker'[v] = worker[v]
          /\ record'[i] = TornRecord /\ \A j \in Ids \ {i} : record'[j] = record[j]
      BY <1>0, <2>1, <3>2, OthersStay DEF MovesTypeOK
    <3>4. record[i].label = "none"
      BY <1>0, <3>2 DEF JournalInv
    <3>5. \A o, x \in Paths : ~Settled(i, o, x)
      BY <3>4 DEF Settled, Record
    <3>6. FileInv' /\ UniqueInv'
      BY <1>i, <2>1, <3>2, <3>5, RecordWritten
    <3>7. JournalInv'
      BY <1>0, <1>i, <3>2, <3>3 DEF JournalInv
    <3>8. ASSUME NEW v \in Workers \ {w},
                 worker[v].pc \in {"rename", "forget", "putback", "mark"}
          PROVE  worker[v].id \in Ids \ {i} /\ worker[v].id \in written
      BY <1>0, <3>2, <3>8 DEF ThreadInv, MovesTypeOK
    <3>9. ThreadInv'
      BY <1>0, <1>i, <3>2, <3>3, <3>8 DEF ThreadInv
    <3>10. DistinctInv'
      BY <1>0, <1>i, <3>3 DEF DistinctInv
    <3> QED BY <3>6, <3>7, <3>9, <3>10 DEF LedgerInv
  <2> QED BY <1>5, <2>2, <2>3 DEF TornWrite
<1> QED BY <1>1, <1>2, <1>4, <1>5

\* What the machine does keeps the trail.
LEMMA MachineTrail ==
  ASSUME Before, Environment \/ Crash \/ Tick \/ \E i \in Ids : HeldChanges(i)
  PROVE  UniqueInv' /\ LedgerInv' /\ FileInv'
<1>0. /\ MovesTypeOK /\ UniqueInv /\ JournalInv /\ ThreadInv /\ DistinctInv /\ FileInv
      /\ UNCHANGED <<record, origin, written>>
  BY DEF Before, SafeInv, TrailInv, Environment, Appear, UserDeletes, Crash, Tick, HeldChanges
<1>j. JournalInv'
  BY <1>0 DEF JournalInv
<1>f. ASSUME worker' = worker,
             \A x \in Paths : files'[x] # files[x] =>
                 files'[x] = Nothing \/ origin[files'[x]] = NoPath
      PROVE  FileInv' /\ ThreadInv' /\ DistinctInv'
  <2>1. ThreadInv' /\ DistinctInv'
    BY <1>0, <1>f DEF ThreadInv, DistinctInv
  <2>2. FileInv'
    BY <1>0, <1>f DEF FileInv, Settled
  <2> QED BY <2>1, <2>2
<1>1. ASSUME NEW c \in Contents, NEW p \in Paths, Appear(c, p)
      PROVE  UniqueInv' /\ LedgerInv' /\ FileInv'
  <2>1. /\ files[p] = Nothing /\ origin[c] = NoPath /\ worker' = worker
        /\ files'[p] = c /\ \A x \in Paths \ {p} : files'[x] = files[x] /\ files[x] # c
    BY <1>0, <1>1 DEF Appear, MovesTypeOK
  <2>2. UniqueInv'
    BY <1>0, <2>1 DEF UniqueInv
  <2>3. FileInv' /\ ThreadInv' /\ DistinctInv'
    BY <1>f, <2>1
  <2> QED BY <1>j, <2>2, <2>3 DEF LedgerInv
<1>2. ASSUME NEW p \in Deletable, UserDeletes(p)
      PROVE  UniqueInv' /\ LedgerInv' /\ FileInv'
  <2>1. /\ worker' = worker
        /\ \A x \in Paths : files'[x] = IF x = p THEN Nothing ELSE files[x]
    BY <1>0, <1>2, MovesAssumption DEF UserDeletes, MovesTypeOK
  <2>2. UniqueInv'
    BY <1>0, <2>1 DEF UniqueInv
  <2>3. FileInv' /\ ThreadInv' /\ DistinctInv'
    BY <1>f, <2>1
  <2> QED BY <1>j, <2>2, <2>3 DEF LedgerInv
<1>3. CASE Crash
  <2>1. files' = files /\ \A w \in Workers : worker'[w].pc = "idle"
    BY <1>3 DEF Crash, Idle, Thread
  <2>2. UniqueInv' /\ ThreadInv' /\ DistinctInv'
    BY <1>0, <2>1 DEF UniqueInv, ThreadInv, DistinctInv
  <2>3. \A i \in Ids, o \in Paths, x \in Paths : Settled(i, o, x) => Settled(i, o, x)'
    BY <1>0, <2>1 DEF Settled
  <2>4. FileInv'
    BY <1>0, <2>1, <2>3, FileKept
  <2> QED BY <1>j, <2>2, <2>4 DEF LedgerInv
<1>4. CASE Tick \/ \E i \in Ids : HeldChanges(i)
  <2>1. files' = files /\ worker' = worker
    BY <1>4 DEF Tick, HeldChanges
  <2>2. UniqueInv'
    BY <1>0, <2>1 DEF UniqueInv
  <2> QED BY <1>f, <1>j, <2>1, <2>2 DEF LedgerInv
<1> QED BY <1>1, <1>2, <1>3, <1>4 DEF Environment

(***************************************************************************)
(* For any threads, paths and files: where no two loose files are moved to *)
(* the same name, ids are not given twice and a move is undone only once   *)
(* it is over, every file that was moved and not put back has a record     *)
(* that leads home, wherever the agent dies and whichever write stops      *)
(* halfway.                                                                *)
(***************************************************************************)
THEOREM TrailAlways ==
  ASSUME OneSourceEach
  PROVE  SettledSpec => []Trail
<1>1. Init => SafeInv /\ TrailInv
  <2> SUFFICES ASSUME Init PROVE TrailInv
    BY InitSafe
  <2>1. /\ \A w \in Workers : worker[w].pc = "idle"
        /\ \A x \in Paths : files[x] = Nothing
        /\ \A i \in Ids : record[i].label = "none"
    BY DEF Init, Idle, Thread, NoRecord, Record
  <2>2. UniqueInv /\ FileInv /\ JournalInv
    BY <2>1 DEF UniqueInv, FileInv, JournalInv
  <2>3. ThreadInv /\ DistinctInv /\ ~EarlyUndo
    BY <2>1 DEF ThreadInv, DistinctInv, EarlyUndo
  <2> QED BY <2>2, <2>3 DEF TrailInv
<1>2. SafeInv /\ TrailInv /\ [Next /\ ~clash' /\ ~EarlyUndo']_vars => (SafeInv /\ TrailInv)'
  <2> SUFFICES ASSUME SafeInv, TrailInv, [Next /\ ~clash' /\ ~EarlyUndo']_vars
               PROVE  SafeInv' /\ TrailInv'
    OBVIOUS
  <2>1. SafeInv' /\ Before
    BY NextSafe DEF Before
  <2>2. CASE UNCHANGED vars
    BY <2>1, <2>2 DEF vars, TrailInv, UniqueInv, JournalInv, ThreadInv, DistinctInv, FileInv,
                      Settled, EarlyUndo
  <2>3. CASE Next /\ ~clash' /\ ~EarlyUndo'
    <3>1. UniqueInv' /\ LedgerInv' /\ FileInv'
      BY <2>1, <2>3, MoveTrail, UndoTrail, MachineTrail DEF Next, Step
    <3> QED BY <2>1, <2>3, <3>1 DEF TrailInv, LedgerInv
  <2> QED BY <2>2, <2>3
<1>3. SafeInv /\ TrailInv => Trail
  <2>1. \A i, o, x : Settled(i, o, x) => /\ record[i].to = x /\ record[i].from = o
                                         /\ record[i].label = "moved"
    BY DEF Settled, Record
  <2> SUFFICES ASSUME FileInv, NEW p \in Paths, files[p] # Nothing, origin[files[p]] # NoPath
               PROVE  \E i \in Ids : /\ record[i].to = p /\ record[i].from = origin[files[p]]
                                     /\ record[i].label = "moved"
    BY DEF TrailInv, Trail
  <2>2. PICK i \in Ids : Settled(i, origin[files[p]], p)
    BY DEF FileInv
  <2> QED BY <2>1, <2>2
<1> QED BY <1>1, <1>2, <1>3, PTL DEF SettledSpec
=============================================================================
