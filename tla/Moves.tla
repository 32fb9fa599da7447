------------------------------- MODULE Moves --------------------------------
(***************************************************************************)
(* The journal of file moves that crates/kam-quarantine/src/lib.rs keeps   *)
(* beside the quarantine (move_file, undo_move, allocate_id).  A move is a *)
(* rename outside the store, with a record moves/<id>.json written first   *)
(* so that it can be undone.  As in Quarantine, one action is one call     *)
(* that changes the disk, and the threads of the agent interleave.         *)
(*                                                                         *)
(* allocate_id makes the id from the second and the first suffix with no   *)
(* item directory of that name in the quarantine; it does not look among   *)
(* the records of moves.  held is the set of those directories, which the  *)
(* quarantine fills and empties as it likes.                               *)
(***************************************************************************)
EXTENDS Integers, FiniteSetsExt

CONSTANTS
    Workers, Paths, Contents, Nothing, NoPath,
    Pairs,     \* the moves check_movable lets through
    Deletable, \* the paths other programs delete from
    Suffixes,  \* suffixes tried per second (10 000 in the code)
    MaxTime    \* bound on the clock

ASSUME MovesAssumption ==
    /\ Nothing \notin Contents /\ NoPath \notin Paths
    /\ Paths # {} /\ Pairs \subseteq Paths \X Paths /\ Deletable \subseteq Paths
    /\ Suffixes \in Nat \ {0} /\ MaxTime \in Nat

VARIABLES
    files,   \* what lies at each path
    record,  \* moves/<id>.json
    held,    \* ids that are item directories of the quarantine
    worker,  \* each thread and its local variables
    clock,   \* now_seconds()
    origin,  \* history: where a moved content was before, until it is put back
    outrun,  \* history: threads whose destination was filled since they looked
    lost,    \* history: contents a rename replaced that were there at the look
    written, \* history: ids a new record was written under
    clash    \* history: whether one of them was written under twice

vars == <<files, record, held, worker, clock, origin, outrun, lost, written, clash>>

\* The suffix after the last stands for "overflow".
Ids == (0 .. MaxTime) \X (0 .. Suffixes)

AnyPath == CHOOSE p \in Paths : TRUE

Record(label, from, to) == [label |-> label, from |-> from, to |-> to]

NoRecord == Record("none", AnyPath, AnyPath)

TornRecord == Record("torn", AnyPath, AnyPath)

Records == [label : {"none", "torn", "moved", "undone"}, from : Paths, to : Paths]

Thread(pc, i, from, to) == [pc |-> pc, id |-> i, from |-> from, to |-> to]

Idle == Thread("idle", <<0, 0>>, AnyPath, AnyPath)

Threads == [pc : {"idle", "journal", "rename", "forget", "putback", "mark"},
            id : Ids, from : Paths, to : Paths]

Become(w, state) == worker' = [worker EXCEPT ![w] = state]

Goto(w, pc) == Become(w, Thread(pc, worker[w].id, worker[w].from, worker[w].to))

AllocateId ==
    LET free == {k \in 0 .. Suffixes - 1 : <<clock, k>> \notin held}
    IN <<clock, IF free = {} THEN Suffixes ELSE Min(free)>>

\* A thread has looked at a name, found it free, and will rename onto it.
Aims(w, p) ==
    \/ worker[w].pc \in {"journal", "rename"} /\ worker[w].to = p
    \/ worker[w].pc = "putback" /\ worker[w].from = p

\* The threads that aim at a place which is filled now.
Outrun(p) == {w \in Workers : Aims(w, p)}

\* A rename replaces the file that is in the way.
Rename(w, p, q) ==
    /\ files[p] # Nothing
    /\ files' = [files EXCEPT ![p] = Nothing, ![q] = files[p]]
    /\ outrun' = (outrun \cup Outrun(q)) \ {w}
    /\ lost' = IF w \in outrun THEN lost ELSE lost \cup ({files[q]} \ {Nothing})

\* A new record is written under an id.
Write(i) ==
    /\ written' = written \cup {i}
    /\ clash' = (clash \/ i \in written)

-----------------------------------------------------------------------------
Init ==
    /\ files = [p \in Paths |-> Nothing]
    /\ record = [i \in Ids |-> NoRecord]
    /\ held = {}
    /\ worker = [w \in Workers |-> Idle]
    /\ clock = 0
    /\ origin = [c \in Contents |-> NoPath]
    /\ outrun = {}
    /\ lost = {}
    /\ written = {}
    /\ clash = FALSE

-----------------------------------------------------------------------------
(* Slips: versions of an action with a mistake in it.                      *)

\* move_file without its look at the destination.
MoveBlindly(w, p, q) ==
    /\ worker[w].pc = "idle"
    /\ files[p] # Nothing
    /\ Become(w, Thread("journal", <<0, 0>>, p, q))
    /\ UNCHANGED <<files, record, held, clock, origin, outrun, lost, written, clash>>

\* undo_move that marks the record before the file is back.
UndoMarkFirst(w, i) ==
    /\ worker[w].pc = "idle"
    /\ record[i].label = "moved"
    /\ files[record[i].from] = Nothing
    /\ record' = [record EXCEPT ![i].label = "undone"]
    /\ Become(w, Thread("putback", i, record[i].from, record[i].to))
    /\ UNCHANGED <<files, held, clock, origin, outrun, lost, written, clash>>

\* allocate_id that runs one suffix past the overflow.
JournalPast(w) ==
    LET i == <<clock, Suffixes + 1>> IN
    /\ worker[w].pc = "journal"
    /\ written' = written \cup {i}
    /\ UNCHANGED <<record, clash>>
    /\ Become(w, Thread("rename", i, worker[w].from, worker[w].to))
    /\ UNCHANGED <<files, held, clock, origin, outrun, lost>>

-----------------------------------------------------------------------------
(* move_file: the checks, the record, the rename; a rename that fails      *)
(* takes the record away.                                                  *)

MoveStart(w, p, q) ==
    /\ worker[w].pc = "idle"
    /\ files[p] # Nothing
    /\ files[q] = Nothing
    /\ Become(w, Thread("journal", <<0, 0>>, p, q))
    /\ UNCHANGED <<files, record, held, clock, origin, outrun, lost, written, clash>>

Journal(w) ==
    /\ worker[w].pc = "journal"
    /\ record' = [record EXCEPT ![AllocateId] =
                     Record("moved", worker[w].from, worker[w].to)]
    /\ Write(AllocateId)
    /\ Become(w, Thread("rename", AllocateId, worker[w].from, worker[w].to))
    /\ UNCHANGED <<files, held, clock, origin, outrun, lost>>

MoveRename(w) ==
    LET p == worker[w].from
        q == worker[w].to
    IN
    /\ worker[w].pc = "rename"
    /\ \/ /\ Rename(w, p, q)
          /\ origin' = [origin EXCEPT ![files[p]] = p]
          /\ Become(w, Idle)
       \/ /\ Goto(w, "forget")
          /\ outrun' = outrun \ {w}
          /\ UNCHANGED <<files, origin, lost>>
    /\ UNCHANGED <<record, held, clock, written, clash>>

Forget(w) ==
    /\ worker[w].pc = "forget"
    /\ record' = [record EXCEPT ![worker[w].id] = NoRecord]
    /\ Become(w, Idle)
    /\ UNCHANGED <<files, held, clock, origin, outrun, lost, written, clash>>

-----------------------------------------------------------------------------
(* undo_move: the record is read and the name looked at, then the rename,  *)
(* then the record is written again.                                       *)

UndoStart(w, i) ==
    /\ worker[w].pc = "idle"
    /\ record[i].label = "moved"
    /\ files[record[i].from] = Nothing
    /\ Become(w, Thread("putback", i, record[i].from, record[i].to))
    /\ UNCHANGED <<files, record, held, clock, origin, outrun, lost, written, clash>>

PutBack(w) ==
    LET p == worker[w].from
        q == worker[w].to
    IN
    /\ worker[w].pc = "putback"
    /\ \/ /\ Rename(w, q, p)
          /\ origin' = [c \in Contents |->
                IF c = files[q] /\ origin[c] = p THEN NoPath ELSE origin[c]]
          /\ Goto(w, "mark")
       \/ /\ Become(w, Idle)
          /\ outrun' = outrun \ {w}
          /\ UNCHANGED <<files, origin, lost>>
    /\ UNCHANGED <<record, held, clock, written, clash>>

Mark(w) ==
    /\ worker[w].pc = "mark"
    /\ record' = [record EXCEPT ![worker[w].id] =
                     Record("undone", worker[w].from, worker[w].to)]
    /\ Become(w, Idle)
    /\ UNCHANGED <<files, held, clock, origin, outrun, lost, written, clash>>

-----------------------------------------------------------------------------
(* What the machine does.                                                  *)

\* A record is written in place: a write that stops leaves it unreadable.
TornWrite(w) ==
    /\ \/ /\ worker[w].pc = "journal"
          /\ record' = [record EXCEPT ![AllocateId] = TornRecord]
          /\ Write(AllocateId)
       \/ /\ worker[w].pc = "mark"
          /\ record' = [record EXCEPT ![worker[w].id] = TornRecord]
          /\ UNCHANGED <<written, clash>>
    /\ outrun' = outrun \ {w}
    /\ Become(w, Idle)
    /\ UNCHANGED <<files, held, clock, origin, lost>>

Crash ==
    /\ \E w \in Workers : worker[w].pc # "idle"
    /\ worker' = [w \in Workers |-> Idle]
    /\ outrun' = {}
    /\ UNCHANGED <<files, record, held, clock, origin, lost, written, clash>>

\* take and delete of the quarantine.
HeldChanges(i) ==
    /\ i[1] <= clock /\ i[2] < Suffixes
    /\ held' = IF i \in held THEN held \ {i} ELSE held \cup {i}
    /\ UNCHANGED <<files, record, worker, clock, origin, outrun, lost, written, clash>>

Appear(c, p) ==
    /\ files[p] = Nothing
    /\ \A q \in Paths : files[q] # c
    /\ origin[c] = NoPath
    /\ files' = [files EXCEPT ![p] = c]
    /\ outrun' = outrun \cup Outrun(p)
    /\ UNCHANGED <<record, held, worker, clock, origin, lost, written, clash>>

UserDeletes(p) ==
    /\ files[p] # Nothing
    /\ files' = [files EXCEPT ![p] = Nothing]
    /\ UNCHANGED <<record, held, worker, clock, origin, outrun, lost, written, clash>>

Tick ==
    /\ clock < MaxTime
    /\ clock' = clock + 1
    /\ UNCHANGED <<files, record, held, worker, origin, outrun, lost, written, clash>>

-----------------------------------------------------------------------------
Step(w) ==
    \/ \E pair \in Pairs : MoveStart(w, pair[1], pair[2])
    \/ Journal(w) \/ MoveRename(w) \/ Forget(w)
    \/ \E i \in Ids : UndoStart(w, i)
    \/ PutBack(w) \/ Mark(w) \/ TornWrite(w)

Environment ==
    \/ \E c \in Contents, p \in Paths : Appear(c, p)
    \/ \E p \in Deletable : UserDeletes(p)

Next ==
    \/ \E w \in Workers : Step(w)
    \/ Environment \/ Crash \/ Tick
    \/ \E i \in Ids : HeldChanges(i)

Spec == Init /\ [][Next]_vars

\* No two moves are given the same id: what holds when a second passes between
\* any two of them.
SpacedSpec == Init /\ [][Next /\ ~clash']_vars

\* A move is being undone that is still under way: its record is there before
\* its rename is.
EarlyUndo ==
    \E v, w \in Workers :
        /\ worker[v].pc \in {"rename", "forget"}
        /\ worker[w].pc \in {"putback", "mark"}
        /\ worker[v].id = worker[w].id

\* Moves are spaced, and a move is undone only once it is over.
SettledSpec == Init /\ [][Next /\ ~clash' /\ ~EarlyUndo']_vars

\* One request at a time, and nobody else touching the files meanwhile.
SerialNext ==
    \/ \E w \in Workers :
          (\A v \in Workers \ {w} : worker[v].pc = "idle") /\ Step(w)
    \/ /\ \A w \in Workers : worker[w].pc = "idle"
       /\ Environment
    \/ Crash \/ Tick
    \/ \E i \in Ids : HeldChanges(i)

SerialSpec == Init /\ [][SerialNext]_vars

-----------------------------------------------------------------------------
(* Properties.                                                             *)

\* Every variable has its type.
MovesTypeOK ==
    /\ files \in [Paths -> Contents \cup {Nothing}]
    /\ record \in [Ids -> Records]
    /\ held \subseteq Ids
    /\ worker \in [Workers -> Threads]
    /\ clock \in 0 .. MaxTime
    /\ origin \in [Contents -> Paths \cup {NoPath}]
    /\ outrun \subseteq Workers
    /\ lost \subseteq Contents
    /\ written \subseteq Ids
    /\ clash \in BOOLEAN

(***************************************************************************)
(* A file that was moved and not put back has a record that leads from     *)
(* where it is to where it was: a move without one is "a file that         *)
(* silently changed place".  move_file writes the record before it renames *)
(* so that this holds across a crash.                                      *)
(***************************************************************************)
Trail ==
    \A p \in Paths :
        files[p] # Nothing /\ origin[files[p]] # NoPath =>
            \E i \in Ids : /\ record[i].to = p /\ record[i].from = origin[files[p]]
                           /\ \/ record[i].label = "moved"
                              \/ \E w \in Workers : worker[w].pc = "mark" /\ worker[w].id = i

\* Neither moving a file nor putting it back replaces one that was there when
\* the thread looked: only what arrives between its look and its rename is.
NothingReplaced == lost = {}

(***************************************************************************)
(* The journal and its threads keep their types, and neither move_file nor *)
(* undo_move renames onto a file that was there to be seen.                *)
(***************************************************************************)
MovesAreSafe ==
    MovesTypeOK /\ NothingReplaced
=============================================================================
