-------------------------------- MODULE Sweep --------------------------------
(***************************************************************************)
(* Comparing the machine with itself: kam-core/src/db.rs, Store::sweep,    *)
(* kam-core/src/changes.rs and kam-agent/src/baseline.rs, collect.         *)
(*                                                                         *)
(* A thing is something that starts itself or holds a privilege, known by  *)
(* kind, scope and name.  A sweep collects what can be read of the machine *)
(* and which sources could not be read, then compares the collection with  *)
(* the sightings table in one transaction and reports the differences.     *)
(* Connections are served on threads of their own, so one sweep may be     *)
(* collecting while another commits.                                       *)
(***************************************************************************)
EXTENDS Integers, Sequences

CONSTANTS
    Things,       \* records [kind, scope, name]; a scope is the component
                  \* sequence as_place reduces a path to
    Sources,      \* Unreadable values a collection can meet: [kinds, scopes]
    Details,      \* what a thing does
    Trusts,       \* who vouches for it
    Absent,       \* a thing that is not on the machine
    Unseen,       \* a thing no committed sweep has read
    Unrecorded,   \* the empty trust of a row older than the column
    Sweepers,     \* connections serving SweepForChanges
    FlapsBeforeRecurring

ASSUME SweepAssumption ==
    /\ Unrecorded \notin Trusts
    /\ FlapsBeforeRecurring \in Nat \ {0}
    /\ \A x \in Details : \A y \in Trusts \cup {Unrecorded} :
         [detail |-> x, trust |-> y] \notin {Absent, Unseen}
    /\ Absent # Unseen

VARIABLES
    world,     \* thing -> what is on the machine now, or Absent
    rows,      \* the sightings table
    swept,     \* the sweeps table holds a row, so this is not a baseline
    sweeper,   \* connection -> its collection, between collect and commit
    told,      \* thing -> what a reader of every report so far believes
    observed,  \* thing -> what the last committed sweep that read it saw
    still,     \* things unchanged since the last committed collection
    hidden     \* things that collection could not see

sweepVars == <<world, rows, swept, sweeper, told, observed, still, hidden>>

Look(d, y) == [detail |-> d, trust |-> y]

Looks == {Look(d, y) : d \in Details, y \in Trusts}

OldLooks == {Look(d, Unrecorded) : d \in Details}

\* A row of sightings.  flaps only matters up to the threshold, where it stays.
Row(p, l, f) == [present |-> p, look |-> l, flaps |-> f]

Rows == {Row(p, l, f) : p \in BOOLEAN, l \in Looks \cup OldLooks,
                        f \in 0..FlapsBeforeRecurring}

\* Told of nothing, or of a thing that was there, or that had gone.
Belief(p, l) == [present |-> p, look |-> l]

Beliefs == {Belief(p, l) : p \in BOOLEAN, l \in Looks \cup OldLooks}

\* No row and no belief is the marker of a thing nobody has read.
ASSUME MarkerAssumption == Unseen \notin Rows \cup Beliefs

\* A collection in hand, and the things that have changed while it was.
Collection(seen, blind, moved) ==
    [held |-> TRUE, seen |-> seen, blind |-> blind, moved |-> moved]

NoCollection ==
    [held |-> FALSE, seen |-> [t \in Things |-> Absent], blind |-> {}, moved |-> {}]

----------------------------------------------------------------------------
(* What a gap in the reading covers: changes.rs, Unreadable::covers.       *)

\* One place lies inside another as paths, component by component.
Under(scope, prefix) ==
    /\ Len(prefix) <= Len(scope)
    /\ SubSeq(scope, 1, Len(prefix)) = prefix

Covers(source, t) ==
    /\ t.kind \in source.kinds
    /\ source.scopes = {} \/ \E p \in source.scopes : Under(t.scope, p)

Covered(unreadable, t) == \E source \in unreadable : Covers(source, t)

----------------------------------------------------------------------------
(* The comparison of one thing with its row.                               *)

Known(t) == rows[t] # Unseen

Returned(t) == Known(t) /\ ~rows[t].present

FlapsAfter(t) ==
    IF Returned(t) /\ rows[t].flaps < FlapsBeforeRecurring
    THEN rows[t].flaps + 1
    ELSE rows[t].flaps

TrustMoved(t, look) ==
    /\ rows[t].look.trust # Unrecorded
    /\ rows[t].look.trust # look.trust

Altered(t, look) == rows[t].look.detail # look.detail \/ TrustMoved(t, look)

Recurring(t) == FlapsAfter(t) >= FlapsBeforeRecurring

\* A slip: once a thing recurs, that is all that is ever said of it, whether or
\* not it came back.
SeenChangeHabit(t, look) ==
    CASE ~Known(t) -> "appeared"
      [] Known(t) /\ Recurring(t) -> "recurring"
      [] Known(t) /\ ~Recurring(t) /\ Returned(t) -> "appeared"
      [] Known(t) /\ ~Recurring(t) /\ ~Returned(t) /\ Altered(t, look) -> "altered"
      [] OTHER -> "none"

\* What is said of a thing that was seen, in the order of the match.
SeenChange(t, look) ==
    CASE ~Known(t) -> "appeared"
      [] Known(t) /\ Returned(t) /\ ~Recurring(t) -> "appeared"
      [] Known(t) /\ Returned(t) /\ Recurring(t) /\ ~Altered(t, look) -> "recurring"
      [] Known(t) /\ (Returned(t) => Recurring(t)) /\ Altered(t, look) -> "altered"
      [] OTHER -> "none"

\* A slip: what was not read is taken to be gone.
MissingAnyway(c, t) == Known(t) /\ rows[t].present /\ c.seen[t] = Absent

\* A row present last time, not seen now, whose source was readable.
Missing(c, t) ==
    /\ Known(t) /\ rows[t].present
    /\ c.seen[t] = Absent
    /\ t \notin c.blind

ChangeOf(c, t) ==
    IF c.seen[t] # Absent THEN SeenChange(t, c.seen[t])
    ELSE IF ~Missing(c, t) THEN "none"
    ELSE IF rows[t].flaps >= FlapsBeforeRecurring THEN "recurring"
    ELSE "vanished"

\* A slip: a row that is gone takes the look of what was seen, which is nothing.
RowAfterBlank(c, t) ==
    IF c.seen[t] # Absent \/ Missing(c, t)
    THEN Row(c.seen[t] # Absent, c.seen[t], IF Known(t) THEN FlapsAfter(t) ELSE 0)
    ELSE rows[t]

RowAfter(c, t) ==
    IF c.seen[t] # Absent
    THEN Row(TRUE, c.seen[t], IF Known(t) THEN FlapsAfter(t) ELSE 0)
    ELSE IF Missing(c, t) THEN Row(FALSE, rows[t].look, rows[t].flaps)
    ELSE rows[t]

\* What a reader makes of one reported difference.  "Comes and goes" says that
\* it did one or the other, and that nothing else about it is different.
BeliefAfter(c, t) ==
    CASE ChangeOf(c, t) \in {"appeared", "altered"} -> Belief(TRUE, c.seen[t])
      [] ChangeOf(c, t) = "vanished" -> Belief(FALSE, told[t].look)
      [] ChangeOf(c, t) = "recurring" -> Belief(~told[t].present, told[t].look)
      [] OTHER -> told[t]

----------------------------------------------------------------------------

\* A new store, or one an earlier version kept before trust was recorded.
SweepInit ==
    /\ world \in [Things -> Looks \cup {Absent}]
    /\ swept \in BOOLEAN
    /\ \E old \in [Things -> OldLooks \cup {Unseen}] :
         /\ ~swept => \A t \in Things : old[t] = Unseen
         /\ rows = [t \in Things |-> IF old[t] = Unseen THEN Unseen ELSE Row(TRUE, old[t], 0)]
         /\ told = [t \in Things |-> IF old[t] = Unseen THEN Unseen ELSE Belief(TRUE, old[t])]
         /\ observed = old
    /\ sweeper = [w \in Sweepers |-> NoCollection]
    /\ still = {}
    /\ hidden = Things

\* Something is installed, changed or removed.
WorldChanges(t) ==
    /\ \E look \in (Looks \cup {Absent}) \ {world[t]} : world' = [world EXCEPT ![t] = look]
    /\ still' = still \ {t}
    /\ sweeper' = [w \in Sweepers |->
         IF sweeper[w].held
         THEN Collection(sweeper[w].seen, sweeper[w].blind, sweeper[w].moved \cup {t})
         ELSE NoCollection]
    /\ UNCHANGED <<rows, swept, told, observed, hidden>>

\* baseline::collect.  Under a source that failed part-way some things may
\* have been read all the same.
Collect(w) ==
    /\ ~sweeper[w].held
    /\ \E unreadable \in SUBSET Sources, partial \in SUBSET Things :
         LET covered == {t \in Things : Covered(unreadable, t)}
             dark == covered \ partial
         IN /\ partial \subseteq covered
            /\ sweeper' = [sweeper EXCEPT ![w] =
                 Collection([t \in Things |-> IF t \in dark THEN Absent ELSE world[t]],
                            covered, {})]
    /\ UNCHANGED <<world, rows, swept, told, observed, still, hidden>>

\* Store::sweep, in one immediate transaction.  A baseline reports nothing and
\* what it records is what the reader is told the machine was like.
Commit(w) ==
    LET c == sweeper[w]
        read == {t \in Things : c.seen[t] # Absent \/ t \notin c.blind}
    IN /\ c.held
       /\ rows' = [t \in Things |-> RowAfter(c, t)]
       /\ told' = [t \in Things |->
                     IF swept THEN BeliefAfter(c, t)
                     ELSE IF c.seen[t] # Absent THEN Belief(TRUE, c.seen[t])
                     ELSE told[t]]
       /\ swept' = TRUE
       /\ observed' = [t \in Things |-> IF t \in read THEN c.seen[t] ELSE observed[t]]
       /\ still' = Things \ c.moved
       /\ hidden' = Things \ read
       /\ sweeper' = [sweeper EXCEPT ![w] = NoCollection]
       /\ UNCHANGED world

\* Any statement of the transaction fails, or the agent stops: rolled back.
Abort(w) ==
    /\ sweeper[w].held
    /\ sweeper' = [sweeper EXCEPT ![w] = NoCollection]
    /\ UNCHANGED <<world, rows, swept, told, observed, still, hidden>>

SweepNext ==
    \/ \E t \in Things : WorldChanges(t)
    \/ \E w \in Sweepers : Collect(w) \/ Commit(w) \/ Abort(w)

SweepSpec == SweepInit /\ [][SweepNext]_sweepVars

----------------------------------------------------------------------------

SweepTypeOK ==
    /\ world \in [Things -> Looks \cup {Absent}]
    /\ rows \in [Things -> Rows \cup {Unseen}]
    /\ swept \in BOOLEAN
    /\ \A w \in Sweepers :
         /\ sweeper[w].held \in BOOLEAN
         /\ sweeper[w].seen \in [Things -> Looks \cup {Absent}]
         /\ sweeper[w].blind \subseteq Things
         /\ sweeper[w].moved \subseteq Things
    /\ told \in [Things -> Beliefs \cup {Unseen}]
    /\ observed \in [Things -> Looks \cup OldLooks \cup {Absent, Unseen}]
    /\ still \subseteq Things
    /\ hidden \subseteq Things

\* Nothing a committed sweep read is absorbed in silence: whoever believes the
\* reports knows of every thing whether it was there when last read, what it
\* did and who vouched for it.  A trust recorded before the column existed is
\* the one gap that is filled without a word.
NothingAbsorbed ==
    \A t \in Things :
      CASE observed[t] = Unseen -> told[t] = Unseen
        [] observed[t] = Absent -> told[t] = Unseen \/ ~told[t].present
        [] OTHER -> /\ told[t] # Unseen
                    /\ told[t].present
                    /\ told[t].look.detail = observed[t].detail
                    /\ told[t].look.trust \in {observed[t].trust, Unrecorded}

\* "a source that could not be read this time proves nothing about what is
\* under it": a committed sweep moves no belief about a thing it did not read.
BlindnessProvesNothing ==
    [][\A t \in Things : told'[t] # told[t] => t \notin hidden']_sweepVars

\* A difference is reported of a thing that did differ between this collection
\* and the last one committed, or that the last one could not see.
NoFalseAlarm ==
    [][\A t \in Things : told'[t] # told[t] => ~swept \/ t \notin still \/ t \in hidden]_sweepVars

(***************************************************************************)
(* Store::sweep never takes a change for the habit of a thing that comes   *)
(* and goes: what the store holds of a thing is what somebody was told of  *)
(* it.                                                                     *)
(***************************************************************************)
ChangesSurface ==
    SweepTypeOK /\ NothingAbsorbed
=============================================================================
