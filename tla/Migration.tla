------------------------------ MODULE Migration ------------------------------
(***************************************************************************)
(* Opening the store and bringing it up to this build's schema              *)
(* (kam-core/src/db.rs: Store::open, from_connection, migrate_through),     *)
(* with SQLite modelled from how it is used: one writer at a time, a        *)
(* transaction that is seen whole or not at all, and a write-ahead log      *)
(* with synchronous = NORMAL, whose last commits a power cut may take back. *)
(***************************************************************************)
EXTENDS Naturals, Sequences, FiniteSets, SequencesExt

CONSTANTS
  Agents,       \* processes that may open a store
  Service,      \* the one the control manager hosts
  NoOne,        \* no agent
  SchemaOf,     \* [Agents -> Nat]: SCHEMA_VERSION of each agent's build
  Oldest,       \* the version of the oldest store met
  Newest,       \* the newest version there is, of a store or a build
  MaxFaults     \* bound on crashes, power cuts and failing calls

ASSUME MigrationAssumption ==
  /\ Service \in Agents /\ NoOne \notin Agents
  /\ SchemaOf \in [Agents -> Nat] /\ \A a \in Agents : SchemaOf[a] <= Newest
  /\ Oldest \in Nat /\ Newest \in Nat /\ Oldest <= Newest /\ MaxFaults \in Nat

VARIABLES
  file,     \* per store: what a reader of it sees now
  wal,      \* per store: commits the disk may not have yet, oldest first
  writer,   \* per store: who holds the write lock
  at,       \* per agent: how far it has come
  step,     \* per agent: the next step, by the version read before the lock
  txn,      \* per agent: what its transaction has made of the store
  cause,    \* per agent: why its last start failed
  faults    \* crashes, power cuts and failing calls so far

storeVars == <<file, wal, writer, at, step, txn, cause, faults>>

Stores == {"ProgramData", "kam-dev-state"}

\* The service keeps its store machine-wide; a console run beside the build.
StorePath(a) == IF a = Service THEN "ProgramData" ELSE "kam-dev-state"

\* A store as it stands at a version: the steps it has had, in order.
At(version) == [version |-> version, steps |-> [i \in 1 .. version |-> i]]

Fault == faults < MaxFaults /\ faults' = faults + 1

\* A transaction that is not committed is as if it never was.
Rollback(a) ==
  /\ txn' = [txn EXCEPT ![a] = At(0)]
  /\ step' = [step EXCEPT ![a] = 0]
  /\ writer' = [writer EXCEPT ![StorePath(a)] = IF @ = a THEN NoOne ELSE @]

\* The start ends here, with the reason logged.
FailedToOpen(a, why) ==
  /\ at' = [at EXCEPT ![a] = "failed"]
  /\ cause' = [cause EXCEPT ![a] = why]

\* Store::open: the directory, the connection and its pragmas.
OpenConnection(a) ==
  /\ at[a] = "open"
  /\ \/ at' = [at EXCEPT ![a] = "read"] /\ UNCHANGED <<cause, faults>>
     \/ Fault /\ FailedToOpen(a, "fault")
  /\ UNCHANGED <<file, wal, writer, step, txn>>

\* The version is read without the lock, to see whether anything is to be done.
ReadVersion(a) ==
  LET version == file[StorePath(a)].version
  IN /\ at[a] = "read"
     /\ step' = [step EXCEPT ![a] = IF version < SchemaOf[a] THEN version + 1 ELSE 0]
     /\ CASE version = SchemaOf[a] -> at' = [at EXCEPT ![a] = "opened"] /\ UNCHANGED cause
          [] version > SchemaOf[a] -> FailedToOpen(a, "newer")
          [] OTHER -> at' = [at EXCEPT ![a] = "begin"] /\ UNCHANGED cause
     /\ UNCHANGED <<file, wal, writer, txn, faults>>

\* BEGIN IMMEDIATE takes the write lock, or gives up when another keeps it.
BeginImmediate(a) ==
  /\ at[a] = "begin"
  /\ \/ /\ writer[StorePath(a)] = NoOne
        /\ writer' = [writer EXCEPT ![StorePath(a)] = a]
        /\ txn' = [txn EXCEPT ![a] = file[StorePath(a)]]
        /\ at' = [at EXCEPT ![a] = "again"]
        /\ UNCHANGED cause
     \/ /\ writer[StorePath(a)] # NoOne
        /\ FailedToOpen(a, "busy")
        /\ UNCHANGED <<writer, txn>>
  /\ UNCHANGED <<file, wal, step, faults>>

\* A slip: the version read before the lock was taken is believed.
ReadAgainNever(a) ==
  /\ at[a] = "again"
  /\ at' = [at EXCEPT ![a] = "apply"]
  /\ UNCHANGED <<file, wal, writer, step, txn, cause, faults>>

\* Under the lock the version is read again: a step another has done is skipped.
ReadAgain(a) ==
  /\ at[a] = "again"
  /\ at' = [at EXCEPT ![a] = IF txn[a].version >= step[a] THEN "commit" ELSE "apply"]
  /\ UNCHANGED <<file, wal, writer, step, txn, cause, faults>>

\* A slip: the step takes effect statement by statement, in no transaction.
ApplyStepLoose(a) ==
  LET next == [txn[a] EXCEPT !.steps = Append(@, step[a])]
  IN /\ at[a] = "apply"
     /\ txn' = [txn EXCEPT ![a] = next]
     /\ file' = [file EXCEPT ![StorePath(a)] = next]
     /\ at' = [at EXCEPT ![a] = "bump"]
     /\ UNCHANGED <<wal, writer, step, cause, faults>>

\* The step's own statements.  What it adds must not be there yet, and what it
\* builds on must; otherwise, or when the disk fails, the whole is rolled back.
ApplyStep(a) ==
  /\ at[a] = "apply"
  /\ \/ /\ step[a] \notin ToSet(txn[a].steps)
        /\ 1 .. step[a] - 1 \subseteq ToSet(txn[a].steps)
        /\ txn' = [txn EXCEPT ![a].steps = Append(@, step[a])]
        /\ at' = [at EXCEPT ![a] = "bump"]
        /\ UNCHANGED <<writer, step, cause, faults>>
     \/ /\ \/ step[a] \in ToSet(txn[a].steps)
           \/ ~(1 .. step[a] - 1 \subseteq ToSet(txn[a].steps))
        /\ Rollback(a) /\ FailedToOpen(a, "schema")
        /\ UNCHANGED faults
     \/ Fault /\ Rollback(a) /\ FailedToOpen(a, "fault")
  /\ UNCHANGED <<file, wal>>

\* The version bump belongs to the same transaction.
BumpVersion(a) ==
  /\ at[a] = "bump"
  /\ txn' = [txn EXCEPT ![a].version = step[a]]
  /\ at' = [at EXCEPT ![a] = "commit"]
  /\ UNCHANGED <<file, wal, writer, step, cause, faults>>

\* A slip: the last step is taken for done one step early.
CommitEarly(a) ==
  LET s == StorePath(a)
  IN /\ at[a] = "commit"
     /\ file' = [file EXCEPT ![s] = txn[a]]
     /\ wal' = [wal EXCEPT ![s] = IF txn[a] = file[s] THEN @ ELSE Append(@, txn[a])]
     /\ writer' = [writer EXCEPT ![s] = NoOne]
     /\ step' = [step EXCEPT ![a] = @ + 1]
     /\ at' = [at EXCEPT ![a] = IF step[a] + 1 < SchemaOf[a] THEN "begin" ELSE "opened"]
     /\ txn' = [txn EXCEPT ![a] = At(0)]
     /\ UNCHANGED <<cause, faults>>

\* A slip: the loop goes round on the step it has just done.
CommitSameStep(a) ==
  LET s == StorePath(a)
  IN /\ at[a] = "commit"
     /\ file' = [file EXCEPT ![s] = txn[a]]
     /\ wal' = [wal EXCEPT ![s] = IF txn[a] = file[s] THEN @ ELSE Append(@, txn[a])]
     /\ writer' = [writer EXCEPT ![s] = NoOne]
     /\ txn' = [txn EXCEPT ![a] = At(0)]
     /\ at' = [at EXCEPT ![a] = "begin"]
     /\ UNCHANGED <<step, cause, faults>>

\* COMMIT, then the next step that was outstanding, or done.  A commit that
\* fails ends the start, and closing the connection undoes the step.
Commit(a) ==
  LET s == StorePath(a)
  IN /\ at[a] = "commit"
     /\ \/ /\ file' = [file EXCEPT ![s] = txn[a]]
           /\ wal' = [wal EXCEPT ![s] = IF txn[a] = file[s] THEN @ ELSE Append(@, txn[a])]
           /\ writer' = [writer EXCEPT ![s] = NoOne]
           /\ step' = [step EXCEPT ![a] = IF @ < SchemaOf[a] THEN @ + 1 ELSE 0]
           /\ txn' = [txn EXCEPT ![a] = At(0)]
           /\ at' = [at EXCEPT ![a] = IF step[a] < SchemaOf[a] THEN "begin" ELSE "opened"]
           /\ UNCHANGED <<cause, faults>>
        \/ /\ Fault /\ Rollback(a) /\ FailedToOpen(a, "fault")
           /\ UNCHANGED <<file, wal>>

\* A checkpoint: every commit so far is on the disk.
Checkpoint(s) ==
  /\ wal[s] # <<>>
  /\ wal' = [wal EXCEPT ![s] = <<>>]
  /\ UNCHANGED <<file, writer, at, step, txn, cause, faults>>

\* What the store is after a power cut: some of the last commits may be gone.
AfterPowerCut(s) ==
  {file[s]} \cup ToSet(wal[s])
            \cup (IF wal[s] = <<>> THEN {} ELSE {At(wal[s][1].version - 1)})

MigrateStep(a) ==
  \/ OpenConnection(a) \/ ReadVersion(a) \/ BeginImmediate(a) \/ ReadAgain(a)
  \/ ApplyStep(a) \/ BumpVersion(a) \/ Commit(a)

-----------------------------------------------------------------------------
(* Properties.                                                               *)

\* A store has had exactly the steps its version says, in order and once each,
\* whatever stopped the agent and whoever else was opening it (db.rs:829-845).
StoreIsWhole ==
  \A s \in Stores :
    /\ file[s] = At(file[s].version)
    /\ \A kept \in ToSet(wal[s]) : kept = At(kept.version)

\* No start fails because the store already has what a step would add: the
\* failure that kept a service from starting for good (db.rs:833-840).
NeverStuckOnSchema == \A a \in Agents : cause[a] # "schema"

\* An agent that is serving finds in its store every step its build relies on,
\* also when the steps were another's and power was lost between (db.rs:846-892).
OpenedIsUsable ==
  \A a \in Agents : at[a] \in {"opened", "serving", "joining"}
                    => file[StorePath(a)].version >= SchemaOf[a]
=============================================================================
