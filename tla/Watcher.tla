------------------------------ MODULE Watcher ------------------------------
(***************************************************************************)
(* The behaviour watcher (kam-agent/src/watch.rs): the one thread of the   *)
(* agent that acts unasked.  It takes a snapshot of what starts itself and *)
(* of the reads of decoy files, learns the first one, reports what later   *)
(* ones add, and stands down while the protection setting is off.          *)
(*                                                                         *)
(* An entry is a startup entry under the key watch.rs gives it, or one     *)
(* recorded read of a decoy.  Both sets are kept and compared alike.       *)
(***************************************************************************)
EXTENDS Integers, Sequences

CONSTANTS
    Entries,   \* startup entries and decoy reads
    Shady,     \* the ones behaviour::judge_entry has something to say of
    Hidable,   \* the ones belonging to an account that may not be signed in
    Keep,      \* KEEP, observations held in memory
    Interval,  \* INTERVAL, seconds between looks
    CheckEvery \* CHECK_EVERY, seconds between reads of the setting

ASSUME WatcherAssumption ==
    /\ Shady \subseteq Entries
    /\ Hidable \subseteq Entries
    /\ Keep \in Nat \ {0}
    /\ Interval \in Nat \ {0}
    /\ CheckEvery \in Nat \ {0}

VARIABLES
    pc,          \* where run() is
    elapsed,     \* seconds of this wait gone by
    baseline,    \* the keys seen so far
    first,       \* first_pass
    pending,     \* observations of this pass not yet recorded
    watching,    \* Inner::watching
    log,         \* Inner::observations, newest first
    store,       \* the watcher opened the store
    protection,  \* the protection setting
    shutdown,    \* Shutdown::flag
    present,     \* entries on the machine
    dark,        \* entries of accounts that are not signed in
    audit,       \* history: entries recorded in the audit log
    old,         \* history: what was there when the watch last began, and still is
    unseen       \* history: what the pass that learned the machine could not see

watcherVars == <<pc, elapsed, baseline, first, pending, watching, log, store, protection,
          shutdown, present, dark, audit, old, unseen>>

WatcherInit ==
    /\ pc = "top"
    /\ elapsed = 0
    /\ baseline = {}
    /\ first = TRUE
    /\ pending = {}
    /\ watching = FALSE
    /\ log = <<>>
    /\ store \in BOOLEAN
    /\ protection \in BOOLEAN
    /\ shutdown = FALSE
    /\ present \in SUBSET Entries
    /\ dark \in SUBSET Hidable
    /\ audit = {}
    /\ old = {} /\ unseen = {}

\* Without a store the setting cannot be read, and counts as on.
Protecting == store => protection

----------------------------------------------------------------------------
(* The watcher's thread.                                                   *)

outside == <<store, protection, shutdown, present, dark>>

Forget == baseline' = {} /\ first' = TRUE /\ watching' = FALSE

\* A slip: standing down is noticed by the baseline rather than by the log.
StandDownByBaseline ==
    /\ pc = "top"
    /\ ~Protecting
    /\ IF baseline # {} THEN Forget ELSE UNCHANGED <<baseline, first, watching>>
    /\ pc' = "wait off"
    /\ elapsed' = 0
    /\ UNCHANGED <<pending, log, audit, old, unseen, outside>>

\* A slip: the baseline is kept while the protection is off.
StandDownRemembering ==
    /\ pc = "top"
    /\ ~Protecting
    /\ watching' = FALSE
    /\ pc' = "wait off"
    /\ elapsed' = 0
    /\ UNCHANGED <<baseline, first, pending, log, audit, old, unseen, outside>>

StandDown ==
    /\ pc = "top"
    /\ ~Protecting
    /\ IF watching \/ baseline # {} THEN Forget ELSE UNCHANGED <<baseline, first, watching>>
    /\ pc' = "wait off"
    /\ elapsed' = 0
    /\ UNCHANGED <<pending, log, audit, old, unseen, outside>>

LookAgain ==
    /\ pc = "top"
    /\ Protecting
    /\ watching' = TRUE
    /\ old' = IF watching THEN old ELSE present
    /\ pc' = "sweep"
    /\ UNCHANGED <<elapsed, baseline, first, pending, log, audit, unseen, outside>>

\* sweep and canary_trips: the survey's entries, whatever it says of what it
\* could not read (a Run key, a Startup folder, the services, the tasks, the
\* Security log).  The first pass only learns; it never reports.
Snapshot ==
    /\ pc = "sweep"
    /\ \E unread \in SUBSET Entries :
         LET visible == (present \ dark) \ unread IN
         /\ baseline' = baseline \cup visible
         /\ pending' = IF first THEN {} ELSE (visible \ baseline) \cap Shady
         /\ unseen' = IF first THEN present \ visible ELSE unseen
    /\ first' = FALSE
    /\ pc' = "record"
    /\ UNCHANGED <<elapsed, watching, log, audit, old, outside>>

Observations == {log[i] : i \in DOMAIN log}

Pushed(e) ==
    LET longer == <<e>> \o log
    IN  SubSeq(longer, 1, IF Len(longer) > Keep THEN Keep ELSE Len(longer))

\* A slip: what is in memory is never trimmed.
RecordUntrimmed(e) ==
    /\ pc = "record"
    /\ e \in pending
    /\ audit' = IF store THEN audit \cup {e} ELSE audit
    /\ log' = <<e>> \o log
    /\ pending' = pending \ {e}
    /\ UNCHANGED <<pc, elapsed, baseline, first, watching, old, unseen, outside>>

\* A slip: without a store the observation is not kept in memory either.
RecordIfStored(e) ==
    /\ pc = "record"
    /\ e \in pending
    /\ audit' = IF store THEN audit \cup {e} ELSE audit
    /\ log' = IF store THEN Pushed(e) ELSE log
    /\ pending' = pending \ {e}
    /\ UNCHANGED <<pc, elapsed, baseline, first, watching, old, unseen, outside>>

\* record, then Log::push
Record(e) ==
    /\ pc = "record"
    /\ e \in pending
    /\ audit' = IF store THEN audit \cup {e} ELSE audit
    /\ log' = Pushed(e)
    /\ pending' = pending \ {e}
    /\ UNCHANGED <<pc, elapsed, baseline, first, watching, old, unseen, outside>>

Recorded ==
    /\ pc = "record"
    /\ pending = {}
    /\ pc' = "wait on"
    /\ elapsed' = 0
    /\ UNCHANGED <<baseline, first, pending, watching, log, audit, old, unseen, outside>>

Waiting == pc \in {"wait on", "wait off"} /\ elapsed < Interval

\* A slip: while standing down, only the switch can end the wait.
WaitStopsOnlyOn ==
    /\ Waiting /\ pc = "wait on"
    /\ shutdown
    /\ watching' = FALSE
    /\ pc' = "stopped"
    /\ UNCHANGED <<elapsed, baseline, first, pending, log, audit, old, unseen, outside>>

\* wait looks at the stop first, every second.
WaitStops ==
    /\ Waiting
    /\ shutdown
    /\ watching' = IF pc = "wait on" THEN FALSE ELSE watching
    /\ pc' = "stopped"
    /\ UNCHANGED <<elapsed, baseline, first, pending, log, audit, old, unseen, outside>>

\* The setting is looked at, and is not what it was when the wait began.
Switched ==
    /\ elapsed % CheckEvery = 0
    /\ store
    /\ protection # (pc = "wait on")

WaitSwitched ==
    /\ Waiting
    /\ ~shutdown
    /\ Switched
    /\ pc' = "top"
    /\ UNCHANGED <<elapsed, baseline, first, pending, watching, log, audit, old, unseen, outside>>

WaitSleeps ==
    /\ Waiting
    /\ ~shutdown
    /\ ~Switched
    /\ elapsed' = elapsed + 1
    /\ UNCHANGED <<pc, baseline, first, pending, watching, log, audit, old, unseen, outside>>

WaitOver ==
    /\ pc \in {"wait on", "wait off"}
    /\ elapsed = Interval
    /\ pc' = "top"
    /\ UNCHANGED <<elapsed, baseline, first, pending, watching, log, audit, old, unseen, outside>>

----------------------------------------------------------------------------
(* The rest of the machine.                                                *)

watcher == <<pc, elapsed, baseline, first, pending, watching, log, audit, unseen>>

Install(e) ==
    /\ e \notin present
    /\ present' = present \cup {e}
    /\ UNCHANGED <<store, protection, shutdown, dark, old, watcher>>

\* What is removed after the watch began is a newcomer if it returns.
Uninstall(e) ==
    /\ e \in present
    /\ present' = present \ {e}
    /\ old' = old \ {e}
    /\ UNCHANGED <<store, protection, shutdown, dark, watcher>>

SignsInOrOut(e) ==
    /\ e \in Hidable
    /\ dark' = IF e \in dark THEN dark \ {e} ELSE dark \cup {e}
    /\ UNCHANGED <<store, protection, shutdown, present, old, watcher>>

\* SetProtection, on another connection's thread.
SetProtection ==
    /\ protection' = ~protection
    /\ UNCHANGED <<store, shutdown, present, dark, old, watcher>>

Signal ==
    /\ ~shutdown
    /\ shutdown' = TRUE
    /\ UNCHANGED <<store, protection, present, dark, old, watcher>>

Watch ==
    \/ StandDown \/ LookAgain \/ Snapshot \/ Recorded
    \/ \E e \in Entries : Record(e)
    \/ WaitStops \/ WaitSwitched \/ WaitSleeps \/ WaitOver

WatcherNext ==
    \/ Watch
    \/ SetProtection
    \/ Signal
    \/ \E e \in Entries : Install(e) \/ Uninstall(e) \/ SignsInOrOut(e)

\* A pass that sees the entry.
Sees(e) == Snapshot /\ e \in baseline'

\* Where the entry lies can be read now and then: of the passes that run while
\* it is there to be seen, not all fail.
Readable(e) == SF_watcherVars(Sees(e))

\* The watcher's thread runs; nothing is assumed of anyone else.
WatcherSpec == WatcherInit /\ [][WatcherNext]_watcherVars /\ WF_watcherVars(Watch)

----------------------------------------------------------------------------

WatcherTypeOK ==
    /\ pc \in {"top", "sweep", "record", "wait on", "wait off", "stopped"}
    /\ elapsed \in 0..Interval
    /\ baseline \subseteq Entries
    /\ pending \subseteq Shady
    /\ log \in Seq(Shady) /\ Len(log) <= Keep
    /\ {first, watching, store, protection, shutdown} \subseteq BOOLEAN
    /\ present \subseteq Entries
    /\ dark \subseteq Hidable
    /\ audit \subseteq Shady
    /\ old \subseteq Entries /\ unseen \subseteq Entries

\* The baseline is "what was already there", as far as it was read: of what
\* stood on the machine when the watch began, or began again, nothing is ever
\* reported as an arrival but what the pass that learned it could not see.
OnlyArrivals == pending \cap old \subseteq unseen

\* What arrives while the watch is on is written down, unless it goes again,
\* its account signs out, the protection is switched off, the agent stops or
\* every pass from then on fails to read where it lies.
NoneMissed ==
    \A e \in Shady :
      Readable(e) =>
        ((watching /\ ~first /\ e \in (present \ dark) \ baseline)
           ~> (\/ e \in Observations \/ e \in audit
               \/ e \notin present \/ e \in dark
               \/ ~Protecting \/ shutdown))

\* With the protection off, the log stops saying that the watch is live.
StandsDown == (~Protecting) ~> (~watching \/ Protecting)

\* A stop ends the watcher whichever wait it is in.
WatcherStops == shutdown ~> (pc = "stopped")

(***************************************************************************)
(* What watch::run reports arrived while it watched or could not be seen   *)
(* by its first pass, whatever was switched off, signed out or unreadable  *)
(* in between, and its log stays within its bound.                         *)
(***************************************************************************)
OnlyWhatArrived ==
    WatcherTypeOK /\ OnlyArrivals

(***************************************************************************)
(* The watcher heeds the switch and the stop: switched off it stands down, *)
(* and told to stop it ends, whichever wait it is in.                      *)
(***************************************************************************)
WatcherObeys ==
    StandsDown /\ WatcherStops
=============================================================================
