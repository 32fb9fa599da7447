# A TLA+ model of KAM Security

KAM Security is a Windows program in Rust: an agent that runs as a service and
does everything that needs privilege, a desktop shell (Tauri) that asks it over a
named pipe, and a window (React). This directory holds TLA+ modules translated
from the code, TLC runs over small instances of them, and proofs, for every
instance, of the safety of every component that keeps state and of nearly all that
decides without keeping any.

(Contents: 1 inventory, 2 modules, 3 runs and bounds, 4 findings, 5 fairness,
6 proofs, 7 what is not modelled, 8 plan.)

## 1. Inventory

| Component | State it keeps | Operations | Hard behaviour |
|---|---|---|---|
| Quarantine store (`kam-quarantine`) | a directory per held item: manifest, payload | `take`, `restore`, `delete_now`, `purge`, `list` | no lock; every connection has its own thread; each operation is several file-system calls; crashes and torn writes |
| Move journal (same crate) | `moves/<id>.json` | `move_file`, `undo_move` | as above; ids by the second |
| Accept loop (`kam-agent/server.rs`, `service.rs`, `kam-ipc/pipe.rs`) | pipe instances, number of open connections, shutdown flag | `serve`, `handle_connection`, `Shutdown::signal`, `PipeListener` | a limit in two places; a stop that must wake a blocking call; clients that stall |
| Jobs (`dispatch.rs`, `server.rs`, `progress.rs`) | table of stop signals, a channel of progress per job | `register_job`, `finish_job`, `stop_job`, `run_request`, `Reporter` | worker, forwarder, client and stopper all concurrent; panics; hang-ups |
| Comparison of the machine with itself (`db.rs`, `changes.rs`, `baseline.rs`) | `sightings`, `sweeps`, `changes` tables | `collect`, `Store::sweep` | sources that cannot be read; overlapping sweeps; things that come and go |
| Watcher (`watch.rs`) | baseline of keys, in-memory log, protection setting | `run`, `sweep`, `canary_trips`, `wait`, `record` | a switch and a stop that race the interval; accounts that sign in |
| Service and terminal (`main.rs`, `service.rs`, `store_acl.rs`) | the service's registration and status | install, start, stop, recovery; commands at a terminal | crashes at any step of a start; a stop during one |
| Dispatch and audit (`dispatch.rs`) | audit log, settings | one handler per request, `needs_administrator` | a change and its audit entry are two steps; requests of two callers interleave |
| Trust (`trust.rs`, `store_acl.rs`) | none | who may write a folder; who calls | an access list in several equivalent forms |
| Durable store (`db.rs`) | SQLite file, `user_version` | `open`, migrations, settings | crash in a migration; two processes; newer store, older agent |
| Decoys (`kam-canary`) | decoy files, registry keys, audit policy | `plant`, `remove`, `status` | three places that must agree; the owner's own files at the same path |
| Firewall (`kam-firewall`) | Windows Firewall policy | list, add, remove KAM's rules; connections | rules are removed by a name that is not unique; concurrent editors |
| Caches (`caches.rs`) | none | `clear`, `empty` | links swapped in; files held open; partial removals |
| Duplicates, leftovers, moves home (`duplicates.rs`, `orphans.rs`, `remnants.rs`, `organise.rs`, `paths.rs`) | none between requests | search, judge, check, measure, propose | a budget shared by threads; which file may go; fences around roots |
| Disk index (`mft.rs`, `index.rs`, `scan.rs`, `apps.rs`) | none between requests | read and parse the file table, total, trim, attribute | reader and parsers in parallel; records that straddle reads; a table that is not a tree |
| Scanner (`kam-scanner`) | none (reads Windows) | surveys of what starts itself, signatures, tasks, services | partial reads; keys that change while they are listed; hosts that hide a program |
| Defender and hardening (same crate) | Defender's settings and history | scan, status, rules | results that arrive late; settings that another authority holds |
| Weekly check and schedule (`check.rs`, `schedule.rs`) | a task | register, check | one of several readings fails |
| VirusTotal and updates | a sealed key | look up, compare versions | replies cut short |
| Shell (`ui/src-tauri`) | calls in flight, consent, the start at sign-in | Tauri commands | an answer lost between two processes; a bin others use |
| Rules; window | embedded rules; views | match; present | little state of their own |

How they meet: the shell opens the pipe and sends one request per connection; the
accept loop starts a thread for it; the thread dispatches the request, long ones
through a job with progress and a stop signal; handlers call the quarantine, the
scanner, storage and the store directly and share the store's one SQLite
connection behind a mutex. The watcher is a thread of its own with its own SQLite
connection and meets the others in the protection setting, the shutdown flag and
the in-memory log. A stop of the service ends the accept loop and the watcher, then
the process, with whatever connection threads are still running. A machine-wide
change is asked for by a second, elevated copy of the shell, which hands the
answer back in a file.

What makes each correct, in a sentence: the quarantine never loses, copies,
mislabels or misplaces a file and destroys only what it was asked to; a moved file
can be put back; the loop always listens again, gives back every place and
instance, and ends on a stop; a job is answered in full, stopped when and only
when asked, and forgotten; a sweep reports every difference it read and nothing it
could not read; the watcher reports arrivals, all of them, and nothing else; the
audit log says what was done and only that, and a machine-wide change is made for
an administrator only; what belongs to others stays; the store opens whole or not
at all; the service comes back from a crash and not from a stop; a calm answer
rests on something that was read, and what was not read is said.

These sentences say what the code aims at. What each property says is in its
module, with the exceptions the code forces on it, and section 4 lists those.

`PROJECT.json` lists every component, the hazards line by line, the source lines
of every definition, the runs and the theorems.

## 2. Modules

| Module | Models | Notes |
|---|---|---|
| `Quarantine` | the quarantine store | one action per file-system call of `take`, `restore`, `delete_now`, `purge` |
| `Vault` | what the store promises | a file is outside, held or gone; each operation is one step |
| `Moves` | the move journal | one action per call that changes the disk |
| `AcceptLoop` | accept loop, pipe, stop, clients | a slot is a pipe instance |
| `Jobs` | one connection's job: worker, forwarder, client, stopper | a channel of reports, a pipe with room for some |
| `Sweep` | `Store::sweep` | the transaction is one action, the collection before it another |
| `Watcher` | the watcher's thread | one action per step of `run` and per second of `wait` |
| `Connections` | one connection of the pipe, from the caller to the answer | trust, profile, the gate for administrators, the audit entry |
| `Settings` | protection, hardening, audit policy, the weekly task | handlers, one action per call |
| `Firewall` | block and unblock a program | the look at the rules and the removal are two calls |
| `Decoys` | plant and remove decoys | look, write and watch are three |
| `CacheClear` | clear a cache | the gate and the clear locate it separately; one action per entry removed |
| `Agent` | the whole dispatch | `Settings`, `Firewall`, `Decoys`, `CacheClear` composed, every other request by its outcomes |
| `Window` | the calls of the web view | one record per call in flight |
| `Consent` | the permission prompt | the window and the approved copy, two processes |
| `Recycle` | the Recycle Bin and uninstallers | counted before and after |
| `Lookup` | VirusTotal and the latest release | replies that fail or are cut |
| `SignIn` | start with Windows, window, icon | two registry values that are one choice |
| `Shell` | the desktop shell | `Consent`, `Recycle`, `Lookup`, `SignIn` composed |
| `Trust` | who may write where the agent lives | access lists as sequences of entries |
| `Migration` | opening and migrating the store | one action per statement |
| `Service` | installation, start, stop, recovery; commands at a terminal | extends `Migration` and `Trust` |
| `Duplicates` | the search for identical files, the judgement of a set; spellings of a path and the fence around removals | a pool of threads and one budget; operators |
| `Leftovers` | which directory belongs to which application, and to none; remnants of an uninstalled program; loose files and their homes | operators, and the walk that measures |
| `WeeklyCheck` | status, firewall, signatures, hardening, tasks, the weekly check; a Defender scan and what may be said after it | operators; one action per step of `run` |
| `Anchors` | what starts itself, the gaps in reading it, what a command runs; listing a registry key, and the services in it | operators; one action per call |
| `Table` | reading and parsing the master file table; the index: totals, paths | reader and parsers; operators |
| `Space` | the two routes of a scan, by the index and by a walk; the trimmed tree | operators |
| `Decisions` | `Trust` and the five modules from `Duplicates` to `Table`, composed | one question put once, or one machine run to its end |
| `MC*` | instances for TLC | constants and definitions; `AcceptLoop`, `Jobs` and `Watcher` need none. `MCDecisions` also holds the questions about `Space`, whose trees are recursive |
| `QuarantineProofs`, `MovesProofs`, `AgentProofs`, `ShellProofs`, `DecisionsProofs` | — | inductive invariants and theorems about the module of that name |
| `ServiceProofs` | — | the same about `AcceptLoop` and about `Service` with `Migration` and `Trust` |
| `BackgroundProofs` | — | the same about `Jobs`, `Sweep` and `Watcher` |

In every module the definitions called slips are versions of an action or an
operator with one plausible mistake in it. No specification uses them; each is
substituted for the definition it is a version of to see that a property notices.

**Quarantine.** `files` is what lies at each path, `dirs`, `manifest` and `payload`
the store's tree, `worker` each thread's program counter and locals. A thread goes
`TakeStart`, `Claim` (one turn of the loop of `claim_id`), `WriteManifest`,
`MoveIn`; or `RestoreStart`, `PutBack`, `Mark`; or `DeleteStart`/`PurgeStart`,
then `remove_dir_all` as `RemoveManifest` and `RemovePayload` in either order and
`RemoveDirectory`. `RemoveFails` and the failing disjuncts stop it anywhere,
`TornWrite` leaves a manifest unreadable, `Crash` ends all threads at once (the
agent being killed, or the process ending at a stop with connection threads still
running). `Appear` and `UserDeletes` are the rest of the machine. `fate`, `birth`
and `doomed` are history variables. Three specifications share the actions:
`Spec`, everything the code allows; `FreshSpec`, in which no id is claimed twice
(an id holds the second of its claim, so this is what one second between a
deletion and the next take gives); `SerialSpec`, one request at a time with ids
reused as the code reuses them.

**Vault.** The mapping reads a file as held when it is a payload, outside when it
is at a path, gone otherwise; links and what lies out of bounds are never held.
Under `SerialSpec` every step of `Quarantine` is a
step of `Vault` or none (`ImplementsVault`: run and theorem).

**Moves.** As above for `move_file` and `undo_move`. `held` is the set of item
directories of the quarantine, the only thing `allocate_id` looks at; it changes
freely. `origin` is history, where a moved file was; so is `outrun`, the threads
whose destination was filled after they had looked at it. `SpacedSpec` gives no two
records one id; `SettledSpec` moreover undoes a move only once it is over;
`SerialSpec` serves one request at a time and gives ids as the code does.

**AcceptLoop.** The loop is `Check`, `Create` (or `Refused`, `CreateFails`),
`Accept`, `Recheck`, then `TurnAway` or `Admit` and `Spawn`. Each slot is a pipe
instance with its server end, client end and handler thread. `Signal` raises the
flag, then `Poke` opens the pipe as a client would. `Panics` ends a handler thread
with its place still counted; `fallen` is history, how many have. `OtherStarts` is
another server that takes the name whenever the agent has no instance of it:
"first" before the agent was ever given one, "later" after.

**Jobs.** `Report` puts a report in an unbounded channel without waiting;
`Forward` writes it to the wire; `Drained` ends the forwarding once the worker is
gone and the queue empty; `Reply` writes the answer. `Stop` is another
connection's `CancelJob`. A panic, a failed write, an answer that is too large and
a client that hangs up are actions.

**Sweep.** `rows` is the `sightings` table. `Collect` reads the machine with some
sources unreadable (perhaps after part of what they hold was read), `Commit`
compares and writes in one transaction, `Abort` rolls back. `told` is what a
reader who believes every report so far would say of each thing; `observed` is
what the last sweep that could read it saw.

**Watcher.** `baseline` stands for both key sets of the code, which are kept,
compared and dropped together. A pass sees what is there, less what belongs to
accounts that are not signed in (`dark`) and less any set of entries whose place did
not read (`unread`, chosen at each `Snapshot`; the code looks at neither gap).
`unseen` is history: what the pass that learned the machine could not see. `wait`
counts seconds, looks at the flag at each and at the setting at every
`CheckEvery`-th.

**Connections, Settings, Firewall, Decoys, CacheClear, Agent.** `Connections` is
what every request has in common: a caller who is trusted or not, elevated or not
and has a profile or not; the gate; and an end in which the handler says what it
did (`Changed`, `Refused`, nothing), the store takes the audit entry or fails, and
the caller is answered. The four handler modules follow the calls to Windows in
between, each of which may fail, while others edit the same rules (`Firewall`),
put their own file at a decoy's path (`Decoys`), hold files open, write into a
cache while it is cleared, swap a root, a folder above it or one below it for a
link, or edit the files that say where the cache is (`CacheClear`), or hold a setting
by policy (`Settings`). `CacheClear` keeps apart what the gate located (`judged`) and
what the clear did (`roots`), counts in `gone` what has left the roots of a request
at anybody's hands, and in `misled` what the count went wrong by where it measured
through a link or its second look did not list everything. `Agent` puts
them together with `HandleElsewhere`, in which every other request of the protocol
ends in one of the outcomes its handler has: whether anything changed, the entries
it leaves and its answer. `Partly` names the requests that can fail half done.

**Window, Consent, Recycle, Lookup, SignIn, Shell.** A call of the web view is a
record with a program counter, a command and what the window is shown at the end.
In `Consent` the window makes an empty file and starts the approved copy; the copy
makes the request, writes the answer and exits, and can be ended at any step; the
window then reads file and exit code. `Recycle` counts the bin, performs, counts
again, records; others use the bin in between. `Lookup` sends a hash and reads a
reply that may be missing, cut or somebody else's, and compares versions of a
release. `SignIn` has the Run value and the remembered choice, each written by a
call of its own, and the window, icon and handles of the process. `Shell` lets
several calls run, the process quit and start again, and others act.

**Trust, Migration, Service.** `Migration` has, per store, what is in the
file and in the write-ahead log, and per agent the open transaction; a power cut
may take back the log's last commits. `Service` installs from a folder `Trust` has
judged, starts, closes the store's folder to others, opens store and quarantine,
serves, is stopped, crashes and is restarted by the control manager (external).
A stop raises the flag (`stop`); `heard` says that the loop has been brought to look
at it. At its end are the commands at a terminal, one or more requests each, such as
auditing and then decoys. Any decoy may fail to be written, armed or removed; the
answer has a line for it (`objected`), which the command drops.

**Decisions.** What the agent decides without keeping state is written as
operators and compared with a reference definition: that a path's spelling does
not matter (`Duplicates`), that the resolved place and not the asked one is fenced
(`Duplicates`, `Leftovers`), that a total counts every directory once
(`Leftovers`), that a folder's total is the files below it and a rebuilt path leads
back (`Table`), that the index and the walk agree on a disk where nothing fails and
no file has two names, and by how much they may differ on others (`Space`), that a gap covers what
was not read and no more (`Anchors`), that a quiet answer has its facts
(`WeeklyCheck`). Five more are small machines: the search for duplicates
(`Duplicates`), the measuring of a leftover (`Leftovers`), a Defender scan
(`WeeklyCheck`), the listing of a key (`Anchors`) and the reader and parsers of the
file table (`Table`). `Decisions` puts one question, or runs one of the machines
to its end, per behaviour: `study` says which, `input` what it is put about, and the
variables of a machine that is not run stay as they are. The inputs are the constant
`Inputs`, a set for each question. `InputsAssumption` says what kind of thing each
set holds, so a theorem is about every list of copies, every path, every machine and
so on that is of the kind, and `MCDecisions` gives finite sets of them.

## 3. Runs and their bounds

| Run | Instance | Checks |
|---|---|---|
| `QuarantineFresh` | 2 threads, two files that share a home and a folder, `FreshSpec`, 1 suffix in each of 2 seconds, retention of 1 | `TypeOK`, `Labelled`, `AtHome`, `Conserved`, `DestroyedOnRequest`, `PurgeHonoursRetention` |
| `QuarantineSerial` | 1 thread, a file, a folder and a link that share a home, a file on another volume, `SerialSpec`, 2 suffixes in one second, ids reused | `NeverOverwritten`, `ImplementsVault` |
| `Moves` | 2 threads, two files with a destination each, `SpacedSpec`, 1 suffix in each of 2 seconds | `Trail`, `MovesAreSafe` |
| `Accept` | 3 pipe instances, as many places | `PlacesAndInstances`, `NameIsOurs`, `ListensAgain`, `StopIsHeeded` |
| `Jobs` | 2 jobs, 2 reports each, room for 1 frame in the pipe | `StopsTheRightJob`, `LeavesInOrder`, `JobsAreAnswered` |
| `Sweep` | one sweeper, two services, one whose name extends the other's, three kinds of gap, threshold of 2 | `ChangesSurface`, `BlindnessProvesNothing`, `NoFalseAlarm` |
| `Watcher` | two entries, one of an account that signs in and out, either hidden by a failed reading at any pass, memory of 1 | `OnlyWhatArrived`, `NoneMissed`, `WatcherObeys` |
| `Agent` | 2 connections, 2 requests served, 2 acts of others, 1 at the caches | `AuditIsTrue`, `ReportsAreTrue`, `OnlyForAdministrators`, `OthersThingsStay` |
| `Shell` | 2 calls, 2 commands, 3 acts of others, launches or closings | `ConsentIsHonest`, `RemovalsAreTold`, `CalmOnlyWhenRead`, `ComesAndGoesAsChosen` |
| `Startup` | the service, an older and a newer console run, schemas 3 to 6, 2 faults, 1 command, two folders, one decoy | `StoreOpensWhole`, `ServiceIsHonest`, `StopIsHonoured`, `ComesBack` |
| `Decisions` | see below | `DiskIsReadTrue`, `RemovalsAreFenced`, `GapsAreAdmitted`, `VerdictsAreEarned`, `IndexIsTrue` |

`MovesSameSecond` expects a violation of `Trail` (section 4).

Some properties are conjunctions, stated at the end of the component's module
(`DiskIsReadTrue` and `ComesBack` in their MC module); TLC names the conjunct
that fails. Their parts, each stated and explained in its module:

* `MovesAreSafe`: `MovesTypeOK`, `NothingReplaced`.
* `PlacesAndInstances`: `AcceptTypeOK`, `PlacesGivenBack`, `NoInstanceLeaks`.
  `NameIsOurs`: `PokeNeverServed`, `NeverSharesName`.
* `StopsTheRightJob`: `JobsTypeOK`, `Remembered`, `StoppedOnlyWhenAsked`.
  `LeavesInOrder`: `JoinedBeforeLeaving`, `AnsweredInFull`. `JobsAreAnswered`:
  `JobsEnd`, `EveryCallerHears`.
* `ChangesSurface`: `SweepTypeOK`, `NothingAbsorbed`. `OnlyWhatArrived`:
  `WatcherTypeOK`, `OnlyArrivals`. `WatcherObeys`: `StandsDown`, `WatcherStops`.
* `AuditIsTrue`: `AgentTypeOK`, `ChangesAreRecorded` (what was changed is in the
  log, unless the store refused the entry), `RefusedChangesNothing`.
  `ReportsAreTrue`: `ClaimsAreTrue` (decoys listed are there and armed as listed),
  `TallyIsTrue` (files said to be cleared are gone). `OthersThingsStay`:
  `ForeignRulesStay`, `OwnersFileStays`, `LinksNotFollowed`.
* `ConsentIsHonest`: `ShellTypeOK`, `RightsAreEnough`, `ToldTheTruth` (the window
  does not say nothing changed when something did). `RemovalsAreTold`:
  `LogNeverLeads`, `CountedAlone`. `ComesAndGoesAsChosen`: `StaysAsChosen`,
  `HandlesBounded`.
* `StoreOpensWhole`: `ServiceTypeOK`, `StoreIsWhole`, `NeverStuckOnSchema`,
  `OpenedIsUsable`, `ClosedBeforeOpened`. `ServiceIsHonest`: `StoppedMeansStopped`,
  `InstalledAsSaid`, `UnwatchedOnlyAfterAnError`. `ComesBack`: `CrashIsRecovered`,
  `StartsEnd`.
* `RemovalsAreFenced`, `GapsAreAdmitted` and `VerdictsAreEarned` have seven or eight
  parts each, one per decision or machine, listed at the end of `Decisions`.
  `IndexIsTrue`: `TableIsRead`, `TotalsCountOnce`, `FoldersAddUp`, `RecordsAreFound`.
  `DiskIsReadTrue`: `ReadingEnds`, `WindowAddsUp`, `BothRoutesAgree`.

The bounds. Two threads are enough for every pairwise race of the store, and the
theorems of section 6 remove the bound for the invariants. `QuarantineFresh` needs
only one id a second, since `FreshSpec` claims none twice; `QuarantineSerial` has
two in one second, so that one is in use, freed and claimed again. The clock of
`QuarantineFresh` reaches the retention, so a purge has items to leave and items to
take. `Accept` has as many places as pipe instances, as the code has
(`server.rs:21`); the branch that turns a client away is then reached only when
handlers have panicked, whose places stay counted while their instances are closed
(section 4). Room for one frame is full after one report, and the second waits in
the channel.
Sweeps are unbounded in number: flap counts stop at the threshold, past which the
code does not tell them apart. `Interval` 3 and `CheckEvery` 2 give a wait a second
with a look at the setting, one without, and a last one.

`Agent` serves two requests, at once or one after the other. `Groups` says which
are served together: those whose handlers share state (block and unblock, decoys
with decoys, a cache with a cache, the schedule with the schedule); any other pair touches
nothing in common, and such a request is served alone. Two acts of others are one
before and one after the look a handler makes; at the caches, where an act may be one
of many, one is let happen, before, during or after the clear. One decoy file and one decoy key,
one cache of the machine and one that lies in the profile and wherever the caller's
files say, and a rule name carried
by at most two rules of each owner are the smallest catalogue with every branch.

`Shell` groups the commands in the same way. Three acts are enough for: start,
choose, quit, start again. One item fits the bin and one does not.

`Startup` has three builds, so that a store is newer than one agent and older than
another; four schemas, so that a migration has more than one step to stop
between; two faults, so that a recovery is itself interrupted. One of its folders
belongs to Administrators, the other, with the same list, still to the account that
unzipped it. The lists of access entries that decide more finely are put to `CheckInstallDirectory`
by `Decisions`. One decoy shows every order of recording and planting.

`Decisions` puts each question over all inputs up to a size: paths of up to four
names, in every spelling; two accounts; tables of at most four records beside the
root, in every arrangement of parents, with sizes that are powers of two so that a
total tells which records are in it; disks that are such a table with at most one
file under a second name and at most one name that ails (a folder that will not open,
a name the listing fails at, one without metadata, a worker that is lost); commands of
at most four tokens; a sitting of
at most two places that fail and one that is absent. Its machines have three files,
two hashing threads and a budget of 4 (files of length 1 and 2, so that the budget
ends between two of them), of which any may not open or read; leftovers of up to six files, of which four are
counted; two detections; three services, two writes by others, two ticks of the clock
and one retry; two parsers, reads of two records and two short reads.
The services of one listing all hold the same (`holds` is uniform), as what a
service holds plays no part in whether it is listed.

Deadlock is not checked where a bound or a finished stop may leave nothing to do;
in `Sweep` and `Watcher` it is. `Table` has a property of its own for it
(`NobodyWaits`): reader and parsers are never all waiting with work left.

Assumed of what is outside: the history of Defender shows a detection within the
looks `LookAgain` makes for it; a value of the remembered choice that exists can be
read; Windows' abort flag says truly whether an operation on the bin was aborted.

## 4. Where the code and its comments disagree

`MovesSameSecond` is a run that expects a violation: two moves in one second share
a record, and the first file can no longer be put back. The line it contradicts is
in `PROJECT.json`.

Seen in the models while they were written, and allowed for in the properties or
left out by a stated assumption.

Quarantine and moves:

* an id freed by a deletion is claimed again in the same second while a restore of
  it is under way, and a file ends at another's path (`lib.rs:569`); `FreshSpec`
  leaves this out, and `AtHome` is false of `Spec`;
* a file that appears between the look of a restore or an undo and its rename is
  replaced, where the rename can replace it;
* a deletion cut short may leave a payload with no manifest, which `list` skips;
* undo moves whatever lies at the destination, a file put there since included
  (`lib.rs:492`); so of two files moved to one name, one after the other, the record
  of the first moves the second, and `Trail` is proved where no two files have one
  destination (`OneSourceEach`);
* the record of a move is there before its rename (`lib.rs:461`), so a move can be
  undone while it is under way: the undo, meeting an older file at the destination,
  puts that one back and marks the record, and the move then leaves a file that no
  record leads home. It takes three threads, one more than the run has; the proof
  met it, and `SettledSpec` leaves it out.

The agent:

* the cap equals the number of instances (`server.rs:21`), so the limit is met as a
  failed `CreateNamedPipeW` and the deliberate refusal is not, unless a handler has
  panicked: its place stays counted until the agent is started again
  (`server.rs:80-85`), and after as many panics as there are places every client is
  turned away;
* clients that connect and never ask hold every instance for good; the agent reads
  with no time limit, and `ListensAgain` has the premise that who connects asks
  (`Talkative`);
* the claim on the name is spent by the first instance. When the agent has none for
  a moment, another server may take the name, and the agent then makes an ordinary
  instance beside it, or fails to (`pipe.rs:384-388`); `NeverSharesName` is about a
  server that had the name before the agent first got it;
* a stop signalled between two pipe instances finds none to poke and is not seen
  until somebody connects (`service.rs:73-78`); `StopIsHeeded` has the premise that
  somebody does, and `StopIsHonoured` begins where the loop has been brought to look;
* the threads of connections are detached (`server.rs:73-81`): Stopped is reported,
  and the process ends, with whatever they are doing;
* if `serve` fails, the thread of the service waits in `watcher.join()` with no stop
  signalled, so that Stopped is not reported (`service.rs`, about 139);
* a start that fails reports Stopped with exit code 0, for which Windows takes no
  recovery action, a start made by the recovery from a crash included: the agent is
  then down until a boot or a person starts it (`CrashIsRecovered` ends there); and recovery does not end after its last configured action,
  which Windows repeats;
* a stop that overtakes its job is acknowledged and has no effect
  (`dispatch.rs:668`); a job that panics is never forgotten (`dispatch.rs:50`, `326`);
* of two overlapping sweeps the older collection can be committed last
  (`dispatch.rs:711`);
* a `SetHardening` that was accepted and did not take is audited as changed, and a
  restore, an undo or a deletion that fails half way as refused;
* turning auditing off is not the "exact inverse" (`kam-canary/audit.rs:282`) of
  turning it on: a machine that recorded reads before, or failures too, is left
  recording neither;
* the terminal drops the answers to the first two of three requests
  (`main.rs:236-239`, `244-246`). A decoy that cannot be planted, armed or removed is a
  line in such an answer and never an error (`dispatch.rs:976-1003`), and one whose
  `exists()` fails counts as absent; so recording may be switched off over a
  decoy that stayed. `UnwatchedOnlyAfterAnError` says that some answer had
  said so;
* an entry of an access list of another type than allow and deny (callback, object) is
  not interpreted (`trust.rs:170-175`); `InstalledAsSaid` and `TrustedIsClosed` are
  about lists without one;
* a refused weekly task leaves the scheduler's folder of this product, made before
  the registration (`kam-schedule/lib.rs:281`); it is not counted as a change
  (`RefusedChangesNothing`);
* a cache is located at the gate (`server.rs:158`) and again at the clear
  (`caches.rs:656`), from files the caller can edit (`steam.rs:84-110`), and is the
  machine's if the text of its path lies outside the profile (`caches.rs:680-695`); a
  link in a folder above a root is not looked for (`caches.rs:510-535`).
  `OnlyForAdministrators` is about what the gate judged, and `LinksNotFollowed` about
  links at a root and below it; what a link above a root leads to is cleared;
* a clear counts and removes what appears in a cache after it began
  (`caches.rs:568-631`); it measures a folder and subtracts what a second look finds, so
  that what others take away in between is counted as cleared, what lies behind a
  folder that became a link is, and so is what the second look does not list.
  `TallyIsTrue` bounds the count by what left the roots, the last two apart;
* two clears of one cache at once may both count a file that one of them removed;
* a decoy is written after its path was seen to be free; a file that appears between the two
  is written over (`kam-canary/lib.rs:268` says "never overwritten").

Reading the machine:

* what one sweep could not read and no earlier one had seen, the next calls new
  (`db.rs:414`). The watcher never looks at what a survey could not read
  (`watch.rs:143-160`): what was there when the watch began, in a Run key, a Startup
  folder, the services or the tasks that failed to read, is an arrival at the next pass,
  where its comment (`:139-141`) speaks of "a baseline of what was already there"
  (`OnlyArrivals` excepts what the pass that learned the machine could not see);
* an entry removed and put back is still in the watcher's baseline (`watch.rs:149`); what an account has always started is an arrival when it signs in;
* an account that signs out between the list of accounts and the reading of its
  hive has its entries reported as gone (`persistence.rs:594`, `baseline.rs:180`);
  one with no profile path has a Startup folder in no gap (`baseline.rs:326`); a
  service whose display name fails to read changes identity (`persistence.rs:1032`);
* a registry key written twice in one tick of its clock looks unwritten, as the code
  admits; the type of a string is checked in the first of two calls only;
* `cmd /c` followed by a program's name is judged as `cmd` itself;
* the key of a detection includes a name that depends on whether the threat
  catalogue could be read (`defender_scan.rs:168`), so an old one may look new;
* an unreadable policy key counts as absent (`hardening.rs`); the weekly check
  reports definitions past seven days twice, and has nothing to report over a Defender
  that left some of its protections unreported (`check.rs:62-76`), of which
  `defender.rs:128-130` says that "anything summarising this status has to say so".
  `QuietPanelIsHard` is about policies that could be read, and `WeekIsEarned` passes
  over Defender's gaps.

The disk:

* a read of no bytes leaves the rest of a run unread and shifts the numbers of the
  records after it (`mft.rs:725`);
* the number of directories includes the root by the table and not by the walk; the
  total counts files no folder leads to; the largest files are cut to their number
  before those without a path are dropped, and paths end at 64 levels;
* `split_path` keeps the drive letter of an extended path (`index.rs`);
* two applications with nested directories both count the inner one (`apps.rs`);
* a folder is a leftover when no installed name or publisher matches its name. One
  that a program says it is installed in, under another name, is attributed to the
  program and offered as a leftover (`apps.rs:358`, `orphans.rs:141`), where the comment
  at `orphans.rs:139` says "the two views cannot disagree". `LeftoversAreNobodys` is
  about folders attributed by name;
* the walk counts a file once for each of its names, as `scan.rs:23-25` says, and the
  table once. A listing that breaks off, and a thread that is lost with the folders it
  was given, leave the walk short without a word (`scan.rs:446`, `532`); a name without
  metadata is counted as unreadable (`450-453`). `BothRoutesAgree` has exactly these;
* a reservation past the ceiling of the duplicate search is never given back, and the
  results of a hashing thread that panics are dropped; files that will not open or
  read drop out without a word (`duplicates.rs:853-860`, `876-879`), any number of
  them;
* `check_removable` does not ask whether another copy remains, and whoever removes a
  path uses it some time after it was judged; the sentence that all copies are in
  folders of yours is also said with one in the bin;
* a folder of a leftover that cannot be listed is left out of its size, which is not
  then called partial (`remnants.rs:233`);
* leftover shortcuts are matched against refused paths too, and the second loop over
  shortcuts adds nothing (`remnants.rs`).

The shell:

* a removal nobody could confirm is shown with a warning and recorded in the log as
  one to the bin (`recycle.rs:63`); an item Windows deleted outright is taken to have
  arrived when somebody else's does between the two counts (`recycle.rs:84`, against
  `:28-33`);
* a start entry whose second write fails is there without a remembered choice; the
  default of the first run replaces an entry that points elsewhere, which
  `startup.rs:50-52` says is reported; a turn-off whose second write fails is undone
  at the next launch;
* a lookup that fails after the hash was sent is not recorded (`lib.rs`, about 990);
* pre-releases of one version are not told apart.

## 5. Fairness

* `AcceptLoop`: the loop's thread, the thread that stops the service and each
  handler thread run; a client that has asked reads its reply or hangs up.
  `ListensAgain` holds on the premise `Talkative`, that who connects asks or leaves.
  `StopIsHeeded` holds on the premise `Polled`, that clients connect and ask, which
  the shell's polling of the agent gives while a window is open. Without it a stop
  can be lost (section 4).
* `Jobs`: the worker and the connection's thread run; no mishap is counted on to end
  a job. `EveryCallerHears` holds on the premise `ClientsRead`,
  which `client.rs` gives by reading in a loop; `JobsEnd` does without.
* `Watcher`: the watcher's thread runs. Nothing is assumed of the switch, the stop
  or the accounts.
* `Service`: the threads of the service run (`InitTracing`, `ReportRunning`,
  `SecureStore`, `OpenStore`, `OpenQuarantine`, `ServeReturns`, `WatcherEnds`,
  `ReportStopped`), and Windows restarts a crashed service as the recovery actions
  the installation configured say (`Recover`). Nothing is assumed of starts, stops,
  crashes or console runs, and nothing of `SomebodyConnects`: `ServeReturns` is enabled
  by a stop only once the loop has been brought to look at it (`heard`), by the
  handler's own poke or, when that came between two instances, by somebody's next
  opening of the pipe. That it then returns rests on what `Accept` shows.
* The other modules state safety only and assume none.

## 6. What is proved

Every safety property a passing run checks is proved for every value of the
constants, except `DiskIsReadTrue`. The runs show the properties, and the inductive
invariants below, on small instances; the theorems take the bounds away.

| Theorems | Of | Premise |
|---|---|---|
| `TypeCorrect`, `ConservedAlways` | the quarantine | none: everything the code allows |
| `LabelledAlways`, `AtHomeAlways`, `DestroyedOnRequestAlways`, `PurgeHonoursRetentionAlways` | the quarantine | no id claimed twice (`FreshSpec`) |
| `NeverOverwrittenAlways`, `ImplementsVaultAlways` | the quarantine | one request at a time (`SerialSpec`) |
| `MovesAreSafeAlways` | the move journal | none |
| `TrailAlways` | the move journal | `SettledSpec` and `OneSourceEach` |
| `PlacesAndInstancesAlways`, `NameIsOursAlways` | the accept loop | none |
| `StopsTheRightJobAlways`, `LeavesInOrderAlways` | jobs | none |
| `ChangesSurfaceAlways`, `BlindnessAlways` | sweeps, overlapping ones too | none |
| `NoFalseAlarmAlone` | sweeps | no two at once (`OneAtATime`) |
| `OnlyWhatArrivedAlways` | the watcher | none |
| `AuditIsTrueAlways`, `ReportsAreTrueAlways`, `OnlyForAdministratorsAlways`, `OthersThingsStayAlways` | dispatch and its handlers | none |
| `ConsentIsHonestAlways`, `RemovalsAreToldAlways`, `CalmOnlyWhenReadAlways`, `ComesAndGoesAsChosenAlways` | the shell | none |
| `StoreOpensWholeAlways`, `ServiceIsHonestAlways` | start, migration, stop, terminal | none |
| `RemovalsAreFencedAlways`, `GapsAreAdmittedAlways`, `VerdictsAreEarnedAlways`, `IndexIsTrueAlways` | the decisions and the five machines | none |

The premises leave out what section 4 tells of and the code allows: an id freed and
claimed again within its second, a file that arrives between a look and a rename, an
undo of a move that is under way, two sweeps of which the older ends last.

Each module of proofs has the same shape: an inductive invariant whose parts are
named, one lemma per action or group of actions that it is kept, the parts an action
can disturb under it, and a last step of temporal logic.

**Quarantine.** `Conserved` is inductive with `TypeOK`: every rename takes a file
from one place to one other. The theorems about `FreshSpec` need `IInv`, which adds

* `ClaimedInv` — only claimed directories exist, hold anything or are worked on;
* `PathInv` — manifest, payload and threads agree on the path an id was claimed for;
* `OwnerInv` — the take that claimed an id is alone on it until its rename and the
  clearing up after it; an item with a payload, and one that was restored or is
  about to be marked so, has no owner left;
* `HeldInv` — an item nobody has asked to delete says held from before its rename;
* `TimeInv` — the second in an id is not after the time in its manifest;
* `PurgeInv` — a purge goes on where the retention is over, or where there is no
  payload and nobody left to bring one.

Without `OwnerInv` a cleanup after a failed rename could remove another's item;
without `PathInv` a restore could hold the manifest of one item and the payload of
another. The theorems about `SerialSpec`, where ids are reused, need `SerialInv`:
one thread at most is not idle (`AloneInv`), a directory that is not there holds
nothing and a manifest beside a payload says its home (`TreeInv`), and what a request
saw when it began is still so at its rename (`RequestInv`). From it the refinement
follows call by call: the rename in is Vault's take, the rename back its restore,
the removal of the payload its deletion, and every other call, every failure and every
crash leaves Vault where it is.

**Moves.** What a thread aims at was free when it looked, or has been filled since
(`AimInv`). For the trail: a file is in one place, a record that is there was written
under an id of its own, a thread goes by the record it wrote or read, two moves under
way have two ids, and a moved file has a record nobody is about to change
(`FileInv`).

**AcceptLoop.** The loop holds an instance from its creation until it is served or
closed (`HolderInv`); an instance admitted after a look at the flag has a client that
is not the poke (`PokeInv`), because the poke comes after the flag; until the name is
claimed there is no instance (`ClaimInv`). The count of places needs the cardinality
of the set of connection threads, which grows and shrinks by one.

**Jobs.** A connection's three threads start together, and the channel is empty once
the handler has left its loop (`HandlerInv`); a result on the wire is the last frame
there (`WireInv`).

**Sweep.** Row, belief and last look agree thing by thing (`RowsInv`), whatever a
sweep finds of it (`ThingInv`): this is what lets two sweeps overlap.

**Watcher.** What was there when the watch began, and the first pass could see, is in
the baseline once that pass is over (`LearnedInv`).

**Agent.** `ConnInv` (what a handler did and what it owes the log agree; a request
that is being handled has a caller who may ask for it), `FirewallInv` (a removal under
way counted nobody else's rule), `DecoyInv` (what a plant has in hand, and what it
lists, while the owner may come between), `CacheInv` (no root that is a link is held;
what a request has counted, and what it has measured and not yet counted, is within
what has left its roots, is in them still or was misread). Each is kept by the steps of
its own module, and by those of the others because they leave its variables alone.

**Shell.** The same, one call at a time: `ConsentInv` relates the approved copy's
step, the file and the exit code to whether the change was made; `RecycleInv` the two
counts to where the item went, as long as nobody else used the bin; `LookupInv` what
is shown to the reply; `SignInInv` the choice to what the person was told.

**Service.** `StoreInv` says of each agent that the lock is its own exactly inside its
transaction, that the steps before its next are in the store, what its transaction has
made of the store so far (`TxnInv`), and that what it opened has every step it needs.
Without `TxnInv` a commit could write anything; that the version read before
the lock may be stale is why `ReadAgain` is needed, and the proof uses it there and
only there. A power cut takes back commits, and every process with them, so nothing
opened is left behind. `ServiceInv` says that Stopped is believed of a process that is
gone, and that a registration marked for deletion is not said to be installed; that an
installed agent's folder is closed rests on `CheckedIsClosed`: a folder
`CheckInstallDirectory` lets pass, with a list of any length, is one in which Windows'
own decision (`MayUse`) refuses an account with no standing, if every entry of the list
is one the check interprets (`ReadInFull`). `TerminalInv` says how far a command has
come: before decoys are planted recording is on, or all of them were objected to;
before it is switched off every decoy left was.

**Decisions.** `Asked` says that the input in hand is one of the question's, so each
question is a lemma about its operators for every input of the kind.

* `RemovalsAreFenced`: the judgement orders copies by rank (`Rank` is a permutation,
  because the order of copies is total), and one of those that come first is kept; a
  path with its spelling stripped is one path; what resolves inside a place is judged
  there, so that the fence around the places of Windows, of programs and of others
  holds whatever was asked for; an access list of any length that passes, and is of
  entries the check interprets, leaves an account with no standing nothing.
* `GapsAreAdmitted` needs `GapsInv`. Of the search (`Searching`): as long as nothing
  was truncated or cancelled, two files that hold the same and could be read are in
  one unit that is still pending with one thread, or are already reported together;
  and what was read is at most what was reserved for it, and within the ceiling. Of
  the measuring (`Measuring`): what was counted and what lies beneath the stack make
  up the tree, for any tree. Of the survey (`KeyInv`): a walk whose key was not
  written has read a prefix of it, which is why count and time together settle it.
* `VerdictsAreEarned` needs `ScanInv`: what is known of the past was read of it before
  the scan, and no caveat is given up on the way to the last look.
* `IndexIsTrue` needs `IndexInv`. While the table is read, the sectors taken so far
  are a prefix of the table, what is carried over is the half record at its end, and
  what is left is what follows (`ReadUpTo`); every record framed is in exactly one
  block, every block is queued or with one parser, and each parser has its own in
  order (`Flow`). From these the parsers' results, put in order, are the table block
  by block (`MergedIs`), whichever parser was faster. `cut`, which is history, marks
  a table of which a read gave no bytes (section 4); there nothing is claimed.

  Of the index nothing is assumed but finitely many entries: parents may be missing,
  be files, or go round. `Above` is the least set closed under parents (`AboveIs`),
  and no folder that hangs from the root is above itself (`NoRound`), which is what
  keeps a file from being summed twice. The loop of `total_directories` keeps
  `Sound`: every folder met is on the stack or has its total; a folder that waits to
  be summed has each folder in it above it on the stack or summed already; and a
  total once written is the bytes of the files below (`SumIsTrue`). A folder is on
  the stack once to be opened and once to be summed, so twice as many turns as there
  are records empty it (`LoopIsSound`), and everything that hangs from the root has
  been met (`AllReached`). That a path leads back is an induction on its steps: the
  record is among those each name may find, and any other that is found has come by
  the same names (`ResolvedOn`, `PathIs`).

The sets, sums and sequences these rest on are folds of the community modules, which
are defined by recursive functions over finite sets; `FoldsAgree` and `FoldIsThere`
show once that such a function exists and is unique, by taking a least
counterexample, and the lemmas about sums and flattened sequences follow. `Upto` does
the same for the functions over an interval that count the turns of a loop.

Assumed of the constants: that they have their kinds, that markers are not members of
the sets they mark the absence from, and that counts are at least one where a limit of
none makes no sense. Beyond that: the name a job is known by is its own
(`JobsAssumption`); no build's schema is newer than the newest (`MigrationAssumption`);
`Ordinary` is none of the accounts Windows knows by name (`OrdinaryAssumption`);
commands about the start at sign-in are served with no others at the same time
(`GroupsAssumption`, a bound: their handlers share nothing with the rest). Bounds
that are constants (`MaxServed`, `MaxFaults`, `MaxCommands` and such) are arbitrary.
Of what `Decisions` is asked: directories are finitely many and no data root is in
another (`RootsAssumption`: ProgramData and the two AppData folders of a profile); a
folder is in one place of its tree, which is what not following links gives
(`TreesAssumption`); conhost is on the disk, and no file is called as its switches
(`DiskAssumption`); profiles are not inside one another, and the caller's has no
name a folder of Windows or of a program is told by, nor is a recycle bin anywhere
but at a drive's root (`Machine` and `Resolves` in `InputsAssumption`); a task lies
in folders of the store that are there (`TaskStore`). `SearchAssumption`,
`KeyAssumption`, `TableAssumption`, `IndexAssumption` and `DepthAssumption` only say
what is finite and what is a number.

Only model-checked:

* liveness (`ListensAgain`, `StopIsHeeded`, `JobsAreAnswered`,
  `NoneMissed`, `WatcherObeys`, `StopIsHonoured`, `ComesBack`), which the prover does
  not treat;
* `DiskIsReadTrue`. `ReadingEnds` says that a reader and parsers with work left are
  not all waiting, which is ENABLED. `WindowAddsUp` and `BothRoutesAgree` are about
  the trees of `Space`, which are built, trimmed and walked by recursive operators:
  what those compute for every tree is an induction over data. The totals such a tree
  is built from, and the table they are summed from, are proved (`IndexIsTrueAlways`).

## 7. What is not modelled, and why

* The Windows API behind the scanner, the firewall, the scheduler and the shell
  (WMI, COM, tokens, access lists, HTTP) is input and output, and external: an
  answer, a failure, or something others changed in between.
* Text: the expansion of variables, display names, the reduction of a path to its
  components (`as_place`), which the models start from; wording of every answer.
* Decoding: the bytes of a file-table record, PE files, shortcuts, application
  manifests, event-log records, frames. What they say is the model's data.
* Provenance, weights of behaviour, browser extensions, usage, volumes, the chart's
  queries, the table of connections: readings that are shown and decide nothing else.
* The rate limit of `Reporter`: a report is sent or not, as a choice.
* Rules (a lookup in an embedded table) and the React window (presentation).
* SQLite and the file system are taken at their word: a transaction is atomic, a
  rename on one volume is atomic and replaces a file in the way.
* A clock that goes backwards. `now_seconds` follows the system clock; an id made
  twice because of it is the case `FreshSpec` leaves out.

## 8. Plan

What can be modelled faithfully and decides something is modelled, and its safety,
the trees of `Space` apart, is proved. Left:

1. The trees of `Space` as functions of a bounded depth in place of recursive
   operators, which would bring them within reach of the argument `LoopIsSound` uses
   for the totals: the trimming is a sort and a sum at each level.
2. `Sweep` with more than one sweeper and `Moves` with three threads as runs, should
   the code come to put a lock around either: the premises of `NoFalseAlarmAlone` and
   `TrailAlways` would go.
