------------------------------- MODULE Service -------------------------------
(***************************************************************************)
(* How the agent is installed, started, stopped and brought back            *)
(* (kam-agent/src/main.rs, service.rs, store_acl.rs and the opening half of *)
(* server.rs), over the store of module Migration and with the service      *)
(* control manager modelled from how the code uses it.  A behaviour is      *)
(* about the agents in `hosts`: the service alone, or console runs that     *)
(* share the store beside the build.  The accept loop itself is module      *)
(* AcceptLoop and is one step here.  The commands at a terminal that ask    *)
(* the running service come at the end.                                     *)
(***************************************************************************)
EXTENDS Migration, Trust

CONSTANT Homes      \* folders the agent may be installed from

ASSUME ServiceAssumption == Homes \subseteq AnyFolder

VARIABLES
  hosts,    \* the agents this behaviour starts
  reg,      \* the registration: present, marked for deletion, recovery set
  scm,      \* what the control manager believes of the service
  told,     \* what the last install or uninstall said
  stop,     \* whether the service's shutdown flag is raised,
  heard,    \* and its loop is about to look at it
  due,      \* why the service is to be started unasked: a "crash", a "boot", "no"
  watching, \* agents whose watcher thread is alive
  secured   \* the service's store directory: "no", "yes", or "said" it is open

serviceVars == <<hosts, reg, scm, told, stop, heard, due, watching, secured>>

\* No registration; `home` is the folder its image path is in.
NotRegistered == [present |-> FALSE, deleting |-> FALSE, recovery |-> FALSE, home |-> NoList]

ServiceInit ==
  /\ hosts \in {{Service}, Agents \ {Service}}
  /\ \E v \in Oldest .. Newest : file = [s \in Stores |-> At(v)]
  /\ wal = [s \in Stores |-> <<>>] /\ writer = [s \in Stores |-> NoOne]
  /\ at = [a \in Agents |-> "down"]
  /\ step = [a \in Agents |-> 0]
  /\ txn = [a \in Agents |-> At(0)] /\ cause = [a \in Agents |-> "none"]
  /\ faults = 0
  /\ reg = NotRegistered
  /\ scm = "stopped" /\ told = "nothing" /\ stop = FALSE /\ heard = FALSE /\ due = "no"
  /\ watching = {} /\ secured = "no"

Goes(a, place) == at' = [at EXCEPT ![a] = place]

\* The control manager learns that the service is stopped, and finishes a
\* deletion that was waiting for it.
ScmStopped ==
  /\ scm' = "stopped"
  /\ reg' = IF reg.deleting THEN NotRegistered ELSE reg

-----------------------------------------------------------------------------
(* Installing and removing.                                                  *)

\* A slip: the folder is looked at by its list alone.
InstallByList(home) ==
  /\ Service \in hosts /\ WritersByList(home) = {} /\ ~reg.deleting
  /\ told' = "installed"
  /\ reg' = [reg EXCEPT !.present = TRUE, !.home = home, !.recovery = TRUE]
  /\ UNCHANGED <<file, wal, writer, at, step, txn, cause, faults,
                 hosts, scm, stop, heard, due, watching, secured>>

\* install: refuse an open folder before anything is done; create the
\* registration or repair the one there is; then the description, whose failure
\* ends the install, and the recovery actions, whose failure is only said.
Install(home) ==
  /\ Service \in hosts
  /\ \/ /\ CheckInstallDirectory(home) = "refused"
        /\ told' = "error" /\ UNCHANGED <<reg, faults>>
     \/ /\ CheckInstallDirectory(home) = "ok"
        /\ \/ Fault /\ told' = "error" /\ UNCHANGED reg
           \/ reg.deleting /\ told' = "error" /\ UNCHANGED <<reg, faults>>
           \/ ~reg.deleting /\ Fault /\ told' = "error" /\ reg' = [reg EXCEPT !.present = TRUE, !.home = home]
           \/ /\ ~reg.deleting /\ Fault /\ told' = "warned"
              /\ reg' = [reg EXCEPT !.present = TRUE, !.home = home]
           \/ /\ ~reg.deleting /\ told' = "installed" /\ UNCHANGED faults
              /\ reg' = [reg EXCEPT !.present = TRUE, !.home = home, !.recovery = TRUE]
  /\ UNCHANGED <<file, wal, writer, at, step, txn, cause,
                 hosts, scm, stop, heard, due, watching, secured>>

\* The control handler raises the flag and opens the pipe, so that a loop that
\* waits for a client looks at it.  Between two instances there is no pipe to
\* open, and the loop does not look before somebody else has opened the next.
RaiseStop ==
  /\ stop' = TRUE
  /\ heard' \in (IF at[Service] = "serving" THEN {heard, TRUE} ELSE {TRUE})

\* uninstall: ask a running service to stop, then mark it for deletion, which
\* takes effect once it has stopped.
Uninstall ==
  /\ reg.present
  /\ \/ Fault /\ told' = "error" /\ UNCHANGED <<reg, stop, heard>>
     \/ /\ scm = "start_pending" /\ told' = "error" /\ UNCHANGED <<reg, stop, heard, faults>>
     \/ /\ reg.deleting /\ scm = "running" /\ told' = "error"
        /\ RaiseStop /\ UNCHANGED <<reg, faults>>
     \/ /\ ~reg.deleting /\ scm = "running" /\ told' = "uninstalled"
        /\ RaiseStop /\ reg' = [reg EXCEPT !.deleting = TRUE] /\ UNCHANGED faults
     \/ /\ scm = "stopped" /\ told' = "uninstalled"
        /\ reg' = NotRegistered
        /\ UNCHANGED <<stop, heard, faults>>
  /\ UNCHANGED <<file, wal, writer, at, step, txn, cause,
                 hosts, scm, due, watching, secured>>

-----------------------------------------------------------------------------
(* Starting.                                                                 *)

\* A boot (the start type is automatic), or somebody's `sc start`.
StartService ==
  /\ Service \in hosts
  /\ reg.present /\ ~reg.deleting /\ scm = "stopped" /\ due = "no" /\ at[Service] = "down"
  /\ scm' = "start_pending" /\ stop' = FALSE /\ heard' = FALSE
  /\ Goes(Service, "tracing")
  /\ UNCHANGED <<file, wal, writer, step, txn, cause, faults,
                 hosts, reg, told, due, watching, secured>>

\* A slip: an install that repairs a registration leaves it without recovery.
RecoverNever ==
  /\ due # "no" /\ at[Service] = "down"
  /\ ScmStopped /\ due' = "no"
  /\ UNCHANGED <<file, wal, writer, at, step, txn, cause, faults,
                 hosts, told, stop, heard, watching, secured>>

\* The recovery actions: a process that ended without reporting Stopped is
\* started again, when the registration says so.  A boot starts it anyway.
Recover ==
  /\ due # "no" /\ at[Service] = "down"
  /\ IF reg.present /\ ~reg.deleting /\ (reg.recovery \/ due = "boot")
     THEN /\ scm' = "start_pending" /\ stop' = FALSE /\ heard' = FALSE /\ Goes(Service, "tracing")
          /\ UNCHANGED reg
     ELSE ScmStopped /\ UNCHANGED <<stop, heard, at>>
  /\ due' = "no"
  /\ UNCHANGED <<file, wal, writer, step, txn, cause, faults,
                 hosts, told, watching, secured>>

\* A console run: `kam-agent --console`.
StartConsole(a) ==
  /\ a \in hosts \ {Service} /\ at[a] = "down" /\ cause[a] = "none"
  /\ Goes(a, "tracing")
  /\ UNCHANGED <<file, wal, writer, step, txn, cause, faults, serviceVars>>

\* A process is gone, and with it what it knew of its start.
ProcessGone(a) ==
  /\ Goes(a, "down")
  /\ cause' = [cause EXCEPT ![a] = "none"]
  /\ secured' = IF a = Service THEN "no" ELSE secured

\* The process is gone without a word to the control manager.
ProcessEnds(a) ==
  /\ ProcessGone(a)
  /\ due' = IF a = Service THEN "crash" ELSE due
  /\ scm' = IF a = Service THEN "stopped" ELSE scm

\* init_tracing: the log file is what a service is heard by, so without it
\* nothing starts.
InitTracing(a) ==
  /\ at[a] = "tracing"
  /\ \/ Goes(a, IF a = Service THEN "register" ELSE "open")
        /\ UNCHANGED <<faults, due, scm, cause, secured>>
     \/ a = Service /\ Fault /\ ProcessEnds(a)
  /\ UNCHANGED <<file, wal, writer, step, txn, hosts, reg, told, stop, heard, watching>>

\* run_service: the control handler is registered and Running reported, before
\* the store has been opened.  When either fails the process ends as it is.
ReportRunning ==
  /\ at[Service] = "register"
  /\ \/ /\ scm' = "running" /\ Goes(Service, "secure")
        /\ UNCHANGED <<faults, due, cause, secured>>
     \/ Fault /\ ProcessEnds(Service)
  /\ UNCHANGED <<file, wal, writer, step, txn, hosts, reg, told, stop, heard, watching>>

\* A slip: the directory is closed only once the store is open.
SecureStoreLate ==
  /\ at[Service] = "secure"
  /\ Goes(Service, "open")
  /\ UNCHANGED <<file, wal, writer, step, txn, cause, faults,
                 hosts, reg, scm, told, stop, heard, due, watching, secured>>

\* open_store closes the directory before the file in it is opened; when that
\* fails it says so, and goes on.
SecureStore ==
  /\ at[Service] = "secure"
  /\ \/ secured' = "yes" /\ UNCHANGED faults
     \/ secured' = "said" /\ Fault
  /\ Goes(Service, "open")
  /\ UNCHANGED <<file, wal, writer, step, txn, cause,
                 hosts, reg, scm, told, stop, heard, due, watching>>

\* Store::open and its migration.
OpenStore(a) == MigrateStep(a) /\ UNCHANGED serviceVars

\* open_quarantine, and the watcher thread, whose absence is only logged.
OpenQuarantine(a) ==
  /\ at[a] = "opened"
  /\ \/ Goes(a, "serving") /\ watching' = watching \cup {a} /\ UNCHANGED <<cause, faults>>
     \/ Goes(a, "serving") /\ Fault /\ UNCHANGED <<watching, cause>>
     \/ Fault /\ FailedToOpen(a, "fault") /\ UNCHANGED watching
  /\ UNCHANGED <<file, wal, writer, step, txn,
                 hosts, reg, scm, told, stop, heard, due, secured>>

-----------------------------------------------------------------------------
(* Stopping.                                                                 *)

\* The control handler: Stop and Shutdown, as often as somebody asks.
HandleStop ==
  /\ scm = "running" /\ at[Service] # "down"
  /\ RaiseStop
  /\ UNCHANGED <<storeVars, hosts, reg, scm, told, due, watching, secured>>

\* Somebody opens the pipe, and the loop looks at the flag before it serves.
SomebodyConnects ==
  /\ at[Service] = "serving" /\ stop /\ ~heard
  /\ heard' = TRUE
  /\ UNCHANGED <<storeVars, hosts, reg, scm, told, stop, due, watching, secured>>

\* serve returns: told to stop, or its own directory could not be resolved.
ServeReturns ==
  /\ at[Service] = "serving"
  /\ \/ stop /\ heard /\ UNCHANGED faults
     \/ ~stop /\ Fault
  /\ Goes(Service, "joining")
  /\ UNCHANGED <<file, wal, writer, step, txn, cause, serviceVars>>

\* A slip: the watcher looks at the flag only while the loop is serving.
WatcherEndsServing ==
  /\ stop /\ Service \in watching /\ at[Service] = "serving"
  /\ watching' = watching \ {Service}
  /\ UNCHANGED <<storeVars, hosts, reg, scm, told, stop, heard, due, secured>>

\* The watcher finishes its current second and sees the flag.
WatcherEnds ==
  /\ stop /\ Service \in watching
  /\ watching' = watching \ {Service}
  /\ UNCHANGED <<storeVars, hosts, reg, scm, told, stop, heard, due, secured>>

\* A slip: Stopped is reported while the watcher is still running.
ReportStoppedEarly ==
  /\ at[Service] \in {"joining", "failed"}
  /\ ScmStopped /\ ProcessGone(Service)
  /\ UNCHANGED <<file, wal, writer, step, txn, faults,
                 hosts, told, stop, heard, due, watching>>

\* The watcher is joined and Stopped is reported, also when serving failed; a
\* start that failed comes here too.  A report that fails leaves it at that.
ReportStopped ==
  /\ \/ at[Service] = "joining" /\ Service \notin watching
     \/ at[Service] = "failed"
  /\ \/ ScmStopped /\ ProcessGone(Service) /\ UNCHANGED <<faults, due>>
     \/ Fault /\ ProcessEnds(Service) /\ UNCHANGED reg
  /\ UNCHANGED <<file, wal, writer, step, txn, hosts, told, stop, heard, watching>>

\* A slip: a transaction left open keeps the lock of a process that is gone.
CrashKeepingLock(a) ==
  /\ at[a] \notin {"down", "tracing"} /\ Fault
  /\ ProcessEnds(a)
  /\ watching' = watching \ {a}
  /\ UNCHANGED <<file, wal, writer, step, txn, hosts, reg, told, stop, heard>>

\* The process crashes, or a console run is closed.  Its transaction is undone.
Crash(a) ==
  /\ at[a] \notin {"down", "tracing"} /\ Fault
  /\ ProcessEnds(a)
  /\ Rollback(a)
  /\ watching' = watching \ {a}
  /\ UNCHANGED <<file, wal, hosts, reg, told, stop, heard>>

\* The power goes: every process with it, and perhaps the last commits.
PowerCut ==
  /\ Fault
  /\ file' \in [Stores -> UNION {AfterPowerCut(s) : s \in Stores}]
  /\ \A s \in Stores : file'[s] \in AfterPowerCut(s)
  /\ wal' = [s \in Stores |-> <<>>] /\ writer' = [s \in Stores |-> NoOne]
  /\ at' = [a \in Agents |-> "down"] /\ txn' = [a \in Agents |-> At(0)]
  /\ step' = [a \in Agents |-> 0] /\ cause' = [a \in Agents |-> "none"] /\ secured' = "no"
  /\ ScmStopped /\ stop' = FALSE /\ heard' = FALSE /\ watching' = {}
  /\ due' = IF Service \in hosts /\ reg.present THEN "boot" ELSE "no"
  /\ UNCHANGED <<hosts, told>>

ServiceNext ==
  \/ \E home \in Homes : Install(home)
  \/ Uninstall \/ StartService \/ Recover \/ ReportRunning \/ SecureStore
  \/ HandleStop \/ SomebodyConnects \/ ServeReturns \/ WatcherEnds \/ ReportStopped \/ PowerCut
  \/ \E a \in hosts :
       \/ StartConsole(a) \/ InitTracing(a) \/ OpenStore(a)
       \/ OpenQuarantine(a) \/ Crash(a)
  \/ \E s \in Stores : Checkpoint(s) /\ UNCHANGED serviceVars

-----------------------------------------------------------------------------
(* Properties.                                                               *)

\* The one type invariant of the start-up modules.
ServiceTypeOK ==
  /\ hosts \subseteq Agents /\ watching \subseteq hosts
  /\ \A s \in Stores : file[s].version \in 0 .. Newest
  /\ \A s \in Stores : writer[s] \in hosts \cup {NoOne}
  /\ \A a \in Agents : writer[StorePath(a)] = a <=> at[a] \in {"again", "apply", "bump", "commit"}
  /\ scm \in {"stopped", "start_pending", "running"}
  /\ told \in {"nothing", "error", "warned", "installed", "uninstalled"}
  /\ secured \in {"no", "yes", "said"}
  /\ reg.deleting => reg.present

\* The service never opens its store in a directory it has not closed, or said
\* it could not close (server.rs:318-355, "Before the file is opened").
ClosedBeforeOpened ==
  at[Service] \in {"open", "read", "begin", "again", "apply", "bump", "commit",
                   "opened", "serving", "joining"} => secured # "no"

\* When the control manager believes the service stopped, nothing of it is left
\* running: no loop and no watcher thread (service.rs:154-176, watch.rs:369).
StoppedMeansStopped ==
  scm = "stopped" => at[Service] \in {"down", "tracing"} /\ Service \notin watching

\* A folder other people can write to never holds an installed agent, as far as
\* the entries its check interprets say, and what an install says of recovery
\* is so (service.rs:273-395).
InstalledAsSaid ==
  /\ told = "installed" => reg.present /\ reg.recovery
  /\ reg.present /\ ReadInFull(reg.home) => Closed(reg.home)

\* Once the loop has been brought to look at a stop, by the handler's own
\* opening of the pipe or, where that came between two instances, by the next
\* client's, the service reaches Stopped, wherever the start had come to
\* (service.rs:73-78, 104-152).
StopIsHonoured == stop /\ heard /\ scm = "running" ~> scm # "running"

\* An agent registered with recovery does not stay down after a crash or a
\* power cut: it serves again, unless somebody stops or removes it, or a start
\* fails and says so, after which nobody starts it (service.rs:136-271).
CrashIsRecovered ==
  due # "no" /\ reg.present /\ reg.recovery ~>
     \/ at[Service] \in {"serving", "failed"}
     \/ stop \/ ~reg.present \/ reg.deleting

\* Two agents opening one store never wait for each other: every start comes to
\* an open store, a reason why not, or its end (db.rs:846-892).
StartsEnd ==
  \A a \in Agents : at[a] = "read" ~> at[a] \in {"opened", "failed", "down"}

ServiceFairness ==
  /\ WF_<<storeVars, serviceVars>>(Recover)
  /\ WF_<<storeVars, serviceVars>>(InitTracing(Service))
  /\ WF_<<storeVars, serviceVars>>(ReportRunning)
  /\ WF_<<storeVars, serviceVars>>(SecureStore)
  /\ WF_<<storeVars, serviceVars>>(ServeReturns)
  /\ WF_<<storeVars, serviceVars>>(WatcherEnds)
  /\ WF_<<storeVars, serviceVars>>(ReportStopped)
  /\ \A a \in Agents : /\ WF_<<storeVars, serviceVars>>(OpenStore(a))
                       /\ WF_<<storeVars, serviceVars>>(OpenQuarantine(a))

-----------------------------------------------------------------------------
(***************************************************************************)
(* The agent's client modes (kam-agent/src/main.rs: parse_mode, run_check,  *)
(* run_protection, run_canaries; server.rs: probe): one process at a        *)
(* terminal, or the weekly task, that makes one or more calls to the        *)
(* running service and prints what it was told.  The service answers a      *)
(* call only while it is serving; what a request does there is module       *)
(* Agent's, and here it succeeds or is answered with an error.              *)
(***************************************************************************)

CONSTANTS
  Bait,           \* the decoys
  MaxCommands     \* bound on commands given at the terminal

VARIABLES
  mode,      \* the command under way
  todo,      \* the requests it has still to make
  planted,   \* the decoys that are on the machine
  armed,     \* those Windows has been asked to watch
  auditing,  \* Windows records reads of what it is asked to watch
  objected,  \* those an answer has spoken against since they were last in order
  printed,   \* what the last command said: "on", "off", "answer", "failed"
  commands   \* commands given so far

decoyState == <<planted, armed, auditing, objected>>

terminalVars == <<mode, todo, decoyState, printed, commands>>

TerminalInit ==
  /\ mode = "none" /\ todo = <<>> /\ planted \in {{}, Bait} /\ armed = planted
  /\ auditing = (planted # {}) /\ objected = {} /\ printed = "nothing" /\ commands = 0

\* The modes that are clients of a running agent.
ClientModes == {"probe", "check", "canaries", "canaries-on", "canaries-off", "protection"}

\* parse_mode: every argument must be known, and all the same.
ParseMode(arguments) ==
  IF arguments # {} /\ arguments \subseteq ClientModes /\ Cardinality(arguments) = 1
  THEN CHOOSE m \in ClientModes : m \in arguments
  ELSE "usage"

\* A slip: recording first, decoys after, in both directions.
RequestsAuditFirst(m) ==
  CASE m \in {"canaries-on", "canaries-off"} -> <<"audit", "plant", "report">>
    [] OTHER -> <<"report">>

\* run_canaries: auditing first when switching on, last when switching off.
Requests(m) ==
  CASE m = "canaries-on"  -> <<"audit", "plant", "report">>
    [] m = "canaries-off" -> <<"plant", "audit", "report">>
    [] OTHER -> <<"report">>

GiveCommand(arguments) ==
  /\ Service \in hosts /\ mode = "none" /\ commands < MaxCommands
  /\ commands' = commands + 1
  /\ IF ParseMode(arguments) = "usage"
     THEN printed' = "failed" /\ UNCHANGED <<mode, todo>>
     ELSE /\ mode' = ParseMode(arguments) /\ todo' = Requests(ParseMode(arguments))
          /\ printed' = "nothing"
  /\ UNCHANGED decoyState

\* client::call with nobody to answer it: the `?` ends the command.
NoAnswer ==
  /\ todo # <<>>
  /\ at[Service] # "serving"
  /\ mode' = "none" /\ todo' = <<>> /\ printed' = "failed"
  /\ UNCHANGED <<decoyState, commands>>

\* SetCanaryAuditing.  The answer is dropped, an error with it.
SetCanaryAuditing(on) ==
  /\ Head(todo) = "audit"
  /\ \/ auditing' = on /\ UNCHANGED objected
     \/ objected' = (IF on THEN Bait ELSE objected) /\ UNCHANGED auditing
  /\ UNCHANGED <<planted, armed>>

\* SetCanaries{planted: true}: the decoys that could be written stand, those of
\* them Windows could be asked to watch are armed, and each of the others has a
\* line in the answer, which is dropped and is never an error.
PlantCanaries ==
  /\ Head(todo) = "plant" /\ mode = "canaries-on"
  /\ \E stands \in SUBSET Bait : \E watched \in SUBSET stands :
       /\ planted \subseteq stands
       /\ planted' = stands /\ armed' = armed \cup watched
       /\ objected' = (objected \cup (Bait \ watched)) \ (IF auditing THEN watched ELSE {})
  /\ UNCHANGED auditing

\* SetCanaries{planted: false}: a decoy that cannot be removed is a line in the
\* answer, which is dropped too.
RemoveCanaries ==
  /\ Head(todo) = "plant" /\ mode = "canaries-off"
  /\ \E stays \in SUBSET planted :
       planted' = stays /\ armed' = armed \cap stays /\ objected' = stays
  /\ UNCHANGED auditing

SetCanaries ==
  /\ todo # <<>> /\ at[Service] = "serving"
  /\ SetCanaryAuditing(mode = "canaries-on") \/ PlantCanaries \/ RemoveCanaries
  /\ todo' = Tail(todo)
  /\ UNCHANGED <<mode, printed, commands>>

\* probe, run_check, run_protection: one call, and its answer or the error is
\* what the command ends with.
ReportAnswer ==
  /\ mode \in {"probe", "check", "protection"} /\ at[Service] = "serving"
  /\ printed' \in {"answer", "failed"}
  /\ mode' = "none" /\ todo' = <<>>
  /\ UNCHANGED <<decoyState, commands>>

\* run_canaries, the last call: the decoys as they are now, whatever the calls
\* before it were answered.
ReportCanaries ==
  /\ todo = <<"report">> /\ mode \in {"canaries", "canaries-on", "canaries-off"}
  /\ at[Service] = "serving"
  /\ \/ printed' = IF planted # {} /\ auditing THEN "on" ELSE "off"
     \/ printed' = "failed"
  /\ mode' = "none" /\ todo' = <<>>
  /\ UNCHANGED <<decoyState, commands>>

\* The person closes the terminal between two calls.
CloseTerminal ==
  /\ todo # <<>>
  /\ mode' = "none" /\ todo' = <<>> /\ printed' = "nothing"
  /\ UNCHANGED <<decoyState, commands>>

TerminalNext ==
  \/ \E arguments \in {{}, {"check"}, {"canaries-on"}, {"canaries-off"}, {"probe", "check"}} :
       GiveCommand(arguments)
  \/ NoAnswer \/ SetCanaries \/ ReportAnswer \/ ReportCanaries \/ CloseTerminal

startVars == <<storeVars, serviceVars, terminalVars>>

StartupInit == ServiceInit /\ TerminalInit

StartupNext ==
  \/ ServiceNext /\ UNCHANGED terminalVars
  \/ TerminalNext /\ UNCHANGED <<storeVars, serviceVars>>

StartupSpec == StartupInit /\ [][StartupNext]_startVars /\ ServiceFairness

-----------------------------------------------------------------------------
(* Properties.                                                               *)

\* Whatever ends a command half way, and however the agent comes and goes, no
\* decoy stands unrecorded unless an answer has said so of it: an error, or its
\* line in the answer, both of which the command passes over
\* (main.rs:235-247, dispatch.rs:976-1003).
UnwatchedOnlyAfterAnError ==
  \A d \in planted : (d \in armed /\ auditing) \/ d \in objected

(***************************************************************************)
(* The store: its schema is whole at every crash, a process that opened it *)
(* can use it, none is stuck on a schema it could have had, and its folder *)
(* was closed to others before the agent opened it.                        *)
(***************************************************************************)
StoreOpensWhole ==
    /\ ServiceTypeOK
    /\ StoreIsWhole
    /\ NeverStuckOnSchema
    /\ OpenedIsUsable
    /\ ClosedBeforeOpened

(***************************************************************************)
(* What is said of the service is so: Stopped is reported when neither its *)
(* loop nor its watcher runs (a connection that is being served is not     *)
(* waited for); the folder of a registered agent is closed to ordinary     *)
(* accounts as far as plain entries say; and a decoy stands unrecorded     *)
(* only where an answer said that it could not be watched or removed, or   *)
(* that recording could not be switched on.                                *)
(***************************************************************************)
ServiceIsHonest ==
    StoppedMeansStopped /\ InstalledAsSaid /\ UnwatchedOnlyAfterAnError
=============================================================================
