------------------------------- MODULE Anchors --------------------------------
(***************************************************************************)
(* What starts itself on the machine, as one collection reads it            *)
(* (kam-scanner/src/persistence.rs and kam-agent/src/baseline.rs: collect), *)
(* and what a command found there really runs.  A thing is known by its     *)
(* kind, its scope and its name; a scope is a sequence of names.  What was  *)
(* not read is a gap, which covers kinds, everywhere or under some scopes.  *)
(***************************************************************************)
EXTENDS Integers, Sequences, FiniteSets, SequencesExt

CONSTANTS
  Accounts,      \* accounts with a profile on this machine
  Disk           \* the files a command may name, each the words of its name

-----------------------------------------------------------------------------
(* Gaps, as kam-core/src/changes.rs compares them with what is missing.      *)

Of(kinds) == [kinds |-> kinds, scopes |-> {}]

Within(kinds, scopes) == [kinds |-> kinds, scopes |-> scopes]

GapCovers(gap, thing) ==
  /\ thing.kind \in gap.kinds
  /\ gap.scopes = {} \/ \E s \in gap.scopes : IsPrefix(s, thing.scope)

-----------------------------------------------------------------------------
(* A machine: the accounts whose hives were listed as loaded; the list of    *)
(* profiles and how it read; accounts whose profile path does not read; the  *)
(* places that are there and would not read, and those that are not there.   *)

\* Named for the hive that was opened, however many are signed in.
HiveOf(account) == <<"hkey_users", account>>

ProfileOf(account) == <<"c:", "users", account>>

RunKeys(accounts) ==
  {<<"hklm", "run">>, <<"hklm", "wow6432node", "run">>} \cup {HiveOf(a) \o <<"run">> : a \in accounts}

StartupFolders(accounts) ==
  {<<"c:", "programdata", "startup">>} \cup {ProfileOf(a) \o <<"startup">> : a \in accounts}

ServiceKeys == {<<"services", "backup">>, <<"services", "printer">>}

TaskFiles == {<<"tasks", "one">>, <<"tasks", "folder", "two">>}

Thing(kind, scope) == [kind |-> kind, scope |-> scope]

\* What is on the machine: one thing in each place that is there.
Things(machine) ==
  {Thing("run-key", k) : k \in RunKeys(Accounts) \ machine.absent}
    \cup {Thing("startup-item", f) : f \in StartupFolders(Accounts) \ machine.absent}
    \cup {Thing("service", s) : s \in ServiceKeys} \cup {Thing("task", t) : t \in TaskFiles}
    \cup {Thing("administrator", <<"machine">>)}

\* signed_in_users: an account without a readable profile path is not among them.
SignedInUsers(machine) == machine.loaded \ machine.pathless

\* A place that is not there is ordinary; one that is and would not open, or not
\* to the end, is a gap of its own.
ReadPlaces(kind, places, machine) ==
  [seen |-> {Thing(kind, p) : p \in places \ (machine.failed \cup machine.absent)},
   gaps |-> {Within({kind}, {p}) : p \in places \cap (machine.failed \ machine.absent)}]

ReadRunKeys(machine) == ReadPlaces("run-key", RunKeys(SignedInUsers(machine)), machine)

\* Without %ProgramData% nobody knows where the folder for everyone is.
ReadStartupFolders(machine) ==
  LET folders == StartupFolders(SignedInUsers(machine))
      known   == IF machine.programData THEN folders ELSE folders \ StartupFolders({})
      read    == ReadPlaces("startup-item", known, machine)
  IN [read EXCEPT !.gaps = @ \cup (IF machine.programData THEN {} ELSE {Of({"startup-item"})})]

\* A list of services that did not open or end says nothing of any of them; a
\* single service that would not read is named.
ReadServices(machine) ==
  IF <<"services">> \in machine.failed
  THEN [seen |-> {}, gaps |-> {Of({"service"})}]
  ELSE ReadPlaces("service", ServiceKeys, machine)

\* The folders and files of the task store that were not read, named.
ReadScheduledTasks(machine) ==
  LET missed == {f \in machine.failed : f[1] = "tasks"}
  IN [seen |-> {Thing("task", t) : t \in {x \in TaskFiles : ~\E f \in missed : IsPrefix(f, x)}},
      gaps |-> IF missed = {} THEN {} ELSE {Within({"task"}, missed)}]

\* Not started, not answered in time, an error, or nobody in it: not read.
Administrators(machine) ==
  IF <<"machine">> \in machine.failed
  THEN [seen |-> {}, gaps |-> {Of({"administrator"})}]
  ELSE [seen |-> {Thing("administrator", <<"machine">>)}, gaps |-> {}]

PerAccountKinds == {"run-key", "startup-item"}

\* A slip: an account nobody looked at silences its kinds everywhere.
ProfilesNotExaminedAnywhere(machine) ==
  IF machine.profileList # "whole" \/ Accounts \ SignedInUsers(machine) # {}
  THEN {Of(PerAccountKinds)} ELSE {}

\* profiles_not_examined: the accounts listed and not looked at, by hive and by
\* profile, the wreckage of a profile that would not load aside, and never a
\* folder that was read for another account.
ProfilesNotExamined(machine) ==
  LET examined == SignedInUsers(machine)
      listed   == {[account |-> a, wreck |-> FALSE] : a \in Accounts}
                    \cup {[account |-> a, wreck |-> TRUE] : a \in machine.wrecks}
      missed   == {s \in listed : ~s.wreck /\ s.account \notin examined}
      profiles == {ProfileOf(s.account) : s \in {x \in missed : x.account \notin machine.pathless}}
  IN IF machine.profileList # "whole" THEN {Of(PerAccountKinds)}
     ELSE IF missed = {} THEN {}
     ELSE {Within(PerAccountKinds,
                  {HiveOf(s.account) : s \in missed}
                    \cup (profiles \ {ProfileOf(a) : a \in examined}))}

\* survey_for: the four sources.
SurveyFor(machine) ==
  LET sources == {ReadRunKeys(machine), ReadStartupFolders(machine), ReadServices(machine),
                  ReadScheduledTasks(machine)}
  IN [seen |-> UNION {s.seen : s \in sources}, gaps |-> UNION {s.gaps : s \in sources}]

\* A slip: failing to read the administrators ends the collection there.
CollectUntilAFailure(machine) ==
  LET survey == SurveyFor(machine)
      admins == Administrators(machine)
  IN [seen |-> survey.seen \cup admins.seen,
      gaps |-> survey.gaps \cup admins.gaps
                 \cup (IF admins.gaps = {} THEN ProfilesNotExamined(machine) ELSE {})]

\* collect: no source is silenced by another that failed.
CollectAnchors(machine) ==
  LET survey == SurveyFor(machine)
      admins == Administrators(machine)
  IN [seen |-> survey.seen \cup admins.seen,
      gaps |-> survey.gaps \cup admins.gaps \cup ProfilesNotExamined(machine)]

-----------------------------------------------------------------------------
(* What a command runs.  A command is a sequence of tokens; a quoted one may *)
(* be several words, another is one word; a bare host is found where Windows *)
(* keeps it.  No file is named like one of conhost's own switches.           *)

ConhostSwitches == {<<"--headless">>, <<"--width">>}

ASSUME DiskAssumption ==
  /\ Disk \subseteq Seq(STRING) \ {<<>>}
  /\ <<"conhost">> \in Disk
  /\ \A f \in Disk : <<Head(f)>> \notin ConhostSwitches

Word(w) == [quoted |-> FALSE, words |-> <<w>>]

Quoted(words) == [quoted |-> TRUE, words |-> words]

IsSwitch(token) == Head(token.words) \in {"/c", "-x", "--headless", "--width"}

NoFile == [exe |-> <<>>, rest |-> <<>>]

\* split_executable: what is quoted, or the fewest words that name a file,
\* looking no further than the first switch.
SplitExecutable(command) ==
  LET taken(n) == IF command[1].quoted THEN command[1].words
                  ELSE [i \in 1 .. n |-> Head(command[i].words)]
      fits     == {n \in DOMAIN command :
                     /\ \A i \in 1 .. n : ~command[i].quoted
                     /\ \A i \in 2 .. n : ~IsSwitch(command[i])
                     /\ taken(n) \in Disk}
      upTo(n)  == [exe |-> taken(n), rest |-> SubSeq(command, n + 1, Len(command))]
  IN IF command = <<>> THEN NoFile
     ELSE IF command[1].quoted THEN IF taken(1) \in Disk THEN upTo(1) ELSE NoFile
     ELSE IF fits = {} THEN NoFile ELSE upTo(CHOOSE n \in fits : \A k \in fits : n <= k)

\* payload_of, for a host that takes its file after a switch or by its suffix,
\* and for one that takes the first argument that is no switch.
PayloadOf(host, rest) ==
  LET first(test(_)) == SelectInSeq(rest, test)
      flag  == first(LAMBDA t : t.words = <<"/c">>)
      named == CASE host = <<"cmd">> -> IF flag > 0 /\ flag < Len(rest) THEN flag + 1
                                        ELSE first(LAMBDA t : Last(t.words) = "x.bat")
                 [] host = <<"wscript">> -> first(LAMBDA t : ~IsSwitch(t))
                 [] OTHER -> 0
  IN IF named > 0 /\ rest[named].words \in Disk THEN rest[named].words ELSE <<>>

\* Where the command begins that is handed to conhost, past its own switches and
\* their values.
Inner(words) ==
  LET from[i \in 1 .. Len(words) + 2] ==
        IF i > Len(words) THEN i
        ELSE IF words[i] = <<"--headless">> THEN from[i + 1]
        ELSE IF words[i] = <<"--width">> THEN from[i + 2] ELSE i
  IN from[1]

Requoted(token) == [quoted |-> Len(token.words) > 1, words |-> token.words]

\* A slip: the words after conhost's own switches, as they came.
InnerCommandUnquoted(rest) ==
  LET first == Inner([i \in DOMAIN rest |-> rest[i].words])
      word(k, token) == Word(token.words[k])
  IN FlattenSeq([i \in 1 .. Len(rest) + 1 - first |->
                   [k \in DOMAIN rest[i + first - 1].words |-> word(k, rest[i + first - 1])]])

\* What follows conhost's own switches and their values, quoted again where it
\* has to be.
InnerCommand(rest) ==
  LET first == Inner([i \in DOMAIN rest |-> rest[i].words])
  IN [i \in 1 .. Len(rest) + 1 - first |-> Requoted(rest[i + first - 1])]

Nothing == [exe |-> <<>>, payload |-> <<>>]

\* What a console host was handed, put together again as a command.
Handed(command) == InnerCommand(SplitExecutable(command).rest)

\* resolve_expanded at one depth; inner is what the depth below makes of it.
Unwrap(command, inner) ==
  LET split == SplitExecutable(command)
  IN IF split = NoFile THEN Nothing
     ELSE IF split.exe = <<"conhost">>
          THEN IF inner = Nothing THEN [exe |-> split.exe, payload |-> <<>>] ELSE inner
     ELSE [exe |-> split.exe, payload |-> PayloadOf(split.exe, split.rest)]

\* Two wrappings are taken off and the third is left.
Resolve(command) ==
  Unwrap(command, Unwrap(Handed(command), Unwrap(Handed(Handed(command)), Nothing)))

\* Entry::target: what the host was handed, or the program itself.
Target(command) ==
  IF Resolve(command).payload # <<>> THEN Resolve(command).payload ELSE Resolve(command).exe

-----------------------------------------------------------------------------
(* Scheduled tasks with several actions.                                     *)

\* A slip: the task's name goes to the last program it runs.
BareLast(actions) ==
  IF \E i \in DOMAIN actions : actions[i] = "exec"
  THEN CHOOSE i \in DOMAIN actions : actions[i] = "exec" /\ \A j \in DOMAIN actions : actions[j] = "exec" => j <= i
  ELSE 1

\* The first program a task runs, or its first action when it runs none.
Bare(actions) ==
  LET exec == SelectInSeq(actions, LAMBDA a : a = "exec") IN IF exec > 0 THEN exec ELSE 1

\* task_entries_or: one entry for each action, the bare one under the task's own
\* name and the others by their place: what is added to it.
TaskEntries(actions) == [i \in DOMAIN actions |-> IF i = Bare(actions) THEN <<>> ELSE <<i>>]

-----------------------------------------------------------------------------
(* Properties.                                                               *)

\* Whatever was signed in, listed, closed or cut short, a thing that is on the
\* machine was either read under its own identity or lies in a gap, so that its
\* absence from a collection never says it is gone -- short of a Startup folder
\* whose owner's profile path cannot be read (baseline.rs:120-201, 240-348;
\* persistence.rs:540-817, 909-1112).
GoneMeansLooked(machine) ==
  LET got == CollectAnchors(machine)
  IN \A t \in Things(machine) :
       \/ t \in got.seen
       \/ \E g \in got.gaps : GapCovers(g, t)
       \/ t.kind = "startup-item" /\ \E a \in machine.pathless : IsPrefix(ProfileOf(a), t.scope)

\* A gap reaches no further than what was not read: what was read can still be
\* missed when it goes, another account's absence or a wrecked profile
\* notwithstanding (baseline.rs:183-198, 278-289, 329-334).
GapsReachNoFurther(machine) ==
  LET got == CollectAnchors(machine)
  IN \A t \in got.seen : (\E g \in got.gaps : GapCovers(g, t)) =>
       \/ t.kind \in PerAccountKinds /\ machine.profileList # "whole"
       \/ t.kind = "startup-item" /\ ~machine.programData

\* Running a command inside conhost, which only hides its window, changes
\* nothing about the file that is judged (persistence.rs:438-526).
SeenThrough(command) ==
  LET wrapped == <<Word("conhost"), Word("--headless"), Word("--width"), Word("80")>> \o command
  IN /\ Resolve(command) # Nothing
     /\ Cardinality({i \in DOMAIN command : command[i].words = <<"conhost">>}) <= 1
     => Target(wrapped) = Target(command)

\* No two actions of a task share an identity, and an action added at the end of
\* a task that runs a program renames none of the others (persistence.rs:1364-1381).
ActionsApart(actions) ==
  /\ IsInjective(TaskEntries(actions))
  /\ SelectInSeq(actions, LAMBDA a : a = "exec") > 0 =>
       \A more \in {"exec", "com"} :
         IsPrefix(TaskEntries(actions), TaskEntries(Append(actions, more)))

-----------------------------------------------------------------------------
(***************************************************************************)
(* Listing a registry key that others write to, and reading the services    *)
(* listed (kam-core/src/registry.rs: Shape, walk_subkeys, walk_values,      *)
(* walk_strings; kam-scanner/src/persistence.rs: read_services).  Windows   *)
(* enumerates by index and promises no snapshot; a write stamps the key     *)
(* with a clock that ticks.                                                 *)
(***************************************************************************)

CONSTANTS
  Services,     \* names of subkeys
  Holders,      \* what the services of a machine may hold
  Retries,      \* how often a walk that is not whole is repeated
  MaxWrites,    \* bound on what others write
  MaxClock      \* bound on the clock's ticks

VARIABLES
  key,          \* the subkeys, in the order Windows lists them
  holds,        \* what each service key holds
  steady,       \* those that have been there throughout
  written,      \* the key's last write
  clock,
  blurred,      \* a write shared the tick of the write before it
  writes,
  reading,      \* "asking", "walking", "opening", "surveyed" or "unasked"
  shape,        \* what Windows said before the walk
  got,          \* the names read in this walk
  attempt,
  whole,        \* the listing calls itself complete
  left,         \* listed services still to open
  entries,      \* the services reported to start themselves
  refused       \* the services reported as not read

keyVars == <<key, holds, steady, written, clock, blurred, writes, reading, shape, got,
             attempt, whole, left, entries, refused>>

\* What can be behind a name: a service that starts itself, one that does not, a
\* driver, a key that is no service, one without an image, one this account may
\* not open or not read, and a name Windows' own calls cannot spell.
Holdings == {"automatic", "on-demand", "driver", "placeholder", "no-image",
             "closed", "unreadable-value", "hidden-name"}

Distinct == {s \in SeqOf(Services, Cardinality(Services)) : IsInjective(s)}

ASSUME KeyAssumption ==
  IsFiniteSet(Services) /\ Holders \subseteq [Services -> Holdings] /\ Retries \in Nat

KeyInit ==
  /\ key \in Distinct /\ holds \in Holders
  /\ steady = ToSet(key) /\ written = 0 /\ clock = 1 /\ blurred = FALSE /\ writes = 0
  /\ reading = "asking" /\ shape = [count |-> 0, written |-> 0] /\ got = <<>>
  /\ attempt = 0 /\ whole = FALSE /\ left = <<>> /\ entries = {} /\ refused = {}

reader == <<reading, shape, got, attempt, whole, left, entries, refused>>

\* Another program adds or removes a subkey.
Write ==
  /\ reading \notin {"surveyed", "unasked"} /\ writes < MaxWrites
  /\ writes' = writes + 1 /\ written' = clock /\ blurred' = (blurred \/ clock = written)
  /\ \/ \E i \in DOMAIN key : key' = RemoveAt(key, i) /\ steady' = steady \ {key[i]}
     \/ \E n \in Services \ ToSet(key), i \in 1 .. Len(key) + 1 :
          key' = InsertAt(key, i, n) /\ UNCHANGED steady
  /\ UNCHANGED <<holds, clock, reader>>

Tick ==
  /\ reading \notin {"surveyed", "unasked"} /\ clock < MaxClock
  /\ clock' = clock + 1
  /\ UNCHANGED <<key, holds, steady, written, blurred, writes, reader>>

machine == <<key, holds, steady, written, clock, blurred, writes>>

\* Shape: how many there are and when the key was last written.
ShapeNow == [count |-> Len(key), written |-> written]

\* The key of all services could not be opened: the whole kind is unread.
CannotOpen ==
  /\ reading = "asking" /\ attempt = 0
  /\ reading' = "surveyed" /\ whole' = FALSE
  /\ UNCHANGED <<machine, shape, got, attempt, left, entries, refused>>

\* One walk is over; a walk that is not whole is repeated, and the last one is
\* what is answered with.
EndListing(names, complete) ==
  IF complete \/ attempt = Retries
  THEN /\ reading' = "opening" /\ whole' = complete /\ left' = names
       /\ UNCHANGED <<attempt, shape>> /\ got' = <<>>
  ELSE /\ reading' = "asking" /\ attempt' = attempt + 1 /\ got' = <<>>
       /\ UNCHANGED <<shape, whole, left>>

\* Windows would not say how much there is, so nothing is claimed.
NoShape ==
  /\ reading = "asking"
  /\ EndListing(<<>>, FALSE)
  /\ UNCHANGED <<machine, entries, refused>>

AskShape ==
  /\ reading = "asking"
  /\ reading' = "walking" /\ shape' = ShapeNow /\ got' = <<>>
  /\ UNCHANGED <<machine, attempt, whole, left, entries, refused>>

\* The name at the next index, whatever is there by now.
ReadNext ==
  /\ reading = "walking" /\ Len(got) < Len(key)
  /\ got' = Append(got, key[Len(got) + 1])
  /\ UNCHANGED <<machine, reading, shape, attempt, whole, left, entries, refused>>

\* A slip: the count alone, as before the write time was compared.
SettledByCount(after) == Len(got) = shape.count

\* Shape::settled: as many as there were said to be, and nothing moved meanwhile.
Settled(after) ==
  Len(got) = shape.count /\ after.written = shape.written /\ after.count = shape.count

\* The end of the list, or a name that would not read; what Windows says then
\* may be missing too.
Finish ==
  /\ reading = "walking"
  /\ EndListing(got, Settled(ShapeNow)) \/ EndListing(got, FALSE)
  /\ UNCHANGED <<machine, entries, refused>>

\* One listed name: gone since, or nothing that starts itself, is passed over;
\* what cannot be opened, spelled or read, or starts itself with nothing to run,
\* is counted by name.
OpenService ==
  /\ reading = "opening" /\ left # <<>>
  /\ left' = Tail(left)
  /\ LET name == Head(left)
     IN CASE holds[name] = "hidden-name" -> refused' = refused \cup {name} /\ UNCHANGED entries
          [] holds[name] # "hidden-name" /\ name \notin ToSet(key) -> UNCHANGED <<entries, refused>>
          [] name \in ToSet(key) /\ holds[name] \in {"on-demand", "driver", "placeholder"}
               -> UNCHANGED <<entries, refused>>
          [] name \in ToSet(key) /\ holds[name] = "automatic"
               -> entries' = entries \cup {name} /\ UNCHANGED refused
          [] name \in ToSet(key) /\ holds[name] \in {"closed", "unreadable-value", "no-image"}
               -> refused' = refused \cup {name} /\ UNCHANGED entries
  /\ UNCHANGED <<machine, reading, shape, got, attempt, whole>>

EndSurvey ==
  /\ reading = "opening" /\ left = <<>>
  /\ reading' = "surveyed"
  /\ UNCHANGED <<machine, shape, got, attempt, whole, left, entries, refused>>

KeyNext ==
  \/ Write \/ Tick \/ CannotOpen \/ NoShape \/ AskShape \/ ReadNext \/ Finish
  \/ OpenService \/ EndSurvey

-----------------------------------------------------------------------------
(* Properties.                                                               *)

\* However others write to the key, a service that was there all along and may
\* start itself is reported, or named as unread, or the list says it is not all
\* of them -- short of a write in the tick of an earlier one, the window
\* Shape::settled admits to (registry.rs:232-256, persistence.rs:909-1052).
NothingHidden ==
  reading = "surveyed" /\ whole /\ ~blurred =>
    \A n \in steady :
      holds[n] \notin {"on-demand", "driver", "placeholder"} => n \in entries \cup refused
=============================================================================
