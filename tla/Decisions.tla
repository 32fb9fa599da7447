------------------------------ MODULE Decisions -------------------------------
(***************************************************************************)
(* The parts that decide without keeping state, each asked about any of its *)
(* inputs, and five that run: the search for duplicates, the measuring of a *)
(* leftover, a Defender scan, the survey of services and the reading of the *)
(* master file table.  A behaviour is one study: a question put once, or    *)
(* one of the five run to its end.                                          *)
(***************************************************************************)
EXTENDS Duplicates, Leftovers, WeeklyCheck, Trust, Anchors, Table

CONSTANT Inputs     \* for each question, what it is put about

VARIABLES study, input

vars == <<study, input, dupVars, walkVars, scanVars, keyVars, tableVars>>

Running == {"search", "walk", "scan", "services", "table"}

Questions == DOMAIN Inputs

-----------------------------------------------------------------------------
(* What the questions may be put about.  A path is a sequence of names.      *)

Path == Seq(STRING)

Copy == [owner : Owners, named : BOOLEAN, downloads : BOOLEAN, length : Nat]

\* The two separators of a network path are no name.
Spelling == [prefix : Spellings, names : {p \in Path : p = <<>> \/ p[1] # "\\\\"}]

\* What the disk says of a path: it is below a drive, and a drive's bin is a
\* folder of its root that holds one of every account's own.
Resolves(real) ==
  /\ Len(real) > 1
  /\ \A i \in DOMAIN real : real[i] = "$recycle.bin" => i = 2 /\ Len(real) > 2

\* Accounts' profiles are not inside one another, and the caller's has none of
\* the names by which a folder of Windows or of a program is told.
Machine ==
  {m \in [registry : BOOLEAN, sid : STRING, own : Path, profiles : SUBSET Path] :
     /\ Len(m.own) > 1 /\ m.own[2] \notin {"windows", "programdata"}
     /\ ToSet(m.own) \cap ({"$recycle.bin"} \cup ServicingNames \cup ProgramNames) = {}
     /\ \A p, q \in m.profiles \cup {m.own} : IsPrefix(p, q) => p = q}

Fence == {f \in [asked : Path, real : Path, what : STRING, on : Machine, intent : {"suggested", "chosen"}] :
            f.real = <<>> \/ Resolves(f.real)}

App == [name : STRING, publisher : STRING, install : Path, component : BOOLEAN]

Homestead == [path : Path, matching : Nat, total : Nat, named : BOOLEAN]

AnyStatus ==
  [flags : [Protections -> {"on", "off", Unread}], signatures : Nat \cup {NoAge},
   quick : Nat \cup {NoAge}, full : Nat \cup {NoAge}]

Setting == [policy : Nat \cup {NoAge}, local : Nat \cup {NoAge}]

Hardening ==
  [rule : Setting, folder : Setting, pua : Setting, policyRead : BOOLEAN,
   lsa : Nat \cup {NoAge}, memory : Nat \cup {NoAge}, blocklist : Nat \cup {NoAge}]

\* Every task file lies in a folder of the store, and that in another.
TaskStore ==
  {t \in [folders : SUBSET Path, links : SUBSET Path, files : SUBSET Path, closed : SUBSET Path] :
     \A f \in t.files : f # <<>> /\ \A n \in 0 .. Len(f) - 1 : SubSeq(f, 1, n) \in t.folders}

Program == [embedded : EmbeddedCodes, sha256 : Lookups, sha1 : Lookups, ours : BOOLEAN]

Week ==
  {w \in [defender : [read : BOOLEAN, status : AnyStatus],
          firewall : [read : BOOLEAN,
                      profile : [enabled : {"on", "off", Unread}, inbound : {"block", "allow", Unread},
                                 outbound : {"block", "allow", Unread}, active : {"yes", "no", Unread}],
                      rules : [bad : Nat, stopped : BOOLEAN]],
          space : [read : BOOLEAN, volumes : SUBSET [root : STRING, total : Nat, free : Nat]],
          startup : [programs : SUBSET Program, missed : SUBSET Path]] : IsFiniteSet(w.space.volumes)}

Sitting ==
  [loaded : SUBSET Accounts, pathless : SUBSET Accounts, wrecks : SUBSET Accounts,
   profileList : {"whole", "cut", "closed"}, programData : BOOLEAN,
   failed : SUBSET (Path \ {<<>>}), absent : SUBSET (RunKeys(Accounts) \cup StartupFolders(Accounts))]

\* A token that is not quoted is one word.
Token == {t \in [quoted : BOOLEAN, words : Path \ {<<>>}] : t.quoted \/ Len(t.words) = 1}

ASSUME InputsAssumption ==
  /\ "none" \notin Questions /\ Questions \cap Running = {}
  /\ Inputs.judging \subseteq Seq(Copy)
  /\ Inputs.spelling \subseteq [one : Spelling, two : Spelling]
  /\ Inputs.resolving \subseteq [names : Path, depth : Nat, real : Path]
  /\ Inputs.fence \subseteq Fence
  /\ \A apps \in Inputs.footprints : IsFiniteSet(apps) /\ apps \subseteq App
  /\ Inputs.remnant \subseteq [asked : Path, real : Path, disk : STRING, relative : BOOLEAN]
  /\ \A homes \in Inputs.homes : homes \subseteq Homestead
  /\ Inputs.move \subseteq [from : Path, to : Path]
  /\ Inputs.folder \subseteq AnyFolder
  /\ Inputs.status \subseteq AnyStatus
  /\ Inputs.signature \subseteq [embedded : EmbeddedCodes, sha256 : Lookups, sha1 : Lookups]
  /\ Inputs.hardening \subseteq Hardening
  /\ Inputs.tasks \subseteq TaskStore
  /\ Inputs.week \subseteq Week
  /\ Inputs.collection \subseteq Sitting
  /\ Inputs.command \subseteq Seq(Token)
  /\ Inputs.task \subseteq Seq({"exec", "com"})
  /\ \A es \in Inputs.volume :
       IsFiniteSet(DOMAIN es) /\ es \in [DOMAIN es -> [parent : Nat, folder : BOOLEAN, bytes : Nat]]

-----------------------------------------------------------------------------
(* The machines at rest, for the studies that do not run them.               *)

SearchAtRest ==
  /\ content = [f \in Files |-> "x"] /\ chunk = [t \in Hashers |-> {}]
  /\ heads = [t \in Hashers |-> {}] /\ reserved = 0 /\ readBytes = 0
  /\ truncated = FALSE /\ unread = {} /\ identical = {} /\ cancelled = FALSE
  /\ searched = "at-rest"

WalkAtRest == tree = <<>> /\ stack = <<>> /\ counted = 0 /\ walk = "at-rest"

ScanAtRest ==
  /\ scan = "at-rest" /\ kind = "quick" /\ history = {} /\ past = {} /\ detected = {}
  /\ known = [read |-> FALSE, named |-> FALSE, keys |-> {}] /\ stopAsked = FALSE /\ exitCode = "none"
  /\ completed = TRUE /\ caveat = "none" /\ found = {}

KeyAtRest ==
  /\ key = <<>> /\ holds = [n \in Services |-> "driver"] /\ steady = {} /\ written = 0
  /\ clock = 1 /\ blurred = FALSE /\ writes = 0 /\ reading = "unasked"
  /\ shape = [count |-> 0, written |-> 0] /\ got = <<>> /\ attempt = 0 /\ whole = FALSE
  /\ left = <<>> /\ entries = {} /\ refused = {}

TableAtRest ==
  /\ onDisk = <<>> /\ runs = <<>> /\ carry = <<>> /\ nextRecord = 1 /\ sent = 0 /\ queue = <<>>
  /\ parsing = [p \in Parsers |-> NoBlock] /\ mine = [p \in Parsers |-> <<>>]
  /\ tableRead = "unasked" /\ shorts = 0 /\ cut = FALSE
  /\ snapshot = [entries |-> <<>>, skipped |-> 0]

Init ==
  /\ input = <<>> /\ study \in {"none"} \cup Running
  /\ IF study = "search" THEN DuplicatesInit ELSE SearchAtRest
  /\ IF study = "walk" THEN WalkInit ELSE WalkAtRest
  /\ IF study = "scan" THEN ScanInit ELSE ScanAtRest
  /\ IF study = "services" THEN KeyInit ELSE KeyAtRest
  /\ IF study = "table" THEN TableInit ELSE TableAtRest

Ask ==
  /\ study = "none" /\ study' \in Questions /\ input' \in Inputs[study']
  /\ UNCHANGED <<dupVars, walkVars, scanVars, keyVars, tableVars>>

Next ==
  \/ study = "search" /\ DuplicatesNext /\ UNCHANGED <<study, input, walkVars, scanVars, keyVars, tableVars>>
  \/ study = "walk" /\ (ListFolder \/ EndWalk) /\ UNCHANGED <<study, input, dupVars, scanVars, keyVars, tableVars>>
  \/ study = "scan" /\ DefenderScanNext /\ UNCHANGED <<study, input, dupVars, walkVars, keyVars, tableVars>>
  \/ study = "services" /\ KeyNext /\ UNCHANGED <<study, input, dupVars, walkVars, scanVars, tableVars>>
  \/ study = "table" /\ TableNext /\ UNCHANGED <<study, input, dupVars, walkVars, scanVars, keyVars>>
  \/ Ask

DecisionsSpec == Init /\ [][Next]_vars

-----------------------------------------------------------------------------
(* The properties of the studies, each about the input in hand.              *)

\* Duplicates!KeeperStays of every set of copies (duplicates.rs: judge).
KeepersStay == study = "judging" => KeeperStays(input)

\* Duplicates!SpellingsAgree and ResolvedIsBelow: text forms of one object agree,
\* and a path that is not there stays below what is (paths.rs).
PathsAreOne ==
  /\ study = "spelling" => SpellingsAgree(input.one, input.two)
  /\ study = "resolving" => ResolvedIsBelow(input.names, input.depth, input.real)

\* Duplicates!NeverBeyondTheFence, and that the caller's own downloads stay in
\* reach (duplicates.rs: check_within).
FenceHolds ==
  study = "fence" =>
    /\ NeverBeyondTheFence(input.asked, input.real, input.what, input.on, input.intent)
    /\ OwnIsReachable(input.on, input.intent)

\* Leftovers!NamedIsNoLeftover and LeftoversPassTheFence (orphans.rs: find).
LeftoversAreNobodys ==
  study = "footprints" => NamedIsNoLeftover(input) /\ LeftoversPassTheFence(input)

\* Leftovers!OneTotalCountsOnce (apps.rs: footprints).
TotalsCountOnce == study = "footprints" => OneTotalCountsOnce(input)

\* Leftovers!RemnantsAreTrue (remnants.rs: judge).
RemnantsAreJudgedTrue ==
  study = "remnant" => RemnantsAreTrue(input.asked, input.real, input.disk, input.relative)

\* Leftovers!MeasuredWhole while a leftover is measured (remnants.rs: measure).
MeasuredIsWhole == study = "walk" => MeasuredWhole

\* Leftovers!ProposalsAreMovable (organise.rs: find).
HomesAreReachable == study = "homes" => ProposalsAreMovable(input)

\* Leftovers!MovesStayHome (organise.rs: check_movable).
MovesStay == study = "move" => MovesStayHome(input.from, input.to)

\* Table!ReadAsWritten (mft.rs: read).
TableIsRead == study = "table" => ReadAsWritten

\* Table!TotalsAreTrue (index.rs: total_directories).
FoldersAddUp == study = "volume" => TotalsAreTrue(input)

\* Table!PathsLeadBack (index.rs: path_of, resolve).
RecordsAreFound == study = "volume" => PathsLeadBack(input)

\* A folder the installer accepts is one no ordinary account can put a file
\* into, by Windows' own rules, when it has no entry the check does not
\* interpret (trust.rs: writers_of, check_install_directory).
TrustedIsClosed ==
  study = "folder" /\ ReadInFull(input) => (CheckInstallDirectory(input) = "ok" => Closed(input))

\* WeeklyCheck!TrayIsCalm (tray.rs: protection_summary).
CalmIsEarned == study = "status" => TrayIsCalm(input)

\* WeeklyCheck!UnsignedWasLookedUp (signature.rs: settle).
UnsignedIsKnown ==
  study = "signature" => UnsignedWasLookedUp(input.embedded, input.sha256, input.sha1)

\* WeeklyCheck!QuietIsHard (hardening.rs: concerns).
QuietPanelIsHard == study = "hardening" => QuietIsHard(input)

\* WeeklyCheck!NoTaskIsHidden (persistence.rs: walk_tasks).
TasksAreSeen == study = "tasks" => NoTaskIsHidden(input)

\* WeeklyCheck!QuietWeekIsEarned (check.rs: run_and_record).
WeekIsEarned == study = "week" => QuietWeekIsEarned(input)

\* Anchors!GoneMeansLooked (baseline.rs: collect).
AbsenceIsLooked == study = "collection" => GoneMeansLooked(input)

\* Anchors!GapsReachNoFurther (baseline.rs: profiles_not_examined).
GapsAreConfined == study = "collection" => GapsReachNoFurther(input)

\* Anchors!SeenThrough (persistence.rs: resolve_expanded).
HostsAreSeenThrough == study = "command" => SeenThrough(input)

\* Anchors!ActionsApart (persistence.rs: task_entries_or).
ActionsAreApart == study = "task" => ActionsApart(input)

(***************************************************************************)
(* What may be removed or moved is judged by where it resolves to: the     *)
(* copy suggested to keep is one that stays if any does; a path beyond the *)
(* fence is refused however it is spelt; a leftover bears no installed     *)
(* name, and a remnant or a move stays where it may be; and a folder the   *)
(* installer trusts is closed to others, unless it has entries the check   *)
(* does not interpret.  What becomes of a path after it is judged is not   *)
(* part of it.                                                             *)
(***************************************************************************)
RemovalsAreFenced ==
    /\ KeepersStay
    /\ PathsAreOne
    /\ FenceHolds
    /\ LeftoversAreNobodys
    /\ RemnantsAreJudgedTrue
    /\ HomesAreReachable
    /\ MovesStay
    /\ TrustedIsClosed

(***************************************************************************)
(* Where the code keeps count of what it did not read, the count is right: *)
(* of a search that ran out of its budget, a leftover measured up to the   *)
(* ceiling, a key others wrote to while it was listed, the task store, and *)
(* a source or an account that would not open.  Files a search could not   *)
(* open and folders of a leftover that would not list are kept no count    *)
(* of, and the answers are whole but for them.                             *)
(***************************************************************************)
GapsAreAdmitted ==
    /\ ReadWithinCeiling
    /\ NothingMissedSilently
    /\ MeasuredIsWhole
    /\ NothingHidden
    /\ AbsenceIsLooked
    /\ GapsAreConfined
    /\ TasksAreSeen

(***************************************************************************)
(* What each answer may rest on: a clean Defender scan and a calm tray on  *)
(* facts that were read; "unsigned" on every route asked; a week with      *)
(* nothing to report on sources that answered, though Defender's answer    *)
(* may have gaps; a quiet hardening panel on values that stop something,   *)
(* where the policies could be read; and of a command that only hosts      *)
(* another, the program behind it is the one judged.                       *)
(***************************************************************************)
VerdictsAreEarned ==
    /\ CleanIsEarned
    /\ PastIsNotNew
    /\ CalmIsEarned
    /\ UnsignedIsKnown
    /\ QuietPanelIsHard
    /\ WeekIsEarned
    /\ HostsAreSeenThrough
    /\ ActionsAreApart

(***************************************************************************)
(* What the index says of the disk is so: the file table is read as it was *)
(* written, whoever parses which block first; a folder's total, and an     *)
(* application's, counts what lies below it once, whatever the parents in  *)
(* the table say; and the path of a record leads back to it.               *)
(***************************************************************************)
IndexIsTrue ==
    /\ TableIsRead
    /\ FoldersAddUp
    /\ TotalsCountOnce
    /\ RecordsAreFound
=============================================================================
