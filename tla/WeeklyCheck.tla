----------------------------- MODULE WeeklyCheck ------------------------------
(***************************************************************************)
(* What the machine's protection is said to be: Defender's status           *)
(* (kam-scanner/src/defender.rs) and the tray's line about it, the firewall *)
(* (kam-firewall/src/policy.rs: survey), signatures (kam-scanner/src/       *)
(* signature.rs), hardening (hardening.rs), the task store                  *)
(* (persistence.rs: walk_tasks), and the weekly check that puts them in the *)
(* audit log (kam-agent/src/check.rs).  A value that was not read is        *)
(* "unread", and an age that was not read is -1.                            *)
(***************************************************************************)
EXTENDS Integers, Sequences, FiniteSets, FiniteSetsExt, SequencesExt

Unread == "unread"

NoAge == 0 - 1

-----------------------------------------------------------------------------
(* defender.rs.                                                              *)

Protections == {"antivirus", "realtime", "behaviour", "cloud", "downloads", "tamper"}

\* Ages come back as very large numbers when Defender means never.
SaneAge(raw) == IF raw \in 0 .. 36499 THEN raw ELSE NoAge

\* status: every flag as reported, every age if it is one.
Status(flags, signatures, quick, full) ==
  [flags |-> flags, signatures |-> SaneAge(signatures), quick |-> SaneAge(quick), full |-> SaneAge(full)]

NewestScan(status) ==
  LET ages == {status.quick, status.full} \ {NoAge}
  IN IF ages = {} THEN NoAge ELSE CHOOSE a \in ages : \A b \in ages : a <= b

DefenderConcerns(status) ==
  {p \in Protections : status.flags[p] = "off"}
    \cup (IF status.signatures >= 7 THEN {"definitions-are-old"} ELSE {})
    \cup (IF NewestScan(status) = NoAge THEN {"never-scanned"} ELSE {})
    \cup (IF NewestScan(status) >= 30 THEN {"scanned-long-ago"} ELSE {})

Unreported(status) ==
  {p \in Protections : status.flags[p] = Unread}
    \cup (IF status.signatures = NoAge THEN {"how-old-its-definitions-are"} ELSE {})

\* A slip: no concern is taken for everything on.
ProtectionSummaryByConcerns(status) ==
  IF DefenderConcerns(status) = {} THEN "on-and-up-to-date" ELSE "worth-checking"

\* The tray's line.
ProtectionSummary(status) ==
  IF DefenderConcerns(status) # {} THEN "worth-checking"
  ELSE IF Unreported(status) = {} THEN "on-and-up-to-date" ELSE "only-partly-read"

-----------------------------------------------------------------------------
(* policy.rs: one profile is enabled, inbound and outbound as read; the rule *)
(* list has rules that would not read, and may have stopped early.           *)

ProfileConcerns(profile) ==
  (IF profile.enabled = "off" THEN {"off"} ELSE {})
    \cup (IF profile.enabled = "on" /\ profile.inbound = "allow" THEN {"lets-everything-in"} ELSE {})

ReadProfiles(profile) ==
  {what \in {"enabled", "inbound", "outbound", "active"} : profile[what] = Unread}

\* walk_rules, read_rules: what would not read is counted, and a list that
\* stopped early says so.
ReadRules(rules) ==
  (IF rules.bad > 0 THEN {"rules-not-listed"} ELSE {})
    \cup (IF rules.stopped THEN {"list-not-read-to-the-end"} ELSE {})

FirewallSurvey(firewall) ==
  [concerns |-> ProfileConcerns(firewall.profile),
   unread   |-> ReadProfiles(firewall.profile) \cup ReadRules(firewall.rules)]

-----------------------------------------------------------------------------
(* signature.rs.  `embedded` is what the trust provider says of the file,    *)
(* and each catalogue lookup, by SHA-256 and by SHA-1, what came of it.      *)

EmbeddedCodes == {"ok", "no-signature", "not-a-form", "broken", "unreadable"}

Lookups == {"ok", "broken", "no-signature", "not-listed", "failed"}

\* verify_catalogue: the first algorithm that lists the file decides; otherwise
\* a lookup that failed is not one that found nothing.
VerifyCatalogue(sha256, sha1) ==
  IF sha256 \notin {"not-listed", "failed"} THEN sha256
  ELSE IF sha1 \notin {"not-listed", "failed"} THEN sha1
  ELSE IF "failed" \in {sha256, sha1} THEN "failed" ELSE "not-listed"

\* A slip: a catalogue that could not be asked does not list the file.
SettleHopeful(embedded, sha256, sha1) ==
  LET catalogue == VerifyCatalogue(sha256, sha1)
  IN CASE embedded = "ok" -> "valid"
       [] embedded = "unreadable" -> "unknown"
       [] embedded = "no-signature" /\ catalogue = "ok" -> "valid"
       [] embedded = "no-signature" /\ catalogue = "broken" -> "invalid"
       [] embedded = "broken" -> "invalid"
       [] OTHER -> "unsigned"

\* settle and of: the catalogues are asked only when the file carries nothing.
SettleSignature(embedded, sha256, sha1) ==
  LET catalogue == VerifyCatalogue(sha256, sha1)
  IN CASE embedded = "ok" -> "valid"
       [] embedded = "unreadable" -> "unknown"
       [] embedded = "no-signature" /\ catalogue = "ok" -> "valid"
       [] embedded = "no-signature" /\ catalogue = "broken" -> "invalid"
       [] embedded = "no-signature" /\ catalogue = "failed" -> "unknown"
       [] embedded = "broken" -> "invalid"
       [] OTHER -> "unsigned"

-----------------------------------------------------------------------------
(* hardening.rs.  A setting is a number, or NoAge when nothing is written;   *)
(* policy is read before what was set locally, and a policy key that cannot  *)
(* be opened reads as one that is not there.                                 *)

\* A slip: what was set locally is read last, and wins.
InForceLocally(setting, policyRead) ==
  IF setting.local # NoAge \/ ~policyRead THEN setting.local ELSE setting.policy

\* dword and the two passes of survey: policy over the local value.
InForce(setting, policyRead) ==
  IF policyRead /\ setting.policy # NoAge THEN setting.policy ELSE setting.local

\* Mode: block and warn stop something; audit, off and the unknown do not.
RuleProtects(value) == value \in {1, 6}

\* FolderAccess: on, or blocking changes to the disk.
FolderProtects(value) == value \in {1, 3}

\* switches: unwanted applications are blocked by 1 and recorded by 2;
\* credential memory is protected by 1 and by 2; the other two by 1.
SwitchesOn(hardening) ==
  {s \in {"pua", "lsa", "memory", "blocklist"} :
     CASE s = "pua" -> InForce(hardening.pua, hardening.policyRead) = 1
       [] s = "lsa" -> hardening.lsa \in {1, 2}
       [] s = "memory" -> hardening.memory = 1
       [] s = "blocklist" -> hardening.blocklist = 1}

\* The blocklist is the one switch Windows has on by itself.
UnexpectedlyOff(hardening) == hardening.blocklist = 0

\* Report::concerns, over one recommended rule.
HardeningConcerns(hardening) ==
  (IF RuleProtects(InForce(hardening.rule, hardening.policyRead)) THEN {} ELSE {"rules-are-off"})
    \cup (IF FolderProtects(InForce(hardening.folder, hardening.policyRead)) THEN {} ELSE {"folders"})
    \cup (IF UnexpectedlyOff(hardening) THEN {"something-changed-it"} ELSE {})
    \cup (IF {"pua", "lsa", "memory"} \subseteq SwitchesOn(hardening)
             /\ ("blocklist" \in SwitchesOn(hardening) \/ UnexpectedlyOff(hardening))
          THEN {} ELSE {"not-switched-on-and-free"})

-----------------------------------------------------------------------------
(* persistence.rs: walk_tasks.  The task store is a set of paths, each a     *)
(* task file, a folder or a link; `closed` are those that will not read.     *)

CONSTANT TaskDepth     \* how deep the task tree is followed

ASSUME DepthAssumption == TaskDepth \in Nat

\* A folder is listed when everything above it was, it is no link, it is not too
\* deep, and it reads.
Listed(store, folder) ==
  \A n \in 0 .. Len(folder) :
    LET above == SubSeq(folder, 1, n)
    IN above \in store.folders /\ above \notin store.closed /\ n <= TaskDepth

\* A slip: a folder too deep to be followed is left in silence.
MissedTasksQuietly(store) ==
  {p \in store.folders \cup store.links \cup store.files :
     /\ p = <<>> \/ Listed(store, Front(p))
     /\ p \in store.closed \/ p \in store.links}

\* The places the walk names as not read.
MissedTasks(store) ==
  {p \in store.folders \cup store.links \cup store.files :
     /\ p = <<>> \/ Listed(store, Front(p))
     /\ p \in store.closed \/ p \in store.links \/ (p \in store.folders /\ Len(p) > TaskDepth)}

\* The task files read.
ReadTasks(store) ==
  {p \in store.files \ store.closed : Listed(store, Front(p))}

-----------------------------------------------------------------------------
(* check.rs.  A finding is serious or a note.                                *)

Serious(about, what) == [about |-> about, what |-> what, serious |-> TRUE]

Note(about, what) == [about |-> about, what |-> what, serious |-> FALSE]

\* check_defender.  Unreported settings are not among the findings.
CheckDefender(defender) ==
  IF ~defender.read THEN {Note("Defender", Unread)}
  ELSE {Serious("Defender", c) : c \in DefenderConcerns(defender.status)}
         \cup (IF defender.status.signatures > 7 THEN {Serious("Defender", "definitions-are-stale")} ELSE {})

\* A slip: what could not be read of the firewall is nobody's concern.
CheckFirewallQuiet(firewall) ==
  IF ~firewall.read THEN {Note("firewall", Unread)}
  ELSE {Serious("firewall", c) : c \in FirewallSurvey(firewall).concerns}

CheckFirewall(firewall) ==
  IF ~firewall.read THEN {Note("firewall", Unread)}
  ELSE {Serious("firewall", c) : c \in FirewallSurvey(firewall).concerns}
         \cup {Note("firewall", u) : u \in FirewallSurvey(firewall).unread}

\* check_space: a tenth of the drive; one that says it has no room is passed over.
CheckSpace(space) ==
  IF ~space.read THEN {Note("drives", Unread)}
  ELSE {Note("drives", v.root) : v \in {x \in space.volumes : x.total > 0 /\ x.free * 10 < x.total}}

\* check_startup, over the programs that start themselves: what nothing vouches
\* for, this program's own files apart, and that something could not be read.
CheckStartup(startup) ==
  LET unsigned == {p \in startup.programs : SettleSignature(p.embedded, p.sha256, p.sha1) = "unsigned"}
  IN (IF \E p \in unsigned : ~p.ours THEN {Note("startup", "not-signed")} ELSE {})
     \cup (IF \E p \in unsigned : p.ours THEN {Note("startup", "this-program-is-not-signed")} ELSE {})
     \cup (IF startup.missed # {} THEN {Note("startup", Unread)} ELSE {})

Findings(machine) ==
  CheckDefender(machine.defender) \cup CheckFirewall(machine.firewall)
    \cup CheckStartup(machine.startup) \cup CheckSpace(machine.space)

\* sort_by_key: the serious ones first.
SeriousFirst(findings) ==
  FoldSet(LAMBDA x, list : IF x.serious THEN <<x>> \o list ELSE Append(list, x), <<>>, findings)

\* run.
RunCheck(machine) == SeriousFirst(Findings(machine))

\* run_and_record: an entry for each, and one about the check itself.
RunAndRecord(machine) ==
  LET findings == RunCheck(machine)
  IN [log     |-> [i \in DOMAIN findings |-> IF findings[i].serious THEN "Refused" ELSE "Observed"],
      serious |-> Cardinality({i \in DOMAIN findings : findings[i].serious}),
      weekly  |-> IF findings = <<>> THEN "nothing-to-report" ELSE "worth-a-look"]

-----------------------------------------------------------------------------
(* Properties.                                                               *)

\* The tray says all is well only when every protection was read as on, the
\* definitions are less than a week old, and something was scanned within the
\* month (tray.rs:68-91, defender.rs:66-155).
TrayIsCalm(status) ==
  ProtectionSummary(status) = "on-and-up-to-date" =>
    /\ \A p \in Protections : status.flags[p] = "on"
    /\ status.signatures \in 0 .. 6
    /\ NewestScan(status) \in 0 .. 29

\* A program is called unsigned only when every route that could vouch for it
\* was asked and answered, and one whose own signature is broken is never
\* called valid on the strength of a catalogue (signature.rs:255-470).
UnsignedWasLookedUp(embedded, sha256, sha1) ==
  LET said == SettleSignature(embedded, sha256, sha1)
  IN /\ said = "unsigned" =>
          /\ embedded \in {"no-signature", "not-a-form"}
          /\ embedded = "no-signature" =>
               \/ sha256 = "not-listed" /\ sha1 = "not-listed"
               \/ "no-signature" \in {sha256, sha1}
     /\ embedded = "broken" => said = "invalid"

\* The panel is quiet only when the value that counts, a policy's before the
\* owner's, really stops something for every rule and switch; recording alone
\* never does.  A policy that could not be opened reads as none, and then
\* nothing is promised of it (hardening.rs:741-820, 849-920).
QuietIsHard(hardening) ==
  HardeningConcerns(hardening) = {} /\ hardening.policyRead =>
    LET counts(setting) == IF setting.policy # NoAge THEN setting.policy ELSE setting.local
    IN /\ counts(hardening.rule) \in {1, 6}
       /\ counts(hardening.folder) \in {1, 3}
       /\ counts(hardening.pua) = 1
       /\ hardening.blocklist = 1

\* A task file that is not read lies at or below a place named as unread, so it
\* can never be taken for removed (persistence.rs:1131-1214).
NoTaskIsHidden(store) ==
  \A file \in store.files :
    file \in ReadTasks(store) \/ \E place \in MissedTasks(store) : IsPrefix(place, file)

\* "Checked; nothing to report" is written only when the firewall is up and was
\* read in full, the startup survey was read in full, the drives were listed and
\* Defender answered with nothing off, though perhaps with something unread; and
\* every serious finding is in the log above every note (check.rs:62-245).
QuietWeekIsEarned(machine) ==
  LET said == RunAndRecord(machine)
      firewall == machine.firewall
  IN /\ said.weekly = "nothing-to-report" =>
          /\ machine.defender.read /\ firewall.read /\ machine.space.read
          /\ \A p \in Protections : machine.defender.status.flags[p] # "off"
          /\ firewall.profile.enabled = "on" /\ firewall.profile.inbound = "block"
          /\ firewall.rules.bad = 0 /\ ~firewall.rules.stopped
          /\ machine.startup.missed = {}
          /\ \A p \in machine.startup.programs :
               SettleSignature(p.embedded, p.sha256, p.sha1) # "unsigned"
     /\ \A i, j \in DOMAIN said.log : said.log[i] = "Refused" /\ said.log[j] = "Observed" => i < j

-----------------------------------------------------------------------------
(***************************************************************************)
(* Asking Defender to scan and saying what it found                         *)
(* (kam-scanner/src/defender_scan.rs: run), against Defender's history as   *)
(* defender.rs: threats reads it.  A scan runs while Defender records, the  *)
(* person may stop it, and what was found reaches the history a moment      *)
(* after the scanner has ended.                                             *)
(***************************************************************************)

CONSTANT Detections     \* one threat at one time each

ScanKinds == {"quick", "full", "path"}

VARIABLES
  scan,        \* where the scan is: see ScanPhases
  kind,        \* what was asked for
  history,     \* detections Defender has recorded
  past,        \* those recorded before the scan was asked for
  detected,    \* what the scan came upon
  known,       \* the keys read beforehand, and whether they could be read
  stopAsked,   \* the job's stop flag
  exitCode,    \* "none", "zero" or "other"
  completed, caveat, found

scanVars == <<scan, kind, history, past, detected, known, stopAsked, exitCode,
              completed, caveat, found>>

\* threats: the key of a detection is its name and its time, and the name comes
\* from a second class that may not have been readable.
Key(detection, named) == <<detection, IF named THEN "its-name" ELSE "name-could-not-be-read">>

Threats(named) == {Key(d, named) : d \in history}

NewDetections(named) == Threats(named) \ known.keys

ScanInit ==
  /\ scan = "asked" /\ kind \in ScanKinds
  /\ past \in SUBSET Detections /\ history = past /\ detected = {}
  /\ known = [read |-> FALSE, named |-> FALSE, keys |-> {}]
  /\ stopAsked = FALSE /\ exitCode = "none"
  /\ completed = TRUE /\ caveat = "none" /\ found = {}

\* No scanner on the machine, or a target that is not a plain path that is there,
\* or a scanner that would not start.
RefuseScan ==
  /\ scan = "asked"
  /\ scan' = "refused"
  /\ UNCHANGED <<kind, history, past, detected, known, stopAsked, exitCode, completed, caveat, found>>

\* What Defender already knew is read first, if it can be; then the scanner runs.
StartScan ==
  /\ scan = "asked"
  /\ scan' = "running"
  /\ \E read, named \in BOOLEAN :
       known' = [read |-> read, named |-> named, keys |-> IF read THEN Threats(named) ELSE {}]
  /\ UNCHANGED <<kind, history, past, detected, stopAsked, exitCode, completed, caveat, found>>

\* The scanner comes upon something.
Detect(d) ==
  /\ scan = "running" /\ d \notin past \cup detected
  /\ detected' = detected \cup {d}
  /\ UNCHANGED <<scan, kind, history, past, known, stopAsked, exitCode, completed, caveat, found>>

\* Defender writes it into its history.
Record(d) ==
  /\ scan \in {"running", "look", "look-again"} /\ d \in detected \ history
  /\ history' = history \cup {d}
  /\ UNCHANGED <<scan, kind, past, detected, known, stopAsked, exitCode, completed, caveat, found>>

StopScan ==
  /\ scan = "running" /\ ~stopAsked
  /\ stopAsked' = TRUE
  /\ UNCHANGED <<scan, kind, history, past, detected, known, exitCode, completed, caveat, found>>

\* try_wait: the scanner has ended.  Its exit code is not tied to what it found.
ScannerEnds ==
  /\ scan = "running"
  /\ \E code \in {"zero", "other"} : exitCode' = code
  /\ scan' = "look"
  /\ UNCHANGED <<kind, history, past, detected, known, stopAsked, completed, caveat, found>>

WaitFails ==
  /\ scan = "running"
  /\ scan' = "refused"
  /\ UNCHANGED <<kind, history, past, detected, known, stopAsked, exitCode, completed, caveat, found>>

\* The stop is seen, or the hours are up: the scanner is killed.
KillScan ==
  /\ scan = "running"
  /\ scan' = "look" /\ completed' = FALSE
  /\ \/ stopAsked /\ caveat' = "stopped"
     \/ caveat' = "still-running-after-hours"
  /\ UNCHANGED <<kind, history, past, detected, known, stopAsked, exitCode, found>>

GetOrInsert(why) == IF caveat = "none" THEN why ELSE caveat

\* exit_caveat, and what a finished scan that found something says.
Settle(what, why) ==
  IF what = {} /\ why = "none"
  THEN IF exitCode = "other" THEN "not-a-clean-result" ELSE "none"
  ELSE IF completed /\ why = "none"
       THEN IF kind = "path" THEN "still-where-it-was" ELSE "dealt-with-by-Windows"
       ELSE why

Tell(what, why) ==
  /\ scan' = "told" /\ found' = what /\ caveat' = Settle(what, why)
  /\ UNCHANGED <<kind, history, past, detected, known, stopAsked, exitCode, completed>>

\* A slip: what could not be compared with is compared with nothing.
CannotLookShowsAll ==
  /\ scan \in {"look", "look-again"}
  /\ \/ ~known.read /\ Tell(Threats(known.named), GetOrInsert("nothing-can-be-called-new"))
     \/ known.read /\ Tell({}, GetOrInsert("history-unread-after-the-scan"))

\* The history could not be read before, or cannot be read now.
CannotLook ==
  /\ scan \in {"look", "look-again"}
  /\ \/ ~known.read /\ Tell({}, GetOrInsert("nothing-can-be-called-new"))
     \/ known.read /\ Tell({}, GetOrInsert("history-unread-after-the-scan"))

\* A slip: the history is looked at once, as soon as the scanner has ended.
LookOnce ==
  /\ scan = "look" /\ known.read
  /\ \E named \in BOOLEAN : Tell(NewDetections(named), caveat)

\* The first look.
Look ==
  /\ scan = "look" /\ known.read
  /\ \E named \in BOOLEAN :
       IF NewDetections(named) # {}
       THEN Tell(NewDetections(named), caveat)
       ELSE /\ scan' = "look-again"
            /\ UNCHANGED <<kind, history, past, detected, known, stopAsked, exitCode,
                           completed, caveat, found>>

\* The second, after a wait the code takes to be longer than Defender's lag:
\* what was detected is in the history by then.
LookAgain ==
  /\ scan = "look-again" /\ detected \subseteq history
  /\ \E named \in BOOLEAN : Tell(NewDetections(named), caveat)

DefenderScanNext ==
  \/ RefuseScan \/ StartScan \/ StopScan \/ ScannerEnds \/ WaitFails \/ KillScan
  \/ CannotLook \/ Look \/ LookAgain
  \/ \E d \in Detections : Detect(d) \/ Record(d)

-----------------------------------------------------------------------------
(* Properties.                                                               *)

\* A result that names nothing and warns of nothing is that of a scan that ran
\* to its end, exited with zero, could be compared with what was known before,
\* and came upon nothing (defender_scan.rs:334-410).
CleanIsEarned ==
  scan = "told" /\ found = {} /\ caveat = "none"
    => completed /\ exitCode = "zero" /\ known.read /\ detected = {}

\* Nothing that was in the history before the scan, under the name it could be
\* read by then, is shown as found by it (defender_scan.rs:176-186, 293-305).
PastIsNotNew ==
  scan = "told" => \A d \in past : Key(d, known.named) \notin found
=============================================================================
