------------------------------- MODULE Lookup -------------------------------
(***************************************************************************)
(* What the window asks of the network: VirusTotal about one file, by the  *)
(* hash of it and under the person's own key, and GitHub about the latest  *)
(* release.  The network can fail before the request leaves, after it has  *)
(* left, and part way through the answer.                                  *)
(***************************************************************************)
EXTENDS Window

CONSTANTS
    Reports,        \* what VirusTotal may hold on a file: its four counts
    Versions        \* the versions that may run or be published

ASSUME LookupAssumption ==
    /\ Reports \subseteq [malicious : Nat, suspicious : Nat, harmless : Nat, undetected : Nat]
    /\ Versions \subseteq [number : Nat, form : {"release", "pre", "odd"}]

VARIABLES
    key,            \* the key file: absent, torn, or sealed
    got             \* what the http request of a call brought back

lookupVars == <<key, got>>

Nothing == [status |-> 0]

LookupInit ==
    /\ key \in {"absent", "sealed"}
    /\ got = [k \in Calls |-> Nothing]

----------------------------------------------------------------------------
\* http::get: nothing comes back; or a status with the whole body, or with a
\* body cut short, which is not told apart; a body over the limit is refused.
Get(k, statuses, bodies) ==
    \/ got' = [got EXCEPT ![k] = Nothing]
    \/ \E s \in statuses, whole \in BOOLEAN, body \in bodies :
         got' = [got EXCEPT ![k] = [status |-> s, whole |-> whole, body |-> body]]

\* key::load: what cannot be opened or unsealed is no key.
Load == key = "sealed"

\* store_at: an empty key clears, one of the wrong shape is refused, a good
\* one is sealed and written over the old one, and a write can stop half way.
StoreKey(k) ==
    /\ Running(k, {"set_virustotal_key"})
    /\ \/ cmd[k].key = "" /\ key' = "absent" /\ Show(k, "value")
       \/ cmd[k].key = "implausible" /\ Show(k, "error") /\ UNCHANGED key
       \/ /\ cmd[k].key = "plausible"
          /\ \/ key' = "sealed" /\ Show(k, "value")
             \/ key' \in {key, "torn"} /\ Show(k, "error")
    /\ UNCHANGED <<reply, log, got>>

KeyPresent(k) ==
    /\ Running(k, {"virustotal_key_present"})
    /\ Show(k, IF Load THEN "value" ELSE "nothing")
    /\ UNCHANGED <<reply, log, lookupVars>>

\* hash_file and look_up: a file that is too large or cannot be read, and a
\* key that is not there, end it before anything is sent.
Ask(k) ==
    /\ Running(k, {"virustotal_lookup"})
    /\ \/ Show(k, "error") /\ UNCHANGED got
       \/ Load /\ Get(k, {200, 401, 404, 429, 500}, Reports) /\ Onward(k, "answered")
    /\ UNCHANGED <<reply, log, key>>

\* interpret: what the counts support saying.
Interpret(r) ==
    LET flagged == r.malicious + r.suspicious
        engines == flagged + r.harmless + r.undetected IN
    IF engines = 0 THEN "notAnalysed"
    ELSE IF flagged = 0 THEN "clean"
    ELSE IF flagged <= 3 THEN "isolated" ELSE "substantial"

\* parse: a body that is cut short or holds no report is an error, never a
\* report with zero counts.
Parse(answer) == IF answer.whole THEN Interpret(answer.body) ELSE "error"

\* look_up, once there is an answer: a verdict for 200 and 404, an error for
\* everything else.
Verdict(k) ==
    CASE got[k].status = 200 -> Parse(got[k])
      [] got[k].status = 404 -> "notKnown"
      [] OTHER -> "error"

ReadVerdict(k) ==
    /\ pc[k] = "answered" /\ cmd[k].name = "virustotal_lookup"
    /\ IF Verdict(k) = "error" THEN UNCHANGED <<log, reply>>
                               ELSE Record(k, [what |-> "lookup", item |-> k])
    /\ Show(k, Verdict(k))
    /\ UNCHANGED lookupVars

----------------------------------------------------------------------------
\* update::parse: three numbers, kept in order as one here, and whether it is a
\* full release; anything else does not parse.
Parses(v) == v.form # "odd"
Rank(v) == 2 * v.number + (IF v.form = "release" THEN 1 ELSE 0)

\* compare and judge: an unpublished release is a problem, and so are versions
\* that do not parse; otherwise newer, ahead or level.
Judge(answer) ==
    LET current == answer.running IN
    IF answer.unpublished \/ ~Parses(current) \/ ~Parses(answer.version) THEN "problem"
    ELSE IF Rank(current) < Rank(answer.version) THEN "newer"
    ELSE IF Rank(current) > Rank(answer.version) THEN "ahead"
    ELSE "level"

AskGitHub(k) ==
    /\ Running(k, {"check_for_update"})
    /\ Get(k, {200, 403, 404, 429, 500},
           [version : Versions, unpublished : BOOLEAN, running : Versions])
    /\ Onward(k, "answered")
    /\ UNCHANGED <<reply, log, key>>

\* A slip: not newer is taken for up to date.
UpdateVerdictCalm(k) ==
    IF got[k].status = 200 /\ got[k].whole /\ Judge(got[k].body) # "problem"
    THEN IF Judge(got[k].body) = "newer" THEN "newer" ELSE "level"
    ELSE "problem"

\* check: every status but 200, and an answer that cannot be read, is a
\* problem; an answer cut short does not parse.
UpdateVerdict(k) ==
    IF got[k].status = 200 /\ got[k].whole THEN Judge(got[k].body) ELSE "problem"

ReadUpdate(k) ==
    /\ pc[k] = "answered" /\ cmd[k].name = "check_for_update"
    /\ Show(k, UpdateVerdict(k))
    /\ UNCHANGED <<reply, log, lookupVars>>

LookupNext(k) ==
    \/ StoreKey(k) \/ KeyPresent(k) \/ Ask(k) \/ ReadVerdict(k)
    \/ AskGitHub(k) \/ ReadUpdate(k)

----------------------------------------------------------------------------
(***************************************************************************)
(* A failure is not an absence, in either direction: "nothing flagged it"  *)
(* is said only of a file that some engine examined and none flagged, and  *)
(* "you have the latest release" only when the published release was read  *)
(* whole and is the one that runs.                                         *)
(***************************************************************************)
CalmOnlyWhenRead ==
    \A k \in Calls :
        pc[k] = "done" =>
            /\ shown[k] = "clean" =>
                 LET r == got[k].body IN
                 /\ got[k].whole /\ r.malicious + r.suspicious = 0
                 /\ r.harmless + r.undetected > 0
            /\ shown[k] = "level" =>
                 LET r == got[k].body IN
                 got[k].whole /\ r.running = r.version /\ ~r.unpublished
=============================================================================
