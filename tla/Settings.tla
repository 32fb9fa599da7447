------------------------------ MODULE Settings ------------------------------
(***************************************************************************)
(* The requests that change a setting: the agent's own protection switch,  *)
(* Defender's hardening rules, Windows' audit policy, and the weekly task. *)
(* Each is asked for through something that may refuse, may take the       *)
(* change and be overruled, or may be read back differently.               *)
(***************************************************************************)
EXTENDS Connections

CONSTANTS
    KnownRules,     \* the hardening rules and switches request() knows
    Locked,         \* those of them group policy or Tamper Protection holds
    Tasks           \* whether the scheduler's folder may hold other tasks

ASSUME SettingsAssumption ==
    \A r \in Requests :
        /\ r.kind \in {"SetProtection", "SetCanaryAuditing", "SetSchedule"} => r.on \in BOOLEAN
        /\ r.kind = "SetHardening" => r.wanted \in {"off", "audit", "block"}

VARIABLES
    protection,     \* the store's protection setting
    hardening,      \* the mode of each known rule, as the registry has it
    auditing,       \* the audit policy, per subcategory
    task,           \* whose weekly check is registered, if any
    folder          \* whether the product's task folder exists

settingsVars == <<protection, hardening, auditing, task, folder>>

Subcategories == {"file", "registry"}

SettingsInit ==
    /\ protection = TRUE
    /\ hardening = [r \in KnownRules |-> "off"]
    /\ auditing = [s \in Subcategories |-> FALSE]
    /\ task = "nobody" /\ folder = FALSE

\* A slip: the arm that saves the setting leaves no entry.
SetProtectionUnrecorded(c) ==
    /\ Handling(c, "SetProtection")
    /\ \/ /\ protection' = req[c].on
          /\ Finish(c, protection' # protection, <<>>, "Ok")
       \/ /\ UNCHANGED protection
          /\ Finish(c, FALSE, <<>>, "Error")
    /\ UNCHANGED <<hardening, auditing, task, folder>>

\* The store takes the setting and the change is recorded; or the store
\* refuses it, nothing was changed, and nothing is recorded either.
SetProtection(c) ==
    /\ Handling(c, "SetProtection")
    /\ \/ /\ protection' = req[c].on
          /\ Finish(c, protection' # protection, <<"Changed">>, "Ok")
       \/ /\ UNCHANGED protection
          /\ Finish(c, FALSE, <<>>, "Error")
    /\ UNCHANGED <<hardening, auditing, task, folder>>

\* The Defender cmdlet exits zero or not.  Zero is not evidence: a locked
\* rule keeps its mode all the same.  Non-zero changed nothing.
RunDefenderCmdlet(rule, wanted, ok) ==
    hardening' = IF ok /\ rule \notin Locked
                 THEN [hardening EXCEPT ![rule] = wanted]
                 ELSE hardening

\* hardening::request: an id that is not in the catalogue is refused before a
\* process is created.
HardeningRequest(rule, wanted, ok) ==
    IF rule \in KnownRules THEN RunDefenderCmdlet(rule, wanted, ok)
                           ELSE ~ok /\ UNCHANGED hardening

\* On success the answer is the posture read back, not what was asked for.
SetHardening(c) ==
    /\ Handling(c, "SetHardening")
    /\ \E ok \in BOOLEAN :
         /\ HardeningRequest(req[c].rule, req[c].wanted, ok)
         /\ Finish(c, hardening' # hardening,
                   IF ok THEN <<"Changed">> ELSE <<"Refused">>,
                   IF ok THEN "Ok" ELSE "Error")
    /\ UNCHANGED <<protection, auditing, task, folder>>

\* audit::set_auditing: one call for both subcategories, taken whole or not at
\* all.  Off is "no auditing" for both, whatever was there before.
SetAuditing(on, ok) ==
    auditing' = IF ok THEN [s \in Subcategories |-> on] ELSE auditing

\* The privilege every one of these calls needs is held and enabled, or not.
EnableSecurityPrivilege == BOOLEAN

SetCanaryAuditing(c) ==
    /\ Handling(c, "SetCanaryAuditing")
    /\ \E ok \in EnableSecurityPrivilege :
         /\ SetAuditing(req[c].on, ok)
         /\ Finish(c, auditing' # auditing,
                   IF ok THEN <<"Changed">> ELSE <<"Refused">>,
                   IF ok THEN "Ok" ELSE "Error")
    /\ UNCHANGED <<protection, hardening, task, folder>>

\* kam_schedule::current, read back for the answer: what is registered, or an
\* error when that could not be found out.
ReadBack == {"Ok", "Error"}

\* kam_schedule::disable: no folder is the state being asked for; a folder
\* without the task is an error; otherwise the task goes, and the folder with
\* it when it is empty and Windows lets it go.
Disable ==
    \/ ~folder /\ UNCHANGED <<task, folder>>
    \/ /\ folder /\ task # "nobody"
       /\ task' = "nobody"
       /\ folder' \in (IF Tasks THEN {TRUE} ELSE BOOLEAN)

\* Removed, or it could not be: the scheduler is out of reach, or the folder
\* is there and the task is not.
DisableSchedule(c) ==
    /\ Handling(c, "SetSchedule") /\ ~req[c].on
    /\ \/ /\ Disable
          /\ \E answer \in ReadBack : Finish(c, task' # task, <<"Changed">>, answer)
       \/ /\ UNCHANGED <<task, folder>>
          /\ Finish(c, FALSE, <<"Refused">>, "Error")
    /\ UNCHANGED <<protection, hardening, auditing>>

\* kam_schedule::enable: the task folder is made first, and stays when the
\* registration is refused; a registration replaces whatever task is there.
Enable(account, ok) ==
    /\ folder' \in (IF ok THEN {TRUE} ELSE {folder, TRUE})
    /\ task' = IF ok THEN account ELSE task

\* A slip: a registration that cannot be read back is also told as refused.
EnableScheduleReadBack(c) ==
    /\ Handling(c, "SetSchedule") /\ req[c].on
    /\ Enable(caller[c].user, TRUE)
    /\ \/ Finish(c, TRUE, <<"Changed">>, "Ok")
       \/ Finish(c, TRUE, <<"Changed", "Refused">>, "Error")
    /\ UNCHANGED <<protection, hardening, auditing>>

\* A silly hour is the caller's error and leaves no entry; the account is the
\* caller's own and never comes over the pipe.  A registration that is refused
\* may leave the folder: what was asked for, and is recorded, is the task.
EnableSchedule(c) ==
    /\ Handling(c, "SetSchedule") /\ req[c].on
    /\ \/ /\ req[c].hour > 23
          /\ UNCHANGED <<task, folder>>
          /\ Finish(c, FALSE, <<>>, "Error")
       \/ /\ req[c].hour <= 23
          /\ \E ok \in BOOLEAN :
               /\ Enable(caller[c].user, ok)
               /\ Finish(c, ok, IF ok THEN <<"Changed">> ELSE <<"Refused">>,
                         IF ok THEN "Ok" ELSE "Error")
    /\ UNCHANGED <<protection, hardening, auditing>>

SettingsNext(c) ==
    \/ SetProtection(c) \/ SetHardening(c) \/ SetCanaryAuditing(c)
    \/ DisableSchedule(c) \/ EnableSchedule(c)

\* Somebody with the rights changes the audit policy, or deletes the task in
\* Task Scheduler and leaves the folder.
OthersChangeSettings ==
    \/ /\ auditing' = [auditing EXCEPT !["file"] = ~@]
       /\ UNCHANGED <<task, folder>>
    \/ /\ task # "nobody" /\ task' = "nobody"
       /\ UNCHANGED <<auditing, folder>>

SettingsTypeOK ==
    /\ protection \in BOOLEAN
    /\ hardening \in [KnownRules -> {"off", "audit", "block"}]
    /\ auditing \in [Subcategories -> BOOLEAN]
    /\ task \in Users \cup {"nobody"} /\ folder \in BOOLEAN
=============================================================================
