------------------------------- MODULE Window -------------------------------
(***************************************************************************)
(* The commands the web view may call, each a call in flight: most carry   *)
(* one request to the agent on a pool thread and unwrap its answer, three  *)
(* stream a job, six go through the permission prompt (Consent), and a few *)
(* act as the person themselves (Recycle, Lookup).  Shell composes them.   *)
(***************************************************************************)
EXTENDS Integers, Sequences, FiniteSets

CONSTANTS
    Calls,          \* the calls that can be in flight at once
    Commands,       \* the commands with their arguments: records with a "name"
    MaxInvoked,     \* bound: commands called in one behaviour
    Groups          \* bound: commands that share state, called together

VARIABLES
    pc,             \* where each call is
    cmd,            \* the command each call runs
    shown,          \* what the window is given at the end
    reply,          \* the agent's own answer to the call, if it was asked
    log,            \* what the agent's audit log says the window did
    elevated,       \* whether the window itself runs with administrator rights
    invoked,        \* how many commands have been called
    group           \* the last one called, for the bound

callVars == <<pc, cmd, shown, reply, log, elevated, invoked, group>>

NoCommand == [name |-> "none"]

WindowInit ==
    /\ pc = [k \in Calls |-> "idle"] /\ cmd = [k \in Calls |-> NoCommand]
    /\ shown = [k \in Calls |-> "none"] /\ reply = [k \in Calls |-> "none"]
    /\ log = {} /\ elevated \in BOOLEAN
    /\ invoked = 0 /\ group = "none"

(***************************************************************************)
(* The enumerated set of things the window can ask for, in the order of    *)
(* the source.  Each of these sends the one request of its name.           *)
(***************************************************************************)
Overview == {"agent_status", "recent_audit", "list_volumes", "scan_path"}
Applications == {"list_applications"}
Streamed == {"find_duplicates", "defender_scan", "survey_provenance"}
Changes == {"sweep_for_changes"}
Emptying == {"delete_quarantined", "empty_quarantine"}
Checking == {"schedule", "set_schedule", "run_check", "survey_caches"}
Holding == {"quarantine_copy", "quarantine_path", "list_quarantine", "restore_quarantined"}
Moving == {"find_organise_proposals", "apply_move", "undo_move", "list_moves"}
Defending == {"defender_status", "defender_threats", "behaviour_events",
              "browser_extensions", "hardening"}
Deciding == {"protection", "canaries", "set_canaries"}
Network == {"find_remnants", "firewall", "connections"}
Stopping == {"cancel_job"}

Forwarded ==
    Overview \cup Applications \cup Changes \cup Emptying \cup Checking \cup Holding
    \cup Moving \cup Defending \cup Deciding \cup Network \cup Stopping

\* The commands that change something machine-wide.
Protecting == {"set_hardening", "set_protection", "set_canary_auditing"}
Blocking == {"block_program", "unblock_program"}

Consented == Protecting \cup Blocking

\* clear_cache asks only when the clear reaches outside the person's profile,
\* which it works out for itself.
MachineWide(c) == c.wide

\* A slip: a cache is always taken for the person's own.
WithConsentForCaches(c) == c.name \in Consented

WithConsent(c) ==
    c.name \in Consented \/ (c.name = "clear_cache" /\ MachineWide(c))

\* The agent restricts the same things (Connections, NeedsAdministrator).
Restricted(c) ==
    \/ c.name \in {"set_hardening", "set_protection", "set_canary_auditing",
                   "block_program", "unblock_program"}
    \/ c.name = "clear_cache" /\ c.wide

\* These answer from this process, without the agent: the registry's list of
\* applications, what this account may delete, Explorer at a path that is
\* absolute, unquoted and there, the bundled rules, the release page.
Preview == {"list_applications_preview"}
Recyclable == {"can_recycle_all"}
Explorer == {"reveal_in_explorer"}
RuleScan == {"scan_rules"}
ReleasePage == {"open_release_page"}

Local == Preview \cup Recyclable \cup Explorer \cup RuleScan \cup ReleasePage

\* The call is over and the window is given this.
Show(k, what) ==
    /\ pc' = [pc EXCEPT ![k] = "done"]
    /\ shown' = [shown EXCEPT ![k] = what]
    /\ UNCHANGED <<cmd, elevated, invoked, group>>

Onward(k, where) ==
    /\ pc' = [pc EXCEPT ![k] = where]
    /\ UNCHANGED <<cmd, shown, elevated, invoked, group>>

\* What an unprivileged or a privileged caller hears from the agent.
Answers(c, rights) ==
    IF Restricted(c) /\ ~rights THEN {"NoRights"}
    ELSE {"Ok", "Error"} \cup (IF c.name \in Streamed THEN {"Stopped"} ELSE {})

\* finish: the value the command promised, nothing for a job that was stopped,
\* and otherwise a message.
Unwrap(a) ==
    CASE a = "Ok" -> "value" [] a = "Stopped" -> "nothing" [] OTHER -> "error"

Running(k, names) == pc[k] = "begin" /\ cmd[k].name \in names

\* A command is called.
Invoke(k, c) ==
    /\ pc[k] = "idle" /\ invoked < MaxInvoked
    /\ invoked = 0 \/ (\E g \in Groups : c.name \in g /\ group \in g)
    /\ invoked' = invoked + 1 /\ group' = c.name
    /\ pc' = [pc EXCEPT ![k] = "begin"]
    /\ cmd' = [cmd EXCEPT ![k] = c]
    /\ shown' = [shown EXCEPT ![k] = "none"]
    /\ reply' = [reply EXCEPT ![k] = "none"]
    /\ UNCHANGED <<log, elevated>>

\* off_the_window and stream_job: one request on a pool thread.  The agent
\* answers, or cannot be reached, or the thread is lost.
Forward(k) ==
    /\ \/ Running(k, Forwarded \cup Streamed)
       \/ Running(k, {"clear_cache"}) /\ ~WithConsent(cmd[k])
    /\ \/ \E a \in Answers(cmd[k], elevated) :
            reply' = [reply EXCEPT ![k] = a] /\ Show(k, Unwrap(a))
       \/ Show(k, "error") /\ UNCHANGED reply
    /\ UNCHANGED log

AnswerHere(k) ==
    /\ Running(k, Local)
    /\ \E what \in {"value", "error"} : Show(k, what)
    /\ UNCHANGED <<reply, log>>

\* The window draws what it was given and forgets the call.
Drawn(k) ==
    /\ pc[k] = "done"
    /\ pc' = [pc EXCEPT ![k] = "idle"] /\ cmd' = [cmd EXCEPT ![k] = NoCommand]
    /\ shown' = [shown EXCEPT ![k] = "none"] /\ reply' = [reply EXCEPT ![k] = "none"]
    /\ UNCHANGED <<log, elevated, invoked, group>>

\* A note for the agent's log; a failure to record is not a failure to act.
Record(k, fact) ==
    \E heard \in BOOLEAN :
        /\ log' = IF heard THEN log \cup {fact} ELSE log
        /\ UNCHANGED reply

(***************************************************************************)
(* No button is dead: whatever the window asks for, it asks with the       *)
(* rights the agent demands for it, so a person who approves the prompt is *)
(* never told that administrator rights are missing.                       *)
(***************************************************************************)
RightsAreEnough ==
    \A k \in Calls : reply[k] # "NoRights"
=============================================================================
