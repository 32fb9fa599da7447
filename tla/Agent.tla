------------------------------- MODULE Agent --------------------------------
(***************************************************************************)
(* The agent's dispatch: every request of the protocol, several served at  *)
(* once.  The requests that change a setting, a firewall rule, a decoy or  *)
(* a cache are followed step by step in the modules this one extends.  The *)
(* others are here by what each can do: whether it changed anything, the   *)
(* entries it leaves in the audit log, in order, and its answer.  What     *)
(* they do to the store, the journal and the baseline is the business of   *)
(* Quarantine, Moves, Jobs, Sweep and Watcher.                             *)
(***************************************************************************)
EXTENDS Settings, Firewall, Decoys, CacheClear, TLC

CONSTANTS
    MaxOutside,     \* bound: what other programs do in one behaviour
    MaxAtCaches     \* bound: the same, where caches are cleared

ASSUME AgentAssumption == MaxOutside \in Nat

VARIABLE
    outside         \* how much they have done

vars == <<connVars, settingsVars, firewallVars, decoyVars, cacheVars, outside>>

Ends(changed, entries, answer) ==
    [changed |-> changed, entries |-> entries, answer |-> answer]

\* The commonest: an answer, or a message that there is none, and no entry.
Answered == Ends(FALSE, <<>>, "Ok")
Failed == Ends(FALSE, <<>>, "Error")
Examined == Ends(FALSE, <<"Observed">>, "Ok")
RefusedWith(answer) == Ends(FALSE, <<"Refused">>, answer)

----------------------------------------------------------------------------
\* Questions, which are not audited: the log records what the agent does to
\* the system and what it refuses.
GetSystemStatus == {Answered}

GetRecentAudit == {Answered, Failed}

ListVolumes == {Answered, Failed}

GetSchedule == {Answered, Failed}

\* A drive that is not a letter fails too.
FindOrganiseProposals == {Answered, Failed}

ListMoves == {Answered, Failed}

GetDefenderStatus == {Answered, Failed}

FindRemnants == {Answered}

GetFirewall == {Answered, Failed}

\* A job that is not there any more is acknowledged all the same.
CancelJob == {Answered}

GetDefenderThreats == {Answered, Failed}

GetBehaviourEvents == {Answered}

ListQuarantine == {Answered, Failed}

\* Hardening, protection, decoys and connections: read, and always answered.
Questions == {Answered}

----------------------------------------------------------------------------
\* Examinations somebody asked for, which are.
ListApplications == {Examined, Failed}

\* A stopped hunt for duplicates leaves no entry; a stopped survey does.
FindDuplicates == {Examined, Failed, Ends(FALSE, <<>>, "Stopped")}

SurveyProvenance == {Examined, Ends(FALSE, <<"Observed">>, "Stopped")}

\* An entry for each finding, "Refused" being the log's word for a state that
\* is wrong, and always the summary after them.
RunCheck ==
    {Ends(FALSE, found \o <<"Observed">>, "Ok") :
        found \in {<<>>, <<"Observed">>, <<"Refused">>, <<"Refused", "Observed">>}}

SurveyCaches == {Examined}

\* A relative path is refused.
ScanPath == {Examined, RefusedWith("Error"), Failed}

SweepForChanges == {Examined, Failed}

DefenderScan == {Examined, RefusedWith("Error")}

GetExtensions == {Examined}

----------------------------------------------------------------------------
\* What the window did itself and asks to have written down.
RecordLookup == {Failed, Ends(FALSE, <<"Changed">>, "Ok")}

RecordRecycle == {Ends(FALSE, <<"Changed">>, "Ok")}

NoteUninstallLaunched == {Ends(FALSE, <<"Changed">>, "Ok")}

----------------------------------------------------------------------------
\* What is done to the store and the journal.  A take or a move that fails has
\* moved nothing; a restore, an undo or a delete can fail with its work done
\* in part, because something comes after the rename or the first removal.
Done == Ends(TRUE, <<"Changed">>, "Ok")
HalfDone(answer) == {Ends(part, <<"Refused">>, answer) : part \in BOOLEAN}

QuarantinePath == {Done, RefusedWith("Error")}

QuarantineCopy == {Done, RefusedWith("Error")}

ApplyMove == {Done, RefusedWith("Error")}

UndoMove == {Done} \cup HalfDone("Error")

RestoreQuarantined == {Done} \cup HalfDone("Error")

\* The answer counts the items that went and carries the refusals.
DeleteQuarantined == {Done} \cup HalfDone("Ok")

\* One item after another, each with its entry; one that stays does not stop
\* the rest.  (Bound: two items held.)
EmptyQuarantine ==
    {Failed, Answered} \cup DeleteQuarantined
    \cup {Ends(a.changed \/ b.changed, a.entries \o b.entries, "Ok") :
             a, b \in DeleteQuarantined}

\* The requests a failure can leave half done.
Partly == {"UndoMove", "RestoreQuarantined", "DeleteQuarantined", "EmptyQuarantine"}

Handlers ==
    [GetSystemStatus |-> GetSystemStatus, GetRecentAudit |-> GetRecentAudit,
     ListVolumes |-> ListVolumes, GetSchedule |-> GetSchedule,
     FindOrganiseProposals |-> FindOrganiseProposals, ListMoves |-> ListMoves,
     GetDefenderStatus |-> GetDefenderStatus, FindRemnants |-> FindRemnants,
     GetFirewall |-> GetFirewall, CancelJob |-> CancelJob,
     GetDefenderThreats |-> GetDefenderThreats,
     GetBehaviourEvents |-> GetBehaviourEvents, ListQuarantine |-> ListQuarantine,
     GetHardening |-> Questions, GetProtection |-> Questions,
     GetCanaries |-> Questions, GetConnections |-> Questions,
     ListApplications |-> ListApplications, FindDuplicates |-> FindDuplicates,
     SurveyProvenance |-> SurveyProvenance, RunCheck |-> RunCheck,
     SurveyCaches |-> SurveyCaches, ScanPath |-> ScanPath,
     SweepForChanges |-> SweepForChanges, DefenderScan |-> DefenderScan,
     GetExtensions |-> GetExtensions, RecordLookup |-> RecordLookup,
     RecordRecycle |-> RecordRecycle, NoteUninstallLaunched |-> NoteUninstallLaunched,
     QuarantinePath |-> QuarantinePath, QuarantineCopy |-> QuarantineCopy,
     ApplyMove |-> ApplyMove, UndoMove |-> UndoMove,
     RestoreQuarantined |-> RestoreQuarantined,
     DeleteQuarantined |-> DeleteQuarantined, EmptyQuarantine |-> EmptyQuarantine]

\* dispatch::handle for all of these.
HandleElsewhere(c) ==
    /\ pc[c] = "handle" /\ req[c].kind \in DOMAIN Handlers
    /\ \E end \in Handlers[req[c].kind] : Finish(c, end.changed, end.entries, end.answer)

----------------------------------------------------------------------------
Init ==
    /\ ConnInit /\ SettingsInit /\ FirewallInit /\ DecoysInit /\ CacheInit
    /\ outside = 0

\* Whether this request reaches outside the caller's profile is worked out
\* from where its cache lies at this moment.
Accept(c, who, request) ==
    /\ Connect(c, who, request,
               request.kind = "ClearCache" /\ IsMachineWide(request.id, who.user))
    /\ Judge(c, request, who.user)

\* The answer is sent and the handler's own notes go with its thread.
Answer(c) ==
    /\ ReplyDone(c)
    /\ claimed' = [claimed EXCEPT ![c] = {}] /\ armed' = [armed EXCEPT ![c] = {}]
    /\ disturbed' = [disturbed EXCEPT ![c] = {}]
    /\ judged' = [judged EXCEPT ![c] = {}] /\ mine' = [mine EXCEPT ![c] = {}]
    /\ tally' = [tally EXCEPT ![c] = 0] /\ misled' = [misled EXCEPT ![c] = 0]
    /\ gone' = [gone EXCEPT ![c] = 0]
    /\ UNCHANGED <<settingsVars, firewallVars, at, watched, left>>
    /\ UNCHANGED <<cache, linked, root, named, elsewhere, roots, held, listing, measured>>

Serve(c) ==
    \/ /\ pc[c] = "idle" /\ served < MaxServed
       /\ \E who \in Clients, request \in Requests : Accept(c, who, request)
       /\ UNCHANGED <<settingsVars, firewallVars, decoyVars>>
    \/ /\ JobNotStarted(c) \/ HandleElsewhere(c) \/ RecordEntry(c)
       /\ UNCHANGED <<settingsVars, firewallVars, decoyVars, cacheVars>>
    \/ Answer(c)
    \/ SettingsNext(c) /\ UNCHANGED <<firewallVars, decoyVars, cacheVars>>
    \/ FirewallNext(c) /\ UNCHANGED <<settingsVars, decoyVars, cacheVars>>
    \/ DecoysNext(c) /\ UNCHANGED <<settingsVars, firewallVars, cacheVars>>
    \/ CacheNext(c) /\ UNCHANGED <<settingsVars, firewallVars, decoyVars>>

\* Other programs and the owner of the profile, at what the requests of this
\* behaviour are about.
Outside ==
    /\ outside < MaxOutside /\ outside' = outside + 1
    /\ \/ /\ group \in {"SetSchedule", "SetCanaryAuditing"} /\ OthersChangeSettings
          /\ UNCHANGED <<protection, hardening, firewallVars, decoyVars, cacheVars>>
       \/ /\ group \in {"BlockProgram", "UnblockProgram"} /\ OthersAddRule
          /\ UNCHANGED <<settingsVars, decoyVars, cacheVars>>
       \/ /\ group = "SetCanaries" /\ OwnerActs
          /\ UNCHANGED <<settingsVars, firewallVars, cacheVars>>
       \/ /\ group = "ClearCache" /\ outside < MaxAtCaches /\ OthersAtCaches
          /\ UNCHANGED <<settingsVars, firewallVars, decoyVars>>
    /\ UNCHANGED connVars

Next == (\E c \in Conns : Serve(c) /\ UNCHANGED outside) \/ Outside

Spec == Init /\ [][Next]_vars

AgentTypeOK ==
    /\ ConnTypeOK /\ SettingsTypeOK /\ FirewallTypeOK /\ DecoysTypeOK /\ CacheTypeOK
    /\ outside \in 0..MaxOutside

----------------------------------------------------------------------------
Wrote(c, effect) == \E i \in DOMAIN wrote[c] : wrote[c][i] = effect

(***************************************************************************)
(* Nothing is done in silence: by the time a request that made a change it *)
(* was asked for is answered, the audit log has a Changed entry of it,     *)
(* unless the store would not take an entry.  (A request that can fail     *)
(* half way is recorded as refused.)                                       *)
(***************************************************************************)
ChangesAreRecorded ==
    \A c \in Conns :
        /\ pc[c] = "reply" /\ did[c] /\ ~lost[c] /\ req[c].kind \notin Partly
        => Wrote(c, "Changed")

(***************************************************************************)
(* A Refused entry is the truth: a request recorded as refused has made no *)
(* change it was asked for, at any of the steps before the refusal.  (The  *)
(* one thing a refusal may leave is the scheduler's folder of this product,*)
(* which is made before the registration that fails; it is not counted as  *)
(* a change, here or in the log.)                                          *)
(***************************************************************************)
RefusedChangesNothing ==
    \A c \in Conns :
        Wrote(c, "Refused") /\ req[c].kind \notin Partly => ~did[c]

\* What is under a root.
Under(r) == <<cache[r], r \in linked>>

(***************************************************************************)
(* What is the whole machine's changes only at the request of a caller     *)
(* that runs this product's own program with administrator rights, and so  *)
(* does a cache that lay outside the caller's profile, by the text of its  *)
(* path, when the caller's rights were checked.  (Of a place that the      *)
(* caller's own files name only after that, or a path inside the profile   *)
(* that leads out of it, it says nothing: the code checks once, and text.) *)
(***************************************************************************)
OnlyForAdministrators ==
    [][\A c \in Conns :
         /\ pc'[c] # pc[c] \/ listing'[c] # listing[c]
         /\ \/ <<protection, hardening, auditing, rules>>'
                  # <<protection, hardening, auditing, rules>>
            \/ \E r \in judged[c] \ {caller[c].user} : Under(r)' # Under(r)
         => caller[c].trusted /\ caller[c].elevated]_vars

(***************************************************************************)
(* The audit log and the machine agree: a request that made a change it    *)
(* was asked for left a Changed entry, unless the store would not take     *)
(* one, and one recorded as Refused made none.                             *)
(***************************************************************************)
AuditIsTrue ==
    AgentTypeOK /\ ChangesAreRecorded /\ RefusedChangesNothing

(***************************************************************************)
(* What a handler reports is so: the decoys it lists are there and armed   *)
(* as it says, and no more files are said to be cleared from a cache than  *)
(* have left it, misread links and listings apart.                         *)
(***************************************************************************)
ReportsAreTrue ==
    ClaimsAreTrue /\ TallyIsTrue

(***************************************************************************)
(* What is not the agent's to touch stays: firewall rules of others, the   *)
(* owner's file at a decoy's path, and what lies behind a link at a root   *)
(* of a cache or under one.                                                *)
(***************************************************************************)
OthersThingsStay ==
    [][ForeignRulesStay /\ OwnersFileStays /\ LinksNotFollowed']_vars
=============================================================================
