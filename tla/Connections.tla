---------------------------- MODULE Connections ----------------------------
(***************************************************************************)
(* One connection of the agent's pipe, from the moment a thread has it to  *)
(* the moment it is answered: who calls, the question of trust, the        *)
(* question of the caller's profile, the question of administrator rights, *)
(* and the three things every handler ends with: what it did, the entry it *)
(* puts in the audit log, and the answer.  The handlers themselves are in  *)
(* Settings, Firewall, Decoys and CacheClear; Agent composes them.         *)
(***************************************************************************)
EXTENDS Integers, Sequences, FiniteSets

CONSTANTS
    Conns,          \* the threads that serve connections
    Users,          \* the accounts with a profile on this machine
    Clients,        \* the callers there may be: who, trusted or not, elevated
    Requests,       \* the requests a client may send: records with a "kind"
    MaxServed,      \* bound: connections accepted in one behaviour
    Groups          \* bound: one behaviour serves requests of one group, whose
                    \* handlers share state; a kind in none is served alone

ASSUME ConnAssumption ==
    /\ "nobody" \notin Users /\ IsFiniteSet(Users)
    /\ Clients \subseteq [user : Users \cup {"nobody"}, trusted : BOOLEAN, elevated : BOOLEAN]
    /\ MaxServed \in Nat

VARIABLES
    pc,             \* where each connection's thread is
    caller,         \* who is at the other end of each connection
    req,            \* the request each connection carries
    due,            \* the audit entries a handler has still to write
    wrote,          \* the audit entries written for the request in hand
    lost,           \* whether an entry of this request could not be written
    did,            \* whether the request made a change it was asked for
    ans,            \* the answer, once there is one
    served,         \* how many connections have been accepted
    group           \* the kind of the last request accepted, for the bound

connVars == <<pc, caller, req, due, wrote, lost, did, ans, served, group>>

NoRequest == [kind |-> "none"]

Nobody == [user |-> "nobody", trusted |-> FALSE, elevated |-> FALSE]

\* The caller is trusted when its image lies in the agent's own directory,
\* both made canonical; an image that cannot be resolved is not trusted.
IsTrustedClient(who) == who.trusted

ConnInit ==
    /\ pc = [c \in Conns |-> "idle"]
    /\ caller = [c \in Conns |-> Nobody]
    /\ req = [c \in Conns |-> NoRequest]
    /\ due = [c \in Conns |-> <<>>]
    /\ wrote = [c \in Conns |-> <<>>]
    /\ lost = [c \in Conns |-> FALSE]
    /\ did = [c \in Conns |-> FALSE]
    /\ ans = [c \in Conns |-> "none"]
    /\ served = 0 /\ group = "none"

\* A handler ends: it did something or not, it owes the log these entries,
\* and this is its answer.
Finish(c, changed, entries, answer) ==
    /\ pc' = [pc EXCEPT ![c] = IF entries = <<>> THEN "reply" ELSE "record"]
    /\ due' = [due EXCEPT ![c] = entries]
    /\ did' = [did EXCEPT ![c] = @ \/ changed]
    /\ ans' = [ans EXCEPT ![c] = answer]
    /\ UNCHANGED <<caller, req, wrote, lost, served, group>>

\* A handler goes on to its next step having done something or not.
Onward(c, changed, where) ==
    /\ pc' = [pc EXCEPT ![c] = where]
    /\ did' = [did EXCEPT ![c] = @ \/ changed]
    /\ UNCHANGED <<caller, req, due, wrote, lost, ans, served, group>>

\* server::record: the entry is written, or the store refuses it and only
\* the tracing log hears of it.
RecordEntry(c) ==
    /\ pc[c] = "record"
    /\ \E written \in BOOLEAN :
         /\ wrote' = IF written THEN [wrote EXCEPT ![c] = Append(@, Head(due[c]))]
                                ELSE wrote
         /\ lost' = [lost EXCEPT ![c] = @ \/ ~written]
    /\ due' = [due EXCEPT ![c] = Tail(@)]
    /\ pc' = [pc EXCEPT ![c] = IF Len(due[c]) = 1 THEN "reply" ELSE "record"]
    /\ UNCHANGED <<caller, req, did, ans, served, group>>

\* The answer is written to the pipe, or the client has gone; either way the
\* thread is done and its state with it.
ReplyDone(c) ==
    /\ pc[c] = "reply"
    /\ pc' = [pc EXCEPT ![c] = "idle"]
    /\ caller' = [caller EXCEPT ![c] = Nobody]
    /\ req' = [req EXCEPT ![c] = NoRequest]
    /\ wrote' = [wrote EXCEPT ![c] = <<>>]
    /\ lost' = [lost EXCEPT ![c] = FALSE]
    /\ did' = [did EXCEPT ![c] = FALSE]
    /\ ans' = [ans EXCEPT ![c] = "none"]
    /\ UNCHANGED <<due, served, group>>

\* Which requests change something machine-wide.  A cache clear is one when
\* its locations leave the caller's profile; wide is that judgement.
NeedsAdministrator(request, wide) ==
    \/ request.kind \in {"SetHardening", "SetCanaryAuditing", "BlockProgram",
                         "UnblockProgram", "SetProtection"}
    \/ request.kind = "ClearCache" /\ wide

\* handle_connection up to the handler: an untrusted image is refused and the
\* refusal recorded; an account without a profile is refused; a machine-wide
\* request from a caller that is not elevated, or whose elevation cannot be
\* read, is refused and the refusal recorded.  Only then does the request
\* reach its handler.  (A frame that cannot be read ends the connection there
\* and then and leaves nothing to model.)
Connect(c, who, request, wide) ==
    /\ pc[c] = "idle" /\ served < MaxServed
    /\ served = 0 \/ (\E g \in Groups : request.kind \in g /\ group \in g)
    /\ served' = served + 1 /\ group' = request.kind
    /\ caller' = [caller EXCEPT ![c] = who]
    /\ UNCHANGED <<wrote, lost, did>>
    /\ \/ /\ ~IsTrustedClient(who)
          /\ pc' = [pc EXCEPT ![c] = "record"]
          /\ due' = [due EXCEPT ![c] = <<"Refused">>]
          /\ ans' = [ans EXCEPT ![c] = "Error"]
          /\ UNCHANGED req
       \/ /\ IsTrustedClient(who) /\ who.user = "nobody"
          /\ pc' = [pc EXCEPT ![c] = "reply"]
          /\ ans' = [ans EXCEPT ![c] = "Error"]
          /\ UNCHANGED <<req, due>>
       \/ /\ IsTrustedClient(who) /\ who.user # "nobody"
          /\ req' = [req EXCEPT ![c] = request]
          /\ IF NeedsAdministrator(request, wide) /\ ~who.elevated
             THEN /\ pc' = [pc EXCEPT ![c] = "record"]
                  /\ due' = [due EXCEPT ![c] = <<"Refused">>]
                  /\ ans' = [ans EXCEPT ![c] = "Error"]
             ELSE /\ pc' = [pc EXCEPT ![c] = "handle"]
                  /\ UNCHANGED <<due, ans>>

\* run_request: the job's thread cannot be started, so nothing is handled.
JobNotStarted(c) ==
    /\ pc[c] = "handle"
    /\ Finish(c, FALSE, <<>>, "Error")

Handling(c, kind) == pc[c] = "handle" /\ req[c].kind = kind

ConnTypeOK ==
    /\ caller \in [Conns -> Clients \cup {Nobody}]
    /\ \A c \in Conns :
         /\ req[c] \in Requests \cup {NoRequest}
         /\ \A i \in DOMAIN due[c] : due[c][i] \in {"Changed", "Refused", "Observed"}
         /\ \A i \in DOMAIN wrote[c] : wrote[c][i] \in {"Changed", "Refused", "Observed"}
    /\ lost \in [Conns -> BOOLEAN] /\ did \in [Conns -> BOOLEAN]
    /\ ans \in [Conns -> {"none", "Ok", "Error", "Stopped"}]
    /\ served \in 0..MaxServed
=============================================================================
