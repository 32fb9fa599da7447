----------------------------- MODULE AcceptLoop -----------------------------
(***************************************************************************)
(* The agent's accept loop (kam-agent/src/server.rs), the named-pipe       *)
(* instances it serves (kam-ipc/src/pipe.rs) and the cooperative stop      *)
(* (kam-agent/src/service.rs, Shutdown).                                   *)
(*                                                                         *)
(* A slot is one of the MAX_PIPE_INSTANCES instances Windows allows of the *)
(* name.  The loop creates an instance, parks in ConnectNamedPipe, looks   *)
(* at the stop flag and hands the instance to a connection thread; the     *)
(* thread closes it once the client has drained the reply.  The stop sets  *)
(* the flag and then opens a throwaway connection, the poke.               *)
(***************************************************************************)
EXTENDS Integers, FiniteSets

CONSTANTS
    Slots,          \* MAX_PIPE_INSTANCES instances of the pipe
    MaxConnections, \* MAX_CONCURRENT_CONNECTIONS
    None            \* the loop holds no instance

ASSUME AcceptAssumption ==
    /\ IsFiniteSet(Slots)
    /\ None \notin Slots
    /\ MaxConnections \in Nat \ {0}

VARIABLES
    loop,    \* where the accept loop is
    cur,     \* the instance the loop holds, if any
    pipe,    \* slot -> what the server side does with the instance
    client,  \* slot -> who is at the other end
    unread,  \* slot -> the client has yet to read what the server wrote
    active,  \* the AtomicUsize the loop compares with MaxConnections
    fallen,  \* history: how many connection threads have panicked
    held,    \* history: the agent has been given an instance
    claim,   \* PipeListener::claim_name
    other,   \* another process that serves the pipe name: there before the agent
             \* was first given an instance, or after
    flag,    \* Shutdown::flag
    stopper  \* where Shutdown::signal is

vars == <<loop, cur, pipe, client, unread, active, fallen, claim, held, other, flag, stopper>>

Init ==
    /\ loop = "check"
    /\ cur = None
    /\ pipe = [s \in Slots |-> "none"]
    /\ client = [s \in Slots |-> "nobody"]
    /\ unread = [s \in Slots |-> FALSE]
    /\ active = 0 /\ fallen = 0
    /\ claim = TRUE /\ held = FALSE
    /\ other \in {"none", "first"}
    /\ flag = FALSE
    /\ stopper = "idle"

Instances == {s \in Slots : pipe[s] # "none"}

\* Instances an opener would be given: CreateFileW succeeds on one of these,
\* even before the loop has reached ConnectNamedPipe.
Connectable == {s \in Slots : pipe[s] = "open" /\ client[s] = "nobody"}

\* The far end is closed.  The poke's handle is dropped as soon as it is open.
Gone(s) == client[s] \in {"gone", "poke"}

\* PipeStream::drop on the server side.  FlushFileBuffers returns only when
\* nothing is left to read or nobody is left to read it.
Drained(s) == Gone(s) \/ ~unread[s]

Close(s) ==
    /\ Drained(s)
    /\ pipe' = [pipe EXCEPT ![s] = "none"]
    /\ client' = [client EXCEPT ![s] = "nobody"]
    /\ unread' = [unread EXCEPT ![s] = FALSE]

----------------------------------------------------------------------------
(* The accept loop.                                                        *)

\* while !shutdown.is_signalled()
Check ==
    /\ loop = "check"
    /\ loop' = IF flag THEN "stopped" ELSE "create"
    /\ UNCHANGED <<cur, pipe, client, unread, active, claim, other, flag, stopper, fallen, held>>

\* CreateNamedPipeW refuses a first instance of a name somebody else holds,
\* and any instance beyond the limit.
Refused == (claim /\ other # "none") \/ Instances = Slots

\* create_instance.  A refused first instance puts the claim back.
Create ==
    /\ loop = "create"
    /\ ~Refused
    /\ \E s \in Slots \ Instances :
         /\ pipe' = [pipe EXCEPT ![s] = "open"]
         /\ cur' = s
    /\ claim' = FALSE
    /\ held' = TRUE
    /\ loop' = "accept"
    /\ UNCHANGED <<client, unread, active, other, flag, stopper, fallen>>

\* A slip: the loop keeps asking for an instance until it is given one.
CreateRetries ==
    /\ loop = "create"
    /\ Refused
    /\ UNCHANGED vars

\* A slip: the claim on the name is spent by a refused attempt.
CreateSpendsClaim ==
    /\ loop = "create"
    /\ Refused
    /\ loop' = "failed"
    /\ claim' = FALSE
    /\ UNCHANGED <<cur, pipe, client, unread, active, other, flag, stopper, fallen, held>>

\* Refused; or an ordinary instance is asked of a name that another server
\* has taken, whose own descriptor and limit then decide.
CreateFails ==
    /\ loop = "create"
    /\ Refused \/ other # "none"
    /\ loop' = "failed"
    /\ UNCHANGED <<cur, pipe, client, unread, active, claim, other, flag, stopper, fallen, held>>

\* ConnectNamedPipe returns, or had already been overtaken by the client.
Accept ==
    /\ loop = "accept"
    /\ client[cur] # "nobody"
    /\ loop' = "recheck"
    /\ UNCHANGED <<cur, pipe, client, unread, active, claim, other, flag, stopper, fallen, held>>

\* The client came and went before ConnectNamedPipe was called: an error, and
\* the instance is dropped with it.
AcceptFails ==
    /\ loop = "accept"
    /\ Gone(cur)
    /\ Close(cur)
    /\ cur' = None
    /\ loop' = "failed"
    /\ UNCHANGED <<active, claim, other, flag, stopper, fallen, held>>

\* The error branch: break if stopping, otherwise sleep and go round again.
Failed ==
    /\ loop = "failed"
    /\ loop' = IF flag THEN "stopped" ELSE "check"
    /\ UNCHANGED <<cur, pipe, client, unread, active, claim, other, flag, stopper, fallen, held>>

\* The flag is looked at before the stream is touched.
Recheck ==
    /\ loop = "recheck"
    /\ ~flag
    /\ loop' = "admit"
    /\ UNCHANGED <<cur, pipe, client, unread, active, claim, other, flag, stopper, fallen, held>>

\* Breaking out drops the stream, to which nothing has been written.
Break ==
    /\ loop = "recheck"
    /\ flag
    /\ Close(cur)
    /\ cur' = None
    /\ loop' = "stopped"
    /\ UNCHANGED <<active, claim, other, flag, stopper, fallen, held>>

TurnAway ==
    /\ loop = "admit"
    /\ active >= MaxConnections
    /\ unread' = [unread EXCEPT ![cur] = ~Gone(cur)]
    /\ loop' = "turning"
    /\ UNCHANGED <<cur, pipe, client, active, claim, other, flag, stopper, fallen, held>>

\* `continue` drops the stream on the accept loop's own thread.
TurnedAway ==
    /\ loop = "turning"
    /\ Close(cur)
    /\ cur' = None
    /\ loop' = "check"
    /\ UNCHANGED <<active, claim, other, flag, stopper, fallen, held>>

Admit ==
    /\ loop = "admit"
    /\ active < MaxConnections
    /\ active' = active + 1
    /\ loop' = "spawn"
    /\ UNCHANGED <<cur, pipe, client, unread, claim, other, flag, stopper, fallen, held>>

Spawn ==
    /\ loop = "spawn"
    /\ pipe' = [pipe EXCEPT ![cur] = "serving"]
    /\ cur' = None
    /\ loop' = "check"
    /\ UNCHANGED <<client, unread, active, claim, other, flag, stopper, fallen, held>>

\* A slip: a failed spawn gives its place back twice.
SpawnFailsTwice ==
    /\ loop = "spawn"
    /\ Close(cur)
    /\ cur' = None
    /\ active' = active - 2
    /\ loop' = "check"
    /\ UNCHANGED <<claim, other, flag, stopper, fallen, held>>

\* A slip: the failed spawn's place is never given back.
SpawnFailsKeepsPlace ==
    /\ loop = "spawn"
    /\ Close(cur)
    /\ cur' = None
    /\ loop' = "check"
    /\ UNCHANGED <<active, claim, other, flag, stopper, fallen, held>>

\* A slip: the instance of a failed spawn is never closed.
SpawnFailsKeepsPipe ==
    /\ loop = "spawn"
    /\ cur' = None
    /\ active' = active - 1
    /\ loop' = "check"
    /\ UNCHANGED <<pipe, client, unread, claim, other, flag, stopper, fallen, held>>

\* The closure, and the stream it owns, is dropped by the failed spawn.
SpawnFails ==
    /\ loop = "spawn"
    /\ Close(cur)
    /\ cur' = None
    /\ active' = active - 1
    /\ loop' = "check"
    /\ UNCHANGED <<claim, other, flag, stopper, fallen, held>>

----------------------------------------------------------------------------
(* A connection thread.  The place is given back before the stream is      *)
(* dropped, because the closure's captures outlive its body.               *)

\* handle_connection returns: with a reply written, or with an error and none.
Return(s, replied) ==
    /\ pipe[s] = "serving"
    /\ unread' = [unread EXCEPT ![s] = replied /\ ~Gone(s)]
    /\ active' = active - 1
    /\ pipe' = [pipe EXCEPT ![s] = "closing"]
    /\ UNCHANGED <<loop, cur, client, claim, other, flag, stopper, fallen, held>>

\* Refused, or failed, before a request is read from the client.
Refuse(s) == \E replied \in BOOLEAN : Return(s, replied)

\* A request was read and run, or the read found the client gone.
Answer(s) == client[s] # "here" /\ \E replied \in BOOLEAN : Return(s, replied)

\* handle_connection panics: the thread unwinds past the decrement and drops
\* its stream, so the instance is closed and the place is never given back.
Panics(s) ==
    /\ pipe[s] = "serving"
    /\ \E replied \in BOOLEAN : unread' = [unread EXCEPT ![s] = replied /\ ~Gone(s)]
    /\ fallen' = fallen + 1
    /\ pipe' = [pipe EXCEPT ![s] = "closing"]
    /\ UNCHANGED <<loop, cur, client, active, claim, other, flag, stopper, held>>

Release(s) ==
    /\ pipe[s] = "closing"
    /\ Close(s)
    /\ UNCHANGED <<loop, cur, active, claim, other, flag, stopper, fallen, held>>

----------------------------------------------------------------------------
(* Clients.                                                                *)

Connect(s) ==
    /\ s \in Connectable
    /\ client' = [client EXCEPT ![s] = "here"]
    /\ UNCHANGED <<loop, cur, pipe, unread, active, claim, other, flag, stopper, fallen, held>>

Ask(s) ==
    /\ client[s] = "here"
    /\ client' = [client EXCEPT ![s] = "asked"]
    /\ UNCHANGED <<loop, cur, pipe, unread, active, claim, other, flag, stopper, fallen, held>>

ReadReply(s) ==
    /\ unread[s]
    /\ unread' = [unread EXCEPT ![s] = FALSE]
    /\ UNCHANGED <<loop, cur, pipe, client, active, claim, other, flag, stopper, fallen, held>>

HangUp(s) ==
    /\ client[s] \in {"here", "asked"}
    /\ client' = [client EXCEPT ![s] = "gone"]
    /\ unread' = [unread EXCEPT ![s] = FALSE]
    /\ UNCHANGED <<loop, cur, pipe, active, claim, other, flag, stopper, fallen, held>>

\* Another process creates the pipe while the agent has no instance of it.
\* (PIPE_SDDL lets nobody but an administrator create one beside the agent's.)
OtherStarts ==
    /\ other = "none"
    /\ Instances = {}
    /\ other' = IF held THEN "later" ELSE "first"
    /\ UNCHANGED <<loop, cur, pipe, client, unread, active, claim, flag, stopper, fallen, held>>

\* The other server of the name ends.
OtherEnds ==
    /\ other # "none"
    /\ other' = "none"
    /\ UNCHANGED <<loop, cur, pipe, client, unread, active, claim, flag, stopper, fallen, held>>

----------------------------------------------------------------------------
(* Shutdown::signal, on the service control handler's thread.              *)

\* A slip: the poke is sent before the flag is raised.
SignalLate ==
    /\ stopper = "idle"
    /\ stopper' = "poking"
    /\ UNCHANGED <<loop, cur, pipe, client, unread, active, claim, other, flag, fallen, held>>

Signal ==
    /\ stopper = "idle"
    /\ flag' = TRUE
    /\ stopper' = "poking"
    /\ UNCHANGED <<loop, cur, pipe, client, unread, active, claim, other, fallen, held>>

\* pipe::connect finds an instance, and the handle is dropped at once.
Poke ==
    /\ stopper = "poking"
    /\ \E s \in Connectable : client' = [client EXCEPT ![s] = "poke"]
    /\ stopper' = "done"
    /\ UNCHANGED <<loop, cur, pipe, unread, active, claim, other, flag, fallen, held>>

\* No instance exists, an error which is returned at once; or the poke opens
\* an instance of the other server.
PokeMisses ==
    /\ stopper = "poking"
    /\ Instances = {} \/ other # "none"
    /\ stopper' = "done"
    /\ UNCHANGED <<loop, cur, pipe, client, unread, active, claim, other, flag, fallen, held>>

\* Busy for the whole of CONNECT_PATIENCE.
PokeGivesUp ==
    /\ stopper = "poking"
    /\ Instances # {}
    /\ Connectable = {}
    /\ stopper' = "done"
    /\ UNCHANGED <<loop, cur, pipe, client, unread, active, claim, other, flag, fallen, held>>

\* The loop has returned, the service reports Stopped and the process ends
\* with whatever its connection threads were doing.
Exit ==
    /\ loop = "stopped"
    /\ loop' = "exited"
    /\ pipe' = [s \in Slots |-> "none"]
    /\ client' = [s \in Slots |-> "nobody"]
    /\ unread' = [s \in Slots |-> FALSE]
    /\ UNCHANGED <<cur, active, claim, other, flag, stopper, fallen, held>>

----------------------------------------------------------------------------

LoopStep ==
    \/ Check \/ Create \/ CreateFails \/ Accept \/ AcceptFails \/ Failed
    \/ Recheck \/ Break \/ TurnAway \/ TurnedAway \/ Admit \/ Spawn \/ SpawnFails

StopStep == Poke \/ PokeMisses \/ PokeGivesUp

Thread(s) == Refuse(s) \/ Answer(s) \/ Panics(s) \/ Release(s)

Client(s) == Connect(s) \/ Ask(s) \/ ReadReply(s) \/ HangUp(s)

Next ==
    \/ LoopStep
    \/ Signal
    \/ StopStep
    \/ Exit
    \/ OtherStarts \/ OtherEnds
    \/ \E s \in Slots : Thread(s) \/ Client(s)

\* The agent's own threads keep running; jobs end; nothing is asked of clients
\* but that they read the reply they are owed or go away.
Fairness ==
    /\ WF_vars(LoopStep)
    /\ WF_vars(StopStep)
    /\ \A s \in Slots :
         /\ WF_vars(Answer(s))
         /\ WF_vars(Release(s))
         /\ WF_vars(ReadReply(s))

Spec == Init /\ [][Next]_vars /\ Fairness

\* Nobody sits connected without a word: the agent reads with no time limit,
\* so clients that never ask may hold every instance for good.
Talkative == \A s \in Slots : WF_vars(Ask(s))

\* The shell is open: somebody polls the agent, and nobody sits connected
\* without a word.
Polled == Talkative /\ \A s \in Slots : WF_vars(Connect(s))

----------------------------------------------------------------------------

AcceptTypeOK ==
    /\ loop \in {"check", "create", "accept", "failed", "recheck", "admit",
                 "turning", "spawn", "stopped", "exited"}
    /\ cur \in Slots \cup {None}
    /\ pipe \in [Slots -> {"none", "open", "serving", "closing"}]
    /\ client \in [Slots -> {"nobody", "here", "asked", "gone", "poke"}]
    /\ unread \in [Slots -> BOOLEAN]
    /\ active \in 0..MaxConnections
    /\ fallen \in 0..MaxConnections
    /\ claim \in BOOLEAN /\ held \in BOOLEAN /\ flag \in BOOLEAN
    /\ other \in {"none", "first", "later"}
    /\ stopper \in {"idle", "poking", "done"}

\* `active` counts exactly the connection threads that have not finished,
\* whichever way their connections ended, and those that panicked, which count
\* for good (server.rs fetch_add/fetch_sub).
PlacesGivenBack ==
    loop # "exited" =>
      active = Cardinality({s \in Slots : pipe[s] = "serving"})
                 + (IF loop = "spawn" THEN 1 ELSE 0) + fallen

\* An instance is open in exactly one pair of hands: the loop holds the one it
\* is about to serve, and no instance is left with nobody to close it.
NoInstanceLeaks ==
    \A s \in Slots : pipe[s] = "open" <=> s = cur

\* "The loop checks the flag before doing anything with the connection, so
\* this poke is never served": no connection thread is given the poke.
PokeNeverServed ==
    \A s \in Slots : client[s] = "poke" => pipe[s] = "open"

\* "Keeping the claim means every retry demands the name outright": while a
\* server that took the name before the agent ever had it still holds it, the
\* agent has no instance.  (One that takes it later is shared with: the claim
\* is spent by then, and a retry asks for an ordinary instance.)
NeverSharesName == other = "first" => Instances = {}

\* The agent always gets back to listening unless it has been stopped or its
\* name is another's: with every instance in use, every place taken, a failed
\* spawn or a client that dies, so long as those who are connected ask.
ListensAgain ==
    Talkative => []<>(loop \in {"accept", "stopped", "exited"} \/ other # "none")

\* "Opening one here is what makes the stop prompt rather than eventual": once
\* the flag is up the accept loop returns, with only the poke to wake it.
StopIsPrompt == flag ~> (loop \in {"stopped", "exited"})

\* While a shell polls the agent a stop always ends the accept loop: whatever
\* becomes of the poke, the next visitor wakes the loop and it sees the flag.
StopIsHeeded == Polled => StopIsPrompt

(***************************************************************************)
(* serve's count of connections is the number of threads that hold a       *)
(* place or died with one, and every pipe instance is the listener's, a    *)
(* connection's or closed, after every failure on the way.                 *)
(***************************************************************************)
PlacesAndInstances ==
    AcceptTypeOK /\ PlacesGivenBack /\ NoInstanceLeaks

(***************************************************************************)
(* Who is at the two ends of the name: the poke that wakes the loop for a  *)
(* stop is never served as a client, and the agent never listens beside a  *)
(* server that had its pipe name first, however often its attempts fail.   *)
(***************************************************************************)
NameIsOurs ==
    PokeNeverServed /\ NeverSharesName
=============================================================================
