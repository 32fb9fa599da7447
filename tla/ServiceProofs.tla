---------------------------- MODULE ServiceProofs ----------------------------
(***************************************************************************)
(* Proofs about the service: its accept loop, for any number of pipe       *)
(* instances and any limit on the connections, and its start, its store's  *)
(* migration, its end and its terminal, for any agents, schemas, folders   *)
(* and commands.  The two are checked by runs of their own and share no    *)
(* state: each has an inductive invariant here.                            *)
(***************************************************************************)
EXTENDS AcceptLoop, Service, FiniteSetTheorems, SequenceTheorems, WellFoundedInduction, TLAPS

-----------------------------------------------------------------------------
(* The accept loop.                                                        *)

Serving == {s \in Slots : pipe[s] = "serving"}

\* The loop holds an instance from its creation until it is served or closed.
HolderInv == cur # None <=> loop \in {"accept", "recheck", "admit", "turning", "spawn"}

\* The poke comes after the flag, and an instance that was admitted after a
\* look at the flag has a client that is not the poke.
PokeInv ==
    /\ stopper # "idle" => flag
    /\ \A s \in Slots : client[s] = "poke" => flag
    /\ loop \in {"recheck", "admit", "turning", "spawn"} => client[cur] # "nobody"
    /\ loop \in {"admit", "turning", "spawn"} => client[cur] # "poke"

\* The claim is kept until the agent is given its first instance, which it is
\* not while another server is there; one that comes later finds it spent.
ClaimInv ==
    IF claim THEN Instances = {} /\ ~held ELSE held /\ other # "first"

ExitInv == loop = "exited" => Instances = {}

AcceptInv ==
    /\ AcceptTypeOK /\ PlacesGivenBack /\ NoInstanceLeaks /\ PokeNeverServed
    /\ HolderInv /\ PokeInv /\ ClaimInv /\ ExitInv

-----------------------------------------------------------------------------
(* Counting the connection threads.                                        *)

\* The connection threads can be counted.
LEMMA ServingFinite == IsFiniteSet(Serving) /\ Cardinality(Serving) \in Nat
<1>1. Serving \subseteq Slots /\ IsFiniteSet(Slots)
  BY AcceptAssumption DEF Serving
<1>2. IsFiniteSet(Serving)
  BY <1>1, FS_Subset
<1> QED BY <1>2, FS_CardinalityType

\* A thread that starts adds one to the count.
LEMMA ServingGrows ==
  ASSUME NEW s \in Slots, pipe[s] # "serving", Serving' = Serving \cup {s}
  PROVE  Cardinality(Serving') = Cardinality(Serving) + 1
<1>1. s \notin Serving
  BY DEF Serving
<1> QED BY <1>1, ServingFinite, FS_AddElement

\* A thread that ends was counted, and is taken off the count.
LEMMA ServingShrinks ==
  ASSUME NEW s \in Slots, pipe[s] = "serving", Serving' = Serving \ {s}
  PROVE  /\ Cardinality(Serving') = Cardinality(Serving) - 1
         /\ Cardinality(Serving) >= 1
<1>1. s \in Serving
  BY DEF Serving
<1>2. Cardinality(Serving \ {s}) = Cardinality(Serving) - 1
  BY <1>1, ServingFinite, FS_RemoveElement
<1>3. IsFiniteSet(Serving \ {s})
  BY ServingFinite, FS_Subset, Serving \ {s} \subseteq Serving
<1>4. Cardinality(Serving \ {s}) \in Nat
  BY <1>3, FS_CardinalityType
<1> QED BY <1>2, <1>4, ServingFinite

-----------------------------------------------------------------------------
(* The inductive invariant.                                                *)

\* The initial states satisfy the invariant.
LEMMA InitInv == Init => AcceptInv
<1> SUFFICES ASSUME Init PROVE AcceptInv
  OBVIOUS
<1>1. AcceptTypeOK
  <2>1. active \in 0 .. MaxConnections /\ fallen \in 0 .. MaxConnections
    BY AcceptAssumption DEF Init
  <2>2. claim \in BOOLEAN /\ held \in BOOLEAN /\ flag \in BOOLEAN
    BY Zenon DEF Init
  <2>3. /\ pipe \in [Slots -> {"none", "open", "serving", "closing"}]
        /\ client \in [Slots -> {"nobody", "here", "asked", "gone", "poke"}]
    BY DEF Init
  <2>4. unread \in [Slots -> BOOLEAN]
    BY Zenon DEF Init
  <2> QED BY <2>1, <2>2, <2>3, <2>4 DEF Init, AcceptTypeOK
<1>5. HolderInv /\ PokeInv /\ ExitInv /\ PokeNeverServed
  BY DEF Init, HolderInv, PokeInv, ExitInv, PokeNeverServed
<1>2. ClaimInv /\ NoInstanceLeaks
  BY AcceptAssumption DEF Init, ClaimInv, Instances, NoInstanceLeaks
<1>3. {s \in Slots : pipe[s] = "serving"} = {}
  BY DEF Init
<1>4. PlacesGivenBack
  BY <1>3, FS_EmptySet DEF Init, PlacesGivenBack
<1> QED BY <1>1, <1>2, <1>4, <1>5 DEF AcceptInv

\* A step that starts and ends no connection thread, and neither takes a place
\* nor gives one back, keeps the count right.
LEMMA SamePlaces ==
  ASSUME AcceptInv, Serving' = Serving, active' = active, fallen' = fallen,
         loop # "exited", loop = "spawn" <=> loop' = "spawn"
  PROVE  PlacesGivenBack'
  BY DEF AcceptInv, PlacesGivenBack, Serving

\* Every step of the accept loop keeps the invariant.
LEMMA LoopInv ==
  ASSUME AcceptInv, LoopStep
  PROVE  AcceptInv'
<1> USE DEF AcceptInv
<1>0. cur \in Slots => pipe[cur] = "open"
  BY DEF NoInstanceLeaks
<1>1. CASE Check
  <2>1. Serving' = Serving
    BY <1>1 DEF Check, Serving
  <2>2. PlacesGivenBack'
    BY <1>1, <2>1, SamePlaces DEF Check
  <2> QED BY <1>1, <2>2 DEF Check, AcceptTypeOK, NoInstanceLeaks, PokeNeverServed,
             HolderInv, PokeInv, ClaimInv, ExitInv, Instances
<1>2. CASE Create
  <2> PICK s \in Slots \ Instances : pipe' = [pipe EXCEPT ![s] = "open"] /\ cur' = s
    BY <1>2 DEF Create
  <2>1. pipe[s] = "none" /\ s # None /\ cur = None /\ client[s] # "poke"
    BY <1>2, AcceptAssumption DEF Instances, Create, HolderInv, PokeNeverServed
  <2>2. Serving' = Serving
    BY <2>1 DEF AcceptTypeOK, Serving
  <2>3. PlacesGivenBack'
    BY <1>2, <2>2, SamePlaces DEF Create
  <2>4. AcceptTypeOK' /\ HolderInv' /\ ExitInv'
    BY <1>2, <2>1 DEF Create, AcceptTypeOK, HolderInv, ExitInv
  <2>5. NoInstanceLeaks' /\ PokeNeverServed'
    BY <1>2, <2>1, AcceptAssumption DEF Create, AcceptTypeOK, NoInstanceLeaks, PokeNeverServed
  <2>6. PokeInv' /\ ClaimInv'
    BY <1>2, <2>1 DEF Create, Refused, AcceptTypeOK, PokeInv, ClaimInv
  <2> QED BY <2>3, <2>4, <2>5, <2>6
<1>3. CASE CreateFails \/ Accept \/ Failed \/ Recheck
  <2>1. Serving' = Serving
    BY <1>3 DEF CreateFails, Accept, Failed, Recheck, Serving
  <2>2. PlacesGivenBack'
    BY <1>3, <2>1, SamePlaces DEF CreateFails, Accept, Failed, Recheck
  <2> QED BY <1>3, <2>2 DEF CreateFails, Accept, Failed, Recheck, AcceptTypeOK,
             NoInstanceLeaks, PokeNeverServed, HolderInv, PokeInv, ClaimInv, ExitInv,
             Instances
<1>4. ASSUME cur \in Slots, Close(cur), cur' = None,
             loop \in {"accept", "recheck", "turning", "spawn"},
             loop' \in {"failed", "stopped", "check"},
             active' = IF loop = "spawn" THEN active - 1 ELSE active,
             UNCHANGED <<claim, other, flag, stopper, fallen, held>>
      PROVE  AcceptInv'
  <2>1. Serving' = Serving
    BY <1>0, <1>4 DEF Close, AcceptTypeOK, Serving
  <2>2. PlacesGivenBack' /\ active' \in 0 .. MaxConnections
    <3>1. /\ active \in 0 .. MaxConnections /\ MaxConnections \in Nat
          /\ fallen \in 0 .. MaxConnections
      BY AcceptAssumption DEF AcceptTypeOK
    <3>2. active = Cardinality(Serving) + (IF loop = "spawn" THEN 1 ELSE 0) + fallen
      BY <1>4 DEF PlacesGivenBack, Serving
    <3>3. active' = Cardinality(Serving') + fallen /\ active' \in 0 .. MaxConnections
      BY <1>4, <2>1, <3>1, <3>2, ServingFinite
    <3>4. /\ (IF loop' = "spawn" THEN 1 ELSE 0) = 0 /\ Cardinality(Serving') \in Nat
          /\ fallen' = fallen /\ fallen \in Nat
      BY <1>4, <2>1, <3>1, ServingFinite
    <3>5. active' = Cardinality(Serving') + (IF loop' = "spawn" THEN 1 ELSE 0) + fallen'
      BY <3>3, <3>4
    <3> QED BY <3>3, <3>5 DEF PlacesGivenBack, Serving
  <2>3. AcceptTypeOK' /\ HolderInv' /\ ExitInv'
    BY <1>4, <2>2 DEF Close, AcceptTypeOK, HolderInv, ExitInv
  <2>4. NoInstanceLeaks' /\ PokeNeverServed'
    BY <1>4, AcceptAssumption DEF Close, AcceptTypeOK, NoInstanceLeaks, PokeNeverServed
  <2>5. PokeInv' /\ ClaimInv'
    BY <1>4 DEF Close, AcceptTypeOK, PokeInv, ClaimInv, Instances
  <2> QED BY <2>2, <2>3, <2>4, <2>5
<1>5. CASE AcceptFails \/ Break \/ TurnedAway \/ SpawnFails
  <2>1. cur \in Slots
    BY <1>5 DEF AcceptFails, Break, TurnedAway, SpawnFails, HolderInv, AcceptTypeOK
  <2> QED BY <1>4, <1>5, <2>1 DEF AcceptFails, Break, TurnedAway, SpawnFails
<1>6. CASE TurnAway
  <2>1. Serving' = Serving /\ cur \in Slots
    BY <1>6 DEF TurnAway, Serving, HolderInv, AcceptTypeOK
  <2>2. PlacesGivenBack'
    BY <1>6, <2>1, SamePlaces DEF TurnAway
  <2> QED BY <1>6, <2>1, <2>2 DEF TurnAway, Gone, AcceptTypeOK, NoInstanceLeaks,
             PokeNeverServed, HolderInv, PokeInv, ClaimInv, ExitInv, Instances
<1>7. CASE Admit
  <2>1. Serving' = Serving
    BY <1>7 DEF Admit, Serving
  <2>2. PlacesGivenBack' /\ active' \in 0 .. MaxConnections
    BY <1>7, <2>1, ServingFinite, AcceptAssumption
       DEF Admit, PlacesGivenBack, Serving, AcceptTypeOK
  <2> QED BY <1>7, <2>2 DEF Admit, AcceptTypeOK, NoInstanceLeaks, PokeNeverServed,
             HolderInv, PokeInv, ClaimInv, ExitInv, Instances
<1>8. CASE Spawn
  <2>1. cur \in Slots /\ pipe[cur] = "open" /\ client[cur] # "poke"
    BY <1>8, <1>0 DEF Spawn, HolderInv, AcceptTypeOK, PokeInv
  <2>2. Serving' = Serving \cup {cur}
    BY <1>8, <2>1 DEF Spawn, Serving, AcceptTypeOK
  <2>3. Cardinality(Serving') = Cardinality(Serving) + 1
    BY <2>1, <2>2, ServingGrows
  <2>4. PlacesGivenBack'
    BY <1>8, <2>3, ServingFinite DEF Spawn, PlacesGivenBack, Serving
  <2>5. AcceptTypeOK' /\ HolderInv' /\ ExitInv' /\ PokeInv'
    BY <1>8, <2>1 DEF Spawn, AcceptTypeOK, HolderInv, ExitInv, PokeInv
  <2>6. NoInstanceLeaks' /\ PokeNeverServed'
    BY <1>8, <2>1, AcceptAssumption DEF Spawn, AcceptTypeOK, NoInstanceLeaks, PokeNeverServed
  <2>7. ClaimInv'
    BY <1>8, <2>1 DEF Spawn, AcceptTypeOK, ClaimInv, Instances
  <2> QED BY <2>4, <2>5, <2>6, <2>7
<1> QED
  BY <1>1, <1>2, <1>3, <1>5, <1>6, <1>7, <1>8 DEF LoopStep

\* Every step of a connection thread keeps the invariant.
LEMMA ThreadInv ==
  ASSUME AcceptInv, NEW s \in Slots, Thread(s)
  PROVE  AcceptInv'
<1> USE DEF AcceptInv
<1>1. ASSUME NEW replied \in BOOLEAN, Return(s, replied) PROVE AcceptInv'
  <2>1. pipe[s] = "serving" /\ s # cur /\ loop # "exited"
    BY <1>1 DEF Return, NoInstanceLeaks, ExitInv, Instances
  <2>2. Serving' = Serving \ {s}
    BY <1>1 DEF Return, Serving, AcceptTypeOK
  <2>3. Cardinality(Serving') = Cardinality(Serving) - 1 /\ Cardinality(Serving) >= 1
    BY <2>1, <2>2, ServingShrinks
  <2>4. PlacesGivenBack' /\ active' \in 0 .. MaxConnections
    BY <1>1, <2>1, <2>3, ServingFinite, AcceptAssumption
       DEF Return, PlacesGivenBack, Serving, AcceptTypeOK
  <2>5. AcceptTypeOK' /\ HolderInv' /\ ExitInv' /\ PokeInv'
    BY <1>1, <2>1, <2>4 DEF Return, Gone, AcceptTypeOK, HolderInv, ExitInv, PokeInv
  <2>6. NoInstanceLeaks' /\ PokeNeverServed'
    BY <1>1, <2>1 DEF Return, AcceptTypeOK, NoInstanceLeaks, PokeNeverServed
  <2>7. ClaimInv'
    BY <1>1, <2>1 DEF Return, AcceptTypeOK, ClaimInv, Instances
  <2> QED BY <2>4, <2>5, <2>6, <2>7
<1>3. CASE Panics(s)
  <2> PICK replied \in BOOLEAN : unread' = [unread EXCEPT ![s] = replied /\ ~Gone(s)]
    BY <1>3 DEF Panics
  <2>1. pipe[s] = "serving" /\ s # cur /\ loop # "exited"
    BY <1>3 DEF Panics, NoInstanceLeaks, ExitInv, Instances
  <2>2. Serving' = Serving \ {s}
    BY <1>3 DEF Panics, Serving, AcceptTypeOK
  <2>3. Cardinality(Serving') = Cardinality(Serving) - 1 /\ Cardinality(Serving) >= 1
    BY <2>1, <2>2, ServingShrinks
  <2>4. PlacesGivenBack' /\ fallen' \in 0 .. MaxConnections
    <3>1. /\ active \in 0 .. MaxConnections /\ MaxConnections \in Nat
          /\ fallen \in 0 .. MaxConnections
      BY AcceptAssumption DEF AcceptTypeOK
    <3>2. active = Cardinality(Serving) + (IF loop = "spawn" THEN 1 ELSE 0) + fallen
      BY <2>1 DEF PlacesGivenBack, Serving
    <3>3. active' = active /\ loop' = loop /\ fallen' = fallen + 1
      BY <1>3 DEF Panics
    <3>4. active' = Cardinality(Serving') + (IF loop' = "spawn" THEN 1 ELSE 0) + fallen'
      BY <2>3, <3>1, <3>2, <3>3, ServingFinite
    <3>5. fallen' \in 0 .. MaxConnections
      BY <2>3, <3>1, <3>2, <3>3, ServingFinite
    <3> QED BY <3>4, <3>5 DEF PlacesGivenBack, Serving
  <2>5. AcceptTypeOK' /\ HolderInv' /\ ExitInv' /\ PokeInv'
    BY <1>3, <2>1, <2>4 DEF Panics, Gone, AcceptTypeOK, HolderInv, ExitInv, PokeInv
  <2>6. NoInstanceLeaks' /\ PokeNeverServed'
    BY <1>3, <2>1 DEF Panics, AcceptTypeOK, NoInstanceLeaks, PokeNeverServed
  <2>7. ClaimInv'
    BY <1>3, <2>1 DEF Panics, AcceptTypeOK, ClaimInv, Instances
  <2> QED BY <2>4, <2>5, <2>6, <2>7
<1>2. CASE Release(s)
  <2>1. pipe[s] = "closing" /\ s # cur /\ loop # "exited"
    BY <1>2 DEF Release, NoInstanceLeaks, ExitInv, Instances
  <2>2. Serving' = Serving
    BY <1>2, <2>1 DEF Release, Close, Serving, AcceptTypeOK
  <2>3. PlacesGivenBack'
    BY <1>2, <2>1, <2>2, SamePlaces DEF Release
  <2>4. AcceptTypeOK' /\ HolderInv' /\ ExitInv' /\ PokeInv'
    BY <1>2, <2>1 DEF Release, Close, AcceptTypeOK, HolderInv, ExitInv, PokeInv
  <2>5. NoInstanceLeaks' /\ PokeNeverServed'
    BY <1>2, <2>1 DEF Release, Close, AcceptTypeOK, NoInstanceLeaks, PokeNeverServed
  <2>6. ClaimInv'
    BY <1>2, <2>1 DEF Release, Close, AcceptTypeOK, ClaimInv, Instances
  <2> QED BY <2>3, <2>4, <2>5, <2>6
<1> QED BY <1>1, <1>2, <1>3 DEF Thread, Refuse, Answer

\* Every step of a client keeps the invariant.
LEMMA ClientInv ==
  ASSUME AcceptInv, NEW s \in Slots, Client(s)
  PROVE  AcceptInv'
<1> USE DEF AcceptInv
<1>1. /\ pipe' = pipe
      /\ UNCHANGED <<loop, cur, active, claim, other, flag, stopper, fallen, held>>
  BY DEF Client, Connect, Ask, ReadReply, HangUp
<1>2. PlacesGivenBack' /\ NoInstanceLeaks' /\ HolderInv' /\ ClaimInv' /\ ExitInv'
  BY <1>1 DEF PlacesGivenBack, NoInstanceLeaks, HolderInv, ClaimInv, ExitInv, Instances
<1>3. AcceptTypeOK' /\ PokeNeverServed' /\ PokeInv'
  <2>1. CASE Connect(s)
    BY <1>1, <2>1 DEF Connect, Connectable, AcceptTypeOK, PokeNeverServed, PokeInv
  <2>2. CASE Ask(s)
    BY <1>1, <2>2 DEF Ask, AcceptTypeOK, PokeNeverServed, PokeInv
  <2>3. CASE ReadReply(s)
    BY <1>1, <2>3 DEF ReadReply, AcceptTypeOK, PokeNeverServed, PokeInv
  <2>4. CASE HangUp(s)
    BY <1>1, <2>4 DEF HangUp, AcceptTypeOK, PokeNeverServed, PokeInv
  <2> QED BY <2>1, <2>2, <2>3, <2>4 DEF Client
<1> QED BY <1>2, <1>3

\* The stop, the end of the process and the coming and going of another server
\* of the name keep the invariant.
LEMMA StopInv ==
  ASSUME AcceptInv, Signal \/ StopStep \/ Exit \/ OtherStarts \/ OtherEnds
  PROVE  AcceptInv'
<1> USE DEF AcceptInv
<1>1. CASE Signal
  BY <1>1 DEF Signal, AcceptTypeOK, PlacesGivenBack, NoInstanceLeaks, PokeNeverServed,
     HolderInv, PokeInv, ClaimInv, ExitInv, Instances
<1>2. CASE Poke
  <2> PICK s \in Connectable : client' = [client EXCEPT ![s] = "poke"]
    BY <1>2 DEF Poke
  <2>1. s \in Slots /\ pipe[s] = "open" /\ client[s] = "nobody" /\ flag
    BY <1>2 DEF Connectable, Poke, PokeInv
  <2>2. PlacesGivenBack' /\ NoInstanceLeaks' /\ HolderInv' /\ ClaimInv' /\ ExitInv'
    BY <1>2 DEF Poke, PlacesGivenBack, NoInstanceLeaks, HolderInv, ClaimInv, ExitInv,
       Instances
  <2>3. AcceptTypeOK' /\ PokeNeverServed' /\ PokeInv'
    BY <1>2, <2>1 DEF Poke, AcceptTypeOK, PokeNeverServed, PokeInv, NoInstanceLeaks
  <2> QED BY <2>2, <2>3
<1>3. CASE PokeMisses \/ PokeGivesUp
  <2>1. /\ stopper = "poking" /\ stopper' = "done"
        /\ UNCHANGED <<loop, cur, pipe, client, unread, active, claim, other, flag,
                       fallen, held>>
    BY <1>3 DEF PokeMisses, PokeGivesUp
  <2> QED BY <2>1 DEF AcceptTypeOK, PlacesGivenBack, NoInstanceLeaks, PokeNeverServed,
             HolderInv, PokeInv, ClaimInv, ExitInv, Instances
<1>5. CASE OtherStarts \/ OtherEnds
  BY <1>5 DEF OtherStarts, OtherEnds, AcceptTypeOK, PlacesGivenBack, NoInstanceLeaks,
     PokeNeverServed, HolderInv, PokeInv, ClaimInv, ExitInv, Instances
<1>4. CASE Exit
  BY <1>4, AcceptAssumption DEF Exit, AcceptTypeOK, PlacesGivenBack, NoInstanceLeaks,
     PokeNeverServed, HolderInv, PokeInv, ClaimInv, ExitInv, Instances
<1> QED BY <1>1, <1>2, <1>3, <1>4, <1>5 DEF StopStep

\* Every step keeps the invariant.
LEMMA NextInv == AcceptInv /\ [Next]_vars => AcceptInv'
<1> SUFFICES ASSUME AcceptInv, [Next]_vars PROVE AcceptInv'
  OBVIOUS
<1>1. CASE UNCHANGED vars
  BY <1>1 DEF vars, AcceptInv, AcceptTypeOK, PlacesGivenBack, NoInstanceLeaks,
     PokeNeverServed, HolderInv, PokeInv, ClaimInv, ExitInv, Instances
<1> QED BY <1>1, LoopInv, ThreadInv, ClientInv, StopInv DEF Next

\* The invariant holds in every reachable state.
LEMMA InvAlways == Spec => []AcceptInv
  BY InitInv, NextInv, PTL DEF Spec

\* For any number of instances and any limit, serve's count is the number of
\* threads that hold a place or panicked with one, and every instance has one
\* holder, after every failure on the way.
THEOREM PlacesAndInstancesAlways == Spec => []PlacesAndInstances
<1>1. AcceptInv => PlacesAndInstances
  BY DEF AcceptInv, PlacesAndInstances
<1> QED BY <1>1, InvAlways, PTL

\* For any number of instances, the poke is never served and the agent never
\* listens beside a server that had its pipe name first, however many servers
\* come and go and however often the agent's own attempts fail.
THEOREM NameIsOursAlways == Spec => []NameIsOurs
<1>1. AcceptInv => NameIsOurs
  BY DEF AcceptInv, NameIsOurs, ClaimInv, NeverSharesName
<1> QED BY <1>1, InvAlways, PTL

-----------------------------------------------------------------------------
(* Starting, migrating and stopping.                                       *)

\* A store that has had its steps.
Whole == {At(v) : v \in 0 .. Newest}

\* What a write-ahead log may hold: a store some step was done to.
Logged == {At(v) : v \in 1 .. Newest}

Logs == Seq(Logged)

\* What a transaction may have made of a store.
Txns == [version : Nat, steps : Seq(Nat)]

\* How far a process may have come.
Places == {"down", "tracing", "register", "secure", "open", "read", "begin", "again",
           "apply", "bump", "commit", "opened", "serving", "joining", "failed"}

\* Where an agent is inside its transaction, on its way to a step, and past
\* the last of them.
Locked == {"again", "apply", "bump", "commit"}

Stepping == {"begin", "again", "apply", "bump", "commit"}

Usable == {"opened", "serving", "joining"}

StartTypes ==
  /\ hosts \subseteq Agents /\ watching \subseteq hosts
  /\ file \in [Stores -> Whole]
  /\ wal \in [Stores -> Logs]
  /\ writer \in [Stores -> hosts \cup {NoOne}]
  /\ at \in [Agents -> Places]
  /\ step \in [Agents -> Nat]
  /\ txn \in [Agents -> Txns]
  /\ cause \in [Agents -> {"none", "fault", "newer", "busy"}]

\* What the service, its registration and the terminal are said to be.
SaidTypes ==
  /\ scm \in {"stopped", "start_pending", "running"}
  /\ told \in {"nothing", "error", "warned", "installed", "uninstalled"}
  /\ secured \in {"no", "yes", "said"}
  /\ reg \in [present : BOOLEAN, deleting : BOOLEAN, recovery : BOOLEAN,
              home : Homes \cup {NoList}]

\* What the store of an agent holds, while it is in a transaction and after.
TxnInv(a) ==
  LET stored == file[StorePath(a)]
  IN CASE at[a] = "again"  -> txn[a] = stored
       [] at[a] = "apply"  -> txn[a] = stored /\ stored.version = step[a] - 1
       [] at[a] = "bump"   -> /\ txn[a] = [version |-> step[a] - 1, steps |-> At(step[a]).steps]
                              /\ stored.version = step[a] - 1
       [] at[a] = "commit" -> \/ txn[a] = stored /\ stored.version >= step[a]
                              \/ txn[a] = At(step[a]) /\ stored.version = step[a] - 1
       [] OTHER -> TRUE

\* One agent: the lock is its own exactly while it is in its transaction, the
\* steps before the next are done, and what it opened has every step it needs.
AgentInv(a) ==
  /\ at[a] # "down" => a \in hosts
  /\ writer[StorePath(a)] = a <=> at[a] \in Locked
  /\ at[a] \in Stepping =>
        step[a] \in 1 .. SchemaOf[a] /\ file[StorePath(a)].version >= step[a] - 1
  /\ TxnInv(a)
  /\ at[a] \in Usable => file[StorePath(a)].version >= SchemaOf[a]

StoreInv == StartTypes /\ \A a \in Agents : AgentInv(a)

\* The watcher's thread lives while the service serves or waits for it, and
\* Stopped is reported of a process that is gone.
ScmInv ==
  /\ scm = "stopped" => at[Service] = "down"
  /\ Service \in watching => at[Service] \in {"serving", "joining"}

\* A registration marked for deletion is one somebody asked to remove, and there
\* is one only where the service may run.
RegInv ==
  /\ InstalledAsSaid
  /\ reg.deleting => reg.present /\ told # "installed"
  /\ reg.present => Service \in hosts

ServiceInv == SaidTypes /\ ClosedBeforeOpened /\ ScmInv /\ RegInv

\* The requests a command has still to make come in its order, and between the
\* two that matter the first has been done or was objected to.
TerminalInv ==
  /\ UnwatchedOnlyAfterAnError
  /\ mode \in ClientModes \cup {"none"}
  /\ planted \subseteq Bait /\ objected \subseteq Bait /\ auditing \in BOOLEAN
  /\ CASE mode = "canaries-on" ->
            \/ todo \in {<<"audit", "plant", "report">>, <<"report">>}
            \/ todo = <<"plant", "report">> /\ (auditing \/ objected = Bait)
       [] mode = "canaries-off" ->
            \/ todo \in {<<"plant", "audit", "report">>, <<"report">>}
            \/ todo = <<"audit", "report">> /\ planted \subseteq objected
       [] mode = "none" -> todo = <<>>
       [] OTHER -> todo = <<"report">>

StartInv == StoreInv /\ ServiceInv /\ TerminalInv

-----------------------------------------------------------------------------
(* Stores, versions and steps.                                             *)

\* A store at a version is a store.
LEMMA WholeType ==
  ASSUME NEW v \in Nat
  PROVE  /\ At(v) \in Txns
         /\ At(v).version = v
         /\ ToSet(At(v).steps) = 1 .. v
<1>1. [i \in 1 .. v |-> i] \in Seq(Nat) /\ DOMAIN [i \in 1 .. v |-> i] = 1 .. v
  BY \A i \in 1 .. v : i \in Nat
<1> QED BY <1>1 DEF At, ToSet, Txns

\* Two whole stores of one version are the same.
LEMMA WholeStore ==
  ASSUME NEW x \in Whole
  PROVE  /\ x.version \in 0 .. Newest /\ x.version \in Nat
         /\ x = At(x.version)
         /\ x \in Txns
         /\ ToSet(x.steps) = 1 .. x.version
<1>1. PICK v \in 0 .. Newest : x = At(v)
  BY DEF Whole
<1>2. v \in Nat
  BY MigrationAssumption
<1>3. x.version = v
  BY <1>1, <1>2, WholeType
<1> QED BY <1>1, <1>2, <1>3, WholeType

\* The next step of a whole store makes the next whole store.
LEMMA NextStep ==
  ASSUME NEW v \in Nat
  PROVE  Append(At(v).steps, v + 1) = At(v + 1).steps
<1> DEFINE f == [i \in 1 .. v |-> i]
           g == [i \in 1 .. v + 1 |-> i]
<1>1. f \in Seq(Nat) /\ Len(f) = v
  BY \A i \in 1 .. v : i \in Nat
<1>2. g \in Seq(Nat) /\ Len(g) = v + 1
  BY \A i \in 1 .. v + 1 : i \in Nat
<1>3. /\ Append(f, v + 1) \in Seq(Nat) /\ Len(Append(f, v + 1)) = v + 1
      /\ \A i \in 1 .. v : Append(f, v + 1)[i] = f[i]
      /\ Append(f, v + 1)[v + 1] = v + 1
  BY <1>1, AppendProperties
<1>4. \A i \in 1 .. v + 1 : Append(f, v + 1)[i] = g[i]
  BY <1>3
<1>5. Append(f, v + 1) = g
  BY <1>2, <1>3, <1>4, SeqEqual
<1> QED BY <1>5 DEF At

\* A logged store is whole.
LEMMA LoggedWhole == Logged \subseteq Whole
  BY MigrationAssumption DEF Logged, Whole

\* What is left after a power cut is whole.
LEMMA CutIsWhole ==
  ASSUME StartTypes, NEW s \in Stores
  PROVE  AfterPowerCut(s) \subseteq Whole
<1>1. ToSet(wal[s]) \subseteq Logged
  BY DEF StartTypes, ToSet, Logs
<1>2. ASSUME wal[s] # <<>>
      PROVE  At(wal[s][1].version - 1) \in Whole
  <2>1. wal[s][1] \in Logged
    BY <1>2 DEF StartTypes, Logs
  <2>2. PICK v \in 1 .. Newest : wal[s][1] = At(v)
    BY <2>1 DEF Logged
  <2>3. v \in Nat /\ v - 1 \in 0 .. Newest
    BY MigrationAssumption
  <2>4. wal[s][1].version = v
    BY <2>2, <2>3, WholeType
  <2> QED BY <2>3, <2>4 DEF Whole
<1> QED BY <1>1, <1>2, LoggedWhole DEF AfterPowerCut, StartTypes

-----------------------------------------------------------------------------
(* Opening and migrating.                                                  *)

\* A step of one agent: it may take or give back a lock nobody else holds, and
\* change its store, never to an older version, while the lock is its own.
Alone(a) ==
  /\ \A b \in Agents \ {a} : at'[b] = at[b] /\ step'[b] = step[b] /\ txn'[b] = txn[b]
  /\ hosts \subseteq hosts'
  /\ \A s \in Stores \ {StorePath(a)} : writer'[s] = writer[s] /\ file'[s] = file[s]
  /\ LET s == StorePath(a)
     IN /\ \/ writer'[s] = writer[s]
           \/ writer[s] \in {a, NoOne} /\ writer'[s] \in {a, NoOne}
        /\ file'[s] # file[s] => writer[s] = a /\ file'[s].version >= file[s].version

\* The other agents do not notice.
LEMMA OthersKept ==
  ASSUME StoreInv, NEW a \in Agents, Alone(a), StartTypes', NEW b \in Agents \ {a}
  PROVE  AgentInv(b)'
<1>0. AgentInv(b) /\ StorePath(b) \in Stores /\ StorePath(a) \in Stores
  BY DEF StoreInv, StorePath, Stores
<1>1. at'[b] = at[b] /\ step'[b] = step[b] /\ txn'[b] = txn[b]
  BY DEF Alone
<1>2. writer'[StorePath(b)] = b <=> writer[StorePath(b)] = b
  BY <1>0, MigrationAssumption DEF Alone
<1>3. writer[StorePath(b)] = b => file'[StorePath(b)] = file[StorePath(b)]
  BY <1>0 DEF Alone
<1>4. file'[StorePath(b)].version >= file[StorePath(b)].version
  <2>1. file[StorePath(b)].version \in Nat
    BY <1>0, WholeStore DEF StoreInv, StartTypes
  <2> QED BY <1>0, <2>1 DEF Alone
<1>5. /\ file[StorePath(b)].version \in Nat /\ file'[StorePath(b)].version \in Nat
      /\ SchemaOf[b] \in Nat /\ step[b] \in Nat
  BY <1>0, WholeStore, MigrationAssumption DEF StoreInv, StartTypes
<1>6. (at[b] \in Stepping =>
         step[b] \in 1 .. SchemaOf[b] /\ file'[StorePath(b)].version >= step[b] - 1)
  BY <1>0, <1>4, <1>5 DEF AgentInv
<1>7. (at[b] \in Usable => file'[StorePath(b)].version >= SchemaOf[b])
  BY <1>0, <1>4, <1>5 DEF AgentInv
<1>8. TxnInv(b)'
  BY <1>0, <1>1, <1>3 DEF AgentInv, TxnInv, Locked
<1> HIDE DEF TxnInv
<1> QED BY <1>0, <1>1, <1>2, <1>6, <1>7, <1>8 DEF AgentInv, Alone, StorePath

\* Both kept: the agent that moved, and those that did not.
LEMMA OneMoved ==
  ASSUME StoreInv, NEW a \in Agents, Alone(a), StartTypes', AgentInv(a)'
  PROVE  StoreInv'
BY OthersKept DEF StoreInv

\* What is known of an agent before its step.
LEMMA AgentFacts ==
  ASSUME StoreInv, NEW a \in Agents
  PROVE  /\ AgentInv(a)
         /\ StorePath(a) \in Stores
         /\ SchemaOf[a] \in Nat /\ SchemaOf[a] <= Newest /\ Newest \in Nat
         /\ step[a] \in Nat
         /\ file[StorePath(a)] \in Whole
         /\ file[StorePath(a)].version \in Nat
         /\ a # NoOne
BY WholeStore, MigrationAssumption DEF StoreInv, StartTypes, StorePath, Stores

\* A step that ends a start: what the transaction made is gone, and the lock.
LEMMA FailureKeeps ==
  ASSUME StoreInv, NEW a \in hosts, NEW why \in {"fault", "newer", "busy"},
         FailedToOpen(a, why), UNCHANGED <<file, wal, hosts, watching>>,
         \/ Rollback(a)
         \/ UNCHANGED <<step, txn, writer>> /\ at[a] \notin Locked
  PROVE  StoreInv'
<1>0. a \in Agents /\ AgentInv(a)
  BY DEF StoreInv, StartTypes
<1>1. At(0) \in Txns
  BY WholeType
<1>2. StartTypes'
  <2>1. at' \in [Agents -> Places] /\ cause' \in [Agents -> {"none", "fault", "newer", "busy"}]
    BY DEF StoreInv, StartTypes, FailedToOpen, Places
  <2>2. step' \in [Agents -> Nat] /\ txn' \in [Agents -> Txns]
    BY <1>1 DEF StoreInv, StartTypes, Rollback
  <2>3. writer' \in [Stores -> hosts \cup {NoOne}]
    BY DEF StoreInv, StartTypes, Rollback
  <2> QED BY <2>1, <2>2, <2>3 DEF StoreInv, StartTypes
<1>3. writer'[StorePath(a)] # a /\ at'[a] = "failed"
  BY <1>0, AgentFacts DEF Rollback, FailedToOpen, StoreInv, StartTypes, AgentInv
<1>4. AgentInv(a)'
  BY <1>3 DEF AgentInv, TxnInv, Locked, Stepping, Usable, StorePath
<1>5. Alone(a)
  BY <1>0, AgentFacts DEF Alone, Rollback, FailedToOpen, StoreInv, StartTypes
<1> QED BY <1>0, <1>2, <1>4, <1>5, OneMoved

\* A step of the program counter alone.
LEMMA PlaceKeeps ==
  ASSUME StoreInv, NEW a \in Agents, at' \in [Agents -> Places],
         \A b \in Agents \ {a} : at'[b] = at[b],
         UNCHANGED <<file, wal, writer, step, txn>>,
         cause' \in [Agents -> {"none", "fault", "newer", "busy"}],
         hosts' \subseteq Agents, hosts \subseteq hosts', watching' \subseteq hosts',
         AgentInv(a)'
  PROVE  StoreInv'
<1>1. StartTypes'
  BY DEF StoreInv, StartTypes
<1>2. Alone(a)
  BY DEF Alone
<1> QED BY <1>1, <1>2, OneMoved

\* Store::open and the look at the version, which changes nothing else.
LEMMA OpeningKeeps ==
  ASSUME StoreInv, NEW a \in hosts, UNCHANGED <<hosts, watching>>,
         OpenConnection(a) \/ ReadVersion(a)
  PROVE  StoreInv'
<1>0. a \in Agents /\ AgentInv(a)
  BY DEF StoreInv, StartTypes
<1>1. CASE OpenConnection(a)
  <2>1. CASE at' = [at EXCEPT ![a] = "read"] /\ UNCHANGED cause
    <3>1. AgentInv(a)'
      BY <1>0, <1>1, <2>1
         DEF AgentInv, TxnInv, Locked, Stepping, Usable, StorePath, OpenConnection, StoreInv, StartTypes
    <3> QED BY <1>0, <1>1, <2>1, <3>1, PlaceKeeps DEF OpenConnection, StoreInv, StartTypes, Places
  <2>2. CASE FailedToOpen(a, "fault")
    BY <1>1, <2>2, FailureKeeps DEF OpenConnection, Locked
  <2> QED BY <1>1, <2>1, <2>2 DEF OpenConnection
<1>2. CASE ReadVersion(a)
  <2> DEFINE version == file[StorePath(a)].version
  <2>0. at[a] = "read" /\ version \in Nat /\ SchemaOf[a] \in Nat
    BY <1>0, <1>2, AgentFacts DEF ReadVersion
  <2>1. CASE version > SchemaOf[a]
    <3>1. FailedToOpen(a, "newer")
      BY <1>2, <2>0, <2>1 DEF ReadVersion, FailedToOpen
    <3>6. step' \in [Agents -> Nat] /\ \A b \in Agents \ {a} : step'[b] = step[b]
      BY <1>0, <1>2, <2>0 DEF ReadVersion, StoreInv, StartTypes
    <3>2. at'[a] = "failed" /\ writer[StorePath(a)] # a
      BY <1>0, <2>0, <3>1 DEF FailedToOpen, AgentInv, Locked, StoreInv, StartTypes
    <3>3. AgentInv(a)'
      BY <1>0, <1>2, <3>2 DEF AgentInv, TxnInv, Locked, Stepping, Usable, StorePath, ReadVersion
    <3>4. StartTypes'
      BY <1>0, <1>2, <3>1, <3>6 DEF ReadVersion, FailedToOpen, StoreInv, StartTypes, Places
    <3>5. Alone(a)
      BY <1>0, <1>2, <3>1, <3>6 DEF Alone, ReadVersion, FailedToOpen, StoreInv, StartTypes
    <3> QED BY <1>0, <3>3, <3>4, <3>5, OneMoved
  <2>2. CASE version <= SchemaOf[a]
    <3> DEFINE place == IF version = SchemaOf[a] THEN "opened" ELSE "begin"
               next == IF version < SchemaOf[a] THEN version + 1 ELSE 0
    <3>1. /\ at' = [at EXCEPT ![a] = place] /\ step' = [step EXCEPT ![a] = next]
          /\ UNCHANGED <<cause, file, wal, writer, txn>>
      BY <1>2, <2>0, <2>2 DEF ReadVersion
    <3>2. at'[a] = place /\ step'[a] = next /\ next \in Nat /\ writer[StorePath(a)] # a
      BY <1>0, <2>0, <3>1 DEF AgentInv, Locked, StoreInv, StartTypes
    <3>3. AgentInv(a)'
      BY <1>0, <2>0, <2>2, <3>1, <3>2
         DEF AgentInv, TxnInv, Locked, Stepping, Usable, StorePath
    <3>4. StartTypes'
      BY <1>0, <3>1, <3>2 DEF StoreInv, StartTypes, Places
    <3>5. Alone(a)
      BY <1>0, <3>1 DEF Alone, StoreInv, StartTypes
    <3> QED BY <1>0, <3>3, <3>4, <3>5, OneMoved
  <2> QED BY <2>0, <2>1, <2>2
<1> QED BY <1>1, <1>2

\* BEGIN IMMEDIATE, and the second look at the version.
LEMMA LockingKeeps ==
  ASSUME StoreInv, NEW a \in hosts, UNCHANGED <<hosts, watching>>,
         BeginImmediate(a) \/ ReadAgain(a)
  PROVE  StoreInv'
<1>0. a \in Agents /\ AgentInv(a)
  BY DEF StoreInv, StartTypes
<1> DEFINE s == StorePath(a)
<1>f. /\ s \in Stores /\ step[a] \in Nat /\ SchemaOf[a] \in Nat /\ a # NoOne
      /\ file[s] \in Txns /\ file[s].version \in Nat /\ DOMAIN writer = Stores
  BY <1>0, AgentFacts, WholeStore DEF StoreInv, StartTypes
<1>1. CASE BeginImmediate(a)
  <2>1. CASE /\ writer[s] = NoOne
             /\ writer' = [writer EXCEPT ![s] = a]
             /\ txn' = [txn EXCEPT ![a] = file[s]]
             /\ at' = [at EXCEPT ![a] = "again"]
             /\ UNCHANGED cause
    <3>1. at[a] = "begin" /\ UNCHANGED <<file, wal, step>>
      BY <1>1 DEF BeginImmediate
    <3>2. at'[a] = "again" /\ writer'[s] = a /\ txn'[a] = file[s]
      BY <1>0, <1>f, <2>1 DEF StoreInv, StartTypes
    <3>3. StartTypes'
      BY <1>0, <1>f, <2>1, <3>1 DEF StoreInv, StartTypes, Places
    <3>4. TxnInv(a)'
      BY <3>1, <3>2 DEF TxnInv, StorePath
    <3>5. AgentInv(a)'
      BY <1>0, <3>1, <3>2, <3>4 DEF AgentInv, Locked, Stepping, Usable, StorePath
    <3>6. Alone(a)
      BY <1>0, <1>f, <2>1, <3>1 DEF Alone, StoreInv, StartTypes
    <3> QED BY <1>0, <3>3, <3>5, <3>6, OneMoved
  <2>2. CASE writer[s] # NoOne /\ FailedToOpen(a, "busy") /\ UNCHANGED <<writer, txn>>
    BY <1>1, <2>2, FailureKeeps DEF BeginImmediate, Locked
  <2> QED BY <1>1, <2>1, <2>2 DEF BeginImmediate
<1>2. CASE ReadAgain(a)
  <2> DEFINE place == IF txn[a].version >= step[a] THEN "commit" ELSE "apply"
  <2>1. /\ at[a] = "again" /\ at' = [at EXCEPT ![a] = place]
        /\ UNCHANGED <<file, wal, writer, step, txn, cause>>
    BY <1>2 DEF ReadAgain
  <2>2. txn[a] = file[s] /\ step[a] \in 1 .. SchemaOf[a] /\ file[s].version >= step[a] - 1
        /\ writer[s] = a /\ a \in hosts
    BY <1>0, <2>1 DEF AgentInv, TxnInv, Locked, Stepping
  <2>3. at'[a] = place
    BY <1>0, <2>1 DEF StoreInv, StartTypes
  <2>4. TxnInv(a)'
    BY <1>f, <2>1, <2>2, <2>3 DEF TxnInv, StorePath
  <2>5. AgentInv(a)'
    BY <1>0, <2>1, <2>2, <2>3, <2>4 DEF AgentInv, Locked, Stepping, Usable, StorePath
  <2> QED BY <1>0, <2>1, <2>5, PlaceKeeps DEF StoreInv, StartTypes, Places
<1> QED BY <1>1, <1>2

\* A step inside the transaction: only the transaction and the place change.
LEMMA InsideKeeps ==
  ASSUME StoreInv, NEW a \in Agents, NEW p \in Places, NEW t \in Txns,
         at' = [at EXCEPT ![a] = p], txn' = [txn EXCEPT ![a] = t],
         UNCHANGED <<hosts, watching, file, wal, writer, step, cause>>,
         AgentInv(a)'
  PROVE  StoreInv'
<1>1. StartTypes'
  BY DEF StoreInv, StartTypes
<1>2. Alone(a)
  BY DEF Alone, StoreInv, StartTypes
<1> QED BY <1>1, <1>2, OneMoved

\* The step's statements, which never find what they add, and the bump.
LEMMA ApplyingKeeps ==
  ASSUME StoreInv, NEW a \in hosts, UNCHANGED <<hosts, watching>>,
         ApplyStep(a) \/ BumpVersion(a)
  PROVE  StoreInv'
<1>0. a \in Agents /\ AgentInv(a)
  BY DEF StoreInv, StartTypes
<1> DEFINE s == StorePath(a)
           n == step[a]
<1>f. /\ s \in Stores /\ n \in Nat /\ SchemaOf[a] \in Nat /\ file[s] \in Whole
      /\ file[s].version \in Nat /\ file[s] = At(file[s].version)
  BY <1>0, AgentFacts, WholeStore
<1>1. CASE ApplyStep(a)
  <2>1. at[a] = "apply" /\ UNCHANGED <<file, wal>>
    BY <1>1 DEF ApplyStep
  <2>2. /\ txn[a] = file[s] /\ file[s].version = n - 1
        /\ n \in 1 .. SchemaOf[a] /\ writer[s] = a
    BY <1>0, <2>1 DEF AgentInv, TxnInv, Locked, Stepping
  <2>3. n - 1 \in Nat /\ txn[a] = At(n - 1)
    BY <1>f, <2>2
  <2>4. ToSet(txn[a].steps) = 1 .. n - 1
    BY <2>3, WholeType
  <2>5. Append(txn[a].steps, n) = At(n).steps
    <3>1. (n - 1) + 1 = n
      BY <1>f
    <3> QED BY <2>3, <3>1, NextStep
  <2>6. CASE /\ txn' = [txn EXCEPT ![a].steps = Append(@, n)]
             /\ at' = [at EXCEPT ![a] = "bump"]
             /\ UNCHANGED <<writer, step, cause, faults>>
    <3> DEFINE t == [version |-> n - 1, steps |-> At(n).steps]
    <3>1. txn[a] \in Txns /\ txn[a].version = n - 1
      BY <1>0, <2>2 DEF StoreInv, StartTypes
    <3>2. [txn[a] EXCEPT !.steps = At(n).steps] = t
      BY <3>1 DEF Txns
    <3>3. txn' = [txn EXCEPT ![a] = t]
      BY <2>5, <2>6, <3>2
    <3>4. At(n) \in Txns
      BY <1>f, WholeType DEF Txns
    <3>5. t \in Txns
      BY <2>3, <3>4 DEF Txns
    <3>6. at'[a] = "bump" /\ txn'[a] = t
      BY <1>0, <2>6, <3>3 DEF StoreInv, StartTypes
    <3>7. TxnInv(a)'
      BY <2>1, <2>2, <2>6, <3>6 DEF TxnInv, StorePath
    <3>8. AgentInv(a)'
      BY <1>0, <2>1, <2>2, <2>6, <3>6, <3>7 DEF AgentInv, Locked, Stepping, Usable, StorePath
    <3>9. "bump" \in Places
      BY DEF Places
    <3> QED BY <1>0, <2>1, <2>6, <3>3, <3>5, <3>8, <3>9, InsideKeeps
  <2>7. CASE Rollback(a) /\ FailedToOpen(a, "fault")
    BY <2>1, <2>7, FailureKeeps
  <2>8. n \notin ToSet(txn[a].steps) /\ 1 .. n - 1 \subseteq ToSet(txn[a].steps)
    BY <1>f, <2>4
  <2> QED BY <1>1, <2>6, <2>7, <2>8 DEF ApplyStep
<1>2. CASE BumpVersion(a)
  <2>1. /\ at[a] = "bump" /\ txn' = [txn EXCEPT ![a].version = n]
        /\ at' = [at EXCEPT ![a] = "commit"]
        /\ UNCHANGED <<file, wal, writer, step, cause>>
    BY <1>2 DEF BumpVersion
  <2>2. /\ txn[a] = [version |-> n - 1, steps |-> At(n).steps] /\ file[s].version = n - 1
        /\ n \in 1 .. SchemaOf[a] /\ writer[s] = a
    BY <1>0, <2>1 DEF AgentInv, TxnInv, Locked, Stepping
  <2>3. [txn[a] EXCEPT !.version = n] = At(n)
    <3>1. At(n) = [version |-> n, steps |-> At(n).steps]
      BY DEF At
    <3>2. [txn[a] EXCEPT !.version = n] = [version |-> n, steps |-> At(n).steps]
      BY <2>2
    <3> QED BY <3>1, <3>2
  <2>4. txn' = [txn EXCEPT ![a] = At(n)]
    BY <2>1, <2>3
  <2>5. At(n) \in Txns
    BY <1>f, WholeType
  <2>6. at'[a] = "commit" /\ txn'[a] = At(n)
    BY <1>0, <2>1, <2>4 DEF StoreInv, StartTypes
  <2>7. TxnInv(a)'
    BY <2>1, <2>2, <2>6 DEF TxnInv, StorePath
  <2>8. AgentInv(a)'
    BY <1>0, <2>1, <2>2, <2>6, <2>7 DEF AgentInv, Locked, Stepping, Usable, StorePath
  <2>9. "commit" \in Places
    BY DEF Places
  <2> QED BY <1>0, <2>1, <2>4, <2>5, <2>8, <2>9, InsideKeeps
<1> QED BY <1>1, <1>2

\* COMMIT, or a commit that fails.
LEMMA CommitKeeps ==
  ASSUME StoreInv, NEW a \in hosts, UNCHANGED <<hosts, watching>>, Commit(a)
  PROVE  StoreInv'
<1>0. a \in Agents /\ AgentInv(a)
  BY DEF StoreInv, StartTypes
<1> DEFINE s == StorePath(a)
           n == step[a]
           new == txn[a]
<1>f. /\ s \in Stores /\ n \in Nat /\ SchemaOf[a] \in Nat /\ SchemaOf[a] <= Newest /\ Newest \in Nat
      /\ file[s] \in Whole /\ file[s].version \in Nat /\ a # NoOne
  BY <1>0, AgentFacts
<1>1. at[a] = "commit"
  BY DEF Commit
<1>2. /\ n \in 1 .. SchemaOf[a] /\ writer[s] = a
      /\ \/ new = file[s] /\ file[s].version >= n
         \/ new = At(n) /\ file[s].version = n - 1
  BY <1>0, <1>1 DEF AgentInv, TxnInv, Locked, Stepping
<1>3. /\ new \in Whole /\ new.version \in Nat /\ new.version >= n /\ new.version >= file[s].version
      /\ new # file[s] => new \in Logged
  <2>1. n \in 1 .. Newest /\ n \in 0 .. Newest
    BY <1>f, <1>2
  <2>2. At(n) \in Whole /\ At(n) \in Logged /\ At(n).version = n
    BY <1>f, <2>1, WholeType DEF Whole, Logged
  <2> QED BY <1>f, <1>2, <2>2
<1>4. CASE /\ file' = [file EXCEPT ![s] = new]
           /\ wal' = [wal EXCEPT ![s] = IF new = file[s] THEN @ ELSE Append(@, new)]
           /\ writer' = [writer EXCEPT ![s] = NoOne]
           /\ step' = [step EXCEPT ![a] = IF @ < SchemaOf[a] THEN @ + 1 ELSE 0]
           /\ txn' = [txn EXCEPT ![a] = At(0)]
           /\ at' = [at EXCEPT ![a] = IF n < SchemaOf[a] THEN "begin" ELSE "opened"]
           /\ UNCHANGED <<cause, faults>>
  <2> DEFINE place == IF n < SchemaOf[a] THEN "begin" ELSE "opened"
             next == IF n < SchemaOf[a] THEN n + 1 ELSE 0
             log == IF new = file[s] THEN wal[s] ELSE Append(wal[s], new)
  <2>1. At(0) \in Txns /\ next \in Nat /\ place \in Places /\ place \notin Locked
    BY <1>f, WholeType DEF Places, Locked
  <2>2. log \in Logs
    BY <1>f, <1>3 DEF StoreInv, StartTypes, Logs
  <2>3. wal' = [wal EXCEPT ![s] = log]
    BY <1>4
  <2>4. step' = [step EXCEPT ![a] = next] /\ at' = [at EXCEPT ![a] = place]
    BY <1>4
  <2>5. wal' \in [Stores -> Logs]
    BY <1>f, <2>2, <2>3 DEF StoreInv, StartTypes
  <2>6. file' \in [Stores -> Whole] /\ writer' \in [Stores -> hosts \cup {NoOne}]
    BY <1>f, <1>3, <1>4 DEF StoreInv, StartTypes
  <2>7. step' \in [Agents -> Nat] /\ at' \in [Agents -> Places] /\ txn' \in [Agents -> Txns]
    BY <1>0, <1>4, <2>1, <2>4 DEF StoreInv, StartTypes
  <2>8. StartTypes'
    BY <1>4, <2>5, <2>6, <2>7 DEF StoreInv, StartTypes
  <2>9. /\ at'[a] = place /\ step'[a] = next /\ file'[s] = new /\ writer'[s] = NoOne
        /\ a \in hosts'
    BY <1>0, <1>f, <1>4, <2>4 DEF StoreInv, StartTypes
  <2>10. AgentInv(a)'
    BY <1>f, <1>2, <1>3, <2>1, <2>9 DEF AgentInv, TxnInv, Locked, Stepping, Usable, StorePath
  <2>11. Alone(a)
    BY <1>0, <1>f, <1>2, <1>3, <1>4, <2>4 DEF Alone, StoreInv, StartTypes
  <2> QED BY <1>0, <2>8, <2>10, <2>11, OneMoved
<1>5. CASE Rollback(a) /\ FailedToOpen(a, "fault") /\ UNCHANGED <<file, wal>>
  BY <1>5, FailureKeeps
<1> QED BY <1>4, <1>5 DEF Commit

\* Whatever a start does to its store, the store and the other starts are well.
LEMMA MigrateKeeps ==
  ASSUME StoreInv, NEW a \in hosts, UNCHANGED <<hosts, watching>>, MigrateStep(a)
  PROVE  StoreInv'
BY OpeningKeeps, LockingKeeps, ApplyingKeeps, CommitKeeps DEF MigrateStep

\* A checkpoint.
LEMMA CheckpointKeeps ==
  ASSUME StoreInv, NEW s \in Stores, UNCHANGED <<hosts, watching>>, Checkpoint(s)
  PROVE  StoreInv'
<1>1. <<>> \in Logs
  BY DEF Logs
<1>2. StartTypes'
  BY <1>1 DEF Checkpoint, StoreInv, StartTypes
<1>3. \A a \in Agents : AgentInv(a)'
  BY DEF Checkpoint, StoreInv, AgentInv, TxnInv, StorePath
<1> QED BY <1>2, <1>3 DEF StoreInv

-----------------------------------------------------------------------------
(* The service and the other processes around the store.                   *)

\* A process ends, in its transaction or out of it.
LEMMA EndKeeps ==
  ASSUME StoreInv, NEW a \in Agents, UNCHANGED <<file, wal, hosts>>,
         ProcessGone(a), watching' \subseteq watching,
         \/ Rollback(a)
         \/ UNCHANGED <<step, txn, writer>> /\ at[a] \notin Locked
  PROVE  StoreInv'
<1>0. AgentInv(a)
  BY DEF StoreInv
<1>1. At(0) \in Txns
  BY WholeType
<1>2. /\ at' = [at EXCEPT ![a] = "down"]
      /\ cause' = [cause EXCEPT ![a] = "none"]
  BY DEF ProcessGone, Goes
<1>3. StartTypes'
  <2>1. at' \in [Agents -> Places] /\ cause' \in [Agents -> {"none", "fault", "newer", "busy"}]
    BY <1>2 DEF StoreInv, StartTypes, Places
  <2>2. step' \in [Agents -> Nat] /\ txn' \in [Agents -> Txns]
    BY <1>1 DEF StoreInv, StartTypes, Rollback
  <2>3. writer' \in [Stores -> hosts \cup {NoOne}]
    BY DEF StoreInv, StartTypes, Rollback
  <2> QED BY <2>1, <2>2, <2>3 DEF StoreInv, StartTypes
<1>4. writer'[StorePath(a)] # a /\ at'[a] = "down"
  BY <1>0, <1>2, AgentFacts DEF Rollback, StoreInv, StartTypes, AgentInv
<1>5. AgentInv(a)'
  BY <1>4 DEF AgentInv, TxnInv, Locked, Stepping, Usable, StorePath
<1>6. Alone(a)
  BY <1>0, <1>2, AgentFacts DEF Alone, Rollback, StoreInv, StartTypes
<1> QED BY <1>3, <1>5, <1>6, OneMoved

\* A process goes from a place outside its transaction to another.
LEMMA GoingKeeps ==
  ASSUME StoreInv, NEW a \in hosts, NEW p \in Places \ Stepping, Goes(a, p),
         at[a] \notin Locked, at[a] \in Usable \/ p \notin Usable,
         UNCHANGED <<file, wal, writer, step, txn, cause, hosts>>,
         watching' \subseteq watching \cup {a}
  PROVE  StoreInv'
<1>0. a \in Agents /\ AgentInv(a)
  BY DEF StoreInv, StartTypes
<1>1. at'[a] = p /\ \A b \in Agents \ {a} : at'[b] = at[b]
  BY <1>0 DEF Goes, StoreInv, StartTypes
<1>2. AgentInv(a)'
  BY <1>0, <1>1 DEF AgentInv, TxnInv, Locked, Stepping, Usable, StorePath
<1> QED BY <1>0, <1>1, <1>2, PlaceKeeps DEF Goes, StoreInv, StartTypes

\* A step beside the stores and the starts.
LEMMA BesideKeeps ==
  ASSUME StoreInv, UNCHANGED <<file, wal, writer, at, step, txn, cause, hosts>>,
         watching' \subseteq hosts
  PROVE  StoreInv'
<1>1. StartTypes'
  BY DEF StoreInv, StartTypes
<1>2. \A a \in Agents : AgentInv(a)'
  BY DEF StoreInv, AgentInv, TxnInv, StorePath
<1> QED BY <1>1, <1>2 DEF StoreInv

\* The power goes.
LEMMA PowerCutKeeps ==
  ASSUME StoreInv, PowerCut
  PROVE  StoreInv'
<1>1. /\ at' = [a \in Agents |-> "down"] /\ txn' = [a \in Agents |-> At(0)]
      /\ step' = [a \in Agents |-> 0] /\ cause' = [a \in Agents |-> "none"]
      /\ wal' = [s \in Stores |-> <<>>] /\ writer' = [s \in Stores |-> NoOne]
      /\ watching' = {} /\ UNCHANGED hosts
      /\ file' \in [Stores -> UNION {AfterPowerCut(s) : s \in Stores}]
  BY DEF PowerCut
<1>2. UNION {AfterPowerCut(s) : s \in Stores} \subseteq Whole
  BY CutIsWhole DEF StoreInv
<1>3. file' \in [Stores -> Whole]
  BY <1>1, <1>2
<1>4. At(0) \in Txns /\ <<>> \in Logs /\ "down" \in Places
  BY WholeType DEF Logs, Places
<1>5. StartTypes'
  BY <1>1, <1>3, <1>4 DEF StoreInv, StartTypes
<1>6. ASSUME NEW a \in Agents PROVE AgentInv(a)'
  <2>1. at'[a] = "down" /\ writer'[StorePath(a)] = NoOne /\ a # NoOne
    BY <1>1, AgentFacts
  <2> QED BY <2>1 DEF AgentInv, TxnInv, Locked, Stepping, Usable, StorePath
<1> QED BY <1>5, <1>6 DEF StoreInv

\* No step of the service, of a console run or of the machine breaks a store or
\* a start.
LEMMA StoreStep ==
  ASSUME StoreInv, RegInv, ServiceNext
  PROVE  StoreInv'
<1>0. Service \in Agents /\ hosts \subseteq Agents /\ watching \subseteq hosts
  BY MigrationAssumption DEF StoreInv, StartTypes
<1>1. ASSUME NEW home \in Homes, Install(home) PROVE StoreInv'
  BY <1>0, <1>1, BesideKeeps DEF Install
<1>2. CASE Uninstall
  BY <1>0, <1>2, BesideKeeps DEF Uninstall
<1>3. CASE StartService
  <2>1. Service \in hosts /\ at[Service] = "down" /\ Goes(Service, "tracing")
    BY <1>3 DEF StartService
  <2> QED BY <1>0, <1>3, <2>1, GoingKeeps DEF StartService, Locked, Usable, Stepping, Places
<1>4. CASE Recover
  <2>1. CASE Goes(Service, "tracing") /\ reg.present
    <3>1. Service \in hosts
      BY <2>1 DEF RegInv
    <3>2. at[Service] = "down"
      BY <1>4 DEF Recover
    <3> QED BY <1>0, <1>4, <2>1, <3>1, <3>2, GoingKeeps
            DEF Recover, Locked, Usable, Stepping, Places
  <2>2. CASE UNCHANGED at
    BY <1>0, <1>4, <2>2, BesideKeeps DEF Recover
  <2> QED BY <1>4, <2>1, <2>2 DEF Recover
<1>5. CASE ReportRunning
  <2>1. at[Service] = "register" /\ Service \in hosts
    BY <1>0, <1>5 DEF ReportRunning, StoreInv, AgentInv
  <2>2. CASE Goes(Service, "secure") /\ UNCHANGED cause
    BY <1>0, <1>5, <2>1, <2>2, GoingKeeps DEF ReportRunning, Locked, Usable, Stepping, Places
  <2>3. CASE ProcessEnds(Service)
    BY <1>0, <1>5, <2>1, <2>3, EndKeeps DEF ReportRunning, ProcessEnds, Locked
  <2> QED BY <1>5, <2>2, <2>3 DEF ReportRunning
<1>6. CASE SecureStore
  <2>1. at[Service] = "secure" /\ Service \in hosts
    BY <1>0, <1>6 DEF SecureStore, StoreInv, AgentInv
  <2> QED BY <1>0, <1>6, <2>1, GoingKeeps DEF SecureStore, Locked, Usable, Stepping, Places
<1>7. CASE HandleStop
  BY <1>0, <1>7, BesideKeeps DEF HandleStop, storeVars
<1>14. CASE SomebodyConnects
  BY <1>0, <1>14, BesideKeeps DEF SomebodyConnects, storeVars
<1>8. CASE ServeReturns
  <2>1. at[Service] = "serving" /\ Service \in hosts
    BY <1>0, <1>8 DEF ServeReturns, StoreInv, AgentInv
  <2> QED BY <1>0, <1>8, <2>1, GoingKeeps
          DEF ServeReturns, serviceVars, Locked, Usable, Stepping, Places
<1>9. CASE WatcherEnds
  BY <1>0, <1>9, BesideKeeps DEF WatcherEnds, storeVars
<1>10. CASE ReportStopped
  <2>1. at[Service] \notin Locked /\ ProcessGone(Service)
    BY <1>10 DEF ReportStopped, ProcessEnds, Locked
  <2> QED BY <1>0, <1>10, <2>1, EndKeeps DEF ReportStopped
<1>11. ASSUME NEW a \in hosts,
              StartConsole(a) \/ InitTracing(a) \/ OpenQuarantine(a) \/ Crash(a)
       PROVE  StoreInv'
  <2>0. a \in Agents
    BY <1>0
  <2>1. CASE StartConsole(a)
    BY <1>0, <2>0, <2>1, GoingKeeps DEF StartConsole, serviceVars, Locked, Usable, Stepping, Places
  <2>2. CASE InitTracing(a)
    <3>1. at[a] = "tracing"
      BY <2>2 DEF InitTracing
    <3>2. CASE Goes(a, IF a = Service THEN "register" ELSE "open") /\ UNCHANGED cause
      BY <1>0, <2>0, <2>2, <3>1, <3>2, GoingKeeps
         DEF InitTracing, Locked, Usable, Stepping, Places
    <3>3. CASE ProcessEnds(a)
      BY <1>0, <2>0, <2>2, <3>1, <3>3, EndKeeps DEF InitTracing, ProcessEnds, Locked
    <3> QED BY <2>2, <3>2, <3>3 DEF InitTracing
  <2>3. CASE OpenQuarantine(a)
    <3>1. at[a] = "opened"
      BY <2>3 DEF OpenQuarantine
    <3>2. CASE Goes(a, "serving") /\ UNCHANGED cause /\ watching' \subseteq watching \cup {a}
      BY <1>0, <2>0, <2>3, <3>1, <3>2, GoingKeeps
         DEF OpenQuarantine, Locked, Usable, Stepping, Places
    <3>3. CASE FailedToOpen(a, "fault") /\ UNCHANGED watching
      BY <2>3, <3>1, <3>3, FailureKeeps DEF OpenQuarantine, Locked
    <3> QED BY <2>3, <3>2, <3>3 DEF OpenQuarantine
  <2>4. CASE Crash(a)
    BY <2>0, <2>4, EndKeeps DEF Crash, ProcessEnds
  <2> QED BY <1>11, <2>1, <2>2, <2>3, <2>4
<1>12. ASSUME NEW a \in hosts, OpenStore(a) PROVE StoreInv'
  BY <1>12, MigrateKeeps DEF OpenStore, serviceVars
<1>13. ASSUME NEW s \in Stores, Checkpoint(s), UNCHANGED serviceVars PROVE StoreInv'
  BY <1>13, CheckpointKeeps DEF serviceVars
<1> QED BY <1>1, <1>2, <1>3, <1>4, <1>5, <1>6, <1>7, <1>8, <1>9, <1>10, <1>11, <1>12, <1>13,
           <1>14, PowerCutKeeps DEF ServiceNext

-----------------------------------------------------------------------------
(* What is said of the service.                                            *)

\* Of some places in a list there is a first.
LEMMA FirstPlace ==
  ASSUME NEW S \in SUBSET Nat, S # {}
  PROVE  (CHOOSE i \in S : \A j \in S : i <= j) \in S
<1> DEFINE R == OpToRel(<, Nat)
<1>1. \A x, y \in Nat : x < y => <<x, y>> \in R
  BY DEF OpToRel
<1>2. IsWellFoundedOn(R, Nat)
  BY NatLessThanWellFounded, Zenon
<1> HIDE DEF R
<1>3. PICK x \in S : \A y \in S : ~(<<y, x>> \in R)
  BY <1>2, WFMin
<1>4. ASSUME NEW y \in S PROVE x <= y
  <2>1. x \in Nat /\ y \in Nat /\ ~(y < x)
    BY <1>1, <1>3
  <2> QED BY <2>1
<1>5. \E i \in S : \A j \in S : i <= j
  BY <1>4
<1> QED BY <1>5

\* A folder the check lets pass is one an account of no standing can neither
\* put a file in nor open up: it grants nobody unexpected a dangerous right,
\* and belongs to nobody who would have one unasked.
LEMMA CheckedIsClosed ==
  ASSUME NEW home \in AnyFolder, ReadInFull(home), CheckInstallDirectory(home) = "ok"
  PROVE  Closed(home)
<1> DEFINE acl == home.acl
<1>1. /\ acl # NoList /\ Granted(acl) = {}
      /\ OwnerRightsListed(acl) \/ IsExpected(home.owner)
  BY DEF CheckInstallDirectory, WritersOf
<1>2. home.owner = Ordinary => OwnerRightsListed(acl)
  BY <1>1, OrdinaryAssumption DEF IsExpected
<1>3. DOMAIN acl \subseteq Nat
  <2>1. acl \in Seq([type : {"allow", "deny", "other"}, sid : Sids, mask : SUBSET {"read", "write", "write_dac"}])
    BY <1>1 DEF AnyFolder
  <2> QED BY <2>1
<1> SUFFICES ASSUME NEW right \in {"write", "write_dac"}, MayUse(Ordinary, right, home)
             PROVE  FALSE
  BY DEF Closed
<1> DEFINE about == {i \in DOMAIN acl : acl[i].sid \in Memberships(Ordinary, home)
                                        /\ right \in acl[i].mask}
           first == CHOOSE i \in about : \A j \in about : i <= j
<1>4. about # {} /\ acl[first].type # "deny"
  BY <1>1, <1>2 DEF MayUse
<1>5. about \subseteq Nat
  BY <1>3
<1>6. first \in about
  <2>1. about \in SUBSET Nat /\ about # {}
    BY <1>4, <1>5
  <2> HIDE DEF about
  <2> QED BY <2>1, FirstPlace, Zenon
<1>7. acl[first].sid \in {Ordinary, "Users", "OWNER RIGHTS"}
  <2>1. acl[first].sid \in Memberships(Ordinary, home)
    BY <1>6
  <2> HIDE DEF first
  <2> QED BY <2>1 DEF Memberships
<1>8. ~IsExpected(acl[first].sid)
  BY <1>7, OrdinaryAssumption DEF IsExpected
<1>9. acl[first].mask \cap Dangerous # {}
  BY <1>6 DEF Dangerous
<1>10. first \in Interpreted(acl) /\ acl[first].type = "allow"
  <2>1. first \in DOMAIN acl
    BY <1>6
  <2>2. first \in Interpreted(acl)
    BY <1>1, <2>1 DEF ReadInFull
  <2> QED BY <1>4, <2>2 DEF Interpreted
<1>11. acl[first].sid \in Granted(acl)
  BY <1>8, <1>9, <1>10 DEF Granted
<1> QED BY <1>1, <1>11

\* Stopped is told of a service whose process is gone, and takes a registration
\* that was waiting for it.
LEMMA StoppedSaid ==
  ASSUME ServiceInv, ScmStopped, UNCHANGED <<told, hosts>>
  PROVE  /\ RegInv'
         /\ reg' \in [present : BOOLEAN, deleting : BOOLEAN, recovery : BOOLEAN,
                      home : Homes \cup {NoList}]
         /\ scm' = "stopped"
<1>1. NotRegistered \in [present : BOOLEAN, deleting : BOOLEAN, recovery : BOOLEAN,
                         home : Homes \cup {NoList}]
  BY DEF NotRegistered
<1>2. ~NotRegistered.present /\ ~NotRegistered.deleting
  BY DEF NotRegistered
<1>3. CASE reg.deleting
  BY <1>1, <1>2, <1>3 DEF ServiceInv, RegInv, InstalledAsSaid, ScmStopped
<1>4. CASE ~reg.deleting
  <2>1. reg' = reg /\ told' = told /\ hosts' = hosts /\ scm' = "stopped"
    BY <1>4 DEF ScmStopped
  <2>2. (ReadInFull(reg'.home) => Closed(reg'.home)) <=> (ReadInFull(reg.home) => Closed(reg.home))
    BY <2>1
  <2> QED BY <2>1, <2>2 DEF ServiceInv, SaidTypes, RegInv, InstalledAsSaid
<1> QED BY <1>3, <1>4

\* A step of the migration keeps a process between opening and opened, or ends
\* its start.
LEMMA MigrateMoves ==
  ASSUME NEW a, MigrateStep(a)
  PROVE  /\ at[a] \in {"open", "read"} \cup Stepping
         /\ \E p \in {"read", "opened", "failed"} \cup Stepping : at' = [at EXCEPT ![a] = p]
<1>1. CASE OpenConnection(a)
  BY <1>1 DEF OpenConnection, FailedToOpen, Stepping
<1>2. CASE ReadVersion(a)
  BY <1>2 DEF ReadVersion, FailedToOpen, Stepping
<1>3. CASE BeginImmediate(a)
  BY <1>3 DEF BeginImmediate, FailedToOpen, Stepping
<1>4. CASE ReadAgain(a)
  BY <1>4 DEF ReadAgain, Stepping
<1>5. CASE ApplyStep(a)
  BY <1>5 DEF ApplyStep, FailedToOpen, Stepping
<1>6. CASE BumpVersion(a)
  BY <1>6 DEF BumpVersion, Stepping
<1>7. CASE Commit(a)
  BY <1>7 DEF Commit, FailedToOpen, Stepping
<1> QED BY <1>1, <1>2, <1>3, <1>4, <1>5, <1>6, <1>7 DEF MigrateStep

\* Nothing is said and the registration stays.
LEMMA NothingSaid ==
  ASSUME ServiceInv, UNCHANGED <<reg, told, hosts>>
  PROVE  /\ RegInv'
         /\ reg' \in [present : BOOLEAN, deleting : BOOLEAN, recovery : BOOLEAN,
                      home : Homes \cup {NoList}]
         /\ told' \in {"nothing", "error", "warned", "installed", "uninstalled"}
<1>1. (ReadInFull(reg'.home) => Closed(reg'.home)) <=> (ReadInFull(reg.home) => Closed(reg.home))
  OBVIOUS
<1> QED BY <1>1 DEF ServiceInv, SaidTypes, RegInv, InstalledAsSaid

\* An install registers only what the check let pass.
LEMMA InstallSaid ==
  ASSUME ServiceInv, NEW home \in Homes, Install(home)
  PROVE  RegInv' /\ SaidTypes'
<1>1. CASE CheckInstallDirectory(home) = "refused"
  <2>1. told' = "error" /\ UNCHANGED <<reg, scm, secured, hosts>>
    BY <1>1 DEF Install
  <2>2. (ReadInFull(reg'.home) => Closed(reg'.home)) <=> (ReadInFull(reg.home) => Closed(reg.home))
    BY <2>1
  <2> QED BY <2>1, <2>2 DEF ServiceInv, SaidTypes, RegInv, InstalledAsSaid
<1>2. CASE CheckInstallDirectory(home) = "ok"
  <2>1. ReadInFull(home) => Closed(home)
    BY <1>2, ServiceAssumption, CheckedIsClosed
  <2>2. UNCHANGED <<scm, secured, hosts>> /\ Service \in hosts
    BY DEF Install
  <2>3. CASE told' = "error" /\ UNCHANGED reg
    <3>1. (ReadInFull(reg'.home) => Closed(reg'.home)) <=> (ReadInFull(reg.home) => Closed(reg.home))
      BY <2>3
    <3> QED BY <2>2, <2>3, <3>1 DEF ServiceInv, SaidTypes, RegInv, InstalledAsSaid
  <2>4. CASE /\ ~reg.deleting /\ told' \in {"error", "warned"}
             /\ reg' = [reg EXCEPT !.present = TRUE, !.home = home]
    <3>1. reg'.home = home /\ reg'.present /\ ~reg'.deleting
      BY <2>4 DEF ServiceInv, SaidTypes
    <3>2. ReadInFull(reg'.home) => Closed(reg'.home)
      BY <2>1, <3>1
    <3>3. SaidTypes'
      BY <2>2, <2>4 DEF ServiceInv, SaidTypes
    <3> QED BY <2>2, <2>4, <3>1, <3>2, <3>3 DEF RegInv, InstalledAsSaid
  <2>5. CASE /\ ~reg.deleting /\ told' = "installed"
             /\ reg' = [reg EXCEPT !.present = TRUE, !.home = home, !.recovery = TRUE]
    <3>1. reg'.home = home /\ reg'.present /\ ~reg'.deleting /\ reg'.recovery
      BY <2>5 DEF ServiceInv, SaidTypes
    <3>2. ReadInFull(reg'.home) => Closed(reg'.home)
      BY <2>1, <3>1
    <3>3. SaidTypes'
      BY <2>2, <2>5 DEF ServiceInv, SaidTypes
    <3> QED BY <2>2, <2>5, <3>1, <3>2, <3>3 DEF RegInv, InstalledAsSaid
  <2> QED BY <1>2, <2>3, <2>4, <2>5 DEF Install
<1> QED BY <1>1, <1>2 DEF Install

\* What was asked to be removed is not said to be installed.
LEMMA UninstallSaid ==
  ASSUME ServiceInv, Uninstall
  PROVE  RegInv' /\ SaidTypes'
<1>0. UNCHANGED <<scm, secured, hosts>> /\ reg.present
  BY DEF Uninstall
<1>1. CASE told' = "error" /\ UNCHANGED reg
  <2>1. (ReadInFull(reg'.home) => Closed(reg'.home)) <=> (ReadInFull(reg.home) => Closed(reg.home))
    BY <1>1
  <2> QED BY <1>0, <1>1, <2>1 DEF ServiceInv, SaidTypes, RegInv, InstalledAsSaid
<1>2. CASE told' = "uninstalled" /\ reg' = [reg EXCEPT !.deleting = TRUE]
  <2>1. reg'.home = reg.home /\ reg'.present = reg.present /\ reg'.deleting
    BY <1>2 DEF ServiceInv, SaidTypes
  <2>2. (ReadInFull(reg'.home) => Closed(reg'.home)) <=> (ReadInFull(reg.home) => Closed(reg.home))
    BY <2>1
  <2>3. SaidTypes'
    BY <1>0, <1>2 DEF ServiceInv, SaidTypes
  <2> QED BY <1>0, <1>2, <2>1, <2>2, <2>3 DEF ServiceInv, RegInv, InstalledAsSaid
<1>3. CASE told' = "uninstalled" /\ reg' = NotRegistered
  <2>1. ~reg'.present /\ ~reg'.deleting
    BY <1>3 DEF NotRegistered
  <2>2. SaidTypes'
    BY <1>0, <1>3 DEF ServiceInv, SaidTypes, NotRegistered
  <2> QED BY <1>3, <2>1, <2>2 DEF RegInv, InstalledAsSaid
<1> QED BY <1>1, <1>2, <1>3 DEF Uninstall

\* What is said stays in its types, and the registration what it is said to be.
LEMMA RegistrationStep ==
  ASSUME ServiceInv, ServiceNext
  PROVE  RegInv' /\ SaidTypes'
<1>1. ASSUME NEW home \in Homes, Install(home) PROVE RegInv' /\ SaidTypes'
  BY <1>1, InstallSaid
<1>2. CASE Uninstall
  BY <1>2, UninstallSaid
<1>3. CASE \/ StartService \/ ReportRunning \/ SecureStore \/ HandleStop \/ SomebodyConnects
            \/ ServeReturns \/ WatcherEnds
  <2>1. UNCHANGED <<reg, told, hosts>>
    BY <1>3 DEF StartService, ReportRunning, SecureStore, HandleStop, SomebodyConnects,
                ServeReturns, WatcherEnds, storeVars,
                serviceVars
  <2>2. scm' \in {scm, "start_pending", "running", "stopped"} /\ secured' \in {secured, "yes", "said", "no"}
    BY <1>3 DEF StartService, ReportRunning, SecureStore, HandleStop, SomebodyConnects,
                ServeReturns, WatcherEnds, storeVars,
                ProcessEnds, ProcessGone, serviceVars
  <2> QED BY <2>1, <2>2, NothingSaid DEF ServiceInv, SaidTypes
<1>4. CASE Recover
  <2>1. CASE ScmStopped /\ UNCHANGED <<told, hosts, secured>>
    BY <2>1, StoppedSaid DEF ServiceInv, SaidTypes
  <2>2. CASE UNCHANGED <<reg, told, hosts, secured>> /\ scm' = "start_pending"
    BY <2>2, NothingSaid DEF ServiceInv, SaidTypes
  <2> QED BY <1>4, <2>1, <2>2 DEF Recover
<1>5. CASE ReportStopped
  <2>0. UNCHANGED <<told, hosts>> /\ secured' \in {secured, "no"}
    BY <1>5 DEF ReportStopped, ProcessEnds, ProcessGone
  <2>1. CASE ScmStopped
    BY <2>0, <2>1, StoppedSaid DEF ServiceInv, SaidTypes
  <2>2. CASE UNCHANGED reg /\ scm' = "stopped"
    BY <2>0, <2>2, NothingSaid DEF ServiceInv, SaidTypes
  <2> QED BY <1>5, <2>1, <2>2 DEF ReportStopped, ProcessEnds
<1>6. CASE PowerCut
  <2>1. ScmStopped /\ UNCHANGED <<told, hosts>> /\ secured' = "no"
    BY <1>6 DEF PowerCut
  <2> QED BY <2>1, StoppedSaid DEF ServiceInv, SaidTypes
<1>7. ASSUME NEW a \in hosts,
             StartConsole(a) \/ InitTracing(a) \/ OpenStore(a) \/ OpenQuarantine(a) \/ Crash(a)
      PROVE  RegInv' /\ SaidTypes'
  <2>1. UNCHANGED <<reg, told, hosts>>
    BY <1>7 DEF StartConsole, InitTracing, OpenStore, OpenQuarantine, Crash, serviceVars
  <2>2. scm' \in {scm, "stopped"} /\ secured' \in {secured, "no"}
    BY <1>7 DEF StartConsole, InitTracing, OpenStore, OpenQuarantine, Crash, serviceVars,
                ProcessEnds, ProcessGone
  <2> QED BY <2>1, <2>2, NothingSaid DEF ServiceInv, SaidTypes
<1>8. ASSUME NEW s \in Stores, UNCHANGED serviceVars PROVE RegInv' /\ SaidTypes'
  BY <1>8, NothingSaid DEF ServiceInv, SaidTypes, serviceVars
<1> QED BY <1>1, <1>2, <1>3, <1>4, <1>5, <1>6, <1>7, <1>8 DEF ServiceNext

\* How far the service has come past its directory.
Past == {"open", "read", "begin", "again", "apply", "bump", "commit", "opened", "serving", "joining"}

\* The service is at a place, and nothing that follows from where it is changes.
LEMMA SamePlace ==
  ASSUME ServiceInv, at'[Service] = at[Service], secured' = secured,
         scm' = scm \/ scm' # "stopped", watching' \subseteq watching \cup (Agents \ {Service})
  PROVE  ClosedBeforeOpened' /\ ScmInv'
BY DEF ServiceInv, ClosedBeforeOpened, ScmInv

\* The service is where nothing is open yet, or its process is gone.
LEMMA Outside ==
  ASSUME at'[Service] \notin Past, Service \notin watching', scm' = "stopped" => at'[Service] = "down"
  PROVE  ClosedBeforeOpened' /\ ScmInv'
BY DEF ClosedBeforeOpened, ScmInv, Past

\* The service comes to the store only past its directory, and Stopped is said
\* only of a process that is gone, and whose watcher is.
LEMMA StandingStep ==
  ASSUME StoreInv, ServiceInv, ServiceNext
  PROVE  ClosedBeforeOpened' /\ ScmInv'
<1>0. /\ Service \in Agents /\ hosts \subseteq Agents /\ watching \subseteq hosts
      /\ DOMAIN at = Agents
  BY MigrationAssumption DEF StoreInv, StartTypes
<1>1. ASSUME NEW home \in Homes, Install(home) PROVE ClosedBeforeOpened' /\ ScmInv'
  BY <1>1, SamePlace DEF Install
<1>2. CASE Uninstall
  BY <1>2, SamePlace DEF Uninstall
<1>3. CASE HandleStop
  BY <1>3, SamePlace DEF HandleStop, storeVars
<1>19. CASE SomebodyConnects
  BY <1>19, SamePlace DEF SomebodyConnects, storeVars
<1>4. CASE WatcherEnds
  BY <1>4, SamePlace DEF WatcherEnds, storeVars
<1>5. CASE StartService
  <2>1. at[Service] = "down" /\ at'[Service] = "tracing" /\ scm' # "stopped" /\ UNCHANGED watching
    BY <1>0, <1>5 DEF StartService, Goes
  <2> QED BY <2>1, Outside DEF ServiceInv, ScmInv, Past
<1>6. CASE Recover
  <2>1. at[Service] = "down" /\ UNCHANGED watching /\ at'[Service] \in {"tracing", "down"}
        /\ (scm' = "stopped" => at'[Service] = "down")
    BY <1>0, <1>6 DEF Recover, Goes, ScmStopped
  <2> QED BY <2>1, Outside DEF ServiceInv, ScmInv, Past
<1>7. CASE ReportRunning
  <2>1. at[Service] = "register" /\ UNCHANGED watching /\ at'[Service] \in {"secure", "down"}
        /\ (scm' = "stopped" => at'[Service] = "down")
    BY <1>0, <1>7 DEF ReportRunning, Goes, ProcessEnds, ProcessGone
  <2> QED BY <2>1, Outside DEF ServiceInv, ScmInv, Past
<1>8. CASE SecureStore
  <2>1. at[Service] = "secure" /\ at'[Service] = "open" /\ secured' # "no" /\ UNCHANGED <<scm, watching>>
    BY <1>0, <1>8 DEF SecureStore, Goes
  <2> QED BY <2>1 DEF ServiceInv, ScmInv, ClosedBeforeOpened
<1>9. CASE ServeReturns
  <2>1. at[Service] = "serving" /\ at'[Service] = "joining" /\ UNCHANGED <<scm, watching, secured>>
    BY <1>0, <1>9 DEF ServeReturns, Goes, serviceVars
  <2> QED BY <2>1 DEF ServiceInv, ScmInv, ClosedBeforeOpened
<1>10. CASE ReportStopped
  <2>1. at'[Service] = "down" /\ UNCHANGED watching
    BY <1>0, <1>10 DEF ReportStopped, ProcessEnds, ProcessGone, Goes
  <2>2. Service \notin watching
    BY <1>10 DEF ReportStopped, ServiceInv, ScmInv
  <2> QED BY <2>1, <2>2, Outside DEF Past
<1>11. CASE PowerCut
  BY <1>0, <1>11, Outside DEF PowerCut, Past
<1>12. ASSUME NEW a \in hosts \ {Service},
              StartConsole(a) \/ InitTracing(a) \/ OpenStore(a) \/ OpenQuarantine(a) \/ Crash(a)
       PROVE  ClosedBeforeOpened' /\ ScmInv'
  <2>0. a \in Agents \ {Service}
    BY <1>0, <1>12
  <2>1. CASE OpenStore(a)
    <3>1. at'[Service] = at[Service]
      BY <1>0, <2>0, <2>1, MigrateMoves DEF OpenStore
    <3> QED BY <2>1, <3>1, SamePlace DEF OpenStore, serviceVars
  <2>2. CASE StartConsole(a) \/ InitTracing(a) \/ OpenQuarantine(a) \/ Crash(a)
    <3>1. at'[Service] = at[Service] /\ UNCHANGED <<secured, scm>>
          /\ watching' \subseteq watching \cup {a}
      BY <1>0, <2>0, <2>2
         DEF StartConsole, InitTracing, OpenQuarantine, Crash, ProcessEnds, ProcessGone, Goes,
             FailedToOpen, serviceVars
    <3> QED BY <2>0, <3>1, SamePlace
  <2> QED BY <1>12, <2>1, <2>2
<1>13. CASE StartConsole(Service)
  BY <1>13 DEF StartConsole
<1>14. CASE InitTracing(Service)
  <2>1. at[Service] = "tracing" /\ UNCHANGED watching /\ at'[Service] \in {"register", "down"}
        /\ (scm' = scm \/ at'[Service] = "down")
    BY <1>0, <1>14 DEF InitTracing, Goes, ProcessEnds, ProcessGone
  <2> QED BY <2>1, Outside DEF ServiceInv, ScmInv, Past
<1>15. CASE OpenStore(Service)
  <2>1. at[Service] \in {"open", "read"} \cup Stepping
        /\ at'[Service] \in {"read", "opened", "failed"} \cup Stepping
    BY <1>0, <1>15, MigrateMoves DEF OpenStore
  <2>2. UNCHANGED <<scm, watching, secured>>
    BY <1>15 DEF OpenStore, serviceVars
  <2> QED BY <2>1, <2>2 DEF ServiceInv, ScmInv, ClosedBeforeOpened, Stepping
<1>16. CASE OpenQuarantine(Service)
  <2>1. at[Service] = "opened" /\ UNCHANGED <<scm, secured>>
    BY <1>16 DEF OpenQuarantine
  <2>2. \/ at'[Service] = "serving"
        \/ at'[Service] = "failed" /\ UNCHANGED watching
    BY <1>0, <1>16 DEF OpenQuarantine, Goes, FailedToOpen
  <2> QED BY <2>1, <2>2 DEF ServiceInv, ScmInv, ClosedBeforeOpened
<1>17. CASE Crash(Service)
  <2>1. at'[Service] = "down" /\ Service \notin watching'
    BY <1>0, <1>17 DEF Crash, ProcessEnds, ProcessGone, Goes
  <2> QED BY <2>1, Outside DEF Past
<1>18. ASSUME NEW s \in Stores, Checkpoint(s), UNCHANGED serviceVars
       PROVE  ClosedBeforeOpened' /\ ScmInv'
  BY <1>18, SamePlace DEF Checkpoint, serviceVars
<1> QED BY <1>1, <1>2, <1>3, <1>4, <1>5, <1>6, <1>7, <1>8, <1>9, <1>10, <1>11, <1>12, <1>13,
           <1>14, <1>15, <1>16, <1>17, <1>18, <1>19 DEF ServiceNext

-----------------------------------------------------------------------------
(* The terminal.                                                           *)

\* What a command makes of its requests, one by one.
LEMMA RequestLists ==
  /\ \A m \in {"audit", "plant"} :
       /\ Head(<<m, "report">>) = m /\ Tail(<<m, "report">>) = <<"report">>
  /\ Head(<<"audit", "plant", "report">>) = "audit"
  /\ Tail(<<"audit", "plant", "report">>) = <<"plant", "report">>
  /\ Head(<<"plant", "audit", "report">>) = "plant"
  /\ Tail(<<"plant", "audit", "report">>) = <<"audit", "report">>
  /\ Head(<<"report">>) = "report"
  OBVIOUS

\* A mode that is not a usage error is a client's.
LEMMA ParsedMode ==
  ASSUME NEW arguments, ParseMode(arguments) # "usage"
  PROVE  ParseMode(arguments) \in ClientModes
<1>1. /\ arguments # {} /\ arguments \subseteq ClientModes
      /\ ParseMode(arguments) = CHOOSE m \in ClientModes : m \in arguments
  BY DEF ParseMode
<1>2. \E m \in ClientModes : m \in arguments
  BY <1>1
<1> QED BY <1>1, <1>2, Zenon

\* A step that leaves the decoys as they are leaves them watched or objected to.
LEMMA SameDecoys ==
  ASSUME TerminalInv, UNCHANGED decoyState
  PROVE  /\ UnwatchedOnlyAfterAnError'
         /\ planted' \subseteq Bait /\ objected' \subseteq Bait /\ auditing' \in BOOLEAN
BY DEF TerminalInv, UnwatchedOnlyAfterAnError, decoyState

\* A command that ends leaves nothing to be done.
LEMMA CommandEnds ==
  ASSUME TerminalInv, mode' = "none", todo' = <<>>, UNCHANGED decoyState
  PROVE  TerminalInv'
BY SameDecoys DEF TerminalInv

\* Recording switched on, or spoken against, before the decoys are planted.
LEMMA AuditOn ==
  ASSUME TerminalInv, mode = "canaries-on", SetCanaryAuditing(mode = "canaries-on")
  PROVE  /\ UnwatchedOnlyAfterAnError'
         /\ planted' \subseteq Bait /\ objected' \subseteq Bait /\ auditing' \in BOOLEAN
         /\ auditing' \/ objected' = Bait
<1>1. planted' = planted /\ armed' = armed
  BY DEF SetCanaryAuditing
<1>2. CASE auditing' = (mode = "canaries-on") /\ UNCHANGED objected
  <2>1. auditing' = TRUE
    BY <1>2, Zenon
  <2>2. auditing' /\ auditing' \in BOOLEAN
    BY <2>1, Zenon
  <2> QED BY <1>1, <1>2, <2>2 DEF TerminalInv, UnwatchedOnlyAfterAnError
<1>3. CASE objected' = (IF mode = "canaries-on" THEN Bait ELSE objected) /\ UNCHANGED auditing
  <2>1. objected' = Bait
    BY <1>3
  <2> QED BY <1>1, <1>3, <2>1 DEF TerminalInv, UnwatchedOnlyAfterAnError
<1> QED BY <1>2, <1>3, Zenon DEF SetCanaryAuditing

\* Recording switched off, or kept, once every decoy left was spoken against.
LEMMA AuditOff ==
  ASSUME TerminalInv, mode = "canaries-off", planted \subseteq objected,
         SetCanaryAuditing(mode = "canaries-on")
  PROVE  /\ UnwatchedOnlyAfterAnError'
         /\ planted' \subseteq Bait /\ objected' \subseteq Bait /\ auditing' \in BOOLEAN
<1>1. planted' = planted /\ armed' = armed
  BY DEF SetCanaryAuditing
<1>2. mode # "canaries-on"
  OBVIOUS
<1>3. CASE auditing' = (mode = "canaries-on") /\ UNCHANGED objected
  <2>1. (mode = "canaries-on") \in BOOLEAN
    OBVIOUS
  <2>2. auditing' \in BOOLEAN
    BY <1>3, <2>1, Zenon
  <2> QED BY <1>1, <1>3, <2>2 DEF TerminalInv, UnwatchedOnlyAfterAnError
<1>4. CASE objected' = (IF mode = "canaries-on" THEN Bait ELSE objected) /\ UNCHANGED auditing
  <2>1. objected' = objected
    BY <1>2, <1>4
  <2> QED BY <1>1, <1>4, <2>1 DEF TerminalInv, UnwatchedOnlyAfterAnError
<1> QED BY <1>3, <1>4, Zenon DEF SetCanaryAuditing

\* The decoys planted are watched, or have a line in the answer.
LEMMA Planting ==
  ASSUME TerminalInv, auditing \/ objected = Bait, PlantCanaries
  PROVE  /\ UnwatchedOnlyAfterAnError'
         /\ planted' \subseteq Bait /\ objected' \subseteq Bait /\ auditing' \in BOOLEAN
<1>1. PICK stands \in SUBSET Bait, watched \in SUBSET Bait :
        /\ watched \subseteq stands
        /\ planted' = stands /\ armed' = armed \cup watched
        /\ objected' = (objected \cup (Bait \ watched)) \ (IF auditing THEN watched ELSE {})
  BY DEF PlantCanaries
<1>2. auditing' = auditing
  BY DEF PlantCanaries
<1>3. CASE auditing
  BY <1>1, <1>2, <1>3 DEF TerminalInv, UnwatchedOnlyAfterAnError
<1>4. CASE ~auditing
  <2>1. objected' = Bait
    BY <1>1, <1>4
  <2> QED BY <1>1, <1>2, <2>1 DEF TerminalInv, UnwatchedOnlyAfterAnError
<1> QED BY <1>3, <1>4

\* The decoys that stay have a line in the answer.
LEMMA Removing ==
  ASSUME TerminalInv, RemoveCanaries
  PROVE  /\ UnwatchedOnlyAfterAnError' /\ planted' \subseteq objected'
         /\ planted' \subseteq Bait /\ objected' \subseteq Bait /\ auditing' \in BOOLEAN
BY DEF TerminalInv, UnwatchedOnlyAfterAnError, RemoveCanaries

\* A step at the terminal.
LEMMA TerminalStep ==
  ASSUME TerminalInv, TerminalNext
  PROVE  TerminalInv'
<1>1. ASSUME NEW arguments, GiveCommand(arguments) PROVE TerminalInv'
  <2>0. UNCHANGED decoyState
    BY <1>1 DEF GiveCommand
  <2>1. CASE ParseMode(arguments) = "usage"
    <3>1. UNCHANGED <<mode, todo>>
      BY <1>1, <2>1 DEF GiveCommand
    <3>2. \/ auditing' = auditing /\ objected' = objected /\ planted' = planted
      BY <2>0 DEF decoyState
    <3> QED BY <2>0, <3>1, <3>2, SameDecoys DEF TerminalInv
  <2>2. CASE ParseMode(arguments) # "usage"
    <3>1. mode' \in ClientModes /\ todo' = Requests(mode')
      BY <1>1, <2>2, ParsedMode DEF GiveCommand
    <3> QED BY <2>0, <3>1, SameDecoys DEF TerminalInv, Requests, ClientModes
  <2> QED BY <2>1, <2>2
<1>2. CASE NoAnswer
  BY <1>2, CommandEnds DEF NoAnswer
<1>3. CASE SetCanaries
  <2>0. todo # <<>> /\ todo # <<"report">> /\ todo' = Tail(todo) /\ mode' = mode
    BY <1>3, RequestLists DEF SetCanaries, SetCanaryAuditing, PlantCanaries, RemoveCanaries
  <2>1. SetCanaryAuditing(mode = "canaries-on") \/ PlantCanaries \/ RemoveCanaries
    BY <1>3, Zenon DEF SetCanaries
  <2>2. SetCanaryAuditing(mode = "canaries-on") => Head(todo) = "audit"
    BY DEF SetCanaryAuditing
  <2>3. PlantCanaries => Head(todo) = "plant" /\ mode = "canaries-on"
    BY DEF PlantCanaries
  <2>4. RemoveCanaries => Head(todo) = "plant" /\ mode = "canaries-off"
    BY DEF RemoveCanaries
  <2>5. CASE mode = "canaries-on" /\ todo = <<"audit", "plant", "report">>
    <3>1. todo' = <<"plant", "report">> /\ SetCanaryAuditing(mode = "canaries-on")
      BY <2>0, <2>1, <2>3, <2>4, <2>5, RequestLists
    <3> QED BY <2>0, <2>5, <3>1, AuditOn DEF TerminalInv, ClientModes
  <2>6. CASE mode = "canaries-on" /\ todo = <<"plant", "report">> /\ (auditing \/ objected = Bait)
    <3>1. Head(todo) = "plant" /\ Tail(todo) = <<"report">>
      BY <2>6, RequestLists
    <3>2. todo' = <<"report">> /\ PlantCanaries
      BY <2>0, <2>1, <2>2, <2>4, <2>6, <3>1
    <3> QED BY <2>0, <2>6, <3>2, Planting DEF TerminalInv, ClientModes
  <2>7. CASE mode = "canaries-off" /\ todo = <<"plant", "audit", "report">>
    <3>1. todo' = <<"audit", "report">> /\ RemoveCanaries
      BY <2>0, <2>1, <2>2, <2>3, <2>7, RequestLists
    <3> QED BY <2>0, <2>7, <3>1, Removing DEF TerminalInv, ClientModes
  <2>8. CASE mode = "canaries-off" /\ todo = <<"audit", "report">> /\ planted \subseteq objected
    <3>1. Head(todo) = "audit" /\ Tail(todo) = <<"report">>
      BY <2>8, RequestLists
    <3>2. todo' = <<"report">> /\ SetCanaryAuditing(mode = "canaries-on")
      BY <2>0, <2>1, <2>3, <2>4, <2>8, <3>1
    <3> QED BY <2>0, <2>8, <3>2, AuditOff DEF TerminalInv, ClientModes
  <2> QED BY <2>0, <2>5, <2>6, <2>7, <2>8 DEF TerminalInv
<1>4. CASE ReportAnswer
  BY <1>4, CommandEnds DEF ReportAnswer
<1>5. CASE ReportCanaries
  BY <1>5, CommandEnds DEF ReportCanaries
<1>6. CASE CloseTerminal
  BY <1>6, CommandEnds DEF CloseTerminal
<1> QED BY <1>1, <1>2, <1>3, <1>4, <1>5, <1>6 DEF TerminalNext

-----------------------------------------------------------------------------
(* The whole.                                                              *)

\* Nothing has happened yet.
LEMMA StartsRight == StartupInit => StartInv
<1> SUFFICES ASSUME StartupInit PROVE StartInv
  OBVIOUS
<1>1. StoreInv
  <2>0. PICK v \in Oldest .. Newest : file = [s \in Stores |-> At(v)]
    BY DEF StartupInit, ServiceInit
  <2>1. v \in 0 .. Newest /\ At(v) \in Whole
    BY MigrationAssumption DEF Whole
  <2>2. file \in [Stores -> Whole]
    BY <2>0, <2>1
  <2>3. <<>> \in Logs /\ At(0) \in Txns
    BY WholeType DEF Logs
  <2>4. hosts \subseteq Agents
    BY MigrationAssumption DEF StartupInit, ServiceInit
  <2>5. StartTypes
    BY <2>2, <2>3, <2>4 DEF StartupInit, ServiceInit, StartTypes, Places
  <2>6. ASSUME NEW a \in Agents PROVE AgentInv(a)
    <3>1. at[a] = "down" /\ writer[StorePath(a)] = NoOne /\ a # NoOne
      BY <2>6, MigrationAssumption DEF StartupInit, ServiceInit, StorePath, Stores
    <3> QED BY <3>1 DEF AgentInv, TxnInv, Locked, Stepping, Usable
  <2> QED BY <2>5, <2>6 DEF StoreInv
<1>2. ServiceInv
  <2>1. at[Service] = "down"
    BY MigrationAssumption DEF StartupInit, ServiceInit
  <2>2. reg = NotRegistered /\ scm = "stopped" /\ told = "nothing" /\ secured = "no" /\ watching = {}
    BY DEF StartupInit, ServiceInit
  <2>3. ~reg.present /\ ~reg.deleting
    BY <2>2 DEF NotRegistered
  <2>4. SaidTypes
    BY <2>2 DEF SaidTypes, NotRegistered
  <2>5. RegInv
    BY <2>2, <2>3 DEF RegInv, InstalledAsSaid
  <2> QED BY <2>1, <2>2, <2>4, <2>5 DEF ServiceInv, ClosedBeforeOpened, ScmInv
<1>3. TerminalInv
  <2>1. planted \subseteq Bait /\ armed = planted /\ auditing = (planted # {}) /\ objected = {}
        /\ mode = "none" /\ todo = <<>>
    BY DEF StartupInit, TerminalInit
  <2>2. auditing \in BOOLEAN
    BY <2>1, Zenon
  <2>3. \A d \in planted : d \in armed /\ auditing
    BY <2>1
  <2> QED BY <2>1, <2>2, <2>3 DEF TerminalInv, UnwatchedOnlyAfterAnError
<1> QED BY <1>1, <1>2, <1>3 DEF StartInv

\* Every step keeps it: one beside the terminal, or one at it.
LEMMA StartsRightStep == StartInv /\ [StartupNext]_startVars => StartInv'
<1> SUFFICES ASSUME StartInv, [StartupNext]_startVars PROVE StartInv'
  OBVIOUS
<1>0. StoreInv /\ ServiceInv /\ TerminalInv /\ RegInv
  BY DEF StartInv, ServiceInv
<1>1. CASE ServiceNext /\ UNCHANGED terminalVars
  <2>1. StoreInv'
    BY <1>0, <1>1, StoreStep
  <2>2. ServiceInv'
    BY <1>0, <1>1, RegistrationStep, StandingStep DEF ServiceInv
  <2>3. TerminalInv'
    BY <1>0, <1>1 DEF terminalVars, decoyState, TerminalInv, UnwatchedOnlyAfterAnError
  <2> QED BY <2>1, <2>2, <2>3 DEF StartInv
<1>2. ASSUME UNCHANGED <<storeVars, serviceVars>> PROVE StoreInv' /\ ServiceInv'
  <2>1. StoreInv'
    BY <1>0, <1>2, BesideKeeps DEF storeVars, serviceVars, StoreInv, StartTypes
  <2>2. RegInv' /\ SaidTypes'
    BY <1>0, <1>2, NothingSaid DEF storeVars, serviceVars, ServiceInv, SaidTypes
  <2>3. ClosedBeforeOpened' /\ ScmInv'
    BY <1>0, <1>2, SamePlace DEF storeVars, serviceVars
  <2> QED BY <2>1, <2>2, <2>3 DEF ServiceInv
<1>3. CASE TerminalNext /\ UNCHANGED <<storeVars, serviceVars>>
  BY <1>0, <1>2, <1>3, TerminalStep DEF StartInv
<1>4. CASE UNCHANGED startVars
  <2>1. UNCHANGED <<storeVars, serviceVars>> /\ UNCHANGED terminalVars
    BY <1>4 DEF startVars
  <2>2. TerminalInv'
    BY <1>0, <2>1 DEF terminalVars, decoyState, TerminalInv, UnwatchedOnlyAfterAnError
  <2> QED BY <1>2, <2>1, <2>2 DEF StartInv
<1> QED BY <1>1, <1>3, <1>4 DEF StartupNext

\* The lock, the version and the directory say what they must of a store.
LEMMA OpensWhole == StartInv => StoreOpensWhole
<1> SUFFICES ASSUME StartInv PROVE StoreOpensWhole
  OBVIOUS
<1>0. StoreInv /\ SaidTypes /\ ClosedBeforeOpened /\ RegInv /\ StartTypes
  BY DEF StartInv, ServiceInv, StoreInv
<1>1. ServiceTypeOK
  <2>1. \A s \in Stores : file[s].version \in 0 .. Newest
    BY <1>0, WholeStore DEF StartTypes
  <2>2. \A a \in Agents : writer[StorePath(a)] = a <=> at[a] \in {"again", "apply", "bump", "commit"}
    BY <1>0 DEF StoreInv, AgentInv, Locked
  <2>3. \A s \in Stores : writer[s] \in hosts \cup {NoOne}
    BY <1>0 DEF StartTypes
  <2> QED BY <1>0, <2>1, <2>2, <2>3 DEF ServiceTypeOK, StartTypes, SaidTypes, RegInv
<1>2. StoreIsWhole
  <2>1. ASSUME NEW s \in Stores PROVE file[s] = At(file[s].version)
    BY <1>0, WholeStore DEF StartTypes
  <2>2. ASSUME NEW s \in Stores, NEW kept \in ToSet(wal[s]) PROVE kept = At(kept.version)
    <3>1. kept \in Logged
      BY <1>0 DEF StartTypes, ToSet, Logs
    <3> QED BY <3>1, LoggedWhole, WholeStore
  <2> QED BY <2>1, <2>2 DEF StoreIsWhole
<1>3. NeverStuckOnSchema
  BY <1>0 DEF StartTypes, NeverStuckOnSchema
<1>4. OpenedIsUsable
  BY <1>0 DEF StoreInv, AgentInv, Usable, OpenedIsUsable
<1> QED BY <1>0, <1>1, <1>2, <1>3, <1>4 DEF StoreOpensWhole

\* What is said is so.
LEMMA IsHonest == StartInv => ServiceIsHonest
BY DEF StartInv, ServiceInv, ScmInv, RegInv, TerminalInv, ServiceIsHonest, StoppedMeansStopped

\* However agents open, migrate, crash and lose power, each store has exactly
\* the steps its version says, what is opened is usable, no start is stuck on a
\* schema, and the service's folder was closed before its store was opened
\* (db.rs:829-892, server.rs:318-355).
THEOREM StoreOpensWholeAlways == StartupSpec => []StoreOpensWhole
<1>1. StartupSpec => []StartInv
  BY StartsRight, StartsRightStep, PTL DEF StartupSpec
<1> QED BY <1>1, OpensWhole, PTL

\* Stopped is reported when neither the service's loop nor its watcher runs; a
\* registered agent lies in a folder that an ordinary account can neither write
\* to nor open up, where every entry of the folder's list is one the check
\* interprets; and a decoy stands unrecorded only where an answer objected, by
\* an error or by its line (service.rs:154-395, main.rs:235-247).
THEOREM ServiceIsHonestAlways == StartupSpec => []ServiceIsHonest
<1>1. StartupSpec => []StartInv
  BY StartsRight, StartsRightStep, PTL DEF StartupSpec
<1> QED BY <1>1, IsHonest, PTL
=============================================================================
