-------------------------- MODULE QuarantineProofs --------------------------
(***************************************************************************)
(* Proofs about the quarantine store, for any number of threads, contents, *)
(* paths and ids.                                                          *)
(***************************************************************************)
EXTENDS Quarantine, TLAPS

-----------------------------------------------------------------------------
(* Type correctness.                                                       *)

\* The initial local state of a thread has its type.
LEMMA IdleType == Idle \in Threads /\ AnyPath \in Paths
<1>1. AnyPath \in Paths
  BY ConstantsAssumption DEF AnyPath
<1>2. <<0, 0>> \in Ids
  BY ConstantsAssumption DEF Ids
<1>3. 0 \in 0 .. MaxTime
  BY ConstantsAssumption
<1> QED
  BY <1>1, <1>2, <1>3 DEF Idle, Thread, Threads

\* An absent and an unreadable manifest have their type.
LEMMA ManifestType == NoManifest \in Manifests /\ TornManifest \in Manifests
  BY IdleType, ConstantsAssumption DEF NoManifest, TornManifest, Manifests

\* Every step of one thread keeps the types.
LEMMA StepType ==
  ASSUME TypeOK, NEW w \in Workers, Step(w)
  PROVE  TypeOK'
<1> DEFINE RemoveOps == {"delete", "purge", "cleanup"}
           Typed(t) == t \in Threads /\ (t.pc = "remove" => t.op \in RemoveOps)
<1>0. /\ worker[w] \in Threads /\ worker[w].id \in Ids
      /\ worker[w].path \in Paths /\ worker[w].at \in 0 .. MaxTime
      /\ worker[w].op \in {"none", "take", "restore", "delete", "purge", "cleanup"}
  BY DEF TypeOK, Threads
<1>a. 0 \in 0 .. MaxTime /\ <<0, 0>> \in Ids /\ AnyPath \in Paths
  BY ConstantsAssumption, IdleType DEF Ids
<1>b. Typed(Idle)
  BY IdleType DEF Idle, Thread
<1>c. ASSUME NEW t, Typed(t), Become(w, t)
      PROVE  /\ worker' \in [Workers -> Threads]
             /\ \A v \in Workers : worker'[v].pc = "remove" => worker'[v].op \in RemoveOps
  <2>1. worker' = [worker EXCEPT ![w] = t]
    BY <1>c DEF Become
  <2>2. \A v \in Workers : worker'[v] = IF v = w THEN t ELSE worker[v]
    BY <2>1 DEF TypeOK
  <2> QED BY <1>c, <2>1, <2>2 DEF TypeOK
<1>d. ASSUME NEW pc \in {"idle", "claim", "label", "move", "putback", "mark", "remove"},
             NEW op \in {"none", "take", "restore", "delete", "purge", "cleanup"},
             NEW i \in Ids, NEW p \in Paths, NEW at \in 0 .. MaxTime,
             pc = "remove" => op \in RemoveOps
      PROVE  Typed(Thread(pc, op, i, p, at))
  BY <1>d DEF Thread, Threads
<1> HIDE DEF Typed
<1>1. ASSUME NEW p \in Paths, TakeStart(w, p) PROVE TypeOK'
  <2>1. Typed(Thread("claim", "take", <<0, 0>>, p, 0))
    BY <1>a, <1>d
  <2> QED BY <1>1, <2>1, <1>c DEF TakeStart, TypeOK
<1>2. CASE Claim(w)
  <2> DEFINE suffix == worker[w].id[2]
             i == <<IF suffix = 0 THEN clock ELSE worker[w].id[1], suffix>>
             j == <<i[1], suffix + 1>>
  <2>1. i \in Ids /\ suffix \in 0 .. Suffixes - 1 /\ i[1] \in 0 .. MaxTime
    BY <1>0 DEF Ids, TypeOK
  <2>2. suffix + 1 < Suffixes => j \in Ids
    BY <2>1, ConstantsAssumption DEF Ids
  <2>3. /\ \/ dirs' = dirs \cup {i} /\ birth' = [birth EXCEPT ![i] = worker[w].path]
           \/ UNCHANGED <<dirs, birth>>
        /\ doomed' \subseteq doomed
        /\ UNCHANGED <<files, manifest, payload, clock, fate>>
        /\ \/ Become(w, Thread("label", "take", i, worker[w].path, 0))
           \/ suffix + 1 < Suffixes /\ Become(w, Thread("claim", "take", j, worker[w].path, 0))
           \/ Become(w, Idle)
    BY <1>2 DEF Claim
  <2> HIDE DEF i, j, suffix
  <2>4. /\ Typed(Thread("label", "take", i, worker[w].path, 0))
        /\ j \in Ids => Typed(Thread("claim", "take", j, worker[w].path, 0))
    BY <2>1, <1>0, <1>a, <1>d
  <2>5. /\ worker' \in [Workers -> Threads]
        /\ \A v \in Workers : worker'[v].pc = "remove" => worker'[v].op \in RemoveOps
    BY <2>2, <2>3, <2>4, <1>b, <1>c
  <2> QED BY <2>1, <2>3, <2>5, <1>0 DEF TypeOK
<1>3. CASE WriteManifest(w)
  <2>1. [label |-> "held", path |-> worker[w].path, at |-> clock] \in Manifests
    BY <1>0 DEF Manifests, TypeOK
  <2>2. Typed(Thread("move", worker[w].op, worker[w].id, worker[w].path, worker[w].at))
    BY <1>0, <1>d
  <2>3. /\ worker' \in [Workers -> Threads]
        /\ \A v \in Workers : worker'[v].pc = "remove" => worker'[v].op \in RemoveOps
    BY <1>3, <2>2, <1>b, <1>c DEF WriteManifest, Goto
  <2> QED BY <1>3, <2>1, <2>3, <1>0 DEF WriteManifest, TypeOK
<1>4. CASE MoveIn(w)
  <2>1. Typed(Thread("remove", "cleanup", worker[w].id, worker[w].path, 0))
    BY <1>0, <1>a, <1>d
  <2>2. /\ worker' \in [Workers -> Threads]
        /\ \A v \in Workers : worker'[v].pc = "remove" => worker'[v].op \in RemoveOps
    BY <1>4, <2>1, <1>b, <1>c DEF MoveIn
  <2> QED BY <1>4, <2>2, <1>0 DEF MoveIn, TypeOK, Replaced, Fates
<1>5. ASSUME NEW i \in Ids, RestoreStart(w, i) PROVE TypeOK'
  <2>1. manifest[i].path \in Paths /\ manifest[i].at \in 0 .. MaxTime
    BY DEF TypeOK, Manifests
  <2>2. Typed(Thread("putback", "restore", i, manifest[i].path, manifest[i].at))
    BY <2>1, <1>d
  <2> QED BY <1>5, <2>2, <1>c DEF RestoreStart, TypeOK
<1>6. CASE PutBack(w)
  <2>1. Typed(Thread("mark", worker[w].op, worker[w].id, worker[w].path, worker[w].at))
    BY <1>0, <1>d
  <2>2. /\ worker' \in [Workers -> Threads]
        /\ \A v \in Workers : worker'[v].pc = "remove" => worker'[v].op \in RemoveOps
    BY <1>6, <2>1, <1>b, <1>c DEF PutBack, Goto
  <2> QED BY <1>6, <2>2, <1>0 DEF PutBack, TypeOK, Replaced, Fates
<1>7. CASE Mark(w)
  <2>1. [label |-> "restored", path |-> worker[w].path, at |-> worker[w].at]
            \in Manifests
    BY <1>0 DEF Manifests
  <2> QED BY <1>7, <2>1, <1>0, <1>b, <1>c DEF Mark, TypeOK
<1>8. ASSUME NEW i \in Ids, DeleteStart(w, i) \/ PurgeStart(w, i) PROVE TypeOK'
  <2>1. /\ Typed(Thread("remove", "delete", i, AnyPath, 0))
        /\ Typed(Thread("remove", "purge", i, AnyPath, 0))
    BY <1>a, <1>d
  <2> QED BY <1>8, <2>1, <1>c DEF DeleteStart, PurgeStart, TypeOK
<1>9. CASE RemoveManifest(w)
  BY <1>9, <1>0, ManifestType DEF RemoveManifest, TypeOK
<1>10. CASE RemovePayload(w)
  <2>1. worker[w].op \in Fates
    BY <1>10 DEF RemovePayload, TypeOK, Fates
  <2> QED BY <1>10, <1>0, <2>1 DEF RemovePayload, TypeOK
<1>11. CASE RemoveDirectory(w)
  BY <1>11, <1>b, <1>c DEF RemoveDirectory, TypeOK
<1>12. CASE RemoveFails(w)
  BY <1>12, <1>b, <1>c DEF RemoveFails, TypeOK
<1>13. CASE TornWrite(w)
  BY <1>13, <1>0, <1>b, <1>c, ManifestType DEF TornWrite, TypeOK
<1> QED
  BY <1>1, <1>2, <1>3, <1>4, <1>5, <1>6, <1>7, <1>8, <1>9, <1>10, <1>11,
     <1>12, <1>13 DEF Step

\* The initial states have their types.
LEMMA InitType == Init => TypeOK
<1> SUFFICES ASSUME Init PROVE TypeOK
  OBVIOUS
<1>1. files \in [Paths -> Contents \cup {Nothing}] /\ fate \in [Contents -> Fates]
  BY ConstantsAssumption DEF Init, Fates
<1>2. worker \in [Workers -> Threads]
  BY IdleType DEF Init
<1>3. \A w \in Workers : worker[w].pc # "remove"
  BY DEF Init, Idle, Thread
<1> QED BY <1>1, <1>2, <1>3, ManifestType, ConstantsAssumption DEF Init, TypeOK

\* Every step keeps the types.
LEMMA NextType == TypeOK /\ [Next]_vars => TypeOK'
<1> SUFFICES ASSUME TypeOK, [Next]_vars PROVE TypeOK'
  OBVIOUS
<1>1. ASSUME NEW w \in Workers, Step(w) PROVE TypeOK'
  BY <1>1, StepType
<1>2. ASSUME NEW c \in Contents, Appear(c) PROVE TypeOK'
  BY <1>2, ConstantsAssumption DEF Appear, TypeOK, Fates
<1>3. ASSUME NEW p \in Paths, UserDeletes(p) PROVE TypeOK'
  BY <1>3, ConstantsAssumption DEF UserDeletes, TypeOK, Fates
<1>4. CASE Crash
  <2>1. worker' \in [Workers -> Threads]
    BY <1>4, IdleType DEF Crash
  <2>2. \A w \in Workers : worker'[w].pc # "remove"
    BY <1>4 DEF Crash, Idle, Thread
  <2> QED BY <1>4, <2>1, <2>2 DEF Crash, TypeOK
<1>5. CASE Tick
  BY <1>5, ConstantsAssumption DEF Tick, TypeOK
<1>6. CASE UNCHANGED vars
  BY <1>6 DEF vars, TypeOK
<1> QED
  BY <1>1, <1>2, <1>3, <1>4, <1>5, <1>6 DEF Next, Environment

\* Every variable has its type in every state the store can reach, with id
\* reuse and any interleaving of the threads.
THEOREM TypeCorrect == Spec => []TypeOK
  BY InitType, NextType, PTL DEF Spec

-----------------------------------------------------------------------------
(* Conservation, with id reuse and any interleaving.                       *)

\* A rename from one place to another conserves, when it replaces or not.
LEMMA StepConserved ==
  ASSUME TypeOK, Conserved, NEW w \in Workers, Step(w)
  PROVE  Conserved'
<1>0. worker[w].id \in Ids /\ worker[w].path \in Paths /\ Nothing \notin Contents
  BY ConstantsAssumption DEF TypeOK, Threads
<1> DEFINE i == worker[w].id
           p == worker[w].path
<1>1. CASE UNCHANGED <<files, payload, fate>>
  BY <1>1 DEF Conserved
<1>2. ASSUME Renamable(files[p], payload[i]), payload' = [payload EXCEPT ![i] = files[p]],
             files' = [files EXCEPT ![p] = Nothing], fate' = Replaced(payload[i])
      PROVE  Conserved'
  BY <1>0, <1>2 DEF Conserved, TypeOK, Renamable, Replaced
<1>3. ASSUME Renamable(payload[i], files[p]), files' = [files EXCEPT ![p] = payload[i]],
             payload' = [payload EXCEPT ![i] = Nothing], fate' = Replaced(files[p])
      PROVE  Conserved'
  BY <1>0, <1>3 DEF Conserved, TypeOK, Renamable, Replaced
<1>4. CASE RemovePayload(w)
  <2>1. worker[w].op # "alive"
    BY <1>4 DEF RemovePayload, TypeOK
  <2> QED BY <1>0, <1>4, <2>1 DEF RemovePayload, Conserved, TypeOK
<1>5. MoveIn(w) \/ PutBack(w) => Conserved'
  BY <1>1, <1>2, <1>3, SMTT(60) DEF MoveIn, PutBack
<1>6. Step(w) => \/ MoveIn(w) \/ PutBack(w) \/ RemovePayload(w)
                 \/ UNCHANGED <<files, payload, fate>>
  BY DEF Step, TakeStart, Claim, WriteManifest, RestoreStart, Mark, DeleteStart,
         PurgeStart, RemoveManifest, RemoveDirectory, RemoveFails, TornWrite
<1> QED
  BY <1>1, <1>4, <1>5, <1>6

\* Every live content is in exactly one place and a destroyed one is nowhere, in
\* every state the store can reach, with id reuse and any interleaving.
THEOREM ConservedAlways == Spec => []Conserved
<1>1. Init => Conserved
  <2> SUFFICES ASSUME Init PROVE Conserved
    OBVIOUS
  <2>1. PICK born \in SUBSET Contents :
          /\ \A c, d \in born : Home[c] = Home[d] => c = d
          /\ files = [p \in Paths |->
                IF \E c \in born : Home[c] = p
                THEN CHOOSE c \in born : Home[c] = p ELSE Nothing]
          /\ fate = [c \in Contents |-> IF c \in born THEN "alive" ELSE "unborn"]
    BY DEF Init
  <2>2. \A c \in born : files[Home[c]] = c
    BY <2>1, ConstantsAssumption
  <2>3. \A p \in Paths : files[p] # Nothing => files[p] \in born /\ Home[files[p]] = p
    BY <2>1, ConstantsAssumption
  <2>4. \A i \in Ids : payload[i] = Nothing
    BY DEF Init
  <2>5. Nothing \notin Contents /\ Home \in [Contents -> Paths]
    BY ConstantsAssumption
  <2>6. \A c \in Contents : fate[c] = "alive" <=> c \in born
    BY <2>1
  <2> QED BY <2>1, <2>2, <2>3, <2>4, <2>5, <2>6 DEF Conserved
<1>2. TypeOK /\ Conserved /\ [Next]_vars => Conserved'
  <2> SUFFICES ASSUME TypeOK, Conserved, [Next]_vars PROVE Conserved'
    OBVIOUS
  <2>1. ASSUME NEW w \in Workers, Step(w) PROVE Conserved'
    BY <2>1, StepConserved
  <2>2. ASSUME NEW c \in Contents, Appear(c) PROVE Conserved'
    <3>1. /\ \A i \in Ids : payload[i] # c
          /\ \A p \in Paths : files[p] # c
      BY <2>2 DEF Appear, Conserved
    <3>2. /\ Home[c] \in Paths /\ c # Nothing /\ files[Home[c]] = Nothing
          /\ files' = [files EXCEPT ![Home[c]] = c]
          /\ fate' = [fate EXCEPT ![c] = "alive"] /\ UNCHANGED payload
      BY <2>2, ConstantsAssumption DEF Appear
    <3>3. \A p \in Paths : files'[p] = IF p = Home[c] THEN c ELSE files[p]
      BY <3>2 DEF TypeOK
    <3>4. \A d \in Contents : fate'[d] = "alive" <=>
            (\E i \in Ids : payload'[i] = d) \/ (\E p \in Paths : files'[p] = d)
      BY <3>1, <3>2, <3>3, ConstantsAssumption DEF Conserved, TypeOK
    <3> QED BY <3>1, <3>2, <3>3, <3>4 DEF Conserved
  <2>3. ASSUME NEW p \in Paths, UserDeletes(p) PROVE Conserved'
    BY <2>3, ConstantsAssumption DEF UserDeletes, Conserved, TypeOK
  <2>4. CASE Crash \/ Tick \/ UNCHANGED vars
    BY <2>4 DEF Crash, Tick, vars, Conserved
  <2> QED BY <2>1, <2>2, <2>3, <2>4 DEF Next, Environment
<1> QED
  BY <1>1, <1>2, TypeCorrect, PTL DEF Spec

-----------------------------------------------------------------------------
(* The inductive invariant behind the safety theorems, for runs in which   *)
(* no id is claimed twice.  Its parts say who may still write to an item:  *)
(* the take that claimed the id owns it until its rename, and a restore    *)
(* writes only after the payload has left for good.                        *)

\* The take that claimed an id, up to its rename and the clearing up after it.
Owns(w, i) ==
    /\ worker[w].id = i
    /\ \/ worker[w].pc \in {"label", "move"}
       \/ worker[w].pc = "remove" /\ worker[w].op = "cleanup"

NoOwner(i) == \A w \in Workers : ~Owns(w, i)

\* Only claimed directories exist, hold anything, or are worked on.
ClaimedInv ==
    /\ \A i \in Ids : i \notin dirs => manifest[i].label = "none" /\ payload[i] = Nothing
    /\ \A i \in dirs : birth[i] # NoPath
    /\ \A w \in Workers :
          worker[w].pc \notin {"idle", "claim"} => birth[worker[w].id] # NoPath

\* Manifest, payload and threads agree on the path an id was claimed for.
PathInv ==
    /\ \A i \in Ids : Readable(i) => manifest[i].path = birth[i]
    /\ \A i \in Ids : payload[i] # Nothing => Home[payload[i]] = birth[i]
    /\ \A w \in Workers : worker[w].pc \in {"label", "move", "putback", "mark"} =>
          worker[w].path = birth[worker[w].id]

\* An id has one owner, which works on an item with no payload yet; once the
\* item was restored, or is about to be marked so, no owner is left.
OwnerInv ==
    /\ \A v, w \in Workers, i \in Ids : Owns(v, i) /\ Owns(w, i) => v = w
    /\ \A i \in Ids : payload[i] # Nothing => NoOwner(i) /\ manifest[i].label # "restored"
    /\ \A i \in Ids : manifest[i].label = "restored" => NoOwner(i)
    /\ \A w \in Workers : worker[w].pc = "mark" =>
          payload[worker[w].id] = Nothing /\ NoOwner(worker[w].id)

\* Until somebody dooms an item, its manifest says held from before the rename
\* on.
HeldInv ==
    /\ \A w \in Workers : worker[w].pc = "move" /\ worker[w].id \notin doomed =>
          manifest[worker[w].id].label = "held"
    /\ \A i \in Ids : payload[i] # Nothing /\ i \notin doomed => manifest[i].label = "held"
    /\ \A w \in Workers : worker[w].pc = "remove" /\ worker[w].op # "cleanup" =>
          worker[w].id \in doomed

\* The second in an id is not after the time in its manifest.
TimeInv ==
    /\ \A w \in Workers : worker[w].id[1] <= clock
    /\ \A i \in dirs : i[1] <= clock
    /\ \A i \in Ids : Readable(i) => i[1] <= manifest[i].at
    /\ \A w \in Workers : worker[w].pc \in {"putback", "mark"} =>
          worker[w].id[1] <= worker[w].at

\* A purge goes on where the retention is over or nothing is left to destroy.
PurgeInv ==
    \A w \in Workers : worker[w].pc = "remove" /\ worker[w].op = "purge" =>
        \/ clock >= worker[w].id[1] + Retention
        \/ payload[worker[w].id] = Nothing /\ NoOwner(worker[w].id)

\* Everything the safety theorems need of a state.
IInv ==
    /\ TypeOK /\ AtHome
    /\ ClaimedInv /\ PathInv /\ OwnerInv /\ HeldInv /\ TimeInv /\ PurgeInv

\* Each step of a thread keeps the inductive invariant.
LEMMA StepInv ==
  ASSUME IInv, NEW w \in Workers, Step(w), NoReuse
  PROVE  IInv'
<1> USE DEF IInv
<1>0. TypeOK'
  BY StepType
<1>a. /\ worker[w] \in Threads /\ worker[w].id \in Ids
      /\ worker[w].path \in Paths /\ worker[w].at \in 0 .. MaxTime
  BY DEF TypeOK, Threads
<1>b. \A i \in Ids : i[1] \in 0 .. MaxTime
  BY DEF Ids
<1>c. <<0, 0>>[1] = 0 /\ clock \in Nat /\ Retention \in Nat /\ MaxTime \in Nat
  BY ConstantsAssumption DEF TypeOK
<1>d. \A v \in Workers : worker[v].id \in Ids /\ worker[v].at \in 0 .. MaxTime
  BY DEF TypeOK, Threads
<1>e. \A i \in Ids : manifest[i].at \in 0 .. MaxTime
  BY DEF TypeOK, Manifests
<1>g. Idle.pc = "idle" /\ Idle.id[1] = 0
  BY DEF Idle, Thread
<1>f. ASSUME NEW t, Become(w, t)
      PROVE  \A v \in Workers : worker'[v] = IF v = w THEN t ELSE worker[v]
  BY <1>f DEF Become, TypeOK
<1>1. ASSUME NEW p \in Paths, TakeStart(w, p) PROVE IInv'
  <2>1. \A v \in Workers : worker'[v] =
        IF v = w THEN Thread("claim", "take", <<0, 0>>, p, 0)
        ELSE worker[v]
    BY <1>1, <1>f DEF TakeStart
  <2>2. \A i \in Ids, v \in Workers :
           (Owns(v, i)' => Owns(v, i)) /\ (NoOwner(i) => NoOwner(i)')
    BY <1>1, <1>g, <2>1 DEF TakeStart, Thread, TypeOK, NoOwner, Owns
  <2>3. ClaimedInv'
    BY <1>1, <1>a, <1>g, <2>1 DEF TakeStart, Thread, TypeOK, ClaimedInv
  <2>4. PathInv'
    BY <1>1, <1>a, <1>g, <2>1 DEF TakeStart, Thread, TypeOK, PathInv, AtHome, Readable
  <2>5. OwnerInv'
    BY <1>1, <1>a, <1>d, <1>g, <2>1, <2>2 DEF TakeStart, Thread, TypeOK, OwnerInv
  <2>6. HeldInv'
    BY <1>1, <1>a, <1>g, <2>1 DEF TakeStart, Thread, TypeOK, HeldInv, OwnerInv, NoOwner,
        Owns
  <2>7. TimeInv'
    BY <1>1, <1>a, <1>b, <1>c, <1>d, <1>e, <1>g, <2>1, SMTT(60)
       DEF TakeStart, Thread, TypeOK, TimeInv, ClaimedInv, Readable
  <2>8. PurgeInv'
    BY <1>1, <1>a, <1>b, <1>c, <1>d, <1>e, <1>g, <2>1, <2>2 DEF TakeStart, Thread,
        TypeOK, PurgeInv, OwnerInv, TimeInv
  <2>9. AtHome'
    BY <1>1, <1>a, <1>g, <2>1 DEF TakeStart, Thread, TypeOK, AtHome, PathInv
  <2> QED BY <1>0, <2>2, <2>3, <2>4, <2>5, <2>6, <2>7, <2>8, <2>9
<1>2. CASE Claim(w)
  <2> DEFINE suffix == worker[w].id[2]
             i == <<IF suffix = 0 THEN clock ELSE worker[w].id[1], suffix>>
             j == <<i[1], suffix + 1>>
  <2>0. /\ worker[w].pc = "claim" /\ i \in Ids /\ i[1] <= clock
        /\ suffix + 1 < Suffixes => j \in Ids /\ j[1] <= clock
    <3>1. worker[w].id[1] <= clock /\ worker[w].id[1] \in Nat /\ suffix \in 0 .. Suffixes - 1
      BY <1>a DEF TimeInv, Ids
    <3>2. i[1] \in 0 .. MaxTime /\ i[1] <= clock
      BY <1>a, <3>1 DEF TypeOK, Ids
    <3>3. i \in Ids
      BY <3>1, <3>2 DEF Ids
    <3>4. suffix + 1 < Suffixes => j \in Ids /\ j[1] = i[1]
      BY <3>1, <3>2, ConstantsAssumption DEF Ids
    <3> QED BY <1>2, <3>2, <3>3, <3>4 DEF Claim
  <2>1. ASSUME i \notin dirs, dirs' = dirs \cup {i},
               birth' = [birth EXCEPT ![i] = worker[w].path], doomed' = doomed \ {i},
               Become(w, Thread("label", "take", i, worker[w].path, 0))
        PROVE  IInv'
    <3>1. \A v \in Workers : worker'[v] =
             IF v = w THEN Thread("label", "take", i, worker[w].path, 0) ELSE worker[v]
      BY <2>1, <1>f
    <3> HIDE DEF i, j, suffix
    <3>2. birth[i] = NoPath /\ worker[w].path # NoPath
      BY <2>1, <1>a, ConstantsAssumption DEF NoReuse
    <3>3. /\ manifest[i].label = "none" /\ payload[i] = Nothing
          /\ \A v \in Workers : worker[v].pc \notin {"idle", "claim"} => worker[v].id # i
      BY <2>0, <2>1, <3>2 DEF ClaimedInv
    <3>4. \A v \in Workers, k \in Ids : Owns(v, k)' <=> Owns(v, k) \/ (v = w /\ k = i)
      BY <2>0, <3>1, <3>3 DEF Owns, Thread
    <3>5. NoOwner(i)
      BY <3>3 DEF NoOwner, Owns
    <3>6. ClaimedInv'
      BY <1>2, <1>a, <2>0, <2>1, <3>1, <3>2 DEF Claim, Thread, TypeOK, ClaimedInv
    <3>7. PathInv'
      BY <1>2, <1>a, <2>0, <2>1, <3>1, <3>3 DEF Claim, Thread, TypeOK, PathInv, Readable
    <3>8. OwnerInv'
      BY <1>2, <1>d, <2>0, <3>1, <3>3, <3>4, <3>5 DEF Claim, Thread, TypeOK, OwnerInv,
          NoOwner
    <3>9. HeldInv'
      BY <1>2, <2>0, <2>1, <3>1, <3>3 DEF Claim, Thread, TypeOK, HeldInv
    <3>10. TimeInv'
      BY <1>2, <1>d, <2>0, <2>1, <3>1 DEF Claim, Thread, TypeOK, TimeInv, Readable
    <3>11. PurgeInv'
      BY <1>2, <1>d, <2>0, <3>1, <3>3, <3>4 DEF Claim, Thread, TypeOK, PurgeInv, NoOwner
    <3>12. AtHome'
      BY <1>2 DEF Claim, AtHome
    <3> QED BY <1>0, <3>6, <3>7, <3>8, <3>9, <3>10, <3>11, <3>12
  <2>2. ASSUME NEW k \in Ids, k[1] <= clock, UNCHANGED <<dirs, birth, doomed>>,
               \/ Become(w, Thread("claim", "take", k, worker[w].path, 0))
               \/ Become(w, Idle)
        PROVE  IInv'
    <3>1. /\ \A v \in Workers : v # w => worker'[v] = worker[v]
          /\ worker'[w].pc \in {"idle", "claim"}
          /\ worker'[w].id[1] <= clock
      BY <2>2, <1>c, <1>f, <1>g DEF Thread
    <3>2. \A v \in Workers, l \in Ids : Owns(v, l)' <=> Owns(v, l)
      BY <2>0, <3>1 DEF Owns
    <3>3. ClaimedInv' /\ PathInv' /\ HeldInv' /\ AtHome'
      BY <1>2, <2>0, <2>2, <3>1 DEF Claim, ClaimedInv, PathInv, HeldInv, AtHome, Readable
    <3>4. OwnerInv' /\ PurgeInv'
      BY <1>2, <1>d, <2>0, <3>1, <3>2 DEF Claim, OwnerInv, PurgeInv, NoOwner
    <3>5. TimeInv'
      BY <1>2, <2>0, <2>2, <3>1 DEF Claim, TimeInv, Readable
    <3> QED BY <1>0, <3>3, <3>4, <3>5
  <2> HIDE DEF i, j
  <2>3. \/ /\ i \notin dirs /\ dirs' = dirs \cup {i} /\ doomed' = doomed \ {i}
           /\ birth' = [birth EXCEPT ![i] = worker[w].path]
           /\ Become(w, Thread("label", "take", i, worker[w].path, 0))
        \/ /\ UNCHANGED <<dirs, birth, doomed>>
           /\ \/ suffix + 1 < Suffixes /\ Become(w, Thread("claim", "take", j, worker[w].path, 0))
              \/ Become(w, Idle)
    BY <1>2 DEF Claim, i, j
  <2> QED BY <2>0, <2>1, <2>2, <2>3
<1>3. CASE WriteManifest(w)
  <2>1. ASSUME worker[w].id \in dirs, manifest' = [manifest EXCEPT ![worker[w].id] =
                  [label |-> "held", path |-> worker[w].path, at |-> clock]],
               Become(w, Thread("move", worker[w].op, worker[w].id, worker[w].path, worker[w].at))
         PROVE  IInv'
    <3>1. \A v \in Workers : worker'[v] =
          IF v = w THEN Thread("move", worker[w].op, worker[w].id, worker[w].path, worker[w].at)
          ELSE worker[v]
      BY <2>1, <1>f
    <3>2. \A i \in Ids, v \in Workers :
             (Owns(v, i)' => Owns(v, i)) /\ (NoOwner(i) => NoOwner(i)')
      BY <1>3, <1>g, <2>1, <3>1 DEF WriteManifest, Thread, TypeOK, NoOwner, Owns
    <3>3. ClaimedInv'
      BY <1>3, <1>a, <1>g, <2>1, <3>1 DEF WriteManifest, Thread, TypeOK, ClaimedInv
    <3>4. PathInv'
      BY <1>3, <1>a, <1>g, <2>1, <3>1 DEF WriteManifest, Thread, TypeOK, PathInv, AtHome,
          Readable
    <3>5. OwnerInv'
      BY <1>3, <1>a, <1>d, <1>g, <2>1, <3>1, <3>2 DEF WriteManifest, Thread, TypeOK,
          OwnerInv
    <3>6. HeldInv'
      BY <1>3, <1>a, <1>g, <2>1, <3>1 DEF WriteManifest, Thread, TypeOK, HeldInv,
          OwnerInv, NoOwner, Owns
    <3>7. TimeInv'
      <4>1. UNCHANGED <<clock, dirs>> /\ worker[w].id[1] <= clock
        BY <1>3 DEF WriteManifest, TimeInv
      <4>2. \A i \in Ids : manifest'[i] =
               IF i = worker[w].id
               THEN [label |-> "held", path |-> worker[w].path, at |-> clock]
               ELSE manifest[i]
        BY <2>1 DEF TypeOK
      <4>3. \A i \in Ids : Readable(i)' => i[1] <= manifest'[i].at
        BY <4>1, <4>2 DEF TimeInv, Readable
      <4>4. \A v \in Workers :
               /\ worker'[v].id[1] <= clock
               /\ worker'[v].pc \in {"putback", "mark"} => worker'[v].id[1] <= worker'[v].at
        BY <3>1, <4>1 DEF Thread, TimeInv
      <4> QED BY <4>1, <4>3, <4>4 DEF TimeInv
    <3>8. PurgeInv'
      BY <1>3, <1>a, <1>b, <1>c, <1>d, <1>e, <1>g, <2>1, <3>1, <3>2, SMTT(60)
         DEF WriteManifest, Thread, TypeOK, PurgeInv, OwnerInv, TimeInv
    <3>9. AtHome'
      BY <1>3, <1>a, <1>g, <2>1, <3>1 DEF WriteManifest, Thread, TypeOK, AtHome, PathInv
    <3> QED BY <1>0, <3>2, <3>3, <3>4, <3>5, <3>6, <3>7, <3>8, <3>9
  <2>2. ASSUME UNCHANGED manifest,
               Become(w, Idle)
         PROVE  IInv'
    <3>1. \A v \in Workers : worker'[v] = IF v = w THEN Idle ELSE worker[v]
      BY <2>2, <1>f
    <3>2. \A i \in Ids, v \in Workers :
             (Owns(v, i)' => Owns(v, i)) /\ (NoOwner(i) => NoOwner(i)')
      BY <1>3, <1>g, <2>2, <3>1 DEF WriteManifest, Thread, TypeOK, NoOwner, Owns
    <3>3. ClaimedInv'
      BY <1>3, <1>a, <1>g, <2>2, <3>1 DEF WriteManifest, Thread, TypeOK, ClaimedInv
    <3>4. PathInv'
      BY <1>3, <1>a, <1>g, <2>2, <3>1 DEF WriteManifest, Thread, TypeOK, PathInv, AtHome,
          Readable
    <3>5. OwnerInv'
      BY <1>3, <1>a, <1>d, <1>g, <2>2, <3>1, <3>2 DEF WriteManifest, Thread, TypeOK,
          OwnerInv
    <3>6. HeldInv'
      BY <1>3, <1>a, <1>g, <2>2, <3>1 DEF WriteManifest, Thread, TypeOK, HeldInv,
          OwnerInv, NoOwner, Owns
    <3>7. TimeInv'
      <4>1. UNCHANGED <<clock, dirs, manifest>>
        BY <1>3, <2>2 DEF WriteManifest
      <4>2. \A v \in Workers :
               /\ worker'[v].id[1] <= clock
               /\ worker'[v].pc \in {"putback", "mark"} => worker'[v].id[1] <= worker'[v].at
        BY <1>a, <1>b, <1>c, <1>d, <1>e, <1>g, <3>1 DEF TimeInv
      <4> QED BY <4>1, <4>2 DEF TimeInv, Readable
    <3>8. PurgeInv'
      BY <1>3, <1>a, <1>b, <1>c, <1>d, <1>e, <1>g, <2>2, <3>1, <3>2 DEF WriteManifest,
          Thread, TypeOK, PurgeInv, OwnerInv, TimeInv
    <3>9. AtHome'
      BY <1>3, <1>a, <1>g, <2>2, <3>1 DEF WriteManifest, Thread, TypeOK, AtHome, PathInv
    <3> QED BY <1>0, <3>2, <3>3, <3>4, <3>5, <3>6, <3>7, <3>8, <3>9
  <2> QED BY <1>3, <2>1, <2>2 DEF WriteManifest, Goto
<1>4. CASE MoveIn(w)
  <2>1. ASSUME worker[w].id \in dirs, Renamable(files[worker[w].path], payload[worker[w].id]),
               payload' = [payload EXCEPT ![worker[w].id] = files[worker[w].path]],
               files' = [files EXCEPT ![worker[w].path] = Nothing],
               Become(w, Idle)
         PROVE  IInv'
    <3>1. \A v \in Workers : worker'[v] = IF v = w THEN Idle ELSE worker[v]
      BY <2>1, <1>f
    <3>2. \A i \in Ids, v \in Workers :
             (Owns(v, i)' => Owns(v, i)) /\ (NoOwner(i) => NoOwner(i)')
      BY <1>4, <1>g, <2>1, <3>1 DEF MoveIn, Thread, TypeOK, NoOwner, Owns, Renamable
    <3>3. ClaimedInv'
      BY <1>4, <1>a, <1>g, <2>1, <3>1 DEF MoveIn, Thread, TypeOK, ClaimedInv, Renamable
    <3>4. PathInv'
      BY <1>4, <1>a, <1>g, <2>1, <3>1 DEF MoveIn, Thread, TypeOK, PathInv, AtHome,
          Readable, Renamable
    <3>a. Owns(w, worker[w].id) /\ UNCHANGED <<manifest, clock>>
      BY <1>4 DEF MoveIn, Owns
    <3>b. \A i \in Ids : payload'[i] =
             IF i = worker[w].id THEN files[worker[w].path] ELSE payload[i]
      BY <2>1 DEF TypeOK
    <3>c. \A i \in Ids : i = worker[w].id => NoOwner(i)'
      BY <1>g, <3>1, <3>2, <3>a DEF OwnerInv, NoOwner, Owns
    <3>d. \A i \in Ids : NoOwner(i) => i # worker[w].id
      BY <3>a DEF NoOwner
    <3>5. OwnerInv'
      <4>1. \A i \in Ids : payload'[i] # Nothing =>
               NoOwner(i)' /\ manifest'[i].label # "restored"
        BY <3>2, <3>a, <3>b, <3>c, <3>d DEF OwnerInv
      <4>2. \A v \in Workers, i \in Ids : worker'[v].pc = "mark" /\ worker'[v].id = i =>
               payload'[i] = Nothing /\ NoOwner(i)'
        BY <1>g, <3>1, <3>2, <3>b, <3>d DEF OwnerInv
      <4>3. \A v \in Workers : worker'[v].id \in Ids
        BY <1>0 DEF TypeOK, Threads
      <4>4. (\A v \in Workers : worker[v].pc = "mark" =>
                payload[worker[v].id] = Nothing /\ NoOwner(worker[v].id))'
        BY <4>2, <4>3 DEF NoOwner, Owns
      <4> QED BY <3>2, <3>a, <4>1, <4>4 DEF OwnerInv
    <3>6. HeldInv'
      BY <1>4, <1>a, <1>g, <2>1, <3>1 DEF MoveIn, Thread, TypeOK, HeldInv, OwnerInv,
          NoOwner, Owns, Renamable
    <3>7. TimeInv'
      BY <1>4, <1>a, <1>b, <1>c, <1>d, <1>e, <1>g, <2>1, <3>1 DEF MoveIn, Thread, TypeOK,
          TimeInv, ClaimedInv, Readable, Renamable
    <3>8. PurgeInv'
      BY <1>4, <1>a, <1>b, <1>c, <1>d, <1>e, <1>g, <2>1, <3>1, <3>2, SMTT(60)
         DEF MoveIn, Thread, TypeOK, PurgeInv, OwnerInv, TimeInv, NoOwner, Owns, Renamable
    <3>9. AtHome'
      BY <1>4, <1>a, <1>g, <2>1, <3>1 DEF MoveIn, Thread, TypeOK, AtHome, PathInv, Renamable
    <3> QED BY <1>0, <3>2, <3>3, <3>4, <3>5, <3>6, <3>7, <3>8, <3>9
  <2>2. ASSUME UNCHANGED <<payload, files>>,
               Become(w, Thread("remove", "cleanup", worker[w].id, worker[w].path, 0))
         PROVE  IInv'
    <3>1. \A v \in Workers : worker'[v] =
          IF v = w THEN Thread("remove", "cleanup", worker[w].id, worker[w].path, 0)
          ELSE worker[v]
      BY <2>2, <1>f
    <3>2. \A i \in Ids, v \in Workers :
             (Owns(v, i)' => Owns(v, i)) /\ (NoOwner(i) => NoOwner(i)')
      BY <1>4, <1>g, <2>2, <3>1 DEF MoveIn, Thread, TypeOK, NoOwner, Owns, Renamable
    <3>3. ClaimedInv'
      BY <1>4, <1>a, <1>g, <2>2, <3>1 DEF MoveIn, Thread, TypeOK, ClaimedInv, Renamable
    <3>4. PathInv'
      BY <1>4, <1>a, <1>g, <2>2, <3>1 DEF MoveIn, Thread, TypeOK, PathInv, AtHome,
          Readable, Renamable
    <3>5. OwnerInv'
      BY <1>4, <1>a, <1>d, <1>g, <2>2, <3>1, <3>2 DEF MoveIn, Thread, TypeOK, OwnerInv,
          NoOwner, Owns, Renamable
    <3>6. HeldInv'
      BY <1>4, <1>a, <1>g, <2>2, <3>1 DEF MoveIn, Thread, TypeOK, HeldInv, OwnerInv,
          NoOwner, Owns, Renamable
    <3>7. TimeInv'
      BY <1>4, <1>a, <1>b, <1>c, <1>d, <1>e, <1>g, <2>2, <3>1 DEF MoveIn, Thread, TypeOK,
          TimeInv, ClaimedInv, Readable, Renamable
    <3>8. PurgeInv'
      BY <1>4, <1>d, <2>2, <3>1, <3>2 DEF MoveIn, Thread, TypeOK, PurgeInv
    <3>9. AtHome'
      BY <1>4, <1>a, <1>g, <2>2, <3>1 DEF MoveIn, Thread, TypeOK, AtHome, PathInv, Renamable
    <3> QED BY <1>0, <3>2, <3>3, <3>4, <3>5, <3>6, <3>7, <3>8, <3>9
  <2> QED BY <1>4, <2>1, <2>2 DEF MoveIn, Goto
<1>5. ASSUME NEW i \in Ids, RestoreStart(w, i) PROVE IInv'
  <2>1. \A v \in Workers : worker'[v] =
        IF v = w THEN Thread("putback", "restore", i, manifest[i].path, manifest[i].at)
        ELSE worker[v]
    BY <1>5, <1>f DEF RestoreStart
  <2>2. \A j \in Ids, v \in Workers :
           (Owns(v, j)' => Owns(v, j)) /\ (NoOwner(j) => NoOwner(j)')
    BY <1>5, <1>g, <2>1 DEF RestoreStart, Thread, TypeOK, NoOwner, Owns, Readable
  <2>3. ClaimedInv'
    BY <1>5, <1>a, <1>g, <2>1 DEF RestoreStart, Thread, TypeOK, ClaimedInv, Readable
  <2>4. PathInv'
    BY <1>5, <1>a, <1>g, <2>1 DEF RestoreStart, Thread, TypeOK, PathInv, AtHome, Readable
  <2>5. OwnerInv'
    BY <1>5, <1>a, <1>d, <1>g, <2>1, <2>2 DEF RestoreStart, Thread, TypeOK, OwnerInv,
        Readable
  <2>6. HeldInv'
    BY <1>5, <1>a, <1>g, <2>1 DEF RestoreStart, Thread, TypeOK, HeldInv, OwnerInv,
        NoOwner, Owns, Readable
  <2>7. TimeInv'
    BY <1>5, <1>a, <1>b, <1>c, <1>d, <1>e, <1>g, <2>1 DEF RestoreStart, Thread, TypeOK,
        TimeInv, ClaimedInv, Readable
  <2>8. PurgeInv'
    BY <1>5, <1>a, <1>b, <1>c, <1>d, <1>e, <1>g, <2>1, <2>2 DEF RestoreStart, Thread,
        TypeOK, PurgeInv, OwnerInv, TimeInv, Readable
  <2>9. AtHome'
    BY <1>5, <1>a, <1>g, <2>1 DEF RestoreStart, Thread, TypeOK, AtHome, PathInv, Readable
  <2> QED BY <1>0, <2>2, <2>3, <2>4, <2>5, <2>6, <2>7, <2>8, <2>9
<1>6. CASE PutBack(w)
  <2>1. ASSUME Renamable(payload[worker[w].id], files[worker[w].path]),
               files' = [files EXCEPT ![worker[w].path] = payload[worker[w].id]],
               payload' = [payload EXCEPT ![worker[w].id] = Nothing],
               Become(w, Thread("mark", worker[w].op, worker[w].id, worker[w].path, worker[w].at))
         PROVE  IInv'
    <3>1. \A v \in Workers : worker'[v] =
          IF v = w THEN Thread("mark", worker[w].op, worker[w].id, worker[w].path, worker[w].at)
          ELSE worker[v]
      BY <2>1, <1>f
    <3>2. \A i \in Ids, v \in Workers :
             (Owns(v, i)' => Owns(v, i)) /\ (NoOwner(i) => NoOwner(i)')
      BY <1>6, <1>g, <2>1, <3>1 DEF PutBack, Thread, TypeOK, NoOwner, Owns, Renamable
    <3>3. ClaimedInv'
      BY <1>6, <1>a, <1>g, <2>1, <3>1 DEF PutBack, Thread, TypeOK, ClaimedInv, Renamable
    <3>4. PathInv'
      BY <1>6, <1>a, <1>g, <2>1, <3>1 DEF PutBack, Thread, TypeOK, PathInv, AtHome,
          Readable, Renamable
    <3>5. OwnerInv'
      BY <1>6, <1>a, <1>d, <1>g, <2>1, <3>1, <3>2 DEF PutBack, Thread, TypeOK, OwnerInv,
          Renamable
    <3>6. HeldInv'
      BY <1>6, <1>a, <1>g, <2>1, <3>1 DEF PutBack, Thread, TypeOK, HeldInv, OwnerInv,
          NoOwner, Owns, Renamable
    <3>7. TimeInv'
      BY <1>6, <1>a, <1>b, <1>c, <1>d, <1>e, <1>g, <2>1, <3>1 DEF PutBack, Thread,
          TypeOK, TimeInv, ClaimedInv, Readable, Renamable
    <3>8. PurgeInv'
      BY <1>6, <1>a, <1>b, <1>c, <1>d, <1>e, <1>g, <2>1, <3>1, <3>2 DEF PutBack, Thread,
          TypeOK, PurgeInv, OwnerInv, TimeInv, Renamable
    <3>9. AtHome'
      BY <1>6, <1>a, <1>g, <2>1, <3>1 DEF PutBack, Thread, TypeOK, AtHome, PathInv,
          Renamable
    <3> QED BY <1>0, <3>2, <3>3, <3>4, <3>5, <3>6, <3>7, <3>8, <3>9
  <2>2. ASSUME UNCHANGED <<payload, files>>,
               Become(w, Idle)
         PROVE  IInv'
    <3>1. \A v \in Workers : worker'[v] = IF v = w THEN Idle ELSE worker[v]
      BY <2>2, <1>f
    <3>2. \A i \in Ids, v \in Workers :
             (Owns(v, i)' => Owns(v, i)) /\ (NoOwner(i) => NoOwner(i)')
      BY <1>6, <1>g, <2>2, <3>1 DEF PutBack, Thread, TypeOK, NoOwner, Owns, Renamable
    <3>3. ClaimedInv'
      BY <1>6, <1>a, <1>g, <2>2, <3>1 DEF PutBack, Thread, TypeOK, ClaimedInv, Renamable
    <3>4. PathInv'
      BY <1>6, <1>a, <1>g, <2>2, <3>1 DEF PutBack, Thread, TypeOK, PathInv, AtHome,
          Readable, Renamable
    <3>5. OwnerInv'
      BY <1>6, <1>a, <1>d, <1>g, <2>2, <3>1, <3>2 DEF PutBack, Thread, TypeOK, OwnerInv,
          Renamable
    <3>6. HeldInv'
      BY <1>6, <1>a, <1>g, <2>2, <3>1 DEF PutBack, Thread, TypeOK, HeldInv, OwnerInv,
          NoOwner, Owns, Renamable
    <3>7. TimeInv'
      BY <1>6, <1>a, <1>b, <1>c, <1>d, <1>e, <1>g, <2>2, <3>1 DEF PutBack, Thread,
          TypeOK, TimeInv, ClaimedInv, Readable, Renamable
    <3>8. PurgeInv'
      BY <1>6, <1>a, <1>b, <1>c, <1>d, <1>e, <1>g, <2>2, <3>1, <3>2 DEF PutBack, Thread,
          TypeOK, PurgeInv, OwnerInv, TimeInv, Renamable
    <3>9. AtHome'
      BY <1>6, <1>a, <1>g, <2>2, <3>1 DEF PutBack, Thread, TypeOK, AtHome, PathInv,
          Renamable
    <3> QED BY <1>0, <3>2, <3>3, <3>4, <3>5, <3>6, <3>7, <3>8, <3>9
  <2> QED BY <1>6, <2>1, <2>2 DEF PutBack, Goto
<1>7. CASE Mark(w)
  <2>1. ASSUME worker[w].id \in dirs, manifest' = [manifest EXCEPT ![worker[w].id] =
                  [label |-> "restored", path |-> worker[w].path, at |-> worker[w].at]],
               Become(w, Idle)
         PROVE  IInv'
    <3>1. \A v \in Workers : worker'[v] = IF v = w THEN Idle ELSE worker[v]
      BY <2>1, <1>f
    <3>2. \A i \in Ids, v \in Workers :
             (Owns(v, i)' => Owns(v, i)) /\ (NoOwner(i) => NoOwner(i)')
      BY <1>7, <1>g, <2>1, <3>1 DEF Mark, Thread, TypeOK, NoOwner, Owns
    <3>3. ClaimedInv'
      BY <1>7, <1>a, <1>g, <2>1, <3>1 DEF Mark, Thread, TypeOK, ClaimedInv
    <3>4. PathInv'
      BY <1>7, <1>a, <1>g, <2>1, <3>1 DEF Mark, Thread, TypeOK, PathInv, AtHome, Readable
    <3>5. OwnerInv'
      BY <1>7, <1>a, <1>d, <1>g, <2>1, <3>1, <3>2 DEF Mark, Thread, TypeOK, OwnerInv
    <3>6. HeldInv'
      BY <1>7, <1>a, <1>g, <2>1, <3>1 DEF Mark, Thread, TypeOK, HeldInv, OwnerInv,
          NoOwner, Owns
    <3>7. TimeInv'
      <4>1. UNCHANGED <<clock, dirs>> /\ worker[w].id[1] <= worker[w].at
        BY <1>7 DEF Mark, TimeInv
      <4>2. \A i \in Ids : manifest'[i] =
               IF i = worker[w].id
               THEN [label |-> "restored", path |-> worker[w].path, at |-> worker[w].at]
               ELSE manifest[i]
        BY <2>1 DEF TypeOK
      <4>3. \A i \in Ids : Readable(i)' => i[1] <= manifest'[i].at
        BY <4>1, <4>2 DEF TimeInv, Readable
      <4>4. \A v \in Workers :
               /\ worker'[v].id[1] <= clock
               /\ worker'[v].pc \in {"putback", "mark"} => worker'[v].id[1] <= worker'[v].at
        BY <1>c, <1>g, <3>1 DEF TimeInv
      <4> QED BY <4>1, <4>3, <4>4 DEF TimeInv
    <3>8. PurgeInv'
      BY <1>7, <1>a, <1>b, <1>c, <1>d, <1>e, <1>g, <2>1, <3>1, <3>2 DEF Mark, Thread,
          TypeOK, PurgeInv, OwnerInv, TimeInv
    <3>9. AtHome'
      BY <1>7, <1>a, <1>g, <2>1, <3>1 DEF Mark, Thread, TypeOK, AtHome, PathInv
    <3> QED BY <1>0, <3>2, <3>3, <3>4, <3>5, <3>6, <3>7, <3>8, <3>9
  <2>2. ASSUME UNCHANGED manifest,
               Become(w, Idle)
         PROVE  IInv'
    <3>1. \A v \in Workers : worker'[v] = IF v = w THEN Idle ELSE worker[v]
      BY <2>2, <1>f
    <3>2. \A i \in Ids, v \in Workers :
             (Owns(v, i)' => Owns(v, i)) /\ (NoOwner(i) => NoOwner(i)')
      BY <1>7, <1>g, <2>2, <3>1 DEF Mark, Thread, TypeOK, NoOwner, Owns
    <3>3. ClaimedInv'
      BY <1>7, <1>a, <1>g, <2>2, <3>1 DEF Mark, Thread, TypeOK, ClaimedInv
    <3>4. PathInv'
      BY <1>7, <1>a, <1>g, <2>2, <3>1 DEF Mark, Thread, TypeOK, PathInv, AtHome, Readable
    <3>5. OwnerInv'
      BY <1>7, <1>a, <1>d, <1>g, <2>2, <3>1, <3>2 DEF Mark, Thread, TypeOK, OwnerInv
    <3>6. HeldInv'
      BY <1>7, <1>a, <1>g, <2>2, <3>1 DEF Mark, Thread, TypeOK, HeldInv, OwnerInv,
          NoOwner, Owns
    <3>7. TimeInv'
      BY <1>7, <1>c, <1>g, <2>2, <3>1 DEF Mark, TimeInv, Readable
    <3>8. PurgeInv'
      BY <1>7, <1>a, <1>b, <1>c, <1>d, <1>e, <1>g, <2>2, <3>1, <3>2 DEF Mark, Thread,
          TypeOK, PurgeInv, OwnerInv, TimeInv
    <3>9. AtHome'
      BY <1>7, <1>a, <1>g, <2>2, <3>1 DEF Mark, Thread, TypeOK, AtHome, PathInv
    <3> QED BY <1>0, <3>2, <3>3, <3>4, <3>5, <3>6, <3>7, <3>8, <3>9
  <2> QED BY <1>7, <2>1, <2>2 DEF Mark, Goto
<1>8. ASSUME NEW i \in Ids, DeleteStart(w, i) PROVE IInv'
  <2>1. \A v \in Workers : worker'[v] =
        IF v = w THEN Thread("remove", "delete", i, AnyPath, 0)
        ELSE worker[v]
    BY <1>8, <1>f DEF DeleteStart
  <2>2. \A j \in Ids, v \in Workers :
           (Owns(v, j)' => Owns(v, j)) /\ (NoOwner(j) => NoOwner(j)')
    BY <1>8, <1>g, <2>1 DEF DeleteStart, Thread, TypeOK, NoOwner, Owns, Readable
  <2>3. ClaimedInv'
    BY <1>8, <1>a, <1>g, <2>1 DEF DeleteStart, Thread, TypeOK, ClaimedInv, Readable
  <2>4. PathInv'
    BY <1>8, <1>a, <1>g, <2>1 DEF DeleteStart, Thread, TypeOK, PathInv, AtHome, Readable
  <2>5. OwnerInv'
    BY <1>8, <1>a, <1>d, <1>g, <2>1, <2>2 DEF DeleteStart, Thread, TypeOK, OwnerInv,
        Readable
  <2>6. HeldInv'
    BY <1>8, <1>a, <1>g, <2>1 DEF DeleteStart, Thread, TypeOK, HeldInv, OwnerInv,
        NoOwner, Owns, Readable
  <2>7. TimeInv'
    BY <1>8, <1>a, <1>b, <1>c, <1>d, <1>e, <1>g, <2>1 DEF DeleteStart, Thread, TypeOK,
        TimeInv, ClaimedInv, Readable
  <2>8. PurgeInv'
    BY <1>8, <1>a, <1>b, <1>c, <1>d, <1>e, <1>g, <2>1, <2>2 DEF DeleteStart, Thread,
        TypeOK, PurgeInv, OwnerInv, TimeInv, Readable
  <2>9. AtHome'
    BY <1>8, <1>a, <1>g, <2>1 DEF DeleteStart, Thread, TypeOK, AtHome, PathInv, Readable
  <2> QED BY <1>0, <2>2, <2>3, <2>4, <2>5, <2>6, <2>7, <2>8, <2>9
<1>9. ASSUME NEW i \in Ids, PurgeStart(w, i) PROVE IInv'
  <2>1. \A v \in Workers : worker'[v] =
        IF v = w THEN Thread("remove", "purge", i, AnyPath, 0)
        ELSE worker[v]
    BY <1>9, <1>f DEF PurgeStart
  <2>2. \A j \in Ids, v \in Workers :
           (Owns(v, j)' => Owns(v, j)) /\ (NoOwner(j) => NoOwner(j)')
    BY <1>9, <1>g, <2>1 DEF PurgeStart, Thread, TypeOK, NoOwner, Owns, Readable
  <2>3. ClaimedInv'
    BY <1>9, <1>a, <1>g, <2>1 DEF PurgeStart, Thread, TypeOK, ClaimedInv, Readable
  <2>4. PathInv'
    BY <1>9, <1>a, <1>g, <2>1 DEF PurgeStart, Thread, TypeOK, PathInv, AtHome, Readable
  <2>5. OwnerInv'
    BY <1>9, <1>a, <1>d, <1>g, <2>1, <2>2 DEF PurgeStart, Thread, TypeOK, OwnerInv, Readable
  <2>6. HeldInv'
    BY <1>9, <1>a, <1>g, <2>1 DEF PurgeStart, Thread, TypeOK, HeldInv, OwnerInv, NoOwner,
        Owns, Readable
  <2>7. TimeInv'
    BY <1>9, <1>a, <1>b, <1>c, <1>d, <1>e, <1>g, <2>1 DEF PurgeStart, Thread, TypeOK,
        TimeInv, ClaimedInv, Readable
  <2>8. PurgeInv'
    BY <1>9, <1>a, <1>b, <1>c, <1>d, <1>e, <1>g, <2>1, <2>2 DEF PurgeStart, Thread,
        TypeOK, PurgeInv, OwnerInv, TimeInv, Readable
  <2>9. AtHome'
    BY <1>9, <1>a, <1>g, <2>1 DEF PurgeStart, Thread, TypeOK, AtHome, PathInv, Readable
  <2> QED BY <1>0, <2>2, <2>3, <2>4, <2>5, <2>6, <2>7, <2>8, <2>9
<1>10. CASE RemoveManifest(w)
  <2>2. \A i \in Ids, v \in Workers :
           (Owns(v, i)' => Owns(v, i)) /\ (NoOwner(i) => NoOwner(i)')
    BY <1>10 DEF RemoveManifest, TypeOK, NoOwner, Owns, NoManifest
  <2>3. ClaimedInv'
    BY <1>10, <1>a DEF RemoveManifest, TypeOK, ClaimedInv, NoManifest
  <2>4. PathInv'
    BY <1>10, <1>a DEF RemoveManifest, TypeOK, PathInv, AtHome, Readable, NoManifest
  <2>5. OwnerInv'
    BY <1>10, <1>a, <1>d, <2>2 DEF RemoveManifest, TypeOK, OwnerInv, NoManifest
  <2>6. HeldInv'
    BY <1>10, <1>a DEF RemoveManifest, TypeOK, HeldInv, OwnerInv, NoOwner, Owns, NoManifest
  <2>7. TimeInv'
    BY <1>10, <1>a, <1>b, <1>c, <1>d, <1>e DEF RemoveManifest, TypeOK, TimeInv,
        ClaimedInv, Readable, NoManifest
  <2>8. PurgeInv'
    BY <1>10, <1>a, <1>b, <1>c, <1>d, <1>e, <2>2 DEF RemoveManifest, TypeOK, PurgeInv,
        OwnerInv, TimeInv, NoManifest
  <2>9. AtHome'
    BY <1>10, <1>a DEF RemoveManifest, TypeOK, AtHome, PathInv, NoManifest
  <2> QED BY <1>0, <2>2, <2>3, <2>4, <2>5, <2>6, <2>7, <2>8, <2>9
<1>11. CASE RemovePayload(w)
  <2>2. \A i \in Ids, v \in Workers :
           (Owns(v, i)' => Owns(v, i)) /\ (NoOwner(i) => NoOwner(i)')
    BY <1>11 DEF RemovePayload, TypeOK, NoOwner, Owns
  <2>3. ClaimedInv'
    BY <1>11, <1>a DEF RemovePayload, TypeOK, ClaimedInv
  <2>4. PathInv'
    BY <1>11, <1>a DEF RemovePayload, TypeOK, PathInv, AtHome, Readable
  <2>5. OwnerInv'
    BY <1>11, <1>a, <1>d, <2>2 DEF RemovePayload, TypeOK, OwnerInv
  <2>6. HeldInv'
    BY <1>11, <1>a DEF RemovePayload, TypeOK, HeldInv, OwnerInv, NoOwner, Owns
  <2>7. TimeInv'
    BY <1>11, <1>a, <1>b, <1>c, <1>d, <1>e DEF RemovePayload, TypeOK, TimeInv,
        ClaimedInv, Readable
  <2>8. PurgeInv'
    BY <1>11, <1>a, <1>b, <1>c, <1>d, <1>e, <2>2 DEF RemovePayload, TypeOK, PurgeInv,
        OwnerInv, TimeInv
  <2>9. AtHome'
    BY <1>11, <1>a DEF RemovePayload, TypeOK, AtHome, PathInv
  <2> QED BY <1>0, <2>2, <2>3, <2>4, <2>5, <2>6, <2>7, <2>8, <2>9
<1>12. CASE RemoveDirectory(w)
  <2>1. \A v \in Workers : worker'[v] = IF v = w THEN Idle ELSE worker[v]
    BY <1>12, <1>f DEF RemoveDirectory
  <2>2. \A i \in Ids, v \in Workers :
           (Owns(v, i)' => Owns(v, i)) /\ (NoOwner(i) => NoOwner(i)')
    BY <1>12, <1>g, <2>1 DEF RemoveDirectory, Thread, TypeOK, NoOwner, Owns
  <2>3. ClaimedInv'
    BY <1>12, <1>a, <1>g, <2>1 DEF RemoveDirectory, Thread, TypeOK, ClaimedInv
  <2>4. PathInv'
    BY <1>12, <1>a, <1>g, <2>1 DEF RemoveDirectory, Thread, TypeOK, PathInv, AtHome,
        Readable
  <2>5. OwnerInv'
    BY <1>12, <1>a, <1>d, <1>g, <2>1, <2>2 DEF RemoveDirectory, Thread, TypeOK, OwnerInv
  <2>6. HeldInv'
    BY <1>12, <1>a, <1>g, <2>1 DEF RemoveDirectory, Thread, TypeOK, HeldInv, OwnerInv,
        NoOwner, Owns
  <2>7. TimeInv'
    BY <1>12, <1>a, <1>b, <1>c, <1>d, <1>e, <1>g, <2>1 DEF RemoveDirectory, Thread,
        TypeOK, TimeInv, ClaimedInv, Readable
  <2>8. PurgeInv'
    BY <1>12, <1>a, <1>b, <1>c, <1>d, <1>e, <1>g, <2>1, <2>2 DEF RemoveDirectory, Thread,
        TypeOK, PurgeInv, OwnerInv, TimeInv
  <2>9. AtHome'
    BY <1>12, <1>a, <1>g, <2>1 DEF RemoveDirectory, Thread, TypeOK, AtHome, PathInv
  <2> QED BY <1>0, <2>2, <2>3, <2>4, <2>5, <2>6, <2>7, <2>8, <2>9
<1>13. CASE RemoveFails(w)
  <2>1. \A v \in Workers : worker'[v] = IF v = w THEN Idle ELSE worker[v]
    BY <1>13, <1>f DEF RemoveFails
  <2>2. \A i \in Ids, v \in Workers :
           (Owns(v, i)' => Owns(v, i)) /\ (NoOwner(i) => NoOwner(i)')
    BY <1>13, <1>g, <2>1 DEF RemoveFails, Thread, TypeOK, NoOwner, Owns
  <2>3. ClaimedInv'
    BY <1>13, <1>a, <1>g, <2>1 DEF RemoveFails, Thread, TypeOK, ClaimedInv
  <2>4. PathInv'
    BY <1>13, <1>a, <1>g, <2>1 DEF RemoveFails, Thread, TypeOK, PathInv, AtHome, Readable
  <2>5. OwnerInv'
    BY <1>13, <1>a, <1>d, <1>g, <2>1, <2>2 DEF RemoveFails, Thread, TypeOK, OwnerInv
  <2>6. HeldInv'
    BY <1>13, <1>a, <1>g, <2>1 DEF RemoveFails, Thread, TypeOK, HeldInv, OwnerInv,
        NoOwner, Owns
  <2>7. TimeInv'
    BY <1>13, <1>a, <1>b, <1>c, <1>d, <1>e, <1>g, <2>1 DEF RemoveFails, Thread, TypeOK,
        TimeInv, ClaimedInv, Readable
  <2>8. PurgeInv'
    BY <1>13, <1>a, <1>b, <1>c, <1>d, <1>e, <1>g, <2>1, <2>2 DEF RemoveFails, Thread,
        TypeOK, PurgeInv, OwnerInv, TimeInv
  <2>9. AtHome'
    BY <1>13, <1>a, <1>g, <2>1 DEF RemoveFails, Thread, TypeOK, AtHome, PathInv
  <2> QED BY <1>0, <2>2, <2>3, <2>4, <2>5, <2>6, <2>7, <2>8, <2>9
<1>14. CASE TornWrite(w)
  <2>1. \A v \in Workers : worker'[v] = IF v = w THEN Idle ELSE worker[v]
    BY <1>14, <1>f DEF TornWrite
  <2>2. \A i \in Ids, v \in Workers :
           (Owns(v, i)' => Owns(v, i)) /\ (NoOwner(i) => NoOwner(i)')
    BY <1>14, <1>g, <2>1 DEF TornWrite, Thread, TypeOK, NoOwner, Owns, TornManifest
  <2>3. ClaimedInv'
    BY <1>14, <1>a, <1>g, <2>1 DEF TornWrite, Thread, TypeOK, ClaimedInv, TornManifest
  <2>4. PathInv'
    BY <1>14, <1>a, <1>g, <2>1 DEF TornWrite, Thread, TypeOK, PathInv, AtHome, Readable,
        TornManifest
  <2>5. OwnerInv'
    BY <1>14, <1>a, <1>d, <1>g, <2>1, <2>2 DEF TornWrite, Thread, TypeOK, OwnerInv,
        TornManifest
  <2>6. HeldInv'
    BY <1>14, <1>a, <1>g, <2>1 DEF TornWrite, Thread, TypeOK, HeldInv, OwnerInv, NoOwner,
        Owns, TornManifest
  <2>7. TimeInv'
    BY <1>14, <1>a, <1>b, <1>c, <1>d, <1>e, <1>g, <2>1, SMTT(60)
       DEF TornWrite, Thread, TypeOK, TimeInv, ClaimedInv, Readable, TornManifest
  <2>8. PurgeInv'
    BY <1>14, <1>a, <1>b, <1>c, <1>d, <1>e, <1>g, <2>1, <2>2 DEF TornWrite, Thread,
        TypeOK, PurgeInv, OwnerInv, TimeInv, TornManifest
  <2>9. AtHome'
    BY <1>14, <1>a, <1>g, <2>1 DEF TornWrite, Thread, TypeOK, AtHome, PathInv, TornManifest
  <2> QED BY <1>0, <2>2, <2>3, <2>4, <2>5, <2>6, <2>7, <2>8, <2>9
<1> QED
  BY <1>1, <1>2, <1>3, <1>4, <1>5, <1>6, <1>7, <1>8, <1>9, <1>10, <1>11, <1>12, <1>13,
      <1>14 DEF Step

\* A step that claims no id for the second time is a step.
LEMMA FreshIsNext == [FreshNext]_vars => [Next]_vars
  BY DEF FreshNext, Next

\* Every step of the whole system keeps the inductive invariant, as long as no
\* id is claimed twice.
LEMMA NextInv == IInv /\ [FreshNext]_vars => IInv'
<1> SUFFICES ASSUME IInv, [FreshNext]_vars PROVE IInv'
  OBVIOUS
<1> USE DEF IInv
<1>0. TypeOK'
  BY FreshIsNext, NextType
<1>1. ASSUME NEW w \in Workers, Step(w), NoReuse PROVE IInv'
  BY <1>1, StepInv
<1>2. CASE Environment
  <2>1. UNCHANGED <<dirs, manifest, payload, worker, clock, birth, doomed>>
    BY <1>2 DEF Environment, Appear, UserDeletes
  <2>2. AtHome'
    BY <1>2, ConstantsAssumption DEF Environment, Appear, UserDeletes, AtHome, TypeOK
  <2>3. \A i \in Ids, w \in Workers : (Owns(w, i)' <=> Owns(w, i)) /\ (NoOwner(i)' <=> NoOwner(i))
    BY <2>1 DEF Owns, NoOwner
  <2> QED BY <1>0, <2>1, <2>2, <2>3
          DEF ClaimedInv, PathInv, OwnerInv, HeldInv, TimeInv, PurgeInv, Readable, NoOwner, Owns
<1>3. CASE Crash
  <2>1. \A w \in Workers : worker'[w].pc = "idle" /\ worker'[w].id[1] = 0
    BY <1>3 DEF Crash, Idle, Thread
  <2>2. \A i \in Ids : NoOwner(i)'
    BY <2>1 DEF NoOwner, Owns
  <2>3. clock \in Nat
    BY ConstantsAssumption DEF TypeOK
  <2>4. \A i \in Ids, w \in Workers : ~Owns(w, i)'
    BY <2>1 DEF Owns
  <2> QED BY <1>0, <1>3, <2>1, <2>2, <2>3, <2>4
          DEF Crash, AtHome, ClaimedInv, PathInv, OwnerInv, HeldInv, TimeInv, PurgeInv, Readable
<1>4. CASE Tick
  <2>1. clock \in Nat /\ clock' = clock + 1 /\ Retention \in Nat
    BY <1>4, ConstantsAssumption DEF Tick, TypeOK
  <2>2. \A w \in Workers : worker[w].id[1] \in Nat
    BY ConstantsAssumption DEF TypeOK, Threads, Ids
  <2>3. \A i \in Ids : i[1] \in Nat
    BY ConstantsAssumption DEF Ids
  <2>4. TimeInv' /\ PurgeInv'
    BY <1>4, <2>1, <2>2, <2>3 DEF Tick, TimeInv, PurgeInv, Readable, NoOwner, Owns, TypeOK
  <2> QED BY <1>0, <1>4, <2>4
          DEF Tick, AtHome, ClaimedInv, PathInv, OwnerInv, HeldInv, Readable, NoOwner, Owns
<1>5. CASE UNCHANGED vars
  BY <1>0, <1>5 DEF vars, AtHome, ClaimedInv, PathInv, OwnerInv, HeldInv, TimeInv, PurgeInv,
                    Readable, NoOwner, Owns
<1> QED
  BY <1>1, <1>2, <1>3, <1>4, <1>5 DEF FreshNext

\* The store starts empty, which satisfies the inductive invariant.
LEMMA InitInv == Init => IInv
<1> SUFFICES ASSUME Init PROVE IInv
  OBVIOUS
<1>1. TypeOK
  BY InitType
<1>2. AtHome
  BY ConstantsAssumption DEF Init, AtHome
<1>3. \A w \in Workers : worker[w].pc = "idle" /\ worker[w].id[1] = 0
  BY DEF Init, Idle, Thread
<1>4. \A i \in Ids : manifest[i].label = "none" /\ payload[i] = Nothing
  BY DEF Init, NoManifest
<1>5. \A w \in Workers, i \in Ids : ~Owns(w, i)
  BY <1>3 DEF Owns
<1>6. dirs = {} /\ clock = 0
  BY DEF Init
<1> QED
  BY <1>1, <1>2, <1>3, <1>4, <1>5, <1>6
     DEF IInv, ClaimedInv, PathInv, OwnerInv, HeldInv, TimeInv, PurgeInv, Readable

\* The inductive invariant holds in every state of a run without id reuse.
LEMMA Inductive == FreshSpec => []IInv
  BY InitInv, NextInv, PTL DEF FreshSpec

\* Without id reuse, a held payload always lies beside a readable manifest that
\* names its own home, unless its deletion was asked for: take writes the
\* manifest first, and no other thread, failure or crash takes it away.
THEOREM LabelledAlways == FreshSpec => []Labelled
<1>1. IInv => Labelled
  BY DEF IInv, Labelled, HeldInv, PathInv, Readable
<1> QED
  BY <1>1, Inductive, PTL

\* Without id reuse, restore puts everything back at its own home, whatever the
\* other threads do.
THEOREM AtHomeAlways == FreshSpec => []AtHome
<1>1. IInv => AtHome
  BY DEF IInv
<1> QED
  BY <1>1, Inductive, PTL

\* Only one action of the store destroys a payload: remove_dir_all.
LEMMA OnlyRemovalDestroys ==
  ASSUME TypeOK, [Next]_vars, NEW c \in Contents,
         fate[c] = "alive", fate'[c] \in {"delete", "purge", "cleanup"}
  PROVE  \E w \in Workers : RemovePayload(w) /\ payload[worker[w].id] = c
                            /\ fate'[c] = worker[w].op /\ UNCHANGED clock
<1>1. ASSUME NEW w \in Workers, Step(w)
      PROVE  RemovePayload(w) \/ fate' = fate
                \/ \E d \in Contents : fate' = [fate EXCEPT ![d] = "overwritten"]
  <2>1. CASE MoveIn(w) \/ PutBack(w)
    <3>1. worker[w].id \in Ids /\ worker[w].path \in Paths
      BY DEF TypeOK, Threads
    <3> QED BY <2>1, <3>1 DEF MoveIn, PutBack, Replaced, TypeOK
  <2>2. CASE ~(MoveIn(w) \/ PutBack(w))
    BY <1>1, <2>2 DEF Step, TakeStart, Claim, WriteManifest, RestoreStart, Mark,
                      DeleteStart, PurgeStart, RemoveManifest, RemoveDirectory, RemoveFails, TornWrite
  <2> QED BY <2>1, <2>2
<1>2. ASSUME NEW w \in Workers, RemovePayload(w) 
      PROVE  payload[worker[w].id] = c /\ fate'[c] = worker[w].op /\ UNCHANGED clock
  <2>1. worker[w].id \in Ids /\ payload[worker[w].id] \in Contents
    BY <1>2 DEF TypeOK, Threads, RemovePayload
  <2>2. fate' = [fate EXCEPT ![payload[worker[w].id]] = worker[w].op] /\ UNCHANGED clock
    BY <1>2 DEF RemovePayload
  <2> QED BY <2>1, <2>2 DEF TypeOK
<1>3. CASE Environment \/ Crash \/ Tick \/ UNCHANGED vars
  BY <1>3 DEF Environment, Appear, UserDeletes, Crash, Tick, vars, TypeOK
<1>4. CASE \E w \in Workers : Step(w)
  BY <1>1, <1>2, <1>4 DEF TypeOK
<1> QED
  BY <1>3, <1>4 DEF Next

\* Without id reuse, the store destroys a content only where somebody asked for
\* the deletion of that very item; the clearing up of a failed take, and a
\* deletion of another item, destroy nothing.
THEOREM DestroyedOnRequestAlways == FreshSpec => DestroyedOnRequest
<1>1. IInv /\ [FreshNext]_vars =>
        [\A c \in Contents :
            fate[c] = "alive" /\ fate'[c] \in {"delete", "purge", "cleanup"} =>
                \E i \in doomed : payload[i] = c]_vars
  <2> SUFFICES ASSUME IInv, [FreshNext]_vars, NEW c \in Contents,
                      fate[c] = "alive", fate'[c] \in {"delete", "purge", "cleanup"}
               PROVE  \E i \in doomed : payload[i] = c
    OBVIOUS
  <2>1. PICK w \in Workers : RemovePayload(w) /\ payload[worker[w].id] = c
    BY OnlyRemovalDestroys, FreshIsNext DEF IInv
  <2>2. worker[w].pc = "remove" /\ c # Nothing /\ worker[w].id \in Ids
    BY <2>1, ConstantsAssumption DEF RemovePayload, IInv, TypeOK, Threads
  <2>3. worker[w].op # "cleanup"
    BY <2>1, <2>2 DEF IInv, OwnerInv, NoOwner, Owns
  <2> QED BY <2>1, <2>2, <2>3 DEF IInv, HeldInv
<1> QED
  BY <1>1, Inductive, PTL DEF FreshSpec, DestroyedOnRequest

\* Without id reuse, what purge destroys has been held for the whole retention,
\* even if the manifest it read had changed by the time it removed the item.
THEOREM PurgeHonoursRetentionAlways == FreshSpec => PurgeHonoursRetention
<1>1. IInv /\ Conserved /\ [FreshNext]_vars =>
        [\A i \in Ids :
            payload[i] # Nothing /\ (\E c \in Contents :
                c = payload[i] /\ fate'[c] = "purge" /\ fate[c] = "alive") =>
                    clock >= i[1] + Retention]_vars
  <2> SUFFICES ASSUME IInv, Conserved, [FreshNext]_vars, NEW i \in Ids, NEW c \in Contents,
                      payload[i] = c, fate'[c] = "purge", fate[c] = "alive"
               PROVE  clock >= i[1] + Retention
    OBVIOUS
  <2>1. PICK w \in Workers : /\ RemovePayload(w) /\ payload[worker[w].id] = c
                             /\ fate'[c] = worker[w].op
    BY OnlyRemovalDestroys, FreshIsNext DEF IInv
  <2>2. /\ worker[w].pc = "remove" /\ worker[w].op = "purge"
        /\ c # Nothing /\ worker[w].id \in Ids
    BY <2>1, ConstantsAssumption DEF RemovePayload, IInv, TypeOK, Threads
  <2>3. worker[w].id = i
    BY <2>1, <2>2 DEF Conserved
  <2> QED BY <2>1, <2>2, <2>3 DEF IInv, PurgeInv
<1>2. FreshSpec => Spec
  BY FreshIsNext, PTL DEF FreshSpec, Spec
<1> QED
  BY <1>1, <1>2, Inductive, ConservedAlways, PTL DEF FreshSpec, PurgeHonoursRetention

-----------------------------------------------------------------------------
(* One request at a time, with ids reused as the code reuses them.  What   *)
(* a request saw when it started is still so at its rename, which is what  *)
(* makes the rename replace nothing and move one content.                  *)

\* At most one thread serves a request.
AloneInv ==
    \A v, w \in Workers : v # w => worker[v].pc = "idle" \/ worker[w].pc = "idle"

\* A directory that is not there holds nothing, and a manifest beside a payload
\* says the home of that payload.
TreeInv ==
    /\ \A i \in Ids : i \notin dirs => manifest[i].label = "none" /\ payload[i] = Nothing
    /\ \A i \in Ids : payload[i] # Nothing /\ manifest[i].label = "held" =>
          manifest[i].path = Home[payload[i]]

\* Up to its rename, a take still has before it what its checks saw, and the
\* directory it claimed is empty but for its own manifest.
TakeSees(w) ==
    /\ worker[w].pc \in {"claim", "label", "move"} =>
          /\ files[worker[w].path] # Nothing /\ files[worker[w].path] \notin Links
          /\ worker[w].path \notin Barred
    /\ worker[w].pc \in {"label", "move"} => payload[worker[w].id] = Nothing
    /\ worker[w].pc = "label" => worker[w].id \in dirs
    /\ worker[w].pc = "move" => manifest[worker[w].id].path = worker[w].path

\* Up to its rename, a restore still finds the name free and the manifest as it
\* read it; after it, the payload is gone.
RestoreSees(w) ==
    /\ worker[w].pc = "putback" =>
          /\ files[worker[w].path] = Nothing
          /\ manifest[worker[w].id].label = "held"
          /\ manifest[worker[w].id].path = worker[w].path
    /\ worker[w].pc = "mark" => payload[worker[w].id] = Nothing

RequestInv == \A w \in Workers : TakeSees(w) /\ RestoreSees(w)

SerialInv ==
    /\ TypeOK /\ Conserved /\ AtHome /\ NeverOverwritten
    /\ AloneInv /\ TreeInv /\ RequestInv

\* A step of one thread changes no other thread.
LEMMA OneMoves ==
  ASSUME TypeOK, NEW w \in Workers, Step(w), NEW v \in Workers, v # w
  PROVE  worker'[v] = worker[v]
<1>1. UNCHANGED worker \/ \E t : worker' = [worker EXCEPT ![w] = t]
  BY DEF Step, TakeStart, Claim, WriteManifest, MoveIn, RestoreStart, PutBack, Mark,
         DeleteStart, PurgeStart, RemoveManifest, RemovePayload, RemoveDirectory,
         RemoveFails, TornWrite, Become, Goto
<1> QED BY <1>1 DEF TypeOK

\* A thread that is idle has nothing to remember.
LEMMA IdleSees ==
  ASSUME NEW w \in Workers, worker[w].pc = "idle" PROVE TakeSees(w) /\ RestoreSees(w)
  BY DEF TakeSees, RestoreSees

\* What a request starts from and leaves behind, when it is served alone.
LEMMA SerialStep ==
  ASSUME SerialInv, NEW w \in Workers, Others(w), Step(w)
  PROVE  SerialInv'
<1>0. TypeOK /\ Conserved /\ AtHome /\ NeverOverwritten /\ AloneInv /\ TreeInv /\ RequestInv
  BY DEF SerialInv
<1>1. TypeOK' /\ Conserved'
  BY <1>0, StepType, StepConserved
<1>2. \A v \in Workers \ {w} : worker'[v] = worker[v] /\ worker[v].pc = "idle"
  BY <1>0, OneMoves DEF Others
<1>3. AloneInv'
  BY <1>2 DEF AloneInv
<1>4. SUFFICES /\ AtHome' /\ NeverOverwritten' /\ TreeInv'
               /\ TakeSees(w)' /\ RestoreSees(w)'
  <2>1. \A v \in Workers \ {w} : TakeSees(v)' /\ RestoreSees(v)'
    BY <1>2 DEF TakeSees, RestoreSees
  <2>2. RequestInv'
    BY <1>4, <2>1 DEF RequestInv
  <2> QED BY <1>1, <1>3, <1>4, <2>2 DEF SerialInv
<1> DEFINE i == worker[w].id
           p == worker[w].path
<1>5. i \in Ids /\ p \in Paths /\ Nothing \notin Contents
  BY <1>0, ConstantsAssumption DEF TypeOK, Threads
<1>6. TakeSees(w) /\ RestoreSees(w)
  BY <1>0 DEF RequestInv
<1>7. \A t : Become(w, t) => worker'[w] = t
  BY <1>0 DEF Become, TypeOK
<1>8. Idle.pc = "idle"
  BY DEF Idle, Thread
<1>9. UNCHANGED <<files, fate>> => AtHome' /\ NeverOverwritten'
  BY <1>0 DEF AtHome, NeverOverwritten
<1>10. UNCHANGED <<dirs, manifest, payload>> => TreeInv'
  BY <1>0 DEF TreeInv
<1>11. Become(w, Idle) => TakeSees(w)' /\ RestoreSees(w)'
  BY <1>7, <1>8 DEF TakeSees, RestoreSees
<1>12. ASSUME NEW q \in Paths, TakeStart(w, q)
       PROVE  /\ AtHome' /\ NeverOverwritten' /\ TreeInv'
              /\ TakeSees(w)' /\ RestoreSees(w)'
  <2>1. worker'[w] = Thread("claim", "take", <<0, 0>>, q, 0)
    BY <1>7, <1>12 DEF TakeStart
  <2>2. TakeSees(w)' /\ RestoreSees(w)'
    BY <1>12, <2>1 DEF TakeStart, TakeSees, RestoreSees, Thread
  <2> QED BY <1>9, <1>10, <1>12, <2>2 DEF TakeStart
<1>13. CASE Claim(w)
  <2>1. PICK j : /\ j = <<IF i[2] = 0 THEN clock ELSE i[1], i[2]>>
                 /\ \/ /\ j \notin dirs /\ dirs' = dirs \cup {j}
                       /\ Become(w, Thread("label", "take", j, p, 0))
                    \/ /\ UNCHANGED dirs
                       /\ Become(w, Thread("claim", "take", <<j[1], i[2] + 1>>, p, 0))
                    \/ UNCHANGED dirs /\ Become(w, Idle)
    BY <1>13 DEF Claim
  <2>2. worker[w].pc = "claim" /\ UNCHANGED <<files, manifest, payload, clock, fate>>
    BY <1>13 DEF Claim
  <2>3. j \in Ids
    BY <1>0, <1>5, <2>1 DEF Ids, TypeOK
  <2>4. TreeInv'
    BY <1>0, <2>1, <2>2 DEF TreeInv
  <2>5. AtHome' /\ NeverOverwritten'
    BY <1>9, <2>2
  <2>6. CASE Become(w, Idle)
    BY <1>11, <2>4, <2>5, <2>6
  <2>7. CASE Become(w, Thread("claim", "take", <<j[1], i[2] + 1>>, p, 0))
    <3>1. worker'[w] = Thread("claim", "take", <<j[1], i[2] + 1>>, p, 0)
      BY <1>7, <2>7
    <3>2. worker'[w].pc = "claim" /\ worker'[w].path = p
      BY <3>1 DEF Thread
    <3>3. TakeSees(w)' /\ RestoreSees(w)'
      BY <1>6, <2>2, <3>2 DEF TakeSees, RestoreSees
    <3> QED BY <2>4, <2>5, <3>3
  <2>8. CASE /\ j \notin dirs /\ dirs' = dirs \cup {j}
             /\ Become(w, Thread("label", "take", j, p, 0))
    <3>1. worker'[w] = Thread("label", "take", j, p, 0)
      BY <1>7, <2>8
    <3>2. worker'[w].pc = "label" /\ worker'[w].path = p /\ worker'[w].id = j
      BY <3>1 DEF Thread
    <3>3. payload[j] = Nothing /\ j \in dirs'
      BY <1>0, <2>3, <2>8 DEF TreeInv
    <3>4. TakeSees(w)' /\ RestoreSees(w)'
      BY <1>6, <2>2, <3>2, <3>3 DEF TakeSees, RestoreSees
    <3> QED BY <2>4, <2>5, <3>4
  <2> QED BY <2>1, <2>6, <2>7, <2>8
<1>14. CASE WriteManifest(w)
  <2>1. /\ worker[w].pc = "label" /\ i \in dirs /\ payload[i] = Nothing
        /\ UNCHANGED <<files, dirs, payload, clock, fate>>
    BY <1>6, <1>14 DEF WriteManifest, TakeSees
  <2>2. /\ manifest' = [manifest EXCEPT ![i] =
              [label |-> "held", path |-> p, at |-> clock]]
        /\ worker'[w] = Thread("move", worker[w].op, i, p, worker[w].at)
    BY <1>7, <1>14, <2>1 DEF WriteManifest, Goto
  <2>3. /\ \A j \in Ids : j # i => manifest'[j] = manifest[j]
        /\ manifest'[i].path = p
    BY <1>0, <1>5, <2>2 DEF TypeOK
  <2>4. TreeInv'
    BY <1>0, <2>1, <2>3 DEF TreeInv
  <2>5. worker'[w].pc = "move" /\ worker'[w].path = p /\ worker'[w].id = i
    BY <2>2 DEF Thread
  <2>6. TakeSees(w)' /\ RestoreSees(w)'
    BY <1>6, <2>1, <2>3, <2>5 DEF TakeSees, RestoreSees
  <2> QED BY <1>9, <2>1, <2>4, <2>6
<1>15. CASE MoveIn(w)
  <2>1. /\ worker[w].pc = "move" /\ files[p] # Nothing
        /\ payload[i] = Nothing /\ manifest[i].path = p
        /\ UNCHANGED <<dirs, manifest, clock>>
    BY <1>6, <1>15 DEF MoveIn, TakeSees
  <2>2. CASE Become(w, Thread("remove", "cleanup", i, p, 0)) /\ UNCHANGED <<payload, files, fate>>
    <3>1. worker'[w] = Thread("remove", "cleanup", i, p, 0)
      BY <1>7, <2>2
    <3>2. TakeSees(w)' /\ RestoreSees(w)'
      BY <3>1 DEF TakeSees, RestoreSees, Thread
    <3> QED BY <1>9, <1>10, <2>1, <2>2, <3>2
  <2>3. CASE /\ i \in dirs /\ payload' = [payload EXCEPT ![i] = files[p]]
             /\ files' = [files EXCEPT ![p] = Nothing]
             /\ fate' = Replaced(payload[i]) /\ Become(w, Idle)
    <3>1. fate' = fate
      BY <2>1, <2>3 DEF Replaced
    <3>2. /\ \A j \in Ids : payload'[j] = IF j = i THEN files[p] ELSE payload[j]
          /\ \A r \in Paths : files'[r] = IF r = p THEN Nothing ELSE files[r]
      BY <1>0, <2>3 DEF TypeOK
    <3>3. Home[files[p]] = p
      BY <1>0, <1>5, <2>1 DEF AtHome
    <3>4. TreeInv'
      BY <1>0, <1>5, <2>1, <2>3, <3>2, <3>3 DEF TreeInv
    <3>5. AtHome' /\ NeverOverwritten'
      BY <1>0, <3>1, <3>2 DEF AtHome, NeverOverwritten
    <3> QED BY <1>11, <2>3, <3>4, <3>5
  <2> QED BY <1>15, <2>2, <2>3 DEF MoveIn
<1>16. ASSUME NEW j \in Ids, RestoreStart(w, j)
       PROVE  /\ AtHome' /\ NeverOverwritten' /\ TreeInv'
              /\ TakeSees(w)' /\ RestoreSees(w)'
  <2>1. worker'[w] = Thread("putback", "restore", j, manifest[j].path, manifest[j].at)
    BY <1>7, <1>16 DEF RestoreStart
  <2>2. TakeSees(w)' /\ RestoreSees(w)'
    BY <1>16, <2>1 DEF RestoreStart, TakeSees, RestoreSees, Thread
  <2> QED BY <1>9, <1>10, <1>16, <2>2 DEF RestoreStart
<1>17. CASE PutBack(w)
  <2>1. /\ worker[w].pc = "putback" /\ files[p] = Nothing
        /\ manifest[i].label = "held" /\ manifest[i].path = p
        /\ UNCHANGED <<dirs, manifest, clock>>
    BY <1>6, <1>17 DEF PutBack, RestoreSees
  <2>2. CASE Become(w, Idle) /\ UNCHANGED <<files, payload, fate>>
    BY <1>9, <1>10, <1>11, <2>1, <2>2
  <2>3. CASE /\ Renamable(payload[i], files[p])
             /\ files' = [files EXCEPT ![p] = payload[i]]
             /\ payload' = [payload EXCEPT ![i] = Nothing]
             /\ fate' = Replaced(files[p]) /\ Goto(w, "mark")
    <3>1. fate' = fate
      BY <2>1, <2>3 DEF Replaced
    <3>2. /\ \A j \in Ids : payload'[j] = IF j = i THEN Nothing ELSE payload[j]
          /\ \A r \in Paths : files'[r] = IF r = p THEN payload[i] ELSE files[r]
      BY <1>0, <2>3 DEF TypeOK
    <3>3. Home[payload[i]] = p
      BY <1>0, <1>5, <2>1, <2>3 DEF TreeInv, Renamable
    <3>4. TreeInv'
      BY <1>0, <2>1, <3>2 DEF TreeInv
    <3>5. AtHome' /\ NeverOverwritten'
      BY <1>0, <3>1, <3>2, <3>3 DEF AtHome, NeverOverwritten
    <3>6. worker'[w].pc = "mark" /\ worker'[w].id = i
      BY <1>7, <2>3 DEF Goto, Thread
    <3>7. TakeSees(w)' /\ RestoreSees(w)'
      BY <1>5, <3>2, <3>6 DEF TakeSees, RestoreSees
    <3> QED BY <3>4, <3>5, <3>7
  <2> QED BY <1>17, <2>2, <2>3 DEF PutBack
<1>18. CASE Mark(w)
  <2>1. /\ Become(w, Idle) /\ UNCHANGED <<files, dirs, payload, fate>>
        /\ payload[i] = Nothing
    BY <1>6, <1>18 DEF Mark, RestoreSees
  <2>2. TreeInv'
    BY <1>0, <1>5, <1>18, <2>1 DEF Mark, TreeInv, TypeOK
  <2> QED BY <1>9, <1>11, <2>1, <2>2
<1>19. ASSUME NEW j \in Ids, DeleteStart(w, j) \/ PurgeStart(w, j)
       PROVE  /\ AtHome' /\ NeverOverwritten' /\ TreeInv'
              /\ TakeSees(w)' /\ RestoreSees(w)'
  <2>1. /\ \E op : worker'[w] = Thread("remove", op, j, AnyPath, 0)
        /\ UNCHANGED <<files, dirs, manifest, payload, fate>>
    BY <1>7, <1>19 DEF DeleteStart, PurgeStart
  <2>2. TakeSees(w)' /\ RestoreSees(w)'
    BY <2>1 DEF TakeSees, RestoreSees, Thread
  <2> QED BY <1>9, <1>10, <2>1, <2>2
<1>20. CASE RemoveManifest(w)
  <2>1. /\ worker[w].pc = "remove" /\ manifest' = [manifest EXCEPT ![i] = NoManifest]
        /\ UNCHANGED <<files, dirs, payload, worker, fate>>
    BY <1>20 DEF RemoveManifest
  <2>2. TreeInv'
    BY <1>0, <1>5, <2>1 DEF TreeInv, TypeOK, NoManifest
  <2>3. TakeSees(w)' /\ RestoreSees(w)'
    BY <2>1 DEF TakeSees, RestoreSees
  <2> QED BY <1>9, <2>1, <2>2, <2>3
<1>21. CASE RemovePayload(w)
  <2>1. /\ worker[w].pc = "remove" /\ payload' = [payload EXCEPT ![i] = Nothing]
        /\ UNCHANGED <<files, dirs, manifest, worker>>
        /\ fate' = [fate EXCEPT ![payload[i]] = worker[w].op]
        /\ worker[w].op # "overwritten"
    BY <1>0, <1>21 DEF RemovePayload, TypeOK
  <2>2. TreeInv'
    BY <1>0, <1>5, <2>1 DEF TreeInv, TypeOK
  <2>3. TakeSees(w)' /\ RestoreSees(w)'
    BY <2>1 DEF TakeSees, RestoreSees
  <2>4. AtHome' /\ NeverOverwritten'
    BY <1>0, <1>5, <2>1 DEF AtHome, NeverOverwritten, TypeOK
  <2> QED BY <2>2, <2>3, <2>4
<1>22. CASE RemoveDirectory(w)
  <2>1. TreeInv'
    BY <1>0, <1>22 DEF RemoveDirectory, TreeInv
  <2> QED BY <1>9, <1>11, <1>22, <2>1 DEF RemoveDirectory
<1>23. CASE RemoveFails(w)
  BY <1>9, <1>10, <1>11, <1>23 DEF RemoveFails
<1>24. CASE TornWrite(w)
  <2>1. /\ Become(w, Idle) /\ UNCHANGED <<files, dirs, payload, fate>>
        /\ i \in dirs /\ payload[i] = Nothing
    BY <1>6, <1>24 DEF TornWrite, TakeSees, RestoreSees
  <2>2. TreeInv'
    BY <1>0, <1>5, <1>24, <2>1 DEF TornWrite, TreeInv, TypeOK, TornManifest
  <2> QED BY <1>9, <1>11, <2>1, <2>2
<1> QED
  BY <1>12, <1>13, <1>14, <1>15, <1>16, <1>17, <1>18, <1>19, <1>20, <1>21, <1>22, <1>23,
     <1>24 DEF Step

\* A step of a run with one request at a time is a step.
LEMMA SerialIsNext == [SerialNext]_vars => [Next]_vars
  BY DEF SerialNext, Next

\* Every step of a run with one request at a time keeps its invariant.
LEMMA SerialNextInv == SerialInv /\ Conserved' /\ [SerialNext]_vars => SerialInv'
<1> SUFFICES ASSUME SerialInv, Conserved', [SerialNext]_vars PROVE SerialInv'
  OBVIOUS
<1>0. TypeOK /\ AtHome /\ NeverOverwritten /\ AloneInv /\ TreeInv /\ RequestInv
  BY DEF SerialInv
<1>1. TypeOK'
  BY <1>0, SerialIsNext, NextType
<1>2. ASSUME NEW w \in Workers, Others(w), Step(w) PROVE SerialInv'
  BY <1>2, SerialStep
<1>3. CASE (\A w \in Workers : worker[w].pc = "idle") /\ Environment
  <2>1. UNCHANGED <<dirs, manifest, payload, worker>>
    BY <1>3 DEF Environment, Appear, UserDeletes
  <2>2. AtHome' /\ NeverOverwritten'
    BY <1>0, <1>3, ConstantsAssumption
       DEF Environment, Appear, UserDeletes, AtHome, NeverOverwritten, TypeOK
  <2>3. AloneInv' /\ TreeInv'
    BY <1>0, <2>1 DEF AloneInv, TreeInv
  <2>4. RequestInv'
    BY <1>3, <2>1 DEF RequestInv, TakeSees, RestoreSees
  <2> QED BY <1>1, <2>2, <2>3, <2>4 DEF SerialInv
<1>4. CASE Crash
  <2>1. \A w \in Workers : worker'[w].pc = "idle"
    BY <1>4 DEF Crash, Idle, Thread
  <2>2. AloneInv' /\ RequestInv'
    BY <2>1 DEF AloneInv, RequestInv, TakeSees, RestoreSees
  <2>3. AtHome' /\ NeverOverwritten' /\ TreeInv'
    BY <1>0, <1>4 DEF Crash, AtHome, NeverOverwritten, TreeInv
  <2> QED BY <1>1, <2>2, <2>3 DEF SerialInv
<1>5. CASE Tick \/ UNCHANGED vars
  <2>1. UNCHANGED <<files, dirs, manifest, payload, worker, fate>>
    BY <1>5 DEF Tick, vars
  <2> QED BY <1>0, <1>1, <2>1
          DEF SerialInv, AtHome, NeverOverwritten, AloneInv, TreeInv, RequestInv, TakeSees,
              RestoreSees
<1> QED
  BY <1>2, <1>3, <1>4, <1>5 DEF SerialNext

\* The store starts empty and every thread idle.
LEMMA SerialInitInv == Init /\ Conserved => SerialInv
<1> SUFFICES ASSUME Init, Conserved PROVE SerialInv
  OBVIOUS
<1>1. TypeOK /\ AtHome
  BY InitType, InitInv DEF IInv
<1>2. NeverOverwritten /\ TreeInv
  BY DEF Init, NeverOverwritten, TreeInv, NoManifest
<1>3. \A w \in Workers : worker[w].pc = "idle"
  BY DEF Init, Idle, Thread
<1>4. AloneInv /\ RequestInv
  BY <1>3 DEF AloneInv, RequestInv, TakeSees, RestoreSees
<1> QED BY <1>1, <1>2, <1>4 DEF SerialInv

\* The invariant holds in every state of a run with one request at a time.
LEMMA SerialInductive == SerialSpec => []SerialInv
<1>1. SerialSpec => Spec
  BY SerialIsNext, PTL DEF SerialSpec, Spec
<1> QED
  BY <1>1, ConservedAlways, SerialInitInv, SerialNextInv, PTL DEF SerialSpec

\* Served one request at a time, the store never puts one file over another, with
\* ids reused, failures and crashes at every step: what take and restore look at
\* before they rename is still so when they do.
THEOREM NeverOverwrittenAlways == SerialSpec => []NeverOverwritten
<1>1. SerialInv => NeverOverwritten
  BY DEF SerialInv
<1> QED
  BY <1>1, SerialInductive, PTL

-----------------------------------------------------------------------------
(* The file-system calls of the store implement the Vault.                 *)

\* The place of a content, from its fate and what lies at its home.
LEMMA WhereIs ==
  ASSUME NEW c \in Contents
  PROVE  /\ fate[c] = "unborn" => Where[c] = "unborn"
         /\ fate[c] = "alive" /\ files[Home[c]] = c => Where[c] = "home"
         /\ fate[c] = "alive" /\ files[Home[c]] # c => Where[c] = "held"
         /\ fate[c] \notin {"unborn", "alive"} => Where[c] = "destroyed"
  BY DEF Where

\* A step that moves one content in the tree moves it alone in the Vault.
LEMMA OneContent ==
  ASSUME NEW c \in Contents, NEW place,
         Where'[c] = place,
         \A d \in Contents \ {c} : Where'[d] = Where[d]
  PROVE  V!Set(c, place)
<1>1. Where = [d \in Contents |-> Where[d]]
  BY DEF Where
<1>2. Where' = [d \in Contents |-> Where'[d]]
  BY DEF Where
<1>3. Where' = [Where EXCEPT ![c] = place]
  BY <1>1, <1>2
<1> QED BY <1>3 DEF V!Set

\* When neither the fates nor the files change, the Vault does not move.
LEMMA VaultStutters == UNCHANGED <<files, fate>> => Where' = Where
  BY DEF Where

\* A rename of take holds the content that lay at the path.
LEMMA TakeHolds ==
  ASSUME SerialInv, NEW w \in Workers, MoveIn(w)
  PROVE  V!Next \/ Where' = Where
<1> DEFINE i == worker[w].id
           p == worker[w].path
           c == files[p]
<1>0. i \in Ids /\ p \in Paths /\ Nothing \notin Contents
  BY ConstantsAssumption DEF SerialInv, TypeOK, Threads
<1>1. /\ files[p] # Nothing /\ files[p] \notin Links /\ p \notin Barred
      /\ payload[i] = Nothing
  BY DEF SerialInv, RequestInv, TakeSees, MoveIn
<1>2. CASE UNCHANGED <<payload, files, fate>>
  BY <1>2, VaultStutters
<1>3. CASE ~UNCHANGED <<payload, files, fate>>
  <2>1. files' = [files EXCEPT ![p] = Nothing] /\ fate' = fate
    BY <1>1, <1>3 DEF MoveIn, Replaced
  <2>2. c \in Contents /\ Home[c] = p /\ fate[c] = "alive"
    BY <1>0, <1>1 DEF SerialInv, TypeOK, AtHome, Conserved
  <2>3. \A r \in Paths : files'[r] = IF r = p THEN Nothing ELSE files[r]
    BY <2>1 DEF SerialInv, TypeOK
  <2>4. Where[c] = "home" /\ Where'[c] = "held"
    BY <1>0, <2>1, <2>2, <2>3 DEF Where
  <2>5. ASSUME NEW d \in Contents, d # c PROVE Where'[d] = Where[d]
    <3>1. Home[d] \in Paths
      BY ConstantsAssumption
    <3>2. files'[Home[d]] = d <=> files[Home[d]] = d
      BY <1>0, <2>3, <2>5, <3>1
    <3> QED BY <2>1, <3>2 DEF Where
  <2>6. V!Set(c, "held")
    BY <2>2, <2>4, <2>5, OneContent
  <2>7. V!Hold(c)
    BY <1>1, <2>2, <2>4, <2>6 DEF V!Hold
  <2> QED BY <2>2, <2>7 DEF V!Next
<1> QED BY <1>2, <1>3

\* A rename of restore gives the content back where its home is free.
LEMMA RestoreGivesBack ==
  ASSUME SerialInv, NEW w \in Workers, PutBack(w)
  PROVE  V!Next \/ Where' = Where
<1> DEFINE i == worker[w].id
           p == worker[w].path
           c == payload[i]
<1>0. i \in Ids /\ p \in Paths /\ Nothing \notin Contents
  BY ConstantsAssumption DEF SerialInv, TypeOK, Threads
<1>1. /\ files[p] = Nothing /\ manifest[i].label = "held" /\ manifest[i].path = p
  BY DEF SerialInv, RequestInv, RestoreSees, PutBack
<1>2. CASE UNCHANGED <<files, payload, fate>>
  BY <1>2, VaultStutters
<1>3. CASE ~UNCHANGED <<files, payload, fate>>
  <2>1. /\ files' = [files EXCEPT ![p] = payload[i]] /\ fate' = fate
        /\ payload[i] # Nothing
    BY <1>1, <1>3 DEF PutBack, Replaced, Renamable
  <2>2. c \in Contents /\ Home[c] = p /\ fate[c] = "alive"
    BY <1>0, <1>1, <2>1 DEF SerialInv, TypeOK, TreeInv, Conserved
  <2>3. \A r \in Paths : files'[r] = IF r = p THEN c ELSE files[r]
    BY <2>1 DEF SerialInv, TypeOK
  <2>4. Where[c] = "held" /\ Where'[c] = "home"
    BY <1>0, <1>1, <2>1, <2>2, <2>3 DEF Where
  <2>5. ASSUME NEW d \in Contents, d # c PROVE Where'[d] = Where[d]
    <3>1. Home[d] \in Paths
      BY ConstantsAssumption
    <3>2. files'[Home[d]] = d <=> files[Home[d]] = d
      BY <1>0, <1>1, <2>3, <2>5, <3>1
    <3> QED BY <2>1, <3>2 DEF Where
  <2>6. V!Set(c, "home")
    BY <2>2, <2>4, <2>5, OneContent
  <2>7. ASSUME NEW d \in Contents, Home[d] = p PROVE Where[d] # "home"
    BY <1>0, <1>1, <2>7 DEF Where, SerialInv, TypeOK, Fates
  <2>8. V!GiveBack(c)
    BY <2>2, <2>4, <2>6, <2>7 DEF V!GiveBack, V!HomeFree
  <2> QED BY <2>2, <2>8 DEF V!Next
<1> QED BY <1>2, <1>3

\* remove_dir_all destroys the held content.
LEMMA RemovalDestroys ==
  ASSUME SerialInv, NEW w \in Workers, RemovePayload(w)
  PROVE  V!Next
<1> DEFINE i == worker[w].id
           c == payload[i]
<1>0. i \in Ids /\ c \in Contents /\ Home[c] \in Paths
  BY ConstantsAssumption DEF SerialInv, TypeOK, Threads, RemovePayload
<1>1. fate' = [fate EXCEPT ![c] = worker[w].op] /\ UNCHANGED files
  BY DEF RemovePayload
<1>2. worker[w].op \in {"delete", "purge", "cleanup"}
  BY DEF RemovePayload, SerialInv, TypeOK
<1>3. fate[c] = "alive" /\ files[Home[c]] # c
  BY <1>0, ConstantsAssumption DEF SerialInv, Conserved
<1>4. /\ fate'[c] = worker[w].op
      /\ \A d \in Contents : d # c => fate'[d] = fate[d]
  BY <1>0, <1>1 DEF SerialInv, TypeOK
<1>5. Where[c] = "held" /\ Where'[c] = "destroyed"
  BY <1>0, <1>1, <1>2, <1>3, <1>4 DEF Where
<1>6. \A d \in Contents \ {c} : Where'[d] = Where[d]
  BY <1>1, <1>4 DEF Where
<1>7. V!Destroy(c)
  BY <1>0, <1>5, <1>6, OneContent DEF V!Destroy
<1> QED BY <1>0, <1>7 DEF V!Next

\* What the programs of the machine do around the store they do in the Vault.
LEMMA EnvironmentMoves ==
  ASSUME SerialInv, Environment
  PROVE  V!Next
<1>0. TypeOK /\ Conserved /\ AtHome /\ Nothing \notin Contents
  BY ConstantsAssumption DEF SerialInv
<1>1. ASSUME NEW c \in Contents, Appear(c) PROVE V!Next
  <2>1. /\ fate[c] = "unborn" /\ files[Home[c]] = Nothing /\ Home[c] \in Paths
        /\ \A r \in Paths : files'[r] = IF r = Home[c] THEN c ELSE files[r]
        /\ \A d \in Contents : fate'[d] = IF d = c THEN "alive" ELSE fate[d]
    BY <1>0, <1>1, ConstantsAssumption DEF Appear, TypeOK
  <2>2. Where[c] = "unborn" /\ Where'[c] = "home"
    BY <2>1 DEF Where
  <2>3. ASSUME NEW d \in Contents, d # c PROVE Where'[d] = Where[d]
    <3>1. Home[d] \in Paths
      BY ConstantsAssumption
    <3>2. files'[Home[d]] = d <=> files[Home[d]] = d
      BY <1>0, <2>1, <2>3, <3>1
    <3> QED BY <2>1, <2>3, <3>2 DEF Where
  <2>4. ASSUME NEW d \in Contents, Home[d] = Home[c] PROVE Where[d] # "home"
    BY <1>0, <2>1, <2>4 DEF Where, TypeOK, Fates
  <2>5. V!Create(c)
    BY <2>2, <2>3, <2>4, OneContent DEF V!Create, V!HomeFree
  <2> QED BY <2>5 DEF V!Next
<1>2. ASSUME NEW p \in Paths, UserDeletes(p) PROVE V!Next
  <2> DEFINE c == files[p]
  <2>1. c \in Contents /\ Home[c] = p /\ fate[c] = "alive"
    BY <1>0, <1>2 DEF UserDeletes, TypeOK, AtHome, Conserved
  <2>2. /\ \A r \in Paths : files'[r] = IF r = p THEN Nothing ELSE files[r]
        /\ \A d \in Contents : fate'[d] = IF d = c THEN "user" ELSE fate[d]
    BY <1>0, <1>2, <2>1 DEF UserDeletes, TypeOK
  <2>3. Where[c] = "home" /\ Where'[c] = "destroyed"
    BY <2>1, <2>2 DEF Where
  <2>4. ASSUME NEW d \in Contents, d # c PROVE Where'[d] = Where[d]
    <3>1. Home[d] \in Paths
      BY ConstantsAssumption
    <3>2. files'[Home[d]] = d <=> files[Home[d]] = d
      BY <1>0, <2>2, <2>4, <3>1
    <3> QED BY <2>2, <2>4, <3>2 DEF Where
  <2>5. V!Discard(c)
    BY <2>1, <2>3, <2>4, OneContent DEF V!Discard
  <2> QED BY <2>1, <2>5 DEF V!Next
<1> QED BY <1>1, <1>2 DEF Environment

\* Every step of a run with one request at a time is a step of the Vault or none.
LEMMA SerialRefines == SerialInv /\ [SerialNext]_vars => [V!Next]_Where
<1> SUFFICES ASSUME SerialInv, [SerialNext]_vars PROVE V!Next \/ Where' = Where
  OBVIOUS
<1>1. ASSUME NEW w \in Workers, Step(w) PROVE V!Next \/ Where' = Where
  <2>1. \/ MoveIn(w) \/ PutBack(w) \/ RemovePayload(w) \/ UNCHANGED <<files, fate>>
    BY <1>1 DEF Step, TakeStart, Claim, WriteManifest, RestoreStart, Mark, DeleteStart,
                PurgeStart, RemoveManifest, RemoveDirectory, RemoveFails, TornWrite
  <2> QED BY <2>1, TakeHolds, RestoreGivesBack, RemovalDestroys, VaultStutters
<1>2. CASE Environment
  BY <1>2, EnvironmentMoves
<1>3. CASE Crash \/ Tick \/ UNCHANGED vars
  BY <1>3, VaultStutters DEF Crash, Tick, vars
<1> QED BY <1>1, <1>2, <1>3 DEF SerialNext

\* The store starts where the Vault may start.
LEMMA InitRefines == Init /\ SerialInv => V!Init
<1> SUFFICES ASSUME Init, SerialInv PROVE V!Init
  OBVIOUS
<1>1. \A c \in Contents : fate[c] \in {"alive", "unborn"}
  BY DEF Init
<1>2. \A c \in Contents : fate[c] = "alive" => files[Home[c]] = c
  <2> SUFFICES ASSUME NEW c \in Contents, fate[c] = "alive" PROVE files[Home[c]] = c
    OBVIOUS
  <2>1. PICK p \in Paths : files[p] = c
    BY ConstantsAssumption DEF Init, SerialInv, Conserved
  <2> QED BY <2>1, ConstantsAssumption DEF SerialInv, AtHome
<1>3. \A c \in Contents : Where[c] \in {"unborn", "home"}
  BY <1>1, <1>2 DEF Where
<1>4. Where \in [Contents -> {"unborn", "home"}]
  BY <1>3 DEF Where
<1>5. ASSUME NEW c \in Contents, Where[c] = "home" PROVE files[Home[c]] = c
  BY <1>1, <1>2, <1>5 DEF Where
<1> QED BY <1>4, <1>5 DEF V!Init

\* Served one request at a time, the store implements the Vault: no file-system
\* call of take, restore or a deletion, failed or cut short by a crash, moves more
\* than one content, and none holds a link or what lies on another volume.
THEOREM ImplementsVaultAlways == SerialSpec => ImplementsVault
<1>1. SerialSpec => Init /\ [][SerialNext]_vars
  BY DEF SerialSpec
<1> QED
  BY <1>1, SerialInductive, InitRefines, SerialRefines, PTL DEF ImplementsVault, V!Spec

=============================================================================
