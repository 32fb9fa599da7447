----------------------------- MODULE Quarantine -----------------------------
(***************************************************************************)
(* The quarantine store of crates/kam-quarantine/src/lib.rs.               *)
(*                                                                         *)
(* The store is a directory tree: one directory per held item, named by an *)
(* id made of the second it was claimed in and a suffix, holding a         *)
(* manifest and the payload.  There is no lock.  The agent answers every   *)
(* connection on a thread of its own, so any number of takes, restores and *)
(* deletions run at once, and each is a sequence of file-system calls.     *)
(* One action below is one file-system call that changes the tree (with    *)
(* the reads that precede it), so every interleaving of those calls, a     *)
(* crash between any two of them, and a call that fails are all steps of   *)
(* the model.                                                              *)
(*                                                                         *)
(* A file or folder is an element of Contents.  It has a home, the path it *)
(* was created at, and the programs of the machine create and delete it    *)
(* there.  fate, birth and doomed are history: nothing in the code reads   *)
(* them.                                                                   *)
(***************************************************************************)
EXTENDS Integers

CONSTANTS
    Workers,      \* threads of the agent serving connections
    Paths,        \* places on the volume outside the store
    Barred,       \* paths on another volume, or the store, or around it
    Contents,     \* files and folders
    Directories,  \* the contents that are folders
    Links,        \* the contents that are junctions or symbolic links
    Home,         \* the path each content is created at
    Nothing,      \* no content
    NoPath,       \* no path
    Suffixes,     \* ids per second (10 000 in the code)
    Retention,    \* seconds an item is kept (30 days in the code)
    MaxTime       \* bound on the clock

ASSUME ConstantsAssumption ==
    /\ Paths # {} /\ Barred \subseteq Paths /\ NoPath \notin Paths
    /\ Directories \subseteq Contents /\ Links \subseteq Contents
    /\ Nothing \notin Contents
    /\ Home \in [Contents -> Paths]
    /\ Suffixes \in Nat \ {0} /\ Retention \in Nat /\ MaxTime \in Nat

VARIABLES
    files,     \* what lies at each path outside the store
    dirs,      \* the item directories that exist
    manifest,  \* the manifest.json of each item directory
    payload,   \* the payload of each item directory
    worker,    \* each thread: where it is, and its local variables
    clock,     \* now_seconds()
    fate,      \* history: what became of each content
    birth,     \* history: the path each id was last claimed for
    doomed     \* history: ids whose deletion was asked for since the claim

vars == <<files, dirs, manifest, payload, worker, clock, fate, birth, doomed>>

Ids == (0 .. MaxTime) \X (0 .. Suffixes - 1)

AnyPath == CHOOSE p \in Paths : TRUE

\* A manifest is absent, unreadable (a write that did not finish), or says
\* that the item is held or was restored.
Manifests == [label : {"none", "torn", "held", "restored"},
              path : Paths, at : 0 .. MaxTime]

NoManifest == [label |-> "none", path |-> AnyPath, at |-> 0]

TornManifest == [label |-> "torn", path |-> AnyPath, at |-> 0]

Readable(i) == manifest[i].label \in {"held", "restored"}

Threads == [pc : {"idle", "claim", "label", "move", "putback", "mark", "remove"},
            op : {"none", "take", "restore", "delete", "purge", "cleanup"},
            id : Ids, path : Paths, at : 0 .. MaxTime]

Thread(pc, op, i, p, at) ==
    [pc |-> pc, op |-> op, id |-> i, path |-> p, at |-> at]

Idle == Thread("idle", "none", <<0, 0>>, AnyPath, 0)

Fates == {"unborn", "alive", "user", "delete", "purge", "cleanup", "overwritten"}

(***************************************************************************)
(* std::fs::rename on Windows replaces a file that is in the way, and      *)
(* fails when either of the two is a folder.                               *)
(***************************************************************************)
Renamable(src, dst) ==
    /\ src # Nothing
    /\ dst # Nothing => {src, dst} \cap Directories = {}

\* The fate of a content that a rename replaced.
Replaced(dst) ==
    IF dst = Nothing THEN fate ELSE [fate EXCEPT ![dst] = "overwritten"]

Become(w, state) == worker' = [worker EXCEPT ![w] = state]

Goto(w, label) ==
    Become(w, Thread(label, worker[w].op, worker[w].id, worker[w].path, worker[w].at))

-----------------------------------------------------------------------------
Init ==
    /\ \E born \in SUBSET Contents :
          /\ \A c, d \in born : Home[c] = Home[d] => c = d
          /\ files = [p \in Paths |->
                IF \E c \in born : Home[c] = p
                THEN CHOOSE c \in born : Home[c] = p ELSE Nothing]
          /\ fate = [c \in Contents |-> IF c \in born THEN "alive" ELSE "unborn"]
    /\ dirs = {}
    /\ manifest = [i \in Ids |-> NoManifest]
    /\ payload = [i \in Ids |-> Nothing]
    /\ worker = [w \in Workers |-> Idle]
    /\ clock = 0
    /\ birth = [i \in Ids |-> NoPath]
    /\ doomed = {}

-----------------------------------------------------------------------------
(* Slips: versions of an action with a mistake in it, that no property may *)
(* survive.  No specification uses them.                                   *)

\* claim_id with create_dir_all, which does not fail on a directory in use.
ClaimShared(w) ==
    LET i == <<clock, worker[w].id[2]>> IN
    /\ worker[w].pc = "claim"
    /\ dirs' = dirs \cup {i}
    /\ birth' = [birth EXCEPT ![i] = worker[w].path]
    /\ doomed' = doomed \ {i}
    /\ Become(w, Thread("label", "take", i, worker[w].path, 0))
    /\ UNCHANGED <<files, manifest, payload, clock, fate>>

\* claim_id trying one suffix too many.
ClaimTooFar(w) ==
    LET i == <<clock, worker[w].id[2]>> IN
    /\ worker[w].pc = "claim"
    /\ \/ /\ i \notin dirs
          /\ dirs' = dirs \cup {i}
          /\ Become(w, Thread("label", "take", i, worker[w].path, 0))
       \/ /\ i \in dirs /\ i[2] < Suffixes
          /\ Become(w, Thread("claim", "take", <<i[1], i[2] + 1>>, worker[w].path, 0))
          /\ UNCHANGED dirs
    /\ UNCHANGED <<files, manifest, payload, clock, fate, birth, doomed>>

\* restore copying the payload and leaving it in the store.
PutBackCopy(w) ==
    /\ worker[w].pc = "putback"
    /\ Renamable(payload[worker[w].id], files[worker[w].path])
    /\ files' = [files EXCEPT ![worker[w].path] = payload[worker[w].id]]
    /\ Goto(w, "mark")
    /\ UNCHANGED <<dirs, manifest, payload, clock, fate, birth, doomed>>

\* restore without its look at the original path.
RestoreBlindly(w, i) ==
    /\ worker[w].pc = "idle"
    /\ manifest[i].label = "held"
    /\ Become(w, Thread("putback", "restore", i, manifest[i].path, manifest[i].at))
    /\ UNCHANGED <<files, dirs, manifest, payload, clock, fate, birth, doomed>>

\* purge counting the retention from the first second.
PurgeEarly(w, i) ==
    /\ worker[w].pc = "idle"
    /\ Readable(i)
    /\ clock >= Retention
    /\ Become(w, Thread("remove", "purge", i, AnyPath, 0))
    /\ doomed' = doomed \cup {i}
    /\ UNCHANGED <<files, dirs, manifest, payload, clock, fate, birth>>

-----------------------------------------------------------------------------
(* take: the checks, then claim_id, then the manifest, then the rename.    *)

\* A slip: whatever lies at the path is taken, a link as well.
TakeFollows(w, p) ==
    /\ worker[w].pc = "idle"
    /\ files[p] # Nothing
    /\ p \notin Barred
    /\ Become(w, Thread("claim", "take", <<0, 0>>, p, 0))
    /\ UNCHANGED <<files, dirs, manifest, payload, clock, fate, birth, doomed>>

\* The path exists, is no link, is on the store's volume and clear of it.
TakeStart(w, p) ==
    /\ worker[w].pc = "idle"
    /\ files[p] # Nothing /\ files[p] \notin Links
    /\ p \notin Barred
    /\ Become(w, Thread("claim", "take", <<0, 0>>, p, 0))
    /\ UNCHANGED <<files, dirs, manifest, payload, clock, fate, birth, doomed>>

(***************************************************************************)
(* One turn of the loop of claim_id.  now_seconds() is read before the     *)
(* first turn.  create_dir fails when the directory is there, and the next *)
(* suffix is tried until there is none; any other error ends the take.     *)
(***************************************************************************)
Claim(w) ==
    LET suffix == worker[w].id[2]
        i == <<IF suffix = 0 THEN clock ELSE worker[w].id[1], suffix>>
    IN
    /\ worker[w].pc = "claim"
    /\ \/ /\ i \notin dirs
          /\ dirs' = dirs \cup {i}
          /\ birth' = [birth EXCEPT ![i] = worker[w].path]
          /\ doomed' = doomed \ {i}
          /\ Become(w, Thread("label", "take", i, worker[w].path, 0))
       \/ /\ i \in dirs /\ suffix + 1 < Suffixes
          /\ Become(w, Thread("claim", "take", <<i[1], suffix + 1>>, worker[w].path, 0))
          /\ UNCHANGED <<dirs, birth, doomed>>
       \/ /\ i \in dirs => suffix + 1 = Suffixes
          /\ Become(w, Idle)
          /\ UNCHANGED <<dirs, birth, doomed>>
    /\ UNCHANGED <<files, manifest, payload, clock, fate>>

\* write_manifest: the write fails when the directory is no longer there.
WriteManifest(w) ==
    LET i == worker[w].id IN
    /\ worker[w].pc = "label"
    /\ \/ /\ i \in dirs
          /\ manifest' = [manifest EXCEPT ![i] =
                [label |-> "held", path |-> worker[w].path, at |-> clock]]
          /\ Goto(w, "move")
       \/ /\ i \notin dirs
          /\ Become(w, Idle)
          /\ UNCHANGED manifest
    /\ UNCHANGED <<files, dirs, payload, clock, fate, birth, doomed>>

\* The rename of the path to the payload.  A failure takes the directory away.
MoveIn(w) ==
    LET i == worker[w].id
        p == worker[w].path
    IN
    /\ worker[w].pc = "move"
    /\ \/ /\ i \in dirs /\ Renamable(files[p], payload[i])
          /\ payload' = [payload EXCEPT ![i] = files[p]]
          /\ files' = [files EXCEPT ![p] = Nothing]
          /\ fate' = Replaced(payload[i])
          /\ Become(w, Idle)
       \/ /\ Become(w, Thread("remove", "cleanup", i, p, 0))
          /\ UNCHANGED <<payload, files, fate>>
    /\ UNCHANGED <<dirs, manifest, clock, birth, doomed>>

-----------------------------------------------------------------------------
(* restore: the manifest is read and the name looked at, then the rename,  *)
(* then the manifest is written again.                                     *)

RestoreStart(w, i) ==
    /\ worker[w].pc = "idle"
    /\ manifest[i].label = "held"
    /\ files[manifest[i].path] = Nothing
    /\ Become(w, Thread("putback", "restore", i, manifest[i].path, manifest[i].at))
    /\ UNCHANGED <<files, dirs, manifest, payload, clock, fate, birth, doomed>>

PutBack(w) ==
    LET i == worker[w].id
        p == worker[w].path
    IN
    /\ worker[w].pc = "putback"
    /\ \/ /\ Renamable(payload[i], files[p])
          /\ files' = [files EXCEPT ![p] = payload[i]]
          /\ payload' = [payload EXCEPT ![i] = Nothing]
          /\ fate' = Replaced(files[p])
          /\ Goto(w, "mark")
       \/ /\ Become(w, Idle)
          /\ UNCHANGED <<files, payload, fate>>
    /\ UNCHANGED <<dirs, manifest, clock, birth, doomed>>

Mark(w) ==
    LET i == worker[w].id IN
    /\ worker[w].pc = "mark"
    /\ \/ /\ i \in dirs
          /\ manifest' = [manifest EXCEPT ![i] =
                [label |-> "restored", path |-> worker[w].path, at |-> worker[w].at]]
       \/ /\ i \notin dirs
          /\ UNCHANGED manifest
    /\ Become(w, Idle)
    /\ UNCHANGED <<files, dirs, payload, clock, fate, birth, doomed>>

-----------------------------------------------------------------------------
(* delete_now and purge: the manifest must be readable, then the directory *)
(* is taken off the disk.                                                  *)

DeleteStart(w, i) ==
    /\ worker[w].pc = "idle"
    /\ Readable(i)
    /\ Become(w, Thread("remove", "delete", i, AnyPath, 0))
    /\ doomed' = doomed \cup {i}
    /\ UNCHANGED <<files, dirs, manifest, payload, clock, fate, birth>>

\* retention_remaining is zero, or the item was restored.
PurgeStart(w, i) ==
    /\ worker[w].pc = "idle"
    /\ Readable(i)
    /\ clock >= manifest[i].at + Retention \/ manifest[i].label = "restored"
    /\ Become(w, Thread("remove", "purge", i, AnyPath, 0))
    /\ doomed' = doomed \cup {i}
    /\ UNCHANGED <<files, dirs, manifest, payload, clock, fate, birth>>

(***************************************************************************)
(* remove_dir_all: the entries go one at a time, then the directory.  It   *)
(* stops at the first one that cannot be removed.                          *)
(***************************************************************************)
RemoveManifest(w) ==
    LET i == worker[w].id IN
    /\ worker[w].pc = "remove"
    /\ manifest[i].label # "none"
    /\ manifest' = [manifest EXCEPT ![i] = NoManifest]
    /\ UNCHANGED <<files, dirs, payload, worker, clock, fate, birth, doomed>>

RemovePayload(w) ==
    LET i == worker[w].id IN
    /\ worker[w].pc = "remove"
    /\ payload[i] # Nothing
    /\ payload' = [payload EXCEPT ![i] = Nothing]
    /\ fate' = [fate EXCEPT ![payload[i]] = worker[w].op]
    /\ UNCHANGED <<files, dirs, manifest, worker, clock, birth, doomed>>

RemoveDirectory(w) ==
    LET i == worker[w].id IN
    /\ worker[w].pc = "remove"
    /\ manifest[i].label = "none" /\ payload[i] = Nothing
    /\ dirs' = dirs \ {i}
    /\ Become(w, Idle)
    /\ UNCHANGED <<files, manifest, payload, clock, fate, birth, doomed>>

RemoveFails(w) ==
    /\ worker[w].pc = "remove"
    /\ Become(w, Idle)
    /\ UNCHANGED <<files, dirs, manifest, payload, clock, fate, birth, doomed>>

-----------------------------------------------------------------------------
(* What the machine does to the store and around it.                       *)

\* A manifest is written over in place, so a write that stops leaves neither.
TornWrite(w) ==
    /\ worker[w].pc \in {"label", "mark"}
    /\ worker[w].id \in dirs
    /\ manifest' = [manifest EXCEPT ![worker[w].id] = TornManifest]
    /\ Become(w, Idle)
    /\ UNCHANGED <<files, dirs, payload, clock, fate, birth, doomed>>

\* The agent dies; its threads go with it and the tree stays as it is.
Crash ==
    /\ \E w \in Workers : worker[w].pc # "idle"
    /\ worker' = [w \in Workers |-> Idle]
    /\ UNCHANGED <<files, dirs, manifest, payload, clock, fate, birth, doomed>>

Appear(c) ==
    /\ fate[c] = "unborn"
    /\ files[Home[c]] = Nothing
    /\ files' = [files EXCEPT ![Home[c]] = c]
    /\ fate' = [fate EXCEPT ![c] = "alive"]
    /\ UNCHANGED <<dirs, manifest, payload, worker, clock, birth, doomed>>

UserDeletes(p) ==
    /\ files[p] # Nothing
    /\ files' = [files EXCEPT ![p] = Nothing]
    /\ fate' = [fate EXCEPT ![files[p]] = "user"]
    /\ UNCHANGED <<dirs, manifest, payload, worker, clock, birth, doomed>>

Tick ==
    /\ clock < MaxTime
    /\ clock' = clock + 1
    /\ UNCHANGED <<files, dirs, manifest, payload, worker, fate, birth, doomed>>

-----------------------------------------------------------------------------
Step(w) ==
    \/ \E p \in Paths : TakeStart(w, p)
    \/ Claim(w) \/ WriteManifest(w) \/ MoveIn(w)
    \/ \E i \in Ids : RestoreStart(w, i)
    \/ PutBack(w) \/ Mark(w)
    \/ \E i \in Ids : DeleteStart(w, i) \/ PurgeStart(w, i)
    \/ RemoveManifest(w) \/ RemovePayload(w) \/ RemoveDirectory(w) \/ RemoveFails(w)
    \/ TornWrite(w)

Environment ==
    \/ \E c \in Contents : Appear(c)
    \/ \E p \in Paths : UserDeletes(p)

Next ==
    \/ \E w \in Workers : Step(w)
    \/ Environment \/ Crash \/ Tick

\* Everything the code allows.
Spec == Init /\ [][Next]_vars

(***************************************************************************)
(* No id is claimed twice: what holds when a second passes between the     *)
(* removal of a directory and the next claim, since an id carries the      *)
(* second of its claim.                                                    *)
(***************************************************************************)
NoReuse == \A i \in dirs' \ dirs : birth[i] = NoPath

FreshNext ==
    \/ \E w \in Workers : Step(w) /\ NoReuse
    \/ Environment \/ Crash \/ Tick

FreshSpec == Init /\ [][FreshNext]_vars

(***************************************************************************)
(* One request at a time, and nothing else touching the paths while it is  *)
(* served.  Ids are reused as the code reuses them.                        *)
(***************************************************************************)
Others(w) == \A v \in Workers \ {w} : worker[v].pc = "idle"

SerialNext ==
    \/ \E w \in Workers : Others(w) /\ Step(w)
    \/ (\A w \in Workers : worker[w].pc = "idle") /\ Environment
    \/ Crash \/ Tick

SerialSpec == Init /\ [][SerialNext]_vars

-----------------------------------------------------------------------------
(* Properties.                                                             *)

\* Every variable has its type.
TypeOK ==
    /\ files \in [Paths -> Contents \cup {Nothing}]
    /\ dirs \subseteq Ids
    /\ manifest \in [Ids -> Manifests]
    /\ payload \in [Ids -> Contents \cup {Nothing}]
    /\ worker \in [Workers -> Threads]
    /\ \A w \in Workers : worker[w].pc = "remove" =>
          worker[w].op \in {"delete", "purge", "cleanup"}
    /\ clock \in 0 .. MaxTime
    /\ fate \in [Contents -> Fates]
    /\ birth \in [Ids -> Paths \cup {NoPath}]
    /\ doomed \subseteq Ids

(***************************************************************************)
(* A payload in the store can be put back: beside it lies a readable       *)
(* manifest that names its own home, unless somebody asked for the item to *)
(* be deleted.  take writes the manifest before the move and restore       *)
(* rewrites it after, so that no crash and no other thread leaves a held   *)
(* file unlabelled or labelled as another one.                             *)
(***************************************************************************)
Labelled ==
    \A i \in Ids :
        payload[i] # Nothing /\ i \notin doomed =>
            /\ manifest[i].label = "held"
            /\ manifest[i].path = Home[payload[i]]

\* Whatever lies outside the store lies at its own home: no sequence of takes
\* and restores, interleaved or cut short, puts a file back at another path.
AtHome == \A p \in Paths : files[p] # Nothing => Home[files[p]] = p

(***************************************************************************)
(* Every live content is in exactly one place, and a destroyed one is      *)
(* nowhere: the renames of take and restore neither lose nor copy.         *)
(***************************************************************************)
Conserved ==
    /\ \A c \in Contents : fate[c] = "alive" <=>
          (\E i \in Ids : payload[i] = c) \/ (\E p \in Paths : files[p] = c)
    /\ \A i, j \in Ids : payload[i] = payload[j] => i = j \/ payload[i] = Nothing
    /\ \A p, q \in Paths : files[p] = files[q] => p = q \/ files[p] = Nothing
    /\ \A i \in Ids, p \in Paths : payload[i] = files[p] => payload[i] = Nothing

\* The store destroys a content only where a deletion of that very item was
\* asked for: never when take clears up after a rename that failed, and never
\* by a deletion that somebody asked of another item.
DestroyedOnRequest ==
    [][\A c \in Contents :
          fate[c] = "alive" /\ fate'[c] \in {"delete", "purge", "cleanup"} =>
              \E i \in doomed : payload[i] = c]_vars

\* What purge destroys has been held for the whole retention, whatever the
\* other threads did between its look at the manifest and the removal.
PurgeHonoursRetention ==
    [][\A i \in Ids :
          payload[i] # Nothing /\ (\E c \in Contents :
              c = payload[i] /\ fate'[c] = "purge" /\ fate[c] = "alive") =>
                  clock >= i[1] + Retention]_vars

\* Quarantine never destroys a file by putting another one over it: restore
\* looks at the name before it renames, and take renames into a new directory.
NeverOverwritten == \A c \in Contents : fate[c] # "overwritten"

\* The abstract state the store's tree stands for.
Where ==
    [c \in Contents |->
        CASE fate[c] = "unborn" -> "unborn"
          [] fate[c] = "alive" /\ files[Home[c]] = c -> "home"
          [] fate[c] = "alive" /\ files[Home[c]] # c -> "held"
          [] fate[c] \notin {"unborn", "alive"} -> "destroyed"]

V == INSTANCE Vault WITH where <- Where,
        Refused <- {c \in Contents : c \in Links \/ Home[c] \in Barred}

\* Served one at a time, the store's file-system calls implement the Vault:
\* each of them moves one content, or none.
ImplementsVault == V!Spec

=============================================================================
