------------------------------ MODULE Duplicates -----------------------------
(***************************************************************************)
(* The search for identical files and the judgement of each set             *)
(* (kam-storage/src/duplicates.rs: find, resolve_group, judge, explain).    *)
(* A file's content decides its length and its opening block; files of one  *)
(* length are read by a pool of threads that share one budget of bytes.     *)
(***************************************************************************)
EXTENDS Naturals, Sequences, FiniteSets, FiniteSetsExt, SequencesExt, Functions

CONSTANTS
  Files,        \* the files that reach the size test
  Contents,     \* what a file may hold
  LengthOf,     \* [Contents -> Nat]
  HeadOf,       \* the opening block of each content
  Hashers,      \* the hashing threads
  Ceiling       \* MAX_FULL_HASH_BYTES

ASSUME SearchAssumption ==
  IsFiniteSet(Files) /\ LengthOf \in [Contents -> Nat] /\ Ceiling \in Nat

VARIABLES
  content,      \* what each file holds
  chunk,        \* per thread: the size groups it has still to take
  heads,        \* per thread: candidates of the group in hand, by opening block
  reserved,     \* hashed_bytes, the budget claimed so far
  readBytes,    \* bytes the third pass has really read
  truncated,    \* the counter behind DuplicateSummary.truncated is above zero
  unread,       \* files that could not be read
  identical,    \* the sets found
  cancelled,    \* the caller has stopped the job
  searched      \* "looking", "answered" or "stopped"

dupVars == <<content, chunk, heads, reserved, readBytes, truncated, unread,
             identical, cancelled, searched>>

\* keep_collisions: group by a key, and keep the groups of more than one.
KeepCollisions(values, key) ==
  {g \in {{v \in values : key[v] = key[w]} : w \in values} : Cardinality(g) > 1}

Length(f) == LengthOf[content[f]]

\* The size groups, dealt out to the threads.
Deal(groups) ==
  {c \in [Hashers -> SUBSET groups] :
     /\ UNION Range(c) = groups
     /\ \A s, t \in Hashers : s # t => c[s] \cap c[t] = {}}

DuplicatesInit ==
  /\ content \in [Files -> Contents]
  /\ chunk \in Deal(KeepCollisions(Files, [f \in Files |-> Length(f)]))
  /\ heads = [t \in Hashers |-> {}]
  /\ reserved = 0 /\ readBytes = 0 /\ truncated = FALSE
  /\ unread = {} /\ identical = {} /\ cancelled = FALSE /\ searched = "looking"

\* The person stops the job.
CancelSearch ==
  /\ searched = "looking" /\ ~cancelled
  /\ cancelled' = TRUE
  /\ UNCHANGED <<content, chunk, heads, reserved, readBytes, truncated, unread, identical, searched>>

\* A thread that sees the stop takes no further group.
SeeCancel(t) ==
  /\ searched = "looking" /\ cancelled /\ heads[t] = {} /\ chunk[t] # {}
  /\ chunk' = [chunk EXCEPT ![t] = {}]
  /\ UNCHANGED <<content, heads, reserved, readBytes, truncated, unread, identical, cancelled, searched>>

\* The files of a group that will not open or read: any of them, or all.
Lost(group) == SUBSET group

\* resolve_group, second pass: the opening block of every file of the group
\* that can be read.
HashHeads(t) ==
  /\ searched = "looking" /\ heads[t] = {}
  /\ \E group \in chunk[t] : \E lost \in Lost(group) :
       /\ unread' = unread \cup lost
       /\ chunk' = [chunk EXCEPT ![t] = @ \ {group}]
       /\ heads' = [heads EXCEPT ![t] = KeepCollisions(group \ lost, [f \in Files |-> HeadOf[content[f]]])]
  /\ UNCHANGED <<content, reserved, readBytes, truncated, identical, cancelled, searched>>

\* All candidates have one length.
Wanted(candidates) == Length(CHOOSE f \in candidates : TRUE) * Cardinality(candidates)

\* A slip: the budget is claimed after the reading, by what was read.
HashInFullUnreserved(t) ==
  /\ searched = "looking"
  /\ \E candidates \in heads[t] : \E lost \in Lost(candidates) :
       /\ heads' = [heads EXCEPT ![t] = @ \ {candidates}]
       /\ readBytes' = readBytes + Wanted(candidates)
       /\ identical' = identical \cup KeepCollisions(candidates \ lost, content)
       /\ unread' = unread \cup lost
       /\ UNCHANGED <<reserved, truncated>>
  /\ UNCHANGED <<content, chunk, cancelled, searched>>

\* A slip: what is over the budget is left out and nothing is said.
HashInFullSilently(t) ==
  /\ searched = "looking"
  /\ \E candidates \in heads[t] : \E lost \in Lost(candidates) :
       /\ heads' = [heads EXCEPT ![t] = @ \ {candidates}]
       /\ reserved' = reserved + Wanted(candidates)
       /\ IF reserved + Wanted(candidates) > Ceiling
          THEN UNCHANGED <<readBytes, identical, unread>>
          ELSE /\ readBytes' = readBytes + Wanted(candidates) /\ unread' = unread \cup lost
               /\ identical' = identical \cup KeepCollisions(candidates \ lost, content)
       /\ UNCHANGED truncated
  /\ UNCHANGED <<content, chunk, cancelled, searched>>

\* Third pass: claim the budget, and read the candidates whole when it was
\* there, dropping those that will not read; what is over the ceiling is left out
\* and noted.  A claim that was too large is not given back.
HashInFull(t) ==
  /\ searched = "looking"
  /\ \E candidates \in heads[t] : \E lost \in Lost(candidates) :
       /\ heads' = [heads EXCEPT ![t] = @ \ {candidates}]
       /\ reserved' = reserved + Wanted(candidates)
       /\ IF reserved + Wanted(candidates) > Ceiling
          THEN truncated' = TRUE /\ UNCHANGED <<readBytes, identical, unread>>
          ELSE /\ readBytes' = readBytes + Wanted(candidates) /\ unread' = unread \cup lost
               /\ identical' = identical \cup KeepCollisions(candidates \ lost, content)
               /\ UNCHANGED truncated
  /\ UNCHANGED <<content, chunk, cancelled, searched>>

\* All threads joined; a stop makes the answer a refusal.
JoinHashers ==
  /\ searched = "looking" /\ \A t \in Hashers : chunk[t] = {} /\ heads[t] = {}
  /\ searched' = IF cancelled THEN "stopped" ELSE "answered"
  /\ UNCHANGED <<content, chunk, heads, reserved, readBytes, truncated, unread, identical, cancelled>>

DuplicatesNext ==
  \/ CancelSearch \/ JoinHashers
  \/ \E t \in Hashers : SeeCancel(t) \/ HashHeads(t) \/ HashInFull(t)

-----------------------------------------------------------------------------
(* Judging a set of identical files.  A copy is its owner, whether its name  *)
(* is what Windows gives a second copy, whether it lies in Downloads, and    *)
(* the length of its path.                                                   *)

Owners == {"Windows", "Servicing", "Program", "ProgramData", "Yours", "Deleted", "Elsewhere"}

Removable(owner) == owner \in {"Yours", "Deleted"}

\* A slip: a program's copy ranks behind the person's own.
OwnerRankYoursFirst(owner) ==
  CASE owner \in {"Windows", "Servicing"} -> 0
    [] owner = "Yours" -> 1
    [] owner \in {"Program", "ProgramData"} -> 2
    [] owner = "Elsewhere" -> 3
    [] owner = "Deleted" -> 9

OwnerRank(owner) ==
  CASE owner \in {"Windows", "Servicing"} -> 0
    [] owner \in {"Program", "ProgramData"} -> 1
    [] owner = "Elsewhere" -> 2
    [] owner = "Yours" -> 3
    [] owner = "Deleted" -> 9

\* Lower is the better keeper: the penalty first, then the shorter path.
Penalty(copy) ==
  OwnerRank(copy.owner) * 4 + (IF copy.named THEN 2 ELSE 0) + (IF copy.downloads THEN 1 ELSE 0)

Outranks(x, y) ==
  \/ Penalty(x) < Penalty(y)
  \/ Penalty(x) = Penalty(y) /\ x.length < y.length

\* sort_by_key keeps copies that rank alike in the order they came.
Before(copies, i, j) ==
  \/ Outranks(copies[i], copies[j])
  \/ i < j /\ ~Outranks(copies[j], copies[i])

Rank(copies, i) == Cardinality({j \in DOMAIN copies : Before(copies, j, i)}) + 1

SortCopies(copies) ==
  [r \in DOMAIN copies |-> copies[CHOOSE i \in DOMAIN copies : Rank(copies, i) = r]]

Spare(copies) ==
  LET removable == Cardinality({i \in DOMAIN copies : Removable(copies[i].owner)})
  IN IF removable < Len(copies) THEN removable ELSE Len(copies) - 1

VerdictOf(copies) ==
  LET owners == {copies[i].owner : i \in DOMAIN copies}
  IN CASE Spare(copies) > 0 -> "choose"
       [] Spare(copies) = 0 /\ owners \cap {"Windows", "Servicing"} # {} -> "keep"
       [] Spare(copies) = 0 /\ owners \cap {"Windows", "Servicing"} = {}
            /\ owners \cap {"Program", "ProgramData"} # {} -> "deliberate"
       [] OTHER -> "unclear"

\* explain: the sentence about where the copy that stays is.
Explain(copies) ==
  IF VerdictOf(copies) # "choose" THEN VerdictOf(copies)
  ELSE IF Removable(SortCopies(copies)[1].owner) THEN "all-are-yours"
       ELSE IF Spare(copies) + 1 = Len(copies) THEN "one-would-still-be-there"
       ELSE "some-would-still-be-there"

Judge(copies) ==
  [verdict     |-> VerdictOf(copies),
   copies      |-> SortCopies(copies),
   spare       |-> Spare(copies),
   reason      |-> Explain(copies)]

-----------------------------------------------------------------------------
(* Properties.                                                               *)

\* Threads racing for the budget never read more than the ceiling between them
\* (duplicates.rs:864-870, "cannot collectively overshoot").
ReadWithinCeiling == readBytes <= Ceiling

\* An answer that does not say it was cut short names every set of identical
\* files among those that could be read, and no file twice.  A file that would
\* not open or read drops out without a word (duplicates.rs:853-860, 876-978).
NothingMissedSilently ==
  searched = "answered" /\ ~truncated
    => identical = KeepCollisions(Files \ unread, content)

\* The copy suggested to keep is one that stays anyway whenever there is one,
\* is in the bin only when all are, and is never counted among what may go; and
\* what is said of where the copies are is so.  The removal itself asks for no
\* other copy (duplicates.rs:281-440, 689-782).
KeeperStays(copies) ==
  LET judged == Judge(copies)
      goes   == {i \in 2 .. Len(copies) : Removable(judged.copies[i].owner)}
  IN judged.verdict = "choose" =>
       /\ judged.spare = Cardinality(goes)
       /\ Removable(judged.copies[1].owner)
            => \A i \in DOMAIN copies : Removable(copies[i].owner)
       /\ judged.copies[1].owner = "Deleted"
            => \A i \in DOMAIN copies : copies[i].owner = "Deleted"
       /\ judged.reason = "one-would-still-be-there"
            => Cardinality({i \in DOMAIN copies : ~Removable(copies[i].owner)}) = 1

-----------------------------------------------------------------------------
(***************************************************************************)
(* Which path a privileged removal may touch (kam-storage/src/paths.rs and  *)
(* the fence of duplicates.rs: owner_of, Limits, check_within).  A path is  *)
(* a sequence of names, lower case as `plain` leaves it; the disk says      *)
(* where a path really leads.                                               *)
(***************************************************************************)

(* paths.rs.  A spelling is a prefix and the names after it.                 *)

Spellings == {"none", "extended", "extended-UNC", "object", "object-UNC", "device", "network"}

\* A slip: the shorter prefix is tried first, and leaves `unc` as a name.
PlainShortFirst(spelling) ==
  CASE spelling.prefix \in {"extended-UNC", "object-UNC"} -> <<"unc">> \o spelling.names
    [] spelling.prefix = "network" -> <<"\\\\">> \o spelling.names
    [] OTHER -> spelling.names

\* The plainest text form: the prefix is taken off, the UNC forms being the
\* longer prefixes of the others, and a network path keeps its two separators.
Plain(spelling) ==
  CASE spelling.prefix \in {"extended-UNC", "object-UNC", "network"} -> <<"\\\\">> \o spelling.names
    [] spelling.prefix \in {"extended", "object", "device"} -> spelling.names
    [] OTHER -> spelling.names

\* A name Rust reads as carrying a drive replaces the whole path when pushed.
Push(path, name) == IF name = "c:evil" THEN <<"c:evil">> ELSE Append(path, name)

\* resolved: the deepest ancestor that exists, `depth` names long, is where the
\* disk says (`real`); the names below it are appended, and must have been.
Resolved(names, depth, real) ==
  LET out == FoldLeft(Push, real, SubSeq(names, depth + 1, Len(names)))
  IN IF IsPrefix(real, out) THEN out ELSE <<>>

-----------------------------------------------------------------------------
(* duplicates.rs: who owns a copy, from its path alone.                      *)

ServicingNames == {"winsxs", "servicing", "installer", "driverstore", "package-cache"}

ProgramNames == {"program-files", "steamapps", "windowsapps"}

Personal == {"desktop", "documents", "downloads", "pictures", "onedrive"}

\* below: the names under a directory, compared one at a time; <<"no">> when
\* the path is not at or below it.
Below(path, directory) ==
  IF IsPrefix(directory, path) THEN SubSeq(path, Len(directory) + 1, Len(path)) ELSE <<"no">>

IsBelow(path, directory) == IsPrefix(directory, path)

OwnerOf(path, profile) ==
  LET names == ToSet(path)
      top   == IF IsBelow(path, profile) /\ Len(path) > Len(profile)
               THEN path[Len(profile) + 1] ELSE "none"
  IN IF "$recycle.bin" \in names THEN "Deleted"
     ELSE IF names \cap ServicingNames # {} THEN "Servicing"
     ELSE IF Len(path) > 1 /\ path[2] = "windows" THEN "Windows"
     ELSE IF names \cap ProgramNames # {} THEN "Program"
     ELSE IF top \in Personal THEN "Yours"
     ELSE IF "appdata" \in names \/ "programdata" \in names THEN "ProgramData"
     ELSE "Elsewhere"

OffersRemoval(owner) == owner \in {"Yours", "Deleted"}

\* Every profile but the caller's, as the registry lists them; nothing when it
\* could not be read.
Others(machine) == IF machine.registry THEN machine.profiles \ {machine.own} ELSE {}

\* Where profiles are kept: as the registry says, or, when it cannot, the folder
\* the caller's own is in.  Never a drive's root.
Containers(machine) ==
  {c \in {IF machine.registry THEN <<"c", "users">> ELSE Front(machine.own)} : Len(c) > 1}

TheStore == <<"c", "programdata", "kam-security">>

\* Limits::refusal: the store, somebody else's Recycle Bin, another profile.
Refusal(path, machine) ==
  LET bin  == {i \in DOMAIN path : path[i] = "$recycle.bin"}
      mine == \E i \in bin : /\ \A j \in bin : i <= j
                             /\ i < Len(path) /\ path[i + 1] = machine.sid
  IN \/ IsBelow(path, TheStore)
     \/ bin # {} /\ ~mine
     \/ /\ ~IsBelow(path, machine.own)
        /\ \/ \E other \in Others(machine) : IsBelow(path, other)
           \/ \E c \in Containers(machine) :
                /\ IsBelow(path, c) /\ Len(Below(path, c)) >= 2 /\ Below(path, c)[1] # "public"

\* A slip: the owner is taken from the path as it was asked for.
CheckWithinAsAsked(asked, real, kind, machine, intent) ==
  LET owner == OwnerOf(asked, machine.own)
  IN IF \/ intent = "suggested" /\ ~OffersRemoval(owner)
        \/ owner \in {"Windows", "Servicing"}
        \/ real = <<>> \/ Refusal(real, machine) \/ kind # "file"
     THEN "refused" ELSE "ok"

\* check_within: the owner by the text, then by where the path really leads,
\* then the limits, then that it is a file and no link.
CheckWithin(asked, real, kind, machine, intent) ==
  LET text  == OwnerOf(asked, machine.own)
      owner == OwnerOf(real, machine.own)
  IN IF \/ intent = "suggested" /\ ~OffersRemoval(text)
        \/ intent = "chosen" /\ text \in {"Windows", "Servicing"}
        \/ real = <<>>
        \/ owner \in {"Windows", "Servicing"}
        \/ intent = "suggested" /\ ~OffersRemoval(owner)
        \/ Refusal(real, machine)
        \/ kind # "file"
     THEN "refused" ELSE "ok"

-----------------------------------------------------------------------------
(* Properties.                                                               *)

\* Every spelling of one object that is pure text has one plain form, and two
\* objects never share one (paths.rs:40-57).
SpellingsAgree(one, two) ==
  LET network(s) == s.prefix \in {"extended-UNC", "object-UNC", "network"}
  IN (Plain(one) = Plain(two)) <=> (one.names = two.names /\ network(one) = network(two))

\* What `resolved` answers for a path that is not there yet is always under the
\* directory that is (paths.rs:88-125).
ResolvedIsBelow(names, depth, real) ==
  LET out == Resolved(names, depth, real) IN out # <<>> => IsPrefix(real, out)

\* However a path was spelled and whatever link it passes, what may be removed
\* is a file outside Windows, the product's store, every other account's
\* profile the machine knows of and every other account's bin; and acting on a
\* suggestion never reaches past the caller's own folders and bin
\* (duplicates.rs:640-780).
NeverBeyondTheFence(asked, real, kind, machine, intent) ==
  CheckWithin(asked, real, kind, machine, intent) = "ok" =>
    /\ kind = "file" /\ real # <<>>
    /\ real[2] # "windows" /\ ~IsPrefix(TheStore, real)
    /\ machine.registry => \A p \in machine.profiles \ {machine.own} : ~IsPrefix(p, real)
    /\ real[2] = "$recycle.bin" => real[3] = machine.sid
    /\ intent = "suggested" => IsPrefix(machine.own, real) \/ real[2] = "$recycle.bin"

\* The caller's own downloads are always theirs to remove, also when the
\* registry cannot be read or the profile lies off the root (duplicates.rs:548-566).
OwnIsReachable(machine, intent) ==
  LET mine == machine.own \o <<"downloads", "f">>
  IN CheckWithin(mine, mine, "file", machine, intent) = "ok"
=============================================================================
