-------------------------------- MODULE Trust --------------------------------
(***************************************************************************)
(* Whether the folder the agent is installed from may be trusted            *)
(* (kam-agent/src/trust.rs).  A folder is its owner and its access control  *)
(* list: a sequence of entries, or NoList when it has none.  A mask is a    *)
(* set of rights, and every dangerous right is one of three that Windows    *)
(* treats alike here: adding or replacing a file ("write"), rewriting the   *)
(* list ("write_dac"), and reading, which is not dangerous ("read").  An    *)
(* entry is "allow" or "deny", or one of the others Windows has, callback   *)
(* and object entries, which the check does not interpret.                  *)
(***************************************************************************)
EXTENDS Naturals, Sequences, FiniteSets, SequencesExt

CONSTANTS
  Ordinary,     \* an account with no special standing
  NoList        \* the null access control list

\* Ordinary is none of the accounts and groups Windows knows by a name of their own.
ASSUME OrdinaryAssumption ==
  Ordinary \notin {"Users", "Administrators", "SYSTEM", "CREATOR OWNER", "OWNER RIGHTS"}

\* Names an entry may be about.  "OWNER RIGHTS" stands for whoever owns the
\* folder; "CREATOR OWNER" only ever applies to new items.
Sids == {Ordinary, "Users", "Administrators", "SYSTEM", "CREATOR OWNER",
         "OWNER RIGHTS"}

\* The ways to put a different file where a trusted one was.
Dangerous == {"write", "write_dac"}

\* Accounts that are supposed to be able to write here.
IsExpected(sid) == sid \in {"SYSTEM", "Administrators", "CREATOR OWNER"}

\* The entries that are read; any other type is passed over.
Interpreted(acl) == {i \in DOMAIN acl : acl[i].type \in {"allow", "deny"}}

\* An entry for OWNER RIGHTS, allow or deny, replaces the owner's implicit rights.
OwnerRightsListed(acl) == \E i \in Interpreted(acl) : acl[i].sid = "OWNER RIGHTS"

\* The names whose allow entries grant something dangerous.  Deny entries are
\* passed over: they can only make the answer stricter than the truth.
Granted(acl) ==
  {acl[i].sid : i \in {j \in Interpreted(acl) :
                         /\ acl[j].type = "allow"
                         /\ acl[j].mask \cap Dangerous # {}
                         /\ ~IsExpected(acl[j].sid)}}

\* A slip: the list alone, as before the owner was counted.
WritersByList(folder) ==
  IF folder.acl = NoList THEN {"Everyone"} ELSE Granted(folder.acl)

\* Principals that can replace files in the folder.
WritersOf(folder) ==
  IF folder.acl = NoList THEN {"Everyone"}
  ELSE Granted(folder.acl)
       \cup (IF OwnerRightsListed(folder.acl) \/ IsExpected(folder.owner)
             THEN {} ELSE {folder.owner})

\* Ok(()) or a refusal that names the writers.
CheckInstallDirectory(folder) ==
  IF WritersOf(folder) = {} THEN "ok" ELSE "refused"

-----------------------------------------------------------------------------
(* What Windows itself would decide: the reference for the check above.      *)

\* The names an account answers to on this folder.
Memberships(who, folder) ==
  {who, "Users"} \cup (IF folder.owner = who THEN {"OWNER RIGHTS"} ELSE {})

\* The first entry that mentions the right and the account decides.  An entry
\* of another type may grant, or not.
MayUse(who, right, folder) ==
  LET acl     == folder.acl
      about   == {i \in DOMAIN acl : /\ acl[i].sid \in Memberships(who, folder)
                                     /\ right \in acl[i].mask}
      first   == CHOOSE i \in about : \A j \in about : i <= j
      implied == /\ right = "write_dac"
                 /\ folder.owner = who
                 /\ ~OwnerRightsListed(acl)
  IN \/ acl = NoList
     \/ implied
     \/ about # {} /\ acl[first].type # "deny"

\* All entries are of the types the check interprets.
ReadInFull(folder) ==
  folder.acl # NoList => Interpreted(folder.acl) = DOMAIN folder.acl

\* Nobody without standing can put a file where a trusted one was.
Closed(folder) ==
  \A right \in {"write", "write_dac"} : ~MayUse(Ordinary, right, folder)

\* What a folder may be: its owner, and no list or one of any length.
AnyFolder ==
  [owner : Sids,
   acl   : {NoList} \cup Seq([type : {"allow", "deny", "other"}, sid : Sids,
                              mask : SUBSET {"read", "write", "write_dac"}])]

\* Folders of up to two entries, each about one dangerous right or reading.
Entries == [type : {"allow", "deny", "other"}, sid : Sids, mask : {{"read"}, {"write"}, {"write_dac"}}]

Folders ==
  [owner : {Ordinary, "Administrators"},
   acl   : {NoList} \cup SeqOf(Entries, 2)]
=============================================================================
