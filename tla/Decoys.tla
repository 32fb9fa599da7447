------------------------------- MODULE Decoys -------------------------------
(***************************************************************************)
(* Planting and removing decoys in a caller's profile.  A decoy's path is  *)
(* looked at, written and put under watch by separate calls, and its owner *)
(* and a second request of the same caller can act between any two.        *)
(***************************************************************************)
EXTENDS Connections

CONSTANTS
    Files,          \* DECOYS: the decoy files, in the order they are planted
    Keys            \* REGISTRY_DECOYS: the decoy registry keys

ASSUME DecoysAssumption ==
    /\ Files \in Seq(STRING) /\ Files # <<>> /\ Keys \in Seq(STRING)
    /\ "nobody" \notin Conns
    /\ \A r \in Requests : r.kind = "SetCanaries" => r.on \in BOOLEAN

VARIABLES
    at,             \* what lies at a decoy's path: nothing, ours, the owner's
    watched,        \* whether Windows is set to record reads of it
    left,           \* the decoys a request has still to deal with
    claimed,        \* the decoys the report of a request lists
    armed,          \* those it lists as armed
    disturbed       \* those somebody else changed while the request ran

decoyVars == <<at, watched, left, claimed, armed, disturbed>>

RegistryDecoysEnabled == FALSE

Elements(s) == {s[i] : i \in DOMAIN s}

AllDecoys == Elements(Files \o Keys)

\* The decoys a plant goes through: the keys are held back by the flag.
PlantList == Files \o (IF RegistryDecoysEnabled THEN Keys ELSE <<>>)

DecoysInit ==
    /\ at = [u \in Users |-> [d \in AllDecoys |->
                IF d \in Elements(Keys) THEN "ours" ELSE "none"]]
    /\ watched = [u \in Users |-> [d \in AllDecoys |-> FALSE]]
    /\ left = [c \in Conns |-> <<>>]
    /\ claimed = [c \in Conns |-> {}] /\ armed = [c \in Conns |-> {}]
    /\ disturbed = [c \in Conns |-> {}]

\* What lies at u's decoy d becomes what; every other request of u's in hand
\* has had it changed under it.
Put(u, d, what, self) ==
    /\ at' = [at EXCEPT ![u][d] = what]
    /\ disturbed' = [c \in Conns |->
            IF c # self /\ caller[c].user = u /\ req[c].kind = "SetCanaries"
            THEN disturbed[c] \cup {d} ELSE disturbed[c]]

Untouched == UNCHANGED <<at, disturbed>>

Planting(c, where) == pc[c] = where /\ req[c].kind = "SetCanaries" /\ req[c].on
Removing(c, where) == pc[c] = where /\ req[c].kind = "SetCanaries" /\ ~req[c].on

\* On to the next decoy, or, after the last, to the entry, which says Changed
\* whatever came of it, and to the report.
NextDecoy(c, changed) ==
    /\ left' = [left EXCEPT ![c] = Tail(@)]
    /\ IF Len(left[c]) > 1 THEN Onward(c, changed, "look")
                           ELSE Finish(c, changed, <<"Changed">>, "Ok")

BeginDecoys(c) ==
    /\ Handling(c, "SetCanaries")
    /\ left' = [left EXCEPT ![c] = IF req[c].on THEN PlantList ELSE Files \o Keys]
    /\ claimed' = [claimed EXCEPT ![c] = {}] /\ armed' = [armed EXCEPT ![c] = {}]
    /\ disturbed' = [disturbed EXCEPT ![c] = {}]
    /\ Onward(c, FALSE, "look")
    /\ UNCHANGED <<at, watched>>

Mine(c) == at[caller[c].user][Head(left[c])]

\* A slip: what lies at the path is not looked at before it is written.
PlantLookNot(c) ==
    /\ Planting(c, "look") /\ Untouched
    /\ Onward(c, FALSE, "write") /\ UNCHANGED left
    /\ UNCHANGED <<watched, claimed, armed>>

\* is_ours: judged by the marker inside, never by the path.
IsOurs(u, d) == at[u][d] = "ours"

\* audit::watch_object: the rule is put on what is at the path, and Windows
\* may refuse it; it does for a path with nothing at it.
WatchObject(u, d) == IF at[u][d] = "none" THEN {FALSE} ELSE BOOLEAN

\* plant, first look: something that is not ours is left alone and reported.
PlantLook(c) ==
    /\ Planting(c, "look") /\ Untouched
    /\ IF Mine(c) # "none" /\ ~IsOurs(caller[c].user, Head(left[c]))
       THEN NextDecoy(c, FALSE)
       ELSE Onward(c, FALSE, "again") /\ UNCHANGED left
    /\ UNCHANGED <<watched, claimed, armed>>

\* plant, second look: a decoy that is there is only put under watch; for one
\* that is not, the folder is made first, which may fail.
PlantAgain(c) ==
    /\ Planting(c, "again") /\ Untouched
    /\ \/ Mine(c) # "none" /\ Onward(c, FALSE, "watch") /\ UNCHANGED left
       \/ Mine(c) = "none" /\ Onward(c, FALSE, "write") /\ UNCHANGED left
       \/ Mine(c) = "none" /\ NextDecoy(c, FALSE)
    /\ UNCHANGED <<watched, claimed, armed>>

\* plant, the write: whatever is at the path by now is replaced.
PlantWrite(c) ==
    /\ Planting(c, "write")
    /\ \/ /\ Put(caller[c].user, Head(left[c]), "ours", c)
          /\ Onward(c, TRUE, "watch") /\ UNCHANGED left
       \/ Untouched /\ NextDecoy(c, FALSE)
    /\ UNCHANGED <<watched, claimed, armed>>

\* A slip: a decoy counts as armed because the call was made.
PlantWatchAssumed(c) ==
    /\ Planting(c, "watch") /\ Untouched
    /\ claimed' = [claimed EXCEPT ![c] = @ \cup {Head(left[c])}]
    /\ armed' = [armed EXCEPT ![c] = @ \cup {Head(left[c])}]
    /\ watched' \in {watched, [watched EXCEPT ![caller[c].user][Head(left[c])] = TRUE]}
    /\ NextDecoy(c, TRUE)

\* plant, the watch: listed either way, armed only when Windows took the rule.
PlantWatch(c) ==
    LET u == caller[c].user
        d == Head(left[c])
    IN /\ Planting(c, "watch") /\ Untouched
       /\ claimed' = [claimed EXCEPT ![c] = @ \cup {d}]
       /\ \E took \in WatchObject(u, d) :
            /\ watched' = [watched EXCEPT ![u][d] = @ \/ took]
            /\ armed' = [armed EXCEPT ![c] = IF took THEN @ \cup {d} ELSE @]
            /\ NextDecoy(c, watched' # watched)

\* remove, the look: nothing there, or not ours, is left alone.
RemoveLook(c) ==
    /\ Removing(c, "look") /\ Untouched
    /\ IF IsOurs(caller[c].user, Head(left[c]))
       THEN Onward(c, FALSE, "unlink") /\ UNCHANGED left
       ELSE NextDecoy(c, FALSE)
    /\ UNCHANGED <<watched, claimed, armed>>

\* remove, the act: by name, whatever is there now; or it fails.  (The folder
\* a plant made, which is tidied away when it is empty, holds nothing else.)
Unlink(c) ==
    LET u == caller[c].user
        d == Head(left[c])
    IN /\ Removing(c, "unlink")
       /\ \/ /\ Mine(c) # "none"
             /\ Put(u, d, "none", c)
             /\ watched' = [watched EXCEPT ![u][d] = FALSE]
             /\ NextDecoy(c, TRUE)
          \/ Untouched /\ UNCHANGED watched /\ NextDecoy(c, FALSE)
       /\ UNCHANGED <<claimed, armed>>

DecoysNext(c) ==
    \/ BeginDecoys(c) \/ PlantLook(c) \/ PlantAgain(c) \/ PlantWrite(c)
    \/ PlantWatch(c) \/ RemoveLook(c) \/ Unlink(c)

\* status: the decoys that are there and ours; armed when Windows says so.
Status(u) == {d \in Elements(PlantList) : IsOurs(u, d)}

\* The owner puts a file of their own at a decoy's path, or deletes what is
\* there.  A file made anew is not watched.
OwnerActs ==
    /\ \E u \in Users, d \in Elements(Files), what \in {"owner", "none"} :
         /\ at[u][d] # what /\ Put(u, d, what, "nobody")
         /\ watched' = [watched EXCEPT ![u][d] = FALSE]
    /\ UNCHANGED <<left, claimed, armed>>

DecoysTypeOK ==
    /\ at \in [Users -> [AllDecoys -> {"none", "ours", "owner"}]]
    /\ watched \in [Users -> [AllDecoys -> BOOLEAN]]
    /\ \A c \in Conns : /\ Elements(left[c]) \subseteq AllDecoys
                        /\ armed[c] \subseteq claimed[c]
                        /\ claimed[c] \cup disturbed[c] \subseteq AllDecoys

(***************************************************************************)
(* A request replaces or removes an owner's file only when that file came  *)
(* to the decoy's path while the request was already running: one that lay *)
(* there when plant or remove began is never touched.                      *)
(***************************************************************************)
OwnersFileStays ==
    \A u \in Users, d \in AllDecoys, c \in Conns :
        /\ at[u][d] = "owner" /\ at'[u][d] # "owner"
        /\ caller[c].user = u /\ pc'[c] # pc[c]
        => d \in disturbed[c]

(***************************************************************************)
(* What the answer to a plant lists as a decoy is one: unless somebody     *)
(* else was at that path in the meantime, the file is there with the       *)
(* marker in it, status would list it too, and one listed as armed is one  *)
(* Windows has been told to watch.                                         *)
(***************************************************************************)
ClaimsAreTrue ==
    \A c \in Conns :
        pc[c] \in {"record", "reply"} /\ req[c].kind = "SetCanaries" /\ req[c].on =>
            \A d \in claimed[c] \ disturbed[c] :
                /\ d \in Status(caller[c].user)
                /\ d \in armed[c] => watched[caller[c].user][d]
=============================================================================
