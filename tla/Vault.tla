------------------------------- MODULE Vault --------------------------------
(***************************************************************************)
(* What the quarantine store promises of the contents of the volume, with  *)
(* no ids, manifests or threads: a content is at home or held, one content *)
(* changes place at a time, a home is never shared, only what is held can  *)
(* be destroyed by the store, and links and what lies on another volume or *)
(* around the store are never held.                                        *)
(***************************************************************************)
CONSTANTS Contents, Home,
    Refused   \* contents the store never takes

VARIABLE where

Places == {"unborn", "home", "held", "destroyed"}

Set(c, place) == where' = [where EXCEPT ![c] = place]

HomeFree(c) == \A d \in Contents : Home[d] = Home[c] => where[d] # "home"

Init ==
    /\ where \in [Contents -> {"unborn", "home"}]
    /\ \A c, d \in Contents :
          where[c] = "home" /\ where[d] = "home" /\ Home[c] = Home[d] => c = d

\* Somebody creates the content at its home.
Create(c) == where[c] = "unborn" /\ HomeFree(c) /\ Set(c, "home")

\* Somebody deletes the content where it lies.
Discard(c) == where[c] = "home" /\ Set(c, "destroyed")

Hold(c) == c \notin Refused /\ where[c] = "home" /\ Set(c, "held")

GiveBack(c) == where[c] = "held" /\ HomeFree(c) /\ Set(c, "home")

Destroy(c) == where[c] = "held" /\ Set(c, "destroyed")

Next == \E c \in Contents :
    Create(c) \/ Discard(c) \/ Hold(c) \/ GiveBack(c) \/ Destroy(c)

Spec == Init /\ [][Next]_where

=============================================================================
