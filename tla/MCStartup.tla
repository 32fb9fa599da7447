------------------------------ MODULE MCStartup ------------------------------
EXTENDS Service

CONSTANTS svc, older, newer, nobody, person, noList

MCSchemaOf == [a \in Agents |-> IF a = older THEN 4 ELSE 5]

MCBait == {"passwords"}

\* One folder handed to Administrators, and the same still owned by the account
\* that unzipped it, which its list alone does not show.
MCHomes ==
  {[owner |-> owner, acl |-> <<[type |-> "allow", sid |-> "Administrators", mask |-> {"write"}],
                               [type |-> "allow", sid |-> "Users", mask |-> {"read"}]>>]
     : owner \in {"Administrators", person}}

(***************************************************************************)
(* A service that crashed or lost its power serves again, unless somebody  *)
(* stops or removes it or a start fails and says so, and no start takes    *)
(* for ever.                                                               *)
(***************************************************************************)
ComesBack ==
    CrashIsRecovered /\ StartsEnd
=============================================================================
