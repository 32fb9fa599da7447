------------------------------ MODULE MCAgent -------------------------------
(***************************************************************************)
(* The agent on a small machine: two connections, two accounts, two        *)
(* programs of one file name, one decoy file and one decoy key left by an  *)
(* earlier build, and two caches: one of the machine's, one in the profile *)
(* and wherever the user's own files say.                                  *)
(***************************************************************************)
EXTENDS Agent

\* A program from elsewhere, an account with no profile, and one account with
\* and without administrator rights.
Person(name, rights) == [user |-> name, trusted |-> TRUE, elevated |-> rights]
MCClients == {Nobody, [Nobody EXCEPT !.trusted = TRUE], Person("ann", TRUE), Person("ann", FALSE)}

MCFiles == <<"recovery">>
MCKeys == <<"putty">>
MCCatalogue == [system |-> {"machine"}, games |-> {"own", "named"}]

Installed == [dir |-> "apps", leaf |-> "setup"]
Gone == [dir |-> "old", leaf |-> "setup"]
MCMissing == {Gone}

MCGroups == {{"BlockProgram", "UnblockProgram"}, {"SetCanaries"}, {"ClearCache"}, {"SetSchedule"}}
ConnSymmetry == Permutations(Conns)

MCRequests ==
    [kind : DOMAIN Handlers]
    \cup [kind : {"SetProtection", "SetCanaryAuditing", "SetCanaries"}, on : BOOLEAN]
    \cup [kind : {"SetSchedule"}, on : {TRUE}, hour : {23, 24}]
    \cup [kind : {"SetSchedule"}, on : {FALSE}, hour : {0}]
    \cup [kind : {"SetHardening"}, rule : {"office", "pua", "nonsense"}, wanted : {"audit", "off"}]
    \cup [kind : {"BlockProgram"}, program : {Installed, Gone}]
    \cup [kind : {"UnblockProgram"}, rule : Names]
    \cup [kind : {"ClearCache"}, id : DOMAIN MCCatalogue \cup {"nonsense"}]
=============================================================================
