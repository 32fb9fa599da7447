------------------------------- MODULE Shell --------------------------------
(***************************************************************************)
(* The desktop shell: its window's commands, several in flight at once,    *)
(* the permission prompt, the bin and the uninstallers, the network, and   *)
(* the program's own coming and going.                                     *)
(***************************************************************************)
EXTENDS Consent, Recycle, Lookup, SignIn

CONSTANT
    MaxOutside      \* bound: what others do to the bin, and launches and closings

VARIABLE
    outside

\* The commands about the program's own start.
Starting == {"start_at_sign_in", "set_start_at_sign_in"}

\* The bound on what is called together keeps those commands to themselves.
ASSUME GroupsAssumption ==
    \A g \in Groups : g \cap Starting # {} => g \subseteq Starting

vars == <<callVars, consentVars, recycleVars, lookupVars, signInVars, outside>>

Init ==
    /\ WindowInit /\ ConsentInit /\ RecycleInit /\ LookupInit /\ SignInInit
    /\ outside = 0
    /\ elevated \/ key = "sealed" => run = "absent" /\ choice = "absent"  \* bound: one question at a time
    /\ ~(elevated /\ key = "sealed")

Call(k) ==
    \/ /\ window /\ \E c \in Commands : Invoke(k, c)
       /\ UNCHANGED <<consentVars, recycleVars, lookupVars, signInVars>>
    \/ (Forward(k) \/ AnswerHere(k) \/ (Drawn(k) /\ copy[k] = "none"))
       /\ UNCHANGED <<consentVars, recycleVars, lookupVars, signInVars>>
    \/ ConsentNext(k) /\ UNCHANGED <<recycleVars, lookupVars, signInVars>>
    \/ RecycleNext(k) /\ UNCHANGED <<consentVars, lookupVars, signInVars>>
    \/ LookupNext(k) /\ UNCHANGED <<consentVars, recycleVars, signInVars>>
    \/ SignInNext(k) /\ UNCHANGED <<consentVars, recycleVars, lookupVars>>

\* Other programs use the bin while an item is sent there; the shell itself is
\* started, closed and opened around the commands about starting it.
Outside ==
    /\ outside < MaxOutside /\ outside' = outside + 1
    /\ \/ /\ group = "recycle_item" /\ OthersUseBin
          /\ UNCHANGED <<consentVars, lookupVars, signInVars>>
       \/ /\ group \in Starting /\ ShellComesAndGoes
          /\ UNCHANGED <<consentVars, recycleVars, lookupVars>>

Next == (\E k \in Calls : Call(k) /\ UNCHANGED outside) \/ Outside

Spec == Init /\ [][Next]_vars

ShellTypeOK ==
    /\ \A k \in Calls :
         /\ cmd[k] \in Commands \cup {NoCommand}
         /\ pc[k] \in {"idle", "begin", "prompt", "wait", "perform", "verify", "record",
                       "launch", "answered", "done"}
         /\ reply[k] \in {"none", "Ok", "Error", "Stopped", "NoRights", "Lost"}
         /\ file[k] \in {"absent", "empty", "torn", "taken", "answered", "failed"}
         /\ copy[k] \in {"none", "check", "call", "write", "exited"}
         /\ copy[k] # "none" <=> pc[k] = "wait"
         /\ code[k] \in 0..3
    /\ \A i \in Items : place[i] \in {"disk", "partly", "bin", "gone"}
    /\ run \in {"absent", "ours", "elsewhere"} /\ choice \in {"absent", "on", "off"}
    /\ window => up

(***************************************************************************)
(* The permission prompt: what the person approves is carried out with     *)
(* enough rights, and the window never says nothing changed when the       *)
(* approved copy may have changed it.                                      *)
(***************************************************************************)
ConsentIsHonest ==
    ShellTypeOK /\ RightsAreEnough /\ ToldTheTruth

(***************************************************************************)
(* recycle_item: the log never says an item was recycled before it was,    *)
(* and with nobody else at the bin the window says truly whether it        *)
(* arrived there.                                                          *)
(***************************************************************************)
RemovalsAreTold ==
    LogNeverLeads /\ CountedAlone

(***************************************************************************)
(* However the program is started, closed, reopened and ended, it starts   *)
(* at sign-in as the person chose and takes one pair of icon handles.      *)
(***************************************************************************)
ComesAndGoesAsChosen ==
    StaysAsChosen /\ HandlesBounded
=============================================================================
