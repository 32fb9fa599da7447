---------------------------- MODULE MCQuarantine ----------------------------
(***************************************************************************)
(* Instances of Quarantine for TLC.  Two files share a home, so that the   *)
(* name of a held file can be taken back while it is held; the folder and  *)
(* what is distant have homes of their own.                                *)
(***************************************************************************)
EXTENDS Quarantine, TLC

CONSTANTS shared, own, away, folder, distant

\* The threads are alike.
SymmetricWorkers == Permutations(Workers)

MCHome == [c \in Contents |->
    CASE c = folder -> own [] c = distant -> away [] OTHER -> shared]

=============================================================================
