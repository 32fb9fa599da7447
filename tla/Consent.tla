------------------------------ MODULE Consent -------------------------------
(***************************************************************************)
(* A machine-wide change goes through Windows' permission prompt.  The     *)
(* window creates an empty file, a copy of the program is started with     *)
(* administrator rights, makes the one request and writes the agent's      *)
(* answer into that file, and the window reads it when the copy has ended. *)
(* The copy is a process of its own: it can be ended at any step, and the  *)
(* file can be taken away under it.                                        *)
(***************************************************************************)
EXTENDS Window

VARIABLES
    copy,           \* the step of the approved copy, if there is one
    by,             \* whose account approved the prompt
    file,           \* the answer file: absent, empty, torn, or an outcome
    code,           \* the exit code of the copy
    made            \* whether the agent made the change of the call

consentVars == <<copy, by, file, code, made>>

ConsentInit ==
    /\ copy = [k \in Calls |-> "none"] /\ by = [k \in Calls |-> "nobody"]
    /\ file = [k \in Calls |-> "absent"] /\ code = [k \in Calls |-> 0]
    /\ made = [k \in Calls |-> FALSE]

\* The only commands whose requests are carried through the prompt.
Allowed(c) == c.name \in Consented \cup {"clear_cache"}

\* consent::call: already elevated, the window asks the agent itself.
CallElevated(k) ==
    /\ pc[k] = "begin" /\ WithConsent(cmd[k]) /\ Allowed(cmd[k]) /\ elevated
    /\ \/ \E a \in Answers(cmd[k], TRUE) :
            /\ reply' = [reply EXCEPT ![k] = a]
            /\ made' = [made EXCEPT ![k] = a = "Ok"]
            /\ Show(k, Unwrap(a))
       \/ \E done \in BOOLEAN :
            made' = [made EXCEPT ![k] = done] /\ Show(k, "error") /\ UNCHANGED reply
    /\ UNCHANGED <<log, copy, by, file, code>>

\* ask_windows: the file is created, and never over an existing one.
Prepare(k) ==
    /\ pc[k] = "begin" /\ WithConsent(cmd[k]) /\ ~elevated
    /\ made' = [made EXCEPT ![k] = FALSE] /\ code' = [code EXCEPT ![k] = 0]
    /\ \/ /\ Allowed(cmd[k]) /\ file[k] = "absent"
          /\ file' = [file EXCEPT ![k] = "empty"] /\ Onward(k, "prompt")
       \/ Show(k, "notPrepared") /\ UNCHANGED file
    /\ UNCHANGED <<reply, log, copy, by>>

\* The prompt is declined, cannot be shown, or is approved, by the person or
\* by an administrator who is somebody else.
Prompt(k) ==
    /\ pc[k] = "prompt"
    /\ \/ \E what \in {"declined", "notAsked"} :
            /\ Show(k, what) /\ file' = [file EXCEPT ![k] = "absent"]
            /\ UNCHANGED <<copy, by>>
       \/ \E who \in {"person", "other"} :
            /\ by' = [by EXCEPT ![k] = who]
            /\ copy' = [copy EXCEPT ![k] = "check"]
            /\ Onward(k, "wait") /\ UNCHANGED file
    /\ UNCHANGED <<reply, log, code, made>>

Exit(k, c) ==
    /\ copy' = [copy EXCEPT ![k] = "exited"]
    /\ code' = [code EXCEPT ![k] = c]

\* acceptable_result_path: the approver's own temporary folder and nowhere
\* else, which is the window's only when they are the same person.
AcceptableResultPath(k) == by[k] = "person"

\* apply, before the agent is contacted: the file's place and the kind of
\* request, or exit code 2.
CopyChecks(k) ==
    /\ copy[k] = "check"
    /\ IF AcceptableResultPath(k) /\ Allowed(cmd[k])
       THEN copy' = [copy EXCEPT ![k] = "call"] /\ UNCHANGED code
       ELSE Exit(k, 2)
    /\ UNCHANGED <<pc, cmd, shown, elevated, invoked, group, reply, log, by, file, made>>

\* The one request, with administrator rights.  The call can fail with the
\* change made and its answer lost.
CopyCalls(k) ==
    /\ copy[k] = "call"
    /\ \/ \E a \in Answers(cmd[k], TRUE) :
            /\ reply' = [reply EXCEPT ![k] = a]
            /\ made' = [made EXCEPT ![k] = a = "Ok"]
       \/ \E done \in BOOLEAN :
            reply' = [reply EXCEPT ![k] = "Lost"] /\ made' = [made EXCEPT ![k] = done]
    /\ copy' = [copy EXCEPT ![k] = "write"]
    /\ UNCHANGED <<pc, cmd, shown, elevated, invoked, group, log, by, file, code>>

\* A slip: a write that fails is reported with the code of a refusal.
CopyWritesRefused(k) ==
    /\ copy[k] = "write"
    /\ \/ /\ file[k] = "empty"
          /\ file' = [file EXCEPT ![k] = IF reply[k] = "Ok" THEN "answered" ELSE "failed"]
          /\ Exit(k, IF reply[k] = "Ok" THEN 0 ELSE 1)
       \/ file[k] = "empty" /\ file' = [file EXCEPT ![k] = "torn"] /\ Exit(k, 2)
       \/ file[k] # "empty" /\ Exit(k, 2) /\ UNCHANGED file
    /\ UNCHANGED <<pc, cmd, shown, elevated, invoked, group, reply, log, by, made>>

\* The outcome goes into the file that is there, never through a link and
\* never into a new one.
CopyWrites(k) ==
    /\ copy[k] = "write"
    /\ \/ /\ file[k] = "empty"
          /\ file' = [file EXCEPT ![k] = IF reply[k] = "Ok" THEN "answered" ELSE "failed"]
          /\ Exit(k, IF reply[k] = "Ok" THEN 0 ELSE 1)
       \/ file[k] = "empty" /\ file' = [file EXCEPT ![k] = "torn"] /\ Exit(k, 3)
       \/ file[k] # "empty" /\ Exit(k, 3) /\ UNCHANGED file
    /\ UNCHANGED <<pc, cmd, shown, elevated, invoked, group, reply, log, by, made>>

\* Somebody ends the copy, or it fails, before it is done.
CopyDies(k) ==
    /\ copy[k] \in {"check", "call", "write"}
    /\ Exit(k, 1)
    /\ UNCHANGED <<pc, cmd, shown, elevated, invoked, group, reply, log, by, file, made>>

\* A program of the person's clears the temporary folder.
FileTaken(k) ==
    /\ file[k] = "empty" /\ copy[k] # "none"
    /\ file' = [file EXCEPT ![k] = "taken"]
    /\ UNCHANGED <<callVars, copy, by, code, made>>

\* A slip: the window does not wait for the copy to end.
ReadAnswerEarly(k) ==
    /\ pc[k] = "wait"
    /\ Show(k, IF file[k] = "answered" THEN "value" ELSE "missing")
    /\ file' = [file EXCEPT ![k] = "absent"]
    /\ UNCHANGED <<reply, log, copy, by, code, made>>

\* The copy has ended: its answer, or, without one, what its exit code says.
\* The code itself may be unreadable, and reads as 0 then.
ReadAnswer(k) ==
    /\ pc[k] = "wait" /\ copy[k] = "exited"
    /\ \E c \in {code[k], 0} :
         Show(k, CASE file[k] = "answered" -> "value"
                   [] file[k] = "failed" -> "error"
                   [] file[k] \in {"empty", "torn", "taken"} /\ c = 2 -> "never"
                   [] file[k] \in {"empty", "torn", "taken"} /\ c # 2 -> "missing")
    /\ file' = [file EXCEPT ![k] = "absent"] /\ copy' = [copy EXCEPT ![k] = "none"]
    /\ UNCHANGED <<reply, log, by, code, made>>

ConsentNext(k) ==
    \/ CallElevated(k) \/ Prepare(k) \/ Prompt(k) \/ CopyChecks(k) \/ CopyCalls(k)
    \/ CopyWrites(k) \/ CopyDies(k) \/ FileTaken(k) \/ ReadAnswer(k)

(***************************************************************************)
(* What a person is told about a machine-wide change is so: when they are  *)
(* told that nothing was changed, whichever of the four sentences says it, *)
(* the agent made no change for that call, and when they are shown its     *)
(* result the change was made.                                             *)
(***************************************************************************)
ToldTheTruth ==
    \A k \in Calls :
        pc[k] = "done" /\ WithConsent(cmd[k]) =>
            /\ shown[k] \in {"declined", "notAsked", "notPrepared", "never"} => ~made[k]
            /\ shown[k] = "value" => made[k]
=============================================================================
