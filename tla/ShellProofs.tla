---------------------------- MODULE ShellProofs -----------------------------
(***************************************************************************)
(* Proofs about the desktop shell, for any number of calls in flight, any  *)
(* commands and items, and any versions and reports.                       *)
(***************************************************************************)
EXTENDS Shell, TLAPS

-----------------------------------------------------------------------------
(* The inductive invariant, one part per component.                        *)

Steps == {"idle", "begin", "prompt", "wait", "perform", "verify", "record", "launch",
          "answered", "done"}

\* What the window may be given at the end of a call.
Words == {"none", "value", "nothing", "error", "declined", "notAsked", "notPrepared",
          "never", "missing", "arrived", "missed", "unconfirmed", "notAnalysed", "clean",
          "isolated", "substantial", "notKnown", "problem", "newer", "ahead", "level",
          "on", "off", "elsewhere"}

\* Every call has its type, no answer says that rights are missing, and nothing
\* else is in flight beside the commands about the program's own start.
CallInv ==
    /\ pc \in [Calls -> Steps]
    /\ cmd \in [Calls -> Commands \cup {NoCommand}]
    /\ shown \in [Calls -> Words]
    /\ reply \in [Calls -> {"none", "Ok", "Error", "Stopped", "Lost"}]
    /\ invoked \in Nat
    /\ invoked = 0 => \A k \in Calls : cmd[k] = NoCommand
    /\ group \in Starting => \A k \in Calls : cmd[k].name \in Starting \cup {"none"}

\* The step a call is at says which command it runs.
CommandOf(k) ==
    /\ pc[k] \in {"prompt", "wait"} => WithConsent(cmd[k])
    /\ pc[k] \in {"perform", "verify", "record"} =>
          cmd[k].name = "recycle_item" /\ cmd[k].item \in Items
    /\ pc[k] = "launch" => cmd[k].name = "run_uninstaller"
    /\ pc[k] = "answered" => cmd[k].name \in {"virustotal_lookup", "check_for_update"}

\* What the approved copy has done so far, and what its file and code say of it:
\* nothing is made before it calls, code 2 is given only before that, and an
\* answer is in the file only when the change was made.
ConsentOf(k) ==
    /\ copy[k] # "none" <=> pc[k] = "wait"
    /\ pc[k] = "prompt" => file[k] = "empty" /\ code[k] = 0 /\ ~made[k]
    /\ copy[k] \in {"check", "call"} => ~made[k]
    /\ copy[k] \in {"check", "call", "write"} => code[k] = 0 /\ file[k] \in {"empty", "taken"}
    /\ copy[k] = "write" /\ reply[k] = "Ok" => made[k]
    /\ copy[k] = "exited" =>
          /\ file[k] \in {"empty", "torn", "taken", "answered", "failed"}
          /\ file[k] = "answered" => made[k]
          /\ code[k] = 2 => ~made[k]
    /\ pc[k] = "done" /\ WithConsent(cmd[k]) =>
          /\ shown[k] \in {"declined", "notAsked", "notPrepared", "never"} => ~made[k]
          /\ shown[k] = "value" => made[k]

ConsentInv ==
    /\ copy \in [Calls -> {"none", "check", "call", "write", "exited"}]
    /\ by \in [Calls -> {"nobody", "person", "other"}]
    /\ file \in [Calls -> {"absent", "empty", "torn", "taken", "answered", "failed"}]
    /\ code \in [Calls -> 0 .. 3]
    /\ made \in [Calls -> BOOLEAN]
    /\ \A k \in Calls : ConsentOf(k)

\* As long as nobody else has used the bin since the first count, the bin holds
\* what was counted, and the item of this call if it went there.
RemovalOf(k) ==
    /\ pc[k] = "perform" /\ ~shared[k] => before[k] \in {bin, Uncounted}
    /\ pc[k] = "verify" =>
          /\ landed[k] \in {"bin", "gone"} /\ cmd[k].item \in removed
          /\ ~shared[k] /\ landed[k] = "bin" => before[k] \in {bin - 1, Uncounted}
          /\ ~shared[k] /\ landed[k] = "gone" => before[k] \in {bin, Uncounted}
    /\ pc[k] = "record" =>
          /\ arrived[k] \in {"unconfirmed", "arrived", "missed"}
          /\ cmd[k].item \in removed
          /\ ~shared[k] /\ arrived[k] = "arrived" => landed[k] = "bin"
          /\ ~shared[k] /\ arrived[k] = "missed" => landed[k] = "gone"
    /\ pc[k] = "done" /\ cmd[k].name = "recycle_item" /\ ~shared[k] =>
          /\ shown[k] = "arrived" => landed[k] = "bin"
          /\ shown[k] = "missed" => landed[k] = "gone"

RecycleInv ==
    /\ place \in [Items -> {"disk", "partly", "bin", "gone"}]
    /\ bin \in Int
    /\ before \in [Calls -> Int]
    /\ arrived \in [Calls -> {"none", "unconfirmed", "arrived", "missed"}]
    /\ landed \in [Calls -> {"none", "bin", "gone"}]
    /\ shared \in [Calls -> BOOLEAN]
    /\ LogNeverLeads
    /\ \A k \in Calls : RemovalOf(k)

\* What http::get can bring back, with one of these bodies.
Brought(bodies) ==
    {Nothing} \cup [status : {200, 401, 403, 404, 429, 500}, whole : BOOLEAN, body : bodies]

\* The answer of a call is one to its own question, and what was made of it stays
\* true until it is drawn.
Calm(answer) ==
    /\ answer.whole /\ answer.body.malicious + answer.body.suspicious = 0
    /\ answer.body.harmless + answer.body.undetected > 0

Latest(answer) ==
    answer.whole /\ answer.body.running = answer.body.version /\ ~answer.body.unpublished

Releases == [version : Versions, unpublished : BOOLEAN, running : Versions]

AnswerOf(k) ==
    /\ pc[k] = "answered" /\ cmd[k].name = "virustotal_lookup" => got[k] \in Brought(Reports)
    /\ pc[k] = "answered" /\ cmd[k].name = "check_for_update" => got[k] \in Brought(Releases)
    /\ pc[k] = "done" /\ shown[k] = "clean" => Calm(got[k])
    /\ pc[k] = "done" /\ shown[k] = "level" => Latest(got[k])

LookupInv ==
    /\ DOMAIN got = Calls /\ got = [k \in Calls |-> got[k]]
    /\ \A k \in Calls : AnswerOf(k)

\* The person's choice is kept, and the icons are asked for once a process.
SignInInv ==
    /\ run \in {"absent", "ours", "elsewhere"} /\ choice \in {"absent", "on", "off"}
    /\ wish \in {"none", "unsure", "on", "off"}
    /\ up \in BOOLEAN /\ window \in BOOLEAN /\ (window => up)
    /\ icons \in {"unasked", "loaded", "failed"} /\ handles \in 0 .. 2
    /\ icons = "unasked" => handles = 0
    /\ StaysAsChosen

IInv ==
    /\ CallInv /\ (\A k \in Calls : CommandOf(k))
    /\ ConsentInv /\ RecycleInv /\ LookupInv /\ SignInInv

-----------------------------------------------------------------------------
(* What a step of one call leaves alone.                                   *)

\* The other calls stay where they are.
Apart(k) ==
    \A j \in Calls \ {k} :
        pc'[j] = pc[j] /\ cmd'[j] = cmd[j] /\ shown'[j] = shown[j] /\ reply'[j] = reply[j]

\* The step has nothing to do with the permission prompt.
NoPrompt(k) ==
    /\ UNCHANGED consentVars
    /\ pc[k] # "wait" /\ pc'[k] \notin {"prompt", "wait"}
    /\ pc'[k] = "done" => ~WithConsent(cmd'[k])

\* The step has nothing to do with the bin.
NoRemoval(k) ==
    /\ UNCHANGED recycleVars
    /\ pc'[k] \notin {"perform", "verify", "record"}
    /\ pc'[k] = "done" => cmd'[k].name # "recycle_item"
    /\ \A entry \in log' : entry.what = "recycle" => entry \in log

\* The step has nothing to do with the network.
NoAnswer(k) ==
    /\ UNCHANGED lookupVars
    /\ pc'[k] # "answered"
    /\ pc'[k] = "done" => shown'[k] \notin {"clean", "level"}

\* A step away from the prompt keeps what is known of it.
LEMMA KeepConsent ==
  ASSUME ConsentInv, NEW k \in Calls, Apart(k), NoPrompt(k)
  PROVE  ConsentInv'
<1>1. UNCHANGED <<copy, by, file, code, made>>
  BY DEF NoPrompt, consentVars
<1>2. ASSUME NEW j \in Calls, j # k PROVE ConsentOf(j)'
  BY <1>1, <1>2 DEF Apart, ConsentInv, ConsentOf
<1>3. ConsentOf(k)'
  BY <1>1 DEF NoPrompt, ConsentInv, ConsentOf
<1>4. \A j \in Calls : ConsentOf(j)'
  BY <1>2, <1>3
<1> QED BY <1>1, <1>4 DEF ConsentInv

\* A step away from the bin keeps what is known of it.
LEMMA KeepRecycle ==
  ASSUME RecycleInv, NEW k \in Calls, Apart(k), NoRemoval(k)
  PROVE  RecycleInv'
<1>1. UNCHANGED <<place, bin, before, arrived, landed, shared, removed>>
  BY DEF NoRemoval, recycleVars
<1>2. ASSUME NEW j \in Calls, j # k PROVE RemovalOf(j)'
  BY <1>1, <1>2 DEF Apart, RecycleInv, RemovalOf
<1>3. RemovalOf(k)'
  BY DEF NoRemoval, RemovalOf
<1>4. \A j \in Calls : RemovalOf(j)'
  BY <1>2, <1>3
<1>5. LogNeverLeads'
  BY <1>1 DEF NoRemoval, RecycleInv, LogNeverLeads
<1> QED BY <1>1, <1>4, <1>5 DEF RecycleInv

\* A step away from the network keeps what is known of it.
LEMMA KeepLookup ==
  ASSUME LookupInv, NEW k \in Calls, Apart(k), NoAnswer(k)
  PROVE  LookupInv'
<1>1. UNCHANGED <<key, got>>
  BY DEF NoAnswer, lookupVars
<1>2. ASSUME NEW j \in Calls, j # k PROVE AnswerOf(j)'
  BY <1>1, <1>2 DEF Apart, LookupInv, AnswerOf
<1>3. AnswerOf(k)'
  BY DEF NoAnswer, AnswerOf
<1>4. \A j \in Calls : AnswerOf(j)'
  BY <1>2, <1>3
<1> QED BY <1>1, <1>4 DEF LookupInv

\* A step of a call leaves the start at sign-in alone.
LEMMA KeepSignIn == SignInInv /\ UNCHANGED signInVars => SignInInv'
  BY DEF SignInInv, StaysAsChosen, signInVars

\* The end of a call, and a move of it to its next step.
LEMMA Moved ==
  ASSUME CallInv, NEW k \in Calls, NEW what \in Words, NEW where \in Steps,
         Show(k, what) \/ Onward(k, where),
         reply' = reply \/ \E a \in {"Ok", "Error", "Stopped", "Lost"} :
                              reply' = [reply EXCEPT ![k] = a]
  PROVE  /\ CallInv' /\ Apart(k) /\ UNCHANGED cmd
         /\ Show(k, what) => pc'[k] = "done" /\ shown'[k] = what
         /\ Onward(k, where) => pc'[k] = where /\ UNCHANGED shown
<1>1. /\ reply' \in [Calls -> {"none", "Ok", "Error", "Stopped", "Lost"}]
      /\ \A j \in Calls \ {k} : reply'[j] = reply[j]
  BY DEF CallInv
<1>2. CASE Show(k, what)
  <2>1. /\ pc' = [pc EXCEPT ![k] = "done"] /\ shown' = [shown EXCEPT ![k] = what]
        /\ UNCHANGED <<cmd, invoked, group>>
    BY <1>2 DEF Show
  <2>2. /\ pc' \in [Calls -> Steps] /\ shown' \in [Calls -> Words]
        /\ \A j \in Calls \ {k} : pc'[j] = pc[j] /\ shown'[j] = shown[j]
        /\ pc'[k] = "done" /\ shown'[k] = what
    BY <2>1 DEF CallInv, Steps
  <2>3. Onward(k, where) => pc'[k] = where /\ UNCHANGED shown
    BY DEF Onward, CallInv
  <2> QED BY <1>1, <2>1, <2>2, <2>3 DEF CallInv, Apart
<1>3. CASE Onward(k, where)
  <2>1. pc' = [pc EXCEPT ![k] = where] /\ UNCHANGED <<cmd, shown, invoked, group>>
    BY <1>3 DEF Onward
  <2>2. /\ pc' \in [Calls -> Steps]
        /\ \A j \in Calls \ {k} : pc'[j] = pc[j]
        /\ pc'[k] = where
    BY <2>1 DEF CallInv
  <2>3. Show(k, what) => pc'[k] = "done" /\ shown'[k] = what
    BY DEF Show, CallInv
  <2> QED BY <1>1, <2>1, <2>2, <2>3 DEF CallInv, Apart
<1> QED BY <1>2, <1>3

\* The other calls still run the commands of their steps.
LEMMA KeepCommands ==
  ASSUME \A j \in Calls : CommandOf(j), NEW k \in Calls, Apart(k), CommandOf(k)'
  PROVE  \A j \in Calls : CommandOf(j)'
<1>1. ASSUME NEW j \in Calls, j # k PROVE CommandOf(j)'
  <2>1. pc'[j] = pc[j] /\ cmd'[j] = cmd[j] /\ CommandOf(j)
    BY <1>1 DEF Apart
  <2> QED BY <2>1 DEF CommandOf, WithConsent, MachineWide
<1> QED BY <1>1

\* The agent restricts what goes through the prompt and nothing else.
LEMMA SameCommands == \A c : Restricted(c) <=> WithConsent(c)
  BY DEF Restricted, WithConsent, MachineWide, Consented, Protecting, Blocking

\* No other command is taken through the prompt.
LEMMA OtherCommands ==
  ASSUME NEW c,
         \/ c.name \in Forwarded \cup Streamed \cup Local \cup Starting
         \/ c.name \in {"recycle_item", "run_uninstaller", "virustotal_lookup",
                        "check_for_update", "set_virustotal_key",
                        "virustotal_key_present", "none"}
  PROVE  ~WithConsent(c)
  BY DEF WithConsent, Consented, Protecting, Blocking, Forwarded, Overview, Applications,
         Changes, Emptying, Checking, Holding, Moving, Defending, Deciding, Network,
         Stopping, Streamed, Local, Preview, Recyclable, Explorer, RuleScan, ReleasePage,
         Starting

\* A step of one call keeps the invariant when it keeps the types and each of the
\* components, or has nothing to do with it.
LEMMA Together ==
  ASSUME IInv, NEW k \in Calls, CallInv', Apart(k), CommandOf(k)',
         ConsentInv' \/ NoPrompt(k), RecycleInv' \/ NoRemoval(k),
         LookupInv' \/ NoAnswer(k), SignInInv' \/ UNCHANGED signInVars
  PROVE  IInv'
<1>1. \A j \in Calls : CommandOf(j)'
  BY KeepCommands DEF IInv
<1>2. ConsentInv'
  BY KeepConsent DEF IInv
<1>3. RecycleInv'
  BY KeepRecycle DEF IInv
<1>4. LookupInv'
  BY KeepLookup DEF IInv
<1>5. SignInInv'
  BY KeepSignIn DEF IInv
<1> QED BY <1>1, <1>2, <1>3, <1>4, <1>5 DEF IInv

-----------------------------------------------------------------------------
(* The window's own steps.                                                 *)

\* A command is called.
LEMMA InvokeInv ==
  ASSUME IInv, NEW k \in Calls, NEW c \in Commands, Invoke(k, c),
         UNCHANGED <<consentVars, recycleVars, lookupVars, signInVars>>
  PROVE  IInv'
<1>1. /\ pc[k] = "idle" /\ invoked' = invoked + 1 /\ group' = c.name /\ UNCHANGED log
      /\ invoked = 0 \/ (\E g \in Groups : c.name \in g /\ group \in g)
      /\ pc' = [pc EXCEPT ![k] = "begin"] /\ cmd' = [cmd EXCEPT ![k] = c]
      /\ shown' = [shown EXCEPT ![k] = "none"] /\ reply' = [reply EXCEPT ![k] = "none"]
  BY DEF Invoke
<1>2. /\ pc' \in [Calls -> Steps] /\ shown' \in [Calls -> Words]
      /\ cmd' \in [Calls -> Commands \cup {NoCommand}]
      /\ reply' \in [Calls -> {"none", "Ok", "Error", "Stopped", "Lost"}]
      /\ invoked' \in Nat /\ invoked' # 0
  BY <1>1 DEF IInv, CallInv, Steps, Words
<1>3. /\ pc'[k] = "begin" /\ cmd'[k] = c /\ Apart(k)
  BY <1>1 DEF IInv, CallInv, Apart
<1>4. ASSUME c.name \in Starting, NEW j \in Calls
      PROVE  cmd'[j].name \in Starting \cup {"none"}
  <2>1. CASE j = k
    BY <1>3, <1>4, <2>1
  <2>2. CASE j # k
    <3>1. cmd'[j] = cmd[j] /\ NoCommand.name = "none"
      BY <1>3, <2>2 DEF Apart, NoCommand
    <3>2. CASE invoked = 0
      BY <3>1, <3>2 DEF IInv, CallInv
    <3>3. CASE \E g \in Groups : c.name \in g /\ group \in g
      <4>1. group \in Starting
        BY <1>4, <3>3, GroupsAssumption
      <4> QED BY <3>1, <4>1 DEF IInv, CallInv
    <3> QED BY <1>1, <3>2, <3>3
  <2> QED BY <2>1, <2>2
<1>5. CallInv'
  BY <1>1, <1>2, <1>4 DEF CallInv
<1>6. CommandOf(k)'
  BY <1>3 DEF CommandOf
<1>7. NoPrompt(k) /\ NoRemoval(k) /\ NoAnswer(k)
  BY <1>1, <1>3 DEF NoPrompt, NoRemoval, NoAnswer
<1> QED BY <1>3, <1>5, <1>6, <1>7, Together

\* One request to the agent, or an answer from this process.
LEMMA ForwardInv ==
  ASSUME IInv, NEW k \in Calls, Forward(k) \/ AnswerHere(k),
         UNCHANGED <<consentVars, recycleVars, lookupVars, signInVars>>
  PROVE  IInv'
<1>0. CallInv
  BY DEF IInv
<1>1. pc[k] = "begin" /\ UNCHANGED log
  BY DEF Forward, AnswerHere, Running
<1>2. ~WithConsent(cmd[k]) /\ cmd[k].name # "recycle_item"
  BY OtherCommands
     DEF Forward, AnswerHere, Running, Forwarded, Overview, Applications, Changes, Emptying,
         Checking, Holding, Moving, Defending, Deciding, Network, Stopping, Streamed, Local,
         Preview, Recyclable, Explorer, RuleScan, ReleasePage
<1>3. PICK what \in {"value", "nothing", "error"} :
        /\ Show(k, what)
        /\ \/ UNCHANGED reply
           \/ \E a \in {"Ok", "Error", "Stopped"} : reply' = [reply EXCEPT ![k] = a]
  <2>1. CASE AnswerHere(k)
    BY <2>1 DEF AnswerHere
  <2>2. CASE Forward(k)
    <3>1. Answers(cmd[k], elevated) \subseteq {"Ok", "Error", "Stopped"}
      BY <1>2, SameCommands DEF Answers
    <3> QED BY <2>2, <3>1 DEF Forward, Unwrap
  <2> QED BY <2>1, <2>2
<1>4. /\ CallInv' /\ Apart(k) /\ UNCHANGED cmd
      /\ pc'[k] = "done" /\ shown'[k] = what
  <2>1. what \in Words /\ "done" \in Steps
    BY DEF Words, Steps
  <2>2. reply' = reply \/ \E a \in {"Ok", "Error", "Stopped", "Lost"} :
                              reply' = [reply EXCEPT ![k] = a]
    BY <1>3
  <2> QED BY <1>0, <1>3, <2>1, <2>2, Moved
<1>5. CommandOf(k)'
  BY <1>4 DEF CommandOf
<1>6. NoPrompt(k) /\ NoRemoval(k) /\ NoAnswer(k)
  BY <1>1, <1>2, <1>4 DEF NoPrompt, NoRemoval, NoAnswer, WithConsent, MachineWide
<1> QED BY <1>4, <1>5, <1>6, Together

\* The window draws what it was given.
LEMMA DrawnInv ==
  ASSUME IInv, NEW k \in Calls, Drawn(k),
         UNCHANGED <<consentVars, recycleVars, lookupVars, signInVars>>
  PROVE  IInv'
<1>1. /\ pc[k] = "done" /\ UNCHANGED <<log, invoked, group>>
      /\ pc' = [pc EXCEPT ![k] = "idle"] /\ cmd' = [cmd EXCEPT ![k] = NoCommand]
      /\ shown' = [shown EXCEPT ![k] = "none"] /\ reply' = [reply EXCEPT ![k] = "none"]
  BY DEF Drawn
<1>2. /\ pc' \in [Calls -> Steps] /\ shown' \in [Calls -> Words]
      /\ cmd' \in [Calls -> Commands \cup {NoCommand}]
      /\ reply' \in [Calls -> {"none", "Ok", "Error", "Stopped", "Lost"}]
  BY <1>1 DEF IInv, CallInv, Steps, Words
<1>3. /\ pc'[k] = "idle" /\ cmd'[k] = NoCommand /\ NoCommand.name = "none"
      /\ Apart(k)
  BY <1>1 DEF IInv, CallInv, Apart, NoCommand
<1>4. CallInv'
  BY <1>1, <1>2, <1>3 DEF IInv, CallInv, Apart
<1>5. CommandOf(k)'
  BY <1>3 DEF CommandOf
<1>6. NoPrompt(k) /\ NoRemoval(k) /\ NoAnswer(k)
  BY <1>1, <1>3 DEF NoPrompt, NoRemoval, NoAnswer
<1> QED BY <1>3, <1>4, <1>5, <1>6, Together

-----------------------------------------------------------------------------
(* The permission prompt.                                                  *)

\* The step changes what is kept of the prompt of one call.
PromptApart(k) ==
    \A j \in Calls \ {k} :
        copy'[j] = copy[j] /\ file'[j] = file[j] /\ code'[j] = code[j] /\ made'[j] = made[j]

ConsentTypes ==
    /\ copy \in [Calls -> {"none", "check", "call", "write", "exited"}]
    /\ by \in [Calls -> {"nobody", "person", "other"}]
    /\ file \in [Calls -> {"absent", "empty", "torn", "taken", "answered", "failed"}]
    /\ code \in [Calls -> 0 .. 3]
    /\ made \in [Calls -> BOOLEAN]

\* What is known of the other prompts stays so.
LEMMA OnePrompt ==
  ASSUME ConsentInv, NEW k \in Calls, Apart(k), PromptApart(k), ConsentTypes', ConsentOf(k)'
  PROVE  ConsentInv'
<1>1. ASSUME NEW j \in Calls, j # k PROVE ConsentOf(j)'
  <2>1. /\ pc'[j] = pc[j] /\ cmd'[j] = cmd[j] /\ shown'[j] = shown[j] /\ reply'[j] = reply[j]
        /\ copy'[j] = copy[j] /\ file'[j] = file[j] /\ code'[j] = code[j]
        /\ made'[j] = made[j]
    BY <1>1 DEF Apart, PromptApart
  <2>2. ConsentOf(j)
    BY DEF ConsentInv
  <2>3. WithConsent(cmd[j])' <=> WithConsent(cmd[j])
    BY <2>1 DEF WithConsent, MachineWide
  <2> QED BY <2>1, <2>2, <2>3 DEF ConsentOf
<1>2. \A j \in Calls : ConsentOf(j)'
  BY <1>1
<1> QED BY <1>2 DEF ConsentInv, ConsentTypes

\* A step of a prompt has nothing to do with the bin or the network.
LEMMA PromptOnly ==
  ASSUME IInv, NEW k \in Calls, CallInv', Apart(k), PromptApart(k), ConsentTypes',
         ConsentOf(k)', WithConsent(cmd[k]), UNCHANGED <<cmd, log>>,
         pc'[k] \in {"prompt", "wait", "done"},
         pc'[k] = "done" => shown'[k] \notin {"clean", "level"},
         UNCHANGED <<recycleVars, lookupVars, signInVars>>
  PROVE  IInv'
<1>1. ConsentInv'
  BY OnePrompt DEF IInv
<1>2. WithConsent(cmd'[k]) /\ cmd'[k].name # "recycle_item"
  BY OtherCommands DEF WithConsent, MachineWide
<1>3. CommandOf(k)'
  BY <1>2 DEF CommandOf, WithConsent, MachineWide
<1>4. NoRemoval(k) /\ NoAnswer(k)
  BY <1>2 DEF NoRemoval, NoAnswer
<1> QED BY <1>1, <1>3, <1>4, Together

\* The prompt is prepared and shown.
LEMMA AskingInv ==
  ASSUME IInv, NEW k \in Calls, CallElevated(k) \/ Prepare(k) \/ Prompt(k),
         UNCHANGED <<recycleVars, lookupVars, signInVars>>
  PROVE  IInv'
<1>0. CallInv /\ ConsentInv /\ ConsentTypes /\ CommandOf(k) /\ ConsentOf(k)
  BY DEF IInv, ConsentInv, ConsentTypes
<1>1. WithConsent(cmd[k]) /\ UNCHANGED log /\ copy[k] = "none"
  BY <1>0 DEF CallElevated, Prepare, Prompt, CommandOf, ConsentOf, ConsentTypes
<1>2. CASE CallElevated(k)
  <2>1. PICK what \in {"value", "nothing", "error"}, m \in BOOLEAN :
          /\ Show(k, what) /\ made' = [made EXCEPT ![k] = m] /\ (what = "value" => m)
          /\ \/ UNCHANGED reply
             \/ \E a \in {"Ok", "Error", "Stopped"} : reply' = [reply EXCEPT ![k] = a]
          /\ UNCHANGED <<copy, by, file, code>>
    <3>1. Answers(cmd[k], TRUE) \subseteq {"Ok", "Error", "Stopped"}
      BY DEF Answers
    <3>2. CASE \E a \in Answers(cmd[k], TRUE) :
                 /\ reply' = [reply EXCEPT ![k] = a]
                 /\ made' = [made EXCEPT ![k] = a = "Ok"]
                 /\ Show(k, Unwrap(a))
      <4>1. PICK a \in {"Ok", "Error", "Stopped"} :
                 /\ reply' = [reply EXCEPT ![k] = a]
                 /\ made' = [made EXCEPT ![k] = a = "Ok"]
                 /\ Show(k, Unwrap(a))
        BY <3>1, <3>2
      <4>2. Unwrap(a) \in {"value", "nothing", "error"} /\ (Unwrap(a) = "value" => a = "Ok")
        BY DEF Unwrap
      <4>3. (a = "Ok") \in BOOLEAN
        OBVIOUS
      <4> QED BY <1>2, <4>1, <4>2, <4>3 DEF CallElevated
    <3>3. CASE \E done \in BOOLEAN :
                 made' = [made EXCEPT ![k] = done] /\ Show(k, "error") /\ UNCHANGED reply
      BY <1>2, <3>3 DEF CallElevated
    <3> QED BY <1>2, <3>2, <3>3 DEF CallElevated
  <2>2. /\ CallInv' /\ Apart(k) /\ UNCHANGED cmd
        /\ pc'[k] = "done" /\ shown'[k] = what
    <3>1. what \in Words /\ "done" \in Steps
      BY DEF Words, Steps
    <3>2. reply' = reply \/ \E a \in {"Ok", "Error", "Stopped", "Lost"} :
                                reply' = [reply EXCEPT ![k] = a]
      BY <2>1
    <3> QED BY <1>0, <2>1, <3>1, <3>2, Moved
  <2>3. /\ ConsentTypes' /\ PromptApart(k) /\ made'[k] = m
    BY <1>0, <2>1 DEF ConsentTypes, PromptApart
  <2>4. ConsentOf(k)'
    BY <1>1, <2>1, <2>2, <2>3 DEF ConsentOf
  <2> QED BY <1>1, <2>2, <2>3, <2>4, PromptOnly
<1>3. CASE Prepare(k)
  <2>1. /\ made' = [made EXCEPT ![k] = FALSE] /\ code' = [code EXCEPT ![k] = 0]
        /\ UNCHANGED <<reply, copy, by>>
        /\ \/ file' = [file EXCEPT ![k] = "empty"] /\ Onward(k, "prompt")
           \/ Show(k, "notPrepared") /\ UNCHANGED file
    BY <1>3 DEF Prepare
  <2>2. /\ CallInv' /\ Apart(k) /\ UNCHANGED cmd
        /\ Show(k, "notPrepared") => pc'[k] = "done" /\ shown'[k] = "notPrepared"
        /\ Onward(k, "prompt") => pc'[k] = "prompt"
    <3>1. "notPrepared" \in Words /\ "prompt" \in Steps
      BY DEF Words, Steps
    <3> QED BY <1>0, <2>1, <3>1, Moved
  <2>3. ConsentTypes' /\ PromptApart(k) /\ ~made'[k] /\ code'[k] = 0
    BY <1>0, <2>1 DEF ConsentTypes, PromptApart
  <2>4. Onward(k, "prompt") /\ file' = [file EXCEPT ![k] = "empty"] => file'[k] = "empty"
    BY <1>0 DEF ConsentTypes
  <2>5. ConsentOf(k)'
    BY <1>1, <2>1, <2>2, <2>3, <2>4 DEF ConsentOf
  <2>6. pc'[k] \in {"prompt", "wait", "done"} /\ (pc'[k] = "done" => shown'[k] \notin {"clean", "level"})
    BY <2>1, <2>2
  <2> QED BY <1>1, <2>2, <2>3, <2>5, <2>6, PromptOnly
<1>4. CASE Prompt(k)
  <2>0. file[k] = "empty" /\ code[k] = 0 /\ ~made[k] /\ UNCHANGED <<reply, code, made>>
    BY <1>0, <1>4 DEF Prompt, ConsentOf
  <2>1. CASE \E what \in {"declined", "notAsked"} :
               /\ Show(k, what) /\ file' = [file EXCEPT ![k] = "absent"]
               /\ UNCHANGED <<copy, by>>
    <3>1. PICK what \in {"declined", "notAsked"} :
               /\ Show(k, what) /\ file' = [file EXCEPT ![k] = "absent"]
               /\ UNCHANGED <<copy, by>>
      BY <2>1
    <3>2. CallInv' /\ Apart(k) /\ UNCHANGED cmd /\ pc'[k] = "done" /\ shown'[k] = what
      <4>1. what \in Words /\ "done" \in Steps
        BY DEF Words, Steps
      <4> QED BY <1>0, <2>0, <3>1, <4>1, Moved
    <3>3. ConsentTypes' /\ PromptApart(k)
      BY <1>0, <2>0, <3>1 DEF ConsentTypes, PromptApart
    <3>4. ConsentOf(k)'
      BY <1>1, <2>0, <3>1, <3>2 DEF ConsentOf
    <3> QED BY <1>1, <3>2, <3>3, <3>4, PromptOnly
  <2>2. CASE \E who \in {"person", "other"} :
               /\ by' = [by EXCEPT ![k] = who]
               /\ copy' = [copy EXCEPT ![k] = "check"]
               /\ Onward(k, "wait") /\ UNCHANGED file
    <3>1. PICK who \in {"person", "other"} :
               /\ by' = [by EXCEPT ![k] = who]
               /\ copy' = [copy EXCEPT ![k] = "check"]
               /\ Onward(k, "wait") /\ UNCHANGED file
      BY <2>2
    <3>2. CallInv' /\ Apart(k) /\ UNCHANGED cmd /\ pc'[k] = "wait"
      <4>1. "none" \in Words /\ "wait" \in Steps
        BY DEF Words, Steps
      <4> QED BY <1>0, <2>0, <3>1, <4>1, Moved
    <3>3. ConsentTypes' /\ PromptApart(k) /\ copy'[k] = "check"
      BY <1>0, <2>0, <3>1 DEF ConsentTypes, PromptApart
    <3>4. ConsentOf(k)'
      BY <1>1, <2>0, <3>1, <3>2, <3>3 DEF ConsentOf
    <3> QED BY <1>1, <3>2, <3>3, <3>4, PromptOnly
  <2> QED BY <1>4, <2>1, <2>2 DEF Prompt
<1> QED BY <1>2, <1>3, <1>4

\* The approved copy goes on, is ended, or loses its file.
LEMMA CopyInv ==
  ASSUME IInv, NEW k \in Calls,
         CopyChecks(k) \/ CopyCalls(k) \/ CopyWrites(k) \/ CopyDies(k) \/ FileTaken(k),
         UNCHANGED <<recycleVars, lookupVars, signInVars>>
  PROVE  IInv'
<1>0. CallInv /\ ConsentTypes /\ CommandOf(k) /\ ConsentOf(k)
  BY DEF IInv, ConsentInv, ConsentTypes
<1>1. copy[k] # "none" /\ pc[k] = "wait" /\ WithConsent(cmd[k])
  <2>1. copy[k] # "none"
    BY DEF CopyChecks, CopyCalls, CopyWrites, CopyDies, FileTaken
  <2> QED BY <1>0, <2>1 DEF CommandOf, ConsentOf
<1>2. /\ UNCHANGED <<pc, cmd, shown, invoked, group, log>>
      /\ \/ UNCHANGED reply
         \/ \E a \in {"Ok", "Error", "Stopped", "Lost"} : reply' = [reply EXCEPT ![k] = a]
  <2>1. Answers(cmd[k], TRUE) \subseteq {"Ok", "Error", "Stopped"}
    BY DEF Answers
  <2> QED BY <2>1 DEF CopyChecks, CopyCalls, CopyWrites, CopyDies, FileTaken, callVars
<1>3. CallInv' /\ Apart(k)
  <2>1. /\ reply' \in [Calls -> {"none", "Ok", "Error", "Stopped", "Lost"}]
        /\ \A j \in Calls \ {k} : reply'[j] = reply[j]
    BY <1>0, <1>2 DEF CallInv
  <2> QED BY <1>0, <1>2, <2>1 DEF CallInv, Apart
<1>4. SUFFICES ConsentTypes' /\ PromptApart(k) /\ ConsentOf(k)'
  BY <1>1, <1>2, <1>3, <1>4, PromptOnly
<1>5. CASE CopyChecks(k)
  <2>1. /\ copy[k] = "check" /\ UNCHANGED <<reply, by, file, made>>
        /\ \/ copy' = [copy EXCEPT ![k] = "call"] /\ UNCHANGED code
           \/ copy' = [copy EXCEPT ![k] = "exited"] /\ code' = [code EXCEPT ![k] = 2]
    BY <1>5 DEF CopyChecks, Exit
  <2>2. ConsentTypes' /\ PromptApart(k)
    BY <1>0, <2>1 DEF ConsentTypes, PromptApart
  <2>3. \/ copy'[k] = "call" /\ code'[k] = code[k]
        \/ copy'[k] = "exited" /\ code'[k] = 2
    BY <1>0, <2>1 DEF ConsentTypes
  <2>4. ConsentOf(k)'
    BY <1>0, <1>1, <1>2, <2>1, <2>3 DEF ConsentOf
  <2> QED BY <2>2, <2>4
<1>6. CASE CopyCalls(k)
  <2>1. PICK a \in {"Ok", "Error", "Stopped", "Lost"}, m \in BOOLEAN :
          /\ reply' = [reply EXCEPT ![k] = a] /\ made' = [made EXCEPT ![k] = m]
          /\ a = "Ok" => m
    <3>1. Answers(cmd[k], TRUE) \subseteq {"Ok", "Error", "Stopped"}
      BY DEF Answers
    <3>2. CASE \E a \in Answers(cmd[k], TRUE) :
                 /\ reply' = [reply EXCEPT ![k] = a]
                 /\ made' = [made EXCEPT ![k] = a = "Ok"]
      <4>1. PICK a \in {"Ok", "Error", "Stopped"} :
                 /\ reply' = [reply EXCEPT ![k] = a]
                 /\ made' = [made EXCEPT ![k] = a = "Ok"]
        BY <3>1, <3>2
      <4>2. (a = "Ok") \in BOOLEAN
        OBVIOUS
      <4> QED BY <4>1, <4>2
    <3>3. CASE \E done \in BOOLEAN :
                 reply' = [reply EXCEPT ![k] = "Lost"] /\ made' = [made EXCEPT ![k] = done]
      BY <3>3
    <3> QED BY <1>6, <3>2, <3>3 DEF CopyCalls
  <2>2. /\ copy[k] = "call" /\ copy' = [copy EXCEPT ![k] = "write"]
        /\ UNCHANGED <<by, file, code>>
    BY <1>6 DEF CopyCalls
  <2>3. ConsentTypes' /\ PromptApart(k)
    BY <1>0, <2>1, <2>2 DEF ConsentTypes, PromptApart
  <2>4. copy'[k] = "write" /\ reply'[k] = a /\ made'[k] = m
    BY <1>0, <2>1, <2>2 DEF ConsentTypes, CallInv
  <2>5. ConsentOf(k)'
    BY <1>0, <1>1, <1>2, <2>1, <2>2, <2>4 DEF ConsentOf
  <2> QED BY <2>3, <2>5
<1>7. CASE CopyWrites(k)
  <2>1. PICK c \in {0, 1, 3}, f \in {"empty", "taken", "torn", "answered", "failed"} :
          /\ copy' = [copy EXCEPT ![k] = "exited"] /\ code' = [code EXCEPT ![k] = c]
          /\ file' = [file EXCEPT ![k] = f]
          /\ f = "answered" => reply[k] = "Ok"
    <3>1. file[k] \in {"empty", "taken"} /\ file = [file EXCEPT ![k] = file[k]]
      BY <1>0, <1>7 DEF CopyWrites, ConsentOf, ConsentTypes
    <3>2. CASE /\ file' = [file EXCEPT ![k] = IF reply[k] = "Ok" THEN "answered" ELSE "failed"]
               /\ Exit(k, IF reply[k] = "Ok" THEN 0 ELSE 1)
      BY <3>2 DEF Exit
    <3>3. CASE file' = [file EXCEPT ![k] = "torn"] /\ Exit(k, 3)
      BY <3>3 DEF Exit
    <3>4. CASE Exit(k, 3) /\ UNCHANGED file
      BY <3>1, <3>4 DEF Exit
    <3> QED BY <1>7, <3>2, <3>3, <3>4 DEF CopyWrites
  <2>2. copy[k] = "write" /\ UNCHANGED <<reply, by, made>>
    BY <1>7 DEF CopyWrites
  <2>3. ConsentTypes' /\ PromptApart(k)
    BY <1>0, <2>1, <2>2 DEF ConsentTypes, PromptApart
  <2>4. copy'[k] = "exited" /\ code'[k] = c /\ file'[k] = f
    BY <1>0, <2>1 DEF ConsentTypes
  <2>5. ConsentOf(k)'
    BY <1>0, <1>1, <1>2, <2>1, <2>2, <2>4 DEF ConsentOf
  <2> QED BY <2>3, <2>5
<1>8. CASE CopyDies(k)
  <2>1. /\ copy[k] \in {"check", "call", "write"} /\ UNCHANGED <<reply, by, file, made>>
        /\ copy' = [copy EXCEPT ![k] = "exited"] /\ code' = [code EXCEPT ![k] = 1]
    BY <1>8 DEF CopyDies, Exit
  <2>2. ConsentTypes' /\ PromptApart(k) /\ copy'[k] = "exited" /\ code'[k] = 1
    BY <1>0, <2>1 DEF ConsentTypes, PromptApart
  <2>3. ConsentOf(k)'
    BY <1>0, <1>1, <1>2, <2>1, <2>2 DEF ConsentOf
  <2> QED BY <2>2, <2>3
<1>9. CASE FileTaken(k)
  <2>1. /\ file[k] = "empty" /\ file' = [file EXCEPT ![k] = "taken"]
        /\ UNCHANGED <<reply, copy, by, code, made>>
    BY <1>9 DEF FileTaken, callVars
  <2>2. ConsentTypes' /\ PromptApart(k) /\ file'[k] = "taken"
    BY <1>0, <2>1 DEF ConsentTypes, PromptApart
  <2>3. ConsentOf(k)'
    BY <1>0, <1>1, <1>2, <2>1, <2>2 DEF ConsentOf
  <2> QED BY <2>2, <2>3
<1> QED BY <1>5, <1>6, <1>7, <1>8, <1>9

\* What is read of the file and the code is what happened.
LEMMA ReadAnswerInv ==
  ASSUME IInv, NEW k \in Calls, ReadAnswer(k),
         UNCHANGED <<recycleVars, lookupVars, signInVars>>
  PROVE  IInv'
<1>0. CallInv /\ ConsentTypes /\ CommandOf(k) /\ ConsentOf(k)
  BY DEF IInv, ConsentInv, ConsentTypes
<1>1. /\ copy[k] = "exited" /\ WithConsent(cmd[k]) /\ UNCHANGED <<reply, log, by, code, made>>
      /\ file' = [file EXCEPT ![k] = "absent"] /\ copy' = [copy EXCEPT ![k] = "none"]
  BY <1>0 DEF ReadAnswer, CommandOf
<1>2. PICK what \in {"value", "error", "never", "missing"} :
        /\ Show(k, what)
        /\ what = "value" => file[k] = "answered"
        /\ what = "never" => code[k] = 2
  <2>1. file[k] \in {"empty", "torn", "taken", "answered", "failed"}
    BY <1>0, <1>1 DEF ConsentOf
  <2>2. PICK c \in {code[k], 0} :
         Show(k, CASE file[k] = "answered" -> "value"
                   [] file[k] = "failed" -> "error"
                   [] file[k] \in {"empty", "torn", "taken"} /\ c = 2 -> "never"
                   [] file[k] \in {"empty", "torn", "taken"} /\ c # 2 -> "missing")
    BY DEF ReadAnswer
  <2>3. CASE file[k] = "answered"
    <3>1. Show(k, "value")
      BY <2>2, <2>3
    <3> QED BY <2>3, <3>1
  <2>4. CASE file[k] = "failed"
    <3>1. Show(k, "error")
      BY <2>2, <2>4
    <3> QED BY <3>1
  <2>5. CASE file[k] \in {"empty", "torn", "taken"} /\ c = 2
    <3>1. Show(k, "never")
      BY <2>2, <2>5
    <3>2. code[k] = 2
      BY <2>5
    <3> QED BY <3>1, <3>2
  <2>6. CASE file[k] \in {"empty", "torn", "taken"} /\ c # 2
    <3>1. Show(k, "missing")
      BY <2>2, <2>6
    <3> QED BY <3>1
  <2> QED BY <2>1, <2>3, <2>4, <2>5, <2>6
<1>3. CallInv' /\ Apart(k) /\ UNCHANGED cmd /\ pc'[k] = "done" /\ shown'[k] = what
  <2>1. what \in Words /\ "done" \in Steps
    BY DEF Words, Steps
  <2> QED BY <1>0, <1>1, <1>2, <2>1, Moved
<1>4. ConsentTypes' /\ PromptApart(k) /\ copy'[k] = "none"
  BY <1>0, <1>1 DEF ConsentTypes, PromptApart
<1>5. what = "value" => made[k]
  BY <1>0, <1>1, <1>2 DEF ConsentOf
<1>6. what = "never" => ~made[k]
  BY <1>0, <1>1, <1>2 DEF ConsentOf
<1>7. ConsentOf(k)'
  BY <1>1, <1>3, <1>4, <1>5, <1>6 DEF ConsentOf
<1>8. pc'[k] \in {"prompt", "wait", "done"} /\ shown'[k] \notin {"clean", "level"}
  BY <1>3
<1> QED BY <1>1, <1>3, <1>4, <1>7, <1>8, PromptOnly

-----------------------------------------------------------------------------
(* The bin.                                                                *)

RecycleTypes ==
    /\ place \in [Items -> {"disk", "partly", "bin", "gone"}]
    /\ bin \in Int
    /\ before \in [Calls -> Int]
    /\ arrived \in [Calls -> {"none", "unconfirmed", "arrived", "missed"}]
    /\ landed \in [Calls -> {"none", "bin", "gone"}]
    /\ shared \in [Calls -> BOOLEAN]

\* The step changes what is kept of the removal of one call, and nothing that was
\* removed comes back into the record.
RemovalApart(k) ==
    /\ \A j \in Calls \ {k} :
          before'[j] = before[j] /\ arrived'[j] = arrived[j] /\ landed'[j] = landed[j]
    /\ removed \subseteq removed'

\* Who is not told that somebody else was at the bin finds it as it was.
LEMMA BinShared ==
  ASSUME RecycleInv, NEW n \in Int, NEW self, BinBecomes(n, self)
  PROVE  /\ bin' = n /\ shared' \in [Calls -> BOOLEAN]
         /\ \A j \in Calls : ~shared'[j] =>
               /\ ~shared[j]
               /\ j = self \/ n = bin \/ pc[j] \notin {"perform", "verify"}
<1>1. shared' = [k \in Calls |->
         shared[k] \/ (k # self /\ n # bin /\ pc[k] \in {"perform", "verify"})]
  BY DEF BinBecomes
<1>2. ASSUME NEW j \in Calls
      PROVE  shared'[j] = (shared[j] \/ (j # self /\ n # bin /\ pc[j] \in {"perform", "verify"}))
  BY <1>1
<1>3. ASSUME NEW j \in Calls
      PROVE  (shared[j] \/ (j # self /\ n # bin /\ pc[j] \in {"perform", "verify"})) \in BOOLEAN
  OBVIOUS
<1>4. shared' \in [Calls -> BOOLEAN]
  BY <1>1, <1>3
<1> QED BY <1>2, <1>4 DEF BinBecomes

\* A call that is told when others change the bin keeps what it knows.
LEMMA OneRemoval ==
  ASSUME RecycleInv, NEW k, Apart(k), RemovalApart(k), NEW j \in Calls, j # k,
         ~shared'[j] => /\ ~shared[j]
                        /\ bin' = bin \/ pc[j] \notin {"perform", "verify"}
  PROVE  RemovalOf(j)'
<1>1. /\ pc'[j] = pc[j] /\ cmd'[j] = cmd[j] /\ shown'[j] = shown[j]
      /\ before'[j] = before[j] /\ arrived'[j] = arrived[j] /\ landed'[j] = landed[j]
      /\ \A i \in removed : i \in removed'
  BY DEF Apart, RemovalApart
<1>2. RemovalOf(j)
  BY DEF RecycleInv
<1> QED BY <1>1, <1>2 DEF RemovalOf

\* A step of a removal has nothing to do with the prompt or the network.
LEMMA RemovalOnly ==
  ASSUME IInv, NEW k \in Calls, CallInv', Apart(k), RemovalApart(k), RecycleTypes',
         LogNeverLeads', RemovalOf(k)',
         \A j \in Calls \ {k} :
            ~shared'[j] => /\ ~shared[j]
                           /\ bin' = bin \/ pc[j] \notin {"perform", "verify"},
         cmd[k].name = "recycle_item", cmd[k].item \in Items, UNCHANGED cmd,
         pc[k] \in {"begin", "perform", "verify", "record"},
         pc'[k] \in {"perform", "verify", "record", "done"},
         pc'[k] = "done" => shown'[k] \notin {"clean", "level"},
         UNCHANGED <<consentVars, lookupVars, signInVars>>
  PROVE  IInv'
<1>1. RecycleInv'
  <2>1. \A j \in Calls : RemovalOf(j)'
    BY OneRemoval DEF IInv
  <2> QED BY <2>1 DEF RecycleInv, RecycleTypes
<1>2. ~WithConsent(cmd[k])
  BY OtherCommands
<1>3. CommandOf(k)'
  BY DEF CommandOf
<1>4. NoPrompt(k) /\ NoAnswer(k)
  BY <1>2 DEF NoPrompt, NoAnswer, WithConsent, MachineWide
<1> QED BY <1>1, <1>3, <1>4, Together

\* The bin is counted before the delete.
LEMMA RecycleCountInv ==
  ASSUME IInv, NEW k \in Calls, RecycleCount(k),
         UNCHANGED <<consentVars, lookupVars, signInVars>>
  PROVE  IInv'
<1>0. CallInv /\ RecycleTypes /\ LogNeverLeads
  BY DEF IInv, RecycleInv, RecycleTypes
<1>1. /\ pc[k] = "begin" /\ cmd[k].name = "recycle_item" /\ cmd[k].item \in Items
      /\ UNCHANGED <<reply, log, place, bin, arrived, landed, removed>>
  <2>1. /\ pc[k] = "begin" /\ cmd[k].name = "recycle_item"
        /\ UNCHANGED <<reply, log, place, bin, arrived, landed, removed>>
    BY DEF RecycleCount, Running
  <2>2. cmd[k] \in Commands
    BY <1>0, <2>1 DEF CallInv, NoCommand
  <2> QED BY <2>1, <2>2, RecycleAssumption
<1>2. CASE Show(k, "error") /\ UNCHANGED <<before, shared>>
  <2>1. CallInv' /\ Apart(k) /\ UNCHANGED cmd /\ pc'[k] = "done" /\ shown'[k] = "error"
    <3>1. "error" \in Words /\ "done" \in Steps
      BY DEF Words, Steps
    <3> QED BY <1>0, <1>1, <1>2, <3>1, Moved
  <2>2. RecycleTypes' /\ RemovalApart(k) /\ LogNeverLeads'
    BY <1>0, <1>1, <1>2 DEF RecycleTypes, RemovalApart, LogNeverLeads
  <2>3. RemovalOf(k)'
    BY <2>1 DEF RemovalOf
  <2> QED BY <1>1, <1>2, <2>1, <2>2, <2>3, RemovalOnly
<1>3. CASE /\ Onward(k, "perform")
           /\ \E n \in Counts : before' = [before EXCEPT ![k] = n]
           /\ shared' = [shared EXCEPT ![k] = FALSE]
  <2>1. CallInv' /\ Apart(k) /\ UNCHANGED cmd /\ pc'[k] = "perform"
    <3>1. "error" \in Words /\ "perform" \in Steps
      BY DEF Words, Steps
    <3> QED BY <1>0, <1>1, <1>3, <3>1, Moved
  <2>2. PICK n \in {bin, Uncounted} : before' = [before EXCEPT ![k] = n]
    BY <1>3 DEF Counts
  <2>3. n \in Int
    BY <1>0, <2>2 DEF RecycleTypes, Uncounted
  <2>4. /\ RecycleTypes' /\ RemovalApart(k) /\ LogNeverLeads'
        /\ before'[k] = n /\ \A j \in Calls \ {k} : shared'[j] = shared[j]
    BY <1>0, <1>1, <1>3, <2>2, <2>3 DEF RecycleTypes, RemovalApart, LogNeverLeads
  <2>5. RemovalOf(k)'
    BY <1>1, <2>1, <2>2, <2>4 DEF RemovalOf
  <2>6. \A j \in Calls \ {k} :
            ~shared'[j] => ~shared[j] /\ (bin' = bin \/ pc[j] \notin {"perform", "verify"})
    BY <1>1, <2>4
  <2> QED BY <1>1, <2>1, <2>4, <2>5, <2>6, RemovalOnly
<1> QED BY <1>2, <1>3 DEF RecycleCount

\* The delete itself.
LEMMA RecyclePerformInv ==
  ASSUME IInv, NEW k \in Calls, RecyclePerform(k),
         UNCHANGED <<consentVars, lookupVars, signInVars>>
  PROVE  IInv'
<1> DEFINE i == cmd[k].item
<1>0. CallInv /\ RecycleInv /\ RecycleTypes /\ LogNeverLeads /\ RemovalOf(k) /\ CommandOf(k)
  BY DEF IInv, RecycleInv, RecycleTypes
<1>1. /\ pc[k] = "perform" /\ cmd[k].name = "recycle_item" /\ i \in Items
      /\ UNCHANGED <<reply, log, before, arrived>>
  BY <1>0 DEF RecyclePerform, CommandOf
<1>2. CASE /\ Show(k, "error")
           /\ place' = place \/ place' = [place EXCEPT ![i] = "partly"]
           /\ UNCHANGED <<bin, landed, shared, removed>>
  <2>1. CallInv' /\ Apart(k) /\ UNCHANGED cmd /\ pc'[k] = "done" /\ shown'[k] = "error"
    <3>1. "error" \in Words /\ "done" \in Steps
      BY DEF Words, Steps
    <3> QED BY <1>0, <1>1, <1>2, <3>1, Moved
  <2>2. RecycleTypes' /\ RemovalApart(k) /\ LogNeverLeads'
    BY <1>0, <1>1, <1>2 DEF RecycleTypes, RemovalApart, LogNeverLeads
  <2>3. RemovalOf(k)'
    BY <2>1 DEF RemovalOf
  <2>4. \A j \in Calls \ {k} :
            ~shared'[j] => ~shared[j] /\ (bin' = bin \/ pc[j] \notin {"perform", "verify"})
    BY <1>2
  <2> QED BY <1>1, <2>1, <2>2, <2>3, <2>4, RemovalOnly
<1>3. ASSUME NEW to \in {"gone", "bin"}, Onward(k, "verify"),
             place' = [place EXCEPT ![i] = to], landed' = [landed EXCEPT ![k] = to],
             BinBecomes(IF to = "bin" THEN bin + 1 ELSE bin, k),
             removed' = removed \cup {i}
      PROVE  IInv'
  <2>1. CallInv' /\ Apart(k) /\ UNCHANGED cmd /\ pc'[k] = "verify"
    <3>1. "error" \in Words /\ "verify" \in Steps
      BY DEF Words, Steps
    <3> QED BY <1>0, <1>1, <1>3, <3>1, Moved
  <2>2. PICK n \in Int : BinBecomes(n, k) /\ n = IF to = "bin" THEN bin + 1 ELSE bin
    BY <1>0, <1>3 DEF RecycleTypes
  <2>3. /\ bin' = n /\ shared' \in [Calls -> BOOLEAN]
        /\ \A j \in Calls : ~shared'[j] =>
              ~shared[j] /\ (j = k \/ n = bin \/ pc[j] \notin {"perform", "verify"})
    BY <1>0, <2>2, BinShared
  <2>4. /\ RecycleTypes' /\ RemovalApart(k) /\ LogNeverLeads' /\ landed'[k] = to
    BY <1>0, <1>1, <1>3, <2>3 DEF RecycleTypes, RemovalApart, LogNeverLeads
  <2>5. RemovalOf(k)'
    <3>1. cmd'[k].item \in removed' /\ before'[k] = before[k]
      BY <1>1, <1>3, <2>1
    <3>2. ~shared'[k] => before[k] \in {bin, Uncounted}
      BY <1>0, <1>1, <2>3 DEF RemovalOf
    <3>3. to = "bin" => bin' - 1 = bin
      BY <1>0, <2>2, <2>3 DEF RecycleTypes
    <3>4. to = "gone" => bin' = bin
      BY <2>2, <2>3
    <3> QED BY <2>1, <2>4, <3>1, <3>2, <3>3, <3>4 DEF RemovalOf
  <2>6. \A j \in Calls \ {k} :
            ~shared'[j] => ~shared[j] /\ (bin' = bin \/ pc[j] \notin {"perform", "verify"})
    BY <2>3
  <2> QED BY <1>1, <2>1, <2>4, <2>5, <2>6, RemovalOnly
<1> QED BY <1>2, <1>3 DEF RecyclePerform

\* The second count, and the record of it.
LEMMA RecycleEndInv ==
  ASSUME IInv, NEW k \in Calls, RecycleVerify(k) \/ RecycleRecord(k),
         UNCHANGED <<consentVars, lookupVars, signInVars>>
  PROVE  IInv'
<1>0. CallInv /\ RecycleTypes /\ LogNeverLeads /\ RemovalOf(k) /\ CommandOf(k)
  BY DEF IInv, RecycleInv, RecycleTypes
<1>1. /\ pc[k] \in {"verify", "record"} /\ cmd[k].name = "recycle_item"
      /\ cmd[k].item \in Items /\ cmd[k].item \in removed
      /\ UNCHANGED <<reply, place, bin, landed, shared, removed>>
  BY <1>0 DEF RecycleVerify, RecycleRecord, CommandOf, RemovalOf, Record
<1>2. \A j \in Calls \ {k} :
          ~shared'[j] => ~shared[j] /\ (bin' = bin \/ pc[j] \notin {"perform", "verify"})
  BY <1>1
<1>3. CASE RecycleVerify(k)
  <2>1. CallInv' /\ Apart(k) /\ UNCHANGED cmd /\ pc'[k] = "record"
    <3>1. "error" \in Words /\ "record" \in Steps
      BY DEF Words, Steps
    <3> QED BY <1>0, <1>1, <1>3, <3>1, Moved DEF RecycleVerify
  <2>2. PICK n \in {bin, Uncounted} : arrived' = [arrived EXCEPT ![k] = Arrival(before[k], n)]
    BY <1>3 DEF RecycleVerify, Counts
  <2>3. PICK a \in {"unconfirmed", "arrived", "missed"} :
          /\ a = Arrival(before[k], n) /\ arrived' = [arrived EXCEPT ![k] = a]
    BY <2>2 DEF Arrival
  <2>4. before' = [before EXCEPT ![k] = Uncounted] /\ pc[k] = "verify" /\ UNCHANGED log
    BY <1>3 DEF RecycleVerify
  <2>5. RecycleTypes' /\ RemovalApart(k) /\ LogNeverLeads' /\ arrived'[k] = a
    BY <1>0, <1>1, <2>3, <2>4 DEF RecycleTypes, RemovalApart, LogNeverLeads, Uncounted
  <2>6. /\ ~shared[k] /\ a = "arrived" => landed[k] = "bin"
        /\ ~shared[k] /\ a = "missed" => landed[k] = "gone"
    <3>1. /\ landed[k] \in {"bin", "gone"}
          /\ ~shared[k] /\ landed[k] = "bin" => before[k] \in {bin - 1, Uncounted}
          /\ ~shared[k] /\ landed[k] = "gone" => before[k] \in {bin, Uncounted}
      BY <1>0, <2>4 DEF RemovalOf
    <3>2. bin \in Int /\ before[k] \in Int /\ Uncounted = -1
      BY <1>0 DEF RecycleTypes, Uncounted
    <3>3. /\ a = "arrived" => n = bin /\ bin > before[k] /\ before[k] # Uncounted
          /\ a = "missed" => n = bin /\ ~(bin > before[k]) /\ before[k] # Uncounted
      BY <2>2, <2>3 DEF Arrival
    <3> QED BY <3>1, <3>2, <3>3
  <2>7. RemovalOf(k)'
    BY <1>1, <2>1, <2>3, <2>5, <2>6 DEF RemovalOf
  <2> QED BY <1>1, <1>2, <2>1, <2>4, <2>5, <2>7, RemovalOnly
<1>4. CASE RecycleRecord(k)
  <2>1. PICK a \in {"unconfirmed", "arrived", "missed"} : a = arrived[k] /\ Show(k, a)
    BY <1>0, <1>4 DEF RecycleRecord, RemovalOf
  <2>2. CallInv' /\ Apart(k) /\ UNCHANGED cmd /\ pc'[k] = "done" /\ shown'[k] = a
    <3>1. a \in Words /\ "done" \in Steps
      BY DEF Words, Steps
    <3> QED BY <1>0, <1>1, <2>1, <3>1, Moved
  <2>3. /\ arrived' = [arrived EXCEPT ![k] = "none"] /\ UNCHANGED before /\ pc[k] = "record"
        /\ log' \subseteq log \cup {[what |-> "recycle", item |-> cmd[k].item]}
    BY <1>4 DEF RecycleRecord, Record
  <2>4. RecycleTypes' /\ RemovalApart(k)
    BY <1>0, <1>1, <2>3 DEF RecycleTypes, RemovalApart
  <2>5. LogNeverLeads'
    BY <1>0, <1>1, <2>3 DEF LogNeverLeads
  <2>6. RemovalOf(k)'
    BY <1>0, <1>1, <2>1, <2>2, <2>3 DEF RemovalOf
  <2>7. shown'[k] \notin {"clean", "level"}
    BY <2>2
  <2> QED BY <1>1, <1>2, <2>2, <2>4, <2>5, <2>6, <2>7, RemovalOnly
<1> QED BY <1>3, <1>4

\* An uninstaller is noted, then started.
LEMMA UninstallInv ==
  ASSUME IInv, NEW k \in Calls, NoteUninstall(k) \/ Launch(k),
         UNCHANGED <<consentVars, lookupVars, signInVars>>
  PROVE  IInv'
<1>0. CallInv /\ CommandOf(k)
  BY DEF IInv
<1>1. /\ pc[k] \in {"begin", "launch"} /\ cmd[k].name = "run_uninstaller"
      /\ UNCHANGED <<reply, recycleVars>>
      /\ log' \subseteq log \cup {[what |-> "uninstall", item |-> k]}
  BY <1>0 DEF NoteUninstall, Launch, Running, CommandOf, Record
<1>2. PICK what \in {"error", "value"} : Show(k, what) \/ Onward(k, "launch")
  BY DEF NoteUninstall, Launch
<1>3. /\ CallInv' /\ Apart(k) /\ UNCHANGED cmd
      /\ (pc'[k] = "done" /\ shown'[k] = what) \/ pc'[k] = "launch"
  <2>1. what \in Words /\ "launch" \in Steps
    BY DEF Words, Steps
  <2> QED BY <1>0, <1>1, <1>2, <2>1, Moved
<1>4. ~WithConsent(cmd[k])
  BY <1>1, OtherCommands
<1>5. CommandOf(k)'
  BY <1>1, <1>3 DEF CommandOf
<1>6. NoPrompt(k) /\ NoAnswer(k)
  BY <1>1, <1>3, <1>4 DEF NoPrompt, NoAnswer, WithConsent, MachineWide
<1>7. NoRemoval(k)
  BY <1>1, <1>3 DEF NoRemoval
<1> QED BY <1>3, <1>5, <1>6, <1>7, Together

-----------------------------------------------------------------------------
(* The network.                                                            *)

\* The step changes what was brought back for one call.
AnswerApart(k) ==
    /\ got' = [j \in Calls |-> got'[j]]
    /\ \A j \in Calls \ {k} : got'[j] = got[j]

\* What VirusTotal and GitHub brought back for the other calls stays so.
LEMMA OneAnswer ==
  ASSUME LookupInv, NEW k \in Calls, Apart(k), AnswerApart(k), AnswerOf(k)'
  PROVE  LookupInv'
<1>1. /\ got' = [j \in Calls |-> got'[j]]
      /\ \A j \in Calls \ {k} : got'[j] = got[j]
  BY DEF AnswerApart
<1>2. ASSUME NEW j \in Calls, j # k PROVE AnswerOf(j)'
  <2>1. pc'[j] = pc[j] /\ cmd'[j] = cmd[j] /\ shown'[j] = shown[j] /\ got'[j] = got[j]
    BY <1>1, <1>2 DEF Apart
  <2> QED BY <2>1 DEF AnswerOf, LookupInv
<1>3. \A j \in Calls : AnswerOf(j)'
  BY <1>2
<1> QED BY <1>1, <1>3 DEF LookupInv

\* A step of a question has nothing to do with the prompt or the bin.
LEMMA AnswerOnly ==
  ASSUME IInv, NEW k \in Calls, CallInv', Apart(k), UNCHANGED cmd,
         AnswerApart(k), AnswerOf(k)',
         cmd[k].name \in {"virustotal_lookup", "check_for_update", "set_virustotal_key",
                          "virustotal_key_present"},
         pc[k] \in {"begin", "answered"}, pc'[k] \in {"answered", "done"},
         pc'[k] = "answered" => cmd[k].name \in {"virustotal_lookup", "check_for_update"},
         log' \subseteq log \cup {[what |-> "lookup", item |-> k]},
         UNCHANGED <<consentVars, recycleVars, signInVars>>
  PROVE  IInv'
<1>1. LookupInv'
  BY OneAnswer DEF IInv
<1>2. ~WithConsent(cmd[k])
  BY OtherCommands
<1>3. CommandOf(k)'
  BY DEF CommandOf
<1>4. NoPrompt(k)
  BY <1>2 DEF NoPrompt, WithConsent, MachineWide
<1>5. NoRemoval(k)
  BY DEF NoRemoval
<1> QED BY <1>1, <1>3, <1>4, <1>5, Together

\* The key is stored, or looked for.
LEMMA KeyInv ==
  ASSUME IInv, NEW k \in Calls, StoreKey(k) \/ KeyPresent(k),
         UNCHANGED <<consentVars, recycleVars, signInVars>>
  PROVE  IInv'
<1>0. CallInv
  BY DEF IInv
<1>1. /\ pc[k] = "begin" /\ cmd[k].name \in {"set_virustotal_key", "virustotal_key_present"}
      /\ UNCHANGED <<reply, log, got>>
  BY DEF StoreKey, KeyPresent, Running, lookupVars
<1>2. PICK what \in {"value", "error", "nothing"} : Show(k, what)
  BY DEF StoreKey, KeyPresent
<1>3. CallInv' /\ Apart(k) /\ UNCHANGED cmd /\ pc'[k] = "done" /\ shown'[k] = what
  <2>1. what \in Words /\ "done" \in Steps
    BY DEF Words, Steps
  <2> QED BY <1>0, <1>1, <1>2, <2>1, Moved
<1>4. AnswerOf(k)' /\ AnswerApart(k)
  BY <1>1, <1>3 DEF AnswerOf, AnswerApart, IInv, LookupInv
<1> QED BY <1>1, <1>3, <1>4, AnswerOnly

\* The request is sent.
LEMMA AskInv ==
  ASSUME IInv, NEW k \in Calls, Ask(k) \/ AskGitHub(k),
         UNCHANGED <<consentVars, recycleVars, signInVars>>
  PROVE  IInv'
<1>0. CallInv /\ LookupInv
  BY DEF IInv
<1>1. /\ pc[k] = "begin" /\ cmd[k].name \in {"virustotal_lookup", "check_for_update"}
      /\ UNCHANGED <<reply, log>>
  BY DEF Ask, AskGitHub, Running
<1>2. CASE Show(k, "error") /\ UNCHANGED got
  <2>1. CallInv' /\ Apart(k) /\ UNCHANGED cmd /\ pc'[k] = "done" /\ shown'[k] = "error"
    <3>1. "error" \in Words /\ "done" \in Steps
      BY DEF Words, Steps
    <3> QED BY <1>0, <1>1, <1>2, <3>1, Moved
  <2>2. AnswerOf(k)' /\ AnswerApart(k)
    BY <1>0, <1>2, <2>1 DEF AnswerOf, AnswerApart, LookupInv
  <2> QED BY <1>1, <1>2, <2>1, <2>2, AnswerOnly
<1>3. ASSUME NEW bodies, NEW statuses \in SUBSET {200, 401, 403, 404, 429, 500},
             Get(k, statuses, bodies), Onward(k, "answered"),
             \/ cmd[k].name = "virustotal_lookup" /\ bodies = Reports
             \/ cmd[k].name = "check_for_update" /\ bodies = Releases
      PROVE  IInv'
  <2>1. CallInv' /\ Apart(k) /\ UNCHANGED cmd /\ pc'[k] = "answered"
    <3>1. "error" \in Words /\ "answered" \in Steps
      BY DEF Words, Steps
    <3> QED BY <1>0, <1>1, <1>3, <3>1, Moved
  <2>2. got'[k] \in Brought(bodies) /\ AnswerApart(k)
    <3>1. CASE got' = [got EXCEPT ![k] = Nothing]
      BY <1>0, <3>1 DEF Brought, AnswerApart, LookupInv
    <3>2. ASSUME NEW s \in statuses, NEW whole \in BOOLEAN, NEW body \in bodies,
                 got' = [got EXCEPT ![k] = [status |-> s, whole |-> whole, body |-> body]]
          PROVE  got'[k] \in Brought(bodies) /\ AnswerApart(k)
      <4>1. s \in {200, 401, 403, 404, 429, 500}
        OBVIOUS
      <4>2. [status |-> s, whole |-> whole, body |-> body] \in Brought(bodies)
        BY <4>1 DEF Brought
      <4> QED BY <1>0, <3>2, <4>2 DEF AnswerApart, LookupInv
    <3> QED BY <1>3, <3>1, <3>2 DEF Get
  <2>3. CASE bodies = Reports /\ cmd[k].name = "virustotal_lookup"
    <3>1. got'[k] \in Brought(Reports)
      BY <2>2, <2>3
    <3>2. AnswerOf(k)'
      BY <2>1, <2>3, <3>1 DEF AnswerOf
    <3> QED BY <1>1, <2>1, <2>2, <3>2, AnswerOnly
  <2>4. CASE bodies = Releases /\ cmd[k].name = "check_for_update"
    <3>1. got'[k] \in Brought(Releases)
      BY <2>2, <2>4
    <3>2. AnswerOf(k)'
      BY <2>1, <2>4, <3>1 DEF AnswerOf
    <3> QED BY <1>1, <2>1, <2>2, <3>2, AnswerOnly
  <2> QED BY <1>3, <2>3, <2>4
<1>4. CASE AskGitHub(k)
  <2>1. /\ Get(k, {200, 403, 404, 429, 500}, Releases) /\ Onward(k, "answered")
        /\ cmd[k].name = "check_for_update"
    BY <1>4 DEF AskGitHub, Running, Releases
  <2>2. {200, 403, 404, 429, 500} \in SUBSET {200, 401, 403, 404, 429, 500}
    OBVIOUS
  <2> QED BY <1>3, <2>1, <2>2
<1>5. CASE Ask(k)
  <2>1. {200, 401, 404, 429, 500} \in SUBSET {200, 401, 403, 404, 429, 500}
    OBVIOUS
  <2>2. cmd[k].name = "virustotal_lookup"
    BY <1>5 DEF Ask, Running
  <2>3. ASSUME Get(k, {200, 401, 404, 429, 500}, Reports), Onward(k, "answered")
        PROVE  IInv'
    BY <1>3, <2>1, <2>2, <2>3
  <2> QED BY <1>2, <1>5, <2>3 DEF Ask
<1> QED BY <1>4, <1>5

\* A verdict of "nothing flagged it" is about a whole report of some engines.
LEMMA CleanIsRead ==
  ASSUME NEW k \in Calls, got[k] \in Brought(Reports), Verdict(k) = "clean"
  PROVE  Calm(got[k])
<1>1. got[k].status = 200 /\ Parse(got[k]) = "clean"
  BY DEF Verdict
<1>2. got[k] \in [status : {200, 401, 403, 404, 429, 500}, whole : BOOLEAN, body : Reports]
  BY <1>1 DEF Brought, Nothing
<1>3. got[k].whole /\ Interpret(got[k].body) = "clean"
  BY <1>1 DEF Parse
<1>4. PICK r \in Reports : r = got[k].body
  BY <1>2
<1>5. /\ r.malicious \in Nat /\ r.suspicious \in Nat /\ r.harmless \in Nat
      /\ r.undetected \in Nat
  BY LookupAssumption
<1>6. r.malicious + r.suspicious = 0 /\ r.harmless + r.undetected > 0
  BY <1>3, <1>4, <1>5 DEF Interpret
<1> QED BY <1>3, <1>4, <1>6 DEF Calm

\* A verdict of "level" is about a whole release that is the one that runs.
LEMMA LevelIsRead ==
  ASSUME NEW k \in Calls, got[k] \in Brought(Releases), UpdateVerdict(k) = "level"
  PROVE  Latest(got[k])
<1>1. got[k].status = 200 /\ got[k].whole /\ Judge(got[k].body) = "level"
  BY DEF UpdateVerdict
<1>2. got[k] \in [status : {200, 401, 403, 404, 429, 500}, whole : BOOLEAN, body : Releases]
  BY <1>1 DEF Brought, Nothing
<1>3. PICK r \in Releases : r = got[k].body
  BY <1>2
<1>4. r.version \in Versions /\ r.running \in Versions
  BY DEF Releases
<1>5. /\ ~r.unpublished /\ Parses(r.running) /\ Parses(r.version)
      /\ ~(Rank(r.running) < Rank(r.version)) /\ ~(Rank(r.running) > Rank(r.version))
  BY <1>1, <1>3 DEF Judge
<1>6. PICK n \in Nat, f \in {"release", "pre"} : r.running = [number |-> n, form |-> f]
  BY <1>4, <1>5, LookupAssumption DEF Parses
<1>7. PICK m \in Nat, g \in {"release", "pre"} : r.version = [number |-> m, form |-> g]
  BY <1>4, <1>5, LookupAssumption DEF Parses
<1>8. Rank(r.running) = 2 * n + (IF f = "release" THEN 1 ELSE 0)
  BY <1>6 DEF Rank
<1>9. Rank(r.version) = 2 * m + (IF g = "release" THEN 1 ELSE 0)
  BY <1>7 DEF Rank
<1>10. n = m /\ f = g
  BY <1>5, <1>8, <1>9
<1> QED BY <1>1, <1>3, <1>5, <1>6, <1>7, <1>10 DEF Latest

\* The answer is read.
LEMMA ReadInv ==
  ASSUME IInv, NEW k \in Calls, ReadVerdict(k) \/ ReadUpdate(k),
         UNCHANGED <<consentVars, recycleVars, signInVars>>
  PROVE  IInv'
<1>0. CallInv /\ AnswerOf(k)
  BY DEF IInv, LookupInv
<1>1. /\ pc[k] = "answered" /\ UNCHANGED <<reply, got>>
      /\ log' \subseteq log \cup {[what |-> "lookup", item |-> k]}
  BY DEF ReadVerdict, ReadUpdate, Record, lookupVars
<1>2. CASE ReadVerdict(k)
  <2>1. /\ cmd[k].name = "virustotal_lookup" /\ got[k] \in Brought(Reports)
    BY <1>0, <1>1, <1>2 DEF ReadVerdict, AnswerOf
  <2>2. PICK what \in {"error", "notKnown", "notAnalysed", "clean", "isolated", "substantial"} :
           what = Verdict(k) /\ Show(k, what)
    <3>1. Verdict(k) \in {"error", "notKnown", "notAnalysed", "clean", "isolated", "substantial"}
      <4>1. Interpret(got[k].body) \in {"notAnalysed", "clean", "isolated", "substantial"}
        BY DEF Interpret
      <4> QED BY <4>1 DEF Verdict, Parse
    <3> QED BY <1>2, <3>1 DEF ReadVerdict
  <2>3. CallInv' /\ Apart(k) /\ UNCHANGED cmd /\ pc'[k] = "done" /\ shown'[k] = what
    <3>1. what \in Words /\ "done" \in Steps
      BY DEF Words, Steps
    <3> QED BY <1>0, <1>1, <2>2, <3>1, Moved
  <2>4. what = "clean" => Calm(got[k])
    BY <2>1, <2>2, CleanIsRead
  <2>5. AnswerOf(k)' /\ AnswerApart(k)
    BY <1>1, <2>3, <2>4 DEF AnswerOf, AnswerApart, IInv, LookupInv
  <2> QED BY <1>1, <2>1, <2>3, <2>5, AnswerOnly
<1>3. CASE ReadUpdate(k)
  <2>1. /\ cmd[k].name = "check_for_update" /\ got[k] \in Brought(Releases)
    BY <1>0, <1>1, <1>3 DEF ReadUpdate, AnswerOf
  <2>2. PICK what \in {"problem", "newer", "ahead", "level"} :
           what = UpdateVerdict(k) /\ Show(k, what)
    <3>1. UpdateVerdict(k) \in {"problem", "newer", "ahead", "level"}
      BY DEF UpdateVerdict, Judge
    <3> QED BY <1>3, <3>1 DEF ReadUpdate
  <2>3. CallInv' /\ Apart(k) /\ UNCHANGED cmd /\ pc'[k] = "done" /\ shown'[k] = what
    <3>1. what \in Words /\ "done" \in Steps
      BY DEF Words, Steps
    <3> QED BY <1>0, <1>1, <2>2, <3>1, Moved
  <2>4. what = "level" => Latest(got[k])
    BY <2>1, <2>2, LevelIsRead
  <2>5. AnswerOf(k)' /\ AnswerApart(k)
    BY <1>1, <2>3, <2>4 DEF AnswerOf, AnswerApart, IInv, LookupInv
  <2> QED BY <1>1, <2>1, <2>3, <2>5, AnswerOnly
<1> QED BY <1>2, <1>3

-----------------------------------------------------------------------------
(* The start at sign-in, and the program's own coming and going.           *)

\* The choice is set, or looked at.
LEMMA ChoiceInv ==
  ASSUME IInv, NEW k \in Calls, SignInNext(k),
         UNCHANGED <<consentVars, recycleVars, lookupVars>>
  PROVE  IInv'
<1>0. CallInv /\ SignInInv
  BY DEF IInv
<1>1. /\ pc[k] = "begin" /\ cmd[k].name \in Starting /\ UNCHANGED <<reply, log>>
  BY DEF SignInNext, SetStartAtSignIn, StartAtSignIn, Running, Starting
<1>2. PICK what \in {"error", "on", "off", "elsewhere"} : Show(k, what)
  <2>1. CASE StartAtSignIn(k)
    <3>1. State \in {"on", "off", "elsewhere"}
      BY <1>0 DEF State, ReadRun, SignInInv
    <3> QED BY <2>1, <3>1 DEF StartAtSignIn
  <2>2. CASE SetStartAtSignIn(k)
    BY <2>2 DEF SetStartAtSignIn
  <2> QED BY <2>1, <2>2 DEF SignInNext
<1>3. CallInv' /\ Apart(k) /\ UNCHANGED cmd /\ pc'[k] = "done" /\ shown'[k] = what
  <2>1. what \in Words /\ "done" \in Steps
    BY DEF Words, Steps
  <2> QED BY <1>0, <1>1, <1>2, <2>1, Moved
<1>4. SignInInv'
  <2>1. CASE StartAtSignIn(k)
    <3>1. UNCHANGED signInVars
      BY <2>1 DEF StartAtSignIn
    <3> QED BY <1>0, <3>1, KeepSignIn
  <2>2. CASE SetStartAtSignIn(k)
    <3>1. PICK written \in BOOLEAN, remembered \in BOOLEAN :
            /\ Set(cmd[k].on, written, remembered)
            /\ wish' = IF written /\ remembered THEN (IF cmd[k].on THEN "on" ELSE "off")
                       ELSE "unsure"
      BY <2>2 DEF SetStartAtSignIn
    <3>2. UNCHANGED <<up, window, icons, handles>>
      BY <2>2 DEF SetStartAtSignIn
    <3>3. /\ run' = IF written THEN (IF cmd[k].on THEN "ours" ELSE "absent") ELSE run
          /\ choice' = IF written /\ remembered THEN (IF cmd[k].on THEN "on" ELSE "off") ELSE choice
      BY <3>1 DEF Set, WriteRun, WriteChoice
    <3> QED BY <1>0, <3>1, <3>2, <3>3 DEF SignInInv, StaysAsChosen
  <2> QED BY <2>1, <2>2 DEF SignInNext
<1>5. CommandOf(k)'
  BY <1>3 DEF CommandOf
<1>6. ~WithConsent(cmd[k]) /\ cmd[k].name # "recycle_item"
  BY <1>1, OtherCommands DEF Starting
<1>7. NoPrompt(k) /\ NoRemoval(k) /\ NoAnswer(k)
  BY <1>1, <1>3, <1>6 DEF NoPrompt, NoRemoval, NoAnswer, WithConsent, MachineWide
<1> QED BY <1>3, <1>4, <1>5, <1>7, Together

\* A window that is built again takes no second pair of icons.
LEMMA ShowWindowInv ==
  ASSUME SignInInv, ShowWindow
  PROVE  /\ window' = TRUE \/ UNCHANGED window
         /\ icons' \in {"unasked", "loaded", "failed"} /\ handles' \in 0 .. 2
         /\ icons' = "unasked" => handles' = 0
<1>1. CASE UNCHANGED <<icons, handles>>
  BY <1>1 DEF SignInInv, ShowWindow
<1>2. CASE icons = "unasked" /\ LoadIcons /\ window' = TRUE
  <2>1. PICK large \in BOOLEAN, small \in BOOLEAN :
          /\ icons' = IF large /\ small THEN "loaded" ELSE "failed"
          /\ handles' = handles + (IF large THEN 1 ELSE 0) + (IF small THEN 1 ELSE 0)
    BY <1>2 DEF LoadIcons
  <2>2. handles = 0
    BY <1>2 DEF SignInInv
  <2> QED BY <1>2, <2>1, <2>2
<1> QED BY <1>1, <1>2 DEF ShowWindow, Dress

\* Starting, opening and closing keep the choice and the icons.
LEMMA ComingsInv ==
  ASSUME SignInInv, Start \/ OpenFromTray \/ CloseWindow
  PROVE  SignInInv'
<1>1. CASE OpenFromTray
  <2>1. up = TRUE /\ ShowWindow /\ UNCHANGED <<run, choice, wish, up>>
    BY <1>1 DEF OpenFromTray, SignInInv
  <2> QED BY <2>1, ShowWindowInv DEF SignInInv, StaysAsChosen
<1>2. CASE CloseWindow
  BY <1>2 DEF CloseWindow, SignInInv, StaysAsChosen
<1>3. CASE Start
  <2>1. UNCHANGED wish
    BY <1>3 DEF Start
  <2>2. /\ UNCHANGED <<window, icons, handles>> \/ ShowWindow
        /\ \/ up /\ UNCHANGED <<run, choice, up>>
           \/ ~up /\ up' = TRUE /\ ApplyFirstRunDefault
    BY <1>3 DEF Start
  <2>3. /\ window' = TRUE \/ UNCHANGED window
        /\ icons' \in {"unasked", "loaded", "failed"} /\ handles' \in 0 .. 2
        /\ icons' = "unasked" => handles' = 0
        /\ up' = TRUE
    BY <2>2, ShowWindowInv DEF SignInInv
  <2>4. /\ run' \in {"absent", "ours", "elsewhere"} /\ choice' \in {"absent", "on", "off"}
        /\ choice # "absent" => UNCHANGED <<run, choice>>
    <3>1. CASE UNCHANGED <<run, choice>>
      BY <3>1 DEF SignInInv
    <3>2. CASE ApplyFirstRunDefault
      <4>1. CASE choice # "absent"
        BY <3>2, <4>1 DEF ApplyFirstRunDefault, ReadChoice, SignInInv
      <4>2. CASE choice = "absent"
        <5>1. PICK written \in BOOLEAN, remembered \in BOOLEAN : Set(TRUE, written, remembered)
          BY <3>2, <4>2 DEF ApplyFirstRunDefault, ReadChoice
        <5> QED BY <4>2, <5>1 DEF Set, WriteRun, WriteChoice, SignInInv
      <4> QED BY <4>1, <4>2
    <3> QED BY <2>2, <3>1, <3>2
  <2> QED BY <2>1, <2>3, <2>4 DEF SignInInv, StaysAsChosen
<1> QED BY <1>1, <1>2, <1>3

\* Ending the program ends the calls about its own start, which are the only ones.
LEMMA QuitInv ==
  ASSUME IInv, group \in Starting, QuitShell,
         UNCHANGED <<consentVars, recycleVars, lookupVars>>
  PROVE  IInv'
<1>0. CallInv /\ ConsentInv /\ RecycleInv /\ LookupInv /\ SignInInv
  BY DEF IInv
<1>1. /\ pc' = [k \in Calls |-> "idle"] /\ cmd' = [k \in Calls |-> NoCommand]
      /\ shown' = [k \in Calls |-> "none"] /\ reply' = [k \in Calls |-> "none"]
      /\ UNCHANGED <<log, invoked, group, run, choice, wish>>
      /\ up' = FALSE /\ window' = FALSE /\ icons' = "unasked" /\ handles' = 0
  BY DEF QuitShell
<1>2. ASSUME NEW k \in Calls PROVE copy[k] = "none"
  <2>1. cmd[k].name \in Starting \cup {"none"} /\ CommandOf(k) /\ ConsentOf(k)
    BY <1>0 DEF IInv, CallInv, ConsentInv
  <2>2. ~WithConsent(cmd[k])
    BY <2>1, OtherCommands
  <2> QED BY <2>1, <2>2 DEF CommandOf, ConsentOf
<1>3. CallInv'
  BY <1>0, <1>1 DEF CallInv, Steps, Words, NoCommand, Starting
<1>4. \A k \in Calls : CommandOf(k)'
  BY <1>1 DEF CommandOf
<1>5. ConsentInv'
  <2>1. UNCHANGED <<copy, by, file, code, made>>
    BY DEF consentVars
  <2>2. \A k \in Calls : ConsentOf(k)'
    BY <1>1, <1>2, <2>1 DEF ConsentOf
  <2> QED BY <1>0, <2>1, <2>2 DEF ConsentInv
<1>6. RecycleInv'
  <2>1. UNCHANGED <<place, bin, before, arrived, landed, shared, removed>>
    BY DEF recycleVars
  <2>2. \A k \in Calls : RemovalOf(k)'
    BY <1>1 DEF RemovalOf
  <2> QED BY <1>0, <1>1, <2>1, <2>2 DEF RecycleInv, LogNeverLeads
<1>7. LookupInv'
  <2>1. UNCHANGED <<key, got>>
    BY DEF lookupVars
  <2>2. \A k \in Calls : AnswerOf(k)'
    BY <1>1 DEF AnswerOf
  <2> QED BY <1>0, <2>1, <2>2 DEF LookupInv
<1>8. SignInInv'
  <2>1. UNCHANGED <<run, choice, wish>>
    BY <1>1
  <2>2. StaysAsChosen'
    BY <1>0, <2>1 DEF SignInInv, StaysAsChosen
  <2>3. up' \in BOOLEAN /\ window' \in BOOLEAN /\ (window' => up')
    BY <1>1
  <2>4. icons' = "unasked" /\ handles' = 0 /\ handles' \in 0 .. 2
    BY <1>1
  <2> QED BY <1>0, <2>1, <2>2, <2>3, <2>4 DEF SignInInv
<1> QED BY <1>3, <1>4, <1>5, <1>6, <1>7, <1>8 DEF IInv

\* Where no call moves, a component that does not move keeps what is known of it.
LEMMA NothingCalled ==
  ASSUME IInv, UNCHANGED callVars
  PROVE  /\ CallInv' /\ \A k \in Calls : CommandOf(k)'
         /\ UNCHANGED consentVars => ConsentInv'
         /\ UNCHANGED recycleVars => RecycleInv'
         /\ UNCHANGED lookupVars => LookupInv'
<1>1. UNCHANGED <<pc, cmd, shown, reply, log, invoked, group>>
  BY DEF callVars
<1>2. CallInv'
  BY <1>1 DEF IInv, CallInv
<1>6. ASSUME NEW k \in Calls PROVE CommandOf(k)'
  BY <1>1 DEF IInv, CommandOf, WithConsent, MachineWide
<1>3. ASSUME UNCHANGED consentVars PROVE ConsentInv'
  <2>1. UNCHANGED <<copy, by, file, code, made>>
    BY <1>3 DEF consentVars
  <2>2. \A k \in Calls : ConsentOf(k)'
    BY <1>1, <2>1 DEF IInv, ConsentInv, ConsentOf, WithConsent, MachineWide
  <2> QED BY <2>1, <2>2 DEF IInv, ConsentInv
<1>4. ASSUME UNCHANGED recycleVars PROVE RecycleInv'
  <2>1. UNCHANGED <<place, bin, before, arrived, landed, shared, removed>>
    BY <1>4 DEF recycleVars
  <2>2. \A k \in Calls : RemovalOf(k)'
    BY <1>1, <2>1 DEF IInv, RecycleInv, RemovalOf
  <2> QED BY <1>1, <2>1, <2>2 DEF IInv, RecycleInv, LogNeverLeads
<1>5. ASSUME UNCHANGED lookupVars PROVE LookupInv'
  <2>1. UNCHANGED <<key, got>>
    BY <1>5 DEF lookupVars
  <2>2. \A k \in Calls : AnswerOf(k)'
    BY <1>1, <2>1 DEF IInv, LookupInv, AnswerOf
  <2> QED BY <2>1, <2>2 DEF IInv, LookupInv
<1> QED BY <1>2, <1>3, <1>4, <1>5, <1>6

\* Another program's use of the bin is told to every call between its two counts.
LEMMA OthersInv ==
  ASSUME IInv, OthersUseBin, UNCHANGED <<consentVars, lookupVars, signInVars>>
  PROVE  IInv'
<1>0. RecycleInv /\ SignInInv /\ bin \in Int
  BY DEF IInv, RecycleInv
<1>1. /\ UNCHANGED <<callVars, before, arrived, landed, removed>>
      /\ place' \in [Items -> {"disk", "partly", "bin", "gone"}]
  <2>1. UNCHANGED place => place' \in [Items -> {"disk", "partly", "bin", "gone"}]
    BY <1>0 DEF RecycleInv
  <2>2. place' = [i \in Items |-> IF place[i] = "bin" THEN "gone" ELSE place[i]]
           => place' \in [Items -> {"disk", "partly", "bin", "gone"}]
    BY <1>0 DEF RecycleInv
  <2>3. ASSUME NEW i \in Items, place' = [place EXCEPT ![i] = "disk"]
        PROVE  place' \in [Items -> {"disk", "partly", "bin", "gone"}]
    BY <1>0, <2>3 DEF RecycleInv
  <2> QED BY <2>1, <2>2, <2>3 DEF OthersUseBin
<1>2. UNCHANGED <<pc, cmd, shown, reply, log>>
  BY <1>1 DEF callVars
<1>3. RecycleInv'
  <2>1. PICK n \in Int : BinBecomes(n, "others")
    <3>1. bin + 1 \in Int /\ bin - 1 \in Int /\ 0 \in Int
      BY <1>0
    <3> QED BY <3>1 DEF OthersUseBin
  <2>2. /\ bin' = n /\ shared' \in [Calls -> BOOLEAN]
        /\ \A j \in Calls : ~shared'[j] =>
              ~shared[j] /\ (j = "others" \/ n = bin \/ pc[j] \notin {"perform", "verify"})
    BY <1>0, <2>1, BinShared
  <2>3. Apart("others") /\ RemovalApart("others")
    BY <1>1, <1>2 DEF Apart, RemovalApart
  <2>4. \A j \in Calls : RemovalOf(j)'
    BY <1>0, <2>2, <2>3, OneRemoval, RecycleAssumption
  <2>5. LogNeverLeads'
    BY <1>0, <1>1, <1>2 DEF RecycleInv, LogNeverLeads
  <2> QED BY <1>0, <1>1, <2>1, <2>2, <2>4, <2>5 DEF RecycleInv
<1>4. CallInv' /\ (\A k \in Calls : CommandOf(k)') /\ ConsentInv' /\ LookupInv'
  BY <1>1, NothingCalled
<1>5. SignInInv'
  BY <1>0, KeepSignIn
<1> QED BY <1>3, <1>4, <1>5 DEF IInv

-----------------------------------------------------------------------------
(* The whole shell.                                                        *)

\* A step of one call keeps the invariant.
LEMMA CallStep ==
  ASSUME IInv, NEW k \in Calls, Call(k)
  PROVE  IInv'
<1>1. CASE /\ \E c \in Commands : Invoke(k, c)
           /\ UNCHANGED <<consentVars, recycleVars, lookupVars, signInVars>>
  BY <1>1, InvokeInv
<1>2. CASE /\ Forward(k) \/ AnswerHere(k) \/ Drawn(k)
           /\ UNCHANGED <<consentVars, recycleVars, lookupVars, signInVars>>
  BY <1>2, ForwardInv, DrawnInv
<1>3. CASE ConsentNext(k) /\ UNCHANGED <<recycleVars, lookupVars, signInVars>>
  BY <1>3, AskingInv, CopyInv, ReadAnswerInv DEF ConsentNext
<1>4. CASE RecycleNext(k) /\ UNCHANGED <<consentVars, lookupVars, signInVars>>
  BY <1>4, RecycleCountInv, RecyclePerformInv, RecycleEndInv, UninstallInv DEF RecycleNext
<1>5. CASE LookupNext(k) /\ UNCHANGED <<consentVars, recycleVars, signInVars>>
  BY <1>5, KeyInv, AskInv, ReadInv DEF LookupNext
<1>6. CASE SignInNext(k) /\ UNCHANGED <<consentVars, recycleVars, lookupVars>>
  BY <1>6, ChoiceInv
<1> QED BY <1>1, <1>2, <1>3, <1>4, <1>5, <1>6 DEF Call

\* Every step of the shell keeps the invariant.
LEMMA NextInv == IInv /\ [Next]_vars => IInv'
<1> SUFFICES ASSUME IInv, [Next]_vars PROVE IInv'
  OBVIOUS
<1>1. ASSUME NEW k \in Calls, Call(k) PROVE IInv'
  BY <1>1, CallStep
<1>2. CASE OthersUseBin /\ UNCHANGED <<consentVars, lookupVars, signInVars>>
  BY <1>2, OthersInv
<1>3. CASE /\ group \in Starting /\ QuitShell
           /\ UNCHANGED <<consentVars, recycleVars, lookupVars>>
  BY <1>3, QuitInv
<1>4. CASE /\ Start \/ OpenFromTray \/ CloseWindow
           /\ UNCHANGED <<consentVars, recycleVars, lookupVars>>
  <2>1. UNCHANGED callVars
    BY <1>4 DEF Start, OpenFromTray, CloseWindow
  <2>2. SignInInv'
    BY <1>4, ComingsInv DEF IInv
  <2> QED BY <1>4, <2>1, <2>2, NothingCalled DEF IInv
<1>5. CASE UNCHANGED vars
  <2>1. UNCHANGED <<callVars, consentVars, recycleVars, lookupVars, signInVars>>
    BY <1>5 DEF vars
  <2>2. SignInInv'
    BY <2>1, KeepSignIn DEF IInv
  <2> QED BY <2>1, <2>2, NothingCalled DEF IInv
<1> QED
  BY <1>1, <1>2, <1>3, <1>4, <1>5 DEF Next, Outside, ShellComesAndGoes

\* The person opens the window with nothing in flight.
LEMMA InitInv == Init => IInv
<1> SUFFICES ASSUME Init PROVE IInv
  OBVIOUS
<1>1. WindowInit /\ ConsentInit /\ RecycleInit /\ LookupInit /\ SignInInit
  BY DEF Init
<1>2. /\ \A k \in Calls : pc[k] = "idle" /\ cmd[k] = NoCommand /\ shown[k] = "none"
      /\ \A k \in Calls : copy[k] = "none"
      /\ NoCommand.name = "none"
  BY <1>1 DEF WindowInit, ConsentInit, NoCommand
<1>3. CallInv /\ \A k \in Calls : CommandOf(k)
  <2>1. pc \in [Calls -> Steps] /\ shown \in [Calls -> Words]
    BY <1>1 DEF WindowInit, Steps, Words
  <2> QED BY <1>1, <1>2, <2>1 DEF WindowInit, CallInv, CommandOf
<1>4. ConsentInv
  <2>1. \A k \in Calls : ConsentOf(k)
    BY <1>2 DEF ConsentOf
  <2> QED BY <1>1, <2>1 DEF ConsentInit, ConsentInv
<1>5. RecycleInv
  <2>1. \A k \in Calls : RemovalOf(k)
    BY <1>2 DEF RemovalOf
  <2> QED BY <1>1, <2>1 DEF RecycleInit, WindowInit, RecycleInv, LogNeverLeads, Uncounted
<1>6. LookupInv
  <2>1. \A k \in Calls : AnswerOf(k)
    BY <1>2 DEF AnswerOf
  <2> QED BY <1>1, <2>1 DEF LookupInit, LookupInv
<1>7. SignInInv
  BY <1>1 DEF SignInInit, SignInInv, StaysAsChosen
<1> QED BY <1>3, <1>4, <1>5, <1>6, <1>7 DEF IInv

\* The invariant holds in every state of the shell.
LEMMA Inductive == Spec => []IInv
  BY InitInv, NextInv, PTL DEF Spec

\* Whatever ends the approved copy of the program, and whenever, a person who is
\* told that nothing was changed is told the truth, a result is shown only of a
\* change that was made, and what was approved is carried out with enough rights.
THEOREM ConsentIsHonestAlways == Spec => []ConsentIsHonest
<1>1. IInv => ConsentIsHonest
  <2> SUFFICES ASSUME IInv PROVE ConsentIsHonest
    OBVIOUS
  <2>1. RightsAreEnough
    BY DEF IInv, CallInv, RightsAreEnough
  <2>2. ToldTheTruth
    BY DEF IInv, ConsentInv, ConsentOf, ToldTheTruth
  <2>3. ShellTypeOK
    <3>1. ASSUME NEW k \in Calls
          PROVE  /\ cmd[k] \in Commands \cup {NoCommand} /\ pc[k] \in Steps
                 /\ reply[k] \in {"none", "Ok", "Error", "Stopped", "NoRights", "Lost"}
      BY DEF IInv, CallInv
    <3>2. ASSUME NEW k \in Calls
          PROVE  /\ file[k] \in {"absent", "empty", "torn", "taken", "answered", "failed"}
                 /\ copy[k] \in {"none", "check", "call", "write", "exited"}
                 /\ copy[k] # "none" <=> pc[k] = "wait"
                 /\ code[k] \in 0..3
      BY DEF IInv, ConsentInv, ConsentOf
    <3>3. \A i \in Items : place[i] \in {"disk", "partly", "bin", "gone"}
      BY DEF IInv, RecycleInv
    <3>4. /\ run \in {"absent", "ours", "elsewhere"} /\ choice \in {"absent", "on", "off"}
          /\ window => up
      BY DEF IInv, SignInInv
    <3> QED BY <3>1, <3>2, <3>3, <3>4 DEF ShellTypeOK, Steps
  <2> QED BY <2>1, <2>2, <2>3 DEF ConsentIsHonest
<1> QED
  BY <1>1, Inductive, PTL

\* However many removals and other programs are at the bin at once, the log never
\* says an item was recycled before it left, and a call that had the bin to itself
\* says truly whether its item can be brought back.
THEOREM RemovalsAreToldAlways == Spec => []RemovalsAreTold
<1>1. IInv => RemovalsAreTold
  BY DEF IInv, RecycleInv, RemovalOf, RemovalsAreTold, CountedAlone
<1> QED
  BY <1>1, Inductive, PTL

\* "Nothing flagged it" and "you have the latest release" are said only of what was
\* read whole and says so, wherever the network fails.
THEOREM CalmOnlyWhenReadAlways == Spec => []CalmOnlyWhenRead
<1>1. IInv => CalmOnlyWhenRead
  BY DEF IInv, LookupInv, AnswerOf, Calm, Latest, CalmOnlyWhenRead
<1> QED
  BY <1>1, Inductive, PTL

\* What the person was told they had chosen about the start at sign-in is what the
\* registry says through any starts, failures and endings of the program, which
\* takes one pair of icon handles however often its window is built.
THEOREM ComesAndGoesAsChosenAlways == Spec => []ComesAndGoesAsChosen
<1>1. IInv => ComesAndGoesAsChosen
  BY DEF IInv, SignInInv, ComesAndGoesAsChosen, HandlesBounded
<1> QED
  BY <1>1, Inductive, PTL

=============================================================================
