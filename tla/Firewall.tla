------------------------------ MODULE Firewall ------------------------------
(***************************************************************************)
(* Blocking a program and taking the block away again.  Windows keeps its  *)
(* firewall rules by name and names are not unique, so the rules of one    *)
(* name are a number of ours (they carry the product's group) and a number *)
(* of everybody else's.  Reading the rules and removing one are two calls. *)
(***************************************************************************)
EXTENDS Connections

CONSTANTS
    Names,          \* the rule names: one per program file name
    Missing,        \* the programs that are not on the machine
    MaxRules        \* bound: rules of one name and one owner

ASSUME FirewallAssumption ==
    /\ MaxRules \in Nat \ {0}
    /\ \A r \in Requests :
         /\ r.kind = "BlockProgram" => r.program.leaf \in Names
         /\ r.kind = "UnblockProgram" => r.rule \in Names

VARIABLES
    rules,          \* rules[n]: how many of ours and of theirs are called n
    counted         \* what a connection's walk of the rules found

firewallVars == <<rules, counted>>

NotCounted == [ours |-> 0, theirs |-> 0]

FirewallInit ==
    /\ rules \in [Names -> [ours : 0..1, theirs : {0}]]
    /\ counted = [c \in Conns |-> NotCounted]

\* The name a program's rule gets: the last component of its path, so programs
\* of one file name in two folders share it.
BlockRuleName(program) == program.leaf

\* One rule more under this name, ours when the group could be set on it.
\* Each property of the new rule is set by a call whose failure is ignored.
AddRule(n, tagged) ==
    rules' = IF tagged THEN [rules EXCEPT ![n].ours = @ + 1]
                       ELSE [rules EXCEPT ![n].theirs = @ + 1]

\* block_program: no path or a path that is not a file is refused; so is a
\* firewall that cannot be opened or will not take the rule.
BlockProgram(c) ==
    /\ Handling(c, "BlockProgram")
    /\ \/ /\ req[c].program \notin Missing
          /\ \A owner \in {"ours", "theirs"} :
               rules[BlockRuleName(req[c].program)][owner] < MaxRules
          /\ \E tagged \in BOOLEAN : AddRule(BlockRuleName(req[c].program), tagged)
          /\ Finish(c, TRUE, <<"Changed">>, "Ok")
       \/ /\ UNCHANGED rules
          /\ Finish(c, FALSE, <<"Refused">>, "Error")
    /\ UNCHANGED counted

\* A slip: the old way, where one rule of ours under the name was enough.
MayRemoveByItem(groups) == groups.ours >= 1

\* may_remove: exactly one rule of that name, and it is ours.
MayRemove(groups) == groups.ours = 1 /\ groups.theirs = 0

\* walk_rules: every rule of this name, by group; or the walk met one it could
\* not read, or stopped, and says so.
WalkRules(n) == {[whole |-> TRUE, groups |-> rules[n]], [whole |-> FALSE, groups |-> NotCounted]}

\* remove_our_rule up to the decision: a walk that did not see every rule
\* refuses the whole.
CountRules(c) ==
    /\ Handling(c, "UnblockProgram")
    /\ \E walk \in WalkRules(req[c].rule) :
         IF walk.whole /\ MayRemove(walk.groups)
         THEN /\ counted' = [counted EXCEPT ![c] = walk.groups]
              /\ Onward(c, FALSE, "remove")
         ELSE /\ UNCHANGED counted
              /\ Finish(c, FALSE, <<"Refused">>, "Error")
    /\ UNCHANGED rules

\* A slip: the rule counted is taken off, whether it is still there or not.
RemoveRuleCounted(c) ==
    /\ pc[c] = "remove" /\ req[c].kind = "UnblockProgram"
    /\ rules' = [rules EXCEPT ![req[c].rule].ours = @ - 1]
    /\ Finish(c, TRUE, <<"Changed">>, "Ok")
    /\ counted' = [counted EXCEPT ![c] = NotCounted]

\* The name is handed to Windows, which removes a rule of that name: whichever
\* it meets, nothing if there is none, or it refuses.
RemoveRule(c) ==
    LET n == req[c].rule IN
    /\ pc[c] = "remove" /\ req[c].kind = "UnblockProgram"
    /\ \/ \E owner \in {"ours", "theirs"} :
            /\ rules[n][owner] > 0
            /\ rules' = [rules EXCEPT ![n][owner] = @ - 1]
            /\ Finish(c, TRUE, <<"Changed">>, "Ok")
       \/ /\ rules[n] = NotCounted /\ UNCHANGED rules
          /\ Finish(c, FALSE, <<"Changed">>, "Ok")
       \/ /\ UNCHANGED rules
          /\ Finish(c, FALSE, <<"Refused">>, "Error")
    /\ counted' = [counted EXCEPT ![c] = NotCounted]

FirewallNext(c) == BlockProgram(c) \/ CountRules(c) \/ RemoveRule(c)

\* An installer or an administrator adds a rule of its own.
OthersAddRule ==
    /\ \E n \in Names : rules[n].theirs < MaxRules /\ AddRule(n, FALSE)
    /\ UNCHANGED counted

FirewallTypeOK ==
    /\ rules \in [Names -> [ours : 0..MaxRules, theirs : 0..MaxRules]]
    /\ \A c \in Conns : counted[c] \in [ours : 0..MaxRules, theirs : 0..MaxRules]

(***************************************************************************)
(* A rule somebody else made under a name is removed only when it arrived  *)
(* after the walk that counted the rules of that name: what was there when *)
(* remove_our_rule looked is never the rule that Remove(name) takes away.  *)
(***************************************************************************)
ForeignRulesStay ==
    \A n \in Names :
        rules'[n].theirs < rules[n].theirs =>
            \E c \in Conns : /\ pc[c] = "remove" /\ req[c].rule = n
                             /\ counted[c].theirs < rules[n].theirs
=============================================================================
