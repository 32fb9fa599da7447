------------------------------ MODULE Recycle -------------------------------
(***************************************************************************)
(* Two things the window does as the person: sending an item to their      *)
(* Recycle Bin, and starting an application's own uninstaller.  Windows    *)
(* deletes an item outright when the bin has no room for it, and says      *)
(* nothing; so the bin is counted before and after, and other programs use *)
(* the bin between the two counts.                                         *)
(***************************************************************************)
EXTENDS Window

CONSTANTS
    Items,          \* the things that may be sent to the bin
    Large           \* those of them the bin has no room for

ASSUME RecycleAssumption ==
    /\ \A c \in Commands : c.name = "recycle_item" => c.item \in Items
    /\ "others" \notin Calls

VARIABLES
    place,          \* where each item is: on disk, partly, in the bin, gone
    bin,            \* how many items the bin holds
    before,         \* what a call counted before the delete
    arrived,        \* what a call made of its two counts
    landed,         \* where the delete of a call really put its item
    shared,         \* whether anybody else used the bin between the counts
    removed         \* the items that have been removed from where they lay

recycleVars == <<place, bin, before, arrived, landed, shared, removed>>

Uncounted == -1

\* Recycled: three outcomes, as in_bin and a warning tell them apart.
RecycleInit ==
    /\ place = [i \in Items |-> "disk"] /\ bin = 1
    /\ before = [k \in Calls |-> Uncounted]
    /\ arrived = [k \in Calls |-> "none"]
    /\ landed = [k \in Calls |-> "none"]
    /\ shared = [k \in Calls |-> FALSE] /\ removed = {}

\* bin_count: the number of items on all volumes, or that it cannot be had.
Counts == {bin, Uncounted}

\* A slip: what could not be counted is taken to have arrived.
ArrivalHopeful(was, is) ==
    IF was = Uncounted \/ is = Uncounted THEN "arrived"
    ELSE IF is > was THEN "arrived" ELSE "missed"

\* arrival: not knowing is its own answer, never a yes.
Arrival(was, is) ==
    IF was = Uncounted \/ is = Uncounted THEN "unconfirmed"
    ELSE IF is > was THEN "arrived" ELSE "missed"

\* The bin holds n now; every other call between its counts has had it changed.
BinBecomes(n, self) ==
    /\ bin' = n
    /\ shared' = [k \in Calls |->
            shared[k] \/ (k # self /\ n # bin /\ pc[k] \in {"perform", "verify"})]

\* A slip: the agent is told before the item is touched.
RecycleCountTold(k) ==
    /\ Running(k, {"recycle_item"})
    /\ \/ place[cmd[k].item] \notin {"disk", "partly"} /\ Show(k, "error")
          /\ UNCHANGED <<before, shared, reply, log>>
       \/ /\ place[cmd[k].item] \in {"disk", "partly"} /\ Onward(k, "perform")
          /\ \E n \in Counts : before' = [before EXCEPT ![k] = n]
          /\ shared' = [shared EXCEPT ![k] = FALSE]
          /\ Record(k, [what |-> "recycle", item |-> cmd[k].item])
    /\ UNCHANGED <<place, bin, arrived, landed, removed>>

\* to_recycle_bin, up to the delete: the item is there, and the bin is counted.
RecycleCount(k) ==
    /\ Running(k, {"recycle_item"})
    /\ \/ place[cmd[k].item] \notin {"disk", "partly"} /\ Show(k, "error")
          /\ UNCHANGED <<before, shared>>
       \/ /\ place[cmd[k].item] \in {"disk", "partly"} /\ Onward(k, "perform")
          /\ \E n \in Counts : before' = [before EXCEPT ![k] = n]
          /\ shared' = [shared EXCEPT ![k] = FALSE]
    /\ UNCHANGED <<reply, log, place, bin, arrived, landed, removed>>

\* The delete itself: it cannot be set up, or is aborted, which can leave a
\* part of an item that had to be deleted rather than moved; or it is done,
\* into the bin or past it.
RecyclePerform(k) ==
    LET i == cmd[k].item
        there == place[i] \in {"disk", "partly"}
    IN /\ pc[k] = "perform"
       /\ \/ /\ Show(k, "error")
             /\ place' \in {place} \cup
                    (IF there /\ i \in Large THEN {[place EXCEPT ![i] = "partly"]} ELSE {})
             /\ UNCHANGED <<bin, landed, shared, removed>>
          \/ /\ there /\ Onward(k, "verify")
             /\ LET to == IF i \in Large THEN "gone" ELSE "bin"
                IN /\ place' = [place EXCEPT ![i] = to]
                   /\ landed' = [landed EXCEPT ![k] = to]
                   /\ BinBecomes(IF to = "bin" THEN bin + 1 ELSE bin, k)
             /\ removed' = removed \cup {i}
       /\ UNCHANGED <<reply, log, before, arrived>>

\* The second count, and what the two of them say.
RecycleVerify(k) ==
    /\ pc[k] = "verify" /\ Onward(k, "record")
    /\ \E n \in Counts : arrived' = [arrived EXCEPT ![k] = Arrival(before[k], n)]
    /\ before' = [before EXCEPT ![k] = Uncounted]
    /\ UNCHANGED <<reply, log, place, bin, landed, shared, removed>>

\* Recorded after the fact, and only after it worked; the person is told what
\* happened to their file whether or not that could be recorded.
RecycleRecord(k) ==
    /\ pc[k] = "record" /\ cmd[k].name = "recycle_item"
    /\ Record(k, [what |-> "recycle", item |-> cmd[k].item])
    /\ Show(k, arrived[k])
    /\ arrived' = [arrived EXCEPT ![k] = "none"]
    /\ UNCHANGED <<place, bin, before, landed, shared, removed>>

----------------------------------------------------------------------------
\* The record of an uninstaller comes first: an application removed with no
\* record would be the larger lie.  A log out of reach stops nothing.
NoteUninstall(k) ==
    /\ Running(k, {"run_uninstaller"})
    /\ Record(k, [what |-> "uninstall", item |-> k])
    /\ Onward(k, "launch")
    /\ UNCHANGED recycleVars

\* A scheme before "://" and nothing else: a drive letter is not one.
IsUri(command) == command.form = "uri"

\* CommandLineToArgvW takes anything that is not blank.
Splits(command) == command.form # "empty"

\* A path has to name something that is there; a bare name is left to the
\* system's own search.
Launchable(command) == command.form = "path" => command.there

\* run: blank is refused; an address goes to its registered handler, if there
\* is one; a program is started without a shell between, which can fail.
Launch(k) ==
    LET command == cmd[k].command IN
    /\ pc[k] = "launch"
    /\ \/ Show(k, "error")
       \/ /\ Splits(command)
          /\ IF IsUri(command) THEN command.there ELSE Launchable(command)
          /\ Show(k, "value")
    /\ UNCHANGED <<reply, log, recycleVars>>

RecycleNext(k) ==
    \/ RecycleCount(k) \/ RecyclePerform(k) \/ RecycleVerify(k) \/ RecycleRecord(k)
    \/ NoteUninstall(k) \/ Launch(k)

\* Another program sends something of its own to the bin, the person empties
\* the bin, or puts one of these items back where it was.
OthersUseBin ==
    /\ \/ BinBecomes(bin + 1, "others") /\ UNCHANGED place
       \/ /\ bin > 0 /\ BinBecomes(0, "others")
          /\ place' = [i \in Items |-> IF place[i] = "bin" THEN "gone" ELSE place[i]]
       \/ \E i \in Items :
            /\ place[i] = "bin" /\ BinBecomes(bin - 1, "others")
            /\ place' = [place EXCEPT ![i] = "disk"]
    /\ UNCHANGED <<callVars, before, arrived, landed, removed>>

----------------------------------------------------------------------------
(***************************************************************************)
(* The log can lag reality and never lead it: what the audit log says went *)
(* to the bin has left the place where it lay, whatever failed after.      *)
(***************************************************************************)
LogNeverLeads ==
    \A entry \in log : entry.what = "recycle" => entry.item \in removed

(***************************************************************************)
(* Nothing is called recoverable that is not: when nobody else used the    *)
(* bin between the two counts, an item said to have arrived is in the bin, *)
(* and one said to have missed it was deleted outright.                    *)
(***************************************************************************)
CountedAlone ==
    \A k \in Calls :
        pc[k] = "done" /\ cmd[k].name = "recycle_item" /\ ~shared[k] =>
            /\ shown[k] = "arrived" => landed[k] = "bin"
            /\ shown[k] = "missed" => landed[k] = "gone"
=============================================================================
