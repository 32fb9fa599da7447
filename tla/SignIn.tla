------------------------------- MODULE SignIn -------------------------------
(***************************************************************************)
(* Starting with Windows, and the program's own coming and going: one      *)
(* process at most, a window that is destroyed and rebuilt while the icon  *)
(* stays, an entry in the person's Run key that is added once by default,  *)
(* and their choice, which is kept beside it in a second value.            *)
(***************************************************************************)
EXTENDS Window

VARIABLES
    run,            \* the Run value: absent, starting this program, or another
    choice,         \* the remembered choice: absent, on or off
    wish,           \* what the person was last told they have chosen
    firstRun,       \* whether this launch turned it on by default
    up,             \* whether the program runs
    window,         \* whether its window exists
    icons,          \* ICONS: not yet asked for, loaded, or failed to load
    handles         \* the icon handles the process has taken

signInVars == <<run, choice, wish, firstRun, up, window, icons, handles>>

\* The person is at the window, after any history of installs, choices, writes
\* that failed half way and edits by hand.
SignInInit ==
    /\ run \in {"absent", "ours", "elsewhere"} /\ choice \in {"absent", "on", "off"}
    /\ wish = "none"
    /\ firstRun = FALSE /\ up = TRUE /\ window = TRUE
    /\ icons = "loaded" /\ handles = 2

----------------------------------------------------------------------------
\* What is in the two values.
ReadRun == run
ReadChoice == choice

\* state: an entry of this name that starts something else is not "on".
State ==
    CASE ReadRun = "absent" -> "off" [] ReadRun = "ours" -> "on" [] OTHER -> "elsewhere"

\* The Run value is written, or removed (absent already is what was asked), or
\* the registry refuses.
WriteRun(on, ok) ==
    run' = IF ok THEN (IF on THEN "ours" ELSE "absent") ELSE run

WriteChoice(on, ok) ==
    choice' = IF ok THEN (IF on THEN "on" ELSE "off") ELSE choice

\* set: first the entry, then the choice; a failure leaves the rest undone.
\* The process ending between the two is the second one failing.
Set(on, written, remembered) ==
    /\ WriteRun(on, written)
    /\ WriteChoice(on, written /\ remembered)

\* A slip: the default is applied whenever the entry is not there.
ApplyFirstRunDefaultOften ==
    IF ReadRun = "ours"
    THEN firstRun' = FALSE /\ UNCHANGED <<run, choice>>
    ELSE \E written, remembered \in BOOLEAN :
           /\ Set(TRUE, written, remembered)
           /\ firstRun' = (written /\ remembered)

\* apply_first_run_default: a recorded choice is left alone, either way.
ApplyFirstRunDefault ==
    IF ReadChoice # "absent"
    THEN firstRun' = FALSE /\ UNCHANGED <<run, choice>>
    ELSE \E written, remembered \in BOOLEAN :
           /\ Set(TRUE, written, remembered)
           /\ firstRun' = (written /\ remembered)

\* The two commands run on the window's own thread, one at a time.
SetStartAtSignIn(k) ==
    /\ Running(k, {"set_start_at_sign_in"})
    /\ \E written, remembered \in BOOLEAN :
         LET on == cmd[k].on
             ok == written /\ remembered
         IN /\ Set(on, written, remembered)
            /\ wish' = IF ok THEN (IF on THEN "on" ELSE "off") ELSE "unsure"
            /\ Show(k, IF ~ok THEN "error" ELSE IF on THEN "on" ELSE "off")
    /\ UNCHANGED <<reply, log, firstRun, up, window, icons, handles>>

StartAtSignIn(k) ==
    /\ Running(k, {"start_at_sign_in"})
    /\ Show(k, State)
    /\ UNCHANGED <<reply, log, signInVars>>

SignInNext(k) == SetStartAtSignIn(k) \/ StartAtSignIn(k)

----------------------------------------------------------------------------
\* load: both sizes are asked for, and one without the other is no pair.
LoadIcons ==
    \E large, small \in BOOLEAN :
        /\ icons' = IF large /\ small THEN "loaded" ELSE "failed"
        /\ handles' = handles + (IF large THEN 1 ELSE 0) + (IF small THEN 1 ELSE 0)

\* A slip: the icons are loaded for every window that is built.
DressOften == LoadIcons

\* taskbar_icon::apply: a window is told who it is and given the icons, which
\* are loaded once however often windows are built; either can fail and costs
\* only the icon.
Dress ==
    \/ icons = "unasked" /\ LoadIcons
    \/ UNCHANGED <<icons, handles>>

\* show_window: raised if it is there, built again if closing destroyed it.
ShowWindow ==
    \/ window /\ UNCHANGED <<window, icons, handles>>
    \/ ~window /\ window' = TRUE /\ Dress
    \/ ~window /\ UNCHANGED <<window, icons, handles>>

\* run: a second start hands over to the one that runs.  A first one without an
\* icon ends there; otherwise it applies the default and opens the window, unless
\* it was started from the Run entry.
Start ==
    /\ \E background \in BOOLEAN :
         \/ /\ up /\ UNCHANGED <<run, choice, firstRun, up>>
            /\ IF background THEN UNCHANGED <<window, icons, handles>> ELSE ShowWindow
         \/ /\ ~up /\ up' = TRUE /\ ApplyFirstRunDefault
            /\ IF background THEN UNCHANGED <<window, icons, handles>> ELSE ShowWindow
    /\ UNCHANGED <<callVars, wish>>

\* The icon, or its menu.
OpenFromTray ==
    /\ up /\ ShowWindow
    /\ UNCHANGED <<callVars, run, choice, wish, firstRun, up>>

\* on_window_event: destroyed and not hidden, and the program stays.
CloseWindow ==
    /\ window /\ window' = FALSE
    /\ UNCHANGED <<callVars, run, choice, wish, firstRun, up, icons, handles>>

\* "Close the icon": the process ends and its calls and handles with it.
QuitShell ==
    /\ up /\ up' = FALSE /\ window' = FALSE
    /\ icons' = "unasked" /\ handles' = 0 /\ firstRun' = FALSE
    /\ pc' = [k \in Calls |-> "idle"] /\ cmd' = [k \in Calls |-> NoCommand]
    /\ shown' = [k \in Calls |-> "none"] /\ reply' = [k \in Calls |-> "none"]
    /\ UNCHANGED <<log, elevated, invoked, group, run, choice, wish>>

ShellComesAndGoes == Start \/ OpenFromTray \/ CloseWindow \/ QuitShell

----------------------------------------------------------------------------
(***************************************************************************)
(* Somebody who turned it off stays off, and on stays on: what the person  *)
(* was told they had chosen is what the registry says, however often the   *)
(* program is started, updated or ended afterwards.                        *)
(***************************************************************************)
StaysAsChosen ==
    /\ wish = "on" => run = "ours" /\ choice = "on"
    /\ wish = "off" => run # "ours" /\ choice = "off"

(***************************************************************************)
(* However often the window is closed and rebuilt, the process takes the   *)
(* handles of one pair of icons and no more.                               *)
(***************************************************************************)
HandlesBounded == handles <= 2
=============================================================================
