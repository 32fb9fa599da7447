------------------------------ MODULE MCShell -------------------------------
(***************************************************************************)
(* Two calls in flight, an item the bin has room for and one it has not,   *)
(* and every command of the window.                                        *)
(***************************************************************************)
EXTENDS Shell, TLC

MCReports ==
    {[malicious |-> m, suspicious |-> s, harmless |-> h, undetected |-> u] :
        m \in {0, 3}, s \in {0, 1}, h \in {0, 60}, u \in {0}}

MCVersions == {[number |-> n, form |-> f] : n \in {9, 10}, f \in {"release", "pre"}}
              \cup {[number |-> 9, form |-> "odd"]}

MCCommands ==
    [name : Forwarded \cup Streamed \cup Consented \cup Local
            \cup {"virustotal_key_present", "virustotal_lookup", "check_for_update",
                  "start_at_sign_in"}]
    \cup [name : {"clear_cache"}, wide : BOOLEAN]
    \cup [name : {"recycle_item"}, item : Items]
    \cup [name : {"run_uninstaller"},
          command : {[form |-> f, there |-> t] : f \in {"path", "bare", "uri", "empty"},
                                                 t \in BOOLEAN}]
    \cup [name : {"set_virustotal_key"}, key : {"", "implausible", "plausible"}]
    \cup [name : {"set_start_at_sign_in"}, on : BOOLEAN]

MCGroups ==
    {{"recycle_item"}, {"set_protection", "clear_cache"},
     {"set_virustotal_key", "virustotal_key_present", "virustotal_lookup"},
     {"start_at_sign_in", "set_start_at_sign_in"}}

CallSymmetry == Permutations(Calls)
=============================================================================
