----------------------------- MODULE MCDecisions -----------------------------
(* The studies over bounded inputs, with the two questions about what the    *)
(* window is sent of a scan.                                                 *)
EXTENDS Decisions, Space

CONSTANTS f1, f2, f3, h1, h2

MCLengthOf == [x |-> 2, y |-> 2, z |-> 1]

MCHeadOf == [x |-> "same", y |-> "same", z |-> "other"]

\* Listed services are opened one by one and independently, so all hold the same.
Uniform == {[n \in Services |-> h] : h \in Holdings}

\* Small trees: sub and elsewhere may be linked to, folders may be unreadable.
MCTrees ==
  LET dirs == [top |-> <<"sub">>, sub |-> <<"deep">>, deep |-> <<>>, elsewhere |-> <<>>]
      none == [x \in DOMAIN dirs |-> {}]
  IN [files : [DOMAIN dirs -> {0, 2}], dirs : {dirs}, closed : {{}, {"deep"}},
      links : {none, [none EXCEPT !["deep"] = {"top"}], [none EXCEPT !["top"] = {"elsewhere"}]}]

MCDirectories ==
  {<<"programdata", "mozilla">>, <<"programdata", "mozilla", "firefox">>,
   <<"programdata", "microsoft">>, <<"local", "mozillafirefox">>, <<"local", "bar">>,
   <<"local", "bar", "bin">>, <<"local", "ghub">>, <<"programfiles", "firefox">>}

MCDataRoots == {<<"programdata">>, <<"local">>}

MCHolds == {<<"mozillafirefox", "mozilla">>, <<"mozillafirefox", "firefox">>}

MCDisk == {<<"app">>, <<"app", "two.exe">>, <<"my", "x.bat">>, <<"cmd">>, <<"wscript">>, <<"conhost">>}

-----------------------------------------------------------------------------
(* The questions and their inputs.                                           *)

Copies ==
  LET copy(lengths, inDownloads) ==
        [owner : Owners, named : BOOLEAN, downloads : inDownloads, length : lengths]
  IN [1 .. 2 -> copy({1, 2}, BOOLEAN)] \cup [1 .. 3 -> copy({1}, {FALSE})]

Spelled == [prefix : Spellings, names : {<<"s", "f">>, <<"unc", "s", "f">>, <<"c", "f">>}]

\* What lies where on the machine, against which the fence is measured.
Me == <<"c", "users", "me">>

Profiles == {Me, <<"c", "users", "other">>, <<"d", "profiles", "third">>}

Places ==
  {<<"c", "users", "me", "downloads", "f">>, <<"c", "users", "me", "appdata", "f">>,
   <<"c", "users", "other", "documents", "f">>, <<"c", "users", "public", "f">>,
   <<"c", "users", "f">>, <<"c", "users2", "other", "f">>, <<"c", "ari", "downloads", "f">>,
   <<"c", "windows", "system32", "f">>, <<"c", "windows", "winsxs", "f">>,
   <<"c", "program-files", "app", "f">>, <<"c", "programdata", "app", "f">>,
   TheStore \o <<"quarantine", "f">>, <<"d", "profiles", "third", "f">>,
   <<"d", "$recycle.bin", "s-me", "f">>, <<"d", "$recycle.bin", "s-other", "f">>,
   <<"d", "archive", "f">>}

\* Machines whose registry can or cannot be read, a caller who was or was not
\* identified, and a profile in the usual place or off the drive's root.
Machines ==
  [registry : BOOLEAN, sid : {"s-me", "unknown"}, own : {Me, <<"c", "ari">>},
   profiles : {Profiles, Profiles \cup {<<"c", "ari">>}}]

Fenced ==
  [asked : Places, real : Places \cup {<<>>}, what : {"file", "link", "folder"},
   on : Machines, intent : {"suggested", "chosen"}]

UninstallEntries ==
  [name : {"firefox", "bar", "ghub", "mozilla"}, publisher : {"mozilla", "acme"},
   install : {<<>>, <<"local", "bar">>, <<"local", "bar", "bin">>, <<"programfiles", "firefox">>},
   component : BOOLEAN]

Installations ==
  {WithSteamGames(Installed(e), g)
     : e \in SeqOf(UninstallEntries, 1) \cup [1 .. 2 -> UninstallEntries],
       g \in {{}, {[name |-> "bar", path |-> <<"local", "ghub">>]}}}

Asked == {<<"c", "programdata", "app">>, <<"c", "programdata">>, <<"c", "users", "me", "appdata", "app">>,
          <<"c", "windows", "app">>}

Real == Asked \cup {<<"d", "me", "appdata", "app">>, <<"d", "elsewhere">>}

Homesteads ==
  LET folder == [path : {Profile, Profile \o <<"music">>, Profile \o <<"appdata", "x">>,
                         Profile \o <<"a", "b", "c", "d">>, Profile \o <<"downloads">>},
                 matching : {3, 4, 6}, total : {6, 10}, named : BOOLEAN]
  IN {{a, b} : a, b \in folder}

Ends == {<<>>, <<"c", "users", "ann">>, <<"c", "users", "ann", "music", "f">>,
         <<"c", "users", "annette", "music", "f">>, <<"c", "windows", "system32", "f">>,
         <<"c", "users", "ann", "appdata", "f">>, <<"c", "users", "ann", "windows", "f">>}

Statuses ==
  {Status(f, s, q, l) : f \in [Protections -> {"on", "off", Unread}],
                        s \in {NoAge, 0, 6, 7}, q \in {0, 29, 30, 99999}, l \in {NoAge, 30}}

Hardenings ==
  LET setting(values) == [policy : values, local : values]
  IN [rule : setting({NoAge, 0, 1, 2, 6}), folder : setting({NoAge, 1, 2}), pua : setting({NoAge, 0, 1, 2}),
      policyRead : BOOLEAN, lsa : {2}, memory : {1}, blocklist : {NoAge, 0, 1}]

TaskStores ==
  LET all == {<<>>, <<"f">>, <<"f", "g">>, <<"l">>, <<"t">>, <<"f", "t">>, <<"f", "g", "t">>}
  IN [folders : {{<<>>, <<"f">>, <<"f", "g">>}}, links : {{<<"l">>}},
      files : {{<<"t">>, <<"f", "t">>, <<"f", "g", "t">>}}, closed : SUBSET all]

Weeks ==
  LET well == [p \in Protections |-> "on"]
      program(embedded, lookup, own) == [embedded |-> embedded, sha256 |-> lookup, sha1 |-> "not-listed", ours |-> own]
  IN [defender : {[read |-> r, status |-> Status([well EXCEPT !["realtime"] = v], s, 0, 0)]
                    : r \in BOOLEAN, v \in {"on", "off", Unread}, s \in {0, 8}},
      firewall : [read : BOOLEAN,
                  profile : [enabled : {"on", "off", Unread}, inbound : {"block", "allow", Unread},
                             outbound : {"block", Unread}, active : {"yes", Unread}],
                  rules : [bad : {0, 2}, stopped : BOOLEAN]],
      space : {[read |-> r, volumes |-> {[root |-> "c", total |-> t, free |-> 1]}]
                 : r \in BOOLEAN, t \in {0, 10, 11}},
      startup : [programs : {{}, {program("ok", "failed", FALSE)}, {program("no-signature", "failed", FALSE)},
                             {program("no-signature", "not-listed", TRUE)},
                             {program("not-a-form", "ok", FALSE), program("no-signature", "ok", FALSE)}},
                 missed : {{}, {<<"f">>}}]]

\* Up to two places that would not read, and up to one that is not there.
Sittings ==
  LET run  == RunKeys(Accounts) \cup StartupFolders(Accounts)
      fail == run \cup ServiceKeys \cup TaskFiles
                \cup {<<"services">>, <<"tasks">>, <<"tasks", "folder">>, <<"machine">>}
      few(places, n) == {s \in SUBSET places : Cardinality(s) <= n}
  IN [loaded : SUBSET Accounts, pathless : few(Accounts, 1), wrecks : few(Accounts, 1),
      profileList : {"whole", "cut", "closed"}, programData : BOOLEAN,
      failed : few(fail, 2), absent : few({HiveOf(a) \o <<"run">> : a \in Accounts} \cup StartupFolders({}), 1)]

Commands ==
  LET tokens == {Word(w) : w \in {"app", "two.exe", "cmd", "wscript", "conhost", "/c", "-x"}}
                  \cup {Quoted(<<"app", "two.exe">>), Quoted(<<"my", "x.bat">>), Quoted(<<"app">>)}
  IN SeqOf(tokens, 2) \cup [1 .. 3 -> tokens] \cup [1 .. 4 -> tokens]

\* A record of the table's own size is a power of two, so that a sum tells
\* which files are in it; a parent is any record.
Tables ==
  {[i \in {RootRecord} \cup {j \in 2 .. 5 : is[j] # "free"} |->
      IF i = RootRecord THEN [parent |-> RootRecord, folder |-> TRUE, bytes |-> 0]
      ELSE [parent |-> p[i], folder |-> is[i] = "folder", bytes |-> IF is[i] = "folder" THEN 0 ELSE 2 ^ i]]
     : p \in [2 .. 5 -> 1 .. 5], is \in [2 .. 5 -> {"free", "file", "folder"}]}

ProperTrees == {es \in Tables : \A i \in DOMAIN es : InTree(es, i)}

\* What may ail one name, or none.
Ailing(es) ==
  {[i \in DOMAIN es |-> IF i = j THEN ill ELSE "well"] :
     <<j, ill>> \in {<<RootRecord, "well">>}
       \cup ((DOMAIN es \ {RootRecord}) \X {"unlisted", "faint"})
       \cup ({i \in DOMAIN es \ {RootRecord} : es[i].folder} \X {"closed", "lost"})}

\* At most one file with a second name, and one name that ails.
Disks ==
  UNION {LET names == {i \in DOMAIN es : es[i].folder} \X {i \in DOMAIN es : ~es[i].folder}
         IN [table : {es}, links : {{}} \cup {{l} : l \in names}, ails : Ailing(es)]
           : es \in ProperTrees}

\* Two of the names are alike.
MCNameOf(i) == CASE i \in {2, 3} -> "a" [] i = 4 -> "b" [] OTHER -> "c"

MCVolumes ==
  LET root == RecordOf("folder", 1, NoData)
  IN {<<root, RecordOf("file", 1, 3), RecordOf("torn", 1, 4), RecordOf("folder", 1, NoData), RecordOf("file", 4, 5)>>,
      <<root, RecordOf("extension", 3, 7), RecordOf("file", 1, NoData), RecordOf("free", 1, 9), RecordOf("extension", 3, 8)>>,
      <<root, RecordOf("file", 1, NoData), RecordOf("extension", 2, NoData), RecordOf("nameless", 1, 1), RecordOf("blank", 1, 1)>>}

MCInputs ==
  [judging |-> Copies,
   spelling |-> [one : Spelled, two : Spelled],
   resolving |-> [names : SeqOf({"a", "c:evil"}, 3), depth : 0 .. 2, real : {<<"c", "p">>, <<"d">>}],
   fence |-> Fenced,
   footprints |-> Installations,
   remnant |-> [asked : Asked, real : Real, disk : {"there", "a-file", "gone", "hidden"}, relative : BOOLEAN],
   homes |-> Homesteads,
   move |-> [from : Ends, to : Ends],
   folder |-> Folders,
   status |-> Statuses,
   signature |-> [embedded : EmbeddedCodes, sha256 : Lookups, sha1 : Lookups],
   hardening |-> Hardenings,
   tasks |-> TaskStores,
   week |-> Weeks,
   collection |-> Sittings,
   command |-> Commands,
   volume |-> Tables,
   routes |-> Disks,
   task |-> SeqOf({"exec", "com"}, 4)]

-----------------------------------------------------------------------------
(* The properties of the studies that stay with the model checker.           *)

\* Table!NobodyWaits (mft.rs: read).
ReadingEnds == study = "table" => NobodyWaits

\* Space!TrimmedAddsUp (scan.rs: prune).
WindowAddsUp == study = "volume" => TrimmedAddsUp(input)

\* Space!RoutesAgree (scan.rs: scan, walk_scan).
BothRoutesAgree == study = "routes" => RoutesAgree(input)

(***************************************************************************)
(* The disk as it is shown: the threads that read and parse the table      *)
(* never wait on each other for ever, and what the window is sent adds up  *)
(* to what is there, by whichever route.                                   *)
(***************************************************************************)
DiskIsReadTrue ==
    /\ ReadingEnds
    /\ WindowAddsUp
    /\ BothRoutesAgree
=============================================================================
