------------------------------ MODULE Leftovers ------------------------------
(***************************************************************************)
(* What an uninstaller leaves behind, and loose files and their homes       *)
(* (kam-storage/src/remnants.rs and organise.rs).  A path is a sequence of  *)
(* names; the disk says where it really leads, or that it is not there.     *)
(***************************************************************************)
EXTENDS Naturals, Sequences, FiniteSets, FiniteSetsExt, SequencesExt

-----------------------------------------------------------------------------
(* remnants.rs: judging a path a caller asked about.  `disk` is "there",     *)
(* "a-file", "gone", or "hidden": there, and impossible to resolve.          *)

AllowedRoots == {<<"c", "programdata">>, <<"c", "users", "me", "appdata">>}

\* The same roots as they resolve: the profile here is kept on another drive.
ResolvedRoots == {<<"c", "programdata">>, <<"d", "me", "appdata">>}

StrictlyInside(path, root) == IsPrefix(root, path) /\ Len(path) > Len(root)

\* A slip: what cannot be resolved is taken for cleared.
JudgeHopeful(asked, real, disk, relative) ==
  IF relative THEN "refused"
  ELSE IF disk \in {"there", "a-file"}
       THEN IF \E root \in ResolvedRoots : StrictlyInside(real, root) THEN "inside" ELSE "refused"
       ELSE IF \E root \in AllowedRoots : StrictlyInside(asked, root) THEN "absent" ELSE "refused"

\* A path that exists is judged by what it really is; only one that is not
\* there is judged by its text, and only one that is gone is absent.
JudgeRemnant(asked, real, disk, relative) ==
  IF relative THEN "refused"
  ELSE IF disk \in {"there", "a-file"}
       THEN IF \E root \in ResolvedRoots : StrictlyInside(real, root) THEN "inside" ELSE "refused"
       ELSE IF disk = "gone" /\ \E root \in AllowedRoots : StrictlyInside(asked, root)
            THEN "absent" ELSE "refused"

\* of: what is reported of one path; only a directory is measured.
ReportRemnant(asked, real, disk, relative) ==
  CASE JudgeRemnant(asked, real, disk, relative) = "refused" -> "refused"
    [] JudgeRemnant(asked, real, disk, relative) = "absent" -> "cleared"
    [] OTHER -> IF disk = "a-file" THEN "passed-over" ELSE "measured"

-----------------------------------------------------------------------------
(* measure: a walk with a ceiling.  A folder holds files, folders and links. *)

CONSTANTS
  MaxFilesCounted,
  Trees            \* the directories there may be, each a "top" and what is in it

VARIABLES
  tree,      \* per folder: how many files its listing yields with metadata,
             \* and its folders; and the folders that will not list
  stack,     \* the folders still to list
  counted,   \* the files added up
  walk       \* "walking", "whole" or "partial"

walkVars == <<tree, stack, counted, walk>>

\* A folder is in one place, and links make no place of their own.
IsTree(t) ==
  LET folders == DOMAIN t.files
  IN /\ IsFiniteSet(folders) /\ "top" \in folders
     /\ t.files \in [folders -> Nat] /\ t.dirs \in [folders -> Seq(folders \ {"top"})]
     /\ \A x, y \in folders : \A i \in DOMAIN t.dirs[x], j \in DOMAIN t.dirs[y] :
          t.dirs[x][i] = t.dirs[y][j] => x = y /\ i = j

ASSUME TreesAssumption == MaxFilesCounted \in Nat /\ \A t \in Trees : IsTree(t)

WalkInit == tree \in Trees /\ stack = <<"top">> /\ counted = 0 /\ walk = "walking"

\* One folder: its files are added, its folders pushed, its links passed over;
\* one that cannot be listed is skipped without a word.
ListFolder ==
  /\ walk = "walking" /\ stack # <<>> /\ counted < MaxFilesCounted
  /\ LET folder == Last(stack)
     IN IF folder \in tree.closed
        THEN stack' = Front(stack) /\ UNCHANGED counted
        ELSE /\ stack' = Front(stack) \o tree.dirs[folder]
             /\ counted' = counted + tree.files[folder]
  /\ UNCHANGED <<tree, walk>>

\* A slip: reaching the ceiling is not told apart from the end.
EndWalkQuietly ==
  /\ walk = "walking"
  /\ stack = <<>> \/ counted >= MaxFilesCounted
  /\ walk' = "whole"
  /\ UNCHANGED <<tree, stack, counted>>

\* Done, or at the ceiling with folders left, and then said to be a floor.
EndWalk ==
  /\ walk = "walking"
  /\ \/ stack = <<>> /\ walk' = "whole"
     \/ stack # <<>> /\ counted >= MaxFilesCounted /\ walk' = "partial"
  /\ UNCHANGED <<tree, stack, counted>>

-----------------------------------------------------------------------------
(* organise.rs.                                                              *)

OffLimits == {"appdata", "windows", "node_modules"}

SourceFolders == {"downloads", "desktop"}

IsOffLimits(path) == ToSet(path) \cap OffLimits # {}

\* The profile is reached through the spelling `Profile` and resolves to itself.
Profile == <<"c", "users", "ann">>

\* destinations: folders of the profile, at most three deep, no folder on the
\* way off limits, not a source folder, holding at least four of the kind.
IsHome(folder) ==
  /\ StrictlyInside(folder.path, Profile) /\ Len(folder.path) <= Len(Profile) + 3
  /\ ~IsOffLimits(folder.path) /\ Last(folder.path) \notin SourceFolders
  /\ folder.matching >= 4

\* Strong when the names agree, reasonable when six in ten are of the kind.
Strength(folder) ==
  IF folder.named THEN 2 ELSE IF folder.matching * 10 >= folder.total * 6 THEN 1 ELSE 0

\* A slip: the first home that will do.
BestFirst(homes) ==
  LET fit == {h \in homes : IsHome(h) /\ Strength(h) > 0}
  IN IF fit = {} THEN {} ELSE {CHOOSE h \in fit : \A g \in fit : h.matching >= g.matching}

\* The strongest, and among equals the one that holds most of the kind.
Best(homes) ==
  LET fit == {h \in homes : IsHome(h) /\ Strength(h) > 0}
  IN {h \in fit : \A g \in fit : \/ Strength(h) > Strength(g)
                                 \/ Strength(h) = Strength(g) /\ h.matching >= g.matching}

\* A slip: the fence without its trailing separator.
ConfinedAsText(path) == IsPrefix(Front(Profile), path) /\ path[3] \in {"ann", "annette"}

Confined(path) == StrictlyInside(path, Profile)

\* check_movable: both ends resolved, inside the caller's folder, nowhere
\* software lives, and a kind of file that runs nothing.
CheckMovable(from, to, movable) ==
  IF /\ from # <<>> /\ to # <<>>
     /\ Confined(from) /\ Confined(to)
     /\ ~IsOffLimits(from) /\ ~IsOffLimits(to)
     /\ movable
  THEN "ok" ELSE "refused"

-----------------------------------------------------------------------------
(* Properties.                                                               *)

\* Some folders and all that is below them, as far as it can be listed: the
\* least set that is closed under opening a folder.
Beneath(t, some) ==
  {x \in DOMAIN t.files :
     \A s \in SUBSET DOMAIN t.files :
       some \subseteq s /\ (\A y \in s \ t.closed : ToSet(t.dirs[y]) \subseteq s) => x \in s}

\* What is reported as measured really lies inside a place applications install
\* into, and a leftover that is still there is never reported as cleared
\* (remnants.rs: judge).
RemnantsAreTrue(asked, real, disk, relative) ==
  LET said == ReportRemnant(asked, real, disk, relative)
  IN /\ said = "measured" => disk = "there" /\ \E root \in ResolvedRoots : StrictlyInside(real, root)
     /\ said = "cleared" => disk = "gone"

\* A size that is not called a floor is that of all the directory yields when
\* its folders are listed, those that will not list left out in silence, and
\* nothing outside it is counted (remnants.rs:218-249).
MeasuredWhole ==
  LET all == MapThenSumSet(LAMBDA x : tree.files[x], Beneath(tree, {"top"}) \ tree.closed)
  IN /\ counted <= all
     /\ walk = "whole" => counted = all

\* A proposed home passes the fence the move will meet, and no stronger home was
\* passed over (organise.rs: find, check_movable).
ProposalsAreMovable(homes) ==
  /\ \A h \in Best(homes) :
       CheckMovable(Profile \o <<"downloads", "f">>, Append(h.path, "f"), TRUE) = "ok"
  /\ (\E h \in homes : IsHome(h) /\ h.named) => \A h \in Best(homes) : h.named

\* Nothing is moved into or out of a place outside the caller's own folder,
\* another account whose name begins the same included (organise.rs: check_movable).
MovesStayHome(from, to) ==
  CheckMovable(from, to, TRUE) = "ok" => \A p \in {from, to} : p[3] = "ann" /\ "windows" \notin ToSet(p)

-----------------------------------------------------------------------------
(***************************************************************************)
(* Which directories belong to which installed application, and which       *)
(* belong to none (kam-storage/src/apps.rs and orphans.rs), over one read   *)
(* of the file table.  A directory is a sequence of names, already reduced  *)
(* to letters and digits; every directory holds one unit of its own.        *)
(***************************************************************************)

CONSTANTS
  Directories,     \* the directories of the table
  DataRoots,       \* where applications keep what they write
  NeverOrphans,    \* names Windows owns
  Holds,           \* pairs of names of which the first contains the second
  Short            \* names under four letters, which have to match exactly

\* No data root is inside another.
ASSUME RootsAssumption ==
  /\ IsFiniteSet(Directories) /\ Directories \subseteq Seq(STRING)
  /\ DataRoots \subseteq Seq(STRING)
  /\ \A r, s \in DataRoots : IsPrefix(r, s) => r = s

TotalOf == [dir \in Directories |-> Cardinality({d \in Directories : IsPrefix(dir, d)})]

Children(dir) == {d \in Directories : Len(d) = Len(dir) + 1 /\ IsPrefix(dir, d)}

NamesMatch(folder, wanted) ==
  \/ folder = wanted
  \/ /\ folder \notin Short /\ wanted \notin Short
     /\ <<folder, wanted>> \in Holds \/ <<wanted, folder>> \in Holds

-----------------------------------------------------------------------------
(* apps.rs.                                                                  *)

\* installed: the uninstall entries of the three sources in order, without the
\* components of something else, and each name once.
Installed(entries) ==
  {entries[i] : i \in {j \in DOMAIN entries :
     /\ ~entries[j].component
     /\ \A k \in 1 .. j - 1 : entries[k].name = entries[j].name => entries[k].component}}

\* with_steam_games: a game the registry never mentioned is added.
WithSteamGames(apps, games) ==
  apps \cup {[name |-> g.name, publisher |-> "steam", install |-> g.path, component |-> FALSE]
               : g \in {x \in games : \A a \in apps : a.name # x.name}}

\* The directories named after the application, or after it inside a folder
\* named after its publisher.
Named(app) ==
  UNION {{d \in Children(root) : NamesMatch(Last(d), app.name)}
         \cup UNION {{e \in Children(d) : NamesMatch(Last(e), app.name)}
                       : d \in {x \in Children(root) : /\ ~NamesMatch(Last(x), app.name)
                                                       /\ NamesMatch(Last(x), app.publisher)}}
           : root \in DataRoots}

Locate(app) == ({app.install} \cap Directories) \cup Named(app)

\* A slip: what contains another location is kept with it.
DropAncestorsNever(locations) == locations

DropAncestors(locations) ==
  {d \in locations : ~\E e \in locations : e # d /\ IsPrefix(d, e)}

Locations(app) == DropAncestors(Locate(app))

\* footprints: a directory more than one application claims is in no total.
SharedWith(dir, apps) == Cardinality({a \in apps : dir \in Locations(a)}) - 1

Bytes(dirs) == MapThenSumSet(LAMBDA d : TotalOf[d], dirs)

ActualBytes(app, apps) == Bytes({d \in Locations(app) : SharedWith(d, apps) = 0})

-----------------------------------------------------------------------------
(* orphans.rs.                                                               *)

ClaimedNames(apps) == {a.name : a \in apps} \cup {a.publisher : a \in apps}

\* A slip: only the application's own name claims a folder.
IsClaimedByName(folder, apps) == \E a \in apps : NamesMatch(folder, a.name)

IsClaimed(folder, apps) == \E name \in ClaimedNames(apps) : NamesMatch(folder, name)

\* find: directly inside a data root, not a name Windows owns, claimed by no
\* installed name.
Orphans(apps) ==
  {d \in UNION {Children(root) : root \in DataRoots} :
     Last(d) \notin NeverOrphans /\ ~IsClaimed(Last(d), apps)}

\* check_quarantinable, by where the path really is; <<>> when it is not there.
CheckQuarantinable(real) ==
  IF /\ real # <<>>
     /\ \E root \in DataRoots : IsPrefix(root, real) /\ Len(real) = Len(root) + 1
     /\ Last(real) \notin NeverOrphans
  THEN "ok" ELSE "refused"

-----------------------------------------------------------------------------
(* Properties.                                                               *)

\* Inside one application's total no byte is counted twice, however its folders
\* nest; and no folder that two claim is in the total of either (apps.rs:
\* drop_ancestors, footprints).
OneTotalCountsOnce(apps) ==
  \A a \in apps :
    LET beneath(dirs) == {d \in Directories : \E l \in dirs : IsPrefix(l, d)}
        others == UNION {Locations(b) : b \in apps \ {a}}
    IN /\ Bytes(Locations(a)) = Cardinality(beneath(Locations(a)))
       /\ ActualBytes(a, apps) = Cardinality(beneath(Locations(a) \ others))

\* A folder attributed to an installed application by its name is neither
\* offered as a leftover nor inside one that is.  Nothing is promised of one
\* attributed by the place it says it is installed in (orphans.rs: is_claimed).
NamedIsNoLeftover(apps) ==
  \A d \in Orphans(apps), a \in apps : \A l \in Named(a) : ~IsPrefix(d, l)

\* Every leftover offered is one the fence would take (orphans.rs:
\* check_quarantinable).
LeftoversPassTheFence(apps) ==
  \A d \in Orphans(apps) : CheckQuarantinable(d) = "ok"
=============================================================================
