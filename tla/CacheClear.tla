----------------------------- MODULE CacheClear -----------------------------
(***************************************************************************)
(* Clearing one cache of the catalogue.  A cache has roots: in the         *)
(* caller's profile, outside it, or wherever files the caller may write    *)
(* say.  A root is opened and held, its entries are listed once and        *)
(* removed one by one.  Meanwhile anybody may put files and links there,   *)
(* take files away, and change what a root that is not held is.            *)
(***************************************************************************)
EXTENDS Connections

CONSTANT
    Catalogue       \* the caches: id -> the kinds of root it has

ASSUME CacheAssumption ==
    /\ Catalogue \in [DOMAIN Catalogue -> SUBSET {"own", "machine", "named"}]
    /\ "noRoot" \notin Users

VARIABLES
    cache,          \* the files found under each root
    linked,         \* the roots under which a link is where the folder was
    root,           \* what each root is: a folder, a folder reached through a
                    \* link further up, a link, or not there
    named,          \* the places a user's own files name: game libraries and
                    \* browser profiles
    elsewhere,      \* whether the files where a link at a root or under one
                    \* leads, which are somebody's, are all there
    judged,         \* where a request's cache lay when its rights were checked
    roots,          \* the roots a request has still to empty
    held,           \* the root a request holds open
    listing,        \* the entries of the held root still to remove
    measured,       \* the files in the entry being removed, counted before
    tally,          \* the files a request says it removed
    mine,           \* the roots of a request,
    gone,           \* how many files have left them since it began, and
    misled          \* how many files it counted wrongly because a path led
                    \* somewhere else or nowhere when it looked

cacheVars ==
    <<cache, linked, root, named, elsewhere, judged, roots, held, listing, measured,
      tally, mine, gone, misled>>

NoRoot == "noRoot"

\* A place is in a user's profile, by the text of its path, or the machine's.
\* Under one lies a folder with two files, under the other a plain file.
Roots == Users \cup {"machine"}
Entries == {"file", "dir", "link"}
Inside == [e \in Entries |-> IF e = "file" THEN {"f"} ELSE IF e = "dir" THEN {"a", "b"} ELSE {}]
AllFiles == UNION {Inside[e] : e \in Entries}

\* (entry.locate)(user): where this cache lies for this caller, now.
Locate(id, u) ==
    {r \in Roots : \/ r = u /\ "own" \in Catalogue[id]
                   \/ r = "machine" /\ "machine" \in Catalogue[id]
                   \/ r \in named[u] /\ "named" \in Catalogue[id]}

\* A slip: one root inside the profile is taken to settle it.
IsMachineWideAny(id, u) ==
    id \notin DOMAIN Catalogue \/ \A r \in Locate(id, u) : r # u

\* caches::is_machine_wide: a root whose path does not begin with the
\* caller's profile, or an id the catalogue does not have.  The text of the
\* path is all that is looked at, whatever is there.
IsMachineWide(id, u) ==
    id \notin DOMAIN Catalogue \/ \E r \in Locate(id, u) : r # u

CacheInit ==
    /\ cache = [r \in Roots |-> IF r = "machine" THEN Inside["file"] ELSE Inside["dir"]]
    /\ linked = {} /\ root = [r \in Roots |-> "dir"]
    /\ named = [u \in Users |-> {u}]
    /\ elsewhere = TRUE
    /\ judged = [c \in Conns |-> {}]
    /\ roots = [c \in Conns |-> {}] /\ held = [c \in Conns |-> NoRoot]
    /\ listing = [c \in Conns |-> {}] /\ measured = [c \in Conns |-> 0]
    /\ tally = [c \in Conns |-> 0] /\ mine = [c \in Conns |-> {}]
    /\ gone = [c \in Conns |-> 0] /\ misled = [c \in Conns |-> 0]

\* What the check of rights sees of a request: its cache as it lies then.
Judge(c, request, u) ==
    /\ judged' = [judged EXCEPT ![c] =
                     IF request.kind = "ClearCache" /\ u \in Users /\ request.id \in DOMAIN Catalogue
                     THEN Locate(request.id, u) ELSE {}]
    /\ UNCHANGED <<cache, linked, root, named, elsewhere, roots, held, listing, measured,
                   tally, mine, gone, misled>>

\* These files leave this root, at whoever's hands.
Leave(r, files) ==
    /\ cache' = [cache EXCEPT ![r] = @ \ files]
    /\ gone' = [c \in Conns |-> IF r \in mine[c] THEN gone[c] + Cardinality(files) ELSE gone[c]]

\* An id that is not in the catalogue is refused and the refusal recorded.
\* The roots are located again: they need not be those the check saw.
ClearCache(c) ==
    /\ Handling(c, "ClearCache")
    /\ \/ /\ req[c].id \notin DOMAIN Catalogue
          /\ Finish(c, FALSE, <<"Refused">>, "Error")
          /\ UNCHANGED <<roots, mine>>
       \/ /\ req[c].id \in DOMAIN Catalogue
          /\ roots' = [roots EXCEPT ![c] = Locate(req[c].id, caller[c].user)]
          /\ mine' = [mine EXCEPT ![c] = Locate(req[c].id, caller[c].user)]
          /\ Onward(c, FALSE, "root")
    /\ UNCHANGED <<cache, linked, root, named, elsewhere, judged, held, listing, measured,
                   tally, gone, misled>>

\* A slip: the reparse attribute of the opened handle is not looked at.
MayHoldAnything(r) == root[r] # "absent"

\* HeldRoot::open: a root that is itself a link is refused, one that is not
\* there is passed over; a folder is held, without delete sharing, until it is
\* dropped.  A link further up the path is not looked for.
MayHold(r) == root[r] \in {"dir", "beyond"}

HoldRoot(c) ==
    /\ pc[c] = "root"
    /\ \E r \in roots[c] :
         /\ roots' = [roots EXCEPT ![c] = @ \ {r}]
         /\ IF MayHold(r) THEN held' = [held EXCEPT ![c] = r] /\ Onward(c, FALSE, "list")
                          ELSE UNCHANGED held /\ Onward(c, FALSE, "root")
    /\ UNCHANGED <<cache, linked, root, named, elsewhere, judged, listing, measured, tally,
                   mine, gone, misled>>

\* What read_dir finds, with what each entry is.
WhatIsThere(r) ==
    {e \in Entries : Inside[e] \cap cache[r] # {}} \cup (IF r \in linked THEN {"link"} ELSE {})

\* empty: the listing is read by path, through a link if there is one there.
\* It may also fail, and the root is let go.
ListRoot(c) ==
    LET r == held[c] IN
    /\ pc[c] = "list"
    /\ \/ /\ listing' = [listing EXCEPT ![c] = WhatIsThere(r)]
          /\ elsewhere' = (elsewhere /\ root[r] # "link")
          /\ UNCHANGED held /\ Onward(c, FALSE, "empty")
       \/ /\ held' = [held EXCEPT ![c] = NoRoot]
          /\ Onward(c, FALSE, "root") /\ UNCHANGED <<listing, elsewhere>>
    /\ UNCHANGED <<cache, linked, root, named, judged, roots, measured, tally, mine, gone,
                   misled>>

\* A slip: a link among the entries is emptied like a folder.
RemoveLinkThrough(c) ==
    /\ pc[c] = "empty" /\ "link" \in listing[c]
    /\ linked' = linked \ {held[c]} /\ elsewhere' = FALSE
    /\ listing' = [listing EXCEPT ![c] = @ \ {"link"}]
    /\ Onward(c, linked' # linked, "empty")
    /\ UNCHANGED <<cache, root, named, judged, roots, held, measured, tally, mine, gone, misled>>

\* A link among the entries goes as a link, or does not go, and counts for
\* nothing either way.
RemoveLink(c) ==
    /\ pc[c] = "empty" /\ "link" \in listing[c]
    /\ linked' \in {linked, linked \ {held[c]}}
    /\ listing' = [listing EXCEPT ![c] = @ \ {"link"}]
    /\ Onward(c, linked' # linked, "empty")
    /\ UNCHANGED <<cache, root, named, elsewhere, judged, roots, held, measured, tally, mine,
                   gone, misled>>

\* A folder is measured before it is removed: afterwards there is nothing to
\* ask.  If it is a link by now, what lies behind is measured.  (Bound: up to
\* two files.)
MeasureDir(c) ==
    /\ pc[c] = "empty" /\ "dir" \in listing[c]
    /\ Onward(c, FALSE, "dir")
    /\ IF held[c] \in linked
       THEN \E behind \in 0..2 :
               /\ measured' = [measured EXCEPT ![c] = behind]
               /\ misled' = [misled EXCEPT ![c] = @ + behind]
       ELSE /\ measured' = [measured EXCEPT ![c] = Cardinality(Inside["dir"] \cap cache[held[c]])]
            /\ UNCHANGED misled
    /\ UNCHANGED <<cache, linked, root, named, elsewhere, judged, roots, held, listing, tally,
                   mine, gone>>

\* A plain file goes and is counted, or is in use and stays.
RemoveFile(c) ==
    LET r == held[c] IN
    /\ pc[c] = "empty" /\ "file" \in listing[c]
    /\ \/ /\ "f" \in cache[r]
          /\ Leave(r, {"f"})
          /\ tally' = [tally EXCEPT ![c] = @ + 1]
          /\ Onward(c, TRUE, "empty")
       \/ UNCHANGED <<cache, gone, tally>> /\ Onward(c, FALSE, "empty")
    /\ listing' = [listing EXCEPT ![c] = @ \ {"file"}]
    /\ UNCHANGED <<linked, root, named, elsewhere, judged, roots, held, measured, mine, misled>>

\* saturating_sub.
Less(m, n) == IF m > n THEN m - n ELSE 0

\* A slip: a folder removed in part is counted as removed.
RemoveDirUnmeasured(c) ==
    LET r == held[c]
        inDir == Inside["dir"] \cap cache[r]
    IN /\ pc[c] = "dir"
       /\ \E stays \in SUBSET inDir :
            /\ Leave(r, inDir \ stays)
            /\ tally' = [tally EXCEPT ![c] = @ + measured[c]]
            /\ Onward(c, stays # inDir, "empty")
       /\ listing' = [listing EXCEPT ![c] = @ \ {"dir"}]
       /\ measured' = [measured EXCEPT ![c] = 0]
       /\ UNCHANGED <<linked, root, named, elsewhere, judged, roots, held, mine, misled>>

\* A folder goes whole, and what was measured is counted; or it goes in part,
\* and what is left is measured again and taken off.  The second look may not
\* list all that is left.
RemoveFolder(c, r) ==
    LET inDir == Inside["dir"] \cap cache[r] IN
    /\ r \notin linked
    /\ \E stays \in SUBSET inDir : \E seen \in SUBSET stays :
         /\ Leave(r, inDir \ stays)
         /\ tally' = [tally EXCEPT ![c] = @ + Less(measured[c], Cardinality(seen))]
         /\ misled' = [misled EXCEPT ![c] = @ + Cardinality(stays \ seen)]
         /\ Onward(c, stays # inDir, "empty")
    /\ UNCHANGED linked

\* remove_dir_all on what has become a link removes the link, and what was
\* measured is counted; or the link stays, and what is behind it is measured.
RemoveFolderNowLink(c, r) ==
    /\ r \in linked
    /\ \E behind \in 0..2, goes \in BOOLEAN :
         /\ goes => behind = 0
         /\ linked' = IF goes THEN linked \ {r} ELSE linked
         /\ tally' = [tally EXCEPT ![c] = @ + Less(measured[c], behind)]
         /\ Onward(c, goes, "empty")
    /\ UNCHANGED <<cache, gone, misled>>

RemoveDir(c) ==
    /\ pc[c] = "dir"
    /\ RemoveFolder(c, held[c]) \/ RemoveFolderNowLink(c, held[c])
    /\ listing' = [listing EXCEPT ![c] = @ \ {"dir"}]
    /\ measured' = [measured EXCEPT ![c] = 0]
    /\ UNCHANGED <<root, named, elsewhere, judged, roots, held, mine>>

\* The root is let go only when its walk is over.
DropRoot(c) ==
    /\ pc[c] = "empty" /\ listing[c] = {}
    /\ held' = [held EXCEPT ![c] = NoRoot]
    /\ Onward(c, FALSE, "root")
    /\ UNCHANGED <<cache, linked, root, named, elsewhere, judged, roots, listing, measured,
                   tally, mine, gone, misled>>

CacheCleared(c) ==
    /\ pc[c] = "root" /\ roots[c] = {}
    /\ Finish(c, FALSE, <<"Changed">>, "Ok")
    /\ UNCHANGED cacheVars

CacheNext(c) ==
    \/ ClearCache(c) \/ HoldRoot(c) \/ ListRoot(c) \/ RemoveLink(c) \/ MeasureDir(c)
    \/ RemoveFile(c) \/ RemoveDir(c) \/ DropRoot(c) \/ CacheCleared(c)

----------------------------------------------------------------------------
\* Others, who may write where a cache is.

\* Somebody moves a root aside, or a folder above it, and puts a link there or
\* nothing.  Windows refuses both while a handle without delete sharing is
\* open on the root.  Through a link further up, other files are found.
\* (Bound: two files, or none.)
OthersSwapRoot ==
    /\ \E r \in Roots, what \in {"link", "absent", "beyond"}, found \in {{}, {"a", "f"}} :
         /\ root[r] = "dir" /\ \A c \in Conns : held[c] # r
         /\ what # "beyond" => found = {}
         /\ root' = [root EXCEPT ![r] = what]
         /\ cache' = [cache EXCEPT ![r] = found]
         /\ linked' = linked \ {r}
         /\ gone' = [c \in Conns |-> IF r \in mine[c] THEN gone[c] + Cardinality(cache[r])
                                                      ELSE gone[c]]
    /\ UNCHANGED <<named, elsewhere>>

\* A program writes a file under a root, or takes one away, while the root is
\* being emptied or not.
OthersWrite ==
    /\ \E r \in Roots, f \in AllFiles :
         /\ root[r] \in {"dir", "beyond"} /\ (r \in linked => f \notin Inside["dir"])
         /\ IF f \in cache[r]
            THEN Leave(r, {f})
            ELSE cache' = [cache EXCEPT ![r] = @ \cup {f}] /\ UNCHANGED gone
    /\ UNCHANGED <<linked, root, named, elsewhere>>

\* The folder under a root is moved away and a link put where it was.
OthersSwapFolder ==
    /\ \E r \in Roots :
         /\ root[r] \in {"dir", "beyond"} /\ r \notin linked
         /\ linked' = linked \cup {r}
         /\ Leave(r, Inside["dir"] \cap cache[r])
    /\ UNCHANGED <<root, named, elsewhere>>

\* A user's files name other places.
UserRenames ==
    /\ \E u \in Users, places \in SUBSET Roots : named' = [named EXCEPT ![u] = places]
    /\ UNCHANGED <<cache, linked, root, elsewhere, gone>>

OthersAtCaches ==
    /\ OthersSwapRoot \/ OthersWrite \/ OthersSwapFolder \/ UserRenames
    /\ UNCHANGED <<judged, roots, held, listing, measured, tally, mine, misled>>

CacheTypeOK ==
    /\ cache \in [Roots -> SUBSET AllFiles] /\ linked \subseteq Roots
    /\ root \in [Roots -> {"dir", "beyond", "link", "absent"}]
    /\ named \in [Users -> SUBSET Roots]
    /\ elsewhere \in BOOLEAN
    /\ \A c \in Conns : /\ roots[c] \cup mine[c] \cup judged[c] \subseteq Roots
                        /\ held[c] \in Roots \cup {NoRoot}
                        /\ listing[c] \subseteq Entries
                        /\ measured[c] \in 0..2 /\ tally[c] \in Nat
                        /\ gone[c] \in Nat /\ misled[c] \in Nat

(***************************************************************************)
(* No clear reaches through a link at a root of the cache or below it:     *)
(* whenever the link was put there, before the root was opened, between    *)
(* two entries, or where a folder was that has been listed and measured,   *)
(* the files where it leads are still there.  (Of a link above the root,   *)
(* which nobody looks for, it says nothing.)                               *)
(***************************************************************************)
LinksNotFollowed == elsewhere

(***************************************************************************)
(* The number a clear gives for the files it removed is never more than    *)
(* the files that have left its roots since it began, even when a second   *)
(* clear empties the same root beside it and programs write there and take *)
(* away; but for files it measured through a link that was put where a     *)
(* folder had been, and files left that its second look could not list.    *)
(***************************************************************************)
TallyIsTrue ==
    \A c \in Conns : tally[c] <= gone[c] + misled[c]
=============================================================================
