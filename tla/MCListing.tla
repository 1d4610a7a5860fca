----------------------------- MODULE MCListing -----------------------------
(***************************************************************************)
(* Instances for TLC of the walk (ParallelWalk) and of the searches and    *)
(* archives that are made of it.                                           *)
(*                                                                         *)
(* They share no state.  A behaviour is one of the module in `workload',   *)
(* which is chosen at the start; the variables of the others keep their    *)
(* first values.                                                           *)
(***************************************************************************)
EXTENDS ParallelWalk

CONSTANTS
    Sought, SoughtDepth, SearchLimit, Hidden, Pulse, MaxBeats, \* of Search
    Packed, PackedDepth, PackedDirs, MaxSize, MaxDisturbed, MaxOdd \* of Archive

VARIABLES
    workload, \* "walk", "search" or "archive"
    seen, gone, reasons, returned, \* the walk of a search and of an archive
    online, handler,               \* of Search and of Archive
    stream, beat,
    format, nature, size, hidden, entries, members, end, disturbed

searching == <<stream, beat>>
archiving == <<format, nature, size, hidden, entries, members, end, disturbed>>
listing == <<seen, gone, reasons, returned, online, handler>>
lists == <<workload, vars, searching, archiving, listing>>

S == INSTANCE Search WITH
        Asked <- Sought, Depth <- SoughtDepth, Limit <- SearchLimit,
        why <- reasons, result <- returned

A == INSTANCE Archive WITH
        Asked <- Packed, Depth <- PackedDepth, Dirs <- PackedDirs,
        why <- reasons, result <- returned

ASSUME TreeAssumption == TreeBounds
ASSUME WalkAssumption == WalkBounds
ASSUME SearchAssumption == S!SearchBounds
ASSUME ArchiveAssumption == A!ArchiveBounds

-----------------------------------------------------------------------------
\* The directory to walk: 1/{4, 5/{9}}, 2/{6, 7/{10}}, 3/{8}; 7 is not descended into.
Home == <<0, 0, 0, 1, 1, 2, 2, 3, 5, 7>>

\* The directory to search, and the one to download: 1/{3, 4}, 2.
Levels == <<1, 1, 2, 2>>

-----------------------------------------------------------------------------
\* Archive's choices do not matter elsewhere.
ListingInit ==
    /\ workload \in {"walk", "search", "archive"}
    /\ Init /\ S!Init /\ A!Init
    /\ workload # "archive" =>
            format = "zip" /\ hidden = {} /\ \A e \in Packed : nature[e] = "plain"

ListingNext ==
    \/ /\ workload = "walk" /\ Next
       /\ UNCHANGED <<workload, searching, archiving, listing>>
    \/ /\ workload = "search" /\ S!Next
       /\ UNCHANGED <<workload, archiving, vars>>
    \/ /\ workload = "archive" /\ A!Next
       /\ UNCHANGED <<workload, searching, vars>>

\* The fairness of the modules; Search's asks for nothing at the start.
Walking == workload = "walk"

ListingSpec ==
    /\ ListingInit /\ [][ListingNext]_lists
    /\ WF_vars(Walking /\ Walk)
    /\ \A w \in Worker : WF_vars(Walking /\ Work(w))
    /\ S!Fairness

-----------------------------------------------------------------------------
(* Properties, where they are stated; NoneTwice and Implements are ParallelWalk's *)

\* Search: a reader who stays is shown every visible match (search.go:51).
ShownInFull == S!ShownInFull

\* Every walk returns: no worker waits for another, no level is repeated (local.go:503); and
\* the heartbeat's goroutine does not outlive its search for ever (search.go:103).
EveryListingEnds == (Walking => EveryWalkEnds) /\ S!HeartbeatEnds

\* Archive: what looks whole has every undisturbed file (download.go:109).
ArchiveIsWhole == A!ArchiveIsWhole
=============================================================================
