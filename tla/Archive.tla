------------------------------ MODULE Archive ------------------------------
(***************************************************************************)
(* A directory downloaded as an archive (internal/api/download.go): the    *)
(* walk collects the visible entries, then each becomes a member that is   *)
(* written while it is read.  The tree, the marks and the client do what   *)
(* they like meanwhile.                                                    *)
(*                                                                         *)
(* The walk is Traversal, which ParallelWalk implements.  One subtree is   *)
(* collected (bound); a selection is several walks, one after another.     *)
(***************************************************************************)
EXTENDS Naturals, Sequences, FiniteSets, Functions

CONSTANTS
    Asked,   \* the entries below the directory
    Depth,   \* entry -> its level
    Dirs,    \* the directories among them
    MaxSize, \* bound: bytes of a file
    MaxDisturbed, \* bound: what happens to entries meanwhile
    MaxOdd   \* bound: entries that are not plain files or directories

ArchiveBounds ==
    /\ Dirs \subseteq Asked
    /\ MaxSize \in Nat \ {0}
    /\ MaxDisturbed \in Nat
    /\ MaxOdd \in Nat

VARIABLES
    seen, why, gone, result, \* the walk
    online,   \* the client is still there
    format,   \* "zip" or "tar"
    nature,   \* entry -> what it is
    size,     \* entry -> bytes of the file now
    hidden,   \* entries the reader may not see now
    handler,  \* "walk", "header", "open", "copy", "ended"
    entries,  \* the entries that were collected and have no member yet
    members,  \* the members written, in order
    end,      \* "none", "error", "whole" or "cut": how the client's download ended
    disturbed \* what has happened to entries meanwhile (history)

walk == <<seen, why, gone, result>>
vars == <<seen, why, gone, result, online, format, nature, size, hidden, handler, entries, members,
          end, disturbed>>

W == INSTANCE Traversal WITH Limit <- 0

Size == 0 .. MaxSize

\* Beside plain files: links to files; what opens and cannot be read to its end, as a link to
\* a directory (local.go:233); and what does not open, as a link that leaves the root
\* (local.go:60) or leads nowhere, or a file the server may not read.
Nature == {"plain", "link", "broken", "closed"}

\* size is what the walk has seen; got what has been written of it.
Member == [path : Asked, size : Size, got : Size]

TypeOK ==
    /\ online \in BOOLEAN
    /\ format \in {"zip", "tar"}
    /\ nature \in [Asked -> Nature]
    /\ size \in [Asked -> Size]
    /\ hidden \subseteq Asked
    /\ handler \in {"walk", "header", "open", "copy", "ended"}
    /\ entries \in Seq(Member)
    /\ members \in Seq(Member)
    /\ end \in {"none", "error", "whole", "cut"}
    /\ disturbed \subseteq [kind : {"hide", "vanish", "resize"}, path : Asked]

Init ==
    /\ W!Init
    /\ online = TRUE
    /\ format \in {"zip", "tar"}
    /\ nature \in [Asked -> Nature]
    /\ LET odd == {e \in Asked : nature[e] # "plain"}
       IN  odd \cap Dirs = {} /\ Cardinality(odd) <= MaxOdd
    /\ size = [e \in Asked |-> IF e \in Dirs THEN 0 ELSE 1]
    /\ hidden \in SUBSET Asked
    /\ Cardinality(hidden) <= MaxDisturbed
    /\ handler = "walk"
    /\ entries = <<>>
    /\ members = <<>>
    /\ end = "none"
    /\ disturbed = {[kind |-> "hide", path |-> e] : e \in hidden}

World == <<online, format, nature, size, hidden, disturbed>>

-----------------------------------------------------------------------------
(* collectEntries *)

\* Lstat: of a link it is the length of what it says (local.go:402).
Listed(e) ==
    CASE nature[e] = "plain" -> {size[e]}
      [] nature[e] = "link" -> Size \ {0}
      [] OTHER -> Size

Listing(e) ==
    IF e \in hidden THEN UNCHANGED entries
    ELSE \E n \in Listed(e) : entries' = Append(entries, [path |-> e, size |-> n, got |-> 0])

\* Slip for ArchiveIsWhole: a hidden entry ends the walk.
SlipCollect(e) ==
    /\ W!Visit(e)
    /\ why' = IF e \in hidden THEN why \cup {"done"} ELSE why
    /\ Listing(e)
    /\ UNCHANGED <<World, handler, members, end>>

Collect(e) ==
    /\ W!Visit(e)
    /\ why' = why
    /\ Listing(e)
    /\ UNCHANGED <<World, handler, members, end>>

WalkReturns ==
    /\ \E r \in {"ok", "error", "canceled"} : W!Return(r)
    /\ IF result' = "ok" THEN handler' = "header" /\ end' = end
       ELSE handler' = "ended" /\ end' = "error"
    /\ UNCHANGED <<World, entries, members>>

-----------------------------------------------------------------------------
(* streamZip and streamTarGz *)

Last == members[Len(members)]

\* The bytes a tar header has announced have been written.
Filled == members = <<>> \/ format = "zip" \/ Last.got = Last.size

\* The archive is closed, also when an entry has ended the loop.  What is closed well
\* looks like all there is: a zip always, a tar if its last member is filled.
Close(filled) ==
    /\ handler' = "ended"
    /\ end' = IF online /\ filled THEN "whole" ELSE "cut"

Go(pc) == handler' = pc /\ UNCHANGED end

\* A header announces the size the walk has seen.  A zip has no directories.
Header ==
    /\ handler = "header"
    /\ entries # <<>>
    /\ LET e == Head(entries)
       IN  IF format = "zip" /\ e.path \in Dirs
           THEN entries' = Tail(entries) /\ Go("header") /\ UNCHANGED members
           ELSE IF ~Filled \/ ~online
           THEN Close(Filled) /\ UNCHANGED <<entries, members>>
           ELSE /\ entries' = Tail(entries)
                /\ members' = Append(members, e)
                /\ Go(IF e.path \in Dirs THEN "header" ELSE "open")
    /\ UNCHANGED <<walk, World>>

Finish ==
    /\ handler = "header"
    /\ entries = <<>>
    /\ Close(Filled)
    /\ UNCHANGED <<walk, World, entries, members>>

Open ==
    /\ handler = "open"
    /\ IF Last.path \in gone \/ nature[Last.path] = "closed" THEN Close(Filled) ELSE Go("copy")
    /\ UNCHANGED <<walk, World, entries, members>>

Bytes(n) == members' = [members EXCEPT ![Len(members)].got = n]

\* io.Copy: an error ends the loop, and a tar takes no more than has been announced.
Copy ==
    /\ handler = "copy"
    /\ \/ /\ nature[Last.path] = "broken"
          /\ \E n \in 0 .. Last.size : Bytes(n) /\ Close(format = "zip" \/ n = Last.size)
       \/ /\ nature[Last.path] # "broken" /\ format = "tar" /\ size[Last.path] > Last.size
          /\ Bytes(Last.size) /\ Close(TRUE)
       \/ /\ nature[Last.path] # "broken"
          /\ format = "zip" \/ size[Last.path] <= Last.size
          /\ Bytes(size[Last.path]) /\ Go("header")
    /\ UNCHANGED <<walk, World, entries>>

-----------------------------------------------------------------------------
(* Around the download *)

Disturb(kind, e) ==
    /\ disturbed' = disturbed \cup {[kind |-> kind, path |-> e]}
    /\ Cardinality(disturbed') <= MaxDisturbed

Rest == <<seen, why, result, format, nature, handler, entries, members, end>>

\* A folder becomes private, or is released.
Hide(e) ==
    /\ hidden' = IF e \in hidden THEN hidden \ {e} ELSE hidden \cup {e}
    /\ Disturb("hide", e)
    /\ UNCHANGED <<Rest, gone, online, size>>

\* It is gone, or it lies in a directory that cannot be read.
Vanish(e) ==
    /\ e \notin gone
    /\ gone' = gone \cup {e}
    /\ Disturb("vanish", e)
    /\ UNCHANGED <<Rest, online, size, hidden>>

Resize(e) ==
    /\ e \notin Dirs \cup gone
    /\ \E n \in Size : n # size[e] /\ size' = [size EXCEPT ![e] = n]
    /\ Disturb("resize", e)
    /\ UNCHANGED <<Rest, gone, online, hidden>>

\* The client goes away: its request's context is cancelled.
Leave ==
    /\ online
    /\ online' = FALSE
    /\ why' = why \cup {"cancel"}
    /\ UNCHANGED <<seen, gone, result, format, nature, size, hidden, handler, entries, members,
                   end, disturbed>>

-----------------------------------------------------------------------------
Handle ==
    \/ \E e \in Asked : Collect(e)
    \/ WalkReturns \/ Header \/ Finish \/ Open \/ Copy

Around ==
    \/ \E e \in Asked : Hide(e) \/ Vanish(e) \/ Resize(e)
    \/ Leave

Next ==
    \/ Handle
    \/ handler # "ended" /\ Around

Spec == Init /\ [][Next]_vars

-----------------------------------------------------------------------------
(* Properties *)

Undisturbed(e) == \A d \in disturbed : d.path # e

MemberOf(e) == {i \in DOMAIN members : members[i].path = e}

\* The last member did not end the loop: it is there and can be opened and read, and what a
\* tar was to take of it was no more than announced.
LastFits ==
    \/ members = <<>>
    \/ Last.path \in Dirs
    \/ /\ Last.path \notin gone
       /\ nature[Last.path] \in {"plain", "link"}
       /\ format = "zip" \/ size[Last.path] <= Last.size

\* download.go:109: what the client takes for the whole directory has every file that was
\* visible all the time, and that nothing has happened to, as one member with all its bytes,
\* whatever has happened to others, unless it ends in a member that has ended the loop.
ArchiveIsWhole ==
    end = "whole" /\ LastFits =>
        \A e \in Asked \ Dirs :
            Undisturbed(e) => \E i \in DOMAIN members :
                MemberOf(e) = {i} /\ members[i].got = size[e]
=============================================================================
