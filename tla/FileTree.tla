------------------------------ MODULE FileTree ------------------------------
(***************************************************************************)
(* The tree below the storage root (internal/storage/local): what one      *)
(* system call of the adapter does to it.                                  *)
(*                                                                         *)
(* A path is the sequence of its components, <<>> the root.  The temporary *)
(* file of a save is an entry like any other, named after the request that *)
(* writes it.  A file that is being written stays open when its directory  *)
(* is moved: `pen' follows it.                                             *)
(***************************************************************************)
EXTENDS Naturals, Sequences

CONSTANTS
    Component, \* the names requests use
    Path,    \* the paths requests speak of
    Req,     \* requests, and the names of the temporary files they make
    Body,    \* what files hold
    Absent,  \* no entry
    Dir      \* a directory

VARIABLES
    tree,    \* path -> entry
    pen      \* request -> where the file it is writing is now

Parent(p) == SubSeq(p, 1, Len(p) - 1)

Under(p, q) == Len(p) <= Len(q) /\ SubSeq(q, 1, Len(p)) = p

Rebase(p, from, to) == to \o SubSeq(p, Len(from) + 1, Len(p))

\* A temporary file has a name of its own: its random part is in no request.
ASSUME PathAssumption ==
    /\ \A p \in Path : p \in Seq(Component) /\ p # <<>>
    /\ \A p \in Path : \A n \in 1 .. Len(p) : SubSeq(p, 1, n) \in Path
    /\ Req \cap Component = {}

\* Slip for OnlyCopiesArePartial: the file is written in place.
SlipTemp(p, r) == p

Temp(p, r) == Append(Parent(p), r)

Name == Path \cup {Temp(p, r) : p \in Path, r \in Req}

Content == [body : Body, whole : BOOLEAN]

Whole(b) == [body |-> b, whole |-> TRUE]
Part(b)  == [body |-> b, whole |-> FALSE]

Entry == Content \cup {Absent, Dir}

ASSUME EntryAssumption ==
    /\ Absent # Dir
    /\ Absent \notin Content /\ Dir \notin Content
    /\ Absent \notin Name

IsDir(t, p) == p # <<>> => t[p] = Dir
IsFile(t, p) == t[p] \in Content

\* An entry is in a directory, and no directory has the name of a temporary file.
IsTree(t) ==
    /\ t \in [Name -> Entry]
    /\ \A x \in Name : t[x] # Absent => IsDir(t, Parent(x))
    /\ \A x \in Name : t[x] = Dir => x \in Path

Children(t, d) == {x \in Name : Parent(x) = d /\ t[x] # Absent}

-----------------------------------------------------------------------------
(* Results of system calls, as functions of the tree before *)

\* MkdirAll of the directory p is in fails when a file is in the way.
Reachable(t, p) ==
    \A d \in Path : Under(d, p) /\ d # p => t[d] \in {Absent, Dir}

\* Slip for TypeOK: the parents are not made.
SlipReached(t, p) == t

Reached(t, p) ==
    [x \in Name |-> IF Under(x, p) /\ x # p THEN Dir ELSE t[x]]

Put(t, p, e) == [t EXCEPT ![p] = e]

\* os.RemoveAll.
Without(t, p) == [x \in Name |-> IF Under(p, x) THEN Absent ELSE t[x]]

\* Every entry below `from' has a name below `to' (bound).
Fits(from, to) == \A x \in Name : Under(from, x) => Rebase(x, from, to) \in Name

\* What rename(2) accepts: a file replaces a file, a directory an empty directory.
Renamable(t, from, to) ==
    /\ t[from] # Absent
    /\ IsDir(t, Parent(to))
    /\ \/ t[to] = Absent
       \/ IsFile(t, from) /\ IsFile(t, to)
       \/ t[from] = Dir /\ t[to] = Dir /\ Children(t, to) = {}

Renamed(t, from, to) ==
    [x \in Name |->
        IF Under(to, x)
        THEN IF Rebase(x, to, from) \in Name THEN t[Rebase(x, to, from)] ELSE Absent
        ELSE IF Under(from, x) THEN Absent ELSE t[x]]

\* A file that is open for writing goes with the directory it is in, and is out of
\* reach once its name has been removed or given to another file.
PensWithout(p) == [r \in Req |-> IF pen[r] # Absent /\ Under(p, pen[r]) THEN Absent ELSE pen[r]]

PensRenamed(from, to) ==
    [r \in Req |->
        IF pen[r] = Absent \/ Under(to, pen[r]) THEN Absent
        ELSE IF Under(from, pen[r]) THEN Rebase(pen[r], from, to) ELSE pen[r]]

-----------------------------------------------------------------------------
(* Steps *)

Keep == UNCHANGED <<tree, pen>>

Remove(p) ==
    /\ tree' = Without(tree, p)
    /\ pen' = PensWithout(p)

Rename(from, to) ==
    /\ tree' = Renamed(tree, from, to)
    /\ pen' = PensRenamed(from, to)

\* A file is opened for writing, created or truncated, and incomplete from then on.
OpenFor(r, t, p, b) ==
    /\ tree' = Put(t, p, Part(b))
    /\ pen' = [pen EXCEPT ![r] = p]

\* Its last byte is written, wherever it is now.
Fill(r, c) ==
    /\ tree' = IF pen[r] = Absent THEN tree ELSE Put(tree, pen[r], c)
    /\ pen' = [pen EXCEPT ![r] = Absent]

\* It is closed as it is, and the entry p removed.
GiveUp(r, p) ==
    /\ tree' = Without(tree, p)
    /\ pen' = [PensWithout(p) EXCEPT ![r] = Absent]
=============================================================================
