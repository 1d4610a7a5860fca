--------------------------- MODULE PrivateFolders ---------------------------
(***************************************************************************)
(* Private folders: the marks in the private_folders table                 *)
(* (internal/store), the copy of the table the permission engine answers   *)
(* from (internal/authz), and the handlers that change marks, or the tree  *)
(* and the accounts the marks are about (internal/api).                    *)
(*                                                                         *)
(* Each handler is a sequence of steps: what it checks, each statement it  *)
(* runs, the reading of the new snapshot and its installation in the       *)
(* cache.  Nothing orders the steps of two requests but the lock around    *)
(* the installation itself.                                                *)
(*                                                                         *)
(* A path is the sequence of its components; <<>> is the root.             *)
(***************************************************************************)
EXTENDS Naturals, Sequences

CONSTANTS
    User,     \* account ids; they are never used again (AUTOINCREMENT)
    Admins,   \* the accounts that are administrators
    Scope,    \* account -> the path its writes are confined to
    Folder,   \* directories, told apart from the paths they are found at
    Path,     \* the paths directories can be at
    Req,      \* requests that change something, handled at the same time
    Enabled,  \* which of "set", "unset", "mkdir", "move", "delete", "account",
              \* "absent", "dbfail", "crash" happen; "intent": history is kept
    Public,   \* no mark; also: nobody
    Gone      \* the directory is not in the tree

Under(p, q) == Len(p) <= Len(q) /\ SubSeq(q, 1, Len(p)) = p

\* cleanTo + strings.TrimPrefix(p, cleanFrom)
Rebase(p, from, to) == to \o SubSeq(p, Len(from) + 1, Len(p))

Parent(p) == SubSeq(p, 1, Len(p) - 1)

ASSUME AccountsAssumption ==
    /\ Admins \subseteq User
    /\ Public \notin User
ASSUME PathsAssumption ==
    /\ Path \subseteq Seq(STRING) \ {<<>>}
    /\ \A p \in Path : \A n \in 1 .. Len(p) : SubSeq(p, 1, n) \in Path
    /\ Gone \notin Path \cup Folder
ASSUME ScopesAssumption == Scope \in [User -> Path \cup {<<>>}]

VARIABLES
    db,      \* the table private_folders: path -> owner, or Public for no row
    cache,   \* Engine.priv
    users,   \* the accounts that exist
    at,      \* directory -> the path it is at
    req,     \* request -> where its handler stands
    intent   \* directory -> for whom it was last made private (history)

vars == <<db, cache, users, at, req, intent>>

Owner == User \cup {Public}
Marks == [Path -> Owner]
NoMarks == [p \in Path |-> Public]

Pc == {"idle", "set", "unset", "rename", "select", "update", "remove",
       "purge", "cascade", "read", "install"}

\* lone: no other request was ever in progress at the same time (history).
Request ==
    [pc : Pc, u : Owner, p : Path \cup {Gone}, q : Path \cup {Gone},
     todo : SUBSET Path, snap : Marks, lone : BOOLEAN]

Idle == [pc |-> "idle", u |-> Public, p |-> Gone, q |-> Gone,
         todo |-> {}, snap |-> NoMarks, lone |-> FALSE]

TypeOK ==
    /\ db \in Marks
    /\ cache \in Marks
    /\ users \subseteq User
    /\ at \in [Folder -> Path \cup {Gone}]
    /\ req \in [Req -> Request]
    /\ intent \in [Folder -> Owner]

\* authz.New loads the table, which is empty at first.
Init ==
    /\ db = NoMarks
    /\ cache = NoMarks
    /\ users = User
    /\ at = [f \in Folder |-> Gone]
    /\ req = [r \in Req |-> Idle]
    /\ intent = [f \in Folder |-> Public]

-----------------------------------------------------------------------------
(* What the engine answers *)

\* owningPrivateFolder: private folders may nest, the deepest one wins.
OwningPrivateFolder(marks, p) ==
    LET holding == {q \in Path : marks[q] # Public /\ Under(q, p)}
    IN  IF holding = {} THEN Public
        ELSE marks[CHOOSE q \in holding : \A x \in holding : Len(x) <= Len(q)]

PrivateToOthers(u, p) ==
    u \notin Admins /\ OwningPrivateFolder(cache, p) \notin {Public, u}

\* A scoped user may change what is in the scope folder, not the folder itself.
InsideScope(u, p) == Under(Scope[u], p) /\ p # Scope[u]

CanWrite(u, p) ==
    u \in Admins \/ (InsideScope(u, p) /\ ~PrivateToOthers(u, p))

-----------------------------------------------------------------------------
(* The frame of a handler *)

At(r, pc) == req[r].pc = pc

Rest == \A r \in Req : At(r, "idle")

Exists(p) == \E f \in Folder : at[f] = p

Start(r, pc, u, p, q) ==
    /\ At(r, "idle")
    /\ req' = [x \in Req |->
                IF x = r
                THEN [Idle EXCEPT !.pc = pc, !.u = u, !.p = p, !.q = q, !.lone = Rest]
                ELSE [req[x] EXCEPT !.lone = FALSE]]
    /\ UNCHANGED <<db, cache, users, at, intent>>

\* Only MarksFollowFolders is about intent; where it is not checked nothing is kept.
Intend(new) == intent' = IF "intent" \in Enabled THEN new ELSE intent

Goto(r, pc) == req' = [req EXCEPT ![r].pc = pc]

Answer(r) == req' = [req EXCEPT ![r] = Idle]

-----------------------------------------------------------------------------
(* POST /api/private: handleSetPrivate, Engine.SetPrivate, Store.SetPrivate *)

\* Only the scope is checked, not whose folder it is nor that there is one.
SetCheck(r, u, p) ==
    /\ "set" \in Enabled
    /\ "absent" \in Enabled \/ Exists(p)
    /\ u \in users
    /\ u \in Admins \/ InsideScope(u, p)
    /\ Start(r, "set", u, p, Gone)

\* INSERT ... ON CONFLICT DO UPDATE.  The owner must still exist.
SetRow(r) ==
    /\ At(r, "set")
    /\ \/ /\ req[r].u \in users
          /\ db' = [db EXCEPT ![req[r].p] = req[r].u]
          /\ Intend([f \in Folder |->
                           IF at[f] = req[r].p THEN req[r].u ELSE intent[f]])
          /\ Goto(r, "read")
       \/ /\ req[r].u \notin users
          /\ Answer(r)
          /\ UNCHANGED <<db, intent>>
    /\ UNCHANGED <<cache, users, at>>

-----------------------------------------------------------------------------
(* DELETE /api/private: handleUnsetPrivate, Engine.UnsetPrivate             *)

\* Slip for SerialUnsetByOwner: whoever may read the folder may unmark it.
SlipUnsetCheck(r, u, p) ==
    /\ "unset" \in Enabled
    /\ u \in users
    /\ u \in Admins \/ OwningPrivateFolder(cache, Parent(p)) \in {u, Public}
    /\ Start(r, "unset", u, p, Gone)

UnsetCheck(r, u, p) ==
    /\ "unset" \in Enabled
    /\ u \in users
    /\ u \in Admins \/ OwningPrivateFolder(cache, p) = u
    /\ Start(r, "unset", u, p, Gone)

UnsetRow(r) ==
    /\ At(r, "unset")
    /\ db' = [db EXCEPT ![req[r].p] = Public]
    /\ Intend([f \in Folder |-> IF at[f] = req[r].p THEN Public ELSE intent[f]])
    /\ Goto(r, "read")
    /\ UNCHANGED <<cache, users, at>>

-----------------------------------------------------------------------------
(* The tree: handleCreateDir, handleMove, handleDelete                      *)

Missing(p) == {q \in Path : Under(q, p) /\ ~Exists(q)}

\* The trees in which p is there, and what was missing above it (bound: out of the
\* directories of Folder).
MkdirAll(p) ==
    LET new == Missing(p)
    IN  {t \in [Folder -> new \cup {at[f] : f \in Folder}] :
            /\ \A f \in Folder : t[f] = at[f] \/ (at[f] = Gone /\ t[f] \in new)
            /\ \A q \in new : \E f \in Folder : {g \in Folder : t[g] = q} = {f}}

\* What is made above p is not checked.  What anonymous visitors may create (public
\* policy) the administrator may, too.
CreateDir(u, f, p) ==
    /\ "mkdir" \in Enabled
    /\ u \in users
    /\ CanWrite(u, p)
    /\ at[f] = Gone
    /\ ~Exists(p)
    /\ at' \in MkdirAll(p) /\ at'[f] = p
    /\ UNCHANGED <<db, cache, users, req, intent>>

\* Bound: everything that can be below `from' has a path below `to'.
Fits(from, to) == \A p \in Path : Under(from, p) => Rebase(p, from, to) \in Path

MoveCheck(r, u, from, to) ==
    /\ "move" \in Enabled
    /\ u \in users
    /\ CanWrite(u, from)
    /\ CanWrite(u, to)
    /\ Fits(from, to)
    /\ Start(r, "rename", u, from, to)

Free(from, to) == ~Exists(to) /\ ~Under(from, to)

\* Storage.Move: the destination must be free and not below the source.  What is missing
\* above it is made before the source is looked for (when no directory is left for it
\* the move fails).
MoveTree(r) ==
    LET from == req[r].p
        to   == req[r].q
    IN  /\ At(r, "rename")
        /\ \/ \E t \in MkdirAll(Parent(to)) :
                /\ Free(from, to)
                /\ \/ /\ Exists(from)
                      /\ at' = [f \in Folder |->
                                  IF at[f] # Gone /\ Under(from, at[f])
                                  THEN Rebase(at[f], from, to) ELSE t[f]]
                      /\ Goto(r, "select")
                   \/ /\ ~Exists(from)
                      /\ at' = t
                      /\ Answer(r)
           \/ /\ Free(from, to) => MkdirAll(Parent(to)) = {}
              /\ Answer(r)
              /\ UNCHANGED at
        /\ UNCHANGED <<db, cache, users, intent>>

\* Slip for SerialMarksAreTrue: only the folder that is moved keeps its mark.
SlipRenameSelect(r) ==
    /\ At(r, "select")
    /\ req' = [req EXCEPT ![r].pc = "update",
                          ![r].todo = {p \in {req[r].p} : db[p] # Public}]
    /\ UNCHANGED <<db, cache, users, at, intent>>

RenameSelect(r) ==
    /\ At(r, "select")
    /\ req' = [req EXCEPT ![r].pc = "update",
                          ![r].todo = {p \in Path : db[p] # Public /\ Under(req[r].p, p)}]
    /\ UNCHANGED <<db, cache, users, at, intent>>

\* UPDATE private_folders SET path = new WHERE path = p, row by row and each a
\* transaction of its own.  A row that has gone meanwhile updates nothing; a row
\* that is already at the new path violates the primary key, which ends the
\* rewriting: RenamePrivate returns without reload and handleMove only logs it.
RenameRow(r) ==
    /\ At(r, "update")
    /\ \E p \in req[r].todo :
        LET to == Rebase(p, req[r].p, req[r].q)
        IN  \/ /\ db[p] # Public
               /\ db[to] # Public
               /\ Answer(r)
               /\ UNCHANGED db
            \/ /\ db[p] # Public => db[to] = Public
               /\ db' = IF db[p] = Public THEN db
                        ELSE [db EXCEPT ![p] = Public, ![to] = db[p]]
               /\ req' = [req EXCEPT ![r].todo = @ \ {p}]
    /\ UNCHANGED <<cache, users, at, intent>>

RenameDone(r) ==
    /\ At(r, "update")
    /\ req[r].todo = {}
    /\ Goto(r, "read")
    /\ UNCHANGED <<db, cache, users, at, intent>>

\* handleDelete for one of the paths of the request.
DeleteCheck(r, u, p) ==
    /\ "delete" \in Enabled
    /\ u \in users
    /\ CanWrite(u, p)
    /\ Start(r, "remove", u, p, Gone)

RemoveTree(r) ==
    /\ At(r, "remove")
    /\ \/ /\ Exists(req[r].p)
          /\ LET gone == {f \in Folder : at[f] # Gone /\ Under(req[r].p, at[f])}
             IN  /\ at' = [f \in Folder |-> IF f \in gone THEN Gone ELSE at[f]]
                 /\ Intend([f \in Folder |-> IF f \in gone THEN Public ELSE intent[f]])
          /\ Goto(r, "purge")
       \/ /\ ~Exists(req[r].p)                  \* 404
          /\ Answer(r)
          /\ UNCHANGED <<at, intent>>
    /\ UNCHANGED <<db, cache, users>>

DeletePrivateBelow(r) ==
    /\ At(r, "purge")
    /\ db' = [p \in Path |-> IF Under(req[r].p, p) THEN Public ELSE db[p]]
    /\ Goto(r, "read")
    /\ UNCHANGED <<cache, users, at, intent>>

-----------------------------------------------------------------------------
(* DELETE /api/users/{id}: handleDeleteUser.  u is the account to delete.    *)

DeleteUserCheck(r, u) ==
    /\ "account" \in Enabled
    /\ u \in users
    /\ (Admins \cap users) \ {u} # {}
    /\ Start(r, "cascade", u, Gone, Gone)

\* ON DELETE CASCADE takes the marks of the account with it.
DeleteUserRow(r) ==
    /\ At(r, "cascade")
    /\ users' = users \ {req[r].u}
    /\ db' = [p \in Path |-> IF db[p] = req[r].u THEN Public ELSE db[p]]
    /\ Intend([f \in Folder |-> IF intent[f] = req[r].u THEN Public ELSE intent[f]])
    /\ Goto(r, "read")
    /\ UNCHANGED <<cache, at>>

-----------------------------------------------------------------------------
(* Engine.reload, and what can come between                                 *)

PrivateFoldersRead(r) ==
    /\ At(r, "read")
    /\ req' = [req EXCEPT ![r].pc = "install", ![r].snap = db]
    /\ UNCHANGED <<db, cache, users, at, intent>>

\* Slip for LoneReloadIsFresh: only marks are added to the cache.
SlipInstall(r) ==
    /\ At(r, "install")
    /\ cache' = [p \in Path |-> IF req[r].snap[p] = Public THEN cache[p] ELSE req[r].snap[p]]
    /\ Answer(r)
    /\ UNCHANGED <<db, users, at, intent>>

Install(r) ==
    /\ At(r, "install")
    /\ cache' = req[r].snap
    /\ Answer(r)
    /\ UNCHANGED <<db, users, at, intent>>

\* A statement fails.  No handler reloads the cache after that.
DbFail(r) ==
    /\ "dbfail" \in Enabled
    /\ req[r].pc \in {"set", "unset", "select", "update", "purge", "cascade", "read"}
    /\ Answer(r)
    /\ UNCHANGED <<db, cache, users, at, intent>>

\* The process stops and starts again.
Crash ==
    /\ "crash" \in Enabled
    /\ cache' = db
    /\ req' = [r \in Req |-> Idle]
    /\ UNCHANGED <<db, users, at, intent>>

-----------------------------------------------------------------------------
Call(r) ==
    \E u \in User :
        \/ DeleteUserCheck(r, u)
        \/ \E p \in Path :
            \/ SetCheck(r, u, p)
            \/ UnsetCheck(r, u, p)
            \/ DeleteCheck(r, u, p)
            \/ \E to \in Path : MoveCheck(r, u, p, to)

Continue(r) ==
    \/ SetRow(r)
    \/ UnsetRow(r)
    \/ MoveTree(r)
    \/ RenameSelect(r)
    \/ RenameRow(r)
    \/ RenameDone(r)
    \/ RemoveTree(r)
    \/ DeletePrivateBelow(r)
    \/ DeleteUserRow(r)
    \/ PrivateFoldersRead(r)
    \/ Install(r)

Next ==
    \/ \E r \in Req : Call(r) \/ Continue(r) \/ DbFail(r)
    \/ \E u \in User, f \in Folder, p \in Path : CreateDir(u, f, p)
    \/ Crash

Spec == Init /\ [][Next]_vars

-----------------------------------------------------------------------------
(* Properties *)

\* store.go:449: the engine's copy follows every mutation.  With no request in
\* progress the engine answers from what the table says.
RestIsFresh == Rest => cache = db

\* admin.go:102, users.go:169: with no request in progress every directory is
\* private to whom it was last made private for, wherever it and the directories
\* around it have been moved, and a new directory at an old path is public.
MarksFollowFolders ==
    Rest => \A f \in Folder : at[f] # Gone => cache[at[f]] = intent[f]

\* authz.go:217: only its owner or an administrator clears a mark.
UnsetByOwner ==
    [][\A r \in Req : UnsetRow(r) /\ req[r].u \notin Admins =>
            db[req[r].p] \in {Public, req[r].u}]_vars

\* A request during which no other was in progress leaves the cache fresh, even
\* if earlier overlapping requests, failures of the database or a restart had
\* left it stale (Engine.reload reads the whole table every time).
LoneReloadIsFresh ==
    [][\A r \in Req : Install(r) /\ req[r].lone => cache' = db]_vars

\* However requests overlap, fail or are cut off, no mark outlives its owner's
\* account in the table (the reference with ON DELETE CASCADE).
RowsHaveOwners == \A p \in Path : db[p] \in users \cup {Public}
=============================================================================
