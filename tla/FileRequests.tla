---------------------------- MODULE FileRequests ----------------------------
(***************************************************************************)
(* The requests that read and change the tree (internal/api: files.go,     *)
(* admin.go, auth.go), from the middleware that finds out who asks, over   *)
(* the check of every path, to the system calls of the storage.  Accounts, *)
(* marks, the access policy and edit tokens change in between.             *)
(*                                                                         *)
(* Reading the policy, the session's account and the engine's copy of the  *)
(* marks is one step for each check a handler makes; that the copy may be  *)
(* behind the table is the subject of PrivateFolders.  Resumable uploads   *)
(* are those of TusUploads.  Requests of another origin are answered 403   *)
(* before anything else and left out, as is the insecure mode.             *)
(***************************************************************************)
EXTENDS FileTree, FiniteSets

CONSTANTS
    User,     \* accounts
    Admins,   \* the administrators among them
    Scope,    \* account -> the path its writes are confined to
    Guest,    \* whoever has no session
    Nobody,   \* owner of what is not private
    Empty,    \* what a file that was just created holds
    Large,    \* bodies longer than the size limit of a save
    Reserved, \* paths whose first component is a route of the page
    Start,    \* the trees there may be at the start
    Enabled   \* which of "policy", "mark", "account", "expire", "crash",
              \* "broken" (bodies), "exdev" (renames) happen

ASSUME AccountsAssumption ==
    /\ Admins \subseteq User
    /\ Guest \notin User
    /\ Nobody \notin User \cup {Guest}
    /\ Scope \in [User -> Path \cup {<<>>}]
    /\ Reserved \subseteq Path
    /\ Empty \in Body
    /\ Large \subseteq Body

ASSUME StartAssumption == \A t \in Start : IsTree(t)

VARIABLES
    policy,  \* the access policy
    users,   \* the accounts that exist
    marks,   \* directory -> its owner, or Nobody
    edit,    \* the paths there is an edit token for that has not expired
    req      \* request -> where its handler stands

vars == <<tree, pen, policy, users, marks, edit, req>>

rights == <<policy, users, marks, edit>>

Policy == {"public", "readonly", "private"}
Kind == {"read", "mkdir", "file", "save", "delete", "move"}
Pc == {"idle", "check", "open", "make", "stage", "body", "place", "look", "remove",
       "purge", "rename", "copy", "pour", "undo", "stat", "relabel"}
Code == {"none", "ok", "exists", "partial", "refused"}

\* id is the identity the middleware found (Guest for a save with an edit token); q is
\* the destination of a move, or what is deleted after p; some is TRUE once p has been.
\* History: shown are the targets that were not hidden from it at some moment,
\* public and shut whether the policy was public at some, or private at every
\* moment; met whether another request, or a move, was in progress meanwhile.
Request ==
    [pc : Pc, kind : Kind, id : User \cup {Guest}, p : Path, q : Path, body : Body,
     some : BOOLEAN, todo : SUBSET Name, item : Content, code : Code, shown : SUBSET Path,
     public : BOOLEAN, shut : BOOLEAN,
     met : {"none", "some", "move"}]

\* What the next permission check is about.
Targets(r) == IF req[r].kind = "move" THEN {req[r].p, req[r].q} ELSE {req[r].p}

-----------------------------------------------------------------------------
(* Who may do what *)

OwningPrivateFolder(m, p) ==
    LET holding == {d \in Path : m[d] # Nobody /\ Under(d, p)}
    IN  IF holding = {} THEN Nobody
        ELSE m[CHOOSE d \in holding : \A x \in holding : Len(x) <= Len(d)]

\* privateToOthers: nothing is hidden from administrators.
Hidden(m, u, p) ==
    u \notin Admins /\ OwningPrivateFolder(m, p) \notin {Nobody, u}

\* scopeOwnsRoot: the scope folder itself is not in the scope.
InsideScope(u, p) == Under(Scope[u], p) /\ p # Scope[u]

\* Engine.CanWrite, for an account.
EngineAllows(u, p) ==
    u \in Admins \/ (InsideScope(u, p) /\ ~Hidden(marks, u, p))

CanWriteAnonymous(p) == policy = "public" /\ ~Hidden(marks, Guest, p)

CanWrite(u, p) == IF u = Guest THEN CanWriteAnonymous(p) ELSE EngineAllows(u, p)

CanRead(u, p) ==
    /\ ~(policy = "private" /\ u = Guest)
    /\ ~Hidden(marks, u, p)

\* The cookie of an account that has been deleted is no session.
Identity(cookie) == IF cookie \in users THEN cookie ELSE Guest

-----------------------------------------------------------------------------
(* The frame of a handler *)

At(r, pc) == req[r].pc = pc
Idle(r) == At(r, "idle")
Rest == \A r \in Req : Idle(r)

Goto(r, pc) == req' = [req EXCEPT ![r].pc = pc]
Answer(r, code) == req' = [req EXCEPT ![r].pc = "idle", ![r].code = code,
                                      ![r].todo = {}]

\* A request begins and is let through the middleware to `pc', or answered.
Arrive(r, kind, id, p, q, b, pc) ==
    /\ Idle(r)
    /\ req' = [x \in Req |->
                IF x = r
                THEN [pc |-> pc, kind |-> kind, id |-> id, p |-> p, q |-> q, body |-> b,
                      some |-> FALSE, todo |-> {}, item |-> Whole(b),
                      code |-> IF pc = "idle" THEN "refused" ELSE "none",
                      shown |-> {y \in {p, q} : ~Hidden(marks, id, y)},
                      public |-> policy = "public", shut |-> policy = "private",
                      met |-> IF Rest THEN "none"
                              ELSE IF \E y \in Req : ~Idle(y) /\ req[y].kind = "move"
                              THEN "move" ELSE "some"]
                ELSE [req[x] EXCEPT !.met = IF kind = "move" \/ @ = "move" THEN "move"
                                            ELSE "some"]]
    /\ Keep
    /\ UNCHANGED rights

\* What every request in progress has lived through when the rights change.
Lived(newPolicy, newMarks) ==
    [r \in Req |->
        IF Idle(r) THEN req[r]
        ELSE [req[r] EXCEPT
                !.shown = @ \cup {p \in {req[r].p, req[r].q} : ~Hidden(newMarks, req[r].id, p)},
                !.public = @ \/ newPolicy = "public",
                !.shut = @ /\ newPolicy = "private"]]

-----------------------------------------------------------------------------
(* Reading: handleMeta *)

ReadArrive(r, cookie, p) ==
    LET id == Identity(cookie)
    IN  Arrive(r, "read", id, p, p, Empty,
               IF CanRead(id, p) THEN "open" ELSE "idle")

ReadOpen(r) ==
    /\ At(r, "open")
    /\ Answer(r, IF tree[req[r].p] = Absent THEN "refused" ELSE "ok")
    /\ Keep
    /\ UNCHANGED rights

-----------------------------------------------------------------------------
(* The middleware of the requests that change something *)

\* rejectReservedRoot.
Free(p) == p \notin Reserved

\* writeCreation: with a session, or without one when the policy is public.
CreateArrive(r, cookie, kind, p) ==
    LET id == Identity(cookie)
    IN  /\ kind \in {"mkdir", "file"}
        /\ Arrive(r, kind, id, p, p, Empty,
                  IF (id # Guest \/ policy = "public") /\ Free(p) THEN "check" ELSE "idle")

\* write: with a session.  A batch of one path or two (bound).
DeleteArrive(r, cookie, p, q) ==
    LET id == Identity(cookie)
    IN  Arrive(r, "delete", id, p, q, Empty,
               IF id # Guest THEN "check" ELSE "idle")

MoveArrive(r, cookie, from, to) ==
    LET id == Identity(cookie)
    IN  /\ Fits(from, to)
        /\ Arrive(r, "move", id, from, to, Empty,
                  IF id # Guest /\ Free(to) THEN "check" ELSE "idle")

\* Names of temporary files are random: none is made twice (bound).
Unused(r) == \A p \in Path : tree[Temp(p, r)] = Absent

\* authorizeSave: a good edit token for this path, under the public policy, needs no
\* session; what is private to anyone at all is hidden from it.
SaveByToken(r, p, b) ==
    /\ Unused(r)
    /\ policy = "public"
    /\ p \in edit
    /\ Arrive(r, "save", Guest, p, p, b,
              IF Free(p) /\ ~Hidden(marks, Guest, p) THEN "stage" ELSE "idle")

SaveArrive(r, cookie, p, b) ==
    LET id == Identity(cookie)
    IN  /\ Unused(r)
        /\ Arrive(r, "save", id, p, p, b,
                  IF id # Guest /\ Free(p) THEN "check" ELSE "idle")

First(kind) ==
    CASE kind \in {"mkdir", "file"} -> "make"
      [] kind = "save" -> "stage"
      [] kind \in {"delete", "move"} -> "look"

\* Slip for RightsHold: the destination of a move is not checked.
SlipCheck(r) ==
    /\ At(r, "check")
    /\ IF CanWrite(req[r].id, req[r].p)
       THEN Goto(r, First(req[r].kind)) ELSE Answer(r, "refused")
    /\ Keep
    /\ UNCHANGED rights

\* canWrite, for both ends of a move.
Check(r) ==
    /\ At(r, "check")
    /\ IF \A p \in Targets(r) : CanWrite(req[r].id, p)
       THEN Goto(r, First(req[r].kind)) ELSE Answer(r, "refused")
    /\ Keep
    /\ UNCHANGED rights

-----------------------------------------------------------------------------
(* POST /api/dir, POST /api/file *)

\* MkdirAll, with every missing parent.  A directory that exists is no error.
MakeDir(r) ==
    LET p == req[r].p
    IN  /\ At(r, "make")
        /\ req[r].kind = "mkdir"
        /\ IF Reachable(tree, p) /\ tree[p] \in {Absent, Dir}
           THEN /\ tree' = Put(Reached(tree, p), p, Dir)
                /\ Answer(r, "ok")
           ELSE Answer(r, "exists") /\ UNCHANGED tree
        /\ UNCHANGED <<pen, rights>>

\* Whoever creates a file may go on editing it for a while.
MakeFile(r) ==
    LET p == req[r].p
    IN  /\ At(r, "make")
        /\ req[r].kind = "file"
        /\ IF Reachable(tree, p) /\ tree[p] = Absent
           THEN /\ tree' = Put(Reached(tree, p), p, Whole(req[r].body))
                /\ edit' = edit \cup {p}
                /\ Answer(r, "ok")
           ELSE Answer(r, "exists") /\ UNCHANGED <<tree, edit>>
        /\ UNCHANGED <<pen, policy, users, marks>>

-----------------------------------------------------------------------------
(* PUT /api/raw: Storage.Write *)

\* CreateTemp in the directory of the target.
SaveStage(r) ==
    LET p == req[r].p
    IN  /\ At(r, "stage")
        /\ IF Reachable(tree, p)
           THEN /\ OpenFor(r, Reached(tree, p), Temp(p, r), req[r].body)
                /\ Goto(r, "body")
           ELSE Answer(r, "exists") /\ Keep
        /\ UNCHANGED rights

\* The body has been copied up to the size limit, and synced, and the file is closed.
SaveBody(r) ==
    /\ At(r, "body")
    /\ Fill(r, [body |-> req[r].body, whole |-> req[r].body \notin Large])
    /\ Goto(r, "place")
    /\ UNCHANGED rights

\* The client leaves or the disk is full: the temporary file is removed, by its name.
SaveBroken(r) ==
    /\ "broken" \in Enabled
    /\ At(r, "body")
    /\ GiveUp(r, Temp(req[r].p, r))
    /\ Answer(r, "refused")
    /\ UNCHANGED rights

SavePlace(r) ==
    LET p == req[r].p
        t == Temp(p, r)
    IN  /\ At(r, "place")
        /\ IF Renamable(tree, t, p)
           THEN Rename(t, p) /\ Answer(r, "ok")
           ELSE Remove(t) /\ Answer(r, "refused")
        /\ UNCHANGED rights

-----------------------------------------------------------------------------
(* POST /api/delete *)

DeleteLook(r) ==
    /\ At(r, "look")
    /\ req[r].kind = "delete"
    /\ IF tree[req[r].p] = Absent
       THEN Answer(r, IF req[r].some THEN "partial" ELSE "refused")
       ELSE Goto(r, "remove")
    /\ Keep
    /\ UNCHANGED rights

DeleteTree(r) ==
    /\ At(r, "remove")
    /\ Remove(req[r].p)
    /\ Goto(r, "purge")
    /\ UNCHANGED rights

\* DeletePrivateBelow; then the next path.
DeletePurge(r) ==
    LET lived == Lived(policy, marks')
    IN  /\ At(r, "purge")
        /\ marks' = [d \in Path |-> IF Under(req[r].p, d) THEN Nobody ELSE marks[d]]
        /\ req' = IF req[r].q = req[r].p
                  THEN [lived EXCEPT ![r].pc = "idle", ![r].code = "ok"]
                  ELSE [lived EXCEPT ![r].pc = "check", ![r].p = req[r].q, ![r].some = TRUE]
        /\ UNCHANGED <<policy, users, edit>>
        /\ Keep

-----------------------------------------------------------------------------
(* POST /api/move *)

\* Slip for NothingElseIsLost: nobody looks whether the destination exists.
SlipMoveLook(r) ==
    /\ At(r, "look")
    /\ req[r].kind = "move"
    /\ IF Under(req[r].p, req[r].q) THEN Answer(r, "refused") ELSE Goto(r, "rename")
    /\ Keep
    /\ UNCHANGED rights

\* validateMove, and Lstat of the destination.
MoveLook(r) ==
    LET from == req[r].p
        to   == req[r].q
    IN  /\ At(r, "look")
        /\ req[r].kind = "move"
        /\ IF Under(from, to) \/ to = Parent(from) THEN Answer(r, "refused")
           ELSE IF tree[to] # Absent THEN Answer(r, "exists")
           ELSE Goto(r, "rename")
        /\ Keep
        /\ UNCHANGED rights

\* MkdirAll of the destination's directory, then os.Rename.
MoveRename(r) ==
    LET from == req[r].p
        to   == req[r].q
        t    == Reached(tree, to)
    IN  /\ At(r, "rename")
        /\ IF ~Reachable(tree, to) THEN Answer(r, "refused") /\ Keep
           ELSE IF ~Renamable(t, from, to)
                THEN Answer(r, "refused") /\ tree' = t /\ UNCHANGED pen
           ELSE \/ /\ tree' = Renamed(t, from, to)
                   /\ pen' = PensRenamed(from, to)
                   /\ Goto(r, "stat")
                \/ /\ "exdev" \in Enabled
                   /\ tree' = t
                   /\ req' = [req EXCEPT ![r].pc = "copy", ![r].todo = {from}]
                   /\ UNCHANGED pen
        /\ UNCHANGED rights

\* copyTree, entry by entry, in an order that is left open.
CopyNext(r, x) ==
    /\ At(r, "copy")
    /\ x \in req[r].todo
    /\ UNCHANGED rights

CopyTo(r, x) == Rebase(x, req[r].p, req[r].q)

CanCopyDir(r, x) ==
    /\ IsDir(tree, x)
    /\ Reachable(tree, CopyTo(r, x))
    /\ tree[CopyTo(r, x)] \in {Absent, Dir}

CanCopyFile(r, x) ==
    /\ IsFile(tree, x)
    /\ IsDir(tree, Parent(CopyTo(r, x)))
    /\ tree[CopyTo(r, x)] # Dir

\* copyDir: the directory and its parents are made, its entries are read.
CopyDir(r, x) ==
    LET to == CopyTo(r, x)
    IN  /\ CopyNext(r, x)
        /\ CanCopyDir(r, x)
        /\ tree' = Put(Reached(tree, to), to, Dir)
        /\ req' = [req EXCEPT ![r].todo = (@ \ {x}) \cup Children(tree, x)]
        /\ UNCHANGED pen

\* copyFile: both files are opened; what is read is what the source is now.
CopyFile(r, x) ==
    LET to == CopyTo(r, x)
    IN  /\ CopyNext(r, x)
        /\ CanCopyFile(r, x)
        /\ OpenFor(r, tree, to, tree[x].body)
        /\ req' = [req EXCEPT ![r].pc = "pour", ![r].item = tree[x], ![r].todo = @ \ {x}]

\* The entry has gone, or something is in the way of its copy.
CopyFails(r, x) ==
    /\ CopyNext(r, x)
    /\ ~CanCopyDir(r, x) /\ ~CanCopyFile(r, x)
    /\ Goto(r, "undo")
    /\ Keep

CopyPour(r) ==
    /\ At(r, "pour")
    /\ Fill(r, req[r].item)
    /\ Goto(r, "copy")
    /\ UNCHANGED rights

\* The disk is full, or the file cannot be read.
CopyBroken(r) ==
    /\ "broken" \in Enabled
    /\ At(r, "pour")
    /\ pen' = [pen EXCEPT ![r] = Absent]
    /\ Goto(r, "undo")
    /\ UNCHANGED <<tree, rights>>

\* The partial copy is cleaned up.
CopyUndo(r) ==
    /\ At(r, "undo")
    /\ Remove(req[r].q)
    /\ Answer(r, "refused")
    /\ UNCHANGED rights

CopyDone(r) ==
    /\ At(r, "copy")
    /\ req[r].todo = {}
    /\ Remove(req[r].p)
    /\ Goto(r, "stat")
    /\ UNCHANGED rights

\* Move ends with a Stat of the destination.
MoveStat(r) ==
    /\ At(r, "stat")
    /\ IF tree[req[r].q] = Absent THEN Answer(r, "refused") ELSE Goto(r, "relabel")
    /\ Keep
    /\ UNCHANGED rights

\* RenamePrivate rewrites the rows one by one and stops at the first whose new path
\* is marked already; the copy is the table from then on.
MoveRelabel(r) ==
    LET from  == req[r].p
        to    == req[r].q
        rows  == {d \in Path : Under(from, d) /\ marks[d] # Nobody}
        clear == {d \in rows : marks[Rebase(d, from, to)] = Nobody}
    IN  /\ At(r, "relabel")
        /\ \E done \in IF clear = rows THEN {rows} ELSE SUBSET clear :
            marks' = [d \in Path |->
                        IF d \in done THEN Nobody
                        ELSE IF Under(to, d) /\ Rebase(d, to, from) \in done
                        THEN marks[Rebase(d, to, from)] ELSE marks[d]]
        /\ req' = [Lived(policy, marks') EXCEPT ![r].pc = "idle", ![r].code = "ok"]
        /\ UNCHANGED <<policy, users, edit>>
        /\ Keep

-----------------------------------------------------------------------------
(* What happens around the requests *)

\* handleSetPolicy: the row is read by every request.
SetPolicy(new) ==
    /\ "policy" \in Enabled
    /\ new # policy
    /\ policy' = new
    /\ req' = Lived(new, marks)
    /\ UNCHANGED <<users, marks, edit>>
    /\ Keep

\* handleSetPrivate and handleUnsetPrivate, once the engine has reloaded.
SetMark(d, owner) ==
    /\ "mark" \in Enabled
    /\ owner # marks[d]
    /\ marks' = [marks EXCEPT ![d] = owner]
    /\ req' = Lived(policy, marks')
    /\ UNCHANGED <<policy, users, edit>>
    /\ Keep

\* handleDeleteUser: the marks go with the account.
DeleteAccount(u) ==
    /\ "account" \in Enabled
    /\ u \in users \ Admins
    /\ users' = users \ {u}
    /\ marks' = [d \in Path |-> IF marks[d] = u THEN Nobody ELSE marks[d]]
    /\ req' = Lived(policy, marks')
    /\ UNCHANGED <<policy, edit>>
    /\ Keep

\* 15 minutes.
Expire(p) ==
    /\ "expire" \in Enabled
    /\ p \in edit
    /\ edit' = edit \ {p}
    /\ UNCHANGED <<policy, users, marks, req>>
    /\ Keep

\* The process stops and starts again: the key of the tokens survives, requests
\* and open files do not.
Crash ==
    /\ "crash" \in Enabled
    /\ pen' = [r \in Req |-> Absent]
    /\ req' = [r \in Req |-> [req[r] EXCEPT !.pc = "idle", !.todo = {}]]
    /\ UNCHANGED <<tree, rights>>

-----------------------------------------------------------------------------
Init ==
    /\ tree \in Start
    /\ pen = [r \in Req |-> Absent]
    /\ policy \in Policy
    /\ users = User
    /\ marks = [d \in Path |-> Nobody]
    /\ edit = {}
    /\ \E p \in Path :
        req = [r \in Req |->
                [pc |-> "idle", kind |-> "read", id |-> Guest, p |-> p, q |-> p,
                 body |-> Empty, some |-> FALSE, todo |-> {}, item |-> Whole(Empty), code |-> "none",
                 shown |-> {}, public |-> FALSE, shut |-> FALSE, met |-> "none"]]

Call(r, cookie, p) ==
    \/ ReadArrive(r, cookie, p)
    \/ \E kind \in Kind : CreateArrive(r, cookie, kind, p)
    \/ \E q \in Path : DeleteArrive(r, cookie, p, q) \/ MoveArrive(r, cookie, p, q)
    \/ \E b \in Body : SaveArrive(r, cookie, p, b) \/ SaveByToken(r, p, b)

Continue(r) ==
    \/ ReadOpen(r) \/ Check(r) \/ MakeDir(r) \/ MakeFile(r)
    \/ SaveStage(r) \/ SaveBody(r) \/ SavePlace(r)
    \/ DeleteLook(r) \/ DeleteTree(r) \/ DeletePurge(r)
    \/ MoveLook(r) \/ MoveRename(r) \/ MoveStat(r) \/ MoveRelabel(r)
    \/ \E x \in Name : CopyDir(r, x) \/ CopyFile(r, x) \/ CopyFails(r, x)
    \/ CopyPour(r) \/ CopyUndo(r) \/ CopyDone(r)

Broken(r) == SaveBroken(r) \/ CopyBroken(r)

Around ==
    \/ \E new \in Policy : SetPolicy(new)
    \/ \E d \in Path, owner \in User \cup {Nobody} : SetMark(d, owner)
    \/ \E u \in User : DeleteAccount(u)
    \/ \E p \in Path : Expire(p)

Next ==
    \/ \E r \in Req : Continue(r) \/ Broken(r)
    \/ \E r \in Req, cookie \in User \cup {Guest}, p \in Path : Call(r, cookie, p)
    \/ Around
    \/ Crash

Spec == Init /\ [][Next]_vars

-----------------------------------------------------------------------------
(* Properties *)

\* Every state is of the kind the code can be in: a directory has its parents, a
\* file being written is there and is the one its request opened.
TypeOK ==
    /\ IsTree(tree)
    /\ pen \in [Req -> Name \cup {Absent}]
    /\ \A r \in Req : pen[r] # Absent =>
        /\ IsFile(tree, pen[r])
        /\ req[r].pc \in {"body", "pour"}
    /\ policy \in Policy
    /\ users \subseteq User
    /\ Admins \subseteq users
    /\ marks \in [Path -> User \cup {Nobody}]
    /\ edit \subseteq Path
    /\ req \in [Req -> Request]

\* No handler acts on a path that was hidden from whoever asked during the whole
\* request, that is outside their scope, or, for a guest, when the policy was never
\* the public one meanwhile: the paths of both ends of a move and the one in an edit
\* token included (auth.go:292, admin.go:149).
GroundsForChange ==
    \A r \in Req :
        req[r].kind # "read" /\ ~(At(r, "idle") \/ At(r, "check")) =>
            /\ Targets(r) \subseteq req[r].shown
            /\ req[r].id = Guest => req[r].public
            /\ req[r].id \in User \ Admins =>
                \A p \in Targets(r) : InsideScope(req[r].id, p)

TellsNothing(r) ==
    req[r].code \in {"ok", "exists", "partial"} =>
        /\ Targets(r) \subseteq req[r].shown
        /\ req[r].id = Guest => ~req[r].shut

\* Whether there is something at a path is told to nobody it was hidden from during
\* the whole request, and to no guest of a private server (auth.go:343).
HiddenLooksMissing == \A r \in Req : TellsNothing(r)

\* Nobody changes or learns of anything without the right to it at some moment of the
\* request, although rights are checked first and may change meanwhile (admin.go:36).
RightsHold == GroundsForChange /\ HiddenLooksMissing

Steps(r) == req'[r] # req[r]

\* A whole file goes away only by a deletion of it or of a directory it is in, by a
\* save of the same path, which puts its whole body there unless its temporary file was
\* moved away meanwhile (README, section 8), or by a move: one that
\* overlaps with nothing takes the file along, to the same place below the
\* destination, or puts its copy away with the original in place, whether the move is
\* a rename or a copy and whatever fails (local.go:643).  One that overlaps with another
\* request touches what is below its two ends and the file it has open, which a rename
\* of that request may have taken elsewhere.
NothingElseIsLost ==
    [][\A x \in Path :
        IsFile(tree, x) /\ tree[x].whole /\ tree'[x] # tree[x] =>
            \E r \in Req :
                /\ ~Idle(r) /\ Steps(r)
                /\ \/ req[r].kind = "delete" /\ Under(req[r].p, x)
                   \/ /\ req[r].kind = "save"
                      /\ x = req[r].p
                      /\ tree'[x] = Whole(req[r].body) \/ req[r].met = "move"
                   \/ /\ req[r].kind = "move"
                      /\ IF req[r].met = "none"
                         THEN \/ /\ Under(req[r].p, x)
                                 /\ tree'[Rebase(x, req[r].p, req[r].q)] = tree[x]
                              \/ /\ Under(req[r].q, x)
                                 /\ tree'[Rebase(x, req[r].q, req[r].p)] = tree[x]
                         ELSE Under(req[r].p, x) \/ Under(req[r].q, x) \/ x = pen[r]]_vars

\* A file that is incomplete appears below the destination of a move and nowhere
\* else: a save that overlaps with no move shows either the old file or the whole new
\* one (local.go:685).
OnlyCopiesArePartial ==
    [][\A x \in Path :
        IsFile(tree', x) /\ ~tree'[x].whole /\ tree'[x] # tree[x] =>
            \E r \in Req :
                /\ ~Idle(r) /\ Steps(r)
                /\ \/ req[r].kind = "move" /\ (Under(req[r].q, x) \/ req[r].met = "move")
                   \/ req[r].kind = "save" /\ x = req[r].p /\ req[r].met = "move"]_vars
=============================================================================
