------------------------------ MODULE Accounts ------------------------------
(***************************************************************************)
(* Accounts: the users table (internal/store), the rules the account       *)
(* manager adds (internal/auth), and the handlers that run several         *)
(* statements for one request (internal/api/users.go, auth.go).            *)
(*                                                                         *)
(* Every statement is a transaction of its own; two requests interleave    *)
(* between statements.  A request carries what it has read along with it.  *)
(***************************************************************************)
EXTENDS Naturals, FiniteSets

CONSTANTS
    MaxId,    \* bound: accounts ever created
    MaxSessions, \* bound: tokens followed
    Name,     \* usernames
    Admin,    \* the username "admin"
    Scope,    \* scopes an account can have
    Whole,    \* the empty scope: the whole root
    Bodies,   \* bodies of a patch; a field that is not given is None
    Password, \* passwords that are long enough
    Req,      \* requests handled at the same time
    Enabled,  \* which of "setup", "create", "update", "delete", "change",
              \* "login", "restart", "seed" happen
    None      \* not given; no row

ASSUME NamesAssumption == Admin \in Name /\ None \notin Name
ASSUME OptionsAssumption ==
    None \notin Scope /\ None \notin Password /\ None \notin BOOLEAN
ASSUME BodiesAssumption ==
    Bodies \subseteq [name : Name \cup {None}, admin : BOOLEAN \cup {None},
                      scope : Scope \cup {None}, pw : Password \cup {None}]
ASSUME WholeAssumption == Whole \in Scope
ASSUME BoundsAssumption == MaxId \in Nat /\ MaxSessions \in Nat

VARIABLES
    users,    \* the table: id -> row, or None
    last,     \* the highest id ever given out (AUTOINCREMENT)
    born,     \* accounts created so far (history)
    sessions, \* <<id, who>>: signed tokens and the account they were made for
    up,       \* the process serves requests
    req       \* request -> where its handler stands

vars == <<users, last, born, sessions, up, req>>

Id == 1 .. MaxId

\* who tells accounts apart even if they had the same id (history).
Row == [name : Name, admin : BOOLEAN, scope : Scope, pw : Password,
        original : BOOLEAN, who : Nat]

ASSUME RowsAssumption == None \notin Row

Pc == {"idle", "password", "rename", "load", "check", "count", "write",
       "last", "delete", "lookup", "reset", "insert", "mint"}

\* The body of the request (None for a field that is not given, or done with);
\* newAdmin and newScope are what patchUserAttributes decided to write; lone: no
\* other request was ever in progress at the same time (history).
Request ==
    [pc : Pc, id : Id \cup {None}, name : Name \cup {None},
     admin : BOOLEAN \cup {None}, scope : Scope \cup {None},
     pw : Password \cup {None},
     newAdmin : BOOLEAN \cup {None}, newScope : Scope \cup {None},
     lone : BOOLEAN]

Idle == [pc |-> "idle", id |-> None, name |-> None, admin |-> None,
         scope |-> None, pw |-> None,
         newAdmin |-> None, newScope |-> None, lone |-> FALSE]

TypeOK ==
    /\ users \in [Id -> Row \cup {None}]
    /\ last \in 0 .. MaxId
    /\ born \in Nat
    /\ sessions \subseteq Id \X Nat
    /\ up \in BOOLEAN
    /\ req \in [Req -> Request]

Init ==
    /\ users = [i \in Id |-> None]
    /\ last = 0
    /\ born = 0
    /\ sessions = {}
    /\ up = TRUE
    /\ req = [r \in Req |-> Idle]

-----------------------------------------------------------------------------
(* The table *)

Accounts == {i \in Id : users[i] # None}
AdminIds == {i \in Accounts : users[i].admin}
Originals == {i \in Accounts : users[i].original}
Named(n) == {i \in Accounts : users[i].name = n}

\* CountAdmins() <= 1
LastAdmin == Cardinality(AdminIds) <= 1

\* Slip for SessionsKeepTheirAccount: INTEGER PRIMARY KEY without AUTOINCREMENT.
SlipInsert(name, admin, scope, pw, original) ==
    \E i \in Id :
        /\ i - 1 \in Accounts \cup {0}
        /\ \A j \in Accounts : j < i
        /\ users' = [users EXCEPT ![i] =
              [name |-> name, admin |-> admin, scope |-> scope, pw |-> pw,
               original |-> original, who |-> born + 1]]
        /\ last' = i
        /\ born' = born + 1

\* INSERT INTO users: the id is one no account ever had.
Insert(name, admin, scope, pw, original) ==
    /\ last < MaxId
    /\ users' = [users EXCEPT ![last + 1] =
          [name |-> name, admin |-> admin, scope |-> scope, pw |-> pw,
           original |-> original, who |-> born + 1]]
    /\ last' = last + 1
    /\ born' = born + 1

At(r, pc) == up /\ req[r].pc = pc

Answer(r) == req' = [req EXCEPT ![r] = Idle]

Goto(r, pc) == req' = [req EXCEPT ![r].pc = pc]

\* The request of r begins with body q, if there is anything to do.
Begin(r, q) ==
    /\ At(r, "idle")
    /\ req' = [x \in Req |->
                IF x = r
                THEN IF q = Idle THEN Idle
                     ELSE [q EXCEPT !.lone = \A y \in Req : req[y].pc = "idle"]
                ELSE [req[x] EXCEPT !.lone = FALSE]]

-----------------------------------------------------------------------------
(* POST /api/auth/setup: handleAuthSetup, Setup, CreateOriginal             *)

\* Initialized is asked for, then the password is hashed.
SetupCheck(r, pw) ==
    /\ "setup" \in Enabled
    /\ Accounts = {}
    /\ Begin(r, [Idle EXCEPT !.pc = "lookup", !.pw = pw])
    /\ UNCHANGED <<users, last, born, sessions, up>>

SetupLookup(r) ==
    /\ At(r, "lookup")
    /\ \/ /\ Named(Admin) = {}
          /\ Goto(r, "insert")
       \/ \E i \in Named(Admin) :
          IF users[i].original
          THEN req' = [req EXCEPT ![r].pc = "reset", ![r].id = i]
          ELSE Answer(r)
    /\ UNCHANGED <<users, last, born, sessions, up>>

\* The account exists already: its password is set.
SetupReset(r) ==
    /\ At(r, "reset")
    /\ users' = IF users[req[r].id] = None THEN users
                ELSE [users EXCEPT ![req[r].id].pw = req[r].pw]
    /\ IF users[req[r].id] = None THEN Answer(r)
       ELSE req' = [req EXCEPT ![r] = [Idle EXCEPT !.pc = "mint", !.lone = req[r].lone]]
    /\ UNCHANGED <<last, born, sessions, up>>

\* Bound: at MaxId the insertion fails as it does on a taken name.
SetupInsert(r) ==
    /\ At(r, "insert")
    /\ \/ /\ Named(Admin) = {}
          /\ Insert(Admin, TRUE, Whole, req[r].pw, TRUE)
          /\ req' = [req EXCEPT ![r] = [Idle EXCEPT !.pc = "mint", !.lone = req[r].lone]]
       \/ /\ Named(Admin) # {} \/ last = MaxId
          /\ Answer(r)
          /\ UNCHANGED <<users, last, born>>
    /\ UNCHANGED <<sessions, up>>

\* A token for account id.  Bound: MaxSessions tokens are followed.
Mint(id) ==
    \/ /\ Cardinality(sessions) < MaxSessions
       /\ sessions' = sessions \cup {<<id, users[id].who>>}
    \/ UNCHANGED sessions

\* SessionAfterSetup: whoever is called admin by now.
SetupMint(r) ==
    /\ At(r, "mint")
    /\ \/ \E i \in Named(Admin) : Mint(i)
       \/ Named(Admin) = {} /\ UNCHANGED sessions
    /\ Answer(r)
    /\ UNCHANGED <<users, last, born, up>>

-----------------------------------------------------------------------------
(* POST /api/users: handleCreateUser.  Admin-only, like the two that follow *)
(* it; a taken username is answered 409.                                    *)

CreateUser(name, admin, scope, pw) ==
    /\ "create" \in Enabled
    /\ up
    /\ AdminIds # {}
    /\ Named(name) = {}
    /\ Insert(name, admin, scope, pw, FALSE)
    /\ UNCHANGED <<sessions, up, req>>

-----------------------------------------------------------------------------
(* PATCH /api/users/{id}: handleUpdateUser: first the password, then the    *)
(* name, then the attributes, each only when given.                         *)

AfterRename(q) ==
    IF q.admin # None \/ q.scope # None
    THEN [q EXCEPT !.pc = "load", !.name = None] ELSE Idle

AfterPassword(q) ==
    IF q.name # None THEN [q EXCEPT !.pc = "rename", !.pw = None]
    ELSE AfterRename([q EXCEPT !.pw = None])

\* Bound: the bodies are those of Bodies.
UpdateCall(r, id, body) ==
    LET q == [Idle EXCEPT !.id = id, !.name = body.name, !.admin = body.admin,
                          !.scope = body.scope, !.pw = body.pw]
    IN  /\ "update" \in Enabled
        /\ AdminIds # {}
        /\ Begin(r, IF q.pw # None THEN [q EXCEPT !.pc = "password"] ELSE AfterPassword(q))
        /\ UNCHANGED <<users, last, born, sessions, up>>

\* AdminSetPassword, and the end of ChangePassword.
SetPassword(r) ==
    LET id == req[r].id
    IN  /\ At(r, "password")
        /\ \/ /\ id \in Accounts
              /\ users' = [users EXCEPT ![id].pw = req[r].pw]
              /\ req' = [req EXCEPT ![r] = AfterPassword(@)]
           \/ /\ id \notin Accounts
              /\ Answer(r)
              /\ UNCHANGED users
        /\ UNCHANGED <<last, born, sessions, up>>

\* RenameUser.  (Its reads change nothing the UPDATE does not decide again.)
Rename(r) ==
    LET id == req[r].id
        n  == req[r].name
    IN  /\ At(r, "rename")
        /\ \/ /\ id \in Accounts
              /\ Named(n) \subseteq {id}
              /\ users' = [users EXCEPT ![id].name = n]
              /\ req' = [req EXCEPT ![r] = AfterRename(@)]
           \/ /\ id \notin Accounts \/ ~(Named(n) \subseteq {id})
              /\ Answer(r)
              /\ UNCHANGED users
        /\ UNCHANGED <<last, born, sessions, up>>

\* patchUserAttributes reads the row and fills in what is not given.
PatchLoad(r) ==
    LET q == req[r]
    IN  /\ At(r, "load")
        /\ \/ /\ q.id \in Accounts
              /\ req' = [req EXCEPT ![r].pc = "check",
                    ![r].newAdmin = IF q.admin # None THEN q.admin ELSE users[q.id].admin,
                    ![r].newScope = IF q.scope # None THEN q.scope ELSE users[q.id].scope]
           \/ /\ q.id \notin Accounts
              /\ Answer(r)
        /\ UNCHANGED <<users, last, born, sessions, up>>

\* Store.UpdateUser reads the row again: a demotion has to be checked.
PatchCheck(r) ==
    LET id == req[r].id
    IN  /\ At(r, "check")
        /\ \/ /\ id \in Accounts
              /\ Goto(r, IF users[id].admin /\ ~req[r].newAdmin THEN "count" ELSE "write")
           \/ /\ id \notin Accounts
              /\ Answer(r)
        /\ UNCHANGED <<users, last, born, sessions, up>>

\* Slip for LastAdminStays: n < 1 instead of n <= 1.
SlipPatchCount(r) ==
    /\ At(r, "count")
    /\ IF AdminIds = {} THEN Answer(r) ELSE Goto(r, "write")
    /\ UNCHANGED <<users, last, born, sessions, up>>

PatchCount(r) ==
    /\ At(r, "count")
    /\ IF LastAdmin THEN Answer(r) ELSE Goto(r, "write")
    /\ UNCHANGED <<users, last, born, sessions, up>>

PatchWrite(r) ==
    LET q == req[r]
    IN  /\ At(r, "write")
        /\ users' = IF q.id \notin Accounts THEN users
                    ELSE [users EXCEPT ![q.id].admin = q.newAdmin,
                                       ![q.id].scope = q.newScope]
        /\ Answer(r)
        /\ UNCHANGED <<last, born, sessions, up>>

-----------------------------------------------------------------------------
(* DELETE /api/users/{id}: handleDeleteUser, Store.DeleteUser               *)

\* Slip for OriginalStays: the original is deleted when it is no administrator.
SlipDeleteLoad(r, id) ==
    /\ "delete" \in Enabled
    /\ AdminIds # {}
    /\ id \in Accounts
    /\ users[id].original => ~users[id].admin
    /\ Begin(r, [Idle EXCEPT !.pc = IF users[id].admin THEN "last" ELSE "delete", !.id = id])
    /\ UNCHANGED <<users, last, born, sessions, up>>

DeleteLoad(r, id) ==
    /\ "delete" \in Enabled
    /\ AdminIds # {}
    /\ id \in Accounts
    /\ ~users[id].original
    /\ Begin(r, [Idle EXCEPT !.pc = IF users[id].admin THEN "last" ELSE "delete", !.id = id])
    /\ UNCHANGED <<users, last, born, sessions, up>>

DeleteCount(r) ==
    /\ At(r, "last")
    /\ IF LastAdmin THEN Answer(r) ELSE Goto(r, "delete")
    /\ UNCHANGED <<users, last, born, sessions, up>>

DeleteRow(r) ==
    /\ At(r, "delete")
    /\ users' = [users EXCEPT ![req[r].id] = None]
    /\ Answer(r)
    /\ UNCHANGED <<last, born, sessions, up>>

-----------------------------------------------------------------------------
(* POST /api/auth/password: handleAuthPassword by the account itself        *)

\* ChangePassword compares the current password and hashes the new one.
ChangeCheck(r, id, old, pw, name) ==
    /\ "change" \in Enabled
    /\ id \in Accounts
    /\ users[id].pw = old
    /\ Begin(r, [Idle EXCEPT !.pc = "password", !.id = id, !.pw = pw, !.name = name])
    /\ UNCHANGED <<users, last, born, sessions, up>>

-----------------------------------------------------------------------------
(* POST /api/auth/login: Login with the right password, then newSession.    *)

\* newSession follows from the row Login compared with; no statement of another
\* request can tell the two apart, so they are one step here.
Login(id) ==
    /\ "login" \in Enabled
    /\ up
    /\ id \in Accounts
    /\ Mint(id)
    /\ UNCHANGED <<users, last, born, up, req>>

-----------------------------------------------------------------------------
(* The process stops and starts again.  Tokens stay valid, the key is on    *)
(* disk.  With FILEBROWSER_ADMIN_PASSWORD set auth.New calls CreateOriginal, *)
(* and the process does not come up when that fails.                        *)

Restart ==
    /\ "restart" \in Enabled
    /\ req' = [r \in Req |-> Idle]
    /\ \/ /\ up' = TRUE
          /\ UNCHANGED <<users, last, born>>
       \/ /\ "seed" \in Enabled
          /\ \E pw \in Password :
                \/ /\ Named(Admin) = {}
                   /\ up' = TRUE
                   /\ Insert(Admin, TRUE, Whole, pw, TRUE)
                \/ \E i \in Named(Admin) :
                   /\ up' = users[i].original
                   /\ users' = IF users[i].original
                               THEN [users EXCEPT ![i].pw = pw] ELSE users
                   /\ UNCHANGED <<last, born>>
    /\ UNCHANGED sessions

-----------------------------------------------------------------------------
Call(r) ==
    \/ \E pw \in Password : SetupCheck(r, pw)
    \/ \E id \in Id :
        \/ \E body \in Bodies : UpdateCall(r, id, body)
        \/ DeleteLoad(r, id)
        \/ \E old, pw \in Password, name \in Name \cup {None} :
                ChangeCheck(r, id, old, pw, name)

Continue(r) ==
    \/ SetupLookup(r)
    \/ SetupReset(r)
    \/ SetupInsert(r)
    \/ SetupMint(r)
    \/ SetPassword(r)
    \/ Rename(r)
    \/ PatchLoad(r)
    \/ PatchCheck(r)
    \/ PatchCount(r)
    \/ PatchWrite(r)
    \/ DeleteCount(r)
    \/ DeleteRow(r)

Next ==
    \/ \E r \in Req : Call(r) \/ Continue(r)
    \/ \E name \in Name, admin \in BOOLEAN, scope \in Scope, pw \in Password :
            CreateUser(name, admin, scope, pw)
    \/ \E id \in Id : Login(id)
    \/ Restart

Spec == Init /\ [][Next]_vars

-----------------------------------------------------------------------------
(* Properties *)

\* store.go:251, store.go:304: the last admin is neither demoted nor deleted, by a
\* request that no other overlaps, however the accounts came about (the count and
\* the statement it guards are two transactions).
LastAdminStays ==
    [][\A r \in Req : (PatchWrite(r) \/ DeleteRow(r)) /\ req[r].lone =>
            (AdminIds # {} => AdminIds' # {})]_vars

\* users.go:120: a patch that no other request overlaps changes the attributes it
\* gives and no other, so that a rename never demotes an admin and a new scope
\* never makes one.
PatchKeepsOthers ==
    [][\A r \in Req : PatchWrite(r) /\ req[r].lone =>
            LET i == req[r].id
            IN  /\ req[r].admin = None => users'[i].admin = users[i].admin
                /\ req[r].scope = None => users'[i].scope = users[i].scope]_vars

\* The original admin is never deleted, however requests overlap.
OriginalStays == [][Originals \subseteq Originals']_vars

\* store.go:304 relies on ids that are never used again: whatever is created and
\* deleted, a session (and a private folder) of one account never passes to
\* another one.
SessionsKeepTheirAccount ==
    \A s \in sessions : users[s[1]] # None => users[s[1]].who = s[2]
=============================================================================
