--------------------------- MODULE Accounts_proofs ---------------------------
(***************************************************************************)
(* Proofs about Accounts, for any number of accounts and requests.         *)
(*                                                                         *)
(* What a property says of one statement depends on what the request read  *)
(* in earlier ones.  The invariant says what a request knows at each point *)
(* (Knows: always; Checked: as long as no other request overlaps), and     *)
(* that a row, once made, keeps the account it was made for (Rows).        *)
(***************************************************************************)
EXTENDS Accounts, FiniteSetTheorems, TLAPS

\* What a request knows at the point it has come to, in table u with last id l.
Knows(q, u, l) ==
    /\ q.pc \in {"password", "rename", "load", "check", "count", "write",
                 "last", "delete", "reset"} => q.id \in Id
    /\ q.pc \in {"password", "reset", "lookup", "insert"} => q.pw \in Password
    /\ q.pc = "rename" => q.name \in Name
    /\ q.pc \in {"check", "count", "write"} => q.newAdmin \in BOOLEAN /\ q.newScope \in Scope
    /\ q.pc \in {"last", "delete"} =>
          q.id <= l /\ (u[q.id] # None => ~u[q.id].original)

AdminIn(u, i) == u[i] # None /\ u[i].admin
OtherAdmin(u, i) == \E j \in Id : j # i /\ AdminIn(u, j)

\* What it knows besides as long as it is alone.
Checked(q, u) ==
    /\ q.pc \in {"check", "count", "write"} =>
          /\ u[q.id] # None
          /\ q.admin = None => q.newAdmin = u[q.id].admin
          /\ q.scope = None => q.newScope = u[q.id].scope
    /\ q.pc = "write" /\ u[q.id].admin /\ ~q.newAdmin => OtherAdmin(u, q.id)
    /\ q.pc = "delete" /\ AdminIn(u, q.id) => OtherAdmin(u, q.id)

AllKnow == \A r \in Req : Knows(req[r], users, last)

Alone ==
    \A r \in Req : req[r].lone =>
        Checked(req[r], users) /\ \A x \in Req \ {r} : req[x].pc = "idle"

Rows ==
    /\ \A i \in Id : i > last => users[i] = None
    /\ \A s \in sessions : s[1] <= last

IInv == TypeOK /\ Rows /\ SessionsKeepTheirAccount /\ AllKnow /\ Alone

-----------------------------------------------------------------------------
(* Requests *)

\* Apart from where it stands, what a request carries.
LEMMA IdleType == /\ Idle \in Request /\ Idle.pc = "idle" /\ Idle.lone = FALSE
BY DEF Idle, Request, Pc

LEMMA PcOnly ==
    ASSUME NEW q \in Request, NEW pc \in Pc
    PROVE  /\ [q EXCEPT !.pc = pc] \in Request
           /\ [q EXCEPT !.pc = pc].pc = pc
           /\ [q EXCEPT !.pc = pc].id = q.id
           /\ [q EXCEPT !.pc = pc].name = q.name
           /\ [q EXCEPT !.pc = pc].admin = q.admin
           /\ [q EXCEPT !.pc = pc].scope = q.scope
           /\ [q EXCEPT !.pc = pc].pw = q.pw
           /\ [q EXCEPT !.pc = pc].newAdmin = q.newAdmin
           /\ [q EXCEPT !.pc = pc].newScope = q.newScope
           /\ [q EXCEPT !.pc = pc].lone = q.lone
BY DEF Request

LEMMA LoneOnly ==
    ASSUME NEW q \in Request, NEW lone \in BOOLEAN
    PROVE  /\ [q EXCEPT !.lone = lone] \in Request
           /\ [q EXCEPT !.lone = lone].pc = q.pc
           /\ [q EXCEPT !.lone = lone].id = q.id
           /\ [q EXCEPT !.lone = lone].name = q.name
           /\ [q EXCEPT !.lone = lone].admin = q.admin
           /\ [q EXCEPT !.lone = lone].scope = q.scope
           /\ [q EXCEPT !.lone = lone].pw = q.pw
           /\ [q EXCEPT !.lone = lone].newAdmin = q.newAdmin
           /\ [q EXCEPT !.lone = lone].newScope = q.newScope
           /\ [q EXCEPT !.lone = lone].lone = lone
BY DEF Request

\* Requests as they begin: a setup, a deletion, a change of password, a patch.
LEMMA NewRequest ==
    ASSUME NEW id \in Id \cup {None}, NEW name \in Name \cup {None},
           NEW admin \in BOOLEAN \cup {None}, NEW scope \in Scope \cup {None},
           NEW pw \in Password \cup {None}, NEW pc \in Pc, NEW lone \in BOOLEAN
    PROVE  /\ [Idle EXCEPT !.pc = pc, !.pw = pw] \in Request
           /\ [Idle EXCEPT !.pc = pc, !.id = id] \in Request
           /\ [Idle EXCEPT !.pc = pc, !.id = id, !.pw = pw, !.name = name] \in Request
           /\ [Idle EXCEPT !.id = id, !.name = name, !.admin = admin,
                           !.scope = scope, !.pw = pw] \in Request
           /\ [Idle EXCEPT !.pc = "mint", !.lone = lone] \in Request
<1>1. [Idle EXCEPT !.pc = pc, !.pw = pw] \in Request BY DEF Idle, Request, Pc
<1>2. [Idle EXCEPT !.pc = pc, !.id = id] \in Request BY DEF Idle, Request, Pc
<1>3. [Idle EXCEPT !.pc = pc, !.id = id, !.pw = pw, !.name = name] \in Request
  BY DEF Idle, Request, Pc
<1>4. [Idle EXCEPT !.id = id, !.name = name, !.admin = admin,
                   !.scope = scope, !.pw = pw] \in Request
  BY DEF Idle, Request, Pc
<1>5. [Idle EXCEPT !.pc = "mint", !.lone = lone] \in Request
  BY DEF Idle, Request, Pc
<1> QED BY <1>1, <1>2, <1>3, <1>4, <1>5

\* What is left of a patch: the name, the attributes, or nothing.
LEMMA AfterRenameType ==
    ASSUME NEW q \in Request
    PROVE  \/ AfterRename(q) = Idle
           \/ /\ AfterRename(q) \in Request
              /\ AfterRename(q).pc = "load"
              /\ AfterRename(q).id = q.id
              /\ AfterRename(q).lone = q.lone
BY DEF AfterRename, Request, Pc

LEMMA AfterPasswordType ==
    ASSUME NEW q \in Request
    PROVE  \/ AfterPassword(q) = Idle
           \/ /\ AfterPassword(q) \in Request
              /\ AfterPassword(q).pc \in {"rename", "load"}
              /\ AfterPassword(q).pc = "rename" => AfterPassword(q).name \in Name
              /\ AfterPassword(q).id = q.id
              /\ AfterPassword(q).lone = q.lone
<1>1. CASE q.name # None
  BY <1>1 DEF AfterPassword, Request, Pc
<1>2. CASE q.name = None
  <2>1. /\ [q EXCEPT !.pw = None] \in Request
        /\ [q EXCEPT !.pw = None].id = q.id
        /\ [q EXCEPT !.pw = None].lone = q.lone
    BY DEF Request
  <2>2. AfterPassword(q) = AfterRename([q EXCEPT !.pw = None])
    BY <1>2 DEF AfterPassword
  <2> QED BY <2>1, <2>2, AfterRenameType
<1> QED BY <1>1, <1>2

-----------------------------------------------------------------------------
(* The table *)

\* What a statement may do to the table: a row keeps account and rank for as long
\* as it is there, and a new one gets a new id.
RowStep ==
    /\ users' \in [Id -> Row \cup {None}]
    /\ last' \in 0 .. MaxId /\ last' >= last
    /\ born' \in Nat
    /\ \A i \in Id : i > last' => users'[i] = None
    /\ \A i \in Id : i <= last /\ users'[i] # None =>
          /\ users[i] # None
          /\ users'[i].who = users[i].who
          /\ users'[i].original = users[i].original

LEMMA NoStep ==
    ASSUME TypeOK, Rows, UNCHANGED <<users, last, born>>
    PROVE  RowStep
BY BoundsAssumption DEF TypeOK, Rows, RowStep

LEMMA InsertStep ==
    ASSUME TypeOK, Rows, NEW name \in Name, NEW admin \in BOOLEAN, NEW scope \in Scope,
           NEW pw \in Password, NEW original \in BOOLEAN,
           Insert(name, admin, scope, pw, original)
    PROVE  /\ RowStep
           /\ \A i \in Id : users[i] # None => users'[i] = users[i]
<1> DEFINE row == [name |-> name, admin |-> admin, scope |-> scope, pw |-> pw,
                   original |-> original, who |-> born + 1]
<1>1. row \in Row BY DEF Row, TypeOK
<1>2. /\ users' = [users EXCEPT ![last + 1] = row]
      /\ last' = last + 1 /\ last < MaxId /\ born' = born + 1
  BY DEF Insert
<1> HIDE DEF row
<1>3. last \in Nat /\ born \in Nat /\ users \in [Id -> Row \cup {None}]
  BY BoundsAssumption DEF TypeOK
<1>4. last + 1 \in Id /\ last' \in 0 .. MaxId /\ users[last + 1] = None
  BY <1>2, <1>3, BoundsAssumption DEF Id, Rows
<1>5. \A i \in Id : i # last + 1 => users'[i] = users[i] BY <1>2, <1>3
<1>6. users' \in [Id -> Row \cup {None}] BY <1>1, <1>2, <1>3
<1>7. \A i \in Id : i \in Nat BY DEF Id
<1>8. \A i \in Id : i > last' => users'[i] = None BY <1>2, <1>3, <1>5, <1>7 DEF Rows
<1>9. \A i \in Id : i <= last => users'[i] = users[i] BY <1>3, <1>5, <1>7
<1> QED BY <1>2, <1>3, <1>4, <1>5, <1>6, <1>8, <1>9 DEF RowStep

\* An UPDATE of a row that leaves account and rank as they are.
LEMMA UpdateStep ==
    ASSUME TypeOK, Rows, NEW id \in Id, users[id] # None, NEW row \in Row,
           row.who = users[id].who, row.original = users[id].original,
           users' = [users EXCEPT ![id] = row], UNCHANGED <<last, born>>
    PROVE  /\ RowStep
           /\ users'[id] = row /\ users'[id] # None
           /\ \A i \in Id \ {id} : users'[i] = users[i]
<1>1. users \in [Id -> Row \cup {None}] /\ last \in 0 .. MaxId /\ born \in Nat
  BY DEF TypeOK
<1>2. /\ users' \in [Id -> Row \cup {None}]
      /\ users'[id] = row /\ row # None
      /\ \A i \in Id \ {id} : users'[i] = users[i]
  BY <1>1, RowsAssumption
<1>3. \A i \in Id : i > last => users'[i] = None BY <1>2 DEF Rows
<1> QED BY <1>1, <1>2, <1>3, BoundsAssumption DEF RowStep

LEMMA DeleteStep ==
    ASSUME TypeOK, Rows, NEW id \in Id,
           users' = [users EXCEPT ![id] = None], UNCHANGED <<last, born>>
    PROVE  RowStep /\ \A i \in Id \ {id} : users'[i] = users[i]
<1>1. users \in [Id -> Row \cup {None}] /\ last \in 0 .. MaxId /\ born \in Nat
  BY DEF TypeOK
<1>2. /\ users' \in [Id -> Row \cup {None}]
      /\ users'[id] = None
      /\ \A i \in Id \ {id} : users'[i] = users[i]
  BY <1>1
<1> QED BY <1>1, <1>2, BoundsAssumption DEF RowStep, Rows

\* Fields of a row that are written one at a time.
LEMMA PasswordField ==
    ASSUME NEW row \in Row, NEW pw \in Password
    PROVE  /\ [row EXCEPT !.pw = pw] \in Row
           /\ [row EXCEPT !.pw = pw].who = row.who
           /\ [row EXCEPT !.pw = pw].original = row.original
BY DEF Row

LEMMA NameField ==
    ASSUME NEW row \in Row, NEW name \in Name
    PROVE  /\ [row EXCEPT !.name = name] \in Row
           /\ [row EXCEPT !.name = name].who = row.who
           /\ [row EXCEPT !.name = name].original = row.original
BY DEF Row

LEMMA AttributeFields ==
    ASSUME NEW row \in Row, NEW admin \in BOOLEAN, NEW scope \in Scope
    PROVE  /\ [row EXCEPT !.admin = admin, !.scope = scope] \in Row
           /\ [row EXCEPT !.admin = admin, !.scope = scope].who = row.who
           /\ [row EXCEPT !.admin = admin, !.scope = scope].original = row.original
           /\ [row EXCEPT !.admin = admin, !.scope = scope].admin = admin
           /\ [row EXCEPT !.admin = admin, !.scope = scope].scope = scope
BY DEF Row

\* A step on the table takes nothing from what a request knows.
LEMMA KnowsKept ==
    ASSUME TypeOK, RowStep, NEW r \in Req, Knows(req[r], users, last)
    PROVE  Knows(req[r], users', last')
<1>1. req[r].pc \in {"last", "delete"} =>
        /\ req[r].id <= last'
        /\ users'[req[r].id] # None => ~users'[req[r].id].original
  <2> SUFFICES ASSUME req[r].pc \in {"last", "delete"}
               PROVE  /\ req[r].id <= last'
                      /\ users'[req[r].id] # None => ~users'[req[r].id].original
    OBVIOUS
  <2>1. /\ req[r].id \in Id /\ req[r].id \in Nat /\ req[r].id <= last
        /\ users[req[r].id] # None => ~users[req[r].id].original
    BY DEF Knows, Id
  <2>2. last \in Nat /\ last' \in Nat /\ last' >= last
    BY BoundsAssumption DEF TypeOK, RowStep
  <2> QED BY <2>1, <2>2 DEF RowStep
<1> QED BY <1>1 DEF Knows

\* Sessions and free ids survive it.
LEMMA RowsKept ==
    ASSUME TypeOK, Rows, SessionsKeepTheirAccount, RowStep, sessions' = sessions
    PROVE  Rows' /\ SessionsKeepTheirAccount'
<1>1. \A s \in sessions : s[1] \in Id /\ s[1] \in Nat /\ s[1] <= last
  BY DEF TypeOK, Rows, Id
<1>2. last \in Nat /\ last' \in Nat /\ last' >= last
  BY BoundsAssumption DEF TypeOK, RowStep
<1>3. Rows' BY <1>1, <1>2 DEF Rows, RowStep
<1>4. SessionsKeepTheirAccount' BY <1>1 DEF SessionsKeepTheirAccount, RowStep
<1> QED BY <1>3, <1>4

\* A token is made for the account that has the id.
LEMMA MintKeeps ==
    ASSUME TypeOK, Rows, SessionsKeepTheirAccount, NEW id \in Accounts, Mint(id),
           UNCHANGED <<users, last>>
    PROVE  Rows' /\ SessionsKeepTheirAccount' /\ sessions' \subseteq Id \X Nat
<1>1. id \in Id /\ users[id] # None /\ users[id] \in Row BY DEF Accounts, TypeOK
<1>2. users[id].who \in Nat BY <1>1 DEF Row
<1>3. id <= last
  <2>1. id \in Nat /\ last \in Nat BY <1>1, BoundsAssumption DEF Id, TypeOK
  <2> QED BY <1>1, <2>1 DEF Rows
<1>4. CASE sessions' = sessions BY <1>4 DEF TypeOK, Rows, SessionsKeepTheirAccount
<1>5. CASE sessions' = sessions \cup {<<id, users[id].who>>}
  <2>1. sessions' \subseteq Id \X Nat BY <1>1, <1>2, <1>5 DEF TypeOK
  <2>2. Rows' BY <1>3, <1>5 DEF Rows
  <2>3. SessionsKeepTheirAccount' BY <1>5 DEF SessionsKeepTheirAccount
  <2> QED BY <2>1, <2>2, <2>3
<1> QED BY <1>4, <1>5 DEF Mint

\* More than one admin: besides any account there is another one.
LEMMA NotTheLast ==
    ASSUME ~LastAdmin, NEW id
    PROVE  OtherAdmin(users, id)
<1> SUFFICES ASSUME ~OtherAdmin(users, id) PROVE LastAdmin OBVIOUS
<1>1. AdminIds \subseteq {id} BY DEF AdminIds, Accounts, OtherAdmin, AdminIn
<1>2. IsFiniteSet({id}) /\ Cardinality({id}) = 1 BY FS_Singleton
<1>3. Cardinality(AdminIds) <= 1 BY <1>1, <1>2, FS_Subset
<1> QED BY <1>3 DEF LastAdmin

-----------------------------------------------------------------------------
(* A request begins, goes on, and is answered *)

LEMMA BeginKeeps ==
    ASSUME TypeOK, AllKnow, Alone, UNCHANGED <<users, last>>,
           NEW r \in Req, NEW q \in Request, Begin(r, q),
           q # Idle => Knows(q, users, last) /\ Checked(q, users)
    PROVE  req' \in [Req -> Request] /\ AllKnow' /\ Alone'
<1> DEFINE lone == \A y \in Req : req[y].pc = "idle"
           new == IF q = Idle THEN Idle ELSE [q EXCEPT !.lone = lone]
<1>1. req \in [Req -> Request] BY DEF TypeOK
<1>2. /\ new \in Request
      /\ Knows(new, users, last)
      /\ new.lone => lone /\ Checked(new, users)
  <2>1. CASE q = Idle BY <2>1, IdleType DEF Knows
  <2>2. CASE q # Idle
    <3>1. lone \in BOOLEAN OBVIOUS
    <3> HIDE DEF lone
    <3> QED BY <2>2, <3>1, LoneOnly DEF Knows, Checked
  <2> QED BY <2>1, <2>2
<1>3. req' = [x \in Req |-> IF x = r THEN new ELSE [req[x] EXCEPT !.lone = FALSE]]
  BY DEF Begin
<1> HIDE DEF new
<1>4. req'[r] = new BY <1>3
<1>5. ASSUME NEW x \in Req \ {r}
      PROVE  /\ req'[x] \in Request
             /\ req'[x].lone = FALSE /\ req'[x].pc = req[x].pc
             /\ Knows(req'[x], users, last)
  <2>1. req'[x] = [req[x] EXCEPT !.lone = FALSE] BY <1>3
  <2>2. req[x] \in Request /\ Knows(req[x], users, last) BY <1>1 DEF AllKnow
  <2>3. /\ req'[x] \in Request
        /\ req'[x].pc = req[x].pc /\ req'[x].lone = FALSE
        /\ req'[x].id = req[x].id /\ req'[x].name = req[x].name
        /\ req'[x].pw = req[x].pw
        /\ req'[x].newAdmin = req[x].newAdmin /\ req'[x].newScope = req[x].newScope
    BY ONLY <2>1, <2>2 DEF Request
  <2>4. Knows(req'[x], users, last) BY ONLY <2>2, <2>3 DEF Knows
  <2> QED BY <2>3, <2>4
<1>6. req' \in [Req -> Request] BY <1>2, <1>3, <1>4, <1>5
<1>7. AllKnow'
  <2>1. \A x \in Req : Knows(req'[x], users', last') BY <1>2, <1>4, <1>5
  <2> QED BY <2>1 DEF AllKnow
<1>8. Alone'
  <2>1. ASSUME NEW x \in Req, req'[x].lone
        PROVE  Checked(req'[x], users') /\ \A y \in Req \ {x} : req'[y].pc = "idle"
    <3>1. x = r BY <1>5, <2>1
    <3>2. Checked(req'[x], users') /\ lone BY <1>2, <1>4, <2>1, <3>1
    <3> QED BY <1>5, <3>1, <3>2
  <2> QED BY <2>1 DEF Alone
<1> QED BY <1>6, <1>7, <1>8

LEMMA GoOnKeeps ==
    ASSUME TypeOK, AllKnow, Alone, RowStep,
           NEW r \in Req, req[r].pc # "idle",
           NEW q \in Request, req' = [req EXCEPT ![r] = q],
           Knows(q, users', last'),
           q.lone => req[r].lone /\ Checked(q, users')
    PROVE  req' \in [Req -> Request] /\ AllKnow' /\ Alone'
<1>1. /\ req' \in [Req -> Request]
      /\ req'[r] = q
      /\ \A x \in Req \ {r} : req'[x] = req[x]
  BY DEF TypeOK
<1>2. AllKnow'
  <2>1. ASSUME NEW x \in Req PROVE Knows(req'[x], users', last')
    <3>1. Knows(req[x], users', last') BY KnowsKept DEF AllKnow
    <3> QED BY <1>1, <3>1
  <2> QED BY <2>1 DEF AllKnow
<1>3. Alone'
  <2>1. ASSUME NEW x \in Req, req'[x].lone
        PROVE  Checked(req'[x], users') /\ \A y \in Req \ {x} : req'[y].pc = "idle"
    <3>1. x = r BY <1>1, <2>1 DEF Alone
    <3> QED BY <1>1, <2>1, <3>1 DEF Alone
  <2> QED BY <2>1 DEF Alone
<1> QED BY <1>1, <1>2, <1>3

LEMMA AnswerKeeps ==
    ASSUME TypeOK, AllKnow, Alone, RowStep,
           NEW r \in Req, req[r].pc # "idle", Answer(r)
    PROVE  req' \in [Req -> Request] /\ AllKnow' /\ Alone'
<1>1. Knows(Idle, users', last') BY IdleType DEF Knows
<1> QED BY <1>1, IdleType, GoOnKeeps DEF Answer

LEMMA MintNext ==
    ASSUME TypeOK, AllKnow, Alone, RowStep,
           NEW r \in Req, req[r].pc # "idle",
           req' = [req EXCEPT ![r] = [Idle EXCEPT !.pc = "mint", !.lone = req[r].lone]]
    PROVE  req' \in [Req -> Request] /\ AllKnow' /\ Alone'
<1> DEFINE q == [Idle EXCEPT !.pc = "mint", !.lone = req[r].lone]
<1>1. q \in Request /\ q.pc = "mint" /\ q.lone = req[r].lone
  BY DEF TypeOK, Idle, Request, Pc
<1> HIDE DEF q
<1>2. Knows(q, users', last') /\ Checked(q, users') BY <1>1 DEF Knows, Checked
<1>3. req' = [req EXCEPT ![r] = q] BY DEF q
<1> QED BY <1>1, <1>2, <1>3, GoOnKeeps

LEMMA GotoKeeps ==
    ASSUME TypeOK, AllKnow, Alone, RowStep,
           NEW r \in Req, req[r].pc # "idle", NEW pc \in Pc, Goto(r, pc),
           Knows([req[r] EXCEPT !.pc = pc], users', last'),
           req[r].lone => Checked([req[r] EXCEPT !.pc = pc], users')
    PROVE  req' \in [Req -> Request] /\ AllKnow' /\ Alone'
<1> DEFINE q == [req[r] EXCEPT !.pc = pc]
<1>1. req[r] \in Request BY DEF TypeOK
<1>2. q \in Request /\ q.lone = req[r].lone BY <1>1, PcOnly
<1>3. req' = [req EXCEPT ![r] = q] BY DEF Goto
<1> HIDE DEF q
<1>4. Knows(q, users', last') /\ (req[r].lone => Checked(q, users')) BY DEF q
<1> QED BY <1>2, <1>3, <1>4, GoOnKeeps

\* A step of the table alone: accounts are added or stay.
LEMMA GrowKeeps ==
    ASSUME TypeOK, Rows, AllKnow, Alone, RowStep, req' = req,
           \A i \in Id : users[i] # None => users'[i] = users[i]
    PROVE  AllKnow' /\ Alone'
<1>1. AllKnow' BY KnowsKept DEF AllKnow
<1>2. ASSUME NEW r \in Req, req[r].lone
      PROVE  Checked(req[r], users')
  <2> DEFINE id == req[r].id
  <2>1. Checked(req[r], users) /\ Knows(req[r], users, last) BY <1>2 DEF Alone, AllKnow
  <2>2. \A i \in Id : OtherAdmin(users, i) => OtherAdmin(users', i)
    BY DEF OtherAdmin, AdminIn
  <2>3. req[r].pc = "delete" => (AdminIn(users', id) => AdminIn(users, id))
    <3>1. req[r].pc = "delete" => id \in Id /\ id <= last BY <2>1 DEF Knows
    <3> QED BY <3>1 DEF RowStep, AdminIn
  <2>4. req[r].pc \in {"check", "count", "write"} => id \in Id /\ users'[id] = users[id]
    BY <2>1 DEF Knows, Checked
  <2>5. req[r].pc = "delete" => id \in Id BY <2>1 DEF Knows
  <2> QED BY <2>1, <2>2, <2>3, <2>4, <2>5 DEF Checked
<1>3. Alone' BY <1>2 DEF Alone
<1> QED BY <1>1, <1>3

-----------------------------------------------------------------------------
(* Every step *)

\* What a step of the requests leaves to show of the invariant.
LEMMA Together ==
    ASSUME IInv, RowStep, sessions' = sessions, up' \in BOOLEAN,
           req' \in [Req -> Request], AllKnow', Alone'
    PROVE  IInv'
<1>1. Rows' /\ SessionsKeepTheirAccount' BY RowsKept DEF IInv
<1>2. TypeOK' BY DEF IInv, TypeOK, RowStep
<1> QED BY <1>1, <1>2 DEF IInv

LEMMA SetupKeeps ==
    ASSUME IInv, NEW r \in Req,
           \/ \E pw \in Password : SetupCheck(r, pw)
           \/ SetupLookup(r) \/ SetupReset(r) \/ SetupInsert(r)
    PROVE  IInv'
<1> USE DEF IInv
<1>1. req \in [Req -> Request] /\ up \in BOOLEAN BY DEF TypeOK
<1>2. CASE \E pw \in Password : SetupCheck(r, pw)
  <2>1. PICK pw \in Password : SetupCheck(r, pw) BY <1>2
  <2> DEFINE q == [Idle EXCEPT !.pc = "lookup", !.pw = pw]
  <2>2. q \in Request /\ Knows(q, users, last) /\ Checked(q, users)
    BY DEF Idle, Request, Pc, Knows, Checked
  <2> HIDE DEF q
  <2>3. Begin(r, q) /\ UNCHANGED <<users, last, born, sessions, up>>
    BY <2>1 DEF SetupCheck, q
  <2>4. req' \in [Req -> Request] /\ AllKnow' /\ Alone' BY <2>2, <2>3, BeginKeeps
  <2> QED BY <1>1, <2>3, <2>4, NoStep, Together
<1>3. CASE SetupLookup(r)
  <2>1. /\ req[r].pc = "lookup" /\ RowStep /\ UNCHANGED <<users, last, sessions, up>>
        /\ req[r].pw \in Password
    BY <1>3, NoStep DEF SetupLookup, At, AllKnow, Knows
  <2>2. CASE Goto(r, "insert")
    <3>1. /\ [req[r] EXCEPT !.pc = "insert"].pc = "insert"
          /\ [req[r] EXCEPT !.pc = "insert"].pw \in Password
          /\ "insert" \in Pc
      BY <1>1, <2>1, PcOnly DEF Pc
    <3>2. /\ Knows([req[r] EXCEPT !.pc = "insert"], users', last')
          /\ Checked([req[r] EXCEPT !.pc = "insert"], users')
      BY <3>1 DEF Knows, Checked
    <3>3. req' \in [Req -> Request] /\ AllKnow' /\ Alone'
      BY <2>1, <2>2, <3>1, <3>2, GotoKeeps
    <3> QED BY <1>1, <2>1, <3>3, Together
  <2>3. CASE Answer(r)
    <3>1. req' \in [Req -> Request] /\ AllKnow' /\ Alone' BY <2>1, <2>3, AnswerKeeps
    <3> QED BY <1>1, <2>1, <3>1, Together
  <2>4. ASSUME NEW i \in Named(Admin),
               req' = [req EXCEPT ![r].pc = "reset", ![r].id = i]
        PROVE  IInv'
    <3> DEFINE q == [req[r] EXCEPT !.pc = "reset", !.id = i]
    <3>1. i \in Id BY DEF Named, Accounts
    <3>2. /\ q \in Request /\ q.pc = "reset" /\ q.id = i /\ q.pw = req[r].pw
          /\ q.lone = req[r].lone
      BY <1>1, <3>1 DEF Request, Pc
    <3>3. req' = [req EXCEPT ![r] = q] BY <2>4
    <3> HIDE DEF q
    <3>4. Knows(q, users', last') /\ Checked(q, users')
      BY <2>1, <3>1, <3>2 DEF Knows, Checked
    <3>5. req' \in [Req -> Request] /\ AllKnow' /\ Alone'
      BY <2>1, <3>2, <3>3, <3>4, GoOnKeeps
    <3> QED BY <1>1, <2>1, <3>5, Together
  <2> QED BY <1>3, <2>2, <2>3, <2>4 DEF SetupLookup
<1>4. CASE SetupReset(r)
  <2> DEFINE id == req[r].id
  <2>1. /\ req[r].pc = "reset" /\ UNCHANGED <<last, born, sessions, up>>
        /\ id \in Id /\ req[r].pw \in Password
        /\ users \in [Id -> Row \cup {None}]
    BY <1>4 DEF SetupReset, At, AllKnow, Knows, TypeOK
  <2>2. RowStep
    <3>1. CASE users[id] = None BY <1>4, <2>1, <3>1, NoStep DEF SetupReset
    <3>2. CASE users[id] # None
      <4> DEFINE row == [users[id] EXCEPT !.pw = req[r].pw]
      <4>1. users' = [users EXCEPT ![id] = row] BY <1>4, <3>2 DEF SetupReset
      <4>2. users[id] \in Row BY <2>1, <3>2
      <4>3. row \in Row /\ row.who = users[id].who /\ row.original = users[id].original
        BY <2>1, <4>2, PasswordField
      <4> HIDE DEF row
      <4> QED BY <2>1, <3>2, <4>1, <4>3, UpdateStep
    <3> QED BY <3>1, <3>2
  <2>3. req' \in [Req -> Request] /\ AllKnow' /\ Alone'
    BY <1>4, <2>1, <2>2, AnswerKeeps, MintNext DEF SetupReset
  <2> QED BY <1>1, <2>1, <2>2, <2>3, Together
<1>5. CASE SetupInsert(r)
  <2>1. /\ req[r].pc = "insert" /\ req[r].pw \in Password
        /\ UNCHANGED <<sessions, up>>
    BY <1>5 DEF SetupInsert, At, AllKnow, Knows
  <2>2. RowStep
    BY <1>5, <2>1, NoStep, InsertStep, NamesAssumption, WholeAssumption DEF SetupInsert
  <2>3. req' \in [Req -> Request] /\ AllKnow' /\ Alone'
    BY <1>5, <2>1, <2>2, AnswerKeeps, MintNext DEF SetupInsert
  <2> QED BY <1>1, <2>1, <2>2, <2>3, Together
<1> QED BY <1>2, <1>3, <1>4, <1>5

LEMMA SetupMintKeeps == ASSUME IInv, NEW r \in Req, SetupMint(r) PROVE IInv'
<1> USE DEF IInv
<1>1. /\ req[r].pc = "mint" /\ UNCHANGED <<users, last, born, up>> /\ Answer(r)
  BY DEF SetupMint, At
<1>2. RowStep BY <1>1, NoStep
<1>3. req' \in [Req -> Request] /\ AllKnow' /\ Alone' BY <1>1, <1>2, AnswerKeeps
<1>4. Rows' /\ SessionsKeepTheirAccount' /\ sessions' \subseteq Id \X Nat
  <2>1. CASE UNCHANGED sessions
    BY <1>1, <2>1 DEF Rows, SessionsKeepTheirAccount, TypeOK
  <2>2. ASSUME NEW i \in Named(Admin), Mint(i)
        PROVE  Rows' /\ SessionsKeepTheirAccount' /\ sessions' \subseteq Id \X Nat
    <3>1. i \in Accounts BY DEF Named
    <3> QED BY <1>1, <2>2, <3>1, MintKeeps
  <2> QED BY <2>1, <2>2 DEF SetupMint
<1>5. TypeOK' BY <1>1, <1>3, <1>4 DEF TypeOK
<1> QED BY <1>3, <1>4, <1>5

LEMMA LoginKeeps == ASSUME IInv, NEW id \in Id, Login(id) PROVE IInv'
<1> USE DEF IInv
<1>1. /\ UNCHANGED <<users, last, born, up, req>> /\ Mint(id) /\ id \in Accounts
  BY DEF Login
<1>2. Rows' /\ SessionsKeepTheirAccount' /\ sessions' \subseteq Id \X Nat
  BY <1>1, MintKeeps
<1>3. TypeOK' BY <1>1, <1>2 DEF TypeOK
<1>4. AllKnow' /\ Alone' BY <1>1 DEF AllKnow, Alone
<1> QED BY <1>2, <1>3, <1>4

LEMMA CreateKeeps ==
    ASSUME IInv, NEW name \in Name, NEW admin \in BOOLEAN, NEW scope \in Scope,
           NEW pw \in Password, CreateUser(name, admin, scope, pw)
    PROVE  IInv'
<1> USE DEF IInv
<1>1. /\ Insert(name, admin, scope, pw, FALSE) /\ UNCHANGED <<sessions, up, req>>
  BY DEF CreateUser
<1>2. RowStep /\ \A i \in Id : users[i] # None => users'[i] = users[i]
  BY <1>1, InsertStep
<1>3. AllKnow' /\ Alone' BY <1>1, <1>2, GrowKeeps
<1>4. req' \in [Req -> Request] /\ up' \in BOOLEAN BY <1>1 DEF TypeOK
<1> QED BY <1>1, <1>2, <1>3, <1>4, Together

LEMMA RestartKeeps == ASSUME IInv, Restart PROVE IInv'
<1> USE DEF IInv
<1>1. /\ req' = [r \in Req |-> Idle] /\ sessions' = sessions BY DEF Restart
<1>2. RowStep /\ up' \in BOOLEAN
  <2>1. CASE up' = TRUE /\ UNCHANGED <<users, last, born>> BY <2>1, NoStep
  <2>2. ASSUME NEW pw \in Password, up' = TRUE, Insert(Admin, TRUE, Whole, pw, TRUE)
        PROVE  RowStep /\ up' \in BOOLEAN
    BY <2>2, InsertStep, NamesAssumption, WholeAssumption
  <2>3. ASSUME NEW pw \in Password, NEW i \in Named(Admin),
               up' = users[i].original,
               users' = IF users[i].original THEN [users EXCEPT ![i].pw = pw] ELSE users,
               UNCHANGED <<last, born>>
        PROVE  RowStep /\ up' \in BOOLEAN
    <3>1. i \in Id /\ users[i] # None /\ users[i] \in Row BY DEF Named, Accounts, TypeOK
    <3>2. users[i].original \in BOOLEAN BY <3>1 DEF Row
    <3>3. CASE ~users[i].original BY <2>3, <3>2, <3>3, NoStep
    <3>4. CASE users[i].original
      <4> DEFINE row == [users[i] EXCEPT !.pw = pw]
      <4>1. users' = [users EXCEPT ![i] = row] BY <2>3, <3>4
      <4>2. row \in Row /\ row.who = users[i].who /\ row.original = users[i].original
        BY <3>1, PasswordField
      <4> HIDE DEF row
      <4> QED BY <2>3, <3>1, <3>2, <4>1, <4>2, UpdateStep
    <3> QED BY <3>3, <3>4
  <2> QED BY <2>1, <2>2, <2>3 DEF Restart
<1>3. req' \in [Req -> Request] BY <1>1, IdleType
<1>4. AllKnow' /\ Alone'
  <2>1. \A r \in Req : req'[r] = Idle BY <1>1
  <2> QED BY <2>1, IdleType DEF AllKnow, Alone, Knows
<1> QED BY <1>1, <1>2, <1>3, <1>4, Together

LEMMA PasswordKeeps == ASSUME IInv, NEW r \in Req, SetPassword(r) PROVE IInv'
<1> USE DEF IInv
<1> DEFINE id == req[r].id
<1>1. /\ req[r].pc = "password" /\ UNCHANGED <<last, born, sessions, up>>
      /\ id \in Id /\ req[r].pw \in Password /\ req[r] \in Request
      /\ users \in [Id -> Row \cup {None}] /\ up \in BOOLEAN
  BY DEF SetPassword, At, AllKnow, Knows, TypeOK
<1>2. CASE id \notin Accounts
  <2>1. Answer(r) /\ UNCHANGED users BY <1>2 DEF SetPassword
  <2>2. RowStep BY <1>1, <2>1, NoStep
  <2>3. req' \in [Req -> Request] /\ AllKnow' /\ Alone' BY <1>1, <2>1, <2>2, AnswerKeeps
  <2> QED BY <1>1, <2>2, <2>3, Together
<1>3. CASE id \in Accounts
  <2> DEFINE row == [users[id] EXCEPT !.pw = req[r].pw]
             q == AfterPassword(req[r])
  <2>1. users[id] \in Row /\ users[id] # None BY <1>1, <1>3 DEF Accounts
  <2>2. users' = [users EXCEPT ![id] = row] /\ req' = [req EXCEPT ![r] = q]
    BY <1>3 DEF SetPassword
  <2>3. row \in Row /\ row.who = users[id].who /\ row.original = users[id].original
    BY <1>1, <2>1, PasswordField
  <2> HIDE DEF row
  <2>4. RowStep BY <1>1, <2>1, <2>2, <2>3, UpdateStep
  <2>5. \/ q = Idle
        \/ /\ q \in Request
           /\ q.pc \in {"rename", "load"}
           /\ q.pc = "rename" => q.name \in Name
           /\ q.id = id
           /\ q.lone = req[r].lone
    BY <1>1, AfterPasswordType
  <2> HIDE DEF q
  <2>6. /\ q \in Request
        /\ Knows(q, users', last') /\ Checked(q, users')
        /\ q.lone => req[r].lone
    <3>1. CASE q = Idle BY <3>1, IdleType DEF Knows, Checked
    <3>2. CASE q # Idle BY <1>1, <2>5, <3>2 DEF Knows, Checked
    <3> QED BY <3>1, <3>2
  <2>7. req' \in [Req -> Request] /\ AllKnow' /\ Alone'
    BY <1>1, <2>2, <2>4, <2>6, GoOnKeeps
  <2> QED BY <1>1, <2>4, <2>7, Together
<1> QED BY <1>2, <1>3

LEMMA RenameKeeps == ASSUME IInv, NEW r \in Req, Rename(r) PROVE IInv'
<1> USE DEF IInv
<1> DEFINE id == req[r].id
<1>1. /\ req[r].pc = "rename" /\ UNCHANGED <<last, born, sessions, up>>
      /\ id \in Id /\ req[r].name \in Name /\ req[r] \in Request
      /\ users \in [Id -> Row \cup {None}] /\ up \in BOOLEAN
  BY DEF Rename, At, AllKnow, Knows, TypeOK
<1>2. CASE Answer(r) /\ UNCHANGED users
  <2>2. RowStep BY <1>1, <1>2, NoStep
  <2>3. req' \in [Req -> Request] /\ AllKnow' /\ Alone' BY <1>1, <1>2, <2>2, AnswerKeeps
  <2> QED BY <1>1, <2>2, <2>3, Together
<1>3. CASE /\ id \in Accounts
           /\ users' = [users EXCEPT ![id].name = req[r].name]
           /\ req' = [req EXCEPT ![r] = AfterRename(@)]
  <2> DEFINE row == [users[id] EXCEPT !.name = req[r].name]
             q == AfterRename(req[r])
  <2>1. users[id] \in Row /\ users[id] # None BY <1>1, <1>3 DEF Accounts
  <2>2. users' = [users EXCEPT ![id] = row] /\ req' = [req EXCEPT ![r] = q]
    BY <1>3
  <2>3. row \in Row /\ row.who = users[id].who /\ row.original = users[id].original
    BY <1>1, <2>1, NameField
  <2> HIDE DEF row
  <2>4. RowStep BY <1>1, <2>1, <2>2, <2>3, UpdateStep
  <2>5. \/ q = Idle
        \/ q \in Request /\ q.pc = "load" /\ q.id = id /\ q.lone = req[r].lone
    BY <1>1, AfterRenameType
  <2> HIDE DEF q
  <2>6. /\ q \in Request
        /\ Knows(q, users', last') /\ Checked(q, users')
        /\ q.lone => req[r].lone
    <3>1. CASE q = Idle BY <3>1, IdleType DEF Knows, Checked
    <3>2. CASE q # Idle BY <1>1, <2>5, <3>2 DEF Knows, Checked
    <3> QED BY <3>1, <3>2
  <2>7. req' \in [Req -> Request] /\ AllKnow' /\ Alone'
    BY <1>1, <2>2, <2>4, <2>6, GoOnKeeps
  <2> QED BY <1>1, <2>4, <2>7, Together
<1> QED BY <1>2, <1>3 DEF Rename

LEMMA LoadKeeps == ASSUME IInv, NEW r \in Req, PatchLoad(r) PROVE IInv'
<1> USE DEF IInv
<1> DEFINE id == req[r].id
<1>1. /\ req[r].pc = "load" /\ UNCHANGED <<users, last, born, sessions, up>>
      /\ id \in Id /\ req[r] \in Request /\ up \in BOOLEAN
      /\ RowStep
  BY NoStep DEF PatchLoad, At, AllKnow, Knows, TypeOK
<1>2. CASE Answer(r)
  <2>1. req' \in [Req -> Request] /\ AllKnow' /\ Alone' BY <1>1, <1>2, AnswerKeeps
  <2> QED BY <1>1, <2>1, Together
<1>3. CASE id \in Accounts /\ ~Answer(r)
  <2> DEFINE admin == IF req[r].admin # None THEN req[r].admin ELSE users[id].admin
             scope == IF req[r].scope # None THEN req[r].scope ELSE users[id].scope
             q == [req[r] EXCEPT !.pc = "check", !.newAdmin = admin, !.newScope = scope]
  <2>1. users[id] \in Row /\ users[id] # None BY <1>1, <1>3 DEF Accounts, TypeOK
  <2>2. req' = [req EXCEPT ![r] = q] BY <1>3 DEF PatchLoad
  <2>3. admin \in BOOLEAN /\ scope \in Scope BY <1>1, <2>1 DEF Request, Row
  <2>4. /\ req[r].admin = None => admin = users[id].admin
        /\ req[r].scope = None => scope = users[id].scope
    OBVIOUS
  <2> HIDE DEF admin, scope
  <2>5. /\ q \in Request /\ q.pc = "check" /\ q.id = id /\ q.lone = req[r].lone
        /\ q.newAdmin = admin /\ q.newScope = scope
        /\ q.admin = req[r].admin /\ q.scope = req[r].scope
    BY <1>1, <2>3 DEF Request, Pc
  <2> HIDE DEF q
  <2>6. Knows(q, users', last') /\ Checked(q, users')
    BY <1>1, <2>1, <2>3, <2>4, <2>5 DEF Knows, Checked
  <2>7. req' \in [Req -> Request] /\ AllKnow' /\ Alone'
    BY <1>1, <2>2, <2>5, <2>6, GoOnKeeps
  <2> QED BY <1>1, <2>7, Together
<1> QED BY <1>2, <1>3 DEF PatchLoad

LEMMA CheckKeeps ==
    ASSUME IInv, NEW r \in Req, PatchCheck(r) \/ PatchCount(r) \/ DeleteCount(r)
    PROVE  IInv'
<1> USE DEF IInv
<1> DEFINE id == req[r].id
<1>1. /\ req[r].pc \in {"check", "count", "last"}
      /\ UNCHANGED <<users, last, born, sessions, up>>
      /\ req[r] \in Request /\ up \in BOOLEAN
      /\ RowStep
      /\ Knows(req[r], users, last)
      /\ req[r].lone => Checked(req[r], users)
  BY NoStep DEF PatchCheck, PatchCount, DeleteCount, At, AllKnow, Alone, TypeOK
<1>2. CASE Answer(r)
  <2>1. req' \in [Req -> Request] /\ AllKnow' /\ Alone' BY <1>1, <1>2, AnswerKeeps
  <2> QED BY <1>1, <2>1, Together
<1>3. ASSUME NEW pc \in {"count", "write", "delete"}, Goto(r, pc),
             pc \in {"count", "write"} => req[r].pc \in {"check", "count"},
             pc = "write" => (users[id].admin /\ ~req[r].newAdmin => OtherAdmin(users, id)),
             pc = "delete" => req[r].pc = "last" /\ OtherAdmin(users, id)
      PROVE  IInv'
  <2> DEFINE q == [req[r] EXCEPT !.pc = pc]
  <2>1. pc \in Pc BY DEF Pc
  <2>2. /\ q \in Request /\ q.pc = pc /\ q.id = id /\ q.lone = req[r].lone
        /\ q.newAdmin = req[r].newAdmin /\ q.newScope = req[r].newScope
        /\ q.admin = req[r].admin /\ q.scope = req[r].scope
    BY <1>1, <2>1, PcOnly
  <2> HIDE DEF q
  <2>3. Knows(q, users', last') BY <1>1, <1>3, <2>2 DEF Knows
  <2>4. req[r].lone => Checked(q, users') BY <1>1, <1>3, <2>2 DEF Checked
  <2>5. req' \in [Req -> Request] /\ AllKnow' /\ Alone'
    BY <1>1, <1>3, <2>1, <2>3, <2>4, GotoKeeps DEF q
  <2> QED BY <1>1, <2>5, Together
<1>4. CASE PatchCheck(r)
  <2>1. req[r].pc = "check" BY <1>4 DEF PatchCheck, At
  <2> QED BY <1>2, <1>3, <1>4, <2>1 DEF PatchCheck
<1>5. CASE PatchCount(r)
  <2>1. req[r].pc = "count" BY <1>5 DEF PatchCount, At
  <2>2. ~LastAdmin => OtherAdmin(users, id) BY NotTheLast
  <2> QED BY <1>2, <1>3, <1>5, <2>1, <2>2 DEF PatchCount
<1>6. CASE DeleteCount(r)
  <2>1. req[r].pc = "last" BY <1>6 DEF DeleteCount, At
  <2>2. ~LastAdmin => OtherAdmin(users, id) BY NotTheLast
  <2> QED BY <1>2, <1>3, <1>6, <2>1, <2>2 DEF DeleteCount
<1> QED BY <1>4, <1>5, <1>6

LEMMA WriteKeeps == ASSUME IInv, NEW r \in Req, PatchWrite(r) PROVE IInv'
<1> USE DEF IInv
<1> DEFINE id == req[r].id
<1>1. /\ req[r].pc = "write" /\ UNCHANGED <<last, born, sessions, up>> /\ Answer(r)
      /\ id \in Id /\ req[r].newAdmin \in BOOLEAN /\ req[r].newScope \in Scope
      /\ users \in [Id -> Row \cup {None}] /\ up \in BOOLEAN
  BY DEF PatchWrite, At, AllKnow, Knows, TypeOK
<1>2. RowStep
  <2>1. CASE id \notin Accounts BY <1>1, <2>1, NoStep DEF PatchWrite
  <2>2. CASE id \in Accounts
    <3> DEFINE row == [users[id] EXCEPT !.admin = req[r].newAdmin, !.scope = req[r].newScope]
    <3>1. users[id] \in Row /\ users[id] # None BY <1>1, <2>2 DEF Accounts
    <3>2. users' = [users EXCEPT ![id] = row] BY <2>2 DEF PatchWrite
    <3>3. row \in Row /\ row.who = users[id].who /\ row.original = users[id].original
      BY ONLY <1>1, <3>1 DEF Row
    <3> HIDE DEF row
    <3> QED BY <1>1, <3>1, <3>2, <3>3, UpdateStep
  <2> QED BY <2>1, <2>2
<1>3. req' \in [Req -> Request] /\ AllKnow' /\ Alone' BY <1>1, <1>2, AnswerKeeps
<1> QED BY <1>1, <1>2, <1>3, Together

LEMMA DeleteKeeps == ASSUME IInv, NEW r \in Req, DeleteRow(r) PROVE IInv'
<1> USE DEF IInv
<1>1. /\ req[r].pc = "delete" /\ UNCHANGED <<last, born, sessions, up>> /\ Answer(r)
      /\ req[r].id \in Id /\ up \in BOOLEAN
      /\ users' = [users EXCEPT ![req[r].id] = None]
  BY DEF DeleteRow, At, AllKnow, Knows, TypeOK
<1>2. RowStep BY <1>1, DeleteStep
<1>3. req' \in [Req -> Request] /\ AllKnow' /\ Alone' BY <1>1, <1>2, AnswerKeeps
<1> QED BY <1>1, <1>2, <1>3, Together

\* Every call but setup, whose first step is above.
LEMMA CallKeeps ==
    ASSUME IInv, NEW r \in Req, NEW id \in Id,
           \/ \E body \in Bodies : UpdateCall(r, id, body)
           \/ DeleteLoad(r, id)
           \/ \E old, pw \in Password, name \in Name \cup {None} :
                    ChangeCheck(r, id, old, pw, name)
    PROVE  IInv'
<1> USE DEF IInv
<1>1. ASSUME NEW q \in Request, Begin(r, q), UNCHANGED <<users, last, born, sessions, up>>,
             q # Idle => Knows(q, users, last) /\ Checked(q, users)
      PROVE  IInv'
  <2>1. req' \in [Req -> Request] /\ AllKnow' /\ Alone' BY <1>1, BeginKeeps
  <2>2. RowStep /\ up' \in BOOLEAN BY <1>1, NoStep DEF TypeOK
  <2> QED BY <1>1, <2>1, <2>2, Together
<1>2. CASE DeleteLoad(r, id)
  <2> DEFINE pc == IF users[id].admin THEN "last" ELSE "delete"
             q == [Idle EXCEPT !.pc = pc, !.id = id]
  <2>1. /\ Begin(r, q) /\ UNCHANGED <<users, last, born, sessions, up>>
        /\ users[id] # None /\ ~users[id].original
        /\ users[id] \in Row
    BY <1>2 DEF DeleteLoad, Accounts, TypeOK
  <2>2. id <= last
    <3>1. id \in Nat /\ last \in Nat BY BoundsAssumption DEF Id, TypeOK
    <3> QED BY <2>1, <3>1 DEF Rows
  <2>3. pc \in {"last", "delete"} /\ (pc = "delete" => ~users[id].admin)
    BY DEF pc
  <2> HIDE DEF pc
  <2>4. q \in Request /\ q.pc = pc /\ q.id = id BY <2>3 DEF Idle, Request, Pc
  <2> HIDE DEF q
  <2>5. Knows(q, users, last) /\ Checked(q, users)
    BY <2>1, <2>2, <2>3, <2>4 DEF Knows, Checked, AdminIn
  <2> QED BY <1>1, <2>1, <2>4, <2>5
<1>3. ASSUME NEW old \in Password, NEW pw \in Password, NEW name \in Name \cup {None},
             ChangeCheck(r, id, old, pw, name)
      PROVE  IInv'
  <2> DEFINE q == [Idle EXCEPT !.pc = "password", !.id = id, !.pw = pw, !.name = name]
  <2>1. Begin(r, q) /\ UNCHANGED <<users, last, born, sessions, up>>
    BY <1>3 DEF ChangeCheck
  <2>2. q \in Request /\ q.pc = "password" /\ q.id = id /\ q.pw = pw
    BY DEF Idle, Request, Pc
  <2> HIDE DEF q
  <2>3. Knows(q, users, last) /\ Checked(q, users) BY <2>2 DEF Knows, Checked
  <2> QED BY <1>1, <2>1, <2>2, <2>3
<1>4. ASSUME NEW body \in Bodies, UpdateCall(r, id, body)
      PROVE  IInv'
  <2> DEFINE q == [Idle EXCEPT !.id = id, !.name = body.name, !.admin = body.admin,
                               !.scope = body.scope, !.pw = body.pw]
             first == IF q.pw # None THEN [q EXCEPT !.pc = "password"] ELSE AfterPassword(q)
  <2>1. Begin(r, first) /\ UNCHANGED <<users, last, born, sessions, up>>
    BY <1>4 DEF UpdateCall
  <2>2. /\ body.name \in Name \cup {None} /\ body.admin \in BOOLEAN \cup {None}
        /\ body.scope \in Scope \cup {None} /\ body.pw \in Password \cup {None}
    BY BodiesAssumption
  <2>3. q \in Request BY ONLY <2>2, id \in Id DEF Idle, Request, Pc
  <2>4. q.id = id /\ q.pw \in Password \cup {None} BY <2>2 DEF Idle
  <2> HIDE DEF q
  <2>5. first \in Request /\ (first # Idle => Knows(first, users, last) /\ Checked(first, users))
    <3>1. CASE q.pw # None
      <4>1. /\ first \in Request /\ first.pc = "password" /\ first.id = id
            /\ first.pw = q.pw
        BY <2>3, <2>4, <3>1, PcOnly DEF Pc
      <4> HIDE DEF first
      <4> QED BY <2>4, <3>1, <4>1 DEF Knows, Checked
    <3>2. CASE q.pw = None
      <4>1. \/ first = Idle
            \/ /\ first \in Request
               /\ first.pc \in {"rename", "load"}
               /\ first.pc = "rename" => first.name \in Name
               /\ first.id = id
        BY <2>3, <2>4, <3>2, AfterPasswordType
      <4> HIDE DEF first
      <4> QED BY <4>1, IdleType DEF Knows, Checked
    <3> QED BY <3>1, <3>2
  <2> HIDE DEF first
  <2> QED BY <1>1, <2>1, <2>5
<1> QED BY <1>2, <1>3, <1>4

-----------------------------------------------------------------------------
(* The invariant *)

LEMMA Starts == Init => IInv
<1> SUFFICES ASSUME Init PROVE IInv OBVIOUS
<1>1. \A r \in Req : req[r] = Idle BY DEF Init
<1>2. TypeOK BY IdleType, BoundsAssumption DEF Init, TypeOK
<1>3. Rows /\ SessionsKeepTheirAccount BY DEF Init, Rows, SessionsKeepTheirAccount
<1>4. AllKnow /\ Alone BY <1>1, IdleType DEF AllKnow, Alone, Knows
<1> QED BY <1>2, <1>3, <1>4 DEF IInv

LEMMA Keep == IInv /\ [Next]_vars => IInv'
<1> SUFFICES ASSUME IInv, [Next]_vars PROVE IInv' OBVIOUS
<1>1. CASE UNCHANGED vars
  <2>1. TypeOK' BY <1>1 DEF IInv, vars, TypeOK
  <2>2. Rows' /\ SessionsKeepTheirAccount'
    BY <1>1 DEF IInv, vars, Rows, SessionsKeepTheirAccount
  <2>3. AllKnow' /\ Alone' BY <1>1 DEF IInv, vars, AllKnow, Alone
  <2> QED BY <2>1, <2>2, <2>3 DEF IInv
<1>2. ASSUME NEW r \in Req, Call(r) PROVE IInv'
  BY <1>2, SetupKeeps, CallKeeps DEF Call
<1>3. ASSUME NEW r \in Req, Continue(r) PROVE IInv'
  BY <1>3, SetupKeeps, SetupMintKeeps, PasswordKeeps, RenameKeeps, LoadKeeps, CheckKeeps,
     WriteKeeps, DeleteKeeps DEF Continue
<1>4. ASSUME NEW name \in Name, NEW admin \in BOOLEAN, NEW scope \in Scope,
             NEW pw \in Password, CreateUser(name, admin, scope, pw)
      PROVE  IInv'
  BY <1>4, CreateKeeps
<1>5. ASSUME NEW id \in Id, Login(id) PROVE IInv' BY <1>5, LoginKeeps
<1>6. CASE Restart BY <1>6, RestartKeeps
<1> QED BY <1>1, <1>2, <1>3, <1>4, <1>5, <1>6 DEF Next

LEMMA Invariance == Spec => []IInv
BY Starts, Keep, PTL DEF Spec

-----------------------------------------------------------------------------
(* What is promised *)

\* Rows hold what was validated; in particular no attribute that was not given is
\* ever written (users.go:120).
THEOREM TypeCorrect == Spec => []TypeOK
<1>1. IInv => TypeOK BY DEF IInv
<1> QED BY <1>1, Invariance, PTL

\* An id is never used again, so that a signed cookie never comes to name another
\* account than the one it was made for.
THEOREM SessionsAreKept == Spec => []SessionsKeepTheirAccount
<1>1. IInv => SessionsKeepTheirAccount BY DEF IInv
<1> QED BY <1>1, Invariance, PTL

\* Between reading the row and deleting it a deletion cannot come to concern the
\* original admin, whatever other requests do.
THEOREM OriginalIsKept == Spec => OriginalStays
<1>1. IInv /\ [Next]_vars => [Originals \subseteq Originals']_vars
  <2> SUFFICES ASSUME IInv, Next, NEW i \in Id, users[i] # None, users[i].original
               PROVE  users'[i] # None /\ users'[i].original
    BY DEF Originals, Accounts
  <2>1. TypeOK /\ users[i] \in Row /\ users \in [Id -> Row \cup {None}]
    BY DEF IInv, TypeOK
  <2>2. CASE UNCHANGED users BY <2>2
  <2>3. ASSUME NEW name \in Name, NEW admin \in BOOLEAN, NEW scope \in Scope,
               NEW pw \in Password, NEW original \in BOOLEAN,
               Insert(name, admin, scope, pw, original)
        PROVE  users'[i] = users[i]
    BY <2>3, InsertStep DEF IInv
  <2>4. ASSUME NEW id \in Id, NEW row \in Row, users[id] # None,
               row.original = users[id].original, users' = [users EXCEPT ![id] = row]
        PROVE  users'[i] # None /\ users'[i].original
    BY <2>1, <2>4, RowsAssumption
  <2>5. ASSUME NEW r \in Req, DeleteRow(r)
        PROVE  users'[i] = users[i]
    <3>1. /\ Knows(req[r], users, last) /\ req[r].pc = "delete"
          /\ users' = [users EXCEPT ![req[r].id] = None]
      BY <2>5 DEF IInv, AllKnow, DeleteRow, At
    <3>2. req[r].id \in Id /\ req[r].id # i BY <3>1 DEF Knows
    <3> QED BY <2>1, <3>1, <3>2
  <2>6. ASSUME NEW r \in Req, Continue(r)
        PROVE  users'[i] # None /\ users'[i].original
    <3> DEFINE id == req[r].id
    <3>1. Knows(req[r], users, last) BY DEF IInv, AllKnow
    <3>2. CASE SetupReset(r)
      <4>1. id \in Id /\ req[r].pw \in Password BY <3>1, <3>2 DEF Knows, SetupReset, At
      <4>2. CASE users[id] # None
        <5> DEFINE row == [users[id] EXCEPT !.pw = req[r].pw]
        <5>1. users[id] \in Row BY <2>1, <4>1, <4>2
        <5>2. row \in Row /\ row.original = users[id].original
          BY ONLY <4>1, <5>1 DEF Row
        <5>3. users' = [users EXCEPT ![id] = row] BY <3>2, <4>2 DEF SetupReset
        <5> HIDE DEF row
        <5> QED BY <2>4, <4>1, <4>2, <5>2, <5>3
      <4> QED BY <2>2, <3>2, <4>2 DEF SetupReset
    <3>3. CASE SetupInsert(r)
      <4>1. req[r].pw \in Password BY <3>1, <3>3 DEF Knows, SetupInsert, At
      <4> QED BY <2>2, <2>3, <3>3, <4>1, NamesAssumption, WholeAssumption DEF SetupInsert
    <3>4. CASE SetPassword(r)
      <4>1. id \in Id /\ req[r].pw \in Password BY <3>1, <3>4 DEF Knows, SetPassword, At
      <4>2. CASE id \in Accounts
        <5> DEFINE row == [users[id] EXCEPT !.pw = req[r].pw]
        <5>1. users[id] \in Row /\ users[id] # None BY <2>1, <4>1, <4>2 DEF Accounts
        <5>2. row \in Row /\ row.original = users[id].original
          BY ONLY <4>1, <5>1 DEF Row
        <5>3. users' = [users EXCEPT ![id] = row] BY <3>4, <4>2 DEF SetPassword
        <5> HIDE DEF row
        <5> QED BY <2>4, <4>1, <5>1, <5>2, <5>3
      <4> QED BY <2>2, <3>4, <4>2 DEF SetPassword
    <3>5. CASE Rename(r)
      <4>1. id \in Id /\ req[r].name \in Name BY <3>1, <3>5 DEF Knows, Rename, At
      <4>2. CASE id \in Accounts /\ ~UNCHANGED users
        <5> DEFINE row == [users[id] EXCEPT !.name = req[r].name]
        <5>1. users[id] \in Row /\ users[id] # None BY <2>1, <4>1, <4>2 DEF Accounts
        <5>2. row \in Row /\ row.original = users[id].original
          BY ONLY <4>1, <5>1 DEF Row
        <5>3. users' = [users EXCEPT ![id] = row] BY <3>5, <4>2 DEF Rename
        <5> HIDE DEF row
        <5> QED BY <2>4, <4>1, <5>1, <5>2, <5>3
      <4> QED BY <2>2, <3>5, <4>2 DEF Rename
    <3>6. CASE PatchWrite(r)
      <4>1. id \in Id /\ req[r].newAdmin \in BOOLEAN /\ req[r].newScope \in Scope
        BY <3>1, <3>6 DEF Knows, PatchWrite, At
      <4>2. CASE id \in Accounts
        <5> DEFINE row == [users[id] EXCEPT !.admin = req[r].newAdmin,
                                            !.scope = req[r].newScope]
        <5>1. users[id] \in Row /\ users[id] # None BY <2>1, <4>1, <4>2 DEF Accounts
        <5>2. row \in Row /\ row.original = users[id].original
          BY ONLY <4>1, <5>1 DEF Row
        <5>3. users' = [users EXCEPT ![id] = row] BY <3>6, <4>2 DEF PatchWrite
        <5> HIDE DEF row
        <5> QED BY <2>4, <4>1, <5>1, <5>2, <5>3
      <4> QED BY <2>2, <3>6, <4>2 DEF PatchWrite
    <3>7. CASE DeleteRow(r) BY <2>5, <3>7
    <3> QED BY <2>2, <2>6, <3>2, <3>3, <3>4, <3>5, <3>6, <3>7
        DEF Continue, SetupLookup, SetupMint, PatchLoad, PatchCheck, PatchCount, DeleteCount
  <2>7. CASE Restart
    <3>1. ASSUME NEW pw \in Password, NEW j \in Named(Admin), users[j].original,
                 users' = [users EXCEPT ![j].pw = pw]
          PROVE  users'[i] # None /\ users'[i].original
      <4> DEFINE row == [users[j] EXCEPT !.pw = pw]
      <4>1. j \in Id /\ users[j] # None /\ users[j] \in Row
        BY <2>1 DEF Named, Accounts
      <4>2. row \in Row /\ row.original = users[j].original BY ONLY <4>1, pw \in Password DEF Row
      <4>3. users' = [users EXCEPT ![j] = row] BY <3>1
      <4> HIDE DEF row
      <4> QED BY <2>4, <4>1, <4>2, <4>3
    <3> QED BY <2>2, <2>3, <2>7, <3>1, NamesAssumption, WholeAssumption DEF Restart
  <2>8. ASSUME NEW r \in Req, Call(r) PROVE UNCHANGED users
    BY <2>8 DEF Call, SetupCheck, UpdateCall, DeleteLoad, ChangeCheck
  <2>9. ASSUME NEW name \in Name, NEW admin \in BOOLEAN, NEW scope \in Scope,
               NEW pw \in Password, CreateUser(name, admin, scope, pw)
        PROVE  users'[i] = users[i]
    BY <2>3, <2>9 DEF CreateUser
  <2> QED BY <2>2, <2>6, <2>7, <2>8, <2>9 DEF Next, Login
<1> QED BY <1>1, Invariance, PTL DEF Spec, OriginalStays

\* Counting admins and writing are two transactions; for a request that no other
\* overlaps the count still holds when it writes.
THEOREM LastAdminIsKept == Spec => LastAdminStays
<1> DEFINE Keeps == \A r \in Req : (PatchWrite(r) \/ DeleteRow(r)) /\ req[r].lone =>
                        (AdminIds # {} => AdminIds' # {})
<1>1. IInv /\ [Next]_vars => [Keeps]_vars
  <2> SUFFICES ASSUME IInv, NEW r \in Req, PatchWrite(r) \/ DeleteRow(r), req[r].lone,
                      AdminIds # {}
               PROVE  AdminIds' # {}
    OBVIOUS
  <2> DEFINE id == req[r].id
  <2>1. /\ Knows(req[r], users, last) /\ Checked(req[r], users)
        /\ req[r].pc \in {"write", "delete"}
        /\ users \in [Id -> Row \cup {None}]
    BY DEF IInv, TypeOK, AllKnow, Alone, PatchWrite, DeleteRow, At
  <2>2. id \in Id BY <2>1 DEF Knows
  <2>3. \A j \in Id \ {id} : users'[j] = users[j]
    BY <2>1, <2>2 DEF PatchWrite, DeleteRow
  <2>4. OtherAdmin(users, id) => AdminIds' # {}
    BY <2>3 DEF OtherAdmin, AdminIn, AdminIds, Accounts
  <2>5. CASE ~AdminIn(users, id)
    <3>1. OtherAdmin(users, id) BY <2>5 DEF OtherAdmin, AdminIn, AdminIds, Accounts
    <3> QED BY <2>4, <3>1
  <2>6. CASE AdminIn(users, id) /\ DeleteRow(r)
    <3>1. req[r].pc = "delete" BY <2>6 DEF DeleteRow, At
    <3> QED BY <2>1, <2>4, <2>6, <3>1 DEF Checked
  <2>7. CASE AdminIn(users, id) /\ PatchWrite(r)
    <3>1. req[r].pc = "write" BY <2>7 DEF PatchWrite, At
    <3>2. CASE ~req[r].newAdmin BY <2>1, <2>4, <2>7, <3>1, <3>2 DEF Checked, AdminIn
    <3>3. CASE req[r].newAdmin
      <4> DEFINE row == [users[id] EXCEPT !.admin = req[r].newAdmin,
                                          !.scope = req[r].newScope]
      <4>1. users[id] \in Row /\ users[id] # None BY <2>1, <2>2, <2>7 DEF AdminIn
      <4>2. req[r].newAdmin \in BOOLEAN /\ req[r].newScope \in Scope
        BY <2>1, <3>1 DEF Knows
      <4>3. row \in Row /\ row.admin = req[r].newAdmin BY ONLY <4>1, <4>2 DEF Row
      <4>4. users' = [users EXCEPT ![id] = row]
        BY <2>2, <2>7, <4>1 DEF PatchWrite, Accounts
      <4> HIDE DEF row
      <4>5. users'[id] # None /\ users'[id].admin
        BY <2>1, <2>2, <3>3, <4>3, <4>4, RowsAssumption
      <4> QED BY <2>2, <4>5 DEF AdminIds, Accounts
    <3> QED BY <3>2, <3>3
  <2> QED BY <2>5, <2>6, <2>7
<1> QED BY <1>1, Invariance, PTL DEF Spec, LastAdminStays

\* A patch that no other request overlaps writes what it was given and what is
\* there already.
THEOREM PatchIsPrecise == Spec => PatchKeepsOthers
<1> DEFINE Precise ==
      \A r \in Req : PatchWrite(r) /\ req[r].lone =>
            LET i == req[r].id
            IN  /\ req[r].admin = None => users'[i].admin = users[i].admin
                /\ req[r].scope = None => users'[i].scope = users[i].scope
<1>1. IInv /\ [Next]_vars => [Precise]_vars
  <2> SUFFICES ASSUME IInv, NEW r \in Req, PatchWrite(r), req[r].lone
               PROVE  /\ req[r].admin = None => users'[req[r].id].admin = users[req[r].id].admin
                      /\ req[r].scope = None => users'[req[r].id].scope = users[req[r].id].scope
    OBVIOUS
  <2> DEFINE id == req[r].id
             row == [users[id] EXCEPT !.admin = req[r].newAdmin, !.scope = req[r].newScope]
  <2>1. /\ Knows(req[r], users, last) /\ Checked(req[r], users)
        /\ req[r].pc = "write"
        /\ users \in [Id -> Row \cup {None}]
    BY DEF IInv, TypeOK, AllKnow, Alone, PatchWrite, At
  <2>2. /\ id \in Id /\ users[id] # None /\ users[id] \in Row
        /\ req[r].newAdmin \in BOOLEAN /\ req[r].newScope \in Scope
        /\ req[r].admin = None => req[r].newAdmin = users[id].admin
        /\ req[r].scope = None => req[r].newScope = users[id].scope
    BY <2>1 DEF Knows, Checked
  <2>3. row.admin = req[r].newAdmin /\ row.scope = req[r].newScope
    BY ONLY <2>2 DEF Row
  <2>4. users' = [users EXCEPT ![id] = row] BY <2>2 DEF PatchWrite, Accounts
  <2> HIDE DEF row
  <2>5. users'[id] = row BY <2>1, <2>2, <2>4
  <2> QED BY <2>2, <2>3, <2>5
<1> QED BY <1>1, Invariance, PTL DEF Spec, PatchKeepsOthers
=============================================================================
