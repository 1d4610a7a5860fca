------------------------- MODULE PrivateFolders_proofs -------------------------
(***************************************************************************)
(* For any accounts, scopes, directories, paths and requests, however the  *)
(* requests overlap, fail or are cut off: no mark outlives its owner, and  *)
(* a request on its own leaves the engine's copy fresh.                    *)
(***************************************************************************)
EXTENDS MCPrivateFolders, SequenceTheorems, TLAPS

\* What a handler has checked of the paths it works on.
Checked(x) ==
    /\ x.pc \in {"set", "unset"} => x.p \in Path
    /\ x.pc \in {"rename", "select", "update"} =>
            x.p \in Path /\ x.q \in Path /\ Fits(x.p, x.q)

AllChecked == \A r \in Req : Checked(req[r])

\* A request on its own has seen the table as it still is.
Alone ==
    \A r \in Req : req[r].lone =>
        /\ \A q \in Req \ {r} : req[q].pc = "idle"
        /\ req[r].pc = "install" => req[r].snap = db

IInv == TypeOK /\ AllChecked /\ Alone /\ RowsHaveOwners

-----------------------------------------------------------------------------
(* Paths *)

LEMMA PathIs ==
    ASSUME NEW p \in Path
    PROVE  p \in Seq(STRING) /\ Len(p) \in Nat \ {0}
<1>1. p \in Seq(STRING) /\ p # <<>> BY PathsAssumption
<1> QED BY <1>1, EmptySeq, LenProperties

LEMMA UnderIs ==
    ASSUME NEW p \in Seq(STRING), NEW q \in Seq(STRING)
    PROVE  Under(p, q) <=> Len(p) <= Len(q) /\ \A i \in 1 .. Len(p) : p[i] = q[i]
<1> SUFFICES ASSUME Len(p) <= Len(q)
             PROVE  SubSeq(q, 1, Len(p)) = p <=> \A i \in 1 .. Len(p) : p[i] = q[i]
  BY DEF Under
<1>1. SubSeq(q, 1, Len(p)) = [i \in 1 .. Len(p) |-> q[i]]
  OBVIOUS
<1>2. p = [i \in 1 .. Len(p) |-> p[i]]
  OBVIOUS
<1> QED BY <1>1, <1>2

LEMMA UnderSelf == ASSUME NEW p \in Seq(STRING) PROVE Under(p, p)
BY UnderIs

LEMMA UnderTrans ==
    ASSUME NEW p \in Seq(STRING), NEW q \in Seq(STRING), NEW s \in Seq(STRING),
           Under(p, q), Under(q, s)
    PROVE  Under(p, s)
BY UnderIs

LEMMA UnderBoth ==
    ASSUME NEW p \in Seq(STRING), NEW q \in Seq(STRING), NEW s \in Seq(STRING),
           Under(p, s), Under(q, s)
    PROVE  Under(p, q) \/ Under(q, p)
BY UnderIs

LEMMA UnderSame ==
    ASSUME NEW p \in Seq(STRING), NEW q \in Seq(STRING), Under(p, q), Len(q) <= Len(p)
    PROVE  p = q
<1>1. Len(p) = Len(q) /\ \A i \in 1 .. Len(p) : p[i] = q[i]
  BY UnderIs
<1> QED BY <1>1, SeqEqual

\* What has the name x below `from' has the name y below `to'.
Renamed(y, x, from, to) ==
    /\ y \in Seq(STRING)
    /\ Len(y) = Len(to) + (Len(x) - Len(from))
    /\ \A i \in 1 .. Len(to) : y[i] = to[i]
    /\ \A i \in 1 .. Len(x) - Len(from) : y[Len(to) + i] = x[Len(from) + i]

LEMMA RebaseIs ==
    ASSUME NEW x \in Seq(STRING), NEW from \in Seq(STRING), NEW to \in Seq(STRING),
           Under(from, x)
    PROVE  Renamed(Rebase(x, from, to), x, from, to) /\ Under(to, Rebase(x, from, to))
<1> DEFINE rest == SubSeq(x, Len(from) + 1, Len(x))
           y == to \o rest
<1>1. Len(from) <= Len(x) BY UnderIs
<1>2. /\ rest \in Seq(STRING) /\ Len(rest) = Len(x) - Len(from)
      /\ \A i \in 1 .. Len(x) - Len(from) : rest[i] = x[Len(from) + i]
  BY <1>1
<1> HIDE DEF rest
<1>3. /\ y \in Seq(STRING) /\ Len(y) = Len(to) + Len(rest)
      /\ \A i \in 1 .. Len(to) + Len(rest) :
              y[i] = IF i <= Len(to) THEN to[i] ELSE rest[i - Len(to)]
  BY <1>2, ConcatProperties, Zenon
<1>4. Rebase(x, from, to) = y BY DEF Rebase, rest
<1> HIDE DEF y
<1>5. Len(to) \in Nat /\ Len(rest) \in Nat BY <1>2
<1>6. \A i \in 1 .. Len(to) : y[i] = to[i] BY <1>3, <1>5
<1>7. ASSUME NEW i \in 1 .. Len(rest) PROVE y[Len(to) + i] = rest[i]
  <2>1. Len(to) + i \in 1 .. Len(to) + Len(rest) /\ (Len(to) + i) - Len(to) = i
    BY <1>5
  <2>2. y[Len(to) + i] = IF Len(to) + i <= Len(to) THEN to[Len(to) + i]
                         ELSE rest[(Len(to) + i) - Len(to)]
    BY <2>1, <1>3
  <2> QED BY <2>1, <2>2, <1>5
<1>8. Renamed(y, x, from, to) BY <1>2, <1>3, <1>6, <1>7 DEF Renamed
<1>9. Under(to, y) BY <1>2, <1>3, <1>5, <1>6, UnderIs
<1> QED BY <1>4, <1>8, <1>9

LEMMA RenamedOnce ==
    ASSUME NEW x \in Seq(STRING), NEW z \in Seq(STRING),
           NEW from \in Seq(STRING), NEW to \in Seq(STRING),
           Under(from, x), Under(from, z), NEW y, Renamed(y, x, from, to), Renamed(y, z, from, to)
    PROVE  x = z
<1>1. /\ Len(y) = Len(to) + (Len(x) - Len(from))
      /\ \A i \in 1 .. Len(x) - Len(from) : y[Len(to) + i] = x[Len(from) + i]
  BY DEF Renamed
<1>2. /\ Len(y) = Len(to) + (Len(z) - Len(from))
      /\ \A i \in 1 .. Len(z) - Len(from) : y[Len(to) + i] = z[Len(from) + i]
  BY DEF Renamed
<1>3. Len(x) = Len(z) BY <1>1, <1>2
<1>4. ASSUME NEW i \in 1 .. Len(x) PROVE x[i] = z[i]
  <2>1. CASE i <= Len(from) BY <2>1, UnderIs
  <2>2. CASE i > Len(from)
    <3>1. i - Len(from) \in 1 .. Len(x) - Len(from) /\ i = Len(from) + (i - Len(from))
      BY <2>2
    <3> QED BY <3>1, <1>1, <1>2, <1>3
  <2> QED BY <2>1, <2>2
<1> QED BY <1>3, <1>4, SeqEqual

LEMMA RebaseOnce ==
    ASSUME NEW x \in Seq(STRING), NEW z \in Seq(STRING),
           NEW from \in Seq(STRING), NEW to \in Seq(STRING),
           Under(from, x), Under(from, z), Rebase(x, from, to) = Rebase(z, from, to)
    PROVE  x = z
BY RebaseIs, RenamedOnce

\* What is above the new name of x is above `to', or the new name of what is above x.
LEMMA AboveRebased ==
    ASSUME NEW x \in Path, NEW from \in Path, NEW to \in Path, NEW q \in Path,
           Under(from, x), Under(q, Rebase(x, from, to)), Len(to) <= Len(q)
    PROVE  \E z \in Path : Under(from, z) /\ Under(z, x) /\ q = Rebase(z, from, to)
<1> DEFINE y == Rebase(x, from, to)
           n == Len(from) + (Len(q) - Len(to))
           z == SubSeq(x, 1, n)
<1>0. /\ x \in Seq(STRING) /\ from \in Seq(STRING) /\ to \in Seq(STRING) /\ q \in Seq(STRING)
      /\ Len(from) \in Nat \ {0} /\ Len(to) \in Nat
  BY PathIs
<1>1. Renamed(y, x, from, to) BY <1>0, RebaseIs
<1> HIDE DEF y
<1>2. Len(from) <= Len(x) /\ \A i \in 1 .. Len(from) : from[i] = x[i]
  BY <1>0, UnderIs
<1>3. Len(q) <= Len(y) /\ \A i \in 1 .. Len(q) : q[i] = y[i]
  BY <1>0, <1>1, UnderIs DEF Renamed, y
<1>4. n \in 1 .. Len(x)
  BY <1>0, <1>1, <1>2, <1>3 DEF Renamed
<1>5. z \in Path
  BY <1>4, PathsAssumption
<1>6. z \in Seq(STRING) /\ Len(z) = n /\ \A i \in 1 .. n : z[i] = x[i]
  BY <1>0, <1>4
<1>7. n = Len(from) + (Len(q) - Len(to))
  OBVIOUS
<1> HIDE DEF n, z
<1>8. Under(z, x) BY <1>0, <1>4, <1>6, UnderIs
<1>9. Under(from, z)
  <2>1. Len(from) <= n /\ \A i \in 1 .. Len(from) : from[i] = z[i]
    BY <1>0, <1>2, <1>4, <1>6, <1>7
  <2> QED BY <1>0, <1>6, <2>1, UnderIs
<1>10. Renamed(q, z, from, to)
  <2>1. Len(q) = Len(to) + (Len(z) - Len(from)) BY <1>0, <1>6, <1>7
  <2>2. \A i \in 1 .. Len(to) : q[i] = to[i]
    BY <1>0, <1>1, <1>3 DEF Renamed
  <2>3. ASSUME NEW i \in 1 .. Len(z) - Len(from) PROVE q[Len(to) + i] = z[Len(from) + i]
    <3>1. Len(to) + i \in 1 .. Len(q) /\ Len(from) + i \in 1 .. n /\ i \in 1 .. Len(x) - Len(from)
      BY <1>0, <1>2, <1>4, <1>6, <1>7
    <3> QED BY <3>1, <1>1, <1>3, <1>6 DEF Renamed
  <2> QED BY <1>0, <2>1, <2>2, <2>3 DEF Renamed
<1>11. Renamed(Rebase(z, from, to), z, from, to) BY <1>0, <1>6, <1>9, RebaseIs
<1>12. q = Rebase(z, from, to)
  <2> DEFINE w == Rebase(z, from, to)
  <2>1. Renamed(w, z, from, to) BY <1>11
  <2> HIDE DEF w
  <2>2. Len(w) = Len(q) BY <2>1, <1>10 DEF Renamed
  <2>3. ASSUME NEW i \in 1 .. Len(q) PROVE w[i] = q[i]
    <3>1. CASE i <= Len(to)
      BY <3>1, <1>0, <1>10, <2>1 DEF Renamed
    <3>2. CASE i > Len(to)
      <4> DEFINE j == i - Len(to)
      <4>1. j \in 1 .. Len(z) - Len(from) /\ i = Len(to) + j
        BY <3>2, <1>0, <1>6, <1>10 DEF Renamed
      <4> HIDE DEF j
      <4> QED BY <4>1, <1>10, <2>1 DEF Renamed
    <3> QED BY <3>1, <3>2, <1>0
  <2>4. w \in Seq(STRING) BY <2>1 DEF Renamed
  <2>5. w = q BY <2>2, <2>3, <2>4, <1>0, SeqEqual
  <2> QED BY <2>5 DEF w
<1> QED BY <1>5, <1>8, <1>9, <1>12
-----------------------------------------------------------------------------
(* The steps of a handler *)

LEMMA IdleType == Idle \in Request /\ Checked(Idle) /\ Idle.lone = FALSE /\ Idle.pc = "idle"
BY DEF Idle, Request, Pc, Owner, Marks, NoMarks, Checked

\* Goto, and what two steps store in the request as they go on.
LEMMA GotoReq ==
    ASSUME req \in [Req -> Request], NEW r \in Req, NEW pc \in Pc, Goto(r, pc)
    PROVE  /\ req' \in [Req -> Request]
           /\ \A x \in Req \ {r} : req'[x] = req[x]
           /\ req'[r].pc = pc
           /\ req'[r].u = req[r].u /\ req'[r].p = req[r].p /\ req'[r].q = req[r].q
           /\ req'[r].lone = req[r].lone
BY DEF Goto, Request

LEMMA SelectReq ==
    ASSUME req \in [Req -> Request], NEW r \in Req, NEW pc \in Pc, NEW todo \in SUBSET Path,
           req' = [req EXCEPT ![r].pc = pc, ![r].todo = todo]
    PROVE  /\ req' \in [Req -> Request]
           /\ \A x \in Req \ {r} : req'[x] = req[x]
           /\ req'[r].pc = pc
           /\ req'[r].p = req[r].p /\ req'[r].q = req[r].q
           /\ req'[r].lone = req[r].lone
BY DEF Request

LEMMA ReadReq ==
    ASSUME req \in [Req -> Request], NEW r \in Req, NEW snap \in Marks,
           req' = [req EXCEPT ![r].pc = "install", ![r].snap = snap]
    PROVE  /\ req' \in [Req -> Request]
           /\ \A x \in Req \ {r} : req'[x] = req[x]
           /\ req'[r].pc = "install" /\ req'[r].snap = snap
           /\ req'[r].lone = req[r].lone
<1>1. req' = [req EXCEPT ![r] = [req[r] EXCEPT !.pc = "install", !.snap = snap]]
  OBVIOUS
<1>2. /\ [req[r] EXCEPT !.pc = "install", !.snap = snap] \in Request
      /\ [req[r] EXCEPT !.pc = "install", !.snap = snap].pc = "install"
      /\ [req[r] EXCEPT !.pc = "install", !.snap = snap].snap = snap
      /\ [req[r] EXCEPT !.pc = "install", !.snap = snap].lone = req[r].lone
  BY DEF Request, Pc
<1> QED BY <1>1, <1>2

LEMMA AnswerReq ==
    ASSUME req \in [Req -> Request], NEW r \in Req, Answer(r)
    PROVE  /\ req' \in [Req -> Request]
           /\ \A x \in Req \ {r} : req'[x] = req[x]
           /\ req'[r] = Idle
BY IdleType DEF Answer

\* A step of request r that is going on leaves what is known of the others.
LEMMA Frame ==
    ASSUME AllChecked, Alone, NEW r \in Req, req[r].pc # "idle",
           \A x \in Req \ {r} : req'[x] = req[x],
           Checked(req'[r]),
           req'[r].lone => req[r].lone,
           req'[r].lone /\ req'[r].pc = "install" => req'[r].snap = db'
    PROVE  AllChecked' /\ Alone'
<1>1. AllChecked'
  BY DEF AllChecked, Checked
<1>2. Alone'
  <2> SUFFICES ASSUME NEW x \in Req, req'[x].lone
               PROVE  /\ \A q \in Req \ {x} : req'[q].pc = "idle"
                      /\ req'[x].pc = "install" => req'[x].snap = db'
    BY DEF Alone
  <2>1. x = r
    BY DEF Alone
  <2> QED BY <2>1 DEF Alone
<1> QED BY <1>1, <1>2

\* A step after which the request has no path to check and nothing to install.
LEMMA FrameAnswer ==
    ASSUME IInv, NEW r \in Req, req[r].pc # "idle", Answer(r)
    PROVE  req' \in [Req -> Request] /\ AllChecked' /\ Alone'
BY AnswerReq, IdleType, Frame DEF IInv, TypeOK

LEMMA FrameGoto ==
    ASSUME IInv, NEW r \in Req, req[r].pc # "idle", NEW pc \in Pc \ {"install"},
           Goto(r, pc),
           pc \in {"set", "unset"} => req[r].p \in Path,
           pc \in {"rename", "select", "update"} =>
                req[r].p \in Path /\ req[r].q \in Path /\ Fits(req[r].p, req[r].q)
    PROVE  req' \in [Req -> Request] /\ AllChecked' /\ Alone'
<1>1. /\ req' \in [Req -> Request]
      /\ \A x \in Req \ {r} : req'[x] = req[x]
      /\ req'[r].pc = pc
      /\ req'[r].p = req[r].p /\ req'[r].q = req[r].q
      /\ req'[r].lone = req[r].lone
  BY GotoReq DEF IInv, TypeOK
<1>2. Checked(req'[r])
  BY <1>1 DEF Checked
<1> QED BY <1>1, <1>2, Frame DEF IInv

\* A new request finds others in progress, or is alone and has installed nothing.
LEMMA StartKeeps ==
    ASSUME IInv, NEW r \in Req, NEW pc \in Pc \ {"install"}, NEW u \in Owner,
           NEW p \in Path \cup {Gone}, NEW q \in Path \cup {Gone},
           Start(r, pc, u, p, q),
           pc \in {"set", "unset"} => p \in Path,
           pc \in {"rename", "select", "update"} => p \in Path /\ q \in Path /\ Fits(p, q)
    PROVE  IInv'
<1> DEFINE new == [Idle EXCEPT !.pc = pc, !.u = u, !.p = p, !.q = q, !.lone = Rest]
<1>1. /\ new \in Request
      /\ new.pc = pc /\ new.p = p /\ new.q = q /\ new.lone = Rest
  BY DEF Idle, Request, NoMarks, Marks, Owner, Rest, At
<1>2. \A x \in Req \ {r} : /\ [req[x] EXCEPT !.lone = FALSE] \in Request
                           /\ [req[x] EXCEPT !.lone = FALSE].pc = req[x].pc
                           /\ [req[x] EXCEPT !.lone = FALSE].p = req[x].p
                           /\ [req[x] EXCEPT !.lone = FALSE].q = req[x].q
                           /\ [req[x] EXCEPT !.lone = FALSE].lone = FALSE
  BY DEF IInv, TypeOK, Request
<1> HIDE DEF new
<1>3. /\ req' = [x \in Req |-> IF x = r THEN new ELSE [req[x] EXCEPT !.lone = FALSE]]
      /\ UNCHANGED <<db, cache, users, at, intent>>
  BY DEF Start, new
<1>4. req' \in [Req -> Request]
  BY <1>1, <1>2, <1>3
<1>5. TypeOK'
  BY <1>3, <1>4 DEF IInv, TypeOK
<1>6. AllChecked'
  BY <1>1, <1>2, <1>3 DEF IInv, AllChecked, Checked
<1>7. Alone'
  <2> SUFFICES ASSUME NEW x \in Req, req'[x].lone
               PROVE  /\ \A y \in Req \ {x} : req'[y].pc = "idle"
                      /\ req'[x].pc = "install" => req'[x].snap = db'
    BY DEF Alone
  <2>1. x = r /\ Rest
    BY <1>1, <1>2, <1>3
  <2>2. \A y \in Req \ {x} : req'[y].pc = "idle"
    BY <1>2, <1>3, <2>1 DEF Rest, At
  <2> QED BY <1>1, <1>3, <2>1, <2>2
<1>8. RowsHaveOwners'
  BY <1>3 DEF IInv, RowsHaveOwners
<1> QED BY <1>5, <1>6, <1>7, <1>8 DEF IInv

-----------------------------------------------------------------------------
(* Requests begin *)

LEMMA CallKeeps ==
    ASSUME IInv, NEW r \in Req, Call(r)
    PROVE  IInv'
<1>1. ASSUME NEW u \in User, NEW p \in Path, SetCheck(r, u, p) PROVE IInv'
  BY <1>1, StartKeeps DEF SetCheck, Pc, Owner
<1>2. ASSUME NEW u \in User, NEW p \in Path, UnsetCheck(r, u, p) PROVE IInv'
  BY <1>2, StartKeeps DEF UnsetCheck, Pc, Owner
<1>3. ASSUME NEW u \in User, NEW p \in Path, DeleteCheck(r, u, p) PROVE IInv'
  BY <1>3, StartKeeps DEF DeleteCheck, Pc, Owner
<1>4. ASSUME NEW u \in User, NEW p \in Path, NEW to \in Path, MoveCheck(r, u, p, to)
      PROVE  IInv'
  BY <1>4, StartKeeps DEF MoveCheck, Pc, Owner
<1>5. ASSUME NEW u \in User, DeleteUserCheck(r, u) PROVE IInv'
  BY <1>5, StartKeeps DEF DeleteUserCheck, Pc, Owner
<1> QED BY <1>1, <1>2, <1>3, <1>4, <1>5 DEF Call

-----------------------------------------------------------------------------
(* Requests go on *)

LEMMA IntendType ==
    ASSUME TypeOK, NEW new \in [Folder -> Owner], Intend(new)
    PROVE  intent' \in [Folder -> Owner]
BY DEF Intend, TypeOK

LEMMA SetRowKeeps ==
    ASSUME IInv, NEW r \in Req, SetRow(r)
    PROVE  IInv'
<1>1. req[r].pc = "set" /\ UNCHANGED <<cache, users, at>>
  BY DEF SetRow, At
<1>2. CASE /\ req[r].u \in users
           /\ db' = [db EXCEPT ![req[r].p] = req[r].u]
           /\ Intend([f \in Folder |-> IF at[f] = req[r].p THEN req[r].u ELSE intent[f]])
           /\ Goto(r, "read")
  <2>1. req' \in [Req -> Request] /\ AllChecked' /\ Alone'
    BY <1>1, <1>2, FrameGoto DEF Pc
  <2>2. req[r].u \in Owner
    BY <1>2 DEF IInv, TypeOK, Owner
  <2>3. intent' \in [Folder -> Owner]
    <3>1. [f \in Folder |-> IF at[f] = req[r].p THEN req[r].u ELSE intent[f]] \in [Folder -> Owner]
      BY <2>2 DEF IInv, TypeOK
    <3> QED BY <1>2, <3>1, IntendType DEF IInv
  <2>4. db' \in Marks
    BY <1>2, <2>2 DEF IInv, TypeOK, Marks
  <2>5. TypeOK'
    BY <1>1, <2>1, <2>3, <2>4 DEF IInv, TypeOK
  <2>6. RowsHaveOwners'
    BY <1>1, <1>2 DEF IInv, TypeOK, Marks, RowsHaveOwners
  <2> QED BY <2>1, <2>5, <2>6 DEF IInv
<1>3. CASE Answer(r) /\ UNCHANGED <<db, intent>>
  <2>1. req' \in [Req -> Request] /\ AllChecked' /\ Alone'
    BY <1>1, <1>3, FrameAnswer
  <2>2. TypeOK' /\ RowsHaveOwners'
    BY <1>1, <1>3, <2>1 DEF IInv, TypeOK, RowsHaveOwners
  <2> QED BY <2>1, <2>2 DEF IInv
<1> QED BY <1>2, <1>3 DEF SetRow

LEMMA UnsetRowKeeps ==
    ASSUME IInv, NEW r \in Req, UnsetRow(r)
    PROVE  IInv'
<1>1. /\ req[r].pc = "unset" /\ Goto(r, "read")
      /\ db' = [db EXCEPT ![req[r].p] = Public]
      /\ Intend([f \in Folder |-> IF at[f] = req[r].p THEN Public ELSE intent[f]])
      /\ UNCHANGED <<cache, users, at>>
  BY DEF UnsetRow, At
<1>2. req' \in [Req -> Request] /\ AllChecked' /\ Alone'
  BY <1>1, FrameGoto DEF Pc
<1>3. intent' \in [Folder -> Owner]
  <2>1. [f \in Folder |-> IF at[f] = req[r].p THEN Public ELSE intent[f]] \in [Folder -> Owner]
    BY DEF IInv, TypeOK, Owner
  <2> QED BY <1>1, <2>1, IntendType DEF IInv
<1>4. TypeOK'
  BY <1>1, <1>2, <1>3 DEF IInv, TypeOK, Marks, Owner
<1>5. RowsHaveOwners'
  BY <1>1 DEF IInv, TypeOK, Marks, RowsHaveOwners
<1> QED BY <1>2, <1>4, <1>5 DEF IInv

\* What MkdirAll leaves and what it makes.
LEMMA TreeMade ==
    ASSUME TypeOK, NEW p, NEW t \in MkdirAll(p)
    PROVE  /\ t \in [Folder -> Path \cup {Gone}]
           /\ \A f \in Folder : \/ t[f] = at[f]
                                \/ /\ at[f] = Gone /\ t[f] \in Path
                                   /\ Under(t[f], p) /\ ~Exists(t[f])
           /\ \A q \in Path : Under(q, p) => \E f \in Folder : t[f] = q
<1>1. /\ t \in [Folder -> Missing(p) \cup {at[f] : f \in Folder}]
      /\ \A f \in Folder : t[f] = at[f] \/ (at[f] = Gone /\ t[f] \in Missing(p))
      /\ \A q \in Missing(p) : \E f \in Folder : {g \in Folder : t[g] = q} = {f}
  BY DEF MkdirAll
<1>2. t \in [Folder -> Path \cup {Gone}]
  BY <1>1 DEF Missing, TypeOK
<1>3. \A q \in Missing(p) : q \in Path /\ Under(q, p) /\ ~Exists(q)
  BY DEF Missing
<1>4. ASSUME NEW q \in Path, Under(q, p) PROVE \E f \in Folder : t[f] = q
  <2>1. CASE q \in Missing(p) BY <1>1, <2>1
  <2>2. CASE q \notin Missing(p)
    <3>1. PICK f \in Folder : at[f] = q BY <1>4, <2>2 DEF Missing, Exists
    <3> QED BY <1>1, <3>1, PathsAssumption
  <2> QED BY <2>1, <2>2
<1> QED BY <1>1, <1>2, <1>3, <1>4

LEMMA MoveTreeKeeps ==
    ASSUME IInv, NEW r \in Req, MoveTree(r)
    PROVE  IInv'
<1> DEFINE from == req[r].p
           to   == req[r].q
<1>1. /\ req[r].pc = "rename"
      /\ UNCHANGED <<db, cache, users, intent>>
  BY DEF MoveTree, At
<1>2. from \in Path /\ to \in Path /\ Fits(from, to)
  BY <1>1 DEF IInv, AllChecked, Checked
<1>3. ASSUME NEW t \in MkdirAll(Parent(to)),
             at' = [f \in Folder |-> IF at[f] # Gone /\ Under(from, at[f])
                                     THEN Rebase(at[f], from, to) ELSE t[f]],
             Goto(r, "select")
      PROVE  IInv'
  <2>1. req' \in [Req -> Request] /\ AllChecked' /\ Alone'
    BY <1>1, <1>2, <1>3, FrameGoto DEF Pc
  <2>2. at' \in [Folder -> Path \cup {Gone}]
    <3>1. t \in [Folder -> Path \cup {Gone}]
      BY TreeMade DEF IInv
    <3>2. \A f \in Folder : at[f] # Gone /\ Under(from, at[f]) =>
                                Rebase(at[f], from, to) \in Path
      BY <1>2 DEF IInv, TypeOK, Fits
    <3> HIDE DEF from, to
    <3> QED BY <1>3, <3>1, <3>2
  <2>3. TypeOK' /\ RowsHaveOwners'
    BY <1>1, <2>1, <2>2 DEF IInv, TypeOK, RowsHaveOwners
  <2> QED BY <2>1, <2>3 DEF IInv
<1>4. ASSUME Answer(r), at' \in [Folder -> Path \cup {Gone}] PROVE IInv'
  <2>1. req' \in [Req -> Request] /\ AllChecked' /\ Alone'
    BY <1>1, <1>4, FrameAnswer
  <2>2. TypeOK' /\ RowsHaveOwners'
    BY <1>1, <1>4, <2>1 DEF IInv, TypeOK, RowsHaveOwners
  <2> QED BY <2>1, <2>2 DEF IInv
<1>5. ASSUME NEW t \in MkdirAll(Parent(to)), at' = t, Answer(r) PROVE IInv'
  BY <1>4, <1>5, TreeMade DEF IInv
<1>6. CASE Answer(r) /\ UNCHANGED at
  BY <1>4, <1>6 DEF IInv, TypeOK
<1> QED BY <1>3, <1>5, <1>6 DEF MoveTree

LEMMA RenameSelectKeeps ==
    ASSUME IInv, NEW r \in Req, RenameSelect(r)
    PROVE  IInv'
<1> DEFINE todo == {p \in Path : db[p] # Public /\ Under(req[r].p, p)}
<1>1. /\ req[r].pc = "select"
      /\ req' = [req EXCEPT ![r].pc = "update", ![r].todo = todo]
      /\ UNCHANGED <<db, cache, users, at, intent>>
  BY DEF RenameSelect, At
<1>2. todo \in SUBSET Path
  OBVIOUS
<1> HIDE DEF todo
<1>3. /\ req' \in [Req -> Request]
      /\ \A x \in Req \ {r} : req'[x] = req[x]
      /\ req'[r].pc = "update"
      /\ req'[r].p = req[r].p /\ req'[r].q = req[r].q
      /\ req'[r].lone = req[r].lone
  BY <1>1, <1>2, SelectReq DEF IInv, TypeOK, Pc
<1>4. Checked(req'[r])
  BY <1>1, <1>3 DEF Checked, IInv, AllChecked
<1>5. AllChecked' /\ Alone'
  BY <1>1, <1>3, <1>4, Frame DEF IInv
<1>6. TypeOK' /\ RowsHaveOwners'
  BY <1>1, <1>3 DEF IInv, TypeOK, RowsHaveOwners
<1> QED BY <1>5, <1>6 DEF IInv

LEMMA RenameRowKeeps ==
    ASSUME IInv, NEW r \in Req, RenameRow(r)
    PROVE  IInv'
<1>1. req[r].pc = "update" /\ UNCHANGED <<cache, users, at, intent>>
  BY DEF RenameRow, At
<1>2. PICK p \in req[r].todo :
        LET to == Rebase(p, req[r].p, req[r].q)
        IN  \/ Answer(r) /\ UNCHANGED db
            \/ /\ db' = IF db[p] = Public THEN db
                        ELSE [db EXCEPT ![p] = Public, ![to] = db[p]]
               /\ req' = [req EXCEPT ![r].todo = @ \ {p}]
  BY DEF RenameRow
<1>3. p \in Path
  BY DEF IInv, TypeOK, Request
<1>4. CASE Answer(r) /\ UNCHANGED db
  <2>1. req' \in [Req -> Request] /\ AllChecked' /\ Alone'
    BY <1>1, <1>4, FrameAnswer
  <2>2. TypeOK' /\ RowsHaveOwners'
    BY <1>1, <1>4, <2>1 DEF IInv, TypeOK, RowsHaveOwners
  <2> QED BY <2>1, <2>2 DEF IInv
<1>5. ASSUME NEW to,
             db' = IF db[p] = Public THEN db ELSE [db EXCEPT ![p] = Public, ![to] = db[p]],
             req' = [req EXCEPT ![r].todo = @ \ {p}]
      PROVE  IInv'
  <2>1. /\ req' \in [Req -> Request]
        /\ \A x \in Req \ {r} : req'[x] = req[x]
        /\ req'[r].pc = req[r].pc
        /\ req'[r].p = req[r].p /\ req'[r].q = req[r].q
        /\ req'[r].lone = req[r].lone
    BY <1>5 DEF IInv, TypeOK, Request
  <2>2. Checked(req'[r])
    BY <2>1 DEF Checked, IInv, AllChecked
  <2>3. AllChecked' /\ Alone'
    BY <1>1, <2>1, <2>2, Frame DEF IInv
  <2>4. \A x \in Path : db'[x] \in {db[x], Public, db[p]}
    BY <1>5 DEF IInv, TypeOK, Marks
  <2>5. db' \in Marks
    BY <1>3, <1>5 DEF IInv, TypeOK, Marks, Owner
  <2>6. TypeOK'
    BY <1>1, <2>1, <2>5 DEF IInv, TypeOK
  <2>7. RowsHaveOwners'
    BY <1>1, <1>3, <2>4 DEF IInv, RowsHaveOwners
  <2> QED BY <2>3, <2>6, <2>7 DEF IInv
<1> QED BY <1>2, <1>4, <1>5

\* Steps that only go on.
LEMMA RenameDoneKeeps ==
    ASSUME IInv, NEW r \in Req, RenameDone(r)
    PROVE  IInv'
<1>1. req' \in [Req -> Request] /\ AllChecked' /\ Alone'
  BY FrameGoto DEF RenameDone, At, Pc
<1> QED BY <1>1 DEF RenameDone, IInv, TypeOK, RowsHaveOwners

LEMMA RemoveTreeKeeps ==
    ASSUME IInv, NEW r \in Req, RemoveTree(r)
    PROVE  IInv'
<1> DEFINE gone == {f \in Folder : at[f] # Gone /\ Under(req[r].p, at[f])}
<1>1. req[r].pc = "remove" /\ UNCHANGED <<db, cache, users>>
  BY DEF RemoveTree, At
<1>2. CASE /\ at' = [f \in Folder |-> IF f \in gone THEN Gone ELSE at[f]]
           /\ Intend([f \in Folder |-> IF f \in gone THEN Public ELSE intent[f]])
           /\ Goto(r, "purge")
  <2>1. req' \in [Req -> Request] /\ AllChecked' /\ Alone'
    BY <1>1, <1>2, FrameGoto DEF Pc
  <2>2. at' \in [Folder -> Path \cup {Gone}]
    BY <1>2 DEF IInv, TypeOK
  <2>3. intent' \in [Folder -> Owner]
    <3>1. [f \in Folder |-> IF f \in gone THEN Public ELSE intent[f]] \in [Folder -> Owner]
      BY DEF IInv, TypeOK, Owner
    <3> QED BY <1>2, <3>1, IntendType DEF IInv
  <2>4. TypeOK' /\ RowsHaveOwners'
    BY <1>1, <2>1, <2>2, <2>3 DEF IInv, TypeOK, RowsHaveOwners
  <2> QED BY <2>1, <2>4 DEF IInv
<1>3. CASE Answer(r) /\ UNCHANGED <<at, intent>>
  <2>1. req' \in [Req -> Request] /\ AllChecked' /\ Alone'
    BY <1>1, <1>3, FrameAnswer
  <2>2. TypeOK' /\ RowsHaveOwners'
    BY <1>1, <1>3, <2>1 DEF IInv, TypeOK, RowsHaveOwners
  <2> QED BY <2>1, <2>2 DEF IInv
<1> QED BY <1>2, <1>3 DEF RemoveTree

LEMMA DeletePrivateBelowKeeps ==
    ASSUME IInv, NEW r \in Req, DeletePrivateBelow(r)
    PROVE  IInv'
<1>1. req' \in [Req -> Request] /\ AllChecked' /\ Alone'
  BY FrameGoto DEF DeletePrivateBelow, At, Pc
<1>2. TypeOK'
  BY <1>1 DEF DeletePrivateBelow, IInv, TypeOK, Marks, Owner
<1>3. RowsHaveOwners'
  BY DEF DeletePrivateBelow, IInv, RowsHaveOwners
<1> QED BY <1>1, <1>2, <1>3 DEF IInv

LEMMA DeleteUserRowKeeps ==
    ASSUME IInv, NEW r \in Req, DeleteUserRow(r)
    PROVE  IInv'
<1>1. /\ req[r].pc = "cascade" /\ Goto(r, "read")
      /\ users' = users \ {req[r].u}
      /\ db' = [p \in Path |-> IF db[p] = req[r].u THEN Public ELSE db[p]]
      /\ Intend([f \in Folder |-> IF intent[f] = req[r].u THEN Public ELSE intent[f]])
      /\ UNCHANGED <<cache, at>>
  BY DEF DeleteUserRow, At
<1>2. req' \in [Req -> Request] /\ AllChecked' /\ Alone'
  BY <1>1, FrameGoto DEF Pc
<1>3. intent' \in [Folder -> Owner]
  <2>1. [f \in Folder |-> IF intent[f] = req[r].u THEN Public ELSE intent[f]] \in [Folder -> Owner]
    BY DEF IInv, TypeOK, Owner
  <2> QED BY <1>1, <2>1, IntendType DEF IInv
<1>4. TypeOK'
  BY <1>1, <1>2, <1>3 DEF IInv, TypeOK, Marks, Owner
<1>5. RowsHaveOwners'
  BY <1>1 DEF IInv, RowsHaveOwners
<1> QED BY <1>2, <1>4, <1>5 DEF IInv

LEMMA ReadKeeps ==
    ASSUME IInv, NEW r \in Req, PrivateFoldersRead(r)
    PROVE  IInv'
<1>1. /\ req[r].pc = "read"
      /\ req' = [req EXCEPT ![r].pc = "install", ![r].snap = db]
      /\ UNCHANGED <<db, cache, users, at, intent>>
  BY DEF PrivateFoldersRead, At
<1>2. /\ req' \in [Req -> Request]
      /\ \A x \in Req \ {r} : req'[x] = req[x]
      /\ req'[r].pc = "install" /\ req'[r].snap = db
      /\ req'[r].lone = req[r].lone
  BY <1>1, ReadReq DEF IInv, TypeOK
<1>3. Checked(req'[r])
  BY <1>2 DEF Checked
<1>4. AllChecked' /\ Alone'
  BY <1>1, <1>2, <1>3, Frame DEF IInv
<1>5. TypeOK' /\ RowsHaveOwners'
  BY <1>1, <1>2 DEF IInv, TypeOK, RowsHaveOwners
<1> QED BY <1>4, <1>5 DEF IInv

LEMMA InstallKeeps ==
    ASSUME IInv, NEW r \in Req, Install(r)
    PROVE  IInv'
<1>1. req' \in [Req -> Request] /\ AllChecked' /\ Alone'
  BY FrameAnswer DEF Install, At
<1>2. req[r].snap \in Marks
  BY DEF IInv, TypeOK, Request
<1> QED BY <1>1, <1>2 DEF Install, IInv, TypeOK, RowsHaveOwners

LEMMA DbFailKeeps ==
    ASSUME IInv, NEW r \in Req, DbFail(r)
    PROVE  IInv'
<1>1. req' \in [Req -> Request] /\ AllChecked' /\ Alone'
  BY FrameAnswer DEF DbFail
<1> QED BY <1>1 DEF DbFail, IInv, TypeOK, RowsHaveOwners

-----------------------------------------------------------------------------
(* What is not a request of its own, and all together *)

LEMMA CreateDirKeeps ==
    ASSUME IInv, NEW u \in User, NEW f \in Folder, NEW p \in Path, CreateDir(u, f, p)
    PROVE  IInv'
<1>1. UNCHANGED <<db, cache, users, req, intent>>
  BY DEF CreateDir
<1>2. at' \in [Folder -> Path \cup {Gone}]
  BY TreeMade DEF CreateDir, IInv
<1> QED BY <1>1, <1>2 DEF IInv, TypeOK, AllChecked, Alone, RowsHaveOwners

LEMMA CrashKeeps ==
    ASSUME IInv, Crash
    PROVE  IInv'
<1>1. \A r \in Req : req'[r] = Idle
  BY DEF Crash
<1>2. req' \in [Req -> Request]
  BY IdleType DEF Crash
<1>3. AllChecked' /\ Alone'
  BY <1>1, IdleType DEF AllChecked, Alone
<1> QED BY <1>2, <1>3 DEF Crash, IInv, TypeOK, RowsHaveOwners

LEMMA Starts == Init => IInv
<1> SUFFICES ASSUME Init PROVE IInv
  OBVIOUS
<1>1. NoMarks \in Marks
  BY DEF NoMarks, Marks, Owner
<1>2. TypeOK
  BY <1>1, IdleType DEF Init, TypeOK, Owner
<1>3. AllChecked /\ Alone
  BY IdleType DEF Init, AllChecked, Alone
<1>4. RowsHaveOwners
  BY DEF Init, RowsHaveOwners, NoMarks
<1> QED BY <1>2, <1>3, <1>4 DEF IInv

LEMMA Keeps == IInv /\ [Next]_vars => IInv'
<1> SUFFICES ASSUME IInv, [Next]_vars PROVE IInv'
  OBVIOUS
<1>1. ASSUME NEW r \in Req, Call(r) PROVE IInv'
  BY <1>1, CallKeeps
<1>2. ASSUME NEW r \in Req, Continue(r) PROVE IInv'
  BY <1>2, SetRowKeeps, UnsetRowKeeps, MoveTreeKeeps, RenameSelectKeeps, RenameRowKeeps,
     RenameDoneKeeps, RemoveTreeKeeps, DeletePrivateBelowKeeps, DeleteUserRowKeeps,
     ReadKeeps, InstallKeeps DEF Continue
<1>6. ASSUME NEW r \in Req, DbFail(r) PROVE IInv'
  BY <1>6, DbFailKeeps
<1>3. ASSUME NEW u \in User, NEW f \in Folder, NEW p \in Path, CreateDir(u, f, p)
      PROVE  IInv'
  BY <1>3, CreateDirKeeps
<1>4. ASSUME Crash PROVE IInv'
  BY <1>4, CrashKeeps
<1>5. ASSUME UNCHANGED vars PROVE IInv'
  BY <1>5 DEF vars, IInv, TypeOK, AllChecked, Alone, RowsHaveOwners
<1> QED BY <1>1, <1>2, <1>3, <1>4, <1>5, <1>6 DEF Next

LEMMA Invariance == Spec => []IInv
BY Starts, Keeps, PTL DEF Spec

-----------------------------------------------------------------------------
(* The serial workload: one request at a time, and nothing fails           *)

Busy(r) == req[r].pc # "idle"

\* Marks that the request x, a move, has still to carry to where their directories are,
\* and marks that x, a delete, has still to clear.
Waiting(x, p) ==
    \/ x.pc = "select" /\ Under(x.p, p)
    \/ x.pc = "update" /\ p \in x.todo

Place(x, p) == IF Waiting(x, p) THEN Rebase(p, x.p, x.q) ELSE p

Doomed(x, p) == x.pc = "purge" /\ Under(x.p, p)

\* With x in progress, every mark is on its way to the one directory it is meant for.
MarksHaveFolders(x) ==
    \A p \in Path : db[p] # Public /\ ~Doomed(x, p) =>
        /\ Exists(Place(x, p))
        /\ \A f \in Folder : at[f] = Place(x, p) => intent[f] = db[p]

FoldersHaveMarks(x) ==
    \A f \in Folder : at[f] # Gone /\ intent[f] # Public =>
        /\ ~Doomed(x, at[f])
        /\ \E p \in Path : db[p] = intent[f] /\ Place(x, p) = at[f]

NoneMeet(x) ==
    \A p, q \in Path : db[p] # Public /\ db[q] # Public /\ Place(x, p) = Place(x, q) => p = q

CopyIsTable(x) ==
    /\ x.pc \notin {"update", "read", "install"} => cache = db
    /\ x.pc = "install" => x.snap = db

\* What x has found out is still so.
StillHolds(x) ==
    /\ x.pc = "set" => Exists(x.p)
    /\ x.pc \in {"set", "remove"} => x.p \in Path
    /\ x.pc = "unset" /\ x.u \notin Admins => db[x.p] \in {Public, x.u}
    /\ x.pc \in {"select", "update"} => ~Under(x.p, x.q) /\ ~Under(x.q, x.p)
    /\ x.pc = "update" => \A p \in x.todo : Under(x.p, p)

InStep(x) ==
    /\ MarksHaveFolders(x) /\ FoldersHaveMarks(x) /\ NoneMeet(x)
    /\ CopyIsTable(x) /\ StillHolds(x)

\* The tree has no holes, and what is not in it is nobody's.
TreeIsWhole ==
    /\ \A f \in Folder, q \in Path : at[f] # Gone /\ Under(q, at[f]) => Exists(q)
    /\ \A f \in Folder : at[f] = Gone => intent[f] = Public

OneAtATime == \A r, q \in Req : Busy(r) /\ Busy(q) => r = q

SerialInv ==
    /\ OneAtATime /\ TreeIsWhole
    /\ \A r \in Req : Busy(r) => InStep(req[r])
    /\ Rest => InStep(Idle)

SInv == workload = "serial" => SerialInv

-----------------------------------------------------------------------------
(* How a serial step keeps its invariant *)

Follow(x) == MarksHaveFolders(x) /\ FoldersHaveMarks(x) /\ NoneMeet(x)

\* No mark is on its way.
Plain(x) == x.pc \notin {"select", "update", "purge"}

LEMMA PlainPlaces ==
    ASSUME NEW x, Plain(x), NEW p PROVE Place(x, p) = p /\ ~Doomed(x, p)
BY DEF Plain, Place, Waiting, Doomed

LEMMA IdlePlain == Plain(Idle) /\ Idle.pc = "idle"
BY DEF Plain, Idle

\* The request is now y, and every other one is idle.
LEMMA SerialFrame ==
    ASSUME NEW r \in Req, NEW y, req'[r] = y, y.pc = "idle" => y = Idle,
           \A x \in Req \ {r} : req'[x].pc = "idle",
           TreeIsWhole', InStep(y)'
    PROVE  SerialInv'
<1>1. OneAtATime' BY DEF OneAtATime, Busy
<1>2. ASSUME NEW x \in Req, Busy(x)' PROVE InStep(req[x])'
  <2>1. x = r BY <1>2 DEF Busy
  <2> QED BY <2>1 DEF InStep, MarksHaveFolders, FoldersHaveMarks, NoneMeet, CopyIsTable,
                      StillHolds, Exists
<1>3. ASSUME Rest' PROVE InStep(Idle)'
  <2>1. y = Idle BY <1>3 DEF Rest, At
  <2> QED BY <2>1
<1> QED BY <1>1, <1>2, <1>3 DEF SerialInv

LEMMA OthersIdle ==
    ASSUME SerialInv, NEW r \in Req, Busy(r), \A x \in Req \ {r} : req'[x] = req[x]
    PROVE  \A x \in Req \ {r} : req'[x].pc = "idle"
BY DEF SerialInv, OneAtATime, Busy

\* The marks go on following where they are left alone.
LEMMA MarksLeft ==
    ASSUME NEW x, NEW y, Follow(x), UNCHANGED <<db, at, intent>>,
           \A p \in Path : db[p] # Public => Place(y, p) = Place(x, p),
           \A p \in Path : Doomed(y, p) <=> Doomed(x, p),
           at \in [Folder -> Path \cup {Gone}]
    PROVE  Follow(y)'
<1>1. MarksHaveFolders(y)'
  BY DEF Follow, MarksHaveFolders, Exists
<1>2. FoldersHaveMarks(y)'
  <2> SUFFICES ASSUME NEW f \in Folder, at[f] # Gone, intent[f] # Public
               PROVE  /\ ~Doomed(y, at[f])
                      /\ \E p \in Path : db[p] = intent[f] /\ Place(y, p) = at[f]
    BY DEF FoldersHaveMarks
  <2>1. PICK p \in Path : db[p] = intent[f] /\ Place(x, p) = at[f]
    BY DEF Follow, FoldersHaveMarks
  <2>2. ~Doomed(x, at[f]) BY DEF Follow, FoldersHaveMarks
  <2> QED BY <2>1, <2>2
<1>3. NoneMeet(y)'
  BY DEF Follow, NoneMeet
<1> QED BY <1>1, <1>2, <1>3 DEF Follow

LEMMA PlainLeft ==
    ASSUME NEW x, NEW y, Follow(x), UNCHANGED <<db, at, intent>>, Plain(x), Plain(y), TypeOK
    PROVE  Follow(y)'
BY MarksLeft, PlainPlaces DEF TypeOK

LEMMA TreeLeft ==
    ASSUME TreeIsWhole, UNCHANGED at,
           \A f \in Folder : at[f] = Gone => intent'[f] = intent[f]
    PROVE  TreeIsWhole'
BY DEF TreeIsWhole, Exists

LEMMA InStepIs == ASSUME NEW x PROVE InStep(x) <=> Follow(x) /\ CopyIsTable(x) /\ StillHolds(x)
BY DEF InStep, Follow

-----------------------------------------------------------------------------
(* Serial requests begin *)

\* Without overlap the copy tells whose folder it is.
LEMMA OwnerIsMarked ==
    ASSUME NEW p \in Path, NEW u, u # Public, OwningPrivateFolder(cache, p) = u
    PROVE  cache[p] \in {Public, u}
<1> DEFINE holding == {q \in Path : cache[q] # Public /\ Under(q, p)}
           deepest == CHOOSE q \in holding : \A x \in holding : Len(x) <= Len(q)
<1> SUFFICES ASSUME cache[p] # Public PROVE cache[p] = u
  OBVIOUS
<1>1. p \in holding BY UnderSelf, PathIs
<1>2. \A x \in holding : Len(x) <= Len(p) BY DEF Under
<1>3. deepest \in holding /\ \A x \in holding : Len(x) <= Len(deepest) BY <1>1, <1>2
<1>4. cache[deepest] = u BY <1>1 DEF OwningPrivateFolder
<1> HIDE DEF deepest
<1>5. deepest \in Path /\ Under(deepest, p) /\ Len(p) <= Len(deepest) BY <1>1, <1>3
<1>6. deepest = p BY <1>5, UnderSame, PathIs
<1> QED BY <1>4, <1>6

\* What a check found out, and what it starts.
LEMMA SerialStart ==
    ASSUME TypeOK, SerialInv, Rest, NEW r \in Req,
           NEW pc \in {"set", "unset", "rename", "remove", "cascade"}, NEW u, NEW p, NEW q,
           Start(r, pc, u, p, q),
           pc = "set" => Exists(p),
           pc \in {"set", "remove"} => p \in Path,
           pc = "unset" /\ u \notin Admins => cache[p] \in {Public, u}
    PROVE  SerialInv'
<1>1. PICK y : y = [Idle EXCEPT !.pc = pc, !.u = u, !.p = p, !.q = q, !.lone = Rest]
  OBVIOUS
<1>2. y.pc = pc /\ y.u = u /\ y.p = p BY <1>1 DEF Idle
<1>3. /\ req'[r] = y
      /\ \A x \in Req \ {r} : req'[x] = [req[x] EXCEPT !.lone = FALSE]
      /\ UNCHANGED <<db, cache, at, intent>>
  BY <1>1 DEF Start
<1>4. \A x \in Req \ {r} : req'[x].pc = "idle"
  <2>1. \A x \in Req : [req[x] EXCEPT !.lone = FALSE].pc = req[x].pc
    BY DEF TypeOK, Request
  <2> QED BY <1>3, <2>1 DEF Rest, At
<1>5. InStep(Idle) /\ TreeIsWhole BY DEF SerialInv
<1>6. Follow(y)'
  BY <1>2, <1>3, <1>5, PlainLeft, IdlePlain, InStepIs DEF Plain
<1>7. cache = db BY <1>5, IdlePlain DEF InStep, CopyIsTable
<1>8. CopyIsTable(y)' BY <1>2, <1>3, <1>7 DEF CopyIsTable
<1>9. StillHolds(y)' BY <1>2, <1>3, <1>7 DEF StillHolds, Exists
<1>10. TreeIsWhole' BY <1>3, <1>5, TreeLeft
<1>11. InStep(y)' BY <1>6, <1>8, <1>9 DEF InStep, Follow
<1> QED BY <1>2, <1>3, <1>4, <1>10, <1>11, SerialFrame

LEMMA SerialCall ==
    ASSUME TypeOK, SerialInv, Rest, NEW r \in Req, Call(r),
           req'[r].pc = "set" => Exists(req'[r].p)
    PROVE  SerialInv'
<1>1. ASSUME NEW u \in User, NEW p \in Path, SetCheck(r, u, p) PROVE SerialInv'
  <2>1. req'[r].pc = "set" /\ req'[r].p = p BY <1>1 DEF SetCheck, Start, Idle
  <2> QED BY <1>1, <2>1, SerialStart DEF SetCheck
<1>2. ASSUME NEW u \in User, NEW p \in Path, UnsetCheck(r, u, p) PROVE SerialInv'
  <2>1. u \notin Admins => cache[p] \in {Public, u}
    BY <1>2, OwnerIsMarked, AccountsAssumption DEF UnsetCheck
  <2> QED BY <1>2, <2>1, SerialStart DEF UnsetCheck
<1>3. ASSUME NEW u \in User, NEW p \in Path, DeleteCheck(r, u, p) PROVE SerialInv'
  BY <1>3, SerialStart DEF DeleteCheck
<1>4. ASSUME NEW u \in User, NEW p \in Path, NEW to \in Path, MoveCheck(r, u, p, to)
      PROVE  SerialInv'
  BY <1>4, SerialStart DEF MoveCheck
<1>5. ASSUME NEW u \in User, DeleteUserCheck(r, u) PROVE SerialInv'
  BY <1>5, SerialStart DEF DeleteUserCheck
<1> QED BY <1>1, <1>2, <1>3, <1>4, <1>5 DEF Call

-----------------------------------------------------------------------------
(* Serial requests go on *)

\* Goto, for a request on its own.
LEMMA SerialGoto ==
    ASSUME TypeOK, SerialInv, NEW r \in Req, Busy(r), NEW pc \in Pc \ {"idle"}, Goto(r, pc)
    PROVE  /\ req'[r].pc = pc /\ req'[r].u = req[r].u
           /\ req'[r].p = req[r].p /\ req'[r].q = req[r].q
           /\ \A x \in Req \ {r} : req'[x].pc = "idle"
<1>1. /\ \A x \in Req \ {r} : req'[x] = req[x]
      /\ req'[r].pc = pc
      /\ req'[r].u = req[r].u /\ req'[r].p = req[r].p /\ req'[r].q = req[r].q
  BY GotoReq DEF TypeOK
<1> QED BY <1>1, OthersIdle

\* A step after which nothing is left to do but to read the table.
LEMMA SerialToRead ==
    ASSUME TypeOK, SerialInv, NEW r \in Req, Busy(r), Goto(r, "read"),
           TreeIsWhole', \A y : Plain(y) => Follow(y)'
    PROVE  SerialInv'
<1>1. PICK y : y = req'[r] OBVIOUS
<1>2. y.pc = "read" /\ \A x \in Req \ {r} : req'[x].pc = "idle"
  BY <1>1, SerialGoto DEF Pc
<1>3. InStep(y)' BY <1>2 DEF InStep, Follow, Plain, CopyIsTable, StillHolds
<1> QED BY <1>1, <1>2, <1>3, SerialFrame

LEMMA SerialAnswer ==
    ASSUME TypeOK, SerialInv, NEW r \in Req, Busy(r), Answer(r),
           TreeIsWhole', Follow(Idle)', cache' = db'
    PROVE  SerialInv'
<1>1. req'[r] = Idle /\ \A x \in Req \ {r} : req'[x].pc = "idle"
  BY AnswerReq, OthersIdle DEF TypeOK
<1>2. InStep(Idle)'
  BY IdlePlain DEF InStep, Follow, CopyIsTable, StillHolds
<1> QED BY <1>1, <1>2, SerialFrame

LEMMA SerialSetRow ==
    ASSUME "intent" \in Enabled, TypeOK, AllChecked, SerialInv, NEW r \in Req, SetRow(r)
    PROVE  SerialInv'
<1>1. /\ req[r].pc = "set" /\ Busy(r) /\ req[r].p \in Path /\ UNCHANGED <<cache, users, at>>
  BY DEF SetRow, At, Busy, AllChecked, Checked
<1>2. InStep(req[r]) /\ TreeIsWhole /\ Plain(req[r])
  BY <1>1 DEF SerialInv, Plain
<1>3. CASE Answer(r) /\ UNCHANGED <<db, intent>>
  <2>1. Follow(Idle)' BY <1>1, <1>2, <1>3, PlainLeft, IdlePlain, InStepIs
  <2>2. TreeIsWhole' BY <1>1, <1>2, <1>3, TreeLeft
  <2> QED BY <1>1, <1>2, <1>3, <2>1, <2>2, SerialAnswer DEF InStep, CopyIsTable
<1>4. CASE /\ req[r].u \in users
           /\ db' = [db EXCEPT ![req[r].p] = req[r].u]
           /\ Intend([f \in Folder |-> IF at[f] = req[r].p THEN req[r].u ELSE intent[f]])
           /\ Goto(r, "read")
  <2> DEFINE p0 == req[r].p
  <2>1. \A p \in Path : db'[p] = IF p = p0 THEN req[r].u ELSE db[p]
    BY <1>4 DEF TypeOK, Marks
  <2>2. \A f \in Folder : intent'[f] = IF at[f] = p0 THEN req[r].u ELSE intent[f]
    BY <1>4 DEF Intend
  <2>3. Exists(p0) BY <1>1, <1>2 DEF InStep, StillHolds
  <2>4. TreeIsWhole' BY <1>1, <1>2, <2>2, TreeLeft, PathsAssumption
  <2>5. \A p : Place(req[r], p) = p /\ ~Doomed(req[r], p) BY <1>2, PlainPlaces
  <2> HIDE DEF p0
  <2>6. ASSUME NEW y, Plain(y) PROVE Follow(y)'
    <3>1. \A p : Place(y, p) = p /\ ~Doomed(y, p) BY <2>6, PlainPlaces
    <3>2. MarksHaveFolders(y)'
      BY <1>1, <1>2, <2>1, <2>2, <2>3, <2>5, <3>1 DEF InStep, MarksHaveFolders, Exists
    <3>3. FoldersHaveMarks(y)'
      <4> SUFFICES ASSUME NEW f \in Folder, at[f] # Gone, intent'[f] # Public
                   PROVE  db'[at[f]] = intent'[f] /\ at[f] \in Path
        BY <1>1, <3>1 DEF FoldersHaveMarks
      <4>1. at[f] \in Path BY DEF TypeOK
      <4>2. CASE at[f] = p0 BY <4>1, <4>2, <2>1, <2>2
      <4>3. CASE at[f] # p0
        <5>1. intent'[f] = intent[f] BY <4>3, <2>2
        <5>2. \E p \in Path : db[p] = intent[f] /\ Place(req[r], p) = at[f]
          BY <1>2, <5>1 DEF InStep, FoldersHaveMarks
        <5> QED BY <4>1, <4>3, <5>1, <5>2, <2>1, <2>5
      <4> QED BY <4>2, <4>3
    <3>4. NoneMeet(y)' BY <3>1 DEF NoneMeet
    <3> QED BY <3>2, <3>3, <3>4 DEF Follow
  <2> QED BY <1>1, <1>4, <2>4, <2>6, SerialToRead
<1> QED BY <1>3, <1>4 DEF SetRow

LEMMA SerialUnsetRow ==
    ASSUME "intent" \in Enabled, TypeOK, AllChecked, SerialInv, NEW r \in Req, UnsetRow(r)
    PROVE  SerialInv'
<1> DEFINE p0 == req[r].p
<1>1. /\ req[r].pc = "unset" /\ Busy(r) /\ p0 \in Path /\ Goto(r, "read")
      /\ UNCHANGED <<cache, users, at>>
  BY DEF UnsetRow, At, Busy, AllChecked, Checked
<1>2. InStep(req[r]) /\ TreeIsWhole /\ Plain(req[r])
  BY <1>1 DEF SerialInv, Plain
<1>3. \A p \in Path : db'[p] = IF p = p0 THEN Public ELSE db[p]
  BY DEF UnsetRow, TypeOK, Marks
<1>4. \A f \in Folder : intent'[f] = IF at[f] = p0 THEN Public ELSE intent[f]
  BY DEF UnsetRow, Intend
<1>5. \A p : Place(req[r], p) = p /\ ~Doomed(req[r], p) BY <1>2, PlainPlaces
<1> HIDE DEF p0
<1>6. TreeIsWhole' BY <1>1, <1>2, <1>4, TreeLeft, PathsAssumption
<1>7. ASSUME NEW y, Plain(y) PROVE Follow(y)'
  <2>1. \A p : Place(y, p) = p /\ ~Doomed(y, p) BY <1>7, PlainPlaces
  <2>2. MarksHaveFolders(y)'
    BY <1>1, <1>2, <1>3, <1>4, <1>5, <2>1 DEF InStep, MarksHaveFolders, Exists
  <2>3. FoldersHaveMarks(y)'
    <3> SUFFICES ASSUME NEW f \in Folder, at[f] # Gone, intent'[f] # Public
                 PROVE  db'[at[f]] = intent'[f] /\ at[f] \in Path
      BY <1>1, <2>1 DEF FoldersHaveMarks
    <3>1. at[f] \in Path BY DEF TypeOK
    <3>2. at[f] # p0 /\ intent'[f] = intent[f] BY <1>4
    <3>3. \E p \in Path : db[p] = intent[f] /\ Place(req[r], p) = at[f]
      BY <1>2, <3>2 DEF InStep, FoldersHaveMarks
    <3> QED BY <3>1, <3>2, <3>3, <1>3, <1>5
  <2>4. NoneMeet(y)' BY <2>1 DEF NoneMeet
  <2> QED BY <2>2, <2>3, <2>4 DEF Follow
<1> QED BY <1>1, <1>6, <1>7, SerialToRead

LEMMA SerialRenameSelect ==
    ASSUME TypeOK, SerialInv, NEW r \in Req, RenameSelect(r)
    PROVE  SerialInv'
<1> DEFINE todo == {p \in Path : db[p] # Public /\ Under(req[r].p, p)}
<1>1. /\ req[r].pc = "select" /\ Busy(r)
      /\ req' = [req EXCEPT ![r].pc = "update", ![r].todo = todo]
      /\ UNCHANGED <<db, cache, users, at, intent>>
  BY DEF RenameSelect, At, Busy
<1>2. InStep(req[r]) /\ TreeIsWhole
  BY <1>1 DEF SerialInv
<1>3. PICK y : y = req'[r] OBVIOUS
<1>4. /\ \A x \in Req \ {r} : req'[x] = req[x]
      /\ y.pc = "update" /\ y.todo = todo /\ y.p = req[r].p /\ y.q = req[r].q
  BY <1>1, <1>3 DEF TypeOK, Request
<1>5. \A p \in Path : db[p] # Public => Place(y, p) = Place(req[r], p)
  BY <1>1, <1>4 DEF Place, Waiting
<1>6. \A p \in Path : ~Doomed(y, p) /\ ~Doomed(req[r], p)
  BY <1>1, <1>4 DEF Doomed
<1>7. Follow(y)'
  BY <1>1, <1>2, <1>5, <1>6, MarksLeft, InStepIs DEF TypeOK
<1>8. CopyIsTable(y)' /\ StillHolds(y)'
  BY <1>1, <1>2, <1>4 DEF CopyIsTable, StillHolds, InStep, Exists
<1>9. TreeIsWhole' BY <1>1, <1>2, TreeLeft
<1>10. \A x \in Req \ {r} : req'[x].pc = "idle" BY <1>1, <1>4, OthersIdle
<1>11. InStep(y)' BY <1>7, <1>8 DEF InStep, Follow
<1> QED BY <1>3, <1>4, <1>9, <1>10, <1>11, SerialFrame

LEMMA SerialRenameDone ==
    ASSUME TypeOK, SerialInv, NEW r \in Req, RenameDone(r)
    PROVE  SerialInv'
<1>1. /\ req[r].pc = "update" /\ Busy(r) /\ req[r].todo = {} /\ Goto(r, "read")
      /\ UNCHANGED <<db, cache, users, at, intent>>
  BY DEF RenameDone, At, Busy
<1>2. InStep(req[r]) /\ TreeIsWhole
  BY <1>1 DEF SerialInv
<1>3. \A p : Place(req[r], p) = p /\ ~Doomed(req[r], p)
  BY <1>1 DEF Place, Waiting, Doomed
<1>4. \A y : Plain(y) => Follow(y)'
  BY <1>1, <1>2, <1>3, PlainPlaces, MarksLeft, InStepIs DEF TypeOK
<1>5. TreeIsWhole' BY <1>1, <1>2, TreeLeft
<1> QED BY <1>1, <1>4, <1>5, SerialToRead

LEMMA SerialPurge ==
    ASSUME TypeOK, SerialInv, NEW r \in Req, DeletePrivateBelow(r)
    PROVE  SerialInv'
<1>1. /\ req[r].pc = "purge" /\ Busy(r) /\ Goto(r, "read")
      /\ \A p \in Path : db'[p] = IF Under(req[r].p, p) THEN Public ELSE db[p]
      /\ UNCHANGED <<cache, users, at, intent>>
  BY DEF DeletePrivateBelow, At, Busy
<1>2. InStep(req[r]) /\ TreeIsWhole
  BY <1>1 DEF SerialInv
<1>3. \A p : Place(req[r], p) = p /\ (Doomed(req[r], p) <=> Under(req[r].p, p))
  BY <1>1 DEF Place, Waiting, Doomed
<1>4. ASSUME NEW y, Plain(y) PROVE Follow(y)'
  <2>1. \A p : Place(y, p) = p /\ ~Doomed(y, p) BY <1>4, PlainPlaces
  <2>2. MarksHaveFolders(y)'
    BY <1>1, <1>2, <1>3, <2>1 DEF InStep, MarksHaveFolders, Exists
  <2>3. FoldersHaveMarks(y)'
    BY <1>1, <1>2, <1>3, <2>1 DEF InStep, FoldersHaveMarks
  <2>4. NoneMeet(y)' BY <2>1 DEF NoneMeet
  <2> QED BY <2>2, <2>3, <2>4 DEF Follow
<1>5. TreeIsWhole' BY <1>1, <1>2, TreeLeft
<1> QED BY <1>1, <1>4, <1>5, SerialToRead

LEMMA SerialDeleteUserRow ==
    ASSUME "intent" \in Enabled, TypeOK, SerialInv, NEW r \in Req, DeleteUserRow(r)
    PROVE  SerialInv'
<1> DEFINE u == req[r].u
<1>1. /\ req[r].pc = "cascade" /\ Busy(r) /\ Goto(r, "read")
      /\ \A p \in Path : db'[p] = IF db[p] = u THEN Public ELSE db[p]
      /\ \A f \in Folder : intent'[f] = IF intent[f] = u THEN Public ELSE intent[f]
      /\ UNCHANGED <<cache, at>>
  BY DEF DeleteUserRow, At, Busy, Intend
<1>2. InStep(req[r]) /\ TreeIsWhole /\ Plain(req[r])
  BY <1>1 DEF SerialInv, Plain
<1> HIDE DEF u
<1>3. \A p : Place(req[r], p) = p /\ ~Doomed(req[r], p) BY <1>2, PlainPlaces
<1>4. ASSUME NEW y, Plain(y) PROVE Follow(y)'
  <2>1. \A p : Place(y, p) = p /\ ~Doomed(y, p) BY <1>4, PlainPlaces
  <2>2. MarksHaveFolders(y)'
    BY <1>1, <1>2, <1>3, <2>1 DEF InStep, MarksHaveFolders, Exists
  <2>3. FoldersHaveMarks(y)'
    BY <1>1, <1>2, <1>3, <2>1 DEF InStep, FoldersHaveMarks
  <2>4. NoneMeet(y)' BY <2>1 DEF NoneMeet
  <2> QED BY <2>2, <2>3, <2>4 DEF Follow
<1>5. TreeIsWhole'
  BY <1>1, <1>2 DEF TreeIsWhole, Exists
<1> QED BY <1>1, <1>4, <1>5, SerialToRead

LEMMA SerialRead ==
    ASSUME TypeOK, SerialInv, NEW r \in Req, PrivateFoldersRead(r)
    PROVE  SerialInv'
<1>1. /\ req[r].pc = "read" /\ Busy(r)
      /\ req' = [req EXCEPT ![r].pc = "install", ![r].snap = db]
      /\ UNCHANGED <<db, cache, users, at, intent>>
  BY DEF PrivateFoldersRead, At, Busy
<1>2. InStep(req[r]) /\ TreeIsWhole /\ Plain(req[r])
  BY <1>1 DEF SerialInv, Plain
<1>3. PICK y : y = req'[r] OBVIOUS
<1>4. /\ \A x \in Req \ {r} : req'[x] = req[x]
      /\ y.pc = "install" /\ y.snap = db
  BY <1>1, <1>3, ReadReq DEF TypeOK
<1>5. Follow(y)'
  BY <1>1, <1>2, <1>4, PlainLeft, InStepIs DEF Plain
<1>6. CopyIsTable(y)' /\ StillHolds(y)'
  BY <1>1, <1>4 DEF CopyIsTable, StillHolds
<1>7. TreeIsWhole' BY <1>1, <1>2, TreeLeft
<1>8. \A x \in Req \ {r} : req'[x].pc = "idle" BY <1>1, <1>4, OthersIdle
<1>9. InStep(y)' BY <1>5, <1>6 DEF InStep, Follow
<1> QED BY <1>3, <1>4, <1>7, <1>8, <1>9, SerialFrame

LEMMA SerialInstall ==
    ASSUME TypeOK, SerialInv, NEW r \in Req, Install(r)
    PROVE  SerialInv'
<1>1. /\ req[r].pc = "install" /\ Busy(r) /\ Answer(r) /\ cache' = req[r].snap
      /\ UNCHANGED <<db, users, at, intent>>
  BY DEF Install, At, Busy
<1>2. InStep(req[r]) /\ TreeIsWhole /\ Plain(req[r])
  BY <1>1 DEF SerialInv, Plain
<1>3. Follow(Idle)' BY <1>1, <1>2, PlainLeft, IdlePlain, InStepIs
<1>4. cache' = db' BY <1>1, <1>2 DEF InStep, CopyIsTable
<1>5. TreeIsWhole' BY <1>1, <1>2, TreeLeft
<1> QED BY <1>1, <1>3, <1>4, <1>5, SerialAnswer

\* Where a mark is on its way to nothing has a mark of its own.
LEMMA NoCollision ==
    ASSUME TypeOK, AllChecked, SerialInv, NEW r \in Req, req[r].pc = "update",
           NEW p \in req[r].todo
    PROVE  LET to == Rebase(p, req[r].p, req[r].q)
           IN  /\ to \in Path /\ to # p
               /\ Place(req[r], p) = to /\ Place(req[r], to) = to
               /\ ~Waiting(req[r], to)
               /\ db[p] # Public => db[to] = Public
<1> DEFINE from == req[r].p
           into == req[r].q
           to == Rebase(p, from, into)
<1>1. InStep(req[r]) BY DEF SerialInv, Busy
<1>2. /\ p \in Path /\ from \in Path /\ into \in Path /\ Fits(from, into)
      /\ Under(from, p) /\ ~Under(from, into) /\ ~Under(into, from)
  BY <1>1 DEF TypeOK, Request, AllChecked, Checked, InStep, StillHolds
<1>3. to \in Path BY <1>2 DEF Fits
<1>4. Under(into, to) BY <1>2, RebaseIs, PathIs
<1> HIDE DEF to
<1>5. ~Under(from, to) BY <1>2, <1>3, <1>4, UnderBoth, PathIs
<1>6. ~Waiting(req[r], to)
  BY <1>1, <1>5 DEF Waiting, InStep, StillHolds
<1>7. Place(req[r], p) = to /\ Place(req[r], to) = to
  BY <1>6 DEF Place, Waiting, to
<1>8. to # p BY <1>2, <1>5
<1>9. db[p] # Public => db[to] = Public
  BY <1>1, <1>2, <1>3, <1>7, <1>8 DEF InStep, NoneMeet
<1> QED BY <1>3, <1>6, <1>7, <1>8, <1>9 DEF to

LEMMA SerialRenameRow ==
    ASSUME TypeOK, AllChecked, SerialInv, NEW r \in Req, RenameRow(r)
    PROVE  SerialInv'
<1>1. req[r].pc = "update" /\ Busy(r) /\ UNCHANGED <<cache, users, at, intent>>
  BY DEF RenameRow, At, Busy
<1>2. InStep(req[r]) /\ TreeIsWhole BY <1>1 DEF SerialInv
<1>3. PICK p \in req[r].todo :
        LET to == Rebase(p, req[r].p, req[r].q)
        IN  \/ db[p] # Public /\ db[to] # Public
            \/ /\ db' = IF db[p] = Public THEN db
                        ELSE [db EXCEPT ![p] = Public, ![to] = db[p]]
               /\ req' = [req EXCEPT ![r].todo = @ \ {p}]
  BY DEF RenameRow
<1>4. PICK to : to = Rebase(p, req[r].p, req[r].q)
  OBVIOUS
<1>5. /\ p \in Path /\ to \in Path /\ to # p
      /\ Place(req[r], p) = to /\ Place(req[r], to) = to
      /\ ~Waiting(req[r], to)
      /\ db[p] # Public => db[to] = Public
  BY <1>1, <1>4, NoCollision DEF TypeOK, Request
<1>6. /\ db' = IF db[p] = Public THEN db ELSE [db EXCEPT ![p] = Public, ![to] = db[p]]
      /\ req' = [req EXCEPT ![r].todo = @ \ {p}]
  BY <1>3, <1>4, <1>5
<1>7. PICK y : y = req'[r] OBVIOUS
<1>8. /\ \A x \in Req \ {r} : req'[x] = req[x]
      /\ y.pc = "update" /\ y.todo = req[r].todo \ {p} /\ y.p = req[r].p /\ y.q = req[r].q
  BY <1>1, <1>6, <1>7 DEF TypeOK, Request
<1>9. \A s \in Path \ {p} : Place(y, s) = Place(req[r], s)
  BY <1>1, <1>8 DEF Place, Waiting
<1>10. \A s : ~Doomed(y, s) /\ ~Doomed(req[r], s)
  BY <1>1, <1>8 DEF Doomed
<1>11. Follow(y)'
  <2>1. CASE db[p] = Public
    BY <1>1, <1>2, <1>6, <1>9, <1>10, <2>1, MarksLeft, InStepIs DEF TypeOK
  <2>2. CASE db[p] # Public
    <3>1. \A s \in Path : db'[s] = IF s = p THEN Public ELSE IF s = to THEN db[p] ELSE db[s]
      BY <1>5, <1>6, <2>2 DEF TypeOK, Marks
    <3>2. db[to] = Public /\ Place(y, to) = to BY <1>5, <1>9, <2>2
    <3>3. MarksHaveFolders(y)'
      <4> SUFFICES ASSUME NEW s \in Path, db'[s] # Public
                   PROVE  /\ Exists(Place(y, s))
                          /\ \A f \in Folder : at[f] = Place(y, s) => intent[f] = db'[s]
        BY <1>1 DEF MarksHaveFolders, Exists
      <4>1. CASE s = to
        BY <4>1, <1>2, <1>5, <1>10, <2>2, <3>1, <3>2 DEF InStep, MarksHaveFolders
      <4>2. CASE s # to
        BY <4>2, <1>2, <1>9, <1>10, <3>1 DEF InStep, MarksHaveFolders
      <4> QED BY <4>1, <4>2
    <3>4. FoldersHaveMarks(y)'
      <4> SUFFICES ASSUME NEW f \in Folder, at[f] # Gone, intent[f] # Public
                   PROVE  \E s \in Path : db'[s] = intent[f] /\ Place(y, s) = at[f]
        BY <1>1, <1>10 DEF FoldersHaveMarks
      <4>1. PICK s \in Path : db[s] = intent[f] /\ Place(req[r], s) = at[f]
        BY <1>2 DEF InStep, FoldersHaveMarks
      <4>2. CASE s = p BY <4>1, <4>2, <1>5, <3>1, <3>2
      <4>3. CASE s # p BY <4>1, <4>3, <1>9, <3>1, <3>2
      <4> QED BY <4>2, <4>3
    <3>5. NoneMeet(y)'
      <4> SUFFICES ASSUME NEW s \in Path, NEW z \in Path, db'[s] # Public, db'[z] # Public,
                          Place(y, s) = Place(y, z)
                   PROVE  s = z
        BY DEF NoneMeet
      <4>1. s # p /\ z # p BY <3>1
      <4>2. NoneMeet(req[r]) BY <1>2 DEF InStep
      <4>3. CASE s = to
        BY <4>1, <4>2, <4>3, <1>5, <1>9, <2>2, <3>1, <3>2 DEF NoneMeet
      <4>4. CASE z = to
        BY <4>1, <4>2, <4>4, <1>5, <1>9, <2>2, <3>1, <3>2 DEF NoneMeet
      <4>5. CASE s # to /\ z # to
        BY <4>1, <4>2, <4>5, <1>9, <3>1 DEF NoneMeet
      <4> QED BY <4>3, <4>4, <4>5
    <3> QED BY <3>3, <3>4, <3>5 DEF Follow
  <2> QED BY <2>1, <2>2
<1>12. CopyIsTable(y)' /\ StillHolds(y)'
  BY <1>1, <1>2, <1>8 DEF CopyIsTable, StillHolds, InStep
<1>13. TreeIsWhole' BY <1>1, <1>2, TreeLeft
<1>14. \A x \in Req \ {r} : req'[x].pc = "idle" BY <1>1, <1>8, OthersIdle
<1>15. InStep(y)' BY <1>11, <1>12 DEF InStep, Follow
<1> QED BY <1>7, <1>8, <1>13, <1>14, <1>15, SerialFrame

LEMMA SerialRemoveTree ==
    ASSUME "intent" \in Enabled, TypeOK, AllChecked, SerialInv, NEW r \in Req, RemoveTree(r)
    PROVE  SerialInv'
<1> DEFINE p0 == req[r].p
           gone == {f \in Folder : at[f] # Gone /\ Under(p0, at[f])}
<1>1. req[r].pc = "remove" /\ Busy(r) /\ UNCHANGED <<db, cache, users>>
  BY DEF RemoveTree, At, Busy
<1>2. InStep(req[r]) /\ TreeIsWhole /\ Plain(req[r])
  BY <1>1 DEF SerialInv, Plain
<1>3. p0 \in Path BY <1>1, <1>2 DEF InStep, StillHolds
<1>4. cache = db BY <1>1, <1>2 DEF InStep, CopyIsTable
<1>5. CASE Answer(r) /\ UNCHANGED <<at, intent>>
  <2>1. Follow(Idle)' BY <1>1, <1>2, <1>5, PlainLeft, IdlePlain, InStepIs
  <2>2. TreeIsWhole' BY <1>2, <1>5, TreeLeft
  <2> QED BY <1>1, <1>4, <1>5, <2>1, <2>2, SerialAnswer
<1>6. CASE /\ at' = [f \in Folder |-> IF f \in gone THEN Gone ELSE at[f]]
           /\ Intend([f \in Folder |-> IF f \in gone THEN Public ELSE intent[f]])
           /\ Goto(r, "purge")
  <2>1. \A f \in Folder : at'[f] = IF f \in gone THEN Gone ELSE at[f]
    BY <1>6
  <2>2. \A f \in Folder : intent'[f] = IF f \in gone THEN Public ELSE intent[f]
    BY <1>6 DEF Intend
  <2>3. PICK y : y = req'[r] OBVIOUS
  <2>4. y.pc = "purge" /\ y.p = p0 /\ \A x \in Req \ {r} : req'[x].pc = "idle"
    BY <1>1, <1>6, <2>3, SerialGoto DEF Pc
  <2>5. \A f \in Folder : f \in gone <=> at[f] # Gone /\ Under(p0, at[f])
    OBVIOUS
  <2>6. \A p : Place(y, p) = p /\ (Doomed(y, p) <=> Under(p0, p))
    BY <2>4 DEF Place, Waiting, Doomed
  <2>7. \A p : Place(req[r], p) = p /\ ~Doomed(req[r], p) BY <1>2, PlainPlaces
  <2> HIDE DEF p0, gone
  <2>8. TreeIsWhole'
    <3>1. ASSUME NEW f \in Folder, NEW q \in Path, at'[f] # Gone, Under(q, at'[f])
          PROVE  Exists(q)'
      <4>1. f \notin gone /\ at'[f] = at[f] BY <2>1, <3>1
      <4>2. at[f] \in Path /\ ~Under(p0, at[f]) BY <2>5, <3>1, <4>1 DEF TypeOK
      <4>3. PICK g \in Folder : at[g] = q BY <1>2, <3>1, <4>1 DEF TreeIsWhole, Exists
      <4>4. ~Under(p0, q) BY <1>3, <3>1, <4>1, <4>2, UnderTrans, PathIs
      <4>5. at'[g] = q BY <2>1, <2>5, <4>3, <4>4
      <4> QED BY <4>5 DEF Exists
    <3>2. ASSUME NEW f \in Folder, at'[f] = Gone PROVE intent'[f] = Public
      BY <1>2, <2>1, <2>2, <3>2 DEF TreeIsWhole
    <3> QED BY <3>1, <3>2 DEF TreeIsWhole
  <2>9. MarksHaveFolders(y)'
    <3> SUFFICES ASSUME NEW p \in Path, db[p] # Public, ~Under(p0, p)
                 PROVE  Exists(p)' /\ \A f \in Folder : at'[f] = p => intent'[f] = db[p]
      BY <1>1, <2>6 DEF MarksHaveFolders
    <3>1. Exists(p) /\ \A f \in Folder : at[f] = p => intent[f] = db[p]
      BY <1>2, <2>7 DEF InStep, MarksHaveFolders
    <3>2. \A f \in Folder : at[f] = p => at'[f] = p
      BY <2>1, <2>5
    <3>3. Exists(p)' BY <3>1, <3>2 DEF Exists
    <3>4. ASSUME NEW f \in Folder, at'[f] = p PROVE intent'[f] = db[p]
      <4>1. f \notin gone BY <2>1, <3>4, PathsAssumption
      <4> QED BY <2>1, <2>2, <3>1, <3>4, <4>1
    <3> QED BY <3>3, <3>4
  <2>10. FoldersHaveMarks(y)'
    <3> SUFFICES ASSUME NEW f \in Folder, at'[f] # Gone, intent'[f] # Public
                 PROVE  ~Under(p0, at'[f]) /\ at'[f] \in Path /\ db[at'[f]] = intent'[f]
      BY <1>1, <2>6 DEF FoldersHaveMarks
    <3>1. f \notin gone /\ at'[f] = at[f] /\ intent'[f] = intent[f] BY <2>1, <2>2
    <3>2. \E p \in Path : db[p] = intent[f] /\ Place(req[r], p) = at[f]
      BY <1>2, <3>1 DEF InStep, FoldersHaveMarks
    <3> QED BY <2>5, <2>7, <3>1, <3>2
  <2>11. NoneMeet(y)' BY <2>6 DEF NoneMeet
  <2>12. CopyIsTable(y)' /\ StillHolds(y)'
    BY <1>1, <1>4, <2>4 DEF CopyIsTable, StillHolds
  <2>13. InStep(y)' BY <2>9, <2>10, <2>11, <2>12 DEF InStep
  <2> QED BY <2>3, <2>4, <2>8, <2>13, SerialFrame
<1> QED BY <1>5, <1>6 DEF RemoveTree

-----------------------------------------------------------------------------
(* Directories are made and moved *)

\* New directories are nobody's, and no mark is meant for them.
LEMMA TreeGrows ==
    ASSUME TypeOK, TreeIsWhole, NEW p \in Seq(STRING), at' \in MkdirAll(p),
           UNCHANGED <<db, cache, intent>>, NEW x, InStep(x)
    PROVE  TreeIsWhole' /\ InStep(x)'
<1>1. /\ \A f \in Folder : \/ at'[f] = at[f]
                           \/ /\ at[f] = Gone /\ at'[f] \in Path
                              /\ Under(at'[f], p) /\ ~Exists(at'[f])
      /\ \A q \in Path : Under(q, p) => \E f \in Folder : at'[f] = q
  <2>1. PICK t \in MkdirAll(p) : t = at' OBVIOUS
  <2> QED BY <2>1, TreeMade
<1>2. \A q \in Path : Exists(q) => Exists(q)'
  BY <1>1, PathsAssumption DEF Exists
<1>3. ASSUME NEW f \in Folder, NEW q \in Path, at'[f] # Gone, Under(q, at'[f])
      PROVE  Exists(q)'
  <2>1. CASE at'[f] = at[f] BY <1>2, <1>3, <2>1 DEF TreeIsWhole
  <2>2. CASE at'[f] \in Path /\ Under(at'[f], p)
    <3>1. Under(q, p) BY <1>3, <2>2, UnderTrans, PathIs
    <3> QED BY <1>1, <3>1 DEF Exists
  <2> QED BY <1>1, <2>1, <2>2
<1>4. \A f \in Folder : at'[f] = Gone => intent'[f] = Public
  BY <1>1, PathsAssumption DEF TreeIsWhole
<1>5. MarksHaveFolders(x)'
  <2> SUFFICES ASSUME NEW q \in Path, db[q] # Public, ~Doomed(x, q)
               PROVE  /\ Exists(Place(x, q))'
                      /\ \A f \in Folder : at'[f] = Place(x, q) => intent[f] = db[q]
    BY DEF MarksHaveFolders
  <2>1. /\ Exists(Place(x, q))
        /\ \A f \in Folder : at[f] = Place(x, q) => intent[f] = db[q]
    BY DEF InStep, MarksHaveFolders
  <2>2. PICK g \in Folder : at[g] = Place(x, q) BY <2>1 DEF Exists
  <2>3. CASE at[g] = Gone
    <3>1. \A f \in Folder : at'[f] = Place(x, q) => at[f] = Place(x, q)
      BY <1>1, <2>2, <2>3, PathsAssumption
    <3>2. intent[g] = Public BY <2>3 DEF TreeIsWhole
    <3> QED BY <2>1, <2>2, <3>2
  <2>4. CASE at[g] # Gone
    <3>1. at'[g] = Place(x, q) BY <1>1, <2>2, <2>4
    <3>2. \A f \in Folder : at'[f] = Place(x, q) => at[f] = Place(x, q)
      BY <1>1, <2>1
    <3> QED BY <2>1, <3>1, <3>2 DEF Exists
  <2> QED BY <2>3, <2>4
<1>6. FoldersHaveMarks(x)'
  <2> SUFFICES ASSUME NEW f \in Folder, at'[f] # Gone, intent[f] # Public
               PROVE  /\ ~Doomed(x, at'[f])
                      /\ \E q \in Path : db[q] = intent[f] /\ Place(x, q) = at'[f]
    BY DEF FoldersHaveMarks
  <2>1. at[f] # Gone /\ at'[f] = at[f] BY <1>1 DEF TreeIsWhole
  <2> QED BY <2>1 DEF InStep, FoldersHaveMarks
<1>7. NoneMeet(x)' /\ CopyIsTable(x)'
  BY DEF InStep, NoneMeet, CopyIsTable
<1>8. StillHolds(x)'
  <2>1. x.pc = "set" => Exists(x.p)'
    <3> SUFFICES ASSUME x.pc = "set" PROVE Exists(x.p)'
      OBVIOUS
    <3>1. PICK g \in Folder : at[g] = x.p BY DEF InStep, StillHolds, Exists
    <3>2. at[g] # Gone BY <3>1, PathsAssumption DEF InStep, StillHolds
    <3>3. at'[g] = x.p BY <1>1, <3>1, <3>2
    <3> QED BY <3>3 DEF Exists
  <2> QED BY <2>1 DEF InStep, StillHolds
<1> QED BY <1>3, <1>4, <1>5, <1>6, <1>7, <1>8 DEF TreeIsWhole, InStep

LEMMA SerialCreateDir ==
    ASSUME TypeOK, SerialInv, NEW u \in User, NEW f \in Folder, NEW p \in Path,
           CreateDir(u, f, p)
    PROVE  SerialInv'
<1>1. at' \in MkdirAll(p) /\ UNCHANGED <<db, cache, users, req, intent>>
  BY DEF CreateDir
<1>2. p \in Seq(STRING) BY PathIs
<1>3. CASE Rest
  <2>1. TreeIsWhole' /\ InStep(Idle)'
    BY <1>1, <1>2, <1>3, TreeGrows DEF SerialInv
  <2>2. Rest' BY <1>1, <1>3 DEF Rest, At
  <2> QED BY <2>1, <2>2 DEF SerialInv, OneAtATime, Busy, Rest, At
<1>4. CASE ~Rest
  <2>1. PICK r \in Req : Busy(r) BY <1>4 DEF Rest, At, Busy
  <2>2. PICK y : y = req[r] OBVIOUS
  <2>3. InStep(y) /\ TreeIsWhole BY <2>1, <2>2 DEF SerialInv
  <2>4. InStep(y)' /\ TreeIsWhole' BY <1>1, <1>2, <2>3, TreeGrows
  <2>5. \A x \in Req \ {r} : req'[x].pc = "idle" BY <1>1, <2>1, OthersIdle
  <2>6. y.pc # "idle" BY <2>1, <2>2 DEF Busy
  <2> QED BY <1>1, <2>2, <2>4, <2>5, <2>6, SerialFrame
<1> QED BY <1>3, <1>4

LEMMA ParentIs ==
    ASSUME NEW p \in Path
    PROVE  Parent(p) \in Seq(STRING) /\ Len(Parent(p)) = Len(p) - 1 /\ Under(Parent(p), p)
<1>1. p \in Seq(STRING) /\ Len(p) \in Nat \ {0} BY PathIs
<1>2. /\ Parent(p) \in Seq(STRING) /\ Len(Parent(p)) = Len(p) - 1
      /\ \A i \in 1 .. Len(p) - 1 : Parent(p)[i] = p[i]
  <2>1. Len(p) - 1 \in 0 .. Len(p) BY <1>1
  <2>2. SubSeq(p, 1, Len(p) - 1) = [i \in 1 .. Len(p) - 1 |-> p[i]] BY <1>1, <2>1
  <2>3. Parent(p) \in Seq(STRING) BY <1>1, <2>1 DEF Parent
  <2>4. PICK n \in Nat : n = Len(p) - 1 BY <1>1
  <2>5. \A i \in 1 .. n : p[i] \in STRING BY <1>1, <2>4
  <2>6. Len(SubSeq(p, 1, n)) = n
    <3>1. CASE n = 0
      <4>1. SubSeq(p, 1, 0) = <<>> BY <1>1, SubSeqEmpty
      <4> QED BY <3>1, <4>1
    <3>2. CASE n # 0 BY <1>1, <2>4, <3>2
    <3> QED BY <3>1, <3>2
  <2> QED BY <2>2, <2>3, <2>4, <2>6 DEF Parent
<1> QED BY <1>1, <1>2, UnderIs

\* What is above p, p excepted, is its parent or above that.
LEMMA AboveParent ==
    ASSUME NEW p \in Path, NEW q \in Path, Under(q, p), Len(q) < Len(p)
    PROVE  Under(q, Parent(p))
<1>1. /\ p \in Seq(STRING) /\ q \in Seq(STRING) /\ Len(p) \in Nat /\ Len(q) \in Nat
      /\ Parent(p) \in Seq(STRING) /\ Len(Parent(p)) = Len(p) - 1
  BY PathIs, ParentIs
<1>2. Under(q, Parent(p)) \/ Under(Parent(p), q) BY <1>1, ParentIs, UnderBoth
<1>3. Under(Parent(p), q) => Parent(p) = q BY <1>1, UnderSame
<1> QED BY <1>1, <1>2, <1>3, UnderSelf

LEMMA RebaseSelf ==
    ASSUME NEW from \in Path, NEW to \in Path
    PROVE  Rebase(from, from, to) = to
<1>1. from \in Seq(STRING) /\ to \in Seq(STRING) BY PathIs
<1>2. SubSeq(from, Len(from) + 1, Len(from)) = <<>> BY <1>1
<1> QED BY <1>1, <1>2 DEF Rebase

\* The tree after a move, in terms of the one before.
LEMMA Relocated ==
    ASSUME TypeOK, TreeIsWhole, NEW from \in Path, NEW to \in Path, Fits(from, to),
           Free(from, to), Exists(from), NEW t \in MkdirAll(Parent(to)),
           at' = [f \in Folder |-> IF at[f] # Gone /\ Under(from, at[f])
                                   THEN Rebase(at[f], from, to) ELSE t[f]],
           UNCHANGED intent
    PROVE  /\ ~Under(to, from)
           /\ \A q \in Path : Exists(q) => ~Under(to, q)
           /\ \A f \in Folder :
                \/ /\ at[f] \in Path /\ Under(from, at[f])
                   /\ at'[f] = Rebase(at[f], from, to) /\ at'[f] \in Path
                \/ at[f] \in Path /\ ~Under(from, at[f]) /\ at'[f] = at[f]
                \/ /\ at[f] = Gone /\ at'[f] \in Path /\ ~Exists(at'[f])
                   /\ Under(at'[f], Parent(to)) /\ ~Under(to, at'[f])
                \/ at[f] = Gone /\ at'[f] = Gone
           /\ TreeIsWhole'
<1>1. /\ \A f \in Folder : \/ t[f] = at[f]
                           \/ /\ at[f] = Gone /\ t[f] \in Path
                              /\ Under(t[f], Parent(to)) /\ ~Exists(t[f])
      /\ \A q \in Path : Under(q, Parent(to)) => \E f \in Folder : t[f] = q
  BY TreeMade
<1>2. ~Exists(to) /\ ~Under(from, to) BY DEF Free
<1>3. ASSUME NEW q \in Path, Exists(q) PROVE ~Under(to, q)
  BY <1>2, <1>3, PathsAssumption DEF TreeIsWhole, Exists
<1>4. ~Under(to, from) BY <1>3
<1>5. ASSUME NEW f \in Folder
      PROVE  \/ /\ at[f] \in Path /\ Under(from, at[f])
                /\ at'[f] = Rebase(at[f], from, to) /\ at'[f] \in Path
             \/ at[f] \in Path /\ ~Under(from, at[f]) /\ at'[f] = at[f]
             \/ /\ at[f] = Gone /\ at'[f] \in Path /\ ~Exists(at'[f])
                /\ Under(at'[f], Parent(to)) /\ ~Under(to, at'[f])
             \/ at[f] = Gone /\ at'[f] = Gone
  <2>1. CASE at[f] # Gone /\ Under(from, at[f])
    BY <2>1 DEF TypeOK, Fits
  <2>2. CASE at[f] # Gone /\ ~Under(from, at[f])
    BY <1>1, <2>2 DEF TypeOK
  <2>3. CASE at[f] = Gone /\ t[f] = Gone
    BY <2>3
  <2>4. CASE at[f] = Gone /\ t[f] # Gone
    <3>1. /\ t[f] \in Path /\ Under(t[f], Parent(to)) /\ ~Exists(t[f]) /\ at'[f] = t[f]
      BY <1>1, <2>4
    <3>2. ASSUME Under(to, t[f]) PROVE FALSE
      <4>1. Under(to, Parent(to)) BY <3>1, <3>2, UnderTrans, PathIs, ParentIs
      <4>2. Len(to) <= Len(to) - 1 BY <4>1, ParentIs DEF Under
      <4> QED BY <4>2, PathIs
    <3> QED BY <2>4, <3>1, <3>2
  <2> QED BY <2>1, <2>2, <2>3, <2>4
<1>6. ASSUME NEW q \in Path, Under(q, Parent(to)) PROVE Exists(q)'
  <2>1. PICK g \in Folder : t[g] = q BY <1>1, <1>6
  <2>2. ~Under(from, q)
    <3>1. Under(q, to) BY <1>6, UnderTrans, PathIs, ParentIs
    <3> QED BY <1>2, <3>1, UnderTrans, PathIs
  <2>3. at'[g] = q BY <1>1, <2>1, <2>2
  <2> QED BY <2>3 DEF Exists
<1>7. Exists(to)'
  <2>1. PICK g \in Folder : at[g] = from BY DEF Exists
  <2>2. at'[g] = to BY <2>1, RebaseSelf, UnderSelf, PathIs, PathsAssumption
  <2> QED BY <2>2 DEF Exists
<1>8. ASSUME NEW z \in Path, Exists(z), Under(from, z) PROVE Exists(Rebase(z, from, to))'
  <2>1. PICK g \in Folder : at[g] = z BY <1>8 DEF Exists
  <2>2. at'[g] = Rebase(z, from, to) BY <1>8, <2>1, PathsAssumption
  <2> QED BY <2>2 DEF Exists
<1>9. ASSUME NEW f \in Folder, NEW q \in Path, at'[f] # Gone, Under(q, at'[f])
      PROVE  Exists(q)'
  <2>1. CASE at[f] \in Path /\ Under(from, at[f]) /\ at'[f] = Rebase(at[f], from, to) /\ at'[f] \in Path
    <3>1. CASE Len(to) <= Len(q)
      <4>1. PICK z \in Path : Under(from, z) /\ Under(z, at[f]) /\ q = Rebase(z, from, to)
        BY <1>9, <2>1, <3>1, AboveRebased
      <4>2. Exists(z) BY <2>1, <4>1, PathsAssumption DEF TreeIsWhole
      <4> QED BY <1>8, <4>1, <4>2
    <3>2. CASE Len(q) < Len(to)
      <4>1. Under(to, at'[f]) BY <2>1, RebaseIs, PathIs
      <4>2. Under(q, to) \/ Under(to, q) BY <1>9, <2>1, <4>1, UnderBoth, PathIs
      <4>3. Under(q, to) BY <3>2, <4>2, PathIs DEF Under
      <4> QED BY <3>2, <4>3, <1>6, AboveParent
    <3> QED BY <3>1, <3>2, PathIs
  <2>2. CASE at[f] \in Path /\ ~Under(from, at[f]) /\ at'[f] = at[f]
    <3>1. Exists(q) BY <1>9, <2>2, PathsAssumption DEF TreeIsWhole
    <3>2. ~Under(from, q) BY <1>9, <2>2, UnderTrans, PathIs
    <3>3. PICK g \in Folder : at[g] = q BY <3>1 DEF Exists
    <3>4. at'[g] = q BY <1>5, <3>2, <3>3, PathsAssumption
    <3> QED BY <3>4 DEF Exists
  <2>3. CASE at'[f] \in Path /\ Under(at'[f], Parent(to))
    BY <1>6, <1>9, <2>3, UnderTrans, PathIs, ParentIs
  <2> QED BY <1>5, <1>9, <2>1, <2>2, <2>3
<1>10. ASSUME NEW f \in Folder, at'[f] = Gone PROVE intent'[f] = Public
  BY <1>5, <1>10, PathsAssumption DEF TreeIsWhole
<1>11. TreeIsWhole' BY <1>9, <1>10 DEF TreeIsWhole
<1> QED BY <1>3, <1>4, <1>5, <1>11

LEMMA SerialMoveTree ==
    ASSUME TypeOK, AllChecked, SerialInv, NEW r \in Req, MoveTree(r)
    PROVE  SerialInv'
<1>1. PICK from, to : from = req[r].p /\ to = req[r].q OBVIOUS
<1>2. req[r].pc = "rename" /\ Busy(r) /\ UNCHANGED <<db, cache, users, intent>>
  BY DEF MoveTree, At, Busy
<1>3. from \in Path /\ to \in Path /\ Fits(from, to)
  BY <1>1, <1>2 DEF AllChecked, Checked
<1>4. InStep(req[r]) /\ TreeIsWhole /\ Plain(req[r])
  BY <1>2 DEF SerialInv, Plain
<1>5. cache = db BY <1>2, <1>4 DEF InStep, CopyIsTable
<1>6. CASE Answer(r) /\ UNCHANGED at
  <2>1. Follow(Idle)' BY <1>2, <1>4, <1>6, PlainLeft, IdlePlain, InStepIs
  <2>2. TreeIsWhole' BY <1>2, <1>4, <1>6, TreeLeft
  <2> QED BY <1>2, <1>5, <1>6, <2>1, <2>2, SerialAnswer
<1>7. CASE Answer(r) /\ at' \in MkdirAll(Parent(to))
  <2>1. InStep(Idle)
    <3>1. Follow(Idle)
      <4>1. \A p : Place(req[r], p) = p /\ ~Doomed(req[r], p) BY <1>4, PlainPlaces
      <4>2. \A p : Place(Idle, p) = p /\ ~Doomed(Idle, p) BY IdlePlain, PlainPlaces
      <4> QED BY <1>4, <4>1, <4>2 DEF InStep, Follow, MarksHaveFolders, FoldersHaveMarks, NoneMeet
    <3> QED BY <1>5, <3>1, IdlePlain DEF InStep, Follow, CopyIsTable, StillHolds
  <2>2. TreeIsWhole' /\ InStep(Idle)'
    BY <1>2, <1>3, <1>4, <1>7, <2>1, TreeGrows, ParentIs
  <2>3. Follow(Idle)' BY <2>2 DEF InStep, Follow
  <2> QED BY <1>2, <1>5, <1>7, <2>2, <2>3, SerialAnswer
<1>8. ASSUME Free(from, to), Exists(from), NEW t \in MkdirAll(Parent(to)),
             at' = [f \in Folder |-> IF at[f] # Gone /\ Under(from, at[f])
                                     THEN Rebase(at[f], from, to) ELSE t[f]],
             Goto(r, "select")
      PROVE  SerialInv'
  <2>1. PICK y : y = req'[r] OBVIOUS
  <2>2. /\ y.pc = "select" /\ y.p = from /\ y.q = to
        /\ \A x \in Req \ {r} : req'[x].pc = "idle"
    BY <1>1, <1>2, <1>8, <2>1, SerialGoto DEF Pc
  <2>3. /\ ~Under(to, from)
        /\ \A q \in Path : Exists(q) => ~Under(to, q)
        /\ \A f \in Folder :
             \/ /\ at[f] \in Path /\ Under(from, at[f])
                /\ at'[f] = Rebase(at[f], from, to) /\ at'[f] \in Path
             \/ at[f] \in Path /\ ~Under(from, at[f]) /\ at'[f] = at[f]
             \/ /\ at[f] = Gone /\ at'[f] \in Path /\ ~Exists(at'[f])
                /\ Under(at'[f], Parent(to)) /\ ~Under(to, at'[f])
             \/ at[f] = Gone /\ at'[f] = Gone
        /\ TreeIsWhole'
    BY <1>2, <1>3, <1>4, <1>8, Relocated
  <2>4. \A p : /\ Place(req[r], p) = p /\ ~Doomed(req[r], p)
               /\ Place(y, p) = (IF Under(from, p) THEN Rebase(p, from, to) ELSE p)
               /\ ~Doomed(y, p)
    BY <1>4, <2>2, PlainPlaces DEF Place, Waiting, Doomed
  <2>5. ASSUME NEW p \in Path, db[p] # Public
        PROVE  Exists(p) /\ \A f \in Folder : at[f] = p => intent[f] = db[p]
    BY <1>4, <2>4, <2>5 DEF InStep, MarksHaveFolders
  <2>6. \A p \in Path : Under(from, p) =>
            Under(to, Rebase(p, from, to)) /\ Rebase(p, from, to) \in Path
    BY <1>3, RebaseIs, PathIs DEF Fits
  <2>7. MarksHaveFolders(y)'
    <3> SUFFICES ASSUME NEW p \in Path, db[p] # Public
                 PROVE  /\ \E f \in Folder : at'[f] = Place(y, p)
                        /\ \A f \in Folder : at'[f] = Place(y, p) => intent[f] = db[p]
      BY <1>2 DEF MarksHaveFolders, Exists
    <3>1. PICK g \in Folder : at[g] = p BY <2>5 DEF Exists
    <3>2. at'[g] = Place(y, p) BY <2>3, <2>4, <3>1, PathsAssumption
    <3>3. ASSUME NEW f \in Folder, at'[f] = Place(y, p) PROVE intent[f] = db[p]
      <4>1. CASE /\ at[f] \in Path /\ Under(from, at[f])
                 /\ at'[f] = Rebase(at[f], from, to) /\ at'[f] \in Path
        <5>1. CASE Under(from, p)
          <6>1. Rebase(at[f], from, to) = Rebase(p, from, to) BY <2>4, <3>3, <4>1, <5>1
          <6>2. at[f] = p BY <1>3, <4>1, <5>1, <6>1, RebaseOnce, PathIs
          <6> QED BY <2>5, <6>2
        <5>2. CASE ~Under(from, p)
          <6>1. Under(to, p) BY <2>4, <2>6, <3>3, <4>1, <5>2
          <6> QED BY <2>3, <2>5, <6>1
        <5> QED BY <5>1, <5>2
      <4>2. CASE at[f] \in Path /\ ~Under(from, at[f]) /\ at'[f] = at[f]
        <5>1. CASE Under(from, p)
          <6>1. Under(to, at[f]) BY <2>4, <2>6, <3>3, <4>2, <5>1
          <6> QED BY <2>3, <4>2, <6>1 DEF Exists
        <5>2. CASE ~Under(from, p)
          BY <2>4, <2>5, <3>3, <4>2, <5>2
        <5> QED BY <5>1, <5>2
      <4>3. CASE at'[f] \in Path /\ ~Exists(at'[f]) /\ ~Under(to, at'[f])
        BY <2>4, <2>5, <2>6, <3>3, <4>3
      <4>4. CASE at'[f] = Gone
        BY <2>4, <2>6, <3>3, <4>4, PathsAssumption
      <4> QED BY <2>3, <4>1, <4>2, <4>3, <4>4
    <3> QED BY <3>2, <3>3
  <2>8. FoldersHaveMarks(y)'
    <3> SUFFICES ASSUME NEW f \in Folder, at'[f] # Gone, intent[f] # Public
                 PROVE  \E p \in Path : db[p] = intent[f] /\ Place(y, p) = at'[f]
      BY <1>2, <2>4 DEF FoldersHaveMarks
    <3>1. at[f] # Gone BY <1>4 DEF TreeIsWhole
    <3>2. at[f] \in Path /\ db[at[f]] = intent[f]
      BY <1>4, <2>4, <3>1 DEF InStep, FoldersHaveMarks
    <3>3. Place(y, at[f]) = at'[f] BY <2>3, <2>4, <3>1
    <3> QED BY <3>2, <3>3
  <2>9. NoneMeet(y)'
    <3> SUFFICES ASSUME NEW p \in Path, NEW s \in Path, db[p] # Public, db[s] # Public,
                        Place(y, p) = Place(y, s)
                 PROVE  p = s
      BY <1>2 DEF NoneMeet
    <3>1. CASE Under(from, p) /\ Under(from, s)
      BY <1>3, <2>4, <3>1, RebaseOnce, PathIs
    <3>2. CASE ~Under(from, p) /\ ~Under(from, s)
      BY <2>4, <3>2
    <3>3. CASE Under(from, p) /\ ~Under(from, s)
      <4>1. Under(to, s) BY <2>4, <2>6, <3>3
      <4> QED BY <2>3, <2>5, <4>1
    <3>4. CASE ~Under(from, p) /\ Under(from, s)
      <4>1. Under(to, p) BY <2>4, <2>6, <3>4
      <4> QED BY <2>3, <2>5, <4>1
    <3> QED BY <3>1, <3>2, <3>3, <3>4
  <2>10. CopyIsTable(y)' /\ StillHolds(y)'
    BY <1>2, <1>5, <1>8, <2>2, <2>3 DEF CopyIsTable, StillHolds, Free
  <2>11. InStep(y)' BY <2>7, <2>8, <2>9, <2>10 DEF InStep
  <2> QED BY <2>1, <2>2, <2>3, <2>11, SerialFrame
<1> QED BY <1>1, <1>6, <1>7, <1>8 DEF MoveTree

-----------------------------------------------------------------------------
(* All together *)

LEMMA SerialContinue ==
    ASSUME "intent" \in Enabled, TypeOK, AllChecked, SerialInv, NEW r \in Req, Continue(r)
    PROVE  SerialInv'
BY SerialSetRow, SerialUnsetRow, SerialMoveTree, SerialRenameSelect, SerialRenameRow,
   SerialRenameDone, SerialRemoveTree, SerialPurge, SerialDeleteUserRow, SerialRead,
   SerialInstall DEF Continue

LEMMA SerialStarts == MCInit => SInv
<1> SUFFICES ASSUME Init PROVE SerialInv
  BY DEF MCInit, SInv
<1>1. \A r \in Req : req[r] = Idle BY DEF Init
<1>2. OneAtATime BY <1>1, IdlePlain DEF OneAtATime, Busy
<1>3. TreeIsWhole BY DEF Init, TreeIsWhole
<1>4. \A p : Place(Idle, p) = p /\ ~Doomed(Idle, p) BY IdlePlain, PlainPlaces
<1>5. InStep(Idle)
  BY <1>4, IdlePlain DEF Init, NoMarks, InStep, MarksHaveFolders, FoldersHaveMarks, NoneMeet,
                         CopyIsTable, StillHolds
<1> QED BY <1>1, <1>2, <1>3, <1>5, IdlePlain DEF SerialInv, Busy

LEMMA SerialKeeps ==
    ASSUME "intent" \in Enabled, IInv, SInv, [MCNext]_mcvars
    PROVE  SInv'
<1> SUFFICES ASSUME workload = "serial", workload' = "serial" PROVE SerialInv'
  BY DEF SInv, MCNext, mcvars
<1>1. TypeOK /\ AllChecked /\ SerialInv BY DEF IInv, SInv
<1>2. CASE UNCHANGED mcvars
  BY <1>1, <1>2 DEF mcvars, vars, SerialInv, OneAtATime, TreeIsWhole, InStep, MarksHaveFolders,
                    FoldersHaveMarks, NoneMeet, CopyIsTable, StillHolds, Exists, Busy, Rest, At
<1>3. ASSUME NEW r \in Req, Rest, Call(r), req'[r].pc = "set" => Exists(req'[r].p)
      PROVE  SerialInv'
  BY <1>1, <1>3, SerialCall
<1>4. ASSUME NEW r \in Req, Continue(r) PROVE SerialInv'
  BY <1>1, <1>4, SerialContinue
<1>5. ASSUME NEW u \in User, NEW f \in Folder, NEW p \in Path, CreateDir(u, f, p)
      PROVE  SerialInv'
  BY <1>1, <1>5, SerialCreateDir
<1> QED BY <1>2, <1>3, <1>4, <1>5 DEF MCNext, Serial

\* The steps of the instance are steps of the specification.
LEMMA InstanceSteps == MCSpec => Spec
<1>1. MCInit => Init BY DEF MCInit
<1>2. MCNext => Next
  <2>1. Serial => Next BY DEF Serial, Next
  <2>2. ASSUME NEW r \in Req, SmallCall(r) PROVE Call(r)
    BY <2>2 DEF SmallCall, Call, Top
  <2>3. Overlap => Next BY <2>2 DEF Overlap, Next, Top
  <2> QED BY <2>1, <2>3 DEF MCNext
<1>3. [MCNext]_mcvars => [Next]_vars BY <1>2 DEF mcvars
<1> QED BY <1>1, <1>3, PTL DEF MCSpec, Spec

LEMMA SerialInvariance ==
    ASSUME "intent" \in Enabled PROVE MCSpec => []SInv
<1>1. IInv /\ SInv /\ [MCNext]_mcvars => SInv' BY SerialKeeps
<1>2. MCInit => SInv BY SerialStarts
<1>3. MCSpec => []IInv BY InstanceSteps, Invariance, PTL
<1> QED BY <1>1, <1>2, <1>3, PTL DEF MCSpec

-----------------------------------------------------------------------------
(* What is promised *)

\* Marks are of paths and belong to accounts; directories are at paths.
THEOREM TypeCorrect == Spec => []TypeOK
<1>1. IInv => TypeOK BY DEF IInv
<1> QED BY <1>1, Invariance, PTL

\* However requests overlap, fail or are cut off, no mark in the table outlives
\* the account of its owner (store.go:87, ON DELETE CASCADE).
THEOREM NoOrphanedMarks == Spec => []RowsHaveOwners
<1>1. IInv => RowsHaveOwners BY DEF IInv
<1> QED BY <1>1, Invariance, PTL

\* A request that no other overlaps leaves the engine's copy fresh, whatever
\* overlapping ones, failures and restarts did before (Engine.reload).
THEOREM LoneRequestsRefresh == Spec => LoneReloadIsFresh
<1> DEFINE A == \A r \in Req : Install(r) /\ req[r].lone => cache' = db
<1>1. IInv => A
  BY DEF IInv, Alone, Install, At
<1>2. IInv /\ [Next]_vars => [A]_vars
  BY <1>1
<1> QED BY <1>2, Invariance, PTL DEF Spec, LoneReloadIsFresh

\* One request after the other, in directories of any depth: the engine answers from what
\* the table says, and every directory is private to whom it was last made private for,
\* wherever it has been moved and whatever was deleted and made anew (admin.go:60, 102).
THEOREM MarksFollow == "intent" \in Enabled => (MCSpec => []SerialMarksAreTrue)
<1> SUFFICES ASSUME "intent" \in Enabled PROVE MCSpec => []SerialMarksAreTrue
  OBVIOUS
<1>1. IInv /\ SInv => SerialMarksAreTrue
  <2> SUFFICES ASSUME TypeOK, SerialInv, Rest
               PROVE  cache = db /\ \A f \in Folder : at[f] # Gone => cache[at[f]] = intent[f]
    BY DEF IInv, SInv, SerialMarksAreTrue, RestIsFresh, MarksFollowFolders
  <2>1. InStep(Idle) BY DEF SerialInv
  <2>2. cache = db BY <2>1, IdlePlain DEF InStep, CopyIsTable
  <2>3. \A p : Place(Idle, p) = p /\ ~Doomed(Idle, p) BY IdlePlain, PlainPlaces
  <2>4. ASSUME NEW f \in Folder, at[f] # Gone PROVE db[at[f]] = intent[f]
    <3>1. at[f] \in Path BY <2>4 DEF TypeOK
    <3>2. CASE intent[f] # Public
      BY <2>1, <2>3, <2>4, <3>2 DEF InStep, FoldersHaveMarks
    <3>3. CASE intent[f] = Public
      BY <2>1, <2>3, <3>1, <3>3 DEF InStep, MarksHaveFolders
    <3> QED BY <3>2, <3>3
  <2> QED BY <2>2, <2>4
<1>2. MCSpec => []IInv BY InstanceSteps, Invariance, PTL
<1> QED BY <1>1, <1>2, SerialInvariance, PTL

\* One request after the other, only the owner of a mark or an administrator clears it
\* (authz.go:217).
THEOREM OwnersUnset == "intent" \in Enabled => (MCSpec => SerialUnsetByOwner)
<1> SUFFICES ASSUME "intent" \in Enabled PROVE MCSpec => SerialUnsetByOwner
  OBVIOUS
<1> DEFINE A == \A r \in Req : workload = "serial" /\ UnsetRow(r) /\ req[r].u \notin Admins =>
                    db[req[r].p] \in {Public, req[r].u}
<1>1. SInv => A
  BY DEF SInv, SerialInv, UnsetRow, At, Busy, InStep, StillHolds
<1>2. SInv /\ [MCNext]_mcvars => [A]_mcvars
  BY <1>1
<1> QED BY <1>2, SerialInvariance, PTL DEF MCSpec, SerialUnsetByOwner
=============================================================================
