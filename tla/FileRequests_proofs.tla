------------------------- MODULE FileRequests_proofs -------------------------
(***************************************************************************)
(* Proofs about the requests that change the tree (FileRequests), for any  *)
(* tree, any number of requests and any accounts, marks and policies.      *)
(*                                                                         *)
(* TypeInv says that the tree is closed under parents, that what is open   *)
(* is a file of it, and what a request has found out by the step it is at; *)
(* every operation of the storage keeps it (RemoveCloses, PutCloses,       *)
(* RenameCloses), because names of temporary files are below nothing and   *)
(* rebasing a path keeps the order of paths.  LawInv ties the history of   *)
(* a request to what its handler has checked.  PartInv says where the file *)
(* is that a request is writing, as long as no move has interfered;        *)
(* LoneInv, of a move that has met nobody, that its copy is faithful and   *)
(* what is not copied is still to come.                                    *)
(***************************************************************************)
EXTENDS FileRequests, SequenceTheorems, WellFoundedInduction, TLAPS

-----------------------------------------------------------------------------
(* Paths *)

\* Paths of requests and of temporary files.
Any == Seq(Component \cup Req)

LEMMA PathsAreAny ==
    ASSUME NEW p \in Path
    PROVE  p \in Any /\ Len(p) \in Nat \ {0} /\ \A i \in 1 .. Len(p) : p[i] \in Component
<1>1. p \in Seq(Component) /\ p # <<>> BY PathAssumption
<1>2. p \in Any BY <1>1, SeqMonotonic DEF Any
<1>3. Len(p) \in Nat \ {0} BY <1>1, EmptySeq
<1>4. \A i \in 1 .. Len(p) : p[i] \in Component BY <1>1, ElementOfSeq
<1> QED BY <1>2, <1>3, <1>4

LEMMA Prefix ==
    ASSUME NEW s \in Any, NEW n \in 0 .. Len(s)
    PROVE  /\ SubSeq(s, 1, n) \in Any /\ Len(SubSeq(s, 1, n)) = n
           /\ \A i \in 1 .. n : SubSeq(s, 1, n)[i] = s[i]
<1>1. Len(s) \in Nat BY LenProperties DEF Any
<1>2. \A i \in 1 .. n : s[i] \in Component \cup Req
  BY <1>1, ElementOfSeq DEF Any
<1>3. /\ SubSeq(s, 1, n) \in Seq(Component \cup Req)
      /\ Len(SubSeq(s, 1, n)) = IF 1 <= n THEN n - 1 + 1 ELSE 0
      /\ \A i \in 1 .. n - 1 + 1 : SubSeq(s, 1, n)[i] = s[1 + i - 1]
  <2>1. 1 \in Int /\ n \in Int BY <1>1
  <2> QED BY <1>2, <2>1, SubSeqProperties
<1> QED BY <1>1, <1>3 DEF Any

LEMMA SameIfEqual ==
    ASSUME NEW s \in Any, NEW t \in Any, Len(s) = Len(t),
           \A i \in 1 .. Len(s) : s[i] = t[i]
    PROVE  s = t
BY SeqEqual DEF Any

LEMMA UnderIs ==
    ASSUME NEW p \in Any, NEW q \in Any
    PROVE  Under(p, q) <=> Len(p) <= Len(q) /\ \A i \in 1 .. Len(p) : p[i] = q[i]
<1>1. Len(p) \in Nat /\ Len(q) \in Nat BY LenProperties DEF Any
<1>2. ASSUME Len(p) <= Len(q)
      PROVE  SubSeq(q, 1, Len(p)) = p <=> \A i \in 1 .. Len(p) : p[i] = q[i]
  <2>1. Len(p) \in 0 .. Len(q) BY <1>1, <1>2
  <2>2. /\ SubSeq(q, 1, Len(p)) \in Any /\ Len(SubSeq(q, 1, Len(p))) = Len(p)
        /\ \A i \in 1 .. Len(p) : SubSeq(q, 1, Len(p))[i] = q[i]
    BY <2>1, Prefix
  <2> QED BY <2>2, SameIfEqual
<1> QED BY <1>2 DEF Under

LEMMA UnderOrder ==
    ASSUME NEW p \in Any, NEW q \in Any
    PROVE  /\ Under(p, p)
           /\ Under(<<>>, p)
           /\ Under(p, q) /\ Under(q, p) => p = q
           /\ \A x \in Any : Under(p, q) /\ Under(q, x) => Under(p, x)
           /\ \A x \in Any : Under(p, x) /\ Under(q, x) /\ Len(p) <= Len(q) => Under(p, q)
<1>1. Len(p) \in Nat /\ Len(q) \in Nat /\ \A x \in Any : Len(x) \in Nat
  BY LenProperties DEF Any
<1>2. <<>> \in Any /\ Len(<<>>) = 0 BY EmptySeq DEF Any
<1>3. Under(p, p) /\ Under(<<>>, p) BY <1>1, <1>2, UnderIs
<1>4. Under(p, q) /\ Under(q, p) => p = q BY <1>1, UnderIs, SameIfEqual
<1>5. \A x \in Any : Under(p, q) /\ Under(q, x) => Under(p, x)
  <2> TAKE x \in Any
  <2> HAVE Under(p, q) /\ Under(q, x)
  <2>1. Len(p) <= Len(q) /\ \A i \in 1 .. Len(p) : p[i] = q[i] BY UnderIs
  <2>2. Len(q) <= Len(x) /\ \A i \in 1 .. Len(q) : q[i] = x[i] BY UnderIs
  <2>3. Len(p) <= Len(x) /\ \A i \in 1 .. Len(p) : p[i] = x[i]
    BY <1>1, <2>1, <2>2
  <2> QED BY <2>3, UnderIs
<1>6. \A x \in Any : Under(p, x) /\ Under(q, x) /\ Len(p) <= Len(q) => Under(p, q)
  <2> TAKE x \in Any
  <2> HAVE Under(p, x) /\ Under(q, x) /\ Len(p) <= Len(q)
  <2>1. \A i \in 1 .. Len(p) : p[i] = x[i] BY UnderIs
  <2>2. \A i \in 1 .. Len(q) : q[i] = x[i] BY UnderIs
  <2>3. \A i \in 1 .. Len(p) : p[i] = q[i] BY <1>1, <2>1, <2>2
  <2> QED BY <2>3, UnderIs
<1> QED BY <1>3, <1>4, <1>5, <1>6

LEMMA ParentIs ==
    ASSUME NEW p \in Any, p # <<>>
    PROVE  /\ Parent(p) \in Any
           /\ Len(p) \in Nat \ {0} /\ Len(Parent(p)) = Len(p) - 1
           /\ \A i \in 1 .. Len(p) - 1 : Parent(p)[i] = p[i]
<1>1. Len(p) \in Nat \ {0} BY EmptySeq DEF Any
<1>2. Len(p) - 1 \in 0 .. Len(p) BY <1>1
<1> QED BY <1>1, <1>2, Prefix DEF Parent

LEMMA UnderParent ==
    ASSUME NEW p \in Any, NEW x \in Any, x # <<>>
    PROVE  /\ Under(Parent(x), x) /\ Parent(x) # x
           /\ Under(p, Parent(x)) => Under(p, x) /\ p # x
           /\ Under(p, x) /\ p # x => Under(p, Parent(x))
<1>1. /\ Parent(x) \in Any
      /\ Len(x) \in Nat \ {0} /\ Len(Parent(x)) = Len(x) - 1
      /\ \A i \in 1 .. Len(x) - 1 : Parent(x)[i] = x[i]
  BY ParentIs
<1>2. Len(p) \in Nat BY LenProperties DEF Any
<1>3. Under(Parent(x), x) /\ Parent(x) # x BY <1>1, UnderIs
<1>4. ASSUME Under(p, Parent(x)) PROVE Under(p, x) /\ p # x
  <2>1. Under(p, x) BY <1>1, <1>3, <1>4, UnderOrder
  <2>2. Len(p) <= Len(x) - 1 BY <1>1, <1>4, UnderIs
  <2> QED BY <1>1, <2>1, <2>2
<1>5. ASSUME Under(p, x), p # x PROVE Under(p, Parent(x))
  <2>1. Len(p) <= Len(x) /\ \A i \in 1 .. Len(p) : p[i] = x[i] BY <1>5, UnderIs
  <2>2. Len(p) # Len(x) BY <1>5, <2>1, SameIfEqual
  <2>3. Len(p) <= Len(x) - 1 BY <1>1, <1>2, <2>1, <2>2
  <2>4. \A i \in 1 .. Len(p) : p[i] = Parent(x)[i] BY <1>1, <1>2, <2>1, <2>3
  <2> QED BY <1>1, <2>3, <2>4, UnderIs
<1> QED BY <1>3, <1>4, <1>5

LEMMA RebaseIs ==
    ASSUME NEW x \in Any, NEW from \in Any, NEW to \in Any, Under(from, x)
    PROVE  /\ Rebase(x, from, to) \in Any
           /\ Len(from) \in Nat /\ Len(to) \in Nat /\ Len(x) \in Nat /\ Len(from) <= Len(x)
           /\ Len(Rebase(x, from, to)) = Len(to) + (Len(x) - Len(from))
           /\ \A i \in 1 .. Len(to) : Rebase(x, from, to)[i] = to[i]
           /\ \A i \in 1 .. Len(x) - Len(from) :
                Rebase(x, from, to)[Len(to) + i] = x[Len(from) + i]
<1>1. Len(from) \in Nat /\ Len(to) \in Nat /\ Len(x) \in Nat BY LenProperties DEF Any
<1>2. Len(from) <= Len(x) BY UnderIs
<1> DEFINE S == Component \cup Req
           m == Len(from) + 1
           n == Len(x)
           rest == SubSeq(x, m, n)
<1>3. \A i \in m .. n : x[i] \in S BY <1>1, ElementOfSeq DEF Any
<1>4. m \in Int /\ n \in Int BY <1>1
<1>5. /\ rest \in Seq(S) /\ Len(rest) = IF m <= n THEN n - m + 1 ELSE 0
      /\ \A i \in 1 .. n - m + 1 : rest[i] = x[m + i - 1]
  <2> HIDE DEF m, n, S
  <2> QED BY <1>3, <1>4, SubSeqProperties
<1>6. Len(rest) = Len(x) - Len(from) BY <1>1, <1>2, <1>5
<1>7. \A i \in 1 .. Len(x) - Len(from) : rest[i] = x[Len(from) + i]
  BY <1>1, <1>2, <1>5
<1>8. /\ to \o rest \in Seq(S) /\ Len(to \o rest) = Len(to) + Len(rest)
      /\ \A i \in 1 .. Len(to) + Len(rest) :
            (to \o rest)[i] = IF i <= Len(to) THEN to[i] ELSE rest[i - Len(to)]
  <2>1. to \in Seq(S) BY DEF Any
  <2> HIDE DEF rest, S
  <2> QED BY <1>5, <2>1, ConcatProperties
<1> HIDE DEF rest, m, n
<1>9. Rebase(x, from, to) = to \o rest BY DEF Rebase, rest, m, n
<1>10. \A i \in 1 .. Len(to) : (to \o rest)[i] = to[i] BY <1>1, <1>2, <1>6, <1>8
<1>11. \A i \in 1 .. Len(x) - Len(from) : (to \o rest)[Len(to) + i] = x[Len(from) + i]
  <2> TAKE i \in 1 .. Len(x) - Len(from)
  <2>1. /\ Len(to) + i \in 1 .. Len(to) + Len(rest) /\ ~(Len(to) + i <= Len(to))
        /\ Len(to) + i - Len(to) = i
    BY <1>1, <1>2, <1>6
  <2> QED BY <1>7, <1>8, <2>1
<1> QED BY <1>1, <1>2, <1>6, <1>8, <1>9, <1>10, <1>11 DEF Any

LEMMA RebaseBack ==
    ASSUME NEW x \in Any, NEW from \in Any, NEW to \in Any, Under(from, x)
    PROVE  /\ Under(to, Rebase(x, from, to))
           /\ Rebase(Rebase(x, from, to), to, from) = x
           /\ x = from <=> Rebase(x, from, to) = to
<1> DEFINE y == Rebase(x, from, to)
           z == Rebase(y, to, from)
<1>1. /\ y \in Any
      /\ Len(from) \in Nat /\ Len(to) \in Nat /\ Len(x) \in Nat /\ Len(from) <= Len(x)
      /\ Len(y) = Len(to) + (Len(x) - Len(from))
      /\ \A i \in 1 .. Len(to) : y[i] = to[i]
      /\ \A i \in 1 .. Len(x) - Len(from) : y[Len(to) + i] = x[Len(from) + i]
  BY RebaseIs
<1> HIDE DEF y
<1>2. Under(to, y)
  <2>1. Len(to) <= Len(y) BY <1>1
  <2>2. \A i \in 1 .. Len(to) : to[i] = y[i] BY <1>1
  <2> QED BY <1>1, <2>1, <2>2, UnderIs
<1>3. /\ z \in Any
      /\ Len(z) = Len(from) + (Len(y) - Len(to))
      /\ \A i \in 1 .. Len(from) : z[i] = from[i]
      /\ \A i \in 1 .. Len(y) - Len(to) : z[Len(from) + i] = y[Len(to) + i]
  BY <1>1, <1>2, RebaseIs
<1> HIDE DEF z
<1>4. z = x
  <2>1. Len(z) = Len(x) BY <1>1, <1>3
  <2>2. \A i \in 1 .. Len(from) : from[i] = x[i] BY UnderIs
  <2>3. ASSUME NEW i \in 1 .. Len(z) PROVE z[i] = x[i]
    <3>1. CASE i <= Len(from)
      <4>1. i \in 1 .. Len(from) BY <1>1, <2>1, <3>1
      <4> QED BY <1>3, <2>2, <4>1
    <3>2. CASE ~(i <= Len(from))
      <4> DEFINE j == i - Len(from)
      <4>1. j \in 1 .. Len(y) - Len(to) /\ j \in 1 .. Len(x) - Len(from) /\ Len(from) + j = i
        BY <1>1, <2>1, <3>2
      <4>2. z[Len(from) + j] = y[Len(to) + j] BY <1>3, <4>1
      <4>3. y[Len(to) + j] = x[Len(from) + j] BY <1>1, <4>1
      <4> QED BY <4>1, <4>2, <4>3
    <3> QED BY <3>1, <3>2
  <2> QED BY <1>3, <2>1, <2>3, SameIfEqual
<1>5. ASSUME x = from PROVE y = to
  <2>1. Len(y) = Len(to) BY <1>1, <1>5
  <2>2. \A i \in 1 .. Len(y) : y[i] = to[i] BY <1>1, <2>1
  <2> QED BY <1>1, <2>1, <2>2, SameIfEqual
<1>6. ASSUME y = to PROVE x = from
  <2>1. Len(x) = Len(from) BY <1>1, <1>6
  <2>2. \A i \in 1 .. Len(x) : x[i] = from[i] BY <2>1, UnderIs
  <2> QED BY <2>1, <2>2, SameIfEqual
<1> QED BY <1>2, <1>4, <1>5, <1>6 DEF y, z

LEMMA RebaseParent ==
    ASSUME NEW x \in Any, NEW from \in Any, NEW to \in Any, Under(from, x), x # from
    PROVE  /\ x # <<>> /\ Rebase(x, from, to) # <<>>
           /\ Under(from, Parent(x))
           /\ Parent(Rebase(x, from, to)) = Rebase(Parent(x), from, to)
<1>1. x # <<>>
  <2>1. from \in Any /\ Under(from, <<>>) => from = <<>> BY UnderOrder, EmptySeq DEF Any
  <2> QED BY <2>1
<1>2. Under(from, Parent(x)) /\ Parent(x) \in Any BY <1>1, UnderParent, ParentIs
<1> DEFINE y == Rebase(x, from, to)
           u == Parent(x)
           v == Rebase(u, from, to)
<1>3. /\ y \in Any
      /\ Len(from) \in Nat /\ Len(to) \in Nat /\ Len(x) \in Nat /\ Len(from) <= Len(x)
      /\ Len(y) = Len(to) + (Len(x) - Len(from))
      /\ \A i \in 1 .. Len(to) : y[i] = to[i]
      /\ \A i \in 1 .. Len(x) - Len(from) : y[Len(to) + i] = x[Len(from) + i]
  BY RebaseIs
<1>4. u \in Any /\ Len(u) = Len(x) - 1 /\ \A i \in 1 .. Len(x) - 1 : u[i] = x[i]
  BY <1>1, ParentIs
<1>5. /\ v \in Any /\ Len(from) <= Len(u)
      /\ Len(v) = Len(to) + (Len(u) - Len(from))
      /\ \A i \in 1 .. Len(to) : v[i] = to[i]
      /\ \A i \in 1 .. Len(u) - Len(from) : v[Len(to) + i] = u[Len(from) + i]
  BY <1>2, RebaseIs
<1> HIDE DEF y, u, v
<1>6. Len(y) > 0 BY <1>3, <1>4, <1>5
<1>7. y # <<>> BY <1>6, EmptySeq
<1>8. Parent(y) \in Any /\ Len(Parent(y)) = Len(y) - 1 /\ \A i \in 1 .. Len(y) - 1 : Parent(y)[i] = y[i]
  BY <1>3, <1>7, ParentIs
<1>9. Len(Parent(y)) = Len(v) BY <1>3, <1>4, <1>5, <1>8
<1>10. ASSUME NEW i \in 1 .. Len(v) PROVE Parent(y)[i] = v[i]
  <2>1. i \in 1 .. Len(y) - 1 BY <1>8, <1>9
  <2>2. Parent(y)[i] = y[i] BY <1>8, <2>1
  <2>3. CASE i <= Len(to)
    <3>1. i \in 1 .. Len(to) BY <1>3, <1>5, <2>3
    <3> QED BY <1>3, <1>5, <2>2, <3>1
  <2>4. CASE ~(i <= Len(to))
    <3> DEFINE j == i - Len(to)
    <3>1. /\ j \in 1 .. Len(u) - Len(from) /\ j \in 1 .. Len(x) - Len(from)
          /\ Len(from) + j \in 1 .. Len(x) - 1 /\ Len(to) + j = i
      BY <1>3, <1>4, <1>5, <2>4
    <3>2. v[Len(to) + j] = u[Len(from) + j] BY <1>5, <3>1
    <3>3. y[Len(to) + j] = x[Len(from) + j] BY <1>3, <3>1
    <3>4. u[Len(from) + j] = x[Len(from) + j] BY <1>4, <3>1
    <3> QED BY <2>2, <3>1, <3>2, <3>3, <3>4
  <2> QED BY <2>3, <2>4
<1>11. Parent(y) = v BY <1>5, <1>8, <1>9, <1>10, SameIfEqual
<1> QED BY <1>1, <1>2, <1>7, <1>11 DEF y, u, v

\* The last component tells a temporary file, and the request that made it, by its name.
LastOf(x) == x[Len(x)]

TempsOf(r) == {Temp(p, r) : p \in Path}

LEMMA ParentsArePaths ==
    ASSUME NEW p \in Path
    PROVE  Parent(p) \in Path \cup {<<>>}
<1>1. p \in Any /\ Len(p) \in Nat \ {0} BY PathsAreAny
<1>2. CASE Len(p) = 1
  <2>1. Len(p) - 1 \in 0 .. Len(p) /\ Len(p) - 1 = 0 BY <1>2
  <2>2. Parent(p) \in Any /\ Len(Parent(p)) = 0 BY <1>1, <2>1, Prefix DEF Parent
  <2> QED BY <2>2, EmptySeq DEF Any
<1>3. CASE Len(p) # 1
  <2>1. Len(p) - 1 \in 1 .. Len(p) BY <1>1, <1>3
  <2> QED BY <2>1, PathAssumption DEF Parent
<1> QED BY <1>2, <1>3

LEMMA Temps ==
    ASSUME NEW p \in Path, NEW r \in Req
    PROVE  /\ Temp(p, r) \in Any /\ Temp(p, r) # <<>> /\ Temp(p, r) \in Name
           /\ Parent(Temp(p, r)) = Parent(p)
           /\ LastOf(Temp(p, r)) = r
           /\ Len(Temp(p, r)) = Len(p)
<1>1. p \in Any /\ p # <<>> /\ Len(p) \in Nat \ {0}
  BY PathsAreAny, PathAssumption
<1> DEFINE u == Parent(p)
           t == Append(u, r)
           S == Component \cup Req
<1>2. u \in Seq(S) /\ Len(u) = Len(p) - 1 BY <1>1, ParentIs DEF Any
<1>3. r \in S OBVIOUS
<1>4. /\ t \in Seq(S) /\ Len(t) = Len(u) + 1
      /\ \A i \in 1 .. Len(u) : t[i] = u[i]
      /\ t[Len(u) + 1] = r
  <2> HIDE DEF u, S
  <2> QED BY <1>2, <1>3, AppendProperties
<1>5. t # <<>> BY <1>1, <1>2, <1>4, EmptySeq
<1>6. Len(t) = Len(p) /\ t[Len(t)] = r BY <1>1, <1>2, <1>4
<1>7. Parent(t) = u
  <2>1. /\ Parent(t) \in Any /\ Len(Parent(t)) = Len(t) - 1
        /\ \A i \in 1 .. Len(t) - 1 : Parent(t)[i] = t[i]
    BY <1>4, <1>5, ParentIs DEF Any
  <2> HIDE DEF u, t
  <2>2. Len(Parent(t)) = Len(u) BY <1>1, <1>2, <1>4, <2>1
  <2>3. \A i \in 1 .. Len(u) : Parent(t)[i] = u[i] BY <1>1, <1>2, <1>4, <2>1
  <2> QED BY <1>2, <2>1, <2>2, <2>3, SameIfEqual DEF Any
<1>8. Temp(p, r) = t BY DEF Temp
<1> QED BY <1>4, <1>5, <1>6, <1>7, <1>8 DEF Any, Name, LastOf

LEMMA NamesAreAny ==
    ASSUME NEW x \in Name
    PROVE  /\ x \in Any /\ x # <<>> /\ x # Absent
           /\ Parent(x) \in Path \cup {<<>>}
           /\ x \in Path <=> LastOf(x) \in Component
           /\ \A r \in Req : x \in TempsOf(r) <=> LastOf(x) = r
<1>1. CASE x \in Path
  <2>1. x \in Any /\ x # <<>> /\ LastOf(x) \in Component
    BY <1>1, PathsAreAny, PathAssumption DEF LastOf
  <2>2. ASSUME NEW r \in Req PROVE x \notin TempsOf(r) /\ LastOf(x) # r
    BY <2>1, Temps, PathAssumption DEF TempsOf
  <2> QED BY <1>1, <2>1, <2>2, ParentsArePaths, EntryAssumption
<1>2. CASE x \notin Path
  <2>1. PICK p \in Path, s \in Req : x = Temp(p, s) BY <1>2 DEF Name
  <2>2. x \in Any /\ x # <<>> /\ Parent(x) = Parent(p) /\ LastOf(x) = s BY <2>1, Temps
  <2>3. s \notin Component BY PathAssumption
  <2>4. ASSUME NEW r \in Req PROVE x \in TempsOf(r) <=> s = r
    BY <2>1, <2>2, Temps DEF TempsOf
  <2> QED BY <1>2, <2>2, <2>3, <2>4, ParentsArePaths, EntryAssumption
<1> QED BY <1>1, <1>2

LEMMA AncestorsArePaths ==
    ASSUME NEW x \in Name, NEW y \in Any, y # <<>>, y # x, Under(y, x)
    PROVE  y \in Path
<1>1. x \in Any /\ x # <<>> /\ Parent(x) \in Path \cup {<<>>} BY NamesAreAny
<1>2. Under(y, Parent(x)) BY <1>1, UnderParent
<1>3. Parent(x) \in Any BY <1>1, ParentIs
<1>4. Parent(x) # <<>>
  <2>1. Len(y) \in Nat \ {0} /\ Len(<<>>) = 0 BY EmptySeq DEF Any
  <2>2. Len(y) <= Len(Parent(x)) BY <1>2, <1>3, UnderIs
  <2> QED BY <2>1, <2>2
<1>5. Parent(x) \in Path BY <1>1, <1>4
<1>6. y = SubSeq(Parent(x), 1, Len(y)) /\ Len(y) <= Len(Parent(x)) BY <1>2 DEF Under
<1>7. Len(y) \in 1 .. Len(Parent(x))
  <2>1. Len(y) \in Nat \ {0} BY EmptySeq DEF Any
  <2>2. Len(Parent(x)) \in Nat BY <1>5, PathsAreAny
  <2> QED BY <1>6, <2>1, <2>2
<1> QED BY <1>5, <1>6, <1>7, PathAssumption

LEMMA TempsAreLeaves ==
    ASSUME NEW p \in Path, NEW r \in Req, NEW x \in Name, Under(Temp(p, r), x)
    PROVE  x = Temp(p, r)
<1>1. Temp(p, r) \in Any /\ Temp(p, r) # <<>> /\ Temp(p, r) \in Name /\ LastOf(Temp(p, r)) = r
  BY Temps
<1>2. Temp(p, r) \notin Path BY <1>1, NamesAreAny, PathAssumption
<1> QED BY <1>1, <1>2, AncestorsArePaths

LEMMA RebaseKeepsKind ==
    ASSUME NEW x \in Name, NEW from \in Path, NEW to \in Path, Under(from, x),
           Rebase(x, from, to) \in Name
    PROVE  /\ x \in Path <=> Rebase(x, from, to) \in Path
           /\ \A r \in Req : x \in TempsOf(r) <=> Rebase(x, from, to) \in TempsOf(r)
<1>1. x \in Any /\ from \in Any /\ to \in Any BY NamesAreAny, PathsAreAny
<1>2. CASE x = from
  <2>1. Rebase(x, from, to) = to BY <1>1, <1>2, RebaseBack
  <2>2. \A y \in Path : LastOf(y) \in Component /\ y \in Name BY NamesAreAny DEF Name
  <2> QED BY <1>2, <2>1, <2>2, NamesAreAny, PathAssumption
<1>3. CASE x # from
  <2> DEFINE y == Rebase(x, from, to)
             k == Len(x) - Len(from)
  <2>1. /\ Len(from) \in Nat /\ Len(to) \in Nat /\ Len(x) \in Nat /\ Len(from) <= Len(x)
        /\ Len(y) = Len(to) + k
        /\ \A i \in 1 .. k : y[Len(to) + i] = x[Len(from) + i]
    BY <1>1, RebaseIs
  <2>2. Len(x) # Len(from)
    <3>1. \A i \in 1 .. Len(from) : from[i] = x[i] BY <1>1, UnderIs
    <3> QED BY <1>1, <1>3, <3>1, SameIfEqual
  <2>3. k \in 1 .. k /\ Len(from) + k = Len(x) BY <2>1, <2>2
  <2>4. LastOf(y) = LastOf(x)
    <3> HIDE DEF y, k
    <3>1. y[Len(to) + k] = x[Len(from) + k] BY <2>1, <2>3
    <3> QED BY <2>1, <2>3, <3>1 DEF LastOf
  <2>5. y \in Name OBVIOUS
  <2> HIDE DEF y
  <2>6. /\ x \in Path <=> y \in Path
        /\ \A r \in Req : x \in TempsOf(r) <=> y \in TempsOf(r)
    BY <2>4, <2>5, NamesAreAny
  <2> QED BY <2>6 DEF y
<1> QED BY <1>2, <1>3

-----------------------------------------------------------------------------
(* Trees *)

LEMMA PathsAreNames == Path \subseteq Name
  BY DEF Name

LEMMA RemoveCloses ==
    ASSUME NEW t, IsTree(t), NEW p \in Name
    PROVE  IsTree(Without(t, p))
<1> DEFINE u == Without(t, p)
<1>1. u \in [Name -> Entry] BY DEF Without, IsTree, Entry
<1>2. ASSUME NEW x \in Name, u[x] # Absent PROVE IsDir(u, Parent(x))
  <2>1. ~Under(p, x) /\ t[x] # Absent /\ u[x] = t[x] BY <1>2 DEF Without
  <2>2. IsDir(t, Parent(x)) BY <2>1 DEF IsTree
  <2>3. CASE Parent(x) = <<>> BY <2>3 DEF IsDir
  <2>4. CASE Parent(x) # <<>>
    <3>1. x \in Any /\ x # <<>> /\ p \in Any /\ Parent(x) \in Name
      BY <2>4, NamesAreAny, PathsAreNames
    <3>2. ~Under(p, Parent(x)) BY <2>1, <3>1, UnderParent
    <3> QED BY <2>2, <2>4, <3>1, <3>2 DEF Without, IsDir
  <2> QED BY <2>3, <2>4
<1>3. \A x \in Name : u[x] = Dir => x \in Path
  BY EntryAssumption DEF Without, IsTree
<1> HIDE DEF u
<1>4. IsTree(u) BY <1>1, <1>2, <1>3 DEF IsTree
<1> QED BY <1>4 DEF u

\* Making the directories on the way changes no file.
LEMMA ReachCloses ==
    ASSUME NEW t, IsTree(t), NEW p \in Name, Reachable(t, p)
    PROVE  /\ IsTree(Reached(t, p))
           /\ IsDir(Reached(t, p), Parent(p))
           /\ Reached(t, p)[p] = t[p]
           /\ \A x \in Name : /\ t[x] # Absent => Reached(t, p)[x] = t[x]
                              /\ t[x] = Absent => Reached(t, p)[x] \in {Absent, Dir}
<1> DEFINE u == Reached(t, p)
<1>1. u \in [Name -> Entry] BY DEF Reached, IsTree, Entry
<1>2. p \in Any /\ p # <<>> BY NamesAreAny
<1>3. \A x \in Name : Under(x, p) /\ x # p => x \in Path /\ t[x] \in {Absent, Dir} /\ u[x] = Dir
  BY <1>2, NamesAreAny, AncestorsArePaths DEF Reachable, Reached
<1>4. \A x \in Name : ~(Under(x, p) /\ x # p) => u[x] = t[x]
  BY DEF Reached
<1>5. ASSUME NEW x \in Name, u[x] # Absent PROVE IsDir(u, Parent(x))
  <2>1. x \in Any /\ x # <<>> /\ Parent(x) \in Any BY NamesAreAny, ParentIs
  <2>2. CASE Parent(x) = <<>> BY <2>2 DEF IsDir
  <2>3. CASE Parent(x) # <<>>
    <3>1. Parent(x) \in Name BY <2>3, NamesAreAny, PathsAreNames
    <3>2. CASE Under(x, p) /\ x # p
      <4>1. Under(Parent(x), x) /\ Parent(x) # x BY <2>1, UnderParent
      <4>2. Under(Parent(x), p) BY <1>2, <2>1, <3>2, <4>1, UnderOrder
      <4>3. Parent(x) # p BY <1>2, <2>1, <3>2, <4>1, UnderOrder
      <4> QED BY <1>3, <3>1, <4>2, <4>3 DEF IsDir
    <3>3. CASE ~(Under(x, p) /\ x # p)
      <4>1. t[Parent(x)] = Dir BY <1>4, <1>5, <2>3, <3>3 DEF IsTree, IsDir
      <4> QED BY <1>3, <1>4, <3>1, <4>1 DEF IsDir
    <3> QED BY <3>2, <3>3
  <2> QED BY <2>2, <2>3
<1>6. \A x \in Name : u[x] = Dir => x \in Path BY <1>3, <1>4 DEF IsTree
<1>7. IsDir(u, Parent(p))
  <2>1. CASE Parent(p) = <<>> BY <2>1 DEF IsDir
  <2>2. CASE Parent(p) # <<>>
    <3>1. Parent(p) \in Name BY <2>2, NamesAreAny, PathsAreNames
    <3>2. Under(Parent(p), p) /\ Parent(p) # p BY <1>2, UnderParent
    <3> QED BY <1>3, <3>1, <3>2 DEF IsDir
  <2> QED BY <2>1, <2>2
<1>8. \A x \in Name : /\ t[x] # Absent => u[x] = t[x]
                      /\ t[x] = Absent => u[x] \in {Absent, Dir}
  BY <1>3, <1>4
<1>9. u[p] = t[p] BY <1>4
<1> HIDE DEF u
<1>10. IsTree(u) BY <1>1, <1>5, <1>6 DEF IsTree
<1> QED BY <1>7, <1>8, <1>9, <1>10 DEF u

LEMMA PutCloses ==
    ASSUME NEW t, IsTree(t), NEW p \in Name, NEW e \in Entry, IsDir(t, Parent(p)),
           e = Dir => p \in Path, e # Dir => t[p] # Dir
    PROVE  IsTree(Put(t, p, e))
<1> DEFINE u == Put(t, p, e)
<1>1. u \in [Name -> Entry] /\ u[p] = e /\ \A x \in Name : x # p => u[x] = t[x]
  BY DEF Put, IsTree
<1> HIDE DEF u
<1>2. ASSUME NEW x \in Name, u[x] # Absent PROVE IsDir(u, Parent(x))
  <2>1. x \in Any /\ x # <<>> /\ p \in Any /\ Parent(x) \in Path \cup {<<>>}
    BY NamesAreAny
  <2>2. IsDir(t, Parent(x)) BY <1>1, <1>2 DEF IsTree
  <2>3. CASE Parent(x) = p BY <1>1, <2>2, <2>3 DEF IsDir
  <2>4. CASE Parent(x) # p BY <1>1, <2>1, <2>2, <2>4, PathsAreNames DEF IsDir
  <2> QED BY <2>3, <2>4
<1>3. \A x \in Name : u[x] = Dir => x \in Path BY <1>1 DEF IsTree
<1>4. IsTree(u) BY <1>1, <1>2, <1>3 DEF IsTree
<1> QED BY <1>4 DEF u

\* What is moved: a path with everything below it, or a temporary file to its place.
LEMMA RenameCloses ==
    ASSUME NEW t, IsTree(t), NEW from \in Name, NEW to \in Path, Renamable(t, from, to),
           ~Under(from, to),
           from \in Path \/ t[from] # Dir
    PROVE  IsTree(Renamed(t, from, to))
<1> DEFINE u == Renamed(t, from, to)
<1>1. u \in [Name -> Entry] BY DEF Renamed, IsTree, Entry
<1>2. from \in Any /\ from # <<>> /\ to \in Any /\ to \in Name /\ to # <<>>
  BY NamesAreAny, PathsAreNames
<1>3. /\ \A x \in Name : Under(to, x) /\ Rebase(x, to, from) \in Name => u[x] = t[Rebase(x, to, from)]
      /\ \A x \in Name : Under(to, x) /\ Rebase(x, to, from) \notin Name => u[x] = Absent
      /\ \A x \in Name : ~Under(to, x) /\ Under(from, x) => u[x] = Absent
      /\ \A x \in Name : ~Under(to, x) /\ ~Under(from, x) => u[x] = t[x]
  BY DEF Renamed
<1> HIDE DEF u
<1>4. ASSUME NEW x \in Name, u[x] # Absent PROVE IsDir(u, Parent(x))
  <2>1. x \in Any /\ x # <<>> /\ Parent(x) \in Any /\ Parent(x) \in Path \cup {<<>>}
    BY NamesAreAny, ParentIs
  <2> SUFFICES ASSUME Parent(x) # <<>> PROVE u[Parent(x)] = Dir
    BY DEF IsDir
  <2>2. Parent(x) \in Name BY <2>1, PathsAreNames
  <2>3. CASE x = to
    <3>1. t[Parent(x)] = Dir BY <2>3 DEF Renamable, IsDir
    <3>2. ~Under(to, Parent(x)) /\ ~Under(from, Parent(x))
      BY <1>2, <2>1, <2>3, UnderParent
    <3> QED BY <1>3, <2>2, <3>1, <3>2
  <2>4. CASE Under(to, x) /\ x # to
    <3> DEFINE y == Rebase(x, to, from)
    <3>1. y \in Name /\ t[y] # Absent BY <1>3, <1>4, <2>4
    <3>2. Under(to, Parent(x)) /\ Parent(y) = Rebase(Parent(x), to, from)
      BY <1>2, <2>1, <2>4, RebaseParent
    <3>3. Under(from, Parent(y)) BY <1>2, <2>1, <3>2, RebaseBack
    <3>4. Parent(y) # <<>>
      <4>1. <<>> \in Any /\ Under(<<>>, from) BY <1>2, UnderOrder, EmptySeq DEF Any
      <4> QED BY <1>2, <3>3, <4>1, UnderOrder
    <3>5. t[Parent(y)] = Dir /\ Parent(y) \in Name
      BY <3>1, <3>4, NamesAreAny, PathsAreNames DEF IsTree, IsDir
    <3> QED BY <1>3, <2>2, <3>2, <3>5
  <2>5. CASE ~Under(to, x)
    <3>1. ~Under(from, x) /\ t[x] # Absent BY <1>3, <1>4, <2>5
    <3>2. t[Parent(x)] = Dir BY <3>1 DEF IsTree, IsDir
    <3>3. ~Under(to, Parent(x)) /\ ~Under(from, Parent(x))
      BY <1>2, <2>1, <2>5, <3>1, UnderParent
    <3> QED BY <1>3, <2>2, <3>2, <3>3
  <2> QED BY <2>3, <2>4, <2>5
<1>5. ASSUME NEW x \in Name, u[x] = Dir PROVE x \in Path
  <2>1. CASE Under(to, x)
    <3> DEFINE y == Rebase(x, to, from)
    <3>1. y \in Name /\ t[y] = Dir BY <1>3, <1>5, <2>1, EntryAssumption
    <3>2. y \in Path BY <3>1 DEF IsTree
    <3>3. x \in Any BY NamesAreAny
    <3>4. CASE from \in Path BY <2>1, <3>1, <3>2, <3>4, RebaseKeepsKind
    <3>5. CASE from \notin Path
      <4>1. Under(from, y) BY <1>2, <2>1, <3>3, RebaseBack
      <4>2. y = from
        <5>1. PICK p \in Path, r \in Req : from = Temp(p, r) BY <3>5 DEF Name
        <5> QED BY <3>1, <4>1, <5>1, TempsAreLeaves
      <4> QED BY <3>2, <3>5, <4>2
    <3> QED BY <3>4, <3>5
  <2>2. CASE ~Under(to, x) BY <1>3, <1>5, <2>2, EntryAssumption DEF IsTree
  <2> QED BY <2>1, <2>2
<1>6. IsTree(u) BY <1>1, <1>4, <1>5 DEF IsTree
<1> QED BY <1>6 DEF u

-----------------------------------------------------------------------------
(* Files that are being written *)

PensOK(t, pn) ==
    /\ pn \in [Req -> Name \cup {Absent}]
    /\ \A r \in Req : pn[r] # Absent => IsFile(t, pn[r])

\* Whatever leaves the files that are open in place keeps them open.
LEMMA FilesStay ==
    ASSUME NEW t, NEW u, NEW pn, PensOK(t, pn),
           \A x \in Name : IsFile(t, x) => IsFile(u, x)
    PROVE  PensOK(u, pn)
BY DEF PensOK

LEMMA FileIsEntry ==
    ASSUME NEW t, NEW x, IsFile(t, x)
    PROVE  t[x] # Absent /\ t[x] # Dir /\ t[x] \in Entry
BY EntryAssumption DEF IsFile, Entry

LEMMA RemoveKeepsPens ==
    ASSUME IsTree(tree), PensOK(tree, pen), NEW p \in Name
    PROVE  PensOK(Without(tree, p), PensWithout(p))
BY DEF PensOK, PensWithout, Without, IsFile

LEMMA ReachKeepsPens ==
    ASSUME IsTree(tree), PensOK(tree, pen), NEW p \in Name, Reachable(tree, p)
    PROVE  PensOK(Reached(tree, p), pen)
<1>1. ASSUME NEW x \in Name, IsFile(tree, x) PROVE IsFile(Reached(tree, p), x)
  BY <1>1, FileIsEntry, ReachCloses DEF IsFile
<1> QED BY <1>1, FilesStay

LEMMA PutKeepsPens ==
    ASSUME NEW t, NEW pn, IsTree(t), PensOK(t, pn), NEW p \in Name, NEW e \in Entry,
           IsFile(t, p) => e \in Content
    PROVE  PensOK(Put(t, p, e), pn)
<1>1. ASSUME NEW x \in Name, IsFile(t, x) PROVE IsFile(Put(t, p, e), x)
  BY <1>1 DEF IsFile, Put, IsTree
<1> QED BY <1>1, FilesStay

LEMMA RenameKeepsPens ==
    ASSUME NEW t, IsTree(t), PensOK(t, pen), NEW from \in Name, NEW to \in Path,
           \A x \in Name : Under(from, x) => Rebase(x, from, to) \in Name
    PROVE  PensOK(Renamed(t, from, to), PensRenamed(from, to))
<1> DEFINE u == Renamed(t, from, to)
           pn == PensRenamed(from, to)
<1>1. from \in Any /\ to \in Any BY NamesAreAny, PathsAreNames
<1>2. pn \in [Req -> Name \cup {Absent}]
  BY DEF PensOK, PensRenamed
<1>3. ASSUME NEW r \in Req, pn[r] # Absent PROVE IsFile(u, pn[r])
  <2>1. pen[r] # Absent /\ pen[r] \in Name /\ IsFile(t, pen[r]) /\ ~Under(to, pen[r])
    BY <1>3 DEF PensOK, PensRenamed
  <2>2. CASE Under(from, pen[r])
    <3> DEFINE y == Rebase(pen[r], from, to)
    <3>1. y \in Name /\ pn[r] = y BY <2>1, <2>2 DEF PensRenamed
    <3>2. Under(to, y) /\ Rebase(y, to, from) = pen[r]
      BY <1>1, <2>1, <2>2, NamesAreAny, RebaseBack
    <3> HIDE DEF y
    <3>3. u[y] = t[pen[r]] BY <2>1, <3>1, <3>2 DEF Renamed
    <3> QED BY <2>1, <3>1, <3>3 DEF IsFile
  <2>3. CASE ~Under(from, pen[r])
    <3>1. pn[r] = pen[r] BY <2>1, <2>3 DEF PensRenamed
    <3> QED BY <2>1, <2>3, <3>1 DEF Renamed, IsFile
  <2> QED BY <2>2, <2>3
<1> QED BY <1>2, <1>3 DEF PensOK

-----------------------------------------------------------------------------
(* The records of the requests *)

\* Which handler is where, and what a move has made sure of.
FitFor(z, pc) ==
    /\ pc = "open" => z.kind = "read"
    /\ pc = "check" => z.kind # "read"
    /\ pc = "make" => z.kind \in {"mkdir", "file"}
    /\ pc \in {"stage", "body", "place"} => z.kind = "save"
    /\ pc = "look" => z.kind \in {"delete", "move"}
    /\ pc \in {"remove", "purge"} => z.kind = "delete"
    /\ pc \in {"rename", "copy", "pour", "undo", "stat", "relabel"} => z.kind = "move"
    /\ pc \in {"rename", "copy", "pour"} => ~Under(z.p, z.q)
    /\ pc \in {"copy", "pour"} => \A x \in z.todo : Under(z.p, x)

WellFormed(z) ==
    /\ z \in Request
    /\ z.kind = "move" => Fits(z.p, z.q)
    /\ FitFor(z, z.pc)

Requests(rq) == rq \in [Req -> Request] /\ \A r \in Req : WellFormed(rq[r])

TypeInv ==
    /\ IsTree(tree)
    /\ PensOK(tree, pen)
    /\ \A r \in Req : pen[r] # Absent => req[r].pc \in {"body", "pour"}
    /\ policy \in Policy
    /\ users \subseteq User /\ Admins \subseteq users
    /\ marks \in [Path -> User \cup {Nobody}]
    /\ edit \subseteq Path
    /\ Requests(req)

LEMMA OneSteps ==
    ASSUME NEW rq, Requests(rq), NEW r \in Req, NEW z, WellFormed(z)
    PROVE  /\ Requests([rq EXCEPT ![r] = z])
           /\ [rq EXCEPT ![r] = z] \in [Req -> Request]
           /\ [rq EXCEPT ![r] = z][r] = z
           /\ \A x \in Req : x # r => [rq EXCEPT ![r] = z][x] = rq[x]
BY DEF Requests, WellFormed

LEMMA LivedWell ==
    ASSUME Requests(req), NEW po \in Policy, NEW ma
    PROVE  /\ Requests(Lived(po, ma))
           /\ \A r \in Req : Lived(po, ma)[r].pc = req[r].pc
<1>1. ASSUME NEW r \in Req
      PROVE  WellFormed(Lived(po, ma)[r]) /\ Lived(po, ma)[r].pc = req[r].pc
  <2> DEFINE z == req[r]
             y == [z EXCEPT
                     !.shown = @ \cup {p \in {z.p, z.q} : ~Hidden(ma, z.id, p)},
                     !.public = @ \/ po = "public",
                     !.shut = @ /\ po = "private"]
  <2>1. WellFormed(z) BY DEF Requests
  <2>2. z \in Request BY <2>1 DEF WellFormed
  <2> HIDE DEF z
  <2>3. /\ y \in Request /\ y.pc = z.pc /\ y.kind = z.kind /\ y.p = z.p /\ y.q = z.q
        /\ y.todo = z.todo
    BY <2>2 DEF Request
  <2> HIDE DEF y
  <2>4. WellFormed(y) BY <2>1, <2>3 DEF WellFormed, FitFor
  <2>5. Lived(po, ma)[r] = IF Idle(r) THEN z ELSE y BY DEF Lived, y, z
  <2> QED BY <2>1, <2>3, <2>4, <2>5 DEF z
<1>2. Lived(po, ma) \in [Req -> Request]
  <2>1. DOMAIN Lived(po, ma) = Req /\ Lived(po, ma) = [r \in Req |-> Lived(po, ma)[r]] BY DEF Lived
  <2>2. \A r \in Req : Lived(po, ma)[r] \in Request BY <1>1 DEF WellFormed
  <2> QED BY <2>1, <2>2
<1> QED BY <1>1, <1>2 DEF Requests

LEMMA GotoWell ==
    ASSUME TypeInv, NEW r \in Req, NEW pc \in Pc, FitFor(req[r], pc), Goto(r, pc)
    PROVE  Requests(req') /\ req'[r].pc = pc /\ \A x \in Req : x # r => req'[x] = req[x]
<1> DEFINE z == req[r]
           y == [z EXCEPT !.pc = pc]
<1>1. WellFormed(z) /\ Requests(req) BY DEF TypeInv, Requests
<1>2. req' = [req EXCEPT ![r] = y] BY DEF Goto
<1> HIDE DEF z
<1>3. y \in Request /\ y.pc = pc /\ y.kind = z.kind /\ y.p = z.p /\ y.q = z.q /\ y.todo = z.todo
  BY <1>1 DEF WellFormed, Request
<1>4. FitFor(z, pc) BY DEF z
<1> HIDE DEF y
<1>5. WellFormed(y) BY <1>1, <1>3, <1>4 DEF WellFormed, FitFor
<1> QED BY <1>1, <1>2, <1>3, <1>5, OneSteps

LEMMA AnswerWell ==
    ASSUME TypeInv, NEW r \in Req, NEW code \in Code, Answer(r, code)
    PROVE  Requests(req') /\ req'[r].pc = "idle" /\ \A x \in Req : x # r => req'[x] = req[x]
<1> DEFINE z == req[r]
           y == [z EXCEPT !.pc = "idle", !.code = code, !.todo = {}]
<1>1. WellFormed(z) /\ Requests(req) BY DEF TypeInv, Requests
<1>2. req' = [req EXCEPT ![r] = y] BY DEF Answer
<1> HIDE DEF z
<1>3. y \in Request /\ y.pc = "idle" /\ y.kind = z.kind /\ y.p = z.p /\ y.q = z.q
  BY <1>1 DEF WellFormed, Request, Pc
<1> HIDE DEF y
<1>4. WellFormed(y) BY <1>1, <1>3 DEF WellFormed, FitFor
<1> QED BY <1>1, <1>2, <1>3, <1>4, OneSteps

LEMMA ArriveWell ==
    ASSUME TypeInv, NEW r \in Req, NEW kind \in Kind, NEW id \in User \cup {Guest},
           NEW p \in Path, NEW q \in Path, NEW b \in Body,
           NEW pc \in {"idle", "open", "check", "stage"},
           pc = "open" => kind = "read", pc = "check" => kind # "read",
           pc = "stage" => kind = "save", kind = "move" => Fits(p, q),
           Arrive(r, kind, id, p, q, b, pc)
    PROVE  /\ Requests(req')
           /\ req[r].pc = "idle"
           /\ \A x \in Req : x # r => req'[x].pc = req[x].pc
<1> DEFINE met == IF Rest THEN "none"
                  ELSE IF \E y \in Req : ~Idle(y) /\ req[y].kind = "move" THEN "move" ELSE "some"
           z == [pc |-> pc, kind |-> kind, id |-> id, p |-> p, q |-> q, body |-> b,
                 some |-> FALSE, todo |-> {}, item |-> Whole(b),
                 code |-> IF pc = "idle" THEN "refused" ELSE "none",
                 shown |-> {y \in {p, q} : ~Hidden(marks, id, y)},
                 public |-> policy = "public", shut |-> policy = "private", met |-> met]
           y(x) == [req[x] EXCEPT !.met = IF kind = "move" \/ @ = "move" THEN "move" ELSE "some"]
<1>1. req' = [x \in Req |-> IF x = r THEN z ELSE y(x)] /\ Idle(r) BY DEF Arrive
<1>2. z \in Request
  <2>1. Whole(b) \in Content BY DEF Whole, Content
  <2>2. met \in {"none", "some", "move"} OBVIOUS
  <2>3. {w \in {p, q} : ~Hidden(marks, id, w)} \in SUBSET Path OBVIOUS
  <2> HIDE DEF met
  <2> QED BY <2>1, <2>2, <2>3 DEF Request, Pc, Code
<1>3. /\ z.pc = pc /\ z.kind = kind /\ z.p = p /\ z.q = q /\ z.todo = {}
  OBVIOUS
<1> HIDE DEF z
<1>4. WellFormed(z) BY <1>2, <1>3 DEF WellFormed, FitFor
<1>5. ASSUME NEW x \in Req PROVE WellFormed(y(x)) /\ y(x).pc = req[x].pc
  <2> DEFINE w == req[x]
             v == [w EXCEPT !.met = IF kind = "move" \/ @ = "move" THEN "move" ELSE "some"]
  <2>1. WellFormed(w) BY DEF TypeInv, Requests
  <2> HIDE DEF w
  <2>2. v \in Request /\ v.pc = w.pc /\ v.kind = w.kind /\ v.p = w.p /\ v.q = w.q /\ v.todo = w.todo
    BY <2>1 DEF WellFormed, Request
  <2> HIDE DEF v
  <2>3. WellFormed(v) BY <2>1, <2>2 DEF WellFormed, FitFor
  <2> QED BY <2>2, <2>3 DEF v, w
<1> HIDE DEF y
<1>6. \A x \in Req : WellFormed(req'[x]) /\ (x # r => req'[x].pc = req[x].pc)
  BY <1>1, <1>4, <1>5
<1>7. req' \in [Req -> Request]
  BY <1>1, <1>2, <1>5 DEF WellFormed
<1> QED BY <1>1, <1>6, <1>7 DEF Requests, Idle, At

LEMMA CallsWell ==
    ASSUME TypeInv, NEW r \in Req, NEW cookie \in User \cup {Guest}, NEW p \in Path,
           Call(r, cookie, p)
    PROVE  /\ Requests(req')
           /\ req[r].pc = "idle" /\ \A x \in Req : x # r => req'[x].pc = req[x].pc
           /\ UNCHANGED <<tree, pen, policy, users, marks, edit>>
<1> DEFINE id == Identity(cookie)
           Fine == /\ Requests(req')
                   /\ req[r].pc = "idle" /\ \A x \in Req : x # r => req'[x].pc = req[x].pc
<1>0. id \in User \cup {Guest} BY DEF Identity
<1>1. UNCHANGED <<tree, pen, policy, users, marks, edit>>
  BY DEF Call, ReadArrive, CreateArrive, DeleteArrive, MoveArrive, SaveArrive, SaveByToken,
         Arrive, Keep, rights
<1>2. ASSUME ReadArrive(r, cookie, p) PROVE Fine
  <2> DEFINE pc == IF CanRead(id, p) THEN "open" ELSE "idle"
  <2>1. Arrive(r, "read", id, p, p, Empty, pc) BY <1>2 DEF ReadArrive
  <2>2. pc \in {"open", "idle"} OBVIOUS
  <2>3. Empty \in Body BY AccountsAssumption
  <2> HIDE DEF pc, id
  <2> QED BY <1>0, <2>1, <2>2, <2>3, ArriveWell DEF Kind
<1>3. ASSUME NEW kind \in Kind, CreateArrive(r, cookie, kind, p) PROVE Fine
  <2> DEFINE pc == IF (id # Guest \/ policy = "public") /\ Free(p) THEN "check" ELSE "idle"
  <2>1. Arrive(r, kind, id, p, p, Empty, pc) /\ kind \in {"mkdir", "file"}
    BY <1>3 DEF CreateArrive
  <2>2. pc \in {"check", "idle"} OBVIOUS
  <2>3. Empty \in Body BY AccountsAssumption
  <2> HIDE DEF pc, id
  <2> QED BY <1>0, <2>1, <2>2, <2>3, ArriveWell
<1>4. ASSUME NEW q \in Path, DeleteArrive(r, cookie, p, q) PROVE Fine
  <2> DEFINE pc == IF id # Guest THEN "check" ELSE "idle"
  <2>1. Arrive(r, "delete", id, p, q, Empty, pc) BY <1>4 DEF DeleteArrive
  <2>2. pc \in {"check", "idle"} OBVIOUS
  <2>3. Empty \in Body BY AccountsAssumption
  <2> HIDE DEF pc, id
  <2> QED BY <1>0, <2>1, <2>2, <2>3, ArriveWell DEF Kind
<1>5. ASSUME NEW q \in Path, MoveArrive(r, cookie, p, q) PROVE Fine
  <2> DEFINE pc == IF id # Guest /\ Free(q) THEN "check" ELSE "idle"
  <2>1. Arrive(r, "move", id, p, q, Empty, pc) /\ Fits(p, q) BY <1>5 DEF MoveArrive
  <2>2. pc \in {"check", "idle"} OBVIOUS
  <2>3. Empty \in Body BY AccountsAssumption
  <2> HIDE DEF pc, id
  <2> QED BY <1>0, <2>1, <2>2, <2>3, ArriveWell DEF Kind
<1>6. ASSUME NEW b \in Body, SaveArrive(r, cookie, p, b) PROVE Fine
  <2> DEFINE pc == IF id # Guest /\ Free(p) THEN "check" ELSE "idle"
  <2>1. Arrive(r, "save", id, p, p, b, pc) BY <1>6 DEF SaveArrive
  <2>2. pc \in {"check", "idle"} OBVIOUS
  <2> HIDE DEF pc, id
  <2> QED BY <1>0, <2>1, <2>2, ArriveWell DEF Kind
<1>7. ASSUME NEW b \in Body, SaveByToken(r, p, b) PROVE Fine
  <2> DEFINE pc == IF Free(p) /\ ~Hidden(marks, Guest, p) THEN "stage" ELSE "idle"
  <2>1. Arrive(r, "save", Guest, p, p, b, pc) BY <1>7 DEF SaveByToken
  <2>2. pc \in {"stage", "idle"} OBVIOUS
  <2> HIDE DEF pc
  <2> QED BY <2>1, <2>2, ArriveWell DEF Kind
<1> QED BY <1>1, <1>2, <1>3, <1>4, <1>5, <1>6, <1>7 DEF Call

-----------------------------------------------------------------------------
(* Every step keeps the types *)

RightsTyped ==
    /\ policy \in Policy
    /\ users \subseteq User /\ Admins \subseteq users
    /\ marks \in [Path -> User \cup {Nobody}]
    /\ edit \subseteq Path

LEMMA OneMoves ==
    ASSUME TypeInv, NEW r \in Req, Requests(req'), RightsTyped',
           \A x \in Req : x # r => req'[x].pc = req[x].pc,
           IsTree(tree'), PensOK(tree', pen'),
           \A x \in Req : x # r /\ pen'[x] # Absent => pen[x] # Absent,
           pen'[r] # Absent => req'[r].pc \in {"body", "pour"}
    PROVE  TypeInv'
BY DEF TypeInv, RightsTyped

LEMMA NothingMoves ==
    ASSUME TypeInv, NEW r \in Req, Requests(req'), RightsTyped',
           \A x \in Req : x # r => req'[x].pc = req[x].pc,
           tree' = tree, pen' = pen, req[r].pc \notin {"body", "pour"}
    PROVE  TypeInv'
<1>1. IsTree(tree') /\ PensOK(tree', pen') BY DEF TypeInv
<1>2. pen'[r] = Absent BY DEF TypeInv
<1> QED BY <1>1, <1>2, OneMoves

LEMMA SameRights ==
    ASSUME TypeInv, UNCHANGED <<policy, users, marks>>, edit' \subseteq Path
    PROVE  RightsTyped'
BY DEF TypeInv, RightsTyped

LEMMA PensRemoved ==
    ASSUME NEW p, PensOK(tree, pen)
    PROVE  \A x \in Req : PensWithout(p)[x] # Absent => pen[x] # Absent
BY DEF PensWithout

LEMMA PensRenameds ==
    ASSUME NEW p, NEW q, PensOK(tree, pen)
    PROVE  \A x \in Req : PensRenamed(p, q)[x] # Absent => pen[x] # Absent
BY DEF PensRenamed

\* A handler answers or goes on and leaves the tree alone.
LEMMA QuietSteps ==
    ASSUME TypeInv, NEW r \in Req,
           \/ ReadOpen(r) \/ Check(r) \/ DeleteLook(r) \/ MoveLook(r) \/ MoveStat(r)
           \/ \E x \in Name : CopyFails(r, x)
    PROVE  TypeInv'
<1> DEFINE Fine == Requests(req') /\ \A x \in Req : x # r => req'[x].pc = req[x].pc
<1>1. req[r] \in Request /\ WellFormed(req[r]) BY DEF TypeInv, Requests, WellFormed
<1>2. /\ tree' = tree /\ pen' = pen
      /\ UNCHANGED <<policy, users, marks, edit>>
      /\ req[r].pc \notin {"body", "pour"}
  BY DEF ReadOpen, Check, DeleteLook, MoveLook, MoveStat, CopyFails, CopyNext, Keep, rights, At
<1>3. RightsTyped' BY <1>2, SameRights DEF TypeInv
<1>4. ASSUME NEW code \in Code, Answer(r, code) PROVE Fine BY <1>4, AnswerWell
<1>5. ASSUME NEW pc \in Pc, FitFor(req[r], pc), Goto(r, pc) PROVE Fine BY <1>5, GotoWell
<1>6. CASE ReadOpen(r)
  <2>1. \E code \in Code : Answer(r, code) BY <1>6 DEF ReadOpen, Code
  <2> QED BY <1>2, <1>3, <1>4, <2>1, NothingMoves
<1>7. CASE Check(r)
  <2>1. \/ Answer(r, "refused")
        \/ Goto(r, First(req[r].kind)) /\ req[r].pc = "check"
    BY <1>7 DEF Check, At
  <2>2. CASE Answer(r, "refused")
    <3>1. "refused" \in Code BY DEF Code
    <3> QED BY <1>2, <1>3, <1>4, <2>2, <3>1, NothingMoves
  <2>3. CASE Goto(r, First(req[r].kind)) /\ req[r].pc = "check"
    <3>1. req[r].kind \in Kind \ {"read"} BY <1>1, <2>3 DEF WellFormed, FitFor, Request
    <3>2. First(req[r].kind) \in Pc /\ FitFor(req[r], First(req[r].kind))
      BY <3>1 DEF First, FitFor, Kind, Pc
    <3> QED BY <1>2, <1>3, <1>5, <2>3, <3>2, NothingMoves
  <2> QED BY <2>1, <2>2, <2>3
<1>8. CASE DeleteLook(r)
  <2>1. \/ \E code \in Code : Answer(r, code)
        \/ Goto(r, "remove") /\ req[r].kind = "delete"
    BY <1>8 DEF DeleteLook, Code
  <2>2. CASE Goto(r, "remove") /\ req[r].kind = "delete"
    <3>1. "remove" \in Pc /\ FitFor(req[r], "remove") BY <2>2 DEF FitFor, Pc
    <3> QED BY <1>2, <1>3, <1>5, <2>2, <3>1, NothingMoves
  <2> QED BY <1>2, <1>3, <1>4, <2>1, <2>2, NothingMoves
<1>9. CASE MoveLook(r)
  <2>1. \/ \E code \in Code : Answer(r, code)
        \/ Goto(r, "rename") /\ req[r].kind = "move" /\ ~Under(req[r].p, req[r].q)
    BY <1>9 DEF MoveLook, Code
  <2>2. CASE Goto(r, "rename") /\ req[r].kind = "move" /\ ~Under(req[r].p, req[r].q)
    <3>1. "rename" \in Pc /\ FitFor(req[r], "rename") BY <2>2 DEF FitFor, Pc
    <3> QED BY <1>2, <1>3, <1>5, <2>2, <3>1, NothingMoves
  <2> QED BY <1>2, <1>3, <1>4, <2>1, <2>2, NothingMoves
<1>10. CASE MoveStat(r)
  <2>1. \/ \E code \in Code : Answer(r, code)
        \/ Goto(r, "relabel") /\ req[r].pc = "stat"
    BY <1>10 DEF MoveStat, Code, At
  <2>2. CASE Goto(r, "relabel") /\ req[r].pc = "stat"
    <3>1. "relabel" \in Pc /\ FitFor(req[r], "relabel")
      BY <1>1, <2>2 DEF FitFor, WellFormed, Pc
    <3> QED BY <1>2, <1>3, <1>5, <2>2, <3>1, NothingMoves
  <2> QED BY <1>2, <1>3, <1>4, <2>1, <2>2, NothingMoves
<1>11. ASSUME NEW x \in Name, CopyFails(r, x) PROVE TypeInv'
  <2>1. Goto(r, "undo") /\ req[r].pc = "copy" BY <1>11 DEF CopyFails, CopyNext, At
  <2>2. "undo" \in Pc /\ FitFor(req[r], "undo") BY <1>1, <2>1 DEF FitFor, WellFormed, Pc
  <2> QED BY <1>2, <1>3, <1>5, <2>1, <2>2, NothingMoves
<1> QED BY <1>6, <1>7, <1>8, <1>9, <1>10, <1>11

LEMMA MakeSteps ==
    ASSUME TypeInv, NEW r \in Req, MakeDir(r) \/ MakeFile(r)
    PROVE  TypeInv'
<1> DEFINE p == req[r].p
           u == Reached(tree, p)
<1>1. /\ WellFormed(req[r]) /\ req[r].pc = "make" /\ req[r] \in Request
      /\ p \in Path /\ p \in Name /\ IsTree(tree) /\ PensOK(tree, pen)
  BY PathsAreNames DEF TypeInv, Requests, WellFormed, MakeDir, MakeFile, At, Request
<1>2. pen' = pen /\ UNCHANGED <<policy, users, marks>> /\ edit' \in {edit, edit \cup {p}}
  BY DEF MakeDir, MakeFile, rights
<1>3. RightsTyped' BY <1>1, <1>2, SameRights DEF TypeInv
<1>4. \E code \in Code : Answer(r, code) BY DEF MakeDir, MakeFile, Code
<1>5. Requests(req') /\ \A x \in Req : x # r => req'[x].pc = req[x].pc
  BY <1>4, AnswerWell
<1>6. pen[r] = Absent BY <1>1 DEF TypeInv
<1>7. IsTree(tree') /\ PensOK(tree', pen')
  <2>1. CASE tree' = tree BY <1>1, <1>2, <2>1
  <2>2. CASE tree' # tree
    <3> DEFINE w == Whole(req[r].body)
    <3>0. /\ Reachable(tree, p)
          /\ \/ tree' = Put(u, p, Dir) /\ tree[p] \in {Absent, Dir}
             \/ tree' = Put(u, p, w) /\ tree[p] \in {Absent, w}
      <4>1. CASE MakeDir(r) BY <2>2, <4>1 DEF MakeDir
      <4>2. CASE MakeFile(r) BY <2>2, <4>2 DEF MakeFile
      <4> QED BY <4>1, <4>2
    <3>1. ASSUME NEW e \in {Dir, w}, tree' = Put(u, p, e), tree[p] \in {Absent, e}
          PROVE  IsTree(tree') /\ PensOK(tree', pen')
      <4>1. req[r].body \in Body BY <1>1 DEF Request
      <4>2. w \in Content BY <4>1 DEF Content, Whole
      <4>3. IsTree(u) /\ IsDir(u, Parent(p)) /\ u[p] = tree[p] BY <1>1, <3>0, ReachCloses
      <4>4. PensOK(u, pen) BY <1>1, <3>0, ReachKeepsPens
      <4>5. tree[p] # Dir \/ e = Dir BY <3>1, EntryAssumption
      <4>6. IsFile(u, p) => e \in Content
        BY <3>1, <4>2, <4>3, EntryAssumption DEF IsFile
      <4>7. e \in Entry BY <4>2 DEF Entry
      <4> HIDE DEF u, p
      <4> QED BY <1>1, <1>2, <3>1, <4>3, <4>4, <4>5, <4>6, <4>7, PutCloses, PutKeepsPens
    <3> QED BY <3>0, <3>1
  <2> QED BY <2>1, <2>2
<1> QED BY <1>2, <1>3, <1>5, <1>6, <1>7, OneMoves

LEMMA SaveStaged ==
    ASSUME TypeInv, NEW r \in Req, SaveStage(r)
    PROVE  TypeInv'
<1> DEFINE p == req[r].p
           t == Temp(p, r)
           u == Reached(tree, p)
<1>1. /\ WellFormed(req[r]) /\ req[r].pc = "stage" /\ req[r] \in Request
      /\ p \in Path /\ p \in Name /\ req[r].body \in Body /\ IsTree(tree) /\ PensOK(tree, pen)
  BY PathsAreNames DEF TypeInv, Requests, WellFormed, SaveStage, At, Request
<1>2. UNCHANGED <<policy, users, marks, edit>> BY DEF SaveStage, rights
<1>3. RightsTyped' BY <1>2, SameRights DEF TypeInv
<1>4. CASE Answer(r, "exists") /\ tree' = tree /\ pen' = pen
  <2>1. "exists" \in Code BY DEF Code
  <2>2. Requests(req') /\ \A x \in Req : x # r => req'[x].pc = req[x].pc
    BY <1>4, <2>1, AnswerWell
  <2> QED BY <1>1, <1>3, <1>4, <2>2, NothingMoves
<1>5. CASE Reachable(tree, p) /\ OpenFor(r, u, t, req[r].body) /\ Goto(r, "body")
  <2>1. "body" \in Pc /\ FitFor(req[r], "body") BY <1>1 DEF Pc, WellFormed, FitFor
  <2>2. Requests(req') /\ req'[r].pc = "body" /\ \A x \in Req : x # r => req'[x].pc = req[x].pc
    BY <1>5, <2>1, GotoWell
  <2>3. t \in Name /\ t \notin Path /\ Parent(t) = Parent(p)
    BY <1>1, Temps, NamesAreAny, PathAssumption
  <2>4. IsTree(u) /\ IsDir(u, Parent(p)) BY <1>1, <1>5, ReachCloses
  <2>5. PensOK(u, pen) BY <1>1, <1>5, ReachKeepsPens
  <2>6. u[t] # Dir BY <2>3, <2>4 DEF IsTree
  <2> DEFINE e == Part(req[r].body)
  <2>7. e \in Content /\ e \in Entry /\ e # Dir
    <3>1. e \in Content BY <1>1 DEF Part, Content
    <3> HIDE DEF e
    <3> QED BY <3>1, EntryAssumption DEF Entry
  <2>8. tree' = Put(u, t, e) /\ pen' = [pen EXCEPT ![r] = t] BY <1>5 DEF OpenFor
  <2> HIDE DEF u, t, e, p
  <2>9. IsTree(tree') /\ PensOK(tree', pen)
    BY <2>3, <2>4, <2>5, <2>6, <2>7, <2>8, PutCloses, PutKeepsPens
  <2>10. IsFile(tree', t)
    <3>1. u \in [Name -> Entry] BY <2>4 DEF IsTree
    <3>2. tree'[t] = e BY <2>3, <2>8, <3>1 DEF Put
    <3> QED BY <2>7, <3>2 DEF IsFile
  <2>11. PensOK(tree', pen') BY <2>3, <2>8, <2>9, <2>10 DEF PensOK
  <2>12. \A x \in Req : x # r => pen'[x] = pen[x] BY <2>8, <2>9 DEF PensOK
  <2> QED BY <1>3, <2>2, <2>9, <2>11, <2>12, OneMoves
<1> QED BY <1>4, <1>5 DEF SaveStage, Keep

LEMMA FillWell ==
    ASSUME TypeInv, NEW r \in Req, NEW c \in Content, Fill(r, c)
    PROVE  /\ IsTree(tree') /\ PensOK(tree', pen')
           /\ \A x \in Req : x # r => pen'[x] = pen[x]
           /\ pen'[r] = Absent
<1>1. IsTree(tree) /\ PensOK(tree, pen) BY DEF TypeInv
<1>2. pen' = [pen EXCEPT ![r] = Absent] BY DEF Fill
<1>3. /\ \A x \in Req : x # r => pen'[x] = pen[x]
      /\ pen'[r] = Absent
      /\ \A u : PensOK(u, pen) => PensOK(u, pen')
  BY <1>1, <1>2 DEF PensOK
<1>4. CASE pen[r] = Absent BY <1>1, <1>3, <1>4 DEF Fill
<1>5. CASE pen[r] # Absent
  <2>1. pen[r] \in Name /\ IsFile(tree, pen[r]) BY <1>1, <1>5 DEF PensOK
  <2>2. tree' = Put(tree, pen[r], c) BY <1>5 DEF Fill
  <2>3. tree[pen[r]] # Absent /\ tree[pen[r]] # Dir BY <2>1, FileIsEntry
  <2>4. IsDir(tree, Parent(pen[r])) BY <1>1, <2>1, <2>3 DEF IsTree
  <2>5. c \in Entry /\ c # Dir BY EntryAssumption DEF Entry
  <2>6. IsTree(tree') BY <1>1, <2>1, <2>2, <2>3, <2>4, <2>5, PutCloses
  <2>7. PensOK(tree', pen) BY <1>1, <2>1, <2>2, <2>5, PutKeepsPens
  <2> QED BY <1>3, <2>6, <2>7
<1> QED BY <1>4, <1>5

LEMMA BodySteps ==
    ASSUME TypeInv, NEW r \in Req, SaveBody(r) \/ CopyPour(r)
    PROVE  TypeInv'
<1>1. /\ WellFormed(req[r]) /\ req[r] \in Request
      /\ req[r].body \in Body /\ req[r].item \in Content
  BY DEF TypeInv, Requests, WellFormed, Request
<1>2. UNCHANGED <<policy, users, marks, edit>> BY DEF SaveBody, CopyPour, rights
<1>3. RightsTyped' BY <1>2, SameRights DEF TypeInv
<1>4. \E c \in Content : Fill(r, c)
  <2> DEFINE e == [body |-> req[r].body, whole |-> req[r].body \notin Large]
  <2>1. e \in Content BY <1>1 DEF Content
  <2> QED BY <1>1, <2>1 DEF SaveBody, CopyPour
<1>5. \E pc \in Pc : Goto(r, pc) /\ FitFor(req[r], pc)
  <2>1. CASE SaveBody(r)
    <3>1. Goto(r, "place") /\ req[r].pc = "body" BY <2>1 DEF SaveBody, At
    <3>2. "place" \in Pc /\ FitFor(req[r], "place") BY <1>1, <3>1 DEF Pc, WellFormed, FitFor
    <3> QED BY <3>1, <3>2
  <2>2. CASE CopyPour(r)
    <3>1. Goto(r, "copy") /\ req[r].pc = "pour" BY <2>2 DEF CopyPour, At
    <3>2. "copy" \in Pc /\ FitFor(req[r], "copy") BY <1>1, <3>1 DEF Pc, WellFormed, FitFor
    <3> QED BY <3>1, <3>2
  <2> QED BY <2>1, <2>2
<1>6. Requests(req') /\ \A x \in Req : x # r => req'[x].pc = req[x].pc
  BY <1>5, GotoWell
<1>7. /\ IsTree(tree') /\ PensOK(tree', pen')
      /\ \A x \in Req : x # r => pen'[x] = pen[x]
      /\ pen'[r] = Absent
  BY <1>4, FillWell
<1> QED BY <1>3, <1>6, <1>7, OneMoves

\* A directory or a file goes, and the request answers or goes on.
LEMMA RemoveWell ==
    ASSUME TypeInv, NEW r \in Req, NEW p \in Name, Remove(p), req[r].pc \notin {"body", "pour"},
           Requests(req'), \A x \in Req : x # r => req'[x].pc = req[x].pc, RightsTyped'
    PROVE  TypeInv'
<1>1. IsTree(tree) /\ PensOK(tree, pen) BY DEF TypeInv
<1>2. IsTree(tree') /\ PensOK(tree', pen') /\ \A x \in Req : pen'[x] # Absent => pen[x] # Absent
  BY <1>1, RemoveCloses, RemoveKeepsPens, PensRemoved DEF Remove
<1>3. pen[r] = Absent BY DEF TypeInv
<1> QED BY <1>2, <1>3, OneMoves

LEMMA BrokenSteps ==
    ASSUME TypeInv, NEW r \in Req, Broken(r)
    PROVE  TypeInv'
<1>1. /\ WellFormed(req[r]) /\ req[r] \in Request /\ req[r].p \in Path
      /\ IsTree(tree) /\ PensOK(tree, pen)
  BY DEF TypeInv, Requests, WellFormed, Request
<1>2. UNCHANGED <<policy, users, marks, edit>>
  BY DEF Broken, SaveBroken, CopyBroken, rights
<1>3. RightsTyped' BY <1>2, SameRights DEF TypeInv
<1>4. CASE SaveBroken(r)
  <2> DEFINE t == Temp(req[r].p, r)
  <2>1. Answer(r, "refused") /\ "refused" \in Code BY <1>4 DEF SaveBroken, Code
  <2>2. Requests(req') /\ \A x \in Req : x # r => req'[x].pc = req[x].pc
    BY <2>1, AnswerWell
  <2>3. t \in Name BY <1>1, Temps
  <2>4. tree' = Without(tree, t) /\ pen' = [PensWithout(t) EXCEPT ![r] = Absent]
    BY <1>4 DEF SaveBroken, GiveUp
  <2> HIDE DEF t
  <2>5. /\ IsTree(tree') /\ PensOK(tree', PensWithout(t))
        /\ \A x \in Req : PensWithout(t)[x] # Absent => pen[x] # Absent
    BY <1>1, <2>3, <2>4, RemoveCloses, RemoveKeepsPens, PensRemoved
  <2>6. PensOK(tree', pen') /\ pen'[r] = Absent /\ \A x \in Req : x # r => pen'[x] = PensWithout(t)[x]
    BY <2>4, <2>5 DEF PensOK
  <2> QED BY <1>3, <2>2, <2>5, <2>6, OneMoves
<1>5. CASE CopyBroken(r)
  <2>1. Goto(r, "undo") /\ req[r].pc = "pour" BY <1>5 DEF CopyBroken, At
  <2>2. "undo" \in Pc /\ FitFor(req[r], "undo") BY <1>1, <2>1 DEF FitFor, WellFormed, Pc
  <2>3. Requests(req') /\ \A x \in Req : x # r => req'[x].pc = req[x].pc
    BY <2>1, <2>2, GotoWell
  <2>4. tree' = tree /\ pen' = [pen EXCEPT ![r] = Absent] BY <1>5 DEF CopyBroken
  <2>5. PensOK(tree', pen') /\ pen'[r] = Absent /\ \A x \in Req : x # r => pen'[x] = pen[x]
    BY <1>1, <2>4 DEF PensOK
  <2> QED BY <1>1, <1>3, <2>3, <2>4, <2>5, OneMoves
<1> QED BY <1>4, <1>5 DEF Broken

LEMMA SavePlaced ==
    ASSUME TypeInv, NEW r \in Req, SavePlace(r)
    PROVE  TypeInv'
<1> DEFINE p == req[r].p
           t == Temp(p, r)
<1>1. /\ WellFormed(req[r]) /\ req[r].pc = "place" /\ req[r] \in Request
      /\ p \in Path /\ p \in Name /\ IsTree(tree) /\ PensOK(tree, pen)
  BY PathsAreNames DEF TypeInv, Requests, WellFormed, SavePlace, At, Request
<1>2. UNCHANGED <<policy, users, marks, edit>> BY DEF SavePlace, rights
<1>3. RightsTyped' BY <1>2, SameRights DEF TypeInv
<1>4. \E code \in Code : Answer(r, code) BY DEF SavePlace, Code
<1>5. Requests(req') /\ \A x \in Req : x # r => req'[x].pc = req[x].pc
  BY <1>4, AnswerWell
<1>6. t \in Name /\ t \notin Path BY <1>1, Temps, NamesAreAny, PathAssumption
<1>7. CASE Remove(t) BY <1>1, <1>3, <1>5, <1>6, <1>7, RemoveWell
<1>8. CASE Renamable(tree, t, p) /\ Rename(t, p)
  <2>1. \A x \in Name : Under(t, x) => x = t BY <1>1, TempsAreLeaves
  <2>2. ~Under(t, p) BY <1>1, <1>6, <2>1
  <2>3. tree[t] # Dir BY <1>1, <1>6 DEF IsTree
  <2>4. \A x \in Name : Under(t, x) => Rebase(x, t, p) \in Name
    <3>1. p \in Any /\ t \in Any BY <1>1, <1>6, NamesAreAny
    <3>2. Rebase(t, t, p) = p BY <3>1, UnderOrder, RebaseBack
    <3> HIDE DEF t, p
    <3> QED BY <1>1, <2>1, <3>2
  <2> HIDE DEF t, p
  <2>5. IsTree(tree') /\ PensOK(tree', pen') /\ \A x \in Req : pen'[x] # Absent => pen[x] # Absent
    BY <1>1, <1>6, <1>8, <2>2, <2>3, <2>4, RenameCloses, RenameKeepsPens, PensRenameds DEF Rename
  <2>6. pen[r] = Absent BY <1>1 DEF TypeInv
  <2> QED BY <1>3, <1>5, <2>5, <2>6, OneMoves
<1> QED BY <1>7, <1>8 DEF SavePlace

LEMMA DeleteSteps ==
    ASSUME TypeInv, NEW r \in Req, DeleteTree(r) \/ DeletePurge(r)
    PROVE  TypeInv'
<1>1. /\ WellFormed(req[r]) /\ req[r] \in Request /\ req[r].p \in Path /\ req[r].p \in Name
      /\ req[r].q \in Path /\ IsTree(tree) /\ PensOK(tree, pen) /\ Requests(req)
  BY PathsAreNames DEF TypeInv, Requests, WellFormed, Request
<1>2. CASE DeleteTree(r)
  <2>1. UNCHANGED <<policy, users, marks, edit>> BY <1>2 DEF DeleteTree, rights
  <2>2. RightsTyped' BY <2>1, SameRights DEF TypeInv
  <2>3. Goto(r, "purge") /\ req[r].pc = "remove" BY <1>2 DEF DeleteTree, At
  <2>4. "purge" \in Pc /\ FitFor(req[r], "purge") BY <1>1, <2>3 DEF FitFor, WellFormed, Pc
  <2>5. Requests(req') /\ \A x \in Req : x # r => req'[x].pc = req[x].pc
    BY <2>3, <2>4, GotoWell
  <2>6. Remove(req[r].p) BY <1>2 DEF DeleteTree
  <2> QED BY <1>1, <2>2, <2>3, <2>5, <2>6, RemoveWell
<1>3. CASE DeletePurge(r)
  <2>1. UNCHANGED <<policy, users, edit>> /\ tree' = tree /\ pen' = pen /\ req[r].pc = "purge"
    BY <1>3 DEF DeletePurge, Keep, At
  <2>2. marks' \in [Path -> User \cup {Nobody}] BY <1>3 DEF DeletePurge, TypeInv
  <2>3. RightsTyped' BY <2>1, <2>2 DEF TypeInv, RightsTyped
  <2> DEFINE lived == Lived(policy, marks')
             z == lived[r]
             y1 == [z EXCEPT !.pc = "idle", !.code = "ok"]
             y2 == [z EXCEPT !.pc = "check", !.p = req[r].q, !.some = TRUE]
  <2>4. Requests(lived) /\ \A x \in Req : lived[x].pc = req[x].pc
    BY <1>1, LivedWell DEF TypeInv
  <2>5. /\ z \in Request /\ WellFormed(z) BY <2>4 DEF Requests, WellFormed
  <2>6. req' = [lived EXCEPT ![r] = y1] \/ req' = [lived EXCEPT ![r] = y2]
    BY <1>3 DEF DeletePurge
  <2>7. z.kind = "delete" BY <2>1, <2>4, <2>5 DEF WellFormed, FitFor
  <2> HIDE DEF lived, z
  <2>8. y1 \in Request /\ y1.pc = "idle" /\ y1.kind = "delete"
    BY <2>5, <2>7 DEF Request, Pc, Code
  <2>9. y2 \in Request /\ y2.pc = "check" /\ y2.kind = "delete"
    BY <1>1, <2>5, <2>7 DEF Request, Pc, Code
  <2> HIDE DEF y1, y2
  <2>10. WellFormed(y1) /\ WellFormed(y2) BY <2>8, <2>9 DEF WellFormed, FitFor
  <2>11. Requests(req') /\ \A x \in Req : x # r => req'[x].pc = req[x].pc
    BY <2>4, <2>6, <2>10, OneSteps
  <2> QED BY <2>1, <2>3, <2>11, NothingMoves
<1> QED BY <1>2, <1>3

LEMMA MoveRenamed ==
    ASSUME TypeInv, NEW r \in Req, MoveRename(r)
    PROVE  TypeInv'
<1> DEFINE from == req[r].p
           to == req[r].q
           t == Reached(tree, to)
<1>1. /\ WellFormed(req[r]) /\ req[r] \in Request /\ from \in Path /\ to \in Path
      /\ from \in Name /\ to \in Name
      /\ IsTree(tree) /\ PensOK(tree, pen) /\ Requests(req) /\ req[r].pc = "rename"
  BY PathsAreNames DEF TypeInv, Requests, WellFormed, Request, MoveRename, At
<1>2. Fits(from, to) /\ ~Under(from, to) /\ req[r].kind = "move"
  BY <1>1 DEF WellFormed, FitFor
<1>3. UNCHANGED <<policy, users, marks, edit>> BY DEF MoveRename, rights
<1>4. RightsTyped' BY <1>3, SameRights DEF TypeInv
<1>5. "refused" \in Code BY DEF Code
<1>6. pen[r] = Absent BY <1>1 DEF TypeInv
<1>7. CASE Answer(r, "refused") /\ Keep
  <2>1. Requests(req') /\ \A x \in Req : x # r => req'[x].pc = req[x].pc
    BY <1>5, <1>7, AnswerWell
  <2> QED BY <1>1, <1>4, <1>7, <2>1, NothingMoves DEF Keep
<1>8. CASE Reachable(tree, to) /\ tree' = t /\ pen' = pen
           /\ (Answer(r, "refused")
               \/ req' = [req EXCEPT ![r].pc = "copy", ![r].todo = {from}])
  <2>1. IsTree(tree') /\ PensOK(tree', pen')
    BY <1>1, <1>8, ReachCloses, ReachKeepsPens
  <2>2. Requests(req') /\ \A x \in Req : x # r => req'[x].pc = req[x].pc
    <3>1. CASE Answer(r, "refused") BY <1>5, <3>1, AnswerWell
    <3>2. CASE req' = [req EXCEPT ![r].pc = "copy", ![r].todo = {from}]
      <4> DEFINE z == req[r]
                 y == [z EXCEPT !.pc = "copy", !.todo = {from}]
      <4>1. req' = [req EXCEPT ![r] = y] BY <3>2
      <4>2. /\ y \in Request /\ y.pc = "copy" /\ y.kind = z.kind /\ y.p = z.p /\ y.q = z.q
            /\ y.todo = {from}
        <5>1. z \in Request /\ {from} \in SUBSET Name BY <1>1
        <5> HIDE DEF z, from
        <5> QED BY <5>1 DEF Request, Pc
      <4>3. Under(from, from) BY <1>1, NamesAreAny, UnderOrder
      <4> HIDE DEF y
      <4>4. WellFormed(y) BY <1>2, <4>2, <4>3 DEF WellFormed, FitFor
      <4> QED BY <1>1, <4>1, <4>4, OneSteps
    <3> QED BY <1>8, <3>1, <3>2
  <2> QED BY <1>4, <1>6, <1>8, <2>1, <2>2, OneMoves
<1>9. CASE /\ Reachable(tree, to) /\ Renamable(t, from, to)
           /\ tree' = Renamed(t, from, to) /\ pen' = PensRenamed(from, to) /\ Goto(r, "stat")
  <2>1. "stat" \in Pc /\ FitFor(req[r], "stat") BY <1>2 DEF FitFor, Pc
  <2>2. Requests(req') /\ \A x \in Req : x # r => req'[x].pc = req[x].pc
    BY <1>9, <2>1, GotoWell
  <2>3. IsTree(t) /\ PensOK(t, pen) BY <1>1, <1>9, ReachCloses, ReachKeepsPens
  <2>4. \A x \in Name : Under(from, x) => Rebase(x, from, to) \in Name BY <1>2 DEF Fits
  <2>5. ~Under(from, to) BY <1>2
  <2> HIDE DEF t, from, to
  <2>6. IsTree(tree') BY <1>1, <1>9, <2>3, <2>5, RenameCloses
  <2>7. PensOK(tree', pen') BY <1>1, <1>9, <2>3, <2>4, RenameKeepsPens
  <2>8. \A x \in Req : pen'[x] # Absent => pen[x] # Absent
    BY <1>1, <1>9, PensRenameds
  <2> QED BY <1>4, <1>6, <2>2, <2>6, <2>7, <2>8, OneMoves
<1> QED BY <1>7, <1>8, <1>9 DEF MoveRename, Keep

LEMMA CopyDirs ==
    ASSUME TypeInv, NEW r \in Req, NEW x \in Name, CopyDir(r, x)
    PROVE  TypeInv'
<1> DEFINE from == req[r].p
           to == CopyTo(r, x)
           u == Reached(tree, to)
<1>1. /\ WellFormed(req[r]) /\ req[r] \in Request /\ from \in Path /\ req[r].q \in Path
      /\ IsTree(tree) /\ PensOK(tree, pen) /\ Requests(req) /\ req[r].pc = "copy"
      /\ x \in req[r].todo /\ req[r].todo \subseteq Name
  BY DEF TypeInv, Requests, WellFormed, Request, CopyDir, CopyNext, At
<1>2. Fits(from, req[r].q) /\ ~Under(from, req[r].q) /\ req[r].kind = "move"
      /\ (\A y \in req[r].todo : Under(from, y))
  BY <1>1 DEF WellFormed, FitFor
<1>3. UNCHANGED <<policy, users, marks, edit>> /\ pen' = pen
  BY DEF CopyDir, CopyNext, rights
<1>4. RightsTyped' BY <1>3, SameRights DEF TypeInv
<1>5. x \in Any /\ x # <<>> BY NamesAreAny
<1>6. tree[x] = Dir /\ Reachable(tree, to) /\ tree[to] \in {Absent, Dir}
  BY <1>5 DEF CopyDir, CanCopyDir, IsDir
<1>7. x \in Path /\ Under(from, x) BY <1>1, <1>2, <1>6 DEF IsTree
<1>8. to \in Name /\ to \in Path
  <2>1. to \in Name BY <1>2, <1>7 DEF Fits, CopyTo
  <2> QED BY <1>1, <1>7, <2>1, RebaseKeepsKind DEF CopyTo
<1>9. Requests(req') /\ \A y \in Req : y # r => req'[y].pc = req[y].pc
  <2> DEFINE z == req[r]
             todo == (z.todo \ {x}) \cup Children(tree, x)
             y == [z EXCEPT !.todo = todo]
  <2>1. req' = [req EXCEPT ![r] = y] BY DEF CopyDir
  <2>2. todo \in SUBSET Name BY <1>1 DEF Children
  <2>3. \A w \in todo : Under(from, w)
    <3> SUFFICES ASSUME NEW w \in Children(tree, x) PROVE Under(from, w)
      BY <1>2
    <3>1. w \in Name /\ Parent(w) = x BY DEF Children
    <3>2. w \in Any /\ w # <<>> /\ from \in Any BY <1>1, <3>1, NamesAreAny, PathsAreNames
    <3>3. Under(from, Parent(w)) BY <1>7, <3>1
    <3> HIDE DEF from
    <3> QED BY <3>2, <3>3, UnderParent
  <2>4. z \in Request BY <1>1
  <2> HIDE DEF todo, z
  <2>5. /\ y \in Request /\ y.pc = z.pc /\ y.kind = z.kind /\ y.p = z.p /\ y.q = z.q
        /\ y.todo = todo
    BY <2>2, <2>4 DEF Request
  <2> HIDE DEF y
  <2>6. WellFormed(y) BY <1>1, <1>2, <2>3, <2>5 DEF WellFormed, FitFor, z
  <2> QED BY <1>1, <2>1, <2>6, OneSteps
<1>10. tree' = Put(u, to, Dir) BY DEF CopyDir
<1>11. IsTree(u) /\ IsDir(u, Parent(to)) /\ u[to] = tree[to] BY <1>1, <1>6, <1>8, ReachCloses
<1>12. PensOK(u, pen) BY <1>1, <1>6, <1>8, ReachKeepsPens
<1>13. ~IsFile(u, to) BY <1>6, <1>11, EntryAssumption DEF IsFile
<1>14. Dir \in Entry BY DEF Entry
<1> HIDE DEF u, to
<1>15. IsTree(tree') /\ PensOK(tree', pen')
  BY <1>3, <1>8, <1>10, <1>11, <1>12, <1>13, <1>14, PutCloses, PutKeepsPens
<1>16. pen[r] = Absent BY <1>1 DEF TypeInv
<1> QED BY <1>3, <1>4, <1>9, <1>15, <1>16, OneMoves

LEMMA CopyFiles ==
    ASSUME TypeInv, NEW r \in Req, NEW x \in Name, CopyFile(r, x)
    PROVE  TypeInv'
<1> DEFINE from == req[r].p
           to == CopyTo(r, x)
           e == Part(tree[x].body)
<1>1. /\ WellFormed(req[r]) /\ req[r] \in Request /\ from \in Path /\ req[r].q \in Path
      /\ IsTree(tree) /\ PensOK(tree, pen) /\ Requests(req) /\ req[r].pc = "copy"
      /\ x \in req[r].todo
  BY DEF TypeInv, Requests, WellFormed, Request, CopyFile, CopyNext, At
<1>2. Fits(from, req[r].q) /\ ~Under(from, req[r].q) /\ req[r].kind = "move"
      /\ (\A y \in req[r].todo : Under(from, y))
  BY <1>1 DEF WellFormed, FitFor
<1>3. UNCHANGED <<policy, users, marks, edit>> BY DEF CopyFile, CopyNext, rights
<1>4. RightsTyped' BY <1>3, SameRights DEF TypeInv
<1>5. tree[x] \in Content /\ IsDir(tree, Parent(to)) /\ tree[to] # Dir
  BY DEF CopyFile, CanCopyFile, IsFile
<1>6. to \in Name BY <1>1, <1>2 DEF Fits, CopyTo
<1>7. e \in Content
  <2>1. tree[x].body \in Body BY <1>5 DEF Content
  <2> QED BY <2>1 DEF Content, Part
<1>8. Requests(req') /\ req'[r].pc = "pour" /\ \A y \in Req : y # r => req'[y].pc = req[y].pc
  <2> DEFINE z == req[r]
             todo == z.todo \ {x}
             c == tree[x]
             y == [z EXCEPT !.pc = "pour", !.item = c, !.todo = todo]
  <2>1. req' = [req EXCEPT ![r] = y] BY DEF CopyFile
  <2>2. z \in Request /\ todo \in SUBSET Name /\ c \in Content BY <1>1, <1>5 DEF Request
  <2>3. todo \subseteq req[r].todo OBVIOUS
  <2> HIDE DEF todo, z, c
  <2>4. /\ y \in Request /\ y.pc = "pour" /\ y.kind = z.kind /\ y.p = z.p /\ y.q = z.q
        /\ y.todo = todo
    BY <2>2 DEF Request, Pc
  <2> HIDE DEF y
  <2>5. WellFormed(y) BY <1>1, <1>2, <2>3, <2>4 DEF WellFormed, FitFor, z
  <2> QED BY <1>1, <2>1, <2>4, <2>5, OneSteps
<1>9. tree' = Put(tree, to, e) /\ pen' = [pen EXCEPT ![r] = to] BY DEF CopyFile, OpenFor
<1> HIDE DEF to, e
<1>10. e \in Entry /\ e # Dir BY <1>7, EntryAssumption DEF Entry
<1>11. IsTree(tree') /\ PensOK(tree', pen)
  BY <1>1, <1>5, <1>6, <1>7, <1>9, <1>10, PutCloses, PutKeepsPens
<1>12. IsFile(tree', to) BY <1>1, <1>6, <1>7, <1>9 DEF IsFile, Put, IsTree
<1>13. PensOK(tree', pen') /\ \A y \in Req : y # r => pen'[y] = pen[y]
  BY <1>6, <1>9, <1>11, <1>12 DEF PensOK
<1> QED BY <1>4, <1>8, <1>11, <1>13, OneMoves

LEMMA CopyEnds ==
    ASSUME TypeInv, NEW r \in Req, CopyUndo(r) \/ CopyDone(r)
    PROVE  TypeInv'
<1>1. /\ WellFormed(req[r]) /\ req[r] \in Request
      /\ req[r].p \in Name /\ req[r].q \in Name
  BY PathsAreNames DEF TypeInv, Requests, WellFormed, Request
<1>2. UNCHANGED <<policy, users, marks, edit>> BY DEF CopyUndo, CopyDone, rights
<1>3. RightsTyped' BY <1>2, SameRights DEF TypeInv
<1>4. CASE CopyUndo(r)
  <2>1. Answer(r, "refused") /\ "refused" \in Code /\ req[r].pc = "undo" /\ Remove(req[r].q)
    BY <1>4 DEF CopyUndo, Code, At
  <2>2. Requests(req') /\ \A x \in Req : x # r => req'[x].pc = req[x].pc
    BY <2>1, AnswerWell
  <2> QED BY <1>1, <1>3, <2>1, <2>2, RemoveWell
<1>5. CASE CopyDone(r)
  <2>1. Goto(r, "stat") /\ req[r].pc = "copy" /\ Remove(req[r].p) BY <1>5 DEF CopyDone, At
  <2>2. "stat" \in Pc /\ FitFor(req[r], "stat") BY <1>1, <2>1 DEF FitFor, WellFormed, Pc
  <2>3. Requests(req') /\ \A x \in Req : x # r => req'[x].pc = req[x].pc
    BY <2>1, <2>2, GotoWell
  <2> QED BY <1>1, <1>3, <2>1, <2>3, RemoveWell
<1> QED BY <1>4, <1>5

LEMMA MoveRelabels ==
    ASSUME TypeInv, NEW r \in Req, MoveRelabel(r)
    PROVE  TypeInv'
<1>1. UNCHANGED <<policy, users, edit>> /\ tree' = tree /\ pen' = pen /\ req[r].pc = "relabel"
  BY DEF MoveRelabel, Keep, At
<1>2. marks' \in [Path -> User \cup {Nobody}]
  <2>1. PICK done : marks' = [d \in Path |->
          IF d \in done THEN Nobody
          ELSE IF Under(req[r].q, d) /\ Rebase(d, req[r].q, req[r].p) \in done
          THEN marks[Rebase(d, req[r].q, req[r].p)] ELSE marks[d]]
               /\ done \subseteq Path
    BY DEF MoveRelabel
  <2> QED BY <2>1 DEF TypeInv
<1>3. RightsTyped' BY <1>1, <1>2 DEF TypeInv, RightsTyped
<1> DEFINE lived == Lived(policy, marks')
           z == lived[r]
           y == [z EXCEPT !.pc = "idle", !.code = "ok"]
<1>4. Requests(lived) /\ \A x \in Req : lived[x].pc = req[x].pc
  BY LivedWell DEF TypeInv
<1>5. z \in Request /\ WellFormed(z) BY <1>4 DEF Requests, WellFormed
<1>6. req' = [lived EXCEPT ![r] = y] BY DEF MoveRelabel
<1> HIDE DEF lived, z
<1>7. y \in Request /\ y.pc = "idle" /\ y.kind = z.kind /\ y.p = z.p /\ y.q = z.q
  BY <1>5 DEF Request, Pc, Code
<1> HIDE DEF y
<1>8. WellFormed(y) BY <1>5, <1>7 DEF WellFormed, FitFor
<1>9. Requests(req') /\ \A x \in Req : x # r => req'[x].pc = req[x].pc
  BY <1>4, <1>6, <1>8, OneSteps
<1> QED BY <1>1, <1>3, <1>9, NothingMoves

LEMMA AroundSteps ==
    ASSUME TypeInv, Around \/ Crash
    PROVE  TypeInv'
<1>1. CASE Around
  <2>1. tree' = tree /\ pen' = pen
    BY <1>1 DEF Around, SetPolicy, SetMark, DeleteAccount, Expire, Keep
  <2>2. RightsTyped'
    BY <1>1 DEF Around, SetPolicy, SetMark, DeleteAccount, Expire, TypeInv, RightsTyped
  <2>3. req' = req \/ req' = Lived(policy', marks')
    BY <1>1 DEF Around, SetPolicy, SetMark, DeleteAccount, Expire
  <2>4. Requests(req') /\ \A x \in Req : req'[x].pc = req[x].pc
    BY <2>2, <2>3, LivedWell DEF TypeInv, RightsTyped
  <2> QED BY <2>1, <2>2, <2>4 DEF TypeInv, RightsTyped
<1>2. CASE Crash
  <2>1. /\ tree' = tree /\ pen' = [r \in Req |-> Absent]
        /\ UNCHANGED <<policy, users, marks, edit>>
        /\ req' = [r \in Req |-> [req[r] EXCEPT !.pc = "idle", !.todo = {}]]
    BY <1>2 DEF Crash, rights
  <2>2. RightsTyped' BY <2>1, SameRights DEF TypeInv
  <2>3. PensOK(tree', pen') BY <2>1 DEF PensOK
  <2>4. ASSUME NEW r \in Req PROVE WellFormed(req'[r])
    <3> DEFINE z == req[r]
               y == [z EXCEPT !.pc = "idle", !.todo = {}]
    <3>1. WellFormed(z) BY DEF TypeInv, Requests
    <3>2. req'[r] = y BY <2>1
    <3> HIDE DEF z
    <3>3. y \in Request /\ y.pc = "idle" /\ y.kind = z.kind /\ y.p = z.p /\ y.q = z.q
      BY <3>1 DEF WellFormed, Request, Pc
    <3> HIDE DEF y
    <3>4. WellFormed(y) BY <3>1, <3>3 DEF WellFormed, FitFor
    <3> QED BY <3>2, <3>4
  <2>5. req' \in [Req -> Request]
    <3>1. \A r \in Req : req'[r] \in Request BY <2>4 DEF WellFormed
    <3>2. DOMAIN req' = Req /\ req' = [r \in Req |-> req'[r]] BY <2>1
    <3> QED BY <3>1, <3>2
  <2> QED BY <2>1, <2>2, <2>3, <2>4, <2>5 DEF TypeInv, RightsTyped, Requests
<1> QED BY <1>1, <1>2

LEMMA CallSteps ==
    ASSUME TypeInv, NEW r \in Req, NEW cookie \in User \cup {Guest}, NEW p \in Path,
           Call(r, cookie, p)
    PROVE  TypeInv'
<1>1. /\ Requests(req')
      /\ req[r].pc = "idle" /\ \A x \in Req : x # r => req'[x].pc = req[x].pc
      /\ UNCHANGED <<tree, pen, policy, users, marks, edit>>
  BY CallsWell
<1>2. RightsTyped' BY <1>1, SameRights DEF TypeInv
<1> QED BY <1>1, <1>2, NothingMoves

LEMMA TypeInit == Init => TypeInv
<1> SUFFICES ASSUME Init PROVE TypeInv
  OBVIOUS
<1>1. IsTree(tree) BY StartAssumption DEF Init
<1>2. PensOK(tree, pen) /\ \A r \in Req : pen[r] = Absent BY DEF Init, PensOK
<1>3. RightsTyped BY AccountsAssumption DEF Init, RightsTyped
<1>4. Requests(req)
  <2>1. PICK p \in Path : req = [r \in Req |->
                [pc |-> "idle", kind |-> "read", id |-> Guest, p |-> p, q |-> p,
                 body |-> Empty, some |-> FALSE, todo |-> {}, item |-> Whole(Empty), code |-> "none",
                 shown |-> {}, public |-> FALSE, shut |-> FALSE, met |-> "none"]]
    BY DEF Init
  <2> DEFINE z == [pc |-> "idle", kind |-> "read", id |-> Guest, p |-> p, q |-> p,
                 body |-> Empty, some |-> FALSE, todo |-> {}, item |-> Whole(Empty), code |-> "none",
                 shown |-> {}, public |-> FALSE, shut |-> FALSE, met |-> "none"]
  <2>2. Whole(Empty) \in Content /\ Empty \in Body BY AccountsAssumption DEF Whole, Content
  <2>3. z \in Request /\ z.pc = "idle" /\ z.kind = "read"
    BY <2>2 DEF Request, Pc, Kind, Code
  <2>4. req = [r \in Req |-> z] BY <2>1
  <2> HIDE DEF z
  <2>5. WellFormed(z) BY <2>3 DEF WellFormed, FitFor
  <2> QED BY <2>3, <2>4, <2>5 DEF Requests
<1> QED BY <1>1, <1>2, <1>3, <1>4 DEF TypeInv, RightsTyped

LEMMA TypeNext == TypeInv /\ [Next]_vars => TypeInv'
<1> SUFFICES ASSUME TypeInv, [Next]_vars PROVE TypeInv'
  OBVIOUS
<1>1. ASSUME NEW r \in Req, Continue(r) PROVE TypeInv'
  BY <1>1, QuietSteps, MakeSteps, SaveStaged, BodySteps, SavePlaced, DeleteSteps,
     MoveRenamed, MoveRelabels, CopyDirs, CopyFiles, CopyEnds DEF Continue
<1>2. ASSUME NEW r \in Req, Broken(r) PROVE TypeInv'
  BY <1>2, BrokenSteps
<1>3. ASSUME NEW r \in Req, NEW cookie \in User \cup {Guest}, NEW p \in Path, Call(r, cookie, p)
      PROVE  TypeInv'
  BY <1>3, CallSteps
<1>4. CASE Around \/ Crash BY <1>4, AroundSteps
<1>5. CASE UNCHANGED vars BY <1>5 DEF vars, TypeInv
<1> QED BY <1>1, <1>2, <1>3, <1>4, <1>5 DEF Next

LEMMA TypeInvariance == Spec => []TypeInv
  BY TypeInit, TypeNext, PTL DEF Spec

-----------------------------------------------------------------------------
(* Rights *)

TargetsOf(z) == IF z.kind = "move" THEN {z.p, z.q} ELSE {z.p}

Ground(z) ==
    /\ TargetsOf(z) \subseteq z.shown
    /\ z.id = Guest => z.public
    /\ z.id \in User \ Admins => \A p \in TargetsOf(z) : InsideScope(z.id, p)

Told(z) == TargetsOf(z) \subseteq z.shown /\ (z.id = Guest => ~z.shut)

\* The history of a request in progress includes the present.
Present(z, po, ma) ==
    /\ \A y \in {z.p, z.q} : ~Hidden(ma, z.id, y) => y \in z.shown
    /\ po = "public" => z.public
    /\ z.shut => po = "private"
    /\ ~(z.public /\ z.shut)

\* What the handler has checked by the step it is at.
Checked(z, pc) ==
    /\ pc \notin {"idle", "check", "open"} => Ground(z)
    /\ pc = "open" => Told(z)

Lawful(z, po, ma) ==
    /\ z.pc # "idle" => Present(z, po, ma) /\ z.code = "none"
    /\ Checked(z, z.pc)
    /\ z.code \in {"ok", "exists", "partial"} => Told(z)

LawInv == \A r \in Req : Lawful(req[r], policy, marks)

\* A change of the rights adds to the histories.
LEMMA LivedLawful ==
    ASSUME TypeInv, LawInv, NEW po \in Policy, NEW ma, NEW r \in Req
    PROVE  Lawful(Lived(po, ma)[r], po, ma)
<1> DEFINE z == req[r]
           y == [z EXCEPT
                   !.shown = @ \cup {p \in {z.p, z.q} : ~Hidden(ma, z.id, p)},
                   !.public = @ \/ po = "public",
                   !.shut = @ /\ po = "private"]
<1>1. z \in Request /\ Lawful(z, policy, marks) /\ WellFormed(z)
  BY DEF TypeInv, Requests, LawInv, WellFormed
<1>2. Lived(po, ma)[r] = IF z.pc = "idle" THEN z ELSE y BY DEF Lived, Idle, At
<1> HIDE DEF z
<1>3. CASE z.pc = "idle"
  BY <1>1, <1>2, <1>3 DEF Lawful, Checked
<1>4. CASE z.pc # "idle"
  <2>1. /\ y.pc = z.pc /\ y.kind = z.kind /\ y.p = z.p /\ y.q = z.q /\ y.id = z.id
        /\ y.code = z.code
        /\ y.shown = z.shown \cup {p \in {z.p, z.q} : ~Hidden(ma, z.id, p)}
        /\ y.public = (z.public \/ po = "public")
        /\ y.shut = (z.shut /\ po = "private")
    BY <1>1 DEF Request
  <2> HIDE DEF y
  <2>2. Present(z, policy, marks) /\ z.code = "none" BY <1>1, <1>4 DEF Lawful
  <2>3. Present(y, po, ma)
    <3>1. \A w \in {y.p, y.q} : ~Hidden(ma, y.id, w) => w \in y.shown BY <2>1
    <3>2. ~(y.public /\ y.shut) BY <2>1, <2>2 DEF Present
    <3> QED BY <2>1, <3>1, <3>2 DEF Present
  <2>4. TargetsOf(y) = TargetsOf(z) BY <2>1 DEF TargetsOf
  <2>5. Ground(z) => Ground(y) BY <2>1, <2>4 DEF Ground
  <2>6. Told(z) => Told(y) BY <2>1, <2>4 DEF Told
  <2> QED BY <1>1, <1>2, <1>4, <2>1, <2>2, <2>3, <2>5, <2>6 DEF Lawful, Checked
<1> QED BY <1>3, <1>4

LEMMA OneLawful ==
    ASSUME LawInv, NEW r \in Req, NEW z, req' = [req EXCEPT ![r] = z],
           TypeInv, policy' = policy, marks' = marks, Lawful(z, policy, marks)
    PROVE  LawInv'
<1>1. \A x \in Req : x # r => req'[x] = req[x] BY DEF TypeInv, Requests
<1>2. req'[r] = z BY DEF TypeInv, Requests
<1> QED BY <1>1, <1>2 DEF LawInv

\* Goes on to a step for which it has checked enough.
LEMMA GotoLawful ==
    ASSUME TypeInv, LawInv, NEW r \in Req, NEW pc, Goto(r, pc), req[r].pc # "idle",
           Checked(req[r], pc), policy' = policy, marks' = marks
    PROVE  LawInv'
<1> DEFINE z == req[r]
           y == [z EXCEPT !.pc = pc]
<1>1. z \in Request /\ Lawful(z, policy, marks) /\ z.pc # "idle" /\ Checked(z, pc)
  BY DEF TypeInv, Requests, WellFormed, LawInv
<1>2. req' = [req EXCEPT ![r] = y] BY DEF Goto
<1> HIDE DEF z
<1>3. /\ y.pc = pc /\ y.kind = z.kind /\ y.p = z.p /\ y.q = z.q /\ y.id = z.id
      /\ y.code = z.code /\ y.shown = z.shown /\ y.public = z.public /\ y.shut = z.shut
  BY <1>1 DEF Request
<1> HIDE DEF y
<1>4. Lawful(y, policy, marks)
  BY <1>1, <1>3 DEF Lawful, Checked, Present, Ground, Told, TargetsOf
<1> QED BY <1>2, <1>4, OneLawful

\* An answer that tells something is given by a handler that has checked.
LEMMA AnswerLawful ==
    ASSUME TypeInv, LawInv, NEW r \in Req, NEW code \in Code, Answer(r, code),
           req[r].pc # "idle",
           code = "refused" \/ req[r].pc # "check",
           policy' = policy, marks' = marks
    PROVE  LawInv'
<1> DEFINE z == req[r]
           y == [z EXCEPT !.pc = "idle", !.code = code, !.todo = {}]
<1>1. z \in Request /\ Lawful(z, policy, marks) /\ z.pc # "idle" /\ (code = "refused" \/ z.pc # "check")
  BY DEF TypeInv, Requests, WellFormed, LawInv
<1>2. req' = [req EXCEPT ![r] = y] BY DEF Answer
<1> HIDE DEF z
<1>3. /\ y.pc = "idle" /\ y.kind = z.kind /\ y.p = z.p /\ y.q = z.q /\ y.id = z.id
      /\ y.code = code /\ y.shown = z.shown /\ y.public = z.public /\ y.shut = z.shut
  BY <1>1 DEF Request
<1> HIDE DEF y
<1>4. z.pc # "check" => Told(z)
  <2>1. z.public => ~z.shut BY <1>1 DEF Lawful, Present
  <2> QED BY <1>1, <2>1 DEF Lawful, Checked, Ground, Told
<1>5. Told(z) => Told(y) BY <1>3 DEF Told, TargetsOf
<1>6. Lawful(y, policy, marks)
  BY <1>1, <1>3, <1>4, <1>5 DEF Lawful, Checked
<1> QED BY <1>2, <1>6, OneLawful

LEMMA ArriveLawful ==
    ASSUME TypeInv, LawInv, NEW r \in Req, NEW kind \in Kind, NEW id, NEW p, NEW q, NEW b,
           NEW pc \in {"idle", "open", "check", "stage"},
           pc = "open" => kind = "read" /\ CanRead(id, p),
           pc = "stage" => kind = "save" /\ id = Guest /\ policy = "public" /\ ~Hidden(marks, id, p),
           Arrive(r, kind, id, p, q, b, pc)
    PROVE  LawInv'
<1> DEFINE met == IF Rest THEN "none"
                  ELSE IF \E y \in Req : ~Idle(y) /\ req[y].kind = "move" THEN "move" ELSE "some"
           z == [pc |-> pc, kind |-> kind, id |-> id, p |-> p, q |-> q, body |-> b,
                 some |-> FALSE, todo |-> {}, item |-> Whole(b),
                 code |-> IF pc = "idle" THEN "refused" ELSE "none",
                 shown |-> {y \in {p, q} : ~Hidden(marks, id, y)},
                 public |-> policy = "public", shut |-> policy = "private", met |-> met]
           y(x) == [req[x] EXCEPT !.met = IF kind = "move" \/ @ = "move" THEN "move" ELSE "some"]
<1>1. req' = [x \in Req |-> IF x = r THEN z ELSE y(x)] /\ policy' = policy /\ marks' = marks
  BY DEF Arrive, rights
<1>2. /\ z.pc = pc /\ z.kind = kind /\ z.p = p /\ z.q = q /\ z.id = id
      /\ z.code = (IF pc = "idle" THEN "refused" ELSE "none")
      /\ z.shown = {w \in {p, q} : ~Hidden(marks, id, w)}
      /\ z.public = (policy = "public") /\ z.shut = (policy = "private")
  OBVIOUS
<1> HIDE DEF z, met
<1>3. Present(z, policy, marks) BY <1>2 DEF Present
<1>4. pc = "open" => Told(z) BY <1>2 DEF Told, TargetsOf, CanRead
<1>5. pc = "stage" => Ground(z)
  BY <1>2, AccountsAssumption DEF Ground, TargetsOf
<1>6. Lawful(z, policy, marks)
  BY <1>2, <1>3, <1>4, <1>5 DEF Lawful, Checked
<1>7. ASSUME NEW x \in Req PROVE Lawful(y(x), policy, marks)
  <2> DEFINE w == req[x]
             v == [w EXCEPT !.met = IF kind = "move" \/ @ = "move" THEN "move" ELSE "some"]
  <2>1. w \in Request /\ Lawful(w, policy, marks)
    BY DEF TypeInv, Requests, WellFormed, LawInv
  <2> HIDE DEF w
  <2>2. /\ v.pc = w.pc /\ v.kind = w.kind /\ v.p = w.p /\ v.q = w.q /\ v.id = w.id
        /\ v.code = w.code /\ v.shown = w.shown /\ v.public = w.public /\ v.shut = w.shut
    BY <2>1 DEF Request
  <2> HIDE DEF v
  <2>3. Lawful(v, policy, marks)
    BY <2>1, <2>2 DEF Lawful, Checked, Present, Ground, Told, TargetsOf
  <2> QED BY <2>3 DEF v, w
<1> HIDE DEF y
<1> QED BY <1>1, <1>6, <1>7 DEF LawInv

LEMMA CallsLawful ==
    ASSUME TypeInv, LawInv, NEW r \in Req, NEW cookie \in User \cup {Guest}, NEW p \in Path,
           Call(r, cookie, p)
    PROVE  LawInv'
<1> DEFINE id == Identity(cookie)
<1>1. CASE ReadArrive(r, cookie, p)
  <2> DEFINE pc == IF CanRead(id, p) THEN "open" ELSE "idle"
  <2>1. Arrive(r, "read", id, p, p, Empty, pc) BY <1>1 DEF ReadArrive
  <2>2. pc \in {"open", "idle"} /\ (pc = "open" => CanRead(id, p)) OBVIOUS
  <2> HIDE DEF pc, id
  <2> QED BY <2>1, <2>2, ArriveLawful DEF Kind
<1>2. ASSUME NEW kind \in Kind, CreateArrive(r, cookie, kind, p) PROVE LawInv'
  <2> DEFINE pc == IF (id # Guest \/ policy = "public") /\ Free(p) THEN "check" ELSE "idle"
  <2>1. Arrive(r, kind, id, p, p, Empty, pc) BY <1>2 DEF CreateArrive
  <2>2. pc \in {"check", "idle"} OBVIOUS
  <2> HIDE DEF pc, id
  <2> QED BY <2>1, <2>2, ArriveLawful
<1>3. ASSUME NEW q \in Path, DeleteArrive(r, cookie, p, q) PROVE LawInv'
  <2> DEFINE pc == IF id # Guest THEN "check" ELSE "idle"
  <2>1. Arrive(r, "delete", id, p, q, Empty, pc) BY <1>3 DEF DeleteArrive
  <2>2. pc \in {"check", "idle"} OBVIOUS
  <2> HIDE DEF pc, id
  <2> QED BY <2>1, <2>2, ArriveLawful DEF Kind
<1>4. ASSUME NEW q \in Path, MoveArrive(r, cookie, p, q) PROVE LawInv'
  <2> DEFINE pc == IF id # Guest /\ Free(q) THEN "check" ELSE "idle"
  <2>1. Arrive(r, "move", id, p, q, Empty, pc) BY <1>4 DEF MoveArrive
  <2>2. pc \in {"check", "idle"} OBVIOUS
  <2> HIDE DEF pc, id
  <2> QED BY <2>1, <2>2, ArriveLawful DEF Kind
<1>5. ASSUME NEW b \in Body, SaveArrive(r, cookie, p, b) PROVE LawInv'
  <2> DEFINE pc == IF id # Guest /\ Free(p) THEN "check" ELSE "idle"
  <2>1. Arrive(r, "save", id, p, p, b, pc) BY <1>5 DEF SaveArrive
  <2>2. pc \in {"check", "idle"} OBVIOUS
  <2> HIDE DEF pc, id
  <2> QED BY <2>1, <2>2, ArriveLawful DEF Kind
<1>6. ASSUME NEW b \in Body, SaveByToken(r, p, b) PROVE LawInv'
  <2> DEFINE pc == IF Free(p) /\ ~Hidden(marks, Guest, p) THEN "stage" ELSE "idle"
  <2>1. Arrive(r, "save", Guest, p, p, b, pc) /\ policy = "public" BY <1>6 DEF SaveByToken
  <2>2. pc \in {"stage", "idle"} /\ (pc = "stage" => ~Hidden(marks, Guest, p)) OBVIOUS
  <2> HIDE DEF pc
  <2> QED BY <2>1, <2>2, ArriveLawful DEF Kind
<1> QED BY <1>1, <1>2, <1>3, <1>4, <1>5, <1>6 DEF Call

\* The check of the permissions: admin.go:149 and permission.go.
LEMMA CheckGrounds ==
    ASSUME TypeInv, LawInv, NEW r \in Req, req[r].pc = "check",
           \A p \in Targets(r) : CanWrite(req[r].id, p)
    PROVE  Ground(req[r])
<1> DEFINE z == req[r]
<1>1. z \in Request /\ Present(z, policy, marks)
  BY DEF TypeInv, Requests, WellFormed, LawInv, Lawful
<1>2. Targets(r) = TargetsOf(z) BY DEF Targets, TargetsOf
<1>3. \A p \in TargetsOf(z) : CanWrite(z.id, p) BY <1>2
<1> HIDE DEF z
<1>4. z.id \in User \cup {Guest} /\ TargetsOf(z) \subseteq {z.p, z.q} /\ TargetsOf(z) # {}
  BY <1>1 DEF Request, TargetsOf
<1>5. \A p \in TargetsOf(z) : ~Hidden(marks, z.id, p)
  BY <1>3, <1>4 DEF CanWrite, CanWriteAnonymous, EngineAllows, Hidden
<1>6. TargetsOf(z) \subseteq z.shown BY <1>1, <1>4, <1>5 DEF Present
<1>7. z.id = Guest => z.public
  BY <1>1, <1>3, <1>4 DEF CanWrite, CanWriteAnonymous, Present
<1>8. z.id \in User \ Admins => \A p \in TargetsOf(z) : InsideScope(z.id, p)
  BY <1>3, AccountsAssumption DEF CanWrite, EngineAllows
<1> QED BY <1>6, <1>7, <1>8 DEF Ground, z

LEMMA StepsLawful ==
    ASSUME TypeInv, LawInv, NEW r \in Req, Continue(r) \/ Broken(r)
    PROVE  LawInv'
<1> DEFINE z == req[r]
<1>1. z \in Request /\ WellFormed(z) /\ Lawful(z, policy, marks)
  BY DEF TypeInv, Requests, WellFormed, LawInv
<1>2. \A pc \in Pc : z.pc \notin {"idle", "check", "open"} /\ pc # "open" => Checked(z, pc)
  BY <1>1 DEF Lawful, Checked
<1>3. ASSUME NEW pc \in Pc, Goto(r, pc), z.pc \notin {"idle", "check", "open"}, pc # "open",
             policy' = policy, marks' = marks
      PROVE  LawInv'
  <2>1. Checked(z, pc) BY <1>2, <1>3
  <2> QED BY <1>3, <2>1, GotoLawful
<1>4. ASSUME NEW code \in Code, Answer(r, code), z.pc \notin {"idle", "check"},
             policy' = policy, marks' = marks
      PROVE  LawInv'
  BY <1>4, AnswerLawful
<1> USE DEF At, rights
<1>5. CASE ReadOpen(r)
  <2>1. \E code \in Code : Answer(r, code) BY <1>5 DEF ReadOpen, Code
  <2> QED BY <1>4, <1>5, <2>1 DEF ReadOpen
<1>6. CASE Check(r)
  <2>1. z.pc = "check" /\ policy' = policy /\ marks' = marks BY <1>6 DEF Check
  <2>2. CASE Answer(r, "refused")
    <3>1. "refused" \in Code BY DEF Code
    <3> QED BY <2>1, <2>2, <3>1, AnswerLawful
  <2>3. CASE Goto(r, First(z.kind)) /\ \A p \in Targets(r) : CanWrite(z.id, p)
    <3>1. Ground(z) BY <2>1, <2>3, CheckGrounds
    <3>2. First(z.kind) # "open"
      <4>1. z.kind \in Kind \ {"read"} BY <1>1, <2>1 DEF WellFormed, FitFor, Request
      <4> QED BY <4>1 DEF First, Kind
    <3>3. Checked(z, First(z.kind)) BY <3>1, <3>2 DEF Checked
    <3> QED BY <2>1, <2>3, <3>3, GotoLawful
  <2> QED BY <1>6, <2>2, <2>3 DEF Check
<1>7. CASE MakeDir(r) \/ MakeFile(r)
  <2>1. \E code \in Code : Answer(r, code) BY <1>7 DEF MakeDir, MakeFile, Code
  <2> QED BY <1>4, <1>7, <2>1 DEF MakeDir, MakeFile
<1>8. CASE SaveStage(r) \/ SaveBody(r) \/ SavePlace(r)
  <2>1. (\E code \in Code : Answer(r, code)) \/ (\E pc \in Pc : Goto(r, pc) /\ pc # "open")
    BY <1>8 DEF SaveStage, SaveBody, SavePlace, Code, Pc
  <2>2. z.pc \notin {"idle", "check", "open"} /\ policy' = policy /\ marks' = marks
    BY <1>8 DEF SaveStage, SaveBody, SavePlace
  <2> QED BY <1>3, <1>4, <2>1, <2>2
<1>9. CASE DeleteLook(r) \/ DeleteTree(r) \/ MoveLook(r) \/ MoveStat(r)
  <2>1. (\E code \in Code : Answer(r, code)) \/ (\E pc \in Pc : Goto(r, pc) /\ pc # "open")
    BY <1>9 DEF DeleteLook, DeleteTree, MoveLook, MoveStat, Code, Pc
  <2>2. z.pc \notin {"idle", "check", "open"} /\ policy' = policy /\ marks' = marks
    BY <1>9 DEF DeleteLook, DeleteTree, MoveLook, MoveStat
  <2> QED BY <1>3, <1>4, <2>1, <2>2
<1>10. CASE CopyPour(r) \/ CopyUndo(r) \/ CopyDone(r) \/ Broken(r)
  <2>1. (\E code \in Code : Answer(r, code)) \/ (\E pc \in Pc : Goto(r, pc) /\ pc # "open")
    BY <1>10 DEF CopyPour, CopyUndo, CopyDone, Broken, SaveBroken, CopyBroken, Code, Pc
  <2>2. z.pc \notin {"idle", "check", "open"} /\ policy' = policy /\ marks' = marks
    BY <1>10 DEF CopyPour, CopyUndo, CopyDone, Broken, SaveBroken, CopyBroken
  <2> QED BY <1>3, <1>4, <2>1, <2>2
<1>11. ASSUME NEW x \in Name, CopyFails(r, x) PROVE LawInv'
  <2>1. Goto(r, "undo") /\ "undo" \in Pc BY <1>11 DEF CopyFails, Pc
  <2> QED BY <1>3, <1>11, <2>1 DEF CopyFails, CopyNext
\* A step of the copy changes what is left to do, and what it holds.
<1>12. ASSUME NEW y, req' = [req EXCEPT ![r] = y], z.pc \notin {"idle", "check", "open"},
              y.pc \in {"copy", "pour"},
              y.kind = z.kind, y.p = z.p, y.q = z.q, y.id = z.id, y.code = z.code,
              y.shown = z.shown, y.public = z.public, y.shut = z.shut,
              policy' = policy, marks' = marks
       PROVE  LawInv'
  <2>1. Lawful(y, policy, marks)
    BY <1>1, <1>12 DEF Lawful, Checked, Present, Ground, Told, TargetsOf
  <2> QED BY <1>12, <2>1, OneLawful
<1>13. ASSUME NEW x \in Name, CopyDir(r, x) PROVE LawInv'
  <2> DEFINE todo == (z.todo \ {x}) \cup Children(tree, x)
             y == [z EXCEPT !.todo = todo]
  <2>1. req' = [req EXCEPT ![r] = y] /\ z.pc = "copy" /\ policy' = policy /\ marks' = marks
    BY <1>13 DEF CopyDir, CopyNext
  <2>2. /\ y.pc = "copy" /\ y.kind = z.kind /\ y.p = z.p /\ y.q = z.q /\ y.id = z.id
        /\ y.code = z.code /\ y.shown = z.shown /\ y.public = z.public /\ y.shut = z.shut
    <3>1. z \in Request /\ z.pc = "copy" BY <1>1, <2>1
    <3> HIDE DEF z, todo
    <3> QED BY <3>1 DEF Request
  <2> HIDE DEF y, z
  <2> QED BY <1>12, <2>1, <2>2
<1>14. ASSUME NEW x \in Name, CopyFile(r, x) PROVE LawInv'
  <2> DEFINE todo == z.todo \ {x}
             c == tree[x]
             y == [z EXCEPT !.pc = "pour", !.item = c, !.todo = todo]
  <2>1. req' = [req EXCEPT ![r] = y] /\ z.pc = "copy" /\ policy' = policy /\ marks' = marks
    BY <1>14 DEF CopyFile, CopyNext
  <2>2. /\ y.pc = "pour" /\ y.kind = z.kind /\ y.p = z.p /\ y.q = z.q /\ y.id = z.id
        /\ y.code = z.code /\ y.shown = z.shown /\ y.public = z.public /\ y.shut = z.shut
    <3>1. z \in Request BY <1>1
    <3> HIDE DEF z, todo, c
    <3> QED BY <3>1 DEF Request
  <2> HIDE DEF y, z
  <2> QED BY <1>12, <2>1, <2>2
<1>15. CASE MoveRename(r)
  <2>1. z.pc = "rename" /\ policy' = policy /\ marks' = marks BY <1>15 DEF MoveRename
  <2>2. \/ \E code \in Code : Answer(r, code)
        \/ Goto(r, "stat") /\ "stat" \in Pc
        \/ req' = [req EXCEPT ![r].pc = "copy", ![r].todo = {z.p}]
    BY <1>15 DEF MoveRename, Code, Pc
  <2>3. CASE req' = [req EXCEPT ![r].pc = "copy", ![r].todo = {z.p}]
    <3> DEFINE todo == {z.p}
               y == [z EXCEPT !.pc = "copy", !.todo = todo]
    <3>1. req' = [req EXCEPT ![r] = y] BY <2>3
    <3>2. /\ y.pc = "copy" /\ y.kind = z.kind /\ y.p = z.p /\ y.q = z.q /\ y.id = z.id
          /\ y.code = z.code /\ y.shown = z.shown /\ y.public = z.public /\ y.shut = z.shut
      <4>1. z \in Request BY <1>1
      <4> HIDE DEF z, todo
      <4> QED BY <4>1 DEF Request
    <3> HIDE DEF y, z
    <3> QED BY <1>12, <2>1, <3>1, <3>2
  <2> QED BY <1>3, <1>4, <2>1, <2>2, <2>3
\* The end of a path's deletion, and of a move: the marks change as well.
<1>16. CASE DeletePurge(r) \/ MoveRelabel(r)
  <2> DEFINE lived == Lived(policy, marks')
             w == lived[r]
             y1 == [w EXCEPT !.pc = "idle", !.code = "ok"]
             y2 == [w EXCEPT !.pc = "check", !.p = z.q, !.some = TRUE]
  <2>1. Requests(lived) /\ \A x \in Req : lived[x].pc = req[x].pc
    BY LivedWell DEF TypeInv
  <2>2. \A x \in Req : Lawful(lived[x], policy, marks') BY LivedLawful DEF TypeInv
  <2>3. /\ policy' = policy
        /\ \/ req' = [lived EXCEPT ![r] = y1]
           \/ req' = [lived EXCEPT ![r] = y2] /\ z.pc = "purge"
        /\ z.pc \in {"purge", "relabel"}
    BY <1>16 DEF DeletePurge, MoveRelabel
  <2>4. w \in Request /\ Lawful(w, policy, marks') /\ w.pc = z.pc /\ WellFormed(w) /\ w.q = z.q
    <3>1. w.q = z.q
      <4>1. z \in Request BY <1>1
      <4> QED BY <4>1 DEF Lived, Request
    <3> QED BY <2>1, <2>2, <3>1 DEF Requests, WellFormed
  <2> HIDE DEF lived, w, z
  <2>5. /\ y1.pc = "idle" /\ y1.kind = w.kind /\ y1.p = w.p /\ y1.q = w.q /\ y1.id = w.id
        /\ y1.code = "ok" /\ y1.shown = w.shown /\ y1.public = w.public /\ y1.shut = w.shut
    BY <2>4 DEF Request
  <2>6. /\ y2.pc = "check" /\ y2.kind = w.kind /\ y2.p = w.q /\ y2.q = w.q /\ y2.id = w.id
        /\ y2.code = w.code /\ y2.shown = w.shown /\ y2.public = w.public /\ y2.shut = w.shut
    BY <2>4 DEF Request
  <2> HIDE DEF y1, y2
  <2>7. Ground(w) /\ Present(w, policy, marks') /\ w.code = "none"
    BY <2>3, <2>4 DEF Lawful, Checked
  <2>8. Lawful(y1, policy, marks')
    <3>1. Told(w) BY <2>7 DEF Ground, Told, Present
    <3>2. Told(y1) BY <2>5, <3>1 DEF Told, TargetsOf
    <3> QED BY <2>5, <3>2 DEF Lawful, Checked
  <2>9. Lawful(y2, policy, marks')
    <3>1. Present(y2, policy, marks') BY <2>6, <2>7 DEF Present
    <3> QED BY <2>6, <2>7, <3>1 DEF Lawful, Checked
  <2>10. ASSUME NEW x \in Req PROVE Lawful(req'[x], policy, marks')
    BY <2>1, <2>2, <2>3, <2>8, <2>9 DEF Requests
  <2> QED BY <2>3, <2>10 DEF LawInv
<1> QED BY <1>5, <1>6, <1>7, <1>8, <1>9, <1>10, <1>11, <1>13, <1>14, <1>15, <1>16 DEF Continue

LEMMA AroundLawful ==
    ASSUME TypeInv, LawInv, Around \/ Crash, policy' \in Policy
    PROVE  LawInv'
<1>1. CASE Around
  <2>1. \/ req' = req /\ policy' = policy /\ marks' = marks
        \/ req' = Lived(policy', marks')
    BY <1>1 DEF Around, SetPolicy, SetMark, DeleteAccount, Expire
  <2> QED BY <2>1, LivedLawful DEF LawInv
<1>2. CASE Crash
  <2>1. /\ policy' = policy /\ marks' = marks
        /\ req' = [r \in Req |-> [req[r] EXCEPT !.pc = "idle", !.todo = {}]]
    BY <1>2 DEF Crash, rights
  <2>2. ASSUME NEW r \in Req PROVE Lawful(req'[r], policy, marks)
    <3> DEFINE z == req[r]
               y == [z EXCEPT !.pc = "idle", !.todo = {}]
    <3>1. z \in Request /\ Lawful(z, policy, marks)
      BY DEF TypeInv, Requests, WellFormed, LawInv
    <3>2. req'[r] = y BY <2>1
    <3> HIDE DEF z
    <3>3. /\ y.pc = "idle" /\ y.kind = z.kind /\ y.p = z.p /\ y.q = z.q /\ y.id = z.id
          /\ y.code = z.code /\ y.shown = z.shown /\ y.public = z.public /\ y.shut = z.shut
      BY <3>1 DEF Request
    <3> HIDE DEF y
    <3>4. Lawful(y, policy, marks)
      BY <3>1, <3>3 DEF Lawful, Checked, Told, TargetsOf
    <3> QED BY <3>2, <3>4
  <2> QED BY <2>1, <2>2 DEF LawInv
<1> QED BY <1>1, <1>2

LEMMA LawInit == Init => LawInv
<1> SUFFICES ASSUME Init PROVE LawInv
  OBVIOUS
<1>1. \A r \in Req : req[r].pc = "idle" /\ req[r].code = "none"
  BY DEF Init
<1> QED BY <1>1 DEF LawInv, Lawful, Checked

LEMMA LawNext == TypeInv /\ TypeInv' /\ LawInv /\ [Next]_vars => LawInv'
<1> SUFFICES ASSUME TypeInv, TypeInv', LawInv, [Next]_vars PROVE LawInv'
  OBVIOUS
<1>1. CASE Around \/ Crash BY <1>1, AroundLawful DEF TypeInv
<1>2. CASE UNCHANGED vars BY <1>2 DEF vars, LawInv
<1> QED BY <1>1, <1>2, StepsLawful, CallsLawful DEF Next

LEMMA LawInvariance == Spec => [](TypeInv /\ LawInv)
<1>1. Init => TypeInv /\ LawInv BY TypeInit, LawInit
<1>2. (TypeInv /\ LawInv) /\ [Next]_vars => (TypeInv /\ LawInv)' BY TypeNext, LawNext
<1> QED BY <1>1, <1>2, PTL DEF Spec

-----------------------------------------------------------------------------
(* Incomplete files *)

\* What a save puts in its temporary file: its body, cut at the limit.
Written(z) == [body |-> z.body, whole |-> z.body \notin Large]

\* A save finds no leftover of its own when it begins; unless a move interferes, what
\* it is writing is its temporary file, and nothing else has been put in its place.
Saved(z, r, t, h) ==
    /\ z.pc \in {"check", "stage"} => \A d \in TempsOf(r) : t[d] = Absent
    /\ z.pc = "body" => t[Temp(z.p, r)] = Absent \/ h = Temp(z.p, r)
    /\ z.pc = "place" => t[Temp(z.p, r)] \in {Absent, Written(z)}

\* Of a request, the tree and the file it has open: nothing but a move takes a file that
\* is being written out of the directory its request works in.
Clean(z, r, t, h) ==
    /\ z.pc = "body" /\ h # Absent => h \in TempsOf(r)
    /\ z.met # "move" =>
        /\ z.kind = "save" => Saved(z, r, t, h)
        /\ z.pc = "pour" /\ h # Absent => Under(z.q, h)

\* Whoever has met no move has none beside it.
Alone(rq) ==
    \A r, y \in Req :
        rq[r].pc # "idle" /\ rq[r].met # "move" /\ y # r /\ rq[y].pc # "idle" =>
            rq[y].kind # "move"

PartInv == Alone(req) /\ \A r \in Req : Clean(req[r], r, tree, pen[r])

\* What a step of another request does to what r has: it may remove it, rename it to
\* another temporary file, or, in the place of a save, to the file that save is of.
Spares(r) ==
    /\ req[r].kind = "save" => pen'[r] \in {pen[r], Absent} \cup TempsOf(r)
    /\ req[r].met # "move" =>
        /\ \A d \in TempsOf(r) :
            \/ tree'[d] = Absent
            \/ tree'[d] = tree[d] /\ (pen[r] = d => pen'[r] = d)
        /\ pen'[r] # Absent =>
            pen[r] # Absent /\ \A q \in Path : Under(q, pen[r]) => Under(q, pen'[r])

\* The parts of a request that no step changes but its arrival.
Same(z, y) ==
    y.kind = z.kind /\ y.q = z.q /\ y.body = z.body /\ y.met = z.met

LEMMA SparedStaysClean ==
    ASSUME TypeInv, NEW r \in Req, Clean(req[r], r, tree, pen[r]), NEW y,
           y.pc \in {req[r].pc, "idle"}, y.kind = req[r].kind, y.p = req[r].p, y.q = req[r].q,
           y.body = req[r].body, y.met \in {req[r].met, "move"},
           req[r].pc # "idle" => Spares(r)
    PROVE  Clean(y, r, tree', pen'[r])
<1> DEFINE z == req[r]
           T == Temp(z.p, r)
<1>1. z \in Request /\ FitFor(z, z.pc) /\ z.p \in Path /\ z.q \in Path
  BY DEF TypeInv, Requests, WellFormed, Request
<1>2. T \in TempsOf(r) /\ T # Absent
  BY <1>1, Temps, EntryAssumption DEF TempsOf
<1>3. pen[r] # Absent => z.pc \in {"body", "pour"} BY DEF TypeInv
<1>4. CASE y.pc = "idle" BY <1>4 DEF Clean, Saved
<1>5. CASE y.pc # "idle"
  <2>1. y.pc = z.pc /\ Spares(r) BY <1>5
  <2>2. y.pc = "body" /\ pen'[r] # Absent => pen'[r] \in TempsOf(r)
    BY <1>1, <2>1 DEF Spares, Clean, FitFor
  <2>3. ASSUME y.met # "move", y.kind = "save" PROVE Saved(y, r, tree', pen'[r])
    <3>1. z.met # "move" /\ Saved(z, r, tree, pen[r]) BY <2>3 DEF Clean
    <3>2. \A d \in TempsOf(r) : \/ tree'[d] = Absent
                                \/ tree'[d] = tree[d] /\ (pen[r] = d => pen'[r] = d)
      BY <2>1, <3>1 DEF Spares
    <3>3. y.pc \in {"check", "stage"} => \A d \in TempsOf(r) : tree'[d] = Absent
      BY <2>1, <3>1, <3>2 DEF Saved
    <3>4. y.pc = "body" => tree'[T] = Absent \/ pen'[r] = T
      BY <1>2, <2>1, <3>1, <3>2 DEF Saved
    <3>5. y.pc = "place" => tree'[T] \in {Absent, Written(y)}
      BY <1>2, <2>1, <3>1, <3>2 DEF Saved, Written
    <3> QED BY <3>3, <3>4, <3>5 DEF Saved
  <2>4. ASSUME y.met # "move", y.pc = "pour", pen'[r] # Absent PROVE Under(y.q, pen'[r])
    <3>1. z.met # "move" /\ z.pc = "pour" BY <2>1, <2>4
    <3>2. z.kind = "move" BY <1>1, <3>1 DEF FitFor
    <3>3. pen[r] # Absent => Under(z.q, pen[r]) BY <3>1 DEF Clean
    <3> QED BY <1>1, <2>1, <2>4, <3>1, <3>3 DEF Spares
  <2> QED BY <2>2, <2>3, <2>4 DEF Clean
<1> QED BY <1>4, <1>5

\* No temporary file of one request has the name of another's, or a path.
LEMMA TempsDiffer ==
    ASSUME NEW r \in Req, NEW d \in TempsOf(r)
    PROVE  /\ d \in Name /\ d \notin Path /\ d # Absent
           /\ \A y \in Req : d \in TempsOf(y) => y = r
<1>1. PICK p \in Path : d = Temp(p, r) BY DEF TempsOf
<1>2. d \in Name /\ LastOf(d) = r BY <1>1, Temps
<1>3. \A y \in Req : d \in TempsOf(y) => LastOf(d) = y
  BY Temps DEF TempsOf
<1> QED BY <1>2, <1>3, NamesAreAny, PathAssumption

LEMMA UntouchedIsSpared ==
    ASSUME NEW r \in Req, \A d \in TempsOf(r) : tree'[d] = tree[d], pen'[r] = pen[r]
    PROVE  Spares(r)
BY DEF Spares

LEMMA RemovalSpares ==
    ASSUME NEW r \in Req, NEW p, tree' = Without(tree, p), pen'[r] = PensWithout(p)[r]
    PROVE  Spares(r)
<1>1. pen'[r] \in {pen[r], Absent} BY DEF PensWithout
<1>2. ASSUME NEW d \in TempsOf(r)
      PROVE  \/ tree'[d] = Absent
             \/ tree'[d] = tree[d] /\ (pen[r] = d => pen'[r] = d)
  BY TempsDiffer DEF Without, PensWithout
<1> QED BY <1>1, <1>2 DEF Spares

\* A save that is put in place takes nothing of another request's away but what was at
\* its path.
LEMMA PlacingSpares ==
    ASSUME PensOK(tree, pen), NEW y \in Req, NEW p \in Path, NEW r \in Req, r # y,
           req[r].kind = "save" /\ pen[r] # Absent => pen[r] \in TempsOf(r),
           Rename(Temp(p, y), p)
    PROVE  Spares(r)
<1> DEFINE T == Temp(p, y)
<1>1. /\ tree' = Renamed(tree, T, p) /\ pen' = PensRenamed(T, p)
      /\ T \in Name /\ T \in Any /\ T # <<>> /\ Parent(T) = Parent(p)
      /\ T \in TempsOf(y) /\ p \in Any /\ p # <<>>
  BY Temps, PathsAreAny, PathAssumption DEF Rename, TempsOf
<1>2. \A x \in Name : Under(T, x) => x = T BY TempsAreLeaves
<1> HIDE DEF T
<1>3. ASSUME NEW x \in Name, Under(p, x), Rebase(x, p, T) \in Name PROVE x = p
  <2>1. x \in Any BY NamesAreAny
  <2>2. Under(T, Rebase(x, p, T)) BY <1>1, <1>3, <2>1, RebaseBack
  <2>3. Rebase(x, p, T) = T BY <1>2, <1>3, <2>2
  <2> QED BY <1>1, <1>3, <2>1, <2>3, RebaseBack
<1>4. ASSUME NEW d \in TempsOf(r)
      PROVE  \/ tree'[d] = Absent
             \/ tree'[d] = tree[d] /\ (pen[r] = d => pen'[r] = d)
  <2>1. d \in Name /\ d \notin Path /\ d # Absent /\ d # T BY <1>1, TempsDiffer
  <2>2. CASE Under(p, d) BY <1>1, <1>3, <2>1, <2>2 DEF Renamed
  <2>3. CASE ~Under(p, d)
    <3>1. ~Under(T, d) BY <1>2, <2>1
    <3> QED BY <1>1, <2>1, <2>3, <3>1 DEF Renamed, PensRenamed
  <2> QED BY <2>2, <2>3
<1>5. pen[r] = Absent => pen'[r] = Absent BY <1>1 DEF PensRenamed
<1>6. ASSUME pen[r] # Absent, pen'[r] # Absent, pen[r] # T PROVE pen'[r] = pen[r]
  <2>1. pen[r] \in Name BY <1>6 DEF PensOK
  <2>2. ~Under(T, pen[r]) BY <1>2, <1>6, <2>1
  <2> QED BY <1>1, <1>6, <2>2 DEF PensRenamed
<1>7. ASSUME pen[r] = T, pen'[r] # Absent
      PROVE  pen'[r] = p
  <2>1. Under(T, T) BY <1>1, UnderOrder
  <2>2. Rebase(T, T, p) = p BY <1>1, <2>1, RebaseBack
  <2> QED BY <1>1, <1>7, <2>1, <2>2 DEF PensRenamed
<1>8. ASSUME NEW q \in Path, Under(q, T) PROVE Under(q, p)
  <2>1. q \in Any /\ q # T BY <1>1, PathsAreAny, TempsDiffer
  <2> QED BY <1>1, <1>8, <2>1, UnderParent
<1>9. req[r].kind = "save" => pen'[r] \in {pen[r], Absent} \cup TempsOf(r)
  BY <1>1, <1>5, <1>6, TempsDiffer
<1>10. pen'[r] # Absent =>
         pen[r] # Absent /\ \A q \in Path : Under(q, pen[r]) => Under(q, pen'[r])
  BY <1>5, <1>6, <1>7, <1>8
<1> QED BY <1>4, <1>9, <1>10 DEF Spares

\* A directory that is moved takes the temporary files in it along.
LEMMA MovingSpares ==
    ASSUME PensOK(tree, pen), NEW r \in Req, req[r].met = "move",
           NEW from \in Path, NEW to \in Path, Fits(from, to),
           req[r].kind = "save" /\ pen[r] # Absent => pen[r] \in TempsOf(r),
           pen'[r] = PensRenamed(from, to)[r]
    PROVE  Spares(r)
<1> SUFFICES ASSUME req[r].kind = "save"
             PROVE  pen'[r] \in {pen[r], Absent} \cup TempsOf(r)
  BY DEF Spares
<1>1. CASE pen[r] # Absent /\ Under(from, pen[r])
  <2>1. pen[r] \in Name /\ pen[r] \in TempsOf(r) BY <1>1 DEF PensOK
  <2>2. Rebase(pen[r], from, to) \in Name BY <1>1, <2>1 DEF Fits
  <2>3. Rebase(pen[r], from, to) \in TempsOf(r) BY <1>1, <2>1, <2>2, RebaseKeepsKind
  <2> QED BY <2>3 DEF PensRenamed
<1>2. CASE ~(pen[r] # Absent /\ Under(from, pen[r]))
  BY <1>2 DEF PensRenamed
<1> QED BY <1>1, <1>2

\* An incomplete file comes to be at x.
Cut(x) == IsFile(tree', x) /\ ~tree'[x].whole /\ tree'[x] # tree[x]

\* Who is to blame for it: a body that is too long is cut short and put in place.
Cause(r, x) ==
    /\ ~Idle(r) /\ Steps(r)
    /\ \/ req[r].kind = "move" /\ (Under(req[r].q, x) \/ req[r].met = "move")
       \/ /\ req[r].kind = "save" /\ x = req[r].p
          /\ req[r].met = "move" \/ req[r].body \in Large

\* What a step of y has to show.
Sound(y) ==
    /\ \A r \in Req : r # y /\ req[r].pc # "idle" => Spares(r)
    /\ Clean(req'[y], y, tree', pen'[y])
    /\ \A x \in Path : Cut(x) => Cause(y, x)

LEMMA OneAlone ==
    ASSUME Alone(req), NEW rq,
           \A r \in Req : /\ rq[r].pc # "idle" => req[r].pc # "idle"
                          /\ Same(req[r], rq[r])
    PROVE  Alone(rq)
BY DEF Alone, Same

\* A step of one handler changes its own record and the histories of the others.
LEMMA OwnSteps ==
    ASSUME TypeInv, NEW y \in Req, Continue(y) \/ Broken(y)
    PROVE  /\ req[y].pc # "idle" /\ Same(req[y], req'[y])
           /\ req'[y].p = req[y].p \/ req[y].kind = "delete"
           /\ \A r \in Req : r # y => /\ req'[r].pc = req[r].pc /\ req'[r].p = req[r].p
                                      /\ Same(req[r], req'[r])
<1> DEFINE z == req[y]
<1>1. /\ z \in Request /\ WellFormed(z) /\ Requests(req) /\ req \in [Req -> Request]
  BY DEF TypeInv, Requests, WellFormed
<1>2. ASSUME NEW w, req' = [req EXCEPT ![y] = w], w.p = z.p, Same(z, w)
      PROVE  /\ Same(req[y], req'[y]) /\ req'[y].p = req[y].p
             /\ \A r \in Req : r # y => /\ req'[r].pc = req[r].pc /\ req'[r].p = req[r].p
                                        /\ Same(req[r], req'[r])
  BY <1>1, <1>2 DEF Same
<1>3. ASSUME NEW pc, Goto(y, pc)
      PROVE  \E w : req' = [req EXCEPT ![y] = w] /\ w.p = z.p /\ Same(z, w)
  <2> DEFINE w == [z EXCEPT !.pc = pc]
  <2>1. req' = [req EXCEPT ![y] = w] BY <1>3 DEF Goto
  <2> HIDE DEF z
  <2>2. w.p = z.p /\ Same(z, w) BY <1>1 DEF Same, Request
  <2> QED BY <2>1, <2>2
<1>4. ASSUME NEW code, Answer(y, code)
      PROVE  \E w : req' = [req EXCEPT ![y] = w] /\ w.p = z.p /\ Same(z, w)
  <2> DEFINE w == [z EXCEPT !.pc = "idle", !.code = code, !.todo = {}]
  <2>1. req' = [req EXCEPT ![y] = w] BY <1>4 DEF Answer
  <2> HIDE DEF z
  <2>2. w.p = z.p /\ Same(z, w) BY <1>1 DEF Same, Request
  <2> QED BY <2>1, <2>2
<1>5. ASSUME NEW pc, NEW todo, NEW item,
             \/ req' = [req EXCEPT ![y].pc = pc, ![y].todo = todo]
             \/ req' = [req EXCEPT ![y].todo = todo]
             \/ req' = [req EXCEPT ![y].pc = pc, ![y].item = item, ![y].todo = todo]
      PROVE  \E w : req' = [req EXCEPT ![y] = w] /\ w.p = z.p /\ Same(z, w)
  <2> DEFINE w1 == [z EXCEPT !.pc = pc, !.todo = todo]
             w2 == [z EXCEPT !.todo = todo]
             w3 == [z EXCEPT !.pc = pc, !.item = item, !.todo = todo]
  <2>1. \/ req' = [req EXCEPT ![y] = w1] \/ req' = [req EXCEPT ![y] = w2]
        \/ req' = [req EXCEPT ![y] = w3]
    BY <1>5
  <2> HIDE DEF z
  <2>2. /\ w1.p = z.p /\ Same(z, w1) /\ w2.p = z.p /\ Same(z, w2)
        /\ w3.p = z.p /\ Same(z, w3)
    BY <1>1 DEF Same, Request
  <2> HIDE DEF w1, w2, w3
  <2> QED BY <2>1, <2>2
<1>6. CASE DeletePurge(y) \/ MoveRelabel(y)
  <2> DEFINE lived == Lived(policy, marks')
             w == lived[y]
             y1 == [w EXCEPT !.pc = "idle", !.code = "ok"]
             y2 == [w EXCEPT !.pc = "check", !.p = z.q, !.some = TRUE]
  <2>1. Requests(lived) /\ \A r \in Req : lived[r].pc = req[r].pc
    BY LivedWell DEF TypeInv
  <2>2. ASSUME NEW r \in Req PROVE lived[r].p = req[r].p /\ Same(req[r], lived[r])
    <3> DEFINE v == req[r]
    <3>1. v \in Request BY <1>1
    <3>2. Lived(policy, marks')[r] =
            IF v.pc = "idle" THEN v
            ELSE [v EXCEPT
                    !.shown = @ \cup {p \in {v.p, v.q} : ~Hidden(marks', v.id, p)},
                    !.public = @ \/ policy = "public",
                    !.shut = @ /\ policy = "private"]
      BY DEF Lived, Idle, At
    <3> HIDE DEF v
    <3>3. lived[r].p = v.p /\ Same(v, lived[r]) BY <3>1, <3>2 DEF Same, Request
    <3> QED BY <3>3 DEF v
  <2>3. /\ z.pc # "idle"
        /\ \/ req' = [lived EXCEPT ![y] = y1]
           \/ req' = [lived EXCEPT ![y] = y2] /\ z.kind = "delete"
    BY <1>1, <1>6 DEF DeletePurge, MoveRelabel, At, WellFormed, FitFor
  <2>4. w \in Request /\ lived \in [Req -> Request] BY <2>1 DEF Requests, WellFormed
  <2> HIDE DEF lived, w
  <2>5. y1.p = w.p /\ Same(w, y1) /\ Same(w, y2) BY <2>4 DEF Same, Request
  <2> HIDE DEF y1, y2
  <2>6. w.p = z.p /\ Same(z, w) BY <2>2 DEF w
  <2>7. /\ Same(z, req'[y])
        /\ req'[y].p = z.p \/ z.kind = "delete"
    BY <2>3, <2>4, <2>5, <2>6 DEF Same
  <2>8. \A r \in Req : r # y => req'[r] = lived[r] BY <2>3, <2>4
  <2>9. ASSUME NEW r \in Req, r # y
        PROVE  req'[r].pc = req[r].pc /\ req'[r].p = req[r].p /\ Same(req[r], req'[r])
    BY <2>1, <2>2, <2>8, <2>9
  <2> QED BY <2>3, <2>7, <2>9
<1>7. CASE ~(DeletePurge(y) \/ MoveRelabel(y))
  <2>1. \/ \E pc : Goto(y, pc)
        \/ \E code : Answer(y, code)
        \/ \E pc, todo, item :
            \/ req' = [req EXCEPT ![y].pc = pc, ![y].todo = todo]
            \/ req' = [req EXCEPT ![y].todo = todo]
            \/ req' = [req EXCEPT ![y].pc = pc, ![y].item = item, ![y].todo = todo]
    <3>1. CASE \/ ReadOpen(y) \/ Check(y) \/ MakeDir(y) \/ MakeFile(y)
               \/ SaveStage(y) \/ SaveBody(y) \/ SavePlace(y) \/ Broken(y)
      BY <3>1 DEF ReadOpen, Check, MakeDir, MakeFile, SaveStage, SaveBody, SavePlace, Broken,
                  SaveBroken, CopyBroken
    <3>2. CASE \/ DeleteLook(y) \/ DeleteTree(y) \/ MoveLook(y) \/ MoveStat(y)
               \/ CopyPour(y) \/ CopyUndo(y) \/ CopyDone(y)
      BY <3>2 DEF DeleteLook, DeleteTree, MoveLook, MoveStat, CopyPour, CopyUndo, CopyDone
    <3>3. CASE MoveRename(y) BY <3>3 DEF MoveRename
    <3>4. ASSUME NEW x \in Name, CopyFails(y, x) PROVE \E pc : Goto(y, pc)
      BY <3>4 DEF CopyFails
    <3>5. ASSUME NEW x \in Name, CopyDir(y, x)
          PROVE  req' = [req EXCEPT ![y].todo = (z.todo \ {x}) \cup Children(tree, x)]
      BY <3>5 DEF CopyDir
    <3>6. ASSUME NEW x \in Name, CopyFile(y, x)
          PROVE  req' = [req EXCEPT ![y].pc = "pour", ![y].item = tree[x],
                                    ![y].todo = z.todo \ {x}]
      BY <3>6 DEF CopyFile
    <3> HIDE DEF z
    <3> QED BY <1>7, <3>1, <3>2, <3>3, <3>4, <3>5, <3>6 DEF Continue
  <2>2. \E w : req' = [req EXCEPT ![y] = w] /\ w.p = z.p /\ Same(z, w)
    BY <1>3, <1>4, <1>5, <2>1
  <2>3. z.pc # "idle"
    BY <1>7 DEF Continue, Broken, ReadOpen, Check, MakeDir, MakeFile, SaveStage, SaveBody,
                SavePlace, SaveBroken, CopyBroken, DeleteLook, DeleteTree, MoveLook, MoveStat,
                CopyPour, CopyUndo, CopyDone, MoveRename, CopyFails, CopyDir, CopyFile,
                CopyNext, At
  <2> QED BY <1>2, <2>2, <2>3
<1> QED BY <1>6, <1>7

\* A request that is not a save, and pours nothing, has nothing to show.
LEMMA IdlyClean ==
    ASSUME NEW z, NEW r, NEW t, NEW h, FitFor(z, z.pc),
           z.pc = "idle" \/ (z.kind # "save" /\ z.pc # "pour")
    PROVE  Clean(z, r, t, h)
BY DEF Clean, Saved, FitFor

\* Beside a save are its own temporary file and, if it has met one, a move.
LEMMA Beside ==
    ASSUME TypeInv, PartInv, NEW r \in Req
    PROVE  /\ req[r].kind = "save" /\ pen[r] # Absent => pen[r] \in TempsOf(r)
           /\ \A y \in Req : y # r /\ req[r].pc # "idle" /\ req[y].pc # "idle" /\ req[y].kind = "move"
                => req[r].met = "move"
<1>1. FitFor(req[r], req[r].pc) /\ (pen[r] # Absent => req[r].pc \in {"body", "pour"})
  BY DEF TypeInv, Requests, WellFormed
<1>2. Clean(req[r], r, tree, pen[r]) BY DEF PartInv
<1>3. req[r].kind = "save" /\ pen[r] # Absent => pen[r] \in TempsOf(r)
  BY <1>1, <1>2 DEF Clean, FitFor
<1> QED BY <1>3 DEF PartInv, Alone

LEMMA PcIs ==
    ASSUME TypeInv, NEW y \in Req
    PROVE  /\ \A pc : Goto(y, pc) => req'[y].pc = pc
           /\ \A code : Answer(y, code) => req'[y].pc = "idle"
<1> DEFINE z == req[y]
<1>1. z \in Request /\ req \in [Req -> Request]
  BY DEF TypeInv, Requests
<1>2. ASSUME NEW pc, Goto(y, pc) PROVE req'[y].pc = pc
  <2>1. req'[y] = [z EXCEPT !.pc = pc] BY <1>1, <1>2 DEF Goto
  <2> HIDE DEF z
  <2> QED BY <1>1, <2>1 DEF Request
<1>3. ASSUME NEW code, Answer(y, code) PROVE req'[y].pc = "idle"
  <2>1. req'[y] = [z EXCEPT !.pc = "idle", !.code = code, !.todo = {}] BY <1>1, <1>3 DEF Answer
  <2> HIDE DEF z
  <2> QED BY <1>1, <2>1 DEF Request
<1> QED BY <1>2, <1>3

\* Making the directories on the way to p makes directories only.
LEMMA ReachGrows ==
    ASSUME TypeInv, NEW p \in Name, Reachable(tree, p), NEW x \in Name,
           Reached(tree, p)[x] # tree[x]
    PROVE  x \in Path /\ Reached(tree, p)[x] = Dir
<1>1. IsTree(tree) BY DEF TypeInv
<1>2. IsTree(Reached(tree, p)) /\ Reached(tree, p)[x] = Dir BY <1>1, ReachCloses
<1> QED BY <1>2 DEF IsTree

\* A step that leaves alone what others have open, and puts nothing incomplete at a path.
LEMMA GrowSound ==
    ASSUME NEW y \in Req, \A r \in Req : r # y => pen'[r] = pen[r],
           \A x \in Name : tree'[x] # tree[x] => (x \in Path /\ ~Cut(x)) \/ x \in TempsOf(y),
           Clean(req'[y], y, tree', pen'[y])
    PROVE  Sound(y)
<1>1. ASSUME NEW r \in Req, r # y PROVE Spares(r)
  BY <1>1, TempsDiffer, UntouchedIsSpared
<1>2. ASSUME NEW x \in Path, Cut(x) PROVE FALSE
  <2>1. x \in Name /\ tree'[x] # tree[x] /\ x \notin TempsOf(y)
    BY <1>2, PathsAreNames, TempsDiffer DEF Cut
  <2> QED BY <1>2, <2>1
<1> QED BY <1>1, <1>2 DEF Sound

LEMMA RemoveSound ==
    ASSUME NEW y \in Req, NEW p, tree' = Without(tree, p),
           \A r \in Req : r # y => pen'[r] = PensWithout(p)[r],
           Clean(req'[y], y, tree', pen'[y])
    PROVE  Sound(y)
<1>1. \A r \in Req : r # y => Spares(r) BY RemovalSpares
<1>2. ASSUME NEW x \in Path PROVE ~Cut(x)
  BY PathsAreNames, EntryAssumption DEF Cut, Without, IsFile
<1> QED BY <1>1, <1>2 DEF Sound

LEMMA QuietSound ==
    ASSUME TypeInv, TypeInv', PartInv, NEW y \in Req,
           \/ ReadOpen(y) \/ Check(y) \/ DeleteLook(y) \/ DeletePurge(y)
           \/ MoveLook(y) \/ MoveStat(y) \/ MoveRelabel(y)
           \/ \E x \in Name : CopyFails(y, x)
    PROVE  Sound(y)
<1>1. tree' = tree /\ pen' = pen
  BY DEF ReadOpen, Check, DeleteLook, DeletePurge, MoveLook, MoveStat, MoveRelabel, CopyFails,
         Keep
<1>2. /\ req[y].pc # "idle" /\ Same(req[y], req'[y])
      /\ FitFor(req[y], req[y].pc) /\ FitFor(req'[y], req'[y].pc)
  BY OwnSteps DEF Continue, TypeInv, Requests, WellFormed
<1>3. pen[y] = Absent
  BY <1>1 DEF TypeInv, ReadOpen, Check, DeleteLook, DeletePurge, MoveLook, MoveStat,
              MoveRelabel, CopyFails, CopyNext, At
<1>4. Clean(req'[y], y, tree', pen'[y])
  <2>1. CASE req[y].kind = "save"
    <3>1. Check(y)
      BY <1>2, <2>1 DEF ReadOpen, DeleteLook, DeletePurge, MoveLook, MoveStat, MoveRelabel,
                        CopyFails, CopyNext, At, FitFor
    <3>2. req[y].pc = "check" /\ req'[y].pc \in {"stage", "idle"}
      BY <2>1, <3>1, PcIs DEF Check, At, First
    <3>3. req[y].met # "move" => \A d \in TempsOf(y) : tree[d] = Absent
      BY <2>1, <3>2 DEF PartInv, Clean, Saved
    <3> QED BY <1>1, <1>2, <1>3, <2>1, <3>2, <3>3 DEF Clean, Saved, Same
  <2>2. CASE req[y].kind # "save"
    <3>1. req'[y].pc # "pour" /\ req'[y].kind # "save"
      <4>1. CASE DeletePurge(y)
        BY <1>2, <4>1 DEF DeletePurge, At, Same, FitFor
      <4>2. CASE MoveRelabel(y)
        <5>1. Requests(Lived(policy, marks')) BY LivedWell DEF TypeInv
        <5> DEFINE w == Lived(policy, marks')[y]
        <5>2. w \in Request /\ req'[y] = [w EXCEPT !.pc = "idle", !.code = "ok"]
          BY <4>2, <5>1 DEF MoveRelabel, Requests
        <5> HIDE DEF w
        <5> QED BY <1>2, <2>2, <5>2 DEF Same, Request
      <4>3. CASE ReadOpen(y) \/ DeleteLook(y) \/ MoveLook(y) \/ MoveStat(y)
        BY <1>2, <2>2, <4>3, PcIs DEF ReadOpen, DeleteLook, MoveLook, MoveStat, Same
      <4>4. CASE Check(y)
        <5>1. req[y].kind \in Kind BY DEF TypeInv, Requests, Request
        <5>2. req'[y].pc = "idle" \/ req'[y].pc = First(req[y].kind)
          BY <4>4, PcIs DEF Check
        <5>3. req[y].kind # "read" BY <1>2, <4>4 DEF Check, At, FitFor
        <5> QED BY <1>2, <2>2, <5>1, <5>2, <5>3 DEF Same, First, Kind
      <4>5. ASSUME NEW x \in Name, CopyFails(y, x)
            PROVE  req'[y].pc # "pour" /\ req'[y].kind # "save"
        BY <1>2, <2>2, <4>5, PcIs DEF CopyFails, Same
      <4> QED BY <4>1, <4>2, <4>3, <4>4, <4>5
    <3> QED BY <1>2, <3>1, IdlyClean
  <2> QED BY <2>1, <2>2
<1> QED BY <1>1, <1>4, GrowSound

LEMMA MakeSound ==
    ASSUME TypeInv, TypeInv', PartInv, NEW y \in Req,
           MakeDir(y) \/ MakeFile(y) \/ \E x \in Name : CopyDir(y, x)
    PROVE  Sound(y)
<1>1. /\ req[y] \in Request /\ FitFor(req[y], req[y].pc)
      /\ req[y].kind = "move" => Fits(req[y].p, req[y].q)
      /\ FitFor(req'[y], req'[y].pc)
  BY DEF TypeInv, Requests, WellFormed
<1>2. ASSUME NEW to \in Name, NEW e, Reachable(tree, to), to \in Path,
             tree' = Put(Reached(tree, to), to, e) \/ tree' = tree,
             e = Dir \/ e.whole, NEW x \in Name, tree'[x] # tree[x]
      PROVE  x \in Path /\ ~Cut(x)
  <2>0. IsTree(tree) BY DEF TypeInv
  <2>1. Reached(tree, to) \in [Name -> Entry] BY <1>2, <2>0, ReachCloses DEF IsTree
  <2>2. CASE x = to
    <3>1. tree'[x] = e BY <1>2, <2>1, <2>2 DEF Put
    <3> QED BY <1>2, <2>2, <3>1, EntryAssumption DEF Cut, IsFile
  <2>3. CASE x # to
    <3>1. tree'[x] = Reached(tree, to)[x] BY <1>2, <2>1, <2>3 DEF Put
    <3>2. x \in Path /\ tree'[x] = Dir BY <1>2, <3>1, ReachGrows
    <3> QED BY <3>2, EntryAssumption DEF Cut, IsFile
  <2> QED BY <2>2, <2>3
<1>3. CASE MakeDir(y) \/ MakeFile(y)
  <2> DEFINE p == req[y].p
             w == Whole(req[y].body)
  <2>1. p \in Path /\ p \in Name /\ pen' = pen
    BY <1>1, <1>3, PathsAreNames DEF MakeDir, MakeFile, Request, rights
  <2>6. \/ tree' = tree
        \/ Reachable(tree, p) /\ \E e \in {Dir, w} : tree' = Put(Reached(tree, p), p, e)
    <3>1. CASE MakeDir(y) BY <3>1 DEF MakeDir
    <3>2. CASE MakeFile(y) BY <3>2 DEF MakeFile
    <3> QED BY <1>3, <3>1, <3>2
  <2>2. w.whole BY DEF Whole
  <2> HIDE DEF p, w
  <2>3. \A x \in Name : tree'[x] # tree[x] => x \in Path /\ ~Cut(x)
    BY <1>2, <2>1, <2>2, <2>6
  <2>4. req'[y].pc = "idle" BY <1>3, PcIs DEF MakeDir, MakeFile
  <2>5. Clean(req'[y], y, tree', pen'[y]) BY <1>1, <2>4, IdlyClean
  <2> QED BY <2>1, <2>3, <2>5, GrowSound
<1>4. ASSUME NEW x \in Name, CopyDir(y, x) PROVE Sound(y)
  <2> DEFINE to == CopyTo(y, x)
  <2>1. /\ pen' = pen /\ req[y].pc = "copy" /\ tree[x] = Dir /\ x \in req[y].todo
        /\ Reachable(tree, to) /\ tree' = Put(Reached(tree, to), to, Dir)
        /\ IsTree(tree)
    BY <1>4, NamesAreAny DEF CopyDir, CanCopyDir, CopyNext, At, IsDir, TypeInv
  <2>2. req[y].kind = "move" /\ Under(req[y].p, x) /\ req[y].p \in Path /\ req[y].q \in Path
    BY <1>1, <2>1 DEF FitFor, Request
  <2>3. x \in Path BY <2>1 DEF IsTree
  <2>4. to \in Name BY <1>1, <2>2 DEF Fits, CopyTo
  <2>5. to \in Path BY <2>2, <2>3, <2>4, RebaseKeepsKind DEF CopyTo
  <2> HIDE DEF to
  <2>6. \A v \in Name : tree'[v] # tree[v] => v \in Path /\ ~Cut(v)
    BY <1>2, <2>1, <2>4, <2>5
  <2>7. req'[y].pc = "copy" /\ req'[y].kind = "move"
    <3> DEFINE z == req[y]
    <3>1. req'[y] = [z EXCEPT !.todo = (z.todo \ {x}) \cup Children(tree, x)] /\ z.pc = "copy"
      BY <1>4, <2>1 DEF CopyDir, TypeInv, Requests
    <3>2. z \in Request /\ z.kind = "move" BY <1>1, <2>2
    <3> HIDE DEF z
    <3> QED BY <3>1, <3>2 DEF Request
  <2>8. Clean(req'[y], y, tree', pen'[y]) BY <1>1, <2>7, IdlyClean
  <2> QED BY <2>1, <2>6, <2>8, GrowSound
<1> QED BY <1>3, <1>4

LEMMA SaveSound ==
    ASSUME TypeInv, TypeInv', PartInv, NEW y \in Req,
           SaveStage(y) \/ SaveBody(y) \/ SaveBroken(y) \/ SavePlace(y)
    PROVE  Sound(y)
<1> DEFINE z == req[y]
           p == z.p
           T == Temp(p, y)
<1>1. /\ z \in Request /\ p \in Path /\ p \in Name /\ z.kind = "save"
      /\ Same(z, req'[y]) /\ req'[y].p = p
      /\ FitFor(req'[y], req'[y].pc)
      /\ IsTree(tree) /\ PensOK(tree, pen)
      /\ req[y].pc \in {"stage", "body", "place"}
  <2>1. WellFormed(z) /\ z.pc \in {"stage", "body", "place"}
    BY DEF TypeInv, Requests, SaveStage, SaveBody, SaveBroken, SavePlace, At
  <2>2. z \in Request /\ p \in Path /\ z.kind = "save"
    BY <2>1 DEF WellFormed, FitFor, Request
  <2> QED BY <2>1, <2>2, OwnSteps, PathsAreNames
          DEF Continue, Broken, TypeInv, Requests, WellFormed
<1>2. T \in TempsOf(y) /\ T \in Name /\ T \notin Path /\ T # Absent
  BY <1>1, TempsDiffer DEF TempsOf
<1>3. Clean(z, y, tree, pen[y]) /\ (pen[y] # Absent => pen[y] \in TempsOf(y))
  BY <1>1, Beside DEF PartInv
<1>4. req'[y].pc = "idle" => Clean(req'[y], y, tree', pen'[y]) BY <1>1, IdlyClean
<1>5. CASE SaveStage(y)
  <2>1. CASE Answer(y, "exists") /\ Keep
    BY <1>4, <2>1, PcIs, GrowSound DEF Keep
  <2>2. CASE /\ Reachable(tree, p) /\ OpenFor(y, Reached(tree, p), T, z.body)
             /\ Goto(y, "body")
    <3>1. /\ pen' = [pen EXCEPT ![y] = T] /\ req'[y].pc = "body"
          /\ tree' = Put(Reached(tree, p), T, Part(z.body))
      BY <2>2, PcIs DEF OpenFor
    <3>2. pen'[y] = T /\ \A r \in Req : r # y => pen'[r] = pen[r]
      BY <1>1, <3>1 DEF PensOK
    <3>3. Reached(tree, p) \in [Name -> Entry] BY <1>1, <2>2, ReachCloses DEF IsTree
    <3>4. ASSUME NEW x \in Name, tree'[x] # tree[x]
          PROVE  (x \in Path /\ ~Cut(x)) \/ x \in TempsOf(y)
      <4>1. CASE x = T BY <1>2, <4>1
      <4>2. CASE x # T
        <5>1. tree'[x] = Reached(tree, p)[x] BY <3>1, <3>3, <4>2 DEF Put
        <5>2. x \in Path /\ tree'[x] = Dir BY <1>1, <2>2, <3>4, <5>1, ReachGrows
        <5> QED BY <5>2, EntryAssumption DEF Cut, IsFile
      <4> QED BY <4>1, <4>2
    <3>5. Clean(req'[y], y, tree', pen'[y])
      BY <1>1, <1>2, <3>1, <3>2 DEF Clean, Saved, Same
    <3> QED BY <3>2, <3>4, <3>5, GrowSound
  <2> QED BY <1>5, <2>1, <2>2 DEF SaveStage
<1>6. CASE SaveBody(y)
  <2> DEFINE c == Written(z)
  <2>1. /\ pen' = [pen EXCEPT ![y] = Absent] /\ req'[y].pc = "place" /\ z.pc = "body"
        /\ tree' = IF pen[y] = Absent THEN tree ELSE Put(tree, pen[y], c)
    BY <1>6, PcIs DEF SaveBody, Fill, At, Written
  <2>2. pen'[y] = Absent /\ \A r \in Req : r # y => pen'[r] = pen[r]
    BY <1>1, <2>1 DEF PensOK
  <2>3. \A x \in Name : tree'[x] # tree[x] => x \in TempsOf(y)
    BY <1>1, <1>3, <2>1 DEF Put, IsTree
  <2> HIDE DEF c
  <2>5. z.met # "move" => tree'[T] \in {Absent, c}
    <3> SUFFICES ASSUME z.met # "move" PROVE tree'[T] \in {Absent, c}
      OBVIOUS
    <3>1. tree[T] = Absent \/ pen[y] = T
      BY <1>1, <1>3, <2>1 DEF Clean, Saved
    <3>2. CASE pen[y] = T BY <1>1, <1>2, <2>1, <3>2 DEF Put, IsTree
    <3>3. CASE pen[y] # T
      <4>1. tree'[T] = tree[T] BY <1>1, <1>2, <2>1, <3>3 DEF Put, IsTree
      <4> QED BY <3>1, <3>3, <4>1
    <3> QED BY <3>2, <3>3
  <2>6. Clean(req'[y], y, tree', pen'[y])
    BY <1>1, <2>1, <2>5 DEF Clean, Saved, Same, Written, c
  <2> QED BY <2>2, <2>3, <2>6, GrowSound
<1>7. CASE SaveBroken(y)
  <2>1. /\ tree' = Without(tree, T) /\ req'[y].pc = "idle"
        /\ pen' = [PensWithout(T) EXCEPT ![y] = Absent]
    BY <1>7, PcIs DEF SaveBroken, GiveUp
  <2>2. \A r \in Req : r # y => pen'[r] = PensWithout(T)[r]
    BY <2>1 DEF PensWithout
  <2> QED BY <1>4, <2>1, <2>2, RemoveSound
<1>8. CASE SavePlace(y)
  <2>1. req'[y].pc = "idle" /\ z.pc = "place" BY <1>8, PcIs DEF SavePlace, At
  <2>2. CASE Remove(T)
    <3>1. tree' = Without(tree, T) /\ pen' = PensWithout(T) BY <2>2 DEF Remove
    <3> QED BY <1>4, <2>1, <3>1, RemoveSound
  <2>3. CASE Rename(T, p) /\ Renamable(tree, T, p)
    <3>1. \A r \in Req : r # y => Spares(r)
      BY <1>1, <2>3, Beside, PlacingSpares
    <3>2. ASSUME NEW x \in Path, Cut(x) PROVE Cause(y, x)
      <4>1. /\ x \in Name /\ x \in Any /\ p \in Any /\ T \in Any
            /\ tree' = Renamed(tree, T, p)
        BY <1>1, <1>2, <2>3, PathsAreNames, NamesAreAny DEF Rename
      <4>2. ~Under(T, x)
        BY <1>1, <1>2, <3>2, <4>1, TempsAreLeaves
      <4>3. Under(p, x) /\ Rebase(x, p, T) \in Name /\ tree'[x] = tree[Rebase(x, p, T)]
        BY <3>2, <4>1, <4>2, EntryAssumption DEF Cut, Renamed, IsFile
      <4>4. Rebase(x, p, T) = T
        <5>1. Under(T, Rebase(x, p, T)) BY <4>1, <4>3, RebaseBack
        <5> QED BY <1>1, <4>3, <5>1, TempsAreLeaves
      <4>5. x = p BY <4>1, <4>3, <4>4, RebaseBack
      <4>6. tree[T] # Absent /\ ~tree[T].whole
        BY <2>3, <3>2, <4>3, <4>4 DEF Cut, Renamable
      <4>7. z.met = "move" \/ z.body \in Large
        <5>1. z.met = "move" \/ tree[T] = Written(z)
          BY <1>1, <1>3, <2>1, <4>6 DEF Clean, Saved
        <5>2. Written(z).whole \/ z.body \in Large BY DEF Written
        <5> QED BY <4>6, <5>1, <5>2
      <4>8. Steps(y) /\ ~Idle(y) BY <2>1 DEF Steps, Idle, At
      <4> QED BY <1>1, <4>5, <4>7, <4>8 DEF Cause
    <3> QED BY <1>4, <2>1, <3>1, <3>2 DEF Sound
  <2> QED BY <1>8, <2>2, <2>3 DEF SavePlace
<1> QED BY <1>5, <1>6, <1>7, <1>8

LEMMA RemovalsSound ==
    ASSUME TypeInv, TypeInv', PartInv, NEW y \in Req,
           DeleteTree(y) \/ CopyUndo(y) \/ CopyDone(y) \/ CopyBroken(y)
    PROVE  Sound(y)
<1>1. /\ req'[y].kind # "save" /\ req'[y].pc # "pour" /\ FitFor(req'[y], req'[y].pc)
  <2>1. FitFor(req[y], req[y].pc) /\ FitFor(req'[y], req'[y].pc) /\ Same(req[y], req'[y])
    BY OwnSteps DEF Continue, Broken, TypeInv, Requests, WellFormed
  <2>2. req[y].kind # "save"
    BY <2>1 DEF DeleteTree, CopyUndo, CopyDone, CopyBroken, At, FitFor
  <2>3. req'[y].pc # "pour"
    BY PcIs DEF DeleteTree, CopyUndo, CopyDone, CopyBroken
  <2> QED BY <2>1, <2>2, <2>3 DEF Same
<1>2. Clean(req'[y], y, tree', pen'[y]) BY <1>1, IdlyClean
<1>3. CASE CopyBroken(y)
  <2>1. tree' = tree /\ \A r \in Req : r # y => pen'[r] = pen[r]
    BY <1>3 DEF CopyBroken, TypeInv, PensOK
  <2> QED BY <1>2, <2>1, GrowSound
<1>4. CASE DeleteTree(y) \/ CopyUndo(y) \/ CopyDone(y)
  <2>1. \E p : tree' = Without(tree, p) /\ pen' = PensWithout(p)
    BY <1>4 DEF DeleteTree, CopyUndo, CopyDone, Remove
  <2> QED BY <1>2, <2>1, RemoveSound
<1> QED BY <1>3, <1>4

\* Whatever a move does to the tree, those beside it have met a move.
LEMMA MoveSound ==
    ASSUME TypeInv, TypeInv', PartInv, NEW y \in Req,
           MoveRename(y) \/ CopyPour(y) \/ \E x \in Name : CopyFile(y, x)
    PROVE  Sound(y)
<1> DEFINE z == req[y]
<1>1. /\ z \in Request /\ z.p \in Path /\ z.q \in Path /\ z.p \in Name /\ z.q \in Name
      /\ z.kind = "move" /\ Fits(z.p, z.q) /\ z.pc \in {"rename", "pour", "copy"}
      /\ FitFor(z, z.pc) /\ FitFor(req'[y], req'[y].pc) /\ Same(z, req'[y])
      /\ IsTree(tree) /\ PensOK(tree, pen)
  <2>1. WellFormed(z) /\ z.pc \in {"rename", "pour", "copy"}
    BY DEF TypeInv, Requests, MoveRename, CopyPour, CopyFile, CopyNext, At
  <2>2. z \in Request /\ z.p \in Path /\ z.q \in Path /\ z.kind = "move"
    BY <2>1 DEF WellFormed, FitFor, Request
  <2> QED BY <2>1, <2>2, OwnSteps, PathsAreNames DEF Continue, TypeInv, Requests, WellFormed
<1>2. ASSUME NEW r \in Req, r # y, req[r].pc # "idle"
      PROVE  /\ req[r].met = "move"
             /\ req[r].kind = "save" /\ pen[r] # Absent => pen[r] \in TempsOf(r)
  BY <1>1, <1>2, Beside
<1>3. ASSUME NEW r \in Req, r # y, req[r].pc # "idle", pen'[r] = pen[r]
      PROVE  Spares(r)
  BY <1>2, <1>3 DEF Spares
<1>4. req'[y].pc # "pour" => Clean(req'[y], y, tree', pen'[y])
  BY <1>1, IdlyClean DEF Same
<1>5. ASSUME NEW x, Under(z.q, x) \/ z.met = "move", req'[y].pc # z.pc
      PROVE  Cause(y, x)
  BY <1>1, <1>5 DEF Cause, Steps, Idle, At
<1>6. CASE MoveRename(y)
  <2> DEFINE from == z.p
             to == z.q
             t == Reached(tree, to)
  <2>1. z.pc = "rename" BY <1>6 DEF MoveRename, At
  <2>2. CASE /\ pen' = pen
             /\ tree' = tree \/ (tree' = t /\ Reachable(tree, to))
             /\ \/ Answer(y, "refused")
                \/ req' = [req EXCEPT ![y].pc = "copy", ![y].todo = {from}]
    <3>1. \A x \in Name : tree'[x] # tree[x] => x \in Path /\ ~Cut(x)
      <4> SUFFICES ASSUME NEW x \in Name, tree'[x] # tree[x] PROVE x \in Path /\ ~Cut(x)
        OBVIOUS
      <4>1. x \in Path /\ tree'[x] = Dir BY <1>1, <2>2, ReachGrows
      <4> QED BY <4>1, EntryAssumption DEF Cut, IsFile
    <3>2. req'[y].pc # "pour"
      <4>1. CASE Answer(y, "refused") BY <4>1, PcIs
      <4>2. CASE req' = [req EXCEPT ![y].pc = "copy", ![y].todo = {from}]
        <5>1. req'[y] = [z EXCEPT !.pc = "copy", !.todo = {from}]
          BY <4>2 DEF TypeInv, Requests
        <5> HIDE DEF z, from
        <5> QED BY <1>1, <5>1 DEF Request
      <4> QED BY <2>2, <4>1, <4>2
    <3> QED BY <1>4, <2>2, <3>1, <3>2, GrowSound
  <2>3. CASE tree' = Renamed(t, from, to) /\ pen' = PensRenamed(from, to) /\ Goto(y, "stat")
             /\ Reachable(tree, to)
    <3>1. req'[y].pc = "stat" BY <2>3, PcIs
    <3>2. ASSUME NEW r \in Req, r # y, req[r].pc # "idle" PROVE Spares(r)
      <4> HIDE DEF z, t
      <4> QED BY <1>1, <1>2, <2>3, <3>2, MovingSpares
    <3>3. ASSUME NEW x \in Path, Cut(x) PROVE Cause(y, x)
      <4>1. x \in Name /\ IsTree(t) BY <1>1, <2>3, PathsAreNames, ReachCloses
      <4>2. CASE Under(to, x) BY <1>5, <2>1, <3>1, <4>2
      <4>3. CASE ~Under(to, x)
        <5>1. tree'[x] = Absent \/ tree'[x] = t[x] BY <2>3, <4>1, <4>3 DEF Renamed
        <5>2. t[x] # tree[x] => t[x] = Dir BY <1>1, <2>3, <4>1, ReachGrows
        <5> QED BY <3>3, <5>1, <5>2, EntryAssumption DEF Cut, IsFile
      <4> QED BY <4>2, <4>3
    <3> QED BY <1>4, <3>1, <3>2, <3>3 DEF Sound
  <2> QED BY <1>6, <2>2, <2>3 DEF MoveRename, Keep
<1>7. CASE CopyPour(y)
  <2>1. /\ pen' = [pen EXCEPT ![y] = Absent] /\ req'[y].pc = "copy" /\ z.pc = "pour"
        /\ tree' = IF pen[y] = Absent THEN tree ELSE Put(tree, pen[y], z.item)
    BY <1>7, PcIs DEF CopyPour, Fill, At
  <2>2. \A r \in Req : r # y => pen'[r] = pen[r] BY <1>1, <2>1 DEF PensOK
  <2>3. ASSUME NEW x \in Path, Cut(x) PROVE Cause(y, x)
    <3>1. x = pen[y] /\ pen[y] # Absent
      BY <1>1, <2>1, <2>3, PathsAreNames DEF Cut, Put, IsTree
    <3>2. z.met = "move" \/ Under(z.q, x)
      BY <2>1, <3>1 DEF PartInv, Clean
    <3> QED BY <1>5, <2>1, <3>2
  <2> QED BY <1>3, <1>4, <2>1, <2>2, <2>3 DEF Sound
<1>8. ASSUME NEW x \in Name, CopyFile(y, x) PROVE Sound(y)
  <2> DEFINE to == CopyTo(y, x)
             e == Part(tree[x].body)
  <2>1. /\ pen' = [pen EXCEPT ![y] = to] /\ z.pc = "copy" /\ x \in z.todo
        /\ tree' = Put(tree, to, e)
        /\ req' = [req EXCEPT ![y].pc = "pour", ![y].item = tree[x], ![y].todo = @ \ {x}]
    BY <1>8 DEF CopyFile, OpenFor, CopyNext, At
  <2>2. req'[y].pc = "pour"
    <3>1. req'[y] = [z EXCEPT !.pc = "pour", !.item = tree[x], !.todo = z.todo \ {x}]
      BY <2>1 DEF TypeInv, Requests
    <3> HIDE DEF z
    <3> QED BY <1>1, <3>1 DEF Request
  <2>3. Under(z.q, to)
    <3>1. Under(z.p, x) BY <1>1, <2>1 DEF FitFor
    <3>2. x \in Any /\ z.p \in Any /\ z.q \in Any BY <1>1, NamesAreAny
    <3> QED BY <3>1, <3>2, RebaseBack DEF CopyTo
  <2> HIDE DEF to, e
  <2>4. pen'[y] = to /\ \A r \in Req : r # y => pen'[r] = pen[r]
    BY <1>1, <2>1 DEF PensOK
  <2>5. ASSUME NEW w \in Path, Cut(w) PROVE Cause(y, w)
    <3>1. w = to BY <1>1, <2>1, <2>5, PathsAreNames DEF Cut, Put, IsTree
    <3> QED BY <1>5, <2>1, <2>2, <2>3, <3>1
  <2>6. Clean(req'[y], y, tree', pen'[y])
    BY <1>1, <2>2, <2>3, <2>4 DEF Clean, Same
  <2> QED BY <1>3, <2>4, <2>5, <2>6 DEF Sound
<1> QED BY <1>6, <1>7, <1>8

LEMMA StepsSound ==
    ASSUME TypeInv, TypeInv', PartInv, NEW y \in Req, Continue(y) \/ Broken(y)
    PROVE  Sound(y)
BY QuietSound, MakeSound, SaveSound, RemovalsSound, MoveSound DEF Continue, Broken

LEMMA StepsClean ==
    ASSUME TypeInv, TypeInv', PartInv, NEW y \in Req, Continue(y) \/ Broken(y)
    PROVE  PartInv'
<1>1. Sound(y) BY StepsSound
<1>2. /\ req[y].pc # "idle" /\ Same(req[y], req'[y])
      /\ \A r \in Req : r # y => /\ req'[r].pc = req[r].pc /\ req'[r].p = req[r].p
                                 /\ Same(req[r], req'[r])
  BY OwnSteps
<1>3. Alone(req') BY <1>2, OneAlone DEF PartInv
<1>4. ASSUME NEW r \in Req, r # y PROVE Clean(req'[r], r, tree', pen'[r])
  <2>1. Clean(req[r], r, tree, pen[r]) BY DEF PartInv
  <2>2. req[r].pc # "idle" => Spares(r) BY <1>1, <1>4 DEF Sound
  <2>3. /\ req'[r].pc = req[r].pc /\ req'[r].p = req[r].p /\ Same(req[r], req'[r])
    BY <1>2, <1>4
  <2> QED BY <2>1, <2>2, <2>3, SparedStaysClean DEF Same
<1> QED BY <1>1, <1>3, <1>4 DEF PartInv, Sound

\* A request that arrives beside a move, or is one, is known to whoever is beside it.
LEMMA ArriveClean ==
    ASSUME TypeInv, PartInv, NEW r \in Req, NEW kind, NEW id, NEW p, NEW q, NEW b,
           NEW pc \in {"idle", "open", "check", "stage"},
           kind = "save" => Unused(r),
           Arrive(r, kind, id, p, q, b, pc)
    PROVE  PartInv'
<1> DEFINE met == IF Rest THEN "none"
                  ELSE IF \E y \in Req : ~Idle(y) /\ req[y].kind = "move" THEN "move" ELSE "some"
           z == [pc |-> pc, kind |-> kind, id |-> id, p |-> p, q |-> q, body |-> b,
                 some |-> FALSE, todo |-> {}, item |-> Whole(b),
                 code |-> IF pc = "idle" THEN "refused" ELSE "none",
                 shown |-> {y \in {p, q} : ~Hidden(marks, id, y)},
                 public |-> policy = "public", shut |-> policy = "private", met |-> met]
           y(x) == [req[x] EXCEPT !.met = IF kind = "move" \/ @ = "move" THEN "move" ELSE "some"]
<1>1. /\ req' = [x \in Req |-> IF x = r THEN z ELSE y(x)]
      /\ tree' = tree /\ pen' = pen /\ req[r].pc = "idle"
  BY DEF Arrive, Keep, Idle, At
<1>2. z.pc = pc /\ z.kind = kind /\ z.met = met OBVIOUS
<1>3. ASSUME NEW x \in Req
      PROVE  /\ y(x).pc = req[x].pc /\ y(x).kind = req[x].kind /\ y(x).p = req[x].p
             /\ y(x).q = req[x].q /\ y(x).body = req[x].body
             /\ y(x).met = IF kind = "move" \/ req[x].met = "move" THEN "move" ELSE "some"
  <2> DEFINE w == req[x]
             v == [w EXCEPT !.met = IF kind = "move" \/ @ = "move" THEN "move" ELSE "some"]
  <2>1. w \in Request BY DEF TypeInv, Requests
  <2> HIDE DEF w
  <2>2. /\ v.pc = w.pc /\ v.kind = w.kind /\ v.p = w.p /\ v.q = w.q /\ v.body = w.body
        /\ v.met = IF kind = "move" \/ w.met = "move" THEN "move" ELSE "some"
    BY <2>1 DEF Request
  <2> HIDE DEF v
  <2> QED BY <2>2 DEF v, w
<1> HIDE DEF z, y
<1>4. req'[r] = z /\ \A x \in Req : x # r => req'[x] = y(x) BY <1>1
<1>5. ASSUME met # "move", NEW x \in Req, req[x].pc # "idle" PROVE req[x].kind # "move"
  BY <1>5 DEF Rest, Idle, At
<1> HIDE DEF met
<1>6. Alone(req')
  <2> SUFFICES ASSUME NEW x \in Req, NEW w \in Req, req'[x].pc # "idle", req'[x].met # "move",
                      w # x, req'[w].pc # "idle"
               PROVE  req'[w].kind # "move"
    BY DEF Alone
  <2>1. CASE x = r
    <3>1. w # r BY <2>1
    <3> QED BY <1>2, <1>3, <1>4, <1>5, <2>1, <3>1
  <2>2. CASE x # r
    <3>1. kind # "move" /\ req[x].met # "move" /\ req[x].pc # "idle" BY <1>3, <1>4, <2>2
    <3>2. CASE w = r BY <1>2, <1>4, <3>1, <3>2
    <3>3. CASE w # r BY <1>3, <1>4, <3>1, <3>3 DEF PartInv, Alone
    <3> QED BY <3>2, <3>3
  <2> QED BY <2>1, <2>2
<1>7. Clean(req'[r], r, tree', pen'[r])
  <2>1. kind = "save" => \A d \in TempsOf(r) : tree[d] = Absent BY DEF Unused, TempsOf
  <2> QED BY <1>1, <1>2, <1>4, <2>1 DEF Clean, Saved
<1>8. ASSUME NEW x \in Req, x # r PROVE Clean(req'[x], x, tree', pen'[x])
  <2>1. Clean(req[x], x, tree, pen[x]) BY DEF PartInv
  <2>2. req'[x] = y(x) BY <1>4, <1>8
  <2> QED BY <1>1, <1>3, <2>1, <2>2 DEF Clean, Saved, Written
<1> QED BY <1>6, <1>7, <1>8 DEF PartInv

LEMMA CallsClean ==
    ASSUME TypeInv, PartInv, NEW r \in Req, NEW cookie \in User \cup {Guest}, NEW p \in Path,
           Call(r, cookie, p)
    PROVE  PartInv'
<1> DEFINE id == Identity(cookie)
<1>1. CASE ReadArrive(r, cookie, p)
  <2> DEFINE pc == IF CanRead(id, p) THEN "open" ELSE "idle"
  <2>1. Arrive(r, "read", id, p, p, Empty, pc) BY <1>1 DEF ReadArrive
  <2>2. pc \in {"open", "idle"} OBVIOUS
  <2> HIDE DEF pc, id
  <2> QED BY <2>1, <2>2, ArriveClean
<1>2. ASSUME NEW kind \in Kind, CreateArrive(r, cookie, kind, p) PROVE PartInv'
  <2> DEFINE pc == IF (id # Guest \/ policy = "public") /\ Free(p) THEN "check" ELSE "idle"
  <2>1. Arrive(r, kind, id, p, p, Empty, pc) /\ kind # "save" BY <1>2 DEF CreateArrive
  <2>2. pc \in {"check", "idle"} OBVIOUS
  <2> HIDE DEF pc, id
  <2> QED BY <2>1, <2>2, ArriveClean
<1>3. ASSUME NEW q \in Path, DeleteArrive(r, cookie, p, q) PROVE PartInv'
  <2> DEFINE pc == IF id # Guest THEN "check" ELSE "idle"
  <2>1. Arrive(r, "delete", id, p, q, Empty, pc) BY <1>3 DEF DeleteArrive
  <2>2. pc \in {"check", "idle"} OBVIOUS
  <2> HIDE DEF pc, id
  <2> QED BY <2>1, <2>2, ArriveClean
<1>4. ASSUME NEW q \in Path, MoveArrive(r, cookie, p, q) PROVE PartInv'
  <2> DEFINE pc == IF id # Guest /\ Free(q) THEN "check" ELSE "idle"
  <2>1. Arrive(r, "move", id, p, q, Empty, pc) BY <1>4 DEF MoveArrive
  <2>2. pc \in {"check", "idle"} OBVIOUS
  <2> HIDE DEF pc, id
  <2> QED BY <2>1, <2>2, ArriveClean
<1>5. ASSUME NEW b \in Body, SaveArrive(r, cookie, p, b) PROVE PartInv'
  <2> DEFINE pc == IF id # Guest /\ Free(p) THEN "check" ELSE "idle"
  <2>1. Arrive(r, "save", id, p, p, b, pc) /\ Unused(r) BY <1>5 DEF SaveArrive
  <2>2. pc \in {"check", "idle"} OBVIOUS
  <2> HIDE DEF pc, id
  <2> QED BY <2>1, <2>2, ArriveClean
<1>6. ASSUME NEW b \in Body, SaveByToken(r, p, b) PROVE PartInv'
  <2> DEFINE pc == IF Free(p) /\ ~Hidden(marks, Guest, p) THEN "stage" ELSE "idle"
  <2>1. Arrive(r, "save", Guest, p, p, b, pc) /\ Unused(r) BY <1>6 DEF SaveByToken
  <2>2. pc \in {"stage", "idle"} OBVIOUS
  <2> HIDE DEF pc
  <2> QED BY <2>1, <2>2, ArriveClean
<1> QED BY <1>1, <1>2, <1>3, <1>4, <1>5, <1>6 DEF Call

LEMMA AroundClean ==
    ASSUME TypeInv, PartInv, Around \/ Crash
    PROVE  PartInv'
<1> DEFINE Kept(r) == /\ req'[r].pc \in {req[r].pc, "idle"} /\ req'[r].p = req[r].p
                      /\ Same(req[r], req'[r])
<1>1. tree' = tree /\ (Crash \/ pen' = pen)
  BY DEF Around, SetPolicy, SetMark, DeleteAccount, Expire, Crash, Keep
<1>2. ASSUME NEW r \in Req PROVE Kept(r) /\ (Crash => req'[r].pc = "idle")
  <2> DEFINE v == req[r]
  <2>1. v \in Request BY DEF TypeInv, Requests
  <2>2. CASE Crash
    <3>1. req'[r] = [v EXCEPT !.pc = "idle", !.todo = {}] BY <2>2 DEF Crash
    <3> HIDE DEF v
    <3>2. req'[r].pc = "idle" /\ req'[r].p = v.p /\ Same(v, req'[r])
      BY <2>1, <3>1 DEF Request, Same
    <3> QED BY <3>2 DEF v
  <2>3. CASE Around
    <3>1. req' = req \/ req' = Lived(policy', marks')
      BY <2>3 DEF Around, SetPolicy, SetMark, DeleteAccount, Expire
    <3>2. CASE req' = req BY <2>2, <3>2 DEF Same
    <3>3. CASE req' = Lived(policy', marks')
      <4>1. req'[r] =
              IF v.pc = "idle" THEN v
              ELSE [v EXCEPT
                      !.shown = @ \cup {p \in {v.p, v.q} : ~Hidden(marks', v.id, p)},
                      !.public = @ \/ policy' = "public",
                      !.shut = @ /\ policy' = "private"]
        BY <3>3 DEF Lived, Idle, At
      <4> HIDE DEF v
      <4>2. req'[r].pc = v.pc /\ req'[r].p = v.p /\ Same(v, req'[r])
        BY <2>1, <4>1 DEF Same, Request
      <4> QED BY <2>2, <4>2 DEF v
    <3> QED BY <2>2, <3>1, <3>2, <3>3
  <2> QED BY <2>2, <2>3
<1>3. Alone(req') BY <1>2, OneAlone DEF PartInv
<1>4. ASSUME NEW r \in Req PROVE Clean(req'[r], r, tree', pen'[r])
  <2>1. CASE Crash BY <1>2, <2>1 DEF Clean, Saved
  <2>2. CASE pen' = pen
    <3>1. Spares(r) /\ Clean(req[r], r, tree, pen[r])
      BY <1>1, <2>2, UntouchedIsSpared DEF PartInv
    <3> QED BY <1>2, <3>1, SparedStaysClean DEF Same
  <2> QED BY <1>1, <2>1, <2>2
<1> QED BY <1>3, <1>4 DEF PartInv

LEMMA PartInit == Init => PartInv
<1> SUFFICES ASSUME Init PROVE PartInv
  OBVIOUS
<1>1. \A r \in Req : req[r].pc = "idle" BY DEF Init
<1> QED BY <1>1 DEF PartInv, Alone, Clean, Saved

LEMMA PartNext == TypeInv /\ TypeInv' /\ PartInv /\ [Next]_vars => PartInv'
<1> SUFFICES ASSUME TypeInv, TypeInv', PartInv, [Next]_vars PROVE PartInv'
  OBVIOUS
<1>1. CASE Around \/ Crash BY <1>1, AroundClean
<1>2. CASE UNCHANGED vars BY <1>2 DEF vars, PartInv
<1> QED BY <1>1, <1>2, StepsClean, CallsClean DEF Next

LEMMA PartInvariance == Spec => [](TypeInv /\ PartInv)
<1>1. Init => TypeInv /\ PartInv BY TypeInit, PartInit
<1>2. (TypeInv /\ PartInv) /\ [Next]_vars => (TypeInv /\ PartInv)' BY TypeNext, PartNext
<1> QED BY <1>1, <1>2, PTL DEF Spec

\* An incomplete file comes to be by a step of whoever is to blame for it.
CutsHaveCause == \A x \in Path : Cut(x) => \E r \in Req : Cause(r, x)

LEMMA CutsAreCaused ==
    ASSUME TypeInv, TypeInv', PartInv, [Next]_vars
    PROVE  CutsHaveCause
<1>1. ASSUME NEW r \in Req, Continue(r) \/ Broken(r) PROVE CutsHaveCause
  BY <1>1, StepsSound DEF Sound, CutsHaveCause
<1>2. ASSUME tree' = tree PROVE CutsHaveCause
  BY <1>2 DEF CutsHaveCause, Cut
<1>3. CASE Around \/ Crash
  BY <1>2, <1>3 DEF Around, SetPolicy, SetMark, DeleteAccount, Expire, Crash, Keep
<1>4. ASSUME NEW r \in Req, NEW cookie \in User \cup {Guest}, NEW p \in Path, Call(r, cookie, p)
      PROVE  CutsHaveCause
  BY <1>2, <1>4, CallsWell
<1>5. CASE UNCHANGED vars BY <1>2, <1>5 DEF vars
<1> QED BY <1>1, <1>3, <1>4, <1>5 DEF Next

-----------------------------------------------------------------------------
(* Files that go away *)

LEMMA Smallest ==
    ASSUME NEW T \in SUBSET Nat, T # {}
    PROVE  \E n \in T : \A m \in T : n <= m
<1> DEFINE Less == OpToRel(<, Nat)
<1>1. PICK n \in T : \A m \in T : <<m, n>> \notin Less
  <2> HIDE DEF Less
  <2>1. IsWellFoundedOn(Less, Nat) BY NatLessThanWellFounded DEF Less
  <2> QED BY <2>1, WFMin
<1>2. ASSUME NEW m \in T PROVE ~(m < n) BY <1>1 DEF OpToRel
<1> QED BY <1>2

\* Between a path and an entry below it there are directories all the way.
LEMMA WayDown ==
    ASSUME NEW t, IsTree(t), NEW d \in Any, d # <<>>, NEW w \in Name, t[w] # Absent,
           Under(d, w), d # w
    PROVE  t[d] = Dir /\ \E c \in Children(t, d) : Under(c, w)
<1> DEFINE Between(y) == y \in Name /\ t[y] # Absent /\ Under(d, y) /\ d # y /\ Under(y, w)
           T == {Len(y) : y \in {v \in Name : Between(v)}}
<1>1. \A y \in Name : y \in Any /\ y # <<>> /\ Len(y) \in Nat
  BY NamesAreAny, LenProperties DEF Any
<1>2. Between(w) BY <1>1, UnderOrder
<1>3. PICK c \in Name : Between(c) /\ \A y \in Name : Between(y) => Len(c) <= Len(y)
  <2>1. T \in SUBSET Nat /\ T # {} BY <1>1, <1>2
  <2>2. PICK n \in T : \A m \in T : n <= m BY <2>1, Smallest
  <2> QED BY <2>2
<1> DEFINE u == Parent(c)
<1>4. /\ c \in Any /\ c # <<>> /\ u \in Any /\ Under(u, c) /\ u # c /\ Under(d, u)
      /\ Len(u) = Len(c) - 1 /\ Len(c) \in Nat /\ Under(u, w)
  <2>1. c \in Any /\ c # <<>> /\ Len(c) \in Nat /\ w \in Any BY <1>1
  <2>2. u \in Any /\ Len(u) = Len(c) - 1 /\ Under(u, c) /\ u # c /\ Under(d, u)
    BY <1>3, <2>1, ParentIs, UnderParent
  <2> QED BY <1>3, <2>1, <2>2, UnderOrder
<1>5. u # <<>>
  <2>1. <<>> \in Any /\ Under(<<>>, d) BY UnderOrder, EmptySeq DEF Any
  <2> QED BY <1>4, <2>1, UnderOrder
<1>6. u \in Name /\ t[u] = Dir
  <2>1. u \in Path BY <1>3, <1>5, NamesAreAny
  <2> QED BY <1>3, <1>5, <2>1, PathsAreNames DEF IsTree, IsDir
<1>7. u = d
  <2> SUFFICES ASSUME u # d PROVE FALSE
    OBVIOUS
  <2>1. Between(u) BY <1>4, <1>6, EntryAssumption
  <2>2. Len(c) <= Len(u) BY <1>3, <1>6, <2>1
  <2> QED BY <1>4, <2>2
<1>8. c \in Children(t, d) /\ Under(c, w) BY <1>3, <1>7 DEF Children
<1> QED BY <1>6, <1>7, <1>8

\* Nothing is below both of two paths neither of which is below the other.
LEMMA ApartStays ==
    ASSUME NEW p \in Any, NEW q \in Any, ~Under(p, q), ~Under(q, p), NEW w \in Any
    PROVE  ~(Under(p, w) /\ Under(q, w))
<1>1. Len(p) \in Nat /\ Len(q) \in Nat BY LenProperties DEF Any
<1> QED BY <1>1, UnderOrder

\* Making directories changes no file.
LEMMA MakingKeepsFiles ==
    ASSUME TypeInv, NEW to \in Name, Reachable(tree, to), NEW x \in Name
    PROVE  LET t == Reached(tree, to)
           IN  IsFile(tree, x) \/ IsFile(t, x) => t[x] = tree[x]
BY ReachGrows, ReachCloses, EntryAssumption DEF TypeInv, IsFile

\* Whoever has met nobody has nobody beside it.
Sole(rq) ==
    \A r, y \in Req :
        rq[r].pc # "idle" /\ rq[r].met = "none" /\ y # r => rq[y].pc = "idle"

\* What is complete below the destination is a copy.
Faithful(z, t) ==
    \A w \in Name : Under(z.q, w) /\ IsFile(t, w) /\ t[w].whole =>
        Rebase(w, z.q, z.p) \in Name /\ t[Rebase(w, z.q, z.p)] = t[w]

\* Every file that is moved is still to come, is being copied, or has been.
Left(z, t, h) ==
    \A w \in Name : Under(z.p, w) /\ IsFile(t, w) =>
        \/ \E d \in z.todo : Under(d, w)
        \/ z.pc = "pour" /\ h = Rebase(w, z.p, z.q)
        \/ t[Rebase(w, z.p, z.q)] = t[w]

\* The copy that is being written is incomplete, and what it will hold is its source.
Held(z, t, h) ==
    /\ h \in Name /\ Under(z.q, h) /\ IsFile(t, h) /\ ~t[h].whole
    /\ Rebase(h, z.q, z.p) \in Name /\ t[Rebase(h, z.q, z.p)] = z.item

Apart(z) == ~Under(z.p, z.q) /\ ~Under(z.q, z.p)

\* A move that has met nobody, from the rename on.
Careful(z, t, h) ==
    z.met = "none" /\ z.kind = "move" =>
        /\ z.pc = "rename" => t[z.q] = Absent
        /\ z.pc \in {"copy", "pour", "undo"} => Apart(z) /\ Faithful(z, t)
        /\ z.pc \in {"copy", "pour"} => Left(z, t, h)
        /\ z.pc = "pour" => Held(z, t, h)

LoneInv == Sole(req) /\ \A r \in Req : Careful(req[r], tree, pen[r])

\* A whole file goes away from x.
Lost(x) == IsFile(tree, x) /\ tree[x].whole /\ tree'[x] # tree[x]

\* Who may take it.
Taken(r, x) ==
    /\ ~Idle(r) /\ Steps(r)
    /\ \/ req[r].kind = "delete" /\ Under(req[r].p, x)
       \/ /\ req[r].kind = "save"
          /\ x = req[r].p
          /\ tree'[x] = Written(req[r]) \/ req[r].met = "move"
       \/ /\ req[r].kind = "move"
          /\ IF req[r].met = "none"
             THEN \/ /\ Under(req[r].p, x)
                     /\ tree'[Rebase(x, req[r].p, req[r].q)] = tree[x]
                  \/ /\ Under(req[r].q, x)
                     /\ tree'[Rebase(x, req[r].q, req[r].p)] = tree[x]
             ELSE Under(req[r].p, x) \/ Under(req[r].q, x) \/ x = pen[r]

Gentle(y) ==
    /\ Careful(req'[y], tree', pen'[y])
    /\ \A x \in Path : Lost(x) => Taken(y, x)

\* Of a request that is no move, or at a step of no interest, nothing is asked.
LEMMA IdlyCareful ==
    ASSUME NEW z, NEW t, NEW h,
           z.kind # "move" \/ z.met # "none" \/ z.pc \notin {"rename", "copy", "pour", "undo"}
    PROVE  Careful(z, t, h)
BY DEF Careful

LEMMA QuietGentle ==
    ASSUME TypeInv, TypeInv', LoneInv, NEW y \in Req,
           \/ ReadOpen(y) \/ Check(y) \/ DeleteLook(y) \/ DeletePurge(y)
           \/ MoveLook(y) \/ MoveStat(y) \/ MoveRelabel(y) \/ CopyBroken(y)
           \/ \E x \in Name : CopyFails(y, x)
    PROVE  Gentle(y)
<1> DEFINE z == req[y]
<1>1. tree' = tree
  BY DEF ReadOpen, Check, DeleteLook, DeletePurge, MoveLook, MoveStat, MoveRelabel, CopyFails,
         CopyBroken, Keep
<1>2. /\ z.pc # "idle" /\ Same(z, req'[y]) /\ (req'[y].p = z.p \/ z.kind = "delete")
      /\ FitFor(z, z.pc) /\ FitFor(req'[y], req'[y].pc) /\ z \in Request
  BY OwnSteps DEF Continue, Broken, TypeInv, Requests, WellFormed
<1>3. Careful(z, tree, pen[y]) BY DEF LoneInv
<1>4. CASE MoveLook(y)
  <2>1. req'[y].pc = "rename" => tree[z.q] = Absent
    BY <1>4, PcIs DEF MoveLook
  <2>2. req'[y].pc \in {"idle", "rename"} BY <1>4, PcIs DEF MoveLook
  <2> QED BY <1>1, <1>2, <2>1, <2>2 DEF Gentle, Careful, Lost, Same
<1>5. CASE CopyBroken(y) \/ \E x \in Name : CopyFails(y, x)
  <2>1. req'[y].pc = "undo" /\ z.pc \in {"copy", "pour"}
    BY <1>5, PcIs DEF CopyBroken, CopyFails, CopyNext, At
  <2>2. z.kind = "move" BY <1>2, <2>1 DEF FitFor
  <2>3. req'[y].p = z.p /\ req'[y].q = z.q /\ req'[y].met = z.met
    BY <1>2, <2>2 DEF Same
  <2>4. z.met = "none" => Apart(req'[y]) /\ Faithful(req'[y], tree')
    BY <1>1, <1>3, <2>1, <2>2, <2>3 DEF Careful, Apart, Faithful
  <2> QED BY <1>1, <2>1, <2>3, <2>4 DEF Gentle, Careful, Lost
<1>6. CASE ReadOpen(y) \/ Check(y) \/ DeleteLook(y) \/ MoveStat(y)
  <2>1. req'[y].pc \in {"idle", "remove", "relabel"} \cup {First(z.kind)}
    BY <1>6, PcIs DEF ReadOpen, Check, DeleteLook, MoveStat
  <2>2. First(z.kind) \in {"make", "stage", "look"} \/ ~Check(y)
    <3>1. z.kind \in Kind BY <1>2 DEF Request
    <3>2. Check(y) => z.kind # "read" BY <1>2 DEF Check, At, FitFor
    <3> QED BY <3>1, <3>2 DEF First, Kind
  <2>3. ~Check(y) => req'[y].pc \in {"idle", "remove", "relabel"}
    BY <1>6, PcIs DEF ReadOpen, DeleteLook, MoveStat
  <2>4. req'[y].pc \notin {"rename", "copy", "pour", "undo"} BY <2>1, <2>2, <2>3
  <2> QED BY <1>1, <2>4, IdlyCareful DEF Gentle, Lost
<1>7. CASE DeletePurge(y)
  <2>1. z.kind = "delete" BY <1>2, <1>7 DEF DeletePurge, At, FitFor
  <2> QED BY <1>1, <1>2, <2>1, IdlyCareful DEF Gentle, Lost, Same
<1>8. CASE MoveRelabel(y)
  <2>1. Requests(Lived(policy, marks')) BY LivedWell DEF TypeInv
  <2> DEFINE w == Lived(policy, marks')[y]
  <2>2. w \in Request /\ req'[y] = [w EXCEPT !.pc = "idle", !.code = "ok"]
    BY <1>8, <2>1 DEF MoveRelabel, Requests
  <2> HIDE DEF w
  <2>3. req'[y].pc = "idle" BY <2>2 DEF Request
  <2> QED BY <1>1, <2>3, IdlyCareful DEF Gentle, Lost
<1> QED BY <1>4, <1>5, <1>6, <1>7, <1>8

\* Whoever has no move under way and takes no file away is gentle.
LEMMA HarmlessGentle ==
    ASSUME TypeInv, NEW y \in Req, Continue(y) \/ Broken(y),
           req[y].kind # "move" \/ req'[y].pc \notin {"rename", "copy", "pour", "undo"},
           \A x \in Path : ~Lost(x)
    PROVE  Gentle(y)
<1>1. Same(req[y], req'[y]) BY OwnSteps
<1>2. Careful(req'[y], tree', pen'[y]) BY <1>1, IdlyCareful DEF Same
<1> QED BY <1>2 DEF Gentle

LEMMA MakeGentle ==
    ASSUME TypeInv, NEW y \in Req, MakeDir(y) \/ MakeFile(y)
    PROVE  Gentle(y)
<1> DEFINE p == req[y].p
<1>1. p \in Name /\ req'[y].pc = "idle" /\ IsTree(tree)
  BY PcIs, PathsAreNames DEF TypeInv, Requests, Request, MakeDir, MakeFile
<1>2. \/ tree' = tree
      \/ /\ Reachable(tree, p) /\ ~IsFile(tree, p)
         /\ \E e : tree' = Put(Reached(tree, p), p, e)
  BY EntryAssumption DEF MakeDir, MakeFile, IsFile
<1>3. ASSUME NEW x \in Path, Lost(x) PROVE FALSE
  <2>1. x \in Name /\ IsFile(tree, x) /\ tree'[x] # tree[x] BY <1>3, PathsAreNames DEF Lost
  <2>2. x # p BY <1>2, <2>1
  <2>3. Reached(tree, p)[x] = tree[x] BY <1>1, <1>2, <2>1, MakingKeepsFiles
  <2> QED BY <1>1, <1>2, <2>1, <2>2, <2>3 DEF Put, Reached
<1> QED BY <1>1, <1>3, HarmlessGentle DEF Continue

LEMMA DeletionGentle ==
    ASSUME TypeInv, NEW y \in Req, DeleteTree(y)
    PROVE  Gentle(y)
<1>1. /\ req[y].kind = "delete" /\ req[y].pc = "remove" /\ req'[y].pc = "purge"
      /\ tree' = Without(tree, req[y].p) /\ Same(req[y], req'[y])
  BY PcIs, OwnSteps DEF DeleteTree, Remove, At, TypeInv, Requests, WellFormed, FitFor, Continue
<1>2. Careful(req'[y], tree', pen'[y]) BY <1>1, IdlyCareful
<1>3. ASSUME NEW x \in Path, Lost(x) PROVE Taken(y, x)
  BY <1>1, <1>3, PathsAreNames DEF Lost, Without, Taken, Idle, At, Steps
<1> QED BY <1>2, <1>3 DEF Gentle

\* The temporary file of a save is in the way of nothing that can be put in its place.
LEMMA SaveGentle ==
    ASSUME TypeInv, TypeInv', PartInv, NEW y \in Req,
           SaveStage(y) \/ SaveBody(y) \/ SaveBroken(y) \/ SavePlace(y)
    PROVE  Gentle(y)
<1> DEFINE z == req[y]
           p == z.p
           T == Temp(p, y)
<1>1. /\ z \in Request /\ p \in Path /\ p \in Name /\ p \in Any /\ p # <<>>
      /\ z.kind = "save" /\ Same(z, req'[y])
      /\ IsTree(tree) /\ PensOK(tree, pen)
  <2>1. WellFormed(z) /\ z.pc \in {"stage", "body", "place"}
    BY DEF TypeInv, Requests, SaveStage, SaveBody, SaveBroken, SavePlace, At
  <2>2. z \in Request /\ p \in Path /\ z.kind = "save"
    BY <2>1 DEF WellFormed, FitFor, Request
  <2> QED BY <2>1, <2>2, OwnSteps, PathsAreNames, NamesAreAny DEF Continue, Broken, TypeInv
<1>2. /\ T \in TempsOf(y) /\ T \in Name /\ T \notin Path /\ T # Absent /\ T \in Any
      /\ \A d \in TempsOf(y) : d \notin Path
  BY <1>1, TempsDiffer, Temps DEF TempsOf
<1>3. \A x \in Name : Under(T, x) => x = T BY <1>1, TempsAreLeaves
<1>4. (\A x \in Path : ~Lost(x)) => Gentle(y)
  BY <1>1, HarmlessGentle DEF Continue, Broken
<1>5. CASE SaveStage(y)
  <2>1. CASE tree' = tree BY <1>4, <2>1 DEF Lost
  <2>2. CASE Reachable(tree, p) /\ OpenFor(y, Reached(tree, p), T, z.body)
    <3>1. ASSUME NEW x \in Path, Lost(x) PROVE FALSE
      <4>1. x \in Name /\ x # T BY <1>2, PathsAreNames
      <4>2. Reached(tree, p)[x] = tree[x]
        BY <1>1, <2>2, <3>1, <4>1, MakingKeepsFiles DEF Lost
      <4>3. tree'[x] = Reached(tree, p)[x] BY <2>2, <4>1 DEF OpenFor, Put, Reached
      <4> QED BY <3>1, <4>2, <4>3 DEF Lost
    <3> QED BY <1>4, <3>1
  <2> QED BY <1>5, <2>1, <2>2 DEF SaveStage, Keep
<1>6. CASE SaveBody(y)
  <2>1. pen[y] # Absent => pen[y] \in TempsOf(y) BY <1>1, Beside
  <2>2. ASSUME NEW x \in Path PROVE ~Lost(x)
    <3>1. x \in Name /\ x # pen[y] BY <1>1, <1>2, <2>1, PathsAreNames, NamesAreAny
    <3> QED BY <1>1, <1>6, <3>1 DEF SaveBody, Fill, Put, IsTree, Lost
  <2> QED BY <1>4, <2>2
<1>7. CASE tree' = Without(tree, T)
  <2>1. ASSUME NEW x \in Path PROVE ~Lost(x)
    <3>1. x \in Name /\ ~Under(T, x) BY <1>2, <1>3, PathsAreNames
    <3> QED BY <1>7, <3>1 DEF Without, Lost
  <2> QED BY <1>4, <2>1
<1>8. CASE SavePlace(y) /\ Renamable(tree, T, p) /\ tree' = Renamed(tree, T, p)
  <2>1. /\ req'[y].pc = "idle" /\ z.pc = "place"
    BY <1>8, PcIs DEF SavePlace, At
  <2>2. Careful(req'[y], tree', pen'[y]) BY <2>1, IdlyCareful
  <2>3. ASSUME NEW x \in Path, Lost(x) PROVE Taken(y, x)
    <3>1. /\ x \in Name /\ x \in Any /\ ~Under(T, x) /\ tree[x] # Absent
          /\ tree'[x] # tree[x]
      BY <1>2, <1>3, <2>3, PathsAreNames, NamesAreAny, EntryAssumption DEF Lost, IsFile
    <3>2. Under(p, x) BY <1>8, <3>1 DEF Renamed
    <3>3. tree[T] # Absent /\ tree[T] # Dir
      BY <1>1, <1>2, <1>8 DEF Renamable, IsTree
    <3>4. x = p
      <4> SUFFICES ASSUME x # p PROVE FALSE
        OBVIOUS
      <4>1. tree[p] = Dir /\ Children(tree, p) # {}
        BY <1>1, <3>1, <3>2, WayDown
      <4> QED BY <1>8, <3>3, <4>1, EntryAssumption DEF Renamable, IsFile
    <3>5. tree'[x] = tree[T]
      <4>1. Under(p, p) BY <1>1, UnderOrder
      <4>2. Rebase(p, p, T) = T BY <1>1, <1>2, <4>1, RebaseBack
      <4> QED BY <1>1, <1>2, <1>8, <3>4, <4>1, <4>2 DEF Renamed
    <3>6. z.met = "move" \/ tree'[x] = Written(z)
      BY <1>1, <2>1, <3>3, <3>5 DEF PartInv, Clean, Saved
    <3> QED BY <1>1, <2>1, <3>4, <3>6 DEF Taken, Idle, At, Steps
  <2> QED BY <2>2, <2>3 DEF Gentle
<1> QED BY <1>5, <1>6, <1>7, <1>8 DEF SaveBroken, GiveUp, SavePlace, Remove, Rename

LEMMA NothingBelow ==
    ASSUME NEW t, IsTree(t), NEW d \in Name, t[d] = Absent, NEW w \in Name, Under(d, w)
    PROVE  t[w] = Absent
BY NamesAreAny, WayDown, EntryAssumption

\* What is at a step of a move.
LEMMA MoveFacts ==
    ASSUME TypeInv, LoneInv, NEW y \in Req, req[y].kind = "move"
    PROVE  LET z == req[y]
           IN  /\ z \in Request /\ z.p \in Path /\ z.q \in Path /\ z.p \in Name /\ z.q \in Name
               /\ z.p \in Any /\ z.q \in Any
               /\ Fits(z.p, z.q) /\ FitFor(z, z.pc) /\ IsTree(tree)
               /\ Careful(z, tree, pen[y])
<1> DEFINE z == req[y]
<1>1. WellFormed(z) BY DEF TypeInv, Requests
<1>2. z \in Request /\ z.p \in Path /\ z.q \in Path BY <1>1 DEF WellFormed, Request
<1> QED BY <1>1, <1>2, PathsAreNames, NamesAreAny DEF TypeInv, LoneInv, WellFormed

\* The two ends of a move that has met nobody are apart, and so are the entries below.
LEMMA RebasedAway ==
    ASSUME NEW p \in Any, NEW q \in Any, ~Under(p, q), ~Under(q, p), NEW w \in Any, Under(p, w)
    PROVE  /\ Under(q, Rebase(w, p, q)) /\ ~Under(p, Rebase(w, p, q))
           /\ Rebase(Rebase(w, p, q), q, p) = w /\ ~Under(q, w)
BY RebaseIs, RebaseBack, ApartStays

LEMMA RenameGentle ==
    ASSUME TypeInv, TypeInv', LoneInv, NEW y \in Req, MoveRename(y)
    PROVE  Gentle(y)
<1> DEFINE z == req[y]
           from == z.p
           to == z.q
           t == Reached(tree, to)
<1>1. z.kind = "move" /\ z.pc = "rename" /\ Same(z, req'[y]) /\ req'[y].p = z.p
  BY OwnSteps DEF MoveRename, At, TypeInv, Requests, WellFormed, FitFor, Continue
<1>2. /\ z \in Request /\ from \in Path /\ to \in Path /\ from \in Name /\ to \in Name
      /\ from \in Any /\ to \in Any
      /\ Fits(from, to) /\ ~Under(from, to) /\ IsTree(tree)
      /\ z.met = "none" => tree[to] = Absent
  BY <1>1, MoveFacts DEF FitFor, Careful
<1>3. ASSUME Reachable(tree, to)
      PROVE  /\ IsTree(t) /\ t[to] = tree[to]
             /\ \A x \in Name : IsFile(tree, x) => t[x] = tree[x]
  BY <1>2, <1>3, ReachCloses, MakingKeepsFiles
<1>4. CASE tree' \in {tree, t} /\ (tree' = tree \/ Reachable(tree, to)) /\ Answer(y, "refused")
  <2>1. ASSUME NEW x \in Path PROVE ~Lost(x)
    BY <1>3, <1>4, PathsAreNames DEF Lost
  <2> QED BY <1>4, <2>1, PcIs, HarmlessGentle DEF Continue
<1>5. CASE /\ Reachable(tree, to) /\ Renamable(t, from, to) /\ tree' = t
           /\ req' = [req EXCEPT ![y].pc = "copy", ![y].todo = {from}]
  <2>1. req'[y].pc = "copy" /\ req'[y].todo = {from}
    <3>1. req'[y] = [z EXCEPT !.pc = "copy", !.todo = {from}]
      BY <1>5 DEF TypeInv, Requests
    <3> HIDE DEF z, from
    <3> QED BY <1>2, <3>1 DEF Request
  <2>2. ASSUME z.met = "none"
        PROVE  Apart(z) /\ Faithful(z, t) /\ Left(req'[y], t, pen'[y])
    <3>1. \A w \in Name : Under(to, w) => t[w] = Absent
      BY <1>2, <1>3, <1>5, <2>2, NothingBelow
    <3>2. Apart(z) BY <1>2, <1>5, <3>1 DEF Apart, Renamable
    <3>3. Faithful(z, t) BY <3>1, EntryAssumption DEF Faithful, IsFile
    <3>4. Left(req'[y], t, pen'[y]) BY <1>1, <2>1 DEF Left
    <3> QED BY <3>2, <3>3, <3>4
  <2>3. ASSUME NEW x \in Path PROVE ~Lost(x)
    BY <1>3, <1>5, PathsAreNames DEF Lost
  <2> QED BY <1>1, <1>5, <2>1, <2>2, <2>3 DEF Gentle, Careful, Same, Apart, Faithful
<1>6. CASE /\ Reachable(tree, to) /\ tree' = Renamed(t, from, to) /\ Goto(y, "stat")
  <2>1. req'[y].pc = "stat" BY <1>6, PcIs
  <2>2. Careful(req'[y], tree', pen'[y]) BY <2>1, IdlyCareful
  <2>3. ASSUME NEW x \in Path, Lost(x) PROVE Taken(y, x)
    <3>1. /\ x \in Name /\ x \in Any /\ t[x] = tree[x] /\ tree[x] # Absent
          /\ tree'[x] # tree[x]
      BY <1>3, <1>6, <2>3, PathsAreNames, NamesAreAny, EntryAssumption DEF Lost, IsFile
    <3>2. Under(from, x) \/ Under(to, x) BY <1>6, <3>1 DEF Renamed
    <3>3. Steps(y) /\ ~Idle(y) BY <1>1, <2>1 DEF Steps, Idle, At
    <3>4. CASE z.met = "none"
      <4>1. Under(from, x) BY <1>2, <3>1, <3>2, <3>4, NothingBelow
      <4> DEFINE w == Rebase(x, from, to)
      <4>2. w \in Name /\ Under(to, w) /\ Rebase(w, to, from) = x
        BY <1>2, <3>1, <4>1, RebaseBack DEF Fits
      <4>3. tree'[w] = tree[x] BY <1>6, <3>1, <4>2 DEF Renamed
      <4> QED BY <1>1, <3>3, <3>4, <4>1, <4>3 DEF Taken
    <3> QED BY <1>1, <3>2, <3>3, <3>4 DEF Taken
  <2> QED BY <2>2, <2>3 DEF Gentle
<1> QED BY <1>4, <1>5, <1>6 DEF MoveRename, Keep

\* Neither a copy that is removed nor an original of which there is one is lost.
LEMMA CopyEndsGentle ==
    ASSUME TypeInv, LoneInv, NEW y \in Req, CopyUndo(y) \/ CopyDone(y)
    PROVE  Gentle(y)
<1> DEFINE z == req[y]
<1>1. /\ z.kind = "move" /\ z.pc \in {"undo", "copy"} /\ req'[y].pc \in {"idle", "stat"}
      /\ ~Idle(y) /\ Steps(y)
  <2>1. z.pc \in {"undo", "copy"} /\ req'[y].pc \in {"idle", "stat"}
    BY PcIs DEF CopyUndo, CopyDone, At
  <2>2. z.kind = "move" BY <2>1 DEF TypeInv, Requests, WellFormed, FitFor
  <2> QED BY <2>1, <2>2 DEF Idle, At, Steps
<1>2. Careful(req'[y], tree', pen'[y]) BY <1>1, IdlyCareful
<1>3. /\ z.p \in Any /\ z.q \in Any /\ Fits(z.p, z.q) /\ Careful(z, tree, pen[y])
  BY <1>1, MoveFacts
<1>4. ASSUME NEW x \in Path, Lost(x) PROVE Taken(y, x)
  <2>1. x \in Name /\ x \in Any /\ IsFile(tree, x) /\ tree[x].whole /\ tree'[x] # tree[x]
    BY <1>4, PathsAreNames, NamesAreAny DEF Lost
  <2>2. CASE CopyUndo(y)
    <3>1. Under(z.q, x) /\ tree' = Without(tree, z.q) /\ z.pc = "undo"
      BY <2>1, <2>2 DEF CopyUndo, Remove, Without, At
    <3>2. CASE z.met = "none"
      <4> DEFINE w == Rebase(x, z.q, z.p)
      <4>1. Apart(z) /\ Faithful(z, tree) BY <1>1, <1>3, <3>1, <3>2 DEF Careful
      <4>2. w \in Name /\ tree[w] = tree[x] BY <2>1, <3>1, <4>1 DEF Faithful
      <4>3. ~Under(z.q, w) BY <1>3, <2>1, <3>1, <4>1, RebasedAway DEF Apart
      <4>4. tree'[w] = tree[x] BY <3>1, <4>2, <4>3 DEF Without
      <4> QED BY <1>1, <3>1, <3>2, <4>4 DEF Taken
    <3> QED BY <1>1, <3>1, <3>2 DEF Taken
  <2>3. CASE CopyDone(y)
    <3>1. Under(z.p, x) /\ tree' = Without(tree, z.p) /\ z.pc = "copy" /\ z.todo = {}
      BY <2>1, <2>3 DEF CopyDone, Remove, Without, At
    <3>2. CASE z.met = "none"
      <4> DEFINE w == Rebase(x, z.p, z.q)
      <4>1. Apart(z) /\ Left(z, tree, pen[y]) BY <1>1, <1>3, <3>1, <3>2 DEF Careful
      <4>2. w \in Name /\ tree[w] = tree[x] BY <1>3, <2>1, <3>1, <4>1 DEF Left, Fits
      <4>3. ~Under(z.p, w) BY <1>3, <2>1, <3>1, <4>1, RebasedAway DEF Apart
      <4>4. tree'[w] = tree[x] BY <3>1, <4>2, <4>3 DEF Without
      <4> QED BY <1>1, <3>1, <3>2, <4>4 DEF Taken
    <3> QED BY <1>1, <3>1, <3>2 DEF Taken
  <2> QED BY <2>2, <2>3
<1> QED BY <1>2, <1>4 DEF Gentle

\* A directory of a copy is made: no file changes, and its entries are to come.
LEMMA CopyDirGentle ==
    ASSUME TypeInv, LoneInv, NEW y \in Req, NEW x \in Name, CopyDir(y, x)
    PROVE  Gentle(y)
<1> DEFINE z == req[y]
           to == CopyTo(y, x)
<1>1. /\ z.kind = "move" /\ z.pc = "copy" /\ x \in z.todo /\ Same(z, req'[y]) /\ req'[y].p = z.p
      /\ tree[x] = Dir /\ Reachable(tree, to) /\ tree[to] \in {Absent, Dir}
      /\ tree' = Put(Reached(tree, to), to, Dir) /\ pen' = pen
  BY OwnSteps, NamesAreAny DEF CopyDir, CanCopyDir, CopyNext, At, IsDir, TypeInv, Requests,
                               WellFormed, FitFor, Continue
<1>2. /\ z \in Request /\ z.p \in Any /\ z.q \in Any /\ Fits(z.p, z.q) /\ FitFor(z, z.pc)
      /\ IsTree(tree) /\ Careful(z, tree, pen[y])
  BY <1>1, MoveFacts
<1>3. to \in Name BY <1>1, <1>2 DEF Fits, FitFor, CopyTo
<1> HIDE DEF to
<1>4. ASSUME NEW w \in Name, IsFile(tree, w) \/ IsFile(tree', w)
      PROVE  tree'[w] = tree[w]
  <2>1. Reached(tree, to) \in [Name -> Entry] BY <1>1, <1>2, <1>3, ReachCloses DEF IsTree
  <2>2. w # to BY <1>1, <1>3, <1>4, <2>1, EntryAssumption DEF IsFile, Put
  <2>3. tree'[w] = Reached(tree, to)[w] BY <1>1, <2>1, <2>2 DEF Put
  <2> QED BY <1>1, <1>3, <1>4, <2>3, MakingKeepsFiles DEF IsFile
<1>5. req'[y].pc = "copy" /\ req'[y].todo = (z.todo \ {x}) \cup Children(tree, x)
  <2>1. req'[y] = [z EXCEPT !.todo = (z.todo \ {x}) \cup Children(tree, x)]
    BY DEF CopyDir, TypeInv, Requests
  <2> HIDE DEF z
  <2> QED BY <1>1, <1>2, <2>1 DEF Request
<1>6. ASSUME z.met = "none"
      PROVE  Apart(z) /\ Faithful(z, tree') /\ Left(req'[y], tree', pen'[y])
  <2>1. Apart(z) /\ Faithful(z, tree) /\ Left(z, tree, pen[y])
    BY <1>1, <1>2, <1>6 DEF Careful
  <2>2. Faithful(z, tree')
    <3> SUFFICES ASSUME NEW w \in Name, Under(z.q, w), IsFile(tree', w), tree'[w].whole
                 PROVE  LET v == Rebase(w, z.q, z.p)
                        IN  v \in Name /\ tree'[v] = tree'[w]
      BY DEF Faithful
    <3> DEFINE v == Rebase(w, z.q, z.p)
    <3>1. tree'[w] = tree[w] BY <1>4
    <3>2. v \in Name /\ tree[v] = tree[w] BY <2>1, <3>1 DEF Faithful, IsFile
    <3>3. tree'[v] = tree[v] BY <1>4, <3>1, <3>2 DEF IsFile
    <3> QED BY <3>1, <3>2, <3>3
  <2>3. Left(req'[y], tree', pen'[y])
    <3> SUFFICES ASSUME NEW w \in Name, Under(z.p, w), IsFile(tree', w)
                 PROVE  \/ \E d \in req'[y].todo : Under(d, w)
                        \/ tree'[Rebase(w, z.p, z.q)] = tree'[w]
      BY <1>1 DEF Left, Same
    <3> DEFINE v == Rebase(w, z.p, z.q)
    <3>1. tree'[w] = tree[w] /\ IsFile(tree, w) BY <1>4 DEF IsFile
    <3>2. CASE tree[v] = tree[w]
      <4>1. v \in Name BY <1>2 DEF Fits
      <4> QED BY <1>4, <3>1, <3>2, <4>1 DEF IsFile
    <3>3. CASE \E d \in z.todo : Under(d, w)
      <4>1. PICK d \in z.todo : Under(d, w) BY <3>3
      <4>2. CASE d # x BY <1>5, <4>1, <4>2
      <4>3. CASE d = x
        <5>1. x # w /\ tree[w] # Absent BY <1>1, <3>1, EntryAssumption DEF IsFile
        <5>2. \E c \in Children(tree, x) : Under(c, w)
          BY <1>2, <4>1, <4>3, <5>1, NamesAreAny, WayDown
        <5> QED BY <1>5, <5>2
      <4> QED BY <4>2, <4>3
    <3> QED BY <1>1, <2>1, <3>1, <3>2, <3>3 DEF Left
  <2> QED BY <2>1, <2>2, <2>3
<1>7. Careful(req'[y], tree', pen'[y])
  BY <1>1, <1>5, <1>6 DEF Careful, Same, Apart, Faithful
<1>8. \A v \in Path : ~Lost(v) BY <1>4, PathsAreNames DEF Lost
<1> QED BY <1>7, <1>8 DEF Gentle

\* A copy is begun: what was there complete is there at its source as well.
LEMMA CopyFileGentle ==
    ASSUME TypeInv, LoneInv, NEW y \in Req, NEW x \in Name, CopyFile(y, x)
    PROVE  Gentle(y)
<1> DEFINE z == req[y]
           to == CopyTo(y, x)
           e == Part(tree[x].body)
<1>1. /\ z.kind = "move" /\ z.pc = "copy" /\ x \in z.todo /\ Same(z, req'[y]) /\ req'[y].p = z.p
      /\ IsFile(tree, x) /\ tree' = Put(tree, to, e) /\ pen' = [pen EXCEPT ![y] = to]
  BY OwnSteps DEF CopyFile, OpenFor, CanCopyFile, CopyNext, At, TypeInv, Requests, WellFormed,
                  FitFor, Continue
<1>2. /\ z \in Request /\ z.p \in Any /\ z.q \in Any /\ Fits(z.p, z.q) /\ FitFor(z, z.pc)
      /\ IsTree(tree) /\ Careful(z, tree, pen[y])
  BY <1>1, MoveFacts
<1>3. to \in Name /\ Under(z.p, x) /\ Under(z.q, to) /\ Rebase(to, z.q, z.p) = x
      /\ x \in Any /\ to \in Any
  <2>1. Under(z.p, x) /\ x \in Any BY <1>1, <1>2, NamesAreAny DEF FitFor
  <2>2. to \in Name BY <1>2, <2>1 DEF Fits, CopyTo
  <2>3. Under(z.q, to) /\ Rebase(to, z.q, z.p) = x BY <1>2, <2>1, RebaseBack DEF CopyTo
  <2> HIDE DEF to
  <2> QED BY <2>1, <2>2, <2>3, NamesAreAny
<1>4. ~e.whole /\ e \in Content
  <2>1. tree[x].body \in Body BY <1>1 DEF IsFile, Content
  <2> QED BY <2>1 DEF Part, Content
<1> HIDE DEF to, e
<1>5. /\ tree'[to] = e /\ \A w \in Name : w # to => tree'[w] = tree[w]
      /\ pen'[y] = to
  BY <1>1, <1>2, <1>3 DEF Put, IsTree, TypeInv, PensOK
<1>6. /\ req'[y].pc = "pour" /\ req'[y].todo = z.todo \ {x} /\ req'[y].item = tree[x]
      /\ Steps(y) /\ ~Idle(y)
  <2>1. req'[y] = [z EXCEPT !.pc = "pour", !.item = tree[x], !.todo = z.todo \ {x}]
    BY DEF CopyFile, TypeInv, Requests
  <2>2. req'[y].pc = "pour" /\ req'[y].todo = z.todo \ {x} /\ req'[y].item = tree[x]
    <3> HIDE DEF z
    <3> QED BY <1>2, <2>1 DEF Request
  <2> QED BY <1>1, <2>2 DEF Steps, Idle, At
<1>7. ASSUME z.met = "none"
      PROVE  /\ Apart(z) /\ Faithful(z, tree)
             /\ Faithful(z, tree') /\ Left(req'[y], tree', to) /\ Held(req'[y], tree', to)
             /\ tree'[x] = tree[x]
  <2>1. Apart(z) /\ Faithful(z, tree) /\ Left(z, tree, pen[y])
    BY <1>1, <1>2, <1>7 DEF Careful
  <2>2. \A w \in Name : Under(z.p, w) => w # to
    BY <1>2, <1>3, <2>1, NamesAreAny, ApartStays DEF Apart
  <2>3. tree'[x] = tree[x] BY <1>3, <1>5, <2>2
  <2>4. Faithful(z, tree')
    <3> SUFFICES ASSUME NEW w \in Name, Under(z.q, w), IsFile(tree', w), tree'[w].whole
                 PROVE  LET v == Rebase(w, z.q, z.p)
                        IN  v \in Name /\ tree'[v] = tree'[w]
      BY DEF Faithful
    <3> DEFINE v == Rebase(w, z.q, z.p)
    <3>1. w # to /\ tree'[w] = tree[w] BY <1>4, <1>5
    <3>2. v \in Name /\ tree[v] = tree[w] BY <2>1, <3>1 DEF Faithful, IsFile
    <3>3. Under(z.p, v) BY <1>2, NamesAreAny, RebaseBack
    <3> QED BY <1>5, <2>2, <3>1, <3>2, <3>3
  <2>5. Left(req'[y], tree', to)
    <3> SUFFICES ASSUME NEW w \in Name, Under(z.p, w), IsFile(tree', w)
                 PROVE  \/ \E d \in z.todo \ {x} : Under(d, w)
                        \/ to = Rebase(w, z.p, z.q)
                        \/ tree'[Rebase(w, z.p, z.q)] = tree'[w]
      BY <1>1, <1>6 DEF Left, Same
    <3>1. tree'[w] = tree[w] /\ IsFile(tree, w) BY <1>5, <2>2 DEF IsFile
    <3>2. CASE tree[Rebase(w, z.p, z.q)] = tree[w]
      BY <1>2, <1>5, <3>1, <3>2 DEF Fits
    <3>3. CASE \E d \in z.todo : Under(d, w)
      <4>1. PICK d \in z.todo : Under(d, w) BY <3>3
      <4>2. CASE d = x
        <5>1. tree[x] # Dir /\ tree[w] # Absent /\ x # <<>>
          BY <1>1, <3>1, NamesAreAny, EntryAssumption DEF IsFile
        <5>2. w = x BY <1>2, <1>3, <4>1, <4>2, <5>1, WayDown
        <5> QED BY <5>2 DEF to, CopyTo
      <4> QED BY <4>1, <4>2
    <3> QED BY <1>1, <2>1, <3>1, <3>2, <3>3 DEF Left
  <2>6. Held(req'[y], tree', to)
    BY <1>1, <1>3, <1>4, <1>5, <1>6, <2>3 DEF Held, Same, IsFile
  <2> QED BY <2>1, <2>3, <2>4, <2>5, <2>6
<1>8. Careful(req'[y], tree', pen'[y])
  BY <1>1, <1>5, <1>6, <1>7 DEF Careful, Same, Apart, Faithful
<1>9. ASSUME NEW v \in Path, Lost(v) PROVE Taken(y, v)
  <2>1. v = to BY <1>5, <1>9, PathsAreNames DEF Lost
  <2>2. CASE z.met = "none"
    <3>1. tree[x] = tree[to] BY <1>3, <1>7, <1>9, <2>1, <2>2 DEF Faithful, Lost
    <3> QED BY <1>1, <1>3, <1>6, <1>7, <2>1, <2>2, <3>1 DEF Taken
  <2> QED BY <1>1, <1>3, <1>6, <2>1, <2>2 DEF Taken
<1> QED BY <1>8, <1>9 DEF Gentle

\* A copy is complete.
LEMMA CopyPourGentle ==
    ASSUME TypeInv, LoneInv, NEW y \in Req, CopyPour(y)
    PROVE  Gentle(y)
<1> DEFINE z == req[y]
           h == pen[y]
<1>1. /\ z.kind = "move" /\ z.pc = "pour" /\ req'[y].pc = "copy"
      /\ Same(z, req'[y]) /\ req'[y].p = z.p
      /\ tree' = IF h = Absent THEN tree ELSE Put(tree, h, z.item)
      /\ Steps(y) /\ ~Idle(y)
  <2>1. z.pc = "pour" /\ req'[y].pc = "copy" /\ Same(z, req'[y]) /\ (req'[y].p = z.p \/ z.kind = "delete")
    BY PcIs, OwnSteps DEF CopyPour, At, Continue
  <2>2. z.kind = "move" BY <2>1 DEF TypeInv, Requests, WellFormed, FitFor
  <2> QED BY <2>1, <2>2 DEF CopyPour, Fill, Idle, At, Steps
<1>2. /\ z \in Request /\ z.p \in Any /\ z.q \in Any /\ Fits(z.p, z.q)
      /\ IsTree(tree) /\ Careful(z, tree, h)
      /\ h \in Name \cup {Absent}
  BY <1>1, MoveFacts DEF TypeInv, PensOK
<1>3. req'[y].todo = z.todo
  <2>1. req'[y] = [z EXCEPT !.pc = "copy"]
    BY DEF CopyPour, Goto, TypeInv, Requests
  <2> HIDE DEF z
  <2> QED BY <1>2, <2>1 DEF Request
<1>4. /\ \A w \in Name : w # h => tree'[w] = tree[w]
      /\ h # Absent => tree'[h] = z.item
  BY <1>1, <1>2 DEF Put, IsTree
<1>5. ASSUME z.met = "none"
      PROVE  /\ Apart(z) /\ Held(z, tree, h)
             /\ Faithful(z, tree') /\ Left(req'[y], tree', pen'[y])
  <2>1. Apart(z) /\ Faithful(z, tree) /\ Left(z, tree, h) /\ Held(z, tree, h)
    BY <1>1, <1>2, <1>5 DEF Careful
  <2>2. \A w \in Name : Under(z.p, w) => w # h
    BY <1>2, <2>1, NamesAreAny, ApartStays DEF Apart, Held
  <2>3. /\ h \in Name /\ tree'[h] = z.item /\ Rebase(h, z.q, z.p) \in Name
        /\ tree[Rebase(h, z.q, z.p)] = z.item
    BY <1>4, <2>1, NamesAreAny DEF Held
  <2>4. Faithful(z, tree')
    <3> SUFFICES ASSUME NEW w \in Name, Under(z.q, w), IsFile(tree', w), tree'[w].whole
                 PROVE  LET v == Rebase(w, z.q, z.p)
                        IN  v \in Name /\ tree'[v] = tree'[w]
      BY DEF Faithful
    <3> DEFINE v == Rebase(w, z.q, z.p)
    <3>1. Under(z.p, v) BY <1>2, NamesAreAny, RebaseBack
    <3>2. CASE w = h BY <1>4, <2>2, <2>3, <3>1, <3>2
    <3>3. CASE w # h
      <4>1. tree'[w] = tree[w] BY <1>4, <3>3
      <4>2. v \in Name /\ tree[v] = tree[w] BY <2>1, <4>1 DEF Faithful, IsFile
      <4> QED BY <1>4, <2>2, <3>1, <4>1, <4>2
    <3> QED BY <3>2, <3>3
  <2>5. Left(req'[y], tree', pen'[y])
    <3> SUFFICES ASSUME NEW w \in Name, Under(z.p, w), IsFile(tree', w)
                 PROVE  \/ \E d \in z.todo : Under(d, w)
                        \/ tree'[Rebase(w, z.p, z.q)] = tree'[w]
      BY <1>1, <1>3 DEF Left, Same
    <3> DEFINE v == Rebase(w, z.p, z.q)
    <3>1. tree'[w] = tree[w] /\ IsFile(tree, w) BY <1>4, <2>2 DEF IsFile
    <3>2. v \in Name /\ Rebase(v, z.q, z.p) = w
      BY <1>2, NamesAreAny, RebaseBack DEF Fits
    <3>3. CASE v = h BY <2>3, <3>1, <3>2, <3>3
    <3>4. CASE v # h BY <1>1, <1>4, <2>1, <3>1, <3>2, <3>4 DEF Left
    <3> QED BY <3>3, <3>4
  <2> QED BY <2>1, <2>4, <2>5
<1>6. Careful(req'[y], tree', pen'[y])
  BY <1>1, <1>5 DEF Careful, Same, Apart, Faithful
<1>7. ASSUME NEW v \in Path, Lost(v) PROVE Taken(y, v)
  <2>1. v = h BY <1>4, <1>7, PathsAreNames DEF Lost
  <2>2. z.met # "none" BY <1>5, <1>7, <2>1 DEF Held, Lost
  <2> QED BY <1>1, <2>1, <2>2 DEF Taken
<1> QED BY <1>6, <1>7 DEF Gentle

LEMMA StepsGentle ==
    ASSUME TypeInv, TypeInv', PartInv, LoneInv, NEW y \in Req, Continue(y) \/ Broken(y)
    PROVE  Gentle(y)
BY QuietGentle, MakeGentle, DeletionGentle, SaveGentle, RenameGentle, CopyEndsGentle,
   CopyDirGentle, CopyFileGentle, CopyPourGentle
   DEF Continue, Broken

LEMMA StepsLone ==
    ASSUME TypeInv, TypeInv', PartInv, LoneInv, NEW y \in Req, Continue(y) \/ Broken(y)
    PROVE  LoneInv'
<1>1. /\ req[y].pc # "idle" /\ Same(req[y], req'[y])
      /\ \A r \in Req : r # y => /\ req'[r].pc = req[r].pc /\ req'[r].p = req[r].p
                                 /\ Same(req[r], req'[r])
  BY OwnSteps
<1>2. Sole(req')
  <2> SUFFICES ASSUME NEW r \in Req, NEW x \in Req, req'[r].pc # "idle", req'[r].met = "none",
                      x # r
               PROVE  req'[x].pc = "idle"
    BY DEF Sole
  <2>1. req[r].pc # "idle" /\ req[r].met = "none" BY <1>1 DEF Same
  <2>2. req[x].pc = "idle" BY <2>1 DEF LoneInv, Sole
  <2> QED BY <1>1, <2>2
<1>3. ASSUME NEW r \in Req, r # y PROVE Careful(req'[r], tree', pen'[r])
  <2>1. req[r].pc = "idle" \/ req[r].met # "none"
    BY <1>1, <1>3 DEF LoneInv, Sole
  <2> QED BY <1>1, <1>3, <2>1, IdlyCareful DEF Same
<1>4. Careful(req'[y], tree', pen'[y]) BY StepsGentle DEF Gentle
<1> QED BY <1>2, <1>3, <1>4 DEF LoneInv

\* Whoever arrives is met, and meets, whoever is there.
LEMMA ArriveLone ==
    ASSUME TypeInv, LoneInv, NEW r \in Req, NEW kind, NEW id, NEW p, NEW q, NEW b,
           NEW pc \in {"idle", "open", "check", "stage"},
           Arrive(r, kind, id, p, q, b, pc)
    PROVE  LoneInv'
<1> DEFINE met == IF Rest THEN "none"
                  ELSE IF \E y \in Req : ~Idle(y) /\ req[y].kind = "move" THEN "move" ELSE "some"
           z == [pc |-> pc, kind |-> kind, id |-> id, p |-> p, q |-> q, body |-> b,
                 some |-> FALSE, todo |-> {}, item |-> Whole(b),
                 code |-> IF pc = "idle" THEN "refused" ELSE "none",
                 shown |-> {y \in {p, q} : ~Hidden(marks, id, y)},
                 public |-> policy = "public", shut |-> policy = "private", met |-> met]
           y(x) == [req[x] EXCEPT !.met = IF kind = "move" \/ @ = "move" THEN "move" ELSE "some"]
<1>1. req' = [x \in Req |-> IF x = r THEN z ELSE y(x)] BY DEF Arrive
<1>2. z.pc = pc /\ z.met = met OBVIOUS
<1>3. ASSUME NEW x \in Req PROVE y(x).pc = req[x].pc /\ y(x).met # "none"
  <2> DEFINE w == req[x]
             v == [w EXCEPT !.met = IF kind = "move" \/ @ = "move" THEN "move" ELSE "some"]
  <2>1. w \in Request BY DEF TypeInv, Requests
  <2> HIDE DEF w
  <2>2. v.pc = w.pc /\ v.met # "none" BY <2>1 DEF Request
  <2> HIDE DEF v
  <2> QED BY <2>2 DEF v, w
<1> HIDE DEF z, y
<1>4. req'[r] = z /\ \A x \in Req : x # r => req'[x] = y(x) BY <1>1
<1>5. met = "none" => \A x \in Req : req[x].pc = "idle" BY DEF Rest, Idle, At
<1> HIDE DEF met
<1>6. Sole(req') BY <1>2, <1>3, <1>4, <1>5 DEF Sole
<1>7. Careful(req'[r], tree', pen'[r]) BY <1>2, <1>4, IdlyCareful
<1>8. ASSUME NEW x \in Req, x # r PROVE Careful(req'[x], tree', pen'[x])
  BY <1>3, <1>4, <1>8, IdlyCareful
<1> QED BY <1>6, <1>7, <1>8 DEF LoneInv

LEMMA CallsLone ==
    ASSUME TypeInv, LoneInv, NEW r \in Req, NEW cookie \in User \cup {Guest}, NEW p \in Path,
           Call(r, cookie, p)
    PROVE  LoneInv'
<1>1. \E kind, id, q, b : \E pc \in {"idle", "open", "check", "stage"} :
        Arrive(r, kind, id, p, q, b, pc)
  BY DEF Call, ReadArrive, CreateArrive, DeleteArrive, MoveArrive, SaveArrive, SaveByToken
<1> QED BY <1>1, ArriveLone

LEMMA AroundLone ==
    ASSUME TypeInv, LoneInv, Around \/ Crash
    PROVE  LoneInv'
<1>1. CASE Crash
  <2>1. ASSUME NEW r \in Req PROVE req'[r].pc = "idle"
    <3> DEFINE v == req[r]
    <3>1. v \in Request /\ req'[r] = [v EXCEPT !.pc = "idle", !.todo = {}]
      BY <1>1 DEF Crash, TypeInv, Requests
    <3> HIDE DEF v
    <3> QED BY <3>1 DEF Request
  <2>2. ASSUME NEW r \in Req PROVE Careful(req'[r], tree', pen'[r])
    BY <2>1, IdlyCareful
  <2> QED BY <2>1, <2>2 DEF LoneInv, Sole
<1>2. CASE Around
  <2>1. /\ tree' = tree /\ pen' = pen
        /\ req' = req \/ req' = Lived(policy', marks')
    BY <1>2 DEF Around, SetPolicy, SetMark, DeleteAccount, Expire, Keep
  <2>2. ASSUME NEW r \in Req
        PROVE  /\ req'[r].pc = req[r].pc /\ req'[r].p = req[r].p /\ Same(req[r], req'[r])
               /\ req'[r].todo = req[r].todo /\ req'[r].item = req[r].item
    <3> DEFINE v == req[r]
    <3>1. v \in Request BY DEF TypeInv, Requests
    <3>2. CASE req' = req BY <3>2 DEF Same
    <3>3. CASE req' = Lived(policy', marks')
      <4>1. req'[r] =
              IF v.pc = "idle" THEN v
              ELSE [v EXCEPT
                      !.shown = @ \cup {p \in {v.p, v.q} : ~Hidden(marks', v.id, p)},
                      !.public = @ \/ policy' = "public",
                      !.shut = @ /\ policy' = "private"]
        BY <3>3 DEF Lived, Idle, At
      <4> HIDE DEF v
      <4>2. /\ req'[r].pc = v.pc /\ req'[r].p = v.p /\ Same(v, req'[r])
            /\ req'[r].todo = v.todo /\ req'[r].item = v.item
        BY <3>1, <4>1 DEF Same, Request
      <4> QED BY <4>2 DEF v
    <3> QED BY <2>1, <3>2, <3>3
  <2>3. Sole(req') BY <2>2 DEF LoneInv, Sole, Same
  <2>4. ASSUME NEW r \in Req PROVE Careful(req'[r], tree', pen'[r])
    <3>1. Careful(req[r], tree, pen[r]) BY DEF LoneInv
    <3> QED BY <2>1, <2>2, <3>1 DEF Careful, Same, Apart, Faithful, Left, Held
  <2> QED BY <2>3, <2>4 DEF LoneInv
<1> QED BY <1>1, <1>2

LEMMA LoneInit == Init => LoneInv
<1> SUFFICES ASSUME Init PROVE LoneInv
  OBVIOUS
<1>1. \A r \in Req : req[r].pc = "idle" BY DEF Init
<1> QED BY <1>1 DEF LoneInv, Sole, Careful

LEMMA LoneNext == TypeInv /\ TypeInv' /\ PartInv /\ LoneInv /\ [Next]_vars => LoneInv'
<1> SUFFICES ASSUME TypeInv, TypeInv', PartInv, LoneInv, [Next]_vars PROVE LoneInv'
  OBVIOUS
<1>1. CASE Around \/ Crash BY <1>1, AroundLone
<1>2. CASE UNCHANGED vars
  BY <1>2 DEF vars, LoneInv, Careful, Faithful, Left, Held
<1> QED BY <1>1, <1>2, StepsLone, CallsLone DEF Next

LEMMA LoneInvariance == Spec => [](TypeInv /\ PartInv /\ LoneInv)
<1>1. Init => LoneInv BY LoneInit
<1>2. (TypeInv /\ PartInv) /\ (TypeInv /\ PartInv)' /\ LoneInv /\ [Next]_vars => LoneInv'
  BY LoneNext
<1> QED BY <1>1, <1>2, PartInvariance, PTL DEF Spec

\* A whole file goes away by a step of a request that may take it.
LossesHaveCause == \A x \in Path : Lost(x) => \E r \in Req : Taken(r, x)

LEMMA LossesAreCaused ==
    ASSUME TypeInv, TypeInv', PartInv, LoneInv, [Next]_vars
    PROVE  LossesHaveCause
<1>1. ASSUME NEW r \in Req, Continue(r) \/ Broken(r) PROVE LossesHaveCause
  BY <1>1, StepsGentle DEF Gentle, LossesHaveCause
<1>2. ASSUME tree' = tree PROVE LossesHaveCause
  BY <1>2 DEF LossesHaveCause, Lost
<1>3. CASE Around \/ Crash
  BY <1>2, <1>3 DEF Around, SetPolicy, SetMark, DeleteAccount, Expire, Crash, Keep
<1>4. ASSUME NEW r \in Req, NEW cookie \in User \cup {Guest}, NEW p \in Path, Call(r, cookie, p)
      PROVE  LossesHaveCause
  BY <1>2, <1>4, CallsWell
<1>5. CASE UNCHANGED vars BY <1>2, <1>5 DEF vars
<1> QED BY <1>1, <1>3, <1>4, <1>5 DEF Next

-----------------------------------------------------------------------------
(* What the runs check *)

\* Every state is one the code can be in: whatever is in the tree has its parents, and
\* a file that is being written is in the tree and is one its request opened, although
\* others rename, replace and remove it meanwhile (local.go: Mkdir, Write, Move, Remove).
THEOREM TypeCorrect == Spec => []TypeOK
<1>1. TypeInv => TypeOK BY DEF TypeInv, TypeOK, PensOK, Requests
<1> QED BY <1>1, TypeInvariance, PTL

\* Whatever the policy, the marks and the accounts do between a check and the step it
\* is for, no request changes or tells anything that was out of its reach all the time
\* it took (auth.go:292, auth.go:343, admin.go:149).
THEOREM RightsAreHeld == Spec => []RightsHold
<1>1. ASSUME TypeInv, LawInv PROVE GroundsForChange
  <2> SUFFICES ASSUME NEW r \in Req, req[r].kind # "read", ~At(r, "idle"), ~At(r, "check")
               PROVE  /\ Targets(r) \subseteq req[r].shown
                      /\ req[r].id = Guest => req[r].public
                      /\ req[r].id \in User \ Admins =>
                            \A p \in Targets(r) : InsideScope(req[r].id, p)
    BY DEF GroundsForChange
  <2>1. WellFormed(req[r]) /\ Lawful(req[r], policy, marks)
    BY <1>1 DEF TypeInv, Requests, LawInv
  <2>2. req[r].pc \notin {"idle", "check", "open"} BY <2>1 DEF At, WellFormed, FitFor
  <2>3. Ground(req[r]) BY <2>1, <2>2 DEF Lawful, Checked
  <2> QED BY <2>3 DEF Ground, TargetsOf, Targets
<1>2. ASSUME LawInv PROVE HiddenLooksMissing
  BY <1>2 DEF HiddenLooksMissing, TellsNothing, LawInv, Lawful, Told, TargetsOf, Targets
<1>3. TypeInv /\ LawInv => RightsHold BY <1>1, <1>2 DEF RightsHold
<1> QED BY <1>3, LawInvariance, PTL

\* Whatever requests do at the same time, an incomplete file comes to be at a path by a
\* step of the move whose destination it is below, of a move that has met another, or of
\* a save of that path which has met a move or whose body is longer than the limit and
\* is cut short (local.go:643, local.go:685).
THEOREM PartialFilesHaveCause == Spec => [][CutsHaveCause]_vars
<1>1. TypeInv /\ PartInv /\ (TypeInv /\ PartInv)' /\ [Next]_vars => [CutsHaveCause]_vars
  BY CutsAreCaused
<1> QED BY <1>1, PartInvariance, PTL DEF Spec

\* With bodies within the limit: what is incomplete is a copy that is under way or has
\* failed, or was met by a move.  Any number of saves, deletions, creations and moves may
\* interleave, fail and be cut off by a restart.
THEOREM PartialFilesAreCopies ==
    ASSUME Large = {}
    PROVE  Spec => OnlyCopiesArePartial
<1> DEFINE Step ==
      \A x \in Path :
        IsFile(tree', x) /\ ~tree'[x].whole /\ tree'[x] # tree[x] =>
            \E r \in Req :
                /\ ~Idle(r) /\ Steps(r)
                /\ \/ req[r].kind = "move" /\ (Under(req[r].q, x) \/ req[r].met = "move")
                   \/ req[r].kind = "save" /\ x = req[r].p /\ req[r].met = "move"
<1>1. CutsHaveCause => Step BY DEF CutsHaveCause, Cut, Cause
<1> HIDE DEF Step
<1>2. [CutsHaveCause]_vars => [Step]_vars BY <1>1
<1>3. [][Step]_vars => OnlyCopiesArePartial BY PTL DEF Step, OnlyCopiesArePartial
<1> QED BY <1>2, <1>3, PartialFilesHaveCause, PTL

\* A whole file goes away only by a deletion it is in, by a save of its path, or by a
\* move: if that has met nobody, the file or what it is a copy of is at the other end,
\* however the move goes (local.go:643).  The save puts what it has written there.
THEOREM LossesAreExplained == Spec => [][LossesHaveCause]_vars
<1> DEFINE Inv == TypeInv /\ PartInv /\ LoneInv
<1>1. Inv /\ Inv' /\ [Next]_vars => [LossesHaveCause]_vars
  BY LossesAreCaused
<1> QED BY <1>1, LoneInvariance, PTL DEF Spec

\* With bodies within the limit, a save puts its whole body there.
THEOREM NothingElseGoes ==
    ASSUME Large = {}
    PROVE  Spec => NothingElseIsLost
<1> DEFINE Step ==
      \A x \in Path :
        IsFile(tree, x) /\ tree[x].whole /\ tree'[x] # tree[x] =>
            \E r \in Req :
                /\ ~Idle(r) /\ Steps(r)
                /\ \/ req[r].kind = "delete" /\ Under(req[r].p, x)
                   \/ /\ req[r].kind = "save"
                      /\ x = req[r].p
                      /\ tree'[x] = Whole(req[r].body) \/ req[r].met = "move"
                   \/ /\ req[r].kind = "move"
                      /\ IF req[r].met = "none"
                         THEN \/ /\ Under(req[r].p, x)
                                 /\ tree'[Rebase(x, req[r].p, req[r].q)] = tree[x]
                              \/ /\ Under(req[r].q, x)
                                 /\ tree'[Rebase(x, req[r].q, req[r].p)] = tree[x]
                         ELSE Under(req[r].p, x) \/ Under(req[r].q, x) \/ x = pen[r]
<1>1. \A z : Written(z) = Whole(z.body) BY DEF Written, Whole
<1>2. ASSUME NEW r, NEW x, Taken(r, x)
      PROVE  /\ ~Idle(r) /\ Steps(r)
             /\ \/ req[r].kind = "delete" /\ Under(req[r].p, x)
                \/ /\ req[r].kind = "save"
                   /\ x = req[r].p
                   /\ tree'[x] = Whole(req[r].body) \/ req[r].met = "move"
                \/ /\ req[r].kind = "move"
                   /\ IF req[r].met = "none"
                      THEN \/ /\ Under(req[r].p, x)
                              /\ tree'[Rebase(x, req[r].p, req[r].q)] = tree[x]
                           \/ /\ Under(req[r].q, x)
                              /\ tree'[Rebase(x, req[r].q, req[r].p)] = tree[x]
                      ELSE Under(req[r].p, x) \/ Under(req[r].q, x) \/ x = pen[r]
  BY <1>1, <1>2 DEF Taken
<1>3. LossesHaveCause => Step BY <1>2 DEF LossesHaveCause, Lost
<1> HIDE DEF Step
<1>4. [LossesHaveCause]_vars => [Step]_vars BY <1>3
<1>5. [][Step]_vars => NothingElseIsLost BY PTL DEF Step, NothingElseIsLost
<1> QED BY <1>4, <1>5, LossesAreExplained, PTL
==============================================================================
