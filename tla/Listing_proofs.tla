--------------------------- MODULE Listing_proofs ---------------------------
(***************************************************************************)
(* What the walk of the storage reports, and what searches and archives    *)
(* make of it: theorems for any tree, any number of workers and any limit. *)
(***************************************************************************)
EXTENDS MCListing, FiniteSetTheorems, SequenceTheorems, WellFoundedInduction, TLAPS

-----------------------------------------------------------------------------
(* The walk *)

\* How deep a directory or an entry is, and that nothing on the way to it is pruned.
Level(d) == IF d = 0 THEN 0 ELSE Cardinality(Path[d])
Clear(d) == d = 0 \/ Path[d] \cap Noise = {}

\* The directories of this level that were handed out, and those that were not.
Handed == {queue[i] : i \in 1 .. taken}
Waiting == {queue[i] : i \in taken + 1 .. Len(queue)}

\* What a worker has still to look at, and what it has found for the next level.
Todo(w) == IF worker[w].pc \in {"scan", "call"} THEN worker[w].todo ELSE {}
Coming(w) == Range(worker[w].next)

Refused == why \cap {"error", "done"} # {}
Early == why # {} \/ stop

QueueInv ==
    /\ IsInjective(queue)
    /\ \A d \in Range(queue) : Clear(d)
    /\ \A d, x \in Range(queue) : Level(d) = Level(x)

\* Workers are at work inside of a level only.
PhaseInv ==
    /\ inside => result = "running" /\ taken <= Len(queue) /\ queue # <<>>
    /\ \A w \in Worker : worker[w].pc # "out" => inside

\* A worker that has not taken a directory has nothing to look at; one that waits for the
\* mutex has a match to report.
TaskInv ==
    \A w \in Worker :
        /\ worker[w].pc \in {"out", "take"} => worker[w].todo = {}
        /\ worker[w].pc = "call" =>
            worker[w].todo # {} /\ First(worker[w].todo) \in Matches \ Noise

\* Nothing is with two workers, or with one and in what was found.
ShareInv ==
    inside =>
        /\ \A w \in Worker : \A e \in Todo(w) \cup Coming(w) : Parent[e] \in Handed
        /\ \A w \in Worker : \A d \in Coming(w) : Clear(d)
        /\ \A w \in Worker : IsInjective(worker[w].next)
        /\ \A w, v \in Worker : Todo(w) \cap Coming(v) = {}
        /\ \A w, v \in Worker : w # v => Todo(w) \cap Todo(v) = {} /\ Coming(w) \cap Coming(v) = {}

\* What was reported is not reported again, and lies no deeper than what is looked at.
LogInv ==
    /\ IsInjective(log)
    /\ \A x \in Range(log), d \in Range(queue) :
            Level(x) <= IF inside THEN Level(d) + 1 ELSE Level(d)
    /\ inside => \A w \in Worker : Todo(w) \cap Range(log) = {}
    /\ inside => \A d \in Waiting : Children(d) \cap Range(log) = {}

\* The walk stops for a reason, and an error is recorded before its level ends.
ReasonInv ==
    /\ err => "error" \in why
    /\ "error" \in why => err \/ \E w \in Worker : worker[w].pc = "refused" /\ worker[w].answer = "error"
    /\ \A w \in Worker : worker[w].pc = "refused" => worker[w].answer \in why \cap {"error", "done"}
    /\ ~inside /\ result = "running" => ~err
    /\ stop => Refused \/ (Limit > 0 /\ Len(log) >= Limit)
    /\ Limit = 0 => left = 0
    /\ ~Refused /\ Limit > 0 => left + Len(log) = Limit /\ (left = 0 => stop)

Covered(e) ==
    \/ e \in Range(log) \cup missed
    \/ ~inside /\ \E d \in Range(queue) : e \in Below(d)
    \/ inside /\ \/ \E d \in Waiting : e \in Below(d)
                 \/ \E w \in Worker : \E x \in Todo(w) : x \in Path[e]
                 \/ \E w \in Worker : \E d \in Coming(w) : e \in Below(d)

\* While there is no reason to stop, whatever was not reported is still to be found.
CoverInv ==
    ~Early =>
        /\ \A e \in Expected : Covered(e)
        /\ inside /\ worker[1].pc = "out" => taken = Len(queue)

WalkInv == TypeOK /\ QueueInv /\ PhaseInv /\ TaskInv /\ ShareInv /\ LogInv /\ ReasonInv /\ CoverInv
-----------------------------------------------------------------------------
(* Numbers and paths *)

LEMMA Least ==
    ASSUME NEW T \in SUBSET Nat, T # {}
    PROVE  \E x \in T : \A y \in T : x <= y
<1> DEFINE R == OpToRel(<, Nat)
<1>1. IsWellFoundedOn(R, Nat) BY NatLessThanWellFounded
<1>2. \A x, y \in Nat : x < y => <<x, y>> \in R BY DEF OpToRel
<1> HIDE DEF R
<1>3. PICK x \in T : \A y \in T : <<y, x>> \notin R BY <1>1, WFMin
<1>4. ASSUME NEW y \in T PROVE x <= y
  <2>1. x \in Nat /\ y \in Nat OBVIOUS
  <2>2. ~(y < x) BY <1>2, <1>3, <2>1
  <2> QED BY <2>1, <2>2
<1> QED BY <1>4

LEMMA Numbered ==
    /\ Len(Parent) \in Nat /\ Entry = 1 .. Len(Parent)
    /\ \A e \in Entry : Parent[e] \in Nat /\ Parent[e] < e /\ Parent[e] \in Dirs \cup {0}
    /\ \A e \in Entry : Parent[e] # 0 => Parent[e] \in Entry
    /\ Dirs \subseteq Entry /\ Matches \subseteq Entry /\ Noise \subseteq Dirs /\ 0 \notin Entry
<1>1. Parent \in Seq(Nat) BY TreeAssumption DEF TreeBounds
<1>2. Len(Parent) \in Nat /\ Entry = 1 .. Len(Parent) BY <1>1, LenProperties DEF Entry
<1>3. \A e \in Entry : Parent[e] \in Nat BY <1>1, <1>2
<1> QED BY <1>2, <1>3, TreeAssumption DEF TreeBounds

\* The path of an entry is well defined, because entries are numbered from above.
LEMMA PathIs ==
    \A e \in Entry : Path[e] = {e} \cup IF Parent[e] = 0 THEN {} ELSE Path[Parent[e]]
<1> DEFINE G(m) ==
        \E f : f = [e \in 1 .. m |-> {e} \cup IF Parent[e] = 0 THEN {} ELSE f[Parent[e]]]
           T == {m \in 0 .. Len(Parent) : ~G(m)}
<1>1. T = {}
  <2> SUFFICES ASSUME T # {} PROVE FALSE OBVIOUS
  <2>1. T \in SUBSET Nat BY Numbered
  <2>2. PICK m \in T : \A k \in T : m <= k BY <2>1, Least
  <2>3. CASE m = 0
    <3> DEFINE f == [e \in 1 .. 0 |-> {}]
    <3>1. 1 .. 0 = {} OBVIOUS
    <3>2. f = [e \in 1 .. 0 |-> {e} \cup IF Parent[e] = 0 THEN {} ELSE f[Parent[e]]]
      BY <3>1
    <3> QED BY <2>3, <3>2
  <2>4. CASE m # 0
    <3>1. m \in Nat /\ m - 1 \in 0 .. Len(Parent) /\ m <= Len(Parent) /\ ~(m <= m - 1)
      BY <2>4, Numbered
    <3>2. m - 1 \notin T BY <2>2, <3>1
    <3>3. G(m - 1) BY <3>1, <3>2
    <3>4. PICK f : f = [e \in 1 .. m - 1 |->
                            {e} \cup IF Parent[e] = 0 THEN {} ELSE f[Parent[e]]]
      BY <3>3
    <3> DEFINE g == [e \in 1 .. m |-> {e} \cup IF Parent[e] = 0 THEN {} ELSE f[Parent[e]]]
    <3>5. ASSUME NEW e \in 1 .. m - 1 PROVE g[e] = f[e]
      <4>1. e \in 1 .. m BY <3>1
      <4>2. g[e] = {e} \cup IF Parent[e] = 0 THEN {} ELSE f[Parent[e]] BY <4>1
      <4>3. f[e] = {e} \cup IF Parent[e] = 0 THEN {} ELSE f[Parent[e]] BY <3>4
      <4> QED BY <4>2, <4>3
    <3>6. ASSUME NEW e \in 1 .. m, Parent[e] # 0 PROVE g[Parent[e]] = f[Parent[e]]
      <4>1. Parent[e] \in 1 .. m - 1 BY <3>1, <3>6, Numbered
      <4> QED BY <3>5, <4>1
    <3>7. g = [e \in 1 .. m |-> {e} \cup IF Parent[e] = 0 THEN {} ELSE g[Parent[e]]]
      BY <3>6
    <3> QED BY <3>7
  <2> QED BY <2>3, <2>4
<1>2. Len(Parent) \in 0 .. Len(Parent) BY Numbered
<1>3. G(Len(Parent)) BY <1>1, <1>2
<1>4. Path = CHOOSE f : f = [e \in Entry |-> {e} \cup IF Parent[e] = 0 THEN {} ELSE f[Parent[e]]]
  BY DEF Path
<1>5. Path = [e \in Entry |-> {e} \cup IF Parent[e] = 0 THEN {} ELSE Path[Parent[e]]]
  BY <1>3, <1>4, Numbered
<1> QED BY <1>5

LEMMA PathWithin == \A e \in Entry : Path[e] \subseteq 1 .. e /\ e \in Path[e]
<1> DEFINE T == {e \in Entry : ~(Path[e] \subseteq 1 .. e)}
<1>1. T = {}
  <2> SUFFICES ASSUME T # {} PROVE FALSE OBVIOUS
  <2>1. T \in SUBSET Nat BY Numbered
  <2>2. PICK e \in T : \A k \in T : e <= k BY <2>1, Least
  <2>3. Path[e] = {e} \cup IF Parent[e] = 0 THEN {} ELSE Path[Parent[e]] BY PathIs
  <2>4. e \in 1 .. e BY Numbered
  <2>5. CASE Parent[e] = 0 BY <2>3, <2>4, <2>5
  <2>6. CASE Parent[e] # 0
    <3>1. Parent[e] \in Entry /\ Parent[e] \in Nat /\ Parent[e] < e /\ e \in Nat BY <2>6, Numbered
    <3>2. Parent[e] \notin T BY <2>2, <3>1
    <3>3. Path[Parent[e]] \subseteq 1 .. Parent[e] BY <3>1, <3>2
    <3>4. 1 .. Parent[e] \subseteq 1 .. e BY <3>1
    <3> QED BY <2>3, <2>4, <3>3, <3>4
  <2> QED BY <2>5, <2>6
<1>2. \A e \in Entry : e \in Path[e] BY PathIs
<1> QED BY <1>1, <1>2

LEMMA LevelOfChild ==
    \A e \in Entry : Level(e) \in Nat /\ Level(Parent[e]) \in Nat /\ Level(e) = Level(Parent[e]) + 1
<1>1. ASSUME NEW e \in Entry PROVE IsFiniteSet(Path[e]) /\ Cardinality(Path[e]) \in Nat
  <2>1. IsFiniteSet(1 .. e) BY Numbered, FS_Interval
  <2> QED BY <2>1, PathWithin, FS_Subset, FS_CardinalityType
<1>2. ASSUME NEW e \in Entry, Parent[e] = 0 PROVE Cardinality(Path[e]) = 1
  BY <1>2, PathIs, FS_Singleton
<1>3. ASSUME NEW e \in Entry, Parent[e] # 0
      PROVE  Cardinality(Path[e]) = Cardinality(Path[Parent[e]]) + 1
  <2>1. Parent[e] \in Entry /\ Parent[e] \in Nat /\ Parent[e] < e /\ e \in Nat BY <1>3, Numbered
  <2>2. e \notin Path[Parent[e]]
    <3>1. e \notin 1 .. Parent[e] BY <2>1
    <3> QED BY <2>1, <3>1, PathWithin
  <2>3. Path[e] = Path[Parent[e]] \cup {e} BY <1>3, PathIs
  <2> QED BY <1>1, <2>1, <2>2, <2>3, FS_AddElement
<1> SUFFICES ASSUME NEW e \in Entry
             PROVE  /\ Level(e) \in Nat /\ Level(Parent[e]) \in Nat
                    /\ Level(e) = Level(Parent[e]) + 1
  OBVIOUS
<1>4. e # 0 BY Numbered
<1>5. CASE Parent[e] = 0 BY <1>1, <1>2, <1>4, <1>5 DEF Level
<1>6. CASE Parent[e] # 0
  <2>1. Parent[e] \in Entry BY <1>6, Numbered
  <2> QED BY <1>1, <1>3, <1>4, <1>6, <2>1 DEF Level
<1> QED BY <1>5, <1>6

LEMMA ClearChild ==
    ASSUME NEW e \in Entry, Clear(Parent[e]), e \notin Noise
    PROVE  Clear(e)
BY PathIs DEF Clear

\* What is below a directory is one of its children, or below one.
LEMMA StepDown ==
    ASSUME NEW d
    PROVE  \A e \in Entry : e \in Below(d) => \E c \in Children(d) : c \in Path[e]
<1> DEFINE T == {e \in Entry : e \in Below(d) /\ ~\E c \in Children(d) : c \in Path[e]}
<1> SUFFICES ASSUME T # {} PROVE FALSE OBVIOUS
<1>1. T \in SUBSET Nat BY Numbered
<1>2. PICK e \in T : \A k \in T : e <= k BY <1>1, Least
<1>3. e \in Entry /\ e \in Path[e] /\ (d = 0 \/ d \in Path[e] \ {e})
  BY PathWithin DEF Below
<1>4. Parent[e] # d BY <1>3 DEF Children
<1>5. Path[e] = {e} \cup IF Parent[e] = 0 THEN {} ELSE Path[Parent[e]] BY <1>3, PathIs
<1>6. Parent[e] # 0 BY <1>3, <1>4, <1>5
<1>7. Parent[e] \in Entry /\ Parent[e] \in Nat /\ e \in Nat /\ Parent[e] < e
  BY <1>3, <1>6, Numbered
<1>8. Parent[e] \in Below(d) BY <1>3, <1>4, <1>5, <1>6, <1>7 DEF Below
<1>9. \E c \in Children(d) : c \in Path[Parent[e]] BY <1>2, <1>7, <1>8
<1> QED BY <1>5, <1>6, <1>9

\* Nothing is below what is no directory.
LEMMA OnlyDirs ==
    ASSUME NEW x \in Entry, NEW e \in Entry, x \in Path[e], x # e
    PROVE  x \in Dirs /\ e \in Below(x)
<1>1. e \in Below(x) BY DEF Below
<1>2. PICK c \in Children(x) : c \in Path[e] BY <1>1, StepDown
<1>3. Parent[c] = x /\ c \in Entry BY DEF Children
<1>4. x # 0 BY Numbered
<1> QED BY <1>1, <1>3, <1>4, Numbered

LEMMA FirstIs ==
    ASSUME NEW todo \in SUBSET Entry, todo # {}
    PROVE  First(todo) \in todo
<1>1. \E e \in todo : \A x \in todo : e <= x BY Least, Numbered
<1> QED BY <1>1 DEF First

-----------------------------------------------------------------------------
(* What the workers of a level have found *)

LEMMA InjectiveConcat ==
    ASSUME NEW Z, NEW s \in Seq(Z), NEW t \in Seq(Z),
           IsInjective(s), IsInjective(t), Range(s) \cap Range(t) = {}
    PROVE  IsInjective(s \o t)
<1> DEFINE u == s \o t
<1>1. /\ u \in Seq(Z) /\ Len(u) = Len(s) + Len(t)
      /\ \A i \in 1 .. Len(s) + Len(t) : u[i] = IF i <= Len(s) THEN s[i] ELSE t[i - Len(s)]
  BY ConcatProperties
<1>2. /\ Len(s) \in Nat /\ DOMAIN s = 1 .. Len(s)
      /\ Len(t) \in Nat /\ DOMAIN t = 1 .. Len(t)
      /\ DOMAIN u = 1 .. Len(s) + Len(t)
  BY <1>1, LenProperties
<1> HIDE DEF u
<1> SUFFICES ASSUME NEW i \in DOMAIN u, NEW j \in DOMAIN u, u[i] = u[j] PROVE i = j
  BY DEF IsInjective, u
<1>3. CASE i <= Len(s) /\ j <= Len(s)
  <2>1. i \in DOMAIN s /\ j \in DOMAIN s /\ s[i] = s[j] BY <1>1, <1>2, <1>3
  <2> QED BY <2>1 DEF IsInjective
<1>4. CASE ~(i <= Len(s)) /\ ~(j <= Len(s))
  <2>1. i - Len(s) \in DOMAIN t /\ j - Len(s) \in DOMAIN t /\ t[i - Len(s)] = t[j - Len(s)]
    BY <1>1, <1>2, <1>4
  <2>2. i - Len(s) = j - Len(s) BY <2>1 DEF IsInjective
  <2> QED BY <1>2, <2>2
<1>5. ASSUME NEW a \in DOMAIN u, NEW b \in DOMAIN u, a <= Len(s), ~(b <= Len(s))
      PROVE  u[a] # u[b]
  <2>1. a \in DOMAIN s /\ b - Len(s) \in DOMAIN t /\ u[a] = s[a] /\ u[b] = t[b - Len(s)]
    BY <1>1, <1>2, <1>5
  <2>2. s[a] \in Range(s) /\ t[b - Len(s)] \in Range(t) BY <2>1 DEF Range
  <2> QED BY <2>1, <2>2
<1> QED BY <1>3, <1>4, <1>5

LEMMA FoundIs ==
    \A w \in 0 .. NumWorkers : Found[w] = IF w = 0 THEN <<>> ELSE Found[w - 1] \o worker[w].next
<1> DEFINE G(m) == \E f : f = [w \in 0 .. m |-> IF w = 0 THEN <<>> ELSE f[w - 1] \o worker[w].next]
           T == {m \in 0 .. NumWorkers : ~G(m)}
<1>1. NumWorkers \in Nat BY WalkAssumption DEF WalkBounds
<1> HIDE DEF G
<1>2. T \in SUBSET Nat BY <1>1
<1> USE DEF G
<1>3. T = {}
  <2> SUFFICES ASSUME T # {} PROVE FALSE OBVIOUS
  <2>1. T \in SUBSET Nat BY <1>2
  <2>2. PICK m \in T : \A k \in T : m <= k BY <2>1, Least
  <2>3. CASE m = 0
    <3> DEFINE f == [w \in 0 .. 0 |-> <<>>]
    <3>1. f = [w \in 0 .. 0 |-> IF w = 0 THEN <<>> ELSE f[w - 1] \o worker[w].next]
      OBVIOUS
    <3> QED BY <2>3, <3>1
  <2>4. CASE m # 0
    <3>1. m \in Nat /\ m - 1 \in 0 .. NumWorkers /\ ~(m <= m - 1) BY <1>1, <2>4
    <3>2. G(m - 1) BY <2>2, <3>1
    <3>3. PICK f : f = [w \in 0 .. m - 1 |-> IF w = 0 THEN <<>> ELSE f[w - 1] \o worker[w].next]
      BY <3>2
    <3> DEFINE g == [w \in 0 .. m |-> IF w = 0 THEN <<>> ELSE f[w - 1] \o worker[w].next]
    <3>4. ASSUME NEW w \in 0 .. m - 1 PROVE g[w] = f[w]
      <4>1. w \in 0 .. m BY <3>1
      <4>2. g[w] = IF w = 0 THEN <<>> ELSE f[w - 1] \o worker[w].next BY <4>1
      <4>3. f[w] = IF w = 0 THEN <<>> ELSE f[w - 1] \o worker[w].next BY <3>3
      <4> QED BY <4>2, <4>3
    <3>5. ASSUME NEW w \in 0 .. m, w # 0 PROVE g[w - 1] = f[w - 1]
      <4>1. w - 1 \in 0 .. m - 1 BY <3>1, <3>5
      <4> QED BY <3>4, <4>1
    <3>6. g = [w \in 0 .. m |-> IF w = 0 THEN <<>> ELSE g[w - 1] \o worker[w].next]
      BY <3>5
    <3> QED BY <3>6
  <2> QED BY <2>3, <2>4
<1>4. NumWorkers \in 0 .. NumWorkers BY <1>1
<1>5. G(NumWorkers) BY <1>3, <1>4
<1>6. Found = CHOOSE f : f = [w \in 0 .. NumWorkers |->
                                IF w = 0 THEN <<>> ELSE f[w - 1] \o worker[w].next]
  BY DEF Found
<1>7. Found = [w \in 0 .. NumWorkers |-> IF w = 0 THEN <<>> ELSE Found[w - 1] \o worker[w].next]
  BY <1>5, <1>6
<1> QED BY <1>7

LEMMA WorkersAre == NumWorkers \in Nat \ {0} /\ Worker = 1 .. NumWorkers /\ 1 \in Worker
BY WalkAssumption DEF WalkBounds, Worker

\* A worker's task, and what can be said of what it found.
LEMMA TaskIs ==
    ASSUME TypeOK, NEW w \in Worker
    PROVE  /\ worker[w] \in Task
           /\ worker[w].pc \in Pc /\ worker[w].todo \in SUBSET Entry
           /\ worker[w].next \in Seq(Dirs) /\ Coming(w) \subseteq Dirs
           /\ Todo(w) \subseteq Entry
<1>1. worker[w] \in Task BY DEF TypeOK
<1>2. /\ worker[w].pc \in Pc /\ worker[w].todo \in SUBSET Entry
      /\ worker[w].next \in Seq(Dirs)
  BY <1>1 DEF Task
<1>3. Coming(w) \subseteq Dirs BY <1>2, RangeOfSeq DEF Coming
<1> QED BY <1>1, <1>2, <1>3 DEF Todo

\* Together they have found what each of them has, once each.
LEMMA FoundOnce ==
    ASSUME TypeOK, \A w \in Worker : IsInjective(worker[w].next),
           \A w, v \in Worker : w # v => Coming(w) \cap Coming(v) = {}
    PROVE  LET f == Found[NumWorkers]
           IN  f \in Seq(Dirs) /\ IsInjective(f) /\ Range(f) = UNION {Coming(w) : w \in Worker}
<1> DEFINE C(m) == UNION {Coming(w) : w \in 1 .. m}
           G(m) == Found[m] \in Seq(Dirs) /\ IsInjective(Found[m]) /\ Range(Found[m]) = C(m)
           T == {m \in 0 .. NumWorkers : ~G(m)}
<1> HIDE DEF G
<1>1. T \in SUBSET Nat BY WorkersAre
<1> USE DEF G
<1>2. T = {}
  <2> SUFFICES ASSUME T # {} PROVE FALSE OBVIOUS
  <2>1. PICK m \in T : \A k \in T : m <= k BY <1>1, Least
  <2>2. CASE m = 0
    <3>1. Found[m] = <<>> BY <2>2, FoundIs, WorkersAre
    <3>2. <<>> \in Seq(Dirs) /\ IsInjective(<<>>) /\ Range(<<>>) = {} BY DEF IsInjective, Range
    <3>3. C(m) = {} BY <2>2
    <3> QED BY <3>1, <3>2, <3>3
  <2>3. CASE m # 0
    <3>1. /\ m \in Nat /\ m - 1 \in 0 .. NumWorkers /\ ~(m <= m - 1) /\ m \in Worker
          /\ 1 .. m = (1 .. m - 1) \cup {m} /\ m \notin 1 .. m - 1 /\ 1 .. m - 1 \subseteq Worker
      BY <2>3, WorkersAre
    <3>2. G(m - 1) BY <2>1, <3>1
    <3>3. Found[m] = Found[m - 1] \o worker[m].next BY <2>3, <3>1, FoundIs
    <3>4. worker[m].next \in Seq(Dirs) BY <3>1, TaskIs
    <3>5. C(m - 1) \cap Coming(m) = {} BY <3>1
    <3>6. Found[m] \in Seq(Dirs) BY <3>2, <3>3, <3>4, ConcatProperties
    <3>7. IsInjective(Found[m])
      BY <3>1, <3>2, <3>3, <3>4, <3>5, InjectiveConcat DEF Coming
    <3>8. Range(Found[m]) = C(m - 1) \cup Coming(m)
      BY <3>2, <3>3, <3>4, RangeConcatenation DEF Coming
    <3>9. C(m) = C(m - 1) \cup Coming(m) BY <3>1
    <3> QED BY <3>6, <3>7, <3>8, <3>9
  <2> QED BY <2>2, <2>3
<1>3. NumWorkers \in 0 .. NumWorkers BY WorkersAre
<1>4. G(NumWorkers) BY <1>2, <1>3
<1> QED BY <1>4, WorkersAre

-----------------------------------------------------------------------------
(* What an action does to the worker it is about *)

\* The worker of w has a new task, and the others keep theirs.
Turns(w, pc, todo, next, answer) ==
    /\ worker' \in [Worker -> Task]
    /\ \A v \in Worker \ {w} : worker'[v] = worker[v]
    /\ worker'[w].pc = pc /\ worker'[w].todo = todo
    /\ worker'[w].next = next /\ worker'[w].answer = answer

LEMMA TaskGiven ==
    ASSUME TypeOK, NEW w \in Worker, NEW t \in Task, worker' = [worker EXCEPT ![w] = t]
    PROVE  Turns(w, t.pc, t.todo, t.next, t.answer)
<1>1. worker \in [Worker -> Task] BY DEF TypeOK
<1>2. worker'[w] = t /\ \A v \in Worker \ {w} : worker'[v] = worker[v] BY <1>1
<1>3. worker' \in [Worker -> Task] BY <1>1
<1> QED BY <1>2, <1>3 DEF Turns

LEMMA RangeAppend ==
    ASSUME NEW Z, NEW s \in Seq(Z), NEW x \in Z
    PROVE  /\ Append(s, x) \in Seq(Z) /\ Len(Append(s, x)) = Len(s) + 1
           /\ Range(Append(s, x)) = Range(s) \cup {x}
           /\ IsInjective(s) /\ x \notin Range(s) => IsInjective(Append(s, x))
<1> DEFINE t == Append(s, x)
<1>1. /\ t \in Seq(Z) /\ Len(s) \in Nat /\ Len(t) = Len(s) + 1 /\ t[Len(s) + 1] = x
      /\ DOMAIN s = 1 .. Len(s) /\ DOMAIN t = 1 .. Len(s) + 1
      /\ \A i \in 1 .. Len(s) : t[i] = s[i]
  BY AppendProperties, LenProperties
<1> HIDE DEF t
<1>2. DOMAIN t = DOMAIN s \cup {Len(s) + 1} BY <1>1
<1>3. Range(t) = Range(s) \cup {x}
  <2>1. \A i \in DOMAIN t : t[i] \in Range(s) \cup {x} BY <1>1, <1>2 DEF Range
  <2>2. \A i \in DOMAIN s : s[i] \in Range(t) BY <1>1, <1>2 DEF Range
  <2>3. x \in Range(t) BY <1>1, <1>2 DEF Range
  <2> QED BY <2>1, <2>2, <2>3 DEF Range
<1>4. ASSUME IsInjective(s), x \notin Range(s) PROVE IsInjective(t)
  <2>1. \A i \in DOMAIN s : s[i] \in Range(s) BY DEF Range
  <2> SUFFICES ASSUME NEW i \in DOMAIN t, NEW j \in DOMAIN t, t[i] = t[j] PROVE i = j
    BY DEF IsInjective
  <2>2. CASE i \in DOMAIN s /\ j \in DOMAIN s BY <1>1, <1>4, <2>2 DEF IsInjective
  <2>3. CASE i = Len(s) + 1 \/ j = Len(s) + 1 BY <1>1, <1>2, <1>4, <2>1, <2>3
  <2> QED BY <1>2, <2>2, <2>3
<1> QED BY <1>1, <1>3, <1>4 DEF t

\* The first entry of a task, and the task without it.
LEMMA PastIs ==
    ASSUME TypeOK, NEW w \in Worker, worker[w].todo # {}
    PROVE  LET e == First(worker[w].todo)
           IN  /\ e \in worker[w].todo /\ e \in Entry
               /\ Past(w) \in Task
               /\ Past(w).pc = "scan" /\ Past(w).todo = worker[w].todo \ {e}
               /\ Past(w).answer = worker[w].answer
               /\ Range(Past(w).next) = Coming(w) \cup ({e} \cap Dirs)
               /\ IsInjective(worker[w].next) /\ e \notin Coming(w) => IsInjective(Past(w).next)
<1> DEFINE e == First(worker[w].todo)
           n == IF e \in Dirs THEN Append(worker[w].next, e) ELSE worker[w].next
           t == [worker[w] EXCEPT !.pc = "scan", !.todo = @ \ {e},
                                  !.next = IF e \in Dirs THEN Append(@, e) ELSE @]
<1>1. /\ worker[w] \in Task /\ worker[w].todo \in SUBSET Entry /\ worker[w].next \in Seq(Dirs)
  BY TaskIs
<1>2. e \in worker[w].todo /\ e \in Entry BY <1>1, FirstIs
<1>3. Past(w) = t BY DEF Past
<1> HIDE DEF e
<1>4. CASE e \in Dirs
  <2>1. /\ n \in Seq(Dirs) /\ Range(n) = Coming(w) \cup {e}
        /\ IsInjective(worker[w].next) /\ e \notin Coming(w) => IsInjective(n)
    BY <1>1, <1>4, RangeAppend DEF Coming
  <2> QED BY <1>1, <1>2, <1>3, <1>4, <2>1 DEF Task, Pc, e
<1>5. CASE e \notin Dirs
  BY <1>1, <1>2, <1>3, <1>5 DEF Task, Pc, e, Coming
<1> QED BY <1>4, <1>5

-----------------------------------------------------------------------------
(* A worker inside of its directory *)

LEMMA HandedIs ==
    ASSUME TypeOK, taken <= Len(queue)
    PROVE  /\ Handed \subseteq Range(queue) /\ Waiting \subseteq Range(queue)
           /\ Range(queue) = Handed \cup Waiting /\ Range(queue) \subseteq Dirs \cup {0}
           /\ IsInjective(queue) => Handed \cap Waiting = {}
<1>1. /\ queue \in Seq(Dirs \cup {0}) /\ taken \in Nat /\ Len(queue) \in Nat
      /\ DOMAIN queue = 1 .. Len(queue)
  BY LenProperties DEF TypeOK
<1>2. Range(queue) = {queue[i] : i \in 1 .. Len(queue)} /\ Range(queue) \subseteq Dirs \cup {0}
  BY <1>1, RangeEquality, RangeOfSeq
<1>3. 1 .. Len(queue) = (1 .. taken) \cup (taken + 1 .. Len(queue)) BY <1>1
<1>4. (1 .. taken) \cap (taken + 1 .. Len(queue)) = {} BY <1>1
<1>5. Range(queue) = Handed \cup Waiting BY <1>2, <1>3 DEF Handed, Waiting
<1>6. ASSUME IsInjective(queue) PROVE Handed \cap Waiting = {}
  <2> SUFFICES ASSUME NEW i \in 1 .. taken, NEW j \in taken + 1 .. Len(queue), queue[i] = queue[j]
               PROVE  FALSE
    BY DEF Handed, Waiting
  <2>1. i \in DOMAIN queue /\ j \in DOMAIN queue BY <1>1, <1>3
  <2>2. i = j BY <1>6, <2>1 DEF IsInjective
  <2> QED BY <1>4, <2>2
<1> QED BY <1>2, <1>5, <1>6

\* A worker passes entries on to what it found or to the log, or drops them.
LEMMA Progress ==
    ASSUME WalkInv, inside, TypeOK', NEW w \in Worker,
           NEW pc, NEW todo, NEW next, NEW answer, Turns(w, pc, todo, next, answer),
           UNCHANGED <<queue, taken, inside>>,
           Todo(w)' \subseteq Todo(w),
           IsInjective(next), Coming(w)' \subseteq Coming(w) \cup (Todo(w) \ Todo(w)'),
           \A d \in Coming(w)' : Clear(d),
           log' = log \/ \E e \in Todo(w) \ Todo(w)' : log' = Append(log, e)
    PROVE  ShareInv' /\ LogInv'
<1>1. /\ TypeOK /\ QueueInv /\ ShareInv /\ LogInv /\ taken <= Len(queue)
  BY DEF WalkInv, PhaseInv
<1>2. /\ queue' = queue /\ taken' = taken /\ inside' = inside /\ inside
      /\ Handed' = Handed /\ Waiting' = Waiting
  BY DEF Handed, Waiting
<1>3. /\ worker'[w].next = next /\ \A v \in Worker : v # w => worker'[v] = worker[v]
      /\ \A v \in Worker : v # w => Todo(v)' = Todo(v) /\ Coming(v)' = Coming(v)
  BY DEF Turns, Todo, Coming
<1>4. /\ Handed \subseteq Range(queue) /\ Handed \cap Waiting = {}
      /\ Range(queue) \subseteq Dirs \cup {0}
  BY <1>1, HandedIs DEF QueueInv
<1>5. Todo(w) \subseteq Entry BY <1>1, TaskIs
<1>6. ShareInv'
  <2> SUFFICES /\ \A v \in Worker : \A e \in Todo(v)' \cup Coming(v)' : Parent[e] \in Handed
               /\ \A v \in Worker : \A d \in Coming(v)' : Clear(d)
               /\ \A v \in Worker : IsInjective(worker'[v].next)
               /\ \A u, v \in Worker : Todo(u)' \cap Coming(v)' = {}
               /\ \A u, v \in Worker : u # v => /\ Todo(u)' \cap Todo(v)' = {}
                                               /\ Coming(u)' \cap Coming(v)' = {}
    BY <1>2 DEF ShareInv
  <2>1. /\ \A v \in Worker : \A e \in Todo(v) \cup Coming(v) : Parent[e] \in Handed
        /\ \A v \in Worker : \A d \in Coming(v) : Clear(d)
        /\ \A v \in Worker : IsInjective(worker[v].next)
        /\ \A u, v \in Worker : Todo(u) \cap Coming(v) = {}
        /\ \A u, v \in Worker : u # v => /\ Todo(u) \cap Todo(v) = {}
                                        /\ Coming(u) \cap Coming(v) = {}
    BY <1>1 DEF ShareInv
  <2>2. \A v \in Worker : \A e \in Todo(v)' \cup Coming(v)' : Parent[e] \in Handed
    BY <1>3, <2>1
  <2>3. \A v \in Worker : \A d \in Coming(v)' : Clear(d) BY <1>3, <2>1
  <2>4. \A v \in Worker : IsInjective(worker'[v].next) BY <1>3, <2>1
  <2>5. \A u, v \in Worker : Todo(u)' \cap Coming(v)' = {}
    <3> SUFFICES ASSUME NEW u \in Worker, NEW v \in Worker PROVE Todo(u)' \cap Coming(v)' = {}
      OBVIOUS
    <3>1. CASE v # w BY <1>3, <2>1, <3>1
    <3>2. CASE v = w /\ u # w BY <1>3, <2>1, <3>2
    <3>3. CASE v = w /\ u = w BY <2>1, <3>3
    <3> QED BY <3>1, <3>2, <3>3
  <2>6. \A u, v \in Worker : u # v => /\ Todo(u)' \cap Todo(v)' = {}
                                     /\ Coming(u)' \cap Coming(v)' = {}
    <3>1. ASSUME NEW v \in Worker, v # w
          PROVE  Todo(w)' \cap Todo(v)' = {} /\ Coming(w)' \cap Coming(v)' = {}
      BY <1>3, <2>1, <3>1
    <3> QED BY <1>3, <2>1, <3>1
  <2> QED BY <2>2, <2>3, <2>4, <2>5, <2>6
<1> DEFINE Fits(l) ==
        /\ IsInjective(l)
        /\ \A x \in Range(l), d \in Range(queue) : Level(x) <= Level(d) + 1
        /\ \A v \in Worker : Todo(v)' \cap Range(l) = {}
        /\ \A d \in Waiting : Children(d) \cap Range(l) = {}
<1>7. ASSUME Fits(log') PROVE LogInv'
  <2>1. \A x \in Range(log'), d \in Range(queue') :
            Level(x) <= IF inside' THEN Level(d) + 1 ELSE Level(d)
    BY <1>2, <1>7
  <2>2. inside' => \A v \in Worker : Todo(v)' \cap Range(log') = {} BY <1>7
  <2>3. inside' => \A d \in Waiting' : Children(d) \cap Range(log') = {} BY <1>2, <1>7
  <2> QED BY <1>7, <2>1, <2>2, <2>3 DEF LogInv
<1>8. /\ IsInjective(log)
      /\ \A x \in Range(log), d \in Range(queue) : Level(x) <= Level(d) + 1
      /\ \A v \in Worker : Todo(v) \cap Range(log) = {}
      /\ \A d \in Waiting : Children(d) \cap Range(log) = {}
  BY <1>1, <1>2 DEF LogInv
<1>9. CASE log' = log
  <2>1. \A v \in Worker : Todo(v)' \cap Range(log) = {} BY <1>3, <1>8
  <2>2. Fits(log) BY <1>8, <2>1
  <2> HIDE DEF Fits
  <2> QED BY <1>6, <1>7, <1>9, <2>2
<1>10. CASE \E e \in Todo(w) \ Todo(w)' : log' = Append(log, e)
  <2>1. PICK e \in Todo(w) \ Todo(w)' : log' = Append(log, e) BY <1>10
  <2>2. e \in Entry /\ Parent[e] \in Handed /\ e \notin Range(log) /\ log \in Seq(Entry)
    BY <1>1, <1>2, <1>5, <1>8, <2>1 DEF ShareInv, TypeOK
  <2>3. Range(log') = Range(log) \cup {e} /\ IsInjective(log')
    BY <1>8, <2>1, <2>2, RangeAppend
  <2>4. \A x \in Range(log'), d \in Range(queue) : Level(x) <= Level(d) + 1
    <3>1. \A d \in Range(queue) : Level(e) = Level(d) + 1
      BY <1>1, <1>4, <2>2, LevelOfChild DEF QueueInv
    <3>2. \A d \in Range(queue) : Level(d) \in Nat
      BY <1>1, <1>4, <2>2, LevelOfChild DEF QueueInv
    <3>3. \A d \in Range(queue) : Level(e) <= Level(d) + 1
      <4> SUFFICES ASSUME NEW d \in Range(queue) PROVE Level(e) <= Level(d) + 1 OBVIOUS
      <4>1. Level(e) = Level(d) + 1 /\ Level(d) \in Nat BY <3>1, <3>2
      <4> HIDE DEF Level
      <4> QED BY <4>1
    <3> QED BY <1>8, <2>3, <3>3
  <2>5. \A v \in Worker : Todo(v)' \cap Range(log') = {}
    <3>1. \A v \in Worker : Todo(v)' \cap Range(log) = {} BY <1>3, <1>8
    <3>2. \A v \in Worker : e \notin Todo(v)' BY <1>1, <1>2, <1>3, <2>1 DEF ShareInv
    <3> QED BY <2>3, <3>1, <3>2
  <2>6. \A d \in Waiting : Children(d) \cap Range(log') = {}
    <3>1. \A d \in Waiting : e \notin Children(d) BY <1>4, <2>2 DEF Children
    <3> QED BY <1>8, <2>3, <3>1
  <2>7. Fits(log') BY <2>3, <2>4, <2>5, <2>6
  <2> HIDE DEF Fits
  <2> QED BY <1>6, <1>7, <2>7
<1> QED BY <1>6, <1>9, <1>10

\* What is still to be found stays so, is reported or missed, or there is a reason to stop.
LEMMA CoverKeeps ==
    ASSUME WalkInv, inside, NEW w \in Worker,
           NEW pc, NEW todo, NEW next, NEW answer, Turns(w, pc, todo, next, answer),
           UNCHANGED <<queue, taken, inside>>,
           Range(log) \subseteq Range(log'), missed \subseteq missed', Early => Early',
           Coming(w) \subseteq Coming(w)',
           ~Early' /\ pc = "out" => taken = Len(queue) \/ worker[w].pc = "out",
           ~Early' => \A x \in Todo(w) \ Todo(w)' : \A e \in Expected : x \in Path[e] =>
                \/ e \in Range(log') \cup missed'
                \/ \E d \in Coming(w)' : e \in Below(d)
    PROVE  CoverInv'
<1>1. CASE Early' BY <1>1 DEF CoverInv
<1>2. CASE ~Early'
  <2>1. /\ ~Early /\ \A e \in Expected : Covered(e)
        /\ worker[1].pc = "out" => taken = Len(queue)
    BY <1>2 DEF WalkInv, CoverInv
  <2>2. /\ queue' = queue /\ taken' = taken /\ inside' = inside /\ Waiting' = Waiting
        /\ \A v \in Worker : v # w => /\ Todo(v)' = Todo(v) /\ Coming(v)' = Coming(v)
                                      /\ worker'[v] = worker[v]
        /\ worker'[w].pc = pc
    BY DEF Turns, Todo, Coming, Waiting
  <2>3. ASSUME NEW e \in Expected PROVE Covered(e)'
    <3>1. CASE e \in Range(log) \cup missed BY <3>1 DEF Covered
    <3>2. CASE \E d \in Waiting : e \in Below(d) BY <2>2, <3>2 DEF Covered
    <3>3. CASE \E v \in Worker : \E x \in Todo(v) : x \in Path[e]
      <4>1. PICK v \in Worker : \E x \in Todo(v) : x \in Path[e] BY <3>3
      <4>4. PICK x \in Todo(v) : x \in Path[e] BY <4>1
      <4>2. CASE x \in Todo(v)' BY <2>2, <4>4, <4>2 DEF Covered
      <4>3. CASE x \notin Todo(v)'
        <5>1. v = w BY <2>2, <4>4, <4>3
        <5>2. \/ e \in Range(log') \cup missed'
              \/ \E d \in Coming(w)' : e \in Below(d)
          BY <1>2, <4>4, <4>3, <5>1
        <5> QED BY <2>2, <5>2 DEF Covered
      <4> QED BY <4>2, <4>3
    <3>4. CASE \E v \in Worker : \E d \in Coming(v) : e \in Below(d)
      <4>1. PICK v \in Worker : \E d \in Coming(v) : e \in Below(d) BY <3>4
      <4>3. PICK d \in Coming(v) : e \in Below(d) BY <4>1
      <4>2. d \in Coming(v)' BY <2>2, <4>3
      <4> QED BY <2>2, <4>2, <4>3 DEF Covered
    <3> QED BY <2>1, <3>1, <3>2, <3>3, <3>4 DEF Covered
  <2>4. worker'[1].pc = "out" => taken = Len(queue)
    <3>1. CASE w = 1 BY <1>2, <2>1, <2>2, <3>1
    <3>2. CASE w # 1 BY <2>1, <2>2, <3>2, WorkersAre
    <3> QED BY <3>1, <3>2
  <2> QED BY <2>2, <2>3, <2>4 DEF CoverInv
<1> QED BY <1>1, <1>2

\* What holds of every worker's step that stays in its level.
LEMMA StaysInLevel ==
    ASSUME WalkInv, inside, TypeOK', NEW w \in Worker,
           NEW pc, NEW todo, NEW next, NEW answer, Turns(w, pc, todo, next, answer),
           UNCHANGED <<queue, inside, result>>, taken' <= Len(queue),
           pc \in {"out", "take"} => todo = {},
           pc = "call" => todo # {} /\ First(todo) \in Matches \ Noise
    PROVE  QueueInv' /\ PhaseInv' /\ TaskInv'
<1>1. QueueInv' BY DEF WalkInv, QueueInv
<1>2. PhaseInv' BY DEF WalkInv, PhaseInv
<1>3. TaskInv'
  <2>1. \A v \in Worker : v # w => worker'[v] = worker[v] BY DEF Turns
  <2>2. worker'[w].pc = pc /\ worker'[w].todo = todo BY DEF Turns
  <2> QED BY <2>1, <2>2 DEF WalkInv, TaskInv
<1> QED BY <1>1, <1>2, <1>3

LEMMA AtWork ==
    ASSUME WalkInv, NEW w \in Worker, worker[w].pc # "out"
    PROVE  /\ inside /\ result = "running" /\ taken <= Len(queue) /\ TypeOK
           /\ IsInjective(worker[w].next)
           /\ worker[w].pc = "call" =>
                /\ worker[w].todo # {} /\ First(worker[w].todo) \in Matches \ Noise
                /\ First(worker[w].todo) \in worker[w].todo
           /\ worker[w].pc = "take" => worker[w].todo = {}
BY TaskIs, FirstIs DEF WalkInv, PhaseInv, ShareInv, TaskInv

\* An entry that left a task was no match, is accounted for, or there is a reason to stop.
LEMMA EntryLeaves ==
    ASSUME TypeOK, NEW x \in Entry, NEW D, NEW L,
           x \in Matches /\ x \notin Noise => x \in L, x \in Dirs \ Noise => x \in D
    PROVE  \A e \in Expected : x \in Path[e] => e \in L \/ \E d \in D : e \in Below(d)
<1> SUFFICES ASSUME NEW e \in Expected, x \in Path[e]
             PROVE  e \in L \/ \E d \in D : e \in Below(d)
  OBVIOUS
<1>1. e \in Entry /\ e \in Matches /\ x \notin Noise BY Numbered DEF Expected
<1>2. CASE x = e BY <1>1, <1>2
<1>3. CASE x # e BY <1>1, <1>3, OnlyDirs
<1> QED BY <1>2, <1>3

-----------------------------------------------------------------------------
(* The actions of a worker *)

LEMMA RetireKeeps ==
    ASSUME WalkInv, NEW w \in Worker, Retire(w)
    PROVE  WalkInv'
<1> DEFINE t == [worker[w] EXCEPT !.pc = "out"]
<1>1. /\ worker[w].pc = "take" /\ (stop \/ Cancelled \/ taken >= Len(queue))
      /\ worker' = [worker EXCEPT ![w].pc = "out"]
      /\ UNCHANGED <<queue, taken, inside, stop, left, err, log, missed, why, result>>
  BY DEF Retire, Free
<1>2. /\ inside /\ result = "running" /\ taken <= Len(queue) /\ TypeOK
      /\ IsInjective(worker[w].next) /\ worker[w].todo = {}
  BY <1>1, AtWork
<1>3. t \in Task /\ worker' = [worker EXCEPT ![w] = t] BY <1>1, <1>2, TaskIs DEF Task, Pc
<1>4. Turns(w, "out", worker[w].todo, worker[w].next, worker[w].answer)
  <2>1. Turns(w, t.pc, t.todo, t.next, t.answer) BY <1>2, <1>3, TaskGiven
  <2> QED BY <1>2, <1>3, <2>1, TaskIs DEF Task
<1>5. TypeOK' BY <1>1, <1>2, <1>4 DEF TypeOK, Turns
<1>6. Todo(w)' = {} /\ Todo(w) = {} /\ Coming(w)' = Coming(w)
  BY <1>1, <1>4 DEF Turns, Todo, Coming
<1>7. ShareInv' /\ LogInv'
  <2>1. \A d \in Coming(w)' : Clear(d) BY <1>2, <1>6 DEF WalkInv, ShareInv
  <2> QED BY <1>1, <1>2, <1>4, <1>5, <1>6, <2>1, Progress
<1>8. CoverInv'
  <2>1. ~Early' => taken = Len(queue)
    BY <1>1, <1>2, LenProperties DEF Early, Cancelled, TypeOK
  <2>2. Early => Early' BY <1>1 DEF Early
  <2> QED BY <1>1, <1>2, <1>4, <1>6, <2>1, <2>2, CoverKeeps
<1>9. ReasonInv' BY <1>1, <1>4 DEF WalkInv, ReasonInv, Turns, Refused
<1> QED BY <1>1, <1>2, <1>4, <1>5, <1>7, <1>8, <1>9, StaysInLevel DEF WalkInv

\* A worker leaves its directory, or turns to its next entry.
LEMMA DropKeeps ==
    ASSUME WalkInv, NEW w \in Worker, worker[w].pc \in {"scan", "call"}, Free,
           NEW t \in Task, worker' = [worker EXCEPT ![w] = t],
           t.next = worker[w].next, t.pc \in {"take", "scan", "call"},
           t.pc = "take" => t.todo = {} /\ (worker[w].todo = {} \/ stop \/ Cancelled),
           t.pc # "take" => t.todo \subseteq worker[w].todo /\ worker[w].todo \ t.todo \subseteq Noise,
           t.pc = "call" => t.todo # {} /\ First(t.todo) \in Matches \ Noise
    PROVE  WalkInv'
<1>1. UNCHANGED <<queue, taken, inside, stop, left, err, log, missed, why, result>>
  BY DEF Free
<1>2. /\ inside /\ result = "running" /\ taken <= Len(queue) /\ TypeOK
      /\ IsInjective(worker[w].next) /\ Todo(w) = worker[w].todo
  BY AtWork DEF Todo
<1>3. Turns(w, t.pc, t.todo, t.next, t.answer) BY <1>2, TaskGiven
<1>4. TypeOK' BY <1>1, <1>2, <1>3 DEF TypeOK, Turns
<1>5. /\ Todo(w)' \subseteq Todo(w) /\ Coming(w)' = Coming(w)
      /\ t.pc # "take" => Todo(w)' = t.todo
  BY <1>2, <1>3 DEF Turns, Todo, Coming
<1>6. ShareInv' /\ LogInv'
  <2>1. \A d \in Coming(w)' : Clear(d) BY <1>2, <1>5 DEF WalkInv, ShareInv
  <2> QED BY <1>1, <1>2, <1>3, <1>4, <1>5, <2>1, Progress
<1>7. CoverInv'
  <2>1. Early => Early' BY <1>1 DEF Early
  <2>2. ASSUME ~Early', NEW x \in Todo(w) \ Todo(w)', NEW e \in Expected, x \in Path[e]
        PROVE  FALSE
    <3>1. t.pc # "take" BY <1>1, <1>2, <2>2 DEF Early, Cancelled
    <3>2. x \in Noise BY <1>2, <1>5, <2>2, <3>1
    <3> QED BY <2>2, <3>2 DEF Expected
  <2> QED BY <1>1, <1>2, <1>3, <1>5, <2>1, <2>2, CoverKeeps
<1>8. ReasonInv' BY <1>1, <1>3 DEF WalkInv, ReasonInv, Turns, Refused
<1> QED BY <1>1, <1>2, <1>3, <1>4, <1>6, <1>7, <1>8, StaysInLevel DEF WalkInv

\* A worker passes its first entry: whoever called the function has logged it.
LEMMA PassKeeps ==
    ASSUME WalkInv, NEW w \in Worker, worker[w].pc \in {"scan", "call"}, worker[w].todo # {},
           First(worker[w].todo) \notin Noise,
           worker' = [worker EXCEPT ![w] = Past(w)], TypeOK', ReasonInv',
           UNCHANGED <<queue, taken, inside, result>>, Early => Early', missed \subseteq missed',
           log' = log \/ log' = Append(log, First(worker[w].todo)),
           First(worker[w].todo) \in Matches => First(worker[w].todo) \in Range(log') \cup missed'
    PROVE  WalkInv'
<1> DEFINE e == First(worker[w].todo)
<1>1. /\ inside /\ taken <= Len(queue) /\ TypeOK
      /\ IsInjective(worker[w].next) /\ Todo(w) = worker[w].todo
  BY AtWork DEF Todo
<1>2. /\ e \in worker[w].todo /\ e \in Entry
      /\ Past(w) \in Task
      /\ Past(w).pc = "scan" /\ Past(w).todo = worker[w].todo \ {e}
      /\ Range(Past(w).next) = Coming(w) \cup ({e} \cap Dirs)
      /\ IsInjective(worker[w].next) /\ e \notin Coming(w) => IsInjective(Past(w).next)
  BY <1>1, PastIs
<1> HIDE DEF e
<1>3. Turns(w, "scan", worker[w].todo \ {e}, Past(w).next, Past(w).answer)
  BY <1>1, <1>2, TaskGiven
<1>4. /\ Todo(w)' = Todo(w) \ {e} /\ e \in Todo(w) \ Todo(w)'
      /\ Coming(w)' = Coming(w) \cup ({e} \cap Dirs)
  BY <1>1, <1>2, <1>3 DEF Turns, Todo, Coming
<1>5. /\ e \notin Coming(w) /\ Parent[e] \in Handed /\ Clear(Parent[e])
      /\ \A d \in Coming(w) : Clear(d)
  <2>1. Todo(w) \cap Coming(w) = {} /\ Parent[e] \in Handed /\ \A d \in Coming(w) : Clear(d)
    BY <1>1, <1>4 DEF WalkInv, ShareInv
  <2>2. Handed \subseteq Range(queue) BY <1>1, HandedIs
  <2>3. Clear(Parent[e]) BY <2>1, <2>2 DEF WalkInv, QueueInv
  <2> QED BY <1>4, <2>1, <2>3
<1>6. Clear(e) BY <1>2, <1>5, ClearChild DEF e
<1>7. ShareInv' /\ LogInv'
  <2>1. IsInjective(Past(w).next) BY <1>1, <1>2, <1>5
  <2>2. Coming(w)' \subseteq Coming(w) \cup (Todo(w) \ Todo(w)') BY <1>4
  <2>3. \A d \in Coming(w)' : Clear(d) BY <1>4, <1>5, <1>6
  <2>4. log' = log \/ \E x \in Todo(w) \ Todo(w)' : log' = Append(log, x) BY <1>4 DEF e
  <2>5. Todo(w)' \subseteq Todo(w) BY <1>4
  <2> QED BY <1>1, <1>3, <2>1, <2>2, <2>3, <2>4, <2>5, Progress
<1>8. CoverInv'
  <2>1. Range(log) \subseteq Range(log')
    <3>1. log \in Seq(Entry) BY <1>1 DEF TypeOK
    <3>2. log' = log \/ log' = Append(log, e) BY DEF e
    <3>3. CASE log' = log BY <3>3
    <3>4. CASE log' = Append(log, e) BY <1>2, <3>1, <3>4, RangeAppend
    <3> QED BY <3>2, <3>3, <3>4
  <2>2. e \in Dirs \ Noise => e \in Coming(w)' BY <1>4
  <2>3. \A x \in Expected : e \in Path[x] =>
            x \in Range(log') \cup missed' \/ \E d \in Coming(w)' : x \in Below(d)
    <3> DEFINE L == Range(log') \cup missed'
               D == Coming(w)'
    <3>1. e \in Matches /\ e \notin Noise => e \in L BY DEF e
    <3>2. e \in Dirs \ Noise => e \in D BY <2>2
    <3> HIDE DEF L, D
    <3>3. \A x \in Expected : e \in Path[x] => x \in L \/ \E d \in D : x \in Below(d)
      BY <1>1, <1>2, <3>1, <3>2, EntryLeaves
    <3> QED BY <3>3 DEF L, D
  <2>4. \A y \in Todo(w) \ Todo(w)' : y = e BY <1>4
  <2>5. Coming(w) \subseteq Coming(w)' BY <1>4
  <2> QED BY <1>1, <1>3, <2>1, <2>3, <2>4, <2>5, CoverKeeps
<1> QED BY <1>1, <1>3, <1>7, <1>8, StaysInLevel DEF WalkInv

LEMMA LeaveKeeps ==
    ASSUME WalkInv, NEW w \in Worker, Leave(w) \/ Late(w)
    PROVE  WalkInv'
<1> DEFINE t == [worker[w] EXCEPT !.pc = "take", !.todo = {}]
<1>1. /\ worker[w].pc \in {"scan", "call"} /\ Free
      /\ worker[w].todo = {} \/ stop \/ Cancelled
      /\ worker' = [worker EXCEPT ![w].pc = "take", ![w].todo = {}]
  BY DEF Leave, Late
<1>2. worker[w] \in Task BY TaskIs DEF WalkInv
<1>3. /\ t \in Task /\ worker' = [worker EXCEPT ![w] = t] /\ t.next = worker[w].next
      /\ t.pc = "take" /\ t.todo = {}
  BY <1>1, <1>2 DEF Task, Pc, WalkInv, TypeOK
<1> HIDE DEF t
<1> QED BY <1>1, <1>3, DropKeeps

LEMMA LookKeeps ==
    ASSUME WalkInv, NEW w \in Worker, Look(w)
    PROVE  WalkInv'
<1> DEFINE e == First(worker[w].todo)
<1>1. /\ worker[w].pc = "scan" /\ worker[w].todo # {} /\ ~stop /\ ~Cancelled /\ Free
      /\ worker' = [worker EXCEPT ![w] =
                IF e \in Noise THEN [worker[w] EXCEPT !.todo = @ \ {e}]
                ELSE IF e \in Matches THEN [worker[w] EXCEPT !.pc = "call"]
                ELSE Past(w)]
  BY DEF Look
<1>2. worker[w] \in Task /\ worker[w].todo \in SUBSET Entry /\ worker \in [Worker -> Task]
  BY TaskIs DEF WalkInv, TypeOK
<1>3. e \in worker[w].todo BY <1>1, <1>2, FirstIs
<1>4. CASE e \in Noise
  <2> DEFINE t == [worker[w] EXCEPT !.todo = @ \ {e}]
  <2>1. /\ t \in Task /\ worker' = [worker EXCEPT ![w] = t] /\ t.next = worker[w].next
        /\ t.pc = "scan" /\ t.todo = worker[w].todo \ {e}
    BY <1>1, <1>2, <1>4 DEF Task
  <2>2. t.todo \subseteq worker[w].todo /\ worker[w].todo \ t.todo \subseteq Noise
    BY <1>4, <2>1
  <2> HIDE DEF t
  <2> QED BY <1>1, <2>1, <2>2, DropKeeps
<1>5. CASE e \notin Noise /\ e \in Matches
  <2> DEFINE t == [worker[w] EXCEPT !.pc = "call"]
  <2>1. /\ t \in Task /\ worker' = [worker EXCEPT ![w] = t] /\ t.next = worker[w].next
        /\ t.pc = "call" /\ t.todo = worker[w].todo
    BY <1>1, <1>2, <1>5 DEF Task, Pc
  <2> HIDE DEF t
  <2> QED BY <1>1, <1>5, <2>1, DropKeeps
<1>6. CASE e \notin Noise /\ e \notin Matches
  <2>1. /\ UNCHANGED <<queue, taken, inside, stop, left, err, log, missed, why, result>>
        /\ worker' = [worker EXCEPT ![w] = Past(w)]
    BY <1>1, <1>6 DEF Free
  <2>2. TypeOK BY DEF WalkInv
  <2>3. Past(w) \in Task /\ Past(w).pc = "scan" BY <1>1, <2>2, PastIs
  <2>4. Turns(w, "scan", Past(w).todo, Past(w).next, Past(w).answer)
    BY <2>1, <2>2, <2>3, TaskGiven
  <2>5. TypeOK' BY <2>1, <2>2, <2>4 DEF TypeOK, Turns
  <2>6. ReasonInv' BY <1>1, <2>1, <2>4 DEF WalkInv, ReasonInv, Turns, Refused
  <2>7. Early' = Early BY <2>1 DEF Early
  <2> QED BY <1>1, <1>6, <2>1, <2>5, <2>6, <2>7, PassKeeps
<1> QED BY <1>4, <1>5, <1>6

LEMMA VanishedKeeps ==
    ASSUME WalkInv, NEW w \in Worker, Vanished(w)
    PROVE  WalkInv'
<1> DEFINE e == First(worker[w].todo)
<1>1. /\ worker[w].pc = "call" /\ worker' = [worker EXCEPT ![w] = Past(w)]
      /\ missed' = missed \cup {e}
      /\ UNCHANGED <<queue, taken, inside, stop, left, err, log, why, result>>
  BY DEF Vanished
<1>2. TypeOK /\ worker[w].todo # {} /\ e \in Matches \ Noise BY <1>1, AtWork
<1>3. Past(w) \in Task /\ Past(w).pc = "scan" /\ e \in Entry BY <1>2, PastIs
<1>4. Turns(w, "scan", Past(w).todo, Past(w).next, Past(w).answer) BY <1>1, <1>2, <1>3, TaskGiven
<1>5. TypeOK' BY <1>1, <1>2, <1>3, <1>4 DEF TypeOK, Turns
<1>6. ReasonInv' BY <1>1, <1>4 DEF WalkInv, ReasonInv, Turns, Refused
<1>7. Early' = Early BY <1>1 DEF Early
<1> QED BY <1>1, <1>2, <1>5, <1>6, <1>7, PassKeeps

\* What the function is called with is new, and the log stays one of entries.
LEMMA Logged ==
    ASSUME WalkInv, NEW w \in Worker, worker[w].pc = "call",
           log' = Append(log, First(worker[w].todo))
    PROVE  /\ log' \in Seq(Entry) /\ Len(log) \in Nat /\ Len(log') = Len(log) + 1
           /\ Range(log') = Range(log) \cup {First(worker[w].todo)}
           /\ First(worker[w].todo) \in Todo(w)
<1>1. TypeOK /\ First(worker[w].todo) \in worker[w].todo BY AtWork
<1>2. First(worker[w].todo) \in Entry BY <1>1, TaskIs
<1> QED BY <1>1, <1>2, RangeAppend, LenProperties DEF TypeOK, Todo

LEMMA CallOkKeeps ==
    ASSUME WalkInv, NEW w \in Worker, CallOk(w)
    PROVE  WalkInv'
<1> DEFINE e == First(worker[w].todo)
           t == [worker[w] EXCEPT !.pc = "take", !.todo = {}]
<1>1. /\ worker[w].pc = "call" /\ ~stop /\ log' = Append(log, e)
      /\ left' = (IF left > 0 THEN left - 1 ELSE 0) /\ stop' = (left = 1)
      /\ worker' = [worker EXCEPT ![w] = IF stop' THEN t ELSE Past(w)]
      /\ UNCHANGED <<queue, taken, inside, err, missed, why, result>>
  BY DEF CallOk
<1>2. /\ inside /\ result = "running" /\ taken <= Len(queue) /\ TypeOK
      /\ IsInjective(worker[w].next) /\ worker[w].todo # {} /\ e \in Matches \ Noise
  BY <1>1, AtWork
<1>3. /\ log' \in Seq(Entry) /\ Len(log) \in Nat /\ Len(log') = Len(log) + 1
      /\ Range(log') = Range(log) \cup {e} /\ e \in Todo(w)
  BY <1>1, Logged
<1>4. left \in Nat /\ left' \in Nat /\ stop' \in BOOLEAN /\ Limit \in Nat
  BY <1>1, <1>2, WalkAssumption DEF TypeOK, WalkBounds
<1>5. /\ stop' /\ ~Refused => Limit > 0 /\ Len(log') >= Limit
      /\ Limit = 0 => left' = 0
      /\ ~Refused /\ Limit > 0 => left' + Len(log') = Limit /\ (left' = 0 => stop')
  <2>1. /\ Limit = 0 => left = 0
        /\ ~Refused /\ Limit > 0 => left + Len(log) = Limit /\ left # 0
    BY <1>1 DEF WalkInv, ReasonInv
  <2>2. CASE left = 1
    <3>1. left' = 0 BY <1>1, <2>2
    <3>2. stop' BY <1>1, <2>2, Zenon
    <3> QED BY <1>3, <1>4, <2>1, <2>2, <3>1, <3>2
  <2>3. CASE left # 1
    <3>1. ~stop' /\ left' = IF left > 0 THEN left - 1 ELSE 0 BY <1>1, <2>3
    <3> QED BY <1>3, <1>4, <2>1, <2>3, <3>1
  <2> QED BY <2>2, <2>3
<1> HIDE DEF e
<1>6. CASE stop'
  <2>1. worker[w] \in Task BY <1>2, TaskIs
  <2>2. /\ t \in Task /\ worker' = [worker EXCEPT ![w] = t]
        /\ t.pc = "take" /\ t.todo = {} /\ t.next = worker[w].next /\ t.answer = worker[w].answer
    BY <1>1, <1>6, <2>1 DEF Task, Pc
  <2> HIDE DEF t
  <2>3. Turns(w, "take", {}, worker[w].next, worker[w].answer) BY <1>2, <2>2, TaskGiven
  <2>4. TypeOK' BY <1>1, <1>2, <1>3, <1>4, <2>3 DEF TypeOK, Turns
  <2>5. Todo(w)' = {} /\ Coming(w)' = Coming(w) BY <2>3 DEF Turns, Todo, Coming
  <2>6. ShareInv' /\ LogInv'
    <3>1. \A d \in Coming(w)' : Clear(d) BY <1>2, <2>5 DEF WalkInv, ShareInv
    <3>2. \E x \in Todo(w) \ Todo(w)' : log' = Append(log, x) BY <1>1, <1>3, <2>5
    <3> QED BY <1>1, <1>2, <2>3, <2>4, <2>5, <3>1, <3>2, Progress
  <2>7. CoverInv' BY <1>6 DEF CoverInv, Early
  <2>8. ReasonInv'
    <3>1. /\ why' = why /\ err' = err /\ result' = result /\ inside' = inside
          /\ \A v \in Worker : v # w => worker'[v] = worker[v]
          /\ worker'[w].pc = "take" /\ worker[w].pc = "call"
      BY <1>1, <2>3 DEF Turns
    <3> QED BY <1>5, <3>1 DEF WalkInv, ReasonInv, Refused
  <2> QED BY <1>1, <1>2, <2>3, <2>4, <2>6, <2>7, <2>8, StaysInLevel DEF WalkInv
<1>7. CASE ~stop'
  <2>1. worker' = [worker EXCEPT ![w] = Past(w)] BY <1>1, <1>7
  <2>2. Past(w) \in Task /\ Past(w).pc = "scan" BY <1>2, PastIs
  <2>3. Turns(w, "scan", Past(w).todo, Past(w).next, Past(w).answer) BY <1>2, <2>1, <2>2, TaskGiven
  <2>4. TypeOK' BY <1>1, <1>2, <1>3, <1>4, <2>3 DEF TypeOK, Turns
  <2>5. ReasonInv'
    <3>1. /\ why' = why /\ err' = err /\ result' = result /\ inside' = inside
          /\ \A v \in Worker : v # w => worker'[v] = worker[v]
          /\ worker'[w].pc = "scan" /\ worker[w].pc = "call"
      BY <1>1, <2>3 DEF Turns
    <3> QED BY <1>5, <1>7, <3>1 DEF WalkInv, ReasonInv, Refused
  <2>6. Early => Early' BY <1>1 DEF Early
  <2> QED BY <1>1, <1>2, <1>3, <2>1, <2>4, <2>5, <2>6, PassKeeps DEF e
<1> QED BY <1>6, <1>7

LEMMA CallRefusedKeeps ==
    ASSUME WalkInv, NEW w \in Worker, NEW answer \in Answers \ {"ok"}, CallRefused(w, answer)
    PROVE  WalkInv'
<1> DEFINE e == First(worker[w].todo)
           t == [worker[w] EXCEPT !.pc = "refused", !.answer = answer]
<1>1. /\ worker[w].pc = "call" /\ ~stop /\ log' = Append(log, e) /\ why' = why \cup {answer}
      /\ worker' = [worker EXCEPT ![w].pc = "refused", ![w].answer = answer]
      /\ UNCHANGED <<queue, taken, inside, stop, left, err, missed, result>>
  BY DEF CallRefused
<1>2. /\ inside /\ result = "running" /\ taken <= Len(queue) /\ TypeOK
      /\ IsInjective(worker[w].next)
  BY <1>1, AtWork
<1>3. /\ log' \in Seq(Entry) /\ Len(log) \in Nat /\ Len(log') = Len(log) + 1
      /\ Range(log') = Range(log) \cup {e} /\ e \in Todo(w)
  BY <1>1, Logged
<1>4. answer \in {"error", "done"} BY WalkAssumption DEF WalkBounds
<1>5. worker[w] \in Task BY <1>2, TaskIs
<1>6. /\ t \in Task /\ worker' = [worker EXCEPT ![w] = t] /\ t.pc = "refused"
      /\ t.todo = worker[w].todo /\ t.next = worker[w].next /\ t.answer = answer
  BY <1>1, <1>5 DEF Task, Pc
<1> HIDE DEF t, e
<1>7. Turns(w, "refused", worker[w].todo, worker[w].next, answer) BY <1>2, <1>6, TaskGiven
<1>8. TypeOK' BY <1>1, <1>2, <1>3, <1>4, <1>7 DEF TypeOK, Turns
<1>9. Todo(w)' = {} /\ Coming(w)' = Coming(w) BY <1>7 DEF Turns, Todo, Coming
<1>10. ShareInv' /\ LogInv'
  <2>1. \A d \in Coming(w)' : Clear(d) BY <1>2, <1>9 DEF WalkInv, ShareInv
  <2>2. \E x \in Todo(w) \ Todo(w)' : log' = Append(log, x) BY <1>1, <1>3, <1>9
  <2> QED BY <1>1, <1>2, <1>7, <1>8, <1>9, <2>1, <2>2, Progress
<1>11. CoverInv' BY <1>1 DEF CoverInv, Early
<1>12. ReasonInv'
  <2>1. Refused' BY <1>1, <1>4 DEF Refused
  <2>2. /\ \A v \in Worker : v # w => worker'[v] = worker[v]
        /\ worker'[w].pc = "refused" /\ worker'[w].answer = answer /\ worker[w].pc = "call"
    BY <1>1, <1>7 DEF Turns
  <2>3. "error" \in why' => err' \/ \E v \in Worker : worker'[v].pc = "refused" /\ worker'[v].answer = "error"
    BY <1>1, <2>2 DEF WalkInv, ReasonInv
  <2>4. \A v \in Worker : worker'[v].pc = "refused" =>
            worker'[v].answer \in why' \cap {"error", "done"}
    <3>1. \A v \in Worker : worker[v].pc = "refused" =>
              worker[v].answer \in why \cap {"error", "done"}
      BY DEF WalkInv, ReasonInv
    <3>2. worker'[w].answer \in why' \cap {"error", "done"} BY <1>1, <1>4, <2>2
    <3>3. why \subseteq why' BY <1>1
    <3> QED BY <2>2, <3>1, <3>2, <3>3
  <2>5. /\ err' => "error" \in why'
        /\ Limit = 0 => left' = 0
    BY <1>1 DEF WalkInv, ReasonInv
  <2> QED BY <1>1, <1>2, <2>1, <2>3, <2>4, <2>5 DEF ReasonInv
<1> QED BY <1>1, <1>2, <1>7, <1>8, <1>10, <1>11, <1>12, StaysInLevel DEF WalkInv

LEMMA StopKeeps ==
    ASSUME WalkInv, NEW w \in Worker, Stop(w)
    PROVE  WalkInv'
<1> DEFINE t == [worker[w] EXCEPT !.pc = "take", !.todo = {}, !.answer = "ok"]
<1>1. /\ worker[w].pc = "refused" /\ stop' = TRUE /\ err' = (err \/ worker[w].answer = "error")
      /\ worker' = [worker EXCEPT ![w] = t]
      /\ UNCHANGED <<queue, taken, inside, left, log, missed, why, result>>
  BY DEF Stop
<1>2. /\ inside /\ result = "running" /\ taken <= Len(queue) /\ TypeOK
      /\ IsInjective(worker[w].next)
  BY <1>1, AtWork
<1>3. worker[w] \in Task BY <1>2, TaskIs
<1>4. /\ t \in Task /\ t.pc = "take"
      /\ t.todo = {} /\ t.next = worker[w].next /\ t.answer = "ok"
  BY <1>3 DEF Task, Pc
<1>5. Turns(w, "take", {}, worker[w].next, "ok") BY <1>1, <1>2, <1>4, TaskGiven
<1> HIDE DEF t
<1>6. TypeOK' BY <1>1, <1>2, <1>5 DEF TypeOK, Turns
<1>7. Todo(w)' = {} /\ Coming(w)' = Coming(w) BY <1>5 DEF Turns, Todo, Coming
<1>8. ShareInv' /\ LogInv'
  <2>1. \A d \in Coming(w)' : Clear(d) BY <1>2, <1>7 DEF WalkInv, ShareInv
  <2> QED BY <1>1, <1>2, <1>5, <1>6, <1>7, <2>1, Progress
<1>9. CoverInv' BY <1>1 DEF CoverInv, Early
<1>10. ReasonInv'
  <2>1. worker[w].answer \in why \cap {"error", "done"} BY <1>1 DEF WalkInv, ReasonInv
  <2>2. Refused /\ Refused' BY <1>1, <2>1 DEF Refused
  <2>3. /\ \A v \in Worker : v # w => worker'[v] = worker[v]
        /\ worker'[w].pc = "take" /\ worker[w].pc = "refused"
    BY <1>1, <1>5 DEF Turns
  <2>4. "error" \in why => err' \/ \E v \in Worker : worker'[v].pc = "refused" /\ worker'[v].answer = "error"
    BY <1>1, <2>3 DEF WalkInv, ReasonInv
  <2> QED BY <1>1, <1>2, <2>1, <2>2, <2>3, <2>4 DEF WalkInv, ReasonInv
<1> QED BY <1>1, <1>2, <1>5, <1>6, <1>8, <1>9, <1>10, StaysInLevel DEF WalkInv

LEMMA TakeKeeps ==
    ASSUME WalkInv, NEW w \in Worker, Take(w)
    PROVE  WalkInv'
<1> DEFINE d == queue[taken + 1]
           t == [worker[w] EXCEPT !.pc = "scan", !.todo = Children(d)]
           u == [worker[w] EXCEPT !.pc = "scan"]
<1>1. /\ worker[w].pc = "take" /\ ~stop /\ ~Cancelled /\ taken < Len(queue) /\ taken' = taken + 1
      /\ UNCHANGED <<queue, inside, stop, left, err, log, why, result>>
      /\ \/ worker' = [worker EXCEPT ![w].pc = "scan", ![w].todo = Children(d)]
            /\ missed' = missed
         \/ worker' = [worker EXCEPT ![w].pc = "scan"] /\ missed' = missed \cup Below(d)
  BY DEF Take
<1>2. /\ inside /\ result = "running" /\ taken <= Len(queue) /\ TypeOK
      /\ IsInjective(worker[w].next) /\ worker[w].todo = {}
  BY <1>1, AtWork
<1>3. /\ queue \in Seq(Dirs \cup {0}) /\ taken \in Nat /\ Len(queue) \in Nat
      /\ DOMAIN queue = 1 .. Len(queue)
  BY <1>2, LenProperties DEF TypeOK
<1>4. /\ d \in Waiting /\ Handed' = Handed \cup {d} /\ Waiting' \subseteq Waiting /\ d \notin Waiting'
      /\ Waiting = Waiting' \cup {d} /\ taken' <= Len(queue) /\ taken' \in Nat
  <2>1. taken + 1 \in taken + 1 .. Len(queue) BY <1>1, <1>3
  <2>2. 1 .. taken + 1 = (1 .. taken) \cup {taken + 1} BY <1>3
  <2>3. taken + 1 .. Len(queue) = (taken + 2 .. Len(queue)) \cup {taken + 1} BY <1>1, <1>3
  <2>4. (taken + 1) + 1 = taken + 2 BY <1>3
  <2>5. Handed' = Handed \cup {d} BY <1>1, <2>2 DEF Handed
  <2>6. Waiting' = {queue[i] : i \in taken + 2 .. Len(queue)} BY <1>1, <2>4 DEF Waiting
  <2>7. Waiting = {queue[i] : i \in taken + 2 .. Len(queue)} \cup {d} BY <2>3 DEF Waiting
  <2>8. d \notin {queue[i] : i \in taken + 2 .. Len(queue)}
    <3> SUFFICES ASSUME NEW i \in taken + 2 .. Len(queue), queue[i] = d PROVE FALSE OBVIOUS
    <3>1. i \in DOMAIN queue /\ taken + 1 \in DOMAIN queue /\ i # taken + 1 BY <1>1, <1>3
    <3> QED BY <3>1 DEF WalkInv, QueueInv, IsInjective
  <2> QED BY <1>1, <1>3, <2>5, <2>6, <2>7, <2>8
<1>5. /\ Handed \cap Waiting = {} /\ Waiting \subseteq Range(queue)
      /\ \A x \in Range(queue) : Clear(x)
  BY <1>2, HandedIs DEF WalkInv, QueueInv
<1>6. worker[w] \in Task /\ Children(d) \in SUBSET Entry BY <1>2, TaskIs DEF Children
<1> HIDE DEF d
<1>7. PICK todo \in SUBSET Entry :
        /\ Turns(w, "scan", todo, worker[w].next, worker[w].answer)
        /\ \/ todo = Children(d) /\ missed' = missed
           \/ todo = {} /\ missed' = missed \cup Below(d)
  <2>1. t \in Task /\ u \in Task BY <1>6 DEF Task, Pc
  <2>2. CASE worker' = [worker EXCEPT ![w].pc = "scan", ![w].todo = Children(d)] /\ missed' = missed
    <3>1. /\ worker' = [worker EXCEPT ![w] = t] /\ t.pc = "scan" /\ t.todo = Children(d)
          /\ t.next = worker[w].next /\ t.answer = worker[w].answer
      BY <1>6, <2>2 DEF Task
    <3> HIDE DEF t
    <3>2. Turns(w, "scan", Children(d), worker[w].next, worker[w].answer)
      BY <1>2, <2>1, <3>1, TaskGiven
    <3> QED BY <1>6, <2>2, <3>2
  <2>3. CASE worker' = [worker EXCEPT ![w].pc = "scan"] /\ missed' = missed \cup Below(d)
    <3>1. /\ worker' = [worker EXCEPT ![w] = u] /\ u.pc = "scan" /\ u.todo = {}
          /\ u.next = worker[w].next /\ u.answer = worker[w].answer
      BY <1>2, <1>6, <2>3 DEF Task
    <3> HIDE DEF u
    <3>2. Turns(w, "scan", {}, worker[w].next, worker[w].answer)
      BY <1>2, <2>1, <3>1, TaskGiven
    <3> QED BY <1>6, <2>3, <3>2
  <2> QED BY <1>1, <2>2, <2>3 DEF d
<1>8. TypeOK'
  <2>1. missed' \subseteq Entry BY <1>2, <1>7 DEF TypeOK, Below
  <2> QED BY <1>1, <1>2, <1>4, <1>7, <2>1 DEF TypeOK, Turns
<1>9. /\ Todo(w)' = todo /\ todo \subseteq Children(d) /\ Todo(w) = {}
      /\ \A v \in Worker : Coming(v)' = Coming(v)
      /\ \A v \in Worker : v # w => Todo(v)' = Todo(v) /\ worker'[v] = worker[v]
      /\ \A v \in Worker : worker'[v].next = worker[v].next
  BY <1>1, <1>2, <1>7 DEF Turns, Todo, Coming
<1>10. /\ \A v \in Worker : \A e \in Todo(v) \cup Coming(v) : Parent[e] \in Handed
       /\ \A v \in Worker : \A x \in Coming(v) : Clear(x)
       /\ \A v \in Worker : IsInjective(worker[v].next)
       /\ \A y, v \in Worker : Todo(y) \cap Coming(v) = {}
       /\ \A y, v \in Worker : y # v => /\ Todo(y) \cap Todo(v) = {}
                                       /\ Coming(y) \cap Coming(v) = {}
  BY <1>2 DEF WalkInv, ShareInv
<1>11. \A e \in todo : Parent[e] = d BY <1>9 DEF Children
<1>12. d \notin Handed BY <1>4, <1>5
<1>13. ShareInv'
  <2>1. \A v \in Worker : \A e \in Todo(v)' \cup Coming(v)' : Parent[e] \in Handed'
    BY <1>4, <1>9, <1>10, <1>11
  <2>2. \A y, v \in Worker : Todo(y)' \cap Coming(v)' = {}
    BY <1>9, <1>10, <1>11, <1>12
  <2>3. \A y, v \in Worker : y # v => Todo(y)' \cap Todo(v)' = {}
    BY <1>9, <1>10, <1>11, <1>12
  <2> QED BY <1>9, <1>10, <2>1, <2>2, <2>3 DEF ShareInv
<1>14. LogInv'
  <2>1. /\ IsInjective(log)
        /\ \A x \in Range(log), y \in Range(queue) : Level(x) <= Level(y) + 1
        /\ \A v \in Worker : Todo(v) \cap Range(log) = {}
        /\ \A y \in Waiting : Children(y) \cap Range(log) = {}
    BY <1>2 DEF WalkInv, LogInv
  <2>2. queue' = queue /\ log' = log /\ inside' /\ inside BY <1>1, <1>2
  <2>3. \A v \in Worker : Todo(v)' \cap Range(log) = {} BY <1>4, <1>9, <2>1
  <2>4. \A y \in Waiting' : Children(y) \cap Range(log) = {} BY <1>4, <2>1
  <2> QED BY <2>1, <2>2, <2>3, <2>4 DEF LogInv
<1>15. CoverInv'
  <2> SUFFICES ASSUME ~Early' PROVE CoverInv' BY DEF CoverInv
  <2>1. \A e \in Expected : Covered(e) BY <1>1 DEF WalkInv, CoverInv, Early
  <2>2. ASSUME NEW e \in Expected PROVE Covered(e)'
    <3>1. CASE e \in Range(log) \cup missed BY <1>1, <1>7, <3>1 DEF Covered
    <3>2. CASE \E x \in Waiting : e \in Below(x)
      <4>1. PICK x \in Waiting : e \in Below(x) BY <3>2
      <4>2. CASE x = d /\ todo = Children(d)
        <5>1. e \in Entry BY Numbered DEF Expected
        <5>2. \E c \in todo : c \in Path[e] BY <4>1, <4>2, <5>1, StepDown
        <5> QED BY <1>1, <1>2, <1>9, <5>2 DEF Covered
      <4>3. CASE x = d /\ missed' = missed \cup Below(d) BY <4>1, <4>3 DEF Covered
      <4>4. CASE x # d
        <5>1. x \in Waiting' BY <1>4, <4>1, <4>4
        <5> QED BY <1>1, <1>2, <4>1, <5>1 DEF Covered
      <4> QED BY <1>7, <4>2, <4>3, <4>4
    <3>3. CASE \E v \in Worker : \E x \in Todo(v) : x \in Path[e]
      <4>1. PICK v \in Worker : \E x \in Todo(v) : x \in Path[e] BY <3>3
      <4>2. v # w BY <1>9, <4>1
      <4>3. \E x \in Todo(v)' : x \in Path[e] BY <1>9, <4>1, <4>2
      <4> QED BY <1>1, <1>2, <4>3 DEF Covered
    <3>4. CASE \E v \in Worker : \E x \in Coming(v) : e \in Below(x)
      BY <1>1, <1>2, <1>9, <3>4 DEF Covered
    <3> QED BY <1>2, <2>1, <3>1, <3>2, <3>3, <3>4 DEF Covered
  <2>3. worker'[1].pc # "out"
    <3>1. worker'[w].pc = "scan" BY <1>7 DEF Turns
    <3>2. w # 1 => worker[1].pc # "out"
      <4>1. worker[1].pc = "out" => taken = Len(queue)
        BY <1>1, <1>2 DEF WalkInv, CoverInv, Early
      <4> QED BY <1>1, <1>3, <4>1
    <3> QED BY <1>9, <3>1, <3>2, WorkersAre
  <2> QED BY <2>2, <2>3 DEF CoverInv
<1>16. ReasonInv'
  <2>1. worker'[w].pc = "scan" /\ worker[w].pc = "take" BY <1>1, <1>7 DEF Turns
  <2> QED BY <1>1, <1>2, <1>9, <2>1 DEF WalkInv, ReasonInv, Refused
<1>17. QueueInv' /\ PhaseInv' /\ TaskInv'
  <2>1. UNCHANGED <<queue, inside, result>> /\ taken' <= Len(queue) BY <1>1, <1>4
  <2> QED BY <1>2, <1>7, <1>8, <2>1, StaysInLevel
<1> QED BY <1>8, <1>13, <1>14, <1>15, <1>16, <1>17 DEF WalkInv

-----------------------------------------------------------------------------
(* Levels *)

LEMMA AllOut ==
    ASSUME WalkInv, \A w \in Worker : worker[w].pc = "out"
    PROVE  /\ \A w \in Worker : Todo(w) = {} /\ worker[w].todo = {}
           /\ "error" \in why => err
BY DEF WalkInv, TaskInv, Todo, ReasonInv

LEMMA StartLevelKeeps ==
    ASSUME WalkInv, StartLevel
    PROVE  WalkInv'
<1>1. /\ result = "running" /\ ~inside /\ queue # <<>> /\ ~stop /\ inside' = TRUE /\ taken' = 0
      /\ worker' = [w \in Worker |-> IF w <= Len(queue) THEN [Out EXCEPT !.pc = "take"] ELSE Out]
      /\ UNCHANGED <<queue, stop, left, err, log, missed, why, result>>
  BY DEF StartLevel
<1>2. TypeOK /\ \A w \in Worker : worker[w].pc = "out" BY <1>1 DEF WalkInv, PhaseInv
<1>3. /\ queue \in Seq(Dirs \cup {0}) /\ Len(queue) \in Nat \ {0}
  BY <1>1, <1>2, LenProperties, EmptySeq DEF TypeOK
<1>4. Out \in Task /\ [Out EXCEPT !.pc = "take"] \in Task BY EmptySeq DEF Out, Task, Pc
<1>5. \A w \in Worker : /\ worker'[w] \in Task /\ worker'[w].pc \in {"take", "out"}
                        /\ worker'[w].todo = {} /\ worker'[w].next = <<>>
  BY <1>1, <1>4 DEF Out
<1>6. worker'[1].pc = "take"
  <2>1. 1 <= Len(queue) BY <1>3
  <2> QED BY <1>1, <2>1, WorkersAre DEF Out
<1>7. TypeOK'
  <2>1. worker' \in [Worker -> Task] BY <1>1, <1>4
  <2>2. taken' \in Nat /\ inside' \in BOOLEAN BY <1>1
  <2> QED BY <1>1, <1>2, <2>1, <2>2 DEF TypeOK
<1>8. Waiting' = Range(queue)
  <2>1. 0 + 1 = 1 OBVIOUS
  <2>2. Range(queue) = {queue[i] : i \in 1 .. Len(queue)} BY <1>3, RangeEquality
  <2> QED BY <1>1, <2>1, <2>2 DEF Waiting
<1>9. \A w \in Worker : Todo(w)' = {} /\ Coming(w)' = {} /\ IsInjective(worker'[w].next)
  BY <1>5 DEF Todo, Coming, Range, IsInjective
<1>10. QueueInv' BY <1>1 DEF WalkInv, QueueInv
<1>11. PhaseInv'
  <2>1. taken' <= Len(queue) BY <1>1, <1>3
  <2> QED BY <1>1, <2>1 DEF PhaseInv
<1>12. TaskInv' BY <1>5 DEF TaskInv
<1>13. ShareInv' BY <1>9 DEF ShareInv
<1>14. LogInv'
  <2>1. IsInjective(log) /\ \A x \in Range(log), d \in Range(queue) : Level(x) <= Level(d)
    BY <1>1 DEF WalkInv, LogInv
  <2>2. Range(log) \subseteq Entry /\ Range(queue) \subseteq Dirs \cup {0}
    BY <1>2, RangeOfSeq DEF TypeOK
  <2>3. ASSUME NEW d \in Range(queue), NEW x \in Range(log)
        PROVE  Level(x) <= Level(d) + 1 /\ x \notin Children(d)
    <3>1. Level(x) \in Nat /\ Level(x) <= Level(d) BY <2>1, <2>2, LevelOfChild
    <3>2. Level(d) \in Nat
      <4>1. CASE d = 0 BY <4>1 DEF Level
      <4>2. CASE d # 0 BY <2>2, <4>2, LevelOfChild, Numbered
      <4> QED BY <4>1, <4>2
    <3>3. x \in Children(d) => Level(x) = Level(d) + 1 BY LevelOfChild DEF Children
    <3> HIDE DEF Level
    <3> QED BY <3>1, <3>2, <3>3
  <2>4. log' = log /\ queue' = queue /\ inside' BY <1>1
  <2>5. \A d \in Range(queue) : Children(d) \cap Range(log) = {} BY <2>3
  <2> QED BY <1>8, <1>9, <2>1, <2>3, <2>4, <2>5 DEF LogInv
<1>15. ReasonInv'
  <2>1. "error" \in why => err BY <1>2, AllOut
  <2>2. \A w \in Worker : worker'[w].pc # "refused" BY <1>5
  <2> QED BY <1>1, <2>1, <2>2 DEF WalkInv, ReasonInv, Refused
<1>16. CoverInv'
  <2>1. ASSUME ~Early', NEW e \in Expected PROVE Covered(e)'
    <3>1. Covered(e) BY <1>1, <2>1 DEF WalkInv, CoverInv, Early
    <3> QED BY <1>1, <1>8, <3>1 DEF Covered
  <2> QED BY <1>6, <2>1 DEF CoverInv
<1> QED BY <1>7, <1>10, <1>11, <1>12, <1>13, <1>14, <1>15, <1>16 DEF WalkInv

LEMMA EndLevelKeeps ==
    ASSUME WalkInv, EndLevel
    PROVE  WalkInv'
<1> DEFINE f == Found[NumWorkers]
<1>1. /\ inside /\ inside' = FALSE /\ queue' = f /\ \A w \in Worker : worker[w].pc = "out"
      /\ result' = IF err THEN "error" ELSE result
      /\ UNCHANGED <<taken, worker, stop, left, err, log, missed, why>>
  BY DEF EndLevel
<1>2. TypeOK /\ taken <= Len(queue) BY <1>1 DEF WalkInv, PhaseInv
<1>3. /\ \A w \in Worker : \A d \in Coming(w) : Parent[d] \in Handed /\ Clear(d)
      /\ \A w \in Worker : IsInjective(worker[w].next)
      /\ \A w, v \in Worker : w # v => Coming(w) \cap Coming(v) = {}
  BY <1>1 DEF WalkInv, ShareInv
<1>4. f \in Seq(Dirs) /\ IsInjective(f) /\ Range(f) = UNION {Coming(w) : w \in Worker}
  BY <1>2, <1>3, FoundOnce
<1> HIDE DEF f
<1>5. Handed \subseteq Range(queue) BY <1>2, HandedIs
<1>6. ASSUME NEW d \in Range(f)
      PROVE  /\ d \in Dirs /\ d \in Entry /\ Clear(d) /\ Parent[d] \in Range(queue)
             /\ Level(d) = Level(Parent[d]) + 1 /\ Level(d) \in Nat /\ Level(Parent[d]) \in Nat
  <2>1. d \in Dirs /\ d \in Entry BY <1>4, RangeOfSeq, Numbered
  <2>2. Clear(d) /\ Parent[d] \in Range(queue) BY <1>3, <1>4, <1>5
  <2> QED BY <2>1, <2>2, LevelOfChild
<1>7. \A d, x \in Range(queue) : Level(d) = Level(x) BY DEF WalkInv, QueueInv
<1>8. TypeOK'
  <2>1. f \in Seq(Dirs \cup {0}) BY <1>4, SeqMonotonic
  <2> QED BY <1>1, <1>2, <2>1 DEF TypeOK
<1>9. QueueInv'
  <2>1. \A d, x \in Range(f) : Level(d) = Level(x) BY <1>6, <1>7
  <2> QED BY <1>1, <1>4, <1>6, <2>1 DEF QueueInv
<1>10. PhaseInv' BY <1>1 DEF PhaseInv
<1>11. TaskInv' BY <1>1 DEF WalkInv, TaskInv
<1>12. ShareInv' BY <1>1 DEF ShareInv
<1>13. LogInv'
  <2>1. IsInjective(log) /\ \A x \in Range(log), d \in Range(queue) : Level(x) <= Level(d) + 1
    BY <1>1 DEF WalkInv, LogInv
  <2>2. ASSUME NEW x \in Range(log), NEW d \in Range(f) PROVE Level(x) <= Level(d)
    <3>1. Level(x) <= Level(Parent[d]) + 1 BY <1>6, <2>1
    <3>2. Level(d) = Level(Parent[d]) + 1 BY <1>6
    <3> HIDE DEF Level
    <3> QED BY <3>1, <3>2
  <2> QED BY <1>1, <2>1, <2>2 DEF LogInv
<1>14. ReasonInv'
  <2>1. "error" \in why => err BY <1>1, AllOut
  <2> QED BY <1>1, <2>1 DEF WalkInv, ReasonInv, Refused
<1>15. CoverInv'
  <2> SUFFICES ASSUME ~Early', NEW e \in Expected PROVE Covered(e)' BY <1>1 DEF CoverInv
  <2>1. Covered(e) /\ taken = Len(queue)
    BY <1>1, WorkersAre DEF WalkInv, CoverInv, Early
  <2>2. Waiting = {}
    <3>1. queue \in Seq(Dirs \cup {0}) BY <1>2 DEF TypeOK
    <3>2. Len(queue) \in Nat BY <3>1, LenProperties
    <3>3. taken + 1 .. Len(queue) = {} BY <2>1, <3>2
    <3> QED BY <3>3 DEF Waiting
  <2>3. \A w \in Worker : Todo(w) = {} BY <1>1, AllOut
  <2>4. e \in Range(log) \cup missed \/ \E w \in Worker : \E d \in Coming(w) : e \in Below(d)
    BY <1>1, <2>1, <2>2, <2>3 DEF Covered
  <2> QED BY <1>1, <1>4, <2>4 DEF Covered
<1> QED BY <1>8, <1>9, <1>10, <1>11, <1>12, <1>13, <1>14, <1>15 DEF WalkInv

LEMMA FinishKeeps ==
    ASSUME WalkInv, Finish
    PROVE  WalkInv'
<1>1. /\ ~inside /\ result' \in {"ok", "error", "canceled"}
      /\ UNCHANGED <<queue, taken, inside, worker, stop, left, err, log, missed, why>>
  BY DEF Finish, Return
<1>2. TypeOK' BY <1>1 DEF WalkInv, TypeOK
<1>3. PhaseInv' BY <1>1 DEF WalkInv, PhaseInv
<1>4. QueueInv' /\ TaskInv' /\ ShareInv' /\ LogInv'
  BY <1>1 DEF WalkInv, QueueInv, TaskInv, ShareInv, LogInv, Todo, Coming, Handed, Waiting
<1>5. ReasonInv' BY <1>1 DEF WalkInv, ReasonInv, Refused
<1>6. CoverInv' BY <1>1 DEF WalkInv, CoverInv, Early, Covered
<1> QED BY <1>2, <1>3, <1>4, <1>5, <1>6 DEF WalkInv

LEMMA CancelKeeps ==
    ASSUME WalkInv, Cancel
    PROVE  WalkInv'
<1>1. /\ why' = why \cup {"cancel"}
      /\ UNCHANGED <<queue, taken, inside, worker, stop, left, err, log, missed, result>>
  BY DEF Cancel
<1>2. TypeOK' BY <1>1 DEF WalkInv, TypeOK
<1>3. PhaseInv' BY <1>1 DEF WalkInv, PhaseInv
<1>4. QueueInv' /\ TaskInv' /\ ShareInv' /\ LogInv'
  BY <1>1 DEF WalkInv, QueueInv, TaskInv, ShareInv, LogInv, Todo, Coming, Handed, Waiting
<1>5. ReasonInv'
  <2>1. Refused' <=> Refused BY <1>1 DEF Refused
  <2>2. "error" \in why' <=> "error" \in why BY <1>1
  <2> QED BY <1>1, <2>1, <2>2 DEF WalkInv, ReasonInv
<1>6. CoverInv' BY <1>1 DEF CoverInv, Early
<1> QED BY <1>2, <1>3, <1>4, <1>5, <1>6 DEF WalkInv

LEMMA WalkStarts == Init => WalkInv
<1> SUFFICES ASSUME Init PROVE WalkInv
  OBVIOUS
<1>1. /\ queue = <<0>> /\ taken = 0 /\ inside = FALSE /\ worker = [w \in Worker |-> Out]
      /\ stop = FALSE /\ left = Limit /\ err = FALSE /\ log = <<>> /\ missed = {} /\ why = {}
      /\ result = "running"
  BY DEF Init
<1>2. queue \in Seq(Dirs \cup {0}) /\ Len(queue) = 1 /\ queue[1] = 0 BY <1>1
<1>3. DOMAIN queue = {1} /\ Range(queue) = {0} BY <1>1, <1>2 DEF Range
<1>4. log \in Seq(Entry) /\ Len(log) = 0 /\ Range(log) = {} /\ IsInjective(log)
  BY <1>1 DEF Range, IsInjective
<1>5. Limit \in Nat BY WalkAssumption DEF WalkBounds
<1>6. Out \in Task BY EmptySeq DEF Out, Task, Pc
<1>7. TypeOK BY <1>1, <1>2, <1>4, <1>5, <1>6 DEF TypeOK
<1>8. QueueInv BY <1>3 DEF QueueInv, IsInjective, Clear
<1>9. \A w \in Worker : worker[w] = Out BY <1>1
<1>10. PhaseInv /\ TaskInv /\ ShareInv BY <1>1, <1>9 DEF PhaseInv, TaskInv, ShareInv, Out
<1>11. LogInv BY <1>1, <1>4 DEF LogInv
<1>12. ReasonInv BY <1>1, <1>4, <1>5, <1>9 DEF ReasonInv, Refused, Out
<1>13. CoverInv
  <2>1. \A e \in Expected : e \in Below(0) BY Numbered DEF Expected, Below
  <2> QED BY <1>1, <1>3, <2>1 DEF CoverInv, Covered
<1> QED BY <1>7, <1>8, <1>10, <1>11, <1>12, <1>13 DEF WalkInv

LEMMA WalkKeeps == WalkInv /\ [Next]_vars => WalkInv'
<1> SUFFICES ASSUME WalkInv, [Next]_vars PROVE WalkInv'
  OBVIOUS
<1>1. CASE StartLevel BY <1>1, StartLevelKeeps
<1>2. CASE Finish BY <1>2, FinishKeeps
<1>3. CASE EndLevel BY <1>3, EndLevelKeeps
<1>4. CASE Cancel BY <1>4, CancelKeeps
<1>5. ASSUME NEW w \in Worker, Work(w) PROVE WalkInv'
  BY <1>5, RetireKeeps, TakeKeeps, LeaveKeeps, LookKeeps, VanishedKeeps, CallOkKeeps,
     CallRefusedKeeps, StopKeeps
  DEF Work
<1>6. CASE UNCHANGED vars
  <2>1. TypeOK' /\ QueueInv' /\ PhaseInv' /\ TaskInv'
    BY <1>6 DEF vars, WalkInv, TypeOK, QueueInv, PhaseInv, TaskInv
  <2>2. ShareInv' /\ LogInv'
    <3>1. /\ \A w \in Worker : Todo(w)' = Todo(w) /\ Coming(w)' = Coming(w)
          /\ Handed' = Handed /\ Waiting' = Waiting
      BY <1>6 DEF vars, Todo, Coming, Handed, Waiting
    <3>2. inside' = inside /\ worker' = worker /\ log' = log /\ queue' = queue BY <1>6 DEF vars
    <3>3. ShareInv' BY <3>1, <3>2 DEF WalkInv, ShareInv
    <3>4. LogInv' BY <3>1, <3>2 DEF WalkInv, LogInv
    <3> QED BY <3>3, <3>4
  <2>3. ReasonInv' /\ CoverInv'
    BY <1>6 DEF vars, WalkInv, ReasonInv, CoverInv, Refused, Early, Covered, Todo, Coming, Waiting
  <2> QED BY <2>1, <2>2, <2>3 DEF WalkInv
<1> QED BY <1>1, <1>2, <1>3, <1>4, <1>5, <1>6 DEF Next, Walk

\* The state of a walk keeps its type, for any tree, workers, limit and answers.
THEOREM WalkTypeCorrect == Spec => []TypeOK
<1>1. Spec => []WalkInv BY WalkStarts, WalkKeeps, PTL DEF Spec
<1>2. WalkInv => TypeOK BY DEF WalkInv
<1> QED BY <1>1, <1>2, PTL

\* local.go:478: a directory is handed to one worker, and nobody is called twice.
THEOREM ReportedOnce == Spec => []NoneTwice
<1>1. Spec => []WalkInv BY WalkStarts, WalkKeeps, PTL DEF Spec
<1>2. WalkInv => NoneTwice BY DEF WalkInv, LogInv, NoneTwice
<1> QED BY <1>1, <1>2, PTL

-----------------------------------------------------------------------------
(* The workers keep what one walk promises *)

\* The instance counts the same way.
LEMMA SameCount == \A T : Promise!Cardinality(T) = Cardinality(T)
BY DEF Cardinality, Promise!Cardinality

\* As many calls as entries that were reported.
LEMMA CalledOnce ==
    ASSUME TypeOK, IsInjective(log)
    PROVE  Len(log) \in Nat /\ Cardinality(Range(log)) = Len(log)
<1>1. log \in Seq(Entry) /\ Len(log) \in Nat /\ DOMAIN log = 1 .. Len(log)
  BY LenProperties DEF TypeOK
<1>2. log \in [1 .. Len(log) -> Range(log)] BY <1>1 DEF Range
<1>3. log \in Injection(1 .. Len(log), Range(log)) BY <1>2 DEF Injection
<1>4. log \in Surjection(1 .. Len(log), Range(log)) BY <1>1, <1>2 DEF Surjection, Range
<1>5. ExistsBijection(1 .. Len(log), Range(log))
  BY <1>3, <1>4 DEF ExistsBijection, Bijection
<1> QED BY <1>1, <1>5, FS_CountingElements

\* A call is a visit: of an entry that was asked for, not before its turn, within the limit.
LEMMA CallVisits ==
    ASSUME WalkInv, NEW w \in Worker, worker[w].pc = "call", ~stop,
           log' = Append(log, First(worker[w].todo)),
           why' \in {why, why \cup {"error"}, why \cup {"done"}},
           UNCHANGED <<missed, result>>
    PROVE  Promise!Next
<1> DEFINE e == First(worker[w].todo)
           D == [x \in Entry |-> Cardinality(Path[x])]
<1>1. /\ inside /\ result = "running" /\ taken <= Len(queue) /\ TypeOK /\ e \in Matches \ Noise
  BY AtWork
<1>2. Range(log') = Range(log) \cup {e} /\ e \in Todo(w) BY Logged
<1> HIDE DEF e
<1>3. e \in Entry /\ e # 0 BY <1>1, Numbered
<1>4. Parent[e] \in Range(queue) /\ Clear(Parent[e])
  <2>1. Parent[e] \in Handed BY <1>1, <1>2 DEF WalkInv, ShareInv
  <2>2. Parent[e] \in Range(queue) BY <1>1, <2>1, HandedIs
  <2> QED BY <2>2 DEF WalkInv, QueueInv
<1>5. e \in Expected
  <2>1. Clear(e) BY <1>1, <1>3, <1>4, ClearChild
  <2> QED BY <1>1, <1>3, <2>1 DEF Expected, Clear
<1>6. e \notin Range(log) BY <1>1, <1>2 DEF WalkInv, LogInv
<1>7. \A x \in Range(log) : D[x] <= D[e]
  <2> SUFFICES ASSUME NEW x \in Range(log) PROVE D[x] <= D[e] OBVIOUS
  <2>1. x \in Entry /\ x # 0
    <3>1. log \in Seq(Entry) BY <1>1 DEF TypeOK
    <3> QED BY <3>1, RangeOfSeq, Numbered
  <2>2. Level(x) <= Level(Parent[e]) + 1 BY <1>1, <1>4 DEF WalkInv, LogInv
  <2>3. Level(e) = Level(Parent[e]) + 1 BY <1>3, LevelOfChild
  <2>4. Level(x) <= Level(e) BY <2>2, <2>3
  <2> QED BY <1>3, <2>1, <2>4 DEF Level
<1>8. Promise!Full => why \cap {"error", "done"} # {}
  <2> SUFFICES ASSUME Promise!Full, ~Refused PROVE FALSE BY DEF Refused
  <2>1. Limit > 0 /\ Cardinality(Range(log)) >= Limit BY SameCount DEF Promise!Full
  <2>2. Len(log) \in Nat /\ Cardinality(Range(log)) = Len(log)
    BY <1>1, CalledOnce DEF WalkInv, LogInv
  <2>3. left + Len(log) = Limit /\ left # 0 BY <2>1 DEF WalkInv, ReasonInv
  <2>4. left \in Nat /\ Limit \in Nat BY <1>1, WalkAssumption DEF TypeOK, WalkBounds
  <2> QED BY <2>1, <2>2, <2>3, <2>4
<1>9. UNCHANGED <<missed \cap Expected, result>> BY DEF Expected
<1>10. Promise!Visit(e) BY <1>1, <1>2, <1>6, <1>7, <1>8, <1>9 DEF Promise!Visit
<1> QED BY <1>5, <1>10 DEF Promise!Next

\* A level or the walk ends: an error comes back, and nil means what it should.
LEMMA WalkReturns ==
    ASSUME WalkInv, Finish \/ EndLevel
    PROVE  Promise!Next \/ UNCHANGED Promise!vars
<1>1. /\ result = "running" /\ \A w \in Worker : worker[w].pc = "out"
      /\ UNCHANGED <<log, why, missed>>
  BY DEF WalkInv, PhaseInv, Finish, Return, EndLevel
<1>2. "error" \in why <=> err BY <1>1, AllOut DEF WalkInv, ReasonInv
<1>3. UNCHANGED <<Range(log), why, missed \cap Expected>> BY <1>1 DEF Expected
<1>4. ASSUME NEW r \in {"ok", "error", "canceled"}, result' = r,
             r = "error" <=> "error" \in why, r = "canceled" => "cancel" \in why,
             r = "ok" => \/ why # {} \/ Promise!Full
                         \/ Expected \subseteq Range(log) \cup (missed \cap Expected)
      PROVE  Promise!Next
  <2>1. Promise!Return(r) BY <1>1, <1>3, <1>4 DEF Promise!Return
  <2> QED BY <1>4, <2>1 DEF Promise!Next
<1>5. CASE EndLevel
  <2>1. CASE err
    <3>1. result' = "error" BY <1>5, <2>1 DEF EndLevel
    <3> QED BY <1>2, <1>4, <2>1, <3>1
  <2>2. CASE ~err
    <3>1. result' = result BY <1>5, <2>2 DEF EndLevel
    <3> QED BY <1>3, <3>1 DEF Promise!vars
  <2> QED BY <2>1, <2>2
<1>6. CASE Finish
  <2>1. ~inside /\ ~err BY <1>1, <1>6 DEF Finish, WalkInv, ReasonInv
  <2>2. CASE Cancelled /\ result' = "canceled" BY <1>2, <1>4, <2>1, <2>2 DEF Cancelled
  <2>3. CASE result' = "ok" /\ (queue = <<>> \/ stop)
    <3>1. ASSUME why = {}, stop PROVE Promise!Full
      <4>1. Limit > 0 /\ Len(log) >= Limit BY <3>1 DEF WalkInv, ReasonInv, Refused
      <4>2. Cardinality(Range(log)) = Len(log) BY CalledOnce DEF WalkInv, LogInv
      <4> QED BY <4>1, <4>2, SameCount DEF Promise!Full
    <3>2. ASSUME why = {}, ~stop
          PROVE  Expected \subseteq Range(log) \cup (missed \cap Expected)
      <4>1. \A e \in Expected : Covered(e) BY <3>2 DEF WalkInv, CoverInv, Early
      <4>2. Range(queue) = {} BY <2>3, <3>2 DEF Range
      <4> QED BY <2>1, <4>1, <4>2 DEF Covered
    <3> QED BY <1>2, <1>4, <2>1, <2>3, <3>1, <3>2
  <2> QED BY <1>6, <2>1, <2>2, <2>3 DEF Finish, Return
<1> QED BY <1>5, <1>6

LEMMA WorkPromised ==
    ASSUME WalkInv, NEW w \in Worker, Work(w)
    PROVE  Promise!Next \/ UNCHANGED Promise!vars
<1>1. ASSUME UNCHANGED <<log, why, missed, result>> PROVE UNCHANGED Promise!vars
  BY <1>1 DEF Promise!vars, Expected
<1>2. ASSUME missed \subseteq missed', UNCHANGED <<log, why, result>> PROVE Promise!Next
  <2> DEFINE some == (missed' \ missed) \cap Expected
  <2>1. some \in SUBSET Expected /\ missed' \cap Expected = (missed \cap Expected) \cup some
    BY <1>2
  <2>2. Promise!Vanish(some) BY <1>2, <2>1 DEF Promise!Vanish, Expected
  <2> QED BY <2>1, <2>2 DEF Promise!Next
<1>3. CASE Retire(w) \/ Leave(w) \/ Look(w) \/ Late(w)
  BY <1>1, <1>3 DEF Retire, Leave, Look, Late, Free
<1>4. CASE Take(w) BY <1>2, <1>4 DEF Take
<1>5. CASE Vanished(w) BY <1>2, <1>5 DEF Vanished
<1>6. CASE CallOk(w) BY <1>6, CallVisits DEF CallOk
<1>7. CASE \E answer \in Answers \ {"ok"} : CallRefused(w, answer)
  <2>1. PICK answer \in Answers \ {"ok"} : CallRefused(w, answer) BY <1>7
  <2>2. answer \in {"error", "done"} BY WalkAssumption DEF WalkBounds
  <2> QED BY <2>1, <2>2, CallVisits DEF CallRefused
<1>8. CASE Stop(w) BY <1>1, <1>8 DEF Stop
<1> QED BY <1>3, <1>4, <1>5, <1>6, <1>7, <1>8 DEF Work

LEMMA StepPromised == WalkInv /\ [Next]_vars => [Promise!Next]_(Promise!vars)
<1> SUFFICES ASSUME WalkInv, [Next]_vars PROVE Promise!Next \/ UNCHANGED Promise!vars
  OBVIOUS
<1>1. ASSUME UNCHANGED <<log, why, missed, result>> PROVE UNCHANGED Promise!vars
  BY <1>1 DEF Promise!vars, Expected
<1>2. CASE StartLevel BY <1>1, <1>2 DEF StartLevel
<1>3. CASE Finish \/ EndLevel BY <1>3, WalkReturns
<1>4. CASE Cancel
  <2>1. Promise!Cancel BY <1>4 DEF Cancel, Promise!Cancel, Expected
  <2> QED BY <2>1 DEF Promise!Next
<1>5. CASE \E w \in Worker : Work(w) BY <1>5, WorkPromised
<1>6. CASE UNCHANGED vars BY <1>1, <1>6 DEF vars
<1> QED BY <1>2, <1>3, <1>4, <1>5, <1>6 DEF Next, Walk

\* storage.go:110, local.go:555: the workers together do what one walk promises.  Nothing
\* is reported twice or left out without a reason, levels are not mixed, the limit holds
\* while several workers ask for the mutex, and an error of the function comes back.
THEOREM WalkKeepsPromise == Spec => Implements
<1>1. Init => Promise!Init
  <2> SUFFICES ASSUME Init PROVE Promise!Init OBVIOUS
  <2>1. Range(log) = {} /\ why = {} /\ missed \cap Expected = {} /\ result = "running"
    BY DEF Init, Range
  <2> QED BY <2>1 DEF Promise!Init
<1>2. Spec => []WalkInv BY WalkStarts, WalkKeeps, PTL DEF Spec
<1> QED BY <1>1, <1>2, StepPromised, PTL DEF Spec, Implements, Promise!Spec

-----------------------------------------------------------------------------
(* Searches *)

\* No line but the heartbeat's is there twice.
Once(s) == \A i, j \in DOMAIN s : s[i] = s[j] /\ i # j => s[i] = Pulse

\* The lines are the visible matches that were reported, as long as the client is there.
LinesInv ==
    /\ Once(stream)
    /\ \A i \in DOMAIN stream : stream[i] # Pulse => stream[i] \in seen \ Hidden
    /\ online => \A e \in seen \ Hidden : \E i \in DOMAIN stream : stream[i] = e

\* Only a client that has gone is a reason to stop early, and nil means what it should.
EndInv ==
    /\ online => reasons = {}
    /\ returned = "ok" /\ online => S!W!Full \/ Sought \subseteq seen \cup gone

SearchInv == S!TypeOK /\ LinesInv /\ EndInv

\* Another line.
LEMMA LineWritten ==
    ASSUME NEW Z, NEW s \in Seq(Z), NEW x \in Z
    PROVE  LET t == Append(s, x)
           IN  /\ t \in Seq(Z)
               /\ \A i \in DOMAIN t : t[i] = x \/ (i \in DOMAIN s /\ t[i] = s[i])
               /\ \A i \in DOMAIN s : i \in DOMAIN t /\ t[i] = s[i]
               /\ \E i \in DOMAIN t : t[i] = x
               /\ Once(s) /\ (x = Pulse \/ \A i \in DOMAIN s : s[i] # x) => Once(t)
<1> DEFINE t == Append(s, x)
<1>1. /\ t \in Seq(Z) /\ Len(s) \in Nat /\ Len(t) = Len(s) + 1 /\ t[Len(s) + 1] = x
      /\ DOMAIN s = 1 .. Len(s) /\ DOMAIN t = 1 .. Len(s) + 1
      /\ \A i \in 1 .. Len(s) : t[i] = s[i]
  BY AppendProperties, LenProperties
<1> HIDE DEF t
<1>2. DOMAIN t = DOMAIN s \cup {Len(s) + 1} /\ Len(s) + 1 \notin DOMAIN s BY <1>1
<1>3. ASSUME Once(s), x = Pulse \/ \A i \in DOMAIN s : s[i] # x PROVE Once(t)
  <2> SUFFICES ASSUME NEW i \in DOMAIN t, NEW j \in DOMAIN t, t[i] = t[j], i # j
               PROVE  t[i] = Pulse
    BY DEF Once
  <2>1. CASE i \in DOMAIN s /\ j \in DOMAIN s BY <1>1, <1>3, <2>1 DEF Once
  <2>2. CASE i = Len(s) + 1 \/ j = Len(s) + 1 BY <1>1, <1>2, <1>3, <2>2
  <2> QED BY <1>2, <2>1, <2>2
<1> QED BY <1>1, <1>2, <1>3 DEF t

LEMMA SearchStarts == S!Init => SearchInv
<1> SUFFICES ASSUME S!Init PROVE SearchInv OBVIOUS
<1>1. /\ seen = {} /\ reasons = {} /\ gone = {} /\ returned = "running" /\ online = TRUE
      /\ stream = <<>> /\ handler = "walk" /\ beat = "wait"
  BY DEF S!Init, S!W!Init
<1>2. S!TypeOK BY <1>1 DEF S!TypeOK, S!W!Reason
<1>3. LinesInv /\ EndInv BY <1>1 DEF LinesInv, Once, EndInv
<1> QED BY <1>2, <1>3 DEF SearchInv

\* A match is passed over or shown, or its client is not there any more.
LEMMA MatchKeeps ==
    ASSUME SearchInv, NEW e \in Sought, S!Skip(e) \/ S!Show(e)
    PROVE  SearchInv'
<1>1. /\ returned = "running" /\ e \notin seen /\ seen' = seen \cup {e}
      /\ UNCHANGED <<gone, returned, online, handler, beat>>
      /\ \/ e \in Hidden /\ reasons' = reasons /\ stream' = stream
         \/ e \notin Hidden /\ reasons' = reasons /\ stream' = Append(stream, e)
         \/ reasons' = reasons \cup {"done"} /\ ~online /\ stream' = stream
  BY DEF S!Skip, S!Show, S!W!Visit, S!Visible
<1>2. S!TypeOK /\ LinesInv /\ EndInv BY DEF SearchInv
<1>3. stream \in Seq(Sought \cup {Pulse}) /\ e # Pulse
  BY <1>2, SearchAssumption DEF S!TypeOK, S!SearchBounds
<1>4. CASE stream' = Append(stream, e) /\ reasons' = reasons
  <2> DEFINE t == Append(stream, e)
  <2>1. \A i \in DOMAIN stream : stream[i] # e BY <1>1, <1>2, <1>3 DEF LinesInv
  <2>2. /\ t \in Seq(Sought \cup {Pulse}) /\ Once(t)
        /\ \A i \in DOMAIN t : t[i] = e \/ (i \in DOMAIN stream /\ t[i] = stream[i])
        /\ \A i \in DOMAIN stream : i \in DOMAIN t /\ t[i] = stream[i]
        /\ \E i \in DOMAIN t : t[i] = e
    BY <1>2, <1>3, <2>1, LineWritten DEF LinesInv
  <2> HIDE DEF t
  <2>3. stream' = t BY <1>4 DEF t
  <2>4. S!TypeOK' BY <1>1, <1>2, <1>4, <2>2, <2>3 DEF S!TypeOK
  <2>5. LinesInv'
    <3>1. \A i \in DOMAIN t : t[i] # Pulse => t[i] \in seen' \ Hidden \/ t[i] = e
      BY <1>1, <1>2, <2>2 DEF LinesInv
    <3>2. online => \A x \in seen' \ Hidden : \E i \in DOMAIN t : t[i] = x
      <4> SUFFICES ASSUME online, NEW x \in seen' \ Hidden PROVE \E i \in DOMAIN t : t[i] = x
        OBVIOUS
      <4>1. CASE x = e BY <2>2, <4>1
      <4>2. CASE x # e
        <5>1. PICK i \in DOMAIN stream : stream[i] = x BY <1>1, <1>2, <4>2 DEF LinesInv
        <5> QED BY <2>2, <5>1
      <4> QED BY <4>1, <4>2
    <3>3. e \notin Hidden \/ stream' = stream BY <1>1, <1>4
    <3>4. stream' # stream
      <4>1. \E i \in DOMAIN t : t[i] = e BY <2>2
      <4> QED BY <2>1, <2>3, <4>1
    <3> QED BY <1>1, <2>2, <2>3, <3>1, <3>2, <3>3, <3>4 DEF LinesInv
  <2>6. EndInv' BY <1>1, <1>2, <1>4 DEF EndInv
  <2> QED BY <2>4, <2>5, <2>6 DEF SearchInv
<1>5. CASE stream' = stream /\ (e \in Hidden \/ ~online)
  <2>1. S!TypeOK' BY <1>1, <1>2, <1>5 DEF S!TypeOK, S!W!Reason
  <2>2. LinesInv' BY <1>1, <1>2, <1>5 DEF LinesInv
  <2>3. EndInv' BY <1>1, <1>2 DEF EndInv
  <2> QED BY <2>1, <2>2, <2>3 DEF SearchInv
<1> QED BY <1>1, <1>4, <1>5

LEMMA SearchKeeps == SearchInv /\ [S!Next]_(S!vars) => SearchInv'
<1> SUFFICES ASSUME SearchInv, [S!Next]_(S!vars) PROVE SearchInv' OBVIOUS
<1>1. S!TypeOK /\ LinesInv /\ EndInv BY DEF SearchInv
<1>2. ASSUME S!TypeOK', EndInv', UNCHANGED <<seen, stream>>, online' => online PROVE SearchInv'
  <2>1. LinesInv' BY <1>1, <1>2 DEF LinesInv
  <2> QED BY <1>2, <2>1 DEF SearchInv
<1>3. ASSUME NEW e \in Sought, S!Skip(e) \/ S!Show(e) PROVE SearchInv' BY <1>3, MatchKeeps
<1>4. ASSUME NEW e \in Sought, S!Vanish(e) PROVE SearchInv'
  <2>1. /\ gone' = gone \cup {e}
        /\ UNCHANGED <<seen, reasons, returned, online, stream, handler, beat>>
    BY <1>4 DEF S!Vanish, S!W!Vanish
  <2>2. S!TypeOK' BY <1>1, <2>1 DEF S!TypeOK
  <2>3. EndInv' BY <1>1, <2>1 DEF EndInv, S!W!Full, S!W!Cardinality
  <2> QED BY <1>2, <2>1, <2>2, <2>3
<1>5. CASE S!WalkReturns
  <2>1. PICK r \in {"ok", "error", "canceled"} : S!W!Return(r) BY <1>5 DEF S!WalkReturns
  <2>2. /\ returned' = r /\ UNCHANGED <<seen, reasons, gone, online, stream, handler, beat>>
        /\ r = "ok" => reasons # {} \/ S!W!Full \/ Sought \subseteq seen \cup gone
    BY <1>5, <2>1 DEF S!WalkReturns, S!W!Return
  <2>3. S!TypeOK' BY <1>1, <2>2 DEF S!TypeOK
  <2>4. EndInv' BY <1>1, <2>2 DEF EndInv, S!W!Full, S!W!Cardinality
  <2> QED BY <1>2, <2>2, <2>3, <2>4
<1>6. CASE S!Disconnect
  <2>1. /\ online' = FALSE /\ UNCHANGED <<seen, gone, returned, stream, handler, beat>>
        /\ reasons' \in {reasons, reasons \cup {"cancel"}}
    BY <1>6 DEF S!Disconnect, S!W!Cancel, S!walk
  <2>2. S!TypeOK' BY <1>1, <2>1 DEF S!TypeOK, S!W!Reason
  <2> QED BY <1>2, <2>1, <2>2 DEF EndInv
<1>7. CASE S!Close \/ S!Leave \/ S!Tick \/ S!Quit
  <2>1. /\ UNCHANGED <<seen, reasons, gone, returned, online, stream>>
        /\ handler' \in {handler, "closing", "returned"} /\ beat' \in {beat, "write", "ended"}
    BY <1>7 DEF S!Close, S!Leave, S!Tick, S!Quit, S!walk
  <2>2. S!TypeOK' BY <1>1, <2>1 DEF S!TypeOK
  <2>3. EndInv' BY <1>1, <2>1 DEF EndInv, S!W!Full, S!W!Cardinality
  <2> QED BY <1>2, <2>1, <2>2, <2>3
<1>8. CASE S!Beat
  <2>1. /\ UNCHANGED <<seen, reasons, gone, returned, online, handler>>
        /\ beat' \in {"wait", "ended"}
        /\ stream' = Append(stream, Pulse) \/ stream' = stream
    BY <1>8 DEF S!Beat, S!walk
  <2>2. EndInv' BY <1>1, <2>1 DEF EndInv, S!W!Full, S!W!Cardinality
  <2>3. CASE stream' = stream
    <3>1. S!TypeOK' BY <1>1, <2>1, <2>3 DEF S!TypeOK
    <3> QED BY <1>2, <2>1, <2>2, <2>3, <3>1
  <2>4. CASE stream' = Append(stream, Pulse)
    <3> DEFINE t == Append(stream, Pulse)
    <3>1. /\ t \in Seq(Sought \cup {Pulse}) /\ Once(t)
          /\ \A i \in DOMAIN t : t[i] = Pulse \/ (i \in DOMAIN stream /\ t[i] = stream[i])
          /\ \A i \in DOMAIN stream : i \in DOMAIN t /\ t[i] = stream[i]
      BY <1>1, LineWritten DEF LinesInv, S!TypeOK
    <3> HIDE DEF t
    <3>2. stream' = t BY <2>4 DEF t
    <3>3. S!TypeOK' BY <1>1, <2>1, <3>1, <3>2 DEF S!TypeOK
    <3>4. LinesInv'
      <4>1. \A i \in DOMAIN t : t[i] # Pulse => t[i] \in seen \ Hidden
        BY <1>1, <3>1 DEF LinesInv
      <4>2. online => \A x \in seen \ Hidden : \E i \in DOMAIN t : t[i] = x
        BY <1>1, <3>1 DEF LinesInv
      <4> QED BY <2>1, <3>1, <3>2, <4>1, <4>2 DEF LinesInv
    <3> QED BY <2>2, <3>3, <3>4 DEF SearchInv
  <2> QED BY <2>1, <2>3, <2>4
<1>9. CASE UNCHANGED S!vars
  <2>1. UNCHANGED <<seen, reasons, gone, returned, online, stream, handler, beat>>
    BY <1>9 DEF S!vars
  <2>2. S!TypeOK' BY <1>1, <2>1 DEF S!TypeOK
  <2>3. EndInv' BY <1>1, <2>1 DEF EndInv, S!W!Full, S!W!Cardinality
  <2> QED BY <1>2, <2>1, <2>2, <2>3
<1> QED BY <1>3, <1>4, <1>5, <1>6, <1>7, <1>8, <1>9 DEF S!Next

\* search.go:51: a reader who stays until the end is shown every visible match that is
\* still there on one line, and nothing else, for any matches, limit and pulse.
THEOREM SearchShowsAll == S!Spec => []ShownInFull
<1>1. S!Spec => []SearchInv BY SearchStarts, SearchKeeps, PTL DEF S!Spec
<1>2. SearchInv => ShownInFull
  <2> SUFFICES ASSUME SearchInv, online, returned = "ok"
               PROVE  /\ \/ S!Visible \subseteq S!Shown \cup gone
                         \/ S!Cardinality(seen) >= SearchLimit
                      /\ S!Shown \subseteq S!Visible
                      /\ Once(stream)
    BY DEF ShownInFull, S!ShownInFull, Once
  <2>1. S!TypeOK /\ LinesInv /\ EndInv BY DEF SearchInv
  <2>2. S!Shown = {stream[i] : i \in DOMAIN stream} \ {Pulse} BY DEF S!Shown, S!Range
  <2>3. S!Shown \subseteq S!Visible BY <2>1, <2>2 DEF LinesInv, S!Visible, S!TypeOK
  <2>4. CASE S!W!Full
    <3>1. S!W!Cardinality(seen) = S!Cardinality(seen) BY DEF S!W!Cardinality, S!Cardinality
    <3>2. S!Cardinality(seen) >= SearchLimit BY <2>4, <3>1 DEF S!W!Full
    <3> QED BY <2>1, <2>3, <3>2 DEF LinesInv
  <2>5. CASE Sought \subseteq seen \cup gone
    <3>1. seen \ Hidden \subseteq S!Shown
      BY <2>1, <2>2, SearchAssumption DEF LinesInv, S!TypeOK, S!SearchBounds
    <3>2. S!Visible \subseteq S!Shown \cup gone BY <2>5, <3>1 DEF S!Visible
    <3> QED BY <2>1, <2>3, <3>2 DEF LinesInv
  <2> QED BY <2>1, <2>4, <2>5 DEF EndInv
<1> QED BY <1>1, <1>2, PTL

-----------------------------------------------------------------------------
(* Archives *)

Paths(s) == {s[i].path : i \in DOMAIN s}

\* Every entry is at one place.
Distinct(s) == \A i, j \in DOMAIN s : s[i].path = s[j].path => i = j

Is(kind, e) == [kind |-> kind, path |-> e] \in disturbed

ArchiveType ==
    /\ A!TypeOK
    /\ seen \subseteq Packed
    /\ returned \in {"running", "ok", "error", "canceled"}

\* A visible file that nothing has happened to is to be written or was written.
PlacesInv ==
    /\ Distinct(entries) /\ Distinct(members)
    /\ Paths(entries) \cap Paths(members) = {}
    /\ Paths(entries) \cup Paths(members) \subseteq seen
    /\ \A e \in seen \ PackedDirs :
            A!Undisturbed(e) => e \in Paths(entries) \cup Paths(members)

\* Nothing is hidden or gone without a trace.
TraceInv ==
    /\ \A e \in hidden : Is("hide", e)
    /\ \A e \in gone : Is("vanish", e)

\* What was written of a member, except the one that is being written or has ended the loop.
WrittenInv ==
    \A i \in DOMAIN members :
        \/ members[i].path \in PackedDirs
        \/ ~A!Undisturbed(members[i].path)
        \/ members[i].got = size[members[i].path]
        \/ /\ i = Len(members)
           /\ handler \in {"open", "copy"} \/ (handler = "ended" /\ ~A!LastFits)

\* The download is at its place, and what looks whole has everything behind it.
PlaceInv ==
    /\ handler = "walk" <=> returned = "running"
    /\ handler \in {"header", "open", "copy"} => returned = "ok"
    /\ handler \in {"open", "copy"} => members # <<>> /\ A!Last.path \notin PackedDirs
    /\ online => reasons = {}
    /\ returned = "ok" /\ online => Packed \subseteq seen \cup gone
    /\ end = "whole" => handler = "ended" /\ returned = "ok" /\ online
    /\ end = "whole" /\ A!LastFits => entries = <<>>

ArchiveInv == ArchiveType /\ PlacesInv /\ TraceInv /\ WrittenInv /\ PlaceInv

LEMMA ArchiveStarts == A!Init => ArchiveInv
<1> SUFFICES ASSUME A!Init PROVE ArchiveInv OBVIOUS
<1>1. /\ seen = {} /\ reasons = {} /\ gone = {} /\ returned = "running" /\ online = TRUE
      /\ format \in {"zip", "tar"} /\ hidden \in SUBSET Packed
      /\ size = [e \in Packed |-> IF e \in PackedDirs THEN 0 ELSE 1]
      /\ nature \in [Packed -> A!Nature]
      /\ handler = "walk" /\ entries = <<>> /\ members = <<>> /\ end = "none"
      /\ disturbed = {[kind |-> "hide", path |-> e] : e \in hidden}
  BY DEF A!Init, A!W!Init
<1>2. 0 \in A!Size /\ 1 \in A!Size BY ArchiveAssumption DEF A!ArchiveBounds, A!Size
<1>3. size \in [Packed -> A!Size] BY <1>1, <1>2
<1>4. <<>> \in Seq(A!Member) /\ DOMAIN <<>> = {} BY EmptySeq
<1>5. ArchiveType BY <1>1, <1>3, <1>4 DEF ArchiveType, A!TypeOK
<1>6. PlacesInv BY <1>1, <1>4 DEF PlacesInv, Distinct, Paths
<1>7. TraceInv BY <1>1 DEF TraceInv, Is
<1>8. WrittenInv /\ PlaceInv BY <1>1, <1>4 DEF WrittenInv, PlaceInv
<1> QED BY <1>5, <1>6, <1>7, <1>8 DEF ArchiveInv

-----------------------------------------------------------------------------
(* Members and places *)

LEMMA PlaceAdded ==
    ASSUME NEW s \in Seq(A!Member), NEW m \in A!Member
    PROVE  LET t == Append(s, m)
           IN  /\ t \in Seq(A!Member) /\ Len(t) = Len(s) + 1 /\ t # <<>> /\ t[Len(t)] = m
               /\ Paths(t) = Paths(s) \cup {m.path}
               /\ Distinct(s) /\ m.path \notin Paths(s) => Distinct(t)
               /\ \A i \in DOMAIN t : (i = Len(t) /\ t[i] = m) \/ (i \in DOMAIN s /\ t[i] = s[i])
<1> DEFINE t == Append(s, m)
<1>1. /\ t \in Seq(A!Member) /\ Len(s) \in Nat /\ Len(t) = Len(s) + 1 /\ t[Len(s) + 1] = m
      /\ DOMAIN s = 1 .. Len(s) /\ DOMAIN t = 1 .. Len(s) + 1
      /\ \A i \in 1 .. Len(s) : t[i] = s[i]
  BY AppendProperties, LenProperties
<1> HIDE DEF t
<1>2. DOMAIN t = DOMAIN s \cup {Len(s) + 1} /\ Len(s) + 1 \notin DOMAIN s BY <1>1
<1>3. Paths(t) = Paths(s) \cup {m.path}
  <2>1. \A i \in DOMAIN t : t[i].path \in Paths(s) \cup {m.path} BY <1>1, <1>2 DEF Paths
  <2>2. \A i \in DOMAIN s : s[i].path \in Paths(t) BY <1>1, <1>2 DEF Paths
  <2>3. m.path \in Paths(t) BY <1>1, <1>2 DEF Paths
  <2> QED BY <2>1, <2>2, <2>3 DEF Paths
<1>4. ASSUME Distinct(s), m.path \notin Paths(s) PROVE Distinct(t)
  <2> SUFFICES ASSUME NEW i \in DOMAIN t, NEW j \in DOMAIN t, t[i].path = t[j].path PROVE i = j
    BY DEF Distinct
  <2>1. CASE i \in DOMAIN s /\ j \in DOMAIN s BY <1>1, <1>4, <2>1 DEF Distinct
  <2>2. CASE i = Len(s) + 1 \/ j = Len(s) + 1
    <3>1. \A k \in DOMAIN s : t[k].path # m.path BY <1>1, <1>4 DEF Paths
    <3> QED BY <1>1, <1>2, <2>2, <3>1
  <2> QED BY <1>2, <2>1, <2>2
<1>5. t # <<>> BY <1>1
<1> QED BY <1>1, <1>2, <1>3, <1>4, <1>5 DEF t

LEMMA PlaceTaken ==
    ASSUME NEW s \in Seq(A!Member), s # <<>>
    PROVE  LET t == Tail(s)
           IN  /\ t \in Seq(A!Member) /\ Head(s) \in A!Member /\ 1 \in DOMAIN s /\ Head(s) = s[1]
               /\ Paths(s) = Paths(t) \cup {Head(s).path}
               /\ Distinct(s) => Distinct(t) /\ Head(s).path \notin Paths(t)
               /\ \A i \in DOMAIN t : i + 1 \in DOMAIN s /\ t[i] = s[i + 1]
<1> DEFINE t == Tail(s)
<1>1. /\ t \in Seq(A!Member) /\ Len(s) \in Nat \ {0} /\ Len(t) = Len(s) - 1
      /\ DOMAIN s = 1 .. Len(s) /\ DOMAIN t = 1 .. Len(s) - 1
      /\ \A i \in 1 .. Len(s) - 1 : t[i] = s[i + 1]
      /\ Head(s) \in A!Member /\ Head(s) = s[1]
  BY HeadTailProperties, LenProperties, EmptySeq
<1> HIDE DEF t
<1>2. /\ 1 \in DOMAIN s /\ \A i \in DOMAIN t : i + 1 \in DOMAIN s /\ t[i] = s[i + 1] /\ i + 1 # 1
      /\ \A i \in DOMAIN s : i # 1 => i - 1 \in DOMAIN t /\ t[i - 1] = s[i]
  BY <1>1
<1>3. Paths(s) = Paths(t) \cup {Head(s).path}
  <2>1. \A i \in DOMAIN t : t[i].path \in Paths(s) BY <1>2 DEF Paths
  <2>2. \A i \in DOMAIN s : s[i].path \in Paths(t) \cup {Head(s).path} BY <1>1, <1>2 DEF Paths
  <2>3. Head(s).path \in Paths(s) BY <1>1, <1>2 DEF Paths
  <2> QED BY <2>1, <2>2, <2>3 DEF Paths
<1>4. ASSUME Distinct(s) PROVE Distinct(t) /\ Head(s).path \notin Paths(t)
  <2>1. ASSUME NEW i \in DOMAIN t, NEW j \in DOMAIN t, t[i].path = t[j].path PROVE i = j
    <3>1. i + 1 = j + 1 BY <1>2, <1>4, <2>1 DEF Distinct
    <3> QED BY <1>1, <3>1
  <2>2. ASSUME NEW i \in DOMAIN t, t[i].path = Head(s).path PROVE FALSE
    BY <1>1, <1>2, <1>4, <2>2 DEF Distinct
  <2> QED BY <2>1, <2>2 DEF Distinct, Paths
<1> QED BY <1>1, <1>2, <1>3, <1>4 DEF t

\* The last member gets its bytes.
LEMMA BytesWritten ==
    ASSUME NEW s \in Seq(A!Member), s # <<>>, NEW n \in A!Size
    PROVE  LET t == [s EXCEPT ![Len(s)].got = n]
           IN  /\ t \in Seq(A!Member) /\ Len(t) = Len(s) /\ DOMAIN t = DOMAIN s
               /\ Len(s) \in DOMAIN s
               /\ \A i \in DOMAIN s : t[i].path = s[i].path /\ t[i].size = s[i].size
               /\ \A i \in DOMAIN s : t[i].got = IF i = Len(s) THEN n ELSE s[i].got
<1> DEFINE t == [s EXCEPT ![Len(s)].got = n]
           m == [s[Len(s)] EXCEPT !.got = n]
<1>1. /\ Len(s) \in Nat \ {0} /\ DOMAIN s = 1 .. Len(s) /\ Len(s) \in DOMAIN s
      /\ s \in [1 .. Len(s) -> A!Member]
  BY LenProperties, EmptySeq
<1>2. s[Len(s)] \in A!Member BY <1>1
<1>3. m \in A!Member /\ m.path = s[Len(s)].path /\ m.size = s[Len(s)].size /\ m.got = n
  BY <1>2 DEF A!Member
<1>4. t = [s EXCEPT ![Len(s)] = m] OBVIOUS
<1> HIDE DEF m, t
<1>5. t \in [1 .. Len(s) -> A!Member] /\ DOMAIN t = 1 .. Len(s) BY <1>1, <1>3, <1>4
<1>6. t \in Seq(A!Member) /\ Len(t) = Len(s) BY <1>1, <1>5, SeqDef, LenProperties
<1>7. \A i \in DOMAIN s : t[i] = IF i = Len(s) THEN m ELSE s[i] BY <1>1, <1>4
<1> QED BY <1>1, <1>3, <1>5, <1>6, <1>7 DEF t

-----------------------------------------------------------------------------
(* The download *)

LEMMA Touched ==
    ASSUME NEW kind, NEW e, Is(kind, e)
    PROVE  ~A!Undisturbed(e)
BY DEF Is, A!Undisturbed

\* A member's path is an entry, and its file has a size.
LEMMA MemberIs ==
    ASSUME ArchiveType, NEW i \in DOMAIN members
    PROVE  /\ members[i] \in A!Member /\ members[i].path \in Packed
           /\ members[i].size \in A!Size /\ size[members[i].path] \in A!Size
<1>1. members \in Seq(A!Member) /\ size \in [Packed -> A!Size] BY DEF ArchiveType, A!TypeOK
<1>2. members[i] \in A!Member BY <1>1, ElementOfSeq, LenProperties
<1> QED BY <1>1, <1>2 DEF A!Member

\* What a walk lists of an entry is a size.
LEMMA ListedIs ==
    ASSUME ArchiveType, NEW e \in Packed
    PROVE  A!Listed(e) \subseteq A!Size
<1>1. size[e] \in A!Size BY DEF ArchiveType, A!TypeOK
<1> QED BY <1>1 DEF A!Listed

LEMMA CollectKeeps ==
    ASSUME ArchiveInv, NEW e \in Packed, A!Collect(e)
    PROVE  ArchiveInv'
<1>1. /\ returned = "running" /\ e \notin seen /\ seen' = seen \cup {e}
      /\ UNCHANGED <<gone, returned, reasons, online, format, nature, size, hidden, disturbed,
                     handler, members, end>>
      /\ e \in hidden => entries' = entries
      /\ handler = "walk"
  BY DEF A!Collect, A!Listing, A!W!Visit, A!World, ArchiveInv, PlaceInv
<1>2. ArchiveType /\ PlacesInv /\ TraceInv /\ WrittenInv /\ PlaceInv BY DEF ArchiveInv
<1>3. entries \in Seq(A!Member) /\ size \in [Packed -> A!Size] BY <1>2 DEF ArchiveType, A!TypeOK
<1>4. WrittenInv' BY <1>1, <1>2 DEF WrittenInv, A!Undisturbed
<1>5. PlaceInv' BY <1>1, <1>2 DEF PlaceInv, A!Last
<1>6. e \notin Paths(entries) \cup Paths(members) BY <1>1, <1>2 DEF PlacesInv
<1>7. CASE e \in hidden
  <2>1. ~A!Undisturbed(e) BY <1>2, <1>7, Touched DEF TraceInv
  <2>2. entries' = entries BY <1>1, <1>7
  <2>3. ArchiveType' BY <1>1, <1>2, <2>2 DEF ArchiveType, A!TypeOK
  <2>4. PlacesInv' BY <1>1, <1>2, <2>1, <2>2 DEF PlacesInv, A!Undisturbed
  <2>5. TraceInv' BY <1>1, <1>2, <2>2 DEF TraceInv, Is
  <2> QED BY <1>4, <1>5, <2>3, <2>4, <2>5 DEF ArchiveInv
<1>8. CASE e \notin hidden
  <2> PICK n \in A!Listed(e) : entries' = Append(entries, [path |-> e, size |-> n, got |-> 0])
    BY <1>8 DEF A!Collect, A!Listing
  <2> DEFINE m == [path |-> e, size |-> n, got |-> 0]
             t == Append(entries, m)
  <2>1. m \in A!Member /\ m.path = e
    BY <1>2, ListedIs, ArchiveAssumption DEF A!Member, A!Size, A!ArchiveBounds
  <2>2. entries' = t OBVIOUS
  <2> HIDE DEF m
  <2>3. /\ t \in Seq(A!Member) /\ Paths(t) = Paths(entries) \cup {e}
        /\ Distinct(entries) /\ e \notin Paths(entries) => Distinct(t)
        /\ \A i \in DOMAIN t : t[i] = m \/ (i \in DOMAIN entries /\ t[i] = entries[i])
    BY <1>3, <2>1, PlaceAdded
  <2> HIDE DEF t
  <2>4. ArchiveType' BY <1>1, <1>2, <2>3, <2>2 DEF ArchiveType, A!TypeOK
  <2>5. PlacesInv'
    <3>1. Distinct(t) /\ Distinct(members) /\ Paths(t) \cap Paths(members) = {}
      BY <1>2, <1>6, <2>3 DEF PlacesInv
    <3>2. Paths(t) \cup Paths(members) \subseteq seen \cup {e} BY <1>2, <2>3 DEF PlacesInv
    <3>3. \A x \in (seen \cup {e}) \ PackedDirs :
                A!Undisturbed(x) => x \in Paths(t) \cup Paths(members)
      BY <1>2, <2>3 DEF PlacesInv
    <3> QED BY <1>1, <2>2, <3>1, <3>2, <3>3 DEF PlacesInv, A!Undisturbed
  <2>6. TraceInv' BY <1>1, <1>2 DEF TraceInv, Is
  <2> QED BY <1>4, <1>5, <2>4, <2>5, <2>6 DEF ArchiveInv
<1> QED BY <1>7, <1>8

LEMMA WalkReturned ==
    ASSUME ArchiveInv, A!WalkReturns
    PROVE  ArchiveInv'
<1>1. PICK r \in {"ok", "error", "canceled"} : A!W!Return(r) BY DEF A!WalkReturns
<1>2. /\ returned = "running" /\ returned' = r
      /\ UNCHANGED <<seen, reasons, gone, online, format, nature, size, hidden, disturbed, entries,
                     members>>
      /\ r = "ok" => reasons # {} \/ Packed \subseteq seen \cup gone
      /\ IF r = "ok" THEN handler' = "header" /\ end' = end
         ELSE handler' = "ended" /\ end' = "error"
  BY <1>1 DEF A!WalkReturns, A!W!Return, A!W!Full, A!World
<1>3. ArchiveType /\ PlacesInv /\ TraceInv /\ WrittenInv /\ PlaceInv BY DEF ArchiveInv
<1>4. handler = "walk" /\ end # "whole" BY <1>2, <1>3 DEF PlaceInv
<1>5. ArchiveType' BY <1>2, <1>3 DEF ArchiveType, A!TypeOK
<1>6. PlacesInv' BY <1>2, <1>3 DEF PlacesInv, A!Undisturbed
<1>7. TraceInv' BY <1>2, <1>3 DEF TraceInv, Is
<1>8. WrittenInv' BY <1>2, <1>3, <1>4 DEF WrittenInv, A!Undisturbed
<1>9. PlaceInv' BY <1>2, <1>3, <1>4 DEF PlaceInv
<1> QED BY <1>5, <1>6, <1>7, <1>8, <1>9 DEF ArchiveInv

\* The archive is closed.
LEMMA Closed ==
    ASSUME ArchiveInv, handler \in {"header", "open", "copy"}, NEW filled, A!Close(filled),
           UNCHANGED <<seen, gone, returned, reasons, A!World, entries>>,
           ArchiveType', PlacesInv', TraceInv', WrittenInv',
           online /\ filled /\ A!LastFits' => entries = <<>>
    PROVE  ArchiveInv'
<1>1. /\ handler' = "ended" /\ end' = IF online /\ filled THEN "whole" ELSE "cut"
      /\ UNCHANGED <<online, format, disturbed>>
  BY DEF A!Close, A!World
<1>2. returned = "ok" BY DEF ArchiveInv, PlaceInv
<1>3. PlaceInv' BY <1>1, <1>2 DEF ArchiveInv, PlaceInv
<1> QED BY <1>3 DEF ArchiveInv

LEMMA HeaderKeeps ==
    ASSUME ArchiveInv, A!Header
    PROVE  ArchiveInv'
<1> DEFINE e == Head(entries)
           t == Tail(entries)
           u == Append(members, e)
<1>1. /\ handler = "header" /\ entries # <<>>
      /\ UNCHANGED <<seen, reasons, gone, returned, online, format, nature, size, hidden, disturbed>>
      /\ UNCHANGED A!World
  BY DEF A!Header, A!walk, A!World
<1>2. \/ e.path \in PackedDirs /\ entries' = t /\ handler' = "header" /\ end' = end /\ members' = members
      \/ (~A!Filled \/ ~online) /\ A!Close(A!Filled) /\ entries' = entries /\ members' = members
      \/ /\ entries' = t /\ members' = u /\ end' = end
         /\ handler' = IF e.path \in PackedDirs THEN "header" ELSE "open"
  BY DEF A!Header, A!Go
<1>3. ArchiveType /\ PlacesInv /\ TraceInv /\ WrittenInv /\ PlaceInv BY DEF ArchiveInv
<1>4. /\ entries \in Seq(A!Member) /\ members \in Seq(A!Member) /\ end # "whole" /\ returned = "ok"
  BY <1>1, <1>3 DEF ArchiveType, A!TypeOK, PlaceInv
<1>5. /\ t \in Seq(A!Member) /\ e \in A!Member /\ 1 \in DOMAIN entries /\ e = entries[1]
      /\ Paths(entries) = Paths(t) \cup {e.path}
      /\ Distinct(t) /\ e.path \notin Paths(t)
      /\ \A i \in DOMAIN t : i + 1 \in DOMAIN entries /\ t[i] = entries[i + 1]
  BY <1>1, <1>3, <1>4, PlaceTaken DEF PlacesInv
<1> HIDE DEF e, t
<1>7. CASE entries' = t /\ members' = members /\ e.path \in PackedDirs /\ handler' = "header" /\ end' = end
  <2>1. ArchiveType' BY <1>1, <1>3, <1>5, <1>7 DEF ArchiveType, A!TypeOK
  <2>2. PlacesInv'
    <3>1. Distinct(members) /\ Paths(t) \cap Paths(members) = {}
      BY <1>3, <1>5 DEF PlacesInv
    <3>2. Paths(t) \cup Paths(members) \subseteq seen BY <1>3, <1>5 DEF PlacesInv
    <3>3. \A x \in seen \ PackedDirs : A!Undisturbed(x) => x \in Paths(t) \cup Paths(members)
      BY <1>3, <1>5, <1>7 DEF PlacesInv
    <3> QED BY <1>1, <1>5, <1>7, <3>1, <3>2, <3>3 DEF PlacesInv, A!Undisturbed
  <2>3. TraceInv' BY <1>1, <1>3 DEF TraceInv, Is
  <2>4. WrittenInv' BY <1>1, <1>3, <1>7 DEF WrittenInv, A!Undisturbed
  <2>5. PlaceInv' BY <1>1, <1>3, <1>4, <1>7 DEF PlaceInv
  <2> QED BY <2>1, <2>2, <2>3, <2>4, <2>5 DEF ArchiveInv
<1>8. CASE (~A!Filled \/ ~online) /\ A!Close(A!Filled) /\ entries' = entries /\ members' = members
  <2>1. handler' = "ended" /\ end' \in {"whole", "cut"} BY <1>8 DEF A!Close
  <2>2. ArchiveType' BY <1>1, <1>3, <1>8, <2>1 DEF ArchiveType, A!TypeOK
  <2>3. PlacesInv' BY <1>1, <1>3, <1>8 DEF PlacesInv, A!Undisturbed
  <2>4. TraceInv' BY <1>1, <1>3, <1>8 DEF TraceInv, Is
  <2>5. WrittenInv' BY <1>1, <1>3, <1>8 DEF WrittenInv, A!Undisturbed
  <2> QED BY <1>1, <1>8, <2>2, <2>3, <2>4, <2>5, Closed
<1>9. CASE /\ entries' = t /\ members' = u /\ end' = end
           /\ handler' = IF e.path \in PackedDirs THEN "header" ELSE "open"
  <2>1. /\ u \in Seq(A!Member) /\ u # <<>> /\ u[Len(u)] = e
        /\ Paths(u) = Paths(members) \cup {e.path}
        /\ Distinct(members) /\ e.path \notin Paths(members) => Distinct(u)
        /\ \A i \in DOMAIN u : (i = Len(u) /\ u[i] = e) \/ (i \in DOMAIN members /\ u[i] = members[i])
    BY <1>4, <1>5, PlaceAdded
  <2> HIDE DEF u
  <2>2. ArchiveType' BY <1>1, <1>3, <1>5, <1>9, <2>1 DEF ArchiveType, A!TypeOK
  <2>3. PlacesInv'
    <3>1. Distinct(u) /\ Paths(t) \cap Paths(u) = {} BY <1>3, <1>5, <2>1 DEF PlacesInv
    <3>2. Paths(t) \cup Paths(u) = Paths(entries) \cup Paths(members) BY <1>5, <2>1
    <3> QED BY <1>1, <1>3, <1>5, <1>9, <3>1, <3>2 DEF PlacesInv, A!Undisturbed
  <2>4. TraceInv' BY <1>1, <1>3 DEF TraceInv, Is
  <2>5. WrittenInv'
    <3>1. \A i \in DOMAIN u : \/ u[i].path \in PackedDirs \/ ~A!Undisturbed(u[i].path)
                              \/ u[i].got = size[u[i].path]
                              \/ i = Len(u) /\ u[i] = e
      BY <1>1, <1>3, <2>1 DEF WrittenInv
    <3>2. e.path \notin PackedDirs => handler' = "open" BY <1>9
    <3> QED BY <1>1, <1>9, <3>1, <3>2 DEF WrittenInv, A!Undisturbed
  <2>6. PlaceInv'
    <3>1. handler' \in {"open", "copy"} => e.path \notin PackedDirs BY <1>9
    <3>2. A!Last' = e BY <1>9, <2>1 DEF A!Last
    <3>3. handler' \in {"header", "open"} BY <1>9
    <3> QED BY <1>1, <1>3, <1>4, <1>9, <2>1, <3>1, <3>2, <3>3 DEF PlaceInv
  <2> QED BY <2>2, <2>3, <2>4, <2>5, <2>6 DEF ArchiveInv
<1> QED BY <1>2, <1>7, <1>8, <1>9

LEMMA FinishArchiveKeeps ==
    ASSUME ArchiveInv, A!Finish
    PROVE  ArchiveInv'
<1>1. /\ handler = "header" /\ entries = <<>> /\ A!Close(A!Filled)
      /\ UNCHANGED <<seen, reasons, gone, returned, online, format, nature, size, hidden, disturbed>>
      /\ UNCHANGED A!World /\ UNCHANGED <<entries, members>>
  BY DEF A!Finish, A!walk, A!World
<1>2. ArchiveType /\ PlacesInv /\ TraceInv /\ WrittenInv BY DEF ArchiveInv
<1>3. handler' = "ended" /\ end' \in {"whole", "cut"} BY <1>1 DEF A!Close
<1>4. ArchiveType' BY <1>1, <1>2, <1>3 DEF ArchiveType, A!TypeOK
<1>5. PlacesInv' BY <1>1, <1>2 DEF PlacesInv, A!Undisturbed
<1>6. TraceInv' BY <1>1, <1>2 DEF TraceInv, Is
<1>7. WrittenInv' BY <1>1, <1>2 DEF WrittenInv, A!Undisturbed
<1> QED BY <1>1, <1>4, <1>5, <1>6, <1>7, Closed

\* The last member is the one that is opened and copied.
LEMMA LastIs ==
    ASSUME ArchiveInv, handler \in {"open", "copy"}
    PROVE  /\ members \in Seq(A!Member) /\ members # <<>> /\ Len(members) \in DOMAIN members
           /\ A!Last = members[Len(members)] /\ A!Last.path \notin PackedDirs
<1>1. members # <<>> /\ A!Last.path \notin PackedDirs BY DEF ArchiveInv, PlaceInv
<1>2. members \in Seq(A!Member) BY DEF ArchiveInv, ArchiveType, A!TypeOK
<1>3. Len(members) \in Nat \ {0} /\ DOMAIN members = 1 .. Len(members)
  BY <1>1, <1>2, LenProperties, EmptySeq
<1> QED BY <1>1, <1>2, <1>3 DEF A!Last

LEMMA OpenKeeps ==
    ASSUME ArchiveInv, A!Open
    PROVE  ArchiveInv'
<1>1. /\ handler = "open"
      /\ IF A!Last.path \in gone \/ nature[A!Last.path] = "closed" THEN A!Close(A!Filled) ELSE handler' = "copy" /\ end' = end
      /\ UNCHANGED <<seen, reasons, gone, returned, online, format, nature, size, hidden, disturbed>>
      /\ UNCHANGED A!World /\ UNCHANGED <<entries, members>>
  BY DEF A!Open, A!walk, A!World, A!Go
<1>2. ArchiveType /\ PlacesInv /\ TraceInv /\ WrittenInv /\ PlaceInv BY DEF ArchiveInv
<1>3. PlacesInv' BY <1>1, <1>2 DEF PlacesInv, A!Undisturbed
<1>4. TraceInv' BY <1>1, <1>2 DEF TraceInv, Is
<1>5. CASE A!Last.path \in gone \/ nature[A!Last.path] = "closed"
  <2>1. handler' = "ended" /\ end' \in {"whole", "cut"} BY <1>1, <1>5 DEF A!Close
  <2>2. ArchiveType' BY <1>1, <1>2, <2>1 DEF ArchiveType, A!TypeOK
  <2>3. ~A!LastFits' BY <1>1, <1>5, LastIs DEF A!LastFits, A!Last
  <2>4. WrittenInv' BY <1>1, <1>2, <2>1, <2>3 DEF WrittenInv, A!Undisturbed
  <2> QED BY <1>1, <1>3, <1>4, <1>5, <2>2, <2>3, <2>4, Closed
<1>6. CASE ~(A!Last.path \in gone \/ nature[A!Last.path] = "closed")
  <2>1. handler' = "copy" /\ end' = end BY <1>1, <1>6
  <2>2. ArchiveType' BY <1>1, <1>2, <2>1 DEF ArchiveType, A!TypeOK
  <2>3. WrittenInv' BY <1>1, <1>2, <2>1 DEF WrittenInv, A!Undisturbed
  <2>4. PlaceInv' BY <1>1, <1>2, <2>1 DEF PlaceInv, A!Last
  <2> QED BY <1>3, <1>4, <2>2, <2>3, <2>4 DEF ArchiveInv
<1> QED BY <1>5, <1>6

LEMMA CopyKeeps ==
    ASSUME ArchiveInv, A!Copy
    PROVE  ArchiveInv'
<1> DEFINE p == A!Last.path
<1>1. /\ handler = "copy"
      /\ \/ /\ nature[p] = "broken"
            /\ \E n \in 0 .. A!Last.size : A!Bytes(n) /\ A!Close(format = "zip" \/ n = A!Last.size)
         \/ /\ nature[p] # "broken" /\ format = "tar" /\ size[p] > A!Last.size
            /\ A!Bytes(A!Last.size) /\ A!Close(TRUE)
         \/ A!Bytes(size[p]) /\ handler' = "header" /\ end' = end
      /\ UNCHANGED <<seen, reasons, gone, returned, online, format, nature, size, hidden, disturbed, entries>>
      /\ UNCHANGED A!World
  BY DEF A!Copy, A!walk, A!World, A!Go
<1>2. ArchiveType /\ PlacesInv /\ TraceInv /\ WrittenInv /\ PlaceInv BY DEF ArchiveInv
<1>3. /\ members \in Seq(A!Member) /\ members # <<>> /\ Len(members) \in DOMAIN members
      /\ A!Last = members[Len(members)] /\ p \notin PackedDirs
  BY <1>1, LastIs
<1>4. /\ p \in Packed /\ A!Last.size \in A!Size /\ size[p] \in A!Size
      /\ \A n \in 0 .. A!Last.size : n \in A!Size
  <2>1. p \in Packed /\ A!Last.size \in A!Size /\ size[p] \in A!Size BY <1>2, <1>3, MemberIs
  <2>2. MaxSize \in Nat BY ArchiveAssumption DEF A!ArchiveBounds
  <2> QED BY <2>1, <2>2 DEF A!Size
<1> HIDE DEF p
<1>5. ASSUME NEW n \in A!Size, A!Bytes(n)
      PROVE  /\ members' \in Seq(A!Member) /\ members' # <<>> /\ Len(members') = Len(members)
             /\ A!Last'.path = p /\ A!Last'.size = A!Last.size
             /\ DOMAIN members' = DOMAIN members
             /\ \A i \in DOMAIN members : members'[i].path = members[i].path
             /\ \A i \in DOMAIN members :
                    members'[i].got = IF i = Len(members) THEN n ELSE members[i].got
             /\ PlacesInv'
  <2>1. /\ members' \in Seq(A!Member) /\ Len(members') = Len(members)
        /\ DOMAIN members' = DOMAIN members
        /\ \A i \in DOMAIN members : /\ members'[i].path = members[i].path
                                     /\ members'[i].size = members[i].size
        /\ \A i \in DOMAIN members :
                members'[i].got = IF i = Len(members) THEN n ELSE members[i].got
    BY <1>3, <1>5, BytesWritten DEF A!Bytes
  <2>2. Paths(members') = Paths(members) /\ (Distinct(members) => Distinct(members'))
    BY <2>1 DEF Paths, Distinct
  <2>3. PlacesInv' BY <1>1, <1>2, <2>2 DEF PlacesInv, A!Undisturbed
  <2>4. members' # <<>>
    <3>1. Len(members') # 0 BY <1>3, <2>1, EmptySeq
    <3> QED BY <3>1, EmptySeq
  <2>5. A!Last'.path = p /\ A!Last'.size = A!Last.size
    <3>1. A!Last' = members'[Len(members)] BY <2>1 DEF A!Last
    <3> QED BY <1>3, <2>1, <3>1 DEF p
  <2> QED BY <2>1, <2>3, <2>4, <2>5
<1>6. TraceInv' BY <1>1, <1>2 DEF TraceInv, Is
<1>7. ASSUME NEW n \in A!Size, A!Bytes(n), NEW filled, A!Close(filled),
             nature[p] = "broken" \/ (format = "tar" /\ size[p] > A!Last.size)
      PROVE  ArchiveInv'
  <2>1. handler' = "ended" /\ end' \in {"whole", "cut"} BY <1>7 DEF A!Close
  <2>2. ArchiveType' BY <1>1, <1>2, <1>5, <1>7, <2>1 DEF ArchiveType, A!TypeOK
  <2>3. ~A!LastFits'
    <3>1. ~(size[p] <= A!Last.size) \/ nature[p] = "broken"
      BY <1>4, <1>7, ArchiveAssumption DEF A!Size, A!ArchiveBounds
    <3>2. members' # <<>> /\ A!Last'.path = p /\ A!Last'.size = A!Last.size BY <1>5, <1>7
    <3>3. format = "tar" \/ nature[p] = "broken" BY <1>7
    <3> QED BY <1>1, <1>3, <3>1, <3>2, <3>3 DEF A!LastFits
  <2>4. WrittenInv'
    <3> SUFFICES ASSUME NEW i \in DOMAIN members, i # Len(members)
                 PROVE  \/ members[i].path \in PackedDirs
                        \/ ~A!Undisturbed(members[i].path)
                        \/ members[i].got = size[members[i].path]
      BY <1>1, <1>5, <1>7, <2>1, <2>3 DEF WrittenInv, A!Undisturbed
    <3> QED BY <1>2 DEF WrittenInv
  <2> QED BY <1>1, <1>5, <1>6, <1>7, <2>2, <2>3, <2>4, Closed
<1>8. CASE A!Bytes(size[p]) /\ handler' = "header" /\ end' = end
  <2>1. ArchiveType' BY <1>1, <1>2, <1>4, <1>5, <1>8 DEF ArchiveType, A!TypeOK
  <2>2. WrittenInv'
    <3> SUFFICES ASSUME NEW i \in DOMAIN members
                 PROVE  \/ members'[i].path \in PackedDirs
                        \/ ~A!Undisturbed(members'[i].path)
                        \/ members'[i].got = size[members'[i].path]
      BY <1>1, <1>4, <1>5, <1>8 DEF WrittenInv, A!Undisturbed
    <3>1. CASE i = Len(members) BY <1>3, <1>4, <1>5, <1>8, <3>1 DEF p
    <3>2. CASE i # Len(members) BY <1>2, <1>4, <1>5, <1>8, <3>2 DEF WrittenInv
    <3> QED BY <3>1, <3>2
  <2>3. PlaceInv' BY <1>1, <1>2, <1>8 DEF PlaceInv
  <2> QED BY <1>4, <1>5, <1>6, <1>8, <2>1, <2>2, <2>3 DEF ArchiveInv
<1> QED BY <1>1, <1>4, <1>7, <1>8 DEF p

\* What happens around a download leaves its trace.
LEMMA AroundKeeps ==
    ASSUME ArchiveInv, handler # "ended", A!Around
    PROVE  ArchiveInv'
<1>1. ArchiveType /\ PlacesInv /\ TraceInv /\ WrittenInv /\ PlaceInv BY DEF ArchiveInv
<1>2. end # "whole" BY <1>1 DEF PlaceInv
<1>3. ASSUME UNCHANGED <<seen, returned, format, nature, handler, entries, members, end>>, ArchiveType',
             disturbed \subseteq disturbed', gone \subseteq gone', online' => online /\ reasons' = reasons,
             \A e \in hidden' : Is("hide", e)', \A e \in gone' : Is("vanish", e)',
             \A e \in Packed : size'[e] = size[e] \/ Is("resize", e)'
      PROVE  ArchiveInv'
  <2>1. \A kind, e : Is(kind, e) => Is(kind, e)' BY <1>3 DEF Is
  <2>2. \A e : A!Undisturbed(e)' => A!Undisturbed(e) BY <1>3 DEF A!Undisturbed
  <2>3. \A e \in Packed : size'[e] = size[e] \/ ~A!Undisturbed(e)'
    BY <1>3 DEF Is, A!Undisturbed
  <2>4. PlacesInv' BY <1>1, <1>3, <2>2 DEF PlacesInv
  <2>5. TraceInv' BY <1>1, <1>3, <2>1 DEF TraceInv
  <2>6. WrittenInv'
    <3>1. \A i \in DOMAIN members : members[i].path \in Packed BY <1>1, MemberIs
    <3> QED BY <1>1, <1>3, <2>2, <2>3, <3>1 DEF WrittenInv
  <2>7. PlaceInv' BY <1>1, <1>2, <1>3 DEF PlaceInv, A!Last
  <2> QED BY <1>3, <2>4, <2>5, <2>6, <2>7 DEF ArchiveInv
<1>4. ASSUME NEW e \in Packed, A!Hide(e) PROVE ArchiveInv'
  <2>1. /\ hidden' = IF e \in hidden THEN hidden \ {e} ELSE hidden \cup {e}
        /\ disturbed' = disturbed \cup {[kind |-> "hide", path |-> e]}
        /\ UNCHANGED <<seen, reasons, returned, format, nature, handler, entries, members, end, gone,
                       online, size>>
    BY <1>4 DEF A!Hide, A!Disturb, A!Rest
  <2>2. ArchiveType' BY <1>1, <2>1 DEF ArchiveType, A!TypeOK
  <2>3. \A x \in hidden' : Is("hide", x)' BY <1>1, <2>1 DEF TraceInv, Is
  <2>4. \A x \in gone' : Is("vanish", x)' BY <1>1, <2>1 DEF TraceInv, Is
  <2> QED BY <1>3, <2>1, <2>2, <2>3, <2>4
<1>5. ASSUME NEW e \in Packed, A!Vanish(e) PROVE ArchiveInv'
  <2>1. /\ gone' = gone \cup {e}
        /\ disturbed' = disturbed \cup {[kind |-> "vanish", path |-> e]}
        /\ UNCHANGED <<seen, reasons, returned, format, nature, handler, entries, members, end, hidden,
                       online, size>>
    BY <1>5 DEF A!Vanish, A!Disturb, A!Rest
  <2>2. ArchiveType' BY <1>1, <2>1 DEF ArchiveType, A!TypeOK
  <2>3. \A x \in hidden' : Is("hide", x)' BY <1>1, <2>1 DEF TraceInv, Is
  <2>4. \A x \in gone' : Is("vanish", x)' BY <1>1, <2>1 DEF TraceInv, Is
  <2> QED BY <1>3, <2>1, <2>2, <2>3, <2>4
<1>6. ASSUME NEW e \in Packed, A!Resize(e) PROVE ArchiveInv'
  <2>1. PICK n \in A!Size : size' = [size EXCEPT ![e] = n] BY <1>6 DEF A!Resize
  <2>2. /\ disturbed' = disturbed \cup {[kind |-> "resize", path |-> e]}
        /\ UNCHANGED <<seen, reasons, returned, format, nature, handler, entries, members, end, hidden,
                       gone, online>>
    BY <1>6 DEF A!Resize, A!Disturb, A!Rest
  <2>3. ArchiveType' BY <1>1, <2>1, <2>2 DEF ArchiveType, A!TypeOK
  <2>4. \A x \in hidden' : Is("hide", x)' BY <1>1, <2>2 DEF TraceInv, Is
  <2>5. \A x \in gone' : Is("vanish", x)' BY <1>1, <2>2 DEF TraceInv, Is
  <2>6. \A x \in Packed : size'[x] = size[x] \/ Is("resize", x)'
    BY <1>1, <2>1, <2>2 DEF ArchiveType, A!TypeOK, Is
  <2> QED BY <1>3, <2>2, <2>3, <2>4, <2>5, <2>6
<1>7. CASE A!Leave
  <2>1. /\ online' = FALSE
        /\ UNCHANGED <<seen, gone, returned, format, nature, size, hidden, handler, entries, members, end,
                       disturbed>>
    BY <1>7 DEF A!Leave
  <2>2. ArchiveType' BY <1>1, <2>1 DEF ArchiveType, A!TypeOK
  <2>3. \A x \in hidden' : Is("hide", x)' BY <1>1, <2>1 DEF TraceInv, Is
  <2>4. \A x \in gone' : Is("vanish", x)' BY <1>1, <2>1 DEF TraceInv, Is
  <2> QED BY <1>3, <2>1, <2>2, <2>3, <2>4
<1> QED BY <1>4, <1>5, <1>6, <1>7 DEF A!Around

LEMMA ArchiveKeeps == ArchiveInv /\ [A!Next]_(A!vars) => ArchiveInv'
<1> SUFFICES ASSUME ArchiveInv, [A!Next]_(A!vars) PROVE ArchiveInv' OBVIOUS
<1>1. CASE A!Handle
  BY <1>1, CollectKeeps, WalkReturned, HeaderKeeps, FinishArchiveKeeps, OpenKeeps, CopyKeeps
  DEF A!Handle
<1>2. CASE handler # "ended" /\ A!Around BY <1>2, AroundKeeps
<1>3. CASE UNCHANGED A!vars
  <2>1. UNCHANGED <<seen, reasons, gone, returned, online, format, nature, size, hidden, handler, entries,
                    members, end, disturbed>>
    BY <1>3 DEF A!vars
  <2>2. ArchiveType' /\ PlacesInv' BY <2>1 DEF ArchiveInv, ArchiveType, A!TypeOK, PlacesInv, A!Undisturbed
  <2>3. TraceInv' /\ WrittenInv'
    BY <2>1 DEF ArchiveInv, TraceInv, Is, WrittenInv, A!Undisturbed, A!Last, A!LastFits
  <2>4. PlaceInv' BY <2>1 DEF ArchiveInv, PlaceInv, A!Last, A!LastFits
  <2> QED BY <2>2, <2>3, <2>4 DEF ArchiveInv
<1> QED BY <1>1, <1>2, <1>3 DEF A!Next

\* download.go:109: what a client takes for the whole directory has every file that nothing
\* happened to as one member with all its bytes, unless its last member has ended the loop,
\* for any directory, links, sizes and disturbances.
THEOREM ArchivesAreWhole == A!Spec => []ArchiveIsWhole
<1>1. A!Spec => []ArchiveInv BY ArchiveStarts, ArchiveKeeps, PTL DEF A!Spec
<1>2. ArchiveInv => ArchiveIsWhole
  <2> SUFFICES ASSUME ArchiveInv, end = "whole", A!LastFits,
                      NEW e \in Packed \ PackedDirs, A!Undisturbed(e)
               PROVE  \E i \in DOMAIN members : A!MemberOf(e) = {i} /\ members[i].got = size[e]
    BY DEF ArchiveIsWhole, A!ArchiveIsWhole
  <2>1. PlacesInv /\ TraceInv /\ WrittenInv /\ PlaceInv BY DEF ArchiveInv
  <2>2. entries = <<>> /\ handler = "ended" /\ Packed \subseteq seen \cup gone
    BY <2>1 DEF PlaceInv
  <2>3. e \in seen
    <3>1. e \notin gone BY <2>1, Touched DEF TraceInv
    <3> QED BY <2>2, <3>1
  <2>4. Paths(entries) = {} BY <2>2 DEF Paths
  <2>5. e \in Paths(members) BY <2>1, <2>3, <2>4 DEF PlacesInv
  <2>6. PICK i \in DOMAIN members : members[i].path = e BY <2>5 DEF Paths
  <2>7. A!MemberOf(e) = {i} BY <2>1, <2>6 DEF PlacesInv, Distinct, A!MemberOf
  <2>8. members[i].got = size[e] BY <2>1, <2>2, <2>6 DEF WrittenInv
  <2> QED BY <2>7, <2>8
<1> QED BY <1>1, <1>2, PTL

-----------------------------------------------------------------------------
(* Side by side *)

Searching == workload = "search"
Archiving == workload = "archive"

\* A behaviour is one of the walk, of a search or of an archive: the walk behaves as it does
\* alone, and so does what was chosen at the start.
THEOREM EachRuns ==
    ListingSpec => /\ Spec
                   /\ Searching => S!Spec
                   /\ Archiving => A!Spec
<1>1. ListingInit => Init /\ S!Init /\ A!Init BY DEF ListingInit
<1>2. [ListingNext]_lists => [Next]_vars BY DEF ListingNext, lists
<1>3. [ListingNext]_lists /\ Searching => Searching' /\ [S!Next]_(S!vars)
  BY DEF Searching, ListingNext, lists, S!vars, searching, listing
<1>4. [ListingNext]_lists /\ Archiving => Archiving' /\ [A!Next]_(A!vars)
  BY DEF Archiving, ListingNext, lists, A!vars, archiving, listing
<1>5. ListingSpec => Spec BY <1>1, <1>2, PTL DEF ListingSpec, Spec
<1>6. ListingSpec /\ Searching => S!Spec BY <1>1, <1>3, PTL DEF ListingSpec, S!Spec
<1>7. ListingSpec /\ Archiving => A!Spec BY <1>1, <1>4, PTL DEF ListingSpec, A!Spec
<1> QED BY <1>5, <1>6, <1>7
=============================================================================
