----------------------------- MODULE Guard_proofs -----------------------------
(***************************************************************************)
(* What shuts an address out, for any rates, durations, thresholds and     *)
(* numbers of requests at a time: how many wrong passwords an address can  *)
(* try before it has to wait (LoginBackoff), that being forgotten by the   *)
(* guard changes nothing, and that a ban has a cause (Guard).              *)
(***************************************************************************)
EXTENDS MCGuard, FiniteSetTheorems, TLAPS

-----------------------------------------------------------------------------
(* LoginBackoff *)

\* While the address is locked, enough failures are counted, and every login that is
\* being compared began before the last of them: none of them finds the streak stale.
LockedByStreak ==
    lock > 0 =>
        /\ fails >= MaxFails
        /\ \A l \in Login : login[l].pc = "compare" => login[l].ticks >= since

\* An address that is not locked may fail once more.
UnlockedMayFail == lock = 0 => wrong < credit

\* It is let have all the failures that are missing from the next lock.
CreditSuffices == Streak < MaxFails => MaxFails - Streak <= credit - wrong

IInv == TypeOK /\ LockedByStreak /\ UnlockedMayFail /\ CreditSuffices /\ GuessesAreFew

-----------------------------------------------------------------------------
\* No more passwords are compared than logins are handled.
LEMMA GuessingIsFinite ==
    ASSUME TypeOK
    PROVE  /\ IsFiniteSet(Guessing)
           /\ Cardinality(Guessing) \in Nat
           /\ Cardinality(Login) \in Nat
           /\ Cardinality(Guessing) <= Cardinality(Login)
<1>1. Guessing \subseteq Login BY DEF Guessing
<1>2. IsFiniteSet(Login) BY BackoffBounds
<1> QED BY <1>1, <1>2, FS_Subset, FS_CardinalityType

\* An address that is let try anew keeps within the bound, if it has a failure to spend.
LEMMA AnewKeeps ==
    ASSUME TypeOK', wrong' = 0, credit' \in Nat \ {0}
    PROVE  GuessesAreFew'
<1>1. Guessing' \subseteq Login BY DEF Guessing
<1>2. IsFiniteSet(Login) BY BackoffBounds
<1>3. /\ Cardinality(Guessing') \in Nat /\ Cardinality(Login) \in Nat
      /\ Cardinality(Guessing') <= Cardinality(Login)
  BY <1>1, <1>2, FS_Subset, FS_CardinalityType
<1>4. GuessesAreFew' <=> wrong' + Cardinality(Guessing') <= credit' - 1 + Cardinality(Login)
  BY DEF GuessesAreFew
<1> QED BY <1>3, <1>4

\* A lock is a number of ticks, and at least one.
LEMMA LocksLast ==
    ASSUME NEW n \in Nat, n >= MaxFails
    PROVE  Wait[Smaller(n - MaxFails + 1, Cap)] \in Nat \ {0}
<1>1. Smaller(n - MaxFails + 1, Cap) \in 1 .. Cap
  BY BackoffBounds DEF Smaller
<1> QED BY <1>1, BackoffBounds

\* What is counted has the range of TypeOK, also once one more failure is added.
LEMMA StreakType ==
    ASSUME TypeOK
    PROVE  /\ Streak \in 0 .. MaxFails + Cap
           /\ Smaller(Streak + 1, MaxFails + Cap) \in 1 .. MaxFails + Cap
           /\ Smaller(Streak + 1, MaxFails + Cap) < MaxFails =>
                Smaller(Streak + 1, MaxFails + Cap) = Streak + 1
           /\ Streak >= MaxFails => Smaller(Streak + 1, MaxFails + Cap) >= MaxFails
BY BackoffBounds DEF TypeOK, Streak, Smaller

-----------------------------------------------------------------------------
LEMMA Initially == Init => IInv
<1> SUFFICES ASSUME Init PROVE IInv OBVIOUS
<1>1. TypeOK BY BackoffBounds DEF Init, TypeOK, Idle
<1>2. LockedByStreak /\ UnlockedMayFail /\ CreditSuffices
  BY BackoffBounds DEF Init, LockedByStreak, UnlockedMayFail, CreditSuffices, Streak
<1>3. GuessesAreFew
  <2>1. wrong = 0 /\ credit = MaxFails BY DEF Init
  <2> QED BY <1>1, <2>1, GuessingIsFinite, BackoffBounds DEF GuessesAreFew
<1> QED BY <1>1, <1>2, <1>3 DEF IInv

\* A login is let in to the comparison only while there is a failure to spend.
LEMMA EnterKeeps ==
    ASSUME IInv, NEW l \in Login, NEW right \in BOOLEAN, Enter(l, right)
    PROVE  IInv'
<1> USE DEF IInv
<1>1. TypeOK' BY BackoffBounds DEF Enter, TypeOK
<1>2. LockedByStreak' /\ UnlockedMayFail' /\ CreditSuffices'
  BY DEF Enter, LockedByStreak, UnlockedMayFail, CreditSuffices, Streak
<1>3. GuessesAreFew'
  <2>1. wrong < credit BY DEF Enter, UnlockedMayFail
  <2>2. Guessing' \subseteq Login BY DEF Guessing
  <2>3. /\ Cardinality(Guessing') \in Nat /\ Cardinality(Login) \in Nat
        /\ Cardinality(Guessing') <= Cardinality(Login)
    BY <2>2, BackoffBounds, FS_Subset, FS_CardinalityType
  <2>4. wrong' = wrong /\ credit' = credit BY DEF Enter
  <2>5. wrong \in Nat /\ credit \in Nat BY BackoffBounds DEF TypeOK
  <2>6. GuessesAreFew' <=> wrong' + Cardinality(Guessing') <= credit' - 1 + Cardinality(Login)
    BY DEF GuessesAreFew
  <2> QED BY <2>1, <2>3, <2>4, <2>5, <2>6
<1> QED BY <1>1, <1>2, <1>3

\* A failure is counted once it is no guess any more.
LEMMA FailKeeps ==
    ASSUME IInv, NEW l \in Login, Compared(l), ~login[l].right
    PROVE  IInv'
<1> DEFINE n == Smaller(Streak + 1, MaxFails + Cap)
<1> USE DEF IInv
<1>1. /\ login' = [login EXCEPT ![l] = Idle]
      /\ fails' = n /\ since' = 0
      /\ lock' = IF n >= MaxFails THEN Wait[Smaller(n - MaxFails + 1, Cap)] ELSE lock
      /\ wrong' = wrong + 1 /\ credit' = credit /\ initialized' = initialized
      /\ login[l].pc = "compare"
  BY DEF Compared, RegisterFail, Register
<1>2. /\ Streak \in 0 .. MaxFails + Cap /\ n \in 1 .. MaxFails + Cap
      /\ n < MaxFails => n = Streak + 1
      /\ Streak >= MaxFails => n >= MaxFails
  BY StreakType
<1> HIDE DEF n
<1>3. n >= MaxFails => lock' \in Nat \ {0}
  <2>1. n \in Nat BY <1>2, BackoffBounds
  <2>2. n >= MaxFails => Wait[Smaller(n - MaxFails + 1, Cap)] \in Nat \ {0}
    BY <2>1, LocksLast
  <2> QED BY <1>1, <2>2
<1>4. n < MaxFails => lock' = lock
  BY <1>1, <1>2, BackoffBounds
<1>5. TypeOK'
  <2>1. lock' \in Nat BY <1>2, <1>3, <1>4, BackoffBounds DEF TypeOK
  <2>2. since' \in 0 .. Stale + 1 BY <1>1, BackoffBounds
  <2>3. login' \in [Login -> [pc : {"idle", "compare"}, right : BOOLEAN, ticks : 0 .. Slow]]
    BY <1>1, BackoffBounds DEF TypeOK, Idle
  <2> QED BY <1>1, <1>2, <2>1, <2>2, <2>3 DEF TypeOK
<1>6. lock > 0 => Streak >= MaxFails
  BY <1>1, BackoffBounds DEF LockedByStreak, Streak, TypeOK
<1>7. n < MaxFails => lock' = 0
  BY <1>2, <1>4, <1>6, BackoffBounds DEF TypeOK
<1>8. LockedByStreak'
  BY <1>1, <1>2, <1>5, <1>7, BackoffBounds DEF LockedByStreak, TypeOK
<1>9. wrong \in Nat /\ credit \in Nat BY BackoffBounds DEF TypeOK
<1>10. n < MaxFails => MaxFails - n <= credit' - wrong'
  BY <1>1, <1>2, <1>9, BackoffBounds DEF CreditSuffices
<1>11. UnlockedMayFail'
  BY <1>1, <1>2, <1>3, <1>9, <1>10, BackoffBounds DEF UnlockedMayFail
<1>12. CreditSuffices'
  <2>1. Streak' = n BY <1>1, BackoffBounds DEF Streak
  <2> QED BY <2>1, <1>10 DEF CreditSuffices
<1>13. GuessesAreFew'
  <2>1. l \in Guessing BY <1>1 DEF Guessing
  <2>2. Guessing' = Guessing \ {l}
    BY <1>1 DEF Guessing, Idle, TypeOK
  <2>3. Cardinality(Guessing') = Cardinality(Guessing) - 1
    BY <2>1, <2>2, GuessingIsFinite, FS_RemoveElement
  <2>4. GuessesAreFew' <=> wrong' + Cardinality(Guessing') <= credit' - 1 + Cardinality(Login)
    BY DEF GuessesAreFew
  <2> QED BY <1>1, <1>9, <2>3, <2>4, GuessingIsFinite DEF GuessesAreFew
<1> QED BY <1>5, <1>8, <1>11, <1>12, <1>13

\* The first success, and a restart, forget the failures.
LEMMA ClearKeeps ==
    ASSUME IInv, ClearFails,
           login' \in [Login -> [pc : {"idle", "compare"}, right : BOOLEAN, ticks : 0 .. Slow]]
    PROVE  IInv'
<1>1. /\ fails' = 0 /\ since' = 0 /\ lock' = 0 /\ wrong' = 0
      /\ credit' = MaxFails /\ initialized' = initialized
  BY DEF ClearFails, Anew
<1>2. TypeOK' BY <1>1, BackoffBounds DEF TypeOK, IInv
<1>3. LockedByStreak' /\ UnlockedMayFail' /\ CreditSuffices'
  BY <1>1, BackoffBounds DEF LockedByStreak, UnlockedMayFail, CreditSuffices, Streak
<1>4. GuessesAreFew' BY <1>1, <1>2, AnewKeeps, BackoffBounds
<1> QED BY <1>2, <1>3, <1>4 DEF IInv

LEMMA SucceedKeeps ==
    ASSUME IInv, NEW l \in Login, Compared(l), login[l].right
    PROVE  IInv'
<1>1. ClearFails BY DEF Compared
<1>2. login' \in [Login -> [pc : {"idle", "compare"}, right : BOOLEAN, ticks : 0 .. Slow]]
  BY BackoffBounds DEF Compared, IInv, TypeOK, Idle
<1> QED BY <1>1, <1>2, ClearKeeps

LEMMA RestartKeeps ==
    ASSUME IInv, Restart
    PROVE  IInv'
<1>1. ClearFails BY DEF Restart
<1>2. login' \in [Login -> [pc : {"idle", "compare"}, right : BOOLEAN, ticks : 0 .. Slow]]
  BY BackoffBounds DEF Restart, Idle
<1> QED BY <1>1, <1>2, ClearKeeps

\* A lock ends, or a streak becomes stale, with the failures let have that its successor
\* expects.
LEMMA TickKeeps ==
    ASSUME IInv, Tick
    PROVE  IInv'
<1> USE DEF IInv
<1>1. /\ login' = [l \in Login |-> IF login[l].pc = "idle" THEN Idle
                                   ELSE [login[l] EXCEPT !.ticks = @ + 1]]
      /\ \A l \in Login : login[l].pc = "compare" => login[l].ticks < Slow
      /\ since' = IF fails = 0 THEN 0 ELSE Smaller(since + 1, Stale + 1)
      /\ lock' = IF lock = 0 THEN 0 ELSE lock - 1
      /\ fails' = fails /\ initialized' = initialized
  BY DEF Tick
<1>2. /\ since' \in 0 .. Stale + 1 /\ since' <= since + 1
      /\ since' <= Stale => Streak' = Streak
      /\ since' > Stale => Streak' = 0
  BY <1>1, BackoffBounds DEF TypeOK, Smaller, Streak
<1>3. lock' \in Nat BY <1>1 DEF TypeOK
<1>4. \A l \in Login : /\ login'[l] \in [pc : {"idle", "compare"}, right : BOOLEAN, ticks : 0 .. Slow]
                       /\ login'[l].pc = "compare" => login'[l].ticks = login[l].ticks + 1
                       /\ login'[l].pc = login[l].pc
                       /\ login[l].pc = "compare" => login'[l].right = login[l].right
  <2> SUFFICES ASSUME NEW l \in Login
               PROVE  /\ login'[l] \in [pc : {"idle", "compare"}, right : BOOLEAN, ticks : 0 .. Slow]
                      /\ login'[l].pc = "compare" => login'[l].ticks = login[l].ticks + 1
                      /\ login'[l].pc = login[l].pc
                      /\ login[l].pc = "compare" => login'[l].right = login[l].right
    OBVIOUS
  <2>1. login[l] \in [pc : {"idle", "compare"}, right : BOOLEAN, ticks : 0 .. Slow]
    BY DEF TypeOK
  <2>2. CASE login[l].pc = "idle"
    <3>1. login'[l] = Idle BY <1>1, <2>2
    <3> QED BY <2>2, <3>1, BackoffBounds DEF Idle
  <2>3. CASE login[l].pc = "compare"
    <3>1. login'[l] = [login[l] EXCEPT !.ticks = @ + 1] BY <1>1, <2>3
    <3>2. login[l].ticks + 1 \in 0 .. Slow BY <1>1, <2>1, <2>3, BackoffBounds
    <3> QED BY <2>1, <2>3, <3>1, <3>2
  <2> QED BY <2>1, <2>2, <2>3
<1>5. LockedByStreak'
  <2> SUFFICES ASSUME lock' > 0
               PROVE  /\ fails' >= MaxFails
                      /\ \A l \in Login : login'[l].pc = "compare" => login'[l].ticks >= since'
    BY DEF LockedByStreak
  <2>1. lock > 0 BY <1>1, <1>3 DEF TypeOK
  <2>2. fails' >= MaxFails BY <2>1, <1>1 DEF LockedByStreak
  <2>3. ASSUME NEW l \in Login, login'[l].pc = "compare"
        PROVE  login'[l].ticks >= since'
    <3>1. login[l].pc = "compare" BY <2>3, <1>4
    <3>2. login[l].ticks >= since BY <2>1, <3>1 DEF LockedByStreak
    <3>3. login'[l].ticks = login[l].ticks + 1 BY <3>1, <1>4
    <3>4. login[l].ticks \in Nat /\ since \in Nat /\ since' \in Nat
      BY <1>2, BackoffBounds DEF TypeOK
    <3> QED BY <3>2, <3>3, <3>4, <1>2
  <2> QED BY <2>2, <2>3
<1>6. (since' > Stale /\ Anew(MaxFails)) \/ (since' <= Stale /\ lock = 1 /\ Anew(1))
        \/ (since' <= Stale /\ lock # 1 /\ wrong' = wrong /\ credit' = credit)
  BY DEF Tick
<1>7. CASE since' > Stale /\ Anew(MaxFails)
  <2>1. wrong' = 0 /\ credit' = MaxFails BY <1>7 DEF Anew
  <2>2. TypeOK'
    <3>1. login' \in [Login -> [pc : {"idle", "compare"}, right : BOOLEAN, ticks : 0 .. Slow]]
      BY <1>1, <1>4
    <3> QED BY <1>1, <1>2, <1>3, <2>1, <3>1, BackoffBounds DEF TypeOK
  <2>3. UnlockedMayFail' /\ CreditSuffices'
    BY <1>2, <1>7, <2>1, BackoffBounds DEF UnlockedMayFail, CreditSuffices
  <2>4. GuessesAreFew' BY <2>1, <2>2, AnewKeeps, BackoffBounds
  <2> QED BY <1>5, <2>2, <2>3, <2>4
<1>8. CASE since' <= Stale /\ lock = 1 /\ Anew(1)
  <2>1. wrong' = 0 /\ credit' = 1 BY <1>8 DEF Anew
  <2>2. TypeOK'
    <3>1. login' \in [Login -> [pc : {"idle", "compare"}, right : BOOLEAN, ticks : 0 .. Slow]]
      BY <1>1, <1>4
    <3> QED BY <1>1, <1>2, <1>3, <2>1, <3>1, BackoffBounds DEF TypeOK
  <2>3. fails >= MaxFails BY <1>8 DEF LockedByStreak
  <2>4. Streak' = fails
    BY <1>1, <1>8, <1>2, BackoffBounds DEF Streak, TypeOK
  <2>5. UnlockedMayFail' /\ CreditSuffices'
    BY <2>1, <2>3, <2>4, BackoffBounds DEF UnlockedMayFail, CreditSuffices, TypeOK
  <2>6. GuessesAreFew' BY <2>1, <2>2, AnewKeeps
  <2> QED BY <1>5, <2>2, <2>5, <2>6
<1>9. CASE since' <= Stale /\ lock # 1 /\ wrong' = wrong /\ credit' = credit
  <2>1. TypeOK'
    <3>1. login' \in [Login -> [pc : {"idle", "compare"}, right : BOOLEAN, ticks : 0 .. Slow]]
      BY <1>1, <1>4
    <3> QED BY <1>1, <1>2, <1>3, <1>9, <3>1, BackoffBounds DEF TypeOK
  <2>2. UnlockedMayFail' /\ CreditSuffices'
    BY <1>1, <1>2, <1>9 DEF UnlockedMayFail, CreditSuffices, TypeOK
  <2>3. Guessing' = Guessing BY <1>4 DEF Guessing
  <2>4. GuessesAreFew' BY <1>9, <2>3 DEF GuessesAreFew
  <2> QED BY <1>5, <2>1, <2>2, <2>4
<1> QED BY <1>6, <1>7, <1>8, <1>9

-----------------------------------------------------------------------------
LEMMA StepKeeps == IInv /\ [Next]_vars => IInv'
<1> SUFFICES ASSUME IInv, [Next]_vars PROVE IInv' OBVIOUS
<1>1. CASE \E l \in Login, right \in BOOLEAN : Enter(l, right) BY <1>1, EnterKeeps
<1>2. CASE \E l \in Login : Compared(l) BY <1>2, FailKeeps, SucceedKeeps
<1>3. CASE Setup
  BY <1>3 DEF Setup, IInv, TypeOK, LockedByStreak, UnlockedMayFail, CreditSuffices, Streak,
              GuessesAreFew, Guessing
<1>4. CASE Restart BY <1>4, RestartKeeps
<1>5. CASE Tick BY <1>5, TickKeeps
<1>6. CASE UNCHANGED vars
  BY <1>6 DEF vars, IInv, TypeOK, LockedByStreak, UnlockedMayFail, CreditSuffices, Streak,
              GuessesAreFew, Guessing
<1> QED BY <1>1, <1>2, <1>3, <1>4, <1>5, <1>6 DEF Next

LEMMA Inductive == Spec => []IInv
BY Initially, StepKeeps, PTL DEF Spec

\* The state is what auth.go:35 can hold.
THEOREM BackoffTypeCorrect == Spec => []TypeOK
<1>1. IInv => TypeOK BY DEF IInv
<1> QED BY <1>1, Inductive, PTL

\* Overlapping logins (auth.go:162) try no more wrong passwords than the failures the
\* address is let have and the logins that can be compared at one time.
THEOREM GuessesAreBounded == Spec => []GuessesAreFew
<1>1. IInv => GuessesAreFew BY DEF IInv
<1> QED BY <1>1, Inductive, PTL

-----------------------------------------------------------------------------
(* Guard *)

Bucket == [tokens : Nat, age : 0 .. MaxIdle + 1]
Offences == [n : 0 .. MaxStrikes, age : 0 .. Window + 1]

\* The types of what is forgotten.  The length of a ban plays no part.
GuardTypes ==
    /\ disabled \in BOOLEAN
    /\ rate \in [G!Limiter -> Nat \ {0}]
    /\ bucket \in [G!Limiter -> Bucket \cup {None}]
    /\ kept \in [G!Limiter -> Bucket \cup {None}]
    /\ strikes \in Offences \cup {None}
    /\ run \in Offences \cup {None}

\* The program and the history differ in what was evicted, and that was idle so long that
\* the bucket is full at any rate, and the strikes would start over.
EvictedWasIdle ==
    /\ \A l \in G!Limiter :
        bucket[l] # kept[l] => bucket[l] = None /\ kept[l] # None /\ kept[l].age = MaxIdle + 1
    /\ strikes # run => strikes = None /\ run # None /\ run.age = Window + 1

GuardInv == GuardTypes /\ EvictedWasIdle

\* What stands for nothing is no bucket and no strikes.
LEMMA NothingIsApart == None \notin Bucket /\ None \notin Offences
BY GuardAssumption DEF G!GuardBounds, Bucket, Offences

LEMMA Durations ==
    /\ {Window, BanBase, BanMax, Trap, Threshold, MaxIdle} \subseteq Nat \ {0}
    /\ MaxStrikes \in Nat /\ MaxStrikes >= Threshold
    /\ ReqRates \subseteq Nat \ {0} /\ DlRates \subseteq Nat \ {0}
BY GuardAssumption DEF G!GuardBounds

LEMMA TokensType ==
    ASSUME NEW l \in G!Limiter, NEW b \in Bucket \cup {None}, rate \in [G!Limiter -> Nat \ {0}]
    PROVE  G!Tokens(l, b) \in Nat
<1>1. rate[l] \in Nat OBVIOUS
<1>2. G!Burst(l) \in Nat BY <1>1 DEF G!Burst
<1>3. CASE b = None BY <1>2, <1>3 DEF G!Tokens
<1>4. CASE b \in Bucket
  <2>1. b.tokens + b.age * rate[l] \in Nat BY <1>1, <1>4, Durations DEF Bucket
  <2> QED BY <1>2, <2>1 DEF G!Tokens, G!Lesser
<1> QED BY <1>3, <1>4

\* ratelimit.go:90: a bucket that was idle for as long as the janitor waits is full.
LEMMA IdleIsFull ==
    ASSUME NEW l \in G!Limiter, NEW b \in Bucket, b.age = MaxIdle + 1,
           rate \in [G!Limiter -> Nat \ {0}]
    PROVE  G!Tokens(l, b) = G!Tokens(l, None)
<1> DEFINE r == rate[l]
<1>1. r \in Nat OBVIOUS
<1>2. MaxIdle \in Nat /\ MaxIdle >= 1 BY Durations
<1>3. G!Burst(l) \in {r, 2 * r} BY DEF G!Burst, G!Limiter
<1>4. b # None BY NothingIsApart
<1>5. b.tokens \in Nat BY DEF Bucket
<1> HIDE DEF r
<1>6. b.age * r = 2 * r + (MaxIdle - 1) * r BY <1>1, <1>2
<1>7. (MaxIdle - 1) * r >= 0 BY <1>1, <1>2
<1>8. (MaxIdle - 1) * r \in Int /\ 2 * r \in Nat BY <1>1, <1>2
<1>9. b.tokens + b.age * r >= 2 * r BY <1>5, <1>6, <1>7, <1>8
<1>10. b.tokens + b.age * r \in Int BY <1>5, <1>6, <1>8
<1>11. G!Lesser(G!Burst(l), b.tokens + b.age * r) = G!Burst(l)
  BY <1>1, <1>3, <1>8, <1>9, <1>10 DEF G!Lesser
<1> QED BY <1>4, <1>11 DEF G!Tokens, r

LEMMA CountedType ==
    ASSUME NEW s \in Offences \cup {None}
    PROVE  G!Counted(s) \in 0 .. MaxStrikes
BY Durations DEF G!Counted, Offences

LEMMA EvictedMakesNoDifference == GuardInv => EvictionInvisible
<1> SUFFICES ASSUME GuardInv PROVE EvictionInvisible OBVIOUS
<1>1. ASSUME NEW l \in G!Limiter PROVE G!Tokens(l, bucket[l]) = G!Tokens(l, kept[l])
  <2>1. CASE bucket[l] = kept[l] BY <2>1
  <2>2. CASE bucket[l] # kept[l]
    <3>1. bucket[l] = None /\ kept[l] \in Bucket /\ kept[l].age = MaxIdle + 1
      BY <2>2 DEF GuardInv, EvictedWasIdle, GuardTypes
    <3> QED BY <3>1, IdleIsFull DEF GuardInv, GuardTypes
  <2> QED BY <2>1, <2>2
<1>2. G!Counted(strikes) = G!Counted(run)
  <2>1. CASE strikes = run BY <2>1
  <2>2. CASE strikes # run
    <3>1. strikes = None /\ run # None /\ run.age = Window + 1
      BY <2>2 DEF GuardInv, EvictedWasIdle
    <3> QED BY <3>1, Durations DEF G!Counted
  <2> QED BY <2>1, <2>2
<1> QED BY <1>1, <1>2 DEF EvictionInvisible, G!EvictionInvisible

-----------------------------------------------------------------------------
LEMMA GuardInitially == G!Init => GuardInv
<1> SUFFICES ASSUME G!Init PROVE GuardInv OBVIOUS
<1>1. rate \in [G!Limiter -> Nat \ {0}]
  BY Durations DEF G!Init, G!Limiter
<1> QED BY <1>1 DEF G!Init, GuardInv, GuardTypes, EvictedWasIdle

\* Both buckets are taken from alike, and are alike afterwards.
LEMMA TakeKeeps ==
    ASSUME GuardInv, NEW l \in G!Limiter, NEW cost \in Nat, G!Take(l, cost),
           UNCHANGED <<disabled, rate, strikes, ban, run>>
    PROVE  GuardInv'
<1> DEFINE take(b) == [tokens |-> G!Tokens(l, b) - G!Lesser(cost, G!Tokens(l, b)), age |-> 0]
<1>1. G!Tokens(l, bucket[l]) = G!Tokens(l, kept[l])
  BY EvictedMakesNoDifference DEF EvictionInvisible, G!EvictionInvisible
<1>2. G!Tokens(l, kept[l]) \in Nat BY TokensType DEF GuardInv, GuardTypes
<1>3. take(kept[l]) \in Bucket BY <1>2, Durations DEF Bucket, G!Lesser
<1>4. bucket' = [bucket EXCEPT ![l] = take(kept[l])] /\ kept' = [kept EXCEPT ![l] = take(kept[l])]
  BY <1>1 DEF G!Take
<1> HIDE DEF take
<1>5. GuardTypes' BY <1>3, <1>4 DEF GuardInv, GuardTypes
<1>6. EvictedWasIdle' BY <1>4 DEF GuardInv, GuardTypes, EvictedWasIdle
<1> QED BY <1>5, <1>6 DEF GuardInv

\* Strikes that were forgotten are counted no more, so that both counts are alike again.
LEMMA StrikeKeeps ==
    ASSUME GuardInv, G!Strike
    PROVE  /\ strikes' \in Offences /\ run' = strikes'
           /\ ban' # ban => G!Counted(run') >= Threshold
<1> DEFINE n == G!Lesser(G!Counted(strikes) + 1, MaxStrikes)
<1>1. G!Counted(strikes) = G!Counted(run)
  BY EvictedMakesNoDifference DEF EvictionInvisible, G!EvictionInvisible
<1>2. G!Counted(strikes) \in 0 .. MaxStrikes BY CountedType DEF GuardInv, GuardTypes
<1>3. n \in 0 .. MaxStrikes BY <1>2, Durations DEF G!Lesser
<1>4. /\ strikes' = [n |-> n, age |-> 0] /\ run' = [n |-> n, age |-> 0]
      /\ ban' = IF n >= Threshold THEN G!BanFor(n) ELSE ban
  BY <1>1 DEF G!Strike
<1> HIDE DEF n
<1>5. strikes' \in Offences /\ run' = strikes' BY <1>3, <1>4, Durations DEF Offences
<1>6. G!Counted(run') = n
  <2>1. run' # None BY <1>5, NothingIsApart
  <2> QED BY <1>4, <2>1, Durations DEF G!Counted
<1> QED BY <1>4, <1>5, <1>6

\* A step that strikes and leaves the buckets alone.
LEMMA StrikeStepKeeps ==
    ASSUME GuardInv, G!Strike, UNCHANGED <<disabled, rate, bucket, kept>>
    PROVE  GuardInv'
<1>1. strikes' \in Offences /\ run' = strikes' BY StrikeKeeps
<1> QED BY <1>1 DEF GuardInv, GuardTypes, EvictedWasIdle

\* A step that does neither.
LEMMA FrameKeeps ==
    ASSUME GuardInv, UNCHANGED <<disabled, rate, bucket, kept, strikes, run>>
    PROVE  GuardInv'
BY DEF GuardInv, GuardTypes, EvictedWasIdle

LEMMA CleanupKeeps ==
    ASSUME GuardInv, NEW l \in G!Limiter, G!Cleanup(l)
    PROVE  GuardInv'
<1>1. bucket[l] = kept[l] BY DEF G!Cleanup, GuardInv, EvictedWasIdle
<1>2. kept[l] \in Bucket /\ kept[l].age = MaxIdle + 1
  BY <1>1, Durations DEF G!Cleanup, GuardInv, GuardTypes, Bucket
<1>3. kept[l] # None BY <1>2, NothingIsApart
<1> QED BY <1>2, <1>3 DEF G!Cleanup, GuardInv, GuardTypes, EvictedWasIdle

LEMMA JanitorKeeps ==
    ASSUME GuardInv, G!Janitor
    PROVE  GuardInv'
<1>1. strikes = run /\ strikes # None BY DEF G!Janitor, GuardInv, EvictedWasIdle
<1>2. run \in Offences /\ run.age = Window + 1
  BY <1>1, Durations DEF G!Janitor, GuardInv, GuardTypes, Offences
<1> QED BY <1>1, <1>2 DEF G!Janitor, GuardInv, GuardTypes, EvictedWasIdle

\* What is idle or over stays so.
LEMMA GuardTickKeeps ==
    ASSUME GuardInv, G!Tick
    PROVE  GuardInv'
<1>1. \A b \in Bucket : /\ G!Older(b, MaxIdle + 1) \in Bucket
                        /\ b.age = MaxIdle + 1 => G!Older(b, MaxIdle + 1).age = MaxIdle + 1
  BY NothingIsApart, Durations DEF G!Older, G!Lesser, Bucket
<1>2. \A s \in Offences : /\ G!Older(s, Window + 1) \in Offences
                          /\ s.age = Window + 1 => G!Older(s, Window + 1).age = Window + 1
  BY NothingIsApart, Durations DEF G!Older, G!Lesser, Offences
<1>3. \A max : G!Older(None, max) = None BY DEF G!Older
<1>4. /\ bucket' = [l \in G!Limiter |-> G!Older(bucket[l], MaxIdle + 1)]
      /\ kept' = [l \in G!Limiter |-> G!Older(kept[l], MaxIdle + 1)]
      /\ strikes' = G!Older(strikes, Window + 1)
      /\ run' = G!Older(run, Window + 1)
      /\ UNCHANGED <<disabled, rate>>
  BY DEF G!Tick
<1>5. GuardTypes' BY <1>1, <1>2, <1>3, <1>4 DEF GuardInv, GuardTypes
<1>6. EvictedWasIdle'
  <2>1. ASSUME NEW l \in G!Limiter, bucket'[l] # kept'[l]
        PROVE  bucket'[l] = None /\ kept'[l] # None /\ kept'[l].age = MaxIdle + 1
    <3>1. bucket[l] # kept[l] BY <1>4, <2>1
    <3>2. bucket[l] = None /\ kept[l] \in Bucket /\ kept[l].age = MaxIdle + 1
      BY <3>1 DEF GuardInv, GuardTypes, EvictedWasIdle
    <3> QED BY <1>1, <1>3, <1>4, <3>2, NothingIsApart
  <2>2. ASSUME strikes' # run'
        PROVE  strikes' = None /\ run' # None /\ run'.age = Window + 1
    <3>1. strikes # run BY <1>4, <2>2
    <3>2. strikes = None /\ run \in Offences /\ run.age = Window + 1
      BY <3>1 DEF GuardInv, GuardTypes, EvictedWasIdle
    <3> QED BY <1>2, <1>3, <1>4, <3>2, NothingIsApart
  <2> QED BY <2>1, <2>2 DEF EvictedWasIdle
<1> QED BY <1>5, <1>6 DEF GuardInv

LEMMA ChainKeeps ==
    ASSUME GuardInv, NEW r \in Req, G!Chain(r)
    PROVE  GuardInv'
<1>1. CASE G!Bypass(r) BY <1>1, FrameKeeps DEF G!Bypass
<1>2. CASE G!Honeypot(r) BY <1>2, FrameKeeps DEF G!Honeypot
<1>3. CASE G!CheckBan(r) BY <1>3, FrameKeeps DEF G!CheckBan
<1>4. CASE G!CheckRate(r)
  <2>1. PICK cost \in {0, 1} : G!Take("req", cost) BY <1>4 DEF G!CheckRate
  <2>2. "req" \in G!Limiter BY DEF G!Limiter
  <2> QED BY <1>4, <2>1, <2>2, TakeKeeps DEF G!CheckRate
<1>5. CASE G!CheckAgent(r)
  <2>1. CASE G!Strike BY <1>5, <2>1, StrikeStepKeeps DEF G!CheckAgent
  <2>2. CASE UNCHANGED <<strikes, ban, run>> BY <1>5, <2>2, FrameKeeps DEF G!CheckAgent
  <2> QED BY <1>5, <2>1, <2>2 DEF G!CheckAgent
<1>6. CASE \E n \in FileSizes : G!Download(r, n)
  <2>1. PICK n \in FileSizes : G!Download(r, n) BY <1>6
  <2>2. PICK cost \in {0, n} : G!Take("dl", cost) BY <2>1 DEF G!Download
  <2>3. "dl" \in G!Limiter /\ cost \in Nat BY GuardAssumption DEF G!Limiter, G!GuardBounds
  <2> QED BY <2>1, <2>2, <2>3, TakeKeeps DEF G!Download
<1>7. CASE G!DownloadStrike(r) BY <1>7, StrikeStepKeeps DEF G!DownloadStrike
<1>8. CASE G!Serve(r) BY <1>8, FrameKeeps DEF G!Serve
<1> QED BY <1>1, <1>2, <1>3, <1>4, <1>5, <1>6, <1>7, <1>8 DEF G!Chain

LEMMA GuardStepKeeps == GuardInv /\ [G!Next]_(G!vars) => GuardInv'
<1> SUFFICES ASSUME GuardInv, [G!Next]_(G!vars) PROVE GuardInv' OBVIOUS
<1>1. CASE \E r \in Req : G!Chain(r) BY <1>1, ChainKeeps
<1>2. CASE \E l \in G!Limiter : G!Cleanup(l) BY <1>2, CleanupKeeps
<1>3. CASE G!Janitor BY <1>3, JanitorKeeps
<1>4. CASE \E off \in BOOLEAN, q \in ReqRates, d \in DlRates : G!UpdateConfig(off, q, d)
  <2>1. PICK off \in BOOLEAN, q \in ReqRates, d \in DlRates : G!UpdateConfig(off, q, d)
    BY <1>4
  <2>2. rate' \in [G!Limiter -> Nat \ {0}] /\ disabled' \in BOOLEAN
    BY <2>1, Durations DEF G!UpdateConfig, G!Limiter
  <2> QED BY <2>1, <2>2 DEF G!UpdateConfig, GuardInv, GuardTypes, EvictedWasIdle
<1>5. CASE G!Tick BY <1>5, GuardTickKeeps
<1>6. CASE UNCHANGED G!vars BY <1>6, FrameKeeps DEF G!vars
<1> QED BY <1>1, <1>2, <1>3, <1>4, <1>5, <1>6 DEF G!Next

LEMMA GuardInductive == G!Spec => []GuardInv
BY GuardInitially, GuardStepKeeps, PTL DEF G!Spec

\* ratelimit.go:84: whoever the janitors have forgotten is treated as if they were
\* remembered, whatever rates are set meanwhile.
THEOREM ForgettingIsInvisible == G!Spec => []EvictionInvisible
BY GuardInductive, EvictedMakesNoDifference, PTL

\* A step that bans without a honeypot hit is a strike.
LEMMA BansAreCaused ==
    ASSUME GuardInv, G!Next, ban' # ban, ban' # 0, ~G!Tick
    PROVE  (\E r \in Req : G!Honeypot(r)) \/ G!Counted(run') >= Threshold
<1>1. \/ \E r \in Req : G!Honeypot(r)
      \/ G!Strike
  BY DEF G!Next, G!Chain, G!Bypass, G!CheckBan, G!CheckRate, G!CheckAgent, G!Download,
         G!DownloadStrike, G!Serve, G!Cleanup, G!Janitor, G!UpdateConfig
<1> QED BY <1>1, StrikeKeeps

\* ban.go:47: however requests overlap and whatever is forgotten, only a honeypot hit or
\* enough strikes in a row ban.
THEOREM BansHaveCauses == G!Spec => BanHasCause
<1>1. GuardInv /\ [G!Next]_(G!vars) =>
        [ban' # ban /\ ban' # 0 /\ ~G!Tick =>
            (\E r \in Req : G!Honeypot(r)) \/ G!Counted(run') >= Threshold]_(G!vars)
  BY BansAreCaused
<1> QED BY <1>1, GuardInductive, PTL DEF G!Spec, BanHasCause, G!BanHasCause
=============================================================================
