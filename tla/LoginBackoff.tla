---------------------------- MODULE LoginBackoff ----------------------------
(***************************************************************************)
(* The backoff of logins from one address (internal/auth/auth.go): wrong   *)
(* passwords are counted, and from the MaxFails-th on every one locks the  *)
(* address for longer.  Addresses share nothing.                           *)
(*                                                                         *)
(* The lock is looked at before the password is compared, and the failure  *)
(* is counted after it, each under the mutex; the comparison holds none.   *)
(*                                                                         *)
(* Time is kept as ages and remaining durations, in ticks.                 *)
(***************************************************************************)
EXTENDS Naturals, FiniteSets

CONSTANTS
    Login,     \* logins of the address handled at the same time
    MaxFails,  \* failures that lock (maxFails)
    Cap,       \* locks grow this often
    Wait,      \* [1 .. Cap -> ticks]: the lock of each failure too many
    Stale,     \* failures further apart start over (an hour)
    Slow       \* bound: ticks a comparison takes

ASSUME BackoffBounds ==
    /\ IsFiniteSet(Login)
    /\ MaxFails \in Nat \ {0}
    /\ Cap \in Nat \ {0}
    /\ Wait \in [1 .. Cap -> Nat \ {0}]
    /\ Stale \in Nat
    /\ Slow \in 0 .. Stale

VARIABLES
    initialized, \* there is an account
    fails,       \* backoffState.fails, counted no further than it matters; 0: no entry
    since,       \* ticks since lastFail
    lock,        \* ticks until nextOK
    login,       \* login -> where it stands, whether its password is right, its ticks
    wrong,       \* failures since the address was last let try anew (history)
    credit       \* failures that it was let have then (history)

vars == <<initialized, fails, since, lock, login, wrong, credit>>

Idle == [pc |-> "idle", right |-> FALSE, ticks |-> 0]

TypeOK ==
    /\ initialized \in BOOLEAN
    /\ fails \in 0 .. MaxFails + Cap
    /\ since \in 0 .. Stale + 1
    /\ lock \in Nat
    /\ login \in [Login -> [pc : {"idle", "compare"}, right : BOOLEAN, ticks : 0 .. Slow]]
    /\ wrong \in Nat
    /\ credit \in {1, MaxFails}

Init ==
    /\ initialized \in BOOLEAN
    /\ fails = 0 /\ since = 0 /\ lock = 0
    /\ login = [l \in Login |-> Idle]
    /\ wrong = 0 /\ credit = MaxFails

-----------------------------------------------------------------------------
Smaller(a, b) == IF a < b THEN a ELSE b

\* What counts towards the next lock.
Streak == IF since > Stale THEN 0 ELSE fails

\* The address is let try anew, with n failures before it is locked.
Anew(n) == wrong' = 0 /\ credit' = n

\* Slip for GuessesAreFew: only what is more than MaxFails locks.
SlipRegister(n) ==
    /\ fails' = n
    /\ since' = 0
    /\ lock' = IF n > MaxFails THEN Wait[Smaller(n - MaxFails + 1, Cap)] ELSE lock
    /\ wrong' = wrong + 1
    /\ UNCHANGED <<initialized, credit>>

\* registerFail.
Register(n) ==
    /\ fails' = n
    /\ since' = 0
    /\ lock' = IF n >= MaxFails THEN Wait[Smaller(n - MaxFails + 1, Cap)] ELSE lock
    /\ wrong' = wrong + 1
    /\ UNCHANGED <<initialized, credit>>

RegisterFail == Register(Smaller(Streak + 1, MaxFails + Cap))

\* clearFails: the address has no entry any more.
ClearFails ==
    /\ fails' = 0 /\ since' = 0 /\ lock' = 0
    /\ Anew(MaxFails)
    /\ UNCHANGED initialized

\* Login up to the comparison.  A locked address is refused, and before there is an
\* account everybody; neither changes anything.
Enter(l, right) ==
    /\ login[l].pc = "idle"
    /\ lock = 0
    /\ initialized
    /\ login' = [login EXCEPT ![l] = [pc |-> "compare", right |-> right, ticks |-> 0]]
    /\ UNCHANGED <<initialized, fails, since, lock, wrong, credit>>

\* Login from the comparison on.  A name nobody has is compared with, too, and fails.
Compared(l) ==
    /\ login[l].pc = "compare"
    /\ login' = [login EXCEPT ![l] = Idle]
    /\ IF login[l].right THEN ClearFails ELSE RegisterFail

\* Setup.
Setup ==
    /\ ~initialized
    /\ initialized' = TRUE
    /\ UNCHANGED <<fails, since, lock, login, wrong, credit>>

\* Failures and locks are kept in memory only: New.
Restart ==
    /\ ClearFails
    /\ login' = [l \in Login |-> Idle]

\* A streak that has become stale, or a lock that has ended, lets the address try anew.
Tick ==
    /\ \A l \in Login : login[l].pc = "compare" => login[l].ticks < Slow
    /\ login' = [l \in Login |-> IF login[l].pc = "idle" THEN Idle
                                 ELSE [login[l] EXCEPT !.ticks = @ + 1]]
    /\ since' = IF fails = 0 THEN 0 ELSE Smaller(since + 1, Stale + 1)
    /\ lock' = IF lock = 0 THEN 0 ELSE lock - 1
    /\ \/ since' > Stale /\ Anew(MaxFails)
       \/ since' <= Stale /\ lock = 1 /\ Anew(1)
       \/ since' <= Stale /\ lock # 1 /\ UNCHANGED <<wrong, credit>>
    /\ UNCHANGED <<initialized, fails>>

Next ==
    \/ \E l \in Login, right \in BOOLEAN : Enter(l, right)
    \/ \E l \in Login : Compared(l)
    \/ Setup
    \/ Restart
    \/ Tick

Spec == Init /\ [][Next]_vars

\* Time passes, comparisons end, and whoever knows the password keeps trying.
Fairness ==
    /\ WF_vars(Tick)
    /\ WF_vars(\E l \in Login : Enter(l, TRUE))
    /\ \A l \in Login : WF_vars(Compared(l))

FairSpec == Spec /\ Fairness

-----------------------------------------------------------------------------
(* Properties *)

Guessing == {l \in Login : login[l].pc = "compare" /\ ~login[l].right}

\* auth.go:162: however logins overlap, only those that are compared when the lock
\* begins get past it: between two moments at which the address is let try anew (a
\* success, the end of a lock or of a streak), the wrong passwords that are counted or
\* being compared are fewer than those it is let have and its logins at one time.
GuessesAreFew == wrong + Cardinality(Guessing) <= credit - 1 + Cardinality(Login)

\* A right password is compared, and gets in.
LetIn == \E l \in Login : login[l].pc = "compare" /\ login[l].right
=============================================================================
