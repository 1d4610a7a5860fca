------------------------------ MODULE MCGuard ------------------------------
(***************************************************************************)
(* Instances for TLC of what shuts an address out: the backoff of logins   *)
(* (LoginBackoff) and the guard chain (Guard).                             *)
(*                                                                         *)
(* They share no state.  A behaviour is one of the module in `workload',   *)
(* which is chosen at the start; the variables of the other keep first     *)
(* values in which none of its fair actions can be taken: a guard that is  *)
(* disabled, a server without accounts.                                    *)
(***************************************************************************)
EXTENDS LoginBackoff

CONSTANTS \* of Guard
    Req, ReqRates, DlRates, Floor, FileSizes, MaxIdle, Window, Threshold, BanBase, BanMax, Trap,
    MaxStrikes, Enabled, None

VARIABLES
    workload, \* "guard" or "login"
    disabled, rate, bucket, strikes, ban, req, kept, run \* of Guard

\* The longest of the locks outlasts a streak, and the one before it does not: as 4096
\* and 2048 seconds and an hour do.
Doubling == [k \in 1 .. Cap |-> 2 ^ k]

G == INSTANCE Guard

ASSUME GuardAssumption == G!GuardBounds

guarding == <<disabled, rate, bucket, strikes, ban, req, kept, run>>
shut == <<workload, vars, guarding>>

ShutInit ==
    /\ workload \in {"guard", "login"}
    /\ Init /\ G!Init
    /\ workload # "guard" => disabled
    /\ workload # "login" => ~initialized

ShutNext ==
    \/ workload = "guard" /\ G!Next /\ UNCHANGED <<workload, vars>>
    \/ workload = "login" /\ Next /\ UNCHANGED <<workload, guarding>>

ShutSpec == ShutInit /\ [][ShutNext]_shut /\ Fairness /\ G!Fairness

-----------------------------------------------------------------------------
(* Properties, where they are stated *)

\* Guard: being forgotten changes no decision (ratelimit.go:84).
EvictionInvisible == G!EvictionInvisible

\* Guard: every ban has a cause (ban.go:47).
BanHasCause == G!BanHasCause

\* Whoever was shut out, of the server by a ban (guard.go:118) or of their account by a
\* lock (auth.go:159), is let in again once the offences, or the wrong guesses, end and
\* the settings rest; however often they ask too early.
ShutOutGetIn ==
    /\ <>[][(\A r \in Req : ~G!Offends(r)) /\ rate' = rate]_guarding
    /\ <>[](Guessing = {})
    /\ []<>(IF workload = "guard" THEN ~disabled ELSE initialized)
    => []<>(G!Served \/ LetIn)
=============================================================================
