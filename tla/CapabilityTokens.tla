-------------------------- MODULE CapabilityTokens --------------------------
(***************************************************************************)
(* The values Capability is about: the tokens, told apart by the signing   *)
(* period they were issued in, and where the fetch of one is.              *)
(***************************************************************************)
EXTENDS Naturals

CONSTANTS
    MaxPeriods, \* bound: the last signing period
    Asked,      \* the fetch has no answer yet
    NoToken     \* no token, no fetch

ASSUME PeriodsAssumption == MaxPeriods \in Nat

Period == 0 .. MaxPeriods

\* Where the shared fetch is: asked for, or answered with a token.
Fetch == {Asked} \cup {<<t>> : t \in Period}

ASSUME NoneAssumption == NoToken \notin Nat /\ NoToken \notin Fetch
ASSUME AskedAssumption == \A t \in Period : Asked # <<t>>
=============================================================================
