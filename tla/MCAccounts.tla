----------------------------- MODULE MCAccounts -----------------------------
(* Instances of Accounts for TLC. *)
EXTENDS Accounts, TLC

CONSTANTS p1, r1, r2

Symmetry == Permutations(Req)

\* Every body that gives at most two of its four fields, a password alone.
MCBodies ==
    {b \in [name : Name \cup {None}, admin : BOOLEAN \cup {None},
            scope : Scope \cup {None}, pw : Password \cup {None}] :
        Cardinality({f \in DOMAIN b : b[f] # None}) <= IF b.pw = None THEN 2 ELSE 1}
=============================================================================
