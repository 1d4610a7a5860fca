----------------------------- MODULE Traversal -----------------------------
(***************************************************************************)
(* What a walk promises its caller (internal/storage/storage.go, Walk):    *)
(* every entry that is asked for is reported once, level by level, until   *)
(* the limit is reached or there is a reason to stop early; and an error   *)
(* of the caller's function comes back to the caller.                      *)
(*                                                                         *)
(* ParallelWalk implements it.                                             *)
(***************************************************************************)
EXTENDS Naturals, FiniteSets

CONSTANTS
    Asked, \* the entries to report
    Depth, \* entry -> its level
    Limit  \* how many are reported at most, 0 for all

VARIABLES
    seen,  \* what has been reported
    why,   \* reasons to stop early
    gone,  \* entries that could not be found or whose directory could not be read
    result \* "running", or how the walk ended

vars == <<seen, why, gone, result>>

\* The caller's function fails, or it wants no more; its context is cancelled.
Reason == {"error", "done", "cancel"}

Init ==
    /\ seen = {}
    /\ why = {}
    /\ gone = {}
    /\ result = "running"

Full == Limit > 0 /\ Cardinality(seen) >= Limit

\* Calls that are on their way when the function refuses one may still be made.
Visit(e) ==
    /\ result = "running"
    /\ e \notin seen
    /\ \A x \in seen : Depth[x] <= Depth[e]
    /\ Full => why \cap {"error", "done"} # {}
    /\ seen' = seen \cup {e}
    /\ why' \in {why, why \cup {"error"}, why \cup {"done"}}
    /\ UNCHANGED <<gone, result>>

\* The tree changes under the walk.
Vanish(some) ==
    /\ some \subseteq Asked
    /\ gone' = gone \cup some
    /\ UNCHANGED <<seen, why, result>>

Cancel ==
    /\ why' = why \cup {"cancel"}
    /\ UNCHANGED <<seen, gone, result>>

\* Nil without a reason means that nothing is missing but what could not be found.
Return(r) ==
    /\ result = "running"
    /\ r = "error" <=> "error" \in why
    /\ r = "canceled" => "cancel" \in why
    /\ r = "ok" => why # {} \/ Full \/ Asked \subseteq seen \cup gone
    /\ result' = r
    /\ UNCHANGED <<seen, why, gone>>

Next ==
    \/ \E e \in Asked : Visit(e)
    \/ \E some \in SUBSET Asked : Vanish(some)
    \/ Cancel
    \/ \E r \in {"ok", "error", "canceled"} : Return(r)

Spec == Init /\ [][Next]_vars
=============================================================================
