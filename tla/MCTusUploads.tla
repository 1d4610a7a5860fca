---------------------------- MODULE MCTusUploads ----------------------------
(***************************************************************************)
(* TusUploads on a small instance, of which two kinds of behaviour are     *)
(* looked at, chosen at the start: two uploads beside saves, and one       *)
(* upload beside moves, whose system calls are steps of their own.         *)
(* Uploads, requests, paths and files are interchangeable, because the run *)
(* checks no liveness property.                                            *)
(***************************************************************************)
EXTENDS TusUploads, FiniteSets, TLC

VARIABLE workload \* "saves" or "moves"

Drawn == {s \in Session : sess[s].path # None}

ContentInit == workload \in {"saves", "moves"} /\ Init

ContentNext ==
    /\ Next
    /\ workload = "saves" => (\A m \in Mover : move'[m].at = "idle") /\ Cardinality(used' \cap Saved) <= 1
    /\ workload = "moves" => Cardinality(Drawn') <= 1
    /\ UNCHANGED workload

ContentSpec == ContentInit /\ [][ContentNext]_<<workload, vars>>

Symmetry ==
    Permutations(Session) \cup Permutations(Req) \cup Permutations(Path) \cup Permutations(Saved)
=============================================================================
