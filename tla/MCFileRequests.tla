--------------------------- MODULE MCFileRequests ---------------------------
(***************************************************************************)
(* An instance of FileRequests for TLC with two workloads, one of which is *)
(* chosen at the start.                                                    *)
(*                                                                         *)
(* rights: one request at a time while the policy, the marks, the accounts *)
(*         and the edit tokens change; nothing fails.                      *)
(* tree:   two requests of the administrator at a time, moves between file *)
(*         systems, interrupted bodies and restarts.                       *)
(***************************************************************************)
EXTENDS FileRequests, TLC

CONSTANTS root, alice, bob, r1, r2, full,
    MaxCalls \* bound: requests of the tree workload

\* An administrator, a user with the whole tree in scope and one scoped to "a".
MCUser == {root, alice, bob}
MCAdmins == {root}
MCScope == [u \in User |-> IF u = bob THEN <<"a">> ELSE <<>>]

A == <<"a">>
C == <<"c">>
AF == <<"a", "f">>
CF == <<"c", "f">>
MCPath == {A, C, AF, CF}
MCReserved == {}

\* A directory with a file in it.
MCStart ==
    {[x \in Name |-> CASE x = A -> Dir [] x = AF -> Whole(Empty) [] OTHER -> Absent]}

VARIABLES
    workload,
    calls     \* how many more requests the tree workload makes

mcvars == <<vars, workload, calls>>

MCInit ==
    /\ Init
    /\ workload \in {"rights", "tree"}
    /\ workload = "tree" => policy = "private"
    /\ calls = MaxCalls

Shared ==
    \/ \E new \in Policy : SetPolicy(new)
    \/ \E owner \in {alice, Nobody} : SetMark(A, owner)
    \/ \E owner \in {bob, Nobody} : SetMark(AF, owner)
    \/ DeleteAccount(bob)
    \/ Expire(AF)

Rights ==
    \/ \E r \in Req :
        \/ Continue(r) /\ req'[r].pc # "copy"
        \/ Rest /\ \E cookie \in User \cup {Guest} :
            \/ \E p \in {A, AF} : ReadArrive(r, cookie, p)
            \/ CreateArrive(r, cookie, "mkdir", C)
            \/ CreateArrive(r, cookie, "file", AF)
            \/ \E q \in {AF, C} : DeleteArrive(r, cookie, AF, q)
            \/ MoveArrive(r, cookie, A, C) \/ MoveArrive(r, cookie, AF, C)
            \/ SaveArrive(r, cookie, AF, full)
            \/ SaveByToken(r, AF, full)
    \/ Shared

TreeCall(r) ==
    \/ \E p \in {A, C} : CreateArrive(r, root, "mkdir", p)
    \/ \E p \in Path : DeleteArrive(r, root, p, p)
    \/ \E p, q \in Path : ~Under(p, q) /\ MoveArrive(r, root, p, q)
    \/ \E p \in {C, AF} : SaveArrive(r, root, p, full)

Tree ==
    \/ \E r \in Req : Continue(r) \/ Broken(r)
    \/ Crash

\* Of a request that has ended, what its answer tells.
View ==
    <<tree, pen, rights, workload, calls,
      [r \in Req |-> IF Idle(r) THEN <<TellsNothing(r)>> ELSE <<req[r]>>]>>

Symmetry == Permutations(Req)

MCNext ==
    /\ UNCHANGED workload
    /\ \/ workload = "rights" /\ Rights /\ UNCHANGED calls
       \/ workload = "tree" /\ Tree /\ UNCHANGED calls
       \/ /\ workload = "tree" /\ calls > 0
          /\ calls' = calls - 1
          /\ \E r \in Req : TreeCall(r)

MCSpec == MCInit /\ [][MCNext]_mcvars
=============================================================================
