-------------------------- MODULE MCPrivateFolders --------------------------
(***************************************************************************)
(* An instance of PrivateFolders for TLC with two workloads, one of which  *)
(* is chosen at the start.                                                 *)
(*                                                                         *)
(* serial:  one request at a time, on two levels of directories; nothing   *)
(*          fails and only directories are marked.                         *)
(* overlap: two requests at a time, failing statements and restarts, on    *)
(*          the two top directories and with one directory to create.      *)
(***************************************************************************)
EXTENDS PrivateFolders, TLC

CONSTANTS root, alice, bob, f1, f2, r1, r2

\* An administrator, a user with the whole tree in scope and one scoped to "a".
MCUser == {root, alice, bob}
MCAdmins == {root}
MCScope == [u \in User |-> IF u = bob THEN <<"a">> ELSE <<>>]

\* Two top folders with a folder of the same name below each.
MCPath == {<<"a">>, <<"b">>, <<"a", "c">>, <<"b", "c">>}
Top == {p \in Path : Len(p) = 1}

VARIABLE workload

mcvars == <<vars, workload>>

MCInit == Init /\ workload \in {"serial", "overlap"}

Serial ==
    \/ \E r \in Req :
        \/ Rest /\ Call(r) /\ (req'[r].pc = "set" => Exists(req'[r].p))
        \/ Continue(r)
    \/ \E u \in User, f \in Folder, p \in Path : CreateDir(u, f, p)

SmallCall(r) ==
    \E u \in User \ {bob} :
        \/ DeleteUserCheck(r, u)
        \/ \E p \in Top :
            \/ SetCheck(r, u, p)
            \/ \E to \in Top : MoveCheck(r, u, p, to)

Overlap ==
    \/ \E r \in Req : SmallCall(r) \/ Continue(r) \/ DbFail(r)
    \/ \E u \in User \ {bob}, f \in Folder, p \in Top :
        CreateDir(u, f, p) /\ \A x \in Folder \ {f} : at[x] = Gone
    \/ Crash

MCNext ==
    /\ UNCHANGED workload
    /\ \/ workload = "serial" /\ Serial
       \/ workload = "overlap" /\ Overlap

MCSpec == MCInit /\ [][MCNext]_mcvars

\* Nothing that is checked with overlapping requests is about intent.
View == <<db, cache, users, at, req, workload,
          IF workload = "serial" THEN intent ELSE <<>> >>

Symmetry == Permutations(Folder) \cup Permutations(Req)

-----------------------------------------------------------------------------
(* Properties of the serial workload *)

\* Without overlap, failure and restart the engine's copy is the table (store.go:449), and
\* the marks in it are of directories their owners made private, wherever these were moved
\* since, whatever was deleted and made anew (admin.go:60, 102).
SerialMarksAreTrue == workload = "serial" => RestIsFresh /\ MarksFollowFolders

\* UnsetByOwner, without overlap (authz.go:217).
SerialUnsetByOwner ==
    [][\A r \in Req : workload = "serial" /\ UnsetRow(r) /\ req[r].u \notin Admins =>
            db[req[r].p] \in {Public, req[r].u}]_mcvars
=============================================================================
