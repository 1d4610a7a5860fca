------------------------------ MODULE MCPages ------------------------------
(* Instances of Pages for TLC. *)
EXTENDS Pages

Folders == {<<>>, <<"a">>, <<"settings">>}
TheFiles == {<<"a", "f">>}
TheScope == <<"a">>
TheMount == <<"app">>

TheServers ==
    [insecure : {FALSE}, initialized : BOOLEAN, policy : {"public", "private"}]
        \cup {[insecure |-> TRUE, initialized |-> FALSE, policy |-> "readonly"]}

\* For the run setup_first: a tab opened at the root.
Root == {<<>>}
=============================================================================
