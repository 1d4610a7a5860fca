----------------------------- MODULE MCBrowser -----------------------------
(* Instances of Browser for TLC. *)
EXTENDS Browser

Paths == {<<"a">>, <<"s">>, <<"s", "a">>}
TheStarts == {{<<"a">>, <<"s">>}}

ASSUME FolderAssumption == BrowserBounds

\* Bound: what is done while the listing is in another order is not explored as deep, nor
\* a rectangle that is drawn while a change is under way, nor an upload after the last act,
\* nor three changes at once.
Focus ==
    /\ acts < MaxActs - 2 \/ sort = "name"
    /\ band.on => \A k \in Kind : job[k].step = "none"
    /\ acts = MaxActs => job["upload"].step = "none"
    /\ Cardinality({k \in Kind : job[k].step # "none"}) <= 2
=============================================================================
