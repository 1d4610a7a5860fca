------------------------------- MODULE Search -------------------------------
(***************************************************************************)
(* A search (internal/api/search.go): the walk of the storage reports      *)
(* matches to a function that streams the visible ones to the client, and  *)
(* a heartbeat writes into the same stream.                                *)
(*                                                                         *)
(* The walk is Traversal, which ParallelWalk implements.                   *)
(***************************************************************************)
EXTENDS Naturals, Sequences, FiniteSets, Functions

CONSTANTS
    Asked,  \* entries that match the query
    Depth,  \* entry -> its level
    Limit,  \* the limit of the query
    Hidden, \* matches the reader may not see
    Pulse,  \* an empty line of the heartbeat
    MaxBeats \* bound: beats of one search

SearchBounds ==
    /\ Limit \in Nat \ {0}
    /\ Hidden \subseteq Asked
    /\ Pulse \notin Asked
    /\ MaxBeats \in Nat

VARIABLES
    seen, why, gone, result, \* the walk
    online,  \* the client is still there
    stream,  \* the lines written
    handler, \* "walk", "closing" once done is closed, "returned"
    beat     \* "wait", "write", "ended"

walk == <<seen, why, gone, result>>
vars == <<seen, why, gone, result, online, stream, handler, beat>>

W == INSTANCE Traversal

TypeOK ==
    /\ seen \subseteq Asked
    /\ why \subseteq W!Reason
    /\ gone \subseteq Asked
    /\ result \in {"running", "ok", "error", "canceled"}
    /\ online \in BOOLEAN
    /\ stream \in Seq(Asked \cup {Pulse})
    /\ handler \in {"walk", "closing", "returned"}
    /\ beat \in {"wait", "write", "ended"}

Init ==
    /\ W!Init
    /\ online = TRUE
    /\ stream = <<>>
    /\ handler = "walk"
    /\ beat = "wait"

Visible == Asked \ Hidden

\* Slip for ShownInFull: hidden entries end the search.
SlipSkip(e) ==
    /\ e \in Hidden
    /\ W!Visit(e)
    /\ why' = why \cup {"done"}
    /\ UNCHANGED <<online, stream, handler, beat>>

\* Matches the reader may not see are passed over; they count for the limit.
Skip(e) ==
    /\ e \in Hidden
    /\ W!Visit(e)
    /\ why' = why
    /\ UNCHANGED <<online, stream, handler, beat>>

\* A line is written.  Writing fails only when the client has gone, and not always
\* then; the function answers context.Canceled.
Show(e) ==
    /\ e \in Visible
    /\ W!Visit(e)
    /\ \/ why' = why /\ stream' = Append(stream, e)
       \/ why' = why \cup {"done"} /\ ~online /\ UNCHANGED stream
    /\ UNCHANGED <<online, handler, beat>>

\* The client goes away: its request's context is cancelled.
Disconnect ==
    /\ online
    /\ handler # "returned"
    /\ online' = FALSE
    /\ IF result = "running" THEN W!Cancel ELSE UNCHANGED walk
    /\ UNCHANGED <<stream, handler, beat>>

Vanish(e) ==
    /\ result = "running"
    /\ W!Vanish({e})
    /\ UNCHANGED <<online, stream, handler, beat>>

WalkReturns ==
    /\ \E r \in {"ok", "error", "canceled"} : W!Return(r)
    /\ UNCHANGED <<online, stream, handler, beat>>

\* close(done).
Close ==
    /\ handler = "walk"
    /\ result # "running"
    /\ handler' = "closing"
    /\ UNCHANGED <<walk, online, stream, beat>>

Leave ==
    /\ handler = "closing"
    /\ handler' = "returned"
    /\ UNCHANGED <<walk, online, stream, beat>>

-----------------------------------------------------------------------------
(* heartbeat *)

\* The ticker; select may choose it although done is closed.
Tick ==
    /\ beat = "wait"
    /\ Cardinality({i \in DOMAIN stream : stream[i] = Pulse}) < MaxBeats
    /\ beat' = "write"
    /\ UNCHANGED <<walk, online, stream, handler>>

Quit ==
    /\ beat = "wait"
    /\ ~online \/ handler # "walk"
    /\ beat' = "ended"
    /\ UNCHANGED <<walk, online, stream, handler>>

\* The empty line, under the mutex the lines are written under.
Beat ==
    /\ beat = "write"
    /\ \/ beat' = "wait" /\ stream' = Append(stream, Pulse)
       \/ beat' = "ended" /\ ~online /\ UNCHANGED stream
    /\ UNCHANGED <<walk, online, handler>>

-----------------------------------------------------------------------------
Next ==
    \/ \E e \in Asked : Skip(e) \/ Show(e) \/ Vanish(e)
    \/ WalkReturns \/ Disconnect \/ Close \/ Leave
    \/ Tick \/ Quit \/ Beat

Spec == Init /\ [][Next]_vars

Fairness == WF_vars(Quit) /\ WF_vars(Beat)

FairSpec == Spec /\ Fairness

-----------------------------------------------------------------------------
(* Properties *)

Shown == Range(stream) \ {Pulse}

\* search.go:51, perms_test.go:215: a reader who stays until the end is shown every
\* visible match that is still there, each on one line, unless the limit was
\* reached: heartbeats, hidden matches and the order of levels take nothing from
\* the results.
ShownInFull ==
    handler = "returned" /\ online /\ result = "ok" =>
        /\ Visible \subseteq Shown \cup gone \/ Cardinality(seen) >= Limit
        /\ Shown \subseteq Visible
        /\ \A i, j \in DOMAIN stream : stream[i] = stream[j] /\ i # j => stream[i] = Pulse

\* search.go:103: the heartbeat's goroutine does not outlive the search for ever.
HeartbeatEnds == handler = "returned" ~> beat = "ended"
=============================================================================
