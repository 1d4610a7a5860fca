---------------------------- MODULE UploadQueue ----------------------------
(***************************************************************************)
(* The upload queue of the browser (frontend/src/stores/uploads.ts) and    *)
(* the tus client it drives (frontend/src/api/tus.ts).                     *)
(*                                                                         *)
(* JavaScript runs one callback at a time: every action below is a click   *)
(* or a callback together with the pump() at its end.  What overlaps are   *)
(* the transfers: each is prepared (capability, stored uploads) before the *)
(* library starts it, and ends in one of three callbacks.                  *)
(*                                                                         *)
(* The store keeps one entry per item in `handles', but a transfer goes on *)
(* without one; `stage' has every transfer of an item that is not over.    *)
(***************************************************************************)
EXTENDS Naturals, FiniteSets

CONSTANTS
    MaxItems,      \* bound: files ever queued
    MaxConcurrent, \* MAX_CONCURRENT
    MaxRejected,   \* rejections of the capability that are retried
    Enabled        \* which of "retry", "remove", "dismiss" a user clicks

\* What the constants are, for the instances and the theorems.
BoundsAssumption ==
    /\ MaxItems \in Nat
    /\ MaxConcurrent \in Nat \ {0}
    /\ MaxRejected \in Nat

Item == 1 .. MaxItems

\* Bound: transfers of one item that can exist at the same time.
Slot == 1 .. 2

VARIABLES
    added,     \* files queued so far; item i is the i-th of them
    status,    \* item -> its status, "gone" when it is not in the list
    rejected,  \* item -> capabilityRetries
    stage,     \* item -> slot -> how far a transfer is
    current,   \* item -> the slot of the transfer in `handles', or 0
    stored     \* items whose upload URL is in the browser's URL storage

vars == <<added, status, rejected, stage, current, stored>>

Status == {"gone", "queued", "active", "done", "error"}
Stage == {"none", "prepare", "running"}

TypeOK ==
    /\ added \in 0 .. MaxItems
    /\ status \in [Item -> Status]
    /\ rejected \in [Item -> 0 .. MaxRejected]
    /\ stage \in [Item -> [Slot -> Stage]]
    /\ current \in [Item -> Slot \cup {0}]
    /\ stored \subseteq Item

Init ==
    /\ added = 0
    /\ status = [i \in Item |-> "gone"]
    /\ rejected = [i \in Item |-> 0]
    /\ stage = [i \in Item |-> [h \in Slot |-> "none"]]
    /\ current = [i \in Item |-> 0]
    /\ stored = {}

-----------------------------------------------------------------------------
Having(st, s) == {i \in Item : st[i] = s}

Listed(i) == status[i] # "gone"

Free(i, stg) == CHOOSE h \in Slot : stg[i][h] = "none"

\* The first queued items, in the order of the list, for which there are slots.
Startable(st) ==
    LET queued == Having(st, "queued")
    IN  {i \in queued : Cardinality(Having(st, "active"))
                          + Cardinality({j \in queued : j < i}) < MaxConcurrent}

\* pump(), after the callback has made the statuses, transfers and handles these:
\* startItem creates a transfer and enters it in `handles'.
Pump(st, stg, cur) ==
    LET starts == Startable(st)
    IN  /\ status' = [i \in Item |-> IF i \in starts THEN "active" ELSE st[i]]
        /\ stage' = [i \in Item |-> IF i \in starts
                        THEN [stg[i] EXCEPT ![Free(i, stg)] = "prepare"] ELSE stg[i]]
        /\ current' = [i \in Item |-> IF i \in starts THEN Free(i, stg) ELSE cur[i]]

\* A callback of transfer h of item i ends it.  Nothing is patched when the item
\* has been removed from the list; `handles' loses its entry in any case.
End(i, h, s) ==
    Pump(IF Listed(i) THEN [status EXCEPT ![i] = s] ELSE status,
         [stage EXCEPT ![i][h] = "none"],
         [current EXCEPT ![i] = 0])

-----------------------------------------------------------------------------
(* What the user does *)

Enqueue(n) ==
    LET new == added + 1 .. added + n
    IN  /\ added + n <= MaxItems
        /\ added' = added + n
        /\ Pump([i \in Item |-> IF i \in new THEN "queued" ELSE status[i]], stage, current)
        /\ UNCHANGED <<rejected, stored>>

\* The panel offers it for failed items.
Retry(i) ==
    /\ "retry" \in Enabled
    /\ status[i] = "error"
    /\ Pump([status EXCEPT ![i] = "queued"], stage, [current EXCEPT ![i] = 0])
    /\ UNCHANGED <<added, rejected, stored>>

\* Slip for SlotsFollowTransfers: nothing is started in place of what is removed.
SlipRemove(i) ==
    /\ "remove" \in Enabled
    /\ Listed(i)
    /\ status' = [status EXCEPT ![i] = "gone"]
    /\ stage' = [stage EXCEPT ![i] = [h \in Slot |-> "none"]]
    /\ current' = [current EXCEPT ![i] = 0]
    /\ UNCHANGED <<added, rejected, stored>>

\* abort(true) stops a running transfer, terminates the upload and forgets its
\* URL; a transfer that is being prepared is started all the same.
Remove(i) ==
    LET h == current[i]
        running == h # 0 /\ stage[i][h] = "running"
    IN  /\ "remove" \in Enabled
        /\ Listed(i)
        /\ Pump([status EXCEPT ![i] = "gone"],
                IF running THEN [stage EXCEPT ![i][h] = "none"] ELSE stage,
                [current EXCEPT ![i] = 0])
        /\ stored' = IF running THEN stored \ {i} ELSE stored
        /\ UNCHANGED <<added, rejected>>

\* clearFinished, by the timer that runs while everything listed is done.
ClearFinished ==
    /\ "dismiss" \in Enabled
    /\ Having(status, "done") # {}
    /\ Having(status, "done") = {i \in Item : Listed(i)}
    /\ status' = [i \in Item |-> IF status[i] \in {"queued", "active"}
                                 THEN status[i] ELSE "gone"]
    /\ UNCHANGED <<added, rejected, stage, current, stored>>

-----------------------------------------------------------------------------
(* What happens to a transfer *)

\* The capability and the stored uploads are there, or could not be had.
Prepared(i, h) ==
    /\ stage[i][h] = "prepare"
    /\ stage' = [stage EXCEPT ![i][h] = "running"]
    /\ UNCHANGED <<added, status, rejected, current, stored>>

\* The server has created the upload and the library remembers its URL.
Created(i, h) ==
    /\ stage[i][h] = "running"
    /\ stored' = stored \cup {i}
    /\ UNCHANGED <<added, status, rejected, stage, current>>

\* onSuccess; the fingerprint is removed on success.
Succeed(i, h) ==
    /\ stage[i][h] = "running"
    /\ End(i, h, "done")
    /\ stored' = stored \ {i}
    /\ UNCHANGED <<added, rejected>>

\* onError for anything but a 403, when the library gives up.
Fail(i, h) ==
    /\ stage[i][h] = "running"
    /\ End(i, h, "error")
    /\ UNCHANGED <<added, rejected, stored>>

\* Slip for EverythingEnds: rejections are retried for ever.
SlipReject(i, h) ==
    /\ stage[i][h] = "running"
    /\ stored' = stored \ {i}
    /\ End(i, h, "queued")
    /\ UNCHANGED <<added, rejected>>

\* onError with a 403: the stored URL is purged and the item queued once more.
Reject(i, h) ==
    LET again == ~Listed(i) \/ rejected[i] < MaxRejected
    IN  /\ stage[i][h] = "running"
        /\ stored' = stored \ {i}
        /\ End(i, h, IF again THEN "queued" ELSE "error")
        /\ rejected' = IF Listed(i) /\ again THEN [rejected EXCEPT ![i] = @ + 1] ELSE rejected
        /\ UNCHANGED added

-----------------------------------------------------------------------------
Ends(i, h) == Succeed(i, h) \/ Fail(i, h) \/ Reject(i, h)

Next ==
    \/ \E n \in Item : Enqueue(n)
    \/ \E i \in Item : Retry(i) \/ Remove(i)
    \/ ClearFinished
    \/ \E i \in Item, h \in Slot : Prepared(i, h) \/ Created(i, h) \/ Ends(i, h)

Spec == Init /\ [][Next]_vars

\* Promises settle, and a transfer ends: the library gives up after its retries.
\* The user owes nothing.
Fairness ==
    \A i \in Item, h \in Slot : WF_vars(Prepared(i, h)) /\ WF_vars(Ends(i, h))

FairSpec == Spec /\ Fairness

-----------------------------------------------------------------------------
(* Properties *)

Active == Having(status, "active")
Live(i) == {h \in Slot : stage[i][h] # "none"}

\* uploads.ts:139: never more than three items are active, and no slot is idle
\* while something waits: whatever is clicked and however transfers end, every
\* callback that frees a slot fills it.
NoIdleSlot ==
    /\ Cardinality(Active) <= MaxConcurrent
    /\ Having(status, "queued") # {} => Cardinality(Active) = MaxConcurrent

\* uploads.ts:59: an item is shown as active exactly while its own transfer, the
\* one in `handles', is on its way; no listed item is transferred twice.
ActiveIsTransferred ==
    \A i \in Item : Listed(i) =>
        Live(i) = IF status[i] = "active" THEN {current[i]} ELSE {}

\* Everything that is queued is uploaded, fails or is removed in the end, and a
\* rejected capability does not send an item round for ever.
EveryUploadEnds ==
    \A i \in Item : []<>(status[i] \notin {"queued", "active"})
=============================================================================
