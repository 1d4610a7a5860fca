----------------------------- MODULE MCUploads -----------------------------
(***************************************************************************)
(* Instances for TLC of both ends of an upload, for what must happen in    *)
(* the end: the handlers and the collector of the server (TusUploads) and  *)
(* the queue of the browser (UploadQueue).                                 *)
(*                                                                         *)
(* They share no state.  A behaviour is one of the module in `workload',   *)
(* which is chosen at the start; the variables of the other keep their     *)
(* first values, in which none of its fair actions can be taken.           *)
(***************************************************************************)
EXTENDS TusUploads

CONSTANTS \* of UploadQueue
    Files, Slots, Rejections, QueueEnabled

VARIABLES
    workload, \* "tus" or "queue"
    added, status, rejected, stage, current, stored \* of UploadQueue

Q == INSTANCE UploadQueue WITH
        MaxItems <- Files, MaxConcurrent <- Slots, MaxRejected <- Rejections,
        Enabled <- QueueEnabled

ASSUME QueueAssumption == Q!BoundsAssumption

queueing == <<added, status, rejected, stage, current, stored>>
uploads == <<workload, vars, queueing>>

UploadsInit ==
    /\ workload \in {"tus", "queue"}
    /\ Init /\ Q!Init

UploadsNext ==
    \/ workload = "tus" /\ Next /\ UNCHANGED <<workload, queueing>>
    \/ workload = "queue" /\ Q!Next /\ UNCHANGED <<workload, vars>>

UploadsSpec == UploadsInit /\ [][UploadsNext]_uploads /\ Fairness /\ Q!Fairness

-----------------------------------------------------------------------------
(* Properties, where they are stated *)

\* uploads.ts:59, uploads.ts:139: exactly the slots there are are used, and an item is shown
\* as active while its own transfer, and no second one, is on its way.
SlotsFollowTransfers == Q!NoIdleSlot /\ Q!ActiveIsTransferred

\* tus.go:51: an upload its client gives up leaves the registry in the end, and when all
\* clients have gone away no partial upload is left in the tree.
AbandonedVanishes == AbandonedCollected /\ PartialsVanish

\* tus.go:337, uploads.ts:86: a request that is never answered waits for a body that stalls,
\* its own or that of the request that holds its session's lock; and everything that is
\* queued is uploaded, fails or is removed in the end, however often it is rejected.
EverythingEnds == RequestsAnswered /\ Q!EveryUploadEnds
=============================================================================
