------------------------------ MODULE MCRequests ----------------------------
(***************************************************************************)
(* Instances for TLC of what a page asks for and plays beside its folder:  *)
(* previews (Previews), the tokens with which it may change anything       *)
(* (Capability), video and audio (Player).                                 *)
(*                                                                         *)
(* They share no state.  A behaviour is one of the module in `workload',   *)
(* which is chosen at the start; the variables of the others keep their    *)
(* first values, in which none of their fair actions can be taken.         *)
(***************************************************************************)
EXTENDS Previews, CapabilityTokens

CONSTANTS
    Caller, CapabilityEnabled,                                    \* of Capability
    HideDelay, Loudest, PlayerEvents, PlayerActs, PlayerEnabled   \* of Player

VARIABLES
    workload, \* "previews", "capability" or "player"
    period, off, cached, inflight, caller, \* of Capability
    el, events, state, visible, held, loose, still, leaked, swapped, acts \* of Player

C == INSTANCE Capability WITH Enabled <- CapabilityEnabled

P == INSTANCE Player WITH
        Delay <- HideDelay, MaxVolume <- Loudest, MaxEvents <- PlayerEvents,
        MaxActs <- PlayerActs, Enabled <- PlayerEnabled

ASSUME InstanceAssumption == P!PlayerBounds

playing == <<el, events, state, visible, held, loose, still, leaked, swapped, acts>>
asking == <<period, off, cached, inflight, caller>>
requests == <<workload, vars, asking, playing>>

RequestsInit ==
    /\ workload \in {"previews", "capability", "player"}
    /\ Init /\ C!Init /\ P!Init

RequestsNext ==
    \/ workload = "previews" /\ Next /\ UNCHANGED <<workload, asking, playing>>
    \/ workload = "capability" /\ C!Next /\ UNCHANGED <<workload, vars, playing>>
    \/ workload = "player" /\ P!Next /\ UNCHANGED <<workload, vars, asking>>

RequestsSpec ==
    RequestsInit /\ [][RequestsNext]_requests /\ Fairness /\ C!Fairness /\ P!Fairness

-----------------------------------------------------------------------------
(* Properties, where they are stated *)

\* Capability: one renewal is enough (capability.ts:57).
RenewedOnce == C!RenewedOnce

\* VideoPlayer.tsx:24, useMediaPlayer.ts:59: the controls stay for the whole delay after a
\* touch, and when every event has been told the buttons show what the element does (Player).
ControlsAreTrue == P!ShownWhileTouched /\ P!QuietPlayerShowsElement

\* Every request for a preview is answered (thumbs.go:135), every mutation is settled
\* (capability.ts:45), and a video that plays on untouched loses its controls in the end
\* (VideoPlayer.tsx:39).
NothingHangs == EveryRequestAnswered /\ C!EveryMutationEnds /\ P!HidesInTheEnd
=============================================================================
