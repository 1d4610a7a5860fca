----------------------------- MODULE Capability -----------------------------
(***************************************************************************)
(* Capability tokens: how the browser obtains, shares and renews one       *)
(* (frontend/src/api/capability.ts), against the server that issues and    *)
(* verifies them (internal/guard/token.go, internal/api/capability.go).    *)
(*                                                                         *)
(* A token is the number of the signing period it was issued in.  A period *)
(* ends when a token of it is no longer accepted: its hour is over, or the *)
(* server came back with another key (ResolveKey could not persist one).   *)
(*                                                                         *)
(* The cached token and the fetch in flight are shared by all callers of   *)
(* the page; each caller continues in a callback of its own.               *)
(***************************************************************************)
EXTENDS CapabilityTokens

CONSTANTS
    Caller, \* mutations in progress in the page
    Enabled \* which of "offline", "off" happen

VARIABLES
    period,   \* the present signing period
    off,      \* the guard is disabled: every request passes
    cached,   \* the module variable `cached'
    inflight, \* `inflight': NoToken, or how far the shared fetch is
    caller    \* caller -> where its mutate() stands

vars == <<period, off, cached, inflight, caller>>

Pc == {"idle", "waiting", "sent"}

\* try is the attempt, token what it was sent with, allowed whether the client may
\* do this at all, since the period in which the mutation began (history).
Mutation == [pc : Pc, try : 1 .. 2, token : Period \cup {NoToken}, allowed : BOOLEAN,
             since : Period]

Idle == [pc |-> "idle", try |-> 1, token |-> NoToken, allowed |-> TRUE, since |-> 0]

TypeOK ==
    /\ period \in Period
    /\ off \in BOOLEAN
    /\ cached \in Period \cup {NoToken}
    /\ inflight \in Fetch \cup {NoToken}
    /\ caller \in [Caller -> Mutation]

Init ==
    /\ period = 0
    /\ off = FALSE
    /\ cached = NoToken
    /\ inflight = NoToken
    /\ caller = [c \in Caller |-> Idle]

-----------------------------------------------------------------------------
(* The server *)

\* Tokens.Verify: signed with the present key and not expired.
Verify(token) == off \/ token = period

NextPeriod ==
    /\ period < MaxPeriods
    /\ period' = period + 1
    /\ UNCHANGED <<off, cached, inflight, caller>>

\* The settings page disables the guard, or enables it again.
Switch ==
    /\ "off" \in Enabled
    /\ off' = ~off
    /\ UNCHANGED <<period, cached, inflight, caller>>

\* handleCapability: a token at once, or for a solved challenge.
Issue ==
    /\ inflight = Asked
    /\ inflight' = <<period>>
    /\ UNCHANGED <<period, off, cached, caller>>

-----------------------------------------------------------------------------
(* The page *)

\* The promise of mutate() is settled.
Settle(c) == caller' = [caller EXCEPT ![c] = Idle]

\* ensureCapability, synchronously: the cached token goes with the request at
\* once, otherwise the caller waits for the fetch in flight or starts one.
Attempt(c, q, tok, fetch) ==
    IF tok # NoToken
    THEN /\ caller' = [caller EXCEPT ![c] = [q EXCEPT !.pc = "sent", !.token = tok]]
         /\ inflight' = fetch
    ELSE /\ caller' = [caller EXCEPT ![c] = [q EXCEPT !.pc = "waiting", !.token = NoToken]]
         /\ inflight' = IF fetch = NoToken THEN Asked ELSE fetch

Mutate(c) ==
    /\ caller[c].pc = "idle"
    /\ \E may \in BOOLEAN :
        Attempt(c, [Idle EXCEPT !.allowed = may, !.since = period], cached, inflight)
    /\ UNCHANGED <<period, off, cached>>

\* Slip for NothingHangs: a caller that comes after the first is forgotten.
SlipFetched ==
    \E t \in Period :
        /\ inflight = <<t>>
        /\ cached' = t
        /\ inflight' = NoToken
        /\ \E c \in Caller :
            /\ caller[c].pc = "waiting"
            /\ caller' = [caller EXCEPT ![c].pc = "sent", ![c].token = t]
        /\ UNCHANGED <<period, off>>

\* The response: the token is cached, also if it was dropped meanwhile, and every
\* caller that waits for the shared fetch sends its request.
Fetched ==
    \E t \in Period :
        /\ inflight = <<t>>
        /\ cached' = t
        /\ inflight' = NoToken
        /\ caller' = [c \in Caller |->
                IF caller[c].pc = "waiting"
                THEN [caller[c] EXCEPT !.pc = "sent", !.token = t] ELSE caller[c]]
        /\ UNCHANGED <<period, off>>

\* The fetch fails: every mutation that waits for it is rejected.
FetchFails ==
    /\ "offline" \in Enabled
    /\ inflight # NoToken
    /\ inflight' = NoToken
    /\ caller' = [c \in Caller |-> IF caller[c].pc = "waiting"
                    THEN Idle ELSE caller[c]]
    /\ UNCHANGED <<period, off, cached>>

\* The server answers 403 to a token it does not accept, and to a client that may
\* not do this.
Granted(c) == Verify(caller[c].token) /\ caller[c].allowed

\* The request is handled, or it is lost.
Pass(c) ==
    /\ caller[c].pc = "sent"
    /\ Granted(c) \/ "offline" \in Enabled
    /\ Settle(c)
    /\ UNCHANGED <<period, off, cached, inflight>>

\* Slip for RenewedOnce: the cached token is tried once more.
SlipRenew(c) ==
    /\ caller[c].pc = "sent"
    /\ caller[c].try = 1
    /\ ~Granted(c)
    /\ Attempt(c, [caller[c] EXCEPT !.try = 2], cached, inflight)
    /\ UNCHANGED <<period, off, cached>>

\* 403 on the first attempt, for whatever reason: the cached token is dropped,
\* whichever it is by now.
Renew(c) ==
    /\ caller[c].pc = "sent"
    /\ caller[c].try = 1
    /\ ~Granted(c)
    /\ cached' = NoToken
    /\ Attempt(c, [caller[c] EXCEPT !.try = 2], NoToken, inflight)
    /\ UNCHANGED <<period, off>>

\* 403 on the second attempt is what the caller is told.
Refused(c) ==
    /\ caller[c].pc = "sent"
    /\ caller[c].try = 2
    /\ ~Granted(c)
    /\ Settle(c)
    /\ UNCHANGED <<period, off, cached, inflight>>

-----------------------------------------------------------------------------
Next ==
    \/ NextPeriod
    \/ Switch
    \/ Issue
    \/ Fetched
    \/ FetchFails
    \/ \E c \in Caller : Mutate(c) \/ Pass(c) \/ Renew(c) \/ Refused(c)

Spec == Init /\ [][Next]_vars

\* Requests are answered.
Fairness ==
    /\ WF_vars(Issue) /\ WF_vars(Fetched)
    /\ \A c \in Caller : WF_vars(Pass(c) \/ Renew(c) \/ Refused(c))

FairSpec == Spec /\ Fairness

-----------------------------------------------------------------------------
(* Properties *)

\* capability.ts:57: a mutation refreshes the token once, and once is enough:
\* what the client may do is never refused within a signing period, although the
\* cached token may be stale, it may wait for a fetch another caller started,
\* and others drop the token it has just fetched.
RenewedOnce ==
    [][\A c \in Caller :
        Refused(c) /\ caller[c].allowed => period > caller[c].since]_vars

\* capability.ts:40: a token is fetched exactly while some caller waits for it, and
\* never while one is cached: no caller is left without a fetch when others drop
\* the token, and no answer overwrites a newer token.
FetchForWaiters ==
    /\ inflight # NoToken <=> \E c \in Caller : caller[c].pc = "waiting"
    /\ inflight # NoToken => cached = NoToken

\* Every mutation ends, whatever happens to the keys while it is in progress.
EveryMutationEnds == \A c \in Caller : []<>(caller[c].pc = "idle")
=============================================================================
