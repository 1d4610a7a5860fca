-------------------------------- MODULE Guard --------------------------------
(***************************************************************************)
(* The guard chain of internal/guard for one client address: the token     *)
(* buckets of requests and downloads (ratelimit.go), strikes and bans      *)
(* (ban.go), the janitors of each, and the requests that pass the chain    *)
(* (guard.go).  Addresses share nothing but the configuration.             *)
(*                                                                         *)
(* Every operation takes its own lock, so requests of the same client      *)
(* interleave between the ban check, the bucket and the strike.            *)
(*                                                                         *)
(* Time is kept as ages and remaining durations, in ticks; an age stops    *)
(* growing once it makes no difference any more.                           *)
(***************************************************************************)
EXTENDS Naturals

CONSTANTS
    Req,        \* requests of the client handled at the same time
    ReqRates,   \* request rates an administrator sets (tokens per tick)
    DlRates,    \* download rates an administrator sets
    Floor,      \* tokens a download needs to be let through (64 KiB)
    FileSizes,  \* sizes of the files downloaded
    MaxIdle,    \* buckets idle for longer are evicted (15 minutes)
    Window,     \* strikes further apart start over (15 minutes)
    Threshold,  \* strikes that make a ban
    BanBase,    \* first ban (15 minutes)
    BanMax,     \* longest ban (24 hours)
    Trap,       \* ban of a honeypot hit (24 hours)
    MaxStrikes, \* bound: strikes counted; more make no longer ban
    Enabled,    \* which of "trap", "bot", "download", "config" happen
    None

GuardBounds ==
    /\ FileSizes \subseteq Nat
    /\ ReqRates \subseteq Nat \ {0}
    /\ DlRates \subseteq Nat \ {0}
    /\ {Window, BanBase, BanMax, Trap, Threshold, MaxIdle} \subseteq Nat \ {0}
    /\ MaxStrikes \in Nat
    /\ MaxStrikes >= Threshold
    /\ None \notin [tokens : Nat, age : Nat] \cup [n : Nat, age : Nat]

VARIABLES
    disabled,  \* cfg.Disabled
    rate,      \* limiter.rate, of "req" and of "dl"
    bucket,    \* the bucket of the client in each limiter, or None
    strikes,   \* [n, age] of strikes and lastSeen, or None
    ban,       \* ticks until the ban ends; 0 when there is none
    req,       \* request -> where it stands in the chain
    kept,      \* the buckets as if they were never evicted (history)
    run        \* strikes as if they were never evicted (history)

vars == <<disabled, rate, bucket, strikes, ban, req, kept, run>>

Limiter == {"req", "dl"}

Lesser(a, b) == IF a < b THEN a ELSE b

\* newLimiter(rate, 2*rate) for requests, newLimiter(rate, rate) for downloads.
Burst(l) == IF l = "req" THEN 2 * rate[l] ELSE rate[l]

Pc == {"idle", "rate", "agent", "handle", "strike"}

TypeOK ==
    /\ disabled \in BOOLEAN
    /\ rate["req"] \in ReqRates /\ rate["dl"] \in DlRates
    /\ \A l \in Limiter :
        /\ bucket[l] # None => bucket[l].tokens \in Nat /\ bucket[l].age \in 0 .. MaxIdle + 1
        /\ kept[l] # None => kept[l].tokens \in Nat
    /\ strikes # None => strikes.n \in 1 .. MaxStrikes /\ strikes.age \in 0 .. Window + 1
    /\ ban \in 0 .. BanMax + Trap
    /\ req \in [Req -> Pc]

Init ==
    /\ disabled \in BOOLEAN
    /\ rate \in {[req |-> q, dl |-> d] : q \in ReqRates, d \in DlRates}
    /\ bucket = [l \in Limiter |-> None]
    /\ strikes = None
    /\ ban = 0
    /\ req = [r \in Req |-> "idle"]
    /\ kept = [l \in Limiter |-> None]
    /\ run = None

-----------------------------------------------------------------------------
(* ratelimit.go *)

\* What a bucket holds now: refilled at the present rate since it was last used.
\* A bucket that is not there is a full one.
Tokens(l, b) == IF b = None THEN Burst(l)
                ELSE Lesser(Burst(l), b.tokens + b.age * rate[l])

\* Both buckets are touched: the one of the program and the one of the history.
Take(l, cost) ==
    LET take(b) == [tokens |-> Tokens(l, b) - Lesser(cost, Tokens(l, b)), age |-> 0]
    IN  /\ bucket' = [bucket EXCEPT ![l] = take(@)]
        /\ kept' = [kept EXCEPT ![l] = take(@)]

Allow(l, needed) == Tokens(l, bucket[l]) >= needed

\* Slip for EvictionInvisible: buckets that were used up are evicted.
SlipCleanup(l) ==
    /\ bucket[l] # None
    /\ bucket[l].tokens = 0
    /\ bucket' = [bucket EXCEPT ![l] = None]
    /\ UNCHANGED <<disabled, rate, strikes, ban, req, kept, run>>

\* The janitor of a limiter.
Cleanup(l) ==
    /\ bucket[l] # None
    /\ bucket[l].age > MaxIdle
    /\ bucket' = [bucket EXCEPT ![l] = None]
    /\ UNCHANGED <<disabled, rate, strikes, ban, req, kept, run>>

-----------------------------------------------------------------------------
(* ban.go *)

BanFor(n) == Lesser(BanBase * 2 ^ (n - Threshold), BanMax)

Counted(s) == IF s = None THEN 0 ELSE IF s.age > Window THEN 0 ELSE s.n

\* Slip for BanHasCause: strikes far apart add up.
SlipStrike ==
    LET n == Lesser((IF strikes = None THEN 0 ELSE strikes.n) + 1, MaxStrikes)
        m == Lesser(Counted(run) + 1, MaxStrikes)
    IN  /\ strikes' = [n |-> n, age |-> 0]
        /\ run' = [n |-> m, age |-> 0]
        /\ ban' = IF n >= Threshold THEN BanFor(n) ELSE ban

\* Strike: one offense, and a ban from now on once there are enough of them.
Strike ==
    LET n == Lesser(Counted(strikes) + 1, MaxStrikes)
        m == Lesser(Counted(run) + 1, MaxStrikes)
    IN  /\ strikes' = [n |-> n, age |-> 0]
        /\ run' = [n |-> m, age |-> 0]
        /\ ban' = IF n >= Threshold THEN BanFor(n) ELSE ban

\* The janitor drops strikes that would start over and bans that have ended.
Janitor ==
    /\ strikes # None
    /\ strikes.age > Window
    /\ strikes' = None
    /\ UNCHANGED <<disabled, rate, bucket, ban, req, kept, run>>

-----------------------------------------------------------------------------
(* guard.go: Middleware, AllowDownload, UpdateConfig                        *)

Goto(r, pc) == req' = [req EXCEPT ![r] = pc]

\* With the guard disabled requests go straight to their handler.
Bypass(r) ==
    /\ req[r] = "idle"
    /\ disabled
    /\ Goto(r, "handle")
    /\ UNCHANGED <<disabled, rate, bucket, strikes, ban, kept, run>>

Honeypot(r) ==
    /\ "trap" \in Enabled
    /\ req[r] = "idle"
    /\ ~disabled
    /\ ban' = Trap
    /\ UNCHANGED <<disabled, rate, bucket, strikes, req, kept, run>>

\* Slip for ShutOutGetIn: a request that is refused is counted as a strike.
SlipCheckBan(r) ==
    /\ req[r] = "idle"
    /\ ~disabled
    /\ IF ban > 0
       THEN Strike /\ UNCHANGED req
       ELSE Goto(r, "rate") /\ UNCHANGED <<strikes, ban, run>>
    /\ UNCHANGED <<disabled, rate, bucket, kept>>

\* Banned.  The answer to a banned client is 429 and nothing changes.
CheckBan(r) ==
    /\ req[r] = "idle"
    /\ ~disabled
    /\ ban = 0
    /\ Goto(r, "rate")
    /\ UNCHANGED <<disabled, rate, bucket, strikes, ban, kept, run>>

\* g.req.allow(key, 1); a refusal is a 429, too, and no strike.
CheckRate(r) ==
    /\ req[r] = "rate"
    /\ \/ /\ Allow("req", 1)
          /\ Take("req", 1)
          /\ Goto(r, "agent")
       \/ /\ ~Allow("req", 1)
          /\ Take("req", 0)
          /\ Goto(r, "idle")
    /\ UNCHANGED <<disabled, rate, strikes, ban, run>>

\* A suspicious user agent is a strike, but the request is served.
CheckAgent(r) ==
    /\ req[r] = "agent"
    /\ \/ "bot" \in Enabled /\ Strike
       \/ UNCHANGED <<strikes, ban, run>>
    /\ Goto(r, "handle")
    /\ UNCHANGED <<disabled, rate, bucket, kept>>

\* AllowDownload for a file of size n; allowPartial takes what there is.
Download(r, n) ==
    /\ "download" \in Enabled
    /\ req[r] = "handle"
    /\ ~disabled
    /\ \/ /\ Allow("dl", Floor)
          /\ Take("dl", n)
          /\ Goto(r, "idle")
       \/ /\ ~Allow("dl", Floor)
          /\ Take("dl", 0)
          /\ Goto(r, "strike")
    /\ UNCHANGED <<disabled, rate, strikes, ban, run>>

\* A refused download is a strike of its own.
DownloadStrike(r) ==
    /\ req[r] = "strike"
    /\ Strike
    /\ Goto(r, "idle")
    /\ UNCHANGED <<disabled, rate, bucket, kept>>

\* Every other handler, and a download with the guard disabled.
Serve(r) ==
    /\ req[r] = "handle"
    /\ Goto(r, "idle")
    /\ UNCHANGED <<disabled, rate, bucket, strikes, ban, kept, run>>

\* The system settings page.  Buckets keep their tokens and their age.
UpdateConfig(off, q, d) ==
    /\ "config" \in Enabled
    /\ disabled' = off
    /\ rate' = [req |-> q, dl |-> d]
    /\ UNCHANGED <<bucket, strikes, ban, req, kept, run>>

-----------------------------------------------------------------------------
Older(x, max) == IF x = None THEN None ELSE [x EXCEPT !.age = Lesser(@ + 1, max)]

Tick ==
    /\ bucket' = [l \in Limiter |-> Older(bucket[l], MaxIdle + 1)]
    /\ kept' = [l \in Limiter |-> Older(kept[l], MaxIdle + 1)]
    /\ strikes' = Older(strikes, Window + 1)
    /\ run' = Older(run, Window + 1)
    /\ ban' = IF ban = 0 THEN 0 ELSE ban - 1
    /\ UNCHANGED <<disabled, rate, req>>

Chain(r) ==
    \/ Bypass(r)
    \/ Honeypot(r)
    \/ CheckBan(r)
    \/ CheckRate(r)
    \/ CheckAgent(r)
    \/ \E n \in FileSizes : Download(r, n)
    \/ DownloadStrike(r)
    \/ Serve(r)

Next ==
    \/ \E r \in Req : Chain(r)
    \/ \E l \in Limiter : Cleanup(l)
    \/ Janitor
    \/ \E off \in BOOLEAN, q \in ReqRates, d \in DlRates : UpdateConfig(off, q, d)
    \/ Tick

Spec == Init /\ [][Next]_vars

\* Time passes; requests that are in the chain go on; the client keeps asking.
Fairness ==
    /\ WF_vars(Tick)
    /\ \A r \in Req : SF_vars(CheckBan(r)) /\ WF_vars(CheckRate(r))
    /\ \A r \in Req : WF_vars(CheckAgent(r)) /\ WF_vars(Serve(r)) /\ WF_vars(DownloadStrike(r))

FairSpec == Spec /\ Fairness

-----------------------------------------------------------------------------
(* Properties *)

\* ratelimit.go:84: evicting idle buckets changes no decision: the client has the
\* tokens it would have if its bucket had been kept, whatever the rates were set
\* to in the meantime.  So no client gains budget from being forgotten.
EvictionInvisible ==
    /\ \A l \in Limiter : Tokens(l, bucket[l]) = Tokens(l, kept[l])
    /\ Counted(strikes) = Counted(run)

\* ban.go:47: a ban begins, or is set anew, only by a honeypot hit or by Threshold
\* strikes none of which came later than Window after the one before.
BanHasCause ==
    [][ban' # ban /\ ban' # 0 /\ ~Tick =>
            (\E r \in Req : Honeypot(r)) \/ Counted(run') >= Threshold]_vars

\* What the client can leave off.
Offends(r) == Honeypot(r) \/ (run' # run /\ CheckAgent(r)) \/ DownloadStrike(r)

Served == \E r \in Req : req[r] = "handle"

=============================================================================
