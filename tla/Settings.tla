------------------------------ MODULE Settings ------------------------------
(***************************************************************************)
(* System settings an administrator changes while the server runs          *)
(* (internal/api/admin.go), what is stored of them in the meta table, and  *)
(* what a start of the process makes of environment and table              *)
(* (internal/api/server.go).  Three parts of the program have a copy of    *)
(* their own: the configuration, the guard chain and the tus registry.     *)
(*                                                                         *)
(* A value is stored by one statement per key and becomes active, with all *)
(* others of its request, under the server's lock afterwards.              *)
(***************************************************************************)
EXTENDS Naturals, Sequences

CONSTANTS
    Req,           \* requests handled at the same time
    Env,           \* environments the process is started in: key -> value
    Given,         \* key -> the values administrators try to set
    Cidr,          \* networks of trusted proxies
    MaxRate,       \* the highest request rate that is loaded (1,000,000)
    DefaultUpload, \* the registry's limit for an environment without one
    Enabled,       \* which of "dbfail", "restart" happen
    Unset          \* a key that is not given, or has no row

\* The order in which the keys are stored.
Order == <<"max_upload", "max_text_size", "guard", "request_rate",
           "download_rate", "pow_difficulty", "trusted_proxies">>

Key == {Order[i] : i \in DOMAIN Order}
GuardKey == Key \ {"max_upload", "max_text_size"}

Number == Nat \ {0}

\* validateSystemSettings: the values an update may have.
Accepts == [max_upload |-> Number, max_text_size |-> Number, guard |-> BOOLEAN,
            request_rate |-> Number, download_rate |-> Number,
            pow_difficulty |-> 0 .. 16, trusted_proxies |-> SUBSET Cidr]

\* loadMeta...: the rows a start takes over.  An empty list of proxies is stored
\* as the empty string, which is how a missing row is reported, too.
Loads == [Accepts EXCEPT !.request_rate = 1 .. MaxRate,
                         !.trusted_proxies = @ \ {{}}]

\* FromEnv: a size may be zero, the other numbers are as for an update.
Environment == [Accepts EXCEPT !.max_upload = Nat, !.max_text_size = Nat,
                               !.download_rate = Nat]

\* What the constants are, for the instances.
SettingsBounds ==
    /\ \A e \in Env, k \in Key : e[k] \in Environment[k]
    /\ MaxRate \in Number /\ DefaultUpload \in Number

VARIABLES
    meta,  \* the rows: key -> value, or Unset
    cfg,   \* the active configuration
    guard, \* the guard chain's copy
    tus,   \* the registry's limit of an upload
    req,   \* request -> where its handler stands
    firm   \* history: the keys whose row is the value that is active

vars == <<meta, cfg, guard, tus, req, firm>>

NoRows == [k \in Key |-> Unset]
GivenKeys(body) == {k \in Key : body[k] # Unset}

\* lone: no other request was ever in progress at the same time (history).
Idle == [busy |-> FALSE, body |-> NoRows, todo |-> {}, lone |-> FALSE]

TypeOK ==
    /\ \A k \in GivenKeys(meta) : meta[k] \in Accepts[k]
    /\ \A k \in Key : cfg[k] \in Environment[k]
    /\ \A r \in Req : req[r].todo \subseteq GivenKeys(req[r].body)
    /\ tus \in Number

-----------------------------------------------------------------------------
(* A start: New, loadPersistedSettings                                      *)

Loaded(k, rows) == rows[k] # Unset /\ rows[k] \in Loads[k]

Overlay(over, under) == [k \in Key |-> IF over[k] # Unset THEN over[k] ELSE under[k]]

\* What the process has after reading environment e and the rows.
BootConfig(e, rows) == [k \in Key |-> IF Loaded(k, rows) THEN rows[k] ELSE e[k]]

GuardPart(c) == [k \in GuardKey |-> c[k]]

BootLimit(e, rows) ==
    IF Loaded("max_upload", rows) THEN rows.max_upload
    ELSE IF e.max_upload > 0 THEN e.max_upload ELSE DefaultUpload

\* Slip for SettingsSurvive: the proxies are loaded, and not reported as changed.
SlipStart(e, rows) ==
    /\ cfg' = BootConfig(e, rows)
    /\ guard' = IF \E k \in GuardKey \ {"trusted_proxies"} : Loaded(k, rows) THEN GuardPart(cfg')
                ELSE GuardPart(e)
    /\ tus' = BootLimit(e, rows)

\* The chain is built from the environment (main.go:105), and told of the rows when one of
\* its own was taken over.
Start(e, rows) ==
    /\ cfg' = BootConfig(e, rows)
    /\ guard' = IF \E k \in GuardKey : Loaded(k, rows) THEN GuardPart(cfg') ELSE GuardPart(e)
    /\ tus' = BootLimit(e, rows)

Init ==
    /\ meta = NoRows
    /\ \E e \in Env :
        /\ cfg = e
        /\ guard = GuardPart(e)
        /\ tus = BootLimit(e, NoRows)
    /\ req = [r \in Req |-> Idle]
    /\ firm = {}

Restart(e) ==
    /\ "restart" \in Enabled
    /\ req' = [r \in Req |-> Idle]
    /\ Start(e, meta)
    /\ firm' = {k \in Key : Loaded(k, meta)}
    /\ UNCHANGED meta

-----------------------------------------------------------------------------
(* PUT /api/settings/system: handleUpdateSystemSettings                     *)

Try(k) == Given[k] \cup {Unset}

Bodies == [max_upload : Try("max_upload"), max_text_size : Try("max_text_size"),
           guard : Try("guard"), request_rate : Try("request_rate"),
           download_rate : Try("download_rate"), pow_difficulty : Try("pow_difficulty"),
           trusted_proxies : Try("trusted_proxies")]

Rest == \A r \in Req : ~req[r].busy

Begin(r, body) ==
    req' = [x \in Req |->
              IF x = r THEN [busy |-> TRUE, body |-> body, todo |-> GivenKeys(body), lone |-> Rest]
              ELSE [req[x] EXCEPT !.lone = FALSE]]

Update(r, body) ==
    /\ ~req[r].busy
    /\ \A k \in GivenKeys(body) : body[k] \in Accepts[k]
    /\ Begin(r, body)
    /\ UNCHANGED <<meta, cfg, guard, tus, firm>>

First(todo) == Order[CHOOSE i \in DOMAIN Order :
                        Order[i] \in todo /\ \A j \in 1 .. i - 1 : Order[j] \notin todo]

\* Slip for LonePersists: the loop ends after the first row.
SlipPersist(r) ==
    /\ req[r].todo # {}
    /\ LET k == First(req[r].todo)
       IN  meta' = [meta EXCEPT ![k] = req[r].body[k]] /\ firm' = firm \ {k}
    /\ req' = [req EXCEPT ![r].todo = {}]
    /\ UNCHANGED <<cfg, guard, tus>>

\* One SetMeta of persistSystemSettings.
Persist(r) ==
    /\ req[r].todo # {}
    /\ LET k == First(req[r].todo)
       IN  /\ meta' = [meta EXCEPT ![k] = req[r].body[k]]
           /\ req' = [req EXCEPT ![r].todo = @ \ {k}]
           /\ firm' = firm \ {k}
    /\ UNCHANGED <<cfg, guard, tus>>

\* A SetMeta fails: the request is answered 500 with what it has stored so far.
PersistFail(r) ==
    /\ "dbfail" \in Enabled
    /\ req[r].todo # {}
    /\ req' = [req EXCEPT ![r] = Idle]
    /\ UNCHANGED <<meta, cfg, guard, tus, firm>>

\* applySystemSettings, under s.mu.
Apply(r) ==
    /\ req[r].busy
    /\ req[r].todo = {}
    /\ cfg' = Overlay(req[r].body, cfg)
    /\ guard' = GuardPart(cfg')
    /\ tus' = IF req[r].body.max_upload # Unset THEN req[r].body.max_upload ELSE tus
    /\ req' = [req EXCEPT ![r] = Idle]
    /\ firm' = IF req[r].lone THEN firm \cup GivenKeys(req[r].body)
               ELSE firm \ GivenKeys(req[r].body)
    /\ UNCHANGED meta

-----------------------------------------------------------------------------
Next ==
    \/ \E r \in Req :
        \/ \E body \in Bodies : Update(r, body)
        \/ Persist(r)
        \/ PersistFail(r)
        \/ Apply(r)
    \/ \E e \in Env : Restart(e)

Spec == Init /\ [][Next]_vars

-----------------------------------------------------------------------------
(* Properties *)

\* What the three parts of the program hold of a key.
Held(k) == [cfg |-> cfg[k], guard |-> IF k \in GuardKey THEN guard[k] ELSE cfg[k],
            tus |-> IF k = "max_upload" THEN tus ELSE cfg[k]]

\* admin.go:424, server.go:213: saves and uploads are held to the same limit (an
\* environment with no limit leaves uploads the default).
UploadLimitsAgree == cfg.max_upload > 0 => tus = cfg.max_upload

\* admin.go:456, server.go:178: what an update that no other overlapped has set is in force
\* after a restart as it was before, in the configuration, the guard chain and the registry,
\* whatever environment the process is started in and whichever updates broke off or
\* overlapped since, unless they wrote the same row or a start does not load what it holds
\* (an empty list of proxies, a rate over a million).
SettingsSurvive ==
    [][\A k \in firm : meta[k] \in Loads[k] /\ (\E e \in Env : Restart(e))
            => Held(k)' = Held(k)]_vars

\* admin.go:457: settings are persisted: when an update that no other overlapped is
\* through, all it has set is stored and active, also after updates that
\* overlapped or broke off and left the rows and the active values apart.
LonePersists ==
    [][\A r \in Req : Apply(r) /\ req[r].lone =>
            \A k \in GivenKeys(req[r].body) : meta'[k] = cfg'[k]]_vars
=============================================================================
