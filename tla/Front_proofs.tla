---------------------------- MODULE Front_proofs ----------------------------
(***************************************************************************)
(* What holds of the application a browser shows, and of the settings      *)
(* behind its forms, for every value of their constants: of Settings, of   *)
(* Pages, of Viewer and of SettingsForms, each under its own specification *)
(* and so where they run side by side (EachRuns); and of Browser.          *)
(***************************************************************************)
EXTENDS MCFront, MCBrowser, SequenceTheorems, WellFoundedInduction, TLAPS

-----------------------------------------------------------------------------
(* Settings *)

\* Every request is a record, every row has its place.
Shape ==
    /\ meta = [k \in Sys!Key |-> meta[k]]
    /\ req = [r \in Req |-> [busy |-> req[r].busy, body |-> req[r].body,
                             todo |-> req[r].todo, lone |-> req[r].lone]]

\* What is being written was accepted, and what is idle writes nothing.
Accepted ==
    \A r \in Req :
        /\ req[r].busy \in BOOLEAN
        /\ ~req[r].busy => req[r].todo = {}
        /\ \A k \in Sys!GivenKeys(req[r].body) : req[r].body[k] \in Sys!Accepts[k]

\* The rows of an update on its own are those that are not still to be written.
Written ==
    \A r \in Req : req[r].lone =>
        /\ \A q \in Req \ {r} : ~req[q].busy
        /\ \A k \in Sys!GivenKeys(req[r].body) \ req[r].todo : meta[k] = req[r].body[k]

\* The guard chain enforces the values of the configuration.
GuardFollows == guard = Sys!GuardPart(cfg)

\* What is set and through is stored and active.
Firm ==
    /\ firm \subseteq Sys!Key
    /\ \A k \in firm : meta[k] # Unset /\ cfg[k] = meta[k]

IInv ==
    /\ Sys!TypeOK /\ Shape /\ Accepted /\ Written
    /\ GuardFollows /\ Sys!UploadLimitsAgree /\ Firm

-----------------------------------------------------------------------------
(* The keys, and what a value may be *)

LEMMA EnvironmentsAre == \A e \in Env, k \in Sys!Key : e[k] \in Sys!Environment[k]
BY InstanceAssumption DEF Sys!SettingsBounds

LEMMA NumbersAre == MaxRate \in Sys!Number /\ DefaultUpload \in Sys!Number
BY InstanceAssumption DEF Sys!SettingsBounds

\* persistSystemSettings (admin.go:379) handles seven keys.
LEMMA SevenKeys ==
    Sys!Key = {"max_upload", "max_text_size", "guard", "request_rate",
           "download_rate", "pow_difficulty", "trusted_proxies"}
<1>1. DOMAIN Sys!Order = 1 .. 7
  BY DEF Sys!Order
<1> QED BY <1>1 DEF Sys!Key, Sys!Order

\* What a start loads (server.go:219) was accepted, and what is accepted the
\* environment could have said, too.
LEMMA Ranges ==
    \A k \in Sys!Key : Sys!Loads[k] \subseteq Sys!Accepts[k] /\ Sys!Accepts[k] \subseteq Sys!Environment[k]
<1> USE NumbersAre DEF Sys!Loads, Sys!Accepts, Sys!Environment, Sys!Number
<1> TAKE k \in Sys!Key
<1>1. CASE k = "max_upload" \/ k = "max_text_size"
  <2>1. Sys!Accepts[k] = Sys!Number /\ Sys!Loads[k] = Sys!Accepts[k] /\ Sys!Environment[k] = Nat
    <3>1. CASE k = "max_upload" BY <3>1
    <3>2. CASE k = "max_text_size" BY <3>2
    <3> QED BY <1>1, <3>1, <3>2
  <2> QED BY <2>1
<1>5. CASE k = "download_rate" BY <1>5
<1>2. CASE k = "request_rate" BY <1>2
<1>3. CASE k = "trusted_proxies" BY <1>3
<1>4. CASE k \in {"guard", "pow_difficulty"} BY <1>4
<1> QED BY <1>1, <1>2, <1>3, <1>4, <1>5, SevenKeys

\* A request writes the keys it gives, one of them first.
LEMMA FirstGiven ==
    ASSUME NEW todo \in SUBSET Sys!Key, todo # {}
    PROVE  Sys!First(todo) \in todo
<1> DEFINE Wanted(i) == i \in DOMAIN Sys!Order /\ Sys!Order[i] \in todo
<1>1. DOMAIN Sys!Order = 1 .. 7
  BY DEF Sys!Order
<1>2. \E i \in 1 .. 7 : Sys!Order[i] \in todo
  BY <1>1 DEF Sys!Key
<1>3. \E i \in DOMAIN Sys!Order :
        Sys!Order[i] \in todo /\ \A j \in 1 .. i - 1 : Sys!Order[j] \notin todo
  <2>1. CASE Sys!Order[1] \in todo BY <1>1, <2>1
  <2>2. CASE Sys!Order[1] \notin todo /\ Sys!Order[2] \in todo BY <1>1, <2>2
  <2>3. CASE Sys!Order[1] \notin todo /\ Sys!Order[2] \notin todo /\ Sys!Order[3] \in todo
    BY <1>1, <2>3
  <2>4. CASE (\A j \in 1 .. 3 : Sys!Order[j] \notin todo) /\ Sys!Order[4] \in todo
    BY <1>1, <2>4
  <2>5. CASE (\A j \in 1 .. 4 : Sys!Order[j] \notin todo) /\ Sys!Order[5] \in todo
    BY <1>1, <2>5
  <2>6. CASE (\A j \in 1 .. 5 : Sys!Order[j] \notin todo) /\ Sys!Order[6] \in todo
    BY <1>1, <2>6
  <2>7. CASE (\A j \in 1 .. 6 : Sys!Order[j] \notin todo) /\ Sys!Order[7] \in todo
    BY <1>1, <2>7
  <2> QED BY <1>2, <2>1, <2>2, <2>3, <2>4, <2>5, <2>6, <2>7
<1> QED BY <1>3 DEF Sys!First

\* The registry's limit is a number, and the configuration's if that has one.
LEMMA BootLimits ==
    ASSUME NEW e \in Env, NEW rows
    PROVE  /\ Sys!BootLimit(e, rows) \in Sys!Number
           /\ Sys!BootConfig(e, rows).max_upload > 0 =>
                Sys!BootLimit(e, rows) = Sys!BootConfig(e, rows).max_upload
<1>1. "max_upload" \in Sys!Key
  BY SevenKeys
<1>2. e.max_upload \in Nat
  BY <1>1, EnvironmentsAre DEF Sys!Environment, Sys!Accepts
<1>3. Sys!Loads.max_upload = Sys!Number
  BY DEF Sys!Loads, Sys!Accepts
<1> QED BY <1>1, <1>2, <1>3, NumbersAre DEF Sys!BootLimit, Sys!BootConfig, Sys!Loaded, Sys!Number

\* The guard chain is told of the rows (server.go:182), or none of its own was taken over.
LEMMA BootGuard ==
    ASSUME NEW e \in Env, NEW rows, \A k \in Sys!GuardKey : ~Sys!Loaded(k, rows)
    PROVE  Sys!GuardPart(e) = Sys!GuardPart(Sys!BootConfig(e, rows))
<1>1. \A k \in Sys!GuardKey : Sys!BootConfig(e, rows)[k] = e[k]
  BY DEF Sys!BootConfig, Sys!GuardKey
<1> HIDE DEF Sys!BootConfig
<1> QED BY <1>1 DEF Sys!GuardPart

\* Whatever it finds, a start has a configuration the environment allows.
LEMMA BootConfigs ==
    ASSUME NEW e \in Env, NEW rows
    PROVE  \A k \in Sys!Key : Sys!BootConfig(e, rows)[k] \in Sys!Environment[k]
BY Ranges, EnvironmentsAre DEF Sys!BootConfig, Sys!Loaded

-----------------------------------------------------------------------------
(* The steps *)

LEMMA SettingsStart == Sys!Init => IInv
<1> SUFFICES ASSUME Sys!Init PROVE IInv
  OBVIOUS
<1> USE DEF Sys!Init
<1> PICK e \in Env : cfg = e /\ guard = Sys!GuardPart(e) /\ tus = Sys!BootLimit(e, Sys!NoRows)
  OBVIOUS
<1>1. Sys!GivenKeys(Sys!NoRows) = {}
  BY DEF Sys!GivenKeys, Sys!NoRows
<1>2. Sys!TypeOK
  BY <1>1, EnvironmentsAre, BootLimits DEF Sys!TypeOK, Sys!Idle
<1>3. Shape
  BY DEF Shape, Sys!NoRows, Sys!Idle
<1>4. Accepted
  BY <1>1 DEF Accepted, Sys!Idle
<1>5. Written
  BY DEF Written, Sys!Idle
<1>6. GuardFollows
  BY DEF GuardFollows
<1>8. Firm
  BY DEF Firm
<1>7. Sys!UploadLimitsAgree
  <2>1. Sys!NoRows["max_upload"] = Unset
    BY SevenKeys DEF Sys!NoRows
  <2>2. "max_upload" \in Sys!Key
    BY SevenKeys
  <2>3. Sys!BootConfig(e, Sys!NoRows).max_upload = e.max_upload
    BY <2>1, <2>2 DEF Sys!BootConfig, Sys!Loaded
  <2> QED BY <2>3, BootLimits DEF Sys!UploadLimitsAgree
<1> QED BY <1>2, <1>3, <1>4, <1>5, <1>6, <1>7, <1>8 DEF IInv

LEMMA UpdateKeeps ==
    ASSUME IInv, NEW r \in Req, NEW given, Sys!Update(r, given)
    PROVE  IInv'
<1> USE DEF IInv, Sys!Update, Sys!Begin
<1>a. \A x \in Req : req'[x] =
        [busy |-> IF x = r THEN TRUE ELSE req[x].busy,
         body |-> IF x = r THEN given ELSE req[x].body,
         todo |-> IF x = r THEN Sys!GivenKeys(given) ELSE req[x].todo,
         lone |-> IF x = r THEN Sys!Rest ELSE FALSE]
  <2> SUFFICES ASSUME NEW x \in Req, x # r
               PROVE  req'[x] = [busy |-> req[x].busy, body |-> req[x].body,
                                 todo |-> req[x].todo, lone |-> FALSE]
    OBVIOUS
  <2>1. req[x] = [busy |-> req[x].busy, body |-> req[x].body,
                  todo |-> req[x].todo, lone |-> req[x].lone]
    BY DEF Shape
  <2> QED BY <2>1
<1>1. Sys!TypeOK' BY <1>a DEF Sys!TypeOK, Sys!GivenKeys
<1>2. Shape'
  <2>1. req' = [x \in Req |-> [busy |-> req'[x].busy, body |-> req'[x].body,
                               todo |-> req'[x].todo, lone |-> req'[x].lone]]
    <3>1. req' = [x \in Req |-> req'[x]] BY DEF Sys!Begin
    <3>2. \A x \in Req : req'[x] =
            [busy |-> req'[x].busy, body |-> req'[x].body,
             todo |-> req'[x].todo, lone |-> req'[x].lone]
      BY <1>a
    <3> QED BY <3>1, <3>2
  <2>2. meta' = [k \in Sys!Key |-> meta'[k]] BY DEF Shape
  <2> QED BY ONLY <2>1, <2>2 DEF Shape
<1>3. Accepted'
  <2> SUFFICES ASSUME NEW x \in Req
               PROVE  /\ req'[x].busy \in BOOLEAN
                      /\ ~req'[x].busy => req'[x].todo = {}
                      /\ \A k \in Sys!GivenKeys(req'[x].body) : req'[x].body[k] \in Sys!Accepts[k]
    BY DEF Accepted, Sys!GivenKeys
  <2>1. CASE x = r BY <1>a, <2>1
  <2>2. CASE x # r
    <3>1. req'[x].busy = req[x].busy /\ req'[x].body = req[x].body /\ req'[x].todo = req[x].todo
      BY <1>a, <2>2
    <3>2. Accepted OBVIOUS
    <3> QED BY ONLY <3>1, <3>2, x \in Req DEF Accepted
  <2> QED BY <2>1, <2>2
<1>4. Written' BY DEF Written, Sys!GivenKeys, Shape, Sys!Rest
<1>5. GuardFollows' BY DEF GuardFollows, Sys!GuardPart
<1>6. Sys!UploadLimitsAgree' BY DEF Sys!UploadLimitsAgree
<1>7. Firm' BY DEF Firm
<1> QED BY <1>1, <1>2, <1>3, <1>4, <1>5, <1>6, <1>7

LEMMA PersistKeeps ==
    ASSUME IInv, NEW r \in Req, Sys!Persist(r)
    PROVE  IInv'
<1> USE DEF IInv
<1> DEFINE k == Sys!First(req[r].todo)
<1>0. /\ k \in req[r].todo
      /\ k \in Sys!GivenKeys(req[r].body)
      /\ k \in Sys!Key
  <2>1. req[r].todo \subseteq Sys!GivenKeys(req[r].body) /\ Sys!GivenKeys(req[r].body) \subseteq Sys!Key
    BY DEF Sys!TypeOK, Sys!GivenKeys
  <2> QED BY <2>1, FirstGiven DEF Sys!Persist
<1>1. /\ req' = [req EXCEPT ![r].todo = @ \ {k}]
      /\ meta' = [meta EXCEPT ![k] = req[r].body[k]]
      /\ UNCHANGED <<cfg, guard, tus>>
      /\ firm' = firm \ {k}
  BY DEF Sys!Persist
<1> HIDE DEF k
<1>2. \A q \in Req : /\ req'[q].busy = req[q].busy
                     /\ req'[q].body = req[q].body
                     /\ req'[q].lone = req[q].lone
                     /\ req'[q].todo = IF q = r THEN req[q].todo \ {k} ELSE req[q].todo
  <2> TAKE q \in Req
  <2>1. req[q] = [busy |-> req[q].busy, body |-> req[q].body,
                  todo |-> req[q].todo, lone |-> req[q].lone]
    BY DEF Shape
  <2>2. req'[q] = IF q = r THEN [req[q] EXCEPT !.todo = @ \ {k}] ELSE req[q]
    BY <1>1 DEF Shape
  <2> QED BY ONLY <2>1, <2>2
<1>3. \A j \in Sys!Key : meta'[j] = IF j = k THEN req[r].body[k] ELSE meta[j]
  BY <1>0, <1>1 DEF Shape
<1>4. req[r].busy
  BY <1>0 DEF Accepted
<1>5. Sys!TypeOK'
  BY <1>0, <1>1, <1>2, <1>3 DEF Sys!TypeOK, Accepted, Sys!GivenKeys
<1>6. Shape'
  <2>1. meta' = [j \in Sys!Key |-> meta'[j]] BY <1>0, <1>1 DEF Shape
  <2>2. req' = [q \in Req |-> [busy |-> req'[q].busy, body |-> req'[q].body,
                               todo |-> req'[q].todo, lone |-> req'[q].lone]]
    <3>1. req' = [q \in Req |-> req'[q]] BY <1>1 DEF Shape
    <3>2. \A q \in Req : req[q] = [busy |-> req[q].busy, body |-> req[q].body,
                                   todo |-> req[q].todo, lone |-> req[q].lone]
      BY DEF Shape
    <3>3. \A q \in Req : req'[q] = IF q = r THEN [req[r] EXCEPT !.todo = @ \ {k}] ELSE req[q]
      BY <1>1 DEF Shape
    <3>4. \A q \in Req : req'[q] =
            [busy |-> req'[q].busy, body |-> req'[q].body,
             todo |-> req'[q].todo, lone |-> req'[q].lone]
      BY <3>2, <3>3
    <3> QED BY <3>1, <3>4
  <2> QED BY ONLY <2>1, <2>2 DEF Shape
<1>7. Accepted'
  BY <1>2 DEF Accepted, Sys!GivenKeys
<1>8. Written'
  <2> SUFFICES ASSUME NEW q \in Req, req'[q].lone
               PROVE  /\ \A x \in Req \ {q} : ~req'[x].busy
                      /\ \A j \in Sys!GivenKeys(req'[q].body) \ req'[q].todo :
                            meta'[j] = req'[q].body[j]
    BY DEF Written, Sys!GivenKeys
  <2>1. req[q].lone /\ (\A x \in Req \ {q} : ~req[x].busy)
    BY <1>2 DEF Written
  <2>2. q = r
    BY <2>1, <1>4
  <2>3. Sys!GivenKeys(req'[r].body) = Sys!GivenKeys(req[r].body)
    BY <1>2 DEF Sys!GivenKeys
  <2>4. \A j \in Sys!GivenKeys(req[r].body) \ req[r].todo : j \in Sys!Key /\ meta[j] = req[r].body[j]
    BY <2>1, <2>2 DEF Written, Sys!GivenKeys
  <2>5. \A j \in Sys!GivenKeys(req[r].body) \ req'[r].todo : meta'[j] = req[r].body[j]
    BY <1>2, <1>3, <2>4, <1>0
  <2> QED BY <1>2, <2>1, <2>2, <2>3, <2>5
<1>9. GuardFollows' /\ Sys!UploadLimitsAgree'
  BY <1>1 DEF GuardFollows, Sys!GuardPart, Sys!UploadLimitsAgree
<1>10. Firm' BY <1>1, <1>3 DEF Firm
<1> QED BY <1>5, <1>6, <1>7, <1>8, <1>9, <1>10

\* A request that ends leaves every other one as it is.
LEMMA Ended ==
    ASSUME IInv, NEW r \in Req, req' = [req EXCEPT ![r] = Sys!Idle], meta' = meta
    PROVE  /\ Shape' /\ Accepted' /\ Written'
           /\ \A q \in Req : req'[q].todo \subseteq Sys!GivenKeys(req'[q].body)
<1> USE DEF IInv
<1>1. \A q \in Req : req'[q] = IF q = r THEN Sys!Idle ELSE req[q]
  BY DEF Shape
<1>2. Sys!GivenKeys(Sys!NoRows) = {}
  BY DEF Sys!GivenKeys, Sys!NoRows
<1>3. Shape'
  <2>1. req' = [q \in Req |-> req'[q]] BY DEF Shape
  <2>2. \A q \in Req : req'[q] =
            [busy |-> req'[q].busy, body |-> req'[q].body,
             todo |-> req'[q].todo, lone |-> req'[q].lone]
    <3>1. \A q \in Req : req[q] = [busy |-> req[q].busy, body |-> req[q].body,
                                   todo |-> req[q].todo, lone |-> req[q].lone]
      BY DEF Shape
    <3> QED BY <1>1, <3>1 DEF Sys!Idle
  <2>3. req' = [q \in Req |-> [busy |-> req'[q].busy, body |-> req'[q].body,
                               todo |-> req'[q].todo, lone |-> req'[q].lone]]
    BY <2>1, <2>2
  <2>4. meta' = [k \in Sys!Key |-> meta'[k]] BY DEF Shape
  <2> QED BY ONLY <2>3, <2>4 DEF Shape
<1>4. Accepted'
  <2> SUFFICES ASSUME NEW q \in Req
               PROVE  /\ req'[q].busy \in BOOLEAN
                      /\ ~req'[q].busy => req'[q].todo = {}
                      /\ \A k \in Sys!GivenKeys(req'[q].body) : req'[q].body[k] \in Sys!Accepts[k]
    BY DEF Accepted, Sys!GivenKeys
  <2>1. CASE q = r
    <3>1. req'[q].busy = FALSE /\ req'[q].body = Sys!NoRows /\ req'[q].todo = {}
      BY <1>1, <2>1 DEF Sys!Idle
    <3> QED BY ONLY <1>2, <3>1
  <2>2. CASE q # r BY <1>1, <2>2 DEF Accepted
  <2> QED BY <2>1, <2>2
<1>5. Written' BY <1>1 DEF Written, Sys!Idle, Sys!GivenKeys
<1>6. \A q \in Req : req'[q].todo \subseteq Sys!GivenKeys(req'[q].body)
  BY <1>1 DEF Sys!TypeOK, Sys!Idle, Sys!GivenKeys
<1> QED BY <1>3, <1>4, <1>5, <1>6

LEMMA PersistFailKeeps ==
    ASSUME IInv, NEW r \in Req, Sys!PersistFail(r)
    PROVE  IInv'
<1>1. Shape' /\ Accepted' /\ Written'
      /\ \A q \in Req : req'[q].todo \subseteq Sys!GivenKeys(req'[q].body)
  BY Ended DEF Sys!PersistFail
<1>2. Sys!TypeOK'
  BY <1>1 DEF Sys!PersistFail, IInv, Sys!TypeOK, Sys!GivenKeys
<1> QED BY <1>1, <1>2 DEF IInv, Sys!PersistFail, GuardFollows, Sys!GuardPart, Sys!UploadLimitsAgree,
                           Firm

LEMMA ApplyKeeps ==
    ASSUME IInv, NEW r \in Req, Sys!Apply(r)
    PROVE  IInv'
<1> USE DEF IInv
<1> DEFINE given == req[r].body
<1>1. Shape' /\ Accepted' /\ Written'
      /\ \A q \in Req : req'[q].todo \subseteq Sys!GivenKeys(req'[q].body)
  BY Ended DEF Sys!Apply
<1>2. \A k \in Sys!Key : /\ cfg'[k] = IF given[k] # Unset THEN given[k] ELSE cfg[k]
                         /\ given[k] # Unset => given[k] \in Sys!Accepts[k]
  BY DEF Sys!Apply, Sys!Overlay, Accepted, Sys!GivenKeys
<1> HIDE DEF given
<1>3. /\ given["max_upload"] # Unset => tus' = given["max_upload"] /\ tus' \in Sys!Number
      /\ given["max_upload"] = Unset => tus' = tus
  <2>1. Sys!Accepts["max_upload"] = Sys!Number BY DEF Sys!Accepts
  <2>2. "max_upload" \in Sys!Key BY SevenKeys
  <2>3. given["max_upload"] # Unset => given["max_upload"] \in Sys!Number
    BY <1>2, <2>1, <2>2
  <2>4. tus' = IF given.max_upload # Unset THEN given.max_upload ELSE tus
    BY DEF Sys!Apply, given
  <2> QED BY ONLY <2>3, <2>4
<1>4. Sys!TypeOK'
  <2>1. \A k \in Sys!Key : cfg'[k] \in Sys!Environment[k]
    BY <1>2, Ranges DEF Sys!TypeOK
  <2>2. tus' \in Sys!Number
    BY <1>3 DEF Sys!TypeOK
  <2> QED BY <1>1, <2>1, <2>2 DEF Sys!TypeOK, Sys!Apply, Sys!GivenKeys
<1>5. GuardFollows'
  BY DEF GuardFollows, Sys!Apply, Sys!GuardPart
<1>6. Sys!UploadLimitsAgree'
  <2>1. "max_upload" \in Sys!Key BY SevenKeys
  <2>2. cfg'["max_upload"] =
            IF given["max_upload"] # Unset THEN given["max_upload"] ELSE cfg["max_upload"]
    BY <1>2, <2>1
  <2>3. cfg["max_upload"] > 0 => tus = cfg["max_upload"]
    BY DEF Sys!UploadLimitsAgree
  <2> QED BY ONLY <1>3, <2>2, <2>3 DEF Sys!UploadLimitsAgree
<1>7. Firm'
  <2>1. \A k \in Sys!GivenKeys(given) : k \in Sys!Key /\ given[k] # Unset BY DEF Sys!GivenKeys
  <2>2. req[r].lone => \A k \in Sys!GivenKeys(given) : meta[k] = given[k]
    BY DEF Written, given, Sys!Apply
  <2>3. /\ meta' = meta
        /\ firm' = IF req[r].lone THEN firm \cup Sys!GivenKeys(given)
                   ELSE firm \ Sys!GivenKeys(given)
    BY DEF Sys!Apply, given
  <2>4. \A k \in firm \ Sys!GivenKeys(given) : k \in Sys!Key /\ given[k] = Unset
    BY DEF Firm, Sys!GivenKeys
  <2>5. \A k \in firm \ Sys!GivenKeys(given) : cfg'[k] = meta[k] /\ meta[k] # Unset
    BY <1>2, <2>4 DEF Firm
  <2>6. req[r].lone => \A k \in Sys!GivenKeys(given) : cfg'[k] = meta[k] /\ meta[k] # Unset
    BY <1>2, <2>1, <2>2
  <2>7. firm \subseteq Sys!Key BY DEF Firm
  <2> QED BY ONLY <2>1, <2>3, <2>5, <2>6, <2>7 DEF Firm
<1> QED BY <1>1, <1>4, <1>5, <1>6, <1>7

LEMMA RestartKeeps ==
    ASSUME IInv, NEW e \in Env, Sys!Restart(e)
    PROVE  IInv'
<1> USE DEF IInv, Sys!Restart, Sys!Start
<1>1. Sys!GivenKeys(Sys!NoRows) = {}
  BY DEF Sys!GivenKeys, Sys!NoRows
<1>2. Sys!TypeOK'
  BY <1>1, BootLimits, BootConfigs DEF Sys!TypeOK, Sys!Idle, Sys!GivenKeys
<1>3. Shape' BY DEF Shape, Sys!Idle
<1>4. Accepted' BY <1>1 DEF Accepted, Sys!Idle, Sys!GivenKeys
<1>5. Written' BY DEF Written, Sys!Idle
<1>6. GuardFollows'
  <2>1. CASE \E k \in Sys!GuardKey : Sys!Loaded(k, meta)
    BY <2>1 DEF GuardFollows, Sys!GuardPart
  <2>2. CASE \A k \in Sys!GuardKey : ~Sys!Loaded(k, meta)
    <3>1. guard' = Sys!GuardPart(e) /\ cfg' = Sys!BootConfig(e, meta) BY <2>2
    <3>2. Sys!GuardPart(e) = Sys!GuardPart(Sys!BootConfig(e, meta)) BY <2>2, BootGuard
    <3>3. Sys!GuardPart(cfg)' = Sys!GuardPart(cfg') BY DEF Sys!GuardPart
    <3> QED BY ONLY <3>1, <3>2, <3>3 DEF GuardFollows
  <2> QED BY <2>1, <2>2
<1>7. Sys!UploadLimitsAgree' BY BootLimits DEF Sys!UploadLimitsAgree
<1>8. Firm' BY DEF Firm, Sys!BootConfig, Sys!Loaded
<1> QED BY <1>2, <1>3, <1>4, <1>5, <1>6, <1>7, <1>8

LEMMA Keeps == IInv /\ [Sys!Next]_(Sys!vars) => IInv'
<1> SUFFICES ASSUME IInv, [Sys!Next]_(Sys!vars) PROVE IInv'
  OBVIOUS
<1>1. ASSUME NEW r \in Req, NEW given \in Sys!Bodies, Sys!Update(r, given) PROVE IInv'
  BY <1>1, UpdateKeeps
<1>2. ASSUME NEW r \in Req, Sys!Persist(r) PROVE IInv'
  BY <1>2, PersistKeeps
<1>3. ASSUME NEW r \in Req, Sys!PersistFail(r) PROVE IInv'
  BY <1>3, PersistFailKeeps
<1>4. ASSUME NEW r \in Req, Sys!Apply(r) PROVE IInv'
  BY <1>4, ApplyKeeps
<1>5. ASSUME NEW e \in Env, Sys!Restart(e) PROVE IInv'
  BY <1>5, RestartKeeps
<1>6. ASSUME UNCHANGED Sys!vars PROVE IInv'
  <2> USE <1>6 DEF Sys!vars, IInv
  <2>1. Sys!TypeOK' /\ Shape' /\ Accepted' /\ Written'
    BY DEF Sys!TypeOK, Shape, Accepted, Written, Sys!GivenKeys
  <2>2. GuardFollows' BY DEF GuardFollows, Sys!GuardPart
  <2>3. Sys!UploadLimitsAgree' BY DEF Sys!UploadLimitsAgree
  <2>4. Firm' BY DEF Firm
  <2> QED BY <2>1, <2>2, <2>3, <2>4
<1> QED BY <1>1, <1>2, <1>3, <1>4, <1>5, <1>6 DEF Sys!Next

LEMMA Invariance == Sys!Spec => []IInv
BY SettingsStart, Keeps, PTL DEF Sys!Spec

-----------------------------------------------------------------------------
(* What is promised *)

\* Rows and configuration only ever have values that the handler or the
\* environment accepts (validateSystemSettings, loadMetaInt64, FromEnv).
THEOREM TypeCorrect == Sys!Spec => []Sys!TypeOK
<1>1. IInv => Sys!TypeOK BY DEF IInv
<1> QED BY <1>1, Invariance, PTL

\* What was set by an update on its own, and can be loaded, is enforced after a restart as it
\* was before (server.go:178), whatever the environment and whatever broke off or overlapped.
THEOREM SettingsAlwaysSurvive == Sys!Spec => SettingsSurvive
<1> DEFINE A == \A k \in firm : meta[k] \in Sys!Loads[k] /\ (\E e \in Env : Sys!Restart(e))
                    => Sys!Held(k)' = Sys!Held(k)
<1>1. ASSUME IInv, IInv' PROVE A
  <2> SUFFICES ASSUME NEW k \in firm, meta[k] \in Sys!Loads[k], NEW e \in Env, Sys!Restart(e)
               PROVE  Sys!Held(k)' = Sys!Held(k)
    OBVIOUS
  <2>1. k \in Sys!Key /\ meta[k] # Unset /\ cfg[k] = meta[k] BY <1>1 DEF IInv, Firm
  <2>2. cfg'[k] = cfg[k]
    BY <2>1 DEF Sys!Restart, Sys!Start, Sys!BootConfig, Sys!Loaded
  <2>3. k \in Sys!GuardKey => guard'[k] = guard[k]
    BY <1>1, <2>2 DEF IInv, GuardFollows, Sys!GuardPart
  <2>4. k = "max_upload" => tus' = tus
    <3> SUFFICES ASSUME k = "max_upload" PROVE tus' = tus
      OBVIOUS
    <3>1. meta["max_upload"] \in Sys!Number
      BY <2>1 DEF Sys!Loads, Sys!Accepts
    <3>2. cfg.max_upload > 0 /\ cfg'.max_upload > 0 BY <2>1, <2>2, <3>1 DEF Sys!Number
    <3> QED BY <1>1, <2>2, <3>2 DEF IInv, Sys!UploadLimitsAgree
  <2> QED BY <2>2, <2>3, <2>4 DEF Sys!Held
<1>2. IInv /\ IInv' /\ [Sys!Next]_(Sys!vars) => [A]_(Sys!vars)
  BY <1>1
<1> QED BY <1>2, Invariance, PTL DEF Sys!Spec, SettingsSurvive, Sys!SettingsSurvive

\* Saves and uploads are held to one limit.
THEOREM OneUploadLimit == Sys!Spec => []Sys!UploadLimitsAgree
<1>1. IInv => Sys!UploadLimitsAgree BY DEF IInv
<1> QED BY <1>1, Invariance, PTL

\* An update that nothing overlaps is stored as it is applied.
THEOREM LoneUpdatesPersist == Sys!Spec => LonePersists
<1> DEFINE A == \A r \in Req : Sys!Apply(r) /\ req[r].lone =>
                    \A k \in Sys!GivenKeys(req[r].body) : meta'[k] = cfg'[k]
<1>1. IInv => A
  <2> SUFFICES ASSUME IInv, NEW r \in Req, Sys!Apply(r), req[r].lone,
                      NEW k \in Sys!GivenKeys(req[r].body)
               PROVE  meta'[k] = cfg'[k]
    OBVIOUS
  <2>1. k \in Sys!Key /\ req[r].body[k] # Unset
    BY DEF Sys!GivenKeys
  <2>2. cfg'[k] = req[r].body[k]
    BY <2>1 DEF Sys!Apply, Sys!Overlay
  <2>3. meta[k] = req[r].body[k]
    BY DEF IInv, Written, Sys!Apply
  <2> QED BY <2>2, <2>3 DEF Sys!Apply
<1>2. IInv /\ [Sys!Next]_(Sys!vars) => [A]_(Sys!vars)
  BY <1>1
<1> QED BY <1>2, Invariance, PTL DEF Sys!Spec, LonePersists, Sys!LonePersists

-----------------------------------------------------------------------------
(* Viewer *)

\* A text belongs to a file.
Texts(f) == {f} \X Nat

AnyText == (Code \cup InPlace) \X Nat
SomeText == AnyText \cup {None}

BodyRecord ==
    [of : V!File \cup {None}, text : SomeText, error : BOOLEAN, draft : SomeText]
LoadRecord ==
    [of : V!File, step : {"sent", "served"}, answer : SomeText, late : BOOLEAN]
SaveRecord ==
    [of : Code, content : AnyText, mine : BOOLEAN, token : BOOLEAN,
     step : {"sent", "done", "refused"}]

ViewerFrame ==
    /\ disk \in [V!File -> SomeText]
    /\ \A f \in V!File : disk[f] \in Texts(f) \cup {None}
    /\ shown \in V!File \cup {None}
    /\ body \in BodyRecord
    /\ overtaken \in BOOLEAN
    /\ body.of # None => body.of = shown

\* What is read is read for the viewer that is mounted.
LoadsAreOfBody ==
    \A l \in loads :
        /\ l \in LoadRecord
        /\ l.of = body.of
        /\ l.step = "served" => l.answer \in Texts(l.of) \cup {None}
        /\ l.step = "served" /\ ~l.late => l.answer = disk[l.of]

\* Saves are of CodeViewer, and at most one of them is of the one that is mounted.
SavesAreOfBody ==
    /\ \A s \in saves :
        /\ s \in SaveRecord
        /\ s.content \in Texts(s.of)
        /\ s.mine => s.of = body.of
        /\ s.mine /\ s.step = "done" /\ ~overtaken => disk[s.of] \in V!Stored(s.content)
    /\ \A s, t \in saves : s.mine /\ t.mine => s = t

\* Only without a key a component shows the text of another file, and only for a while.
TextsOfBody ==
    /\ body.draft # None => body.of \in Code /\ body.draft \in Texts(body.of)
    /\ body.text # None =>
        \/ body.of # None /\ body.text \in Texts(body.of)
        \/ body.of \in InPlace /\ (body.error \/ loads # {})

\* A save that is done is ahead of the text shown.  Of a text over the limit the file may
\* hold the beginning.
TextIsOnDisk ==
    body.of \in Code /\ body.text # None /\ ~overtaken
    /\ (\A s \in saves : s.mine => s.step # "done")
        => disk[body.of] \in V!Stored(body.text)

ViewerInv == ViewerFrame /\ LoadsAreOfBody /\ SavesAreOfBody /\ TextsOfBody /\ TextIsOnDisk

\* None is no text, and what is written into a file is one of its texts.
LEMMA TextsAre ==
    ASSUME V!ViewerBounds
    PROVE  /\ None \in SomeText /\ None \notin AnyText /\ AnyText \subseteq SomeText
           /\ SomeText \ {None} = AnyText
           /\ None \notin V!File /\ Code \subseteq V!File /\ InPlace \subseteq V!File
           /\ Code \cap InPlace = {}
           /\ \A f \in V!File :
                /\ Texts(f) \subseteq AnyText
                /\ V!Empty(f) \in Texts(f) /\ V!Written(f) \in Texts(f)
                /\ \A w \in Typed : <<f, w>> \in Texts(f)
                /\ \A t \in Texts(f) : t[1] = f
BY DEF V!ViewerBounds, AnyText, SomeText, V!File, Texts, V!Empty, V!Written

\* What a save puts in place of a text is that text, or another one of the same file.
LEMMA StoredIs ==
    ASSUME V!ViewerBounds, NEW f \in V!File, NEW t \in Texts(f)
    PROVE  t \in V!Stored(t) /\ V!Stored(t) \subseteq Texts(f)
<1>1. t[1] = f /\ t \in {f} \X Nat BY DEF Texts
<1>2. \A w \in DOMAIN Beginning : <<t[1], Beginning[w]>> \in {f} \X Nat
  BY <1>1 DEF V!ViewerBounds
<1> QED BY <1>1, <1>2 DEF V!Stored, Texts

\* Saves that go on without their viewer are saves still.
LEMMA OrphanSaves ==
    ASSUME SavesAreOfBody, saves' = {[s EXCEPT !.mine = FALSE] : s \in saves}
    PROVE  SavesAreOfBody'
<1>1. \A s \in saves' : s \in SaveRecord /\ s.content \in Texts(s.of) /\ ~s.mine
  <2> SUFFICES ASSUME NEW t \in saves, NEW s, s = [t EXCEPT !.mine = FALSE]
               PROVE  s \in SaveRecord /\ s.content \in Texts(s.of) /\ ~s.mine
    OBVIOUS
  <2>1. t \in SaveRecord /\ t.content \in Texts(t.of) BY DEF SavesAreOfBody
  <2>2. s \in SaveRecord /\ s.of = t.of /\ s.content = t.content /\ ~s.mine
    BY <2>1 DEF SaveRecord
  <2> QED BY <2>1, <2>2
<1> QED BY <1>1 DEF SavesAreOfBody

\* A request is for the file it is sent for.
LEMMA LoadIs ==
    ASSUME V!ViewerBounds, NEW f \in V!File
    PROVE  /\ V!Load(f) \in LoadRecord /\ V!Load(f).of = f
           /\ V!Load(f).step = "sent" /\ ~V!Load(f).late
BY TextsAre DEF V!Load, LoadRecord

\* Without a viewer there is no text, and no draft.
LEMMA EmptyIs ==
    ASSUME V!ViewerBounds
    PROVE  /\ V!NoBody \in BodyRecord /\ V!NoBody.of = None /\ V!NoBody.text = None
           /\ V!NoBody.draft = None
BY TextsAre DEF V!NoBody, BodyRecord

\* A viewer begins without a text, and with a draft at most in CodeViewer.
LEMMA MountedIs ==
    ASSUME V!ViewerBounds, NEW f \in V!File, NEW e \in BOOLEAN
    PROVE  /\ V!Mounted(f, e) \in BodyRecord /\ V!Mounted(f, e).of = f
           /\ V!Mounted(f, e).text = None
           /\ V!Mounted(f, e).draft # None =>
                f \in Code /\ V!Mounted(f, e).draft \in Texts(f)
<1> DEFINE d == IF f \in Code /\ e THEN V!Empty(f) ELSE None
<1>1. d \in SomeText /\ (d # None => f \in Code /\ d \in Texts(f))
  BY TextsAre
<1>2. V!Mounted(f, e) = [V!NoBody EXCEPT !.of = f, !.draft = d]
  BY DEF V!Mounted
<1> HIDE DEF d
<1>3. /\ V!Mounted(f, e) \in BodyRecord /\ V!Mounted(f, e).of = f
      /\ V!Mounted(f, e).text = None /\ V!Mounted(f, e).draft = d
  BY <1>1, <1>2, TextsAre DEF V!NoBody, BodyRecord
<1> QED BY <1>1, <1>3

\* A viewer that is mounted anew has read nothing, and the saves are nobody's.
LEMMA Remounted ==
    ASSUME V!ViewerBounds, ViewerInv, NEW b \in BodyRecord, V!Unmount(b), b.text = None,
           b.draft # None => b.of \in Code /\ b.draft \in Texts(b.of),
           disk' \in [V!File -> SomeText], \A g \in V!File : disk'[g] \in Texts(g) \cup {None},
           shown' \in V!File \cup {None}, b.of # None => b.of = shown'
    PROVE  ViewerInv'
<1>1. SavesAreOfBody'
  BY OrphanSaves DEF ViewerInv, V!Unmount
<1>2. body' = b /\ overtaken' = FALSE /\ loads' = IF b.of = None THEN {} ELSE {V!Load(b.of)}
  BY DEF V!Unmount
<1>3. b.of \in V!File \cup {None}
  BY DEF BodyRecord
<1>4. ViewerFrame' BY <1>2 DEF ViewerFrame
<1>5. LoadsAreOfBody' BY <1>2, <1>3, LoadIs DEF LoadsAreOfBody
<1>6. TextsOfBody' BY <1>2 DEF TextsOfBody
<1>7. TextIsOnDisk' BY <1>2 DEF TextIsOnDisk
<1> QED BY <1>1, <1>4, <1>5, <1>6, <1>7 DEF ViewerInv

\* A viewer without a key has no saves under way, and begins to read.
LEMMA Rebound ==
    ASSUME V!ViewerBounds, ViewerInv, NEW f \in InPlace, body.of \in InPlace, V!Rebind(f),
           disk' = disk, shown' = f
    PROVE  ViewerInv'
<1>1. \A s \in saves : ~s.mine
  BY TextsAre DEF ViewerInv, SavesAreOfBody, SaveRecord
<1>2. body.draft = None
  BY TextsAre DEF ViewerInv, TextsOfBody
<1>3. /\ body' = [body EXCEPT !.of = f] /\ loads' = {V!Load(f)} /\ saves' = saves
      /\ overtaken' = FALSE
  BY DEF V!Rebind
<1>4. body' \in BodyRecord /\ body'.of = f /\ body'.draft = None
  BY <1>2, <1>3, TextsAre DEF ViewerInv, ViewerFrame, BodyRecord
<1>5. ViewerFrame' BY <1>3, <1>4, TextsAre DEF ViewerInv, ViewerFrame
<1>6. LoadsAreOfBody' BY <1>3, <1>4, TextsAre, LoadIs DEF LoadsAreOfBody
<1>7. SavesAreOfBody' BY <1>1, <1>3 DEF ViewerInv, SavesAreOfBody
<1>8. TextsOfBody' BY <1>3, <1>4 DEF TextsOfBody
<1>9. TextIsOnDisk' BY <1>4, TextsAre DEF TextIsOnDisk
<1> QED BY <1>5, <1>6, <1>7, <1>8, <1>9 DEF ViewerInv

LEMMA Showing ==
    ASSUME V!ViewerBounds, ViewerInv, NEW f \in V!File, NEW e \in BOOLEAN, V!Show(f, e),
           \/ disk' = disk
           \/ /\ body.of = None /\ disk' \in [V!File -> SomeText]
              /\ \A g \in V!File : disk'[g] \in Texts(g) \cup {None}
    PROVE  ViewerInv'
<1>1. /\ disk' \in [V!File -> SomeText] /\ \A g \in V!File : disk'[g] \in Texts(g) \cup {None}
      /\ shown' = f
  BY DEF ViewerInv, ViewerFrame, V!Show
<1>2. CASE V!Unmount(V!NoBody)
  BY <1>1, <1>2, EmptyIs, Remounted
<1>3. CASE V!Unmount(V!Mounted(f, e))
  BY <1>1, <1>3, MountedIs, Remounted
<1>4. CASE body.of = f /\ UNCHANGED <<body, loads, saves, overtaken>>
  <2>1. disk' = disk BY <1>4, TextsAre
  <2> QED BY <2>1, <1>1, <1>4 DEF ViewerInv, ViewerFrame, LoadsAreOfBody, SavesAreOfBody,
                             TextsOfBody, TextIsOnDisk
<1>5. CASE {f, body.of} \subseteq InPlace /\ V!Rebind(f)
  <2>1. disk' = disk BY <1>5, TextsAre
  <2> QED BY <2>1, <1>1, <1>5, Rebound
<1> QED BY <1>2, <1>3, <1>4, <1>5 DEF V!Show

LEMMA Opening ==
    ASSUME V!ViewerBounds, ViewerInv, NEW f \in V!File, NEW e \in BOOLEAN, V!Open(f, e)
    PROVE  ViewerInv'
BY Showing DEF V!Open

LEMMA Creating ==
    ASSUME V!ViewerBounds, ViewerInv, NEW f \in V!File, V!CreateFile(f)
    PROVE  ViewerInv'
<1>1. body.of = None BY DEF V!CreateFile, ViewerInv, ViewerFrame
<1>2. disk' = [disk EXCEPT ![f] = V!Empty(f)] /\ V!Show(f, TRUE)
  BY DEF V!CreateFile
<1>3. disk' \in [V!File -> SomeText] /\ \A g \in V!File : disk'[g] \in Texts(g) \cup {None}
  BY <1>2, TextsAre DEF ViewerInv, ViewerFrame
<1> QED BY <1>1, <1>2, <1>3, Showing

LEMMA Leaving ==
    ASSUME V!ViewerBounds, ViewerInv, V!MetaArrives \/ V!Close \/ V!Reload
    PROVE  ViewerInv'
<1>1. disk' = disk /\ disk' \in [V!File -> SomeText]
      /\ \A g \in V!File : disk'[g] \in Texts(g) \cup {None}
  BY DEF ViewerInv, ViewerFrame, V!MetaArrives, V!Close, V!Reload
<1>2. CASE V!MetaArrives
  <2>1. PICK e \in BOOLEAN : V!Mounted(shown, edit) = V!Mounted(shown, e)
    BY DEF V!Mounted
  <2>2. shown \in V!File /\ shown' = shown /\ V!Unmount(V!Mounted(shown, e))
    BY <1>2, <2>1 DEF V!MetaArrives, ViewerInv, ViewerFrame
  <2> QED BY <1>1, <2>2, MountedIs, Remounted
<1>3. CASE V!Close
  <2>1. V!Unmount(V!NoBody) /\ shown' = None BY <1>3 DEF V!Close
  <2> QED BY <1>1, <2>1, EmptyIs, Remounted
<1>4. CASE V!Reload
  <2>1. V!Unmount(V!NoBody) /\ shown' = shown
    BY <1>4, EmptyIs DEF V!Reload, V!Unmount
  <2>2. shown' \in V!File \cup {None} BY <2>1 DEF ViewerInv, ViewerFrame
  <2> QED BY <1>1, <2>1, <2>2, EmptyIs, Remounted
<1> QED BY <1>2, <1>3, <1>4

-----------------------------------------------------------------------------
LEMMA ServingLoad ==
    ASSUME V!ViewerBounds, ViewerInv, NEW l \in loads, V!ServeLoad(l)
    PROVE  ViewerInv'
<1> DEFINE m == [l EXCEPT !.step = "served", !.answer = disk[l.of]]
<1>1. l \in LoadRecord /\ l.of = body.of BY DEF ViewerInv, LoadsAreOfBody
<1>2. l.of \in V!File BY <1>1 DEF LoadRecord
<1>3. disk[l.of] \in SomeText /\ disk[l.of] \in Texts(l.of) \cup {None}
  BY <1>2 DEF ViewerInv, ViewerFrame
<1>4. /\ m \in LoadRecord /\ m.of = l.of /\ m.answer = disk[l.of]
  BY <1>1, <1>3 DEF LoadRecord
<1>5. loads' = (loads \ {l}) \cup {m} BY DEF V!ServeLoad
<1>6. UNCHANGED <<disk, shown, body, saves, overtaken>> BY DEF V!ServeLoad, V!page
<1> HIDE DEF m
<1>7. LoadsAreOfBody' BY <1>1, <1>3, <1>4, <1>5, <1>6 DEF ViewerInv, LoadsAreOfBody
<1>8. TextsOfBody' BY <1>5, <1>6 DEF ViewerInv, TextsOfBody
<1> QED BY <1>6, <1>7, <1>8 DEF ViewerInv, ViewerFrame, SavesAreOfBody, TextIsOnDisk

LEMMA LoadArriving ==
    ASSUME V!ViewerBounds, ViewerInv, NEW l \in loads, V!LoadArrives(l)
    PROVE  ViewerInv'
<1>1. /\ l \in LoadRecord /\ l.of = body.of /\ l.answer \in Texts(l.of) \cup {None}
      /\ ~l.late => l.answer = disk[l.of]
  BY DEF ViewerInv, LoadsAreOfBody, V!LoadArrives
<1>2. /\ l.of \in V!File /\ l.answer \in SomeText /\ l.late \in BOOLEAN
      /\ body \in BodyRecord /\ overtaken \in BOOLEAN
  BY <1>1 DEF LoadRecord, ViewerInv, ViewerFrame
<1>3. /\ loads' = loads \ {l} /\ overtaken' = (overtaken \/ l.late)
      /\ UNCHANGED <<disk, shown, saves>>
      /\ body' = IF l.answer = None THEN [body EXCEPT !.error = TRUE]
                 ELSE [body EXCEPT !.text = l.answer]
  BY DEF V!LoadArrives, V!page
<1>4. /\ body' \in BodyRecord /\ body'.of = body.of /\ body'.draft = body.draft
      /\ l.answer = None => body'.text = body.text /\ body'.error
      /\ l.answer # None => body'.text = l.answer
  BY <1>2, <1>3 DEF BodyRecord
<1>5. ViewerFrame' BY <1>2, <1>3, <1>4 DEF ViewerInv, ViewerFrame
<1>6. LoadsAreOfBody' BY <1>3, <1>4 DEF ViewerInv, LoadsAreOfBody
<1>7. SavesAreOfBody' BY <1>2, <1>3, <1>4 DEF ViewerInv, SavesAreOfBody
<1>8. TextsOfBody'
  BY <1>1, <1>2, <1>4, TextsAre DEF ViewerInv, TextsOfBody
<1>9. TextIsOnDisk'
  <2>1. l.answer # None => l.answer \in V!Stored(l.answer) BY <1>1, <1>2, StoredIs
  <2> QED BY <1>1, <1>2, <1>3, <1>4, <2>1 DEF ViewerInv, TextIsOnDisk
<1> QED BY <1>5, <1>6, <1>7, <1>8, <1>9 DEF ViewerInv

LEMMA LoadFailing ==
    ASSUME V!ViewerBounds, ViewerInv, NEW l \in loads, V!LoadFails(l)
    PROVE  ViewerInv'
<1>1. /\ loads' = loads \ {l} /\ UNCHANGED <<disk, shown, saves, overtaken>>
      /\ body' = [body EXCEPT !.error = TRUE]
  BY DEF V!LoadFails, V!page
<1>2. /\ body' \in BodyRecord /\ body'.of = body.of /\ body'.draft = body.draft
      /\ body'.text = body.text /\ body'.error
  BY <1>1 DEF ViewerInv, ViewerFrame, BodyRecord
<1>3. ViewerFrame' BY <1>1, <1>2 DEF ViewerInv, ViewerFrame
<1>4. LoadsAreOfBody' /\ SavesAreOfBody'
  BY <1>1, <1>2 DEF ViewerInv, LoadsAreOfBody, SavesAreOfBody
<1>5. TextsOfBody' BY <1>2 DEF ViewerInv, TextsOfBody
<1>6. TextIsOnDisk' BY <1>1, <1>2 DEF ViewerInv, TextIsOnDisk
<1> QED BY <1>3, <1>4, <1>5, <1>6 DEF ViewerInv

-----------------------------------------------------------------------------
\* Only CodeViewer is edited, and what it shows is its own file's.
LEMMA Drafting ==
    ASSUME V!ViewerBounds, ViewerInv, NEW d \in SomeText,
           body.of \in Code, d # None => d \in Texts(body.of),
           body' = [body EXCEPT !.draft = d],
           UNCHANGED <<disk, shown, loads, saves, overtaken>>
    PROVE  ViewerInv'
<1>1. /\ body' \in BodyRecord /\ body'.of = body.of /\ body'.draft = d
      /\ body'.text = body.text /\ body'.error = body.error
  BY DEF ViewerInv, ViewerFrame, BodyRecord
<1>2. ViewerFrame' BY <1>1 DEF ViewerInv, ViewerFrame
<1>3. LoadsAreOfBody' /\ SavesAreOfBody'
  BY <1>1 DEF ViewerInv, LoadsAreOfBody, SavesAreOfBody
<1>4. TextsOfBody' BY <1>1 DEF ViewerInv, TextsOfBody
<1>5. TextIsOnDisk' BY <1>1 DEF ViewerInv, TextIsOnDisk
<1> QED BY <1>2, <1>3, <1>4, <1>5 DEF ViewerInv

LEMMA Editing ==
    ASSUME V!ViewerBounds, ViewerInv, V!ToggleEdit \/ \E w \in Typed : V!Type(w)
    PROVE  ViewerInv'
<1>1. body.of \in Code /\ UNCHANGED <<disk, shown, loads, saves, overtaken>>
  BY DEF V!ToggleEdit, V!Type, V!Editor, V!CanEdit, V!page
<1>2. body \in BodyRecord BY DEF ViewerInv, ViewerFrame
<1>3. CASE V!ToggleEdit
  <2> DEFINE d == IF body.draft # None THEN None ELSE body.text
  <2>1. body' = [body EXCEPT !.draft = d]
    BY <1>2, <1>3 DEF V!ToggleEdit, BodyRecord
  <2>2. d \in SomeText BY <1>2, TextsAre DEF BodyRecord
  <2>3. d # None => d \in Texts(body.of) BY <1>1, TextsAre DEF ViewerInv, TextsOfBody
  <2> HIDE DEF d
  <2> QED BY <1>1, <2>1, <2>2, <2>3, Drafting
<1>4. CASE \E w \in Typed : V!Type(w)
  <2>1. PICK w \in Typed : V!Type(w) BY <1>4
  <2>2. body' = [body EXCEPT !.draft = <<body.of, w>>] BY <2>1 DEF V!Type
  <2>3. <<body.of, w>> \in Texts(body.of) /\ <<body.of, w>> \in SomeText BY <1>1, TextsAre
  <2> QED BY <1>1, <2>2, <2>3, Drafting
<1> QED BY <1>3, <1>4

LEMMA Saving ==
    ASSUME V!ViewerBounds, ViewerInv, V!PressSave \/ V!ControlS
    PROVE  ViewerInv'
<1> DEFINE s == [of |-> body.of, content |-> body.draft, mine |-> TRUE,
                 token |-> body.of \in tokens, step |-> "sent"]
<1>1. /\ body.of \in Code /\ body.draft # None /\ ~V!Pending
      /\ saves' = saves \cup {s} /\ UNCHANGED <<disk, shown, body, loads, overtaken>>
  BY DEF V!PressSave, V!ControlS, V!Save, V!Dirty, V!Editor, V!CanEdit, V!page
<1>2. body.draft \in Texts(body.of) /\ body.draft \in AnyText
  BY <1>1, TextsAre DEF ViewerInv, TextsOfBody
<1>3. /\ s \in SaveRecord /\ s.of = body.of /\ s.content = body.draft /\ s.step = "sent"
  BY <1>1, <1>2 DEF SaveRecord
<1>4. \A t \in saves : ~t.mine BY <1>1 DEF V!Pending
<1> HIDE DEF s
<1>5. SavesAreOfBody' BY <1>1, <1>2, <1>3, <1>4 DEF ViewerInv, SavesAreOfBody
<1>6. TextIsOnDisk' BY <1>1, <1>4 DEF ViewerInv, TextIsOnDisk
<1> QED BY <1>1, <1>5, <1>6 DEF ViewerInv, ViewerFrame, LoadsAreOfBody, TextsOfBody

\* A write makes late what was read before it, and overtakes the text shown if it is not
\* the viewer's own.
LEMMA Writing ==
    ASSUME V!ViewerBounds, ViewerInv, NEW f \in V!File, NEW text \in Texts(f),
           NEW own \in BOOLEAN, V!Write(f, text, own), UNCHANGED <<shown, body>>
    PROVE  /\ ViewerFrame' /\ LoadsAreOfBody' /\ TextsOfBody'
           /\ disk' = [disk EXCEPT ![f] = text]
           /\ disk'[f] = text /\ \A g \in V!File \ {f} : disk'[g] = disk[g]
           /\ ~overtaken' => /\ ~overtaken
                             /\ own \/ body.of # f \/ (body.text = None /\ ~V!Pending)
<1>1. /\ disk' = [disk EXCEPT ![f] = text]
      /\ loads' = {[l EXCEPT !.late = @ \/ (l.of = f /\ l.step = "served")] : l \in loads}
      /\ overtaken' = (overtaken \/ (~own /\ body.of = f /\ (body.text # None \/ V!Pending)))
  BY DEF V!Write
<1>2. disk \in [V!File -> SomeText] /\ overtaken \in BOOLEAN
  BY DEF ViewerInv, ViewerFrame
<1>3. /\ disk' \in [V!File -> SomeText] /\ disk'[f] = text
      /\ \A g \in V!File \ {f} : disk'[g] = disk[g]
  BY <1>1, <1>2, TextsAre
<1>4. ViewerFrame' BY <1>1, <1>2, <1>3 DEF ViewerInv, ViewerFrame
<1>5. LoadsAreOfBody'
  <2> SUFFICES ASSUME NEW l \in loads, NEW m,
                      m = [l EXCEPT !.late = @ \/ (l.of = f /\ l.step = "served")]
               PROVE  /\ m \in LoadRecord /\ m.of = body.of
                      /\ m.step = "served" => m.answer \in Texts(m.of) \cup {None}
                      /\ m.step = "served" /\ ~m.late => m.answer = disk'[m.of]
    BY <1>1 DEF LoadsAreOfBody
  <2>1. /\ l \in LoadRecord /\ l.of = body.of
        /\ l.step = "served" => l.answer \in Texts(l.of) \cup {None}
        /\ l.step = "served" /\ ~l.late => l.answer = disk[l.of]
    BY DEF ViewerInv, LoadsAreOfBody
  <2>2. /\ m \in LoadRecord /\ m.of = l.of /\ m.step = l.step /\ m.answer = l.answer
        /\ ~m.late => ~l.late /\ ~(l.of = f /\ l.step = "served")
    BY <2>1 DEF LoadRecord
  <2>3. l.of \in V!File BY <2>1 DEF LoadRecord
  <2> QED BY <1>3, <2>1, <2>2, <2>3
<1>6. loads # {} => loads' # {} BY <1>1
<1>7. TextsOfBody' BY <1>6 DEF ViewerInv, TextsOfBody
<1> QED BY <1>1, <1>2, <1>3, <1>4, <1>5, <1>7

LEMMA ServingSave ==
    ASSUME V!ViewerBounds, ViewerInv, NEW s \in saves, V!ServeSave(s)
    PROVE  ViewerInv'
<1>1. /\ s \in SaveRecord /\ s.content \in Texts(s.of) /\ (s.mine => s.of = body.of)
      /\ s.step = "sent" /\ \A t \in saves : s.mine /\ t.mine => s = t
  BY DEF ViewerInv, SavesAreOfBody, V!ServeSave
<1>2. s.of \in Code /\ s.of \in V!File /\ s.mine \in BOOLEAN
  BY <1>1, TextsAre DEF SaveRecord
<1>3. UNCHANGED <<shown, body>> BY DEF V!ServeSave, V!page
<1>4. CASE (\E text \in V!Stored(s.content) : V!Write(s.of, text, s.mine))
           /\ saves' = (saves \ {s}) \cup {[s EXCEPT !.step = "done"]}
  <2> PICK text \in V!Stored(s.content) : V!Write(s.of, text, s.mine) BY <1>4
  <2>0. text \in Texts(s.of) BY <1>1, <1>2, StoredIs
  <2> DEFINE t == [s EXCEPT !.step = "done"]
  <2>1. /\ t \in SaveRecord /\ t.of = s.of /\ t.content = s.content /\ t.mine = s.mine
        /\ t.step = "done"
    BY <1>1 DEF SaveRecord
  <2>2. saves' = (saves \ {s}) \cup {t} BY <1>4
  <2> HIDE DEF t
  <2>3. /\ ViewerFrame' /\ LoadsAreOfBody' /\ TextsOfBody'
        /\ disk'[s.of] \in V!Stored(s.content)
        /\ \A g \in V!File \ {s.of} : disk'[g] = disk[g]
        /\ ~overtaken' => /\ ~overtaken
                          /\ s.mine \/ body.of # s.of \/ (body.text = None /\ ~V!Pending)
    BY <1>1, <1>2, <1>3, <2>0, Writing
  <2>4. SavesAreOfBody'
    <3>1. ASSUME NEW r \in saves, r # s
          PROVE  /\ r \in SaveRecord /\ r.content \in Texts(r.of)
                 /\ r.mine => r.of = body'.of /\ ~s.mine
                 /\ r.mine /\ r.step = "done" /\ ~overtaken' => disk'[r.of] \in V!Stored(r.content)
      <4>1. /\ r \in SaveRecord /\ r.content \in Texts(r.of) /\ (r.mine => r.of = body.of)
            /\ r.mine /\ r.step = "done" /\ ~overtaken => disk[r.of] \in V!Stored(r.content)
            /\ r.mine => ~s.mine
        BY <3>1, <1>1 DEF ViewerInv, SavesAreOfBody
      <4>2. r.of \in V!File BY <4>1, TextsAre DEF SaveRecord
      <4>3. r.mine => V!Pending BY DEF V!Pending
      <4> QED BY <1>3, <2>3, <4>1, <4>2, <4>3
    <3>2. \A r, q \in saves : r.mine /\ q.mine => r = q BY DEF ViewerInv, SavesAreOfBody
    <3> QED BY <1>1, <1>3, <2>1, <2>2, <2>3, <3>1, <3>2 DEF SavesAreOfBody
  <2>5. TextIsOnDisk'
    <3> SUFFICES ASSUME body.of \in Code, body.text # None, ~overtaken',
                        \A r \in saves' : r.mine => r.step # "done"
                 PROVE  disk'[body.of] \in V!Stored(body.text)
      BY <1>3 DEF TextIsOnDisk
    <3>1. ~s.mine BY <2>1, <2>2
    <3>2. ~overtaken /\ body.of # s.of BY <3>1, <2>3
    <3>3. \A r \in saves : r.mine => r.step # "done" BY <3>1, <2>2
    <3>4. body.of \in V!File BY TextsAre
    <3> QED BY <2>3, <3>2, <3>3, <3>4 DEF ViewerInv, TextIsOnDisk
  <2> QED BY <2>3, <2>4, <2>5 DEF ViewerInv
<1>5. CASE UNCHANGED <<disk, loads, overtaken>>
           /\ saves' = (saves \ {s}) \cup {[s EXCEPT !.step = "refused"]}
  <2> DEFINE t == [s EXCEPT !.step = "refused"]
  <2>1. /\ t \in SaveRecord /\ t.of = s.of /\ t.content = s.content /\ t.mine = s.mine
        /\ t.step = "refused"
    BY <1>1 DEF SaveRecord
  <2>2. saves' = (saves \ {s}) \cup {t} BY <1>5
  <2> HIDE DEF t
  <2>3. SavesAreOfBody'
    BY <1>1, <1>3, <1>5, <2>1, <2>2 DEF ViewerInv, SavesAreOfBody
  <2>4. (\A r \in saves' : r.mine => r.step # "done") => \A r \in saves : r.mine => r.step # "done"
    BY <1>1, <2>2
  <2>5. TextIsOnDisk' BY <1>3, <1>5, <2>4 DEF ViewerInv, TextIsOnDisk
  <2> QED BY <1>3, <1>5, <2>3, <2>5 DEF ViewerInv, ViewerFrame, LoadsAreOfBody, TextsOfBody
<1> QED BY <1>4, <1>5 DEF V!ServeSave

LEMMA SaveArriving ==
    ASSUME V!ViewerBounds, ViewerInv, NEW s \in saves, V!SaveArrives(s)
    PROVE  ViewerInv'
<1>1. /\ s \in SaveRecord /\ s.content \in Texts(s.of) /\ (s.mine => s.of = body.of)
      /\ s.mine /\ ~overtaken => disk[s.of] \in V!Stored(s.content)
      /\ \A t \in saves : s.mine /\ t.mine => s = t
  BY DEF ViewerInv, SavesAreOfBody, V!SaveArrives
<1>2. /\ UNCHANGED <<disk, shown, loads, overtaken>> /\ saves' = saves \ {s}
      /\ body' = IF s.mine THEN [body EXCEPT !.text = s.content, !.draft = None] ELSE body
  BY DEF V!SaveArrives, V!page
<1>3. CASE s.mine
  <2>1. s.content \in AnyText /\ s.of \in Code BY <1>1 DEF SaveRecord
  <2>2. /\ body' \in BodyRecord /\ body'.of = body.of /\ body'.draft = None
        /\ body'.text = s.content
    BY <1>2, <1>3, <2>1, TextsAre DEF ViewerInv, ViewerFrame, BodyRecord
  <2>3. ViewerFrame' BY <1>2, <2>2 DEF ViewerInv, ViewerFrame
  <2>4. LoadsAreOfBody' BY <1>2, <2>2 DEF ViewerInv, LoadsAreOfBody
  <2>5. SavesAreOfBody' BY <1>2, <2>2 DEF ViewerInv, SavesAreOfBody
  <2>6. TextsOfBody' BY <1>1, <1>3, <2>1, <2>2, TextsAre DEF TextsOfBody
  <2>7. TextIsOnDisk' BY <1>1, <1>2, <1>3, <2>2 DEF TextIsOnDisk
  <2> QED BY <2>3, <2>4, <2>5, <2>6, <2>7 DEF ViewerInv
<1>4. CASE ~s.mine
  <2>1. body' = body /\ \A t \in saves : t.mine => t \in saves' BY <1>2, <1>4
  <2> QED BY <1>2, <2>1 DEF ViewerInv, ViewerFrame, LoadsAreOfBody, SavesAreOfBody,
                            TextsOfBody, TextIsOnDisk
<1> QED BY <1>3, <1>4

LEMMA SaveFailing ==
    ASSUME V!ViewerBounds, ViewerInv, NEW s \in saves, V!SaveFails(s)
    PROVE  ViewerInv'
<1>1. /\ UNCHANGED <<disk, shown, body, loads>> /\ saves' = saves \ {s}
      /\ overtaken' = (overtaken \/ (s.mine /\ s.step = "done"))
  BY DEF V!SaveFails, V!page
<1>2. overtaken' \in BOOLEAN /\ (~overtaken' => ~overtaken /\ ~(s.mine /\ s.step = "done"))
  BY <1>1 DEF ViewerInv, ViewerFrame
<1>3. SavesAreOfBody' BY <1>1, <1>2 DEF ViewerInv, SavesAreOfBody
<1>4. TextIsOnDisk' BY <1>1, <1>2 DEF ViewerInv, TextIsOnDisk
<1> QED BY <1>1, <1>2, <1>3, <1>4 DEF ViewerInv, ViewerFrame, LoadsAreOfBody, TextsOfBody

LEMMA WritingElsewhere ==
    ASSUME V!ViewerBounds, ViewerInv, NEW f \in V!File, V!Elsewhere(f)
    PROVE  ViewerInv'
<1>1. UNCHANGED <<shown, body, saves>> /\ V!Write(f, V!Empty(f), FALSE)
  BY DEF V!Elsewhere, V!page
<1>2. /\ ViewerFrame' /\ LoadsAreOfBody' /\ TextsOfBody'
      /\ \A g \in V!File \ {f} : disk'[g] = disk[g]
      /\ ~overtaken' => ~overtaken /\ (body.of # f \/ (body.text = None /\ ~V!Pending))
  BY <1>1, TextsAre, Writing
<1>3. SavesAreOfBody'
  <2> SUFFICES ASSUME NEW r \in saves, r.mine, r.step = "done", ~overtaken'
               PROVE  disk'[r.of] \in V!Stored(r.content)
    BY <1>1 DEF ViewerInv, SavesAreOfBody
  <2>1. /\ r \in SaveRecord /\ r.of = body.of
        /\ ~overtaken => disk[r.of] \in V!Stored(r.content)
    BY DEF ViewerInv, SavesAreOfBody
  <2>2. r.of \in V!File /\ V!Pending BY <2>1, TextsAre DEF SaveRecord, V!Pending
  <2> QED BY <1>2, <2>1, <2>2
<1>4. TextIsOnDisk' BY <1>1, <1>2, TextsAre DEF ViewerInv, TextIsOnDisk
<1> QED BY <1>2, <1>3, <1>4 DEF ViewerInv

-----------------------------------------------------------------------------
LEMMA ViewerStarts == ASSUME V!ViewerBounds, V!Init PROVE ViewerInv
<1>1. /\ body = V!NoBody /\ loads = {} /\ saves = {} /\ overtaken = FALSE /\ shown = None
      /\ disk = [f \in V!File |-> IF f \in Fresh THEN None ELSE V!Written(f)]
  BY DEF V!Init
<1>2. disk \in [V!File -> SomeText] /\ \A f \in V!File : disk[f] \in Texts(f) \cup {None}
  BY <1>1, TextsAre
<1>3. ViewerFrame BY <1>1, <1>2, EmptyIs DEF ViewerFrame
<1> QED BY <1>1, <1>3, EmptyIs DEF ViewerInv, LoadsAreOfBody, SavesAreOfBody, TextsOfBody,
                                   TextIsOnDisk

LEMMA ViewerStutters == ASSUME ViewerInv, UNCHANGED V!vars PROVE ViewerInv'
BY DEF ViewerInv, ViewerFrame, LoadsAreOfBody, SavesAreOfBody, TextsOfBody, TextIsOnDisk, V!vars

LEMMA ViewerKeeps == ASSUME V!ViewerBounds, ViewerInv, [V!Next]_(V!vars) PROVE ViewerInv'
<1>1. CASE \E f \in V!File, e \in BOOLEAN : V!Open(f, e) BY <1>1, Opening
<1>2. CASE \E f \in Fresh : V!CreateFile(f)
  <2>1. Fresh \subseteq V!File BY DEF V!ViewerBounds, V!File
  <2> QED BY <1>2, <2>1, Creating
<1>3. CASE V!MetaArrives \/ V!Close \/ V!Reload BY <1>3, Leaving
<1>4. CASE \E l \in loads : V!ServeLoad(l) \/ V!LoadArrives(l) \/ V!LoadFails(l)
  BY <1>4, ServingLoad, LoadArriving, LoadFailing
<1>5. CASE V!ToggleEdit \/ \E w \in Typed : V!Type(w) BY <1>5, Editing
<1>6. CASE V!PressSave \/ V!ControlS BY <1>6, Saving
<1>7. CASE \E s \in saves : V!ServeSave(s) \/ V!SaveArrives(s) \/ V!SaveFails(s)
  BY <1>7, ServingSave, SaveArriving, SaveFailing
<1>8. CASE \E f \in V!File : V!Elsewhere(f) BY <1>8, WritingElsewhere
<1>9. CASE UNCHANGED V!vars BY <1>9, ViewerStutters
<1> QED BY <1>1, <1>2, <1>3, <1>4, <1>5, <1>6, <1>7, <1>8, <1>9 DEF V!Next

LEMMA ViewerInvariance == V!Spec => []ViewerInv
<1>1. V!ViewerBounds BY InstanceAssumption
<1>2. V!Init => ViewerInv BY <1>1, ViewerStarts
<1>3. ViewerInv /\ [V!Next]_(V!vars) => ViewerInv' BY <1>1, ViewerKeeps
<1> QED BY <1>2, <1>3, PTL DEF V!Spec

\* MarkdownPreview.tsx:13: once nothing is being read the text shown is the file's that the
\* route names.  A component without a key keeps the text of the last file when it is given
\* another; it has asked for the new one then, and what it asked for before is given up.
THEOREM TextBelongsToRoute == V!Spec => []TextIsOfItsFile
<1>1. V!ViewerBounds BY InstanceAssumption
<1>2. ASSUME ViewerInv PROVE TextIsOfItsFile
  <2> SUFFICES ASSUME body.text # None, ~body.error, loads = {} PROVE body.text[1] = shown
    BY DEF TextIsOfItsFile, V!TextIsOfItsFile
  <2>1. body.of # None /\ body.text \in Texts(body.of) BY <1>2 DEF ViewerInv, TextsOfBody
  <2>2. body.of = shown /\ body.of \in V!File
    BY <2>1, <1>2 DEF ViewerInv, ViewerFrame, BodyRecord
  <2> QED BY <1>1, <2>1, <2>2, TextsAre
<1> QED BY <1>2, ViewerInvariance, PTL

\* CodeViewer.tsx:115: the text shown is what the file holds, or, over the limit of a save,
\* what it holds is the beginning, unless somebody else wrote it.
\* A save that is answered brings the text that was sent, and no write came after it: the
\* next save is not pressed before.
THEOREM ShownTextIsSaved == V!Spec => []ShownIsSaved
<1>1. ASSUME ViewerInv PROVE ShownIsSaved
  BY <1>1 DEF ViewerInv, TextIsOnDisk, ShownIsSaved, V!ShownIsSaved, V!Pending
<1> QED BY <1>1, ViewerInvariance, PTL

-----------------------------------------------------------------------------
(* Pages *)

Server == [insecure : BOOLEAN, initialized : BOOLEAN, policy : {"public", "readonly", "private"}]

PagesFrame ==
    /\ backend \in Server
    /\ session \in {"none", "user", "admin"}

\* The form that was submitted and the sign-out are records.
PagesRecords ==
    /\ submit = [kind |-> submit.kind, step |-> submit.step, dir |-> submit.dir]
    /\ parting = [step |-> parting.step, dir |-> parting.dir]

\* Nothing was missed since "me" was served, and nothing is about to be read again for: a
\* sign-out that was served is, until somebody has signed in meanwhile.
UpToDate ==
    /\ ~unheard
    /\ submit.step # "accepted"
    /\ parting.step = "served" => session # "none"

\* What is known, or was served, is then how things stand.
MeIsNow ==
    /\ UpToDate /\ reading.step = "idle" /\ P!Known(me) => me = P!MeNow
    /\ UpToDate /\ reading.step = "served" => reading.me = P!MeNow

PagesInv == PagesFrame /\ MeIsNow

-----------------------------------------------------------------------------
\* Navigating, and what the guards make of it, leave the account as it is.
LEMMA BrowseKeepsMe == ASSUME P!Browse PROVE me' = me /\ UNCHANGED P!Requests
<1> SUFFICES me' = me
  BY DEF P!Browse
<1>2. CASE \E d \in PageFolder : P!NavigateToDirectory(d) \/ P!FollowCrumb(d)
  BY <1>2 DEF P!Push, P!Replace, P!Commit, P!NavigateToDirectory, P!FollowCrumb
<1>3. CASE \E f \in PageFile : P!OpenFile(f)
  BY <1>3 DEF P!Push, P!Commit, P!OpenFile
<1>4. CASE P!Close \/ P!OpenSettings \/ P!LeaveSignIn \/ \E tab \in P!Tab : P!ChangeTab(tab)
  BY <1>4 DEF P!Replace, P!Commit, P!Close, P!OpenSettings, P!LeaveSignIn, P!ChangeTab
<1>5. CASE P!OpenSignIn \/ \E kind \in {"dir", "file"} : P!OpenCreate(kind)
  BY <1>5 DEF P!FollowLink, P!Push, P!Commit, P!OpenSignIn, P!OpenCreate
<1>6. CASE \E i \in 1 .. MaxEntries : P!PopState(i)
  BY <1>6 DEF P!PopState, P!Commit
<1> QED BY <1>2, <1>3, <1>4, <1>5, <1>6 DEF P!Browse

\* A step that changes neither the account nor how things stand keeps what is known true,
\* if what it does to a request at most gives it up.
LEMMA StillNow ==
    ASSUME PagesInv, me' = me \/ ~P!Known(me'), UNCHANGED <<backend, session>>,
           UpToDate' => UpToDate,
           reading' = reading \/ reading'.step = "sent"
    PROVE  PagesInv'
BY DEF PagesInv, PagesFrame, MeIsNow, P!MeNow, P!Known, P!NoMe, P!Me

LEMMA PagesStarts == ASSUME P!PagesBounds, P!Init PROVE PagesInv
<1>1. PagesFrame BY DEF P!Init, P!PagesBounds, PagesFrame, Server
<1>2. MeIsNow BY DEF P!Init, MeIsNow, P!Asked
<1> QED BY <1>1, <1>2 DEF PagesInv

LEMMA Moving ==
    ASSUME PagesInv, P!Browse \/ P!Unauthorized
    PROVE  PagesInv'
<1>1. me' = me /\ UNCHANGED P!Requests
  BY BrowseKeepsMe DEF P!Push, P!Commit, P!Unauthorized
<1> QED BY <1>1, StillNow DEF P!Requests, UpToDate

LEMMA Asking ==
    ASSUME PagesInv, P!Refresh \/ P!Submit \/ P!SignOut \/ P!SubmitCreate \/ P!Reload
    PROVE  PagesInv'
<1>1. CASE P!Refresh
  BY <1>1, StillNow DEF P!Refresh, UpToDate, P!Asked
<1>2. CASE P!Submit
  BY <1>2, StillNow DEF P!Submit, UpToDate
<1>3. CASE P!SignOut
  BY <1>3, StillNow DEF P!SignOut, UpToDate
<1>4. CASE P!SubmitCreate
  BY <1>4, StillNow DEF P!SubmitCreate, UpToDate
<1>5. CASE P!Reload
  BY <1>5 DEF P!Reload, PagesInv, PagesFrame, MeIsNow, P!Known, P!Asked
<1> QED BY <1>1, <1>2, <1>3, <1>4, <1>5

LEMMA Changing ==
    ASSUME PagesInv, P!SessionEnds \/ P!PolicyChanges
    PROVE  PagesInv'
<1>1. ~UpToDate' BY DEF P!SessionEnds, P!PolicyChanges, UpToDate
<1>2. PagesFrame' BY DEF P!SessionEnds, P!PolicyChanges, PagesInv, PagesFrame, Server
<1> QED BY <1>1, <1>2 DEF PagesInv, MeIsNow

LEMMA Reading ==
    ASSUME PagesInv, P!ServeMe \/ P!MeArrives \/ P!MeFails
    PROVE  PagesInv'
<1>1. PagesFrame' BY DEF P!ServeMe, P!MeArrives, P!MeFails, PagesInv, PagesFrame
<1>2. CASE P!ServeMe
  <2>1. reading'.step = "served" /\ reading'.me = P!MeNow /\ P!MeNow' = P!MeNow
    BY <1>2 DEF P!ServeMe, P!MeNow
  <2> QED BY <1>1, <2>1 DEF PagesInv, MeIsNow
<1>3. CASE P!MeArrives
  <2>1. me' = reading.me /\ reading'.step = "idle" /\ P!MeNow' = P!MeNow
    BY <1>3 DEF P!MeArrives, P!Commit, P!Unread, P!MeNow
  <2>2. UpToDate' = UpToDate BY <1>3 DEF P!MeArrives, UpToDate
  <2> QED BY <1>1, <1>3, <2>1, <2>2 DEF PagesInv, MeIsNow, P!MeArrives
<1>4. CASE P!MeFails
  BY <1>1, <1>4 DEF P!MeFails, UpToDate, PagesInv, MeIsNow
<1> QED BY <1>2, <1>3, <1>4

LEMMA SigningIn ==
    ASSUME PagesInv, PagesRecords, P!ServeSubmit \/ P!SubmitAnswered \/ P!SubmitFails \/ P!Land
    PROVE  PagesInv'
<1>1. CASE P!ServeSubmit
  <2>1. PICK verdict \in {"accepted", "refused"} :
          /\ submit' = [submit EXCEPT !.step = verdict]
          /\ backend' = [backend EXCEPT !.initialized =
                            @ \/ (submit.kind = "setup" /\ verdict = "accepted")]
    BY <1>1 DEF P!ServeSubmit
  <2>2. UNCHANGED <<me, reading, session, parting, unheard>> BY <1>1 DEF P!ServeSubmit
  <2>3. PagesFrame' BY <2>1, <2>2 DEF PagesInv, PagesFrame, Server
  <2>4. CASE UpToDate'
    <3>1. submit'.step = verdict BY <2>1 DEF PagesRecords
    <3>2. verdict = "refused" BY <2>4, <3>1 DEF UpToDate
    <3>3. backend' = backend BY <2>1, <3>2 DEF PagesInv, PagesFrame, Server
    <3>4. submit.step = "sent" BY <1>1 DEF P!ServeSubmit
    <3> QED BY <2>2, <2>4, <3>3, <3>4, StillNow DEF UpToDate
  <2>5. CASE ~UpToDate'
    BY <2>3, <2>5 DEF PagesInv, MeIsNow
  <2> QED BY <2>4, <2>5
<1>2. CASE P!SubmitAnswered
  <2>1. CASE submit.step = "refused"
    BY <1>2, <2>1, StillNow DEF P!SubmitAnswered, UpToDate, P!NoSubmit
  <2>2. CASE submit.step = "accepted"
    <3>1. reading'.step = "sent" BY <1>2, <2>2 DEF P!SubmitAnswered, P!Asked
    <3>2. PagesFrame' BY <1>2, <2>2 DEF P!SubmitAnswered, PagesInv, PagesFrame
    <3> QED BY <3>1, <3>2 DEF PagesInv, MeIsNow
  <2> QED BY <1>2, <2>1, <2>2 DEF P!SubmitAnswered
<1>3. CASE P!SubmitFails
  BY <1>3 DEF P!SubmitFails, UpToDate, PagesInv, PagesFrame, MeIsNow
<1>4. CASE P!Land
  <2>1. me' = me BY <1>4 DEF P!Replace, P!Commit, P!Land
  <2> QED BY <1>4, <2>1, StillNow DEF P!Land, UpToDate, P!NoSubmit
<1> QED BY <1>1, <1>2, <1>3, <1>4

LEMMA SigningOut ==
    ASSUME PagesInv, PagesRecords, P!ServeSignOut \/ P!SignedOut \/ P!SignOutFails \/ P!CreateAnswered
    PROVE  PagesInv'
<1>1. CASE P!ServeSignOut
  <2>1. parting'.step = "served" /\ session' = "none" BY <1>1 DEF P!ServeSignOut, PagesRecords
  <2>2. PagesFrame' BY <1>1 DEF P!ServeSignOut, PagesInv, PagesFrame
  <2> QED BY <2>1, <2>2 DEF PagesInv, MeIsNow, UpToDate
<1>2. CASE P!SignedOut
  <2>1. reading'.step = "sent" BY <1>2 DEF P!SignedOut, P!Asked
  <2>2. PagesFrame' BY <1>2 DEF P!SignedOut, PagesInv, PagesFrame
  <2> QED BY <2>1, <2>2 DEF PagesInv, MeIsNow
<1>3. CASE P!SignOutFails
  BY <1>3 DEF P!SignOutFails, UpToDate, PagesInv, PagesFrame, MeIsNow
<1>4. CASE P!CreateAnswered
  <2>1. me' = me BY <1>4 DEF P!Replace, P!Commit, P!CreateAnswered
  <2> QED BY <1>4, <2>1, StillNow DEF P!CreateAnswered, UpToDate
<1> QED BY <1>1, <1>2, <1>3, <1>4

LEMMA RecordsStay == ASSUME PagesRecords, [P!Next]_(P!vars) PROVE PagesRecords'
<1>1. CASE P!Answers
  BY <1>1 DEF PagesRecords, P!Answers, P!ServeMe, P!MeArrives, P!MeFails, P!ServeSubmit,
     P!SubmitAnswered, P!SubmitFails, P!Land, P!ServeSignOut, P!SignedOut, P!SignOutFails,
     P!CreateAnswered, P!NoSubmit, P!NoParting
<1>2. CASE P!Browse \/ P!Unauthorized
  BY <1>2 DEF PagesRecords, P!Browse, P!Unauthorized, P!Requests
<1>3. CASE \/ P!Refresh \/ P!Submit \/ P!SignOut \/ P!SubmitCreate \/ P!Reload
           \/ P!SessionEnds \/ P!PolicyChanges
  BY <1>3 DEF PagesRecords, P!Refresh, P!Submit, P!SignOut, P!SubmitCreate, P!Reload,
     P!SessionEnds, P!PolicyChanges, P!NoSubmit, P!NoParting
<1>4. CASE UNCHANGED P!vars
  BY <1>4 DEF PagesRecords, P!vars
<1> QED BY <1>1, <1>2, <1>3, <1>4 DEF P!Next

LEMMA PagesKeep == ASSUME PagesInv, PagesRecords, [P!Next]_(P!vars) PROVE PagesInv'
<1>1. CASE UNCHANGED P!vars
  BY <1>1, StillNow DEF P!vars, UpToDate
<1> QED BY <1>1, Moving, Asking, Changing, Reading, SigningIn, SigningOut DEF P!Next, P!Answers

LEMMA PagesInvariance == P!Spec => [](PagesInv /\ PagesRecords)
<1>1. P!Init => PagesInv BY InstanceAssumption, PagesStarts
<1>2. P!Init => PagesRecords BY DEF P!Init, PagesRecords, P!NoSubmit, P!NoParting
<1>3. PagesInv /\ PagesRecords /\ [P!Next]_(P!vars) => (PagesInv /\ PagesRecords)'
  BY PagesKeep, RecordsStay
<1> QED BY <1>1, <1>2, <1>3, PTL DEF P!Spec

-----------------------------------------------------------------------------
\* A path lies below itself and the root, and what is created in a folder lies below
\* whatever that does.
LEMMA BelowRoot ==
    ASSUME NEW p \in Seq(STRING)
    PROVE  P!Below(p, <<>>)
<1>1. SubSeq(p, 1, 0) = <<>> BY SubSeqEmpty
<1> QED BY <1>1 DEF P!Below

LEMMA OneIsSeq == ASSUME NEW S, NEW n \in S PROVE <<n>> \in Seq(S)
OBVIOUS

LEMMA BelowAppend ==
    ASSUME NEW p \in Seq(STRING), NEW d \in Seq(STRING), NEW n \in STRING
    PROVE  P!Below(Append(p, n), d) /\ Append(p, n) # d <=> P!Below(p, d)
<1> DEFINE q == Append(p, n)
<1>1. q \in Seq(STRING) /\ Len(q) = Len(p) + 1 /\ q = p \o <<n>> /\ <<n>> \in Seq(STRING)
  <2>1. q \in Seq(STRING) /\ Len(q) = Len(p) + 1 BY AppendProperties, Zenon
  <2>2. q = p \o <<n>> BY AppendIsConcat, Zenon
  <2>3. <<n>> \in Seq(STRING) BY OneIsSeq, Zenon
  <2> QED BY <2>1, <2>2, <2>3
<1>2. Len(p) \in Nat /\ Len(d) \in Nat
  OBVIOUS
<1>3. ASSUME Len(d) <= Len(p)
      PROVE  SubSeq(q, 1, Len(d)) = SubSeq(p, 1, Len(d))
  <2>1. CASE Len(d) = 0
    <3>1. SubSeq(q, 1, 0) = <<>> /\ SubSeq(p, 1, 0) = <<>> BY SubSeqEmpty
    <3> QED BY <2>1, <3>1
  <2>2. CASE Len(d) # 0
    <3>1. Len(d) \in 1 .. Len(p) /\ 1 \in 1 .. Len(p) BY <1>2, <1>3, <2>2
    <3> HIDE DEF q
    <3> QED BY <1>1, <3>1, SubSeqOfConcat1
  <2> QED BY <2>1, <2>2
<1>4. SubSeq(q, 1, Len(q)) = q
  BY <1>1, SubSeqFull
<1> HIDE DEF q
<1>5. ASSUME P!Below(q, d), q # d PROVE P!Below(p, d)
  <2>1. Len(d) <= Len(q) /\ SubSeq(q, 1, Len(d)) = d BY <1>5 DEF P!Below
  <2>2. ASSUME Len(d) = Len(q) PROVE FALSE
    <3>1. SubSeq(q, 1, Len(q)) = d BY <2>1, <2>2, Zenon
    <3> QED BY <1>4, <1>5, <3>1, Zenon
  <2>3. Len(d) <= Len(p)
    <3>1. Len(d) <= Len(p) + 1 /\ Len(d) # Len(p) + 1 BY <1>1, <2>1, <2>2, Zenon
    <3> QED BY <1>2, <3>1
  <2> QED BY <1>3, <2>1, <2>3 DEF P!Below
<1>6. ASSUME P!Below(p, d) PROVE P!Below(q, d) /\ q # d
  <2>1. Len(d) <= Len(p) BY <1>6 DEF P!Below
  <2>2. SubSeq(q, 1, Len(d)) = d BY <1>3, <1>6, Zenon DEF P!Below
  <2>3. Len(d) <= Len(q)
    <3>1. Len(d) <= Len(p) + 1 BY <1>2, <2>1
    <3> QED BY <1>1, <3>1, Zenon
  <2>4. q # d
    <3>1. Len(d) # Len(p) + 1 BY <1>2, <2>1
    <3> QED BY <1>1, <3>1, Zenon
  <2> QED BY <2>2, <2>3, <2>4, Zenon DEF P!Below
<1> QED BY <1>5, <1>6 DEF q

\* permissions.ts:17, permissions.ts:32: once "me" has been read, what is offered to whoever
\* is signed in is what the server allows, through sign-in, sign-out, setup and reloads.
THEOREM OffersAreTrue == P!Spec => []OffersMatchServer
<1>1. ASSUME PagesInv, PagesRecords PROVE OffersMatchServer
  <2> SUFFICES ASSUME P!Settled
               PROVE  /\ \A p \in (PageFolder \cup PageFile) \ {<<>>} :
                            P!CanWritePath(me, p) <=> P!ServerWrites(p)
                      /\ \A d \in PageFolder :
                            P!CanWriteIn(me, d) <=> P!ServerCreates(Append(d, Name))
    BY DEF OffersMatchServer, P!OffersMatchServer
  <2>1. P!PagesBounds BY InstanceAssumption
  <2>2. Scope \in Seq(STRING) /\ PageFolder \cup PageFile \subseteq Seq(STRING) /\ Name \in STRING
    BY <2>1 DEF P!PagesBounds, P!Clean
  <2>3. me = P!MeNow /\ P!Known(me)
    BY <1>1 DEF PagesInv, MeIsNow, UpToDate, P!Settled
  <2>4. /\ me.insecure = backend.insecure
        /\ me.user = (~backend.insecure /\ session # "none")
        /\ me.admin = (backend.insecure \/ session = "admin")
        /\ me.policy = backend.policy
    BY <2>3 DEF P!MeNow, P!Me
  <2>5. /\ backend.insecure \in BOOLEAN /\ session \in {"none", "user", "admin"}
    BY <1>1 DEF PagesInv, PagesFrame, Server
  <2>6. ASSUME NEW p \in Seq(STRING) PROVE P!InScope(p) <=> P!Below(p, Scope)
    BY BelowRoot DEF P!InScope
  <2>7. ASSUME NEW p \in (PageFolder \cup PageFile) \ {<<>>}
        PROVE  P!CanWritePath(me, p) <=> P!ServerWrites(p)
    <3>1. P!InScope(p) <=> P!Below(p, Scope) BY <2>2, <2>6
    <3> QED BY <2>3, <2>4, <2>5, <3>1 DEF P!CanWritePath, P!ServerWrites
  <2>8. ASSUME NEW d \in PageFolder
        PROVE  P!CanWriteIn(me, d) <=> P!ServerCreates(Append(d, Name))
    <3>1. P!InScope(d) <=> P!Below(Append(d, Name), Scope) /\ Append(d, Name) # Scope
      BY <2>2, <2>6, BelowAppend
    <3> QED BY <2>3, <2>4, <2>5, <3>1 DEF P!CanWriteIn, P!ServerCreates, P!ServerWrites
  <2> QED BY <2>7, <2>8
<1> QED BY <1>1, PagesInvariance, PTL

-----------------------------------------------------------------------------
(* Pages: the paths, and what a location is read back as *)

\* The provers do not know that a literal is a string.
Literals == {"", "view", "new", "folder", "file", "dir", "settings", "login", "setup"} \cup P!Tab
Word == STRING \cup Literals

\* A path of names: P!Clean, over words.
CleanPath(p) == p \in Seq(Word) /\ \A i \in DOMAIN p : p[i] \notin {"", ".", ".."}

LEMMA WordsAre ==
    /\ {"", "view", "new", "folder", "file", "dir", "settings", "login", "setup"} \subseteq Word
    /\ P!Tab \subseteq Word
BY DEF Word, Literals

LEMMA Least ==
    ASSUME NEW T \in SUBSET Nat, T # {}
    PROVE  \E x \in T : \A y \in T : x <= y
<1> DEFINE R == OpToRel(<, Nat)
<1>1. IsWellFoundedOn(R, Nat) BY NatLessThanWellFounded
<1>2. \A x, y \in Nat : x < y => <<x, y>> \in R BY DEF OpToRel
<1> HIDE DEF R
<1>3. PICK x \in T : \A y \in T : <<y, x>> \notin R BY <1>1, WFMin
<1>4. ASSUME NEW y \in T PROVE x <= y
  <2>1. x \in Nat /\ y \in Nat OBVIOUS
  <2>2. ~(y < x) BY <1>2, <1>3, <2>1
  <2> QED BY <2>1, <2>2
<1> QED BY <1>4

\* What holds of nought, and of a number when it holds of the one before, holds up to n.
LEMMA UpTo ==
    ASSUME NEW n \in Nat, NEW S, 0 \in S, \A i \in 1 .. n : i - 1 \in S => i \in S
    PROVE  0 .. n \subseteq S
<1> DEFINE T == {i \in 0 .. n : i \notin S}
<1> SUFFICES ASSUME T # {} PROVE FALSE OBVIOUS
<1>1. T \in SUBSET Nat OBVIOUS
<1>2. PICK m \in T : \A y \in T : m <= y BY <1>1, Least
<1>3. m \in 1 .. n OBVIOUS
<1>4. m - 1 \in 0 .. n /\ ~(m <= m - 1) BY <1>3
<1>5. m - 1 \in S BY <1>2, <1>4
<1> QED BY <1>3, <1>5

LEMMA SegmentIs ==
    ASSUME NEW kept \in Seq(Word), NEW name \in Word
    PROVE  P!Segment(kept, name) \in Seq(Word)
<1>1. kept # <<>> => P!Front(kept) \in Seq(Word)
  <2> SUFFICES ASSUME kept # <<>> PROVE P!Front(kept) \in Seq(Word) OBVIOUS
  <2>1. Len(kept) \in Nat /\ Len(kept) # 0 BY EmptySeq, LenProperties
  <2> QED BY <2>1, SubSeqProperties DEF P!Front
<1>2. Append(kept, name) \in Seq(Word) BY AppendProperties
<1>3. CASE name \in {"", "."} BY <1>3 DEF P!Segment
<1>4. CASE name = ".."
  <2>1. P!Segment(kept, "..") = (IF kept = <<>> THEN kept ELSE P!Front(kept)) BY SMT DEF P!Segment
  <2> QED BY <1>1, <1>4, <2>1
<1>5. CASE name \notin {"", ".", ".."}
  <2>1. P!Segment(kept, name) = Append(kept, name) BY <1>5 DEF P!Segment
  <2> QED BY <1>2, <2>1
<1> QED BY <1>3, <1>4, <1>5

\* The recursion has a solution, which is what is kept.
LEMMA KeptSegments ==
    ASSUME NEW p \in Seq(Word)
    PROVE  \E kept \in [0 .. Len(p) -> Seq(Word)] :
                /\ kept[0] = <<>>
                /\ \A i \in 1 .. Len(p) : kept[i] = P!Segment(kept[i - 1], p[i])
                /\ P!NormalizeStoragePath(p) = kept[Len(p)]
<1> DEFINE n == Len(p)
           Solves(g, k) == /\ g \in [0 .. k -> Seq(Word)]
                           /\ g[0] = <<>>
                           /\ \A i \in 1 .. k : g[i] = P!Segment(g[i - 1], p[i])
           S == {k \in 0 .. n : \E g : Solves(g, k)}
<1>0. n \in Nat /\ \A i \in 1 .. n : p[i] \in Word BY LenProperties, ElementOfSeq
<1>1. 0 \in S
  <2>1. Solves([i \in 0 .. 0 |-> <<>>], 0)
    <3>1. <<>> \in Seq(Word) BY EmptySeq
    <3> QED BY <3>1
  <2>2. \E g : Solves(g, 0) BY <2>1
  <2> HIDE DEF Solves
  <2> QED BY <1>0, <2>2
<1>2. ASSUME NEW i \in 1 .. n, i - 1 \in S PROVE i \in S
  <2>1. PICK g : Solves(g, i - 1) BY <1>2
  <2> DEFINE x == P!Segment(g[i - 1], p[i])
             h == [j \in 0 .. i |-> IF j = i THEN x ELSE g[j]]
  <2>2. g[i - 1] \in Seq(Word) BY <1>0, <2>1
  <2>3. x \in Seq(Word) BY <1>0, <2>2, SegmentIs
  <2>4. h \in [0 .. i -> Seq(Word)] /\ h[0] = <<>>
    <3> HIDE DEF x
    <3> QED BY <1>0, <2>1, <2>3
  <2>5. ASSUME NEW j \in 1 .. i PROVE h[j] = P!Segment(h[j - 1], p[j])
    <3>1. CASE j = i BY <1>0, <3>1
    <3>2. CASE j # i
      <4>1. j \in 1 .. i - 1 /\ j - 1 \in 0 .. i /\ j - 1 # i /\ j \in 0 .. i BY <1>0, <3>2
      <4>2. h[j] = g[j] /\ h[j - 1] = g[j - 1] BY <3>2, <4>1
      <4> QED BY <2>1, <4>1, <4>2
    <3> QED BY <3>1, <3>2
  <2>6. \E k : Solves(k, i) BY <2>4, <2>5
  <2> HIDE DEF Solves
  <2> QED BY <1>0, <2>6
<1>3. PICK g : Solves(g, n)
  <2> HIDE DEF Solves
  <2>1. S = S /\ 0 \in S /\ \A i \in 1 .. n : i - 1 \in S => i \in S BY <1>1, <1>2
  <2> HIDE DEF S
  <2>2. 0 .. n \subseteq S BY <1>0, <2>1, UpTo
  <2>3. n \in S BY <1>0, <2>2
  <2> QED BY <2>3 DEF S
<1> DEFINE Body(f) == [i \in 0 .. n |-> IF i = 0 THEN <<>> ELSE P!Segment(f[i - 1], p[i])]
<1>4. g = Body(g)
  <2>1. \A i \in 0 .. n : g[i] = IF i = 0 THEN <<>> ELSE P!Segment(g[i - 1], p[i])
    BY <1>0, <1>3
  <2> QED BY <1>3, <2>1
<1> DEFINE kept == CHOOSE f : f = [i \in 0 .. Len(p) |->
                        IF i = 0 THEN <<>> ELSE P!Segment(f[i - 1], p[i])]
<1>5. kept = Body(kept)
  <2>1. \E f : f = Body(f) BY <1>4
  <2> QED BY <2>1
<1>6. P!NormalizeStoragePath(p) = kept[n] BY DEF P!NormalizeStoragePath
<1> HIDE DEF kept
<1>7. /\ kept[0] = <<>>
      /\ \A i \in 1 .. n : kept[i] = P!Segment(kept[i - 1], p[i])
  BY <1>0, <1>5
<1>8. \A i \in 0 .. n : kept[i] \in Seq(Word)
  <2> DEFINE U == {i \in 0 .. n : kept[i] \in Seq(Word)}
  <2>0. kept[0] \in Seq(Word) BY <1>7, EmptySeq
  <2>1. 0 \in U BY <1>0, <2>0
  <2>2. ASSUME NEW i \in 1 .. n, i - 1 \in U PROVE i \in U
    <3>1. kept[i - 1] \in Seq(Word) /\ p[i] \in Word BY <1>0, <2>2
    <3>2. P!Segment(kept[i - 1], p[i]) \in Seq(Word) BY <3>1, SegmentIs
    <3>3. kept[i] \in Seq(Word) /\ i \in 0 .. n BY <1>0, <1>7, <3>2
    <3> QED BY <3>3
  <2>3. \A i \in 1 .. n : i - 1 \in U => i \in U BY <2>2
  <2> HIDE DEF U
  <2>4. 0 .. n \subseteq U BY <1>0, <2>1, <2>3, UpTo
  <2> USE DEF U
  <2> QED BY <2>4
<1>9. kept \in [0 .. n -> Seq(Word)] BY <1>5, <1>8
<1> QED BY <1>6, <1>7, <1>9

LEMMA Appended ==
    ASSUME NEW S, NEW s \in Seq(S), NEW e \in S
    PROVE  /\ Append(s, e) \in Seq(S)
           /\ Len(Append(s, e)) = Len(s) + 1
           /\ \A i \in 1 .. Len(s) : Append(s, e)[i] = s[i]
           /\ Append(s, e)[Len(s) + 1] = e
<1>1. Append(s, e) \in Seq(S) /\ Len(Append(s, e)) = Len(s) + 1 OBVIOUS
<1>2. \A i \in 1 .. Len(s) : Append(s, e)[i] = s[i] OBVIOUS
<1>3. Append(s, e)[Len(s) + 1] = e OBVIOUS
<1> QED BY <1>1, <1>2, <1>3

LEMMA FrontClean ==
    ASSUME NEW kept, CleanPath(kept), kept # <<>>
    PROVE  CleanPath(P!Front(kept))
<1>1. kept \in Seq(Word) /\ Len(kept) \in Nat /\ Len(kept) # 0 /\ DOMAIN kept = 1 .. Len(kept)
  BY LenProperties, EmptySeq DEF CleanPath
<1>2. /\ P!Front(kept) \in Seq(Word)
      /\ Len(P!Front(kept)) = Len(kept) - 1
      /\ \A i \in 1 .. Len(kept) - 1 : P!Front(kept)[i] = kept[i]
  BY <1>1, SubSeqProperties DEF P!Front
<1>3. DOMAIN P!Front(kept) = 1 .. Len(kept) - 1 BY <1>2, LenProperties
<1>4. ASSUME NEW i \in 1 .. Len(kept) - 1 PROVE P!Front(kept)[i] \notin {"", ".", ".."}
  <2>1. i \in DOMAIN kept BY <1>1
  <2>2. kept[i] \notin {"", ".", ".."} BY <2>1 DEF CleanPath
  <2> QED BY <1>2, <2>2
<1> QED BY <1>2, <1>3, <1>4 DEF CleanPath

LEMMA SegmentClean ==
    ASSUME NEW kept, CleanPath(kept), NEW name \in Word
    PROVE  CleanPath(P!Segment(kept, name))
<1>0. kept \in Seq(Word) /\ Len(kept) \in Nat /\ DOMAIN kept = 1 .. Len(kept)
  BY LenProperties DEF CleanPath
<1>1. kept # <<>> => CleanPath(P!Front(kept)) BY FrontClean
<1>2. ASSUME name \notin {"", ".", ".."} PROVE CleanPath(Append(kept, name))
  <2>1. /\ Append(kept, name) \in Seq(Word)
        /\ Len(Append(kept, name)) = Len(kept) + 1
        /\ \A i \in 1 .. Len(kept) : Append(kept, name)[i] = kept[i]
        /\ Append(kept, name)[Len(kept) + 1] = name
    BY <1>0, Appended
  <2>2. DOMAIN Append(kept, name) = 1 .. Len(kept) + 1 BY <2>1, LenProperties
  <2>3. ASSUME NEW i \in 1 .. Len(kept) + 1 PROVE Append(kept, name)[i] \notin {"", ".", ".."}
    <3>1. CASE i = Len(kept) + 1 BY <1>2, <2>1, <3>1
    <3>2. CASE i # Len(kept) + 1
      <4>1. i \in 1 .. Len(kept) BY <1>0, <3>2
      <4> QED BY <1>0, <2>1, <4>1 DEF CleanPath
    <3> QED BY <3>1, <3>2
  <2> QED BY <2>1, <2>2, <2>3 DEF CleanPath
<1>3. CASE name \in {"", "."} BY <1>3 DEF P!Segment
<1>4. CASE name = ".."
  <2>1. P!Segment(kept, "..") = (IF kept = <<>> THEN kept ELSE P!Front(kept)) BY SMT DEF P!Segment
  <2> QED BY <1>1, <1>4, <2>1
<1>5. CASE name \notin {"", ".", ".."}
  <2>1. P!Segment(kept, name) = Append(kept, name) BY <1>5 DEF P!Segment
  <2> QED BY <1>2, <1>5, <2>1
<1> QED BY <1>3, <1>4, <1>5

LEMMA RootIsClean == CleanPath(<<>>)
BY EmptySeq DEF CleanPath

LEMMA NormalIsClean ==
    ASSUME NEW p \in Seq(Word)
    PROVE  CleanPath(P!NormalizeStoragePath(p))
<1>1. PICK kept \in [0 .. Len(p) -> Seq(Word)] :
         /\ kept[0] = <<>>
         /\ \A i \in 1 .. Len(p) : kept[i] = P!Segment(kept[i - 1], p[i])
         /\ P!NormalizeStoragePath(p) = kept[Len(p)]
  BY KeptSegments
<1>2. Len(p) \in Nat /\ \A i \in 1 .. Len(p) : p[i] \in Word BY LenProperties, ElementOfSeq
<1> DEFINE U == {i \in 0 .. Len(p) : CleanPath(kept[i])}
<1>3. 0 \in U BY <1>1, <1>2, RootIsClean
<1>4. ASSUME NEW i \in 1 .. Len(p), i - 1 \in U PROVE i \in U
  <2>1. CleanPath(kept[i - 1]) /\ p[i] \in Word BY <1>2, <1>4
  <2>2. CleanPath(P!Segment(kept[i - 1], p[i])) BY <2>1, SegmentClean
  <2> QED BY <1>1, <1>2, <2>2
<1> HIDE DEF U
<1>5. 0 .. Len(p) \subseteq U
  <2>1. \A i \in 1 .. Len(p) : i - 1 \in U => i \in U BY <1>4
  <2> QED BY <1>2, <1>3, <2>1, UpTo
<1>6. Len(p) \in U BY <1>2, <1>5
<1> QED BY <1>1, <1>6 DEF U

LEMMA CleanIsNormal ==
    ASSUME NEW p, CleanPath(p)
    PROVE  P!NormalizeStoragePath(p) = p
<1>0. p \in Seq(Word) BY DEF CleanPath
<1>1. PICK kept \in [0 .. Len(p) -> Seq(Word)] :
         /\ kept[0] = <<>>
         /\ \A i \in 1 .. Len(p) : kept[i] = P!Segment(kept[i - 1], p[i])
         /\ P!NormalizeStoragePath(p) = kept[Len(p)]
  BY <1>0, KeptSegments
<1>2. Len(p) \in Nat /\ DOMAIN p = 1 .. Len(p) BY <1>0, LenProperties
<1>3. \A i \in 1 .. Len(p) : p[i] \in Word /\ p[i] \notin {"", ".", ".."}
  BY <1>0, <1>2, ElementOfSeq DEF CleanPath
<1> DEFINE U == {i \in 0 .. Len(p) : kept[i] = SubSeq(p, 1, i)}
<1>4. 0 \in U
  <2>1. SubSeq(p, 1, 0) = <<>> BY <1>0, SubSeqEmpty
  <2> QED BY <1>1, <1>2, <2>1
<1>5. ASSUME NEW i \in 1 .. Len(p), i - 1 \in U PROVE i \in U
  <2>1. kept[i] = Append(kept[i - 1], p[i])
    <3>1. kept[i] = P!Segment(kept[i - 1], p[i]) BY <1>1
    <3> QED BY <1>3, <3>1 DEF P!Segment
  <2>2. SubSeq(p, 1, i) = Append(SubSeq(p, 1, i - 1), p[i])
    <3>1. SubSeq(p, 1, i) = SubSeq(p, 1, i - 1) \o <<p[i]>>
      BY <1>0, <1>2, SubSeqRecursiveSecond
    <3>2. SubSeq(p, 1, i - 1) \in Seq(Word) 
      <4>1. 1 \in Int /\ i - 1 \in Int /\ 1 .. i - 1 \subseteq 1 .. Len(p) BY <1>2
      <4>2. \A j \in 1 .. i - 1 : p[j] \in Word BY <1>3, <4>1, Zenon
      <4> QED BY <4>1, <4>2, SubSeqProperties
    <3> QED BY <1>3, <3>1, <3>2, AppendIsConcat
  <2>3. kept[i - 1] = SubSeq(p, 1, i - 1) BY <1>5
  <2> HIDE DEF U
  <2>4. kept[i] = SubSeq(p, 1, i) BY <2>1, <2>2, <2>3
  <2> QED BY <1>2, <2>4 DEF U
<1>6. \A i \in 1 .. Len(p) : i - 1 \in U => i \in U BY <1>5
<1> HIDE DEF U
<1>7. 0 .. Len(p) \subseteq U BY <1>2, <1>4, <1>6, UpTo
<1>8. Len(p) \in U BY <1>2, <1>7
<1> QED BY <1>0, <1>1, <1>8, SubSeqFull DEF U

\* What is below the mount is read back from below it.
LEMMA MountIsTaken ==
    ASSUME NEW at \in Seq(Word), Mount \in Seq(Word)
    PROVE  P!WithBasePath(at) \in Seq(Word) /\ P!WithoutBasePath(P!WithBasePath(at)) = at
<1> DEFINE m == Len(Mount)
           n == Len(at)
           t == Mount \o at
<1>1. m \in Nat /\ n \in Nat BY LenProperties
<1>2. t \in Seq(Word) /\ Len(t) = m + n BY ConcatProperties
<1>3. SubSeq(t, 1, m) = Mount /\ SubSeq(t, m + 1, m + n) = at
  BY <1>1, <1>2, SubSeqOfConcat2, ConcatSimplifications, SubSeqFull
<1>4. SubSeq(Mount, 1, m) = Mount BY SubSeqFull
<1> QED BY <1>1, <1>2, <1>3, <1>4 DEF P!WithBasePath, P!WithoutBasePath, P!IsPrefix

RouteIs(r) ==
    /\ CleanPath(r.dir)
    /\ r.arg \in Seq(Word)
    /\ r.page \in {"files", "viewer", "create", "settings", "auth"}
    /\ r.page = "auth" => r.arg \in {<<"login">>, <<"setup">>}

LEMMA Prefixed ==
    ASSUME NEW S, NEW a \in S, NEW p \in Seq(S)
    PROVE  /\ <<a>> \o p \in Seq(S)
           /\ <<a>> \o p # <<>>
           /\ (<<a>> \o p)[1] = a
           /\ Tail(<<a>> \o p) = p
<1>1. <<a>> \o p \in Seq(S) /\ <<a>> \o p # <<>> OBVIOUS
<1>2. (<<a>> \o p)[1] = a OBVIOUS
<1>3. Tail(<<a>> \o p) = p OBVIOUS
<1> QED BY <1>1, <1>2, <1>3

LEMMA PrefixedTwice ==
    ASSUME NEW S, NEW a \in S, NEW b \in S, NEW p \in Seq(S), NEW s, s = <<a, b>> \o p
    PROVE  /\ s \in Seq(S)
           /\ s # <<>>
           /\ 2 \in DOMAIN s
           /\ s[1] = a
           /\ s[2] = b
           /\ SubSeq(s, 3, Len(s)) = p
<1>1. s \in Seq(S) OBVIOUS
<1>2. Len(s) = 2 + Len(p) /\ Len(p) \in Nat OBVIOUS
<1>3. s[1] = a OBVIOUS
<1>4. s[2] = b OBVIOUS
<1>5. s # <<>> /\ 2 \in DOMAIN s BY <1>1, <1>2
<1>6. SubSeq(s, 3, Len(s)) = p
  <2>1. \A i \in 3 .. 2 + Len(p) : s[i] \in S BY <1>1, <1>2
  <2> DEFINE t == SubSeq(s, 3, 2 + Len(p))
  <2>2. /\ t \in Seq(S)
        /\ Len(t) = IF 3 <= 2 + Len(p) THEN 2 + Len(p) - 3 + 1 ELSE 0
        /\ \A i \in 1 .. 2 + Len(p) - 3 + 1 : t[i] = s[3 + i - 1]
    BY <1>2, <2>1, SubSeqProperties
  <2> HIDE DEF t
  <2>3. Len(t) = Len(p) /\ \A i \in 1 .. Len(p) : t[i] = s[i + 2]
    BY <1>2, <2>2
  <2>4. \A i \in 1 .. Len(p) : s[i + 2] = p[i] OBVIOUS
  <2>5. t = p BY <2>2, <2>3, <2>4, SeqEqual
  <2> QED BY <1>2, <2>5 DEF t
<1> QED BY <1>1, <1>3, <1>4, <1>5, <1>6

LEMMA DirIs == ASSUME NEW d, CleanPath(d) PROVE d # P!NoDir
<1>1. 1 \in DOMAIN <<"">> /\ <<"">>[1] = "" OBVIOUS
<1> QED BY <1>1 DEF CleanPath, P!NoDir

\* What a location is, by its first segment.
LEMMA Matches ==
    ASSUME NEW at, NEW d, NEW e, at # <<>>
    PROVE  /\ at[1] = "view" =>
                P!MatchRoute(at, d, e) =
                    {P!Viewer(p, IF d = P!NoDir THEN P!ParentDirectory(p) ELSE d, e) :
                        p \in {P!NormalizeStoragePath(Tail(at))} \ {<<>>}}
           /\ at[1] = "new" =>
                P!MatchRoute(at, d, e) =
                    {P!Create(IF s = "folder" THEN "dir" ELSE "file",
                              P!NormalizeStoragePath(SubSeq(at, 3, Len(at)))) :
                        s \in {at[i] : i \in {2} \cap DOMAIN at} \cap {"folder", "file"}}
           /\ at[1] = "settings" =>
                P!MatchRoute(at, d, e) =
                    IF Len(at) > 2 THEN {}
                    ELSE {P!Settings(t, IF d = P!NoDir THEN <<>> ELSE d) :
                            t \in {IF Len(at) = 2 THEN at[2] ELSE "profile"} \cap P!Tab}
           /\ at[1] \in {"login", "setup"} =>
                P!MatchRoute(at, d, e) =
                    {P!Auth(mode, IF d = P!NoDir THEN <<>> ELSE d) :
                        mode \in IF Len(at) = 1 THEN {at[1]} ELSE {}}
           /\ at[1] \notin P!ReservedRoots =>
                P!MatchRoute(at, d, e) = {P!Files(P!NormalizeStoragePath(at))}
<1>1. CASE at[1] = "view" BY <1>1 DEF P!MatchRoute, P!ReservedRoots
<1>2. CASE at[1] = "new" BY <1>2 DEF P!MatchRoute, P!ReservedRoots
<1>3. CASE at[1] = "settings" BY <1>3 DEF P!MatchRoute, P!ReservedRoots
<1>4. CASE at[1] \in {"login", "setup"} BY <1>4 DEF P!MatchRoute, P!ReservedRoots
<1>5. CASE at[1] \notin P!ReservedRoots BY <1>5 DEF P!MatchRoute, P!ReservedRoots
<1> QED BY <1>1, <1>2, <1>3, <1>4, <1>5 DEF P!ReservedRoots

LEMMA PathIs ==
    ASSUME NEW r, RouteIs(r)
    PROVE  P!RoutePath(r) \in Seq(Word)
<1>1. CASE r.page = "files"
  <2>1. P!NormalizeStoragePath(r.dir) \in Seq(Word) BY NormalIsClean DEF RouteIs, CleanPath
  <2> QED BY <1>1, <2>1 DEF P!RoutePath
<1>2. CASE r.page = "viewer"
  <2>1. P!NormalizeStoragePath(r.arg) \in Seq(Word) BY NormalIsClean DEF RouteIs, CleanPath
  <2>2. <<"view">> \o P!NormalizeStoragePath(r.arg) \in Seq(Word)
    BY <2>1, WordsAre, Prefixed
  <2> QED BY <1>2, <2>2 DEF P!RoutePath
<1>3. CASE r.page = "create"
  <2> DEFINE b == IF r.arg = <<"dir">> THEN "folder" ELSE "file"
             s == <<"new", b>> \o P!NormalizeStoragePath(r.dir)
  <2>1. P!NormalizeStoragePath(r.dir) \in Seq(Word) BY NormalIsClean DEF RouteIs, CleanPath
  <2>2. s \in Seq(Word)
    <3>1. "new" \in Word /\ b \in Word BY WordsAre
    <3> HIDE DEF b
    <3> QED BY <2>1, <3>1, PrefixedTwice
  <2>3. P!RoutePath(r) = s BY <1>3 DEF P!RoutePath
  <2> QED BY <2>2, <2>3
<1>4. CASE r.page = "settings"
  <2>1. <<"settings">> \o r.arg \in Seq(Word) BY WordsAre, Prefixed DEF RouteIs
  <2> QED BY <1>4, <2>1 DEF P!RoutePath
<1>5. CASE r.page = "auth"
  BY <1>5 DEF P!RoutePath, RouteIs
<1> QED BY <1>1, <1>2, <1>3, <1>4, <1>5 DEF RouteIs

LEMMA SlicesAre ==
    ASSUME NEW at \in Seq(Word)
    PROVE  SubSeq(at, 3, Len(at)) \in Seq(Word)
<1>1. Len(at) \in Int /\ \A i \in 3 .. Len(at) : at[i] \in Word OBVIOUS
<1> QED BY <1>1, SubSeqProperties

LEMMA MatchesNew ==
    ASSUME NEW at, at # <<>>, at[1] = "new", NEW d, NEW e, NEW r \in P!MatchRoute(at, d, e)
    PROVE  \E s : r = P!Create(IF s = "folder" THEN "dir" ELSE "file",
                               P!NormalizeStoragePath(SubSeq(at, 3, Len(at))))
<1> DEFINE C(s) == P!Create(IF s = "folder" THEN "dir" ELSE "file",
                            P!NormalizeStoragePath(SubSeq(at, 3, Len(at))))
           Kinds == {at[i] : i \in {2} \cap DOMAIN at} \cap {"folder", "file"}
<1>1. P!MatchRoute(at, d, e) = {C(s) : s \in Kinds} BY Matches
<1> HIDE DEF C, Kinds
<1>2. \E s : r = C(s) BY <1>1
<1> QED BY <1>2 DEF C

\* What is read from a location.
LEMMA MatchIs ==
    ASSUME NEW at \in Seq(Word), NEW d, CleanPath(d) \/ d = P!NoDir, NEW e, NEW r \in P!MatchRoute(at, d, e)
    PROVE  RouteIs(r)
<1> USE DEF P!Route
<1>0. <<>> \in Seq(Word) /\ CleanPath(<<>>) BY EmptySeq, RootIsClean
<1>1. CASE at = <<>>
  <2>1. r = P!Files(<<>>) BY <1>1 DEF P!MatchRoute
  <2> QED BY <1>0, <2>1 DEF RouteIs, P!Files
<1>2. CASE at # <<>> /\ at[1] = "view"
  <2>1. Tail(at) \in Seq(Word) BY <1>2
  <2> DEFINE p == P!NormalizeStoragePath(Tail(at))
  <2>2. CleanPath(p) BY <2>1, NormalIsClean
  <2>3. p # <<>> /\ r = P!Viewer(p, IF d = P!NoDir THEN P!ParentDirectory(p) ELSE d, e)
    BY <1>2, Matches
  <2> HIDE DEF p
  <2>4. p \in Seq(Word) BY <2>2 DEF CleanPath
  <2>5. CleanPath(P!ParentDirectory(p))
    BY <2>2, <2>3, FrontClean DEF P!ParentDirectory
  <2> QED BY <2>3, <2>4, <2>5 DEF RouteIs, P!Viewer
<1>3. CASE at # <<>> /\ at[1] = "new"
  <2> DEFINE p == P!NormalizeStoragePath(SubSeq(at, 3, Len(at)))
  <2>1. CleanPath(p) BY SlicesAre, NormalIsClean
  <2>2. PICK s : r = P!Create(IF s = "folder" THEN "dir" ELSE "file", p)
    BY <1>3, MatchesNew
  <2> HIDE DEF p
  <2>3. <<"dir">> \in Seq(Word) /\ <<"file">> \in Seq(Word)
    <3>1. "dir" \in Word /\ "file" \in Word BY WordsAre
    <3> QED BY <3>1, OneIsSeq
  <2> QED BY <2>1, <2>2, <2>3 DEF RouteIs, P!Create
<1>4. CASE at # <<>> /\ at[1] = "settings"
  <2>1. \E t \in P!Tab : r = P!Settings(t, IF d = P!NoDir THEN <<>> ELSE d)
    BY <1>4, Matches
  <2>2. \A t \in P!Tab : <<t>> \in Seq(Word) BY WordsAre, OneIsSeq
  <2> QED BY <1>0, <2>1, <2>2 DEF RouteIs, P!Settings
<1>5. CASE at # <<>> /\ at[1] \in {"login", "setup"}
  <2>1. r = P!Auth(at[1], IF d = P!NoDir THEN <<>> ELSE d)
    BY <1>5, Matches
  <2>2. <<"login">> \in Seq(Word) /\ <<"setup">> \in Seq(Word)
    <3>1. "login" \in Word /\ "setup" \in Word BY WordsAre
    <3> QED BY <3>1, OneIsSeq
  <2> QED BY <1>0, <1>5, <2>1, <2>2 DEF RouteIs, P!Auth
<1>6. CASE at # <<>> /\ at[1] \notin P!ReservedRoots
  <2>1. r = P!Files(P!NormalizeStoragePath(at)) BY <1>6, Matches
  <2> QED BY <1>0, <2>1, NormalIsClean DEF RouteIs, P!Files
<1> QED BY <1>1, <1>2, <1>3, <1>4, <1>5, <1>6 DEF P!ReservedRoots

LEMMA ParseIs ==
    ASSUME NEW at \in Seq(Word), NEW d, CleanPath(d) \/ d = P!NoDir, NEW e
    PROVE  RouteIs(P!ParseRoute(at, d, e))
<1>1. CASE P!MatchRoute(at, d, e) = {}
  <2>1. RouteIs(P!Files(<<>>))
    BY EmptySeq, RootIsClean DEF RouteIs, P!Files, P!Route
  <2> QED BY <1>1, <2>1 DEF P!ParseRoute
<1>2. CASE P!MatchRoute(at, d, e) # {}
  <2>1. P!ParseRoute(at, d, e) \in P!MatchRoute(at, d, e) BY <1>2 DEF P!ParseRoute
  <2> QED BY <2>1, MatchIs
<1> QED BY <1>1, <1>2

\* Everything but a folder keeps its page and its folder through its location.
LEMMA MatchKeeps ==
    ASSUME NEW r, RouteIs(r), r.page # "files", NEW e, NEW x \in P!MatchRoute(P!RoutePath(r), r.dir, e)
    PROVE  x.page = r.page /\ x.dir = r.dir
<1> USE DEF P!Route
<1>0. r.dir # P!NoDir BY DirIs DEF RouteIs
<1>1. CASE r.page = "viewer"
  <2> DEFINE q == P!NormalizeStoragePath(r.arg)
             at == <<"view">> \o q
  <2>1. q \in Seq(Word) BY NormalIsClean DEF RouteIs, CleanPath
  <2>2. P!RoutePath(r) = at BY <1>1 DEF P!RoutePath
  <2> HIDE DEF q
  <2>3. at # <<>> /\ at[1] = "view" BY <2>1, WordsAre, Prefixed
  <2> HIDE DEF at
  <2>4. \E p : x = P!Viewer(p, IF r.dir = P!NoDir THEN P!ParentDirectory(p) ELSE r.dir, e)
    BY <2>2, <2>3, Matches
  <2> QED BY <1>0, <1>1, <2>4 DEF P!Viewer
<1>2. CASE r.page = "create"
  <2> DEFINE q == P!NormalizeStoragePath(r.dir)
             b == IF r.arg = <<"dir">> THEN "folder" ELSE "file"
             at == <<"new", b>> \o q
  <2>1. q = r.dir /\ q \in Seq(Word) BY CleanIsNormal DEF RouteIs, CleanPath
  <2>2. P!RoutePath(r) = at BY <1>2 DEF P!RoutePath
  <2>3. "new" \in Word /\ b \in Word BY WordsAre
  <2> HIDE DEF q, b
  <2>4. at # <<>> /\ at[1] = "new" /\ SubSeq(at, 3, Len(at)) = q BY <2>1, <2>3, PrefixedTwice
  <2> HIDE DEF at
  <2>5. PICK s : x = P!Create(IF s = "folder" THEN "dir" ELSE "file", P!NormalizeStoragePath(q))
    BY <2>2, <2>4, MatchesNew
  <2>6. P!NormalizeStoragePath(q) = r.dir BY <2>1, CleanIsNormal DEF RouteIs
  <2> QED BY <1>2, <2>5, <2>6 DEF P!Create
<1>3. CASE r.page = "settings"
  <2> DEFINE at == <<"settings">> \o r.arg
  <2>1. P!RoutePath(r) = at BY <1>3 DEF P!RoutePath
  <2>2. at # <<>> /\ at[1] = "settings"
    <3>1. "settings" \in Word /\ r.arg \in Seq(Word) BY WordsAre DEF RouteIs
    <3> QED BY <3>1, Prefixed
  <2> HIDE DEF at
  <2>3. \E t : x = P!Settings(t, IF r.dir = P!NoDir THEN <<>> ELSE r.dir)
    BY <2>1, <2>2, Matches
  <2> QED BY <1>0, <1>3, <2>3 DEF P!Settings
<1>4. CASE r.page = "auth"
  <2>1. P!RoutePath(r) = r.arg /\ r.arg \in {<<"login">>, <<"setup">>} BY <1>4 DEF P!RoutePath, RouteIs
  <2>2. \A a \in {<<"login">>, <<"setup">>} : a # <<>> /\ a[1] \in {"login", "setup"} OBVIOUS
  <2>3. \E mode : x = P!Auth(mode, IF r.dir = P!NoDir THEN <<>> ELSE r.dir)
    BY <2>1, <2>2, Matches
  <2> QED BY <1>0, <1>4, <2>3 DEF P!Auth
<1> QED BY <1>1, <1>2, <1>3, <1>4 DEF RouteIs

LEMMA FolderReadBack ==
    ASSUME NEW d, CleanPath(d), ~P!IsReservedPath(d), NEW e
    PROVE  P!ParseRoute(P!RoutePath(P!Files(d)), d, e) = P!Files(d)
<1>1. P!RoutePath(P!Files(d)) = d
  BY CleanIsNormal DEF P!RoutePath, P!Files, P!Route
<1>2. P!MatchRoute(d, d, e) = {P!Files(d)}
  <2>1. CASE d = <<>> BY <2>1 DEF P!MatchRoute
  <2>2. CASE d # <<>> BY <2>2, Matches, CleanIsNormal DEF P!IsReservedPath
  <2> QED BY <2>1, <2>2
<1> QED BY <1>1, <1>2 DEF P!ParseRoute

Place == {e \in [at : Seq(Word), dir : Seq(Word), edit : BOOLEAN] :
            CleanPath(e.dir) \/ e.dir = P!NoDir}

Routed ==
    /\ stack \in Seq(Place)
    /\ here \in 1 .. Len(stack)
    /\ route = P!ReadRoute(stack[here])

OverFolder == {"viewer", "create", "settings"}

FolderKept ==
    stack' # stack /\ route'.page \in OverFolder
        => \/ route'.dir = route.dir
           \/ LET e == stack'[here'] IN P!IsReservedPath(e.dir) /\ e.at = P!WithBasePath(e.dir)

LEMMA StringsAreWords == Seq(STRING) \subseteq Seq(Word)
<1> SUFFICES ASSUME NEW p \in Seq(STRING) PROVE p \in Seq(Word) OBVIOUS
<1>1. \A i \in 1 .. Len(p) : p[i] \in Word BY DEF Word
<1>2. Len(p) \in Nat /\ p = [i \in 1 .. Len(p) |-> p[i]] OBVIOUS
<1> QED BY <1>1, <1>2, SeqDef

LEMMA CleanAre == ASSUME NEW p, P!Clean(p) PROVE CleanPath(p)
BY StringsAreWords DEF CleanPath, P!Clean

LEMMA PagesAre ==
    /\ Mount \in Seq(Word)
    /\ \A v \in Visits : v \in Seq(Word)
    /\ \A p \in PageFolder \cup PageFile : CleanPath(p)
    /\ Name \in STRING /\ Name \in Word
BY InstanceAssumption, StringsAreWords, CleanAre DEF P!PagesBounds, Word

LEMMA EntryIs ==
    ASSUME NEW r, RouteIs(r)
    PROVE  /\ P!Entry(r) \in Place
           /\ P!Entry(r).dir = r.dir
           /\ P!Entry(r).at = P!WithBasePath(P!RoutePath(r))
           /\ P!ReadRoute(P!Entry(r)) = P!ParseRoute(P!RoutePath(r), r.dir, P!Entry(r).edit)
<1>1. P!RoutePath(r) \in Seq(Word) BY PathIs
<1>2. /\ P!WithBasePath(P!RoutePath(r)) \in Seq(Word)
      /\ P!WithoutBasePath(P!WithBasePath(P!RoutePath(r))) = P!RoutePath(r)
  BY <1>1, PagesAre, MountIsTaken
<1>3. P!Entry(r).dir = r.dir /\ P!Entry(r).at = P!WithBasePath(P!RoutePath(r))
  BY DEF P!Entry
<1>4. (r.page = "viewer" /\ r.edit) \in BOOLEAN OBVIOUS
<1>5. P!Entry(r) \in Place
  BY <1>2, <1>4 DEF P!Entry, Place, RouteIs, CleanPath
<1>6. P!ReadRoute(P!Entry(r)) = P!ParseRoute(P!RoutePath(r), r.dir, P!Entry(r).edit)
  BY <1>2, <1>3 DEF P!ReadRoute
<1> QED BY <1>3, <1>5, <1>6

LEMMA ReadIs ==
    ASSUME NEW e \in Place
    PROVE  RouteIs(P!ReadRoute(e))
<1>1. P!WithoutBasePath(e.at) \in Seq(Word)
  <2> DEFINE at == e.at
             m == Len(Mount)
  <2>1. at \in Seq(Word) /\ m \in Nat BY PagesAre, LenProperties DEF Place
  <2> HIDE DEF at, m
  <2>2. Len(at) \in Int /\ m + 1 \in Int /\ \A i \in m + 1 .. Len(at) : at[i] \in Word BY <2>1
  <2>3. SubSeq(at, m + 1, Len(at)) \in Seq(Word) BY <2>2, SubSeqProperties
  <2>4. <<>> \in Seq(Word) BY EmptySeq
  <2> QED BY <2>3, <2>4 DEF P!WithoutBasePath, at, m
<1>2. CleanPath(e.dir) \/ e.dir = P!NoDir BY DEF Place
<1> QED BY <1>1, <1>2, ParseIs DEF P!ReadRoute

\* What is read back of what was modes for.
LEMMA EntryKeeps ==
    ASSUME NEW r, RouteIs(r), P!ReadRoute(P!Entry(r)).page \in OverFolder
    PROVE  \/ r.page \in OverFolder /\ P!ReadRoute(P!Entry(r)).dir = r.dir
           \/ /\ r.page = "files"
              /\ P!IsReservedPath(P!Entry(r).dir)
              /\ P!Entry(r).at = P!WithBasePath(P!Entry(r).dir)
<1> DEFINE x == P!ReadRoute(P!Entry(r))
           e == P!Entry(r).edit
<1>1. x = P!ParseRoute(P!RoutePath(r), r.dir, e) BY EntryIs
<1>2. CASE r.page = "files"
  <2>1. P!RoutePath(r) = r.dir BY <1>2, CleanIsNormal DEF P!RoutePath, RouteIs
  <2>2. CASE P!IsReservedPath(r.dir) BY <1>2, <2>1, <2>2, EntryIs
  <2>3. CASE ~P!IsReservedPath(r.dir)
    <3>1. P!RoutePath(P!Files(r.dir)) = r.dir
      BY CleanIsNormal DEF P!RoutePath, P!Files, P!Route, RouteIs
    <3>2. x = P!Files(r.dir) BY <1>1, <2>1, <2>3, <3>1, FolderReadBack DEF RouteIs
    <3>3. x.page = "files" BY <3>2 DEF P!Files, P!Route
    <3> QED BY <3>3 DEF OverFolder
  <2> QED BY <2>2, <2>3
<1>3. CASE r.page # "files"
  <2>1. CASE P!MatchRoute(P!RoutePath(r), r.dir, e) = {}
    <3>1. x = P!Files(<<>>) BY <1>1, <2>1 DEF P!ParseRoute
    <3> QED BY <3>1 DEF P!Files, P!Route, OverFolder
  <2>2. CASE P!MatchRoute(P!RoutePath(r), r.dir, e) # {}
    <3>1. x \in P!MatchRoute(P!RoutePath(r), r.dir, e) BY <1>1, <2>2 DEF P!ParseRoute
    <3>2. x.page = r.page /\ x.dir = r.dir BY <1>3, <3>1, MatchKeeps
    <3> QED BY <3>2
  <2> QED BY <2>1, <2>2
<1> QED BY <1>2, <1>3

LEMMA AuthIs ==
    ASSUME NEW d, CleanPath(d), NEW mode \in {"login", "setup"}
    PROVE  RouteIs(P!Auth(mode, d)) /\ P!Auth(mode, d).page = "auth"
<1>1. mode \in Word BY WordsAre
<1>2. <<mode>> \in Seq(Word) BY <1>1
<1>3. <<mode>> \in {<<"login">>, <<"setup">>} OBVIOUS
<1> QED BY <1>2, <1>3 DEF RouteIs, P!Auth, P!Route

\* What a step that shows entry i of s leaves.
LEMMA Committing ==
    ASSUME NEW s \in Seq(Place), NEW i \in 1 .. Len(s), NEW m, P!Commit(s, i, m)
    PROVE  /\ Routed'
           /\ here' = i
           /\ stack' = s \/ route'.page \notin OverFolder
           /\ {mode \in P!Redirects(m, P!ReadRoute(s[i])) : P!Known(m)} = {} => stack' = s
<1> DEFINE r == P!ReadRoute(s[i])
           modes == {mode \in P!Redirects(m, r) : P!Known(m)}
<1>1. /\ stack' = IF modes = {} THEN s
                  ELSE [s EXCEPT ![i] = P!Entry(P!Auth(CHOOSE mode \in modes : TRUE, r.dir))]
      /\ here' = i /\ route' = P!ReadRoute(stack'[i])
  BY DEF P!Commit
<1>2. CASE modes = {}
  BY <1>1, <1>2 DEF Routed
<1>3. CASE modes # {}
  <2> DEFINE mode == CHOOSE y \in modes : TRUE
             e == P!Entry(P!Auth(mode, r.dir))
  <2>1. mode \in modes BY <1>3
  <2>2. mode \in {"login", "setup"} BY <2>1 DEF P!Redirects
  <2>3. s[i] \in Place OBVIOUS
  <2>4. CleanPath(r.dir) BY <2>3, ReadIs DEF RouteIs
  <2>5. RouteIs(P!Auth(mode, r.dir)) /\ P!Auth(mode, r.dir).page = "auth"
    BY <2>2, <2>4, AuthIs
  <2>6. stack' = [s EXCEPT ![i] = e] BY <1>1, <1>3
  <2>7. e \in Place BY <2>5, EntryIs
  <2>8. P!ReadRoute(e).page \notin OverFolder BY <2>5, EntryKeeps DEF OverFolder
  <2> HIDE DEF e, mode, modes
  <2>9. stack' \in Seq(Place) /\ Len(stack') = Len(s) /\ stack'[i] = e BY <2>6, <2>7
  <2> QED BY <1>1, <1>3, <2>8, <2>9 DEF Routed, modes
<1> QED BY <1>2, <1>3

Kept ==
    /\ CleanPath(submit.dir)
    /\ CleanPath(parting.dir)
    /\ making.path \in Seq(Word)

PathsInv == Routed /\ Kept

LEMMA Replacing ==
    ASSUME Routed, NEW r, RouteIs(r), r.page \in OverFolder => r.dir = route.dir, P!Replace(r)
    PROVE  Routed' /\ FolderKept
<1> DEFINE s == [stack EXCEPT ![here] = P!Entry(r)]
<1>1. P!Entry(r) \in Place BY EntryIs
<1>2. s \in Seq(Place) /\ here \in 1 .. Len(s) /\ s[here] = P!Entry(r) BY <1>1 DEF Routed
<1>3. P!Commit(s, here, me) BY DEF P!Replace
<1> HIDE DEF s
<1>4. Routed' /\ here' = here /\ (stack' = s \/ route'.page \notin OverFolder)
  BY <1>2, <1>3, Committing
<1>5. ASSUME stack' = s, route'.page \in OverFolder
      PROVE  \/ route'.dir = route.dir
             \/ LET e == stack'[here'] IN P!IsReservedPath(e.dir) /\ e.at = P!WithBasePath(e.dir)
  <2>1. stack'[here'] = P!Entry(r) /\ route' = P!ReadRoute(P!Entry(r))
    BY <1>2, <1>4, <1>5 DEF Routed
  <2> QED BY <1>5, <2>1, EntryKeeps
<1> QED BY <1>4, <1>5 DEF FolderKept

LEMMA Pushing ==
    ASSUME Routed, NEW r, RouteIs(r), r.page \in OverFolder => r.dir = route.dir, P!Push(r)
    PROVE  Routed' /\ FolderKept
<1> DEFINE s == Append(SubSeq(stack, 1, here), P!Entry(r))
           i == here + 1
<1>1. P!Entry(r) \in Place BY EntryIs
<1>2. s \in Seq(Place) /\ i \in 1 .. Len(s) /\ s[i] = P!Entry(r)
  <2>0. here \in Nat /\ Len(stack) \in Nat /\ here \in 1 .. Len(stack) /\ stack \in Seq(Place)
    BY DEF Routed
  <2>1. SubSeq(stack, 1, here) \in Seq(Place) /\ Len(SubSeq(stack, 1, here)) = here
    <3>1. 1 \in Int /\ here \in Int /\ \A j \in 1 .. here : stack[j] \in Place BY <2>0
    <3> QED BY <2>0, <3>1, SubSeqProperties
  <2> DEFINE t == SubSeq(stack, 1, here)
  <2> HIDE DEF t
  <2>2. t \in Seq(Place) /\ Len(t) = here BY <2>1 DEF t
  <2>3. /\ Append(t, P!Entry(r)) \in Seq(Place)
        /\ Len(Append(t, P!Entry(r))) = Len(t) + 1
        /\ Append(t, P!Entry(r))[Len(t) + 1] = P!Entry(r)
    BY <1>1, <2>2, Appended
  <2> QED BY <2>0, <2>2, <2>3 DEF t
<1>3. P!Commit(s, i, me) BY DEF P!Push
<1> HIDE DEF s, i
<1>4. Routed' /\ here' = i /\ (stack' = s \/ route'.page \notin OverFolder)
  BY <1>2, <1>3, Committing
<1>5. ASSUME stack' = s, route'.page \in OverFolder
      PROVE  \/ route'.dir = route.dir
             \/ LET e == stack'[here'] IN P!IsReservedPath(e.dir) /\ e.at = P!WithBasePath(e.dir)
  <2>1. stack'[here'] = P!Entry(r) /\ route' = P!ReadRoute(P!Entry(r))
    BY <1>2, <1>4, <1>5 DEF Routed
  <2> QED BY <1>5, <2>1, EntryKeeps
<1> QED BY <1>4, <1>5 DEF FolderKept

LEMMA Linking ==
    ASSUME Routed, NEW r, RouteIs(r), r.page # "files", r.dir = route.dir, P!FollowLink(r)
    PROVE  Routed' /\ FolderKept
<1> DEFINE found == P!MatchRoute(P!RoutePath(r), route.dir, FALSE)
           x == CHOOSE y \in found : TRUE
<1>1. found # {} /\ P!Push(x) BY DEF P!FollowLink
<1>2. x \in found BY <1>1
<1>3. P!RoutePath(r) \in Seq(Word) /\ CleanPath(r.dir) BY PathIs DEF RouteIs
<1> HIDE DEF x
<1>4. RouteIs(x) /\ x.dir = route.dir BY <1>2, <1>3, MatchIs, MatchKeeps
<1> QED BY <1>1, <1>4, Pushing

LEMMA Popping ==
    ASSUME Routed, NEW i \in 1 .. Len(stack), NEW m, P!Commit(stack, i, m)
    PROVE  Routed' /\ FolderKept
<1>1. stack \in Seq(Place) BY DEF Routed
<1>2. Routed' /\ (stack' = stack \/ route'.page \notin OverFolder)
  BY <1>1, Committing
<1> QED BY <1>2 DEF FolderKept

LEMMA RouteIsRead == ASSUME Routed PROVE RouteIs(route) /\ CleanPath(route.dir)
<1>1. stack[here] \in Place BY DEF Routed
<1> QED BY <1>1, ReadIs DEF Routed, RouteIs

LEMMA ViewersAre ==
    ASSUME NEW d, CleanPath(d), NEW f \in Seq(Word), NEW e
    PROVE  RouteIs(P!Viewer(f, d, e)) /\ P!Viewer(f, d, e).dir = d
BY DEF P!Viewer, P!Route, RouteIs

\* The routes the screens ask for.
LEMMA RoutesAre ==
    ASSUME NEW d, CleanPath(d)
    PROVE  /\ RouteIs(P!Files(d)) /\ P!Files(d).page = "files"
           /\ \A kind \in {"dir", "file"} : /\ RouteIs(P!Create(kind, d))
                                            /\ P!Create(kind, d).page = "create"
                                            /\ P!Create(kind, d).dir = d
           /\ \A tab \in P!Tab : RouteIs(P!Settings(tab, d)) /\ P!Settings(tab, d).dir = d
           /\ /\ RouteIs(P!Auth("login", d))
              /\ P!Auth("login", d).page = "auth"
              /\ P!Auth("login", d).dir = d
<1> USE DEF P!Route, RouteIs
<1>1. <<>> \in Seq(Word) /\ \A w \in Word : <<w>> \in Seq(Word) OBVIOUS
<1>2. RouteIs(P!Files(d)) /\ P!Files(d).page = "files" BY <1>1 DEF P!Files
<1>4. ASSUME NEW kind \in {"dir", "file"}
      PROVE  /\ RouteIs(P!Create(kind, d))
             /\ P!Create(kind, d).page = "create"
             /\ P!Create(kind, d).dir = d
  <2>1. <<kind>> \in Seq(Word) BY <1>1, WordsAre
  <2> QED BY <2>1 DEF P!Create
<1>5. ASSUME NEW tab \in P!Tab
      PROVE  RouteIs(P!Settings(tab, d)) /\ P!Settings(tab, d).dir = d
  <2>1. <<tab>> \in Seq(Word) BY <1>1, WordsAre
  <2> QED BY <2>1 DEF P!Settings
<1>6. /\ RouteIs(P!Auth("login", d))
      /\ P!Auth("login", d).page = "auth"
      /\ P!Auth("login", d).dir = d
  <2>1. <<"login">> \in Seq(Word) BY <1>1, WordsAre
  <2> QED BY <2>1 DEF P!Auth
<1> QED BY <1>2, <1>4, <1>5, <1>6

LEMMA BrowseMoves == ASSUME PathsInv, P!Browse PROVE PathsInv' /\ FolderKept
<1>0. Routed /\ RouteIs(route) /\ CleanPath(route.dir) BY RouteIsRead DEF PathsInv
<1>1. Kept' BY DEF PathsInv, Kept, P!Browse, P!Requests
<1> SUFFICES Routed' /\ FolderKept BY <1>1 DEF PathsInv
<1>2. /\ RouteIs(P!Files(route.dir)) /\ P!Files(route.dir).page \notin OverFolder
      /\ \A d \in PageFolder : RouteIs(P!Files(d)) /\ P!Files(d).page \notin OverFolder
  BY <1>0, RoutesAre, PagesAre DEF OverFolder
<1>3. ASSUME NEW d \in PageFolder, P!NavigateToDirectory(d) \/ P!FollowCrumb(d)
      PROVE  Routed' /\ FolderKept
  <2>1. P!Replace(P!Files(d)) \/ P!Push(P!Files(d))
    BY <1>3 DEF P!NavigateToDirectory, P!FollowCrumb
  <2> QED BY <1>0, <1>2, <2>1, Replacing, Pushing
<1>4. ASSUME NEW f \in PageFile, P!OpenFile(f) PROVE Routed' /\ FolderKept
  <2>1. f \in Seq(Word) BY PagesAre DEF CleanPath
  <2>2. P!Push(P!Viewer(f, route.dir, FALSE)) BY <1>4 DEF P!OpenFile
  <2>3. RouteIs(P!Viewer(f, route.dir, FALSE)) /\ P!Viewer(f, route.dir, FALSE).dir = route.dir
    BY <1>0, <2>1, ViewersAre
  <2> QED BY <1>0, <2>2, <2>3, Pushing
<1>5. ASSUME P!Close \/ P!LeaveSignIn PROVE Routed' /\ FolderKept
  BY <1>0, <1>2, <1>5, Replacing DEF P!Close, P!LeaveSignIn
<1>6. ASSUME NEW kind \in {"dir", "file"}, P!OpenCreate(kind) PROVE Routed' /\ FolderKept
  <2>1. P!FollowLink(P!Create(kind, route.dir)) BY <1>6 DEF P!OpenCreate
  <2>2. /\ RouteIs(P!Create(kind, route.dir))
        /\ P!Create(kind, route.dir).page # "files"
        /\ P!Create(kind, route.dir).dir = route.dir
    BY <1>0, RoutesAre
  <2> QED BY <1>0, <2>1, <2>2, Linking
<1>7. ASSUME P!OpenSignIn PROVE Routed' /\ FolderKept
  <2>1. P!FollowLink(P!Auth("login", route.dir)) BY <1>7 DEF P!OpenSignIn
  <2>2. /\ RouteIs(P!Auth("login", route.dir))
        /\ P!Auth("login", route.dir).page # "files"
        /\ P!Auth("login", route.dir).dir = route.dir
    BY <1>0, RoutesAre
  <2> QED BY <1>0, <2>1, <2>2, Linking
<1>8. ASSUME NEW tab \in P!Tab, P!Replace(P!Settings(tab, route.dir)) PROVE Routed' /\ FolderKept
  <2>1. RouteIs(P!Settings(tab, route.dir)) /\ P!Settings(tab, route.dir).dir = route.dir
    BY <1>0, RoutesAre
  <2> QED BY <1>0, <1>8, <2>1, Replacing
<1>9. ASSUME P!OpenSettings \/ \E tab \in P!Tab : P!ChangeTab(tab) PROVE Routed' /\ FolderKept
  <2>1. "profile" \in P!Tab BY DEF P!Tab
  <2> QED BY <1>8, <1>9, <2>1 DEF P!OpenSettings, P!ChangeTab
<1>10. ASSUME NEW i, P!PopState(i) PROVE Routed' /\ FolderKept
  <2>1. i \in 1 .. Len(stack) /\ P!Commit(stack, i, me) BY <1>10 DEF P!PopState
  <2> QED BY <1>0, <2>1, Popping
<1> QED BY <1>3, <1>4, <1>5, <1>6, <1>7, <1>9, <1>10 DEF P!Browse

LEMMA AnswersMove ==
    ASSUME PathsInv, P!MeArrives \/ P!Land \/ P!SignedOut \/ P!CreateAnswered \/ P!Unauthorized
    PROVE  PathsInv' /\ FolderKept
<1>0. Routed /\ RouteIs(route) /\ CleanPath(route.dir) BY RouteIsRead DEF PathsInv
<1>r. CleanPath(<<>>) /\ <<>> \in Seq(Word) BY RootIsClean DEF CleanPath
<1>1. CASE P!MeArrives
  <2>1. Kept' BY <1>1 DEF PathsInv, Kept, P!MeArrives
  <2>2. P!Commit(stack, here, reading.me) /\ here \in 1 .. Len(stack)
    BY <1>0, <1>1 DEF P!MeArrives, Routed
  <2> QED BY <1>0, <2>1, <2>2, Popping DEF PathsInv
<1>2. CASE P!Land
  <2>1. Kept' BY <1>2, <1>r DEF PathsInv, Kept, P!Land, P!NoSubmit
  <2>2. RouteIs(P!Files(submit.dir)) /\ P!Files(submit.dir).page \notin OverFolder
    BY RoutesAre DEF PathsInv, Kept, OverFolder
  <2> QED BY <1>0, <1>2, <2>1, <2>2, Replacing DEF PathsInv, P!Land
<1>3. CASE P!SignedOut
  <2>1. Kept' BY <1>3, <1>r DEF PathsInv, Kept, P!SignedOut, P!NoParting
  <2>2. RouteIs(P!Files(parting.dir)) /\ P!Files(parting.dir).page \notin OverFolder
    BY RoutesAre DEF PathsInv, Kept, OverFolder
  <2> QED BY <1>0, <1>3, <2>1, <2>2, Replacing DEF PathsInv, P!SignedOut
<1>4. CASE P!CreateAnswered
  <2>1. Kept' BY <1>4, <1>r DEF PathsInv, Kept, P!CreateAnswered, P!NoMaking
  <2>2. RouteIs(P!Files(route.dir)) /\ P!Files(route.dir).page \notin OverFolder
    BY <1>0, RoutesAre DEF OverFolder
  <2>5. /\ RouteIs(P!Viewer(making.path, route.dir, TRUE))
        /\ P!Viewer(making.path, route.dir, TRUE).dir = route.dir
    BY <1>0, ViewersAre DEF PathsInv, Kept
  <2>3. CASE UNCHANGED <<stack, here, route, me>>
    BY <1>0, <2>1, <2>3 DEF PathsInv, Routed, FolderKept
  <2>4. CASE P!Replace(P!Files(route.dir)) \/ P!Replace(P!Viewer(making.path, route.dir, TRUE))
    <3>1. Routed' /\ FolderKept BY <1>0, <2>2, <2>4, <2>5, Replacing
    <3> QED BY <2>1, <3>1 DEF PathsInv
  <2> QED BY <1>4, <2>3, <2>4 DEF P!CreateAnswered
<1>5. CASE P!Unauthorized
  <2>1. Kept' BY <1>5 DEF PathsInv, Kept, P!Unauthorized, P!Requests
  <2>2. RouteIs(P!Auth("login", route.dir)) /\ P!Auth("login", route.dir).dir = route.dir
    BY <1>0, RoutesAre
  <2> QED BY <1>0, <1>5, <2>1, <2>2, Pushing DEF PathsInv, P!Unauthorized
<1> QED BY <1>1, <1>2, <1>3, <1>4, <1>5

LEMMA OpenedIs ==
    ASSUME NEW e \in Place
    PROVE  P!Opened(e) \in Place /\ (P!Opened(e) = e \/ P!Opened(e) = P!Entry(P!ReadRoute(e)))
BY ReadIs, EntryIs DEF P!Opened

LEMMA ReloadMoves == ASSUME PathsInv, P!Reload PROVE PathsInv' /\ FolderKept
<1>0. Routed /\ RouteIs(route) BY RouteIsRead DEF PathsInv
<1>r. CleanPath(<<>>) /\ <<>> \in Seq(Word) BY RootIsClean DEF CleanPath
<1>1. Kept' BY <1>r DEF PathsInv, Kept, P!Reload, P!NoSubmit, P!NoParting, P!NoMaking
<1> DEFINE e == P!Opened(stack[here])
<1>2. stack' = [stack EXCEPT ![here] = e] /\ here' = here /\ route' = P!ReadRoute(stack'[here])
  BY DEF P!Reload
<1>3. stack[here] \in Place BY <1>0 DEF Routed
<1>4. e \in Place /\ (e = stack[here] \/ e = P!Entry(route)) BY <1>0, <1>3, OpenedIs DEF Routed
<1> HIDE DEF e
<1>5. stack' \in Seq(Place) /\ Len(stack') = Len(stack) /\ stack'[here] = e
  BY <1>0, <1>2, <1>4 DEF Routed
<1>6. Routed' BY <1>0, <1>2, <1>5 DEF Routed
<1>7. FolderKept
  <2>1. CASE e = stack[here]
    <3>1. stack' = stack BY <1>0, <1>2, <2>1 DEF Routed
    <3> QED BY <3>1 DEF FolderKept
  <2>2. CASE e = P!Entry(route)
    <3>1. route' = P!ReadRoute(P!Entry(route)) /\ stack'[here'] = P!Entry(route)
      BY <1>2, <1>5, <2>2
    <3> QED BY <1>0, <3>1, EntryKeeps DEF FolderKept
  <2> QED BY <1>4, <2>1, <2>2
<1> QED BY <1>1, <1>6, <1>7 DEF PathsInv

LEMMA OthersStay ==
    ASSUME PathsInv, PagesRecords,
           \/ P!Refresh \/ P!ServeMe \/ P!MeFails
           \/ P!Submit \/ P!ServeSubmit \/ P!SubmitAnswered \/ P!SubmitFails
           \/ P!SignOut \/ P!ServeSignOut \/ P!SignOutFails
           \/ P!SubmitCreate \/ P!SessionEnds \/ P!PolicyChanges
    PROVE  PathsInv' /\ FolderKept
<1>0. Routed /\ RouteIs(route) /\ CleanPath(route.dir) BY RouteIsRead DEF PathsInv
<1>r. CleanPath(<<>>) /\ <<>> \in Seq(Word) BY RootIsClean DEF CleanPath
<1>1. UNCHANGED <<stack, here, route>>
  BY DEF P!Refresh, P!ServeMe, P!MeFails, P!Submit, P!ServeSubmit, P!SubmitAnswered,
     P!SubmitFails, P!SignOut, P!ServeSignOut, P!SignOutFails, P!SubmitCreate,
     P!SessionEnds, P!PolicyChanges
<1>2. Routed' /\ FolderKept BY <1>0, <1>1 DEF Routed, FolderKept
<1>3. CASE P!Refresh \/ P!ServeMe \/ P!MeFails \/ P!SessionEnds \/ P!PolicyChanges
  <2>1. UNCHANGED <<submit, parting, making>>
    BY <1>3 DEF P!Refresh, P!ServeMe, P!MeFails, P!SessionEnds, P!PolicyChanges
  <2> QED BY <1>2, <2>1 DEF PathsInv, Kept
<1>4. CASE P!Submit
  BY <1>0, <1>2, <1>4 DEF PathsInv, Kept, P!Submit
<1>5. CASE P!ServeSubmit
  <2>1. UNCHANGED <<parting, making>> /\ \E v : submit' = [submit EXCEPT !.step = v]
    BY <1>5 DEF P!ServeSubmit
  <2> QED BY <1>2, <2>1 DEF PathsInv, Kept
<1>6. CASE P!SubmitAnswered
  <2>1. /\ UNCHANGED <<parting, making>>
        /\ submit' = P!NoSubmit \/ submit' = [submit EXCEPT !.step = "reading"]
    BY <1>6 DEF P!SubmitAnswered
  <2>2. submit'.dir = <<>> \/ submit'.dir = submit.dir
    BY <2>1 DEF PagesRecords, P!NoSubmit
  <2>3. CleanPath(submit'.dir) BY <1>r, <2>2 DEF PathsInv, Kept
  <2> QED BY <1>2, <2>1, <2>3 DEF PathsInv, Kept
<1>7. CASE P!SubmitFails \/ P!SignOutFails
  BY <1>2, <1>7, <1>r DEF PathsInv, Kept, P!SubmitFails, P!SignOutFails, P!NoSubmit, P!NoParting
<1>8. CASE P!SignOut \/ P!ServeSignOut
  <2>1. UNCHANGED <<submit, making>> /\ (parting'.dir = route.dir \/ parting'.dir = parting.dir)
    BY <1>8 DEF PagesRecords, P!SignOut, P!ServeSignOut
  <2> QED BY <1>0, <1>2, <2>1 DEF PathsInv, Kept
<1>9. CASE P!SubmitCreate
  <2>1. Append(route.dir, Name) \in Seq(Word)
    <3>1. route.dir \in Seq(Word) /\ Name \in Word BY <1>0, PagesAre DEF CleanPath
    <3> QED BY <3>1, Appended
  <2> QED BY <1>2, <1>9, <2>1 DEF PathsInv, Kept, P!SubmitCreate
<1> QED BY <1>3, <1>4, <1>5, <1>6, <1>7, <1>8, <1>9

LEMMA PathsStart == ASSUME P!Init PROVE PathsInv
<1>r. CleanPath(<<>>) /\ <<>> \in Seq(Word) BY RootIsClean DEF CleanPath
<1>1. Kept BY <1>r DEF P!Init, Kept, P!NoSubmit, P!NoParting, P!NoMaking
<1>2. PICK v \in Visits :
        stack = <<P!Opened([at |-> P!WithBasePath(v), dir |-> P!NoDir, edit |-> FALSE])>>
  BY DEF P!Init
<1> DEFINE e == [at |-> P!WithBasePath(v), dir |-> P!NoDir, edit |-> FALSE]
           o == P!Opened(e)
<1>3. e \in Place
  <2>1. P!WithBasePath(v) \in Seq(Word) BY PagesAre, MountIsTaken
  <2>2. P!NoDir \in Seq(Word)
    <3>1. "" \in Word BY WordsAre
    <3> QED BY <3>1, OneIsSeq DEF P!NoDir
  <2> QED BY <2>1, <2>2 DEF Place
<1>4. o \in Place BY <1>3, OpenedIs
<1>5. stack = <<o>> BY <1>2
<1> HIDE DEF o
<1>6. stack \in Seq(Place) /\ Len(stack) = 1 BY <1>4, <1>5
<1> QED BY <1>1, <1>6 DEF P!Init, PathsInv, Routed

LEMMA PathsKeep == ASSUME PathsInv, PagesRecords, [P!Next]_(P!vars) PROVE PathsInv' /\ FolderKept
<1>1. CASE UNCHANGED P!vars
  BY <1>1 DEF PathsInv, Routed, Kept, FolderKept, P!vars
<1> QED BY <1>1, BrowseMoves, AnswersMove, ReloadMoves, OthersStay DEF P!Next, P!Answers

\* Whoever has signed in has an account, and the form is one of two.
Accounted ==
    /\ submit.step # "none" => submit.kind \in {"login", "setup"}
    /\ session # "none" \/ submit.step \in {"accepted", "reading"} => backend.initialized

LEMMA AccountsStay ==
    ASSUME PagesInv, PagesRecords, PathsInv, Accounted, [P!Next]_(P!vars)
    PROVE  Accounted'
<1>0. backend \in Server BY DEF PagesInv, PagesFrame
<1>1. CASE P!Browse \/ P!Unauthorized
  BY <1>1 DEF Accounted, P!Browse, P!Unauthorized, P!Requests
<1>2. CASE \/ P!Refresh \/ P!SignOut \/ P!SubmitCreate \/ P!ServeMe \/ P!MeArrives \/ P!MeFails
           \/ P!SignedOut \/ P!SignOutFails \/ P!CreateAnswered
  <2>1. UNCHANGED <<submit, session, backend>>
    BY <1>2 DEF P!Refresh, P!SignOut, P!SubmitCreate, P!ServeMe, P!MeArrives, P!MeFails,
       P!SignedOut, P!SignOutFails, P!CreateAnswered
  <2> QED BY <2>1 DEF Accounted
<1>3. CASE P!Submit
  <2>1. RouteIs(route) /\ route.page = "auth"
    BY <1>3, RouteIsRead DEF PathsInv, P!Submit, P!AtAuth
  <2>2. route.arg \in {<<"login">>, <<"setup">>} BY <2>1 DEF RouteIs
  <2>3. \A a \in {<<"login">>, <<"setup">>} : a[1] \in {"login", "setup"} OBVIOUS
  <2>4. route.arg[1] \in {"login", "setup"} BY <2>2, <2>3
  <2>5. /\ submit' = [kind |-> route.arg[1], step |-> "sent", dir |-> route.dir]
        /\ UNCHANGED <<session, backend>>
    BY <1>3 DEF P!Submit
  <2> QED BY <2>4, <2>5 DEF Accounted
<1>4. CASE P!ServeSubmit
  <2>1. PICK verdict \in {"accepted", "refused"} :
          /\ verdict = "accepted" =>
                ~backend.insecure /\ (submit.kind = "login" <=> backend.initialized)
          /\ submit' = [submit EXCEPT !.step = verdict]
          /\ backend' = [backend EXCEPT !.initialized =
                            @ \/ (submit.kind = "setup" /\ verdict = "accepted")]
    BY <1>4 DEF P!ServeSubmit
  <2>2. session' = session /\ submit.step = "sent" BY <1>4 DEF P!ServeSubmit
  <2>3. submit'.kind = submit.kind /\ submit'.step = verdict BY <2>1 DEF PagesRecords
  <2>4. submit.kind \in {"login", "setup"} BY <2>2 DEF Accounted
  <2>5. backend'.initialized = (backend.initialized \/ (submit.kind = "setup" /\ verdict = "accepted"))
    BY <1>0, <2>1 DEF Server
  <2>6. verdict = "accepted" => backend'.initialized BY <2>1, <2>4, <2>5
  <2>7. backend.initialized => backend'.initialized BY <2>5
  <2> QED BY <2>2, <2>3, <2>4, <2>6, <2>7 DEF Accounted
<1>5. CASE P!SubmitAnswered \/ P!SubmitFails \/ P!Land \/ P!Reload
  <2>1. CASE submit' = P!NoSubmit /\ UNCHANGED <<session, backend>>
    BY <2>1 DEF Accounted, P!NoSubmit
  <2>2. CASE /\ submit' = [submit EXCEPT !.step = "reading"] /\ backend' = backend
             /\ submit.step = "accepted"
    <3>1. submit'.kind = submit.kind /\ submit'.step = "reading" BY <2>2 DEF PagesRecords
    <3> QED BY <2>2, <3>1 DEF Accounted
  <2> QED BY <1>5, <2>1, <2>2 DEF P!SubmitAnswered, P!SubmitFails, P!Land, P!Reload
<1>6. CASE P!ServeSignOut \/ P!SessionEnds
  <2>1. session' = "none" /\ UNCHANGED <<submit, backend>>
    BY <1>6 DEF P!ServeSignOut, P!SessionEnds
  <2> QED BY <2>1 DEF Accounted
<1>7. CASE P!PolicyChanges
  <2>1. UNCHANGED <<submit, session>> /\ \E p : backend' = [backend EXCEPT !.policy = p]
    BY <1>7 DEF P!PolicyChanges
  <2>2. backend'.initialized = backend.initialized BY <1>0, <2>1 DEF Server
  <2> QED BY <2>1, <2>2 DEF Accounted
<1>8. CASE UNCHANGED P!vars
  BY <1>8 DEF Accounted, P!vars
<1> QED BY <1>1, <1>2, <1>3, <1>4, <1>5, <1>6, <1>7, <1>8 DEF P!Next, P!Answers

\* At the end of a sign-in no guard has anything to ask for.
LEMMA LandingSticks ==
    ASSUME PagesInv, PathsInv, Accounted,
           P!Land, ~unheard, session # "none", ~P!IsReservedPath(submit.dir)
    PROVE  route'.page # "auth"
<1> DEFINE r == P!Files(submit.dir)
           e == P!Entry(r)
           s == [stack EXCEPT ![here] = e]
<1>1. submit.step = "reading" /\ reading.step = "idle" /\ P!Replace(r) BY DEF P!Land
<1>2. CleanPath(submit.dir) /\ RouteIs(r) BY RoutesAre DEF PathsInv, Kept
<1>3. e \in Place /\ P!ReadRoute(e) = P!ParseRoute(P!RoutePath(r), r.dir, e.edit)
  BY <1>2, EntryIs
<1>4. P!ReadRoute(e) = r
  <2>1. r.dir = submit.dir BY DEF P!Files, P!Route
  <2> QED BY <1>2, <1>3, <2>1, FolderReadBack
<1>5. P!Known(me) => P!Redirects(me, r) = {}
  <2> SUFFICES ASSUME P!Known(me) PROVE P!Redirects(me, r) = {} OBVIOUS
  <2>1. me = P!MeNow BY <1>1 DEF PagesInv, MeIsNow, UpToDate
  <2>2. backend.initialized BY DEF Accounted
  <2>3. me.insecure \/ me.user BY <2>1 DEF P!MeNow, P!Me
  <2>4. me.initialized BY <2>1, <2>2 DEF P!MeNow, P!Me
  <2> QED BY <2>3, <2>4 DEF P!Redirects, P!SignedIn
<1>6. P!Commit(s, here, me) BY <1>1 DEF P!Replace
<1> HIDE DEF e, r
<1>7. s \in Seq(Place) /\ here \in 1 .. Len(s) /\ s[here] = e
  BY <1>3 DEF PathsInv, Routed
<1> HIDE DEF s
<1>8. {mode \in P!Redirects(me, P!ReadRoute(s[here])) : P!Known(me)} = {}
  BY <1>4, <1>5, <1>7
<1>9. stack' = s /\ here' = here /\ Routed'
  BY <1>6, <1>7, <1>8, Committing
<1>10. route' = r BY <1>4, <1>7, <1>9 DEF Routed
<1> QED BY <1>10 DEF r, P!Files, P!Route

LEMMA PathsInvariance == P!Spec => [](PagesInv /\ PagesRecords /\ PathsInv /\ Accounted)
<1>1. P!Init => PathsInv /\ Accounted
  <2>1. P!Init => Accounted BY DEF P!Init, Accounted, P!NoSubmit
  <2> QED BY <2>1, PathsStart
<1>2. PagesInv /\ PagesRecords /\ PathsInv /\ Accounted /\ [P!Next]_(P!vars)
        => (PathsInv /\ Accounted)'
  BY PathsKeep, AccountsStay
<1> QED BY <1>1, <1>2, PagesInvariance, PTL DEF P!Spec

\* router.ts:81, routes.ts:81: what opens over a folder keeps it through the location it is
\* read back from, in every step of every history; AuthScreen.tsx:100: whoever signed in
\* is not sent back by the guards.
THEOREM RoutesAreKept == P!Spec => RouteIsKept
<1>1. PathsInv /\ PagesRecords /\ [P!Next]_(P!vars) =>
        [stack' # stack /\ route'.page \in {"viewer", "create", "settings"}
            => \/ route'.dir = route.dir
               \/ LET e == stack'[here']
                  IN  P!IsReservedPath(e.dir) /\ e.at = P!WithBasePath(e.dir)]_(P!vars)
  BY PathsKeep DEF FolderKept, OverFolder
<1>2. PagesInv /\ PathsInv /\ Accounted /\ [P!Next]_(P!vars) =>
        [P!Land /\ ~unheard /\ session # "none" /\ ~P!IsReservedPath(submit.dir)
            => route'.page # "auth"]_(P!vars)
  BY LandingSticks
<1>3. P!Spec => P!FolderStaysBehind
  BY <1>1, PathsInvariance, PTL DEF P!Spec, P!FolderStaysBehind
<1>4. P!Spec => P!SignInSticks
  BY <1>2, PathsInvariance, PTL DEF P!Spec, P!SignInSticks
<1> QED BY <1>3, <1>4 DEF RouteIsKept

-----------------------------------------------------------------------------
(* SettingsForms: the sizes *)

Sizes == Nat \ {0}

LEMMA Greatest ==
    ASSUME NEW n \in Nat, NEW S \in SUBSET (0 .. n), S # {}
    PROVE  F!Max(S) \in S /\ \A y \in S : F!Max(S) >= y
<1> DEFINE T == {n - i : i \in S}
<1>1. T \in SUBSET Nat /\ T # {}
  <2>1. \A i \in S : n - i \in Nat OBVIOUS
  <2>2. PICK i \in S : TRUE OBVIOUS
  <2>3. n - i \in T OBVIOUS
  <2> QED BY <2>1, <2>3
<1>2. PICK x \in T : \A y \in T : x <= y BY <1>1, Least
<1>3. PICK i \in S : x = n - i OBVIOUS
<1>4. \A y \in S : i >= y
  <2> TAKE y \in S
  <2>1. n - y \in T OBVIOUS
  <2>2. n - i <= n - y BY <1>2, <1>3, <2>1
  <2> QED BY <2>2
<1> QED BY <1>4 DEF F!Max

\* A rounded quotient is the number whose multiple is nearest.
LEMMA RoundDivIs ==
    ASSUME NEW a \in Nat, NEW b \in Sizes
    PROVE  /\ F!RoundDiv(a, b) \in Nat
           /\ 2 * (b * F!RoundDiv(a, b)) <= 2 * a + b
           /\ 2 * a < 2 * (b * F!RoundDiv(a, b)) + b
<1> DEFINE x == 2 * a + b
           y == 2 * b
           q == x \div y
<1>1. x \in Nat /\ y \in Nat /\ y > 0 BY DEF Sizes
<1> HIDE DEF x, y
<1>2. q \in Int /\ x = y * q + (x % y) /\ x % y \in 0 .. y - 1 BY <1>1
<1>3. q \in Nat BY <1>1
<1> HIDE DEF q
<1>4. y * q = 2 * (b * q) BY <1>3 DEF y, Sizes
<1> QED BY <1>2, <1>3, <1>4 DEF F!RoundDiv, q, x, y, Sizes

LEMMA RoundDivAt ==
    ASSUME NEW a \in Nat, NEW b \in Sizes, NEW q \in Nat,
           2 * (b * q) <= 2 * a + b, 2 * a < 2 * (b * q) + b
    PROVE  F!RoundDiv(a, b) = q
<1> DEFINE r == F!RoundDiv(a, b)
<1>1. r \in Nat /\ 2 * (b * r) <= 2 * a + b /\ 2 * a < 2 * (b * r) + b BY RoundDivIs
<1> HIDE DEF r
<1>2. ASSUME NEW i \in Nat, NEW j \in Nat, i < j PROVE b * i + b <= b * j
  <2>1. PICK k \in Nat : j = i + 1 + k
    <3>1. j - i - 1 \in Nat /\ j = i + 1 + (j - i - 1) BY <1>2
    <3> QED BY <3>1
  <2>2. b * j = b * i + b + b * k BY <2>1 DEF Sizes
  <2>3. b * k \in Nat /\ b * i \in Nat BY DEF Sizes
  <2> QED BY <2>2, <2>3 DEF Sizes
<1>3. b * r \in Nat /\ b * q \in Nat /\ b \in Nat BY <1>1 DEF Sizes
<1>4. ~(r < q)
  <2> SUFFICES ASSUME r < q PROVE FALSE OBVIOUS
  <2>1. b * r + b <= b * q BY <1>1, <1>2
  <2> QED BY <1>1, <1>3, <2>1
<1>5. ~(q < r)
  <2> SUFFICES ASSUME q < r PROVE FALSE OBVIOUS
  <2>1. b * q + b <= b * r BY <1>1, <1>2
  <2> QED BY <1>1, <1>3, <2>1
<1> QED BY <1>1, <1>4, <1>5 DEF r

-----------------------------------------------------------------------------
LEMMA BoundsAre == Base \in Nat /\ Base > 100 /\ Top \in Nat /\ Top > 0
BY InstanceAssumption DEF F!FormsBounds

LEMMA UnitsExist ==
    /\ F!UnitSize[0] = 1
    /\ \A i \in 1 .. Top : F!UnitSize[i] = Base * F!UnitSize[i - 1]
<1> DEFINE Solves(g, k) == /\ g \in [0 .. k -> Nat]
                           /\ g[0] = 1
                           /\ \A i \in 1 .. k : g[i] = Base * g[i - 1]
           S == {k \in 0 .. Top : \E g : Solves(g, k)}
<1>0. Top \in Nat /\ Base \in Nat BY BoundsAre
<1>1. 0 \in S
  <2>1. Solves([i \in 0 .. 0 |-> 1], 0) OBVIOUS
  <2>2. \E g : Solves(g, 0) BY <2>1
  <2> HIDE DEF Solves
  <2> QED BY <1>0, <2>2
<1>2. ASSUME NEW i \in 1 .. Top, i - 1 \in S PROVE i \in S
  <2>1. PICK g : Solves(g, i - 1) BY <1>2
  <2> DEFINE x == Base * g[i - 1]
             h == [j \in 0 .. i |-> IF j = i THEN x ELSE g[j]]
  <2>2. x \in Nat
    <3>1. i - 1 \in 0 .. i - 1 BY <1>0
    <3>2. g[i - 1] \in Nat BY <2>1, <3>1
    <3> QED BY <1>0, <3>2
  <2>3. h \in [0 .. i -> Nat] /\ h[0] = 1
    <3> HIDE DEF x
    <3> QED BY <1>0, <2>1, <2>2
  <2>4. ASSUME NEW j \in 1 .. i PROVE h[j] = Base * h[j - 1]
    <3>1. j \in 0 .. i /\ j - 1 \in 0 .. i /\ j - 1 # i BY <1>0
    <3>2. CASE j = i BY <3>1, <3>2
    <3>3. CASE j # i
      <4>1. j \in 1 .. i - 1 BY <1>0, <3>3
      <4>2. h[j] = g[j] /\ h[j - 1] = g[j - 1] BY <3>1, <3>3
      <4> QED BY <2>1, <4>1, <4>2
    <3> QED BY <3>2, <3>3
  <2>5. \E f : Solves(f, i) BY <2>3, <2>4
  <2> HIDE DEF Solves
  <2> QED BY <1>0, <2>5
<1>3. PICK g : Solves(g, Top)
  <2> HIDE DEF Solves
  <2>1. 0 \in S /\ \A i \in 1 .. Top : i - 1 \in S => i \in S BY <1>1, <1>2
  <2> HIDE DEF S
  <2>2. 0 .. Top \subseteq S BY <1>0, <2>1, UpTo
  <2>3. Top \in S BY <1>0, <2>2
  <2> QED BY <2>3 DEF S
<1> DEFINE Body(f) == [i \in 0 .. Top |-> IF i = 0 THEN 1 ELSE Base * f[i - 1]]
<1>4. g = Body(g)
  <2>1. \A i \in 0 .. Top : g[i] = IF i = 0 THEN 1 ELSE Base * g[i - 1]
    BY <1>0, <1>3
  <2> QED BY <1>3, <2>1
<1>5. F!UnitSize = Body(F!UnitSize)
  <2>1. F!UnitSize = CHOOSE f : f = Body(f) BY DEF F!UnitSize
  <2>2. \E f : f = Body(f) BY <1>4
  <2> HIDE DEF Body
  <2> QED BY <2>1, <2>2
<1> QED BY <1>0, <1>5

LEMMA UnitsAre ==
    /\ \A i \in 0 .. Top : F!UnitSize[i] \in Nat /\ F!UnitSize[i] > 0
    /\ \A i \in 1 .. Top : F!UnitSize[i] > 100
<1> DEFINE S == {i \in 0 .. Top : F!UnitSize[i] \in Nat /\ F!UnitSize[i] > 0}
<1>1. 0 \in S BY UnitsExist, BoundsAre
<1>2. ASSUME NEW i \in 1 .. Top, i - 1 \in S PROVE i \in S /\ F!UnitSize[i] > 100
  <2> DEFINE d == F!UnitSize[i - 1]
  <2>1. d \in Nat /\ d > 0 BY <1>2
  <2>2. F!UnitSize[i] = Base * d BY UnitsExist
  <2> HIDE DEF d
  <2>3. Base * d \in Nat /\ Base * d >= Base
    <3>1. PICK k \in Nat : d = k + 1
      <4>1. d - 1 \in Nat /\ d = (d - 1) + 1 BY <2>1
      <4> QED BY <4>1
    <3>2. Base * d = Base * k + Base /\ Base * k \in Nat BY <3>1, BoundsAre
    <3> QED BY <3>2, BoundsAre
  <2> QED BY <2>2, <2>3, BoundsAre
<1>3. 0 .. Top \subseteq S
  <2>1. \A i \in 1 .. Top : i - 1 \in S => i \in S BY <1>2
  <2> HIDE DEF S
  <2> QED BY <1>1, <2>1, UpTo, BoundsAre
<1>4. ASSUME NEW i \in 1 .. Top PROVE F!UnitSize[i] > 100
  <2>1. i - 1 \in 0 .. Top BY BoundsAre
  <2> QED BY <1>2, <1>3, <2>1
<1> QED BY <1>3, <1>4

\* A larger unit is no smaller.
LEMMA UnitsGrow ==
    ASSUME NEW i \in 0 .. Top, NEW j \in i .. Top
    PROVE  F!UnitSize[i] <= F!UnitSize[j]
<1> DEFINE S == {k \in 0 .. Top : i <= k => F!UnitSize[i] <= F!UnitSize[k]}
<1>0. Top \in Nat /\ Base \in Nat /\ Base > 100 BY BoundsAre
<1>1. 0 \in S
  <2>1. i <= 0 => i = 0 BY <1>0
  <2>2. F!UnitSize[0] <= F!UnitSize[0] BY UnitsExist
  <2> QED BY <1>0, <2>1, <2>2
<1>2. ASSUME NEW k \in 1 .. Top, k - 1 \in S PROVE k \in S
  <2>1. /\ F!UnitSize[k - 1] \in Nat
        /\ F!UnitSize[k] = Base * F!UnitSize[k - 1]
        /\ F!UnitSize[k] \in Nat
        /\ F!UnitSize[i] \in Nat
    <3>1. k - 1 \in 0 .. Top /\ k \in 0 .. Top BY <1>0
    <3> QED BY <3>1, UnitsAre, UnitsExist
  <2>2. F!UnitSize[k - 1] <= F!UnitSize[k]
    <3> DEFINE d == F!UnitSize[k - 1]
    <3> HIDE DEF d
    <3>1. PICK b \in Nat : Base = b + 1
      <4>1. Base - 1 \in Nat /\ Base = (Base - 1) + 1 BY <1>0
      <4> QED BY <4>1
    <3>2. d \in Nat => Base * d = b * d + d /\ b * d \in Nat BY <3>1
    <3> QED BY <2>1, <3>2 DEF d
  <2>3. i <= k => i = k \/ i <= k - 1 BY <1>0
  <2>4. i <= k => F!UnitSize[i] <= F!UnitSize[k] BY <1>2, <2>1, <2>2, <2>3
  <2> QED BY <1>0, <2>4
<1>3. 0 .. Top \subseteq S
  <2>1. \A k \in 1 .. Top : k - 1 \in S => k \in S BY <1>2
  <2> HIDE DEF S
  <2> QED BY <1>0, <1>1, <2>1, UpTo
<1>4. j \in 0 .. Top /\ i <= j BY <1>0
<1>5. j \in S BY <1>3, <1>4
<1> QED BY <1>4, <1>5

UnitOf(n) == F!Max({i \in 0 .. Top : n >= F!UnitSize[i]})

\* The unit a size is written in.
LEMMA UnitIs ==
    ASSUME NEW n \in Nat, n > 0, n < F!UnitSize[Top]
    PROVE  /\ UnitOf(n) \in 0 .. Top - 1
           /\ F!UnitSize[UnitOf(n)] <= n
           /\ n < F!UnitSize[UnitOf(n) + 1]
<1> DEFINE S == {i \in 0 .. Top : n >= F!UnitSize[i]}
           u == F!Max(S)
<1>0. Top \in Nat BY BoundsAre
<1>1. S \in SUBSET (0 .. Top) /\ 0 \in S BY <1>0, UnitsExist
<1>2. u \in S /\ \A y \in S : u >= y
  <2>1. S # {} BY <1>1
  <2> HIDE DEF S
  <2> QED BY <1>0, <1>1, <2>1, Greatest
<1> HIDE DEF u
<1>3. u \in 0 .. Top /\ n >= F!UnitSize[u] /\ F!UnitSize[u] \in Nat BY <1>2, UnitsAre
<1>4. u # Top
  <2>1. F!UnitSize[Top] \in Nat BY <1>0, UnitsAre
  <2> QED BY <1>3, <2>1
<1>5. u \in 0 .. Top - 1 /\ u + 1 \in 0 .. Top BY <1>0, <1>3, <1>4
<1>6. n < F!UnitSize[u + 1]
  <2>1. F!UnitSize[u + 1] \in Nat BY <1>5, UnitsAre
  <2>2. u + 1 \notin S BY <1>2, <1>5
  <2> QED BY <1>5, <2>1, <2>2
<1> QED BY <1>3, <1>5, <1>6 DEF UnitOf, u

LEMMA UnitAt ==
    ASSUME NEW n \in Nat, NEW u \in 0 .. Top - 1, F!UnitSize[u] <= n, n < F!UnitSize[u + 1]
    PROVE  UnitOf(n) = u
<1> DEFINE S == {i \in 0 .. Top : n >= F!UnitSize[i]}
           x == F!Max(S)
<1>0. Top \in Nat /\ u \in 0 .. Top /\ u + 1 \in 0 .. Top BY BoundsAre
<1>1. F!UnitSize[u] \in Nat /\ F!UnitSize[u + 1] \in Nat BY <1>0, UnitsAre
<1>2. S \in SUBSET (0 .. Top) /\ u \in S BY <1>0, <1>1
<1>3. x \in S /\ \A y \in S : x >= y
  <2>1. S # {} BY <1>2
  <2> HIDE DEF S
  <2> QED BY <1>0, <1>2, <2>1, Greatest
<1> HIDE DEF x
<1>4. x \in 0 .. Top /\ n >= F!UnitSize[x] /\ F!UnitSize[x] \in Nat /\ x >= u
  BY <1>2, <1>3, UnitsAre
<1>5. ~(x >= u + 1)
  <2> SUFFICES ASSUME x >= u + 1 PROVE FALSE OBVIOUS
  <2>1. x \in u + 1 .. Top BY <1>0, <1>4
  <2>2. F!UnitSize[u + 1] <= F!UnitSize[x] BY <1>0, <2>1, UnitsGrow
  <2> QED BY <1>1, <1>4, <2>2
<1> QED BY <1>0, <1>4, <1>5 DEF UnitOf, x

\* A size that is written with k as the weight of its figures, and read back.
Figures == {<<1, 100>>, <<10, 10>>, <<100, 1>>}
Rewritten(k, j, n, d) == F!RoundDiv((j * F!RoundDiv(k * n, d)) * d, 100)

LEMMA Times ==
    ASSUME NEW d \in Nat, NEW i \in Nat, NEW j \in Nat, i <= j
    PROVE  d * i <= d * j /\ d * i \in Nat /\ d * j \in Nat
<1>1. PICK k \in Nat : j = i + k
  <2>1. j - i \in Nat /\ j = i + (j - i) OBVIOUS
  <2> QED BY <2>1
<1>2. d * j = d * i + d * k /\ d * k \in Nat /\ d * i \in Nat BY <1>1
<1> QED BY <1>2

\* What is displayed lies between these, for a size of which at least three figures show.
LEMMA RewrittenIs ==
    ASSUME NEW n \in Nat, NEW d \in Nat, d > 100, NEW k, NEW j, <<k, j>> \in Figures, k * n >= 100 * d
    PROVE  \E q \in Nat, p \in Nat, m \in Nat :
              /\ q = F!RoundDiv(k * n, d) /\ p = d * q /\ m = Rewritten(k, j, n, d)
              /\ 2 * p <= 2 * (k * n) + d /\ 2 * (k * n) < 2 * p + d
              /\ 200 * m <= 2 * (j * p) + 100 /\ 2 * (j * p) < 200 * m + 100
              /\ q >= 100 /\ p >= 100 * d
<1> DEFINE q == F!RoundDiv(k * n, d)
           p == d * q
           m == Rewritten(k, j, n, d)
<1>1. k \in Nat /\ j \in Nat /\ j \in {1, 10, 100} /\ k \in {1, 10, 100}
  BY DEF Figures
<1>2. k * n \in Nat /\ d \in Sizes /\ 100 \in Sizes BY <1>1 DEF Sizes
<1>3. q \in Nat /\ 2 * (d * q) <= 2 * (k * n) + d /\ 2 * (k * n) < 2 * (d * q) + d
  BY <1>2, RoundDivIs
<1> HIDE DEF q
<1>4. p \in Nat BY <1>3
<1>5. (j * q) * d = j * p /\ j * p \in Nat
  <2>1. CASE j = 1 BY <1>3, <2>1
  <2>2. CASE j = 10 BY <1>3, <2>2
  <2>3. CASE j = 100 BY <1>3, <2>3
  <2> QED BY <1>1, <2>1, <2>2, <2>3
<1>6. m = F!RoundDiv(j * p, 100) BY <1>5 DEF Rewritten, q
<1>7. m \in Nat /\ 2 * (100 * m) <= 2 * (j * p) + 100 /\ 2 * (j * p) < 2 * (100 * m) + 100
  BY <1>2, <1>5, <1>6, RoundDivIs
<1>8. q >= 100
  <2> SUFFICES ASSUME q <= 99 PROVE FALSE BY <1>3
  <2>1. d * q <= d * 99 BY <1>3, Times
  <2> DEFINE y == d * q
             x == k * n
  <2>2. y \in Nat /\ x \in Nat BY <1>2, <1>3
  <2>3. y <= 99 * d /\ 2 * x < 2 * y + d /\ x >= 100 * d BY <1>3, <2>1
  <2> HIDE DEF y, x
  <2> QED BY <2>2, <2>3
<1>9. p >= 100 * d
  <2>1. d * 100 <= d * q BY <1>3, <1>8, Times
  <2> QED BY <2>1
<1> HIDE DEF p, m
<1>10. 200 * m <= 2 * (j * p) + 100 /\ 2 * (j * p) < 200 * m + 100 BY <1>7
<1>11. 2 * p <= 2 * (k * n) + d /\ 2 * (k * n) < 2 * p + d BY <1>3 DEF p
<1> QED BY <1>3, <1>4, <1>7, <1>8, <1>9, <1>10, <1>11 DEF q, p, m

LEMMA RewrittenNear ==
    ASSUME NEW n \in Nat, NEW d \in Nat, d > 100, NEW k, NEW j, <<k, j>> \in Figures, k * n >= 100 * d
    PROVE  /\ 100 * Rewritten(k, j, n, d) < 101 * n
           /\ 99 * n < 100 * Rewritten(k, j, n, d)
           /\ Rewritten(k, j, n, d) \in Nat
           /\ k * Rewritten(k, j, n, d) >= 100 * d
<1>1. PICK q \in Nat, p \in Nat, m \in Nat :
              /\ q = F!RoundDiv(k * n, d) /\ p = d * q /\ m = Rewritten(k, j, n, d)
              /\ 2 * p <= 2 * (k * n) + d /\ 2 * (k * n) < 2 * p + d
              /\ 200 * m <= 2 * (j * p) + 100 /\ 2 * (j * p) < 200 * m + 100
              /\ q >= 100 /\ p >= 100 * d
  BY RewrittenIs
<1>2. CASE k = 1 /\ j = 100
  <2>1. m = p BY <1>1, <1>2
  <2> QED BY <1>1, <1>2, <2>1
<1>3. CASE k = 10 /\ j = 10
  BY <1>1, <1>3
<1>4. CASE k = 100 /\ j = 1
  BY <1>1, <1>4
<1> QED BY <1>2, <1>3, <1>4 DEF Figures

\* Written once more with as many figures, it is the same.
LEMMA RewrittenTwice ==
    ASSUME NEW n \in Nat, NEW d \in Nat, d > 100, NEW k, NEW j, <<k, j>> \in Figures, k * n >= 100 * d
    PROVE  Rewritten(k, j, Rewritten(k, j, n, d), d) = Rewritten(k, j, n, d)
<1>1. PICK q \in Nat, p \in Nat, m \in Nat :
              /\ q = F!RoundDiv(k * n, d) /\ p = d * q /\ m = Rewritten(k, j, n, d)
              /\ 2 * p <= 2 * (k * n) + d /\ 2 * (k * n) < 2 * p + d
              /\ 200 * m <= 2 * (j * p) + 100 /\ 2 * (j * p) < 200 * m + 100
              /\ q >= 100 /\ p >= 100 * d
  BY RewrittenIs
<1>2. k * m \in Nat /\ 2 * p <= 2 * (k * m) + d /\ 2 * (k * m) < 2 * p + d
  <2>1. CASE k = 1 /\ j = 100 BY <1>1, <2>1
  <2>2. CASE k = 10 /\ j = 10 BY <1>1, <2>2
  <2>3. CASE k = 100 /\ j = 1 BY <1>1, <2>3
  <2> QED BY <2>1, <2>2, <2>3 DEF Figures
<1>3. F!RoundDiv(k * m, d) = q
  <2>1. d \in Sizes BY DEF Sizes
  <2>2. 2 * (d * q) <= 2 * (k * m) + d /\ 2 * (k * m) < 2 * (d * q) + d BY <1>1, <1>2
  <2> QED BY <1>2, <2>1, <2>2, RoundDivAt
<1>4. Rewritten(k, j, m, d) = F!RoundDiv((j * q) * d, 100) BY <1>3 DEF Rewritten
<1>5. m = F!RoundDiv((j * q) * d, 100) BY <1>1 DEF Rewritten
<1> QED BY <1>1, <1>4, <1>5

\* A size of one figure and noughts is written as it is.
LEMMA RoundStays ==
    ASSUME NEW d \in Nat, d > 100, NEW k, NEW j, <<k, j>> \in Figures
    PROVE  Rewritten(k, j, j * d, d) = j * d
<1>1. k \in Nat /\ j \in Nat /\ k * (j * d) = 100 * d /\ j * d \in Nat
  <2>1. CASE k = 1 /\ j = 100 BY <2>1
  <2>2. CASE k = 10 /\ j = 10 BY <2>2
  <2>3. CASE k = 100 /\ j = 1 BY <2>3
  <2> QED BY <2>1, <2>2, <2>3 DEF Figures
<1>2. F!RoundDiv(100 * d, d) = 100
  <2>1. d \in Sizes /\ 100 * d \in Nat /\ 2 * (d * 100) <= 2 * (100 * d) + d
        /\ 2 * (100 * d) < 2 * (d * 100) + d BY DEF Sizes
  <2> QED BY <2>1, RoundDivAt
<1>3. F!RoundDiv((j * 100) * d, 100) = j * d
  <2> DEFINE x == j * d
  <2>1. (j * 100) * d = 100 * x /\ x \in Nat
    <3>1. CASE j = 100 BY <3>1
    <3>2. CASE j = 10 BY <3>2
    <3>3. CASE j = 1 BY <3>3
    <3> QED BY <3>1, <3>2, <3>3 DEF Figures
  <2> HIDE DEF x
  <2>2. /\ 100 * x \in Nat /\ 100 \in Sizes
        /\ 2 * (100 * x) <= 2 * (100 * x) + 100
        /\ 2 * (100 * x) < 2 * (100 * x) + 100
    BY <2>1 DEF Sizes
  <2>3. F!RoundDiv(100 * x, 100) = x BY <2>1, <2>2, RoundDivAt
  <2> QED BY <2>1, <2>3 DEF x
<1> QED BY <1>1, <1>2, <1>3 DEF Rewritten

\* Where the figures of a size end: a unit d, and the next one.
Within(k, n, d, next) ==
    /\ d <= n /\ n < next
    /\ k = 1 => n >= 100 * d
    /\ k = 10 => 10 * d <= n /\ n < 100 * d
    /\ k = 100 => n < 10 * d

LEMMA DisplayedSmall ==
    ASSUME NEW n \in Nat, n > 0, UnitOf(n) = 0
    PROVE  F!Displayed(n) = n
<1> DEFINE h == 100 * F!RoundDiv(n, F!UnitSize[0])
<1>0. F!UnitSize[0] = 1 /\ Top # 0 BY UnitsExist, BoundsAre
<1>1. F!RoundDiv(n, 1) = n
  <2>1. 1 \in Sizes /\ 2 * (1 * n) <= 2 * n + 1 /\ 2 * n < 2 * (1 * n) + 1 BY DEF Sizes
  <2> QED BY <2>1, RoundDivAt
<1>2. F!RoundDiv(100 * n * 1, 100) = n
  <2>1. 100 * n * 1 = 100 * n /\ 100 * n \in Nat OBVIOUS
  <2>2. 100 \in Sizes /\ 2 * (100 * n) <= 2 * (100 * n) + 100 /\ 2 * (100 * n) < 2 * (100 * n) + 100
    BY DEF Sizes
  <2> QED BY <2>1, <2>2, RoundDivAt
<1>3. F!FormatBytes(n).unit = 0 /\ F!FormatBytes(n).hundredths = 100 * n
  BY <1>0, <1>1 DEF F!FormatBytes, UnitOf
<1> QED BY <1>0, <1>2, <1>3 DEF F!Displayed, F!ParseHumanBytes

LEMMA DisplayedAs ==
    ASSUME NEW n \in Nat, NEW u \in 1 .. Top - 1, UnitOf(n) = u,
           NEW d, d = F!UnitSize[u],
           NEW k, NEW j, <<k, j>> \in Figures, Within(k, n, d, F!UnitSize[u + 1])
    PROVE  /\ F!Displayed(n) = Rewritten(k, j, n, d)
           /\ d \in Nat /\ d > 100 /\ k * n >= 100 * d
<1>0. Top \in Nat /\ u # Top /\ u # 0 BY BoundsAre
<1>1. d \in Nat /\ d > 100 BY <1>0, UnitsAre
<1>2. k * n >= 100 * d /\ k * n \in Nat
  <2>1. CASE k = 1 BY <1>1, <2>1 DEF Within
  <2>2. CASE k = 10 BY <1>1, <2>2 DEF Within
  <2>3. CASE k = 100 BY <1>1, <2>3 DEF Within
  <2> QED BY <2>1, <2>2, <2>3 DEF Figures
<1> DEFINE q == F!RoundDiv(k * n, d)
<1>3. q \in Nat /\ q >= 100 BY <1>1, <1>2, RewrittenIs
<1>4. F!FormatBytes(n).unit = u /\ F!FormatBytes(n).hundredths = j * q
  <2> HIDE DEF q
  <2>1. CASE k = 1 /\ j = 100
    <3>1. k * n = n BY <2>1
    <3> QED BY <1>0, <2>1, <3>1 DEF F!FormatBytes, UnitOf, Within, q
  <2>2. CASE k = 10 /\ j = 10
    <3>1. ~(n >= 100 * d) /\ n >= 10 * d BY <1>1, <2>2 DEF Within
    <3> QED BY <1>0, <2>2, <3>1 DEF F!FormatBytes, UnitOf, q
  <2>3. CASE k = 100 /\ j = 1
    <3>1. ~(n >= 100 * d) /\ ~(n >= 10 * d) BY <1>1, <2>3 DEF Within
    <3>2. j * q = q BY <1>3, <2>3
    <3> QED BY <1>0, <2>3, <3>1, <3>2 DEF F!FormatBytes, UnitOf, q
  <2> QED BY <2>1, <2>2, <2>3 DEF Figures
<1>5. j * q # 0
  <2> HIDE DEF q
  <2> QED BY <1>3 DEF Figures
<1>6. F!Displayed(n) = F!RoundDiv((j * q) * d, 100)
  BY <1>0, <1>4, <1>5 DEF F!Displayed, F!ParseHumanBytes
<1> QED BY <1>1, <1>2, <1>6 DEF Rewritten

LEMMA FiguresOf ==
    ASSUME NEW n \in Nat, NEW d \in Nat, NEW next, d <= n, n < next
    PROVE  \E k, j : <<k, j>> \in Figures /\ Within(k, n, d, next)
<1>1. CASE n >= 100 * d
  <2>1. <<1, 100>> \in Figures /\ Within(1, n, d, next) BY <1>1 DEF Figures, Within
  <2> QED BY <2>1
<1>2. CASE ~(n >= 100 * d) /\ n >= 10 * d
  <2>1. <<10, 10>> \in Figures /\ Within(10, n, d, next) BY <1>2 DEF Figures, Within
  <2> QED BY <2>1
<1>3. CASE ~(n >= 10 * d)
  <2>1. <<100, 1>> \in Figures /\ Within(100, n, d, next) BY <1>3 DEF Figures, Within
  <2> QED BY <2>1
<1> QED BY <1>1, <1>2, <1>3

\* A unit, ten and a hundred of them, are displayed as they are.
LEMMA RoundDisplayed ==
    ASSUME NEW u \in 1 .. Top - 1, NEW k, NEW j, <<k, j>> \in Figures
    PROVE  F!Displayed(j * F!UnitSize[u]) = j * F!UnitSize[u]
<1> DEFINE d == F!UnitSize[u]
           n == j * d
<1>0. Top \in Nat /\ u \in 1 .. Top /\ u + 1 \in 1 .. Top BY BoundsAre
<1>1. d \in Nat /\ d > 100 BY <1>0, UnitsAre
<1>2. F!UnitSize[u + 1] = Base * d BY <1>0, UnitsExist
<1>3. Base * d >= 101 * d /\ Base * d \in Nat
  <2>1. Base \in Nat /\ 101 <= Base BY BoundsAre
  <2>2. d * 101 <= d * Base /\ d * Base \in Nat BY <1>1, <2>1, Times
  <2>3. d * 101 = 101 * d BY <1>1
  <2>4. d * Base = Base * d BY <1>1, <2>1
  <2> QED BY <2>2, <2>3, <2>4
<1> HIDE DEF d
<1>4. n \in Nat /\ d <= n /\ n <= 100 * d
  <2>1. j \in {1, 10, 100} BY DEF Figures
  <2> QED BY <1>1, <2>1
<1>5. n < F!UnitSize[u + 1]
  <2> DEFINE x == Base * d
  <2>1. x \in Nat /\ x >= 101 * d BY <1>3
  <2> HIDE DEF x, n
  <2>2. n < x BY <1>1, <1>4, <2>1
  <2> QED BY <1>2, <2>2 DEF x
<1>6. Within(k, n, d, F!UnitSize[u + 1])
  <2>1. CASE k = 1 /\ j = 100 BY <1>1, <1>4, <1>5, <2>1 DEF Within
  <2>2. CASE k = 10 /\ j = 10 BY <1>1, <1>4, <1>5, <2>2 DEF Within
  <2>3. CASE k = 100 /\ j = 1 BY <1>1, <1>4, <1>5, <2>3 DEF Within
  <2> QED BY <2>1, <2>2, <2>3 DEF Figures
<1>7. UnitOf(n) = u
  <2>1. u \in 0 .. Top - 1 BY <1>0
  <2>2. F!UnitSize[u] <= n BY <1>4 DEF d
  <2> HIDE DEF n
  <2> QED BY <1>4, <1>5, <2>1, <2>2, UnitAt
<1>8. F!Displayed(n) = Rewritten(k, j, n, d)
  <2> HIDE DEF n
  <2> QED BY <1>4, <1>6, <1>7, DisplayedAs DEF d
<1>9. Rewritten(k, j, n, d) = n BY <1>1, RoundStays
<1> QED BY <1>8, <1>9 DEF d

\* The largest that is written with so many figures is rounded to what has one fewer, at most.
Crossed(k, j, n, d, b, m) ==
    /\ d > 100 /\ <<k, j>> \in Figures /\ k * n >= 100 * d
    /\ k = 1 \/ b = 1000
    /\ m = Rewritten(k, j, n, d)
    /\ k * n < b * d
    /\ b * d <= k * m

LEMMA RewrittenAbove ==
    ASSUME NEW n \in Nat, NEW d \in Nat, NEW k, NEW j, NEW b \in Nat, NEW m,
           Crossed(k, j, n, d, b, m)
    PROVE  k * m = b * d
<1> USE DEF Crossed
<1>1. PICK q \in Nat, p \in Nat, x \in Nat :
              /\ q = F!RoundDiv(k * n, d) /\ p = d * q /\ x = Rewritten(k, j, n, d)
              /\ 2 * p <= 2 * (k * n) + d /\ 2 * (k * n) < 2 * p + d
              /\ 200 * x <= 2 * (j * p) + 100 /\ 2 * (j * p) < 200 * x + 100
              /\ q >= 100 /\ p >= 100 * d
  BY RewrittenIs
<1>0. x = m BY <1>1
<1> DEFINE t == b * d
<1>2. t \in Nat /\ t = d * b OBVIOUS
<1> HIDE DEF t
<1>3. 2 * p < 2 * t + d /\ 2 * p + 100 >= 2 * t
  <2>1. k * n < t /\ t <= k * m BY DEF t
  <2>2. CASE k = 1 /\ j = 100 BY <1>0, <1>1, <1>2, <2>1, <2>2
  <2>3. CASE k = 10 /\ j = 10 BY <1>0, <1>1, <1>2, <2>1, <2>3
  <2>4. CASE k = 100 /\ j = 1 BY <1>0, <1>1, <1>2, <2>1, <2>4
  <2> QED BY <2>2, <2>3, <2>4 DEF Figures
<1>4. ~(q < b)
  <2> SUFFICES ASSUME q < b PROVE FALSE OBVIOUS
  <2>1. q + 1 \in Nat /\ q + 1 <= b BY <1>1
  <2>2. d * (q + 1) <= d * b BY <2>1, Times
  <2>3. d * (q + 1) = p + d BY <1>1
  <2>4. p + d <= t BY <1>2, <2>2, <2>3
  <2> QED BY <1>1, <1>2, <1>3, <2>4
<1>5. ~(b < q)
  <2> SUFFICES ASSUME b < q PROVE FALSE OBVIOUS
  <2>1. b + 1 \in Nat /\ b + 1 <= q BY <1>1
  <2>2. d * (b + 1) <= d * q BY <1>1, <2>1, Times
  <2>3. d * (b + 1) = t + d BY <1>2
  <2>4. t + d <= p BY <1>1, <2>2, <2>3
  <2> QED BY <1>1, <1>2, <1>3, <2>4
<1>6. p = t
  <2>0. q \in Nat /\ b \in Nat BY <1>1
  <2>1. q = b BY ONLY <2>0, <1>4, <1>5
  <2> QED BY <1>0, <1>1, <1>2, <2>1
<1>7. k * m = t
  <2>1. t <= k * m BY DEF t
  <2>2. CASE k = 1 /\ j = 100 BY <1>0, <1>1, <1>2, <1>6, <2>1, <2>2
  <2>3. CASE k = 10 /\ j = 10
    <3>1. t = 1000 * d BY <2>3 DEF t
    <3> QED BY <1>0, <1>1, <1>2, <1>6, <2>1, <2>3, <3>1
  <2>4. CASE k = 100 /\ j = 1
    <3>1. t = 1000 * d BY <2>4 DEF t
    <3> QED BY <1>0, <1>1, <1>2, <1>6, <2>1, <2>4, <3>1
  <2> QED BY <2>2, <2>3, <2>4 DEF Figures
<1> QED BY <1>1, <1>7 DEF t

\* format.ts:3, format.ts:15: every size below the unit that is not read back is displayed
\* within a hundredth of what it is, and what is displayed stays when that is read back.
THEOREM EverySizeSettles ==
    ASSUME NEW n \in Nat, n > 0, n < F!UnitSize[Top]
    PROVE  /\ 100 * F!Displayed(n) < 101 * n
           /\ 99 * n < 100 * F!Displayed(n)
           /\ F!Displayed(n) < F!UnitSize[Top] => F!Displayed(F!Displayed(n)) = F!Displayed(n)
<1> DEFINE u == UnitOf(n)
           d == F!UnitSize[u]
           next == F!UnitSize[u + 1]
           m == F!Displayed(n)
<1>1. u \in 0 .. Top - 1 /\ d <= n /\ n < next BY UnitIs
<1>2. CASE u = 0
  <2>1. m = n BY <1>2, DisplayedSmall
  <2> HIDE DEF m
  <2> QED BY <2>1 DEF m
<1>3. CASE u # 0
  <2>0. Top \in Nat /\ u \in 1 .. Top - 1 /\ u + 1 \in 1 .. Top BY <1>1, <1>3, BoundsAre
  <2>1. d \in Nat /\ d > 100 /\ next = Base * d /\ next \in Nat
    <3>1. u \in 1 .. Top /\ (u + 1) - 1 = u BY <2>0
    <3> QED BY <2>0, <3>1, UnitsAre, UnitsExist
  <2> HIDE DEF u
  <2>2. PICK k, j : <<k, j>> \in Figures /\ Within(k, n, d, next)
    <3> HIDE DEF d, next
    <3> QED BY <1>1, <2>1, FiguresOf
  <2>3. m = Rewritten(k, j, n, d) /\ k * n >= 100 * d
    BY <2>0, <2>2, DisplayedAs DEF u
  <2> HIDE DEF d, next, m
  <2>4. 100 * m < 101 * n /\ 99 * n < 100 * m /\ m \in Nat /\ k * m >= 100 * d
    BY <2>1, <2>2, <2>3, RewrittenNear
  <2>5. Rewritten(k, j, m, d) = m BY <2>1, <2>2, <2>3, RewrittenTwice
  <2>6. ASSUME NEW b \in Nat, k = 1 \/ b = 1000, k * n < b * d, b * d <= k * m
        PROVE  k * m = b * d
    <3>1. Crossed(k, j, n, d, b, m) BY <2>1, <2>2, <2>3, <2>6 DEF Crossed
    <3> QED BY ONLY n \in Nat, b \in Nat, <2>1, <3>1, RewrittenAbove
  <2>7. d <= m
    BY <2>1, <2>2, <2>4 DEF Figures
  <2>8. ASSUME Within(k, m, d, next) PROVE F!Displayed(m) = m
    <3>1. UnitOf(m) = u
      <4>1. m < next BY <2>8 DEF Within
      <4> QED BY <1>1, <2>4, <2>7, <4>1, UnitAt DEF d, next
    <3>2. F!Displayed(m) = Rewritten(k, j, m, d)
      BY <2>0, <2>2, <2>4, <2>8, <3>1, DisplayedAs DEF d, next
    <3> QED BY <2>5, <3>2
  <2>9. ASSUME k = 1, j = 100, m < F!UnitSize[Top] PROVE F!Displayed(m) = m
    <3>1. n < next /\ m >= 100 * d BY <2>2, <2>4, <2>9 DEF Within
    <3>2. CASE m < next
      <4>1. Within(k, m, d, next) BY <2>7, <2>9, <3>1, <3>2 DEF Within
      <4> QED BY <2>8, <4>1
    <3>3. CASE ~(m < next)
      <4>1. k * n = n /\ k * m = m BY <2>4, <2>9
      <4>2. m = next
        <5>1. Base \in Nat /\ k * n < Base * d /\ k * m >= Base * d
          BY <2>1, <2>4, <3>1, <3>3, <4>1, BoundsAre
        <5> QED BY <2>1, <2>6, <2>9, <4>1, <5>1
      <4>3. u + 1 # Top BY <4>2, <2>1, <2>9 DEF next
      <4>4. u + 1 \in 1 .. Top - 1 /\ <<100, 1>> \in Figures BY <2>0, <4>3 DEF Figures
      <4>5. F!Displayed(1 * F!UnitSize[u + 1]) = 1 * F!UnitSize[u + 1] BY <4>4, RoundDisplayed
      <4>6. 1 * next = next BY <2>1
      <4> QED BY <4>2, <4>5, <4>6 DEF next
    <3> QED BY <3>2, <3>3
  <2>10. ASSUME (k = 10 /\ j = 10) \/ (k = 100 /\ j = 1) PROVE F!Displayed(m) = m
    <3>1. k * n < 1000 * d BY <1>1, <2>1, <2>2, <2>10 DEF Within
    <3>2. CASE k * m < 1000 * d
      <4>1. m < next
        <5> DEFINE x == Base * d
        <5>1. x \in Nat /\ x >= 100 * d
          <6>1. Base \in Nat /\ 100 <= Base BY BoundsAre
          <6>2. d * 100 <= d * Base BY <2>1, <6>1, Times
          <6>3. d * 100 = 100 * d /\ d * Base = Base * d BY <2>1, <6>1
          <6>4. x \in Nat BY <2>1, <6>1
          <6> QED BY <6>2, <6>3, <6>4
        <5> HIDE DEF x
        <5>2. m < 100 * d BY <2>1, <2>4, <2>10, <3>2
        <5> QED BY <2>1, <2>4, <5>1, <5>2 DEF x
      <4>2. Within(k, m, d, next) BY <2>1, <2>4, <2>7, <2>10, <3>2, <4>1 DEF Within
      <4> QED BY <2>8, <4>2
    <3>3. CASE ~(k * m < 1000 * d)
      <4>1. k * m = 1000 * d
        <5>1. k * m >= 1000 * d BY <2>1, <2>4, <2>10, <3>3
        <5> QED BY <2>6, <3>1, <5>1
      <4>2. m = 100 * d \/ m = 10 * d BY <2>1, <2>4, <2>10, <4>1
      <4>3. \A i : i \in {10, 100} => F!Displayed(i * F!UnitSize[u]) = i * F!UnitSize[u]
        <5>1. <<1, 100>> \in Figures /\ <<10, 10>> \in Figures BY DEF Figures
        <5> QED BY <2>0, <5>1, RoundDisplayed
      <4>4. F!Displayed(100 * d) = 100 * d /\ F!Displayed(10 * d) = 10 * d BY <4>3 DEF d
      <4> QED BY <4>2, <4>4
    <3> QED BY <3>2, <3>3
  <2>11. m < F!UnitSize[Top] => F!Displayed(m) = m
    <3>1. (k = 1 /\ j = 100) \/ (k = 10 /\ j = 10) \/ (k = 100 /\ j = 1) BY <2>2 DEF Figures
    <3> QED BY <2>9, <2>10, <3>1
  <2> QED BY <2>4, <2>11 DEF m
<1> QED BY <1>2, <1>3

LEMMA SizesAlwaysSettle == F!SizesSettle
<1> SUFFICES ASSUME NEW n \in Samples
             PROVE  LET m == F!Displayed(n)
                    IN  /\ 100 * m < 101 * n /\ 99 * n < 100 * m
                        /\ m < F!UnitSize[Top] => F!Displayed(m) = m
  BY DEF F!SizesSettle
<1>1. n \in Nat /\ n > 0 /\ n < F!UnitSize[Top]
  <2>1. n \in 1 .. F!UnitSize[Top] - 1 BY InstanceAssumption DEF F!FormsBounds
  <2>2. F!UnitSize[Top] \in Nat BY UnitsAre, BoundsAre
  <2> QED BY <2>1, <2>2
<1> QED BY <1>1, EverySizeSettles

-----------------------------------------------------------------------------
(* SettingsForms *)

\* What a form may say of a field nobody touched.
Faithful(v, f, x) == v = None \/ v = x \/ (f = "size" /\ v = F!Displayed(x))

\* What a topic, a form, a save and a request are made of.
OfFields(t, x) == x = [f \in F!Field(t) |-> x[f]]
IsForm(x) == x = [topic |-> x.topic, typed |-> x.typed, edited |-> x.edited,
                  foreign |-> x.foreign, saved |-> x.saved]
IsSave(x) == x = [topic |-> x.topic, body |-> x.body, mine |-> x.mine, step |-> x.step,
                  edited |-> x.edited, foreign |-> x.foreign]
IsFetch(x) == x = [step |-> x.step, answer |-> x.answer, missed |-> x.missed]
ByTopic(x) == x = [t \in F!Topic |-> x[t]]

FormsFrame ==
    /\ ByTopic(stored) /\ \A t \in F!Topic : OfFields(t, stored[t])
    /\ \A t \in F!Topic : \A f \in F!Field(t) : F!Normal(f, stored[t][f]) = stored[t][f]
    /\ ByTopic(stale)
    /\ ByTopic(asking) /\ \A t \in F!Topic : IsFetch(asking[t])

\* What is cached, or on its way, is what the server has but for what is known to be stale.
CacheIsKnown ==
    \A t \in F!Topic : \A f \in F!Field(t) :
        /\ f \notin stale[t] => cached[t][f] = stored[t][f]
        /\ asking[t].step = "served" /\ f \notin asking[t].missed
            => asking[t].answer[f] = stored[t][f]

FormIsFaithful ==
    /\ IsForm(form)
    /\ form.topic # None =>
        /\ form.topic \in F!Topic
        /\ OfFields(form.topic, form.typed)
        /\ \A f \in F!Field(form.topic) \ (form.edited \cup form.foreign) :
                Faithful(form.typed[f], f, stored[form.topic][f])

SavesAreFaithful ==
    \A s \in sending :
        /\ IsSave(s) /\ s.topic \in F!Topic
        /\ s.step = "sent" =>
            \A f \in F!Field(s.topic) \ (s.edited \cup s.foreign) :
                Faithful(s.body[f], f, stored[s.topic][f])

\* The save of the form that is open, and what was touched in that since.
SavesOfForm ==
    /\ \A s \in sending : s.mine =>
        /\ form.topic = s.topic /\ form.topic # None
        /\ s.edited \subseteq form.edited /\ s.foreign \subseteq form.foreign
        /\ \A f \in F!Field(s.topic) \ form.edited :
                s.body[f] = None \/ form.typed[f] = None \/ form.typed[f] = s.body[f]
    /\ \A r, s \in sending : r.mine /\ s.mine => r = s

FormsInv == FormsFrame /\ CacheIsKnown /\ FormIsFaithful /\ SavesAreFaithful /\ SavesOfForm

\* The parts of a record, after some of them are set.
LEMMA SaveStep ==
    ASSUME NEW s, IsSave(s), NEW v, NEW r, r = [s EXCEPT !.step = v]
    PROVE  /\ IsSave(r) /\ r.topic = s.topic /\ r.body = s.body /\ r.mine = s.mine
           /\ r.step = v /\ r.edited = s.edited /\ r.foreign = s.foreign
BY DEF IsSave

LEMMA SaveMine ==
    ASSUME NEW s, IsSave(s), NEW r, r = [s EXCEPT !.mine = FALSE]
    PROVE  /\ IsSave(r) /\ r.topic = s.topic /\ r.body = s.body /\ ~r.mine
           /\ r.step = s.step /\ r.edited = s.edited /\ r.foreign = s.foreign
BY DEF IsSave

LEMMA SaveForeign ==
    ASSUME NEW s, IsSave(s), NEW fs, NEW r, r = [s EXCEPT !.foreign = @ \cup fs]
    PROVE  /\ IsSave(r) /\ r.topic = s.topic /\ r.body = s.body /\ r.mine = s.mine
           /\ r.step = s.step /\ r.edited = s.edited /\ r.foreign = s.foreign \cup fs
BY DEF IsSave

LEMMA FormForeign ==
    ASSUME NEW x, IsForm(x), NEW fs, NEW y, y = [x EXCEPT !.foreign = @ \cup fs]
    PROVE  /\ IsForm(y) /\ y.topic = x.topic /\ y.typed = x.typed /\ y.edited = x.edited
           /\ y.foreign = x.foreign \cup fs /\ y.saved = x.saved
BY DEF IsForm

LEMMA FormSaved ==
    ASSUME NEW x, IsForm(x), NEW y, y = [x EXCEPT !.saved = FALSE]
    PROVE  /\ IsForm(y) /\ y.topic = x.topic /\ y.typed = x.typed /\ y.edited = x.edited
           /\ y.foreign = x.foreign
BY DEF IsForm

LEMMA NormalTwice == \A f, v : F!Normal(f, F!Normal(f, v)) = F!Normal(f, v)
BY DEF F!Normal

LEMMA FormsStart == ASSUME F!Init PROVE FormsInv
<1>1. PICK size \in Size : stored = [t \in F!Topic |-> F!AtFirst(t, size)]
  BY DEF F!Init
<1>2. ByTopic(stored) /\ \A t \in F!Topic : OfFields(t, stored[t])
  BY <1>1 DEF F!AtFirst, ByTopic, OfFields
<1>3. \A t \in F!Topic : \A f \in F!Field(t) : f = "proxies" => stored[t][f] = "a"
  BY <1>1 DEF F!AtFirst
<1>4. \A t \in F!Topic : \A f \in F!Field(t) : F!Normal(f, stored[t][f]) = stored[t][f]
  BY <1>3 DEF F!Normal
<1>5. asking = [t \in F!Topic |-> F!NoFetch] /\ stale = [t \in F!Topic |-> {}]
  BY DEF F!Init
<1>6. FormsFrame BY <1>2, <1>4, <1>5 DEF FormsFrame, ByTopic, IsFetch, F!NoFetch
<1>7. CacheIsKnown BY <1>5 DEF CacheIsKnown, F!Init, F!NoFetch
<1> QED BY <1>6, <1>7 DEF FormsInv, F!Init, FormIsFaithful, F!NoForm, SavesAreFaithful,
            SavesOfForm, IsForm

-----------------------------------------------------------------------------
\* Nothing is written: requests for what is cached are sent, given up and answered.
LEMMA AskingKeeps ==
    ASSUME FormsInv, UNCHANGED <<stored, cached, stale>>,
           ByTopic(asking'),
           \A t \in F!Topic :
                asking'[t] \in {asking[t], F!Sent, F!Due, F!NoFetch}
    PROVE  FormsFrame' /\ CacheIsKnown'
<1>1. ASSUME NEW t \in F!Topic
      PROVE  /\ IsFetch(asking'[t])
             /\ asking'[t].step = "served" => asking'[t] = asking[t]
  BY DEF FormsInv, FormsFrame, IsFetch, F!Sent, F!Due, F!NoFetch
<1>2. FormsFrame' BY <1>1 DEF FormsInv, FormsFrame
<1>3. CacheIsKnown' BY <1>1 DEF FormsInv, CacheIsKnown
<1> QED BY <1>2, <1>3

LEMMA Serving ==
    ASSUME FormsInv, NEW t \in F!Topic, F!ServeRead(t)
    PROVE  FormsInv'
<1>1. /\ asking' = [u \in F!Topic |-> IF u \in F!Together(t) /\ asking[u].step = "sent"
                        THEN [step |-> "served", answer |-> stored[u], missed |-> {}]
                        ELSE asking[u]]
      /\ UNCHANGED <<stored, cached, form, sending, stale>>
  BY DEF F!ServeRead
<1>2. FormsFrame' BY <1>1 DEF FormsInv, FormsFrame, ByTopic, IsFetch
<1>3. CacheIsKnown' BY <1>1 DEF FormsInv, CacheIsKnown
<1> QED BY <1>1, <1>2, <1>3 DEF FormsInv, FormIsFaithful, SavesAreFaithful, SavesOfForm

LEMMA Arriving ==
    ASSUME FormsInv, NEW t \in F!Topic, F!ReadArrives(t)
    PROVE  FormsInv'
<1> DEFINE ts == {u \in F!Together(t) : asking[u].step = "served"}
<1>1. /\ cached' = [u \in F!Topic |-> IF u \in ts THEN asking[u].answer ELSE cached[u]]
      /\ stale' = [u \in F!Topic |-> IF u \in ts THEN asking[u].missed ELSE stale[u]]
      /\ asking' = [u \in F!Topic |-> IF u \in ts THEN F!NoFetch ELSE asking[u]]
      /\ UNCHANGED <<stored, form, sending>>
  BY DEF F!ReadArrives
<1>2. \A u \in ts : asking[u].step = "served" OBVIOUS
<1> HIDE DEF ts
<1>3. FormsFrame' BY <1>1 DEF FormsInv, FormsFrame, ByTopic, IsFetch, F!NoFetch
<1>4. CacheIsKnown'
  <2> SUFFICES ASSUME NEW u \in F!Topic, NEW f \in F!Field(u)
               PROVE  /\ f \notin stale'[u] => cached'[u][f] = stored'[u][f]
                      /\ asking'[u].step = "served" /\ f \notin asking'[u].missed
                            => asking'[u].answer[f] = stored'[u][f]
    BY DEF CacheIsKnown
  <2>1. CASE u \in ts
    BY <1>1, <1>2, <2>1 DEF FormsInv, CacheIsKnown, F!NoFetch
  <2>2. CASE u \notin ts
    BY <1>1, <2>2 DEF FormsInv, CacheIsKnown
  <2> QED BY <2>1, <2>2
<1> QED BY <1>1, <1>3, <1>4 DEF FormsInv, FormIsFaithful, SavesAreFaithful, SavesOfForm

\* Saves without their form are saves still, and nobody's.
LEMMA OrphansStay ==
    ASSUME SavesAreFaithful, NEW ss \in SUBSET sending, sending' = F!Orphans(ss),
           stored' = stored
    PROVE  SavesAreFaithful' /\ SavesOfForm'
<1>1. ASSUME NEW r \in sending'
      PROVE  /\ IsSave(r)
             /\ r.topic \in F!Topic /\ ~r.mine
             /\ r.step = "sent" =>
                    \A f \in F!Field(r.topic) \ (r.edited \cup r.foreign) :
                        Faithful(r.body[f], f, stored'[r.topic][f])
  <2>1. PICK s \in ss : r = [s EXCEPT !.mine = FALSE] BY <1>1 DEF F!Orphans
  <2>2. /\ IsSave(s)
        /\ s.topic \in F!Topic
        /\ s.step = "sent" =>
                \A f \in F!Field(s.topic) \ (s.edited \cup s.foreign) :
                    Faithful(s.body[f], f, stored[s.topic][f])
    BY DEF SavesAreFaithful
  <2>3. /\ IsSave(r) /\ r.topic = s.topic /\ r.body = s.body /\ ~r.mine
        /\ r.step = s.step /\ r.edited = s.edited /\ r.foreign = s.foreign
    BY <2>1, <2>2, SaveMine
  <2> QED BY <2>2, <2>3
<1> QED BY <1>1 DEF SavesAreFaithful, SavesOfForm

\* With no form open there is nothing a form could say.
LEMMA NoFormIs == F!NoForm.topic = None /\
    IsForm(F!NoForm)
BY DEF F!NoForm, IsForm

LEMMA ReadFailing ==
    ASSUME FormsInv, NEW t \in F!Topic, F!ReadFails(t)
    PROVE  FormsInv'
<1>1. /\ asking' = [u \in F!Topic |-> IF u \in F!Together(t) THEN F!NoFetch ELSE asking[u]]
      /\ UNCHANGED <<stored, cached, stale>>
  BY DEF F!ReadFails
<1>2. FormsFrame' /\ CacheIsKnown'
  <2>1. ByTopic(asking') /\ \A u \in F!Topic : asking'[u] \in {asking[u], F!NoFetch}
    BY <1>1 DEF ByTopic
  <2> QED BY <1>1, <2>1, AskingKeeps
<1>3. CASE form' = F!NoForm /\ F!Unmounted
  <2>1. SavesAreFaithful' /\ SavesOfForm'
    BY <1>1, <1>3, OrphansStay DEF FormsInv, F!Unmounted
  <2> QED BY <1>2, <1>3, <2>1, NoFormIs DEF FormsInv, FormIsFaithful
<1>4. CASE form' \in {form, [form EXCEPT !.saved = FALSE]} /\ UNCHANGED sending
  <2>1. /\ form'.topic = form.topic /\ form'.typed = form.typed /\ form'.edited = form.edited
        /\ form'.foreign = form.foreign
        /\ IsForm(form')
    BY <1>4, FormSaved DEF FormsInv, FormIsFaithful
  <2>2. FormIsFaithful' BY <1>1, <2>1 DEF FormsInv, FormIsFaithful
  <2>3. SavesAreFaithful' BY <1>1, <1>4 DEF FormsInv, SavesAreFaithful
  <2>4. SavesOfForm' BY <1>4, <2>1 DEF FormsInv, SavesOfForm
  <2> QED BY <1>2, <2>2, <2>3, <2>4 DEF FormsInv
<1> QED BY <1>3, <1>4 DEF F!ReadFails

-----------------------------------------------------------------------------
LEMMA FormOpening ==
    ASSUME FormsInv, NEW t \in F!Topic, F!Open(t)
    PROVE  FormsInv'
<1>1. /\ form' = [F!NoForm EXCEPT !.topic = t, !.typed = F!Initial(t), !.foreign = stale[t]]
      /\ F!Unmounted /\ F!Shown(t) /\ UNCHANGED <<stored, cached, stale>>
  BY DEF F!Open
<1>2. FormsFrame' /\ CacheIsKnown'
  <2>1. ByTopic(asking')
        /\ \A u \in F!Topic : asking'[u] \in {asking[u], F!Sent}
    BY <1>1 DEF F!Shown, FormsInv, FormsFrame, ByTopic
  <2> QED BY <1>1, <2>1, AskingKeeps
<1>3. SavesAreFaithful' /\ SavesOfForm'
  BY <1>1, OrphansStay DEF FormsInv, F!Unmounted
<1>4. form' = [topic |-> t, typed |-> F!Initial(t), edited |-> {}, foreign |-> stale[t],
               saved |-> FALSE]
  BY <1>1 DEF F!NoForm
<1>5. OfFields(t, F!Initial(t)) /\ IsForm(form')
  BY <1>4 DEF F!Initial, F!Unchosen, OfFields, IsForm
<1>6. ASSUME NEW f \in F!Field(t) \ stale[t]
      PROVE  Faithful(F!Initial(t)[f], f, stored[t][f])
  <2>1. cached[t][f] = stored[t][f] BY DEF FormsInv, CacheIsKnown
  <2>2. F!Initial(t)[f] \in {None, cached[t][f]} \/ (f = "size" /\ F!Initial(t)[f] = F!Displayed(cached[t][f]))
    BY DEF F!Initial, F!Unchosen
  <2> QED BY <2>1, <2>2 DEF Faithful
<1>7. FormIsFaithful' BY <1>1, <1>4, <1>5, <1>6 DEF FormIsFaithful
<1> QED BY <1>2, <1>3, <1>7 DEF FormsInv

LEMMA FormEditing ==
    ASSUME FormsInv, NEW f, NEW v, F!Edit(f, v)
    PROVE  FormsInv'
<1>1. /\ form.topic # None /\ f \in F!Field(form.topic)
      /\ form' = [form EXCEPT !.typed[f] = v, !.edited = @ \cup {f}, !.saved = FALSE]
      /\ UNCHANGED <<stored, cached, asking, sending, stale>>
  BY DEF F!Edit
<1>2. /\ IsForm(form') /\ form'.topic = form.topic
      /\ form'.typed = [form.typed EXCEPT ![f] = v]
      /\ form'.edited = form.edited \cup {f} /\ form'.foreign = form.foreign
  <2>1. IsForm(form) BY DEF FormsInv, FormIsFaithful
  <2> QED BY <1>1, <2>1 DEF IsForm
<1>3. /\ OfFields(form.topic, form'.typed)
      /\ \A g \in F!Field(form.topic) \ {f} : form'.typed[g] = form.typed[g]
  <2>1. OfFields(form.topic, form.typed) BY <1>1 DEF FormsInv, FormIsFaithful
  <2> QED BY <1>1, <1>2, <2>1 DEF OfFields
<1>4. FormIsFaithful' BY <1>1, <1>2, <1>3 DEF FormsInv, FormIsFaithful
<1>5. SavesOfForm' BY <1>1, <1>2, <1>3 DEF FormsInv, SavesOfForm
<1> QED BY <1>1, <1>4, <1>5 DEF FormsInv, FormsFrame, CacheIsKnown, SavesAreFaithful

LEMMA FormSaving ==
    ASSUME FormsInv, F!Save
    PROVE  FormsInv'
<1> DEFINE s == [topic |-> form.topic, body |-> F!Payload, mine |-> TRUE, step |-> "sent",
                 edited |-> form.edited, foreign |-> form.foreign]
<1>1. /\ form.topic # None /\ \A r \in sending : ~r.mine
      /\ sending' = sending \cup {s} /\ UNCHANGED <<stored, cached, asking, form, stale>>
  BY DEF F!Save, F!Dirty, F!Pending
<1>2. /\ IsSave(s)
      /\ s.topic = form.topic /\ s.body = F!Payload /\ s.mine /\ s.edited = form.edited
      /\ s.foreign = form.foreign
  BY DEF IsSave
<1> HIDE DEF s
<1>3. \A f \in F!Field(form.topic) : F!Payload[f] = None \/ F!Payload[f] = form.typed[f]
  BY DEF F!Payload
<1>4. SavesAreFaithful'
  <2>1. s.topic \in F!Topic BY <1>1, <1>2 DEF FormsInv, FormIsFaithful
  <2>2. \A f \in F!Field(s.topic) \ (s.edited \cup s.foreign) :
            Faithful(s.body[f], f, stored[s.topic][f])
    BY <1>1, <1>2, <1>3 DEF FormsInv, FormIsFaithful, Faithful
  <2> QED BY <1>1, <1>2, <2>1, <2>2 DEF FormsInv, SavesAreFaithful
<1>5. SavesOfForm' BY <1>1, <1>2, <1>3 DEF SavesOfForm
<1> QED BY <1>1, <1>4, <1>5 DEF FormsInv, FormsFrame, CacheIsKnown, FormIsFaithful

-----------------------------------------------------------------------------
\* Whoever has read the fields fs of t does not know what is written.
LEMMA Telling ==
    ASSUME FormsInv, NEW t \in F!Topic, NEW fs, NEW own, F!Wrote(t, fs, own)
    PROVE  /\ ByTopic(stale')
           /\ stale'[t] = stale[t] \cup fs /\ \A u \in F!Topic \ {t} : stale'[u] = stale[u]
           /\ ByTopic(asking') /\ IsFetch(asking'[t])
           /\ asking'[t].step = asking[t].step /\ asking'[t].answer = asking[t].answer
           /\ asking[t].step = "served" => asking'[t].missed = asking[t].missed \cup fs
           /\ \A u \in F!Topic \ {t} : asking'[u] = asking[u]
<1>1. /\ stale' = [stale EXCEPT ![t] = @ \cup fs]
      /\ asking' = IF asking[t].step = "served"
                   THEN [asking EXCEPT ![t].missed = @ \cup fs] ELSE asking
  BY DEF F!Wrote
<1>2. /\ ByTopic(stale')
      /\ stale'[t] = stale[t] \cup fs /\ \A u \in F!Topic \ {t} : stale'[u] = stale[u]
  <2>1. stale' = [stale EXCEPT ![t] = stale[t] \cup fs] BY <1>1
  <2>2. ByTopic(stale) BY DEF FormsInv, FormsFrame
  <2> QED BY <2>1, <2>2 DEF ByTopic
<1>3. /\ ByTopic(asking') /\ IsFetch(asking'[t])
      /\ asking'[t].step = asking[t].step /\ asking'[t].answer = asking[t].answer
      /\ asking[t].step = "served" => asking'[t].missed = asking[t].missed \cup fs
      /\ \A u \in F!Topic \ {t} : asking'[u] = asking[u]
  <2>1. ByTopic(asking) /\ IsFetch(asking[t]) BY DEF FormsInv, FormsFrame
  <2>2. CASE asking[t].step = "served"
    <3> DEFINE d == [asking[t] EXCEPT !.missed = @ \cup fs]
    <3>1. /\ IsFetch(d) /\ d.step = asking[t].step /\ d.answer = asking[t].answer
          /\ d.missed = asking[t].missed \cup fs
      <4>1. asking[t] = [step |-> asking[t].step, answer |-> asking[t].answer,
                         missed |-> asking[t].missed]
        BY <2>1 DEF IsFetch
      <4> QED BY ONLY <4>1 DEF IsFetch
    <3>2. asking' = [asking EXCEPT ![t] = d] BY <1>1, <2>2
    <3> HIDE DEF d
    <3>3. ByTopic(asking') /\ asking'[t] = d /\ \A u \in F!Topic \ {t} : asking'[u] = asking[u]
      BY <2>1, <3>2 DEF ByTopic
    <3> QED BY <2>1, <3>1, <3>3
  <2>3. CASE asking[t].step # "served"
    BY <1>1, <2>1, <2>3
  <2> QED BY <2>2, <2>3
<1> QED BY <1>2, <1>3

\* The server gets x for t: whoever has read the fields that change does not know.
LEMMA FormWritten ==
    ASSUME FormsInv, NEW t \in F!Topic, NEW x, NEW fs, NEW own,
           OfFields(t, x), \A f \in F!Field(t) : F!Normal(f, x[f]) = x[f],
           \A f \in F!Field(t) \ fs : x[f] = stored[t][f],
           stored' = [stored EXCEPT ![t] = x], F!Wrote(t, fs, own), cached' = cached
    PROVE  /\ FormsFrame' /\ CacheIsKnown'
           /\ stored'[t] = x /\ \A u \in F!Topic \ {t} : stored'[u] = stored[u]
<1>1. /\ ByTopic(stored')
      /\ stored'[t] = x /\ \A u \in F!Topic \ {t} : stored'[u] = stored[u]
  <2>1. ByTopic(stored) BY DEF FormsInv, FormsFrame
  <2> QED BY <2>1 DEF ByTopic
<1>2. \A u \in F!Topic : /\ OfFields(u, stored'[u])
                         /\ \A f \in F!Field(u) : F!Normal(f, stored'[u][f]) = stored'[u][f]
  BY <1>1 DEF FormsInv, FormsFrame
<1>3. /\ ByTopic(stale')
      /\ stale'[t] = stale[t] \cup fs /\ \A u \in F!Topic \ {t} : stale'[u] = stale[u]
      /\ ByTopic(asking') /\ IsFetch(asking'[t])
      /\ asking'[t].step = asking[t].step /\ asking'[t].answer = asking[t].answer
      /\ asking[t].step = "served" => asking'[t].missed = asking[t].missed \cup fs
      /\ \A u \in F!Topic \ {t} : asking'[u] = asking[u]
  BY Telling
<1>4. FormsFrame' BY <1>1, <1>2, <1>3 DEF FormsInv, FormsFrame
<1>5. CacheIsKnown'
  <2> SUFFICES ASSUME NEW u \in F!Topic, NEW f \in F!Field(u)
               PROVE  /\ f \notin stale'[u] => cached[u][f] = stored'[u][f]
                      /\ asking'[u].step = "served" /\ f \notin asking'[u].missed
                            => asking'[u].answer[f] = stored'[u][f]
    BY DEF CacheIsKnown
  <2>1. /\ f \notin stale[u] => cached[u][f] = stored[u][f]
        /\ asking[u].step = "served" /\ f \notin asking[u].missed
              => asking[u].answer[f] = stored[u][f]
    BY DEF FormsInv, CacheIsKnown
  <2>2. CASE u = t BY <1>1, <1>3, <2>1, <2>2
  <2>3. CASE u # t BY <1>1, <1>3, <2>1, <2>3
  <2> QED BY <2>2, <2>3
<1> QED BY <1>1, <1>4, <1>5

\* A save under way that is told what was written stays what it is.
LEMMA ToldIs ==
    ASSUME NEW s, IsSave(s), NEW t, NEW fs,
           NEW r, r = IF s.topic = t THEN [s EXCEPT !.foreign = @ \cup fs] ELSE s
    PROVE  /\ IsSave(r)
           /\ r.topic = s.topic /\ r.body = s.body /\ r.mine = s.mine /\ r.step = s.step
           /\ r.edited = s.edited
           /\ r.foreign = IF s.topic = t THEN s.foreign \cup fs ELSE s.foreign
<1>1. CASE s.topic = t BY <1>1, SaveForeign
<1>2. CASE s.topic # t BY <1>2
<1> QED BY <1>1, <1>2

LEMMA FormWritingElsewhere ==
    ASSUME FormsInv, NEW t \in F!Topic, NEW g \in F!Field(t), NEW v \in F!Stored(g),
           F!Elsewhere(t, g, v)
    PROVE  FormsInv'
<1> DEFINE x == [stored[t] EXCEPT ![g] = v]
<1>1. /\ stored' = [stored EXCEPT ![t] = x] /\ F!Wrote(t, {g}, FALSE) /\ cached' = cached
      /\ sending' = F!Outdated(sending, t, {g})
  <2>1. stored' = [stored EXCEPT ![t][g] = v] BY DEF F!Elsewhere
  <2> QED BY <2>1 DEF F!Elsewhere
<1>2. F!Normal(g, v) = v BY NormalTwice DEF F!Stored
<1>3. /\ OfFields(t, stored[t])
      /\ \A f \in F!Field(t) : F!Normal(f, stored[t][f]) = stored[t][f]
  BY DEF FormsInv, FormsFrame
<1>4. /\ OfFields(t, x) /\ x[g] = v
      /\ \A f \in F!Field(t) \ {g} : x[f] = stored[t][f]
  BY <1>3 DEF OfFields
<1> HIDE DEF x
<1>5. \A f \in F!Field(t) : F!Normal(f, x[f]) = x[f] BY <1>2, <1>3, <1>4
<1>6. /\ FormsFrame' /\ CacheIsKnown'
      /\ stored'[t] = x /\ \A u \in F!Topic \ {t} : stored'[u] = stored[u]
  BY <1>1, <1>4, <1>5, FormWritten
<1>7. form' = IF form.topic = t THEN [form EXCEPT !.foreign = @ \cup {g}] ELSE form
  BY <1>1 DEF F!Wrote
<1>8. /\ IsForm(form') /\ form'.topic = form.topic /\ form'.typed = form.typed
      /\ form'.edited = form.edited
      /\ form'.foreign = IF form.topic = t THEN form.foreign \cup {g} ELSE form.foreign
  BY <1>7, FormForeign DEF FormsInv, FormIsFaithful
<1>9. FormIsFaithful' BY <1>4, <1>6, <1>8 DEF FormsInv, FormIsFaithful
<1>10. \A r \in sending' : \E s \in sending :
            r = IF s.topic = t THEN [s EXCEPT !.foreign = @ \cup {g}] ELSE s
  BY <1>1 DEF F!Outdated
<1>11. SavesAreFaithful'
  <2> SUFFICES ASSUME NEW r \in sending'
               PROVE  /\ IsSave(r)
                      /\ r.topic \in F!Topic
                      /\ r.step = "sent" =>
                            \A f \in F!Field(r.topic) \ (r.edited \cup r.foreign) :
                                Faithful(r.body[f], f, stored'[r.topic][f])
    BY DEF SavesAreFaithful
  <2>1. PICK s \in sending : r = IF s.topic = t THEN [s EXCEPT !.foreign = @ \cup {g}] ELSE s
    BY <1>10
  <2>2. /\ IsSave(s) /\ s.topic \in F!Topic
        /\ s.step = "sent" =>
                \A f \in F!Field(s.topic) \ (s.edited \cup s.foreign) :
                    Faithful(s.body[f], f, stored[s.topic][f])
    BY DEF FormsInv, SavesAreFaithful
  <2>3. /\ IsSave(r)
        /\ r.topic = s.topic /\ r.body = s.body /\ r.step = s.step /\ r.edited = s.edited
        /\ r.foreign = IF s.topic = t THEN s.foreign \cup {g} ELSE s.foreign
    <3>1. IsSave(s) BY <2>2
    <3> QED BY <2>1, <3>1, ToldIs
  <2>4. CASE s.topic = t BY <1>4, <1>6, <2>2, <2>3, <2>4
  <2>5. CASE s.topic # t BY <1>6, <2>2, <2>3, <2>5
  <2> QED BY <2>4, <2>5
<1>12. SavesOfForm'
  <2>1. ASSUME NEW r \in sending', r.mine
        PROVE  \E s \in sending :
                /\ s.mine /\ r = IF s.topic = t THEN [s EXCEPT !.foreign = @ \cup {g}] ELSE s
                /\ r.topic = s.topic /\ r.body = s.body /\ r.edited = s.edited
                /\ r.foreign = IF s.topic = t THEN s.foreign \cup {g} ELSE s.foreign
    <3>1. PICK s \in sending : r = IF s.topic = t THEN [s EXCEPT !.foreign = @ \cup {g}] ELSE s
      BY <1>10
    <3>2. /\ r.topic = s.topic /\ r.body = s.body /\ r.mine = s.mine /\ r.edited = s.edited
          /\ r.foreign = IF s.topic = t THEN s.foreign \cup {g} ELSE s.foreign
      BY <3>1, ToldIs DEF FormsInv, SavesAreFaithful
    <3> QED BY <2>1, <3>1, <3>2
  <2>2. ASSUME NEW r \in sending', r.mine
        PROVE  /\ form'.topic = r.topic /\ form'.topic # None
               /\ r.edited \subseteq form'.edited /\ r.foreign \subseteq form'.foreign
               /\ \A f \in F!Field(r.topic) \ form'.edited :
                    r.body[f] = None \/ form'.typed[f] = None \/ form'.typed[f] = r.body[f]
    <3>1. PICK s \in sending :
                /\ s.mine
                /\ r.topic = s.topic /\ r.body = s.body /\ r.edited = s.edited
                /\ r.foreign = IF s.topic = t THEN s.foreign \cup {g} ELSE s.foreign
      BY <2>1, <2>2
    <3>2. /\ form.topic = s.topic /\ form.topic # None
          /\ s.edited \subseteq form.edited /\ s.foreign \subseteq form.foreign
          /\ \A f \in F!Field(s.topic) \ form.edited :
                s.body[f] = None \/ form.typed[f] = None \/ form.typed[f] = s.body[f]
      BY <3>1 DEF FormsInv, SavesOfForm
    <3> QED BY <1>8, <3>1, <3>2
  <2>3. ASSUME NEW r \in sending', NEW q \in sending', r.mine, q.mine
        PROVE  r = q
    <3>1. PICK s \in sending :
            s.mine /\ r = IF s.topic = t THEN [s EXCEPT !.foreign = @ \cup {g}] ELSE s
      BY <2>1, <2>3
    <3>2. PICK p \in sending :
            p.mine /\ q = IF p.topic = t THEN [p EXCEPT !.foreign = @ \cup {g}] ELSE p
      BY <2>1, <2>3
    <3>3. s = p BY <3>1, <3>2 DEF FormsInv, SavesOfForm
    <3> QED BY <3>1, <3>2, <3>3
  <2> QED BY <2>2, <2>3 DEF SavesOfForm
<1> QED BY <1>6, <1>9, <1>11, <1>12 DEF FormsInv

LEMMA FormServingSave ==
    ASSUME FormsInv, NEW s \in sending, F!ServeSave(s)
    PROVE  /\ FormsInv'
           /\ \A f \in F!Field(s.topic) : stored'[s.topic][f] # stored[s.topic][f] =>
                \/ f \in s.edited \cup s.foreign
                \/ f = "size" /\ stored'[s.topic][f] = F!Displayed(stored[s.topic][f])
<1> DEFINE t == s.topic
           x == [f \in F!Field(t) |-> IF s.body[f] = None THEN stored[t][f]
                                     ELSE F!Normal(f, s.body[f])]
           fs == {f \in F!Field(t) : x[f] # stored[t][f]}
<1>1. /\ s.step = "sent" /\ t \in F!Topic
      /\ IsSave(s)
      /\ \A f \in F!Field(t) \ (s.edited \cup s.foreign) :
            Faithful(s.body[f], f, stored[t][f])
  BY DEF FormsInv, SavesAreFaithful, F!ServeSave
<1>2. cached' = cached BY DEF F!ServeSave
<1>3. CASE /\ stored' = [stored EXCEPT ![t] = x] /\ F!Wrote(t, fs, s.mine)
           /\ sending' = F!Outdated(sending \ {s}, t, fs) \cup {[s EXCEPT !.step = "done"]}
  <2> DEFINE d == [s EXCEPT !.step = "done"]
  <2>1. /\ IsSave(d)
        /\ d.topic = t /\ d.body = s.body /\ d.mine = s.mine /\ d.step = "done"
        /\ d.edited = s.edited /\ d.foreign = s.foreign
    BY <1>1, SaveStep
  <2>2. /\ OfFields(t, stored[t])
        /\ \A f \in F!Field(t) : F!Normal(f, stored[t][f]) = stored[t][f]
    BY <1>1 DEF FormsInv, FormsFrame
  <2>3. /\ OfFields(t, x) /\ \A f \in F!Field(t) \ fs : x[f] = stored[t][f]
        /\ \A f \in F!Field(t) : x[f] = IF s.body[f] = None THEN stored[t][f]
                                        ELSE F!Normal(f, s.body[f])
    BY DEF OfFields
  <2>4. \A f \in F!Field(t) : F!Normal(f, x[f]) = x[f] BY <2>2, <2>3, NormalTwice
  <2> HIDE DEF d, x, fs
  <2>5. /\ FormsFrame' /\ CacheIsKnown'
        /\ stored'[t] = x /\ \A u \in F!Topic \ {t} : stored'[u] = stored[u]
    BY <1>1, <1>2, <1>3, <2>3, <2>4, FormWritten
  <2>6. ASSUME NEW f \in F!Field(t), f \notin s.edited \cup s.foreign
        PROVE  x[f] = stored[t][f] \/ (f = "size" /\ x[f] = F!Displayed(stored[t][f])
                                                /\ x[f] = s.body[f])
    <3>1. Faithful(s.body[f], f, stored[t][f]) BY <1>1, <2>6
    <3> QED BY <2>2, <2>3, <3>1 DEF Faithful, F!Normal
  <2>7. form' = IF form.topic = t /\ ~s.mine THEN [form EXCEPT !.foreign = @ \cup fs] ELSE form
    BY <1>3 DEF F!Wrote
  <2>8. /\ IsForm(form') /\ form'.topic = form.topic /\ form'.typed = form.typed
        /\ form'.edited = form.edited
        /\ form'.foreign = IF form.topic = t /\ ~s.mine THEN form.foreign \cup fs
                           ELSE form.foreign
    BY <2>7, FormForeign DEF FormsInv, FormIsFaithful
  <2>9. FormIsFaithful'
    <3>1. ASSUME form.topic # None, NEW f \in F!Field(form.topic),
                 f \notin form.edited \cup form'.foreign
          PROVE  Faithful(form.typed[f], f, stored'[form.topic][f])
      <4>1. form.topic \in F!Topic /\ form.foreign \subseteq form'.foreign
        BY <3>1, <2>8 DEF FormsInv, FormIsFaithful
      <4>2. Faithful(form.typed[f], f, stored[form.topic][f])
        BY <3>1, <4>1 DEF FormsInv, FormIsFaithful
      <4>3. CASE form.topic # t BY <2>5, <4>1, <4>2, <4>3
      <4>4. CASE form.topic = t /\ ~s.mine
        <5>1. f \notin fs BY <2>8, <3>1, <4>4
        <5> QED BY <2>3, <2>5, <3>1, <4>2, <4>4, <5>1
      <4>5. CASE form.topic = t /\ s.mine
        <5>1. /\ s.edited \subseteq form.edited /\ s.foreign \subseteq form.foreign
              /\ s.body[f] = None \/ form.typed[f] = None \/ form.typed[f] = s.body[f]
          BY <3>1, <4>5 DEF FormsInv, SavesOfForm
        <5>2. x[f] = stored[t][f] \/ (f = "size" /\ x[f] = F!Displayed(stored[t][f])
                                              /\ x[f] = s.body[f])
          BY <2>6, <3>1, <4>1, <4>5, <5>1
        <5>3. s.body[f] = None => x[f] = stored[t][f] BY <2>3, <3>1, <4>5
        <5> QED BY <2>5, <4>2, <4>5, <5>1, <5>2, <5>3 DEF Faithful
      <4> QED BY <4>3, <4>4, <4>5
    <3> QED BY <2>8, <3>1 DEF FormsInv, FormIsFaithful
  <2>10. \A r \in sending' : r = d \/ \E p \in sending \ {s} :
            r = IF p.topic = t THEN [p EXCEPT !.foreign = @ \cup fs] ELSE p
    BY <1>3 DEF F!Outdated, d
  <2>11. SavesAreFaithful'
    <3> SUFFICES ASSUME NEW r \in sending'
                 PROVE  /\ IsSave(r)
                        /\ r.topic \in F!Topic
                        /\ r.step = "sent" =>
                            \A f \in F!Field(r.topic) \ (r.edited \cup r.foreign) :
                                Faithful(r.body[f], f, stored'[r.topic][f])
      BY DEF SavesAreFaithful
    <3>1. CASE r = d BY <1>1, <2>1, <3>1
    <3>2. CASE \E p \in sending \ {s} :
                r = IF p.topic = t THEN [p EXCEPT !.foreign = @ \cup fs] ELSE p
      <4>1. PICK p \in sending \ {s} :
                r = IF p.topic = t THEN [p EXCEPT !.foreign = @ \cup fs] ELSE p
        BY <3>2
      <4>2. /\ IsSave(p) /\ p.topic \in F!Topic
            /\ p.step = "sent" =>
                    \A f \in F!Field(p.topic) \ (p.edited \cup p.foreign) :
                        Faithful(p.body[f], f, stored[p.topic][f])
        BY DEF FormsInv, SavesAreFaithful
      <4>3. /\ IsSave(r)
            /\ r.topic = p.topic /\ r.body = p.body /\ r.step = p.step
            /\ r.edited = p.edited
            /\ r.foreign = IF p.topic = t THEN p.foreign \cup fs ELSE p.foreign
        BY <4>1, <4>2, ToldIs
      <4>4. CASE p.topic = t BY <2>3, <2>5, <4>2, <4>3, <4>4
      <4>5. CASE p.topic # t BY <2>5, <4>2, <4>3, <4>5
      <4> QED BY <4>4, <4>5
    <3> QED BY <2>10, <3>1, <3>2
  <2>12. ASSUME NEW r \in sending', r.mine
         PROVE  \E p \in sending :
                    /\ p.mine /\ (p = s => r = d)
                    /\ p # s => r = IF p.topic = t THEN [p EXCEPT !.foreign = @ \cup fs] ELSE p
                    /\ r.topic = p.topic /\ r.body = p.body /\ r.edited = p.edited
                    /\ r.foreign = IF p # s /\ p.topic = t THEN p.foreign \cup fs ELSE p.foreign
    <3>1. CASE r = d BY <2>1, <2>12, <3>1
    <3>2. CASE \E p \in sending \ {s} :
                r = IF p.topic = t THEN [p EXCEPT !.foreign = @ \cup fs] ELSE p
      <4>1. PICK p \in sending \ {s} :
                r = IF p.topic = t THEN [p EXCEPT !.foreign = @ \cup fs] ELSE p
        BY <3>2
      <4>2. /\ r.topic = p.topic /\ r.body = p.body /\ r.mine = p.mine /\ r.edited = p.edited
            /\ r.foreign = IF p.topic = t THEN p.foreign \cup fs ELSE p.foreign
        BY <4>1, ToldIs DEF FormsInv, SavesAreFaithful
      <4> QED BY <2>12, <4>1, <4>2
    <3> QED BY <2>10, <3>1, <3>2
  <2>13. SavesOfForm'
    <3>1. ASSUME NEW r \in sending', r.mine
          PROVE  /\ form'.topic = r.topic /\ form'.topic # None
                 /\ r.edited \subseteq form'.edited /\ r.foreign \subseteq form'.foreign
                 /\ \A f \in F!Field(r.topic) \ form'.edited :
                        r.body[f] = None \/ form'.typed[f] = None \/ form'.typed[f] = r.body[f]
      <4>1. PICK p \in sending :
                /\ p.mine
                /\ r.topic = p.topic /\ r.body = p.body /\ r.edited = p.edited
                /\ r.foreign = IF p # s /\ p.topic = t THEN p.foreign \cup fs ELSE p.foreign
        BY <2>12, <3>1
      <4>2. /\ form.topic = p.topic /\ form.topic # None
            /\ p.edited \subseteq form.edited /\ p.foreign \subseteq form.foreign
            /\ \A f \in F!Field(p.topic) \ form.edited :
                    p.body[f] = None \/ form.typed[f] = None \/ form.typed[f] = p.body[f]
            /\ p # s => ~s.mine
        BY <4>1 DEF FormsInv, SavesOfForm
      <4> QED BY <2>8, <4>1, <4>2
    <3>2. ASSUME NEW r \in sending', NEW q \in sending', r.mine, q.mine
          PROVE  r = q
      <4>1. PICK p \in sending :
                /\ p.mine /\ (p = s => r = d)
                /\ p # s => r = IF p.topic = t THEN [p EXCEPT !.foreign = @ \cup fs] ELSE p
        BY <2>12, <3>2
      <4>2. PICK o \in sending :
                /\ o.mine /\ (o = s => q = d)
                /\ o # s => q = IF o.topic = t THEN [o EXCEPT !.foreign = @ \cup fs] ELSE o
        BY <2>12, <3>2
      <4>3. p = o BY <4>1, <4>2 DEF FormsInv, SavesOfForm
      <4> QED BY <4>1, <4>2, <4>3
    <3> QED BY <3>1, <3>2 DEF SavesOfForm
  <2> QED BY <2>5, <2>6, <2>9, <2>11, <2>13 DEF FormsInv
<1>4. CASE /\ sending' = (sending \ {s}) \cup {[s EXCEPT !.step = "refused"]}
           /\ UNCHANGED <<stored, asking, form, stale>>
  <2> DEFINE d == [s EXCEPT !.step = "refused"]
  <2>1. /\ IsSave(d)
        /\ d.topic = t /\ d.body = s.body /\ d.mine = s.mine /\ d.step = "refused"
        /\ d.edited = s.edited /\ d.foreign = s.foreign
    BY <1>1, SaveStep
  <2>2. sending' = (sending \ {s}) \cup {d} BY <1>4
  <2> HIDE DEF d
  <2>3. SavesAreFaithful' BY <1>1, <1>4, <2>1, <2>2 DEF FormsInv, SavesAreFaithful
  <2>4. SavesOfForm' BY <1>4, <2>1, <2>2 DEF FormsInv, SavesOfForm
  <2> QED BY <1>2, <1>4, <2>3, <2>4 DEF FormsInv, FormsFrame, CacheIsKnown, FormIsFaithful
<1> QED BY <1>3, <1>4 DEF F!ServeSave

LEMMA FormSaveArriving ==
    ASSUME FormsInv, NEW s \in sending, F!SaveArrives(s)
    PROVE  FormsInv'
<1>1. /\ sending' = F!Closing(s, sending \ {s})
      /\ form' = IF F!Closes(s) THEN F!NoForm ELSE IF ~s.mine THEN form
                 ELSE [form EXCEPT !.typed = IF s.topic \in F!Chosen THEN F!Unchosen(s.topic) ELSE @,
                                   !.saved = form.typed = [f \in F!Field(s.topic) |-> s.body[f]]]
      /\ UNCHANGED <<stored, cached, stale>>
  BY DEF F!SaveArrives
<1>2. FormsFrame' /\ CacheIsKnown'
  <2>1. ByTopic(asking')
        /\ \A t \in F!Topic : asking'[t] \in {asking[t], F!Sent, F!Due}
    BY DEF F!SaveArrives, F!Invalidate, ByTopic
  <2> QED BY <1>1, <2>1, AskingKeeps
<1>3. CASE F!Closes(s)
  <2>1. SavesAreFaithful' /\ SavesOfForm'
    BY <1>1, <1>3, OrphansStay DEF FormsInv, F!Closing
  <2> QED BY <1>1, <1>2, <1>3, <2>1, NoFormIs DEF FormsInv, FormIsFaithful
<1>4. CASE ~F!Closes(s)
  <2>1. sending' = sending \ {s} BY <1>1, <1>4 DEF F!Closing
  <2>2. SavesAreFaithful' BY <1>1, <2>1 DEF FormsInv, SavesAreFaithful
  <2>3. CASE ~s.mine
    <3>1. form' = form BY <1>1, <1>4, <2>3
    <3>2. FormIsFaithful' BY <1>1, <3>1 DEF FormsInv, FormIsFaithful
    <3>3. SavesOfForm' BY <2>1, <3>1 DEF FormsInv, SavesOfForm
    <3> QED BY <1>2, <2>2, <3>2, <3>3 DEF FormsInv
  <2>4. CASE s.mine
    <3>1. form.topic = s.topic /\ \A r \in sending' : ~r.mine
      BY <2>1, <2>4 DEF FormsInv, SavesOfForm
    <3> DEFINE v == IF s.topic \in F!Chosen THEN F!Unchosen(s.topic) ELSE form.typed
               w == form.typed = [f \in F!Field(s.topic) |-> s.body[f]]
    <3>2. form' = [form EXCEPT !.typed = v, !.saved = w]
      BY <1>1, <1>4, <2>4
    <3>v. s.topic \in F!Chosen => v = F!Unchosen(s.topic) OBVIOUS
    <3>w. s.topic \notin F!Chosen => v = form.typed OBVIOUS
    <3> HIDE DEF v, w
    <3>3. /\ IsForm(form') /\ form'.topic = form.topic /\ form'.typed = v
          /\ form'.edited = form.edited /\ form'.foreign = form.foreign
      <4>1. IsForm(form) BY DEF FormsInv, FormIsFaithful
      <4> QED BY <3>2, <4>1 DEF IsForm
    <3>4. FormIsFaithful'
      <4>1. CASE s.topic \in F!Chosen
        <5>1. \A f \in F!Field(form.topic) : form'.typed[f] = None
          BY <3>1, <3>3, <3>v, <4>1 DEF F!Unchosen
        <5>2. OfFields(form.topic, form'.typed)
          BY <3>1, <3>3, <3>v, <4>1 DEF F!Unchosen, OfFields
        <5> QED BY <3>3, <5>1, <5>2 DEF FormsInv, FormIsFaithful, Faithful
      <4>2. CASE s.topic \notin F!Chosen
        BY <1>1, <3>3, <3>w, <4>2 DEF FormsInv, FormIsFaithful
      <4> QED BY <4>1, <4>2
    <3>5. SavesOfForm' BY <3>1 DEF SavesOfForm
    <3> QED BY <1>2, <2>2, <3>4, <3>5 DEF FormsInv
  <2> QED BY <2>3, <2>4
<1> QED BY <1>3, <1>4

LEMMA FormSaveFailing ==
    ASSUME FormsInv, NEW s \in sending, F!SaveFails(s)
    PROVE  FormsInv'
<1>1. sending' = sending \ {s} /\ UNCHANGED <<stored, cached, asking, form, stale>>
  BY DEF F!SaveFails
<1> QED BY <1>1 DEF FormsInv, FormsFrame, CacheIsKnown, FormIsFaithful, SavesAreFaithful, SavesOfForm

LEMMA FormsStutter == ASSUME FormsInv, UNCHANGED F!vars PROVE FormsInv'
BY DEF F!vars, FormsInv, FormsFrame, CacheIsKnown, FormIsFaithful, SavesAreFaithful, SavesOfForm

LEMMA FormsKeep == ASSUME FormsInv, [F!Next]_(F!vars) PROVE FormsInv'
<1>1. CASE \E t \in F!Topic :
            \/ F!ServeRead(t) \/ F!ReadArrives(t) \/ F!ReadFails(t) \/ F!Open(t)
            \/ \E f \in F!Field(t) : \E v \in F!Stored(f) : F!Elsewhere(t, f, v)
  BY <1>1, Serving, Arriving, ReadFailing, FormOpening, FormWritingElsewhere
<1>2. CASE \E f \in F!Field(form.topic) : \E v \in F!Value(f) : F!Edit(f, v)
  BY <1>2, FormEditing
<1>3. CASE F!Save BY <1>3, FormSaving
<1>4. CASE \E s \in sending : F!ServeSave(s) \/ F!SaveArrives(s) \/ F!SaveFails(s)
  BY <1>4, FormServingSave, FormSaveArriving, FormSaveFailing
<1>5. CASE UNCHANGED F!vars BY <1>5, FormsStutter
<1> QED BY <1>1, <1>2, <1>3, <1>4, <1>5 DEF F!Next

LEMMA FormsInvariance == F!Spec => []FormsInv
<1> QED BY FormsStart, FormsKeep, PTL DEF F!Spec

\* SystemPanel.tsx:54, UsersPanel.tsx:192: what nobody touched changes by a save only as the
\* display of a size rounds, or where the server was written since the form was filled.
THEOREM UntouchedFieldsStay == F!Spec => UntouchedStays
<1> DEFINE A == \A s \in sending : F!ServeSave(s) =>
                    \A f \in F!Field(s.topic) : stored'[s.topic][f] # stored[s.topic][f] =>
                        \/ f \in s.edited \cup s.foreign
                        \/ f = "size" /\ stored'[s.topic][f] = F!Displayed(stored[s.topic][f])
<1>1. FormsInv => A BY FormServingSave
<1>2. FormsInv /\ [F!Next]_(F!vars) => [A]_(F!vars) BY <1>1
<1> QED BY <1>2, FormsInvariance, PTL DEF F!Spec, UntouchedStays, F!UntouchedStays

-----------------------------------------------------------------------------
(* SettingsForms: what was saved *)

\* What was sent, or what a form says, is what the server has where nobody else wrote.
Reached(x) ==
    \A f \in F!Field(form.topic) \ form.foreign :
        x[f] = None \/ F!Normal(f, x[f]) = stored[form.topic][f]

\* Once a form is saved, nobody else's writing is missed by the answer that is read again.
SavedIsStored ==
    /\ form.saved =>
        /\ form.topic # None
        /\ asking[form.topic].step = "idle" => stale[form.topic] \subseteq form.foreign
        /\ asking[form.topic].step = "served" => asking[form.topic].missed \subseteq form.foreign
        /\ Reached(form.typed)
    /\ \A s \in sending : s.mine /\ (form.saved \/ s.step = "done") => Reached(s.body)

LEMMA SavedStart == ASSUME F!Init PROVE SavedIsStored
BY DEF F!Init, F!NoForm, SavedIsStored

\* A form that is not saved has only its saves to answer for.
LEMMA UnsavedKeeps ==
    ASSUME SavedIsStored, ~form'.saved, form'.topic = form.topic, form'.foreign = form.foreign,
           stored' = stored, sending' \subseteq sending
    PROVE  SavedIsStored'
BY DEF SavedIsStored, Reached

LEMMA OrphansSaved ==
    ASSUME NEW ss \in SUBSET sending, SavesAreFaithful, sending' = F!Orphans(ss), ~form'.saved
    PROVE  SavedIsStored'
<1>1. ASSUME NEW r \in sending' PROVE ~r.mine
  <2>1. PICK s \in ss : r = [s EXCEPT !.mine = FALSE] BY <1>1 DEF F!Orphans
  <2> QED BY <2>1, SaveMine DEF SavesAreFaithful
<1> QED BY <1>1 DEF SavedIsStored

LEMMA SavedServing ==
    ASSUME FormsInv, SavedIsStored, NEW t \in F!Topic, F!ServeRead(t)
    PROVE  SavedIsStored'
<1>1. /\ asking' = [u \in F!Topic |-> IF u \in F!Together(t) /\ asking[u].step = "sent"
                        THEN [step |-> "served", answer |-> stored[u], missed |-> {}]
                        ELSE asking[u]]
      /\ UNCHANGED <<stored, cached, form, sending, stale>>
  BY DEF F!ServeRead
<1>2. form.topic # None => form.topic \in F!Topic BY DEF FormsInv, FormIsFaithful
<1> QED BY <1>1, <1>2 DEF SavedIsStored, Reached

LEMMA SavedArriving ==
    ASSUME FormsInv, SavedIsStored, NEW t \in F!Topic, F!ReadArrives(t)
    PROVE  SavedIsStored'
<1> DEFINE ts == {u \in F!Together(t) : asking[u].step = "served"}
<1>1. /\ stale' = [u \in F!Topic |-> IF u \in ts THEN asking[u].missed ELSE stale[u]]
      /\ asking' = [u \in F!Topic |-> IF u \in ts THEN F!NoFetch ELSE asking[u]]
      /\ UNCHANGED <<stored, form, sending>>
  BY DEF F!ReadArrives
<1>2. \A u \in ts : asking[u].step = "served" OBVIOUS
<1> HIDE DEF ts
<1>3. form.topic # None => form.topic \in F!Topic BY DEF FormsInv, FormIsFaithful
<1>4. CASE form.topic \in ts
  BY <1>1, <1>2, <1>3, <1>4 DEF SavedIsStored, Reached, F!NoFetch
<1>5. CASE form.topic \notin ts
  BY <1>1, <1>3, <1>5 DEF SavedIsStored, Reached
<1> QED BY <1>4, <1>5

LEMMA SavedReadFailing ==
    ASSUME FormsInv, SavedIsStored, NEW t \in F!Topic, F!ReadFails(t)
    PROVE  SavedIsStored'
<1>1. /\ asking' = [u \in F!Topic |-> IF u \in F!Together(t) THEN F!NoFetch ELSE asking[u]]
      /\ UNCHANGED <<stored, cached, stale>>
  BY DEF F!ReadFails
<1>2. IsForm(form) /\ (form.topic # None => form.topic \in F!Topic)
  BY DEF FormsInv, FormIsFaithful
<1>3. CASE form' = F!NoForm /\ F!Unmounted
  BY <1>3, OrphansSaved DEF FormsInv, F!Unmounted, F!NoForm
<1>4. CASE form.topic \in F!Together(t) /\ form' = [form EXCEPT !.saved = FALSE]
           /\ UNCHANGED sending
  <2>1. ~form'.saved /\ form'.topic = form.topic /\ form'.foreign = form.foreign
    BY <1>2, <1>4 DEF IsForm
  <2> QED BY <1>1, <1>4, <2>1, UnsavedKeeps
<1>5. CASE form.topic \notin F!Together(t) /\ form' = form /\ UNCHANGED sending
  BY <1>1, <1>2, <1>5 DEF SavedIsStored, Reached
<1> QED BY <1>3, <1>4, <1>5 DEF F!ReadFails

LEMMA SavedOpening ==
    ASSUME FormsInv, NEW t \in F!Topic, F!Open(t)
    PROVE  SavedIsStored'
<1>1. /\ form' = [F!NoForm EXCEPT !.topic = t, !.typed = F!Initial(t), !.foreign = stale[t]]
      /\ F!Unmounted
  BY DEF F!Open
<1>2. ~form'.saved BY <1>1 DEF F!NoForm
<1> QED BY <1>1, <1>2, OrphansSaved DEF FormsInv, F!Unmounted

LEMMA SavedEditing ==
    ASSUME FormsInv, SavedIsStored, NEW f, NEW v, F!Edit(f, v)
    PROVE  SavedIsStored'
<1>1. /\ form' = [form EXCEPT !.typed[f] = v, !.edited = @ \cup {f}, !.saved = FALSE]
      /\ UNCHANGED <<stored, sending>>
  BY DEF F!Edit
<1>2. ~form'.saved /\ form'.topic = form.topic /\ form'.foreign = form.foreign
  <2>1. IsForm(form) BY DEF FormsInv, FormIsFaithful
  <2> QED BY <1>1, <2>1 DEF IsForm
<1> QED BY <1>1, <1>2, UnsavedKeeps

LEMMA SavedSaving ==
    ASSUME FormsInv, SavedIsStored, F!Save
    PROVE  SavedIsStored'
<1> DEFINE s == [topic |-> form.topic, body |-> F!Payload, mine |-> TRUE, step |-> "sent",
                 edited |-> form.edited, foreign |-> form.foreign]
<1>1. sending' = sending \cup {s} /\ UNCHANGED <<stored, cached, asking, form, stale>>
  BY DEF F!Save
<1>2. s.body = F!Payload /\ s.step = "sent" OBVIOUS
<1> HIDE DEF s
<1>3. \A f \in F!Field(form.topic) : F!Payload[f] = None \/ F!Payload[f] = form.typed[f]
  BY DEF F!Payload
<1>4. form.saved => Reached(s.body) BY <1>2, <1>3 DEF SavedIsStored, Reached
<1> QED BY <1>1, <1>2, <1>4 DEF SavedIsStored, Reached

\* What others write is not what the form said, and known not to be read.
LEMMA SavedTold ==
    ASSUME FormsInv, SavedIsStored, NEW t \in F!Topic, NEW fs, F!Wrote(t, fs, FALSE),
           \A f \in F!Field(t) \ fs : stored'[t][f] = stored[t][f],
           \A u \in F!Topic \ {t} : stored'[u] = stored[u],
           \A r \in sending' : r.mine =>
                \E p \in sending : p.mine /\ p.body = r.body /\ p.step = r.step
    PROVE  SavedIsStored'
<1>1. /\ stale'[t] = stale[t] \cup fs /\ \A u \in F!Topic \ {t} : stale'[u] = stale[u]
      /\ asking'[t].step = asking[t].step
      /\ asking[t].step = "served" => asking'[t].missed = asking[t].missed \cup fs
      /\ \A u \in F!Topic \ {t} : asking'[u] = asking[u]
  BY Telling
<1>2. form' = IF form.topic = t THEN [form EXCEPT !.foreign = @ \cup fs] ELSE form
  BY DEF F!Wrote
<1>3. /\ form'.topic = form.topic /\ form'.typed = form.typed /\ form'.saved = form.saved
      /\ form'.foreign = IF form.topic = t THEN form.foreign \cup fs ELSE form.foreign
  BY <1>2, FormForeign DEF FormsInv, FormIsFaithful
<1>4. form.topic # None => form.topic \in F!Topic BY DEF FormsInv, FormIsFaithful
<1>5. ASSUME NEW y, Reached(y), form.topic # None PROVE Reached(y)'
  <2>1. CASE form.topic = t BY <1>3, <1>5, <2>1 DEF Reached
  <2>2. CASE form.topic # t BY <1>3, <1>4, <1>5, <2>2 DEF Reached
  <2> QED BY <2>1, <2>2
<1>6. ASSUME form'.saved
      PROVE  /\ form'.topic # None
             /\ asking'[form'.topic].step = "idle" => stale'[form'.topic] \subseteq form'.foreign
             /\ asking'[form'.topic].step = "served"
                    => asking'[form'.topic].missed \subseteq form'.foreign
             /\ Reached(form.typed)'
  <2>1. /\ form.topic # None
        /\ asking[form.topic].step = "idle" => stale[form.topic] \subseteq form.foreign
        /\ asking[form.topic].step = "served" => asking[form.topic].missed \subseteq form.foreign
        /\ Reached(form.typed)
    BY <1>3, <1>6 DEF SavedIsStored
  <2>2. Reached(form.typed)' BY <1>3, <2>1, <1>5
  <2>3. CASE form.topic = t BY <1>1, <1>3, <2>1, <2>2, <2>3
  <2>4. CASE form.topic # t BY <1>1, <1>3, <1>4, <2>1, <2>2, <2>4
  <2> QED BY <2>3, <2>4
<1>7. ASSUME NEW r \in sending', r.mine, form'.saved \/ r.step = "done"
      PROVE  Reached(r.body)'
  <2>1. PICK p \in sending : p.mine /\ p.body = r.body /\ p.step = r.step BY <1>7
  <2>2. form.topic # None BY <2>1 DEF FormsInv, SavesOfForm
  <2>3. Reached(p.body) BY <1>3, <1>7, <2>1 DEF SavedIsStored
  <2> QED BY <1>5, <2>1, <2>2, <2>3
<1> QED BY <1>6, <1>7 DEF SavedIsStored

LEMMA SavedWritingElsewhere ==
    ASSUME FormsInv, SavedIsStored, NEW t \in F!Topic, NEW g \in F!Field(t), NEW v,
           F!Elsewhere(t, g, v)
    PROVE  SavedIsStored'
<1> DEFINE x == [stored[t] EXCEPT ![g] = v]
<1>1. /\ stored' = [stored EXCEPT ![t] = x] /\ F!Wrote(t, {g}, FALSE)
      /\ sending' = F!Outdated(sending, t, {g})
  <2>1. stored' = [stored EXCEPT ![t][g] = v] BY DEF F!Elsewhere
  <2> QED BY <2>1 DEF F!Elsewhere
<1>2. ByTopic(stored) /\ OfFields(t, stored[t]) BY DEF FormsInv, FormsFrame
<1>3. \A f \in F!Field(t) \ {g} : x[f] = stored[t][f] BY <1>2 DEF OfFields
<1> HIDE DEF x
<1>4. stored'[t] = x /\ \A u \in F!Topic \ {t} : stored'[u] = stored[u]
  BY <1>1, <1>2 DEF ByTopic
<1>5. ASSUME NEW r \in sending', r.mine
      PROVE  \E p \in sending : p.mine /\ p.body = r.body /\ p.step = r.step
  <2>1. PICK p \in sending : r = IF p.topic = t THEN [p EXCEPT !.foreign = @ \cup {g}] ELSE p
    BY <1>1 DEF F!Outdated
  <2>2. r.body = p.body /\ r.mine = p.mine /\ r.step = p.step
    BY <2>1, ToldIs DEF FormsInv, SavesAreFaithful
  <2> QED BY <1>5, <2>2
<1>6. \A f \in F!Field(t) \ {g} : stored'[t][f] = stored[t][f] BY <1>3, <1>4
<1>7. \A r \in sending' : r.mine =>
            \E p \in sending : p.mine /\ p.body = r.body /\ p.step = r.step
  BY <1>5
<1> QED BY <1>1, <1>4, <1>6, <1>7, SavedTold

LEMMA SavedServingSave ==
    ASSUME FormsInv, SavedIsStored, NEW s \in sending, F!ServeSave(s)
    PROVE  SavedIsStored'
<1> DEFINE t == s.topic
           x == [f \in F!Field(t) |-> IF s.body[f] = None THEN stored[t][f]
                                     ELSE F!Normal(f, s.body[f])]
           fs == {f \in F!Field(t) : x[f] # stored[t][f]}
<1>1. s.step = "sent" /\ t \in F!Topic /\ IsSave(s)
  BY DEF FormsInv, SavesAreFaithful, F!ServeSave
<1>2. CASE /\ stored' = [stored EXCEPT ![t] = x] /\ F!Wrote(t, fs, s.mine)
           /\ sending' = F!Outdated(sending \ {s}, t, fs) \cup {[s EXCEPT !.step = "done"]}
  <2> DEFINE d == [s EXCEPT !.step = "done"]
  <2>1. d.body = s.body /\ d.mine = s.mine /\ d.step = "done" BY <1>1, SaveStep
  <2>2. /\ fs \subseteq F!Field(t) /\ \A f \in F!Field(t) \ fs : x[f] = stored[t][f]
        /\ \A f \in F!Field(t) : s.body[f] = None \/ x[f] = F!Normal(f, s.body[f])
        /\ \A f \in fs : s.body[f] # None /\ x[f] = F!Normal(f, s.body[f]) /\ x[f] # stored[t][f]
    OBVIOUS
  <2> HIDE DEF d, x, fs
  <2>3. stored'[t] = x /\ \A u \in F!Topic \ {t} : stored'[u] = stored[u]
    <3>1. ByTopic(stored) BY DEF FormsInv, FormsFrame
    <3> QED BY <1>1, <1>2, <3>1 DEF ByTopic
  <2>4. \A r \in sending' : r = d \/ \E p \in sending \ {s} :
            p.mine = r.mine /\ p.body = r.body /\ p.step = r.step
    <3> TAKE r \in sending'
    <3> SUFFICES ASSUME r # d
                 PROVE  \E p \in sending \ {s} : p.mine = r.mine /\ p.body = r.body
                                                 /\ p.step = r.step
      OBVIOUS
    <3>1. PICK p \in sending \ {s} :
            r = IF p.topic = t THEN [p EXCEPT !.foreign = @ \cup fs] ELSE p
      BY <1>2 DEF F!Outdated, d
    <3>2. r.body = p.body /\ r.mine = p.mine /\ r.step = p.step
      BY <3>1, ToldIs DEF FormsInv, SavesAreFaithful
    <3> QED BY <3>2
  <2>5. CASE ~s.mine
    <3>1. F!Wrote(t, fs, FALSE) BY <1>2, <2>5 DEF F!Wrote
    <3>2. \A r \in sending' : r.mine =>
                \E p \in sending : p.mine /\ p.body = r.body /\ p.step = r.step
      BY <2>1, <2>4, <2>5
    <3>3. \A f \in F!Field(t) \ fs : stored'[t][f] = stored[t][f] BY <2>2, <2>3
    <3> QED BY <1>1, <2>3, <3>1, <3>2, <3>3, SavedTold
  <2>6. CASE s.mine
    <3>1. form' = form BY <1>2, <2>6 DEF F!Wrote
    <3>2. form.topic = t /\ form.topic # None /\ \A r \in sending' : r.mine => r = d
      BY <2>4, <2>6 DEF FormsInv, SavesOfForm
    <3>3. Reached(d.body)' BY <2>1, <2>2, <2>3, <3>1, <3>2 DEF Reached
    <3>4. ASSUME form.saved
          PROVE  /\ asking'[t].step = "idle" => stale'[t] \subseteq form.foreign
                 /\ asking'[t].step = "served" => asking'[t].missed \subseteq form.foreign
                 /\ Reached(form.typed)'
      <4>1. /\ asking[t].step = "idle" => stale[t] \subseteq form.foreign
            /\ asking[t].step = "served" => asking[t].missed \subseteq form.foreign
            /\ Reached(form.typed) /\ Reached(s.body)
        BY <2>6, <3>2, <3>4 DEF SavedIsStored
      <4>2. fs \subseteq form.foreign BY <2>2, <3>2, <4>1 DEF Reached
      <4>3. /\ stale'[t] = stale[t] \cup fs
            /\ asking'[t].step = asking[t].step
            /\ asking[t].step = "served" => asking'[t].missed = asking[t].missed \cup fs
        BY <1>1, <1>2, Telling
      <4>4. Reached(form.typed)' BY <2>2, <2>3, <3>1, <3>2, <4>1, <4>2 DEF Reached
      <4> QED BY <4>1, <4>2, <4>3, <4>4
    <3> QED BY <3>1, <3>2, <3>3, <3>4 DEF SavedIsStored
  <2> QED BY <2>5, <2>6
<1>3. CASE /\ sending' = (sending \ {s}) \cup {[s EXCEPT !.step = "refused"]}
           /\ UNCHANGED <<stored, asking, form, stale>>
  <2> DEFINE d == [s EXCEPT !.step = "refused"]
  <2>1. d.body = s.body /\ d.mine = s.mine /\ d.step = "refused" BY <1>1, SaveStep
  <2>2. sending' = (sending \ {s}) \cup {d} BY <1>3
  <2> HIDE DEF d
  <2> QED BY <1>3, <2>1, <2>2 DEF SavedIsStored, Reached
<1> QED BY <1>2, <1>3 DEF F!ServeSave

\* A query of what is on the page is sent at once.
LEMMA SavedSaveArriving ==
    ASSUME FormsInv, SavedIsStored, NEW s \in sending, F!SaveArrives(s)
    PROVE  SavedIsStored'
<1>1. /\ s.step = "done"
      /\ sending' = F!Closing(s, sending \ {s})
      /\ form' = IF F!Closes(s) THEN F!NoForm ELSE IF ~s.mine THEN form
                 ELSE [form EXCEPT !.typed = IF s.topic \in F!Chosen THEN F!Unchosen(s.topic) ELSE @,
                                   !.saved = form.typed = [f \in F!Field(s.topic) |-> s.body[f]]]
      /\ UNCHANGED <<stored, cached, stale>>
  BY DEF F!SaveArrives
<1> DEFINE ts == IF s.topic \in F!Chosen THEN F!Topic ELSE F!Together(s.topic)
<1>2. asking' = [t \in F!Topic |-> IF t \notin ts THEN asking[t]
                                   ELSE IF t \in F!Observed THEN F!Sent ELSE F!Due]
  BY DEF F!SaveArrives, F!Invalidate
<1>3. F!Sent.step = "sent" /\ F!Due.step = "due" BY DEF F!Sent, F!Due, F!NoFetch
<1>t. s.topic \in F!Topic => s.topic \in ts BY DEF F!Together
<1> HIDE DEF ts
<1>4. form.topic # None => form.topic \in F!Topic BY DEF FormsInv, FormIsFaithful
<1>5. CASE F!Closes(s)
  <2>1. ~form'.saved BY <1>1, <1>5 DEF F!NoForm
  <2> QED BY <1>1, <1>5, <2>1, OrphansSaved DEF FormsInv, F!Closing
<1>6. CASE ~F!Closes(s) /\ ~s.mine
  <2>1. form' = form /\ sending' = sending \ {s} BY <1>1, <1>6 DEF F!Closing
  <2>2. ASSUME form.topic # None
        PROVE  asking'[form.topic] = asking[form.topic]
                    \/ asking'[form.topic].step \in {"sent", "due"}
    BY <1>2, <1>3, <1>4, <2>2
  <2>3. ASSUME form.saved
        PROVE  /\ form.topic # None
               /\ asking'[form.topic].step = "idle" => stale[form.topic] \subseteq form.foreign
               /\ asking'[form.topic].step = "served"
                    => asking'[form.topic].missed \subseteq form.foreign
               /\ Reached(form.typed)
    BY <2>2, <2>3 DEF SavedIsStored
  <2>4. Reached(form.typed) => Reached(form.typed)' BY <1>1, <2>1 DEF Reached
  <2>5. ASSUME NEW r \in sending', r.mine, form'.saved \/ r.step = "done"
        PROVE  Reached(r.body)'
    <3>1. r \in sending BY <2>1
    <3>2. Reached(r.body) BY <2>1, <2>5, <3>1 DEF SavedIsStored
    <3> QED BY <1>1, <2>1, <3>2 DEF Reached
  <2> QED BY <1>1, <2>1, <2>3, <2>4, <2>5 DEF SavedIsStored
<1>7. CASE ~F!Closes(s) /\ s.mine
  <2>1. sending' = sending \ {s} BY <1>1, <1>7 DEF F!Closing
  <2>2. /\ form.topic = s.topic /\ form.topic # None /\ s.topic \in F!Topic
        /\ \A r \in sending' : ~r.mine
    BY <1>7, <2>1 DEF FormsInv, SavesOfForm, SavesAreFaithful
  <2> DEFINE v == IF s.topic \in F!Chosen THEN F!Unchosen(s.topic) ELSE form.typed
             w == form.typed = [f \in F!Field(s.topic) |-> s.body[f]]
  <2>3. form' = [form EXCEPT !.typed = v, !.saved = w] BY <1>1, <1>7
  <2>4. w => Reached(v)
    <3>1. CASE s.topic \in F!Chosen BY <2>2, <3>1 DEF Reached, F!Unchosen
    <3>2. CASE s.topic \notin F!Chosen
      <4>1. Reached(s.body) BY <1>1, <1>7 DEF SavedIsStored
      <4> QED BY <2>2, <3>2, <4>1 DEF Reached
    <3> QED BY <3>1, <3>2
  <2> HIDE DEF v, w
  <2>5. /\ form'.topic = form.topic /\ form'.typed = v /\ form'.foreign = form.foreign
        /\ form'.saved = w
    <3>1. IsForm(form) BY DEF FormsInv, FormIsFaithful
    <3> QED BY <2>3, <3>1 DEF IsForm
  <2>6. w => Reached(form.typed)' BY <1>1, <2>4, <2>5 DEF Reached
  <2>7. asking'[form.topic].step \in {"sent", "due"} BY <1>2, <1>3, <1>t, <2>2
  <2> QED BY <2>2, <2>5, <2>6, <2>7 DEF SavedIsStored
<1> QED BY <1>5, <1>6, <1>7

LEMMA SavedSaveFailing ==
    ASSUME SavedIsStored, NEW s \in sending, F!SaveFails(s)
    PROVE  SavedIsStored'
<1>1. sending' = sending \ {s} /\ UNCHANGED <<stored, asking, form, stale>> BY DEF F!SaveFails
<1> QED BY <1>1 DEF SavedIsStored, Reached

LEMMA SavedKeeps ==
    ASSUME FormsInv, SavedIsStored, [F!Next]_(F!vars)
    PROVE  SavedIsStored'
<1>1. CASE \E t \in F!Topic :
            \/ F!ServeRead(t) \/ F!ReadArrives(t) \/ F!ReadFails(t) \/ F!Open(t)
            \/ \E f \in F!Field(t) : \E v \in F!Stored(f) : F!Elsewhere(t, f, v)
  BY <1>1, SavedServing, SavedArriving, SavedReadFailing, SavedOpening, SavedWritingElsewhere
<1>2. CASE \E f \in F!Field(form.topic) : \E v \in F!Value(f) : F!Edit(f, v)
  BY <1>2, SavedEditing
<1>3. CASE F!Save BY <1>3, SavedSaving
<1>4. CASE \E s \in sending : F!ServeSave(s) \/ F!SaveArrives(s) \/ F!SaveFails(s)
  BY <1>4, SavedServingSave, SavedSaveArriving, SavedSaveFailing
<1>5. CASE UNCHANGED F!vars BY <1>5 DEF F!vars, SavedIsStored, Reached
<1> QED BY <1>1, <1>2, <1>3, <1>4, <1>5 DEF F!Next

LEMMA SavedIsKnown == ASSUME FormsInv, SavedIsStored PROVE F!NothingLeftToSave
<1> SUFFICES ASSUME form.saved, asking[form.topic].step = "idle", form.foreign = {}, F!Dirty
             PROVE  \E f \in F!Field(form.topic) : form.typed[f] # F!Normal(f, form.typed[f])
  BY DEF F!NothingLeftToSave
<1>1. /\ form.topic \in F!Topic /\ stale[form.topic] = {} /\ Reached(form.typed)
  BY DEF SavedIsStored, FormsInv, FormIsFaithful
<1>2. PICK f \in F!Field(form.topic) :
            form.typed[f] # None /\ form.typed[f] # cached[form.topic][f]
  BY DEF F!Dirty
<1>3. cached[form.topic][f] = stored[form.topic][f] BY <1>1 DEF FormsInv, CacheIsKnown
<1>4. F!Normal(f, form.typed[f]) = stored[form.topic][f] BY <1>1, <1>2 DEF Reached
<1> QED BY <1>2, <1>3, <1>4

\* SystemPanel.tsx:63, format.ts:3: what was saved and read again is not offered to be saved
\* once more, whatever else is saved, read or written meanwhile; and every size is displayed
\* within a hundredth of what it is, and stays when that is read back.
THEOREM FormsAlwaysSettle == F!Spec => []FormsSettle
<1>1. F!Init => FormsInv /\ SavedIsStored BY FormsStart, SavedStart
<1>2. FormsInv /\ SavedIsStored /\ [F!Next]_(F!vars) => FormsInv' /\ SavedIsStored'
  BY FormsKeep, SavedKeeps
<1>3. FormsInv /\ SavedIsStored => FormsSettle
  BY SavedIsKnown, SizesAlwaysSettle DEF FormsSettle
<1> QED BY <1>1, <1>2, <1>3, PTL DEF F!Spec

-----------------------------------------------------------------------------
(* The page of a folder: listings *)

\* A listing, a request for one, a change that is under way: records, of entries of the
\* folder they are about.
ListOf(l, d) ==
    /\ l = [has |-> l.has, items |-> l.items, private |-> l.private,
            stale |-> l.stale, error |-> l.error]
    /\ l.items \subseteq Children(d)

FetchOf(f, d) ==
    /\ f = [step |-> f.step, answer |-> f.answer]
    /\ ListOf(f.answer, d) /\ ~f.answer.stale

JobOf(j) ==
    /\ DOMAIN j = {"step", "key", "prev", "paths", "to", "made", "left"}
    /\ j.prev.has => j.key \in Key /\ j.prev.items \subseteq Children(j.key[1])
    /\ j.step = "none" => j.made = {}

JobsFrame == job = [k \in Kind |-> job[k]] /\ \A k \in Kind : JobOf(job[k])
CacheFrame(c) == c = [k \in Key |-> c[k]] /\ \A k \in Key : ListOf(c[k], k[1])
FetchFrame(f) == f = [k \in Key |-> f[k]] /\ \A k \in Key : FetchOf(f[k], k[1])
ViewFrame == dir \in Folder /\ sort \in Sort
LagsFrame == keptLag \in [Key -> Lag] /\ readLag \in [Key -> Lag]

\* A change is shown ahead of its answer.
Ahead == job["delete"].step # "none" \/ job["private"].step # "none"

\* A change is shown ahead of its answer, or made, and the listings are not yet invalidated.
Awaiting ==
    \/ Ahead
    \/ job["move"].step = "done" \/ job["upload"].step = "done"
    \/ job["drop"].made # {}

\* A listing that has missed nothing is what the server has, and so is an answer; and what
\* the tab is still to be told of, it will be told of.
LagIsTrue(k) ==
    /\ ~Ahead /\ keptLag[k] = "none" /\ cache[k].has /\ ~cache[k].stale
        => cache[k] = Listing(k[1])
    /\ fetch[k].step = "served" /\ readLag[k] = "none" /\ fetch[k].answer.has
        => fetch[k].answer = Listing(k[1])
    /\ keptLag[k] = "due" \/ readLag[k] = "due" => Awaiting
KeptIsTrue == \A k \in Key : LagIsTrue(k)

\* What is shown and is not being read is kept as good, unless it could not be read.
ScreenIsKept ==
    /\ ~Ahead
    /\ fetch[Shown].step = "idle" /\ ~cache[Shown].error
    => cache[Shown].has /\ ~cache[Shown].stale

ListsInv ==
    /\ ViewFrame /\ CacheFrame(cache) /\ FetchFrame(fetch) /\ JobsFrame /\ LagsFrame
    /\ KeptIsTrue /\ ScreenIsKept

\* Every listing that is asked for is of a folder and in an order.
LEMMA ShownIsKey == ASSUME ViewFrame PROVE Shown \in Key /\ Shown[1] = dir
BY DEF ViewFrame, Shown, Key

\* Requests, field by field.
LEMMA FetchFields ==
    ASSUME NEW s, NEW a, NEW r, r = [step |-> s, answer |-> a]
    PROVE  /\ r.step = s /\ r.answer = a
           /\ r = [step |-> r.step, answer |-> r.answer]
           /\ \A x : [r EXCEPT !.step = x] = [step |-> x, answer |-> a]
           /\ \A x : [r EXCEPT !.answer = x] = [step |-> s, answer |-> x]
<1>1. r.step = s /\ r.answer = a OBVIOUS
<1>2. r = [step |-> r.step, answer |-> r.answer] OBVIOUS
<1>3. \A x : [r EXCEPT !.step = x] = [step |-> x, answer |-> a] OBVIOUS
<1>4. \A x : [r EXCEPT !.answer = x] = [step |-> s, answer |-> x] OBVIOUS
<1> QED BY <1>1, <1>2, <1>3, <1>4

\* The listings of the server (files.go:25), and those a change makes up.
LEMMA ListsOf ==
    ASSUME NEW d, NEW items \in SUBSET Children(d), NEW private
    PROVE  /\ ListOf(List(items, private), d) /\ ListOf(NoList, d) /\ ListOf(Listing(d), d)
           /\ FetchOf(Idle, d) /\ FetchOf(Sent, d)
           /\ Idle.step = "idle" /\ Sent.step = "sent"
           /\ ~NoList.has /\ ~NoList.stale /\ ~Listing(d).stale
<1>1. ListOf(List(items, private), d) BY DEF ListOf, List
<1>2. ListOf(NoList, d) /\ ~NoList.has /\ ~NoList.stale BY DEF ListOf, NoList
<1>3. ListOf(Listing(d), d) /\ ~Listing(d).stale BY DEF ListOf, List, Listing
<1>4. FetchOf(Idle, d) /\ Idle.step = "idle" BY <1>2, FetchFields DEF FetchOf, Idle
<1>5. Sent = [step |-> "sent", answer |-> NoList]
  <2>1. Idle = [step |-> "idle", answer |-> NoList] BY DEF Idle
  <2> QED BY <2>1, FetchFields DEF Sent
<1>6. FetchOf(Sent, d) /\ Sent.step = "sent" BY <1>2, <1>5, FetchFields DEF FetchOf
<1> QED BY <1>1, <1>2, <1>3, <1>4, <1>6

LEMMA JobsOf == JobOf(NoJob) /\ NoJob.step = "none" /\ NoJob.made = {}
BY DEF JobOf, NoJob, NoList

\* Sharing a request changes none of what it has answered.
LEMMA Sharing ==
    ASSUME NEW f, FetchFrame(f), NEW s \in Key
    PROVE  /\ FetchFrame(Read(f, s)) /\ Read(f, s)[s].step # "idle"
           /\ \A k \in Key : Read(f, s)[k] = f[k] \/ Read(f, s)[k].step = "sent"
<1>1. CASE f[s].step = "idle"
  <2>1. Read(f, s) = [k \in Key |-> IF k = s THEN Sent ELSE f[k]]
    BY <1>1 DEF Read, FetchFrame
  <2> QED BY <2>1, ListsOf DEF FetchFrame
<1>2. CASE f[s].step # "idle" BY <1>2 DEF Read
<1> QED BY <1>1, <1>2

\* What a step makes listings miss.
LEMMA Striking ==
    ASSUME NEW lag \in [Key -> Lag], NEW hit, NEW mark \in Lag
    PROVE  /\ Struck(lag, hit, mark) \in [Key -> Lag]
           /\ \A k \in Key : Struck(lag, hit, mark)[k] = IF k \in hit THEN mark ELSE lag[k]
BY DEF Struck

LEMMA Turning ==
    ASSUME NEW lag \in [Key -> Lag], NEW from, NEW mark \in Lag
    PROVE  /\ Turned(lag, from, mark) \in [Key -> Lag]
           /\ \A k \in Key : Turned(lag, from, mark)[k] = IF lag[k] = from THEN mark ELSE lag[k]
BY DEF Turned

LEMMA LagsOf == {"none", "due", "outrun", "untold"} = Lag BY DEF Lag

\* After invalidateQueries (Browser.tsx:76) no listing is kept as good, the listing that is
\* shown is being read, and no answer that has missed a change is taken for the truth.
LEMMA Invalidating ==
    ASSUME ViewFrame, FetchFrame(fetch), LagsFrame, NEW c, CacheFrame(c), Invalidate(c)
    PROVE  /\ CacheFrame(cache') /\ FetchFrame(fetch') /\ LagsFrame'
           /\ \A k \in Key :
                /\ cache'[k].stale /\ keptLag'[k] # "due" /\ readLag'[k] # "due"
                /\ fetch'[k].step = "served" /\ readLag'[k] = "none"
                    => fetch'[k] = fetch[k] /\ readLag[k] = "none"
           /\ fetch'[Shown].step # "idle"
<1>1. Shown \in Key BY ShownIsKey
<1>3. \A k \in Key : cache'[k] = [c[k] EXCEPT !.stale = TRUE] BY DEF Invalidate
<1>4. \A k \in Key :
        cache'[k] = [has |-> c[k].has, items |-> c[k].items, private |-> c[k].private,
                     stale |-> TRUE, error |-> c[k].error]
  BY <1>3 DEF CacheFrame, ListOf
<1>5. CacheFrame(cache') /\ \A k \in Key : cache'[k].stale
  BY <1>4 DEF CacheFrame, ListOf, Invalidate
<1> DEFINE t == Turned(readLag, "due", "outrun")
           hit == IF c[Shown].has THEN {Shown} ELSE {}
<1>6. t \in [Key -> Lag] /\ \A k \in Key : t[k] = IF readLag[k] = "due" THEN "outrun" ELSE readLag[k]
  BY Turning, LagsOf DEF LagsFrame
<1>7. readLag' = Struck(t, hit, "none") BY DEF Invalidate, Outrun
<1> HIDE DEF t, hit
<1>8. readLag' \in [Key -> Lag] /\ \A k \in Key : readLag'[k] = IF k \in hit THEN "none" ELSE t[k]
  BY <1>6, <1>7, Striking, LagsOf
<1>9. keptLag' \in [Key -> Lag] /\ \A k \in Key : keptLag'[k] = "none"
  BY LagsOf DEF Invalidate
<1>10. \A k \in Key : /\ keptLag'[k] # "due" /\ readLag'[k] # "due"
                      /\ readLag'[k] = "none" /\ k \notin hit => readLag[k] = "none"
  BY <1>6, <1>8, <1>9
<1>11. /\ FetchFrame(fetch') /\ fetch'[Shown].step # "idle"
       /\ \A k \in Key : fetch'[k] = fetch[k] \/ fetch'[k].step = "sent"
       /\ \A k \in hit : fetch'[k].step = "sent"
  <2>1. CASE c[Shown].has
    <3>1. fetch' = [k \in Key |-> IF k = Shown THEN Sent ELSE fetch[k]]
      BY <2>1 DEF FetchFrame, Invalidate
    <3>2. FetchFrame(fetch') BY <3>1, ListsOf DEF FetchFrame
    <3> QED BY <1>1, <3>1, <3>2, ListsOf DEF hit
  <2>2. CASE ~c[Shown].has
    <3>1. fetch' = Read(fetch, Shown) /\ hit = {} BY <2>2 DEF Invalidate, hit
    <3> QED BY <1>1, <3>1, Sharing
  <2> QED BY <2>1, <2>2
<1> QED BY <1>5, <1>8, <1>9, <1>10, <1>11 DEF LagsFrame

\* So a change that is settled by it leaves nothing to be wrong about.
LEMMA Settling ==
    ASSUME ListsInv, NEW c, CacheFrame(c), Invalidate(c), JobsFrame',
           UNCHANGED <<live, marked, dir, sort>>
    PROVE  ListsInv'
<1>1. /\ CacheFrame(cache') /\ FetchFrame(fetch') /\ LagsFrame'
      /\ \A k \in Key :
                /\ cache'[k].stale /\ keptLag'[k] # "due" /\ readLag'[k] # "due"
                /\ fetch'[k].step = "served" /\ readLag'[k] = "none"
                    => fetch'[k] = fetch[k] /\ readLag[k] = "none"
      /\ fetch'[Shown].step # "idle"
  BY Invalidating DEF ListsInv
<1>2. ViewFrame' /\ Shown' = Shown BY DEF ListsInv, ViewFrame, Shown
<1>3. KeptIsTrue' BY <1>1 DEF ListsInv, KeptIsTrue, LagIsTrue, Listing
<1>4. ScreenIsKept' BY <1>1, <1>2 DEF ScreenIsKept
<1> QED BY <1>1, <1>2, <1>3, <1>4 DEF ListsInv

\* What changes neither the storage nor a listing nor a change under way.
LEMMA ListsUntouched ==
    ASSUME ListsInv, UNCHANGED <<live, marked, dir, sort, cache, fetch, job, lags>>
    PROVE  ListsInv'
BY DEF ListsInv, ViewFrame, CacheFrame, FetchFrame, JobsFrame, LagsFrame, KeptIsTrue, LagIsTrue,
       ScreenIsKept, Awaiting, Ahead, Shown, Listing, lags

\* A folder, or an order, comes to be shown (Browser.tsx:402).
LEMMA Viewing ==
    ASSUME ListsInv, NEW d \in Folder, NEW s \in Sort, Show(d, s),
           UNCHANGED <<live, marked, cache, job, lags>>
    PROVE  ListsInv'
<1> DEFINE k == <<d, s>>
<1>1. dir' = d /\ sort' = s /\ Shown' = k /\ k \in Key
  BY DEF Show, Shown, Key
<1>2. /\ FetchFrame(fetch')
      /\ \A x \in Key : fetch'[x] = fetch[x] \/ fetch'[x].step = "sent"
      /\ fetch'[k].step # "idle" \/ (cache[k].has /\ ~cache[k].stale)
  <2>1. CASE fetch' = Read(fetch, k)
    BY <1>1, <2>1, Sharing DEF ListsInv
  <2>2. CASE fetch' = fetch /\ cache[k].has /\ ~cache[k].stale
    BY <2>2 DEF ListsInv
  <2> QED BY <2>1, <2>2 DEF Show
<1> HIDE DEF k
<1>3. KeptIsTrue'
  BY <1>2 DEF ListsInv, KeptIsTrue, LagIsTrue, Awaiting, Ahead, Listing, lags
<1>4. ScreenIsKept' BY <1>1, <1>2 DEF ScreenIsKept
<1> QED BY <1>1, <1>2, <1>3, <1>4 DEF ListsInv, ViewFrame, JobsFrame, LagsFrame, lags

\* The server answers a request for a listing (files.go:25).
LEMMA ListServing == ASSUME ListsInv, NEW k \in Key, ServeList(k) PROVE ListsInv'
<1> DEFINE a == IF Exists(k[1]) THEN Listing(k[1]) ELSE NoList
<1>1. /\ fetch[k].step = "sent"
      /\ UNCHANGED <<live, marked, dir, sort, cache, job, keptLag>>
      /\ readLag' = [readLag EXCEPT ![k] = "none"]
  BY DEF ServeList, server, view
<1>2. ListOf(a, k[1]) /\ ~a.stale /\ (a.has => a = Listing(k[1])) BY ListsOf
<1>3. FetchFrame(fetch) BY DEF ListsInv
<1>4. fetch' = [x \in Key |-> IF x = k THEN [step |-> "served", answer |-> a] ELSE fetch[x]]
  <2>1. [fetch[k] EXCEPT !.step = "served", !.answer = a] = [step |-> "served", answer |-> a]
    <3> DEFINE f == fetch[k]
               g == [f EXCEPT !.step = "served"]
    <3>1. f = [step |-> f.step, answer |-> f.answer]
      BY <1>3 DEF FetchFrame, FetchOf
    <3>2. g = [step |-> "served", answer |-> f.answer]
      BY <3>1, FetchFields
    <3>3. [g EXCEPT !.answer = a] = [step |-> "served", answer |-> a]
      <4> HIDE DEF g, f
      <4> QED BY <3>2, FetchFields
    <3> QED BY <3>3
  <2>2. fetch' = [x \in Key |->
                    IF x = k THEN [fetch[k] EXCEPT !.step = "served", !.answer = a] ELSE fetch[x]]
    BY <1>3 DEF ServeList, FetchFrame
  <2> QED BY <2>1, <2>2
<1> HIDE DEF a
<1>5. FetchFrame(fetch')
  BY <1>2, <1>3, <1>4 DEF FetchFrame, FetchOf
<1>6. fetch'[k].step = "served" /\ fetch'[k].answer = a /\ \A x \in Key \ {k} : fetch'[x] = fetch[x]
  BY <1>4
<1>9. /\ LagsFrame' /\ readLag'[k] = "none"
      /\ \A x \in Key \ {k} : readLag'[x] = readLag[x]
  BY <1>1, LagsOf DEF ListsInv, LagsFrame
<1>7. KeptIsTrue'
  BY <1>1, <1>2, <1>6, <1>9 DEF ListsInv, KeptIsTrue, LagIsTrue, Awaiting, Ahead, Listing
<1>8. ScreenIsKept'
  <2>1. Shown \in Key BY ShownIsKey DEF ListsInv
  <2>2. Shown' = Shown BY <1>1 DEF Shown
  <2> QED BY <1>1, <1>6, <2>1, <2>2 DEF ListsInv, ScreenIsKept, Ahead
<1> QED BY <1>1, <1>5, <1>7, <1>8, <1>9 DEF ListsInv, ViewFrame, CacheFrame, JobsFrame

\* A listing that is read again, or cannot be (client.ts:49, queryClient.ts:5).
LEMMA FailedListing ==
    ASSUME NEW l, NEW d, ListOf(l, d)
    PROVE  ListOf(Failed(l), d) /\ Failed(l).stale /\ Failed(l).error
<1>1. Failed(l) = [has |-> l.has, items |-> l.items, private |-> l.private,
                     stale |-> TRUE, error |-> TRUE]
  <2> DEFINE m(x) == [l EXCEPT !.stale = x]
  <2>1. ASSUME NEW x
        PROVE  [l EXCEPT !.stale = x, !.error = x]
                = [has |-> l.has, items |-> l.items, private |-> l.private, stale |-> x, error |-> x]
    <3>1. m(x) = [has |-> l.has, items |-> l.items, private |-> l.private, stale |-> x, error |-> l.error]
      BY DEF ListOf
    <3>2. [m(x) EXCEPT !.error = x]
            = [has |-> l.has, items |-> l.items, private |-> l.private, stale |-> x, error |-> x]
      <4> HIDE DEF m
      <4> QED BY <3>1
    <3> QED BY <3>2
  <2> QED BY <2>1, Zenon DEF Failed
<1> QED BY <1>1 DEF ListOf

LEMMA ListArriving ==
    ASSUME ListsInv, NEW k \in Key, ListArrives(k) \/ ListFails(k)
    PROVE  ListsInv'
<1>1. /\ fetch' = [fetch EXCEPT ![k] = Idle]
      /\ UNCHANGED <<live, marked, dir, sort, job>>
  BY DEF ListArrives, ListFails, server, view
<1>2. PICK l : /\ cache' = [cache EXCEPT ![k] = l]
               /\ \/ l = Failed(cache[k])
                  \/ /\ fetch[k].step = "served" /\ l = fetch[k].answer /\ l.has
                     /\ keptLag'[k] = readLag[k]
  BY DEF ListArrives, ListFails, ListsInv, LagsFrame
<1>12. /\ LagsFrame'
       /\ keptLag'[k] \in {keptLag[k], readLag[k]} /\ readLag'[k] \in {readLag[k], "none"}
       /\ \A x \in Key \ {k} : keptLag'[x] = keptLag[x] /\ readLag'[x] = readLag[x]
  BY LagsOf DEF ListArrives, ListFails, ListsInv, LagsFrame, lags
<1>3. FetchFrame(fetch) /\ CacheFrame(cache) BY DEF ListsInv
<1>4. ListOf(l, k[1])
  BY <1>2, <1>3, FailedListing DEF FetchFrame, CacheFrame, FetchOf
<1>5. cache' = [x \in Key |-> IF x = k THEN l ELSE cache[x]]
  BY <1>2, <1>3 DEF CacheFrame
<1>6. fetch' = [x \in Key |-> IF x = k THEN Idle ELSE fetch[x]]
  BY <1>1, <1>3 DEF FetchFrame
<1>7. CacheFrame(cache') BY <1>3, <1>4, <1>5 DEF CacheFrame
<1>8. FetchFrame(fetch') BY <1>3, <1>6, ListsOf DEF FetchFrame
<1>9. l.stale \/ (keptLag'[k] = "none" => l = Listing(k[1]))
  BY <1>2, <1>3, FailedListing DEF CacheFrame, ListsInv, KeptIsTrue, LagIsTrue
<1>10. KeptIsTrue'
  <2> SUFFICES ASSUME NEW x \in Key PROVE LagIsTrue(x)'
    BY DEF KeptIsTrue
  <2>3. LagIsTrue(x) /\ (Awaiting <=> Awaiting') /\ (Ahead <=> Ahead') /\ Listing(x[1])' = Listing(x[1])
    BY <1>1 DEF ListsInv, KeptIsTrue, Awaiting, Ahead, Listing
  <2>1. CASE x = k
    <3>1. cache'[x] = l /\ fetch'[x] = Idle BY <1>5, <1>6, <2>1
    <3> QED BY <1>9, <1>12, <2>1, <2>3, <3>1, ListsOf DEF LagIsTrue
  <2>2. CASE x # k
    BY <1>5, <1>6, <1>12, <2>2, <2>3 DEF LagIsTrue
  <2> QED BY <2>1, <2>2
<1>11. ScreenIsKept'
  <2>1. CASE Shown = k
    <3>1. l.error \/ (l.has /\ ~l.stale)
      <4>1. CASE l = Failed(cache[k])
        BY <1>3, <4>1, FailedListing DEF CacheFrame
      <4>2. CASE fetch[k].step = "served" /\ l = fetch[k].answer /\ l.has
        BY <1>3, <4>2 DEF FetchFrame, FetchOf
      <4> QED BY <1>2, <4>1, <4>2
    <3> QED BY <1>1, <1>5, <2>1, <3>1 DEF ScreenIsKept, Shown
  <2>2. CASE Shown # k
    <3>1. Shown \in Key BY ShownIsKey DEF ListsInv
    <3>2. cache'[Shown] = cache[Shown] /\ fetch'[Shown] = fetch[Shown] /\ Shown' = Shown
      BY <1>1, <1>5, <1>6, <2>2, <3>1 DEF Shown
    <3> QED BY <1>1, <3>2 DEF ListsInv, ScreenIsKept, Ahead
  <2> QED BY <2>1, <2>2
<1> QED BY <1>1, <1>7, <1>8, <1>10, <1>11, <1>12 DEF ListsInv, ViewFrame, JobsFrame

\* A change of one kind moves on; the others stay where they are.
LEMMA JobWith ==
    ASSUME JobsFrame, NEW kind \in Kind, NEW j, JobOf(j), job' = [job EXCEPT ![kind] = j]
    PROVE  JobsFrame' /\ job'[kind] = j /\ \A k \in Kind \ {kind} : job'[k] = job[k]
<1>1. job' = [k \in Kind |-> IF k = kind THEN j ELSE job[k]] BY DEF JobsFrame
<1> QED BY <1>1 DEF JobsFrame

\* A change that is asked for has not made anything.
LEMMA NewDelete ==
    ASSUME NEW key \in Key, NEW prev, prev.items \subseteq Children(key[1]), NEW paths
    PROVE  LET j == [NoJob EXCEPT !.step = "sent", !.key = key, !.prev = prev, !.paths = paths]
           IN  JobOf(j) /\ j.step = "sent"
<1> DEFINE j == [NoJob EXCEPT !.step = "sent", !.key = key, !.prev = prev, !.paths = paths]
<1>1. DOMAIN j = {"step", "key", "prev", "paths", "to", "made", "left"} BY DEF NoJob
<1>2. j.step = "sent" /\ j.made = {} BY DEF NoJob
<1>3. j.key = key /\ j.prev = prev BY DEF NoJob
<1> QED BY <1>1, <1>2, <1>3 DEF JobOf

PrivateJob(key, prev, paths, to) ==
    [NoJob EXCEPT !.step = "sent", !.key = key, !.prev = prev, !.paths = paths, !.to = to]

LEMMA NewPrivate ==
    ASSUME NEW key \in Key, NEW prev, prev.items \subseteq Children(key[1]), NEW paths, NEW to
    PROVE  JobOf(PrivateJob(key, prev, paths, to)) /\ PrivateJob(key, prev, paths, to).step = "sent"
<1> DEFINE j == PrivateJob(key, prev, paths, to)
<1>1. DOMAIN j = {"step", "key", "prev", "paths", "to", "made", "left"} BY DEF NoJob, PrivateJob
<1>2. j.step = "sent" /\ j.made = {} BY DEF NoJob, PrivateJob
<1>3. j.key = key /\ j.prev = prev BY DEF NoJob, PrivateJob
<1> HIDE DEF j
<1>4. JobOf(j) BY <1>1, <1>2, <1>3 DEF JobOf
<1> QED BY <1>2, <1>4 DEF j

LEMMA NewMoves ==
    ASSUME NEW paths, NEW to, NEW left,
           NEW j, j \in {[NoJob EXCEPT !.step = "sent", !.paths = paths, !.to = to],
                        [NoJob EXCEPT !.step = "sent", !.paths = paths, !.to = to, !.left = left],
                        [NoJob EXCEPT !.step = "sent", !.to = to]}
    PROVE  JobOf(j) /\ j.step = "sent" /\ j.made = {}
<1>1. DOMAIN j = {"step", "key", "prev", "paths", "to", "made", "left"} BY DEF NoJob
<1>2. j.step = "sent" /\ j.made = {} BY DEF NoJob
<1>3. j.prev = NoList BY DEF NoJob
<1>4. ~NoList.has BY DEF NoList
<1> QED BY <1>1, <1>2, <1>3, <1>4 DEF JobOf

\* No change that is shown ahead of its answer is over.
AheadStay == Ahead => Ahead'

\* A change is asked for, refused, or over without having changed anything.
LEMMA JobMoving ==
    ASSUME ListsInv, JobsFrame', Awaiting => Awaiting', AheadStay,
           UNCHANGED <<live, marked, dir, sort, cache, fetch, lags>>
    PROVE  ListsInv'
<1>1. KeptIsTrue' BY DEF ListsInv, KeptIsTrue, LagIsTrue, Listing, AheadStay, lags
<1>2. ScreenIsKept' BY DEF ListsInv, ScreenIsKept, AheadStay, Shown
<1> QED BY <1>1, <1>2 DEF ListsInv, ViewFrame, CacheFrame, FetchFrame, LagsFrame, lags

\* A change is shown ahead of its answer (Browser.tsx:56, 80): nothing need be true then.
LEMMA Foreseeing ==
    ASSUME ListsInv, NEW list, ListOf(list, dir), Foresee(Shown, list), JobsFrame',
           job'["delete"].step # "none" \/ job'["private"].step # "none",
           UNCHANGED <<live, marked, dir, sort>>
    PROVE  ListsInv'
<1> DEFINE s == Shown
<1>1. s \in Key /\ s[1] = dir BY ShownIsKey DEF ListsInv
<1>5. fetch' = [k \in Key |-> IF k = s THEN Idle ELSE fetch[k]]
  BY DEF ListsInv, FetchFrame, Foresee
<1>6. /\ LagsFrame' /\ keptLag' = keptLag
      /\ readLag' = [k \in Key |-> IF k = s THEN "none" ELSE readLag[k]]
  BY LagsOf DEF ListsInv, LagsFrame, Foresee
<1>7. Ahead' /\ Awaiting' BY DEF Ahead, Awaiting
<1>2. KeptIsTrue' /\ ScreenIsKept'
  BY <1>5, <1>6, <1>7, ListsOf DEF ListsInv, KeptIsTrue, LagIsTrue, ScreenIsKept, Listing
<1>3. FetchFrame(fetch')
  BY <1>5, ListsOf DEF ListsInv, FetchFrame
<1>4. CacheFrame(cache')
  <2>1. CASE cache[s].has
    <3>1. cache' = [k \in Key |-> IF k = s THEN list ELSE cache[k]]
      BY <2>1 DEF ListsInv, CacheFrame, Foresee
    <3> HIDE DEF s
    <3> QED BY <1>1, <3>1 DEF ListsInv, CacheFrame
  <2>2. CASE ~cache[s].has
    BY <2>2 DEF ListsInv, CacheFrame, Foresee
  <2> QED BY <2>1, <2>2
<1> QED BY <1>2, <1>3, <1>4, <1>6 DEF ListsInv, ViewFrame

\* The storage changes, and the listings it alters are marked: they will be invalidated for
\* it, or nobody tells the tab (dnd.tsx:136).
LEMMA Marking ==
    ASSUME ListsInv, JobsFrame', AheadStay, Awaiting => Awaiting', NEW mark \in Lag,
           keptLag' = Struck(keptLag, Hit, mark), readLag' = Struck(readLag, Passed, mark),
           mark # "none", mark = "due" => Awaiting', UNCHANGED <<dir, sort, cache, fetch>>
    PROVE  ListsInv'
<1>1. /\ LagsFrame'
      /\ \A k \in Key :
            /\ keptLag'[k] = IF k \in Hit THEN mark ELSE keptLag[k]
            /\ readLag'[k] = IF k \in Passed THEN mark ELSE readLag[k]
  <2> DEFINE hit == Hit
             passed == Passed
  <2>1. keptLag' = Struck(keptLag, hit, mark) /\ readLag' = Struck(readLag, passed, mark)
    OBVIOUS
  <2>2. keptLag \in [Key -> Lag] /\ readLag \in [Key -> Lag] /\ mark \in Lag
    BY DEF ListsInv, LagsFrame
  <2> HIDE DEF hit, passed
  <2>3. /\ keptLag' \in [Key -> Lag]
        /\ \A k \in Key : keptLag'[k] = IF k \in hit THEN mark ELSE keptLag[k]
    BY <2>1, <2>2, Striking
  <2>4. /\ readLag' \in [Key -> Lag]
        /\ \A k \in Key : readLag'[k] = IF k \in passed THEN mark ELSE readLag[k]
    BY <2>1, <2>2, Striking
  <2> QED BY <2>3, <2>4 DEF LagsFrame, hit, passed
<1>2. \A k \in Key : k \notin Hit => Listing(k[1])' = Listing(k[1]) BY DEF Hit
<1>3. \A k \in Key : fetch[k].step = "served" /\ k \notin Passed => k \notin Hit BY DEF Passed
<1>4. KeptIsTrue'
  <2> SUFFICES ASSUME NEW k \in Key PROVE LagIsTrue(k)'
    BY DEF KeptIsTrue
  <2>1. LagIsTrue(k) BY DEF ListsInv, KeptIsTrue
  <2> QED BY <1>1, <1>2, <1>3, <2>1 DEF LagIsTrue, AheadStay
<1>5. ScreenIsKept' BY DEF ListsInv, ScreenIsKept, AheadStay, Shown
<1> QED BY <1>1, <1>4, <1>5 DEF ListsInv, ViewFrame, CacheFrame, FetchFrame

LEMMA Changed ==
    ASSUME ListsInv, JobsFrame', Heard, Awaiting', AheadStay, UNCHANGED <<dir, sort, cache, fetch>>
    PROVE  ListsInv'
BY Marking, LagsOf DEF Heard

LEMMA NotTold ==
    ASSUME ListsInv, JobsFrame', Unheard, AheadStay, Awaiting => Awaiting',
           UNCHANGED <<dir, sort, cache, fetch>>
    PROVE  ListsInv'
BY Marking, LagsOf DEF Unheard

\* The moves that were made of a drop are not told of after all (dnd.tsx:136).
LEMMA Untelling ==
    ASSUME ListsInv, JobsFrame', AheadStay, UNCHANGED <<live, marked, dir, sort, cache, fetch>>,
           keptLag' = Turned(keptLag, "due", "untold"), readLag' = Turned(readLag, "due", "untold")
    PROVE  ListsInv'
<1>1. /\ LagsFrame'
      /\ \A k \in Key :
            /\ keptLag'[k] = IF keptLag[k] = "due" THEN "untold" ELSE keptLag[k]
            /\ readLag'[k] = IF readLag[k] = "due" THEN "untold" ELSE readLag[k]
  BY Turning, LagsOf DEF ListsInv, LagsFrame
<1>2. KeptIsTrue' BY <1>1 DEF ListsInv, KeptIsTrue, LagIsTrue, AheadStay, Listing
<1>3. ScreenIsKept' BY DEF ListsInv, ScreenIsKept, AheadStay, Shown
<1> QED BY <1>1, <1>2, <1>3 DEF ListsInv, ViewFrame, CacheFrame, FetchFrame

\* An answer moves a change on.
LEMMA Answering ==
    ASSUME JobsFrame, NEW k \in Kind, NEW s, s # "none", Answered(k, s)
    PROVE  /\ JobsFrame' /\ job'[k].step = s /\ job'[k].made = job[k].made
           /\ \A x \in Kind \ {k} : job'[x] = job[x]
<1> DEFINE j == [job[k] EXCEPT !.step = s]
<1>1. JobOf(job[k]) BY DEF JobsFrame
<1>2. /\ DOMAIN j = DOMAIN job[k] /\ j.step = s /\ j.made = job[k].made
      /\ j.prev = job[k].prev /\ j.key = job[k].key
  BY <1>1 DEF JobOf
<1>3. JobOf(j)
  <2> HIDE DEF j
  <2> QED BY <1>1, <1>2 DEF JobOf
<1>4. job' = [job EXCEPT ![k] = j] BY DEF Answered
<1> HIDE DEF j
<1> QED BY <1>2, <1>3, <1>4, JobWith

\* A delete and a private mark are asked for from the folder that is shown by then.
LEMMA ListsAsked ==
    ASSUME ListsInv, ConfirmDelete \/ TogglePrivate
    PROVE  ListsInv'
<1>1. Shown \in Key /\ Shown[1] = dir BY ShownIsKey DEF ListsInv
<1>2. Items \subseteq Children(dir) BY <1>1 DEF ListsInv, CacheFrame, ListOf, Items
<1>3. JobsFrame /\ UNCHANGED <<live, marked, dir, sort>> /\ cache[Shown].items \subseteq Children(Shown[1])
  BY <1>1, <1>2 DEF ListsInv, ConfirmDelete, TogglePrivate, server, view, Items
<1>4. CASE ConfirmDelete
  <2> DEFINE j == [NoJob EXCEPT !.step = "sent", !.key = Shown, !.prev = cache[Shown],
                                  !.paths = confirm]
             l == List(Items \ confirm, cache[Shown].private \ confirm)
  <2>1. JobOf(j) /\ j.step = "sent" BY <1>1, <1>3, NewDelete
  <2>2. job' = [job EXCEPT !["delete"] = j] /\ Foresee(Shown, l)
    BY <1>4 DEF ConfirmDelete, Ask
  <2>3. ListOf(l, dir) BY <1>2, ListsOf
  <2> HIDE DEF j, l
  <2>4. JobsFrame' /\ job'["delete"].step = "sent" BY <1>3, <2>1, <2>2, JobWith DEF Kind
  <2> QED BY <1>3, <2>2, <2>3, <2>4, Foreseeing
<1>5. CASE TogglePrivate
  <2> DEFINE l == List(Items, IF menu.private THEN cache[Shown].private \ {menu.file}
                                  ELSE cache[Shown].private \cup ({menu.file} \cap Items))
  <2>1. PICK paths : job' = [job EXCEPT !["private"] =
                                PrivateJob(Shown, cache[Shown], paths, menu.file)]
    BY <1>5, Zenon DEF TogglePrivate, Ask, PrivateJob
  <2> DEFINE j == PrivateJob(Shown, cache[Shown], paths, menu.file)
  <2>2. JobOf(j) /\ j.step = "sent" BY <1>1, <1>3, NewPrivate
  <2>3. Foresee(Shown, l) BY <1>5 DEF TogglePrivate
  <2>4. ListOf(l, dir) BY <1>2, ListsOf
  <2> HIDE DEF j, l
  <2>5. JobsFrame' /\ job'["private"].step = "sent" BY <1>3, <2>1, <2>2, JobWith DEF Kind, j
  <2> QED BY <1>3, <2>3, <2>4, <2>5, Foreseeing
<1> QED BY <1>4, <1>5

\* A move, a drop and an upload are only asked for.
LEMMA MovesAsked ==
    ASSUME ListsInv,
           \/ \E to \in Path : SubmitMove(to) \/ Upload(to)
           \/ \E p \in Path, d \in Folder : Drop(p, d)
    PROVE  ListsInv'
<1>1. /\ JobsFrame
      /\ UNCHANGED <<live, marked, dir, sort, cache, fetch, lags>>
  BY DEF ListsInv, SubmitMove, Upload, Drop, server, view, lists
<1>2. PICK k \in {"move", "drop", "upload"} : \E j :
        /\ job[k].step = "none" /\ job' = [job EXCEPT ![k] = j]
        /\ JobOf(j) /\ j.step = "sent" /\ j.made = {}
  <2>1. ASSUME NEW to \in Path, SubmitMove(to)
        PROVE  \E j : /\ job["move"].step = "none" /\ job' = [job EXCEPT !["move"] = j]
                      /\ JobOf(j) /\ j.step = "sent" /\ j.made = {}
    <3>1. PICK from \in asked : Ask("move", [NoJob EXCEPT !.step = "sent", !.paths = {from}, !.to = to])
      BY <2>1 DEF SubmitMove
    <3> DEFINE j == [NoJob EXCEPT !.step = "sent", !.paths = {from}, !.to = to]
    <3>2. JobOf(j) /\ j.step = "sent" /\ j.made = {} BY NewMoves
    <3>3. job["move"].step = "none" /\ job' = [job EXCEPT !["move"] = j] BY <3>1 DEF Ask
    <3> HIDE DEF j
    <3> QED BY <3>2, <3>3
  <2>2. ASSUME NEW p \in Path, Upload(p)
        PROVE  \E j : /\ job["upload"].step = "none" /\ job' = [job EXCEPT !["upload"] = j]
                      /\ JobOf(j) /\ j.step = "sent" /\ j.made = {}
    <3> DEFINE j == [NoJob EXCEPT !.step = "sent", !.to = p]
    <3>2. JobOf(j) /\ j.step = "sent" /\ j.made = {} BY NewMoves
    <3>3. job["upload"].step = "none" /\ job' = [job EXCEPT !["upload"] = j]
      BY <2>2 DEF Upload, Ask
    <3> HIDE DEF j
    <3> QED BY <3>2, <3>3
  <2>3. ASSUME NEW p \in Path, NEW d \in Folder, Drop(p, d)
        PROVE  \E j : /\ job["drop"].step = "none" /\ job' = [job EXCEPT !["drop"] = j]
                      /\ JobOf(j) /\ j.step = "sent" /\ j.made = {}
    <3>1. PICK ps : Ask("drop", [NoJob EXCEPT !.step = "sent", !.paths = ps, !.to = d, !.left = ps])
      BY <2>3 DEF Drop
    <3> DEFINE j == [NoJob EXCEPT !.step = "sent", !.paths = ps, !.to = d, !.left = ps]
    <3>2. JobOf(j) /\ j.step = "sent" /\ j.made = {} BY NewMoves
    <3>3. job["drop"].step = "none" /\ job' = [job EXCEPT !["drop"] = j] BY <3>1 DEF Ask
    <3> HIDE DEF j
    <3> QED BY <3>2, <3>3
  <2> QED BY <2>1, <2>2, <2>3
<1>7. PICK j :
        /\ job[k].step = "none" /\ job' = [job EXCEPT ![k] = j]
        /\ JobOf(j) /\ j.step = "sent" /\ j.made = {}
  BY <1>2
<1>3. JobsFrame' /\ job'[k] = j /\ \A x \in Kind \ {k} : job'[x] = job[x]
  BY <1>1, <1>7, JobWith DEF Kind
<1>4. JobOf(job[k]) BY <1>1, <1>7 DEF JobsFrame, Kind
<1>5. Awaiting => Awaiting' BY <1>7, <1>3, <1>4 DEF Awaiting, Ahead, JobOf, Kind
<1>6. AheadStay BY <1>7, <1>3 DEF AheadStay, Ahead, Kind
<1> QED BY <1>1, <1>3, <1>5, <1>6, JobMoving

LEMMA Refusing == ASSUME ListsInv, NEW k \in Kind, Refused(k) PROVE ListsInv'
<1>1. /\ JobsFrame /\ k \in {"delete", "private", "move"} /\ job[k].step = "sent"
      /\ UNCHANGED <<live, marked, dir, sort, cache, fetch, lags>>
      /\ Answered(k, "failed")
  BY DEF ListsInv, Refused, server, view, lists
<1>2. JobsFrame' /\ job'[k].step = "failed" /\ \A x \in Kind \ {k} : job'[x] = job[x]
  BY <1>1, Answering
<1>3. (Awaiting => Awaiting') /\ AheadStay BY <1>1, <1>2 DEF Awaiting, AheadStay, Ahead, Kind
<1> QED BY <1>1, <1>2, <1>3, JobMoving

\* The server has carried out a change (admin.go:23, users.go:254), wholly or in part.
LEMMA ChangeServing ==
    ASSUME ListsInv, ServeDelete \/ ServeMissing \/ ServePrivate \/ ServeUpload
    PROVE  ListsInv'
<1>1. /\ JobsFrame /\ UNCHANGED <<dir, sort, cache, fetch>>
      /\ Heard \/ UNCHANGED <<live, marked, lags>>
  BY DEF ListsInv, ServeDelete, ServeMissing, ServePrivate, ServeUpload, server, view, lists
<1>2. PICK k \in {"delete", "private", "upload"}, s \in {"done", "failed"} :
        Answered(k, s) /\ (k = "upload" => s = "done")
  BY DEF ServeDelete, ServeMissing, ServePrivate, ServeUpload, Verdict
<1>3. JobsFrame' /\ job'[k].step = s /\ \A x \in Kind \ {k} : job'[x] = job[x]
  BY <1>1, <1>2, Answering DEF Kind
<1>4. Awaiting' /\ AheadStay BY <1>2, <1>3 DEF Awaiting, AheadStay, Ahead, Kind
<1> QED BY <1>1, <1>3, <1>4, Changed, JobMoving

LEMMA MoveServing == ASSUME ListsInv, ServeMove PROVE ListsInv'
<1>1. JobsFrame /\ UNCHANGED <<dir, sort, cache, fetch>>
  BY DEF ListsInv, ServeMove, view, lists
<1>2. job["move"].step = "sent" BY DEF ServeMove
<1>3. PICK s \in {"done", "failed"} :
        /\ Answered("move", s)
        /\ (s = "done" /\ Heard) \/ Unheard
  BY DEF ServeMove, MoveFails
<1>4. JobsFrame' /\ job'["move"].step = s /\ \A x \in Kind \ {"move"} : job'[x] = job[x]
  BY <1>1, <1>3, Answering DEF Kind
<1>5. AheadStay BY <1>4 DEF AheadStay, Ahead, Kind
<1>6. CASE s = "done" /\ Heard
  <2>1. Awaiting' BY <1>4, <1>6 DEF Awaiting
  <2> QED BY <1>1, <1>4, <1>5, <1>6, <2>1, Changed
<1>7. CASE Unheard
  <2>1. Awaiting => Awaiting' BY <1>2, <1>4 DEF Awaiting, Ahead, Kind
  <2> QED BY <1>1, <1>4, <1>5, <1>7, <2>1, NotTold
<1> QED BY <1>3, <1>6, <1>7

LEMMA DropServing == ASSUME ListsInv, ServeDrop PROVE ListsInv'
<1> DEFINE j == job["drop"]
<1>1. JobsFrame /\ UNCHANGED <<dir, sort, cache, fetch>> /\ j.step = "sent"
  BY DEF ListsInv, ServeDrop, view, lists
<1>2. JobOf(j) BY <1>1 DEF JobsFrame, Kind
<1>3. PICK from \in j.left :
        \/ /\ job' = [job EXCEPT !["drop"].left = @ \ {from}, !["drop"].made = @ \cup {from}]
           /\ Heard
        \/ /\ job' = [job EXCEPT !["drop"].left = @ \ {from}]
           /\ Unheard \/ UNCHANGED <<live, marked, lags>>
  BY DEF ServeDrop, MoveFails, server
<1>4. CASE /\ job' = [job EXCEPT !["drop"].left = @ \ {from}, !["drop"].made = @ \cup {from}]
           /\ Heard
  <2> DEFINE i == [j EXCEPT !.left = @ \ {from}, !.made = @ \cup {from}]
  <2>1. DOMAIN i = DOMAIN j /\ i.step = j.step /\ i.prev = j.prev /\ i.key = j.key
    BY <1>2 DEF JobOf
  <2>2. i.made = j.made \cup {from} BY <1>2 DEF JobOf
  <2>3. job' = [job EXCEPT !["drop"] = i] BY <1>1, <1>4 DEF JobsFrame, Kind
  <2> HIDE DEF i
  <2>4. JobOf(i) BY <1>1, <1>2, <2>1 DEF JobOf
  <2>5. JobsFrame' /\ job'["drop"] = i /\ \A x \in Kind \ {"drop"} : job'[x] = job[x]
    BY <1>1, <2>3, <2>4, JobWith DEF Kind
  <2>6. Awaiting' BY <2>2, <2>5 DEF Awaiting
  <2>7. AheadStay BY <2>5 DEF AheadStay, Ahead, Kind
  <2> QED BY <1>1, <1>4, <2>5, <2>6, <2>7, Changed
<1>5. CASE /\ job' = [job EXCEPT !["drop"].left = @ \ {from}]
           /\ Unheard \/ UNCHANGED <<live, marked, lags>>
  <2> DEFINE i == [j EXCEPT !.left = @ \ {from}]
  <2>1. /\ DOMAIN i = DOMAIN j /\ i.step = j.step /\ i.prev = j.prev /\ i.key = j.key
        /\ i.made = j.made
    BY <1>2 DEF JobOf
  <2>3. job' = [job EXCEPT !["drop"] = i] BY <1>5
  <2> HIDE DEF i
  <2>4. JobOf(i) BY <1>1, <1>2, <2>1 DEF JobOf
  <2>5. JobsFrame' /\ job'["drop"] = i /\ \A x \in Kind \ {"drop"} : job'[x] = job[x]
    BY <1>1, <2>3, <2>4, JobWith DEF Kind
  <2>6. Awaiting => Awaiting' BY <2>1, <2>5 DEF Awaiting, Ahead, Kind
  <2>7. AheadStay BY <2>5 DEF AheadStay, Ahead, Kind
  <2>8. CASE Unheard BY <1>1, <2>5, <2>6, <2>7, <2>8, NotTold
  <2>9. CASE UNCHANGED <<live, marked, lags>>
    BY <1>1, <2>5, <2>6, <2>7, <2>9, JobMoving
  <2> QED BY <1>5, <2>8, <2>9
<1> QED BY <1>3, <1>4, <1>5

LEMMA ChangingElsewhere == ASSUME ListsInv, Elsewhere PROVE ListsInv'
<1>1. Unheard /\ UNCHANGED <<dir, sort, cache, fetch, job>> BY DEF Elsewhere, view, lists
<1>2. JobsFrame' /\ AheadStay /\ (Awaiting => Awaiting')
  BY <1>1 DEF ListsInv, JobsFrame, AheadStay, Ahead, Awaiting
<1> QED BY <1>1, <1>2, NotTold

\* A change is settled: what was taken back is the list it replaced (Browser.tsx:70, 96).
LEMMA TakingBack ==
    ASSUME CacheFrame(cache), NEW j, JobOf(j)
    PROVE  CacheFrame(TakenBack(cache, j))
<1> DEFINE l == List(j.prev.items, j.prev.private)
<1>1. CASE j.prev.has
  <2>1. j.key \in Key /\ ListOf(l, j.key[1]) BY <1>1, ListsOf DEF JobOf
  <2>2. TakenBack(cache, j) = [k \in Key |-> IF k = j.key THEN l ELSE cache[k]]
    BY <1>1, <2>1 DEF TakenBack, CacheFrame
  <2> HIDE DEF l
  <2> QED BY <2>1, <2>2 DEF CacheFrame
<1>2. CASE ~j.prev.has BY <1>2 DEF TakenBack
<1> QED BY <1>1, <1>2

LEMMA JobOver ==
    ASSUME JobsFrame, NEW k \in Kind, Over(k)
    PROVE  JobsFrame' /\ job'[k] = NoJob /\ \A x \in Kind \ {k} : job'[x] = job[x]
BY JobsOf, JobWith DEF Over

LEMMA ChangeSettling ==
    ASSUME ListsInv, NEW k \in Kind, ChangeSettled(k)
    PROVE  ListsInv'
<1>1. JobsFrame' BY JobOver DEF ListsInv, ChangeSettled
<1>2. JobOf(job[k]) /\ CacheFrame(cache) BY DEF ListsInv, JobsFrame
<1>3. PICK c : CacheFrame(c) /\ Invalidate(c)
  BY <1>2, TakingBack DEF ChangeSettled
<1>4. UNCHANGED <<live, marked, dir, sort>> BY DEF ChangeSettled, server, view
<1> QED BY <1>1, <1>3, <1>4, Settling

LEMMA MoveSettling == ASSUME ListsInv, MoveSettled PROVE ListsInv'
<1>1. /\ JobsFrame' /\ job'["move"] = NoJob
      /\ \A x \in Kind \ {"move"} : job'[x] = job[x]
  BY JobOver DEF ListsInv, MoveSettled, Kind
<1>2. UNCHANGED <<live, marked, dir, sort>> /\ CacheFrame(cache)
  BY DEF ListsInv, MoveSettled, server, view
<1>3. CASE job["move"].step = "done"
  BY <1>1, <1>2, <1>3, Settling DEF MoveSettled
<1>4. CASE job["move"].step # "done"
  <2>1. UNCHANGED <<cache, fetch, lags>> BY <1>4 DEF MoveSettled, lists
  <2>2. (Awaiting => Awaiting') /\ AheadStay BY <1>1, <1>4 DEF Awaiting, AheadStay, Ahead, Kind
  <2> QED BY <1>1, <1>2, <2>1, <2>2, JobMoving
<1> QED BY <1>3, <1>4

\* One move of a drop that was refused, and the listings stay as they are (dnd.tsx:136).
LEMMA DropSettling == ASSUME ListsInv, DropSettled PROVE ListsInv'
<1>1. /\ JobsFrame' /\ job'["drop"] = NoJob
      /\ \A x \in Kind \ {"drop"} : job'[x] = job[x]
  BY JobOver DEF ListsInv, DropSettled, Kind
<1>2. UNCHANGED <<live, marked, dir, sort>> /\ CacheFrame(cache)
  BY DEF ListsInv, DropSettled, server, view
<1>3. AheadStay BY <1>1 DEF AheadStay, Ahead, Kind
<1>4. CASE Invalidate(cache)
  BY <1>1, <1>2, <1>4, Settling
<1>5. CASE /\ keptLag' = Turned(keptLag, "due", "untold")
           /\ readLag' = Turned(readLag, "due", "untold") /\ UNCHANGED lists
  BY <1>1, <1>2, <1>3, <1>5, Untelling DEF lists
<1>6. CASE job["drop"].made = {} /\ UNCHANGED <<lists, lags>>
  <2>1. (Awaiting => Awaiting') /\ UNCHANGED <<cache, fetch>>
    BY <1>1, <1>6 DEF Awaiting, Ahead, Kind, lists
  <2> QED BY <1>1, <1>2, <1>3, <1>6, <2>1, JobMoving
<1> QED BY <1>4, <1>5, <1>6 DEF DropSettled

LEMMA UploadSettling == ASSUME ListsInv, UploadSettled PROVE ListsInv'
<1>1. JobsFrame' BY JobOver DEF ListsInv, UploadSettled, Kind
<1>2. UNCHANGED <<live, marked, dir, sort>> /\ CacheFrame(cache) /\ Invalidate(cache)
  BY DEF ListsInv, UploadSettled, server, view
<1> QED BY <1>1, <1>2, Settling

LEMMA ListsStart == Init => ListsInv
<1> SUFFICES ASSUME Init PROVE ListsInv
  OBVIOUS
<1> DEFINE idle == [k \in Key |-> Idle]
<1>1. ViewFrame BY DEF Init, ViewFrame, Folder
<1>2. Shown \in Key BY <1>1, ShownIsKey
<1>3. FetchFrame(idle) BY ListsOf DEF FetchFrame
<1>4. fetch = Read(idle, Shown) BY DEF Init
<1>5. \A k \in Key : fetch[k].step # "served" /\ FetchOf(fetch[k], k[1])
  <2> HIDE DEF idle
  <2>1. \A k \in Key : idle[k].step = "idle" BY ListsOf DEF idle
  <2> QED BY <1>2, <1>3, <1>4, <2>1, Sharing DEF FetchFrame
<1>6. FetchFrame(fetch) /\ fetch[Shown].step # "idle"
  <2> HIDE DEF idle
  <2> QED BY <1>2, <1>3, <1>4, Sharing
<1>7. \A k \in Key : cache[k] = NoList /\ ~NoList.has BY ListsOf DEF Init
<1>8. CacheFrame(cache) BY ListsOf DEF Init, CacheFrame
<1>9. JobsFrame BY JobsOf DEF Init, JobsFrame
<1>12. LagsFrame /\ \A k \in Key : keptLag[k] = "none" /\ readLag[k] = "none"
  BY LagsOf DEF Init, LagsFrame
<1>10. KeptIsTrue BY <1>5, <1>7, <1>12 DEF KeptIsTrue, LagIsTrue
<1>11. ScreenIsKept BY <1>6 DEF ScreenIsKept
<1> QED BY <1>1, <1>6, <1>8, <1>9, <1>10, <1>11, <1>12 DEF ListsInv

LEMMA ListsKept == ASSUME ListsInv, [Next]_vars PROVE ListsInv'
<1>1. CASE UNCHANGED vars BY <1>1, ListsUntouched DEF vars, lags
<1>2. CASE Gesture
  <2>1. ASSUME NEW d \in Folder, Navigate(d) PROVE ListsInv'
    BY <2>1, Viewing DEF Navigate, server, ListsInv, ViewFrame
  <2>2. ASSUME NEW s \in Sort, SetSort(s) PROVE ListsInv'
    BY <2>2, Viewing DEF SetSort, server, ListsInv, ViewFrame
  <2>3. ASSUME NEW p \in Path,
               SelectEntry(p, TRUE) \/ SelectEntry(p, FALSE) \/ ItemContextMenu(p)
        PROVE  ListsInv'
    BY <2>3, ListsUntouched DEF SelectEntry, ItemContextMenu, server, view, lists
  <2>4. CASE SelectAll \/ CloseMenu \/ StartMarquee \/ EndMarquee
    BY <2>4, ListsUntouched
    DEF SelectAll, CloseMenu, StartMarquee, EndMarquee, server, view, lists
  <2>5. ASSUME NEW hits, Frame(hits) PROVE ListsInv'
    BY <2>5, ListsUntouched DEF Frame, server, view, lists
  <2>6. CASE ChooseDelete \/ ChooseMove \/ CloseDialog
    BY <2>6, ListsUntouched DEF ChooseDelete, ChooseMove, CloseDialog, server, view, lists
  <2>7. CASE ConfirmDelete \/ TogglePrivate BY <2>7, ListsAsked
  <2>8. CASE \/ \E to \in Path : SubmitMove(to) \/ Upload(to)
             \/ \E p \in Path, d \in Folder : Drop(p, d)
    BY <2>8, MovesAsked
  <2> QED BY <1>2, <2>1, <2>2, <2>3, <2>4, <2>5, <2>6, <2>7, <2>8 DEF Gesture
<1>3. CASE \E k \in Key : ServeList(k) \/ ListArrives(k) \/ ListFails(k)
  BY <1>3, ListServing, ListArriving
<1>4. CASE Serve
  BY <1>4, ChangeServing, MoveServing, DropServing DEF Serve
<1>5. CASE \E k \in Kind : Refused(k) BY <1>5, Refusing
<1>6. CASE Settle
  BY <1>6, ChangeSettling, MoveSettling, DropSettling, UploadSettling DEF Settle, Kind
<1>7. CASE Elsewhere BY <1>7, ChangingElsewhere
<1> QED BY <1>1, <1>2, <1>3, <1>4, <1>5, <1>6, <1>7 DEF Next

LEMMA ListsInvariance == Spec => []ListsInv
<1> QED BY ListsStart, ListsKept, PTL DEF Spec

\* Browser.tsx:56, 80: when every answer is in, what is kept as good is what the server has,
\* whatever overlapped and was taken back, and what is on the screen is kept as good; save
\* for a listing altered by a change the tab was not told of, and one not on the screen, or
\* not read yet, whose answer was overtaken by the news of a change.
THEOREM ListingsAreTrue == Spec => []QuietListIsTrue
<1>1. ListsInv => QuietListIsTrue
  <2> SUFFICES ASSUME ListsInv, Quiet
               PROVE  /\ \A k \in Key :
                            /\ cache[k].has /\ ~cache[k].stale
                            /\ keptLag[k] \notin {"outrun", "untold"}
                            => cache[k] = Listing(k[1])
                      /\ ~cache[Shown].error => cache[Shown].has /\ ~cache[Shown].stale
    BY DEF QuietListIsTrue
  <2>1. \A k \in Kind : job[k].step = "none" /\ job[k].made = {}
    BY DEF ListsInv, JobsFrame, JobOf, Quiet
  <2>2. ~Awaiting /\ ~Ahead BY <2>1 DEF Awaiting, Ahead, Kind
  <2>3. fetch[Shown].step = "idle" BY ShownIsKey DEF ListsInv, Quiet
  <2>4. \A k \in Key : keptLag[k] \in Lag BY DEF ListsInv, LagsFrame
  <2> QED BY <2>2, <2>3, <2>4 DEF ListsInv, KeptIsTrue, LagIsTrue, ScreenIsKept, Lag
<1> QED BY <1>1, ListsInvariance, PTL

-----------------------------------------------------------------------------
(* The page of a folder: the selection *)

\* A rectangle that was started on a selection of its folder's, and what it can meet, lie in
\* the folder it was started in (useMarquee.ts:45).
BandIsOf == band.on /\ band.own => band.base \cup band.reach \subseteq Children(band.of)

PicksInv == stray \in BOOLEAN /\ BandIsOf /\ SelectionIsInFolder

LEMMA PicksUntouched ==
    ASSUME PicksInv, UNCHANGED <<dir, sel, menu, band, stray>>
    PROVE  PicksInv'
BY DEF PicksInv, BandIsOf, SelectionIsInFolder

\* A choice among the rows, or among what was chosen.
LEMMA Choosing ==
    ASSUME PicksInv, UNCHANGED <<dir, band, stray>>,
           sel' \cup menu'.targets \subseteq sel \cup menu.targets \cup Children(dir)
    PROVE  PicksInv'
BY DEF PicksInv, BandIsOf, SelectionIsInFolder

LEMMA Rowed ==
    ASSUME ListsInv
    PROVE  Items \subseteq Children(dir) /\ Rows \subseteq Children(dir)
<1>1. Shown \in Key /\ Shown[1] = dir BY ShownIsKey DEF ListsInv
<1> QED BY <1>1 DEF ListsInv, CacheFrame, ListOf, Items, Rows

LEMMA Navigating ==
    ASSUME PicksInv, NEW d \in Folder, Navigate(d)
    PROVE  PicksInv'
BY DEF PicksInv, BandIsOf, SelectionIsInFolder, Navigate, Select, NoMenu

LEMMA Selecting ==
    ASSUME ListsInv, PicksInv,
           \/ \E p \in Path :
                SelectEntry(p, TRUE) \/ SelectEntry(p, FALSE) \/ ItemContextMenu(p)
           \/ SelectAll \/ CloseMenu \/ ChooseDelete \/ ChooseMove \/ TogglePrivate
           \/ ConfirmDelete
    PROVE  PicksInv'
<1>1. UNCHANGED <<dir, band, stray>>
  BY DEF SelectEntry, ItemContextMenu, SelectAll, CloseMenu, ChooseDelete, ChooseMove,
         TogglePrivate, ConfirmDelete, view
<1>2. NoMenu.targets = {} BY DEF NoMenu
<1>3. sel' \cup menu'.targets \subseteq sel \cup menu.targets \cup Children(dir)
  <2>1. ASSUME NEW p \in Path, SelectEntry(p, TRUE) \/ SelectEntry(p, FALSE)
        PROVE  sel' \subseteq sel \cup Children(dir) /\ menu' = NoMenu
    BY <2>1, Rowed DEF SelectEntry, Select
  <2>2. ASSUME NEW p \in Path, ItemContextMenu(p)
        PROVE  sel' \cup menu'.targets \subseteq sel \cup Children(dir)
    BY <2>2, Rowed DEF ItemContextMenu, Select
  <2>3. CASE SelectAll
    BY <1>2, <2>3, Rowed DEF SelectAll, Select
  <2>4. CASE CloseMenu \/ ChooseDelete \/ ChooseMove \/ TogglePrivate \/ ConfirmDelete
    BY <1>2, <2>4 DEF CloseMenu, ChooseDelete, ChooseMove, TogglePrivate, ConfirmDelete,
                      Select
  <2> QED BY <1>2, <2>1, <2>2, <2>3, <2>4
<1> QED BY <1>1, <1>3, Choosing

\* useMarquee.ts:31: what the rectangle meets is of the folder it was started in.
LEMMA Marquee ==
    ASSUME ListsInv, PicksInv,
           StartMarquee \/ (\E hits \in SUBSET band.reach : Frame(hits)) \/ EndMarquee
    PROVE  PicksInv'
<1>1. CASE StartMarquee
  <2>1. /\ band' = [on |-> TRUE, of |-> dir, own |-> ~stray, base |-> sel, reach |-> Rows]
        /\ UNCHANGED <<dir, sel, menu, stray>>
    BY <1>1 DEF StartMarquee, view
  <2>2. band'.of = dir /\ band'.base = sel /\ band'.reach = Rows /\ band'.own = ~stray
    BY <2>1
  <2>3. ~stray => sel \subseteq Children(dir) BY DEF PicksInv, SelectionIsInFolder
  <2>4. BandIsOf' BY <2>2, <2>3, Rowed DEF BandIsOf, PicksInv
  <2> QED BY <2>1, <2>4 DEF PicksInv, SelectionIsInFolder
<1>2. ASSUME NEW hits \in SUBSET band.reach, Frame(hits) PROVE PicksInv'
  <2>1. /\ band.on /\ sel' = band.base \cup hits /\ stray' = (stray \/ ~band.own \/ band.of # dir)
        /\ UNCHANGED <<dir, menu, band>>
    BY <1>2 DEF Frame, Select, view
  <2>2. ~stray' => sel' \cup menu'.targets \subseteq Children(dir)
    BY <2>1 DEF PicksInv, BandIsOf, SelectionIsInFolder
  <2> QED BY <2>1, <2>2 DEF PicksInv, BandIsOf, SelectionIsInFolder
<1>3. CASE EndMarquee
  <2>1. /\ band' = NoBand /\ menu' = NoMenu /\ sel' \subseteq sel /\ UNCHANGED <<dir, stray>>
    BY <1>3 DEF EndMarquee, Select, view
  <2>2. ~NoBand.on /\ NoMenu.targets = {} BY DEF NoBand, NoMenu
  <2> QED BY <2>1, <2>2 DEF PicksInv, BandIsOf, SelectionIsInFolder
<1> QED BY <1>1, <1>2, <1>3

LEMMA PicksKept == ASSUME ListsInv, PicksInv, [Next]_vars PROVE PicksInv'
<1>1. CASE UNCHANGED vars BY <1>1, PicksUntouched DEF vars
<1>2. CASE Gesture
  <2>1. CASE \E d \in Folder : Navigate(d) BY <2>1, Navigating
  <2>2. CASE \E s \in Sort : SetSort(s)
    BY <2>2, PicksUntouched DEF SetSort, Show, marks
  <2>3. CASE \/ \E p \in Path :
                    SelectEntry(p, TRUE) \/ SelectEntry(p, FALSE) \/ ItemContextMenu(p)
             \/ SelectAll \/ CloseMenu \/ ChooseDelete \/ ChooseMove \/ TogglePrivate
             \/ ConfirmDelete
    BY <2>3, Selecting
  <2>4. CASE StartMarquee \/ (\E hits \in SUBSET band.reach : Frame(hits)) \/ EndMarquee
    BY <2>4, Marquee
  <2>5. CASE CloseDialog BY <2>5, PicksUntouched DEF CloseDialog, view
  <2>6. CASE \/ \E p \in Path : SubmitMove(p) \/ Upload(p)
             \/ \E p \in Path, d \in Folder : Drop(p, d)
    BY <2>6, PicksUntouched DEF SubmitMove, Upload, Drop, view, marks
  <2> QED BY <1>2, <2>1, <2>2, <2>3, <2>4, <2>5, <2>6 DEF Gesture
<1>3. CASE \E k \in Key : ServeList(k) \/ ListArrives(k) \/ ListFails(k)
  BY <1>3, PicksUntouched DEF ServeList, ListArrives, ListFails, view, marks
<1>4. CASE Serve
  BY <1>4, PicksUntouched
  DEF Serve, ServeDelete, ServeMissing, ServePrivate, ServeMove, ServeDrop,
      ServeUpload, view, marks
<1>5. CASE \E k \in Kind : Refused(k)
  BY <1>5, PicksUntouched DEF Refused, view, marks
<1>6. CASE Settle
  BY <1>6, PicksUntouched
  DEF Settle, ChangeSettled, MoveSettled, DropSettled, UploadSettled, view, marks
<1>7. CASE Elsewhere BY <1>7, PicksUntouched DEF Elsewhere, view, marks
<1> QED BY <1>1, <1>2, <1>3, <1>4, <1>5, <1>6, <1>7 DEF Next

\* Browser.tsx:256, InfoPanel.tsx:155: what is selected, and what an open menu acts on, lies
\* in the folder shown, but for what a rectangle of another folder selects.
THEOREM SelectionsAreInFolder == Spec => []SelectionIsInFolder
<1>1. Init => PicksInv
  <2>1. ~NoBand.on /\ NoMenu.targets = {} BY DEF NoBand, NoMenu
  <2> QED BY <2>1 DEF Init, PicksInv, BandIsOf, SelectionIsInFolder
<1>2. PicksInv => SelectionIsInFolder BY DEF PicksInv
<1> QED BY <1>1, <1>2, PicksKept, ListsInvariance, PTL DEF Spec

-----------------------------------------------------------------------------
(* Side by side *)

\* The front end is one of its parts at a time: each of them behaves as it does alone.
THEOREM EachRuns == FrontSpec => Sys!Spec /\ F!Spec /\ P!Spec /\ V!Spec
<1>1. FrontInit => Sys!Init /\ F!Init /\ P!Init /\ V!Init BY DEF FrontInit
<1>2. [FrontNext]_front => [Sys!Next]_(Sys!vars)
  BY DEF FrontNext, front, Sys!vars, settingsVars
<1>3. [FrontNext]_front => [F!Next]_(F!vars)
  BY DEF FrontNext, front, F!vars, formsVars
<1>4. [FrontNext]_front => [P!Next]_(P!vars)
  BY DEF FrontNext, front, P!vars, pagesVars
<1>5. [FrontNext]_front => [V!Next]_(V!vars)
  BY DEF FrontNext, front, V!vars, viewerVars
<1> QED BY <1>1, <1>2, <1>3, <1>4, <1>5, PTL DEF FrontSpec, Sys!Spec, F!Spec, P!Spec, V!Spec
=============================================================================
