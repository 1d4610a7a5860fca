--------------------------- MODULE Uploads_proofs ---------------------------
(***************************************************************************)
(* Both ends of an upload, for every value of the constants: the slots of  *)
(* the browser's queue and what its panel shows, and on the server what is *)
(* written to disk and what is at its path once it is answered.            *)
(***************************************************************************)
EXTENDS MCUploads, FiniteSetTheorems, WellFoundedInduction, TLAPS

-----------------------------------------------------------------------------
(* The queue of the browser *)

\* The part of TypeOK that statuses, transfers and handles have in common.
QueueTypes(st, stg, cur) ==
    /\ st \in [Q!Item -> Q!Status]
    /\ stg \in [Q!Item -> [Q!Slot -> Q!Stage]]
    /\ cur \in [Q!Item -> Q!Slot \cup {0}]

LiveIn(stg, i) == {h \in Q!Slot : stg[i][h] # "none"}

\* Item i has the transfers it should have.
Matched(i, st, stg, cur) ==
    st[i] # "gone" => LiveIn(stg, i) = IF st[i] = "active" THEN {cur[i]} ELSE {}

\* A file that has not been queued yet has no transfer.
Fresh(n, st, stg) == \A i \in Q!Item : i > n => st[i] = "gone" /\ LiveIn(stg, i) = {}

QueueInv == Q!TypeOK /\ Q!ActiveIsTransferred /\ Fresh(added, status, stage)

LEMMA TransferredMatched ==
    Q!ActiveIsTransferred <=> \A i \in Q!Item : Matched(i, status, stage, current)
BY DEF Q!ActiveIsTransferred, Matched, LiveIn, Q!Live, Q!Listed

-----------------------------------------------------------------------------
(* pump() *)

\* A callback whose statuses, transfers and handles fit leaves them so, whatever
\* pump (uploads.ts:139) starts; it does nothing to what is not in the list.
LEMMA PumpKeeps ==
    ASSUME NEW st, NEW stg, NEW cur, QueueTypes(st, stg, cur),
           \A i \in Q!Item : Matched(i, st, stg, cur),
           NEW n, Fresh(n, st, stg),
           Q!Pump(st, stg, cur)
    PROVE  /\ QueueTypes(status', stage', current')
           /\ Q!ActiveIsTransferred'
           /\ Fresh(n, status', stage')
<1> DEFINE starts == Q!Startable(st)
<1>1. \A i \in starts : i \in Q!Item /\ st[i] = "queued"
  BY DEF Q!Startable, Q!Having
<1>2. \A i \in starts : /\ Q!Free(i, stg) \in Q!Slot
                        /\ \A h \in Q!Slot : stg[i][h] = "none"
  <2> SUFFICES ASSUME NEW i \in starts
               PROVE  /\ Q!Free(i, stg) \in Q!Slot
                      /\ \A h \in Q!Slot : stg[i][h] = "none"
    OBVIOUS
  <2>1. LiveIn(stg, i) = {}
    BY <1>1 DEF Matched
  <2>2. \A h \in Q!Slot : stg[i][h] = "none"
    BY <2>1 DEF LiveIn
  <2>3. 1 \in Q!Slot
    BY DEF Q!Slot
  <2> QED BY <2>2, <2>3 DEF Q!Free
<1>3. \A i \in Q!Item : /\ status'[i] = IF i \in starts THEN "active" ELSE st[i]
                        /\ stage'[i] = IF i \in starts
                                       THEN [stg[i] EXCEPT ![Q!Free(i, stg)] = "prepare"]
                                       ELSE stg[i]
                        /\ current'[i] = IF i \in starts THEN Q!Free(i, stg) ELSE cur[i]
  BY DEF Q!Pump
<1>4. QueueTypes(status', stage', current')
  <2>1. status' \in [Q!Item -> Q!Status]
    BY <1>3 DEF Q!Pump, QueueTypes, Q!Status
  <2>2. stage' \in [Q!Item -> [Q!Slot -> Q!Stage]]
    BY <1>2, <1>3 DEF Q!Pump, QueueTypes, Q!Stage
  <2>3. current' \in [Q!Item -> Q!Slot \cup {0}]
    BY <1>2, <1>3 DEF Q!Pump, QueueTypes
  <2> QED BY <2>1, <2>2, <2>3 DEF QueueTypes
<1> HIDE DEF starts
<1>5. \A i \in Q!Item : Matched(i, status', stage', current')
  <2> SUFFICES ASSUME NEW i \in Q!Item PROVE Matched(i, status', stage', current')
    OBVIOUS
  <2>1. CASE i \in starts
    <3>1. stg[i] \in [Q!Slot -> Q!Stage]
      BY DEF QueueTypes
    <3>2. LiveIn(stage', i) = {Q!Free(i, stg)}
      BY <1>2, <1>3, <2>1, <3>1 DEF LiveIn
    <3> QED BY <1>3, <2>1, <3>2 DEF Matched
  <2>2. CASE i \notin starts
    BY <1>3, <2>2 DEF Matched, LiveIn
  <2> QED BY <2>1, <2>2
<1>6. Q!ActiveIsTransferred'
  BY <1>5 DEF Q!ActiveIsTransferred, Matched, LiveIn, Q!Live, Q!Listed
<1>7. Fresh(n, status', stage')
  <2> SUFFICES ASSUME NEW i \in Q!Item, i > n
               PROVE  status'[i] = "gone" /\ LiveIn(stage', i) = {}
    BY DEF Fresh
  <2>1. st[i] = "gone" /\ LiveIn(stg, i) = {}
    BY DEF Fresh
  <2>2. status'[i] = st[i] /\ stage'[i] = stg[i]
    BY <1>1, <1>3, <2>1
  <2> QED BY <2>1, <2>2 DEF LiveIn
<1> QED BY <1>4, <1>6, <1>7

\* Of a listed item only the transfer in `handles' is on its way.
LEMMA OneTransfer ==
    ASSUME QueueInv, NEW i \in Q!Item, NEW h \in Q!Slot, stage[i][h] # "none"
    PROVE  /\ i <= added
           /\ Q!Listed(i) => \A x \in Q!Slot \ {h} : stage[i][x] = "none"
<1>1. h \in LiveIn(stage, i)
  BY DEF LiveIn
<1>2. i <= added
  BY <1>1 DEF QueueInv, Fresh, Q!TypeOK, Q!Item
<1>3. Q!Listed(i) => LiveIn(stage, i) = {h}
  BY <1>1, TransferredMatched DEF QueueInv, Matched, Q!Listed
<1> QED BY <1>2, <1>3 DEF LiveIn

\* The three callbacks that end a transfer (uploads.ts:66, 74, 80).
LEMMA EndKeeps ==
    ASSUME QueueInv, NEW i \in Q!Item, NEW h \in Q!Slot, stage[i][h] = "running",
           NEW s \in {"queued", "done", "error"}, Q!End(i, h, s), added' = added
    PROVE  /\ QueueTypes(status', stage', current')
           /\ Q!ActiveIsTransferred'
           /\ Fresh(added', status', stage')
<1> DEFINE st == IF Q!Listed(i) THEN [status EXCEPT ![i] = s] ELSE status
           stg == [stage EXCEPT ![i][h] = "none"]
           cur == [current EXCEPT ![i] = 0]
<1>1. Q!Pump(st, stg, cur)
  BY DEF Q!End
<1>2. QueueTypes(st, stg, cur)
  BY DEF QueueTypes, QueueInv, Q!TypeOK, Q!Status, Q!Stage
<1>3. \A j \in Q!Item : Matched(j, st, stg, cur)
  <2> SUFFICES ASSUME NEW j \in Q!Item PROVE Matched(j, st, stg, cur)
    OBVIOUS
  <2>1. Matched(j, status, stage, current)
    BY TransferredMatched DEF QueueInv
  <2>2. CASE j # i
    <3>1. st[j] = status[j] /\ stg[j] = stage[j] /\ cur[j] = current[j]
      BY <2>2 DEF QueueInv, Q!TypeOK
    <3> QED BY <2>1, <3>1 DEF Matched, LiveIn
  <2>3. CASE j = i /\ Q!Listed(i)
    <3>1. st[i] = s
      BY <2>3 DEF QueueInv, Q!TypeOK
    <3>2. \A x \in Q!Slot : stg[i][x] = IF x = h THEN "none" ELSE stage[i][x]
      BY DEF QueueInv, Q!TypeOK
    <3>3. \A x \in Q!Slot : stg[i][x] = "none"
      BY <2>3, <3>2, OneTransfer
    <3> QED BY <2>3, <3>1, <3>3 DEF Matched, LiveIn
  <2>4. CASE j = i /\ ~Q!Listed(i)
    BY <2>4 DEF Matched, Q!Listed
  <2> QED BY <2>2, <2>3, <2>4
<1>4. Fresh(added, st, stg)
  <2>1. i <= added
    BY OneTransfer
  <2>2. \A j \in Q!Item : j > added => j # i
    BY <2>1 DEF Q!Item, QueueInv, Q!TypeOK
  <2>3. \A j \in Q!Item : j # i => st[j] = status[j] /\ stg[j] = stage[j]
    BY DEF QueueInv, Q!TypeOK
  <2> QED BY <2>2, <2>3 DEF Fresh, LiveIn, QueueInv
<1> HIDE DEF st, stg, cur
<1> QED BY <1>1, <1>2, <1>3, <1>4, PumpKeeps

-----------------------------------------------------------------------------
(* The steps *)

LEMMA QueueStarts == ASSUME Q!BoundsAssumption, Q!Init PROVE QueueInv
<1>1. Q!TypeOK
  BY DEF Q!BoundsAssumption, Q!Init, Q!TypeOK, Q!Item, Q!Slot, Q!Status, Q!Stage
<1>2. Q!ActiveIsTransferred
  BY DEF Q!Init, Q!ActiveIsTransferred, Q!Listed
<1>3. Fresh(added, status, stage)
  BY DEF Q!Init, Fresh, LiveIn
<1> QED BY <1>1, <1>2, <1>3 DEF QueueInv

LEMMA EnqueueKeeps ==
    ASSUME Q!BoundsAssumption, QueueInv, NEW n \in Q!Item, Q!Enqueue(n)
    PROVE  QueueInv'
<1> DEFINE new == added + 1 .. added + n
           st == [i \in Q!Item |-> IF i \in new THEN "queued" ELSE status[i]]
<1>1. /\ added' = added + n
      /\ added' \in 0 .. Files
      /\ Q!Pump(st, stage, current)
      /\ UNCHANGED <<rejected, stored>>
  BY DEF Q!BoundsAssumption, Q!Enqueue, Q!Item, QueueInv, Q!TypeOK
<1>2. QueueTypes(st, stage, current)
  BY DEF QueueTypes, QueueInv, Q!TypeOK, Q!Status
<1>3. \A i \in Q!Item : Matched(i, st, stage, current)
  <2> SUFFICES ASSUME NEW i \in Q!Item PROVE Matched(i, st, stage, current)
    OBVIOUS
  <2>1. CASE i \in new
    <3>1. i > added
      BY <2>1 DEF Q!Item, QueueInv, Q!TypeOK
    <3>2. LiveIn(stage, i) = {}
      BY <3>1 DEF QueueInv, Fresh
    <3> QED BY <2>1, <3>2 DEF Matched
  <2>2. CASE i \notin new
    <3>1. Matched(i, status, stage, current)
      BY TransferredMatched DEF QueueInv
    <3> QED BY <2>2, <3>1 DEF Matched
  <2> QED BY <2>1, <2>2
<1>4. Fresh(added', st, stage)
  <2> SUFFICES ASSUME NEW i \in Q!Item, i > added'
               PROVE  st[i] = "gone" /\ LiveIn(stage, i) = {}
    BY DEF Fresh
  <2>1. i > added /\ i \notin new
    BY <1>1 DEF Q!Item, QueueInv, Q!TypeOK
  <2> QED BY <2>1 DEF QueueInv, Fresh
<1> HIDE DEF st
<1>5. QueueTypes(status', stage', current') /\ Q!ActiveIsTransferred' /\ Fresh(added', status', stage')
  BY <1>1, <1>2, <1>3, <1>4, PumpKeeps
<1> QED BY <1>1, <1>5 DEF QueueInv, Q!TypeOK, QueueTypes

LEMMA RetryKeeps ==
    ASSUME QueueInv, NEW i \in Q!Item, Q!Retry(i)
    PROVE  QueueInv'
<1> DEFINE st == [status EXCEPT ![i] = "queued"]
           cur == [current EXCEPT ![i] = 0]
<1>1. Q!Pump(st, stage, cur) /\ UNCHANGED <<added, rejected, stored>> /\ status[i] = "error"
  BY DEF Q!Retry
<1>2. QueueTypes(st, stage, cur)
  BY DEF QueueTypes, QueueInv, Q!TypeOK, Q!Status
<1>3. \A j \in Q!Item : Matched(j, st, stage, cur)
  <2> SUFFICES ASSUME NEW j \in Q!Item PROVE Matched(j, st, stage, cur)
    OBVIOUS
  <2>1. Matched(j, status, stage, current)
    BY TransferredMatched DEF QueueInv
  <2>2. /\ st[j] = IF j = i THEN "queued" ELSE status[j]
        /\ cur[j] = IF j = i THEN 0 ELSE current[j]
    BY DEF QueueInv, Q!TypeOK
  <2> QED BY <1>1, <2>1, <2>2 DEF Matched
<1>4. Fresh(added, st, stage)
  <2>1. \A j \in Q!Item : st[j] = IF j = i THEN "queued" ELSE status[j]
    BY DEF QueueInv, Q!TypeOK
  <2> QED BY <1>1, <2>1 DEF QueueInv, Fresh
<1> HIDE DEF st, cur
<1>5. QueueTypes(status', stage', current') /\ Q!ActiveIsTransferred' /\ Fresh(added', status', stage')
  BY <1>1, <1>2, <1>3, <1>4, PumpKeeps
<1> QED BY <1>1, <1>5 DEF QueueInv, Q!TypeOK, QueueTypes

LEMMA RemoveKeeps ==
    ASSUME QueueInv, NEW i \in Q!Item, Q!Remove(i)
    PROVE  QueueInv'
<1> DEFINE h == current[i]
           running == h # 0 /\ stage[i][h] = "running"
           st == [status EXCEPT ![i] = "gone"]
           stg == IF running THEN [stage EXCEPT ![i][h] = "none"] ELSE stage
           cur == [current EXCEPT ![i] = 0]
<1>1. /\ Q!Pump(st, stg, cur)
      /\ stored' = IF running THEN stored \ {i} ELSE stored
      /\ UNCHANGED <<added, rejected>>
  BY DEF Q!Remove
<1>2. QueueTypes(st, stg, cur)
  BY DEF QueueTypes, QueueInv, Q!TypeOK, Q!Status, Q!Stage
<1>3. \A j \in Q!Item : /\ st[j] = IF j = i THEN "gone" ELSE status[j]
                        /\ j # i => stg[j] = stage[j] /\ cur[j] = current[j]
  BY DEF QueueInv, Q!TypeOK
<1>4. \A j \in Q!Item : Matched(j, st, stg, cur)
  BY <1>3, TransferredMatched DEF QueueInv, Matched, LiveIn
<1>5. Fresh(added, st, stg)
  <2> SUFFICES ASSUME NEW j \in Q!Item, j > added
               PROVE  st[j] = "gone" /\ LiveIn(stg, j) = {}
    BY DEF Fresh
  <2>1. status[j] = "gone" /\ \A x \in Q!Slot : stage[j][x] = "none"
    BY DEF QueueInv, Fresh, LiveIn
  <2>2. \A x \in Q!Slot : stg[j][x] = "none"
    BY <2>1 DEF QueueInv, Q!TypeOK
  <2> QED BY <1>3, <2>1, <2>2 DEF LiveIn
<1> HIDE DEF st, stg, cur
<1>6. QueueTypes(status', stage', current') /\ Q!ActiveIsTransferred' /\ Fresh(added', status', stage')
  BY <1>1, <1>2, <1>4, <1>5, PumpKeeps
<1> QED BY <1>1, <1>6 DEF QueueInv, Q!TypeOK, QueueTypes

LEMMA ClearFinishedKeeps ==
    ASSUME QueueInv, Q!ClearFinished
    PROVE  QueueInv'
<1>1. \A i \in Q!Item : status'[i] \in {status[i], "gone"}
  BY DEF Q!ClearFinished
<1>2. Q!TypeOK'
  BY DEF Q!ClearFinished, QueueInv, Q!TypeOK, Q!Status
<1>3. Q!ActiveIsTransferred'
  BY <1>1 DEF Q!ClearFinished, QueueInv, Q!ActiveIsTransferred, Q!Listed, Q!Live
<1>4. Fresh(added', status', stage')
  BY <1>1 DEF Q!ClearFinished, QueueInv, Fresh, LiveIn
<1> QED BY <1>2, <1>3, <1>4 DEF QueueInv

LEMMA PreparedKeeps ==
    ASSUME QueueInv, NEW i \in Q!Item, NEW h \in Q!Slot, Q!Prepared(i, h)
    PROVE  QueueInv'
<1>1. \A j \in Q!Item, x \in Q!Slot : stage'[j][x] = IF j = i /\ x = h THEN "running" ELSE stage[j][x]
  BY DEF Q!Prepared, QueueInv, Q!TypeOK
<1>2. \A j \in Q!Item : {x \in Q!Slot : stage'[j][x] # "none"} = {x \in Q!Slot : stage[j][x] # "none"}
  BY <1>1 DEF Q!Prepared
<1>3. Q!TypeOK'
  BY DEF Q!Prepared, QueueInv, Q!TypeOK, Q!Stage
<1>4. Q!ActiveIsTransferred'
  BY <1>2 DEF Q!Prepared, QueueInv, Q!ActiveIsTransferred, Q!Listed, Q!Live
<1>5. Fresh(added', status', stage')
  BY <1>2 DEF Q!Prepared, QueueInv, Fresh, LiveIn
<1> QED BY <1>3, <1>4, <1>5 DEF QueueInv

LEMMA CreatedKeeps ==
    ASSUME QueueInv, NEW i \in Q!Item, NEW h \in Q!Slot, Q!Created(i, h)
    PROVE  QueueInv'
BY DEF Q!Created, QueueInv, Q!TypeOK, Q!ActiveIsTransferred, Q!Listed, Q!Live, Fresh, LiveIn

LEMMA EndsKeeps ==
    ASSUME Q!BoundsAssumption, QueueInv, NEW i \in Q!Item, NEW h \in Q!Slot, Q!Ends(i, h)
    PROVE  QueueInv'
<1>1. ASSUME Q!Succeed(i, h) PROVE QueueInv'
  BY <1>1, EndKeeps DEF Q!Succeed, QueueInv, Q!TypeOK, QueueTypes
<1>2. ASSUME Q!Fail(i, h) PROVE QueueInv'
  BY <1>2, EndKeeps DEF Q!Fail, QueueInv, Q!TypeOK, QueueTypes
<1>3. ASSUME Q!Reject(i, h) PROVE QueueInv'
  <2> DEFINE again == ~Q!Listed(i) \/ rejected[i] < Rejections
             s == IF again THEN "queued" ELSE "error"
  <2>1. /\ stage[i][h] = "running"
        /\ Q!End(i, h, s)
        /\ stored' = stored \ {i}
        /\ rejected' = IF Q!Listed(i) /\ again THEN [rejected EXCEPT ![i] = @ + 1] ELSE rejected
        /\ added' = added
    BY <1>3 DEF Q!Reject
  <2>2. s \in {"queued", "done", "error"}
    OBVIOUS
  <2>3. rejected' \in [Q!Item -> 0 .. Rejections]
    BY <2>1 DEF Q!BoundsAssumption, QueueInv, Q!TypeOK
  <2> HIDE DEF s
  <2>4. QueueTypes(status', stage', current') /\ Q!ActiveIsTransferred' /\ Fresh(added', status', stage')
    BY <2>1, <2>2, EndKeeps
  <2> QED BY <2>1, <2>3, <2>4 DEF QueueInv, Q!TypeOK, QueueTypes
<1> QED BY <1>1, <1>2, <1>3 DEF Q!Ends

LEMMA QueueKeeps == ASSUME Q!BoundsAssumption, QueueInv, [Q!Next]_(Q!vars) PROVE QueueInv'
<1>1. ASSUME NEW n \in Q!Item, Q!Enqueue(n) PROVE QueueInv'
  BY <1>1, EnqueueKeeps
<1>2. ASSUME NEW i \in Q!Item, Q!Retry(i) \/ Q!Remove(i) PROVE QueueInv'
  BY <1>2, RetryKeeps, RemoveKeeps
<1>3. ASSUME Q!ClearFinished PROVE QueueInv'
  BY <1>3, ClearFinishedKeeps
<1>4. ASSUME NEW i \in Q!Item, NEW h \in Q!Slot, Q!Prepared(i, h) \/ Q!Created(i, h) \/ Q!Ends(i, h)
      PROVE QueueInv'
  BY <1>4, PreparedKeeps, CreatedKeeps, EndsKeeps
<1>5. ASSUME UNCHANGED Q!vars PROVE QueueInv'
  BY <1>5 DEF Q!vars, QueueInv, Q!TypeOK, Q!ActiveIsTransferred, Q!Listed, Q!Live, Fresh, LiveIn
<1> QED BY <1>1, <1>2, <1>3, <1>4, <1>5 DEF Q!Next

-----------------------------------------------------------------------------
(* The slots *)

\* A set of numbers has a least one, and a bounded one a greatest.
LEMMA Least ==
    ASSUME NEW T \in SUBSET Nat, T # {}
    PROVE  \E x \in T : \A y \in T : x <= y
<1> DEFINE R == OpToRel(<, Nat)
<1>1. IsWellFoundedOn(R, Nat) BY NatLessThanWellFounded
<1>2. \A x, y \in Nat : x < y => <<x, y>> \in R BY DEF OpToRel
<1> HIDE DEF R
<1>3. PICK x \in T : \A y \in T : <<y, x>> \notin R BY <1>1, WFMin
<1>4. ASSUME NEW y \in T PROVE x <= y
  <2>1. x \in Nat /\ y \in Nat OBVIOUS
  <2>2. ~(y < x) BY <1>2, <1>3, <2>1
  <2> QED BY <2>1, <2>2
<1> QED BY <1>4

LEMMA Greatest ==
    ASSUME NEW n \in Nat, NEW T \in SUBSET (1 .. n), T # {}
    PROVE  \E x \in T : \A y \in T : y <= x
<1> DEFINE D == {n - y : y \in T}
<1>1. D \in SUBSET Nat /\ D # {}
  <2>1. \A y \in T : y \in Nat /\ n - y \in Nat OBVIOUS
  <2> QED BY <2>1
<1> HIDE DEF D
<1>2. PICK d \in D : \A e \in D : d <= e BY <1>1, Least
<1> USE DEF D
<1>3. PICK x \in T : d = n - x OBVIOUS
<1>4. ASSUME NEW y \in T PROVE y <= x
  <2>1. d <= n - y BY <1>2
  <2> QED BY <1>3, <2>1
<1> QED BY <1>4

\* Of a set of numbers those with fewer than k below them: k, or all of them.
First(k, W) == {i \in W : Cardinality({j \in W : j < i}) < k}

LEMMA FirstOnes ==
    ASSUME NEW n \in Nat, NEW W \in SUBSET (1 .. n), NEW k \in Nat
    PROVE  /\ IsFiniteSet(First(k, W)) /\ Cardinality(First(k, W)) <= k
           /\ First(k, W) # W => Cardinality(First(k, W)) = k
<1> DEFINE S == First(k, W)
<1> USE DEF First
<1>1. IsFiniteSet(1 .. n) BY FS_Interval
<1>2. \A T \in SUBSET (1 .. n) : IsFiniteSet(T) /\ Cardinality(T) \in Nat
  BY <1>1, FS_Subset, FS_CardinalityType
<1>3. \A T \in SUBSET (1 .. n) : \A U \in SUBSET T : Cardinality(U) <= Cardinality(T)
  BY <1>2, FS_Subset
<1>4. S \in SUBSET (1 .. n) OBVIOUS
<1>5. IsFiniteSet(S) /\ Cardinality(S) \in Nat BY <1>2, <1>4
<1>6. Cardinality(S) <= k
  <2>1. CASE S = {}
    <3>1. Cardinality(S) = 0 BY <2>1, FS_EmptySet
    <3> QED BY <3>1
  <2>2. CASE S # {}
    <3>1. PICK x \in S : \A y \in S : y <= x BY <1>4, <2>2, Greatest
    <3> DEFINE B == {j \in W : j < x}
    <3>2. B \in SUBSET (1 .. n) /\ S \ {x} \in SUBSET B
      <4>1. \A y \in S \ {x} : y \in W /\ y < x BY <1>4, <3>1
      <4> QED BY <4>1
    <3>3. Cardinality(B) < k OBVIOUS
    <3>4. Cardinality(S \ {x}) <= Cardinality(B) BY <1>3, <3>2
    <3>5. Cardinality(S \ {x}) = Cardinality(S) - 1 BY <1>5, FS_RemoveElement
    <3>6. Cardinality(B) \in Nat BY <1>2, <3>2
    <3> HIDE DEF B
    <3> QED BY <1>5, <3>3, <3>4, <3>5, <3>6
  <2> QED BY <2>1, <2>2
<1>7. ASSUME S # W PROVE Cardinality(S) >= k
  <2>1. W \ S \in SUBSET Nat /\ W \ S # {}
    <3>1. \A x \in W : x \in Nat OBVIOUS
    <3>2. S \subseteq W OBVIOUS
    <3> QED BY <1>7, <3>1, <3>2
  <2>2. PICK x \in W \ S : \A y \in W \ S : x <= y BY <2>1, Least
  <2> DEFINE B == {j \in W : j < x}
  <2>3. B \in SUBSET S
    <3> SUFFICES ASSUME NEW j \in W, j < x PROVE j \in S OBVIOUS
    <3>1. x \in Nat /\ j \in Nat OBVIOUS
    <3>2. ~(x <= j) BY <3>1
    <3> QED BY <2>2, <3>2
  <2>4. ~(Cardinality(B) < k) OBVIOUS
  <2>5. Cardinality(B) <= Cardinality(S) BY <1>3, <1>4, <2>3
  <2>6. Cardinality(B) \in Nat BY <1>2
  <2> HIDE DEF B
  <2> QED BY <1>5, <2>4, <2>5, <2>6
<1> QED BY <1>5, <1>6, <1>7

\* The queue's own Cardinality is the one the library's facts are about.
LEMMA SameSize == \A S : Q!Cardinality(S) = Cardinality(S)
  BY DEF Q!Cardinality, Cardinality

\* pump() (uploads.ts:139) fills the slots that are free, and no others.
LEMMA PumpFills ==
    ASSUME Q!BoundsAssumption, NEW st \in [Q!Item -> Q!Status], NEW stg, NEW cur,
           Cardinality(Q!Having(st, "active")) <= Slots, Q!Pump(st, stg, cur)
    PROVE  Q!NoIdleSlot'
<1> DEFINE A == Q!Having(st, "active")
           W == Q!Having(st, "queued")
           starts == Q!Startable(st)
           B == Cardinality(A)
<1>1. Files \in Nat /\ Slots \in Nat BY DEF Q!BoundsAssumption
<1>2. A \in SUBSET Q!Item /\ W \in SUBSET Q!Item BY DEF Q!Having
<1>3. IsFiniteSet(A) /\ B \in Nat
  <2>1. IsFiniteSet(Q!Item) BY <1>1, FS_Interval DEF Q!Item
  <2> QED BY <1>2, <2>1, FS_Subset, FS_CardinalityType
<1>4. Slots - B \in Nat BY <1>1, <1>3
<1>5. \A i \in W : Cardinality({j \in W : j < i}) \in Nat
  <2>1. IsFiniteSet(Q!Item) BY <1>1, FS_Interval DEF Q!Item
  <2> QED BY <1>2, <2>1, FS_Subset, FS_CardinalityType
<1>6. starts = {i \in W : Cardinality({j \in W : j < i}) < Slots - B}
  <2>1. starts = {i \in W : B + Cardinality({j \in W : j < i}) < Slots}
    BY SameSize DEF Q!Startable
  <2> HIDE DEF B, W, starts
  <2>2. \A i \in W : B + Cardinality({j \in W : j < i}) < Slots
                        <=> Cardinality({j \in W : j < i}) < Slots - B
    BY <1>1, <1>3, <1>5
  <2> QED BY <2>1, <2>2
<1>7. /\ IsFiniteSet(starts) /\ Cardinality(starts) <= Slots - B
      /\ starts # W => Cardinality(starts) = Slots - B
  <2> DEFINE k == Slots - B
  <2>1. k \in Nat /\ W \in SUBSET (1 .. Files) BY <1>2, <1>4 DEF Q!Item
  <2>2. starts = First(k, W) BY <1>6 DEF First
  <2> HIDE DEF W, starts, k
  <2>3. /\ IsFiniteSet(starts) /\ Cardinality(starts) <= k
        /\ starts # W => Cardinality(starts) = k
    BY <1>1, <2>1, <2>2, FirstOnes
  <2> QED BY <2>3 DEF k
<1>8. Q!Having(status', "active") = A \cup starts /\ Q!Having(status', "queued") = W \ starts
  BY DEF Q!Pump, Q!Having, Q!Startable
<1>9. A \cap starts = {} BY DEF Q!Having, Q!Startable
<1>10. Cardinality(A \cup starts) = B + Cardinality(starts)
  <2>1. Cardinality(A \cup starts) = Cardinality(A) + Cardinality(starts) - Cardinality(A \cap starts)
    BY <1>3, <1>7, FS_Union
  <2>2. Cardinality(A \cap starts) = 0 BY <1>9, FS_EmptySet
  <2>3. Cardinality(starts) \in Nat BY <1>7, FS_CardinalityType
  <2> HIDE DEF A, starts
  <2> QED BY <1>3, <2>1, <2>2, <2>3 DEF B
<1>11. Cardinality(starts) \in Nat BY <1>7, FS_CardinalityType
<1> HIDE DEF A, W, starts, B
<1>12. W \ starts # {} => starts # W OBVIOUS
<1>13. /\ Cardinality(A \cup starts) <= Slots
       /\ W \ starts # {} => Cardinality(A \cup starts) = Slots
  BY <1>1, <1>3, <1>7, <1>10, <1>11, <1>12
<1>14. Q!Cardinality(A \cup starts) = Cardinality(A \cup starts) BY SameSize
<1> QED BY <1>8, <1>13, <1>14 DEF Q!NoIdleSlot, Q!Active

\* Nothing becomes active but by pump(), which every callback that ends something runs.
LEMMA PumpRefills ==
    ASSUME Q!BoundsAssumption, QueueInv, Q!NoIdleSlot, NEW st \in [Q!Item -> Q!Status],
           NEW stg, NEW cur, Q!Pump(st, stg, cur),
           \A i \in Q!Item : st[i] = "active" => status[i] = "active"
    PROVE  Q!NoIdleSlot'
<1>1. Q!Having(st, "active") \in SUBSET Q!Active /\ Q!Active \in SUBSET Q!Item
  BY DEF Q!Active, Q!Having
<1>2. IsFiniteSet(Q!Item)
  BY FS_Interval DEF Q!BoundsAssumption, Q!Item
<1>3. IsFiniteSet(Q!Active) /\ Cardinality(Q!Active) \in Nat
  BY <1>1, <1>2, FS_Subset, FS_CardinalityType
<1>4. /\ Cardinality(Q!Having(st, "active")) <= Cardinality(Q!Active)
      /\ Cardinality(Q!Having(st, "active")) \in Nat
  BY <1>1, <1>3, FS_Subset, FS_CardinalityType
<1>5. Cardinality(Q!Having(st, "active")) <= Slots
  <2>1. Cardinality(Q!Active) <= Slots /\ Slots \in Nat
    BY SameSize DEF Q!NoIdleSlot, Q!BoundsAssumption
  <2> QED BY <1>3, <1>4, <2>1
<1> QED BY <1>5, PumpFills

LEMMA SlotsStayFilled ==
    ASSUME Q!BoundsAssumption, QueueInv, Q!NoIdleSlot, [Q!Next]_(Q!vars)
    PROVE  Q!NoIdleSlot'
<1>1. ASSUME NEW n \in Q!Item, Q!Enqueue(n) PROVE Q!NoIdleSlot'
  <2> DEFINE st == [i \in Q!Item |-> IF i \in added + 1 .. added + n THEN "queued" ELSE status[i]]
  <2>1. Q!Pump(st, stage, current) BY <1>1 DEF Q!Enqueue
  <2>2. st \in [Q!Item -> Q!Status] BY DEF QueueInv, Q!TypeOK, Q!Status
  <2>3. \A i \in Q!Item : st[i] = "active" => status[i] = "active" OBVIOUS
  <2> HIDE DEF st
  <2> QED BY <2>1, <2>2, <2>3, PumpRefills
<1>2. ASSUME NEW i \in Q!Item, Q!Retry(i) PROVE Q!NoIdleSlot'
  <2> DEFINE st == [status EXCEPT ![i] = "queued"]
  <2>1. Q!Pump(st, stage, [current EXCEPT ![i] = 0]) BY <1>2 DEF Q!Retry
  <2>2. /\ st \in [Q!Item -> Q!Status]
        /\ \A j \in Q!Item : st[j] = "active" => status[j] = "active"
    BY DEF QueueInv, Q!TypeOK, Q!Status
  <2> HIDE DEF st
  <2> QED BY <2>1, <2>2, PumpRefills
<1>3. ASSUME NEW i \in Q!Item, Q!Remove(i) PROVE Q!NoIdleSlot'
  <2> DEFINE st == [status EXCEPT ![i] = "gone"]
  <2>1. \E stg, cur : Q!Pump(st, stg, cur) BY <1>3 DEF Q!Remove
  <2>2. /\ st \in [Q!Item -> Q!Status]
        /\ \A j \in Q!Item : st[j] = "active" => status[j] = "active"
    BY DEF QueueInv, Q!TypeOK, Q!Status
  <2> HIDE DEF st
  <2> QED BY <2>1, <2>2, PumpRefills
<1>4. CASE Q!ClearFinished
  <2>1. \A i \in Q!Item : status'[i] = "gone"
    BY <1>4 DEF Q!ClearFinished, Q!Having, Q!Listed, QueueInv, Q!TypeOK
  <2>2. Q!Having(status', "active") = {} /\ Q!Having(status', "queued") = {}
    BY <2>1 DEF Q!Having
  <2>3. Cardinality({}) = 0 BY FS_EmptySet
  <2>4. Slots \in Nat BY DEF Q!BoundsAssumption
  <2> QED BY <2>2, <2>3, <2>4, SameSize DEF Q!NoIdleSlot, Q!Active
<1>5. ASSUME NEW i \in Q!Item, NEW h \in Q!Slot, Q!Ends(i, h) PROVE Q!NoIdleSlot'
  <2>1. PICK s \in {"queued", "done", "error"} : Q!End(i, h, s)
    BY <1>5 DEF Q!Ends, Q!Succeed, Q!Fail, Q!Reject
  <2> DEFINE st == IF Q!Listed(i) THEN [status EXCEPT ![i] = s] ELSE status
  <2>2. \E stg, cur : Q!Pump(st, stg, cur) BY <2>1 DEF Q!End
  <2>3. /\ st \in [Q!Item -> Q!Status]
        /\ \A j \in Q!Item : st[j] = "active" => status[j] = "active"
    BY DEF QueueInv, Q!TypeOK, Q!Status
  <2> HIDE DEF st
  <2> QED BY <2>2, <2>3, PumpRefills
<1>6. CASE UNCHANGED status
  BY <1>6 DEF Q!NoIdleSlot, Q!Active, Q!Having
<1> QED BY <1>1, <1>2, <1>3, <1>4, <1>5, <1>6
        DEF Q!Next, Q!Prepared, Q!Created, Q!vars

LEMMA SlotsInvariance == Q!Spec => [](QueueInv /\ Q!NoIdleSlot)
<1>1. Q!Init => QueueInv BY QueueStarts, QueueAssumption
<1>2. Q!Init => Q!NoIdleSlot
  <2> SUFFICES ASSUME Q!Init PROVE Q!NoIdleSlot
    OBVIOUS
  <2>1. Q!Having(status, "active") = {} /\ Q!Having(status, "queued") = {}
    BY DEF Q!Init, Q!Having
  <2>2. Cardinality({}) = 0 BY FS_EmptySet
  <2>3. Slots \in Nat BY QueueAssumption DEF Q!BoundsAssumption
  <2>4. Q!Cardinality({}) = 0 BY <2>2, SameSize
  <2> QED BY <2>1, <2>3, <2>4 DEF Q!NoIdleSlot, Q!Active
<1>3. (QueueInv /\ Q!NoIdleSlot) /\ [Q!Next]_(Q!vars) => (QueueInv /\ Q!NoIdleSlot)'
  BY QueueKeeps, SlotsStayFilled, QueueAssumption
<1> QED BY <1>1, <1>2, <1>3, PTL DEF Q!Spec

-----------------------------------------------------------------------------
(* What is promised *)

\* Every value of the store is one of its type; in particular no item is retried
\* after more rejections than are allowed (uploads.ts:86).
THEOREM QueueTypeCorrect == Q!Spec => []Q!TypeOK
<1>1. QueueInv => Q!TypeOK BY DEF QueueInv
<1> QED BY <1>1, SlotsInvariance, PTL

\* uploads.ts:59, uploads.ts:139: an item is active exactly while its own transfer is on its
\* way, and no slot is idle while something waits, whatever is removed, retried, rejected or
\* dismissed while transfers are prepared and run.
THEOREM SlotsAreFilled == Q!Spec => []SlotsFollowTransfers
<1>1. QueueInv /\ Q!NoIdleSlot => SlotsFollowTransfers
  BY DEF QueueInv, SlotsFollowTransfers
<1> QED BY <1>1, SlotsInvariance, PTL

-----------------------------------------------------------------------------
(* The uploads of the server *)

-----------------------------------------------------------------------------
(* The inductive invariant *)

Opening  == {"remove", "open"}
Critical == {"copy", "commit", "drop"}
Holding  == Critical \cup {"drain"}

\* A running handler works on a session it knows; a creation is the only
\* request that knows its session before the session is opened.
RequestInv ==
    /\ \A r \in Req :
        LET s == req[r].s
        IN  /\ req[r].pc # "idle" => s \in Session /\ s \in used /\ sess[s].path \in Path
            /\ req[r].pc \in Opening => sess[s].ino = Absent
            /\ req[r].pc \notin Opening \cup {"idle"} => sess[s].ino \in Inode
    /\ \A q, r \in Req :
        req[q].pc \in Opening /\ req[r].pc \in Opening /\ req[q].s = req[r].s => q = r

\* A session that was opened is bound to an inode for good, and an inode that
\* was not allocated yet is bound to nothing.
SessionInv ==
    /\ \A s \in Session :
        /\ s \in registered => sess[s].ino \in Inode
        /\ sess[s].ino # Absent => s \in used /\ sess[s].path \in Path
        /\ sess[s].ino = Absent => /\ ~sess[s].open
                                   /\ \A p \in Path : dir[p] # s
                                   /\ \A u \in Session : sess[u].ino # s
    /\ \A f \in Saved \ used :
        /\ \A p \in Path : dir[p] # f
        /\ \A u \in Session : sess[u].ino # f

Structure == TypeOK /\ RequestInv /\ SessionInv

\* The request that writes holds the lock, from the offset the client declared.
LockInv ==
    \A r \in Req :
        LET s == req[r].s
        IN  /\ req[r].pc \in Holding => mutex[s] = r
            /\ req[r].pc \in Critical => req[r].off = req[r].base
            /\ req[r].pc \in Critical => req[r].base < sess[s].size
            /\ req[r].pc \in Critical => req[r].got <= Remaining(r)
            /\ req[r].pc \in {"commit", "drop"} => req[r].got = Remaining(r)
            /\ req[r].pc = "drop" => ~sess[s].open

\* Of an upload that is not disturbed, what is on disk is what the request has
\* written on top of what it found.
WriterInv ==
    \A r \in Req :
        LET s == req[r].s
        IN  req[r].pc \in Critical /\ Undisturbed(s) =>
                data[sess[s].ino].len = req[r].base + req[r].got

\* A finished upload was opened, is closed and unregistered.
FinishedInv ==
    \A s \in complete : sess[s].ino \in Inode /\ ~sess[s].open /\ s \notin registered

Disk == LockInv /\ WriterInv /\ FinishedInv /\ UploadIsPrefix /\ CompleteIsWhole

Inv == Structure /\ Disk

\* A session that was not drawn has no path.
UndrawnInv == \A s \in Session \ used : sess[s].path = None

Dropping(s) == \E r \in Req : req[r].pc = "drop" /\ req[r].s = s

\* While an upload is open, or is being answered for and was not collected, its file
\* is at its path.
Held(s) == sess[s].open \/ (Dropping(s) /\ (s \in registered \/ ~sess[s].idle))

BoundInv ==
    \A s \in Session : AloneOnPath(s) /\ Held(s) => dir[sess[s].path] = sess[s].ino

-----------------------------------------------------------------------------
USE SizesAssumption, DistinctAssumption
USE DEF Inode, Content, At, Answer, Unlock, moving, Rest, Moving

\* The state newTusRegistry makes, over an empty tree, is well-formed.
LEMMA StructureInit == Init => Structure
  BY DEF Init, Structure, TypeOK, RequestInv, SessionInv, Opening, SessionObject, Idle, Request, Pc,
         Move

(* How the sessions and requests that the actions write keep their types *)

\* A request that is answered forgets everything.
LEMMA SetIdle ==
    ASSUME sess \in [Session -> SessionObject], NEW s \in Session, NEW b \in BOOLEAN
    PROVE  [sess EXCEPT ![s].idle = b] \in [Session -> SessionObject]
  BY DEF SessionObject

\* Recording that a session is open, or closed, keeps the sessions typed.
LEMMA SetOpen ==
    ASSUME sess \in [Session -> SessionObject], NEW s \in Session, NEW b \in BOOLEAN
    PROVE  [sess EXCEPT ![s].open = b] \in [Session -> SessionObject]
  BY DEF SessionObject

\* So does giving a new session its path and size,
LEMMA SetTarget ==
    ASSUME sess \in [Session -> SessionObject], NEW s \in Session,
           NEW p \in Path, NEW n \in Nat
    PROVE  [sess EXCEPT ![s].path = p, ![s].size = n] \in [Session -> SessionObject]
  BY DEF SessionObject

\* binding it to the inode StartUpload has opened,
LEMMA SetInode ==
    ASSUME sess \in [Session -> SessionObject], NEW s \in Session, NEW i \in Inode
    PROVE  [sess EXCEPT ![s].ino = i, ![s].open = TRUE, ![s].idle = FALSE]
                \in [Session -> SessionObject]
  BY DEF SessionObject

\* and closing the sessions the collector takes.
LEMMA CloseSome ==
    ASSUME sess \in [Session -> SessionObject], NEW S
    PROVE  [s \in Session |-> IF s \in S THEN [sess[s] EXCEPT !.open = FALSE] ELSE sess[s]]
                \in [Session -> SessionObject]
  BY DEF SessionObject

\* A request that was answered is a request.
LEMMA IdleType == Idle \in Request
  BY DEF Idle, Request, Pc

\* Moving a request to its next step keeps the requests typed.
LEMMA SetPc ==
    ASSUME req \in [Req -> Request], NEW r \in Req, NEW pc \in Pc
    PROVE  [req EXCEPT ![r].pc = pc] \in [Req -> Request]
  BY DEF Request

\* So does entering the copying of the body with the offset found on disk.
LEMMA SetCopy ==
    ASSUME req \in [Req -> Request], NEW r \in Req, NEW n \in Nat
    PROVE  [req EXCEPT ![r].pc = "copy", ![r].base = n, ![r].got = 0] \in [Req -> Request]
  <1>1. "copy" \in Pc
    BY DEF Pc
  <1>2. [req[r] EXCEPT !.pc = "copy", !.base = n, !.got = 0] \in Request
    BY <1>1 DEF Request
  <1> QED
    BY <1>2

(* Each action keeps the structure *)

\* handleTusCreate, the answer of Stat: the session gets its path and size.
LEMMA StructureCreateStat ==
    ASSUME TypeOK, RequestInv, SessionInv, NEW r \in Req, NEW s \in Session, NEW p \in Path, NEW n \in Nat, NEW override \in BOOLEAN, CreateStat(r, s, p, n, override)
    PROVE  Structure'
  <1>1. TypeOK'
    <2>1. sess' \in [Session -> SessionObject]
      BY SetTarget DEF TypeOK, CreateStat
    <2>2. req' \in [Req -> Request]
      BY DEF TypeOK, Idle, Request, Pc, CreateStat
    <2> QED
      BY <2>1, <2>2 DEF TypeOK, CreateStat
  <1>2. RequestInv'
    BY <1>1 DEF TypeOK, RequestInv, SessionInv, Opening, Idle, Request, SessionObject, CreateStat
  <1>3. SessionInv'
    BY <1>1 DEF TypeOK, RequestInv, SessionInv, Opening, Idle, Request, SessionObject, CreateStat
  <1> QED  BY <1>1, <1>2, <1>3 DEF Structure

\* handleTusCreate, the removal of what is overridden.
LEMMA StructureCreateRemove ==
    ASSUME TypeOK, RequestInv, SessionInv, NEW r \in Req, CreateRemove(r)
    PROVE  Structure'
  <1>1. TypeOK'
    <2>1. sess' \in [Session -> SessionObject]
      BY DEF TypeOK, SessionObject, CreateRemove, Unlink
    <2>2. req' \in [Req -> Request]
      BY DEF TypeOK, Idle, Request, Pc, CreateRemove, Unlink
    <2> QED
      BY <2>1, <2>2 DEF TypeOK, CreateRemove, Unlink
  <1>2. RequestInv'
    BY <1>1 DEF TypeOK, RequestInv, SessionInv, Opening, Idle, Request, SessionObject, CreateRemove, Unlink
  <1>3. SessionInv'
    BY <1>1 DEF TypeOK, RequestInv, SessionInv, Opening, Idle, Request, SessionObject, CreateRemove, Unlink
  <1> QED  BY <1>1, <1>2, <1>3 DEF Structure

\* StartUpload: a session is bound to an inode that belongs to no other yet, or
\* to the file that is already at its path.
LEMMA StructureCreateOpen ==
    ASSUME TypeOK, RequestInv, SessionInv, NEW r \in Req, CreateOpen(r)
    PROVE  Structure'
  <1> DEFINE s == req[r].s
             p == sess[s].path
             i == IF dir[p] = Absent THEN s ELSE dir[p]
  <1>1. s \in Session /\ s \in used /\ p \in Path /\ sess[s].ino = Absent
    BY DEF TypeOK, RequestInv, Opening, CreateOpen
  <1>2. i \in Inode /\ (i = s \/ i = dir[p])
    BY <1>1 DEF TypeOK
  <1>3. /\ dir' = [dir EXCEPT ![p] = i]
        /\ data' = [data EXCEPT ![i] = [len |-> 0, by |-> i]]
        /\ sess' = [sess EXCEPT ![s].ino = i, ![s].open = TRUE, ![s].idle = FALSE]
        /\ registered' = registered \cup {s}
        /\ req' = [req EXCEPT ![r] = Idle]
        /\ UNCHANGED <<used, mutex, complete, moving>>
    BY DEF CreateOpen
  <1>4. req[r].pc = "open"
    BY DEF CreateOpen
  <1> HIDE DEF p, i
  <1>5. TypeOK'
    <2>1. sess' \in [Session -> SessionObject]
      BY <1>1, <1>2, <1>3, SetInode DEF TypeOK
    <2>2. req' \in [Req -> Request]
      BY <1>3, IdleType DEF TypeOK
    <2>3. dir' \in [Path -> Inode \cup {Absent}] /\ data' \in [Inode -> Content]
      BY <1>2, <1>3 DEF TypeOK, Content
    <2> QED
      BY <1>1, <1>3, <2>1, <2>2, <2>3 DEF TypeOK
  <1>6. \A u \in Session \ {s} : sess'[u] = sess[u]
    BY <1>1, <1>3 DEF TypeOK
  <1>7. sess'[s].ino = i /\ sess'[s].path = p
    BY <1>1, <1>3 DEF TypeOK, SessionObject, p
  <1>8. \A q \in Req \ {r} : req'[q] = req[q]
    BY <1>3 DEF TypeOK
  <1>9. req'[r].pc = "idle"
    BY <1>3 DEF TypeOK, Idle
  <1>10. RequestInv'
    <2>1. ASSUME NEW q \in Req, req'[q].pc # "idle"
          PROVE  /\ q # r /\ req'[q] = req[q] /\ req[q].s \in Session /\ req[q].s \in used
                 /\ req[q].pc \in Opening => req[q].s # s
      <3>1. q # r /\ req'[q] = req[q]
        BY <1>8, <1>9, <2>1
      <3> QED
        BY <1>4, <2>1, <3>1 DEF RequestInv, Opening
    <2>2. ASSUME NEW q \in Req, req'[q].pc # "idle"
          PROVE  /\ sess'[req[q].s].path \in Path
                 /\ req[q].pc \in Opening => sess'[req[q].s].ino = Absent
                 /\ req[q].pc \notin Opening => sess'[req[q].s].ino \in Inode
      BY <1>1, <1>2, <1>6, <1>7, <2>1, <2>2 DEF RequestInv
    <2>3. used' = used
      BY <1>3
    <2>4. "idle" \notin Opening
      BY DEF Opening
    <2> QED
      BY <2>1, <2>2, <2>3, <2>4 DEF RequestInv
  <1>11. SessionInv'
    <2>1. ASSUME NEW u \in Session
          PROVE  /\ u \in registered' => sess'[u].ino \in Inode
                 /\ sess'[u].ino # Absent => u \in used' /\ sess'[u].path \in Path
      <3>1. registered' = registered \cup {s} /\ used' = used
        BY <1>3
      <3>2. CASE u = s
        BY <1>1, <1>2, <1>7, <3>1, <3>2
      <3>3. CASE u # s
        BY <1>6, <3>1, <3>3 DEF SessionInv
      <3> QED BY <3>2, <3>3
    <2>2. ASSUME NEW u \in Session, sess'[u].ino = Absent
          PROVE  /\ ~sess'[u].open
                 /\ \A x \in Path : dir'[x] # u
                 /\ \A x \in Session : sess'[x].ino # u
      <3>1. u # s /\ sess[u].ino = Absent
        BY <1>2, <1>6, <1>7, <2>2
      <3>2. i # u
        BY <1>1, <1>2, <3>1 DEF SessionInv
      <3> QED
        BY <1>3, <1>6, <1>7, <3>1, <3>2 DEF SessionInv, TypeOK
    <2>3. ASSUME NEW f \in Saved \ used
          PROVE  /\ \A x \in Path : dir'[x] # f
                 /\ \A x \in Session : sess'[x].ino # f
      <3>1. i # f
        BY <1>1, <1>2 DEF SessionInv
      <3> QED
        BY <1>3, <1>6, <1>7, <3>1 DEF SessionInv, TypeOK
    <2> QED
      BY <1>3, <2>1, <2>2, <2>3 DEF SessionInv
  <1> QED  BY <1>5, <1>10, <1>11 DEF Structure

\* handleTusHead, the session is found.
LEMMA StructureHeadGet ==
    ASSUME TypeOK, RequestInv, SessionInv, NEW r \in Req, NEW s \in Session, HeadGet(r, s)
    PROVE  Structure'
  <1>1. TypeOK'
    <2>1. sess' \in [Session -> SessionObject]
      BY SetIdle DEF TypeOK, HeadGet, Get
    <2>2. req' \in [Req -> Request]
      BY DEF TypeOK, Idle, Request, Pc, HeadGet, Get
    <2> QED
      BY <2>1, <2>2 DEF TypeOK, HeadGet, Get
  <1>2. RequestInv'
    BY <1>1 DEF TypeOK, RequestInv, SessionInv, Opening, Idle, Request, SessionObject, HeadGet, Get
  <1>3. SessionInv'
    BY <1>1 DEF TypeOK, RequestInv, SessionInv, Opening, Idle, Request, SessionObject, HeadGet, Get
  <1> QED  BY <1>1, <1>2, <1>3 DEF Structure

\* handleTusHead, the answer.
LEMMA StructureHeadOffset ==
    ASSUME TypeOK, RequestInv, SessionInv, NEW r \in Req, HeadOffset(r)
    PROVE  Structure'
  <1>1. TypeOK'
    <2>1. sess' \in [Session -> SessionObject]
      BY DEF TypeOK, SessionObject, HeadOffset
    <2>2. req' \in [Req -> Request]
      BY DEF TypeOK, Idle, Request, Pc, HeadOffset
    <2> QED
      BY <2>1, <2>2 DEF TypeOK, HeadOffset
  <1>2. RequestInv'
    BY <1>1 DEF TypeOK, RequestInv, SessionInv, Opening, Idle, Request, SessionObject, HeadOffset
  <1>3. SessionInv'
    BY <1>1 DEF TypeOK, RequestInv, SessionInv, Opening, Idle, Request, SessionObject, HeadOffset
  <1> QED  BY <1>1, <1>2, <1>3 DEF Structure

\* handleTusDelete, the session is found.
LEMMA StructureDeleteGet ==
    ASSUME TypeOK, RequestInv, SessionInv, NEW r \in Req, NEW s \in Session, DeleteGet(r, s)
    PROVE  Structure'
  <1>1. TypeOK'
    <2>1. sess' \in [Session -> SessionObject]
      BY SetIdle DEF TypeOK, DeleteGet, Get
    <2>2. req' \in [Req -> Request]
      BY DEF TypeOK, Idle, Request, Pc, DeleteGet, Get
    <2> QED
      BY <2>1, <2>2 DEF TypeOK, DeleteGet, Get
  <1>2. RequestInv'
    BY <1>1 DEF TypeOK, RequestInv, SessionInv, Opening, Idle, Request, SessionObject, DeleteGet, Get
  <1>3. SessionInv'
    BY <1>1 DEF TypeOK, RequestInv, SessionInv, Opening, Idle, Request, SessionObject, DeleteGet, Get
  <1> QED  BY <1>1, <1>2, <1>3 DEF Structure

\* handleTusDelete, the session leaves the registry.
LEMMA StructureDeleteUnregister ==
    ASSUME TypeOK, RequestInv, SessionInv, NEW r \in Req, DeleteUnregister(r)
    PROVE  Structure'
  <1>1. TypeOK'
    <2>1. sess' \in [Session -> SessionObject]
      BY DEF TypeOK, SessionObject, DeleteUnregister
    <2>2. req' \in [Req -> Request]
      BY DEF TypeOK, Idle, Request, Pc, DeleteUnregister
    <2> QED
      BY <2>1, <2>2 DEF TypeOK, DeleteUnregister
  <1>2. RequestInv'
    BY <1>1 DEF TypeOK, RequestInv, SessionInv, Opening, Idle, Request, SessionObject, DeleteUnregister
  <1>3. SessionInv'
    BY <1>1 DEF TypeOK, RequestInv, SessionInv, Opening, Idle, Request, SessionObject, DeleteUnregister
  <1> QED  BY <1>1, <1>2, <1>3 DEF Structure

\* handleTusDelete, the file is closed and its path removed.
LEMMA StructureDeleteAbort ==
    ASSUME TypeOK, RequestInv, SessionInv, NEW r \in Req, DeleteAbort(r)
    PROVE  Structure'
  <1>1. TypeOK'
    <2>1. sess' \in [Session -> SessionObject]
      BY SetOpen DEF TypeOK, DeleteAbort, Unlink
    <2>2. req' \in [Req -> Request]
      BY DEF TypeOK, Idle, Request, Pc, DeleteAbort, Unlink
    <2> QED
      BY <2>1, <2>2 DEF TypeOK, DeleteAbort, Unlink
  <1>2. RequestInv'
    BY <1>1 DEF TypeOK, RequestInv, SessionInv, Opening, Idle, Request, SessionObject, DeleteAbort, Unlink
  <1>3. SessionInv'
    BY <1>1 DEF TypeOK, RequestInv, SessionInv, Opening, Idle, Request, SessionObject, DeleteAbort, Unlink
  <1> QED  BY <1>1, <1>2, <1>3 DEF Structure

\* handleTusPatch, the session is found.
LEMMA StructurePatchGet ==
    ASSUME TypeOK, RequestInv, SessionInv, NEW r \in Req, NEW s \in Session, NEW off \in Nat, PatchGet(r, s, off)
    PROVE  Structure'
  <1>1. TypeOK'
    <2>1. sess' \in [Session -> SessionObject]
      BY SetIdle DEF TypeOK, PatchGet, Get
    <2>2. req' \in [Req -> Request]
      BY DEF TypeOK, Idle, Request, Pc, PatchGet, Get
    <2> QED
      BY <2>1, <2>2 DEF TypeOK, PatchGet, Get
  <1>2. RequestInv'
    BY <1>1 DEF TypeOK, RequestInv, SessionInv, Opening, Idle, Request, SessionObject, PatchGet, Get
  <1>3. SessionInv'
    BY <1>1 DEF TypeOK, RequestInv, SessionInv, Opening, Idle, Request, SessionObject, PatchGet, Get
  <1> QED  BY <1>1, <1>2, <1>3 DEF Structure

\* handleTusPatch, the lock is taken and the offsets compared.
LEMMA StructurePatchLock ==
    ASSUME TypeOK, RequestInv, SessionInv, NEW r \in Req, PatchLock(r)
    PROVE  Structure'
  <1>1. /\ req[r].pc = "lock"
        /\ req[r].s \in Session /\ req[r].s \in used
        /\ sess[req[r].s].path \in Path /\ sess[req[r].s].ino \in Inode
    BY DEF RequestInv, Opening, PatchLock
  <1>2. UNCHANGED <<dir, data, used, sess, registered, complete, moving>>
    BY DEF PatchLock
  <1>3. mutex' \in [Session -> Req \cup {None}]
    BY DEF TypeOK, PatchLock
  <1>4. /\ req' \in [Req -> Request]
        /\ \A q \in Req \ {r} : req'[q] = req[q]
        /\ req'[r].pc \in {"copy", "drain"} /\ req'[r].s = req[r].s
    <2>1. CASE Acceptable(r)
      <3>1. req' = [req EXCEPT ![r].pc = "copy", ![r].base = data[sess[req[r].s].ino].len, ![r].got = 0]
        BY <2>1 DEF PatchLock
      <3>2. data[sess[req[r].s].ino].len \in Nat
        BY <1>1 DEF TypeOK, Content
      <3>3. req' \in [Req -> Request]
        BY <3>1, <3>2, SetCopy DEF TypeOK
      <3> QED
        BY <3>1, <3>3 DEF TypeOK, Request
    <2>2. CASE ~Acceptable(r)
      <3>1. req' = [req EXCEPT ![r].pc = "drain"] /\ "drain" \in Pc
        BY <2>2 DEF PatchLock, Pc
      <3>2. req' \in [Req -> Request]
        BY <3>1, SetPc DEF TypeOK
      <3> QED
        BY <3>1, <3>2 DEF TypeOK, Request
    <2> QED
      BY <2>1, <2>2
  <1>5. TypeOK'
    BY <1>2, <1>3, <1>4 DEF TypeOK
  <1>6. RequestInv'
    BY <1>1, <1>2, <1>4 DEF RequestInv, Opening
  <1>7. SessionInv'
    BY <1>2 DEF SessionInv
  <1> QED  BY <1>5, <1>6, <1>7 DEF Structure

\* copyTusBody writes bytes of the body.
LEMMA StructurePatchWrite ==
    ASSUME TypeOK, RequestInv, SessionInv, NEW r \in Req, PatchWrite(r)
    PROVE  Structure'
  <1>1. TypeOK'
    <2>1. sess' \in [Session -> SessionObject]
      BY DEF TypeOK, SessionObject, PatchWrite, WriteAt, Remaining
    <2>2. req' \in [Req -> Request]
      BY DEF TypeOK, Idle, Request, Pc, PatchWrite, WriteAt, Remaining
    <2>3. data' \in [Inode -> Content]
      <3>1. /\ req[r].s \in Session /\ sess[req[r].s].ino \in Inode
            /\ sess[req[r].s].size \in Nat
            /\ req[r].off \in Nat /\ req[r].base \in Nat /\ req[r].got \in Nat
        BY DEF TypeOK, PatchWrite, RequestInv, Opening, Request, SessionObject
      <3>2. PICK k \in Nat : WriteAt(sess[req[r].s].ino, req[r].s, req[r].base + req[r].got,
                                     req[r].off + req[r].got, k)
        BY <3>1 DEF PatchWrite, Remaining
      <3> QED
        BY <3>1, <3>2 DEF TypeOK, WriteAt, Content
    <2> QED
      BY <2>1, <2>2, <2>3 DEF TypeOK, PatchWrite
  <1>2. RequestInv'
    BY <1>1 DEF TypeOK, RequestInv, SessionInv, Opening, Idle, Request, SessionObject, PatchWrite, WriteAt, Remaining
  <1>3. SessionInv'
    BY <1>1 DEF TypeOK, RequestInv, SessionInv, Opening, Idle, Request, SessionObject, PatchWrite, WriteAt, Remaining
  <1> QED  BY <1>1, <1>2, <1>3 DEF Structure

\* copyTusBody finds the file closed.
LEMMA StructurePatchFail ==
    ASSUME TypeOK, RequestInv, SessionInv, NEW r \in Req, PatchFail(r)
    PROVE  Structure'
  <1>1. TypeOK'
    <2>1. sess' \in [Session -> SessionObject]
      BY DEF TypeOK, SessionObject, PatchFail, Remaining
    <2>2. req' \in [Req -> Request]
      BY DEF TypeOK, Idle, Request, Pc, PatchFail, Remaining
    <2> QED
      BY <2>1, <2>2 DEF TypeOK, PatchFail, Remaining
  <1>2. RequestInv'
    BY <1>1 DEF TypeOK, RequestInv, SessionInv, Opening, Idle, Request, SessionObject, PatchFail, Remaining
  <1>3. SessionInv'
    BY <1>1 DEF TypeOK, RequestInv, SessionInv, Opening, Idle, Request, SessionObject, PatchFail, Remaining
  <1> QED  BY <1>1, <1>2, <1>3 DEF Structure

\* drainTusBody comes to the end of the body, and the error is answered.
LEMMA StructurePatchRefuse ==
    ASSUME TypeOK, RequestInv, SessionInv, NEW r \in Req, PatchRefuse(r)
    PROVE  Structure'
  <1>1. TypeOK'
    <2>1. sess' \in [Session -> SessionObject]
      BY DEF TypeOK, SessionObject, PatchRefuse, Remaining
    <2>2. req' \in [Req -> Request]
      BY DEF TypeOK, Idle, Request, Pc, PatchRefuse, Remaining
    <2> QED
      BY <2>1, <2>2 DEF TypeOK, PatchRefuse, Remaining
  <1>2. RequestInv'
    BY <1>1 DEF TypeOK, RequestInv, SessionInv, Opening, Idle, Request, SessionObject, PatchRefuse, Remaining
  <1>3. SessionInv'
    BY <1>1 DEF TypeOK, RequestInv, SessionInv, Opening, Idle, Request, SessionObject, PatchRefuse, Remaining
  <1> QED  BY <1>1, <1>2, <1>3 DEF Structure

\* handleTusPatch, the body is over and the upload is not.
LEMMA StructurePatchEnd ==
    ASSUME TypeOK, RequestInv, SessionInv, NEW r \in Req, PatchEnd(r)
    PROVE  Structure'
  <1>1. /\ req[r].pc = "copy"
        /\ req[r].s \in Session /\ req[r].s \in used
        /\ sess[req[r].s].path \in Path /\ sess[req[r].s].ino \in Inode
    BY DEF RequestInv, Opening, PatchEnd
  <1>2. UNCHANGED <<dir, data, used, sess, registered, complete, moving>>
    BY DEF PatchEnd
  <1>3. mutex' \in [Session -> Req \cup {None}]
    BY DEF TypeOK, PatchEnd
  <1>4. /\ req' \in [Req -> Request]
        /\ \A q \in Req \ {r} : req'[q] = req[q]
        /\ \/ req'[r].pc = "commit" /\ req'[r].s = req[r].s
           \/ req'[r].pc = "idle"
    <2>1. CASE req' = [req EXCEPT ![r].pc = "commit"]
      <3>1. "commit" \in Pc
        BY DEF Pc
      <3> QED
        BY <2>1, <3>1, SetPc DEF TypeOK, Request
    <2>2. CASE req' = [req EXCEPT ![r] = Idle]
      BY <2>2, IdleType DEF TypeOK, Idle
    <2> QED
      BY <2>1, <2>2 DEF PatchEnd
  <1>5. TypeOK'
    BY <1>2, <1>3, <1>4 DEF TypeOK
  <1>6. RequestInv'
    BY <1>1, <1>2, <1>4 DEF RequestInv, Opening
  <1>7. SessionInv'
    BY <1>2 DEF SessionInv
  <1> QED  BY <1>5, <1>6, <1>7 DEF Structure

\* handleTusPatch, Commit closes the file.
LEMMA StructurePatchCommit ==
    ASSUME TypeOK, RequestInv, SessionInv, NEW r \in Req, PatchCommit(r)
    PROVE  Structure'
  <1>1. /\ req[r].pc = "commit"
        /\ req[r].s \in Session /\ req[r].s \in used
        /\ sess[req[r].s].path \in Path /\ sess[req[r].s].ino \in Inode
    BY DEF RequestInv, Opening, PatchCommit
  <1>2. /\ UNCHANGED <<dir, data, used, registered, complete, moving>>
        /\ sess' = [sess EXCEPT ![req[r].s].open = FALSE]
    BY DEF PatchCommit
  <1>3. mutex' \in [Session -> Req \cup {None}]
    BY DEF TypeOK, PatchCommit
  <1>4. /\ req' \in [Req -> Request]
        /\ \A q \in Req \ {r} : req'[q] = req[q]
        /\ \/ req'[r].pc = "drop" /\ req'[r].s = req[r].s
           \/ req'[r].pc = "idle"
    <2>1. CASE req' = [req EXCEPT ![r].pc = "drop"]
      <3>1. "drop" \in Pc
        BY DEF Pc
      <3> QED
        BY <2>1, <3>1, SetPc DEF TypeOK, Request
    <2>2. CASE req' = [req EXCEPT ![r] = Idle]
      BY <2>2, IdleType DEF TypeOK, Idle
    <2> QED
      BY <2>1, <2>2 DEF PatchCommit
  <1>5. sess' \in [Session -> SessionObject]
    BY <1>1, <1>2, SetOpen DEF TypeOK
  <1>6. \A s \in Session : /\ sess'[s].ino = sess[s].ino /\ sess'[s].path = sess[s].path
                           /\ sess'[s].open => sess[s].open
    BY <1>1, <1>2 DEF TypeOK, SessionObject
  <1>7. TypeOK'
    BY <1>2, <1>3, <1>4, <1>5 DEF TypeOK
  <1>8. RequestInv'
    BY <1>1, <1>2, <1>4, <1>6 DEF RequestInv, Opening
  <1>9. SessionInv'
    BY <1>2, <1>6 DEF SessionInv
  <1> QED  BY <1>7, <1>8, <1>9 DEF Structure

\* handleTusPatch, the finished session is dropped and the client told.
LEMMA StructurePatchDrop ==
    ASSUME TypeOK, RequestInv, SessionInv, NEW r \in Req, PatchDrop(r)
    PROVE  Structure'
  <1>1. TypeOK'
    <2>1. sess' \in [Session -> SessionObject]
      BY DEF TypeOK, SessionObject, PatchDrop
    <2>2. req' \in [Req -> Request]
      BY DEF TypeOK, Idle, Request, Pc, PatchDrop
    <2> QED
      BY <2>1, <2>2 DEF TypeOK, PatchDrop, RequestInv, Opening
  <1>2. RequestInv'
    BY <1>1 DEF TypeOK, RequestInv, SessionInv, Opening, Idle, Request, SessionObject, PatchDrop
  <1>3. SessionInv'
    BY <1>1 DEF TypeOK, RequestInv, SessionInv, Opening, Idle, Request, SessionObject, PatchDrop
  <1> QED  BY <1>1, <1>2, <1>3 DEF Structure

\* Time passes over a session.
LEMMA StructureExpire ==
    ASSUME TypeOK, RequestInv, SessionInv, NEW s \in Session, Expire(s)
    PROVE  Structure'
  <1>1. TypeOK'
    <2>1. sess' \in [Session -> SessionObject]
      BY SetIdle DEF TypeOK, Expire
    <2>2. req' \in [Req -> Request]
      BY DEF TypeOK, Idle, Request, Pc, Expire
    <2> QED
      BY <2>1, <2>2 DEF TypeOK, Expire
  <1>2. RequestInv'
    BY <1>1 DEF TypeOK, RequestInv, SessionInv, Opening, Idle, Request, SessionObject, Expire
  <1>3. SessionInv'
    BY <1>1 DEF TypeOK, RequestInv, SessionInv, Opening, Idle, Request, SessionObject, Expire
  <1> QED  BY <1>1, <1>2, <1>3 DEF Structure

\* gc: expired sessions are dropped, closed and their paths removed.
LEMMA StructureCollect ==
    ASSUME TypeOK, RequestInv, SessionInv, Collect
    PROVE  Structure'
  <1>1. TypeOK'
    <2>1. sess' \in [Session -> SessionObject]
      BY CloseSome DEF TypeOK, Collect, Abandoned
    <2>2. req' \in [Req -> Request]
      BY DEF TypeOK, Idle, Request, Pc, Collect, Abandoned
    <2> QED
      BY <2>1, <2>2 DEF TypeOK, Collect, Abandoned
  <1>2. RequestInv'
    BY <1>1 DEF TypeOK, RequestInv, SessionInv, Opening, Idle, Request, SessionObject, Collect, Abandoned
  <1>3. SessionInv'
    BY <1>1 DEF TypeOK, RequestInv, SessionInv, Opening, Idle, Request, SessionObject, Collect, Abandoned
  <1> QED  BY <1>1, <1>2, <1>3 DEF Structure

\* Another handler saves a file.
LEMMA StructureSaveFile ==
    ASSUME TypeOK, RequestInv, SessionInv, NEW p \in Path, NEW f \in Saved, SaveFile(p, f)
    PROVE  Structure'
  <1>1. TypeOK'
    <2>1. sess' \in [Session -> SessionObject]
      BY DEF TypeOK, SessionObject, SaveFile
    <2>2. req' \in [Req -> Request]
      BY DEF TypeOK, Idle, Request, Pc, SaveFile
    <2> QED
      BY <2>1, <2>2 DEF TypeOK, SaveFile
  <1>2. RequestInv'
    BY <1>1 DEF TypeOK, RequestInv, SessionInv, Opening, Idle, Request, SessionObject, SaveFile
  <1>3. SessionInv'
    BY <1>1 DEF TypeOK, RequestInv, SessionInv, Opening, Idle, Request, SessionObject, SaveFile
  <1> QED  BY <1>1, <1>2, <1>3 DEF Structure

\* Another handler deletes a file.
LEMMA StructureRemoveFile ==
    ASSUME TypeOK, RequestInv, SessionInv, NEW p \in Path, RemoveFile(p)
    PROVE  Structure'
  <1>1. TypeOK'
    <2>1. sess' \in [Session -> SessionObject]
      BY DEF TypeOK, SessionObject, RemoveFile, Unlink
    <2>2. req' \in [Req -> Request]
      BY DEF TypeOK, Idle, Request, Pc, RemoveFile, Unlink
    <2> QED
      BY <2>1, <2>2 DEF TypeOK, RemoveFile, Unlink
  <1>2. RequestInv'
    BY <1>1 DEF TypeOK, RequestInv, SessionInv, Opening, Idle, Request, SessionObject, RemoveFile, Unlink
  <1>3. SessionInv'
    BY <1>1 DEF TypeOK, RequestInv, SessionInv, Opening, Idle, Request, SessionObject, RemoveFile, Unlink
  <1> QED  BY <1>1, <1>2, <1>3 DEF Structure

\* A step of another handler on the tree: a path is bound to nothing, to an inode
\* some path was bound to, or to one that is allocated for it.
LEMMA StructureTree ==
    ASSUME TypeOK, RequestInv, SessionInv, UNCHANGED <<sess, registered, mutex, req, complete>>,
           used \subseteq used', used' \subseteq Inode,
           dir' \in [Path -> Inode \cup {Absent}], data' \in [Inode -> Content],
           move' \in [Mover -> Move], overwritten' \subseteq Session,
           \A p \in Path : \/ dir'[p] = Absent
                          \/ \E q \in Path : dir'[p] = dir[q]
                          \/ dir'[p] \in Saved \cap used'
    PROVE  Structure'
  <1>1. TypeOK'
    BY DEF TypeOK
  <1>2. RequestInv'
    BY DEF RequestInv
  <1>3. SessionInv'
    BY DEF SessionInv
  <1> QED  BY <1>1, <1>2, <1>3 DEF Structure

\* Move, its end on one device, and the end of a copy: a path is unbound or bound anew.
LEMMA StructureMoveEnds ==
    ASSUME TypeOK, RequestInv, SessionInv, NEW m \in Mover,
           MoveRename(m) \/ MoveDrop(m) \/ MoveFail(m)
    PROVE  Structure'
  <1>1. UNCHANGED <<data, used, sess, registered, mutex, req, complete, overwritten>>
    BY DEF MoveRename, MoveDrop, MoveFail
  <1>2. move' \in [Mover -> Move]
    BY DEF MoveRename, MoveDrop, MoveFail, TypeOK, Move
  <1>3. \A v \in Move : v.at # "idle" => v.from \in Path /\ v.to \in Path
    BY DEF Move, Resting
  <1>4. move[m].from \in Path /\ move[m].to \in Path
    BY <1>3 DEF MoveRename, MoveDrop, MoveFail, TypeOK
  <1>5. /\ dir' \in [Path -> Inode \cup {Absent}]
        /\ \A p \in Path : dir'[p] = Absent \/ \E q \in Path : dir'[p] = dir[q]
    BY <1>4 DEF MoveRename, MoveDrop, MoveFail, Unlink, TypeOK
  <1> QED  BY <1>1, <1>2, <1>5, StructureTree DEF TypeOK

\* Move, the destination is free.
LEMMA StructureMoveCheck ==
    ASSUME TypeOK, RequestInv, SessionInv, NEW m \in Mover, NEW p \in Path, NEW q \in Path,
           MoveCheck(m, p, q)
    PROVE  Structure'
  <1>1. [at |-> "found", from |-> p, to |-> q] \in Move
    BY DEF Move
  <1>2. move' \in [Mover -> Move]
    BY <1>1 DEF MoveCheck, TypeOK
  <1> QED  BY <1>2, StructureTree DEF MoveCheck, TypeOK

\* copyFile opens the destination: it is bound to what it was bound to, or to a new inode.
LEMMA StructureMoveOpen ==
    ASSUME TypeOK, RequestInv, SessionInv, NEW m \in Mover, NEW i \in Inode, MoveOpen(m, i)
    PROVE  Structure'
  <1> DEFINE v == move[m]
  <1>1. v.at = "found" /\ v \in Move
    BY DEF MoveOpen, TypeOK
  <1>2. v.from \in Path /\ v.to \in Path
    BY <1>1 DEF Move, Resting
  <1>3. /\ dir[v.from] # Absent
        /\ IF dir[v.to] = Absent THEN i \in Saved \ used ELSE i = dir[v.to]
        /\ dir' = [dir EXCEPT ![v.to] = i]
        /\ data' = [data EXCEPT ![i] = [len |-> 0, by |-> i]]
        /\ used' = used \cup {i}
        /\ overwritten' = overwritten \cup Writers(i)
        /\ move' = [move EXCEPT ![m] = [at |-> "copy", from |-> v.from, to |-> v.to,
                                        in |-> dir[v.from], out |-> i, got |-> 0]]
        /\ UNCHANGED <<sess, registered, mutex, req, complete>>
    BY DEF MoveOpen
  <1> HIDE DEF v
  <1>4. dir[v.from] \in Inode
    BY <1>2, <1>3 DEF TypeOK
  <1>5. [at |-> "copy", from |-> v.from, to |-> v.to, in |-> dir[v.from], out |-> i, got |-> 0] \in Move
    BY <1>2, <1>4 DEF Move
  <1>6. move' \in [Mover -> Move]
    BY <1>3, <1>5 DEF TypeOK
  <1>7. /\ dir' \in [Path -> Inode \cup {Absent}] /\ data' \in [Inode -> Content]
        /\ overwritten' \subseteq Session /\ used \subseteq used' /\ used' \subseteq Inode
    BY <1>2, <1>3 DEF TypeOK, Writers
  <1>8. \A p \in Path : dir'[p] = dir[p] \/ dir'[p] \in Saved \cap used'
    BY <1>2, <1>3 DEF TypeOK
  <1> QED  BY <1>3, <1>6, <1>7, <1>8, StructureTree

\* io.Copy writes to the inode it has opened.
LEMMA StructureMoveCopy ==
    ASSUME TypeOK, RequestInv, SessionInv, NEW m \in Mover, MoveCopy(m)
    PROVE  Structure'
  <1> DEFINE v == move[m]
  <1>1. v.at = "copy" /\ v \in Move
    BY DEF MoveCopy, TypeOK
  <1>2. /\ v.from \in Path /\ v.to \in Path /\ v.in \in Inode /\ v.out \in Inode /\ v.got \in Nat
        /\ \A k \in Nat : [v EXCEPT !.got = v.got + k] \in Move
    BY <1>1 DEF Move, Resting
  <1>3. PICK k \in 1 .. data[v.in].len - v.got :
            /\ WriteAt(v.out, data[v.in].by, v.got, v.got, k)
            /\ move' = [move EXCEPT ![m] = [v EXCEPT !.got = v.got + k]]
    BY DEF MoveCopy
  <1>4. /\ overwritten' = overwritten \cup Writers(v.out)
        /\ UNCHANGED <<dir, used, sess, registered, mutex, req, complete>>
    BY DEF MoveCopy
  <1> HIDE DEF v
  <1>5. data[v.in].len \in Nat /\ data[v.in].by \in Inode \cup {Mixed} /\ data[v.out].len \in Nat
    BY <1>2 DEF TypeOK
  <1>6. k \in Nat
    BY <1>2, <1>3, <1>5
  <1>7. data' \in [Inode -> Content]
    BY <1>2, <1>3, <1>5, <1>6 DEF TypeOK, WriteAt
  <1>8. move' \in [Mover -> Move]
    BY <1>2, <1>3, <1>6 DEF TypeOK
  <1> QED  BY <1>4, <1>7, <1>8, StructureTree DEF TypeOK, Writers

\* Every step of a move keeps the structure.
LEMMA StructureMove ==
    ASSUME TypeOK, RequestInv, SessionInv, NEW m \in Mover, MoveNext(m)
    PROVE  Structure'
  BY StructureMoveEnds, StructureMoveCheck, StructureMoveOpen, StructureMoveCopy DEF MoveNext

\* The server stops: registry, locks and requests are gone, the tree stays.
LEMMA StructureCrash ==
    ASSUME TypeOK, RequestInv, SessionInv, Crash
    PROVE  Structure'
  <1>1. /\ sess' = [s \in Session |-> [sess[s] EXCEPT !.open = FALSE]]
        /\ req' = [r \in Req |-> Idle]
        /\ mutex' = [s \in Session |-> None]
        /\ registered' = {}
        /\ move' = [m \in Mover |-> Resting]
        /\ UNCHANGED <<dir, data, used, complete, overwritten>>
    BY DEF Crash
  <1>2. sess' \in [Session -> SessionObject]
    <2>1. sess \in [Session -> SessionObject]
      BY DEF TypeOK
    <2> QED
      BY <1>1, <2>1 DEF SessionObject
  <1>3. \A s \in Session : /\ sess'[s].ino = sess[s].ino /\ sess'[s].path = sess[s].path
                           /\ ~sess'[s].open
    BY <1>1 DEF TypeOK, SessionObject
  <1>4. TypeOK'
    BY <1>1, <1>2, IdleType DEF TypeOK, Move
  <1>5. RequestInv'
    BY <1>1 DEF RequestInv, Opening, Idle
  <1>6. SessionInv'
    BY <1>1, <1>3 DEF SessionInv
  <1> QED  BY <1>4, <1>5, <1>6 DEF Structure

\* Every step of the uploads keeps the structure.
LEMMA StructureNext == Structure /\ [Next]_vars => Structure'
  <1> SUFFICES ASSUME TypeOK, RequestInv, SessionInv, [Next]_vars
               PROVE  Structure'
    BY DEF Structure
  <1>1. ASSUME NEW r \in Req, Call(r)
        PROVE  Structure'
    <2>1. ASSUME NEW s \in Session, NEW p \in Path, NEW n \in Sizes, NEW override \in BOOLEAN,
                 CreateStat(r, s, p, n, override)
          PROVE  Structure'
      BY <2>1, StructureCreateStat
    <2>2. ASSUME NEW s \in Session, NEW off \in UNION {0 .. n : n \in Sizes}, PatchGet(r, s, off)
          PROVE  Structure'
      BY <2>2, StructurePatchGet
    <2> QED
      BY <1>1, <2>1, <2>2, StructureHeadGet, StructureDeleteGet DEF Call
  <1>2. ASSUME NEW r \in Req, Continue(r)
        PROVE  Structure'
    BY <1>2, StructureCreateRemove, StructureCreateOpen, StructureHeadOffset,
       StructureDeleteUnregister, StructureDeleteAbort, StructurePatchLock,
       StructurePatchWrite, StructurePatchFail, StructurePatchRefuse, StructurePatchEnd, StructurePatchCommit,
       StructurePatchDrop DEF Continue
  <1>3. CASE UNCHANGED vars
    BY <1>3 DEF vars, Structure, TypeOK, RequestInv, SessionInv
  <1> QED
    BY <1>1, <1>2, <1>3, StructureExpire, StructureCollect, StructureSaveFile,
       StructureRemoveFile, StructureMove, StructureCrash DEF Next

-----------------------------------------------------------------------------
(* What is on disk *)

\* Nothing is on disk at first.
LEMMA DiskInit == Init => Disk
  BY DEF Init, Disk, LockInv, WriterInv, FinishedInv, UploadIsPrefix, CompleteIsWhole,
         Critical, Holding, Idle, Undisturbed, AloneOnInode

\* A step that writes no file, opens no session and leaves the requests that
\* write and their locks alone keeps everything said about the disk.
LEMMA DiskFrame ==
    ASSUME Structure, Disk,
           data' = data, complete' = complete, registered' \subseteq registered,
           overwritten' = overwritten,
           \A s \in Session : /\ sess'[s].ino = sess[s].ino
                              /\ sess[s].ino # Absent => sess'[s].size = sess[s].size
                              /\ sess'[s].open => sess[s].open,
           \A r \in Req : req'[r].pc \in Holding =>
                /\ req'[r] = req[r]
                /\ mutex'[req[r].s] = mutex[req[r].s]
    PROVE  Disk'
  <1>1. \A s \in Session : Undisturbed(s)' = Undisturbed(s)
    BY DEF Undisturbed, AloneOnInode
  <1>2. ASSUME NEW r \in Req, req'[r].pc \in Critical
        PROVE  /\ req'[r] = req[r] /\ req[r].pc \in Critical
               /\ req[r].s \in Session /\ sess[req[r].s].ino \in Inode
               /\ sess'[req[r].s].size = sess[req[r].s].size
    BY <1>2 DEF Structure, RequestInv, Critical, Holding, Opening
  <1>3. LockInv'
    <2>1. ASSUME NEW r \in Req, req'[r].pc \in Holding PROVE mutex'[req'[r].s] = r
      BY <2>1 DEF Disk, LockInv
    <2> QED  BY <1>2, <2>1 DEF Disk, LockInv, Critical, Holding, Remaining
  <1>4. WriterInv'
    BY <1>1, <1>2 DEF Disk, WriterInv
  <1>5. FinishedInv'
    BY DEF Disk, FinishedInv, Structure, TypeOK
  <1>6. UploadIsPrefix'
    BY <1>1 DEF Disk, UploadIsPrefix
  <1>7. CompleteIsWhole'
    BY <1>1 DEF Disk, CompleteIsWhole, FinishedInv, Structure, TypeOK
  <1> QED  BY <1>3, <1>4, <1>5, <1>6, <1>7 DEF Disk

\* StartUpload truncates the inode it opens; nobody else who has that inode is
\* alone on it, and no request can be writing to the new session yet.
LEMMA DiskCreateOpen ==
    ASSUME Structure, Disk, NEW r \in Req, CreateOpen(r)
    PROVE  Disk'
  <1> DEFINE s == req[r].s
             p == sess[s].path
             i == IF dir[p] = Absent THEN s ELSE dir[p]
  <1>1. s \in Session /\ p \in Path /\ sess[s].ino = Absent
    BY DEF Structure, TypeOK, RequestInv, Opening, CreateOpen
  <1>2. i \in Inode
    BY <1>1 DEF Structure, TypeOK
  <1>3. /\ data' = [data EXCEPT ![i] = [len |-> 0, by |-> i]]
        /\ sess' = [sess EXCEPT ![s].ino = i, ![s].open = TRUE, ![s].idle = FALSE]
        /\ registered' = registered \cup {s}
        /\ req' = [req EXCEPT ![r] = Idle]
        /\ UNCHANGED <<mutex, complete, moving>>
    BY DEF CreateOpen
  <1> HIDE DEF s, p, i
  <1>4. /\ \A u \in Session \ {s} : sess'[u] = sess[u]
        /\ sess'[s].ino = i /\ sess'[s].size = sess[s].size /\ sess[s].size \in Nat
    BY <1>1, <1>3 DEF Structure, TypeOK, SessionObject
  <1>5. data'[i].len = 0 /\ \A j \in Inode \ {i} : data'[j] = data[j]
    BY <1>2, <1>3 DEF Structure, TypeOK
  <1>6. ASSUME NEW u \in Session \ {s}, sess[u].ino # Absent, Undisturbed(u)'
        PROVE  Undisturbed(u) /\ sess[u].ino \in Inode \ {i}
    <2>1. sess[u].ino \in Inode
      BY <1>6 DEF Structure, TypeOK, SessionObject
    <2>2. sess[u].ino # i
      BY <1>1, <1>4, <1>6 DEF Undisturbed, AloneOnInode
    <2>3. Undisturbed(u)
      BY <1>1, <1>3, <1>4, <1>6 DEF Undisturbed, AloneOnInode
    <2> QED  BY <2>1, <2>2, <2>3
  <1>7. ASSUME NEW q \in Req, req'[q].pc \in Critical
        PROVE  /\ req'[q] = req[q] /\ req[q].pc \in Critical
               /\ req[q].s \in Session \ {s} /\ sess[req[q].s].ino \in Inode
               /\ sess[req[q].s].ino # Absent
    <2>1. q # r /\ req'[q] = req[q]
      BY <1>3, <1>7 DEF Structure, TypeOK, Idle, Critical
    <2> QED
      BY <1>1, <1>7, <2>1 DEF Structure, RequestInv, Critical, Opening
  <1>8. s \notin complete
    BY <1>1 DEF Disk, FinishedInv
  <1>9. LockInv'
    <2>1. ASSUME NEW q \in Req, req'[q].pc \in Critical
          PROVE  sess'[req[q].s] = sess[req[q].s] /\ Remaining(q)' = Remaining(q)
      BY <1>4, <1>7, <2>1 DEF Remaining
    <2>2. ASSUME NEW q \in Req, req'[q].pc \in Critical
          PROVE  /\ mutex[req[q].s] = q
                 /\ req[q].off = req[q].base
                 /\ req[q].base < sess'[req[q].s].size
                 /\ req[q].got <= Remaining(q)'
                 /\ req[q].pc \in {"commit", "drop"} => req[q].got = Remaining(q)'
                 /\ req[q].pc = "drop" => ~sess'[req[q].s].open
      BY <1>7, <2>1, <2>2 DEF Disk, LockInv, Critical, Holding
    <2>3. mutex' = mutex /\ {"commit", "drop"} \subseteq Critical
      BY <1>3 DEF Critical
    <2>4. ASSUME NEW q \in Req, req'[q].pc \in Holding
          PROVE  mutex'[req'[q].s] = q
      BY <1>3, <2>4 DEF Disk, LockInv, Structure, TypeOK, Idle, Critical, Holding
    <2> QED
      BY <1>7, <2>2, <2>3, <2>4 DEF LockInv
  <1>10. WriterInv'
    BY <1>4, <1>5, <1>6, <1>7 DEF Disk, WriterInv
  <1>11. FinishedInv'
    BY <1>3, <1>4, <1>8 DEF Disk, FinishedInv, Structure, TypeOK
  <1>12. UploadIsPrefix'
    BY <1>4, <1>5, <1>6 DEF Disk, UploadIsPrefix
  <1>13. CompleteIsWhole'
    <2>1. ASSUME NEW u \in complete, Undisturbed(u)'
          PROVE  data'[sess'[u].ino].len = sess'[u].size /\ data'[sess'[u].ino].by = u
      <3>1. u \in Session \ {s} /\ sess[u].ino \in Inode /\ sess[u].ino # Absent
        BY <1>8 DEF Disk, FinishedInv, Structure, TypeOK
      <3> QED
        BY <1>4, <1>5, <1>6, <2>1, <3>1 DEF Disk, CompleteIsWhole
    <2> QED
      BY <1>3, <2>1 DEF CompleteIsWhole
  <1> QED  BY <1>9, <1>10, <1>11, <1>12, <1>13 DEF Disk

\* The request that gets the lock goes on from the length on disk, or leaves.
LEMMA DiskPatchLock ==
    ASSUME Structure, Disk, NEW r \in Req, PatchLock(r)
    PROVE  Disk'
  <1> DEFINE s == req[r].s
  <1>1. s \in Session /\ sess[s].ino \in Inode /\ mutex[s] = None
    BY DEF Structure, RequestInv, Opening, PatchLock
  <1>2. UNCHANGED <<dir, data, used, sess, registered, complete, moving>>
    BY DEF PatchLock
  <1>3. CASE ~Acceptable(r)
    <2>1. /\ mutex' = [mutex EXCEPT ![s] = r]
          /\ req' = [req EXCEPT ![r].pc = "drain"]
      BY <1>3 DEF PatchLock
    <2>2. /\ req'[r].pc = "drain" /\ req'[r].s = s
          /\ \A q \in Req \ {r} : req'[q] = req[q]
      BY <2>1 DEF Structure, TypeOK, Request
    <2>3. ASSUME NEW q \in Req \ {r}, req[q].pc \in Holding
          PROVE  mutex'[req[q].s] = q
      BY <1>1, <2>1, <2>3 DEF Disk, LockInv, Structure, TypeOK, RequestInv, Critical, Holding, Opening
    <2>4. mutex'[s] = r
      BY <1>1, <2>1 DEF Structure, TypeOK
    <2>5. LockInv'
      BY <1>2, <2>2, <2>3, <2>4 DEF Disk, LockInv, Critical, Holding, Remaining
    <2>6. WriterInv'
      BY <1>2, <2>2 DEF Disk, WriterInv, Critical, Undisturbed, AloneOnInode
    <2> QED
      BY <1>2, <2>5, <2>6 DEF Disk, FinishedInv, UploadIsPrefix, CompleteIsWhole, Undisturbed, AloneOnInode
  <1>4. CASE Acceptable(r)
    <2>1. /\ mutex' = [mutex EXCEPT ![s] = r]
          /\ req' = [req EXCEPT ![r].pc = "copy", ![r].base = data[sess[s].ino].len, ![r].got = 0]
      BY <1>4 DEF PatchLock
    <2>2. /\ req'[r].pc = "copy" /\ req'[r].s = s /\ req'[r].off = req[r].off
          /\ req'[r].base = data[sess[s].ino].len /\ req'[r].got = 0
          /\ \A q \in Req \ {r} : req'[q] = req[q]
      BY <2>1 DEF Structure, TypeOK, Request
    <2>3. /\ req[r].off = data[sess[s].ino].len /\ req[r].off < sess[s].size
          /\ sess[s].size \in Nat /\ data[sess[s].ino].len \in Nat
      BY <1>1, <1>4 DEF Acceptable, Structure, TypeOK, SessionObject, Content
    <2>4. LockInv'
      <3>1. ASSUME NEW q \in Req \ {r}, req[q].pc \in Holding
            PROVE  mutex'[req[q].s] = q
        BY <1>1, <2>1, <3>1 DEF Disk, LockInv, Structure, TypeOK, RequestInv, Critical, Holding, Opening
      <3>2. mutex'[s] = r
        BY <1>1, <2>1 DEF Structure, TypeOK
      <3>3. \A q \in Req \ {r} : Remaining(q)' = Remaining(q)
        BY <1>2, <2>2 DEF Remaining
      <3>4. Remaining(r)' = sess[s].size - data[sess[s].ino].len
        BY <1>2, <2>2 DEF Remaining
      <3> QED
        BY <1>2, <2>2, <2>3, <3>1, <3>2, <3>3, <3>4 DEF Disk, LockInv, Critical, Holding
    <2>5. WriterInv'
      BY <1>1, <1>2, <2>2, <2>3 DEF Disk, WriterInv, Critical, Undisturbed, AloneOnInode
    <2> QED
      BY <1>2, <2>4, <2>5 DEF Disk, FinishedInv, UploadIsPrefix, CompleteIsWhole, Undisturbed, AloneOnInode
  <1> QED  BY <1>3, <1>4

\* The heart of it: under the session lock the bytes go exactly behind the bytes
\* that are there, and no session that is alone on its inode sees another write.
LEMMA DiskPatchWrite ==
    ASSUME Structure, Disk, NEW r \in Req, PatchWrite(r)
    PROVE  Disk'
  <1> DEFINE s  == req[r].s
             i  == sess[s].ino
             at == req[r].base + req[r].got
  <1>1. /\ req[r].pc = "copy" /\ s \in Session /\ i \in Inode /\ i # Absent /\ sess[s].open
        /\ sess[s].size \in Nat /\ req[r].off \in Nat /\ req[r].base \in Nat /\ req[r].got \in Nat
        /\ data[i].len \in Nat
    BY DEF Structure, TypeOK, PatchWrite, RequestInv, Opening, Request, SessionObject, Content
  <1>2. mutex[s] = r /\ req[r].off = req[r].base
    BY <1>1 DEF Disk, LockInv, Critical, Holding
  <1>3. PICK k \in 1 .. Remaining(r) - req[r].got :
            /\ WriteAt(i, s, at, req[r].off + req[r].got, k)
            /\ req' = [req EXCEPT ![r].got = @ + k]
    BY DEF PatchWrite
  <1>4. UNCHANGED <<dir, used, sess, registered, mutex, complete, moving>>
    BY DEF PatchWrite
  <1>5. k \in Nat /\ k > 0 /\ at + k <= sess[s].size
    BY <1>1, <1>3 DEF Remaining
  <1>6. /\ req'[r].pc = "copy" /\ req'[r].s = s /\ req'[r].off = req[r].off
        /\ req'[r].base = req[r].base /\ req'[r].got = req[r].got + k
        /\ \A q \in Req \ {r} : req'[q] = req[q]
    <2>1. req \in [Req -> Request]
      BY DEF Structure, TypeOK
    <2>2. req' = [req EXCEPT ![r].got = req[r].got + k]
      BY <1>3
    <2>3. req'[r] = [req[r] EXCEPT !.got = req[r].got + k]
      BY <2>1, <2>2
    <2> QED
      BY <1>1, <2>1, <2>2, <2>3 DEF Request
  <1>7. \A j \in Inode \ {i} : data'[j] = data[j]
    BY <1>1, <1>3 DEF Structure, TypeOK, WriteAt
  <1>8. \A u \in Session : Undisturbed(u)' = Undisturbed(u)
    BY <1>4 DEF Undisturbed, AloneOnInode
  <1>9. ASSUME Undisturbed(s)
        PROVE  data'[i].len = at + k /\ data'[i].by = s
    <2>1. data[i].len = at
      BY <1>1, <1>9 DEF Disk, WriterInv, Critical
    <2>2. data[i].len = 0 \/ data[i].by = s
      BY <1>1, <1>9 DEF Disk, UploadIsPrefix
    <2> QED
      BY <1>1, <1>2, <1>3, <1>5, <2>1, <2>2 DEF WriteAt, Structure, TypeOK
  <1>10. ASSUME NEW u \in Session \ {s}, Undisturbed(u)
         PROVE  sess[u].ino # i
    BY <1>1, <1>10 DEF Undisturbed, AloneOnInode
  <1>11. ASSUME NEW q \in Req \ {r}, req[q].pc \in Critical
         PROVE  req[q].s \in Session \ {s} /\ sess[req[q].s].ino \in Inode
    BY <1>1, <1>2, <1>11 DEF Disk, LockInv, Structure, RequestInv, Critical, Holding, Opening
  <1>12. LockInv'
    <2>1. \A q \in Req \ {r} : Remaining(q)' = Remaining(q)
      BY <1>4, <1>6 DEF Remaining
    <2>2. Remaining(r)' = sess[s].size - req[r].base
      BY <1>4, <1>6 DEF Remaining
    <2> QED
      BY <1>1, <1>2, <1>4, <1>5, <1>6, <2>1, <2>2 DEF Disk, LockInv, Critical, Holding
  <1>13. WriterInv'
    <2>1. ASSUME NEW q \in Req \ {r}, req[q].pc \in Critical, Undisturbed(req[q].s)
          PROVE  data'[sess[req[q].s].ino].len = req[q].base + req[q].got
      BY <1>7, <1>10, <1>11, <2>1 DEF Disk, WriterInv
    <2> QED
      BY <1>1, <1>4, <1>6, <1>8, <1>9, <1>11, <2>1 DEF WriterInv
  <1>14. FinishedInv'
    BY <1>4 DEF Disk, FinishedInv
  <1>15. UploadIsPrefix'
    <2>1. ASSUME NEW u \in Session \ {s}, sess[u].ino # Absent, Undisturbed(u)
          PROVE  data'[sess[u].ino] = data[sess[u].ino]
      BY <1>7, <1>10, <2>1 DEF Structure, TypeOK, SessionObject
    <2> QED
      BY <1>1, <1>4, <1>5, <1>8, <1>9, <2>1 DEF Disk, UploadIsPrefix
  <1>16. CompleteIsWhole'
    <2>1. ASSUME NEW u \in complete, Undisturbed(u)
          PROVE  data'[sess[u].ino] = data[sess[u].ino]
      <3>1. u \in Session \ {s} /\ sess[u].ino \in Inode
        BY <1>1 DEF Disk, FinishedInv, Structure, TypeOK
      <3> QED
        BY <1>7, <1>10, <2>1, <3>1
    <2> QED
      BY <1>4, <1>8, <2>1 DEF Disk, CompleteIsWhole, Structure, TypeOK
  <1> QED  BY <1>12, <1>13, <1>14, <1>15, <1>16 DEF Disk

\* Releasing the lock and answering takes the request out of the critical ones.
LEMMA DiskAnswer ==
    ASSUME Structure, Disk, NEW r \in Req, req[r].pc \in Holding,
           Answer(r), Unlock(req[r].s),
           data' = data, complete' = complete, registered' \subseteq registered,
           overwritten' = overwritten,
           \A s \in Session : /\ sess'[s].ino = sess[s].ino
                              /\ sess'[s].size = sess[s].size
                              /\ sess'[s].open => sess[s].open
    PROVE  Disk'
  <1>1. ASSUME NEW q \in Req, req'[q].pc \in Holding
        PROVE  req'[q] = req[q] /\ mutex'[req[q].s] = mutex[req[q].s]
    <2>1. q # r /\ req'[q] = req[q]
      BY <1>1 DEF Structure, TypeOK, Idle, Critical, Holding
    <2>2. req[q].s # req[r].s
      BY <1>1, <2>1 DEF Disk, LockInv
    <2> QED
      BY <1>1, <2>1, <2>2 DEF Structure, TypeOK, RequestInv, Critical, Holding, Opening
  <1> QED
    BY <1>1, DiskFrame

\* A request that fails keeps the lock until its body is drained.
LEMMA DiskPatchFail ==
    ASSUME Structure, Disk, NEW r \in Req, PatchFail(r)
    PROVE  Disk'
  <1>1. /\ req[r].pc = "copy" /\ req' = [req EXCEPT ![r].pc = "drain"]
        /\ UNCHANGED <<dir, data, used, sess, registered, mutex, complete, moving>>
    BY DEF PatchFail
  <1>2. /\ req'[r].pc = "drain" /\ req'[r].s = req[r].s
        /\ \A q \in Req \ {r} : req'[q] = req[q]
    BY <1>1 DEF Structure, TypeOK, Request
  <1>3. mutex[req[r].s] = r
    BY <1>1 DEF Disk, LockInv, Critical, Holding
  <1>4. LockInv'
    BY <1>1, <1>2, <1>3 DEF Disk, LockInv, Critical, Holding, Remaining
  <1>5. WriterInv'
    BY <1>1, <1>2 DEF Disk, WriterInv, Critical, Undisturbed, AloneOnInode
  <1> QED
    BY <1>1, <1>4, <1>5 DEF Disk, FinishedInv, UploadIsPrefix, CompleteIsWhole, Undisturbed, AloneOnInode

\* A body that ends early leaves a shorter prefix.
LEMMA DiskPatchEnd ==
    ASSUME Structure, Disk, NEW r \in Req, PatchEnd(r)
    PROVE  Disk'
  <1>1. req[r].pc = "copy" /\ UNCHANGED <<dir, data, used, sess, registered, complete, moving>>
    BY DEF PatchEnd
  <1>2. CASE Answer(r) /\ Unlock(req[r].s)
    BY <1>1, <1>2, DiskAnswer DEF Critical, Holding
  <1>3. CASE req' = [req EXCEPT ![r].pc = "commit"] /\ req[r].got = Remaining(r) /\ UNCHANGED mutex
    <2>1. /\ req'[r].pc = "commit" /\ req'[r].s = req[r].s /\ req'[r].off = req[r].off
          /\ req'[r].base = req[r].base /\ req'[r].got = req[r].got
          /\ \A q \in Req \ {r} : req'[q] = req[q]
      BY <1>3 DEF Structure, TypeOK, Request
    <2>2. \A q \in Req : Remaining(q)' = Remaining(q)
      BY <1>1, <2>1 DEF Remaining
    <2>3. LockInv'
      BY <1>1, <1>3, <2>1, <2>2 DEF Disk, LockInv, Critical, Holding
    <2>4. WriterInv'
      BY <1>1, <1>3, <2>1 DEF Disk, WriterInv, Critical, Undisturbed, AloneOnInode
    <2> QED
      BY <1>1, <2>3, <2>4 DEF Disk, FinishedInv, UploadIsPrefix, CompleteIsWhole, Undisturbed, AloneOnInode
  <1> QED  BY <1>2, <1>3 DEF PatchEnd

\* Commit closes the file only when the last byte is there.
LEMMA DiskPatchCommit ==
    ASSUME Structure, Disk, NEW r \in Req, PatchCommit(r)
    PROVE  Disk'
  <1>1. /\ req[r].pc = "commit" /\ UNCHANGED <<dir, data, used, registered, complete, moving>>
        /\ sess' = [sess EXCEPT ![req[r].s].open = FALSE]
        /\ req[r].s \in Session
    BY DEF PatchCommit, Structure, RequestInv
  <1>2. /\ ~sess'[req[r].s].open
        /\ \A s \in Session : /\ sess'[s].ino = sess[s].ino
                              /\ sess'[s].size = sess[s].size
                              /\ sess'[s].open => sess[s].open
    BY <1>1 DEF Structure, TypeOK, SessionObject
  <1>3. CASE Answer(r) /\ Unlock(req[r].s)
    BY <1>1, <1>2, <1>3, DiskAnswer DEF Critical, Holding
  <1>4. CASE req' = [req EXCEPT ![r].pc = "drop"] /\ UNCHANGED mutex
    <2>1. /\ req'[r].pc = "drop" /\ req'[r].s = req[r].s /\ req'[r].off = req[r].off
          /\ req'[r].base = req[r].base /\ req'[r].got = req[r].got
          /\ \A q \in Req \ {r} : req'[q] = req[q]
      BY <1>4 DEF Structure, TypeOK, Request
    <2>2. ASSUME NEW q \in Req, req[q].pc \in Critical
          PROVE  req[q].s \in Session /\ Remaining(q)' = Remaining(q)
      BY <1>1, <1>2, <2>1, <2>2 DEF Remaining, Structure, RequestInv, Critical
    <2>3. LockInv'
      BY <1>1, <1>2, <1>4, <2>1, <2>2 DEF Disk, LockInv, Critical, Holding
    <2>4. \A u \in Session : Undisturbed(u)' = Undisturbed(u)
      BY <1>1, <1>2 DEF Undisturbed, AloneOnInode
    <2>5. WriterInv'
      BY <1>1, <1>2, <1>4, <2>1, <2>2, <2>4 DEF Disk, WriterInv, Critical
    <2>6. FinishedInv' /\ UploadIsPrefix' /\ CompleteIsWhole'
      BY <1>1, <1>2, <2>4 DEF Disk, FinishedInv, UploadIsPrefix, CompleteIsWhole, Structure, TypeOK
    <2> QED
      BY <2>3, <2>5, <2>6 DEF Disk
  <1> QED  BY <1>3, <1>4 DEF PatchCommit

\* The request that is about to answer has written everything up to the size.
LEMMA DiskPatchDrop ==
    ASSUME Structure, Disk, NEW r \in Req, PatchDrop(r)
    PROVE  Disk'
  <1> DEFINE s == req[r].s
  <1>1. /\ req[r].pc = "drop" /\ UNCHANGED <<dir, data, used, sess, moving>>
        /\ registered' = registered \ {s} /\ complete' = complete \cup {s}
        /\ Unlock(s) /\ Answer(r)
    BY DEF PatchDrop
  <1>2. s \in Session /\ sess[s].ino \in Inode /\ sess[s].ino # Absent
    BY <1>1 DEF Structure, RequestInv, Opening
  <1>3. ~sess[s].open /\ req[r].got = Remaining(r) /\ req[r].base < sess[s].size
    BY <1>1 DEF Disk, LockInv, Critical, Holding
  <1>4. \A u \in Session : Undisturbed(u)' = Undisturbed(u)
    BY <1>1 DEF Undisturbed, AloneOnInode
  <1>5. ASSUME Undisturbed(s)
        PROVE  data[sess[s].ino].len = sess[s].size /\ data[sess[s].ino].by = s
    <2>1. req[r].base \in Nat /\ sess[s].size \in Nat
      BY <1>2 DEF Structure, TypeOK, Request, SessionObject
    <2>2. data[sess[s].ino].len = req[r].base + req[r].got
      BY <1>1, <1>5 DEF Disk, WriterInv, Critical
    <2>3. data[sess[s].ino].len = sess[s].size /\ sess[s].size # 0
      BY <1>3, <2>1, <2>2 DEF Remaining
    <2> QED
      BY <1>2, <1>5, <2>3 DEF Disk, UploadIsPrefix
  <1>6. ASSUME NEW q \in Req, req'[q].pc \in Critical
        PROVE  /\ req'[q] = req[q] /\ req[q].pc \in Critical
               /\ mutex'[req[q].s] = mutex[req[q].s] /\ Remaining(q)' = Remaining(q)
    <2>1. q # r /\ req'[q] = req[q]
      BY <1>1, <1>6 DEF Structure, TypeOK, Idle, Critical
    <2>2. req[q].s # s
      BY <1>1, <1>6, <2>1 DEF Disk, LockInv, Critical, Holding
    <2> QED
      BY <1>1, <1>6, <2>1, <2>2 DEF Structure, TypeOK, RequestInv, Critical, Opening, Remaining
  <1>7. LockInv'
    <2>1. ASSUME NEW q \in Req, req'[q].pc \in Holding
          PROVE  mutex'[req'[q].s] = q
      <3>1. q # r /\ req'[q] = req[q]
        BY <1>1, <2>1 DEF Structure, TypeOK, Idle, Critical, Holding
      <3>2. mutex[req[q].s] = q /\ mutex[s] = r
        BY <1>1, <2>1, <3>1 DEF Disk, LockInv, Critical, Holding
      <3> QED
        BY <1>1, <1>2, <2>1, <3>1, <3>2 DEF Structure, TypeOK, RequestInv, Critical, Holding, Opening
    <2> QED
      BY <1>1, <1>6, <2>1 DEF Disk, LockInv, Critical
  <1>8. WriterInv'
    BY <1>1, <1>4, <1>6 DEF Disk, WriterInv, Undisturbed, AloneOnInode
  <1>9. FinishedInv'
    BY <1>1, <1>2, <1>3 DEF Disk, FinishedInv
  <1>10. UploadIsPrefix'
    BY <1>1, <1>4 DEF Disk, UploadIsPrefix
  <1>11. CompleteIsWhole'
    <2>1. ASSUME NEW u \in complete \cup {s}, Undisturbed(u)
          PROVE  data[sess[u].ino].len = sess[u].size /\ data[sess[u].ino].by = u
      BY <1>5, <2>1 DEF Disk, CompleteIsWhole
    <2>2. complete \cup {s} \subseteq Session
      BY <1>2 DEF Structure, TypeOK
    <2> QED
      BY <1>1, <1>4, <2>1, <2>2 DEF CompleteIsWhole
  <1> QED  BY <1>7, <1>8, <1>9, <1>10, <1>11 DEF Disk

\* Another handler on the tree leaves the files of the undisturbed uploads alone.
LEMMA DiskTree ==
    ASSUME Structure, Disk, UNCHANGED <<sess, registered, mutex, req, complete>>,
           overwritten \subseteq overwritten',
           \A s \in Session : sess[s].ino # Absent /\ s \notin overwritten' =>
                data'[sess[s].ino] = data[sess[s].ino]
    PROVE  Disk'
  <1>1. \A s \in Session : Undisturbed(s)' => Undisturbed(s) /\ s \notin overwritten'
    BY DEF Undisturbed, AloneOnInode
  <1>2. \A q \in Req : req[q].pc \in Critical => req[q].s \in Session /\ sess[req[q].s].ino # Absent
    BY DEF Structure, RequestInv, Critical, Opening
  <1>3. LockInv' /\ FinishedInv'
    BY DEF Disk, LockInv, FinishedInv, Remaining
  <1>4. WriterInv'
    BY <1>1, <1>2 DEF Disk, WriterInv
  <1>5. UploadIsPrefix'
    BY <1>1 DEF Disk, UploadIsPrefix
  <1>6. CompleteIsWhole'
    BY <1>1 DEF Disk, CompleteIsWhole, FinishedInv, Structure, TypeOK
  <1> QED  BY <1>3, <1>4, <1>5, <1>6 DEF Disk

\* A save binds an inode no session has.
LEMMA DiskSaveFile ==
    ASSUME Structure, Disk, NEW p \in Path, NEW f \in Saved, SaveFile(p, f)
    PROVE  Disk'
  <1>1. /\ data' = [data EXCEPT ![f] = [len |-> 1, by |-> f]]
        /\ UNCHANGED <<sess, registered, mutex, req, complete, overwritten>>
    BY DEF SaveFile
  <1>2. \A u \in Session : sess[u].ino # f
    BY DEF SaveFile, Structure, SessionInv
  <1>3. \A u \in Session : sess[u].ino # Absent => data'[sess[u].ino] = data[sess[u].ino]
    BY <1>1, <1>2 DEF Structure, TypeOK, SessionObject
  <1> QED  BY <1>1, <1>3, DiskTree

\* A move writes to no file but the one it has opened, and disturbs the uploads that have it.
LEMMA DiskMove ==
    ASSUME Structure, Disk, NEW m \in Mover, MoveNext(m)
    PROVE  Disk'
  <1>1. ASSUME NEW i \in Inode, NEW x, data' = [data EXCEPT ![i] = x],
               overwritten' = overwritten \cup Writers(i),
               UNCHANGED <<sess, registered, mutex, req, complete>>
        PROVE  Disk'
    <2>1. \A s \in Session : sess[s].ino # Absent /\ s \notin overwritten' =>
                data'[sess[s].ino] = data[sess[s].ino]
      BY <1>1 DEF Writers, Structure, TypeOK, SessionObject
    <2> QED  BY <1>1, <2>1, DiskTree
  <1>2. ASSUME NEW i \in Inode, MoveOpen(m, i) PROVE Disk'
    BY <1>1, <1>2 DEF MoveOpen
  <1>3. CASE MoveCopy(m)
    <2>1. move[m].out \in Inode
      <3>1. \A v \in Move : v.at = "copy" => v.out \in Inode
        BY DEF Move, Resting
      <3> QED  BY <1>3, <3>1 DEF MoveCopy, Structure, TypeOK
    <2>2. \E x : data' = [data EXCEPT ![move[m].out] = x]
      BY <1>3 DEF MoveCopy, WriteAt
    <2> QED  BY <1>1, <1>3, <2>1, <2>2 DEF MoveCopy
  <1>4. ASSUME UNCHANGED <<data, sess, registered, mutex, req, complete, overwritten>> PROVE Disk'
    BY <1>4, DiskTree
  <1> QED  BY <1>2, <1>3, <1>4 DEF MoveNext, MoveCheck, MoveRename, MoveDrop, MoveFail

\* A request that is still creating its session writes nothing.
LEMMA DiskCreateStat ==
    ASSUME Structure, Disk, NEW r \in Req, NEW s \in Session, NEW p \in Path, NEW n \in Sizes,
           NEW override \in BOOLEAN, CreateStat(r, s, p, n, override)
    PROVE  Disk'
  <1>1. /\ UNCHANGED <<data, registered, mutex, complete, moving>>
        /\ sess' = [sess EXCEPT ![s].path = p, ![s].size = n]
        /\ sess[s].ino = Absent
    BY DEF CreateStat, Structure, SessionInv
  <1>2. \A u \in Session : /\ sess'[u].ino = sess[u].ino
                           /\ sess[u].ino # Absent => sess'[u].size = sess[u].size
                           /\ sess'[u].open => sess[u].open
    BY <1>1 DEF Structure, TypeOK, SessionObject
  <1>3. \A q \in Req : req'[q].pc \in Holding => req'[q] = req[q]
    BY DEF CreateStat, Structure, TypeOK, Critical, Holding, Idle
  <1> QED
    BY <1>1, <1>2, <1>3, DiskFrame

\* HEAD, DELETE and PATCH begin with registry.get and hold no session lock yet.
LEMMA DiskGet ==
    ASSUME Structure, Disk, NEW r \in Req, NEW s \in Session, NEW x, x.pc \notin Holding,
           Get(s), req' = [req EXCEPT ![r] = x],
           UNCHANGED <<data, registered, mutex, complete, moving>>
    PROVE  Disk'
  <1>1. \A u \in Session : /\ sess'[u].ino = sess[u].ino
                           /\ sess'[u].size = sess[u].size
                           /\ sess'[u].open = sess[u].open
    BY DEF Get, Structure, TypeOK, SessionObject
  <1>2. \A q \in Req : req'[q].pc \in Holding => req'[q] = req[q]
    BY DEF Structure, TypeOK
  <1> QED
    BY <1>1, <1>2, DiskFrame

\* Every step of the uploads keeps what is said about the disk.
LEMMA DiskNext == Structure /\ Disk /\ [Next]_vars => Disk'
  <1> SUFFICES ASSUME Structure, Disk, [Next]_vars
               PROVE  Disk'
    OBVIOUS
  <1>1. ASSUME NEW r \in Req, Call(r)
        PROVE  Disk'
    <2>2. ASSUME NEW s \in Session, HeadGet(r, s)
          PROVE  Disk'
      <3>1. [Idle EXCEPT !.pc = "head", !.s = s].pc \notin Holding
        BY DEF Idle, Critical, Holding
      <3> QED
        BY <2>2, <3>1, DiskGet DEF HeadGet
    <2>3. ASSUME NEW s \in Session, DeleteGet(r, s)
          PROVE  Disk'
      <3>1. [Idle EXCEPT !.pc = "unregister", !.s = s].pc \notin Holding
        BY DEF Idle, Critical, Holding
      <3> QED
        BY <2>3, <3>1, DiskGet DEF DeleteGet
    <2>4. ASSUME NEW s \in Session, NEW off \in UNION {0 .. n : n \in Sizes}, PatchGet(r, s, off)
          PROVE  Disk'
      <3>1. [Idle EXCEPT !.pc = "lock", !.s = s, !.off = off].pc \notin Holding
        BY DEF Idle, Critical, Holding
      <3> QED
        BY <2>4, <3>1, DiskGet DEF PatchGet
    <2> QED
      BY <1>1, <2>2, <2>3, <2>4, DiskCreateStat DEF Call
  <1>2. ASSUME NEW r \in Req, Continue(r)
        PROVE  Disk'
    <2>1. CASE CreateRemove(r)
      <3>1. \A q \in Req : req'[q].pc \in Holding => req'[q] = req[q]
        BY <2>1 DEF CreateRemove, Structure, TypeOK, Request, Critical, Holding
      <3> QED
        BY <2>1, <3>1, DiskFrame DEF CreateRemove
    <2>2. CASE HeadOffset(r)
      <3>1. \A q \in Req : req'[q].pc \in Holding => req'[q] = req[q]
        BY <2>2 DEF HeadOffset, Structure, TypeOK, Idle, Critical, Holding
      <3> QED
        BY <2>2, <3>1, DiskFrame DEF HeadOffset
    <2>3. CASE DeleteUnregister(r)
      <3>1. \A q \in Req : req'[q].pc \in Holding => req'[q] = req[q]
        BY <2>3 DEF DeleteUnregister, Structure, TypeOK, Request, Critical, Holding
      <3> QED
        BY <2>3, <3>1, DiskFrame DEF DeleteUnregister
    <2>4. CASE DeleteAbort(r)
      <3>1. \A q \in Req : req'[q].pc \in Holding => req'[q] = req[q]
        BY <2>4 DEF DeleteAbort, Structure, TypeOK, Idle, Critical, Holding
      <3>2. \A u \in Session : /\ sess'[u].ino = sess[u].ino
                               /\ sess'[u].size = sess[u].size
                               /\ sess'[u].open => sess[u].open
        BY <2>4 DEF DeleteAbort, Structure, TypeOK, SessionObject
      <3> QED
        BY <2>4, <3>1, <3>2, DiskFrame DEF DeleteAbort
    <2>5. CASE PatchRefuse(r)
      BY <2>5, DiskAnswer DEF PatchRefuse, Critical, Holding
    <2> QED
      BY <1>2, <2>1, <2>2, <2>3, <2>4, <2>5, DiskCreateOpen, DiskPatchLock, DiskPatchWrite,
         DiskPatchFail, DiskPatchEnd, DiskPatchCommit, DiskPatchDrop DEF Continue
  <1>3. ASSUME NEW s \in Session, Expire(s)
        PROVE  Disk'
    <2>1. \A u \in Session : /\ sess'[u].ino = sess[u].ino
                             /\ sess'[u].size = sess[u].size
                             /\ sess'[u].open = sess[u].open
      BY <1>3 DEF Expire, Structure, TypeOK, SessionObject
    <2> QED
      BY <1>3, <2>1, DiskFrame DEF Expire
  <1>4. CASE Collect
    <2>1. \A u \in Session : /\ sess'[u].ino = sess[u].ino
                             /\ sess'[u].size = sess[u].size
                             /\ sess'[u].open => sess[u].open
      BY <1>4 DEF Collect, Structure, TypeOK, SessionObject
    <2> QED
      BY <1>4, <2>1, DiskFrame DEF Collect
  <1>5. ASSUME NEW p \in Path, RemoveFile(p)
        PROVE  Disk'
    BY <1>5, DiskFrame DEF RemoveFile
  <1>6. ASSUME NEW m \in Mover, MoveNext(m)
        PROVE  Disk'
    BY <1>6, DiskMove
  <1>7. CASE Crash
    <2>1. \A q \in Req : req'[q].pc \notin Holding
      BY <1>7 DEF Crash, Idle, Critical, Holding
    <2>2. \A u \in Session : /\ sess'[u].ino = sess[u].ino
                             /\ sess'[u].size = sess[u].size
                             /\ ~sess'[u].open
      BY <1>7 DEF Crash, Structure, TypeOK, SessionObject
    <2> QED
      BY <1>7, <2>1, <2>2, DiskFrame DEF Crash
  <1>8. CASE UNCHANGED vars
    BY <1>8, DiskFrame DEF vars
  <1> QED
    BY <1>1, <1>2, <1>3, <1>4, <1>5, <1>6, <1>7, <1>8, DiskSaveFile DEF Next

-----------------------------------------------------------------------------
(* What is answered is at its path *)

\* A path is not taken, and what is open or answered stays what it was.
LEMMA BoundFrame ==
    ASSUME BoundInv,
           \A s \in Session : sess'[s].path = sess[s].path /\ sess'[s].ino = sess[s].ino,
           \A s \in Session : AloneOnPath(s) /\ Held(s)' =>
                Held(s) /\ dir'[sess[s].path] = dir[sess[s].path]
    PROVE  BoundInv'
  <1>1. \A s \in Session : AloneOnPath(s)' => AloneOnPath(s)
    BY DEF AloneOnPath
  <1> QED  BY <1>1 DEF BoundInv

\* What is held in the end was held before, if nothing is opened, comes to answer or is
\* registered, and a time that was up starts anew for what is registered only.
LEMMA HeldFrame ==
    ASSUME registered' \subseteq registered, NEW s \in Session,
           sess'[s].open => sess[s].open,
           sess[s].idle => sess'[s].idle \/ s \in registered,
           Dropping(s)' => Dropping(s),
           Held(s)'
    PROVE  Held(s)
  BY DEF Held

\* A request that does not come to answer leaves the others where they are.
LEMMA DroppingFrame ==
    ASSUME TypeOK, NEW r \in Req, NEW x, x.pc # "drop", req' = [req EXCEPT ![r] = x],
           NEW s \in Session, Dropping(s)'
    PROVE  Dropping(s)
  <1>1. PICK q \in Req : req'[q].pc = "drop" /\ req'[q].s = s
    BY DEF Dropping
  <1>2. q # r /\ req'[q] = req[q]
    BY <1>1 DEF TypeOK
  <1> QED  BY <1>1, <1>2 DEF Dropping

\* A path is given when the id is drawn.
LEMMA UndrawnNext ==
    ASSUME Structure, UndrawnInv, [Next]_vars
    PROVE  UndrawnInv'
  <1>t. TypeOK BY DEF Structure
  <1>1. ASSUME used \subseteq used', \A s \in Session : sess'[s].path = sess[s].path
        PROVE  UndrawnInv'
    BY <1>1 DEF UndrawnInv
  <1>2. ASSUME NEW r \in Req, NEW s \in Session, NEW p \in Path, NEW n \in Sizes,
               NEW override \in BOOLEAN, CreateStat(r, s, p, n, override)
        PROVE  UndrawnInv'
    <2>1. s \notin used /\ used' = used \cup {s} BY <1>2 DEF CreateStat
    <2>2. \A u \in Session : u # s => sess'[u].path = sess[u].path
      BY <1>2, <1>t DEF CreateStat, TypeOK, SessionObject
    <2> QED  BY <2>1, <2>2 DEF UndrawnInv
  <1>3. ASSUME NEW s \in Session, Get(s), UNCHANGED used
        PROVE  UndrawnInv'
    BY <1>1, <1>3, <1>t DEF Get, TypeOK, SessionObject
  <1>4. ASSUME NEW r \in Req, Call(r) PROVE UndrawnInv'
    BY <1>2, <1>3, <1>4 DEF Call, HeadGet, DeleteGet, PatchGet
  <1>5. ASSUME NEW r \in Req, Continue(r)
        PROVE  UndrawnInv'
    <2>1. CASE CreateOpen(r)
      <3>1. /\ used' = used
            /\ \E i : sess' = [sess EXCEPT ![req[r].s].ino = i, ![req[r].s].open = TRUE,
                                           ![req[r].s].idle = FALSE]
        BY <2>1 DEF CreateOpen
      <3> QED  BY <1>1, <1>t, <3>1 DEF TypeOK, SessionObject
    <2>2. CASE DeleteAbort(r) BY <1>1, <1>t, <2>2 DEF DeleteAbort, TypeOK, SessionObject
    <2>3. CASE PatchCommit(r) BY <1>1, <1>t, <2>3 DEF PatchCommit, TypeOK, SessionObject
    <2>4. CASE UNCHANGED <<used, sess>> BY <1>1, <2>4
    <2> QED  BY <1>5, <2>1, <2>2, <2>3, <2>4 DEF Continue, CreateRemove, HeadOffset,
          DeleteUnregister, PatchLock, PatchWrite, PatchFail, PatchRefuse, PatchEnd, PatchDrop
  <1>6. ASSUME NEW s \in Session, Expire(s) PROVE UndrawnInv'
    BY <1>1, <1>6, <1>t DEF Expire, TypeOK, SessionObject
  <1>7. CASE Collect BY <1>1, <1>7, <1>t DEF Collect, TypeOK, SessionObject
  <1>8. CASE Crash BY <1>1, <1>8, <1>t DEF Crash, TypeOK, SessionObject
  <1>9. ASSUME NEW m \in Mover, MoveNext(m) PROVE UndrawnInv'
    BY <1>1, <1>9 DEF MoveNext, MoveCheck, MoveRename, MoveOpen, MoveCopy, MoveDrop, MoveFail
  <1> QED  BY <1>1, <1>4, <1>5, <1>6, <1>7, <1>8, <1>9 DEF Next, SaveFile, RemoveFile, vars

\* Whoever is open or answers has a path, and its file.
LEMMA BoundHas ==
    ASSUME Structure, NEW s \in Session, Held(s)
    PROVE  sess[s].ino \in Inode /\ sess[s].path \in Path /\ s \in used
  <1>1. sess[s].ino # Absent
    BY DEF Structure, SessionInv, RequestInv, Held, Dropping, Opening
  <1> QED  BY <1>1 DEF Structure, SessionInv, TypeOK, SessionObject

LEMMA BoundCreateStat ==
    ASSUME Structure, UndrawnInv, BoundInv, NEW r \in Req, NEW s \in Session, NEW p \in Path,
           NEW n \in Sizes, NEW override \in BOOLEAN, CreateStat(r, s, p, n, override)
    PROVE  BoundInv'
  <1>t. TypeOK BY DEF Structure
  <1>1. s \notin used /\ sess[s].path = None /\ dir' = dir /\ registered' = registered
    BY DEF CreateStat, UndrawnInv
  <1>2. \A u \in Session : /\ sess'[u].open = sess[u].open /\ sess'[u].ino = sess[u].ino
                           /\ sess'[u].idle = sess[u].idle
                           /\ u # s => sess'[u].path = sess[u].path
    BY <1>t DEF CreateStat, TypeOK, SessionObject
  <1>3. ASSUME NEW u \in Session, Dropping(u)' PROVE Dropping(u)
    <2>1. PICK x : x.pc # "drop" /\ req' = [req EXCEPT ![r] = x]
      BY DEF CreateStat, Idle
    <2> QED  BY <1>t, <1>3, <2>1, DroppingFrame
  <1> SUFFICES ASSUME NEW u \in Session, AloneOnPath(u)', Held(u)'
               PROVE  dir'[sess'[u].path] = sess'[u].ino
    BY DEF BoundInv
  <1>4. Held(u) BY <1>1, <1>2, <1>3 DEF Held
  <1>5. u # s /\ sess[u].path \in Path BY <1>1, <1>4, BoundHas
  <1>6. AloneOnPath(u) BY <1>1, <1>2, <1>5 DEF AloneOnPath
  <1> QED  BY <1>1, <1>2, <1>4, <1>5, <1>6 DEF BoundInv

LEMMA BoundCreateOpen ==
    ASSUME Structure, BoundInv, NEW r \in Req, CreateOpen(r)
    PROVE  BoundInv'
  <1> DEFINE s == req[r].s
             p == sess[s].path
             i == IF dir[p] = Absent THEN s ELSE dir[p]
  <1>t. TypeOK BY DEF Structure
  <1>1. s \in Session /\ p \in Path
    BY DEF Structure, TypeOK, RequestInv, Opening, CreateOpen
  <1>2. /\ dir' = [dir EXCEPT ![p] = i]
        /\ sess' = [sess EXCEPT ![s].ino = i, ![s].open = TRUE, ![s].idle = FALSE]
        /\ req' = [req EXCEPT ![r] = Idle]
        /\ registered' = registered \cup {s}
    BY DEF CreateOpen
  <1> HIDE DEF i, s
  <1>3. /\ \A u \in Session \ {s} : sess'[u] = sess[u]
        /\ sess'[s].ino = i /\ sess'[s].path = p
    BY <1>1, <1>2, <1>t DEF TypeOK, SessionObject
  <1>4. dir'[p] = i /\ \A q \in Path \ {p} : dir'[q] = dir[q]
    BY <1>1, <1>2, <1>t DEF TypeOK
  <1> HIDE DEF p
  <1>5. \A u \in Session : sess'[u].path = sess[u].path BY <1>3 DEF p
  <1>6. ASSUME NEW u \in Session, Dropping(u)' PROVE Dropping(u)
    <2>1. Idle.pc # "drop" BY DEF Idle
    <2> QED  BY <1>2, <1>t, <1>6, <2>1, DroppingFrame
  <1> SUFFICES ASSUME NEW u \in Session, AloneOnPath(u)', Held(u)'
               PROVE  dir'[sess'[u].path] = sess'[u].ino
    BY DEF BoundInv
  <1>7. CASE u = s BY <1>3, <1>4, <1>7
  <1>8. CASE u # s
    <2>1. Held(u) BY <1>2, <1>3, <1>6, <1>8 DEF Held
    <2>2. AloneOnPath(u) BY <1>5 DEF AloneOnPath
    <2>3. sess[u].path # p BY <1>1, <1>8, <2>2 DEF AloneOnPath, p
    <2>4. sess[u].path \in Path BY <2>1, BoundHas
    <2> QED  BY <1>3, <1>4, <1>8, <2>1, <2>2, <2>3, <2>4 DEF BoundInv
  <1> QED  BY <1>7, <1>8

\* DELETE: Abort waits for whoever writes, and takes the path of this session only.
LEMMA BoundDelete ==
    ASSUME Structure, LockInv, BoundInv, NEW r \in Req, DeleteAbort(r)
    PROVE  BoundInv'
  <1> DEFINE s == req[r].s
  <1>t. TypeOK BY DEF Structure
  <1>1. s \in Session /\ mutex[s] = None /\ sess[s].path \in Path
    BY DEF DeleteAbort, Structure, RequestInv
  <1>2. /\ sess' = [sess EXCEPT ![s].open = FALSE] /\ req' = [req EXCEPT ![r] = Idle]
        /\ dir' = [dir EXCEPT ![sess[s].path] = Absent] /\ registered' = registered
    BY DEF DeleteAbort, Unlink
  <1> HIDE DEF s
  <1>3. \A u \in Session : /\ sess'[u].path = sess[u].path /\ sess'[u].ino = sess[u].ino
                           /\ sess'[u].idle = sess[u].idle
                           /\ sess'[u].open => u # s /\ sess[u].open
    BY <1>1, <1>2, <1>t DEF TypeOK, SessionObject
  <1>4. ASSUME NEW u \in Session, Dropping(u)' PROVE Dropping(u)
    <2>1. Idle.pc # "drop" BY DEF Idle
    <2> QED  BY <1>2, <1>t, <1>4, <2>1, DroppingFrame
  <1>5. ~Dropping(s)
    <2>1. \A q \in Req : q # None BY DistinctAssumption
    <2> QED  BY <1>1, <2>1 DEF LockInv, Dropping, Critical, Holding
  <1>6. ASSUME NEW u \in Session, AloneOnPath(u), u # s, sess[u].path \in Path
        PROVE  dir'[sess[u].path] = dir[sess[u].path]
    <2>1. sess[u].path # sess[s].path BY <1>1, <1>6 DEF AloneOnPath
    <2> QED  BY <1>1, <1>2, <1>6, <1>t, <2>1 DEF TypeOK
  <1>7. ASSUME NEW u \in Session, AloneOnPath(u), Held(u)'
        PROVE  Held(u) /\ dir'[sess[u].path] = dir[sess[u].path]
    <2>1. Held(u) BY <1>2, <1>3, <1>4, <1>7 DEF Held
    <2>2. u # s BY <1>3, <1>4, <1>5, <1>7 DEF Held
    <2>3. sess[u].path \in Path BY <2>1, BoundHas
    <2> QED  BY <1>6, <1>7, <2>1, <2>2, <2>3
  <1> QED  BY <1>3, <1>7, BoundFrame

\* The collector takes the paths of the sessions it closes.
LEMMA BoundCollect ==
    ASSUME Structure, BoundInv, Collect
    PROVE  BoundInv'
  <1>t. TypeOK BY DEF Structure
  <1>1. UNCHANGED req /\ registered' = registered \ Abandoned BY DEF Collect
  <1>2. \A u \in Session : /\ sess'[u].path = sess[u].path /\ sess'[u].ino = sess[u].ino
                           /\ sess'[u].idle = sess[u].idle
                           /\ sess'[u].open => u \notin Abandoned /\ sess[u].open
    BY <1>t DEF Collect, TypeOK, SessionObject
  <1>3. \A u \in Abandoned : u \in Session /\ sess[u].idle BY <1>t DEF Abandoned, TypeOK
  <1>4. ASSUME NEW u \in Session, AloneOnPath(u), Held(u)'
        PROVE  Held(u) /\ dir'[sess[u].path] = dir[sess[u].path]
    <2>1. Held(u) /\ u \notin Abandoned
      BY <1>1, <1>2, <1>3, <1>4 DEF Held, Dropping
    <2>2. sess[u].path \in Path BY <2>1, BoundHas
    <2>3. \A s \in Abandoned : sess[s].path # sess[u].path
      BY <1>3, <1>4, <2>1 DEF AloneOnPath
    <2> QED  BY <2>1, <2>2, <2>3 DEF Collect
  <1> QED  BY <1>2, <1>4, BoundFrame

\* Commit closes what is answered for next, or what is not answered for at all.
LEMMA BoundCommit ==
    ASSUME Structure, BoundInv, NEW r \in Req, PatchCommit(r)
    PROVE  BoundInv'
  <1> DEFINE s == req[r].s
  <1>t. TypeOK BY DEF Structure
  <1>1. /\ dir' = dir /\ sess' = [sess EXCEPT ![s].open = FALSE] /\ registered' = registered
        /\ \/ req' = [req EXCEPT ![r].pc = "drop"] /\ sess[s].open
           \/ req' = [req EXCEPT ![r] = Idle]
    BY DEF PatchCommit
  <1>2. \A u \in Session : /\ sess'[u].path = sess[u].path /\ sess'[u].ino = sess[u].ino
                           /\ sess'[u].idle = sess[u].idle
                           /\ sess'[u].open => sess[u].open
    BY <1>1, <1>t DEF TypeOK, SessionObject
  <1>3. ASSUME NEW u \in Session, Dropping(u)' PROVE Dropping(u) \/ sess[u].open
    <2>1. PICK q \in Req : req'[q].pc = "drop" /\ req'[q].s = u BY <1>3 DEF Dropping
    <2>2. CASE q # r
      <3>1. req'[q] = req[q] BY <1>1, <1>t, <2>2 DEF TypeOK
      <3> QED  BY <2>1, <3>1 DEF Dropping
    <2>3. CASE q = r
      <3>1. req'[r].s = req[r].s /\ sess[s].open
        BY <1>1, <1>t, <2>1, <2>3 DEF TypeOK, Request, Idle
      <3> QED  BY <2>1, <2>3, <3>1
    <2> QED  BY <2>2, <2>3
  <1>4. \A u \in Session : Held(u)' => Held(u) BY <1>1, <1>2, <1>3 DEF Held
  <1> QED  BY <1>1, <1>2, <1>4, BoundFrame

\* With nobody else on the tree what is open, or answered, stays bound to its path.
LEMMA BoundNext ==
    ASSUME Enabled \cap {"save", "remove", "move"} = {},
           Structure, LockInv, UndrawnInv, BoundInv, [Next]_vars
    PROVE  BoundInv'
  <1>t. TypeOK BY DEF Structure
  <1>1. ASSUME UNCHANGED dir, registered' \subseteq registered,
               \A u \in Session : /\ sess'[u].path = sess[u].path /\ sess'[u].ino = sess[u].ino
                                  /\ sess'[u].open => sess[u].open
                                  /\ sess[u].idle => sess'[u].idle \/ u \in registered,
               \A u \in Session : Dropping(u)' => Dropping(u)
        PROVE  BoundInv'
    BY <1>1, BoundFrame, HeldFrame
  <1>2. ASSUME UNCHANGED <<dir, sess>>, registered' \subseteq registered, NEW r \in Req, NEW x, x.pc # "drop",
               req' = [req EXCEPT ![r] = x]
        PROVE  BoundInv'
    BY <1>1, <1>2, <1>t, DroppingFrame
  <1>3. ASSUME UNCHANGED <<dir, registered>>, NEW s \in Session, Get(s), NEW r \in Req, NEW x, x.pc # "drop",
               req' = [req EXCEPT ![r] = x]
        PROVE  BoundInv'
    <2>1. \A u \in Session : /\ sess'[u].path = sess[u].path /\ sess'[u].ino = sess[u].ino
                             /\ sess'[u].open => sess[u].open
                             /\ sess[u].idle => sess'[u].idle \/ u \in registered
      BY <1>3, <1>t DEF Get, TypeOK, SessionObject
    <2> QED  BY <1>1, <1>3, <1>t, <2>1, DroppingFrame
  <1>4. ASSUME NEW r \in Req, Call(r) PROVE BoundInv'
    <2>1. ASSUME NEW s \in Session, HeadGet(r, s) PROVE BoundInv'
      BY <1>3, <2>1 DEF HeadGet, Idle
    <2>2. ASSUME NEW s \in Session, DeleteGet(r, s) PROVE BoundInv'
      BY <1>3, <2>2 DEF DeleteGet, Idle
    <2>3. ASSUME NEW s \in Session, NEW off \in UNION {0 .. n : n \in Sizes}, PatchGet(r, s, off)
          PROVE  BoundInv'
      BY <1>3, <2>3 DEF PatchGet, Idle
    <2> QED  BY <1>4, <2>1, <2>2, <2>3, BoundCreateStat DEF Call
  <1>5. ASSUME NEW r \in Req, Continue(r) PROVE BoundInv'
    <2>1. CASE CreateRemove(r)
      <3> DEFINE s == req[r].s
      <3>1. s \in Session /\ sess[s].ino = Absent /\ sess[s].path \in Path
        BY <2>1 DEF CreateRemove, Structure, RequestInv, Opening
      <3>2. /\ dir' = [dir EXCEPT ![sess[s].path] = Absent] /\ UNCHANGED sess
            /\ req' = [req EXCEPT ![r].pc = "open"] /\ registered' = registered
        BY <2>1 DEF CreateRemove, Unlink
      <3> HIDE DEF s
      <3>3. ASSUME NEW u \in Session, Dropping(u)' PROVE Dropping(u)
        BY <1>t, <3>2, <3>3 DEF Dropping, TypeOK, Request
      <3>4. ASSUME NEW u \in Session, AloneOnPath(u), Held(u)'
            PROVE  /\ Held(u)
                   /\ dir'[sess[u].path] = dir[sess[u].path]
        <4>1. Held(u) BY <3>2, <3>3, <3>4 DEF Held
        <4>2. sess[u].path \in Path /\ u # s BY <3>1, <4>1, BoundHas
        <4>3. sess[u].path # sess[s].path BY <3>1, <3>4, <4>2 DEF AloneOnPath
        <4> QED  BY <1>t, <3>2, <4>1, <4>2, <4>3 DEF TypeOK
      <3> QED  BY <3>2, <3>4, BoundFrame
    <2>2. CASE HeadOffset(r) \/ PatchRefuse(r) \/ PatchDrop(r)
      BY <1>2, <2>2 DEF HeadOffset, PatchRefuse, PatchDrop, Idle
    <2>3. CASE DeleteUnregister(r) \/ PatchLock(r) \/ PatchWrite(r) \/ PatchFail(r) \/ PatchEnd(r)
      <3>1. UNCHANGED <<dir, sess>> /\ registered' \subseteq registered
        BY <2>3 DEF DeleteUnregister, PatchLock, PatchWrite, PatchFail, PatchEnd
      <3>2. \A q \in Req : req'[q].pc = "drop" => req'[q] = req[q]
        <4>1. CASE DeleteUnregister(r) BY <1>t, <4>1 DEF DeleteUnregister, TypeOK, Request
        <4>2. CASE PatchLock(r) BY <1>t, <4>2 DEF PatchLock, TypeOK, Request, Idle
        <4>3. CASE PatchWrite(r)
          <5>1. PICK k : req' = [req EXCEPT ![r].got = @ + k] BY <4>3 DEF PatchWrite
          <5>2. req[r].pc = "copy" BY <4>3 DEF PatchWrite
          <5> QED  BY <1>t, <5>1, <5>2 DEF TypeOK, Request
        <4>4. CASE PatchEnd(r) BY <1>t, <4>4 DEF PatchEnd, TypeOK, Request, Idle
        <4>5. CASE PatchFail(r) BY <1>t, <4>5 DEF PatchFail, TypeOK, Request
        <4> QED  BY <2>3, <4>1, <4>2, <4>3, <4>4, <4>5
      <3> QED  BY <1>1, <3>1, <3>2 DEF Dropping
    <2> QED  BY <1>5, <2>1, <2>2, <2>3, BoundCreateOpen, BoundDelete, BoundCommit DEF Continue
  <1>6. ASSUME NEW s \in Session, Expire(s) PROVE BoundInv'
    <2>1. \A u \in Session : /\ sess'[u].path = sess[u].path /\ sess'[u].ino = sess[u].ino
                             /\ sess'[u].open => sess[u].open
                             /\ sess[u].idle => sess'[u].idle \/ u \in registered
      BY <1>6, <1>t DEF Expire, TypeOK, SessionObject
    <2> QED  BY <1>1, <1>6, <2>1 DEF Expire, Dropping
  <1>7. CASE Crash
    <2>1. \A u \in Session : /\ sess'[u].path = sess[u].path /\ sess'[u].ino = sess[u].ino
                             /\ sess'[u].open => sess[u].open
                             /\ sess[u].idle => sess'[u].idle \/ u \in registered
      BY <1>7, <1>t DEF Crash, TypeOK, SessionObject
    <2>2. \A u \in Session : ~Dropping(u)' BY <1>7 DEF Crash, Dropping, Idle
    <2> QED  BY <1>1, <1>7, <2>1, <2>2 DEF Crash
  <1>8. CASE UNCHANGED vars BY <1>1, <1>8 DEF vars, Dropping
  <1> QED  BY <1>4, <1>5, <1>6, <1>7, <1>8, BoundCollect DEF Next, SaveFile, RemoveFile, MoveNext, MoveCheck,
      MoveRename, MoveOpen, MoveCopy, MoveDrop, MoveFail

-----------------------------------------------------------------------------
(* The theorems *)

\* The invariant holds throughout: requests are tied to sessions and sessions to
\* inodes (Structure), and the holder of a session's lock writes from the length
\* on disk to at most the declared one (Disk).
THEOREM Invariance == Spec => []Inv
  <1>1. Init => Inv
    BY StructureInit, DiskInit DEF Inv
  <1>2. Inv /\ [Next]_vars => Inv'
    BY StructureNext, DiskNext DEF Inv
  <1> QED
    BY <1>1, <1>2, PTL DEF Spec

\* Every variable keeps its type.
THEOREM TypeCorrect == Spec => []TypeOK
  <1>1. Inv => TypeOK
    BY DEF Inv, Structure
  <1> QED
    BY <1>1, Invariance, PTL

\* handleTusPatch and copyTusBody: an upload that shares its inode with nobody
\* is at all times a gapless prefix of what its client sends.
THEOREM PrefixOnDisk == Spec => []UploadIsPrefix
  <1>1. Inv => UploadIsPrefix
    BY DEF Inv, Disk
  <1> QED
    BY <1>1, Invariance, PTL

\* handleTusPatch: what was answered as finished is whole, and stays so.
THEOREM WholeOnceAnswered == Spec => []CompleteIsWhole
  <1>1. Inv => CompleteIsWhole
    BY DEF Inv, Disk
  <1> QED
    BY <1>1, Invariance, PTL

\* handleTusPatch: the registry forgets an upload before its client is told.
THEOREM FinishedUnregistered == Spec => []CompleteLeavesRegistry
  <1>1. Inv => CompleteLeavesRegistry
    BY DEF Inv, Disk, FinishedInv, CompleteLeavesRegistry
  <1> QED
    BY <1>1, Invariance, PTL

\* tus.go:87: as long as no other handler works on the tree, an upload whose time to live was
\* not up before it was answered as finished is at its path then, however DELETE and the
\* collector interleave with the PATCH that finished it.
THEOREM AnsweredBound ==
    ASSUME Enabled \cap {"save", "remove", "move"} = {}
    PROVE  Spec => AnsweredWhileBound
  <1>1. Init => UndrawnInv /\ BoundInv
    BY DEF Init, UndrawnInv, BoundInv, Held, Dropping, Idle
  <1>2. Inv /\ (UndrawnInv /\ BoundInv) /\ [Next]_vars => (UndrawnInv /\ BoundInv)'
    BY UndrawnNext, BoundNext DEF Inv, Disk
  <1> DEFINE A == \A s \in complete' \ complete :
                    AloneOnPath(s) /\ ~sess[s].idle => dir'[sess[s].path] = sess[s].ino
  <1>3. ASSUME Inv, BoundInv, [Next]_vars PROVE A
    <2>1. CASE UNCHANGED complete BY <2>1
    <2>2. ASSUME NEW r \in Req, PatchDrop(r) PROVE A
      <3>1. complete' = complete \cup {req[r].s} /\ dir' = dir /\ req[r].pc = "drop"
        BY <2>2 DEF PatchDrop
      <3>2. req[r].s \in Session
        BY <1>3, <3>1 DEF Inv, Structure, RequestInv
      <3> QED  BY <1>3, <3>1, <3>2 DEF BoundInv, Held, Dropping
    <2>3. ASSUME NEW r \in Req, Call(r) PROVE UNCHANGED complete
      BY <2>3 DEF Call, CreateStat, HeadGet, DeleteGet, PatchGet
    <2>4. ASSUME NEW r \in Req, Continue(r), ~PatchDrop(r) PROVE UNCHANGED complete
      BY <2>4 DEF Continue, CreateRemove, CreateOpen, HeadOffset, DeleteUnregister,
         DeleteAbort, PatchLock, PatchWrite, PatchFail, PatchRefuse,
         PatchEnd, PatchCommit
    <2> QED
      BY <1>3, <2>1, <2>2, <2>3, <2>4
      DEF Next, Expire, Collect, SaveFile, RemoveFile, Crash, vars,
          MoveNext, MoveCheck, MoveRename, MoveOpen, MoveCopy, MoveDrop, MoveFail
  <1>4. Inv /\ BoundInv /\ [Next]_vars => [A]_vars
    BY <1>3
  <1> QED
    BY <1>1, <1>2, <1>4, Invariance, PTL DEF Spec, AnsweredWhileBound

-----------------------------------------------------------------------------
(* Side by side *)

\* A behaviour is one of the server's uploads or of the browser's queue: each behaves as it
\* does alone.
THEOREM EachRuns == UploadsSpec => Spec /\ Q!Spec
  <1>1. UploadsInit => Init /\ Q!Init
    BY DEF UploadsInit
  <1>2. [UploadsNext]_uploads => [Next]_vars
    BY DEF UploadsNext, uploads
  <1>3. [UploadsNext]_uploads => [Q!Next]_(Q!vars)
    BY DEF UploadsNext, uploads, Q!vars, queueing
  <1> QED
    BY <1>1, <1>2, <1>3, PTL DEF UploadsSpec, Spec, Q!Spec
=============================================================================
