-------------------------- MODULE Requests_proofs --------------------------
(***************************************************************************)
(* What a page asks for and plays beside its folder, for every value of    *)
(* the constants: the previews of images on the server, the tokens with    *)
(* which the page may change anything, and the players.                    *)
(***************************************************************************)
EXTENDS MCRequests, FiniteSetTheorems, SequenceTheorems, TLAPS

-----------------------------------------------------------------------------
(* Previews.  Neither property is inductive.  That the semaphore counts    *)
(* the renders is, once the types are known.  That what is in the cache is *)
(* whole needs two more facts: no file serves two stamps (Apart), and a    *)
(* stamp for which no two requests have written at once has one writer,    *)
(* which has the temporary file to itself and has filled what it need not  *)
(* fill any more (Sole).                                                   *)


Writing(r) == req[r].pc \in {"write", "rename"}

Holders == {r \in Req : req[r].pc \in {"decode", "create", "write", "rename"}}

\* f is the file of stamp s, under a name or open.
Keeps(f, s) ==
    \/ f = tmp[s]
    \/ f = cache[s]
    \/ \E r \in Req : req[r].stamp = s /\ req[r].file = f

\* What a request knows at the point it has come to.
Fits ==
    \A r \in Req :
        /\ ~Writing(r) => req[r].file = 0
        /\ req[r].pc \in {"create", "write", "rename"} => req[r].ver \in Version
        /\ req[r].pc = "rename" => req[r].todo = {}
        /\ req[r].pc = "open" => cache[req[r].stamp] # 0

Apart == \A f \in Inode : \A s, t \in Stamp : Keeps(f, s) /\ Keeps(f, t) => s = t

\* The one writer of a stamp.
WritesAlone(r) ==
    /\ tmp[req[r].stamp] # 0
    /\ req[r].file = tmp[req[r].stamp]
    /\ \A q \in Req : Writing(q) /\ req[q].stamp = req[r].stamp => q = r
    /\ \A p \in Piece \ req[r].todo : inode[req[r].file][p] = req[r].ver

Sole ==
    /\ \A r \in Req : Writing(r) /\ req[r].stamp \notin shared => WritesAlone(r)
    /\ \A s \in Stamp \ shared : cache[s] # 0 => cache[s] # tmp[s] /\ Whole(cache[s])

Stamped == image.stamp <= image.ver

IInv == TypeOK /\ Stamped /\ SlotsAreHeld /\ Fits /\ Apart /\ Sole

-----------------------------------------------------------------------------
(* Types *)

LEMMA TypesStart == Init => TypeOK /\ Stamped
BY BoundsAssumption DEF Init, TypeOK, Stamped, Version, Stamp, Request, Pc, Idle, Gap, Inode, Piece

LEMMA IdleType == Idle \in Request
BY BoundsAssumption DEF Idle, Request, Pc, Stamp, Inode, Version, Piece

\* What a step of request r does to the requests: the others stay.
LEMMA StatReq ==
    ASSUME req \in [Req -> Request], NEW r \in Req, NEW s \in Stamp,
           req' = [req EXCEPT ![r].pc = "look", ![r].stamp = s]
    PROVE  /\ req' \in [Req -> Request]
           /\ \A q \in Req \ {r} : req'[q] = req[q]
           /\ req'[r].pc = "look" /\ req'[r].file = req[r].file
BY DEF Request, Pc

LEMMA GoReq ==
    ASSUME req \in [Req -> Request], NEW r \in Req, NEW pc \in Pc, Go(r, pc)
    PROVE  /\ req' \in [Req -> Request]
           /\ \A q \in Req \ {r} : req'[q] = req[q]
           /\ req'[r].pc = pc
           /\ req'[r].stamp = req[r].stamp /\ req'[r].file = req[r].file
           /\ req'[r].ver = req[r].ver
BY DEF Go, Request

LEMMA AnswerReq ==
    ASSUME req \in [Req -> Request], NEW r \in Req, Answer(r)
    PROVE  /\ req' \in [Req -> Request]
           /\ \A q \in Req \ {r} : req'[q] = req[q]
           /\ req'[r] = Idle
BY IdleType DEF Answer

LEMMA DecodeReq ==
    ASSUME req \in [Req -> Request], NEW r \in Req, NEW v \in Version,
           req' = [req EXCEPT ![r].pc = "create", ![r].ver = v]
    PROVE  /\ req' \in [Req -> Request]
           /\ \A q \in Req \ {r} : req'[q] = req[q]
           /\ req'[r].pc = "create" /\ req'[r].ver = v
           /\ req'[r].stamp = req[r].stamp /\ req'[r].file = req[r].file
BY DEF Request, Pc

LEMMA CreateReq ==
    ASSUME req \in [Req -> Request], NEW r \in Req, NEW f \in Inode,
           req' = [req EXCEPT ![r].pc = "write", ![r].file = f, ![r].todo = Piece]
    PROVE  /\ req' \in [Req -> Request]
           /\ \A q \in Req \ {r} : req'[q] = req[q]
           /\ req'[r].pc = "write" /\ req'[r].file = f /\ req'[r].todo = Piece
           /\ req'[r].stamp = req[r].stamp /\ req'[r].ver = req[r].ver
BY DEF Request, Pc

LEMMA WriteReq ==
    ASSUME req \in [Req -> Request], NEW r \in Req, NEW pc \in Pc, NEW todo \in SUBSET Piece,
           req' = [req EXCEPT ![r].todo = todo, ![r].pc = pc]
    PROVE  /\ req' \in [Req -> Request]
           /\ \A q \in Req \ {r} : req'[q] = req[q]
           /\ req'[r].pc = pc /\ req'[r].todo = todo
           /\ req'[r].stamp = req[r].stamp /\ req'[r].ver = req[r].ver
           /\ req'[r].file = req[r].file
BY DEF Request

LEMMA RenameReq ==
    ASSUME req \in [Req -> Request], NEW r \in Req,
           req' = [req EXCEPT ![r].pc = "open", ![r].ver = 0, ![r].file = 0]
    PROVE  /\ req' \in [Req -> Request]
           /\ \A q \in Req \ {r} : req'[q] = req[q]
           /\ req'[r].pc = "open" /\ req'[r].file = 0
           /\ req'[r].stamp = req[r].stamp
<1>1. [req[r] EXCEPT !.pc = "open", !.ver = 0, !.file = 0] \in Request
  BY DEF Request, Pc
<1>2. req' = [req EXCEPT ![r] = [req[r] EXCEPT !.pc = "open", !.ver = 0, !.file = 0]]
  OBVIOUS
<1>3. req[r] \in Request OBVIOUS
<1> QED BY <1>1, <1>2, <1>3 DEF Request

\* Files that are in use are left as they are, the others are empty.
LEMMA RecycleKeeps ==
    ASSUME inode \in [Inode -> [Piece -> Version \cup {0}]], Recycle
    PROVE  /\ inode' \in [Inode -> [Piece -> Version \cup {0}]]
           /\ \A f \in Inode \cap Used' : inode'[f] = inode[f]
BY DEF Recycle, Gap

-----------------------------------------------------------------------------
(* The semaphore *)

LEMMA HoldersFinite == IsFiniteSet(Holders) /\ Cardinality(Holders) \in Nat
<1>1. Holders \subseteq Req BY DEF Holders
<1> QED BY <1>1, ReqAssumption, FS_Subset, FS_CardinalityType

LEMMA SlotKept ==
    ASSUME SlotsAreHeld, Holders' = Holders, sem' - elsewhere' = sem - elsewhere,
           sem \in Nat, elsewhere \in Nat, sem' \in Int, elsewhere' \in Nat
    PROVE  SlotsAreHeld'
<1>1. sem = elsewhere + Cardinality(Holders) BY DEF SlotsAreHeld, Holders
<1>2. sem' = elsewhere' + Cardinality(Holders') BY <1>1, HoldersFinite
<1> QED BY <1>2 DEF SlotsAreHeld, Holders

LEMMA SlotTaken ==
    ASSUME SlotsAreHeld, NEW r \in Req, r \notin Holders, Holders' = Holders \cup {r},
           sem' = sem + 1, elsewhere' = elsewhere, sem \in Nat, elsewhere \in Nat
    PROVE  SlotsAreHeld'
<1>1. Cardinality(Holders') = Cardinality(Holders) + 1
  BY HoldersFinite, FS_AddElement
<1>2. sem = elsewhere + Cardinality(Holders) BY DEF SlotsAreHeld, Holders
<1>3. sem' = elsewhere' + Cardinality(Holders') BY <1>1, <1>2, HoldersFinite
<1> QED BY <1>3 DEF SlotsAreHeld, Holders

LEMMA SlotGiven ==
    ASSUME SlotsAreHeld, NEW r \in Holders, Holders' = Holders \ {r},
           sem' = sem - 1, elsewhere' = elsewhere, sem \in Nat, elsewhere \in Nat
    PROVE  SlotsAreHeld' /\ sem' \in Nat
<1>1. Cardinality(Holders') = Cardinality(Holders) - 1
  BY HoldersFinite, FS_RemoveElement
<1>2. sem = elsewhere + Cardinality(Holders) BY DEF SlotsAreHeld, Holders
<1>3. Cardinality(Holders') \in Nat
  <2>1. IsFiniteSet(Holders') BY HoldersFinite, FS_RemoveElement
  <2> QED BY <2>1, FS_CardinalityType
<1>4. sem' = elsewhere' + Cardinality(Holders') /\ sem' \in Nat
  BY <1>1, <1>2, <1>3, HoldersFinite
<1> QED BY <1>4 DEF SlotsAreHeld, Holders

-----------------------------------------------------------------------------
(* Steps that touch no file *)

LEMMA FitsFrame ==
    ASSUME Fits, req \in [Req -> Request], NEW r \in Req,
           \A q \in Req \ {r} : req'[q] = req[q],
           \A s \in Stamp : cache[s] # 0 => cache'[s] # 0,
           req'[r].pc \notin {"write", "rename"} => req'[r].file = 0,
           req'[r].pc \in {"create", "write", "rename"} => req'[r].ver \in Version,
           req'[r].pc = "rename" => req'[r].todo = {},
           req'[r].pc = "open" => cache'[req'[r].stamp] # 0
    PROVE  Fits'
<1> SUFFICES ASSUME NEW q \in Req
             PROVE  /\ req'[q].pc \notin {"write", "rename"} => req'[q].file = 0
                    /\ req'[q].pc \in {"create", "write", "rename"} => req'[q].ver \in Version
                    /\ req'[q].pc = "rename" => req'[q].todo = {}
                    /\ req'[q].pc = "open" => cache'[req'[q].stamp] # 0
  BY DEF Fits, Writing
<1>1. CASE q = r BY <1>1
<1>2. CASE q # r
  <2>1. req'[q] = req[q] BY <1>2
  <2>2. req[q].stamp \in Stamp BY DEF Request
  <2> QED BY <2>1, <2>2 DEF Fits, Writing
<1> QED BY <1>1, <1>2

\* Where no name changes and no new file is opened, no file is shared.
LEMMA ApartKept ==
    ASSUME Apart, \A f \in Inode : \A s \in Stamp : Keeps(f, s)' => Keeps(f, s)
    PROVE  Apart'
BY DEF Apart

\* A request that neither writes nor comes to write.
LEMMA QuietKeeps ==
    ASSUME Apart, Sole, req \in [Req -> Request], NEW r \in Req,
           tmp' = tmp, cache' = cache, inode' = inode, shared' = shared,
           \A q \in Req \ {r} : req'[q] = req[q],
           ~Writing(r), req'[r].pc \notin {"write", "rename"}, req'[r].file = 0
    PROVE  Apart' /\ Sole'
<1>1. Apart'
  <2>1. ASSUME NEW f \in Inode, NEW s \in Stamp, Keeps(f, s)'
        PROVE  Keeps(f, s)
    <3>1. f # 0 BY BoundsAssumption DEF Inode
    <3> QED BY <2>1, <3>1 DEF Keeps
  <2> QED BY <2>1, ApartKept
<1>2. ASSUME NEW q \in Req, Writing(q)', req'[q].stamp \notin shared'
      PROVE  WritesAlone(q)'
  <2>1. q # r BY <1>2 DEF Writing
  <2>2. req'[q] = req[q] BY <2>1
  <2>3. WritesAlone(q) BY <1>2, <2>2 DEF Sole, Writing
  <2> QED BY <2>2, <2>3 DEF WritesAlone, Writing
<1>3. (\A s \in Stamp \ shared : cache[s] # 0 => cache[s] # tmp[s] /\ Whole(cache[s]))'
  BY DEF Sole, Whole
<1> QED BY <1>1, <1>2, <1>3 DEF Sole

\* A step of the image or of other previews.
LEMMA ElsewhereKeeps ==
    ASSUME Fits, Apart, Sole,
           tmp' = tmp, cache' = cache, inode' = inode, shared' = shared, req' = req
    PROVE  Fits' /\ Apart' /\ Sole'
<1>1. Fits' BY DEF Fits, Writing
<1>2. Apart' BY DEF Apart, Keeps
<1>3. Sole' BY DEF Sole, Writing, WritesAlone, Whole
<1> QED BY <1>1, <1>2, <1>3

LEMMA StatKeeps == ASSUME IInv, NEW r \in Req, Stat(r) PROVE IInv'
<1> USE DEF IInv
<1>1. req \in [Req -> Request] /\ req[r].file = 0 /\ image.stamp \in Stamp
  BY DEF TypeOK, Fits, Stat, Writing
<1>2. /\ req' \in [Req -> Request]
      /\ \A q \in Req \ {r} : req'[q] = req[q]
      /\ req'[r].pc = "look" /\ req'[r].file = 0
  BY <1>1, StatReq DEF Stat
<1>3. TypeOK' /\ Stamped' BY <1>2 DEF TypeOK, Stamped, Stat, Stay
<1>4. SlotsAreHeld'
  <2>1. Holders' = Holders BY <1>2 DEF Holders, Stat
  <2> QED BY <2>1, SlotKept DEF TypeOK, Stat, Stay
<1>5. Fits' BY <1>1, <1>2, FitsFrame DEF Stat, Stay
<1>6. Apart' /\ Sole' BY <1>1, <1>2, QuietKeeps DEF Stat, Stay, Writing
<1> QED BY <1>3, <1>4, <1>5, <1>6

LEMMA LookKeeps == ASSUME IInv, NEW r \in Req, Look(r) PROVE IInv'
<1> USE DEF IInv
<1>1. req \in [Req -> Request] /\ req[r].file = 0 /\ req[r].stamp \in Stamp
  BY DEF TypeOK, Fits, Look, Writing, Request
<1> DEFINE pc == IF cache[req[r].stamp] # 0 THEN "open" ELSE "wait"
<1>2. /\ req' \in [Req -> Request]
      /\ \A q \in Req \ {r} : req'[q] = req[q]
      /\ req'[r].pc = pc /\ req'[r].file = 0 /\ req'[r].stamp = req[r].stamp
  <2>1. pc \in Pc BY DEF Pc
  <2>2. Go(r, pc) BY DEF Look
  <2> HIDE DEF pc
  <2> QED BY <1>1, <2>1, <2>2, GoReq
<1>3. TypeOK' /\ Stamped' BY <1>2 DEF TypeOK, Stamped, Look, Stay
<1>4. SlotsAreHeld'
  <2>1. Holders' = Holders BY <1>2 DEF Holders, Look
  <2> QED BY <2>1, SlotKept DEF TypeOK, Look, Stay
<1>5. Fits' BY <1>1, <1>2, FitsFrame DEF Look, Stay
<1>6. Apart' /\ Sole' BY <1>1, <1>2, QuietKeeps DEF Look, Stay, Writing
<1> QED BY <1>3, <1>4, <1>5, <1>6

LEMMA OpenKeeps == ASSUME IInv, NEW r \in Req, Open(r) PROVE IInv'
<1> USE DEF IInv
<1>1. req \in [Req -> Request] BY DEF TypeOK
<1>2. /\ req' \in [Req -> Request]
      /\ \A q \in Req \ {r} : req'[q] = req[q]
      /\ req'[r].pc = "idle" /\ req'[r].file = 0
  BY <1>1, AnswerReq DEF Open, Idle
<1>3. TypeOK' /\ Stamped' BY <1>2 DEF TypeOK, Stamped, Open, Stay
<1>4. SlotsAreHeld'
  <2>1. Holders' = Holders BY <1>2 DEF Holders, Open
  <2> QED BY <2>1, SlotKept DEF TypeOK, Open, Stay
<1>5. Fits' BY <1>1, <1>2, FitsFrame DEF Open, Stay
<1>6. Apart' /\ Sole' BY <1>1, <1>2, QuietKeeps DEF Open, Stay, Writing
<1> QED BY <1>3, <1>4, <1>5, <1>6

LEMMA AcquireKeeps == ASSUME IInv, NEW r \in Req, Acquire(r) PROVE IInv'
<1> USE DEF IInv
<1>1. req \in [Req -> Request] /\ req[r].file = 0
  BY DEF TypeOK, Fits, Acquire, Writing
<1>2. /\ req' \in [Req -> Request]
      /\ \A q \in Req \ {r} : req'[q] = req[q]
      /\ req'[r].pc = "decode" /\ req'[r].file = 0
  BY <1>1, GoReq DEF Acquire, Pc
<1>3. TypeOK' /\ Stamped'
  BY <1>2, BoundsAssumption DEF TypeOK, Stamped, Acquire
<1>4. SlotsAreHeld'
  <2>1. r \notin Holders /\ Holders' = Holders \cup {r} BY <1>2 DEF Holders, Acquire
  <2>2. sem \in Nat /\ elsewhere \in Nat BY BoundsAssumption DEF TypeOK
  <2> QED BY <2>1, <2>2, SlotTaken DEF Acquire
<1>5. Fits' BY <1>1, <1>2, FitsFrame DEF Acquire
<1>6. Apart' /\ Sole' BY <1>1, <1>2, QuietKeeps DEF Acquire, Writing
<1> QED BY <1>3, <1>4, <1>5, <1>6

LEMMA DecodeKeeps == ASSUME IInv, NEW r \in Req, Decode(r) PROVE IInv'
<1> USE DEF IInv
<1>1. req \in [Req -> Request] /\ req[r].file = 0 /\ image.ver \in Version
  BY DEF TypeOK, Fits, Decode, Writing
<1>2. /\ req' \in [Req -> Request]
      /\ \A q \in Req \ {r} : req'[q] = req[q]
      /\ req'[r].pc = "create" /\ req'[r].file = 0 /\ req'[r].ver \in Version
  BY <1>1, DecodeReq DEF Decode
<1>3. TypeOK' /\ Stamped' BY <1>2 DEF TypeOK, Stamped, Decode, Stay
<1>4. SlotsAreHeld'
  <2>1. Holders' = Holders BY <1>2 DEF Holders, Decode
  <2> QED BY <2>1, SlotKept DEF TypeOK, Decode, Stay
<1>5. Fits' BY <1>1, <1>2, FitsFrame DEF Decode, Stay
<1>6. Apart' /\ Sole' BY <1>1, <1>2, QuietKeeps DEF Decode, Stay, Writing
<1> QED BY <1>3, <1>4, <1>5, <1>6

\* Giving up before anything is written.
LEMMA CorruptKeeps == ASSUME IInv, NEW r \in Req, Corrupt(r) PROVE IInv'
<1> USE DEF IInv
<1>1. req \in [Req -> Request] BY DEF TypeOK
<1>2. /\ req' \in [Req -> Request]
      /\ \A q \in Req \ {r} : req'[q] = req[q]
      /\ req'[r].pc = "idle" /\ req'[r].file = 0
  BY <1>1, AnswerReq DEF Corrupt, Give, Idle
<1>3. SlotsAreHeld' /\ sem' \in Nat
  <2>1. r \in Holders /\ Holders' = Holders \ {r} BY <1>2 DEF Holders, Corrupt
  <2>2. sem \in Nat /\ elsewhere \in Nat BY BoundsAssumption DEF TypeOK
  <2> QED BY <2>1, <2>2, SlotGiven DEF Corrupt, Give
<1>4. TypeOK' /\ Stamped'
  BY <1>2, <1>3, BoundsAssumption DEF TypeOK, Stamped, Corrupt, Give
<1>5. Fits' BY <1>1, <1>2, FitsFrame DEF Corrupt
<1>6. Apart' /\ Sole' BY <1>1, <1>2, QuietKeeps DEF Corrupt, Writing
<1> QED BY <1>3, <1>4, <1>5, <1>6

LEMMA EditKeeps == ASSUME IInv, Edit PROVE IInv'
<1> USE DEF IInv
<1>1. TypeOK' /\ Stamped'
  <2>1. PICK s \in {image.stamp, image.stamp + 1} :
          image' = [ver |-> image.ver + 1, stamp |-> s]
    BY DEF Edit
  <2>2. image.ver + 1 \in Version /\ s \in Stamp /\ s <= image.ver + 1
    BY BoundsAssumption DEF Edit, TypeOK, Stamped, Version, Stamp
  <2> QED BY <2>1, <2>2 DEF Edit, TypeOK, Stamped
<1>2. SlotsAreHeld' BY DEF Edit, SlotsAreHeld
<1>3. Fits' /\ Apart' /\ Sole' BY ElsewhereKeeps DEF Edit
<1> QED BY <1>1, <1>2, <1>3

LEMMA ElsewhereStepKeeps ==
    ASSUME IInv, AcquireElsewhere \/ ReleaseElsewhere
    PROVE  IInv'
<1> USE DEF IInv
<1>1. SlotsAreHeld' /\ sem' \in Nat
  <2>1. sem = elsewhere + Cardinality(Holders) BY DEF SlotsAreHeld, Holders
  <2>2. sem \in Nat /\ elsewhere \in Nat BY BoundsAssumption DEF TypeOK
  <2>3. Holders' = Holders BY DEF Holders, AcquireElsewhere, ReleaseElsewhere
  <2>4. /\ sem' = elsewhere' + Cardinality(Holders')
        /\ sem' \in Nat
    BY <2>1, <2>2, <2>3, HoldersFinite DEF AcquireElsewhere, ReleaseElsewhere
  <2> QED BY <2>4 DEF SlotsAreHeld, Holders
<1>2. TypeOK' /\ Stamped'
  BY <1>1, BoundsAssumption DEF TypeOK, Stamped, AcquireElsewhere, ReleaseElsewhere
<1>3. Fits' /\ Apart' /\ Sole'
  BY ElsewhereKeeps DEF AcquireElsewhere, ReleaseElsewhere
<1> QED BY <1>1, <1>2, <1>3

-----------------------------------------------------------------------------
(* Steps that write *)

\* What is known of the files of a request that writes.
LEMMA WriterFile ==
    ASSUME IInv, NEW r \in Req, Writing(r)
    PROVE  /\ req[r].stamp \in Stamp
           /\ req[r].ver \in Version
           /\ req[r].todo \in SUBSET Piece
           /\ req[r].stamp \notin shared => req[r].file \in Inode
BY DEF IInv, TypeOK, Request, Fits, Sole, WritesAlone, Writing

\* The cached preview of another stamp, or of the writer's own as long as that has
\* no other writer, is in another file than the one that is written.
LEMMA WritesAside ==
    ASSUME IInv, NEW r \in Req, Writing(r), req[r].file \in Inode,
           NEW s \in Stamp \ shared, cache[s] # 0
    PROVE  cache[s] # req[r].file
<1> SUFFICES ASSUME cache[s] = req[r].file PROVE FALSE OBVIOUS
<1>1. Keeps(req[r].file, s) /\ Keeps(req[r].file, req[r].stamp) BY DEF Keeps
<1>2. s = req[r].stamp
  BY <1>1, WriterFile DEF IInv, Apart
<1>3. cache[s] # tmp[s] /\ req[r].file = tmp[s] BY <1>2 DEF IInv, Sole, WritesAlone
<1> QED BY <1>3

LEMMA WriteKeeps == ASSUME IInv, NEW r \in Req, Write(r) PROVE IInv'
<1> DEFINE p == FirstOf(req[r].todo)
           todo == req[r].todo \ {p}
           pc == IF req[r].todo = {p} THEN "rename" ELSE "write"
<1>1. /\ req \in [Req -> Request]
      /\ p \in Piece
      /\ req[r].pc = "write"
      /\ Writing(r)
      /\ req[r].stamp \in Stamp
      /\ req[r].ver \in Version
      /\ todo \in SUBSET Piece
  <2>1. Writing(r) BY DEF Write, Writing
  <2> QED BY <2>1, WriterFile DEF IInv, TypeOK, FirstOf, Piece, Write
<1>2. /\ req' \in [Req -> Request]
      /\ \A q \in Req \ {r} : req'[q] = req[q]
      /\ req'[r].pc = pc /\ req'[r].todo = todo
      /\ req'[r].stamp = req[r].stamp /\ req'[r].ver = req[r].ver
      /\ req'[r].file = req[r].file
  <2>1. pc \in Pc BY DEF Pc
  <2>2. req' = [req EXCEPT ![r].todo = todo, ![r].pc = pc] BY DEF Write
  <2> HIDE DEF todo, pc
  <2> QED BY <1>1, <2>1, <2>2, WriteReq
<1>3. /\ inode' = [inode EXCEPT ![req[r].file][p] = req[r].ver]
      /\ UNCHANGED <<image, tmp, cache, sem, elsewhere, shared>>
  BY DEF Write
<1>4. inode' \in [Inode -> [Piece -> Version \cup {0}]]
  BY <1>1, <1>3 DEF IInv, TypeOK
<1>5. TypeOK' /\ Stamped' BY ONLY IInv, <1>2, <1>3, <1>4 DEF IInv, TypeOK, Stamped
<1>6. SlotsAreHeld'
  <2>1. Holders' = Holders BY <1>1, <1>2 DEF Holders
  <2> QED BY <2>1, <1>3, SlotKept DEF IInv, TypeOK
<1>7. Fits' 
  <2>1. pc = "rename" => todo = {} OBVIOUS
  <2>2. pc \in {"write", "rename"} OBVIOUS
  <2> HIDE DEF pc, todo
  <2> QED BY <1>1, <1>2, <1>3, <2>1, <2>2, FitsFrame DEF IInv
<1>8. Apart'
  <2>1. ASSUME NEW f \in Inode, NEW s \in Stamp, Keeps(f, s)' PROVE Keeps(f, s)
    BY <1>2, <1>3, <2>1 DEF Keeps
  <2> QED BY <2>1, ApartKept DEF IInv
<1> HIDE DEF p, todo, pc
<1>9. ASSUME NEW q \in Req, Writing(q)', req'[q].stamp \notin shared'
      PROVE  WritesAlone(q)'
  <2>1. /\ Writing(q) /\ req[q].stamp \notin shared /\ req[q].stamp = req'[q].stamp
        /\ req[q].file = req'[q].file /\ req[q].ver = req'[q].ver
    BY <1>1, <1>2, <1>3, <1>9 DEF Writing
  <2>2. WritesAlone(q) BY <2>1 DEF IInv, Sole
  <2>3. req[q].file \in Inode BY <2>1, WriterFile
  <2>4. \A x \in Req : Writing(x)' => Writing(x) /\ req'[x].stamp = req[x].stamp
    BY <1>1, <1>2 DEF Writing
  <2>5. \A k \in Piece \ req'[q].todo : inode'[req'[q].file][k] = req'[q].ver
    <3>1. CASE q = r
      <4> SUFFICES ASSUME NEW k \in Piece \ todo PROVE inode'[req[r].file][k] = req[r].ver
        BY <3>1, <1>2, <2>1
      <4>1. CASE k = p BY <4>1, <3>1, <1>1, <1>3, <2>3 DEF IInv, TypeOK
      <4>2. CASE k # p
        <5>1. k \in Piece \ req[r].todo BY <4>2 DEF todo
        <5>2. inode[req[r].file][k] = req[r].ver BY <5>1, <2>2, <3>1 DEF WritesAlone
        <5> QED BY <5>2, <4>2, <3>1, <1>1, <1>3, <2>3 DEF IInv, TypeOK
      <4> QED BY <4>1, <4>2
    <3>2. CASE q # r
      <4>1. req[q].file # req[r].file
        <5> SUFFICES ASSUME req[q].file = req[r].file PROVE FALSE OBVIOUS
        <5>1. Keeps(req[q].file, req[q].stamp) /\ Keeps(req[q].file, req[r].stamp)
          BY DEF Keeps
        <5>2. req[q].stamp \in Stamp BY <2>1, WriterFile
        <5>3. req[q].stamp = req[r].stamp BY <5>1, <5>2, <1>1, <2>3 DEF IInv, Apart
        <5> QED BY <5>3, <1>1, <2>2, <3>2 DEF WritesAlone
      <4>2. inode'[req[q].file] = inode[req[q].file]
        BY <4>1, <1>3, <2>3 DEF IInv, TypeOK
      <4> QED BY <4>2, <3>2, <1>2, <2>2 DEF WritesAlone
    <3> QED BY <3>1, <3>2
  <2> QED BY <2>1, <2>2, <2>4, <2>5, <1>3 DEF WritesAlone
<1>10. ASSUME NEW s \in Stamp \ shared, cache[s] # 0
       PROVE  cache[s] # tmp[s] /\ inode'[cache[s]] = inode[cache[s]] /\ Whole(cache[s])
  <2>1. cache[s] # tmp[s] /\ Whole(cache[s]) /\ cache[s] \in Inode
    BY <1>10 DEF IInv, Sole, TypeOK
  <2>2. cache[s] # req[r].file BY <2>1, <1>1, <1>10, WritesAside
  <2> QED BY <2>1, <2>2, <1>3 DEF IInv, TypeOK
<1>11. Sole' BY <1>3, <1>9, <1>10 DEF Sole, Whole
<1> QED BY <1>5, <1>6, <1>7, <1>8, <1>11 DEF IInv

\* A request that has written leaves: its temporary file loses its name, gets the
\* one in the cache, or had lost it before.
LEMMA LeaveKeeps ==
    ASSUME IInv, NEW r \in Req, Writing(r), Recycle,
           \A q \in Req \ {r} : req'[q] = req[q],
           req'[r].pc \notin {"write", "rename"}, req'[r].file = 0,
           shared' = shared,
           tmp' \in [Stamp -> Inode \cup {0}],
           \A s \in Stamp \ {req[r].stamp} : tmp'[s] = tmp[s] /\ cache'[s] = cache[s],
           tmp'[req[r].stamp] = 0,
           cache' \in [Stamp -> Inode \cup {0}],
           \/ cache'[req[r].stamp] = cache[req[r].stamp]
           \/ /\ cache'[req[r].stamp] = tmp[req[r].stamp]
              /\ req[r].pc = "rename"
    PROVE  Apart' /\ Sole'
<1> DEFINE own == req[r].stamp
<1>1. /\ own \in Stamp
      /\ inode \in [Inode -> [Piece -> Version \cup {0}]]
      /\ req \in [Req -> Request]
      /\ 0 \notin Inode
  BY WriterFile, BoundsAssumption DEF IInv, TypeOK, Inode
<1>2. Apart'
  <2>1. ASSUME NEW f \in Inode, NEW s \in Stamp, Keeps(f, s)' PROVE Keeps(f, s)
    <3>1. CASE f = tmp'[s] BY <3>1, <1>1 DEF Keeps
    <3>2. CASE f = cache'[s] BY <3>2, <1>1 DEF Keeps
    <3>3. CASE \E q \in Req : req'[q].stamp = s /\ req'[q].file = f
      <4>1. PICK q \in Req : req'[q].stamp = s /\ req'[q].file = f BY <3>3
      <4>2. q # r BY <4>1, <1>1
      <4> QED BY <4>1, <4>2 DEF Keeps
    <3> QED BY <2>1, <3>1, <3>2, <3>3 DEF Keeps
  <2> QED BY <2>1, ApartKept DEF IInv
<1>3. \A f \in Inode \cap Used' : inode'[f] = inode[f]
  BY <1>1, RecycleKeeps
<1>4. ASSUME NEW q \in Req, Writing(q)', req'[q].stamp \notin shared'
      PROVE  WritesAlone(q)'
  <2>1. q # r BY <1>4 DEF Writing
  <2>2. req'[q] = req[q] BY <2>1
  <2>3. Writing(q) /\ WritesAlone(q) BY <1>4, <2>2 DEF IInv, Sole, Writing
  <2>4. req[q].stamp # own
    BY <2>1, <2>3 DEF WritesAlone
  <2>5. req[q].stamp \in Stamp /\ req[q].file \in Inode
    BY <1>4, <2>2, <2>3, WriterFile
  <2>6. tmp'[req[q].stamp] = tmp[req[q].stamp] BY <2>4, <2>5
  <2>7. req[q].file \in Used' BY <2>2 DEF Used
  <2>8. inode'[req[q].file] = inode[req[q].file] BY <1>3, <2>5, <2>7
  <2>9. \A x \in Req : Writing(x)' => Writing(x) /\ req'[x] = req[x]
    BY DEF Writing
  <2> QED BY <2>2, <2>3, <2>6, <2>8, <2>9 DEF WritesAlone
<1>5. ASSUME NEW s \in Stamp \ shared, cache'[s] # 0
      PROVE  cache'[s] # tmp'[s] /\ Whole(cache[s])'
  <2>1. cache'[s] \in Inode BY <1>5
  <2>2. inode'[cache'[s]] = inode[cache'[s]]
    <3>1. cache'[s] \in Used' BY DEF Used
    <3> QED BY <1>3, <2>1, <3>1
  <2>3. CASE cache'[s] = cache[s]
    <3>1. cache[s] # tmp[s] /\ Whole(cache[s]) BY <1>5, <2>3 DEF IInv, Sole
    <3>2. tmp'[s] = tmp[s] \/ tmp'[s] = 0 BY <1>1
    <3> QED BY <1>5, <2>2, <2>3, <3>1, <3>2 DEF Whole
  <2>4. CASE cache'[s] # cache[s]
    <3>1. s = own /\ cache'[s] = tmp[s] /\ req[r].pc = "rename" BY <2>4, <1>1
    <3>2. WritesAlone(r) /\ req[r].todo = {} /\ req[r].ver \in Version
      BY <3>1, WriterFile DEF IInv, Sole, Fits
    <3>3. \A k \in Piece : inode[tmp[s]][k] = req[r].ver
      BY <3>1, <3>2 DEF WritesAlone
    <3>4. inode[tmp[s]] = [k \in Piece |-> req[r].ver]
      BY <1>1, <2>1, <3>1, <3>3
    <3>5. Whole(cache[s])' BY <2>2, <3>1, <3>2, <3>4 DEF Whole
    <3>6. tmp'[s] = 0 BY <3>1
    <3> QED BY <1>5, <3>5, <3>6
  <2> QED BY <2>3, <2>4
<1>6. Sole' BY <1>4, <1>5 DEF Sole
<1> QED BY <1>2, <1>6

LEMMA GiveUpKeeps ==
    ASSUME IInv, NEW r \in Req, DiskFull(r) \/ RenameFails(r)
    PROVE  IInv'
<1>1. /\ req \in [Req -> Request]
      /\ Writing(r)
      /\ req[r].stamp \in Stamp
      /\ tmp \in [Stamp -> Inode \cup {0}]
      /\ sem \in Nat /\ elsewhere \in Nat
      /\ r \in Holders
  <2>1. Writing(r) BY DEF DiskFull, RenameFails, Writing
  <2> QED BY <2>1, WriterFile, BoundsAssumption DEF IInv, TypeOK, Holders, Writing
<1>2. Give(r) /\ Recycle /\ UNCHANGED <<image, cache, elsewhere, shared>>
  BY DEF DiskFull, RenameFails
<1>3. /\ req' \in [Req -> Request]
      /\ \A q \in Req \ {r} : req'[q] = req[q]
      /\ req'[r].pc = "idle" /\ req'[r].file = 0
  BY <1>1, <1>2, AnswerReq DEF Give, Idle
<1>4. /\ tmp' \in [Stamp -> Inode \cup {0}]
      /\ \A s \in Stamp \ {req[r].stamp} : tmp'[s] = tmp[s]
      /\ tmp'[req[r].stamp] = 0
  BY <1>1 DEF DiskFull, RenameFails
<1>5. SlotsAreHeld' /\ sem' \in Nat
  <2>1. Holders' = Holders \ {r} BY <1>3 DEF Holders
  <2> QED BY <1>1, <1>2, <2>1, SlotGiven DEF Give, IInv
<1>6. TypeOK' /\ Stamped'
  <2>1. inode' \in [Inode -> [Piece -> Version \cup {0}]]
    BY <1>2, RecycleKeeps DEF IInv, TypeOK
  <2>2. sem' \in 0 .. MaxDecodes
    BY <1>1, <1>2, <1>5, BoundsAssumption DEF Give, IInv, TypeOK
  <2> QED BY ONLY IInv, <1>2, <1>3, <1>4, <2>1, <2>2 DEF IInv, TypeOK, Stamped
<1>7. Fits' BY <1>1, <1>2, <1>3, FitsFrame DEF IInv
<1>8. Apart' /\ Sole'
  BY <1>1, <1>2, <1>3, <1>4, LeaveKeeps DEF IInv, TypeOK
<1> QED BY <1>5, <1>6, <1>7, <1>8 DEF IInv

LEMMA RenameKeeps == ASSUME IInv, NEW r \in Req, Rename(r) PROVE IInv'
<1> DEFINE own == req[r].stamp
<1>1. /\ req \in [Req -> Request]
      /\ Writing(r)
      /\ own \in Stamp
      /\ tmp \in [Stamp -> Inode \cup {0}]
      /\ cache \in [Stamp -> Inode \cup {0}]
      /\ sem \in Nat /\ elsewhere \in Nat
      /\ r \in Holders
  <2>1. Writing(r) BY DEF Rename, Writing
  <2> QED BY <2>1, WriterFile, BoundsAssumption DEF IInv, TypeOK, Holders, Writing
<1>2. /\ req[r].pc = "rename" /\ tmp[own] # 0
      /\ cache' = [cache EXCEPT ![own] = tmp[own]]
      /\ tmp' = [tmp EXCEPT ![own] = 0]
      /\ sem' = sem - 1
      /\ req' = [req EXCEPT ![r].pc = "open", ![r].ver = 0, ![r].file = 0]
      /\ UNCHANGED <<image, elsewhere, shared>>
      /\ Recycle
  BY DEF Rename
<1>3. /\ req' \in [Req -> Request]
      /\ \A q \in Req \ {r} : req'[q] = req[q]
      /\ req'[r].pc = "open" /\ req'[r].file = 0 /\ req'[r].stamp = own
  BY <1>1, <1>2, RenameReq
<1>4. /\ tmp' \in [Stamp -> Inode \cup {0}]
      /\ cache' \in [Stamp -> Inode \cup {0}]
      /\ \A s \in Stamp \ {own} : tmp'[s] = tmp[s] /\ cache'[s] = cache[s]
      /\ tmp'[own] = 0 /\ cache'[own] = tmp[own]
  BY <1>1, <1>2
<1>5. SlotsAreHeld' /\ sem' \in Nat
  <2>1. Holders' = Holders \ {r} BY <1>3 DEF Holders
  <2> QED BY <1>1, <1>2, <2>1, SlotGiven DEF IInv
<1>6. TypeOK' /\ Stamped'
  <2>1. inode' \in [Inode -> [Piece -> Version \cup {0}]]
    BY <1>2, RecycleKeeps DEF IInv, TypeOK
  <2>2. sem' \in 0 .. MaxDecodes
    BY <1>1, <1>2, <1>5, BoundsAssumption DEF IInv, TypeOK
  <2> QED BY ONLY IInv, <1>2, <1>3, <1>4, <2>1, <2>2 DEF IInv, TypeOK, Stamped
<1>7. Fits'
  <2>1. \A s \in Stamp : cache[s] # 0 => cache'[s] # 0 BY <1>2, <1>4
  <2> QED BY <1>1, <1>2, <1>3, <1>4, <2>1, FitsFrame DEF IInv
<1>8. Apart' /\ Sole'
  BY <1>1, <1>2, <1>3, <1>4, LeaveKeeps
<1> QED BY <1>5, <1>6, <1>7, <1>8 DEF IInv

LEMMA RestartKeeps == ASSUME IInv, Restart PROVE IInv'
<1>1. /\ req' = [r \in Req |-> Idle]
      /\ sem' = 0 /\ elsewhere' = 0
      /\ UNCHANGED <<image, tmp, cache, shared>>
      /\ Recycle
      /\ 0 \notin Inode
  BY BoundsAssumption DEF Restart, Inode
<1>2. \A r \in Req : req'[r] = Idle /\ req'[r].pc = "idle" /\ req'[r].file = 0
  BY <1>1 DEF Idle
<1>3. /\ inode' \in [Inode -> [Piece -> Version \cup {0}]]
      /\ \A f \in Inode \cap Used' : inode'[f] = inode[f]
  BY <1>1, RecycleKeeps DEF IInv, TypeOK
<1>4. req' \in [Req -> Request] BY <1>1, IdleType
<1>5. TypeOK' /\ Stamped'
  BY <1>1, <1>3, <1>4, BoundsAssumption DEF IInv, TypeOK, Stamped
<1>6. SlotsAreHeld'
  <2>1. Holders' = {} BY <1>2 DEF Holders
  <2>2. Cardinality(Holders') = 0 BY <2>1, FS_EmptySet
  <2>3. sem' = elsewhere' + Cardinality(Holders') BY <1>1, <2>2
  <2> QED BY <2>3 DEF SlotsAreHeld, Holders
<1>7. Fits' BY <1>2 DEF Fits, Writing
<1>8. Apart'
  <2>1. ASSUME NEW f \in Inode, NEW s \in Stamp, Keeps(f, s)' PROVE Keeps(f, s)
    BY <1>1, <1>2, <2>1 DEF Keeps
  <2> QED BY <2>1, ApartKept DEF IInv
<1>9. Sole'
  <2>1. ASSUME NEW s \in Stamp \ shared, cache[s] # 0
        PROVE  cache[s] # tmp[s] /\ inode'[cache[s]] = inode[cache[s]] /\ Whole(cache[s])
    <3>1. cache[s] \in Inode BY <2>1 DEF IInv, TypeOK
    <3>2. cache[s] \in Used' BY <1>1 DEF Used
    <3> QED BY <1>3, <2>1, <3>1, <3>2 DEF IInv, Sole
  <2>2. (\A s \in Stamp \ shared : cache[s] # 0 => cache[s] # tmp[s] /\ Whole(cache[s]))'
    BY <1>1, <2>1 DEF Whole
  <2>3. \A r \in Req : ~Writing(r)' BY <1>2 DEF Writing
  <2> QED BY <2>2, <2>3 DEF Sole
<1> QED BY <1>5, <1>6, <1>7, <1>8, <1>9 DEF IInv

LEMMA CreateKeeps == ASSUME IInv, NEW r \in Req, Create(r) PROVE IInv'
<1> DEFINE own == req[r].stamp
           f == IF tmp[own] # 0 THEN tmp[own] ELSE CHOOSE x \in Inode \ Used : TRUE
           joined == \E q \in Req : req[q].stamp = own /\ req[q].pc \in {"write", "rename"}
<1>1. /\ req \in [Req -> Request]
      /\ own \in Stamp
      /\ req[r].pc = "create" /\ req[r].ver \in Version /\ req[r].file = 0
      /\ tmp \in [Stamp -> Inode \cup {0}]
      /\ cache \in [Stamp -> Inode \cup {0}]
      /\ inode \in [Inode -> [Piece -> Version \cup {0}]]
      /\ 0 \notin Inode
  <2>1. 0 \notin Inode BY BoundsAssumption DEF Inode
  <2>2. req[r].pc = "create" BY DEF Create
  <2>3. req[r].ver \in Version /\ req[r].file = 0 BY <2>2 DEF IInv, Fits, Writing
  <2> QED BY <2>1, <2>2, <2>3 DEF IInv, TypeOK, Request
<1>2. f \in Inode /\ (f = tmp[own] \/ f \notin Used) BY <1>1 DEF Create
<1>3. /\ inode' = [inode EXCEPT ![f] = Gap]
      /\ tmp' = [tmp EXCEPT ![own] = f]
      /\ req' = [req EXCEPT ![r].pc = "write", ![r].file = f, ![r].todo = Piece]
      /\ shared' = IF joined THEN shared \cup {own} ELSE shared
      /\ UNCHANGED <<image, cache, sem, elsewhere>>
  BY DEF Create
<1> HIDE DEF f, joined
<1>4. /\ req' \in [Req -> Request]
      /\ \A q \in Req \ {r} : req'[q] = req[q]
      /\ req'[r].pc = "write" /\ req'[r].file = f /\ req'[r].todo = Piece
      /\ req'[r].stamp = own /\ req'[r].ver = req[r].ver
  BY <1>1, <1>2, <1>3, CreateReq
<1>5. /\ inode' \in [Inode -> [Piece -> Version \cup {0}]]
      /\ \A g \in Inode \ {f} : inode'[g] = inode[g]
      /\ tmp' \in [Stamp -> Inode \cup {0}]
      /\ tmp'[own] = f /\ \A s \in Stamp \ {own} : tmp'[s] = tmp[s]
  BY <1>1, <1>2, <1>3 DEF Gap
<1>6. TypeOK' /\ Stamped'
  <2>1. shared' \subseteq Stamp BY <1>1, <1>3 DEF IInv, TypeOK
  <2> QED BY ONLY IInv, <1>3, <1>4, <1>5, <2>1 DEF IInv, TypeOK, Stamped
<1>7. SlotsAreHeld'
  <2>1. Holders' = Holders BY <1>1, <1>4 DEF Holders
  <2> QED BY <2>1, <1>3, SlotKept, BoundsAssumption DEF IInv, TypeOK
<1>8. Fits' BY <1>1, <1>3, <1>4, FitsFrame DEF IInv
\* The file is this stamp's, if it is any stamp's.
<1>9. \A s \in Stamp : Keeps(f, s) => s = own
  <2>1. CASE f = tmp[own] BY <1>1, <1>2, <2>1 DEF Keeps, IInv, Apart
  <2>2. CASE f \notin Used BY <2>2 DEF Keeps, Used
  <2> QED BY <1>2, <2>1, <2>2
<1>10. Apart'
  <2>1. ASSUME NEW g \in Inode, NEW s \in Stamp, Keeps(g, s)'
        PROVE  Keeps(g, s) \/ (g = f /\ s = own)
    BY <1>1, <1>3, <1>4, <1>5, <2>1 DEF Keeps
  <2> QED BY <1>9, <2>1 DEF IInv, Apart
<1>11. ASSUME NEW q \in Req, Writing(q)', req'[q].stamp \notin shared'
       PROVE  WritesAlone(q)'
  <2>1. CASE q = r
    <3>1. ~joined BY <1>3, <1>4, <1>11, <2>1
    <3>2. \A x \in Req : Writing(x)' /\ req'[x].stamp = own => x = r
      BY <1>4, <3>1 DEF joined, Writing
    <3> QED BY <1>1, <1>2, <1>4, <1>5, <2>1, <3>2 DEF WritesAlone
  <2>2. CASE q # r
    <3>1. req'[q] = req[q] /\ Writing(q) BY <1>4, <1>11, <2>2 DEF Writing
    <3>2. req[q].stamp # own /\ req[q].stamp \notin shared
      BY <1>3, <1>11, <3>1 DEF joined, Writing
    <3>3. WritesAlone(q) BY <3>1, <3>2 DEF IInv, Sole
    <3>4. req[q].stamp \in Stamp /\ req[q].file \in Inode
      BY <3>1, <3>2, WriterFile
    <3>5. req[q].file # f
      <4>1. Keeps(req[q].file, req[q].stamp) BY DEF Keeps
      <4> QED BY <1>9, <3>2, <3>4, <4>1
    <3>6. /\ tmp'[req[q].stamp] = tmp[req[q].stamp]
          /\ inode'[req[q].file] = inode[req[q].file]
      BY <1>5, <3>2, <3>4, <3>5
    <3>7. \A x \in Req : Writing(x)' /\ req'[x].stamp = req[q].stamp
                           => Writing(x) /\ req[x].stamp = req[q].stamp
      BY <1>4, <3>2 DEF Writing
    <3> QED BY <3>1, <3>3, <3>6, <3>7 DEF WritesAlone
  <2> QED BY <2>1, <2>2
<1>12. ASSUME NEW s \in Stamp \ shared, cache[s] # 0
       PROVE  /\ cache[s] # tmp'[s]
              /\ inode'[cache[s]] = inode[cache[s]]
              /\ Whole(cache[s])
  <2>1. cache[s] # tmp[s] /\ Whole(cache[s]) /\ cache[s] \in Inode
    BY <1>1, <1>12 DEF IInv, Sole
  <2>2. cache[s] # f
    <3> SUFFICES ASSUME cache[s] = f PROVE FALSE OBVIOUS
    <3>1. s = own BY <1>9 DEF Keeps
    <3>2. cache[s] \in Used BY DEF Used
    <3> QED BY <1>2, <2>1, <3>1, <3>2
  <2>3. tmp'[s] = tmp[s] \/ tmp'[s] = f BY <1>5
  <2> QED BY <1>5, <2>1, <2>2, <2>3
<1>13. (\A s \in Stamp \ shared : cache[s] # 0 => cache[s] # tmp[s] /\ Whole(cache[s]))'
  <2>1. shared \subseteq shared' BY <1>3
  <2> QED BY <1>3, <1>12, <2>1 DEF Whole
<1>14. Sole' BY <1>11, <1>13 DEF Sole
<1> QED BY <1>6, <1>7, <1>8, <1>10, <1>14 DEF IInv

-----------------------------------------------------------------------------
(* The invariant *)

LEMMA Starts == Init => IInv
<1> SUFFICES ASSUME Init PROVE IInv OBVIOUS
<1>1. TypeOK /\ Stamped BY TypesStart
<1>2. \A r \in Req : req[r].pc = "idle" /\ req[r].file = 0 BY DEF Init, Idle
<1>3. SlotsAreHeld
  <2>1. Holders = {} BY <1>2 DEF Holders
  <2>2. Cardinality(Holders) = 0 BY <2>1, FS_EmptySet
  <2> QED BY <2>2 DEF SlotsAreHeld, Holders, Init
<1>4. Fits BY <1>2 DEF Fits, Writing
<1>5. Apart
  <2>1. 0 \notin Inode BY BoundsAssumption DEF Inode
  <2> QED BY <1>2, <2>1 DEF Apart, Keeps, Init
<1>6. Sole BY <1>2 DEF Sole, Writing, Init
<1> QED BY <1>1, <1>3, <1>4, <1>5, <1>6 DEF IInv

LEMMA Keep == IInv /\ [Next]_vars => IInv'
<1> SUFFICES ASSUME IInv, [Next]_vars PROVE IInv' OBVIOUS
<1>1. CASE UNCHANGED vars
  <2>1. TypeOK' /\ Stamped' BY <1>1 DEF IInv, vars, TypeOK, Stamped
  <2>2. SlotsAreHeld' BY <1>1 DEF IInv, vars, SlotsAreHeld
  <2>3. Fits' /\ Apart' /\ Sole' BY <1>1, ElsewhereKeeps DEF IInv, vars
  <2> QED BY <2>1, <2>2, <2>3 DEF IInv
<1>2. ASSUME NEW r \in Req, Stat(r) \/ Look(r) \/ Open(r) \/ Acquire(r) \/ Render(r)
      PROVE  IInv'
  BY <1>2, StatKeeps, LookKeeps, OpenKeeps, AcquireKeeps, DecodeKeeps, CorruptKeeps,
     CreateKeeps, WriteKeeps, GiveUpKeeps, RenameKeeps DEF Render
<1>3. CASE AcquireElsewhere \/ ReleaseElsewhere BY <1>3, ElsewhereStepKeeps
<1>4. CASE Edit BY <1>4, EditKeeps
<1>5. CASE Restart BY <1>5, RestartKeeps
<1> QED BY <1>1, <1>2, <1>3, <1>4, <1>5 DEF Next

LEMMA Invariance == Spec => []IInv
BY Starts, Keep, PTL DEF Spec

-----------------------------------------------------------------------------
(* What is promised *)

\* Names lead to files of the cache directory, and no more slots are taken than
\* there are.
THEOREM PreviewTypeCorrect == Spec => []TypeOK
<1>1. IInv => TypeOK BY DEF IInv
<1> QED BY <1>1, Invariance, PTL

\* Every way out of renderPreview gives its slot back, and nothing else does.
THEOREM DecodesHoldSlots == Spec => []SlotsAreHeld
<1>1. IInv => SlotsAreHeld BY DEF IInv
<1> QED BY <1>1, Invariance, PTL

\* However many requests, edits, failures and restarts there are: a preview that
\* no two requests wrote at once is never served in part.
THEOREM PreviewsAreWhole == Spec => ServedWhole
<1> DEFINE Serves == \A r \in Req : Open(r) => Whole(cache[req[r].stamp])
                                             \/ req[r].stamp \in shared
<1>1. IInv => Serves
  <2> SUFFICES ASSUME IInv, NEW r \in Req, Open(r), req[r].stamp \notin shared
               PROVE  Whole(cache[req[r].stamp])
    OBVIOUS
  <2>1. req[r].stamp \in Stamp /\ cache[req[r].stamp] # 0
    BY DEF IInv, TypeOK, Request, Fits, Open
  <2> QED BY <2>1 DEF IInv, Sole
<1>2. IInv /\ [Next]_vars => [Serves]_vars BY <1>1
<1> QED BY <1>2, Invariance, PTL DEF Spec, ServedWhole

-----------------------------------------------------------------------------
(* Capability.  That one renewal is enough is a matter of what may still   *)
(* be on its way when a caller renews: Recent says that no fetch that was  *)
(* answered before the mutation began can reach its second attempt.        *)


\* No answer that is on its way, and no token in use, is of a later period.
Past ==
    /\ \A c \in Caller : caller[c].since <= period
    /\ \A t \in C!Period : inflight = <<t>> => t <= period
    /\ cached # NoToken => cached <= period
    /\ \A c \in Caller : caller[c].pc = "sent" =>
          caller[c].token \in C!Period /\ caller[c].token <= period

Recent ==
    \A c \in Caller :
        /\ caller[c].pc = "sent" \/ (caller[c].pc = "waiting" /\ caller[c].try = 2) =>
              \A t \in C!Period : inflight = <<t>> => t >= caller[c].since
        /\ caller[c].pc = "sent" /\ caller[c].try = 2 => caller[c].token >= caller[c].since

TokenInv == C!TypeOK /\ Past /\ C!FetchForWaiters /\ Recent

-----------------------------------------------------------------------------
(* Callers *)

LEMMA PeriodNat == \A t \in C!Period : t \in Nat
BY PeriodsAssumption DEF C!Period

LEMMA NothingElse ==
    /\ NoToken \notin Nat /\ NoToken \notin C!Fetch
    /\ \A t \in C!Period : Asked # <<t>>
BY NoneAssumption, AskedAssumption DEF Period, Fetch, C!Period, C!Fetch

LEMMA FetchValues ==
    /\ \A t \in C!Period : <<t>> \in C!Fetch
    /\ Asked \in C!Fetch
BY DEF C!Fetch

LEMMA CallerIdleType == C!Idle \in C!Mutation /\ C!Idle.pc = "idle"
BY PeriodsAssumption DEF C!Idle, C!Mutation, C!Pc, C!Period

\* What a caller is after Attempt.
LEMMA SentFields ==
    ASSUME NEW q \in C!Mutation, NEW t \in C!Period
    PROVE  LET n == [q EXCEPT !.pc = "sent", !.token = t]
           IN  /\ n \in C!Mutation /\ n.pc = "sent" /\ n.token = t
               /\ n.try = q.try /\ n.since = q.since /\ n.allowed = q.allowed
BY DEF C!Mutation, C!Pc

LEMMA WaitingFields ==
    ASSUME NEW q \in C!Mutation
    PROVE  LET n == [q EXCEPT !.pc = "waiting", !.token = NoToken]
           IN  /\ n \in C!Mutation /\ n.pc = "waiting"
               /\ n.try = q.try /\ n.since = q.since /\ n.allowed = q.allowed
BY DEF C!Mutation, C!Pc

LEMMA SettleKeeps ==
    ASSUME TokenInv, NEW c \in Caller, caller[c].pc = "sent", C!Settle(c),
           UNCHANGED <<period, off, cached, inflight>>
    PROVE  TokenInv'
<1>1. /\ caller' \in [Caller -> C!Mutation]
      /\ caller'[c] = C!Idle
      /\ \A d \in Caller \ {c} : caller'[d] = caller[d]
  BY CallerIdleType DEF TokenInv, C!TypeOK, C!Settle
<1>2. C!Idle.pc = "idle" /\ C!Idle.since = 0 BY DEF C!Idle
<1>3. C!TypeOK' BY <1>1 DEF TokenInv, C!TypeOK
<1>4. Past' BY <1>1, <1>2, PeriodNat DEF TokenInv, C!TypeOK, Past
<1>5. C!FetchForWaiters' BY <1>1, <1>2 DEF TokenInv, C!FetchForWaiters
<1>6. Recent' BY <1>1, <1>2 DEF TokenInv, Recent
<1> QED BY <1>3, <1>4, <1>5, <1>6 DEF TokenInv

\* The cached token is sent.
LEMMA SendKeeps ==
    ASSUME TokenInv, NEW c \in Caller, caller[c].pc = "idle", cached # NoToken,
           NEW q \in C!Mutation, q.try = 1, q.since = period,
           C!Attempt(c, q, cached, inflight), UNCHANGED <<period, off, cached>>
    PROVE  TokenInv'
<1> DEFINE n == [q EXCEPT !.pc = "sent", !.token = cached]
<1>1. cached \in C!Period /\ cached <= period BY DEF TokenInv, C!TypeOK, Past
<1>2. /\ n \in C!Mutation /\ n.pc = "sent" /\ n.token = cached
      /\ n.try = 1 /\ n.since = period
  BY <1>1, SentFields
<1>3. caller' = [caller EXCEPT ![c] = n] /\ inflight' = inflight
  BY DEF C!Attempt
<1> HIDE DEF n
<1>4. /\ caller' \in [Caller -> C!Mutation]
      /\ caller'[c] = n
      /\ \A d \in Caller \ {c} : caller'[d] = caller[d]
  BY <1>2, <1>3 DEF TokenInv, C!TypeOK
<1>5. inflight = NoToken BY DEF TokenInv, C!FetchForWaiters
<1>6. C!TypeOK' BY <1>3, <1>4 DEF TokenInv, C!TypeOK
<1>7. Past' BY <1>1, <1>2, <1>3, <1>4, PeriodNat DEF TokenInv, C!TypeOK, Past
<1>8. C!FetchForWaiters' BY <1>2, <1>3, <1>4, <1>5 DEF TokenInv, C!FetchForWaiters
<1>9. \A t \in C!Period : inflight # <<t>> BY <1>5, FetchValues, NothingElse
<1>10. Recent' BY <1>2, <1>3, <1>4, <1>9 DEF TokenInv, Recent
<1> QED BY <1>6, <1>7, <1>8, <1>10 DEF TokenInv

\* There is no token, or none any more: the caller waits.  From a first attempt a
\* second one follows only where an answer on its way is recent enough.
LEMMA WaitKeeps ==
    ASSUME TokenInv, NEW c \in Caller, NEW q \in C!Mutation,
           C!Attempt(c, q, NoToken, inflight), UNCHANGED <<period, off>>, cached' = NoToken,
           \/ q.try = 1 /\ q.since = period /\ cached = NoToken
           \/ /\ caller[c].pc = "sent" /\ q.try = 2
              /\ q.since = caller[c].since
    PROVE  TokenInv'
<1> DEFINE n == [q EXCEPT !.pc = "waiting", !.token = NoToken]
<1>1. /\ n \in C!Mutation /\ n.pc = "waiting"
      /\ n.try = q.try /\ n.since = q.since
  BY WaitingFields
<1>2. /\ caller' = [caller EXCEPT ![c] = n]
      /\ inflight' = IF inflight = NoToken THEN Asked ELSE inflight
  BY DEF C!Attempt
<1> HIDE DEF n
<1>3. /\ caller' \in [Caller -> C!Mutation]
      /\ caller'[c] = n
      /\ \A d \in Caller \ {c} : caller'[d] = caller[d]
  BY <1>1, <1>2 DEF TokenInv, C!TypeOK
<1>4. \A t \in C!Period : inflight' = <<t>> => inflight = <<t>>
  BY <1>2, NothingElse
<1>5. period \in C!Period /\ q.since <= period
  BY PeriodNat DEF TokenInv, C!TypeOK, Past
<1>6. C!TypeOK' BY <1>2, <1>3, FetchValues DEF TokenInv, C!TypeOK
<1>7. Past'
  <2>1. \A d \in Caller : caller'[d].since <= period BY <1>1, <1>3, <1>5 DEF TokenInv, Past
  <2>2. \A d \in Caller : caller'[d].pc = "sent" => caller'[d] = caller[d]
    BY <1>1, <1>3
  <2> QED BY <1>4, <2>1, <2>2 DEF TokenInv, Past
<1>8. C!FetchForWaiters'
  <2>1. inflight' # NoToken BY <1>2, FetchValues, NothingElse
  <2> QED BY <1>1, <1>3, <2>1 DEF C!FetchForWaiters
<1>9. Recent'
  <2>1. ASSUME NEW d \in Caller
        PROVE  /\ caller'[d].pc = "sent" \/ (caller'[d].pc = "waiting" /\ caller'[d].try = 2) =>
                    \A t \in C!Period : inflight = <<t>> => t >= caller'[d].since
               /\ caller'[d].pc = "sent" /\ caller'[d].try = 2 =>
                    caller'[d].token >= caller'[d].since
    <3>1. CASE d # c BY <1>3, <3>1 DEF TokenInv, Recent
    <3>2. CASE d = c /\ q.try = 1 BY <1>1, <1>3, <3>2
    <3>3. CASE d = c /\ caller[c].pc = "sent" /\ q.since = caller[c].since
      BY <1>1, <1>3, <3>3 DEF TokenInv, Recent
    <3> QED BY <3>1, <3>2, <3>3
  <2> QED BY <1>4, <2>1 DEF Recent
<1> QED BY <1>6, <1>7, <1>8, <1>9 DEF TokenInv

-----------------------------------------------------------------------------
(* Every step *)

LEMMA MutateKeeps == ASSUME TokenInv, NEW c \in Caller, C!Mutate(c) PROVE TokenInv'
<1>1. PICK may \in BOOLEAN :
        C!Attempt(c, [C!Idle EXCEPT !.allowed = may, !.since = period], cached, inflight)
  BY DEF C!Mutate
<1> DEFINE q == [C!Idle EXCEPT !.allowed = may, !.since = period]
<1>2. q \in C!Mutation /\ q.try = 1 /\ q.since = period
  <2>1. period \in C!Period BY DEF TokenInv, C!TypeOK
  <2>2. C!Idle \in C!Mutation BY CallerIdleType
  <2> QED BY ONLY <2>1, <2>2, may \in BOOLEAN DEF C!Idle, C!Mutation
<1> HIDE DEF q
<1>3. /\ C!Attempt(c, q, cached, inflight) /\ UNCHANGED <<period, off, cached>>
      /\ caller[c].pc = "idle"
  BY <1>1 DEF C!Mutate, q
<1>4. CASE cached # NoToken BY <1>2, <1>3, <1>4, SendKeeps
<1>5. CASE cached = NoToken
  <2>1. C!Attempt(c, q, NoToken, inflight) BY <1>3, <1>5
  <2> QED BY <1>2, <1>3, <1>5, <2>1, WaitKeeps
<1> QED BY <1>4, <1>5

LEMMA RenewKeeps == ASSUME TokenInv, NEW c \in Caller, C!Renew(c) PROVE TokenInv'
<1> DEFINE q == [caller[c] EXCEPT !.try = 2]
<1>1. q \in C!Mutation /\ q.try = 2 /\ q.since = caller[c].since
  BY DEF TokenInv, C!TypeOK, C!Mutation
<1> HIDE DEF q
<1>2. /\ C!Attempt(c, q, NoToken, inflight) /\ UNCHANGED <<period, off>> /\ cached' = NoToken
      /\ caller[c].pc = "sent"
  BY DEF C!Renew, q
<1> QED BY <1>1, <1>2, WaitKeeps

LEMMA FetchedKeeps == ASSUME TokenInv, C!Fetched PROVE TokenInv'
<1>1. PICK t \in C!Period :
        /\ inflight = <<t>> /\ cached' = t /\ inflight' = NoToken
        /\ caller' = [c \in Caller |->
                IF caller[c].pc = "waiting"
                THEN [caller[c] EXCEPT !.pc = "sent", !.token = t] ELSE caller[c]]
        /\ UNCHANGED <<period, off>>
  BY DEF C!Fetched
<1>2. t <= period BY <1>1 DEF TokenInv, Past
<1>3. ASSUME NEW c \in Caller, caller[c].pc = "waiting"
      PROVE  /\ caller'[c] \in C!Mutation
             /\ caller'[c].pc = "sent" /\ caller'[c].token = t
             /\ caller'[c].try = caller[c].try /\ caller'[c].since = caller[c].since
  <2>1. caller[c] \in C!Mutation BY DEF TokenInv, C!TypeOK
  <2>2. caller'[c] = [caller[c] EXCEPT !.pc = "sent", !.token = t] BY <1>1, <1>3
  <2>3. \A q \in C!Mutation : [q EXCEPT !.pc = "sent", !.token = t] \in C!Mutation
    BY SentFields
  <2> QED BY ONLY <2>1, <2>2, <2>3, t \in C!Period DEF C!Mutation
<1>4. \A c \in Caller : caller[c].pc # "waiting" => caller'[c] = caller[c] BY <1>1
<1>5. C!TypeOK'
  <2>1. caller' \in [Caller -> C!Mutation] BY <1>1, <1>3, <1>4 DEF TokenInv, C!TypeOK
  <2> QED BY <1>1, <2>1 DEF TokenInv, C!TypeOK
<1>6. \A s \in C!Period : inflight' # <<s>> BY <1>1, FetchValues, NothingElse
<1>7. Past' BY <1>1, <1>2, <1>3, <1>4, <1>6 DEF TokenInv, Past
<1>8. C!FetchForWaiters'
  <2>1. \A c \in Caller : caller'[c].pc # "waiting" BY <1>3, <1>4
  <2> QED BY <1>1, <2>1 DEF C!FetchForWaiters
<1>9. Recent'
  <2>1. ASSUME NEW c \in Caller, caller'[c].pc = "sent", caller'[c].try = 2
        PROVE  caller'[c].token >= caller'[c].since
    <3>1. CASE caller[c].pc = "waiting"
      <4>1. caller[c].try = 2 BY <1>3, <2>1, <3>1
      <4>2. t >= caller[c].since BY <1>1, <3>1, <4>1 DEF TokenInv, Recent
      <4> QED BY <1>3, <3>1, <4>2
    <3>2. CASE caller[c].pc # "waiting" BY <1>4, <2>1, <3>2 DEF TokenInv, Recent
    <3> QED BY <3>1, <3>2
  <2> QED BY <1>6, <2>1 DEF Recent
<1> QED BY <1>5, <1>7, <1>8, <1>9 DEF TokenInv

LEMMA FetchFailsKeeps == ASSUME TokenInv, C!FetchFails PROVE TokenInv'
<1>1. /\ inflight' = NoToken /\ UNCHANGED <<period, off, cached>>
      /\ \A c \in Caller : caller'[c] = IF caller[c].pc = "waiting" THEN C!Idle ELSE caller[c]
      /\ caller' \in [Caller -> C!Mutation]
  BY CallerIdleType DEF C!FetchFails, TokenInv, C!TypeOK
<1>2. C!Idle.pc = "idle" /\ C!Idle.since = 0 BY DEF C!Idle
<1>3. \A s \in C!Period : inflight' # <<s>> BY <1>1, FetchValues, NothingElse
<1>4. C!TypeOK' BY <1>1 DEF TokenInv, C!TypeOK
<1>5. Past' BY <1>1, <1>2, <1>3, PeriodNat DEF TokenInv, C!TypeOK, Past
<1>6. C!FetchForWaiters' BY <1>1, <1>2 DEF C!FetchForWaiters
<1>7. Recent' BY <1>1, <1>2, <1>3 DEF TokenInv, Recent
<1> QED BY <1>4, <1>5, <1>6, <1>7 DEF TokenInv

LEMMA IssueKeeps == ASSUME TokenInv, C!Issue PROVE TokenInv'
<1>1. /\ inflight = Asked /\ inflight' = <<period>>
      /\ UNCHANGED <<period, off, cached, caller>>
      /\ period \in C!Period
  BY DEF C!Issue, TokenInv, C!TypeOK
<1>2. \A t \in C!Period : inflight' = <<t>> => t = period BY <1>1
<1>3. inflight # NoToken /\ inflight' # NoToken BY <1>1, FetchValues, NothingElse
<1>4. C!TypeOK' BY <1>1, FetchValues DEF TokenInv, C!TypeOK
<1>5. Past' BY <1>1, <1>2, PeriodNat DEF TokenInv, Past
<1>6. C!FetchForWaiters' BY <1>1, <1>3 DEF TokenInv, C!FetchForWaiters
<1>7. Recent'
  <2>1. \A c \in Caller : period >= caller[c].since
    BY <1>1, PeriodNat DEF TokenInv, C!TypeOK, C!Mutation, Past
  <2> QED BY <1>1, <1>2, <2>1 DEF TokenInv, Recent
<1> QED BY <1>4, <1>5, <1>6, <1>7 DEF TokenInv

LEMMA ServerKeeps == ASSUME TokenInv, C!NextPeriod \/ C!Switch PROVE TokenInv'
<1>1. /\ UNCHANGED <<cached, inflight, caller>>
      /\ period \in C!Period /\ period' \in C!Period /\ period <= period' /\ off' \in BOOLEAN
  <2>1. period \in C!Period /\ off \in BOOLEAN BY DEF TokenInv, C!TypeOK
  <2>2. CASE C!NextPeriod BY <2>1, <2>2, PeriodsAssumption DEF C!NextPeriod, C!Period
  <2>3. CASE C!Switch BY <2>1, <2>3, PeriodNat DEF C!Switch
  <2> QED BY <2>2, <2>3
<1>2. C!TypeOK' BY <1>1 DEF TokenInv, C!TypeOK
<1>3. Past'
  <2>1. \A t \in C!Period : t <= period => t <= period' BY <1>1, PeriodNat
  <2> QED BY <1>1, <2>1 DEF TokenInv, C!TypeOK, C!Mutation, Past
<1>4. C!FetchForWaiters' /\ Recent' BY <1>1 DEF TokenInv, C!FetchForWaiters, Recent
<1> QED BY <1>2, <1>3, <1>4 DEF TokenInv

-----------------------------------------------------------------------------
(* The invariant *)

LEMMA TokensStart == C!Init => TokenInv
<1> SUFFICES ASSUME C!Init PROVE TokenInv OBVIOUS
<1>1. \A c \in Caller : caller[c] = C!Idle BY DEF C!Init
<1>2. C!Idle.pc = "idle" /\ C!Idle.since = 0 BY DEF C!Idle
<1>3. \A t \in C!Period : inflight # <<t>>
  BY FetchValues, NothingElse DEF C!Init
<1>4. C!TypeOK
  <2>1. 0 \in C!Period BY PeriodsAssumption DEF C!Period
  <2> QED BY <2>1, CallerIdleType DEF C!Init, C!TypeOK
<1>5. Past BY <1>1, <1>2, <1>3 DEF C!Init, Past
<1>6. C!FetchForWaiters /\ Recent BY <1>1, <1>2, <1>3 DEF C!Init, C!FetchForWaiters, Recent
<1> QED BY <1>4, <1>5, <1>6 DEF TokenInv

LEMMA TokensKeep == TokenInv /\ [C!Next]_(C!vars) => TokenInv'
<1> SUFFICES ASSUME TokenInv, [C!Next]_(C!vars) PROVE TokenInv' OBVIOUS
<1>1. CASE UNCHANGED C!vars
  BY <1>1 DEF C!vars, TokenInv, C!TypeOK, Past, C!FetchForWaiters, Recent
<1>2. CASE C!NextPeriod \/ C!Switch BY <1>2, ServerKeeps
<1>3. CASE C!Issue BY <1>3, IssueKeeps
<1>4. CASE C!Fetched BY <1>4, FetchedKeeps
<1>5. CASE C!FetchFails BY <1>5, FetchFailsKeeps
<1>6. ASSUME NEW c \in Caller, C!Mutate(c) PROVE TokenInv' BY <1>6, MutateKeeps
<1>7. ASSUME NEW c \in Caller, C!Renew(c) PROVE TokenInv' BY <1>7, RenewKeeps
<1>8. ASSUME NEW c \in Caller, C!Pass(c) \/ C!Refused(c) PROVE TokenInv'
  BY <1>8, SettleKeeps DEF C!Pass, C!Refused
<1> QED BY <1>1, <1>2, <1>3, <1>4, <1>5, <1>6, <1>7, <1>8 DEF C!Next

LEMMA TokenInvariance == C!Spec => []TokenInv
BY TokensStart, TokensKeep, PTL DEF C!Spec

-----------------------------------------------------------------------------
(* What is promised *)

\* Tokens and fetches are of periods there were.
THEOREM TokenTypeCorrect == C!Spec => []C!TypeOK
<1>1. TokenInv => C!TypeOK BY DEF TokenInv
<1> QED BY <1>1, TokenInvariance, PTL

\* A fetch is in flight exactly while some caller waits for it, and none while a
\* token is cached.
THEOREM FetchesHaveWaiters == C!Spec => []C!FetchForWaiters
<1>1. TokenInv => C!FetchForWaiters BY DEF TokenInv
<1> QED BY <1>1, TokenInvariance, PTL

\* A caller that may do what it asks for is refused only when the keys changed
\* while it asked.
THEOREM OneRenewalIsEnough == C!Spec => RenewedOnce
<1> DEFINE Justified == \A c \in Caller :
                C!Refused(c) /\ caller[c].allowed => period > caller[c].since
<1>1. TokenInv /\ [C!Next]_(C!vars) => [Justified]_(C!vars)
  <2> SUFFICES ASSUME TokenInv, NEW c \in Caller, C!Refused(c), caller[c].allowed
               PROVE  period > caller[c].since
    OBVIOUS
  <2>1. /\ caller[c].pc = "sent" /\ caller[c].try = 2
        /\ caller[c].token # period
    BY DEF C!Refused, C!Granted, C!Verify
  <2>2. /\ caller[c].token \in C!Period /\ caller[c].token <= period
        /\ caller[c].token >= caller[c].since
    BY <2>1 DEF TokenInv, Past, Recent
  <2>3. caller[c].since \in Nat /\ period \in Nat /\ caller[c].token \in Nat
    BY <2>2, PeriodNat DEF TokenInv, C!TypeOK, C!Mutation
  <2> QED BY <2>1, <2>2, <2>3
<1> QED BY <1>1, TokenInvariance, PTL DEF C!Spec, RenewedOnce, C!RenewedOnce

-----------------------------------------------------------------------------
(* Player.  What is shown follows the last event that tells whether the element plays, *)
(* and events are told in the order they came in: PlaysAsTold says what the last one   *)
(* on its way tells.  HeldLong is why the controls stay: the timer that can be cleared *)
(* has not run for longer than nobody touched anything.                                *)

Event == {"play", "pause", "waiting", "canplay", "ended", "error", "volumechange"}

\* The events that say whether the element plays.
Decides == {"play", "pause", "ended", "error"}

Element == [paused : BOOLEAN, broken : BOOLEAN, volume : P!Volume, muted : BOOLEAN]
Media == [playing : BOOLEAN, waiting : BOOLEAN, ended : BOOLEAN, error : BOOLEAN,
          volume : P!Volume, muted : BOOLEAN]

PlayerFrame ==
    /\ el \in Element /\ events \in Seq(Event) /\ state \in Media
    /\ visible \in BOOLEAN /\ leaked \in BOOLEAN /\ swapped \in BOOLEAN
    /\ held \in 0 .. HideDelay + 1 /\ still \in 0 .. HideDelay

\* Nothing after the i-th of es says whether the element plays.
Decisive(es, i) == \A j \in 1 .. Len(es) : j > i => es[j] \notin Decides

PlaysAsTold(e, es, s, sw) ==
    ~e.broken =>
        /\ \A i \in 1 .. Len(es) :
            es[i] \in Decides /\ Decisive(es, i) => (es[i] = "play" <=> ~e.paused)
        /\ Decisive(es, 0) /\ ~sw => s.playing = ~e.paused

SoundsAsTold(e, es, s) ==
    \/ \E i \in 1 .. Len(es) : es[i] = "volumechange"
    \/ s.volume = e.volume /\ s.muted = e.muted

Told == PlaysAsTold(el, events, state, swapped) /\ SoundsAsTold(el, events, state)

HeldLong ==
    /\ loose # {} => leaked
    /\ ~leaked /\ still < HideDelay =>
        visible /\ (held # HideDelay + 1 => held + still >= HideDelay)

PlayerInv == PlayerFrame /\ Told /\ HeldLong

LEMMA Delays == HideDelay \in Nat /\ P!Off = HideDelay + 1
BY InstanceAssumption DEF P!PlayerBounds, P!Off

-----------------------------------------------------------------------------
\* The element does what e tells of it.
Does(e0, e, x) ==
    /\ x = "play" => ~e.paused
    /\ x \in {"pause", "ended"} => e.paused
    /\ x = "error" => e.broken
    /\ x \notin Decides => e.paused = e0.paused
    /\ x # "volumechange" => e.volume = e0.volume /\ e.muted = e0.muted
    /\ e0.broken => e.broken

LEMMA OneMore ==
    ASSUME NEW e0, NEW e, NEW es \in Seq(Event), NEW x \in Event, NEW s, NEW sw,
           PlaysAsTold(e0, es, s, sw), SoundsAsTold(e0, es, s), Does(e0, e, x)
    PROVE  /\ Append(es, x) \in Seq(Event)
           /\ PlaysAsTold(e, Append(es, x), s, sw) /\ SoundsAsTold(e, Append(es, x), s)
<1> DEFINE n == Len(es)
           fs == Append(es, x)
<1>1. /\ fs \in Seq(Event) /\ n \in Nat /\ Len(fs) = n + 1 /\ fs[n + 1] = x
      /\ \A i \in 1 .. n : fs[i] = es[i]
  BY AppendProperties, LenProperties
<1> HIDE DEF n, fs
<1>2. PlaysAsTold(e, fs, s, sw)
  <2> SUFFICES ASSUME ~e.broken
               PROVE  /\ \A i \in 1 .. Len(fs) :
                            fs[i] \in Decides /\ Decisive(fs, i) => (fs[i] = "play" <=> ~e.paused)
                      /\ Decisive(fs, 0) /\ ~sw => s.playing = ~e.paused
    BY DEF PlaysAsTold
  <2>1. ~e0.broken BY DEF Does
  <2>2. CASE x \in Decides
    <3>1. ~Decisive(fs, 0) BY <1>1, <2>2 DEF Decisive
    <3>2. \A i \in 1 .. Len(fs) : Decisive(fs, i) => i = n + 1
      BY <1>1, <2>2 DEF Decisive
    <3>3. x = "play" <=> ~e.paused BY <2>2 DEF Does, Decides
    <3> QED BY <1>1, <3>1, <3>2, <3>3
  <2>3. CASE x \notin Decides
    <3>1. e.paused = e0.paused BY <2>3 DEF Does
    <3>2. ASSUME NEW i \in 0 .. n, Decisive(fs, i) PROVE Decisive(es, i)
      BY <1>1, <3>2 DEF Decisive, n
    <3>3. ASSUME NEW i \in 1 .. Len(fs), fs[i] \in Decides, Decisive(fs, i)
          PROVE  fs[i] = "play" <=> ~e.paused
      <4>1. i \in 1 .. n BY <1>1, <2>3, <3>3
      <4>2. es[i] = fs[i] /\ Decisive(es, i) BY <1>1, <3>2, <3>3, <4>1
      <4> QED BY <2>1, <3>1, <3>3, <4>1, <4>2 DEF PlaysAsTold, n
    <3>4. Decisive(fs, 0) => Decisive(es, 0) BY <1>1, <3>2
    <3> QED BY <2>1, <3>1, <3>3, <3>4 DEF PlaysAsTold
  <2> QED BY <2>2, <2>3
<1>3. SoundsAsTold(e, fs, s)
  <2>1. CASE x = "volumechange" BY <1>1, <2>1 DEF SoundsAsTold
  <2>2. CASE x # "volumechange"
    <3>1. e.volume = e0.volume /\ e.muted = e0.muted BY <2>2 DEF Does
    <3>2. CASE \E i \in 1 .. Len(es) : es[i] = "volumechange"
      BY <1>1, <3>2 DEF SoundsAsTold, n
    <3>3. CASE s.volume = e0.volume /\ s.muted = e0.muted
      BY <3>1, <3>3 DEF SoundsAsTold
    <3> QED BY <3>2, <3>3 DEF SoundsAsTold
  <2> QED BY <2>1, <2>2
<1> QED BY <1>1, <1>2, <1>3 DEF fs

\* One event more, or none.
LEMMA TellsKeeps ==
    ASSUME PlayerFrame, Told, NEW e \in Element, NEW x \in Event,
           P!Tells(e, <<x>>), Does(el, e, x), UNCHANGED <<state, swapped>>
    PROVE  el' \in Element /\ events' \in Seq(Event) /\ Told'
<1>1. el' = e /\ events' = Append(events, x)
  BY AppendIsConcat DEF P!Tells, PlayerFrame
<1> QED BY <1>1, OneMore DEF PlayerFrame, Told

LEMMA PlaysKeeps ==
    ASSUME PlayerFrame, Told, P!TogglePlay, UNCHANGED <<state, swapped>>
    PROVE  el' \in Element /\ events' \in Seq(Event) /\ Told'
<1>1. CASE el.paused /\ el.broken
  <2>1. el' = el /\ events' = events \o <<>>
    BY <1>1 DEF P!TogglePlay, P!ElementPlays, P!Tells
  <2>2. events' = events BY <2>1, ConcatEmptySeq DEF PlayerFrame
  <2> QED BY <2>1, <2>2 DEF Told, PlayerFrame
<1>2. CASE el.paused /\ ~el.broken
  <2> DEFINE e == [el EXCEPT !.paused = FALSE]
  <2>1. P!Tells(e, <<"play">>) BY <1>2 DEF P!TogglePlay, P!ElementPlays
  <2>2. e \in Element /\ Does(el, e, "play") BY DEF PlayerFrame, Element, Does, Decides
  <2> HIDE DEF e
  <2> QED BY <2>1, <2>2, TellsKeeps DEF Event
<1>3. CASE ~el.paused
  <2> DEFINE e == [el EXCEPT !.paused = TRUE]
  <2>1. P!Tells(e, <<"pause">>) BY <1>3 DEF P!TogglePlay, P!ElementPauses
  <2>2. e \in Element /\ Does(el, e, "pause") BY DEF PlayerFrame, Element, Does, Decides
  <2> HIDE DEF e
  <2> QED BY <2>1, <2>2, TellsKeeps DEF Event
<1> QED BY <1>1, <1>2, <1>3

LEMMA SoundKeeps ==
    ASSUME PlayerFrame, Told, P!ToggleMute \/ \E v \in P!Volume : P!SetVolume(v),
           UNCHANGED <<state, swapped>>
    PROVE  el' \in Element /\ events' \in Seq(Event) /\ Told'
<1>1. CASE P!ToggleMute
  <2> DEFINE e == [el EXCEPT !.muted = ~@]
  <2>1. P!Tells(e, <<"volumechange">>) BY <1>1 DEF P!ToggleMute
  <2>2. e \in Element /\ Does(el, e, "volumechange")
    BY DEF PlayerFrame, Element, Does, Decides
  <2> HIDE DEF e
  <2> QED BY <2>1, <2>2, TellsKeeps DEF Event
<1>2. ASSUME NEW v \in P!Volume, P!SetVolume(v)
      PROVE  el' \in Element /\ events' \in Seq(Event) /\ Told'
  <2> DEFINE e == [el EXCEPT !.volume = v, !.muted = @ /\ v = 0]
  <2>1. P!Tells(e, <<"volumechange">>) BY <1>2 DEF P!SetVolume
  <2>2. e \in Element /\ Does(el, e, "volumechange")
    <3>1. (el.muted /\ v = 0) \in BOOLEAN OBVIOUS
    <3> QED BY <3>1 DEF PlayerFrame, Element, Does, Decides
  <2> HIDE DEF e
  <2> QED BY <2>1, <2>2, TellsKeeps DEF Event
<1> QED BY <1>1, <1>2

LEMMA NetworkKeeps ==
    ASSUME PlayerFrame, Told, P!Buffers \/ P!Ends \/ P!Breaks
    PROVE  el' \in Element /\ events' \in Seq(Event) /\ Told'
<1>1. UNCHANGED <<state, swapped>> BY DEF P!Buffers, P!Ends, P!Breaks
<1>2. CASE P!Buffers
  <2> DEFINE x == IF state.waiting THEN "canplay" ELSE "waiting"
  <2>1. P!Tells(el, <<x>>) BY <1>2 DEF P!Buffers
  <2>2. x \in Event /\ Does(el, el, x) BY DEF Event, Does, Decides
  <2> HIDE DEF x
  <2> QED BY <1>1, <2>1, <2>2, TellsKeeps DEF PlayerFrame
<1>3. CASE P!Ends
  <2> DEFINE e == [el EXCEPT !.paused = TRUE]
             es == Append(events, "pause")
  <2>1. el' = e /\ events' = events \o <<"pause", "ended">> BY <1>3 DEF P!Ends, P!Tells
  <2>2. e \in Element /\ Does(el, e, "pause") /\ Does(e, e, "ended")
    BY DEF PlayerFrame, Element, Does, Decides
  <2> HIDE DEF e
  <2>3. events \in Seq(Event) /\ "pause" \in Event /\ "ended" \in Event
    BY DEF PlayerFrame, Event
  <2>4. /\ es \in Seq(Event)
        /\ PlaysAsTold(e, es, state, swapped) /\ SoundsAsTold(e, es, state)
    BY <2>2, <2>3, OneMore DEF Told
  <2>5. events' = Append(es, "ended")
    <3>1. <<"pause">> \in Seq(Event) /\ <<"ended">> \in Seq(Event) BY <2>3
    <3>2. <<"pause">> \o <<"ended">> = <<"pause", "ended">>
      <4> DEFINE p == <<"pause">>
                 q == <<"ended">>
                 r == <<"pause", "ended">>
      <4>1. /\ p \in Seq(Event) /\ Len(p) = 1 /\ p[1] = "pause"
            /\ q \in Seq(Event) /\ Len(q) = 1 /\ q[1] = "ended"
            /\ r \in Seq(Event) /\ Len(r) = 2 /\ r[1] = "pause" /\ r[2] = "ended"
        BY <2>3
      <4> HIDE DEF p, q, r
      <4>2. /\ p \o q \in Seq(Event) /\ Len(p \o q) = 2
            /\ (p \o q)[1] = "pause" /\ (p \o q)[2] = "ended"
        <5>1. /\ p \o q \in Seq(Event) /\ Len(p \o q) = Len(p) + Len(q)
              /\ \A i \in 1 .. Len(p) + Len(q) :
                    (p \o q)[i] = IF i <= Len(p) THEN p[i] ELSE q[i - Len(p)]
          BY <4>1, ConcatProperties
        <5> QED BY <4>1, <5>1
      <4>3. p \o q = r
        <5>1. \A i \in 1 .. Len(p \o q) : (p \o q)[i] = r[i] BY <4>1, <4>2
        <5> QED BY <4>1, <4>2, <5>1, SeqEqual
      <4> QED BY <4>3 DEF p, q, r
    <3>3. (events \o <<"pause">>) \o <<"ended">> = events \o (<<"pause">> \o <<"ended">>)
      BY <2>3, <3>1, ConcatAssociative
    <3>4. es = events \o <<"pause">> BY <2>3, AppendIsConcat
    <3>5. Append(es, "ended") = es \o <<"ended">> BY <2>3, <2>4, AppendIsConcat
    <3> QED BY <2>1, <3>2, <3>3, <3>4, <3>5
  <2> HIDE DEF es
  <2>6. /\ Append(es, "ended") \in Seq(Event)
        /\ PlaysAsTold(e, Append(es, "ended"), state, swapped)
        /\ SoundsAsTold(e, Append(es, "ended"), state)
    BY <2>2, <2>3, <2>4, OneMore
  <2> QED BY <1>1, <2>1, <2>2, <2>5, <2>6 DEF Told
<1>4. CASE P!Breaks
  <2> DEFINE e == [el EXCEPT !.broken = TRUE]
  <2>1. P!Tells(e, <<"error">>) BY <1>4 DEF P!Breaks
  <2>2. e \in Element /\ Does(el, e, "error") BY DEF PlayerFrame, Element, Does, Decides
  <2> HIDE DEF e
  <2> QED BY <1>1, <2>1, <2>2, TellsKeeps DEF Event
<1> QED BY <1>2, <1>3, <1>4

-----------------------------------------------------------------------------
\* What an event does to what is shown.
LEMMA PatchIs ==
    ASSUME PlayerFrame, NEW x \in Event
    PROVE  /\ P!Patch(x) \in Media
           /\ P!Patch(x).playing = IF x \in Decides THEN x = "play" ELSE state.playing
           /\ x = "volumechange" =>
                P!Patch(x).volume = el.volume /\ P!Patch(x).muted = el.muted
           /\ x # "volumechange" =>
                P!Patch(x).volume = state.volume /\ P!Patch(x).muted = state.muted
           /\ ~P!Patch(x).error => ~state.error \/ x = "play"
<1>1. state \in Media /\ el.volume \in P!Volume /\ el.muted \in BOOLEAN
  BY DEF PlayerFrame, Element
<1>2. CASE x = "play" BY <1>1, <1>2 DEF P!Patch, Media, Decides
<1>3. CASE x = "pause" BY <1>1, <1>3 DEF P!Patch, Media, Decides
<1>4. CASE x = "waiting" BY <1>1, <1>4 DEF P!Patch, Media, Decides
<1>5. CASE x = "canplay" BY <1>1, <1>5 DEF P!Patch, Media, Decides
<1>6. CASE x = "ended" BY <1>1, <1>6 DEF P!Patch, Media, Decides
<1>7. CASE x = "error" BY <1>1, <1>7 DEF P!Patch, Media, Decides
<1>8. CASE x = "volumechange" BY <1>1, <1>8 DEF P!Patch, Media, Decides
<1> QED BY <1>2, <1>3, <1>4, <1>5, <1>6, <1>7, <1>8 DEF Event

LEMMA ListenerTold ==
    ASSUME PlayerFrame, Told, P!Listener
    PROVE  state' \in Media /\ events' \in Seq(Event) /\ swapped' \in BOOLEAN /\ Told'
<1> DEFINE x == Head(events)
           n == Len(events)
<1>1. /\ events # <<>> /\ state' = P!Patch(x) /\ events' = Tail(events)
      /\ swapped' = (swapped /\ x # "play") /\ el' = el
  BY DEF P!Listener
<1>2. events \in Seq(Event) BY DEF PlayerFrame
<1>3. /\ x \in Event /\ x = events[1] /\ n \in Nat \ {0}
      /\ events' \in Seq(Event) /\ Len(events') = n - 1
      /\ \A i \in 1 .. n - 1 : events'[i] = events[i + 1]
  BY <1>1, <1>2, HeadTailProperties, EmptySeq, LenProperties
<1>4. /\ state' \in Media
      /\ state'.playing = IF x \in Decides THEN x = "play" ELSE state.playing
      /\ x = "volumechange" => state'.volume = el.volume /\ state'.muted = el.muted
      /\ x # "volumechange" => state'.volume = state.volume /\ state'.muted = state.muted
  BY <1>1, <1>3, PatchIs
<1> HIDE DEF x, n
<1>5. ASSUME NEW i \in 0 .. n - 1, Decisive(events', i) PROVE Decisive(events, i + 1)
  <2> SUFFICES ASSUME NEW j \in 1 .. Len(events), j > i + 1 PROVE events[j] \notin Decides
    BY DEF Decisive
  <2>1. j - 1 \in 1 .. n - 1 /\ j - 1 > i BY <1>3, <1>5 DEF n
  <2>2. events'[j - 1] \notin Decides BY <1>3, <1>5, <2>1 DEF Decisive
  <2>3. events'[j - 1] = events[(j - 1) + 1] BY <1>3, <2>1
  <2> QED BY <2>2, <2>3
<1>6. PlaysAsTold(el, events', state', swapped')
  <2> SUFFICES ASSUME ~el.broken
               PROVE  /\ \A i \in 1 .. Len(events') : events'[i] \in Decides /\ Decisive(events', i) =>
                            (events'[i] = "play" <=> ~el.paused)
                      /\ Decisive(events', 0) /\ ~swapped' => state'.playing = ~el.paused
    BY DEF PlaysAsTold
  <2>1. ASSUME NEW i \in 1 .. Len(events'), events'[i] \in Decides, Decisive(events', i)
        PROVE  events'[i] = "play" <=> ~el.paused
    <3>1. i + 1 \in 1 .. Len(events) /\ events'[i] = events[i + 1] BY <1>3 DEF n
    <3>2. Decisive(events, i + 1) BY <1>3, <1>5, <2>1
    <3> QED BY <2>1, <3>1, <3>2 DEF Told, PlaysAsTold
  <2>2. ASSUME Decisive(events', 0), ~swapped' PROVE state'.playing = ~el.paused
    <3>1. Decisive(events, 1)
      <4>1. 0 \in 0 .. n - 1 /\ 0 + 1 = 1 BY <1>3
      <4> QED BY <1>5, <2>2, <4>1
    <3>2. 1 \in 1 .. Len(events) BY <1>3 DEF n
    <3>3. CASE x \in Decides
      <4>1. events[1] = "play" <=> ~el.paused BY <1>3, <3>1, <3>2, <3>3 DEF Told, PlaysAsTold
      <4> QED BY <1>3, <1>4, <3>3, <4>1 DEF PlayerFrame, Element
    <3>4. CASE x \notin Decides
      <4>1. Decisive(events, 0)
        <5> SUFFICES ASSUME NEW j \in 1 .. Len(events), j > 0 PROVE events[j] \notin Decides
          BY DEF Decisive
        <5>1. j = 1 \/ j > 1 BY <1>3 DEF n
        <5> QED BY <1>3, <3>1, <3>4, <5>1 DEF Decisive
      <4>2. ~swapped BY <1>1, <2>2, <3>4 DEF Decides
      <4> QED BY <1>4, <3>4, <4>1, <4>2 DEF Told, PlaysAsTold
    <3> QED BY <3>3, <3>4
  <2> QED BY <2>1, <2>2
<1>7. SoundsAsTold(el, events', state')
  <2>1. CASE x = "volumechange" BY <1>4, <2>1 DEF SoundsAsTold
  <2>2. CASE x # "volumechange" /\ \E i \in 1 .. Len(events) : events[i] = "volumechange"
    <3>1. PICK i \in 1 .. Len(events) : events[i] = "volumechange" BY <2>2
    <3>2. i # 1 BY <1>3, <2>2, <3>1
    <3>3. i - 1 \in 1 .. n - 1 /\ (i - 1) + 1 = i BY <1>3, <3>2 DEF n
    <3>4. events'[i - 1] = "volumechange" BY <1>3, <3>1, <3>3
    <3> QED BY <1>3, <3>3, <3>4 DEF SoundsAsTold
  <2>3. CASE x # "volumechange" /\ state.volume = el.volume /\ state.muted = el.muted
    BY <1>4, <2>3 DEF SoundsAsTold
  <2> QED BY <2>1, <2>2, <2>3 DEF Told, SoundsAsTold
<1>8. Told' BY <1>1, <1>6, <1>7 DEF Told
<1>9. swapped' \in BOOLEAN BY <1>1 DEF PlayerFrame
<1> QED BY <1>3, <1>4, <1>8, <1>9

-----------------------------------------------------------------------------
ControlFrame ==
    /\ visible \in BOOLEAN /\ leaked \in BOOLEAN
    /\ held \in 0 .. HideDelay + 1 /\ still \in 0 .. HideDelay

LEMMA WakeKeeps ==
    ASSUME PlayerFrame, HeldLong, P!Wake
    PROVE  ControlFrame' /\ HeldLong'
BY Delays DEF PlayerFrame, HeldLong, P!Wake, ControlFrame

LEMMA EffectKeeps ==
    ASSUME PlayerFrame, HeldLong, NEW on \in BOOLEAN, P!Effect(on)
    PROVE  ControlFrame' /\ HeldLong'
BY Delays DEF PlayerFrame, HeldLong, P!Effect, ControlFrame, Media

LEMMA TimersKeep ==
    ASSUME PlayerFrame, HeldLong, P!HideTimer \/ P!LooseTimer \/ P!Tick
    PROVE  ControlFrame' /\ HeldLong'
<1>1. CASE P!HideTimer
  BY <1>1, Delays DEF PlayerFrame, HeldLong, P!HideTimer, P!Due, ControlFrame, Media
<1>2. CASE P!LooseTimer
  BY <1>2, Delays DEF PlayerFrame, HeldLong, P!LooseTimer, P!Due, ControlFrame, Media
<1>3. CASE P!Tick
  <2>1. loose' # {} => loose # {} BY <1>3 DEF P!Tick
  <2>2. /\ leaked' = leaked /\ visible' = visible
        /\ held # 0 /\ held' = IF held = HideDelay + 1 THEN held ELSE held - 1
        /\ still' = IF still < HideDelay THEN still + 1 ELSE still
    BY <1>3, Delays DEF P!Tick, P!Due
  <2> QED BY <2>1, <2>2, Delays DEF PlayerFrame, HeldLong, ControlFrame
<1> QED BY <1>1, <1>2, <1>3

LEMMA PlayerFromParts ==
    ASSUME el' \in Element, events' \in Seq(Event), state' \in Media, swapped' \in BOOLEAN,
           ControlFrame', Told', HeldLong'
    PROVE  PlayerInv'
BY DEF PlayerInv, PlayerFrame, ControlFrame

LEMMA PlayerStarts == P!Init => PlayerInv
<1> SUFFICES ASSUME P!Init PROVE PlayerInv
  OBVIOUS
<1>1. el \in Element /\ el.paused /\ ~el.broken
  <2>1. Loudest \in P!Volume BY InstanceAssumption DEF P!PlayerBounds, P!Volume
  <2> QED BY <2>1 DEF P!Init, P!Stopped, Element
<1>2. /\ state \in Media /\ state.playing = FALSE
      /\ state.volume = el.volume /\ state.muted = el.muted
  BY <1>1 DEF P!Init, Media, Element
<1>3. events = <<>> /\ events \in Seq(Event) /\ Len(events) = 0 BY DEF P!Init
<1>4. PlaysAsTold(el, events, state, swapped)
  <2>1. 1 .. Len(events) = {} BY <1>3
  <2>2. el.paused = TRUE BY <1>1 DEF Element
  <2>3. state.playing = ~el.paused
    <3>1. (~el.paused) \in BOOLEAN /\ ~(~el.paused) BY <2>2
    <3>2. (~el.paused) = FALSE BY <3>1, Zenon
    <3> QED BY <1>2, <3>2, Zenon
  <2> QED BY <2>1, <2>3 DEF PlaysAsTold
<1>5. Told BY <1>2, <1>4 DEF Told, SoundsAsTold
<1>6. ControlFrame /\ HeldLong /\ swapped \in BOOLEAN
  <2>1. /\ visible = TRUE /\ leaked = FALSE /\ swapped = FALSE /\ loose = {}
        /\ held = HideDelay + 1 /\ still = HideDelay
    BY Delays DEF P!Init
  <2>2. ControlFrame
    <3>1. visible \in BOOLEAN /\ leaked \in BOOLEAN BY <2>1, Zenon
    <3>2. HideDelay + 1 \in 0 .. HideDelay + 1 /\ HideDelay \in 0 .. HideDelay BY Delays
    <3> QED BY <2>1, <3>1, <3>2, Zenon DEF ControlFrame
  <2>3. HeldLong BY <2>1, Delays DEF HeldLong
  <2> QED BY <2>1, <2>2, <2>3
<1> QED BY <1>1, <1>2, <1>3, <1>5, <1>6 DEF PlayerInv, PlayerFrame, ControlFrame

LEMMA PlayerKeeps == PlayerInv /\ [P!Next]_(P!vars) => PlayerInv'
<1> SUFFICES ASSUME PlayerInv, [P!Next]_(P!vars) PROVE PlayerInv'
  OBVIOUS
<1> USE DEF PlayerInv
<1>1. CASE P!Listener
  <2>1. el' = el /\ P!Effect(state'.playing) BY <1>1 DEF P!Listener
  <2>2. state' \in Media /\ events' \in Seq(Event) /\ swapped' \in BOOLEAN /\ Told'
    BY <1>1, ListenerTold
  <2>3. state'.playing \in BOOLEAN BY <2>2 DEF Media
  <2>4. ControlFrame' /\ HeldLong' BY <2>1, <2>3, EffectKeeps
  <2>5. el' \in Element BY <2>1 DEF PlayerFrame
  <2> QED BY <2>2, <2>4, <2>5, PlayerFromParts
<1>2. CASE P!HideTimer \/ P!LooseTimer \/ P!Tick
  <2>1. UNCHANGED <<el, events, state, swapped>>
    BY <1>2 DEF P!HideTimer, P!LooseTimer, P!Tick
  <2>2. ControlFrame' /\ HeldLong' BY <1>2, TimersKeep
  <2>3. Told' BY <2>1 DEF Told
  <2> QED BY <2>1, <2>2, <2>3, PlayerFromParts DEF PlayerFrame
<1>3. CASE P!Click \/ P!HandleMediaKey
  <2>1. /\ P!Wake /\ UNCHANGED <<state, swapped>>
        /\ P!TogglePlay \/ P!ToggleMute \/ \E v \in P!Volume : P!SetVolume(v)
    BY <1>3 DEF P!Click, P!HandleMediaKey, P!Control, P!KeySteps
  <2>2. el' \in Element /\ events' \in Seq(Event) /\ Told'
    BY <2>1, PlaysKeeps, SoundKeeps
  <2>3. ControlFrame' /\ HeldLong' BY <2>1, WakeKeeps
  <2> QED BY <2>1, <2>2, <2>3, PlayerFromParts DEF PlayerFrame
<1>4. CASE P!PointerMoves
  <2>1. UNCHANGED <<el, events, state, swapped>> /\ P!Wake BY <1>4 DEF P!PointerMoves
  <2>2. ControlFrame' /\ HeldLong' BY <2>1, WakeKeeps
  <2>3. Told' BY <2>1 DEF Told
  <2> QED BY <2>1, <2>2, <2>3, PlayerFromParts DEF PlayerFrame
<1>5. CASE P!MediaSession \/ P!Buffers \/ P!Ends \/ P!Breaks
  <2>1. UNCHANGED <<state, visible, held, loose, still, leaked, swapped>>
    BY <1>5 DEF P!MediaSession, P!Buffers, P!Ends, P!Breaks, P!timers
  <2>2. el' \in Element /\ events' \in Seq(Event) /\ Told'
    BY <1>5, <2>1, PlaysKeeps, NetworkKeeps DEF P!MediaSession
  <2>3. ControlFrame' /\ HeldLong' BY <2>1 DEF PlayerFrame, ControlFrame, HeldLong
  <2> QED BY <2>1, <2>2, <2>3, PlayerFromParts DEF PlayerFrame
<1>6. CASE P!Swap
  <2>1. /\ UNCHANGED <<events, state, visible, held, loose, still, leaked>>
        /\ swapped' = TRUE /\ events = <<>>
        /\ el' = [el EXCEPT !.paused = TRUE, !.broken = FALSE]
    BY <1>6 DEF P!Swap, P!timers
  <2>2. el' \in Element /\ el'.volume = el.volume /\ el'.muted = el.muted
    BY <2>1 DEF PlayerFrame, Element
  <2>3. Len(events') = 0 BY <2>1
  <2>4. Told' BY <2>1, <2>2, <2>3 DEF Told, PlaysAsTold, SoundsAsTold
  <2>5. ControlFrame' /\ HeldLong' BY <2>1 DEF PlayerFrame, ControlFrame, HeldLong
  <2> QED BY <2>1, <2>2, <2>4, <2>5, PlayerFromParts DEF PlayerFrame
<1>7. CASE UNCHANGED P!vars
  BY <1>7 DEF P!vars, PlayerFrame, Told, HeldLong
<1> QED BY <1>1, <1>2, <1>3, <1>4, <1>5, <1>6, <1>7 DEF P!Next

\* VideoPlayer.tsx:24, useMediaPlayer.ts:59: whatever starts, stops, stalls and is touched,
\* the controls stay for the delay after a touch, and when every event has been told the
\* buttons show what the element does.
THEOREM ControlsTellTheTruth == P!Spec => []ControlsAreTrue
<1>1. PlayerInv => P!ShownWhileTouched
  BY Delays DEF PlayerInv, PlayerFrame, HeldLong, P!ShownWhileTouched, P!Chrome, Media
<1>2. PlayerInv => P!QuietPlayerShowsElement
  <2> SUFFICES ASSUME PlayerInv, events = <<>>, ~swapped, ~el.broken
               PROVE  /\ state.playing = ~el.paused
                      /\ P!Level = (IF el.muted THEN 0 ELSE el.volume)
    BY DEF P!QuietPlayerShowsElement
  <2>1. Len(events) = 0 OBVIOUS
  <2>2. state.playing = ~el.paused
    BY <2>1 DEF PlayerInv, Told, PlaysAsTold, Decisive
  <2>3. state.volume = el.volume /\ state.muted = el.muted
    BY <2>1 DEF PlayerInv, Told, SoundsAsTold
  <2> QED BY <2>2, <2>3 DEF P!Level
<1>3. PlayerInv => ControlsAreTrue BY <1>1, <1>2 DEF ControlsAreTrue
<1>4. P!Spec => []PlayerInv BY PlayerStarts, PlayerKeeps, PTL DEF P!Spec
<1> QED BY <1>3, <1>4, PTL

-----------------------------------------------------------------------------
(* Side by side *)

\* A behaviour is one of the previews, the tokens or the players: each of them behaves as it
\* does alone.
THEOREM EachRuns == RequestsSpec => Spec /\ C!Spec /\ P!Spec
<1>1. RequestsInit => Init /\ C!Init /\ P!Init BY DEF RequestsInit
<1>2. [RequestsNext]_requests => [Next]_vars
  BY DEF RequestsNext, requests, asking, playing, vars
<1>3. [RequestsNext]_requests => [C!Next]_(C!vars)
  BY DEF RequestsNext, requests, asking, playing, C!vars
<1>4. [RequestsNext]_requests => [P!Next]_(P!vars)
  BY DEF RequestsNext, requests, asking, playing, P!vars
<1> QED BY <1>1, <1>2, <1>3, <1>4, PTL DEF RequestsSpec, Spec, C!Spec, P!Spec
=============================================================================
