------------------------------ MODULE Previews ------------------------------
(***************************************************************************)
(* Previews of one image (internal/api/thumbs.go): rendered on demand into *)
(* the cache directory and served from there.                              *)
(*                                                                         *)
(* A preview is written in pieces to a temporary file next to its place in *)
(* the cache and renamed.  The temporary name depends on the place alone,  *)
(* so that requests for the same preview write to the same file: inode     *)
(* says what is in a file, tmp and cache which file a name leads to.       *)
(***************************************************************************)
EXTENDS Naturals, FiniteSets

CONSTANTS
    Req,        \* requests for the preview
    MaxDecodes, \* capacity of decodeSem
    MaxEdits,   \* bound: how often the image is replaced
    MaxInode,   \* bound: files of the cache directory
    MaxElsewhere, \* bound: other images rendered at the same time
    Enabled     \* which of "edit", "corrupt", "diskfull", "restart" happen

ASSUME BoundsAssumption ==
    /\ MaxDecodes \in Nat \ {0}
    /\ MaxEdits \in Nat
    /\ MaxInode \in Nat
    /\ MaxElsewhere \in Nat

ASSUME ReqAssumption == IsFiniteSet(Req)

Version == 1 .. MaxEdits + 1
Piece == 1 .. 2
Inode == 1 .. MaxInode

\* Modification time in seconds, and size: an edit need not change them.
Stamp == 1 .. MaxEdits + 1

VARIABLES
    image, \* the version of the image and its stamp
    inode, \* file -> piece -> the version it shows, 0 for a gap
    tmp,   \* stamp -> the file under the temporary name, or 0
    cache, \* stamp -> the file under the name in the cache, or 0
    sem,   \* slots of decodeSem that are taken
    elsewhere, \* slots of decodeSem taken for previews of other images
    req,   \* request -> where it is
    shared \* stamps for which two requests have written at once (history)

vars == <<image, inode, tmp, cache, sem, elsewhere, req, shared>>

Pc == {"idle", "look", "wait", "decode", "create", "write", "rename", "open"}

\* stamp is what Stat returned, ver the version decoded, file the file written to.
Request == [pc : Pc, stamp : Stamp, ver : Version \cup {0},
            file : Inode \cup {0}, todo : SUBSET Piece]

Idle == [pc |-> "idle", stamp |-> 1, ver |-> 0, file |-> 0, todo |-> {}]

Gap == [p \in Piece |-> 0]

TypeOK ==
    /\ image \in [ver : Version, stamp : Stamp]
    /\ inode \in [Inode -> [Piece -> Version \cup {0}]]
    /\ tmp \in [Stamp -> Inode \cup {0}]
    /\ cache \in [Stamp -> Inode \cup {0}]
    /\ sem \in 0 .. MaxDecodes
    /\ elsewhere \in 0 .. MaxElsewhere
    /\ req \in [Req -> Request]
    /\ shared \subseteq Stamp

Init ==
    /\ image = [ver |-> 1, stamp |-> 1]
    /\ inode = [f \in Inode |-> Gap]
    /\ tmp = [s \in Stamp |-> 0]
    /\ cache = [s \in Stamp |-> 0]
    /\ sem = 0
    /\ elsewhere = 0
    /\ req = [r \in Req |-> Idle]
    /\ shared = {}

FirstOf(todo) == IF 1 \in todo THEN 1 ELSE 2

Go(r, pc) == req' = [req EXCEPT ![r].pc = pc]
Answer(r) == req' = [req EXCEPT ![r] = Idle]
Stay == UNCHANGED <<image, inode, tmp, cache, sem, elsewhere, shared>>

Used == {tmp[s] : s \in Stamp} \cup {cache[s] : s \in Stamp} \cup {req[r].file : r \in Req}

\* A file without a name that nobody has open any more is gone.
Recycle == inode' = [f \in Inode |-> IF f \in Used' THEN inode[f] ELSE Gap]

-----------------------------------------------------------------------------
(* servePreview                                                             *)

Stat(r) ==
    /\ req[r].pc = "idle"
    /\ req' = [req EXCEPT ![r].pc = "look", ![r].stamp = image.stamp]
    /\ Stay

\* os.Stat of the place in the cache.
Look(r) ==
    /\ req[r].pc = "look"
    /\ Go(r, IF cache[req[r].stamp] # 0 THEN "open" ELSE "wait")
    /\ Stay

\* A file that is in its place is sent as it is.
Open(r) ==
    /\ req[r].pc = "open"
    /\ Answer(r)
    /\ Stay

-----------------------------------------------------------------------------
(* renderPreview                                                            *)

Acquire(r) ==
    /\ req[r].pc = "wait"
    /\ sem < MaxDecodes
    /\ sem' = sem + 1
    /\ Go(r, "decode")
    /\ UNCHANGED <<image, inode, tmp, cache, elsewhere, shared>>

\* The image is read as it is now, which may be newer than its stamp.
Decode(r) ==
    /\ req[r].pc = "decode"
    /\ req' = [req EXCEPT ![r].pc = "create", ![r].ver = image.ver]
    /\ Stay

\* renderPreview fails: the slot is free and the original is served.
Give(r) ==
    /\ Answer(r)
    /\ sem' = sem - 1

\* Slip for SlotsAreHeld: an early return keeps the slot.
SlipCorrupt(r) ==
    /\ "corrupt" \in Enabled
    /\ req[r].pc = "decode"
    /\ Answer(r)
    /\ Stay

\* The image cannot be decoded, or is gone.
Corrupt(r) ==
    /\ "corrupt" \in Enabled
    /\ req[r].pc = "decode"
    /\ Give(r)
    /\ UNCHANGED <<image, inode, tmp, cache, elsewhere, shared>>

\* os.Create: the file under the name is truncated, by whomever it was created.
\* Bound: there is an inode left.
Create(r) ==
    /\ req[r].pc = "create"
    /\ LET s == req[r].stamp
           f == IF tmp[s] # 0 THEN tmp[s] ELSE CHOOSE x \in Inode \ Used : TRUE
       IN  /\ tmp[s] # 0 \/ Inode \ Used # {}
           /\ inode' = [inode EXCEPT ![f] = Gap]
           /\ tmp' = [tmp EXCEPT ![s] = f]
           /\ req' = [req EXCEPT ![r].pc = "write", ![r].file = f, ![r].todo = Piece]
           /\ shared' = IF \E q \in Req : req[q].stamp = s /\ req[q].pc \in {"write", "rename"}
                        THEN shared \cup {s} ELSE shared
    /\ UNCHANGED <<image, cache, sem, elsewhere>>

\* Slip for ServedWhole: an error of jpeg.Encode is ignored.
SlipWrite(r) ==
    /\ req[r].pc = "write"
    /\ LET p == FirstOf(req[r].todo)
       IN  /\ inode' = [inode EXCEPT ![req[r].file][p] = req[r].ver]
           /\ \E pc \in {"write", "rename"} :
                /\ req[r].todo = {p} => pc = "rename"
                /\ req' = [req EXCEPT ![r].todo = @ \ {p}, ![r].pc = pc]
    /\ UNCHANGED <<image, tmp, cache, sem, elsewhere, shared>>

\* jpeg.Encode writes the next piece, at the place the request has come to.
Write(r) ==
    /\ req[r].pc = "write"
    /\ LET p == FirstOf(req[r].todo)
       IN  /\ inode' = [inode EXCEPT ![req[r].file][p] = req[r].ver]
           /\ req' = [req EXCEPT ![r].todo = @ \ {p},
                                 ![r].pc = IF req[r].todo = {p} THEN "rename" ELSE "write"]
    /\ UNCHANGED <<image, tmp, cache, sem, elsewhere, shared>>

\* Writing fails: whatever is under the temporary name by now is removed.
DiskFull(r) ==
    /\ "diskfull" \in Enabled
    /\ req[r].pc = "write"
    /\ tmp' = [tmp EXCEPT ![req[r].stamp] = 0]
    /\ Give(r)
    /\ UNCHANGED <<image, cache, elsewhere, shared>>
    /\ Recycle

\* Whatever is under the temporary name by now is put in place.
Rename(r) ==
    LET s == req[r].stamp
    IN  /\ req[r].pc = "rename"
        /\ tmp[s] # 0
        /\ cache' = [cache EXCEPT ![s] = tmp[s]]
        /\ tmp' = [tmp EXCEPT ![s] = 0]
        /\ sem' = sem - 1
        /\ req' = [req EXCEPT ![r].pc = "open", ![r].ver = 0, ![r].file = 0]
        /\ UNCHANGED <<image, elsewhere, shared>>
        /\ Recycle

\* Another request has renamed or removed it.
RenameFails(r) ==
    /\ req[r].pc = "rename"
    /\ tmp[req[r].stamp] = 0
    /\ Give(r)
    /\ UNCHANGED <<image, tmp, cache, elsewhere, shared>>
    /\ Recycle

\* The previews of all images share the semaphore.
AcquireElsewhere ==
    /\ sem < MaxDecodes
    /\ elsewhere < MaxElsewhere
    /\ sem' = sem + 1
    /\ elsewhere' = elsewhere + 1
    /\ UNCHANGED <<image, inode, tmp, cache, req, shared>>

ReleaseElsewhere ==
    /\ elsewhere > 0
    /\ sem' = sem - 1
    /\ elsewhere' = elsewhere - 1
    /\ UNCHANGED <<image, inode, tmp, cache, req, shared>>

-----------------------------------------------------------------------------
(* The image and the server *)

\* A save puts another file in the place of the image, in the same second or later.
Edit ==
    /\ "edit" \in Enabled
    /\ image.ver <= MaxEdits
    /\ \E s \in {image.stamp, image.stamp + 1} :
        image' = [ver |-> image.ver + 1, stamp |-> s]
    /\ UNCHANGED <<inode, tmp, cache, sem, elsewhere, req, shared>>

\* The server stops at any point and is started again on the same cache.
Restart ==
    /\ "restart" \in Enabled
    /\ sem' = 0
    /\ elsewhere' = 0
    /\ req' = [r \in Req |-> Idle]
    /\ UNCHANGED <<image, tmp, cache, shared>>
    /\ Recycle

-----------------------------------------------------------------------------
Render(r) ==
    \/ Decode(r) \/ Corrupt(r) \/ Create(r) \/ Write(r) \/ DiskFull(r)
    \/ Rename(r) \/ RenameFails(r)

Next ==
    \/ \E r \in Req : Stat(r) \/ Look(r) \/ Open(r) \/ Acquire(r) \/ Render(r)
    \/ AcquireElsewhere
    \/ ReleaseElsewhere
    \/ Edit
    \/ Restart

Spec == Init /\ [][Next]_vars

\* Handlers run on; senders on a channel are served in the order they came.
Fairness ==
    /\ \A r \in Req : /\ WF_vars(Look(r)) /\ WF_vars(Open(r)) /\ WF_vars(Render(r))
                      /\ SF_vars(Acquire(r))
    /\ WF_vars(ReleaseElsewhere)

FairSpec == Spec /\ Fairness

-----------------------------------------------------------------------------
(* Properties *)

Whole(f) == \E v \in Version : inode[f] = [p \in Piece |-> v]

\* thumbs.go:28: a slot is taken exactly by the requests that render: every way out
\* of renderPreview gives it back, and the number of decodes is bounded.
SlotsAreHeld ==
    sem = elsewhere + Cardinality({r \in Req : req[r].pc \in {"decode", "create", "write", "rename"}})

\* thumbs.go:54: what is served from the cache is a preview of the image, not the
\* beginning of one or parts of two, whatever the disk, the server and the image
\* do in between; unless two requests have ever written the preview at once, for
\* they truncate, write and rename one temporary file (thumbs.go:162).
ServedWhole ==
    [][\A r \in Req : Open(r) => Whole(cache[req[r].stamp]) \/ req[r].stamp \in shared]_vars

\* thumbs.go:135: every request for a preview is answered, also when previews fail
\* or the requests remove each other's temporary file (or the server is stopped).
EveryRequestAnswered ==
    \A r \in Req : []<>(req[r].pc = "idle")
=============================================================================
