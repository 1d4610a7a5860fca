----------------------------- MODULE TusUploads -----------------------------
(***************************************************************************)
(* Resumable uploads: the session registry of internal/api/tus.go, the     *)
(* handlers that run on it concurrently, its garbage collector, and the    *)
(* part of the storage tree (internal/storage/local) uploads live in.      *)
(*                                                                         *)
(* A session writes straight into the target file, so a path may be bound  *)
(* to a partial upload, to a finished one, or to a file saved by another   *)
(* handler.  Files are inodes: an open upload keeps writing to its inode   *)
(* after the path has been removed, renamed or replaced.                   *)
(*                                                                         *)
(* The bytes of a file are abstracted to how many there are and whose      *)
(* prefix they are: `by' is the upload whose first `len' bytes the file    *)
(* holds, in order, or Mixed.                                              *)
(***************************************************************************)
EXTENDS Naturals, FiniteSets

CONSTANTS
    Session,   \* upload ids; each is drawn at most once (tusID is random)
    Path,      \* storage paths of regular files
    Req,       \* requests the server handles at the same time
    Saved,     \* inodes the other handlers make, one value per write or copy
    Mover,     \* moves the server handles at the same time
    Sizes,     \* the declared lengths clients ask for, all within maxSize
    Enabled,   \* which of "delete", "save", "remove", "move", "crash" happen
    Absent,    \* nothing is bound to the path
    None,      \* no session, no path, no request
    Mixed      \* bytes of several writers, or out of place

ASSUME SizesAssumption == Sizes \subseteq Nat
ASSUME DistinctAssumption ==
    /\ Absent \notin Session \cup Saved
    /\ Mixed \notin Session \cup Saved
    /\ Session \cap Saved = {}
    /\ None \notin Session \cup Path \cup Req

VARIABLES
    dir,        \* path -> the inode bound to it
    data,       \* inode -> the bytes it holds
    used,       \* inodes allocated so far and session ids drawn so far
    sess,       \* session id -> the session object
    registered, \* ids in the registry's map
    mutex,      \* session id -> the request that holds sess.mu
    req,        \* request -> where its handler stands
    move,       \* mover -> how far Move has come
    complete,   \* uploads whose last PATCH was answered 204 (history)
    overwritten \* uploads into whose file a move has copied another (history)

moving == <<move, overwritten>>
vars == <<dir, data, used, sess, registered, mutex, req, complete, moving>>

Inode == Session \cup Saved

Content == [len : Nat, by : Inode \cup {Mixed}]

SessionObject ==
    [path : Path \cup {None}, size : Nat, ino : Inode \cup {Absent},
     open : BOOLEAN, idle : BOOLEAN]

Pc == {"idle", "remove", "open", "head", "unregister", "abort",
       "lock", "drain", "copy", "commit", "drop"}

Request ==
    [pc : Pc, s : Session \cup {None}, override : BOOLEAN,
     off : Nat, base : Nat, got : Nat]

\* off is the Upload-Offset of the client, base the offset found on disk, got
\* how many bytes of the body have been written.
Idle == [pc |-> "idle", s |-> None, override |-> FALSE,
         off |-> 0, base |-> 0, got |-> 0]

\* Move has found the destination free, or copies inode `in' to inode `out' and
\* has written got bytes.
Resting == [at |-> "idle"]
Move ==
    {Resting}
    \cup [at : {"found"}, from : Path, to : Path]
    \cup [at : {"copy"}, from : Path, to : Path, in : Inode, out : Inode, got : Nat]

TypeOK ==
    /\ dir \in [Path -> Inode \cup {Absent}]
    /\ data \in [Inode -> Content]
    /\ used \subseteq Inode
    /\ sess \in [Session -> SessionObject]
    /\ registered \subseteq Session
    /\ mutex \in [Session -> Req \cup {None}]
    /\ req \in [Req -> Request]
    /\ move \in [Mover -> Move]
    /\ complete \subseteq Session
    /\ overwritten \subseteq Session

Init ==
    /\ dir = [p \in Path |-> Absent]
    /\ data = [i \in Inode |-> [len |-> 0, by |-> i]]
    /\ used = {}
    /\ sess = [s \in Session |-> [path |-> None, size |-> 0, ino |-> Absent,
                                  open |-> FALSE, idle |-> FALSE]]
    /\ registered = {}
    /\ mutex = [s \in Session |-> None]
    /\ req = [r \in Req |-> Idle]
    /\ move = [m \in Mover |-> Resting]
    /\ complete = {}
    /\ overwritten = {}

-----------------------------------------------------------------------------
(* Helpers *)

\* os.Remove and os.RemoveAll work on the path, whatever is bound to it now.
Unlink(p) == dir' = [dir EXCEPT ![p] = Absent]

\* upload.WriteAt: k bytes of upload s, taken from position src of the client's
\* file, land at position `at' of inode i.  They extend the prefix of s exactly
\* when they are the bytes that belong there and leave no hole before them.
WriteAt(i, s, at, src, k) ==
    LET d     == data[i]
        clean == /\ src = at
                 /\ at <= d.len
                 /\ d.by = s \/ (at = 0 /\ k >= d.len)
    IN  data' = [data EXCEPT ![i] =
                    [len |-> IF at + k > d.len THEN at + k ELSE d.len,
                     by  |-> IF clean THEN s ELSE Mixed]]

\* tusRegistry.get refreshes lastUsed, so the session is not idle any more.
Get(s) ==
    /\ s \in registered
    /\ sess' = [sess EXCEPT ![s].idle = FALSE]

\* The handler of r returns; `defer sess.mu.Unlock()' runs if it held it.
Answer(r) == req' = [req EXCEPT ![r] = Idle]
Unlock(s) == mutex' = [mutex EXCEPT ![s] = None]

At(r, pc) == req[r].pc = pc

-----------------------------------------------------------------------------
(* POST /api/tus: handleTusCreate.  Requests that canWrite refuses, whose   *)
(* target is missing or whose length exceeds maxSize change nothing.        *)

\* Stat of the target decides between 409, override and a fresh file.  Without
\* override an existing target is answered 409 and nothing changes.  (The id is
\* drawn and the session object begun here rather than after StartUpload; nobody
\* knows it before the 201.)
CreateStat(r, s, p, n, override) ==
    /\ At(r, "idle")
    /\ s \notin used
    /\ dir[p] = Absent \/ override
    /\ used' = used \cup {s}
    /\ sess' = [sess EXCEPT ![s].path = p, ![s].size = n]
    /\ req' = [req EXCEPT ![r] = [Idle EXCEPT
                  !.pc = IF dir[p] = Absent THEN "open" ELSE "remove",
                  !.s = s, !.override = override]]
    /\ UNCHANGED <<dir, data, registered, mutex, complete, moving>>

\* The authorized override removes the existing target first.
CreateRemove(r) ==
    /\ At(r, "remove")
    /\ Unlink(sess[req[r].s].path)
    /\ req' = [req EXCEPT ![r].pc = "open"]
    /\ UNCHANGED <<data, used, sess, registered, mutex, complete, moving>>

\* StartUpload opens with O_CREATE|O_TRUNC and without O_EXCL: a file that has
\* appeared since the Stat is truncated and shared.  Then tus.add and 201.
CreateOpen(r) ==
    LET s == req[r].s
        p == sess[s].path
        i == IF dir[p] = Absent THEN s ELSE dir[p]
    IN  /\ At(r, "open")
        /\ dir' = [dir EXCEPT ![p] = i]
        /\ data' = [data EXCEPT ![i] = [len |-> 0, by |-> i]]
        /\ sess' = [sess EXCEPT ![s].ino = i, ![s].open = TRUE, ![s].idle = FALSE]
        /\ registered' = registered \cup {s}
        /\ Answer(r)
        /\ UNCHANGED <<used, mutex, complete, moving>>

-----------------------------------------------------------------------------
(* HEAD /api/tus/{id}: handleTusHead.  An unknown id is answered 404.       *)

HeadGet(r, s) ==
    /\ At(r, "idle")
    /\ Get(s)
    /\ req' = [req EXCEPT ![r] = [Idle EXCEPT !.pc = "head", !.s = s]]
    /\ UNCHANGED <<dir, data, used, registered, mutex, complete, moving>>

\* Under sess.mu: report the size of the inode, or fail on a closed handle.
HeadOffset(r) ==
    /\ At(r, "head")
    /\ mutex[req[r].s] = None
    /\ Answer(r)
    /\ UNCHANGED <<dir, data, used, sess, registered, mutex, complete, moving>>

-----------------------------------------------------------------------------
(* DELETE /api/tus/{id}: handleTusDelete                                    *)

DeleteGet(r, s) ==
    /\ "delete" \in Enabled
    /\ At(r, "idle")
    /\ Get(s)
    /\ req' = [req EXCEPT ![r] = [Idle EXCEPT !.pc = "unregister", !.s = s]]
    /\ UNCHANGED <<dir, data, used, registered, mutex, complete, moving>>

DeleteUnregister(r) ==
    /\ At(r, "unregister")
    /\ registered' = registered \ {req[r].s}
    /\ req' = [req EXCEPT ![r].pc = "abort"]
    /\ UNCHANGED <<dir, data, used, sess, mutex, complete, moving>>

\* Slip for AnsweredWhileBound: Abort does not wait for sess.mu.
SlipDeleteAbort(r) ==
    /\ At(r, "abort")
    /\ sess' = [sess EXCEPT ![req[r].s].open = FALSE]
    /\ Unlink(sess[req[r].s].path)
    /\ Answer(r)
    /\ UNCHANGED <<data, used, registered, mutex, complete, moving>>

\* Abort waits for sess.mu, closes the handle and removes the path; a path that
\* is already gone is not an error.
DeleteAbort(r) ==
    LET s == req[r].s
    IN  /\ At(r, "abort")
        /\ mutex[s] = None
        /\ sess' = [sess EXCEPT ![s].open = FALSE]
        /\ Unlink(sess[s].path)
        /\ Answer(r)
        /\ UNCHANGED <<data, used, registered, mutex, complete, moving>>

-----------------------------------------------------------------------------
(* PATCH /api/tus/{id}: handleTusPatch.  The session pointer is taken from  *)
(* the registry first; everything after runs under sess.mu only.            *)

PatchGet(r, s, off) ==
    /\ At(r, "idle")
    /\ Get(s)
    /\ req' = [req EXCEPT ![r] = [Idle EXCEPT !.pc = "lock", !.s = s, !.off = off]]
    /\ UNCHANGED <<dir, data, used, registered, mutex, complete, moving>>

\* Slip for UploadIsPrefix: the client's offset is not compared.
SlipAcceptable(r) ==
    LET s == req[r].s IN sess[s].open /\ data[sess[s].ino].len < sess[s].size

\* The offset the client declares must be the size of the file on disk, and the
\* upload must not have all its bytes already.
Acceptable(r) ==
    LET s == req[r].s
    IN  /\ sess[s].open
        /\ req[r].off = data[sess[s].ino].len
        /\ req[r].off < sess[s].size

PatchLock(r) ==
    /\ At(r, "lock")
    /\ mutex[req[r].s] = None
    /\ \/ /\ Acceptable(r)
          /\ mutex' = [mutex EXCEPT ![req[r].s] = r]
          /\ req' = [req EXCEPT ![r].pc = "copy",
                                 ![r].base = data[sess[req[r].s].ino].len,
                                 ![r].got = 0]
       \/ /\ ~Acceptable(r)                     \* 500, 409 or 400
          /\ mutex' = [mutex EXCEPT ![req[r].s] = r]
          /\ req' = [req EXCEPT ![r].pc = "drain"]
    /\ UNCHANGED <<dir, data, used, sess, registered, complete, moving>>

Remaining(r) == sess[req[r].s].size - req[r].base

\* copyTusBody reads a piece of the body and writes it behind what it has
\* written so far.  Bytes beyond the declared length are cut off.
PatchWrite(r) ==
    /\ At(r, "copy")
    /\ sess[req[r].s].open
    /\ \E k \in 1 .. Remaining(r) - req[r].got :
        LET s == req[r].s
        IN  /\ WriteAt(sess[s].ino, s, req[r].base + req[r].got, req[r].off + req[r].got, k)
            /\ req' = [req EXCEPT ![r].got = @ + k]
    /\ UNCHANGED <<dir, used, sess, registered, mutex, complete, moving>>

\* The body breaks off, or the handle was closed by the collector: the request
\* fails and the bytes written so far stay.
PatchFail(r) ==
    /\ At(r, "copy")
    /\ req[r].got < Remaining(r)
    /\ req' = [req EXCEPT ![r].pc = "drain"]
    /\ UNCHANGED <<dir, data, used, sess, registered, mutex, complete, moving>>

\* Slip for EverythingEnds: the lock is not released on the way of an error.
SlipPatchRefuse(r) ==
    /\ At(r, "drain")
    /\ Answer(r)
    /\ UNCHANGED <<dir, data, used, sess, registered, mutex, complete, moving>>

\* drainTusBody reads what the client still sends, under the lock; then the
\* error is answered.
PatchRefuse(r) ==
    /\ At(r, "drain")
    /\ Unlock(req[r].s)
    /\ Answer(r)
    /\ UNCHANGED <<dir, data, used, sess, registered, complete, moving>>

\* Slip for CompleteIsWhole: a body that ends early completes the upload, too.
SlipPatchEnd(r) ==
    /\ At(r, "copy")
    /\ req' = [req EXCEPT ![r].pc = "commit"]
    /\ UNCHANGED <<dir, data, used, sess, registered, mutex, complete, moving>>

\* The body ends, or all declared bytes are there.  A short body is answered 204
\* with the new offset; a full one goes on to Commit.
PatchEnd(r) ==
    /\ At(r, "copy")
    /\ \/ /\ req[r].got < Remaining(r)
          /\ Unlock(req[r].s)
          /\ Answer(r)
       \/ /\ req[r].got = Remaining(r)
          /\ req' = [req EXCEPT ![r].pc = "commit"]
          /\ UNCHANGED mutex
    /\ UNCHANGED <<dir, data, used, sess, registered, complete, moving>>

\* Commit flushes and closes.  When that fails (the handle was closed, or Sync
\* reports an error) the handle is closed all the same, the answer is an error
\* and the session stays registered.
PatchCommit(r) ==
    LET s == req[r].s
    IN  /\ At(r, "commit")
        /\ \/ /\ sess[s].open
              /\ req' = [req EXCEPT ![r].pc = "drop"]
              /\ UNCHANGED mutex
           \/ /\ Unlock(s)
              /\ Answer(r)
        /\ sess' = [sess EXCEPT ![s].open = FALSE]
        /\ UNCHANGED <<dir, data, used, registered, complete, moving>>

\* The session leaves the registry and the client is told 204.
PatchDrop(r) ==
    LET s == req[r].s
    IN  /\ At(r, "drop")
        /\ registered' = registered \ {s}
        /\ complete' = complete \cup {s}
        /\ Unlock(s)
        /\ Answer(r)
        /\ UNCHANGED <<dir, data, used, sess, moving>>

-----------------------------------------------------------------------------
(* The collector: gcLoop, gcOnce                                            *)

\* Three hours pass without a registry.get of s.  lastUsed is set by get alone,
\* so this happens under a running request, too, if that one takes as long.
Expire(s) ==
    /\ s \in registered
    /\ ~sess[s].idle
    /\ sess' = [sess EXCEPT ![s].idle = TRUE]
    /\ UNCHANGED <<dir, data, used, registered, mutex, req, complete, moving>>

Abandoned == {s \in registered : sess[s].idle}

\* Slip for AbandonedVanishes: sessions are dropped without Abort.
SlipCollectDrop ==
    /\ Abandoned # {}
    /\ registered' = registered \ Abandoned
    /\ UNCHANGED <<dir, data, used, sess, mutex, req, complete, moving>>

\* gcOnce holds the registry lock, but no session lock, over all its aborts.
Collect ==
    /\ Abandoned # {}
    /\ dir' = [p \in Path |-> IF \E s \in Abandoned : sess[s].path = p
                              THEN Absent ELSE dir[p]]
    /\ sess' = [s \in Session |-> IF s \in Abandoned
                                  THEN [sess[s] EXCEPT !.open = FALSE] ELSE sess[s]]
    /\ registered' = registered \ Abandoned
    /\ UNCHANGED <<data, used, mutex, req, complete, moving>>

-----------------------------------------------------------------------------
(* Other handlers on the same tree, and restarts                            *)

\* handleSave, handleCreateFile: a new inode is renamed or created into place.
SaveFile(p, f) ==
    /\ "save" \in Enabled
    /\ f \notin used
    /\ used' = used \cup {f}
    /\ dir' = [dir EXCEPT ![p] = f]
    /\ data' = [data EXCEPT ![f] = [len |-> 1, by |-> f]]
    /\ UNCHANGED <<sess, registered, mutex, req, complete, moving>>

\* handleDelete
RemoveFile(p) ==
    /\ "remove" \in Enabled
    /\ dir[p] # Absent
    /\ Unlink(p)
    /\ UNCHANGED <<data, used, sess, registered, mutex, req, complete, moving>>

\* Move and no other handler is at this step of it.
Moving(m, at) == "move" \in Enabled /\ move[m].at = at

Rest(m) == move' = [move EXCEPT ![m] = Resting]

\* Uploads that write to inode i.
Writers(i) == {s \in Session : sess[s].ino = i}

\* Lstat: the destination must not exist.
MoveCheck(m, p, q) ==
    /\ Moving(m, "idle")
    /\ p # q
    /\ dir[q] = Absent
    /\ move' = [move EXCEPT ![m] = [at |-> "found", from |-> p, to |-> q]]
    /\ UNCHANGED <<dir, data, used, sess, registered, mutex, req, complete, overwritten>>

\* On one device the inode keeps its identity, and replaces what has appeared at
\* the destination since.  A source that is gone fails the move.
MoveRename(m) ==
    LET v == move[m]
    IN  /\ Moving(m, "found")
        /\ IF dir[v.from] = Absent
           THEN UNCHANGED dir
           ELSE dir' = [dir EXCEPT ![v.from] = Absent, ![v.to] = dir[v.from]]
        /\ Rest(m)
        /\ UNCHANGED <<data, used, sess, registered, mutex, req, complete, overwritten>>

\* Across devices copyFile opens the destination i with O_CREATE|O_TRUNC: a file
\* that has appeared since the Lstat, an upload among them, is emptied.
MoveOpen(m, i) ==
    LET v == move[m]
    IN  /\ Moving(m, "found")
        /\ dir[v.from] # Absent
        /\ IF dir[v.to] = Absent THEN i \in Saved \ used ELSE i = dir[v.to]
        /\ dir' = [dir EXCEPT ![v.to] = i]
        /\ data' = [data EXCEPT ![i] = [len |-> 0, by |-> i]]
        /\ used' = used \cup {i}
        /\ overwritten' = overwritten \cup Writers(i)
        /\ move' = [move EXCEPT ![m] = [at |-> "copy", from |-> v.from, to |-> v.to,
                                        in |-> dir[v.from], out |-> i, got |-> 0]]
        /\ UNCHANGED <<sess, registered, mutex, req, complete>>

\* io.Copy writes to the inode it has opened, whoever else writes to it by now.
MoveCopy(m) ==
    LET v == move[m]
    IN  /\ Moving(m, "copy")
        /\ \E k \in 1 .. data[v.in].len - v.got :
              /\ WriteAt(v.out, data[v.in].by, v.got, v.got, k)
              /\ move' = [move EXCEPT ![m] = [v EXCEPT !.got = v.got + k]]
        /\ overwritten' = overwritten \cup Writers(v.out)
        /\ UNCHANGED <<dir, used, sess, registered, mutex, req, complete>>

\* At the end of the source RemoveAll takes what is at its path now; if it fails
\* both stay.
MoveDrop(m) ==
    /\ Moving(m, "copy")
    /\ move[m].got >= data[move[m].in].len
    /\ Unlink(move[m].from) \/ UNCHANGED dir
    /\ Rest(m)
    /\ UNCHANGED <<data, used, sess, registered, mutex, req, complete, overwritten>>

\* Any error of the copy, a source that is gone among them, is answered after a
\* RemoveAll of the destination, whose own error is ignored.
MoveFail(m) ==
    /\ Moving(m, "found") \/ Moving(m, "copy")
    /\ Unlink(move[m].to) \/ UNCHANGED dir
    /\ Rest(m)
    /\ UNCHANGED <<data, used, sess, registered, mutex, req, complete, overwritten>>

\* The process stops and starts again: sessions live in memory only.
Crash ==
    /\ "crash" \in Enabled
    /\ registered' = {}
    /\ sess' = [s \in Session |-> [sess[s] EXCEPT !.open = FALSE]]
    /\ mutex' = [s \in Session |-> None]
    /\ req' = [r \in Req |-> Idle]
    /\ move' = [m \in Mover |-> Resting]
    /\ UNCHANGED <<dir, data, used, complete, overwritten>>

-----------------------------------------------------------------------------
\* A handler moves on by itself once it has been called ...
Continue(r) ==
    \/ CreateRemove(r)
    \/ CreateOpen(r)
    \/ HeadOffset(r)
    \/ DeleteUnregister(r)
    \/ DeleteAbort(r)
    \/ PatchLock(r)
    \/ PatchWrite(r)
    \/ PatchFail(r)
    \/ PatchRefuse(r)
    \/ PatchEnd(r)
    \/ PatchCommit(r)
    \/ PatchDrop(r)

\* ... which clients do as they please.
Call(r) ==
    \/ \E s \in Session :
        \/ \E p \in Path, n \in Sizes, override \in BOOLEAN :
                CreateStat(r, s, p, n, override)
        \/ HeadGet(r, s)
        \/ DeleteGet(r, s)
        \/ \E off \in UNION {0 .. n : n \in Sizes} : PatchGet(r, s, off)

MoveNext(m) ==
    \/ \E p, q \in Path : MoveCheck(m, p, q)
    \/ MoveRename(m)
    \/ \E i \in Inode : MoveOpen(m, i)
    \/ MoveCopy(m)
    \/ MoveDrop(m)
    \/ MoveFail(m)

Next ==
    \/ \E r \in Req : Call(r) \/ Continue(r)
    \/ \E s \in Session : Expire(s)
    \/ Collect
    \/ \E p \in Path, f \in Saved : SaveFile(p, f)
    \/ \E p \in Path : RemoveFile(p)
    \/ \E m \in Mover : MoveNext(m)
    \/ Crash

Spec == Init /\ [][Next]_vars

\* The handler reads the body and waits for the client.  Nothing ends the wait:
\* server.go:300 bounds the headers and idle connections, not a body.
Waits(r) == At(r, "drain") \/ (At(r, "copy") /\ req[r].got < Remaining(r))

\* Handlers run on except where they wait for a client, who may never send
\* another byte; sync.Mutex hands the lock to a starving waiter; the ticker of
\* gcLoop keeps firing and time passes.
Fairness ==
    /\ \A r \in Req : SF_vars(~Waits(r) /\ Continue(r))
    /\ \A s \in Session : WF_vars(Expire(s))
    /\ WF_vars(Collect)

FairSpec == Spec /\ Fairness

-----------------------------------------------------------------------------
(* Safety *)

\* No other session was ever bound to the same inode, or aimed at the same path.
AloneOnInode(s) == \A u \in Session \ {s} : sess[u].ino # sess[s].ino
AloneOnPath(s)  == \A u \in Session \ {s} : sess[u].path # sess[s].path

\* No other session writes to its file, and no move has copied another file into it.
Undisturbed(s) == AloneOnInode(s) /\ s \notin overwritten

\* The bytes on disk of an undisturbed upload are always a prefix of the client's
\* file, in order, without a hole and never longer than the declared length,
\* whatever offsets clients send, however their PATCHes overlap, break off or are
\* repeated (handleTusPatch, copyTusBody), and whatever is saved, removed or moved
\* over, from or to its path.  A move across devices that found the path free
\* before the upload was opened there does disturb it (local.go:657, 819).
UploadIsPrefix ==
    \A s \in Session :
        sess[s].ino # Absent /\ Undisturbed(s) =>
            LET d == data[sess[s].ino]
            IN  d.len <= sess[s].size /\ (d.len = 0 \/ d.by = s)

\* Once the last PATCH of an undisturbed upload is answered 204 the file holds the
\* client's file, all of it, and no late request of the session changes it again.
CompleteIsWhole ==
    \A s \in complete :
        Undisturbed(s) =>
            data[sess[s].ino].len = sess[s].size /\ data[sess[s].ino].by = s

\* A finished upload is out of reach of the registry: neither the collector nor
\* a later DELETE can find it and abort it (handleTusPatch, last lines).
CompleteLeavesRegistry == complete \cap registered = {}

\* When the last PATCH of an upload is answered 204 its file is at its path,
\* however DELETE and the collector interleave with it, as long as no other
\* handler or session works on the path and the time to live was not up before
\* the answer.
AnsweredWhileBound ==
    [][\A s \in complete' \ complete :
            AloneOnPath(s) /\ ~sess[s].idle => dir'[sess[s].path] = sess[s].ino]_vars

-----------------------------------------------------------------------------
(* Liveness *)

\* A request that is never answered has a body that stalls, its own or that of the
\* request that holds the lock of its session: no other path through a handler
\* keeps the lock, and no session is held up by another.
RequestsAnswered ==
    \A r \in Req :
        <>[]~At(r, "idle") => <>[](\E q \in Req : Waits(q) /\ req[q].s = req[r].s)

\* From some time on no request touches session s.
LeftAlone(s) == \A r \in Req : req[r].s # s

\* An upload its client gives up leaves the registry in the end.
AbandonedCollected ==
    \A s \in Session : <>[]LeftAlone(s) => <>[](s \notin registered)

\* tus.go:51: abandoned partials are garbage: when all clients have gone away,
\* no partial upload remains in the tree.
PartialsVanish ==
    (\A s \in Session : <>[]LeftAlone(s)) =>
        <>[](\A p \in Path : dir[p] \in Session => dir[p] \in complete)
=============================================================================
