---------------------------- MODULE ParallelWalk ----------------------------
(***************************************************************************)
(* The walk below a directory (internal/storage/local/local.go, walkDir):  *)
(* breadth first, the directories of a level shared out among workers that *)
(* call the caller's function one at a time.                               *)
(*                                                                         *)
(* Entries are numbered in the order in which a directory lists them.  The *)
(* tree does not change under the walk, except that entries can disappear. *)
(***************************************************************************)
EXTENDS Naturals, Sequences, FiniteSets, Functions

CONSTANTS
    Parent,     \* entry -> the directory it is in, 0 for the root of the walk
    Dirs,       \* the entries that are directories, or links to one
    Matches,    \* the entries that match the search options
    Noise,      \* directories a search does not descend into
    Limit,      \* opts.Limit, 0 for none
    NumWorkers, \* numWorkers
    Answers,    \* what the caller's function may return
    Enabled     \* which of "cancel", "vanish" happen

Entry == DOMAIN Parent

TreeBounds ==
    /\ Parent \in Seq(Nat)
    /\ \A e \in Entry : Parent[e] \in (Dirs \cup {0}) /\ Parent[e] < e
    /\ Dirs \subseteq Entry /\ Matches \subseteq Entry /\ Noise \subseteq Dirs

WalkBounds ==
    /\ Limit \in Nat
    /\ NumWorkers \in Nat \ {0}
    /\ Answers \subseteq {"ok", "error", "done"}

VARIABLES
    queue,   \* the directories of this level
    taken,   \* taskIdx: how many of them were handed out
    inside,  \* a level is being walked
    worker,  \* worker -> what it is doing
    stop,    \* limitReached
    left,    \* calls the limit leaves
    err,     \* firstErr is set
    log,     \* the entries the function was called with (history)
    missed,  \* entries that were not found (history)
    why,     \* reasons to stop; "cancel" is ctx.Err() (others: history)
    result   \* "running", or what Walk returned

vars == <<queue, taken, inside, worker, stop, left, err, log, missed, why, result>>

Worker == 1 .. NumWorkers
Pc == {"out", "take", "scan", "call", "refused"}

\* todo are the entries of its task still to be looked at, answer what the
\* function said, next the directories it found for the next level.
Task == [pc : Pc, todo : SUBSET Entry, answer : Answers \cup {"ok"}, next : Seq(Dirs)]
Out == [pc |-> "out", todo |-> {}, answer |-> "ok", next |-> <<>>]

TypeOK ==
    /\ queue \in Seq(Dirs \cup {0})
    /\ taken \in Nat
    /\ inside \in BOOLEAN
    /\ worker \in [Worker -> Task]
    /\ stop \in BOOLEAN
    /\ left \in Nat
    /\ err \in BOOLEAN
    /\ log \in Seq(Entry)
    /\ missed \subseteq Entry
    /\ why \subseteq {"error", "done", "cancel"}
    /\ result \in {"running", "ok", "error", "canceled"}

Init ==
    /\ queue = <<0>>
    /\ taken = 0
    /\ inside = FALSE
    /\ worker = [w \in Worker |-> Out]
    /\ stop = FALSE
    /\ left = Limit
    /\ err = FALSE
    /\ log = <<>>
    /\ missed = {}
    /\ why = {}
    /\ result = "running"

\* The entry and the directories it is in.
Path[e \in Entry] == {e} \cup IF Parent[e] = 0 THEN {} ELSE Path[Parent[e]]

Below(d) == {e \in Entry : d = 0 \/ d \in Path[e] \ {e}}

Children(d) == {e \in Entry : Parent[e] = d}
First(todo) == CHOOSE e \in todo : \A x \in todo : e <= x
Cancelled == "cancel" \in why

-----------------------------------------------------------------------------
(* walkDir and walkLevel                                                    *)

Return(r) ==
    /\ result' = r
    /\ UNCHANGED <<queue, taken, inside, worker, stop, left, err, log, missed, why>>

StartLevel ==
    /\ result = "running" /\ ~inside
    /\ queue # <<>> /\ ~Cancelled /\ ~stop
    /\ inside' = TRUE
    /\ taken' = 0
    /\ worker' = [w \in Worker |->
                    IF w <= Len(queue) THEN [Out EXCEPT !.pc = "take"] ELSE Out]
    /\ UNCHANGED <<queue, stop, left, err, log, missed, why, result>>

\* The loop ends: nothing is queued, the context is cancelled, or it was stopped.
Finish ==
    /\ result = "running" /\ ~inside
    /\ \/ queue # <<>> /\ Cancelled /\ Return("canceled")
       \/ queue = <<>> /\ Return(IF err THEN "error" ELSE "ok")
       \/ stop /\ ~Cancelled /\ Return(IF err THEN "error" ELSE "ok")

\* What the first workers have found, one after the other.
Found[w \in 0 .. NumWorkers] == IF w = 0 THEN <<>> ELSE Found[w - 1] \o worker[w].next

\* wg.Wait returns.
EndLevel ==
    /\ inside
    /\ \A w \in Worker : worker[w].pc = "out"
    /\ inside' = FALSE
    /\ queue' = Found[NumWorkers]
    /\ result' = IF err THEN "error" ELSE result
    /\ UNCHANGED <<taken, worker, stop, left, err, log, missed, why>>

\* Only the worker moves on.
Free == UNCHANGED <<queue, taken, inside, stop, left, err, log, missed, why, result>>

\* The walk was stopped or cancelled, or nothing is left on this level.
Retire(w) ==
    /\ worker[w].pc = "take"
    /\ stop \/ Cancelled \/ taken >= Len(queue)
    /\ worker' = [worker EXCEPT ![w].pc = "out"]
    /\ Free

\* Slip for NoneTwice: the counter is not advanced at once.
SlipTake(w) ==
    /\ worker[w].pc = "take"
    /\ ~stop /\ ~Cancelled /\ taken < Len(queue)
    /\ taken' \in {taken, taken + 1}
    /\ worker' = [worker EXCEPT ![w].pc = "scan", ![w].todo = Children(queue[taken + 1])]
    /\ UNCHANGED <<queue, inside, stop, left, err, log, missed, why, result>>

\* A worker takes the next directory and reads it; one that cannot be read is
\* passed over.
Take(w) ==
    /\ worker[w].pc = "take"
    /\ ~stop /\ ~Cancelled /\ taken < Len(queue)
    /\ taken' = taken + 1
    /\ \/ /\ worker' = [worker EXCEPT ![w].pc = "scan", ![w].todo = Children(queue[taken'])]
          /\ UNCHANGED missed
       \/ /\ "vanish" \in Enabled
          /\ worker' = [worker EXCEPT ![w].pc = "scan"]
          /\ missed' = missed \cup Below(queue[taken'])
    /\ UNCHANGED <<queue, inside, stop, left, err, log, why, result>>

-----------------------------------------------------------------------------
(* scanTask: the entries of one directory                                   *)

\* The task w is doing once it is past its first entry, which is queued when it
\* is a directory.
Past(w) ==
    LET e == First(worker[w].todo)
    IN  [worker[w] EXCEPT !.pc = "scan", !.todo = @ \ {e},
                          !.next = IF e \in Dirs THEN Append(@, e) ELSE @]

\* Nothing is left, or the walk is to stop.
Leave(w) ==
    /\ worker[w].pc = "scan"
    /\ worker[w].todo = {} \/ stop \/ Cancelled
    /\ worker' = [worker EXCEPT ![w].pc = "take", ![w].todo = {}]
    /\ Free

\* Slip for EveryWalkEnds: what is pruned stays in the task.
SlipLook(w) ==
    LET e == First(worker[w].todo)
    IN  /\ worker[w].pc = "scan"
        /\ worker[w].todo # {} /\ ~stop /\ ~Cancelled
        /\ worker' = [worker EXCEPT ![w] =
                IF e \in Noise THEN worker[w]
                ELSE IF e \in Matches THEN [worker[w] EXCEPT !.pc = "call"]
                ELSE Past(w)]
        /\ Free

Look(w) ==
    LET e == First(worker[w].todo)
    IN  /\ worker[w].pc = "scan"
        /\ worker[w].todo # {} /\ ~stop /\ ~Cancelled
        /\ worker' = [worker EXCEPT ![w] =
                IF e \in Noise THEN [worker[w] EXCEPT !.todo = @ \ {e}]
                ELSE IF e \in Matches THEN [worker[w] EXCEPT !.pc = "call"]
                ELSE Past(w)]
        /\ Free

\* The entry has disappeared since its directory was read.
Vanished(w) ==
    /\ "vanish" \in Enabled
    /\ worker[w].pc = "call"
    /\ worker' = [worker EXCEPT ![w] = Past(w)]
    /\ missed' = missed \cup {First(worker[w].todo)}
    /\ UNCHANGED <<queue, taken, inside, stop, left, err, log, why, result>>

-----------------------------------------------------------------------------
(* callFn, under fnMu                                                       *)

\* The walk was stopped while the worker waited for the mutex.
Late(w) ==
    /\ worker[w].pc = "call"
    /\ stop
    /\ worker' = [worker EXCEPT ![w].pc = "take", ![w].todo = {}]
    /\ Free

\* Slip for Implements: the walk is stopped after the mutex is free.
SlipCallOk(w) ==
    /\ worker[w].pc = "call"
    /\ ~stop
    /\ "ok" \in Answers
    /\ log' = Append(log, First(worker[w].todo))
    /\ left' = IF left > 0 THEN left - 1 ELSE 0
    /\ worker' = [worker EXCEPT ![w] = IF left = 1 THEN [@ EXCEPT !.pc = "refused"]
                                                  ELSE Past(w)]
    /\ UNCHANGED <<queue, taken, inside, stop, err, missed, why, result>>

\* The function accepts the entry; the last one the limit allows stops the walk.
CallOk(w) ==
    /\ worker[w].pc = "call"
    /\ ~stop
    /\ "ok" \in Answers
    /\ log' = Append(log, First(worker[w].todo))
    /\ left' = IF left > 0 THEN left - 1 ELSE 0
    /\ stop' = (left = 1)
    /\ worker' = [worker EXCEPT ![w] = IF stop' THEN [@ EXCEPT !.pc = "take", !.todo = {}]
                                                ELSE Past(w)]
    /\ UNCHANGED <<queue, taken, inside, err, missed, why, result>>

\* The function returns an error, ErrDone or context.Canceled.  The mutex is free
\* again before the walk is stopped.
CallRefused(w, answer) ==
    /\ worker[w].pc = "call"
    /\ ~stop
    /\ log' = Append(log, First(worker[w].todo))
    /\ why' = why \cup {answer}
    /\ worker' = [worker EXCEPT ![w].pc = "refused", ![w].answer = answer]
    /\ UNCHANGED <<queue, taken, inside, stop, left, err, missed, result>>

\* recordErr and limitReached.Store, in processDir and processFile.
Stop(w) ==
    /\ worker[w].pc = "refused"
    /\ stop' = TRUE
    /\ err' = (err \/ worker[w].answer = "error")
    /\ worker' = [worker EXCEPT ![w] = [@ EXCEPT !.pc = "take", !.todo = {}, !.answer = "ok"]]
    /\ UNCHANGED <<queue, taken, inside, left, log, missed, why, result>>

Cancel ==
    /\ "cancel" \in Enabled
    /\ result = "running"
    /\ why' = why \cup {"cancel"}
    /\ UNCHANGED <<queue, taken, inside, worker, stop, left, err, log, missed, result>>

-----------------------------------------------------------------------------
Work(w) ==
    \/ Retire(w) \/ Take(w) \/ Leave(w) \/ Look(w) \/ Vanished(w) \/ Late(w) \/ CallOk(w)
    \/ \E answer \in Answers \ {"ok"} : CallRefused(w, answer)
    \/ Stop(w)

Walk == StartLevel \/ Finish \/ EndLevel

Next == Walk \/ Cancel \/ \E w \in Worker : Work(w)

Spec == Init /\ [][Next]_vars

\* Goroutines are scheduled, and the caller's function returns.
Fairness == WF_vars(Walk) /\ \A w \in Worker : WF_vars(Work(w))

FairSpec == Spec /\ Fairness

-----------------------------------------------------------------------------
(* Properties *)

Expected == {e \in Matches : Path[e] \cap Noise = {}}

\* storage.go:110, local.go:555: the workers together do what one walk promises.
\* Nothing is reported twice or left out, levels are not mixed, the limit holds
\* while several workers ask for the mutex, nil means that nothing is missing,
\* and an error of the function is what Walk returns, whoever stopped the walk.
Promise == INSTANCE Traversal WITH
    Asked <- Expected,
    Depth <- [e \in Entry |-> Cardinality(Path[e])],
    seen <- Range(log),
    gone <- missed \cap Expected

Implements == Promise!Spec

\* local.go:478: a directory is handed to one worker, and what it finds is queued
\* once: nobody is called with an entry a second time.
NoneTwice == IsInjective(log)

\* Every walk returns: no worker waits for another, no level is repeated.
EveryWalkEnds == <>(result # "running")
=============================================================================
