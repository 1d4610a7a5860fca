------------------------------ MODULE Browser ------------------------------
(***************************************************************************)
(* The page that shows a folder (pages/Browser.tsx): the listings kept by  *)
(* the query cache, what is selected, the context menu and the dialogs,    *)
(* and the changes that are asked for from there: delete, private, move by *)
(* dialog, move by drag and drop, upload.                                  *)
(*                                                                         *)
(* A delete and a private mark are shown before the server has answered    *)
(* and taken back when it refuses; after every change the listings are     *)
(* invalidated, and read again when they are shown.  A path is a sequence  *)
(* of names, the root <<>>; a name in FolderName is a folder's.  The       *)
(* account may change everything (Pages says who may).                     *)
(***************************************************************************)
EXTENDS Naturals, Sequences, FiniteSets, SequencesExt

CONSTANTS
    Path,       \* what may be in the storage
    FolderName, \* the names that are folders'
    Sort,       \* the orders a listing may be asked for in
    Starts,     \* what the storage may hold at the start
    Enabled,    \* which of "fail", "lose", "elsewhere", "upload" happen
    MaxActs     \* bound of what the reader does

VARIABLES
    live,    \* what the storage holds
    marked,  \* the folders that are private
    dir,     \* the folder shown
    sort,
    cache,   \* key -> the listing kept for it
    fetch,   \* key -> where its request stands, and the answer
    job,     \* kind of change -> where it stands
    sel,     \* the selected paths
    menu,    \* the context menu: what its entries were made for
    confirm, \* the paths a delete was asked for and not confirmed
    asked,   \* the path of the dialog that moves, as a set
    band,    \* the selection rectangle
    stray,   \* history: the rectangle selected in a folder that is not shown any more
    keptLag, \* history: key -> what the listing kept for it has missed
    readLag, \* history: key -> what the answer on its way has missed
    acts

server == <<live, marked>>
view == <<dir, sort>>
lists == <<cache, fetch>>
marks == <<sel, menu, confirm, asked, band, stray>>
lags == <<keptLag, readLag>>
vars == <<live, marked, dir, sort, cache, fetch, job, sel, menu, confirm, asked, band, stray,
          keptLag, readLag, acts>>

IsFolder(p) == Last(p) \in FolderName
Folder == {p \in Path : IsFolder(p)} \cup {<<>>}

\* What the constants are, for the instances.
BrowserBounds ==
    /\ <<>> \notin Path /\ \A p \in Path : Front(p) \in Folder
    /\ Starts \subseteq SUBSET Path
    /\ Sort # {} /\ MaxActs \in Nat

Key == Folder \X Sort
Shown == <<dir, sort>>
Kind == {"delete", "private", "move", "drop", "upload"}

Children(d) == {p \in Path : Front(p) = d}
Below(p, q) == Len(p) <= Len(q) /\ SubSeq(q, 1, Len(p)) = p
Exists(p) == p = <<>> \/ p \in live

-----------------------------------------------------------------------------
(* The query cache *)

\* `stale': invalidated; `error': the last request failed, and the rows are not shown.
NoList == [has |-> FALSE, items |-> {}, private |-> {}, stale |-> FALSE, error |-> FALSE]
List(items, private) ==
    [has |-> TRUE, items |-> items, private |-> private, stale |-> FALSE, error |-> FALSE]

\* handleList now.
Listing(d) == List(Children(d) \cap live, Children(d) \cap marked)

Idle == [step |-> "idle", answer |-> NoList]
Sent == [Idle EXCEPT !.step = "sent"]

\* A request that is under way is shared.
Read(f, k) == IF f[k].step = "idle" THEN [f EXCEPT ![k] = Sent] ELSE f

\* What a listing may have missed: nothing; a change the tab is still to be told of; one it
\* was told of before the listing arrived; one nobody tells it of.
Lag == {"none", "due", "outrun", "untold"}
Turned(lag, from, to) == [k \in Key |-> IF lag[k] = from THEN to ELSE lag[k]]
Struck(lag, hit, mark) == [k \in Key |-> IF k \in hit THEN mark ELSE lag[k]]

\* An answer on its way that is not given up is kept as good when it arrives.
Outrun(c) ==
    Struck(Turned(readLag, "due", "outrun"), IF c[Shown].has THEN {Shown} ELSE {}, "none")

\* Slip for QuietListIsTrue: a request for the listing that is shown is shared.
SlipInvalidate(c) ==
    /\ cache' = [k \in Key |-> [c[k] EXCEPT !.stale = TRUE]]
    /\ fetch' = Read(fetch, Shown)
    /\ keptLag' = [k \in Key |-> "none"] /\ readLag' = Outrun(c)

\* invalidateQueries(["list"]): every listing is marked, and the one that is shown is
\* read anew, its request given up unless there is no listing yet.
Invalidate(c) ==
    /\ cache' = [k \in Key |-> [c[k] EXCEPT !.stale = TRUE]]
    /\ fetch' = IF c[Shown].has THEN [fetch EXCEPT ![Shown] = Sent] ELSE Read(fetch, Shown)
    /\ keptLag' = [k \in Key |-> "none"] /\ readLag' = Outrun(c)

\* cancelQueries and setQueryData: what a change does to its key before it is sent.
Foresee(k, list) ==
    /\ fetch' = [fetch EXCEPT ![k] = Idle]
    /\ cache' = IF cache[k].has THEN [cache EXCEPT ![k] = list] ELSE cache
    /\ readLag' = [readLag EXCEPT ![k] = "none"] /\ UNCHANGED keptLag

TakenBack(c, j) ==
    IF j.prev.has THEN [c EXCEPT ![j.key] = List(j.prev.items, j.prev.private)] ELSE c

ServeList(k) ==
    /\ fetch[k].step = "sent"
    /\ fetch' = [fetch EXCEPT ![k].step = "served",
                              ![k].answer = IF Exists(k[1]) THEN Listing(k[1]) ELSE NoList]
    /\ readLag' = [readLag EXCEPT ![k] = "none"]
    /\ UNCHANGED <<server, view, cache, job, marks, keptLag, acts>>

Failed(list) == [list EXCEPT !.stale = TRUE, !.error = TRUE]

\* The answer arrives, or a request and its one retry have failed.
ListArrives(k) ==
    /\ fetch[k].step = "served"
    /\ fetch' = [fetch EXCEPT ![k] = Idle]
    /\ cache' = [cache EXCEPT ![k] =
                    IF fetch[k].answer.has THEN fetch[k].answer ELSE Failed(@)]
    /\ keptLag' = [keptLag EXCEPT ![k] = readLag[k]]
    /\ readLag' = [readLag EXCEPT ![k] = "none"]
    /\ UNCHANGED <<server, view, job, marks, acts>>

ListFails(k) ==
    /\ "fail" \in Enabled /\ fetch[k].step = "sent"
    /\ fetch' = [fetch EXCEPT ![k] = Idle]
    /\ cache' = [cache EXCEPT ![k] = Failed(@)]
    /\ UNCHANGED <<server, view, job, marks, lags, acts>>

-----------------------------------------------------------------------------
(* What is shown and selected *)

Act == acts < MaxActs /\ acts' = acts + 1

NoMenu == [file |-> <<>>, private |-> FALSE, targets |-> {}]
NoBand == [on |-> FALSE, of |-> <<>>, own |-> TRUE, base |-> {}, reach |-> {}]

\* `items' of the page, and the rows that are rendered.
Items == cache[Shown].items
Rows == IF cache[Shown].has /\ ~cache[Shown].error THEN Items ELSE {}

Select(paths) == sel' = paths

\* A listing that is marked, or older than five seconds, is read when it comes to be shown.
Show(d, s) ==
    /\ dir' = d /\ sort' = s
    /\ LET k == <<d, s>>
       IN  \/ fetch' = Read(fetch, k)
           \/ cache[k].has /\ ~cache[k].stale /\ fetch' = fetch

\* Slip for SelectionIsInFolder: what was selected stays selected.
SlipNavigate(d) ==
    /\ d # dir /\ Act
    /\ Show(d, sort)
    /\ Select(sel)
    /\ menu' = NoMenu
    /\ stray' = FALSE
    /\ UNCHANGED <<server, cache, job, confirm, asked, band, lags>>

\* Opening a folder, a crumb, or the Back of the browser, which reaches past a dialog.
\* The effect on `dir' clears the selection and closes the menu.
Navigate(d) ==
    /\ d # dir /\ Act
    /\ Show(d, sort)
    /\ Select({})
    /\ menu' = NoMenu
    /\ stray' = FALSE
    /\ UNCHANGED <<server, cache, job, confirm, asked, band, lags>>

SetSort(s) ==
    /\ s # sort /\ Act
    /\ Show(dir, s)
    /\ UNCHANGED <<server, cache, job, marks, lags>>

\* A dialog is modal: the page behind it is out of reach.
Reachable == confirm = {} /\ asked = {}

SelectEntry(p, additive) ==
    /\ Reachable /\ p \in Rows /\ Act
    /\ Select(IF ~additive THEN {p} ELSE IF p \in sel THEN sel \ {p} ELSE sel \cup {p})
    /\ menu' = NoMenu
    /\ UNCHANGED <<server, view, lists, job, confirm, asked, band, stray, lags>>

\* The button of the top bar, or the entry of the background's menu.
SelectAll ==
    /\ Reachable /\ Act
    /\ Select(IF Items # {} /\ Cardinality(sel) = Cardinality(Items) THEN {} ELSE Items)
    /\ menu' = NoMenu
    /\ UNCHANGED <<server, view, lists, job, confirm, asked, band, stray, lags>>

\* The entries keep what the row and the selection were.
ItemContextMenu(p) ==
    /\ Reachable /\ p \in Rows /\ Act
    /\ menu' = [file |-> p, private |-> p \in cache[Shown].private,
                targets |-> IF p \in sel THEN sel ELSE {p}]
    /\ Select(IF p \in sel THEN sel ELSE {p})
    /\ UNCHANGED <<server, view, lists, job, confirm, asked, band, stray, lags>>

\* A click, a key or a scroll closes it.
CloseMenu ==
    /\ menu # NoMenu
    /\ menu' = NoMenu
    /\ UNCHANGED <<server, view, lists, job, sel, confirm, asked, band, stray, lags, acts>>

\* useMarquee: a press on the background takes the selection and the places of the rows,
\* every frame selects what the rectangle meets, and the release of a press that did not
\* move clears the selection.  None of it ends when the folder changes.
StartMarquee ==
    /\ Reachable /\ ~band.on /\ Act
    /\ band' = [on |-> TRUE, of |-> dir, own |-> ~stray, base |-> sel, reach |-> Rows]
    /\ UNCHANGED <<server, view, lists, job, sel, menu, confirm, asked, stray, lags>>

Frame(hits) ==
    /\ band.on /\ hits \subseteq band.reach /\ Act
    /\ Select(band.base \cup hits)
    /\ stray' = (stray \/ ~band.own \/ band.of # dir)
    /\ UNCHANGED <<server, view, lists, job, menu, confirm, asked, band, lags>>

EndMarquee ==
    /\ band.on
    /\ band' = NoBand
    /\ menu' = NoMenu
    /\ \/ UNCHANGED sel
       \/ Select({})
    /\ UNCHANGED <<server, view, lists, job, confirm, asked, stray, lags, acts>>

-----------------------------------------------------------------------------
(* Changes *)

NoJob == [step |-> "none", key |-> <<>>, prev |-> NoList, paths |-> {}, to |-> <<>>,
          made |-> {}, left |-> {}]

\* Asks for a change: one of a kind at a time (bound, where no button is busy meanwhile).
Ask(kind, j) ==
    /\ job[kind].step = "none"
    /\ job' = [job EXCEPT ![kind] = j]

ChooseDelete ==
    /\ menu # NoMenu
    /\ confirm' = menu.targets /\ menu' = NoMenu
    /\ UNCHANGED <<server, view, lists, job, sel, asked, band, stray, lags, acts>>

\* The key is that of the folder shown by now.
ConfirmDelete ==
    /\ confirm # {}
    /\ Ask("delete", [NoJob EXCEPT !.step = "sent", !.key = Shown, !.prev = cache[Shown],
                                   !.paths = confirm])
    /\ Foresee(Shown, List(Items \ confirm, cache[Shown].private \ confirm))
    /\ Select({}) /\ confirm' = {}
    /\ UNCHANGED <<server, view, menu, asked, band, stray, acts>>

TogglePrivate ==
    /\ menu # NoMenu /\ IsFolder(menu.file)
    /\ Ask("private", [NoJob EXCEPT !.step = "sent", !.key = Shown, !.prev = cache[Shown],
                                    !.paths = IF menu.private THEN {} ELSE {menu.file},
                                    !.to = menu.file])
    /\ Foresee(Shown, List(Items, IF menu.private THEN cache[Shown].private \ {menu.file}
                                  ELSE cache[Shown].private \cup ({menu.file} \cap Items)))
    /\ menu' = NoMenu
    /\ UNCHANGED <<server, view, sel, confirm, asked, band, stray, acts>>

ChooseMove ==
    /\ menu # NoMenu
    /\ asked' = {menu.file} /\ menu' = NoMenu
    /\ UNCHANGED <<server, view, lists, job, sel, confirm, band, stray, lags, acts>>

\* The move dialog: what is typed keeps the kind of the name (bound).
SubmitMove(to) ==
    /\ \E from \in asked :
        /\ to # from /\ IsFolder(to) = IsFolder(from)
        /\ Ask("move", [NoJob EXCEPT !.step = "sent", !.paths = {from}, !.to = to])
    /\ UNCHANGED <<server, view, lists, marks, lags, acts>>

CloseDialog ==
    /\ ~Reachable
    /\ confirm' = {} /\ asked' = {}
    /\ UNCHANGED <<server, view, lists, job, sel, menu, band, stray, lags, acts>>

JoinPath(d, p) == Append(d, Last(p))

\* onDragEnd: only the row that is dragged is checked against its target.
Drop(source, target) ==
    LET paths == IF source \in sel THEN sel ELSE {source}
        moved == {p \in paths : JoinPath(target, p) # p}
    IN  /\ Reachable /\ Act
        /\ source \in Rows
        /\ target \in Rows \/ (Below(target, dir) /\ target # dir)
        /\ source # target /\ ~Below(source, target)
        /\ moved # {}
        /\ Ask("drop", [NoJob EXCEPT !.step = "sent", !.paths = moved, !.to = target,
                                     !.left = moved])
        /\ UNCHANGED <<server, view, lists, marks, lags>>

\* Files dropped on the page, or chosen, go to the folder shown.
Upload(p) ==
    /\ "upload" \in Enabled /\ Act
    /\ Front(p) = dir /\ ~IsFolder(p)
    /\ Ask("upload", [NoJob EXCEPT !.step = "sent", !.to = p])
    /\ UNCHANGED <<server, view, lists, marks, lags>>

-----------------------------------------------------------------------------
(* The server changes the storage *)

WithoutAll(ps, s) == {q \in s : \A p \in ps : ~Below(p, q)}

Gone(ps) == live' = WithoutAll(ps, live) /\ marked' = WithoutAll(ps, marked)

Free(from, to) == to \in Path /\ to \notin live /\ ~Below(from, to)

Movable(from, to) ==
    /\ Free(from, to)
    /\ from \in live
    /\ \A q \in live : Below(from, q) => to \o SubSeq(q, Len(from) + 1, Len(q)) \in Path

Moved(from, to, s) ==
    WithoutAll({from}, s)
        \cup {to \o SubSeq(q, Len(from) + 1, Len(q)) : q \in s \ WithoutAll({from}, s)}

\* handleMove makes the folders on the way.
Move(from, to) ==
    /\ live' = Moved(from, to, live) \cup {q \in Path : Below(q, to)}
    /\ marked' = Moved(from, to, marked)

\* The listings that a step changes, and those of them whose answer is on its way.
Hit == {k \in Key : Listing(k[1])' # Listing(k[1])}
Passed == {k \in Hit : fetch[k].step = "served"}

\* The storage changes, and the tab will be told, or it is not.
Heard == keptLag' = Struck(keptLag, Hit, "due") /\ readLag' = Struck(readLag, Passed, "due")
Unheard == keptLag' = Struck(keptLag, Hit, "untold") /\ readLag' = Struck(readLag, Passed, "untold")

\* A move to a free place that fails has made the folders on the way.
MoveFails(from, to) ==
    LET made == IF Free(from, to) THEN {q \in Path \ live : Below(q, Front(to))} ELSE {}
    IN  /\ live' = live \cup made
        /\ UNCHANGED marked
        /\ Unheard

\* The request of kind k is answered; one whose answer is lost has "failed" too.
Answered(k, step) == job' = [job EXCEPT ![k].step = step]

Refused(k) ==
    /\ "fail" \in Enabled /\ k \in {"delete", "private", "move"} /\ job[k].step = "sent"
    /\ Answered(k, "failed")
    /\ UNCHANGED <<server, view, lists, marks, lags, acts>>

Verdict == {"done"} \cup (IF "lose" \in Enabled THEN {"failed"} ELSE {})

\* One path after the other, and the first that fails ends it: 207 counts as done.
ServeDelete ==
    LET ps == job["delete"].paths
    IN  /\ job["delete"].step = "sent"
        /\ \E gone \in SUBSET (ps \cap live) :
            /\ gone # {}
            /\ gone # ps => ("fail" \in Enabled \/ ~(ps \subseteq live))
            /\ Gone(gone)
        /\ Heard
        /\ \E v \in Verdict : Answered("delete", v)
        /\ UNCHANGED <<view, lists, marks, acts>>

ServeMissing ==
    /\ job["delete"].step = "sent" /\ ~(job["delete"].paths \subseteq live)
    /\ Answered("delete", "failed")
    /\ UNCHANGED <<server, view, lists, marks, lags, acts>>

ServePrivate ==
    LET j == job["private"]
    IN  /\ j.step = "sent"
        /\ IF j.to \in live
           THEN /\ marked' = (marked \ {j.to}) \cup j.paths
                /\ \E v \in Verdict : Answered("private", v)
           ELSE Answered("private", "failed") /\ UNCHANGED marked
        /\ UNCHANGED <<live, view, lists, marks, acts>>
        /\ Heard

ServeMove ==
    LET j == job["move"]
    IN  /\ j.step = "sent"
        /\ \E from \in j.paths :
            IF Movable(from, j.to)
            THEN /\ Move(from, j.to)
                 /\ \/ Answered("move", "done") /\ Heard
                    \/ "lose" \in Enabled /\ Answered("move", "failed") /\ Unheard
            ELSE MoveFails(from, j.to) /\ Answered("move", "failed")
        /\ UNCHANGED <<view, lists, marks, acts>>

\* The moves of a drop are requests of their own, in any order.
ServeDrop ==
    LET j == job["drop"]
    IN  /\ j.step = "sent"
        /\ \E from \in j.left :
            \/ /\ Movable(from, JoinPath(j.to, from))
               /\ Move(from, JoinPath(j.to, from))
               /\ job' = [job EXCEPT !["drop"].left = @ \ {from}, !["drop"].made = @ \cup {from}]
               /\ Heard
            \/ /\ \/ ~Movable(from, JoinPath(j.to, from)) /\ MoveFails(from, JoinPath(j.to, from))
                  \/ "fail" \in Enabled /\ UNCHANGED <<server, lags>>
               /\ job' = [job EXCEPT !["drop"].left = @ \ {from}]
        /\ UNCHANGED <<view, lists, marks, acts>>

\* A chunk or the end of an upload makes its folder when that is gone.
ServeUpload ==
    LET j == job["upload"]
    IN  /\ j.step = "sent"
        /\ live' = live \cup {q \in Path : Below(q, j.to)}
        /\ Answered("upload", "done")
        /\ UNCHANGED <<marked, view, lists, marks, acts>>
        /\ Heard

\* Someone else adds or removes an entry.
Elsewhere ==
    /\ "elsewhere" \in Enabled /\ Act
    /\ \/ \E p \in Path \ live : Exists(Front(p)) /\ live' = live \cup {p} /\ UNCHANGED marked
       \/ \E p \in live : Gone({p})
    /\ Unheard
    /\ UNCHANGED <<view, lists, job, marks>>

-----------------------------------------------------------------------------
(* The answers *)

Over(k) == job' = [job EXCEPT ![k] = NoJob]

\* onError and onSettled of a delete or a private mark.
ChangeSettled(k) ==
    /\ job[k].step \in {"done", "failed"}
    /\ Invalidate(IF job[k].step = "failed" THEN TakenBack(cache, job[k]) ELSE cache)
    /\ Over(k)
    /\ UNCHANGED <<server, view, marks, acts>>

\* Only a success is followed up; it closes the dialog, whichever it is by now.
MoveSettled ==
    LET j == job["move"]
    IN  /\ j.step \in {"done", "failed"}
        /\ IF j.step = "done" THEN Invalidate(cache) /\ asked' = {}
           ELSE UNCHANGED <<lists, asked, lags>>
        /\ Over("move")
        /\ UNCHANGED <<server, view, sel, menu, confirm, band, stray, acts>>

\* One move that was refused, or whose answer was lost, and the listings stay as they are:
\* the tab is not told of the moves that were made.
DropSettled ==
    LET j == job["drop"]
    IN  /\ j.step = "sent" /\ j.left = {}
        /\ \/ j.made = j.paths /\ Invalidate(cache)
           \/ /\ j.made # j.paths \/ "lose" \in Enabled
              /\ IF j.made = {} THEN UNCHANGED lags
                 ELSE /\ keptLag' = Turned(keptLag, "due", "untold")
                      /\ readLag' = Turned(readLag, "due", "untold")
              /\ UNCHANGED lists
        /\ Over("drop")
        /\ UNCHANGED <<server, view, marks, acts>>

UploadSettled ==
    /\ job["upload"].step = "done"
    /\ Invalidate(cache)
    /\ Over("upload")
    /\ UNCHANGED <<server, view, marks, acts>>

-----------------------------------------------------------------------------
Init ==
    /\ live \in Starts /\ marked = {}
    /\ dir = <<>> /\ sort \in Sort
    /\ cache = [k \in Key |-> NoList]
    /\ fetch = Read([k \in Key |-> Idle], Shown)
    /\ job = [k \in Kind |-> NoJob]
    /\ sel = {} /\ menu = NoMenu /\ confirm = {} /\ asked = {} /\ band = NoBand /\ stray = FALSE
    /\ keptLag = [k \in Key |-> "none"] /\ readLag = keptLag
    /\ acts = 0

Serve == ServeDelete \/ ServeMissing \/ ServePrivate \/ ServeMove \/ ServeDrop \/ ServeUpload

Settle ==
    \/ ChangeSettled("delete") \/ ChangeSettled("private")
    \/ MoveSettled \/ DropSettled \/ UploadSettled

Gesture ==
    \/ \E d \in Folder : Navigate(d)
    \/ \E s \in Sort : SetSort(s)
    \/ \E p \in Path : SelectEntry(p, TRUE) \/ SelectEntry(p, FALSE) \/ ItemContextMenu(p)
    \/ SelectAll \/ CloseMenu
    \/ StartMarquee \/ (\E hits \in SUBSET band.reach : Frame(hits)) \/ EndMarquee
    \/ ChooseDelete \/ ConfirmDelete \/ TogglePrivate \/ ChooseMove \/ CloseDialog
    \/ \E p \in Path : SubmitMove(p) \/ Upload(p)
    \/ \E p \in Path, d \in Folder : Drop(p, d)

Next ==
    \/ Gesture
    \/ \E k \in Key : ServeList(k) \/ ListArrives(k) \/ ListFails(k)
    \/ Serve \/ (\E k \in Kind : Refused(k)) \/ Settle
    \/ Elsewhere

Spec == Init /\ [][Next]_vars

-----------------------------------------------------------------------------
(* Properties *)

\* Nothing is on its way.
Quiet ==
    /\ \A k \in Key : fetch[k].step = "idle"
    /\ \A k \in Kind : job[k].step = "none"

\* Once every answer is in, a listing that is kept as good is what the server has, whatever
\* was shown ahead of its answers and taken back (Browser.tsx:56, 80); and the one on the
\* screen is kept as good, unless it could not be read.  Excused, until it is read again, is
\* a listing that a change nobody told the tab of has altered (a drop that failed in part, a
\* lost answer, another program); and one that was not on the screen, or not read yet, when
\* the tab was told of a change, and whose answer, made before it, arrived after (:58, :76).
QuietListIsTrue ==
    Quiet =>
        /\ \A k \in Key : cache[k].has /\ ~cache[k].stale /\ keptLag[k] \notin {"outrun", "untold"}
                => cache[k] = Listing(k[1])
        /\ ~cache[Shown].error => cache[Shown].has /\ ~cache[Shown].stale

\* What is selected, and what an open menu will act on, lies in the folder that is shown:
\* the downloads name it relative to that folder (Browser.tsx:256, InfoPanel.tsx:155).
SelectionIsInFolder ==
    ~stray => sel \cup menu.targets \subseteq Children(dir)
=============================================================================
