------------------------------- MODULE Viewer -------------------------------
(***************************************************************************)
(* The viewer that lies over the folder (viewers/ViewerOverlay.tsx): text  *)
(* and code with the editor (CodeViewer.tsx, EditorShell.tsx), and what is *)
(* rendered in place (MarkdownPreview.tsx, PdfViewer.tsx).                 *)
(*                                                                         *)
(* CodeViewer has its path as its key: another path is another component.  *)
(* The others keep their component, and all it knows, when another file of *)
(* their kind is opened over the present one, from the search or with the  *)
(* history.  A text is the file it belongs to and what it says.            *)
(***************************************************************************)
EXTENDS Naturals, FiniteSets

CONSTANTS
    Code,     \* files shown by CodeViewer
    InPlace,  \* files of one of the viewers without a key
    Fresh,    \* those of Code that do not exist at first
    Words,    \* bound: what may be typed, beside nothing
    Beginning, \* of what may be typed and is over the limit of a save, the part it keeps
    Enabled,  \* which of "fail", "lose", "elsewhere", "reload" happen
    None,
    MaxActs   \* bound of what the reader does

VARIABLES
    disk,    \* file -> its text, or None
    may,     \* the reader may write these files
    tokens,  \* the files an edit token is held for
    entries, \* the files the history has an entry for that opens the editor
    shown,   \* the file of the route
    edit,    \* its flag
    known,   \* the files whose meta is cached
    body,    \* the viewer that is mounted
    loads,   \* requests for texts
    saves,   \* saves under way
    behind,  \* history: the text shown was overtaken by a write not made from it
    acts

page == <<shown, edit, known>>
vars == <<disk, may, tokens, entries, shown, edit, known, body, loads, saves, behind, acts>>

\* What the constants are, for the instances and the theorems.
ViewerBounds ==
    /\ Code \cap InPlace = {} /\ Fresh \subseteq Code
    /\ Words \subseteq Nat
    /\ \A w \in DOMAIN Beginning : Beginning[w] \in Nat
    /\ None \notin Code \cup InPlace /\ None \notin (Code \cup InPlace) \X Nat

File == Code \cup InPlace
Empty(f) == <<f, 0>>
Written(f) == <<f, 1>>

NoBody == [of |-> None, text |-> None, error |-> FALSE, draft |-> None]

\* useState of CodeViewer: opened to edit, it begins with an empty draft.
Mounted(f, e) ==
    [NoBody EXCEPT !.of = f, !.draft = IF f \in Code /\ e THEN Empty(f) ELSE None]

\* `late': answered before a write.
Load(f) == [of |-> f, step |-> "sent", answer |-> None, late |-> FALSE]

-----------------------------------------------------------------------------
Act == acts < MaxActs /\ acts' = acts + 1

\* The component goes away: its request is given up, its saves go on without it.
Unmount(b) ==
    /\ body' = b
    /\ loads' = IF b.of = None THEN {} ELSE {Load(b.of)}
    /\ saves' = {[s EXCEPT !.mine = FALSE] : s \in saves}
    /\ behind' = FALSE

\* Slip for TextIsOfItsFile: the answer to the request for the last path still counts.
SlipRebind(f) ==
    /\ body' = [body EXCEPT !.of = f]
    /\ loads' = loads \cup {Load(f)}
    /\ behind' = FALSE
    /\ UNCHANGED saves

\* The same component with another path: what it shows and its error stay.
Rebind(f) ==
    /\ body' = [body EXCEPT !.of = f]
    /\ loads' = {Load(f)}
    /\ behind' = FALSE
    /\ UNCHANGED saves

\* ViewerBody: there is none before the meta of the file is known.
Show(f, e) ==
    /\ shown' = f /\ edit' = e
    /\ \/ /\ f \notin known /\ Unmount(NoBody)
       \/ /\ f \in known /\ body.of = f
          /\ UNCHANGED <<body, loads, saves, behind>>
       \/ /\ f \in known /\ body.of # f
          /\ IF {f, body.of} \subseteq InPlace THEN Rebind(f) ELSE Unmount(Mounted(f, e))
    /\ UNCHANGED known

Open(f, e) ==
    /\ Act
    /\ disk[f] # None /\ <<f, e>> # <<shown, edit>> /\ (e => f \in entries)
    /\ Show(f, e)
    /\ UNCHANGED <<disk, may, tokens, entries>>

\* NewItemDialog: the file is there, empty, and a token may come with it.
CreateFile(f) ==
    /\ Act
    /\ disk[f] = None /\ shown = None
    /\ disk' = [disk EXCEPT ![f] = Empty(f)]
    /\ \E t \in {{}, {f}} : tokens' = tokens \cup t
    /\ entries' = entries \cup {f}
    /\ Show(f, TRUE)
    /\ UNCHANGED may

\* useMeta
MetaArrives ==
    /\ shown # None /\ shown \notin known
    /\ known' = known \cup {shown}
    /\ Unmount(Mounted(shown, edit))
    /\ UNCHANGED <<disk, may, tokens, entries, shown, edit, acts>>

\* Back, Close, Escape, or a save that is answered 401: nobody asks about a draft.
Close ==
    /\ Act
    /\ shown # None
    /\ shown' = None /\ edit' = FALSE
    /\ Unmount(NoBody)
    /\ UNCHANGED <<disk, may, tokens, entries, known>>

\* The history keeps the flag, and the module's map of tokens is empty again.
Reload ==
    /\ "reload" \in Enabled /\ Act
    /\ tokens' = {} /\ known' = {}
    /\ body' = NoBody /\ loads' = {} /\ behind' = FALSE
    /\ saves' = {[s EXCEPT !.mine = FALSE] : s \in saves}
    /\ UNCHANGED <<disk, may, entries, shown, edit>>

-----------------------------------------------------------------------------
(* Reading *)

ServeLoad(l) ==
    /\ l.step = "sent"
    /\ loads' = (loads \ {l}) \cup {[l EXCEPT !.step = "served", !.answer = disk[l.of]]}
    /\ UNCHANGED <<disk, may, tokens, entries, page, body, saves, behind, acts>>

\* useCodeContent and MarkdownPreview: the text, and never an end to an error.
LoadArrives(l) ==
    /\ l.step = "served"
    /\ loads' = loads \ {l}
    /\ body' = IF l.answer = None THEN [body EXCEPT !.error = TRUE]
               ELSE [body EXCEPT !.text = l.answer]
    /\ behind' = (behind \/ l.late)
    /\ UNCHANGED <<disk, may, tokens, entries, page, saves, acts>>

LoadFails(l) ==
    /\ "fail" \in Enabled
    /\ loads' = loads \ {l}
    /\ body' = [body EXCEPT !.error = TRUE]
    /\ UNCHANGED <<disk, may, tokens, entries, page, saves, behind, acts>>

-----------------------------------------------------------------------------
(* Writing *)

CanEdit == body.of \in Code /\ (may \/ body.of \in tokens \/ body.draft # None)
Editor == body.text # None /\ ~body.error /\ CanEdit
Pending == \E s \in saves : s.mine
Dirty == body.draft # None /\ body.draft # body.text

\* The button to edit, and the one to discard.
ToggleEdit ==
    /\ Editor /\ Act
    /\ body' = [body EXCEPT !.draft = IF @ # None THEN None ELSE body.text]
    /\ UNCHANGED <<disk, may, tokens, entries, page, loads, saves, behind>>

Type(w) ==
    /\ Editor /\ body.draft # None /\ Act
    /\ body.draft # <<body.of, w>>
    /\ body' = [body EXCEPT !.draft = <<body.of, w>>]
    /\ UNCHANGED <<disk, may, tokens, entries, page, loads, saves, behind>>

Save ==
    /\ saves' = saves \cup {[of |-> body.of, content |-> body.draft, mine |-> TRUE,
                             token |-> body.of \in tokens, step |-> "sent"]}
    /\ UNCHANGED <<disk, may, tokens, entries, page, body, loads, behind>>

\* The button is out of order while a save is pending, and when nothing was changed.
PressSave == Editor /\ Dirty /\ ~Pending /\ Act /\ Save

\* Ctrl+S, also before the text is there, and when nothing was changed.
ControlS == CanEdit /\ body.draft # None /\ ~Pending /\ Act /\ Save

\* A write of f, made from the text shown or not: what was read before it is late.
Write(f, text, own) ==
    /\ disk' = [disk EXCEPT ![f] = text]
    /\ loads' = {[l EXCEPT !.late = @ \/ (l.of = f /\ l.step = "served")] : l \in loads}
    /\ behind' = (behind \/ (~own /\ body.of = f /\ (body.text # None \/ Pending)))

\* Write copies as much as the limit in force allows, and nobody asks for more (local.go:706):
\* of a text that is longer the beginning is put in place, and the answer is 200.
Stored(text) == {text} \cup {<<text[1], Beginning[w]>> : w \in DOMAIN Beginning \cap {text[2]}}

\* handleSave: with the right to write there, or with the token of the file.
ServeSave(s) ==
    /\ s.step = "sent"
    /\ \/ /\ may \/ s.token
          /\ \E text \in Stored(s.content) : Write(s.of, text, s.mine)
          /\ saves' = (saves \ {s}) \cup {[s EXCEPT !.step = "done"]}
       \/ /\ ~(may \/ s.token) \/ "fail" \in Enabled
          /\ saves' = (saves \ {s}) \cup {[s EXCEPT !.step = "refused"]}
          /\ UNCHANGED <<disk, loads, behind>>
    /\ UNCHANGED <<may, tokens, entries, page, body, acts>>

\* Slip for ShownIsSaved: what was typed since is taken for saved.
SlipSaveArrives(s) ==
    /\ s.step = "done"
    /\ saves' = saves \ {s}
    /\ body' = IF s.mine THEN [body EXCEPT !.text = IF @ = None THEN s.content ELSE body.draft,
                                           !.draft = None] ELSE body
    /\ UNCHANGED <<disk, may, tokens, entries, page, loads, behind, acts>>

\* The text that was sent is the text shown, and the draft is gone, also what was typed
\* since.
SaveArrives(s) ==
    /\ s.step = "done"
    /\ saves' = saves \ {s}
    /\ body' = IF s.mine THEN [body EXCEPT !.text = s.content, !.draft = None] ELSE body
    /\ UNCHANGED <<disk, may, tokens, entries, page, loads, behind, acts>>

\* Refused, or the answer is lost: text and draft stay.
SaveFails(s) ==
    /\ s.step = "refused" \/ ("lose" \in Enabled /\ s.step = "done")
    /\ saves' = saves \ {s}
    /\ behind' = (behind \/ (s.mine /\ s.step = "done"))
    /\ UNCHANGED <<disk, may, tokens, entries, page, body, loads, acts>>

\* Somebody else writes the file.
Elsewhere(f) ==
    /\ "elsewhere" \in Enabled /\ Act
    /\ disk[f] \notin {None, Empty(f)}
    /\ Write(f, Empty(f), FALSE)
    /\ UNCHANGED <<may, tokens, entries, page, body, saves>>

-----------------------------------------------------------------------------
Init ==
    /\ disk = [f \in File |-> IF f \in Fresh THEN None ELSE Written(f)]
    /\ may \in BOOLEAN
    /\ tokens = {} /\ entries = {}
    /\ shown = None /\ edit = FALSE /\ known = {}
    /\ body = NoBody /\ loads = {} /\ saves = {}
    /\ behind = FALSE
    /\ acts = 0

Next ==
    \/ \E f \in File, e \in BOOLEAN : Open(f, e)
    \/ \E f \in Fresh : CreateFile(f)
    \/ MetaArrives \/ Close \/ Reload
    \/ \E l \in loads : ServeLoad(l) \/ LoadArrives(l) \/ LoadFails(l)
    \/ ToggleEdit \/ PressSave \/ ControlS
    \/ \E w \in Words : Type(w)
    \/ \E s \in saves : ServeSave(s) \/ SaveArrives(s) \/ SaveFails(s)
    \/ \E f \in File : Elsewhere(f)

Spec == Init /\ [][Next]_vars

-----------------------------------------------------------------------------
(* Properties *)

\* CodeViewer.tsx:115: the text that is shown, and taken back to by Discard, is what the
\* file holds, through every order of saves, failures and reopening, unless the file was
\* written by somebody else, by a viewer closed since, or while its text was being read; of
\* a text over the limit of a save the file may hold the beginning only.
ShownIsSaved ==
    body.of \in Code /\ body.text # None /\ ~body.error /\ loads = {} /\ ~Pending /\ ~behind
        => disk[body.of] \in Stored(body.text)

\* MarkdownPreview.tsx:13: once nothing is being read, the text shown is the file's the
\* route names, whichever files were opened over one another and however late they came.
TextIsOfItsFile ==
    body.text # None /\ ~body.error /\ loads = {} => body.text[1] = shown
=============================================================================
