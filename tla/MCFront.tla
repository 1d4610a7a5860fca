------------------------------ MODULE MCFront ------------------------------
(***************************************************************************)
(* Instances for TLC of the application a browser shows, and of the        *)
(* settings behind its forms: Settings, SettingsForms, Pages and Viewer.   *)
(*                                                                         *)
(* They share no state.  A behaviour is one of the module in `workload',   *)
(* which is chosen at the start; the variables of the others keep their    *)
(* first values.                                                           *)
(***************************************************************************)
EXTENDS Naturals, Sequences, FiniteSets, TLC

CONSTANTS
    r1, r2, lan,                                               \* model values
    Req, Env, Given, Cidr, MaxRate, DefaultUpload, SettingsEnabled, Unset, \* of Settings
    Account, Base, Top, Size, Samples, FormsEnabled, FormsActs, \* of SettingsForms
    PageFolder, PageFile, Name, Mount, Visits, Servers, Scope, PagesEnabled, MaxEntries, PagesActs,
                                                               \* of Pages
    Code, InPlace, Fresh, Typed, Beginning, ViewerEnabled, ViewerActs, \* of Viewer
    None

VARIABLES
    workload, \* "settings", "forms", "pages" or "viewer"
    meta, cfg, guard, tus, req, firm,                    \* of Settings
    stored, cached, asking, form, sending, stale, edits, \* of SettingsForms
    stack, here, route, me, reading, backend, session, submit, parting, making, unheard, visits,
                                                         \* of Pages
    disk, may, tokens, entries, shown, edit, known, body, loads, saves, overtaken, moves
                                                         \* of Viewer

settingsVars == <<meta, cfg, guard, tus, req, firm>>
formsVars == <<stored, cached, asking, form, sending, stale, edits>>
pagesVars == <<stack, here, route, me, reading, backend, session, submit, parting, making,
               unheard, visits>>
viewerVars == <<disk, may, tokens, entries, shown, edit, known, body, loads, saves, overtaken,
                moves>>
front == <<workload, settingsVars, formsVars, pagesVars, viewerVars>>

-----------------------------------------------------------------------------
(* Settings *)

Plain == [max_upload |-> 10, max_text_size |-> 10, guard |-> TRUE, request_rate |-> 60,
          download_rate |-> 200, pow_difficulty |-> 4, trusted_proxies |-> {}]

\* The environment as it is by default, and one with proxies and no upload limit.
Environments == {Plain, [Plain EXCEPT !.max_upload = 0, !.trusted_proxies = {lan}]}

Nothing == [k \in DOMAIN Plain |-> {}]

\* A limit, a rate that a start ignores, proxies; the invalid zero among them.
Updates == [Nothing EXCEPT !.max_upload = {0, 5}, !.request_rate = {0, 30, 2000000},
                           !.trusted_proxies = {{}, {lan}}]

Sys == INSTANCE Settings WITH Enabled <- SettingsEnabled

Symmetry == Permutations(Req)

-----------------------------------------------------------------------------
(* SettingsForms *)

\* Every size up to a few units, and the ends of the largest.
TheSamples == 1 .. 20000 \cup 1638000 .. 1640000 \cup 2090000 .. 2097151

F == INSTANCE SettingsForms WITH
        Enabled <- FormsEnabled, MaxActs <- FormsActs,
        server <- stored, fetch <- asking, saves <- sending, acts <- edits

-----------------------------------------------------------------------------
(* Pages *)

TheFolders == {<<>>, <<"a">>, <<"settings">>}
TheFiles == {<<"a", "f">>}
TheMount == <<"app">>
TheScope == <<"a">>

\* A folder, its file, a dialog, settings, the screens, and two that are not canonical.
TheVisits == {<<>>, <<"view", "a", "f">>, <<"settings", "users">>, <<"login">>,
              <<"new">>, <<"settings">>}

TheServers ==
    [insecure : {FALSE}, initialized : BOOLEAN, policy : {"public", "private"}]
        \cup {[insecure |-> TRUE, initialized |-> FALSE, policy |-> "readonly"]}

P == INSTANCE Pages WITH
        File <- PageFile, Fresh <- Name, Enabled <- PagesEnabled, MaxActs <- PagesActs,
        Folder <- PageFolder, server <- backend, behind <- unheard, acts <- visits

-----------------------------------------------------------------------------
(* Viewer *)

\* Of the larger text a save may keep what the smaller one is.
TheBeginnings == 3 :> 2

V == INSTANCE Viewer WITH
        Words <- Typed, Enabled <- ViewerEnabled, MaxActs <- ViewerActs,
        behind <- overtaken, acts <- moves

ASSUME InstanceAssumption ==
    Sys!SettingsBounds /\ F!FormsBounds /\ P!PagesBounds /\ V!ViewerBounds

-----------------------------------------------------------------------------
\* The choices of a module do not matter where another one runs.
FrontInit ==
    /\ workload \in {"settings", "forms", "pages", "viewer"}
    /\ Sys!Init /\ F!Init /\ P!Init /\ V!Init
    /\ workload # "settings" => cfg = Plain
    /\ workload # "forms" => stored["system"].size = 300
    /\ workload # "pages" =>
        /\ stack[1] = P!Opened([at |-> Mount, dir |-> P!NoDir, edit |-> FALSE])
        /\ backend.insecure /\ session = "none"
    /\ workload # "viewer" => may

FrontNext ==
    \/ /\ workload = "settings" /\ Sys!Next
       /\ UNCHANGED <<workload, formsVars, pagesVars, viewerVars>>
    \/ /\ workload = "forms" /\ F!Next
       /\ UNCHANGED <<workload, settingsVars, pagesVars, viewerVars>>
    \/ /\ workload = "pages" /\ P!Next
       /\ UNCHANGED <<workload, settingsVars, formsVars, viewerVars>>
    \/ /\ workload = "viewer" /\ V!Next
       /\ UNCHANGED <<workload, settingsVars, formsVars, pagesVars>>

FrontSpec == FrontInit /\ [][FrontNext]_front

-----------------------------------------------------------------------------
(* Properties, where they are stated *)

\* Settings: what was set is in force after a restart (admin.go:456), where a start loads it.
SettingsSurvive == Sys!SettingsSurvive

\* Settings: an update that no other overlapped is stored as it is active (admin.go:457).
LonePersists == Sys!LonePersists

\* SettingsForms: a form changes only what was touched (SystemPanel.tsx:54).
UntouchedStays == F!UntouchedStays

\* SystemPanel.tsx:63, format.ts:3: what was saved is not offered to be saved again, and a
\* size is displayed within a hundredth and does not move when it is read back (SettingsForms).
FormsSettle == F!NothingLeftToSave /\ (workload = "forms" => F!SizesSettle)

\* Pages: what is offered is what the server allows (permissions.ts:17).
OffersMatchServer == P!OffersMatchServer

\* Pages: what opens over a folder keeps it (router.ts:81), and whoever signed in is not
\* sent back (AuthScreen.tsx:100).
RouteIsKept == P!FolderStaysBehind /\ P!SignInSticks

\* Viewer: the text shown is what the file holds (CodeViewer.tsx:115).
ShownIsSaved == V!ShownIsSaved

\* Viewer: the text shown belongs to the file of the route (MarkdownPreview.tsx:13).
TextIsOfItsFile == V!TextIsOfItsFile
=============================================================================
