------------------------------- MODULE Pages -------------------------------
(***************************************************************************)
(* The pages of one browser tab: the history entries and the routes read   *)
(* from them (lib/router.ts, lib/routes.ts), who the tab believes is       *)
(* signed in (the query "me"), the guards of App.tsx, and the handlers of  *)
(* the screens that navigate or sign in and out.                           *)
(*                                                                         *)
(* A path is a sequence of names and the root is <<>>; a location is the   *)
(* sequence of the segments of its pathname, decoded.  A store update is   *)
(* rendered at once and the guards, which are effects, run in the same     *)
(* flush: see Commit.                                                      *)
(***************************************************************************)
EXTENDS Naturals, Sequences, FiniteSets, SequencesExt

CONSTANTS
    Folder,     \* the folders of the storage
    File,       \* and its files
    Fresh,      \* name of what the dialog creates
    Mount,      \* the base path of the application
    Visits,     \* the locations a tab may be opened at
    Servers,    \* the states the server may start in
    Scope,      \* the scope of the account that is no administrator
    Enabled,    \* which of "fail", "expire", "policy", "reload", "create", "logout" happen
    MaxEntries, \* bound of the history
    MaxActs     \* bound of what the reader does

VARIABLES
    stack,   \* the history entries of the tab
    here,    \* which of them is shown
    route,   \* the route read from it: the snapshot of the router
    me,      \* what the query "me" holds
    reading, \* where its request stands, and the answer
    server,  \* insecure, initialized, policy
    session, \* what the cookie of the tab stands for
    submit,  \* the sign-in or setup form that was submitted
    parting, \* the sign-out that was asked for
    making,  \* the creation that was asked for
    behind,  \* history: the account or the policy may have changed since "me" was served
    acts

vars == <<stack, here, route, me, reading, server, session, submit, parting, making, behind, acts>>

Tab == {"profile", "users", "policy", "system", "about"}
ReservedRoots == {"view", "new", "settings", "login", "setup"}
NoDir == <<"">> \* no folder is stored; a name is never empty

\* A path of names, as the storage and normalizeStoragePath have them.
Clean(p) == p \in Seq(STRING) /\ \A i \in DOMAIN p : p[i] \notin {"", ".", ".."}

\* What the constants are, for the instances.
PagesBounds ==
    /\ <<>> \in Folder /\ Scope \in Folder
    /\ \A p \in Folder \cup File : Clean(p)
    /\ Fresh \in STRING /\ {Mount} \cup Visits \subseteq Seq(STRING)
    /\ Servers \subseteq [insecure : BOOLEAN, initialized : BOOLEAN,
                         policy : {"public", "readonly", "private"}]
    /\ MaxEntries \in Nat \ {0} /\ MaxActs \in Nat

-----------------------------------------------------------------------------
(* Routes and locations *)

Route(page, arg, dir, edit) == [page |-> page, arg |-> arg, dir |-> dir, edit |-> edit]
Files(d) == Route("files", <<>>, d, FALSE)
Viewer(f, d, edit) == Route("viewer", f, d, edit)
Create(kind, d) == Route("create", <<kind>>, d, FALSE)
Settings(tab, d) == Route("settings", <<tab>>, d, FALSE)
Auth(mode, d) == Route("auth", <<mode>>, d, FALSE)

IsReservedPath(p) == p # <<>> /\ p[1] \in ReservedRoots

\* The next segment, after those that were kept.
Segment(kept, name) ==
    CASE name \in {"", "."} -> kept
      [] name = ".." -> IF kept = <<>> THEN kept ELSE Front(kept)
      [] OTHER -> Append(kept, name)

NormalizeStoragePath(p) ==
    LET kept[i \in 0 .. Len(p)] == IF i = 0 THEN <<>> ELSE Segment(kept[i - 1], p[i])
    IN  kept[Len(p)]

ParentDirectory(p) == IF p = <<>> THEN p ELSE Front(p)

RoutePath(r) ==
    CASE r.page = "files" -> NormalizeStoragePath(r.dir)
      [] r.page = "viewer" -> <<"view">> \o NormalizeStoragePath(r.arg)
      [] r.page = "create" -> <<"new", IF r.arg = <<"dir">> THEN "folder" ELSE "file">>
                              \o NormalizeStoragePath(r.dir)
      [] r.page = "settings" -> <<"settings">> \o r.arg
      [] r.page = "auth" -> r.arg

\* The route of a location, as a set: empty when it is none of the application's.
MatchRoute(at, dir, edit) ==
    LET rest == NormalizeStoragePath(Tail(at))
        Background(default) == IF dir = NoDir THEN default ELSE dir
    IN  IF at = <<>> THEN {Files(<<>>)}
        ELSE CASE at[1] = "view" ->
                    {Viewer(p, Background(ParentDirectory(p)), edit) : p \in {rest} \ {<<>>}}
               [] at[1] = "new" ->
                    {Create(IF s = "folder" THEN "dir" ELSE "file",
                            NormalizeStoragePath(SubSeq(at, 3, Len(at)))) :
                        s \in {at[i] : i \in {2} \cap DOMAIN at} \cap {"folder", "file"}}
               [] at[1] = "settings" ->
                    IF Len(at) > 2 THEN {}
                    ELSE {Settings(t, Background(<<>>)) :
                            t \in {IF Len(at) = 2 THEN at[2] ELSE "profile"} \cap Tab}
               [] at[1] \in {"login", "setup"} ->
                    {Auth(mode, Background(<<>>)) : mode \in IF Len(at) = 1 THEN {at[1]} ELSE {}}
               [] OTHER -> {Files(NormalizeStoragePath(at))}

ParseRoute(at, dir, edit) ==
    LET found == MatchRoute(at, dir, edit)
    IN  IF found = {} THEN Files(<<>>) ELSE CHOOSE r \in found : TRUE

\* Outside the mount path the application shows its root.
WithBasePath(at) == Mount \o at
WithoutBasePath(at) ==
    IF IsPrefix(Mount, at) THEN SubSeq(at, Len(Mount) + 1, Len(at)) ELSE <<>>

\* What history.pushState is given, and what readRoute makes of it.
Entry(r) ==
    [at |-> WithBasePath(RoutePath(r)), dir |-> r.dir, edit |-> r.page = "viewer" /\ r.edit]

ReadRoute(e) == ParseRoute(WithoutBasePath(e.at), e.dir, e.edit)

-----------------------------------------------------------------------------
(* The account *)

Me(insecure, initialized, user, admin, policy) ==
    [insecure |-> insecure, initialized |-> initialized, user |-> user, admin |-> admin,
     policy |-> policy]

NoMe == Me(FALSE, FALSE, FALSE, FALSE, "unread")
Known(m) == m # NoMe

\* handleMe.
MeNow ==
    Me(server.insecure, server.insecure \/ server.initialized,
       ~server.insecure /\ session # "none",
       server.insecure \/ session = "admin", server.policy)

SignedIn(m) == m.insecure \/ m.user

Below(p, d) == Len(d) <= Len(p) /\ SubSeq(p, 1, Len(d)) = d
InScope(p) == Scope = <<>> \/ Below(p, Scope)

CanWritePath(m, p) ==
    /\ Known(m)
    /\ m.insecure \/ m.admin \/ (m.user /\ InScope(p) /\ p # Scope)

CanWriteIn(m, d) ==
    /\ Known(m)
    /\ \/ m.insecure \/ m.admin
       \/ ~m.user /\ m.policy = "public"
       \/ m.user /\ InScope(d)

-----------------------------------------------------------------------------
(* Rendering and the guards *)

\* The effects of useAuthGuard, as what they leave: the modes they navigate to.  They run
\* with what was rendered, so the route one of them asks for is not seen by the next, and
\* those that ask for the sign-in screen come after the one that asks for the setup.
Redirects(m, r) ==
    LET login == ~SignedIn(m) /\ (r.page = "settings" \/ (m.policy = "private" /\ r.page # "auth"))
        setup == ~m.insecure /\ ~m.initialized /\ r.page # "auth"
    IN  IF login THEN {"login"} ELSE IF setup THEN {"setup"} ELSE {}

\* The tab shows entry i of s to the account m.  After a redirect the page is one of
\* "auth", where no guard has anything to ask for.
Commit(s, i, m) ==
    LET r == ReadRoute(s[i])
        asked == {mode \in Redirects(m, r) : Known(m)}
    IN  /\ stack' = IF asked = {} THEN s
                    ELSE [s EXCEPT ![i] = Entry(Auth(CHOOSE mode \in asked : TRUE, r.dir))]
        /\ here' = i
        /\ route' = ReadRoute(stack'[i])
        /\ me' = m

Replace(r) == Commit([stack EXCEPT ![here] = Entry(r)], here, me)

Push(r) ==
    /\ here < MaxEntries
    /\ Commit(Append(SubSeq(stack, 1, here), Entry(r)), here + 1, me)

\* What is mounted: the forms, the settings, or the browser.
AtAuth == route.page = "auth"
AtSettings == route.page = "settings" /\ Known(me) /\ SignedIn(me)

EffectiveTab(tab) ==
    IF tab # "profile" /\ Known(me) /\ ~me.admin THEN "profile"
    ELSE IF tab \in {"users", "policy"} /\ me.insecure THEN "profile"
    ELSE tab

Act == acts < MaxActs /\ acts' = acts + 1
Requests == <<reading, server, session, submit, parting, making, behind>>

-----------------------------------------------------------------------------
(* Moving about *)

\* Entering the folder already shown replaces the entry (the sidebar, a search result, an
\* entry of the listing).
NavigateToDirectory(d) ==
    /\ ~AtAuth
    /\ IF d = route.dir THEN Replace(Files(d)) ELSE Push(Files(d))

\* Every folder on the way to the one shown has a crumb, in the row or in its menu; that
\* of the one shown is no link, but at the root.
FollowCrumb(d) ==
    /\ ~AtAuth /\ ~AtSettings
    /\ IsPrefix(d, route.dir)
    /\ \/ d # route.dir /\ Push(Files(d))
       \/ route.dir = <<>> /\ Replace(Files(d))

OpenFile(f) == ~AtAuth /\ Push(Viewer(f, route.dir, FALSE))

\* Closing a viewer, a dialog or the settings.
Close ==
    /\ route.page \in {"viewer", "create"} \/ AtSettings
    /\ Replace(Files(route.dir))

\* The links of the sidebar are read back from their location.
FollowLink(r) ==
    LET found == MatchRoute(RoutePath(r), route.dir, FALSE)
    IN  found # {} /\ Push(CHOOSE x \in found : TRUE)

OpenCreate(kind) ==
    /\ ~AtAuth /\ ~AtSettings
    /\ CanWriteIn(me, route.dir)
    /\ FollowLink(Create(kind, route.dir))

OpenSignIn ==
    /\ ~AtAuth /\ ~SignedIn(me)
    /\ FollowLink(Auth("login", route.dir))

OpenSettings ==
    /\ ~AtAuth /\ Known(me) /\ SignedIn(me)
    /\ Replace(Settings("profile", route.dir))

\* The tabs shown are those of SettingsView.
ChangeTab(tab) ==
    /\ AtSettings
    /\ tab # "profile" => me.admin
    /\ tab \in {"users", "policy"} => ~me.insecure
    /\ Replace(Settings(tab, route.dir))

\* The Back button of the sign-in screen.
LeaveSignIn ==
    /\ route = Auth("login", route.dir)
    /\ me.policy # "private"
    /\ submit.step = "none"
    /\ Replace(Files(route.dir))

\* The Back and Forward of the browser.
PopState(i) ==
    /\ i \in 1 .. Len(stack) \cap {here - 1, here + 1}
    /\ Commit(stack, i, me)

Browse ==
    /\ Act
    /\ \/ \E d \in Folder : NavigateToDirectory(d) \/ FollowCrumb(d)
       \/ \E f \in File : OpenFile(f)
       \/ Close
       \/ \E kind \in {"dir", "file"} : OpenCreate(kind)
       \/ OpenSignIn
       \/ OpenSettings
       \/ \E tab \in Tab : ChangeTab(tab)
       \/ LeaveSignIn
       \/ \E i \in 1 .. MaxEntries : PopState(i)
    /\ UNCHANGED Requests

-----------------------------------------------------------------------------
(* Who is signed in *)

Unread == [step |-> "idle", me |-> NoMe]
Asked == [step |-> "sent", me |-> NoMe]
NoSubmit == [kind |-> "none", step |-> "none", dir |-> <<>>]
NoMaking == [step |-> "none", kind |-> "none", path |-> <<>>]
NoParting == [step |-> "none", dir |-> <<>>]

\* A component that reads "me" mounts, and the reading is older than a minute.
Refresh ==
    /\ reading.step = "idle" /\ Act
    /\ reading' = Asked
    /\ UNCHANGED <<stack, here, route, me, server, session, submit, parting, making, behind>>

ServeMe ==
    /\ reading.step = "sent"
    /\ reading' = [step |-> "served", me |-> MeNow]
    /\ behind' = FALSE
    /\ UNCHANGED <<stack, here, route, me, server, session, submit, parting, making, acts>>

MeArrives ==
    /\ reading.step = "served"
    /\ Commit(stack, here, reading.me)
    /\ reading' = Unread
    /\ UNCHANGED <<server, session, submit, parting, making, behind, acts>>

\* The request fails, and so does its one retry: what was read before is kept.
MeFails ==
    /\ "fail" \in Enabled
    /\ reading.step # "idle"
    /\ reading' = Unread
    /\ behind' = TRUE
    /\ UNCHANGED <<stack, here, route, me, server, session, submit, parting, making, acts>>

\* One form at a time (bound).  The forms ask for what they need before they submit.
Submit ==
    /\ AtAuth /\ submit.step = "none" /\ Act
    /\ submit' = [kind |-> route.arg[1], step |-> "sent", dir |-> route.dir]
    /\ UNCHANGED <<stack, here, route, me, reading, server, session, parting, making, behind>>

\* handleAuthSetup and handleAuthLogin: there is an account once setup has been accepted.
ServeSubmit ==
    /\ submit.step = "sent"
    /\ \E verdict \in {"accepted", "refused"} :
        /\ verdict = "accepted" =>
              ~server.insecure /\ (submit.kind = "login" <=> server.initialized)
        /\ submit' = [submit EXCEPT !.step = verdict]
        /\ server' = [server EXCEPT !.initialized = @ \/ (submit.kind = "setup" /\ verdict = "accepted")]
    /\ UNCHANGED <<stack, here, route, me, reading, session, parting, making, behind, acts>>

\* The answer carries the cookie.  onSuccess waits until "me" has been read again.
SubmitAnswered ==
    \/ /\ submit.step = "refused"
       /\ submit' = NoSubmit
       /\ UNCHANGED <<stack, here, route, me, reading, server, session, parting, making, behind, acts>>
    \/ /\ submit.step = "accepted"
       /\ session' \in IF submit.kind = "setup" THEN {"admin"} ELSE {"admin", "user"}
       /\ submit' = [submit EXCEPT !.step = "reading"]
       /\ reading' = Asked
       /\ UNCHANGED <<stack, here, route, me, server, parting, making, behind, acts>>

\* The answer is lost: the form shows an error.
SubmitFails ==
    /\ "fail" \in Enabled
    /\ submit.step \in {"sent", "accepted"}
    /\ submit' = NoSubmit
    /\ behind' = TRUE
    /\ UNCHANGED <<stack, here, route, me, reading, server, session, parting, making, acts>>

\* Slip for RouteIsKept: the navigation does not wait for the reading.
SlipLand ==
    /\ submit.step = "reading"
    /\ Replace(Files(submit.dir))
    /\ submit' = NoSubmit
    /\ UNCHANGED <<reading, server, session, parting, making, behind, acts>>

\* Whatever the page is by now.
Land ==
    /\ submit.step = "reading" /\ reading.step = "idle"
    /\ Replace(Files(submit.dir))
    /\ submit' = NoSubmit
    /\ UNCHANGED <<reading, server, session, parting, making, behind, acts>>

SignOut ==
    /\ "logout" \in Enabled
    /\ ~AtAuth /\ Known(me) /\ SignedIn(me) /\ parting.step = "none" /\ Act
    /\ parting' = [step |-> "sent", dir |-> route.dir]
    /\ UNCHANGED <<stack, here, route, me, reading, server, session, submit, making, behind>>

ServeSignOut ==
    /\ parting.step = "sent"
    /\ session' = "none"
    /\ parting' = [parting EXCEPT !.step = "served"]
    /\ UNCHANGED <<stack, here, route, me, reading, server, submit, making, behind, acts>>

\* Slip for OffersMatchServer: a request for "me" under way is left to answer.
SlipSignedOut ==
    /\ parting.step = "served"
    /\ reading' = IF reading.step = "idle" THEN Asked ELSE reading
    /\ Replace(Files(parting.dir))
    /\ parting' = NoParting
    /\ UNCHANGED <<server, session, submit, making, behind, acts>>

\* Every query is invalidated, which gives up the request for "me" under way.
SignedOut ==
    /\ parting.step = "served"
    /\ reading' = Asked
    /\ Replace(Files(parting.dir))
    /\ parting' = NoParting
    /\ UNCHANGED <<server, session, submit, making, behind, acts>>

SignOutFails ==
    /\ "fail" \in Enabled
    /\ parting.step # "none"
    /\ parting' = NoParting
    /\ behind' = TRUE
    /\ UNCHANGED <<stack, here, route, me, reading, server, session, submit, making, acts>>

\* adminError: a request that needs a session is answered 401.
Unauthorized ==
    /\ session = "none" /\ ~server.insecure
    /\ ~AtAuth /\ Known(me) /\ me.user /\ Act
    /\ Push(Auth("login", route.dir))
    /\ UNCHANGED Requests

\* The session runs out, or its account is deleted.
SessionEnds ==
    /\ "expire" \in Enabled /\ session # "none"
    /\ session' = "none"
    /\ behind' = TRUE
    /\ UNCHANGED <<stack, here, route, me, reading, server, submit, parting, making, acts>>

\* An administrator elsewhere changes the policy.
PolicyChanges ==
    /\ "policy" \in Enabled /\ server.initialized /\ Act
    /\ \E p \in {"public", "readonly", "private"} \ {server.policy} :
            server' = [server EXCEPT !.policy = p]
    /\ behind' = TRUE
    /\ UNCHANGED <<stack, here, route, me, reading, session, submit, parting, making>>

-----------------------------------------------------------------------------
(* The dialog that creates a file or a folder *)

SubmitCreate ==
    /\ "create" \in Enabled
    /\ route.page = "create" /\ ~IsReservedPath(Append(route.dir, Fresh))
    /\ making.step = "none" /\ Act
    /\ making' = [step |-> "sent", kind |-> route.arg[1], path |-> Append(route.dir, Fresh)]
    /\ UNCHANGED <<stack, here, route, me, reading, server, session, submit, parting, behind>>

\* The answer finds the dialog as it is by now: one that was closed has no kind, and
\* what was made is taken for a file.  Answers that come while the sign-in screen has
\* replaced the dialog wait for it (bound).
CreateAnswered ==
    /\ making.step = "sent" /\ ~AtAuth
    /\ making' = NoMaking
    /\ \/ Replace(IF route.page = "create" /\ route.arg = <<"dir">>
                  THEN Files(route.dir) ELSE Viewer(making.path, route.dir, TRUE))
       \/ UNCHANGED <<stack, here, route, me>> \* refused
    /\ UNCHANGED <<reading, server, session, submit, parting, behind, acts>>

-----------------------------------------------------------------------------
(* A tab *)

\* The first reading of the location rewrites it when it is not canonical.
Opened(e) ==
    LET r == ReadRoute(e)
    IN  IF e.at = WithBasePath(RoutePath(r)) THEN e ELSE Entry(r)

Init ==
    /\ \E v \in Visits :
            stack = <<Opened([at |-> WithBasePath(v), dir |-> NoDir, edit |-> FALSE])>>
    /\ here = 1 /\ route = ReadRoute(stack[1])
    /\ me = NoMe /\ reading = Asked
    /\ server \in Servers
    /\ session \in IF server.initialized THEN {"none", "user", "admin"} ELSE {"none"}
    /\ submit = NoSubmit /\ parting = NoParting /\ making = NoMaking
    /\ behind = FALSE
    /\ acts = 0

Reload ==
    /\ "reload" \in Enabled /\ Act
    /\ stack' = [stack EXCEPT ![here] = Opened(@)]
    /\ route' = ReadRoute(stack'[here])
    /\ me' = NoMe /\ reading' = Asked
    /\ submit' = NoSubmit /\ parting' = NoParting /\ making' = NoMaking
    /\ behind' = FALSE
    /\ UNCHANGED <<here, server, session>>

Answers ==
    \/ ServeMe \/ MeArrives \/ MeFails
    \/ ServeSubmit \/ SubmitAnswered \/ SubmitFails \/ Land
    \/ ServeSignOut \/ SignedOut \/ SignOutFails
    \/ CreateAnswered

Next ==
    \/ Browse \/ Refresh \/ Submit \/ SignOut \/ Unauthorized \/ SubmitCreate \/ Reload
    \/ SessionEnds \/ PolicyChanges
    \/ Answers

Spec == Init /\ [][Next]_vars

-----------------------------------------------------------------------------
(* Properties *)

\* Engine.CanWrite for an account, and canWriteAnonymous; marks of others are not looked at.
ServerWrites(p) ==
    \/ server.insecure \/ session = "admin"
    \/ session = "user" /\ Below(p, Scope) /\ p # Scope

ServerCreates(p) ==
    ServerWrites(p) \/ (session = "none" /\ server.policy = "public")

\* Nothing is on its way that changes who is signed in, and nothing was missed.
Settled ==
    /\ Known(me) /\ reading.step = "idle" /\ ~behind
    /\ submit.step # "accepted" /\ parting.step # "served"

\* Once "me" has been read, the controls that change files are offered to exactly those
\* the server lets change them (permissions.ts:17, 32), through sign-in, sign-out and setup.
OffersMatchServer ==
    Settled =>
        /\ \A p \in (Folder \cup File) \ {<<>>} : CanWritePath(me, p) <=> ServerWrites(p)
        /\ \A d \in Folder : CanWriteIn(me, d) <=> ServerCreates(Append(d, Fresh))

\* A viewer, a dialog or the settings open over the folder that was shown, and keep it
\* through the location they are read back from (router.ts:81, routes.ts:81): all but the
\* folders whose own location is one of the application's.
FolderStaysBehind ==
    [][stack' # stack /\ route'.page \in {"viewer", "create", "settings"}
        => \/ route'.dir = route.dir
           \/ LET e == stack'[here'] IN IsReservedPath(e.dir) /\ e.at = WithBasePath(e.dir)]_vars

\* Whoever has signed in is not sent back to the sign-in screen by the guards, unless
\* the account could not be read or was lost meanwhile (AuthScreen.tsx:100), or the folder
\* is named like a screen.
SignInSticks ==
    [][Land /\ ~behind /\ session # "none" /\ ~IsReservedPath(submit.dir)
        => route'.page # "auth"]_vars

\* App.tsx:46: the first visit to a server without accounts ends at the setup screen.
FirstVisitIsSetup ==
    acts = 0 /\ Known(me) /\ ~me.insecure /\ ~me.initialized
        => route = Auth("setup", route.dir)
=============================================================================
