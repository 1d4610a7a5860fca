# A TLA+ verification of filebrowser

filebrowser serves a directory tree to browsers: a Go server (`src/main.go`,
`src/internal/...`) with a SQLite database of accounts, marks and settings, and
a TypeScript single-page application (`src/frontend/src/...`) that lists,
previews, plays, edits, searches and uploads.  The server keeps very little in
memory, but what it keeps is shared by requests that run concurrently, and
several handlers change the tree, the database and a copy in memory one after
the other.  The page keeps copies of what the server has, changes them ahead of
its answers, and gets those in any order.  That is what this project models: TLA+ modules for the parts of the program whose
order of steps matters, TLC configurations that check them on small instances,
and proofs checked by TLAPS of what holds for every instance.

1. [The system](#1-the-system)
2. [What is hard](#2-what-is-hard)
3. [The modules and the code](#3-the-modules-and-the-code)
4. [The runs](#4-the-runs)
5. [Bounds](#5-bounds)
6. [Fairness](#6-fairness)
7. [Proofs](#7-proofs)
8. [Where code and expectation part](#8-where-code-and-expectation-part)
9. [What is not modelled, and the plan](#9-what-is-not-modelled-and-the-plan)

To check a module: `tlc -config X.cfg M` with the pairs of section 4; to check
proofs: `tlapm M_proofs.tla` with the modules of section 7.

## 1. The system

| Component | State | Operations | Talks to |
|---|---|---|---|
| Upload registry `internal/api/tus.go` | sessions by id (path, size, open file, time of last use), a lock per session | create, HEAD, PATCH, DELETE, collector every minute | storage (writes into the target itself) |
| Storage `internal/storage/local` | the tree on disk, nothing in memory | list, stat, open, write (temporary file and rename), create, move, delete, usage, walk | all handlers |
| Private folders `internal/authz`, `internal/store`, `internal/api/users.go`, `admin.go`, `files.go` | table `private_folders`; a copy of it in the engine, swapped under a lock | mark, unmark, follow moves, forget deleted folders and accounts, reload | handlers change tree, table and copy in turn |
| Accounts `internal/auth`, `internal/store` | table `users`; sessions are signed cookies with an id | setup, seed at start, create, patch, delete, change password, login | every statement its own transaction |
| Login backoff `internal/auth` | failures, last failure and lock by address | login | bcrypt runs outside the lock |
| Guard `internal/guard` | two token buckets, strikes and a ban by address; settings | the middleware of every request, janitors | settings change it at run time |
| Capability tokens `internal/guard/token.go`, `internal/api/capability.go`, `frontend/src/api/capability.ts` | the signing key; in the page one cached token and one fetch in flight | issue, verify, fetch, renew | every mutation of the page |
| Settings `internal/config`, `internal/api/server.go`, `admin.go` | environment, table `meta`, active configuration, guard's and registry's copies of it | load at start, update | guard, registry |
| Walk `internal/storage/local` | workers, the queue of a level, limit and error flags of one walk | walk | search, archives |
| Search `internal/api/search.go` | a response stream shared by results and heartbeat | search | walk, permission engine |
| Previews `internal/api/thumbs.go` | cache directory, semaphore of two decodes | thumb, big | storage |
| Upload queue `frontend/src/stores/uploads.ts`, `api/tus.ts` | items, handles of transfers, URLs remembered by tus-js-client | enqueue, retry, cancel, dismiss, callbacks | capability tokens, registry |
| Tab `frontend/src/App.tsx`, `lib/router.ts`, `lib/routes.ts`, `components/AuthScreen.tsx`, `Sidebar.tsx`, `NewItemDialog.tsx` | history entries, the route read from them, what is known of the account | links, back and forward, redirects, sign-in, sign-out, creation | account of the server, all pages |
| Page of a folder `frontend/src/pages/Browser.tsx`, `components/dnd.tsx`, `lib/useMarquee.ts`, dialogs, `TopBar.tsx` | cached listings, selection, menu, selection rectangle, changes under way | select, delete, move, drop, mark, upload, sort | listings and changes of the server |
| Viewers `frontend/src/viewers` | text, draft, saves; state and timers of a player | open, edit, save, play, pause, hide the controls | raw files, saves, media elements |
| Forms of the settings `frontend/src/pages/settings` | fields, the cached answers they were filled from | open, edit, save | settings, accounts, policy |
| Archives and raw downloads `internal/api/download.go`, `raw.go` | none | zip, tar.gz, ranges | walk, storage, guard's download budget |
| File requests `internal/api/files.go`, `admin.go`, `auth.go` | access policy (table `meta`), edit tokens | metadata, create, save, delete in batches, move; who may do them | storage, permission engine |
| Subtitles, sorting, detection, path cleaning, client address | none | pure functions | handlers |
| HTTP server, middleware | routes | start, shutdown | all |

Nothing but the files, the database and the key of the tokens survives a
restart.  There is one process and one database connection pool; goroutines are
those of `net/http`, the collector, the janitors, the workers of a walk and the
heartbeat of a search.

## 2. What is hard

`PROJECT.json` lists the hazards at their lines; the groups are:

* **An upload writes into its target.** The partial file is visible at the path
  other handlers work on; the session outlives requests, and collector, DELETE
  and PATCH each take the session out of the registry in their own way.
* **Three copies of one fact.** Privacy of a directory is a row, an entry of the
  engine's copy, and the path at which the directory happens to be.  A handler
  changes the three in separate steps, and each step can fail.
* **Check, then act, in separate transactions.** Last admin, current password,
  first setup, attributes that are not patched: each is read by one statement
  and written by another.
* **Rights that change.** Policy, marks and accounts are looked at once per path
  and may be others before the storage is called.
* **System calls of two requests on one tree**, of which a move between file
  systems makes as many as there are entries, and any of which can fail.
* **Separate locks of one request.** The guard's ban check, bucket and strike;
  the login's lock, comparison and count.
* **Callbacks.** Everything the page awaits may end after what it was awaited
  for has been cancelled, retried, closed or replaced by another of its kind.
* **Copies on the page.** Listings, the account, settings and texts are read at
  one time, shown and acted upon at another, and changed ahead of the answer.
* **State that outlives what it is about**: a selection rectangle its folder, a
  draft its file, an error the file it was met at, a timer the playing it hides
  the controls of, a form the account or setting as it was.
* **Shared temporary names, shared mutexes, shared streams**: previews, walk and
  search.
* **Restarts**, which lose sessions of uploads, bans, buckets and, without a
  writable cache directory, the key; and read settings back under other rules
  than they were accepted under.

## 3. The modules and the code

`map` in `PROJECT.json` names the lines of every definition.  In every module an
action is what the code does between two points at which another actor can be
seen: a lock is taken, a statement or a system call returns, a promise settles.
`pc` in a request's record is the point its handler has come to.  Variables and
fields marked "history" in their comment are read by properties alone.
Definitions whose name starts with `Slip` are wrong on purpose: each is a
plausible mistake, and replacing the definition it stands before by it breaks
the property its comment names.  They are used nowhere else.

* **`TusUploads`** — `tusRegistry` and its handlers, with `CreateFile`,
  `PUT /api/raw`, delete and move as the other writers of the tree.  Files are
  inodes, so that an open upload goes on writing to a file that was moved or
  replaced.  The bytes of a file are abstracted to a length and whose prefix
  they are.  `Expire` is the passing of the time to live, `Collect` a run of the
  collector, `Crash` a restart.  A move is `MoveCheck` (`Lstat`) and then either one
  rename or, across devices, `MoveOpen` (`O_TRUNC`), `MoveCopy` and the removal of the
  source; `overwritten` (history) has the uploads whose file such a copy went into.
  `Waits` is a handler that reads a body and waits for its client.
* **`PrivateFolders`** — the handlers for marks, moves, deletions and accounts;
  `db` is the table, `cache` the engine's copy, `at` where directories are.
  `Read` and `Install` are the two halves of `Engine.reload`.  `intent` is what
  the last mark or move meant for each directory; only the run that compares it
  with the table keeps it (`Intend`).
* **`Accounts`** — `users` is the table with its AUTOINCREMENT ids; a request
  carries what it has read.  A session is an id and, for the properties, the
  account it was made for.  `Login` is one step: between comparison and token
  it does nothing another request could disturb.
* **`Guard`** — the middleware chain of one address, in ticks.  Addresses share
  nothing but settings.
* **`LoginBackoff`** — the entry of one address in `loginFails`: `fails`, `since`
  (the age of `lastFail`) and `lock` (what is left until `nextOK`).  `Enter` is
  `Login` up to the comparison, which holds no lock, `Compared` is what follows it.
* **`Settings`** — `meta` is the table, `cfg` the configuration, `guard` and
  `tus` the parts of it that other components have copied.  `Persist` writes one
  row, `Apply` is `applySystemSettings`.  `Start` builds the guard from the environment
  and tells it of the rows only if one of its own was taken over, as the code does;
  `firm` (history) has the keys whose row is the active value.
* **`CapabilityTokens`**, **`Capability`** — a token is the number of the period in which the key that
  signed it, and its hour, are good; `Mutate`, `Fetched`, `Renew` and the rest
  are the continuations of `mutate` and `ensureCapability`.
* **`UploadQueue`** — an action is a click or a callback with the `pump()` at its
  end; `stage` has the transfers that are not over, also those of items that
  were removed.
* **`Pages`** — one tab: `stack` and `here` are its history, `route` what
  `parseRoute` makes of the entry it is at, `me` what it knows of the account.  A
  location is a sequence of segments, so that encoding and decoding are about
  which segments are reserved and which are escaped.  `Commit` is a change of the
  location with the two effects of `useAuthGuard` after it; `submit`, `parting`
  and `making` are the requests of sign-in, sign-out and the dialog that creates.
* **`Browser`** — the page of a folder.  `cache` and `fetch` are the query cache,
  by folder and order, `job` the mutation of each kind; `Foresee`, `TakenBack` and
  `Invalidate` are `onMutate`, `onError` and `onSettled`.  `keptLag` and `readLag`
  (history) say what a listing, or an answer on its way, has missed: a change the tab
  is still to be told of, one it was told of before the listing arrived, or one nobody
  tells it of.  Everything that selects
  is an action: entries, the background, menus, the rectangle.
* **`Viewer`** — the overlay: `body` is what the mounted component knows (the file,
  its text, an error, a draft), `loads` and `saves` its requests.  `Rebind` and
  `Unmount` are the two things React does with a component when another file is
  opened: the same one goes on, or another begins.
* **`Player`** — a media element, which changes at once and tells later (`el`,
  `events`), the state of `useMediaPlayer` that follows, and the timers that hide
  the controls of a video.
* **`SettingsForms`** — the forms of the settings over a cache of what the server
  has: `form` is what was typed and which fields were touched, `stale` (history)
  what others wrote since the cache was read.  Sizes are numbers; `FormatBytes`
  and `ParseHumanBytes` are what the conversions do to them.
* **`FileTree`** — the tree below the root and what a system call of the storage
  adapter does to it; a file that is open for writing follows its directory.
  **`FileRequests`** extends it: the middleware that finds out who asks, the check
  of every path, and the system calls of metadata, creation, saves, deletions and
  moves, one action each.  A mark is here what the engine says it is; that its
  copy can be behind the table is `PrivateFolders`' subject.
* **`Traversal`** — what `Walk` promises.  **`ParallelWalk`** — `walkDir`,
  `walkLevel`, `scanTask` and `callFn`; it implements `Traversal`
  (`Implements`), with the log of calls as the set of entries seen.
  **`Search`** and **`Archive`** are built on `Traversal`, that is on the promise
  and not on the workers: one is the handler, the client that may leave, and the
  heartbeat; the other collects the entries and writes them to a zip or a tar
  while they are hidden, removed and rewritten.  An entry is plain, a link whose size
  in the listing is not its file's, or something that cannot be opened, or not be read
  (`nature`).
* **`Previews`** — the previews of one image: files of the cache directory as
  inodes, in two pieces, under a temporary name and a name in the cache that
  depend on the image's stamp alone.
* **`MC...`** modules give constants that a configuration cannot write down,
  define symmetry and views, and choose workloads: some have a variable
  `workload` (or a choice in `Init`) that decides at the start which of several
  kinds of behaviour is looked at.  `MCListing`, `MCUploads`, `MCRequests` and
  `MCFront` instantiate several modules in this way, of which one moves: their
  properties are those of the modules, side by side.  **`..._proofs`** modules
  hold theorems.

The modules meet where the code does: `TusUploads` and `PrivateFolders` have the
writers of the tree in common (files in one, directories in the other, and no
handler's step for a file reads a mark it could change); `Settings` feeds
`Guard` (`UpdateConfig` there is what `Apply` calls here) and the size limit of
`TusUploads` (uploads over the limit are refused before they have a session);
`UploadQueue` is the client of `TusUploads` and of `Capability`; `Browser` asks for
the deletions, moves and marks of `FileRequests` and `PrivateFolders`, whose outcome
there is a choice here; `Pages` sees of `Accounts` whether anybody is signed in and
who; `SettingsForms` sends what `Settings` validates and stores; `Viewer` saves
what `FileRequests` writes; `Search` and
`Archive` use `Traversal`; `FileRequests` asks the permissions that
`PrivateFolders` keeps, and both have the deletions and moves, one with what they
do to the tree, the other with what they do to table and copy.

## 4. The runs

| Run | Module, configuration | Properties | Question |
|---|---|---|---|
| tus_content | MCTusUploads, TusContent | UploadIsPrefix, CompleteIsWhole | What is on disk while two uploads, two concurrent requests, saves, deletions and restarts interleave, and while files are moved to and from the path of an upload, on one device and across two? |
| uploads | MCUploads, Uploads | SlotsFollowTransfers; AnsweredWhileBound, AbandonedVanishes, EverythingEnds | Is a file at its path when its last PATCH is answered, is everything abandoned collected, are the slots of the page used, all of them, each by the transfer it is for, is every request answered that no stalled body holds up, and does everything queued end? |
| private | MCPrivateFolders, Private | SerialMarksAreTrue, SerialUnsetByOwner, LoneReloadIsFresh | Do table, copy and tree agree between requests, and what still holds when requests overlap, statements fail and the server restarts? |
| accounts | MCAccounts, Accounts | SessionsKeepTheirAccount, LastAdminStays, OriginalStays | Which guardrails hold under overlap, and which for a request on its own? |
| guard | MCGuard, Guard | EvictionInvisible, BanHasCause; GuessesAreFew; ShutOutGetIn | Does forgetting an idle address change a decision, is only a real offender banned? How many wrong passwords get past a lock when logins overlap? Is whoever was shut out, by a ban or a lock, let in again? |
| requests | MCRequests, Requests | SlotsAreHeld, ServedWhole; RenewedOnce; ControlsAreTrue; NothingHangs | Is a decode always under the semaphore, is a preview one request wrote whole? Is one renewal enough when callers share the token? Do the controls of a player show what it does, as long as they should? Is everything answered? |
| listing | MCListing, Listing | NoneTwice, Implements, EveryListingEnds; ShownInFull; ArchiveIsWhole | Do the workers keep the promise of `Walk`? Does a reader see all there is to see, once? Is what looks like a whole archive one? Does every walk return, and every heartbeat? |
| files | MCFileRequests, FileRequests | TypeOK, RightsHold, NothingElseIsLost, OnlyCopiesArePartial | Does anybody change or learn of what they may not, and is any file lost or seen half written? |
| save_large | MCFileRequests, SaveLarge | OnlyCopiesArePartial | Is a body over the limit refused? No: the run is a counterexample (section 8). |
| front | MCFront, Front | SettingsSurvive, LonePersists; FormsSettle, UntouchedStays; OffersMatchServer, RouteIsKept; ShownIsSaved, TextIsOfItsFile | Are settings that were stored and active the same in configuration, guard and registry after a restart, when updates overlap and fail? Does a form change only what was touched, and come to rest? Is what a tab offers what the server allows, through its history, sign-in and sign-out? Is the text shown the file's? |
| setup_first | MCPages, SetupFirst | FirstVisitIsSetup | Does the first visit to a server without accounts end at the setup screen? No: the run is a counterexample (section 8). |
| browser | MCBrowser, Browser | QuietListIsTrue, SelectionIsInFolder | When all is answered, are the listings the server's, and does what is selected lie in the folder shown? |

What the runs show, where the answer is not simply yes:

* `UploadIsPrefix` and `CompleteIsWhole` speak of uploads whose inode no other
  upload shares and no move between devices has written into (`Undisturbed`).  Two
  uploads that were created at once for one path share one; a move that found the
  path free before the upload was opened there truncates it (section 8).
* `EverythingEnds` says of requests that what is never answered waits for a body that stalls, its
  own or that of the request that holds the lock of its session: the server sets no
  limit to either (section 8).
* `SettingsSurvive` speaks of updates that no other overlapped and of rows that a start
  loads, which are not all that an update accepts (section 8).
* The properties whose names begin with `Serial` are checked for one request at a
  time, without failure and restart; they do not hold otherwise.
  `LoneReloadIsFresh` says how far a stale copy can live: to the next mutation
  that no other overlaps.
* `LastAdminStays` and `LonePersists` (and `PatchKeepsOthers`, which is proved) speak of the steps of
  a request that was alone from beginning to end, in behaviours where others
  overlap; `OriginalStays` and `SessionsKeepTheirAccount` need no such
  condition.
* `ServedWhole` excuses files that two requests have written at once.
* `NothingElseIsLost` and `OnlyCopiesArePartial` say what a move does that nothing
  overlaps, and what a save does that overlaps with no move.  Of moves that overlap
  the first says which files they may take: those below their two ends, and the one
  they are writing, wherever a rename has taken it (section 8).
* `RightsHold` (no change without a ground, nothing hidden told) speaks of some moment of the request,
  not of the moment of the system call: rights are read once.
* `ArchiveIsWhole` excuses an archive whose last member is one that could not be opened,
  could not be read, or was longer than its tar header: that member has ended the
  loop, and what should have followed is missing although the archive is well formed
  (section 8).
* `QuietListIsTrue` excuses, until it is read again, a listing altered by a change the
  tab is never told of (a drop that failed in part, a lost answer, another program),
  and one that was not on the screen, or was read for the first time, when the tab was
  told of a change made after its answer.  The second is a race of the page itself
  (section 8): of the listings that are read when a change settles, only the one on the
  screen is given up and read again.  `SelectionIsInFolder` excuses what a rectangle
  that was begun in another folder selects (section 8).
* `ShownIsSaved` excuses a text the file has been given another than since it was
  read, by another writer or a save whose viewer is closed, and lets the file hold the
  beginning of a text that is over the limit of a save (`Beginning`, section 8);
  `TextIsOfItsFile` speaks of texts, not of errors.
* `ControlsAreTrue` excuses the time in which a timer that was lost still runs, and
  a source that was exchanged in place.
* `UntouchedStays` excuses fields that others wrote since the form was filled, and
  what the rounding of a size changes: that the two are the only ways is what it says.

The type invariants of the modules with proofs are theorems (section 7); that of
`FileRequests`, which says more than types, is part of its run.

`CHECK_DEADLOCK FALSE` stands where the system really stops: all upload ids of
the bound are used, all files of a queue handled, a walk or a search is over.

## 5. Bounds

* Two concurrent requests in every run with handlers: every race in the list of
  hazards is one between two; a third actor is the collector, the clock or a
  restart, which are actions of their own.
* `TusUploads`: two uploads, one or two paths, bodies of at most two bytes.
  Enough for a file with a written, an unwritten and a repeated part, for two
  uploads that share a path and two that do not.  The second kind of behaviour of
  `MCTusUploads` has one upload, two files of others and one move at a time (`Mover`),
  each of its system calls a step: enough for a copy into the upload, out of it, and
  around it.
* `PrivateFolders`: two workloads.  One request at a time has directories on two
  levels and two names, so that a move can hit a path below, beside and on top
  of a mark; two at a time, with failures and restarts, have fewer paths, because
  the actors are the question.
* `FileRequests`: two workloads.  `rights` has three accounts (an administrator,
  one whose scope is everything, one who has a directory), one request at a time
  of any kind, and everything rights depend on changing under it; `tree` has two
  requests of the administrator, four of them in all (`MaxCalls`), which is two
  that overlap on a tree two others have made.  Two directories with room for one
  file each and for the temporary files: enough for a move along, onto and below
  what another request works on.  `save_large` needs one request.
* `Archive`: two files and a directory around one of them, sizes 0 to 2, and two
  things that happen to entries (`MaxDisturbed`): one to what is in the archive and
  one to what is not yet; one entry that is no plain file (`MaxOdd`), at any place.
* `Accounts`: two accounts are ever created (`MaxId`), the first and the one
  that is promoted, demoted, renamed and deleted; one token is followed
  (`MaxSessions`), any of those given out; a patch gives at most two fields
  (`Bodies`), which is what tells a patch of one from a patch of both.
* `Guard`: times are scaled.  Window, first ban and eviction age are one tick,
  the longest ban and the honeypot's two, which keeps the ratios that decide
  (window equals first ban; the doubling reaches its cap).  `MaxStrikes` counts
  past the threshold until the ban no longer grows.
* `LoginBackoff`: two logins at once, three failures, three lengths of locks; the
  longest lock outlasts a streak and the one before it does not, as 4096 and 2048
  seconds and an hour do.  A comparison takes at most one tick (`Slow`), less than
  a streak.
* `Settings`: values on both sides of each limit: 0, in range, above the range
  that is loaded.  `MaxRate` is the code's own.
* `UploadQueue`: three files, two slots; two transfers of an item at once (one
  cancelled in preparation and the item's own). `MaxRejected` is the code's own.
* `Capability`: three mutations and up to two ends of a period, as many as an
  attempt and its renewal can meet.
* `ParallelWalk`: ten entries on three levels, three workers for three
  directories of the first level; the limit of three is reached in the second
  level while all workers are busy.
* `Search`: four entries, one hidden, a limit of three, two heartbeats.
* `Pages`: four things a reader does (`MaxActs`), three entries of history; a folder
  whose name is a reserved root, a file, and locations that are not canonical to
  begin with; servers with and without accounts, public, private and insecure.
  Enough to sign out, come back and sign in again, and to open one thing over another.
* `Browser`: four gestures over two folders of which one is in the other, two files
  of one name in them (so that a move can collide), and two orders; while the
  second order is shown the last two gestures are left out, and so is what follows
  where a rectangle is drawn while a change is under way, or an upload is under way
  after the last gesture (`Focus`).  Each kind of change is under way once, as the
  page allows; two changes at a time are (`Focus` leaves out three), which is one that
  settles while another is shown ahead of its answer.
* `Viewer`: six acts, two files with a viewer of their own (one new) and two that
  share one, two texts to type, of which one is over the limit of a save and has
  another as its beginning (`Beginning`).
* `Player`: five acts, three events under way, a delay of two parts.
* `SettingsForms`: four acts, two accounts; `FormatBytes` with units of 128 in place
  of 1024, whose three figures and four units meet every case of rounding, for the
  sizes at both ends of each unit.  The theorem asks for units of more than a hundred
  (`FormsBounds`), 1024 among them, and holds for every size and any number of units.
* The modules that share a run with others (`MCUploads`, `MCRequests`, `MCFront`, `MCGuard`) move
  on their own: the sum of their state spaces is explored, not the product.
* `Previews`: two requests, and one preview of another image that takes one of
  the two slots, so that the semaphore is at its limit; a preview has two pieces,
  one that was written again and one that was not; one edit; six inodes, as many
  as names and requests can hold at once.

## 6. Fairness

* `TusUploads`: handlers run on (SF, because `sync.Mutex` passes the lock to a
  waiter that starves), the clock and the collector's ticker go on.  Nothing is assumed
  of clients: where a handler reads a body (`Waits`), also the rest of one it has
  refused, the next byte may never come, because `server.go:300` limits the headers
  and idle connections only.  Restarts are not fair.
* `Guard`: time passes, requests in the chain go on, and, for `ShutOutGetIn`,
  the client keeps asking.
* `LoginBackoff`: time passes, comparisons end, and, for `ShutOutGetIn`, whoever
  knows the password keeps trying.  Restarts are not fair.
* `UploadQueue`: promises settle and tus-js-client reports an end, because it
  gives up after its retries.  The user owes nothing.
* `Capability`: requests are answered; keys and the settings need not rest.
* `ParallelWalk`: goroutines are scheduled and the caller's function returns.
* `Player`: events are told and timers run; nothing is assumed of the reader or the
  network.
* `PrivateFolders`, `Accounts`, `Settings`, `FileRequests`, `Archive`, `Pages`,
  `Browser`, `Viewer` and `SettingsForms` have no liveness properties and no
  fairness: what they promise is about the moments in which nothing is under way.
* `Search`: the heartbeat's goroutine is scheduled; nothing is assumed of the
  walk or the client.
* `Previews`: handlers run on, those that render other images included; a sender
  on a channel is served in turn (SF on `Acquire`).

## 7. Proofs

Eight modules hold proofs, for any values of the constants that satisfy the named
assumptions of the modules they are about.  Where a run checks the property on
an instance, the theorem is the same property for all of them: the proof modules
of parts that share a run extend the module of that run, and `EachRuns` says that a
behaviour TLC looks at there is one the theorems of each part speak of.
The type invariants but that of `FileRequests`, `CompleteLeavesRegistry`,
`FetchForWaiters`, `RowsHaveOwners`, `PatchKeepsOthers` and `UploadLimitsAgree` are
proved and not checked by a run of their own.

| Module | Theorem | States |
|---|---|---|
| FileRequests_proofs | TypeCorrect, RightsAreHeld | TypeOK, RightsHold |
| FileRequests_proofs | PartialFilesHaveCause, PartialFilesAreCopies | OnlyCopiesArePartial, in the second |
| FileRequests_proofs | LossesAreExplained, NothingElseGoes | NothingElseIsLost, in the second |
| Uploads_proofs (server) | TypeCorrect, PrefixOnDisk, WholeOnceAnswered, FinishedUnregistered, AnsweredBound | TypeOK, UploadIsPrefix, CompleteIsWhole, CompleteLeavesRegistry, AnsweredWhileBound |
| Uploads_proofs (browser) | QueueTypeCorrect, SlotsAreFilled, EachRuns | TypeOK, SlotsFollowTransfers |
| PrivateFolders_proofs | TypeCorrect, NoOrphanedMarks, LoneRequestsRefresh | TypeOK, RowsHaveOwners, LoneReloadIsFresh |
| PrivateFolders_proofs (serial) | MarksFollow, OwnersUnset | SerialMarksAreTrue, SerialUnsetByOwner |
| Accounts_proofs | TypeCorrect, SessionsAreKept, OriginalIsKept, LastAdminIsKept, PatchIsPrecise | TypeOK, SessionsKeepTheirAccount, OriginalStays, LastAdminStays, PatchKeepsOthers |
| Guard_proofs | BackoffTypeCorrect, GuessesAreBounded, ForgettingIsInvisible, BansHaveCauses | TypeOK of LoginBackoff, GuessesAreFew, EvictionInvisible, BanHasCause |
| Front_proofs | TypeCorrect, SettingsAlwaysSurvive, OneUploadLimit, LoneUpdatesPersist | TypeOK of Settings, SettingsSurvive, UploadLimitsAgree, LonePersists |
| Front_proofs (viewers, pages) | TextBelongsToRoute, ShownTextIsSaved, OffersAreTrue, RoutesAreKept, EachRuns | TextIsOfItsFile, ShownIsSaved, OffersMatchServer, RouteIsKept |
| Front_proofs (forms) | UntouchedFieldsStay, FormsAlwaysSettle, EverySizeSettles | UntouchedStays, FormsSettle |
| Front_proofs (Browser) | ListingsAreTrue, SelectionsAreInFolder | QuietListIsTrue, SelectionIsInFolder |
| Requests_proofs | PreviewTypeCorrect, DecodesHoldSlots, PreviewsAreWhole | TypeOK of Previews, SlotsAreHeld, ServedWhole |
| Requests_proofs | TokenTypeCorrect, FetchesHaveWaiters, OneRenewalIsEnough | TypeOK of Capability, FetchForWaiters, RenewedOnce |
| Requests_proofs | ControlsTellTheTruth, EachRuns | ControlsAreTrue |
| Listing_proofs (walk) | WalkTypeCorrect, ReportedOnce, WalkKeepsPromise | TypeOK of ParallelWalk, NoneTwice, Implements |
| Listing_proofs (search, archive) | SearchShowsAll, ArchivesAreWhole, EachRuns | ShownInFull, ArchiveIsWhole |

Each follows the same argument: an inductive invariant of named parts, which the
initial states satisfy, one lemma per action (or group of actions with the same effect)
that a step keeps it, and the properties as consequences of it (invariants) or of it
and a step (action properties).  Why the properties need more than themselves:

* **`FileRequests`.**  `TypeInv` adds to `TypeOK` what a request has found out by the
  step it is at (`FitFor`: a move never copies into its own source, what it still has
  to copy is in the source).  Every operation of the storage keeps `IsTree`
  (`RemoveCloses`, `ReachCloses`, `PutCloses`, `RenameCloses`), which rests on facts
  about paths: being under is an order, the parent of a path that is strictly under
  another is under it, and rebasing keeps both and can be taken back.  `LawInv` ties
  a request's history to its check: once `Check` has passed (`Ground`) the history
  contains a moment of rights and never loses it, and before that it contains the
  present (`Present`), so that whatever `Check` finds is in it.
  `PartInv` is what a request can rely on beside others: as long as no move
  interferes, what a save has open is its own temporary file, of which there is no
  leftover when it begins, and what a move is writing lies below its destination.
  What another request does to that (`Spares`: it may take it away, and nothing else
  puts something in its place) is shown once for every kind of step, which is what makes
  the proof one of many requests.  `LoneInv` is about a move that nobody overlaps:
  source and destination are apart, whatever is complete below the destination is
  equal to what is at the same place below the source (`Faithful`), and every file
  below the source is still to come, is the one being written, or has a copy that is
  equal (`Left`, `Held`).  So removing the copies after a failure, or the originals
  after the last one, loses nothing.  That a file to come is reached rests on
  `WayDown`: between a directory and an entry below it there are directories all the
  way, the next of which is among its children.
  A body over the limit is cut short and put in place (section 8), so that the two
  properties as the run checks them assume `Large = {}`; the theorems before them
  make no assumption and say `Written`, the body as far as the limit.
* **`TusUploads`.**  That the next byte lands behind the last one follows only
  from what the writing request remembers, so the invariant ties the pieces
  together: `RequestInv` (a running handler has a session, and a session still
  being created has one request), `SessionInv` (a session is bound to an inode
  when and only when it has been opened, unused inodes are bound to nothing),
  `LockInv` (a request that copies holds the session's lock, started at the
  offset found on disk, and has written at most what remains), `WriterInv` (on
  an inode of its own the length on disk is what the request found plus what it
  wrote) and `FinishedInv` (finished uploads are closed and unregistered).
  `Structure` is proved first, because it does not depend on the bytes; `Disk`
  then follows with a frame lemma for the many actions that touch neither bytes
  nor locks.  A move's copy writes into
  whatever inode it has opened; what it may have hit is in `overwritten`, so that the
  rest of the invariant is about uploads it has not.  `AnsweredWhileBound` needs
  `BoundInv` (an upload that is open, or is being answered for and was not collected,
  `Held`, has its file at its path) and `UndrawnInv` (an upload that is not
  yet created has no path); both hold where no other handler works on the tree, and
  that is all the theorem assumes: bodies may stall.
* **`UploadQueue`.**  `Matched` (a listed item has one transfer that is not over
  while it is active, its current one, and none otherwise) and `Fresh` (a file
  that has not been queued has none).  That `pump` fills every slot is a fact about
  the order in which it picks: the items it starts are the first of those that
  wait, by a least element of a set of numbers.
* **`PrivateFolders`.**  `AllChecked`: a handler that is about to write works on
  paths it has checked; `Alone`: a request that nothing overlapped and that is
  about to install a copy has read the table as it still is.  With one request at a
  time, `SerialInv` says where the marks are at every statement of it.  While
  marks follow a directory that has moved each is on its way to one path (`Place`),
  and below a directory that is gone each is about to be removed (`Doomed`); `InStep` says
  of those places what `SerialMarksAreTrue` says of the paths at rest
  (`MarksHaveFolders`, `FoldersHaveMarks`), that no two of them meet (`NoneMeet`), and
  what the handler under way has still to do (`StillHolds`).  The tree is closed
  under parents (`TreeIsWhole`), or else a mark could be of a path that comes to be
  as the parent of another.  The rest is about paths: that moving the ones below a
  directory keeps them apart and can be taken back (`RebaseOnce`, `AboveRebased`).
  `MarksFollow` and `OwnersUnset` ask for `"intent" \in Enabled`, as in the run: only
  then does the model keep the history they speak of.  TLC checked `SerialInv` on
  the run's paths and on three levels with three directories.
* **`Accounts`.**  What one statement of a request may rely on was read by an
  earlier one.  `Knows` says what is certain at every point of a handler
  whatever the others do (an account about to be deleted is not the original,
  because ids are not used again and no statement makes an original of a row);
  `Checked` what is certain besides while nothing overlaps (another admin was
  counted; what is not given was read); `Rows` that ids above the last one are
  free and those of sessions are not.
* **`Guard`.**  `EvictedWasIdle`: the program and the history that never forgets differ
  only in what was evicted, and that was idle so long that the bucket would be full
  at any rate and the strikes would start over.  Both decide alike on such entries.
* **`LoginBackoff`.**  `LockedByStreak` (while the address is locked, whatever is
  still compared began before the last failure, so that it finds no stale streak;
  this is where a comparison has to be shorter than a streak), `UnlockedMayFail`
  and `CreditSuffices` (an address that is not locked may fail as often as failures
  are missing from the next lock).
* **`Settings`.**  `Accepted` (what an update is writing was validated, and an idle
  request writes nothing), `Written` (the rows of an update that nothing
  overlapped have its values, but for those still to be written), `Firm` (what is in
  `firm` is stored and active) and `Shape` (requests are records, rows are at their
  keys).  `SettingsSurvive` rests on `Firm`, on the guard and the registry having what
  the configuration has before and after, and, for a start that does not tell the
  guard of the rows, on `BootGuard`: then none of its own was taken over, and the
  environment it was built from is what it would have been told.
* **`Viewer`.**  `LoadsAreOfBody` (what is read is read for the component that is
  mounted, and is what the file holds unless it is known to be late),
  `SavesAreOfBody` (one save at a time is of that component, and once it is done
  the file has its text, or the beginning of it, `StoredIs`), `TextsOfBody` (only a component without a key shows the
  text of another file, and then something is being read).
* **`Pages`.**  `MeIsNow`: what is known of the account, or was served, is how things
  stand, unless an answer is on its way after which it is read again; a sign-out that
  was served is such an answer only while nobody has signed in since (`UpToDate`).
  `RoutesAreKept` rests on `Routed`: the present route is the one its entry of the
  history is read back as, whatever wrote the entry.  That needs `Kept` (what
  forms and requests under way will navigate to are paths), and of paths that a
  normal one is its own normal form (`NormalIsClean`, `CleanIsNormal`), that the base
  path is taken off again (`MountIsTaken`) and that an entry is read back as the route
  it was made from, but for a folder whose own name is a reserved root (`FolderReadBack`,
  `EntryKeeps`).  `Accounted`: whoever is signed in has an account on the server, so that
  the guards have nowhere else to send them.  Names are words (`Word`), of which
  strings are some: the provers do not know that a literal is a string.
  The attempt to prove `FolderStaysBehind` showed that it was false as first written:
  it looked for its one excuse, a folder whose name is a reserved root, at the entry
  the reader came from, and not at the entry that was written.
* **`Browser`.**  `KeptIsTrue`, for each listing (`LagIsTrue`): one that has missed
  nothing is what the server has, unless a change is shown ahead of its answer
  (`Ahead`), and so is an answer on its way; and while one has missed a change the
  tab is to be told of, a change is under way that will tell it (`Awaiting`).  `ScreenIsKept`: what is shown is being read
  or kept as good, unless a change has given its reading up and will ask again.
  `BandIsOf`: what a rectangle can meet lies in the folder it was started in.
* **`SettingsForms`.**  `CacheIsKnown` (what is cached or on its way is the server's but
  for what is known to be stale), `FormIsFaithful` and `SavesAreFaithful` (what
  nobody touched differs from the server by the rounding of a size), `SavesOfForm`
  (the save of the form that is open sends what the form holds).  Finding it showed
  that the history of a save had missed what an earlier form of the same tab writes
  while the save is under way; `Outdated` keeps it for every save now.
  `SavedIsStored`, for `FormsAlwaysSettle`: of a form that is saved, and of a save that
  was answered, the server has what was sent wherever nobody else wrote (`Reached`),
  also while the same is sent once more; and what is cached, or served, of its topic is
  behind the server in nothing but what others wrote.
  For `EverySizeSettles` a size of at least one unit is one of three cases, by how many figures
  are before the point (`Within`); in each what is read back is the nearest
  multiple of a hundredth, a tenth or one of the unit, rounded to a byte
  (`RewrittenIs`), and doing that again finds the same multiple, as long as the unit
  has more than a hundred parts (`RewrittenTwice`).  A size that is rounded up to the
  next case, or to the next unit, is that unit's one, ten or hundred (`RewrittenAbove`),
  which are displayed as they are (`RoundDisplayed`).
* **`Capability`.**  `Recent`: no fetch that was answered before a mutation began
  can reach its second attempt.  `Past`: nothing is of a period to come.
* **`Previews`.**  `Apart` (a file serves one stamp), `Sole` (a stamp no two
  requests wrote at once has one writer, whose temporary file is its own and
  filled as far as it has come; what is in the cache is whole and is not that
  file) and `Fits` (what a request holds at the point it has come to).
* **`Player`.**  `PlaysAsTold` and `SoundsAsTold`: the last event on its way that says
  whether the element plays says what it does now, and where there is none, what is
  shown does.  `HeldLong`: the timer that hides the controls and the time since
  the last touch add up to the delay, unless a timer was lost.

* **`ParallelWalk`.**  `ShareInv` (what a worker has still to look at and what it has
  found for the next level lies in directories of this level that were handed out,
  and no two workers have anything in common), `QueueInv` and `LogInv` (a level is of
  one depth, nothing on the way to it is pruned, and what was reported lies no deeper
  than what comes next), `ReasonInv` (what stops a walk, and that an error is recorded
  before its level ends), `CoverInv` (while there is no reason to stop, what is
  asked for was reported, is missed, or is at or below something queued, handed out or
  found).  `WalkKeepsPromise` maps every step on one of `Traversal` or on none:
  a call is `Visit`, what disappears is `Vanish`, and the end of the walk, or of a level
  with an error, is `Return`, whose condition is `CoverInv` with nothing queued.
  `Path` and `Found` are recursive functions; that they are what
  their equations say is proved by a least counterexample.
* **`Search`.**  `LinesInv` (the lines are the visible matches reported so far, as long
  as the client is there) and `EndInv` (only a client that has gone is a reason to stop
  early).
* **`Archive`.**  `TraceInv` (nothing is hidden or gone without a trace),
  `PlacesInv` (a visible file without one is at one place, to be written or written),
  `WrittenInv` (what is written of it has all its bytes, but for the one under way and the
  one that has ended the loop, which is the last) and `PlaceInv` (what ends well, and
  not with such a member, `LastFits`, has nothing left to write).

TLC checked the invariants' parts as they were found, on the instances of the
runs.  Assumptions beyond types: the values that stand for nothing differ from
those that stand for something (`EntryAssumption` and its like), requests are
finitely many (`Previews`, whose semaphore counts them, and `LoginBackoff`), a row of
a table is not the value for no row (`Accounts`), paths lead up to the root
(`PrivateFolders`, `FileRequests`).  `PathAssumption` says besides that no path of a
request has the name of a temporary file in it: that ends in a random number, and a
request that names one it has found in a listing is left out.
`StartAssumption` says that the tree is one to begin with.

Only model-checked, because the prover does not reason about fairness and `ENABLED`:
the liveness properties `AbandonedVanishes`, `EverythingEnds`, `ShutOutGetIn`,
`EveryListingEnds` and `NothingHangs`.  Every invariant and every action property a
run checks is a theorem.  `TypeOK` of `Guard`
documents its state.  No module uses `RECURSIVE` operators; of the recursive functions
(`NormalizeStoragePath`, `UnitSize`, and those of the walk) it is proved that they exist and
satisfy their equations, and what they compute, by a least counterexample (`Least`, `UpTo`)
in place of induction.

## 8. Where code and expectation part

Reading and modelling the code showed states a reader might not expect.  The
properties are stated so as to say exactly what holds; these are the cases they
leave out, and what a stronger property would meet.

Uploads:

* An upload of length zero is complete when it is created, but only a PATCH
  takes a session out of the registry: without one the collector removes the
  whole (empty) file (`tus.go:87`).
* The collector and DELETE remove by path.  A file that was put at the path
  after the session was opened, or that a PATCH completed after DELETE took the
  session, goes with it.
* Two creations of one path both find it free and both open it with `O_TRUNC`;
  the bytes of the first are lost without override having been asked for.
* A restart forgets the sessions and leaves their partial files.
* A move between file systems looks whether its destination exists (`local.go:657`)
  and opens it for the copy later, with `O_TRUNC` (`local.go:819`): an upload created
  there in between is emptied and filled with the bytes of the file that is moved,
  while its own PATCHes write on, so that an upload that was answered as complete need
  not be whole.  The copy that fails removes what is at the destination by path
  (`local.go:674`), which may be the upload by then.
* Nothing limits how long a body takes (`server.go:300` sets `ReadHeaderTimeout` and
  `IdleTimeout`): a client that is there and sends nothing keeps the lock of its
  session, and HEAD, PATCH and DELETE of that session wait, for as long as it likes;
  the same while the rest of a refused body is drained.

Private folders:

* Two reloads that read the table in one order and install what they read in
  the other leave the engine's copy behind the table until the next mutation.
* Moving a private folder to a path that is marked fails in the table after the
  directory has moved, and is only logged; a restart between the two has the
  same effect.
* The owner is checked against the copy and the row is deleted later: it may be
  another account's by then.  Marking asks whether the path is in the
  account's scope and leaves the rest to the caller (`authz.go:196`), which does
  not look: an account can take another's mark over, and a path without a
  directory can be marked.
* A move whose source is missing leaves the directories it made above its
  destination (`local.go:660`); those are nobody's.

Accounts:

* Two requests can each count the other's admin and leave none.
* A patch writes back an attribute that another request changed after it was
  read; a change of password overwrites a reset that fell between its comparison
  and its write.
* Two setups can both pass the check; the password of the later one stays.
* An original admin that was renamed gets a second original beside it at the next
  start with `FILEBROWSER_ADMIN_PASSWORD`.

File requests:

* `PUT /api/raw` wraps its body in a reader that fails after the size limit and
  hands the same limit to `Storage.Write`, whose own reader stops there without
  an error.  The 413 of `admin.go:138` is therefore never answered: the beginning
  of a longer body replaces the file, and the answer is 200.  Run `save_large` is
  the counterexample, listed under `findings`.
* A batch of deletions in which the permission for a later path is refused answers
  401, 403 or 404 and does not say what was deleted, where a path that is missing
  is answered 207 with the list (`admin.go:36`).
* Outside the scope the answer is 403, also for what is private to somebody else.
* An edit token is for a path: it outlives the file and is good for the next one
  of the name.
* Move looks whether the destination exists and renames afterwards: a file that is
  created in between is replaced.  Directories made for a move that then fails
  stay.  A save whose directory is moved leaves its temporary file behind; one
  that overlaps two moves between file systems can put a half copied temporary
  file in its place; and two copies of one directory at once can make a whole
  file partial again.  With three directories, a file two moves are copying to one
  destination can be renamed on to a place that is neither end of the first, which
  then ends the file there over what the second has completed: found when the
  invariant of the proof was checked on a larger instance than the run's.

Guard and login:

* Strikes lapse while a ban is served, so that the next ban is not longer than
  the one before when ban and window are of one length.
* A strike that is late replaces a honeypot ban by a shorter one.
* A download rate below the size of the floor lets no download of that size
  pass, full bucket or not.
* The longest lock of a login is 4096 seconds, where a comment speaks of a cap of an
  hour (`auth.go:194`): after it the streak is stale, and the address is let have all
  its failures again.

Settings:

* Cleared proxies come back from the environment at a restart, because the empty list
  is stored as the text that also stands for a missing row (`server.go:260`), and a rate
  over 1,000,000 is accepted and not loaded again (`server.go:197`).
* Overlapping updates can leave the row of one and the active value of another.

Uploads from the page:

* An upload cancelled while it is prepared is transferred all the same.
* A retry begins with the URL of the attempt that failed.

Tab:

* On a private server without accounts the first visit ends at the login screen: of
  two effects of one commit the second replaces the setup screen the first has
  asked for (`App.tsx:62`).  Run `setup_first` is the counterexample, listed under
  `findings`.
* A sign-out whose answer is lost leaves the page as it was, although the session has
  ended: what it offers is then behind the server until "me" is read again.
* The answer to a creation navigates to the new file also when the dialog was closed
  and another one opened.

Page of a folder:

* A change that is taken back restores the listing as it was when the change was
  made, without what has been read or changed since; reading it again at the end
  repairs that.
* A drop of several entries of which one is refused leaves the listing without those
  that were moved unread until something else has it read (`dnd.tsx:136`); a move
  that fails after the folders on the way were made leaves these unread, too.
* A listing that is not on the screen when a change settles is marked and not read
  again, and one that is read for the first time is not given up: if its answer was made
  before the change and arrives after, it is kept as good, although the tab was told of
  the change (`Browser.tsx:58`, `76`).  It lasts until it is marked again, or is shown
  after the five seconds it counts as fresh.
* A selection rectangle survives a change of the folder and puts the entries of the
  folder it was begun in into the selection of the other (`useMarquee.ts:45`).

Viewers:

* A text over the limit of a save is cut short on the server and answered 200 (File
  requests, above): the editor takes the whole text for saved, and shows it until the
  file is read again (`CodeViewer.tsx:118`).
* What is typed while a save is on its way is dropped by its answer
  (`CodeViewer.tsx:118`).  Closing, going back or opening another file does not ask
  about a draft.
* The flag to edit is in the history: coming back to a file that was created, or
  reloading, opens an empty draft, which Ctrl+S writes over the file, even before its
  text has been read (`CodeViewer.tsx:100`, `131`).
* An error of Markdown or PDF stays when another file of the kind is opened over it
  (`MarkdownPreview.tsx:21`).
* When a video begins to play after a touch, the timer of the touch is lost and may
  hide controls that were asked for since (`VideoPlayer.tsx:39`).
* Another video opened over one that plays pauses the element without an event: the
  button says "Pause" and the next click plays (`useMediaPlayer.ts:62`).

Forms of the settings:

* A form sends every field with what it held when it was opened: it takes back what
  another administrator has changed since (`SystemPanel.tsx:55`, `UsersPanel.tsx:192`).
* A size is displayed in three figures and saved as displayed: saving another field
  changes it, by less than a hundredth.  From a PiB on it is read back as bytes
  (`format.ts:25`).
* The answer to a save forgets a choice of policy or name that was made while it was
  on its way, and closes the form of whichever account is open by then
  (`PolicyPanel.tsx:19`, `UsersPanel.tsx:118`).

Walk, search, archives, previews:

* Calls of the function that wait for the mutex when it returns an error are
  still made.
* The walk goes level by level, where a comment speaks of depth first.
* The heartbeat of a search may write once more after the handler has returned.
* An entry that cannot be opened or read ends the loop of an archive: one that has
  vanished since the walk, a link that leaves the root or leads nowhere, a file the server
  may not read, a link to a directory (which opens, and cannot be read), and in a tar a
  file that has grown or a link, whose header has the length of the link.  The archive
  is closed all the same (`download.go:225`): a zip, or a tar whose last member is full,
  is well formed and lacks everything behind that entry, where a comment says
  that clients detect it.  A tar whose last member is shorter than its header is
  detected.
* Two requests that render one preview at once write to one temporary file: part
  of a preview may be put in place.  An edit within one second that keeps the
  size keeps the old preview.

## 9. What is not modelled, and the plan

Left out for good:

* Parsing and formatting: Upload-Metadata, multipart and JSON bodies, NDJSON,
  SRT to VTT, EXIF orientation, scaling of images.
* Hashing and signing are equality: a password matches or does not, a token is
  good or not.  Their strength is not a question a model answers.
* Special files, which block who opens them; a failing `os.Remove` in `Abort`
  (`local.go`), which would leave the partial file of an upload that is given up; an
  edit of an image that is not put in place in one step (`Previews`); a move between
  devices of a whole directory over the path of an upload (a file at a time is modelled).
* SQLite: a statement is atomic and durable, foreign keys cascade as declared.
* What is only displayed: icons, details of a file, view modes, the theme, images,
  highlighting, the page about the server; `OPTIONS`, health, static files.
* Of players the position, rate, captions, full screen and picture in picture, which
  follow the element one assignment at a time; of forms the new account, passwords
  and the dialog that removes an account, which read nothing that can be stale; of
  listings totals and sorting.
* Names: natural order, path cleaning, the client's address behind proxies, the
  subtitle of a video.  They are functions of one argument each, and no property of
  the other components tells their results apart.

Done, in this order, because uploads are where data is lost, marks where privacy
is, accounts where administration is: `TusUploads`, `PrivateFolders`,
`Accounts`, `Guard`, `Settings`, `UploadQueue`, `Capability`, `Traversal`,
`ParallelWalk`, `Search`, `Previews`, `FileTree`, `FileRequests`, `Archive`,
`Pages`, `Browser`, `Viewer`, `Player`, `SettingsForms`, `LoginBackoff`, and the proofs of section 7.

Next, as modules: the retries, resumption and chunking of
tus-js-client against `TusUploads`, as an implementation of a store of whole files.
