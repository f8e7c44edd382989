# Verification of MCRITweb

MCRITweb is the web front end of MCRIT: a Flask application that several worker
processes, each with several threads, run over one SQLite file, one directory of
cached files (`instance/`) and one remote MCRIT backend.  None of its views takes a
lock of its own except two small ones around module globals, so what can go wrong is
what two requests do to the same row, file or cached answer.  These modules model
that: what each request reads, holds and writes later, in which order, with requests
killed, databases busy and answers late in between.  Two of its pages are programs of
their own, in which callbacks of the browser interleave: the comparison of two functions
and the import of samples.

All paths below are relative to the root of the repository.

## Inventory

| Component | Source | State it keeps | Operations | What is hard | What makes it correct |
|---|---|---|---|---|---|
| Accounts, sessions, first registration | `mcritweb/views/authentication.py`, `views/administration.py`, `db.py` | tables `user`, `server`; the signed session cookie of each browser | register (first, later), login with rehash, logout, rename, change password, regenerate token, change role, delete | requests read a row, keep a copy and save it later; the first registration is decided before it runs; the cookie is only as new as the last response | set up once and governed by an admin; a save changes what was asked for and nothing else; a session does not outlive its password |
| Login throttle | `db.py` 801-880 | table `login_attempt` | record and prune, count, clear | count, try and record are three steps; the edge of the window | the limit is overshot by at most the logins in flight; a login never clears another name's failures; a block expires |
| Reachability probe | `views/utility.py` 148-344 | module globals `_probe_cache`, `_probe_generation`, one pair per worker | probe, remember, forget | the lock is not held across the probe; settings change meanwhile | nothing stale is replayed, nothing from before a forget |
| Result cache | `views/data.py` 54-345, 690-856 | `instance/cache/results`, `incomplete`, `diagrams` | look up, open, write and rename, trim, reset | every file operation can meet another request's | whole reports of the right job; the bound holds up to the writers in flight |
| In-process memo | `views/memo.py`, `views/functiondiff.py` 291-357, 461-557 | `BoundedMemo` per name and worker | lookup, store, get, clear | computing outside the lock, clearing at a reset | weight is the sum of the entries and within the bound; nothing from before a reset |
| Query upload and promotion | `views/analyze.py` 456-534, `views/data.py` 2155-2288 | `instance/temp/uploads`, jobs and samples of the backend | submit, store, promote | the upload is stored after the job is queued; two promotions race | only the bytes the job ran on are promoted |
| Modification read-back | `views/explore.py` 256-398, 467-520 | none here; a queued job of the backend | modify, poll until seen or timeout | the job runs later, reads fail | "modified" is said only of what was seen |
| Job overview and deletion | `views/data.py` 1618-1958 | none here; the backend's queue | overview, poll, delete one or many | rendered and polled state are two reads; jobs are deleted meanwhile | every change of a running job reaches the page, which reloads for nothing else |
| Per-user settings | `db.py` 309-679, `views/administration.py` 78-161, `views/utility.py` 370-384 | tables `user_filters`, `user_column_settings` | read, create, save, sanitize | read-then-insert against itself and against deletion | one row per user, none without a user, saved settings are kept |
| Schema migration | `db.py` 726-798 | the schema | migrate at start-up | autocommitted ALTER TABLE, several workers, crashes | nobody serves an old table; a migration replaces no token; the next start repairs a killed one |
| Signing key | `secret_key.py` | `instance/secret_key` | load or create | two workers create it at once | a later start signs with the key in the file |
| Function comparison page | `static/function_compare.js`, `static/trace_CFG/main_duo.js` | two panels, their zoom, highlight, loops and edges; the combined view | load, pan, zoom, centre, highlight, hide, tick, switch | two graphs, their loops and a third graph arrive in any order; each panel's zoom event moves the other | panels stay in step and wear what is chosen |
| Import page and queue | `static/dropzone.js` (`addFile` and the queue), `templates/import.html` | the files and their status; deferred callbacks | drop, read, queue, send, answer, leave | reading is asynchronous, callbacks deferred, answers in any order | every queued file is sent, in turn; the page leaves for a report that exists |
| Client, entry lookups | `views/client.py` | `g` of one request | look up many entries | fallback for old backends | every id is answered, asked once |
| API passthrough | `views/api.py` | none | relay | | |
| Import, export | `views/data.py` 419-645 | one session key | upload, redirect | | |
| Pagination, cursors | `views/pagination.py`, `views/cursor_pagination.py` | none | arithmetic | boundaries | pages cover the list once |
| Graph and diff algorithms | `views/cfg_explorer_detector.py`, `views/functiondiff.py`, `search_highlighting.py` | none | loops, block matching, interval merging | | agreement with a definition |
| CSRF | `csrf.py` | one session key | compare | | |
| Application factory | `__init__.py` | configuration | create | | |
| Rendering | templates, `static/`, `views/MatchReportRenderer.py`, `views/ScoreColorProvider.py`, `jobnames.py`, `manual.py`, `autocomplete.py` | none | | | |

The components meet in four places: the `server` row (written by registration and by
the admin, read by every request and by the probe), the `user` row (accounts,
settings, throttle), the reset (backend, probe, directories, memos, in that order) and
the job ids the backend hands out (result cache, uploads, overview).  A request runs
in one thread; `before_app_request` hooks read the user count, the server row and the
account of the session, `after_app_request` marks the session, and the database
connection is closed, uncommitted writes discarded, when the request ends.

## Modules

| Module | What it is |
|---|---|
| `AccountData` | rows, settings, tables and the questions asked of them |
| `AccountStore` | abstract: every change of an account is one atomic, authorised step |
| `Accounts` | the requests that implement it |
| `AccountsProofs` | theorems about `Accounts` and about `LoginThrottle` |
| `MCAccounts` | its instances: asks, cookies and tables for TLC |
| `ServerProbe` | the cached probe answer |
| `ServerProbeProofs` | theorems about `ServerProbe` |
| `MCServerProbe` | its instances |
| `ResultCache` | reports on disk, trims and the reset |
| `ResultCacheProofs` | theorems about `ResultCache` |
| `MCResultCache` | its instances |
| `ComparisonMemo` | the in-process memo and the pages that use it |
| `ComparisonMemoProofs` | theorems about `ComparisonMemo` |
| `MCComparisonMemo` | its instances |
| `StartUp` | the schema migration and the signing key, by starting workers |
| `StartUpProofs` | theorems about `StartUp` |
| `MCStartUp` | its instance |
| `LoginThrottle` | failed logins and wrong registration tokens, metered |
| `MCLoginThrottle` | its instance |
| `QueryJob` | a query from its upload to its promotion, and the pages that watch its jobs |
| `QueryJobProofs` | theorems about `QueryJob` |
| `MCQueryJob` | its instance |
| `ComparePage` | the two panels of a function comparison, and their combined view |
| `ComparePageProofs` | theorems about `ComparePage` |
| `MCComparePage` | its instance: two small graphs with loops |
| `ImportPage` | dropped files, the upload queue, and the report |
| `ImportPageProofs` | theorems about `ImportPage` |
| `MCImportPage` | its instances |

### Accounts

`user[i]` is the row with id `i` or `None`, `seq` the AUTOINCREMENT counter, `server`
the settings row, `lock` the holder of SQLite's write lock, `jar[b]` the session cookie
of browser `b`, and `req[r]` what request `r` is at.  A request starts with the hooks
(`Start`), runs its view (`pc = "view"`), and goes through as many further steps as the
view has statements on the database that other requests can come between: `"found"`
(the transaction of a first registration), `"clash"` and `"write"` (the two statements
of `UserInfo.saveToDb`), `"login"` (the rehash), `"respond"` (the hook that marks the
session, and the response reaching the browser).  `May` and `Enters` are the decorators
and early returns, `Merge` and `Saved` the columns a save writes: those that differ from
the copy read.  `Busy` is a busy timeout of any write, also of the settings and
account of a first registration, whose error page is rendered with the transaction open, and
of a commit, which leaves the write lock taken; so does a name that the UNIQUE column
refuses.  The lock is free when the connection closes (`Respond`).  `Lost` is a request
killed or a response that never arrives.  Passwords are model values, a hash is the password with its method and a
fresh salt; salts and tokens are drawn from the counter `minted`, since the code draws
them at random.  `era` and `spent` are history: how often the password of an account
changed, and every secret the table ever held.

`AccountStore` has one step per kind of change and no requests.  `ImplementsStore` is
the refinement: every behaviour of `Accounts` is one of `AccountStore`'s, with the
tables themselves as the mapping.  It is what excludes a replaced hash or token coming
back, a deleted account coming back, and ids being reused.

### ServerProbe

Threads belong to workers (`WorkerOf`); each worker has an entry and a generation, as
the module globals of its process.  A page reads the settings (`Arrive`), takes entry
and generation under the lock (`Lookup`), replays or probes outside it (`Check`, `Ask`,
`Receive`, `Fault`), and offers its answer under the lock again (`Remember`).  `Save`
and `Forget` are `change_server`; a request that begins with `Forget` is
`reset_server`.  The backend may accept or refuse the token as it likes to be correct,
and may fail at any time.  An answer carries, as history, the version of the settings
it was asked with and the generation of its lookup.

### ResultCache

`results` is the set of files in `cache/results`, named by second and job; `cache` says
how much of the directory tree exists; `parts` are the files in `cache/incomplete`.
Listing, opening, renaming and removing a file are actions of their own, and so are the
phases of the recursive removal in a reset: `rmtree` lists (`Scan`), removes what it listed
(`Unlink`, which raises on some versions of Python when a trim was faster), removes the
directories (`Rmdir`), and they are made again (`Mkdir`).  One step each are the calls that
write a temporary file (`Write`), the stat calls of a trim (`Stat`), and the removals of one
`Unlink`.  What a file contains is the job it is named for and whether it is whole.  A
download asks the backend only for an id that `JOB_ID_PATTERN` matches: those are `HexIds`,
and `Known` is what the view then has of the job.  `Kill` ends a thread
wherever it is.  A sum of sizes (`Total`) is counted byte by byte, as a set of pairs of a
file and a number up to its size: the prover knows finite sets and their cardinality.

### ComparisonMemo

`entries`, `order` and `weight` are the fields of a `BoundedMemo`, whose `OrderedDict` is the
set of its entries and the order of their keys; `Sum` counts weights as `Total` does sizes.  Each of its methods
holds its lock and is one operator (`Found`, `Store`) or action (`Forget`).  A page has both
functions in the answer of the backend (`Begin`), a combined graph fetches them one after
the other (`First`, `Second`); then `Lookup`, on a miss `Compute`, and `Keep`.  The backend
changes in between: `Change` in place, `Respawn` or `RestartElsewhere` for everything, and
`Submit` for what gets the ids next.  A comparison is the two contents it was made of, the
sample whose base address went into it, and whether its graph is drawn.  The base address
is not part of the key, as `_memo_key` says itself: `ResetForgets` states how far that goes.

### StartUp

A worker is at a point `pc[w]` of `create_app`: it reads the signing key, creates and
writes it if there is none, and then goes through `migrate`, which looks at each table,
drops and creates those that are not there, reads the columns of `user` and `server`,
alters and fills them, and commits.  `db` is the committed database, `staged` what the
holder of the one write transaction (`writer`) sees of it.  `sqlite3` opens a transaction
before an `UPDATE` or `INSERT` but not before `ALTER TABLE`, `CREATE` or `DROP` outside
one, so those are committed at once; a statement that fails ends the worker.  A worker
may be killed at any point and starts again.  `calm` is history: no worker has ever
started while another was starting.

### LoginThrottle

`login_attempt` counts the rows of each address, name and age, since only how far a row
lies behind the clock is ever asked; `Tick` makes all of them a second older.  A request
asks (`AskThrottle`), tries (`Try`), and records or clears, each a statement of its own.
Its names are none of those of `Accounts` (`ThrottleInit`, `ThrottleSpec`), so that
`AccountsProofs` extends both.

### QueryJob

Each tab is in the middle of one request or one page.  A submitting tab has its job queued
(`Submit`), opens the upload and writes it (`OpenUpload`, `WriteUpload`; each may fail and
is then only logged), and loads the overview.  `job_by_id` renders the page from one
reading of the job; `job_status` is a poll's reading, `Received` the script's comparison
of it with what was rendered, possibly after the job has moved on.  `Promote` goes through
`ReadReport`, `AskCorpus`, `ReadUpload` and `AddSample`, between which other tabs promote,
workers run and jobs are deleted.  The backend (queue, workers, corpus) is external.  An
unreachable backend or an ended session answers any page with another one (`"index"`).  A
terminated job is not in the model: whether it has a finish time is up to the backend.

### ComparePage

`main_duo.js` keeps one record per panel; here they are functions of the panel.  A load is
requested, arrives and is painted; the loops of a panel arrive by themselves.  Zoom is a
scale and an offset per panel, and `Mirror` the relative move that one panel's zoom event
makes in the other.  `loadCombined` fetches the combined graph once.  The reader's inputs
are bounded (`MaxInputs`).

### ImportPage

A dropped file is being read, then queued and uploading.  The server imports it or refuses
it (`import_view`), its answer is lost (or is an error of the server's), or a decorator
redirects it, which an upload follows to a page that loads: `Answered` makes a success of
what was imported *or redirected*, as Dropzone does, and the page may leave with nothing
imported.  `contributor` is whether `contributor_required` still lets the reader in: an admin may take
his account or role at any time (`Dismiss`).  A backend that is not reachable redirects too.
`processing` and `completing` count the calls that `setTimeout` holds; `hasty` is history:
files were dropped together, or while others were under way.  `files` lists what Dropzone
was given, in order; a file that is taken out keeps its place there and has the status
`removed`, so that whatever is asked of the list is asked of a file's status.  The page's
script leaves for the report when the queue is complete and nothing failed since.
`PatientReport` therefore says what a reader who waits can rely on: he is sent on after no
failure, gets the report of the file he dropped last if it was imported, and never that of
another one.  If it was redirected he is shown an earlier file's refusal, if the session
still holds one, or that nothing was imported.  `LeavesAtLast` says that the page leaves, not
that a report is there.  That he logs out, or imports, in another tab is left out.

## Runs

Runs that pass:

| Run | What it shows | Instance |
|---|---|---|
| `accounts_changes` | `NoSessionOutlivesPassword`, `OnlyWhatWasAsked`, `ImplementsStore` for every kind of change | 3 concurrent requests, two accounts, two browsers |
| `accounts_progress` | `Governed`, `OnlyWhatWasAsked` from an empty instance; `EveryRequestEnds` under weak fairness | 3 concurrent requests, one browser, faults |
| `probe_threads` | `TypeOK`, `OwnBackendAndFresh`, `NotFromBeforeForget`, `NoGoingBack` | 2 threads, 4 requests, 2 URLs, 2 tokens, TTL 2, 3 ticks |
| `cache_pages` | `TypeOK` (whatever is listed is whole), `WholeReport`, `OwnReport`, `EvictionCostsNoAnswer`, `BoundedByTrims`, `NoPartLeft` | 2 threads, 4 requests and a reset, a hex id and one that ends in it but has a dash, both bounds, a kill |
| `memo_graphs` | `TypeOK`, `WithinBound`, `OwnComparison`, `ResetForgets` | 2 threads, 3 requests, 2 contents and a dropped one, 2 changes, a reset, a bound of 3 with weights 1, 2 and 4 |
| `startup_workers` | `ServesMigrated`, `CalmStartsRepair`, `TokensStay` | 2 workers, 4 starts, the database of every earlier release, kills |
| `throttle_requests` | `WithinBudget`, `ForgottenFairly`; `BlockExpires` while the clock runs | 2 requests, 2 addresses, a name and its registration, limit 2, window 1 |
| `query_promotion` | `PromotesItsBytes`, `ReloadsForNews`; `SettledShown` under weak fairness | 2 tabs, one query of either kind of file, 2 jobs that add a sample |
| `compare_page` | `Decorated`, `InStep`, `FittedOnScreen`, `EdgesFollowBlocks`, `CombinedDrawnOnce`, `SyncKeepsOffset` | two small graphs with loops, failing loads, 5 inputs |
| `import_queue` | `TypeOK`, `InTurn`, `PatientReport`; `QueueDrains`, `LeavesAtLast` under weak fairness | 3 files dropped singly or together, 2 uploads at a time, imported, refused, redirected or lost |

Runs that end in a violation, each of something the repository says:

| Run | Property | What happens |
|---|---|---|
| `cache_notreset` | `FoldersExist` | a report written during a reset makes the removal fail; the directories stay away |
| `import_lost` | `NothingLeftBehind` | a file is imported while another one dropped with it is still being read: the page leaves, and the second is never sent |

### Disagreements met while modelling

The following are further places where the code does not do what the repository says.
Each is a definition of its module, kept there with its comment.  None is checked by a run
kept here: to see it, add the definition as an `INVARIANT` to the configuration of the run
named in front of it, with the change in brackets.

- `accounts_changes`, `NamesDifferBeyondCase` [`Asks <- CaseAsks`]: two renames to names that
  differ in case both pass the question whether a name is taken in another case
  (`db.py:128`) before either is written; the release notes (`README.md:83`) say such names
  are refused.
- `accounts_changes`, `DeletedUserMayLogIn` [`Asks <- DeletedAsks`]: the session of a deleted
  account is turned away from `/login` as logged in (`authentication.py:289`); the release
  notes say it lands on the login page.
- `accounts_changes`, `SessionEndsOnlyByPasswordChange` [`Asks <- EndedAsks`]: the session mark is taken from the
  stored hash, which a rehash at login changes too (`authentication.py:359`, against the
  comment at 361).
- `probe_threads`, `AfterForgetSettingsCount`: a page reads the settings when it begins and
  the generation when it looks the cache up (`utility.py:239`), so a refusal of the old
  token can be filed under the new generation, against the comment at 196.
- `cache_pages`, `OneReportPast`: two writers rename before either trims (`data.py:226`); the
  comment at 125 allows for one report past the bound.
- `cache_pages`, `DownloadsEveryJob`: the download asks only for ids of hex digits
  (`JOB_ID_PATTERN`, `data.py:690`), so a finished job whose id has dashes is shown by its
  page and called invalid by its download; the comment at `data.py:54` says that a local
  queue hands out such ids (`uuid4`).
- `startup_workers`, `WorkersShareKey`: two workers that start together on an instance
  without a key both find none and keep what each made; `secret_key.py:30` and its header
  say that they share one.
- `compare_page`, `CombinedFits`: the combined graph is fitted to a hidden pane when the
  reader switches back while it loads, against the comment at `function_compare.js:84`.
- `compare_page`, `BoundariesAsTicked`: the listener of the loop boundaries is bound in
  `showGraph` only (`main_duo.js:2339`), so a tick before the graph arrives has no effect;
  `tests/testFunctionVsBrowser.py:242` expects one.
- `compare_page`, `BlocksReturn`: a second click on an edge within the 1.25 s of its animation
  makes a displaced block's position permanent (`main_duo.js:2736`), while
  `tests/testFunctionVsBrowser.py:432` has it return.

Met while reading, and not in a model: `#combined_error` is not hidden again after a retry
that succeeds; parallel imports overwrite `session["last_import"]`; an upload that a decorator redirects
counts as a success, and the page leaves for a report there is none of (`ImportPage` has
that); the docstring of
`_refuse_import` and the comment at `templates/import.html:108` describe an earlier flow;
a start-up killed between `ALTER TABLE` and the filling of tokens leaves them `NULL` for
good, which the comment at `db.py:750` does not expect.

Bounds.  A hazard of accounts involves at most a first reader, a writer that comes
between, and a third request that notices; three requests in flight are enough for each
of the mutants and of the abstract steps, and a fourth gives a session its history.  A
probe answer is older or newer than one other: two threads probe, a third page (of a
thread that is free again) is answered.  A trim meets the writes and removals of one
other thread, four times over, and a reset.  A memo entry is computed, replaced and read by
three requests, under a bound that one of them can exceed alone and two together.  Clocks
need as many ticks as there are distinguishable times: before, at and after the TTL.
Two workers meet in `migrate` at any pair of statements, and four starts are two starts,
a start that repairs, and one after it.  Two requests pass the throttle together before
either records, and a window of one tick has an inside, an edge and an outside.  Two tabs
are the submitter and another promoter of one query, who may make two jobs of it, of
which the second worker finds the sample.  Five inputs of a reader are enough to load,
tick, highlight, pan and switch; the mutants of `ComparePage` need up to four.  Three files
are one that is under way, one that waits and one that is still read.  Every action of
every module fires in a passing run.

Symmetry is used on requests, browsers and threads, never in the run with a liveness
property.

Fairness is weak fairness of each request's own steps: a thread that can go on does, as
the server's scheduler guarantees.  Nothing is assumed about users, the backend or the
write lock, which a request waits for at most until its busy timeout (`Busy`).  A request
whose response is lost is one that stays pending for its browser: `Lost` leaves the jar as
it is.  In `LoginThrottle` only the clock is fair.  In `QueryJob` the server answers and the
browser's timer and fetch come back; the queue may never run a job.  In `ImportPage` the
browser delivers its timers, the contents of files and the ends of uploads, each of which
has an outcome; the reader need not do anything.

## Proofs

`tlapm` checks all of the theorems, for any number of requests, browsers, threads and
workers, any names, passwords, URLs, tokens, TTL, reports, weights and function contents,
under the assumptions stated in the modules: types of the constants, values that stand for
nothing being none of the others, a positive limit and window of the throttle, and finitely
many threads (`ResultCache`), files (`ImportPage`) and requests at a time (`LoginThrottle`).

`AccountsProofs`: `TypeCorrect` and `AlwaysGoverned`, from `InvariantHolds`.  Neither
property is inductive.  A first registration writes id `seq + 1`, which is an id only as
long as the table is empty, and it is empty because the request has held the write lock
since it asked; a save of account 1 leaves it an admin only because the role in the copy
is the role in the row that was read, so `Merge` does not write it.  `InFlight` says
this of each request at each `pc`; `IInv` adds that an instance with users has a
sequence number that is an id.  One lemma per action; those that only move a request
share `OneMoves`, those that write a row share `SavedTable` and `Writes`.

`StoreImplemented` (the refinement) and `NothingUnasked` rest on a second invariant,
`StoreGuarded`.  A request writes long after it read.  `Carries` says how what it is about
to write differs from what it read, and `FreshInv` that a secret it made is nowhere else
until it is written, so that a comparison of hashes cannot be fooled by a value that was
replaced and came back; every step is then one of `AccountStore`, or leaves the tables as
they are.  `NoSessionOutlives` adds `SessionInv`: every session, and every request on
its way to one, that is marked with the account's present hash carries its present era.

The last part of `AccountsProofs` is about `LoginThrottle`: `AlwaysWithinBudget` and
`AlwaysForgottenFairly`, from `MeterInvariant`.  What counts is counted one attempt at a
time, as a set: a second maps the attempts one to one to those before it
(`OlderAttempts`), a failure adds one (`FailureCounted`), a login takes away no other name's
(`LoginForgets`).  A request that was let through below the limit adds to `Trying` what the
failure it may record adds to the count, so the sum of the two is what stays bounded.

`ServerProbeProofs`: `OwnAndFresh`, `NothingFromBeforeForget`, `NeverGoesBack`,
`OnlyAnswersRemembered`, from `ProbeInvariantHolds`.  What a page shows is decided steps
before it is shown, against an entry that has been replaced since.  `CacheOK` says that the
entry is of the present generation and as recent as anything shown in it; `PageOK` says of
a page at each `pc` what it took and how that compares with the entry now, as far as no
forget came between.  `Onwards` is the monotonicity that makes other threads' steps
harmless, and `Forgotten` that a forget is too.

`ResultCacheProofs`: `CacheTyped`, `AlwaysWhole`, `AlwaysOwnReport`, `EvictionIsFree` and
`NothingLeftBehind`, from `CacheInvariant`.  `Filed` says that what is listed is whole
and of the past; a page that looks a job up therefore has names of that job alone in hand,
however many seconds and writers pass before it opens one.  `Served` says of a request
whose job was finished as it began that it keeps that job until a reset: whatever a trim
takes away, the page falls back on the backend.  A download whose id is not in `HexIds` is
outside it and outside `EvictionIsFree`: no report is looked up for it.  `Undisturbed` says that before the first
reset the directory is there and nobody takes a part out of it.

`TrimsKeepBounds` is the argument that several trims, none of which sees what the others
do, keep the bound together.  Nothing about one trim is inductive: one that listed long ago
may remove too little, and it may end last.  `Chained` says that there is a set of requests,
the *fresh* ones, such that the directory is past its bound by no more than what these wrote,
and that those trims that are still *timely* miss, of what is in the directory, only what
some of the fresh wrote after they had listed; of two timely trims, the one that listed
later misses no more.  A trim that ends leaves the directory past the bound by what it
missed, so those it missed become the fresh ones, and the trims that listed before some
request it missed are no longer timely.  The invariant says that such sets exist, for each
of the two bounds, whatever the sizes are: the proof of every action names the new ones.

`ComparisonMemoProofs`: `MemoTyped`, `ShowsOwnComparison`, from `MemoInvariantHolds`.  The
key is taken from what a request holds and the value from what another held, maybe long
ago: `EntriesOwn` says that an entry's value was made of the contents in its key, and
`RequestOwn` that a request on its way to a store or an answer carries what it fetched.
`ForgetsAtReset`, from `MemoDated`: whatever the backend holds of a pair is of its present
epoch, so a comparison is of functions no older than the request that made it, and no
entry is kept over a reset of this process.  `AlwaysWithinBound`, from `BooksKept`: every key
is in the order once and belongs to one entry, and the counter weighs the entries.  That an
eviction finds an end needs that the counter is right, and that it leaves the right entries
needs that the order is; so neither can be had without the other.

`StartUpProofs`: `AlwaysServesMigrated`, `TokensAlwaysStay`, from `StartUpInvariant`.  What a
worker has got past in `migrate` holds of the database as its own connection reads it
(`Reached`).  That carries over to what everybody reads because a database only gains
columns (`Gains`), and the one open transaction is ahead of the committed database, never
beside it; a worker that commits therefore hands on what it reached.  `CalmAlwaysRepairs`,
from `CalmInvariant`: while no start overlaps another, the one worker on its way is alone
with the key file and the database, so what it looked at is as it found it (`Lacks`), and
what it has got past is there (`KeyTaken`, `Had`), whoever was killed before.

`QueryJobProofs`: `PromotionsAreFaithful`, from `QueryInvariant`.  The bytes are compared in
one step and reach the corpus in another worker's later one.  `Issued` says that an id
whose job exists is never submitted again, so the file a job ran on stays the same;
`Promoted` that what a queued add job was given matches its query, and is a file, never the
`Part` or nothing that a query without a job also has.  `AlwaysReloadsForNews`, from
`NewsInvariant`: a job only goes on, so what a page shows lies behind its job, and the
answer of a poll that is on its way between the two; a page that reloads because the two
differ finds the job at least as far as the answer said.

`ComparePageProofs`: `AlwaysDecorated`, `NeverJumps`, `AlwaysFitted`, `NoEdgeDangles`,
`DrawnOnce`, from `PageInvariant`.  `PaintInv` gives every panel its own list of what may be
painted, by the last group that holds a block (`LastGroup`); painting over what is painted
keeps it (`ColouredByLast`, which needs that the greatest of some indices exists:
`GreatestIndex`, from the well-foundedness of the natural numbers).  `PanesInv` closes the
circle that keeps a graph from being fitted to a hidden pane: the combined view is shown
only when it is offered, and offered only when both graphs have been fitted.
`SyncAlwaysKeepsOffset`, from `AlwaysScaled`, is arithmetic: the mirrored move divides by
the scale, and the division is exact for the gestures the model has, after which both
graphs sit at whole positions.

`ImportPageProofs`: `PageTyped`, `AlwaysInTurn`, `PatientAlwaysReported`, from
`TypesInvariant`.  The deferred calls are bounded because each stands for a file of its own:
`processQueue` for one that was listed, `queuecomplete` for one that ended.  `AlwaysInTurn`
counts: what `processQueue` picks is no more than the room there is.  `PatientReport` is
not inductive; `Patient` says that on the page of a reader who waits, everything that is
under way or deferred concerns the file listed last, that a success of it was imported or
redirected, and that the cookie names its report once it was imported, and otherwise an
earlier file's refusal or nothing.  `Taken` is what Dropzone makes of
an upload's outcome.

Only model-checked: liveness (`EveryRequestEnds`, `BlockExpires`, `SettledShown`,
`QueueDrains`, `LeavesAtLast`), which is out of the prover's reach.

## What is abstracted

- Names, passwords, tokens, URLs and reports are model values or records; that random
  tokens and salts do not repeat is built in.
- `last_login` and `registered`, flashed messages, templates, redirect targets.
- SQLite is one writer at a time, statements atomic, a read sees committed rows; a
  transaction's own writes become visible at its commit.
- A read of the database waits out a commit.  One that waited longer than sqlite3's five
  seconds would raise, and `migrate` (`db.py:737`, `774`) would take that for a missing table
  or column.
- In the comparison page a renderer that throws halfway through a combined graph; an answer
  that does not parse is modelled (`CombinedFails`).  The guard `isMirroring` around a mirrored
  move: setting the other zoom's scale and translate dispatches no event, so nothing would
  come back without it.
- Windows, where a file that is open cannot be removed, and more than one file system
  under `instance/`.
- The diagrams under `cache/diagrams`; they share `write_atomically` with the reports.
- The throttle in front of `/login` and `/register` as a part of `Accounts`: it only
  refuses, and is a module of its own.

## Not modelled

- The settings rows of a user (`user_filters`, `user_column_settings`).  They are read and
  then created without a transaction, so two first pages can both insert, and a first page
  can write its defaults over what was saved in between; nothing else reads them.
- `await_modification`: one request that reads until it sees what it asked for or 0.3 s have
  passed.  It keeps no state; what it sees is the backend's.
- Sub-jobs of a cross compare, the single-graph page, the API passthrough, pagination,
  CSRF, rendering, and the algorithms on graphs and intervals: sequential computations on
  the data of one request.
- Most of the JavaScript under `mcritweb/static`.  Of its 52944 lines, jquery-ui, the three
  bundles of Sortable and all of Dropzone but the project's patch and the queue under it are
  vendored, and the pages use them as they are.  The project's own scripts are
  `function_compare.js`, the parts of `trace_CFG/main_duo.js` that react to it, the patch of
  `dropzone.js`, and a few scripts without state (`autocomplete.js`, `post_action.js`,
  `page_loading.js`).  `trace_CFG/main.js` is the earlier version of `main_duo.js`;
  `loopCollapser.js` and `fnManip.js` fold subgraphs, which no graph the server writes has.
  The modules cover the scripts that have something to get wrong; the rest is a library.

## Plan

What is left, in this order: the settings rows with the deletion of their user; `Reset`,
composing memo, result cache and probe with the backend's id counters; the algorithms
against reference definitions (pagination and cursors, column sanitation, loop detection,
interval merging, block matching).  An abstract specification worth stating is a set of
reports for `ResultCache`.

Theorems: an invariant that ties what `Reset` composes together, once it is modelled.
