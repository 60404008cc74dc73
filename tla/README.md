# cli2api in TLA+

cli2api is a Go server that puts many vendor accounts (Qoder, Codex, Kimi, Devin,
WorkBuddy, ...) behind one OpenAI/Anthropic-compatible API. It picks an account for
every chat request, fails over to another when one is limited or broken, remembers in
SQLite which accounts are cooling down, and keeps the worker processes of some accounts
alive. This directory holds TLA+ models of that core, the TLC configurations that check
them on small instances and TLAPS proofs of what matters most, for every instance. The Node
worker of one provider and the web console are modelled as well.

Paths below are relative to `src/internal/`, those of the worker to `src/`, and those of the
console (`pages/`, `components/`, `hooks/`, `api/`, `lib/`) to `src/frontend/src/`. `PROJECT.json` maps every definition to the
lines it stands for.

## 1. The system

### Components, their state and their operations

| Component | State | Operations | Correct when |
|---|---|---|---|
| Account pool (`executor/pool.go`) | one `Item` per account: readiness, quota, catalog, cooldown deadlines and ladders, `InFlight`; rotation cursors and region latches; observer | `PickRoute`, `LenRoute`, `RetryAfter`, `Acquire`, `Release`, `MarkClassified`, `MarkOK`, `MergeHealth`, `MergeQuota`, `MergeModels`, `Upsert`, `Remove`, `SetRuntimeState` | slots are counted exactly, caps hold, cooldowns and ladders follow the failures of their own scope |
| Route loop (`executor/chat.go`) | per request: pin, region, excluded accounts, attempt budget, last upstream error | pick, acquire, attempt, mark, release, next or answer; a stream keeps its slot until its body is closed | no account twice, one region, bounded attempts, the right error, an answer always |
| Classification (`executor/classify.go`) | none | status, body and hints to a kind, a cooldown, a failover decision; `nextBackoffCooldown` | bounded backoff |
| Cooldown persistence (`runtime/manager.go`, `store/store.go`) | dirty set, persisted versions, flush markers, closed flag; two tables | observer, drainer, `Flush`, `Close`, `restoreCooldowns` | the file never goes backwards, `Flush` and `Close` keep their promises, a restart brings saved cooldowns back |
| Worker lifecycle (`runtime/manager_process.go`, `manager_recovery.go`, `manager_accounts.go`, `manager_maintenance.go`, `manager_probe.go`) | process table, `recovering`, `recoverPending`, `runCtx`; pool item; account row; the processes | start, stop, watch, recover, watchdog, refresh, enable/disable/reboot/delete, `Close` | no lost process, no lost crash, one recovery at a time, nothing left after `Close` |
| Node worker (`worker/src/`) | hot context, promise chain, rewarm, catalog, in-flight slots, login state; per answer a parser and two timers; per request a tool history; one shared check-in | chat, rewarm, list models, device and token login; stream and unary parsing; check-in | one user of the context at a time, slots exact, one retry on a fresh context, no truncated answer taken for a whole one, no campaign claimed twice |
| Accounts page and its dialogs (`pages/AccountsPage.tsx`, `components/account/`) | rows, overrides, busy marks, dialogs with drafts | toggle, refresh, check-in, delete, edit, import of a credential file | what is shown and saved belongs to the account and the file it was opened for |
| Wizard (`components/AddAccountModal.tsx`) | provider, method, created id, runs | browser login with polling, pasted callback, token, import | one account per opening, reported when it can serve |
| Logs (`pages/LogsPage.tsx`) | two lists, filters, pages, one detail | query, poll, clear, open | rows are those of the query |
| Live board (`components/overview/InflightLiveCard.tsx`, `lib/mockInflight.ts`) | board, landing gate, flights | answers of `/api/live`, demo, expand, collapse | no cell stays blank |
| Statistics (`pages/OverviewPage.tsx`, `pages/UsagePage.tsx`) | figures, window, key | load, quiet refresh | figures of the window and the key shown |
| Models page (`pages/ProvidersPage.tsx`, `api/overview.ts`) | rows, a 30 s memory | load, refresh, save a setting | rows show the stored settings |
| Sign-in (`hooks/useApiKey.tsx`, `hooks/useOverview.tsx`, `pages/LoginPage.tsx`, `control/key_rotation.go`) | key, summary, page; the server's key | sign in and out, refresh, rotate | summary, page and key fit together once nothing is under way |
| Playground (`pages/AccessPage.tsx`) | sessions, stream, account, catalogs | send, stop, switch | chunks go to their session, the model is one the account serves |
| API keys (`pages/KeysPage.tsx`, `accounts/grants.go`) | rows, editor; grants | create, edit, toggle | never broader than what was ticked |
| System settings (`pages/SystemPage.tsx`, `control/system.go`, `proxy/`, `runtime/manager_process.go`) | stored, published and running proxy | PATCH, reload worker by worker | the workers run with what is stored, or a reload is pending |
| Online update (`update/`, `updater/`, `hooks/useSystemUpdate.ts`) | the server's job, the agent's, maintenance; panels | prepare, apply, cancel, monitor, rollback, restarts | maintenance always ends or somebody can end it |
| Sticky sessions (`executor/session_affinity.go`) | LRU of session to account with expiry | `Get`, `Bind`, `Forget`, escape | bounded, escapes rebind without ping-pong |
| Earliest-expiry strategy (`executor/fefo.go`) | credit packages of an item | candidates of the earliest billing day | never prefers a depleted account |
| Quota probes (`runtime/manager_quota*.go`, `manager_fefo.go`) | per-account gate with a reference count; "one more refresh" flag | probe, refresh after use | one probe per account at a time |
| Request recorder (`logs/`) | bounded queue, open rows | enqueue, drain, close | started rows are finished or dropped knowingly |
| Gateway, translation, providers, boot | no shared state of their own, or I/O | | not modelled, see section 7 |

### How they interact

A request goroutine calls the pool method by method; every method takes the pool's one
mutex, so what lies between two calls is open to everybody. After a failure or a success
the pool stamps the item, releases its mutex and calls the manager's observer, which
merges the snapshot into the dirty set under a second mutex; one drainer goroutine
writes it to SQLite. The runtime manager changes pool items (registration, removal,
runtime state, probes) under a third mutex and beside it: process table, pool item and
account row are never locked together. Operators change account rows through the console;
the maintenance loop probes workers every 30 s; each process has a watcher goroutine and,
after it died, a recovery goroutine with a backoff.

The worker of a Qoder account is a Node process with one event loop: what runs between two
awaits is atomic, and everything that uses the WASM context waits in one promise chain. The
console is a single-page program over the server's HTTP API; a page applies every answer
when it comes, and what it must not apply any more it has to recognise. Pages share
nothing but the server: the router mounts one at a time and a page starts anew.

### What is hard

* several lock sections per decision (pick then acquire, spawn then register, read the
  row then act on it), with removals, crashes and operators in between;
* notifications and writes out of order, two statements per save, retries, a crash
  anywhere, a shutdown against a failing database;
* copies that outlive what they were copied from (cooling hint, probe result, snapshot);
* slots that must come back on every return path, streams included;
* failure ladders per scope that must survive restarts and not leak between scopes;
* callers that share a promise and must all be let go when it fails;
* an upstream that ends, stalls or errs at any line of an answer;
* answers to a page that come late, out of order, after the dialog they were for has
  closed, or not at all;
* an update in which the server that drives it is replaced.

`PROJECT.json` lists these as hazards, each at its line with the properties that cover it.

## 2. Modules

| Module | Models |
|---|---|
| `Routing` | the route loop of concurrent requests and everything that changes the pool under them |
| `MCRouting` | its instances: accounts, regions, caps, pins |
| `RoutingProofs` | proofs about `Routing`: the slots; the rules of a walk |
| `DurableState` | what persistence promises: a durable state per account that was real and only moves forward |
| `CooldownPersistence` | observer, dirty set, drainer, `Flush`, `Close`, crash and restart; implements `DurableState` twice |
| `MCPersistence`, `PersistenceProofs` | its instance; proofs of the refinement and of what `Flush` and `Close` promise |
| `Cooldowns`, `MCCooldowns`, `CooldownProofs` | the cooldowns and ladders of one account: failures, successes, probes, quota readings, the file and restarts |
| `Recovery`, `MCRecovery`, `RecoveryProofs` | the life of one account's worker process |
| `Worker`, `MCWorker`, `WorkerProofs` | the Node worker's daemon, its instance, proofs about its slots, retries, context, chain and streams |
| `NestedSse`, `ToolHistory`, `Checkin` | the worker's parsers and deadlines, the history it sends up, the daily check-in |
| `WorkerParts`, `MCWorkerParts`, `WorkerPartsProofs` | those three composed, their instance, proofs about the parsers, the history and the check-in |
| `AccountsPage`, `AccountDialogs`, `BatchImport`, `AccountWizard` | the accounts and what is opened over them |
| `LogsPage`, `LogDetail`, `Statistics`, `InflightBoard` | logs, figures, the live board |
| `ModelsPage`, `Playground`, `KeyGrants` | models and their settings, the chat, the keys |
| `SignIn` | the tab's key, its summary, the login page, the rotation of the console's key |
| `SystemSettings`, `SystemUpdate` | the settings with the reload of the proxy, the online update, both sides of each |
| `Console`, `MCConsole` | the console: every page and dialog above, one mounted at a time |
| `ConsolePageProofs`, `ConsoleListProofs` | proofs about the dialogs, the settings, the update, the board and the chat; about the lists and the tab |

### Routing

The state is the pool (`present`, `ready`, `serves`, `exhausted`, `cooling`, `inFlight`
and the two cursor maps) and, per request, the `routeLoop` struct, a program counter
and the account its current pick returned. One pool method is one step. The stations of
a request follow the code: `loop` (top of the `for` in `ChatNonStream` and its streaming
twins), `hint` (between `PickRoute` and `RetryAfter`), `count` (the recount of the
budget after the region closed), `acquire`, `attempt` (upstream), `marked` (between
`MarkClassified`/`MarkOK` and the release), `streaming`, `closing`, `diagnose`, `done`.

Abstractions: one public model and one provider family, so `routeMatches` is
readiness, region, exclusion, quota and one catalog bit. A cooldown is the set of scopes
whose deadline lies ahead, and may end at any time. Rotation is plain round-robin, which
is what equal weights give. Which of several cooling accounts becomes the hint is left
open. An account's region does not change while it is registered. The three queries of the diagnosis are one
step. A worker reports its own pool ID in `X-Qoder-Account`.
`tried`, `orphaned` and `full` are history variables.

### CooldownPersistence and DurableState

A snapshot is its `StateVersion`. Versions restart with the process, so state `v` of a
life is stamped `base + v` on disk. `Mutate` is what happens under the pool's lock,
`Observe` the callback after it, `Take` to `Saved`/`PutBack` the drainer, `Retry` and
`Abandon` the two ends of its backoff. `Restart` is a crash at any point, or the next start
after a clean exit. Each of the two
tables implements `DurableState` under the mapping `newest <- latest`,
`disk <- coolDisk` (or `statusDisk`).

### Cooldowns

One account, because items never read one another's cooldowns; several models and
concurrent requests. Deadlines are the time that remains, in units of `backoffFloor`;
`None` is the zero `time.Time` and 0 a deadline in the past, a difference the code makes
and a finding depends on. `Save` writes the current item: that the drainer may write an
older snapshot is `CooldownPersistence`'s subject, and equals having saved earlier. `seen`
and `stored` remember what the ladders should count.

### Recovery

One account, since accounts share only the port counter. Every lock section of
`startAccount`, `stopAccount`, `restartStuckWorker`, `beginAccountRecovery`,
`recoverAccount`, `watchAccount` and `Close` is a step. An actor is an operator's request,
a recovery goroutine (`Slot`), a watcher (named by its process), the watchdog or the
closer. A process runs, is stuck, was told to stop or has exited.

Abstractions: restart counters and the length of the backoff are left out (nothing else
reads them); the store's read and write inside one operator request are one step; three
failed probes in a row are "the process does not answer"; `Slot` bounds the recovery
goroutines alive at once; no operator request begins after `Close` did.

### Worker

One action is what the event loop runs between two awaits. An identity is the number of
the login that installed it, so that "the context of the account" is an equation. `encodeChain`
is the queue behind `withEncodeLock`: chats and at most one `Rewarm`. The context, the auth
manager and the catalog are programs the repository does not hold; of them the model has
only what `daemon.mjs` relies on: a promise that settles either way.

### NestedSse, ToolHistory, Checkin and WorkerParts

A line of the upstream is a record of what the parsers branch on; chunks cut lines
anywhere (`buffer`). `parser` is the state of `pipeNestedSseToOpenAI`, and `unary` that of the unary
parser, which reads the same lines, so that a property can compare what the two make of them. The
two timers count ticks. `ToolHistory` feeds one message after the other to the three passes of
`plaintext.mjs`. A filter of theirs is `Pick`, which takes the members at some places; the sort by the
batch, with the results it throws away, is `InBatchOrder`, and the ids made up with `_retry` are
`MadeUp`, one triple per string. They are recursive functions rather than `SelectSeq` and folds,
because the provers can unfold those. One of the client's ids in `MCWorkerParts` is the id
the worker makes up for its second message, so the two meet. `Checkin` has the shared operation, its calls upstream, whose effect and whose
answer are two things, and expiring tokens.

`WorkerParts` and `Console` compose modules that share no variable and never run at the
same time or never look at each other. Exploring their product would multiply what
cannot interact, so `part` picks one at the start and the variables of the others are `None`.
What this leaves out is nothing the modules could tell: no variable occurs in two of them.
In `MCConsole` the parts share their symmetric values for the same reason.

### The console's modules

One step is one event of the page: a click, an answer, a timer, with the render and the
effects it runs. A request under way is a record in a set, or in the run that waits for it; it may
be answered at any time, in any order, or fail. The server is the little state the
page is about. `AccountsPage` has the rows with the values shown while an operation writes them,
chains of requests and reloads without versions; `AccountDialogs` the editor, the catalog
and the check-in records with the store behind (`SaveRouting`, `loadAccountRouting`); `BatchImport`
detection and confirmation of a file; `AccountWizard` the runs of the add dialog, which outlive it;
`LogsPage`, `LogDetail` and `Statistics` numbered and unnumbered loads; `InflightBoard` the
projection of answers on cells and the gate that hides a cell until its pill lands; `ModelsPage` the
catalog with the 30 s memory of `api/overview.ts`; `Playground` the stream and the model
choice; `SignIn` the key and the summary with every request under way, numbered keys as the server
mints them, and the redirects of `LoginPage` and `RequireAuth`; `KeyGrants` boxes, stored grants and `GrantsAllow`; `SystemSettings` the PATCH under its
mutex, `ReloadProxyURL` worker by worker, and the mask of the password; `SystemUpdate` panels,
coordinator goroutines and the agent, with a restart of the server at any point.

## 3. Runs

| Run | Question | Distinct states |
|---|---|---|
| `routing_walk` | does a walk keep to its rules: no account twice and no more than the budget (`FailoverIsBounded`), one region, the upstream's error | 6.0 M |
| `routing_live` | are slots exact and caps kept while an account is removed or registered; is every request answered | 0.46 M |
| `persistence` | do both tables implement `DurableState`; do `Flush`, a quiet manager and `Close` mean what they say, do they return, and does accepted state reach the file | 0.2 M |
| `cooldowns_ladders` | do ladders count the right failures, does every cooldown have a cause, does a restart keep it | 1.1 M |
| `recovery_safety` | is a process ever lost, does one outlive `Close`, do recoveries overlap | 3.5 M |
| `recovery_live` | is every crash recovered, does a sick worker lose readiness, does `Close` finish | 0.37 M |
| `worker_daemon` | slots, chain, retry, context, one beginning per stream, every chat answered | 0.42 M |
| `worker_parts` | are truncated answers told from whole ones, do the parsers agree, is the history tidy, is the check-in honest, does everybody get an answer | 1.25 M |
| `console_lists` | does a settled page show what its controls ask for, and the tab what its key was given | 2.0 M |
| `console_parts` | dialogs, new accounts, the board, the chat, the keys, the settings, the update | 1.9 M |
| `recovery_disabled`, `dialogs_restricted` | section 4 | |

### Bounds, and why they are enough

* `routing_walk`: three accounts in one region and one in another make the
  largest-region choice, the latch and failover inside a region all happen; two accounts are capped at
  one so that two requests collide; a budget of two is exceeded by a third account if it
  can be; one pool change is enough to make the pool differ between pick, recount and
  acquire. `MaxChanges` counts only changes not made by requests; cooldowns end freely.
* `routing_live`: two accounts, one capped. No symmetry, because liveness is checked.
* `persistence`: two accounts so that the drainer chooses, two writers so that
  notifications cross, two changes so that one account has a version in hand and one in
  the dirty set. One restart separates two lives. Writes may fail any
  number of times. No symmetry.
* `cooldowns_ladders`: a ladder of three levels needs five failures to reach its top and
  start over; units are scaled so that rate limit < ceiling < quota, as in the code.
* `recovery_*`: two recovery goroutines (one unwinding, one started by it), two
  processes (old and new), three where an old one must stay stuck meanwhile. In the
  liveness run nobody opens a console.
* `worker_daemon`: two chats, one a stream, two slots, two authentication failures (both
  attempts of one chat, or one of each), a device and a token login that may overlap, one
  administrator's rewarm: a rewarm is begun for one reason and joined for another.
* `worker_parts`: three lines reach every order of text, call, error, finish and end, and
  four messages a batch, its results, and a repetition; two callers and two campaigns, one
  expiry, let a second check-in meet the half-done first. Lines and batches are samples of
  every branch, listed in `MCWorkerParts`.
* `console_*`: two of everything that can be confused (accounts, models, rows, browsers,
  workers, sessions), as many requests as a third can overtake two, two openings of each dialog. One
  update job and a panel, with the agent's and the server's restarts; two regions of one
  provider and one of another in the keys; four requests for the summary and two rotations.

Deadlock is not checked where the system may stop: all requests answered, the manager
closed, every chat over, every bound spent. It is checked in `cooldowns_ladders`, whose account can always
be registered again.

### Fairness

* `Routing`: a request's goroutine is scheduled (`WF` of `Walk`) and every upstream call
  ends (`WF` of `Upstream`) because the HTTP client's timeout, the stream's idle timeout or
  the client's departure ends it. Cooldowns, probes and operators owe nothing.
* `CooldownPersistence`: drainer and notifiers are scheduled. Nothing is assumed of the
  database for `CloseReturns`; the two properties that need it name the assumption,
  `HealthyDatabase`: a statement tried again and again succeeds at last. A crash excuses
  the callers of the life it ended.
* `Recovery`: goroutines are scheduled, timers fire, a process told to stop stops, the
  watchdog keeps probing. Nobody has to open the console, change the account or close the
  manager.
* `Worker`: the event loop runs what is settled; the upstream answers or a deadline of
  `upstream.mjs` ends the call; the auth manager and the catalog settle their promises. No client
  has to send and no user to finish a login. A rewarm that never settles would hold the
  chain for ever: the code has no deadline for it, and the assumption says so.
* `WorkerParts`: the clock ticks and a due timer fires; a body whose last line came ends or
  stalls; a check-in's steps are taken (the HTTP client's timeout ends a call).
* `Console` has no fairness: its properties are about what is shown once nothing is under way.

## 4. Where the code and what is said of it differ

### Shown by a run

* `recovery_disabled`: an account disabled while its recovery spawns a worker keeps a
  running worker (`runtime/manager_process.go:123`; `runtime/manager_test.go:183`).
* `dialogs_restricted`: an account restricted to an empty list of models serves the whole
  catalog (`store/store.go:414`; `accounts/types.go:36`).

### Stated in a module, violated by the code, not run

These formulas stand in their modules as the statement their source makes. Their
behaviours were found with TLC on small instances of these modules.

* `Routing.NoOverAdmission`: `MaxInFlight` (`executor/pool.go:31`) is exceeded when an account
  is removed and registered again while a request holds its slot (`executor/pool.go:1661`).
* `Routing.SaturationAnswered`: a request that lost the last slot between pick and acquire is
  told "no worker accounts available" (`executor/chat.go:1037`), not 429 with `Retry-After`
  (`docs/REFACTORING.md:192`).
* `Cooldowns.LadderResetsOnSuccess`: an account-wide deadline that has passed is never cleared,
  so a success does not reset the ladder (`executor/pool.go:1107`; the comment at 77-79).
* `Recovery.RoutableAgain`: a recovered worker is not marked ready unless somebody opens the
  console (`runtime/manager_process.go:137`; `manager_maintenance.go:604`).
* `NestedSse.CallsStayApart`: the unary parser splits fragments without an index into calls
  without a name (`worker/src/sse.mjs:410`; `worker/test/sse.test.mjs:139`).
* `AccountWizard.NoEmptyBrowserTab`: a provider without a browser login can land on the browser
  tab (`components/AddAccountModal.tsx:217`).
* `InflightBoard.LandsFirst`, `CountedPerAnswer`: a cell may fill before its pill lands, and one
  answer may be counted twice (`CHANGELOG.md:60`; `lib/mockInflight.ts:772`).
* `SignIn.RotationKeepsTheSession`: a summary asked with the old key and refused after a rotation
  signs the tab out of the new key, and the dialog with the new key is gone
  (`i18n/messages.ts:958`; `hooks/useOverview.tsx:47`).
* `Statistics.DrillKeepsTheKey`: the link from a usage row drops the key in one window
  (`pages/UsagePage.tsx:170`).
* `SystemSettings.NoOpBlurIsQuiet`: leaving the proxy field untouched may send the masked old
  address after another operator changed it, and store the mask as the password
  (`pages/SystemPage.tsx:106`).
* `SystemUpdate.OutcomeFreesTheButton`: after a rollback and a restart the panel may stay at
  "updating" (`hooks/useSystemUpdate.ts:52`; `CHANGELOG.md`, 0.2.47).

### Seen while reading

These contradict nothing the repository says, so no property is made of them.

* Pool and manager: a pin whose account lacks the model ends the pick (`executor/pool.go:590`);
  `Close` during the drainer's backoff gives up on snapshots a working database would take
  (`runtime/manager.go:299`); a third quota failure in a row cools for six hours, perhaps
  less than the rest of the day the first one got (`executor/classify.go:28`); a healthy
  probe blanks `LastKind`, after which a quota reading may clear an authentication cooldown
  (`runtime/manager_quota.go:81`); when watcher and watchdog both notice one crash, the
  second recovery marks a healthy new worker dead (`runtime/manager_recovery.go:52`); an account's
  row and its routing lists are two transactions (`store/store.go:353`); the comment of
  `accounts/api_keys.go:112` describes bare grants other than `GrantsAllow` treats them.
* Worker: the unary parser does not ask whether the answer is complete; an authentication
  error inside a stream never rewarms; a catalog refresh begun before a login installs the old
  account's catalog after the login dropped it; two device logins can both start, and the end of
  the first clears the second's mark; `loginState` stays "pending" when a flow does not start;
  the quota of the former account is served until the next reading; a rewarm that hangs holds the
  chain. Results of a later turn that reuses a call id are dropped by `plaintext.mjs`. The
  usage of a stream keeps the `total_tokens` of its first partial frame.
* Wizard and imports: after a pasted callback fails the polling is over and the dialog stays busy;
  a closing timer of the former opening may close a reopened wizard; a file whose reading ends during an
  import is dropped; the Meta branch of `access_token` files cannot be reached
  (`lib/accountImportDetect.ts:149`).
* Accounts, logs, statistics: one busy mark for all accounts, reloads without versions; an
  override is dropped by the first of two overlapping toggles; the editor always sends its whole
  drafts; one error for both lists of logs; a quiet refresh that overtakes a slow first load and fails
  leaves the former window's figures.
* Models, playground, keys: a pending answer of `fetchModelsCached` overwrites the memory of a later
  refresh; overlapping saves write back the rows of their closure; a stream that ends without
  `[DONE]` is taken as complete; a stale row's untouched save writes stale grants back.
* Settings and update: check-in defaults save beside the PATCH and a late full answer overwrites a
  newer one; after `proxy_reload_failed` the page shows the old proxy. A cancel while a job is prepared only
  finishes its record; a status read before a cancel may revive the job (`adoptPrepared`); of two
  applies at once the loser ends maintenance during the switch of the winner.
* Sign-in: a summary answered after sign-out sends the operator round between the login and the
  page behind it; a late 401 for an earlier key signs out the next one; a rotation whose workers
  do not come back has published a key that nobody is told (`control/key_rotation.go:28`).

## 5. Proofs

TLAPS checks these for every number of accounts, requests, regions, writers, versions,
models, failures, processes, goroutines, restarts, chats, logins, lines of a stream, messages of a
history, campaigns and pages of the console, from the constants' assumptions alone (`RoutingAssumption`,
`PersistenceAssumption`, `CooldownsAssumption`, `RecoveryAssumption`, `JobsAreSeparate`, `WorkerAssumption`,
`PartsAssumption`, `ConsoleAssumption`). The last two join the assumptions of the modules they compose: beside the
kinds of the constants, that the accounts are finitely many; that `None`, a null of the code, is no
account, row, answer, operation, editor, job, stream, region or error; that a region has a name; that the chat has a session; and that the text of an answer is
none of the frames the worker reads by name.

* `RoutingProofs`: `TypeCorrect`; `SlotsAreConserved`, `NoSlotLeaks` and `CapIsRespected`.
  None of the last three is inductive. `SlotParts` strengthens them: an account without an item
  has counter zero (`AbsentIsEmpty`), or a registration after a removal would break
  the count; a counter never exceeds its cap (`CounterCapped`), or the cap would not
  follow for accounts whose count is exact. Holders are a finite set, and adding or
  removing one changes its cardinality by one (`HoldersFinite`, with the library's
  cardinality theorems); every action either leaves counters and holders alone
  (`HoldersKept`, `SlotsUntouched`) or is `Acquire`, `Release`, `Remove` or `Register`.
* `PersistenceProofs`: `TypeCorrect`; `CooldownsAreDurable` and `StatusesAreDurable`, the
  refinement of `DurableState`. A write moves the file forward only if the snapshot in the drainer's
  hand is newer than what the file holds, and stays real only if it is a version its account
  had. The invariant `Parts` says so: stamps are real (`StampsReal`), every
  snapshot on its way is a version its account reached (`SnapshotsReal`), the one in hand
  is newer than all that were completed (`HandIsNewer`), and each table holds at most what was
  completed or is in hand (`RowsBounded`, `StatusBounded`). The status table needs one
  more case: its row may come from a pair whose second statement failed, and then that
  snapshot, or a newer one, waits in the dirty set again.
* `WorkerProofs`: `SlotsHold`, `RetriesHaveFreshContexts`, `ContextsAreCurrent`, from the
  inductive invariant `Sound`. The slots are counted over a set that is finite although
  `Chat` need not be: it starts empty, and a step adds one chat, removes one, or removes the
  waiters of a promise that failed, whose number is what the code subtracts (`OneMore`, `OneLess`,
  `ManyLess`). `RetryIsFresh` alone is not inductive: `NotYetRetried` says that a chat that has not
  arrived has no failed attempt behind it. The order of the chain is not needed: a chat
  that asked for a rewarm does nothing until the promise settles, and it settles with a context adopted
  in that turn, or the chat is over.
* `RoutingProofs`, the walk: `WalksAreBounded`, `OneRegionOnly`, `ErrorsAreKept`. A request's fields
  change only by its own steps (`OthersKept`), so the invariant speaks of one request: what was
  sent to is excluded by the next pick, and a pick is not excluded (`Once`); the region is that
  of everything sent to (`Regional`); a pick pays for at most one account sent to or refused
  (`Budget`), which the recount after the region closed needs, since it may shrink the budget;
  who walks on after an attempt carries its error (`Erred`).
* `PersistenceProofs`, flushing: `FlushesPersist`, `TheNewestIsSaved`. The argument follows a version on its
  way: the pool's latest is accepted or held by whoever made it (`Informed`), what is accepted
  waits, is in the drainer's hand or is completed (`Covered`), what is completed is in both
  tables (`Completed`, `HandWritten`). So an empty dirty set between two writes means that
  everything accepted is in the file, and only then is a flush answered (`Answered`) and does
  the drainer leave (`Leaving`).
* `CooldownProofs`: `ModelLaddersAreExact`, `EveryCooldownIsEarned`, `RestartsKeepCooldowns`.
  `Ladders` relates the item to what was seen of it and `StoredLadders` the rows to what had
  been seen when they were written; a save carries the first into the second and a restart
  back. The kind a scope remembers tells a repeat from a first failure, so it belongs to the
  invariant. `Mirrored` compares the rows of a clean item with the item while time passes.
* `RecoveryProofs`: `NoWorkerIsLost`, `RecoveriesAreSingle`. `Places` says where each kind of
  actor can stand, so that only a recovery goroutine is in the loop; `Closing` that the table
  stays empty once `Close` has collected it, because whoever registers looks at `runCtx` under
  the same lock. `JobsAreSeparate` only says that the kinds of actor have different names.
* `WorkerProofs`, the chain: `ChainsAreSound`, `StreamsAreSentOnce`. `Queue` says that the chain holds
  exactly the chats at their encode, each once, and the rewarm's job exactly while there is a
  shared rewarm. A step appends one, takes the head away, or appends the group a catalog
  refresh lets on, in some order; that the order has them all is a pigeonhole argument
  (`OrdersCover`). `SentAreStreams` says that only a stream under way or over has sent bytes.

* `WorkerPartsProofs`: `StreamsAreNotTruncated`, `TheParsersAgree`, `CheckinStaysHonest`. For the
  streams, an error once told is kept (`ErrorKept`), and a stream that ended without one had
  the line that ends it among those read (`Unended`; `Carries` says that the lines carry such a
  witness, and `CarriesOn` that one more line does not take it away). While no
  error was seen, both parsers have gathered the same texts and calls (`Agree`); of two
  errors the more telling one is kept, whichever way the lines come (`TellingErrorWins`). For the
  check-in, `OneOperation` says that callers share what is under way, and `Keeps` that every campaign found open
  is claimed or still ahead of the loop; that the loop's order has them all is a pigeonhole
  argument (`OrderCovers`).
* `WorkerPartsProofs`, the history: `HistoryStaysSound`, from `HistorySound`. Three things make it inductive.
  What has gone up is tidy (`Tidy`): all call ids are different, and a result names a call before it and one
  of the batch it comes behind, in order. What waits to go up may go (`Waiting`), and the last message that
  went up is the one the open batch belongs to (`Batched`), or a later flush would put results behind the wrong
  calls. And as long as the diagnosis is content (`Valid`), ids went up as they came, every open call can still be
  answered by the batch (`Settled`), and what was heard has gone up or waits (`Carries`). That the passes
  compute this needs induction over the length of a message's calls, a batch and a history. The induction
  theorems of the library cannot be used by these provers, but `Induction` states the principle for a set of
  naturals instead of a predicate, and follows from the pigeonhole facts about finite sets: were `n` not in the set,
  adding one would map those up to `n` one to one to those above zero. `SequencesIn` lifts it to sequences.
  With it, for `Pick`, `InBatchOrder` and `Called` there is a function that satisfies the recursive equation point by point
  (`PickingExists`, `SortingExists`, `CallingExists`), and what they return follows member by member (`PickConcat`,
  `BatchIsSorted`, `BatchTakesAll`, `CalledIs`). That `_retry` finds a free id is a pigeonhole argument
  (`MadeUpIsFree`), and so is that as many new ids as calls are one for each (`AllNew`).
* `ConsolePageProofs`, dialogs: `DialogsKeepTheirOwn`, `NewAccountsComeInRight`, `KeysAreNeverBroader`, from
  `PartSound`, one invariant for the part that is mounted. The number of a dialog is never given twice, so an answer that
  carries it can only reach the dialog that asked (`DialogsSound`, `DetailSound`). `WizardSound` follows a run of the add
  dialog from its form to the account it stores; `ImportSound` a file from detection to confirmation; `KeysSound`
  the grants from what the server stored through the boxes to what is stored again.
* `ConsolePageProofs`, pages: `WorkersFollowTheProxy`, `NobodyIsLockedOut`, `NoCellStaysBlank`, `ChatStaysInView`,
  from `PageSound`. `SettingsSound` says for whoever holds the mutex of the settings how far the reload has come: the
  workers behind it run the stored proxy, those ahead the former one. `UpdateSound` has
  three parts: at most one goroutine runs the job that is stored (`RunningIsTheJobs`), maintenance has a job or a
  restart that will lift it (`MaintenanceIsServed`), and a switch under way is watched by someone
  (`SwitchesAreWatched`). `BoardSound` gives every hidden cell a pill that is still to land; `ChatSound` and
  `CatalogSound` keep the model in view among those the catalog offered.
* `ConsoleListProofs`: `SettledPagesHold`, from `ListsSound`. That a settled page is right is not inductive; what is,
  says where the right answer is while the page is not settled. The load that the statistics take as the
  current one asks what the controls ask (`CurrentAsks`). Of the logs' loads some load asks for what is wanted,
  and so does all that was sent after it (`Decides`), so answers in order end with it. The models'
  rows are the stored ones, or one save carries them to it (`RowsFollow`, `SaveCarries`). The tab
  shows its key's summary or awaits it (`TabFits`). For the accounts, everything
  on its way is a snapshot the server once had (`SnapshotsHold`), and each change of an account is read, noted as
  missed, or will be brought by an answer or the reload its operation still owes
  (`AccountsCome`, `Brings`); what stands in place of a row belongs to an operation that has not
  ended (`MasksAreHeld`). What operations can ask, in which order, is `IsOp`.

Only model-checked: all liveness, which together with `ENABLED` is beyond the prover.

## 6. Plan

1. The direct write of `clearCheckinCooldown` past the drainer (a hazard without a property):
   accounts that are removed with a snapshot in flight, in `CooldownPersistence`.
2. `SessionAffinity`: the LRU with expiry, composed with `Routing` as the source of the
   preferred account; rebinding and escape between concurrent turns of a session.
3. `QuotaProbes`: the per-account gate and the coalescing of refreshes after use.
4. `RequestRecorder` (bounded queue and close), and the workers' restarts in a rotation of the key.
5. Pure algorithms against reference definitions: smooth weighted round-robin, the
   earliest-expiry candidates.

## 7. Not modelled

Protocol translation, the providers' network clients, client identity and request
preparation are data transformations of one request. The gateway's handlers hold no
state. Boot, configuration and deployment have no concurrent state
beyond what `Recovery` knows of a process. In the modelled components: weighted,
fill-first and earliest-expiry strategies, grants of API keys in the route loop, several models and
provider families per pool, the table that classifies an upstream's answer, token refresh and
the scheduler of check-ins; in the worker the catalog's parsing, error classification, usage
figures and the compatibility shims; in the console layout, wording, translations, charts and
animation geometry, the two-way synchronisation with the URL; in the update the release
lookup, version comparison and the agent's file and container operations; of a rotation of the key the
workers' restarts. The WASM context, the auth manager and the vendors' services are not in the repository;
the models have of them what the code relies on.

## 8. Running

    tlc -workers 2 -config RoutingWalk.cfg MCRouting
    tlapm RoutingProofs.tla

Every run finishes within a few minutes with two workers; the table of section 3 and `PROJECT.json`
name the module of each configuration.
