# A verification project for the Axelor Development Kit

TLA+ models of the Axelor Development Kit 3.4.2 (`src/ak342m`: a Java server on
Guice, JAX-RS, JPA/Hibernate and Quartz, and an AngularJS client), the TLC
configurations that check them on small instances, and TLAPS proofs for
instances of any size. The rest of the repository (demo application, packaged
copies, vendored libraries, earlier states of the same sources) is outside the
project.

    tlc -workers 2 -config RecordStoreAll.cfg MCRecordStore   # a run
    tlapm RecordStoreProofs.tla                               # a proof

`PROJECT.json` lists the runs, the lines of code behind every definition
(`map`), a mutant for every property (a plausible bug of the code the property
would catch), the hazards of the code and the theorems.

## 1. The system

| part | state it keeps | operations | talks to |
|---|---|---|---|
| REST record store: `rpc/Resource`, `db/JPA`, `db/Query`, `db/JpaRepository` | rows with a version; per request an EntityManager and a transaction | search, fetch, verify, save, updateMass, remove (by id, or a list), copy | the database; clients keep copies of rows, with versions |
| module lifecycle: `meta/loader/ModuleManager`, `meta/web/ModuleController`, `web/InitServlet` | `MetaModule` rows (installed, pending), the static resolver in memory, the views and data each module has stored | initialize, update, restoreMeta, uninstall; the buttons install and uninstall | loaders with transactions of their own; Guice is configured from the rows; the buttons only set flags, which the next start acts upon |
| module resolver: `meta/loader/Resolver` | the graph of dependencies | add, resolve, all | module lifecycle |
| actions of a form: `meta/ActionHandler`, `schema/actions/*` on the server, `form/form.actions.js` in the browser | none on the server; what is left to do travels as `pending` | execute; handle, save, validate, new, close, boxes | record store for saves and reloads, the user for boxes |
| concurrent handlers: `waitForActions` in `axelor.ng.js`, `handle` in `form.actions.js` | list of open promises | add, wait, clear | form view, action handlers |
| form view: `view/view.form.js`, `view/view.grid.js` | record, original, what it waits for | edit, new, copy, save, delete, refresh, cancel, next, previous, back | data source, action handlers, the user for changes that would be lost |
| data source: `axelor.data.js` | one page of records and its counters | search, next, prev, nextItem, prevItem, read, copy, save, removeAll | record store |
| login retry: `axelor.auth.js`, `AuthFilter` | requests waiting for a login; the session | buffer, send again, log in | every request of the client |
| tabs: `axelor.nav.js` | the tabs, the selected one | open by name or by an action, close one, all, the others | form view for changes, dialogs |
| import: `data/csv`, `data/xml` | position in the file, batch | run, bind, commit, recover | JPA transactions, listeners |
| workflow engine: `axelor-wkf` | instances, their nodes and counters | run, play a node, historize | record store (an observer of saves) |
| scheduler: `quartz/JobRunner` | Quartz scheduler | init, start, stop, restart, update | Quartz |
| caches: `meta/MetaStore`, `i18n/I18nBundle` | maps filled on demand | get, register, clear | module lifecycle clears them |
| permissions, queries and mapping, view loading, web services, files and templates, widgets, helpers, tools | none, or only while one call runs | | |

What is hard about them, and what makes them correct:

* **Record store.** Between reading a row, comparing versions, flushing and
  committing, other requests commit; a request may hold several records; two
  paths skip the comparison (remove by id, and the bulk UPDATE of updateMass).
  Correct means: nobody overwrites what he has not seen, a request changes all
  of its records or none, deleted rows stay deleted, a version stands for one
  content, and requests that wait for each other's locks still end.
* **Module lifecycle.** A start consists of many transactions and can fail or
  stop between any two; the rows, the resolver, the configuration of Guice and
  what is really loaded must not drift apart, whatever buttons are pressed.
  Correct means: a module called installed and not pending *is* loaded, with
  its data; one that is neither has left nothing behind; dependencies come
  first; and every flag is acted upon in the end.
* **Resolver.** Every order of calls, every graph, every order of hashing:
  dependencies first, and an exception exactly for cycles and unknown names.
* **Actions.** The place where to go on is put together from indices of nested
  groups by the server, and taken apart by the browser after a save, a reload
  or an answer of the user. Correct means: as if the steps had run one after
  the other where they were written, each once, and none after an error.
* **Handlers and saves.** Buttons, fields and saves start handlers at any
  time, within each other too; they are kept apart by two waits made of timers
  and promises. Correct means: one by one, a save of the user behind them, and
  nobody waits for himself.
* **Form view and data source.** Answers arrive late, out of order or never,
  while the user types, moves on, deletes or goes back to the grid. Correct
  means: the page is in step with its counters, the form shows the record the
  pager counts, and what was typed goes in no other way than the known ones.
* **Login retry.** A session ends, an answer is lost, logins cross. Correct
  means: nothing is executed twice unless an answer was lost, a window is open
  as long as anything waits, every caller hears of the end.
* **Tabs.** Views are opened by late answers; tabs are closed by the mouse, a
  hot key and actions while the user is being asked about their changes.
  Correct means: one tab per action, the shown tab is one of the bar, changes
  are lost only after a confirmation for that tab, closing all reaches all.
* **Import and workflow.** One row fails in a batch; two requests on a record.

`hazards` in PROJECT.json has the ones that matter most with their line of code,
and the properties that would notice; those without a property say why.

## 2. The modules

| module | kind | what it is |
|---|---|---|
| `OptimisticStore` | abstract | what the record store promises to its clients |
| `RecordStore` | detailed | the write path of `/ws/rest` for one model class |
| `RecordStoreProofs` | proofs | inductive invariant, safety, refinement |
| `ModuleLifecycle` | detailed | ModuleManager, ModuleController, InitServlet |
| `ModuleLifecycleProofs` | proofs | inductive invariant and what follows |
| `Resolver` | algorithm | Resolver.java, call by call, against a definition by closed sets |
| `ResolverProofs` | proofs | lemmas on graphs and sorted lists, the inductive invariant and what follows |
| `ActionSequence` | abstract | a list of actions as a sequence of steps |
| `ActionProtocol` | detailed | ActionGroup, ActionValidate and the browser's ActionHandler |
| `ActionProtocolProofs` | proofs | what lists, references and results stand for, the inductive invariant, safety, refinement |
| `ActionQueue` | detailed | handlers and saves of one form at the same time |
| `ActionQueueProofs` | proofs | inductive invariant and what follows |
| `LoginRetry` | detailed | requests and logins across expired sessions and lost answers |
| `LoginRetryProofs` | proofs | inductive invariant and what follows |
| `FormRecord` | detailed | form, grid and page of one action, with requests under way |
| `FormRecordProofs` | proofs | the inductive invariants, one over the other, and what follows |
| `NavTabs` | detailed | the tab bar and its questions |
| `NavTabsProofs` | proofs | what the operators on tab bars keep, the inductive invariant and what follows |
| `MCRecordStore`, `MCModuleLifecycle`, `MCResolver`, `MCActionProtocol`, `MCActionErrors`, `MCFormRecord`, `MCNavTabs` | instances | the constants of the runs |

The modules of the browser stand one on another: `FormRecord` has a save as one
request of the form, which `ActionQueue` shows to be sent behind the handlers;
a handler of `ActionQueue` runs and ends, which `ActionProtocol` does in
detail; a request of `FormRecord` is answered or fails, which `LoginRetry` has
across logins; `NavTabs` has of a form only whether it is dirty, which
`FormRecord` does in detail. On the server, what a save does is `RecordStore`.

Names starting with the name of a definition and telling how it goes wrong
(`CloseKeepsLocks`, `RefusedOnlyVerified`) are the mutants.

### RecordStore

`db` holds the committed rows, `seen` every row ever committed: a browser may
still display any of them, so a request can carry any of them and clients need
no state of their own. `ent[t]` is the EntityManager of thread `t`: a record is
*sent* (named in the request), *edited* (loaded by `find`, compared, changed in
memory), *flushed* (its SQL has run) or not involved. `lock` is the row lock
the database holds from a flush to the end of the transaction.

| action | code |
|---|---|
| `Submit` | a request as `axelor.data.js` builds it reaches `Resource`; `saveVerified` is a save with `_original`, which form actions send |
| `EditNew`, `EditUnchanged`, `EditChanged`, `EditRefused` | `JPA.verify` and `JPA._edit`, `checkVersion` only when a field changes |
| `LoadForRemove`, `SelectForMass` | `Resource.remove`, which compares versions for a list but not by id; the subselect of `Query.updateQuery` |
| `FlushWrites`, `FlushStale` | Hibernate's `... WHERE id = ? AND version = ?` under the row lock |
| `FlushMass` | the bulk UPDATE: applies to what the row has become |
| `Commit`, `Fail`, `DeadlockVictim` | `JPA.runInTransaction` and the Transactional interceptor |

The database is external: READ COMMITTED, row locks until the end of the
transaction, deadlock detection, as PostgreSQL behaves, which `persistence.xml`
names. Values are atoms; relational fields are part of them. Reading
operations change nothing and are covered by `seen`.

### ModuleLifecycle

`installed` and `pending` are the columns of `MetaModule`; `meta` and `data`
say which modules have views and initial data in the database; `memInstalled`
and `memPending` are the flags of the static resolver, `configured` what
`findInstalled` gave Guice. `job`, `at`, `pos`, `names`, `update` are the
program counter of the one job of ModuleManager that runs.

| action | code |
|---|---|
| `StartServer`, `StartCli` | `InitServlet` and the command line: `AppModule` configures itself (`findInstalled`), then a job begins |
| `RestoreAll` | `MetaController.restoreAll`, in a running server |
| `Resolve` | `resolve(true)`: rows for the modules, defaults marked, flags copied |
| `SkipModule`, `InstallMeta`, `LoadData`, `UpdateState`, `EndInstalls` | the loops of `initialize` and `update`, `install`, `installMeta`, `updateState`: one action per transaction |
| `KeepModule`, `Uninstall`, `EndUninstalls` | the loop over what is to be uninstalled |
| `Fail`, `CommitFails`, `Crash` | an exception at any step; one at the commit, after the resolver was changed; the process dies |
| `DoInstall`, `DoUninstall` | the buttons; `Linked` is what `resolveLink` collects |

What a loader or importer did before it failed counts as nothing done. One
process uses the database at a time: the resolver is a static of the process,
and nothing in the code coordinates two of them.

### Resolver

`modules` is the graph, a list of dependencies per module. A search keeps its
recursive calls in `calls` (a name and the place in the loop over its
dependencies) and shares `resolved` and `unresolved` among them; `all` goes on
with `keys`, `resolutions`, `merging` and `listed`. `phase` says who runs and
how it ended.

| action | code |
|---|---|
| `Add` (`Depending`) | `add` with `module` and `dependsOn`: creates what is missing, skips what is there |
| `Resolve`, `Return` | `resolve(name)` around the recursion, with its exception for names that stay unresolved |
| `Skip`, `Circular`, `Descend`, `Leave` | the loop of the recursive `resolve`, its exception, its call of itself and its end |
| `All`, `ResolveKey`, `Merge`, `MergeOne`, `Listed` | `all`: resolves every key, in any order; sorts by length and merges |
| `Done` | the caller has the answer or the exception, and may add more |

The result is compared with `Needed`, the smallest closed set. A HashMap yields
its keys in any order, and resolutions of one length are merged in any order.

### ActionProtocol

`items` are the definitions of two groups and of an action-validate, chosen at
the start from the lists of the run; `todo` is what the browser asks for;
`results` what it has still to handle. The server answers a request in one step
(`Evaluate`, with `Pending` and `Stops` as in `ActionGroup`); the browser
handles one result per step. `steps` is what the list means when groups are
written out, `ran` what the server did, `shown` what the user saw: the
properties compare the three.

| action | code |
|---|---|
| `Refuse`, `DoLocal`, `Send` | `_handleAction`, `_handleSave`, `_handleNew` |
| `Lose` | `$http` fails, before or after the server has run |
| `HandleBox`, `HandleStop`, `HandleAlert`, `HandleWork`, `HandleRest` | `_handleSingle`, in the order of its returns |
| `Finish` | the promise of `handle` is resolved |

### ActionQueue

`handler[h]` is where a call of `ActionHandler.handle` is, `pending[h]` the
promises it found in `promises` (`$actionPromises`) when it came; `saves[s]` is
where an `onSave` of the user is, with the promises it waits for (`all`) and,
for the property only, the handlers it found started (`seen`). Whether the form
has an onSave action is chosen at the start; its handler has the name of the
save that calls it.

| action | code |
|---|---|
| `Trigger`, `Click`, `Clicked` | `onChange`, `onLoad`, ... and buttons, which pass `on:before-save` and `ajaxStop` first |
| `Handle` | the list is copied, then the own promise is pushed |
| `Wait`, `Start` | `waitForActions(cb, wait, pending)`: `ajaxStop`, then `$q.all` |
| `Answer`, `Verified`, `Flushed`, `Saved`, `Done` | a handler with requests, boxes and a save of its own; `Done` is the timer that takes the promise out |
| `Press`, `Gather`, `Again`, `DoOnSave` | `onSave`: `waitForActions` without a list, which starts over as long as new promises have come |
| `SaveAction`, `DoSave`, `SaveAnswer`, `Read` | the onSave action, the request, and `read` afterwards |

Timers fire in any order, so lengths of time play no part. `$q.all` calls back
at the first rejection without waiting for the rest; all properties but
`HandlersEnd` name that case.

### LoginRetry

`req[r]` is where a request is; `retried` those sent by `retry`, whose deferred
is resolved by an answer and by nothing else; `served` and `lost` count
executions by the server and lost answers of executions. `login[l]` is where a
login request is (they pass the same interceptor and are kept like any other),
`right` those with the right password.

| action | code |
|---|---|
| `Send`, `Serve`, `Receive` | a request through `AuthFilter.onAccessDenied` and the interceptor |
| `Lose` | status 0 or 502, before or after the execution |
| `DoLogin`, `ServeLogin` | the login window, `AuthFilter.doLogin` |
| `LoginConfirmed` (`RetryAll`) | `event:auth-loginConfirmed`, `retryAll` |
| `LoginFailed`, `LoseLogin`, `Expire` | a wrong password, a lost login, the end of the session |

### FormRecord

`rows` are the records of the server. `data` and `page` are `_data` and `_page`
of the data source; `form` is the record of the form, by its id and whether it
was typed into; `shown` says whether form or grid is shown; `opening`, `news`,
`asked` and `waiting` are what is kept for later: a record `onShow` will read
once `ajaxStop` calls back, the default values of new records, the open
questions, and the presses of Save. `wire` has the requests and answers under
way, which are taken in any order.

| action | code |
|---|---|
| `Press`, `Confirm`, `Refuse` (`AskFirst`) | `onNext`, `onPrev`, `onRefresh`, `onCancel`, `onNew`, `onBack`, `onDelete`, most of them through `confirmDirty`, which does not ask where `show-confirm` is off |
| `NextItem`, `PrevItem`, `Reload`, `NewRecord` (in `Do`) | `nextItem`, `prevItem`, `reload`, `edit(null)` with `on:new` |
| `Defaults` | `onNewHandler`: the default values, or the `onNew` action of the view |
| `ActionNew`, `ActionReload` | the results `new` (asks) and `reload` (does not) of an action |
| `NavClick`, `ReceiveVerify` | `on:nav-click`, `checkVersion` and its callback, which asks or reloads silently |
| `Type`, `Copy`, `Route`, `RouteList` | the fields and the values of an action, `onCopy`, `setRouteOptions`, an address of the list |
| `PressSave`, `DoSave` | `onSave`, in two parts, with everything else in between; at once with `wait: false` |
| `GridSearch`, `GridRemove`, `Open`, `Opened` | the grid; `switchTo("form")` and `onShow` with its `ajaxStop` |
| `ServeSave`, `ServeRemove`, `Fail`, `Others` | the server, errors, other users |
| `Fetch`, `Count` | `Resource.search`: the records and, in a statement of its own, the total |
| `ReceiveRead`, `ReceiveCopy`, `ReceiveSave`, `ReceiveRemove`, `ReceiveSearch` | the answers: `_accept` of a record and of a page, `removeAll`, `fixPage`, `doEdit`, and what the callers go on with |

Reads, copies and version checks are served when they are answered: a server
may answer with older rows, but deletions by others (`Others`) come at any
time, so that a read may miss or still find its record. A version check may
find a difference at any time, a failed one counts as such. Several questions
may be open (one of an action over one of the form); two that ask the same are
one. One page is shared by the grid and the form of an action.
`GridRemove` is a deletion that was confirmed in the grid. `DoSave` merges the
short gap between `ajaxStop` and the request, during which the form could be
changed once more. The result `save` of an action is a press of Save; the check
of the version before it changes nothing and may only refuse. `onBack` of a
form that is edited first only makes it read only; the press that leaves it is
the one modelled. `astray` remembers that the user or an action acted while
something was under way, that a read failed, and the other cases
`FormShowsIndex` does not speak about.

### NavTabs

`nav` has the tabs (`bar`), the objects whose `selected` is set (`marked`) and
the selected tab; `status` says of each tab object whether it was asked for,
is or was open; `dialogs` are the open questions, topmost last, `later` those
answered with yes whose callback waits in `applyLater`.

| action | code |
|---|---|
| `OpenTabByName`, `Answer`, `NavClick` | `openTabByName` and the answer to its request, `openTab` |
| `Edit`, `Saved` | a form gets dirty, or clean |
| `CloseTab` (`CloseOne`) | `closeTab`, `__closeTab` with its `splice(index, 1)` also for index -1 |
| `CloseTabOthers` (`CloseTabs`) | `closeTabOthers`, `closeTabAll`, `closeTabs`: all up to the first with changes, the rest in the callbacks of its question |
| `Confirm`, `ApplyLater`, `Refuse` | the buttons of the dialog; what is done on yes waits for a digest, on no it is done at once |

## 3. The runs

| run | asks | instance |
|---|---|---|
| `record_store_refines` | saves and removals of lists implement OptimisticStore; version identifies content | 2 records, 2 contents, 2 threads, 3 requests, symmetry |
| `record_store_all` | with remove by id and updateMass as well: flushed saves stand on their base, deleted stays deleted, versions grow, requests end | 2 records, 2 contents, 2 threads, 2 requests, no symmetry |
| `module_boot` | starts and command line jobs that fail anywhere: no settled module without data, resolver within Guice's configuration, dependencies first, nothing pending after a good start, dependents uninstalled along | core, a chain of three removable modules, application; a default module that is not deployed; updates by name of none, one and two of them (`Updates`); 277,000 states |
| `module_restore` | restore in a running server with the buttons pressed: views match flags, pending flags are dealt with | core, base, sale (needs base), application, and the missing default module |
| `module_restore_data` | *violation*: a settled module has its data | as `module_restore` |
| `module_resolver` | resolve and all are right; no dependency is looked at twice | 4 names, at most 6 dependencies (`MaxDepends`), every order of calls, symmetry; 209,000 states |
| `action_steps` | steps take effect in order, once; the server is not ahead; lists end | groups of up to two items, empty ones as well, and of three, nested two deep; checks of up to two validators; 717,000 states |
| `action_nested_errors` | *violation*: the server stops where the browser has something to do first | one group of two in another |
| `action_queue` | handlers one by one, the user's save behind them, all of them end | 2 handlers and 1 save, with and without an onSave action; 55,000 states |
| `login_retry` | executed once, asked for a login while anything waits, answered in the end | 2 requests, 3 logins, 2 faults; 215,000 states |
| `nav_tabs` | one tab per action, a tab of the bar is shown, changes lost only when confirmed, closing all reaches all | 3 tab objects, two of them for one action, one of these the home tab; 2 questions; 32,000 states |
| `form_record` | page and counters in step, the form at the pager's record, typed changes gone in the ways listed only | records 1 and 2, pages of one record, 2 requests under way, 1 save waiting, users and actions acting while at most one thing is under way, asked or waiting (`MaxAhead`), offsets 0 and 1, deletions by others, routes to record 2 and to a new one, `show-confirm` on, version checks that ask and silent ones; 1.9 million states |

The bounds. Every hazard of the record store is between two requests on one
record, or two records in opposite orders; a third request is needed to
commit between the two, or to repeat a version, and is there where the
refinement is checked. The proofs cover any number. For modules, one removable
module on another and one module that is always there make all cases of the
loops; a chain of three is needed to see a dependent of a dependent. For the
resolver, four names hold a diamond, a cycle behind a tail and a graph of two
parts. For actions, an index of an outer and of an inner group are composed as
soon as there are two levels with something before and behind the pause; the
proofs cover lists of any length.
For handlers, a save and two handlers make every order of waiting, started
before, between and behind; one of the two may save the form itself. A retried
request must meet another one and a late login, and lose an answer twice: two
requests and three logins, of which two faults leave one idle. For the tabs, two objects of one action race for
one tab, and of two open questions one is behind the other. For the form,
every hazard is between two answers, or an answer and the user; pages of one
record make next and previous cross page borders, and two records make a page
that shrinks under its offset. The bounds of FormRecord keep the run short;
these larger instances were explored as well, with the same properties:

* `FormRecord` with routes {0}, `Shared` {2} and `MaxAhead` 2: 14.7 million
  states; with `show-confirm` off, as in `form_record` otherwise: 1.7 million;
* `ModuleLifecycle` of `module_boot` with updates by any names: 2.6 million;
* `FormRecord` with one slot, `MaxAhead` 2, records {1, 2, 3} of which {1, 2} stored, pages of
  two, routes {0, 2}, `Shared` {1, 3}, `MaxFrom` 2: 21 million states;
* `ActionQueue` with three handlers and a save, safety only: 4.4 million states;
* `NavTabs` with four tab objects, safety only: 773,000 states.

`CHECK_DEADLOCK FALSE` is set where the system really stops: after the last
request (`MaxRequests`), when a list of actions is done, when nobody presses
anything any more. The lifecycle and the resolver never stop and are checked
for deadlock. Symmetry is used where only safety is
checked.

What the lists of `action_steps` leave out (`Orderly`, which `MCActionProtocol`
assumes) is the case of the violation run, a failing condition or errors within a group of two, and two more in which code
and comments disagree: a message and an error in one check with something
pending, and a check of notifications with something pending (see below).
Names that contain each other (`Resembles`) are left out of the lifecycle runs.

### Fairness

* `RequestsEnd`: a thread runs on (weak fairness of editing and committing);
  the database grants row locks in the order of arrival, so a statement that
  could get its lock again and again gets it (strong fairness of `Flush`) and
  deadlocks are detected. No fairness of failures.
* `TakesEffect`: jobs run on; "Restart the server for updates to take effect"
  presumes that servers are stopped and started again and again, also when
  command line jobs run in between (strong fairness of `Shutdown` and
  `StartServer`). It claims nothing if jobs go on failing.
* `Settles`: requests end, with an answer or an error, and the user answers
  boxes (weak fairness of the next step).
* `HandlersEnd`, `SavesEnd`: timers fire, requests end, boxes are answered
  (weak fairness of each handler's and each save's next step). Nobody has to
  press anything. Both hold over rejections: `SavesEnd` names the one that
  leaves a save unsettled.
* `RequestsEnd` of LoginRetry: the server answers, and a user who is asked for
  a login gives the right password at last (weak fairness); faults are bounded.
* `CloseTabsEnds`: the browser runs `applyLater` (weak fairness), and the user
  comes back to every question. A question is asked from time to time only,
  when others are put on top of it, so this is strong fairness, one condition
  for each number of open questions.

### Findings

Two runs show where the code does not do what it says:

1. `module_restore_data`: restoreMeta clears the pending flag of a module
   without having loaded its data; no later start makes up for it.
2. `action_nested_errors`: a failing condition, or errors returned by a
   method, in an inner group of more than one item do not stop the outer one.

Met while modelling, without a run of their own:

* `JPA.verify` is to "ensure the records involved are not modified", and
  compares versions; `updateMass` changes rows and leaves their version
  (`JPA.java:239`, `Query.java:397`). `VersionIdentifiesContent` therefore is
  claimed without updateMass only.
* With something pending, the message of an action-validate hides the error or
  alert found along with it, and the list goes on (`ActionValidate.java:147`,
  `form.actions.js:671`).
* An action-validate with only notifications loses what is pending; the list
  ends as if done (`form.actions.js:993`).
* A form can lose changes without a question: what is typed between a save,
  next, previous or reload and the read behind it is replaced
  (`view.form.js:574`), so it is by a menu or an address (`view.form.js:257`),
  by the result `reload` of an action (`form.actions.js:619`, which calls
  `reload` without `confirmDirty`), by a silent version check
  (`view.form.js:458`) and by default values that come late
  (`view.form.js:411`). A save waits, and then posts what the form holds by
  then, which may be another record (`view.form.js:571`). No document promises
  otherwise; `TypingIsKept` lists the ways typed changes may go, and holds the
  rest, the answers to removals among them, to a question.
* `Resource.search` fetches and counts in two statements (`Resource.java:300`):
  with a deletion in between the page has more records than the total says, and
  a removal answered later takes the total below zero (`axelor.data.js:676`).
  So `PageMatches` claims no more than `size <= total + Limit`, and `TypeOK` an
  integer for the total.
* `__closeTab` of a tab that is gone takes the last one instead
  (`axelor.nav.js:152`); `ShownIsInBar` and `LostOnlyIfConfirmed` except it.

## 4. The proofs

From the named assumptions on the constants alone, for any number of records,
threads, requests, modules, dependencies and tabs.

**RecordStore.** `FlushedOverBase` is not inductive: that a flushed row cannot
move needs the lock (`FlushedLocked`), that it is the client's version needs
what `checkVersion` established when the row was loaded (`LoadedOnBase`). To
know that a version stands for one content one needs that the committed row is
the newest one ever seen (`NewestSeen`), that clients carry only rows that were
committed (`BaseSeen`), and that a generated id is used by one creation only
(`FreshIds`). With types and `IdleClean` they make `Inv`, which `Invariance`
proves inductive, one lemma per action. From it follow `TypeCorrect`,
`FlushesStandOnBase`, `DeletionIsFinal` and `VersionsAreMonotone` for all kinds
of requests; `VersionIdentifies` if there is no updateMass; and
`StoreRefinement`, that every commit is a step of `OptimisticStore` and
everything else a stutter, if there is no removal by id either. That these two
conditions are needed is what the code does, not a weakness of the proof.

**ModuleLifecycle.** What the flags say must be true at every transaction, so
the invariant says where the job is: behind a loaded module
(`AtLoadedModule`), with everything passed loaded (`Passed`), with no button in
reach while `initialize` runs, so that resolver and rows agree (`BootIsAlone`),
and, for a restore, at modules known to the rows (`RestoresKnown`). `Invariance`
gives `TypeCorrect`, `SettledIsLoaded` for all jobs, `SettledHasData` without
restores (finding 2), `NothingLeftBehind` without updates by name (which load
modules nobody has installed), and `DependenciesAreFirst` from `Passed` and the
order the resolver gives. Three more need invariants of their own over this one.
`ServedAsConfigured`: the flags a server serves under never exceed what Guice
was told when it started, since nothing is marked before the first `resolve`
(`FreshIsEmpty`) and a start only marks what its own configuration covers
(`BootConfigures`); a restore in a running server marks more, so the theorem
excludes restores. `StartsSettle` (`BootSettles`): what the first loop of
`initialize` leaves pending is there to be removed, and the second removes it
(`Settling`). `DependentsGoAlong` (`DependentsFollow`): only the button makes a
module disappear, and `Linked`, which it marks, is closed under dependents.

**Resolver.** One search is a stack of calls. `Stack` says that `unresolved` is
the set of names on it, each once, and that what a call has passed in its loop
is resolved or is the call above; `Reach` that a call needs those above it and
the module asked for needs everything; `Sorted` that every element of
`resolved` stands behind its dependencies. With the bookkeeping of `all`
(`Collected`: sorted lists, merged one by one, and no key forgotten) they are
inductive (`Invariance`) for graphs of any size. The rest is about graphs: a
sorted list that holds a module holds what it needs before it
(`SortedBefore`), so nothing in it is on a cycle (`SortedIsAcyclic`); a list
closed under dependencies holds all that is needed (`NeededWithin`). This gives
`ResolvesRight` and `ListsInOrder`; a dependency found unresolved lies on the
stack and therefore on a cycle, which makes the exception right. Every step of
a search adds to `Passed`, which is bounded by the graph (`LooksOnceOnly`): no
search goes on for ever, or twice through a module. `add` needs induction over
its loop (`EveryRound`, `CourseExists`), to know that dependencies stay distinct.

**ActionQueue.** Why do two handlers not run at once? `Handle` copies the list
and then joins it, so of two open handlers one has the other among its pending
promises (`Ordered`), as long as what is open is in the list (`Listed`), and
who runs has been called back (`CalledBack`). These give `HandlersOneByOne`
for any number of handlers and saves. For `SavesComeLast` one must also know
that the handler of an onSave action was started by its own save (`OnceActed`),
and that the handlers a save found have ended by the time that action begins
(`SeenEnded`).

**LoginRetry.** `Counted` says that what a request has been through can be told
from where it is: the number of its executions is the number of lost answers,
and one more if it has been executed and the answer is under way or received.
With it and `TypeOK`, `RequestsServedOnce` follows; `ParkedIsAsked` is
inductive with them (`WindowIsOpen`), since every confirmed login empties the
buffer it closes the window over.

**FormRecord.** `PageMatches` needs types, and that what was answered is sound
(`Named`, `Sound`): a save or removal names a record, since the answer may put
it into the page or take it out, and a search has a list, which holds no record
twice although it was fetched long before it was counted and received: the
records of a page have different numbers of records before them (`Found`).
`IInv`, these three together, is inductive, one lemma per group of actions, and
gives `TypeCorrect` and `PageInStep`, for either value of `show-confirm` and
any version checks. `TypingIsKept` rests on a second invariant over the first:
where confirmations are on, no request under way was sent over unsaved changes
without a question, unless for a route, an action's reload or a silent check
(`NoneUnasked`); `TypedStays` then looks at every step that
replaces the form (`ReplacedBy`). `FormShowsIndex` speaks of a form at rest and
says nothing of how it gets there. Its invariant, `OnCourse`, says of the one
thing under way where it will leave form and page (`Leads`): a read is of the
record the pager counts, a save is of the record of the form or of a new one
that is on no page yet, a version check leaves both where they are, a removal
goes on with the form. That a new record is on no page needs `Numbered`: a
number not given away yet is in no row, page, answer or list fetched. From them
follows `PagerIsRight`. Besides `FormAssumption` it needs that `None`, which
stands for null, is no request and no list (`NoneAssumption`).

**NavTabs.** `OneTabPerAction` is inductive with types; that the shown tab is
one of the bar is not: `closeTabs` leaves a bar without selected tab while it
asks, and an object that is open may carry a mark from before. So the invariant
says that only the selected tab of the bar is marked (`MarksSelected`), and
claims a shown tab unless a `closeTabs` waits for an answer (`Closing`).
`closeTabs` goes from tab to tab up to the first with changes, as the
recursive function `Rounds`; that tabs with changes stay in the bar after any
number of rounds (`RoundsKeep`) is proved by induction over the rounds: what
holds before a loop and after each of its rounds holds after all
(`EveryRound`), and such a function exists (`CourseExists`). They are stated
with sets and functions, since the provers cannot instantiate a theorem over an
operator. This gives `TypeCorrect`, `ActionsHaveOneTab`, `BarShowsSelected` and
`ChangesNeedConsent`.

**ActionProtocol.** For lists of any length, in groups two deep. The first half
is about the operators, each of them a fold of lists: what a list of references
stands for is put together from what each stands for (`MeaningConcat`), a place
in a group stands for the items from there on (`MeaningOfRest`), and what
`getPending` composes stands for what was pending inside, followed by what
comes behind (`PendingIs`). With the types of `Evaluate`, by induction from the
last item of a list back to the first (`Backwards`), this gives `TypeCorrect`
for any lists at all: no place that is asked for lies outside its group.

The second half says what an answer is worth. Results that stand for the
steps "expected" are `Good` if they are values, one by one, up to a result of
another kind with which the server stops, and if what is pending there stands
for the rest of what is expected, unless it is an error. By `ListMeans` a list
evaluates to something good if the groups in it do, so by `GroupsMean` and
`ExecuteMeans` every answer is good for what was asked. The invariant,
`Ordered`, has: a request asks for exactly the steps not yet shown
(`Requesting`), the results not yet handled are good for exactly these
(`Answered`), and the methods that ran are those shown and those of the results.
It is inductive, one lemma per action. It gives `MethodsInOrder`, since good
results hold no method behind something awaited (`GoodAhead`), and
`ActionsImplementSequence`, since what is handled next is all of one kind
(`HandledIs`) and takes effect as a whole or not at all.

Neither holds of all lists: `action_nested_errors` has one that runs a method
ahead, and the messages and notifications listed in 3 leave steps out. So both
take `Orderly` as hypothesis: no failing condition and no errors inside a group, no
notification in a check, and behind a message of a check nothing but messages.
These are the lists that the code does not treat as its comments say (see 3);
types need no such hypothesis. TLC evaluates `Orderly` for the lists of
`action_steps`.

The type invariants of `ActionQueue`, `LoginRetry` and `Resolver` are proved and need no run;
the other modules have theirs in a run and as a theorem.

Only model-checked: the liveness properties (`RequestsEnd` of both modules,
`TakesEffect`, `Settles`, `HandlersEnd`, `SavesEnd`, `CloseTabsEnds`), out of
the prover's reach, as is `ENABLED` in them. Every safety invariant and every
action property of a run is a theorem. The lemmas on loops (`EveryRound`,
`CourseExists`) stand in each of the three proof modules that use them.

## 5. Not modelled, and why

* Import and workflow engine: planned, see below (4 and 5).
* On the server, of what is modelled: search, fetch and copy (they change no
  row); relational fields; default users and a changing set of deployed modules
  or versions; `sync`, attrs and view results, the actions of an error box,
  conditions that depend on values.
* In the browser, of what is modelled: the values an `onNew` action sets,
  attachments, the view switcher and addresses that open the form over the
  grid, version checks before a save, questions about changes switched off
  (`show-confirm`) when a tab is closed, `updateMass`, upload, export and editable grids
  (which save many rows); popups, whose list has no questions and no selection;
  several forms on one data source; the loader and the messages.
* Caches, scheduler, sequences: thin layers over a map, Quartz and one row.
* View loading, queries and mapping, permissions, web services: conversions and
  decisions without state of their own; a request they refuse is a `Fail`.
* Files, templates, scripts, mail, widgets, helpers, tools: input and output,
  presentation, code generation.

## 6. Plan

The order is by what users would lose: data first, then the state of the
installation, then what the browser shows.

1. Done: record store, module lifecycle, resolver, actions; handlers and
   saves, login retry, tabs, form view and data source. Proofs of their safety
   properties.
2. Groups of any depth in `ActionProtocol`, as a function on a well-founded
   order of names; the proofs go by one level over another already.
3. A refinement from `FormRecord` to a form with one record and no requests.
4. `CsvImport`: batches, a failing row, recovery row by row, a failing commit;
   abstractly: every good row is imported once.
5. `Workflow`: instance, nodes and counters, two requests on one record.
