# Verification of slc-mcp

TLA+ models of slc-mcp (a context and task service for agents over MCP), the TLC
runs that check them on small instances, and TLAPS proofs of what matters most
for every instance. Paths are relative to `src/`; bare names such as
`workflow.rs` are in `crates/slc-core/src/`, `server.rs`, `webui/` and `auth/`
in `crates/slc-mcp/src/`. `PROJECT.json` maps each definition to its lines.

Model-check: `tlc -config QueueRetries.cfg MCWorkflowQueue.tla`. Prove:
`tlapm BackgroundProofs.tla`.

## 1. The system

One process owns a store: a vault of markdown files (the default), SQLite or
MongoDB. `SlcEngine` (`lib.rs`) is called by the MCP server and the web API, both
on tokio's multi-threaded runtime: any two requests and timer tasks interleave at
every `await`, and at every release of a `std::sync::Mutex`. Only the workflow
operations share a lock (`workflow_lock`).

The engine keeps its store as an `Arc<dyn StorageBackend>` (`lib.rs:55`). The
implementation of the trait for that `Arc` (`storage/mod.rs:254-418`) passes the
calls on to the store, except `refresh`, `kb_rename` and `kb_replace_many`: for
these the trait's own defaults run, and what the stores override there is never
reached by the service. So

* `refresh` does nothing (`storage/mod.rs:244`). The ticker at `lib.rs:1710-1716` and
  `SlcEngine::refresh` read nothing: files that another process or a person wrote
  are unseen until the vault is opened again;
* a rename is `kb_get`, `kb_get`, `kb_insert`, `kb_purge` (`storage/mod.rs:142-157`),
  four calls that a crash or another request may come between;
* the documents that cite a renamed one are written back one by one
  (`storage/mod.rs:131-136`).

The models follow what runs, not the overrides.

| Part | State | Operations | What is hard | What makes it correct |
|---|---|---|---|---|
| Durable task FIFO (`workflow.rs`, `tasks.rs`, `seat.rs`) | task documents, immutable event stream, event and assignment idempotency indexes, seat pointers | assign, start, report, cancel, message, update, reconcile | each operation is many durable writes without a transaction; retries; holds and generations; clocks | one reservation per lane, one task per key, forward-only status, FIFO order, the lane goes on |
| Delegation tools (`server.rs`, `workflow.rs`) | the lanes, portfolio identities, who was woken | the tools around the FIFO, `assign_portfolio_task`, `portfolio_index` | calls cut short and repeated with other keys; two acquisitions of the lock; holds | one root per identity, a wake is for a ready head, a report nobody is woken for is polled |
| Documents, tasks, projects, seats (`lib.rs`, `tasks.rs`, `seat.rs`, `roles.rs`, `server.rs`, `webui/api.rs`) | documents, links, anchors of seats | create, add, update, delete, rename, activate, as tools and as web API | whole copies are read and written back; a rename is a series of writes | no reference is lost, an answered edit stays, creators one after the other get ids of their own |
| Vault notes and index (`storage/obsidian.rs`) | one markdown file per document, an index in memory | insert, replace, edit, delete, restore, purge, open | file and index change apart; crashes between two files; a removal that fails unnoticed | one note per id, the index agrees with the files, an answer stays true |
| Vault sidecars (same file) | records, timers, embeddings, seats: memory and JSON files | put, delete, touch, set status and pointers, load | memory and file change under separate locks; others write the files | answered writes are durable |
| Vault Git worker (same file) | `dirty` and `worker_active` | `git_commit`, worker loop | two atomics without a common order | one worker, nothing left uncommitted |
| SQLite and MongoDB (`storage/sqlite.rs`, `storage/mongodb.rs`, `storage/mod.rs`) | tables, collections | every call that writes | several statements without a transaction | what was answered is stored |
| Reminders and notifications (`reminders.rs`, `timer.rs`, `notifications.rs`) | reminder records, persisted timers, tokio tasks, notification records | create, cancel, fire, pop, expire, restart | check-then-write everywhere, crashes between records, aborts of running tasks | announced once, never forgotten, quiet after a cancellation |
| Periodic timers (`timer.rs`, `lib.rs`) | timer records, the registry's tasks | start, default timers, fire, restart | a start in many calls, failing handlers | one timer of a type per seat, which goes on |
| Memory (`memory.rs`) | diary L1 to L4, learned facts | remember, compress, consolidate | several writes per batch, overlapping runs, failures of the LLM | no event is archived outside a batch that is summarised |
| Focuses (`focus.rs`) | focus records with dependencies | add, update, archive, remove | a cycle check that walks while others write | something is always unblocked |
| External state (`server.rs`) | text objects with an etag | `state_put`, `state_delete` | check and write are two calls | of two puts one after the other one wins an etag |
| Pagination (`pagination.rs`, `server.rs`) | pages of a response and their record | split, fetch, delete, set limit, sweep | two records; the limit changes and the sweep runs while a client reads | pages add up to the answer and can be fetched |
| Context assembly (`server.rs`) | nothing but the documents read | `update_context`, `save_context` | many reads, any of which may fail, while documents, links and limits change; access | what the limit leaves out is named |
| Search (`search.rs`, `lib.rs`) | vectors of documents | search, embed, refresh, rebuild | vectors outlive documents; a model that fails | hits are readable, failures do not hide |
| Transport (`server.rs`, `auth.rs`) | streams on one broadcast channel | requests, streams, answers | seats share the channel; streams open, lag and close | an answer finds its request |
| Sampling (`llm.rs`, `server.rs`) | pending calls, queue, broadcast | ask the client's model | bounded queues, late replies, dropped callers | a call ends |
| Accounts (`auth/`) | users, rules, codes, rate limit, their files | register, login, refresh, administer, OAuth | lists in memory and in files under separate locks | what an answered change created is saved |
| Migration (`migrate.rs`) | the plan of new ids | import from MongoDB or a vault | links rewritten by a map that grows; failed and repeated runs | links lead where they led |
| Profiles, candle embeddings, UI, hooks, deployment | | | not modelled, see section 5 | |

How they interact: every part writes through `StorageBackend`, whose vault
implementation ends each document, record and seat call in `git_commit`. The
workflow engine and the other parts assume of the store that one call is atomic
and durable; `VaultNotes`, `VaultSidecars` and `Stores` examine that assumption.
`Delegation` calls the operations of `WorkflowQueue`, each as one step;
`Transport` carries what the tools answer; `Pages` cuts it up; `Sampling` shares
the broadcast channel; memory and reminders are driven by timers.

## 2. What is modelled

| Module | Models | Checked in |
|---|---|---|
| `TaskLane` | abstract single-writer lane: accept, run the oldest, close | `MCWorkflowQueue` (refinement) |
| `WorkflowQueue` | the durable FIFO, one action per durable write | `MCWorkflowQueue` |
| `Delegation` | the delegation tools over the FIFO | `MCServer` |
| `Documents` | documents and anchors, one action per call to the store | `MCEngine` |
| `VaultNotes` | note files, index, restarts | `MCVaultNotes` |
| `VaultSidecars` | records, timers, embeddings, seats against their files | `MCBackground` |
| `VaultGit` | the commit worker, with store buffers | `MCBackground` |
| `Stores` | the two databases, one action per statement or command | `MCEngine` |
| `Reminders` | reminder, timer task, notification, pops, restarts | itself |
| `Timers` | periodic timers | `MCBackground` |
| `Memory`, `Focuses`, `ExternalState` | as in section 1 | `MCEngine` |
| `Pages`, `Context`, `Search`, `Transport`, `Accounts` | as in section 1 | `MCServer` |
| `Sampling` | calls through the client's model | `MCBackground` |
| `Migration` | the import of a Python server's data | `MCEngine` |
| `WorkflowQueueProofs`, `RemindersProofs`, `DocumentsProofs`, `VaultNotesProofs` | theorems about the module they are named after | |
| `BackgroundProofs` | theorems about `VaultGit`, `VaultSidecars`, `Timers` | |
| `EngineProofs` | theorems about `ExternalState`, `Memory`, `Focuses`, `Migration`, `Stores` | |
| `ServerProofs` | theorems about `Transport`, `Delegation`, `Accounts` | |
| `AnswersProofs` | theorems about `Pages`, `Search`, `Context` | |

`MCEngine`, `MCBackground` and `MCServer` put modules with disjoint state side
by side: a constant variable `part` says which of them a behaviour is of, so that
one run covers all of them without a product of their states. Where the code
composes parts through state they share, the composition is inside a module:
queue and seat pointers, documents, links and anchors, reminder, timer and
notification, answer, pages and sweep, search, vectors and documents.

Where a part behaves differently on another store, on another machine, or for
other requests, a variable that `Init` chooses and no action changes says which
(`setting`, `shared`, `delayed`, `stSetting`, `trSetting`, ...). One
run covers every one, and a property names those it is about.

Some definitions have a wrong sibling just before them (`CitingAll` of `Citing`,
`ClearNothing` of `Cleared`): a plausible bug in the same code, not part of the
model. `PROJECT.json` names one for each property, under which TLC finds the
property violated.

### WorkflowQueue and Delegation

`doc` is the task documents, `events` TASK_EVENTS, `indexed` its idempotency
index, `assignIndex` the assignment index, `active` the seats' active-task
pointers. `op` is the operation that holds `workflow_lock` and its next write,
`rec` the reconciliation inside it; both are lost in a fault. A `Begin...`
action performs the reads, checks and early answers of a request up to its first
write; `CreateTask`, `AppendKeyed`, `PutIndex`, `TouchTask`, `ProjectTask`, ...
are the writes. `Demote`, `Promote` and `Normalise` with `RecEvent`, `RecIndex`,
`RecTouch`, `RecProject` are `reconcile_assignee_queue`. `Interrupt` stops an
operation between any two writes (a storage error or a dropped future),
`Restart` also re-reads the operator's hold list and generation. The seat
pointer is also set by `ActivateTask` and `Deactivate`, which take no lock.
Abstracted: texts and metadata are members of `Data`; times are ranks, and only
those in `ClockSteps` may step back; several principals of one seat are one.

`Delegation` is one level up: an engine call is one step, a tool call several,
because `assign_task` creates and then reconciles, and every answer is read again
before it goes out. `work` is the tasks with site and attempt (the identity of a
portfolio root), `woken` the wakes recommended: `Answers` and `Fenced` are the
fence that takes the wakes out of an answer about a task of another generation
(`server.rs:3672-3688`), of reports and messages as of starts. `CutCall` ends a
call between the task and its key, `RestartServer` changes hold and generation.

### Documents

`doc` maps ids to documents: kind, owner, links, edits and `who`, the document
itself whatever its id; `anchor` is the seats. A request reads (`Begin`, `Reread`,
`Scan`, ...), decides with the authority of its door (`Updates` of the tools,
`UpdatesWeb` of the web API), and writes its copy (`WriteBack`). An insert is what
the setting's store does: SQLite's replaces whatever has the id, the vault's looks
(`Insert`) and then writes (`Put`). A rename is `Rename`, `Scan`, `Cascade`, then
the trait's `Take`, `Look`, `Give` and `PurgeOld`, then `ReadNamed`, `WriteNamed`,
`ListSeats`, `PutSeat`, `Renamed`; `CutShort` is its end after a failed call,
wherever it is. `created` keeps which requests had begun when a creation was
answered, `halfway` the renames that began and did not end. MongoDB is left to
`Stores`: its `kb_get` returns soft-deleted documents (`mongodb.rs:281-288`),
which none of these models of requests allows.

### VaultNotes, VaultSidecars, VaultGit, Stores

*Notes.* `file` gives each place (folder, stem) its note: the id in its
frontmatter, or none for a note a person left, and whether it is soft-deleted.
`index` gives each id its entry. `write_note` is four steps (`Look`, `Write`,
`Clear`, `IndexIt`), `kb_purge` two: the entry, then the file, whose removal may
fail and is answered alike (`PurgeLeaves`, `obsidian.rs:1280`). Nothing scans the
files but `Reopen`, which leaves the store closed if two notes carry one id. `Top`
is the vault's own directory, which `sanitize_folder` refuses.

*Sidecars.* A change takes a stamp; a later state of memory has a larger one.
`Change` updates memory and releases the lock, `Persist` writes the whole map as
it then is, or for a seat the copy taken at the change. `Refresh` is the ticker,
which changes nothing; where the files are `shared`, `Elsewhere` is another
process or a person that writes one. `answered` remembers what clients were told.

*Git.* `ChangeVault`, `MarkDirty`, `Claim` are a write; `Begin`, `GitDone`,
`Finish`, `Release`, `Recheck`, `Reclaim` are the worker. Where `delayed`, a
release store of `worker_active` becomes visible in a later `Drain`, which
release/acquire order permits. A snapshot is one step.

*Databases.* `kb`, `past`, vectors, the seat's counter and its side records; a
call is the sequence of its statements. SQLite's calls hold one lock from the
first statement to the last (`LockHeld`), MongoDB's hold none; both may fail
between two statements, which nothing rolls back. A rename is four such calls
(`RenameReads`, `RenameLooks`, `RenameCopies`, `RenamePurges`) with the lock
released in between, as the trait's default makes it.

### Reminders, Timers, Memory, Focuses, ExternalState, Sampling

*Reminders.* Every storage call is a step. `Due` to `Close` are the timer task,
`Spawn` and `KeepHandle` are apart because the task may run before its handle is
stored. `Crash` forgets tasks and requests and starts a task for each active
persisted timer. *Timers.* `boot` is how far `start_background` is, `saved` the
records, `loop` the tasks, at most two per timer, one more than there should be.
*Memory.* A document of the diary is the set of events of the batches it was made
of, its level and whether it is archived or harvested; a run selects, asks the
model, writes, marks. What a summary says is left out: the prompt stops before the
document that would exceed `PROMPT_CHARS` (`memory.rs:476-491`), and a merge of
insights cuts the old ones and the new digests to 2000 characters each
(`memory.rs:240`), while all of them are archived. *Focuses.* The walk of
`check_cycle` is a step per read. *ExternalState.* An etag is the content, of
which it is a hash: contents that return have their etag again. *Sampling.*
`awaited` and `slot` are the pending map and the answered channels, `outbound` the
bounded queue, `stream` what waits for each event stream.

### Pages, Context, Search, Transport, Accounts, Migration

*Pages.* A length is a number of 200-character units. `PagesOf` is the packing
itself, recursive functions as in the code: whole items, items split by content
into parts, single objects split by their longest text. `PutsPages` and `PutsMeta`
are the two records. *Context.* A document is its number of tokens, its readers
and its links; `Visit` follows the queue of `context_dependencies`, and each read
(of the active document, a linked one, a profile, a base document, the focuses)
may fail, which leaves out what it would have found; `Dropped`, `Compress` and
`Summarise` are the steps down to the limit; a model answers with any of `CxSizes`
tokens. *Search.* A content is its similarity and its score by words; `Fetches`,
`Narrows` and `Ranks` are the code's gates. *Transport.* A number is the JSON-RPC
id of a request; `authenticate` is the four modes; `Publish` puts an event on the
channel and drops the oldest after `TrLag`. *Accounts.* Users, rules and their
files, a handler being its reads, its check, its write and its save; rules are a
set, as `check_rules` asks whether any of them matches. *Migration.* An id is a
name with the numbers that `unique` appends; planning is a step per document,
writing a step per document, and a run may be cut short and made again. What a
repeated run finds in the target it updates as that store does (`Lands`): SQLite,
and MongoDB for all but the diary, leave the links of a document they find
(`sqlite.rs:444-453, 672-697`, `mongodb.rs:302-309`); the vault writes the whole
note.


## 3. What the runs check

Passing runs (bounds in the configuration files, settings in the MC modules):

| Run | Shows | Bounds and why they suffice |
|---|---|---|
| `queue_retries` | one reservation per lane, one task per key, forward status, every document explained by events | two tasks (a predecessor and a waiting one), a manager and a worker, a fault at any write and any number of retries |
| `queue_clock` | the queue implements `TaskLane`, oldest first, although a clock steps back | three tasks on a lane of depth two, so that one is refused; three clock values allow any order |
| `queue_serves` | nothing advances on a held lane or in another generation; the head of a lane is served after an interrupted closing | one fault, at every point: an interruption, or a restart that sets or lifts a hold or a generation chosen at the start |
| `queue_messages` | a retry never rewinds the last event | one task, two messages, an edit, an interrupted start, a seat pointer that others move |
| `background` | one Git worker, no write stranded where stores are not delayed, each change snapshotted; answered writes of sidecars are in their files; one timer of a type per seat, which goes on firing; every sampling call ends | three generations of workers and three writes, so that a release, a claim and a reclaim overlap; two requests on two keys of a map and a seat, three changes, a restart, in a vault of one process and in a shared one; two starts of the service with two faults; three sampling calls, a queue and a broadcast of one, so that each is full |
| `reminders` | announced at most once, pending ones scheduled, cancelled ones quiet, all served | two reminders, one held; a restart at any point; pops of one client against firing and expiry |
| `notes` | answers stay true through restarts, the index agrees with the files | three settings: `Calm` (six requests, two faults, a note left by hand), `Relocating` (documents and notes of one name in two folders; no fault), `AtTop` (a note in the vault's own directory, which the store cannot read back) |
| `engine` | references move with a rename, answered edits stay, creators share an id only if they overlap, a focus is always unblocked, no event is archived outside a summarised batch, two winners of one etag overlap or the content returned in between, the databases keep what was stored, imported links lead back | five ids, so that a name is taken and a target is free; two clients, of two seats; a rename cut short twice and repeated; three focuses, the least that make a cycle behind a walk; three events at two daily summaries per digest, lists too short for a day's events and for the insights; seven steps of puts and deletes with two contents, so that one returns; five calls on two ids with a failing statement; five legacy documents of every kind and two seats, into each store, with two failing writes or repeated runs |
| `server` | pages add up and fresh ones can be fetched, what answered changes of accounts created is saved, one root per identity, wakes are for ready heads, what the limit leaves out of a context is named, hits readable and failures not hidden, answers find their request, a report of the current generation that wakes nobody changes what is polled | three tasks, two principals, a cut call and a restart; answers of one to four pages under two limits; two handlers of each kind; worlds in which the limits leave out something, nothing or all; three settings of two seats on one broadcast that lags at two |

What is tested against what: in `engine` and `server` the settings pair the
operations that touch the same state, and leave out pairs known to interfere
(see below), so that each property says what the code does keep. Every property
has a mutant in `PROJECT.json`.

`CHECK_DEADLOCK FALSE` stands where requests are bounded and the system may have
nothing left to do.

### Runs that find a disagreement

| Run | What happens |
|---|---|
| `refresh_nothing` | another process writes a file of the vault; however often the ticker refreshes, memory stays behind, because the `Arc` has the trait's `refresh`, which does nothing (`lib.rs:1702` promises that such changes become visible) |
| `digest_never` | the vault and MongoDB look for summaries whose archived flag is an explicit false, which nothing writes: no week is ever digested |
| `anchor_lost` | an import does not restore the active document of a seat if that document keeps its id |

### Known behaviours that bound the properties

The code does the following, the models too, and a statement without the bound
fails under a setting that allows it. The lines are under `hazards`.

* *Queue.* A key whose assignment stopped before its index was written makes a
  second task for another assignee. A repeated cancellation names no next task.
* *Git.* With delayed stores the recheck can miss a write that still saw the
  worker active; it waits for the next write. A failed commit is not retried.
* *Notes.* A crash while a document changes folder leaves two notes with one id,
  and the vault does not open; a purge whose file could not be removed is answered
  like any other, and the document returns with the next start; two overlapping
  inserts of one id both succeed; two ids may share a file name.
* *Sidecars.* Two requests of one seat may write its copies in the other order.
  What others write into the files is unseen, and written over by the next put.
* *Reminders.* Two pops hand out one notification; creations exceed the cap; a
  crash between mark and push loses the announcement; a failing handler's timer
  is deactivated all the same.
* *Timers.* A start that failed is not tried again.
* *Documents.* Overlapping edits of one document, or of a seat's anchor, lose
  one; of overlapping creators of one id one loses its document, though both are
  answered. A rename cut short between its insert and its purge leaves the document
  under both ids; repeating it is refused because the new id is taken. One onto a
  soft-deleted id moves the references and then fails.
* *Stores.* SQLite's insert overwrites; MongoDB's read ignores the deletion mark.
* *Memory.* A consolidation marks documents it did not read; concurrent merges of
  insights overwrite one. A long batch is cut before the model sees it, and a merge
  cuts the insights it had: what was cut is in no summary, and its sources are
  archived. Insights beyond the oldest 100 documents are not found, and every later
  merge fails.
* *Focuses.* Two changes of dependencies at once can close a cycle.
* *External state.* Two puts that overlap may both win, and so may two that do not
  if the content was changed and changed back in between.
* *Pages.* A crash between the two records leaves pages no sweep finds.
* *Accounts.* Login and refresh write back a user they read earlier, which undoes
  a deactivation in between: `AnsweredSaved` says that the users and rules an
  answered change created are in the files and rules it removed are not, not that
  every field is the last one answered. Two registrations of one name both find it
  free.
* *Delegation.* A manager who edits the identity of a root, and more than 5000
  tasks of one issuer, escape the check for duplicates.
  A terminal report of a task of another generation wakes nobody, and if the task is
  not of the portfolio it shows in no index.
* *Context.* A document is queued once, with the first trust it is met with. What a
  failed read leaves out, with all that only it links to, is not named
  (`server.rs:1455, 1561-1566, 1599-1603`): only what the limit leaves out is.
* *Search.* Stale vectors are refreshed once per process.
* *Transport.* Clients of one seat that reuse an id may take each other's answer.
* *Migration.* A repeated run whose names come from a language model may choose
  others, while SQLite and MongoDB keep the links of the first run.

### Fairness, and why the code justifies it

* Workflow: the holder of `workflow_lock` runs on (`WF`); a lane's own seat keeps
  reconciling it and tokio's mutex is first come, first served (`SF`). The
  server reconciles after every assign, report and cancel, and its tool text
  tells clients to "use `reconcile_task_queue` after a terminal event or
  recovery" (server.rs:1232, 1261).
* Git: a request runs `git_commit` without an await, Git returns, a store becomes
  visible. A push that hangs falls outside: the code has no timeout for it.
* Reminders and timers: a begun request, a started service and a timer's task run
  on, and `sleep` ends. A handler that fails is an ordinary step.
* Sidecars: a request goes on from its change to its write, which has no await
  before it. Fairness of the refresh is not needed: it changes nothing.
* Sampling: the forwarder task goes on, a send that has room is made, and a
  waiting call is answered or reaches its time limit. No client is assumed to
  read its stream or to reply.

## 4. What is proved

For every value of the constants, under the named ASSUMEs of each module:

| Theorem | States |
|---|---|
| `TypeCorrect`, `OneReservation` (`WorkflowQueueProofs`) | types; at most one reserved task per lane |
| `StatusesForward`, `OperatorStopped`, `LastEventsForward`, `Implementation` (`WorkflowQueueProofs`) | the action properties of the queue; it implements `TaskLane` |
| `OneTaskPerKey`, `EventsExplain` (`WorkflowQueueProofs`) | one task for each key; every document explained by events |
| `IdentitiesStayUnique`, `HeadsOnly`, `ReportsArePolled` (`ServerProofs`) | one root per identity; wakes are for heads of free lanes; a report of the current generation for which nobody is woken changes the index that is polled |
| `DoorsAgree`, `CreatorsMeet`, `EditsStay`, `RenamesMoveAll` (`DocumentsProofs`) | the doors let the same seats change a document; creators share an id only if they overlap; answered edits stay; a rename, cut short or not, takes every reference along |
| `AnswersStayTrue`, `IndexFollows` (`VaultNotesProofs`) | an answered note is there, a purged one is not; the index agrees with the files |
| `StoredStays` (`EngineProofs`) | what either database answered is stored |
| `OneCommitter`, `RecheckSuffices` (`BackgroundProofs`) | one worker always; nothing stranded where stores are not delayed |
| `AnsweredIsDurable`, `ReadsNeverRewind` (`BackgroundProofs`) | for the maps of a vault that nobody else writes |
| `OneTimer` (`BackgroundProofs`) | one timer of a type per seat, one task per timer |
| `NeverTwice`, `NeverForgotten`, `StaysQuiet` (`RemindersProofs`) | announced at most once; pending ones scheduled; quiet after a cancellation |
| `NothingIsSkipped`, `UnblockedStays`, `WinnersMeet` (`EngineProofs`) | no event is archived outside a batch that is summarised; a focus is always unblocked; two puts that win one etag overlapped, or the object was given that etag again in between |
| `AnsweredStay`, `AnswersReach` (`ServerProofs`) | what answered changes of accounts created is saved; answers find their request |
| `AnswersStayWhole`, `FreshStayServed` (`AnswersProofs`) | the pages add up to the answer and can be fetched |
| `NothingStaysSilent` (`AnswersProofs`) | what the links of a context lead to over reads that succeed is answered whole or named; without a policy document nothing closed to the seat is named |
| `SearchesServe` (`AnswersProofs`) | hits are what the seat could see since the search began; failures do not hide what has the words |
| `LinksKeepLeading` (`EngineProofs`) | links and anchors of imported documents lead where they led, after any repetitions (with a model's names: where nothing of an earlier run was found, or it was overwritten) |

In each case TLC first checked the inductive invariant, or the property with the
assumption made weaker, and the assumption below is what was left of its
counterexamples.

### The argument, component by component

**Queue.** `SingleReservation` is not inductive: a promotion in progress, or a
start that already passed its check, would reserve a lane again. `IndInv` adds
what an operation between two writes still knows. `OpOK`: the task an operation
is about to close or start is still its lane's reservation. `RecOK`: a promotion
goes on only while nothing holds the lane, which is not held and whose task is of
the current generation. `DocOK`: a document's fields agree with its status. Events and
reservations stay finite, so that counting them means something. Each write is a
lemma; `OneReservation` and the action properties follow from `IndInv` and one
step. `Implementation` maps `Accept` to `CreateTask`, `Run` to the touch of a
start, `Close` to the touch of a report or cancellation, and every other step to
a stutter; `IndInv` gives that the started task is the oldest open one.

*Last event*: a document that has followed no event has no time, and a merge only
raises the time (`Blank`). *Keys*: from the moment an assignment looked for its
key until its index entry is written, no entry of that key exists, and until the
task is created no task of it (`KeyInv`); the lock keeps others out, and whatever
ends the operation drops the claim. *Events* (`ExplainInv`): before a document
follows an event the event is in the stream, with the operation's task, status
and text; a manager's edit follows an event no earlier edit had; the engine's
keys belong to its promotions (`QueueAssumption`: no principal is named
`slc-queue`). An open task has no summary, so what a closing merge
leaves is the summary of its own event.

**Delegation.** `DgInv`: in every lane the ready or running task is the oldest
open one (`InFront`), orders differ (`Apart`), a call that has accepted a task and
not yet answered it is for a lane that was free, and so are the wakes it
recommends. `IdentityOnce` needs that the search for a root sees every task of the
issuer. `PolledSeen` counts: the index lists every task of the project
(`TasksAreListed`), and a report takes one from those in work while no task begins
(`ReportShows`).

**Documents.** `CreatorsMeet` holds while nobody removes or renames (`Building`).
A creator whose store has looked and found nothing (`Passed`) overlaps every
answered creation of its id, since those were answered after the look; so do the
answered ones each other, and the id has the document of one of them. What a
request writes back carries the document it read, which is the one that is there
or another answered creator's. `EditsStay` is for requests about different
documents (`Apart`): `KeepInv` says that whatever a request has in its hands is a
copy with all edits of a document only it writes (`Copied`), that the copy under a
new id has all that is still under the old one (`Given`), and that what a rename
does not cite has no link to rename. `RenameInv` follows one rename at a time:
each reference leads to its document or, through a rename cut short (`halfway`),
to the new id it will get; from the insert on the document is there under both
ids, and no live one cites the old; each anchor of an uncut rename leads there, or
is about to be moved (`Fixing`). Renames of one name are repeated with the same
new name, or reverted: one that was cut short and is repeated under a third name
leaves references behind.

**Notes.** `NotesInv` is for a vault without notes in its own directory (`Plain`).
A note lies in the column of its id (`ColumnOK`); a note that a failed removal
left (`Loose`) is in no index entry and nobody was promised anything of it; while
no request is at work on an id its one note is the one of the index entry
(`Follows`) and what was answered holds (`Answered`); a request at work knows how
far the two are apart (`Before`, `Clearing`, `Indexing`, `Purging`). A crash keeps
it, because what `Reopen` finds is one note per id.

**Stores.** `StKept`: an answered document has a live row under an id that its
client knows (`RowFound`), no answered document has a deleted one (`NoneDead`),
and a request that holds a row's copy holds what is there, unless the row has
gone (`HandOK`). From the insert of a rename on, the document is to be found under
either id, and the purge that follows leaves the new one (`PurgeOK`). SQLite's calls
hold the connection across their statements.

**Git.** `worker_active` is up exactly while some worker holds it or its release
is not yet visible; at most one such worker exists. `RecheckSuffices` adds that,
where stores are not delayed, an unsnapshotted write leaves `dirty` up, or the
writer before its mark.

**Sidecars.** In a vault that is not `shared` no file of a map is ahead of memory
and no request carries a stamp ahead of memory; what is written next holds every
change made so far.

**Timers.** What a start found missing is still missing when it creates it, as
starts of one service follow each other (`BootOK`); a task belongs to an entry of
the registry (`TasksOK`).

**Reminders.** A reminder is *over* once cancelled or fired, and what remains of
it is at most one push; every step of creation, firing and cancellation keeps
that, and a crash only drops volatile parts.

**Memory.** `MemInv`: whatever is archived, or is about to be marked by a
runner, is *carried*: some document of a higher level is of all the events it is
of. Events are at level one and levels are at most four, so a carrier is never
missing. A runner that merges insights still holds what it read of them; in a vault,
where one runner may write over another's summary of a day, both are of all the
events of that day (`DaysTold`, `Whole`). The theorem is about batches: it does not
say that a summary mentions each of its sources, which the code cuts (section 2).

**Focuses.** `FocusKept`: the dependencies, together with those in copies that
are still to be written, are acyclic. Acyclic is stated without paths (each set of
focuses has one that names none of the set), which is what a walk preserves:
what it has seen leads to what it has seen or will look up (`Closed`), and a
focus that is being added is named by nobody (`New`).

**External state.** After an answered put the object has an etag that this put or a
later write gave it (`Since`). So a put that begins afterwards and finds the etag
which an earlier one expected began after a write had given it again (`Expecting`).

**Pages.** `PageInv`: while a client fetches, the pages and their record are both
there or the response is excused (deleted, or older than `TTL_SECONDS`); the sweep
holds only ids that are excused; an id under which an answer is being stored is
nobody else's. `TellInv`: an answer that was cut is a chain of pieces, each the
part or the item after the one before (`Chain`), over all its pages (`Whole`), and
what a client has read so far is that chain up to its page. That the packing cuts
an answer so is shown of the recursive function `Packing`: a first item after
which the pages did not add up to the items before it would be a least one
(`Least`), and `PackItem` keeps them adding up.

**Accounts.** `AcInv`: what was answered is in memory and in the file, by its id;
a handler that is about to save has its change in memory, so that a later save of
the whole list holds it; an id of a rule is never given twice.

**Transport.** `TrInv`: an answer that is owed on a stream is still being computed
(`Coming`) or in the queue of that stream (`InQueue`); the channel carries only
answers for the seat of their request.

**Search.** `SrInv`: what a search has fetched is, for each id, something the
document was since it began and could be seen as (`Finds`), in whatever order
others delete, rewrite or move it. For the second half: a document with the
words that has never changed meanwhile (`Enough`) is read by the search for
words, as long as that reads all of them. The word score of the best one counts
for 30 of 100, so the relevance gate (20, and 60% of the best) keeps a hit.

**Context.** `CxInv` says of a call at work what its walk over the links has left
behind it. Each document it has *seen* is still queued, was closed to the seat,
has changed meanwhile, failed to be read, or is *covered*: answered or named, with
all that it links to seen as well, unless the walk stopped at its limit
(`CxFollows`). Once the queue is empty, what was seen and is open and unchanged is
therefore closed under links, and as `Linked` is in every such set, it was
answered or named. Dropping, summarising and changes by others move names from one
side to the other and lose none (`CxTells`). That `Enqueue` and `Dropped`,
recursive functions over positions, keep this is shown by least counterexamples,
as for `Packing`.

**Migration.** `MgKept`: the plan gives different documents different ids and
covers what was walked through (`PlanOK`, `PlansSoFar`), the map agrees with it
and whatever it lacks has kept its id (`MapOK`), and what has been written has the
links of the complete map (`SeatsOK`, `LinksOK`). A row that an earlier run left
has its links still. Without a model the plan of a run is the only one that its
data allow (`Stable`, shown unique by a least counterexample), and so is the map:
the links that were left are those this run would write (`RowsStable`). That
`unique` finds a free number is a count: the numbers it tries are more than the
ids that are taken.

### Assumptions that are more than types

| Assumption | Says | Why the code justifies it, and what happens otherwise |
|---|---|---|
| `QueueAssumption` | no principal is named `slc-queue` | the engine's own name; a seat of that name could use the engine's keys |
| `PortfolioFits` | one issuer has no more tasks than a listing returns | the search for a root lists 5000 tasks; a duplicate beyond them is not seen |
| `DocumentsAssumption` (last line) | at the start a document is known by its id | `who` is the model's own name of a document |
| `NotesApart` | clients write different ids, ids have different file names, nobody edits files by hand, and no document moves where crashes happen | `sanitize` can map two ids to one name and a crash in a move leaves two notes (see section 3); locks per id do not exist |
| `RowsApart` | of two clients that write rows, one of them over existing rows, neither writes the other's ids | `kb_replace` and a rename write back what they read: chains of reuse of one id lose a row |
| `MergesAlone` | where two runners compress at once, insights are not reached | no lock is held around a merge; the later one overwrites (see `hazards`) |
| `DaysAreListed` | in a vault the events of a day are no more than a compression lists | it lists 500; beyond them a second runner's summary of a day may replace one of other events, which were archived |
| `FocusAssumption` | at most one client changes dependencies of existing focuses while others only add | `check_cycle` walks before it writes; two changes at once close a cycle |
| `NumbersApart` | clients of one seat number their requests apart | the channel is per seat: those that reuse an id may take each other's answer |
| `SeatsAtTasks` | a seat's task is the id of a task or a project where it is the id of a document | `migrate_legacy_mongo` resolves it through the map, which lacks documents that keep their id |

`Apart` (of `EditsKept`), `RenamesAlone`, `Builders`, `LinksAnew` and `shared` are
conditions inside the properties, with settings on both sides of them in the runs. The
`engine` run's databases go further than one client's requests: the second
client also deletes.

### Only model-checked

Liveness: `HeadServed`, `Snapshotted`, `Served`, `KeepsFiring`, `SamplingEnds`. It
is beyond the prover, as is ENABLED. Every other property of a passing run is
stated by a theorem.

## 5. Not modelled, and why

* Profiles are plain records of key and value. Candle embeddings are the
  arithmetic of a neural network; `Search` takes a vector or a failure from it.
  The HTTP clients of language models keep no state; what they answer is chosen.
* Web UI, hooks, deployment, argument parsing, schemas of tools, routing and the
  read-only pages of the web API: presentation around the modelled operations.
* `oauth_yandex_code` (`auth/routes.rs`), the sign-in by a code without a state
  parameter: it ends, as the modelled callback does, in `oauth_login`.
* Seeded documents, expiry and usage counters of seats, the audit log, and what
  the identity provider decides.
* A storage call of the workflow engine, of a reminder or of a document happens
  or does not; a half-done one is the subject of the vault and store modules. A
  failing storage call inside the reminder handler is left out.
* A failed Git commit is logged and not retried until the next write;
  nothing promises otherwise, and `Snapshotted` is about starting a snapshot.
* Files are replaced atomically (`atomic_replace` renames a complete file), so
  torn files are left out; `fsync` and power loss are not modelled.
* The fields of index entries by which listings filter; the arithmetic of search
  scores; the wording of contexts, envelopes and prompts.

## 6. What could follow

* `Reminders` with failing storage calls, over `Stores` instead of atomic ones.
* The hazards of `PROJECT.json` without a property, which their notes describe.
