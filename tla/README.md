# soft-ue-index: a TLA+ verification project

soft-ue-index keeps clangd ready for Unreal Engine projects: it generates a
compilation database per project, regenerates it when build-relevant files
change, and serves symbol queries over MCP from one clangd per project. This
directory models its concurrent core, checks the models with TLC and proves
theorems about them with TLAPS. Paths below are relative to the repository.

## 1. Inventory

| Component | Source | State | Operations |
|---|---|---|---|
| regeneration coordinator | `internal/watch/coordinator.go` | per project timer, running, pending; permits channel; WaitGroup; context; closed | Invalidate, start (timer callback), the worker, finish, Close |
| reconciliation loop | `internal/app/app.go` (watchRegistry, watchRealWithSink) | fingerprint of the registered projects, the running watcher and coordinator | tick, stop and wait, restart, end |
| session manager | `internal/lsp/manager.go` | map of sessions: config, client, process, refs, idle timer, back-off, waiter channel, cancel, stale; closed | Client, Release, startSession, finishStartup, watch, stop, Invalidate, SourceFileChanged, Close |
| LSP client | `internal/lsp/client.go` | pending calls, write queue, request queue, done, opened documents, index progress | Call, Notify, three loops, terminate, Close, DidOpen, SourceFileChanged, handleProgress |
| filesystem watcher | `internal/watch/watcher.go`, `classify.go`, `backend*.go` | watched roots, projects per root | AddProject, event handling, Close; on Windows overlapped reads |
| registry store | `internal/registry` | `registry.json`, the lock file | Load, Save, Update |
| commands | `internal/app/app.go` | the registry, project and engine locks | add, remove, generate, index-engine, doctor, watch, mcp, daemon |
| daemon | `internal/daemon` | lifetime lock, pipe, connections | EnsureRunning, status, stop, MCP, ListenAndServe |
| MCP server | `internal/mcpserver` | the two directions of a proxied stream, limits | ten tools, framing |
| engine index | `internal/engineindex` | `.clangd` fragment at the engine root, index files | BuildIndex, WriteFragment |
| compilation database, UBT guard, toolchain, discovery, diagnostics, CLI | `internal/compdb`, `ubtguard`, `toolchain`, `unreal`, `diagnostics`, `cli` | files | conversions, a bounded poll, choices |

How they interact. The daemon runs the MCP server, the reconciliation loop and
one session manager. The loop owns the watcher and the coordinator and replaces
both when the registry's fingerprint changes; it also tells the manager to
invalidate the sessions of changed projects. The watcher calls the coordinator
(structural changes) and the manager (source writes). The coordinator calls the
generator, which takes the project's file lock and updates the registry. Each
query takes a client from the manager, calls clangd through it, and releases it.

What is hard. Timers that fire although they were stopped; a mutex released
around process creation, waits and generation; sessions that are retired,
crash or time out in the middle of a startup; a Release that names a project
and not a session; a client torn down by any of its senders; loops that wait on
each other while the manager holds its mutex; state handed from one incarnation
of the coordinator to the next; processes that share files under four kinds of
locks and may be killed between two writes; a daemon that starts twice, stops
while it is used, or fails in one of its halves; overlapped reads that complete
while they are cancelled, and events that describe a directory that is gone by
the time they are handled. `PROJECT.json` lists these hazards line by line.

What makes the components correct. Coordinator: one worker per project, bounded
concurrency, no change lost, a Close that waits. Reconciliation: one incarnation
at a time, the registry is followed, changes survive it. Manager: one clangd per
project, none leaked or killed in use, requests served with the configuration
they asked for, idle sessions stopped. Client: answers reach their own call,
everybody returns. Commands: no registry update lost, a cache written by one
process at a time and from the project it belongs to, mounted indexes that are
complete, fragments that are kept. Daemon: one owner of watchers and sessions,
a shutdown that drains first and always ends. Watching: no buffer given up while
the system may write to it, new directories watched, documents that follow the
files.

## 2. Modules

| Module | Models |
|---|---|
| `Coordinator` | `coordinator.go`, one action per critical section of `c.mu` and per step outside it |
| `Regeneration` | abstract: changes are seen, taken by generations of which at most `MaxConcurrent` run, one per project, and eventually taken |
| `CoordinatorProofs` | the theorems about `Coordinator` |
| `Reconcile` | extends `Coordinator` with the loop that replaces it |
| `ReconcileProofs` | extends `CoordinatorProofs`: the theorem about replaced coordinators |
| `SessionManager`, `MCSessionManager` | `manager.go` for one project id (sessions of different ids share only `m.closed`) |
| `SessionManagerProofs` | the theorems about `SessionManager` |
| `LspClient`, `MCLspClient` | the calls, loops and teardown of `client.go` |
| `LspClientProofs` | the theorems about `LspClient` |
| `Commands` | the commands of `app.go` over the registry store, the generation locks and caches, the engine index and its fragment |
| `CommandsProofs` | the theorems about `Commands` |
| `Daemon` | `internal/daemon`, `runDaemon`, the commands mcp, daemon and watch, and the stdio proxy |
| `DaemonProofs` | the theorems about `Daemon` |
| `WatchBackend` | the overlapped reads, completions and channels of `backend_windows.go` |
| `Watching` | extends `WatchBackend` with `watcher.go`, and with the way of a source change through the manager to clangd's documents |
| `WatchingProofs` | the theorem about the backend under the Watcher |

Mutants (operators whose comment begins with "Mutant") are plausible bugs; each
replaces the definition that follows it, and TLC finds the property it breaks.

**Coordinator.** `timer` is `p.timer`: nil, armed, or spent (fired, so that Stop
is too late). `calls` counts fired timers whose `start` waits for the mutex, and
`orphans` armed timers that `p.timer` no longer refers to: `start` sets
`p.timer = nil` even when a newer timer is stored there. `waiting`, `generating`
and `reporting` count the worker goroutines by the place they are in. Whether
Generate fails makes no difference here. `version` and `built` are history
variables. The coordinator has one Close in progress; Close is idempotent.

**Reconcile.** `edition` stands for the fingerprint of the registry. Commands
change it, and so does the first saved compilation database of a project. A tick
that sees another edition cancels the watcher, which closes first (deferred
calls run in reverse) and then the coordinator; `Restart` is possible when that
Close has returned. The worker counters belong to all incarnations together,
which is what lets `OneIncarnationAtATime` see two of them overlap. Commands
leave the set of projects as it is: a change of the set is a change of the
edition, and a removed project may go on changing files.

**SessionManager.** A startup has its own goroutine, channel, context, process
and client, so one number names them; a session is named by its first startup.
Requests read the registry record (`Call`), then run Client, waitForStartup and
startupResult, and release. The retry loop in Client is the action
`ClientRetire`, after which the request still calls. `record` is external: the
project's record, which commands change, and `told` says which change Invalidate
has passed on. How long a back-off lasts is left out: `backoff` says whether
`nextStart` lies ahead.

**LspClient.** Each frame is one `sendContext`: a call's request, its
`$/cancelRequest`, a refusal or an answer. `send` is the sender's place. The
deadline of a context is the action that ends it. clangd is external: it may not
read, may answer late, twice or never, asks what it likes and may exit
(`WriteFails`, `ReaderEnds`). Frames that cannot be decoded, notifications and
responses nobody waits for change nothing and are left out.

**Commands.** A process runs one command: `pc` is the next step of it, each step
being one file operation or one section under the registry lock. `Store.Update`
is two steps, `UpdateLoad` under the lock and `UpdateSave`, so that a lock that
does not hold shows. `gen` and `tool` stand for the Generation and Toolchain
fields of a record, `stamp` numbers the databases. Ids and names are a family of
one base name, because only equal lower-case names can collide in `stableID`.
All locks are the operating system's: they are free when their process ends,
whichever way (`Leave`, `Killed`). `Find` matches an id or a name, as `find`
does; `Refind` looks the id up the same way under the generation lock. `crossed`
is a history variable: a generation whose `Refind` matched another project's
name has moved its database into a cache whose lock it does not hold.
Nothing ends the clangd-indexer of a run that is killed: `stray` says that one
still has `engine.idx.new` open, and `StrayIndexer` writes into it while the
next run fills it (`"mixed"`). As long as it lives, Windows refuses to rename or
remove the file. The user may remove the fragment or write one by hand
(`EditFragment`), but not between the check and the rename of `WriteFragment`,
where nothing in the code could notice (section 4).

**Daemon.** A daemon process has its two halves, `watch` and `serve`; `cancelled`
is runDaemon's context and `stopping` the one of ListenAndServe. A connection
has the server's side (`srv`) and is open until either side closes it. A client
is at a step of EnsureRunning, of a control call or of the proxy; the command
`daemon status` is the same control call as EnsureRunning's and has no action of
its own. An MCP session ends for certain only when its connection is closed:
RunIO wraps the reader in a NopCloser, so it is `closeConnections` that ends the
sessions of a stopping daemon. A stop whose client has gone may have been read
or not; `handle` allows both. `ResponsesEnd` is the proxy's copier of responses
noticing that its connection is closed; the proxy then closes standard input to
end the other copier (comment at `stdio.go:101`), and `ProxyReturns` takes it
that this ends a blocked read, as it does for the pipe an MCP host gives it.
`CommandsReturn` says that a client ends or has an open connection: a proxy
whose connection is closed by the daemon does not linger.

**WatchBackend, Watching.** `io` is the outstanding read of a watch: in progress
in the system, or a packet in the completion port. `of` tells the directory that
is open from a later one of the same name. What `Remove` waits for is the state
`removing` of the Watcher's loop, with the five-second timeout as an action of
its own. A file's text is the number of the change that wrote it, so that
`text` and `file` compare. `overlooked`, `missed` and `silent` are history
variables: they record that one of the cases happened in which the code drops
an event (section 4), and the properties name these cases as exceptions.

## 3. Runs

| Run | Instance | Shows |
|---|---|---|
| `coordinator` | 2 projects, 1 permit, 3 changes each | all safety and liveness properties, and refinement of `Regeneration` with its fairness |
| `reconcile` | 2 projects, 1 permit, 2 changes, 1 command | two incarnations never work side by side; the registry is followed |
| `reconcile_lost_change` | as above, 1 change | **violated**: a change outstanding at a reconciliation is lost |
| `sessions` | 2 requests, 2 configurations, 2 startups, 1 record change | no leak, one session, right configuration, references covered |
| `sessions_liveness` | 2 requests, 2 startups | idle sessions stop, Close ends every process |
| `sessions_waiters` | | **violated**: a refused startup does not wake its waiters |
| `sessions_refs` | | **violated**: a clangd is killed while a request uses it |
| `client` | 2 calls, 2 requests of clangd's, queues of 1 | answers reach their own call, nothing is left registered or answered twice |
| `client_liveness` | 1 call, 2 requests, queues of 1 | calls and Close return, requests are answered |
| `commands` | 2 processes, 2 projects, 2 engine contents, 3 commands; 0 to 2 projects registered before | one writer per cache, databases belong to their record, no update lost, finished indexes, kept fragments, every command ends |
| `daemon` | 2 daemon processes, 2 clients, 2 connections, limit 1, 2 commands; with and without a running daemon | one owner, shutdown drains first, a stopped or failed daemon exits, commands return |
| `watching` | project root and Source, which is there at first or not, 2 changes on disk, channel of 2 | no read outlives its watch, a new Source is watched, open documents catch up, Close ends |

Bounds. Two projects on one permit are the smallest case in which a worker
waits; three changes allow one that starts a generation, one during it and one
during the follow-up. Two startups allow a crash and a restart, or a retirement
and a successor, with a request that outlives the first. Two requests of
clangd's with queues of one reach the refusal in readLoop; two calls reach a
late answer to one while the other waits. `MaxChanges`, `MaxEdition`,
`MaxStarts` and `MaxStops` only bound counters; `WriteCap` and `RequestCap` are
32 in the code. Three commands by two processes allow a generation to overlap
with a remove and with an add that uses the id again, or two runs of index-engine
with a third command, one of them killed and its indexer living on. One slot and two
connections reach the limit; two daemon processes reach the start of one while
the other closes. Two changes are enough to remove Source and create it again,
to create it and remove it before the event is handled, or to change a file
twice, and their three events overflow a channel of two (256 in the code).
`MaxCommands` and `MaxChanges` bound what users do. Requests, calls and clangd's
requests are interchangeable, so the safety runs use symmetry; the liveness runs
do not.

Deadlock is not checked: a coordinator without changes, a closed manager, a
closed client and processes without commands have nothing to do, and the bounds
end behaviours. That nobody is stuck is what the liveness properties say.

Fairness. Timers fire and goroutines that can run do (weak fairness of each
step). A worker that waits for a permit has strong fairness, because the Go
runtime serves the senders blocked on a channel in order. Generate returns.
Every frame and call of the LSP client has a deadline (30 s by default), so
Initialize returns and sends end. Queries release their client in a deferred
call. A closed pipe fails its reader and writer. The steps of a command are weakly
fair: UnrealBuildTool and clangd-indexer end. EnsureRunning looks at its
deadline between any two status calls, so the end of the poll window is strongly
fair; the daemon's goroutines and handlers run. The system completes reads that
have something to report. The timeouts of Remove and Close have no fairness:
`CloseReturns` does not rest on them. Nothing is assumed of clangd, of files, of
users, of what is killed, or of anyone calling Close.

## 4. Findings

* **A reconciliation loses changes.** `watchRegistry` closes the coordinator
  when the fingerprint changes. Debounce timers, workers that wait for a permit
  and pending follow-ups end with it, and the next coordinator starts empty.
  README.md:74 promises a regeneration per burst of changes. The first database
  saved by any project changes the fingerprint too.
* **Waiters of a refused startup sleep on.** `startSession` returns at
  `manager.go:303` without `finishStartup`, which the comment at 443 calls the
  only completion path. Waiting requests end only with their own context.
* **A clangd is killed in use.** `finishStartup` sets `refs = 0` at a restart
  while a request from before the crash has yet to call Release, which then
  takes another request's reference; Invalidate or the idle timer kills the
  process that request uses (`manager.go:470`, comment at 589).

Observed while modelling, and built into the models as the code has it; the
properties that hold name them as exceptions:

* `manager.go:166`: `watch` sets no `startErr`, so a session that backs off after
  a crash is reported as "absent" and not as "degraded" (comment at 140).
* `app.go:262`: a generation that began before its project was removed and its id
  used again writes the old project over the new registration. The record and
  the database then still belong together (`ReadyHasOwnDatabase`), but the new
  registration is gone (second case of `RegistrationsKept`).
* `app.go:199`: a project whose name is the id of another is found first. A
  generation then holds the lock of one id and writes the cache of another
  (`Shadowed` in `CacheExclusive`). Nothing then keeps two generations into that
  cache apart, and a remove and an add can put another project under its id in
  between: a record can end up with a database of another project.
  `ReadyHasOwnDatabase` is therefore stated up to `crossed`. This came out of
  its proof; the behaviour found takes six commands, more than the run has.
* `app.go:938`: a generation that is cancelled because the watchers stop leaves
  "context canceled" as the project's reason for invalidation.
* `fragment.go:58`: equal content lets another project take the fragment over;
  its first owner can then not refresh it with changed content (`Replaceable`).
* `fragment.go:51`: the engine's lock keeps other runs away, not the user: a
  fragment written by hand between the check and the rename is overwritten.
* `engineindex.go:201`: `cmd.Run` ends its child only by the context. When the
  command itself is killed, clangd-indexer goes on (`proc_windows.go` sets no job
  object), the engine's lock is free, and the next run opens and truncates the
  same `engine.idx.new`. If the old indexer ends before the rename, the index that
  is mounted holds the output of both. `MountedIndexWhole` allows this case and
  says that there is no other: what is mounted was finished by some indexer.
* `daemon_server.go:82`: at the connection limit a stop is refused as well. A
  client that comes while a daemon shuts down starts a process that exits with
  "already running", and may time out.
* `watcher.go:168`: Source is renamed and replaced before the rename is handled:
  the name is still in `dirs`, so the new directory is never attached, although
  README.md:74 promises a registration for each existing Source. The same
  happens to directory events handled before `AddProject` has listed the
  project (`watcher.go:95`), and after a Remove that timed out
  (`backend_windows.go:73`). These are the exceptions of `TreeWatched`.
* `backend_windows.go:189`: a completion of no bytes, which Windows uses when
  changes did not fit the buffer, is taken for no change (`silent`).
* `backend_windows.go:181`, `watcher.go:169`: one failed read or attach, also one
  on a directory that is being deleted, ends the watcher and with it the daemon.
* `manager.go:640`: a change handled while the session starts is dropped, and
  nothing refreshes documents of a directory that is moved; these are the
  exceptions of `DocumentsCatchUp`.

## 5. Proofs

Every invariant and every action property that a passing run checks is also a
theorem, for every value of the constants. Each proof module defines an
inductive invariant `IInv` (TLC agrees with it on small instances) and
proves it for `Init` and for each action; the theorems then follow from
`Invariance == Spec => []IInv`. The assumptions are the named ASSUMEs of the
modules: the bounds are natural numbers, capacities and `MaxConcurrent` are
positive, `Nobody`, `None` and `Ended` are none of the processes, calls or
frames, and processes, calls and requests of different kinds are different.
Sets of projects, requests, processes, clients and connections may be infinite,
except the calls (their number bounds `c.next`) and the `.uproject` files.

**`CoordinatorProofs`**: `TypeCorrect`, `NoOverlap`, `Bounded`, `NothingLost`,
`ClosedIsQuiet`, and `Refinement` (the safety part of `Regeneration`). That the
running and the generating projects are finitely many is part of the invariant.
Its part `Core` adds to the invariants what they rest on. `Counted` says that
`wg` and `permits` are the sizes of the sets of projects with a worker and of
generating projects; this needs `NoSameProjectOverlap`, which makes a project
contribute at most one to either. `ClosePhases` says that a returned Close has
closed, a closed coordinator is cancelled, and a returned one has an empty
WaitGroup; with `Counted`, that leaves no worker, and `start` is refused.
`NoLostChange` is inductive beside `Core`: a worker that finishes was in
`reporting` and so, being alone, not in `waiting`; the change it leaves was
marked pending and gets a timer.

**`ReconcileProofs`**: `OneIncarnation`. The invariant is `Core` again. A
`Restart` resets the coordinator but not the counters of workers; `ClosePhases`
says that these are zero, because the Close before it has returned.
`NoLostChange` does not survive a `Restart` (section 4), so it is not in `Core`.

**`SessionManagerProofs`**: `SessionTypes`, `ProcessesOwned`, `ClientCurrent`,
`SharedStartup`, `Served`, `ReferencesCovered`. `Wired` says what the current
session's fields have to do with each other: the client is a finished startup of
the session's configuration and its process is the published one; a startup in
progress is the session's own and there is no client; only the client is
watched. `UpToDate` says that, unless the session is marked stale, whatever it
has or starts is no older than the last Invalidate. `Sound` relates a request to
this: who waits, waits for a session of its configuration; who holds a client,
holds the current one or one that is shut or in the hands of Close. Most steps
change one startup, one session or one request; a lemma for each shape of step
(`RequestOnly`, `SessionTouched`, `StartupOnly`, `CurrentStartupStep`) carries the invariant, and each
action is shown to have one of the shapes. The proof shows why `Client` may
drop the mutex while it waits: `Continues` says that a session either is
replaced or keeps its configuration and takes only newer startups.

**`LspClientProofs`**: `ClientTypes`, `OwnReply`, `RegistrationsEnd`,
`OneAnswer`. `IdsTaken` says that `c.next` counts the calls that have begun and
that their ids differ, so a registered channel is found only by an answer to
its own call. For clangd's requests, `Asking` says that each is in one place:
not asked yet, in the queue, or taken up by readLoop (to refuse) or requestLoop
(to answer); its frame is in one place as well, with its sender, in the write
queue or with writeLoop, and counted when it leaves there.

**`CommandsProofs`**: `CommandTypes`, `GenerationExclusive`, `RecordedDatabase`,
`MountedWhole`, and the action properties `FragmentOwned` and `UpdatesKept`.
`GateHeld`, `StoreHeld` and `EngineHeld` say who holds which lock at which step,
and what it saw under the lock is still so; an index that is built or mounted
stays `Finished` whatever a stray indexer does. `Databases` carries
`RecordedDatabase`: while a generation holds the lock of its id, a record of
that id either has no database or belongs to the same `.uproject` (`Unchanged`),
and a promoted database that is not recorded yet stays in its cache
(`Promoted`). `Stamps` bounds the databases by the commands issued. That
`stableID` finds an id rests on there being more ids than files, which is where
the finiteness of `Dirs` is used. The type invariant of `Commands` is proved but
not in the run, which spends its time on the other properties.

**`DaemonProofs`**: `DaemonTypes`, `SingleOwner`, `ManagerOutlivesUsers`.
`LockHeld` says that who owns watchers and sessions holds the lifetime lock;
`Shapes` is the order of runDaemon; `Counted` says that a daemon's slots are the
number of its handlers, and that handlers exist only between Accept and
`wg.Wait`: so a manager that is being closed has no users.

**`WatchingProofs`**: `ReadsNeverDangle`, for every number of changes on disk and
every capacity of the channel. It rests on `RootsAssumption` (a project has a
root and a Source). `NoDanglingRead` is inductive once the watches have their
types; `dir` and `changes` are in `IInv` because they number the directories
that Add opens. The argument goes by operation: Add starts a read only on a root
that has no watch, Remove changes a watch to `canceling` and never to `closed`,
a completion needs a pending read, and only `readCompletions`, which takes the
last packet, closes.

Only model-checked: the liveness properties and the fairness part of the
refinement, which are outside this prover's logic. The three properties that
are violated (section 4) have counterexamples instead.

## 6. Not modelled, and the plan

Open, in this order:

1. Proofs: action properties of `SessionManager` and `LspClient` on top of their
   invariants, and an abstract specification of one clangd per project that
   `SessionManager` implements.
2. Index progress of the LSP client (tokens, the grace timer, phases): one flag
   and one text that no other modelled state depends on.
3. The composition of `SessionManager` and `LspClient`: a client that was torn
   down while its clangd goes on is handed out until the process ends.

Not modelled because there is no state to check: the MCP tools bound, call and
format one query each (their only shared state is a counter of eight concurrent
tools); `ubtguard` polls the process list for a bounded time; the toolchain is a
choice among probed programs. `Store.Save` is not modelled: no command calls it.

Left out for good: framing and JSON decoding, path and URI handling, the Rider
conversion, discovery of projects, engines and toolchains by probing files and
programs, tool schemas, diagnostics texts and the command line. They convert
data without a state of their own.
