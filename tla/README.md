# RustyTalon in TLA+

A verification development for RustyTalon, a personal AI agent written in Rust:
TLA+ modules that model its concurrent core, TLC configurations that check them
on small instances, and TLAPS proofs that hold for every instance. Paths below
are relative to the repository (`src/...` is its `src/` directory).

## 1. The system

One process, many tokio tasks. Channels (REPL, HTTP, web gateway, WASM plugins)
feed one **message loop** (`agent/agent_loop.rs`) that handles one message at a
time: a chat turn (LLM and tools), a job command, or a thread command. Beside it
run a worker and a cleanup task per local job, a self-repair task, a pruning
task, a heartbeat, a cron ticker and the routine runs it spawns, the web
gateway, and the orchestrator's API that containers call. They share maps behind
locks; no lock spans a whole operation. The pairing commands are processes of
their own that share files with it. The database is written mostly by
spawned tasks whose errors are only logged.

| Component | State | Operations | Interacts with | What makes it correct |
|---|---|---|---|---|
| Job state machine, `context/state.rs` | `JobState`, `repair_attempts` | `transition_to`, `mark_stuck`, `attempt_recovery` | everyone below | outcomes are final |
| Job contexts, `context/manager.rs` | `contexts` map, limit | `create_job_for_user`, `update_context`, `find_stuck_jobs` | scheduler, tools, self-repair | the limit holds under concurrent creation |
| Scheduler, `agent/scheduler.rs` | `jobs` map of worker handles | `schedule`, cleanup task, `stop`, `stop_all` | contexts, workers, database | no worker is lost, every slot comes back, shutdown leaves nothing |
| Worker, `agent/worker.rs` | place in its loop, iteration, message channel | plan, act, ask, loop, timeout, `mark_*` | contexts, LLM, tools, database | the outcome is the worker's own and the stored one is not ahead of it |
| Self-repair, `agent/self_repair.rs` | list of detected jobs | detect, repair | contexts | recovers a job once, never under a live worker |
| Job tools, `tools/builtin/job.rs` | the waiting tool call | local job, sandboxed job (waiting or not), cancel | contexts, container manager, database | answers what happened, and answers at all |
| Container manager, `orchestrator/job_manager.rs` | `containers` map | `create_job`, `stop_job`, `complete_job`, `cleanup_job` | Docker, tokens, tool, web | handles of finished jobs stay gone |
| Tokens and worker API, `orchestrator/auth.rs`, `api.rs` | token per job | create, validate, revoke, `report_complete` | containers | containers of an earlier process are shut out |
| Web handlers, `channels/web/server.rs` | none | cancel, restart; toggle and delete routines | container manager, database | a cancelled job is not called completed |
| Sessions and threads, `agent/session*.rs`, `undo.rs` | sessions, threads, turns, approvals, checkpoints | turn, approve, interrupt, undo, redo, compact, prune | message loop, LLM, database, web | an approval runs one request once; no thread is left busy; a conversation keeps its thread; redo keeps to its branch |
| WASM channels, `channels/wasm/`, `channels-src/telegram` | message sender, rate limiter, guest callbacks, offset, connection, event queue | start, poll, webhook, connect, dispatch, callback timeout, shutdown | platform, guest code, message loop | messages arrive in order, once and without silent gaps; what is acknowledged is delivered; shutdown ends |
| Routine engine, `agent/routine_engine.rs`, and its tools | running count, event cache, routines, run rows | cron and event triggers, run, create, update, delete | database, LLM, web | the running count is exact; the ticker keeps to cooldowns; a due routine is fired |
| LLM failover and routing, `llm/` | last used provider, quality scores | try in turn, retry, route | everyone who asks the LLM | a request fails only when every provider did |
| Pairing, `pairing/store.rs`, `cli/pairing.rs` | files of requests, of those let in, of failed attempts | request, list, approve, expire, rate limit | channels, commands in other processes | only approved senders get in; calls do not undo each other; limits hold |
| Web streams, `channels/web/{sse,ws}.rs` | connection count, broadcast | connect, send, drop | browser | the limit holds, counts come back |
| WASM rate limiter, `tools/wasm/rate_limiter.rs` | window counters | check and record | WASM tools | limits per window |

The remaining parts (safety patterns, secrets, workspace search, estimation,
evaluation, graph, setup, CLI, settings, LLM adapters, plugin crates) are text
processing, storage of single values or terminal I/O; `PROJECT.json` lists each
with the reason it is left out.

Hard behaviours: check-then-act across two lock acquisitions (cleanup task,
`complete_job`, routine triggers); a lock held across a sleep (`stop`); recovery
from two places; spawned writes in any order; tool futures and HTTP handlers
dropped in the middle; containers that outlive the process; guest callbacks that
outlive their timeout; a lock held while a queue is full; files read without
their lock; counters and caches read from old copies. `PROJECT.json` lists them as hazards, each at its line.

## 2. Modules

| Module | Models | Lines of code it stands for |
|---|---|---|
| `JobState` | states and table of `context/state.rs` | enum, `can_transition_to`, `is_terminal` |
| `Jobs` | local jobs: contexts, scheduler, workers, cleanup tasks, self-repair, message loop, status writes | see the map |
| `JobBoard` | abstract: what the job subsystem promises | none, it is the specification |
| `Containers` | sandboxed jobs: tool, web handlers, container manager, tokens, worker, Docker, rows, crash and start | see the map |
| `Routines` | routine engine: event and cron triggers, cache, runs, tools, web handlers, time, crash | see the map |
| `Threads` | conversations: sessions, threads, turns, the message loop with approvals and auth mode, undo and redo, pruning, web handlers, spawned writes, restart | see the map |
| `Channel` | one WASM channel: lifecycle, poll loop, webhooks, connection broker, guest callbacks, delivery to the agent | see the map |
| `Pairing` | the pairing store of one channel: requests, approvals, failed attempts, file locks, failing calls, time | see the map |
| `JobsProofs`, `ContainersProofs`, `RoutinesProofs`, `ThreadsProofs`, `ChannelProofs`, `PairingProofs` | theorems about the six components | |
| `UndoProofs` | theorems about undo and redo in `Threads`, on top of `ThreadsProofs` | |
| `MCJobs`, `MCContainers`, `MCRoutines`, `MCThreads`, `MCChannel`, `MCPairing` | the instances for TLC | |

The message loop appears twice: `Jobs` has it as the caller of the scheduler and
as what shuts the process down, `Threads` as what works on conversations. The two
touch no common state but the loop itself, which is serial in both; `Channel`
feeds it and sees only whether it takes the next message.

### Jobs

Each action is a stretch of one task between two awaits at which another task
can see or change the shared state.

* `ctx`, `attempts`: the contexts. `Absent` is an id that is not used yet.
* `running`: the keys of `Scheduler.jobs`. Only `stop()` keeps the write lock
  across an await (the 100 ms), so the lock is taken exactly while the message
  loop is at `"stop"`.
* `pc`, `left`, `stopq`: where the worker is, what is left of its iterations or
  plan, and whether `Stop` is in its channel. What the LLM and the tools answer
  is a choice; `job_timeout` may strike at any point of the loop.
* `reaper`: the cleanup task of each `schedule()`; its check and its removal are
  two actions because the code takes two locks.
* `mainAt`, `mainJob`, `todo`: the serial message loop and `stop_all`'s copy.
* `repairQ`: the list `detect_stuck_jobs` returned, with the attempts it read.
* `db`, `writes`: the rows and the spawned writes, which run in any order, fail,
  or are lost when the process exits.

`JobBoard` is a board of cards: at most `MaxParallelJobs` are open, work on a
card starts once, outcomes are final. `Jobs` maps `ctx` and `pc` to cards
(`board`), and `ImplementsBoard` says that it implements the board.

### Containers

* `handle`, `tokens`: the two maps of the orchestrator. `NoHandle` is a missing
  entry, `cid` says whether the container id has been recorded.
* `kind`, `creator`, `told`: the caller that creates the job (tool call that
  waits or does not, web restart), where it is, and what it has answered.
* `docker`, `reported`: the container, and the report its worker has sent.
* `complete`, `stopAt`: the completion handler and the two callers of
  `stop_job`, one action per critical section.
* `db`, `writes`: rows and spawned writes; web handlers wait for theirs.
* `proc`, `crashes`, `swept`: a crash loses everything but Docker and the rows;
  the start sweeps stale rows unless the database fails.
* `cancelled`, `old`: history, for the properties only.

Docker calls, database calls, tool futures and connections may fail unless
`Reliable`.

### Routines

* `db`: the routines table. A routine is `Unused` until it is created, and
  `Deleted` for ever after; otherwise its trigger, whether it is enabled, the
  time since its last run and the time to its next fire. Times are distances
  from now, which `Tick` moves in every copy; ages stop at `Cooldown`, beyond
  which the code does not tell them apart.
* `rows`: the rows of `routine_runs` that say 'running'. Finished rows are not
  kept; deleting a routine deletes its rows, and the foreign key refuses a row
  for a deleted routine, in both database backends.
* `cache`: `event_cache`, as the age of the cached `last_run_at`.
* `evTodo`, `evAt`: `check_event_triggers`, called by the message loop; it holds
  the read lock, so a refresh waits. `cronTodo`, `cronAt`: `check_cron_triggers`
  with the list it read. They interleave at every await, and look at the running
  count in the order of the code: the ticker before the count of rows, the
  message after it.
* `task`: a fired run, from `spawn_fire` to the end of `execute_routine`: it
  records its row and is counted, executes, is no longer counted, completes its
  row, and writes `last_run_at` and `next_fire_at`.
* `admin`: one routine tool call and one web request, each a read, a write of
  the whole row, and for the tool the two steps of `refresh_event_cache`.
* `panicked`: runs whose task unwound. They stay in the running count, and their
  rows stay 'running'. `cronSaw`: history.
* `Fires`: what `next_cron_fire` may answer, "no more" included; a routine whose
  schedule has run out, or is no schedule when a run ends, has no next fire.

`fire_manual` has no caller (the web's trigger sends a chat message), webhooks
have no handler, and a run's `run_count`, failures, state and notification
decide nothing.

### Threads

One user, whose messages come from the gateway with the id of a thread or with
none. Texts are the number of the input they belong to.

* `sess`, `live`: the session objects made so far and the one
  `SessionManager.sessions` holds; a turn may go on in a session that was pruned.
* `map`, `undo`: `thread_map` and `undo_managers`.
* `loop`: `handle_message` from `maybe_hydrate_thread` over `resolve_thread` to
  the handler, and `run_agentic_loop` with the calls of a batch one by one. The
  steps are split where another task can make a difference, so a web handler or
  a pruning comes between the lookup and the creation of a thread.
* `prune`: `prune_stale_sessions`, from the removal to the clean-up of the maps.
  `last_active_at` says nothing about a turn, so any session may be found stale.
* `db`, `writes`: stored messages and the spawned `persist_turn` tasks.
* `ran`, `void`: history, how often the tool of each approval request was run
  and which requests stopped waiting without being run. `restored`: history, the
  threads that were hydrated from their rows. `moved`: history, the conversations
  that asked for another thread with `/new` or `/thread`.

Which tool a call names decides whether it needs approval and whether it may put
the thread into auth mode; five tools stand for the cases the code tells apart
(`rm` is a shell command that is never approved in advance).

### Channel

* `kind`: the configuration: polled, webhook, a gateway that speaks first, or a
  socket with a handshake and no answer to it.
* `phase`, `tx`, `stop`: `start`, `shutdown` and what they set. A `start` whose
  callback fails leaves a sender without a receiver.
* `task`: the poll or dispatch loop and the webhook requests, each at the lock of
  `message_tx`, at the lock of the rate limiter, or waiting for room.
* `calls`: guest callbacks on blocking threads. A caller that times out leaves its
  thread running, and what it wrote is flushed when it returns.
* `offset`, `confirmed`, `posted`: the Telegram plugin's offset and the platform.
* `conn`, `queue`: the connection task (attempts, handshake, heartbeats) and the
  events on their way to the dispatch loop, which go with the loop when it stops.
  `Keepalive` is the keepalive of each WebSocket: unanswered heartbeats are counted
  with a `json_opcode` one only (`Counted`).
* `faults`: history, what has gone wrong so far; the properties name the faults
  they do not survive.

Whether the rate limiter admits a message depends on the clock and is a choice.

### Pairing

* `file`, `exists`, `lock`: the requests of unknown senders and the lock of their
  file; `allow`, `allowLock`: those let in; `attempts`, `attemptsLock`: the failed
  attempts to approve, numbered so that two in the same second stay two.
* `call`: what each caller (a guest callback, a command) is doing, with the content
  it will write. Two actions are split where another caller can see or change a
  file: `list_pending` reads, then opens and thereby cuts the file, then waits for
  the lock; `approve` writes the requests, gives the lock back, then opens and cuts
  the list of those let in. A file that is cut parses as an empty one.
* `Reads`: a read that fails under the lock is taken for an empty file, and the
  call goes on to write over what it could not read.
* `Fail`: any other file operation fails and the call returns its error, or the
  process ends. Closing the file gives its lock back; what was cut stays cut.
* `now`: seconds, for the expiry of requests and the window of the rate limit.
* `pending`, `shown`, `tried`, `approved`, `recent`, `failures`, `lost`, `overtaken`,
  `broken`: history, for the properties. `lost` is what a failure took away; a
  failed attempt is in `failures` from the moment the code was found wrong.

Ids are compared as they are: usernames, metadata, `last_seen_at` and the
spelling of codes and channels are left out. A code is any that no request in the
file has; the fallback after 500 collisions is taken to find one as well.

## 3. Runs

| Run | Instance | Distinct states | Shows |
|---|---|---|---|
| `jobs_safety` | 2 jobs, 2 slots, plans of up to 1 action, 1 iteration, 1 repair attempt, database | 1.1 million, symmetry | `LiveTracked`, `LiveState`, `DbNeverAhead`, `ShutdownStopsWorkers`, `RecoveredOnce`, `FinalStays` |
| `jobs_liveness` | 2 jobs, 1 slot, no database, fair tasks | 11 000 | `Capacity`, that `Jobs` implements `JobBoard`, `SlotReclaimed`, `StuckIsRepaired`, `ShutdownEnds` |
| `containers` | 1 new job in every way, 1 job of an earlier process, 1 crash, everything may fail | 61 000 | `CompletedIsReported`, `AnsweredIsForgotten`, `OldWorkersShutOut`, `StaleRowsSwept`, `WaiterReturns` |
| `routines` | 1 routine of either trigger, limit 1, 2 changes, 1 crash, everything may fail | 1.1 million | `RunningCountExact`, `CronCooldown`, `DueIsFired` |
| `threads` | 3 messages of every kind, 1 tool iteration, batches of 1 and 2 calls, 1 checkpoint, 1 web thread, pruning or restart | 1.5 million | `ApprovedOnce`, `NoThreadLeftBusy`, `ResolvedThreadExists`, `ConversationSticks`, `RedoKeepsTheBranch`, `AnswersFollowQuestions`, `LoopReturns` |
| `channel` | 4 kinds, 2 webhook requests, 3 messages, 3 callbacks, pages of 2, queues of 1, 1 retry, 2 missed heartbeats, one kind of keepalive each | 573 000 | `InOrder`, `NoGaps`, `AcknowledgedIsDelivered`, `SilentServerIsLeft`, `ShutdownEnds` |
| `pairing` | 2 callers, 3 senders, 3 codes, room for 2 requests, 2 failures allowed, 4 calls, 1 tick, everything may fail | 313 000, names in order | `FileIsWellFormed`, `OnlyApproved`, `FileIsExact`, `FailuresAreCounted`, `CallsReturn` |
| `jobs_cancel` | 1 job | violated | stopping a job that has completed stores `Cancelled` |
| `containers_cancel` | 1 job, nothing fails | violated | a cancelled job is stored as completed by the tool call that waits for it |
| `routines_cooldown` | 1 event routine, nothing fails | violated | a second message fires an event routine within its cooldown |
| `threads_landing` | 1 web thread, 1 message | violated | the first message to a thread made by the web lands in another thread |
| `pairing_allow` | 1 caller, nothing overlaps | violated | approving a second sender takes the first one off the list |

No run checks a `TypeOK`: each is a theorem (`TypeCorrect`), after TLC had found no
counterexample on the same instances.

Bounds. Two jobs suffice for what one job's tasks can do to another's: they
share only the limits, the lock, the message loop and the repair list; two jobs
for one slot exercise the limits. One iteration and one planned action
reach every place of the worker, since later rounds repeat them. One repair
attempt is the limit at which the comparison matters. Sandboxed jobs share
nothing but the process, so one new job beside an old one is enough; one crash
reaches every crash point. In `containers` deadlock is not checked, because an
idle process with every id used may stay idle.

Routines share the running count and the two passes, nothing else, and both
passes can fire the same routine (it becomes a cron routine when it is given a
schedule), so one routine with two runs already passes a limit of one; two
changes are the tool's and the web's, the overlap that matters. A cooldown and a
period of one tick tell "now" from "not yet". `Runs` bounds the run ids in use;
a pass that finds none waits, which no property takes for progress.

Conversations of different users share only the loop, so one user is enough.
Three messages are a turn that asks for approval, a command that takes the
request away, and the answer that comes too late; or a turn, an undo and a new
branch. One checkpoint is the limit at which the oldest one goes. One event is a
web thread, a pruning or a restart, between any two steps. The run stops when the
messages are used up, so deadlock is not checked there, nor in `channel`, where
everything ends after a shutdown. Channels share nothing but the agent's stream,
so one channel of each kind is enough; three callbacks are one that outlives its
timeout and two beside it. `Page <= MaxEmits` is the configuration of the code for
polling: Telegram answers with at most 100 updates and a callback may emit 100
messages. A webhook request has no such bound: here it brings up to three messages
to a callback that may emit two.
`RedoKeepsTheBranch` needs longer conversations than the other properties of
`threads`; TLC has also checked it alone with four messages of input, undo, redo,
resume and compaction and two checkpoints (520 000 states).

Pairing stores of different channels share nothing. Two callers make every race
of two calls. Four calls are two requests that are both in the file and two of an
approval, a list and a third request, for which there is no room; or one sender who
asks and is approved twice. `NamesInOrder`, the constraint of this run, keeps of the
behaviours that differ only in the names of senders and codes the one that uses them
in order; TLC has also checked the instance without it (3.2 million states), and
three callers (with symmetry). A
request that expires after one tick, and a window as short, tell old from new.
`MaxCalls` bounds the calls and ends the run, so deadlock is not checked.

Fairness. tokio polls every ready task, so a worker, a cleanup task, the repair
task and a command in progress go on; LLM and tool calls of a worker are under
`job_timeout`, those of a waiter under its deadline. Docker calls return, and
the process is started again by its supervisor (`deploy/`). The
task of a routine run goes on whenever it can, but that its execution ends is
not assumed, because nothing limits the time of its LLM calls (tools have a
timeout). The ticker ticks, its pass goes on, time passes, and the database does
not fail the count of a routine's rows each time it is asked (strong fairness of
the `CronFire` that spawns). The message loop goes
on, since tools and connections have timeouts, but not where it waits for the
LLM: `LoopReturns` says that only a single call that never returns can keep it.
In a channel the loops,
the requests and the shutdown are scheduled, a wait for a callback ends at its
timeout, and the heartbeat timer ticks where a keepalive counts; that a guest ever
returns is not assumed, nor that the connection task goes on, since an attempt to
connect has no timeout. A caller of the pairing store goes on when it can, a free lock is
given to one that waits for it in the end, and file operations return. Nothing is
assumed of users, platforms, workers in containers, or database writes.

Each checked property is accompanied by a mutant: an operator next to its
original that changes it as a plausible bug would, under which the property
fails.

## 4. Proofs

Each component has a module of proofs, checked by TLAPS, and each such module
has the same shape: the parts of an inductive invariant `IInv`, lemmas on the
operators of the model, one lemma per part that says that every step keeps it,
`Invariance` (`Spec => []IInv`), and the theorems that follow. TLC has checked
every `IInv` on the instance of its run. Together the theorems state 27 of the 36
properties the passing runs check: all that are not liveness.

### Jobs

For every finite set of jobs, every limit, every number of iterations, with
planning and a database or without:

* `TypeCorrect`, `WorkersTracked`, `WorkerOwnsJob`, `DatabaseNeverAhead`,
  `ShutdownClean`, `OneRecovery`: the safety invariants of `jobs_safety`;
* `OutcomesAreFinal`: the action property `FinalStays`;
* `LimitsHold`: `Capacity`, with the cardinality theorems of the library;
* `BoardImplemented`: every behaviour of `Jobs` is one of `JobBoard`.

Assumptions: `JobsAssumption` (finite set of ids, limits are naturals) and
`NoJobAssumption`. None of the
invariants is inductive alone. A live worker stays in the map (`LiveTracked`)
because a cleanup task past its check has a finished worker (`ReaperInv`), and
no worker is started twice: `schedule()` needs a job whose context can become
`InProgress`, which is one that was never scheduled (`NotScheduledInv`) or one
that `attempt_recovery` has already made `InProgress`, whose scheduling the
table refuses (`ScheduleInv`, `AttemptsInv`). That a live worker's job is never
`Stuck` (`LiveState`) is what makes recovery harmless. `QuitInv` says that
`stop_all`'s copy covers the map while the process shuts down. The database part
(`SaveInv`, `DbNeverAhead`) needs the finality of outcomes, proved once for all
actions as `OutcomeStep`. `WorkerSteps` summarises the worker's actions so that
each proof treats them as one.

### Containers

For every set of jobs, any number of crashes, whatever fails
(`ContainersAssumption`): `TypeCorrect`, `CompletionIsGenuine`,
`HandlesStayGone`, `OldContainersShutOut`, `SweepIsComplete`, which are all the
invariants of `containers`. Two arguments carry them. `TaskInv`: a caller that
is still creating a job or waiting for it has its handle and has not answered
(`CreatorInv`), nothing of this process works on a job of an earlier one
(`OldInv`, `DownInv`), and `stop_job` is at work only for a cancel or for a
waiter that gave up (`StopInv`). `OutcomeInv`: a result in a handle is the one
that was reported, and a handle is stopped without one only by a cancel or by a
waiter that gave up (`ResultInv`), so an answer or a write that says completed
goes back to a report. `SaveInv` keeps the first, spawned write of a row out of
this.

### Routines

For every set of routines, any finite set of runs, every limit, cooldown and
period (`RoutinesAssumption`, which also keeps the value for "no routine" out of
the routine ids): `TypeCorrect`, `CountIsExact` and the action property
`CronKeepsCooldown`, which are all the safety properties of `routines`. `CountInv`
is sharper than the property: the count is that of the runs that execute and of
those that panicked in this process, which have no task. `CronCooldown` needs
`AgeInv`: while the ticker has a routine on its list, and no run of it was under
way when the list was read or was fired since, its row is no younger than the copy
on the list, and no task of it is there that could close and make it so. `PassInv`
adds that a routine the pass is about to fire is no longer on its list.

### Threads

For every set of submissions and batches of tool calls and any number of
messages, checkpoints, prunings and restarts (`ThreadsAssumption`):
`TypeCorrect`, `ApprovalsRunOnce`, `TurnsAreEnded`, `ResolvedThreadsStay`,
`AnswersAreOrdered`, and the action property `ConversationsStick`. `LoopOK` and `TurnOK` say what the message loop holds on to
wherever it waits, `ResolvedThreadExists` among it: sessions only gain threads,
and the loop keeps the session it resolved even when the manager has pruned it.
A thread is Processing only while the loop works on it (`BusyInv`). `ApprovedOnce`
needs `WaitInv`: a request that some thread awaits has not run, is not void, and
no other thread awaits it, nor is it the one the loop is about to put into its
thread. `MintInv` is what makes a new map entry harmless to `ConversationSticks`,
`AnswerInv` ties a half-done `persist_turn` to the row it has written, and
`BudgetInv` bounds the turns by the messages. The proofs work on what an action
does to a session (a thread changed, a thread added, the session left alone), not
on the records.

### Channel

For every set of requests, any number of messages and callbacks, every page,
queue, retry and heartbeat limit and every keepalive (`ChannelAssumption`, with
`Page <= MaxEmits` for the pages of getUpdates):
`TypeCorrect`, `MessagesInOrder`, `NothingLost` and `AcknowledgedArrives`, which
are all the invariants of `channel`. `LockInv` and `CallInv` are about the locks
and about who waits for which callback: a task has a batch only while it delivers
and waits for one callback, its own. `RequestInv` follows the messages of a
webhook request: they are in its callback, or what one callback may emit of them
is in its batch and the queue to the agent. `OrderInv` has an argument for each source. Polling (`PollOrder`): all
that has arrived lies below the saved offset, and a callback works above it; this
is lost when a callback outlives its timeout, and so is the order. A connection
(`QueueOrder`): what has arrived, the event in hand and the queue follow each
other, whatever is dropped. `GapInv` sharpens this for behaviours without a
fault: a page starts at the saved offset and is emitted whole, which takes
`Page <= MaxEmits`, and `ConnOK` says that no event is taken for the answer to the
handshake. Events that a stop drops are such a fault. `BoundInv` keeps all numbers below what the platform has
posted. The lemmas on sequences say what a concatenation, a prefix, a head moved
to another sequence and a range of numbers are; `PassingSteps` and
`CallbackSteps` reduce all actions to what they do to `Arrived`.

### Undo and redo

`RedoIsSafe` (`RedoKeepsTheBranch`) for conversations and stacks of any length,
under `ThreadsAssumption`. A checkpoint is the turns of a thread as messages, and
undo makes turns of messages again, so the first theorem is about data:
`CheckpointRoundTrip`, that a thread restored from its own messages has the same
inputs with the same answers. It is an induction over the turns. The library's
induction theorems take an operator, which the provers cannot instantiate;
`NatSets` (a set of numbers with 0 and every successor is all of them, from the
well-foundedness of `<`) takes a set instead, and carries every induction here:
that the folds exist (`FoldExists`), what they join (`MessagesJoin`) and what a
step of `restore_from_messages` adds (`StepTurn`).

The inductive invariant is `BranchInv`. Inputs are numbered in order, so a branch
is told by the number its last input has (`Cur` of turns, `Top` of messages).
`BranchesOK`: the turns of a thread rise, each checkpoint is the messages of such
turns, the undo stack rises towards the thread and the redo stack falls towards
it (`Stacks`): no redo ends before the thread does. `OneHome`: a thread is in one
session only, so what is done in a pruned session touches no other. `LastTurn`:
the turn the loop works on is the last of its thread, so its end moves no branch.
`StacksPush`, `StacksUndo`, `StacksRedo` and `StacksResume` are the four operations
of `UndoManager`.

Threads in `restored` are left out. A pruning removes the session first and the
undo managers later; a thread hydrated in between keeps the checkpoints of its
earlier life, while its turns come from rows that may be missing or out of order,
and for them the property is false (TLC finds it at larger bounds). The proof
attempt found this; the property as it was stated before left pruned sessions out
as well, and now holds in them.

### Pairing

For every set of callers, senders and codes, any limits and any time
(`PairingAssumption`: the limits are naturals and nobody is called "none"):
`TypeCorrect`, `FileStaysWellFormed`, `OnlyApprovedGetIn`, `FileStaysExact`,
`RecentStayAllowed` and `NoFailureForgotten`. The files alone are not inductive:
`IInv` says of each call under way what its content will make of its file. `Types`
ties the locks to the calls that write. `Contents`: what a call carries is within
the limits as the file is, with codes that were shown, and so a list written back
breaks no limit even when it is old. `Admits`: a call that will let a sender in
goes back to a code that was tried and shown. `Exact`: as long as no list was
overtaken, the file and every content that is carried agree with the requests that
were made and not lost on all that has not expired, or the file is cut by a call
that carries them. `RecentKept` and `AllCounted` say the same of the other two
files: whoever holds the lock carries all that has to be there. For the failed
attempts that takes two facts more: each has a number of its own, below the next
one (`Numbered`), and one that is still to be recorded is in no file and carried by
one call (`Placed`). A failed read moves what it did not see to `lost` and the
content that will be written with it, so the parts survive it. `AgreeLater` and `CountsLater` are
the passing of time: what agrees on the live requests goes on to.

### Only model-checked

The liveness properties (`SlotReclaimed`, `StuckIsRepaired`, both `ShutdownEnds`,
`WaiterReturns`, `DueIsFired`, `LoopReturns`, `SilentServerIsLeft`,
`CallsReturn`): fairness and ENABLED are beyond the prover.

## 5. Where code and documents disagree

The five violated runs are the findings of `PROJECT.json`. Eight more are stated as
properties in the modules, and TLC refutes each when it is put into the
configuration of its module:

* `RecoveredIsRetried` (`Jobs`): `repair_stuck_job` tells the user that the job
  "recovered and will be retried" (`agent/self_repair.rs:168`), and nothing
  schedules it.
* `LimitIsOnConcurrentJobs` (`Jobs`): completed jobs count against "Maximum
  concurrent jobs" (`docs/CONFIGURATION.md:140`) for ever.
* `RoutinesAreLimited` (`Routines`): a tick, or a message and a tick, admit runs
  against the same running count (`agent/routine_engine.rs:144`);
  `docs/CONFIGURATION.md:287` says "Max routines running simultaneously".
* `AtMostMaxConcurrent` (`Routines`): the row that `check_concurrent` counts is
  written by the spawned task (`agent/routine_engine.rs:277`), and a message or a
  tick may come before it; `agent/routine.rs:272` says "Max simultaneous runs of
  this routine."
* `RunningCountIsLive` (`Routines`): a panic unwinds past the decrement and the run
  is counted until the process ends; the field is "Currently running routine count
  (across all routines)" (`agent/routine_engine.rs:49`), and the increment is said
  to survive "panics in the execution below" (`:324`).
* `DisabledIsNotMatched` (`Routines`): `routines_toggle_handler` does not refresh
  the event cache, and a disabled event routine goes on firing; `docs/API.md:177`
  says "Enable or disable a routine".
* `RequestsAreListed` (`Pairing`): `list_pending` reads without the lock and, when
  a request has expired, writes back over what was added or approved meanwhile
  (`pairing/store.rs:212`); the integration test says "List pending shows the
  request" and "Pending list is empty".
* `MovesWhenAsked` (`Threads`): `/new` and `/thread <uuid>` set the active thread,
  which `resolve_thread` does not read, and the next message stays in its old
  thread; `docs/WEB_UI.md:62` says "Use `/new` to start a fresh context, or
  `/thread <uuid>` to switch between existing threads" (also `:47`, `:48`).

These were met while modelling, are in the models as the code has them, and have
no property of their own:

* `/undo` leaves the checkpoint it restores on the stack (`agent/undo.rs:115`), so
  a second `/undo` restores the same state again; `docs/WEB_UI.md:40` says "Undo
  the last conversation turn" and the code's comment that "multiple undos can work".
* `/stop` is read by the same serial loop that is in the turn, so it finds no
  thread Processing; `docs/WEB_UI.md:49` says "Stop the agent mid-response".
* A turn that went through an approval is not stored: `process_approval` does not
  call `persist_turn`; a denied one keeps its turn Processing in an idle thread.
* The writes of two turns may interleave, and a thread restored from them pairs an
  answer with the wrong question, though each question precedes its own answer.
* A full event queue drops the newest event (`channels/wasm/broker.rs:525`); the
  warning and `channels/wasm/capabilities.rs:195` say the oldest.
* A guest callback that outlives its timeout has its offset saved and its messages
  thrown away; `wit/channel.wit:138` says they are delivered after it completes.
* A batch of a poll or of a webhook request that waits for room when the agent
  leaves keeps `shutdown` waiting (`Jammed` in `Channel`); a dispatch loop that
  waits so is aborted.
* A webhook request with more messages than one callback may emit is answered with
  200 and the rest is dropped (`channels/wasm/host.rs:183`); the WhatsApp plugin
  emits every message of a batch (`channels-src/whatsapp/src/lib.rs:738`).
* With a `ping_pong` keepalive, or none, a server that stays silent is never left:
  pings are sent and not counted (`channels/wasm/broker.rs:582`).
* The dispatch loop drops the events that wait when it sees the shutdown signal
  (`channels/wasm/broker.rs:718`).
* An attempt to connect has no timeout and does not see the signal
  (`channels/wasm/broker.rs:286`), and an aborted dispatch task leaves the
  connection task to itself: it may outlive the shutdown, though the broker "runs
  until the `shutdown_rx` watch channel receives `true`" (`:52`).
* A cron routine whose schedule has no further fire, or whose last run was fired by
  an event before it was given its schedule, has no `next_fire_at`, and the ticker
  never finds it again (`agent/routine_engine.rs:363`).
* A run that a crash, a panic or a failed write cut short keeps its row 'running',
  which nothing sweeps; its routine is at its limit from then on.
* A thread hydrated between the two halves of a pruning keeps the checkpoints of
  its earlier life (`agent/session_manager.rs:220`), and a redo may bring back
  turns it no longer has.
* An approval that ends between the two files, by an error or with the process,
  takes the request out and lets nobody in (`pairing/store.rs:408`).
* A read that fails under the lock is taken for an empty file and written over
  (`pairing/store.rs:238`, `:334`, `:476`), which loses the requests or the failed
  attempts it held; an attempt that cannot be recorded does not count.
* `refresh_event_cache` reads its list before it takes the lock
  (`agent/routine_engine.rs:99`), so two refreshes may install the older one last;
  the model has one routine tool call at a time.
* A webhook that arrives before the channel has started, or after its start
  failed, is answered with success and its messages are dropped.

## 6. What could come next

1. An abstract sandboxed job that `Containers` implements and an abstract ordered
   delivery that `Channel` implements.
2. `Routines` with two tool calls at a time. Heartbeat.
3. `Failover`: the provider chain, retries and the shared last-used index, which
   concurrent requests overwrite before the cost of a request is looked up.
4. The WASM rate limiter and the web streams; follow-up prompts and events of the
   worker API.

## 7. Not modelled

Text, prompts, parsing, formatting, wording and logging; costs and tokens;
cryptography; search; the LLM, Docker, tokio and axum themselves, which appear
only as what the code can observe of them. `spawn_subtask`, `spawn_batch`,
`cleanup_finished` and `remove_job` have no caller. The repair of broken tools
is compiled in but never configured (`Agent::run` builds `DefaultSelfRepair`
without a store or a builder).
Of the WASM channels, responses to the platform, typing indicators, credentials
and the checks of URLs and webhook secrets are left out: they change no state
that the delivery of messages reads. The safety patterns, secrets, search and
storage of single values, estimation, setup and the CLI, and the plugins'
formatting make up most of the repository's lines and have no protocol to check.
