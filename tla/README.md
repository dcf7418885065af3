# A TLA+ verification of Electris

Electris is an AI-agent server written in Rust: messages arrive from chat
services, a dispatcher hands them to one worker per chat, a worker runs an agent
(a loop of provider calls and tools) or sends the request to a remote node, and a
swarm ("hive") may split a request into a graph of tasks.  This project models the
parts of it that keep state which several tasks, processes or messages share,
checks them with TLC on small instances and proves theorems about them with TLAPS.

Paths below are relative to the repository; `crates/electro-x/src` is shortened to
`electro-x`.

## The system's parts

Per part: the state it keeps, what is done to it, and the module that models it.
`PROJECT.json` lists every part with its sources, the ones that are not modelled
included.

| Part | Source | State | Operations | Module |
|---|---|---|---|---|
| Run queue | `src/app/server/scheduler.rs` | queue, messages outstanding per chat | push, next, mark dispatched, mark complete | `Scheduler`, `RunQueue` |
| Dispatcher, housekeeping, interceptors | `src/app/server/dispatcher.rs`, `dispatcher/` | slot per chat (worker, buffer) | receive, pick, ensure worker, `/stop`, buffer, send, redispatch, reap | `Dispatch` |
| Chat worker, execution control | `src/app/server/worker.rs`, `slot.rs`, `electro-runtime` | channel, state cell, tokens, semaphore | permit, route, remote run and fallback, local run, clean up | `Dispatch` |
| Agent turn | `electro-agent/runtime.rs`, `budget.rs` | history, task row, checkpoint, budget, pending texts | classify, call the provider, run tools, inject, save, reply; crash and recovery | `Turn` |
| Circuit breaker | `electro-agent/circuit_breaker.rs` | state, failures, opening time, timeout | may execute, success, failure | `CircuitBreaker` |
| Task queue and recovery | `electro-agent/task_queue.rs`, `recovery.rs` | rows, checkpoints, the set of recovered ids | write, scan, plan, abandon | `Recovery` |
| Parallel tools | `electro-agent/executor.rs` | groups of calls, semaphore, results | group, run, join | `Executor` |
| Requests and prompts | `electro-agent/context.rs`, `history_pruning.rs`, `lambda_memory.rs` | a history, memory entries | choose, prune, pack | `Context` |
| Delegation, decomposition, streaming | `electro-agent/delegation.rs`, `task_decomposition.rs`, `streaming.rs` | counter of sub-agents; sub-tasks; text | plan, register, undo; start, complete, fail; push, flush | `Delegation`, `Stream` |
| Swarm | `electro-hive` `blackboard.rs`, `worker.rs`, `lib.rs`, `queen.rs`, `dag.rs` | SQLite rows of orders and tasks | propose, validate, insert; claim, complete, fail, resolve, join | `Queen`, `Hive` |
| Remote client and worker node | `electro-runtime/runtime_handle.rs`, `src/bin/worker-node.rs` | requests in flight, cached answers | attempt, wait, execute, cache, notify | `Remote` |
| Memory | `electro-memory/failover.rs`, `markdown.rs` | primary and cache; files of entries | store, get, delete, repair, copy back; rewrite a file | `Failover`, `Markdown` |
| Gateway | `electro-gateway/session.rs`, `identity.rs` | sessions and their order; users, authorizations, tokens | create, update, evict; authorize, exchange, refresh | `Sessions`, `Identity` |
| Providers | `electro-providers`, `electro-codex-oauth` | index of the key in use; calls of a streamed answer; tokens and their file | rotate; take pieces, pass on, end; refresh, save | `Answers`, `Requests`, `CodexStream`, `Oauth` |
| MCP | `electro-mcp/manager.rs`, `transport/stdio.rs` | connections, config file; calls waiting | restart, add, remove; call, answer, exit | `Mcp` |
| Browser, shell | `electro-tools/browser.rs`, `browser_pool.rs`, `runner.rs`, `shell.rs` | browser and page; pool slots; a child and its pipes | probe, launch, close; acquire, release; write, read, kill | `Browser`, `Shell` |
| Channels | `electro-channels/telegram.rs`, `slack.rs` | who may talk; cursor; a long text | allow, revoke, save, load; poll, forward; split | `Allowlist`, `Slack` |
| Vault, credentials | `electro-vault/local.rs`, `electro-core/config/credentials.rs`, `src/app` | cache and file of secrets; file of providers and keys, running agent | store, delete, flush; save, switch, remove, boot | `Vault`, `Credentials` |
| Containers, tenants | `electro-core/orchestrator_impl.rs`, `tenant_impl.rs` | instances and containers; calls of a day | provision, scale, destroy; count | `Orchestrator`, `Quota` |
| Heartbeat | `electro-automation/heartbeat.rs` | files, timer | tick, check, send | `Heartbeat` |
| Terminal interface | `electro-tui` | screens, input, status of the agent | type, send, show, interrupt, quit | `Tui` |
| Start, stop, reset | `src/daemon.rs`, `reset.rs`, `main.rs` | PID file, port | start, detach, stop, reset | `Daemon` |

How they interact: adapters, the heartbeat and everything that re-injects a
message send to one bounded queue (`runtime.queue_tx`, 32 places), which only the
dispatcher reads.  The dispatcher and housekeeping share the table of slots under
one mutex.  The dispatcher sends to a worker over a bounded channel (4) and
otherwise they share atomic cells: the worker writes its state (Idle, Running,
Failed), the dispatcher reads it and, for a `/stop`, writes it too; it also puts
the texts of buffered messages on a list the running turn reads
(`dispatcher/router.rs:26`).  Workers of all chats share the semaphore and, through
the one `AgentRuntime`, the circuit breaker, the budget, the provider with its
keys, and the tools with their browser and their MCP connections.  A turn writes
its task row and checkpoint to SQLite, where the next start's recovery reads them.
Hive workers share nothing but SQLite statements, each atomic, never in a
transaction.

Not everything modelled is at work in the server's binary.  The server creates no
`TaskQueue` (a turn writes to one only when it is given one), `RecoveryManager`,
`DelegationManager`, `TaskGraph`, `StreamBuffer`, `BrowserPool`, `ResilientMemory`,
`DockerOrchestrator` or `OAuthIdentityManager`, and does not call
`execute_tools_parallel`, the session table or the tenants' rate limit.  It creates the
swarm when it is enabled and hands it on, but nothing calls `maybe_decompose` or
`execute_order`.  These are complete components with tests of their own, and they
are modelled as their public interface lets callers use them.

What makes this hard to test: cells that are read under a lock but written without
it; a count that is incremented after the send and decremented by a timer; a
dispatcher that feeds its own queue; lists of rows that are acted on after other
workers have changed them; files that are emptied before they are written; locks
given back before a call and taken again after it; processes, answers and pieces of
a stream that are lost; and callers that are dropped wherever they await.
`PROJECT.json` lists these hazards at their lines, with the property that watches
over each.

## Modules

**`Scheduler`** models the run queue as a value of its own: `Push`, `TakeNext`,
`NothingReady`, `MarkDispatched`, `MarkComplete` are the methods.  `next` rotates the
queue until it finds a message whose chat has a free place; `TakeNext` says what the
rotation comes to (take the first ready message, move those before it to the back).
`RunQueue` puts it under its one caller and under housekeeping, to ask what `next`
promises a message that waits.

**`Dispatch`** composes the run queue with the four kinds of tokio task around it.
Each task has a program counter; a step ends where the code awaits or takes or drops
a lock.  `dpc` is the dispatcher: `recv` and `pick` (queue), `ensure` and `act` (under
the slots lock), `stopRead`, `stopCancel`, `stopWrite` (the three accesses of
`request_stop`), `send`, `fail`, `requeue`, `mark`, then `redispatch_pending`.  `hpc` is
housekeeping, which visits the slots in any order (a `HashMap`), reaps, adds wake
messages and sends.  `wpc` is a worker: `recv`, `check`, `permit`, then while it holds a
permit `route`, `remote`, `local`, `exec`, the two ways to write the state, `clean`.
`icpt` is the set of interceptor tasks, `cell` the cells shared by dispatcher and
worker.  The history variables `arrived`, `started`, `answers`, `done`, `lost` say what
became of a message: they are written where the code emits its outbound event, and
never read by a guard (other than that a message arrives once).  Abstracted: texts,
the conversation history and its save, outbound events that are not terminal.
**`MessageLife`** is the abstract specification: what the server promises of one
message, without workers, queues or locks.  `Dispatch!LifeImplemented` is the
refinement, with `Phase(m)`, `started[m]` and `answers[m]` as the mapping.

**`Hive`** models one order: the columns `status`, `claimed_by`, `retry_count`,
`result_summary` and `completed_count`, the workers' loop statement by statement, and
`execute_order`'s join.  `complete_task` is the steps `Complete`, `Count`, `Snapshot`,
then per pending row `NextRow`, `DepMet`/`DepUnmet`, `MakeReady`; `fail_task` is
`FailRead`, `FailWrite`.  Which ready task a worker selects is left open, which covers
every pheromone score.  `Die` is a panic of a task or a failed statement.  How an order
and its rows come to be is in **`Queen`**, with several orders on one table.

**`Turn`** models `process_message`: classification (`Prepare`, `RoutedToHive`), the task
row, the top of the loop (`TopStop`, `TopCap`, `TopGo`), the budget and the provider call
(`GateRefuse`, `GateCall`, `Answer*`), prompted mode as the fall-back from a failed
call, the tools of a round, the injection of pending texts (`AppendResults`), the
checkpoint (`Save`) and the reply.  Around it are what the worker does with the
history, its time limit (`TimeOut`), `/stop`, a crash and the recovery of the next
start.  As in the code the row is marked completed on the way of a final reply only.
**`CircuitBreaker`**, which `MCTurn` runs beside it, has every load, store and lock of
the breaker as a step of the request that makes it; time is ticks since `opened_at`.

The other modules each model one component; in `MCParts` each has a run of its own
states.  Their variables are named after the fields they stand for, an action's
comment names its function.

| Module | What a step is | What must hold |
|---|---|---|
| `Remote` | a lock the node's handler takes, a request or an answer that is lost | `RemoteRunsOnce`: a request is never executed twice at once, and again only for an attempt that looked for the answer before it was cached and claims after the release; the "finished without cached result" answer is never sent |
| `Failover` | one access of the state or one call of the primary | `FailoverKeepsAcked`: what was acknowledged is found, in the cache or the primary |
| `Markdown` | the read, the truncation or the write of a file | `EntriesKept`: a file that was neither rewritten by two calls at once nor cut has each stored entry once, and no deleted one |
| `Delegation` (sub-agents and sub-tasks) | fetch_add, fetch_sub, or the read of the count; one status change, a report may come late | `DelegationAllocates`: it implements `SlotAllocator` (refinement); `GraphSound`: an accepted graph never gets stuck and is worked off in its order, whatever is marked as failed |
| `Queen` | one attempt, one insertion | `SwarmSound`: a swarm that starts has parallel work and all of its rows |
| `RunQueue` | one method call | `WaitShrinks`: a message that may run is brought nearer the front by every message handed out |
| `Sessions` | one of the two locks | `SessionsKept`: no session out of the eviction's reach, and a bound on their number |
| `Executor` | one call, one permit, one join | `BatchInOrder`: calls that touch a file run in order, and every call gets an answer, panics included |
| `Context` (`context.rs`, `lambda_memory.rs`) | one part of a request | `RequestSound`, `LambdaSound`: pairs of calls and results stay whole, budgets hold, explicit memories go last |
| `Requests` | one message, one request | `RequestsSound`: only pairs go out, nothing else is lost, sanitizing twice changes nothing |
| `Mcp` (manager and stdio transport) | one lock, one line read or written, exit | `McpSound`: one restart per death; no stale sender, no call left waiting after an exit |
| `Oauth` | one lock, one call of the endpoint, one save, whole or cut short | `TokensSafe`: until an answer or a save is lost, no used refresh token is shown and the file has the good one |
| `Identity` | one lock, one call of the endpoint | `IdentitySound`: a code is exchanged once; an account has its own token, which the provider takes |
| `Credentials` | one read, the emptying or the write of the file | `CredentialsSound`: keys saved are there; the active provider is listed; the agent's keys are of its provider |
| `Vault` | one inode operation | `VaultDurable`: wherever the process ends the file can be read and has every acknowledged change; writers that overlapped spoil this until the next whole write that meets no other |
| `Browser` (tool and pool) | one lock, one probe, launch or kill; one exchange | `BrowserSound`: one Chrome, in reach of the next close; `PoolSound`: a slot has one user and is clean |
| `Recovery` | one write of a row, one look-up, one mark | `RecoverySound`: a task is planned once, from what really ran |
| `Stream` | push, flush | `StreamWhole`: nothing is lost, doubled or cut inside a short word |
| `Slack` (polling and splitter) | one page, one message; one cut | `PollSound`: in order, once, none behind the cursor; `SplitSound`: chunks are the text |
| `CodexStream`, `Answers` (streams, keys) | one event; one call or refusal | `CodexSound`, `WireSound`: each call is passed on once and whole; `KeysInTurn` |
| `Allowlist` | one lock, the truncation or the write | `AllowlistKept`: the admin stays, and a start would load the list in memory |
| `Orchestrator` | one call of Docker, one lock of the table | `OrchestratorSound`: limit, no stray container, no ghost, scaled right |
| `Quota` | the day is read; the call is counted under the lock | `QuotaSound`: the limit of a day, and nobody refused early |
| `Heartbeat` | tick, check, read, send | `HeartbeatSound`: a HEARTBEAT_OK silences one cycle, every tick is accounted for |
| `Shell` | one block written or read, exit, time limit, kill | `ShellSound`: an answer is whole or says so, and the command is over |
| `Tui` | one key, one status, one step of adapter or worker | `TuiSound`: the wizard does not stop in a step without a key; the input is closed only for a cause |
| `Daemon` | one access of the PID file | `ServerNamed`: where commands follow each other the file names the server |

Several of them are joined, in `MCParts`, to one property per theme: `StoresSound`
(failover, Markdown), `PlansSound` (decomposition, queen), `ChannelsSound` (allowlist,
polling, sessions, terminal), `ProcessesSound` (containers, PID file, heartbeat, shell),
`PromptSound` (context, lambda memory, requests), `McpSound`, `TextsWhole` (streams and
splitter), `TokensSound` (OAuth, identities, credentials), `LimitsSound` (quota, keys).

`MCDispatch`, `MCServer`, `MCHive`, `MCTurn` and `MCParts` give constants their values.  The
theorems are in

* `Dispatch_proofs` (dispatcher, run queue, workers, and what becomes of a message),
  `Turn_proofs` (turns and circuit breaker) and `Hive_proofs`,
* `Parts_proofs`: processes, tools and counters, that is `Remote`, `Delegation`'s counter,
  `Quota`, `Recovery`, `Browser`, `Executor`, `RunQueue`, `Mcp`, `Heartbeat`, `Daemon`, `Shell`,
  `Orchestrator` and `Tui`,
* `Stores_proofs`: what is kept in files, maps and at other services, that is `Failover`,
  `Markdown`, `Vault`, `Oauth`, `Identity`, `Credentials`, `Allowlist` and `Sessions`,
* `Channels_proofs`: graphs, texts and requests, that is `Delegation`'s sub-tasks, `Queen`,
  `Stream`, `Slack`, `Answers`, `CodexStream`, `Context` and `Requests`,
* the ends of `MCServer` and `MCParts`, which put together what is proved of the instances
  they run.

`Parts_proofs`, `Stores_proofs` and `Channels_proofs` stand apart from each other so that
the provers see few components at a time.  Operators commented as mutants are bugs that
each property was seen to catch; no specification uses them.

## What is checked

The constant `Env` of `Dispatch` and of `Hive` says per run which events of the
environment may happen, so that a property an event is known to break is checked
without that event.  Where a run holds several instances (`quiet`, `part`, `scene`), the
initial state chooses one, and the others rest.

| Run | Instance | Shows |
|---|---|---|
| `dispatch_all` | one chat, 2 workers; a request, a `/stop` and a slash command under all events (remote runs, panics, reaping, errors, interceptors); or, `quiet`, two requests and a heartbeat without `/stop`, panic and reaping, where housekeeping may tick at any time | `TypeOK`; `PermitsConserved`: permits and their holders add up; `ActiveWithinLimit`, although the count is incremented long after it was checked; `MessageConserved`: an unsettled message is in exactly one place; `RunningIsBusy`; `QuietChat`: runs of a chat do not overlap, a message gets one terminal event, a slot that looks busy is; `ReapLosesNothing`; `LifeImplemented` |
| `live_all` | one chat, two requests, one permit; or the diamond, nothing fails; or 3 independent tasks that may fail, an order that may be cancelled (2 workers each) | `EveryMessageSettled`: the second message waits for housekeeping to clear the count and wake the loop, and gets its turn; `HiveFinishes`: overlapping resolutions never both miss a dependency; `FlatClaimsCounted` |
| `hive_all` | a diamond of 4 tasks, 2 workers, failures, errors, panics, cancelling | `TypeOK`; `InputsComplete`: a task runs with all its dependencies' results; `AggregatesFinished` |
| `turn_all` | two turns of one chat with a failing database and a crash, or with a failing provider, stops and time limits; two turns of two chats; 2 rounds, 2 tools a round, a budget of 2 calls; or the breaker with 2 callers, threshold 2, timeouts 1 and 2 | `TurnTypeOK`; `PastIntact`: however a turn ends, the kept history and the checkpoint have no call without its results, and a resumed turn resumes its own past; `StopTakesHold`; `SpendBounded`; `ShownOnce`; `TurnsEnd`; `TripNotLost`; `BreakerRecovers` |
| `parts_all` | one component at a time, 34 instances | `PartsTypeOK` and the properties of the table above |
| `dispatch_stop` | a request and a `/stop` | refutes `StopTakesEffect`: the `/stop` waits in the run queue for what it should stop |
| `dispatch_stop_race` | a `/stop` and two requests | refutes `BufferedIsSettled`: `request_stop` writes Cancelling over Idle, the slot stays busy |
| `dispatch_self_block` | three requests, runtime queue of 1 | refutes `BufferedIsSettled`: the dispatcher waits for room in its own queue, holding the slots lock |
| `hive_double` | two dependencies of one task, completed at once | refutes `ExecutesAlone`: a stale list of rows makes an active task ready again |
| `hive_escalate` | a chain whose first task fails for good | refutes `OrderEnds`: what depends on an escalated task stays pending |
| `tui_reply` | one place in each channel, up to three messages | refutes `RepliesShown`: no event is sent for a reply |
| `failover_loss` | two tasks, two keys | refutes `FailoverNotLost`: an entry cached during the copy back is cleared with it |

`ClaimHeld` and `CountExact` of `Hive` are checked where no resolution can be stale
(`FlatClaimsCounted`), because with dependencies and two workers the stale resolution
that `hive_double` shows breaks both.  `FailoverKeepsAcked` is
checked with one task using the memory, whose primary fails and is repaired at any
moment; with two tasks even the weaker `FailoverNotLost` does not hold.

### Bounds, and why they are enough

* One chat in the `Dispatch` runs: chats meet only in the semaphore, the queue's
  capacity and the slots lock; two workers let a second one be created for a chat whose
  first was removed.  Two or three messages are enough for one in a run, one in the run
  queue or the buffer, and one that arrives in the wrong moment.
* `InqCap`, `ChanCap`, `MaxPending` and `MaxQueue` are 1 to 4 instead of 32, 4, 8 and
  1024: overflow happens with two messages.  In `dispatch_self_block` the queue has one
  place; with 32 places the same wait needs 32 waiting messages.
* `AnswerCap` = 2 counts executions and terminal events up to 2, which is all that "at
  most once" can tell apart.
* The diamond is the smallest graph with a task that has two dependencies and two tasks
  that share one; `MaxRetries` = 2 has one retry and one escalation.
* Two rounds and two tools are one injection between rounds, one cap, and a round that
  is cut between two of its tools; a budget of two calls is overshot when two chats
  pass the same check.
* `MaxTimeout` = 2 with a base of 1 has one doubling and one that is capped.
* In the parts two callers (three where a third can tell a difference: delegation, the
  pool, the quota) make every pair of steps overlap; limits of 1 or 2 are reached, and
  exceeded by one more caller; a counter is bounded (`MaxStores`, `MaxTokens`,
  `MaxLaunches`, ...) by what the longest interesting history needs, each named with
  "bound:" where it is declared.  A restart is an action, so two starts are one crash
  with something to come back to.

### Fairness, and what justifies it

* Dispatcher and housekeeping get strong fairness: they are spawned tasks, tokio's
  mutex and channels queue their waiters first in, first out, so a waiter whose turn
  comes again and again does get it.  The same holds for a worker's permit (`Acquire`);
  its other steps get weak fairness.
* `TimedSpec` and `LiveSpec` add that an agent run ends, which `max_task_duration`
  enforces (`worker.rs:451`).  `FairSpec` of `Dispatch` does not assume it, so that
  `StopTakesEffect` is about a run that lasts.
* Without `"slow"` housekeeping only ticks when the dispatcher waits: 250 ms is long for
  a few steps of the dispatcher.  The quiet instance, `live_all` and the refutations of
  `BufferedIsSettled` have `"slow"`, where it may tick at any time.
* Nothing makes a message arrive, a panic happen or an interceptor cancel.
* `Turn`: each turn's own steps get weak fairness (the runtime polls every future, a
  provider call or a tool answers or fails); nothing makes a `/stop`, a time limit or a
  crash happen.
* `Hive`: every worker goes on (weak fairness of its steps); a task ends at the latest
  at `max_task_duration_secs`; no fairness for dying or cancelling.
* `CircuitBreaker`: requests keep coming, their threads run, time passes, and not every
  provider call is cancelled (strong fairness of `Answers`).
* `Tui`: the loop, the adapter and the worker go on; nothing makes the user type.
* The parts are checked for safety.  Where waiting for ever is the hazard, the property
  says it as a state that must not be: a call of MCP that still waits when the exit was
  handled, a closed input with nothing under way that could open it, an accepted graph
  in which nothing runs or is ready.

## What is proved

All theorems hold for every value of the constants that the assumptions of the modules
allow (`SchedulerAssumption`, `DispatchAssumption`, `HiveAssumption`, `TurnAssumption` and so
on, each in the module whose constants it is about; `LiveAssumption` says that `MCServer`'s
swarm satisfies `HiveAssumption`); TLC evaluates them in every run that uses the module.
They say what the code fixes: capacities that `new` takes at least 1 of, numbers that are
not negative, sentinels that are no element, tasks of which there are finitely many.
Where a theorem needs more, its hypothesis is in its statement, and below.

Each safety theorem is the usual induction: an invariant that implies the property, that
the initial states satisfy and every step keeps.  What follows says what had to be added
to the property for that.

**The message path** (any number of chats, messages and workers, any capacities, every
combination of the events in `Env`)

* `NextTakesFirstReady`: `next` takes the first message whose chat has a free place and
  keeps all others.
* `Dispatch_proofs!TypeCorrect`: a task past the choice of a message has one (`HandsFull`).
* `ActiveWithinLimitHolds`.  The dispatcher checks the count in `next` and increments it
  many steps later; the invariant adds that between the two the count of that chat is
  still below the limit (only housekeeping touches it then, downwards).
* `PermitsConservedHolds`, `ConcurrencyBounded`: each step changes the set of permit holders
  by at most the worker that takes the step, so its cardinality and the free permits
  change by the same amount.
* `RunningIsBusyHolds`: inductive with the types, because reaping touches only resting
  slots and a new worker starts from cells nobody executes with.
* `ReapLosesNothingHolds`.  `SlotInv` says who holds what: the holder of the lock follows
  from the two program counters, nothing is buffered for a chat without an entry or
  already on the list of those to reap, a channel without a reader is empty.
* `MessagesConserved`.  The places a message may be in (three queues, buffers, channels,
  hands of workers and of the dispatcher, not come, done, lost) are seven summands of
  which each action changes at most two, by lemmas that say what a sequence gains or
  loses by `Append`, `Tail` and the rotation of `next` (`OccursAppend`, `OccursTail`,
  `OccursRotated`, `PairsChanged`).  The sum stays 1 (`Conserved`), and is what TLC checks
  (`ConservedIsMessageConserved`).
* `LifeImplementedHolds` and `LifeOfAMessage`: the refinement of `MessageLife`, step by step
  and as a whole.  It rests on conservation (what a worker has in its hands is open, and
  nobody else has it) and on `LifeInv`: what was started is in the hands of a worker with
  a permit, who publishes an event before it finishes.
* `QuietChatServed`, `QuietChatHolds`: under `QuietEnv` (nothing is stopped, panics or is
  reaped, interceptors do not answer).  `QuietInv`: a slot keeps its worker and a worker its
  chat, messages on their way to a worker, in its channel or in its hands are of that
  chat, a slot looks busy only from the start of a run to the write of its state.
  `OnceInv`: a message has an answer only if it is done or its worker past the run.
  Without these conditions a slot may stay busy for ever (`dispatch_stop_race`).

**The turn** (any number of chats, turns, rounds, tools and any budget, with every fault)

* `BothTypesCorrect`: the types of turn and breaker; calls of a round are those that ran and
  those still to run, never more than the round has.
* `PastIntactHolds`.  `HistoryInv` says what a turn's history looks like: pairs of calls and
  results, and last, between a call and the append of its results, that call (`OpenCall`,
  whose number of tools is those that ran and those to run); what chats keep is always
  whole, and a checkpoint is a whole prefix of its own turn's history.
* `StopTakesHoldHolds`: the number of model calls begun since the flag was set is bounded
  by where the turn is (`LateInv`).
* `SpendBoundedHolds`: turns between check and charge are counted with what was spent
  (`SpendInv`); at most one per chat (`OneTurnPerChat`), which is where the bound comes from.
  That a chat has one turn at a time is a guard of `Start`, see "Not modelled".
* `ShownOnceHolds`: what is buffered was shown to nobody (`BufferInv`).
* `BreakerTypeCorrect`, `TripNotLostHolds`: a caller on its way to open the circuit or to
  reset the count cannot be stopped by another (`PendingStays`).

**The swarm** (any graph, any number of workers)

* `Hive_proofs!TypeCorrect`, `InputsCompleteHolds`.  `SwarmInv` carries "all dependencies have
  left a result" from `resolve_dependencies` (`CheckedIsKnown`) over the row's status
  (`ReleasedIsKnown`) to the worker that claims it (`HeldIsKnown`); it is inductive because
  no statement ever clears a result (`ResultsStay`), so even the stale resolution that
  releases a task twice cannot release it early.
* `AggregatesFinishedHolds`, for at least one worker (`min_workers` is 1 unless configured to
  be 0, `lib.rs:262`): when the last worker leaves, all tasks are terminal (`EndInv`); a
  resolution may make one ready again, but its worker has not left then.
* `FlatClaimHolds`, `FlatCountHolds`, for tasks without dependencies (`NoDeps`), the second
  where no statement fails: a claim has one holder until it reports, and the count is that
  of complete tasks but for workers about to count theirs.  `FlatClaimsCountedHolds` says so
  of the behaviours `live_all` checks.

**The other parts**, each with any number of callers and any limits

* `DelegationImplements`: the counter refines `SlotAllocator`.  While corrections are under
  way the count says nothing; the invariant (`CountMeansGiven`) is that the numbers given
  out are the first `spawned - Cardinality(undoing)`, and that someone corrects only when
  all are given out.  Each step is then a `Grant`, a `Refuse` or a stutter.
* `QuotaHolds`: `CounterTells` bounds what every day got by the turns back so far and by what
  the counter still remembers of it.  `KeysInTurnHolds`: the keys before the one in use were
  refused once more than those from it on.  Together `LimitsSoundHolds`.
* `RemoteRunsOnceHolds`: the request named as in flight is that of the one handler that may
  execute it (`OwnerNamed`), and an answer that is there stays (`AnswerKept`).  Once it is
  there whoever is about to claim had looked too early (`ClaimsMissed`), so that all other
  executions are the first one (`FirstRun`).
* `PlanKnowsWhatRanHolds`: a row is at most one round ahead of its checkpoint unless writing
  one failed (`RowsKnow`); what a scan has read stays true (`ScansKnow`).
  `RecoverySoundHolds` adds that a task is planned once, for scans that do not overlap
  (`OneScanner`, as in the run; overlapping ones plan twice).
* `VaultDurableHolds`, for any number of writers.  The temporary file is never the vault's
  (`TmpApart`), and what settled is in the cache (`CacheSettled`); since the last meeting of
  writers ended there is one at most (`MetNoOther`), which renames what it has read from the
  cache (`WritesAlone`): from its rename on the file is as `FileSettled` says.
* `BrowserSoundHolds`: a Chrome is the one in the slot or the one being prepared, by a call
  that holds the lock.  `PoolSoundHolds`: the free slots, the lost ones and those of the
  workers are apart, and a slot is free only when its context is fresh.
* `BatchInOrderHolds`: groups are closed under conflict (`DependentTogether`), and a call
  starts after those before it in its group.
* `WaitShrinksHolds`, an action property, from what the rotation does to a position.
* `RestartedOnceHolds`: what was chosen for a restart is no longer connected (the mark and
  the look are under one lock).  `CallsEndHolds`: a sender in the map has a caller that
  waits, and after the exit none is left that was put in before.  Together `McpSoundHolds`.
* `HeartbeatSoundHolds`: the sums of what became of ticks and of HEARTBEAT_OK files.
* `ServerNamedHolds`: as long as commands follow each other there is one young server, and a
  command that acts on it has its number.
* `ShellSoundHolds`: what was read and what is in the pipe is what was written, per stream,
  at every step of runner, command and helper.
* `OrchestratorSoundHolds`, for finitely many managers and at least one (`SomeManagers`):
  `OrchInv` says who holds a container between two calls of Docker, `RoomInv` that tracked
  and pending instances together are fewer than the limit and the managers, `ScaleInv`
  what an undisturbed scale has still to remove.  With the three before it
  `ProcessesSoundHolds`.

**Stores** (any number of callers, and of restarts where there are some)

* `FailoverKeepsAckedHolds`, for one task that uses the memory (`OneTask`, as in the run;
  with two, `failover_loss` refutes even less): what is found for a key is what was
  acknowledged last, unless a call on that key is under way (`FailoverInv`).
* `EntriesKeptHolds`: a call that rewrites a file holds what it read; unless another call
  met it there, that is the file's content with one entry more or fewer.  With the one
  before, `StoresSoundHolds`.
* `TokensSafeHolds`: which token is good is known from what is in memory, in the file and in
  the hands of a caller, of which one holds the lock, until something is lost.  `IdentitySoundHolds` says the same
  per account, where a refresh may meet a new authorization.  `CredentialsSoundHolds`: a
  saved key is in the file, in the hands of the one writer, or two writers met.
  Together `TokensSoundHolds`.
* `AllowlistKeptHolds`, `SessionsKeptHolds` (while nobody removes a session),
  `PollSoundHolds`, `TuiSoundHolds`; together `ChannelsSoundHolds`.  For the sessions the
  counts of the map, of its order and of requests between the two locks are compared; for
  the terminal `TuiInv` says what each closed input waits for.

**Computations over data** (any length of texts, histories and streams)

What a loop or a recursion of the code computes is a recursive function of a sequence
here, and an induction over it is done without an induction theorem: if the statement
failed somewhere there would be a least position where it fails (`LeastThere`), it is not
the first, and it holds before it.  On this rest the lemmas about filtered sequences
(`FilteredTo`, `FiltersTo`), about rounds and sums (`RoundsStay`, `SumOf`, `SumGrows`), about
what is embedded in what (`Picked`, `Embeds`) and about concatenation (`FlattenAppend`).

* `GraphSoundHolds`: the check visits sub-tasks in rounds until a round adds none.  Of those
  left, were there any, each would depend on another left; so in an accepted graph all
  were visited, and among the open ones the first visited depends on none that is open:
  it runs or is ready.  `SwarmSoundHolds`: a critical path shorter than the sum of the
  estimates leaves two tasks neither of which depends on the other; the rows of an order
  are those of its decomposition at each insertion.  Together `PlansSoundHolds`.
* `StreamWholeHolds`, `SplitSoundHolds`: what was cut off and what is left is the text, for
  chunks but for the newlines between them.  `WireSoundHolds`, `CodexSoundHolds`: the
  pieces that came of a call are, in order, those gathered for it and those passed on;
  what each kind of event may leave open is named (`WireInv`, `CodexInv`).  Together
  `TextsWholeHolds`.
* `RequestSoundHolds`: what was kept of a history is a selection of its turns, and a
  selection that is closed under "belongs to the same turn" has calls and results
  together; each part's tokens are a sum over what was selected, and grow with it.
  `LambdaSoundHolds`: the characters of the section are those of its lines, of which each
  is rounded down to tokens once.  `RequestsSoundHolds`: the filters that run over the
  messages of a request keep a call exactly if they keep its results.  Together
  `PromptSoundHolds`.
* `PartsTypesHold`: the types of all 34 components together, each from a lemma of its own
  (`RemoteTyped`, `FailoverTyped`, ...).  Some follow from the invariants above
  (`SessionsTypes`, `WireTypes`, `CodexTypes`, ...), which often say more than the type.
  Others had to be strengthened: what is written back must have had the type when it
  was read (`VaultTypes`, `McpTypes`, `TuiTypes`: temporary files, inboxes and what a task
  holds between its steps), no block of output is read that was not written
  (`ShellTypes`), a manager works on containers there are (`OrchBounds`), and an order of
  the swarm that waits for a proposal has an attempt left (`AskedInBounds`).  It assumes
  `SomeManagers`, a finite and non-empty set of managers, and an MCP server, whose name
  a resting task holds.

**Model-checked only**

* Everything temporal under fairness: `EveryMessageSettled`, `HiveFinishes`, `TurnsEnd`,
  `BreakerRecovers`, which are out of the prover's reach.
* That `RepliesShown`, `StopTakesEffect` and the other refuted properties fail is a trace.

## Findings

Each `violation` run states what the repository says of the program; the trace TLC
prints is the history that contradicts it.  `PROJECT.json` quotes the lines.
Two are deadlocks or losses of service in the server (`dispatch_stop_race`,
`dispatch_self_block`), one makes `/stop` ineffective (`dispatch_stop`), two are in the
swarm (`hive_double`, `hive_escalate`), one leaves the terminal without replies
(`tui_reply`), one loses an acknowledged memory entry (`failover_loss`).

Other behaviours the models have because the code has them.  Properties are stated so
that they hold in spite of these, and the hazard's note says so:

* Messages of one chat may be handed out in another order than they came
  (`scheduler.rs:39`); a buffered text may be injected into the very turn that executes it
  (`router.rs:26`, `runtime.rs:1465`).
* Prompted mode's stricter retry (`runtime.rs:974`) cannot be reached; classifier calls are
  charged but not checked against the budget.
* `max_concurrent` of delegation is never looked at (`delegation.rs:325`); `restart_count` of
  MCP is 0 again after a reconnect; a pool slot is lost when its release fails or its
  user is dropped.
* The worker node looks for a finished result and claims a request under two locks, one
  after the other: a duplicate that looked before the answer was cached
  (`worker-node.rs:178`) and claims after the request was released (210) executes it a
  second time.  And a caller that gave up after its last attempt executes the request
  itself (`worker.rs:360`) while the node may still be at it.
* Two vault writers share the name of the temporary file (`local.rs:32`): while they overlap
  the file may become unreadable or lose an acknowledged change, until one writes that
  meets no other.  A token file whose write is cut short cannot be loaded, and the user has
  to log in again (`token_store.rs:152`).  A torn allowlist or credentials
  file is taken for none; overlapping writers of the credentials lose each other's
  changes, and a removed provider's keys stay in use by the running agent.
* An order whose tasks' ids are in the table already is refused after its own row was
  written, and the row stays (`Queen`).
* Two requests refused with one key rotate past the next key; an OpenAI stream that is cut
  passes on unfinished calls with an empty object as their input, and so does Codex's.
* Only the last of several text parts reaches an OpenAI-compatible provider
  (`openai_compat.rs:279`).
* The splitter of long texts does not end when what is left starts with a blank and a word
  that is nearly as long as a chunk (`slack.rs:926`, `discord.rs` alike).
* A command that reads nothing while its input is longer than a pipe's room is waited for
  without a limit (`runner.rs:205`); one that writes more than a pipe holds runs into its
  time limit.
* The browser's watchdog may close a browser that was just used; a launch given up half-way
  leaves its children behind.
* A server in the foreground overwrites the PID file before it has the port, and a closing
  server removes the file whoever's name is in it.
* A refresh begun before a new authorization may overwrite the new token (`identity.rs:332`).

## Not modelled

* Scores and wording: pheromones, the router of models, output compression, prompts,
  blueprints, the done criteria, the keyword lists.  They are functions of texts and
  floating-point numbers without state; where their result steers control (which task a
  worker selects, whether a message is an order, what is pruned first) the models leave
  it open or give it levels.
* `ProactiveManager`, `PromptPatchManager`, `StartupOptimizer`, the watchdog and
  `SetupTokenStore`: nothing in the program drives them (no setup token is ever issued),
  and each of their operations is one step under one lock.
* Single SQL statements and file look-ups (`electro-memory/sqlite.rs`, usage store, file
  stores), policies and path checks: what more than one statement relies on is in the
  module of the caller.
* HTTP, WebSocket and chat-service clients, the OAuth login, the dashboard, MCP's HTTP
  transport: network I/O that feeds actions of the models (`Arrive`, answers, lost
  answers), or fails.
* A second worker of the same chat in `Turn`: housekeeping may take the slot of a worker that
  looks idle (`dispatcher.rs:107`), which `Dispatch` has; `Turn` has one turn per chat at a
  time, and the bound of `SpendBounded` counts on it.
* `base_url` of a provider in the file of credentials: `save_credentials` looks for name and
  base_url (`credentials.rs:314`), no caller gives one, and `Credentials` has the name alone.
* Cryptography of the vault and of tokens, parsing of configuration and commands, rendering
  of the terminal and the widgets, metrics and test doubles.
* Custom tools, interactive browsing sessions, and the actions on a web page: each is one
  call of the operating system or of the browser.
* `src/spine` is a workspace of its own which the server does not link.

By lines most of the repository is of these kinds, and much of the rest is unit tests,
so the definitions stand for a small share of its lines but for most of its shared state.

## Plan

Models: interruptions of `Hive` between statements with a second order on the same table;
the connection of `Dispatch` and `Turn`, whose interface is now the five ends of a run and
the list of pending texts; the sharing of one `AgentRuntime`'s breaker and keys by the
workers of several chats.
