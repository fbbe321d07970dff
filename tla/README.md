# Zincir: specifications and proofs

Zincir is a Rust library that makes long-running agents survive a process kill:
an application drives its own loop, and every response, tool call and checkpoint
goes into an SQLite database under an expiring lease. This directory models the
parts of Zincir whose correctness depends on the order in which concurrent or
crashed callers reach that database, checks the models with TLC, and proves the
main results with TLAPS. Paths are relative to the repository, which the
configuration files and `PROJECT.json` call `src/`; line numbers are those of
the commit the project was written for.

## The system

| Component | State | Operations | What makes it correct |
|---|---|---|---|
| Run store, `src/db.rs` | tables `agent_runs`, `events`, `checkpoints` | create a run; acquire, recover, claim, renew, release its lease; change its status, complete it; append a response with its tool intents, a tool result, a raw event; propose and decide a checkpoint | a dense append-only log per run, agreeing with the status column; a fenced lease never writes; a terminal run never changes; each checkpoint is tied to the log positions it summarises |
| Database schema, `migrations/` | unique keys, defaults | six migrations | the keys refuse what the code relies on them to refuse |
| `AgentContext`, `src/agent.rs` | a lease, a TTL, a heartbeat | create, open, force-recover; the run store's operations behind a gate and a renewal; `state()`; close, complete | several transactions behave as the one operation they present; what a resuming application is shown is complete |
| Lease heartbeat, `src/agent.rs` | stop channel, task, failure, gate | renew every third of the TTL; report the first failure; stop | a live context keeps its lease, a dropped one loses it |
| Resume worker, `src/worker.rs` | set of handler tasks, ticker | poll, claim, spawn, join, shut down | only ownerless or expired runs are dispatched; each is dispatched at last |
| Workflow steps, `src/workflow.rs` and `src/db.rs` | table `steps` | `step()` in two transactions around an operation; `recover()` | one result per step, one execution at a time |
| Durable timers, the same files | table `timers` | schedule, wait, complete | the first wake time stays |
| Reference agent, `examples/` | a file per tool call | the demo loop, with its crash points | one effect per tool call, termination after any crash |
| Inspector, `src/ui.rs`, `src/main.rs` | none | read and render | - |
| Inter-agent messages | table `messages` | none yet | - |

How they interact. `AgentContext` calls the run store with a `RunLease`, a plain
value obtained by a claim. Its heartbeat presents the same lease from a task of
its own; context and heartbeat share a gate, and other contexts, also of other
processes, share only the database. The resume worker claims runs, wraps each
lease in a context and hands it to application code. Steps and timers use the
same database with an owner id but without a lease. Nothing else is shared:
SQLite's single writer slot (`BEGIN IMMEDIATE`) is the only synchronisation
between processes.

What is hard: a lease value outlives the ownership it stood for; the wall clock
decides expiry; a verifier or an operation of any length sits between two
transactions; a process may die, and a future may be dropped, between any two
steps; a `recover` call can be made too early. `PROJECT.json` lists every such
hazard at its line with the properties that cover it.

## Modules

| Module | Models | Extends |
|---|---|---|
| `RunStore` | the run store: all writes to runs, events and checkpoints | - |
| `AgentView` | `AgentContext::state()`, and the run store as an implementation of `DurableLog` | `RunStore` |
| `DurableLog` | the durability contract of a run: phase, epoch of the owner, log | - |
| `RunStoreProofs` | theorems about `RunStore`: types, fencing, terminal runs | `RunStore`, `TLAPS` |
| `RunStoreLogProofs` | theorems about the log of `RunStore`, and that the store implements `DurableLog` | `AgentView`, `RunStoreProofs` |
| `AgentContext` | contexts, their operations, gate and heartbeat | `RunStore` |
| `AgentContextProofs` | theorems about `AgentContext` | `AgentContext`, `RunStoreProofs` |
| `DurableAgent` | the reference agent, killed and resumed | `AgentView` |
| `DurableAgentProofs` | theorems about `DurableAgent` | `DurableAgent`, `RunStoreLogProofs`, `FiniteSetTheorems` |
| `ResumeWorker` | the worker's loop, its handlers and their leases in time | - |
| `ResumeWorkerProofs` | theorems about `ResumeWorker` | `ResumeWorker`, `FiniteSetTheorems`, `WellFoundedInduction`, `TLAPS` |
| `WorkflowSteps` | named steps and their callers, as an implementation of `StepOnce` | - |
| `StepOnce` | the contract of a step: one result, which every call returns | - |
| `WorkflowStepsProofs` | theorems about `WorkflowSteps` | `WorkflowSteps`, `TLAPS` |
| `Timers` | durable timers, two clocks, two units | - |
| `TimersProofs` | theorems about `Timers` | `Timers`, `TLAPS` |
| `SqlitePool` | the connections below every transaction, and dropped futures | - |
| `SqlitePoolProofs` | theorems about `SqlitePool` | `SqlitePool`, `TLAPS` |
| `MC...` | the instances for TLC | the module each is named after (`MCRunStore`: `AgentView`) |

How they compose. `AgentContext` and `DurableAgent` do not describe the store
again: each database call of theirs is the action of `RunStore`, conjoined with
what the caller makes of its answer. `SqlitePool` is the layer below: it justifies
that `RunStore` takes a bracketed transaction as one step. `ResumeWorker` leaves
the tables out and keeps time instead; epochs and logs are in the other modules.

### RunStore

Variables are tables: `runs` (status, `lease_owner`, `lease_epoch`,
`lease_expires_at_ms`, `created_at`), `events` and `checkpoints` as sets of
rows, `now` for the wall clock, and `leases`, every `RunLease` value a claim ever
returned. There are no processes: any lease may be presented by anyone at any
later time, which covers live contexts, fenced ones, heartbeats that have not
noticed, and crashes (a caller that presents nothing more).

Each function of `db.rs` is one action. Those that bracket their statements in
`BEGIN IMMEDIATE ... COMMIT` hold SQLite's only writer slot throughout; the
others are a single statement; every error ends in `ROLLBACK` and so is a
disabled action. `acquire_run_lease` and `recover_run_lease` share
`ClaimRunLease`; the worker's claim is `ClaimNextRecoverableRun`, with its order
by `created_at` (whole seconds) and id. `renew_run_lease`, `release_run_lease`,
`update_run_status_with_lease`, `complete_run_with_lease`,
`append_llm_call_with_tool_intents_with_lease`, `record_tool_result_with_lease`,
`append_event_with_lease`, `propose_checkpoint_with_lease` and
`decide_checkpoint_with_lease` have the actions of the corresponding names.
`InsertEvents` is `insert_event` with the two unique keys of the table; rows of
one transaction are inserted together or not at all.

A row's `place` is the number its transaction computed, and the column `seq` is
`SeqOf(e)`, what `i32` makes of it. `next_event_seq` is refused when its answer does
not fit, so nothing is appended to a log that has the number `i32::MAX`; but only the
first row of a transaction is numbered by it, and the others, which add to it
(`src/db.rs`, 688 and 501), wrap to `i32::MIN` in a release build. (A debug build
panics there, and the transaction ends like that of a dropped future.) Code that
reads the column is modelled with `SeqOf`, properties about the order in which rows
were appended with `place`.

Abstractions. Contents of responses, results and checkpoint states are left out;
a tool call is an id and whether it is `submit_checkpoint`. Idempotency keys are
records, one field per part of the formatted string. `UpdateRunStatus` is used
with `running` only, the one value a caller in `src/` passes. A result recorded a
second time is answered from the stored row, or refused, without a write, so it
has no action. `writer`, the epoch under which a row was written, and `released`,
the epoch of the lease that was presented to clear a run's owner, are history
columns that no guard reads. `append_event_with_lease` takes an event of any type
and an optional idempotency key, is public, and is unused inside the crate;
`RawEvent` says which events the instance lets it append, and `RawAssumption` that
they are responses and tool results without a key. An application that appended a
`state_transition` or a checkpoint event of its own would contradict the columns of
the run, and is outside the model. A result appended that way goes round the checks of
`record_tool_result_with_lease`, so `ResultsJustified`, `CandidatePending`,
`MixedRequestsUnanswered` and `StateExactWhenVerifiedAtOnce` except the calls for
which the application does so (`RawCalls`); `runstore_log` has none, and nothing
is excepted there.

### AgentView and DurableLog

`StateEvents` is what `AgentContext::state()` returns, read without a concurrent
writer. `DurableLog` states the README's durability contract without tables,
keys, clock or tokens: an entry is written by the present owner of a running
run, an intent is recorded once with its response and answered once, a
checkpoint request is answered by the verdict on its proposal in the same step,
one proposal is under verification at a time, completion comes last. The
refinement mapping reads the log of a run off its rows in the order they were
appended in. At the limit of `i32` that is not the order of the column, in which
`state()` looks for what comes after a verdict; `StateExactWhenVerifiedAtOnce`
therefore excepts a log in which numbers have wrapped.

### WorkflowSteps and StepOnce

`steps` is the table, `calls` the state of each call of `step()`: idle, its
operation running, its result on the way, or returned. `ClaimStep`,
`CompleteStep` and `RecoverSteps` are the three transactions. `OperationReturns`
chooses any value, so two executions of an operation may differ.
`OperationFails` leaves the row running, as the code does. `Drop`, `LoseReply`
and `Crash` are a dropped future, a commit whose reply is lost, and a dead
process; a call that was dropped is taken not to execute any more. `Confirmed`
says whether `recover()` is called only when no call of the run is in flight, as
its documentation asks, or at any time.

### AgentContext

`ctx` holds, for each context, where its present operation is (`pc`, `op`), its
lease, the checkpoint it is about, who has the gate, where the heartbeat task is,
whether it was told to stop, and whether it has recorded a failure. A claim draws
a fresh owner id, so a context is named by its owner id.

`create`, `open`, `force_recover` and `claim` are `Create`, `Open`, `ClaimLease`
and `MarkRunning` (with the release when the status cannot be set);
`claim_next_recoverable` is `ClaimNext`. `record_response`, `record_tool_result`,
`propose_checkpoint`, `verify_pending_checkpoint`, `submit_checkpoint` and the reads
under the gate go through `Begin`, `LockGate` (the gate, then `ensure_healthy`),
`RenewForOperation` and `Transact`; a checkpoint does so three times, with
`VerifierReturns` in between and the gate released. `close` and `complete` are
`Finish`, `JoinHeartbeat`, `FinalRenew`, `Complete` and `ReleaseLease`. The heartbeat
is `BeatWakes`, `BeatStops`, `BeatLocks` and `BeatRenews`; the first renewal that
fails is its last. Any database call may fail instead, whatever the reason
(`Fails`). `CancelOperation`, `Drop` and `Crash` are a dropped future, a dropped
context (its heartbeat is told to stop, and may still be renewing), and a dead
process. `"leaked"` is a context whose last release did not reach the database.

### ResumeWorker

`run` has for each run whether it is completed, who holds its lease, how much
time the lease has left, and whether a renewal of a dropped context is still
under way; `task` is the join set of every worker, one slot per unit of
`max_concurrency`; `worker` is where `ResumeWorker::run` is. Time is a countdown, so
that every behaviour is over finitely many states. `Poll`, `Claim`, `NothingToClaim`,
`ClaimFails`, `Join`, `Shutdown`, `Break` and `Return` are the branches of the loop
and what comes after it. The handler is the application's: it completes or closes
its context (`HandlerCompletes`, `HandlerCloses`), fails (`HandlerFails`), or dies
with its process (`Crash`). A database error of its `complete()` is
`CompletionFails`, and one of the release in `close()` or `complete()` leaves
the lease as `HandlerFails` does; a worker whose process died is started again. `Renew` is
the heartbeat, every third of the TTL and up to `Slack` late; `LateRenewal` the one
that had left its `select!` when the context was dropped. `TimeAssumption` asks for
a TTL with more room than one interval and the slack. The interval is a third of
the TTL, but never less than one tick, hence the two conditions.

### DurableAgent

The example's `main` and `run_agent`, one action per call: `Create` or `Resume`,
`Claims`, `Marks`, the reads, the loop over pending calls, `FindsFile`,
`Publishes` (the temporary file and its `hard_link`), `Rereads` (the name was taken,
and the published result is read instead), `RecordsResult`,
`RequestsCheckpoint`, `Proposes`, `Verifies`, `Decides`, `Completes` and `Closes`.
`Resume` queues the runs by `created_at` and those of one second in any order, as
`list_inflight_runs` does. `disk` is the artifact, `proc` the variables of a process.
`Exits` is a call that the store refuses, or a published result that has disappeared
when it is read, which ends the process; `Crash` is the kill at any point, of which
the script's crash points are a few; `Lose` deletes the artifact. `Overlap` says
whether a process may be started while another is alive, as the script never does
but an operator may. `ExampleAssumption` says that any run of the instance may be
force-recovered, since `--resume` takes the id it is given, that the two responses of
the example are among those of the store, and that the runs are finite in number, so
that a process can queue them.

### Timers

`timer` is the table, `call` each call of `sleep()`, `passed` the monotonic clock
and `offset` what the wall clock adds to it. `Sleep` computes the wake time before
the transaction `ScheduleTimer`; `Wait` computes the remaining time by the wall
clock and waits by the monotonic one. Units finer than the millisecond make the
two roundings visible: `duration_to_millis` rounds up, `timestamp_millis` down.
`completed_at` is kept in whole seconds by the code and in units of the clock here;
what the module says of it is that the first one stays.
`asked`, `delay` and `steady` are history.

### SqlitePool

`conn` is who has a connection and what its open transaction holds, `db` the
committed rows, `call` where each call is. A transaction is `Acquire`,
`BeginImmediate`, two `Statement`s, and `Commit` or `Rollback`; a single statement is
`Autocommit`. The outcome of `ROLLBACK` is ignored by the code, so `Rollback` may
leave the transaction open. `Cancel` drops the future at any await: the connection goes back with
its transaction open, since `BEGIN` was sent as a plain statement. `Close` is the
pool, or the death of the process, closing an idle connection.

## Runs

All passing runs are exhaustive.

| Run | Instance | What it shows |
|---|---|---|
| `runstore_log` | one run, one owner, two checkpoint requests and one tool, one of the requests also beside the tool call, two epochs, 13 sequence numbers and the rows that wrap after them | types; a dense log without a number used twice (`LogContiguous`); one result per call, for a checkpoint request only its verdict's (`ResultsJustified`); status and log agree (`StatusMatchesLog`); proposal, verdict and round order (`CheckpointLineage`); a candidate can always be decided (`CandidatePending`); a request that came beside other calls stays pending for good (`MixedRequestsUnanswered`); `state()` returns exactly what a checkpoint verified at once does not summarise; the run store implements `DurableLog` (`KeepsPromise`) |
| `runstore_lease` | two runs, two owners, three epochs, a clock that moves both ways, raw events | no epoch is issued twice (`EpochsUnique`); a fenced lease never writes after a newer one (`EpochFencing`); an active lease passes to no other claim, and only by presenting it is its owner cleared, not by a late release (`ActiveLeaseHeld`); a terminal run stays as it is (`TerminalFinal`) |
| `agent_state_gap` | as `runstore_log`, up to 9 events, also a response without calls | violated, see below |
| `context_takeover` | one run, two contexts, one checkpoint request, two epochs, both clock readings, any call failing, dropped or crashed | the gate excludes (`ContextsOK`); no lease is left with a context that is over (`NoOrphanLease`); `complete()` tells the truth (`CompletionReported`); a failed heartbeat stops all writes (`FailureStopsWrites`); contexts use the store as `RunStore` says (`UsesTheStore`) |
| `context_progress` | one context, all operations, fairness | `OperationsReturn`: neither gate nor heartbeat is waited for for ever |
| `worker_progress` | two runs, one worker of two handlers that is told to shut down, one of one handler that goes on, one fault (also a database error at any renewal, release or completion), TTL 3 with renewals up to one tick late | a healthy handler holds its lease, so no run has two (`HandlersHoldTheirRuns`); `run()` leaves nobody behind (`NoneLeftBehind`); dropped contexts become recoverable; shutdown returns; every run that its handler completes is completed |
| `demo_overlap` | two runs, two first processes and one that resumes while they live, any crash, the artifact may be deleted | the log of a completed run is that of an undisturbed one (`CompletedOnce`); a published effect is never replaced (`EffectKept`); the recorded result is the published one (`ResultIsPublished`) |
| `demo_recovers` | one run, a first process and three to take over, fairness | `EveryRunRecovers` |
| `steps_racing` | one step, three contexts, three calls, two values, two faults, recovery at any time | types; one result per step; the owner the row names stored it; `StepOnce` is implemented |
| `steps_progress` | two runs, three contexts, three calls, one fault, recovery as documented, fairness | `ExclusiveExecution`, `EveryCallReturns` |
| `timers` | one timer, two calls, delays of one and three half milliseconds, clock set forward and back, two faults | `TimersKeepFirst`, `WakesWhenDue`, `WholeDelay` |
| `pool_cancelled` | two connections, three transactions, one single statement | a transaction is committed whole or not at all (`CommittedWhole`); an acknowledged one is durable (`AcknowledgedDurable`); from its `BEGIN IMMEDIATE` to its end nothing but a transaction's own rows is committed, so the sequence number, status and lease it has read are still true when it writes (`ReadsStayTrue`) |

Bounds. `MaxSeq`, `MaxEpoch` and `MaxMillis` stand for the limits of `i32` and
`i64`. An expiry beyond them is refused by the checked additions of the code, and an
epoch beyond them is no integer for SQLite, so the claim cannot read it and rolls
back; a sequence number beyond them fails `next_event_seq`, and wraps in the later
rows of a transaction. `runstore_log` reaches the limit: all
its properties are checked of logs that have wrapped, too.
Thirteen events are enough for a run that starts, records and answers a tool,
goes through a rejected and an accepted checkpoint and completes; two epochs for
a takeover in the middle of any of it. Three epochs on one run let a lease be
presented two claims late; the second run is there so that the worker has a
choice, and it is not force-recovered (`Forced`), so that `ActiveLeaseHeld` is
not vacuous. Two readings of the clock, taken in both orders, with a time-to-live
of one, make a lease active, expired, and active again after the clock
was set back. Owners, contexts and processes of a kind are symmetric: their ids are only
compared. Two contexts on one
run are a fenced one, with its heartbeat, and its successor. Seven events let the
successor propose or decide what the first left undecided. In `worker_progress`
a TTL of three ticks is the least with an interval of a third that leaves room for
a late renewal, one fault is a handler, a process, a renewal or a claim that fails
at any point, and of the two workers one has a slot to spare. Three processes on
two runs of the example are a crash of either and a resumption that finds both, or
a takeover of a live one; four on one run are three crashes. Three calls on one
step let two race while the third replays. Half milliseconds tell a rounding up from a
rounding down. Two connections and three transactions let an orphaned transaction be
found by the next call and block the writer slot of another.

Deadlock is checked except where the system may stop: the example's processes end
and are not started again once all runs are completed (`demo_overlap`,
`demo_recovers`), time is bounded (`timers`), and calls that returned stay so
(`pool_cancelled`).

Fairness, and why the code has it:

- `context_progress`: Tokio polls tasks that are ready and a verifier returns, so
  `Advance` and `Beat` are weakly fair. A Tokio mutex hands the gate over in the order
  of the requests, and the stop signal stays while `select!` sees it again after each
  renewal; both are strong fairness, of `LockGate`, `BeatLocks` and `BeatStops`.
- `worker_progress`: time passes (strong fairness of `Tick`, which a heartbeat at the
  end of its slack disables for a moment); `tokio::select!` takes ready branches in
  random order, so `Poll`, `Join` and `Break` are strongly fair; a handler completes
  or closes its context, as the worker's documentation asks of it. Nothing is
  assumed of failures, shutdowns and operations of the handler.
- `demo_recovers`: a process goes on until it ends, and the operator starts another
  one after a crash as long as there is one to start; with that one the crashes end.
- `steps_progress`: a call that can go on does, a refused or failed one is
  tried again, and `recover()` is called once it may be. Retrying and recovering is
  the application's part, which the README asks of it ("call `ctx.recover().await?` to
  release unfinished steps before retrying them"). Faults are finite in number, as
  otherwise nothing need ever be completed. Without the recovery the property fails:
  that is its mutant.

### A disagreement between README and code

`agent_state_gap` checks `StateLosesNothing`: whatever the latest accepted
checkpoint does not summarise is among the events `state()` returns. The README
says that `state()` returns "the latest accepted checkpoint plus subsequent
events" (line 73) and guarantees "Replay of persisted LLM responses and tool
results" (line 261). The code (`src/agent.rs`, 216-234) returns the events after
the verdict, while the checkpoint was written at its proposal. If the verifier
fails, or the process dies after the proposal, the application may record a
response, or a result that was still pending, before the candidate is verified
again and accepted. Those events are after `based_on_event_seq` and before
`decision_event_seq`: they are in the log, and a resuming application is shown
neither them nor a checkpoint that knows of them. TLC's trace proposes a
checkpoint, records a response and accepts. `StateExactWhenVerifiedAtOnce` states
the case in which nothing is lost.

### Behaviour worth knowing

- A handler that closes a run instead of completing it makes that run recoverable
  at once, and the claim takes the oldest (`src/db.rs`, 158-164). If it does so again
  and again, younger runs may wait for ever; the README promises delivery "again" (line
  129), not in turn. `worker_progress` therefore lets only the younger run be closed.
- After a rejected checkpoint the example records `checkpoint_1` a second time. Its
  intent key is taken, so the call fails, every later resumption ends there, and the
  runs behind it in the queue are not resumed by that process. `CompletedOnce` holds
  throughout: such a run is never completed wrongly.
- A checkpoint request recorded beside other calls can be neither proposed nor
  answered (`MixedRequestsUnanswered`): the run can still be completed, but the call
  stays pending.
- At the limit of `i32` the order of the sequence numbers is not the order in which the
  events were appended. When the last number goes to a response, its tool call is
  committed as `i32::MIN` by a release build, and the same holds of a verdict and its
  result (`src/db.rs`, 688 and 501). `get_events`, which orders by `seq`, returns that row
  first, where the README speaks of a "sequence-ordered log" (line 65). Every later
  append fails, and no number is used twice: `LogContiguous` says so, and
  `runstore_log` goes through such logs.
- A dropped context may renew its lease once more, so a run becomes recoverable up
  to one TTL after that renewal, not after the drop (`LateRenewal`).
- A single statement that is given a connection with an orphaned transaction
  becomes part of it: it is answered with success and lost when the connection is
  closed. `AcknowledgedDurable` is therefore about bracketed transactions.

## Proofs

`RunStoreProofs` proves, for every number of runs, owners, calls and leases,
every clock and every bound, from the constants' assumptions alone:

- `TypeCorrect`, `LogIsContiguous`: `[]TypeOK`, `[]LogContiguous`, also for a log
  in which numbers have wrapped;
- `TokensAreUnique`, `TerminalRunsAreOwnerless`, `StaleOwnersAreFenced`,
  `CompletionIsLast`: `[]EpochsUnique`, `[]TerminalOwnerless`, `[]EpochFencing`,
  `[]NothingAfterCompletion`;
- `LogIsAppendOnly`, `TerminalRunsAreFinal`, `ActiveLeasesAreHeld`: the action
  properties `AppendOnly`, `TerminalFinal` and `ActiveLeaseHeld`.

The argument is in two layers. `Shape` is what the tables look like: types,
finiteness of the sets of rows (without which a maximum need not exist), the
places of a run's events being `0 .. n - 1` for some `n`, each taken once, a run that was never created
having no rows, no owner and no lease, and no lease being ahead of its row's
epoch. It is inductive on its own and gives the first two theorems. What the column
`seq` looks like follows from the places: `next_event_seq` returns the length of the
log, or `MaxSeq + 1` once all numbers are taken (`NextSeqIs`), and a transaction that
was given a number read the length (`Numbered`), so that no more than one
transaction's rows can wrap, and none far enough to meet a number in use. `Fenced`
adds what the second layer needs beyond the properties themselves: tokens are
unique, terminal runs have no owner, the writers of a run's events are ordered
like their places and bounded by the run's epoch, and a run whose log
has a completion is terminal. The bound is the strengthening that makes fencing
inductive: a valid lease carries exactly the row's epoch, so the rows it adds are
at least as new as everything in the log. Each step of `Next` is first reduced
to what it can do to a row of `runs` (`RowStep`), to the log (`LogStep`) and to
`checkpoints` (`CheckpointStep`); the action properties follow from these
summaries.

`CheckpointsStay` proves `[]CheckpointsStayInRun` beside them: every id that an
event names belongs to a checkpoint of the event's run. It needs of a step only that
no checkpoint disappears or changes run (`Kept`) and what its new rows name
(`NamedStep`). No run checks
`TerminalOwnerless`, `NothingAfterCompletion`, `CheckpointsStayInRun` and `AppendOnly`;
they are proved instead. (What `AppendOnly` says of the events, `KeepsPromise` says of
the log they make up, and `runstore_log` checks that.)

`RunStoreLogProofs` goes on to what the log says. The transactions are first
reduced to their effect (`LogEffect`): nothing is inserted (`QuietStep`), a status change with its event (`TransitionStep`), a response
with its calls (`ReplyStep`), a result (`AnswerStep`, or `RawStep`), a proposal with
its candidate (`ProposalStep`), or a verdict with its result (`VerdictStep`), each
with what its guard had read. The rest of the module uses these effects and not the
transactions. The invariant `LogInvariant` (`LogIsSound`) adds to `Fenced`:

- `StatusReplayed`: each `state_transition` leaves the status that the one before it
  reached, and the column has the status of the last.
- `Linked`: rows with a key are unique, every tool call has its key, checkpoints are
  unique by id and by request, and each has the request it answers.
- `Lineage`: proposal and verdict of a checkpoint are where its columns say, and a
  round is proposed after the verdict of the one before.
- `ResultsLinked`: a result comes after its request and is the only one, and that of a
  checkpoint request is next to its verdict.
- `CandidatePending` itself, as `CandidateOpen`: the request has no result at all.
  A verdict inserts a result, and what keeps this from being
  a second one is that the request of a candidate is still unanswered; so the two are
  inductive together only. `record_tool_result_with_lease` refuses a checkpoint request,
  and a request has at most one checkpoint.

From it follow `StatusIsLogged`, `ResultsAreJustified`, `CheckpointsFollow`,
`CandidatesCanBeDecided`, `MixedRequestsStay` and `StateIsExactWhenVerifiedAtOnce`.
The last one needs that proposal, verdict and result are next to each other, and that
all three are the checkpoint's own.

`StoreKeepsPromise` proves that `RunStore` implements `DurableLog`: the initial tables
map to empty logs, and each effect maps to one action of `DurableLog` or to a stutter.
The log of a run is read off the rows in the order of `place`, which the proof can do
because `Shape` makes the rows of a run a function on `1 .. LogLength`
(`Indexed`); inserting rows at the end is then appending to a sequence. Its hypothesis
`RawCalls = {}` says that the application does not append tool results with
`append_event_with_lease`, as nothing in the crate does; with such results the contract
(one result per call, a verdict for every checkpoint request) is not the store's to
keep. Responses may be appended raw.

`WorkflowStepsProofs` proves `[]StepsTypeOK`, `[]OneResultPerStep`,
`[]StoredByOwner` and `[]ExclusiveExecution` for any number of runs, contexts,
calls and faults. `SInv` adds to them that a call on its way to store a result
has one. `StepsHappenOnce` is the refinement: each transaction on the table, each
fault and each answer is a step of `StepOnce` or a stutter.

`AgentContextProofs` proves all safety properties of `context_takeover`, for any
number of contexts and runs:

- `ContextsUseTheStore`: `AgentContext` implements `RunStore`. Each action of a
  context is shown to be a step of `Next` or a stutter, so that every theorem of
  `RunStoreProofs` holds of contexts, and is used in the proofs that follow.
- `ContextsAreOK`, `FailedContextsAreSilent`, `LeasesAreNotOrphaned`,
  `CompletionIsReported`: `[]ContextsOK`, `FailureStopsWrites`, `[]NoOrphanLease`,
  `[]CompletionReported`.

The inductive invariant is `Sound`, one context at a time. It adds to `ContextsOK`
what makes a failed heartbeat final: it fails only while it holds the gate, hence
while no operation is past its check, and `complete()` goes on only after the
heartbeat has ended without a failure. `Signed` is the second half: whatever a step
of a context appends carries the token of that context's lease. With the uniqueness
of tokens from `RunStoreProofs`, an event under the token of a context was written by
that context and no other (`OnlyOwnWrites`); the failure property and the report of
`complete()` both follow from it.

`SqlitePoolProofs` proves `CommittedWhole`, `AcknowledgedDurable` and `ReadsStayTrue` for any number
of connections, transactions and single statements. The inductive invariant `Exclusive`
says that a call with a connection is its only user, and that the transaction open on
that connection holds exactly the statements of the call so far, although the
connection may have been handed over with somebody else's transaction open: `BEGIN
IMMEDIATE` fails on it. `ReadsStayTrue` needs `OneWriter` beside it: of all
connections, orphaned ones included, at most one has a transaction open.

`TimersProofs` proves `[]WakesWhenDue`, `[]WholeDelay` and `TimersKeepFirst` for any
number of timers and calls, every ratio of the units and every setting of the clock.
`TimerInv` says what a row of the table owes the call that wrote it (`RowOK`: by a
steady clock its wake time is less than a millisecond short of the delay) and what a call knows
at each stage (`CallOK`: the wake time it has is the row's, and the moment it waits
for is one at which the wall clock shows it). `steady` and `setback` are parts of it, since
both properties are conditional on them. `Enough` is where the two roundings meet.

`ResumeWorkerProofs` proves `[]HandlersHoldTheirRuns` and `[]NoneLeftBehind` for any
number of runs, workers and places, every TTL and every slack that `TimeAssumption`
allows. `HandlersHoldTheirRuns` is not inductive: that a lease has time left now says
nothing of the next tick. `LeasesOutlastBeats` says by how much: the time a lease has
left and the time since its last renewal are together at least the TTL. A tick takes
one from the first and adds one to the second, a renewal restores the sum, and as it
is made before an interval and the slack are over, which is less than the TTL, there is
always time left.
The other parts tie holders to tasks (`HoldersWork`), give a worker about to claim a free
place (`ClaimersHaveRoom`), and make a worker that returned idle (`ReturnedAreIdle`).

`DurableAgentProofs` proves `EffectKept`, `[]ResultIsPublished` and `[]CompletedOnce`
for any number of runs and processes, with any overlap of processes and any deletion:

- `ProcsInvariant`: a process that has not ended works on a run under a lease that a
  claim returned.
- `AgentUsesStore`: hence each of its steps is a transaction of `RunStore` or none, so
  the example implements `RunStore`, and the theorems of `RunStoreProofs` and
  `RunStoreLogProofs` hold of it.
- `ExampleInvariant`: `CompletedOnce` speaks of completed runs only, and why a run is as it
  should be when it is completed lies in its history and in what the process that
  completes it has read. `Paths` says that the log of a run is always one of eight
  prefixes of a path of ten events, and where the status and the checkpoints stand
  at each; `Knowledge` says what a process that goes to `complete()` or asks
  for the checkpoint has read, which stays true when another takes the run over;
  `Published` relates results, recorded or about to be, to the artifact, until somebody
  deletes it.

"Proved for every value of the constants" includes the bounds: `MaxSeq`, `MaxEpoch`,
`MaxMillis` and the numbers of faults are any natural numbers. `ResponseAssumption`
asks that a response has no more than `i32::MAX + 1` calls: only a longer one could
wrap so far as to meet a number in use.

Only model-checked are the liveness properties, `OperationsReturn`,
`DroppedBecomesRecoverable`, `ShutdownReturns`, `EveryRunCompletes`, `EveryRunRecovers`
and `EveryCallReturns`: liveness under fairness is out of reach of the proof system. Every
other property of a passing run is a theorem.

## Not modelled

- The inspector (`src/ui.rs`, `src/main.rs`) only reads, and nothing depends on the
  page it renders.
- `src/error.rs` and `src/lib.rs` declare; the table `messages` is used by no code.
- The contents of responses, results and checkpoints: JSON is carried, not looked
  into, but for the name and the id of a tool call.
- The rewriting of existing rows by migrations 0005 and 0006, which happens once,
  before any other access; their keys are in `RunStore`.
- SQLite's durability and the length of its busy timeout: a committed transaction
  stays, and a call that waits too long is a call that fails.
- `examples/automatic_resume.rs` is an application of the worker. In `ResumeWorker` a
  handler is any that completes, closes or fails; what it does in between is
  `AgentContext`.
- Single statements that meet an orphaned transaction are in `SqlitePool` only:
  `RunStore` takes them, as everything else, for steps of their own.

## Plan

1. `AgentContext` implements `DurableLog`: with `ContextsUseTheStore` and
   `StoreKeepsPromise` this is one more theorem, in a module that extends the proofs of
   both.
2. That each lease a handler of `ResumeWorker` holds is one that `RunStore` would grant,
   with time kept by countdown on one side and by timestamps on the other.
3. Single statements on an orphaned transaction inside `RunStore`, as a fault of
   `create_run` and `release_run_lease`.
