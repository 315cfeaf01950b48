# dsh-base-agent: a TLA+ model of its control plane

dsh-base-agent runs business Agents on an external DSH runtime. Clients submit
Runs over HTTP, a control plane stores them, and executions ("Attempts") drive a
DSH Session, call Tools, may ask the user something and may publish a Plan that
somebody has to approve. This directory models the part of that program whose
mistakes are hardest to see in a test: the stored state of Runs, and the
processes that change it at the same time.

Paths below are those of the repository (`control/plane.py` stands for
`src/dsh_base_agent/control/plane.py`).

## 1. The system

| part | source | state it keeps | operations |
|---|---|---|---|
| control plane | `control/plane.py` | locks per Run, tasks, live runtimes (per process, lost on a crash) | submit, cancel, retry, resume, execute_leased_work, settlements, reconcile, restart recovery |
| stores | `store/postgres.py`, `store/sqlite.py` | conversations, runs, attempts, plans, required actions, leases, events, artifacts | one transaction per method, guarded by revisions and, for a Worker, by the lease |
| Worker service | `worker/service.py` | a task and a heartbeat per leased resource, two capacities | reconcile and claim in a loop, serve a Conversation, time out, fail closed, release |
| tool gateway | `adapters/mcp/gateway.py` | the binding to one Attempt, call counter, pending user input | bind, release, call_tool, ask_user |
| memory gateway | `adapters/dsh/context_gateway.py` | the binding to one Attempt | bind, release, retrieve |
| Plan compiler | `control/plan_react.py` | none | validate, order and compile a Plan |
| notification publisher | `adapters/kafka/publisher.py` | bounded queue, counters, drain task | publish, drain, close |
| artifact store | `artifacts/store.py` | files or objects | put, open, delete |
| DSH adapter | `adapters/dsh/runtime.py`, `profile.py` | one external process | run, execute_workflow, close |
| HTTP API | `api/` | none | one control plane call per request |
| SDK | `sdk/` | none | validated declarations |

There are two deployments. With PostgreSQL, API processes and Worker processes
share only the database (`auto_execute=False`): a Worker claims a resource, a
standalone Run or a Conversation, by writing a row of `worker_leases` with an
expiry and a fencing token that only grows, renews it from a heartbeat, and
states the token in every transaction of the execution. With SQLite one process
does everything in asyncio tasks (`auto_execute=True`), and a restart settles
what the last process left RUNNING.

The parts interact by calls, except for three couplings through stored state,
which is where the difficulty is:

- API and Worker both write a Run and its Attempt. Neither tells the other;
  each notices a change by a revision that no longer fits.
- A Worker and the reconciler of another Worker both settle an Attempt. The
  lease row decides between them.
- A handler that has committed still has events and audit rows to write, and
  the code that catches their failure cannot tell that it comes too late.

## 2. What makes each part correct

*Runs.* A Run and its Attempts agree; a Run is executed once per request, retry
or approval and never because a process died; a Plan that nobody approved is
never executed; what the reconciler settled stays settled; every RUNNING Run
ends and every QUEUED Run starts.
*Conversations.* One Run at a time and in order; an answer reaches exactly one
Attempt; one prompt in flight per DSH Session; a blocked Conversation starts
nothing.
*Leases.* A live task holds a live lease, or is cancelled before anybody else
can claim; a call that comes late takes nothing from anybody, and gives nothing
back but to the last holder.
*Transactions.* What a transaction has checked is true when it commits.
*Tool gateway.* No Tool is called after the model was told that its question
waits for the user; no two calls share an operation id; the call budget is never
exceeded.
*Memory gateway.* One retrieval per Attempt, served for that Attempt.
*Plan compiler.* Every graph that can be executed is accepted and no other;
every batch depends only on earlier ones; what is executed is what was approved.
*Publisher.* Each notification is counted exactly once, and close returns.
*Artifacts.* A metadata row never names a half-written file, and who was told of
an Artifact can read it.

PROJECT.json lists the hazards at the lines where they bite, with the
properties that cover them.

## 3. Modules

| module | what it is |
|---|---|
| `RunExecution` | standalone Runs with API processes, Workers, leases and the reconciler (PostgreSQL) |
| `RunContract` | what a client may rely on for a standalone Run, without any of these |
| `RunExecutionInvariant`, `RunExecutionProofs` | the inductive invariant of `RunExecution`, the theorems, and the proof that it implements `RunContract` |
| `ConversationRuns`, `ConversationRunsProofs` | one Conversation, its Runs as Turns of one DSH Session (PostgreSQL) |
| `TurnQueue` | what a Conversation promises about the order of its Turns |
| `InProcess`, `InProcessProofs` | a standalone Run and a Conversation executed by one process in asyncio Tasks (SQLite) |
| `HeartbeatLease`, `HeartbeatLeaseProofs` | one lease in time: claim, heartbeat, time-outs, shutdown |
| `RowLocks`, `RowLocksProofs` | the transactions of the PostgreSQL store statement by statement |
| `ToolGateway`, `MemoryGateway` | the two servers the DSH process calls back |
| `AttemptGateways`, `AttemptGatewaysProofs` | both of them under the Turns of a live Conversation runtime |
| `PlanReact`, `PlanReactProofs` | a plan: submission, validation, approval, execution in batches |
| `NotificationPublisher` | the queue in front of Kafka |
| `ArtifactWrites` | large Tool results: a file, its metadata row, and a download |
| `OutputProofs` | the theorems about these two |
| `MC...` | each specification on small instances |

`RunExecution` and `InProcess` both implement `RunContract`; `ConversationRuns`
and `InProcess` both implement `TurnQueue`. The two deployments keep the same
contracts by entirely different means, which is the reason for stating them.

The modules meet where one takes as a step, or as a fault, what another has in
detail. `RunExecution` and `ConversationRuns` take a transaction of the store as
one step; `RowLocks` has the statements in it. They let a Worker miss its
heartbeat; `HeartbeatLease` says when that can happen. They have a planning
Attempt end with a plan and an executing one with its result; `PlanReact` has
the plan. They have an Attempt ask its user; `AttemptGateways` has the call that
does so and the calls it races with.

Operators whose comment begins with "Fault:" are not part of any specification.
Each changes one definition of the model as a plausible mistake in the code
would; with it in place TLC finds the property named in PROJECT.json violated.

### RunExecution

| state | code |
|---|---|
| `run`, `attempt`, `plan`, `action`, `lease` | rows of `runs`, `run_attempts`, `plans`, `required_actions`, `worker_leases` |
| `task[w][r]` | what the asyncio Task of `_execute_resource` in Worker `w` holds in local variables for Run `r`, and where it stands |
| `retries`, `disturbances` | history: retries granted; how much of the bound on faults is used |

| action | code |
|---|---|
| `Submit`, `Cancel`, `CancelWaiting`, `Retry`, `Approve`, `Reject` | `ControlPlane.submit`, `cancel`, `retry`, `_resolve_plan_action`, with the transaction each commits |
| `Claim`, `ClaimAndHandBack`, `Release` | `claim_work` from `_claim_available_work`; `release_work_lease` |
| `ReadQueued`, `BeginAttempt`, `BeginRefused` | the beginning of `_execute`: read under the Run's lock, then `begin_attempt` |
| `Dispatch`, `Accept`, `Finish`, `ExecuteFails` | `_set_dispatch_state` before the prompt, at the first event, and the end of the DSH call |
| `SettleSuccess`, `SettlePlanning`, `SettleRefused`, `Report`, `ReportFails` | `_settle_success`, `_settle_planning`: rows read, rows written, events written |
| `ReadForFailure`, `SettleFailure`, `FailureRefused` | `_settle_failure` |
| `TaskCancelled`, `Crash`, `LeaseMissed`, `LeaseLapses` | time-out or shutdown, death of a process, expiry of a lease with and without a task behind it |
| `InterruptExpired` | `interrupt_expired_attempts`, one Run of its batch |

*Grain.* Each method of the store is one transaction and one step. A handler of
the API reads, computes and writes against the revision it read; a conflict
raises and leaves nothing, so it is one step too. A Worker's settlement is two
steps, because there a conflict is not harmless: it enters the failure path. A
revision is a natural number that every replacement increases; `Unchanged` is
the `WHERE revision = ...` of an update, `LeaseValid` is `_assert_lease`.

*Merged.* The transaction that records `DISPATCHING` and the call that hands the
prompt over are one step, in this order, and a task that is cancelled in between
is cancelled before or after. Event and audit rows are left out except where
failing to write one changes what happens next (`ReportFails`).

### RunContract

State per Run: what a caller reads, the decision on its Plan, and whether an
execution can still report a result. It says less than the documents do, because
the code keeps less: the comment at its head names the two places, the run
`retry_overtaken` shows one and `WaitingEndsByDecision` (section 6) the other.

### ConversationRuns and TurnQueue

The same tables for one Conversation, with Runs numbered by `sequence`. What is
new: `begin_attempt` consumes the answer of a RequiredAction; `AskUser` is the
commit of `enter_required_action`, which the Task of an MCP call makes beside the
Turn; `blocker[s]` is an API handler that has cancelled a Run and has still to
read and to write the Conversation (`_block_conversation` is two transactions,
and another process's request may come between them); `_serve_conversation` is a
loop, so a task that has finished a Run looks for the next.

*Questions nobody heard of.* The Worker learns of its question by
`pending_action`, which is set when the answer of the COMMIT has come
(`control/plane.py:1919`). That answer may be lost, the call may be timed out
(`adapters/mcp/gateway.py:325`), or the Turn may end first. So the commit and the
notice are apart: `AskUser` changes only the rows, `AskedTurnEnds` is the end of a
Turn that knows, and a Turn that does not know goes on to `Finish` or
`ExecuteFails` and settles a Run that is WAITING, or already QUEUED with an
answer, because the settlements look for CANCELLED only (`Overlooked`).
`TablesAgree` and `AnswersAreDelivered` say what is left: a question or an answer
is left behind by the Turn that asked, by settling its own Run, and by nothing
else. `WaitingRunsGoOn` (section 6) is what the documents promise.

*Revisions as rows.* No row of this module takes a former value again, so a
revision that is unchanged means the row is the one that was read. A task
therefore keeps the row as read and the revision counters are left out.
`RunExecution` cannot do this: retry brings a Run back to QUEUED.

`TurnQueue` is a first-come-first-served queue with one server. A suspended Turn
keeps the server, an answered one is first in line, and the flag that admits new
Turns never comes back.

### InProcess

| state | code |
|---|---|
| `run`, `turn`, `conv` | rows of the store |
| `task[r]` | `_tasks[run_id]` and where `_execute` stands; `cancelled` between `Task.cancel()` and the `CancelledError` |
| `deferred[r]` | `_deferred_schedules`: a callback waits for the Task, or `_run_deferred_schedule` is due |
| `closing[r]` | cancel handlers that await `runtime.close()` |
| `drain` | `_conversation_tasks[conversation_id]` and where `_drain_conversation` stands |

*Grain.* The SQLite store never suspends, so everything between two awaits of
something else is one step however many transactions it makes. Steps are cut at
the start of a gateway, the DSH call, and the closing of a runtime. `Cancel` and
`CancelTask` are the two halves of one handler around `runtime.close()`. `Ready`
says that a due `_run_deferred_schedule`, which is already in the ready queue of
the event loop, runs before an await that has yet to be over.

### HeartbeatLease

Time is the subject here, so deadlines are numbers: `left` is `expires_at` minus
now, `timer[w]` what is left of the claim's, the renewal's or the nap's time,
`grace[w]` what is left of `shutdown_timeout`. `Tick` lets one unit pass when
nothing is due; `Stall` does so although something is, and marks the Worker
`late`: its event loop is blocked, or its claim is answered later than a renewal
may be (`claim_work` has no time-out).

CURRENT_TIMESTAMP is the start of a transaction, and every statement on the lease
may wait for its row, which `begin_attempt` and the settlements hold
(`_assert_lease`, `store/postgres.py:1075`). So each statement has an age, at most
`MaxWait`: it compares `expires_at` with the time it started, and writes an expiry
that is as old. An UPDATE that matches no row does not wait; one that does is
compared again when it has the lock. `age[w]` is that of the Worker's renewal,
`stray` the renewals nobody awaits any more with theirs, `recovery` the
`interrupt_expired_attempts` that has found the lease expired.

| action | code |
|---|---|
| `ClaimCommits`, `ClaimReturns` | `claim_work` and its answer, on which `_claim_available_work` starts the owner without looking at `_stop` again |
| `HeartbeatWakes`, `RenewBegins`, `RenewCommits`, `RenewReturns`, `LeaseLost`, `RenewFails` | `_heartbeat`: the nap, `renew_work_lease` before and after the row's lock, its three outcomes |
| `WorkEnds`, `OwnerReleases` | `_execute_resource`'s `finally` |
| `Stop`, `CloseCancels`, `Restart` | `close()`, its time-out, a new process |
| `StrayBegins`, `StrayCommits` | a renewal nobody awaits any more, processed by the database after all |
| `RecoveryBegins`, `RecoveryCommits` | `interrupt_expired_attempts`: the expired lease it finds, and its `LEAST(expires_at, CURRENT_TIMESTAMP)` |

What the owner does is left out: `task` says only whether it works. `listed[w]`
says that it was among the tasks when `close()` collected them; one that a late
claim starts afterwards is not cancelled when `shutdown_timeout` is over.
`RunExecution` and `ConversationRuns`, which have no clock, let a lease expire at
any time and take it that an expired one stays so.

### RowLocks

A transaction is the list of rows it has still to lock and what it has read.
`Locks` takes the next row, or finds that a condition no longer holds and rolls
back; the last step of each kind is its commit, which frees its rows. `claim`
takes a Run's row with SKIP LOCKED and then the lease; `begin`, `settle`, `ask`
and `renew` take the lease first; `cancel` takes no lease; `recover` takes a Run
and its Attempt at once, with SKIP LOCKED, and then the lease if its token is
still the one it has read.
`DeadlockAborts` is PostgreSQL's detector, which is external, and so is READ
COMMITTED: a statement that waited sees the row as the other left it.

These are the transactions up to the end of a Run's first Attempt. INSERTs are
left out, for those that could collide wait at the lease, and so are the rows of
RequiredActions and Plans, hence the transactions of a WAITING Run:
`answer_required_action`, `decide_plan` and its cancellation. Of these, an answer
locks the RequiredAction and then the Run (`store/postgres.py:633`), a
cancellation the Run and then the RequiredAction (`store/postgres.py:513`), so the
two can wait for each other; one of the two clients is refused.

### ToolGateway, MemoryGateway and AttemptGateways

| state | code |
|---|---|
| `toolBinding`, `callIndex`, `inputPending`, `inputLock` | `_binding`, `_call_index`, `_input_pending`, `_input_lock` of the tool gateway |
| `call[c]` | the handler of one `tools/call` request |
| `question`, `pendingAction`, `settled` | the RequiredAction in the store, the writer closure's variable (`control/plane.py:1899`), the Attempts that are over |
| `memoryBinding`, `cached`, `retrievalLock`, `request[q]` | the same for the memory gateway |
| `attempt`, `phase` | the last Attempt bound, and where its Turn is |

| action | code |
|---|---|
| `CallComes`, `CallEnds` | `call_tool`: admission and index, then everything it awaits |
| `AskTakesLock`, `AskCommits`, `AskFails`, `AskReturns`, `AskBreaks` | `_request_user_input`: the lock, the store, and a failure before, during and after the commit |
| `RequestComes`, `BindingChanged`, `ServedFromCache`, `RetrievalStarts`, `RetrievalEnds`, `RetrievalBreaks` | `__call__` of the memory gateway |
| `TurnBinds`, `TurnEnds`, `TurnSettles`, `TurnRaises`, `TurnCancelled` | `_execute_conversation_run` |
| `HolderDiscarded`, `Discarded` | `_discard_conversation_runtime` |

*Grain.* A handler is cut at the places where it looks at, or changes, what
another can see. A call is a model value; what a Tool or a Provider returns is
data. The DSH process is external: it may stop waiting for the calls of
`MayOutlive` and for any memory request, so that a handler of one Attempt may
still be at work when the next is bound. A Turn that did not hear of its question
settles over it, as the code does, which looks for CANCELLED only.

### PlanReact

A proposal is a dependency graph over step ids and a set of Tools. `Validate` is
`validate_proposal`, and `Resolved` the rounds of `_assert_acyclic` as a
recursive function; `HasCycle`, against which it is checked, is written without
rounds. `SubmitValidates` and `SubmitRecords` are the two halves of
`submit_plan`, before and under its lock; `PlanningEnds` is `compile_plan`,
`Decide` the user, `ExecutionStarts` `compiled_workflow` with its comparison of
digests, `BatchStarts`, `AgentReturns` and `BatchEnds` the loop of the Workflow
script, `Exposed` the Tools that `planning_agent` and `execution_agent` leave.
`Deploy` puts another version of the script under the waiting Run.

### NotificationPublisher

`queue`, `unfinished` and `worker` are the `asyncio.Queue` and the task of
`publish_notifications`, `stats` the `PublisherStats`. `Publish` accepts or
drops; `Takes`, `SendReturns`, `SendRaises` and `Cancelled` are the task;
`CloseBegins`, `QueueJoined`, `SentinelPut`, `JoinTimesOut`, `WorkerAwaited` and
`ProducerStops` are `close()`, cut where it awaits. `wire` and `broker` are
external, and one sequence per partition: `docs/kafka-notifications.md:25` gives
order only per key, which is the tenant and the Session, and line 55 expects
repetitions. What the client has written to a partition arrives in this order
(`Arrives`) or is lost (`ConnectionBreaks`), and what has arrived may be written
again (`ArrivesAndIsResent`), for the producer is not idempotent. That a
partition keeps the order in which one client writes is assumed of Kafka; that
the client gets each message once and never after a later one is the code's part.

### ArtifactWrites

| state | code |
|---|---|
| `store[a]` | the coroutine of `_store_tool_artifact` |
| `thread[a]` | `_write_exclusive` or `unlink`, run by `asyncio.to_thread` |
| `body[a]`, `insert[a]`, `row[a]` | the file, the INSERT of `add_artifact`, the row |
| `download` | `open_artifact` and the stream of the response |

A cancelled coroutine leaves its thread running, and an INSERT whose answer is
lost may still be committed, so each of them has its own steps. A download looks
at the row, at the file, and at the file again when the first chunk is asked
for. Only the local store is modelled.

## 4. Runs

| run | bounds | distinct states | shows |
|---|---|---|---|
| `run_execution` | 1 Run, 2 Workers, 1 retry, 1 disturbance | 245,665 | tables, Plan and action agree; no replay; no unapproved execution; nothing the reconciler settled changes; refinement of `RunContract`; RUNNING Runs end, QUEUED Runs start |
| `conversation_runs` | 2 Runs, 1 question, 2 Workers, 1 disturbance, symmetric Workers | 493,744 | the three tables agree, an answer makes one Turn, one prompt at a time, settled Turns stay, refinement of `TurnQueue` |
| `conversation_liveness` | 2 Runs, 1 question, 1 Worker, 2 disturbances | 208,632 | Runs end and start, answers are delivered |
| `in_process` | 1 standalone Run with 2 retries, 2 Turns, 2 questions, 1 restart | 521,252 | Runs keep their Task until the second retry, the Conversation keeps the one that serves it, both refinements, everything moves on |
| `attempt_gateways` | 2 Attempts, a call of a Tool and two that ask, a budget of 2, 2 memory requests, symmetric | 822,750 | gateways serve the Turn that runs, operation ids are unique and within the budget, a question is last, one retrieval |
| `plan_react` | 4 step ids, up to 3 steps, 2 submissions, 2 versions of the script, symmetric | 264,542 | validation is exact, one submission stands, batches in order, what is executed is what was approved |
| `heartbeat_lease` | 2 Workers, lease 5, interval 1, time-out 1, shutdown 2, 2 claims, a statement waits 1 | 625,580 | work under a live lease, late calls are fenced, orphaned leases expire |
| `row_locks` | 2 Runs, 3 transactions at a time, 2 claims, symmetric | 321,553 | which transactions can deadlock, and what was checked still holds at the commit |
| `publisher` | 5 notifications of 2 Sessions, 2 partitions, capacity 2, repetitions while a partition has fewer than 2 messages | 947,575 | counts add up, first arrivals keep the order in each partition, close ends |
| `artifacts` | 2 Artifacts, 1 download, symmetric | 10,800 | rows name whole files, files without a row are accounted for |
| `retry_overtaken`, `cancel_kills_retry` | the smallest that show it | | one violated property each, see section 6 |

The type invariant of each module has been checked on the instance of its run;
those of the modules whose proofs or properties do not rest on it are left out of
the cfg, and can be added.

*Why these bounds are enough to be interesting.* Standalone Runs share no row;
what they share is a Worker's capacity, and the theorems hold for any number of
them. Two Workers are an old and a new owner of the same resource. A disturbance
is a crash, a cancelled task, a missed heartbeat or a claim handed straight
back. The safety part of `run_execution` also passes with two of them, for
instance a lease lost under a task whose successor then crashes (611,971 states
with symmetric Workers), and its theorems hold for any number. One retry and one
approval give three Attempts. In a
Conversation, two Runs are one that executes and one behind it, and one question
gives an answered Run two Attempts. The safety part of `conversation_runs` also
passes with two disturbances (2,475,018 states) and with two questions
(3,196,637 states), which takes too long to be run each time. Two Attempts and
three calls let a call of the first Attempt outlive it, a question race with a
second question and with another call, and the budget run out. Four ids in
graphs of up to three steps give every shape of cycle among three, with a step
outside it or none, and dependencies that are not steps; the fourth is the
smallest graph that is too large. The lengths of `heartbeat_lease` are the
smallest that satisfy both `HeartbeatFits` and `ShutdownFits` with slack of one
unit; a statement that waits for one is enough to revive a lease or to cut one
short, and with two the safety part passes as well (1,553,495 states). Three transactions are enough for a cycle of two with a bystander, and for
every cycle of three. Five notifications fill a queue of two with one being sent
and one dropped, and leave one for after; the Sessions publish in turn, so each
partition gets two or three of them, and a repetition may be of one message or of
two in a row. Artifacts share nothing but the
process that dies with both.

*Retries in one process.* `RunsHaveTasks` and `RunsMoveOn` speak of Runs that were
retried at most once. From the second retry on they would be violated, for two
reasons. One is the race that `cancel_kills_retry` shows. The other has a window
of two iterations of the event loop: when a Task has just ended and its deferred
schedule is due, a retry creates a Task, a cancel cancels it before it starts, a
second retry counts on the entry in `_deferred_schedules`, and
`_run_deferred_schedule` sees a Task that is not done and discards the entry. The
Run is QUEUED and nothing looks at it. `in_process` allows two retries, so that
the states beyond the limit are there, and `RunContract` is kept in them: a Run
may be forgotten, but what a client reads of it is never wrong. (The contract and
`RunsHaveTasks` also pass with three, for one Turn, 53,449 states.)

*Deadlock* is checked in `heartbeat_lease`, where time goes on for ever, and not
elsewhere: when all bounds are used up, every Run is over and
all Workers are idle, the system has nothing left to do. Liveness properties say
what must not be left undone. (Deadlocks between transactions are states of
`RowLocks` with a step, the detector's.)

## 5. Fairness

`FairSpec` of `RunExecution` and `ConversationRuns`: tasks are resumed and DSH
calls end, because asyncio resumes what is ready and `_execute_with_timeout`
bounds the rest (weak fairness of a task's own steps); the reconciler runs and
leases expire, because every Worker polls for ever and the clock moves (weak
fairness); a Run that is claimable again and again is claimed by some Worker
(strong fairness of the claim by anybody: `claim_work` skips rows that are
locked, so it may miss one at any single poll). Nothing is assumed of clients,
and no fault is owed. In `InProcess` the event loop is fair to each Task and
each handler; a question to the user or a restart is not owed. In
`HeartbeatLease` only time is owed, `Tick` or `Stall`: an orphaned lease runs out
whatever the Workers do. In `NotificationPublisher` the event loop is fair to the
drain task's next item, to its cancellation and to `close()` with its time-out;
nothing is assumed of Kafka, except that the client's `stop()` returns.

## 6. Findings

Two are runs that expect their violation; PROJECT.json quotes the line of the
repository that says otherwise.

- `retry_overtaken`: the settlements look for CANCELLED but never compare the
  Run's active Attempt with their own. After cancel and retry, the cancelled
  execution settles the retried Run. If it was planning, the Run then waits for
  a Plan whose RequiredAction names an Attempt that is not active, and neither
  approve nor reject is accepted.
- `cancel_kills_retry`: in one process, a cancel handler that was awaiting
  `runtime.close` cancels the Task of a later retry; that Run stays RUNNING
  until the next restart.

Others are stated in the modules as properties no run lists. Added to the cfg of
their module, TLC finds each violated:

- `WaitingEndsByDecision` (`RunExecution`): `complete_planning` has committed,
  writing an event fails, and `_settle_failure` fails the WAITING Run.
- `WaitingRunsGoOn` (`ConversationRuns`): a question is stored and its Worker does
  not hear of it; the Turn ends and its Run, WAITING or already answered, becomes
  SUCCEEDED or FAILED. The question stays PENDING, or the accepted answer is never
  consumed. `docs/required-actions.md:133` has `WAITING -> QUEUED -> RUNNING`.
- `BlockedStartsNothing` (`ConversationRuns`): the Conversation is read as
  ACTIVE, blocked by a cancel, and the Run is begun all the same.
- `BlockedByAttempt` (`ConversationRuns`): cancelling a QUEUED Run that a Worker
  has just read makes `begin_attempt` conflict, which is treated like a failed
  Turn: the Conversation is blocked although nothing was sent.
- `CancelledTurnBlocks` (`ConversationRuns`, `FairSpec`): a submit between the
  two transactions of `_block_conversation` makes the second conflict; the Run
  is CANCELLED, the Conversation stays ACTIVE, and a repeated cancel returns at
  once.
- `WaitingStopsDrain` (`InProcess`): while a Run waits for its user and another
  is QUEUED, drain Tasks replace each other without end.
- `ContextIsOwn` (`AttemptGateways`): a retrieval that ends under a later binding
  writes its context over the cache of that binding
  (`adapters/dsh/context_gateway.py:202`), which the next session of the later
  Attempt is then served.
- `RowHasBody` (`ArtifactWrites`): `add_artifact` raises, because its connection
  was lost or its call cancelled, while its INSERT is committed; the compensation
  deletes the file the row names. `open_artifact` then answers "not found".
- `PublishedIsAcknowledged` (`NotificationPublisher`): a notification counts as
  published when the client has written it. `docs/kafka-notifications.md:25` has
  `acks=all` and an idempotent producer, `adapters/kafka/publisher.py:333` has
  `acks=0` and `enable_idempotence=False`.

Observations that came up on the way and are questions of intent:

- `wait()` rests on one `asyncio.Event` per Run, and an answer puts a new one in
  its place (`control/plane.py:1023`). If the answer comes before the asking Turn
  is over, that Turn sets the new one (`control/plane.py:2004`): who has been
  waiting is not woken, and who waits from then on is woken before the answered
  Run is over. After a restart, who waits for a WAITING Run is not woken either.
  Read off the code, not checked.
- cancel refuses a QUEUED Run that carries an answer (`control/plane.py:660`), so
  behind a blocked Conversation it can be neither executed nor cancelled.
- A crash with a Turn in flight leaves the Conversation ACTIVE
  (`docs/conversation-session-v0.2.md:447`).
- A stalled Worker's prompt and that of the next owner can be in the same Session
  at once, because the lease fences the database and not DSH (`OnePrompt` holds
  as long as no lease expired under a task).
- Between the commit of a question and `adapters/mcp/gateway.py:411` a parallel
  call of a Tool is still admitted although the Run is WAITING; if the call that
  asks fails in that window, every later call of the Attempt is. `QuestionIsLast`
  is what is left: nothing begins after the question was answered to the model.
- On the failure path the Attempt is settled before the runtime is closed, so a
  Tool may still be called for an Attempt that is over.
- `WorkerConfig` requires interval + time-out < lease (`worker/service.py:56`). A
  renewal that commits at once and is answered just before its time-out leaves
  the next one a time-out less: what is needed is interval + 2 time-outs < lease
  (`HeartbeatFits`), which the defaults 10, 3 and 30 satisfy. A shutdown is
  covered when interval + time-out + `shutdown_timeout` < lease, 28 < 30, which
  nothing checks.
- `run_forever` is not cancelled before `close()`: a claim answered after `_stop`
  was set starts an owner whose heartbeat ends at once. If `close()` has collected
  the tasks by then, it neither awaits nor cancels that owner, which works on when
  its lease is over; `WorksUnderLease` leaves it out (`listed`).
- Transactions do deadlock: a claim with `begin_attempt`, a recovery with a
  settlement, a cancellation with a question. The aborted one is harmless as
  `CommitsStand` shows, but an abort of `claim_work` or of the reconciler is an
  exception that leaves `run_forever` (`worker/service.py:115`) and ends the
  Worker.
- A renewal that started before the lease expired and then waited for its row
  revives it, CURRENT_TIMESTAMP being the start of its transaction; and a recovery
  that had found it expired before that ends it again with
  `LEAST(expires_at, CURRENT_TIMESTAMP)`. Both are in `HeartbeatLease`: a Worker
  that keeps up is touched by neither, because `HeartbeatFits` has it give up
  before its lease expires.
- Two concurrent `ControlPlane.start()` with a required producer that fails may
  leave one of them open (`control/plane.py:214`).

## 7. Proofs

`RunExecutionProofs` proves, for any sets of Runs and Workers, any capacity and
any number of retries and disturbances, from `ConstantsAssumption` alone:

- `TypeCorrect`: every table and task is well formed. This is more than typing:
  `attempt_count` never exceeds `MaxRetries + 2`.
- `TablesAgree`: a RUNNING Run has exactly one RUNNING Attempt, which is its
  newest and its active one, and no other Run has any.
- `NeverReplayed`: each Attempt after the first answers a retry or an approval.
- `ApprovalRespected`: only an approved Plan is executed, and a Run whose Plan
  was rejected stays cancelled.
- `WaitingIsPending`: a WAITING Run has a pending Plan and a pending action.

*The argument.* None of these is inductive. Whether a settlement may write
depends on what a task read long before, so `IInv` (`RunExecutionInvariant`)
adds, per task, what its belief is backed by. A revision that is still current
means that the Run is still QUEUED (before `begin_attempt`) or still not
CANCELLED (before a settlement). A lease that is still valid means that the
task's Attempt is the newest, carries the lease's token, has not been
interrupted, and that the Run is in the phase the task began with. The writes need
both: in `retry_overtaken` the first does not stop the cancelled execution, and
the tables still agree because by the second the Attempt it settles is the
Run's newest.

*Layout.* Types first (`ClientType`, `LeaseType`, `ExecuteType`), then the
frame lemmas (`RunFrame`, `TaskFrame`, `Elsewhere`: a step on one Run and one
Worker leaves the conjuncts of others alone), then one lemma per group of
actions (`ClientInv`, `TaskMoveInv`, `LeaseInv`, `ExecuteInv`) with one step per
action, and `NextInv`, from which the theorems follow by temporal reasoning.

The second part of the module goes on from there:

- `OneGrantOneAttempt`: the Attempts of a Run carry strictly increasing tokens,
  none ahead of the lease row, so that one claim executes at most one Attempt.
- `BoundaryOnRecord`: an Attempt recorded as NOT_SENT has sent no prompt.
- `InterruptedStays`: what the reconciler has settled, no step changes.
- `Refinement`: `RunExecution` implements `RunContract`.

They need more than `IInv`. `FullInv` adds `HistoryInv` (what the Attempts that
are over look like, and how the newest relates to the phase of the Run) and
`GrantInv` (how many Attempts there may be at each status); again TLC checked
both before they were proved. The refinement takes one case per action: a
request maps to `Submit`, `Cancel`, `Retry` or `Decide`, `BeginAttempt` to
`Start`, a settlement to `Complete`, `Suspend` or `Fail`, `InterruptExpired` to
`Interrupt`, a crash to `VanishAll`, the loss of a lease and the end of a task to
`Vanish` or to a stutter, and everything a task does in between to a stutter.
The case that is not obvious is `BeginAttempt`: that nobody is reporting when an
execution starts is what the lease is for. It follows because a valid lease names
one holder and the newest token, and every other task's token is older.

`ConversationRunsProofs` proves, for any number of Workers, Runs, questions and
disturbances:

- `TypeCorrect`, `TablesAlwaysAgree` and `EachAnswerIsOneTurn`: the three tables
  tell one story, but for the question its own Turn overlooked, and every answer
  opens one Attempt at most.
- `OnePromptAtATime`: the Session has one prompt, unless a lease ran out under its
  task.
- `SettledTurnsAreKept`: a Turn is over for good.
- `Refinement`: `ConversationRuns` implements `TurnQueue`.

`IInv` says more than these in three places. `RunInv` lists the shapes a Run's row,
Attempts and questions can have together: every Attempt but the newest has asked
and its answer is consumed. `TaskInv` says what a task knows: that the newest
Attempt is its own and not settled, until the Run is cancelled or its lease is
gone, and, before
`begin_attempt`, that the Run it read is still the first QUEUED one and nobody is
served, as long as its lease is valid. That is why no Turn starts beside another
although the check and `begin_attempt` are far apart. And `AskInv` bounds the
questions, because an Attempt gets a number only if there is one left. The proof
has a frame lemma for each way a step can leave a task's knowledge alone
(`TaskApart`, `TaskOfChanged`, `OthersKeep`), one lemma per group of actions, and
`EveryStep`, which says of each step which Turn it moves; `SettledTurnsAreKept` and
`Refinement` follow from that.

`HeartbeatLeaseProofs` proves, from `ConfigAssumption`, which is the check of
`WorkerConfig`, and for any numbers:

- `WorkersWorkUnderLease`: with `HeartbeatFits`, a Worker that keeps up works
  only under a lease that is its own and has time left, whatever happens to its
  renewals; and through its shutdown, with `ShutdownFits`.
- `OneWorkerAtATime`: hence no two of them work at once.
- `LateCallsFenced`: a lease is claimed only after it has expired; an expired one
  is revived only by a renewal of its last holder that started in time and had to
  wait for the row; and one that lives is cut short only by the release of its
  owner or by a recovery that had found it expired.

The invariant relates `left` to what is left of each timer: while a heartbeat
sleeps the lease outlasts its nap and a time-out, while it renews the rest of
that time-out, or, once the renewal has committed, much more. Waiting for the row
costs nothing beyond that, because the time-out runs from before the statement
starts. It also says that no token is above the row's, also not in a stray renewal
or a recovery, and that a recovery of the row's token rules out a Worker that
keeps up under it.

`InProcessProofs` proves, for any Runs, any number of Turns, questions and
restarts and any number of retries:

- `RunsAreExecuted`: until its second retry, a RUNNING Run has the Task that
  executes it and nobody has cancelled that Task, and a QUEUED Run has a Task about
  to start or a deferred schedule that will create one.
- `ConversationIsServed`: the RUNNING Turn is the one the drain Task executes, and
  a Turn that can be executed has a drain Task.
- `ContractRefinement` and `QueueRefinement`: one process without leases, tokens
  or unique indexes implements `RunContract` and `TurnQueue`.

`Types` and `RunInv` hold with any number of retries and carry the first
refinement: how status, phase and Plan go together, that a Task works only for
a Run that was submitted, and that a Run has no more cancel handlers than it had
cancellations. `CancelsAreOwn` is what the second retry breaks. Up to then there
is at most one cancel handler that can find a Run which is not CANCELLED, namely
of the cancellation before the retry; it has not yet come back from
`runtime.close`, and the Task it is going to cancel is still the old one, because
`_schedule` creates no Task beside one that is not done. And no entry of
`_deferred_schedules` is due while a Task exists, so none is used up in vain.
`ConvInv` relates the drain Task to the Turns: the RUNNING one is the drain's, a
cancelled drain belongs to a blocked Conversation, and Turns are numbered without
gaps, which is what makes the first QUEUED one the next of `TurnQueue`. A step of
one Run leaves the others' conjuncts alone (`RunStepFrame`), and so does a step
of the Conversation; a restart touches all of them and has lemmas of its own.

`RowLocksProofs` proves `DeadlocksNeedAnOutsider`: transactions that take the
lease first never deadlock among themselves. Such a transaction holds the lease's
row, or holds nothing and is about to ask for it; in a cycle of waits each is
waited for and so holds a row; so each holds the lease's row, and they are one.

It also proves `ChecksHoldAtCommit`, for any number of transactions of every kind.
The invariant `Guarded` gives each transaction its guards, the rows of its Runs
it has read and, if it goes by a token, the lease. A transaction that has no row
left to lock holds all its guards; while it holds one nobody else can change
it, for every step that writes a row is the commit of a transaction that holds
it; so what was read when it was locked is what is there at the commit. What was
read before the row was locked is compared again after the wait; without that
comparison (`RevisionIgnored`) the property is violated.

`AttemptGatewaysProofs` proves `GatewaysBoundTogether`, `UniqueOperations`,
`NothingAfterQuestion` and `RetrievedOnce` for any number of Attempts, calls and
requests and any budget. Attempts are numbered upwards: what an old handler still
does concerns an Attempt that is never bound again, and what is bound next is
larger than anything a handler has noted. So an index lies below the counter, an
answered question is noted, and a retrieval is cached, only as long as the Attempt
they belong to is bound, and that is enough.

`PlanReactProofs` proves, for any step ids, Tools, submissions and versions of the
script, and for graphs of any size:

- `ValidationDecides`: validation accepts a proposal exactly if it can be executed.
- `OnePlanStands`, `ApprovedIsExecuted`: one submission stands, and what is executed
  is what was approved.
- `StepsRunInOrder`, `AcceptedCanBeExecuted`: steps begin after those they depend
  on, each once, a script with pending steps always has one it can start, and
  whatever was accepted is executable.

`_assert_acyclic` loops until a round resolves nothing. Its rounds are a
recursive function on the numbers up to the number of steps, and what is needed
of them is proved by the least-number principle (`LeastNumber`), which needs no
operator as a parameter. Either a round resolves another step or nothing is left
or there is a knot, a set in which each step waits for another
(`RoundsProgress`), so that as many rounds as steps are enough; and the first
round that would resolve a step of a knot would have resolved another of them
before (`KnotsRemain`). The other theorems rest on it: the pending steps of an
accepted plan are no knot, so one of them is ready (`SomeStepReady`).

`OutputProofs` proves of the publisher, for any capacity and any number of
notifications:

- `CountsAlwaysAddUp`: each notification offered is published, failed, dropped or
  still open, and counted once, but for one that is being sent when close times
  out.
- `DeliveryKeepsOrder`: whatever is lost or written again on the way, no partition
  gets a message for the first time after a later one.
- `SentinelFits`: `close()` never finds the queue full when it puts the sentinel.

The invariant has a part for each. `PhaseInv`: `unfinished` is the length of the
queue and one more for an item being sent, so that a queue that has been joined
is empty, and the sentinel is alone in it (`QueueInv`).
`CountInv`: what the statistics have counted and what is open make up what was
offered. `OrderInv`, for each partition: the numbers rise along the wire, the item
being sent and the queue, and stay below the next one to be offered; and what is
on the wire is above all that has arrived, or has arrived already.

Of the Artifacts it proves `FilesBeforeRows`. The invariant says, for each place
the coroutine can be, how far thread, file and INSERT can be: the INSERT is sent
when the file is whole, and from then on the file is deleted but never written.

*Model-checked only.* Every invariant, action property and refinement that a
passing run checks is stated by a theorem. What is left to TLC is liveness
(`RunningRunsEnd`, `QueuedRunsStart`, `AnswersAreDelivered`, `RunsMoveOn`,
`OrphansExpire`, `CloseEnds`), because fairness and ENABLED are out of the
prover's reach. Induction over data with the library's theorems is as well, and
RECURSIVE operators; where an induction is needed, a recursive function and the
least-number principle do instead, and no module with a theorem uses RECURSIVE.

## 8. Not modelled

Payloads, outputs, event and audit rows (except their failure), tenancy and
authorisation, idempotency keys, `created_at` order between Runs, the capacity
`max_owned_conversations`, closing a Conversation, `wait()`, the lazy
`start()`, database errors in `InProcess`, fingerprints of standalone Agents that
changed with a deployment. Of the gateways: schemas, digests, scoring and
rendering, the cutting of long observations. Parts without a module are listed
in PROJECT.json with the reason: I/O, stateless translation, external programs,
or planned below.

## 9. Plan

Done in this order: `RunExecution` with its contract, `ConversationRuns` with
its queue, `InProcess` against both, the proofs of `RunExecution`; then the
gateways, `PlanReact`, `HeartbeatLease` and `RowLocks` with their proofs, the
publisher, `ArtifactWrites`, and the proofs of the refinement, the gateways, the
plan, the artifacts and the Conversation; then the proofs of `InProcess`, the
publisher, the commits of `RowLocks` and the validation of plans. Left:

1. `wait()` and the lazy `start()` in `InProcess`; closing a Conversation; the
   idempotency keys of submit and retry.
2. A configuration of `ConversationRuns` with a deployment in it: an Agent whose
   fingerprint changed under a QUEUED Run.
