---------------------------- MODULE RunExecution ----------------------------
(***************************************************************************)
(* Standalone Runs in the PostgreSQL deployment: API processes that submit,*)
(* cancel, retry and decide Runs, Worker processes that claim and execute  *)
(* them under a fenced lease, and the reconciler that settles what a dead  *)
(* Worker left behind.                                                     *)
(*                                                                         *)
(* Sources: control/plane.py (ControlPlane), store/postgres.py             *)
(* (PostgresControlStore), worker/service.py (WorkerService).              *)
(*                                                                         *)
(* Grain of atomicity.  Every store method is one transaction, hence one   *)
(* step.  A handler of the API reads the Run, computes the whole new       *)
(* record and writes it back against the revision it read; a conflict      *)
(* raises and leaves nothing behind, so read and write are one step here.  *)
(* A Worker's settlement is two steps, because there a conflict is not     *)
(* harmless: it diverts the task into its failure path.                    *)
(*                                                                         *)
(* Abstracted: payloads, outputs, event rows and audit rows (only the      *)
(* failure of writing one is kept, where it changes what happens next),    *)
(* time (a lease is live or not), tenancy checks, and created_at ordering  *)
(* of candidates (any claimable Run may be the oldest).                    *)
(***************************************************************************)
EXTENDS Naturals, FiniteSets

CONSTANTS
    Runs,             \* run_ids the clients may submit
    Workers,          \* worker_ids of the Worker processes
    NoWorker,         \* the absent worker_id of a lease row never written
    MaxConcurrency,   \* WorkerConfig.max_concurrency
    MaxRetries,       \* bound: retries the clients issue per Run
    MaxDisturbances   \* bound: crashes, cancelled tasks, missed heartbeats
                      \* and claims handed straight back, over all Workers

ASSUME ConstantsAssumption ==
    /\ NoWorker \notin Workers
    /\ MaxConcurrency \in Nat \ {0}
    /\ MaxRetries \in Nat
    /\ MaxDisturbances \in Nat

VARIABLES
    run,            \* the runs table
    attempt,        \* the run_attempts table, by Run and Attempt number
    plan,           \* status of the Run's Plan ("none": no row)
    action,         \* the Run's plan_approval RequiredAction
    lease,          \* the worker_leases table, resource_type = 'run'
    task,           \* per Worker and Run: the asyncio Task of _execute_resource
    retries,        \* history: retries granted so far
    disturbances    \* how much of MaxDisturbances is used up

vars == <<run, attempt, plan, action, lease, task, retries, disturbances>>

-----------------------------------------------------------------------------
(* The records.                                                            *)

RunStatus == {"queued", "running", "waiting", "succeeded", "failed", "cancelled"}
TerminalRunStatuses == {"succeeded", "failed", "cancelled"}
RunPhase == {"direct", "planning", "waiting_approval", "executing", "completed"}
AttemptStatus == {"running", "succeeded", "failed", "cancelled", "interrupted"}
TerminalAttemptStatuses == AttemptStatus \ {"running"}
DispatchState == {"not_sent", "dispatching", "accepted", "settled", "unknown"}

(* A retry and the one approval a Run can get each open one more Attempt:  *)
(* NoAutomaticReplay shows that no Attempt has a higher number.            *)
MaxAttempts == MaxRetries + 2
Numbers == 1..MaxAttempts
NumberOrNone == 0..MaxAttempts

RunRecord ==
    [status: RunStatus \cup {"absent"}, phase: RunPhase, rev: Nat,
     count: NumberOrNone,        \* attempt_count
     active: NumberOrNone,       \* number of active_attempt_id, 0 for None
     required: BOOLEAN]          \* required_action_id is not None

RunAttempt ==
    [status: AttemptStatus \cup {"none"}, phase: RunPhase,
     dispatch: DispatchState, worker: Workers \cup {NoWorker},
     token: Nat, rev: Nat]

NoRun == [status |-> "absent", phase |-> "direct", rev |-> 0, count |-> 0,
          active |-> 0, required |-> FALSE]

NoAttempt == [status |-> "none", phase |-> "direct", dispatch |-> "not_sent",
              worker |-> NoWorker, token |-> 0, rev |-> 0]

(* pc of a task: where _execute stands.                                    *)
(*   claimed    leased, Run not read yet                                   *)
(*   begin      QUEUED Run read, begin_attempt not committed               *)
(*   started    Attempt RUNNING, nothing sent to DSH                       *)
(*   dispatched DISPATCHING recorded, prompt or workflow handed to DSH     *)
(*   accepted   first DSH event or result seen                             *)
(*   settle     rows read by _settle_success or _settle_planning           *)
(*   report     settlement committed, events and audit not written yet     *)
(*   fail       an exception is about to enter _settle_failure             *)
(*   failSettle rows read by _settle_failure                               *)
(*   closing    in the finally blocks, lease not released yet              *)
TaskPc == {"idle", "claimed", "begin", "started", "dispatched", "accepted",
           "settle", "report", "fail", "failSettle", "closing"}

Task == [pc: TaskPc, token: Nat, number: NumberOrNone, phase: RunPhase,
         runRev: Nat, attemptRev: Nat]

NoTask == [pc |-> "idle", token |-> 0, number |-> 0, phase |-> "direct",
           runRev |-> 0, attemptRev |-> 0]

TypeOK ==
    /\ run \in [Runs -> RunRecord]
    /\ attempt \in [Runs -> [Numbers -> RunAttempt]]
    /\ plan \in [Runs -> {"none", "pending", "approved", "rejected"}]
    /\ action \in [Runs -> [status: {"none", "pending", "consumed", "cancelled"},
                            attempt: NumberOrNone]]
    /\ lease \in [Runs -> [holder: Workers \cup {NoWorker}, token: Nat, live: BOOLEAN]]
    /\ task \in [Workers -> [Runs -> Task]]
    /\ retries \in [Runs -> 0..MaxRetries]
    /\ disturbances \in 0..MaxDisturbances

Init ==
    /\ run = [r \in Runs |-> NoRun]
    /\ attempt = [r \in Runs |-> [n \in Numbers |-> NoAttempt]]
    /\ plan = [r \in Runs |-> "none"]
    /\ action = [r \in Runs |-> [status |-> "none", attempt |-> 0]]
    /\ lease = [r \in Runs |-> [holder |-> NoWorker, token |-> 0, live |-> FALSE]]
    /\ task = [w \in Workers |-> [r \in Runs |-> NoTask]]
    /\ retries = [r \in Runs |-> 0]
    /\ disturbances = 0

-----------------------------------------------------------------------------
(* Rows are written whole: _update_run and _update_attempt bump the        *)
(* revision and refuse (see Unchanged) if it is not the one that was read. *)
ReplaceRun(r, row) == run' = [run EXCEPT ![r] = [row EXCEPT !.rev = @ + 1]]

ReplaceAttempt(r, n, row) ==
    attempt' = [attempt EXCEPT ![r][n] = [row EXCEPT !.rev = @ + 1]]

Become(w, r, t) == task' = [task EXCEPT ![w][r] = t]

-----------------------------------------------------------------------------
(* The API process.                                                        *)

(* ControlPlane.submit: an Agent with a Plan-ReAct policy starts planning. *)
Submit(r, phase) ==
    /\ run[r].status = "absent"
    /\ run' = [run EXCEPT ![r] = [NoRun EXCEPT !.status = "queued", !.phase = phase]]
    /\ UNCHANGED <<attempt, plan, action, lease, task, retries, disturbances>>

(* Fault: Plan and RequiredAction are cancelled outside the transaction    *)
(* that cancels the Run.                                                   *)
CancelWaitingPlanOnly(r) ==
    /\ run[r].status \notin TerminalRunStatuses \cup {"absent"}
    /\ run[r].required
    /\ action[r].status = "pending"
    /\ plan' = [plan EXCEPT ![r] = "rejected"]
    /\ action' = [action EXCEPT ![r].status = "cancelled"]
    /\ UNCHANGED <<run, attempt, lease, task, retries, disturbances>>

(* ControlPlane.cancel of a Run that waits for its Plan decision: Run,     *)
(* Plan and RequiredAction change in the decide_plan transaction.          *)
CancelWaiting(r) ==
    /\ run[r].status \notin TerminalRunStatuses \cup {"absent"}
    /\ run[r].required
    /\ action[r].status = "pending"
    /\ run[r].phase = "waiting_approval"
    /\ ReplaceRun(r, [run[r] EXCEPT !.status = "cancelled", !.active = 0, !.required = FALSE])
    /\ plan' = [plan EXCEPT ![r] = "rejected"]
    /\ action' = [action EXCEPT ![r].status = "cancelled"]
    /\ UNCHANGED <<attempt, lease, task, retries, disturbances>>

(* Fault: the live Attempt is left to its Worker.                          *)
CancelRunOnly(r) ==
    /\ run[r].status \notin TerminalRunStatuses \cup {"absent"}
    /\ ~run[r].required
    /\ run[r].phase # "waiting_approval"
    /\ ReplaceRun(r, [run[r] EXCEPT !.status = "cancelled"])
    /\ UNCHANGED <<attempt, plan, action, lease, task, retries, disturbances>>

(* ControlPlane.cancel otherwise: a live Attempt is settled with the Run.  *)
(* In this deployment the API process owns neither runtime nor task, so    *)
(* nothing tells the Worker.                                               *)
Cancel(r) ==
    LET n == run[r].active IN
    /\ run[r].status \notin TerminalRunStatuses \cup {"absent"}
    /\ ~run[r].required
    /\ run[r].phase # "waiting_approval"
    /\ ReplaceRun(r, [run[r] EXCEPT !.status = "cancelled"])
    /\ IF n # 0 /\ attempt[r][n].status = "running"
       THEN ReplaceAttempt(r, n, [attempt[r][n] EXCEPT !.status = "cancelled",
                                                       !.dispatch = "settled"])
       ELSE UNCHANGED attempt
    /\ UNCHANGED <<plan, action, lease, task, retries, disturbances>>

(* ControlPlane.retry.                                                     *)
Retry(r) ==
    /\ run[r].status \in {"failed", "cancelled"}
    /\ run[r].phase # "waiting_approval"
    /\ retries[r] < MaxRetries
    /\ ReplaceRun(r, [run[r] EXCEPT !.status = "queued", !.active = 0])
    /\ retries' = [retries EXCEPT ![r] = @ + 1]
    /\ UNCHANGED <<attempt, plan, action, lease, task, disturbances>>

(* The checks of ControlPlane._resolve_plan_action on stored state.        *)
Decidable(r) ==
    /\ run[r].status = "waiting"
    /\ run[r].phase = "waiting_approval"
    /\ run[r].required
    /\ action[r].status = "pending"
    /\ action[r].attempt = run[r].active
    /\ plan[r] = "pending"

(* Fault: the Run goes on without the decision being written.              *)
ApproveRunOnly(r) ==
    /\ Decidable(r)
    /\ ReplaceRun(r, [run[r] EXCEPT !.status = "queued", !.phase = "executing",
                                    !.active = 0, !.required = FALSE])
    /\ UNCHANGED <<attempt, plan, action, lease, task, retries, disturbances>>

(* ControlPlane._resolve_plan_action with an approving response.           *)
Approve(r) ==
    /\ Decidable(r)
    /\ ReplaceRun(r, [run[r] EXCEPT !.status = "queued", !.phase = "executing",
                                    !.active = 0, !.required = FALSE])
    /\ plan' = [plan EXCEPT ![r] = "approved"]
    /\ action' = [action EXCEPT ![r].status = "consumed"]
    /\ UNCHANGED <<attempt, lease, task, retries, disturbances>>

(* ControlPlane._resolve_plan_action with a rejecting response.            *)
Reject(r) ==
    /\ Decidable(r)
    /\ ReplaceRun(r, [run[r] EXCEPT !.status = "cancelled", !.active = 0, !.required = FALSE])
    /\ plan' = [plan EXCEPT ![r] = "rejected"]
    /\ action' = [action EXCEPT ![r].status = "consumed"]
    /\ UNCHANGED <<attempt, lease, task, retries, disturbances>>

-----------------------------------------------------------------------------
(* Claiming.                                                               *)

(* WorkerService._standalone_run_count: entries of _tasks.                 *)
StandaloneRunCount(w) == Cardinality({r \in Runs : task[w][r].pc # "idle"})

(* Fault: a Run is claimed only while it has no lease row at all.          *)
ClaimableOnce(r) == run[r].status = "queued" /\ lease[r].holder = NoWorker

(* The row PostgresControlStore.claim_work can take: the Run is queued and *)
(* no unexpired lease row exists for it.                                   *)
Claimable(r) == run[r].status = "queued" /\ ~lease[r].live

HasRoom(w, r) == task[w][r].pc = "idle" /\ StandaloneRunCount(w) < MaxConcurrency

(* Fault: the upsert of the lease row keeps the fencing token.             *)
ClaimSameToken(w, r) ==
    /\ Claimable(r)
    /\ HasRoom(w, r)
    /\ lease' = [lease EXCEPT ![r] = [@ EXCEPT !.holder = w, !.live = TRUE]]
    /\ Become(w, r, [NoTask EXCEPT !.pc = "claimed", !.token = lease[r].token])
    /\ UNCHANGED <<run, attempt, plan, action, retries, disturbances>>

(* WorkerService._claim_available_work with claim_work: a new task.        *)
Claim(w, r) ==
    /\ Claimable(r)
    /\ HasRoom(w, r)
    /\ lease' = [lease EXCEPT ![r] = [holder |-> w, token |-> @.token + 1, live |-> TRUE]]
    /\ Become(w, r, [NoTask EXCEPT !.pc = "claimed", !.token = lease[r].token + 1])
    /\ UNCHANGED <<run, attempt, plan, action, retries, disturbances>>

(* _claim_available_work when the Worker still has a task for the Run or   *)
(* is full: the lease just granted is handed back, its token is spent.     *)
ClaimAndHandBack(w, r) ==
    /\ Claimable(r)
    /\ ~HasRoom(w, r)
    /\ disturbances < MaxDisturbances
    /\ disturbances' = disturbances + 1
    /\ lease' = [lease EXCEPT ![r] = [holder |-> w, token |-> @.token + 1, live |-> FALSE]]
    /\ UNCHANGED <<run, attempt, plan, action, task, retries>>

-----------------------------------------------------------------------------
(* Executing: ControlPlane.execute_leased_work and _execute.               *)

(* Fault: the fence is not checked.                                        *)
LeaseUnchecked(w, r) == task[w][r].pc # "idle"

(* PostgresControlStore._assert_lease, first in every fenced transaction.  *)
LeaseValid(w, r) ==
    /\ lease[r].live
    /\ lease[r].holder = w
    /\ lease[r].token = task[w][r].token

(* The revisions the task read are still the stored ones.                  *)
Unchanged(w, r) ==
    LET t == task[w][r] IN
    /\ run[r].rev = t.runRev
    /\ attempt[r][t.number].rev = t.attemptRev

(* Locals of a handler that has returned are forgotten.                    *)
Goto(w, r, pc) ==
    Become(w, r, [task[w][r] EXCEPT !.pc = pc, !.runRev = 0, !.attemptRev = 0])

(* Control leaves _execute: only the lease is still to be released.        *)
Close(w, r) ==
    Become(w, r, [NoTask EXCEPT !.pc = "closing", !.token = task[w][r].token])

(* The two QUEUED checks before an Attempt is built.                       *)
ReadQueued(w, r) ==
    /\ task[w][r].pc = "claimed"
    /\ IF run[r].status = "queued"
       THEN Become(w, r, [task[w][r] EXCEPT !.pc = "begin", !.runRev = run[r].rev])
       ELSE Close(w, r)
    /\ UNCHANGED <<run, attempt, plan, action, lease, retries, disturbances>>

(* PostgresControlStore.begin_attempt: the Attempt row and the RUNNING Run *)
(* appear together.                                                        *)
BeginAttempt(w, r) ==
    LET n == run[r].count + 1 IN
    /\ task[w][r].pc = "begin"
    /\ LeaseValid(w, r)
    /\ run[r].rev = task[w][r].runRev
    /\ attempt' = [attempt EXCEPT ![r][n] =
                      [NoAttempt EXCEPT !.status = "running", !.phase = run[r].phase,
                                        !.worker = w, !.token = task[w][r].token]]
    /\ ReplaceRun(r, [run[r] EXCEPT !.status = "running", !.count = n, !.active = n])
    /\ Become(w, r, [task[w][r] EXCEPT !.pc = "started", !.number = n,
                                       !.phase = run[r].phase, !.runRev = 0])
    /\ UNCHANGED <<plan, action, lease, retries, disturbances>>

(* begin_attempt refused.  LeaseLostError ends _execute; a revision        *)
(* conflict enters _settle_failure, which either sees CANCELLED or fails   *)
(* to find the Attempt that was rolled back.  Nothing is written.          *)
BeginRefused(w, r) ==
    /\ task[w][r].pc = "begin"
    /\ ~LeaseValid(w, r) \/ run[r].rev # task[w][r].runRev
    /\ Close(w, r)
    /\ UNCHANGED <<run, attempt, plan, action, lease, retries, disturbances>>

(* Fault: a lost lease is taken for a settled Attempt.                     *)
SetDispatchStateLeniently(w, r, state, pc) ==
    LET n == task[w][r].number IN
    /\ Goto(w, r, pc)
    /\ IF attempt[r][n].status = "running" /\ LeaseValid(w, r)
       THEN ReplaceAttempt(r, n, [attempt[r][n] EXCEPT !.dispatch = state])
       ELSE UNCHANGED attempt

(* ControlPlane._set_dispatch_state with replace_attempt.  An Attempt that *)
(* was settled meanwhile is left alone and the task goes on; a conflict    *)
(* between its read and its write is one of the failures of ExecuteFails.  *)
SetDispatchState(w, r, state, pc) ==
    LET n == task[w][r].number IN
    \/ /\ attempt[r][n].status \in TerminalAttemptStatuses
       /\ Goto(w, r, pc)
       /\ UNCHANGED attempt
    \/ /\ attempt[r][n].status = "running"
       /\ LeaseValid(w, r)
       /\ ReplaceAttempt(r, n, [attempt[r][n] EXCEPT !.dispatch = state])
       /\ Goto(w, r, pc)
    \/ /\ attempt[r][n].status = "running"
       /\ ~LeaseValid(w, r)
       /\ Close(w, r)
       /\ UNCHANGED attempt

(* The phase checks of _execute, DISPATCHING, then runtime.run or          *)
(* runtime.execute_workflow.                                               *)
Dispatch(w, r) ==
    /\ task[w][r].pc = "started"
    /\ \/ task[w][r].phase \in {"direct", "planning"}
       \/ task[w][r].phase = "executing" /\ plan[r] = "approved"
    /\ SetDispatchState(w, r, "dispatching", "dispatched")
    /\ UNCHANGED <<run, plan, action, lease, retries, disturbances>>

(* The first DSH event, notification or the result: ACCEPTED.              *)
Accept(w, r) ==
    /\ task[w][r].pc = "dispatched"
    /\ SetDispatchState(w, r, "accepted", "accepted")
    /\ UNCHANGED <<run, plan, action, lease, retries, disturbances>>

(* Anything that raises inside _execute: no gateway, a refused phase, a    *)
(* DSH error, a finish reason that is not "completed", a planner without a *)
(* proposal, a write_event that failed.                                    *)
ExecuteFails(w, r) ==
    /\ task[w][r].pc \in {"started", "dispatched", "accepted"}
    /\ Goto(w, r, "fail")
    /\ UNCHANGED <<run, attempt, plan, action, lease, retries, disturbances>>

-----------------------------------------------------------------------------
(* Settling.                                                               *)

(* get_run, the CANCELLED check and get_attempt at the head of each        *)
(* settlement.  Reading the two rows at once loses nothing: what changes   *)
(* between the two reads changes the Run and conflicts at the write.       *)
ReadForSettlement(w, r, pc) ==
    LET n == task[w][r].number IN
    IF run[r].status = "cancelled"
    THEN Close(w, r)
    ELSE Become(w, r, [task[w][r] EXCEPT !.pc = pc, !.runRev = run[r].rev,
                                         !.attemptRev = attempt[r][n].rev])

(* DSH completed: _settle_success or _settle_planning begins.              *)
Finish(w, r) ==
    /\ task[w][r].pc = "accepted"
    /\ ReadForSettlement(w, r, "settle")
    /\ UNCHANGED <<run, attempt, plan, action, lease, retries, disturbances>>

(* The Attempt half of PostgresControlStore.settle_attempt and             *)
(* complete_planning.                                                      *)
SettleAttempt(w, r, status) ==
    LET n == task[w][r].number IN
    ReplaceAttempt(r, n, [attempt[r][n] EXCEPT !.status = status, !.dispatch = "settled"])

CanSettle(w, r) == LeaseValid(w, r) /\ Unchanged(w, r)

(* _settle_success committed through settle_attempt.                       *)
SettleSuccess(w, r) ==
    /\ task[w][r].pc = "settle"
    /\ task[w][r].phase # "planning"
    /\ CanSettle(w, r)
    /\ SettleAttempt(w, r, "succeeded")
    /\ ReplaceRun(r, [run[r] EXCEPT !.status = "succeeded", !.phase = "completed"])
    /\ Goto(w, r, "report")
    /\ UNCHANGED <<plan, action, lease, retries, disturbances>>

(* _settle_planning committed through complete_planning.                   *)
SettlePlanning(w, r) ==
    /\ task[w][r].pc = "settle"
    /\ task[w][r].phase = "planning"
    /\ CanSettle(w, r)
    /\ SettleAttempt(w, r, "succeeded")
    /\ ReplaceRun(r, [run[r] EXCEPT !.status = "waiting", !.phase = "waiting_approval",
                                    !.required = TRUE])
    /\ plan' = [plan EXCEPT ![r] = "pending"]
    /\ action' = [action EXCEPT ![r] = [status |-> "pending", attempt |-> task[w][r].number]]
    /\ Goto(w, r, "report")
    /\ UNCHANGED <<lease, retries, disturbances>>

(* Either settlement refused: LeaseLostError ends the task, a revision     *)
(* conflict is an exception like any other.                                *)
SettleRefused(w, r) ==
    /\ task[w][r].pc = "settle"
    /\ ~CanSettle(w, r)
    /\ IF LeaseValid(w, r) THEN Goto(w, r, "fail") ELSE Close(w, r)
    /\ UNCHANGED <<run, attempt, plan, action, lease, retries, disturbances>>

(* The events and audit rows after a committed settlement.                 *)
Report(w, r) ==
    /\ task[w][r].pc = "report"
    /\ Close(w, r)
    /\ UNCHANGED <<run, attempt, plan, action, lease, retries, disturbances>>

(* One of those writes fails.  It is still inside _execute's try.          *)
ReportFails(w, r) ==
    /\ task[w][r].pc = "report"
    /\ Goto(w, r, "fail")
    /\ UNCHANGED <<run, attempt, plan, action, lease, retries, disturbances>>

(* _settle_failure reads.                                                  *)
ReadForFailure(w, r) ==
    /\ task[w][r].pc = "fail"
    /\ ReadForSettlement(w, r, "failSettle")
    /\ UNCHANGED <<run, attempt, plan, action, lease, retries, disturbances>>

(* _settle_failure committed through settle_attempt.  Its own event may    *)
(* fail too, which only skips to the finally block.                        *)
SettleFailure(w, r) ==
    /\ task[w][r].pc = "failSettle"
    /\ CanSettle(w, r)
    /\ SettleAttempt(w, r, "failed")
    /\ ReplaceRun(r, [run[r] EXCEPT !.status = "failed"])
    /\ Close(w, r)
    /\ UNCHANGED <<plan, action, lease, retries, disturbances>>

(* _settle_failure refused: LeaseLostError returns, a conflict escapes.    *)
FailureRefused(w, r) ==
    /\ task[w][r].pc = "failSettle"
    /\ ~CanSettle(w, r)
    /\ Close(w, r)
    /\ UNCHANGED <<run, attempt, plan, action, lease, retries, disturbances>>

(* The finally block of _execute_resource with release_work_lease, and     *)
(* _discard_finished_tasks.                                                *)
Release(w, r) ==
    /\ task[w][r].pc = "closing"
    /\ lease' = IF lease[r].holder = w /\ lease[r].token = task[w][r].token
                THEN [lease EXCEPT ![r].live = FALSE]
                ELSE lease
    /\ Become(w, r, NoTask)
    /\ UNCHANGED <<run, attempt, plan, action, retries, disturbances>>

-----------------------------------------------------------------------------
(* What goes wrong.                                                        *)

Disturb == /\ disturbances < MaxDisturbances
           /\ disturbances' = disturbances + 1

(* The run timeout, a heartbeat that failed closed, or shutdown cancels    *)
(* the task.  _execute re-raises CancelledError and settles nothing.       *)
TaskCancelled(w, r) ==
    /\ task[w][r].pc \notin {"idle", "closing"}
    /\ Disturb
    /\ Close(w, r)
    /\ UNCHANGED <<run, attempt, plan, action, lease, retries>>

(* The Worker process dies and restarts under the same worker_id.          *)
Crash(w) ==
    /\ \E r \in Runs : task[w][r].pc # "idle"
    /\ Disturb
    /\ task' = [task EXCEPT ![w] = [r \in Runs |-> NoTask]]
    /\ UNCHANGED <<run, attempt, plan, action, lease, retries>>

(* Some heartbeat renews the lease; _execute_resource stops it before it   *)
(* releases the lease.                                                     *)
Held(r) == \E w \in Workers : task[w][r].pc \notin {"idle", "closing"} /\ LeaseValid(w, r)

(* CURRENT_TIMESTAMP passes expires_at although a task still relies on the *)
(* lease: _heartbeat was late or stalled.                                  *)
LeaseMissed(r) ==
    /\ Held(r)
    /\ Disturb
    /\ lease' = [lease EXCEPT ![r].live = FALSE]
    /\ UNCHANGED <<run, attempt, plan, action, task, retries>>

(* CURRENT_TIMESTAMP passes expires_at of a lease nobody renews any more.  *)
LeaseLapses(r) ==
    /\ lease[r].live
    /\ ~Held(r)
    /\ lease' = [lease EXCEPT ![r].live = FALSE]
    /\ UNCHANGED <<run, attempt, plan, action, task, retries, disturbances>>

(* Fault: the Run of a dead Worker is queued again.                        *)
InterruptAndReplay(r) ==
    LET n == run[r].active IN
    /\ run[r].status = "running"
    /\ n # 0
    /\ ~lease[r].live
    /\ ReplaceAttempt(r, n, [attempt[r][n] EXCEPT !.status = "interrupted",
                                                  !.dispatch = "unknown"])
    /\ ReplaceRun(r, [run[r] EXCEPT !.status = "queued", !.active = 0])
    /\ UNCHANGED <<plan, action, lease, task, retries, disturbances>>

(* Fault: only Attempts whose prompt was never sent are settled.           *)
InterruptUnsent(r) ==
    LET n == run[r].active IN
    /\ run[r].status = "running"
    /\ n # 0
    /\ attempt[r][n].dispatch = "not_sent"
    /\ ~lease[r].live
    /\ ReplaceAttempt(r, n, [attempt[r][n] EXCEPT !.status = "interrupted"])
    /\ ReplaceRun(r, [run[r] EXCEPT !.status = "failed"])
    /\ UNCHANGED <<plan, action, lease, task, retries, disturbances>>

(* PostgresControlStore.interrupt_expired_attempts for one Run, called by  *)
(* reconcile_expired_worker_leases in every poll of every Worker.          *)
InterruptExpired(r) ==
    LET n == run[r].active IN
    /\ run[r].status = "running"
    /\ n # 0
    /\ attempt[r][n].status = "running"
    /\ ~ /\ lease[r].live
         /\ lease[r].holder = attempt[r][n].worker
         /\ lease[r].token = attempt[r][n].token
    /\ ReplaceAttempt(r, n, [attempt[r][n] EXCEPT !.status = "interrupted",
                                                  !.dispatch = "unknown"])
    /\ ReplaceRun(r, [run[r] EXCEPT !.status = "failed"])
    /\ UNCHANGED <<plan, action, lease, task, retries, disturbances>>

-----------------------------------------------------------------------------

Client(r) ==
    \/ \E phase \in {"direct", "planning"} : Submit(r, phase)
    \/ CancelWaiting(r)
    \/ Cancel(r)
    \/ Retry(r)
    \/ Approve(r)
    \/ Reject(r)

(* Steps a task takes by itself once it runs.                              *)
Execute(w, r) ==
    \/ ReadQueued(w, r)
    \/ BeginAttempt(w, r)
    \/ BeginRefused(w, r)
    \/ Dispatch(w, r)
    \/ Accept(w, r)
    \/ ExecuteFails(w, r)
    \/ Finish(w, r)
    \/ SettleSuccess(w, r)
    \/ SettlePlanning(w, r)
    \/ SettleRefused(w, r)
    \/ Report(w, r)
    \/ ReportFails(w, r)
    \/ ReadForFailure(w, r)
    \/ SettleFailure(w, r)
    \/ FailureRefused(w, r)
    \/ Release(w, r)

Next ==
    \/ \E r \in Runs : Client(r) \/ LeaseMissed(r) \/ LeaseLapses(r) \/ InterruptExpired(r)
    \/ \E w \in Workers : Crash(w)
    \/ \E w \in Workers, r \in Runs :
          Claim(w, r) \/ ClaimAndHandBack(w, r) \/ Execute(w, r) \/ TaskCancelled(w, r)

Spec == Init /\ [][Next]_vars

(* Fairness.  An asyncio task is always resumed, and a DSH call cannot     *)
(* last: _execute_with_timeout bounds it.  Every Worker polls forever      *)
(* (run_forever), reconciling before it claims.  The database clock moves. *)
(* Clients owe nothing, and nothing that goes wrong has to happen.         *)
Fairness ==
    /\ \A w \in Workers, r \in Runs : WF_vars(Execute(w, r))
    /\ \A r \in Runs :
          /\ SF_vars(\E w \in Workers : Claim(w, r))
          /\ WF_vars(LeaseLapses(r))
          /\ WF_vars(InterruptExpired(r))

FairSpec == Spec /\ Fairness

-----------------------------------------------------------------------------
(* Safety.                                                                 *)

(* A RUNNING Run has exactly one RUNNING Attempt, the active and newest    *)
(* one, and no other Run has any: begin_attempt, the settlements, cancel   *)
(* and the reconciler never leave the two tables apart, whichever of them  *)
(* acts last on a Run whose former Worker is still at work.                *)
RunAgreesWithAttempts ==
    \A r \in Runs : \A n \in Numbers :
        attempt[r][n].status = "running"
            <=> /\ run[r].status = "running"
                /\ n = run[r].active
                /\ n = run[r].count

(* No automatic replay: every Attempt but the first was asked for, by a    *)
(* retry or by the approval of the Plan.  Crashes, lost leases and         *)
(* reconciliation open none (README: an interrupted Run is not replayed).  *)
NoAutomaticReplay ==
    \A r \in Runs :
        run[r].count <= 1 + retries[r] + (IF plan[r] = "approved" THEN 1 ELSE 0)

(* One lease grant executes one Attempt: later Attempts carry strictly     *)
(* larger fencing tokens, and no token is ever ahead of the lease row.     *)
OneAttemptPerGrant ==
    \A r \in Runs : \A n \in 1..run[r].count :
        /\ attempt[r][n].token <= lease[r].token
        /\ \A m \in 1..(n - 1) : attempt[r][m].token < attempt[r][n].token

(* Only an approved Plan is ever handed to DSH as a workflow, however      *)
(* cancel, retry and reject interleave with the planning Worker.           *)
OnlyApprovedPlansExecute ==
    \A r \in Runs : \A n \in Numbers :
        attempt[r][n].phase = "executing" => plan[r] = "approved"

(* A rejected Plan stays rejected: its Run can no longer be revived, not   *)
(* even by a late settlement of the planning task.                         *)
RejectedPlanEndsRun ==
    \A r \in Runs : plan[r] = "rejected" => run[r].status = "cancelled"

(* Whoever waits is waited for: a WAITING Run has a pending Plan and a     *)
(* pending RequiredAction.                                                 *)
WaitingHasPendingAction ==
    \A r \in Runs :
        run[r].status = "waiting" =>
            /\ run[r].required
            /\ plan[r] = "pending"
            /\ action[r].status = "pending"

(* The delivery boundary is on record before it is crossed: an Attempt     *)
(* whose dispatch state says NOT_SENT never had its prompt sent.           *)
NotSentMeansNoPrompt ==
    \A w \in Workers, r \in Runs :
        task[w][r].pc \in {"dispatched", "accepted"} =>
            attempt[r][task[w][r].number].dispatch # "not_sent"

(* What the reconciler settled is settled: the fence keeps the Worker that *)
(* was declared dead from overwriting an INTERRUPTED Attempt.              *)
InterruptedIsFinal ==
    [][\A r \in Runs : \A n \in Numbers :
          attempt[r][n].status = "interrupted" => UNCHANGED attempt[r][n]]_vars

(* Liveness under FairSpec.  A RUNNING Run does not stay so, whatever      *)
(* becomes of its Worker: the task, or else the reconciler, settles it.    *)
RunningRunsEnd ==
    \A r \in Runs : run[r].status = "running" ~> run[r].status # "running"

(* A QUEUED Run does not wait for ever behind the lease of a Worker that   *)
(* died, stalled or was cancelled before it began.                         *)
QueuedRunsStart ==
    \A r \in Runs : run[r].status = "queued" ~> run[r].status # "queued"

-----------------------------------------------------------------------------
(* Refinement.  An execution can report from the moment its Attempt begins *)
(* until it closes, as long as its lease is valid.                         *)
CanReport(w, r) ==
    /\ task[w][r].pc \notin {"idle", "claimed", "begin", "closing"}
    /\ LeaseValid(w, r)

Contract == INSTANCE RunContract WITH
    state <- [r \in Runs |-> run[r].status],
    decision <- plan,
    reporting <- [r \in Runs |-> \E w \in Workers : CanReport(w, r)]

(* Every step of Workers, API and reconciler is a step of the contract, or *)
(* none: results come from one execution at a time, and only from the one  *)
(* that holds the lease.                                                   *)
ImplementsContract == Contract!Spec

-----------------------------------------------------------------------------
(* What documents say and the code does not keep.                          *)

(* A retried Run is executed again: it leaves QUEUED by starting an        *)
(* Attempt or by being cancelled (README: retry creates a new Attempt).    *)
RetryStartsAttempt ==
    [][\A r \in Runs :
          run[r].status = "queued" => run'[r].status \in {"queued", "running", "cancelled"}]_vars

(* A Run leaves WAITING by the decision or by cancellation only            *)
(* (docs/required-actions.md: RUNNING -> WAITING -> QUEUED).               *)
WaitingEndsByDecision ==
    [][\A r \in Runs :
          run[r].status = "waiting" => run'[r].status \in {"waiting", "queued", "cancelled"}]_vars

=============================================================================
