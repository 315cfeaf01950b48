-------------------------- MODULE ConversationRuns --------------------------
(***************************************************************************)
(* One Conversation and its Runs in the PostgreSQL deployment: its Runs    *)
(* are Turns of one DSH Session, so they execute one at a time and in the  *)
(* order of their sequence numbers; a Turn may ask its user something and  *)
(* the answer becomes a new Attempt; a cancellation or a failure in the    *)
(* middle of a Turn blocks the Conversation.                               *)
(*                                                                         *)
(* Sources: control/plane.py, store/postgres.py, worker/service.py.        *)
(* No row ever takes a former value again, so that the revision of a row   *)
(* is the one that was read (the guard of every replacement) means that    *)
(* the row is the one that was read; revisions are therefore left out.     *)
(* Conversations share nothing but the capacity of a Worker, so one of     *)
(* them is enough.  The grain of atomicity and what is abstracted are      *)
(* those of RunExecution.  begin_attempt could also be refused by the      *)
(* unique index on active Runs (postgres_migrations.py); ImplementsTurns   *)
(* shows that it never has to be: no Turn starts beside another.           *)
(***************************************************************************)
EXTENDS Naturals, FiniteSets

CONSTANTS
    Workers,          \* worker_ids of the Worker processes
    NoWorker,         \* the absent worker_id
    MaxRuns,          \* bound: Runs submitted to the Conversation
    MaxAsks,          \* bound: user-input requests in the Conversation
    MaxDisturbances   \* bound: crashes, cancelled tasks, missed heartbeats,
                      \* claims handed back and Runs that cannot be built

ASSUME ConstantsAssumption ==
    /\ NoWorker \notin Workers
    /\ MaxRuns \in Nat \ {0}
    /\ MaxAsks \in Nat
    /\ MaxDisturbances \in Nat

VARIABLES
    conv,           \* the row of the conversations table
    run,            \* the Conversation's rows of runs, by sequence
    attempt,        \* their rows of run_attempts, by number
    action,         \* the user_input RequiredAction an Attempt created
    lease,          \* the row of worker_leases, resource_type = 'conversation';
                    \* stalled is history: it has expired under a task
    task,           \* per Worker: the asyncio Task of _execute_resource
    blocker,        \* per Run: an API handler that cancelled it and is still
                    \* to block the Conversation
    disturbances    \* how much of MaxDisturbances is used up

vars == <<conv, run, attempt, action, lease, task, blocker, disturbances>>

-----------------------------------------------------------------------------
Seqs == 1..MaxRuns
MaxAttempts == MaxAsks + 1
Numbers == 1..MaxAttempts
NumberOrNone == 0..MaxAttempts

RunStatus == {"queued", "running", "waiting", "succeeded", "failed", "cancelled"}
TerminalRunStatuses == {"succeeded", "failed", "cancelled"}
AttemptStatus == {"running", "waiting", "succeeded", "failed", "cancelled", "interrupted"}
SettledAttemptStatuses == AttemptStatus \ {"running", "waiting"}
DispatchState == {"not_sent", "dispatching", "accepted", "settled", "unknown"}
RequiredActionStatus == {"pending", "answered", "consumed", "cancelled", "expired"}

RunRecord ==
    [status: RunStatus \cup {"absent"},
     count: NumberOrNone,       \* attempt_count
     active: NumberOrNone,      \* number of active_attempt_id, 0 for None
     required: NumberOrNone]    \* the Attempt that asked, 0 for None

RunAttempt ==
    [status: AttemptStatus \cup {"none"}, dispatch: DispatchState,
     worker: Workers \cup {NoWorker}, token: Nat]

NoRun == [status |-> "absent", count |-> 0, active |-> 0, required |-> 0]

NoAttempt == [status |-> "none", dispatch |-> "not_sent",
              worker |-> NoWorker, token |-> 0]

(* pc of a task:                                                           *)
(*   serve      head of the loop of _serve_conversation                    *)
(*   begin      a QUEUED Run read, begin_attempt not committed             *)
(*   started    Attempt RUNNING, nothing sent to DSH                       *)
(*   dispatched DISPATCHING recorded, prompt handed to DSH                 *)
(*   accepted   first DSH event or result seen                             *)
(*   settle     rows read by _settle_success                               *)
(*   report     settlement committed, event and audit not written yet      *)
(*   fail       an exception is about to enter _settle_failure             *)
(*   failSettle rows read by _settle_failure                               *)
(*   block      about to enter _block_conversation                         *)
(*   blockWrite Conversation read there                                    *)
(*   executed   head of the loop, execute_leased_work has returned True    *)
(*   closing    in the finally block of _execute_resource                  *)
TaskPc == {"idle", "serve", "begin", "started",
           "dispatched", "accepted", "settle", "report", "fail",
           "failSettle", "block", "blockWrite", "executed", "closing"}

Task == [pc: TaskPc, token: Nat, seq: 0..MaxRuns, number: NumberOrNone,
         readRun: RunRecord, readAttempt: RunAttempt, readNext: 0..(MaxRuns + 1)]

NoTask == [pc |-> "idle", token |-> 0, seq |-> 0, number |-> 0,
           readRun |-> NoRun, readAttempt |-> NoAttempt, readNext |-> 0]

NoBlocker == [pc |-> "idle", readNext |-> 0]

TypeOK ==
    /\ conv \in [status: {"active", "blocked"}, next: 1..(MaxRuns + 1)]
    /\ run \in [Seqs -> RunRecord]
    /\ attempt \in [Seqs -> [Numbers -> RunAttempt]]
    /\ action \in [Seqs -> [Numbers -> RequiredActionStatus \cup {"none"}]]
    /\ lease \in [holder: Workers \cup {NoWorker}, token: Nat, live: BOOLEAN,
                 stalled: BOOLEAN]
    /\ task \in [Workers -> Task]
    /\ blocker \in [Seqs -> [pc: {"idle", "block", "blockWrite"}, readNext: 0..(MaxRuns + 1)]]
    /\ disturbances \in 0..MaxDisturbances

(* After ControlPlane.create_conversation.                                 *)
Init ==
    /\ conv = [status |-> "active", next |-> 1]
    /\ run = [s \in Seqs |-> NoRun]
    /\ attempt = [s \in Seqs |-> [n \in Numbers |-> NoAttempt]]
    /\ action = [s \in Seqs |-> [n \in Numbers |-> "none"]]
    /\ lease = [holder |-> NoWorker, token |-> 0, live |-> FALSE, stalled |-> FALSE]
    /\ task = [w \in Workers |-> NoTask]
    /\ blocker = [s \in Seqs |-> NoBlocker]
    /\ disturbances = 0

-----------------------------------------------------------------------------
ReplaceRun(s, row) == run' = [run EXCEPT ![s] = row]

ReplaceAttempt(s, n, row) ==
    attempt' = [attempt EXCEPT ![s][n] = row]

SetAction(s, n, status) == action' = [action EXCEPT ![s][n] = status]

Become(w, t) == task' = [task EXCEPT ![w] = t]

With(status) == {s \in Seqs : run[s].status = status}

-----------------------------------------------------------------------------
(* The API process.                                                        *)

(* ControlPlane.submit_to_conversation with create_conversation_run.       *)
Submit ==
    /\ conv.status = "active"
    /\ conv.next <= MaxRuns
    /\ With("waiting") = {}
    /\ run' = [run EXCEPT ![conv.next] = [NoRun EXCEPT !.status = "queued"]]
    /\ conv' = [conv EXCEPT !.next = @ + 1]
    /\ UNCHANGED <<attempt, action, lease, task, blocker, disturbances>>

(* What ControlPlane.cancel does not refuse.                               *)
Cancellable(s) ==
    /\ run[s].status \notin TerminalRunStatuses \cup {"absent"}
    /\ run[s].required # 0 => action[s][run[s].required] = "pending"

(* cancel of a Run that is not executing: no Attempt to settle, nothing to *)
(* reconcile with DSH.                                                     *)
CancelQueued(s) ==
    /\ Cancellable(s)
    /\ run[s].required = 0
    /\ run[s].active = 0
    /\ ReplaceRun(s, [run[s] EXCEPT !.status = "cancelled"])
    /\ UNCHANGED <<conv, attempt, action, lease, task, blocker, disturbances>>

(* cancel of a Run that waits for its user: one settle_attempt transaction *)
(* for Run, Attempt and RequiredAction.                                    *)
CancelWaiting(s) ==
    LET n == run[s].required IN
    /\ Cancellable(s)
    /\ n # 0
    /\ ReplaceRun(s, [run[s] EXCEPT !.status = "cancelled", !.active = 0, !.required = 0])
    /\ ReplaceAttempt(s, n, [attempt[s][n] EXCEPT !.status = "cancelled",
                                                  !.dispatch = "settled"])
    /\ SetAction(s, n, "cancelled")
    /\ UNCHANGED <<conv, lease, task, blocker, disturbances>>

(* Fault: the Attempt is left to its Worker.                               *)
CancelRunOnly(s) ==
    /\ Cancellable(s)
    /\ run[s].required = 0
    /\ run[s].active # 0
    /\ ReplaceRun(s, [run[s] EXCEPT !.status = "cancelled"])
    /\ blocker' = [blocker EXCEPT ![s].pc = "block"]
    /\ UNCHANGED <<conv, attempt, action, lease, task, disturbances>>

(* cancel of an executing Run: Run and Attempt first; the handler goes on  *)
(* to block the Conversation.  It cannot reach the Worker's task.          *)
CancelRunning(s) ==
    LET n == run[s].active IN
    /\ Cancellable(s)
    /\ run[s].required = 0
    /\ n # 0
    /\ ReplaceRun(s, [run[s] EXCEPT !.status = "cancelled"])
    /\ IF attempt[s][n].status \in SettledAttemptStatuses
       THEN UNCHANGED attempt
       ELSE ReplaceAttempt(s, n, [attempt[s][n] EXCEPT !.status = "cancelled",
                                                       !.dispatch = "settled"])
    /\ blocker' = [blocker EXCEPT ![s].pc = "block"]
    /\ UNCHANGED <<conv, action, lease, task, disturbances>>

(* ControlPlane._block_conversation, called by the cancel handler: it      *)
(* reads the Conversation, writes it back BLOCKED, and raises if its       *)
(* revision has moved.                                                     *)
CancelReads(s) ==
    /\ blocker[s].pc = "block"
    /\ blocker' = [blocker EXCEPT ![s] =
                      IF conv.status = "active"
                      THEN [pc |-> "blockWrite", readNext |-> conv.next]
                      ELSE NoBlocker]
    /\ UNCHANGED <<conv, run, attempt, action, lease, task, disturbances>>

CancelBlocks(s) ==
    /\ blocker[s].pc = "blockWrite"
    /\ conv = [status |-> "active", next |-> blocker[s].readNext]
    /\ conv' = [conv EXCEPT !.status = "blocked"]
    /\ blocker' = [blocker EXCEPT ![s] = NoBlocker]
    /\ UNCHANGED <<run, attempt, action, lease, task, disturbances>>

CancelBlockRefused(s) ==
    /\ blocker[s].pc = "blockWrite"
    /\ conv # [status |-> "active", next |-> blocker[s].readNext]
    /\ blocker' = [blocker EXCEPT ![s] = NoBlocker]
    /\ UNCHANGED <<conv, run, attempt, action, lease, task, disturbances>>

(* The checks of ControlPlane.resume on stored state.                      *)
Resumable(s) ==
    /\ run[s].status = "waiting"
    /\ run[s].required # 0
    /\ action[s][run[s].required] = "pending"

(* resume with an answer: answer_required_action.                          *)
Answer(s) ==
    /\ Resumable(s)
    /\ ReplaceRun(s, [run[s] EXCEPT !.status = "queued", !.active = 0])
    /\ SetAction(s, run[s].required, "answered")
    /\ UNCHANGED <<conv, attempt, lease, task, blocker, disturbances>>

(* resume after expires_at: the request is refused, and the Run ends.      *)
Expire(s) ==
    LET n == run[s].required IN
    /\ Resumable(s)
    /\ run[s].active = n
    /\ ReplaceRun(s, [run[s] EXCEPT !.status = "cancelled", !.active = 0, !.required = 0])
    /\ ReplaceAttempt(s, n, [attempt[s][n] EXCEPT !.status = "cancelled",
                                                  !.dispatch = "settled"])
    /\ SetAction(s, n, "expired")
    /\ UNCHANGED <<conv, lease, task, blocker, disturbances>>

-----------------------------------------------------------------------------
(* Owning the Conversation.                                                *)

(* Fault: the Runs are sorted the other way round.                         *)
Last == CHOOSE s \in With("queued") : \A t \in With("queued") : s >= t

(* The QUEUED Run with the lowest sequence.                                *)
First == CHOOSE s \in With("queued") : \A t \in With("queued") : s <= t

(* Something to execute and nothing that holds it up.                      *)
Runnable == With("queued") # {} /\ With("running") \cup With("waiting") = {}

(* Fault: the lease row is taken over whether or not it has expired.       *)
ClaimableAnyway == conv.status = "active" /\ Runnable

(* Fault: a Conversation is claimed only while it has no lease row at all. *)
ClaimableOnce == conv.status = "active" /\ Runnable /\ lease.holder = NoWorker

(* What PostgresControlStore.claim_work looks for.                         *)
Claimable ==
    /\ conv.status = "active"
    /\ Runnable
    /\ ~lease.live

(* WorkerService._claim_available_work: a task that serves the             *)
(* Conversation until it is idle, blocked or waiting.                      *)
Claim(w) ==
    /\ Claimable
    /\ task[w].pc = "idle"
    /\ lease' = [lease EXCEPT !.holder = w, !.token = @ + 1, !.live = TRUE]
    /\ Become(w, [NoTask EXCEPT !.pc = "serve", !.token = lease.token + 1])
    /\ UNCHANGED <<conv, run, attempt, action, blocker, disturbances>>

Disturb == /\ disturbances < MaxDisturbances
           /\ disturbances' = disturbances + 1

(* The Worker still has a task for the Conversation, whose lease is gone:  *)
(* the new lease is handed back.                                           *)
ClaimAndHandBack(w) ==
    /\ Claimable
    /\ task[w].pc # "idle"
    /\ Disturb
    /\ lease' = [lease EXCEPT !.holder = w, !.token = @ + 1, !.live = FALSE]
    /\ UNCHANGED <<conv, run, attempt, action, task, blocker>>

(* PostgresControlStore._assert_lease.                                     *)
LeaseValid(w) ==
    /\ lease.live
    /\ lease.holder = w
    /\ lease.token = task[w].token

Goto(w, pc) ==
    Become(w, [task[w] EXCEPT !.pc = pc, !.readRun = NoRun,
                              !.readAttempt = NoAttempt, !.readNext = 0])

(* execute_leased_work returns; the loop of _serve_conversation goes on.   *)
Return(w, pc) == Become(w, [NoTask EXCEPT !.pc = pc, !.token = task[w].token])

Close(w) == Return(w, "closing")

(* One turn of the loop of _serve_conversation up to the QUEUED check of   *)
(* _execute_conversation_run: the loop ends unless the Conversation is     *)
(* ACTIVE, or when an execution left a Run WAITING, or after a time with   *)
(* nothing to execute; otherwise the first QUEUED Run is taken.  These     *)
(* reads are one step, because only begin_attempt acts on them.            *)
Serve(w) ==
    /\ task[w].pc \in {"serve", "executed"}
    /\ LET over == \/ conv.status # "active"
                   \/ task[w].pc = "executed" /\ With("waiting") # {}
       IN  \/ over /\ Close(w)
           \/ ~over /\ ~Runnable /\ (Return(w, "serve") \/ Close(w))
           \/ /\ ~over
              /\ Runnable
              /\ Become(w, [task[w] EXCEPT !.pc = "begin", !.seq = First,
                                           !.readRun = run[First],
                                           !.number = run[First].count + 1])
    /\ UNCHANGED <<conv, run, attempt, action, lease, blocker, disturbances>>

(* The Agent is not registered, or not with the Conversation's fingerprint,*)
(* or a row cannot be read: there is no Run and Attempt to settle yet.     *)
BuildFails(w) ==
    /\ task[w].pc \in {"serve", "executed"}
    /\ conv.status = "active"
    /\ Runnable
    /\ Disturb
    /\ Goto(w, "block")
    /\ UNCHANGED <<conv, run, attempt, action, lease, blocker>>

-----------------------------------------------------------------------------
(* Executing: ControlPlane._execute_conversation_run.                      *)

(* Fault: the answer is not marked CONSUMED.                               *)
BeginUnconsumed(w) ==
    LET s == task[w].seq  n == task[w].number IN
    /\ task[w].pc = "begin"
    /\ LeaseValid(w)
    /\ run[s] = task[w].readRun
    /\ ReplaceRun(s, [run[s] EXCEPT !.status = "running", !.count = n,
                                    !.active = n, !.required = 0])
    /\ attempt' = [attempt EXCEPT ![s][n] =
                      [NoAttempt EXCEPT !.status = "running", !.worker = w,
                                        !.token = task[w].token]]
    /\ Goto(w, "started")
    /\ UNCHANGED <<conv, action, lease, blocker, disturbances>>

(* begin_attempt: Attempt, Run and, for a continuation, the answer it      *)
(* consumes.  The status of the Conversation is not looked at again.       *)
BeginAttempt(w) ==
    LET s == task[w].seq  n == task[w].number IN
    /\ task[w].pc = "begin"
    /\ LeaseValid(w)
    /\ run[s] = task[w].readRun
    /\ ReplaceRun(s, [run[s] EXCEPT !.status = "running", !.count = n,
                                    !.active = n, !.required = 0])
    /\ attempt' = [attempt EXCEPT ![s][n] =
                      [NoAttempt EXCEPT !.status = "running", !.worker = w,
                                        !.token = task[w].token]]
    /\ IF run[s].required = 0
       THEN UNCHANGED action
       ELSE SetAction(s, run[s].required, "consumed")
    /\ Goto(w, "started")
    /\ UNCHANGED <<conv, lease, blocker, disturbances>>

(* begin_attempt refused, for a lost lease or for a revision.              *)
BeginRefused(w) ==
    /\ task[w].pc = "begin"
    /\ \/ ~LeaseValid(w) /\ Return(w, "executed")
       \/ /\ LeaseValid(w)
          /\ run[task[w].seq] # task[w].readRun
          /\ Goto(w, "fail")
    /\ UNCHANGED <<conv, run, attempt, action, lease, blocker, disturbances>>

(* _set_dispatch_state: nothing for an Attempt that was settled meanwhile, *)
(* LeaseLostError returns from the execution.                              *)
SetDispatchState(w, state, pc) ==
    LET s == task[w].seq  n == task[w].number IN
    \/ /\ attempt[s][n].status # "running"
       /\ Goto(w, pc)
       /\ UNCHANGED attempt
    \/ /\ attempt[s][n].status = "running"
       /\ LeaseValid(w)
       /\ ReplaceAttempt(s, n, [attempt[s][n] EXCEPT !.dispatch = state])
       /\ Goto(w, pc)
    \/ /\ attempt[s][n].status = "running"
       /\ ~LeaseValid(w)
       /\ Return(w, "executed")
       /\ UNCHANGED attempt

(* DISPATCHING, then runtime.run.                                          *)
Dispatch(w) ==
    /\ task[w].pc = "started"
    /\ SetDispatchState(w, "dispatching", "dispatched")
    /\ UNCHANGED <<conv, run, action, lease, blocker, disturbances>>

Accept(w) ==
    /\ task[w].pc = "dispatched"
    /\ SetDispatchState(w, "accepted", "accepted")
    /\ UNCHANGED <<conv, run, action, lease, blocker, disturbances>>

(* The ask_user Tool: enter_required_action in request_user_input commits. *)
(* This runs in the handler of the MCP call, a Task of its own, so the     *)
(* Turn may meanwhile stand anywhere after the prompt was sent.  (Where    *)
(* the task is closing, the commit comes to the same as one just before.)  *)
(* A transaction that is refused changes nothing.                          *)
AskUser(w) ==
    LET s == task[w].seq  n == task[w].number IN
    /\ task[w].pc \in {"dispatched", "accepted", "settle", "fail", "failSettle"}
    /\ Cardinality({q \in Seqs \X Numbers : action[q[1]][q[2]] # "none"}) < MaxAsks
    /\ LeaseValid(w)
    /\ run[s].status = "running"
    /\ run[s].active = n
    /\ attempt[s][n].status = "running"
    /\ attempt[s][n].dispatch # "not_sent"
    /\ ReplaceRun(s, [run[s] EXCEPT !.status = "waiting", !.required = n])
    /\ ReplaceAttempt(s, n, [attempt[s][n] EXCEPT !.status = "waiting",
                                                  !.dispatch = "settled"])
    /\ SetAction(s, n, "pending")
    /\ UNCHANGED <<conv, lease, task, blocker, disturbances>>

(* The Turn is over, completed or not, and pending_action is set: nothing  *)
(* is settled.  pending_action is set after the commit, unless its answer  *)
(* is lost or the call times out first; so a Turn that has asked may end   *)
(* here or in Finish and ExecuteFails, which do not know of the question.  *)
AskedTurnEnds(w) ==
    /\ task[w].pc \in {"dispatched", "accepted", "fail"}
    /\ action[task[w].seq][task[w].number] # "none"
    /\ Return(w, "executed")
    /\ UNCHANGED <<conv, run, attempt, action, lease, blocker, disturbances>>

(* Anything that raises before the settlement.                             *)
ExecuteFails(w) ==
    /\ task[w].pc \in {"started", "dispatched", "accepted"}
    /\ Goto(w, "fail")
    /\ UNCHANGED <<conv, run, attempt, action, lease, blocker, disturbances>>

-----------------------------------------------------------------------------
(* Settling.                                                               *)

ReadRows(w, pc) ==
    LET s == task[w].seq  n == task[w].number IN
    Become(w, [task[w] EXCEPT !.pc = pc, !.readRun = run[s],
                              !.readAttempt = attempt[s][n]])

(* Fault: CANCELLED is not looked for.                                     *)
FinishUnchecked(w) ==
    /\ task[w].pc = "accepted"
    /\ ReadRows(w, "settle")
    /\ UNCHANGED <<conv, run, attempt, action, lease, blocker, disturbances>>

(* The DSH Turn completed: _settle_success reads.  Only CANCELLED stops it,*)
(* not WAITING, nor QUEUED with an answer.                                 *)
Finish(w) ==
    /\ task[w].pc = "accepted"
    /\ IF run[task[w].seq].status = "cancelled"
       THEN Return(w, "executed")
       ELSE ReadRows(w, "settle")
    /\ UNCHANGED <<conv, run, attempt, action, lease, blocker, disturbances>>

(* No conflict at the write of a settlement.                               *)
Unchanged(w) ==
    LET t == task[w] IN
    /\ run[t.seq] = t.readRun
    /\ attempt[t.seq][t.number] = t.readAttempt

(* settle_attempt.                                                         *)
Settle(w, status) ==
    LET s == task[w].seq  n == task[w].number IN
    /\ LeaseValid(w)
    /\ Unchanged(w)
    /\ ReplaceRun(s, [run[s] EXCEPT !.status = status])
    /\ ReplaceAttempt(s, n, [attempt[s][n] EXCEPT !.status = status, !.dispatch = "settled"])

SettleSuccess(w) ==
    /\ task[w].pc = "settle"
    /\ Settle(w, "succeeded")
    /\ Goto(w, "report")
    /\ UNCHANGED <<conv, action, lease, blocker, disturbances>>

SettleRefused(w) ==
    /\ task[w].pc = "settle"
    /\ \/ ~LeaseValid(w) /\ Return(w, "executed")
       \/ LeaseValid(w) /\ ~Unchanged(w) /\ Goto(w, "fail")
    /\ UNCHANGED <<conv, run, attempt, action, lease, blocker, disturbances>>

(* The event and the audit row after the commit, or one of them fails.     *)
Report(w) ==
    /\ task[w].pc = "report"
    /\ \/ Return(w, "executed")
       \/ Goto(w, "fail")
    /\ UNCHANGED <<conv, run, attempt, action, lease, blocker, disturbances>>

(* _settle_failure reads.  It returns for a CANCELLED Run, and raises for  *)
(* an Attempt that begin_attempt rolled back.                              *)
ReadForFailure(w) ==
    LET s == task[w].seq  n == task[w].number IN
    /\ task[w].pc = "fail"
    /\ IF run[s].status = "cancelled" THEN Goto(w, "block")
       ELSE IF attempt[s][n].status = "none" THEN Close(w)
       ELSE ReadRows(w, "failSettle")
    /\ UNCHANGED <<conv, run, attempt, action, lease, blocker, disturbances>>

(* settle_attempt in _settle_failure; its event may fail afterwards, which *)
(* leaves the Conversation ACTIVE.                                         *)
SettleFailure(w) ==
    /\ task[w].pc = "failSettle"
    /\ Settle(w, "failed")
    /\ Goto(w, "block") \/ Close(w)
    /\ UNCHANGED <<conv, action, lease, blocker, disturbances>>

FailureRefused(w) ==
    /\ task[w].pc = "failSettle"
    /\ \/ ~LeaseValid(w) /\ Return(w, "executed")
       \/ LeaseValid(w) /\ ~Unchanged(w) /\ Close(w)
    /\ UNCHANGED <<conv, run, attempt, action, lease, blocker, disturbances>>

(* _block_conversation after a failure; no lease guards it.                *)
ReadForBlock(w) ==
    /\ task[w].pc = "block"
    /\ IF conv.status = "active"
       THEN Become(w, [task[w] EXCEPT !.pc = "blockWrite", !.readNext = conv.next])
       ELSE Return(w, "executed")
    /\ UNCHANGED <<conv, run, attempt, action, lease, blocker, disturbances>>

Block(w) ==
    /\ task[w].pc = "blockWrite"
    /\ conv = [status |-> "active", next |-> task[w].readNext]
    /\ conv' = [conv EXCEPT !.status = "blocked"]
    /\ Return(w, "executed")
    /\ UNCHANGED <<run, attempt, action, lease, blocker, disturbances>>

BlockRefused(w) ==
    /\ task[w].pc = "blockWrite"
    /\ conv # [status |-> "active", next |-> task[w].readNext]
    /\ Close(w)
    /\ UNCHANGED <<conv, run, attempt, action, lease, blocker, disturbances>>

(* The finally block of _execute_resource.                                 *)
Release(w) ==
    /\ task[w].pc = "closing"
    /\ lease' = IF lease.holder = w /\ lease.token = task[w].token
                THEN [lease EXCEPT !.live = FALSE]
                ELSE lease
    /\ Become(w, NoTask)
    /\ UNCHANGED <<conv, run, attempt, action, blocker, disturbances>>

-----------------------------------------------------------------------------
(* What goes wrong.                                                        *)

(* Shutdown, the time-out or a heartbeat that failed closed cancels the    *)
(* task: _execute_conversation_run re-raises and settles nothing.          *)
TaskCancelled(w) ==
    /\ task[w].pc \notin {"idle", "closing"}
    /\ Disturb
    /\ Close(w)
    /\ UNCHANGED <<conv, run, attempt, action, lease, blocker>>

(* The heartbeat finds the lease gone and cancels the task.                *)
LostLeaseNoticed(w) ==
    /\ task[w].pc \notin {"idle", "closing"}
    /\ ~LeaseValid(w)
    /\ Close(w)
    /\ UNCHANGED <<conv, run, attempt, action, lease, blocker, disturbances>>

WorkerCrash(w) ==
    /\ task[w].pc # "idle"
    /\ Disturb
    /\ Become(w, NoTask)
    /\ UNCHANGED <<conv, run, attempt, action, lease, blocker>>

(* An API process dies with a cancel handler between its transactions.     *)
ApiCrash(s) ==
    /\ blocker[s].pc # "idle"
    /\ Disturb
    /\ blocker' = [blocker EXCEPT ![s] = NoBlocker]
    /\ UNCHANGED <<conv, run, attempt, action, lease, task>>

(* Some heartbeat renews the lease; closing stops it before the runtime is *)
(* closed and the lease released.                                          *)
Held == \E w \in Workers : task[w].pc \notin {"idle", "closing"} /\ LeaseValid(w)

(* expires_at passes under a task: its Worker stalled longer than the      *)
(* lease lasts.                                                            *)
LeaseMissed ==
    /\ Held
    /\ Disturb
    /\ lease' = [lease EXCEPT !.live = FALSE, !.stalled = TRUE]
    /\ UNCHANGED <<conv, run, attempt, action, task, blocker>>

LeaseLapses ==
    /\ lease.live
    /\ ~Held
    /\ lease' = [lease EXCEPT !.live = FALSE]
    /\ UNCHANGED <<conv, run, attempt, action, task, blocker, disturbances>>

(* Fault: only Attempts whose prompt was never sent are settled.           *)
InterruptUnsent(s) ==
    LET n == run[s].active IN
    /\ run[s].status = "running"
    /\ n # 0
    /\ attempt[s][n].dispatch = "not_sent"
    /\ ~lease.live
    /\ ReplaceAttempt(s, n, [attempt[s][n] EXCEPT !.status = "interrupted"])
    /\ ReplaceRun(s, [run[s] EXCEPT !.status = "failed"])
    /\ UNCHANGED <<conv, action, lease, task, blocker, disturbances>>

(* PostgresControlStore.interrupt_expired_attempts: the Conversation stays *)
(* ACTIVE.                                                                 *)
InterruptExpired(s) ==
    LET n == run[s].active IN
    /\ run[s].status = "running"
    /\ n # 0
    /\ attempt[s][n].status = "running"
    /\ ~ /\ lease.live
         /\ lease.holder = attempt[s][n].worker
         /\ lease.token = attempt[s][n].token
    /\ ReplaceAttempt(s, n, [attempt[s][n] EXCEPT !.status = "interrupted",
                                                  !.dispatch = "unknown"])
    /\ ReplaceRun(s, [run[s] EXCEPT !.status = "failed"])
    /\ UNCHANGED <<conv, action, lease, task, blocker, disturbances>>

-----------------------------------------------------------------------------

Client ==
    \/ Submit
    \/ \E s \in Seqs :
          CancelQueued(s) \/ CancelWaiting(s) \/ CancelRunning(s) \/ Answer(s) \/ Expire(s)

(* A cancel handler after its first transaction.                           *)
FinishCancel(s) == CancelReads(s) \/ CancelBlocks(s) \/ CancelBlockRefused(s)

(* Steps a task takes by itself; it never owes a question to the user.     *)
Execute(w) ==
    \/ Serve(w)
    \/ BeginAttempt(w) \/ BeginRefused(w)
    \/ Dispatch(w) \/ Accept(w) \/ AskedTurnEnds(w) \/ ExecuteFails(w)
    \/ Finish(w) \/ SettleSuccess(w) \/ SettleRefused(w) \/ Report(w)
    \/ ReadForFailure(w) \/ SettleFailure(w) \/ FailureRefused(w)
    \/ ReadForBlock(w) \/ Block(w) \/ BlockRefused(w)
    \/ Release(w)

Next ==
    \/ Client
    \/ \E s \in Seqs : FinishCancel(s) \/ ApiCrash(s) \/ InterruptExpired(s)
    \/ \E w \in Workers :
          \/ Claim(w) \/ ClaimAndHandBack(w)
          \/ Execute(w) \/ AskUser(w) \/ BuildFails(w)
          \/ TaskCancelled(w) \/ LostLeaseNoticed(w) \/ WorkerCrash(w)
    \/ LeaseMissed
    \/ LeaseLapses

Spec == Init /\ [][Next]_vars

(* Fairness, as in RunExecution: tasks and handlers are resumed, Workers   *)
(* poll, reconcile and claim for ever, heartbeats run and leases expire.   *)
(* A task that polls for ever between two steps of others is still         *)
(* resumed, so its loop needs no more than weak fairness.                  *)
Fairness ==
    /\ \A w \in Workers : WF_vars(Execute(w)) /\ WF_vars(LostLeaseNoticed(w))
    /\ \A s \in Seqs : WF_vars(FinishCancel(s)) /\ WF_vars(InterruptExpired(s))
    /\ SF_vars(\E w \in Workers : Claim(w))
    /\ WF_vars(LeaseLapses)

FairSpec == Spec /\ Fairness

-----------------------------------------------------------------------------
(* Safety.                                                                 *)

(* A Turn whose Worker did not hear that its question was stored has       *)
(* settled its Run all the same.                                           *)
Overlooked(s, n) ==
    /\ run[s].status \in {"succeeded", "failed"}
    /\ attempt[s][n].status = run[s].status

(* Runs, Attempts and RequiredActions tell one story: the RUNNING Attempt  *)
(* is the newest one of a RUNNING Run; a WAITING Run, and no other, has a  *)
(* pending question, and a QUEUED Run that points to an action its answer; *)
(* both are those of the newest Attempt.  Cancellation, expiry, crash and  *)
(* the reconciler never leave a question or an answer behind: only the     *)
(* Turn that asked can, by settling its Run without looking.               *)
TablesAgree ==
    \A s \in Seqs :
        /\ run[s].status = "waiting" => run[s].required # 0
        /\ \A n \in Numbers :
              /\ attempt[s][n].status = "running"
                    <=> run[s].status = "running" /\ n = run[s].active /\ n = run[s].count
              /\ run[s].status = "waiting" /\ n = run[s].required => action[s][n] = "pending"
              /\ run[s].status = "queued" /\ n = run[s].required => action[s][n] = "answered"
              /\ action[s][n] = "pending" =>
                    /\ n = run[s].required /\ n = run[s].active /\ n = run[s].count
                    /\ run[s].status = "waiting" \/ Overlooked(s, n)
              /\ action[s][n] = "answered" =>
                    /\ n = run[s].required /\ n = run[s].count
                    /\ run[s].status = "queued" \/ Overlooked(s, n)

(* Every answer opens exactly one Attempt, and nothing else opens a second *)
(* one: an interrupted or failed Turn is never sent again.                 *)
EachAnswerOneTurn ==
    \A s \in Seqs : \A n \in 1..MaxAsks :
        attempt[s][n + 1].status # "none" <=> action[s][n] = "consumed"

(* A Turn is under way in the DSH Session.                                 *)
Prompting(w) == task[w].pc \in {"dispatched", "accepted"}

(* One Session never has two prompts at once (conversation-session-v0.2.md,*)
(* section 13, item 3), whatever crashes, times out or is cancelled, as    *)
(* long as no Worker has stalled for longer than its lease: the lease      *)
(* fences the database, not DSH.                                           *)
OnePrompt ==
    ~lease.stalled => \A v, w \in Workers : Prompting(v) /\ Prompting(w) => v = w

(* A Turn is over for good: no later step gives a settled Run or Attempt   *)
(* another outcome, except that a failure to report turns success into     *)
(* failure.                                                                *)
SettledTurnsStay ==
    [][\A s \in Seqs :
          /\ run[s].status \in {"failed", "cancelled"} => run'[s] = run[s]
          /\ run[s].status = "succeeded" => run'[s].status \in {"succeeded", "failed"}
          /\ \A n \in Numbers :
                attempt[s][n].status \in {"cancelled", "failed", "interrupted"}
                    => attempt'[s][n] = attempt[s][n]]_vars

-----------------------------------------------------------------------------
(* Liveness under FairSpec.                                                *)

(* A RUNNING Run ends, or waits for its user.                              *)
RunningRunsEnd ==
    \A s \in Seqs : run[s].status = "running" ~> run[s].status # "running"

(* A QUEUED Run starts or is cancelled, unless the Conversation is blocked *)
(* or some Run of it waits for its user.                                   *)
QueuedRunsStart ==
    \A s \in Seqs :
        run[s].status = "queued"
            ~> run[s].status # "queued" \/ conv.status = "blocked" \/ With("waiting") # {}

(* An answer is delivered to a new Attempt, whatever became of the Worker  *)
(* that asked, unless the Conversation is blocked or the Turn that asked   *)
(* has settled its Run without looking.                                    *)
AnswersAreDelivered ==
    \A s \in Seqs : \A n \in 1..MaxAsks :
        action[s][n] = "answered"
            ~> action[s][n] = "consumed" \/ conv.status = "blocked" \/ Overlooked(s, n)

(* A Run cancelled while it executed blocks the Conversation               *)
(* (conversation-session-v0.2.md, 9.2).                                    *)
CancelledTurnBlocks ==
    \A s \in Seqs : blocker[s].pc # "idle" ~> conv.status = "blocked"

-----------------------------------------------------------------------------
(* Refinement.                                                             *)

Turns == INSTANCE TurnQueue WITH
    Seqs <- Seqs,
    turn <- [s \in Seqs |->
                CASE run[s].status \in TerminalRunStatuses -> "ended"
                  [] run[s].status = "running" -> "active"
                  [] run[s].status = "waiting" -> "suspended"
                  [] OTHER -> run[s].status],
    open <- conv.status = "active"

(* The Conversation is a queue of Turns: first come, first served, one at  *)
(* a time, with the Turn that asked its user in front of the others.       *)
ImplementsTurns == Turns!Spec

-----------------------------------------------------------------------------
(* What documents say and the code does not keep.                          *)

(* A blocked Conversation starts no Run (5.3).                             *)
BlockedStartsNothing ==
    [][\A s \in Seqs : conv.status = "blocked" /\ run[s].status # "running"
                          => run'[s].status # "running"]_vars

(* A Run that waits for its user goes on only when it is answered, and     *)
(* then runs again (required-actions.md, line 133), unless it is cancelled.*)
WaitingRunsGoOn ==
    [][\A s \in Seqs :
          /\ run[s].status = "waiting" => run'[s].status \in {"waiting", "queued", "cancelled"}
          /\ run[s].status = "queued" /\ run[s].required # 0
                => run'[s].status \in {"queued", "running"}]_vars

(* Cancelling a Run that was not delivered leaves the queue going (9.2):   *)
(* only the end of a Run that had an Attempt blocks the Conversation.      *)
BlockedByAttempt ==
    conv.status = "blocked" =>
        \E s \in Seqs : run[s].status \in {"failed", "cancelled"} /\ run[s].count > 0

=============================================================================
