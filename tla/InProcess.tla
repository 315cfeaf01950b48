------------------------------ MODULE InProcess ------------------------------
(***************************************************************************)
(* The control plane in one process (auto_execute=True with SQLite): it    *)
(* executes its Runs itself, in asyncio Tasks.  There is one Task per      *)
(* standalone Run and one per Conversation; a request that queues a Run    *)
(* makes sure that a Task will look at it, and a restart settles what the  *)
(* last process left RUNNING.                                              *)
(*                                                                         *)
(* Sources: control/plane.py, store/sqlite.py, adapters/dsh/runtime.py.    *)
(*                                                                         *)
(* Grain.  SqliteControlStore never suspends, so code between two awaits   *)
(* of something else (a gateway that starts, a runtime that runs or        *)
(* closes) is one step, however many transactions it makes; there are no   *)
(* revision conflicts.  Attempts are settled with their Runs and nothing   *)
(* here depends on them.  The database does not fail, and the Agent of a   *)
(* standalone Run is the registered one.  ControlPlane.close is a Restart  *)
(* preceded by failing executions.                                         *)
(***************************************************************************)
EXTENDS Naturals, FiniteSets

CONSTANTS
    Runs,           \* run_ids of the standalone Runs
    MaxRuns,        \* bound: Runs submitted to the Conversation
    MaxRetries,     \* bound: retries per standalone Run
    MaxAsks,        \* bound: user-input requests in the Conversation
    MaxRestarts     \* bound: restarts of the process

ASSUME ConstantsAssumption ==
    /\ MaxRuns \in Nat \ {0}
    /\ {MaxRetries, MaxAsks, MaxRestarts} \subseteq Nat

VARIABLES
    run,            \* the rows of runs without a Conversation
    task,           \* _tasks: the Task of _execute
    deferred,       \* _deferred_schedules, and who holds the entry
    closing,        \* cancel handlers that await runtime.close()
    conv,           \* status of the Conversation
    turn,           \* the Conversation's rows of runs, by sequence
    drain,          \* _conversation_tasks: the Task of _drain_conversation
    spent           \* how much of each bound is used up

runVars == <<run, task, deferred, closing>>
convVars == <<conv, turn, drain>>
vars == <<run, task, deferred, closing, conv, turn, drain, spent>>

-----------------------------------------------------------------------------
Seqs == 1..MaxRuns

RunStatus == {"queued", "running", "waiting", "succeeded", "failed", "cancelled"}
TerminalRunStatuses == {"succeeded", "failed", "cancelled"}
RunPhase == {"direct", "planning", "waiting_approval", "executing"}

RunRecord == [status: RunStatus \cup {"absent"}, phase: RunPhase,
              plan: {"none", "pending", "approved", "rejected"}]

(* pc of a Task of _execute:                                               *)
(*   new      created, not started                                         *)
(*   setup    Attempt begun, awaiting the start of a gateway               *)
(*   turn     awaiting runtime.run or execute_workflow; the runtime is in  *)
(*            _active_runtimes                                             *)
(*   cleanup  in the finally block, awaiting runtime.close()               *)
(* cancelled: Task.cancel() was called, CancelledError not yet raised.     *)
Task == [pc: {"idle", "new", "setup", "turn", "cleanup"}, cancelled: BOOLEAN]
NoTask == [pc |-> "idle", cancelled |-> FALSE]
NewTask == [NoTask EXCEPT !.pc = "new"]

(* A row of the Conversation; question is its RequiredAction.              *)
TurnRecord == [status: RunStatus \cup {"absent"},
               question: {"none", "pending", "answered"}]

(* pc of the Task of _drain_conversation: loop is the head of its loop     *)
(* (or not started), discard awaits _discard_conversation_runtime.  A Task *)
(* that replaces another has the other generation.                         *)
Drain == [pc: {"idle", "loop", "setup", "turn", "discard"}, seq: 0..MaxRuns,
          asked: BOOLEAN, cancelled: BOOLEAN, generation: 0..1]
NoDrain == [pc |-> "idle", seq |-> 0, asked |-> FALSE, cancelled |-> FALSE,
            generation |-> 0]
NewDrain == [NoDrain EXCEPT !.pc = "loop"]

TypeOK ==
    /\ run \in [Runs -> RunRecord]
    /\ task \in [Runs -> Task]
    /\ deferred \in [Runs -> {"no", "callback", "due"}]
    /\ closing \in [Runs -> 0..(MaxRetries + 1)]
    /\ conv \in {"active", "blocked"}
    /\ turn \in [Seqs -> TurnRecord]
    /\ drain \in Drain
    /\ spent \in [retries: [Runs -> 0..MaxRetries], asks: 0..MaxAsks,
                  restarts: 0..MaxRestarts]

Init ==
    /\ run = [r \in Runs |-> [status |-> "absent", phase |-> "direct", plan |-> "none"]]
    /\ task = [r \in Runs |-> NoTask]
    /\ deferred = [r \in Runs |-> "no"]
    /\ closing = [r \in Runs |-> 0]
    /\ conv = "active"
    /\ turn = [s \in Seqs |-> [status |-> "absent", question |-> "none"]]
    /\ drain = NoDrain
    /\ spent = [retries |-> [r \in Runs |-> 0], asks |-> 0, restarts |-> 0]

-----------------------------------------------------------------------------
(* Scheduling standalone Runs.                                             *)

(* ControlPlane._schedule: a Task, or a callback on the end of the present *)
(* one unless the Run is in _deferred_schedules already.                   *)
Schedule(r) ==
    IF task[r].pc = "idle"
    THEN task' = [task EXCEPT ![r] = NewTask] /\ UNCHANGED deferred
    ELSE /\ deferred' = IF deferred[r] = "no" THEN [deferred EXCEPT ![r] = "callback"]
                        ELSE deferred
         /\ UNCHANGED task

(* Fault: the callback is not there any more when the Task ends.           *)
TaskOverForgets(r) ==
    /\ task' = [task EXCEPT ![r] = NoTask]
    /\ deferred' = IF deferred[r] = "callback" THEN [deferred EXCEPT ![r] = "no"]
                   ELSE deferred

(* The Task is done; its callback creates the one of                       *)
(* _run_deferred_schedule.                                                 *)
TaskOver(r) ==
    /\ task' = [task EXCEPT ![r] = NoTask]
    /\ deferred' = IF deferred[r] = "callback" THEN [deferred EXCEPT ![r] = "due"]
                   ELSE deferred

(* _run_deferred_schedule.  It is in the event loop's ready queue, so a    *)
(* Task created after the callback may start before it but cannot await    *)
(* anything to the end (see Ready).                                        *)
RunDeferred(r) ==
    /\ deferred[r] = "due"
    /\ task' = IF task[r].pc = "idle" THEN [task EXCEPT ![r] = NewTask] ELSE task
    /\ deferred' = [deferred EXCEPT ![r] = "no"]
    /\ UNCHANGED <<run, closing, spent, convVars>>

(* What a Task or handler of the Run awaits may be over.                   *)
Ready(r) == deferred[r] # "due"

-----------------------------------------------------------------------------
(* Requests on standalone Runs.                                            *)

Submit(r, phase) ==
    /\ run[r].status = "absent"
    /\ run' = [run EXCEPT ![r].status = "queued", ![r].phase = phase]
    /\ Schedule(r)
    /\ UNCHANGED <<closing, spent, convVars>>

(* cancel up to its first await.  With a runtime at work the handler       *)
(* closes it first; otherwise it cancels the Task at once.                 *)
Cancel(r) ==
    /\ run[r].status \in {"queued", "running", "waiting"}
    /\ run' = [run EXCEPT ![r].status = "cancelled",
                          ![r].plan = IF run[r].phase = "waiting_approval"
                                      THEN "rejected" ELSE @]
    /\ IF task[r].pc = "turn"
       THEN closing' = [closing EXCEPT ![r] = @ + 1] /\ UNCHANGED task
       ELSE /\ task' = IF task[r].pc = "idle" THEN task
                       ELSE [task EXCEPT ![r].cancelled = TRUE]
            /\ UNCHANGED closing
    /\ UNCHANGED <<deferred, spent, convVars>>

(* The rest of cancel: whatever Task the Run has now.                      *)
CancelTask(r) ==
    /\ closing[r] > 0
    /\ Ready(r)
    /\ closing' = [closing EXCEPT ![r] = @ - 1]
    /\ task' = IF task[r].pc = "idle" THEN task ELSE [task EXCEPT ![r].cancelled = TRUE]
    /\ UNCHANGED <<run, deferred, spent, convVars>>

Retry(r) ==
    /\ run[r].status \in {"failed", "cancelled"}
    /\ run[r].phase # "waiting_approval"
    /\ spent.retries[r] < MaxRetries
    /\ run' = [run EXCEPT ![r].status = "queued"]
    /\ Schedule(r)
    /\ spent' = [spent EXCEPT !.retries[r] = @ + 1]
    /\ UNCHANGED <<closing, convVars>>

(* _resolve_plan_action.                                                   *)
Approve(r) ==
    /\ run[r].status = "waiting"
    /\ run' = [run EXCEPT ![r].status = "queued", ![r].phase = "executing",
                          ![r].plan = "approved"]
    /\ Schedule(r)
    /\ UNCHANGED <<closing, spent, convVars>>

Reject(r) ==
    /\ run[r].status = "waiting"
    /\ run' = [run EXCEPT ![r].status = "cancelled", ![r].plan = "rejected"]
    /\ UNCHANGED <<task, deferred, closing, spent, convVars>>

-----------------------------------------------------------------------------
(* Executing a standalone Run: ControlPlane._execute.                      *)

Goto(r, pc) == task' = [task EXCEPT ![r].pc = pc] /\ UNCHANGED deferred

(* Up to the first await, which is the start of a gateway if the Agent has *)
(* one, else the runtime.                                                  *)
Begin(r) ==
    /\ task[r].pc = "new"
    /\ ~task[r].cancelled
    /\ IF run[r].status = "queued"
       THEN /\ run' = [run EXCEPT ![r].status = "running"]
            /\ Goto(r, "setup") \/ Goto(r, "turn")
       ELSE TaskOver(r) /\ UNCHANGED run
    /\ UNCHANGED <<closing, spent, convVars>>

GatewayStarted(r) ==
    /\ task[r].pc = "setup"
    /\ ~task[r].cancelled
    /\ Ready(r)
    /\ Goto(r, "turn")
    /\ UNCHANGED <<run, closing, spent, convVars>>

(* Fault: the result is stored whatever became of the Run.                 *)
SucceedAnyway(r) ==
    /\ task[r].pc = "turn"
    /\ ~task[r].cancelled
    /\ Ready(r)
    /\ run' = [run EXCEPT ![r].status = "succeeded"]
    /\ Goto(r, "cleanup")
    /\ UNCHANGED <<closing, spent, convVars>>

(* The runtime returned: _settle_success or _settle_planning, neither of   *)
(* which does anything for a CANCELLED Run.                                *)
Succeed(r) ==
    /\ task[r].pc = "turn"
    /\ ~task[r].cancelled
    /\ Ready(r)
    /\ run' = IF run[r].status = "cancelled" THEN run
              ELSE IF run[r].phase = "planning"
              THEN [run EXCEPT ![r] = [status |-> "waiting", phase |-> "waiting_approval",
                                       plan |-> "pending"]]
              ELSE [run EXCEPT ![r].status = "succeeded"]
    /\ Goto(r, "cleanup")
    /\ UNCHANGED <<closing, spent, convVars>>

(* Anything raised: _settle_failure.  A Task that has no runtime yet may   *)
(* have nothing to await in its finally block.                             *)
Fail(r) ==
    /\ task[r].pc \in {"setup", "turn"}
    /\ ~task[r].cancelled
    /\ Ready(r)
    /\ run' = IF run[r].status = "cancelled" THEN run
              ELSE [run EXCEPT ![r].status = "failed"]
    /\ Goto(r, "cleanup") \/ (task[r].pc = "setup" /\ TaskOver(r))
    /\ UNCHANGED <<closing, spent, convVars>>

(* CancelledError: the finally block, or what is left of it.  It ends the  *)
(* wait for a close that somebody else is at, too.                         *)
TaskCancelled(r) ==
    /\ task[r].cancelled
    /\ \/ /\ task[r].pc \in {"setup", "turn"}
          /\ task' = [task EXCEPT ![r] = [pc |-> "cleanup", cancelled |-> FALSE]]
          /\ UNCHANGED deferred
       \/ task[r].pc # "turn" /\ TaskOver(r)
    /\ UNCHANGED <<run, closing, spent, convVars>>

(* Fault: close does not take turns.                                       *)
CleanupOvertakes(r) ==
    /\ task[r].pc = "cleanup"
    /\ ~task[r].cancelled
    /\ Ready(r)
    /\ TaskOver(r)
    /\ UNCHANGED <<run, closing, spent, convVars>>

(* runtime.close() in the finally block; it comes after every handler that *)
(* found the runtime, because close takes turns (_close_lock).             *)
Cleanup(r) ==
    /\ task[r].pc = "cleanup"
    /\ ~task[r].cancelled
    /\ closing[r] = 0
    /\ Ready(r)
    /\ TaskOver(r)
    /\ UNCHANGED <<run, closing, spent, convVars>>

-----------------------------------------------------------------------------
(* The Conversation.                                                       *)

With(status) == {s \in Seqs : turn[s].status = status}

(* _schedule_conversation.                                                 *)
ScheduleConversation == drain' = IF drain.pc = "idle" THEN NewDrain ELSE drain

SubmitTurn ==
    /\ conv = "active"
    /\ With("waiting") = {}
    /\ \E s \in With("absent") :
          /\ \A t \in With("absent") : s <= t
          /\ turn' = [turn EXCEPT ![s].status = "queued"]
    /\ ScheduleConversation
    /\ UNCHANGED <<conv, spent, runVars>>

(* cancel of a QUEUED Run; one that was answered is refused.               *)
CancelQueuedTurn(s) ==
    /\ turn[s] = [status |-> "queued", question |-> "none"]
    /\ turn' = [turn EXCEPT ![s].status = "cancelled"]
    /\ UNCHANGED <<conv, drain, spent, runVars>>

(* cancel of the executing Run: no await before the Conversation is        *)
(* BLOCKED and the Task cancelled.                                         *)
CancelRunningTurn(s) ==
    /\ turn[s].status = "running"
    /\ turn' = [turn EXCEPT ![s].status = "cancelled"]
    /\ conv' = "blocked"
    /\ drain' = [drain EXCEPT !.cancelled = (drain.pc # "idle")]
    /\ UNCHANGED <<spent, runVars>>

(* cancel of a Run that waits for its user, or resume after expires_at.    *)
(* Neither schedules the Conversation.                                     *)
CancelWaitingTurn(s) ==
    /\ turn[s].status = "waiting"
    /\ turn' = [turn EXCEPT ![s] = [status |-> "cancelled", question |-> "none"]]
    /\ UNCHANGED <<conv, drain, spent, runVars>>

(* resume with an answer.                                                  *)
Answer(s) ==
    /\ turn[s].status = "waiting"
    /\ turn' = [turn EXCEPT ![s] = [status |-> "queued", question |-> "answered"]]
    /\ ScheduleConversation
    /\ UNCHANGED <<conv, spent, runVars>>

(* Fault: the Task leaves without looking for Runs again.                  *)
DrainLeaves == drain' = NoDrain

(* The finally block of _drain_conversation: if the Conversation is ACTIVE *)
(* and has a QUEUED Run, a new Task is created.                            *)
DrainOver ==
    drain' = IF conv' = "active" /\ \E s \in Seqs : turn'[s].status = "queued"
             THEN [NewDrain EXCEPT !.generation = 1 - drain.generation] ELSE NoDrain

First == CHOOSE s \in With("queued") : \A t \in With("queued") : s <= t

(* Fault: only RUNNING Runs hold up the queue.                             *)
RunnableWhileWaiting ==
    conv = "active" /\ With("queued") # {} /\ With("running") = {}

Runnable ==
    /\ conv = "active"
    /\ With("queued") # {}
    /\ With("running") \cup With("waiting") = {}

(* One turn of the loop, up to the first await of                          *)
(* _execute_conversation_run, or out of it.  The runtime may be there from *)
(* an earlier Turn.                                                        *)
BeginTurn ==
    /\ drain.pc = "loop"
    /\ IF Runnable
       THEN /\ turn' = [turn EXCEPT ![First] = [status |-> "running", question |-> "none"]]
            /\ \E pc \in {"setup", "turn"} :
                  drain' = [drain EXCEPT !.pc = pc, !.seq = First]
            /\ UNCHANGED conv
       ELSE UNCHANGED <<turn, conv>> /\ DrainOver
    /\ UNCHANGED <<spent, runVars>>

(* The Agent is not registered, or with another fingerprint.               *)
CannotBegin ==
    /\ drain.pc = "loop"
    /\ Runnable
    /\ conv' = "blocked"
    /\ drain' = [drain EXCEPT !.pc = "discard"]
    /\ UNCHANGED <<turn, spent, runVars>>

TurnReady ==
    /\ drain.pc = "setup"
    /\ ~drain.cancelled
    /\ drain' = [drain EXCEPT !.pc = "turn"]
    /\ UNCHANGED <<conv, turn, spent, runVars>>

(* The ask_user Tool during the Turn: enter_required_action.  The store is *)
(* SQLite's, whose COMMIT is synchronous: nothing runs between it and      *)
(* pending_action = action, so that no question goes unheard.              *)
AskUser ==
    LET s == drain.seq IN
    /\ drain.pc = "turn"
    /\ ~drain.asked
    /\ turn[s].status = "running"
    /\ spent.asks < MaxAsks
    /\ turn' = [turn EXCEPT ![s] = [status |-> "waiting", question |-> "pending"]]
    /\ drain' = [drain EXCEPT !.asked = TRUE]
    /\ spent' = [spent EXCEPT !.asks = @ + 1]
    /\ UNCHANGED <<conv, runVars>>

(* The Turn completed: the loop goes on.                                   *)
TurnSucceeds ==
    /\ drain.pc = "turn"
    /\ ~drain.cancelled
    /\ ~drain.asked
    /\ turn' = [turn EXCEPT ![drain.seq].status = "succeeded"]
    /\ drain' = [drain EXCEPT !.pc = "loop", !.seq = 0]
    /\ UNCHANGED <<conv, spent, runVars>>

(* The Turn that asked its user is over, however it ended.                 *)
AskedTurnEnds ==
    /\ drain.pc = "turn"
    /\ ~drain.cancelled
    /\ drain.asked
    /\ UNCHANGED <<conv, turn>>
    /\ DrainOver
    /\ UNCHANGED <<spent, runVars>>

TurnFails ==
    /\ drain.pc \in {"setup", "turn"}
    /\ ~drain.cancelled
    /\ ~drain.asked
    /\ turn' = [turn EXCEPT ![drain.seq].status = "failed"]
    /\ conv' = "blocked"
    /\ drain' = [drain EXCEPT !.pc = "discard"]
    /\ UNCHANGED <<spent, runVars>>

(* The runtime is closed, or CancelledError got that far.                  *)
DrainEnds ==
    /\ drain.pc # "idle"
    /\ drain.pc = "discard" \/ drain.cancelled
    /\ UNCHANGED <<conv, turn>>
    /\ DrainOver
    /\ UNCHANGED <<spent, runVars>>

-----------------------------------------------------------------------------
(* Fault: the new process leaves QUEUED Runs to their owners.              *)
RestartRunningOnly ==
    /\ spent.restarts < MaxRestarts
    /\ spent' = [spent EXCEPT !.restarts = @ + 1]
    /\ run' = [r \in Runs |-> IF run[r].status = "running"
                              THEN [run[r] EXCEPT !.status = "failed"] ELSE run[r]]
    /\ turn' = [s \in Seqs |-> IF turn[s].status = "running"
                               THEN [turn[s] EXCEPT !.status = "failed"] ELSE turn[s]]
    /\ task' = [r \in Runs |-> NoTask]
    /\ deferred' = [r \in Runs |-> "no"]
    /\ closing' = [r \in Runs |-> 0]
    /\ drain' = NoDrain
    /\ UNCHANGED conv

(* The process dies and starts again: _recover_startup fails what was      *)
(* RUNNING, leaves Conversations ACTIVE and schedules what is QUEUED.      *)
Restart ==
    /\ spent.restarts < MaxRestarts
    /\ spent' = [spent EXCEPT !.restarts = @ + 1]
    /\ run' = [r \in Runs |-> IF run[r].status = "running"
                              THEN [run[r] EXCEPT !.status = "failed"] ELSE run[r]]
    /\ turn' = [s \in Seqs |-> IF turn[s].status = "running"
                               THEN [turn[s] EXCEPT !.status = "failed"] ELSE turn[s]]
    /\ task' = [r \in Runs |-> IF run[r].status = "queued" THEN NewTask ELSE NoTask]
    /\ deferred' = [r \in Runs |-> "no"]
    /\ closing' = [r \in Runs |-> 0]
    /\ UNCHANGED conv
    /\ DrainOver

-----------------------------------------------------------------------------
Request ==
    \/ \E r \in Runs :
          \/ \E phase \in {"direct", "planning"} : Submit(r, phase)
          \/ Cancel(r) \/ Retry(r) \/ Approve(r) \/ Reject(r)
    \/ SubmitTurn
    \/ \E s \in Seqs :
          CancelQueuedTurn(s) \/ CancelRunningTurn(s) \/ CancelWaitingTurn(s) \/ Answer(s)

(* What the event loop does by itself for a standalone Run.                *)
Execute(r) ==
    \/ Begin(r) \/ GatewayStarted(r) \/ Succeed(r) \/ Fail(r)
    \/ TaskCancelled(r) \/ Cleanup(r)

DrainConversation ==
    \/ BeginTurn \/ TurnReady \/ TurnSucceeds \/ AskedTurnEnds \/ TurnFails \/ DrainEnds

Next ==
    \/ Request
    \/ \E r \in Runs : Execute(r) \/ CancelTask(r) \/ RunDeferred(r)
    \/ DrainConversation \/ CannotBegin \/ AskUser
    \/ Restart

Spec == Init /\ [][Next]_vars

(* The event loop resumes every Task whose await is over, DSH Turns end    *)
(* and runtimes close.  No request is owed, nor a restart.                 *)
Fairness ==
    /\ \A r \in Runs : WF_vars(Execute(r)) /\ WF_vars(CancelTask(r)) /\ WF_vars(RunDeferred(r))
    /\ WF_vars(DrainConversation)

FairSpec == Spec /\ Fairness

-----------------------------------------------------------------------------
(* Safety.                                                                 *)

(* No Run is forgotten until it is retried a second time.  A RUNNING one   *)
(* is being executed: its Task is there and nobody has cancelled it.  A    *)
(* QUEUED one will be looked at: its Task is about to start, or the end of *)
(* its old Task creates one, or _run_deferred_schedule will.  Otherwise    *)
(* only a restart would move it.  After a second retry a cancel handler of *)
(* old may cancel the new Task (see CancelOwnsTheTransition), and the      *)
(* entry in _deferred_schedules may be used up by a Task that a cancel     *)
(* kills before it starts.                                                 *)
RunsHaveTasks ==
    \A r \in {q \in Runs : spent.retries[q] < 2} :
        /\ run[r].status = "running" => task[r].pc \in {"setup", "turn"} /\ ~task[r].cancelled
        /\ run[r].status = "queued" =>
              \/ task[r].pc = "new" /\ ~task[r].cancelled
              \/ task[r].pc # "idle" /\ deferred[r] = "callback"
              \/ task[r].pc = "idle" /\ deferred[r] = "due"

(* The same of the Conversation: its RUNNING Run is the one its Task       *)
(* executes, and while it can execute a Run it has a Task.                 *)
ConversationHasTask ==
    /\ \A s \in With("running") :
          drain.pc \in {"setup", "turn"} /\ drain.seq = s /\ ~drain.cancelled
    /\ conv = "active" /\ With("queued") # {} => drain.pc # "idle"

-----------------------------------------------------------------------------
(* Liveness under FairSpec.                                                *)

(* Runs are executed to an end, and QUEUED ones executed, cancelled or     *)
(* blocked, also across restarts and after a waiting Run was cancelled.    *)
(* After a second retry a Run may have lost its Task and stay as it is.    *)
RunsMoveOn ==
    /\ \A r \in Runs : run[r].status \in {"queued", "running"}
                          ~> \/ run[r].status \notin {"queued", "running"}
                             \/ spent.retries[r] >= 2
    /\ \A s \in Seqs : turn[s].status \in {"queued", "running"}
                          ~> \/ turn[s].status \notin {"queued", "running"}
                             \/ conv = "blocked" \/ With("waiting") # {}

-----------------------------------------------------------------------------
(* Refinement: one process keeps the contracts that Workers keep.          *)

Contract == INSTANCE RunContract WITH
    state <- [r \in Runs |-> run[r].status],
    decision <- [r \in Runs |-> run[r].plan],
    reporting <- [r \in Runs |-> task[r].pc \in {"setup", "turn"}]

(* A standalone Run moves as RunContract says.                             *)
ImplementsContract == Contract!Spec

Turns == INSTANCE TurnQueue WITH
    turn <- [s \in Seqs |->
                CASE turn[s].status \in TerminalRunStatuses -> "ended"
                  [] turn[s].status = "running" -> "active"
                  [] turn[s].status = "waiting" -> "suspended"
                  [] OTHER -> turn[s].status],
    open <- conv = "active"

(* The Conversation is a first-come-first-served queue of Turns, although  *)
(* the SQLite schema has no index that would keep it one.                  *)
ImplementsTurns == Turns!Spec

-----------------------------------------------------------------------------
(* What documents say and the code does not keep.                          *)

(* "cancel owns the durable cancellation transition" (plane.py:1714), so a *)
(* cancelled Task settles nothing: its Run is not RUNNING for good.  But   *)
(* the handler cancels whatever Task the Run has when the runtime it found *)
(* is closed, which after a second cancel and retry is the new one.        *)
CancelOwnsTheTransition ==
    \A r \in Runs : run[r].status = "running" ~> run[r].status # "running"

(* Scheduling stops at a WAITING Run (conversation-session-v0.2.md, 5.3):  *)
(* while a Run waits for its user, no Task keeps looking at the queue.     *)
WaitingStopsDrain ==
    \A s \in Seqs : turn[s].status = "waiting"
                       ~> turn[s].status # "waiting" \/ drain.pc = "idle"

=============================================================================
