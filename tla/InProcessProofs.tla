--------------------------- MODULE InProcessProofs ---------------------------
(***************************************************************************)
(* Proofs about InProcess, for any Runs and any bounds: no Run and no      *)
(* Conversation loses the Task that is to move it, and one process keeps   *)
(* RunContract and TurnQueue.                                              *)
(***************************************************************************)
EXTENDS InProcess, TLAPS, WellFoundedInduction

(* The types, with a bound on closing that each step can carry on.         *)
Types ==
    /\ run \in [Runs -> RunRecord]
    /\ task \in [Runs -> Task]
    /\ deferred \in [Runs -> {"no", "callback", "due"}]
    /\ closing \in [Runs -> Nat]
    /\ spent \in [retries: [Runs -> 0..MaxRetries], asks: 0..MaxAsks,
                  restarts: 0..MaxRestarts]

ConvTypes ==
    /\ conv \in {"active", "blocked"}
    /\ turn \in [Seqs -> TurnRecord]
    /\ drain \in Drain

(* How status, phase and Plan of a Run, its Task and its cancel handlers   *)
(* go together.  A Run gets a cancel handler when it becomes CANCELLED,    *)
(* which it does once more per retry.                                      *)
RunInv(r) ==
    /\ run[r].phase \in {"direct", "planning"} => run[r].plan = "none"
    /\ run[r].phase = "executing" => run[r].plan = "approved"
    /\ run[r].phase = "waiting_approval" =>
          \/ run[r].status = "waiting" /\ run[r].plan = "pending"
          \/ run[r].status = "cancelled" /\ run[r].plan = "rejected"
    /\ run[r].status = "waiting" => run[r].phase = "waiting_approval"
    /\ run[r].status = "absent" =>
          run[r].phase = "direct" /\ task[r].pc = "idle" /\ deferred[r] = "no"
    /\ task[r].pc \in {"setup", "turn"} =>
          run[r].status \in {"running", "queued", "cancelled"}
    /\ deferred[r] = "callback" => task[r].pc # "idle"
    /\ closing[r] <= spent.retries[r] + 1
    /\ run[r].status # "cancelled" => closing[r] <= spent.retries[r]

(* Before a second retry there is one cancel handler at most that may find *)
(* a Run that is not CANCELLED, and the Task it closes is still there; and *)
(* nothing that creates a Task later can be used up in vain.               *)
CancelsAreOwn(r) ==
    /\ closing[r] > 0 =>
          \/ /\ closing[r] = 1
             /\ task[r].pc \in {"turn", "cleanup"} /\ ~task[r].cancelled
             /\ run[r].status # "running"
          \/ spent.retries[r] = 1 /\ run[r].status = "cancelled"
    /\ spent.retries[r] = 0 /\ (closing[r] > 0 \/ task[r].cancelled) =>
          run[r].status = "cancelled"
    /\ spent.retries[r] = 0 /\ deferred[r] # "no" => run[r].phase = "executing"
    /\ spent.retries[r] = 0 /\ deferred[r] = "due" => task[r].pc = "idle"
    /\ run[r].status = "waiting" /\ deferred[r] = "due" => task[r].pc = "idle"
    /\ run[r].status = "running" => task[r].pc \in {"setup", "turn"} /\ ~task[r].cancelled
    /\ run[r].status = "queued" =>
          \/ task[r].pc = "new" /\ ~task[r].cancelled
          \/ deferred[r] = "callback"
          \/ task[r].pc = "idle" /\ deferred[r] = "due"

RunOK(r) == RunInv(r) /\ (spent.retries[r] < 2 => CancelsAreOwn(r))

(* The Task of the Conversation and the Turn it executes, if any.          *)
ConvInv ==
    /\ \A s \in Seqs : turn[s].status = "running" =>
          /\ drain.pc \in {"setup", "turn"} /\ drain.seq = s
          /\ ~drain.cancelled /\ ~drain.asked
    /\ drain.pc \in {"setup", "turn"} =>
          /\ drain.seq \in Seqs
          /\ drain.cancelled \/ drain.asked \/ turn[drain.seq].status = "running"
    /\ drain.asked => drain.pc = "turn"
    /\ drain.cancelled => conv = "blocked" /\ drain.pc \in {"setup", "turn"}
    /\ \A s, t \in Seqs :
          turn[s].status = "absent" /\ s <= t => turn[t].status = "absent"
    /\ conv = "active" /\ (\E s \in Seqs : turn[s].status = "queued") => drain.pc # "idle"

IInv ==
    /\ Types
    /\ ConvTypes
    /\ \A r \in Runs : RunOK(r)
    /\ ConvInv

-----------------------------------------------------------------------------
(* Standalone Runs.                                                        *)

(* A step on one standalone Run.                                           *)
RunStep(r) ==
    \/ \E phase \in {"direct", "planning"} : Submit(r, phase)
    \/ Cancel(r) \/ Retry(r) \/ Approve(r) \/ Reject(r)
    \/ Execute(r) \/ CancelTask(r) \/ RunDeferred(r)

(* It is about this Run only.                                              *)
OthersKept(r) ==
    \A q \in Runs \ {r} :
        /\ run'[q] = run[q] /\ task'[q] = task[q] /\ deferred'[q] = deferred[q]
        /\ closing'[q] = closing[q] /\ spent'.retries[q] = spent.retries[q]

(* The records of a Run, and what the actions put in their place.          *)
LEMMA Fields ==
    ASSUME Types, NEW r \in Runs
    PROVE  /\ run[r] \in RunRecord /\ task[r] \in Task
           /\ closing[r] \in Nat /\ deferred[r] \in {"no", "callback", "due"}
           /\ spent.retries[r] \in 0..MaxRetries /\ spent.retries[r] \in Nat
<1>1. spent.retries \in [Runs -> 0..MaxRetries]
  BY DEF Types
<1>2. MaxRetries \in Nat
  BY ConstantsAssumption
<1> QED
  BY <1>1, <1>2 DEF Types

(* The fields of the Tasks that are created.                               *)
LEMMA NewTasks ==
    /\ NoTask.pc = "idle" /\ NoTask.cancelled = FALSE /\ NoTask \in Task
    /\ NewTask.pc = "new" /\ NewTask.cancelled = FALSE /\ NewTask \in Task
<1>1. NoTask.pc = "idle" /\ NoTask.cancelled = FALSE /\ NoTask \in Task
  BY DEF NoTask, Task
<1> QED
  BY <1>1 DEF NewTask, Task

(* What a record with a changed field is.                                  *)
LEMMA ChangedRecords ==
    /\ \A v \in RunRecord, status \in RunStatus :
          /\ [v EXCEPT !.status = status] \in RunRecord
          /\ \A phase \in RunPhase :
                [v EXCEPT !.status = status, !.phase = phase] \in RunRecord
          /\ \A plan \in {"none", "pending", "approved", "rejected"} :
                /\ [v EXCEPT !.status = status, !.plan = plan] \in RunRecord
                /\ \A phase \in RunPhase :
                      [v EXCEPT !.status = status, !.phase = phase, !.plan = plan]
                          \in RunRecord
    /\ \A t \in Task :
          /\ [t EXCEPT !.cancelled = TRUE] \in Task
          /\ \A pc \in {"idle", "new", "setup", "turn", "cleanup"} :
                [t EXCEPT !.pc = pc] \in Task
BY DEF RunRecord, Task

(* What Schedule, TaskOver and Goto write.                                 *)
LEMMA SchedulingTypes ==
    ASSUME Types, NEW r \in Runs,
           \/ Schedule(r) \/ TaskOver(r)
           \/ \E pc \in {"idle", "new", "setup", "turn", "cleanup"} : Goto(r, pc)
    PROVE  /\ task' \in [Runs -> Task] /\ deferred' \in [Runs -> {"no", "callback", "due"}]
           /\ \A q \in Runs \ {r} : task'[q] = task[q] /\ deferred'[q] = deferred[q]
<1>1. /\ task \in [Runs -> Task] /\ deferred \in [Runs -> {"no", "callback", "due"}]
      /\ task[r] \in Task
  BY DEF Types
<1>2. CASE Schedule(r)
  BY <1>1, <1>2, NewTasks DEF Schedule
<1>3. CASE TaskOver(r)
  BY <1>1, <1>3, NewTasks DEF TaskOver
<1>4. ASSUME NEW pc \in {"idle", "new", "setup", "turn", "cleanup"}, Goto(r, pc)
      PROVE  /\ task' \in [Runs -> Task]
             /\ \A q \in Runs \ {r} : task'[q] = task[q]
  <2>1. [task[r] EXCEPT !.pc = pc] \in Task
    BY <1>1, ChangedRecords
  <2>2. task' = [task EXCEPT ![r] = [task[r] EXCEPT !.pc = pc]]
    BY <1>4 DEF Goto
  <2> QED
    BY <1>1, <2>1, <2>2
<1> QED
  BY <1>1, <1>2, <1>3, <1>4 DEF Goto

(* What the requests and the settlements write into the row of a Run.      *)
LEMMA RowTypes ==
    ASSUME Types, NEW r \in Runs, RunStep(r)
    PROVE  run' \in [Runs -> RunRecord] /\ \A q \in Runs \ {r} : run'[q] = run[q]
<1>1. run \in [Runs -> RunRecord] /\ run[r] \in RunRecord
  BY DEF Types
<1> DEFINE Row(v) == run' = [run EXCEPT ![r] = v] /\ v \in RunRecord
<1>2. ASSUME UNCHANGED run \/ \E v : Row(v)
      PROVE  run' \in [Runs -> RunRecord] /\ \A q \in Runs \ {r} : run'[q] = run[q]
  BY <1>1, <1>2
<1>3. ASSUME NEW status \in RunStatus, run' = [run EXCEPT ![r].status = status]
      PROVE  \E v : Row(v)
  <2>1. Row([run[r] EXCEPT !.status = status])
    BY <1>1, <1>3, ChangedRecords
  <2> QED
    BY <2>1
<1>4. ASSUME NEW phase \in {"direct", "planning"}, Submit(r, phase) PROVE \E v : Row(v)
  <2>1. Row([run[r] EXCEPT !.status = "queued", !.phase = phase])
    BY <1>1, <1>4, ChangedRecords DEF Submit, RunStatus, RunPhase
  <2> QED
    BY <2>1
<1>5. CASE Cancel(r)
  <2> DEFINE plan == IF run[r].phase = "waiting_approval" THEN "rejected" ELSE run[r].plan
  <2>1. plan \in {"none", "pending", "approved", "rejected"}
    BY <1>1 DEF RunRecord
  <2>2. run' = [run EXCEPT ![r].status = "cancelled", ![r].plan = plan]
    BY <1>5 DEF Cancel
  <2> HIDE DEF plan
  <2>3. Row([run[r] EXCEPT !.status = "cancelled", !.plan = plan])
    BY <1>1, <2>1, <2>2, ChangedRecords DEF RunStatus
  <2> QED
    BY <2>3, <1>2
<1>6. CASE Approve(r)
  <2>1. Row([run[r] EXCEPT !.status = "queued", !.phase = "executing", !.plan = "approved"])
    BY <1>1, <1>6, ChangedRecords DEF Approve, RunStatus, RunPhase
  <2> QED
    BY <2>1, <1>2
<1>7. CASE Reject(r)
  <2>1. Row([run[r] EXCEPT !.status = "cancelled", !.plan = "rejected"])
    BY <1>1, <1>7, ChangedRecords DEF Reject, RunStatus
  <2> QED
    BY <2>1, <1>2
<1>8. CASE Succeed(r)
  <2>1. [status |-> "waiting", phase |-> "waiting_approval", plan |-> "pending"] \in RunRecord
    BY DEF RunRecord, RunStatus, RunPhase
  <2>2. \/ UNCHANGED run
        \/ run' = [run EXCEPT ![r] = [status |-> "waiting", phase |-> "waiting_approval",
                                      plan |-> "pending"]]
        \/ run' = [run EXCEPT ![r].status = "succeeded"]
    BY <1>8 DEF Succeed
  <2> QED
    BY <1>2, <1>3, <2>1, <2>2 DEF RunStatus
<1>9. CASE Retry(r) \/ Begin(r) \/ Fail(r)
  <2>1. \/ UNCHANGED run
        \/ \E status \in {"queued", "running", "failed"} :
              run' = [run EXCEPT ![r].status = status]
    BY <1>9 DEF Retry, Begin, Fail
  <2> QED
    BY <1>2, <1>3, <2>1 DEF RunStatus
<1>10. CASE GatewayStarted(r) \/ TaskCancelled(r) \/ Cleanup(r) \/ CancelTask(r)
            \/ RunDeferred(r)
  BY <1>2, <1>10 DEF GatewayStarted, TaskCancelled, Cleanup, CancelTask, RunDeferred
<1> QED
  BY <1>2, <1>4, <1>5, <1>6, <1>7, <1>8, <1>9, <1>10 DEF RunStep, Execute

(* What the steps do to the Task and to who holds its schedule.            *)
LEMMA TaskTypes ==
    ASSUME Types, NEW r \in Runs, RunStep(r)
    PROVE  /\ task' \in [Runs -> Task] /\ deferred' \in [Runs -> {"no", "callback", "due"}]
           /\ \A q \in Runs \ {r} : task'[q] = task[q] /\ deferred'[q] = deferred[q]
<1>1. /\ task \in [Runs -> Task] /\ deferred \in [Runs -> {"no", "callback", "due"}]
      /\ task[r] \in Task /\ NoTask \in Task /\ NewTask \in Task
  BY NewTasks DEF Types
<1>2. CASE \/ Schedule(r) \/ TaskOver(r)
           \/ \E pc \in {"idle", "new", "setup", "turn", "cleanup"} : Goto(r, pc)
  BY <1>2, SchedulingTypes
<1>3. CASE Cancel(r) \/ CancelTask(r)
  <2>1. /\ UNCHANGED deferred
        /\ UNCHANGED task \/ task' = [task EXCEPT ![r].cancelled = TRUE]
    BY <1>3 DEF Cancel, CancelTask
  <2>2. [task[r] EXCEPT !.cancelled = TRUE] \in Task
    BY <1>1, ChangedRecords
  <2> QED
    BY <1>1, <2>1, <2>2
<1>4. CASE Reject(r) \/ RunDeferred(r) \/ TaskCancelled(r)
  <2>1. [pc |-> "cleanup", cancelled |-> FALSE] \in Task
    BY DEF Task
  <2> QED
    BY <1>1, <1>2, <1>4, <2>1 DEF Reject, RunDeferred, TaskCancelled
<1>5. CASE \E phase \in {"direct", "planning"} : Submit(r, phase)
  BY <1>2, <1>5 DEF Submit
<1>6. CASE \/ Retry(r) \/ Approve(r) \/ Begin(r) \/ GatewayStarted(r) \/ Succeed(r)
           \/ Fail(r) \/ Cleanup(r)
  BY <1>2, <1>6 DEF Retry, Approve, Begin, GatewayStarted, Succeed, Fail, Cleanup
<1> QED
  BY <1>3, <1>4, <1>5, <1>6 DEF RunStep, Execute

(* A step on a Run leaves well-formed tables and the other Runs alone.     *)
LEMMA RunStepFrame ==
    ASSUME Types, NEW r \in Runs, RunStep(r)
    PROVE  Types' /\ OthersKept(r) /\ UNCHANGED convVars
<1>1. UNCHANGED convVars
  BY DEF RunStep, Execute, Submit, Cancel, Retry, Approve, Reject, Begin, GatewayStarted,
     Succeed, Fail, TaskCancelled, Cleanup, CancelTask, RunDeferred
<1>2. \/ UNCHANGED closing
      \/ closing' = [closing EXCEPT ![r] = @ + 1]
      \/ closing[r] > 0 /\ closing' = [closing EXCEPT ![r] = @ - 1]
  BY DEF RunStep, Execute, Submit, Cancel, Retry, Approve, Reject, Begin, GatewayStarted,
     Succeed, Fail, TaskCancelled, Cleanup, CancelTask, RunDeferred
<1>3. \/ UNCHANGED spent
      \/ /\ spent.retries[r] < MaxRetries
         /\ spent' = [spent EXCEPT !.retries[r] = @ + 1]
  BY DEF RunStep, Execute, Submit, Cancel, Retry, Approve, Reject, Begin, GatewayStarted,
     Succeed, Fail, TaskCancelled, Cleanup, CancelTask, RunDeferred
<1>4. closing' \in [Runs -> Nat] /\ \A q \in Runs \ {r} : closing'[q] = closing[q]
  BY <1>2 DEF Types
<1>5. /\ spent' \in [retries: [Runs -> 0..MaxRetries], asks: 0..MaxAsks,
                     restarts: 0..MaxRestarts]
      /\ \A q \in Runs \ {r} : spent'.retries[q] = spent.retries[q]
  <2>1. spent.retries \in [Runs -> 0..MaxRetries] /\ MaxRetries \in Nat
    BY ConstantsAssumption DEF Types
  <2>2. spent.retries[r] < MaxRetries => spent.retries[r] + 1 \in 0..MaxRetries
    BY <2>1
  <2> QED
    BY <1>3, <2>1, <2>2 DEF Types
<1> QED
  BY <1>1, <1>4, <1>5, RowTypes, TaskTypes DEF Types, OthersKept

(* What holds of the Run holds after the step.                             *)
LEMMA RunStepKeeps ==
    ASSUME Types, NEW r \in Runs, RunOK(r), RunStep(r)
    PROVE  RunOK(r)'
<1>1. /\ run[r] \in RunRecord /\ task[r] \in Task
      /\ closing[r] \in Nat /\ spent.retries[r] \in Nat
      /\ deferred[r] \in {"no", "callback", "due"}
      /\ NoTask.pc = "idle" /\ NoTask.cancelled = FALSE
      /\ NewTask.pc = "new" /\ NewTask.cancelled = FALSE
  BY Fields, NewTasks
<1>2. RunInv(r) /\ (spent.retries[r] < 2 => CancelsAreOwn(r))
  BY DEF RunOK
<1> USE DEF Types, RunInv, CancelsAreOwn, RunOK, RunRecord, Task
<1>3. ASSUME NEW phase \in {"direct", "planning"}, Submit(r, phase)
      PROVE  RunOK(r)'
  <2>1. /\ run[r].status = "absent" /\ run'[r].status = "queued" /\ run'[r].phase = phase
        /\ run'[r].plan = run[r].plan
    BY <1>1, <1>3 DEF Submit
  <2>2. /\ spent' = spent /\ closing' = closing
        /\ \/ task'[r].pc = "new" /\ ~task'[r].cancelled /\ deferred'[r] = deferred[r]
           \/ /\ task[r].pc # "idle" /\ task'[r] = task[r]
              /\ deferred'[r] \in {"callback", "due"}
              /\ deferred[r] \in {"no", "callback"} => deferred'[r] = "callback"
              /\ deferred[r] = "due" => deferred'[r] = "due"
    BY <1>1, <1>3 DEF Submit, Schedule
  <2>3. RunInv(r)'
    BY <1>1, <1>2, <2>1, <2>2
  <2>4. ASSUME spent.retries[r] < 2 PROVE CancelsAreOwn(r)'
    BY <1>1, <1>2, <2>1, <2>2, <2>4
  <2> QED
    BY <2>2, <2>3, <2>4
<1>4. CASE Cancel(r)
  <2>1. /\ run[r].status \in {"queued", "running", "waiting"}
        /\ run'[r].status = "cancelled" /\ run'[r].phase = run[r].phase
        /\ run'[r].plan = IF run[r].phase = "waiting_approval" THEN "rejected" ELSE run[r].plan
    BY <1>1, <1>4 DEF Cancel
  <2>2. /\ spent' = spent /\ deferred' = deferred
        /\ \/ /\ task[r].pc = "turn" /\ closing'[r] = closing[r] + 1 /\ task'[r] = task[r]
           \/ /\ task[r].pc = "idle" /\ closing'[r] = closing[r] /\ task'[r] = task[r]
           \/ /\ task[r].pc \notin {"idle", "turn"} /\ closing'[r] = closing[r]
              /\ task'[r].cancelled /\ task'[r].pc = task[r].pc
    BY <1>1, <1>4 DEF Cancel
  <2>3. RunInv(r)'
    BY <1>1, <1>2, <2>1, <2>2
  <2>4. CASE spent.retries[r] = 0
    <3>1. closing[r] = 0 /\ ~task[r].cancelled
      BY <1>1, <1>2, <2>1, <2>4
    <3> QED
      BY <1>1, <1>2, <2>1, <2>2, <2>3, <2>4, <3>1
  <2>5. CASE spent.retries[r] = 1
    BY <1>1, <1>2, <2>1, <2>2, <2>3, <2>5
  <2> QED
    BY <1>1, <2>2, <2>3, <2>4, <2>5
<1>5. CASE Retry(r)
  <2>1. /\ run[r].status \in {"failed", "cancelled"} /\ run[r].phase # "waiting_approval"
        /\ run'[r].status = "queued" /\ run'[r].phase = run[r].phase
        /\ run'[r].plan = run[r].plan
    BY <1>1, <1>5 DEF Retry
  <2>2. spent'.retries[r] = spent.retries[r] + 1 /\ closing' = closing
    BY <1>1, <1>5 DEF Retry
  <2>3. \/ /\ task[r].pc = "idle" /\ task'[r].pc = "new" /\ ~task'[r].cancelled
           /\ deferred'[r] = deferred[r]
        \/ /\ task[r].pc # "idle" /\ task'[r] = task[r]
           /\ deferred[r] # "due" => deferred'[r] = "callback"
           /\ deferred[r] = "due" => deferred'[r] = "due"
    BY <1>1, <1>5 DEF Retry, Schedule
  <2>4. RunInv(r)'
    BY <1>1, <1>2, <2>1, <2>2, <2>3
  <2>5. CASE spent.retries[r] = 0
    BY <1>1, <1>2, <2>1, <2>2, <2>3, <2>4, <2>5
  <2>6. CASE spent.retries[r] # 0
    <3>1. ~(spent'.retries[r] < 2)
      BY <1>1, <2>2, <2>6
    <3> QED
      BY <2>4, <3>1
  <2> QED
    BY <2>5, <2>6
<1>6. CASE Approve(r) 
  BY <1>1, <1>2, <1>6 DEF Approve, Schedule
<1>7. CASE Reject(r)
  BY <1>1, <1>2, <1>7 DEF Reject
<1>8. CASE Begin(r) 
  BY <1>1, <1>2, <1>8 DEF Begin, Goto, TaskOver
<1>9. CASE GatewayStarted(r) 
  BY <1>1, <1>2, <1>9 DEF GatewayStarted, Goto
<1>10. CASE Succeed(r)
  BY <1>1, <1>2, <1>10 DEF Succeed, Goto, Ready
<1>11. CASE Fail(r)
  BY <1>1, <1>2, <1>11 DEF Fail, Goto, TaskOver, Ready
<1>12. CASE TaskCancelled(r)
  BY <1>1, <1>2, <1>12 DEF TaskCancelled, TaskOver
<1>13. CASE Cleanup(r)
  BY <1>1, <1>2, <1>13 DEF Cleanup, TaskOver, Ready
<1>14. CASE CancelTask(r) 
  BY <1>1, <1>2, <1>14 DEF CancelTask
<1>15. CASE RunDeferred(r)
  BY <1>1, <1>2, <1>15 DEF RunDeferred
<1> QED
  BY <1>3, <1>4, <1>5, <1>6, <1>7, <1>8, <1>9, <1>10, <1>11, <1>12, <1>13, <1>14, <1>15
     DEF RunStep, Execute

-----------------------------------------------------------------------------
(* The Conversation.                                                       *)

(* A step of the Conversation.                                             *)
ConvStep ==
    \/ SubmitTurn
    \/ \E s \in Seqs :
          CancelQueuedTurn(s) \/ CancelRunningTurn(s) \/ CancelWaitingTurn(s) \/ Answer(s)
    \/ DrainConversation \/ CannotBegin \/ AskUser

(* Every step is about a standalone Run, about the Conversation, or a      *)
(* restart.                                                                *)
LEMMA StepKinds ==
    ASSUME Next
    PROVE  (\E r \in Runs : RunStep(r)) \/ ConvStep \/ Restart
BY DEF Next, Request, RunStep, ConvStep

(* The first QUEUED Turn is one.                                           *)
LEMMA FirstQueued ==
    ASSUME With("queued") # {}
    PROVE  /\ First \in Seqs /\ turn[First].status = "queued"
           /\ \A t \in Seqs : turn[t].status = "queued" => First <= t
<1> DEFINE Q == With("queued")
           R == OpToRel(<, Nat)
<1>1. Q \subseteq Nat /\ Q # {}
  BY ConstantsAssumption DEF With, Seqs
<1>2. \E s \in Q : \A t \in Q : s <= t
  <2>1. IsWellFoundedOn(R, Nat)
    BY NatLessThanWellFounded
  <2> HIDE DEF R, Q
  <2>2. PICK s \in Q : \A t \in Q : <<t, s>> \notin R
    BY <1>1, <2>1, WFMin
  <2>3. \A t \in Q : s \in Nat /\ t \in Nat /\ ~(t < s)
    BY <1>1, <2>2 DEF R, OpToRel
  <2> QED
    BY <2>3
<1> QED
  BY <1>2 DEF First, With

(* A step changes one Turn at most, and this is what happens to it.        *)
TurnMoves(s, from, to) ==
    /\ turn[s].status \in from /\ turn'[s].status \in to
    /\ \A t \in Seqs \ {s} : turn'[t] = turn[t]

(* What a step of the Conversation does to the Turns, in the order in which*)
(* TurnQueue has its actions.                                              *)
TurnStep(s) ==
    \/ /\ TurnMoves(s, {"absent"}, {"queued"}) /\ conv = "active"
       /\ \A t \in Seqs : turn[t].status # "waiting"
       /\ \A t \in Seqs : turn[t].status = "absent" => s <= t
       /\ UNCHANGED conv
    \/ /\ TurnMoves(s, {"queued"}, {"running"})
       /\ \A t \in Seqs : /\ turn[t].status \notin {"running", "waiting"}
                          /\ turn[t].status = "queued" => s <= t
       /\ UNCHANGED conv
    \/ TurnMoves(s, {"running"}, {"waiting"}) /\ UNCHANGED conv
    \/ TurnMoves(s, {"waiting"}, {"queued"}) /\ UNCHANGED conv
    \/ TurnMoves(s, {"queued", "running", "waiting"}, TerminalRunStatuses)
          /\ conv' \in {conv, "blocked"}

NoTurnStep == UNCHANGED turn /\ (UNCHANGED conv \/ (conv = "active" /\ conv' = "blocked"))

(* Every step of the Conversation is one of these.                         *)
LEMMA ConvSteps ==
    ASSUME ConvTypes, ConvInv, ConvStep
    PROVE  NoTurnStep \/ \E s \in Seqs : TurnStep(s)
<1>1. turn \in [Seqs -> TurnRecord] /\ drain \in Drain
  BY DEF ConvTypes
<1> USE DEF TurnRecord
<1>2. CASE SubmitTurn
  <2>1. PICK s \in With("absent") :
           /\ \A t \in With("absent") : s <= t
           /\ turn' = [turn EXCEPT ![s].status = "queued"]
    BY <1>2 DEF SubmitTurn
  <2>2. TurnStep(s)
    BY <1>1, <1>2, <2>1 DEF SubmitTurn, With, TurnStep, TurnMoves
  <2> QED
    BY <2>1, <2>2 DEF With
<1>3. ASSUME NEW s \in Seqs, CancelQueuedTurn(s) PROVE TurnStep(s)
  BY <1>1, <1>3 DEF CancelQueuedTurn, TurnStep, TurnMoves, TerminalRunStatuses
<1>4. ASSUME NEW s \in Seqs, CancelRunningTurn(s) PROVE TurnStep(s)
  BY <1>1, <1>4 DEF CancelRunningTurn, TurnStep, TurnMoves, TerminalRunStatuses
<1>5. ASSUME NEW s \in Seqs, CancelWaitingTurn(s) PROVE TurnStep(s)
  BY <1>1, <1>5 DEF CancelWaitingTurn, TurnStep, TurnMoves, TerminalRunStatuses
<1>6. ASSUME NEW s \in Seqs, Answer(s) PROVE TurnStep(s)
  BY <1>1, <1>6 DEF Answer, TurnStep, TurnMoves
<1>7. CASE BeginTurn
  <2>1. CASE ~Runnable
    BY <1>7, <2>1 DEF BeginTurn, NoTurnStep
  <2>2. CASE Runnable
    <3>1. /\ First \in Seqs /\ turn[First].status = "queued"
          /\ \A t \in Seqs : turn[t].status = "queued" => First <= t
      BY <2>2, FirstQueued DEF Runnable
    <3>2. /\ turn' = [turn EXCEPT ![First] = [status |-> "running", question |-> "none"]]
          /\ UNCHANGED conv
      BY <1>7, <2>2 DEF BeginTurn
    <3>3. \A t \in Seqs : turn[t].status \notin {"running", "waiting"}
      BY <2>2 DEF Runnable, With
    <3>4. TurnStep(First)
      BY <1>1, <3>1, <3>2, <3>3 DEF TurnStep, TurnMoves
    <3> QED
      BY <3>1, <3>4
  <2> QED
    BY <2>1, <2>2
<1>8. CASE CannotBegin \/ TurnReady \/ AskedTurnEnds \/ DrainEnds
  BY <1>8 DEF CannotBegin, TurnReady, AskedTurnEnds, DrainEnds, Runnable, NoTurnStep
<1>9. CASE AskUser
  <2>1. drain.seq \in Seqs
    <3>1. drain.pc = "turn" /\ turn[drain.seq].status = "running" /\ ~drain.asked
      BY <1>9 DEF AskUser
    <3> QED
      BY <3>1, <1>1 DEF ConvInv
  <2>2. TurnStep(drain.seq)
    BY <1>1, <1>9, <2>1 DEF AskUser, TurnStep, TurnMoves
  <2> QED
    BY <2>1, <2>2
<1>10. CASE TurnSucceeds \/ TurnFails
  <2>1. drain.seq \in Seqs /\ turn[drain.seq].status = "running"
    BY <1>10 DEF TurnSucceeds, TurnFails, ConvInv
  <2>2. TurnStep(drain.seq)
    BY <1>1, <1>10, <2>1 DEF TurnSucceeds, TurnFails, TurnStep, TurnMoves, TerminalRunStatuses
  <2> QED
    BY <2>1, <2>2
<1> QED
  BY <1>2, <1>3, <1>4, <1>5, <1>6, <1>7, <1>8, <1>9, <1>10 DEF ConvStep, DrainConversation

(* The records of the Conversation after a step.                           *)
LEMMA ConvStepTypes ==
    ASSUME ConvTypes, ConvInv, ConvStep, Types
    PROVE  ConvTypes' /\ Types' /\ UNCHANGED runVars /\ spent'.retries = spent.retries
<1>1. turn \in [Seqs -> TurnRecord] /\ drain \in Drain /\ conv \in {"active", "blocked"}
  BY DEF ConvTypes
<1>2. UNCHANGED runVars
  BY DEF ConvStep, SubmitTurn, CancelQueuedTurn, CancelRunningTurn, CancelWaitingTurn, Answer,
     DrainConversation, BeginTurn, TurnReady, TurnSucceeds, AskedTurnEnds, TurnFails,
     DrainEnds, CannotBegin, AskUser
<1>3. UNCHANGED spent \/ (spent.asks < MaxAsks /\ spent' = [spent EXCEPT !.asks = @ + 1])
  BY DEF ConvStep, SubmitTurn, CancelQueuedTurn, CancelRunningTurn, CancelWaitingTurn, Answer,
     DrainConversation, BeginTurn, TurnReady, TurnSucceeds, AskedTurnEnds, TurnFails,
     DrainEnds, CannotBegin, AskUser
<1>4. Types' /\ spent'.retries = spent.retries
  <2>1. spent.asks \in 0..MaxAsks /\ MaxAsks \in Nat
    BY ConstantsAssumption DEF Types
  <2>2. spent.asks < MaxAsks => spent.asks + 1 \in 0..MaxAsks
    BY <2>1
  <2> QED
    BY <1>2, <1>3, <2>2 DEF Types, runVars
<1>5. conv' \in {"active", "blocked"}
  BY <1>1, ConvSteps DEF NoTurnStep, TurnStep
<1>6. turn' \in [Seqs -> TurnRecord]
  <2>1. /\ \A t \in TurnRecord, status \in RunStatus :
              [t EXCEPT !.status = status] \in TurnRecord
        /\ \A status \in RunStatus, question \in {"none", "pending", "answered"} :
              [status |-> status, question |-> question] \in TurnRecord
    BY DEF TurnRecord
  <2>2. /\ ~(UNCHANGED turn) => \E s \in Seqs :
              \/ \E status \in RunStatus : turn' = [turn EXCEPT ![s].status = status]
              \/ \E status \in RunStatus, question \in {"none", "pending", "answered"} :
                    turn' = [turn EXCEPT ![s] = [status |-> status, question |-> question]]
    <3>1. CASE SubmitTurn
      BY <3>1 DEF SubmitTurn, With, RunStatus
    <3>2. CASE \E s \in Seqs : CancelQueuedTurn(s) \/ CancelRunningTurn(s)
                                \/ CancelWaitingTurn(s) \/ Answer(s)
      BY <3>2 DEF CancelQueuedTurn, CancelRunningTurn, CancelWaitingTurn, Answer, RunStatus
    <3>3. CASE BeginTurn
      BY <3>3, FirstQueued DEF BeginTurn, Runnable, RunStatus
    <3>4. CASE TurnSucceeds \/ TurnFails
      BY <3>4 DEF TurnSucceeds, TurnFails, ConvInv, RunStatus
    <3>5. CASE AskUser
      BY <3>5 DEF AskUser, ConvInv, RunStatus
    <3>6. CASE TurnReady \/ AskedTurnEnds \/ DrainEnds \/ CannotBegin
      BY <3>6 DEF TurnReady, AskedTurnEnds, DrainEnds, CannotBegin
    <3> QED
      BY <3>1, <3>2, <3>3, <3>4, <3>5, <3>6 DEF ConvStep, DrainConversation
  <2>3. \A s \in Seqs : turn[s] \in TurnRecord
    BY <1>1
  <2>4. ASSUME NEW s \in Seqs, NEW status \in RunStatus, turn' = [turn EXCEPT ![s].status = status]
        PROVE  turn' \in [Seqs -> TurnRecord]
    <3>1. [turn[s] EXCEPT !.status = status] \in TurnRecord
      BY <2>1, <2>3
    <3> QED
      BY <1>1, <2>4, <3>1
  <2>5. ASSUME NEW s \in Seqs, NEW t \in TurnRecord, turn' = [turn EXCEPT ![s] = t]
        PROVE  turn' \in [Seqs -> TurnRecord]
    BY <1>1, <2>5
  <2> QED
    BY <1>1, <2>1, <2>2, <2>4, <2>5
<1>7. drain' \in Drain
  <2>1. /\ NoDrain \in Drain /\ NewDrain \in Drain /\ 0 \in 0..MaxRuns
        /\ \A s \in Seqs : s \in 0..MaxRuns
    <3>1. NoDrain \in Drain
      BY ConstantsAssumption DEF NoDrain, Drain
    <3>2. NewDrain \in Drain
      BY <3>1 DEF NewDrain, Drain
    <3> QED
      BY <3>1, <3>2, ConstantsAssumption DEF Seqs
  <2>2. ScheduleConversation \/ DrainOver => drain' \in Drain
    BY <1>1, <2>1 DEF ScheduleConversation, DrainOver, Drain
  <2>3. CASE SubmitTurn \/ \E s \in Seqs : CancelQueuedTurn(s) \/ CancelRunningTurn(s)
                                            \/ CancelWaitingTurn(s) \/ Answer(s)
    BY <1>1, <2>2, <2>3 DEF SubmitTurn, CancelQueuedTurn, CancelRunningTurn, CancelWaitingTurn,
       Answer, Drain
  <2>4. CASE BeginTurn
    BY <1>1, <2>1, <2>2, <2>4, FirstQueued DEF BeginTurn, Runnable, Drain
  <2>5. CASE AskedTurnEnds \/ DrainEnds
    BY <2>2, <2>5 DEF AskedTurnEnds, DrainEnds
  <2>6. CASE TurnReady \/ TurnSucceeds \/ TurnFails \/ CannotBegin \/ AskUser
    BY <1>1, <2>1, <2>6 DEF TurnReady, TurnSucceeds, TurnFails, CannotBegin, AskUser, Drain
  <2> QED
    BY <2>3, <2>4, <2>5, <2>6 DEF ConvStep, DrainConversation
<1> QED
  BY <1>2, <1>4, <1>5, <1>6, <1>7 DEF ConvTypes

(* Where the Task of the Conversation goes when it is over.                *)
LEMMA AfterDrain ==
    ASSUME ConvTypes, DrainOver
    PROVE  /\ drain'.pc \in {"idle", "loop"} /\ ~drain'.asked /\ ~drain'.cancelled
           /\ conv' = "active" /\ (\E s \in Seqs : turn'[s].status = "queued")
                 => drain'.pc = "loop"
BY DEF ConvTypes, DrainOver, NoDrain, NewDrain, Drain

(* Absent Turns stay behind the others.                                    *)
LEMMA NumberedInOrder ==
    ASSUME ConvTypes, ConvInv, ConvStep
    PROVE  \A s, t \in Seqs :
              turn'[s].status = "absent" /\ s <= t => turn'[t].status = "absent"
<1>1. \A s, t \in Seqs :
         turn[s].status = "absent" /\ s <= t => turn[t].status = "absent"
  BY DEF ConvInv
<1>2. CASE NoTurnStep
  BY <1>1, <1>2 DEF NoTurnStep
<1>3. ASSUME NEW u \in Seqs, TurnStep(u)
      PROVE  \A s, t \in Seqs :
                turn'[s].status = "absent" /\ s <= t => turn'[t].status = "absent"
  <2>1. /\ turn'[u].status # "absent"
        /\ \A t \in Seqs \ {u} : turn'[t] = turn[t]
        /\ turn[u].status = "absent" => \A t \in Seqs : turn[t].status = "absent" => u <= t
    BY <1>3 DEF TurnStep, TurnMoves, TerminalRunStatuses
  <2> SUFFICES ASSUME NEW s \in Seqs, NEW t \in Seqs, turn'[s].status = "absent", s <= t
               PROVE  turn'[t].status = "absent"
    OBVIOUS
  <2>2. s # u /\ turn[s].status = "absent" /\ turn[t].status = "absent"
    BY <1>1, <2>1
  <2>3. t # u
    <3>1. s \in Int /\ t \in Int
      BY DEF Seqs
    <3> QED
      BY <2>1, <2>2, <3>1
  <2> QED
    BY <2>1, <2>2, <2>3
<1> QED
  BY <1>2, <1>3, ConvSteps

(* The invariant of the Conversation, whose two halves are what the Task   *)
(* executes and that there is one when it is needed.                       *)
Served ==
    /\ \A s \in Seqs : turn[s].status = "running" =>
          /\ drain.pc \in {"setup", "turn"} /\ drain.seq = s
          /\ ~drain.cancelled /\ ~drain.asked
    /\ drain.pc \in {"setup", "turn"} =>
          /\ drain.seq \in Seqs
          /\ drain.cancelled \/ drain.asked \/ turn[drain.seq].status = "running"
    /\ drain.asked => drain.pc = "turn"
    /\ drain.cancelled => conv = "blocked" /\ drain.pc \in {"setup", "turn"}
    /\ conv = "active" /\ (\E s \in Seqs : turn[s].status = "queued") => drain.pc # "idle"

(* Nothing runs once the Task is over.                                     *)
LEMMA DrainOverKeeps ==
    ASSUME ConvTypes, DrainOver, \A s \in Seqs : turn'[s].status # "running"
    PROVE  Served'
BY AfterDrain DEF Served

(* A request that schedules the Conversation.                              *)
LEMMA ScheduleKeeps ==
    ASSUME ConvTypes, ConvInv, ScheduleConversation, UNCHANGED conv,
           NEW s \in Seqs, turn[s].status # "running", turn'[s].status # "running",
           \A t \in Seqs \ {s} : turn'[t] = turn[t]
    PROVE  Served'
<1>1. CASE drain.pc = "idle"
  <2>1. /\ drain'.pc = "loop" /\ ~drain'.asked /\ ~drain'.cancelled
    BY <1>1 DEF ScheduleConversation, NewDrain, NoDrain
  <2>2. \A t \in Seqs : turn'[t].status # "running"
    BY <1>1 DEF ConvInv
  <2> QED
    BY <2>1, <2>2 DEF Served
<1>2. CASE drain.pc # "idle"
  <2>1. drain' = drain
    BY <1>2 DEF ScheduleConversation
  <2> QED
    BY <1>2, <2>1 DEF Served, ConvInv
<1> QED
  BY <1>1, <1>2

(* A step on the Conversation keeps its invariant and moves no other Run.  *)
LEMMA ConvStepKeeps ==
    ASSUME ConvTypes, ConvInv, ConvStep
    PROVE  ConvInv'
<1>1. turn \in [Seqs -> TurnRecord] /\ drain \in Drain /\ conv \in {"active", "blocked"}
  BY DEF ConvTypes
<1>2. Served
  BY DEF Served, ConvInv
<1> USE DEF TurnRecord, Drain
<1>3. CASE SubmitTurn
  <2>1. PICK s \in Seqs : /\ turn[s].status = "absent"
                          /\ turn' = [turn EXCEPT ![s].status = "queued"]
    BY <1>3 DEF SubmitTurn, With
  <2>2. turn'[s].status = "queued" /\ \A t \in Seqs \ {s} : turn'[t] = turn[t]
    BY <1>1, <2>1
  <2>3. Served'
    BY <1>3, <2>1, <2>2, ScheduleKeeps DEF SubmitTurn
  <2> QED
    BY <2>3, NumberedInOrder DEF Served, ConvInv
<1>4. ASSUME NEW s \in Seqs, CancelQueuedTurn(s) \/ CancelWaitingTurn(s) PROVE ConvInv'
  <2>1. /\ turn[s].status \in {"queued", "waiting"} /\ turn'[s].status = "cancelled"
        /\ \A t \in Seqs \ {s} : turn'[t] = turn[t]
    BY <1>1, <1>4 DEF CancelQueuedTurn, CancelWaitingTurn
  <2>2. Served'
    BY <1>2, <1>4, <2>1 DEF CancelQueuedTurn, CancelWaitingTurn, Served
  <2> QED
    BY <1>4, <2>2, NumberedInOrder DEF Served, ConvInv
<1>5. ASSUME NEW s \in Seqs, CancelRunningTurn(s) PROVE ConvInv'
  <2>1. /\ turn[s].status = "running" /\ turn'[s].status = "cancelled"
        /\ \A t \in Seqs \ {s} : turn'[t] = turn[t]
        /\ conv' = "blocked"
    BY <1>1, <1>5 DEF CancelRunningTurn
  <2>2. /\ drain.pc \in {"setup", "turn"} /\ drain.seq = s /\ ~drain.asked
        /\ \A t \in Seqs : turn[t].status = "running" => t = s
    BY <1>2, <2>1 DEF Served
  <2>3. /\ drain'.pc = drain.pc /\ drain'.seq = drain.seq
        /\ drain'.asked = drain.asked /\ drain'.cancelled
    BY <1>1, <1>5, <2>2 DEF CancelRunningTurn
  <2>4. Served'
    BY <2>1, <2>2, <2>3 DEF Served
  <2> QED
    BY <1>5, <2>4, NumberedInOrder DEF Served, ConvInv
<1>6. ASSUME NEW s \in Seqs, Answer(s) PROVE ConvInv'
  <2>1. /\ turn[s].status = "waiting" /\ turn'[s].status = "queued"
        /\ \A t \in Seqs \ {s} : turn'[t] = turn[t]
    BY <1>1, <1>6 DEF Answer
  <2>2. Served'
    BY <1>6, <2>1, ScheduleKeeps DEF Answer
  <2> QED
    BY <1>6, <2>2, NumberedInOrder DEF Served, ConvInv
<1>7. CASE BeginTurn
  <2>1. \A s \in Seqs : turn[s].status # "running"
    BY <1>2, <1>7 DEF BeginTurn, Served
  <2>2. CASE ~Runnable
    BY <1>7, <2>1, <2>2, DrainOverKeeps, NumberedInOrder DEF BeginTurn, Served, ConvInv
  <2>3. CASE Runnable
    <3>1. First \in Seqs
      BY <2>3, FirstQueued DEF Runnable
    <3>2. /\ turn'[First].status = "running"
          /\ \A t \in Seqs \ {First} : turn'[t] = turn[t]
          /\ drain'.pc \in {"setup", "turn"} /\ drain'.seq = First
          /\ drain'.asked = drain.asked /\ drain'.cancelled = drain.cancelled
      <4>1. PICK pc \in {"setup", "turn"} : drain' = [drain EXCEPT !.pc = pc, !.seq = First]
        BY <1>7, <2>3 DEF BeginTurn
      <4>2. turn' = [turn EXCEPT ![First] = [status |-> "running", question |-> "none"]]
        BY <1>7, <2>3 DEF BeginTurn
      <4>3. /\ drain'.pc = pc /\ drain'.seq = First
            /\ drain'.asked = drain.asked /\ drain'.cancelled = drain.cancelled
        BY <1>1, <4>1
      <4> QED
        BY <1>1, <3>1, <4>2, <4>3
    <3>3. ~drain.asked /\ ~drain.cancelled
      BY <1>2, <1>7 DEF BeginTurn, Served
    <3>4. Served'
      BY <2>1, <3>1, <3>2, <3>3 DEF Served
    <3> QED
      BY <1>7, <3>4, NumberedInOrder DEF Served, ConvInv
  <2> QED
    BY <2>2, <2>3
<1>8. CASE CannotBegin
  <2>1. /\ UNCHANGED turn /\ conv' = "blocked" /\ drain.pc = "loop" /\ drain'.pc = "discard"
        /\ drain'.asked = drain.asked /\ drain'.cancelled = drain.cancelled
    BY <1>1, <1>8 DEF CannotBegin
  <2>2. Served'
    BY <1>2, <2>1 DEF Served
  <2> QED
    BY <2>1, <2>2 DEF Served, ConvInv
<1>9. CASE TurnReady
  <2>1. /\ UNCHANGED <<turn, conv>> /\ drain.pc = "setup" /\ drain'.pc = "turn"
        /\ drain'.seq = drain.seq
        /\ drain'.asked = drain.asked /\ drain'.cancelled = drain.cancelled
    BY <1>1, <1>9 DEF TurnReady
  <2>2. Served'
    BY <1>2, <2>1 DEF Served
  <2> QED
    BY <2>1, <2>2 DEF Served, ConvInv
<1>10. CASE AskUser
  <2>1. PICK s \in Seqs : s = drain.seq /\ turn[s].status = "running"
    BY <1>10 DEF AskUser, ConvInv
  <2>2. /\ turn'[s].status = "waiting" /\ \A t \in Seqs \ {s} : turn'[t] = turn[t]
        /\ UNCHANGED conv /\ drain'.pc = "turn" /\ drain.pc = "turn" /\ drain'.seq = s
        /\ drain'.asked /\ drain'.cancelled = drain.cancelled
    BY <1>1, <1>10, <2>1 DEF AskUser
  <2>3. Served'
    BY <1>2, <2>1, <2>2 DEF Served
  <2> QED
    BY <1>10, <2>3, NumberedInOrder DEF Served, ConvInv
<1>11. CASE TurnSucceeds \/ TurnFails
  <2>1. PICK s \in Seqs : s = drain.seq /\ turn[s].status = "running"
    BY <1>11 DEF TurnSucceeds, TurnFails, ConvInv
  <2>2. /\ turn'[s].status \in {"succeeded", "failed"}
        /\ \A t \in Seqs \ {s} : turn'[t] = turn[t]
        /\ drain'.pc \in {"loop", "discard"}
        /\ ~drain'.asked /\ ~drain'.cancelled
    <3>1. CASE TurnSucceeds
      BY <1>1, <2>1, <3>1 DEF TurnSucceeds
    <3>2. CASE TurnFails
      BY <1>1, <2>1, <3>2 DEF TurnFails
    <3> QED
      BY <1>11, <3>1, <3>2
  <2>3. Served'
    BY <1>2, <2>1, <2>2 DEF Served
  <2> QED
    BY <1>11, <2>3, NumberedInOrder DEF Served, ConvInv
<1>12. CASE AskedTurnEnds \/ DrainEnds
  <2>1. \A s \in Seqs : turn[s].status # "running"
    BY <1>2, <1>12 DEF AskedTurnEnds, DrainEnds, Served
  <2>2. UNCHANGED turn /\ DrainOver
    BY <1>12 DEF AskedTurnEnds, DrainEnds
  <2>3. Served'
    BY <2>1, <2>2, DrainOverKeeps
  <2> QED
    BY <2>2, <2>3 DEF Served, ConvInv
<1> QED
  BY <1>3, <1>4, <1>5, <1>6, <1>7, <1>8, <1>9, <1>10, <1>11, <1>12
     DEF ConvStep, DrainConversation

-----------------------------------------------------------------------------
(* Restarts, and the invariant.                                            *)

(* What a restart leaves of the last process.                              *)
LEMMA RestartLeaves ==
    ASSUME Types, ConvTypes, Restart
    PROVE  /\ \A r \in Runs :
                 /\ run'[r] = IF run[r].status = "running"
                              THEN [run[r] EXCEPT !.status = "failed"] ELSE run[r]
                 /\ run'[r].status = IF run[r].status = "running" THEN "failed"
                                     ELSE run[r].status
                 /\ run'[r].phase = run[r].phase /\ run'[r].plan = run[r].plan
                 /\ task'[r] = IF run[r].status = "queued" THEN NewTask ELSE NoTask
                 /\ deferred'[r] = "no" /\ closing'[r] = 0
           /\ \A s \in Seqs :
                 turn'[s].status = IF turn[s].status = "running" THEN "failed"
                                   ELSE turn[s].status
           /\ spent'.retries = spent.retries /\ UNCHANGED conv /\ DrainOver
<1>1. run \in [Runs -> RunRecord] /\ turn \in [Seqs -> TurnRecord]
  BY DEF Types, ConvTypes
<1>2. spent'.retries = spent.retries
  BY DEF Restart, Types
<1> QED
  BY <1>1, <1>2 DEF Restart, RunRecord, TurnRecord

(* A restart leaves nothing of the last process behind.                    *)
LEMMA RestartKeeps ==
    ASSUME IInv, Restart
    PROVE  IInv'
<1>1. Types /\ ConvTypes /\ ConvInv /\ \A r \in Runs : RunInv(r)
  BY DEF IInv, RunOK
<1>2. Types'
  <2>1. run' \in [Runs -> RunRecord]
    <3>1. \A v \in RunRecord : [v EXCEPT !.status = "failed"] \in RunRecord
      BY ChangedRecords DEF RunStatus
    <3> QED
      BY <1>1, <3>1 DEF Restart, Types
  <2>2. /\ task' \in [Runs -> Task] /\ deferred' \in [Runs -> {"no", "callback", "due"}]
        /\ closing' \in [Runs -> Nat]
    BY NewTasks DEF Restart
  <2>3. spent' \in [retries: [Runs -> 0..MaxRetries], asks: 0..MaxAsks,
                    restarts: 0..MaxRestarts]
    <3>1. spent.restarts < MaxRestarts /\ spent.restarts \in 0..MaxRestarts /\ MaxRestarts \in Nat
      BY <1>1, ConstantsAssumption DEF Restart, Types
    <3>2. spent.restarts + 1 \in 0..MaxRestarts
      BY <3>1
    <3> QED
      BY <1>1, <3>2 DEF Restart, Types
  <2> QED
    BY <2>1, <2>2, <2>3 DEF Types
<1>3. ConvTypes'
  <2>1. turn' \in [Seqs -> TurnRecord]
    <3>1. \A t \in TurnRecord : [t EXCEPT !.status = "failed"] \in TurnRecord
      BY DEF TurnRecord, RunStatus
    <3> QED
      BY <1>1, <3>1 DEF Restart, ConvTypes
  <2>2. drain' \in Drain
    <3>1. NoDrain \in Drain
      BY ConstantsAssumption DEF NoDrain, Drain
    <3>2. NewDrain \in Drain
      BY <3>1 DEF NewDrain, Drain
    <3>3. 1 - drain.generation \in 0..1
      BY <1>1 DEF ConvTypes, Drain
    <3> QED
      BY <3>1, <3>2, <3>3 DEF Restart, DrainOver, Drain
  <2> QED
    BY <1>1, <2>1, <2>2 DEF Restart, ConvTypes
<1>4. ASSUME NEW r \in Runs PROVE RunOK(r)'
  <2>1. RunInv(r) /\ run[r] \in RunRecord /\ spent.retries[r] \in Nat
    BY <1>1, Fields
  <2>2. /\ run'[r].status = IF run[r].status = "running" THEN "failed" ELSE run[r].status
        /\ run'[r].phase = run[r].phase /\ run'[r].plan = run[r].plan
        /\ task'[r] = IF run[r].status = "queued" THEN NewTask ELSE NoTask
        /\ deferred'[r] = "no" /\ closing'[r] = 0 /\ spent'.retries = spent.retries
    BY <1>1, RestartLeaves
  <2>3. RunInv(r)'
    BY <2>1, <2>2, NewTasks DEF RunInv
  <2>4. CancelsAreOwn(r)'
    BY <2>1, <2>2, NewTasks DEF CancelsAreOwn
  <2> QED
    BY <2>3, <2>4 DEF RunOK
<1>5. ConvInv'
  <2>1. /\ \A s \in Seqs : turn'[s].status = IF turn[s].status = "running" THEN "failed"
                                             ELSE turn[s].status
        /\ UNCHANGED conv /\ DrainOver
    BY <1>1, RestartLeaves
  <2>2. Served'
    BY <1>1, <2>1, DrainOverKeeps
  <2>3. \A s, t \in Seqs : turn'[s].status = "absent" /\ s <= t => turn'[t].status = "absent"
    BY <1>1, <2>1 DEF ConvInv
  <2> QED
    BY <2>2, <2>3 DEF Served, ConvInv
<1> QED
  BY <1>2, <1>3, <1>4, <1>5 DEF IInv

(* The invariant is inductive.                                             *)
LEMMA InitInv == Init => IInv
<1> SUFFICES ASSUME Init PROVE IInv
  OBVIOUS
<1>1. Types
  BY NewTasks, ConstantsAssumption DEF Init, Types, RunRecord, RunStatus, RunPhase
<1>2. ConvTypes
  BY ConstantsAssumption DEF Init, ConvTypes, TurnRecord, RunStatus, NoDrain, Drain
<1>3. ASSUME NEW r \in Runs PROVE RunOK(r)
  BY NewTasks DEF Init, RunOK, RunInv, CancelsAreOwn
<1>4. ConvInv
  BY DEF Init, ConvInv, NoDrain
<1> QED
  BY <1>1, <1>2, <1>3, <1>4 DEF IInv

LEMMA NextInv == ASSUME IInv, [Next]_vars PROVE IInv'
<1>1. Types /\ ConvTypes /\ ConvInv /\ \A r \in Runs : RunOK(r)
  BY DEF IInv
<1>2. ASSUME NEW r \in Runs, RunStep(r) PROVE IInv'
  <2>1. Types' /\ OthersKept(r) /\ UNCHANGED convVars
    BY <1>1, <1>2, RunStepFrame
  <2>2. RunOK(r)'
    BY <1>1, <1>2, RunStepKeeps
  <2>3. ASSUME NEW q \in Runs, q # r PROVE RunOK(q)'
    BY <1>1, <2>1, <2>3 DEF OthersKept, RunOK, RunInv, CancelsAreOwn
  <2>4. ConvTypes' /\ ConvInv'
    BY <1>1, <2>1 DEF convVars, ConvTypes, ConvInv
  <2> QED
    BY <2>1, <2>2, <2>3, <2>4 DEF IInv
<1>3. CASE ConvStep
  <2>1. ConvTypes' /\ Types' /\ UNCHANGED runVars /\ spent'.retries = spent.retries
    BY <1>1, <1>3, ConvStepTypes
  <2>2. ConvInv'
    BY <1>1, <1>3, ConvStepKeeps
  <2>3. ASSUME NEW r \in Runs PROVE RunOK(r)'
    BY <1>1, <2>1 DEF runVars, RunOK, RunInv, CancelsAreOwn
  <2> QED
    BY <2>1, <2>2, <2>3 DEF IInv
<1>4. CASE UNCHANGED vars
  BY <1>1, <1>4 DEF vars, IInv, Types, ConvTypes, ConvInv, RunOK, RunInv, CancelsAreOwn
<1> QED
  BY <1>2, <1>3, <1>4, RestartKeeps, StepKinds

-----------------------------------------------------------------------------
(* What follows for behaviours.                                            *)

(* The inductive invariant.                                                *)
THEOREM Invariant == Spec => []IInv
BY InitInv, NextInv, PTL DEF Spec

(* All tables and Tasks are well formed; no more cancel handlers wait for  *)
(* a runtime than the Run was cancelled.                                   *)
THEOREM TypeCorrect == Spec => []TypeOK
<1>1. IInv => TypeOK
  <2> SUFFICES ASSUME IInv PROVE TypeOK
    OBVIOUS
  <2>1. Types /\ ConvTypes /\ \A r \in Runs : RunInv(r)
    BY DEF IInv, RunOK
  <2>2. ASSUME NEW r \in Runs PROVE closing[r] \in 0..(MaxRetries + 1)
    <3>1. closing[r] \in Nat /\ spent.retries[r] \in 0..MaxRetries /\ MaxRetries \in Nat
      BY <2>1, Fields, ConstantsAssumption
    <3>2. closing[r] <= spent.retries[r] + 1
      BY <2>1 DEF RunInv
    <3> QED
      BY <3>1, <3>2
  <2> QED
    BY <2>1, <2>2 DEF TypeOK, Types, ConvTypes
<1> QED
  BY Invariant, <1>1, PTL

(* A RUNNING Run has its Task, and a QUEUED one somebody who will look at  *)
(* it, whatever requests, cancellations, schedules and restarts come in    *)
(* between, until it is retried a second time.                             *)
THEOREM RunsAreExecuted == Spec => []RunsHaveTasks
<1>1. IInv => RunsHaveTasks
  BY DEF IInv, RunOK, RunInv, CancelsAreOwn, RunsHaveTasks
<1> QED
  BY Invariant, <1>1, PTL

(* The Conversation's RUNNING Run is the one its Task executes, and while  *)
(* it can execute a Run it has a Task.                                     *)
THEOREM ConversationIsServed == Spec => []ConversationHasTask
<1>1. IInv => ConversationHasTask
  BY DEF IInv, ConvInv, ConversationHasTask, With
<1> QED
  BY Invariant, <1>1, PTL

-----------------------------------------------------------------------------
(* Refinement of RunContract.                                              *)

(* The variables of RunContract.                                           *)
State == [r \in Runs |-> run[r].status]
Decision == [r \in Runs |-> run[r].plan]
Reports(r) == task[r].pc \in {"setup", "turn"}
Reporting == [r \in Runs |-> Reports(r)]

(* They change at one Run.                                                 *)
LEMMA ContractChanges ==
    ASSUME NEW r \in Runs, OthersKept(r)
    PROVE  /\ State' = [State EXCEPT ![r] = run'[r].status]
           /\ Decision' = [Decision EXCEPT ![r] = run'[r].plan]
           /\ Reporting' = [Reporting EXCEPT ![r] = Reports(r)']
<1>1. \A q \in Runs \ {r} : run'[q] = run[q] /\ Reports(q)' = Reports(q)
  BY DEF OthersKept, Reports
<1> HIDE DEF Reports
<1> QED
  BY <1>1 DEF State, Decision, Reporting

(* A Run whose record a step leaves alone, and its Task's reporting.       *)
LEMMA ContractSame ==
    ASSUME NEW r \in Runs
    PROVE  /\ State = [State EXCEPT ![r] = run[r].status]
           /\ Decision = [Decision EXCEPT ![r] = run[r].plan]
           /\ Reporting = [Reporting EXCEPT ![r] = Reports(r)]
           /\ State[r] = run[r].status /\ Decision[r] = run[r].plan
           /\ Reporting[r] = Reports(r)
BY DEF State, Decision, Reporting

(* A step on a Run, as its owner sees it.                                  *)
Seen(r, statuses, status, plan, reports) ==
    /\ run[r].status \in statuses /\ run'[r].status = status
    /\ run'[r].plan = plan
    /\ Reports(r)' = reports

RunContractStep(r) ==
    \/ Seen(r, {"absent"}, "queued", run[r].plan, Reports(r))
    \/ Seen(r, {"queued", "running"}, "cancelled", run[r].plan, Reports(r))
    \/ /\ run[r].plan = "pending"
       /\ \/ Seen(r, {"waiting"}, "queued", "approved", Reports(r))
          \/ Seen(r, {"waiting"}, "cancelled", "rejected", Reports(r))
    \/ /\ run[r].plan \in {"none", "approved"}
       /\ Seen(r, {"failed", "cancelled"}, "queued", run[r].plan, Reports(r))
    \/ ~Reports(r) /\ Seen(r, {"queued"}, "running", run[r].plan, TRUE)
    \/ /\ Reports(r)
       /\ \/ Seen(r, {"running", "queued"}, "succeeded", run[r].plan, FALSE)
          \/ run[r].plan = "none" /\ Seen(r, {"running", "queued"}, "waiting", "pending", FALSE)
          \/ Seen(r, {"running", "queued"}, "failed", run[r].plan, FALSE)
          \/ Seen(r, {run[r].status}, run[r].status, run[r].plan, FALSE)
    \/ Seen(r, {run[r].status}, run[r].status, run[r].plan, Reports(r))

(* Every step on a Run is seen as one of these.                            *)
LEMMA RunStepsSeen ==
    ASSUME Types, NEW r \in Runs, RunInv(r), RunStep(r)
    PROVE  RunContractStep(r)
<1>1. /\ run[r] \in RunRecord /\ task[r] \in Task /\ run \in [Runs -> RunRecord]
      /\ task \in [Runs -> Task]
      /\ NoTask.pc = "idle" /\ NewTask.pc = "new"
  BY Fields, NewTasks DEF Types
<1> USE DEF RunRecord, Task, Seen, Reports
<1>2. Schedule(r) => (Reports(r)' <=> Reports(r))
  BY <1>1 DEF Schedule
<1>3. ASSUME NEW phase \in {"direct", "planning"}, Submit(r, phase)
      PROVE  RunContractStep(r)
  BY <1>1, <1>2, <1>3 DEF Submit, RunContractStep
<1>4. CASE Cancel(r)
  <2>1. Reports(r)' <=> Reports(r)
    BY <1>1, <1>4 DEF Cancel
  <2>2. /\ run[r].status \in {"queued", "running", "waiting"}
        /\ run'[r].status = "cancelled"
        /\ run'[r].plan = IF run[r].phase = "waiting_approval" THEN "rejected" ELSE run[r].plan
    BY <1>1, <1>4 DEF Cancel
  <2> QED
    BY <2>1, <2>2 DEF RunInv, RunContractStep
<1>5. CASE Retry(r)
  <2>1. run[r].plan \in {"none", "approved"}
    BY <1>1, <1>5 DEF Retry, RunInv, RunPhase
  <2> QED
    BY <1>1, <1>2, <1>5, <2>1 DEF Retry, RunContractStep
<1>6. CASE Approve(r)
  BY <1>1, <1>2, <1>6 DEF Approve, RunInv, RunContractStep
<1>7. CASE Reject(r)
  BY <1>1, <1>7 DEF Reject, RunInv, RunContractStep
<1>8. CASE Begin(r)
  BY <1>1, <1>8 DEF Begin, Goto, TaskOver, RunContractStep
<1>9. CASE GatewayStarted(r)
  BY <1>1, <1>9 DEF GatewayStarted, Goto, RunContractStep
<1>10. CASE Succeed(r)
  <2>1. Reports(r) /\ ~Reports(r)' /\ run[r].status \in {"running", "queued", "cancelled"}
    BY <1>1, <1>10 DEF Succeed, Goto, RunInv
  <2>2. \/ run' = run
        \/ /\ run[r].status # "cancelled" /\ run[r].plan = "none"
           /\ run'[r].status = "waiting" /\ run'[r].plan = "pending"
        \/ /\ run[r].status # "cancelled"
           /\ run'[r].status = "succeeded" /\ run'[r].plan = run[r].plan
    BY <1>1, <1>10 DEF Succeed, RunInv
  <2> QED
    BY <2>1, <2>2 DEF RunContractStep
<1>11. CASE Fail(r)
  <2>1. Reports(r) /\ ~Reports(r)' /\ run[r].status \in {"running", "queued", "cancelled"}
    BY <1>1, <1>11 DEF Fail, Goto, TaskOver, RunInv
  <2>2. \/ run' = run
        \/ /\ run[r].status # "cancelled"
           /\ run'[r].status = "failed" /\ run'[r].plan = run[r].plan
    BY <1>1, <1>11 DEF Fail
  <2> QED
    BY <2>1, <2>2 DEF RunContractStep
<1>12. CASE TaskCancelled(r) \/ Cleanup(r) \/ CancelTask(r) \/ RunDeferred(r)
  <2>1. run' = run /\ (Reports(r)' => Reports(r))
    BY <1>1, <1>12 DEF TaskCancelled, Cleanup, CancelTask, RunDeferred, TaskOver
  <2> QED
    BY <2>1 DEF RunContractStep
<1> QED
  BY <1>3, <1>4, <1>5, <1>6, <1>7, <1>8, <1>9, <1>10, <1>11, <1>12 DEF RunStep, Execute

(* And these are steps of RunContract.                                     *)
LEMMA SeenIsContract ==
    ASSUME NEW r \in Runs, OthersKept(r), RunContractStep(r)
    PROVE  [Contract!Next]_(Contract!vars)
<1>1. /\ State' = [State EXCEPT ![r] = run'[r].status]
      /\ Decision' = [Decision EXCEPT ![r] = run'[r].plan]
      /\ Reporting' = [Reporting EXCEPT ![r] = Reports(r)']
      /\ State = [State EXCEPT ![r] = run[r].status]
      /\ Decision = [Decision EXCEPT ![r] = run[r].plan]
      /\ Reporting = [Reporting EXCEPT ![r] = Reports(r)]
      /\ State[r] = run[r].status /\ Decision[r] = run[r].plan
      /\ Reporting[r] = Reports(r)
  BY ContractChanges, ContractSame
<1>2. CASE Seen(r, {"absent"}, "queued", run[r].plan, Reports(r))
  <2>1. Contract!Submit(r)
    BY <1>1, <1>2 DEF Seen, Contract!Submit, State, Decision, Reporting, Reports
  <2> QED
    BY <2>1 DEF Contract!Next
<1>3. CASE Seen(r, {"queued", "running"}, "cancelled", run[r].plan, Reports(r))
  <2>1. Contract!Cancel(r)
    BY <1>1, <1>3 DEF Seen, Contract!Cancel, State, Decision, Reporting, Reports
  <2> QED
    BY <2>1 DEF Contract!Next
<1>4. CASE run[r].plan = "pending" /\ Seen(r, {"waiting"}, "queued", "approved", Reports(r))
  <2>1. Contract!Decide(r, "approved", "queued")
    BY <1>1, <1>4 DEF Seen, Contract!Decide, State, Decision, Reporting, Reports
  <2> QED
    BY <2>1 DEF Contract!Next
<1>5. CASE run[r].plan = "pending" /\ Seen(r, {"waiting"}, "cancelled", "rejected", Reports(r))
  <2>1. Contract!Decide(r, "rejected", "cancelled")
    BY <1>1, <1>5 DEF Seen, Contract!Decide, State, Decision, Reporting, Reports
  <2> QED
    BY <2>1 DEF Contract!Next
<1>6. CASE /\ run[r].plan \in {"none", "approved"}
           /\ Seen(r, {"failed", "cancelled"}, "queued", run[r].plan, Reports(r))
  <2>1. Contract!Retry(r)
    BY <1>1, <1>6 DEF Seen, Contract!Retry, State, Decision, Reporting, Reports
  <2> QED
    BY <2>1 DEF Contract!Next
<1>7. CASE ~Reports(r) /\ Seen(r, {"queued"}, "running", run[r].plan, TRUE)
  <2>1. Contract!Start(r)
    BY <1>1, <1>7 DEF Seen, Contract!Start, State, Decision, Reporting, Reports
  <2> QED
    BY <2>1 DEF Contract!Next
<1>8. CASE Reports(r) /\ Seen(r, {"running", "queued"}, "succeeded", run[r].plan, FALSE)
  <2>1. Contract!Complete(r)
    BY <1>1, <1>8 DEF Seen, Contract!Complete, Contract!Reported, State, Decision, Reporting, Reports
  <2> QED
    BY <2>1 DEF Contract!Next
<1>9. CASE /\ Reports(r) /\ run[r].plan = "none"
           /\ Seen(r, {"running", "queued"}, "waiting", "pending", FALSE)
  <2>1. Contract!Suspend(r)
    BY <1>1, <1>9 DEF Seen, Contract!Suspend, Contract!Reported, State, Decision, Reporting, Reports
  <2> QED
    BY <2>1 DEF Contract!Next
<1>10. CASE Reports(r) /\ Seen(r, {"running", "queued"}, "failed", run[r].plan, FALSE)
  <2>1. Contract!Fail(r)
    BY <1>1, <1>10 DEF Seen, Contract!Fail, State, Decision, Reporting, Reports
  <2> QED
    BY <2>1 DEF Contract!Next
<1>11. CASE Reports(r) /\ Seen(r, {run[r].status}, run[r].status, run[r].plan, FALSE)
  <2>1. Contract!Vanish(r)
    BY <1>1, <1>11 DEF Seen, Contract!Vanish, State, Decision, Reporting, Reports
  <2> QED
    BY <2>1 DEF Contract!Next
<1>12. CASE Seen(r, {run[r].status}, run[r].status, run[r].plan, Reports(r))
  <2>1. UNCHANGED Contract!vars
    BY <1>1, <1>12 DEF Seen, Contract!vars, State, Decision, Reporting, Reports
  <2> QED
    BY <2>1 DEF Contract!Next
<1> QED
  BY <1>2, <1>3, <1>4, <1>5, <1>6, <1>7, <1>8, <1>9, <1>10, <1>11, <1>12 DEF RunContractStep

(* One process keeps for a standalone Run what Workers keep.               *)
THEOREM ContractRefinement == Spec => ImplementsContract
<1>1. Init => Contract!Init
  <2> SUFFICES ASSUME Init PROVE Contract!Init
    OBVIOUS
  <2>1. \A r \in Runs : Reports(r) = FALSE
    BY NewTasks DEF Init, Reports
  <2>2. Reporting = [r \in Runs |-> FALSE]
    BY <2>1 DEF Reporting
  <2>3. State = [r \in Runs |-> "absent"] /\ Decision = [r \in Runs |-> "none"]
    BY DEF Init, State, Decision
  <2> QED
    BY <2>2, <2>3 DEF Contract!Init, State, Decision, Reporting, Reports
<1>2. ASSUME IInv, IInv', [Next]_vars PROVE [Contract!Next]_(Contract!vars)
  <2>1. Types /\ ConvTypes /\ \A r \in Runs : RunInv(r)
    BY <1>2 DEF IInv, RunOK
  <2>2. ASSUME NEW r \in Runs, RunStep(r) PROVE [Contract!Next]_(Contract!vars)
    BY <2>1, <2>2, RunStepFrame, RunStepsSeen, SeenIsContract
  <2>3. CASE ConvStep \/ UNCHANGED vars
    <3>1. UNCHANGED <<run, task>>
      BY <1>2, <2>1, <2>3, ConvStepTypes DEF runVars, vars, IInv
    <3>2. UNCHANGED Contract!vars
      BY <3>1 DEF Contract!vars
    <3> QED
      BY <3>2
  <2>4. CASE Restart
    <3>1. \A r \in Runs :
             /\ run'[r].status = IF run[r].status = "running" THEN "failed" ELSE run[r].status
             /\ run'[r].plan = run[r].plan
             /\ Reports(r)' = FALSE
      <4>1. \A r \in Runs : task'[r] \in {NewTask, NoTask}
        BY <2>1, <2>4, RestartLeaves
      <4>2. \A r \in Runs : task'[r].pc \notin {"setup", "turn"}
        BY <4>1, NewTasks
      <4>3. \A r \in Runs : Reports(r)' = FALSE
        BY <4>2 DEF Reports
      <4> QED
        BY <2>1, <2>4, <4>3, RestartLeaves
    <3>2. /\ State' = [r \in Runs |-> IF State[r] = "running" THEN "failed" ELSE State[r]]
          /\ Decision' = Decision
          /\ Reporting' = [r \in Runs |-> FALSE]
      BY <3>1 DEF State, Decision, Reporting
    <3>3. Contract!Restart
      BY <3>2 DEF Contract!Restart, State, Decision, Reporting, Reports
    <3> QED
      BY <3>3 DEF Contract!Next
  <2> QED
    BY <1>2, <2>2, <2>3, <2>4, StepKinds
<1> QED
  BY <1>1, <1>2, Invariant, PTL DEF Spec, Contract!Spec, ImplementsContract

-----------------------------------------------------------------------------
(* Refinement of TurnQueue.                                                *)

(* How the status of a Run maps to the state of its Turn.                  *)
TurnOf(status) ==
    CASE status \in TerminalRunStatuses -> "ended"
      [] status = "running" -> "active"
      [] status = "waiting" -> "suspended"
      [] OTHER -> status

TurnTable == [s \in Seqs |-> TurnOf(turn[s].status)]

(* Status by status.                                                       *)
LEMMA TurnOfValues ==
    /\ TurnOf("absent") = "absent" /\ TurnOf("queued") = "queued"
    /\ TurnOf("running") = "active" /\ TurnOf("waiting") = "suspended"
    /\ TurnOf("succeeded") = "ended" /\ TurnOf("failed") = "ended"
    /\ TurnOf("cancelled") = "ended"
BY DEF TurnOf, TerminalRunStatuses

(* A step of a Turn is one of the queue.                                   *)
LEMMA MapTurn ==
    ASSUME ConvTypes, ConvInv, NEW s \in Seqs, TurnStep(s)
    PROVE  [Turns!Next]_(Turns!vars)
<1>1. \A t \in Seqs \ {s} : turn'[t] = turn[t]
  BY DEF TurnStep, TurnMoves
<1>2. /\ \A t \in Seqs : TurnTable[t] = TurnOf(turn[t].status)
      /\ TurnTable' = [TurnTable EXCEPT ![s] = TurnOf(turn'[s].status)]
  BY <1>1 DEF TurnTable
<1>3. /\ \A t \in Seqs : turn[t].status \in
              {"absent", "queued", "running", "waiting", "succeeded", "failed", "cancelled"}
      /\ conv \in {"active", "blocked"}
  BY DEF ConvTypes, TurnRecord, RunStatus
<1>4. CASE /\ TurnMoves(s, {"absent"}, {"queued"}) /\ conv = "active"
           /\ \A t \in Seqs : turn[t].status # "waiting"
           /\ \A t \in Seqs : turn[t].status = "absent" => s <= t
           /\ UNCHANGED conv
  <2>1. \A t \in Seqs : turn[t].status = "absent" <=> s <= t
    BY <1>4 DEF TurnMoves, ConvInv
  <2>2. /\ \A t \in Seqs : TurnTable[t] = "absent" <=> s <= t
        /\ \A t \in Seqs : TurnTable[t] # "suspended"
    BY <1>2, <1>3, <1>4, <2>1, TurnOfValues
  <2>3. TurnTable' = [TurnTable EXCEPT ![s] = "queued"]
    BY <1>2, <1>4, TurnOfValues DEF TurnMoves
  <2>4. Turns!Append(s)
    BY <1>4, <2>2, <2>3 DEF Turns!Append, TurnTable, TurnOf
  <2> QED
    BY <2>4 DEF Turns!Next
<1>5. CASE /\ TurnMoves(s, {"queued"}, {"running"})
           /\ \A t \in Seqs : /\ turn[t].status \notin {"running", "waiting"}
                              /\ turn[t].status = "queued" => s <= t
           /\ UNCHANGED conv
  <2>1. /\ TurnTable[s] = "queued"
        /\ \A t \in Seqs : /\ TurnTable[t] \notin {"active", "suspended"}
                           /\ TurnTable[t] = "queued" => s <= t
    BY <1>2, <1>3, <1>5, TurnOfValues DEF TurnMoves
  <2>2. TurnTable' = [TurnTable EXCEPT ![s] = "active"]
    BY <1>2, <1>5, TurnOfValues DEF TurnMoves
  <2>3. Turns!Start(s)
    BY <1>5, <2>1, <2>2 DEF Turns!Start, Turns!Served, TurnTable, TurnOf
  <2> QED
    BY <2>3 DEF Turns!Next
<1>6. CASE TurnMoves(s, {"running"}, {"waiting"}) /\ UNCHANGED conv
  <2>1. TurnTable[s] = "active" /\ TurnTable' = [TurnTable EXCEPT ![s] = "suspended"]
    BY <1>2, <1>6, TurnOfValues DEF TurnMoves
  <2>2. Turns!Suspend(s)
    BY <1>6, <2>1 DEF Turns!Suspend, TurnTable, TurnOf
  <2> QED
    BY <2>2 DEF Turns!Next
<1>7. CASE TurnMoves(s, {"waiting"}, {"queued"}) /\ UNCHANGED conv
  <2>1. TurnTable[s] = "suspended" /\ TurnTable' = [TurnTable EXCEPT ![s] = "queued"]
    BY <1>2, <1>7, TurnOfValues DEF TurnMoves
  <2>2. Turns!Answer(s)
    BY <1>7, <2>1 DEF Turns!Answer, TurnTable, TurnOf
  <2> QED
    BY <2>2 DEF Turns!Next
<1>8. CASE /\ TurnMoves(s, {"queued", "running", "waiting"}, TerminalRunStatuses)
           /\ conv' \in {conv, "blocked"}
  <2>1. /\ TurnTable[s] \in {"queued", "active", "suspended"}
        /\ TurnTable' = [TurnTable EXCEPT ![s] = "ended"]
    BY <1>2, <1>8, TurnOfValues DEF TurnMoves, TerminalRunStatuses
  <2>2. Turns!End(s)
    BY <1>3, <1>8, <2>1 DEF Turns!End, TurnTable, TurnOf
  <2> QED
    BY <2>2 DEF Turns!Next
<1> QED
  BY <1>4, <1>5, <1>6, <1>7, <1>8 DEF TurnStep

(* A restart ends the Turn that was RUNNING, which is one at most.         *)
LEMMA RestartTurns ==
    ASSUME Types, ConvTypes, ConvInv, Restart
    PROVE  [Turns!Next]_(Turns!vars)
<1>1. /\ \A s \in Seqs : turn'[s].status = IF turn[s].status = "running" THEN "failed"
                                           ELSE turn[s].status
      /\ UNCHANGED conv
  BY RestartLeaves
<1>2. CASE \A s \in Seqs : turn[s].status # "running"
  <2>1. TurnTable' = TurnTable
    BY <1>1, <1>2 DEF TurnTable
  <2>2. UNCHANGED Turns!vars
    BY <1>1, <2>1 DEF Turns!vars, TurnTable, TurnOf
  <2> QED
    BY <2>2
<1>3. ASSUME NEW s \in Seqs, turn[s].status = "running"
      PROVE  [Turns!Next]_(Turns!vars)
  <2>1. \A t \in Seqs \ {s} : turn[t].status # "running"
    BY <1>3 DEF ConvInv
  <2>2. TurnTable' = [TurnTable EXCEPT ![s] = "ended"]
    BY <1>1, <1>3, <2>1, TurnOfValues DEF TurnTable
  <2>3. TurnTable[s] = "active"
    BY <1>3, TurnOfValues DEF TurnTable
  <2>4. Turns!End(s)
    BY <1>1, <2>2, <2>3 DEF Turns!End, TurnTable, TurnOf
  <2> QED
    BY <2>4 DEF Turns!Next
<1> QED
  BY <1>2, <1>3

(* The Conversation of one process is the queue that Workers keep, without *)
(* a unique index or a lease: one Task drains it at a time.                *)
THEOREM QueueRefinement == Spec => ImplementsTurns
<1>1. Init => Turns!Init
  BY DEF Init, Turns!Init, TerminalRunStatuses
<1>2. ASSUME IInv, IInv', [Next]_vars PROVE [Turns!Next]_(Turns!vars)
  <2>1. Types /\ ConvTypes /\ ConvInv
    BY <1>2 DEF IInv
  <2>2. CASE ConvStep
    <3>1. CASE NoTurnStep
      <4>1. TurnTable' = TurnTable
        BY <3>1 DEF NoTurnStep, TurnTable
      <4>2. Turns!Shut \/ UNCHANGED Turns!vars
        BY <3>1, <4>1 DEF NoTurnStep, Turns!Shut, Turns!vars, TurnTable, TurnOf
      <4> QED
        BY <4>2 DEF Turns!Next
    <3>2. ASSUME NEW s \in Seqs, TurnStep(s) PROVE [Turns!Next]_(Turns!vars)
      BY <2>1, <3>2, MapTurn
    <3> QED
      BY <2>1, <2>2, <3>1, <3>2, ConvSteps
  <2>3. CASE (\E r \in Runs : RunStep(r)) \/ UNCHANGED vars
    <3>1. UNCHANGED convVars
      BY <2>1, <2>3, RunStepFrame DEF vars, convVars
    <3>2. TurnTable' = TurnTable
      BY <3>1 DEF convVars, TurnTable
    <3>3. UNCHANGED Turns!vars
      BY <3>1, <3>2 DEF convVars, Turns!vars, TurnTable, TurnOf
    <3> QED
      BY <3>3
  <2>4. CASE Restart
    BY <2>1, <2>4, RestartTurns
  <2> QED
    BY <1>2, <2>2, <2>3, <2>4, StepKinds
<1> QED
  BY <1>1, <1>2, Invariant, PTL DEF Spec, Turns!Spec, ImplementsTurns

=============================================================================
