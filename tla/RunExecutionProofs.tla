------------------------- MODULE RunExecutionProofs -------------------------
(***************************************************************************)
(* Theorems about RunExecution for every number of Runs and Workers and    *)
(* every value of the bounds.                                              *)
(***************************************************************************)
EXTENDS RunExecutionInvariant, TLAPS

(* The bound on Attempts is a number, and Attempts are numbered from 1.    *)
LEMMA NumberTypes ==
    /\ 0 \in NumberOrNone
    /\ Numbers = NumberOrNone \ {0}
    /\ NumberOrNone \subseteq Nat
    /\ \A n \in NumberOrNone : n < MaxAttempts => n + 1 \in Numbers
    /\ MaxAttempts \in Nat
BY ConstantsAssumption DEF MaxAttempts, Numbers, NumberOrNone

(* Nothing is submitted, claimed or decided yet: IInv holds at the start.  *)
LEMMA InitInv == Init => IInv
<1> SUFFICES ASSUME Init PROVE IInv
  OBVIOUS
<1>1. TypeOK
  BY ConstantsAssumption, NumberTypes
  DEF Init, TypeOK, RunRecord, RunAttempt, Task, NoRun, NoAttempt, NoTask, RunStatus,
      RunPhase, AttemptStatus, DispatchState, TaskPc, Numbers
<1>2. ASSUME NEW r \in Runs PROVE RunInv(r)
  BY <1>2, ConstantsAssumption DEF Init, RunInv, NoRun, NoAttempt, Approvals, Numbers
<1>3. ASSUME NEW w \in Workers, NEW r \in Runs PROVE TaskInv(w, r)
  BY <1>3 DEF Init, TaskInv, NoTask, Executing
<1> QED
  BY <1>1, <1>2, <1>3 DEF IInv

-----------------------------------------------------------------------------
(* Types: a store method that writes a well-formed row keeps its table     *)
(* well-formed, whatever row it is.                                        *)

(* _update_run.                                                            *)
LEMMA ReplaceRunType ==
    ASSUME TypeOK, NEW r \in Runs, NEW row \in RunRecord, ReplaceRun(r, row)
    PROVE  run' \in [Runs -> RunRecord]
<1>1. [row EXCEPT !.rev = @ + 1] \in RunRecord
  BY DEF RunRecord
<1> QED
  BY <1>1 DEF TypeOK, ReplaceRun

(* _update_attempt.                                                        *)
LEMMA ReplaceAttemptType ==
    ASSUME TypeOK, NEW r \in Runs, NEW n \in Numbers, NEW row \in RunAttempt,
           ReplaceAttempt(r, n, row)
    PROVE  attempt' \in [Runs -> [Numbers -> RunAttempt]]
<1>1. [row EXCEPT !.rev = @ + 1] \in RunAttempt
  BY DEF RunAttempt
<1> QED
  BY <1>1 DEF TypeOK, ReplaceAttempt

(* A step of one task.                                                     *)
LEMMA BecomeType ==
    ASSUME TypeOK, NEW w \in Workers, NEW r \in Runs, NEW t \in Task, Become(w, r, t)
    PROVE  task' \in [Workers -> [Runs -> Task]]
BY DEF TypeOK, Become

(* The rows and tasks themselves.                                          *)
LEMMA RowTypes ==
    ASSUME TypeOK, NEW r \in Runs
    PROVE  /\ run[r] \in RunRecord
           /\ \A n \in Numbers : attempt[r][n] \in RunAttempt
           /\ \A w \in Workers : task[w][r] \in Task
BY DEF TypeOK

(* The moves of a task between its places.                                 *)
LEMMA TaskMoveType ==
    ASSUME TypeOK, NEW w \in Workers, NEW r \in Runs
    PROVE  /\ \A pc \in TaskPc : Goto(w, r, pc) => task' \in [Workers -> [Runs -> Task]]
           /\ Close(w, r) => task' \in [Workers -> [Runs -> Task]]
           /\ \A pc \in TaskPc :
                 ReadForSettlement(w, r, pc) /\ task[w][r].number # 0 =>
                    task' \in [Workers -> [Runs -> Task]]
<1> task[w][r] \in Task /\ run[r] \in RunRecord /\ \A n \in Numbers : attempt[r][n] \in RunAttempt
  BY RowTypes
<1>1. ASSUME NEW pc \in TaskPc, Goto(w, r, pc) PROVE task' \in [Workers -> [Runs -> Task]]
  <2>1. [task[w][r] EXCEPT !.pc = pc, !.runRev = 0, !.attemptRev = 0] \in Task
    BY DEF Task
  <2> QED
    BY <1>1, <2>1, BecomeType DEF Goto
<1>2. ASSUME Close(w, r) PROVE task' \in [Workers -> [Runs -> Task]]
  <2>1. [NoTask EXCEPT !.pc = "closing", !.token = task[w][r].token] \in Task
    BY NumberTypes DEF Task, NoTask, TaskPc, RunPhase
  <2> QED
    BY <1>2, <2>1, BecomeType DEF Close
<1>3. ASSUME NEW pc \in TaskPc, ReadForSettlement(w, r, pc), task[w][r].number # 0
      PROVE  task' \in [Workers -> [Runs -> Task]]
  <2> DEFINE n == task[w][r].number
  <2>1. n \in Numbers
    BY <1>3, NumberTypes DEF Task
  <2>2. run[r].rev \in Nat /\ attempt[r][n].rev \in Nat
    BY <2>1 DEF RunRecord, RunAttempt
  <2>3. [task[w][r] EXCEPT !.pc = pc, !.runRev = run[r].rev,
                           !.attemptRev = attempt[r][n].rev] \in Task
    BY <2>2 DEF Task
  <2> QED
    <3>1. CASE run[r].status = "cancelled"
      BY <1>2, <1>3, <3>1 DEF ReadForSettlement
    <3>2. CASE run[r].status # "cancelled"
      BY <1>3, <2>3, <3>2, BecomeType DEF ReadForSettlement
    <3> QED
      BY <3>1, <3>2
<1> QED
  BY <1>1, <1>2, <1>3

(* Requests keep the tables well-formed.                                   *)
LEMMA ClientType ==
    ASSUME TypeOK, NEW r \in Runs, Client(r)
    PROVE  TypeOK'
<1> run[r] \in RunRecord /\ \A n \in Numbers : attempt[r][n] \in RunAttempt
  BY RowTypes
<1>1. ASSUME NEW phase \in {"direct", "planning"}, Submit(r, phase) PROVE TypeOK'
  <2>1. [NoRun EXCEPT !.status = "queued", !.phase = phase] \in RunRecord
    BY NumberTypes DEF NoRun, RunRecord, RunStatus, RunPhase
  <2> QED
    BY <1>1, <2>1 DEF Submit, TypeOK
<1>2. CASE CancelWaiting(r)
  <2>1. [run[r] EXCEPT !.status = "cancelled", !.active = 0, !.required = FALSE] \in RunRecord
    BY NumberTypes DEF RunRecord, RunStatus
  <2>2. run' \in [Runs -> RunRecord]
    BY <1>2, <2>1, ReplaceRunType DEF CancelWaiting
  <2> QED
    BY <1>2, <2>2 DEF CancelWaiting, TypeOK
<1>3. CASE Cancel(r)
  <2>1. [run[r] EXCEPT !.status = "cancelled"] \in RunRecord
    BY NumberTypes DEF RunRecord, RunStatus
  <2>2. run' \in [Runs -> RunRecord]
    BY <1>3, <2>1, ReplaceRunType DEF Cancel
  <2>3. attempt' \in [Runs -> [Numbers -> RunAttempt]]
    <3> DEFINE n == run[r].active
    <3>1. CASE n # 0 /\ attempt[r][n].status = "running"
      <4>1. n \in Numbers
        BY <3>1, NumberTypes DEF RunRecord
      <4>2. [attempt[r][n] EXCEPT !.status = "cancelled", !.dispatch = "settled"] \in RunAttempt
        BY <4>1 DEF RunAttempt, AttemptStatus, DispatchState
      <4> QED
        BY <1>3, <3>1, <4>1, <4>2, ReplaceAttemptType DEF Cancel
    <3>2. CASE ~(n # 0 /\ attempt[r][n].status = "running")
      BY <1>3, <3>2 DEF Cancel, TypeOK
    <3> QED
      BY <3>1, <3>2
  <2> QED
    BY <1>3, <2>2, <2>3 DEF Cancel, TypeOK
<1>4. CASE Retry(r)
  <2>1. [run[r] EXCEPT !.status = "queued", !.active = 0] \in RunRecord
    BY NumberTypes DEF RunRecord, RunStatus
  <2>2. run' \in [Runs -> RunRecord]
    BY <1>4, <2>1, ReplaceRunType DEF Retry
  <2>3. retries' \in [Runs -> 0..MaxRetries]
    <3>1. retries[r] + 1 \in 0..MaxRetries
      BY <1>4, ConstantsAssumption DEF Retry, TypeOK
    <3> QED
      BY <1>4, <3>1 DEF Retry, TypeOK
  <2> QED
    BY <1>4, <2>2, <2>3 DEF Retry, TypeOK
<1>5. CASE Approve(r)
  <2>1. [run[r] EXCEPT !.status = "queued", !.phase = "executing",
                       !.active = 0, !.required = FALSE] \in RunRecord
    BY NumberTypes DEF RunRecord, RunStatus, RunPhase
  <2>2. run' \in [Runs -> RunRecord]
    BY <1>5, <2>1, ReplaceRunType DEF Approve
  <2> QED
    BY <1>5, <2>2 DEF Approve, TypeOK
<1>6. CASE Reject(r)
  <2>1. [run[r] EXCEPT !.status = "cancelled", !.active = 0, !.required = FALSE] \in RunRecord
    BY NumberTypes DEF RunRecord, RunStatus
  <2>2. run' \in [Runs -> RunRecord]
    BY <1>6, <2>1, ReplaceRunType DEF Reject
  <2> QED
    BY <1>6, <2>2 DEF Reject, TypeOK
<1> QED
  BY <1>1, <1>2, <1>3, <1>4, <1>5, <1>6 DEF Client

(* The budget of disturbances is not overdrawn.                            *)
LEMMA DisturbType == TypeOK /\ Disturb => disturbances' \in 0..MaxDisturbances
BY ConstantsAssumption DEF TypeOK, Disturb

(* Grants of the lease, its loss, and the reconciler.                      *)
LEMMA LeaseType ==
    ASSUME TypeOK, NEW w, NEW r \in Runs,
           \/ /\ w \in Workers
              /\ Claim(w, r) \/ ClaimAndHandBack(w, r) \/ Crash(w) \/ TaskCancelled(w, r)
           \/ LeaseMissed(r) \/ LeaseLapses(r) \/ InterruptExpired(r)
    PROVE  TypeOK'
<1>1. CASE w \in Workers /\ Claim(w, r)
  <2>1. lease[r].token + 1 \in Nat
    BY DEF TypeOK
  <2>2. [NoTask EXCEPT !.pc = "claimed", !.token = lease[r].token + 1] \in Task
    BY <2>1, NumberTypes DEF Task, NoTask, TaskPc, RunPhase
  <2>3. task' \in [Workers -> [Runs -> Task]]
    BY <1>1, <2>2, BecomeType DEF Claim
  <2> QED
    BY <1>1, <2>1, <2>3 DEF Claim, TypeOK
<1>2. CASE w \in Workers /\ ClaimAndHandBack(w, r)
  <2>1. lease[r].token + 1 \in Nat
    BY DEF TypeOK
  <2>2. lease' \in [Runs -> [holder: Workers \cup {NoWorker}, token: Nat, live: BOOLEAN]]
    BY <1>2, <2>1 DEF ClaimAndHandBack, TypeOK
  <2>3. disturbances' \in 0..MaxDisturbances
    BY <1>2, ConstantsAssumption DEF ClaimAndHandBack, TypeOK
  <2> QED
    BY <1>2, <2>2, <2>3 DEF ClaimAndHandBack, TypeOK
<1>3. CASE LeaseMissed(r)
  BY <1>3, DisturbType DEF LeaseMissed, TypeOK
<1>4. CASE LeaseLapses(r)
  BY <1>4 DEF LeaseLapses, TypeOK
<1>5. CASE w \in Workers /\ Crash(w)
  <2>1. NoTask \in Task
    BY NumberTypes DEF Task, NoTask, TaskPc, RunPhase
  <2> QED
    BY <1>5, <2>1, DisturbType DEF Crash, TypeOK
<1>6. CASE w \in Workers /\ TaskCancelled(w, r)
  <2>1. task' \in [Workers -> [Runs -> Task]]
    BY <1>6, TaskMoveType DEF TaskCancelled
  <2> QED
    BY <1>6, <2>1, DisturbType DEF TaskCancelled, TypeOK
<1>7. CASE InterruptExpired(r)
  <2> DEFINE n == run[r].active
  <2>1. n \in Numbers /\ run[r] \in RunRecord /\ attempt[r][n] \in RunAttempt
    BY <1>7, RowTypes, NumberTypes DEF InterruptExpired, RunRecord
  <2>2. [attempt[r][n] EXCEPT !.status = "interrupted", !.dispatch = "unknown"] \in RunAttempt
    BY <2>1 DEF RunAttempt, AttemptStatus, DispatchState
  <2>3. [run[r] EXCEPT !.status = "failed"] \in RunRecord
    BY <2>1 DEF RunRecord, RunStatus
  <2>4. run' \in [Runs -> RunRecord] /\ attempt' \in [Runs -> [Numbers -> RunAttempt]]
    BY <1>7, <2>1, <2>2, <2>3, ReplaceRunType, ReplaceAttemptType DEF InterruptExpired
  <2> QED
    BY <1>7, <2>4 DEF InterruptExpired, TypeOK
<1> QED
  BY <1>1, <1>2, <1>3, <1>4, <1>5, <1>6, <1>7

(* A task inside _execute has an Attempt, and there is room for the one    *)
(* that begin_attempt is about to add.                                     *)
LEMMA ExecutingHasAttempt ==
    ASSUME IInv, NEW w \in Workers, NEW r \in Runs, Executing(w, r)
    PROVE  task[w][r].number \in Numbers
<1>1. TypeOK /\ TaskInv(w, r)
  BY DEF IInv
<1>2. run[r] \in RunRecord
  BY <1>1, RowTypes
<1> QED
  BY <1>1, <1>2, ConstantsAssumption
  DEF TaskInv, RunRecord, Numbers, NumberOrNone, MaxAttempts

LEMMA RoomForAttempt ==
    ASSUME IInv, NEW w \in Workers, NEW r \in Runs, BeginAttempt(w, r)
    PROVE  run[r].status = "queued" /\ run[r].count + 1 \in Numbers
<1>1. TypeOK /\ TaskInv(w, r) /\ RunInv(r)
  BY DEF IInv
<1>2. run[r].status = "queued"
  BY <1>1 DEF BeginAttempt, TaskInv
<1>3. run[r].count <= retries[r] + Approvals(r)
  BY <1>1, <1>2 DEF RunInv
<1>4. run[r].count \in Nat
  BY <1>1, RowTypes, NumberTypes DEF RunRecord
<1>5. retries[r] \in 0..MaxRetries
  BY <1>1 DEF TypeOK
<1>6. Approvals(r) \in 0..1
  BY DEF Approvals
<1> QED
  BY <1>2, <1>3, <1>4, <1>5, <1>6, ConstantsAssumption DEF Numbers, MaxAttempts

(* The settlements write well-formed Attempts.                             *)
LEMMA SettleAttemptType ==
    ASSUME TypeOK, NEW w \in Workers, NEW r \in Runs, task[w][r].number \in Numbers,
           NEW status \in AttemptStatus, SettleAttempt(w, r, status)
    PROVE  attempt' \in [Runs -> [Numbers -> RunAttempt]]
<1> DEFINE n == task[w][r].number
<1>1. attempt[r][n] \in RunAttempt
  BY RowTypes
<1>2. [attempt[r][n] EXCEPT !.status = status, !.dispatch = "settled"] \in RunAttempt
  BY <1>1 DEF RunAttempt, DispatchState
<1> QED
  BY <1>2, ReplaceAttemptType DEF SettleAttempt

LEMMA SetDispatchStateType ==
    ASSUME TypeOK, NEW w \in Workers, NEW r \in Runs, task[w][r].number \in Numbers,
           NEW state \in DispatchState, NEW pc \in TaskPc, SetDispatchState(w, r, state, pc)
    PROVE  /\ attempt' \in [Runs -> [Numbers -> RunAttempt]]
           /\ task' \in [Workers -> [Runs -> Task]]
<1> DEFINE n == task[w][r].number
<1>1. attempt[r][n] \in RunAttempt
  BY RowTypes
<1>2. [attempt[r][n] EXCEPT !.dispatch = state] \in RunAttempt
  BY <1>1 DEF RunAttempt
<1>3. attempt' \in [Runs -> [Numbers -> RunAttempt]]
  <2>1. UNCHANGED attempt \/ ReplaceAttempt(r, n, [attempt[r][n] EXCEPT !.dispatch = state])
    BY DEF SetDispatchState
  <2>2. CASE UNCHANGED attempt
    BY <2>2 DEF TypeOK
  <2>3. CASE ReplaceAttempt(r, n, [attempt[r][n] EXCEPT !.dispatch = state])
    BY <2>3, <1>2, ReplaceAttemptType
  <2> QED
    BY <2>1, <2>2, <2>3
<1>4. Goto(w, r, pc) \/ Close(w, r)
  BY DEF SetDispatchState
<1> QED
  BY <1>3, <1>4, TaskMoveType

(* Everything a task does keeps the tables well-formed.                    *)
LEMMA ExecuteType ==
    ASSUME IInv, NEW w \in Workers, NEW r \in Runs, Execute(w, r)
    PROVE  TypeOK'
<1> DEFINE n == task[w][r].number
<1>0. TypeOK /\ run[r] \in RunRecord /\ task[w][r] \in Task
  BY RowTypes DEF IInv
<1>n. Executing(w, r) => n \in Numbers /\ n # 0
  BY ExecutingHasAttempt, NumberTypes
<1>1. CASE ReadQueued(w, r)
  <2>1. [task[w][r] EXCEPT !.pc = "begin", !.runRev = run[r].rev] \in Task
    BY <1>0 DEF RunRecord, Task, TaskPc
  <2>2. CASE run[r].status = "queued"
    <3>1. task' \in [Workers -> [Runs -> Task]]
      BY <1>0, <1>1, <2>1, <2>2, BecomeType DEF ReadQueued
    <3> QED
      BY <1>0, <1>1, <3>1 DEF ReadQueued, TypeOK
  <2>3. CASE run[r].status # "queued"
    <3>1. task' \in [Workers -> [Runs -> Task]]
      BY <1>0, <1>1, <2>3, TaskMoveType DEF ReadQueued
    <3> QED
      BY <1>0, <1>1, <3>1 DEF ReadQueued, TypeOK
  <2> QED
    BY <2>2, <2>3
<1>2. CASE BeginAttempt(w, r)
  <2> DEFINE k == run[r].count + 1
  <2>1. k \in Numbers /\ k \in NumberOrNone
    BY <1>2, RoomForAttempt, NumberTypes
  <2>2. [run[r] EXCEPT !.status = "running", !.count = k, !.active = k] \in RunRecord
    BY <1>0, <2>1 DEF RunRecord, RunStatus
  <2>3. run' \in [Runs -> RunRecord]
    BY <1>0, <1>2, <2>2, ReplaceRunType DEF BeginAttempt
  <2>4. [NoAttempt EXCEPT !.status = "running", !.phase = run[r].phase,
                          !.worker = w, !.token = task[w][r].token] \in RunAttempt
    BY <1>0 DEF NoAttempt, RunAttempt, RunRecord, Task, AttemptStatus, DispatchState
  <2>5. attempt' \in [Runs -> [Numbers -> RunAttempt]]
    BY <1>0, <1>2, <2>1, <2>4 DEF BeginAttempt, TypeOK
  <2>6. [task[w][r] EXCEPT !.pc = "started", !.number = k,
                           !.phase = run[r].phase, !.runRev = 0] \in Task
    BY <1>0, <2>1 DEF Task, TaskPc, RunRecord
  <2>7. task' \in [Workers -> [Runs -> Task]]
    BY <1>0, <1>2, <2>6, BecomeType DEF BeginAttempt
  <2> QED
    BY <1>0, <1>2, <2>3, <2>5, <2>7 DEF BeginAttempt, TypeOK
<1>3. CASE \/ BeginRefused(w, r) \/ ExecuteFails(w, r) \/ SettleRefused(w, r)
           \/ Report(w, r) \/ ReportFails(w, r) \/ FailureRefused(w, r)
  <2>1. Goto(w, r, "fail") \/ Close(w, r)
    BY <1>3 DEF BeginRefused, ExecuteFails, SettleRefused, Report, ReportFails, FailureRefused
  <2>2. UNCHANGED <<run, attempt, plan, action, lease, retries, disturbances>>
    BY <1>3 DEF BeginRefused, ExecuteFails, SettleRefused, Report, ReportFails, FailureRefused
  <2>3. task' \in [Workers -> [Runs -> Task]]
    BY <1>0, <2>1, TaskMoveType DEF TaskPc
  <2> QED
    BY <1>0, <2>2, <2>3 DEF TypeOK
<1>4. CASE Dispatch(w, r) \/ Accept(w, r)
  <2>1. SetDispatchState(w, r, "dispatching", "dispatched")
          \/ SetDispatchState(w, r, "accepted", "accepted")
    BY <1>4 DEF Dispatch, Accept
  <2>2. n \in Numbers
    BY <1>4, <1>n DEF Dispatch, Accept, Executing
  <2>3. /\ attempt' \in [Runs -> [Numbers -> RunAttempt]]
        /\ task' \in [Workers -> [Runs -> Task]]
    BY <1>0, <2>1, <2>2, SetDispatchStateType DEF DispatchState, TaskPc
  <2> QED
    BY <1>0, <1>4, <2>3 DEF Dispatch, Accept, TypeOK
<1>5. CASE Finish(w, r) \/ ReadForFailure(w, r)
  <2>1. ReadForSettlement(w, r, "settle") \/ ReadForSettlement(w, r, "failSettle")
    BY <1>5 DEF Finish, ReadForFailure
  <2>2. n # 0
    BY <1>5, <1>n DEF Finish, ReadForFailure, Executing
  <2>3. task' \in [Workers -> [Runs -> Task]]
    BY <1>0, <2>1, <2>2, TaskMoveType DEF TaskPc
  <2> QED
    BY <1>0, <1>5, <2>3 DEF Finish, ReadForFailure, TypeOK
<1>6. CASE SettleSuccess(w, r) \/ SettlePlanning(w, r) \/ SettleFailure(w, r)
  <2>1. n \in Numbers
    BY <1>6, <1>n DEF SettleSuccess, SettlePlanning, SettleFailure, Executing
  <2>2. attempt' \in [Runs -> [Numbers -> RunAttempt]]
    <3>1. SettleAttempt(w, r, "succeeded") \/ SettleAttempt(w, r, "failed")
      BY <1>6 DEF SettleSuccess, SettlePlanning, SettleFailure
    <3> QED
      BY <1>0, <2>1, <3>1, SettleAttemptType DEF AttemptStatus
  <2>3. task' \in [Workers -> [Runs -> Task]]
    <3>1. Goto(w, r, "report") \/ Close(w, r)
      BY <1>6 DEF SettleSuccess, SettlePlanning, SettleFailure
    <3> QED
      BY <1>0, <3>1, TaskMoveType DEF TaskPc
  <2>4. CASE SettleSuccess(w, r)
    <3>1. [run[r] EXCEPT !.status = "succeeded", !.phase = "completed"] \in RunRecord
      BY <1>0 DEF RunRecord, RunStatus, RunPhase
    <3>2. run' \in [Runs -> RunRecord]
      BY <1>0, <2>4, <3>1, ReplaceRunType DEF SettleSuccess
    <3> QED
      BY <1>0, <2>2, <2>3, <2>4, <3>2 DEF SettleSuccess, TypeOK
  <2>5. CASE SettlePlanning(w, r)
    <3>1. [run[r] EXCEPT !.status = "waiting", !.phase = "waiting_approval",
                         !.required = TRUE] \in RunRecord
      BY <1>0 DEF RunRecord, RunStatus, RunPhase
    <3>2. run' \in [Runs -> RunRecord]
      BY <1>0, <2>5, <3>1, ReplaceRunType DEF SettlePlanning
    <3>3. n \in NumberOrNone
      BY <2>1, NumberTypes
    <3> QED
      BY <1>0, <2>2, <2>3, <2>5, <3>2, <3>3 DEF SettlePlanning, TypeOK
  <2>6. CASE SettleFailure(w, r)
    <3>1. [run[r] EXCEPT !.status = "failed"] \in RunRecord
      BY <1>0 DEF RunRecord, RunStatus
    <3>2. run' \in [Runs -> RunRecord]
      BY <1>0, <2>6, <3>1, ReplaceRunType DEF SettleFailure
    <3> QED
      BY <1>0, <2>2, <2>3, <2>6, <3>2 DEF SettleFailure, TypeOK
  <2> QED
    BY <1>6, <2>4, <2>5, <2>6
<1>7. CASE Release(w, r)
  <2>1. NoTask \in Task
    BY NumberTypes DEF NoTask, Task, TaskPc, RunPhase
  <2>2. task' \in [Workers -> [Runs -> Task]]
    BY <1>0, <1>7, <2>1, BecomeType DEF Release
  <2> QED
    BY <1>0, <1>7, <2>2 DEF Release, TypeOK
<1> QED
  BY <1>1, <1>2, <1>3, <1>4, <1>5, <1>6, <1>7 DEF Execute

-----------------------------------------------------------------------------
(* Effects: what the store methods and task moves change, field by field.  *)

LEMMA ReplaceRunEffect ==
    ASSUME TypeOK, NEW r \in Runs, NEW row \in RunRecord, ReplaceRun(r, row)
    PROVE  /\ run'[r].status = row.status
           /\ run'[r].phase = row.phase
           /\ run'[r].count = row.count
           /\ run'[r].active = row.active
           /\ run'[r].required = row.required
           /\ run'[r].rev = row.rev + 1
           /\ \A q \in Runs \ {r} : run'[q] = run[q]
BY DEF TypeOK, ReplaceRun, RunRecord

LEMMA ReplaceAttemptEffect ==
    ASSUME TypeOK, NEW r \in Runs, NEW n \in Numbers, NEW row \in RunAttempt,
           ReplaceAttempt(r, n, row)
    PROVE  /\ attempt'[r][n].status = row.status
           /\ attempt'[r][n].phase = row.phase
           /\ attempt'[r][n].dispatch = row.dispatch
           /\ attempt'[r][n].worker = row.worker
           /\ attempt'[r][n].token = row.token
           /\ \A m \in Numbers \ {n} : attempt'[r][m] = attempt[r][m]
           /\ \A q \in Runs \ {r} : attempt'[q] = attempt[q]
BY DEF TypeOK, ReplaceAttempt, RunAttempt

LEMMA BecomeEffect ==
    ASSUME TypeOK, NEW w \in Workers, NEW r \in Runs, NEW t, Become(w, r, t)
    PROVE  /\ task'[w][r] = t
           /\ \A q \in Runs \ {r} : task'[w][q] = task[w][q]
           /\ \A v \in Workers \ {w} : task'[v] = task[v]
BY DEF TypeOK, Become

-----------------------------------------------------------------------------
(* Frames: what a step leaves alone keeps its invariant.                   *)

(* Nothing that RunInv(q) speaks of has changed.                           *)
RunKept(q) ==
    /\ run'[q] = run[q]
    /\ attempt'[q] = attempt[q]
    /\ plan'[q] = plan[q]
    /\ action'[q] = action[q]
    /\ retries'[q] = retries[q]

LEMMA RunFrame ==
    ASSUME NEW q \in Runs, RunInv(q), RunKept(q)
    PROVE  RunInv(q)'
BY DEF RunInv, RunKept, Approvals

(* The Run was not rolled back: a write leaves a larger revision, and no   *)
(* task has seen a Run that is only now inserted.                          *)
RunForward(r) ==
    \/ run[r] = NoRun /\ run'[r].status = "queued"
    \/ run'[r] = run[r]
    \/ run'[r].rev = run[r].rev + 1 /\ run'[r].count >= run[r].count

(* Of the Attempt of an execution with a valid lease, only the dispatch    *)
(* state and a status other than INTERRUPTED may have changed; the phase   *)
(* of its Run only by a Plan decision.                                     *)
AttemptKept(w, r) ==
    Executing(w, r) /\ LeaseValid(w, r)' =>
        LET n == task[w][r].number IN
        /\ LeaseValid(w, r)
        /\ run'[r].count = run[r].count
        /\ attempt'[r][n].worker = attempt[r][n].worker
        /\ attempt'[r][n].token = attempt[r][n].token
        /\ attempt'[r][n].status = "interrupted" => attempt[r][n].status = "interrupted"
        /\ run'[r].phase = run[r].phase \/ run[r].phase = "waiting_approval"

LEMMA TaskFrame ==
    ASSUME TypeOK, TypeOK', NEW w \in Workers, NEW r \in Runs, TaskInv(w, r),
           task'[w][r] = task[w][r], RunForward(r), AttemptKept(w, r)
    PROVE  TaskInv(w, r)'
<1> DEFINE t == task[w][r]
<1>1. t \in Task /\ run[r] \in RunRecord /\ run'[r] \in RunRecord
  BY DEF TypeOK
<1>2. /\ t.runRev \in Nat /\ t.number \in Nat /\ run[r].rev \in Nat /\ run[r].count \in Nat
      /\ run'[r].count \in Nat
  BY <1>1, NumberTypes DEF Task, RunRecord
<1>i. run[r] = NoRun => t.pc # "begin" /\ ~Executing(w, r)
  BY <1>2 DEF TaskInv, NoRun
<1>3. t.pc = "begin" =>
          /\ t.runRev <= run'[r].rev
          /\ t.runRev = run'[r].rev => run'[r].status = "queued"
  BY <1>2, <1>i DEF TaskInv, RunForward
<1>4. t.pc \in {"settle", "failSettle"} =>
          /\ t.runRev <= run'[r].rev
          /\ t.runRev = run'[r].rev => run'[r].status # "cancelled"
  BY <1>2, <1>i DEF TaskInv, RunForward, Executing
<1>5. Executing(w, r) =>
          /\ t.number \in 1..run'[r].count
          /\ t.phase # "waiting_approval"
  BY <1>2, <1>i DEF TaskInv, RunForward
<1>6. Executing(w, r) /\ LeaseValid(w, r)' =>
          /\ t.number = run'[r].count
          /\ attempt'[r][t.number].worker = w
          /\ attempt'[r][t.number].token = t.token
          /\ attempt'[r][t.number].status # "interrupted"
          /\ t.pc \in {"started", "dispatched", "accepted", "settle"} =>
                run'[r].phase = t.phase
  BY DEF TaskInv, AttemptKept
<1> QED
  BY <1>3, <1>4, <1>5, <1>6 DEF TaskInv, Executing, LeaseValid

(* A step that concerns one Run keeps IInv if it keeps that Run's part.    *)
LEMMA Elsewhere ==
    ASSUME IInv, TypeOK', NEW r \in Runs,
           \A q \in Runs \ {r} :
               /\ RunKept(q)
               /\ lease'[q] = lease[q]
               /\ \A v \in Workers : task'[v][q] = task[v][q],
           RunInv(r)',
           \A v \in Workers : TaskInv(v, r)'
    PROVE  IInv'
<1>1. ASSUME NEW q \in Runs \ {r} PROVE RunInv(q)'
  <2>1. RunInv(q) /\ RunKept(q)
    BY DEF IInv
  <2> QED
    BY <2>1, RunFrame
<1>2. ASSUME NEW v \in Workers, NEW q \in Runs \ {r} PROVE TaskInv(v, q)'
  <2>1. TypeOK /\ TaskInv(v, q)
    BY DEF IInv
  <2>2. RunForward(q) /\ AttemptKept(v, q) /\ task'[v][q] = task[v][q]
    BY DEF RunForward, AttemptKept, RunKept, LeaseValid
  <2> QED
    BY <2>1, <2>2, TaskFrame
<1> QED
  BY <1>1, <1>2 DEF IInv

(* A request keeps IInv.  It changes rows under a task's feet, which the   *)
(* task's revisions tell it, and never lends the task a new Attempt.       *)
LEMMA ClientInv ==
    ASSUME IInv, NEW r \in Runs, Client(r)
    PROVE  IInv'
<1>1. TypeOK /\ RunInv(r) /\ run[r] \in RunRecord
  BY RowTypes DEF IInv
<1>2. TypeOK'
  BY <1>1, ClientType
<1>3. UNCHANGED <<lease, task>>
  BY DEF Client, Submit, CancelWaiting, Cancel, Retry, Approve, Reject
<1>t. run[r].rev \in Nat /\ run[r].count \in Nat /\ retries[r] \in Nat
  <2>1. run[r].rev \in Nat /\ run[r].count \in Nat
    BY <1>1, NumberTypes DEF RunRecord
  <2>2. retries[r] \in 0..MaxRetries
    BY <1>1 DEF TypeOK
  <2> QED
    BY <2>1, <2>2, ConstantsAssumption
<1>4. ASSUME RunInv(r)', RunForward(r), \A v \in Workers : AttemptKept(v, r),
             \A q \in Runs \ {r} : RunKept(q)
      PROVE  IInv'
  <2>1. ASSUME NEW v \in Workers PROVE TaskInv(v, r)'
    <3>1. TaskInv(v, r) /\ task'[v][r] = task[v][r]
      BY <1>3 DEF IInv
    <3> QED
      BY <1>1, <1>2, <1>4, <3>1, TaskFrame
  <2> QED
    BY <1>2, <1>3, <1>4, <2>1, Elsewhere
<1>5. ASSUME NEW phase \in {"direct", "planning"}, Submit(r, phase) PROVE IInv'
  <2>1. run' = [run EXCEPT ![r] = [NoRun EXCEPT !.status = "queued", !.phase = phase]]
    BY <1>5 DEF Submit
  <2>2. /\ run'[r].status = "queued" /\ run'[r].phase = phase /\ run'[r].active = 0
        /\ run'[r].count = 0
        /\ \A q \in Runs \ {r} : run'[q] = run[q]
    BY <1>1, <2>1 DEF NoRun, TypeOK
  <2>3. run[r] = NoRun /\ plan[r] = "none" /\ run[r].count = 0
    BY <1>1, <1>5 DEF RunInv, Submit, NoRun
  <2>4. UNCHANGED <<attempt, plan, action, retries>>
    BY <1>5 DEF Submit
  <2>5. RunInv(r)'
    BY <1>1, <1>t, <2>2, <2>3, <2>4, NumberTypes DEF RunInv, Approvals, NoRun
  <2>6. \A v \in Workers : AttemptKept(v, r)
    BY <2>3 DEF AttemptKept, IInv, TaskInv
  <2>7. RunForward(r) /\ \A q \in Runs \ {r} : RunKept(q)
    BY <2>2, <2>3, <2>4 DEF RunForward, RunKept
  <2> QED
    BY <1>4, <2>5, <2>6, <2>7
<1>6. CASE CancelWaiting(r)
  <2>1. [run[r] EXCEPT !.status = "cancelled", !.active = 0, !.required = FALSE] \in RunRecord
    BY <1>1, NumberTypes DEF RunRecord, RunStatus
  <2>2. /\ run'[r].status = "cancelled" /\ run'[r].phase = run[r].phase /\ run'[r].active = 0
        /\ run'[r].count = run[r].count /\ run'[r].rev = run[r].rev + 1
        /\ \A q \in Runs \ {r} : run'[q] = run[q]
    BY <1>1, <1>6, <2>1, ReplaceRunEffect DEF CancelWaiting, RunRecord
  <2>3. run[r].status = "waiting" /\ run[r].phase = "waiting_approval" /\ plan[r] = "pending"
    BY <1>1, <1>6 DEF CancelWaiting, RunInv, RunRecord, RunStatus, TerminalRunStatuses
  <2>4. UNCHANGED <<attempt, retries>> /\ plan'[r] = "rejected"
    BY <1>1, <1>6 DEF CancelWaiting, TypeOK
  <2>5. \A q \in Runs \ {r} : plan'[q] = plan[q] /\ action'[q] = action[q]
    BY <1>1, <1>6 DEF CancelWaiting, TypeOK
  <2>6. RunInv(r)'
    BY <1>1, <1>t, <2>2, <2>3, <2>4 DEF RunInv, Approvals
  <2>7. RunForward(r) /\ \A v \in Workers : AttemptKept(v, r)
    BY <1>3, <1>t, <2>2, <2>4 DEF RunForward, AttemptKept, LeaseValid
  <2>8. \A q \in Runs \ {r} : RunKept(q)
    BY <2>2, <2>4, <2>5 DEF RunKept
  <2> QED
    BY <1>4, <2>6, <2>7, <2>8
<1>7. CASE Cancel(r)
  <2> DEFINE n == run[r].active
  <2>1. [run[r] EXCEPT !.status = "cancelled"] \in RunRecord
    BY <1>1 DEF RunRecord, RunStatus
  <2>2. /\ run'[r].status = "cancelled" /\ run'[r].phase = run[r].phase
        /\ run'[r].active = run[r].active /\ run'[r].count = run[r].count
        /\ run'[r].rev = run[r].rev + 1
        /\ \A q \in Runs \ {r} : run'[q] = run[q]
    BY <1>1, <1>7, <2>1, ReplaceRunEffect DEF Cancel, RunRecord
  <2>3. /\ run[r].status # "absent" /\ run[r].status # "cancelled"
        /\ plan[r] # "rejected"
    BY <1>1, <1>7 DEF Cancel, RunInv, TerminalRunStatuses
  <2>4. UNCHANGED <<plan, action, retries>>
    BY <1>7 DEF Cancel
  <2>5. /\ \A m \in Numbers :
              /\ attempt'[r][m].phase = attempt[r][m].phase
              /\ attempt'[r][m].worker = attempt[r][m].worker
              /\ attempt'[r][m].token = attempt[r][m].token
              /\ attempt'[r][m].status # "running"
              /\ attempt'[r][m].status = "interrupted" => attempt[r][m].status = "interrupted"
        /\ \A q \in Runs \ {r} : attempt'[q] = attempt[q]
    <3>1. CASE n # 0 /\ attempt[r][n].status = "running"
      <4>1. n \in Numbers
        BY <1>1, <3>1, NumberTypes DEF RunRecord
      <4>2. attempt[r][n] \in RunAttempt
        BY <1>1, <4>1, RowTypes
      <4>3. [attempt[r][n] EXCEPT !.status = "cancelled", !.dispatch = "settled"] \in RunAttempt
        BY <4>2 DEF RunAttempt, AttemptStatus, DispatchState
      <4>4. ReplaceAttempt(r, n, [attempt[r][n] EXCEPT !.status = "cancelled",
                                                       !.dispatch = "settled"])
        BY <1>7, <3>1 DEF Cancel
      <4>5. \A m \in Numbers \ {n} : attempt[r][m].status # "running"
        BY <1>1 DEF RunInv
      <4>6. /\ attempt'[r][n].status = "cancelled"
            /\ attempt'[r][n].phase = attempt[r][n].phase
            /\ attempt'[r][n].worker = attempt[r][n].worker
            /\ attempt'[r][n].token = attempt[r][n].token
            /\ \A m \in Numbers \ {n} : attempt'[r][m] = attempt[r][m]
            /\ \A q \in Runs \ {r} : attempt'[q] = attempt[q]
        <5> DEFINE row == [attempt[r][n] EXCEPT !.status = "cancelled", !.dispatch = "settled"]
        <5>1. /\ attempt'[r][n].status = row.status
              /\ attempt'[r][n].phase = row.phase
              /\ attempt'[r][n].worker = row.worker
              /\ attempt'[r][n].token = row.token
              /\ \A m \in Numbers \ {n} : attempt'[r][m] = attempt[r][m]
              /\ \A q \in Runs \ {r} : attempt'[q] = attempt[q]
          BY <1>1, <4>1, <4>3, <4>4, ReplaceAttemptEffect
        <5> QED
          BY <4>2, <5>1 DEF RunAttempt
      <4> QED
        BY <4>1, <4>5, <4>6
    <3>2. CASE ~(n # 0 /\ attempt[r][n].status = "running")
      <4>1. UNCHANGED attempt
        BY <1>7, <3>2 DEF Cancel
      <4> QED
        BY <1>1, <3>2, <4>1, NumberTypes DEF RunInv
    <3> QED
      BY <3>1, <3>2
  <2>6. RunInv(r)'
    BY <1>1, <1>t, <2>2, <2>3, <2>4, <2>5 DEF RunInv, Approvals
  <2>7. RunForward(r) /\ \A v \in Workers : AttemptKept(v, r)
    BY <1>3, <1>t, <2>2, <2>5, ExecutingHasAttempt DEF RunForward, AttemptKept, LeaseValid
  <2>8. \A q \in Runs \ {r} : RunKept(q)
    BY <2>2, <2>4, <2>5 DEF RunKept
  <2> QED
    BY <1>4, <2>6, <2>7, <2>8
<1>8. CASE Retry(r)
  <2>1. [run[r] EXCEPT !.status = "queued", !.active = 0] \in RunRecord
    BY <1>1, NumberTypes DEF RunRecord, RunStatus
  <2>2. /\ run'[r].status = "queued" /\ run'[r].phase = run[r].phase
        /\ run'[r].active = 0 /\ run'[r].count = run[r].count
        /\ run'[r].rev = run[r].rev + 1
        /\ \A q \in Runs \ {r} : run'[q] = run[q]
    BY <1>1, <1>8, <2>1, ReplaceRunEffect DEF Retry, RunRecord
  <2>3. /\ run[r].status # "running" /\ run[r].phase # "waiting_approval"
        /\ plan[r] # "rejected"
    BY <1>1, <1>8 DEF Retry, RunInv
  <2>4. UNCHANGED <<attempt, plan, action, lease, task>>
    BY <1>8 DEF Retry
  <2>5. /\ retries'[r] = retries[r] + 1
        /\ \A q \in Runs \ {r} : retries'[q] = retries[q]
    BY <1>1, <1>8 DEF Retry, TypeOK
  <2>6. RunInv(r)'
    <3>1. Approvals(r) \in {0, 1} /\ Approvals(r)' = Approvals(r)
      BY <2>4 DEF Approvals
    <3> QED
      BY <1>1, <1>t, <2>2, <2>3, <2>4, <2>5, <3>1 DEF RunInv
  <2>7. RunForward(r) /\ \A v \in Workers : AttemptKept(v, r)
    BY <1>3, <1>t, <2>2, <2>4 DEF RunForward, AttemptKept, LeaseValid
  <2>8. \A q \in Runs \ {r} : RunKept(q)
    BY <2>2, <2>4, <2>5 DEF RunKept
  <2> QED
    BY <1>4, <2>6, <2>7, <2>8
<1>9. ASSUME Decidable(r)
      PROVE  /\ run[r].status = "waiting" /\ run[r].phase = "waiting_approval"
             /\ plan[r] = "pending" /\ Approvals(r) = 0
             /\ \A m \in Numbers : attempt[r][m].status # "running"
  BY <1>1, <1>9 DEF Decidable, RunInv, Approvals
<1>10. CASE Approve(r)
  <2>1. [run[r] EXCEPT !.status = "queued", !.phase = "executing",
                       !.active = 0, !.required = FALSE] \in RunRecord
    BY <1>1, NumberTypes DEF RunRecord, RunStatus, RunPhase
  <2>2. /\ run'[r].status = "queued" /\ run'[r].phase = "executing"
        /\ run'[r].active = 0 /\ run'[r].count = run[r].count
        /\ run'[r].rev = run[r].rev + 1
        /\ \A q \in Runs \ {r} : run'[q] = run[q]
    <3> DEFINE row == [run[r] EXCEPT !.status = "queued", !.phase = "executing",
                                   !.active = 0, !.required = FALSE]
    <3>1. ReplaceRun(r, row)
      BY <1>10 DEF Approve
    <3>2. /\ run'[r].status = row.status /\ run'[r].phase = row.phase
          /\ run'[r].active = row.active /\ run'[r].count = row.count
          /\ run'[r].rev = row.rev + 1
          /\ \A q \in Runs \ {r} : run'[q] = run[q]
      BY <1>1, <2>1, <3>1, ReplaceRunEffect
    <3> QED
      BY <1>1, <3>2 DEF RunRecord
  <2>3. UNCHANGED <<attempt, retries>>
    BY <1>10 DEF Approve
  <2>4. /\ plan'[r] = "approved"
        /\ \A q \in Runs \ {r} : plan'[q] = plan[q] /\ action'[q] = action[q]
    BY <1>1, <1>10 DEF Approve, TypeOK
  <2>5. RunInv(r)'
    <3>1. Approvals(r)' = 1
      BY <2>4 DEF Approvals
    <3> QED
      BY <1>1, <1>t, <1>9, <1>10, <2>2, <2>3, <2>4, <3>1 DEF RunInv, Approve
  <2>6. RunForward(r) /\ \A v \in Workers : AttemptKept(v, r)
    BY <1>3, <1>t, <1>9, <1>10, <2>2, <2>3 DEF RunForward, AttemptKept, LeaseValid, Approve
  <2>7. \A q \in Runs \ {r} : RunKept(q)
    BY <2>2, <2>3, <2>4 DEF RunKept
  <2> QED
    BY <1>4, <2>5, <2>6, <2>7
<1>11. CASE Reject(r)
  <2>1. [run[r] EXCEPT !.status = "cancelled", !.active = 0, !.required = FALSE] \in RunRecord
    BY <1>1, NumberTypes DEF RunRecord, RunStatus
  <2>2. /\ run'[r].status = "cancelled" /\ run'[r].phase = run[r].phase
        /\ run'[r].active = 0 /\ run'[r].count = run[r].count
        /\ run'[r].rev = run[r].rev + 1
        /\ \A q \in Runs \ {r} : run'[q] = run[q]
    <3> DEFINE row == [run[r] EXCEPT !.status = "cancelled", !.active = 0, !.required = FALSE]
    <3>1. ReplaceRun(r, row)
      BY <1>11 DEF Reject
    <3>2. /\ run'[r].status = row.status /\ run'[r].phase = row.phase
          /\ run'[r].active = row.active /\ run'[r].count = row.count
          /\ run'[r].rev = row.rev + 1
          /\ \A q \in Runs \ {r} : run'[q] = run[q]
      BY <1>1, <2>1, <3>1, ReplaceRunEffect
    <3> QED
      BY <1>1, <3>2 DEF RunRecord
  <2>3. UNCHANGED <<attempt, retries>>
    BY <1>11 DEF Reject
  <2>4. /\ plan'[r] = "rejected"
        /\ \A q \in Runs \ {r} : plan'[q] = plan[q] /\ action'[q] = action[q]
    BY <1>1, <1>11 DEF Reject, TypeOK
  <2>5. RunInv(r)'
    <3>1. Approvals(r)' = 0
      BY <2>4 DEF Approvals
    <3> QED
      BY <1>1, <1>t, <1>9, <1>11, <2>2, <2>3, <2>4, <3>1 DEF RunInv, Reject
  <2>6. RunForward(r) /\ \A v \in Workers : AttemptKept(v, r)
    BY <1>3, <1>t, <1>9, <1>11, <2>2, <2>3 DEF RunForward, AttemptKept, LeaseValid, Reject
  <2>7. \A q \in Runs \ {r} : RunKept(q)
    BY <2>2, <2>3, <2>4 DEF RunKept
  <2> QED
    BY <1>4, <2>5, <2>6, <2>7
<1> QED
  BY <1>5, <1>6, <1>7, <1>8, <1>10, <1>11 DEF Client

-----------------------------------------------------------------------------
(* A task without an Attempt believes nothing.                             *)
LEMMA QuietTask ==
    ASSUME NEW w \in Workers, NEW r \in Runs,
           task'[w][r].pc \in {"idle", "claimed", "closing"}
    PROVE  TaskInv(w, r)'
BY DEF TaskInv, Executing

(* A step by which Worker w moves its task for Run r keeps IInv if it      *)
(* keeps the Run's part and the task's own, and if no other execution of   *)
(* the Run is lent or loses an Attempt.                                    *)
LEMMA OneTask ==
    ASSUME IInv, TypeOK', NEW w \in Workers, NEW r \in Runs,
           \A q \in Runs \ {r} : RunKept(q) /\ lease'[q] = lease[q],
           \A v \in Workers, q \in Runs : v # w \/ q # r => task'[v][q] = task[v][q],
           RunInv(r)', RunForward(r),
           \A v \in Workers \ {w} : AttemptKept(v, r),
           TaskInv(w, r)'
    PROVE  IInv'
<1>1. ASSUME NEW v \in Workers \ {w} PROVE TaskInv(v, r)'
  <2>1. TypeOK /\ TaskInv(v, r) /\ task'[v][r] = task[v][r] /\ AttemptKept(v, r)
    BY DEF IInv
  <2> QED
    BY <2>1, TaskFrame
<1> QED
  BY <1>1, Elsewhere

(* Where a task may go without touching a table.                           *)
LEMMA TaskMoveEffect ==
    ASSUME TypeOK, NEW w \in Workers, NEW r \in Runs, NEW pc,
           Goto(w, r, pc) \/ Close(w, r)
    PROVE  /\ \A v \in Workers, q \in Runs : v # w \/ q # r => task'[v][q] = task[v][q]
           /\ task'[w][r].token = task[w][r].token
           /\ Close(w, r) => task'[w][r].pc = "closing"
           /\ Goto(w, r, pc) => /\ task'[w][r].pc = pc
                                /\ task'[w][r].number = task[w][r].number
                                /\ task'[w][r].phase = task[w][r].phase
<1>1. task[w][r] \in Task
  BY RowTypes
<1>2. CASE Goto(w, r, pc)
  <2> DEFINE t == [task[w][r] EXCEPT !.pc = pc, !.runRev = 0, !.attemptRev = 0]
  <2>1. Become(w, r, t)
    BY <1>2 DEF Goto
  <2>2. /\ task'[w][r] = t
        /\ \A q \in Runs \ {r} : task'[w][q] = task[w][q]
        /\ \A v \in Workers \ {w} : task'[v] = task[v]
    BY <2>1, BecomeEffect
  <2>3. /\ t.pc = pc /\ t.token = task[w][r].token
        /\ t.number = task[w][r].number /\ t.phase = task[w][r].phase
    BY <1>1 DEF Task
  <2>4. Close(w, r) => task'[w][r].pc = "closing"
    <3>1. Close(w, r) => task'[w][r] = [NoTask EXCEPT !.pc = "closing", !.token = task[w][r].token]
      BY BecomeEffect DEF Close
    <3> QED
      BY <3>1 DEF NoTask
  <2> QED
    BY <2>2, <2>3, <2>4
<1>3. CASE Close(w, r) /\ ~Goto(w, r, pc)
  <2> DEFINE t == [NoTask EXCEPT !.pc = "closing", !.token = task[w][r].token]
  <2>1. Become(w, r, t)
    BY <1>3 DEF Close
  <2>2. /\ task'[w][r] = t
        /\ \A q \in Runs \ {r} : task'[w][q] = task[w][q]
        /\ \A v \in Workers \ {w} : task'[v] = task[v]
    BY <2>1, BecomeEffect
  <2>3. t.pc = "closing" /\ t.token = task[w][r].token
    BY DEF NoTask
  <2> QED
    BY <1>3, <2>2, <2>3
<1> QED
  BY <1>2, <1>3

(* A task that stays in _execute, or leaves it, while no table changes     *)
(* but the dispatch state and revision of its own Attempt.                 *)
LEMMA TaskMoveInv ==
    ASSUME IInv, TypeOK', NEW w \in Workers, NEW r \in Runs,
           NEW pc \in {"dispatched", "accepted", "report", "fail"},
           \/ Close(w, r)
           \/ /\ Goto(w, r, pc)
              /\ Executing(w, r)
              /\ task[w][r].pc \in {"started", "dispatched", "accepted", "settle"}
                    \/ pc \in {"report", "fail"},
           UNCHANGED <<run, plan, action, lease, retries>>,
           \A q \in Runs \ {r} : attempt'[q] = attempt[q],
           \A n \in Numbers :
              /\ attempt'[r][n].status = attempt[r][n].status
              /\ attempt'[r][n].phase = attempt[r][n].phase
              /\ attempt'[r][n].worker = attempt[r][n].worker
              /\ attempt'[r][n].token = attempt[r][n].token
    PROVE  IInv'
<1>1. TypeOK /\ RunInv(r) /\ TaskInv(w, r)
  BY DEF IInv
<1>2. /\ \A v \in Workers, q \in Runs : v # w \/ q # r => task'[v][q] = task[v][q]
      /\ task'[w][r].token = task[w][r].token
  BY <1>1, TaskMoveEffect
<1>3. RunInv(r)'
  BY <1>1 DEF RunInv, Approvals
<1>4. RunForward(r) /\ \A q \in Runs \ {r} : RunKept(q)
  BY DEF RunForward, RunKept
<1>5. ASSUME NEW v \in Workers \ {w} PROVE AttemptKept(v, r)
  <2>1. task'[v][r] = task[v][r]
    BY <1>2
  <2>2. Executing(v, r) => task[v][r].number \in Numbers
    BY ExecutingHasAttempt
  <2> QED
    BY <2>1, <2>2 DEF AttemptKept, LeaseValid
<1>6. TaskInv(w, r)'
  <2>1. CASE Close(w, r)
    BY <1>1, <2>1, TaskMoveEffect, QuietTask
  <2>2. CASE ~Close(w, r)
    <3>1. /\ task'[w][r].pc = pc
          /\ task'[w][r].number = task[w][r].number
          /\ task'[w][r].phase = task[w][r].phase
      BY <1>1, <2>2, TaskMoveEffect
    <3>2. Executing(w, r) /\ task[w][r].number \in Numbers
      BY <2>2, ExecutingHasAttempt
    <3>3. LeaseValid(w, r)' => LeaseValid(w, r)
      BY <1>2 DEF LeaseValid
    <3> QED
      BY <1>1, <1>2, <2>2, <3>1, <3>2, <3>3 DEF TaskInv, Executing
  <2> QED
    BY <2>1, <2>2
<1> QED
  BY <1>2, <1>3, <1>4, <1>5, <1>6, OneTask


(* Claims, losses and lapses of leases, and the reconciler keep IInv.      *)
LEMMA LeaseInv ==
    ASSUME IInv, NEW w, NEW r \in Runs,
           \/ /\ w \in Workers
              /\ Claim(w, r) \/ ClaimAndHandBack(w, r) \/ Crash(w) \/ TaskCancelled(w, r)
           \/ LeaseMissed(r) \/ LeaseLapses(r) \/ InterruptExpired(r)
    PROVE  IInv'
<1>1. TypeOK /\ RunInv(r) /\ run[r] \in RunRecord
  BY RowTypes DEF IInv
<1>2. TypeOK'
  BY <1>1, LeaseType
<1>3. CASE w \in Workers /\ Claim(w, r)
  <2>1. /\ task'[w][r] = [NoTask EXCEPT !.pc = "claimed", !.token = lease[r].token + 1]
        /\ \A v \in Workers, q \in Runs : v # w \/ q # r => task'[v][q] = task[v][q]
    BY <1>1, <1>3, BecomeEffect DEF Claim
  <2>2. /\ lease'[r].holder = w
        /\ \A q \in Runs \ {r} : lease'[q] = lease[q]
    BY <1>1, <1>3 DEF Claim, TypeOK
  <2>3. UNCHANGED <<run, attempt, plan, action, retries>>
    BY <1>3 DEF Claim
  <2>4. RunInv(r)' /\ RunForward(r) /\ \A q \in Runs \ {r} : RunKept(q)
    BY <1>1, <2>3, RunFrame DEF RunForward, RunKept
  <2>5. \A v \in Workers \ {w} : AttemptKept(v, r)
    BY <2>2 DEF AttemptKept, LeaseValid
  <2>6. TaskInv(w, r)'
    BY <1>3, <2>1, QuietTask DEF NoTask
  <2> QED
    BY <1>2, <1>3, <2>1, <2>2, <2>4, <2>5, <2>6, OneTask
<1>4. CASE (w \in Workers /\ ClaimAndHandBack(w, r)) \/ LeaseMissed(r) \/ LeaseLapses(r)
  <2>1. ~lease'[r].live /\ \A q \in Runs \ {r} : lease'[q] = lease[q]
    BY <1>1, <1>4 DEF ClaimAndHandBack, LeaseMissed, LeaseLapses, TypeOK
  <2>2. UNCHANGED <<run, attempt, plan, action, task, retries>>
    BY <1>4 DEF ClaimAndHandBack, LeaseMissed, LeaseLapses
  <2>3. RunInv(r)' /\ RunForward(r) /\ \A q \in Runs \ {r} : RunKept(q)
    BY <1>1, <2>2, RunFrame DEF RunForward, RunKept
  <2>4. ASSUME NEW v \in Workers PROVE TaskInv(v, r)'
    <3>1. TaskInv(v, r) /\ AttemptKept(v, r) /\ task'[v][r] = task[v][r]
      BY <2>1, <2>2 DEF IInv, AttemptKept, LeaseValid
    <3> QED
      BY <1>1, <1>2, <2>3, <3>1, TaskFrame
  <2> QED
    BY <1>2, <2>1, <2>2, <2>3, <2>4, Elsewhere
<1>5. CASE w \in Workers /\ Crash(w)
  <2>1. /\ \A q \in Runs : task'[w][q] = NoTask
        /\ \A v \in Workers \ {w} : task'[v] = task[v]
    BY <1>1, <1>5 DEF Crash, TypeOK
  <2>2. UNCHANGED <<run, attempt, plan, action, lease, retries>>
    BY <1>5 DEF Crash
  <2>3. ASSUME NEW q \in Runs PROVE RunInv(q)'
    <3>1. RunInv(q) /\ RunKept(q)
      BY <2>2 DEF IInv, RunKept
    <3> QED
      BY <3>1, RunFrame
  <2>4. ASSUME NEW q \in Runs PROVE TaskInv(w, q)'
    BY <1>5, <2>1, QuietTask DEF NoTask
  <2>5. ASSUME NEW v \in Workers \ {w}, NEW q \in Runs PROVE TaskInv(v, q)'
    <3>1. TaskInv(v, q) /\ RunForward(q) /\ AttemptKept(v, q) /\ task'[v][q] = task[v][q]
      BY <2>1, <2>2 DEF IInv, RunForward, AttemptKept, LeaseValid
    <3> QED
      BY <1>1, <1>2, <3>1, TaskFrame
  <2> QED
    BY <1>2, <2>3, <2>4, <2>5 DEF IInv
<1>6. CASE w \in Workers /\ TaskCancelled(w, r)
  <2>1. UNCHANGED <<run, attempt, plan, action, lease, retries>> /\ Close(w, r)
    BY <1>6 DEF TaskCancelled
  <2> QED
    BY <1>2, <1>6, <2>1, TaskMoveInv
<1>7. CASE InterruptExpired(r)
  <2> DEFINE n == run[r].active
             a == [attempt[r][n] EXCEPT !.status = "interrupted", !.dispatch = "unknown"]
             row == [run[r] EXCEPT !.status = "failed"]
  <2>1. n \in Numbers /\ attempt[r][n] \in RunAttempt /\ run[r].status = "running"
    BY <1>1, <1>7, RowTypes, NumberTypes DEF InterruptExpired, RunRecord
  <2>2. a \in RunAttempt /\ row \in RunRecord
    BY <1>1, <2>1 DEF RunAttempt, RunRecord, AttemptStatus, DispatchState, RunStatus
  <2>3. ReplaceAttempt(r, n, a) /\ ReplaceRun(r, row)
    BY <1>7 DEF InterruptExpired
  <2>4. UNCHANGED <<plan, action, lease, task, retries>>
    BY <1>7 DEF InterruptExpired
  <2>5. /\ attempt'[r][n].status = "interrupted"
        /\ attempt'[r][n].phase = attempt[r][n].phase
        /\ attempt'[r][n].worker = attempt[r][n].worker
        /\ attempt'[r][n].token = attempt[r][n].token
        /\ \A m \in Numbers \ {n} : attempt'[r][m] = attempt[r][m]
        /\ \A q \in Runs \ {r} : attempt'[q] = attempt[q]
    <3>1. /\ attempt'[r][n].status = a.status
          /\ attempt'[r][n].phase = a.phase
          /\ attempt'[r][n].worker = a.worker
          /\ attempt'[r][n].token = a.token
          /\ \A m \in Numbers \ {n} : attempt'[r][m] = attempt[r][m]
          /\ \A q \in Runs \ {r} : attempt'[q] = attempt[q]
      BY <1>1, <2>1, <2>2, <2>3, ReplaceAttemptEffect
    <3> QED
      BY <2>1, <3>1 DEF RunAttempt
  <2>6. /\ run'[r].status = "failed" /\ run'[r].phase = run[r].phase
        /\ run'[r].count = run[r].count /\ run'[r].rev = run[r].rev + 1
        /\ run[r].count \in Nat
        /\ \A q \in Runs \ {r} : run'[q] = run[q]
    <3>1. /\ run'[r].status = row.status /\ run'[r].phase = row.phase
          /\ run'[r].count = row.count /\ run'[r].rev = row.rev + 1
          /\ \A q \in Runs \ {r} : run'[q] = run[q]
      BY <1>1, <2>2, <2>3, ReplaceRunEffect
    <3> QED
      BY <1>1, <3>1, NumberTypes DEF RunRecord
  <2>7. RunInv(r)'
    <3>1. plan[r] # "rejected" /\ \A m \in Numbers \ {n} : attempt[r][m].status # "running"
      BY <1>1, <2>1 DEF RunInv
    <3> QED
      BY <1>1, <2>1, <2>4, <2>5, <2>6, <3>1 DEF RunInv, Approvals
  <2>8. RunForward(r) /\ \A q \in Runs \ {r} : RunKept(q)
    BY <2>4, <2>5, <2>6 DEF RunForward, RunKept
  <2>9. ASSUME NEW v \in Workers PROVE TaskInv(v, r)'
    <3>1. TaskInv(v, r)
      BY DEF IInv
    <3>2. ~(Executing(v, r) /\ LeaseValid(v, r))
      <4>1. n = run[r].count
        BY <1>1, <1>7, <2>1 DEF InterruptExpired, RunInv
      <4> QED
        BY <1>7, <3>1, <4>1 DEF InterruptExpired, TaskInv, LeaseValid
    <3>3. AttemptKept(v, r) /\ task'[v][r] = task[v][r]
      BY <2>4, <3>2 DEF AttemptKept, LeaseValid
    <3> QED
      BY <1>1, <1>2, <2>8, <3>1, <3>3, TaskFrame
  <2> QED
    BY <1>2, <2>4, <2>7, <2>8, <2>9, Elsewhere
<1> QED
  BY <1>3, <1>4, <1>5, <1>6, <1>7


(* A Worker that holds the lease is the only one whose beliefs rest on it. *)
LEMMA OnlyHolder ==
    ASSUME NEW w \in Workers, NEW r \in Runs, LeaseValid(w, r),
           UNCHANGED lease, \A v \in Workers \ {w} : task'[v][r] = task[v][r]
    PROVE  \A v \in Workers \ {w} : AttemptKept(v, r)
BY DEF LeaseValid, AttemptKept

(* A settlement of the task's own Attempt, read at revisions that are      *)
(* still current, together with whatever it makes of the Run.              *)
LEMMA SettleEffect ==
    ASSUME IInv, NEW w \in Workers, NEW r \in Runs, Executing(w, r), CanSettle(w, r),
           NEW status \in {"succeeded", "failed"}, SettleAttempt(w, r, status)
    PROVE  LET n == task[w][r].number IN
           /\ n = run[r].count
           /\ attempt'[r][n].status = status
           /\ attempt'[r][n].worker = w
           /\ attempt'[r][n].token = task[w][r].token
           /\ \A m \in Numbers : attempt'[r][m].phase = attempt[r][m].phase
           /\ \A m \in Numbers : attempt'[r][m].status # "running"
           /\ \A q \in Runs \ {r} : attempt'[q] = attempt[q]
<1> DEFINE n == task[w][r].number
           row == [attempt[r][n] EXCEPT !.status = status, !.dispatch = "settled"]
<1>1. TypeOK /\ RunInv(r) /\ TaskInv(w, r) /\ n \in Numbers
  BY ExecutingHasAttempt DEF IInv
<1>2. attempt[r][n] \in RunAttempt
  BY <1>1, RowTypes
<1>3. row \in RunAttempt
  BY <1>2 DEF RunAttempt, AttemptStatus, DispatchState
<1>4. /\ attempt'[r][n].status = row.status
      /\ attempt'[r][n].phase = row.phase
      /\ attempt'[r][n].worker = row.worker
      /\ attempt'[r][n].token = row.token
      /\ \A m \in Numbers \ {n} : attempt'[r][m] = attempt[r][m]
      /\ \A q \in Runs \ {r} : attempt'[q] = attempt[q]
  BY <1>1, <1>3, ReplaceAttemptEffect DEF SettleAttempt
<1>5. /\ row.status = status /\ row.phase = attempt[r][n].phase
      /\ row.worker = attempt[r][n].worker /\ row.token = attempt[r][n].token
  BY <1>2 DEF RunAttempt
<1>6. /\ n = run[r].count
      /\ attempt[r][n].worker = w
      /\ attempt[r][n].token = task[w][r].token
  BY <1>1 DEF TaskInv, CanSettle
<1>7. \A m \in Numbers \ {n} : attempt[r][m].status # "running"
  BY <1>1, <1>6 DEF RunInv
<1> QED
  BY <1>4, <1>5, <1>6, <1>7

(* Everything a task does keeps IInv.                                      *)
LEMMA ExecuteInv ==
    ASSUME IInv, NEW w \in Workers, NEW r \in Runs, Execute(w, r)
    PROVE  IInv'
<1> DEFINE t == task[w][r]
           n == t.number
<1>1. /\ TypeOK /\ RunInv(r) /\ TaskInv(w, r)
      /\ run[r] \in RunRecord /\ t \in Task
      /\ run[r].rev \in Nat /\ run[r].count \in Nat
  BY RowTypes, NumberTypes DEF IInv, RunRecord
<1>2. TypeOK'
  BY ExecuteType
<1>3. CASE \/ BeginRefused(w, r) \/ ExecuteFails(w, r) \/ SettleRefused(w, r)
           \/ Report(w, r) \/ ReportFails(w, r) \/ FailureRefused(w, r)
  <2>1. Close(w, r) \/ (Goto(w, r, "fail") /\ Executing(w, r))
    <3>1. CASE BeginRefused(w, r) \/ Report(w, r) \/ FailureRefused(w, r)
      BY <3>1 DEF BeginRefused, Report, FailureRefused
    <3>2. CASE ExecuteFails(w, r) \/ ReportFails(w, r)
      BY <3>2 DEF ExecuteFails, ReportFails, Executing
    <3>3. CASE SettleRefused(w, r)
      BY <3>3 DEF SettleRefused, Executing
    <3> QED
      BY <1>3, <3>1, <3>2, <3>3
  <2>2. UNCHANGED <<run, attempt, plan, action, lease, retries, disturbances>>
    BY <1>3 DEF BeginRefused, ExecuteFails, SettleRefused, Report, ReportFails, FailureRefused
  <2> QED
    BY <1>2, <2>1, <2>2, TaskMoveInv
<1>4. CASE Dispatch(w, r) \/ Accept(w, r)
  <2>1. PICK state \in {"dispatching", "accepted"}, pc \in {"dispatched", "accepted"} :
            SetDispatchState(w, r, state, pc)
    BY <1>4 DEF Dispatch, Accept
  <2>2. Executing(w, r) /\ t.pc \in {"started", "dispatched"} /\ n \in Numbers
    BY <1>4, ExecutingHasAttempt DEF Dispatch, Accept, Executing
  <2>3. UNCHANGED <<run, plan, action, lease, retries>>
    BY <1>4 DEF Dispatch, Accept
  <2>4. Close(w, r) \/ Goto(w, r, pc)
    BY <2>1 DEF SetDispatchState
  <2>5. /\ \A q \in Runs \ {r} : attempt'[q] = attempt[q]
        /\ \A m \in Numbers :
              /\ attempt'[r][m].status = attempt[r][m].status
              /\ attempt'[r][m].phase = attempt[r][m].phase
              /\ attempt'[r][m].worker = attempt[r][m].worker
              /\ attempt'[r][m].token = attempt[r][m].token
    <3> DEFINE row == [attempt[r][n] EXCEPT !.dispatch = state]
    <3>1. CASE UNCHANGED attempt
      BY <3>1
    <3>2. CASE ReplaceAttempt(r, n, row)
      <4>1. attempt[r][n] \in RunAttempt
        BY <1>1, <2>2, RowTypes
      <4>2. row \in RunAttempt
        BY <4>1 DEF RunAttempt, DispatchState
      <4>3. /\ attempt'[r][n].status = row.status
            /\ attempt'[r][n].phase = row.phase
            /\ attempt'[r][n].worker = row.worker
            /\ attempt'[r][n].token = row.token
            /\ \A m \in Numbers \ {n} : attempt'[r][m] = attempt[r][m]
            /\ \A q \in Runs \ {r} : attempt'[q] = attempt[q]
        BY <1>1, <2>2, <3>2, <4>2, ReplaceAttemptEffect
      <4> QED
        BY <4>1, <4>3 DEF RunAttempt
    <3> QED
      BY <2>1, <3>1, <3>2 DEF SetDispatchState
  <2> QED
    BY <1>2, <2>2, <2>3, <2>4, <2>5, TaskMoveInv
<1>5. CASE ReadQueued(w, r) /\ run[r].status = "queued"
  <2> DEFINE s == [t EXCEPT !.pc = "begin", !.runRev = run[r].rev]
  <2>1. /\ task'[w][r] = s
        /\ \A v \in Workers, q \in Runs : v # w \/ q # r => task'[v][q] = task[v][q]
    BY <1>1, <1>5, BecomeEffect DEF ReadQueued
  <2>2. s.pc = "begin" /\ s.runRev = run[r].rev
    BY <1>1 DEF Task
  <2>3. UNCHANGED <<run, attempt, plan, action, lease, retries>>
    BY <1>5 DEF ReadQueued
  <2>4. TaskInv(w, r)'
    BY <1>1, <1>5, <2>1, <2>2, <2>3 DEF TaskInv, Executing
  <2>5. RunInv(r)' /\ RunForward(r) /\ \A q \in Runs \ {r} : RunKept(q)
    BY <1>1, <2>3, RunFrame DEF RunForward, RunKept
  <2>6. \A v \in Workers \ {w} : AttemptKept(v, r)
    BY <2>1, <2>3 DEF AttemptKept, LeaseValid
  <2> QED
    BY <1>2, <2>1, <2>3, <2>4, <2>5, <2>6, OneTask
<1>6. CASE \/ ReadQueued(w, r) /\ run[r].status # "queued"
           \/ (Finish(w, r) \/ ReadForFailure(w, r)) /\ run[r].status = "cancelled"
  <2>1. Close(w, r) /\ UNCHANGED <<run, attempt, plan, action, lease, retries>>
    BY <1>6 DEF ReadQueued, Finish, ReadForFailure, ReadForSettlement
  <2> QED
    BY <1>2, <2>1, TaskMoveInv
<1>7. CASE (Finish(w, r) \/ ReadForFailure(w, r)) /\ run[r].status # "cancelled"
  <2>1. PICK pc \in {"settle", "failSettle"} :
            /\ ReadForSettlement(w, r, pc)
            /\ pc = "settle" => t.pc = "accepted"
    BY <1>7 DEF Finish, ReadForFailure
  <2> DEFINE s == [t EXCEPT !.pc = pc, !.runRev = run[r].rev,
                            !.attemptRev = attempt[r][n].rev]
  <2>2. Become(w, r, s)
    BY <1>7, <2>1 DEF ReadForSettlement
  <2>3. /\ task'[w][r] = s
        /\ \A v \in Workers, q \in Runs : v # w \/ q # r => task'[v][q] = task[v][q]
    BY <1>1, <2>2, BecomeEffect
  <2>4. s.pc = pc /\ s.runRev = run[r].rev /\ s.number = n /\ s.phase = t.phase
          /\ s.token = t.token
    BY <1>1 DEF Task
  <2>5. UNCHANGED <<run, attempt, plan, action, lease, retries>> /\ Executing(w, r)
    BY <1>7 DEF Finish, ReadForFailure, Executing
  <2>6. TaskInv(w, r)'
    <3>1. LeaseValid(w, r)' => LeaseValid(w, r)
      BY <2>3, <2>4, <2>5 DEF LeaseValid
    <3> QED
      BY <1>1, <1>7, <2>1, <2>3, <2>4, <2>5, <3>1 DEF TaskInv, Executing
  <2>7. RunInv(r)' /\ RunForward(r) /\ \A q \in Runs \ {r} : RunKept(q)
    BY <1>1, <2>5, RunFrame DEF RunForward, RunKept
  <2>8. \A v \in Workers \ {w} : AttemptKept(v, r)
    BY <2>3, <2>5 DEF AttemptKept, LeaseValid
  <2> QED
    BY <1>2, <2>3, <2>5, <2>6, <2>7, <2>8, OneTask
<1>8. CASE BeginAttempt(w, r)
  <2> DEFINE k == run[r].count + 1
             row == [run[r] EXCEPT !.status = "running", !.count = k, !.active = k]
             a == [NoAttempt EXCEPT !.status = "running", !.phase = run[r].phase,
                                    !.worker = w, !.token = t.token]
             s == [t EXCEPT !.pc = "started", !.number = k,
                            !.phase = run[r].phase, !.runRev = 0]
  <2>1. run[r].status = "queued" /\ k \in Numbers /\ k \in NumberOrNone
    BY <1>8, RoomForAttempt, NumberTypes
  <2>2. LeaseValid(w, r) /\ UNCHANGED <<plan, action, lease, retries>>
    BY <1>8 DEF BeginAttempt
  <2>3. /\ run'[r].status = "running" /\ run'[r].phase = run[r].phase
        /\ run'[r].count = k /\ run'[r].active = k /\ run'[r].rev = run[r].rev + 1
        /\ \A q \in Runs \ {r} : run'[q] = run[q]
    <3>1. row \in RunRecord
      BY <1>1, <2>1 DEF RunRecord, RunStatus
    <3>2. ReplaceRun(r, row)
      BY <1>8 DEF BeginAttempt
    <3>3. /\ run'[r].status = row.status /\ run'[r].phase = row.phase
          /\ run'[r].count = row.count /\ run'[r].active = row.active
          /\ run'[r].rev = row.rev + 1
          /\ \A q \in Runs \ {r} : run'[q] = run[q]
      BY <1>1, <3>1, <3>2, ReplaceRunEffect
    <3> QED
      BY <1>1, <3>3 DEF RunRecord
  <2>4. /\ attempt'[r][k] = a
        /\ \A m \in Numbers \ {k} : attempt'[r][m] = attempt[r][m]
        /\ \A q \in Runs \ {r} : attempt'[q] = attempt[q]
    BY <1>1, <1>8, <2>1 DEF BeginAttempt, TypeOK
  <2>5. a.status = "running" /\ a.phase = run[r].phase /\ a.worker = w /\ a.token = t.token
    BY DEF NoAttempt
  <2>6. /\ task'[w][r] = s
        /\ \A v \in Workers, q \in Runs : v # w \/ q # r => task'[v][q] = task[v][q]
    BY <1>1, <1>8, BecomeEffect DEF BeginAttempt
  <2>7. s.pc = "started" /\ s.number = k /\ s.phase = run[r].phase /\ s.token = t.token
    BY <1>1 DEF Task
  <2>8. RunInv(r)'
    <3>1. /\ run[r].phase # "waiting_approval" /\ plan[r] # "rejected"
          /\ run[r].count <= retries[r] + Approvals(r)
          /\ \A m \in Numbers : attempt[r][m].status # "running"
      BY <1>1, <2>1 DEF RunInv
    <3>2. retries[r] \in Nat /\ Approvals(r) \in Nat /\ Approvals(r)' = Approvals(r)
      <4>1. retries[r] \in 0..MaxRetries
        BY <1>1 DEF TypeOK
      <4> QED
        BY <2>2, <4>1, ConstantsAssumption DEF Approvals
    <3>3. k <= 1 + retries[r] + Approvals(r)
      BY <1>1, <3>1, <3>2
    <3>4. \A m \in Numbers :
              /\ attempt'[r][m].phase = "executing" => plan[r] = "approved"
              /\ attempt'[r][m].status = "running" <=> m = k
      <4>1. /\ run[r].phase = "executing" => plan[r] = "approved"
            /\ \A m \in Numbers : attempt[r][m].phase = "executing" => plan[r] = "approved"
        BY <1>1 DEF RunInv
      <4>2. attempt'[r][k].status = "running" /\ attempt'[r][k].phase = run[r].phase
        BY <2>4, <2>5
      <4> QED
        BY <2>4, <3>1, <4>1, <4>2
    <3> QED
      BY <1>1, <2>2, <2>3, <3>1, <3>2, <3>3, <3>4 DEF RunInv
  <2>9. TaskInv(w, r)'
    <3>1. run[r].phase # "waiting_approval" /\ k \in 1..k
      BY <1>1, <2>1 DEF RunInv
    <3>2. /\ task'[w][r].pc = "started" /\ task'[w][r].number = k
          /\ task'[w][r].phase = run[r].phase /\ task'[w][r].token = t.token
      BY <2>6, <2>7
    <3>3. /\ attempt'[r][k].worker = w /\ attempt'[r][k].token = t.token
          /\ attempt'[r][k].status = "running"
      BY <2>4, <2>5
    <3> HIDE DEF k, s, a, row
    <3> QED
      BY <2>3, <3>1, <3>2, <3>3 DEF TaskInv, Executing
  <2>10. RunForward(r) /\ \A q \in Runs \ {r} : RunKept(q)
    BY <1>1, <2>2, <2>3, <2>4 DEF RunForward, RunKept
  <2>11. \A v \in Workers \ {w} : AttemptKept(v, r)
    BY <2>2, <2>6, OnlyHolder
  <2> QED
    BY <1>2, <2>2, <2>6, <2>8, <2>9, <2>10, <2>11, OneTask
<1>9. CASE SettleSuccess(w, r) \/ SettlePlanning(w, r) \/ SettleFailure(w, r)
  <2>1. /\ Executing(w, r) /\ CanSettle(w, r) /\ UNCHANGED <<lease, retries>>
        /\ t.pc \in {"settle", "failSettle"}
    BY <1>9 DEF SettleSuccess, SettlePlanning, SettleFailure, Executing
  <2>2. PICK status \in {"succeeded", "failed"} : SettleAttempt(w, r, status)
    BY <1>9 DEF SettleSuccess, SettlePlanning, SettleFailure
  <2>3. /\ n = run[r].count
        /\ attempt'[r][n].status = status
        /\ attempt'[r][n].worker = w
        /\ attempt'[r][n].token = task[w][r].token
        /\ \A m \in Numbers : attempt'[r][m].phase = attempt[r][m].phase
        /\ \A m \in Numbers : attempt'[r][m].status # "running"
        /\ \A q \in Runs \ {r} : attempt'[q] = attempt[q]
    BY <2>1, <2>2, SettleEffect
  <2>4. LeaseValid(w, r) /\ run[r].status # "cancelled" /\ run[r].status # "absent"
          /\ plan[r] # "rejected"
    BY <1>1, <2>1, <2>3 DEF CanSettle, Unchanged, TaskInv, RunInv, NoRun
  <2>5. PICK pc \in {"report"} : Goto(w, r, pc) \/ Close(w, r)
    BY <1>9 DEF SettleSuccess, SettlePlanning, SettleFailure
  <2>6. /\ \A v \in Workers, q \in Runs : v # w \/ q # r => task'[v][q] = task[v][q]
        /\ task'[w][r].token = t.token
        /\ Close(w, r) => task'[w][r].pc = "closing"
        /\ Goto(w, r, pc) => /\ task'[w][r].pc = "report"
                             /\ task'[w][r].number = n
                             /\ task'[w][r].phase = t.phase
    BY <1>1, <2>5, TaskMoveEffect
  <2>7. \A v \in Workers \ {w} : AttemptKept(v, r)
    BY <2>1, <2>4, <2>6, OnlyHolder
  <2>8. ASSUME run'[r].count = run[r].count PROVE TaskInv(w, r)'
    <3>1. CASE Close(w, r)
      BY <2>6, <3>1, QuietTask
    <3>2. CASE Goto(w, r, pc)
      BY <1>1, <2>1, <2>2, <2>3, <2>6, <2>8, <3>2 DEF TaskInv, Executing
    <3> QED
      BY <2>5, <3>1, <3>2
  <2>9. CASE SettleSuccess(w, r)
    <3> DEFINE row == [run[r] EXCEPT !.status = "succeeded", !.phase = "completed"]
    <3>1. row \in RunRecord
      BY <1>1 DEF RunRecord, RunStatus, RunPhase
    <3>2. ReplaceRun(r, row) /\ UNCHANGED <<plan, action>>
      BY <2>9 DEF SettleSuccess
    <3>3. /\ run'[r].status = row.status /\ run'[r].phase = row.phase
          /\ run'[r].count = row.count /\ run'[r].rev = row.rev + 1
          /\ \A q \in Runs \ {r} : run'[q] = run[q]
      BY <1>1, <3>1, <3>2, ReplaceRunEffect
    <3>4. /\ run'[r].status = "succeeded" /\ run'[r].phase = "completed"
          /\ run'[r].count = run[r].count /\ run'[r].rev = run[r].rev + 1
      BY <1>1, <3>3 DEF RunRecord
    <3>5. RunInv(r)'
      BY <1>1, <2>1, <2>3, <2>4, <3>2, <3>4 DEF RunInv, Approvals
    <3>6. RunForward(r) /\ \A q \in Runs \ {r} : RunKept(q)
      BY <1>1, <2>1, <2>3, <3>2, <3>3, <3>4 DEF RunForward, RunKept
    <3> QED
      BY <1>2, <2>1, <2>6, <2>7, <2>8, <3>4, <3>5, <3>6, OneTask
  <2>10. CASE SettleFailure(w, r)
    <3> DEFINE row == [run[r] EXCEPT !.status = "failed"]
    <3>1. row \in RunRecord
      BY <1>1 DEF RunRecord, RunStatus
    <3>2. ReplaceRun(r, row) /\ UNCHANGED <<plan, action>>
      BY <2>10 DEF SettleFailure
    <3>3. /\ run'[r].status = row.status /\ run'[r].phase = row.phase
          /\ run'[r].count = row.count /\ run'[r].rev = row.rev + 1
          /\ \A q \in Runs \ {r} : run'[q] = run[q]
      BY <1>1, <3>1, <3>2, ReplaceRunEffect
    <3>4. /\ run'[r].status = "failed" /\ run'[r].phase = run[r].phase
          /\ run'[r].count = run[r].count /\ run'[r].rev = run[r].rev + 1
      BY <1>1, <3>3 DEF RunRecord
    <3>5. RunInv(r)'
      BY <1>1, <2>1, <2>3, <2>4, <3>2, <3>4 DEF RunInv, Approvals
    <3>6. RunForward(r) /\ \A q \in Runs \ {r} : RunKept(q)
      BY <1>1, <2>1, <2>3, <3>2, <3>3, <3>4 DEF RunForward, RunKept
    <3> QED
      BY <1>2, <2>1, <2>6, <2>7, <2>8, <3>4, <3>5, <3>6, OneTask
  <2>11. CASE SettlePlanning(w, r)
    <3> DEFINE row == [run[r] EXCEPT !.status = "waiting", !.phase = "waiting_approval",
                                     !.required = TRUE]
    <3>1. row \in RunRecord
      BY <1>1 DEF RunRecord, RunStatus, RunPhase
    <3>2. ReplaceRun(r, row)
      BY <2>11 DEF SettlePlanning
    <3>3. /\ run'[r].status = row.status /\ run'[r].phase = row.phase
          /\ run'[r].required = row.required
          /\ run'[r].count = row.count /\ run'[r].rev = row.rev + 1
          /\ \A q \in Runs \ {r} : run'[q] = run[q]
      BY <1>1, <3>1, <3>2, ReplaceRunEffect
    <3>4. /\ run'[r].status = "waiting" /\ run'[r].phase = "waiting_approval"
          /\ run'[r].required
          /\ run'[r].count = run[r].count /\ run'[r].rev = run[r].rev + 1
      BY <1>1, <3>3 DEF RunRecord
    <3>5. /\ plan'[r] = "pending" /\ action'[r].status = "pending"
          /\ \A q \in Runs \ {r} : plan'[q] = plan[q] /\ action'[q] = action[q]
      BY <1>1, <2>11 DEF SettlePlanning, TypeOK
    <3>6. plan[r] = "none"
      BY <1>1, <2>1, <2>4, <2>11 DEF SettlePlanning, TaskInv, RunInv
    <3>7. RunInv(r)'
      BY <1>1, <2>1, <2>3, <2>4, <3>4, <3>5, <3>6 DEF RunInv, Approvals
    <3>8. RunForward(r) /\ \A q \in Runs \ {r} : RunKept(q)
      BY <1>1, <2>1, <2>3, <3>3, <3>4, <3>5 DEF RunForward, RunKept
    <3> QED
      BY <1>2, <2>1, <2>6, <2>7, <2>8, <3>4, <3>7, <3>8, OneTask
  <2> QED
    BY <1>9, <2>9, <2>10, <2>11
<1>10. CASE Release(w, r)
  <2>1. /\ task'[w][r] = NoTask
        /\ \A v \in Workers, q \in Runs : v # w \/ q # r => task'[v][q] = task[v][q]
    BY <1>1, <1>10, BecomeEffect DEF Release
  <2>2. /\ \A q \in Runs \ {r} : lease'[q] = lease[q]
        /\ lease' = lease \/ ~lease'[r].live
    BY <1>1, <1>10 DEF Release, TypeOK
  <2>3. UNCHANGED <<run, attempt, plan, action, retries>>
    BY <1>10 DEF Release
  <2>4. RunInv(r)' /\ RunForward(r) /\ \A q \in Runs \ {r} : RunKept(q)
    BY <1>1, <2>3, RunFrame DEF RunForward, RunKept
  <2>5. \A v \in Workers \ {w} : AttemptKept(v, r)
    BY <2>1, <2>2, <2>3 DEF AttemptKept, LeaseValid
  <2>6. TaskInv(w, r)'
    BY <2>1, QuietTask DEF NoTask
  <2> QED
    BY <1>2, <2>1, <2>2, <2>4, <2>5, <2>6, OneTask
<1> QED
  BY <1>3, <1>4, <1>5, <1>6, <1>7, <1>8, <1>9, <1>10 DEF Execute


(* No step of anybody breaks IInv.                                         *)
LEMMA NextInv == IInv /\ [Next]_vars => IInv'
<1> SUFFICES ASSUME IInv, [Next]_vars PROVE IInv'
  OBVIOUS
<1>1. CASE Next
  <2>1. ASSUME NEW r \in Runs, Client(r) PROVE IInv'
    BY <2>1, ClientInv
  <2>2. ASSUME NEW w \in Workers, NEW r \in Runs, Execute(w, r) PROVE IInv'
    BY <2>2, ExecuteInv
  <2>3. ASSUME NEW w \in Workers, NEW r \in Runs,
               Claim(w, r) \/ ClaimAndHandBack(w, r) \/ TaskCancelled(w, r)
        PROVE  IInv'
    BY <2>3, LeaseInv
  <2>4. ASSUME NEW w \in Workers, Crash(w) PROVE IInv'
    <3>1. PICK r \in Runs : task[w][r].pc # "idle"
      BY <2>4 DEF Crash
    <3> QED
      BY <2>4, LeaseInv
  <2>5. ASSUME NEW r \in Runs, LeaseMissed(r) \/ LeaseLapses(r) \/ InterruptExpired(r)
        PROVE  IInv'
    BY <2>5, LeaseInv
  <2> QED
    BY <1>1, <2>1, <2>2, <2>3, <2>4, <2>5 DEF Next
<1>2. CASE UNCHANGED vars
  <2>1. TypeOK' /\ \A r \in Runs : RunKept(r) /\ RunForward(r)
    BY <1>2 DEF IInv, TypeOK, vars, RunKept, RunForward
  <2>2. ASSUME NEW r \in Runs PROVE RunInv(r)'
    BY <2>1, RunFrame DEF IInv
  <2>3. ASSUME NEW w \in Workers, NEW r \in Runs PROVE TaskInv(w, r)'
    <3>1. AttemptKept(w, r) /\ task'[w][r] = task[w][r]
      BY <1>2 DEF vars, AttemptKept, LeaseValid
    <3> QED
      BY <2>1, <3>1, TaskFrame DEF IInv
  <2> QED
    BY <2>1, <2>2, <2>3 DEF IInv
<1> QED
  BY <1>1, <1>2

-----------------------------------------------------------------------------
(* The inductive invariant holds in every deployment: any number of Runs,  *)
(* Workers, retries, crashes and lost leases.                              *)
THEOREM Invariant == Spec => []IInv
<1>1. IInv /\ [Next]_vars => IInv'
  BY NextInv
<1> QED
  BY InitInv, <1>1, PTL DEF Spec

(* The tables and the tasks of control/plane.py, store/postgres.py and     *)
(* worker/service.py only ever hold well-formed records; in particular no  *)
(* Run gets more Attempts than its retries and its approval allow.         *)
THEOREM TypeCorrect == Spec => []TypeOK
<1>1. IInv => TypeOK
  BY DEF IInv
<1> QED
  BY Invariant, <1>1, PTL

(* begin_attempt, the settlements, cancel and the reconciler leave runs    *)
(* and run_attempts in agreement, whoever acts last.                       *)
THEOREM TablesAgree == Spec => []RunAgreesWithAttempts
<1>1. IInv => RunAgreesWithAttempts
  BY DEF IInv, RunInv, RunAgreesWithAttempts
<1> QED
  BY Invariant, <1>1, PTL

(* Crashes, lost leases and reconciliation never start an Attempt by       *)
(* themselves.                                                             *)
THEOREM NeverReplayed == Spec => []NoAutomaticReplay
<1>1. IInv => NoAutomaticReplay
  BY DEF IInv, RunInv, Approvals, NoAutomaticReplay
<1> QED
  BY Invariant, <1>1, PTL

(* DSH executes only Plans whose approval _resolve_plan_action recorded,   *)
(* and a rejection cannot be undone by a task that is still at work.       *)
THEOREM ApprovalRespected == Spec => [](OnlyApprovedPlansExecute /\ RejectedPlanEndsRun)
<1>1. IInv => OnlyApprovedPlansExecute /\ RejectedPlanEndsRun
  BY DEF IInv, RunInv, OnlyApprovedPlansExecute, RejectedPlanEndsRun
<1> QED
  BY Invariant, <1>1, PTL

(* A WAITING Run has a pending Plan and a pending RequiredAction: what     *)
(* complete_planning and decide_plan write together stays together.        *)
THEOREM WaitingIsPending == Spec => []WaitingHasPendingAction
<1>1. IInv => WaitingHasPendingAction
  BY DEF IInv, RunInv, WaitingHasPendingAction
<1> QED
  BY Invariant, <1>1, PTL

-----------------------------------------------------------------------------
(* The refinement of RunContract and the history of Attempts.  Each group  *)
(* of actions has a lemma that says what its steps do to a Run and to its  *)
(* Attempts; the theorems follow from these.                               *)

(* What any step does to an Attempt that exists.                           *)
AttemptStep(r, n) ==
    \/ attempt'[r][n] = attempt[r][n]
    \/ /\ attempt'[r][n].token = attempt[r][n].token
       /\ attempt'[r][n].dispatch # "not_sent"
       /\ attempt'[r][n].status # "none"
       /\ attempt[r][n].status \notin {"none", "interrupted"}

(* Attempts exist up to attempt_count, so that this is said of all of them.*)
OldAttempts(r) == \A n \in Numbers : n <= run[r].count => AttemptStep(r, n)

(* Nothing is written to another Run.                                      *)
OthersKept(r) ==
    \A q \in Runs \ {r} :
        run'[q] = run[q] /\ attempt'[q] = attempt[q] /\ plan'[q] = plan[q]

(* Nothing changes but the task of w for r.                                *)
OtherTasksKept(w, r) ==
    \A v \in Workers, q \in Runs : v # w \/ q # r => task'[v][q] = task[v][q]

(* The numbers in the records.                                             *)
LEMMA FieldTypes ==
    ASSUME TypeOK, NEW r \in Runs
    PROVE  /\ lease[r].token \in Nat
           /\ run[r].count \in NumberOrNone /\ run[r].count \in Nat
           /\ \A n \in Numbers : attempt[r][n].token \in Nat
           /\ \A w \in Workers : task[w][r].token \in Nat
<1>1. lease[r].token \in Nat
  BY DEF TypeOK
<1>2. /\ run[r] \in RunRecord
      /\ \A n \in Numbers : attempt[r][n] \in RunAttempt
      /\ \A w \in Workers : task[w][r] \in Task
  BY RowTypes
<1>3. run[r].count \in NumberOrNone
  BY <1>2 DEF RunRecord
<1>4. \A n \in Numbers : attempt[r][n].token \in Nat
  BY <1>2 DEF RunAttempt
<1>5. \A w \in Workers : task[w][r].token \in Nat
  BY <1>2 DEF Task
<1> QED
  BY <1>1, <1>3, <1>4, <1>5, NumberTypes

-----------------------------------------------------------------------------
(* Effects.                                                                *)

(* A request moves its Run from a status in `before' to `after' and leaves *)
(* `decision' as the status of the Plan.                                   *)
ClientMove(r, before, after, decision) ==
    /\ run[r].status \in before /\ run'[r].status = after
    /\ plan'[r] = decision

(* It settles a RUNNING Attempt at most, and leaves leases and tasks       *)
(* alone.                                                                  *)
LEMMA ClientEffect ==
    ASSUME FullInv, NEW r \in Runs, Client(r)
    PROVE  /\ UNCHANGED <<lease, task>>
           /\ OthersKept(r)
           /\ \A n \in Numbers : AttemptStep(r, n)
           /\ run'[r].count = run[r].count
           /\ \/ ClientMove(r, {"absent"}, "queued", plan[r]) /\ plan[r] = "none"
              \/ /\ ClientMove(r, {"queued", "running"}, "cancelled", plan[r])
                 /\ run'[r].phase = run[r].phase
              \/ /\ ClientMove(r, {"failed", "cancelled"}, "queued", plan[r])
                 /\ run'[r].phase = run[r].phase /\ plan[r] \in {"none", "approved"}
              \/ /\ ClientMove(r, {"waiting"}, "queued", "approved")
                 /\ plan[r] = "pending"
              \/ /\ ClientMove(r, {"waiting"}, "cancelled", "rejected")
                 /\ plan[r] = "pending"
<1>1. TypeOK /\ RunInv(r) /\ HistoryInv(r) /\ run[r] \in RunRecord
      /\ plan[r] \in {"none", "pending", "approved", "rejected"}
  BY RowTypes DEF FullInv, IInv, TypeOK
<1>2. UNCHANGED <<lease, task>>
  BY DEF Client, Submit, CancelWaiting, Cancel, Retry, Approve, Reject
<1>3. ASSUME NEW phase \in {"direct", "planning"}, Submit(r, phase)
      PROVE  /\ ClientMove(r, {"absent"}, "queued", plan[r]) /\ plan[r] = "none"
             /\ run'[r].count = run[r].count
             /\ OthersKept(r) /\ UNCHANGED attempt
  <2>1. /\ run'[r].status = "queued" /\ run'[r].count = 0
        /\ \A q \in Runs \ {r} : run'[q] = run[q]
    BY <1>1, <1>3 DEF Submit, NoRun, TypeOK
  <2>2. run[r].status = "absent" /\ plan[r] = "none" /\ run[r].count = 0
    BY <1>1, <1>3 DEF RunInv, Submit, NoRun
  <2> QED
    BY <1>3, <2>1, <2>2 DEF ClientMove, OthersKept, Submit
<1>4. CASE CancelWaiting(r)
  <2> DEFINE row == [run[r] EXCEPT !.status = "cancelled", !.active = 0, !.required = FALSE]
  <2>1. row \in RunRecord
    BY <1>1, NumberTypes DEF RunRecord, RunStatus
  <2>2. /\ run'[r].status = row.status /\ run'[r].count = row.count
        /\ \A q \in Runs \ {r} : run'[q] = run[q]
    BY <1>1, <1>4, <2>1, ReplaceRunEffect DEF CancelWaiting
  <2>3. row.status = "cancelled" /\ row.count = run[r].count
    BY <1>1 DEF RunRecord
  <2>4. run[r].status = "waiting" /\ plan[r] = "pending"
    BY <1>1, <1>4 DEF CancelWaiting, RunInv, RunRecord, RunStatus, TerminalRunStatuses
  <2>5. plan'[r] = "rejected" /\ UNCHANGED attempt
        /\ \A q \in Runs \ {r} : plan'[q] = plan[q]
    BY <1>1, <1>4 DEF CancelWaiting, TypeOK
  <2> QED
    BY <1>2, <2>2, <2>3, <2>4, <2>5 DEF ClientMove, OthersKept, AttemptStep
<1>5. CASE Cancel(r)
  <2> DEFINE n == run[r].active
             row == [run[r] EXCEPT !.status = "cancelled"]
             a == [attempt[r][n] EXCEPT !.status = "cancelled", !.dispatch = "settled"]
  <2>1. row \in RunRecord
    BY <1>1 DEF RunRecord, RunStatus
  <2>2. /\ run'[r].status = row.status /\ run'[r].count = row.count
        /\ run'[r].phase = row.phase
        /\ \A q \in Runs \ {r} : run'[q] = run[q]
    BY <1>1, <1>5, <2>1, ReplaceRunEffect DEF Cancel
  <2>3. row.status = "cancelled" /\ row.count = run[r].count /\ row.phase = run[r].phase
    BY <1>1 DEF RunRecord
  <2>4. run[r].status \in {"queued", "running"}
    BY <1>1, <1>5 DEF Cancel, RunInv, RunRecord, RunStatus, TerminalRunStatuses
  <2>5. /\ \A m \in Numbers : AttemptStep(r, m)
        /\ \A q \in Runs \ {r} : attempt'[q] = attempt[q]
    <3>1. CASE n # 0 /\ attempt[r][n].status = "running"
      <4>1. n \in Numbers /\ attempt[r][n] \in RunAttempt
        BY <1>1, <3>1, NumberTypes, RowTypes DEF RunRecord
      <4>2. a \in RunAttempt /\ a.status = "cancelled" /\ a.dispatch = "settled"
            /\ a.token = attempt[r][n].token
        BY <4>1 DEF RunAttempt, AttemptStatus, DispatchState
      <4>3. ReplaceAttempt(r, n, a)
        BY <1>5, <3>1 DEF Cancel
      <4>4. /\ attempt'[r][n].status = a.status
            /\ attempt'[r][n].dispatch = a.dispatch
            /\ attempt'[r][n].token = a.token
            /\ \A m \in Numbers \ {n} : attempt'[r][m] = attempt[r][m]
            /\ \A q \in Runs \ {r} : attempt'[q] = attempt[q]
        BY <1>1, <4>1, <4>2, <4>3, ReplaceAttemptEffect
      <4> QED
        BY <3>1, <4>2, <4>4 DEF AttemptStep
    <3>2. CASE ~(n # 0 /\ attempt[r][n].status = "running")
      BY <1>5, <3>2 DEF Cancel, AttemptStep
    <3> QED
      BY <3>1, <3>2
  <2>6. UNCHANGED plan
    BY <1>5 DEF Cancel
  <2> QED
    BY <1>2, <2>2, <2>3, <2>4, <2>5, <2>6 DEF ClientMove, OthersKept
<1>6. CASE Retry(r)
  <2> DEFINE row == [run[r] EXCEPT !.status = "queued", !.active = 0]
  <2>1. row \in RunRecord
    BY <1>1, NumberTypes DEF RunRecord, RunStatus
  <2>2. /\ run'[r].status = row.status /\ run'[r].count = row.count
        /\ run'[r].phase = row.phase
        /\ \A q \in Runs \ {r} : run'[q] = run[q]
    BY <1>1, <1>6, <2>1, ReplaceRunEffect DEF Retry
  <2>3. row.status = "queued" /\ row.count = run[r].count /\ row.phase = run[r].phase
    BY <1>1 DEF RunRecord
  <2>4. run[r].status \in {"failed", "cancelled"} /\ plan[r] \in {"none", "approved"}
    BY <1>1, <1>6 DEF Retry, RunInv, HistoryInv
  <2>5. UNCHANGED <<plan, attempt>>
    BY <1>6 DEF Retry
  <2> QED
    BY <1>2, <2>2, <2>3, <2>4, <2>5 DEF ClientMove, OthersKept, AttemptStep
<1>7. CASE Approve(r)
  <2> DEFINE row == [run[r] EXCEPT !.status = "queued", !.phase = "executing",
                                   !.active = 0, !.required = FALSE]
  <2>1. row \in RunRecord
    BY <1>1, NumberTypes DEF RunRecord, RunStatus, RunPhase
  <2>2. /\ run'[r].status = row.status /\ run'[r].count = row.count
        /\ \A q \in Runs \ {r} : run'[q] = run[q]
    BY <1>1, <1>7, <2>1, ReplaceRunEffect DEF Approve
  <2>3. row.status = "queued" /\ row.count = run[r].count
    BY <1>1 DEF RunRecord
  <2>4. run[r].status = "waiting" /\ plan[r] = "pending"
    BY <1>7 DEF Approve, Decidable
  <2>5. plan'[r] = "approved" /\ UNCHANGED attempt
        /\ \A q \in Runs \ {r} : plan'[q] = plan[q]
    BY <1>1, <1>7 DEF Approve, TypeOK
  <2> QED
    BY <1>2, <2>2, <2>3, <2>4, <2>5 DEF ClientMove, OthersKept, AttemptStep
<1>8. CASE Reject(r)
  <2> DEFINE row == [run[r] EXCEPT !.status = "cancelled", !.active = 0, !.required = FALSE]
  <2>1. row \in RunRecord
    BY <1>1, NumberTypes DEF RunRecord, RunStatus
  <2>2. /\ run'[r].status = row.status /\ run'[r].count = row.count
        /\ \A q \in Runs \ {r} : run'[q] = run[q]
    BY <1>1, <1>8, <2>1, ReplaceRunEffect DEF Reject
  <2>3. row.status = "cancelled" /\ row.count = run[r].count
    BY <1>1 DEF RunRecord
  <2>4. run[r].status = "waiting" /\ plan[r] = "pending"
    BY <1>8 DEF Reject, Decidable
  <2>5. plan'[r] = "rejected" /\ UNCHANGED attempt
        /\ \A q \in Runs \ {r} : plan'[q] = plan[q]
    BY <1>1, <1>8 DEF Reject, TypeOK
  <2> QED
    BY <1>2, <2>2, <2>3, <2>4, <2>5 DEF ClientMove, OthersKept, AttemptStep
<1> QED
  BY <1>2, <1>3, <1>4, <1>5, <1>6, <1>7, <1>8 DEF Client, AttemptStep


(* The reconciler fails a RUNNING Run nobody can report for.               *)
LEMMA InterruptEffect ==
    ASSUME FullInv, NEW r \in Runs, InterruptExpired(r)
    PROVE  /\ UNCHANGED <<lease, task, plan>>
           /\ OthersKept(r)
           /\ \A n \in Numbers : AttemptStep(r, n)
           /\ run'[r].count = run[r].count
           /\ run'[r].phase = run[r].phase
           /\ run[r].status = "running" /\ run'[r].status = "failed"
           /\ \A w \in Workers : ~(Executing(w, r) /\ LeaseValid(w, r))
<1> DEFINE n == run[r].active
           row == [run[r] EXCEPT !.status = "failed"]
           a == [attempt[r][n] EXCEPT !.status = "interrupted", !.dispatch = "unknown"]
<1>1. /\ TypeOK /\ RunInv(r) /\ run[r] \in RunRecord
      /\ n \in Numbers /\ attempt[r][n] \in RunAttempt
  BY RowTypes, NumberTypes DEF FullInv, IInv, InterruptExpired, RunRecord
<1>2. row \in RunRecord /\ a \in RunAttempt
  BY <1>1 DEF RunRecord, RunAttempt, RunStatus, AttemptStatus, DispatchState
<1>3. /\ run'[r].status = row.status /\ run'[r].count = row.count
      /\ run'[r].phase = row.phase
      /\ \A q \in Runs \ {r} : run'[q] = run[q]
  BY <1>1, <1>2, ReplaceRunEffect DEF InterruptExpired
<1>4. row.status = "failed" /\ row.count = run[r].count /\ row.phase = run[r].phase
  BY <1>1 DEF RunRecord
<1>5. /\ attempt'[r][n].status = a.status
      /\ attempt'[r][n].dispatch = a.dispatch
      /\ attempt'[r][n].token = a.token
      /\ \A m \in Numbers \ {n} : attempt'[r][m] = attempt[r][m]
      /\ \A q \in Runs \ {r} : attempt'[q] = attempt[q]
  BY <1>1, <1>2, ReplaceAttemptEffect DEF InterruptExpired
<1>6. a.status = "interrupted" /\ a.dispatch = "unknown" /\ a.token = attempt[r][n].token
  BY <1>1 DEF RunAttempt
<1>7. attempt[r][n].status = "running" /\ run[r].status = "running"
      /\ UNCHANGED <<lease, task, plan>>
  BY DEF InterruptExpired
<1>8. \A m \in Numbers : AttemptStep(r, m)
  BY <1>5, <1>6, <1>7 DEF AttemptStep
<1>9. ASSUME NEW w \in Workers, Executing(w, r), LeaseValid(w, r) PROVE FALSE
  <2>1. TaskInv(w, r) /\ n = run[r].count
    BY <1>1, <1>7 DEF FullInv, IInv, RunInv
  <2> QED
    BY <1>9, <2>1 DEF InterruptExpired, TaskInv, LeaseValid
<1> QED
  BY <1>3, <1>4, <1>5, <1>7, <1>8, <1>9 DEF OthersKept

(* Where a task goes while Run, Plan and lease stay as they are: into      *)
(* begin_attempt, within _execute, or out of it.                           *)
MovesOn(w, r) ==
    LET t == task[w][r] IN
    \/ task'[w][r].pc = "closing"
    \/ t.pc = "claimed" /\ task'[w][r].pc = "begin"
    \/ /\ Executing(w, r) /\ task'[w][r].number = t.number
       /\ \/ task'[w][r].pc \in {"fail", "failSettle"}
          \/ t.pc = "accepted" /\ task'[w][r].pc = "settle"
          \/ /\ t.pc \in {"started", "dispatched"}
             /\ task'[w][r].pc \in {"dispatched", "accepted"}
             /\ attempt'[r][t.number].dispatch # "not_sent"

(* _set_dispatch_state: the Attempt says more than NOT_SENT when it        *)
(* returns, whoever settled it.                                            *)
LEMMA DispatchEffect ==
    ASSUME FullInv, NEW w \in Workers, NEW r \in Runs, Executing(w, r),
           task[w][r].pc \in {"started", "dispatched"},
           NEW state \in {"dispatching", "accepted"},
           NEW pc \in {"dispatched", "accepted"}, SetDispatchState(w, r, state, pc)
    PROVE  /\ \A n \in Numbers : AttemptStep(r, n)
           /\ \A q \in Runs \ {r} : attempt'[q] = attempt[q]
           /\ OtherTasksKept(w, r)
           /\ task'[w][r].token = task[w][r].token
           /\ MovesOn(w, r)
<1> DEFINE n == task[w][r].number
           a == [attempt[r][n] EXCEPT !.dispatch = state]
<1>1. /\ TypeOK /\ HistoryInv(r)
      /\ n \in Numbers /\ attempt[r][n] \in RunAttempt
  BY RowTypes, ExecutingHasAttempt DEF FullInv, IInv
<1>2. a \in RunAttempt /\ a.dispatch = state /\ a.status = attempt[r][n].status
      /\ a.token = attempt[r][n].token
  BY <1>1 DEF RunAttempt, DispatchState
<1>3. /\ \A m \in Numbers : AttemptStep(r, m)
      /\ \A q \in Runs \ {r} : attempt'[q] = attempt[q]
      /\ Goto(w, r, pc) => attempt'[r][n].dispatch # "not_sent"
  <2>1. CASE attempt[r][n].status = "running" /\ ReplaceAttempt(r, n, a)
    <3>1. /\ attempt'[r][n].status = a.status
          /\ attempt'[r][n].dispatch = a.dispatch
          /\ attempt'[r][n].token = a.token
          /\ \A m \in Numbers \ {n} : attempt'[r][m] = attempt[r][m]
          /\ \A q \in Runs \ {r} : attempt'[q] = attempt[q]
      BY <1>1, <1>2, <2>1, ReplaceAttemptEffect
    <3> QED
      BY <1>2, <2>1, <3>1 DEF AttemptStep
  <2>2. CASE UNCHANGED attempt /\ attempt[r][n].status \in TerminalAttemptStatuses
    BY <1>1, <2>2 DEF AttemptStep, HistoryInv
  <2>3. CASE UNCHANGED attempt /\ Close(w, r)
    <3>1. task'[w][r].pc = "closing"
      BY <1>1, <2>3, TaskMoveEffect
    <3>2. Goto(w, r, pc) => task'[w][r].pc = pc
      BY <1>1, TaskMoveEffect
    <3> QED
      BY <2>3, <3>1, <3>2 DEF AttemptStep
  <2> QED
    BY <2>1, <2>2, <2>3 DEF SetDispatchState
<1>4. Goto(w, r, pc) \/ Close(w, r)
  BY DEF SetDispatchState
<1>5. /\ OtherTasksKept(w, r)
      /\ task'[w][r].token = task[w][r].token
      /\ Close(w, r) => task'[w][r].pc = "closing"
      /\ Goto(w, r, pc) => task'[w][r].pc = pc /\ task'[w][r].number = n
  BY <1>1, <1>4, TaskMoveEffect DEF OtherTasksKept
<1> QED
  BY <1>3, <1>4, <1>5 DEF MovesOn

(* The actions of a task that write no more than a dispatch state.         *)
Moves(w, r) ==
    \/ ReadQueued(w, r) \/ BeginRefused(w, r) \/ Dispatch(w, r) \/ Accept(w, r)
    \/ ExecuteFails(w, r) \/ Finish(w, r) \/ SettleRefused(w, r) \/ Report(w, r)
    \/ ReportFails(w, r) \/ ReadForFailure(w, r) \/ FailureRefused(w, r)
    \/ TaskCancelled(w, r)

(* Such an action leaves Runs, Plans and leases alone.                     *)
LEMMA MoveEffect ==
    ASSUME FullInv, NEW w \in Workers, NEW r \in Runs, Moves(w, r)
    PROVE  /\ UNCHANGED <<run, plan, lease>>
           /\ \A n \in Numbers : AttemptStep(r, n)
           /\ \A q \in Runs \ {r} : attempt'[q] = attempt[q]
           /\ OtherTasksKept(w, r)
           /\ task'[w][r].token = task[w][r].token
           /\ MovesOn(w, r)
<1> DEFINE t == task[w][r]
<1>1. TypeOK /\ t \in Task
  BY RowTypes DEF FullInv, IInv
<1>2. UNCHANGED <<run, plan, lease>>
  BY DEF Moves, ReadQueued, BeginRefused, Dispatch, Accept, ExecuteFails, Finish,
         SettleRefused, Report, ReportFails, ReadForFailure, FailureRefused, TaskCancelled
<1>3. CASE Dispatch(w, r) \/ Accept(w, r)
  <2>1. PICK state \in {"dispatching", "accepted"}, pc \in {"dispatched", "accepted"} :
            SetDispatchState(w, r, state, pc)
    BY <1>3 DEF Dispatch, Accept
  <2>2. Executing(w, r) /\ t.pc \in {"started", "dispatched"}
    BY <1>3 DEF Dispatch, Accept, Executing
  <2> QED
    BY <1>2, <2>1, <2>2, DispatchEffect
<1>4. ASSUME UNCHANGED attempt,
             Close(w, r) \/ (Goto(w, r, "fail") /\ Executing(w, r))
      PROVE  /\ \A n \in Numbers : AttemptStep(r, n)
             /\ \A q \in Runs \ {r} : attempt'[q] = attempt[q]
             /\ OtherTasksKept(w, r)
             /\ task'[w][r].token = task[w][r].token
             /\ MovesOn(w, r)
  <2>1. /\ OtherTasksKept(w, r)
        /\ task'[w][r].token = task[w][r].token
        /\ Close(w, r) => task'[w][r].pc = "closing"
        /\ Goto(w, r, "fail") => task'[w][r].pc = "fail" /\ task'[w][r].number = t.number
    BY <1>1, <1>4, TaskMoveEffect DEF OtherTasksKept
  <2> QED
    BY <1>4, <2>1 DEF AttemptStep, MovesOn
<1>5. ASSUME UNCHANGED attempt, NEW s, Become(w, r, s), s.token = t.token,
             \/ t.pc = "claimed" /\ s.pc = "begin"
             \/ /\ Executing(w, r) /\ s.number = t.number
                /\ s.pc = "failSettle" \/ (t.pc = "accepted" /\ s.pc = "settle")
      PROVE  /\ \A n \in Numbers : AttemptStep(r, n)
             /\ \A q \in Runs \ {r} : attempt'[q] = attempt[q]
             /\ OtherTasksKept(w, r)
             /\ task'[w][r].token = task[w][r].token
             /\ MovesOn(w, r)
  <2>1. OtherTasksKept(w, r) /\ task'[w][r] = s
    BY <1>1, <1>5, BecomeEffect DEF OtherTasksKept
  <2> QED
    BY <1>5, <2>1 DEF AttemptStep, MovesOn
<1>6. CASE ReadQueued(w, r)
  <2> DEFINE s == [t EXCEPT !.pc = "begin", !.runRev = run[r].rev]
  <2>1. s.token = t.token /\ s.pc = "begin"
    BY <1>1 DEF Task
  <2>2. Become(w, r, s) \/ Close(w, r)
    BY <1>6 DEF ReadQueued
  <2> QED
    BY <1>2, <1>4, <1>5, <1>6, <2>1, <2>2 DEF ReadQueued
<1>7. CASE Finish(w, r) \/ ReadForFailure(w, r)
  <2>1. PICK pc \in {"settle", "failSettle"} :
            /\ ReadForSettlement(w, r, pc)
            /\ pc = "settle" => t.pc = "accepted"
    BY <1>7 DEF Finish, ReadForFailure
  <2> DEFINE s == [t EXCEPT !.pc = pc, !.runRev = run[r].rev,
                            !.attemptRev = attempt[r][t.number].rev]
  <2>2. s.token = t.token /\ s.pc = pc /\ s.number = t.number
    BY <1>1 DEF Task
  <2>3. Become(w, r, s) \/ Close(w, r)
    BY <2>1 DEF ReadForSettlement
  <2>4. UNCHANGED attempt /\ Executing(w, r)
    BY <1>7 DEF Finish, ReadForFailure, Executing
  <2> QED
    BY <1>2, <1>4, <1>5, <2>1, <2>2, <2>3, <2>4
<1>8. CASE \/ BeginRefused(w, r) \/ ExecuteFails(w, r) \/ SettleRefused(w, r)
           \/ Report(w, r) \/ ReportFails(w, r) \/ FailureRefused(w, r)
           \/ TaskCancelled(w, r)
  <2>1. UNCHANGED attempt
    BY <1>8 DEF BeginRefused, ExecuteFails, SettleRefused, Report, ReportFails,
                FailureRefused, TaskCancelled
  <2>2. Close(w, r) \/ (Goto(w, r, "fail") /\ Executing(w, r))
    BY <1>8 DEF BeginRefused, ExecuteFails, SettleRefused, Report, ReportFails,
                FailureRefused, TaskCancelled, Executing
  <2> QED
    BY <1>2, <1>4, <2>1, <2>2
<1> QED
  BY <1>3, <1>6, <1>7, <1>8 DEF Moves

(* begin_attempt adds the next Attempt under the token of the grant.       *)
LEMMA BeginEffect ==
    ASSUME FullInv, NEW w \in Workers, NEW r \in Runs, BeginAttempt(w, r)
    PROVE  LET k == run[r].count + 1 IN
           /\ LeaseValid(w, r)
           /\ UNCHANGED <<lease, plan>>
           /\ OthersKept(r)
           /\ OtherTasksKept(w, r)
           /\ k \in Numbers
           /\ run[r].status = "queued" /\ run'[r].status = "running"
           /\ run'[r].count = k
           /\ run'[r].phase = run[r].phase
           /\ attempt'[r][k].status = "running"
           /\ attempt'[r][k].token = task[w][r].token
           /\ \A m \in Numbers \ {k} : attempt'[r][m] = attempt[r][m]
           /\ task'[w][r].pc = "started"
           /\ task'[w][r].token = task[w][r].token
<1> DEFINE k == run[r].count + 1
           t == task[w][r]
           row == [run[r] EXCEPT !.status = "running", !.count = k, !.active = k]
           a == [NoAttempt EXCEPT !.status = "running", !.phase = run[r].phase,
                                  !.worker = w, !.token = t.token]
           s == [t EXCEPT !.pc = "started", !.number = k,
                          !.phase = run[r].phase, !.runRev = 0]
<1>1. TypeOK /\ run[r] \in RunRecord /\ t \in Task
  BY RowTypes DEF FullInv, IInv
<1>2. run[r].status = "queued" /\ k \in Numbers /\ k \in NumberOrNone
  BY RoomForAttempt, NumberTypes DEF FullInv
<1>3. row \in RunRecord
  BY <1>1, <1>2 DEF RunRecord, RunStatus
<1>4. ReplaceRun(r, row) /\ Become(w, r, s) /\ LeaseValid(w, r) /\ UNCHANGED <<lease, plan>>
  BY DEF BeginAttempt
<1>5. /\ run'[r].status = row.status /\ run'[r].count = row.count
      /\ run'[r].phase = row.phase
      /\ \A q \in Runs \ {r} : run'[q] = run[q]
  BY <1>1, <1>3, <1>4, ReplaceRunEffect
<1>6. row.status = "running" /\ row.count = k /\ row.phase = run[r].phase
  BY <1>1 DEF RunRecord
<1>7. /\ attempt'[r][k] = a
      /\ \A m \in Numbers \ {k} : attempt'[r][m] = attempt[r][m]
      /\ \A q \in Runs \ {r} : attempt'[q] = attempt[q]
  BY <1>1, <1>2 DEF BeginAttempt, TypeOK
<1>8. a.status = "running" /\ a.token = t.token
  BY DEF NoAttempt
<1>9. task'[w][r] = s /\ OtherTasksKept(w, r)
  BY <1>1, <1>4, BecomeEffect DEF OtherTasksKept
<1>10. s.pc = "started" /\ s.token = t.token
  BY <1>1 DEF Task
<1> HIDE DEF k, s, a, row
<1>11. OthersKept(r)
  BY <1>4, <1>5, <1>7 DEF OthersKept
<1> QED
  BY <1>2, <1>4, <1>5, <1>6, <1>7, <1>8, <1>9, <1>10, <1>11 DEF k

(* A settlement: the holder of the lease ends its Attempt and moves the    *)
(* Run; it reports next, or closes.                                        *)
Settles(w, r) ==
    /\ Executing(w, r) /\ LeaseValid(w, r)
    /\ UNCHANGED lease
    /\ OthersKept(r)
    /\ OtherTasksKept(w, r)
    /\ \A n \in Numbers : AttemptStep(r, n)
    /\ run'[r].count = run[r].count
    /\ task'[w][r].token = task[w][r].token

Settlement(w, r) == SettleSuccess(w, r) \/ SettlePlanning(w, r) \/ SettleFailure(w, r)

(* The Attempt half of a settlement, and where the task goes.              *)
LEMMA SettlesItsAttempt ==
    ASSUME FullInv, NEW w \in Workers, NEW r \in Runs, Settlement(w, r)
    PROVE  /\ Executing(w, r) /\ LeaseValid(w, r)
           /\ UNCHANGED lease
           /\ OtherTasksKept(w, r)
           /\ \A n \in Numbers : AttemptStep(r, n)
           /\ \A q \in Runs \ {r} : attempt'[q] = attempt[q]
           /\ task'[w][r].token = task[w][r].token
           /\ Close(w, r) => task'[w][r].pc = "closing"
           /\ Goto(w, r, "report") => task'[w][r].pc = "report"
           /\ run[r].status \notin {"absent", "cancelled", "failed"}
<1> DEFINE t == task[w][r]
           n == t.number
<1>1. /\ TypeOK /\ RunInv(r) /\ TaskInv(w, r) /\ HistoryInv(r) /\ GrantInv(w, r)
      /\ run[r] \in RunRecord
  BY RowTypes DEF FullInv, IInv
<1>2. /\ Executing(w, r) /\ CanSettle(w, r) /\ UNCHANGED lease
      /\ t.pc \in {"settle", "failSettle"}
      /\ Goto(w, r, "report") \/ Close(w, r)
  BY DEF Settlement, SettleSuccess, SettlePlanning, SettleFailure, Executing
<1>3. LeaseValid(w, r) /\ run[r].rev = t.runRev
  BY <1>2 DEF CanSettle, Unchanged
<1>4. n \in Numbers /\ n = run[r].count /\ attempt[r][n] \in RunAttempt
  BY <1>1, <1>2, <1>3, ExecutingHasAttempt, RowTypes DEF FullInv, TaskInv
<1>5. PICK status \in {"succeeded", "failed"} : SettleAttempt(w, r, status)
  BY DEF Settlement, SettleSuccess, SettlePlanning, SettleFailure
<1> DEFINE a == [attempt[r][n] EXCEPT !.status = status, !.dispatch = "settled"]
<1>6. a \in RunAttempt /\ a.status = status /\ a.dispatch = "settled"
      /\ a.token = attempt[r][n].token
  BY <1>4 DEF RunAttempt, AttemptStatus, DispatchState
<1>7. /\ attempt'[r][n].status = a.status
      /\ attempt'[r][n].dispatch = a.dispatch
      /\ attempt'[r][n].token = a.token
      /\ \A m \in Numbers \ {n} : attempt'[r][m] = attempt[r][m]
      /\ \A q \in Runs \ {r} : attempt'[q] = attempt[q]
  BY <1>1, <1>4, <1>5, <1>6, ReplaceAttemptEffect DEF SettleAttempt
<1>8. attempt[r][n].status \notin {"none", "interrupted"}
  <2>1. ~(n > run[r].count)
    <3>1. n \in Nat
      BY <1>4, NumberTypes
    <3> QED
      BY <1>4, <3>1
  <2> QED
    BY <1>1, <1>2, <1>3, <1>4, <2>1 DEF HistoryInv, TaskInv
<1>9. \A m \in Numbers : AttemptStep(r, m)
  BY <1>6, <1>7, <1>8 DEF AttemptStep
<1>10. /\ OtherTasksKept(w, r)
       /\ t.token = task'[w][r].token
       /\ Close(w, r) => task'[w][r].pc = "closing"
       /\ Goto(w, r, "report") => task'[w][r].pc = "report"
  BY <1>1, <1>2, TaskMoveEffect DEF OtherTasksKept
<1>11. run[r].status \notin {"absent", "cancelled", "failed"}
  <2>1. run[r].count # 0
    BY <1>4, NumberTypes
  <2> QED
    BY <1>1, <1>2, <1>3, <2>1 DEF RunInv, TaskInv, GrantInv, NoRun
<1> QED
  BY <1>2, <1>3, <1>7, <1>9, <1>10, <1>11

(* What each settlement makes of the Run.  Only a failure may come after   *)
(* the Run has left QUEUED and RUNNING.                                    *)
LEMMA SettleEffects ==
    ASSUME FullInv, NEW w \in Workers, NEW r \in Runs, Settlement(w, r)
    PROVE  /\ Settles(w, r)
           /\ \/ /\ run[r].status \in {"queued", "running"}
                 /\ run'[r].status = "succeeded"
                 /\ task[w][r].pc = "settle" /\ task'[w][r].pc = "report"
                 /\ UNCHANGED plan /\ plan[r] # "pending"
              \/ /\ run[r].status \in {"queued", "running"}
                 /\ run'[r].status = "waiting" /\ run'[r].phase = "waiting_approval"
                 /\ task[w][r].pc = "settle" /\ task'[w][r].pc = "report"
                 /\ plan[r] = "none" /\ plan' = [plan EXCEPT ![r] = "pending"]
              \/ /\ run[r].status \in {"queued", "running", "succeeded", "waiting"}
                 /\ run'[r].status = "failed" /\ run'[r].phase = run[r].phase
                 /\ task'[w][r].pc = "closing"
                 /\ UNCHANGED plan
<1> DEFINE t == task[w][r]
<1>1. /\ TypeOK /\ RunInv(r) /\ TaskInv(w, r) /\ HistoryInv(r) /\ GrantInv(w, r)
      /\ run[r] \in RunRecord
  BY RowTypes DEF FullInv, IInv
<1>2. /\ Executing(w, r) /\ LeaseValid(w, r)
      /\ UNCHANGED lease
      /\ OtherTasksKept(w, r)
      /\ \A n \in Numbers : AttemptStep(r, n)
      /\ \A q \in Runs \ {r} : attempt'[q] = attempt[q]
      /\ task'[w][r].token = task[w][r].token
      /\ Close(w, r) => task'[w][r].pc = "closing"
      /\ Goto(w, r, "report") => task'[w][r].pc = "report"
      /\ run[r].status \notin {"absent", "cancelled", "failed"}
  BY SettlesItsAttempt
<1>3. run[r].status \in {"queued", "running", "succeeded", "waiting"}
  BY <1>1, <1>2 DEF RunRecord, RunStatus
<1>4. t.pc = "settle" =>
          /\ run[r].status \in {"queued", "running"}
          /\ run[r].phase = t.phase /\ t.phase # "waiting_approval"
  BY <1>1, <1>2, <1>3 DEF TaskInv, GrantInv
<1>5. CASE SettleSuccess(w, r)
  <2> DEFINE row == [run[r] EXCEPT !.status = "succeeded", !.phase = "completed"]
  <2>1. row \in RunRecord
    BY <1>1 DEF RunRecord, RunStatus, RunPhase
  <2>2. /\ run'[r].status = row.status /\ run'[r].count = row.count
        /\ \A q \in Runs \ {r} : run'[q] = run[q]
    BY <1>1, <1>5, <2>1, ReplaceRunEffect DEF SettleSuccess
  <2>3. row.status = "succeeded" /\ row.count = run[r].count
    BY <1>1 DEF RunRecord
  <2>4. t.pc = "settle" /\ Goto(w, r, "report") /\ UNCHANGED plan
    BY <1>5 DEF SettleSuccess
  <2>5. plan[r] # "pending"
    BY <1>1, <1>4, <2>4 DEF HistoryInv
  <2> QED
    BY <1>2, <1>4, <2>2, <2>3, <2>4, <2>5 DEF Settles, OthersKept
<1>6. CASE SettlePlanning(w, r)
  <2> DEFINE row == [run[r] EXCEPT !.status = "waiting", !.phase = "waiting_approval",
                                   !.required = TRUE]
  <2>1. row \in RunRecord
    BY <1>1 DEF RunRecord, RunStatus, RunPhase
  <2>2. /\ run'[r].status = row.status /\ run'[r].count = row.count
        /\ run'[r].phase = row.phase
        /\ \A q \in Runs \ {r} : run'[q] = run[q]
    BY <1>1, <1>6, <2>1, ReplaceRunEffect DEF SettlePlanning
  <2>3. row.status = "waiting" /\ row.count = run[r].count /\ row.phase = "waiting_approval"
    BY <1>1 DEF RunRecord
  <2>4. /\ t.pc = "settle" /\ t.phase = "planning" /\ Goto(w, r, "report")
        /\ plan' = [plan EXCEPT ![r] = "pending"]
    BY <1>6 DEF SettlePlanning
  <2>5. plan[r] = "none"
    BY <1>1, <1>4, <2>4 DEF RunInv
  <2>6. \A q \in Runs \ {r} : plan'[q] = plan[q]
    BY <1>1, <2>4 DEF TypeOK
  <2> QED
    BY <1>2, <1>4, <2>2, <2>3, <2>4, <2>5, <2>6 DEF Settles, OthersKept
<1>7. CASE SettleFailure(w, r)
  <2> DEFINE row == [run[r] EXCEPT !.status = "failed"]
  <2>1. row \in RunRecord
    BY <1>1 DEF RunRecord, RunStatus
  <2>2. /\ run'[r].status = row.status /\ run'[r].count = row.count
        /\ run'[r].phase = row.phase
        /\ \A q \in Runs \ {r} : run'[q] = run[q]
    BY <1>1, <1>7, <2>1, ReplaceRunEffect DEF SettleFailure
  <2>3. row.status = "failed" /\ row.count = run[r].count /\ row.phase = run[r].phase
    BY <1>1 DEF RunRecord
  <2>4. Close(w, r) /\ UNCHANGED plan
    BY <1>7 DEF SettleFailure
  <2> QED
    BY <1>2, <1>3, <2>2, <2>3, <2>4 DEF Settles, OthersKept
<1> QED
  BY <1>5, <1>6, <1>7 DEF Settlement

-----------------------------------------------------------------------------
(* The inductive invariant.                                                *)

(* A step that adds no Attempt keeps what is known of the Attempts.        *)
LEMMA HistoryStep ==
    ASSUME TypeOK, TypeOK', NEW r \in Runs, HistoryInv(r),
           \A n \in Numbers : AttemptStep(r, n),
           run'[r].count = run[r].count,
           lease'[r].token >= lease[r].token,
           plan'[r] = "pending" => run'[r].phase = "waiting_approval"
    PROVE  HistoryInv(r)'
<1>1. /\ lease[r].token \in Nat /\ lease'[r].token \in Nat
      /\ \A n \in Numbers : attempt[r][n].token \in Nat
  <2>1. lease'[r].token \in Nat
    BY DEF TypeOK
  <2> QED
    BY <2>1, FieldTypes
<1>2. ASSUME NEW n \in Numbers
      PROVE  /\ attempt'[r][n].token = attempt[r][n].token
             /\ attempt'[r][n].status = "none" <=> attempt[r][n].status = "none"
             /\ attempt'[r][n].status \in TerminalAttemptStatuses =>
                    attempt'[r][n].dispatch # "not_sent"
  BY <1>2 DEF AttemptStep, HistoryInv
<1>3. \A n \in Numbers : attempt'[r][n].token <= lease'[r].token
  BY <1>1, <1>2 DEF HistoryInv
<1> QED
  BY <1>2, <1>3 DEF HistoryInv

(* A step of somebody else keeps what the fence tells a task, unless it    *)
(* takes the lease away.                                                   *)
LEMMA GrantStep ==
    ASSUME TypeOK, TypeOK', NEW v \in Workers, NEW r \in Runs,
           GrantInv(v, r), TaskInv(v, r), task'[v][r] = task[v][r],
           OldAttempts(r), lease'[r].token >= lease[r].token,
           LeaseValid(v, r)' =>
               /\ LeaseValid(v, r)
               /\ run'[r].count = run[r].count
               /\ Executing(v, r) =>
                      run'[r].status \in {run[r].status, "queued", "running", "cancelled"}
    PROVE  GrantInv(v, r)'
<1> DEFINE t == task[v][r]
<1>1. /\ lease[r].token \in Nat /\ lease'[r].token \in Nat /\ t.token \in Nat
      /\ run[r].count \in NumberOrNone /\ run[r].count \in Nat
  <2>1. lease'[r].token \in Nat
    BY DEF TypeOK
  <2> QED
    BY <2>1, FieldTypes
<1>2. t.token <= lease'[r].token
  BY <1>1 DEF GrantInv
<1>3. ASSUME t.pc \in {"claimed", "begin"}, LeaseValid(v, r)',
             NEW n \in Numbers, n <= run'[r].count
      PROVE  attempt'[r][n].token < t.token
  <2>1. LeaseValid(v, r) /\ n <= run[r].count
    BY <1>3
  <2>2. attempt'[r][n].token = attempt[r][n].token
    BY <2>1 DEF OldAttempts, AttemptStep
  <2> QED
    BY <1>3, <2>1, <2>2 DEF GrantInv
<1>4. ASSUME t.pc \in {"dispatched", "accepted"}
      PROVE  attempt'[r][t.number].dispatch # "not_sent"
  <2>1. t.number \in 1..run[r].count
    BY <1>4 DEF TaskInv, Executing
  <2>2. t.number \in Numbers /\ t.number <= run[r].count
    <3>1. run[r].count <= MaxAttempts
      BY <1>1, NumberTypes DEF NumberOrNone
    <3> QED
      BY <1>1, <2>1, <3>1, NumberTypes DEF Numbers
  <2> QED
    BY <1>4, <2>2 DEF OldAttempts, AttemptStep, GrantInv
<1>5. ASSUME Executing(v, r), LeaseValid(v, r)'
      PROVE  /\ run'[r].status # "failed"
             /\ t.pc \in {"started", "dispatched", "accepted", "settle"} =>
                    run'[r].status \notin {"succeeded", "waiting"}
  BY <1>5 DEF GrantInv
<1> QED
  BY <1>2, <1>3, <1>4, <1>5 DEF GrantInv, Executing

(* Nothing that the invariant says of another Run has changed.             *)
LEMMA FullElsewhere ==
    ASSUME FullInv, IInv', NEW r \in Runs,
           OthersKept(r),
           \A q \in Runs \ {r} :
               /\ lease'[q] = lease[q]
               /\ \A v \in Workers : task'[v][q] = task[v][q],
           HistoryInv(r)',
           \A v \in Workers : GrantInv(v, r)'
    PROVE  FullInv'
<1>1. ASSUME NEW q \in Runs \ {r} PROVE HistoryInv(q)'
  <2>1. HistoryInv(q) /\ run'[q] = run[q] /\ attempt'[q] = attempt[q]
        /\ plan'[q] = plan[q] /\ lease'[q] = lease[q]
    BY DEF FullInv, OthersKept
  <2> QED
    BY <2>1 DEF HistoryInv
<1>2. ASSUME NEW q \in Runs \ {r}, NEW v \in Workers PROVE GrantInv(v, q)'
  <2>1. GrantInv(v, q) /\ run'[q] = run[q] /\ attempt'[q] = attempt[q]
        /\ lease'[q] = lease[q] /\ task'[v][q] = task[v][q]
    BY DEF FullInv, OthersKept
  <2> QED
    BY <2>1 DEF GrantInv, Executing, LeaseValid
<1> QED
  BY <1>1, <1>2 DEF FullInv

(* Requests and the reconciler: no lease and no task changes.              *)
LEMMA ClientFull ==
    ASSUME FullInv, NEW r \in Runs, Client(r) \/ InterruptExpired(r)
    PROVE  FullInv'
<1>1. IInv' /\ TypeOK' /\ TypeOK /\ HistoryInv(r)
  <2>1. IInv'
    BY ClientInv, LeaseInv DEF FullInv
  <2> QED
    BY <2>1 DEF FullInv, IInv
<1>2. /\ UNCHANGED <<lease, task>> /\ OthersKept(r)
      /\ \A n \in Numbers : AttemptStep(r, n)
      /\ run'[r].count = run[r].count
      /\ plan'[r] = "pending" => run'[r].phase = "waiting_approval"
      /\ \A v \in Workers : Executing(v, r) /\ LeaseValid(v, r) =>
             run'[r].status \in {run[r].status, "queued", "running", "cancelled"}
  <2>1. CASE Client(r)
    BY <1>1, <2>1, ClientEffect DEF ClientMove, HistoryInv
  <2>2. CASE InterruptExpired(r)
    BY <1>1, <2>2, InterruptEffect DEF HistoryInv
  <2> QED
    BY <2>1, <2>2
<1>3. lease'[r].token >= lease[r].token
  BY <1>1, <1>2 DEF TypeOK
<1>4. HistoryInv(r)'
  BY <1>1, <1>2, <1>3, HistoryStep
<1>5. ASSUME NEW v \in Workers PROVE GrantInv(v, r)'
  <2>1. GrantInv(v, r) /\ TaskInv(v, r) /\ task'[v][r] = task[v][r] /\ OldAttempts(r)
    BY <1>2 DEF FullInv, IInv, OldAttempts
  <2>2. LeaseValid(v, r)' => LeaseValid(v, r)
    BY <1>2 DEF LeaseValid
  <2> QED
    BY <1>1, <1>2, <1>3, <2>1, <2>2, GrantStep
<1> QED
  BY <1>1, <1>2, <1>4, <1>5, FullElsewhere

(* A step of the task of w for r, which may end the lease but grants none. *)
LEMMA TaskFull ==
    ASSUME FullInv, IInv', NEW w \in Workers, NEW r \in Runs,
           OthersKept(r), OtherTasksKept(w, r),
           \A q \in Runs \ {r} : lease'[q] = lease[q],
           lease'[r].token = lease[r].token, lease'[r].holder = lease[r].holder,
           lease'[r].live => lease[r].live,
           OldAttempts(r), HistoryInv(r)', GrantInv(w, r)',
           UNCHANGED run \/ LeaseValid(w, r)
    PROVE  FullInv'
<1>1. TypeOK /\ TypeOK'
  BY DEF FullInv, IInv
<1>2. lease'[r].token >= lease[r].token
  BY <1>1 DEF TypeOK
<1>3. ASSUME NEW v \in Workers \ {w} PROVE GrantInv(v, r)'
  <2>1. GrantInv(v, r) /\ TaskInv(v, r) /\ task'[v][r] = task[v][r]
    BY DEF FullInv, IInv, OtherTasksKept
  <2>2. LeaseValid(v, r)' => LeaseValid(v, r) /\ UNCHANGED run
    BY <2>1 DEF LeaseValid
  <2> QED
    BY <1>1, <1>2, <2>1, <2>2, GrantStep
<1>4. \A q \in Runs \ {r}, v \in Workers : task'[v][q] = task[v][q]
  BY DEF OtherTasksKept
<1> QED
  BY <1>3, <1>4, FullElsewhere

(* Grants, losses and lapses of leases.                                    *)
LEMMA LeaseFull ==
    ASSUME FullInv, NEW w, NEW r \in Runs,
           \/ w \in Workers /\ (Claim(w, r) \/ ClaimAndHandBack(w, r) \/ Crash(w))
           \/ LeaseMissed(r) \/ LeaseLapses(r)
    PROVE  FullInv'
<1>1. IInv' /\ TypeOK' /\ TypeOK
  <2>1. IInv'
    BY LeaseInv DEF FullInv
  <2> QED
    BY <2>1 DEF FullInv, IInv
<1>2. UNCHANGED <<run, attempt, plan>>
  BY DEF Claim, ClaimAndHandBack, Crash, LeaseMissed, LeaseLapses
<1>3. \A q \in Runs : OthersKept(q) /\ OldAttempts(q) /\ \A n \in Numbers : AttemptStep(q, n)
  BY <1>2 DEF OthersKept, OldAttempts, AttemptStep
<1>4. ASSUME NEW q \in Runs, lease'[q].token >= lease[q].token PROVE HistoryInv(q)'
  BY <1>1, <1>2, <1>3, <1>4, HistoryStep DEF FullInv, HistoryInv
<1>5. ASSUME NEW q \in Runs, NEW v \in Workers, task'[v][q] = task[v][q],
             lease'[q].token >= lease[q].token, LeaseValid(v, q)' => LeaseValid(v, q)
      PROVE  GrantInv(v, q)'
  BY <1>1, <1>2, <1>3, <1>5, GrantStep DEF FullInv, IInv
<1>6. CASE w \in Workers /\ Claim(w, r)
  <2> DEFINE t == [NoTask EXCEPT !.pc = "claimed", !.token = lease[r].token + 1]
  <2>1. task'[w][r] = t /\ OtherTasksKept(w, r)
    BY <1>1, <1>6, BecomeEffect DEF Claim, OtherTasksKept
  <2>2. t.pc = "claimed" /\ t.token = lease[r].token + 1
    BY DEF NoTask
  <2>3. /\ lease'[r].token = lease[r].token + 1 /\ lease'[r].holder = w
        /\ lease[r].token \in Nat
        /\ \A q \in Runs \ {r} : lease'[q] = lease[q]
    BY <1>1, <1>6 DEF Claim, TypeOK
  <2>4. GrantInv(w, r)'
    <3>1. ASSUME NEW n \in Numbers PROVE attempt'[r][n].token < t.token
      <4>1. attempt[r][n].token <= lease[r].token /\ attempt[r][n].token \in Nat
        BY <1>1, RowTypes DEF FullInv, HistoryInv, RunAttempt
      <4> QED
        BY <1>2, <2>2, <2>3, <4>1
    <3> HIDE DEF t
    <3> QED
      BY <2>1, <2>2, <2>3, <3>1 DEF GrantInv, Executing
  <2>5. ASSUME NEW v \in Workers \ {w} PROVE GrantInv(v, r)'
    BY <1>5, <2>1, <2>3 DEF OtherTasksKept, LeaseValid
  <2>6. HistoryInv(r)'
    BY <1>4, <2>3
  <2>7. \A q \in Runs \ {r}, v \in Workers : task'[v][q] = task[v][q]
    BY <2>1 DEF OtherTasksKept
  <2> QED
    BY <1>1, <1>3, <2>3, <2>4, <2>5, <2>6, <2>7, FullElsewhere
<1>7. CASE (w \in Workers /\ ClaimAndHandBack(w, r)) \/ LeaseMissed(r) \/ LeaseLapses(r)
  <2>1. /\ ~lease'[r].live /\ lease'[r].token >= lease[r].token
        /\ \A q \in Runs \ {r} : lease'[q] = lease[q]
        /\ UNCHANGED task
    <3>1. lease[r].token \in Nat
      BY <1>1, FieldTypes
    <3>2. CASE ClaimAndHandBack(w, r)
      BY <1>1, <3>1, <3>2 DEF ClaimAndHandBack, TypeOK
    <3>3. CASE LeaseMissed(r) \/ LeaseLapses(r)
      <4>1. lease' = [lease EXCEPT ![r].live = FALSE] /\ UNCHANGED task
        BY <3>3 DEF LeaseMissed, LeaseLapses
      <4>2. /\ ~lease'[r].live /\ lease'[r].token = lease[r].token
            /\ \A q \in Runs \ {r} : lease'[q] = lease[q]
        BY <1>1, <4>1 DEF TypeOK
      <4> QED
        BY <3>1, <4>1, <4>2
    <3> QED
      BY <1>7, <3>2, <3>3
  <2>2. HistoryInv(r)' /\ \A v \in Workers : GrantInv(v, r)'
    BY <1>4, <1>5, <2>1 DEF LeaseValid
  <2> QED
    BY <1>1, <1>3, <2>1, <2>2, FullElsewhere
<1>8. CASE w \in Workers /\ Crash(w)
  <2>1. /\ \A q \in Runs : task'[w][q] = NoTask
        /\ \A v \in Workers \ {w} : task'[v] = task[v]
        /\ UNCHANGED lease
        /\ \A q \in Runs : lease'[q].token >= lease[q].token /\ lease[q].token \in Nat
    BY <1>1, <1>8 DEF Crash, TypeOK
  <2>2. ASSUME NEW q \in Runs PROVE HistoryInv(q)'
    BY <1>4, <2>1
  <2>3. ASSUME NEW q \in Runs, NEW v \in Workers PROVE GrantInv(v, q)'
    <3>1. CASE v = w
      BY <2>1, <3>1 DEF GrantInv, Executing, NoTask
    <3>2. CASE v # w
      BY <1>5, <2>1, <3>2 DEF LeaseValid
    <3> QED
      BY <3>1, <3>2
  <2> QED
    BY <1>1, <2>2, <2>3 DEF FullInv
<1> QED
  BY <1>6, <1>7, <1>8

(* Everything a task does.                                                 *)
LEMMA ExecuteFull ==
    ASSUME FullInv, NEW w \in Workers, NEW r \in Runs,
           Execute(w, r) \/ TaskCancelled(w, r)
    PROVE  FullInv'
<1> DEFINE t == task[w][r]
<1>1. /\ IInv' /\ TypeOK' /\ TypeOK /\ HistoryInv(r) /\ GrantInv(w, r) /\ TaskInv(w, r)
      /\ RunInv(r)
  <2>1. IInv'
    BY ExecuteInv, LeaseInv DEF FullInv
  <2> QED
    BY <2>1 DEF FullInv, IInv
<1>t. /\ lease[r].token \in Nat /\ lease[r].token >= lease[r].token
      /\ t.token \in Nat /\ task'[w][r].token \in Nat
  BY <1>1 DEF TypeOK, Task
<1>2. CASE Moves(w, r)
  <2>1. /\ UNCHANGED <<run, plan, lease>>
        /\ \A n \in Numbers : AttemptStep(r, n)
        /\ \A q \in Runs \ {r} : attempt'[q] = attempt[q]
        /\ OtherTasksKept(w, r)
        /\ task'[w][r].token = t.token
        /\ MovesOn(w, r)
    BY <1>2, MoveEffect
  <2>2. OthersKept(r) /\ OldAttempts(r)
    BY <2>1 DEF OthersKept, OldAttempts
  <2>3. HistoryInv(r)'
    BY <1>1, <1>t, <2>1, HistoryStep DEF HistoryInv
  <2>4. \A n \in Numbers : n <= run[r].count => attempt'[r][n].token = attempt[r][n].token
    BY <2>1 DEF AttemptStep
  <2>5. GrantInv(w, r)'
    BY <1>1, <2>1, <2>4 DEF GrantInv, MovesOn, Executing, LeaseValid
  <2> QED
    BY <1>1, <2>1, <2>2, <2>3, <2>5, TaskFull
<1>3. CASE BeginAttempt(w, r)
  <2> DEFINE k == run[r].count + 1
  <2>1. /\ LeaseValid(w, r)
        /\ UNCHANGED <<lease, plan>>
        /\ OthersKept(r)
        /\ OtherTasksKept(w, r)
        /\ k \in Numbers
        /\ run[r].status = "queued" /\ run'[r].status = "running"
        /\ run'[r].count = k
        /\ run'[r].phase = run[r].phase
        /\ attempt'[r][k].status = "running"
        /\ attempt'[r][k].token = t.token
        /\ \A m \in Numbers \ {k} : attempt'[r][m] = attempt[r][m]
        /\ task'[w][r].pc = "started"
        /\ task'[w][r].token = t.token
    BY <1>3, BeginEffect
  <2>2. run[r].count \in Nat /\ k \in Nat /\ Numbers \subseteq Nat
    <3>1. run[r].count \in Nat
      BY <1>1, FieldTypes
    <3> QED
      BY <3>1, NumberTypes
  <2>3. OldAttempts(r)
    BY <2>1, <2>2 DEF OldAttempts, AttemptStep
  <2>4. t.token <= lease[r].token
        /\ \A n \in Numbers : n <= run[r].count => attempt[r][n].token < t.token
    BY <1>1, <1>3, <2>1 DEF GrantInv, BeginAttempt
  <2>5. HistoryInv(r)'
    <3> HIDE DEF k
    <3>1. /\ attempt'[r][k].status # "none"
          /\ attempt'[r][k].status \notin TerminalAttemptStatuses
      BY <2>1 DEF TerminalAttemptStatuses
    <3>2. ASSUME NEW n \in Numbers, n # k PROVE n > run[r].count <=> n > k
      <4>1. n \in Nat
        BY <2>2
      <4> QED
        BY <2>2, <3>2, <4>1 DEF k
    <3>3. \A n \in Numbers : n <= k <=> n = k \/ n <= run[r].count
      BY <2>2 DEF k
    <3>4. ~(k > k) /\ \A m \in Numbers : m < k => m # k /\ m <= run[r].count
      BY <2>2 DEF k
    <3>5. ~(k <= run[r].count)
      BY <2>2 DEF k
    <3>6. ASSUME NEW n \in Numbers
          PROVE  /\ attempt'[r][n].status = "none" <=> n > k
                 /\ attempt'[r][n].status \in TerminalAttemptStatuses =>
                        attempt'[r][n].dispatch # "not_sent"
                 /\ attempt'[r][n].token <= lease[r].token
      BY <1>1, <2>1, <2>4, <3>1, <3>2, <3>4, <3>6 DEF HistoryInv
    <3>7. ASSUME NEW n \in Numbers, NEW m \in Numbers, m < n, n <= k
          PROVE  attempt'[r][m].token < attempt'[r][n].token
      <4>1. CASE n = k
        BY <2>1, <2>4, <3>4, <3>7, <4>1
      <4>2. CASE n # k
        <5>1. n <= run[r].count
          BY <3>3, <3>7, <4>2
        <5>2. m <= run[r].count
          BY <2>2, <3>7, <5>1
        <5>3. m # k
          BY <3>5, <5>2
        <5> QED
          BY <1>1, <2>1, <3>7, <4>2, <5>1, <5>3 DEF HistoryInv
      <4> QED
        BY <4>1, <4>2
    <3>8. plan'[r] = "pending" => run'[r].phase = "waiting_approval"
      BY <1>1, <2>1 DEF HistoryInv
    <3> QED
      BY <2>1, <3>6, <3>7, <3>8 DEF HistoryInv
  <2>6. GrantInv(w, r)'
    BY <2>1, <2>4 DEF GrantInv, Executing
  <2> HIDE DEF k
  <2> QED
    BY <1>1, <2>1, <2>3, <2>5, <2>6, TaskFull
<1>4. CASE Settlement(w, r)
  <2>1. Settles(w, r)
    BY <1>4, SettleEffects
  <2>2. /\ plan'[r] = "pending" => run'[r].phase = "waiting_approval"
        /\ \/ task'[w][r].pc = "closing"
           \/ task'[w][r].pc = "report" /\ run'[r].status # "failed"
    BY <1>1, <1>4, SettleEffects DEF HistoryInv
  <2>3. HistoryInv(r)'
    BY <1>1, <1>t, <2>1, <2>2, HistoryStep DEF Settles
  <2>4. GrantInv(w, r)'
    BY <1>1, <2>1, <2>2 DEF GrantInv, Executing, Settles
  <2>5. OldAttempts(r)
    BY <2>1 DEF Settles, OldAttempts
  <2> QED
    BY <1>1, <2>1, <2>3, <2>4, <2>5, TaskFull DEF Settles
<1>5. CASE Release(w, r)
  <2>1. task'[w][r] = NoTask /\ OtherTasksKept(w, r) /\ UNCHANGED <<run, attempt, plan>>
    BY <1>1, <1>5, BecomeEffect DEF Release, OtherTasksKept
  <2>2. /\ \A q \in Runs \ {r} : lease'[q] = lease[q]
        /\ lease'[r].token = lease[r].token /\ lease'[r].holder = lease[r].holder
        /\ lease'[r].live => lease[r].live
    BY <1>1, <1>5 DEF Release, TypeOK
  <2>3. OthersKept(r) /\ OldAttempts(r)
    BY <2>1 DEF OthersKept, OldAttempts, AttemptStep
  <2>4. HistoryInv(r)'
    BY <1>1, <2>1, <2>2 DEF HistoryInv
  <2>5. GrantInv(w, r)'
    BY <1>t, <2>1, <2>2 DEF GrantInv, Executing, NoTask
  <2> QED
    BY <1>1, <2>1, <2>2, <2>3, <2>4, <2>5, TaskFull
<1> QED
  BY <1>2, <1>3, <1>4, <1>5 DEF Execute, Moves, Settlement

(* FullInv holds at the start and no step breaks it.                       *)
LEMMA InitFull == Init => FullInv
<1> SUFFICES ASSUME Init PROVE FullInv
  OBVIOUS
<1>1. ASSUME NEW r \in Runs PROVE HistoryInv(r)
  BY ConstantsAssumption, NumberTypes
  DEF Init, HistoryInv, NoRun, NoAttempt, TerminalAttemptStatuses, AttemptStatus
<1>2. ASSUME NEW w \in Workers, NEW r \in Runs PROVE GrantInv(w, r)
  BY DEF Init, GrantInv, NoTask, Executing
<1> QED
  BY <1>1, <1>2, InitInv DEF FullInv

(* Whatever anybody does keeps it.                                         *)
LEMMA NextFull == FullInv /\ [Next]_vars => FullInv'
<1> SUFFICES ASSUME FullInv, [Next]_vars PROVE FullInv'
  OBVIOUS
<1>1. CASE Next
  <2>1. ASSUME NEW r \in Runs,
               Client(r) \/ LeaseMissed(r) \/ LeaseLapses(r) \/ InterruptExpired(r)
        PROVE  FullInv'
    BY <2>1, ClientFull, LeaseFull
  <2>2. ASSUME NEW w \in Workers, Crash(w) PROVE FullInv'
    <3>1. PICK r \in Runs : task[w][r].pc # "idle"
      BY <2>2 DEF Crash
    <3> QED
      BY <2>2, LeaseFull
  <2>3. ASSUME NEW w \in Workers, NEW r \in Runs,
               \/ Claim(w, r) \/ ClaimAndHandBack(w, r)
               \/ Execute(w, r) \/ TaskCancelled(w, r)
        PROVE  FullInv'
    BY <2>3, LeaseFull, ExecuteFull
  <2> QED
    BY <1>1, <2>1, <2>2, <2>3 DEF Next
<1>2. CASE UNCHANGED vars
  <2>1. IInv'
    BY <1>2, NextInv DEF FullInv
  <2> QED
    BY <1>2, <2>1 DEF FullInv, HistoryInv, GrantInv, Executing, LeaseValid, vars
<1> QED
  BY <1>1, <1>2

(* The invariant of the refinement holds in every deployment.              *)
THEOREM FullInvariant == Spec => []FullInv
<1>1. FullInv /\ [Next]_vars => FullInv'
  BY NextFull
<1> QED
  BY InitFull, <1>1, PTL DEF Spec

(* One lease grant executes one Attempt: fencing tokens of claim_work grow *)
(* and begin_attempt adds an Attempt only under the newest one.            *)
THEOREM OneGrantOneAttempt == Spec => []OneAttemptPerGrant
<1>1. ASSUME FullInv, NEW r \in Runs, NEW n \in 1..run[r].count
      PROVE  /\ attempt[r][n].token <= lease[r].token
             /\ \A m \in 1..(n - 1) : attempt[r][m].token < attempt[r][n].token
  <2>1. run[r].count \in NumberOrNone /\ HistoryInv(r)
    <3>1. run[r] \in RunRecord
      BY <1>1, RowTypes DEF FullInv, IInv
    <3> QED
      BY <1>1, <3>1 DEF FullInv, RunRecord
  <2>2. n \in Numbers /\ n <= run[r].count
        /\ \A m \in 1..(n - 1) : m \in Numbers /\ m < n
    BY <2>1, NumberTypes DEF Numbers, NumberOrNone
  <2> QED
    BY <2>1, <2>2 DEF HistoryInv
<1>2. FullInv => OneAttemptPerGrant
  BY <1>1 DEF OneAttemptPerGrant
<1> QED
  BY FullInvariant, <1>2, PTL

(* The dispatch state says NOT_SENT only of Attempts whose prompt never    *)
(* left: DISPATCHING is stored before runtime.run is called, and a         *)
(* settlement by somebody else leaves no such state either.                *)
THEOREM BoundaryOnRecord == Spec => []NotSentMeansNoPrompt
<1>1. FullInv => NotSentMeansNoPrompt
  BY DEF FullInv, GrantInv, NotSentMeansNoPrompt
<1> QED
  BY FullInvariant, <1>1, PTL

-----------------------------------------------------------------------------
(* What the reconciler settled is settled.                                 *)

(* Steps touch an existing Attempt in the way of AttemptStep only.         *)
LEMMA AttemptsKept ==
    ASSUME FullInv, Next, NEW r \in Runs, NEW n \in Numbers,
           attempt[r][n].status # "none"
    PROVE  AttemptStep(r, n)
<1>1. ASSUME NEW q \in Runs, Client(q) \/ InterruptExpired(q) PROVE AttemptStep(r, n)
  BY <1>1, ClientEffect, InterruptEffect DEF OthersKept, AttemptStep
<1>2. ASSUME NEW w \in Workers, NEW q \in Runs,
             Claim(w, q) \/ ClaimAndHandBack(w, q) \/ Release(w, q)
      PROVE  AttemptStep(r, n)
  BY <1>2 DEF AttemptStep, Claim, ClaimAndHandBack, Release
<1>3. ASSUME NEW w \in Workers, NEW q \in Runs, Moves(w, q) \/ Settlement(w, q)
      PROVE  AttemptStep(r, n)
  BY <1>3, MoveEffect, SettleEffects DEF Settles, OthersKept, AttemptStep
<1>4. ASSUME NEW w \in Workers, NEW q \in Runs, BeginAttempt(w, q) PROVE AttemptStep(r, n)
  <2>1. CASE q # r
    BY <1>4, <2>1, BeginEffect DEF OthersKept, AttemptStep
  <2>2. CASE q = r
    <3>1. n # run[r].count + 1
      <4>1. ~(n > run[r].count)
        BY DEF FullInv, HistoryInv
      <4>2. run[r].count \in Nat
        BY FieldTypes DEF FullInv, IInv
      <4> QED
        BY <4>1, <4>2
    <3> QED
      BY <1>4, <2>2, <3>1, BeginEffect DEF AttemptStep
  <2> QED
    BY <2>1, <2>2
<1>5. ASSUME NEW q \in Runs, LeaseMissed(q) \/ LeaseLapses(q) PROVE AttemptStep(r, n)
  BY <1>5 DEF AttemptStep, LeaseMissed, LeaseLapses
<1>6. ASSUME NEW w \in Workers, Crash(w) PROVE AttemptStep(r, n)
  BY <1>6 DEF AttemptStep, Crash
<1> QED
  BY <1>1, <1>2, <1>3, <1>4, <1>5, <1>6 DEF Next, Execute, Moves, Settlement

(* interrupt_expired_attempts has the last word on an Attempt: the Worker  *)
(* that was declared dead cannot overwrite the row when it comes back.     *)
THEOREM InterruptedStays == Spec => InterruptedIsFinal
<1>1. FullInv /\ [Next]_vars =>
        [\A r \in Runs : \A n \in Numbers :
            attempt[r][n].status = "interrupted" => UNCHANGED attempt[r][n]]_vars
  BY AttemptsKept DEF AttemptStep
<1> QED
  BY FullInvariant, <1>1, PTL DEF Spec, InterruptedIsFinal

-----------------------------------------------------------------------------
(* The refinement.                                                         *)

(* The contract's variables, as Contract maps them.                        *)
State == [r \in Runs |-> run[r].status]
Reporting == [r \in Runs |-> \E w \in Workers : CanReport(w, r)]

Reports(r) == \E w \in Workers : CanReport(w, r)

(* A step that changes what can be reported for one Run.                   *)
LEMMA ReportingStep ==
    ASSUME NEW r \in Runs, NEW b \in BOOLEAN,
           \A q \in Runs \ {r} : Reports(q)' <=> Reports(q),
           Reports(r)' <=> b
    PROVE  Reporting' = [Reporting EXCEPT ![r] = b]
<1>1. ASSUME NEW q \in Runs PROVE Reporting'[q] = [Reporting EXCEPT ![r] = b][q]
  <2>1. CASE q = r
    BY <2>1 DEF Reporting, Reports
  <2>2. CASE q # r
    BY <2>2 DEF Reporting, Reports
  <2> QED
    BY <2>1, <2>2
<1> DEFINE f == Reporting'
           g == [Reporting EXCEPT ![r] = b]
<1>2. f = [q \in Runs |-> f[q]] /\ g = [q \in Runs |-> g[q]]
  BY DEF Reporting
<1>3. \A q \in Runs : f[q] = g[q]
  BY <1>1
<1> HIDE DEF f, g
<1>4. f = g
  BY <1>2, <1>3
<1> QED
  BY <1>4 DEF f, g

(* A step that changes nothing of the kind.                                *)
LEMMA ReportingSame ==
    ASSUME \A q \in Runs : Reports(q)' <=> Reports(q)
    PROVE  Reporting' = Reporting
<1>1. ASSUME NEW q \in Runs PROVE Reporting'[q] = Reporting[q]
  BY DEF Reporting, Reports
<1> DEFINE f == Reporting'
           g == Reporting
<1>2. f = [q \in Runs |-> f[q]] /\ g = [q \in Runs |-> g[q]]
  BY DEF Reporting
<1>3. \A q \in Runs : f[q] = g[q]
  BY <1>1
<1> HIDE DEF f, g
<1>4. f = g
  BY <1>2, <1>3
<1> QED
  BY <1>4 DEF f, g

(* A step that writes one Run.                                             *)
LEMMA StateStep ==
    ASSUME NEW r \in Runs, NEW s, run'[r].status = s,
           \A q \in Runs \ {r} : run'[q] = run[q]
    PROVE  State' = [State EXCEPT ![r] = s]
BY DEF State

(* A step that writes one Plan, or none.                                   *)
LEMMA PlanStep ==
    ASSUME TypeOK, TypeOK', NEW r \in Runs, OthersKept(r)
    PROVE  /\ plan' = [plan EXCEPT ![r] = plan'[r]]
           /\ plan'[r] = plan[r] => plan' = plan
BY DEF TypeOK, OthersKept

(* Requests: no execution comes or goes.                                   *)
LEMMA MapClient ==
    ASSUME FullInv, TypeOK', NEW r \in Runs, Client(r)
    PROVE  Contract!Next
<1>1. TypeOK /\ OthersKept(r) /\ \A q \in Runs : Reports(q)' <=> Reports(q)
  BY ClientEffect DEF FullInv, IInv, Reports, CanReport, LeaseValid
<1>2. Reporting' = Reporting
  BY <1>1, ReportingSame
<1>3. /\ plan' = [plan EXCEPT ![r] = plan'[r]]
      /\ plan'[r] = plan[r] => plan' = plan
      /\ State' = [State EXCEPT ![r] = run'[r].status]
      /\ State[r] = run[r].status
  BY <1>1, PlanStep, StateStep DEF OthersKept, State
<1>4. CASE ClientMove(r, {"absent"}, "queued", plan[r])
  <2>1. Contract!Submit(r)
    BY <1>2, <1>3, <1>4 DEF ClientMove, Contract!Submit, State, Reporting
  <2> QED
    BY <2>1 DEF Contract!Next
<1>5. CASE ClientMove(r, {"queued", "running"}, "cancelled", plan[r])
  <2>1. Contract!Cancel(r)
    BY <1>2, <1>3, <1>5 DEF ClientMove, Contract!Cancel, State, Reporting
  <2> QED
    BY <2>1 DEF Contract!Next
<1>6. CASE ClientMove(r, {"failed", "cancelled"}, "queued", plan[r])
           /\ plan[r] \in {"none", "approved"}
  <2>1. Contract!Retry(r)
    BY <1>2, <1>3, <1>6 DEF ClientMove, Contract!Retry, State, Reporting
  <2> QED
    BY <2>1 DEF Contract!Next
<1>7. CASE ClientMove(r, {"waiting"}, "queued", "approved") /\ plan[r] = "pending"
  <2>1. Contract!Decide(r, "approved", "queued")
    BY <1>2, <1>3, <1>7 DEF ClientMove, Contract!Decide, State, Reporting
  <2> QED
    BY <2>1 DEF Contract!Next
<1>8. CASE ClientMove(r, {"waiting"}, "cancelled", "rejected") /\ plan[r] = "pending"
  <2>1. Contract!Decide(r, "rejected", "cancelled")
    BY <1>2, <1>3, <1>8 DEF ClientMove, Contract!Decide, State, Reporting
  <2> QED
    BY <2>1 DEF Contract!Next
<1> QED
  BY <1>4, <1>5, <1>6, <1>7, <1>8, ClientEffect

(* The reconciler.                                                         *)
LEMMA MapInterrupt ==
    ASSUME FullInv, TypeOK', NEW r \in Runs, InterruptExpired(r)
    PROVE  Contract!Next
<1>1. TypeOK /\ OthersKept(r) /\ \A q \in Runs : Reports(q)' <=> Reports(q)
  BY InterruptEffect DEF FullInv, IInv, Reports, CanReport, LeaseValid
<1>2. Reporting' = Reporting
  BY <1>1, ReportingSame
<1>3. ~Reporting[r]
  BY InterruptEffect DEF Reporting, CanReport, Executing
<1>4. /\ run[r].status = "running" /\ plan' = plan
      /\ State' = [State EXCEPT ![r] = "failed"]
  BY <1>1, InterruptEffect, StateStep DEF OthersKept
<1>5. Contract!Interrupt(r)
  BY <1>2, <1>3, <1>4 DEF Contract!Interrupt, State, Reporting
<1> QED
  BY <1>5 DEF Contract!Next

(* A step that changes no Run and no Plan, and ends one execution at most. *)
LEMMA MapVanish ==
    ASSUME UNCHANGED <<run, plan>>, NEW r \in Runs,
           \A q \in Runs \ {r} : Reports(q)' <=> Reports(q),
           Reports(r)' => Reports(r)
    PROVE  [Contract!Next]_(Contract!vars)
<1>1. State' = State
  BY DEF State
<1>2. CASE Reports(r)' <=> Reports(r)
  <2>1. Reporting' = Reporting
    BY <1>2, ReportingSame
  <2> QED
    BY <1>1, <2>1 DEF Contract!vars, State, Reporting
<1>3. CASE Reports(r) /\ ~Reports(r)'
  <2>1. Reporting' = [Reporting EXCEPT ![r] = FALSE] /\ Reporting[r]
    BY <1>3, ReportingStep DEF Reporting, Reports
  <2>2. Contract!Vanish(r)
    BY <1>1, <2>1 DEF Contract!Vanish, State, Reporting
  <2> QED
    BY <2>2 DEF Contract!Next
<1> QED
  BY <1>2, <1>3

(* Leases: a grant goes to a Run without execution, a loss ends one.       *)
LEMMA MapLease ==
    ASSUME FullInv, NEW w \in Workers, NEW r \in Runs,
           \/ Claim(w, r) \/ ClaimAndHandBack(w, r) \/ LeaseMissed(r) \/ LeaseLapses(r)
    PROVE  [Contract!Next]_(Contract!vars)
<1>1. TypeOK /\ UNCHANGED <<run, plan>>
  BY DEF FullInv, IInv, Claim, ClaimAndHandBack, LeaseMissed, LeaseLapses
<1>2. CASE Claim(w, r)
  <2>1. /\ task'[w][r] = [NoTask EXCEPT !.pc = "claimed", !.token = lease[r].token + 1]
        /\ \A v \in Workers, q \in Runs : v # w \/ q # r => task'[v][q] = task[v][q]
    BY <1>1, <1>2, BecomeEffect DEF Claim
  <2>2. lease'[r].holder = w /\ \A q \in Runs \ {r} : lease'[q] = lease[q]
    BY <1>1, <1>2 DEF Claim, TypeOK
  <2>3. ~Reports(r)'
    BY <2>1, <2>2 DEF Reports, CanReport, LeaseValid, NoTask
  <2>4. \A q \in Runs \ {r} : Reports(q)' <=> Reports(q)
    BY <2>1, <2>2 DEF Reports, CanReport, LeaseValid
  <2> QED
    BY <1>1, <2>3, <2>4, MapVanish
<1>3. CASE ClaimAndHandBack(w, r) \/ LeaseMissed(r) \/ LeaseLapses(r)
  <2>1. /\ ~lease'[r].live /\ UNCHANGED task
        /\ \A q \in Runs \ {r} : lease'[q] = lease[q]
    BY <1>1, <1>3 DEF ClaimAndHandBack, LeaseMissed, LeaseLapses, TypeOK
  <2>2. ~Reports(r)' /\ \A q \in Runs \ {r} : Reports(q)' <=> Reports(q)
    BY <2>1 DEF Reports, CanReport, LeaseValid
  <2> QED
    BY <1>1, <2>2, MapVanish
<1> QED
  BY <1>2, <1>3

(* A Worker dies with all its executions.                                  *)
LEMMA MapCrash ==
    ASSUME FullInv, NEW w \in Workers, Crash(w)
    PROVE  Contract!Next
<1> DEFINE S == {q \in Runs : CanReport(w, q)}
<1>1. /\ \A q \in Runs : task'[w][q] = NoTask
      /\ \A v \in Workers \ {w} : task'[v] = task[v]
      /\ UNCHANGED <<run, plan, lease>>
  BY DEF FullInv, IInv, TypeOK, Crash
<1>2. ASSUME NEW q \in Runs PROVE Reports(q)' <=> Reports(q) /\ q \notin S
  <2>1. ~CanReport(w, q)'
    BY <1>1 DEF CanReport, NoTask
  <2>2. \A v \in Workers \ {w} : CanReport(v, q)' <=> CanReport(v, q)
    BY <1>1 DEF CanReport, LeaseValid
  <2>3. CanReport(w, q) => \A v \in Workers \ {w} : ~CanReport(v, q)
    BY DEF CanReport, LeaseValid
  <2> QED
    BY <2>1, <2>2, <2>3 DEF Reports
<1>3. \A q \in S : Reporting[q]
  BY DEF Reporting
<1>4. Reporting' = [q \in Runs |-> IF q \in S THEN FALSE ELSE Reporting[q]]
  BY <1>2 DEF Reporting, Reports
<1>5. State' = State
  BY <1>1 DEF State
<1> HIDE DEF S
<1>6. Contract!VanishAll(S)
  BY <1>1, <1>3, <1>4, <1>5 DEF Contract!VanishAll, State, Reporting
<1>7. S \in SUBSET Runs
  BY DEF S
<1> QED
  BY <1>6, <1>7 DEF Contract!Next

(* Tasks.                                                                  *)
LEMMA MapExecute ==
    ASSUME FullInv, TypeOK', NEW w \in Workers, NEW r \in Runs,
           Execute(w, r) \/ TaskCancelled(w, r)
    PROVE  [Contract!Next]_(Contract!vars)
<1>1. TypeOK
  BY DEF FullInv, IInv
<1>2. ASSUME OtherTasksKept(w, r), \A q \in Runs \ {r} : lease'[q] = lease[q]
      PROVE  \A q \in Runs \ {r} : Reports(q)' <=> Reports(q)
  BY <1>2 DEF OtherTasksKept, Reports, CanReport, LeaseValid
<1>3. ASSUME LeaseValid(w, r) PROVE \A v \in Workers \ {w} : ~CanReport(v, r)
  BY <1>3 DEF LeaseValid, CanReport
<1>4. CASE Moves(w, r)
  <2>1. /\ UNCHANGED <<run, plan, lease>>
        /\ OtherTasksKept(w, r)
        /\ task'[w][r].token = task[w][r].token
        /\ MovesOn(w, r)
    BY <1>4, MoveEffect
  <2>2. CanReport(w, r)' => CanReport(w, r)
    BY <2>1 DEF MovesOn, CanReport, Executing, LeaseValid
  <2>3. \A v \in Workers \ {w} : CanReport(v, r)' <=> CanReport(v, r)
    BY <2>1 DEF OtherTasksKept, CanReport, LeaseValid
  <2>4. Reports(r)' => Reports(r)
    BY <2>2, <2>3 DEF Reports
  <2> QED
    BY <1>2, <2>1, <2>4, MapVanish
<1>5. CASE Release(w, r)
  <2>1. task'[w][r] = NoTask /\ OtherTasksKept(w, r) /\ UNCHANGED <<run, plan>>
    BY <1>1, <1>5, BecomeEffect DEF Release, OtherTasksKept
  <2>2. /\ \A q \in Runs \ {r} : lease'[q] = lease[q]
        /\ lease'[r].token = lease[r].token /\ lease'[r].holder = lease[r].holder
        /\ lease'[r].live => lease[r].live
    BY <1>1, <1>5 DEF Release, TypeOK
  <2>3. Reports(r)' => Reports(r)
    BY <2>1, <2>2 DEF OtherTasksKept, Reports, CanReport, LeaseValid, NoTask
  <2> QED
    BY <1>2, <2>1, <2>2, <2>3, MapVanish
<1>6. CASE BeginAttempt(w, r)
  <2>1. /\ LeaseValid(w, r)
        /\ UNCHANGED <<lease, plan>>
        /\ OthersKept(r)
        /\ OtherTasksKept(w, r)
        /\ run[r].status = "queued" /\ run'[r].status = "running"
        /\ task'[w][r].pc = "started"
        /\ task'[w][r].token = task[w][r].token
    BY <1>6, BeginEffect
  <2>2. ~Reports(r) /\ Reports(r)'
    <3>1. task[w][r].pc = "begin"
      BY <1>6 DEF BeginAttempt
    <3>2. ~CanReport(w, r) /\ CanReport(w, r)'
      BY <2>1, <3>1 DEF CanReport, LeaseValid
    <3> QED
      BY <1>3, <2>1, <3>2 DEF Reports
  <2>3. Reporting' = [Reporting EXCEPT ![r] = TRUE] /\ ~Reporting[r]
    BY <1>2, <2>1, <2>2, ReportingStep DEF Reporting, Reports
  <2>4. State' = [State EXCEPT ![r] = "running"] /\ State[r] = "queued"
    BY <2>1, StateStep DEF OthersKept, State
  <2>5. Contract!Start(r)
    BY <2>1, <2>3, <2>4 DEF Contract!Start, State, Reporting
  <2> QED
    BY <2>5 DEF Contract!Next
<1>7. CASE Settlement(w, r)
  <2>1. Settles(w, r)
    BY <1>7, SettleEffects
  <2>2. /\ \A q \in Runs \ {r} : Reports(q)' <=> Reports(q)
        /\ Reports(r)
        /\ task'[w][r].pc = "report" => Reports(r)'
        /\ task'[w][r].pc = "closing" => ~Reports(r)'
    <3>1. CanReport(w, r) /\ \A v \in Workers \ {w} : ~CanReport(v, r)
      BY <1>3, <2>1 DEF Settles, CanReport, Executing
    <3>2. \A v \in Workers \ {w} : CanReport(v, r)' <=> CanReport(v, r)
      BY <2>1 DEF Settles, OtherTasksKept, CanReport, LeaseValid
    <3>3. /\ task'[w][r].pc = "report" => CanReport(w, r)'
          /\ task'[w][r].pc = "closing" => ~CanReport(w, r)'
      BY <2>1 DEF Settles, CanReport, LeaseValid
    <3> QED
      BY <1>2, <2>1, <3>1, <3>2, <3>3 DEF Reports, Settles
  <2>3. /\ Reporting[r]
        /\ task'[w][r].pc = "report" => Reporting' = Reporting
        /\ task'[w][r].pc = "closing" => Reporting' = [Reporting EXCEPT ![r] = FALSE]
    <3>1. Reporting[r]
      BY <2>2 DEF Reporting, Reports
    <3>2. ASSUME task'[w][r].pc = "report" PROVE Reporting' = Reporting
      BY <2>2, <3>2, ReportingSame
    <3>3. ASSUME task'[w][r].pc = "closing" PROVE Reporting' = [Reporting EXCEPT ![r] = FALSE]
      BY <2>2, <3>3, ReportingStep
    <3> QED
      BY <3>1, <3>2, <3>3
  <2>4. State' = [State EXCEPT ![r] = run'[r].status] /\ State[r] = run[r].status
    BY <2>1, StateStep DEF Settles, OthersKept, State
  <2>5. Contract!Complete(r) \/ Contract!Suspend(r) \/ Contract!Fail(r)
    <3>1. CASE run'[r].status = "succeeded"
      <4>1. /\ run[r].status \in {"queued", "running"}
            /\ task'[w][r].pc = "report" /\ plan' = plan
        BY <1>7, <3>1, SettleEffects
      <4> QED
        BY <2>3, <2>4, <3>1, <4>1 DEF Contract!Complete, Contract!Reported, State, Reporting
    <3>2. CASE run'[r].status = "waiting"
      <4>1. /\ run[r].status \in {"queued", "running"}
            /\ task'[w][r].pc = "report"
            /\ plan[r] = "none" /\ plan' = [plan EXCEPT ![r] = "pending"]
        BY <1>7, <3>2, SettleEffects
      <4> QED
        BY <2>3, <2>4, <3>2, <4>1 DEF Contract!Suspend, Contract!Reported, State, Reporting
    <3>3. CASE run'[r].status = "failed"
      <4>1. /\ run[r].status \in {"queued", "running", "succeeded", "waiting"}
            /\ task'[w][r].pc = "closing" /\ plan' = plan
        BY <1>7, <3>3, SettleEffects
      <4> QED
        BY <2>3, <2>4, <3>3, <4>1 DEF Contract!Fail, State, Reporting
    <3> QED
      BY <1>7, <3>1, <3>2, <3>3, SettleEffects
  <2> QED
    BY <2>5 DEF Contract!Next
<1> QED
  BY <1>4, <1>5, <1>6, <1>7 DEF Execute, Moves, Settlement

(* API, Workers and reconciler together keep the contract of a Run: every  *)
(* transaction of PostgresControlStore is a step of RunContract or changes *)
(* nothing a caller sees, whatever crashes, stalls and retries intervene.  *)
THEOREM Refinement == Spec => ImplementsContract
<1>1. Init => Contract!Init
  BY ConstantsAssumption DEF Init, Contract!Init, NoRun, CanReport, NoTask, LeaseValid
<1>2. ASSUME FullInv, FullInv', [Next]_vars PROVE [Contract!Next]_(Contract!vars)
  <2>1. TypeOK'
    BY <1>2 DEF FullInv, IInv
  <2>2. ASSUME NEW r \in Runs, Client(r) \/ InterruptExpired(r) PROVE Contract!Next
    BY <1>2, <2>1, <2>2, MapClient, MapInterrupt
  <2>3. ASSUME NEW w \in Workers, Crash(w) PROVE Contract!Next
    BY <1>2, <2>3, MapCrash
  <2>4. ASSUME NEW w \in Workers, NEW r \in Runs,
               \/ Claim(w, r) \/ ClaimAndHandBack(w, r)
               \/ Execute(w, r) \/ TaskCancelled(w, r)
        PROVE  [Contract!Next]_(Contract!vars)
    BY <1>2, <2>1, <2>4, MapLease, MapExecute
  <2>5. ASSUME NEW r \in Runs, LeaseMissed(r) \/ LeaseLapses(r)
        PROVE  [Contract!Next]_(Contract!vars)
    <3>1. CASE \E w \in Workers : TRUE
      BY <1>2, <2>5, <3>1, MapLease
    <3>2. CASE ~ \E w \in Workers : TRUE
      <4>1. UNCHANGED <<run, plan>> /\ \A q \in Runs : ~Reports(q) /\ ~Reports(q)'
        BY <2>5, <3>2 DEF LeaseMissed, LeaseLapses, Reports
      <4> QED
        BY <4>1, MapVanish
    <3> QED
      BY <3>1, <3>2
  <2>6. CASE UNCHANGED vars
    BY <2>6 DEF vars, Contract!vars, CanReport, LeaseValid
  <2> QED
    BY <1>2, <2>2, <2>3, <2>4, <2>5, <2>6 DEF Next
<1> QED
  BY <1>1, <1>2, FullInvariant, PTL DEF Spec, Contract!Spec, ImplementsContract

=============================================================================
