-------------------------- MODULE ConversationRunsProofs -------------------------
(***************************************************************************)
(* The safety properties of ConversationRuns, and its refinement of        *)
(* TurnQueue, for any number of Workers, Runs, questions and disturbances. *)
(*                                                                         *)
(* What carries them.  A Run's row, its Attempts and its questions have    *)
(* one of a few shapes (RunInv).  A task knows about its Run what nobody   *)
(* else may change (TaskInv): that the newest Attempt is the one it began, *)
(* and, while its lease is valid, that the reconciler has not ended it or, *)
(* before begin_attempt, that no other Turn has begun.                     *)
(***************************************************************************)
EXTENDS ConversationRuns, FiniteSetTheorems, WellFoundedInduction, TLAPS

(* The rows of one Run.  Every Attempt but the newest has asked and was    *)
(* answered; the newest one goes with the Run's status.  A Run that its    *)
(* Turn settled without looking keeps its question, or its answer.         *)
RunInv(s) ==
    LET r == run[s]  k == run[s].count IN
    /\ \A n \in Numbers :
          /\ n > k <=> attempt[s][n].status = "none"
          /\ n > k => action[s][n] = "none"
          /\ n < k => attempt[s][n].status = "waiting" /\ action[s][n] = "consumed"
    /\ r.status = "absent" => r = NoRun
    /\ r.status = "queued" =>
          /\ r.active = 0 /\ r.required = k
          /\ k > 0 => attempt[s][k].status = "waiting" /\ action[s][k] = "answered"
    /\ r.status = "waiting" =>
          /\ k > 0 /\ r.active = k /\ r.required = k
          /\ attempt[s][k].status = "waiting" /\ action[s][k] = "pending"
    /\ r.status = "running" =>
          /\ k > 0 /\ r.active = k /\ r.required = 0
          /\ attempt[s][k].status = "running" /\ action[s][k] = "none"
    /\ r.status \in {"succeeded", "failed"} =>
          /\ k > 0
          /\ r.required = 0 => r.active = k /\ action[s][k] = "none"
          /\ r.required # 0 => /\ r.required = k
                               /\ \/ action[s][k] = "answered"
                                  \/ action[s][k] = "pending" /\ r.active = k
          /\ \/ attempt[s][k].status = r.status
             \/ /\ r.status = "failed" /\ r.required = 0
                /\ attempt[s][k].status = "interrupted"
    /\ r.status = "cancelled" =>
          /\ r.required = 0
          /\ k > 0 => /\ attempt[s][k].status = "cancelled"
                      /\ action[s][k] \in {"none", "cancelled", "expired"}

(* Runs are submitted in the order of their numbers; one at most is being  *)
(* served.                                                                 *)
QueueInv ==
    /\ \A s \in Seqs : run[s].status = "absent" <=> s >= conv.next
    /\ \A s, t \in Seqs :
          run[s].status \in {"running", "waiting"} /\ run[t].status \in {"running", "waiting"}
          => s = t

(* MaxAsks bounds the questions of the Conversation.                       *)
Asked == {q \in Seqs \X Numbers : action[q[1]][q[2]] # "none"}

AskInv == Cardinality(Asked) <= MaxAsks

(* The newest Attempt of the task's Run is the one the task began.         *)
Mine(w) ==
    LET s == task[w].seq  n == task[w].number IN
    /\ n = run[s].count
    /\ attempt[s][n].worker = w /\ attempt[s][n].token = task[w].token

Executing == {"started", "dispatched", "accepted", "settle"}
Failing == {"fail", "failSettle"}
Holding == Executing \cup Failing \cup {"begin", "report"}

TaskInv(w) ==
    LET t == task[w]  s == task[w].seq IN
    /\ t.pc \in Holding =>
          s \in Seqs /\ t.number \in Numbers /\ run[s].status # "absent"
    /\ t.pc = "begin" =>
          /\ t.readRun.status = "queued" /\ t.number = t.readRun.count + 1
          /\ LeaseValid(w) =>
                /\ \A r \in Seqs : /\ run[r].status \notin {"running", "waiting"}
                                   /\ run[r].status = "queued" => s <= r
                /\ run[s] = t.readRun \/ run[s].status = "cancelled"
    /\ t.pc \in Executing /\ LeaseValid(w) =>
          Mine(w) /\ run[s].status \notin {"succeeded", "failed"}
    /\ t.pc = "report" => Mine(w) /\ run[s].status = "succeeded"
    /\ t.pc \in Failing /\ LeaseValid(w) =>
          \/ run[s].status = "cancelled"
          \/ Mine(w) /\ run[s].status # "failed"
    /\ t.pc \in {"settle", "failSettle"} => t.readRun.status # "cancelled"

(* As long as no lease has run out under its task, a task that is at work  *)
(* has a valid one.                                                        *)
LeaseInv ==
    ~lease.stalled => \A w \in Workers : task[w].pc \notin {"idle", "closing"} => LeaseValid(w)

IInv ==
    /\ TypeOK
    /\ \A s \in Seqs : RunInv(s)
    /\ QueueInv /\ AskInv
    /\ \A w \in Workers : TaskInv(w)
    /\ LeaseInv

-----------------------------------------------------------------------------
(* Types.                                                                  *)

(* Attempts are numbered from 1, as Runs are.                              *)
LEMMA NumberTypes ==
    /\ MaxAttempts \in Nat /\ MaxAttempts = MaxAsks + 1
    /\ Numbers = 1..MaxAttempts /\ NumberOrNone = 0..MaxAttempts
    /\ NumberOrNone \subseteq Nat /\ Numbers = NumberOrNone \ {0}
    /\ Seqs = 1..MaxRuns /\ MaxRuns \in Nat /\ Seqs \subseteq Nat
BY ConstantsAssumption DEF MaxAttempts, Numbers, NumberOrNone, Seqs

(* The rows and tasks themselves.                                          *)
LEMMA RowTypes ==
    ASSUME TypeOK
    PROVE  /\ \A s \in Seqs :
                 /\ run[s] \in RunRecord
                 /\ \A n \in Numbers :
                       /\ attempt[s][n] \in RunAttempt
                       /\ action[s][n] \in RequiredActionStatus \cup {"none"}
           /\ \A w \in Workers : task[w] \in Task
           /\ conv.next \in 1..(MaxRuns + 1) /\ conv.status \in {"active", "blocked"}
           /\ lease.token \in Nat
BY DEF TypeOK

(* A table that gets a well-formed row stays well formed, and its other    *)
(* rows stay.                                                              *)
LEMMA ReplaceTypes ==
    ASSUME TypeOK, NEW s \in Seqs
    PROVE  /\ \A row \in RunRecord : ReplaceRun(s, row) =>
                 /\ run' \in [Seqs -> RunRecord] /\ run'[s] = row
                 /\ \A t \in Seqs : t # s => run'[t] = run[t]
           /\ \A n \in Numbers, row \in RunAttempt : ReplaceAttempt(s, n, row) =>
                 /\ attempt' \in [Seqs -> [Numbers -> RunAttempt]] /\ attempt'[s][n] = row
                 /\ \A m \in Numbers : m # n => attempt'[s][m] = attempt[s][m]
                 /\ \A t \in Seqs : t # s => attempt'[t] = attempt[t]
           /\ \A n \in Numbers, x \in RequiredActionStatus : SetAction(s, n, x) =>
                 /\ action' \in [Seqs -> [Numbers -> RequiredActionStatus \cup {"none"}]]
                 /\ action'[s][n] = x
                 /\ \A m \in Numbers : m # n => action'[s][m] = action[s][m]
                 /\ \A t \in Seqs : t # s => action'[t] = action[t]
<1>1. ASSUME NEW row \in RunRecord, ReplaceRun(s, row)
      PROVE  /\ run' \in [Seqs -> RunRecord] /\ run'[s] = row
             /\ \A t \in Seqs : t # s => run'[t] = run[t]
  BY <1>1 DEF TypeOK, ReplaceRun
<1>2. ASSUME NEW n \in Numbers, NEW row \in RunAttempt, ReplaceAttempt(s, n, row)
      PROVE  /\ attempt' \in [Seqs -> [Numbers -> RunAttempt]] /\ attempt'[s][n] = row
             /\ \A m \in Numbers : m # n => attempt'[s][m] = attempt[s][m]
             /\ \A t \in Seqs : t # s => attempt'[t] = attempt[t]
  BY <1>2 DEF TypeOK, ReplaceAttempt
<1>3. ASSUME NEW n \in Numbers, NEW x \in RequiredActionStatus, SetAction(s, n, x)
      PROVE  /\ action' \in [Seqs -> [Numbers -> RequiredActionStatus \cup {"none"}]]
             /\ action'[s][n] = x
             /\ \A m \in Numbers : m # n => action'[s][m] = action[s][m]
             /\ \A t \in Seqs : t # s => action'[t] = action[t]
  BY <1>3 DEF TypeOK, SetAction
<1> QED
  BY <1>1, <1>2, <1>3

(* The same for tasks.                                                     *)
LEMMA BecomeTypes ==
    ASSUME TypeOK, NEW w \in Workers, NEW t \in Task, Become(w, t)
    PROVE  /\ task' \in [Workers -> Task] /\ task'[w] = t
           /\ \A v \in Workers : v # w => task'[v] = task[v]
BY DEF TypeOK, Become

(* Where a task can be afterwards, when it only moves.                     *)
LEMMA MoveTypes ==
    ASSUME TypeOK, NEW w \in Workers, NEW pc \in TaskPc
    PROVE  /\ Goto(w, pc) =>
                 /\ task' \in [Workers -> Task]
                 /\ task'[w] = [task[w] EXCEPT !.pc = pc, !.readRun = NoRun,
                                               !.readAttempt = NoAttempt, !.readNext = 0]
                 /\ \A v \in Workers : v # w => task'[v] = task[v]
           /\ Return(w, pc) =>
                 /\ task' \in [Workers -> Task]
                 /\ task'[w] = [NoTask EXCEPT !.pc = pc, !.token = task[w].token]
                 /\ \A v \in Workers : v # w => task'[v] = task[v]
<1>1. task[w] \in Task /\ NoRun \in RunRecord /\ NoAttempt \in RunAttempt /\ 0 \in 0..(MaxRuns + 1)
  BY RowTypes, NumberTypes, ConstantsAssumption DEF NoRun, RunRecord, RunStatus, NoAttempt,
     RunAttempt, DispatchState
<1>2. [task[w] EXCEPT !.pc = pc, !.readRun = NoRun, !.readAttempt = NoAttempt,
                      !.readNext = 0] \in Task
  BY <1>1 DEF Task
<1>3. [NoTask EXCEPT !.pc = pc, !.token = task[w].token] \in Task
  <2>1. NoTask \in Task
    BY <1>1, NumberTypes DEF Task, NoTask, TaskPc
  <2>2. task[w].token \in Nat
    BY <1>1 DEF Task
  <2> QED
    BY <2>1, <2>2 DEF Task
<1> QED
  BY <1>2, <1>3, BecomeTypes DEF Goto, Return

(* The invariant holds after create_conversation.                          *)
LEMMA InitInv == Init => IInv
<1> SUFFICES ASSUME Init PROVE IInv
  OBVIOUS
<1>1. TypeOK
  BY NumberTypes, ConstantsAssumption DEF Init, TypeOK, RunRecord, RunStatus, RunAttempt,
     DispatchState, Task, TaskPc, NoRun, NoAttempt, NoTask, NoBlocker
<1>2. \A s \in Seqs : RunInv(s)
  BY NumberTypes DEF Init, RunInv, NoRun, NoAttempt
<1>3. QueueInv
  BY NumberTypes DEF Init, QueueInv, NoRun
<1>4. AskInv
  <2>1. Asked = {}
    BY DEF Init, Asked
  <2> QED
    BY <2>1, FS_EmptySet, ConstantsAssumption DEF AskInv
<1>5. \A w \in Workers : TaskInv(w)
  BY DEF Init, TaskInv, NoTask, Holding, Executing, Failing
<1>6. LeaseInv
  BY DEF Init, LeaseInv, NoTask
<1> QED
  BY <1>1, <1>2, <1>3, <1>4, <1>5, <1>6 DEF IInv

-----------------------------------------------------------------------------
(* What a step that moves the rows of one Run leaves alone.                *)

Elsewhere(s) ==
    \A r \in Seqs : r # s =>
        run'[r] = run[r] /\ attempt'[r] = attempt[r] /\ action'[r] = action[r]

(* The rows of the other Runs keep their shape.                            *)
LEMMA RunsStay ==
    ASSUME NEW s \in Seqs, \A r \in Seqs : RunInv(r), Elsewhere(s), RunInv(s)'
    PROVE  \A r \in Seqs : RunInv(r)'
<1> SUFFICES ASSUME NEW r \in Seqs, r # s PROVE RunInv(r)'
  OBVIOUS
<1>1. run'[r] = run[r] /\ attempt'[r] = attempt[r] /\ action'[r] = action[r]
  BY DEF Elsewhere
<1>2. RunInv(r)
  OBVIOUS
<1> QED
  BY <1>1, <1>2 DEF RunInv

(* No Run is being served that was not, so the queue is still one.         *)
LEMMA QueueStays ==
    ASSUME NEW s \in Seqs, QueueInv, Elsewhere(s), conv'.next = conv.next,
           run'[s].status = "absent" <=> run[s].status = "absent",
           run'[s].status \in {"running", "waiting"} => run[s].status \in {"running", "waiting"}
    PROVE  QueueInv'
BY DEF QueueInv, Elsewhere

(* No question is new.                                                     *)
LEMMA AsksStay ==
    ASSUME NEW s \in Seqs, AskInv, Elsewhere(s),
           \A n \in Numbers : action'[s][n] = "none" <=> action[s][n] = "none"
    PROVE  AskInv'
<1>1. Asked' = Asked
  <2>1. \A q \in Seqs \X Numbers :
           action'[q[1]][q[2]] # "none" <=> action[q[1]][q[2]] # "none"
    <3> SUFFICES ASSUME NEW r \in Seqs, NEW n \in Numbers
                 PROVE  action'[r][n] # "none" <=> action[r][n] # "none"
      OBVIOUS
    <3> QED
      BY DEF Elsewhere
  <2> QED
    BY <2>1 DEF Asked
<1> QED
  BY <1>1 DEF AskInv

(* A lease that is not taken from anybody.                                 *)
LEMMA LeaseStays ==
    ASSUME LeaseInv, lease' = lease,
           \A w \in Workers :
              /\ task'[w].token = task[w].token
              /\ task'[w].pc \notin {"idle", "closing"} => task[w].pc \notin {"idle", "closing"}
    PROVE  LeaseInv'
BY DEF LeaseInv, LeaseValid

(* A task whose Run is not touched, in a step that gives it no lease and,  *)
(* if it is about to begin its Run under a valid lease, moves no other Run *)
(* in front of it.                                                         *)
LEMMA TaskApart ==
    ASSUME NEW v \in Workers, TaskInv(v), task'[v] = task[v], LeaseValid(v)' => LeaseValid(v),
           NEW s \in Seqs, Elsewhere(s), task[v].seq # s,
           task[v].pc = "begin" /\ LeaseValid(v) =>
              /\ run'[s].status \notin {"running", "waiting"}
              /\ run'[s].status = "queued" => task[v].seq <= s
    PROVE  TaskInv(v)'
<1> DEFINE r == task[v].seq
<1>1. CASE task[v].pc \notin Holding
  BY <1>1 DEF TaskInv, Holding, Executing, Failing
<1>2. CASE task[v].pc \in Holding
  <2>1. r \in Seqs /\ r # s
    BY <1>2 DEF TaskInv
  <2>2. run'[r] = run[r] /\ attempt'[r] = attempt[r]
    BY <2>1 DEF Elsewhere
  <2>3. Mine(v) => Mine(v)'
    BY <2>2 DEF Mine
  <2>4. CASE task[v].pc = "begin"
    BY <2>2, <2>4 DEF TaskInv, Elsewhere, Holding, Executing, Failing
  <2>5. CASE task[v].pc # "begin"
    BY <2>2, <2>3, <2>5 DEF TaskInv, Holding, Executing, Failing
  <2> QED
    BY <2>4, <2>5
<1> QED
  BY <1>1, <1>2

(* The steps of the API process and of the reconciler that change a        *)
(* Run's status.                                                           *)
Change(s) ==
    <<run[s].status, run'[s].status>> \in
        {<<"queued", "cancelled">>, <<"waiting", "cancelled">>, <<"running", "cancelled">>,
         <<"waiting", "queued">>, <<"running", "failed">>}

(* They are no concern of a task that has not begun the Run, and a task    *)
(* that has begun it knows about them: a Run is failed under its task only *)
(* when the task's lease is gone.                                          *)
LEMMA TaskOfChanged ==
    ASSUME NEW v \in Workers, TaskInv(v), task'[v] = task[v], lease' = lease,
           NEW s \in Seqs, Elsewhere(s), task[v].seq = s, Change(s),
           run'[s].count = run[s].count,
           \A n \in Numbers : /\ attempt'[s][n].worker = attempt[s][n].worker
                              /\ attempt'[s][n].token = attempt[s][n].token,
           run'[s].status = "failed" /\ Mine(v) => ~LeaseValid(v)
    PROVE  TaskInv(v)'
<1>1. LeaseValid(v)' <=> LeaseValid(v)
  BY DEF LeaseValid
<1>2. CASE task[v].pc \notin Holding
  BY <1>2 DEF TaskInv, Holding, Executing, Failing
<1>3. CASE task[v].pc = "begin"
  BY <1>1, <1>3 DEF TaskInv, Elsewhere, Change, Holding, Executing, Failing
<1>4. CASE task[v].pc \in Holding \ {"begin"}
  <2>1. task[v].number \in Numbers
    BY <1>4 DEF TaskInv
  <2>2. Mine(v) => Mine(v)'
    BY <2>1 DEF Mine
  <2> QED
    BY <1>1, <1>4, <2>2 DEF TaskInv, Change, Holding, Executing, Failing
<1> QED
  BY <1>2, <1>3, <1>4

(* So they keep the invariant, if the rows they leave are of one story.    *)
LEMMA ChangeKeeps ==
    ASSUME IInv, NEW s \in Seqs, TypeOK', RunInv(s)', Elsewhere(s), Change(s),
           UNCHANGED <<task, lease>>, conv'.next = conv.next,
           \A n \in Numbers : action'[s][n] = "none" <=> action[s][n] = "none",
           run'[s].count = run[s].count,
           \A n \in Numbers : /\ attempt'[s][n].worker = attempt[s][n].worker
                              /\ attempt'[s][n].token = attempt[s][n].token,
           run'[s].status = "failed" =>
              \A v \in Workers : task[v].seq = s /\ Mine(v) => ~LeaseValid(v)
    PROVE  IInv'
<1>1. \A r \in Seqs : RunInv(r)'
  BY RunsStay DEF IInv
<1>2. QueueInv'
  BY QueueStays DEF IInv, Change
<1>3. AskInv'
  BY AsksStay DEF IInv
<1>4. ASSUME NEW v \in Workers PROVE TaskInv(v)'
  <2>1. TaskInv(v) /\ task'[v] = task[v] /\ (LeaseValid(v)' => LeaseValid(v))
    BY DEF IInv, LeaseValid
  <2>2. CASE task[v].seq = s
    BY <2>1, <2>2, TaskOfChanged
  <2>3. CASE task[v].seq # s
    <3>1. ASSUME task[v].pc = "begin", LeaseValid(v)
          PROVE  run'[s].status \notin {"running", "waiting"} /\ run'[s].status # "queued"
      BY <2>1, <3>1 DEF TaskInv, Change
    <3> QED
      BY <2>1, <2>3, <3>1, TaskApart
  <2> QED
    BY <2>2, <2>3
<1>5. LeaseInv'
  BY LeaseStays DEF IInv
<1> QED
  BY <1>1, <1>2, <1>3, <1>4, <1>5 DEF IInv

(* A step that touches no row of a Run: it need only be looked at for what *)
(* it does to tasks and to the lease.                                      *)
LEMMA RowsStayKeeps ==
    ASSUME IInv, TypeOK', UNCHANGED <<run, attempt, action>>, conv'.next = conv.next,
           \A v \in Workers :
              \/ TaskInv(v)'
              \/ task'[v] = task[v] /\ (LeaseValid(v)' => LeaseValid(v)),
           LeaseInv'
    PROVE  IInv'
<1>1. \A r \in Seqs : RunInv(r)'
  BY DEF IInv, RunInv
<1>2. QueueInv' /\ AskInv'
  BY DEF IInv, QueueInv, AskInv, Asked
<1>3. ASSUME NEW v \in Workers, task'[v] = task[v], LeaseValid(v)' => LeaseValid(v)
      PROVE  TaskInv(v)'
  <2>1. TaskInv(v)
    BY DEF IInv
  <2>2. Mine(v) => Mine(v)'
    BY <1>3 DEF Mine
  <2> QED
    BY <1>3, <2>1, <2>2 DEF TaskInv
<1> QED
  BY <1>1, <1>2, <1>3 DEF IInv

-----------------------------------------------------------------------------
(* The API process and the reconciler keep the invariant.                  *)

(* A new Run gets the next number: it goes behind all others.              *)
LEMMA SubmitKeeps == IInv /\ Submit => IInv'
<1> SUFFICES ASSUME IInv, Submit PROVE IInv'
  OBVIOUS
<1> DEFINE row == [NoRun EXCEPT !.status = "queued"]
<1>0. PICK s \in Seqs : s = conv.next
  BY RowTypes, NumberTypes DEF IInv, Submit
<1>1. TypeOK /\ RunInv(s) /\ QueueInv
  BY DEF IInv
<1>2. run[s] = NoRun
  BY <1>0, <1>1, NumberTypes DEF QueueInv, RunInv
<1>3. row \in RunRecord /\ row.status = "queued" /\ row.count = 0 /\ row.active = 0 /\ row.required = 0
  BY NumberTypes DEF NoRun, RunRecord, RunStatus
<1>4. /\ run' \in [Seqs -> RunRecord] /\ run'[s] = row
      /\ \A t \in Seqs : t # s => run'[t] = run[t]
  BY <1>0, <1>1, <1>3, ReplaceTypes DEF Submit, ReplaceRun
<1>5. conv' = [conv EXCEPT !.next = s + 1] /\ s \in 1..MaxRuns /\ s \in Nat
  BY <1>0, NumberTypes DEF Submit
<1>6. UNCHANGED <<attempt, action, lease, task, blocker, disturbances>>
  BY DEF Submit
<1>7. TypeOK'
  <2>1. s + 1 \in 1..(MaxRuns + 1)
    BY <1>5, NumberTypes
  <2>2. conv' \in [status: {"active", "blocked"}, next: 1..(MaxRuns + 1)]
    BY <1>1, <1>5, <2>1 DEF TypeOK
  <2> QED
    BY <1>1, <1>4, <1>6, <2>2 DEF TypeOK
<1>8. Elsewhere(s)
  BY <1>4, <1>6 DEF Elsewhere
<1>9. RunInv(s)'
  BY <1>1, <1>2, <1>3, <1>4, <1>6, NumberTypes DEF RunInv, NoRun
<1>10. \A r \in Seqs : RunInv(r)'
  BY <1>1, <1>8, <1>9, RunsStay DEF IInv
<1>11. QueueInv'
  <2>1. conv'.next = s + 1
    BY <1>1, <1>5 DEF TypeOK
  <2>2. ASSUME NEW r \in Seqs PROVE run'[r].status = "absent" <=> r >= conv'.next
    <3>1. r \in Nat /\ (run[r].status = "absent" <=> r >= s)
      BY <1>0, <1>1, NumberTypes DEF QueueInv
    <3>2. CASE r = s
      <4>1. run'[r].status # "absent"
        BY <1>3, <1>4, <3>2
      <4>2. ~(r >= conv'.next)
        BY <2>1, <3>1, <3>2
      <4> QED
        BY <4>1, <4>2
    <3>3. CASE r # s
      <4>1. run'[r] = run[r] /\ (r >= s <=> r >= conv'.next)
        BY <1>4, <1>5, <2>1, <3>1, <3>3
      <4> QED
        BY <3>1, <4>1
    <3> QED
      BY <3>2, <3>3
  <2> QED
    BY <1>1, <1>3, <1>4, <2>2 DEF QueueInv
<1>12. AskInv'
  BY <1>1, <1>6, <1>8, AsksStay DEF IInv
<1>13. ASSUME NEW v \in Workers PROVE TaskInv(v)'
  <2>1. TaskInv(v) /\ task'[v] = task[v] /\ (LeaseValid(v)' => LeaseValid(v))
    BY <1>6 DEF IInv, LeaseValid
  <2>2. CASE task[v].pc \notin Holding
    BY <2>1, <2>2 DEF TaskInv, Holding, Executing, Failing
  <2>3. CASE task[v].pc \in Holding
    <3>1. task[v].seq \in Seqs /\ run[task[v].seq].status # "absent"
      BY <2>1, <2>3 DEF TaskInv
    <3>2. task[v].seq < s
      BY <1>0, <1>1, <3>1, NumberTypes DEF QueueInv
    <3>3. task[v].seq # s /\ task[v].seq <= s
      BY <3>1, <3>2, NumberTypes
    <3>4. run'[s].status = "queued"
      BY <1>3, <1>4
    <3> QED
      BY <1>8, <2>1, <3>3, <3>4, TaskApart
  <2> QED
    BY <2>2, <2>3
<1>14. LeaseInv'
  BY <1>6, LeaseStays DEF IInv
<1> QED
  BY <1>7, <1>10, <1>11, <1>12, <1>13, <1>14 DEF IInv

(* What the replaced rows have to be, whoever replaces them.               *)
LEMMA ReplacedRows ==
    ASSUME TypeOK, NEW s \in Seqs
    PROVE  /\ \A c \in RunStatus : [run[s] EXCEPT !.status = c] \in RunRecord
           /\ \A c \in RunStatus : [run[s] EXCEPT !.status = c, !.active = 0] \in RunRecord
           /\ \A c \in RunStatus :
                 [run[s] EXCEPT !.status = c, !.active = 0, !.required = 0] \in RunRecord
           /\ \A c \in RunStatus, n \in Numbers :
                 [run[s] EXCEPT !.status = c, !.required = n] \in RunRecord
           /\ \A n \in Numbers, c \in AttemptStatus, d \in DispatchState :
                 [attempt[s][n] EXCEPT !.status = c, !.dispatch = d] \in RunAttempt
           /\ \A n \in Numbers, d \in DispatchState :
                 [attempt[s][n] EXCEPT !.dispatch = d] \in RunAttempt
<1>1. run[s] \in RunRecord /\ 0 \in NumberOrNone /\ Numbers \subseteq NumberOrNone
  BY RowTypes, NumberTypes
<1>2. \A n \in Numbers : attempt[s][n] \in RunAttempt
  BY RowTypes
<1>3. \A n \in Numbers, c \in AttemptStatus, d \in DispatchState :
         [attempt[s][n] EXCEPT !.status = c, !.dispatch = d] \in RunAttempt
  BY <1>2 DEF RunAttempt
<1>4. \A n \in Numbers, d \in DispatchState :
         [attempt[s][n] EXCEPT !.dispatch = d] \in RunAttempt
  BY <1>2 DEF RunAttempt
<1> QED
  BY <1>1, <1>3, <1>4 DEF RunRecord

(* A Run that has no Attempt is cancelled.                                 *)
LEMMA CancelQueuedKeeps ==
    ASSUME IInv, NEW s \in Seqs, CancelQueued(s)
    PROVE  IInv'
<1> DEFINE row == [run[s] EXCEPT !.status = "cancelled"]
<1>1. TypeOK /\ RunInv(s)
  BY DEF IInv
<1>2. row \in RunRecord
  BY <1>1, ReplacedRows DEF RunStatus
<1>3. /\ run' \in [Seqs -> RunRecord] /\ run'[s] = row
      /\ \A t \in Seqs : t # s => run'[t] = run[t]
  BY <1>1, <1>2, ReplaceTypes DEF CancelQueued
<1>4. UNCHANGED <<conv, attempt, action, lease, task, blocker, disturbances>>
  BY DEF CancelQueued
<1>5. run[s] \in RunRecord
  BY <1>1, RowTypes
<1>6. run[s].status = "queued" /\ run[s].count = 0 /\ run[s].required = 0
  BY <1>1, <1>5, NumberTypes DEF CancelQueued, Cancellable, RunInv, TerminalRunStatuses,
     RunRecord, RunStatus
<1>7. /\ run'[s].status = "cancelled" /\ run'[s].count = run[s].count
      /\ run'[s].required = 0
  BY <1>3, <1>5, <1>6 DEF RunRecord
<1>8. TypeOK'
  BY <1>1, <1>3, <1>4 DEF TypeOK
<1>9. Elsewhere(s)
  BY <1>3, <1>4 DEF Elsewhere
<1>10. RunInv(s)'
  BY <1>1, <1>4, <1>6, <1>7 DEF RunInv
<1> QED
  BY <1>4, <1>6, <1>7, <1>8, <1>9, <1>10, ChangeKeeps DEF Change

(* A Run that waits is cancelled or expires.                               *)
LEMMA CloseQuestionKeeps ==
    ASSUME IInv, NEW s \in Seqs, CancelWaiting(s) \/ Expire(s)
    PROVE  IInv'
<1>1. TypeOK /\ RunInv(s) /\ run[s] \in RunRecord
  BY RowTypes DEF IInv
<1>2. PICK k \in Numbers : k = run[s].required
  BY <1>1, NumberTypes DEF RunRecord, CancelWaiting, Expire, Resumable
<1> DEFINE row == [run[s] EXCEPT !.status = "cancelled", !.active = 0, !.required = 0]
           att == [attempt[s][k] EXCEPT !.status = "cancelled", !.dispatch = "settled"]
<1>3. action[s][k] = "pending"
  BY <1>2 DEF CancelWaiting, Cancellable, Expire, Resumable
<1>4. run[s].status = "waiting" /\ run[s].count = k /\ run[s].active = k
  <2>1. run[s].status \notin {"succeeded", "failed", "cancelled", "absent"}
    BY DEF CancelWaiting, Cancellable, Expire, Resumable, TerminalRunStatuses
  <2>2. run[s].status # "running"
    BY <1>1, <1>2, NumberTypes DEF RunInv
  <2>3. run[s].status # "queued"
    BY <1>1, <1>2, <1>3, NumberTypes DEF RunInv
  <2>4. run[s].status \in {"queued", "running", "waiting", "succeeded", "failed", "cancelled", "absent"}
    BY <1>1 DEF RunRecord, RunStatus
  <2>5. run[s].status = "waiting"
    BY <2>1, <2>2, <2>3, <2>4
  <2> QED
    BY <1>1, <1>2, <2>5 DEF RunInv
<1>5. row \in RunRecord /\ att \in RunAttempt
  BY <1>1, <1>2, ReplacedRows DEF RunStatus, AttemptStatus, DispatchState
<1>6. ReplaceRun(s, row) /\ ReplaceAttempt(s, k, att)
  BY <1>2 DEF CancelWaiting, Expire
<1>7. PICK x \in {"cancelled", "expired"} : SetAction(s, k, x)
  BY <1>2 DEF CancelWaiting, Expire
<1>8. x \in RequiredActionStatus
  BY DEF RequiredActionStatus
<1>9. /\ run' \in [Seqs -> RunRecord] /\ run'[s] = row
      /\ \A t \in Seqs : t # s => run'[t] = run[t]
  BY <1>1, <1>5, <1>6, ReplaceTypes
<1>10. /\ attempt' \in [Seqs -> [Numbers -> RunAttempt]] /\ attempt'[s][k] = att
       /\ \A m \in Numbers : m # k => attempt'[s][m] = attempt[s][m]
       /\ \A t \in Seqs : t # s => attempt'[t] = attempt[t]
  BY <1>1, <1>2, <1>5, <1>6, ReplaceTypes
<1>11. /\ action' \in [Seqs -> [Numbers -> RequiredActionStatus \cup {"none"}]]
       /\ action'[s][k] = x
       /\ \A m \in Numbers : m # k => action'[s][m] = action[s][m]
       /\ \A t \in Seqs : t # s => action'[t] = action[t]
  BY <1>1, <1>2, <1>7, <1>8, ReplaceTypes
<1>12. UNCHANGED <<conv, lease, task, blocker, disturbances>>
  BY DEF CancelWaiting, Expire
<1>13. TypeOK'
  BY <1>1, <1>9, <1>10, <1>11, <1>12 DEF TypeOK
<1>14. Elsewhere(s)
  BY <1>9, <1>10, <1>11 DEF Elsewhere
<1>15. /\ run'[s].status = "cancelled" /\ run'[s].count = k /\ run'[s].required = 0
  BY <1>1, <1>4, <1>9 DEF RunRecord
<1>16. /\ attempt'[s][k].status = "cancelled"
       /\ \A n \in Numbers : /\ attempt'[s][n].worker = attempt[s][n].worker
                             /\ attempt'[s][n].token = attempt[s][n].token
  <2>1. attempt[s][k] \in RunAttempt
    BY <1>1, <1>2, RowTypes
  <2>2. /\ att.status = "cancelled" /\ att.worker = attempt[s][k].worker
        /\ att.token = attempt[s][k].token
    BY <2>1 DEF RunAttempt
  <2> QED
    BY <1>10, <2>2
<1>17. RunInv(s)'
  <2>1. attempt[s][k].status = "waiting" /\ k \in Nat
    BY <1>1, <1>4, NumberTypes DEF RunInv
  <2>2. action'[s][k] \in {"none", "cancelled", "expired"}
    BY <1>11
  <2>3. ASSUME NEW n \in Numbers
        PROVE  /\ n > k <=> attempt'[s][n].status = "none"
               /\ n > k => action'[s][n] = "none"
               /\ n < k => attempt'[s][n].status = "waiting" /\ action'[s][n] = "consumed"
    <3>1. CASE n = k
      BY <1>16, <2>1, <3>1
    <3>2. CASE n # k
      BY <1>1, <1>4, <1>10, <1>11, <3>2 DEF RunInv
    <3> QED
      BY <3>1, <3>2
  <2> QED
    BY <1>15, <1>16, <2>2, <2>3 DEF RunInv
<1>18. \A n \in Numbers : action'[s][n] = "none" <=> action[s][n] = "none"
  BY <1>3, <1>11
<1> QED
  BY <1>4, <1>12, <1>13, <1>14, <1>15, <1>16, <1>17, <1>18, ChangeKeeps DEF Change

(* An answer makes the Run QUEUED again.                                   *)
LEMMA AnswerKeeps ==
    ASSUME IInv, NEW s \in Seqs, Answer(s)
    PROVE  IInv'
<1> DEFINE k == run[s].required
           row == [run[s] EXCEPT !.status = "queued", !.active = 0]
<1>1. TypeOK /\ RunInv(s) /\ run[s] \in RunRecord
  BY RowTypes DEF IInv
<1>2. run[s].status = "waiting" /\ k \in Numbers /\ run[s].count = k /\ action[s][k] = "pending"
  BY <1>1, NumberTypes DEF Answer, Resumable, RunInv, RunRecord
<1>3. row \in RunRecord /\ "answered" \in RequiredActionStatus
  BY <1>1, ReplacedRows DEF RunStatus, RequiredActionStatus
<1>4. ReplaceRun(s, row) /\ SetAction(s, k, "answered")
      /\ UNCHANGED <<conv, attempt, lease, task, blocker, disturbances>>
  BY DEF Answer
<1>5. /\ run' \in [Seqs -> RunRecord] /\ run'[s] = row
      /\ \A t \in Seqs : t # s => run'[t] = run[t]
  BY <1>1, <1>3, <1>4, ReplaceTypes
<1>6. /\ action' \in [Seqs -> [Numbers -> RequiredActionStatus \cup {"none"}]]
      /\ action'[s][k] = "answered"
      /\ \A m \in Numbers : m # k => action'[s][m] = action[s][m]
      /\ \A t \in Seqs : t # s => action'[t] = action[t]
  BY <1>1, <1>2, <1>3, <1>4, ReplaceTypes
<1>7. TypeOK'
  BY <1>1, <1>4, <1>5, <1>6 DEF TypeOK
<1>8. Elsewhere(s)
  BY <1>4, <1>5, <1>6 DEF Elsewhere
<1>9. /\ run'[s].status = "queued" /\ run'[s].count = k
      /\ run'[s].required = k /\ run'[s].active = 0
  BY <1>1, <1>2, <1>5 DEF RunRecord
<1>10. RunInv(s)'
  BY <1>1, <1>2, <1>4, <1>6, <1>9, NumberTypes DEF RunInv
<1>11. \A n \in Numbers : action'[s][n] = "none" <=> action[s][n] = "none"
  BY <1>2, <1>6
<1> QED
  BY <1>2, <1>4, <1>7, <1>8, <1>9, <1>10, <1>11, ChangeKeeps DEF Change

(* An executing Run is cancelled, or interrupted once the lease of its     *)
(* Attempt is gone.                                                        *)
LEMMA EndRunningKeeps ==
    ASSUME IInv, NEW s \in Seqs, CancelRunning(s) \/ InterruptExpired(s)
    PROVE  IInv'
<1>1. TypeOK /\ RunInv(s) /\ run[s] \in RunRecord
  BY RowTypes DEF IInv
<1>2. PICK k \in Numbers :
      /\ k = run[s].active /\ run[s].status = "running" /\ run[s].count = k
      /\ run[s].required = 0 /\ attempt[s][k].status = "running" /\ action[s][k] = "none"
  BY <1>1, NumberTypes DEF CancelRunning, InterruptExpired, Cancellable, TerminalRunStatuses,
     RunInv, RunRecord, RunStatus
<1>3. attempt[s][k] \in RunAttempt
  BY <1>1, <1>2, RowTypes
<1>4. PICK c \in {"cancelled", "failed"}, a \in {"cancelled", "interrupted"},
           d \in {"settled", "unknown"} :
         /\ ReplaceRun(s, [run[s] EXCEPT !.status = c])
         /\ ReplaceAttempt(s, k, [attempt[s][k] EXCEPT !.status = a, !.dispatch = d])
         /\ c = "cancelled" <=> a = "cancelled"
         /\ c = "failed" => InterruptExpired(s)
  BY <1>2 DEF CancelRunning, InterruptExpired, SettledAttemptStatuses, AttemptStatus
<1> DEFINE row == [run[s] EXCEPT !.status = c]
           att == [attempt[s][k] EXCEPT !.status = a, !.dispatch = d]
<1>5. row \in RunRecord /\ att \in RunAttempt
  BY <1>1, <1>2, ReplacedRows DEF RunStatus, AttemptStatus, DispatchState
<1>6. /\ run' \in [Seqs -> RunRecord] /\ run'[s] = row
      /\ \A t \in Seqs : t # s => run'[t] = run[t]
  BY <1>1, <1>4, <1>5, ReplaceTypes
<1>7. /\ attempt' \in [Seqs -> [Numbers -> RunAttempt]] /\ attempt'[s][k] = att
      /\ \A m \in Numbers : m # k => attempt'[s][m] = attempt[s][m]
      /\ \A t \in Seqs : t # s => attempt'[t] = attempt[t]
  BY <1>1, <1>2, <1>4, <1>5, ReplaceTypes
<1>8. UNCHANGED <<conv, action, lease, task, disturbances>>
  BY DEF CancelRunning, InterruptExpired
<1>9. blocker' \in [Seqs -> [pc: {"idle", "block", "blockWrite"}, readNext: 0..(MaxRuns + 1)]]
  <2>1. CASE CancelRunning(s)
    BY <1>1, <2>1 DEF CancelRunning, TypeOK
  <2>2. CASE InterruptExpired(s)
    BY <1>1, <2>2 DEF InterruptExpired, TypeOK
  <2> QED
    BY <2>1, <2>2
<1>10. TypeOK'
  BY <1>1, <1>6, <1>7, <1>8, <1>9 DEF TypeOK
<1>11. Elsewhere(s)
  BY <1>6, <1>7, <1>8 DEF Elsewhere
<1>12. /\ run'[s].status = c /\ run'[s].count = k
       /\ run'[s].required = 0 /\ run'[s].active = k
  BY <1>1, <1>2, <1>6 DEF RunRecord
<1>13. /\ attempt'[s][k].status = a
       /\ \A n \in Numbers : /\ attempt'[s][n].worker = attempt[s][n].worker
                             /\ attempt'[s][n].token = attempt[s][n].token
  <2>1. att.status = a /\ att.worker = attempt[s][k].worker /\ att.token = attempt[s][k].token
    BY <1>3 DEF RunAttempt
  <2> QED
    BY <1>7, <2>1
<1>14. RunInv(s)'
  <2>1. k \in Nat
    BY NumberTypes
  <2>2. ASSUME NEW n \in Numbers
        PROVE  /\ n > k <=> attempt'[s][n].status = "none"
               /\ n > k => action'[s][n] = "none"
               /\ n < k => attempt'[s][n].status = "waiting" /\ action'[s][n] = "consumed"
    <3>1. CASE n = k
      BY <1>13, <2>1, <3>1
    <3>2. CASE n # k
      BY <1>1, <1>2, <1>7, <1>8, <3>2 DEF RunInv
    <3> QED
      BY <3>1, <3>2
  <2>3. action'[s][k] = "none"
    BY <1>2, <1>8
  <2>4. CASE c = "cancelled"
    BY <1>4, <1>12, <1>13, <2>2, <2>3, <2>4 DEF RunInv
  <2>5. CASE c = "failed"
    BY <1>4, <1>12, <1>13, <2>1, <2>2, <2>3, <2>5, NumberTypes DEF RunInv
  <2> QED
    BY <2>4, <2>5
<1>15. ASSUME c = "failed", NEW v \in Workers, task[v].seq = s, Mine(v)
       PROVE  ~LeaseValid(v)
  BY <1>2, <1>4, <1>15 DEF InterruptExpired, Mine, LeaseValid
<1> QED
  BY <1>2, <1>8, <1>10, <1>11, <1>12, <1>13, <1>14, <1>15, ChangeKeeps DEF Change

(* A cancel handler after its first transaction touches the Conversation's *)
(* status and nothing of its Runs, tasks and lease.                        *)
LEMMA HandlerKeeps ==
    ASSUME IInv, NEW s \in Seqs, FinishCancel(s) \/ ApiCrash(s)
    PROVE  IInv'
<1>1. TypeOK /\ conv.next \in 0..(MaxRuns + 1)
  BY RowTypes, NumberTypes DEF IInv
<1>2. UNCHANGED <<run, attempt, action, lease, task>>
  BY DEF FinishCancel, CancelReads, CancelBlocks, CancelBlockRefused, ApiCrash
<1>3. /\ conv' \in [status: {"active", "blocked"}, next: 1..(MaxRuns + 1)]
      /\ conv'.next = conv.next
  <2>1. CASE UNCHANGED conv
    BY <1>1, <2>1 DEF TypeOK
  <2>2. CASE conv' = [conv EXCEPT !.status = "blocked"]
    BY <1>1, <2>2 DEF TypeOK
  <2> QED
    BY <2>1, <2>2 DEF FinishCancel, CancelReads, CancelBlocks, CancelBlockRefused, ApiCrash
<1>4. /\ blocker' \in [Seqs -> [pc: {"idle", "block", "blockWrite"}, readNext: 0..(MaxRuns + 1)]]
      /\ disturbances' \in 0..MaxDisturbances
  <2> DEFINE B == [pc: {"idle", "block", "blockWrite"}, readNext: 0..(MaxRuns + 1)]
  <2>1. NoBlocker \in B /\ [pc |-> "blockWrite", readNext |-> conv.next] \in B
    BY <1>1, ConstantsAssumption DEF NoBlocker
  <2>2. PICK b \in B : blocker' = [blocker EXCEPT ![s] = b]
    BY <2>1 DEF FinishCancel, CancelReads, CancelBlocks, CancelBlockRefused, ApiCrash
  <2>3. disturbances' \in 0..MaxDisturbances
    BY <1>1, ConstantsAssumption DEF FinishCancel, CancelReads, CancelBlocks,
       CancelBlockRefused, ApiCrash, Disturb, TypeOK
  <2> QED
    BY <1>1, <2>2, <2>3 DEF TypeOK
<1>5. TypeOK'
  BY <1>1, <1>2, <1>3, <1>4 DEF TypeOK
<1>6. LeaseInv'
  BY <1>2, LeaseStays DEF IInv
<1>7. \A v \in Workers : task'[v] = task[v] /\ (LeaseValid(v)' => LeaseValid(v))
  BY <1>2 DEF LeaseValid
<1> QED
  BY <1>2, <1>3, <1>5, <1>6, <1>7, RowsStayKeeps

-----------------------------------------------------------------------------
(* Tasks that touch no row of a Run.                                       *)

(* A task that only moves, its lease untouched: what it knows afterwards   *)
(* is all there is to show.                                                *)
LEMMA TaskMoveKeeps ==
    ASSUME IInv, NEW w \in Workers, UNCHANGED <<run, attempt, action, lease>>,
           UNCHANGED blocker, conv' \in [status: {"active", "blocked"}, next: 1..(MaxRuns + 1)],
           conv'.next = conv.next, disturbances' \in 0..MaxDisturbances,
           task[w].pc \notin {"idle", "closing"},
           NEW t \in Task, Become(w, t), t.pc # "idle", t.token = task[w].token,
           TaskInv(w)'
    PROVE  IInv'
<1>1. /\ task' \in [Workers -> Task] /\ task'[w] = t
      /\ \A v \in Workers : v # w => task'[v] = task[v]
  BY BecomeTypes DEF IInv
<1>2. TypeOK'
  BY <1>1 DEF IInv, TypeOK
<1>3. \A v \in Workers : \/ TaskInv(v)'
                         \/ task'[v] = task[v] /\ (LeaseValid(v)' => LeaseValid(v))
  BY <1>1 DEF LeaseValid
<1>4. LeaseInv'
  BY <1>1, LeaseStays DEF IInv
<1> QED
  BY <1>2, <1>3, <1>4, RowsStayKeeps

(* Most moves leave nothing to know.                                       *)
LEMMA MoveKeeps ==
    ASSUME IInv, NEW w \in Workers, UNCHANGED <<run, attempt, action, lease>>,
           UNCHANGED blocker, conv' \in [status: {"active", "blocked"}, next: 1..(MaxRuns + 1)],
           conv'.next = conv.next, disturbances' \in 0..MaxDisturbances,
           task[w].pc \notin {"idle", "closing"},
           \/ \E pc \in {"serve", "executed", "closing"} : Return(w, pc)
           \/ Goto(w, "block")
    PROVE  IInv'
<1>1. TypeOK /\ task[w] \in Task
  BY RowTypes DEF IInv
<1>2. PICK t \in Task : /\ Become(w, t) /\ t.token = task[w].token
                        /\ t.pc \in {"serve", "executed", "closing", "block"}
  <2>1. CASE \E pc \in {"serve", "executed", "closing"} : Return(w, pc)
    <3>1. PICK pc \in {"serve", "executed", "closing"} : Return(w, pc)
      BY <2>1
    <3>2. pc \in TaskPc
      BY DEF TaskPc
    <3> DEFINE t == [NoTask EXCEPT !.pc = pc, !.token = task[w].token]
    <3>3. Become(w, t)
      BY <3>1 DEF Return
    <3>4. t.pc = pc /\ t.token = task[w].token
      BY DEF NoTask
    <3>5. t \in Task
      BY <1>1, <3>1, <3>2, <3>3, MoveTypes DEF TypeOK, Become
    <3> QED
      BY <3>3, <3>4, <3>5
  <2>2. CASE Goto(w, "block")
    <3> DEFINE t == [task[w] EXCEPT !.pc = "block", !.readRun = NoRun,
                                    !.readAttempt = NoAttempt, !.readNext = 0]
    <3>1. Become(w, t)
      BY <2>2 DEF Goto
    <3>2. t.pc = "block" /\ t.token = task[w].token
      BY <1>1 DEF Task
    <3>3. "block" \in TaskPc
      BY DEF TaskPc
    <3>4. t \in Task
      BY <1>1, <2>2, <3>1, <3>3, MoveTypes DEF TypeOK, Become
    <3> QED
      BY <3>1, <3>2, <3>4
  <2> QED
    BY <2>1, <2>2
<1>3. task'[w] = t
  BY <1>1, <1>2, BecomeTypes
<1>4. TaskInv(w)'
  BY <1>2, <1>3 DEF TaskInv, Holding, Executing, Failing
<1> QED
  BY <1>2, <1>4, TaskMoveKeeps

(* An exception is about to enter _settle_failure.                         *)
LEMMA FailKeeps ==
    ASSUME IInv, NEW w \in Workers,
           UNCHANGED <<conv, run, attempt, action, lease, blocker, disturbances>>,
           task[w].pc \in Holding, Goto(w, "fail"),
           LeaseValid(w) => \/ run[task[w].seq].status = "cancelled"
                            \/ Mine(w) /\ run[task[w].seq].status # "failed"
    PROVE  IInv'
<1>1. TypeOK /\ task[w] \in Task /\ TaskInv(w)
  BY RowTypes DEF IInv
<1> DEFINE t == [task[w] EXCEPT !.pc = "fail", !.readRun = NoRun,
                                !.readAttempt = NoAttempt, !.readNext = 0]
<1>2. Become(w, t)
  BY DEF Goto
<1>3. /\ t.pc = "fail" /\ t.token = task[w].token
      /\ t.seq = task[w].seq /\ t.number = task[w].number
  BY <1>1 DEF Task
<1>4. "fail" \in TaskPc
  BY DEF TaskPc
<1>5. task'[w] = t /\ task' \in [Workers -> Task]
  BY <1>1, <1>4, MoveTypes
<1>6. t \in Task
  BY <1>5
<1>7. (LeaseValid(w)' <=> LeaseValid(w)) /\ (Mine(w) => Mine(w)')
  BY <1>3, <1>5 DEF LeaseValid, Mine
<1>8. TaskInv(w)'
  BY <1>1, <1>3, <1>5, <1>7 DEF TaskInv, Holding, Executing, Failing
<1>9. task[w].pc \notin {"idle", "closing"}
  BY DEF Holding, Executing, Failing
<1>10. /\ conv' \in [status: {"active", "blocked"}, next: 1..(MaxRuns + 1)]
       /\ conv'.next = conv.next /\ disturbances' \in 0..MaxDisturbances
  BY <1>1 DEF TypeOK
<1> QED
  BY <1>2, <1>3, <1>6, <1>8, <1>9, <1>10, TaskMoveKeeps

(* A settlement reads the rows of the task's Run.                          *)
LEMMA ReadKeeps ==
    ASSUME IInv, NEW w \in Workers,
           UNCHANGED <<conv, run, attempt, action, lease, blocker, disturbances>>,
           run[task[w].seq].status # "cancelled",
           NEW pc, \/ task[w].pc \in Executing /\ pc = "settle"
                   \/ task[w].pc \in Failing /\ pc = "failSettle",
           ReadRows(w, pc)
    PROVE  IInv'
<1>1. TypeOK /\ task[w] \in Task /\ TaskInv(w)
  BY RowTypes DEF IInv
<1>2. task[w].pc \in Holding /\ task[w].seq \in Seqs /\ task[w].number \in Numbers
  BY <1>1 DEF TaskInv, Holding
<1> DEFINE s == task[w].seq
           t == [task[w] EXCEPT !.pc = pc, !.readRun = run[s],
                                !.readAttempt = attempt[s][task[w].number]]
<1>3. t \in Task
  <2>1. run[s] \in RunRecord /\ attempt[s][task[w].number] \in RunAttempt /\ pc \in TaskPc
    BY <1>1, <1>2, RowTypes DEF TaskPc
  <2> QED
    BY <1>1, <2>1 DEF Task
<1>4. Become(w, t)
  BY DEF ReadRows
<1>5. /\ t.pc = pc /\ t.token = task[w].token /\ t.readRun = run[s]
      /\ t.seq = s /\ t.number = task[w].number
  BY <1>1 DEF Task
<1>6. task'[w] = t
  BY <1>1, <1>3, <1>4, BecomeTypes
<1>7. (LeaseValid(w)' <=> LeaseValid(w)) /\ (Mine(w) => Mine(w)')
  BY <1>5, <1>6 DEF LeaseValid, Mine
<1>8. TaskInv(w)'
  <2>1. CASE pc = "settle"
    BY <1>1, <1>2, <1>5, <1>6, <1>7, <2>1 DEF TaskInv, Holding, Executing, Failing
  <2>2. CASE pc = "failSettle"
    BY <1>1, <1>2, <1>5, <1>6, <1>7, <2>2 DEF TaskInv, Holding, Executing, Failing
  <2> QED
    BY <2>1, <2>2
<1>9. task[w].pc \notin {"idle", "closing"} /\ pc # "idle"
  BY DEF Executing, Failing
<1>10. /\ conv' \in [status: {"active", "blocked"}, next: 1..(MaxRuns + 1)]
       /\ conv'.next = conv.next /\ disturbances' \in 0..MaxDisturbances
  BY <1>1 DEF TypeOK
<1> QED
  BY <1>3, <1>4, <1>5, <1>8, <1>9, <1>10, TaskMoveKeeps

(* What has asked is finite.                                               *)
LEMMA AskedFinite == IsFiniteSet(Asked)
<1>1. IsFiniteSet(Seqs) /\ IsFiniteSet(Numbers)
  BY NumberTypes, FS_Interval
<1>2. IsFiniteSet(Seqs \X Numbers)
  BY <1>1, FS_Product
<1>3. Asked \in SUBSET (Seqs \X Numbers)
  BY DEF Asked
<1> QED
  BY <1>2, <1>3, FS_Subset

(* Every Attempt of a QUEUED Run has asked, so that there are no more of   *)
(* them than questions, and there is a number left for the next one.       *)
LEMMA NumberLeft ==
    ASSUME IInv, NEW s \in Seqs, run[s].status = "queued"
    PROVE  run[s].count \in Nat /\ run[s].count + 1 \in Numbers
<1> DEFINE k == run[s].count
           S == {s} \X (1..k)
<1>1. TypeOK /\ RunInv(s) /\ AskInv /\ run[s] \in RunRecord
  BY RowTypes DEF IInv
<1>2. k \in NumberOrNone /\ k \in Nat /\ k <= MaxAttempts
  BY <1>1, NumberTypes DEF RunRecord
<1>3. S \in SUBSET Asked
  <2> SUFFICES ASSUME NEW n \in 1..k PROVE <<s, n>> \in Asked
    OBVIOUS
  <2>1. n \in Numbers /\ (n < k \/ n = k)
    BY <1>2, NumberTypes
  <2>2. action[s][n] # "none"
    BY <1>1, <2>1 DEF RunInv
  <2> QED
    BY <2>1, <2>2 DEF Asked
<1>4. Cardinality(S) = k
  <2>1. IsFiniteSet({s}) /\ Cardinality({s}) = 1
    BY FS_Singleton
  <2>2. IsFiniteSet(1..k) /\ Cardinality(1..k) = k
    <3>1. ASSUME NEW m \in Nat PROVE IsFiniteSet(1..m) /\ Cardinality(1..m) = m
      <4>1. /\ IsFiniteSet(1..m)
            /\ Cardinality(1..m) = IF 1 > m THEN 0 ELSE m - 1 + 1
        BY FS_Interval
      <4> QED
        BY <4>1
    <3> QED
      BY <1>2, <3>1
  <2>3. Cardinality(S) = Cardinality({s}) * Cardinality(1..k)
    BY <2>1, <2>2, FS_Product
  <2> HIDE DEF S
  <2> QED
    BY <1>2, <2>1, <2>2, <2>3
<1>5. k <= MaxAsks
  <2>1. Cardinality(S) <= Cardinality(Asked) /\ Cardinality(Asked) \in Nat
    BY <1>3, AskedFinite, FS_Subset, FS_CardinalityType
  <2> HIDE DEF S
  <2> QED
    BY <1>1, <1>2, <1>4, <2>1, ConstantsAssumption DEF AskInv
<1> QED
  BY <1>2, <1>5, NumberTypes, ConstantsAssumption

(* The first QUEUED Run is one.                                            *)
LEMMA FirstQueued ==
    ASSUME With("queued") # {}
    PROVE  /\ First \in Seqs /\ run[First].status = "queued"
           /\ \A t \in Seqs : run[t].status = "queued" => First <= t
<1> DEFINE Q == With("queued")
           R == OpToRel(<, Nat)
<1>1. Q \subseteq Nat /\ Q # {}
  BY NumberTypes DEF With
<1>2. \E s \in Q : \A t \in Q : s <= t
  <2>1. IsWellFoundedOn(R, Nat)
    BY NatLessThanWellFounded
  <2> HIDE DEF R, Q
  <2>2. PICK s \in Q : \A t \in Q : <<t, s>> \notin R
    BY <1>1, <2>1, WFMin
  <2>3. \A t \in Q : s \in Nat /\ t \in Nat /\ ~(t < s)
    BY <1>1, <2>2 DEF R, OpToRel
  <2> QED
    BY <2>3
<1> QED
  BY <1>2 DEF First, With

(* Serving: what is read of the first QUEUED Run is what begin_attempt     *)
(* will find, as long as the lease is valid.                               *)
LEMMA ServeKeeps ==
    ASSUME IInv, NEW w \in Workers, Serve(w)
    PROVE  IInv'
<1>1. TypeOK /\ task[w] \in Task
  BY RowTypes DEF IInv
<1>2. /\ UNCHANGED <<conv, run, attempt, action, lease, blocker, disturbances>>
      /\ task[w].pc \in {"serve", "executed"}
  BY DEF Serve
<1>3. /\ conv' \in [status: {"active", "blocked"}, next: 1..(MaxRuns + 1)]
      /\ conv'.next = conv.next /\ disturbances' \in 0..MaxDisturbances
  BY <1>1, <1>2 DEF TypeOK
<1>4. CASE \E pc \in {"serve", "closing"} : Return(w, pc)
  BY <1>2, <1>3, <1>4, MoveKeeps
<1>5. CASE /\ Runnable
           /\ Become(w, [task[w] EXCEPT !.pc = "begin", !.seq = First,
                                        !.readRun = run[First],
                                        !.number = run[First].count + 1])
  <2>1. PICK s \in Seqs : /\ s = First /\ run[s].status = "queued"
                          /\ \A t \in Seqs : run[t].status = "queued" => s <= t
    BY <1>5, FirstQueued DEF Runnable
  <2>2. run[s].count + 1 \in Numbers /\ run[s].count \in Nat
    BY <2>1, NumberLeft
  <2> DEFINE t == [task[w] EXCEPT !.pc = "begin", !.seq = s, !.readRun = run[s],
                                  !.number = run[s].count + 1]
  <2>3. t \in Task
    <3>1. run[s] \in RunRecord /\ "begin" \in TaskPc
      BY <1>1, RowTypes DEF TaskPc
    <3>2. run[s].count + 1 \in NumberOrNone /\ s \in 0..MaxRuns
      BY <2>2, NumberTypes
    <3> QED
      BY <1>1, <3>1, <3>2 DEF Task
  <2>4. Become(w, t)
    BY <1>5, <2>1
  <2>5. /\ t.pc = "begin" /\ t.token = task[w].token /\ t.seq = s
        /\ t.readRun = run[s] /\ t.number = run[s].count + 1
    BY <1>1 DEF Task
  <2>6. task'[w] = t
    BY <1>1, <2>3, <2>4, BecomeTypes
  <2>7. \A r \in Seqs : run[r].status \notin {"running", "waiting"}
    BY <1>5 DEF Runnable, With
  <2> HIDE DEF t
  <2>8. TaskInv(w)'
    BY <1>2, <2>1, <2>2, <2>5, <2>6, <2>7 DEF TaskInv, Holding, Executing, Failing
  <2> QED
    BY <1>2, <1>3, <2>3, <2>4, <2>5, <2>8, TaskMoveKeeps
<1> QED
  BY <1>4, <1>5 DEF Serve, Close

(* The other moves.                                                        *)
LEMMA MovesKeep ==
    ASSUME IInv, NEW w \in Workers,
           \/ BuildFails(w) \/ BeginRefused(w) \/ AskedTurnEnds(w) \/ ExecuteFails(w)
           \/ Finish(w) \/ SettleRefused(w) \/ Report(w) \/ ReadForFailure(w)
           \/ FailureRefused(w) \/ Block(w) \/ BlockRefused(w)
           \/ TaskCancelled(w) \/ LostLeaseNoticed(w)
    PROVE  IInv'
<1> DEFINE s == task[w].seq
           Typed == /\ conv' \in [status: {"active", "blocked"}, next: 1..(MaxRuns + 1)]
                    /\ conv'.next = conv.next /\ disturbances' \in 0..MaxDisturbances
<1>1. TypeOK /\ task[w] \in Task /\ TaskInv(w)
  BY RowTypes DEF IInv
<1>2. UNCHANGED conv => conv' \in [status: {"active", "blocked"}, next: 1..(MaxRuns + 1)]
                        /\ conv'.next = conv.next
  BY <1>1 DEF TypeOK
<1>3. UNCHANGED disturbances \/ Disturb => disturbances' \in 0..MaxDisturbances
  BY <1>1, ConstantsAssumption DEF Disturb, TypeOK
<1>4. \/ UNCHANGED <<conv, run, attempt, action, lease, blocker, disturbances>>
      \/ UNCHANGED <<conv, run, attempt, action, lease, blocker>> /\ Disturb
      \/ Block(w)
  BY DEF BuildFails, BeginRefused, AskedTurnEnds, ExecuteFails, Finish, SettleRefused,
     Report, ReadForFailure, FailureRefused, BlockRefused, TaskCancelled, LostLeaseNoticed
<1>5. UNCHANGED <<run, attempt, action, lease, blocker>> /\ Typed
  <2>1. CASE Block(w)
    BY <1>1, <1>3, <2>1 DEF Block, TypeOK
  <2> QED
    BY <1>2, <1>3, <1>4, <2>1
<1>6. task[w].pc \notin {"idle", "closing"}
  BY DEF BuildFails, BeginRefused, AskedTurnEnds, ExecuteFails, Finish, SettleRefused,
     Report, ReadForFailure, FailureRefused, Block, BlockRefused, TaskCancelled, LostLeaseNoticed
<1>7. ASSUME \/ \E pc \in {"serve", "executed", "closing"} : Return(w, pc)
             \/ Goto(w, "block")
      PROVE  IInv'
  BY <1>5, <1>6, <1>7, MoveKeeps
<1>8. CASE BuildFails(w) \/ AskedTurnEnds(w) \/ FailureRefused(w) \/ Block(w)
           \/ BlockRefused(w) \/ TaskCancelled(w) \/ LostLeaseNoticed(w)
  BY <1>7, <1>8 DEF BuildFails, AskedTurnEnds, FailureRefused, Block, BlockRefused,
     TaskCancelled, LostLeaseNoticed, Close
<1>9. CASE BeginRefused(w)
  <2>1. CASE Return(w, "executed")
    BY <1>7, <2>1
  <2>2. CASE LeaseValid(w) /\ run[s] # task[w].readRun /\ Goto(w, "fail")
    <3>1. task[w].pc \in Holding /\ run[s].status = "cancelled"
      BY <1>1, <1>9, <2>2 DEF BeginRefused, TaskInv, Holding, Executing, Failing
    <3>2. UNCHANGED <<conv, run, attempt, action, lease, blocker, disturbances>>
      BY <1>9 DEF BeginRefused
    <3> QED
      BY <2>2, <3>1, <3>2, FailKeeps
  <2> QED
    BY <1>9, <2>1, <2>2 DEF BeginRefused
<1>10. CASE ExecuteFails(w) \/ Report(w) \/ SettleRefused(w)
  <2>1. CASE Return(w, "executed")
    BY <1>7, <2>1
  <2>2. CASE Goto(w, "fail")
    <3>1. task[w].pc \in Executing \cup {"report"}
      BY <1>10 DEF ExecuteFails, Report, SettleRefused, Executing
    <3>2. /\ task[w].pc \in Holding
          /\ LeaseValid(w) => \/ run[s].status = "cancelled"
                              \/ Mine(w) /\ run[s].status # "failed"
      BY <1>1, <3>1 DEF TaskInv, Holding, Executing, Failing
    <3>3. UNCHANGED <<conv, run, attempt, action, lease, blocker, disturbances>>
      BY <1>10 DEF ExecuteFails, Report, SettleRefused
    <3> QED
      BY <2>2, <3>2, <3>3, FailKeeps
  <2> QED
    BY <1>10, <2>1, <2>2 DEF ExecuteFails, Report, SettleRefused
<1>11. CASE Finish(w)
  <2>1. CASE Return(w, "executed")
    BY <1>7, <2>1
  <2>2. CASE run[s].status # "cancelled" /\ ReadRows(w, "settle")
    <3>1. /\ task[w].pc \in Executing
          /\ UNCHANGED <<conv, run, attempt, action, lease, blocker, disturbances>>
      BY <1>11 DEF Finish, Executing
    <3> QED
      BY <2>2, <3>1, ReadKeeps
  <2> QED
    BY <1>11, <2>1, <2>2 DEF Finish
<1>12. CASE ReadForFailure(w)
  <2>1. CASE Goto(w, "block") \/ Close(w)
    BY <1>7, <2>1 DEF Close
  <2>2. CASE run[s].status # "cancelled" /\ ReadRows(w, "failSettle")
    <3>1. /\ task[w].pc \in Failing
          /\ UNCHANGED <<conv, run, attempt, action, lease, blocker, disturbances>>
      BY <1>12 DEF ReadForFailure, Failing
    <3> QED
      BY <2>2, <3>1, ReadKeeps
  <2> QED
    BY <1>12, <2>1, <2>2 DEF ReadForFailure
<1> QED
  BY <1>8, <1>9, <1>10, <1>11, <1>12

(* Before it blocks the Conversation, a task reads it.                     *)
LEMMA ReadForBlockKeeps ==
    ASSUME IInv, NEW w \in Workers, ReadForBlock(w)
    PROVE  IInv'
<1>1. TypeOK /\ task[w] \in Task /\ conv.next \in 0..(MaxRuns + 1)
  BY RowTypes, NumberTypes DEF IInv
<1>2. /\ UNCHANGED <<conv, run, attempt, action, lease, blocker, disturbances>>
      /\ task[w].pc = "block"
  BY DEF ReadForBlock
<1>3. /\ conv' \in [status: {"active", "blocked"}, next: 1..(MaxRuns + 1)]
      /\ conv'.next = conv.next /\ disturbances' \in 0..MaxDisturbances
  BY <1>1, <1>2 DEF TypeOK
<1> DEFINE t == [task[w] EXCEPT !.pc = "blockWrite", !.readNext = conv.next]
<1>4. CASE Become(w, t)
  <2>1. t \in Task /\ t.pc = "blockWrite" /\ t.token = task[w].token
    BY <1>1 DEF Task, TaskPc
  <2>2. task'[w] = t
    BY <1>1, <1>4, <2>1, BecomeTypes
  <2>3. TaskInv(w)'
    BY <2>1, <2>2 DEF TaskInv, Holding, Executing, Failing
  <2> QED
    BY <1>2, <1>3, <1>4, <2>1, <2>3, TaskMoveKeeps
<1>5. CASE Return(w, "executed")
  BY <1>2, <1>3, <1>5, MoveKeeps
<1> QED
  BY <1>4, <1>5 DEF ReadForBlock

-----------------------------------------------------------------------------
(* Tasks and leases that come and go.                                      *)

LeaseRow ==
    [holder: Workers \cup {NoWorker}, token: Nat, live: BOOLEAN, stalled: BOOLEAN]

(* The table of tasks and the lease are all that changes.                  *)
LEMMA LeaseStepTypes ==
    ASSUME TypeOK, UNCHANGED <<conv, run, attempt, action, blocker>>,
           UNCHANGED disturbances \/ Disturb,
           task' \in [Workers -> Task],
           lease' \in LeaseRow
    PROVE  TypeOK'
<1>1. disturbances' \in 0..MaxDisturbances
  BY ConstantsAssumption DEF TypeOK, Disturb
<1> QED
  BY <1>1 DEF TypeOK, LeaseRow

(* An idle task knows nothing and is one of the tasks there are.           *)
LEMMA NoTaskType == NoTask \in Task /\ NoTask.pc = "idle" /\ NoTask.token = 0
<1>1. NoRun \in RunRecord /\ NoAttempt \in RunAttempt /\ 0 \in 0..MaxRuns /\ 0 \in 0..(MaxRuns + 1)
  BY NumberTypes, ConstantsAssumption DEF NoRun, RunRecord, RunStatus, NoAttempt,
     RunAttempt, DispatchState
<1> QED
  BY <1>1, NumberTypes DEF NoTask, Task, TaskPc

(* A claim: nobody holds a valid lease before.                             *)
LEMMA ClaimKeeps ==
    ASSUME IInv, NEW w \in Workers, Claim(w) \/ ClaimAndHandBack(w)
    PROVE  IInv'
<1>0. lease \in LeaseRow
  BY DEF IInv, TypeOK, LeaseRow
<1>1. TypeOK /\ LeaseInv /\ lease.token \in Nat
  BY RowTypes DEF IInv
<1>2. /\ UNCHANGED <<conv, run, attempt, action, blocker>>
      /\ UNCHANGED disturbances \/ Disturb
  BY DEF Claim, ClaimAndHandBack
<1>3. \A v \in Workers : ~LeaseValid(v)
  BY DEF Claim, ClaimAndHandBack, Claimable, LeaseValid
<1>4. CASE Claim(w)
  <2> DEFINE t == [NoTask EXCEPT !.pc = "serve", !.token = lease.token + 1]
  <2>1. t \in Task /\ t.pc = "serve" /\ t.token = lease.token + 1
    <3>1. lease.token + 1 \in Nat /\ "serve" \in TaskPc
      BY <1>1 DEF TaskPc
    <3> QED
      BY <3>1, NoTaskType DEF Task
  <2>2. /\ task' \in [Workers -> Task] /\ task'[w] = t
        /\ \A v \in Workers : v # w => task'[v] = task[v]
    BY <1>1, <1>4, <2>1, BecomeTypes DEF Claim
  <2>3. /\ lease' \in LeaseRow
        /\ lease'.holder = w /\ lease'.token = lease.token + 1 /\ lease'.live
        /\ lease'.stalled = lease.stalled
    <3>1. lease' = [lease EXCEPT !.holder = w, !.token = lease.token + 1, !.live = TRUE]
      BY <1>4 DEF Claim
    <3>2. lease.token + 1 \in Nat
      BY <1>1
    <3> QED
      BY <1>0, <3>1, <3>2 DEF LeaseRow
  <2> HIDE DEF t
  <2>4. TypeOK'
    BY <1>1, <1>2, <2>2, <2>3, LeaseStepTypes
  <2>5. LeaseInv'
    BY <1>1, <1>3, <2>1, <2>2, <2>3 DEF LeaseInv, LeaseValid
  <2>6. TaskInv(w)'
    BY <2>1, <2>2 DEF TaskInv, Holding, Executing, Failing
  <2>7. \A v \in Workers : v # w => ~LeaseValid(v)'
    BY <1>4, <2>3 DEF Claim, LeaseValid
  <2> QED
    BY <1>2, <2>2, <2>4, <2>5, <2>6, <2>7, RowsStayKeeps
<1>5. CASE ClaimAndHandBack(w)
  <2>1. UNCHANGED task
    BY <1>5 DEF ClaimAndHandBack
  <2>2. /\ lease' \in LeaseRow
        /\ ~lease'.live /\ lease'.stalled = lease.stalled
    <3>1. lease' = [lease EXCEPT !.holder = w, !.token = lease.token + 1, !.live = FALSE]
      BY <1>5 DEF ClaimAndHandBack
    <3>2. lease.token + 1 \in Nat
      BY <1>1
    <3> QED
      BY <1>0, <3>1, <3>2 DEF LeaseRow
  <2>3. TypeOK'
    BY <1>1, <1>2, <2>1, <2>2, LeaseStepTypes DEF TypeOK
  <2>4. LeaseInv'
    BY <1>1, <1>3, <2>1, <2>2 DEF LeaseInv
  <2>5. \A v \in Workers : ~LeaseValid(v)'
    BY <2>2 DEF LeaseValid
  <2> QED
    BY <1>2, <2>1, <2>3, <2>4, <2>5, RowsStayKeeps
<1> QED
  BY <1>4, <1>5

(* A task ends, with or without giving its lease back.                     *)
LEMMA EndTaskKeeps ==
    ASSUME IInv, NEW w \in Workers, Release(w) \/ WorkerCrash(w)
    PROVE  IInv'
<1>1. TypeOK /\ LeaseInv /\ lease \in LeaseRow
  BY DEF IInv, TypeOK, LeaseRow
<1>2. /\ UNCHANGED <<conv, run, attempt, action, blocker>>
      /\ UNCHANGED disturbances \/ Disturb
      /\ Become(w, NoTask)
  BY DEF Release, WorkerCrash
<1>3. /\ task' \in [Workers -> Task] /\ task'[w] = NoTask
      /\ \A v \in Workers : v # w => task'[v] = task[v]
  BY <1>1, <1>2, NoTaskType, BecomeTypes
<1>4. /\ lease' \in LeaseRow
      /\ lease'.stalled = lease.stalled
      /\ \A v \in Workers : v # w => (LeaseValid(v)' <=> LeaseValid(v))
  <2>1. CASE lease' = lease
    BY <1>1, <1>3, <2>1 DEF LeaseValid
  <2>2. CASE lease.holder = w /\ lease' = [lease EXCEPT !.live = FALSE]
    <3>1. /\ lease' \in LeaseRow
          /\ lease'.holder = w /\ lease'.stalled = lease.stalled
      BY <1>1, <2>2 DEF LeaseRow
    <3> QED
      BY <2>2, <3>1 DEF LeaseValid
  <2> QED
    BY <2>1, <2>2 DEF Release, WorkerCrash
<1>5. TypeOK'
  BY <1>1, <1>2, <1>3, <1>4, LeaseStepTypes
<1>6. TaskInv(w)'
  BY <1>3, NoTaskType DEF TaskInv, Holding, Executing, Failing
<1>7. LeaseInv'
  BY <1>1, <1>3, <1>4, NoTaskType DEF LeaseInv
<1> QED
  BY <1>2, <1>3, <1>4, <1>5, <1>6, <1>7, RowsStayKeeps

(* The lease expires, under a task or without one.                         *)
LEMMA ExpiryKeeps ==
    ASSUME IInv, LeaseMissed \/ LeaseLapses
    PROVE  IInv'
<1>1. TypeOK /\ LeaseInv /\ lease \in LeaseRow
  BY DEF IInv, TypeOK, LeaseRow
<1>2. /\ UNCHANGED <<conv, run, attempt, action, task, blocker>>
      /\ UNCHANGED disturbances \/ Disturb
  BY DEF LeaseMissed, LeaseLapses
<1>3. lease' \in LeaseRow /\ ~lease'.live
  <2>1. CASE lease' = [lease EXCEPT !.live = FALSE, !.stalled = TRUE]
    BY <1>1, <2>1 DEF LeaseRow
  <2>2. CASE lease' = [lease EXCEPT !.live = FALSE]
    BY <1>1, <2>2 DEF LeaseRow
  <2> QED
    BY <2>1, <2>2 DEF LeaseMissed, LeaseLapses
<1>4. TypeOK'
  BY <1>1, <1>2, <1>3, LeaseStepTypes DEF TypeOK
<1>5. LeaseInv'
  <2>1. CASE LeaseMissed
    <3>1. lease'.stalled
      BY <1>1, <2>1 DEF LeaseMissed, LeaseRow
    <3> QED
      BY <3>1 DEF LeaseInv
  <2>2. CASE LeaseLapses
    <3>1. lease'.stalled = lease.stalled
      BY <1>1, <2>2 DEF LeaseLapses, LeaseRow
    <3> QED
      BY <1>1, <1>2, <2>2, <3>1 DEF LeaseInv, LeaseLapses, Held
  <2> QED
    BY <2>1, <2>2
<1>6. \A v \in Workers : ~LeaseValid(v)'
  BY <1>3 DEF LeaseValid
<1> QED
  BY <1>2, <1>4, <1>5, <1>6, RowsStayKeeps

-----------------------------------------------------------------------------
(* Tasks that write rows: all of it under a valid lease.                   *)

(* No other task is at work on the same Run and thinks that the newest     *)
(* Attempt is its own.                                                     *)
LEMMA OthersKeep ==
    ASSUME IInv, NEW w \in Workers, LeaseValid(w), lease' = lease,
           \A v \in Workers : v # w => task'[v] = task[v],
           NEW s \in Seqs, Elsewhere(s), run'[s].status # "absent",
           run[s].status = "succeeded" => task[w].seq = s /\ Mine(w)
    PROVE  \A v \in Workers : v # w => TaskInv(v)'
<1> SUFFICES ASSUME NEW v \in Workers, v # w PROVE TaskInv(v)'
  OBVIOUS
<1>1. TaskInv(v) /\ task'[v] = task[v] /\ ~LeaseValid(v) /\ ~LeaseValid(v)'
  BY DEF IInv, LeaseValid
<1>2. CASE task[v].seq # s
  BY <1>1, <1>2, TaskApart
<1>3. CASE task[v].seq = s
  <2>1. CASE task[v].pc = "report"
    <3>1. run[s].status = "succeeded" /\ Mine(v)
      BY <1>1, <1>3, <2>1 DEF TaskInv
    <3> QED
      BY <1>3, <3>1 DEF Mine
  <2>2. CASE task[v].pc # "report"
    BY <1>1, <1>3, <2>2 DEF TaskInv, Holding, Executing, Failing
  <2> QED
    BY <2>1, <2>2
<1> QED
  BY <1>2, <1>3

(* begin_attempt: the Run that was read is still the first QUEUED one, and *)
(* none is being served.                                                   *)
LEMMA BeginKeeps ==
    ASSUME IInv, NEW w \in Workers, BeginAttempt(w)
    PROVE  IInv'
<1>1. TypeOK /\ task[w] \in Task /\ TaskInv(w) /\ LeaseValid(w)
  BY RowTypes DEF IInv, BeginAttempt
<1>2. PICK s \in Seqs, n \in Numbers :
         /\ s = task[w].seq /\ n = task[w].number
         /\ run[s].status = "queued" /\ n = run[s].count + 1
         /\ \A r \in Seqs : run[r].status \notin {"running", "waiting"}
  BY <1>1 DEF BeginAttempt, TaskInv, Holding
<1>3. RunInv(s) /\ run[s] \in RunRecord /\ run[s].count \in Nat
  BY <1>1, <1>2, RowTypes, NumberLeft DEF IInv
<1> DEFINE row == [run[s] EXCEPT !.status = "running", !.count = n,
                                 !.active = n, !.required = 0]
           att == [NoAttempt EXCEPT !.status = "running", !.worker = w,
                                    !.token = task[w].token]
           k == run[s].count
<1>4. /\ row \in RunRecord /\ row.status = "running" /\ row.count = n
      /\ row.active = n /\ row.required = 0
  <2>1. n \in NumberOrNone /\ 0 \in NumberOrNone /\ "running" \in RunStatus
    BY NumberTypes DEF RunStatus
  <2> QED
    BY <1>3, <2>1 DEF RunRecord
<1>5. /\ att \in RunAttempt /\ att.status = "running" /\ att.worker = w
      /\ att.token = task[w].token
  <2>1. task[w].token \in Nat
    BY <1>1 DEF Task
  <2> QED
    BY <2>1 DEF NoAttempt, RunAttempt, AttemptStatus, DispatchState
<1>6. /\ ReplaceRun(s, row) /\ ReplaceAttempt(s, n, att) /\ Goto(w, "started")
      /\ UNCHANGED <<conv, lease, blocker, disturbances>>
  BY <1>2 DEF BeginAttempt, ReplaceAttempt
<1>7. k > 0 => k \in Numbers /\ run[s].required = k /\ action[s][k] = "answered"
               /\ attempt[s][k].status = "waiting"
  <2>1. k > 0 => k \in Numbers
    BY <1>2, <1>3, NumberTypes
  <2> QED
    BY <1>2, <1>3, <2>1 DEF RunInv
<1>8. /\ action' \in [Seqs -> [Numbers -> RequiredActionStatus \cup {"none"}]]
      /\ \A r \in Seqs : r # s => action'[r] = action[r]
      /\ \A m \in Numbers : m # k => action'[s][m] = action[s][m]
      /\ k > 0 => action'[s][k] = "consumed"
  <2>1. CASE k = 0
    <3>1. UNCHANGED action
      BY <1>2, <1>3, <2>1 DEF BeginAttempt, RunInv
    <3> QED
      BY <1>1, <2>1, <3>1 DEF TypeOK
  <2>2. CASE k > 0
    <3>1. SetAction(s, k, "consumed") /\ "consumed" \in RequiredActionStatus
      BY <1>2, <1>7, <2>2 DEF BeginAttempt, RequiredActionStatus
    <3> HIDE DEF k
    <3> QED
      BY <1>1, <1>7, <2>2, <3>1, ReplaceTypes
  <2> QED
    BY <1>3, <2>1, <2>2
<1>9. /\ run' \in [Seqs -> RunRecord] /\ run'[s] = row
      /\ \A t \in Seqs : t # s => run'[t] = run[t]
  BY <1>1, <1>4, <1>6, ReplaceTypes
<1>10. /\ attempt' \in [Seqs -> [Numbers -> RunAttempt]] /\ attempt'[s][n] = att
       /\ \A m \in Numbers : m # n => attempt'[s][m] = attempt[s][m]
       /\ \A t \in Seqs : t # s => attempt'[t] = attempt[t]
  BY <1>1, <1>5, <1>6, ReplaceTypes
<1>11. /\ task' \in [Workers -> Task]
       /\ \A v \in Workers : v # w => task'[v] = task[v]
       /\ task'[w].pc = "started" /\ task'[w].token = task[w].token
       /\ task'[w].seq = s /\ task'[w].number = n
  <2>1. "started" \in TaskPc
    BY DEF TaskPc
  <2>2. /\ task' \in [Workers -> Task]
        /\ task'[w] = [task[w] EXCEPT !.pc = "started", !.readRun = NoRun,
                                      !.readAttempt = NoAttempt, !.readNext = 0]
        /\ \A v \in Workers : v # w => task'[v] = task[v]
    BY <1>1, <1>6, <2>1, MoveTypes
  <2> QED
    BY <1>1, <1>2, <2>2 DEF Task
<1> HIDE DEF row, att, k
<1>12. TypeOK'
  BY <1>1, <1>6, <1>8, <1>9, <1>10, <1>11 DEF TypeOK
<1>13. Elsewhere(s)
  BY <1>8, <1>9, <1>10 DEF Elsewhere
<1>14. RunInv(s)'
  <2>1. k \in Nat /\ n = k + 1 /\ n \in Nat
    BY <1>2, <1>3, NumberTypes DEF k
  <2>2. ASSUME NEW m \in Numbers
        PROVE  /\ m > n <=> attempt'[s][m].status = "none"
               /\ m > n => action'[s][m] = "none"
               /\ m < n => attempt'[s][m].status = "waiting" /\ action'[s][m] = "consumed"
    <3>1. CASE m = n
      BY <1>5, <1>10, <2>1, <3>1
    <3>2. CASE m = k
      BY <1>7, <1>8, <1>10, <2>1, <3>2, NumberTypes
    <3>3. CASE m # n /\ m # k
      <4>1. m \in Nat /\ (m > n <=> m > k) /\ (m < n <=> m < k)
        BY <2>1, <3>3, NumberTypes
      <4> QED
        BY <1>3, <1>8, <1>10, <3>3, <4>1 DEF RunInv, k
    <3> QED
      BY <3>1, <3>2, <3>3
  <2>3. action'[s][n] = "none"
    <3>1. n > k /\ n # k
      BY <2>1
    <3> QED
      BY <1>3, <1>8, <3>1 DEF RunInv, k
  <2>4. n > 0
    BY <2>1
  <2> QED
    BY <1>4, <1>5, <1>9, <1>10, <2>2, <2>3, <2>4 DEF RunInv
<1>15. \A r \in Seqs : RunInv(r)'
  BY <1>13, <1>14, RunsStay DEF IInv
<1>16. QueueInv'
  BY <1>2, <1>4, <1>6, <1>9 DEF IInv, QueueInv
<1>17. AskInv'
  <2>1. \A m \in Numbers : action'[s][m] = "none" <=> action[s][m] = "none"
    BY <1>3, <1>7, <1>8, NumberTypes DEF k
  <2> QED
    BY <1>13, <2>1, AsksStay DEF IInv
<1>18. \A v \in Workers : v # w => TaskInv(v)'
  <2>1. run'[s].status # "absent"
    BY <1>4, <1>9
  <2> QED
    BY <1>1, <1>2, <1>6, <1>11, <1>13, <2>1, OthersKeep
<1>19. TaskInv(w)'
  <2>1. Mine(w)'
    BY <1>4, <1>5, <1>9, <1>10, <1>11 DEF Mine
  <2> QED
    BY <1>4, <1>9, <1>11, <2>1 DEF TaskInv, Holding, Executing, Failing
<1>20. LeaseInv'
  <2>1. task[w].pc \notin {"idle", "closing"}
    BY DEF BeginAttempt
  <2> QED
    BY <1>6, <1>11, <2>1, LeaseStays DEF IInv
<1> QED
  BY <1>12, <1>15, <1>16, <1>17, <1>18, <1>19, <1>20 DEF IInv

(* The task that writes moves on, with what it knows about its Run.        *)
LEMMA MovedOn ==
    ASSUME TypeOK, NEW w \in Workers, NEW pc \in TaskPc, Goto(w, pc)
    PROVE  /\ task' \in [Workers -> Task]
           /\ \A v \in Workers : v # w => task'[v] = task[v]
           /\ task'[w].pc = pc /\ task'[w].token = task[w].token
           /\ task'[w].seq = task[w].seq /\ task'[w].number = task[w].number
<1>1. /\ task' \in [Workers -> Task]
      /\ task'[w] = [task[w] EXCEPT !.pc = pc, !.readRun = NoRun,
                                    !.readAttempt = NoAttempt, !.readNext = 0]
      /\ \A v \in Workers : v # w => task'[v] = task[v]
  BY MoveTypes
<1>2. task[w] \in Task
  BY RowTypes
<1> QED
  BY <1>1, <1>2 DEF Task

(* The dispatch state is nobody's business but the documents'.             *)
LEMMA DispatchKeeps ==
    ASSUME IInv, NEW w \in Workers, Dispatch(w) \/ Accept(w)
    PROVE  IInv'
<1>1. TypeOK /\ task[w] \in Task /\ TaskInv(w)
  BY RowTypes DEF IInv
<1>2. PICK state \in {"dispatching", "accepted"}, pc \in {"dispatched", "accepted"} :
         SetDispatchState(w, state, pc)
  BY DEF Dispatch, Accept
<1>3. /\ UNCHANGED <<conv, run, action, lease, blocker, disturbances>>
      /\ task[w].pc \in {"started", "dispatched"}
  BY DEF Dispatch, Accept
<1>4. PICK s \in Seqs, n \in Numbers : s = task[w].seq /\ n = task[w].number
  BY <1>1, <1>3 DEF TaskInv, Holding, Executing
<1>5. pc \in TaskPc /\ state \in DispatchState
  BY DEF TaskPc, DispatchState
<1>6. /\ conv' \in [status: {"active", "blocked"}, next: 1..(MaxRuns + 1)]
      /\ conv'.next = conv.next /\ disturbances' \in 0..MaxDisturbances
  BY <1>1, <1>3 DEF TypeOK
<1>7. CASE Return(w, "executed") /\ UNCHANGED attempt
  BY <1>3, <1>6, <1>7, MoveKeeps
<1>8. CASE Goto(w, pc)
  <2>1. /\ task' \in [Workers -> Task]
        /\ \A v \in Workers : v # w => task'[v] = task[v]
        /\ task'[w].pc = pc /\ task'[w].token = task[w].token
        /\ task'[w].seq = s /\ task'[w].number = n
    BY <1>1, <1>4, <1>5, <1>8, MovedOn
  <2>2. LeaseValid(w) => /\ Mine(w) /\ n = run[s].count
                         /\ run[s].status \notin {"succeeded", "failed"}
    BY <1>1, <1>3, <1>4 DEF TaskInv, Executing, Mine
  <2>3. LeaseValid(w)' <=> LeaseValid(w)
    BY <1>3, <2>1 DEF LeaseValid
  <2>4. LeaseInv'
    BY <1>3, <2>1, LeaseStays DEF IInv
  <2>5. ASSUME LeaseValid(w) => Mine(w)' PROVE TaskInv(w)'
    BY <1>1, <1>3, <1>4, <2>1, <2>2, <2>3, <2>5 DEF TaskInv, Holding, Executing, Failing
  <2>6. CASE UNCHANGED attempt
    <3>1. LeaseValid(w) => Mine(w)'
      BY <1>3, <1>4, <2>1, <2>2, <2>6 DEF Mine
    <3>2. TypeOK'
      BY <1>1, <1>3, <2>1, <2>6 DEF TypeOK
    <3>3. \A v \in Workers : \/ TaskInv(v)'
                             \/ task'[v] = task[v] /\ (LeaseValid(v)' => LeaseValid(v))
      BY <1>3, <2>1, <2>5, <3>1 DEF LeaseValid
    <3> QED
      BY <1>3, <2>4, <2>6, <3>2, <3>3, RowsStayKeeps
  <2>7. CASE /\ attempt[s][n].status = "running" /\ LeaseValid(w)
             /\ ReplaceAttempt(s, n, [attempt[s][n] EXCEPT !.dispatch = state])
    <3> DEFINE att == [attempt[s][n] EXCEPT !.dispatch = state]
    <3>1. attempt[s][n] \in RunAttempt /\ att \in RunAttempt
      BY <1>1, <1>4, <1>5, RowTypes, ReplacedRows
    <3>2. /\ attempt' \in [Seqs -> [Numbers -> RunAttempt]] /\ attempt'[s][n] = att
          /\ \A m \in Numbers : m # n => attempt'[s][m] = attempt[s][m]
          /\ \A t \in Seqs : t # s => attempt'[t] = attempt[t]
      BY <1>1, <2>7, <3>1, ReplaceTypes
    <3>3. /\ att.status = attempt[s][n].status /\ att.worker = attempt[s][n].worker
          /\ att.token = attempt[s][n].token
      BY <3>1 DEF RunAttempt
    <3>4. \A m \in Numbers : /\ attempt'[s][m].status = attempt[s][m].status
                             /\ attempt'[s][m].worker = attempt[s][m].worker
                             /\ attempt'[s][m].token = attempt[s][m].token
      BY <3>2, <3>3
    <3> HIDE DEF att
    <3>5. TypeOK'
      BY <1>1, <1>3, <2>1, <3>2 DEF TypeOK
    <3>6. Elsewhere(s)
      BY <1>3, <3>2 DEF Elsewhere
    <3>7. RunInv(s) /\ run[s] \in RunRecord /\ run[s].status = "running"
      <4>1. RunInv(s) /\ run[s] \in RunRecord
        BY <1>1, RowTypes DEF IInv
      <4>2. run[s].status \in {"queued", "running", "waiting", "cancelled"}
        BY <1>1, <1>3, <1>4, <2>2, <2>7, <4>1 DEF TaskInv, Holding, Executing, RunRecord, RunStatus
      <4> QED
        BY <2>2, <2>7, <4>1, <4>2, NumberTypes DEF RunInv
    <3>8. RunInv(s)'
      <4>1. run'[s] = run[s] /\ action'[s] = action[s]
        BY <1>3
      <4> QED
        BY <2>2, <2>7, <3>4, <3>7, <4>1 DEF RunInv
    <3>9. \A r \in Seqs : RunInv(r)'
      BY <3>6, <3>8, RunsStay DEF IInv
    <3>10. QueueInv' /\ AskInv'
      BY <1>3 DEF IInv, QueueInv, AskInv, Asked
    <3>11. TaskInv(w)'
      <4>1. Mine(w)'
        BY <1>3, <1>4, <2>1, <2>2, <2>7, <3>4 DEF Mine
      <4> QED
        BY <2>5, <4>1
    <3>12. \A v \in Workers : v # w => TaskInv(v)'
      BY <1>3, <1>4, <2>1, <2>2, <2>7, <3>6, <3>7, OthersKeep
    <3> QED
      BY <2>4, <3>5, <3>9, <3>10, <3>11, <3>12 DEF IInv
  <2> QED
    BY <1>2, <1>4, <1>8, <2>6, <2>7, <1>7 DEF SetDispatchState
<1> QED
  BY <1>2, <1>7, <1>8 DEF SetDispatchState

(* ask_user: the Run waits for the answer to a question nobody asked       *)
(* before.                                                                 *)
LEMMA AskKeeps ==
    ASSUME IInv, NEW w \in Workers, AskUser(w)
    PROVE  IInv'
<1>1. TypeOK /\ task[w] \in Task /\ TaskInv(w) /\ LeaseValid(w)
  BY RowTypes DEF IInv, AskUser
<1>2. PICK s \in Seqs, n \in Numbers : s = task[w].seq /\ n = task[w].number
  BY <1>1 DEF AskUser, TaskInv, Holding, Executing, Failing
<1>3. /\ Mine(w) /\ n = run[s].count /\ run[s].status = "running"
      /\ run[s].active = n /\ attempt[s][n].status = "running"
  BY <1>1, <1>2 DEF AskUser, TaskInv, Executing, Failing, Mine
<1>4. RunInv(s) /\ run[s] \in RunRecord /\ attempt[s][n] \in RunAttempt /\ action[s][n] = "none"
  <2>1. RunInv(s) /\ run[s] \in RunRecord /\ attempt[s][n] \in RunAttempt
    BY <1>1, RowTypes DEF IInv
  <2> QED
    BY <1>3, <2>1 DEF RunInv
<1> DEFINE row == [run[s] EXCEPT !.status = "waiting", !.required = n]
           att == [attempt[s][n] EXCEPT !.status = "waiting", !.dispatch = "settled"]
<1>5. row \in RunRecord /\ att \in RunAttempt /\ "pending" \in RequiredActionStatus
  BY <1>1, ReplacedRows DEF RunStatus, AttemptStatus, DispatchState, RequiredActionStatus
<1>6. /\ ReplaceRun(s, row) /\ ReplaceAttempt(s, n, att) /\ SetAction(s, n, "pending")
      /\ UNCHANGED <<conv, lease, task, blocker, disturbances>>
  BY <1>2 DEF AskUser
<1>7. /\ run' \in [Seqs -> RunRecord] /\ run'[s] = row
      /\ \A t \in Seqs : t # s => run'[t] = run[t]
  BY <1>1, <1>5, <1>6, ReplaceTypes
<1>8. /\ attempt' \in [Seqs -> [Numbers -> RunAttempt]] /\ attempt'[s][n] = att
      /\ \A m \in Numbers : m # n => attempt'[s][m] = attempt[s][m]
      /\ \A t \in Seqs : t # s => attempt'[t] = attempt[t]
  BY <1>1, <1>5, <1>6, ReplaceTypes
<1>9. /\ action' \in [Seqs -> [Numbers -> RequiredActionStatus \cup {"none"}]]
      /\ action'[s][n] = "pending"
      /\ \A m \in Numbers : m # n => action'[s][m] = action[s][m]
      /\ \A t \in Seqs : t # s => action'[t] = action[t]
  BY <1>1, <1>5, <1>6, ReplaceTypes
<1>10. (LeaseValid(w)' <=> LeaseValid(w)) /\ task'[w] = task[w]
  BY <1>6 DEF LeaseValid
<1>11. /\ row.status = "waiting" /\ row.count = n /\ row.active = n /\ row.required = n
       /\ att.status = "waiting" /\ att.worker = attempt[s][n].worker
       /\ att.token = attempt[s][n].token
  BY <1>3, <1>4 DEF RunRecord, RunAttempt
<1> HIDE DEF row, att
<1>12. TypeOK'
  BY <1>1, <1>6, <1>7, <1>8, <1>9 DEF TypeOK
<1>13. Elsewhere(s)
  BY <1>7, <1>8, <1>9 DEF Elsewhere
<1>14. RunInv(s)'
  <2>1. n \in Nat /\ n > 0
    BY NumberTypes
  <2>2. ASSUME NEW m \in Numbers
        PROVE  /\ m > n <=> attempt'[s][m].status = "none"
               /\ m > n => action'[s][m] = "none"
               /\ m < n => attempt'[s][m].status = "waiting" /\ action'[s][m] = "consumed"
    <3>1. CASE m = n
      BY <1>8, <1>11, <2>1, <3>1
    <3>2. CASE m # n
      BY <1>3, <1>4, <1>8, <1>9, <3>2 DEF RunInv
    <3> QED
      BY <3>1, <3>2
  <2> QED
    BY <1>7, <1>8, <1>9, <1>11, <2>1, <2>2 DEF RunInv
<1>15. \A r \in Seqs : RunInv(r)'
  BY <1>13, <1>14, RunsStay DEF IInv
<1>16. QueueInv'
  BY <1>3, <1>6, <1>7, <1>11, <1>13, QueueStays DEF IInv
<1>17. AskInv'
  <2>1. Asked' = Asked \cup {<<s, n>>}
    <3>1. ASSUME NEW q \in Seqs \X Numbers
          PROVE  q \in Asked' <=> q \in Asked \/ q = <<s, n>>
      <4>1. PICK t \in Seqs, m \in Numbers : q = <<t, m>>
        OBVIOUS
      <4>2. (q \in Asked' <=> action'[t][m] # "none") /\ (q \in Asked <=> action[t][m] # "none")
        BY <4>1 DEF Asked
      <4> QED
        BY <1>9, <4>1, <4>2
    <3>2. Asked \subseteq Seqs \X Numbers /\ Asked' \subseteq Seqs \X Numbers
      BY DEF Asked
    <3> QED
      BY <3>1, <3>2
  <2>2. <<s, n>> \notin Asked
    BY <1>4 DEF Asked
  <2>3. Cardinality(Asked') = Cardinality(Asked) + 1
    BY <2>1, <2>2, AskedFinite, FS_AddElement
  <2>4. Cardinality(Asked) < MaxAsks /\ Cardinality(Asked) \in Nat
    BY AskedFinite, FS_CardinalityType DEF AskUser, Asked
  <2> QED
    BY <2>3, <2>4, ConstantsAssumption DEF AskInv
<1>18. \A v \in Workers : v # w => TaskInv(v)'
  BY <1>1, <1>3, <1>6, <1>7, <1>11, <1>13, OthersKeep
<1>19. TaskInv(w)'
  <2>1. Mine(w)'
    BY <1>2, <1>3, <1>7, <1>8, <1>10, <1>11 DEF Mine
  <2>2. task[w].pc \in (Executing \cup Failing) \ {"started"}
    BY DEF AskUser, Executing, Failing
  <2> QED
    BY <1>1, <1>2, <1>7, <1>10, <1>11, <2>1, <2>2 DEF TaskInv, Holding, Executing, Failing
<1>20. LeaseInv'
  BY <1>6, LeaseStays DEF IInv
<1> QED
  BY <1>12, <1>15, <1>16, <1>17, <1>18, <1>19, <1>20 DEF IInv

(* settle_attempt finds the Run of the task's Attempt: one that is under   *)
(* way, one that has asked or been answered behind its Worker's back, or   *)
(* one whose success could not be reported.                                *)
LEMMA SettledRun ==
    ASSUME IInv, NEW w \in Workers, SettleSuccess(w) \/ SettleFailure(w),
           NEW s \in Seqs, NEW n \in Numbers, s = task[w].seq, n = task[w].number
    PROVE  /\ Mine(w) /\ LeaseValid(w) /\ n = run[s].count
           /\ run[s].status \in {"running", "waiting", "queued", "succeeded"}
           /\ SettleSuccess(w) => run[s].status # "succeeded"
           /\ run[s].required = 0 => run[s].active = n /\ action[s][n] = "none"
           /\ run[s].required # 0 => /\ run[s].required = n
                                     /\ \/ action[s][n] = "answered"
                                        \/ action[s][n] = "pending" /\ run[s].active = n
           /\ attempt[s][n].status \in {"running", "waiting", "succeeded"}
<1>1. /\ TypeOK /\ TaskInv(w) /\ RunInv(s) /\ LeaseValid(w) /\ run[s] = task[w].readRun
      /\ run[s] \in RunRecord
  BY RowTypes DEF IInv, SettleSuccess, SettleFailure, Settle, Unchanged
<1>2. /\ Mine(w) /\ run[s].status \notin {"absent", "failed", "cancelled"}
      /\ SettleSuccess(w) => run[s].status # "succeeded"
  <2>1. CASE SettleSuccess(w)
    BY <1>1, <2>1 DEF SettleSuccess, TaskInv, Holding, Executing
  <2>2. CASE SettleFailure(w)
    BY <1>1, <2>2 DEF SettleFailure, SettleSuccess, TaskInv, Holding, Failing
  <2> QED
    BY <2>1, <2>2
<1>3. n = run[s].count /\ n > 0
  BY <1>2, NumberTypes DEF Mine
<1>4. run[s].status \in {"running", "waiting", "queued", "succeeded"}
  BY <1>1, <1>2 DEF RunRecord, RunStatus
<1> QED
  BY <1>1, <1>2, <1>3, <1>4 DEF RunInv

(* It writes an outcome, and the task goes on to report or to fail.        *)
LEMMA SettleWith ==
    ASSUME IInv, NEW w \in Workers, SettleSuccess(w) \/ SettleFailure(w),
           NEW c \in {"succeeded", "failed"}, NEW pc \in {"report", "block", "closing"},
           Settle(w, c), Goto(w, pc) \/ (pc = "closing" /\ Return(w, pc)),
           pc = "report" => c = "succeeded"
    PROVE  IInv'
<1>1. TypeOK /\ task[w] \in Task /\ TaskInv(w)
  BY RowTypes DEF IInv
<1>2. PICK s \in Seqs, n \in Numbers : s = task[w].seq /\ n = task[w].number
  BY <1>1 DEF SettleSuccess, SettleFailure, TaskInv, Holding, Executing, Failing
<1>3. /\ Mine(w) /\ LeaseValid(w) /\ n = run[s].count
      /\ run[s].status \in {"running", "waiting", "queued", "succeeded"}
      /\ run[s].required = 0 => run[s].active = n /\ action[s][n] = "none"
      /\ run[s].required # 0 => /\ run[s].required = n
                                /\ \/ action[s][n] = "answered"
                                   \/ action[s][n] = "pending" /\ run[s].active = n
  BY <1>2, SettledRun
<1>4. RunInv(s) /\ run[s] \in RunRecord /\ attempt[s][n] \in RunAttempt
  BY <1>1, RowTypes DEF IInv
<1> DEFINE row == [run[s] EXCEPT !.status = c]
           att == [attempt[s][n] EXCEPT !.status = c, !.dispatch = "settled"]
<1>6. row \in RunRecord /\ att \in RunAttempt
  BY <1>1, ReplacedRows DEF RunStatus, AttemptStatus, DispatchState
<1>7. ReplaceRun(s, row) /\ ReplaceAttempt(s, n, att)
  BY <1>2 DEF Settle
<1>8. /\ UNCHANGED <<conv, action, lease, blocker, disturbances>>
      /\ task[w].pc \notin {"idle", "closing"}
  BY DEF SettleSuccess, SettleFailure
<1>9. /\ run' \in [Seqs -> RunRecord] /\ run'[s] = row
      /\ \A t \in Seqs : t # s => run'[t] = run[t]
  BY <1>1, <1>6, <1>7, ReplaceTypes
<1>10. /\ attempt' \in [Seqs -> [Numbers -> RunAttempt]] /\ attempt'[s][n] = att
       /\ \A m \in Numbers : m # n => attempt'[s][m] = attempt[s][m]
       /\ \A t \in Seqs : t # s => attempt'[t] = attempt[t]
  BY <1>1, <1>6, <1>7, ReplaceTypes
<1>11. /\ row.status = c /\ row.count = n /\ row.active = run[s].active
       /\ row.required = run[s].required
       /\ att.status = c /\ att.worker = attempt[s][n].worker
       /\ att.token = attempt[s][n].token
  BY <1>3, <1>4 DEF RunRecord, RunAttempt
<1>12. /\ task' \in [Workers -> Task]
       /\ \A v \in Workers : v # w => task'[v] = task[v]
       /\ task'[w].pc = pc /\ task'[w].token = task[w].token
       /\ pc = "report" => task'[w].seq = s /\ task'[w].number = n
  <2>1. pc \in TaskPc
    BY DEF TaskPc
  <2>2. CASE Goto(w, pc)
    BY <1>1, <1>2, <2>1, <2>2, MovedOn
  <2>3. CASE pc = "closing" /\ Return(w, pc)
    <3>1. /\ task' \in [Workers -> Task]
          /\ task'[w] = [NoTask EXCEPT !.pc = pc, !.token = task[w].token]
          /\ \A v \in Workers : v # w => task'[v] = task[v]
      BY <1>1, <2>1, <2>3, MoveTypes
    <3>2. task'[w].pc = pc /\ task'[w].token = task[w].token
      BY <3>1 DEF NoTask
    <3> QED
      BY <2>3, <3>1, <3>2
  <2> QED
    BY <2>2, <2>3
<1> HIDE DEF row, att
<1>13. TypeOK'
  BY <1>1, <1>8, <1>9, <1>10, <1>12 DEF TypeOK
<1>14. Elsewhere(s)
  BY <1>8, <1>9, <1>10 DEF Elsewhere
<1>15. RunInv(s)'
  <2>1. n \in Nat /\ n > 0
    BY NumberTypes
  <2>2. ASSUME NEW m \in Numbers
        PROVE  /\ m > n <=> attempt'[s][m].status = "none"
               /\ m > n => action'[s][m] = "none"
               /\ m < n => attempt'[s][m].status = "waiting" /\ action'[s][m] = "consumed"
    <3>1. CASE m = n
      BY <1>10, <1>11, <2>1, <3>1
    <3>2. CASE m # n
      BY <1>3, <1>4, <1>8, <1>10, <3>2 DEF RunInv
    <3> QED
      BY <3>1, <3>2
  <2> QED
    BY <1>3, <1>8, <1>9, <1>10, <1>11, <2>1, <2>2 DEF RunInv
<1>16. \A r \in Seqs : RunInv(r)'
  BY <1>14, <1>15, RunsStay DEF IInv
<1>17. QueueInv'
  BY <1>3, <1>8, <1>9, <1>11, <1>14, QueueStays DEF IInv
<1>18. AskInv'
  BY <1>8, <1>14, AsksStay DEF IInv
<1>19. \A v \in Workers : v # w => TaskInv(v)'
  <2>1. run'[s].status # "absent"
    BY <1>9, <1>11
  <2> QED
    BY <1>2, <1>3, <1>8, <1>12, <1>14, <2>1, OthersKeep
<1>20. TaskInv(w)'
  <2>1. CASE pc = "report"
    <3>1. Mine(w)'
      BY <1>2, <1>3, <1>9, <1>10, <1>11, <1>12, <2>1 DEF Mine
    <3> QED
      BY <1>9, <1>11, <1>12, <2>1, <3>1 DEF TaskInv, Holding, Executing, Failing
  <2>2. CASE pc # "report"
    BY <1>12, <2>2 DEF TaskInv, Holding, Executing, Failing
  <2> QED
    BY <2>1, <2>2
<1>21. LeaseInv'
  BY <1>8, <1>12, LeaseStays DEF IInv
<1> QED
  BY <1>13, <1>16, <1>17, <1>18, <1>19, <1>20, <1>21 DEF IInv

(* Both settlements are of this form.                                      *)
LEMMA SettleKeeps ==
    ASSUME IInv, NEW w \in Workers, SettleSuccess(w) \/ SettleFailure(w)
    PROVE  IInv'
<1>1. ASSUME NEW c \in {"succeeded", "failed"}, NEW pc \in {"report", "block", "closing"},
             Settle(w, c), Goto(w, pc) \/ (pc = "closing" /\ Return(w, pc)),
             pc = "report" => c = "succeeded"
      PROVE  IInv'
  BY <1>1, SettleWith
<1>2. CASE SettleSuccess(w)
  <2>1. Settle(w, "succeeded") /\ Goto(w, "report")
    BY <1>2 DEF SettleSuccess
  <2> QED
    BY <1>1, <2>1
<1>3. CASE SettleFailure(w)
  <2>1. Settle(w, "failed") /\ (Goto(w, "block") \/ Return(w, "closing"))
    BY <1>3 DEF SettleFailure, Close
  <2>2. CASE Goto(w, "block")
    BY <1>1, <2>1, <2>2
  <2>3. CASE Return(w, "closing")
    BY <1>1, <2>1, <2>3
  <2> QED
    BY <2>1, <2>2, <2>3
<1> QED
  BY <1>2, <1>3

-----------------------------------------------------------------------------
(* The invariant.                                                          *)

(* A step that changes nothing.                                            *)
LEMMA StutterInv == ASSUME IInv, UNCHANGED vars PROVE IInv'
BY DEF vars, IInv, TypeOK, RunInv, QueueInv, AskInv, Asked, TaskInv, Mine, LeaseInv, LeaseValid

(* Every step keeps it.                                                    *)
LEMMA NextInv == ASSUME IInv, [Next]_vars PROVE IInv'
<1>1. CASE Client
  BY <1>1, SubmitKeeps, CancelQueuedKeeps, CloseQuestionKeeps, AnswerKeeps, EndRunningKeeps
     DEF Client
<1>2. CASE \E s \in Seqs : FinishCancel(s) \/ ApiCrash(s) \/ InterruptExpired(s)
  BY <1>2, HandlerKeeps, EndRunningKeeps
<1>3. ASSUME NEW w \in Workers, Execute(w) \/ AskUser(w) \/ BuildFails(w)
      PROVE  IInv'
  BY <1>3, ServeKeeps, BeginKeeps, DispatchKeeps, AskKeeps, SettleKeeps, MovesKeep,
     ReadForBlockKeeps, EndTaskKeeps DEF Execute
<1>4. ASSUME NEW w \in Workers,
             \/ Claim(w) \/ ClaimAndHandBack(w)
             \/ TaskCancelled(w) \/ LostLeaseNoticed(w) \/ WorkerCrash(w)
      PROVE  IInv'
  BY <1>4, ClaimKeeps, MovesKeep, EndTaskKeeps
<1>5. CASE LeaseMissed \/ LeaseLapses
  BY <1>5, ExpiryKeeps
<1>6. CASE UNCHANGED vars
  BY <1>6, StutterInv
<1> QED
  BY <1>1, <1>2, <1>3, <1>4, <1>5, <1>6 DEF Next

(* The rows, the queue and what every task knows agree in every reachable  *)
(* state.                                                                  *)
THEOREM Invariant == Spec => []IInv
<1>1. Init => IInv
  BY InitInv
<1>2. IInv /\ [Next]_vars => IInv'
  BY NextInv
<1> QED
  BY <1>1, <1>2, PTL DEF Spec

-----------------------------------------------------------------------------
(* What follows from it for a state.                                       *)

(* Every variable keeps to its type.                                       *)
THEOREM TypeCorrect == Spec => []TypeOK
<1>1. IInv => TypeOK
  BY DEF IInv
<1> QED
  BY Invariant, <1>1, PTL

(* What TablesAgree says of one Attempt.                                   *)
RowsAgree(s, n) ==
    /\ attempt[s][n].status = "running"
          <=> run[s].status = "running" /\ n = run[s].active /\ n = run[s].count
    /\ run[s].status = "waiting" /\ n = run[s].required => action[s][n] = "pending"
    /\ run[s].status = "queued" /\ n = run[s].required => action[s][n] = "answered"
    /\ action[s][n] = "pending" =>
          /\ n = run[s].required /\ n = run[s].active /\ n = run[s].count
          /\ run[s].status = "waiting" \/ Overlooked(s, n)
    /\ action[s][n] = "answered" =>
          /\ n = run[s].required /\ n = run[s].count
          /\ run[s].status = "queued" \/ Overlooked(s, n)

(* Runs, Attempts and RequiredActions tell one story.                      *)
THEOREM TablesAlwaysAgree == Spec => []TablesAgree
<1>1. IInv => TablesAgree
  <2> SUFFICES ASSUME IInv, NEW s \in Seqs
               PROVE  /\ run[s].status = "waiting" => run[s].required # 0
                      /\ \A n \in Numbers : RowsAgree(s, n)
    BY DEF TablesAgree, RowsAgree
  <2> DEFINE k == run[s].count
  <2>1. RunInv(s) /\ run[s] \in RunRecord /\ k \in Nat
    BY RowTypes, NumberTypes DEF IInv, RunRecord
  <2>2. run[s].status \in {"absent", "queued", "running", "waiting", "succeeded", "failed",
                           "cancelled"}
    BY <2>1 DEF RunRecord, RunStatus
  <2>3. run[s].status = "waiting" => run[s].required # 0
    BY <2>1 DEF RunInv
  <2>4. ASSUME NEW n \in Numbers PROVE RowsAgree(s, n)
    <3>1. n \in Nat /\ n > 0
      BY NumberTypes
    <3>2. CASE n < k
      BY <2>1, <2>2, <3>1, <3>2 DEF RunInv, RowsAgree
    <3>3. CASE n > k
      BY <2>1, <2>2, <3>1, <3>3 DEF RunInv, RowsAgree, NoRun
    <3>4. CASE n = k
      BY <2>1, <2>2, <3>1, <3>4 DEF RunInv, RowsAgree, Overlooked, NoRun
    <3> QED
      BY <2>1, <3>1, <3>2, <3>3, <3>4
  <2> QED
    BY <2>3, <2>4
<1> QED
  BY Invariant, <1>1, PTL

(* Every answer opens exactly one Attempt, and nothing else opens a second.*)
THEOREM EachAnswerIsOneTurn == Spec => []EachAnswerOneTurn
<1>1. IInv => EachAnswerOneTurn
  <2> SUFFICES ASSUME IInv, NEW s \in Seqs, NEW n \in 1..MaxAsks
               PROVE  attempt[s][n + 1].status # "none" <=> action[s][n] = "consumed"
    BY DEF EachAnswerOneTurn
  <2> DEFINE k == run[s].count
  <2>1. RunInv(s) /\ run[s] \in RunRecord
    BY RowTypes DEF IInv
  <2>2. n \in Numbers /\ n + 1 \in Numbers /\ n \in Nat /\ n > 0 /\ k \in Nat
    BY <2>1, NumberTypes, ConstantsAssumption DEF RunRecord
  <2>3. run[s].status \in {"absent", "queued", "running", "waiting", "succeeded", "failed",
                           "cancelled"}
    BY <2>1 DEF RunRecord, RunStatus
  <2>4. n > k => action[s][n] = "none"
    BY <2>1, <2>2 DEF RunInv
  <2>5. n = k => action[s][n] # "consumed"
    BY <2>1, <2>2, <2>3 DEF RunInv, NoRun
  <2>6. n < k => action[s][n] = "consumed"
    BY <2>1, <2>2 DEF RunInv
  <2>7. attempt[s][n + 1].status = "none" <=> n + 1 > k
    BY <2>1, <2>2 DEF RunInv
  <2> HIDE DEF k
  <2> QED
    BY <2>2, <2>4, <2>5, <2>6, <2>7
<1> QED
  BY Invariant, <1>1, PTL

(* One Session never has two prompts at once, unless a lease ran out under *)
(* its task.                                                               *)
THEOREM OnePromptAtATime == Spec => []OnePrompt
<1>1. IInv => OnePrompt
  BY DEF IInv, LeaseInv, OnePrompt, Prompting, LeaseValid
<1> QED
  BY Invariant, <1>1, PTL

-----------------------------------------------------------------------------
(* What a step does to the Turns.                                          *)

AttemptsStay(s) ==
    \A n \in Numbers :
        attempt[s][n].status \in {"cancelled", "failed", "interrupted"}
            => attempt'[s][n] = attempt[s][n]

(* The Run s, and nothing but it, goes from a status to another one.       *)
Moves(s, before, after) ==
    /\ Elsewhere(s) /\ AttemptsStay(s) /\ conv'.status = conv.status
    /\ run[s].status \in before /\ run'[s].status \in after

(* In terms of the queue.                                                  *)
TurnStep(s) ==
    \/ /\ Moves(s, {"absent"}, {"queued"})
       /\ conv.status = "active" /\ With("waiting") = {}
       /\ \A t \in Seqs : run[t].status = "absent" <=> s <= t
    \/ /\ Moves(s, {"queued"}, {"running"})
       /\ \A t \in Seqs : /\ run[t].status \notin {"running", "waiting"}
                          /\ run[t].status = "queued" => s <= t
    \/ Moves(s, {"running"}, {"waiting"})
    \/ Moves(s, {"waiting"}, {"queued"})
    \/ Moves(s, {"queued", "running", "waiting"}, TerminalRunStatuses)
    \/ Moves(s, {"succeeded"}, {"failed"})

(* No Run moves; the Conversation may be blocked.                          *)
NoTurnStep ==
    /\ run' = run /\ \A s \in Seqs : AttemptsStay(s)
    /\ \/ conv'.status = conv.status
       \/ conv.status = "active" /\ conv'.status = "blocked"

(* A pending question is that of a Run that waits, or that is over.        *)
LEMMA PendingWaits ==
    ASSUME IInv, NEW s \in Seqs, NEW n \in Numbers, action[s][n] = "pending",
           run[s].status \notin TerminalRunStatuses
    PROVE  run[s].status = "waiting" /\ attempt[s][n].status = "waiting"
<1> DEFINE k == run[s].count
<1>1. RunInv(s) /\ run[s] \in RunRecord
  BY RowTypes DEF IInv
<1>2. n \in Nat /\ n > 0 /\ k \in Nat
  BY <1>1, NumberTypes DEF RunRecord
<1>3. n = k
  BY <1>1, <1>2 DEF RunInv
<1>4. run[s].status \in {"absent", "queued", "running", "waiting", "succeeded", "failed",
                         "cancelled"}
  BY <1>1 DEF RunRecord, RunStatus
<1> QED
  BY <1>1, <1>2, <1>3, <1>4 DEF RunInv, NoRun, TerminalRunStatuses

(* The API process and the reconciler append, answer and end Turns.        *)
LEMMA ClientTurns ==
    ASSUME IInv, Client \/ \E s \in Seqs : InterruptExpired(s)
    PROVE  \E s \in Seqs : TurnStep(s)
<1>1. TypeOK /\ \A s \in Seqs : run[s] \in RunRecord
  BY RowTypes DEF IInv
<1>2. CASE Submit
  <2>1. PICK s \in Seqs : s = conv.next
    BY <1>2, RowTypes, NumberTypes DEF IInv, Submit
  <2> DEFINE row == [NoRun EXCEPT !.status = "queued"]
  <2>2. row \in RunRecord /\ row.status = "queued"
    BY NumberTypes DEF NoRun, RunRecord, RunStatus
  <2>3. /\ run'[s] = row
        /\ \A t \in Seqs : t # s => run'[t] = run[t]
    BY <1>1, <1>2, <2>1, <2>2, ReplaceTypes DEF Submit, ReplaceRun
  <2>4. \A t \in Seqs : run[t].status = "absent" <=> s <= t
    BY <2>1, NumberTypes DEF IInv, QueueInv
  <2>5. conv'.status = conv.status
    BY <1>1, <1>2 DEF Submit, TypeOK
  <2>6. Moves(s, {"absent"}, {"queued"})
    <3>1. UNCHANGED <<attempt, action>>
      BY <1>2 DEF Submit
    <3>2. Elsewhere(s) /\ AttemptsStay(s)
      BY <2>3, <3>1 DEF Elsewhere, AttemptsStay
    <3>3. run[s].status = "absent" /\ run'[s].status = "queued"
      BY <2>2, <2>3, <2>4, NumberTypes
    <3> QED
      BY <2>5, <3>2, <3>3 DEF Moves
  <2>7. TurnStep(s)
    BY <1>2, <2>4, <2>6 DEF TurnStep, Submit
  <2> QED
    BY <2>7
<1>3. ASSUME NEW s \in Seqs, CancelQueued(s) \/ CancelWaiting(s) \/ CancelRunning(s)
                             \/ Expire(s) \/ InterruptExpired(s)
      PROVE  TurnStep(s)
  <2>1. run[s].status \in {"queued", "running", "waiting"}
    BY <1>1, <1>3 DEF CancelQueued, CancelWaiting, CancelRunning, Expire, InterruptExpired,
       Cancellable, Resumable, RunRecord, RunStatus, TerminalRunStatuses
  <2>2. PICK row \in {[run[s] EXCEPT !.status = "cancelled"],
                      [run[s] EXCEPT !.status = "failed"],
                      [run[s] EXCEPT !.status = "cancelled", !.active = 0, !.required = 0]} :
           ReplaceRun(s, row)
    BY <1>3 DEF CancelQueued, CancelWaiting, CancelRunning, Expire, InterruptExpired
  <2>3. row \in RunRecord /\ row.status \in TerminalRunStatuses
    <3>1. row \in RunRecord
      BY <1>1, ReplacedRows DEF RunStatus
    <3>2. run[s] \in RunRecord
      BY <1>1
    <3> QED
      BY <3>1, <3>2 DEF TerminalRunStatuses, RunRecord
  <2>4. /\ run'[s] = row
        /\ \A t \in Seqs : t # s => run'[t] = run[t]
    BY <1>1, <2>2, <2>3, ReplaceTypes
  <2>5. conv' = conv
    BY <1>3 DEF CancelQueued, CancelWaiting, CancelRunning, Expire, InterruptExpired
  <2>6. AttemptsStay(s) /\ \A t \in Seqs : t # s => attempt'[t] = attempt[t]
    <3>1. CASE UNCHANGED attempt
      BY <3>1 DEF AttemptsStay
    <3>2. CASE \E n \in Numbers, d \in {"settled", "unknown"}, c \in {"cancelled", "interrupted"} :
                  /\ attempt[s][n].status \notin {"cancelled", "failed", "interrupted"}
                  /\ ReplaceAttempt(s, n, [attempt[s][n] EXCEPT !.status = c, !.dispatch = d])
      <4>1. PICK n \in Numbers, d \in {"settled", "unknown"}, c \in {"cancelled", "interrupted"} :
               /\ attempt[s][n].status \notin {"cancelled", "failed", "interrupted"}
               /\ ReplaceAttempt(s, n, [attempt[s][n] EXCEPT !.status = c, !.dispatch = d])
        BY <3>2
      <4>2. [attempt[s][n] EXCEPT !.status = c, !.dispatch = d] \in RunAttempt
        BY <1>1, ReplacedRows DEF AttemptStatus, DispatchState
      <4>3. /\ \A m \in Numbers : m # n => attempt'[s][m] = attempt[s][m]
            /\ \A t \in Seqs : t # s => attempt'[t] = attempt[t]
        BY <1>1, <4>1, <4>2, ReplaceTypes
      <4> QED
        BY <4>1, <4>3 DEF AttemptsStay
    <3>3. CASE CancelWaiting(s) \/ Expire(s)
      <4>1. PICK n \in Numbers : n = run[s].required /\ action[s][n] = "pending"
        BY <1>1, <3>3, NumberTypes DEF CancelWaiting, Expire, Cancellable, Resumable, RunRecord
      <4>2. attempt[s][n].status = "waiting"
        BY <3>3, <4>1, PendingWaits DEF CancelWaiting, Expire, Cancellable, Resumable,
           TerminalRunStatuses
      <4>3. ReplaceAttempt(s, n, [attempt[s][n] EXCEPT !.status = "cancelled",
                                                       !.dispatch = "settled"])
        BY <3>3, <4>1 DEF CancelWaiting, Expire
      <4> QED
        BY <3>2, <4>2, <4>3
    <3>4. CASE CancelRunning(s)
      <4>1. PICK n \in Numbers : n = run[s].active
        BY <1>1, <3>4, NumberTypes DEF CancelRunning, RunRecord
      <4>2. \/ UNCHANGED attempt
            \/ /\ attempt[s][n].status \notin {"cancelled", "failed", "interrupted"}
               /\ ReplaceAttempt(s, n, [attempt[s][n] EXCEPT !.status = "cancelled",
                                                             !.dispatch = "settled"])
        BY <3>4, <4>1 DEF CancelRunning, SettledAttemptStatuses, AttemptStatus
      <4> QED
        BY <3>1, <3>2, <4>2
    <3>5. CASE InterruptExpired(s)
      <4>1. PICK n \in Numbers : n = run[s].active
        BY <1>1, <3>5, NumberTypes DEF InterruptExpired, RunRecord
      <4>2. /\ attempt[s][n].status = "running"
            /\ ReplaceAttempt(s, n, [attempt[s][n] EXCEPT !.status = "interrupted",
                                                          !.dispatch = "unknown"])
        BY <3>5, <4>1 DEF InterruptExpired
      <4> QED
        BY <3>2, <4>2
    <3>6. CASE CancelQueued(s)
      BY <3>1, <3>6 DEF CancelQueued
    <3> QED
      BY <1>3, <3>3, <3>4, <3>5, <3>6
  <2>7. \A t \in Seqs : t # s => action'[t] = action[t]
    BY <1>1, <1>3 DEF CancelQueued, CancelWaiting, CancelRunning, Expire, InterruptExpired,
       SetAction, TypeOK
  <2>8. Moves(s, {"queued", "running", "waiting"}, TerminalRunStatuses)
    BY <2>1, <2>3, <2>4, <2>5, <2>6, <2>7 DEF Moves, Elsewhere
  <2> QED
    BY <2>8 DEF TurnStep
<1>4. ASSUME NEW s \in Seqs, Answer(s)
      PROVE  TurnStep(s)
  <2> DEFINE row == [run[s] EXCEPT !.status = "queued", !.active = 0]
  <2>1. row \in RunRecord /\ row.status = "queued"
    <3>1. row \in RunRecord /\ run[s] \in RunRecord
      BY <1>1, ReplacedRows DEF RunStatus
    <3> QED
      BY <3>1 DEF RunRecord
  <2>2. /\ run'[s] = row
        /\ \A t \in Seqs : t # s => run'[t] = run[t]
    BY <1>1, <1>4, <2>1, ReplaceTypes DEF Answer
  <2>3. run[s].status = "waiting" /\ UNCHANGED <<conv, attempt>>
    BY <1>4 DEF Answer, Resumable
  <2>4. \A t \in Seqs : t # s => action'[t] = action[t]
    BY <1>1, <1>4 DEF Answer, SetAction, TypeOK
  <2>5. Moves(s, {"waiting"}, {"queued"})
    BY <2>1, <2>2, <2>3, <2>4 DEF Moves, Elsewhere, AttemptsStay
  <2> QED
    BY <2>5 DEF TurnStep
<1> QED
  BY <1>2, <1>3, <1>4 DEF Client

(* A task that writes rows serves a Turn.                                  *)
LEMMA BeginTurn ==
    ASSUME IInv, NEW w \in Workers, BeginAttempt(w)
    PROVE  \E s \in Seqs : TurnStep(s)
<1>1. TypeOK /\ task[w] \in Task /\ TaskInv(w) /\ LeaseValid(w)
  BY RowTypes DEF IInv, BeginAttempt
<1>2. PICK s \in Seqs, n \in Numbers :
         /\ s = task[w].seq /\ n = task[w].number
         /\ run[s].status = "queued" /\ n = run[s].count + 1
         /\ \A t \in Seqs : /\ run[t].status \notin {"running", "waiting"}
                            /\ run[t].status = "queued" => s <= t
  BY <1>1 DEF BeginAttempt, TaskInv, Holding
<1>3. RunInv(s) /\ run[s] \in RunRecord /\ run[s].count \in Nat
  BY <1>2, RowTypes, NumberLeft DEF IInv
<1>4. attempt[s][n].status = "none"
  BY <1>2, <1>3, NumberTypes DEF RunInv
<1> DEFINE row == [run[s] EXCEPT !.status = "running", !.count = n,
                                 !.active = n, !.required = 0]
           att == [NoAttempt EXCEPT !.status = "running", !.worker = w,
                                    !.token = task[w].token]
<1>5. row \in RunRecord /\ row.status = "running"
  <2>1. n \in NumberOrNone /\ 0 \in NumberOrNone /\ "running" \in RunStatus
    BY NumberTypes DEF RunStatus
  <2> QED
    BY <1>3, <2>1 DEF RunRecord
<1>6. att \in RunAttempt
  <2>1. task[w].token \in Nat
    BY <1>1 DEF Task
  <2> QED
    BY <2>1 DEF NoAttempt, RunAttempt, AttemptStatus, DispatchState
<1>7. ReplaceRun(s, row) /\ ReplaceAttempt(s, n, att) /\ UNCHANGED conv
  BY <1>2 DEF BeginAttempt, ReplaceAttempt
<1>8. /\ run'[s] = row
      /\ \A t \in Seqs : t # s => run'[t] = run[t]
  BY <1>1, <1>5, <1>7, ReplaceTypes
<1>9. /\ \A m \in Numbers : m # n => attempt'[s][m] = attempt[s][m]
      /\ \A t \in Seqs : t # s => attempt'[t] = attempt[t]
  BY <1>1, <1>6, <1>7, ReplaceTypes
<1>10. \A t \in Seqs : t # s => action'[t] = action[t]
  BY <1>1, <1>2 DEF BeginAttempt, SetAction, TypeOK
<1>11. Elsewhere(s)
  BY <1>8, <1>9, <1>10 DEF Elsewhere
<1>12. AttemptsStay(s)
  BY <1>4, <1>9 DEF AttemptsStay
<1>13. Moves(s, {"queued"}, {"running"})
  <2>1. run'[s].status = "running"
    BY <1>5, <1>8
  <2> QED
    BY <1>2, <1>7, <1>11, <1>12, <2>1 DEF Moves
<1>14. TurnStep(s)
  BY <1>2, <1>13 DEF TurnStep
<1> QED
  BY <1>14

(* A question suspends the Turn that asks it.                              *)
LEMMA AskTurn ==
    ASSUME IInv, NEW w \in Workers, AskUser(w)
    PROVE  \E s \in Seqs : TurnStep(s)
<1>1. TypeOK /\ TaskInv(w)
  BY DEF IInv
<1>2. PICK s \in Seqs, n \in Numbers : s = task[w].seq /\ n = task[w].number
  BY <1>1 DEF AskUser, TaskInv, Holding, Executing, Failing
<1> DEFINE row == [run[s] EXCEPT !.status = "waiting", !.required = n]
           att == [attempt[s][n] EXCEPT !.status = "waiting", !.dispatch = "settled"]
<1>3. /\ run[s].status = "running" /\ attempt[s][n].status = "running"
      /\ ReplaceRun(s, row) /\ ReplaceAttempt(s, n, att) /\ SetAction(s, n, "pending")
      /\ UNCHANGED conv
  BY <1>2 DEF AskUser
<1>4. row \in RunRecord /\ att \in RunAttempt /\ "pending" \in RequiredActionStatus
  BY <1>1, ReplacedRows DEF RunStatus, AttemptStatus, DispatchState, RequiredActionStatus
<1>5. row.status = "waiting"
  BY <1>1, RowTypes DEF RunRecord
<1>6. /\ run'[s] = row
      /\ \A t \in Seqs : t # s => run'[t] = run[t]
  BY <1>1, <1>3, <1>4, ReplaceTypes
<1>7. /\ \A m \in Numbers : m # n => attempt'[s][m] = attempt[s][m]
      /\ \A t \in Seqs : t # s => attempt'[t] = attempt[t]
  BY <1>1, <1>3, <1>4, ReplaceTypes
<1>8. \A t \in Seqs : t # s => action'[t] = action[t]
  BY <1>1, <1>3, <1>4, ReplaceTypes
<1>9. Elsewhere(s)
  BY <1>6, <1>7, <1>8 DEF Elsewhere
<1>10. AttemptsStay(s)
  BY <1>3, <1>7 DEF AttemptsStay
<1>11. Moves(s, {"running"}, {"waiting"})
  <2>1. run'[s].status = "waiting"
    BY <1>5, <1>6
  <2> QED
    BY <1>3, <1>9, <1>10, <2>1 DEF Moves
<1>12. TurnStep(s)
  BY <1>11 DEF TurnStep
<1> QED
  BY <1>12

(* A settlement ends the Turn, or fails one that was ended as a success.   *)
LEMMA SettleTurn ==
    ASSUME IInv, NEW w \in Workers, SettleSuccess(w) \/ SettleFailure(w)
    PROVE  \E s \in Seqs : TurnStep(s)
<1>1. TypeOK /\ TaskInv(w)
  BY DEF IInv
<1>2. PICK s \in Seqs, n \in Numbers : s = task[w].seq /\ n = task[w].number
  BY <1>1 DEF SettleSuccess, SettleFailure, TaskInv, Holding, Executing, Failing
<1>3. /\ run[s].status \in {"running", "waiting", "queued", "succeeded"}
      /\ SettleSuccess(w) => run[s].status # "succeeded"
      /\ attempt[s][n].status \in {"running", "waiting", "succeeded"}
  BY <1>2, SettledRun
<1>4. PICK c \in {"succeeded", "failed"} :
         Settle(w, c) /\ (run[s].status = "succeeded" => c = "failed")
  <2>1. CASE SettleSuccess(w)
    BY <1>3, <2>1 DEF SettleSuccess
  <2>2. CASE SettleFailure(w)
    BY <2>2 DEF SettleFailure
  <2> QED
    BY <2>1, <2>2
<1> DEFINE row == [run[s] EXCEPT !.status = c]
           att == [attempt[s][n] EXCEPT !.status = c, !.dispatch = "settled"]
<1>5. ReplaceRun(s, row) /\ ReplaceAttempt(s, n, att)
  BY <1>2, <1>4 DEF Settle
<1>6. row \in RunRecord /\ att \in RunAttempt
  BY <1>1, ReplacedRows DEF RunStatus, AttemptStatus, DispatchState
<1>7. row.status = c
  BY <1>1, RowTypes DEF RunRecord
<1>8. /\ run'[s] = row
      /\ \A t \in Seqs : t # s => run'[t] = run[t]
  BY <1>1, <1>5, <1>6, ReplaceTypes
<1>9. /\ \A m \in Numbers : m # n => attempt'[s][m] = attempt[s][m]
      /\ \A t \in Seqs : t # s => attempt'[t] = attempt[t]
  BY <1>1, <1>5, <1>6, ReplaceTypes
<1>10. UNCHANGED <<conv, action>>
  BY DEF SettleSuccess, SettleFailure
<1>11. Elsewhere(s)
  BY <1>8, <1>9, <1>10 DEF Elsewhere
<1>12. AttemptsStay(s)
  BY <1>3, <1>9 DEF AttemptsStay
<1>13. run'[s].status = c
  BY <1>7, <1>8
<1>14. TurnStep(s)
  <2>1. CASE run[s].status \in {"queued", "running", "waiting"}
    BY <1>10, <1>11, <1>12, <1>13, <2>1 DEF TurnStep, Moves, TerminalRunStatuses
  <2>2. CASE run[s].status = "succeeded"
    BY <1>4, <1>10, <1>11, <1>12, <1>13, <2>2 DEF TurnStep, Moves
  <2> QED
    BY <1>3, <2>1, <2>2
<1> QED
  BY <1>14

(* The dispatch state belongs to a RUNNING Attempt.                        *)
LEMMA DispatchTurn ==
    ASSUME IInv, NEW w \in Workers, Dispatch(w) \/ Accept(w)
    PROVE  NoTurnStep
<1>1. TypeOK /\ TaskInv(w)
  BY DEF IInv
<1>2. PICK s \in Seqs, n \in Numbers : s = task[w].seq /\ n = task[w].number
  BY <1>1 DEF Dispatch, Accept, TaskInv, Holding, Executing
<1>3. PICK state \in {"dispatching", "accepted"} :
         \/ UNCHANGED attempt
         \/ /\ attempt[s][n].status = "running"
            /\ ReplaceAttempt(s, n, [attempt[s][n] EXCEPT !.dispatch = state])
  BY <1>2 DEF Dispatch, Accept, SetDispatchState
<1>4. UNCHANGED <<conv, run>>
  BY DEF Dispatch, Accept
<1>5. CASE UNCHANGED attempt
  BY <1>4, <1>5 DEF NoTurnStep, AttemptsStay
<1>6. CASE /\ attempt[s][n].status = "running"
           /\ ReplaceAttempt(s, n, [attempt[s][n] EXCEPT !.dispatch = state])
  <2>1. [attempt[s][n] EXCEPT !.dispatch = state] \in RunAttempt
    BY <1>1, ReplacedRows DEF DispatchState
  <2>2. /\ \A m \in Numbers : m # n => attempt'[s][m] = attempt[s][m]
        /\ \A t \in Seqs : t # s => attempt'[t] = attempt[t]
    BY <1>1, <1>6, <2>1, ReplaceTypes
  <2>3. ASSUME NEW t \in Seqs PROVE AttemptsStay(t)
    BY <1>6, <2>2 DEF AttemptsStay
  <2> QED
    BY <1>4, <2>3 DEF NoTurnStep
<1> QED
  BY <1>3, <1>5, <1>6

(* Every step is one of the queue's, or none of a Turn.                    *)
LEMMA EveryStep ==
    ASSUME IInv, [Next]_vars
    PROVE  NoTurnStep \/ \E s \in Seqs : TurnStep(s)
<1>1. TypeOK
  BY DEF IInv
<1>2. ASSUME UNCHANGED <<run, attempt>>,
             UNCHANGED conv \/ (conv.status = "active" /\ conv' = [conv EXCEPT !.status = "blocked"])
      PROVE  NoTurnStep
  BY <1>1, <1>2 DEF NoTurnStep, AttemptsStay, TypeOK
<1>3. CASE \E s \in Seqs : FinishCancel(s) \/ ApiCrash(s)
  BY <1>2, <1>3 DEF FinishCancel, CancelReads, CancelBlocks, CancelBlockRefused, ApiCrash
<1>4. ASSUME NEW w \in Workers,
             \/ Claim(w) \/ ClaimAndHandBack(w) \/ BuildFails(w)
             \/ TaskCancelled(w) \/ LostLeaseNoticed(w) \/ WorkerCrash(w)
      PROVE  NoTurnStep
  BY <1>2, <1>4 DEF Claim, ClaimAndHandBack, BuildFails, TaskCancelled, LostLeaseNoticed,
     WorkerCrash
<1>5. ASSUME NEW w \in Workers,
             \/ Serve(w) \/ BeginRefused(w) \/ AskedTurnEnds(w) \/ ExecuteFails(w)
             \/ Finish(w) \/ SettleRefused(w) \/ Report(w) \/ ReadForFailure(w)
             \/ FailureRefused(w) \/ ReadForBlock(w) \/ Block(w) \/ BlockRefused(w) \/ Release(w)
      PROVE  NoTurnStep
  BY <1>2, <1>5 DEF Serve, BeginRefused, AskedTurnEnds, ExecuteFails, Finish, SettleRefused,
     Report, ReadForFailure, FailureRefused, ReadForBlock, Block, BlockRefused, Release
<1>6. ASSUME NEW w \in Workers, Execute(w) \/ AskUser(w)
      PROVE  NoTurnStep \/ \E s \in Seqs : TurnStep(s)
  BY <1>5, <1>6, BeginTurn, AskTurn, SettleTurn, DispatchTurn DEF Execute
<1>7. CASE LeaseMissed \/ LeaseLapses \/ UNCHANGED vars
  BY <1>2, <1>7 DEF LeaseMissed, LeaseLapses, vars
<1>8. CASE Client \/ \E s \in Seqs : InterruptExpired(s)
  BY <1>8, ClientTurns
<1> QED
  BY <1>3, <1>4, <1>6, <1>7, <1>8 DEF Next

-----------------------------------------------------------------------------
(* What follows for behaviours.                                            *)

(* A Turn is over for good.                                                *)
THEOREM SettledTurnsAreKept == Spec => SettledTurnsStay
<1> DEFINE Kept ==
        \A s \in Seqs :
          /\ run[s].status \in {"failed", "cancelled"} => run'[s] = run[s]
          /\ run[s].status = "succeeded" => run'[s].status \in {"succeeded", "failed"}
          /\ \A n \in Numbers :
                attempt[s][n].status \in {"cancelled", "failed", "interrupted"}
                    => attempt'[s][n] = attempt[s][n]
<1>1. IInv /\ [Next]_vars => Kept
  <2> SUFFICES ASSUME IInv, [Next]_vars, NEW s \in Seqs
               PROVE  /\ run[s].status \in {"failed", "cancelled"} => run'[s] = run[s]
                      /\ run[s].status = "succeeded" => run'[s].status \in {"succeeded", "failed"}
                      /\ AttemptsStay(s)
    BY DEF AttemptsStay
  <2>1. CASE NoTurnStep
    BY <2>1 DEF NoTurnStep
  <2>2. ASSUME NEW t \in Seqs, TurnStep(t), t # s
        PROVE  run'[s] = run[s] /\ AttemptsStay(s)
    BY <2>2 DEF TurnStep, Moves, Elsewhere, AttemptsStay
  <2>3. CASE TurnStep(s)
    BY <2>3 DEF TurnStep, Moves, TerminalRunStatuses
  <2> QED
    BY <2>1, <2>2, <2>3, EveryStep
<1>2. IInv /\ [Next]_vars => [Kept]_vars
  BY <1>1
<1> QED
  BY Invariant, <1>2, PTL DEF Spec, SettledTurnsStay

(* How a Run's status maps to the state of its Turn.                       *)
TurnOf(status) ==
    CASE status \in TerminalRunStatuses -> "ended"
      [] status = "running" -> "active"
      [] status = "waiting" -> "suspended"
      [] OTHER -> status

TurnTable == [s \in Seqs |-> TurnOf(run[s].status)]

(* Status by status.                                                       *)
LEMMA TurnOfValues ==
    /\ TurnOf("absent") = "absent" /\ TurnOf("queued") = "queued"
    /\ TurnOf("running") = "active" /\ TurnOf("waiting") = "suspended"
    /\ TurnOf("succeeded") = "ended" /\ TurnOf("failed") = "ended"
    /\ TurnOf("cancelled") = "ended"
BY DEF TurnOf, TerminalRunStatuses

(* One Turn changes when one Run does.                                     *)
LEMMA TurnChanges ==
    ASSUME NEW s \in Seqs, Elsewhere(s)
    PROVE  TurnTable' = [TurnTable EXCEPT ![s] = TurnOf(run'[s].status)]
BY DEF TurnTable, Elsewhere

(* A step of the queue, on the table of Turns.                             *)
LEMMA MapTurn ==
    ASSUME IInv, IInv', NEW s \in Seqs, TurnStep(s)
    PROVE  [Turns!Next]_(Turns!vars)
<1>1. /\ Elsewhere(s) /\ conv'.status = conv.status
  BY DEF TurnStep, Moves
<1>2. /\ \A t \in Seqs : TurnTable[t] = TurnOf(run[t].status)
      /\ TurnTable' = [TurnTable EXCEPT ![s] = TurnOf(run'[s].status)]
  BY <1>1, TurnChanges DEF TurnTable
<1>3. /\ \A t \in Seqs : run[t].status \in
              {"absent", "queued", "running", "waiting", "succeeded", "failed", "cancelled"}
      /\ conv.status \in {"active", "blocked"}
  BY RowTypes DEF IInv, RunRecord, RunStatus
<1>4. CASE /\ Moves(s, {"absent"}, {"queued"})
           /\ conv.status = "active" /\ With("waiting") = {}
           /\ \A t \in Seqs : run[t].status = "absent" <=> s <= t
  <2>1. /\ \A t \in Seqs : TurnTable[t] = "absent" <=> s <= t
        /\ \A t \in Seqs : TurnTable[t] # "suspended"
    BY <1>2, <1>3, <1>4, TurnOfValues DEF With
  <2>2. TurnTable' = [TurnTable EXCEPT ![s] = "queued"]
    BY <1>2, <1>4, TurnOfValues DEF Moves
  <2>3. Turns!Append(s)
    BY <1>1, <1>4, <2>1, <2>2 DEF Turns!Append, TurnTable, TurnOf
  <2> QED
    BY <2>3 DEF Turns!Next
<1>5. CASE /\ Moves(s, {"queued"}, {"running"})
           /\ \A t \in Seqs : /\ run[t].status \notin {"running", "waiting"}
                              /\ run[t].status = "queued" => s <= t
  <2>1. /\ TurnTable[s] = "queued"
        /\ \A t \in Seqs : /\ TurnTable[t] \notin {"active", "suspended"}
                           /\ TurnTable[t] = "queued" => s <= t
    BY <1>2, <1>3, <1>5, TurnOfValues DEF Moves
  <2>2. TurnTable' = [TurnTable EXCEPT ![s] = "active"]
    BY <1>2, <1>5, TurnOfValues DEF Moves
  <2>3. Turns!Start(s)
    BY <1>1, <2>1, <2>2 DEF Turns!Start, Turns!Served, TurnTable, TurnOf
  <2> QED
    BY <2>3 DEF Turns!Next
<1>6. CASE Moves(s, {"running"}, {"waiting"})
  <2>1. TurnTable[s] = "active" /\ TurnTable' = [TurnTable EXCEPT ![s] = "suspended"]
    BY <1>2, <1>6, TurnOfValues DEF Moves
  <2>2. Turns!Suspend(s)
    BY <1>1, <2>1 DEF Turns!Suspend, TurnTable, TurnOf
  <2> QED
    BY <2>2 DEF Turns!Next
<1>7. CASE Moves(s, {"waiting"}, {"queued"})
  <2>1. TurnTable[s] = "suspended" /\ TurnTable' = [TurnTable EXCEPT ![s] = "queued"]
    BY <1>2, <1>7, TurnOfValues DEF Moves
  <2>2. Turns!Answer(s)
    BY <1>1, <2>1 DEF Turns!Answer, TurnTable, TurnOf
  <2> QED
    BY <2>2 DEF Turns!Next
<1>8. CASE Moves(s, {"queued", "running", "waiting"}, TerminalRunStatuses)
  <2>1. /\ TurnTable[s] \in {"queued", "active", "suspended"}
        /\ TurnTable' = [TurnTable EXCEPT ![s] = "ended"]
    BY <1>2, <1>8, TurnOfValues DEF Moves, TerminalRunStatuses
  <2>2. Turns!End(s)
    BY <1>1, <1>3, <2>1 DEF Turns!End, TurnTable, TurnOf
  <2> QED
    BY <2>2 DEF Turns!Next
<1>9. CASE Moves(s, {"succeeded"}, {"failed"})
  <2>1. TurnTable[s] = "ended" /\ TurnTable' = [TurnTable EXCEPT ![s] = "ended"]
    BY <1>2, <1>9, TurnOfValues DEF Moves
  <2>2. TurnTable' = TurnTable
    BY <2>1 DEF TurnTable
  <2>3. UNCHANGED Turns!vars
    BY <1>1, <2>2 DEF Turns!vars, TurnTable, TurnOf
  <2> QED
    BY <2>3
<1> QED
  BY <1>4, <1>5, <1>6, <1>7, <1>8, <1>9 DEF TurnStep

(* The Conversation is a queue of Turns: first come, first served, one at  *)
(* a time, with the Turn that asked its user in front of the others.       *)
THEOREM Refinement == Spec => ImplementsTurns
<1>1. Init => Turns!Init
  BY DEF Init, Turns!Init, NoRun, TerminalRunStatuses
<1>2. ASSUME IInv, IInv', [Next]_vars PROVE [Turns!Next]_(Turns!vars)
  <2>1. CASE NoTurnStep
    <3>1. TurnTable' = TurnTable
      BY <2>1 DEF NoTurnStep, TurnTable
    <3>2. CASE conv'.status = conv.status
      <4>1. UNCHANGED Turns!vars
        BY <3>1, <3>2 DEF Turns!vars, TurnTable, TurnOf
      <4> QED
        BY <4>1
    <3>3. CASE conv.status = "active" /\ conv'.status = "blocked"
      <4>1. Turns!Shut
        BY <3>1, <3>3 DEF Turns!Shut, TurnTable, TurnOf
      <4> QED
        BY <4>1 DEF Turns!Next
    <3> QED
      BY <2>1, <3>2, <3>3 DEF NoTurnStep
  <2>2. CASE \E s \in Seqs : TurnStep(s)
    BY <1>2, <2>2, MapTurn
  <2> QED
    BY <1>2, <2>1, <2>2, EveryStep
<1> QED
  BY <1>1, <1>2, Invariant, PTL DEF Spec, Turns!Spec, ImplementsTurns

=============================================================================
