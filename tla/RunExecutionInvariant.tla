------------------------ MODULE RunExecutionInvariant ------------------------
(***************************************************************************)
(* The inductive invariant of RunExecution.  The properties of that module *)
(* relate the tables to each other; to see that a step preserves them one  *)
(* has to know what a task at a given place may still believe about the    *)
(* tables, which is what TaskInv says.                                     *)
(***************************************************************************)
EXTENDS RunExecution

Approvals(r) == IF plan[r] = "approved" THEN 1 ELSE 0

(* What holds of the stored records of one Run.                            *)
RunInv(r) ==
    /\ run[r].status = "absent" => run[r] = NoRun /\ plan[r] = "none"
    /\ run[r].status = "queued" =>
          /\ run[r].active = 0
          /\ run[r].phase # "waiting_approval"
          /\ run[r].count <= retries[r] + Approvals(r)
    /\ run[r].status = "running" => run[r].phase # "waiting_approval"
    /\ run[r].status = "waiting" => run[r].phase = "waiting_approval"
    /\ run[r].status = "waiting" => plan[r] = "pending"
    /\ run[r].status = "waiting" => run[r].required /\ action[r].status = "pending"
    /\ run[r].phase = "planning" => plan[r] = "none"
    /\ run[r].phase = "executing" => plan[r] = "approved"
    /\ plan[r] = "rejected" =>
          run[r].status = "cancelled" /\ run[r].phase = "waiting_approval"
    /\ run[r].count <= 1 + retries[r] + Approvals(r)
    /\ \A n \in Numbers :
          /\ attempt[r][n].phase = "executing" => plan[r] = "approved"
          /\ attempt[r][n].status = "running"
                <=> run[r].status = "running" /\ n = run[r].active /\ n = run[r].count

(* The task has an Attempt and has not left _execute.                      *)
Executing(w, r) == task[w][r].pc \notin {"idle", "claimed", "begin", "closing"}

(* What a task may rely on.  Revisions tell it whether the status it read  *)
(* is current; a valid lease tells it that its Attempt is the newest one,  *)
(* that no reconciler has settled it and that the phase is unchanged.      *)
TaskInv(w, r) ==
    LET t == task[w][r] IN
    /\ t.pc = "begin" =>
          /\ t.runRev <= run[r].rev
          /\ t.runRev = run[r].rev => run[r].status = "queued"
    /\ t.pc \in {"settle", "failSettle"} =>
          /\ t.runRev <= run[r].rev
          /\ t.runRev = run[r].rev => run[r].status # "cancelled"
    /\ Executing(w, r) =>
          /\ t.number \in 1..run[r].count
          /\ t.phase # "waiting_approval"
    /\ Executing(w, r) /\ LeaseValid(w, r) =>
          /\ t.number = run[r].count
          /\ attempt[r][t.number].worker = w
          /\ attempt[r][t.number].token = t.token
          /\ attempt[r][t.number].status # "interrupted"
          /\ t.pc \in {"started", "dispatched", "accepted", "settle"} =>
                run[r].phase = t.phase

(* Everything the safety theorems of RunExecution rest on: the tables      *)
(* agree, and no task holds a belief that its fence does not back up.      *)
IInv ==
    /\ TypeOK
    /\ \A r \in Runs : RunInv(r)
    /\ \A w \in Workers, r \in Runs : TaskInv(w, r)

(* What the second group of theorems needs besides.  Of the stored records *)
(* of a Run: Attempts are added at the end, under ever larger tokens, and  *)
(* none is over without a dispatch state that says so.                     *)
HistoryInv(r) ==
    /\ plan[r] = "pending" => run[r].phase = "waiting_approval"
    /\ \A n \in Numbers :
          /\ attempt[r][n].status = "none" <=> n > run[r].count
          /\ attempt[r][n].status \in TerminalAttemptStatuses =>
                attempt[r][n].dispatch # "not_sent"
          /\ attempt[r][n].token <= lease[r].token
          /\ \A m \in Numbers :
                m < n /\ n <= run[r].count => attempt[r][m].token < attempt[r][n].token

(* Of a task: until it begins an Attempt its token is larger than those of *)
(* all Attempts; afterwards a valid lease tells it that nobody else has    *)
(* ended the Run, and before its own settlement, that nobody has.          *)
GrantInv(w, r) ==
    LET t == task[w][r] IN
    /\ t.token <= lease[r].token
    /\ t.pc \in {"claimed", "begin"} /\ LeaseValid(w, r) =>
          \A n \in Numbers : n <= run[r].count => attempt[r][n].token < t.token
    /\ Executing(w, r) /\ LeaseValid(w, r) => run[r].status # "failed"
    /\ t.pc \in {"started", "dispatched", "accepted", "settle"} /\ LeaseValid(w, r) =>
          run[r].status \notin {"succeeded", "waiting"}
    /\ t.pc \in {"dispatched", "accepted"} =>
          attempt[r][t.number].dispatch # "not_sent"

(* The inductive invariant of the refinement.                              *)
FullInv ==
    /\ IInv
    /\ \A r \in Runs : HistoryInv(r)
    /\ \A w \in Workers, r \in Runs : GrantInv(w, r)

=============================================================================
