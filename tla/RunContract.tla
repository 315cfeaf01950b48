----------------------------- MODULE RunContract -----------------------------
(***************************************************************************)
(* What the control plane promises the owner of a standalone Run, without  *)
(* leases, revisions, Attempts or Workers: the states a Run moves through, *)
(* who may move it, and that at any time at most one execution is in a     *)
(* position to report a result for it.                                     *)
(*                                                                         *)
(* The contract is what the code keeps, which is less than its documents   *)
(* say: an execution that was cancelled stays reporting until its Worker   *)
(* lets go, so a retried Run may be ended by the result of the Attempt     *)
(* that was cancelled (Complete, Suspend and Fail from "queued"), and a    *)
(* settled Run may still be failed by the same execution (Fail from        *)
(* "succeeded" and "waiting").                                             *)
(***************************************************************************)

CONSTANT Runs

VARIABLES
    state,      \* the status a caller reads
    decision,   \* the Run's Plan: none, pending, approved or rejected
    reporting   \* an execution can still report a result

vars == <<state, decision, reporting>>

State == {"absent", "queued", "running", "waiting", "succeeded", "failed", "cancelled"}

TypeOK ==
    /\ state \in [Runs -> State]
    /\ decision \in [Runs -> {"none", "pending", "approved", "rejected"}]
    /\ reporting \in [Runs -> BOOLEAN]

Init ==
    /\ state = [r \in Runs |-> "absent"]
    /\ decision = [r \in Runs |-> "none"]
    /\ reporting = [r \in Runs |-> FALSE]

(* The owner's requests.                                                   *)
Submit(r) ==
    /\ state[r] = "absent"
    /\ state' = [state EXCEPT ![r] = "queued"]
    /\ UNCHANGED <<decision, reporting>>

Cancel(r) ==
    /\ state[r] \in {"queued", "running"}
    /\ state' = [state EXCEPT ![r] = "cancelled"]
    /\ UNCHANGED <<decision, reporting>>

Decide(r, verdict, next) ==
    /\ state[r] = "waiting"
    /\ decision[r] = "pending"
    /\ state' = [state EXCEPT ![r] = next]
    /\ decision' = [decision EXCEPT ![r] = verdict]
    /\ UNCHANGED reporting

Retry(r) ==
    /\ state[r] \in {"failed", "cancelled"}
    /\ decision[r] \in {"none", "approved"}
    /\ state' = [state EXCEPT ![r] = "queued"]
    /\ UNCHANGED <<decision, reporting>>

(* Executions.                                                             *)
Start(r) ==
    /\ state[r] = "queued"
    /\ ~reporting[r]
    /\ state' = [state EXCEPT ![r] = "running"]
    /\ reporting' = [reporting EXCEPT ![r] = TRUE]
    /\ UNCHANGED decision

(* An execution is over with its result, or has still to write the events  *)
(* that go with it.                                                        *)
Reported(r) == reporting' \in {reporting, [reporting EXCEPT ![r] = FALSE]}

Complete(r) ==
    /\ reporting[r]
    /\ state[r] \in {"running", "queued"}
    /\ state' = [state EXCEPT ![r] = "succeeded"]
    /\ Reported(r)
    /\ UNCHANGED decision

Suspend(r) ==
    /\ reporting[r]
    /\ state[r] \in {"running", "queued"}
    /\ decision[r] = "none"
    /\ state' = [state EXCEPT ![r] = "waiting"]
    /\ decision' = [decision EXCEPT ![r] = "pending"]
    /\ Reported(r)

Fail(r) ==
    /\ reporting[r]
    /\ state[r] \in {"running", "queued", "succeeded", "waiting"}
    /\ state' = [state EXCEPT ![r] = "failed"]
    /\ reporting' = [reporting EXCEPT ![r] = FALSE]
    /\ UNCHANGED decision

(* The execution is gone: over, crashed, timed out or fenced off.          *)
Vanish(r) ==
    /\ reporting[r]
    /\ reporting' = [reporting EXCEPT ![r] = FALSE]
    /\ UNCHANGED <<state, decision>>

(* Nobody can report any more for a Run that is still running.             *)
Interrupt(r) ==
    /\ state[r] = "running"
    /\ ~reporting[r]
    /\ state' = [state EXCEPT ![r] = "failed"]
    /\ UNCHANGED <<decision, reporting>>

(* A Worker process dies with all its executions.                          *)
VanishAll(S) ==
    /\ \A r \in S : reporting[r]
    /\ reporting' = [r \in Runs |-> IF r \in S THEN FALSE ELSE reporting[r]]
    /\ UNCHANGED <<state, decision>>

(* The only process dies and starts again.                                 *)
Restart ==
    /\ state' = [r \in Runs |-> IF state[r] = "running" THEN "failed" ELSE state[r]]
    /\ reporting' = [r \in Runs |-> FALSE]
    /\ UNCHANGED decision

Next ==
    \/ \E r \in Runs :
          \/ Submit(r) \/ Cancel(r) \/ Retry(r)
          \/ Decide(r, "approved", "queued") \/ Decide(r, "rejected", "cancelled")
          \/ Start(r) \/ Complete(r) \/ Suspend(r) \/ Fail(r)
          \/ Vanish(r) \/ Interrupt(r)
    \/ \E S \in SUBSET Runs : VanishAll(S)
    \/ Restart

Spec == Init /\ [][Next]_vars

=============================================================================
