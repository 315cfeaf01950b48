------------------------------ MODULE TurnQueue ------------------------------
(***************************************************************************)
(* What a Conversation promises about the order of its Turns, without      *)
(* Workers, leases, revisions or transactions: a first-come-first-served   *)
(* queue with one server, in which the Turn being served may be suspended  *)
(* to ask its user something.  A suspended Turn keeps the server; when it  *)
(* is answered it is first in line again.  Whether the queue still accepts *)
(* Turns is one flag, which never comes back.                              *)
(***************************************************************************)
EXTENDS Naturals

CONSTANT Seqs       \* sequence numbers, in the order of submission

VARIABLES
    turn,           \* absent, queued, active, suspended or ended
    open            \* the Conversation accepts Runs

vars == <<turn, open>>

Init ==
    /\ turn = [s \in Seqs |-> "absent"]
    /\ open = TRUE

Served == {s \in Seqs : turn[s] \in {"active", "suspended"}}

(* A new Turn gets the next sequence number.  None is accepted behind a    *)
(* question that nobody has answered.                                      *)
Append(s) ==
    /\ open
    /\ \A t \in Seqs : turn[t] = "absent" <=> s <= t
    /\ \A t \in Seqs : turn[t] # "suspended"
    /\ turn' = [turn EXCEPT ![s] = "queued"]
    /\ UNCHANGED open

(* First come, first served, one at a time.                                *)
Start(s) ==
    /\ turn[s] = "queued"
    /\ Served = {}
    /\ \A t \in Seqs : turn[t] = "queued" => s <= t
    /\ turn' = [turn EXCEPT ![s] = "active"]
    /\ UNCHANGED open

Suspend(s) ==
    /\ turn[s] = "active"
    /\ turn' = [turn EXCEPT ![s] = "suspended"]
    /\ UNCHANGED open

Answer(s) ==
    /\ turn[s] = "suspended"
    /\ turn' = [turn EXCEPT ![s] = "queued"]
    /\ UNCHANGED open

(* Completed, failed, cancelled, interrupted or expired.  The end of a     *)
(* Turn may shut the queue.                                                *)
End(s) ==
    /\ turn[s] \in {"queued", "active", "suspended"}
    /\ turn' = [turn EXCEPT ![s] = "ended"]
    /\ open' \in {open, FALSE}

Shut ==
    /\ open
    /\ open' = FALSE
    /\ UNCHANGED turn

Next ==
    \/ \E s \in Seqs : Append(s) \/ Start(s) \/ Suspend(s) \/ Answer(s) \/ End(s)
    \/ Shut

Spec == Init /\ [][Next]_vars

=============================================================================
