------------------------------ MODULE RowLocks ------------------------------
(***************************************************************************)
(* The transactions of store/postgres.py in the first Attempt of a Run:    *)
(* which rows of leases, Runs and Attempts each locks, in which order, and *)
(* what it has checked when it gets them.  RunExecution and                *)
(* ConversationRuns take each transaction as one step; this module shows   *)
(* what that rests on and where transactions wait for each other.          *)
(*                                                                         *)
(* Left out are INSERTs, for which those that could insert the same row    *)
(* wait at the lease, and the rows of RequiredActions and Plans.  Nobody   *)
(* locks these before the question is stored: then begin_attempt after an  *)
(* answer, and a cancel, lock the RequiredAction last.  The transactions   *)
(* of a Run that is WAITING (answer_required_action, decide_plan, cancel), *)
(* complete_planning, which locks as settle_attempt does, and              *)
(* replace_attempt, which is its beginning, are not here.                  *)
(*                                                                         *)
(* Isolation is READ COMMITTED: a statement that waited for a row sees the *)
(* row as the other transaction left it.  PostgreSQL (external) aborts one *)
(* transaction of every cycle of waits.                                    *)
(*                                                                         *)
(* Data.  Every transaction here moves the status of its Run, so that a    *)
(* revision is a status.  CURRENT_TIMESTAMP is the start of a transaction: *)
(* of a lease it only matters whether it had expired by then.              *)
(***************************************************************************)
EXTENDS Naturals, Sequences, FiniteSets

CONSTANTS
    Runs,           \* Runs of one Conversation, which share its lease
    Txns,           \* transactions under way at a time
    None,
    MaxToken        \* bound: claims of the lease

ASSUME ConstantsAssumption == None \notin Txns /\ MaxToken \in Nat

VARIABLES
    status,         \* of the Runs and their newest Attempts
    outcome,        \* which transaction ended the Attempt
    attemptToken,   \* lease_token of the Attempt
    lease,          \* the lease's row: its token, and whether it has expired
    holder,         \* the transaction that has locked a row
    txn             \* the transactions

vars == <<status, outcome, attemptToken, lease, holder, txn>>

Lease == <<"lease">>
Run(r) == <<"run", r>>
Attempt(r) == <<"attempt", r>>
Rows == {Lease} \cup {Run(r) : r \in Runs} \cup {Attempt(r) : r \in Runs}

Outsiders == {"claim", "cancel", "recover"}
Kind == Outsiders \cup {"begin", "settle", "ask", "renew"}

(* todo: the rows still to be locked, in this order.  runs: the Runs it is *)
(* about.  expired: the lease had expired before the transaction started.  *)
Idle == [kind |-> "none", runs |-> {}, token |-> 0, todo |-> << >>,
         seen |-> "none", expired |-> FALSE]

Init ==
    /\ status = [r \in Runs |-> "queued"]
    /\ outcome = [r \in Runs |-> "none"]
    /\ attemptToken = [r \in Runs |-> 0]
    /\ lease = [token |-> 0, expired |-> TRUE]
    /\ holder = [row \in Rows |-> None]
    /\ txn = [t \in Txns |-> Idle]

-----------------------------------------------------------------------------
(* The order of the locks.                                                 *)

(* begin_attempt: _assert_lease, the INSERT of the Attempt, _update_run.   *)
BeginOrder(r) == <<Lease, Run(r)>>

(* Fault: the Attempt is updated before the lease is checked.              *)
AttemptFirst(r) == <<Attempt(r), Lease, Run(r)>>

(* settle_attempt of a Worker: _assert_lease, _update_attempt, _update_run.*)
SettleOrder(r) == <<Lease, Attempt(r), Run(r)>>

(* enter_required_action: _assert_lease, then the Run before the Attempt.  *)
AskOrder(r) == <<Lease, Run(r), Attempt(r)>>

(* settle_attempt and replace_run of a client that cancels: no lease.      *)
CancelOrder(r) ==
    IF status[r] = "running" THEN <<Attempt(r), Run(r)>> ELSE <<Run(r)>>

-----------------------------------------------------------------------------
(* Transactions start.  The status is what the caller has read before.     *)

Starts(t, kind, runs, token, todo, seen) ==
    /\ txn[t].kind = "none"
    /\ txn' = [txn EXCEPT ![t] = [kind |-> kind, runs |-> runs, token |-> token,
                                  todo |-> todo, seen |-> seen,
                                  expired |-> lease.expired]]
    /\ UNCHANGED <<status, outcome, attemptToken, lease>>

BeginStarts(t, r, k) ==
    /\ status[r] = "queued"
    /\ Starts(t, "begin", {r}, k, BeginOrder(r), "queued")
    /\ UNCHANGED holder

SettleStarts(t, r) ==
    /\ status[r] = "running"
    /\ Starts(t, "settle", {r}, attemptToken[r], SettleOrder(r), "running")
    /\ UNCHANGED holder

AskStarts(t, r) ==
    /\ status[r] = "running"
    /\ Starts(t, "ask", {r}, attemptToken[r], AskOrder(r), "running")
    /\ UNCHANGED holder

CancelStarts(t, r) ==
    /\ status[r] \in {"queued", "running"}
    /\ Starts(t, "cancel", {r}, 0, CancelOrder(r), status[r])
    /\ UNCHANGED holder

(* renew_work_lease, one statement.                                        *)
RenewStarts(t, k) ==
    /\ Starts(t, "renew", {}, k, <<Lease>>, "none")
    /\ UNCHANGED holder

Locked(rows, t) == [row \in Rows |-> IF row \in rows THEN t ELSE holder[row]]

Unlocked(row) == holder[row] = None

(* The NOT EXISTS of claim_work; a unique index for begin_attempt.         *)
NoneActive == \A r \in Runs : status[r] \notin {"running", "waiting"}

(* claim_work: FOR UPDATE SKIP LOCKED of the QUEUED Runs, unless another   *)
(* Run of the Conversation is active; then the upsert of the lease.        *)
ClaimStarts(t) ==
    LET candidates == {r \in Runs : status[r] = "queued" /\ Unlocked(Run(r))}
    IN  /\ NoneActive
        /\ candidates # {}
        /\ Starts(t, "claim", candidates, 0, <<Lease>>, "queued")
        /\ holder' = Locked({Run(r) : r \in candidates}, t)

(* interrupt_expired_attempts: FOR UPDATE OF r, a SKIP LOCKED, of what has *)
(* lost its lease; then its UPDATE of the lease if the token is current.   *)
RecoverStarts(t, r) ==
    /\ status[r] = "running"
    /\ attemptToken[r] # lease.token \/ lease.expired
    /\ Unlocked(Run(r)) /\ Unlocked(Attempt(r))
    /\ Starts(t, "recover", {r}, attemptToken[r],
              IF attemptToken[r] = lease.token THEN <<Lease>> ELSE << >>, "running")
    /\ holder' = Locked({Run(r), Attempt(r)}, t)

-----------------------------------------------------------------------------
(* Transactions go on.                                                     *)

NextRow(t) == Head(txn[t].todo)

(* Fault: the revision is not compared.                                    *)
RevisionIgnored(t) == TRUE

(* The WHERE clause of _update_run and _update_attempt.                    *)
RevisionMatches(t) == \A r \in txn[t].runs : status[r] = txn[t].seen

(* _assert_lease: the token, and expires_at > CURRENT_TIMESTAMP.           *)
LeaseAsserted(t) == lease.token = txn[t].token /\ ~txn[t].expired

Passes(t) ==
    CASE txn[t].kind \in {"claim", "recover", "renew"} -> TRUE
      [] NextRow(t) = Lease -> LeaseAsserted(t)
      [] OTHER -> RevisionMatches(t) /\ (txn[t].kind = "begin" => NoneActive)

(* A statement gets its row and finds what it expects.                     *)
Locks(t) ==
    /\ txn[t].todo # << >>
    /\ Unlocked(NextRow(t)) /\ Passes(t)
    /\ holder' = [holder EXCEPT ![NextRow(t)] = t]
    /\ txn' = [txn EXCEPT ![t].todo = Tail(@)]
    /\ UNCHANGED <<status, outcome, attemptToken, lease>>

Ends(t) ==
    /\ holder' = [row \in Rows |-> IF holder[row] = t THEN None ELSE holder[row]]
    /\ txn' = [txn EXCEPT ![t] = Idle]

(* The lease gets a new expires_at, which lies after the start of every    *)
(* transaction under way.                                                  *)
EndsWithLease(t, row) ==
    /\ lease' = row
    /\ holder' = [x \in Rows |-> IF holder[x] = t THEN None ELSE holder[x]]
    /\ txn' = [u \in Txns |-> IF u = t THEN Idle
                              ELSE [txn[u] EXCEPT !.expired = FALSE]]

(* LeaseLostError or RevisionConflictError.  A statement waits only for a  *)
(* row that matches as it was last committed.                              *)
RollsBack(t) ==
    /\ txn[t].todo # << >> /\ ~Passes(t)
    /\ Ends(t)
    /\ UNCHANGED <<status, outcome, attemptToken, lease>>

(* The status a transaction gives its Runs.                                *)
Moved(t, to) == status' = [r \in Runs |-> IF r \in txn[t].runs THEN to ELSE status[r]]

Outcome(t, what) ==
    outcome' = [r \in Runs |-> IF r \in txn[t].runs THEN what ELSE outcome[r]]

Ready(t, kind) == txn[t].kind = kind /\ txn[t].todo = << >>

(* The upsert's WHERE: expired before the transaction started, and not     *)
(* claimed or renewed since.                                               *)
ClaimCommits(t) ==
    /\ Ready(t, "claim")
    /\ IF txn[t].expired /\ lease.expired /\ lease.token < MaxToken
         THEN EndsWithLease(t, [token |-> lease.token + 1, expired |-> FALSE])
         ELSE Ends(t) /\ UNCHANGED lease
    /\ UNCHANGED <<status, outcome, attemptToken>>

BeginCommits(t) ==
    /\ Ready(t, "begin")
    /\ Moved(t, "running")
    /\ attemptToken' = [r \in Runs |-> IF r \in txn[t].runs THEN txn[t].token
                                       ELSE attemptToken[r]]
    /\ Ends(t)
    /\ UNCHANGED <<outcome, lease>>

SettleCommits(t) ==
    /\ Ready(t, "settle")
    /\ Moved(t, "ended") /\ Outcome(t, "settled")
    /\ Ends(t)
    /\ UNCHANGED <<attemptToken, lease>>

AskCommits(t) ==
    /\ Ready(t, "ask")
    /\ Moved(t, "waiting") /\ Outcome(t, "asked")
    /\ Ends(t)
    /\ UNCHANGED <<attemptToken, lease>>

CancelCommits(t) ==
    /\ Ready(t, "cancel")
    /\ Moved(t, "ended") /\ Outcome(t, "cancelled")
    /\ Ends(t)
    /\ UNCHANGED <<attemptToken, lease>>

(* LEAST(expires_at, CURRENT_TIMESTAMP): a lease renewed meanwhile expires.*)
RecoverCommits(t) ==
    /\ Ready(t, "recover")
    /\ Moved(t, "ended") /\ Outcome(t, "recovered")
    /\ lease' = IF lease.token = txn[t].token THEN [lease EXCEPT !.expired = TRUE]
                ELSE lease
    /\ Ends(t)
    /\ UNCHANGED attemptToken

(* A renewal that started before the lease expired and waited for its row  *)
(* renews it.                                                              *)
RenewCommits(t) ==
    /\ Ready(t, "renew")
    /\ IF LeaseAsserted(t)
         THEN EndsWithLease(t, [lease EXCEPT !.expired = FALSE])
         ELSE Ends(t) /\ UNCHANGED lease
    /\ UNCHANGED <<status, outcome, attemptToken>>

(* Time passes: the lease expires.                                         *)
Expires ==
    /\ ~lease.expired
    /\ lease' = [lease EXCEPT !.expired = TRUE]
    /\ UNCHANGED <<status, outcome, attemptToken, holder, txn>>

-----------------------------------------------------------------------------
(* Waits.                                                                  *)

WaitsFor(t, u) ==
    txn[t].todo # << >> /\ Passes(t) /\ holder[NextRow(t)] = u /\ u # t

(* A set of transactions that wait for each other and nobody else.         *)
Cycle(c) == c # {} /\ \A t \in c : \E u \in c : WaitsFor(t, u)

(* The deadlock detector.                                                  *)
DeadlockAborts(t) ==
    /\ \E c \in SUBSET Txns : t \in c /\ Cycle(c)
    /\ Ends(t)
    /\ UNCHANGED <<status, outcome, attemptToken, lease>>

TxnStep(t) ==
    \/ Locks(t) \/ RollsBack(t) \/ DeadlockAborts(t)
    \/ ClaimCommits(t) \/ BeginCommits(t) \/ SettleCommits(t) \/ AskCommits(t)
    \/ CancelCommits(t) \/ RecoverCommits(t) \/ RenewCommits(t)

Start(t) ==
    \/ ClaimStarts(t)
    \/ \E k \in 1..MaxToken : RenewStarts(t, k)
    \/ \E r \in Runs :
          \/ \E k \in 1..MaxToken : BeginStarts(t, r, k)
          \/ SettleStarts(t, r) \/ AskStarts(t, r) \/ CancelStarts(t, r)
          \/ RecoverStarts(t, r)

Next == (\E t \in Txns : Start(t) \/ TxnStep(t)) \/ Expires

Spec == Init /\ [][Next]_vars

-----------------------------------------------------------------------------
(* The variables have their types, and a lock belongs to a transaction.    *)
TypeOK ==
    /\ status \in [Runs -> {"queued", "running", "waiting", "ended"}]
    /\ outcome \in [Runs -> {"none", "settled", "asked", "cancelled", "recovered"}]
    /\ attemptToken \in [Runs -> 0..MaxToken]
    /\ lease \in [token: 0..MaxToken, expired: BOOLEAN]
    /\ holder \in [Rows -> Txns \cup {None}]
    /\ \A row \in Rows : holder[row] # None => txn[holder[row]].kind # "none"
    /\ \A t \in Txns : txn[t].kind \in Kind \cup {"none"} /\ txn[t].runs \subseteq Runs

(* Transactions that lock the lease first never deadlock with each other:  *)
(* begin_attempt, settle_attempt, enter_required_action and the heartbeat. *)
(* In every cycle of waits there is one that comes to the rows another way:*)
(* a claim, a recovery, or a client that cancels.                          *)
CyclesNeedAnOutsider ==
    \A c \in SUBSET Txns : Cycle(c) => \E t \in c : txn[t].kind \in Outsiders

(* What a transaction has checked still holds when it commits, although    *)
(* its statements are interleaved with those of others: an Attempt has one *)
(* outcome, a Run that is being begun has not been begun, cancelled or     *)
(* ended, and what a Worker commits it commits under the current token.    *)
CommitsStand ==
    /\ \A r \in Runs : outcome[r] # "none" <=> status[r] \in {"waiting", "ended"}
    /\ \A t \in Txns :
          txn[t].todo = << >> /\ txn[t].kind \in {"begin", "settle", "ask", "cancel", "recover"}
            => /\ \A r \in txn[t].runs : status[r] = txn[t].seen
               /\ txn[t].kind \in {"begin", "settle", "ask"} => lease.token = txn[t].token

=============================================================================
