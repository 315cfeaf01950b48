--------------------------- MODULE HeartbeatLease ---------------------------
(***************************************************************************)
(* The lease of one resource in time: Workers claim it, a heartbeat task   *)
(* renews it while the owner task works, and a shutdown stops the          *)
(* heartbeats before the owners.  RunExecution says what an execution may  *)
(* still write once its lease is gone; this module says when it works      *)
(* without one.                                                            *)
(*                                                                         *)
(* Source: worker/service.py and the lease statements of store/postgres.py.*)
(*                                                                         *)
(* Time.  Every deadline is the time left, in units of Tick; expires_at is *)
(* left.  A Worker that keeps up handles what is due before time goes on;  *)
(* one whose event loop is blocked, or whose claim is answered later than  *)
(* a renewal may be, is late.                                              *)
(*                                                                         *)
(* CURRENT_TIMESTAMP is the start of the transaction, which may then wait  *)
(* for the row while another one has locked it (_assert_lease).  Each      *)
(* statement therefore has an age, the time since its start: what it       *)
(* compares and writes is as old as that.                                  *)
(***************************************************************************)
EXTENDS Integers

CONSTANTS
    Workers,
    LeaseSeconds, Interval, Timeout, ShutdownTimeout,   \* WorkerConfig
    MaxToken,       \* bound: claims of the resource
    MaxWait         \* bound: how long a transaction waits for the row

(* __post_init__.                                                          *)
ASSUME ConfigAssumption ==
    /\ LeaseSeconds \in Nat /\ MaxToken \in Nat
    /\ Interval \in Nat \ {0} /\ Timeout \in Nat \ {0}
    /\ ShutdownTimeout \in Nat \ {0}
    /\ Interval + Timeout < LeaseSeconds
    /\ MaxWait \in Nat /\ MaxWait < LeaseSeconds

VARIABLES
    token,      \* lease_token of the row
    left,       \* expires_at - now of the row, down to -MaxWait
    mine,       \* the token in the Worker's last WorkLease, 0 for none
    task,       \* the Worker's claim and then its owner task
    hb,         \* the heartbeat task
    reply,      \* its renew_work_lease
    age,        \* the time since that statement started, -1 before
    timer,      \* until the claim or the renewal is overdue, or the nap ends
    stop,       \* _stop is set
    grace,      \* until close() cancels the tasks
    listed,     \* the owner is one of the tasks close() waits for
    late,       \* the Worker did not keep up since its claim
    stray,      \* renewals that were given up but may be processed
    recovery    \* interrupt_expired_attempts of the token, 0 for none

row == <<token, left>>
call == <<reply, age>>
closing == <<stop, grace, listed>>
vars == <<row, mine, task, hb, call, timer, closing, late, stray, recovery>>

(* claiming: claim_work has committed and is not answered.                 *)
Task == {"none", "claiming", "working", "ending"}

(* An execution waits for its claim, its nap or its renewal.               *)
Timed(w) == task[w] = "claiming" \/ hb[w] # "off"

NoRecovery == [token |-> 0, age |-> 0]

Init ==
    /\ token = 0 /\ left = -MaxWait
    /\ mine = [w \in Workers |-> 0]
    /\ task = [w \in Workers |-> "none"]
    /\ hb = [w \in Workers |-> "off"]
    /\ reply = [w \in Workers |-> "none"]
    /\ age = [w \in Workers |-> -1]
    /\ timer = [w \in Workers |-> 0]
    /\ stop = [w \in Workers |-> FALSE]
    /\ grace = [w \in Workers |-> 0]
    /\ listed = [w \in Workers |-> FALSE]
    /\ late = [w \in Workers |-> FALSE]
    /\ stray = {} /\ recovery = NoRecovery

-----------------------------------------------------------------------------
(* The statements, as they find the row when they have its lock.           *)

(* Fault: an expired lease nobody has claimed is renewed.                  *)
RenewMatchesExpired(t, a) == token = t

(* renew_work_lease of token t, begun a ago: its WHERE clause and its SET. *)
RenewMatches(t, a) == token = t /\ left + a > 0

Renew(t, a) == left' = IF RenewMatches(t, a) THEN LeaseSeconds - a ELSE left

(* release_work_lease.                                                     *)
Release(t, a) == left' = IF token = t THEN -a ELSE left

-----------------------------------------------------------------------------
(* A Worker.                                                               *)

(* claim_work, begun a ago and before the Worker stopped, finds that the   *)
(* lease had expired.                                                      *)
ClaimCommits(w) ==
    \E a \in 0..MaxWait :
        /\ task[w] = "none"
        /\ stop[w] => grace[w] > 0 /\ grace[w] + a >= ShutdownTimeout
        /\ left + a <= 0 /\ token < MaxToken
        /\ token' = token + 1 /\ left' = LeaseSeconds - a
        /\ mine' = [mine EXCEPT ![w] = token + 1]
        /\ task' = [task EXCEPT ![w] = "claiming"]
        /\ timer' = [timer EXCEPT ![w] = IF a < Timeout THEN Timeout - a ELSE 0]
        /\ late' = [late EXCEPT ![w] = a > Timeout]
        /\ listed' = [listed EXCEPT ![w] = FALSE]
        /\ UNCHANGED <<hb, call, stop, grace, stray, recovery>>

(* _claim_available_work starts the owner, without looking at _stop again, *)
(* and _execute_resource its heartbeat, which ends at once if it is set.   *)
ClaimReturns(w) ==
    /\ task[w] = "claiming"
    /\ task' = [task EXCEPT ![w] = "working"]
    /\ IF stop[w]
         THEN UNCHANGED <<hb, timer>>
         ELSE /\ hb' = [hb EXCEPT ![w] = "sleeping"]
              /\ timer' = [timer EXCEPT ![w] = Interval]
    /\ UNCHANGED <<row, mine, call, closing, late, stray, recovery>>

(* _heartbeat has slept and sends the renewal.                             *)
HeartbeatWakes(w) ==
    /\ hb[w] = "sleeping" /\ timer[w] = 0
    /\ hb' = [hb EXCEPT ![w] = "renewing"]
    /\ reply' = [reply EXCEPT ![w] = "pending"]
    /\ timer' = [timer EXCEPT ![w] = Timeout]
    /\ UNCHANGED <<row, mine, task, age, closing, late, stray, recovery>>

(* The statement starts: without a match it returns no row, with one it    *)
(* may have to wait for it.                                                *)
RenewBegins(w) ==
    /\ reply[w] = "pending" /\ age[w] = -1
    /\ IF RenewMatches(mine[w], 0)
         THEN age' = [age EXCEPT ![w] = 0] /\ UNCHANGED reply
         ELSE reply' = [reply EXCEPT ![w] = "lost"] /\ UNCHANGED age
    /\ UNCHANGED <<row, mine, task, hb, timer, closing, late, stray, recovery>>

RenewCommits(w) ==
    /\ reply[w] = "pending" /\ age[w] \in 0..MaxWait
    /\ Renew(mine[w], age[w])
    /\ reply' = [reply EXCEPT ![w] =
                    IF RenewMatches(mine[w], age[w]) THEN "renewed" ELSE "lost"]
    /\ age' = [age EXCEPT ![w] = -1]
    /\ UNCHANGED <<token, mine, task, hb, timer, closing, late, stray, recovery>>

(* The heartbeat sleeps again, unless the Worker stops.                    *)
RenewReturns(w) ==
    /\ hb[w] = "renewing" /\ reply[w] = "renewed"
    /\ reply' = [reply EXCEPT ![w] = "none"]
    /\ IF stop[w]
         THEN hb' = [hb EXCEPT ![w] = "off"] /\ UNCHANGED timer
         ELSE /\ hb' = [hb EXCEPT ![w] = "sleeping"]
              /\ timer' = [timer EXCEPT ![w] = Interval]
    /\ UNCHANGED <<row, mine, task, age, closing, late, stray, recovery>>

(* A renewal on its way is given up, and may be processed all the same.    *)
GiveUpRenewal(w) ==
    /\ hb' = [hb EXCEPT ![w] = "off"]
    /\ reply' = [reply EXCEPT ![w] = "none"]
    /\ age' = [age EXCEPT ![w] = -1]
    /\ stray' = IF reply[w] = "pending"
                  THEN stray \cup {[token |-> mine[w], age |-> age[w]]} ELSE stray

(* The owner ends, and its heartbeat with it.                              *)
OwnerEnds(w) ==
    /\ task' = [task EXCEPT ![w] = "ending"]
    /\ GiveUpRenewal(w)
    /\ UNCHANGED <<row, mine, timer, closing, late, recovery>>

(* renewed is None: owner.cancel().                                        *)
LeaseLost(w) ==
    /\ hb[w] = "renewing" /\ reply[w] = "lost"
    /\ OwnerEnds(w)

(* Fault: a heartbeat that times out tries again.                          *)
RenewFailsOpen(w) ==
    /\ hb[w] = "renewing"
    /\ hb' = [hb EXCEPT ![w] = "sleeping"]
    /\ timer' = [timer EXCEPT ![w] = Interval]
    /\ reply' = [reply EXCEPT ![w] = "none"]
    /\ age' = [age EXCEPT ![w] = -1]
    /\ UNCHANGED <<row, mine, task, closing, late, stray, recovery>>

(* The renewal fails or times out: "Heartbeat failed closed".              *)
RenewFails(w) ==
    /\ hb[w] = "renewing" /\ reply[w] # "lost"
    /\ OwnerEnds(w)

(* Fault: the heartbeat is left to itself.                                 *)
WorkEndsUnheard(w) ==
    /\ task[w] = "working"
    /\ task' = [task EXCEPT ![w] = "ending"]
    /\ UNCHANGED <<row, mine, hb, call, timer, closing, late, stray, recovery>>

(* The execution is over: the finally clause cancels the heartbeat.        *)
WorkEnds(w) ==
    /\ task[w] = "working"
    /\ OwnerEnds(w)

(* release_work_lease, which may fail.                                     *)
OwnerReleases(w) ==
    /\ task[w] = "ending"
    /\ (\E a \in 0..MaxWait : Release(mine[w], a)) \/ UNCHANGED left
    /\ task' = [task EXCEPT ![w] = "none"]
    /\ UNCHANGED <<token, mine, hb, call, timer, closing, late, stray, recovery>>

(* close(): a heartbeat that sleeps returns, one that renews does after    *)
(* its answer.  The owners work on, and close() waits for those there are. *)
Stop(w) ==
    /\ ~stop[w]
    /\ stop' = [stop EXCEPT ![w] = TRUE]
    /\ grace' = [grace EXCEPT ![w] = ShutdownTimeout]
    /\ listed' = [listed EXCEPT ![w] = task[w] = "working"]
    /\ hb' = [hb EXCEPT ![w] = IF @ = "sleeping" THEN "off" ELSE @]
    /\ UNCHANGED <<row, mine, task, call, timer, late, stray, recovery>>

(* close() has waited shutdown_timeout: those owners are cancelled.        *)
CloseCancels(w) ==
    /\ listed[w] /\ grace[w] = 0 /\ task[w] = "working"
    /\ OwnerEnds(w)

(* The process is gone, and another one in its place.                      *)
Restart(w) ==
    /\ mine' = [mine EXCEPT ![w] = 0]
    /\ task' = [task EXCEPT ![w] = "none"]
    /\ stop' = [stop EXCEPT ![w] = FALSE]
    /\ grace' = [grace EXCEPT ![w] = 0]
    /\ listed' = [listed EXCEPT ![w] = FALSE]
    /\ GiveUpRenewal(w)
    /\ UNCHANGED <<row, timer, late, recovery>>

-----------------------------------------------------------------------------
(* Transactions of nobody in particular.                                   *)

(* A renewal that was given up starts, and commits.                        *)
StrayBegins ==
    \E r \in stray :
        /\ r.age = -1
        /\ stray' = (stray \ {r}) \cup
             IF RenewMatches(r.token, 0) THEN {[r EXCEPT !.age = 0]} ELSE {}
        /\ UNCHANGED <<row, mine, task, hb, call, timer, closing, late, recovery>>

StrayCommits ==
    \E r \in stray :
        /\ r.age \in 0..MaxWait
        /\ Renew(r.token, r.age)
        /\ stray' = stray \ {r}
        /\ UNCHANGED <<token, mine, task, hb, call, timer, closing, late, recovery>>

(* interrupt_expired_attempts finds the lease of a RUNNING Attempt expired *)
(* and locks the Attempt; one recovery of a token at a time.               *)
RecoveryBegins ==
    /\ token > 0 /\ left <= 0 /\ recovery.token # token
    /\ recovery' = [token |-> token, age |-> 0]
    /\ UNCHANGED <<row, mine, task, hb, call, timer, closing, late, stray>>

(* It ends with LEAST(expires_at, CURRENT_TIMESTAMP), although the lease   *)
(* may have been renewed in between.                                       *)
RecoveryCommits ==
    /\ recovery.token > 0
    /\ left' = IF recovery.token = token /\ left > -recovery.age
                 THEN -recovery.age ELSE left
    /\ recovery' = NoRecovery
    /\ UNCHANGED <<token, mine, task, hb, call, timer, closing, late, stray>>

-----------------------------------------------------------------------------
(* Time.                                                                   *)

(* Something was to be done by now.                                        *)
Due(w) == \/ Timed(w) /\ timer[w] = 0
          \/ listed[w] /\ grace[w] = 0 /\ task[w] = "working"

Less(n) == IF n > 0 THEN n - 1 ELSE 0

Older(a) == IF a \in 0..MaxWait THEN a + 1 ELSE a

Elapse ==
    /\ left' = IF left > -MaxWait THEN left - 1 ELSE left
    /\ timer' = [w \in Workers |-> Less(timer[w])]
    /\ grace' = [w \in Workers |-> Less(grace[w])]
    /\ age' = [w \in Workers |-> Older(age[w])]
    /\ stray' = {[r EXCEPT !.age = Older(@)] : r \in {q \in stray : q.age < MaxWait}}
    /\ recovery' = IF recovery.token > 0 /\ recovery.age < MaxWait
                     THEN [recovery EXCEPT !.age = @ + 1] ELSE NoRecovery
    /\ UNCHANGED <<token, mine, task, hb, reply, stop, listed>>

Tick == /\ \A w \in Workers : ~Due(w)
        /\ Elapse
        /\ UNCHANGED late

(* Time goes on although some Worker has something to do.                  *)
Stall == /\ \E w \in Workers : Due(w)
         /\ Elapse
         /\ late' = [w \in Workers |-> late[w] \/ Due(w)]

WorkerStep(w) ==
    \/ ClaimCommits(w) \/ ClaimReturns(w)
    \/ HeartbeatWakes(w) \/ RenewBegins(w) \/ RenewCommits(w) \/ RenewReturns(w)
    \/ LeaseLost(w) \/ RenewFails(w)
    \/ WorkEnds(w) \/ OwnerReleases(w)
    \/ Stop(w) \/ CloseCancels(w) \/ Restart(w)

Next ==
    \/ \E w \in Workers : WorkerStep(w)
    \/ StrayBegins \/ StrayCommits
    \/ RecoveryBegins \/ RecoveryCommits
    \/ Tick \/ Stall

Spec == Init /\ [][Next]_vars

(* Time passes, and an event loop runs what is due.                        *)
FairSpec ==
    /\ Spec
    /\ WF_vars(Tick \/ Stall)

-----------------------------------------------------------------------------
(* The variables have their types.                                         *)
TypeOK ==
    /\ token \in Nat /\ left \in -MaxWait..LeaseSeconds
    /\ mine \in [Workers -> Nat]
    /\ task \in [Workers -> Task]
    /\ hb \in [Workers -> {"off", "sleeping", "renewing"}]
    /\ reply \in [Workers -> {"none", "pending", "renewed", "lost"}]
    /\ age \in [Workers -> -1..MaxWait + 1]
    /\ timer \in [Workers -> Nat]
    /\ stop \in [Workers -> BOOLEAN]
    /\ grace \in [Workers -> 0..ShutdownTimeout]
    /\ listed \in [Workers -> BOOLEAN]
    /\ late \in [Workers -> BOOLEAN]
    /\ stray \subseteq [token : Nat, age : -1..MaxWait + 1]
    /\ recovery \in [token : Nat, age : 0..MaxWait]

(* What it takes, beyond __post_init__, for the lease to outlast its       *)
(* heartbeat: a renewal that commits at once and is answered just in time  *)
(* costs one Timeout, the next one, which is never answered, another.  The *)
(* default lengths 30, 10 and 3 do.                                        *)
HeartbeatFits == Interval + Timeout + Timeout < LeaseSeconds

(* The lease outlasts the shutdown of a Worker.                            *)
ShutdownFits == Interval + Timeout + ShutdownTimeout < LeaseSeconds

Holds(w) == token = mine[w] /\ left > 0

(* An owner task works only while its lease is its own and has time left:  *)
(* whatever happens to its renewals, the heartbeat has cancelled it before *)
(* another Worker can claim the resource, or a recovery give it up.  It    *)
(* holds of a Worker that keeps up, if the lease outlasts its heartbeat,   *)
(* and through the shutdown, in which nobody renews any more, if it        *)
(* outlasts that and close() knows of the owner.                           *)
WorksUnderLease ==
    HeartbeatFits => \A w \in Workers :
        task[w] = "working" /\ ~late[w] /\ (stop[w] => listed[w] /\ ShutdownFits)
            => Holds(w)

(* A renewal of the lease that started before the lease expired.           *)
RenewalUnderWay ==
    \/ \E w \in Workers : /\ reply[w] = "pending" /\ age[w] >= 0
                          /\ mine[w] = token /\ left + age[w] > 0
    \/ \E r \in stray : r.age >= 0 /\ r.token = token /\ left + r.age > 0

(* What a Worker sends late changes nothing: a lease is claimed only after *)
(* it has expired, an expired one is revived by nothing but a renewal that *)
(* started in time and waited for the row, and one that is claimed or      *)
(* renewed is cut short only by its owner's release or by a recovery that  *)
(* had found it expired.                                                   *)
LateCallsAreFenced ==
    [][/\ token' # token => left <= 0
       /\ left <= 0 /\ left' > 0 /\ token' = token => RenewalUnderWay
       /\ left > 1 /\ left' <= 0 =>
            \/ recovery.token = token
            \/ \E w \in Workers : mine[w] = token /\ task[w] = "ending"]_vars

(* A lease that no Worker holds any more, because its owner was killed or  *)
(* could not release it, runs out: nothing goes on renewing it.            *)
Orphaned ==
    left > 0 /\ \A w \in Workers : mine[w] = token => task[w] = "none"
OrphansExpire == Orphaned ~> ~Orphaned

=============================================================================
