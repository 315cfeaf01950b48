------------------------ MODULE HeartbeatLeaseProofs ------------------------
(***************************************************************************)
(* Proofs about HeartbeatLease, for every number of Workers and all        *)
(* lengths of lease, interval and time-outs that WorkerConfig accepts.     *)
(*                                                                         *)
(* The argument: a Worker that keeps up has, at each point of its cycle, a *)
(* lower bound on the time its lease has left (InTime), no other Worker or *)
(* renewal that was given up has its token (Tokens), and no recovery finds *)
(* its lease expired (Mine).                                               *)
(***************************************************************************)
EXTENDS HeartbeatLease, TLAPS

(* The heartbeat lives no longer than the owner, and not through the nap   *)
(* of a Worker that stops.                                                 *)
Structure ==
    \A w \in Workers :
        /\ hb[w] # "off" => task[w] = "working"
        /\ hb[w] = "sleeping" => ~stop[w]
        /\ task[w] = "working" /\ hb[w] = "off" => stop[w]
        /\ reply[w] # "none" => hb[w] = "renewing"
        /\ hb[w] = "renewing" => reply[w] # "none" /\ timer[w] <= Timeout
        /\ reply[w] # "pending" => age[w] = -1
        /\ listed[w] => stop[w]
        /\ task[w] = "claiming" => ~listed[w]

(* Tokens are handed out once.                                             *)
Tokens ==
    /\ recovery.token <= token
    /\ \A w \in Workers : mine[w] <= token
    /\ \A w \in Workers : task[w] # "none" => mine[w] > 0
    /\ \A v, w \in Workers : v # w /\ mine[v] > 0 => mine[v] # mine[w]
    /\ \A r \in stray : r.token <= token
    /\ \A r \in stray, w \in Workers :
          task[w] \in {"claiming", "working"} => r.token # mine[w]

(* The lease is the Worker's, and no recovery is under way.                *)
Mine(w) == token = mine[w] /\ recovery.token # token

(* What is left of the lease at each point of the cycle.                   *)
InTime(w) ==
    /\ task[w] = "claiming" =>
         Mine(w) /\ left + Timeout >= LeaseSeconds + timer[w]
    /\ hb[w] = "sleeping" =>
         Mine(w) /\ left + Timeout + Interval >= LeaseSeconds + timer[w]
    /\ reply[w] = "pending" =>
         /\ Mine(w) /\ left > timer[w]
         /\ age[w] >= 0 => age[w] + timer[w] <= Timeout
    /\ reply[w] = "renewed" =>
         Mine(w) /\ left + Timeout >= LeaseSeconds + timer[w]
    /\ reply[w] # "lost"
    /\ task[w] = "working" /\ hb[w] = "off" /\ listed[w] /\ ShutdownFits =>
         Mine(w) /\ left > grace[w]

IInv ==
    /\ TypeOK
    /\ Structure
    /\ Tokens
    /\ HeartbeatFits => \A w \in Workers : ~late[w] => InTime(w)

-----------------------------------------------------------------------------
(* The initial state satisfies the inductive invariant.                    *)
LEMMA InitIInv == Init => IInv
<1> SUFFICES ASSUME Init PROVE IInv
  OBVIOUS
<1>1. TypeOK
  BY ConfigAssumption DEF Init, TypeOK, Task, NoRecovery
<1>2. Structure
  BY DEF Init, Structure
<1>3. Tokens
  BY DEF Init, Tokens, NoRecovery
<1>4. \A w \in Workers : InTime(w)
  BY DEF Init, InTime
<1> QED
  BY <1>1, <1>2, <1>3, <1>4 DEF IInv

(* Every step of a Worker preserves it.                                    *)
LEMMA WorkerStepIInv ==
    ASSUME IInv, NEW u \in Workers, WorkerStep(u)
    PROVE  IInv'
<1> USE ConfigAssumption DEF row, call, closing, HeartbeatFits
<1>1. CASE ClaimCommits(u)
  <2>1. TypeOK'
    BY <1>1 DEF IInv, TypeOK, Task, ClaimCommits
  <2>2. Structure'
    BY <1>1 DEF IInv, TypeOK, Structure, ClaimCommits
  <2>3. Tokens'
    BY <1>1 DEF IInv, TypeOK, Structure, Tokens, ClaimCommits
  <2>4. ASSUME HeartbeatFits, NEW w \in Workers, ~late'[w] PROVE InTime(w)'
    <3>1. PICK a \in 0..MaxWait :
            /\ left + a <= 0 /\ left' = LeaseSeconds - a
            /\ token' = token + 1
            /\ mine' = [mine EXCEPT ![u] = token + 1]
            /\ task[u] = "none" /\ task' = [task EXCEPT ![u] = "claiming"]
            /\ timer' = [timer EXCEPT ![u] = IF a < Timeout THEN Timeout - a ELSE 0]
            /\ late' = [late EXCEPT ![u] = a > Timeout]
            /\ listed' = [listed EXCEPT ![u] = FALSE]
            /\ UNCHANGED <<hb, reply, age, stop, grace, stray, recovery>>
      BY <1>1 DEF ClaimCommits
    <3>2. CASE w = u
      <4>1. a <= Timeout /\ hb[u] = "off" /\ reply[u] = "none"
        <5>1. late'[u] = (a > Timeout)
          BY <3>1 DEF IInv, TypeOK
        <5>2. hb[u] = "off" /\ reply[u] = "none"
          BY <3>1 DEF IInv, TypeOK, Structure
        <5>3. ~(a > Timeout)
          BY <2>4, <3>2, <5>1, Zenon
        <5> QED
          BY <5>2, <5>3
      <4>2. Mine(u)' /\ task'[u] = "claiming"
        BY <3>1 DEF IInv, TypeOK, Tokens, Mine
      <4>3. left' + Timeout >= LeaseSeconds + timer'[u]
        BY <3>1, <4>1 DEF IInv, TypeOK
      <4> QED
        BY <3>1, <3>2, <4>1, <4>2, <4>3 DEF InTime
    <3>3. CASE w # u
      <4>1. InTime(w) /\ left <= 0
        BY <2>4, <3>1, <3>3 DEF IInv, TypeOK
      <4>2. /\ task'[w] = task[w] /\ task[w] # "claiming"
            /\ hb'[w] = hb[w] /\ hb[w] # "sleeping"
            /\ reply'[w] = reply[w] /\ reply[w] \notin {"pending", "renewed", "lost"}
            /\ listed'[w] = listed[w]
        BY <3>1, <3>3, <4>1 DEF IInv, TypeOK, InTime
      <4>3. ~(task[w] = "working" /\ hb[w] = "off" /\ listed[w] /\ ShutdownFits)
        BY <4>1 DEF IInv, TypeOK, InTime
      <4> QED
        BY <4>2, <4>3 DEF InTime, ShutdownFits
    <3> QED
      BY <3>2, <3>3
  <2> QED
    BY <2>1, <2>2, <2>3, <2>4 DEF IInv
<1>2. CASE ClaimReturns(u)
  <2>1. TypeOK'
    BY <1>2 DEF IInv, TypeOK, Task, ClaimReturns
  <2>2. Structure'
    BY <1>2 DEF IInv, TypeOK, Structure, ClaimReturns
  <2>3. Tokens'
    BY <1>2 DEF IInv, TypeOK, Structure, Tokens, ClaimReturns
  <2>4. ASSUME HeartbeatFits, NEW w \in Workers, ~late'[w] PROVE InTime(w)'
    BY <1>2, <2>4 DEF IInv, TypeOK, Structure, Tokens, InTime, Mine, ShutdownFits, ClaimReturns
  <2> QED
    BY <2>1, <2>2, <2>3, <2>4 DEF IInv
<1>3. CASE HeartbeatWakes(u)
  <2>1. TypeOK'
    BY <1>3 DEF IInv, TypeOK, Task, HeartbeatWakes
  <2>2. Structure'
    BY <1>3 DEF IInv, TypeOK, Structure, HeartbeatWakes
  <2>3. Tokens'
    BY <1>3 DEF IInv, TypeOK, Structure, Tokens, HeartbeatWakes
  <2>4. ASSUME HeartbeatFits, NEW w \in Workers, ~late'[w] PROVE InTime(w)'
    BY <1>3, <2>4 DEF IInv, TypeOK, Structure, Tokens, InTime, Mine, ShutdownFits, HeartbeatWakes
  <2> QED
    BY <2>1, <2>2, <2>3, <2>4 DEF IInv
<1>4. CASE RenewBegins(u)
  <2>1. TypeOK'
    BY <1>4 DEF IInv, TypeOK, Task, RenewBegins, RenewMatches
  <2>2. Structure'
    BY <1>4 DEF IInv, TypeOK, Structure, RenewBegins, RenewMatches
  <2>3. Tokens'
    BY <1>4 DEF IInv, TypeOK, Structure, Tokens, RenewBegins, RenewMatches
  <2>4. ASSUME HeartbeatFits, NEW w \in Workers, ~late'[w] PROVE InTime(w)'
    BY <1>4, <2>4 DEF IInv, TypeOK, Structure, Tokens, InTime, Mine, ShutdownFits, RenewBegins, RenewMatches
  <2> QED
    BY <2>1, <2>2, <2>3, <2>4 DEF IInv
<1>5. CASE RenewCommits(u)
  <2>1. TypeOK'
    BY <1>5 DEF IInv, TypeOK, Task, RenewCommits, RenewMatches, Renew
  <2>2. Structure'
    BY <1>5 DEF IInv, TypeOK, Structure, RenewCommits, RenewMatches, Renew
  <2>3. Tokens'
    BY <1>5 DEF IInv, TypeOK, Structure, Tokens, RenewCommits, RenewMatches, Renew
  <2>4. ASSUME HeartbeatFits, NEW w \in Workers, ~late'[w] PROVE InTime(w)'
    BY <1>5, <2>4 DEF IInv, TypeOK, Structure, Tokens, InTime, Mine, ShutdownFits, RenewCommits, RenewMatches, Renew
  <2> QED
    BY <2>1, <2>2, <2>3, <2>4 DEF IInv
<1>6. CASE RenewReturns(u)
  <2>1. TypeOK'
    BY <1>6 DEF IInv, TypeOK, Task, RenewReturns
  <2>2. Structure'
    BY <1>6 DEF IInv, TypeOK, Structure, RenewReturns
  <2>3. Tokens'
    BY <1>6 DEF IInv, TypeOK, Structure, Tokens, RenewReturns
  <2>4. ASSUME HeartbeatFits, NEW w \in Workers, ~late'[w] PROVE InTime(w)'
    BY <1>6, <2>4 DEF IInv, TypeOK, Structure, Tokens, InTime, Mine, ShutdownFits, RenewReturns
  <2> QED
    BY <2>1, <2>2, <2>3, <2>4 DEF IInv
<1>7. CASE LeaseLost(u)
  <2>1. TypeOK'
    <3>1. stray' \subseteq [token : Nat, age : -1..MaxWait + 1]
      BY <1>7 DEF IInv, TypeOK, LeaseLost, OwnerEnds, GiveUpRenewal
    <3> QED
      BY <1>7, <3>1 DEF IInv, TypeOK, Task, LeaseLost, OwnerEnds, GiveUpRenewal
  <2>2. Structure'
    BY <1>7 DEF IInv, TypeOK, Structure, LeaseLost, OwnerEnds, GiveUpRenewal
  <2>3. Tokens'
    BY <1>7 DEF IInv, TypeOK, Structure, Tokens, LeaseLost, OwnerEnds, GiveUpRenewal
  <2>4. ASSUME HeartbeatFits, NEW w \in Workers, ~late'[w] PROVE InTime(w)'
    BY <1>7, <2>4 DEF IInv, TypeOK, Structure, Tokens, InTime, Mine, ShutdownFits, LeaseLost, OwnerEnds, GiveUpRenewal
  <2> QED
    BY <2>1, <2>2, <2>3, <2>4 DEF IInv
<1>8. CASE RenewFails(u)
  <2>1. TypeOK'
    <3>1. stray' \subseteq [token : Nat, age : -1..MaxWait + 1]
      BY <1>8 DEF IInv, TypeOK, RenewFails, OwnerEnds, GiveUpRenewal
    <3> QED
      BY <1>8, <3>1 DEF IInv, TypeOK, Task, RenewFails, OwnerEnds, GiveUpRenewal
  <2>2. Structure'
    BY <1>8 DEF IInv, TypeOK, Structure, RenewFails, OwnerEnds, GiveUpRenewal
  <2>3. Tokens'
    BY <1>8 DEF IInv, TypeOK, Structure, Tokens, RenewFails, OwnerEnds, GiveUpRenewal
  <2>4. ASSUME HeartbeatFits, NEW w \in Workers, ~late'[w] PROVE InTime(w)'
    BY <1>8, <2>4 DEF IInv, TypeOK, Structure, Tokens, InTime, Mine, ShutdownFits, RenewFails, OwnerEnds, GiveUpRenewal
  <2> QED
    BY <2>1, <2>2, <2>3, <2>4 DEF IInv
<1>9. CASE WorkEnds(u)
  <2>1. TypeOK'
    <3>1. stray' \subseteq [token : Nat, age : -1..MaxWait + 1]
      BY <1>9 DEF IInv, TypeOK, WorkEnds, OwnerEnds, GiveUpRenewal
    <3> QED
      BY <1>9, <3>1 DEF IInv, TypeOK, Task, WorkEnds, OwnerEnds, GiveUpRenewal
  <2>2. Structure'
    BY <1>9 DEF IInv, TypeOK, Structure, WorkEnds, OwnerEnds, GiveUpRenewal
  <2>3. Tokens'
    BY <1>9 DEF IInv, TypeOK, Structure, Tokens, WorkEnds, OwnerEnds, GiveUpRenewal
  <2>4. ASSUME HeartbeatFits, NEW w \in Workers, ~late'[w] PROVE InTime(w)'
    BY <1>9, <2>4 DEF IInv, TypeOK, Structure, Tokens, InTime, Mine, ShutdownFits, WorkEnds, OwnerEnds, GiveUpRenewal
  <2> QED
    BY <2>1, <2>2, <2>3, <2>4 DEF IInv
<1>10. CASE OwnerReleases(u)
  <2>1. TypeOK'
    BY <1>10 DEF IInv, TypeOK, Task, OwnerReleases, Release
  <2>2. Structure'
    BY <1>10 DEF IInv, TypeOK, Structure, OwnerReleases, Release
  <2>3. Tokens'
    BY <1>10 DEF IInv, TypeOK, Structure, Tokens, OwnerReleases, Release
  <2>4. ASSUME HeartbeatFits, NEW w \in Workers, ~late'[w] PROVE InTime(w)'
    BY <1>10, <2>4 DEF IInv, TypeOK, Structure, Tokens, InTime, Mine, ShutdownFits, OwnerReleases, Release
  <2> QED
    BY <2>1, <2>2, <2>3, <2>4 DEF IInv
<1>11. CASE Stop(u)
  <2>1. TypeOK'
    BY <1>11 DEF IInv, TypeOK, Task, Stop
  <2>2. Structure'
    BY <1>11 DEF IInv, TypeOK, Structure, Stop
  <2>3. Tokens'
    BY <1>11 DEF IInv, TypeOK, Structure, Tokens, Stop
  <2>4. ASSUME HeartbeatFits, NEW w \in Workers, ~late'[w] PROVE InTime(w)'
    BY <1>11, <2>4 DEF IInv, TypeOK, Structure, Tokens, InTime, Mine, ShutdownFits, Stop
  <2> QED
    BY <2>1, <2>2, <2>3, <2>4 DEF IInv
<1>12. CASE CloseCancels(u)
  <2>1. TypeOK'
    <3>1. stray' \subseteq [token : Nat, age : -1..MaxWait + 1]
      BY <1>12 DEF IInv, TypeOK, CloseCancels, OwnerEnds, GiveUpRenewal
    <3> QED
      BY <1>12, <3>1 DEF IInv, TypeOK, Task, CloseCancels, OwnerEnds, GiveUpRenewal
  <2>2. Structure'
    BY <1>12 DEF IInv, TypeOK, Structure, CloseCancels, OwnerEnds, GiveUpRenewal
  <2>3. Tokens'
    BY <1>12 DEF IInv, TypeOK, Structure, Tokens, CloseCancels, OwnerEnds, GiveUpRenewal
  <2>4. ASSUME HeartbeatFits, NEW w \in Workers, ~late'[w] PROVE InTime(w)'
    BY <1>12, <2>4 DEF IInv, TypeOK, Structure, Tokens, InTime, Mine, ShutdownFits, CloseCancels, OwnerEnds, GiveUpRenewal
  <2> QED
    BY <2>1, <2>2, <2>3, <2>4 DEF IInv
<1>13. CASE Restart(u)
  <2>1. TypeOK'
    <3>1. stray' \subseteq [token : Nat, age : -1..MaxWait + 1]
      BY <1>13 DEF IInv, TypeOK, Restart, GiveUpRenewal
    <3> QED
      BY <1>13, <3>1 DEF IInv, TypeOK, Task, Restart, GiveUpRenewal
  <2>2. Structure'
    BY <1>13 DEF IInv, TypeOK, Structure, Restart, GiveUpRenewal
  <2>3. Tokens'
    BY <1>13 DEF IInv, TypeOK, Structure, Tokens, Restart, GiveUpRenewal
  <2>4. ASSUME HeartbeatFits, NEW w \in Workers, ~late'[w] PROVE InTime(w)'
    BY <1>13, <2>4 DEF IInv, TypeOK, Structure, Tokens, InTime, Mine, ShutdownFits, Restart, GiveUpRenewal
  <2> QED
    BY <2>1, <2>2, <2>3, <2>4 DEF IInv
<1> QED
  BY <1>1, <1>2, <1>3, <1>4, <1>5, <1>6, <1>7, <1>8, <1>9, <1>10, <1>11, <1>12, <1>13 DEF WorkerStep

(* The transactions of nobody in particular.                               *)
LEMMA OtherStepIInv ==
    ASSUME IInv, StrayBegins \/ StrayCommits \/ RecoveryBegins \/ RecoveryCommits
    PROVE  IInv'
<1> USE ConfigAssumption DEF row, call, closing, HeartbeatFits
<1>1. CASE StrayBegins
  <2>1. PICK r \in stray :
          stray' = (stray \ {r}) \cup
             IF RenewMatches(r.token, 0) THEN {[r EXCEPT !.age = 0]} ELSE {}
    BY <1>1 DEF StrayBegins
  <2>2. UNCHANGED <<row, mine, task, hb, call, timer, closing, late, recovery>>
    BY <1>1 DEF StrayBegins
  <2>3. r \in [token : Nat, age : -1..MaxWait + 1]
    BY DEF IInv, TypeOK
  <2>4. /\ [r EXCEPT !.age = 0] \in [token : Nat, age : -1..MaxWait + 1]
        /\ [r EXCEPT !.age = 0].token = r.token
    BY <2>3
  <2>5. TypeOK'
    BY <2>1, <2>2, <2>4 DEF IInv, TypeOK
  <2>6. Structure'
    BY <2>2 DEF IInv, Structure
  <2>7. Tokens'
    BY <2>1, <2>2, <2>4 DEF IInv, Tokens
  <2>8. ASSUME HeartbeatFits, NEW w \in Workers, ~late'[w] PROVE InTime(w)'
    BY <2>2, <2>8 DEF IInv, InTime, Mine, ShutdownFits
  <2> QED
    BY <2>5, <2>6, <2>7, <2>8 DEF IInv
<1>2. CASE StrayCommits
  <2>1. PICK r \in stray : /\ r.age \in 0..MaxWait
                           /\ Renew(r.token, r.age)
                           /\ stray' = stray \ {r}
    BY <1>2 DEF StrayCommits
  <2>2. UNCHANGED <<token, mine, task, hb, call, timer, closing, late, recovery>>
    BY <1>2 DEF StrayCommits
  <2>3. left' \in -MaxWait..LeaseSeconds
    BY <2>1 DEF IInv, TypeOK, Renew
  <2>4. TypeOK'
    BY <2>1, <2>2, <2>3 DEF IInv, TypeOK
  <2>5. Structure' /\ Tokens'
    BY <2>1, <2>2 DEF IInv, Structure, Tokens
  <2>6. ASSUME HeartbeatFits, NEW w \in Workers, ~late'[w] PROVE InTime(w)'
    <3>1. InTime(w)
      BY <2>2, <2>6 DEF IInv
    <3>2. CASE task[w] \in {"claiming", "working"}
      <4>1. Mine(w) => left' = left
        BY <2>1, <3>2 DEF IInv, Tokens, Mine, Renew, RenewMatches
      <4> QED
        BY <2>2, <3>1, <4>1 DEF InTime, Mine, ShutdownFits
    <3>3. CASE task[w] \notin {"claiming", "working"}
      BY <2>2, <3>1, <3>3 DEF IInv, TypeOK, Structure, InTime
    <3> QED
      BY <3>2, <3>3
  <2> QED
    BY <2>4, <2>5, <2>6 DEF IInv
<1>3. CASE RecoveryBegins
  <2>1. TypeOK' /\ Structure' /\ Tokens'
    BY <1>3 DEF IInv, TypeOK, Structure, Tokens, RecoveryBegins
  <2>2. ASSUME HeartbeatFits, NEW w \in Workers, ~late'[w] PROVE InTime(w)'
    <3>1. InTime(w) /\ left <= 0
      BY <1>3, <2>2 DEF IInv, RecoveryBegins
    <3> QED
      BY <1>3, <3>1 DEF IInv, TypeOK, Structure, InTime, ShutdownFits, RecoveryBegins
  <2> QED
    BY <2>1, <2>2 DEF IInv
<1>4. CASE RecoveryCommits
  <2>1. UNCHANGED <<token, mine, task, hb, call, timer, closing, late, stray>>
    BY <1>4 DEF RecoveryCommits
  <2>2. TypeOK'
    BY <1>4 DEF IInv, TypeOK, RecoveryCommits, NoRecovery
  <2>3. Structure' /\ Tokens'
    BY <1>4 DEF IInv, TypeOK, Structure, Tokens, RecoveryCommits, NoRecovery
  <2>4. ASSUME HeartbeatFits, NEW w \in Workers, ~late'[w] PROVE InTime(w)'
    <3>1. InTime(w)
      BY <2>1, <2>4 DEF IInv
    <3>2. Mine(w) /\ mine[w] > 0 => left' = left /\ Mine(w)'
      BY <1>4 DEF IInv, TypeOK, Mine, RecoveryCommits, NoRecovery
    <3>3. /\ task[w] # "none" => mine[w] > 0
          /\ hb[w] # "off" => task[w] # "none"
          /\ reply[w] # "none" => task[w] # "none"
      BY DEF IInv, Structure, Tokens
    <3> QED
      BY <2>1, <3>1, <3>2, <3>3 DEF InTime, ShutdownFits
  <2> QED
    BY <2>2, <2>3, <2>4 DEF IInv
<1> QED
  BY <1>1, <1>2, <1>3, <1>4

(* Time passes: what nobody was to do by now loses as much as the lease.   *)
LEMMA ElapseIInv ==
    ASSUME IInv, Elapse,
           late' = [w \in Workers |-> late[w] \/ Due(w)]
    PROVE  IInv'
<1> USE ConfigAssumption DEF HeartbeatFits
<1>1. TypeOK'
  <2>1. left' \in -MaxWait..LeaseSeconds
    BY DEF IInv, TypeOK, Elapse
  <2>2. timer' \in [Workers -> Nat]
    BY DEF IInv, TypeOK, Elapse, Less
  <2>3. grace' \in [Workers -> 0..ShutdownTimeout]
    BY DEF IInv, TypeOK, Elapse, Less
  <2>4. late' \in [Workers -> BOOLEAN]
    BY DEF Due
  <2>5. age' \in [Workers -> -1..MaxWait + 1]
    BY DEF IInv, TypeOK, Elapse, Older
  <2>6. stray' \subseteq [token : Nat, age : -1..MaxWait + 1]
    BY DEF IInv, TypeOK, Elapse, Older
  <2>7. recovery' \in [token : Nat, age : 0..MaxWait]
    BY DEF IInv, TypeOK, Elapse, NoRecovery
  <2> QED
    BY <2>1, <2>2, <2>3, <2>4, <2>5, <2>6, <2>7 DEF IInv, TypeOK, Elapse
<1>2. Structure'
  BY DEF IInv, TypeOK, Structure, Elapse, Less, Older
<1>3. Tokens'
  <2>1. \A r \in stray' : \E q \in stray : r.token = q.token
    BY DEF IInv, TypeOK, Elapse
  <2>2. recovery'.token = recovery.token \/ recovery'.token = 0
    BY DEF IInv, TypeOK, Elapse, NoRecovery
  <2> QED
    BY <2>1, <2>2 DEF IInv, TypeOK, Tokens, Elapse
<1>4. ASSUME HeartbeatFits, NEW w \in Workers, ~late'[w] PROVE InTime(w)'
  <2>1. ~Due(w) /\ InTime(w)
    BY <1>4 DEF IInv, Due
  <2>2. /\ left \in Int /\ timer[w] \in Nat /\ grace[w] \in Nat
        /\ age[w] \in -1..MaxWait + 1
        /\ left > 0 => left' = left - 1
        /\ timer'[w] = Less(timer[w])
        /\ grace'[w] = Less(grace[w])
        /\ age'[w] = Older(age[w])
    BY DEF IInv, TypeOK, Elapse
  <2>3. <<token, mine, task, hb, reply, stop, listed>>'
          = <<token, mine, task, hb, reply, stop, listed>>
    BY DEF Elapse
  <2>4. Mine(w) /\ mine[w] > 0 => Mine(w)'
    BY <2>3 DEF IInv, TypeOK, Mine, Elapse, NoRecovery
  <2>5. /\ task[w] # "none" => mine[w] > 0
        /\ hb[w] # "off" => task[w] # "none"
        /\ reply[w] # "none" => hb[w] = "renewing"
    BY DEF IInv, Structure, Tokens
  <2>6. /\ task[w] = "claiming" => timer[w] > 0
        /\ hb[w] # "off" => timer[w] > 0
        /\ task[w] = "working" /\ listed[w] => grace[w] > 0
    BY <2>1, <2>2 DEF Due, Timed
  <2> HIDE DEF Mine
  <2> QED
    BY <2>1, <2>2, <2>3, <2>4, <2>5, <2>6
    DEF InTime, ShutdownFits, Less, Older
<1> QED
  BY <1>1, <1>2, <1>3, <1>4 DEF IInv

(* Every step preserves it.                                                *)
LEMMA NextIInv == IInv /\ [Next]_vars => IInv'
<1> SUFFICES ASSUME IInv, [Next]_vars PROVE IInv'
  OBVIOUS
<1>1. CASE \E w \in Workers : WorkerStep(w)
  BY <1>1, WorkerStepIInv
<1>2. CASE StrayBegins \/ StrayCommits \/ RecoveryBegins \/ RecoveryCommits
  BY <1>2, OtherStepIInv
<1>3. CASE Tick
  <2>1. late' = [w \in Workers |-> late[w] \/ Due(w)]
    <3>1. late \in [Workers -> BOOLEAN] /\ late' = late
      BY <1>3 DEF IInv, TypeOK, Tick
    <3>2. \A w \in Workers : (late[w] \/ Due(w)) = late[w]
      BY <1>3, <3>1 DEF Tick
    <3> QED
      BY <3>1, <3>2
  <2> QED
    BY <1>3, <2>1, ElapseIInv DEF Tick
<1>4. CASE Stall
  BY <1>4, ElapseIInv DEF Stall
<1>5. CASE UNCHANGED vars
  <2>1. UNCHANGED <<token, left, mine, task, hb, reply, age, timer, stop, grace,
                    listed, late, stray, recovery>>
    BY <1>5 DEF vars, row, call, closing
  <2>2. TypeOK' /\ Structure' /\ Tokens'
    BY <2>1 DEF IInv, TypeOK, Structure, Tokens
  <2> QED
    BY <2>1, <2>2 DEF HeartbeatFits, IInv, InTime, Mine, ShutdownFits
<1> QED
  BY <1>1, <1>2, <1>3, <1>4, <1>5 DEF Next

(* The inductive invariant holds: no two Workers have the same token, and  *)
(* what is left of a lease covers what its Worker still waits for.         *)
THEOREM IInvHolds == Spec => []IInv
<1>1. Init => IInv
  BY InitIInv
<1>2. IInv /\ [Next]_vars => IInv'
  BY NextIInv
<1> QED
  BY <1>1, <1>2, PTL DEF Spec

(* The variables have their types.                                         *)
THEOREM TypeCorrect == Spec => []TypeOK
<1>1. IInv => TypeOK
  BY DEF IInv
<1> QED
  BY <1>1, IInvHolds, PTL

-----------------------------------------------------------------------------
(* At every point of the cycle something is left.                          *)
LEMMA IInvWorksUnderLease == IInv => WorksUnderLease
<1> SUFFICES ASSUME IInv, HeartbeatFits, NEW w \in Workers,
                    task[w] = "working", ~late[w],
                    stop[w] => listed[w] /\ ShutdownFits
             PROVE  Holds(w)
  BY DEF WorksUnderLease
<1>1. InTime(w) /\ left \in Int /\ timer[w] \in Nat /\ grace[w] \in Nat
  BY DEF IInv, TypeOK
<1>2. CASE hb[w] = "off"
  BY <1>1, <1>2 DEF IInv, Structure, InTime, Mine, Holds
<1>3. CASE hb[w] = "sleeping"
  BY <1>1, <1>3, ConfigAssumption DEF HeartbeatFits, InTime, Mine, Holds
<1>4. CASE hb[w] = "renewing"
  <2>1. reply[w] = "pending" \/ reply[w] = "renewed"
    BY <1>1, <1>4 DEF IInv, TypeOK, Structure, InTime
  <2> QED
    BY <1>1, <2>1, ConfigAssumption DEF HeartbeatFits, InTime, Mine, Holds
<1> QED
  BY <1>2, <1>3, <1>4 DEF IInv, TypeOK

(* A Worker that keeps up never works on without its lease, if the lease   *)
(* is longer than the interval and two heartbeat time-outs.                *)
THEOREM WorkersWorkUnderLease == Spec => []WorksUnderLease
<1>1. IInv => WorksUnderLease
  BY IInvWorksUnderLease
<1> QED
  BY <1>1, IInvHolds, PTL

(* Two Workers that keep up never work on the resource at the same time,   *)
(* although one of them may be shutting down.                              *)
OneWorker ==
    HeartbeatFits => \A v, w \in Workers :
        /\ task[v] = "working" /\ ~late[v] /\ (stop[v] => listed[v] /\ ShutdownFits)
        /\ task[w] = "working" /\ ~late[w] /\ (stop[w] => listed[w] /\ ShutdownFits)
        => v = w

THEOREM OneWorkerAtATime == Spec => []OneWorker
<1>1. IInv => OneWorker
  <2> SUFFICES ASSUME IInv PROVE OneWorker
    OBVIOUS
  <2>1. WorksUnderLease
    BY IInvWorksUnderLease
  <2> QED
    BY <2>1 DEF IInv, Tokens, WorksUnderLease, Holds, OneWorker
<1> QED
  BY <1>1, IInvHolds, PTL

-----------------------------------------------------------------------------
(* However long the statements wait for the row, a lease changes hands     *)
(* only after it has expired, is revived only by a renewal that started in *)
(* time, and is cut short only by its owner or by a recovery under way.    *)
THEOREM LateCallsFenced == Spec => LateCallsAreFenced
<1> DEFINE Fenced ==
      /\ token' # token => left <= 0
      /\ left <= 0 /\ left' > 0 /\ token' = token => RenewalUnderWay
      /\ left > 1 /\ left' <= 0 =>
           \/ recovery.token = token
           \/ \E w \in Workers : mine[w] = token /\ task[w] = "ending"
<1>1. IInv /\ [Next]_vars => [Fenced]_vars
  <2> SUFFICES ASSUME IInv, [Next]_vars PROVE Fenced \/ UNCHANGED vars
    OBVIOUS
  <2> USE ConfigAssumption DEF row
  <2>1. token \in Nat /\ left \in -MaxWait..LeaseSeconds
    BY DEF IInv, TypeOK
  <2>2. ASSUME UNCHANGED row PROVE Fenced
    BY <2>1, <2>2
  <2>3. ASSUME NEW w \in Workers, WorkerStep(w) PROVE Fenced
    <3>1. CASE ClaimCommits(w)
      BY <2>1, <3>1 DEF ClaimCommits
    <3>2. CASE RenewCommits(w)
      <4>1. token' = token /\ age[w] \in 0..MaxWait /\ reply[w] = "pending"
        BY <3>2 DEF RenewCommits
      <4>2. CASE token = mine[w] /\ left + age[w] > 0
        <5>1. RenewalUnderWay
          BY <4>1, <4>2 DEF RenewalUnderWay
        <5>2. left' \in Int /\ left' > 0
          BY <2>1, <3>2, <4>1, <4>2 DEF RenewCommits, Renew, RenewMatches
        <5> QED
          BY <2>1, <4>1, <5>1, <5>2
      <4>3. CASE ~(token = mine[w] /\ left + age[w] > 0)
        BY <2>2, <3>2, <4>3 DEF RenewCommits, Renew, RenewMatches
      <4> QED
        BY <4>2, <4>3
    <3>3. CASE OwnerReleases(w)
      BY <2>1, <3>3 DEF OwnerReleases, Release
    <3>4. CASE UNCHANGED <<token, left>>
      BY <2>2, <3>4 DEF row
    <3> QED
      BY <2>3, <3>1, <3>2, <3>3, <3>4
      DEF WorkerStep, ClaimReturns, HeartbeatWakes, RenewBegins, RenewReturns,
          LeaseLost, RenewFails, WorkEnds, OwnerEnds, Stop, CloseCancels, Restart
  <2>4. CASE StrayCommits
    <3>1. PICK r \in stray : r.age \in 0..MaxWait /\ Renew(r.token, r.age)
      BY <2>4 DEF StrayCommits
    <3>2. token' = token
      BY <2>4 DEF StrayCommits
    <3>3. CASE token = r.token /\ left + r.age > 0
      <4>1. RenewalUnderWay
        BY <3>1, <3>3 DEF RenewalUnderWay
      <4>2. left' \in Int /\ left' > 0
        BY <2>1, <3>1, <3>3 DEF Renew, RenewMatches
      <4> QED
        BY <2>1, <3>2, <4>1, <4>2
    <3>4. CASE ~(token = r.token /\ left + r.age > 0)
      BY <2>2, <3>1, <3>2, <3>4 DEF Renew, RenewMatches
    <3> QED
      BY <3>3, <3>4
  <2>5. CASE RecoveryCommits
    BY <2>1, <2>5 DEF IInv, TypeOK, RecoveryCommits
  <2>6. CASE StrayBegins \/ RecoveryBegins
    BY <2>2, <2>6 DEF StrayBegins, RecoveryBegins
  <2>7. CASE Tick \/ Stall
    BY <2>1, <2>7 DEF Tick, Stall, Elapse
  <2> QED
    BY <2>3, <2>4, <2>5, <2>6, <2>7 DEF Next
<1> QED
  BY <1>1, IInvHolds, PTL DEF Spec, LateCallsAreFenced

=============================================================================
