--------------------------- MODULE RowLocksProofs ---------------------------
(***************************************************************************)
(* Proofs about RowLocks, for any number of transactions and Runs.         *)
(***************************************************************************)
EXTENDS RowLocks, TLAPS

HoldsNothing(t) == \A row \in Rows : holder[row] # t

TxnFields == {"kind", "runs", "token", "todo", "seen", "expired"}

(* A transaction that is no outsider holds the lease's row, or holds no    *)
(* row and asks for that one first.                                        *)
LeaseFirst ==
    /\ holder \in [Rows -> Txns \cup {None}]
    /\ DOMAIN txn = Txns
    /\ \A t \in Txns :
          /\ DOMAIN txn[t] = TxnFields
          /\ txn[t].todo \in Seq(Rows)
          /\ txn[t].kind = "none" => HoldsNothing(t) /\ txn[t].todo = << >>
          /\ txn[t].kind \notin Outsiders \cup {"none"} =>
                \/ holder[Lease] = t
                \/ HoldsNothing(t) /\ txn[t].todo # << >> /\ NextRow(t) = Lease

(* The lease's row is none of those of Runs and Attempts.                  *)
LEMMA RowsAreDistinct ==
    /\ Lease \in Rows
    /\ \A r \in Runs : Run(r) \in Rows \ {Lease} /\ Attempt(r) \in Rows \ {Lease}
BY DEF Rows, Run, Attempt, Lease

(* Each order lists rows; those of the Worker's transactions begin with    *)
(* the lease's.                                                            *)
LEMMA OrdersAreOfRows ==
    ASSUME NEW r \in Runs
    PROVE  /\ BeginOrder(r) \in Seq(Rows) /\ SettleOrder(r) \in Seq(Rows)
           /\ AskOrder(r) \in Seq(Rows) /\ CancelOrder(r) \in Seq(Rows)
           /\ BeginOrder(r) # << >> /\ Head(BeginOrder(r)) = Lease
           /\ SettleOrder(r) # << >> /\ Head(SettleOrder(r)) = Lease
           /\ AskOrder(r) # << >> /\ Head(AskOrder(r)) = Lease
<1>1. /\ Lease \in Rows /\ Run(r) \in Rows /\ Attempt(r) \in Rows
  BY RowsAreDistinct
<1> HIDE DEF Lease, Run, Attempt, Rows
<1>2. /\ <<Lease, Run(r)>> \in Seq(Rows) /\ <<Lease, Attempt(r), Run(r)>> \in Seq(Rows)
      /\ <<Lease, Run(r), Attempt(r)>> \in Seq(Rows)
      /\ <<Attempt(r), Run(r)>> \in Seq(Rows) /\ <<Run(r)>> \in Seq(Rows)
  BY <1>1
<1> QED
  BY <1>2 DEF BeginOrder, SettleOrder, AskOrder, CancelOrder

(* An idle transaction, and one that only wants the lease.                 *)
LEMMA IdleHasNothingToDo ==
    /\ Idle.kind = "none" /\ Idle.todo = << >> /\ << >> \in Seq(Rows)
    /\ DOMAIN Idle = TxnFields
    /\ <<Lease>> \in Seq(Rows) /\ <<Lease>> # << >> /\ Head(<<Lease>>) = Lease
<1>1. Lease \in Rows
  BY RowsAreDistinct
<1> HIDE DEF Lease, Rows
<1> QED
  BY <1>1 DEF Idle, TxnFields

(* At first nobody holds a row.                                            *)
LEMMA InitLeaseFirst == Init => LeaseFirst
<1> SUFFICES ASSUME Init PROVE LeaseFirst
  OBVIOUS
<1>1. holder \in [Rows -> Txns \cup {None}] /\ DOMAIN txn = Txns
  BY DEF Init
<1>2. \A t \in Txns : txn[t] = Idle /\ HoldsNothing(t)
  BY ConstantsAssumption DEF Init, HoldsNothing
<1> QED
  BY <1>1, <1>2, IdleHasNothingToDo DEF LeaseFirst

(* A transaction starts and locks nothing.                                 *)
LEMMA StartLeaseFirst ==
    ASSUME LeaseFirst, NEW t \in Txns, NEW kind, NEW runs, NEW token, NEW todo,
           NEW seen, Starts(t, kind, runs, token, todo, seen), UNCHANGED holder,
           kind \in Outsiders \/ (todo # << >> /\ Head(todo) = Lease),
           kind # "none", todo \in Seq(Rows)
    PROVE  LeaseFirst'
<1>1. txn' = [txn EXCEPT ![t] = [kind |-> kind, runs |-> runs, token |-> token,
                                 todo |-> todo, seen |-> seen,
                                 expired |-> lease.expired]]
  BY DEF Starts
<1>2. HoldsNothing(t)
  BY DEF Starts, LeaseFirst
<1> QED
  BY <1>1, <1>2 DEF LeaseFirst, HoldsNothing, NextRow, TxnFields

(* An outsider starts with rows of Runs and Attempts that were free.       *)
LEMMA OutsiderLeaseFirst ==
    ASSUME LeaseFirst, NEW t \in Txns, NEW kind \in Outsiders, NEW runs,
           NEW token, NEW todo \in Seq(Rows), NEW seen, NEW rows \in SUBSET (Rows \ {Lease}),
           Starts(t, kind, runs, token, todo, seen),
           \A row \in rows : Unlocked(row),
           holder' = Locked(rows, t)
    PROVE  LeaseFirst'
<1>1. txn' = [txn EXCEPT ![t] = [kind |-> kind, runs |-> runs, token |-> token,
                                 todo |-> todo, seen |-> seen,
                                 expired |-> lease.expired]]
  BY DEF Starts
<1>2. holder' \in [Rows -> Txns \cup {None}] /\ Lease \in Rows
  BY DEF LeaseFirst, Locked, Rows
<1>3. holder'[Lease] = holder[Lease]
  BY <1>2 DEF Locked
<1>4. \A u \in Txns : u # t /\ HoldsNothing(u) => HoldsNothing(u)'
  BY DEF HoldsNothing, Locked
<1> QED
  BY <1>1, <1>2, <1>3, <1>4 DEF LeaseFirst, NextRow, Outsiders, TxnFields

(* A transaction ends and releases its rows.                               *)
LEMMA EndLeaseFirst ==
    ASSUME LeaseFirst, NEW t \in Txns,
           holder' = [row \in Rows |-> IF holder[row] = t THEN None ELSE holder[row]],
           DOMAIN txn' = Txns, txn'[t] = Idle,
           \A u \in Txns \ {t} : /\ txn'[u].kind = txn[u].kind
                                 /\ txn'[u].todo = txn[u].todo
                                 /\ DOMAIN txn'[u] = DOMAIN txn[u]
    PROVE  LeaseFirst'
<1>1. holder' \in [Rows -> Txns \cup {None}] /\ Lease \in Rows
  BY DEF LeaseFirst, Rows
<1>2. HoldsNothing(t)'
  BY ConstantsAssumption DEF HoldsNothing
<1>3. ASSUME NEW u \in Txns \ {t}
      PROVE  /\ HoldsNothing(u) => HoldsNothing(u)'
             /\ holder[Lease] = u => holder'[Lease] = u
  BY <1>1, ConstantsAssumption DEF HoldsNothing
<1> QED
  BY <1>1, <1>2, <1>3, IdleHasNothingToDo DEF LeaseFirst, NextRow, Outsiders

(* Every step preserves LeaseFirst.                                        *)
LEMMA NextLeaseFirst == LeaseFirst /\ [Next]_vars => LeaseFirst'
<1> SUFFICES ASSUME LeaseFirst, [Next]_vars PROVE LeaseFirst'
  OBVIOUS
<1>1. ASSUME NEW t \in Txns, Start(t) PROVE LeaseFirst'
  <2>1. CASE ClaimStarts(t)
    <3> DEFINE candidates == {r \in Runs : status[r] = "queued" /\ Unlocked(Run(r))}
               rows == {Run(r) : r \in candidates}
    <3>1. \A r \in Runs : Run(r) \in Rows \ {Lease}
      BY RowsAreDistinct
    <3>2. rows \in SUBSET (Rows \ {Lease}) /\ \A row \in rows : Unlocked(row)
      BY <3>1
    <3>3. Starts(t, "claim", candidates, 0, <<Lease>>, "queued")
          /\ holder' = Locked(rows, t) /\ "claim" \in Outsiders
      BY <2>1 DEF ClaimStarts, Outsiders
    <3>4. <<Lease>> \in Seq(Rows)
      BY IdleHasNothingToDo
    <3> HIDE DEF candidates, rows
    <3> QED
      BY <3>2, <3>3, <3>4, OutsiderLeaseFirst
  <2>2. ASSUME NEW r \in Runs, RecoverStarts(t, r) PROVE LeaseFirst'
    <3> DEFINE todo == IF attemptToken[r] = lease.token THEN <<Lease>> ELSE << >>
    <3>1. {Run(r), Attempt(r)} \in SUBSET (Rows \ {Lease}) /\ todo \in Seq(Rows)
      BY RowsAreDistinct, IdleHasNothingToDo
    <3>2. /\ Unlocked(Run(r)) /\ Unlocked(Attempt(r))
          /\ Starts(t, "recover", {r}, attemptToken[r], todo, "running")
          /\ holder' = Locked({Run(r), Attempt(r)}, t) /\ "recover" \in Outsiders
      BY <2>2 DEF RecoverStarts, Outsiders
    <3> HIDE DEF todo
    <3> QED
      BY <3>1, <3>2, OutsiderLeaseFirst
  <2>3. ASSUME NEW k \in 1..MaxToken, RenewStarts(t, k) PROVE LeaseFirst'
    <3>1. Starts(t, "renew", {}, k, <<Lease>>, "none") /\ UNCHANGED holder
      BY <2>3 DEF RenewStarts
    <3> QED
      BY <3>1, StartLeaseFirst, IdleHasNothingToDo
  <2>4. ASSUME NEW r \in Runs, NEW k \in 1..MaxToken, BeginStarts(t, r, k)
        PROVE  LeaseFirst'
    BY <2>4, StartLeaseFirst, OrdersAreOfRows DEF BeginStarts
  <2>5. ASSUME NEW r \in Runs, SettleStarts(t, r) PROVE LeaseFirst'
    BY <2>5, StartLeaseFirst, OrdersAreOfRows DEF SettleStarts
  <2>6. ASSUME NEW r \in Runs, AskStarts(t, r) PROVE LeaseFirst'
    BY <2>6, StartLeaseFirst, OrdersAreOfRows DEF AskStarts
  <2>7. ASSUME NEW r \in Runs, CancelStarts(t, r) PROVE LeaseFirst'
    BY <2>7, StartLeaseFirst, OrdersAreOfRows DEF CancelStarts, Outsiders
  <2> QED
    BY <1>1, <2>1, <2>2, <2>3, <2>4, <2>5, <2>6, <2>7 DEF Start
<1>2. ASSUME NEW t \in Txns, TxnStep(t) PROVE LeaseFirst'
  <2>1. CASE Locks(t)
    <3>1. /\ txn[t].todo # << >> /\ holder[NextRow(t)] = None
          /\ holder' = [holder EXCEPT ![NextRow(t)] = t]
          /\ txn' = [txn EXCEPT ![t].todo = Tail(@)]
      BY <2>1 DEF Locks, Unlocked
    <3>2. Lease \in Rows
      BY DEF Rows
    <3>3. holder' \in [Rows -> Txns \cup {None}] /\ DOMAIN txn' = Txns
      BY <3>1 DEF LeaseFirst
    <3>4. \A u \in Txns : txn'[u].kind = txn[u].kind
      BY <3>1 DEF LeaseFirst
    <3>5. ASSUME NEW u \in Txns \ {t}
          PROVE  /\ HoldsNothing(u) => HoldsNothing(u)'
                 /\ holder[Lease] = u => holder'[Lease] = u
                 /\ txn'[u] = txn[u]
      BY <3>1, <3>2, ConstantsAssumption DEF LeaseFirst, HoldsNothing
    <3>6. txn[t].kind \notin Outsiders \cup {"none"} => holder'[Lease] = t
      BY <3>1, <3>2 DEF LeaseFirst
    <3>7. txn[t].kind # "none"
      BY <3>1 DEF LeaseFirst
    <3>8. txn'[t].todo \in Seq(Rows) /\ DOMAIN txn'[t] = TxnFields
      <4>1. txn[t].todo \in Seq(Rows) /\ txn'[t].todo = Tail(txn[t].todo)
            /\ DOMAIN txn'[t] = TxnFields
        BY <3>1 DEF LeaseFirst, TxnFields
      <4> QED
        BY <3>1, <4>1
    <3> QED
      BY <3>2, <3>3, <3>4, <3>5, <3>6, <3>7, <3>8 DEF LeaseFirst, NextRow
  <2>2. CASE Ends(t)
    BY <2>2, EndLeaseFirst DEF Ends, LeaseFirst
  <2>3. CASE \E row : EndsWithLease(t, row)
    <3>1. /\ holder' = [x \in Rows |-> IF holder[x] = t THEN None ELSE holder[x]]
          /\ DOMAIN txn' = Txns /\ txn'[t] = Idle
          /\ \A u \in Txns \ {t} : txn'[u] = [txn[u] EXCEPT !.expired = FALSE]
      BY <2>3 DEF EndsWithLease
    <3>2. \A u \in Txns \ {t} : /\ txn'[u].kind = txn[u].kind
                                /\ txn'[u].todo = txn[u].todo
                                /\ DOMAIN txn'[u] = DOMAIN txn[u]
      BY <3>1 DEF LeaseFirst, TxnFields
    <3> QED
      BY <3>1, <3>2, EndLeaseFirst
  <2> QED
    BY <1>2, <2>1, <2>2, <2>3
    DEF TxnStep, RollsBack, DeadlockAborts, ClaimCommits, BeginCommits,
        SettleCommits, AskCommits, CancelCommits, RecoverCommits, RenewCommits
<1>3. CASE Expires
  BY <1>3 DEF Expires, LeaseFirst, HoldsNothing, NextRow
<1>4. CASE UNCHANGED vars
  BY <1>4 DEF vars, LeaseFirst, HoldsNothing, NextRow
<1> QED
  BY <1>1, <1>2, <1>3, <1>4 DEF Next

(* Among any number of transactions, those that lock the lease first never *)
(* wait for each other in a circle.                                        *)
THEOREM DeadlocksNeedAnOutsider == Spec => []CyclesNeedAnOutsider
<1>1. LeaseFirst => CyclesNeedAnOutsider
  <2> SUFFICES ASSUME LeaseFirst, NEW c \in SUBSET Txns, Cycle(c),
                      \A t \in c : txn[t].kind \notin Outsiders
               PROVE  FALSE
    BY DEF CyclesNeedAnOutsider
  <2>1. ASSUME NEW t \in c PROVE \E u \in c : WaitsFor(t, u) /\ holder[Lease] = u
    <3>1. PICK u \in c : WaitsFor(t, u)
      BY DEF Cycle
    <3>2. txn[t].todo \in Seq(Rows) /\ txn[t].todo # << >>
      BY <3>1 DEF LeaseFirst, WaitsFor
    <3>3. NextRow(t) \in Rows
      BY <3>2 DEF NextRow
    <3>4. ~HoldsNothing(u)
      BY <3>1, <3>3 DEF WaitsFor, HoldsNothing
    <3>5. holder[Lease] = u
      BY <3>4 DEF LeaseFirst
    <3> QED
      BY <3>1, <3>5
  <2>2. PICK t \in c : TRUE
    BY DEF Cycle
  <2>3. PICK u \in c : holder[Lease] = u
    BY <2>1, <2>2
  <2>4. PICK v \in c : WaitsFor(u, v) /\ holder[Lease] = v
    BY <2>1, <2>3
  <2> QED
    BY <2>3, <2>4 DEF WaitsFor
<1> QED
  BY <1>1, InitLeaseFirst, NextLeaseFirst, PTL DEF Spec

-----------------------------------------------------------------------------
(* What a transaction has checked still holds when it commits.             *)

(* The rows that keep what a transaction has checked as it is: those of    *)
(* its Runs, and the lease's if it goes by its token or gives a new one.   *)
Guards(t) ==
    {Run(r) : r \in txn[t].runs}
      \cup (IF txn[t].kind \in {"claim", "begin", "settle", "ask"} THEN {Lease} ELSE {})

Lists(todo, row) == \E i \in 1..Len(todo) : todo[i] = row

ListsOnly(todo, row) == \A i \in 1..Len(todo) : todo[i] = row

StillToLock(t, row) == Lists(txn[t].todo, row)

(* A step locks at most rows that were free, for t and not the lease's.    *)
LocksFreeRows(t) ==
    /\ \A row \in Rows :
          holder'[row] = holder[row] \/ (holder[row] = None /\ holder'[row] = t)
    /\ holder'[Lease] = holder[Lease]

EndedHasOutcome == \A r \in Runs : outcome[r] # "none" <=> status[r] \in {"waiting", "ended"}

(* Its guards are locked before it commits, and while it holds one what it *)
(* has read there does not change.                                         *)
TxnGuarded(t) ==
    /\ txn[t].runs \subseteq Runs
    /\ \A row \in Guards(t) : holder[row] = t \/ StillToLock(t, row)
    /\ \A r \in txn[t].runs : holder[Run(r)] = t => status[r] = txn[t].seen
    /\ txn[t].kind \in {"begin", "settle", "ask"} /\ holder[Lease] = t
          => lease.token = txn[t].token
    /\ txn[t].kind = "begin" => txn[t].seen = "queued"
    /\ txn[t].kind \in {"claim", "recover", "renew"}
          => ListsOnly(txn[t].todo, Lease)

Guarded ==
    /\ LeaseFirst
    /\ lease \in [token: 0..MaxToken, expired: BOOLEAN]
    /\ EndedHasOutcome
    /\ \A t \in Txns : TxnGuarded(t)

(* A Run's row is its own, and none of the lease's.                        *)
LEMMA RunRowsAreDistinct ==
    /\ Lease \in Rows
    /\ \A r \in Runs : Run(r) \in Rows /\ Run(r) # Lease
    /\ \A r, q \in Runs : Run(r) = Run(q) => r = q
BY DEF Rows, Run, Lease

(* The guards are rows.                                                    *)
LEMMA GuardsAreRows ==
    ASSUME NEW t \in Txns, txn[t].runs \subseteq Runs
    PROVE  Guards(t) \subseteq Rows
BY RunRowsAreDistinct DEF Guards

(* Whoever has nothing left to lock holds all its guards.                  *)
LEMMA ReadyHoldsGuards ==
    ASSUME NEW t \in Txns, TxnGuarded(t), txn[t].todo = << >>
    PROVE  \A row \in Guards(t) : holder[row] = t
BY DEF TxnGuarded, StillToLock, Lists

(* A transaction keeps what it has checked while others move.              *)
LEMMA OthersStayGuarded ==
    ASSUME NEW u \in Txns, TxnGuarded(u),
           /\ txn'[u].kind = txn[u].kind /\ txn'[u].runs = txn[u].runs
           /\ txn'[u].seen = txn[u].seen /\ txn'[u].token = txn[u].token
           /\ txn'[u].todo = txn[u].todo,
           \A row \in Rows : holder'[row] = u <=> holder[row] = u,
           \A r \in Runs : holder[Run(r)] = u => status'[r] = status[r],
           holder[Lease] = u => lease'.token = lease.token
    PROVE  TxnGuarded(u)'
<1>1. Guards(u)' = Guards(u) /\ Guards(u) \subseteq Rows
  BY GuardsAreRows DEF Guards, TxnGuarded
<1>2. \A row : StillToLock(u, row)' <=> StillToLock(u, row)
  BY DEF StillToLock
<1>3. \A r \in txn[u].runs : r \in Runs /\ Run(r) \in Rows
  BY RunRowsAreDistinct DEF TxnGuarded
<1> QED
  BY <1>1, <1>2, <1>3, RunRowsAreDistinct DEF TxnGuarded

(* A transaction starts, with or without locks.                            *)
LEMMA StartGuarded ==
    ASSUME Guarded, LeaseFirst', NEW t \in Txns, NEW kind, NEW runs \in SUBSET Runs,
           NEW token, NEW todo, NEW seen,
           Starts(t, kind, runs, token, todo, seen),
           LocksFreeRows(t),
           \A r \in runs : holder'[Run(r)] = t \/ Lists(todo, Run(r)),
           kind \in {"claim", "begin", "settle", "ask"} => Lists(todo, Lease),
           kind \in {"claim", "recover", "renew"} => ListsOnly(todo, Lease),
           \A r \in runs : status[r] = seen,
           kind = "begin" => seen = "queued"
    PROVE  Guarded'
<1>1. txn' = [txn EXCEPT ![t] = [kind |-> kind, runs |-> runs, token |-> token,
                                 todo |-> todo, seen |-> seen,
                                 expired |-> lease.expired]]
      /\ txn[t].kind = "none" /\ UNCHANGED <<status, outcome, lease>>
  BY DEF Starts
<1>2. DOMAIN txn = Txns /\ HoldsNothing(t)
  BY <1>1 DEF Guarded, LeaseFirst
<1>3. EndedHasOutcome' /\ lease' \in [token: 0..MaxToken, expired: BOOLEAN]
  BY <1>1 DEF Guarded, EndedHasOutcome
<1>4. ASSUME NEW u \in Txns \ {t} PROVE TxnGuarded(u)'
  <2>1. TxnGuarded(u) /\ txn'[u] = txn[u]
    BY <1>1, <1>2 DEF Guarded
  <2>2. \A row \in Rows : holder'[row] = u <=> holder[row] = u
    BY ConstantsAssumption DEF LocksFreeRows
  <2> QED
    BY <1>1, <2>1, <2>2, OthersStayGuarded
<1>5. TxnGuarded(t)'
  <2>1. /\ txn'[t].kind = kind /\ txn'[t].runs = runs /\ txn'[t].seen = seen
        /\ txn'[t].todo = todo
    BY <1>1, <1>2
  <2>2. \A row \in Guards(t)' : holder'[row] = t \/ StillToLock(t, row)'
    BY <2>1 DEF Guards, StillToLock
  <2>3. holder'[Lease] # t
    BY <1>2, RunRowsAreDistinct DEF HoldsNothing, LocksFreeRows
  <2> QED
    BY <1>1, <2>1, <2>2, <2>3 DEF TxnGuarded
<1> QED
  BY <1>3, <1>4, <1>5 DEF Guarded

(* The orders of begin, settle and ask have the lease and the Run.         *)
LEMMA OrdersHaveGuards ==
    ASSUME NEW r \in Runs
    PROVE  /\ Lists(BeginOrder(r), Lease)
           /\ Lists(BeginOrder(r), Run(r))
           /\ Lists(SettleOrder(r), Lease)
           /\ Lists(SettleOrder(r), Run(r))
           /\ Lists(AskOrder(r), Lease)
           /\ Lists(AskOrder(r), Run(r))
           /\ Lists(CancelOrder(r), Run(r))
           /\ Lists(<<Lease>>, Lease)
<1>1. BeginOrder(r)[1] = Lease /\ BeginOrder(r)[2] = Run(r) /\ Len(BeginOrder(r)) = 2
  BY DEF BeginOrder
<1>2. SettleOrder(r)[1] = Lease /\ SettleOrder(r)[3] = Run(r) /\ Len(SettleOrder(r)) = 3
  BY DEF SettleOrder
<1>3. AskOrder(r)[1] = Lease /\ AskOrder(r)[2] = Run(r) /\ Len(AskOrder(r)) = 3
  BY DEF AskOrder
<1>4. CancelOrder(r) = <<Attempt(r), Run(r)>> \/ CancelOrder(r) = <<Run(r)>>
  BY DEF CancelOrder
<1>5. Lists(CancelOrder(r), Run(r))
  BY <1>4 DEF Lists
<1>6. <<Lease>>[1] = Lease /\ Len(<<Lease>>) = 1
  OBVIOUS
<1> QED
  BY <1>1, <1>2, <1>3, <1>5, <1>6 DEF Lists

(* A statement gets its row and finds what it expects.                     *)
LEMMA LockGuarded ==
    ASSUME Guarded, LeaseFirst', NEW t \in Txns, Locks(t)
    PROVE  Guarded'
<1>1. /\ txn[t].todo # << >> /\ holder[NextRow(t)] = None /\ Passes(t)
      /\ holder' = [holder EXCEPT ![NextRow(t)] = t]
      /\ txn' = [txn EXCEPT ![t].todo = Tail(@)]
      /\ UNCHANGED <<status, outcome, lease>>
  BY DEF Locks, Unlocked
<1>2. /\ holder \in [Rows -> Txns \cup {None}] /\ DOMAIN txn = Txns
      /\ txn[t].todo \in Seq(Rows) /\ DOMAIN txn[t] = TxnFields /\ TxnGuarded(t)
  BY DEF Guarded, LeaseFirst
<1>3. /\ \A row \in Rows : holder'[row] = IF row = NextRow(t) THEN t ELSE holder[row]
      /\ NextRow(t) \in Rows
  BY <1>1, <1>2 DEF NextRow
<1>4. EndedHasOutcome' /\ lease' \in [token: 0..MaxToken, expired: BOOLEAN]
  BY <1>1 DEF Guarded, EndedHasOutcome
<1>5. ASSUME NEW u \in Txns \ {t} PROVE TxnGuarded(u)'
  <2>1. TxnGuarded(u) /\ txn'[u] = txn[u]
    BY <1>1, <1>2 DEF Guarded
  <2>2. \A row \in Rows : holder'[row] = u <=> holder[row] = u
    BY <1>1, <1>3, ConstantsAssumption
  <2> QED
    BY <1>1, <2>1, <2>2, OthersStayGuarded
<1>6. TxnGuarded(t)'
  <2>1. /\ txn'[t].kind = txn[t].kind /\ txn'[t].runs = txn[t].runs
        /\ txn'[t].seen = txn[t].seen /\ txn'[t].token = txn[t].token
        /\ txn'[t].todo = Tail(txn[t].todo)
    BY <1>1, <1>2 DEF TxnFields
  <2>2. Guards(t)' = Guards(t) /\ Guards(t) \subseteq Rows
    BY <1>2, <2>1, GuardsAreRows DEF Guards, TxnGuarded
  <2>3. ASSUME NEW row, StillToLock(t, row), row # NextRow(t) PROVE StillToLock(t, row)'
    <3>1. PICK i \in 1..Len(txn[t].todo) : txn[t].todo[i] = row
      BY <2>3 DEF StillToLock, Lists
    <3>2. i # 1
      BY <1>1, <1>2, <2>3, <3>1 DEF NextRow
    <3>3. i - 1 \in 1..Len(Tail(txn[t].todo)) /\ Tail(txn[t].todo)[i - 1] = row
      BY <1>1, <1>2, <3>1, <3>2
    <3> QED
      BY <2>1, <3>3 DEF StillToLock, Lists
  <2>4. \A row \in Guards(t)' : holder'[row] = t \/ StillToLock(t, row)'
    BY <1>2, <1>3, <2>2, <2>3 DEF TxnGuarded
  <2>5. ASSUME NEW r \in txn[t].runs, holder'[Run(r)] = t PROVE status[r] = txn[t].seen
    <3>1. Run(r) \in Rows /\ Run(r) # Lease /\ r \in Runs
      BY <1>2, RunRowsAreDistinct DEF TxnGuarded
    <3>2. CASE holder[Run(r)] = t
      BY <1>2, <3>2 DEF TxnGuarded
    <3>3. CASE holder[Run(r)] # t
      <4>1. NextRow(t) = Run(r)
        BY <1>3, <2>5, <3>1, <3>3
      <4>2. txn[t].kind \notin {"claim", "recover", "renew"}
        BY <1>1, <1>2, <3>1, <4>1 DEF TxnGuarded, NextRow, ListsOnly
      <4> QED
        BY <1>1, <3>1, <4>1, <4>2 DEF Passes, RevisionMatches
    <3> QED
      BY <3>2, <3>3
  <2>6. txn[t].kind \in {"begin", "settle", "ask"} /\ holder'[Lease] = t
           => lease.token = txn[t].token
    <3> SUFFICES ASSUME txn[t].kind \in {"begin", "settle", "ask"}, holder'[Lease] = t,
                        holder[Lease] # t
                 PROVE  lease.token = txn[t].token
      BY <1>2 DEF TxnGuarded
    <3>1. NextRow(t) = Lease
      BY <1>3, RunRowsAreDistinct
    <3> QED
      BY <1>1, <3>1 DEF Passes, LeaseAsserted
  <2>7. txn[t].kind \in {"claim", "recover", "renew"}
           => ListsOnly(Tail(txn[t].todo), Lease)
    BY <1>1, <1>2 DEF TxnGuarded, ListsOnly
  <2> QED
    BY <1>1, <1>2, <2>1, <2>4, <2>5, <2>6, <2>7 DEF TxnGuarded
<1> QED
  BY <1>4, <1>5, <1>6 DEF Guarded

(* A transaction ends: what it changes it has locked.                      *)
LEMMA EndGuarded ==
    ASSUME Guarded, LeaseFirst', EndedHasOutcome', NEW t \in Txns,
           lease' \in [token: 0..MaxToken, expired: BOOLEAN],
           \A row \in Rows : holder'[row] = IF holder[row] = t THEN None ELSE holder[row],
           txn'[t] = Idle,
           \A u \in Txns \ {t} :
              /\ txn'[u].kind = txn[u].kind /\ txn'[u].runs = txn[u].runs
              /\ txn'[u].seen = txn[u].seen /\ txn'[u].token = txn[u].token
              /\ txn'[u].todo = txn[u].todo,
           \A r \in Runs : status'[r] # status[r] => holder[Run(r)] = t,
           lease'.token # lease.token => holder[Lease] = t
    PROVE  Guarded'
<1>1. ASSUME NEW u \in Txns \ {t} PROVE TxnGuarded(u)'
  <2>1. TxnGuarded(u)
    BY DEF Guarded
  <2>2. \A row \in Rows : holder'[row] = u <=> holder[row] = u
    BY ConstantsAssumption
  <2>3. /\ txn'[u].kind = txn[u].kind /\ txn'[u].runs = txn[u].runs
        /\ txn'[u].seen = txn[u].seen /\ txn'[u].token = txn[u].token
        /\ txn'[u].todo = txn[u].todo
    OBVIOUS
  <2>4. /\ \A r \in Runs : holder[Run(r)] = u => status'[r] = status[r]
        /\ holder[Lease] = u => lease'.token = lease.token
    OBVIOUS
  <2> QED
    BY <2>1, <2>2, <2>3, <2>4, OthersStayGuarded
<1>2. TxnGuarded(t)'
  BY DEF TxnGuarded, Guards, Idle, ListsOnly
<1> QED
  BY <1>1, <1>2 DEF Guarded

(* It ends without having moved a Run or the lease's token.                *)
LEMMA PlainEndGuarded ==
    ASSUME Guarded, LeaseFirst', NEW t \in Txns, Ends(t),
           UNCHANGED <<status, outcome>>,
           lease'.token = lease.token, lease' \in [token: 0..MaxToken, expired: BOOLEAN]
    PROVE  Guarded'
<1>1. EndedHasOutcome'
  BY DEF Guarded, EndedHasOutcome
<1>2. DOMAIN txn = Txns
  BY DEF Guarded, LeaseFirst
<1> QED
  BY <1>1, <1>2, EndGuarded DEF Ends

(* It ends and has moved its Runs.                                         *)
LEMMA MoveGuarded ==
    ASSUME Guarded, LeaseFirst', NEW t \in Txns, Ends(t), NEW to, NEW what,
           txn[t].todo = << >>, Moved(t, to),
           lease'.token = lease.token, lease' \in [token: 0..MaxToken, expired: BOOLEAN],
           \/ txn[t].kind = "begin" /\ to = "running" /\ UNCHANGED outcome
           \/ to \in {"waiting", "ended"} /\ what # "none" /\ Outcome(t, what)
    PROVE  Guarded'
<1>1. TxnGuarded(t) /\ DOMAIN txn = Txns /\ txn[t].runs \subseteq Runs
  BY DEF Guarded, LeaseFirst, TxnGuarded
<1>2. \A r \in txn[t].runs : holder[Run(r)] = t
  BY <1>1, ReadyHoldsGuards DEF Guards
<1>3. EndedHasOutcome'
  <2> SUFFICES ASSUME NEW r \in Runs
               PROVE  outcome'[r] # "none" <=> status'[r] \in {"waiting", "ended"}
    BY DEF EndedHasOutcome
  <2>1. outcome[r] # "none" <=> status[r] \in {"waiting", "ended"}
    BY DEF Guarded, EndedHasOutcome
  <2>2. status'[r] = IF r \in txn[t].runs THEN to ELSE status[r]
    BY DEF Moved
  <2>3. CASE txn[t].kind = "begin" /\ to = "running" /\ UNCHANGED outcome
    <3>1. r \in txn[t].runs => status[r] = "queued"
      BY <1>1, <1>2, <2>3 DEF TxnGuarded
    <3> QED
      BY <2>1, <2>2, <2>3, <3>1
  <2>4. CASE to \in {"waiting", "ended"} /\ what # "none" /\ Outcome(t, what)
    <3>1. outcome'[r] = IF r \in txn[t].runs THEN what ELSE outcome[r]
      BY <2>4 DEF Outcome
    <3> QED
      BY <2>1, <2>2, <2>4, <3>1
  <2> QED
    BY <2>3, <2>4
<1>4. \A r \in Runs : status'[r] # status[r] => holder[Run(r)] = t
  BY <1>2 DEF Moved
<1> QED
  BY <1>1, <1>3, <1>4, EndGuarded DEF Ends

(* It ends and has written the lease.                                      *)
LEMMA LeaseEndGuarded ==
    ASSUME Guarded, LeaseFirst', NEW t \in Txns, 
           NEW row \in [token: 0..MaxToken, expired: BOOLEAN], EndsWithLease(t, row),
           txn[t].todo = << >>, UNCHANGED <<status, outcome>>,
           txn[t].kind = "claim" \/ row.token = lease.token
    PROVE  Guarded'
<1>1. TxnGuarded(t) /\ DOMAIN txn = Txns
  BY DEF Guarded, LeaseFirst
<1>2. EndedHasOutcome'
  BY DEF Guarded, EndedHasOutcome
<1>3. lease'.token # lease.token => holder[Lease] = t
  BY <1>1, ReadyHoldsGuards DEF EndsWithLease, Guards
<1>4. /\ txn'[t] = Idle
      /\ \A x \in Rows : holder'[x] = IF holder[x] = t THEN None ELSE holder[x]
      /\ lease' \in [token: 0..MaxToken, expired: BOOLEAN]
  BY DEF EndsWithLease
<1>5. \A u \in Txns \ {t} :
         /\ txn'[u].kind = txn[u].kind /\ txn'[u].runs = txn[u].runs
         /\ txn'[u].seen = txn[u].seen /\ txn'[u].token = txn[u].token
         /\ txn'[u].todo = txn[u].todo
  <2> SUFFICES ASSUME NEW u \in Txns \ {t}
               PROVE  /\ txn'[u].kind = txn[u].kind /\ txn'[u].runs = txn[u].runs
                      /\ txn'[u].seen = txn[u].seen /\ txn'[u].token = txn[u].token
                      /\ txn'[u].todo = txn[u].todo
    OBVIOUS
  <2>1. DOMAIN txn[u] = TxnFields
    BY DEF Guarded, LeaseFirst
  <2> QED
    BY <2>1 DEF EndsWithLease, TxnFields
<1> QED
  BY <1>2, <1>3, <1>4, <1>5, EndGuarded

(* At first there are no transactions.                                     *)
LEMMA InitGuarded == Init => Guarded
<1> SUFFICES ASSUME Init PROVE Guarded
  OBVIOUS
<1>1. LeaseFirst
  BY InitLeaseFirst
<1>2. EndedHasOutcome /\ lease \in [token: 0..MaxToken, expired: BOOLEAN]
  BY ConstantsAssumption DEF Init, EndedHasOutcome
<1>3. ASSUME NEW t \in Txns PROVE TxnGuarded(t)
  <2>1. txn[t] = Idle
    BY DEF Init
  <2> QED
    BY <2>1 DEF TxnGuarded, Guards, Idle, ListsOnly
<1> QED
  BY <1>1, <1>2, <1>3 DEF Guarded

(* A transaction that starts has all its guards before it.                 *)
LEMMA StartsGuarded ==
    ASSUME Guarded, LeaseFirst', NEW t \in Txns, Start(t)
    PROVE  Guarded'
<1>1. CASE ClaimStarts(t)
  <2> DEFINE candidates == {r \in Runs : status[r] = "queued" /\ Unlocked(Run(r))}
             rows == {Run(r) : r \in candidates}
  <2>1. candidates \in SUBSET Runs /\ \A r \in candidates : status[r] = "queued"
    OBVIOUS
  <2>2. Starts(t, "claim", candidates, 0, <<Lease>>, "queued") /\ holder' = Locked(rows, t)
    BY <1>1 DEF ClaimStarts
  <2>3. /\ LocksFreeRows(t)
        /\ \A r \in candidates : holder'[Run(r)] = t
    BY <2>2, RunRowsAreDistinct DEF Locked, Unlocked, LocksFreeRows
  <2>4. /\ Lists(<<Lease>>, Lease)
        /\ ListsOnly(<<Lease>>, Lease)
    BY DEF Lists, ListsOnly
  <2> HIDE DEF candidates, rows
  <2> QED
    BY <2>1, <2>2, <2>3, <2>4, StartGuarded
<1>2. ASSUME NEW r \in Runs, RecoverStarts(t, r) PROVE Guarded'
  <2> DEFINE todo == IF attemptToken[r] = lease.token THEN <<Lease>> ELSE << >>
             runs == {r}
  <2>1. /\ Starts(t, "recover", runs, attemptToken[r], todo, "running")
        /\ holder' = Locked({Run(r), Attempt(r)}, t)
        /\ Unlocked(Run(r)) /\ Unlocked(Attempt(r)) /\ status[r] = "running"
    BY <1>2 DEF RecoverStarts
  <2>2. /\ LocksFreeRows(t)
        /\ \A q \in runs : holder'[Run(q)] = t
    BY <2>1, RowsAreDistinct DEF Locked, Unlocked, LocksFreeRows
  <2>3. ListsOnly(todo, Lease)
    BY DEF ListsOnly
  <2>4. runs \in SUBSET Runs /\ \A q \in runs : status[q] = "running"
    BY <2>1
  <2> HIDE DEF todo, runs
  <2> QED
    BY <2>1, <2>2, <2>3, <2>4, StartGuarded
<1>3. ASSUME NEW k \in 1..MaxToken, RenewStarts(t, k) PROVE Guarded'
  <2>1. Starts(t, "renew", {}, k, <<Lease>>, "none") /\ LocksFreeRows(t)
    BY <1>3 DEF RenewStarts, LocksFreeRows
  <2>2. ListsOnly(<<Lease>>, Lease)
    BY DEF ListsOnly
  <2>3. {} \in SUBSET Runs
    OBVIOUS
  <2> QED
    BY <2>1, <2>2, <2>3, StartGuarded
<1>4. ASSUME NEW r \in Runs, NEW k \in 1..MaxToken, BeginStarts(t, r, k) PROVE Guarded'
  <2> DEFINE runs == {r}
  <2>1. /\ Starts(t, "begin", runs, k, BeginOrder(r), "queued") /\ UNCHANGED holder
        /\ LocksFreeRows(t) /\ runs \in SUBSET Runs /\ \A q \in runs : status[q] = "queued"
    BY <1>4 DEF BeginStarts, LocksFreeRows
  <2>2. \A q \in runs : Lists(BeginOrder(r), Run(q))
    BY OrdersHaveGuards
  <2> HIDE DEF runs
  <2> QED
    BY <2>1, <2>2, StartGuarded, OrdersHaveGuards
<1>5. ASSUME NEW r \in Runs, SettleStarts(t, r) PROVE Guarded'
  <2> DEFINE runs == {r}
  <2>1. /\ Starts(t, "settle", runs, attemptToken[r], SettleOrder(r), "running") /\ UNCHANGED holder
        /\ LocksFreeRows(t) /\ runs \in SUBSET Runs /\ \A q \in runs : status[q] = "running"
    BY <1>5 DEF SettleStarts, LocksFreeRows
  <2>2. \A q \in runs : Lists(SettleOrder(r), Run(q))
    BY OrdersHaveGuards
  <2> HIDE DEF runs
  <2> QED
    BY <2>1, <2>2, StartGuarded, OrdersHaveGuards
<1>6. ASSUME NEW r \in Runs, AskStarts(t, r) PROVE Guarded'
  <2> DEFINE runs == {r}
  <2>1. /\ Starts(t, "ask", runs, attemptToken[r], AskOrder(r), "running") /\ UNCHANGED holder
        /\ LocksFreeRows(t) /\ runs \in SUBSET Runs /\ \A q \in runs : status[q] = "running"
    BY <1>6 DEF AskStarts, LocksFreeRows
  <2>2. \A q \in runs : Lists(AskOrder(r), Run(q))
    BY OrdersHaveGuards
  <2> HIDE DEF runs
  <2> QED
    BY <2>1, <2>2, StartGuarded, OrdersHaveGuards
<1>7. ASSUME NEW r \in Runs, CancelStarts(t, r) PROVE Guarded'
  <2> DEFINE runs == {r}
  <2>1. /\ Starts(t, "cancel", runs, 0, CancelOrder(r), status[r]) /\ UNCHANGED holder
        /\ LocksFreeRows(t) /\ runs \in SUBSET Runs /\ \A q \in runs : status[q] = status[r]
    BY <1>7 DEF CancelStarts, LocksFreeRows
  <2>2. \A q \in runs : Lists(CancelOrder(r), Run(q))
    BY OrdersHaveGuards
  <2> HIDE DEF runs
  <2> QED
    BY <2>1, <2>2, StartGuarded, OrdersHaveGuards
<1> QED
  BY <1>1, <1>2, <1>3, <1>4, <1>5, <1>6, <1>7 DEF Start

(* Every step preserves Guarded.                                           *)
LEMMA NextGuarded == Guarded /\ [Next]_vars => Guarded'
<1> SUFFICES ASSUME Guarded, [Next]_vars PROVE Guarded'
  OBVIOUS
<1>0. LeaseFirst' /\ lease \in [token: 0..MaxToken, expired: BOOLEAN]
  BY NextLeaseFirst DEF Guarded
<1>1. ASSUME NEW t \in Txns, Start(t) PROVE Guarded'
  BY <1>0, <1>1, StartsGuarded
<1>2. ASSUME NEW t \in Txns, TxnStep(t) PROVE Guarded'
  <2>1. CASE Locks(t)
    BY <1>0, <2>1, LockGuarded
  <2>2. CASE RollsBack(t) \/ DeadlockAborts(t)
    BY <1>0, <2>2, PlainEndGuarded DEF RollsBack, DeadlockAborts
  <2>3. CASE ClaimCommits(t)
    <3>1. /\ txn[t].kind = "claim" /\ txn[t].todo = << >> /\ UNCHANGED <<status, outcome>>
          /\ \/ /\ EndsWithLease(t, [token |-> lease.token + 1, expired |-> FALSE])
                /\ lease.token < MaxToken
             \/ Ends(t) /\ UNCHANGED lease
      BY <2>3 DEF ClaimCommits, Ready
    <3>2. CASE /\ EndsWithLease(t, [token |-> lease.token + 1, expired |-> FALSE])
               /\ lease.token < MaxToken
      <4>1. [token |-> lease.token + 1, expired |-> FALSE]
               \in [token: 0..MaxToken, expired: BOOLEAN]
        BY <1>0, <3>1, <3>2, ConstantsAssumption
      <4> QED
        BY <1>0, <3>1, <3>2, <4>1, LeaseEndGuarded
    <3> QED
      BY <1>0, <3>1, <3>2, PlainEndGuarded
  <2>4. CASE BeginCommits(t)
    <3>1. /\ txn[t].kind = "begin" /\ txn[t].todo = << >> /\ Moved(t, "running")
          /\ Ends(t) /\ UNCHANGED <<outcome, lease>>
      BY <2>4 DEF BeginCommits, Ready
    <3> QED
      BY <1>0, <3>1, MoveGuarded
  <2>5. CASE SettleCommits(t)
    <3>1. /\ txn[t].todo = << >> /\ Moved(t, "ended") /\ Outcome(t, "settled")
          /\ Ends(t) /\ UNCHANGED lease
      BY <2>5 DEF SettleCommits, Ready
    <3> QED
      BY <1>0, <3>1, MoveGuarded
  <2>6. CASE AskCommits(t)
    <3>1. /\ txn[t].todo = << >> /\ Moved(t, "waiting") /\ Outcome(t, "asked")
          /\ Ends(t) /\ UNCHANGED lease
      BY <2>6 DEF AskCommits, Ready
    <3> QED
      BY <1>0, <3>1, MoveGuarded
  <2>7. CASE CancelCommits(t)
    <3>1. /\ txn[t].todo = << >> /\ Moved(t, "ended") /\ Outcome(t, "cancelled")
          /\ Ends(t) /\ UNCHANGED lease
      BY <2>7 DEF CancelCommits, Ready
    <3> QED
      BY <1>0, <3>1, MoveGuarded
  <2>8. CASE RecoverCommits(t)
    <3>1. /\ txn[t].todo = << >> /\ Moved(t, "ended") /\ Outcome(t, "recovered")
          /\ Ends(t)
          /\ lease' = lease \/ lease' = [lease EXCEPT !.expired = TRUE]
      BY <2>8 DEF RecoverCommits, Ready
    <3>2. lease'.token = lease.token /\ lease' \in [token: 0..MaxToken, expired: BOOLEAN]
      BY <1>0, <3>1
    <3> QED
      BY <1>0, <3>1, <3>2, MoveGuarded
  <2>9. CASE RenewCommits(t)
    <3>1. /\ txn[t].todo = << >> /\ UNCHANGED <<status, outcome>>
          /\ \/ EndsWithLease(t, [lease EXCEPT !.expired = FALSE])
             \/ Ends(t) /\ UNCHANGED lease
      BY <2>9 DEF RenewCommits, Ready
    <3>2. /\ [lease EXCEPT !.expired = FALSE].token = lease.token
          /\ [lease EXCEPT !.expired = FALSE] \in [token: 0..MaxToken, expired: BOOLEAN]
      BY <1>0
    <3> QED
      BY <1>0, <3>1, <3>2, PlainEndGuarded, LeaseEndGuarded
  <2> QED
    BY <1>2, <2>1, <2>2, <2>3, <2>4, <2>5, <2>6, <2>7, <2>8, <2>9 DEF TxnStep
<1>3. CASE Expires \/ UNCHANGED vars
  <2>1. /\ UNCHANGED <<status, outcome, holder, txn>>
        /\ lease' = lease \/ lease' = [lease EXCEPT !.expired = TRUE]
    BY <1>3 DEF Expires, vars
  <2>2. lease'.token = lease.token /\ lease' \in [token: 0..MaxToken, expired: BOOLEAN]
    BY <1>0, <2>1
  <2>3. ASSUME NEW u \in Txns PROVE TxnGuarded(u)'
    BY <2>1, <2>2, OthersStayGuarded DEF Guarded
  <2> QED
    BY <1>0, <2>1, <2>2, <2>3 DEF Guarded, EndedHasOutcome
<1> QED
  BY <1>1, <1>2, <1>3 DEF Next

(* Among any number of interleaved transactions, what each has checked     *)
(* holds when it commits: no Attempt gets two outcomes, no Run is begun    *)
(* that was cancelled meanwhile, and what a Worker commits it commits      *)
(* under the lease's token.                                                *)
THEOREM ChecksHoldAtCommit == Spec => []CommitsStand
<1>1. Guarded => CommitsStand
  <2> SUFFICES ASSUME Guarded PROVE CommitsStand
    OBVIOUS
  <2>1. \A r \in Runs : outcome[r] # "none" <=> status[r] \in {"waiting", "ended"}
    BY DEF Guarded, EndedHasOutcome
  <2>2. ASSUME NEW t \in Txns, txn[t].todo = << >>
        PROVE  /\ \A r \in txn[t].runs : status[r] = txn[t].seen
               /\ txn[t].kind \in {"begin", "settle", "ask"} => lease.token = txn[t].token
    <3>1. TxnGuarded(t)
      BY DEF Guarded
    <3>2. \A row \in Guards(t) : holder[row] = t
      BY <2>2, <3>1, ReadyHoldsGuards
    <3> QED
      BY <3>1, <3>2 DEF TxnGuarded, Guards
  <2> QED
    BY <2>1, <2>2 DEF CommitsStand
<1> QED
  BY <1>1, InitGuarded, NextGuarded, PTL DEF Spec

=============================================================================
