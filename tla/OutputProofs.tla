---------------------------- MODULE OutputProofs ----------------------------
(***************************************************************************)
(* Proofs about what an execution gives out beside its Run: the            *)
(* notifications of NotificationPublisher, for any capacity and any        *)
(* number, and the Artifacts of ArtifactWrites, however many.              *)
(***************************************************************************)
EXTENDS NotificationPublisher, ArtifactWrites, FiniteSetTheorems, SequenceTheorems, TLAPS

-----------------------------------------------------------------------------
(* Notifications.                                                          *)

(* Sequences of notifications in the order of their numbers.               *)
Rising(s) == \A i, j \in 1..Len(s) : i < j => s[i] < s[j]
Before(s, t) == \A i \in 1..Len(s), j \in 1..Len(t) : s[i] < t[j]
Below(s, n) == \A i \in 1..Len(s) : s[i] < n
In(s, n) == \E i \in 1..Len(s) : s[i] = n

(* What comes after s in the order of t is above it, or already in it.     *)
Continues(s, t) == \A j \in 1..Len(t) : Below(s, t[j]) \/ In(s, t[j])

(* The task holds a notification, or none.                                 *)
Holds(item) == IF item = Sentinel THEN 0 ELSE 1

Stats == [accepted: Nat, published: Nat, failed: Nat, dropped: Nat]

(* The notifications that the statistics account for.                      *)
Counted == stats.published + (stats.failed - producerErrors) + stats.dropped

PublisherTypes ==
    /\ phase \in Phase /\ accepting \in BOOLEAN /\ timedOut \in BOOLEAN
    /\ queue \in Seq(Nat) /\ unfinished \in Nat /\ offered \in Nat
    /\ worker \in [pc: {"none", "waiting", "sending", "cancelled", "done"}, item: Nat]
    /\ stats \in Stats
    /\ producerErrors \in Nat
    /\ wire \in [Partitions -> Seq(Nat)] /\ broker \in [Partitions -> Seq(Nat)]

(* Where start(), close() and the task are with each other.  The sentinel  *)
(* is alone in the queue when it is there, because close() has waited for  *)
(* everything before it and nothing is accepted meanwhile.                 *)
PhaseInv ==
    /\ phase # "raised"
    /\ accepting => phase = "open"
    /\ phase \in {"new", "starting", "dead"} => worker = NoItem /\ queue = << >>
    /\ phase \in {"open", "joining", "joined", "awaiting", "stopping"} => worker.pc # "none"
    /\ phase \in {"open", "joining", "joined"} => worker.pc \in {"waiting", "sending"}
    /\ phase = "joined" => unfinished = 0
    /\ worker.pc \in {"none", "waiting", "done"} => worker.item = Sentinel
    /\ worker.pc = "sending" => worker.item # Sentinel /\ phase \in {"open", "joining", "joined"}
    /\ timedOut => phase \in {"awaiting", "stopping", "closed"}
                   /\ worker.pc \in {"cancelled", "done"}
    /\ worker.pc \in {"none", "done"} /\ ~timedOut => queue = << >>
    /\ worker.pc = "done" => phase \in {"awaiting", "stopping", "closed"}
    /\ phase \in {"stopping", "closed"} => worker.pc \in {"none", "done"}
    /\ worker.pc = "cancelled" => timedOut
    /\ phase = "awaiting" /\ ~timedOut =>
          \/ worker.pc = "waiting" /\ queue = <<Sentinel>>
          \/ worker.pc = "done"
    /\ unfinished = Len(queue) + Holds(worker.item)

(* Where the sentinel may be.                                              *)
QueueInv ==
    \/ \A i \in 1..Len(queue) : queue[i] # Sentinel
    \/ queue = <<Sentinel>> /\ phase = "awaiting" /\ ~timedOut /\ worker.item = Sentinel

(* Everything that was offered is in one of the numbers.                   *)
CountInv ==
    IF timedOut THEN offered - Counted \in {0, 1}
    ELSE offered = Counted + Holds(worker.item) + (IF queue = <<Sentinel>> THEN 0 ELSE Len(queue))

(* From the broker back to publish(), the numbers grow, but for those that *)
(* arrive again: said of what a partition has, of what is under way to it, *)
(* of the item in hand, of the queue, and of a bound.                      *)
InOrder(b, w, item, q, n) ==
    /\ FirstArrivalsRise(b) /\ Rising(w) /\ Continues(b, w)
    /\ Below(b, n) /\ Below(w, n) /\ Below(q, n)
    /\ Rising(q)
    /\ item # Sentinel => /\ item < n
                          /\ Below(b, item) /\ Below(w, item)
                          /\ \A j \in 1..Len(q) : item < q[j]
    /\ q # <<Sentinel>> => Before(b, q) /\ Before(w, q)

OrderInv ==
    \A p \in Partitions : InOrder(broker[p], wire[p], worker.item, queue, offered + 1)

PublisherInv == PublisherTypes /\ PhaseInv /\ QueueInv /\ CountInv /\ OrderInv

(* Sequences that grow at the end and shrink at the front.                 *)
LEMMA AppendFacts ==
    ASSUME NEW s \in Seq(Nat), NEW n \in Nat
    PROVE  /\ Append(s, n) \in Seq(Nat) /\ Len(Append(s, n)) = Len(s) + 1
           /\ \A i \in 1..Len(s) : Append(s, n)[i] = s[i]
           /\ Append(s, n)[Len(s) + 1] = n
OBVIOUS

LEMMA TailFacts ==
    ASSUME NEW s \in Seq(Nat), s # << >>
    PROVE  /\ Tail(s) \in Seq(Nat) /\ Len(Tail(s)) = Len(s) - 1 /\ Len(s) > 0
           /\ \A i \in 1..Len(Tail(s)) : i + 1 \in 1..Len(s) /\ Tail(s)[i] = s[i + 1]
           /\ Head(s) = s[1] /\ Head(s) \in Nat /\ 1 \in 1..Len(s)
OBVIOUS

LEMMA EmptyFacts ==
    ASSUME NEW s \in Seq(Nat)
    PROVE  /\ Len(s) \in Nat /\ (s = << >> <=> Len(s) = 0)
           /\ \A i \in 1..Len(s) : s[i] \in Nat
           /\ << >> \in Seq(Nat) /\ Len(<< >>) = 0
OBVIOUS

(* What is under way arrives, up to its k-th message: what is there then,  *)
(* and what is left.                                                       *)
Arrival(b, w, k, bk, wk) ==
    /\ bk \in Seq(Nat) /\ Len(bk) = Len(b) + k
    /\ \A i \in 1..Len(b) : bk[i] = b[i]
    /\ \A i \in 1..k : bk[Len(b) + i] = w[i]
    /\ wk \in Seq(Nat) /\ Len(wk) = Len(w) - k
    /\ \A i \in 1..Len(wk) : wk[i] = w[i + k]

LEMMA ArrivalFacts ==
    ASSUME NEW b \in Seq(Nat), NEW w \in Seq(Nat), NEW k \in 1..Len(w)
    PROVE  Arrival(b, w, k, b \o SubSeq(w, 1, k), SubSeq(w, k + 1, Len(w)))
<1>1. k \in Nat /\ Len(w) \in Nat /\ k >= 1 /\ k <= Len(w) /\ Len(b) \in Nat
  BY EmptyFacts
<1>2. /\ SubSeq(w, 1, k) \in Seq(Nat) /\ Len(SubSeq(w, 1, k)) = k
      /\ \A i \in 1..k : SubSeq(w, 1, k)[i] = w[i]
  BY <1>1
<1>3. /\ SubSeq(w, k + 1, Len(w)) \in Seq(Nat) /\ Len(SubSeq(w, k + 1, Len(w))) = Len(w) - k
      /\ \A i \in 1..(Len(w) - k) : SubSeq(w, k + 1, Len(w))[i] = w[i + k]
  <2>1. \A i \in (k + 1)..Len(w) : w[i] \in Nat
    BY <1>1, EmptyFacts
  <2>2. k + 1 \in Int /\ Len(w) \in Int
    BY <1>1
  <2>3. /\ SubSeq(w, k + 1, Len(w)) \in Seq(Nat)
        /\ Len(SubSeq(w, k + 1, Len(w))) = IF k + 1 <= Len(w) THEN Len(w) - (k + 1) + 1 ELSE 0
        /\ \A i \in 1..(Len(w) - (k + 1) + 1) : SubSeq(w, k + 1, Len(w))[i] = w[(k + 1) + i - 1]
    BY <2>1, <2>2, SubSeqProperties
  <2>4. (IF k + 1 <= Len(w) THEN Len(w) - (k + 1) + 1 ELSE 0) = Len(w) - k
    BY <1>1
  <2>5. Len(w) - (k + 1) + 1 = Len(w) - k /\ \A i \in 1..(Len(w) - k) : (k + 1) + i - 1 = i + k
    BY <1>1
  <2>6. Len(SubSeq(w, k + 1, Len(w))) = Len(w) - k
    <3> DEFINE v == SubSeq(w, k + 1, Len(w))
    <3>1. Len(v) = IF k + 1 <= Len(w) THEN Len(w) - (k + 1) + 1 ELSE 0
      BY <2>3
    <3> HIDE DEF v
    <3>2. Len(v) = Len(w) - k
      BY <2>4, <3>1
    <3> QED
      BY <3>2 DEF v
  <2>7. \A i \in 1..(Len(w) - k) : SubSeq(w, k + 1, Len(w))[i] = w[i + k]
    <3> SUFFICES ASSUME NEW i \in 1..(Len(w) - k)
                 PROVE  SubSeq(w, k + 1, Len(w))[i] = w[i + k]
      OBVIOUS
    <3>1. (k + 1) + i - 1 = i + k /\ i \in 1..(Len(w) - (k + 1) + 1)
      BY <2>5
    <3>2. SubSeq(w, k + 1, Len(w))[i] = w[(k + 1) + i - 1]
      BY <2>3, <3>1, Zenon
    <3> QED
      BY <3>1, <3>2, Zenon
  <2> QED
    BY <2>3, <2>6, <2>7, Zenon
<1>4. Arrival(b, w, k, b \o SubSeq(w, 1, k), SubSeq(w, k + 1, Len(w)))
  <2> DEFINE u == SubSeq(w, 1, k)
             v == SubSeq(w, k + 1, Len(w))
  <2>1. /\ u \in Seq(Nat) /\ Len(u) = k /\ \A i \in 1..k : u[i] = w[i]
        /\ v \in Seq(Nat) /\ Len(v) = Len(w) - k /\ \A i \in 1..(Len(w) - k) : v[i] = w[i + k]
    BY <1>2, <1>3
  <2> HIDE DEF u, v
  <2>2. b \o u \in Seq(Nat) /\ Len(b \o u) = Len(b) + k
    BY <1>1, <2>1
  <2>3. /\ \A i \in 1..Len(b) : (b \o u)[i] = b[i]
        /\ \A i \in 1..k : (b \o u)[Len(b) + i] = w[i]
    BY <1>1, <2>1
  <2>4. Arrival(b, w, k, b \o u, v)
    BY <2>1, <2>2, <2>3 DEF Arrival
  <2> QED
    BY <2>4 DEF u, v
<1> QED
  BY <1>4

(* A number above those of a rising sequence may be appended.              *)
LEMMA AppendRises ==
    ASSUME NEW s \in Seq(Nat), NEW n \in Nat, Below(s, n), Rising(s)
    PROVE  Rising(Append(s, n))
<1>1. \A i \in 1..(Len(s) + 1) : i \in 1..Len(s) \/ i = Len(s) + 1
  BY EmptyFacts
<1> QED
  BY <1>1, AppendFacts, EmptyFacts DEF Rising, Below

LEMMA AppendBelow ==
    ASSUME NEW s \in Seq(Nat), NEW n \in Nat, NEW m \in Nat
    PROVE  /\ Below(s, m) /\ n < m => Below(Append(s, n), m)
           /\ Below(s, m) => Below(s, m + 1)
           /\ \A t \in Seq(Nat) :
                 /\ Below(t, n) /\ Before(t, s) => Before(t, Append(s, n))
                 /\ Before(s, t) /\ (\A j \in 1..Len(t) : n < t[j]) => Before(Append(s, n), t)
<1>1. \A i \in 1..(Len(s) + 1) : i \in 1..Len(s) \/ i = Len(s) + 1
  BY EmptyFacts
<1>2. Below(s, m) => Below(s, m + 1)
  BY EmptyFacts DEF Below
<1> QED
  BY <1>1, <1>2, AppendFacts, EmptyFacts DEF Before, Below

LEMMA TailRises ==
    ASSUME NEW s \in Seq(Nat), s # << >>
    PROVE  /\ Rising(s) => /\ Rising(Tail(s))
                           /\ \A j \in 1..Len(Tail(s)) : Head(s) < Tail(s)[j]
           /\ \A m \in Nat : Below(s, m) => Below(Tail(s), m) /\ Head(s) < m
           /\ \A t \in Seq(Nat) :
                 /\ Before(t, s) => Before(t, Tail(s)) /\ Below(t, Head(s))
                 /\ Before(s, t) => /\ Before(Tail(s), t)
                                    /\ \A j \in 1..Len(t) : Head(s) < t[j]
<1>1. /\ Rising(s) => /\ Rising(Tail(s))
                       /\ \A j \in 1..Len(Tail(s)) : Head(s) < Tail(s)[j]
  <2> SUFFICES ASSUME Rising(s)
               PROVE  /\ Rising(Tail(s))
                      /\ \A j \in 1..Len(Tail(s)) : Head(s) < Tail(s)[j]
    OBVIOUS
  <2>1. \A j \in 1..Len(Tail(s)) : 1 < j + 1 /\ j + 1 \in 1..Len(s) /\ Tail(s)[j] = s[j + 1]
    BY TailFacts, EmptyFacts
  <2>2. \A j \in 1..Len(Tail(s)) : Head(s) < Tail(s)[j]
    BY <2>1, TailFacts DEF Rising
  <2>3. \A i, j \in 1..Len(Tail(s)) : i < j => Tail(s)[i] < Tail(s)[j]
    <3> SUFFICES ASSUME NEW i \in 1..Len(Tail(s)), NEW j \in 1..Len(Tail(s)), i < j
                 PROVE  Tail(s)[i] < Tail(s)[j]
      OBVIOUS
    <3>1. i + 1 < j + 1
      BY TailFacts, EmptyFacts
    <3> QED
      BY <2>1, <3>1 DEF Rising
  <2> QED
    BY <2>2, <2>3 DEF Rising
<1>2. \A m \in Nat : Below(s, m) => Below(Tail(s), m) /\ Head(s) < m
  BY TailFacts DEF Below
<1>3. \A t \in Seq(Nat) :
         /\ Before(t, s) => Before(t, Tail(s)) /\ Below(t, Head(s))
         /\ Before(s, t) => /\ Before(Tail(s), t)
                            /\ \A j \in 1..Len(t) : Head(s) < t[j]
  BY TailFacts DEF Below, Before
<1> QED
  BY <1>1, <1>2, <1>3

(* One of the statistics grows.                                            *)
LEMMA StatsFacts ==
    ASSUME NEW v \in Stats, NEW n \in Nat
    PROVE  /\ [v EXCEPT !.accepted = @ + n] \in Stats
           /\ [v EXCEPT !.published = @ + n] \in Stats
           /\ [v EXCEPT !.failed = @ + n] \in Stats
           /\ [v EXCEPT !.dropped = @ + n] \in Stats
           /\ v.published \in Nat /\ v.failed \in Nat /\ v.dropped \in Nat
BY DEF Stats

LEMMA StatsFields ==
    ASSUME NEW v \in Stats, NEW n \in Nat
    PROVE  /\ LET u == [v EXCEPT !.accepted = @ + n]
              IN  u.published = v.published /\ u.failed = v.failed /\ u.dropped = v.dropped
           /\ LET u == [v EXCEPT !.published = @ + n]
              IN  u.published = v.published + n /\ u.failed = v.failed /\ u.dropped = v.dropped
           /\ LET u == [v EXCEPT !.failed = @ + n]
              IN  u.published = v.published /\ u.failed = v.failed + n /\ u.dropped = v.dropped
           /\ LET u == [v EXCEPT !.dropped = @ + n]
              IN  u.published = v.published /\ u.failed = v.failed /\ u.dropped = v.dropped + n
BY DEF Stats

(* The variables of the statistics, and what a step adds to them.          *)
LEMMA StatsKept ==
    ASSUME PublisherTypes, PublisherNext
    PROVE  /\ stats' \in Stats /\ producerErrors' \in Nat
           /\ UNCHANGED <<stats, producerErrors>> => Counted' = Counted
           /\ Publish /\ accepting /\ Len(queue) < Capacity => Counted' = Counted
           /\ Publish /\ ~(accepting /\ Len(queue) < Capacity) => Counted' = Counted + 1
           /\ SendReturns \/ SendRaises => Counted' = Counted + 1
           /\ JoinTimesOut => Counted' = Counted + Len(queue)
           /\ ProducerStartFails \/ ProducerStopFails => Counted' = Counted
<1>1. stats \in Stats /\ producerErrors \in Nat /\ Len(queue) \in Nat /\ 1 \in Nat
  BY EmptyFacts DEF PublisherTypes
<1>2. /\ [stats EXCEPT !.accepted = @ + 1] \in Stats
      /\ [stats EXCEPT !.published = @ + 1] \in Stats
      /\ [stats EXCEPT !.failed = @ + 1] \in Stats
      /\ [stats EXCEPT !.dropped = @ + 1] \in Stats
      /\ [stats EXCEPT !.dropped = @ + Len(queue)] \in Stats
      /\ stats.published \in Nat /\ stats.failed \in Nat /\ stats.dropped \in Nat
  BY <1>1, StatsFacts
<1>3. UNCHANGED <<stats, producerErrors>> => /\ stats' \in Stats /\ producerErrors' \in Nat
                                             /\ Counted' = Counted
  BY <1>1 DEF Counted
<1>4. /\ Publish /\ accepting /\ Len(queue) < Capacity => stats' \in Stats /\ Counted' = Counted
      /\ Publish /\ ~(accepting /\ Len(queue) < Capacity) => stats' \in Stats /\ Counted' = Counted + 1
      /\ Publish => producerErrors' = producerErrors
  <2>1. ASSUME Publish, accepting /\ Len(queue) < Capacity
        PROVE  stats' \in Stats /\ Counted' = Counted
    <3>1. stats' = [stats EXCEPT !.accepted = @ + 1] /\ producerErrors' = producerErrors
      BY <2>1 DEF Publish
    <3>2. /\ stats'.published = stats.published /\ stats'.failed = stats.failed
          /\ stats'.dropped = stats.dropped
      BY <1>1, <3>1, StatsFields
    <3> QED
      BY <1>2, <3>1, <3>2 DEF Counted
  <2>2. ASSUME Publish, ~(accepting /\ Len(queue) < Capacity)
        PROVE  stats' \in Stats /\ Counted' = Counted + 1
    <3>1. stats' = [stats EXCEPT !.dropped = @ + 1] /\ producerErrors' = producerErrors
      BY <2>2 DEF Publish
    <3>2. /\ stats'.published = stats.published /\ stats'.failed = stats.failed
          /\ stats'.dropped = stats.dropped + 1
      BY <1>1, <3>1, StatsFields
    <3>3. stats' \in Stats
      BY <1>2, <3>1
    <3>4. producerErrors' = producerErrors
      BY <3>1
    <3> QED
      BY <1>1, <1>2, <3>2, <3>3, <3>4 DEF Counted
  <2> QED
    BY <2>1, <2>2 DEF Publish
<1>5. ASSUME SendReturns
      PROVE  stats' \in Stats /\ Counted' = Counted + 1 /\ producerErrors' = producerErrors
  <2>1. stats' = [stats EXCEPT !.published = @ + 1] /\ producerErrors' = producerErrors
    BY <1>5 DEF SendReturns
  <2>2. /\ stats'.published = stats.published + 1 /\ stats'.failed = stats.failed
        /\ stats'.dropped = stats.dropped
    BY <1>1, <2>1, StatsFields
  <2>3. stats' \in Stats
    BY <1>1, <1>2, <2>1
  <2>4. producerErrors' = producerErrors
    BY <2>1
  <2> QED
    BY <1>1, <1>2, <2>2, <2>3, <2>4 DEF Counted
<1>6. ASSUME SendRaises
      PROVE  stats' \in Stats /\ Counted' = Counted + 1 /\ producerErrors' = producerErrors
  <2>1. stats' = [stats EXCEPT !.failed = @ + 1] /\ producerErrors' = producerErrors
    BY <1>6 DEF SendRaises
  <2>2. /\ stats'.published = stats.published /\ stats'.failed = stats.failed + 1
        /\ stats'.dropped = stats.dropped
    BY <1>1, <2>1, StatsFields
  <2>3. stats' \in Stats
    BY <1>1, <1>2, <2>1
  <2>4. producerErrors' = producerErrors
    BY <2>1
  <2> QED
    BY <1>1, <1>2, <2>2, <2>3, <2>4 DEF Counted
<1>7. ASSUME JoinTimesOut
      PROVE  stats' \in Stats /\ Counted' = Counted + Len(queue) /\ producerErrors' = producerErrors
  <2>1. stats' = [stats EXCEPT !.dropped = @ + Len(queue)] /\ producerErrors' = producerErrors
    BY <1>7 DEF JoinTimesOut
  <2>2. /\ stats'.published = stats.published /\ stats'.failed = stats.failed
        /\ stats'.dropped = stats.dropped + Len(queue)
    BY <1>1, <2>1, StatsFields
  <2>3. stats' \in Stats
    BY <1>1, <1>2, <2>1
  <2>4. producerErrors' = producerErrors
    BY <2>1
  <2> QED
    BY <1>1, <1>2, <2>2, <2>3, <2>4 DEF Counted
<1>8. ASSUME ProducerStartFails \/ ProducerStopFails
      PROVE  stats' \in Stats /\ Counted' = Counted /\ producerErrors' \in Nat
  <2>1. stats' = [stats EXCEPT !.failed = @ + 1] /\ producerErrors' = producerErrors + 1
    BY <1>8 DEF ProducerStartFails, ProducerStopFails
  <2>2. /\ stats'.published = stats.published /\ stats'.failed = stats.failed + 1
        /\ stats'.dropped = stats.dropped
    BY <1>1, <2>1, StatsFields
  <2>3. stats' \in Stats
    BY <1>1, <1>2, <2>1
  <2>4. producerErrors' = producerErrors + 1
    BY <2>1
  <2> QED
    BY <1>1, <1>2, <2>2, <2>3, <2>4 DEF Counted
<1>9. \/ UNCHANGED <<stats, producerErrors>>
      \/ Publish \/ SendReturns \/ SendRaises \/ JoinTimesOut
      \/ ProducerStartFails \/ ProducerStopFails
  BY DEF PublisherNext, Close, StartBegins, ProducerStarts, Takes, Cancelled, CloseBegins,
         QueueJoined, SentinelPut, WorkerAwaited, ProducerStops, Arrives, ArrivesAndIsResent, Arrive,
         ConnectionBreaks
<1> QED
  BY <1>1, <1>3, <1>4, <1>5, <1>6, <1>7, <1>8, <1>9


(* What writing and arriving do to one partition.                          *)
LEMMA WrittenFacts ==
    ASSUME wire \in [Partitions -> Seq(Nat)], worker.item \in Nat, MayBeWritten
    PROVE  /\ wire' \in [Partitions -> Seq(Nat)]
           /\ \A p \in Partitions : wire'[p] = wire[p] \/ wire'[p] = Append(wire[p], worker.item)
<1>1. \A p \in Partitions : Append(wire[p], worker.item) \in Seq(Nat)
  BY AppendFacts
<1> QED
  BY <1>1 DEF MayBeWritten, Written

LEMMA DeliveryFacts ==
    ASSUME wire \in [Partitions -> Seq(Nat)], broker \in [Partitions -> Seq(Nat)],
           Arrives \/ ArrivesAndIsResent
    PROVE  /\ wire' \in [Partitions -> Seq(Nat)] /\ broker' \in [Partitions -> Seq(Nat)]
           /\ \A p \in Partitions :
                 \/ broker'[p] = broker[p] /\ wire'[p] = wire[p]
                 \/ \E k \in 1..Len(wire[p]) :
                       /\ broker'[p] = broker[p] \o SubSeq(wire[p], 1, k)
                       /\ \/ wire'[p] = wire[p]
                          \/ wire'[p] = SubSeq(wire[p], k + 1, Len(wire[p]))
<1>1. PICK p \in Partitions, k \in Int :
         /\ k \in 1..Len(wire[p])
         /\ broker' = [broker EXCEPT ![p] = broker[p] \o SubSeq(wire[p], 1, k)]
         /\ \/ wire' = wire
            \/ wire' = [wire EXCEPT ![p] = SubSeq(wire[p], k + 1, Len(wire[p]))]
  <2>1. PICK p \in Partitions, k \in 1..MaxOffered :
           /\ Arrive(p, k)
           /\ wire' \in {wire, [wire EXCEPT ![p] = SubSeq(wire[p], k + 1, Len(wire[p]))]}
    BY DEF Arrives, ArrivesAndIsResent
  <2>2. k \in Int /\ k \in 1..Len(wire[p])
    BY <2>1 DEF Arrive
  <2> QED
    BY <2>1, <2>2 DEF Arrive
<1>2. /\ broker[p] \o SubSeq(wire[p], 1, k) \in Seq(Nat)
      /\ SubSeq(wire[p], k + 1, Len(wire[p])) \in Seq(Nat)
  <2>1. broker[p] \in Seq(Nat) /\ wire[p] \in Seq(Nat) /\ k \in 1..Len(wire[p])
    BY <1>1
  <2> QED
    BY <2>1, ArrivalFacts DEF Arrival
<1> QED
  BY <1>1, <1>2

(* The types of the queue, the task and the connection.                    *)
LEMMA TypesKept ==
    ASSUME PublisherInv, PublisherNext
    PROVE  PublisherTypes'
<1> DEFINE Types == /\ phase \in Phase /\ accepting \in BOOLEAN /\ timedOut \in BOOLEAN
                    /\ queue \in Seq(Nat) /\ unfinished \in Nat /\ offered \in Nat
                    /\ worker \in [pc: {"none", "waiting", "sending", "cancelled", "done"},
                                   item: Nat]
                    /\ wire \in [Partitions -> Seq(Nat)]
                    /\ broker \in [Partitions -> Seq(Nat)]
<1>1. Types /\ unfinished = Len(queue) + Holds(worker.item) /\ Len(queue) \in Nat
  BY EmptyFacts DEF PublisherInv, PhaseInv, PublisherTypes
<1>2. \A n \in Nat : Append(queue, n) \in Seq(Nat)
  BY <1>1, AppendFacts
<1>3. /\ queue # << >> => Tail(queue) \in Seq(Nat) /\ Head(queue) \in Nat /\ Len(queue) > 0
      /\ << >> \in Seq(Nat)
  BY <1>1, TailFacts, EmptyFacts
<1>4. /\ worker.item \in Nat /\ Holds(worker.item) \in {0, 1}
      /\ worker.item # Sentinel => unfinished > 0
  BY <1>1 DEF Holds
<1>5. /\ worker.pc = "sending" => worker.item # Sentinel
      /\ PublisherTypes
  BY DEF PublisherInv, PhaseInv
<1>6. stats' \in Stats /\ producerErrors' \in Nat
  BY <1>5, StatsKept
<1>7. Types'
  <2>1. CASE StartBegins
    BY <1>1, <2>1 DEF StartBegins, Phase, clientVars
  <2>2. CASE ProducerStarts
    BY <1>1, <2>2 DEF ProducerStarts, Phase, clientVars, Waiting, Sentinel
  <2>3. CASE ProducerStartFails
    BY <1>1, <2>3 DEF ProducerStartFails, Phase, clientVars
  <2>4. CASE Publish
    <3>1. offered + 1 \in Nat /\ unfinished + 1 \in Nat
      BY <1>1
    <3>2. queue' \in Seq(Nat) /\ unfinished' \in Nat
      BY <1>1, <1>2, <2>4, <3>1 DEF Publish
    <3> QED
      BY <1>1, <2>4, <3>1, <3>2 DEF Publish, clientVars
  <2>5. CASE Takes
    <3>1. unfinished - 1 \in Nat
      BY <1>1, <1>3, <1>4, <2>5 DEF Takes
    <3>2. queue' \in Seq(Nat) /\ unfinished' \in Nat
      BY <1>1, <1>3, <2>5, <3>1 DEF Takes
    <3>3. worker' \in [pc: {"none", "waiting", "sending", "cancelled", "done"}, item: Nat]
      BY <1>3, <2>5 DEF Takes, Done, Sentinel
    <3> QED
      BY <1>1, <2>5, <3>2, <3>3 DEF Takes, clientVars
  <2>6. CASE SendReturns
    <3>1. unfinished - 1 \in Nat
      BY <1>1, <1>4, <1>5, <2>6 DEF SendReturns
    <3>2. wire' \in [Partitions -> Seq(Nat)]
      BY <1>1, <1>4, <2>6, WrittenFacts DEF SendReturns, MayBeWritten
    <3> QED
      BY <1>1, <2>6, <3>1, <3>2 DEF SendReturns, Waiting, Sentinel
  <2>7. CASE SendRaises
    <3>1. unfinished - 1 \in Nat
      BY <1>1, <1>4, <1>5, <2>7 DEF SendRaises
    <3>2. wire' \in [Partitions -> Seq(Nat)]
      BY <1>1, <1>4, <2>7, WrittenFacts DEF SendRaises
    <3> QED
      BY <1>1, <2>7, <3>1, <3>2 DEF SendRaises, Waiting, Sentinel
  <2>8. CASE Cancelled
    <3>1. worker.item # Sentinel => unfinished - 1 \in Nat
      BY <1>1, <1>4
    <3>2. wire' \in [Partitions -> Seq(Nat)] /\ unfinished' \in Nat
      BY <1>1, <1>4, <2>8, <3>1, WrittenFacts DEF Cancelled
    <3> QED
      BY <1>1, <2>8, <3>2 DEF Cancelled, Done, Sentinel
  <2>9. CASE CloseBegins
    BY <1>1, <2>9 DEF CloseBegins, Phase, clientVars
  <2>10. CASE QueueJoined
    BY <1>1, <2>10 DEF QueueJoined, Phase, clientVars
  <2>11. CASE SentinelPut
    <3>0. Append(queue, Sentinel) \in Seq(Nat) /\ unfinished + 1 \in Nat
      BY <1>1, <1>2 DEF Sentinel
    <3>1. queue' \in Seq(Nat) /\ unfinished' \in Nat
      BY <1>1, <2>11, <3>0 DEF SentinelPut
    <3>2. phase' \in Phase
      BY <2>11 DEF SentinelPut, Phase
    <3> QED
      BY <1>1, <2>11, <3>1, <3>2 DEF SentinelPut, clientVars
  <2>12. CASE JoinTimesOut
    <3>1. [worker EXCEPT !.pc = "cancelled"]
             \in [pc: {"none", "waiting", "sending", "cancelled", "done"}, item: Nat]
      BY <1>1
    <3> QED
      BY <1>1, <2>12, <3>1 DEF JoinTimesOut, Phase, clientVars
  <2>13. CASE WorkerAwaited
    BY <1>1, <2>13 DEF WorkerAwaited, Phase, clientVars
  <2>14. CASE ProducerStops
    BY <1>1, <2>14 DEF ProducerStops, Phase, clientVars
  <2>15. CASE ProducerStopFails
    BY <1>1, <2>15 DEF ProducerStopFails, Phase, clientVars
  <2>16. CASE Arrives \/ ArrivesAndIsResent
    <3>1. wire' \in [Partitions -> Seq(Nat)] /\ broker' \in [Partitions -> Seq(Nat)]
      BY <1>1, <2>16, DeliveryFacts
    <3> QED
      BY <1>1, <2>16, <3>1 DEF Arrives, ArrivesAndIsResent, Arrive
  <2>17. CASE ConnectionBreaks
    BY <1>1, <1>3, <2>17 DEF ConnectionBreaks
  <2> QED
    BY <2>1, <2>2, <2>3, <2>4, <2>5, <2>6, <2>7, <2>8, <2>9, <2>10, <2>11, <2>12,
       <2>13, <2>14, <2>15, <2>16, <2>17
       DEF PublisherNext, Close
<1> QED
  BY <1>6, <1>7 DEF PublisherTypes

(* Where start(), close() and the task are.                                *)
LEMMA PhaseKept ==
    ASSUME PublisherInv, PublisherNext
    PROVE  PhaseInv' /\ QueueInv'
<1>1. PublisherTypes /\ PhaseInv /\ QueueInv /\ Len(queue) \in Nat
  BY EmptyFacts DEF PublisherInv, PublisherTypes
<1>2. \A n \in Nat : /\ Len(Append(queue, n)) = Len(queue) + 1
                     /\ \A i \in 1..Len(queue) : Append(queue, n)[i] = queue[i]
                     /\ Append(queue, n)[Len(queue) + 1] = n
  BY <1>1, AppendFacts DEF PublisherTypes
<1>3. queue # << >> => /\ Len(Tail(queue)) = Len(queue) - 1 /\ Head(queue) = queue[1]
                       /\ 1 \in 1..Len(queue) /\ Head(queue) \in Nat
                       /\ \A i \in 1..Len(Tail(queue)) :
                             i + 1 \in 1..Len(queue) /\ Tail(queue)[i] = queue[i + 1]
  BY <1>1, TailFacts DEF PublisherTypes
<1>4. queue = << >> <=> Len(queue) = 0
  BY <1>1, EmptyFacts DEF PublisherTypes
<1>5. unfinished \in Nat /\ worker.item \in Nat /\ Holds(worker.item) \in Nat
  BY <1>1 DEF PublisherTypes, Holds
<1> DEFINE Plain == \A i \in 1..Len(queue) : queue[i] # Sentinel
           Last == queue = <<Sentinel>> /\ phase = "awaiting" /\ ~timedOut /\ worker.item = Sentinel
<1>6. CASE StartBegins
  BY <1>1, <1>6 DEF StartBegins, PhaseInv, QueueInv
<1>7. CASE ProducerStarts
  BY <1>1, <1>7 DEF ProducerStarts, PhaseInv, QueueInv, NoItem, Waiting, Holds, Sentinel
<1>8. CASE ProducerStartFails
  BY <1>1, <1>8 DEF ProducerStartFails, PhaseInv, QueueInv
<1>9. CASE Publish
  <2>1. CASE accepting /\ Len(queue) < Capacity
    <3>1. /\ queue' = Append(queue, offered + 1) /\ unfinished' = unfinished + 1
          /\ UNCHANGED <<phase, accepting, worker, timedOut>>
      BY <1>9, <2>1 DEF Publish
    <3>2. phase = "open" /\ ~timedOut /\ worker.pc \in {"waiting", "sending"} /\ Plain
      BY <1>1, <2>1 DEF PhaseInv, QueueInv
    <3>3. offered + 1 \in Nat /\ offered + 1 # Sentinel /\ offered \in Nat
      BY <1>1 DEF PublisherTypes, Sentinel
    <3>4. Len(queue') = Len(queue) + 1 /\ Plain'
      BY <1>1, <1>2, <3>1, <3>2, <3>3
    <3>5. unfinished' = Len(queue') + Holds(worker'.item)
      BY <1>1, <1>5, <3>1, <3>4 DEF PhaseInv
    <3> QED
      BY <1>1, <3>1, <3>2, <3>4, <3>5 DEF PhaseInv, QueueInv
  <2>2. CASE ~(accepting /\ Len(queue) < Capacity)
    BY <1>1, <1>9, <2>2 DEF Publish, PhaseInv, QueueInv
  <2> QED
    BY <2>1, <2>2
<1>10. CASE Takes
  <2>1. /\ queue' = Tail(queue) /\ UNCHANGED <<phase, accepting, timedOut>>
        /\ worker.pc = "waiting" /\ worker.item = Sentinel /\ queue # << >> /\ ~timedOut
        /\ Len(queue') = Len(queue) - 1 /\ unfinished = Len(queue)
        /\ phase \in {"open", "joining", "joined", "awaiting"}
    BY <1>1, <1>3, <1>5, <1>10 DEF Takes, PhaseInv, PublisherTypes, Phase, Holds
  <2>2. CASE Head(queue) = Sentinel
    <3>1. queue = <<Sentinel>> /\ phase = "awaiting"
      BY <1>1, <1>3, <2>1, <2>2 DEF QueueInv
    <3>2. worker' = Done /\ unfinished' = unfinished - 1 /\ queue' = << >> /\ Len(queue') = 0
      BY <1>10, <2>1, <2>2, <3>1, <1>4 DEF Takes
    <3> QED
      BY <1>1, <2>1, <3>1, <3>2 DEF PhaseInv, QueueInv, Done, Holds, Sentinel, NoItem
  <2>3. CASE Head(queue) # Sentinel
    <3>1. Plain
      BY <1>1, <1>3, <2>1, <2>3 DEF QueueInv
    <3>2. worker' = [pc |-> "sending", item |-> Head(queue)] /\ unfinished' = unfinished
      BY <1>10, <2>3 DEF Takes
    <3>3. phase \in {"open", "joining", "joined"}
      BY <1>1, <2>1, <2>3 DEF PhaseInv
    <3>4. Plain'
      BY <1>3, <2>1, <3>1
    <3> QED
      BY <1>1, <2>1, <2>3, <3>2, <3>3, <3>4 DEF PhaseInv, QueueInv, Holds
  <2> QED
    BY <2>2, <2>3
<1>11. CASE SendReturns
  BY <1>1, <1>11 DEF SendReturns, PhaseInv, QueueInv, Waiting, Holds, PublisherTypes
<1>12. CASE SendRaises
  BY <1>1, <1>12 DEF SendRaises, PhaseInv, QueueInv, Waiting, Holds, PublisherTypes
<1>13. CASE Cancelled
  BY <1>1, <1>13 DEF Cancelled, PhaseInv, QueueInv, Done, Holds, PublisherTypes
<1>14. CASE CloseBegins
  BY <1>1, <1>14 DEF CloseBegins, PhaseInv, QueueInv, NoItem
<1>15. CASE QueueJoined
  BY <1>1, <1>15 DEF QueueJoined, PhaseInv, QueueInv
<1>16. CASE SentinelPut
  <2>1. /\ phase = "joined" /\ ~timedOut /\ unfinished = 0 /\ Len(queue) = 0
        /\ Holds(worker.item) = 0 /\ worker.pc = "waiting" /\ worker.item = Sentinel
    BY <1>1, <1>5, <1>16 DEF SentinelPut, PhaseInv, Holds
  <2>2. Len(queue) < Capacity /\ queue = << >> /\ Append(queue, Sentinel) = <<Sentinel>>
    BY <1>4, <2>1, ConstantsAssumption
  <2>3. /\ queue' = <<Sentinel>> /\ unfinished' = 1 /\ phase' = "awaiting" /\ Len(queue') = 1
        /\ UNCHANGED <<accepting, worker, timedOut>>
    BY <1>16, <2>1, <2>2 DEF SentinelPut
  <2> QED
    BY <1>1, <2>1, <2>3 DEF PhaseInv, QueueInv, Holds
<1>17. CASE JoinTimesOut
  BY <1>1, <1>17 DEF JoinTimesOut, PhaseInv, QueueInv, PublisherTypes
<1>18. CASE WorkerAwaited
  BY <1>1, <1>18 DEF WorkerAwaited, PhaseInv, QueueInv
<1>19. CASE ProducerStops
  BY <1>1, <1>19 DEF ProducerStops, PhaseInv, QueueInv
<1>20. CASE ProducerStopFails
  BY <1>1, <1>20 DEF ProducerStopFails, PhaseInv, QueueInv
<1>21. CASE Arrives \/ ArrivesAndIsResent
  BY <1>1, <1>21 DEF Arrives, ArrivesAndIsResent, Arrive, PhaseInv, QueueInv
<1>22. CASE ConnectionBreaks
  BY <1>1, <1>22 DEF ConnectionBreaks, PhaseInv, QueueInv
<1> QED
  BY <1>6, <1>7, <1>8, <1>9, <1>10, <1>11, <1>12, <1>13, <1>14, <1>15, <1>16,
     <1>17, <1>18, <1>19, <1>20, <1>21, <1>22
     DEF PublisherNext, Close

(* When the sentinel is not in the queue.                                  *)
LEMMA Queues ==
    ASSUME PublisherTypes, QueueInv
    PROVE  /\ phase # "awaiting" \/ timedOut \/ worker.item # Sentinel =>
                 \A i \in 1..Len(queue) : queue[i] # Sentinel
           /\ (\A i \in 1..Len(queue) : queue[i] # Sentinel) => queue # <<Sentinel>>
BY DEF QueueInv

(* A queue without the sentinel is not the one with nothing else.          *)
LEMMA NotOnlyTheSentinel ==
    ASSUME NEW q, \A i \in 1..Len(q) : q[i] # Sentinel
    PROVE  q # <<Sentinel>>
OBVIOUS

(* No step creates or loses a notification.                                *)
LEMMA CountKept ==
    ASSUME PublisherInv, PublisherNext
    PROVE  CountInv'
<1>1. /\ PublisherTypes /\ PhaseInv /\ QueueInv /\ CountInv
      /\ Len(queue) \in Nat /\ offered \in Nat /\ Holds(worker.item) \in {0, 1}
      /\ stats.published \in Nat /\ stats.failed \in Nat /\ stats.dropped \in Nat
      /\ producerErrors \in Nat
  BY EmptyFacts, StatsFacts DEF PublisherInv, PublisherTypes, Holds
<1>2. Counted \in Int
  BY <1>1 DEF Counted
<1>3. PublisherTypes' /\ QueueInv' /\ PhaseInv'
  BY TypesKept, PhaseKept
<1>4. CASE Publish
  <2>1. CASE accepting /\ Len(queue) < Capacity
    <3>1. /\ ~timedOut /\ ~timedOut' /\ phase = "open" /\ phase' = "open" /\ worker' = worker
          /\ offered' = offered + 1 /\ queue' = Append(queue, offered + 1)
          /\ Counted' = Counted
      BY <1>1, <1>4, <2>1, StatsKept DEF Publish, PhaseInv
    <3>2. queue # <<Sentinel>> /\ queue' # <<Sentinel>>
      <4>1. /\ \A i \in 1..Len(queue) : queue[i] # Sentinel
            /\ \A i \in 1..Len(queue') : queue'[i] # Sentinel
        BY <1>1, <1>3, <3>1 DEF QueueInv
      <4> QED
        BY <4>1, NotOnlyTheSentinel
    <3>3. Len(queue') = Len(queue) + 1
      <4>1. queue \in Seq(Nat) /\ offered + 1 \in Nat
        BY <1>1 DEF PublisherTypes
      <4> QED
        BY <3>1, <4>1, AppendFacts
    <3>4. offered = Counted + Holds(worker.item) + Len(queue)
      BY <1>1, <3>1, <3>2 DEF CountInv
    <3>5. UNCHANGED worker /\ offered' = offered + 1 /\ Counted' = Counted
      BY <3>1
    <3>6. offered' = Counted' + Holds(worker'.item) + Len(queue')
      BY <1>1, <1>2, <3>3, <3>4, <3>5
    <3> QED
      BY <3>1, <3>2, <3>6 DEF CountInv
  <2>2. CASE ~(accepting /\ Len(queue) < Capacity)
    <3>1. /\ UNCHANGED <<timedOut, queue, worker>>
          /\ offered' = offered + 1 /\ Counted' = Counted + 1
      BY <1>1, <1>4, <2>2, StatsKept DEF Publish
    <3> QED
      BY <1>1, <1>2, <3>1 DEF CountInv
  <2> QED
    BY <2>1, <2>2
<1>5. CASE Takes
  <2>1. /\ worker.pc = "waiting" /\ worker.item = Sentinel /\ ~timedOut /\ queue # << >>
        /\ queue' = Tail(queue) /\ UNCHANGED <<timedOut, offered, stats, producerErrors>>
        /\ Counted' = Counted
    BY <1>1, <1>5, StatsKept DEF Takes, PhaseInv
  <2>2. Len(queue') = Len(queue) - 1 /\ Head(queue) = queue[1] /\ 1 \in 1..Len(queue)
    BY <1>1, <2>1, TailFacts DEF PublisherTypes
  <2>3. CASE Head(queue) = Sentinel
    <3>1. queue = <<Sentinel>>
      BY <1>1, <2>2, <2>3 DEF QueueInv
    <3>2. worker'.item = Sentinel /\ queue' = << >> /\ Len(queue') = 0 /\ queue' # <<Sentinel>>
      BY <1>5, <2>1, <2>3, <3>1 DEF Takes, Done
    <3> QED
      BY <1>1, <1>2, <2>1, <3>1, <3>2 DEF CountInv, Holds
  <2>4. CASE Head(queue) # Sentinel
    <3>1. queue # <<Sentinel>>
      BY <2>2, <2>4
    <3>2. worker'.item # Sentinel
      BY <1>5, <2>4 DEF Takes
    <3>3. queue' # <<Sentinel>>
      <4>1. \A i \in 1..Len(queue') : queue'[i] # Sentinel
        BY <1>3, <3>2 DEF QueueInv
      <4> QED
        BY <4>1, NotOnlyTheSentinel
    <3>4. Holds(worker.item) = 0 /\ Holds(worker'.item) = 1
      BY <2>1, <3>2 DEF Holds
    <3>5. offered = Counted + Holds(worker.item) + Len(queue)
      BY <1>1, <2>1, <3>1 DEF CountInv
    <3>6. offered' = offered /\ Counted' = Counted
      BY <2>1
    <3>7. offered' = Counted' + Holds(worker'.item) + Len(queue')
      BY <1>1, <1>2, <2>2, <3>4, <3>5, <3>6
    <3> QED
      BY <2>1, <3>3, <3>7 DEF CountInv
  <2> QED
    BY <2>3, <2>4
<1>6. CASE SendReturns \/ SendRaises
  <2>1. /\ worker.item # Sentinel /\ worker'.item = Sentinel /\ ~timedOut
        /\ UNCHANGED <<timedOut, queue, offered>> /\ Counted' = Counted + 1
    BY <1>1, <1>6, StatsKept DEF SendReturns, SendRaises, PhaseInv, Waiting
  <2> QED
    BY <1>1, <1>2, <2>1 DEF CountInv, Holds
<1>7. CASE Cancelled
  <2>1. timedOut /\ UNCHANGED <<timedOut, offered>> /\ Counted' = Counted
    BY <1>1, <1>7, StatsKept DEF Cancelled, PhaseInv
  <2> QED
    BY <1>1, <1>2, <2>1 DEF CountInv
<1>8. CASE SentinelPut
  <2>1. /\ phase = "joined" /\ ~timedOut /\ unfinished = 0 /\ unfinished = Len(queue) + Holds(worker.item)
        /\ UNCHANGED <<timedOut, offered, worker>> /\ Counted' = Counted
        /\ phase' # "raised"
    BY <1>1, <1>3, <1>8, StatsKept DEF SentinelPut, PhaseInv
  <2>2. Len(queue) = 0 /\ Holds(worker.item) = 0
    BY <1>1, <2>1
  <2>3. queue = << >> /\ queue' = Append(queue, Sentinel)
    BY <1>1, <1>8, <2>1, <2>2, EmptyFacts DEF SentinelPut, PublisherTypes
  <2>4. queue' = <<Sentinel>> /\ queue # <<Sentinel>>
    BY <2>3
  <2> QED
    BY <1>1, <1>2, <2>1, <2>2, <2>4 DEF CountInv
<1>9. CASE JoinTimesOut
  <2>1. /\ phase = "joining" /\ ~timedOut /\ timedOut' /\ offered' = offered
        /\ Counted' = Counted + Len(queue)
    BY <1>1, <1>9, StatsKept DEF JoinTimesOut, PhaseInv
  <2>2. queue # <<Sentinel>>
    BY <1>1, <2>1, Queues
  <2>3. offered - Counted' = Holds(worker.item)
    BY <1>1, <1>2, <2>1, <2>2 DEF CountInv
  <2> QED
    BY <1>1, <2>1, <2>3 DEF CountInv
<1>10. CASE ProducerStarts
  <2>1. worker.item = Sentinel /\ worker'.item = Sentinel
    BY <1>1, <1>10 DEF ProducerStarts, PhaseInv, NoItem, Waiting
  <2>2. UNCHANGED <<timedOut, offered, queue>> /\ Counted' = Counted
    BY <1>10, <1>1, StatsKept DEF ProducerStarts
  <2> QED
    BY <1>1, <2>1, <2>2 DEF CountInv
<1>11. ASSUME UNCHANGED <<timedOut, offered, queue, worker>>, Counted' = Counted
       PROVE  CountInv'
  BY <1>1, <1>11 DEF CountInv
<1>12. CASE \/ StartBegins \/ CloseBegins \/ QueueJoined \/ WorkerAwaited
            \/ ProducerStops \/ Arrives \/ ArrivesAndIsResent \/ ConnectionBreaks
  <2>1. UNCHANGED <<timedOut, offered, queue, worker, stats, producerErrors>>
    BY <1>12 DEF StartBegins, CloseBegins, QueueJoined, WorkerAwaited, ProducerStops, Arrives,
                 ArrivesAndIsResent, Arrive,
                 ConnectionBreaks
  <2> QED
    BY <1>1, <1>11, <2>1, StatsKept
<1>13. CASE ProducerStartFails \/ ProducerStopFails
  <2>1. UNCHANGED <<timedOut, offered, queue, worker>>
    BY <1>13 DEF ProducerStartFails, ProducerStopFails
  <2> QED
    BY <1>1, <1>11, <1>13, <2>1, StatsKept
<1> QED
  BY <1>4, <1>5, <1>6, <1>7, <1>8, <1>9, <1>10, <1>12, <1>13 DEF PublisherNext, Close

(* The order of a partition when something arrives.                        *)
ArrivalKeeps(b, w, bk, wk) ==
    /\ FirstArrivalsRise(bk)
    /\ Rising(wk) /\ Continues(bk, wk) /\ Continues(bk, w)
    /\ \A m \in Nat : Below(b, m) /\ Below(w, m) => Below(bk, m) /\ Below(wk, m)
    /\ \A q \in Seq(Nat) : Before(b, q) /\ Before(w, q) => Before(bk, q) /\ Before(wk, q)

LEMMA ArrivalMoves ==
    ASSUME NEW b \in Seq(Nat), NEW w \in Seq(Nat), NEW k \in 1..Len(w),
           FirstArrivalsRise(b), Rising(w), Continues(b, w),
           NEW bk, NEW wk, Arrival(b, w, k, bk, wk)
    PROVE  ArrivalKeeps(b, w, bk, wk)
<1>1. /\ bk \in Seq(Nat) /\ Len(bk) = Len(b) + k
      /\ \A i \in 1..Len(b) : bk[i] = b[i]
      /\ \A i \in 1..k : bk[Len(b) + i] = w[i]
      /\ wk \in Seq(Nat) /\ Len(wk) = Len(w) - k
      /\ \A i \in 1..Len(wk) : wk[i] = w[i + k]
  BY DEF Arrival
<1>2. /\ k \in Nat /\ Len(w) \in Nat /\ k >= 1 /\ k <= Len(w) /\ Len(b) \in Nat
      /\ \A i \in 1..Len(b) : b[i] \in Nat
      /\ \A i \in 1..Len(w) : w[i] \in Nat
  BY EmptyFacts
<1>3. \A j \in 1..Len(bk) : \/ j \in 1..Len(b) /\ bk[j] = b[j]
                            \/ \E i \in 1..k : i \in 1..Len(w) /\ j = Len(b) + i /\ bk[j] = w[i]
  <2> SUFFICES ASSUME NEW j \in 1..Len(bk), j \notin 1..Len(b)
               PROVE  \E i \in 1..k : i \in 1..Len(w) /\ j = Len(b) + i /\ bk[j] = w[i]
    BY <1>1
  <2>1. j - Len(b) \in 1..k /\ j = Len(b) + (j - Len(b)) /\ j - Len(b) \in 1..Len(w)
    BY <1>1, <1>2
  <2> QED
    BY <1>1, <2>1
<1>4. \A j \in 1..Len(wk) : j + k \in 1..Len(w) /\ wk[j] = w[j + k]
  BY <1>1, <1>2
<1>5. \A i \in 1..Len(b) : i \in 1..Len(bk)
  BY <1>1, <1>2
<1>6. FirstArrivalsRise(bk)
  <2> SUFFICES ASSUME NEW j \in 1..Len(bk)
               PROVE  \/ \A i \in 1..(j - 1) : bk[i] < bk[j]
                      \/ \E i \in 1..(j - 1) : bk[i] = bk[j]
    BY DEF FirstArrivalsRise
  <2>1. CASE j \in 1..Len(b)
    <3>1. /\ bk[j] = b[j] /\ \A i \in 1..(j - 1) : bk[i] = b[i]
      <4>1. \A i \in 1..(j - 1) : i \in 1..Len(b)
        BY <1>2, <2>1
      <4> QED
        BY <1>1, <2>1, <4>1
    <3>2. \/ \A i \in 1..(j - 1) : b[i] < b[j]
          \/ \E i \in 1..(j - 1) : b[i] = b[j]
      BY <2>1 DEF FirstArrivalsRise
    <3> QED
      BY <3>1, <3>2
  <2>2. CASE j \notin 1..Len(b)
    <3>1. PICK x \in 1..k : x \in 1..Len(w) /\ j = Len(b) + x /\ bk[j] = w[x]
      BY <1>3, <2>2
    <3>2. CASE In(b, w[x])
      <4>1. PICK i \in 1..Len(b) : b[i] = w[x]
        BY <3>2 DEF In
      <4>2. i \in 1..(j - 1)
        BY <1>2, <3>1, <4>1
      <4> QED
        BY <1>1, <3>1, <4>1, <4>2
    <3>3. CASE Below(b, w[x])
      <4> SUFFICES ASSUME NEW i \in 1..(j - 1) PROVE bk[i] < bk[j]
        OBVIOUS
      <4>1. i \in 1..Len(bk)
        BY <1>1, <1>2, <3>1
      <4>2. CASE i \in 1..Len(b)
        BY <1>1, <3>1, <3>3, <4>2 DEF Below
      <4>3. CASE i \notin 1..Len(b)
        <5>1. PICK y \in 1..k : y \in 1..Len(w) /\ i = Len(b) + y /\ bk[i] = w[y]
          BY <1>3, <4>1, <4>3
        <5>2. y < x
          BY <1>2, <3>1, <5>1
        <5> QED
          BY <3>1, <5>1, <5>2 DEF Rising
      <4> QED
        BY <4>2, <4>3
    <3> QED
      BY <3>1, <3>2, <3>3 DEF Continues
  <2> QED
    BY <2>1, <2>2
<1>7. Continues(bk, w)
  <2> SUFFICES ASSUME NEW j \in 1..Len(w) PROVE Below(bk, w[j]) \/ In(bk, w[j])
    BY DEF Continues
  <2>1. CASE j <= k
    <3>1. j \in 1..k /\ Len(b) + j \in 1..Len(bk)
      BY <1>1, <1>2, <2>1
    <3> QED
      BY <1>1, <3>1 DEF In
  <2>2. CASE j > k /\ In(b, w[j])
    <3>1. PICK i \in 1..Len(b) : b[i] = w[j]
      BY <2>2 DEF In
    <3> QED
      BY <1>1, <1>5, <3>1 DEF In
  <2>3. CASE j > k /\ Below(b, w[j])
    <3> SUFFICES ASSUME NEW i \in 1..Len(bk) PROVE bk[i] < w[j]
      BY DEF Below
    <3>1. CASE i \in 1..Len(b) /\ bk[i] = b[i]
      BY <2>3, <3>1 DEF Below
    <3>2. ASSUME NEW y \in 1..k, y \in 1..Len(w), bk[i] = w[y] PROVE bk[i] < w[j]
      <4>1. y < j
        BY <1>2, <2>3, <3>2
      <4> QED
        BY <3>2, <4>1 DEF Rising
    <3> QED
      BY <1>3, <3>1, <3>2
  <2> QED
    BY <1>2, <2>1, <2>2, <2>3 DEF Continues
<1>8. Rising(wk)
  <2> SUFFICES ASSUME NEW i \in 1..Len(wk), NEW j \in 1..Len(wk), i < j PROVE wk[i] < wk[j]
    BY DEF Rising
  <2>1. i + k < j + k
    BY <1>1, <1>2
  <2> QED
    BY <1>4, <2>1 DEF Rising
<1>9. Continues(bk, wk)
  BY <1>4, <1>7 DEF Continues
<1>10. \A m \in Nat : Below(b, m) /\ Below(w, m) => Below(bk, m) /\ Below(wk, m)
  BY <1>3, <1>4 DEF Below
<1>11. \A q \in Seq(Nat) : Before(b, q) /\ Before(w, q) => Before(bk, q) /\ Before(wk, q)
  BY <1>3, <1>4 DEF Before
<1> QED
  BY <1>6, <1>7, <1>8, <1>9, <1>10, <1>11 DEF ArrivalKeeps

(* What steps do to the order of one partition.                            *)
LEMMA OrderMoves ==
    ASSUME NEW b \in Seq(Nat), NEW w \in Seq(Nat), NEW q \in Seq(Nat),
           NEW item \in Nat, NEW n \in Nat, InOrder(b, w, item, q, n)
    PROVE  /\ n > 0 => InOrder(b, w, Sentinel, q, n)
           /\ InOrder(b, w, item, q, n + 1)
           /\ q # <<Sentinel>> => InOrder(b, w, item, Append(q, n), n + 1)
           /\ q # << >> /\ q # <<Sentinel>> => InOrder(b, w, Head(q), Tail(q), n)
           /\ item # Sentinel /\ q # <<Sentinel>> => InOrder(b, Append(w, item), Sentinel, q, n)
           /\ n > 0 /\ item = Sentinel => /\ InOrder(b, w, Sentinel, <<Sentinel>>, n)
                                         /\ InOrder(b, w, Sentinel, << >>, n)
           /\ \A k \in 1..Len(w) :
                 LET bk == b \o SubSeq(w, 1, k)
                 IN  InOrder(bk, w, item, q, n) /\ InOrder(bk, SubSeq(w, k + 1, Len(w)), item, q, n)
           /\ InOrder(b, << >>, item, q, n)
<1>1. InOrder(b, w, Sentinel, q, n)
  BY DEF InOrder
<1>2. InOrder(b, w, item, q, n + 1)
  BY AppendBelow DEF InOrder
<1>3. ASSUME q # <<Sentinel>> PROVE InOrder(b, w, item, Append(q, n), n + 1)
  <2>1. Rising(Append(q, n)) /\ Below(Append(q, n), n + 1)
    <3>1. Below(q, n + 1) /\ n < n + 1 /\ n + 1 \in Nat
      BY <1>2 DEF InOrder
    <3> QED
      BY <3>1, AppendRises, AppendBelow DEF InOrder
  <2>2. Before(b, Append(q, n)) /\ Before(w, Append(q, n))
    BY <1>3, AppendBelow DEF InOrder
  <2>3. item # Sentinel => \A j \in 1..Len(Append(q, n)) : item < Append(q, n)[j]
    <3>1. \A j \in 1..Len(Append(q, n)) : j \in 1..Len(q) \/ j = Len(q) + 1
      BY AppendFacts, EmptyFacts
    <3> QED
      BY <3>1, AppendFacts DEF InOrder
  <2> QED
    BY <1>2, <2>1, <2>2, <2>3 DEF InOrder
<1>4. ASSUME q # << >>, q # <<Sentinel>> PROVE InOrder(b, w, Head(q), Tail(q), n)
  <2>1. /\ Rising(Tail(q)) /\ Below(Tail(q), n) /\ Head(q) < n
        /\ \A j \in 1..Len(Tail(q)) : Head(q) < Tail(q)[j]
    BY <1>4, TailRises DEF InOrder
  <2>2. /\ Before(b, Tail(q)) /\ Below(b, Head(q))
        /\ Before(w, Tail(q)) /\ Below(w, Head(q))
    BY <1>4, TailRises DEF InOrder
  <2> QED
    BY <2>1, <2>2 DEF InOrder
<1>5. ASSUME item # Sentinel, q # <<Sentinel>>
      PROVE  InOrder(b, Append(w, item), Sentinel, q, n)
  <2>1. item < n /\ Below(b, item) /\ Below(w, item) /\ \A j \in 1..Len(q) : item < q[j]
    BY <1>5 DEF InOrder
  <2>2. Rising(Append(w, item)) /\ Below(Append(w, item), n)
    BY <2>1, AppendRises, AppendBelow DEF InOrder
  <2>3. Continues(b, Append(w, item)) /\ (q # <<Sentinel>> => Before(Append(w, item), q))
    <3>1. \A j \in 1..Len(Append(w, item)) : j \in 1..Len(w) \/ j = Len(w) + 1
      BY AppendFacts, EmptyFacts
    <3>2. Continues(b, Append(w, item))
      BY <2>1, <3>1, AppendFacts DEF InOrder, Continues
    <3> QED
      BY <2>1, <3>2, AppendBelow DEF InOrder
  <2> QED
    BY <1>5, <2>2, <2>3 DEF InOrder
<1>6. ASSUME n > 0, item = Sentinel
      PROVE  InOrder(b, w, Sentinel, <<Sentinel>>, n) /\ InOrder(b, w, Sentinel, << >>, n)
  <2>1. /\ Len(<<Sentinel>>) = 1 /\ <<Sentinel>>[1] = 0 /\ \A i \in 1..1 : i = 1
        /\ Len(<< >>) = 0 /\ 1..0 = {}
    BY DEF Sentinel
  <2>2. Rising(<<Sentinel>>) /\ Below(<<Sentinel>>, n)
    BY <1>6, <2>1 DEF Rising, Below
  <2>3. Rising(<< >>) /\ Below(<< >>, n) /\ Before(b, << >>) /\ Before(w, << >>)
    BY <2>1 DEF Rising, Below, Before
  <2> QED
    BY <2>2, <2>3 DEF InOrder
<1>7. ASSUME NEW k \in 1..Len(w)
      PROVE  LET bk == b \o SubSeq(w, 1, k)
             IN  InOrder(bk, w, item, q, n) /\ InOrder(bk, SubSeq(w, k + 1, Len(w)), item, q, n)
  <2> DEFINE bk == b \o SubSeq(w, 1, k)
             wk == SubSeq(w, k + 1, Len(w))
  <2>1. FirstArrivalsRise(b) /\ Rising(w) /\ Continues(b, w)
    BY DEF InOrder
  <2>2. Arrival(b, w, k, bk, wk)
    BY ArrivalFacts
  <2> HIDE DEF bk, wk
  <2>3. ArrivalKeeps(b, w, bk, wk)
    BY <2>1, <2>2, ArrivalMoves
  <2>4. InOrder(bk, w, item, q, n) /\ InOrder(bk, wk, item, q, n)
    BY <2>3 DEF InOrder, ArrivalKeeps
  <2> QED
    BY <2>4 DEF bk, wk
<1>8. InOrder(b, << >>, item, q, n)
  <2>1. Len(<< >>) = 0 /\ 1..0 = {}
    OBVIOUS
  <2> QED
    BY <2>1 DEF InOrder, Rising, Before, Below, Continues
<1> QED
  BY <1>1, <1>2, <1>3, <1>4, <1>5, <1>6, <1>7, <1>8

(* The order is kept: what is queued again would not be.                   *)
LEMMA OrderKept ==
    ASSUME PublisherInv, PublisherNext
    PROVE  OrderInv'
<1>1. /\ PublisherTypes /\ PhaseInv /\ QueueInv /\ OrderInv
      /\ offered \in Nat /\ worker.item \in Nat /\ offered + 1 \in Nat /\ offered + 1 > 0
      /\ broker \in [Partitions -> Seq(Nat)] /\ wire \in [Partitions -> Seq(Nat)]
      /\ queue \in Seq(Nat)
  BY DEF PublisherInv, PublisherTypes
<1>2. ASSUME NEW p \in Partitions
      PROVE  InOrder(broker'[p], wire'[p], worker'.item, queue', offered' + 1)
  <2>1. /\ broker[p] \in Seq(Nat) /\ wire[p] \in Seq(Nat)
        /\ InOrder(broker[p], wire[p], worker.item, queue, offered + 1)
    BY <1>1 DEF OrderInv
  <2>2. PublisherTypes' /\ PhaseInv'
    BY TypesKept, PhaseKept
  <2>3. CASE Publish
    <3>1. offered' = offered + 1 /\ UNCHANGED <<broker, wire, worker>>
      BY <2>3 DEF Publish, clientVars
    <3>2. CASE accepting /\ Len(queue) < Capacity
      <4>1. queue' = Append(queue, offered + 1) /\ queue # <<Sentinel>>
        BY <1>1, <2>3, <3>2, Queues DEF Publish, PhaseInv
      <4> QED
        BY <1>1, <2>1, <3>1, <4>1, OrderMoves
    <3>3. CASE ~(accepting /\ Len(queue) < Capacity)
      <4>1. queue' = queue
        BY <2>3, <3>3 DEF Publish
      <4> QED
        BY <1>1, <2>1, <3>1, <4>1, OrderMoves
    <3> QED
      BY <3>2, <3>3
  <2>4. CASE Takes
    <3>1. /\ queue # << >> /\ queue' = Tail(queue) /\ UNCHANGED <<broker, wire, offered>>
          /\ worker.item = Sentinel /\ Head(queue) = queue[1] /\ 1 \in 1..Len(queue)
      BY <1>1, <2>4, TailFacts DEF Takes, PhaseInv, clientVars
    <3>2. CASE Head(queue) = Sentinel
      <4>1. queue = <<Sentinel>>
        BY <1>1, <3>1, <3>2 DEF QueueInv
      <4>2. queue' = << >> /\ worker'.item = Sentinel
        BY <2>4, <3>1, <3>2, <4>1 DEF Takes, Done
      <4>3. InOrder(broker[p], wire[p], Sentinel, << >>, offered + 1)
        BY <1>1, <2>1, <3>1, OrderMoves
      <4> QED
        BY <3>1, <4>2, <4>3
    <3>3. CASE Head(queue) # Sentinel
      <4>1. queue # <<Sentinel>> /\ worker'.item = Head(queue)
        BY <2>4, <3>1, <3>3 DEF Takes
      <4> QED
        BY <1>1, <2>1, <3>1, <4>1, OrderMoves
    <3> QED
      BY <3>2, <3>3
  <2>5. CASE SendReturns \/ SendRaises
    <3>1. /\ worker.item # Sentinel /\ worker'.item = Sentinel /\ queue # <<Sentinel>>
          /\ UNCHANGED <<queue, broker, offered>> /\ MayBeWritten
      BY <1>1, <2>5, Queues DEF SendReturns, SendRaises, PhaseInv, MayBeWritten, Waiting
    <3>2. /\ InOrder(broker[p], wire[p], Sentinel, queue, offered + 1)
          /\ InOrder(broker[p], Append(wire[p], worker.item), Sentinel, queue, offered + 1)
      BY <1>1, <2>1, <3>1, OrderMoves
    <3>3. wire'[p] = wire[p] \/ wire'[p] = Append(wire[p], worker.item)
      BY <1>1, <3>1, WrittenFacts
    <3> QED
      BY <3>1, <3>2, <3>3
  <2>6. CASE Cancelled
    <3>1. /\ worker'.item = Sentinel /\ UNCHANGED <<queue, broker, offered>>
          /\ \/ wire' = wire
             \/ worker.item # Sentinel /\ MayBeWritten
          /\ worker.item # Sentinel => queue # <<Sentinel>>
      BY <1>1, <2>6, Queues DEF Cancelled, Done
    <3>2. \/ wire'[p] = wire[p]
          \/ wire'[p] = Append(wire[p], worker.item) /\ worker.item # Sentinel
      BY <1>1, <3>1, WrittenFacts
    <3>3. /\ InOrder(broker[p], wire[p], Sentinel, queue, offered + 1)
          /\ worker.item # Sentinel =>
                InOrder(broker[p], Append(wire[p], worker.item), Sentinel, queue, offered + 1)
      BY <1>1, <2>1, <3>1, OrderMoves
    <3> QED
      BY <3>1, <3>2, <3>3
  <2>7. CASE SentinelPut
    <3>1. UNCHANGED <<broker, wire, offered, worker>> /\ worker.item = Sentinel
      BY <1>1, <2>7 DEF SentinelPut, PhaseInv, Holds, clientVars, PublisherTypes
    <3>2. queue' = <<Sentinel>>
      <4>1. Len(queue) = 0 /\ phase' # "raised"
        BY <1>1, <2>2, <2>7, EmptyFacts DEF SentinelPut, PhaseInv, Holds
      <4>2. queue = << >> /\ queue' = Append(queue, Sentinel)
        BY <1>1, <2>7, <4>1, EmptyFacts DEF SentinelPut
      <4> QED
        BY <4>2
    <3> QED
      BY <1>1, <2>1, <3>1, <3>2, OrderMoves
  <2>8. CASE Arrives \/ ArrivesAndIsResent
    <3>1. UNCHANGED <<worker, queue, offered>>
      BY <2>8 DEF Arrives, ArrivesAndIsResent, Arrive
    <3>2. \A k \in 1..Len(wire[p]) :
             LET bk == broker[p] \o SubSeq(wire[p], 1, k)
             IN  /\ InOrder(bk, wire[p], worker.item, queue, offered + 1)
                 /\ InOrder(bk, SubSeq(wire[p], k + 1, Len(wire[p])), worker.item, queue, offered + 1)
      BY <1>1, <2>1, OrderMoves
    <3>3. \/ broker'[p] = broker[p] /\ wire'[p] = wire[p]
          \/ \E k \in 1..Len(wire[p]) :
                /\ broker'[p] = broker[p] \o SubSeq(wire[p], 1, k)
                /\ \/ wire'[p] = wire[p]
                   \/ wire'[p] = SubSeq(wire[p], k + 1, Len(wire[p]))
      BY <1>1, <2>8, DeliveryFacts
    <3> QED
      BY <2>1, <3>1, <3>2, <3>3
  <2>9. CASE ConnectionBreaks
    <3>1. /\ wire'[p] = << >> \/ wire'[p] = wire[p]
          /\ UNCHANGED <<broker, worker, queue, offered>>
      BY <1>1, <2>9 DEF ConnectionBreaks
    <3> QED
      BY <1>1, <2>1, <3>1, OrderMoves
  <2>10. CASE \/ StartBegins \/ ProducerStarts \/ ProducerStartFails \/ CloseBegins
              \/ QueueJoined \/ JoinTimesOut \/ WorkerAwaited \/ ProducerStops \/ ProducerStopFails
    <3>1. UNCHANGED <<broker, wire, queue, offered>>
      BY <2>10 DEF StartBegins, ProducerStarts, ProducerStartFails, CloseBegins, QueueJoined,
                   JoinTimesOut, WorkerAwaited, ProducerStops, ProducerStopFails, clientVars
    <3>2. worker'.item = worker.item
      <4>1. CASE ProducerStarts
        BY <1>1, <4>1 DEF ProducerStarts, PhaseInv, NoItem, Waiting
      <4>2. CASE JoinTimesOut
        BY <1>1, <4>2 DEF JoinTimesOut, PublisherTypes
      <4>3. CASE worker' = worker
        BY <4>3
      <4> QED
        BY <2>10, <4>1, <4>2, <4>3
           DEF StartBegins, ProducerStartFails, CloseBegins, QueueJoined, WorkerAwaited,
               ProducerStops, ProducerStopFails
    <3> QED
      BY <2>1, <3>1, <3>2
  <2> QED
    BY <2>3, <2>4, <2>5, <2>6, <2>7, <2>8, <2>9, <2>10 DEF PublisherNext, Close
<1> QED
  BY <1>2 DEF OrderInv, InOrder, FirstArrivalsRise, Rising, Before, Below, Continues, In

(* The invariant is inductive.                                             *)
LEMMA PublisherInitInv == PublisherInit => PublisherInv
<1> SUFFICES ASSUME PublisherInit PROVE PublisherInv
  OBVIOUS
<1>1. << >> \in Seq(Nat) /\ Len(<< >>) = 0 /\ 1..0 = {} /\ << >> # <<Sentinel>>
  OBVIOUS
<1>2. PublisherTypes
  BY <1>1 DEF PublisherInit, PublisherTypes, Phase, NoItem, Sentinel, Stats
<1>3. PhaseInv /\ QueueInv
  BY <1>1 DEF PublisherInit, PhaseInv, QueueInv, NoItem, Sentinel, Holds
<1>4. CountInv
  BY <1>1 DEF PublisherInit, CountInv, Counted, NoItem, Holds
<1>5. OrderInv
  BY <1>1 DEF PublisherInit, OrderInv, InOrder, NoItem, FirstArrivalsRise, Rising, Before, Below,
              Continues
<1> QED
  BY <1>2, <1>3, <1>4, <1>5 DEF PublisherInv

LEMMA PublisherNextInv ==
    ASSUME PublisherInv, [PublisherNext]_publisherVars
    PROVE  PublisherInv'
<1>1. CASE PublisherNext
  BY <1>1, TypesKept, PhaseKept, CountKept, OrderKept DEF PublisherInv
<1>2. CASE UNCHANGED publisherVars
  BY <1>2 DEF publisherVars, clientVars, PublisherInv, PublisherTypes, PhaseInv, QueueInv, CountInv,
              Counted, OrderInv, InOrder, FirstArrivalsRise, Rising, Before, Below, Continues, In
<1> QED
  BY <1>1, <1>2

(* The number of places in a queue.                                        *)
LEMMA IndexCount ==
    ASSUME NEW n \in Nat
    PROVE  Cardinality(1..n) = n
<1>1. 1 \in Int /\ n \in Int
  OBVIOUS
<1>2. Cardinality(1..n) = IF 1 > n THEN 0 ELSE n - 1 + 1
  BY <1>1, FS_Interval, Zenon
<1> QED
  BY <1>2

(* The inductive invariant of the publisher.                               *)
THEOREM PublisherInvariant == PublisherSpec => []PublisherInv
BY PublisherInitInv, PublisherNextInv, PTL DEF PublisherSpec

(* close() never finds the queue full when it puts the sentinel, because   *)
(* nothing is accepted any more and the queue was empty.                   *)
THEOREM SentinelFits == PublisherSpec => [](phase # "raised")
<1>1. PublisherInv => phase # "raised"
  BY DEF PublisherInv, PhaseInv
<1> QED
  BY PublisherInvariant, <1>1, PTL

(* Every notification is published, failed, dropped or still open, except  *)
(* one that may be on its way when close() times out.                      *)
THEOREM CountsAlwaysAddUp == PublisherSpec => []CountsAddUp
<1>1. ASSUME PublisherInv PROVE CountsAddUp
  <2>1. /\ PublisherTypes /\ PhaseInv /\ QueueInv /\ CountInv
        /\ Len(queue) \in Nat /\ offered \in Nat
        /\ stats.published \in Nat /\ stats.failed \in Nat /\ stats.dropped \in Nat
        /\ producerErrors \in Nat
    BY <1>1, EmptyFacts, StatsFacts DEF PublisherInv, PublisherTypes
  <2>2. Counted \in Int
    BY <2>1 DEF Counted
  <2>3. CASE timedOut
    BY <2>1, <2>2, <2>3 DEF CountInv, CountsAddUp, Open, Counted
  <2>4. CASE ~timedOut
    <3> DEFINE Items == {i \in 1..Len(queue) : queue[i] # Sentinel}
    <3>1. Cardinality(Items) = IF queue = <<Sentinel>> THEN 0 ELSE Len(queue)
      <4>1. CASE queue = <<Sentinel>>
        <5>1. Items = {}
          BY <4>1
        <5> QED
          BY <4>1, <5>1, FS_EmptySet
      <4>2. CASE queue # <<Sentinel>>
        <5>1. Items = 1..Len(queue)
          BY <2>1, <4>2 DEF QueueInv
        <5>2. Cardinality(1..Len(queue)) = Len(queue)
          BY <2>1, IndexCount
        <5> QED
          BY <4>2, <5>1, <5>2
      <4> QED
        BY <4>1, <4>2
    <3>2. Open = Cardinality(Items) + Holds(worker.item)
      BY <2>4 DEF Open, Holds
    <3>3. offered = Counted + Open /\ Open \in Nat
      <4> HIDE DEF Items
      <4>1. Holds(worker.item) \in Nat
        BY DEF Holds
      <4> QED
        BY <2>1, <2>2, <2>4, <3>1, <3>2, <4>1 DEF CountInv
    <3> QED
      BY <2>1, <2>2, <3>3 DEF CountsAddUp, Counted
  <2> QED
    BY <2>3, <2>4
<1> QED
  BY PublisherInvariant, <1>1, PTL

(* A partition gets no message for the first time after a later one,       *)
(* however often the client writes what it has been given.                 *)
THEOREM DeliveryKeepsOrder == PublisherSpec => []DeliveredInOrder
<1>1. PublisherInv => DeliveredInOrder
  BY DEF PublisherInv, OrderInv, InOrder, DeliveredInOrder
<1> QED
  BY PublisherInvariant, <1>1, PTL

-----------------------------------------------------------------------------
(* Artifacts.                                                              *)

(* How far the file, its thread and the row of one Artifact can be, by     *)
(* where its coroutine is.  The row is inserted when the file is whole,    *)
(* and from then on the file is deleted, but never written.                *)
ArtifactInv(a) ==
    /\ store[a] \in {"new", "putting", "failed", "cancelled"} => insert[a] = "none"
    /\ store[a] = "new" => thread[a] = "none" /\ body[a] = "none"
    /\ store[a] = "putting" => thread[a] \in {"writing", "written", "raised"}
    /\ store[a] \in {"adding", "stored"} => thread[a] = "written" /\ body[a] = "whole"
    /\ store[a] = "undoing" => thread[a] \in {"deleting", "deleted", "raised"}
    /\ store[a] = "failed" => thread[a] = "raised" /\ body[a] # "whole"
    /\ store[a] = "stored" => insert[a] = "committed"
    /\ store[a] = "undone" => thread[a] = "deleted" /\ body[a] = "none"
    /\ thread[a] = "writing" => insert[a] = "none" /\ body[a] # "whole"
    /\ thread[a] = "written" => body[a] = "whole"
    /\ thread[a] = "deleted" => body[a] = "none"
    /\ store[a] \in {"putting", "failed"} /\ thread[a] = "raised" => body[a] # "whole"
    /\ insert[a] # "none" => body[a] # "partial"
    /\ row[a] <=> insert[a] = "committed"

(* A download has read the row before it looks for the file.               *)
DownloadInv ==
    /\ download.pc \in {"found", "checked"} => row[download.artifact]
    /\ download.pc \in {"streaming", "complete"} => download.content = "whole"

IInv == TypeOK /\ (\A a \in Artifacts : ArtifactInv(a)) /\ DownloadInv

(* The invariant holds before the first call.                              *)
LEMMA InitInv == Init => IInv
  BY DEF Init, IInv, TypeOK, StorePc, Busy, ArtifactInv, DownloadInv, Download

(* What is done for one Artifact leaves the others alone.                  *)
Elsewhere(a) ==
    \A b \in Artifacts : b # a =>
        /\ store'[b] = store[b] /\ thread'[b] = thread[b] /\ body'[b] = body[b]
        /\ insert'[b] = insert[b] /\ row'[b] = row[b]

(* An Artifact's own step preserves the invariant when it preserves the    *)
(* Artifact's part of it, and takes back no row.                           *)
LEMMA Frame ==
  ASSUME IInv, NEW a \in Artifacts, TypeOK', Elsewhere(a), ArtifactInv(a)',
         UNCHANGED download, row[a] => row'[a]
  PROVE  IInv'
<1>1. \A b \in Artifacts : ArtifactInv(b)'
  BY DEF IInv, Elsewhere, ArtifactInv
<1>2. \A b \in Artifacts : row[b] => row'[b]
  BY DEF Elsewhere
<1>3. DownloadInv'
  BY <1>2 DEF IInv, DownloadInv, TypeOK, Download
<1> QED
  BY <1>1, <1>3 DEF IInv

(* Coroutines.                                                             *)
LEMMA StoreInv == ASSUME IInv, NEW a \in Artifacts, StoreStep(a) PROVE IInv'
<1>0. TypeOK /\ ArtifactInv(a)
  BY DEF IInv
<1>1. TypeOK'
  BY <1>0 DEF StoreStep, PutStarts, PutReturns, PutRaises, PutCancelled, AddReturns,
     AddRaises, UndoEnds, Goto, TypeOK, StorePc, Busy
<1>2. Elsewhere(a) /\ UNCHANGED <<row, download>>
  BY <1>0 DEF StoreStep, PutStarts, PutReturns, PutRaises, PutCancelled, AddReturns,
     AddRaises, UndoEnds, Goto, TypeOK, Elsewhere
<1>3. ArtifactInv(a)'
  <2>1. CASE PutStarts(a) \/ PutReturns(a) \/ PutRaises(a) \/ PutCancelled(a)
    BY <1>0, <2>1 DEF PutStarts, PutReturns, PutRaises, PutCancelled, Goto, TypeOK,
       ArtifactInv
  <2>2. CASE AddReturns(a) \/ AddRaises(a) \/ UndoEnds(a)
    BY <1>0, <2>2 DEF AddReturns, AddRaises, UndoEnds, Goto, TypeOK, ArtifactInv
  <2> QED
    BY <2>1, <2>2 DEF StoreStep
<1> QED
  BY <1>1, <1>2, <1>3, Frame

(* Threads and the database.                                               *)
LEMMA ThreadInv ==
  ASSUME IInv, NEW a \in Artifacts,
         ThreadStep(a) \/ InsertCommits(a) \/ InsertRefused(a)
  PROVE  IInv'
<1>0. TypeOK /\ ArtifactInv(a)
  BY DEF IInv
<1>1. TypeOK'
  BY <1>0 DEF ThreadStep, FileCreated, FileWritten, FileFails, FileDeleted, DeleteFails,
     InsertCommits, InsertRefused, TypeOK
<1>2. Elsewhere(a) /\ UNCHANGED download /\ (row[a] => row'[a])
  BY <1>0 DEF ThreadStep, FileCreated, FileWritten, FileFails, FileDeleted, DeleteFails,
     InsertCommits, InsertRefused, TypeOK, Elsewhere
<1>3. ArtifactInv(a)'
  BY <1>0 DEF ThreadStep, FileCreated, FileWritten, FileFails, FileDeleted, DeleteFails,
     InsertCommits, InsertRefused, TypeOK, ArtifactInv, StorePc, Busy
<1> QED
  BY <1>1, <1>2, <1>3, Frame

(* The end of a process.                                                   *)
LEMMA CrashInv == IInv /\ Crash => IInv'
<1> SUFFICES ASSUME IInv, Crash PROVE IInv'
  OBVIOUS
<1>1. TypeOK'
  BY DEF IInv, Crash, TypeOK, StorePc, Busy
<1>2. \A a \in Artifacts : ArtifactInv(a)'
  BY DEF IInv, Crash, TypeOK, Busy, ArtifactInv
<1>3. DownloadInv'
  BY DEF IInv, Crash, DownloadInv
<1> QED
  BY <1>1, <1>2, <1>3 DEF IInv

(* Downloads.                                                              *)
DownloadStep == (\E a \in Artifacts : Request(a)) \/ Opens \/ StreamStarts \/ StreamEnds

LEMMA DownloadStepInv == IInv /\ DownloadStep => IInv'
<1> SUFFICES ASSUME IInv, DownloadStep PROVE IInv'
  OBVIOUS
<1>0. TypeOK /\ DownloadInv /\ UNCHANGED <<store, thread, body, insert, row>>
  BY DEF IInv, DownloadStep, Request, Opens, StreamStarts, StreamEnds
<1>1. TypeOK'
  <2>1. \A a \in Artifacts : body[a] \in {"none", "partial", "whole"}
    BY <1>0 DEF TypeOK
  <2>2. CASE \E a \in Artifacts : Request(a)
    BY <1>0, <2>2 DEF Request, TypeOK, Download
  <2>3. CASE Opens \/ StreamEnds
    BY <1>0, <2>3 DEF Opens, StreamEnds, TypeOK, Download
  <2>4. CASE StreamStarts
    BY <1>0, <2>1, <2>4 DEF StreamStarts, TypeOK, Download
  <2> QED
    BY <2>2, <2>3, <2>4 DEF DownloadStep
<1>2. \A a \in Artifacts : ArtifactInv(a)'
  BY <1>0 DEF IInv, ArtifactInv
<1>3. DownloadInv'
  <2>1. row[download.artifact] => body[download.artifact] \in {"none", "whole"}
    BY <1>0 DEF IInv, ArtifactInv, TypeOK, Download
  <2> QED
    BY <1>0, <2>1 DEF DownloadStep, Request, Opens, StreamStarts, StreamEnds, TypeOK,
       Download, DownloadInv
<1> QED
  BY <1>1, <1>2, <1>3 DEF IInv

-----------------------------------------------------------------------------
(* The specification preserves the invariant.                              *)
LEMMA NextInv == IInv /\ [Next]_vars => IInv'
<1> SUFFICES ASSUME IInv, [Next]_vars PROVE IInv'
  OBVIOUS
<1>1. CASE Next
  BY <1>1, StoreInv, ThreadInv, CrashInv, DownloadStepInv DEF Next, DownloadStep
<1>2. CASE UNCHANGED vars
  BY <1>2 DEF IInv, TypeOK, ArtifactInv, DownloadInv, vars
<1> QED
  BY <1>1, <1>2

(* The invariant implies the property.                                     *)
LEMMA InvImplies == IInv => RowsNameBodies
<1> SUFFICES ASSUME IInv PROVE RowsNameBodies
  OBVIOUS
<1>1. ASSUME NEW a \in Artifacts
      PROVE  /\ row[a] => body[a] = "whole" \/ store[a] \in {"undoing", "undone", "left", "crashed"}
             /\ row[a] => body[a] # "partial"
             /\ body[a] # "none" /\ ~row[a] =>
                   \/ store[a] \in Busy \cup {"cancelled", "left", "crashed"}
                   \/ store[a] = "failed" /\ body[a] = "partial"
             /\ store[a] = "stored" => row[a] /\ body[a] = "whole"
  BY DEF IInv, TypeOK, ArtifactInv, StorePc, Busy
<1> QED
  BY <1>1 DEF RowsNameBodies, IInv, DownloadInv

(* Whatever fails, is cancelled or dies between a file and its row, a row  *)
(* never names a half-written file, a file without a row is accounted for, *)
(* and a download is never half a file (_store_tool_artifact,              *)
(* open_artifact).                                                         *)
THEOREM FilesBeforeRows == Spec => []RowsNameBodies
  BY InitInv, NextInv, InvImplies, PTL DEF Spec

=============================================================================
