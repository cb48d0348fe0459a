---------------------- MODULE RequestRateLimiter_proofs ----------------------
(***************************************************************************)
(* Proofs about RequestRateLimiter, for every number of requests, every    *)
(* capacity and every refill rate.                                         *)
(***************************************************************************)
EXTENDS RequestRateLimiter, TLAPS

USE LimiterAssumption

-----------------------------------------------------------------------------
(* A full bucket holds at least one token.                                 *)
LEMMA FullHoldsAToken == Full \in Nat /\ Cost \in Nat /\ 0 < Cost /\ Cost <= Full
<1>1. \A m, n \in Nat \ {0} : m * n \in Nat /\ n <= m * n
  BY SMT
<1>2. QED BY <1>1 DEF Full

(* The bucket after a refill is what the counters say, up to its capacity. *)
LEMMA RefilledBucket ==
  ASSUME TypeOK
  PROVE  /\ Refilled \in 0..Full
         /\ credit + elapsed <= Full => Refilled = credit + elapsed
         /\ credit + elapsed > Full => Refilled = Full
BY FullHoldsAToken DEF TypeOK, Refilled, Smaller

-----------------------------------------------------------------------------
(* The strengthening: a request is in the queue at most once, and only     *)
(* before it is sent; and a sleeping drain's timer is set for the moment   *)
(* the bucket holds the next token.                                        *)
QueueInv ==
  /\ \A i, j \in DOMAIN queue : queue[i] = queue[j] => i = j
  /\ \A i \in DOMAIN queue : status[queue[i]] \in {"queued", "rejected"}

SleepInv == drain = "waiting" /\ sleep > 0 => sleep + credit + elapsed = Cost

LimiterInv == TypeOK /\ BudgetIsExact /\ QueueIsServed /\ QueueInv /\ SleepInv

LEMMA LimiterInit == Init => LimiterInv
<1> SUFFICES ASSUME Init PROVE LimiterInv
  OBVIOUS
<1>1. TypeOK
  BY FullHoldsAToken DEF Init, TypeOK, Status
<1>2. Refilled = Full
  BY FullHoldsAToken DEF Init, Refilled, Smaller
<1>3. BudgetIsExact
  BY <1>2, FullHoldsAToken DEF Init, BudgetIsExact
<1>4. QueueIsServed /\ QueueInv /\ SleepInv
  BY DEF Init, QueueIsServed, QueueInv, SleepInv
<1>5. QED BY <1>1, <1>3, <1>4 DEF LimiterInv

(* The bucket is untouched, so the budget stays exact.                     *)
LEMMA BucketFrame ==
  ASSUME LimiterInv, UNCHANGED <<credit, elapsed, debt>>
  PROVE  BudgetIsExact'
BY DEF LimiterInv, BudgetIsExact, Refilled, Full

(* A suffix of the queue holds the same requests, each still once.         *)
LEMMA SuffixOfQueue ==
  ASSUME LimiterInv, NEW i \in 1..(Len(queue) + 1), queue' = SubSeq(queue, i, Len(queue))
  PROVE  /\ queue' \in Seq(Requests)
         /\ \A j \in DOMAIN queue' :
              /\ j + i - 1 \in DOMAIN queue
              /\ queue'[j] = queue[j + i - 1]
         /\ \A j, k \in DOMAIN queue' : queue'[j] = queue'[k] => j = k
<1>1. queue \in Seq(Requests)
  BY DEF LimiterInv, TypeOK
<1>2. queue' \in Seq(Requests) /\ Len(queue') = Len(queue) - i + 1
  BY <1>1
<1>3. \A j \in 1..Len(queue') : queue'[j] = queue[j + i - 1]
  BY <1>1, <1>2
<1>4. \A j \in DOMAIN queue' : j + i - 1 \in DOMAIN queue /\ queue'[j] = queue[j + i - 1]
  BY <1>1, <1>2, <1>3
<1>5. QED BY <1>2, <1>4 DEF LimiterInv, QueueInv

LEMMA ScheduleStep ==
  ASSUME LimiterInv, NEW r \in Requests, Schedule(r)
  PROVE  LimiterInv'
<1> USE DEF Schedule
<1>1. queue \in Seq(Requests) /\ queue' = Append(queue, r)
  BY DEF LimiterInv, TypeOK
<1>2. TypeOK'
  BY DEF LimiterInv, TypeOK, Status
<1>3. BudgetIsExact'
  BY BucketFrame
<1>4. QueueIsServed'
  BY DEF LimiterInv, TypeOK, QueueIsServed
<1>5. \A i \in DOMAIN queue : queue[i] \in Requests /\ queue[i] # r
  BY <1>1 DEF LimiterInv, QueueInv
<1>6. QueueInv'
  <2>1. \A i \in DOMAIN queue' :
          \/ i \in DOMAIN queue /\ queue'[i] = queue[i]
          \/ i = Len(queue) + 1 /\ queue'[i] = r
    BY <1>1
  <2>2. status'[r] = "queued" /\ \A x \in Requests : x # r => status'[x] = status[x]
    BY DEF LimiterInv, TypeOK
  <2>3. QED BY <1>1, <1>5, <2>1, <2>2 DEF LimiterInv, QueueInv
<1>7. SleepInv'
  BY DEF LimiterInv, SleepInv
<1>8. QED BY <1>2, <1>3, <1>4, <1>6, <1>7 DEF LimiterInv

LEMMA SettleStep ==
  ASSUME LimiterInv, NEW r \in Requests, Abort(r) \/ RequestEnds(r)
  PROVE  LimiterInv'
<1> USE DEF Abort, RequestEnds
<1>1. TypeOK'
  BY DEF LimiterInv, TypeOK, Status
<1>2. BudgetIsExact'
  BY BucketFrame
<1>3. QueueInv'
  <2>1. \A x \in Requests :
          status[x] \in {"queued", "rejected"} => status'[x] \in {"queued", "rejected"}
    BY DEF LimiterInv, TypeOK
  <2>2. \A i \in DOMAIN queue : queue[i] \in Requests
    BY DEF LimiterInv, TypeOK
  <2>3. QED BY <2>1, <2>2 DEF LimiterInv, QueueInv
<1>4. QueueIsServed' /\ SleepInv'
  BY DEF LimiterInv, QueueIsServed, SleepInv
<1>5. QED BY <1>1, <1>2, <1>3, <1>4 DEF LimiterInv

LEMMA DrainStep ==
  ASSUME LimiterInv, Drain
  PROVE  LimiterInv'
<1>t. TypeOK /\ BudgetIsExact
  BY DEF LimiterInv
<1>r. Refilled \in 0..Full
  BY <1>t, RefilledBucket
<1>f. Full \in Nat /\ Cost \in Nat /\ 0 < Cost /\ Cost <= Full
  BY FullHoldsAToken
<1>1. CASE DrainEnds
  <2>1. TypeOK' /\ QueueIsServed' /\ QueueInv' /\ SleepInv'
    BY <1>t, <1>1 DEF DrainEnds, TypeOK, QueueIsServed, QueueInv, SleepInv
  <2>2. BudgetIsExact'
    BY <1>1, BucketFrame DEF DrainEnds
  <2>3. QED BY <2>1, <2>2 DEF LimiterInv
<1>2. CASE DrainWaits
  <2> USE DEF DrainWaits
  <2>1. PICK i \in DOMAIN queue : queue' = SubSeq(queue, i, Len(queue))
    BY <1>2
  <2>2. i \in 1..(Len(queue) + 1)
    BY <1>t, <2>1 DEF TypeOK
  <2>3. /\ queue' \in Seq(Requests)
        /\ \A j \in DOMAIN queue' : \E k \in DOMAIN queue : queue'[j] = queue[k]
        /\ \A j, k \in DOMAIN queue' : queue'[j] = queue'[k] => j = k
    BY <2>1, <2>2, SuffixOfQueue
  <2>4. QueueInv'
    <3>1. status' = status /\ \A k \in DOMAIN queue : status[queue[k]] \in {"queued", "rejected"}
      BY <1>2 DEF LimiterInv, QueueInv
    <3>2. \A j \in DOMAIN queue' : status'[queue'[j]] \in {"queued", "rejected"}
      BY <2>3, <3>1
    <3>3. QED BY <2>3, <3>2 DEF QueueInv
  <2>5. TypeOK'
    BY <1>t, <1>r, <1>f, <1>2, <2>3 DEF TypeOK, MsUntilNextToken
  <2>6. Refilled' = Refilled
    BY <1>r, <1>f, <1>2, <2>5, RefilledBucket DEF Refilled, Smaller, Full
  <2>7. BudgetIsExact'
    BY <1>t, <1>2, <2>6 DEF BudgetIsExact, Full
  <2>8. SleepInv'
    BY <1>r, <1>f, <1>2 DEF SleepInv, MsUntilNextToken
  <2>9. QueueIsServed'
    BY <1>2 DEF QueueIsServed
  <2>10. QED BY <2>4, <2>5, <2>7, <2>8, <2>9 DEF LimiterInv
<1>3. CASE DrainStarts
  <2> USE DEF DrainStarts
  <2>1. PICK i \in DOMAIN queue :
          /\ queue' = SubSeq(queue, i + 1, Len(queue))
          /\ status' = [status EXCEPT ![queue[i]] = "running"]
    BY <1>3
  <2>2. i + 1 \in 1..(Len(queue) + 1) /\ queue[i] \in Requests
    BY <1>t, <2>1 DEF TypeOK
  <2>3. /\ queue' \in Seq(Requests)
        /\ \A j \in DOMAIN queue' : j + i \in DOMAIN queue /\ queue'[j] = queue[j + i]
        /\ \A j, k \in DOMAIN queue' : queue'[j] = queue'[k] => j = k
    <3>1. \A j \in DOMAIN queue' :
            j + (i + 1) - 1 \in DOMAIN queue /\ queue'[j] = queue[j + (i + 1) - 1]
      BY <2>1, <2>2, SuffixOfQueue
    <3>2. queue' \in Seq(Requests) /\ \A j, k \in DOMAIN queue' : queue'[j] = queue'[k] => j = k
      BY <2>1, <2>2, SuffixOfQueue
    <3>3. \A j \in DOMAIN queue' : j + (i + 1) - 1 = j + i
      BY <2>1, <3>2, <1>t DEF TypeOK
    <3>4. QED BY <3>1, <3>2, <3>3
  <2>4. \A k \in DOMAIN queue :
          k # i => queue[k] \in Requests /\ status'[queue[k]] = status[queue[k]]
    BY <1>t, <2>1 DEF LimiterInv, TypeOK, QueueInv
  <2>5. \A j \in DOMAIN queue' : status'[queue'[j]] \in {"queued", "rejected"}
    <3>1. \A j \in DOMAIN queue' : j \in Nat /\ 0 < j /\ i \in Nat
      BY <1>t, <2>3 DEF TypeOK
    <3>2. \A j \in DOMAIN queue' : j + i # i
      BY <3>1
    <3>3. QED BY <2>3, <2>4, <3>2 DEF LimiterInv, QueueInv
  <2>6. QueueInv'
    BY <2>3, <2>5 DEF QueueInv
  <2>7. Refilled' = Refilled - Cost /\ debt' = Full - Refilled'
    BY <1>t, <1>r, <1>f, <1>3 DEF BudgetIsExact, Refilled, Smaller, Full
  <2>8. TypeOK'
    <3>1. credit' \in 0..Full /\ elapsed' \in 0..Full /\ debt' \in 0..Full
      BY <1>r, <1>f, <1>3, <2>7
    <3>2. status' \in [Requests -> Status]
      BY <1>t, <2>1 DEF TypeOK, Status
    <3>3. QED BY <1>t, <1>3, <2>3, <3>1, <3>2 DEF TypeOK, Full
  <2>9. BudgetIsExact'
    BY <2>7 DEF BudgetIsExact, Full
  <2>10. QueueIsServed' /\ SleepInv'
    BY <1>3 DEF QueueIsServed, SleepInv
  <2>11. QED BY <2>6, <2>8, <2>9, <2>10 DEF LimiterInv
<1>4. QED BY <1>1, <1>2, <1>3 DEF Drain

LEMMA WakeStep ==
  ASSUME LimiterInv, Wake
  PROVE  LimiterInv'
<1> USE DEF Wake
<1>1. TypeOK' /\ QueueIsServed' /\ QueueInv' /\ SleepInv'
  BY DEF LimiterInv, TypeOK, QueueIsServed, QueueInv, SleepInv
<1>2. BudgetIsExact'
  BY BucketFrame
<1>3. QED BY <1>1, <1>2 DEF LimiterInv

(* A tick adds to the bucket what it takes from the debt.                  *)
LEMMA TickStep ==
  ASSUME LimiterInv, Tick
  PROVE  LimiterInv'
<1> USE DEF Tick
<1>t. TypeOK /\ BudgetIsExact
  BY DEF LimiterInv
<1>f. Full \in Nat /\ Cost \in Nat /\ 0 < Cost /\ Cost <= Full
  BY FullHoldsAToken
<1>1. TypeOK'
  BY <1>t, <1>f DEF TypeOK, Smaller, Full
<1>2. BudgetIsExact'
  <2>1. Refilled' = IF Refilled < Full THEN Refilled + 1 ELSE Full
    BY <1>t, <1>f DEF TypeOK, Refilled, Smaller, Full
  <2>2. debt = Full - Refilled /\ Refilled \in 0..Full
    BY <1>t, RefilledBucket DEF BudgetIsExact
  <2>3. debt' = Full - Refilled'
    BY <1>f, <2>1, <2>2
  <2>4. QED BY <2>3 DEF BudgetIsExact, Full
<1>3. SleepInv'
  <2>1. ASSUME drain = "waiting", sleep' > 0
        PROVE  sleep' + credit' + elapsed' = Cost
    <3>1. sleep \in Nat /\ sleep > 0 /\ sleep' = sleep - 1
      BY <1>t, <2>1 DEF TypeOK
    <3>2. sleep + credit + elapsed = Cost
      BY <2>1, <3>1 DEF LimiterInv, SleepInv
    <3>3. elapsed' = elapsed + 1
      BY <1>t, <1>f, <3>1, <3>2 DEF TypeOK, Smaller
    <3>4. QED BY <1>t, <1>f, <3>1, <3>2, <3>3 DEF TypeOK
  <2>2. QED BY <2>1 DEF SleepInv
<1>4. QueueIsServed' /\ QueueInv'
  BY DEF LimiterInv, QueueIsServed, QueueInv
<1>5. QED BY <1>1, <1>2, <1>3, <1>4 DEF LimiterInv

LEMMA LimiterStep == LimiterInv /\ [Next]_vars => LimiterInv'
<1> SUFFICES ASSUME LimiterInv, [Next]_vars PROVE LimiterInv'
  OBVIOUS
<1>1. CASE UNCHANGED vars
  <2>1. Refilled' = Refilled
    BY <1>1 DEF vars, Refilled
  <2>2. QED BY <1>1, <2>1 DEF vars, LimiterInv, TypeOK, BudgetIsExact, QueueIsServed, QueueInv, SleepInv
<1>2. QED BY <1>1, ScheduleStep, SettleStep, DrainStep, WakeStep, TickStep DEF Next

LEMMA LimiterHolds == Spec => []LimiterInv
<1>1. Init => LimiterInv
  BY LimiterInit
<1>2. LimiterInv /\ [Next]_vars => LimiterInv'
  BY LimiterStep
<1>3. QED BY <1>1, <1>2, PTL DEF Spec

-----------------------------------------------------------------------------
(* Every reachable state of the limiter is well typed: the bucket never    *)
(* overflows and never goes below empty.                                   *)
THEOREM LimiterTypeCorrect == Spec => []TypeOK
<1>1. LimiterInv => TypeOK
  BY DEF LimiterInv
<1>2. QED BY <1>1, LimiterHolds, PTL

(* In no period are more requests started than the burst and the refill    *)
(* allow, and an aborted request costs nothing.                            *)
THEOREM BudgetIsKept == Spec => []BudgetIsExact
<1>1. LimiterInv => BudgetIsExact
  BY DEF LimiterInv
<1>2. QED BY <1>1, LimiterHolds, PTL

(* The drain never returns while a request waits, and it is due as soon as *)
(* there is a token for the head of the queue.                             *)
THEOREM DrainIsPunctual == Spec => []DrainKeepsUp
<1>1. LimiterInv => QueueIsServed
  BY DEF LimiterInv
<1>2. LimiterInv => NeverOversleeps
  <2> SUFFICES ASSUME LimiterInv, drain = "waiting", Refilled >= Cost, sleep # 0
               PROVE  FALSE
    BY DEF NeverOversleeps
  <2>1. sleep \in Nat /\ credit \in Nat /\ elapsed \in Nat
    BY FullHoldsAToken DEF LimiterInv, TypeOK
  <2>2. sleep + credit + elapsed = Cost
    BY <2>1 DEF LimiterInv, SleepInv
  <2>3. Refilled <= credit + elapsed
    BY <2>1, FullHoldsAToken DEF Refilled, Smaller
  <2>4. QED BY <2>1, <2>2, <2>3, FullHoldsAToken DEF Refilled, Smaller
<1>3. LimiterInv => DrainKeepsUp
  BY <1>1, <1>2 DEF DrainKeepsUp
<1>4. QED BY <1>3, LimiterHolds, PTL

-----------------------------------------------------------------------------
(* Only a live request is started, and only it changes its status.         *)
LEMMA StartOfHead ==
  ASSUME TypeOK, DrainStarts
  PROVE  \E i \in DOMAIN queue :
           /\ IsHead(i)
           /\ queue[i] \in Requests
           /\ status' = [status EXCEPT ![queue[i]] = "running"]
<1>1. PICK i \in DOMAIN queue : IsHead(i) /\ status' = [status EXCEPT ![queue[i]] = "running"]
  BY DEF DrainStarts
<1>2. queue[i] \in Requests
  BY DEF TypeOK
<1>3. QED BY <1>1, <1>2

(* Live requests are started in the order in which they were scheduled,    *)
(* and a caller that was told its request was aborted can rely on it.      *)
THEOREM OrderIsKept == Spec => StartsInOrder
<1> DEFINE InOrder ==
      \A r \in Requests :
        status[r] # "running" /\ status'[r] = "running" =>
          /\ status[r] = "queued"
          /\ \E i \in DOMAIN queue :
               /\ queue[i] = r
               /\ \A j \in 1..(i - 1) : status[queue[j]] = "rejected"
<1>1. LimiterInv /\ [Next]_vars => InOrder
  <2> SUFFICES ASSUME LimiterInv, [Next]_vars, NEW r \in Requests,
                      status[r] # "running", status'[r] = "running"
               PROVE  /\ status[r] = "queued"
                      /\ \E i \in DOMAIN queue :
                           /\ queue[i] = r
                           /\ \A j \in 1..(i - 1) : status[queue[j]] = "rejected"
    OBVIOUS
  <2>1. TypeOK
    BY DEF LimiterInv
  <2>2. CASE DrainStarts
    <3>1. PICK k \in DOMAIN queue :
            /\ IsHead(k)
            /\ queue[k] \in Requests
            /\ status' = [status EXCEPT ![queue[k]] = "running"]
      BY <2>1, <2>2, StartOfHead
    <3>2. queue[k] = r
      BY <2>1, <3>1 DEF TypeOK
    <3>3. status[queue[k]] = "queued"
      BY <3>1 DEF LimiterInv, QueueInv, IsHead
    <3>4. QED BY <3>1, <3>2, <3>3 DEF IsHead
  <2>3. ASSUME NEW x \in Requests, Schedule(x) \/ Abort(x) \/ RequestEnds(x) PROVE FALSE
    BY <2>1, <2>3 DEF Schedule, Abort, RequestEnds, TypeOK
  <2>4. CASE DrainEnds \/ DrainWaits \/ Wake \/ Tick \/ UNCHANGED vars
    BY <2>4 DEF DrainEnds, DrainWaits, Wake, Tick, vars
  <2>5. QED BY <2>2, <2>3, <2>4 DEF Next, Drain
<1>2. QED BY <1>1, LimiterHolds, PTL DEF Spec, StartsInOrder
=============================================================================
