------------------------ MODULE RequestRateLimiter --------------------------
(***************************************************************************)
(* The request budget of one mint: a token bucket that is refilled lazily, *)
(* the FIFO queue of requests that wait for a token, the drain that starts *)
(* them, and the executor that ends a started request by its answer, its   *)
(* timeout, or its caller's abort.  PerMintRequestBudget keeps one such    *)
(* limiter for each normalized mint URL; they share no state.              *)
(*                                                                         *)
(* Time is relative and counted in ticks: a token takes Cost ticks to      *)
(* refill, and the bucket is counted in ticks as well.                     *)
(***************************************************************************)
EXTENDS Naturals, Sequences

CONSTANTS
  Requests,   \* the requests that may be scheduled, each once
  Capacity,   \* the burst size, in tokens
  Cost        \* 60,000 / refillPerMinute, in ticks

ASSUME LimiterAssumption == Capacity \in Nat \ {0} /\ Cost \in Nat \ {0}

VARIABLES
  queue,      \* the requests waiting, cancelled ones included
  status,     \* [Requests -> Status], as the caller sees it
  drain,      \* where drainQueue is
  sleep,      \* what is left of the drain's wait, 0 when its timer is due
  credit,     \* tokens at the last refill, in ticks
  elapsed,    \* now - lastRefillAt, as far as it can matter
  debt        \* history: the worst excess of starts over time, see RateIsKept

vars == <<queue, status, drain, sleep, credit, elapsed, debt>>

-----------------------------------------------------------------------------
(* "settled" is a request that was sent and whose promise has settled;     *)
(* "rejected" one whose caller gave up before it was sent.                 *)
Status == {"new", "queued", "running", "settled", "rejected"}

Full == Capacity * Cost

Smaller(a, b) == IF a <= b THEN a ELSE b

(* What refillTokens makes of the bucket.                                  *)
Refilled == Smaller(Full, credit + elapsed)

(* Fault: the wait is for a full bucket.                                   *)
MsUntilFull(tokens) == Full - tokens

(* msUntilNextToken, from a bucket without a token.                        *)
MsUntilNextToken(tokens) == Cost - tokens

Waiting == { queue[i] : i \in DOMAIN queue }

TypeOK ==
  /\ queue \in Seq(Requests)
  /\ status \in [Requests -> Status]
  /\ drain \in {"idle", "running", "waiting"}
  /\ sleep \in Nat
  /\ credit \in 0..Full
  /\ elapsed \in 0..Full
  /\ debt \in 0..Full

Init ==
  /\ queue = <<>>
  /\ status = [r \in Requests |-> "new"]
  /\ drain = "idle"
  /\ sleep = 0
  /\ credit = Full
  /\ elapsed = 0
  /\ debt = 0

-----------------------------------------------------------------------------
(* schedule() appends the request and starts the drain unless it runs.     *)
Schedule(r) ==
  /\ status[r] = "new"
  /\ status' = [status EXCEPT ![r] = "queued"]
  /\ queue' = Append(queue, r)
  /\ drain' = IF drain = "idle" THEN "running" ELSE drain
  /\ UNCHANGED <<sleep, credit, elapsed, debt>>

(* The signal is aborted: before schedule(), in the queue, or after the    *)
(* start, when the executor aborts the request itself.                     *)
Abort(r) ==
  /\ \/ /\ status[r] \in {"new", "queued"}
        /\ status' = [status EXCEPT ![r] = "rejected"]
     \/ /\ status[r] = "running"
        /\ status' = [status EXCEPT ![r] = "settled"]
  /\ UNCHANGED <<queue, drain, sleep, credit, elapsed, debt>>

(* A started request ends by its answer or by the executor's timeout.      *)
RequestEnds(r) ==
  /\ status[r] = "running"
  /\ status' = [status EXCEPT ![r] = "settled"]
  /\ UNCHANGED <<queue, drain, sleep, credit, elapsed, debt>>

(* Fault: the latest request is served first.                              *)
IsLast(i) ==
  /\ status[queue[i]] # "rejected"
  /\ \A j \in (i + 1)..Len(queue) : status[queue[j]] = "rejected"

(* The head of the queue once its cancelled requests are dropped.          *)
IsHead(i) ==
  /\ status[queue[i]] # "rejected"
  /\ \A j \in 1..(i - 1) : status[queue[j]] = "rejected"

(* Fault: a cancelled head ends the drain.                                 *)
DrainEndsEarly ==
  /\ drain = "running"
  /\ queue # <<>> => status[Head(queue)] = "rejected"
  /\ queue' = IF queue = <<>> THEN <<>> ELSE Tail(queue)
  /\ drain' = "idle"
  /\ UNCHANGED <<status, sleep, credit, elapsed, debt>>

(* Only cancelled requests are left, or none: the drain returns.           *)
DrainEnds ==
  /\ drain = "running"
  /\ \A r \in Waiting : status[r] = "rejected"
  /\ queue' = <<>>
  /\ drain' = "idle"
  /\ UNCHANGED <<status, sleep, credit, elapsed, debt>>

(* Without a token the drain waits for the next one.                       *)
DrainWaits ==
  /\ drain = "running"
  /\ \E i \in DOMAIN queue : IsHead(i) /\ queue' = SubSeq(queue, i, Len(queue))
  /\ Refilled < Cost
  /\ credit' = Refilled
  /\ elapsed' = 0
  /\ drain' = "waiting"
  /\ sleep' = MsUntilNextToken(Refilled)
  /\ UNCHANGED <<status, debt>>

(* Fault: the token is taken for the head of the queue before it is known  *)
(* whether that was cancelled.                                             *)
DrainStartsUnchecked ==
  /\ drain = "running"
  /\ queue # <<>>
  /\ Refilled >= Cost
  /\ queue' = Tail(queue)
  /\ IF status[Head(queue)] = "rejected"
       THEN UNCHANGED <<status, debt>>
       ELSE /\ status' = [status EXCEPT ![Head(queue)] = "running"]
            /\ debt' = debt + Cost
  /\ credit' = Refilled - Cost
  /\ elapsed' = 0
  /\ UNCHANGED <<drain, sleep>>

(* With a token the drain starts the first request that was not cancelled. *)
DrainStarts ==
  /\ drain = "running"
  /\ \E i \in DOMAIN queue :
       /\ IsHead(i)
       /\ queue' = SubSeq(queue, i + 1, Len(queue))
       /\ status' = [status EXCEPT ![queue[i]] = "running"]
  /\ Refilled >= Cost
  /\ credit' = Refilled - Cost
  /\ elapsed' = 0
  /\ debt' = debt + Cost
  /\ UNCHANGED <<drain, sleep>>

(* The drain's timer fires, perhaps a tick early by the wall clock.        *)
Wake ==
  /\ drain = "waiting"
  /\ sleep <= 1
  /\ sleep' = 0
  /\ drain' = "running"
  /\ UNCHANGED <<queue, status, credit, elapsed, debt>>

(* A tick passes.  Time beyond a full bucket makes no difference.          *)
Tick ==
  /\ elapsed' = Smaller(Full, elapsed + 1)
  /\ sleep' = IF sleep > 0 THEN sleep - 1 ELSE 0
  /\ debt' = IF debt > 0 THEN debt - 1 ELSE 0
  /\ UNCHANGED <<queue, status, drain, credit>>

-----------------------------------------------------------------------------
Drain == DrainEnds \/ DrainWaits \/ DrainStarts

Next ==
  \/ \E r \in Requests : Schedule(r) \/ Abort(r) \/ RequestEnds(r)
  \/ Drain \/ Wake \/ Tick

Spec == Init /\ [][Next]_vars

(* The drain runs to its next wait, timers fire, time passes, and the      *)
(* executor's timeout ends every request.                                  *)
Fairness ==
  /\ WF_vars(Drain) /\ WF_vars(Wake) /\ WF_vars(Tick)
  /\ \A r \in Requests : WF_vars(RequestEnds(r))

FairSpec == Spec /\ Fairness

-----------------------------------------------------------------------------
(* "Capacity controls the maximum burst size; tokens refill continuously"  *)
(* (the class comment), whatever is cancelled and whenever the drain wakes *)
(* up.  debt is the largest value, over all periods up to now, of Cost     *)
(* times the requests started in the period less its length; so debt <=    *)
(* Full says that no period has more than Capacity starts and one for each *)
(* Cost of its length, and equality that no token is lost either.          *)
BudgetIsExact == debt = Full - Refilled

(* Nobody waits while the drain is gone: each schedule() restarts it, and  *)
(* it never returns with a live request in the queue.                      *)
QueueIsServed == drain = "idle" => queue = <<>>

(* The drain never sleeps beyond the moment the next token is there, even  *)
(* when the request it fell asleep for is cancelled.                       *)
NeverOversleeps ==
  drain = "waiting" /\ Refilled >= Cost => sleep = 0

(* The drain keeps up with the queue, whatever is cancelled under it.      *)
DrainKeepsUp == QueueIsServed /\ NeverOversleeps

(* "Work waits in insertion order" (the class comment): a request starts   *)
(* only out of the queue and while its caller still waits, so never after  *)
(* the caller was told it was aborted, and only when every request that    *)
(* was scheduled before it and is still in the queue was aborted.          *)
StartsInOrder ==
  [][\A r \in Requests :
       status[r] # "running" /\ status'[r] = "running" =>
         /\ status[r] = "queued"
         /\ \E i \in DOMAIN queue :
              /\ queue[i] = r
              /\ \A j \in 1..(i - 1) : status[queue[j]] = "rejected"]_vars

(* Every scheduled request is sent or rejected, and what is sent settles.  *)
EveryRequestSettles ==
  \A r \in Requests : status[r] = "queued" ~> status[r] \in {"settled", "rejected"}
=============================================================================
