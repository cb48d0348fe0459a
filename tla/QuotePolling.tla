---------------------------- MODULE QuotePolling ----------------------------
(***************************************************************************)
(* The polling service: rounds that drain the UNPAID quotes that are due,  *)
(* one lane per mint, and the resident-quote budget the lanes share; the   *)
(* server startup that waits for the first round, and the shutdown.        *)
(*                                                                         *)
(* A pass fixes a cutoff (dueBefore), discovers the mints with due quotes, *)
(* and runs their lanes; a round is a sequence of passes that ends when    *)
(* nothing more is due.  A lane asks whether its mint batches, then claims *)
(* and polls quotes as long as it finds some, each claim within capacity   *)
(* granted by the drain microtask.                                         *)
(*                                                                         *)
(* Abstracted: time is counted in ticks, the longest that one check takes  *)
(* from the claim to the answer, and last_polled_at is an age that stops   *)
(* at Never; the order of mints and of quotes of one age; what an          *)
(* observation does to the row (QuoteReconciliation); the mint URLs of a   *)
(* lane are one mint.                                                      *)
(***************************************************************************)
EXTENDS CapacitySplit, Naturals, Sequences, FiniteSets, Functions

CONSTANTS
  Mints,        \* the normalized mint URLs
  Quotes,       \* the Mint Quotes
  MintOf,       \* [Quotes -> Mints]
  Limit,        \* [Mints -> Nat], the advertised batch size, or 10
  MaxResident,  \* maxResidentQuotes
  Interval,     \* pollIntervalMs, in ticks
  MaxFaults     \* bound: failed statements and capability lookups

ASSUME PollingAssumption ==
  /\ IsFiniteSet(Mints)
  /\ IsFiniteSet(Quotes)
  /\ MintOf \in [Quotes -> Mints]
  /\ Limit \in [Mints -> Nat \ {0}]
  /\ MaxResident \in Nat \ {0}
  /\ Interval \in Nat \ {0}
  /\ MaxFaults \in Nat

VARIABLES
  service,     \* the lifecycle of the service and of the server around it
  timer,       \* the next round is scheduled
  round,       \* what the round in progress awaits
  cutoff,      \* quotes with last_polled_at <= dueBefore of this pass
  discovered,  \* mints whose lane was started in this pass
  skipped,     \* mints left alone for the rest of the round, {} between rounds
  found,       \* the pass discovered a mint, and discovery did not fail
  lane,        \* [Mints -> Stage]
  claimed,     \* [Mints -> BOOLEAN], the lane claimed a quote
  held,        \* [Mints -> Nat], residentQuotesByLane
  batch,       \* [Mints -> SUBSET Quotes], claimed and not yet checked
  waited,      \* mints whose lane has awaited its answer for a tick
  resident,    \* residentQuotes
  waiters,     \* capacityWaiters, a sequence of mints
  drain,       \* capacityDrainScheduled
  row,         \* [Quotes -> {"absent", "UNPAID", "closed"}]
  age,         \* [Quotes -> 0..Never], ticks since an UNPAID quote's last_polled_at
  faults

lanes == <<lane, claimed, held, batch, waited>>
capacity == <<resident, waiters, drain>>
pass == <<round, cutoff, discovered, skipped, found>>
vars == <<service, timer, pass, lanes, capacity, row, age, faults>>

-----------------------------------------------------------------------------
Stage == {"off", "support", "reserving", "granted", "polling", "leaving"}

(* last_polled_at IS NULL; a polled quote's age stops at Interval.         *)
Never == Interval + 1

Aborted == service = "stopping"

Pollable == { q \in Quotes : row[q] = "UNPAID" }

(* What takeDueForMintPolling may claim in this pass.                      *)
Candidates(m) ==
  { q \in Pollable : MintOf[q] = m /\ (q \in cutoff \/ age[q] = Never) }

ActiveLanes == { m \in Mints : lane[m] # "off" }

InFlight == UNION { batch[m] : m \in Mints }

TypeOK ==
  /\ service \in {"new", "starting", "started", "stopping", "stopped"}
  /\ timer \in BOOLEAN
  /\ round \in {"none", "listing", "settling"}
  /\ cutoff \subseteq Quotes
  /\ discovered \subseteq Mints
  /\ skipped \subseteq Mints
  /\ found \in BOOLEAN
  /\ lane \in [Mints -> Stage]
  /\ claimed \in [Mints -> BOOLEAN]
  /\ held \in [Mints -> Nat]
  /\ batch \in [Mints -> SUBSET Quotes]
  /\ waited \subseteq Mints
  /\ resident \in Nat
  /\ waiters \in Seq(Mints)
  /\ drain \in BOOLEAN
  /\ row \in [Quotes -> {"absent", "UNPAID", "closed"}]
  /\ age \in [Quotes -> 0..Never]
  /\ faults \in 0..MaxFaults

(* A database left by an earlier process, whatever its quotes' ages.       *)
Init ==
  /\ service = "new"
  /\ timer = FALSE
  /\ round = "none"
  /\ cutoff = {} /\ discovered = {} /\ skipped = {} /\ found = FALSE
  /\ lane = [m \in Mints |-> "off"]
  /\ claimed = [m \in Mints |-> FALSE]
  /\ held = [m \in Mints |-> 0]
  /\ batch = [m \in Mints |-> {}]
  /\ waited = {}
  /\ resident = 0 /\ waiters = <<>> /\ drain = FALSE
  /\ row \in [Quotes -> {"absent", "UNPAID"}]
  /\ age \in [Quotes -> 0..Never]
  /\ \A q \in Quotes : row[q] = "absent" => age[q] = Never
  /\ faults = 0

-----------------------------------------------------------------------------
(* Rounds and passes                                                       *)

(* Fault: the cutoff forgets the interval.                                 *)
BeginPassEverything ==
  /\ round' = "listing"
  /\ cutoff' = Pollable
  /\ discovered' = {}
  /\ UNCHANGED skipped
  /\ found' = FALSE

(* A pass starts: its cutoff is what is due by now.                        *)
BeginPass ==
  /\ round' = "listing"
  /\ cutoff' = { q \in Pollable : age[q] >= Interval }
  /\ discovered' = {}
  /\ UNCHANGED skipped
  /\ found' = FALSE

(* start() awaits the first round.                                         *)
Start ==
  /\ service = "new"
  /\ service' = "starting"
  /\ BeginPass
  /\ UNCHANGED <<timer, lanes, capacity, row, age, faults>>

FireTimer ==
  /\ timer
  /\ timer' = FALSE
  /\ BeginPass
  /\ UNCHANGED <<service, lanes, capacity, row, age, faults>>

(* listDueMintQueues returns: a lane per due mint, up to the free slots;   *)
(* discovery ends when the signal is aborted or no mint is left.           *)
ListQueues ==
  /\ round = "listing"
  /\ Cardinality(ActiveLanes) < MaxResident
  /\ LET due == { m \in Mints \ (skipped \cup discovered) : Candidates(m) # {} }
         slots == MaxResident - Cardinality(ActiveLanes)
     IN  IF Aborted \/ due = {}
           THEN /\ round' = "settling"
                /\ UNCHANGED <<discovered, found, lanes>>
           ELSE \E ms \in SUBSET due :
                  /\ Cardinality(ms) = Smaller(Cardinality(due), slots)
                  /\ discovered' = discovered \cup ms
                  /\ found' = TRUE
                  /\ lane' = [m \in Mints |-> IF m \in ms THEN "support" ELSE lane[m]]
                  /\ UNCHANGED <<round, claimed, held, batch, waited>>
  /\ UNCHANGED <<service, timer, cutoff, skipped, capacity, row, age, faults>>

(* listDueMintQueues throws: the round ends once its lanes have settled.   *)
ListFails ==
  /\ round = "listing"
  /\ Cardinality(ActiveLanes) < MaxResident
  /\ faults < MaxFaults
  /\ faults' = faults + 1
  /\ round' = "settling"
  /\ found' = FALSE
  /\ UNCHANGED <<service, timer, cutoff, discovered, skipped, lanes, capacity, row, age>>

(* Fault: a round that was aborted schedules the next one.                 *)
EndRoundRearmed ==
  /\ round' = "none"
  /\ service' = CASE service = "stopping" -> "stopped" [] OTHER -> "started"
  /\ timer' = TRUE
  /\ cutoff' = {} /\ discovered' = {} /\ skipped' = {} /\ found' = FALSE

(* Fault: the next round leaves alone the mints that this one skipped.     *)
EndRoundStillSkipping ==
  /\ round' = "none"
  /\ service' = CASE service = "stopping" -> "stopped" [] OTHER -> "started"
  /\ timer' = (service # "stopping")
  /\ cutoff' = {} /\ discovered' = {} /\ found' = FALSE
  /\ UNCHANGED skipped

(* runRound's finally; the awaiting start() or stop() resumes, the server  *)
(* listens once start() returns, and the next round is scheduled unless    *)
(* the service was stopped.                                                *)
EndRound ==
  /\ round' = "none"
  /\ service' = CASE service = "stopping" -> "stopped" [] OTHER -> "started"
  /\ timer' = (service # "stopping")
  /\ cutoff' = {} /\ discovered' = {} /\ skipped' = {} /\ found' = FALSE

(* All lanes have settled.  The round ends when it is aborted or the pass  *)
(* found nothing; otherwise another pass starts if the clock has advanced. *)
PassSettled ==
  /\ round = "settling"
  /\ ActiveLanes = {}
  /\ \/ EndRound
     \/ ~Aborted /\ found /\ BeginPass /\ UNCHANGED <<service, timer>>
  /\ UNCHANGED <<lanes, capacity, row, age, faults>>

(* Fault: the waiters are dropped and their lanes never hear of it.        *)
StopForgetsWaiters ==
  /\ service = "started"
  /\ timer' = FALSE
  /\ service' = IF round = "none" THEN "stopped" ELSE "stopping"
  /\ waiters' = <<>>
  /\ drain' = (drain \/ waiters # <<>>)
  /\ UNCHANGED <<pass, lanes, resident, row, age, faults>>

(* Shutdown: the signal handlers exist once the server listens.  Waiters   *)
(* leave the queue synchronously with no capacity.                         *)
Stop ==
  /\ service = "started"
  /\ timer' = FALSE
  /\ service' = IF round = "none" THEN "stopped" ELSE "stopping"
  /\ waiters' = <<>>
  /\ lane' = [m \in Mints |-> IF lane[m] = "reserving" THEN "leaving" ELSE lane[m]]
  /\ drain' = (drain \/ waiters # <<>>)
  /\ UNCHANGED <<pass, claimed, held, batch, waited, resident, row, age, faults>>

-----------------------------------------------------------------------------
(* Lanes                                                                   *)

(* Fault: the lane's share stays as granted.                               *)
ReleaseShared(m, n) ==
  /\ resident' = resident - n
  /\ UNCHANGED held

(* releaseCapacity: to the shared budget and from the lane's share.  The   *)
(* code's Math.max(0, ...) never bites: TypeOK has both in Nat.            *)
Release(m, n) ==
  /\ resident' = resident - n
  /\ held' = [held EXCEPT ![m] = @ - n]

(* Fault: the lane that asks last is served first.                         *)
ReserveFirstOrLeave(m) ==
  IF Aborted
    THEN /\ lane' = [lane EXCEPT ![m] = "leaving"]
         /\ UNCHANGED waiters
    ELSE /\ lane' = [lane EXCEPT ![m] = "reserving"]
         /\ waiters' = <<m>> \o waiters

(* The lane asks for capacity, or leaves when the signal is aborted.       *)
ReserveOrLeave(m) ==
  IF Aborted
    THEN /\ lane' = [lane EXCEPT ![m] = "leaving"]
         /\ UNCHANGED waiters
    ELSE /\ lane' = [lane EXCEPT ![m] = "reserving"]
         /\ waiters' = Append(waiters, m)

(* supportsQuoteBatching answers, often from the cache.                    *)
SupportKnown(m) ==
  /\ lane[m] = "support"
  /\ ReserveOrLeave(m)
  /\ drain' = (drain \/ ~Aborted)
  /\ waited' = waited \ {m}
  /\ UNCHANGED <<service, timer, pass, claimed, held, batch, resident, row, age, faults>>

(* The capability lookup fails: the lane returns without a claim.          *)
SupportFails(m) ==
  /\ lane[m] = "support"
  /\ faults < MaxFaults
  /\ faults' = faults + 1
  /\ lane' = [lane EXCEPT ![m] = "leaving"]
  /\ waited' = waited \ {m}
  /\ UNCHANGED <<service, timer, pass, claimed, held, batch, capacity, row, age>>

(* A claim takes as many due quotes as the granted capacity allows.        *)
Claimable(m, claim) ==
  /\ claim \subseteq Candidates(m)
  /\ Cardinality(claim) = Smaller(held[m], Cardinality(Candidates(m)))

(* Fault: the claim is not marked in last_polled_at.                       *)
TakeDueUnmarked(m) ==
  /\ lane[m] = "granted"
  /\ \E claim \in SUBSET Quotes :
       /\ Claimable(m, claim)
       /\ LET kept == IF Aborted THEN {} ELSE claim IN
          /\ claimed' = [claimed EXCEPT ![m] = @ \/ claim # {}]
          /\ Release(m, held[m] - Cardinality(kept))
          /\ batch' = [batch EXCEPT ![m] = kept]
          /\ lane' = [lane EXCEPT ![m] = IF kept = {} THEN "leaving" ELSE "polling"]
          /\ drain' = (drain \/ held[m] # Cardinality(kept))
  /\ UNCHANGED <<service, timer, pass, waited, waiters, row, age, faults>>

(* takeDueForMintPolling selects and marks; the unused part of the grant   *)
(* is released.  A lane that found nothing, or sees the abort, leaves and  *)
(* releases all of it.                                                     *)
TakeDue(m) ==
  /\ lane[m] = "granted"
  /\ \E claim \in SUBSET Quotes :
       /\ Claimable(m, claim)
       /\ LET kept == IF Aborted THEN {} ELSE claim IN
          /\ claimed' = [claimed EXCEPT ![m] = @ \/ claim # {}]
          /\ age' = [q \in Quotes |-> IF q \in claim THEN 0 ELSE age[q]]
          /\ cutoff' = cutoff \ claim
          /\ Release(m, held[m] - Cardinality(kept))
          /\ batch' = [batch EXCEPT ![m] = kept]
          /\ lane' = [lane EXCEPT ![m] = IF kept = {} THEN "leaving" ELSE "polling"]
          /\ drain' = (drain \/ held[m] # Cardinality(kept))
  /\ UNCHANGED <<service, timer, round, discovered, skipped, found, waited, waiters, row, faults>>

(* The claim throws: the grant is released, the mint is skipped.           *)
TakeDueFails(m) ==
  /\ lane[m] = "granted"
  /\ faults < MaxFaults
  /\ faults' = faults + 1
  /\ Release(m, held[m])
  /\ skipped' = skipped \cup {m}
  /\ lane' = [lane EXCEPT ![m] = "leaving"]
  /\ drain' = TRUE
  /\ UNCHANGED <<service, timer, round, cutoff, discovered, found, claimed, batch, waited,
                 waiters, row, age>>

(* A quote leaves UNPAID; its last_polled_at is not read again.            *)
Close(q) ==
  /\ row[q] = "UNPAID"
  /\ row' = [row EXCEPT ![q] = "closed"]
  /\ age' = [age EXCEPT ![q] = Never]

(* One claimed quote is checked: its request ends, by an answer or by the  *)
(* timeout, and the observation closes the quote or leaves it UNPAID.      *)
CheckQuote(m) ==
  /\ lane[m] = "polling"
  /\ \E q \in batch[m] :
       /\ batch' = [batch EXCEPT ![m] = @ \ {q}]
       /\ Close(q) \/ UNCHANGED <<row, age>>
  /\ waited' = waited \ {m}
  /\ UNCHANGED <<service, timer, pass, lane, claimed, held, capacity, faults>>

(* The rest of the claim is not checked: an unavailable or malformed batch *)
(* answer, or the abort.                                                   *)
DropBatch(m) ==
  /\ lane[m] = "polling"
  /\ batch[m] # {}
  /\ batch' = [batch EXCEPT ![m] = {}]
  /\ waited' = waited \ {m}
  /\ UNCHANGED <<service, timer, pass, lane, claimed, held, capacity, row, age, faults>>

(* The claim is through: its capacity is released, the lane goes on.       *)
BatchDone(m) ==
  /\ lane[m] = "polling"
  /\ batch[m] = {}
  /\ Release(m, held[m])
  /\ drain' = TRUE
  /\ ReserveOrLeave(m)
  /\ UNCHANGED <<service, timer, pass, claimed, batch, waited, row, age, faults>>

(* The lane's promise settles: a mint without a claim is skipped for the   *)
(* rest of the round, and its reservation goes to the others.              *)
LaneEnds(m) ==
  /\ lane[m] = "leaving"
  /\ lane' = [lane EXCEPT ![m] = "off"]
  /\ claimed' = [claimed EXCEPT ![m] = FALSE]
  /\ skipped' = IF claimed[m] THEN skipped ELSE skipped \cup {m}
  /\ drain' = TRUE
  /\ UNCHANGED <<service, timer, round, cutoff, discovered, found, held, batch, waited,
                 resident, waiters, row, age, faults>>

-----------------------------------------------------------------------------
(* Capacity                                                                *)

(* Fault: nothing is set aside for lanes that have not asked yet.          *)
AllocatableGreedy == MaxResident - resident

(* Fault: a lane that waits counts as one that has not asked.              *)
AllocatableIgnoringWaiters ==
  LET unready == { m \in ActiveLanes : held[m] = 0 }
      available == MaxResident - resident
  IN  IF available > Cardinality(unready) THEN available - Cardinality(unready) ELSE 0

(* What the drain may hand out: a unit stays with every active lane that   *)
(* neither holds nor awaits capacity.                                      *)
Allocatable ==
  LET waiting == { waiters[i] : i \in DOMAIN waiters }
      unready == { m \in ActiveLanes : held[m] = 0 /\ m \notin waiting }
      available == MaxResident - resident
  IN  IF available > Cardinality(unready) THEN available - Cardinality(unready) ELSE 0

Longest(n) == SubSeq(waiters, 1, n)

(* drainCapacity, a microtask: the longest-waiting lanes are served.       *)
Drain ==
  /\ drain
  /\ drain' = FALSE
  /\ LET served == Smaller(Len(waiters), Allocatable)
         grant == Split(Limit, Longest(served), Allocatable)
         ms == Range(Longest(served))
     IN  /\ waiters' = SubSeq(waiters, served + 1, Len(waiters))
         /\ lane' = [m \in Mints |-> IF m \in ms THEN "granted" ELSE lane[m]]
         /\ held' = [m \in Mints |-> IF m \in ms THEN held[m] + grant[m] ELSE held[m]]
         /\ resident' = resident + SumFunction(grant)
  /\ UNCHANGED <<service, timer, pass, claimed, batch, waited, row, age, faults>>

-----------------------------------------------------------------------------
(* The environment                                                         *)

(* An LNURL request inserts a quote, once the server listens.              *)
NewQuote(q) ==
  /\ service = "started"
  /\ row[q] = "absent"
  /\ row' = [row EXCEPT ![q] = "UNPAID"]
  /\ UNCHANGED <<service, timer, pass, lanes, capacity, age, faults>>

(* A WebSocket observation settles a quote.                                *)
CloseElsewhere(q) ==
  /\ Close(q)
  /\ UNCHANGED <<service, timer, pass, lanes, capacity, faults>>

(* A tick passes while the service sleeps or a lane awaits an answer, for  *)
(* the batching support or for a claimed quote: any mint, prompt or not,   *)
(* since a request waits for its mint's token bucket before it is sent.    *)
(* An answer takes a tick at most: that wait, the time the mint takes, up  *)
(* to the timeout, and the batch request that a check may follow.  All     *)
(* else takes less than a tick.                                            *)
Tick ==
  LET awaiting == { m \in Mints :
                      lane[m] = "support" \/ (lane[m] = "polling" /\ batch[m] # {}) } IN
  /\ round = "none" \/ awaiting # {}
  /\ awaiting \cap waited = {}
  /\ waited' = awaiting
  /\ age' = [q \in Quotes |-> IF age[q] < Interval THEN age[q] + 1 ELSE age[q]]
  /\ UNCHANGED <<service, timer, pass, lane, claimed, held, batch, capacity, row, faults>>

-----------------------------------------------------------------------------
Round == ListQueues \/ PassSettled

LaneStep(m) ==
  \/ SupportKnown(m)
  \/ TakeDue(m)
  \/ CheckQuote(m)
  \/ BatchDone(m)
  \/ LaneEnds(m)

Next ==
  \/ Start \/ FireTimer \/ Round \/ ListFails \/ Stop \/ Drain \/ Tick
  \/ \E m \in Mints :
       LaneStep(m) \/ SupportFails(m) \/ TakeDueFails(m) \/ DropBatch(m)
  \/ \E q \in Quotes : NewQuote(q) \/ CloseElsewhere(q)

Spec == Init /\ [][Next]_vars

(* The event loop runs promises and microtasks to their end, requests get  *)
(* their token and end by the executor's timeout, timers fire, and time    *)
(* passes.                                                                 *)
Fairness ==
  /\ WF_vars(Start) /\ WF_vars(FireTimer) /\ WF_vars(Round)
  /\ WF_vars(Drain) /\ WF_vars(Tick)
  /\ \A m \in Mints : WF_vars(LaneStep(m))

FairSpec == Spec /\ Fairness

-----------------------------------------------------------------------------
(* Safety                                                                  *)

(* "Bound all claimed and in-flight work" (implementation-map:67): the     *)
(* budget is the sum of what the lanes hold, it covers every claimed quote *)
(* in flight, and it is never exceeded.                                    *)
WorkIsBounded ==
  /\ resident = SumFunction(held)
  /\ resident <= MaxResident
  /\ \A m \in Mints : Cardinality(batch[m]) <= held[m]

(* The wait queue holds each lane that awaits capacity once, none that has *)
(* gone, and no lane waits for more while it sits on an earlier grant.     *)
WaitersAreLanes ==
  /\ \A m \in Mints : Cardinality({ i \in DOMAIN waiters : waiters[i] = m }) =
                        IF lane[m] = "reserving" THEN 1 ELSE 0
  /\ \A m \in Mints : lane[m] \in {"off", "support", "reserving", "leaving"} => held[m] = 0

(* No wake-up is lost: a lane waits only while the drain is scheduled or   *)
(* there is nothing to hand out.                                           *)
NoWakeUpIsLost == waiters # <<>> /\ ~drain => Allocatable = 0

(* However many lanes the drain serves, it divides the capacity evenly.    *)
DrainIsEven ==
  \A n \in 1..Len(waiters) :
    n <= Allocatable =>
      Split(Limit, Longest(n), Allocatable) \in EvenShares(Limit, Range(Longest(n)), Allocatable)

(* The account of the capacity is right in every part.                     *)
BudgetInv == TypeOK /\ WorkIsBounded /\ WaitersAreLanes /\ NoWakeUpIsLost /\ DrainIsEven

(* To its lanes the service is an account of the capacity: they are served *)
(* in the order in which they asked, evenly, and never from what another   *)
(* lane still holds.                                                       *)
Budget == INSTANCE CapacityBudget WITH
  Lanes <- Mints,
  Capacity <- MaxResident,
  waiting <- waiters

ImplementsBudget == Budget!Spec

(* After stop() returns the database is closed: no round, lane, claim or   *)
(* timer may be left behind to use it.                                     *)
QuietAfterStop ==
  service = "stopped" =>
    round = "none" /\ ~timer /\ ActiveLanes = {} /\ InFlight = {} /\ resident = 0

(* "reserves capacity for a responsive lane beside a 5,000-quote slow      *)
(* lane" (test): no grant takes the room of a lane that is still asking    *)
(* its mint's capabilities.                                                *)
GrantsLeaveRoom ==
  [][resident' > resident =>
       Cardinality({ m \in Mints : lane[m] = "support" }) <= MaxResident - resident']_vars

(* No quote is polled again before the poll interval has passed, nor while *)
(* an earlier claim of it is still in flight.                              *)
ClaimsAreSpaced ==
  [][\A m \in Mints : \A q \in batch'[m] \ batch[m] :
        age[q] >= Interval /\ q \notin InFlight]_vars

-----------------------------------------------------------------------------
(* Liveness                                                                *)

(* A lane that asks for capacity gets some, or the service stops.          *)
WaiterIsServed == \A m \in Mints : lane[m] = "reserving" ~> lane[m] # "reserving"

Overdue(q) == row[q] = "UNPAID" /\ age[q] >= Interval

(* A round over all quotes, a lookup of the batching support and a check   *)
(* for each, one after the other, fits into a poll interval.               *)
LightLoad == 2 * Cardinality(Quotes) <= Interval

(* Skipping a mint for the rest of the round, after a failed lookup or a   *)
(* failed claim, never means skipping it for ever: as long as rounds fit   *)
(* into a poll interval they end, and while the service runs every due     *)
(* quote is claimed, at slow and failing mints too.                        *)
DueQuoteIsClaimed ==
  LightLoad =>
    \A q \in Quotes :
      Overdue(q) /\ service = "started" ~> ~Overdue(q) \/ service \in {"stopping", "stopped"}

(* "Start the polling module; it runs an immediate round.  Begin accepting *)
(* HTTP and WebSocket clients" (implementation-map:270-271).               *)
StartupCompletes == service = "starting" ~> service = "started"

(* The server comes to listen as long as rounds fit into a poll interval:  *)
(* claims marked in last_polled_at do not come back within the round that  *)
(* start() awaits, whatever order lanes and passes take.                   *)
StartupCompletesUnderLightLoad == LightLoad => StartupCompletes

(* stop() returns: shutdown does not wait for ever on a lane.              *)
StopCompletes == service = "stopping" ~> service = "stopped"
=============================================================================
