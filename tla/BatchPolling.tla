---------------------------- MODULE BatchPolling ----------------------------
(***************************************************************************)
(* What one polling lane asks its mint and what it makes of the answers:   *)
(* batch requests, the fallback to a few individual requests when a batch  *)
(* answer is unusable, and the observations handed to the handler, while   *)
(* payments, expiry and restarts go on.  QuotePolling has the rounds and   *)
(* the capacity the lanes share; here a round is one lane's, and the       *)
(* capacity granted to a claim is any number up to the one asked for.      *)
(*                                                                         *)
(* A claim is never longer than the batch size it is sent with, so it is   *)
(* one request.  Quotes are numbered by id.                                *)
(***************************************************************************)
EXTENDS Naturals, FiniteSets, SequencesExt

CONSTANTS
  Quotes,          \* the Mint Quotes of the mint: their ids
  Limits,          \* the batch sizes the mint may advertise
  IndividualLimit, \* INDIVIDUAL_POLL_LIMIT
  Broken,          \* quotes the mint never answers in the expected shape
  MaxFaults        \* bound: unavailable mint, failing handler, restarts

ASSUME BatchAssumption ==
  /\ Quotes \subseteq Nat /\ IsFiniteSet(Quotes)
  /\ Limits \subseteq Nat \ {0}
  /\ IndividualLimit \in Nat \ {0}
  /\ Broken \subseteq Quotes
  /\ MaxFaults \in Nat

VARIABLES
  row,     \* [Quotes -> state], table mint_quotes
  polled,  \* [Quotes -> rank of last_polled_at among UNPAID quotes, 0 for NULL]
  mint,    \* [Quotes -> the mint's state of the quote, or "forgotten"]
  expired, \* quotes past their expiry
  at,      \* where the lane is
  limit,   \* the batch size supported, 0 for none
  taken,   \* the UNPAID quotes claimed in this round: polled after dueBefore
  claim,   \* the claimed quotes still to be asked for, in order
  late,    \* those of them that were past expiry when the request started
  checks,  \* results to be forwarded
  faults

lane == <<at, limit, taken, claim, late, checks>>
vars == <<row, polled, mint, expired, lane, faults>>

-----------------------------------------------------------------------------
Unpaid == { q \in Quotes : row[q] = "UNPAID" }

(* A result to be forwarded: the quote that was asked for, the quote that  *)
(* the payload names, its state, and whether the request started late.     *)
Check == [quote : Quotes, payload : Quotes, seen : {"UNPAID", "PAID", "forgotten"},
          late : BOOLEAN]

TypeOK ==
  /\ row \in [Quotes -> {"absent", "UNPAID", "PAID", "EXPIRED"}]
  /\ polled \in [Quotes -> 0..Cardinality(Quotes)]
  /\ \A q \in Quotes : polled[q] # 0 => q \in Unpaid
  /\ mint \in [Quotes -> {"UNPAID", "PAID", "forgotten"}]
  /\ expired \subseteq Quotes
  /\ at \in {"idle", "claim", "batch", "batchSent", "single", "singleSent", "forward"}
  /\ limit \in Limits \cup {0}
  /\ taken \subseteq Unpaid
  /\ claim \in Seq(Quotes) /\ IsInjective(claim)
  /\ at \in {"single", "singleSent"} => Len(claim) <= IndividualLimit
  /\ late \subseteq Quotes
  /\ checks \in Seq(Check)
  /\ faults \in 0..MaxFaults

Init ==
  /\ row = [q \in Quotes |-> "absent"]
  /\ polled = [q \in Quotes |-> 0]
  /\ mint = [q \in Quotes |-> "UNPAID"]
  /\ expired = {}
  /\ at = "idle"
  /\ limit = 0
  /\ taken = {}
  /\ claim = <<>>
  /\ late = {}
  /\ checks = <<>>
  /\ faults = 0

Faulty == faults < MaxFaults /\ faults' = faults + 1

(* The lane asks for nothing more of this claim.                           *)
ClaimDone == at' = "claim" /\ claim' = <<>> /\ late' = {} /\ checks' = <<>>

(* The order of the times t, without what lies between them.               *)
Ranked(t) == [q \in Quotes |-> Cardinality({ t[r] : r \in Quotes } \cap 1..t[q])]

(* The claimed quotes are the last ones polled.                            *)
PolledNow(claimed) ==
  Ranked([q \in Quotes |-> IF q \in claimed THEN Cardinality(Quotes) + 1 ELSE polled[q]])

-----------------------------------------------------------------------------
(* The mint's side, and time. *)

(* What the mint does with a quote matters as long as the server looks: at *)
(* the expiry and the answers of an UNPAID quote that is not Broken.       *)
Looked(q) == row[q] = "UNPAID" /\ q \notin Broken

(* Quotes get increasing ids.                                              *)
NewQuote(q) ==
  /\ row[q] = "absent"
  /\ \A r \in Quotes : r < q => row[r] # "absent"
  /\ row' = [row EXCEPT ![q] = "UNPAID"]
  /\ UNCHANGED <<polled, mint, expired, lane, faults>>

Pay(q) ==
  /\ row[q] # "absent" /\ q \notin Broken /\ q \notin expired /\ mint[q] = "UNPAID"
  /\ mint' = [mint EXCEPT ![q] = "PAID"]
  /\ UNCHANGED <<row, polled, expired, lane, faults>>

Forget(q) ==
  /\ Looked(q) /\ mint[q] = "UNPAID"
  /\ mint' = [mint EXCEPT ![q] = "forgotten"]
  /\ UNCHANGED <<row, polled, expired, lane, faults>>

Expire(q) ==
  /\ Looked(q) /\ q \notin expired
  /\ expired' = expired \cup {q}
  /\ UNCHANGED <<row, polled, mint, lane, faults>>

-----------------------------------------------------------------------------
(* pollMintQueue *)

(* supportsQuoteBatching: what NUT-29 of the mint's information says.      *)
BeginLane ==
  /\ at = "idle" /\ Unpaid # {}
  /\ limit' \in Limits \cup {0}
  /\ at' = "claim"
  /\ UNCHANGED <<row, polled, mint, expired, taken, claim, late, checks, faults>>

(* ORDER BY last_polled_at NULLS FIRST, id                                 *)
PolledBefore(q, r) == polled[q] < polled[r] \/ (polled[q] = polled[r] /\ q < r)

Due == Unpaid \ taken

(* The first n of the due quotes, in order.                                *)
FirstDue(n) ==
  { s \in [1..n -> Due] :
      /\ \A i, j \in 1..n : i < j => PolledBefore(s[i], s[j])
      /\ \A q \in Due \ Range(s) : PolledBefore(s[n], q) }

(* takeDueForMintPolling within the capacity granted.                      *)
TakeDue ==
  /\ at = "claim"
  /\ \E n \in 1..(IF limit = 0 THEN IndividualLimit ELSE limit) : \E quotes \in FirstDue(n) :
       /\ claim' = quotes
       /\ taken' = taken \cup Range(quotes)
       /\ polled' = PolledNow(Range(quotes))
  /\ at' = IF limit = 0 THEN "single" ELSE "batch"
  /\ UNCHANGED <<row, mint, expired, limit, late, checks, faults>>

(* Nothing is due: the lane ends, and an interval passes.                  *)
EndLane ==
  /\ at = "claim" /\ Due = {}
  /\ at' = "idle"
  /\ limit' = 0
  /\ taken' = {}
  /\ UNCHANGED <<row, polled, mint, expired, claim, late, checks, faults>>

-----------------------------------------------------------------------------
(* checkQuotes and pollBatch *)

StartBatch ==
  /\ at = "batch"
  /\ at' = "batchSent"
  /\ late' = ToSet(claim) \cap expired
  /\ UNCHANGED <<row, polled, mint, expired, limit, taken, claim, checks, faults>>

Checked(q, payload) ==
  [quote |-> q, payload |-> payload, seen |-> mint[payload], late |-> q \in late]

(* Fault: an answer is usable whatever its order.                          *)
UsableInAnyOrder(answer) ==
  /\ ToSet(answer) = ToSet(claim)
  /\ \A q \in ToSet(answer) : q \notin Broken /\ mint[q] # "forgotten"

(* An answer, given as the quotes of its payloads, is usable when every    *)
(* payload has the expected shape and they come in the requested order.    *)
(* A mint that does not know a quote refuses the batch.                    *)
Usable(answer) ==
  /\ answer = claim
  /\ \A q \in ToSet(answer) : q \notin Broken /\ mint[q] # "forgotten"

(* quotes.slice(0, INDIVIDUAL_POLL_LIMIT)                                  *)
Fallback ==
  SubSeq(claim, 1, IF IndividualLimit < Len(claim) THEN IndividualLimit ELSE Len(claim))

(* The mint answers in order, in another order, or with an error.          *)
BatchAnswer ==
  /\ at = "batchSent"
  /\ \E answer \in SetToSeqs(ToSet(claim)) \cup {<<>>} :
       IF Usable(answer)
         THEN /\ checks' = [i \in DOMAIN claim |-> Checked(claim[i], answer[i])]
              /\ at' = "forward"
              /\ claim' = <<>>
         ELSE /\ claim' = Fallback
              /\ at' = "single"
              /\ UNCHANGED checks
  /\ late' = {}
  /\ UNCHANGED <<row, polled, mint, expired, limit, taken, faults>>

-----------------------------------------------------------------------------
(* checkQuote and pollIndividually *)

StartSingle ==
  /\ at = "single"
  /\ IF claim = <<>>
       THEN ClaimDone
       ELSE /\ at' = "singleSent"
            /\ late' = { Head(claim) } \cap expired
            /\ UNCHANGED <<claim, checks>>
  /\ UNCHANGED <<row, polled, mint, expired, limit, taken, faults>>

(* An answer of the wrong shape is logged and the lane goes on.            *)
SingleAnswer ==
  /\ at = "singleSent"
  /\ claim' = Tail(claim)
  /\ late' = {}
  /\ IF Head(claim) \in Broken
       THEN at' = "single" /\ UNCHANGED checks
       ELSE at' = "forward" /\ checks' = <<Checked(Head(claim), Head(claim))>>
  /\ UNCHANGED <<row, polled, mint, expired, limit, taken, faults>>

(* The mint does not answer: a batch is given up, an individual request    *)
(* is followed by the next.                                                *)
Unavailable ==
  /\ Faulty
  /\ \/ at = "batchSent" /\ ClaimDone
     \/ /\ at = "singleSent"
        /\ at' = "single" /\ claim' = Tail(claim) /\ late' = {}
        /\ UNCHANGED checks
  /\ UNCHANGED <<row, polled, mint, expired, limit, taken>>

-----------------------------------------------------------------------------
(* forwardResult and what the handler does with the observation. *)

(* Fault: the expiry is compared with the time the result is forwarded.    *)
ObservedByNow(check) ==
  CASE check.payload # check.quote -> "UNPAID"
    [] check.seen = "PAID" -> "PAID"
    [] check.seen = "forgotten" \/ (check.seen = "UNPAID" /\ check.quote \in expired) -> "EXPIRED"
    [] OTHER -> "UNPAID"

(* What toTransition makes of a result.                                    *)
Observed(check) ==
  CASE check.payload # check.quote -> "UNPAID"
    [] check.seen = "PAID" -> "PAID"
    [] check.seen = "forgotten" \/ (check.seen = "UNPAID" /\ check.late) -> "EXPIRED"
    [] OTHER -> "UNPAID"

(* The handler's statement, or its failure, which is logged.               *)
Forward ==
  /\ at = "forward"
  /\ IF checks = <<>>
       THEN /\ at' = "single"
            /\ UNCHANGED <<row, polled, taken, checks, faults>>
       ELSE LET q == Head(checks).quote IN
            /\ checks' = Tail(checks)
            /\ UNCHANGED at
            /\ \/ /\ row' = [row EXCEPT ![q] = IF @ = "UNPAID" THEN Observed(Head(checks)) ELSE @]
                  /\ IF row'[q] = "UNPAID"
                       THEN UNCHANGED <<polled, taken>>
                       ELSE polled' = Ranked([polled EXCEPT ![q] = 0]) /\ taken' = taken \ {q}
                  /\ UNCHANGED faults
               \/ Faulty /\ UNCHANGED <<row, polled, taken>>
  /\ UNCHANGED <<mint, expired, limit, claim, late>>

(* The process stops and starts again; what was claimed stays polled.      *)
Restart ==
  /\ at # "idle"
  /\ Faulty
  /\ at' = "idle" /\ limit' = 0 /\ taken' = {}
  /\ claim' = <<>> /\ late' = {} /\ checks' = <<>>
  /\ UNCHANGED <<row, polled, mint, expired>>

-----------------------------------------------------------------------------
LaneStep ==
  \/ BeginLane \/ TakeDue \/ EndLane
  \/ StartBatch \/ BatchAnswer \/ StartSingle \/ SingleAnswer
  \/ Forward

Next ==
  \/ LaneStep \/ Unavailable \/ Restart
  \/ \E q \in Quotes : NewQuote(q) \/ Pay(q) \/ Forget(q) \/ Expire(q)

Spec == Init /\ [][Next]_vars

(* Requests end, by an answer or by their timeout; rounds are scheduled;   *)
(* time passes.                                                            *)
Fairness == WF_vars(LaneStep) /\ \A q \in Quotes : WF_vars(Expire(q))

FairSpec == Spec /\ Fairness

-----------------------------------------------------------------------------
(* A quote is PAID only if the mint was paid, and EXPIRED only if the mint *)
(* was not and never will be: a result belongs to the quote it was asked   *)
(* for, and an UNPAID answer closes a quote only if the request started    *)
(* after the expiry, whatever happened until it was forwarded.             *)
ClosedRightly ==
  \A q \in Quotes :
    /\ row[q] = "PAID" => mint[q] = "PAID"
    /\ row[q] = "EXPIRED" => mint[q] = "forgotten" \/ (mint[q] = "UNPAID" /\ q \in expired)

(* A lane in any state closes quotes rightly.                              *)
LaneInv == TypeOK /\ ClosedRightly

(* Every quote is closed, although the mint answers every batch in the     *)
(* wrong order or not at all, and although Broken quotes stay in every     *)
(* claim: there are fewer of them than the fallback asks for.              *)
EveryQuoteCloses ==
  \A q \in Quotes \ Broken : row[q] = "UNPAID" ~> row[q] # "UNPAID"
=============================================================================
