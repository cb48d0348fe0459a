------------------------ MODULE BatchPolling_proofs -------------------------
(***************************************************************************)
(* Proofs about BatchPolling, for any finite set of quotes, any batch      *)
(* sizes the mint may advertise, any fallback size, any quotes it answers  *)
(* in the wrong shape, and any number of failures and restarts.            *)
(***************************************************************************)
EXTENDS BatchPolling, FiniteSetTheorems, WellFoundedInduction, TLAPS

-----------------------------------------------------------------------------
(* The type invariant in the parts that different actions disturb.         *)
RowTypes ==
  /\ row \in [Quotes -> {"absent", "UNPAID", "PAID", "EXPIRED"}]
  /\ mint \in [Quotes -> {"UNPAID", "PAID", "forgotten"}]
  /\ expired \subseteq Quotes

OrderTypes ==
  /\ polled \in [Quotes -> 0..Cardinality(Quotes)]
  /\ \A q \in Quotes : polled[q] # 0 => q \in Unpaid
  /\ taken \subseteq Unpaid

(* From the fallback on, a claim is a few individual requests; one that is *)
(* under way is for its first quote.                                       *)
ClaimTypes ==
  /\ claim \in Seq(Quotes) /\ IsInjective(claim)
  /\ at \in {"single", "singleSent", "forward"} => Len(claim) <= IndividualLimit
  /\ at = "singleSent" => claim # <<>>

LaneTypes ==
  /\ at \in {"idle", "claim", "batch", "batchSent", "single", "singleSent", "forward"}
  /\ limit \in Limits \cup {0}
  /\ late \subseteq Quotes
  /\ faults \in 0..MaxFaults

ChecksTypes == checks \in Seq(Check)

(* These parts make up the type invariant.                                 *)
LEMMA TypeParts ==
  ASSUME RowTypes, OrderTypes, ClaimTypes, LaneTypes, ChecksTypes
  PROVE  TypeOK
BY DEF TypeOK, RowTypes, OrderTypes, ClaimTypes, LaneTypes, ChecksTypes

(* What a result that is still to be forwarded says of the mint: the mint  *)
(* keeps a payment and a refusal, and after the expiry nobody can pay.     *)
Evidence(check) ==
  /\ check.payload = check.quote
  /\ check.seen = "PAID" => mint[check.quote] = "PAID"
  /\ check.seen = "forgotten" => mint[check.quote] = "forgotten"
  /\ check.seen = "UNPAID" /\ check.late => check.quote \in expired /\ mint[check.quote] # "PAID"

EvidenceInv ==
  /\ late \subseteq expired
  /\ \A i \in DOMAIN checks : Evidence(checks[i])

BatchInv ==
  /\ RowTypes /\ OrderTypes /\ ClaimTypes /\ LaneTypes /\ ChecksTypes
  /\ EvidenceInv
  /\ ClosedRightly

-----------------------------------------------------------------------------
(* The order in which quotes were polled. *)

(* Ranks are at most as many as quotes, whatever the times they rank.      *)
LEMMA RankedType ==
  ASSUME NEW t \in [Quotes -> Nat]
  PROVE  /\ Ranked(t) \in [Quotes -> 0..Cardinality(Quotes)]
         /\ \A q \in Quotes : t[q] = 0 => Ranked(t)[q] = 0
<1> DEFINE times == { t[r] : r \in Quotes }
<1>1. IsFiniteSet(times) /\ Cardinality(times) <= Cardinality(Quotes)
  <2>1. t \in Surjection(Quotes, times)
    BY DEF Surjection
  <2>2. QED BY <2>1, BatchAssumption, FS_Surjection
<1>2. ASSUME NEW q \in Quotes
      PROVE  Cardinality(times \cap 1..t[q]) \in 0..Cardinality(Quotes)
  <2>1. /\ IsFiniteSet(times \cap 1..t[q])
        /\ Cardinality(times \cap 1..t[q]) <= Cardinality(times)
    BY <1>1, FS_Subset
  <2>2. /\ Cardinality(times \cap 1..t[q]) \in Nat /\ Cardinality(times) \in Nat
        /\ Cardinality(Quotes) \in Nat
    BY <1>1, <2>1, BatchAssumption, FS_CardinalityType
  <2>3. QED BY <1>1, <2>1, <2>2
<1>3. ASSUME NEW q \in Quotes, t[q] = 0 PROVE Ranked(t)[q] = 0
  <2>1. times \cap 1..t[q] = {}
    BY <1>3
  <2>2. QED BY <2>1, FS_EmptySet DEF Ranked
<1>4. QED BY <1>2, <1>3 DEF Ranked

(* Only quotes that were polled have a rank.                               *)
LEMMA PolledNowType ==
  ASSUME OrderTypes, NEW claimed \in SUBSET Quotes
  PROVE  /\ PolledNow(claimed) \in [Quotes -> 0..Cardinality(Quotes)]
         /\ \A q \in Quotes \ claimed : polled[q] = 0 => PolledNow(claimed)[q] = 0
<1> DEFINE t == [q \in Quotes |-> IF q \in claimed THEN Cardinality(Quotes) + 1 ELSE polled[q]]
<1>1. Cardinality(Quotes) \in Nat
  BY BatchAssumption, FS_CardinalityType
<1>2. t \in [Quotes -> Nat]
  BY <1>1 DEF OrderTypes
<1>3. \A q \in Quotes \ claimed : t[q] = polled[q]
  OBVIOUS
<1>4. PolledNow(claimed) = Ranked(t)
  BY DEF PolledNow
<1> HIDE DEF t
<1>5. QED BY <1>2, <1>3, <1>4, RankedType

(* A closed quote leaves the order.                                        *)
LEMMA ForgottenType ==
  ASSUME OrderTypes, NEW q \in Quotes
  PROVE  /\ Ranked([polled EXCEPT ![q] = 0]) \in [Quotes -> 0..Cardinality(Quotes)]
         /\ Ranked([polled EXCEPT ![q] = 0])[q] = 0
         /\ \A r \in Quotes : polled[r] = 0 => Ranked([polled EXCEPT ![q] = 0])[r] = 0
<1> DEFINE t == [polled EXCEPT ![q] = 0]
<1>1. t \in [Quotes -> Nat] /\ t[q] = 0 /\ \A r \in Quotes : polled[r] = 0 => t[r] = 0
  <2>1. Cardinality(Quotes) \in Nat
    BY BatchAssumption, FS_CardinalityType
  <2>2. QED BY <2>1 DEF OrderTypes
<1> HIDE DEF t
<1>2. QED BY <1>1, RankedType DEF t

(* A claim is a sequence of different due quotes.                          *)
LEMMA ClaimIsInjective ==
  ASSUME OrderTypes, NEW n \in Nat \ {0}, NEW s \in FirstDue(n)
  PROVE  /\ s \in Seq(Quotes) /\ Len(s) = n /\ IsInjective(s)
         /\ Range(s) \subseteq Due
<1>1. /\ s \in [1..n -> Due]
      /\ \A i, j \in 1..n : i < j => PolledBefore(s[i], s[j])
  BY DEF FirstDue
<1>2. Due \subseteq Quotes
  BY DEF Due, Unpaid
<1>3. s \in Seq(Quotes) /\ Len(s) = n
  BY <1>1, <1>2
<1>4. \A q \in Quotes : ~PolledBefore(q, q)
  <2>1. TAKE q \in Quotes
  <2>2. polled[q] \in Nat /\ q \in Nat
    <3>1. Cardinality(Quotes) \in Nat
      BY BatchAssumption, FS_CardinalityType
    <3>2. QED BY <3>1, BatchAssumption DEF OrderTypes
  <2>3. QED BY <2>2 DEF PolledBefore
<1>5. \A i, j \in 1..n : s[i] = s[j] => i = j
  <2>1. TAKE i, j \in 1..n
  <2>2. HAVE s[i] = s[j]
  <2>3. ~(i < j) /\ ~(j < i)
    BY <1>1, <1>2, <1>4, <2>2
  <2>4. QED BY <2>3
<1>6. QED BY <1>1, <1>3, <1>5 DEF IsInjective, Range

(* The order is strict and total, so one of the due quotes comes first.    *)
LEMMA FirstExists ==
  ASSUME OrderTypes, Due # {}
  PROVE  FirstDue(1) # {}
<1> DEFINE earlier(q) == { r \in Due : PolledBefore(r, q) }
           family == { earlier(q) : q \in Due }
<1>1. Due \subseteq Quotes /\ \A q \in Quotes : q \in Nat /\ polled[q] \in Nat
  <2>1. Cardinality(Quotes) \in Nat
    BY BatchAssumption, FS_CardinalityType
  <2>2. QED BY <2>1, BatchAssumption DEF Due, Unpaid, OrderTypes
<1>2. \A q \in Due : earlier(q) \in FiniteSubsetsOf(Due)
  <2> SUFFICES ASSUME NEW q \in Due PROVE earlier(q) \in FiniteSubsetsOf(Due)
    OBVIOUS
  <2>1. IsFiniteSet(Due)
    BY <1>1, BatchAssumption, FS_Subset
  <2>2. IsFiniteSet(earlier(q))
    BY <2>1, FS_Subset
  <2>3. QED BY <2>2 DEF FiniteSubsetsOf
<1>3. family \subseteq FiniteSubsetsOf(Due) /\ family # {}
  BY <1>2
<1>4. PICK x \in family : \A y \in family : <<y, x>> \notin StrictSubsetOrdering(Due)
  <2> HIDE DEF family
  <2>1. IsWellFoundedOn(StrictSubsetOrdering(Due), FiniteSubsetsOf(Due))
    BY FS_StrictSubsetOrderingWellFounded
  <2>2. QED BY <1>3, <2>1, WFMin
<1>5. PICK q \in Due : x = earlier(q)
  BY <1>4
<1>6. ASSUME NEW r \in Due, PolledBefore(r, q) PROVE FALSE
  <2>1. earlier(r) \subseteq earlier(q) /\ earlier(r) # earlier(q)
    <3>1. r \in earlier(q) /\ r \notin earlier(r)
      BY <1>1, <1>6 DEF PolledBefore
    <3>2. \A k \in earlier(r) : k \in earlier(q)
      BY <1>1, <1>6 DEF PolledBefore
    <3>3. QED BY <3>1, <3>2
  <2>2. earlier(r) \subseteq Due
    OBVIOUS
  <2>3. <<earlier(r), earlier(q)>> \in StrictSubsetOrdering(Due)
    BY <1>2, <2>1, <2>2 DEF StrictSubsetOrdering
  <2>4. QED BY <1>4, <1>5, <2>3
<1>7. \A r \in Due \ {q} : PolledBefore(q, r)
  BY <1>1, <1>6 DEF PolledBefore
<1> DEFINE s == [i \in 1..1 |-> q]
<1>8. s \in FirstDue(1)
  <2>1. s \in [1..1 -> Due] /\ s[1] = q
    OBVIOUS
  <2>2. \A i, j \in 1..1 : ~(i < j)
    OBVIOUS
  <2>3. Range(s) = {q}
    BY DEF Range
  <2> HIDE DEF s
  <2>4. QED BY <1>7, <2>1, <2>2, <2>3 DEF FirstDue
<1>9. QED BY <1>8

(* What is left of a claim after its first quote has no quote twice.       *)
LEMMA TailOfClaim ==
  ASSUME claim \in Seq(Quotes), IsInjective(claim), claim # <<>>
  PROVE  /\ Tail(claim) \in Seq(Quotes) /\ IsInjective(Tail(claim))
         /\ Len(Tail(claim)) = Len(claim) - 1
         /\ Head(claim) \in Quotes
<1>1. /\ Tail(claim) \in Seq(Quotes) /\ Len(Tail(claim)) = Len(claim) - 1
      /\ Head(claim) \in Quotes
  OBVIOUS
<1>2. \A i \in 1..Len(Tail(claim)) : Tail(claim)[i] = claim[i + 1] /\ i + 1 \in 1..Len(claim)
  OBVIOUS
<1>3. \A i, j \in 1..Len(claim) : claim[i] = claim[j] => i = j
  BY DEF IsInjective
<1>4. \A i, j \in 1..Len(Tail(claim)) : Tail(claim)[i] = Tail(claim)[j] => i = j
  BY <1>1, <1>2, <1>3
<1>5. DOMAIN Tail(claim) = 1..Len(Tail(claim))
  BY <1>1
<1>6. QED BY <1>1, <1>4, <1>5 DEF IsInjective

(* The fallback asks for the first quotes of the claim.                    *)
LEMMA FallbackOfClaim ==
  ASSUME claim \in Seq(Quotes), IsInjective(claim)
  PROVE  /\ Fallback \in Seq(Quotes) /\ IsInjective(Fallback)
         /\ Len(Fallback) <= IndividualLimit
<1> DEFINE n == IF IndividualLimit < Len(claim) THEN IndividualLimit ELSE Len(claim)
<1>1. n \in Nat /\ n <= IndividualLimit /\ n <= Len(claim) /\ Fallback = SubSeq(claim, 1, n)
  BY BatchAssumption DEF Fallback
<1> HIDE DEF n
<1>2. /\ SubSeq(claim, 1, n) \in Seq(Quotes) /\ Len(SubSeq(claim, 1, n)) = n
      /\ \A i \in 1..n : SubSeq(claim, 1, n)[i] = claim[i]
  BY <1>1
<1>3. \A i, j \in 1..Len(claim) : claim[i] = claim[j] => i = j
  BY DEF IsInjective
<1>4. \A i, j \in 1..n : SubSeq(claim, 1, n)[i] = SubSeq(claim, 1, n)[j] => i = j
  BY <1>1, <1>2, <1>3
<1>5. DOMAIN SubSeq(claim, 1, n) = 1..n
  BY <1>1, <1>2
<1>6. QED BY <1>1, <1>2, <1>4, <1>5 DEF IsInjective

(* No claim is a claim.                                                    *)
LEMMA NoClaim == <<>> \in Seq(Quotes) /\ IsInjective(<<>>) /\ Len(<<>>) = 0
BY DEF IsInjective

(* As long as the mint and the clock stand, so does the evidence.          *)
LEMMA EvidenceStands ==
  ASSUME ChecksTypes, EvidenceInv, UNCHANGED <<mint, expired>>, late' \subseteq expired,
         checks' = checks \/ checks' = <<>>
  PROVE  ChecksTypes' /\ EvidenceInv'
<1>1. ASSUME NEW check PROVE Evidence(check)' <=> Evidence(check)
  BY DEF Evidence
<1>2. CASE checks' = checks
  BY <1>1, <1>2 DEF ChecksTypes, EvidenceInv
<1>3. CASE checks' = <<>>
  BY <1>3 DEF ChecksTypes, EvidenceInv
<1>4. QED BY <1>2, <1>3

(* A result that was just received carries its evidence.                   *)
LEMMA CheckedHasEvidence ==
  ASSUME RowTypes, EvidenceInv, NEW q \in Quotes
  PROVE  Checked(q, q) \in Check /\ Evidence(Checked(q, q))
<1>1. mint[q] \in {"UNPAID", "PAID", "forgotten"}
  BY DEF RowTypes
<1>2. Checked(q, q) = [quote |-> q, payload |-> q, seen |-> mint[q], late |-> q \in late]
  BY DEF Checked
<1>3. (q \in late) \in BOOLEAN
  OBVIOUS
<1>4. Checked(q, q) \in Check
  BY <1>1, <1>2, <1>3 DEF Check
<1>5. Evidence(Checked(q, q))
  <2>1. /\ Checked(q, q).quote = q /\ Checked(q, q).payload = q
        /\ Checked(q, q).seen = mint[q] /\ Checked(q, q).late = (q \in late)
    BY <1>2
  <2>2. Checked(q, q).late => q \in expired
    BY <2>1 DEF EvidenceInv
  <2>3. QED BY <1>1, <2>1, <2>2 DEF Evidence
<1>6. QED BY <1>4, <1>5

-----------------------------------------------------------------------------
(* The mint's side, and time. *)

(* A new quote is open, and was not polled.                                *)
LEMMA NewQuoteKeeps ==
  ASSUME BatchInv, NEW q \in Quotes, NewQuote(q)
  PROVE  BatchInv'
<1>1. /\ row' = [row EXCEPT ![q] = "UNPAID"] /\ row[q] = "absent"
      /\ UNCHANGED <<polled, mint, expired, at, limit, taken, claim, late, checks, faults>>
  BY DEF NewQuote, lane
<1>2. RowTypes'
  BY <1>1 DEF BatchInv, RowTypes
<1>3. Unpaid \subseteq Unpaid'
  BY <1>1 DEF BatchInv, RowTypes, Unpaid
<1>4. OrderTypes'
  BY <1>1, <1>3 DEF BatchInv, OrderTypes
<1>5. ClaimTypes' /\ LaneTypes' /\ ChecksTypes' /\ EvidenceInv'
  BY <1>1 DEF BatchInv, ClaimTypes, LaneTypes, ChecksTypes, EvidenceInv, Evidence
<1>6. ClosedRightly'
  BY <1>1 DEF BatchInv, RowTypes, ClosedRightly
<1>7. QED BY <1>2, <1>4, <1>5, <1>6 DEF BatchInv

(* The mint answers differently from now on; what it said before stays     *)
(* true where it matters.                                                  *)
LEMMA MintKeeps ==
  ASSUME BatchInv, NEW q \in Quotes, Pay(q) \/ Forget(q) \/ Expire(q)
  PROVE  BatchInv'
<1>1. /\ UNCHANGED <<row, polled, at, limit, taken, claim, late, checks, faults>>
      /\ expired \subseteq expired' /\ expired' \subseteq Quotes
  BY DEF Pay, Forget, Expire, lane, BatchInv, RowTypes
<1>2. mint' \in [Quotes -> {"UNPAID", "PAID", "forgotten"}]
  BY DEF Pay, Forget, Expire, BatchInv, RowTypes
<1>3. \A r \in Quotes :
        /\ mint[r] # "UNPAID" => mint'[r] = mint[r]
        /\ r \in expired /\ mint[r] # "PAID" => mint'[r] # "PAID"
  BY DEF Pay, Forget, Expire, BatchInv, RowTypes
<1>4. RowTypes' /\ OrderTypes' /\ ClaimTypes' /\ LaneTypes' /\ ChecksTypes'
  BY <1>1, <1>2
     DEF BatchInv, RowTypes, OrderTypes, Unpaid, ClaimTypes, LaneTypes, ChecksTypes
<1>5. ASSUME NEW check \in Check, Evidence(check) PROVE Evidence(check)'
  <2>1. check.quote \in Quotes
    BY DEF Check
  <2>2. QED BY <1>1, <1>3, <1>5, <2>1 DEF Evidence
<1>6. EvidenceInv'
  <2>1. \A i \in DOMAIN checks : checks[i] \in Check
    BY DEF BatchInv, ChecksTypes
  <2>2. QED BY <1>1, <1>5, <2>1 DEF BatchInv, EvidenceInv
<1>7. ClosedRightly'
  BY <1>1, <1>2, <1>3 DEF BatchInv, RowTypes, ClosedRightly
<1>8. QED BY <1>4, <1>6, <1>7 DEF BatchInv

-----------------------------------------------------------------------------
(* The lane. *)

(* A lane begins, ends, or the process starts anew.                        *)
LEMMA LaneBoundaryKeeps ==
  ASSUME BatchInv, BeginLane \/ EndLane \/ Restart
  PROVE  BatchInv'
<1>1. /\ UNCHANGED <<row, polled, mint, expired>>
      /\ taken' \in {taken, {}}
      /\ late' \subseteq late
      /\ at' \in {"idle", "claim"} /\ limit' \in Limits \cup {0}
      /\ claim' = claim \/ claim' = <<>>
      /\ checks' = checks \/ checks' = <<>>
      /\ faults' \in 0..MaxFaults
  BY BatchAssumption DEF BeginLane, EndLane, Restart, Faulty, BatchInv, LaneTypes
<1>2. RowTypes' /\ ClosedRightly'
  BY <1>1 DEF BatchInv, RowTypes, ClosedRightly
<1>3. OrderTypes'
  BY <1>1 DEF BatchInv, OrderTypes, Unpaid
<1>4. ClaimTypes' /\ LaneTypes'
  BY <1>1, NoClaim DEF BatchInv, ClaimTypes, LaneTypes
<1>5. ChecksTypes' /\ EvidenceInv'
  BY <1>1, EvidenceStands DEF BatchInv, EvidenceInv
<1>6. QED BY <1>2, <1>3, <1>4, <1>5 DEF BatchInv

(* A claim takes due quotes, each once, and puts them last.                *)
LEMMA TakeDueKeeps ==
  ASSUME BatchInv, TakeDue
  PROVE  BatchInv'
<1>0. PICK n \in 1..(IF limit = 0 THEN IndividualLimit ELSE limit) :
        \E quotes \in FirstDue(n) :
          /\ claim' = quotes
          /\ taken' = taken \cup Range(quotes)
          /\ polled' = PolledNow(Range(quotes))
  BY DEF TakeDue
<1>1. PICK quotes \in FirstDue(n) :
        /\ claim' = quotes
        /\ taken' = taken \cup Range(quotes)
        /\ polled' = PolledNow(Range(quotes))
  BY <1>0
<1>2. n \in Nat \ {0} /\ (limit = 0 => n <= IndividualLimit)
  BY <1>0, BatchAssumption DEF BatchInv, LaneTypes
<1>3. /\ quotes \in Seq(Quotes) /\ Len(quotes) = n /\ IsInjective(quotes)
      /\ Range(quotes) \subseteq Due
  BY <1>1, <1>2, ClaimIsInjective DEF BatchInv
<1>4. /\ at' = IF limit = 0 THEN "single" ELSE "batch"
      /\ UNCHANGED <<row, mint, expired, limit, late, checks, faults>>
  BY DEF TakeDue
<1>5. RowTypes' /\ ClosedRightly' /\ ChecksTypes' /\ EvidenceInv' /\ LaneTypes'
  BY <1>4
     DEF BatchInv, RowTypes, ClosedRightly, ChecksTypes, EvidenceInv, Evidence, LaneTypes
<1>6. OrderTypes'
  <2>1. Range(quotes) \subseteq Unpaid /\ Unpaid' = Unpaid /\ Unpaid \subseteq Quotes
    BY <1>3, <1>4 DEF Due, Unpaid
  <2>2. /\ polled' \in [Quotes -> 0..Cardinality(Quotes)]
        /\ \A q \in Quotes \ Range(quotes) : polled[q] = 0 => polled'[q] = 0
    BY <1>1, <2>1, PolledNowType DEF BatchInv
  <2>3. QED BY <1>1, <2>1, <2>2 DEF BatchInv, OrderTypes
<1>7. ClaimTypes'
  BY <1>1, <1>2, <1>3, <1>4 DEF ClaimTypes
<1>8. QED BY <1>5, <1>6, <1>7 DEF BatchInv

(* A request starts, or there is nothing left to ask.                      *)
LEMMA StartKeeps ==
  ASSUME BatchInv, StartBatch \/ StartSingle
  PROVE  BatchInv'
<1>1. /\ UNCHANGED <<row, polled, mint, expired, limit, taken, faults>>
      /\ \/ UNCHANGED <<claim, checks>>
         \/ claim' = <<>> /\ checks' = <<>>
      /\ late' \subseteq expired
      /\ at' \in {"claim", "batchSent"} \/ (at' = "singleSent" /\ at = "single" /\ claim' # <<>>)
  BY DEF StartBatch, StartSingle, ClaimDone
<1>2. RowTypes' /\ OrderTypes' /\ ClosedRightly'
  BY <1>1 DEF BatchInv, RowTypes, OrderTypes, Unpaid, ClosedRightly
<1>3. LaneTypes'
  BY <1>1 DEF BatchInv, RowTypes, LaneTypes
<1>4. ClaimTypes'
  BY <1>1, NoClaim DEF BatchInv, ClaimTypes
<1>5. ChecksTypes' /\ EvidenceInv'
  BY <1>1, EvidenceStands DEF BatchInv
<1>6. QED BY <1>2, <1>3, <1>4, <1>5 DEF BatchInv

(* A batch answer counts as a whole or not at all.                         *)
LEMMA BatchAnswerKeeps ==
  ASSUME BatchInv, BatchAnswer
  PROVE  BatchInv'
<1>1. /\ UNCHANGED <<row, polled, mint, expired, limit, taken, faults>>
      /\ late' = {}
      /\ \/ /\ checks' = [i \in DOMAIN claim |-> Checked(claim[i], claim[i])]
            /\ at' = "forward" /\ claim' = <<>>
         \/ /\ claim' = Fallback /\ at' = "single"
            /\ UNCHANGED checks
  BY DEF BatchAnswer, Usable
<1>2. RowTypes' /\ OrderTypes' /\ ClosedRightly' /\ LaneTypes'
  BY <1>1 DEF BatchInv, RowTypes, OrderTypes, Unpaid, ClosedRightly, LaneTypes
<1>3. ClaimTypes'
  <2>1. Len(<<>>) <= IndividualLimit
    BY BatchAssumption
  <2>2. QED BY <1>1, <2>1, NoClaim, FallbackOfClaim DEF BatchInv, ClaimTypes
<1>4. ChecksTypes' /\ EvidenceInv'
  <2>1. CASE checks' = [i \in DOMAIN claim |-> Checked(claim[i], claim[i])]
    <3>1. \A i \in 1..Len(claim) : claim[i] \in Quotes
      BY DEF BatchInv, ClaimTypes
    <3>2. \A i \in 1..Len(claim) :
            Checked(claim[i], claim[i]) \in Check /\ Evidence(Checked(claim[i], claim[i]))
      BY <3>1, CheckedHasEvidence DEF BatchInv
    <3>3. DOMAIN claim = 1..Len(claim) /\ Len(claim) \in Nat
      BY DEF BatchInv, ClaimTypes
    <3>4. checks' \in [1..Len(claim) -> Check]
      BY <2>1, <3>2, <3>3
    <3>5. checks' \in Seq(Check) /\ DOMAIN checks' = 1..Len(claim)
      BY <3>3, <3>4
    <3>6. \A i \in DOMAIN checks' : Evidence(checks'[i])
      BY <2>1, <3>2, <3>3, <3>5
    <3>7. QED BY <1>1, <3>5, <3>6 DEF ChecksTypes, EvidenceInv, Evidence
  <2>2. CASE UNCHANGED checks
    BY <1>1, <2>2, EvidenceStands DEF BatchInv
  <2>3. QED BY <1>1, <2>1, <2>2
<1>5. QED BY <1>2, <1>3, <1>4 DEF BatchInv

(* An individual request is answered.                                      *)
LEMMA SingleAnswerKeeps ==
  ASSUME BatchInv, SingleAnswer
  PROVE  BatchInv'
<1>1. /\ UNCHANGED <<row, polled, mint, expired, limit, taken, faults>>
      /\ at = "singleSent" /\ claim' = Tail(claim) /\ late' = {}
      /\ \/ at' = "single" /\ UNCHANGED checks
         \/ at' = "forward" /\ checks' = <<Checked(Head(claim), Head(claim))>>
  BY DEF SingleAnswer
<1>2. RowTypes' /\ OrderTypes' /\ ClosedRightly' /\ LaneTypes'
  BY <1>1 DEF BatchInv, RowTypes, OrderTypes, Unpaid, ClosedRightly, LaneTypes
<1>3. /\ Tail(claim) \in Seq(Quotes) /\ IsInjective(Tail(claim))
      /\ Len(Tail(claim)) = Len(claim) - 1 /\ Head(claim) \in Quotes
  BY <1>1, TailOfClaim DEF BatchInv, ClaimTypes
<1>4. ClaimTypes'
  <2>1. Len(claim) \in Nat /\ Len(claim) <= IndividualLimit /\ IndividualLimit \in Nat
    BY <1>1, BatchAssumption DEF BatchInv, ClaimTypes
  <2>2. QED BY <1>1, <1>3, <2>1 DEF ClaimTypes
<1>5. ChecksTypes' /\ EvidenceInv'
  <2>1. CASE checks' = <<Checked(Head(claim), Head(claim))>>
    <3>1. /\ Checked(Head(claim), Head(claim)) \in Check
          /\ Evidence(Checked(Head(claim), Head(claim)))
      BY <1>3, CheckedHasEvidence DEF BatchInv
    <3>2. checks' \in Seq(Check) /\ \A i \in DOMAIN checks' : Evidence(checks'[i])
      BY <2>1, <3>1
    <3>3. QED BY <1>1, <3>2 DEF ChecksTypes, EvidenceInv, Evidence
  <2>2. CASE UNCHANGED checks
    BY <1>1, <2>2, EvidenceStands DEF BatchInv
  <2>3. QED BY <1>1, <2>1, <2>2
<1>6. QED BY <1>2, <1>4, <1>5 DEF BatchInv

(* The mint does not answer.                                               *)
LEMMA UnavailableKeeps ==
  ASSUME BatchInv, Unavailable
  PROVE  BatchInv'
<1>1. /\ UNCHANGED <<row, polled, mint, expired, limit, taken>>
      /\ late' = {} /\ faults' \in 0..MaxFaults
      /\ \/ at' = "claim" /\ claim' = <<>> /\ checks' = <<>>
         \/ at = "singleSent" /\ at' = "single" /\ claim' = Tail(claim) /\ checks' = checks
  BY BatchAssumption DEF Unavailable, Faulty, ClaimDone, BatchInv, LaneTypes
<1>2. RowTypes' /\ OrderTypes' /\ ClosedRightly' /\ LaneTypes'
  BY <1>1 DEF BatchInv, RowTypes, OrderTypes, Unpaid, ClosedRightly, LaneTypes
<1>3. ClaimTypes'
  <2>1. CASE claim' = <<>> /\ at' = "claim"
    BY <2>1, NoClaim DEF ClaimTypes
  <2>2. CASE at = "singleSent" /\ at' = "single" /\ claim' = Tail(claim)
    <3>1. /\ Tail(claim) \in Seq(Quotes) /\ IsInjective(Tail(claim))
          /\ Len(Tail(claim)) = Len(claim) - 1
      BY <2>2, TailOfClaim DEF BatchInv, ClaimTypes
    <3>2. Len(claim) \in Nat /\ Len(claim) <= IndividualLimit /\ IndividualLimit \in Nat
      BY <2>2, BatchAssumption DEF BatchInv, ClaimTypes
    <3>3. QED BY <2>2, <3>1, <3>2 DEF ClaimTypes
  <2>3. QED BY <1>1, <2>1, <2>2
<1>4. ChecksTypes' /\ EvidenceInv'
  <2>1. checks' = checks \/ checks' = <<>>
    BY <1>1
  <2>2. QED BY <1>1, <2>1, EvidenceStands DEF BatchInv
<1>5. QED BY <1>2, <1>3, <1>4 DEF BatchInv

(* A result closes its quote, leaves it open, or is lost.                  *)
LEMMA ForwardKeeps ==
  ASSUME BatchInv, Forward
  PROVE  BatchInv'
<1>1. at = "forward" /\ UNCHANGED <<mint, expired, limit, claim, late>>
  BY DEF Forward
<1>2. CASE checks = <<>>
  <2>1. at' = "single" /\ UNCHANGED <<row, polled, taken, checks, faults>>
    BY <1>2 DEF Forward
  <2>2. RowTypes' /\ OrderTypes' /\ ClosedRightly' /\ LaneTypes'
    BY <1>1, <2>1 DEF BatchInv, RowTypes, OrderTypes, Unpaid, ClosedRightly, LaneTypes
  <2>3. ClaimTypes' /\ ChecksTypes' /\ EvidenceInv'
    BY <1>1, <2>1 DEF BatchInv, ClaimTypes, ChecksTypes, EvidenceInv, Evidence
  <2>4. QED BY <2>2, <2>3 DEF BatchInv
<1>3. CASE checks # <<>>
  <2> DEFINE check == Head(checks)
             q == check.quote
  <2>1. /\ check \in Check /\ Evidence(check)
        /\ Tail(checks) \in Seq(Check)
        /\ \A i \in DOMAIN Tail(checks) : Evidence(Tail(checks)[i])
    <3>1. checks \in Seq(Check) /\ \A i \in 1..Len(checks) : Evidence(checks[i])
      BY DEF BatchInv, ChecksTypes, EvidenceInv
    <3>2. check = checks[1] /\ 1 \in 1..Len(checks) /\ check \in Check
      BY <1>3, <3>1
    <3>3. \A i \in 1..Len(Tail(checks)) : Tail(checks)[i] = checks[i + 1] /\ i + 1 \in 1..Len(checks)
      BY <1>3, <3>1
    <3>4. Tail(checks) \in Seq(Check) /\ DOMAIN Tail(checks) = 1..Len(Tail(checks))
      BY <1>3, <3>1
    <3>5. QED BY <3>1, <3>2, <3>3, <3>4
  <2>2. q \in Quotes
    BY <2>1 DEF Check
  <2>3. /\ checks' = Tail(checks) /\ at' = at
        /\ \/ /\ row' = [row EXCEPT ![q] = IF @ = "UNPAID" THEN Observed(check) ELSE @]
              /\ IF row'[q] = "UNPAID"
                   THEN UNCHANGED <<polled, taken>>
                   ELSE polled' = Ranked([polled EXCEPT ![q] = 0]) /\ taken' = taken \ {q}
              /\ UNCHANGED faults
           \/ Faulty /\ UNCHANGED <<row, polled, taken>>
    BY <1>3 DEF Forward
  <2>4. ClaimTypes' /\ ChecksTypes' /\ EvidenceInv'
    BY <1>1, <2>1, <2>3 DEF BatchInv, ClaimTypes, ChecksTypes, EvidenceInv, Evidence
  <2>5. LaneTypes'
    BY <1>1, <2>3, BatchAssumption DEF BatchInv, LaneTypes, Faulty
  <2> HIDE DEF q, check
  <2>6. CASE UNCHANGED <<row, polled, taken>>
    <3>1. RowTypes' /\ OrderTypes' /\ ClosedRightly'
      BY <1>1, <2>6 DEF BatchInv, RowTypes, OrderTypes, Unpaid, ClosedRightly
    <3>2. QED BY <2>4, <2>5, <3>1 DEF BatchInv
  <2>7. CASE /\ row' = [row EXCEPT ![q] = IF @ = "UNPAID" THEN Observed(check) ELSE @]
             /\ IF row'[q] = "UNPAID"
                  THEN UNCHANGED <<polled, taken>>
                  ELSE polled' = Ranked([polled EXCEPT ![q] = 0]) /\ taken' = taken \ {q}
    <3>1. Observed(check) \in {"UNPAID", "PAID", "EXPIRED"}
      BY DEF Observed
    <3>2. RowTypes'
      BY <1>1, <2>7, <3>1 DEF BatchInv, RowTypes
    <3>3. /\ row'[q] = IF row[q] = "UNPAID" THEN Observed(check) ELSE row[q]
          /\ \A r \in Quotes \ {q} : row'[r] = row[r]
      BY <2>2, <2>7 DEF BatchInv, RowTypes
    <3>4. OrderTypes'
      <4>1. CASE row'[q] = "UNPAID"
        <5>1. Unpaid \subseteq Unpaid' /\ UNCHANGED <<polled, taken>>
          BY <2>7, <3>3, <4>1 DEF Unpaid
        <5>2. QED BY <5>1 DEF BatchInv, OrderTypes
      <4>2. CASE row'[q] # "UNPAID"
        <5>1. Unpaid \ {q} \subseteq Unpaid'
          BY <3>3 DEF Unpaid
        <5>2. polled' = Ranked([polled EXCEPT ![q] = 0]) /\ taken' = taken \ {q}
          BY <2>7, <4>2
        <5>3. /\ polled' \in [Quotes -> 0..Cardinality(Quotes)]
              /\ polled'[q] = 0 /\ \A r \in Quotes : polled[r] = 0 => polled'[r] = 0
          BY <2>2, <5>2, ForgottenType DEF BatchInv
        <5>4. QED BY <5>1, <5>2, <5>3 DEF BatchInv, OrderTypes
      <4>3. QED BY <4>1, <4>2
    <3>5. ClosedRightly'
      <4>1. /\ Observed(check) = "PAID" => mint[q] = "PAID"
            /\ Observed(check) = "EXPIRED" =>
                 mint[q] = "forgotten" \/ (mint[q] = "UNPAID" /\ q \in expired)
        <5>1. /\ check.payload = q /\ check.seen \in {"UNPAID", "PAID", "forgotten"}
              /\ mint[q] \in {"UNPAID", "PAID", "forgotten"}
          BY <2>1, <2>2 DEF Check, Evidence, BatchInv, RowTypes, q
        <5>2. /\ check.seen = "PAID" => mint[q] = "PAID"
              /\ check.seen = "forgotten" => mint[q] = "forgotten"
              /\ check.seen = "UNPAID" /\ check.late => q \in expired /\ mint[q] # "PAID"
          BY <2>1 DEF Evidence, q
        <5>3. QED BY <5>1, <5>2 DEF Observed, q
      <4>2. QED BY <1>1, <3>3, <4>1 DEF BatchInv, ClosedRightly
    <3>6. QED BY <2>4, <2>5, <3>2, <3>4, <3>5 DEF BatchInv
  <2>8. QED BY <2>3, <2>6, <2>7 DEF q, check
<1>4. QED BY <1>2, <1>3

-----------------------------------------------------------------------------
(* No quote exists, and no lane runs.                                      *)
LEMMA InitBatch == Init => BatchInv
<1> HAVE Init
<1>1. 0 \in 0..Cardinality(Quotes)
  BY BatchAssumption, FS_CardinalityType
<1>2. RowTypes /\ OrderTypes /\ ClosedRightly
  BY <1>1 DEF Init, RowTypes, OrderTypes, ClosedRightly
<1>3. ClaimTypes
  BY NoClaim DEF Init, ClaimTypes
<1>4. LaneTypes /\ ChecksTypes /\ EvidenceInv
  BY BatchAssumption DEF Init, LaneTypes, ChecksTypes, EvidenceInv
<1>5. QED BY <1>2, <1>3, <1>4 DEF BatchInv

(* BatchInv carries the theorem below: what the mint said of a quote is    *)
(* kept with the quote and with the start of the request it answered.      *)
THEOREM BatchInvariant == Spec => []BatchInv
<1>1. BatchInv /\ [Next]_vars => BatchInv'
  <2>1. ASSUME BatchInv, UNCHANGED vars PROVE BatchInv'
    BY <2>1
       DEF vars, lane, BatchInv, RowTypes, OrderTypes, Unpaid, ClaimTypes, LaneTypes, ChecksTypes,
           EvidenceInv, Evidence, ClosedRightly
  <2>2. QED
    BY <2>1, NewQuoteKeeps, MintKeeps, LaneBoundaryKeeps, TakeDueKeeps, StartKeeps,
       BatchAnswerKeeps, SingleAnswerKeeps, UnavailableKeeps, ForwardKeeps
       DEF Next, LaneStep
<1>2. QED BY <1>1, InitBatch, PTL DEF Spec

(* A quote is closed rightly, whatever a batch or an individual answer     *)
(* says, in whichever order, and however long it takes to be forwarded.    *)
THEOREM QuotesCloseRightly == Spec => []LaneInv
<1>1. BatchInv => LaneInv
  BY TypeParts DEF BatchInv, LaneInv
<1>2. QED BY <1>1, BatchInvariant, PTL

(* A lane never stalls for want of a claim: as long as a quote is due,     *)
(* whatever was polled, closed or inserted in whichever order, the claim   *)
(* with LIMIT 1 finds one.                                                 *)
THEOREM DueCanBeClaimed == Spec => [](Due # {} => FirstDue(1) # {})
<1>1. BatchInv => (Due # {} => FirstDue(1) # {})
  BY FirstExists DEF BatchInv
<1>2. QED BY <1>1, BatchInvariant, PTL
=============================================================================
