--------------------- MODULE QuoteReconciliation_proofs ---------------------
(***************************************************************************)
(* Proofs about QuoteReconciliation, for every number of quotes and        *)
(* overlapping observations, every bound and every clock skew.             *)
(***************************************************************************)
EXTENDS QuoteReconciliation, TLAPS

USE BoundsAssumption

-----------------------------------------------------------------------------
(* Type correctness                                                        *)

(* The stages of an observation are tasks, and a task is in one stage.     *)
LEMMA TaskStages ==
  /\ Idle \in Task /\ Claimed \in Task
  /\ \A t \in Time : Requested(t) \in Task
  /\ \A q \in Quotes, r \in Found \cup {"not_found"}, t \in Time : Observed(q, r, t) \in Task
  /\ \A s \in Changes, t \in Time : Decided(s, t) \in Task
  /\ \A s \in Changes : Committed(s) \in Task
BY DEF Task, Idle, Claimed, Requested, Observed, Decided, Committed

(* What is known of a task from the stage it is in.                        *)
LEMMA TaskFields ==
  ASSUME NEW t \in Task
  PROVE  /\ t.at = "requested" => t.startedAt \in Time
         /\ t.at = "observed" => /\ t.subject \in Quotes
                                 /\ t.result \in Found \cup {"not_found"}
                                 /\ t.startedAt \in Time
         /\ t.at = "decided" => t.to \in Changes /\ t.paidAt \in Time
         /\ t.at = "committed" => t.to \in Changes
BY DEF Task, Idle, Claimed

(* Replacing one observation keeps the table of observations well typed.   *)
LEMMA SetTaskType ==
  ASSUME TypeOK, NEW q \in Quotes, NEW c \in Channels, NEW t \in Task, SetTask(q, c, t)
  PROVE  task' \in [Quotes -> [Channels -> Task]]
BY DEF TypeOK, SetTask

LEMMA TypeInit == Init => TypeOK
BY TaskStages DEF Init, TypeOK, MintState, LnurlStep, RowState, Time

LEMMA TypeStep == TypeOK /\ [Next]_vars => TypeOK'
<1> SUFFICES ASSUME TypeOK, [Next]_vars PROVE TypeOK'
  OBVIOUS
<1> USE DEF Channels
<1>1. ASSUME NEW q \in Quotes, Lnurl(q) PROVE TypeOK'
  <2>1. CASE CreateMintQuote(q)
    <3>1. /\ lnurl' \in [Quotes -> LnurlStep]
          /\ mintState' \in [Quotes -> MintState]
          /\ expiresAt' \in [Quotes -> Nat]
      BY <2>1 DEF CreateMintQuote, TypeOK, LnurlStep, MintState, Time
    <3>2. QED BY <2>1, <3>1 DEF CreateMintQuote, TypeOK
  <2>2. CASE PersistQuote(q)
    <3>1. row' \in [Quotes -> [state : RowState, paidAt : Time \cup {NoTime}]]
      BY <2>2 DEF PersistQuote, TypeOK, RowState
    <3>2. QED BY <2>2, <3>1 DEF PersistQuote, TypeOK, LnurlStep
  <2>3. CASE AnswerLnurl(q)
    BY <2>3 DEF AnswerLnurl, TypeOK, LnurlStep
  <2>4. CASE PersistFails(q)
    <3>1. faults' \in 0..MaxFaults
      BY <2>4 DEF PersistFails, TypeOK
    <3>2. QED BY <2>4, <3>1 DEF PersistFails, TypeOK, LnurlStep
  <2>5. QED BY <1>1, <2>1, <2>2, <2>3, <2>4 DEF Lnurl
<1>2. ASSUME NEW q \in Quotes, Mint(q) PROVE TypeOK'
  BY <1>2 DEF Mint, StartPayment, FinishPayment, Issue, Forget, MintMoves, TypeOK, MintState
<1>3. ASSUME NEW q \in Quotes, NEW c \in Channels,
             TakeDue(q, c) \/ SocketMessage(q, c) \/ Proceed(q, c)
               \/ MintMisanswers(q, c) \/ ObservationFails(q, c)
      PROVE  TypeOK'
  <2>1. CASE TakeDue(q, c)
    BY <2>1, TaskStages, SetTaskType DEF TakeDue, TypeOK
  <2>2. CASE SocketMessage(q, c)
    <3>1. Observed(q, mintState[q], now) \in Task
      BY <2>2, TaskStages DEF SocketMessage, TypeOK
    <3>2. QED BY <2>2, <3>1, SetTaskType DEF SocketMessage, TypeOK
  <2>3. CASE StartRequest(q, c)
    <3>1. Requested(now) \in Task
      BY TaskStages DEF TypeOK
    <3>2. QED BY <2>3, <3>1, SetTaskType DEF StartRequest, TypeOK
  <2>4. CASE MintAnswers(q, c)
    <3>1. task[q][c] \in Task
      BY DEF TypeOK
    <3>2. task[q][c].startedAt \in Time
      BY <2>4, <3>1, TaskFields DEF MintAnswers
    <3>3. PICK t \in Task : SetTask(q, c, t)
      BY <2>4, <3>2, TaskStages DEF MintAnswers
    <3>4. QED BY <2>4, <3>3, SetTaskType DEF MintAnswers, TypeOK
  <2>5. CASE MintMisanswers(q, c)
    <3>1. task[q][c] \in Task
      BY DEF TypeOK
    <3>2. task[q][c].startedAt \in Time
      BY <2>5, <3>1, TaskFields DEF MintMisanswers
    <3>3. PICK subject \in Quotes :
            /\ mintState[subject] \in Found
            /\ SetTask(q, c, Observed(subject, mintState[subject], task[q][c].startedAt))
      BY <2>5 DEF MintMisanswers
    <3>4. task' \in [Quotes -> [Channels -> Task]]
      BY <3>2, <3>3, TaskStages, SetTaskType
    <3>5. faults' \in 0..MaxFaults
      BY <2>5 DEF MintMisanswers, TypeOK
    <3>6. QED BY <2>5, <3>4, <3>5 DEF MintMisanswers, TypeOK
  <2>6. CASE LoadQuote(q, c)
    <3>1. \A to \in Target(q, c) : to \in Changes
      BY DEF Target
    <3>2. PICK t \in Task : SetTask(q, c, t)
      BY <2>6, <3>1, TaskStages DEF LoadQuote, TypeOK
    <3>3. QED BY <2>6, <3>2, SetTaskType DEF LoadQuote, TypeOK
  <2>7. CASE TransitionState(q, c)
    <3>1. task[q][c].to \in Changes /\ task[q][c].paidAt \in Time
      BY <2>7, TaskFields DEF TransitionState, TypeOK
    <3>2. SetTask(q, c, Idle) \/ SetTask(q, c, Committed(task[q][c].to))
      BY <2>7 DEF TransitionState
    <3>3. task' \in [Quotes -> [Channels -> Task]]
      BY <3>1, <3>2, TaskStages, SetTaskType
    <3>4. row' \in [Quotes -> [state : RowState, paidAt : Time \cup {NoTime}]]
      <4> DEFINE to == task[q][c].to
                 at == PaidAt(to, row[q].paidAt, task[q][c].paidAt)
      <4>1. at \in Time \cup {NoTime}
        BY <3>1 DEF PaidAt, TypeOK
      <4>2. row' = row \/ row' = [row EXCEPT ![q] = [state |-> to, paidAt |-> at]]
        BY <2>7 DEF TransitionState
      <4>3. [state |-> to, paidAt |-> at] \in [state : RowState, paidAt : Time \cup {NoTime}]
        BY <3>1, <4>1 DEF RowState
      <4> HIDE DEF to, at
      <4>4. QED BY <4>2, <4>3 DEF TypeOK
    <3>5. QED BY <2>7, <3>3, <3>4 DEF TransitionState, TypeOK
  <2>8. CASE EmitStateChanged(q, c)
    <3>1. task[q][c].to \in Changes
      BY <2>8, TaskFields DEF EmitStateChanged, TypeOK
    <3>2. emitted' \in [Quotes -> [Changes -> Nat]]
      BY <2>8, <3>1 DEF EmitStateChanged, TypeOK
    <3>3. QED BY <2>8, <3>2, TaskStages, SetTaskType DEF EmitStateChanged, TypeOK
  <2>9. CASE ObservationFails(q, c)
    <3>1. faults' \in 0..MaxFaults
      BY <2>9 DEF ObservationFails, TypeOK
    <3>2. QED BY <2>9, <3>1, TaskStages, SetTaskType DEF ObservationFails, TypeOK
  <2>10. QED BY <1>3, <2>1, <2>2, <2>3, <2>4, <2>5, <2>6, <2>7, <2>8, <2>9 DEF Proceed
<1>4. CASE Tick
  <2>1. now' \in Time
    BY <1>4 DEF Tick, TypeOK, Time
  <2>2. QED BY <1>4, <2>1 DEF Tick, TypeOK
<1>5. CASE Crash
  <2>1. faults' \in 0..MaxFaults
    BY <1>5 DEF Crash, TypeOK
  <2>2. task' \in [Quotes -> [Channels -> Task]]
    BY <1>5, TaskStages DEF Crash
  <2>3. lnurl' \in [Quotes -> LnurlStep]
    BY <1>5 DEF Crash, TypeOK, LnurlStep
  <2>4. QED BY <1>5, <2>1, <2>2, <2>3 DEF Crash, TypeOK
<1>6. CASE UNCHANGED vars
  BY <1>6 DEF vars, TypeOK
<1>7. QED BY <1>1, <1>2, <1>3, <1>4, <1>5, <1>6 DEF Next

(* Every variable keeps its type, the clock and the fault count their      *)
(* bounds, and every observation is in exactly one stage of the handler.   *)
THEOREM TypeCorrect == Spec => []TypeOK
BY TypeInit, TypeStep, PTL DEF Spec

-----------------------------------------------------------------------------
(* Safety                                                                  *)

(* Replacing one observation leaves all the others as they were.           *)
LEMMA SetTaskEffect ==
  ASSUME TypeOK, NEW q \in Quotes, NEW c \in Channels, NEW t, SetTask(q, c, t)
  PROVE  /\ task'[q][c] = t
         /\ \A p \in Quotes, d \in Channels :
              p # q \/ d # c => task'[p][d] = task[p][d]
BY DEF TypeOK, SetTask

(* A settled or forgotten quote stays so at its mint.                      *)
LEMMA MintIsMonotone ==
  ASSUME TypeOK, CreationInv, [Next]_vars, NEW q \in Quotes
  PROVE  /\ Settled(mintState[q]) => Settled(mintState'[q])
         /\ mintState[q] = "gone" => mintState'[q] = "gone"
<1>1. ASSUME NEW p \in Quotes, Lnurl(p)
      PROVE  mintState'[q] = mintState[q] \/ mintState[q] = "none"
  BY <1>1 DEF Lnurl, CreateMintQuote, PersistQuote, AnswerLnurl, PersistFails,
              TypeOK, CreationInv
<1>2. ASSUME NEW p \in Quotes, Mint(p)
      PROVE  \/ mintState'[q] = mintState[q]
             \/ mintState[q] \in {"UNPAID", "PENDING"}
             \/ mintState[q] = "PAID" /\ mintState'[q] = "ISSUED"
  BY <1>2 DEF Mint, StartPayment, Payable, FinishPayment, Issue, Forget, MintMoves, TypeOK
<1>3. ASSUME NEW p \in Quotes, NEW c \in Channels,
             TakeDue(p, c) \/ SocketMessage(p, c) \/ Proceed(p, c)
               \/ MintMisanswers(p, c) \/ ObservationFails(p, c)
      PROVE  mintState' = mintState
  BY <1>3 DEF TakeDue, SocketMessage, Proceed, StartRequest, MintAnswers, MintMisanswers,
              LoadQuote, TransitionState, EmitStateChanged, ObservationFails
<1>4. Tick \/ Crash \/ UNCHANGED vars => mintState' = mintState
  BY DEF Tick, Crash, vars
<1>5. QED BY <1>1, <1>2, <1>3, <1>4 DEF Next, Settled

LEMMA SafetyInit == Init => SafetyInv
<1>1. Init => CreationInv
  <2> SUFFICES ASSUME Init, NEW q \in Quotes
               PROVE  lnurl[q] = "idle" /\ mintState[q] = "none" /\ row[q].state = "absent"
    BY DEF CreationInv
  <2>1. lnurl[q] = "idle" /\ mintState[q] = "none"
    BY DEF Init
  <2>2. row[q] = [state |-> "absent", paidAt |-> NoTime]
    BY DEF Init
  <2>3. QED BY <2>1, <2>2
<1>2. Init => EvidenceInv
  BY DEF Init, EvidenceInv, Idle
<1>3. Init => SettledOnlyIfPaid /\ PaymentTimeRecorded
  BY DEF Init, SettledOnlyIfPaid, PaymentTimeRecorded, Settled
<1>4. QED BY <1>1, <1>2, <1>3, TypeInit DEF SafetyInv

(* What one step of an observation may do to the rest of the state.        *)
LEMMA ObservationFrame ==
  ASSUME NEW q \in Quotes, NEW c \in Channels,
         TakeDue(q, c) \/ SocketMessage(q, c) \/ Proceed(q, c)
           \/ MintMisanswers(q, c) \/ ObservationFails(q, c)
  PROVE  /\ UNCHANGED <<now, mintState, expiresAt, lnurl>>
         /\ row' # row => TransitionState(q, c)
         /\ emitted' # emitted => EmitStateChanged(q, c)
BY DEF TakeDue, SocketMessage, Proceed, StartRequest, MintAnswers, MintMisanswers,
       LoadQuote, TransitionState, EmitStateChanged, ObservationFails

(* An observation moves from one stage to the next with true evidence.     *)
LEMMA EvidenceOfTask ==
  ASSUME SafetyInv, NEW q \in Quotes, NEW c \in Channels,
         TakeDue(q, c) \/ SocketMessage(q, c) \/ Proceed(q, c)
           \/ MintMisanswers(q, c) \/ ObservationFails(q, c)
  PROVE  EvidenceInv'
<1> USE DEF SafetyInv
<1> SUFFICES ASSUME NEW t, SetTask(q, c, t),
                    /\ t.at \in {"requested", "observed"} => t.startedAt <= now
                    /\ t.at = "observed" =>
                         /\ Settled(t.result) => Settled(mintState[t.subject])
                         /\ t.result = "not_found" => mintState[q] = "gone"
                    /\ t.at = "decided" =>
                         /\ Settled(t.to) => Settled(mintState[q])
                         /\ t.paidAt <= now
             PROVE  EvidenceInv'
  <2>1. now \in Nat
    BY DEF TypeOK, Time
  <2>2. CASE TakeDue(q, c)
    BY <2>2 DEF TakeDue, Claimed
  <2>3. CASE SocketMessage(q, c)
    BY <2>1, <2>3 DEF SocketMessage, Observed, Found
  <2>4. CASE StartRequest(q, c)
    BY <2>1, <2>4 DEF StartRequest, Requested
  <2>5. CASE MintAnswers(q, c)
    BY <2>5 DEF MintAnswers, Observed, Found, EvidenceInv, Settled
  <2>6. CASE MintMisanswers(q, c)
    BY <2>6 DEF MintMisanswers, Observed, Found, EvidenceInv
  <2>7. CASE LoadQuote(q, c)
    <3>1. CASE SetTask(q, c, Idle)
      BY <3>1 DEF Idle
    <3>2. ASSUME NEW to \in Target(q, c), SetTask(q, c, Decided(to, now))
          PROVE  EvidenceInv'
      <4>1. Settled(to) => Settled(mintState[q])
        BY <2>7 DEF LoadQuote, Target, EvidenceInv, Settled
      <4>2. QED BY <2>1, <3>2, <4>1 DEF Decided
    <3>3. QED BY <2>7, <3>1, <3>2 DEF LoadQuote
  <2>8. CASE TransitionState(q, c)
    BY <2>8 DEF TransitionState, Idle, Committed
  <2>9. CASE EmitStateChanged(q, c)
    BY <2>9 DEF EmitStateChanged, Idle
  <2>10. CASE ObservationFails(q, c)
    BY <2>10 DEF ObservationFails, Idle
  <2>11. QED
    BY <2>2, <2>3, <2>4, <2>5, <2>6, <2>7, <2>8, <2>9, <2>10 DEF Proceed
<1>1. now' = now /\ mintState' = mintState
  BY ObservationFrame
<1>2. QED BY <1>1, SetTaskEffect DEF EvidenceInv

(* The conditional UPDATE either changes this row, to the target and from  *)
(* one of its sources, or changes nothing.                                 *)
LEMMA TransitionEffect ==
  ASSUME TypeOK, NEW q \in Quotes, NEW c \in Channels, TransitionState(q, c)
  PROVE  LET to == task[q][c].to IN
         /\ to \in Changes
         /\ \/ row' = row /\ SetTask(q, c, Idle)
            \/ /\ row[q].state \in Sources[to]
               /\ row'[q].state = to
               /\ \A p \in Quotes : p # q => row'[p] = row[p]
               /\ SetTask(q, c, Committed(to))
<1> DEFINE to == task[q][c].to
           r == [state |-> to, paidAt |-> PaidAt(to, row[q].paidAt, task[q][c].paidAt)]
<1>1. to \in Changes
  BY TaskFields DEF TransitionState, TypeOK
<1>2. \/ row' = row /\ SetTask(q, c, Idle)
      \/ /\ row[q].state \in Sources[to]
         /\ row' = [row EXCEPT ![q] = r]
         /\ SetTask(q, c, Committed(to))
  BY DEF TransitionState
<1>3. r.state = to
  OBVIOUS
<1> HIDE DEF r
<1>4. row' = [row EXCEPT ![q] = r] =>
        row'[q].state = to /\ \A p \in Quotes : p # q => row'[p] = row[p]
  BY <1>3 DEF TypeOK
<1>5. QED BY <1>1, <1>2, <1>4

(* A committed transition rests on its evidence and records its time.      *)
LEMMA TransitionIsSafe ==
  ASSUME SafetyInv, NEW q \in Quotes, NEW c \in Channels, TransitionState(q, c)
  PROVE  SettledOnlyIfPaid' /\ PaymentTimeRecorded'
<1> USE DEF SafetyInv
<1> DEFINE to == task[q][c].to
           at == PaidAt(to, row[q].paidAt, task[q][c].paidAt)
<1>1. to \in Changes /\ task[q][c].paidAt \in Time
  BY TaskFields DEF TransitionState, TypeOK
<1>2. /\ Settled(to) => Settled(mintState[q])
      /\ task[q][c].paidAt \in 0..now
  BY <1>1 DEF TransitionState, EvidenceInv, TypeOK, Time
<1>3. UNCHANGED <<now, mintState>>
  BY DEF TransitionState
<1>4. CASE row' = row
  BY <1>3, <1>4 DEF SettledOnlyIfPaid, PaymentTimeRecorded
<1>5. CASE /\ row[q].state \in Sources[to]
           /\ row' = [row EXCEPT ![q] = [state |-> to, paidAt |-> at]]
  <2>1. row'[q].state = to /\ row'[q].paidAt = at
    BY <1>5 DEF TypeOK
  <2>2. \A p \in Quotes \ {q} : row'[p] = row[p]
    BY <1>5 DEF TypeOK
  <2>3. SettledOnlyIfPaid'
    BY <1>2, <1>3, <2>1, <2>2 DEF SettledOnlyIfPaid
  <2>4. IF Settled(to) THEN at \in 0..now ELSE at = NoTime
    <3>1. CASE Settled(row[q].state)
      <4>1. Settled(to) /\ row[q].paidAt \in 0..now
        BY <1>1, <1>5, <3>1 DEF Sources, Changes, Settled, PaymentTimeRecorded
      <4>2. QED BY <4>1 DEF PaidAt
    <3>2. CASE ~Settled(row[q].state)
      <4>1. row[q].paidAt = NoTime
        BY <3>2 DEF PaymentTimeRecorded
      <4>2. QED BY <1>2, <4>1 DEF PaidAt
    <3>3. QED BY <3>1, <3>2
  <2>5. PaymentTimeRecorded'
    BY <1>3, <2>1, <2>2, <2>4 DEF PaymentTimeRecorded
  <2>6. QED BY <2>3, <2>5
<1>6. QED BY <1>4, <1>5 DEF TransitionState

LEMMA SafetyStep == SafetyInv /\ [Next]_vars => SafetyInv'
<1> SUFFICES ASSUME SafetyInv, [Next]_vars PROVE SafetyInv'
  OBVIOUS
<1> USE DEF SafetyInv
<1>1. TypeOK'
  BY TypeStep
<1>2. \A q \in Quotes : Settled(mintState[q]) => Settled(mintState'[q])
  BY MintIsMonotone
<1>3. \A q \in Quotes : mintState[q] = "gone" => mintState'[q] = "gone"
  BY MintIsMonotone
<1>4. ASSUME NEW q \in Quotes, Lnurl(q) PROVE SafetyInv'
  <2>1. UNCHANGED <<now, task>>
    BY <1>4 DEF Lnurl, CreateMintQuote, PersistQuote, AnswerLnurl, PersistFails
  <2>2. \A p \in Quotes :
          row'[p] = row[p] \/ row'[p] = [state |-> "UNPAID", paidAt |-> NoTime]
    <3>1. CASE PersistQuote(q)
      <4>1. ~Settled(row[q].state)
        BY <3>1 DEF PersistQuote, CreationInv, SettledOnlyIfPaid, Settled, TypeOK
      <4>2. row[q].paidAt = NoTime
        BY <4>1 DEF PaymentTimeRecorded
      <4>3. QED BY <3>1, <4>2 DEF PersistQuote, TypeOK
    <3>2. CASE row' = row
      BY <3>2
    <3>3. QED BY <1>4, <3>1, <3>2 DEF Lnurl, CreateMintQuote, AnswerLnurl, PersistFails
  <2>3. EvidenceInv'
    <3>1. \A p \in Quotes, c \in Channels : task[p][c].at = "observed" => task[p][c].subject \in Quotes
      BY TaskFields DEF TypeOK
    <3>2. QED BY <1>2, <1>3, <2>1, <3>1 DEF EvidenceInv
  <2>4. ASSUME NEW p \in Quotes
        PROVE  /\ Settled(row'[p].state) => Settled(mintState'[p])
               /\ IF Settled(row'[p].state) THEN row'[p].paidAt \in 0..now'
                                            ELSE row'[p].paidAt = NoTime
    <3>1. CASE row'[p] = row[p]
      BY <1>2, <2>1, <3>1 DEF SettledOnlyIfPaid, PaymentTimeRecorded
    <3>2. CASE row'[p] = [state |-> "UNPAID", paidAt |-> NoTime]
      BY <3>2 DEF Settled
    <3>3. QED BY <2>2, <3>1, <3>2
  <2>5. SettledOnlyIfPaid' /\ PaymentTimeRecorded'
    BY <2>4 DEF SettledOnlyIfPaid, PaymentTimeRecorded
  <2>6. \A p \in Quotes : row[p].state # "absent" => row'[p].state # "absent"
    BY <2>2
  <2>7. /\ PersistQuote(q) => row'[q].state # "absent"
        /\ \A p \in Quotes : p # q \/ ~PersistQuote(q) => row'[p].state = row[p].state
    BY <1>4 DEF Lnurl, CreateMintQuote, PersistQuote, AnswerLnurl, PersistFails, TypeOK
  <2>8. CreationInv'
    BY <1>4, <2>6, <2>7 DEF Lnurl, CreateMintQuote, PersistQuote, AnswerLnurl, PersistFails,
                      CreationInv, TypeOK
  <2>9. QED BY <1>1, <2>3, <2>5, <2>8
<1>5. ASSUME NEW q \in Quotes, Mint(q) PROVE SafetyInv'
  <2>1. UNCHANGED <<now, lnurl, row, task>>
    BY <1>5 DEF Mint, StartPayment, FinishPayment, Issue, Forget, MintMoves
  <2>2. \A p \in Quotes, c \in Channels : task[p][c].at = "observed" => task[p][c].subject \in Quotes
    BY TaskFields DEF TypeOK
  <2>3. EvidenceInv'
    BY <1>2, <1>3, <2>1, <2>2 DEF EvidenceInv
  <2>4. CreationInv'
    BY <1>5, <2>1 DEF Mint, StartPayment, Payable, FinishPayment, Issue, Forget, MintMoves,
                      CreationInv, TypeOK
  <2>5. SettledOnlyIfPaid' /\ PaymentTimeRecorded'
    BY <1>2, <2>1 DEF SettledOnlyIfPaid, PaymentTimeRecorded
  <2>6. QED BY <1>1, <2>3, <2>4, <2>5
<1>6. ASSUME NEW q \in Quotes, NEW c \in Channels,
             TakeDue(q, c) \/ SocketMessage(q, c) \/ Proceed(q, c)
               \/ MintMisanswers(q, c) \/ ObservationFails(q, c)
      PROVE  SafetyInv'
  <2>1. EvidenceInv'
    BY <1>6, EvidenceOfTask
  <2>2. SettledOnlyIfPaid' /\ PaymentTimeRecorded'
    <3>1. CASE TransitionState(q, c)
      BY <3>1, TransitionIsSafe
    <3>2. CASE row' = row
      BY <1>6, <3>2, ObservationFrame DEF SettledOnlyIfPaid, PaymentTimeRecorded
    <3>3. QED BY <1>6, <3>1, <3>2, ObservationFrame
  <2>3. \A p \in Quotes : row[p].state = "absent" <=> row'[p].state = "absent"
    <3>1. CASE TransitionState(q, c)
      <4>1. \A to \in Changes : to # "absent" /\ "absent" \notin Sources[to]
        BY DEF Changes, Sources
      <4>2. QED BY <3>1, <4>1, TransitionEffect
    <3>2. CASE row' = row
      BY <3>2
    <3>3. QED BY <1>6, <3>1, <3>2, ObservationFrame
  <2>4. CreationInv'
    BY <1>6, <2>3, ObservationFrame DEF CreationInv
  <2>5. QED BY <1>1, <2>1, <2>2, <2>4
<1>7. CASE Tick
  <2>1. now \in Nat /\ now' = now + 1
    BY <1>7 DEF Tick, TypeOK, Time
  <2>2. \A p \in Quotes, c \in Channels :
          /\ task[p][c].at \in {"requested", "observed"} => task[p][c].startedAt \in Nat
          /\ task[p][c].at = "decided" => task[p][c].paidAt \in Nat
    BY TaskFields DEF TypeOK, Time
  <2>3. EvidenceInv'
    BY <1>7, <2>1, <2>2 DEF Tick, EvidenceInv
  <2>4. PaymentTimeRecorded'
    BY <1>7, <2>1 DEF Tick, PaymentTimeRecorded
  <2>5. CreationInv' /\ SettledOnlyIfPaid'
    BY <1>7 DEF Tick, CreationInv, SettledOnlyIfPaid
  <2>6. QED BY <1>1, <2>3, <2>4, <2>5
<1>8. CASE Crash
  <2>1. EvidenceInv'
    BY <1>8 DEF Crash, EvidenceInv, Idle
  <2>2. CreationInv'
    BY <1>8 DEF Crash, CreationInv, TypeOK
  <2>3. SettledOnlyIfPaid' /\ PaymentTimeRecorded'
    BY <1>8 DEF Crash, SettledOnlyIfPaid, PaymentTimeRecorded
  <2>4. QED BY <1>1, <2>1, <2>2, <2>3
<1>9. CASE UNCHANGED vars
  BY <1>1, <1>9 DEF vars, CreationInv, EvidenceInv, SettledOnlyIfPaid, PaymentTimeRecorded
<1>10. QED BY <1>4, <1>5, <1>6, <1>7, <1>8, <1>9 DEF Next

LEMMA SafetyHolds == Spec => []SafetyInv
BY SafetyInit, SafetyStep, PTL DEF Spec

(* A row is settled only if the mint was paid, whatever observations race  *)
(* in the handler and whichever quote a mint answers about.                *)
THEOREM SettlementIsReal == Spec => []SettledOnlyIfPaid
<1>1. SafetyInv => SettledOnlyIfPaid
  BY DEF SafetyInv
<1>2. QED BY <1>1, SafetyHolds, PTL

(* Every invoice a payer holds has its row, across crashes and rejected    *)
(* inserts.                                                                *)
THEOREM InvoicesAreBacked == Spec => []InvoiceIsBacked
<1>1. SafetyInv => InvoiceIsBacked
  BY DEF SafetyInv, CreationInv, InvoiceIsBacked, Settled
<1>2. QED BY <1>1, SafetyHolds, PTL

(* The settled rows, and only they, have a payment time, in the past.      *)
THEOREM PaymentTimesAreRecorded == Spec => []PaymentTimeRecorded
<1>1. SafetyInv => PaymentTimeRecorded
  BY DEF SafetyInv
<1>2. QED BY <1>1, SafetyHolds, PTL

-----------------------------------------------------------------------------
(* Expiry                                                                  *)

(* Without clock skew, a quote that can no longer be paid stays unpaid.    *)
LEMMA DeadIsStable ==
  ASSUME Skew = 0, TypeOK, CreationInv, [Next]_vars, NEW q \in Quotes, Dead(q)
  PROVE  Dead(q)'
<1> now \in Nat /\ expiresAt[q] \in Nat
  BY DEF TypeOK, Time
<1>1. ASSUME NEW p \in Quotes, Lnurl(p) PROVE Dead(q)'
  BY <1>1 DEF Lnurl, CreateMintQuote, PersistQuote, AnswerLnurl, PersistFails,
              TypeOK, CreationInv, Dead
<1>2. ASSUME NEW p \in Quotes, Mint(p) PROVE Dead(q)'
  BY <1>2 DEF Mint, StartPayment, Payable, FinishPayment, Issue, Forget, MintMoves,
              TypeOK, Dead
<1>3. ASSUME NEW p \in Quotes, NEW c \in Channels,
             TakeDue(p, c) \/ SocketMessage(p, c) \/ Proceed(p, c)
               \/ MintMisanswers(p, c) \/ ObservationFails(p, c)
      PROVE  Dead(q)'
  BY <1>3, ObservationFrame DEF Dead
<1>4. CASE Tick
  BY <1>4 DEF Tick, Dead
<1>5. CASE Crash
  BY <1>5 DEF Crash, Dead
<1>6. CASE UNCHANGED vars
  BY <1>6 DEF vars, Dead
<1>7. QED BY <1>1, <1>2, <1>3, <1>4, <1>5, <1>6 DEF Next

(* The expiry of a quote is fixed once its mint knows it.                  *)
LEMMA ExpiryIsFixed ==
  ASSUME TypeOK, CreationInv, [Next]_vars, NEW q \in Quotes, mintState[q] # "none"
  PROVE  expiresAt'[q] = expiresAt[q] /\ mintState'[q] # "none"
<1>1. ASSUME NEW p \in Quotes, Lnurl(p)
      PROVE  expiresAt'[q] = expiresAt[q] /\ mintState'[q] = mintState[q]
  BY <1>1 DEF Lnurl, CreateMintQuote, PersistQuote, AnswerLnurl, PersistFails,
              TypeOK, CreationInv
<1>2. ASSUME NEW p \in Quotes, Mint(p)
      PROVE  expiresAt' = expiresAt /\ mintState'[q] # "none"
  BY <1>2 DEF Mint, StartPayment, FinishPayment, Issue, Forget, MintMoves, TypeOK
<1>3. ASSUME NEW p \in Quotes, NEW c \in Channels,
             TakeDue(p, c) \/ SocketMessage(p, c) \/ Proceed(p, c)
               \/ MintMisanswers(p, c) \/ ObservationFails(p, c)
      PROVE  UNCHANGED <<expiresAt, mintState>>
  BY <1>3, ObservationFrame
<1>4. Tick \/ Crash \/ UNCHANGED vars => UNCHANGED <<expiresAt, mintState>>
  BY DEF Tick, Crash, vars
<1>5. QED BY <1>1, <1>2, <1>3, <1>4 DEF Next

(* The evidence for an expiry that one observation carries forward.        *)
ExpiryEvidence(q, t) ==
  /\ t.at = "decided" /\ t.to = "EXPIRED" => Dead(q)
  /\ \A s \in Quotes :
       t.at = "observed" /\ t.subject = s /\ t.result = "UNPAID" =>
         /\ mintState[s] # "none"
         /\ t.startedAt >= expiresAt[s] => Dead(s)

LEMMA ExpiryOfTask ==
  ASSUME Skew = 0, SafetyInv, ExpiryInv, NEW q \in Quotes, NEW c \in Channels,
         TakeDue(q, c) \/ SocketMessage(q, c) \/ Proceed(q, c)
           \/ MintMisanswers(q, c) \/ ObservationFails(q, c)
  PROVE  ExpiryInv'
<1> USE DEF SafetyInv
<1> now \in Nat /\ \A p \in Quotes : expiresAt[p] \in Nat
  BY DEF TypeOK, Time
<1>1. PICK t : SetTask(q, c, t) /\ ExpiryEvidence(q, t)
  <2>1. CASE TakeDue(q, c)
    BY <2>1 DEF TakeDue, Claimed, ExpiryEvidence
  <2>2. CASE SocketMessage(q, c)
    BY <2>2 DEF SocketMessage, Observed, ExpiryEvidence, Dead, Found
  <2>3. CASE StartRequest(q, c)
    BY <2>3 DEF StartRequest, Requested, ExpiryEvidence
  <2>4. ASSUME NEW s \in Quotes, task[q][c].at = "requested", mintState[s] \in Found
        PROVE  ExpiryEvidence(q, Observed(s, mintState[s], task[q][c].startedAt))
    <3>1. task[q][c].startedAt \in Nat /\ task[q][c].startedAt <= now
      BY <2>4, TaskFields DEF EvidenceInv, TypeOK, Time
    <3>2. QED BY <2>4, <3>1 DEF Observed, ExpiryEvidence, Dead, Found
  <2>5. CASE MintAnswers(q, c)
    <3>1. ExpiryEvidence(q, Observed(q, "not_found", task[q][c].startedAt))
      BY DEF ExpiryEvidence, Observed
    <3>2. QED BY <2>4, <2>5, <3>1 DEF MintAnswers
  <2>6. CASE MintMisanswers(q, c)
    BY <2>4, <2>6 DEF MintMisanswers
  <2>7. CASE LoadQuote(q, c)
    <3>1. CASE SetTask(q, c, Idle)
      BY <3>1 DEF Idle, ExpiryEvidence
    <3>2. ASSUME NEW to \in Target(q, c), SetTask(q, c, Decided(to, now))
          PROVE  ExpiryEvidence(q, Decided(to, now))
      <4>1. to = "EXPIRED" => Dead(q)
        BY <2>7 DEF LoadQuote, Target, Settled, EvidenceInv, ExpiryInv, Dead
      <4>2. QED BY <4>1 DEF ExpiryEvidence, Decided
    <3>3. QED BY <2>7, <3>1, <3>2 DEF LoadQuote
  <2>8. CASE TransitionState(q, c)
    <3>1. ExpiryEvidence(q, Idle) /\ ExpiryEvidence(q, Committed(task[q][c].to))
      BY DEF Idle, Committed, ExpiryEvidence
    <3>2. QED BY <2>8, <3>1 DEF TransitionState
  <2>9. CASE EmitStateChanged(q, c)
    BY <2>9 DEF EmitStateChanged, Idle, ExpiryEvidence
  <2>10. CASE ObservationFails(q, c)
    BY <2>10 DEF ObservationFails, Idle, ExpiryEvidence
  <2>11. QED
    BY <2>1, <2>2, <2>3, <2>5, <2>6, <2>7, <2>8, <2>9, <2>10 DEF Proceed
<1>2. UNCHANGED <<now, mintState, expiresAt>>
  BY ObservationFrame
<1>3. \A p \in Quotes : Dead(p)' <=> Dead(p)
  BY <1>2 DEF Dead
<1>4. \A p \in Quotes : row'[p].state = "EXPIRED" => Dead(p)
  <2>1. CASE TransitionState(q, c)
    <3>1. task[q][c].to = "EXPIRED" => Dead(q)
      BY <2>1 DEF TransitionState, ExpiryInv
    <3>2. QED BY <2>1, <3>1, TransitionEffect DEF ExpiryInv
  <2>2. CASE row' = row
    BY <2>2 DEF ExpiryInv
  <2>3. QED BY <2>1, <2>2, ObservationFrame
<1>5. \A p \in Quotes, d \in Channels : ExpiryEvidence(p, task'[p][d])
  <2>1. \A p \in Quotes, d \in Channels : ExpiryEvidence(p, task[p][d])
    BY DEF ExpiryInv, ExpiryEvidence
  <2>2. QED BY <1>1, <2>1, SetTaskEffect
<1>6. QED BY <1>2, <1>3, <1>4, <1>5 DEF ExpiryInv, ExpiryEvidence

LEMMA ExpiryStep == Skew = 0 /\ SafetyInv /\ ExpiryInv /\ [Next]_vars => ExpiryInv'
<1> SUFFICES ASSUME Skew = 0, SafetyInv, ExpiryInv, [Next]_vars PROVE ExpiryInv'
  OBVIOUS
<1> USE DEF SafetyInv
<1>1. \A q \in Quotes : Dead(q) => Dead(q)'
  BY DeadIsStable
<1>2. \A q \in Quotes : mintState[q] # "none" =>
        expiresAt'[q] = expiresAt[q] /\ mintState'[q] # "none"
  BY ExpiryIsFixed
<1>3. ASSUME NEW q \in Quotes, NEW c \in Channels,
             TakeDue(q, c) \/ SocketMessage(q, c) \/ Proceed(q, c)
               \/ MintMisanswers(q, c) \/ ObservationFails(q, c)
      PROVE  ExpiryInv'
  BY <1>3, ExpiryOfTask
<1>4. ASSUME \A q \in Quotes : row'[q].state = "EXPIRED" => row[q].state = "EXPIRED",
             \A q \in Quotes, c \in Channels : task'[q][c] = task[q][c] \/ task'[q][c] = Idle
      PROVE  ExpiryInv'
  <2>1. \A q \in Quotes : row'[q].state = "EXPIRED" => Dead(q)'
    BY <1>1, <1>4 DEF ExpiryInv
  <2>2. ASSUME NEW q \in Quotes, NEW c \in Channels PROVE ExpiryEvidence(q, task[q][c])'
    BY <1>1, <1>2, <1>4 DEF ExpiryInv, ExpiryEvidence, Idle
  <2>3. QED BY <2>1, <2>2 DEF ExpiryInv, ExpiryEvidence
<1>5. ASSUME NEW q \in Quotes, Lnurl(q) PROVE ExpiryInv'
  BY <1>4, <1>5 DEF Lnurl, CreateMintQuote, PersistQuote, AnswerLnurl, PersistFails, TypeOK
<1>6. ASSUME NEW q \in Quotes, Mint(q) PROVE ExpiryInv'
  BY <1>4, <1>6 DEF Mint, StartPayment, FinishPayment, Issue, Forget, MintMoves
<1>7. CASE Tick \/ UNCHANGED vars
  BY <1>4, <1>7 DEF Tick, vars
<1>8. CASE Crash
  BY <1>4, <1>8 DEF Crash
<1>9. QED BY <1>3, <1>5, <1>6, <1>7, <1>8 DEF Next

LEMMA ExpiryInit == Init => ExpiryInv
<1> SUFFICES ASSUME Init PROVE ExpiryInv
  OBVIOUS
<1>1. \A q \in Quotes : row[q].state # "EXPIRED"
  BY DEF Init
<1>2. \A q \in Quotes, c \in Channels : task[q][c].at = "idle"
  BY DEF Init, Idle
<1>3. QED BY <1>1, <1>2 DEF ExpiryInv

(* An EXPIRED row never hides a payment when the mint honours its expiry:  *)
(* the answer it rests on was requested after the last payable moment.     *)
THEOREM ExpiryIsSound == Spec => []ExpiryHidesNoPayment
<1> DEFINE Inv == Skew = 0 => ExpiryInv
<1>1. Init => Inv
  BY ExpiryInit
<1>2. SafetyInv /\ Inv /\ [Next]_vars => Inv'
  BY ExpiryStep
<1>3. Inv => ExpiryHidesNoPayment
  BY DEF ExpiryInv, ExpiryHidesNoPayment, Dead
<1> HIDE DEF Inv
<1>4. QED BY <1>1, <1>2, <1>3, SafetyHolds, PTL DEF Spec

-----------------------------------------------------------------------------
(* The ledger                                                              *)

(* The sources of a transition come before its target.                     *)
LEMMA SourcesPrecede ==
  ASSUME NEW to \in Changes, NEW from \in Sources[to]
  PROVE  from # "absent" /\ Ledger!Rank[from] < Ledger!Rank[to]
BY DEF Sources, Changes, Ledger!Rank

(* Only the commit of a transition puts a handler in the committed stage.  *)
LEMMA StageOfTask ==
  ASSUME NEW q \in Quotes, NEW c \in Channels,
         TakeDue(q, c) \/ SocketMessage(q, c) \/ Proceed(q, c)
           \/ MintMisanswers(q, c) \/ ObservationFails(q, c),
         ~EmitStateChanged(q, c),
         TransitionState(q, c) => row' = row /\ SetTask(q, c, Idle)
  PROVE  \E t : SetTask(q, c, t) /\ t.at # "committed"
<1>1. TakeDue(q, c) => SetTask(q, c, Claimed)
  BY DEF TakeDue
<1>2. StartRequest(q, c) => SetTask(q, c, Requested(now))
  BY DEF StartRequest
<1>3. SocketMessage(q, c) \/ MintAnswers(q, c) \/ MintMisanswers(q, c) =>
        \E p \in Quotes : \E r, t : SetTask(q, c, Observed(p, r, t))
  BY DEF SocketMessage, MintAnswers, MintMisanswers
<1>4. LoadQuote(q, c) => SetTask(q, c, Idle) \/ \E to, t : SetTask(q, c, Decided(to, t))
  BY DEF LoadQuote
<1>5. ObservationFails(q, c) => SetTask(q, c, Idle)
  BY DEF ObservationFails
<1>6. /\ Idle.at # "committed" /\ Claimed.at # "committed"
      /\ \A t : Requested(t).at # "committed"
      /\ \A p, r, t : Observed(p, r, t).at # "committed"
      /\ \A to, t : Decided(to, t).at # "committed"
  BY DEF Idle, Claimed, Requested, Observed, Decided
<1>7. QED BY <1>1, <1>2, <1>3, <1>4, <1>5, <1>6 DEF Proceed

(* What one observation commits or has emitted is in one handler or on the *)
(* bus; the rows only move forward.                                        *)
LEMMA PublicationOfTask ==
  ASSUME TypeOK, PublicationInv, NEW q \in Quotes, NEW c \in Channels,
         TakeDue(q, c) \/ SocketMessage(q, c) \/ Proceed(q, c)
           \/ MintMisanswers(q, c) \/ ObservationFails(q, c)
  PROVE  PublicationInv'
<1>1. CASE TransitionState(q, c)
  <2>0. PICK to \in Changes : to = task[q][c].to
    BY <1>1, TransitionEffect
  <2>1. emitted' = emitted
    BY <1>1 DEF TransitionState
  <2>2. CASE row' = row /\ SetTask(q, c, Idle)
    <3>1. \A p \in Quotes, d \in Channels, s \in Changes :
            task'[p][d] = Committed(s) => task[p][d] = Committed(s)
      BY <2>2, SetTaskEffect DEF Idle, Committed
    <3>2. QED BY <2>1, <2>2, <3>1 DEF PublicationInv, Reached
  <2>3. CASE /\ row[q].state \in Sources[to]
             /\ row'[q].state = to
             /\ \A p \in Quotes : p # q => row'[p] = row[p]
             /\ SetTask(q, c, Committed(to))
    <3>1. Ledger!Rank[row[q].state] < Ledger!Rank[to]
      BY <2>1, <2>3, SourcesPrecede
    <3>2. /\ Ledger!Rank[row[q].state] \in Nat
          /\ \A s \in Changes : Ledger!Rank[s] \in Nat
      BY DEF Ledger!Rank, Changes, RowState, TypeOK
    <3>3. ~Reached(q, to)
      BY <2>1, <3>1, <3>2 DEF Reached
    <3>4. emitted[q][to] = 0 /\ \A d \in Channels : task[q][d] # Committed(to)
      BY <2>1, <3>3 DEF PublicationInv
    <3>5. \A p \in Quotes, s \in Changes : Reached(p, s) => Reached(p, s)'
      BY <2>1, <2>3, <3>1, <3>2 DEF Reached
    <3>6. Reached(q, to)'
      BY <2>1, <2>3, <3>2 DEF Reached
    <3>7. \A s \in Changes : Committed(s) = Committed(to) => s = to
      BY DEF Committed
    <3>8. \A p \in Quotes, d \in Channels, s \in Changes :
            task'[p][d] = Committed(s) =>
              \/ task[p][d] = Committed(s)
              \/ p = q /\ d = c /\ s = to
      BY <2>3, <3>7, SetTaskEffect
    <3>9. ASSUME NEW p \in Quotes, NEW s \in Changes, NEW d \in Channels,
                 task'[p][d] = Committed(s)
          PROVE  /\ Reached(p, s)'
                 /\ emitted'[p][s] = 0
                 /\ \A e \in Channels : task'[p][e] = Committed(s) => e = d
      BY <2>1, <3>4, <3>5, <3>6, <3>8, <3>9 DEF PublicationInv
    <3>10. \A p \in Quotes, s \in Changes :
             /\ emitted'[p][s] \in {0, 1}
             /\ emitted'[p][s] = 1 => Reached(p, s)'
      BY <2>1, <3>5 DEF PublicationInv
    <3>11. QED BY <3>9, <3>10 DEF PublicationInv
  <2>4. QED BY <1>1, <2>0, <2>2, <2>3, TransitionEffect
<1>2. CASE EmitStateChanged(q, c)
  <2>0. task[q][c] \in Task /\ task[q][c].at = "committed"
    BY <1>2 DEF EmitStateChanged, TypeOK
  <2>1. PICK to \in Changes : to = task[q][c].to /\ task[q][c] = Committed(to)
    BY <2>0 DEF Task, Committed, Idle, Claimed
  <2>2. /\ emitted'[q][to] = emitted[q][to] + 1
        /\ \A p \in Quotes, s \in Changes : p # q \/ s # to => emitted'[p][s] = emitted[p][s]
    <3>1. emitted' = [emitted EXCEPT ![q][to] = @ + 1]
      BY <1>2, <2>1 DEF EmitStateChanged
    <3>2. emitted \in [Quotes -> [Changes -> Nat]]
      BY DEF TypeOK
    <3>3. QED BY <3>1, <3>2
  <2>3. row' = row /\ SetTask(q, c, Idle)
    BY <1>2 DEF EmitStateChanged
  <2>4. \A p \in Quotes, d \in Channels, s \in Changes :
          task'[p][d] = Committed(s) => task[p][d] = Committed(s) /\ ~(p = q /\ s = to)
    <3>1. \A s \in Changes : Idle # Committed(s)
      BY DEF Idle, Committed
    <3>2. \A d \in Channels : task[q][d] = Committed(to) => d = c
      BY <2>1 DEF PublicationInv
    <3>3. QED BY <2>3, <3>1, <3>2, SetTaskEffect
  <2>5. Reached(q, to) /\ emitted[q][to] = 0
    BY <2>1 DEF PublicationInv
  <2>6. QED BY <2>2, <2>3, <2>4, <2>5 DEF PublicationInv, Reached
<1>3. CASE ~TransitionState(q, c) /\ ~EmitStateChanged(q, c)
  <2>1. row' = row /\ emitted' = emitted
    BY <1>3, ObservationFrame
  <2>2. \E t : SetTask(q, c, t) /\ t.at # "committed"
    BY <1>3, StageOfTask
  <2>3. \A p \in Quotes, d \in Channels, s \in Changes :
          task'[p][d] = Committed(s) => task[p][d] = Committed(s)
    BY <2>2, SetTaskEffect DEF Committed
  <2>4. QED BY <2>1, <2>3 DEF PublicationInv, Reached
<1>4. QED BY <1>1, <1>2, <1>3

(* No other step touches the event bus or moves a row back.                *)
LEMMA PublicationStep == SafetyInv /\ PublicationInv /\ [Next]_vars => PublicationInv'
<1> SUFFICES ASSUME SafetyInv, PublicationInv, [Next]_vars PROVE PublicationInv'
  OBVIOUS
<1> USE DEF SafetyInv
<1>1. ASSUME emitted' = emitted,
             \A q \in Quotes, s \in Changes : Reached(q, s) => Reached(q, s)',
             \A q \in Quotes, c \in Channels : task'[q][c] = task[q][c] \/ task'[q][c] = Idle
      PROVE  PublicationInv'
  <2>1. \A q \in Quotes, c \in Channels, s \in Changes :
          task'[q][c] = Committed(s) => task[q][c] = Committed(s)
    BY <1>1 DEF Idle, Committed
  <2>2. QED BY <1>1, <2>1 DEF PublicationInv
<1>2. ASSUME NEW q \in Quotes, NEW c \in Channels,
             TakeDue(q, c) \/ SocketMessage(q, c) \/ Proceed(q, c)
               \/ MintMisanswers(q, c) \/ ObservationFails(q, c)
      PROVE  PublicationInv'
  BY <1>2, PublicationOfTask
<1>3. ASSUME NEW q \in Quotes, Lnurl(q) PROVE PublicationInv'
  <2>1. emitted' = emitted /\ task' = task
    BY <1>3 DEF Lnurl, CreateMintQuote, PersistQuote, AnswerLnurl, PersistFails
  <2>2. \A p \in Quotes : row'[p].state = row[p].state \/ row[p].state = "absent"
    BY <1>3 DEF Lnurl, CreateMintQuote, PersistQuote, AnswerLnurl, PersistFails, CreationInv, TypeOK
  <2>3. \A p \in Quotes, s \in Changes : Reached(p, s) => Reached(p, s)'
    <3>1. \A s \in Changes : ~(Ledger!Rank[s] <= Ledger!Rank["absent"])
      BY DEF Changes, Ledger!Rank
    <3>2. QED BY <2>2, <3>1 DEF Reached
  <2>4. QED BY <1>1, <2>1, <2>3
<1>4. ASSUME UNCHANGED <<row, task, emitted>> PROVE PublicationInv'
  BY <1>1, <1>4 DEF Reached
<1>5. ASSUME NEW q \in Quotes, Mint(q) PROVE PublicationInv'
  BY <1>4, <1>5 DEF Mint, StartPayment, FinishPayment, Issue, Forget, MintMoves
<1>6. CASE Tick \/ UNCHANGED vars
  BY <1>4, <1>6 DEF Tick, vars
<1>7. CASE Crash
  BY <1>1, <1>7 DEF Crash, Reached
<1>8. QED BY <1>2, <1>3, <1>5, <1>6, <1>7 DEF Next

LEMMA PublicationInit == Init => PublicationInv
<1>1. \A s \in Changes : Idle # Committed(s)
  BY DEF Idle, Committed
<1>2. QED BY <1>1 DEF Init, PublicationInv

LEMMA LedgerInit == Init => Ledger!Init
<1>1. \A s \in Changes : Idle # Committed(s)
  BY DEF Idle, Committed
<1>2. Ledger!Changes = Changes
  BY DEF Ledger!Changes, Changes
<1>3. Init => Unpublished = [q \in Quotes |-> {}]
  BY <1>1 DEF Init, Unpublished
<1>4. QED BY <1>2, <1>3 DEF Init, Ledger!Init

(* A step that leaves the rows and the bus alone and commits nothing loses *)
(* some publications, or none.                                             *)
LEMMA LedgerLoses ==
  ASSUME row' = row, emitted' = emitted,
         \A q \in Quotes, c \in Channels, s \in Changes :
           task'[q][c] = Committed(s) => task[q][c] = Committed(s)
  PROVE  Ledger!LosePublications
<1>1. Unpublished' = [q \in Quotes |-> Unpublished'[q]]
  BY DEF Unpublished
<1>2. \A q \in Quotes : Unpublished'[q] \subseteq Unpublished[q]
  BY DEF Unpublished
<1>3. \A q \in Quotes : Unpublished'[q] \subseteq Ledger!Changes
  BY DEF Unpublished, Ledger!Changes, Changes
<1>4. QED BY <1>1, <1>2, <1>3 DEF Ledger!LosePublications

(* A committed transition is a change of the ledger.                       *)
LEMMA ChangeOfLedger ==
  ASSUME TypeOK, NEW q \in Quotes, NEW c \in Channels, TransitionState(q, c), row' # row
  PROVE  \E to \in Changes, t \in Time : Ledger!Change(q, to, t)
<1>1. task[q][c] \in Task /\ task[q][c].at = "decided"
  BY DEF TransitionState, TypeOK
<1>2. PICK to \in Changes, t \in Time : to = task[q][c].to /\ t = task[q][c].paidAt
  BY <1>1, TaskFields
<1>3. /\ row[q].state \in Sources[to]
      /\ row' = [row EXCEPT ![q] = [state |-> to, paidAt |-> PaidAt(to, row[q].paidAt, t)]]
      /\ SetTask(q, c, Committed(to))
      /\ emitted' = emitted
  BY <1>2 DEF TransitionState
<1>4. row[q].state # "absent" /\ Ledger!Rank[row[q].state] < Ledger!Rank[to]
  BY <1>3, SourcesPrecede
<1>5. row' = [row EXCEPT ![q] =
          [state  |-> to,
           paidAt |-> IF Ledger!Settled(to) /\ @.paidAt = NoTime THEN t ELSE @.paidAt]]
  BY <1>3 DEF PaidAt, Settled, Ledger!Settled
<1>6. \A p \in Quotes, s \in Changes :
        (\E d \in Channels : task'[p][d] = Committed(s)) <=>
          \/ \E d \in Channels : task[p][d] = Committed(s)
          \/ p = q /\ s = to
  <2>1. \A s \in Changes : task[q][c] # Committed(s)
    BY <1>1 DEF Committed
  <2>2. \A s \in Changes : Committed(s) = Committed(to) <=> s = to
    BY DEF Committed
  <2>3. task'[q][c] = Committed(to)
    BY <1>3, SetTaskEffect
  <2>4. \A p \in Quotes, d \in Channels : p # q \/ d # c => task'[p][d] = task[p][d]
    BY <1>3, SetTaskEffect
  <2>5. QED BY <2>1, <2>2, <2>3, <2>4
<1>7. Unpublished' = [Unpublished EXCEPT ![q] = @ \cup {to}]
  <2>1. \A p \in Quotes : Unpublished'[p] = IF p = q THEN Unpublished[p] \cup {to} ELSE Unpublished[p]
    BY <1>6 DEF Unpublished
  <2>2. Unpublished = [p \in Quotes |-> Unpublished[p]] /\ Unpublished' = [p \in Quotes |-> Unpublished'[p]]
    BY DEF Unpublished
  <2>3. QED BY <2>1, <2>2
<1>8. Ledger!Change(q, to, t)
  BY <1>3, <1>4, <1>5, <1>7 DEF Ledger!Change
<1>9. QED BY <1>8

(* An emitted event is a publication of the ledger.                        *)
LEMMA PublicationOfLedger ==
  ASSUME TypeOK, PublicationInv, NEW q \in Quotes, NEW c \in Channels, EmitStateChanged(q, c)
  PROVE  \E s \in Changes : Ledger!Publish(q, s)
<1>1. task[q][c] \in Task /\ task[q][c].at = "committed"
  BY DEF EmitStateChanged, TypeOK
<1>2. PICK to \in Changes : to = task[q][c].to /\ task[q][c] = Committed(to)
  BY <1>1 DEF Task, Committed, Idle, Claimed
<1>3. /\ row' = row
      /\ SetTask(q, c, Idle)
      /\ emitted' = [emitted EXCEPT ![q][to] = @ + 1]
  BY <1>2 DEF EmitStateChanged
<1>4. /\ emitted[q][to] = 0
      /\ \A d \in Channels : task[q][d] = Committed(to) => d = c
  BY <1>2 DEF PublicationInv
<1>5. emitted' = [emitted EXCEPT ![q][to] = 1]
  BY <1>3, <1>4 DEF TypeOK
<1>6. \A p \in Quotes, s \in Changes :
        (\E d \in Channels : task'[p][d] = Committed(s)) <=>
          /\ \E d \in Channels : task[p][d] = Committed(s)
          /\ ~(p = q /\ s = to)
  <2>1. \A s \in Changes : Idle # Committed(s)
    BY DEF Idle, Committed
  <2>2. \A s \in Changes : Committed(s) = Committed(to) <=> s = to
    BY DEF Committed
  <2>3. task'[q][c] = Idle
    BY <1>3, SetTaskEffect
  <2>4. \A p \in Quotes, d \in Channels : p # q \/ d # c => task'[p][d] = task[p][d]
    BY <1>3, SetTaskEffect
  <2>5. QED BY <1>2, <1>4, <2>1, <2>2, <2>3, <2>4
<1>7. Unpublished' = [Unpublished EXCEPT ![q] = @ \ {to}]
  <2>1. \A p \in Quotes : Unpublished'[p] = IF p = q THEN Unpublished[p] \ {to} ELSE Unpublished[p]
    BY <1>6 DEF Unpublished
  <2>2. Unpublished = [p \in Quotes |-> Unpublished[p]] /\ Unpublished' = [p \in Quotes |-> Unpublished'[p]]
    BY DEF Unpublished
  <2>3. QED BY <2>1, <2>2
<1>8. to \in Unpublished[q]
  BY <1>2 DEF Unpublished
<1>9. QED BY <1>3, <1>4, <1>5, <1>7, <1>8 DEF Ledger!Publish

(* A transition that changed no row found none in one of its sources.      *)
LEMMA TransitionStutter ==
  ASSUME TypeOK, NEW q \in Quotes, NEW c \in Channels, TransitionState(q, c), row' = row
  PROVE  SetTask(q, c, Idle)
<1>1. PICK to \in Changes : to = task[q][c].to
  BY TransitionEffect
<1>2. row[q].state \in Sources[to] => row[q].state # to
  BY DEF Sources, Changes
<1>3. QED BY <1>1, <1>2, TransitionEffect

LEMMA LedgerStep ==
  SafetyInv /\ PublicationInv /\ [Next]_vars => [Ledger!Next]_(Ledger!ledgerVars)
<1> SUFFICES ASSUME SafetyInv, PublicationInv, [Next]_vars
             PROVE  [Ledger!Next]_(Ledger!ledgerVars)
  OBVIOUS
<1> USE DEF SafetyInv
<1>1. Ledger!Changes = Changes
  BY DEF Ledger!Changes, Changes
<1>2. ASSUME NEW q \in Quotes, NEW c \in Channels,
             TakeDue(q, c) \/ SocketMessage(q, c) \/ Proceed(q, c)
               \/ MintMisanswers(q, c) \/ ObservationFails(q, c)
      PROVE  [Ledger!Next]_(Ledger!ledgerVars)
  <2>1. CASE TransitionState(q, c) /\ row' # row
    BY <1>1, <2>1, ChangeOfLedger DEF Ledger!Next
  <2>2. CASE EmitStateChanged(q, c)
    BY <1>1, <2>2, PublicationOfLedger DEF Ledger!Next
  <2>3. CASE /\ row' = row
             /\ ~EmitStateChanged(q, c)
    <3>1. emitted' = emitted
      BY <1>2, <2>3, ObservationFrame
    <3>2. TransitionState(q, c) => SetTask(q, c, Idle)
      BY <2>3, TransitionStutter
    <3>3. \E t : SetTask(q, c, t) /\ t.at # "committed"
      BY <1>2, <2>3, <3>2, StageOfTask
    <3>4. \A p \in Quotes, d \in Channels, s \in Changes :
            task'[p][d] = Committed(s) => task[p][d] = Committed(s)
      BY <3>3, SetTaskEffect DEF Committed
    <3>5. QED BY <2>3, <3>1, <3>4, LedgerLoses DEF Ledger!Next
  <2>4. QED BY <1>2, <2>1, <2>2, <2>3, ObservationFrame
<1>3. ASSUME row' = row, emitted' = emitted, task' = task
      PROVE  [Ledger!Next]_(Ledger!ledgerVars)
  BY <1>3, LedgerLoses DEF Ledger!Next
<1>4. ASSUME NEW q \in Quotes, Lnurl(q) PROVE [Ledger!Next]_(Ledger!ledgerVars)
  <2>1. CASE PersistQuote(q)
    <3>1. Unpublished' = Unpublished
      BY <2>1 DEF PersistQuote, Unpublished
    <3>2. row[q].state = "absent"
      BY <2>1 DEF PersistQuote, CreationInv
    <3>3. Ledger!Open(q)
      BY <2>1, <3>1, <3>2 DEF PersistQuote, Ledger!Open
    <3>4. QED BY <3>3 DEF Ledger!Next
  <2>2. CASE ~PersistQuote(q)
    BY <1>3, <1>4, <2>2 DEF Lnurl, CreateMintQuote, AnswerLnurl, PersistFails
  <2>3. QED BY <2>1, <2>2
<1>5. ASSUME NEW q \in Quotes, Mint(q) PROVE [Ledger!Next]_(Ledger!ledgerVars)
  BY <1>3, <1>5 DEF Mint, StartPayment, FinishPayment, Issue, Forget, MintMoves
<1>6. CASE Tick \/ UNCHANGED vars
  BY <1>3, <1>6 DEF Tick, vars
<1>7. CASE Crash
  <2>1. \A q \in Quotes, c \in Channels, s \in Changes : task'[q][c] # Committed(s)
    BY <1>7 DEF Crash, Idle, Committed
  <2>2. QED BY <1>7, <2>1, LedgerLoses DEF Crash, Ledger!Next
<1>8. QED BY <1>2, <1>4, <1>5, <1>6, <1>7 DEF Next

(* The racing handlers implement the ledger: rows only move forward, a     *)
(* payment time is kept, a committed change is published at most once.     *)
THEOREM ReconciliationImplementsLedger == Spec => ImplementsLedger
<1>1. Init => Ledger!Init /\ PublicationInv
  BY LedgerInit, PublicationInit
<1>2. SafetyInv /\ PublicationInv /\ [Next]_vars => PublicationInv'
  BY PublicationStep
<1>3. SafetyInv /\ PublicationInv /\ [Next]_vars => [Ledger!Next]_(Ledger!ledgerVars)
  BY LedgerStep
<1>4. QED BY <1>1, <1>2, <1>3, SafetyHolds, PTL DEF Spec, ImplementsLedger, Ledger!Spec
=============================================================================
