------------------------ MODULE QuoteReconciliation ------------------------
(***************************************************************************)
(* Mint Quotes from their creation by an LNURL request to their settlement *)
(* or expiry: the LNURL controller that creates them, the mint that holds  *)
(* the invoice, the polling and WebSocket observations in flight, the      *)
(* observation handler with its awaits, the quote table, and the events    *)
(* published after a commit.  Any number of observations of one quote are  *)
(* handled concurrently; the process may crash between any two steps.      *)
(*                                                                         *)
(* Abstracted: which quote is polled when (QuotePolling), the wire         *)
(* protocol of the mint WebSocket, amounts, payment requests, users.       *)
(***************************************************************************)
EXTENDS Naturals

CONSTANTS
  Quotes,     \* the Mint Quotes that may be created
  Pollers,    \* polling observations of one quote that may overlap
  Sockets,    \* WebSocket observations of one quote that may overlap
  Lifetime,   \* the expiry a mint gives a new quote, relative to its creation
  Skew,       \* how long after that expiry the mint still accepts a payment
  MaxTime,    \* bound: the clock stops here
  MaxFaults,  \* bound: crashes and failed requests or statements
  NoTime      \* paid_at IS NULL

Channels == Pollers \cup Sockets

ASSUME BoundsAssumption ==
  /\ Lifetime \in Nat
  /\ Skew \in Nat
  /\ MaxTime \in Nat
  /\ MaxFaults \in Nat
  /\ NoTime \notin Nat
  /\ Pollers \cap Sockets = {}

VARIABLES
  now,        \* the wall clock
  mintState,  \* [Quotes -> MintState], the quote at its mint
  expiresAt,  \* [Quotes -> Nat], the expiry both sides know
  lnurl,      \* [Quotes -> LnurlStep], progress of the creating LNURL request
  row,        \* [Quotes -> [state, paidAt]], the mint_quotes table
  task,       \* [Quotes -> [Channels -> Task]], the observations in flight
  emitted,    \* [Quotes -> [Changes -> Nat]], mintQuote.stateChanged events
  faults      \* crashes and failures so far

vars == <<now, mintState, expiresAt, lnurl, row, task, emitted, faults>>

-----------------------------------------------------------------------------
(* Vocabulary                                                              *)

Changes == {"EXPIRED", "PAID", "ISSUED"}
RowState == {"absent", "UNPAID"} \cup Changes
MintState == {"none", "UNPAID", "PENDING", "PAID", "ISSUED", "gone"}
LnurlStep == {"idle", "quoted", "persisted", "answered", "failed"}
Found == {"UNPAID", "PENDING", "PAID", "ISSUED"}
Time == 0..MaxTime

Settled(state) == state \in {"PAID", "ISSUED"}

(* Fault: a late UNPAID answer takes a paid quote back.                    *)
SourcesRegress ==
  [EXPIRED |-> {"UNPAID", "PAID"},
   PAID    |-> {"UNPAID", "EXPIRED"},
   ISSUED  |-> {"UNPAID", "EXPIRED", "PAID"}]

(* The states from which transitionState moves a row to a target state.    *)
Sources ==
  [EXPIRED |-> {"UNPAID"},
   PAID    |-> {"UNPAID", "EXPIRED"},
   ISSUED  |-> {"UNPAID", "EXPIRED", "PAID"}]

(* Fault: only the PAID transition records the payment time.               *)
PaidAtWhenPaid(to, old, t) == IF to = "PAID" /\ old = NoTime THEN t ELSE old

(* paid_at after a transition: COALESCE(paid_at, $2) when it settles.      *)
PaidAt(to, old, t) == IF Settled(to) /\ old = NoTime THEN t ELSE old

(* One observation, from the claim of its quote to its event.              *)
Idle == [at |-> "idle"]
Claimed == [at |-> "claimed"]
Requested(t) == [at |-> "requested", startedAt |-> t]
Observed(subject, result, t) ==
  [at |-> "observed", subject |-> subject, result |-> result, startedAt |-> t]
Decided(to, t) == [at |-> "decided", to |-> to, paidAt |-> t]
Committed(to) == [at |-> "committed", to |-> to]

Task ==
  {Idle, Claimed}
    \cup [at : {"requested"}, startedAt : Time]
    \cup [at : {"observed"}, subject : Quotes,
          result : Found \cup {"not_found"}, startedAt : Time]
    \cup [at : {"decided"}, to : Changes, paidAt : Time]
    \cup [at : {"committed"}, to : Changes]

TypeOK ==
  /\ now \in Time
  /\ mintState \in [Quotes -> MintState]
  /\ expiresAt \in [Quotes -> Nat]
  /\ lnurl \in [Quotes -> LnurlStep]
  /\ row \in [Quotes -> [state : RowState, paidAt : Time \cup {NoTime}]]
  /\ task \in [Quotes -> [Channels -> Task]]
  /\ emitted \in [Quotes -> [Changes -> Nat]]
  /\ faults \in 0..MaxFaults

Init ==
  /\ now = 0
  /\ mintState = [q \in Quotes |-> "none"]
  /\ expiresAt = [q \in Quotes |-> 0]
  /\ lnurl = [q \in Quotes |-> "idle"]
  /\ row = [q \in Quotes |-> [state |-> "absent", paidAt |-> NoTime]]
  /\ task = [q \in Quotes |-> [c \in Channels |-> Idle]]
  /\ emitted = [q \in Quotes |-> [s \in Changes |-> 0]]
  /\ faults = 0

-----------------------------------------------------------------------------
(* The LNURL controller                                                    *)

(* The mint answers createMintQuote with an invoice and its expiry.        *)
(* Bound: only quotes that expire before the clock stops are created.      *)
CreateMintQuote(q) ==
  /\ lnurl[q] = "idle"
  /\ now + Lifetime <= MaxTime
  /\ lnurl' = [lnurl EXCEPT ![q] = "quoted"]
  /\ mintState' = [mintState EXCEPT ![q] = "UNPAID"]
  /\ expiresAt' = [expiresAt EXCEPT ![q] = now + Lifetime]
  /\ UNCHANGED <<now, row, task, emitted, faults>>

(* The INSERT commits.                                                     *)
PersistQuote(q) ==
  /\ lnurl[q] = "quoted"
  /\ lnurl' = [lnurl EXCEPT ![q] = "persisted"]
  /\ row' = [row EXCEPT ![q].state = "UNPAID"]
  /\ UNCHANGED <<now, mintState, expiresAt, task, emitted, faults>>

(* Fault: the invoice is handed out while the INSERT is still under way.   *)
AnswerBeforeInsert(q) ==
  /\ lnurl[q] \in {"quoted", "persisted"}
  /\ lnurl' = [lnurl EXCEPT ![q] = "answered"]
  /\ UNCHANGED <<now, mintState, expiresAt, row, task, emitted, faults>>

(* The controller resumes after the INSERT and hands out the invoice.      *)
AnswerLnurl(q) ==
  /\ lnurl[q] = "persisted"
  /\ lnurl' = [lnurl EXCEPT ![q] = "answered"]
  /\ UNCHANGED <<now, mintState, expiresAt, row, task, emitted, faults>>

(* The INSERT is rejected, or its reply is lost: the request fails, and    *)
(* nobody learns the invoice of the quote the mint keeps.                  *)
PersistFails(q) ==
  /\ \/ lnurl[q] = "quoted"
     \/ lnurl[q] = "persisted"
  /\ faults < MaxFaults
  /\ faults' = faults + 1
  /\ lnurl' = [lnurl EXCEPT ![q] = "failed"]
  /\ UNCHANGED <<now, mintState, expiresAt, row, task, emitted>>

-----------------------------------------------------------------------------
(* The mint and the payer (external)                                       *)

(* Only someone who received the invoice can pay it, and the mint takes no *)
(* new payment once its own clock has passed the expiry.                   *)
Payable(q) ==
  /\ lnurl[q] = "answered"
  /\ mintState[q] = "UNPAID"
  /\ now < expiresAt[q] + Skew

MintMoves(q, to) ==
  /\ mintState' = [mintState EXCEPT ![q] = to]
  /\ UNCHANGED <<now, expiresAt, lnurl, row, task, emitted, faults>>

StartPayment(q) == Payable(q) /\ MintMoves(q, "PENDING")

FinishPayment(q) ==
  /\ mintState[q] = "PENDING"
  /\ \/ MintMoves(q, "PAID")
     \/ MintMoves(q, "UNPAID")

(* The recipient's wallet mints the ecash of a paid quote.                 *)
Issue(q) == mintState[q] = "PAID" /\ MintMoves(q, "ISSUED")

(* The mint prunes a quote nobody paid.                                    *)
Forget(q) == mintState[q] = "UNPAID" /\ MintMoves(q, "gone")

Tick ==
  /\ now < MaxTime
  /\ now' = now + 1
  /\ UNCHANGED <<mintState, expiresAt, lnurl, row, task, emitted, faults>>

-----------------------------------------------------------------------------
(* Observations                                                            *)

SetTask(q, c, t) == task' = [task EXCEPT ![q][c] = t]

(* Fault: quotes past their local expiry are no longer polled.             *)
TakeDueUnexpired(q, c) ==
  /\ c \in Pollers
  /\ task[q][c] = Idle
  /\ row[q].state = "UNPAID"
  /\ now < expiresAt[q]
  /\ SetTask(q, c, Claimed)
  /\ UNCHANGED <<now, mintState, expiresAt, lnurl, row, emitted, faults>>

(* takeDueForMintPolling selects and marks a quote that is still UNPAID,   *)
(* however long ago it expired.                                            *)
TakeDue(q, c) ==
  /\ c \in Pollers
  /\ task[q][c] = Idle
  /\ row[q].state = "UNPAID"
  /\ SetTask(q, c, Claimed)
  /\ UNCHANGED <<now, mintState, expiresAt, lnurl, row, emitted, faults>>

(* The mint's request budget lets the HTTP request start.                  *)
StartRequest(q, c) ==
  /\ task[q][c] = Claimed
  /\ SetTask(q, c, Requested(now))
  /\ UNCHANGED <<now, mintState, expiresAt, lnurl, row, emitted, faults>>

(* The mint answers with its current state.                                *)
MintAnswers(q, c) ==
  /\ task[q][c].at = "requested"
  /\ \/ /\ mintState[q] = "gone"
        /\ SetTask(q, c, Observed(q, "not_found", task[q][c].startedAt))
     \/ /\ mintState[q] \in Found
        /\ SetTask(q, c, Observed(q, mintState[q], task[q][c].startedAt))
  /\ UNCHANGED <<now, mintState, expiresAt, lnurl, row, emitted, faults>>

(* The mint answers about another quote.  checkQuote accepts the payload;  *)
(* only the handler compares the quote ids.                                *)
MintMisanswers(q, c) ==
  /\ task[q][c].at = "requested"
  /\ faults < MaxFaults
  /\ faults' = faults + 1
  /\ \E subject \in Quotes \ {q} :
       /\ mintState[subject] \in Found
       /\ SetTask(q, c, Observed(subject, mintState[subject], task[q][c].startedAt))
  /\ UNCHANGED <<now, mintState, expiresAt, lnurl, row, emitted>>

(* The mint notifies a subscribed quote.  requestStartedAt does not exist  *)
(* for a WebSocket observation; the field keeps the send time, unused.     *)
SocketMessage(q, c) ==
  /\ c \in Sockets
  /\ task[q][c] = Idle
  /\ row[q].state # "absent"
  /\ mintState[q] \in Found
  /\ SetTask(q, c, Observed(q, mintState[q], now))
  /\ UNCHANGED <<now, mintState, expiresAt, lnurl, row, emitted, faults>>

(* A request or a statement fails, or the reply to the committed UPDATE is *)
(* lost: the observation is dropped and logged, its event never emitted.   *)
ObservationFails(q, c) ==
  /\ task[q][c] # Idle
  /\ faults < MaxFaults
  /\ faults' = faults + 1
  /\ SetTask(q, c, Idle)
  /\ UNCHANGED <<now, mintState, expiresAt, lnurl, row, emitted>>

-----------------------------------------------------------------------------
(* The observation handler                                                 *)

(* Fault: the payload's quote id is not compared.                          *)
TargetUnmatched(q, c) ==
  { to \in Changes : Settled(to) /\ task[q][c].result = to }

(* Fault: expiry is judged when the answer arrives.                        *)
TargetAtArrival(q, c) ==
  LET o == task[q][c] IN
  { to \in Changes :
      \/ to = "EXPIRED" /\ c \in Pollers /\ o.result = "UNPAID" /\ now >= expiresAt[q]
      \/ Settled(to) /\ o.result = to /\ o.subject = q }

(* The target state toTransition chooses, or {} when it returns undefined. *)
Target(q, c) ==
  LET o == task[q][c] IN
  { to \in Changes :
      \/ /\ to = "EXPIRED"
         /\ c \in Pollers
         /\ \/ o.result = "not_found"
            \/ /\ o.result = "UNPAID"
               /\ o.subject = q
               /\ o.startedAt >= expiresAt[q]
      \/ /\ Settled(to)
         /\ o.result = to
         /\ o.subject = q }

(* getById returns and toTransition runs.                                  *)
LoadQuote(q, c) ==
  /\ task[q][c].at = "observed"
  /\ IF row[q].state = "absent" \/ Target(q, c) = {}
       THEN SetTask(q, c, Idle)
       ELSE \E to \in Target(q, c) : SetTask(q, c, Decided(to, now))
  /\ UNCHANGED <<now, mintState, expiresAt, lnurl, row, emitted, faults>>

(* The conditional UPDATE commits; paid_at = COALESCE(paid_at, $2).        *)
TransitionState(q, c) ==
  /\ task[q][c].at = "decided"
  /\ LET to == task[q][c].to
         r  == row[q]
     IN  IF r.state \in Sources[to]
           THEN /\ row' = [row EXCEPT ![q] =
                     [state |-> to, paidAt |-> PaidAt(to, r.paidAt, task[q][c].paidAt)]]
                /\ SetTask(q, c, Committed(to))
           ELSE /\ SetTask(q, c, Idle)
                /\ UNCHANGED row
  /\ UNCHANGED <<now, mintState, expiresAt, lnurl, emitted, faults>>

(* Fault: an expiry is not announced.                                      *)
EmitSettledOnly(q, c) ==
  /\ task[q][c].at = "committed"
  /\ emitted' = IF Settled(task[q][c].to) THEN [emitted EXCEPT ![q][task[q][c].to] = @ + 1]
                                          ELSE emitted
  /\ SetTask(q, c, Idle)
  /\ UNCHANGED <<now, mintState, expiresAt, lnurl, row, faults>>

(* The handler resumes with the updated row and emits the state change.    *)
EmitStateChanged(q, c) ==
  /\ task[q][c].at = "committed"
  /\ emitted' = [emitted EXCEPT ![q][task[q][c].to] = @ + 1]
  /\ SetTask(q, c, Idle)
  /\ UNCHANGED <<now, mintState, expiresAt, lnurl, row, faults>>

-----------------------------------------------------------------------------
(* The process dies and restarts; only the database and the mint remain.   *)
Crash ==
  /\ faults < MaxFaults
  /\ faults' = faults + 1
  /\ task' = [q \in Quotes |-> [c \in Channels |-> Idle]]
  /\ lnurl' = [q \in Quotes |->
       IF lnurl[q] \in {"quoted", "persisted"} THEN "failed" ELSE lnurl[q]]
  /\ UNCHANGED <<now, mintState, expiresAt, row, emitted>>

Lnurl(q) ==
  CreateMintQuote(q) \/ PersistQuote(q) \/ AnswerLnurl(q) \/ PersistFails(q)

Mint(q) == StartPayment(q) \/ FinishPayment(q) \/ Issue(q) \/ Forget(q)

(* What the event loop does for an observation once it is in flight.       *)
Proceed(q, c) ==
  \/ StartRequest(q, c)
  \/ MintAnswers(q, c)
  \/ LoadQuote(q, c)
  \/ TransitionState(q, c)
  \/ EmitStateChanged(q, c)

Next ==
  \/ \E q \in Quotes :
       \/ Lnurl(q)
       \/ Mint(q)
       \/ \E c \in Channels :
            \/ TakeDue(q, c)
            \/ SocketMessage(q, c)
            \/ Proceed(q, c)
            \/ MintMisanswers(q, c)
            \/ ObservationFails(q, c)
  \/ Tick
  \/ Crash

Spec == Init /\ [][Next]_vars

(* The event loop runs every promise to its end: a request ends by the     *)
(* executor's timeout, a statement by its result.  The polling rounds take *)
(* every UNPAID quote again and again (QuotePolling).  The clock advances, *)
(* and the mint resolves a pending payment.                                *)
Fairness ==
  /\ \A q \in Quotes :
       /\ WF_vars(FinishPayment(q))
       /\ \A c \in Channels : WF_vars(Proceed(q, c))
       /\ \A c \in Pollers : WF_vars(TakeDue(q, c))
  /\ WF_vars(Tick)

FairSpec == Spec /\ Fairness

-----------------------------------------------------------------------------
(* What the subsystem promises                                             *)

(* Committed changes whose event has not been emitted yet.                 *)
Unpublished ==
  [q \in Quotes |-> { s \in Changes : \E c \in Channels : task[q][c] = Committed(s) }]

Ledger == INSTANCE QuoteLedger WITH
            Times <- Time, ledger <- row, unpublished <- Unpublished, published <- emitted

(* The racing handlers implement the ledger: states only move forward,     *)
(* paid_at is kept once set, each committed change is published at most    *)
(* once and only after its commit.                                         *)
ImplementsLedger == Ledger!Spec

(* A quote is recorded as paid or issued only if the mint was paid, even   *)
(* when a mint answers about the wrong quote.                              *)
SettledOnlyIfPaid ==
  \A q \in Quotes : Settled(row[q].state) => Settled(mintState[q])

(* Whoever holds an invoice, and whatever crashed since, its quote is      *)
(* recorded: a payment always finds a row to credit.                       *)
InvoiceIsBacked ==
  \A q \in Quotes :
    lnurl[q] = "answered" \/ Settled(mintState[q]) => row[q].state # "absent"

(* When the mint takes no payment after the expiry it gave (Skew = 0), an  *)
(* EXPIRED row never hides a payment: the answer it rests on was requested *)
(* after the last moment the quote could have been paid.                   *)
ExpiryHidesNoPayment ==
  Skew = 0 =>
    \A q \in Quotes : row[q].state = "EXPIRED" => mintState[q] \in {"UNPAID", "gone"}

(* paid_at, the key of the payment history, is set exactly on the settled  *)
(* rows and never lies in the future.                                      *)
PaymentTimeRecorded ==
  \A q \in Quotes :
    IF Settled(row[q].state) THEN row[q].paidAt \in 0..now ELSE row[q].paidAt = NoTime

(* The strengthening that makes the safety properties inductive.           *)

(* A row is inserted once; an invoice is only with a payer once its row    *)
(* exists, and only such a quote is ever paid.                             *)
CreationInv ==
  \A q \in Quotes :
    /\ lnurl[q] = "idle" => mintState[q] = "none"
    /\ lnurl[q] \in {"idle", "quoted"} => row[q].state = "absent"
    /\ lnurl[q] \in {"persisted", "answered"} => row[q].state # "absent"
    /\ mintState[q] \in {"PENDING", "PAID", "ISSUED"} => lnurl[q] = "answered"

(* What an observation in flight claims stays true while it waits.         *)
EvidenceInv ==
  \A q \in Quotes, c \in Channels :
    /\ task[q][c].at \in {"requested", "observed"} => task[q][c].startedAt <= now
    /\ task[q][c].at = "observed" =>
         /\ Settled(task[q][c].result) => Settled(mintState[task[q][c].subject])
         /\ task[q][c].result = "not_found" => mintState[q] = "gone"
    /\ task[q][c].at = "decided" =>
         /\ Settled(task[q][c].to) => Settled(mintState[q])
         /\ task[q][c].paidAt <= now

SafetyInv ==
  TypeOK /\ CreationInv /\ EvidenceInv /\ SettledOnlyIfPaid /\ PaymentTimeRecorded

(* A quote that can no longer be paid.                                     *)
Dead(q) ==
  \/ mintState[q] = "gone"
  \/ mintState[q] = "UNPAID" /\ now >= expiresAt[q]

ExpiryInv ==
  \A q \in Quotes :
    /\ row[q].state = "EXPIRED" => Dead(q)
    /\ \A c \in Channels :
         /\ task[q][c].at = "decided" /\ task[q][c].to = "EXPIRED" => Dead(q)
         /\ \A s \in Quotes :
              /\ task[q][c].at = "observed"
              /\ task[q][c].subject = s
              /\ task[q][c].result = "UNPAID"
              => /\ mintState[s] # "none"
                 /\ task[q][c].startedAt >= expiresAt[s] => Dead(s)

(* A change was reached by the row before it is emitted, and it waits in   *)
(* one handler or has been emitted once, never both.                       *)
Reached(q, s) == Ledger!Rank[s] <= Ledger!Rank[row[q].state]

PublicationInv ==
  \A q \in Quotes, s \in Changes :
    /\ emitted[q][s] \in {0, 1}
    /\ emitted[q][s] = 1 => Reached(q, s)
    /\ \A c \in Channels :
         task[q][c] = Committed(s) =>
           /\ Reached(q, s)
           /\ emitted[q][s] = 0
           /\ \A d \in Channels : task[q][d] = Committed(s) => d = c

-----------------------------------------------------------------------------
(* A payment the mint received is recorded in the end, across crashes and  *)
(* failed requests (Skew = 0).                                             *)
PaymentIsCredited ==
  \A q \in Quotes : Settled(mintState[q]) ~> Settled(row[q].state)

(* As long as the process lives, every state a quote passes through is     *)
(* announced on the event bus.                                             *)
ChangeIsAnnounced ==
  \A q \in Quotes, s \in Changes :
    row[q].state = s ~> (emitted[q][s] = 1 \/ faults > 0)
=============================================================================
