---------------------------- MODULE QuoteLedger ----------------------------
(***************************************************************************)
(* What the quote-reconciliation subsystem promises, whatever the number   *)
(* of observations in flight, their order, and the crashes in between:     *)
(*                                                                         *)
(*   - a Mint Quote only moves forward, UNPAID -> EXPIRED -> PAID ->       *)
(*     ISSUED, possibly skipping stages;                                   *)
(*   - its payment time is recorded by the first settlement and kept;      *)
(*   - every Quote State Change is published at most once, and only after  *)
(*     it was committed.  A crash or a lost reply may lose a publication.  *)
(***************************************************************************)
EXTENDS Naturals

CONSTANTS
  Quotes,       \* the Mint Quotes
  Times,        \* the times a settlement may be recorded at
  NoTime        \* a paid_at that was never set (NULL)

VARIABLES
  ledger,       \* [Quotes -> [state, paidAt]], the persisted rows
  unpublished,  \* [Quotes -> SUBSET Changes], committed and not yet published
  published     \* [Quotes -> [Changes -> Nat]], how often each was published

ledgerVars == <<ledger, unpublished, published>>

(* The target states of a Quote State Change. *)
Changes == {"EXPIRED", "PAID", "ISSUED"}

(* The order in which a quote may pass through its states. *)
Rank == [absent |-> 0, UNPAID |-> 1, EXPIRED |-> 2, PAID |-> 3, ISSUED |-> 4]

Settled(state) == state \in {"PAID", "ISSUED"}

Init ==
  /\ ledger = [q \in Quotes |-> [state |-> "absent", paidAt |-> NoTime]]
  /\ unpublished = [q \in Quotes |-> {}]
  /\ published = [q \in Quotes |-> [s \in Changes |-> 0]]

Open(q) ==
  /\ ledger[q].state = "absent"
  /\ ledger' = [ledger EXCEPT ![q].state = "UNPAID"]
  /\ UNCHANGED <<unpublished, published>>

(* A persisted state change towards "to"; t is the time of the settlement. *)
Change(q, to, t) ==
  /\ ledger[q].state # "absent"
  /\ Rank[ledger[q].state] < Rank[to]
  /\ ledger' = [ledger EXCEPT
       ![q] = [state  |-> to,
               paidAt |-> IF Settled(to) /\ @.paidAt = NoTime THEN t ELSE @.paidAt]]
  /\ unpublished' = [unpublished EXCEPT ![q] = @ \cup {to}]
  /\ UNCHANGED published

Publish(q, s) ==
  /\ s \in unpublished[q]
  /\ published[q][s] = 0
  /\ unpublished' = [unpublished EXCEPT ![q] = @ \ {s}]
  /\ published' = [published EXCEPT ![q][s] = 1]
  /\ UNCHANGED ledger

(* The process stops, or loses the database's reply, before some changes    *)
(* were published.                                                         *)
LosePublications ==
  /\ unpublished' \in [Quotes -> SUBSET Changes]
  /\ \A q \in Quotes : unpublished'[q] \subseteq unpublished[q]
  /\ UNCHANGED <<ledger, published>>

Next ==
  \/ \E q \in Quotes :
       \/ Open(q)
       \/ \E to \in Changes, t \in Times : Change(q, to, t)
       \/ \E s \in Changes : Publish(q, s)
  \/ LosePublications

Spec == Init /\ [][Next]_ledgerVars
=============================================================================
