--------------------------- MODULE CapacityBudget ---------------------------
(***************************************************************************)
(* What the lanes rely on in the capacity they share, whatever the rounds, *)
(* failures and shutdowns around it:                                       *)
(*                                                                         *)
(*   - a lane asks with empty hands, and waits in one place of the queue;  *)
(*   - lanes are served in the order in which they asked, several at once, *)
(*     each with an even share, and one is left out only when the others   *)
(*     have taken all that was handed out;                                 *)
(*   - never more is handed out than what is free, and what a lane holds   *)
(*     changes otherwise only when it gives back.                          *)
(***************************************************************************)
EXTENDS CapacitySplit

CONSTANTS
  Lanes,     \* the lanes that share the capacity
  Limit,     \* [Lanes -> Nat], the most a lane can use at a time
  Capacity   \* the capacity

VARIABLES
  waiting,   \* the lanes that asked, the longest-waiting first
  held       \* [Lanes -> Nat], what each lane holds

budgetVars == <<waiting, held>>

-----------------------------------------------------------------------------
Init ==
  /\ waiting = <<>>
  /\ held = [m \in Lanes |-> 0]

(* A lane gives back whatever it holds, and asks.                          *)
Ask(m) ==
  /\ m \notin Range(waiting)
  /\ waiting' = Append(waiting, m)
  /\ held' = [held EXCEPT ![m] = 0]

GiveBack(m, n) ==
  /\ n \in 1..held[m]
  /\ held' = [held EXCEPT ![m] = @ - n]
  /\ UNCHANGED waiting

Serve(n, amount) ==
  LET ms == Range(SubSeq(waiting, 1, n)) IN
  /\ n <= amount /\ SumFunctionOnSet(held, Lanes) + amount <= Capacity
  /\ n < Len(waiting) => n = amount
  /\ waiting' = SubSeq(waiting, n + 1, Len(waiting))
  /\ \E grant \in EvenShares(Limit, ms, amount) :
       held' = [m \in Lanes |-> IF m \in ms THEN grant[m] ELSE held[m]]

(* Shutdown: nobody waits any longer.                                      *)
Cancel ==
  /\ waiting' = <<>>
  /\ UNCHANGED held

Next ==
  \/ \E m \in Lanes : Ask(m) \/ \E n \in 1..held[m] : GiveBack(m, n)
  \/ \E n \in 1..Len(waiting), amount \in 1..Capacity : Serve(n, amount)
  \/ Cancel

Spec == Init /\ [][Next]_budgetVars
=============================================================================
