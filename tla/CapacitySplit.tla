--------------------------- MODULE CapacitySplit ----------------------------
(***************************************************************************)
(* How drainCapacity divides the capacity it may hand out among the lanes  *)
(* it serves: passes over the lanes below their limits, each with an equal *)
(* share of what remains, until all is granted or every lane is full.      *)
(***************************************************************************)
EXTENDS Naturals, Sequences, Functions

Smaller(a, b) == IF a <= b THEN a ELSE b

Larger(a, b) == IF a >= b THEN a ELSE b

(* The allocation so far; the lanes this pass has still to visit, and the  *)
(* ones the next pass will; the share of this pass.                        *)
Undealt(queue, amount) ==
  [alloc |-> [m \in Range(queue) |-> 0], remaining |-> amount,
   todo |-> <<>>, next |-> queue, share |-> 0]

NextPass(s) ==
  IF s.todo # <<>>
    THEN s
    ELSE [s EXCEPT !.todo = s.next,
                   !.next = <<>>,
                   !.share = Larger(1, s.remaining \div Len(s.next))]

(* One turn of the inner loop: a lane gets the share of this pass, as far  *)
(* as its limit and what remains allow.                                    *)
Visit(limit, s) ==
  LET m == Head(s.todo)
      granted == Smaller(limit[m] - s.alloc[m], Smaller(s.share, s.remaining))
  IN  [s EXCEPT !.alloc = [s.alloc EXCEPT ![m] = @ + granted],
                !.remaining = @ - granted,
                !.todo = Tail(@),
                !.next = IF s.alloc[m] + granted < limit[m] THEN Append(@, m) ELSE @]

Over(s) == s.remaining = 0 \/ (s.todo = <<>> /\ s.next = <<>>)

Turn(limit, s) == IF Over(s) THEN s ELSE Visit(limit, NextPass(s))

(* Turn(limit, s), by a choice that has TLC evaluate s once.               *)
Deal(limit, s) == CHOOSE t \in { Turn(limit, r) : r \in {s} } : TRUE

Dealing(limit, queue, amount) ==
  LET after[n \in Nat] == IF n = 0 THEN Undealt(queue, amount) ELSE Deal(limit, after[n - 1])
  IN  after

(* The loop's result: a visit grants a unit at least, so that it has ended *)
(* after as many visits as there are units.                                *)
Split(limit, queue, amount) == Dealing(limit, queue, amount)[amount].alloc

-----------------------------------------------------------------------------
(* What a division of the capacity promises: a unit at least for every     *)
(* lane, at most its limit; nothing left over that a lane could use; and a *)
(* lane below its limit has at most one unit less than any other.          *)
EvenShares(limit, ms, amount) ==
  { grant \in [ms -> 1..amount] :
      /\ \A m \in ms : grant[m] <= limit[m]
      /\ SumFunction(grant) = Smaller(amount, SumFunctionOnSet(limit, ms))
      /\ \A m, x \in ms : grant[m] < limit[m] => grant[x] <= grant[m] + 1 }
=============================================================================
