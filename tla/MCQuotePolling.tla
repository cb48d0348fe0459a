--------------------------- MODULE MCQuotePolling ---------------------------
(* Small instances of QuotePolling: two mints, a and b.                     *)
EXTENDS QuotePolling, TLC

CONSTANTS a, b, q1, q2, q3

(* Two quotes at a and one at b. *)
TwoAndOne == q1 :> a @@ q2 :> a @@ q3 :> b

(* One quote at each mint. *)
OneEach == q1 :> a @@ q2 :> b

(* Two quotes at a: when each check takes a tick, their turn takes a whole *)
(* poll interval of two ticks.                                              *)
TwoAtA == q1 :> a @@ q2 :> a

TwoEach == a :> 2 @@ b :> 2

TwoOrOne == a :> 2 @@ b :> 1

TwoAlone == a :> 2

(* Three lanes at most, with limits up to four, share up to nine units: the *)
(* passes end in every way, with lanes filled early, late or never.         *)
ASSUME SplitIsEven ==
  \A limit \in [1..3 -> 1..4], n \in 1..3, amount \in 1..9 :
    n <= amount =>
      Split(limit, [i \in 1..n |-> i], amount) \in EvenShares(limit, 1..n, amount)
=============================================================================
