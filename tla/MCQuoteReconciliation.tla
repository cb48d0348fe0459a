----------------------- MODULE MCQuoteReconciliation -----------------------
(* Instances of QuoteReconciliation for TLC: the symmetry of its safety     *)
(* runs.  Quotes, and the WebSocket observations of one quote, are          *)
(* interchangeable.                                                         *)
EXTENDS QuoteReconciliation, TLC

Symmetry == Permutations(Quotes) \cup Permutations(Sockets)
=============================================================================
