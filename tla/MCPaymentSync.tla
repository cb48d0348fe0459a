--------------------------- MODULE MCPaymentSync ----------------------------
(* An instance of PaymentSync for TLC: the wallet's user has every quote,  *)
(* and somebody else may subscribe too.                                    *)
EXTENDS PaymentSync, TLC

CONSTANTS wallet, other

AllOfWallet == [q \in Quotes |-> wallet]

Symmetry == Permutations(Quotes) \cup Permutations(Conns)
=============================================================================
