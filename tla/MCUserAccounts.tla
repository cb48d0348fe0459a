--------------------------- MODULE MCUserAccounts ---------------------------
(* An instance of UserAccounts for TLC: two users, the default mint and one *)
(* other mint that has three spellings, as https://m, https://m/ and        *)
(* https://m//, of which normalizing takes one slash at a time.             *)
EXTENDS UserAccounts

CONSTANTS home, away, away1, away2

Spellings == home :> home @@ away :> away @@ away1 :> away @@ away2 :> away1

Servers == home :> "home" @@ away :> "away" @@ away1 :> "away" @@ away2 :> "away"

Symmetry == Permutations(Pubkeys) \cup Permutations(Requests) \cup Permutations(Tokens)
=============================================================================
