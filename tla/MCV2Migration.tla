--------------------------- MODULE MCV2Migration ----------------------------
(* An instance of V2Migration for TLC: a table with an identity column and  *)
(* one without.                                                             *)
EXTENDS V2Migration

TwoTables == <<"l_users", "mints">>
OnlyUsers == {"l_users"}
=============================================================================
