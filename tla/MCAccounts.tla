----------------------------- MODULE MCAccounts -----------------------------
(* Accounts on two small instances: requests one at a time, or interleaved. *)
EXTENDS AccountsProperties, TLC

CONSTANTS a1, a2

MCSite ==
  {[serial |-> TRUE, accounts |-> {a1, a2}, addresses |-> 3, resets |-> 0, links |-> 2],
   [serial |-> FALSE, accounts |-> {a1}, addresses |-> 2, resets |-> 1, links |-> 1]}

MCSymmetry == Permutations(Request) \cup Permutations(Address)
=============================================================================
