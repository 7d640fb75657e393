------------------------------- MODULE Totals -------------------------------
(***************************************************************************)
(* Sums over balance managers.  The accounts of a pool are kept in a table  *)
(* keyed by the ID of a balance manager; the models number the balance      *)
(* managers 1..n, and a quantity held per balance manager is a function on  *)
(* 1..n.  ArithmeticLemmas proves the facts about totals that proofs cite.  *)
(***************************************************************************)
EXTENDS Integers

(***************************************************************************)
(* PrefixSum(f, n)[i] is f[1] + ... + f[i].                                 *)
(***************************************************************************)
PrefixSum(f, n) ==
    LET s[i \in 0..n] == IF i = 0 THEN 0 ELSE s[i - 1] + f[i]
    IN  s

Total(f, n) == PrefixSum(f, n)[n]
=============================================================================
