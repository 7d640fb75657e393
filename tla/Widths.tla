------------------------------- MODULE Widths -------------------------------
(* The 64-bit integers of the server and the indexer, at a width that TLC   *)
(* can reach the end of.  The workspace's Cargo.toml sets no overflow       *)
(* checks: the arithmetic of a release build wraps.                         *)
EXTENDS Integers

CONSTANT Word      \* the number of values of a u64, 2^64

ASSUME WordAssumption == Word \in Nat /\ Word > 0 /\ Word % 2 = 0

(* A u64 as i64, as in a BIGINT column: the upper half comes out negative. *)
AsI64(x) == IF x < Word \div 2 THEN x ELSE x - Word

(* What a sum or a product of i64 comes to. *)
Wrap(x) == AsI64(x % Word)

Representable(x) == Wrap(x) = x
=============================================================================
