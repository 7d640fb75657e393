------------------------------- MODULE Median -------------------------------
(***************************************************************************)
(* The median of a vector in helper/math.move, which History takes of the   *)
(* volumes of the last epochs.                                              *)
(***************************************************************************)
EXTENDS Balances, Sequences, FiniteSets

quick_sort[data \in Seq(Nat)] ==
    IF Len(data) <= 1
    THEN data
    ELSE LET Less(x) == x < data[1]
             Equal(x) == x = data[1]
             Greater(x) == x > data[1]
         IN  quick_sort[SelectSeq(data, Less)]
               \o SelectSeq(data, Equal)
               \o quick_sort[SelectSeq(data, Greater)]

(* Mutant of median: the element after the middle.                           *)
medianUpper(v) ==
    IF v = <<>> THEN 0 ELSE quick_sort[v][(Len(v) \div 2) + 1]

(* With an even number of values the mean of the two in the middle, as a     *)
(* product with one half that is rounded down.                               *)
median(v) ==
    LET n == Len(v)
        sorted == quick_sort[v]
    IN  IF n = 0
        THEN 0
        ELSE IF n % 2 = 0
             THEN mul(sorted[n \div 2] + sorted[(n \div 2) + 1], Scale \div 2)
             ELSE sorted[(n \div 2) + 1]
=============================================================================
