---------------------------- MODULE MCGovernance ----------------------------
(***************************************************************************)
(* Instances of Governance for TLC.                                         *)
(***************************************************************************)
EXTENDS Governance

MCInitialDeep == [u \in Users |-> IF u = 2 THEN 3 ELSE 1]

MCFeeBounds ==
    [k \in {"stable", "volatile"} |->
        IF k = "stable"
        THEN [min_taker |-> 2, max_taker |-> 4, min_maker |-> 0, max_maker |-> 2]
        ELSE [min_taker |-> 4, max_taker |-> 8, min_maker |-> 0, max_maker |-> 4]]

(* The first is valid in a stable pool, the second in both kinds.            *)
MCTradeParams ==
    {[taker_fee |-> 2, maker_fee |-> 0, stake_required |-> 1],
     [taker_fee |-> 4, maker_fee |-> 2, stake_required |-> 2]}
=============================================================================
