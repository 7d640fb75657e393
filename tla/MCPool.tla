------------------------------- MODULE MCPool -------------------------------
(***************************************************************************)
(* Instances of Pool for TLC.                                               *)
(***************************************************************************)
EXTENDS Pool

MCFunds == [u \in Users |-> new(6, 10, 10)]

(* The first can trade on both sides, also with itself, the other can buy.   *)
MCSomeFunds == [u \in Users |-> IF u = 1 THEN new(3, 4, 0) ELSE new(0, 6, 0)]

(* A seller, and a buyer with enough for an order of three units.            *)
MCFewFunds == [u \in Users |-> IF u = N THEN new(1, 9, 0) ELSE new(3, 0, 0)]

MCFees == {[taker_fee |-> 2, maker_fee |-> 1], [taker_fee |-> 1, maker_fee |-> 0]}

MCNoFees == {[taker_fee |-> 0, maker_fee |-> 0]}

MCNoReferral == [u \in Users |-> 0]

(* The first balance manager has a referral with a multiplier of 1.          *)
MCReferral == [u \in Users |-> IF u = 1 THEN Scale ELSE 0]

(* A DEEP price of 3/2 per unit of the quote asset.                          *)
MCDeepPrices == {[asset_is_base |-> FALSE, deep_per_asset |-> 3]}
=============================================================================
