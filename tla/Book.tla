-------------------------------- MODULE Book --------------------------------
(***************************************************************************)
(* Orders, fills and the matching loop: book/book.move, book/order.move,    *)
(* book/order_info.move, book/fill.move and the fee of an order in          *)
(* vault/deep_price.move.                                                   *)
(*                                                                          *)
(* A book is a function on the arrival numbers of the resting orders.  The  *)
(* arrival number is not in the code: it says when an order was placed, so  *)
(* that time priority is something the order IDs have to achieve.  The code *)
(* orders each side by order_id, whose high bits are the price and whose    *)
(* low bits come from a counter of the side.                                *)
(***************************************************************************)
EXTENDS Balances, FiniteSets, Sequences

CONSTANTS
    PenaltyMultiplier,  \* constants::fee_penalty_multiplier
    MaxFills            \* constants::max_fills

ASSUME BookAssumption ==
    /\ PenaltyMultiplier \in Nat
    /\ MaxFills \in Nat \ {0}

OrderTypes == {"no_restriction", "immediate_or_cancel", "fill_or_kill", "post_only"}

SelfMatchingOptions == {"self_matching_allowed", "cancel_taker", "cancel_maker"}

OrderDeepPrice == [asset_is_base : BOOLEAN, deep_per_asset : Nat]

EmptyDeepPrice == [asset_is_base |-> FALSE, deep_per_asset |-> 0]

-----------------------------------------------------------------------------
(* The quantity a fee rate applies to: DEEP at the price the order got when  *)
(* it was created, or the input asset with the penalty when that price is 0. *)
fee_quantity(price, base, quote, is_bid) ==
    IF price.deep_per_asset > 0
    THEN new(0, 0, mul(IF price.asset_is_base THEN base ELSE quote, price.deep_per_asset))
    ELSE IF is_bid
         THEN new(0, mul(quote, PenaltyMultiplier), 0)
         ELSE new(mul(base, PenaltyMultiplier), 0, 0)

(* The fee of an order for a base and a quote quantity at a fee rate.        *)
FeeOf(o, base, quote, rate) ==
    mul_balances(fee_quantity(o.deep_price, base, quote, o.is_bid), rate)

remaining(o) == o.quantity - o.filled

(* What a resting order locks, or gives back, for a quantity of it.          *)
LockedFor(o, quantity, rate) ==
    LET quote == mul(quantity, o.price)
    IN  add_balances(IF o.is_bid THEN new(0, quote, 0) ELSE new(quantity, 0, 0),
                     FeeOf(o, quantity, quote, rate))

(* Mutant of calculate_cancel_refund: the maker fee is kept.                 *)
RefundWithoutFee(o, quantity, rate) ==
    IF o.is_bid THEN new(0, mul(quantity, o.price), 0) ELSE new(quantity, 0, 0)

calculate_cancel_refund(o, quantity, rate) == LockedFor(o, quantity, rate)

locked_balance(o, rate) == LockedFor(o, remaining(o), rate)

-----------------------------------------------------------------------------
(***************************************************************************)
(* Order IDs.  asks are scanned from min_slice up, bids from max_slice      *)
(* down; the ask counter counts up and the bid counter counts down.         *)
(***************************************************************************)
SmallerId(o, p) == o.price < p.price \/ (o.price = p.price /\ o.seq < p.seq)

(* Mutant of Ahead: both sides scan equal prices by growing counter.         *)
AheadByCounter(o, p) ==
    \/ IF o.is_bid THEN o.price > p.price ELSE o.price < p.price
    \/ o.price = p.price /\ o.seq < p.seq

Ahead(o, p) == IF o.is_bid THEN SmallerId(p, o) ELSE SmallerId(o, p)

(* The order that the scan of a non-empty set of arrivals reaches first.     *)
First(book, arrivals) ==
    CHOOSE k \in arrivals : \A j \in arrivals \ {k} : Ahead(book[k], book[j])

Side(book, is_bid) == {k \in DOMAIN book : book[k].is_bid = is_bid}

Without(book, k) == [j \in DOMAIN book \ {k} |-> book[j]]

With(book, k, o) == [j \in DOMAIN book \cup {k} |-> IF j = k THEN o ELSE book[j]]

-----------------------------------------------------------------------------
(***************************************************************************)
(* Matching.  m is the state of the loop in match_against_book:             *)
(*   book      the book so far                                              *)
(*   ahead     the arrivals of the other side the scan has not reached      *)
(*   executed  executed_quantity of the taker                               *)
(*   quote     cumulative_quote_quantity of the taker                       *)
(*   fills     the fills so far                                             *)
(*   aborted   whether a cancel_taker order met an order of its owner       *)
(* A fill keeps what process_fills needs of it.                             *)
(***************************************************************************)
StartOfMatch(book, is_bid) ==
    [book |-> book, ahead |-> Side(book, ~ is_bid), executed |-> 0, quote |-> 0,
     fills |-> <<>>, aborted |-> FALSE]

Crosses(taker, price) ==
    IF taker.is_bid THEN taker.price >= price ELSE taker.price <= price

can_match(taker, m) ==
    /\ m.ahead # {}
    /\ m.executed < taker.quantity
    /\ Crosses(taker, m.book[First(m.book, m.ahead)].price)

generate_fill(taker, timestamp, k, maker, wanted) ==
    LET expired == \/ timestamp > maker.expire
                   \/ /\ taker.self_matching = "cancel_maker"
                      /\ maker.owner = taker.owner
        base    == IF expired \/ remaining(maker) < wanted
                   THEN remaining(maker) ELSE wanted
    IN  [arrival |-> k, maker |-> maker, expired |-> expired,
         completed |-> ~ expired /\ base = remaining(maker),
         base |-> base, quote |-> mul(base, maker.price)]

(* One round of the loop: match_maker on the next order, and its removal     *)
(* from the book when it is filled or expired.                               *)
match_maker(taker, timestamp, m) ==
    LET k     == First(m.book, m.ahead)
        maker == m.book[k]
        fill  == generate_fill(taker, timestamp, k, maker, taker.quantity - m.executed)
    IN  IF ~ can_match(taker, m)
        THEN m
        ELSE [book |-> IF fill.expired \/ fill.completed
                       THEN Without(m.book, k)
                       ELSE [m.book EXCEPT ![k].filled = maker.filled + fill.base],
              ahead |-> m.ahead \ {k},
              executed |-> IF fill.expired THEN m.executed ELSE m.executed + fill.base,
              quote |-> IF fill.expired THEN m.quote ELSE m.quote + fill.quote,
              fills |-> Append(m.fills, fill),
              aborted |-> \/ m.aborted
                          \/ /\ taker.self_matching = "cancel_taker"
                             /\ maker.owner = taker.owner]

match_against_book(book, taker, timestamp) ==
    LET Loop[i \in 0..MaxFills] ==
            IF i = 0 THEN StartOfMatch(book, taker.is_bid)
                     ELSE match_maker(taker, timestamp, Loop[i - 1])
    IN  Loop[MaxFills]

(* The asserts of assert_execution.                                          *)
ExecutionAllowed(taker, m) ==
    /\ ~ m.aborted
    /\ taker.order_type = "post_only" => m.executed = 0
    /\ taker.order_type = "fill_or_kill" => m.executed = taker.quantity

(* Mutant of Rests: the fill limit is not looked at.                         *)
RestsDespiteLimit(taker, m) ==
    /\ taker.order_type # "immediate_or_cancel"
    /\ m.executed < taker.quantity

(* Whether create_order injects the order: assert_execution returned false.  *)
Rests(taker, m) ==
    /\ taker.order_type # "immediate_or_cancel"
    /\ m.executed < taker.quantity
    /\ Len(m.fills) < MaxFills

(* What the maker of a fill gets: its proceeds, or its funds when expired.   *)
get_settled_maker_quantities(fill) ==
    IF fill.maker.is_bid = fill.expired
    THEN new(0, fill.quote, 0)
    ELSE new(fill.base, 0, 0)
=============================================================================
