---------------------------- MODULE RateLimiter -----------------------------
(***************************************************************************)
(* The token bucket that limits what leaves a margin pool:                  *)
(* deepbook_margin/sources/rate_limiter.move.  A limiter is a record, at is *)
(* the time of the clock.                                                   *)
(***************************************************************************)
EXTENDS Integers

Lesser(x, y) == IF x < y THEN x ELSE y

(* The limiter of a new pool is full. *)
new_limiter(limits, at) ==
    [available |-> limits.capacity, last_updated_ms |-> at, capacity |-> limits.capacity,
     refill_rate_per_ms |-> limits.refill_rate_per_ms, enabled |-> limits.enabled]

refill(l, at) ==
    IF at > l.last_updated_ms
    THEN [l EXCEPT
            !.available = Lesser(@ + (at - l.last_updated_ms) * l.refill_rate_per_ms, l.capacity),
            !.last_updated_ms = at]
    ELSE l

AllowsWithdrawal(l, amount, at) == l.enabled => amount <= refill(l, at).available

(* Mutant of check_and_record_withdrawal: the tokens are counted but the    *)
(* time of the refill is not kept.                                          *)
check_and_record_withdrawalAgain(l, amount, at) ==
    IF l.enabled
    THEN [l EXCEPT !.available = refill(l, at).available - amount]
    ELSE l

check_and_record_withdrawal(l, amount, at) ==
    IF l.enabled THEN [refill(l, at) EXCEPT !.available = @ - amount] ELSE l

record_deposit(l, amount, at) ==
    IF l.enabled
    THEN [refill(l, at) EXCEPT !.available = Lesser(@ + amount, l.capacity)]
    ELSE l

update_config(l, limits, at) ==
    [available |-> Lesser(refill(l, at).available, limits.capacity),
     last_updated_ms |-> refill(l, at).last_updated_ms, capacity |-> limits.capacity,
     refill_rate_per_ms |-> limits.refill_rate_per_ms, enabled |-> limits.enabled]
=============================================================================
