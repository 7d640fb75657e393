------------------------------ MODULE Volumes ------------------------------
(***************************************************************************)
(* The queries behind the volume and price endpoints of the server, over    *)
(* the rows of order_fills (reader.rs) and of pools, and what the handlers  *)
(* of server.rs make of their results.  A fill is [id, pool, maker, taker,  *)
(* base, quote, price, ts]; the pools table is a sequence of [pool_id,      *)
(* pool_name]; a query gives its optional times in seconds.                 *)
(***************************************************************************)
EXTENDS Widths, Sequences, FiniteSets, FiniteSetsExt

CONSTANTS
    Second,      \* clock units in a second
    Day,         \* clock units in 24 hours
    NULL         \* an absent parameter, row or price

Elements(s) == {s[i] : i \in DOMAIN s}

start_time(q) == IF q.start_time = NULL THEN NULL ELSE Wrap(q.start_time * Second)
end_time(q, now) == IF q.end_time = NULL THEN now ELSE Wrap(q.end_time * Second)

Window(q, now) ==
    LET end == end_time(q, now)
    IN  [from |-> IF start_time(q) = NULL THEN Wrap(end - Day) ELSE start_time(q), to |-> end]

Between(fills, from, to) == {f \in fills : from <= f.ts /\ f.ts <= to}

-----------------------------------------------------------------------------
(* The maps the handlers build of the pools table; of two pools with one    *)
(* name the later row wins.                                                 *)

PoolNames(pools) == {p.pool_name : p \in Elements(pools)}

pool_name_to_id(pools) ==
    [n \in PoolNames(pools) |->
        pools[Max({i \in DOMAIN pools : pools[i].pool_name = n})].pool_id]

pool_ids(names, pools) ==
    {pool_name_to_id(pools)[n] : n \in names \cap PoolNames(pools)}

-----------------------------------------------------------------------------
(* historical_volume and its two variants for a balance manager. *)

Column(f, in_base) == IF in_base THEN f.base ELSE f.quote

get_historical_volume(fills, w, ids) ==
    {f \in Between(fills, w.from, w.to) : f.pool \in ids}

(* By pool name; pools without a fill have no entry. *)
volume_by_pool(found, pools, in_base) ==
    LET Volume(f) == Column(f, in_base)
        ids == pool_name_to_id(pools)
        At(n) == {f \in found : f.pool = ids[n]}
    IN  [n \in {m \in DOMAIN ids : At(m) # {}} |-> MapThenSumSet(Volume, At(n))]

get_order_fill_summary(fills, w, ids, manager) ==
    {f \in get_historical_volume(fills, w, ids) : manager \in {f.maker, f.taker}}

(* <<volume as maker, volume as taker>>: a fill of a trader with itself     *)
(* counts in both.                                                          *)
SidesOf(found, manager, in_base) ==
    LET Volume(f) == Column(f, in_base)
    IN  <<MapThenSumSet(Volume, {f \in found : f.maker = manager}),
          MapThenSumSet(Volume, {f \in found : f.taker = manager})>>

volume_by_manager(found, pools, manager, in_base) ==
    LET ids == pool_name_to_id(pools)
        At(n) == {f \in found : f.pool = ids[n]}
    IN  [n \in {m \in DOMAIN ids : At(m) # {}} |-> SidesOf(At(n), manager, in_base)]

-----------------------------------------------------------------------------
(* Prices. *)

(* ORDER BY timestamp DESC, first row: any of the latest; none is an error. *)
get_price(fills, from, to, id) ==
    LET found == {f \in Between(fills, from, to) : f.pool = id}
    IN  IF found = {} THEN {NULL}
        ELSE {f.price : f \in {g \in found : \A h \in found : h.ts <= g.ts}}

high_low_prices_24h(fills, now, id) ==
    LET prices == {f.price : f \in {g \in Between(fills, now - Day, now) : g.pool = id}}
    IN  IF prices = {} THEN <<0, 0>> ELSE <<Max(prices), Min(prices)>>
=============================================================================
