------------------------------- MODULE Market -------------------------------
(***************************************************************************)
(* The market endpoints of the server (ticker, summary and the volumes of a *)
(* trader by interval, crates/server/src/server.rs) while fills are being   *)
(* indexed, time passes and the pools table is edited.  A request makes     *)
(* several reads, each a statement of its own: nothing holds the tables     *)
(* still between them.                                                      *)
(***************************************************************************)
EXTENDS Volumes, TLC

CONSTANTS
    Trades,         \* the fills that can happen, without their time
    Late,           \* how late a fill reaches the table
    PoolTables,     \* the contents the pools table can have
    Managers,       \* balance managers
    Names,          \* pool names
    Asked,          \* the requests: <<endpoint, query>>, a query being start_time and
                    \* end_time, and for intervals: interval, manager and pool names
    Undone,         \* a read not made yet
    MaxClock, MaxFills     \* bounds

(* summary asks ticker without parameters.                                  *)
Unconstrained == [start_time |-> NULL, end_time |-> NULL]

MarketAssumption ==
    /\ MaxClock \in Nat /\ MaxFills \in Nat /\ Late \in Nat
    /\ \A a \in Asked : /\ a[1] \in {"summary", "ticker", "intervals"}
                        /\ a[1] = "summary" => a[2] = Unconstrained

VARIABLES now, fills, pools, req, answer

world == <<now, fills, pools>>
vars == <<world, req, answer>>

Idle == [kind |-> "idle"]
NoAnswer == [kind |-> "none"]
Failed == [kind |-> "error"]

Init ==
    /\ now = 0 /\ fills = {} /\ pools \in PoolTables
    /\ req = Idle /\ answer = NoAnswer

-----------------------------------------------------------------------------
(* The rest of the world: the indexer, time, and the admin endpoints. *)

FillIndexed ==
    /\ Cardinality(fills) < MaxFills
    /\ \E t \in Trades, ts \in 0..now :
          /\ now - ts <= Late
          /\ fills' = fills \cup {t @@ [id |-> Cardinality(fills), ts |-> ts]}
    /\ UNCHANGED <<now, pools, req, answer>>

Tick ==
    /\ now < MaxClock /\ now' = now + 1
    /\ UNCHANGED <<fills, pools, req, answer>>

PoolsEdited ==
    /\ \E p \in PoolTables \ {pools} : pools' = p
    /\ UNCHANGED <<now, fills, req, answer>>

-----------------------------------------------------------------------------
(* Every endpoint first reads the pools table.  What the world was like     *)
(* then is kept for the properties.                                         *)

NoTicker == [pools |-> Undone, base |-> Undone, quote |-> Undone, last |-> Undone]
NoChange == [now |-> Undone, old |-> <<>>, new |-> <<>>]

Begin(kind, q) ==
    /\ req = Idle
    /\ req' = [kind |-> kind, query |-> q, pools |-> pools,
               began |-> [now |-> now, fills |-> fills],
               ticker |-> IF kind = "ticker" THEN [NoTicker EXCEPT !.pools = pools]
                          ELSE NoTicker,
               change |-> NoChange, high_low |-> Undone,
               window |-> Undone, current_start |-> Undone, intervals |-> <<>>]
    /\ answer' = NoAnswer
    /\ UNCHANGED world

Serving(kinds) == req.kind \in kinds /\ UNCHANGED world

Abort == req' = Idle /\ answer' = Failed

AllNames(ps) == PoolNames(ps)


(* all_historical_volume_with_pools, given the parameters of the request;   *)
(* without pools it is a bad request.                                       *)
AllVolumes(ps, in_base) ==
    volume_by_pool(get_historical_volume(fills, Window(req.query, now),
                                         pool_ids(AllNames(ps), ps)), ps, in_base)

ticker_pools ==
    /\ Serving({"summary"}) /\ req.ticker.pools = Undone
    /\ req' = [req EXCEPT !.ticker.pools = pools]
    /\ UNCHANGED answer

(* join!: the two volume queries, in either order. *)
fetch_historical_volume(in_base) ==
    /\ Serving({"summary", "ticker"}) /\ req.ticker.pools # Undone
    /\ LET ps == req.ticker.pools
           ready == (IF in_base THEN req.ticker.base ELSE req.ticker.quote) # Undone
       IN  /\ ~ready
           /\ IF pool_ids(AllNames(ps), ps) = {} THEN Abort
              ELSE /\ req' = IF in_base THEN [req EXCEPT !.ticker.base = AllVolumes(ps, TRUE)]
                             ELSE [req EXCEPT !.ticker.quote = AllVolumes(ps, FALSE)]
                   /\ UNCHANGED answer

last_prices ==
    /\ Serving({"summary", "ticker"}) /\ req.ticker.last = Undone
    /\ req.ticker.base # Undone /\ req.ticker.quote # Undone
    /\ \E last \in [Elements(req.ticker.pools) -> UNION {get_price(fills, now - Day, now, p.pool_id) :
                                                      p \in Elements(req.ticker.pools)}] :
          /\ \A p \in DOMAIN last : last[p] \in get_price(fills, now - Day, now, p.pool_id)
          /\ req' = [req EXCEPT !.ticker.last = last]
    /\ UNCHANGED answer

(* price_change_24h: the time is read once; then, pool by pool, the last    *)
(* price of the day before and that of the day.                             *)
price_change_24h ==
    /\ Serving({"summary"})
    /\ LET c == req.change
           ids == pool_name_to_id(req.pools)
       IN  \/ /\ c.now = Undone
              /\ req' = [req EXCEPT !.change.now = now]
           \/ /\ c.now # Undone /\ DOMAIN c.old = DOMAIN c.new
              /\ \E n \in DOMAIN ids \ DOMAIN c.old :
                   \E old \in get_price(fills, c.now - 2 * Day, c.now - Day, ids[n]) :
                      req' = [req EXCEPT !.change.old = (n :> old) @@ @]
           \/ /\ \E n \in DOMAIN c.old \ DOMAIN c.new :
                   \E new \in get_price(fills, c.now - Day, c.now, ids[n]) :
                      req' = [req EXCEPT !.change.new = (n :> new) @@ @]
    /\ UNCHANGED answer

high_low ==
    /\ Serving({"summary"}) /\ req.high_low = Undone
    /\ req' = [req EXCEPT !.high_low =
                  [n \in DOMAIN pool_name_to_id(req.pools) |->
                      high_low_prices_24h(fills, now, pool_name_to_id(req.pools)[n])]]
    /\ UNCHANGED answer

-----------------------------------------------------------------------------
(* Putting an answer together. *)

Or0(x) == IF x = NULL THEN 0 ELSE x
Get(map, key) == IF key \in DOMAIN map THEN map[key] ELSE 0

(* One row per pool of the ticker's map; rows of one name overwrite each    *)
(* other in an order the map does not fix.                                  *)
TickerRow(p) ==
    [pool_id |-> p.pool_id, last_price |-> Or0(req.ticker.last[p]),
     base_volume |-> Get(req.ticker.base, p.pool_name),
     quote_volume |-> Get(req.ticker.quote, p.pool_name)]

TickerMap(rows) ==
    /\ DOMAIN rows = PoolNames(req.ticker.pools)
    /\ \A n \in DOMAIN rows : \E p \in Elements(req.ticker.pools) :
          p.pool_name = n /\ rows[n] = TickerRow(p)

TickerMaps ==
    {rows \in [PoolNames(req.ticker.pools) -> {TickerRow(p) : p \in Elements(req.ticker.pools)}] :
        TickerMap(rows)}

Reply(rows) ==
    answer' = [kind |-> req.kind, query |-> req.query, rows |-> rows, began |-> req.began,
               pools |-> req.pools, ticker_pools |-> req.ticker.pools, window |-> req.window,
               ended |-> [now |-> now, fills |-> fills]]

ticker ==
    /\ Serving({"ticker"}) /\ req.ticker.last # Undone
    /\ \E rows \in TickerMaps : Reply(rows)
    /\ req' = Idle

PriceChange(n) ==
    IF req.change.old[n] # NULL /\ req.change.new[n] # NULL
    THEN <<req.change.old[n], req.change.new[n]>> ELSE NULL

(* Pools the ticker found under a name that summary did not know are left   *)
(* out.                                                                     *)
summary ==
    /\ Serving({"summary"})
    /\ req.ticker.last # Undone /\ req.high_low # Undone
    /\ req.change.now # Undone /\ DOMAIN req.change.new = PoolNames(req.pools)
    /\ \E rows \in TickerMaps :
          Reply([n \in DOMAIN rows \cap PoolNames(req.pools) |->
                    rows[n] @@ [change |-> PriceChange(n), high |-> req.high_low[n][1],
                                low |-> req.high_low[n][2]]])
    /\ req' = Idle

-----------------------------------------------------------------------------
(* get_historical_volume_by_balance_manager_id_with_interval: a query per   *)
(* interval, one after the other; the result is keyed by interval.          *)

(* Mutant of IsBadInterval: an interval of zero is accepted.                 *)
IsNegativeInterval(interval) == interval < 0

IsBadInterval(interval) == interval <= 0

parse_interval ==
    /\ Serving({"intervals"}) /\ req.window = Undone
    /\ LET w == Window(req.query, now) IN
          IF pool_ids(req.query.names, req.pools) = {} \/ IsBadInterval(req.query.interval)
          THEN Abort
          ELSE /\ req' = [req EXCEPT !.window = w, !.current_start = w.from]
               /\ UNCHANGED answer

(* Both the multiplication and the sum may wrap. *)
interval_ms == Wrap(req.query.interval * Second)
current_end == Wrap(req.current_start + interval_ms)

(* Mutant of with_interval: the last interval that fits is left out.         *)
with_intervalShort ==
    /\ Serving({"intervals"}) /\ req.window # Undone
    /\ LET q == req.query
           v == [from |-> req.current_start, to |-> current_end]
           found == get_order_fill_summary(fills, v, pool_ids(q.names, req.pools), q.manager)
       IN  IF v.to >= req.window.to
           THEN Reply(req.intervals) /\ req' = Idle
           ELSE /\ req' = [req EXCEPT
                              !.current_start = v.to,
                              !.intervals =
                                 (v :> volume_by_manager(found, req.pools, q.manager, TRUE)) @@ @]
                /\ UNCHANGED answer

with_interval ==
    /\ Serving({"intervals"}) /\ req.window # Undone
    /\ LET q == req.query
           v == [from |-> req.current_start, to |-> current_end]
           found == get_order_fill_summary(fills, v, pool_ids(q.names, req.pools), q.manager)
       IN  IF v.to > req.window.to
           THEN Reply(req.intervals) /\ req' = Idle
           ELSE /\ req' = [req EXCEPT
                              !.current_start = v.to,
                              !.intervals =
                                 (v :> volume_by_manager(found, req.pools, q.manager, TRUE)) @@ @]
                /\ UNCHANGED answer

Serve ==
    \/ ticker_pools
    \/ \E in_base \in BOOLEAN : fetch_historical_volume(in_base)
    \/ last_prices
    \/ price_change_24h
    \/ high_low
    \/ ticker
    \/ summary
    \/ parse_interval
    \/ with_interval

Next ==
    \/ FillIndexed
    \/ Tick
    \/ PoolsEdited
    \/ \E a \in Asked : Begin(a[1], a[2])
    \/ Serve

Spec == Init /\ [][Next]_vars

(* Statements finish, and a request is polled by the runtime until it is done. *)
FairSpec == Spec /\ WF_vars(Serve)
-----------------------------------------------------------------------------
Figures == IF answer.kind \in {"summary", "ticker"} THEN DOMAIN answer.rows ELSE {}

TypeOK ==
    /\ now \in 0..MaxClock /\ Cardinality(fills) <= MaxFills /\ pools \in PoolTables
    /\ req.kind \in {a[1] : a \in Asked} \cup {"idle"}
    /\ answer.kind \in {a[1] : a \in Asked} \cup {"none", "error"}
    /\ \A n \in Figures : NULL \notin {answer.rows[n].last_price, answer.rows[n].base_volume,
                                      answer.rows[n].quote_volume}

(* Where the window of query q was when the request began and when it ended:*)
(* an end that is not given is the time of the read.                        *)
First(q) == Window(q, answer.began.now)
Last(q) == Window(q, answer.ended.now)

(* Fills of pool id that were there, and in the window, all through the     *)
(* request; and those that were so at some point of it.                     *)
Throughout(q, id) ==
    {f \in Between(answer.began.fills, Last(q).from, First(q).to) : f.pool = id}
AtSomePoint(q, id) ==
    {f \in Between(answer.ended.fills, First(q).from, Last(q).to) : f.pool = id}

AtSomePointOfTheDayBefore(id) ==
    {f \in Between(answer.ended.fills, answer.began.now - 2 * Day, answer.ended.now - Day) :
        f.pool = id}

Sums(found) ==
    LET Base(f) == f.base
        Quote(f) == f.quote
    IN  <<MapThenSumSet(Base, found), MapThenSumSet(Quote, found)>>
Prices(found) == {f.price : f \in found}

(* Volumes miss no fill that was in the window asked for all through the    *)
(* request and count none that never was in it.                             *)
VolumesWithin(q, r) ==
    LET least == Sums(Throughout(q, r.pool_id))
        most == Sums(AtSomePoint(q, r.pool_id))
    IN  /\ least[1] <= r.base_volume /\ r.base_volume <= most[1]
        /\ least[2] <= r.quote_volume /\ r.quote_volume <= most[2]

(* A last price is one of the last 24 hours, whatever window the volumes    *)
(* are of, and 0 only if there may have been none.                          *)
LastPriceWithin(r) ==
    IF r.last_price = 0 THEN Throughout(Unconstrained, r.pool_id) = {}
    ELSE r.last_price \in Prices(AtSomePoint(Unconstrained, r.pool_id))

(* So are the ends of the range, of the pool id, and no price that was      *)
(* there throughout is outside them.  The change is between a price of the  *)
(* day before and one of the day.                                           *)
RangeAndChangeWithin(r, id) ==
    LET some == Prices(AtSomePoint(Unconstrained, id)) IN
    /\ {r.high, r.low} \subseteq some \cup {0}
    /\ \A p \in Prices(Throughout(Unconstrained, id)) : r.low <= p /\ p <= r.high
    /\ r.change # NULL =>
          /\ r.change[1] \in Prices(AtSomePointOfTheDayBefore(id))
          /\ r.change[2] \in some


(* When nothing moves during a request its figures agree with each other:   *)
(* the last price is within the day's range and is the one the change is    *)
(* computed to, and there is a price exactly if there was volume.           *)
Quiet == answer.began = answer.ended
QuietFiguresAgree ==
    \A n \in Figures :
        LET r == answer.rows[n] IN
        Quiet /\ answer.kind = "summary" /\ r.pool_id = pool_name_to_id(answer.pools)[n] =>
            /\ r.low <= r.last_price /\ r.last_price <= r.high
            /\ (r.last_price = 0) <=> (r.base_volume = 0)
            /\ r.change # NULL => r.low <= r.change[2] /\ r.change[2] <= r.high

(* Both sides of the market add up to the volume of the pool: every fill    *)
(* has one maker and one taker, a trader may be both                        *)
(* (historical_volume against ..._by_balance_manager_id).                   *)
SidesAddUp ==
    LET w == Window(Unconstrained, now)
        ids == pool_ids(Names, pools)
        total == volume_by_pool(get_historical_volume(fills, w, ids), pools, TRUE)
        Side(m) == volume_by_manager(get_order_fill_summary(fills, w, ids, m), pools, m, TRUE)
        Maker(n, m) == IF n \in DOMAIN Side(m) THEN Side(m)[n][1] ELSE 0
        Taker(n, m) == IF n \in DOMAIN Side(m) THEN Side(m)[n][2] ELSE 0
        Makers(n) == LET M(m) == Maker(n, m) IN MapThenSumSet(M, Managers)
        Takers(n) == LET T(m) == Taker(n, m) IN MapThenSumSet(T, Managers)
    IN  \A n \in DOMAIN total : Makers(n) = total[n] /\ Takers(n) = total[n]

(* Whether interval_ms and the ends of the intervals are what they are      *)
(* meant to be: none of them is beyond an i64.                              *)
IntervalFits(q, w) ==
    LET length == q.interval * Second IN
    Representable(length) /\ Representable(w.from + length) /\ Representable(w.to + length)

(* The intervals of a trader's history leave no gap: a fill that was in the *)
(* table throughout counts in the interval its time falls in, and in both   *)
(* neighbours when it falls on their common end; what is left over at the   *)
(* end of the window is shorter than an interval.                           *)
IntervalsCover ==
    answer.kind = "intervals" /\ IntervalFits(answer.query, answer.window) =>
        LET q == answer.query
            w == answer.window
            done == DOMAIN answer.rows
            At(f) == {v \in done : v.from <= f.ts /\ f.ts <= v.to}
            end == IF done = {} THEN w.from ELSE Max({v.to : v \in done})
            ids == pool_name_to_id(answer.pools)
        IN  /\ end <= w.to => w.to - end < q.interval * Second
            /\ \A f \in answer.began.fills : \A n \in q.names \cap DOMAIN ids :
                  (/\ f.pool = ids[n] /\ f.maker = q.manager
                   /\ done # {} /\ w.from <= f.ts /\ f.ts <= end)
                  => /\ Cardinality(At(f)) \in {1, 2}
                     /\ \A v \in At(f) : answer.rows[v][n][1] >= f.base

(* A request is answered: nothing that is read can keep it waiting.  A      *)
(* request for intervals is excepted when an end of an interval, or its     *)
(* length in milliseconds, is beyond an i64: the length may come out as 0,  *)
(* and the loop then goes on for ever.                                      *)
Overflows == req.kind = "intervals" /\ req.window # Undone /\ ~IntervalFits(req.query, req.window)
RequestsAreAnswered == (req # Idle) ~> (req = Idle \/ Overflows)
=============================================================================
