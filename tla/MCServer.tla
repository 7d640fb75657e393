------------------------------ MODULE MCServer ------------------------------
(***************************************************************************)
(* The server's requests, for TLC, with those for market data.  A behaviour *)
(* works on one group of endpoints and leaves the others as they began:     *)
(*   "orders"    two orders of one trader, one of them half the u64 range;  *)
(*               requests for everything, for the orders placed in a late   *)
(*               window, of another trader;                                 *)
(*   "listings"  every listing; four rows, two of them at one time and one  *)
(*               a second before;                                           *)
(*   "admin"     two clients; one pool, created, updated and deleted;       *)
(*   "market"    ticker, of the day and of a window of its own, and         *)
(*               summary; a pool that another takes the name of at any      *)
(*               time; a trade between two traders and one of a trader with *)
(*               itself.                                                    *)
(***************************************************************************)
EXTENDS Server, TLC

CONSTANTS
    Undone,
    alice, bob,               \* traders
    x, y,                     \* values of columns
    k1, good, wrong,          \* a pool id; tokens
    A, B, a, b                \* names and ids of pools

VARIABLES
    part,
    now, fills, pools, req, answer                                   \* Market

marketVars == <<now, fills, pools, req, answer>>
allVars == <<part, serverVars, marketVars>>

-----------------------------------------------------------------------------
All == {"placed", "partially_filled", "filled", "canceled", "expired"}
OrdersQuery(m, start, statuses) ==
    [manager |-> m, start |-> start, end |-> 2, statuses |-> statuses, limit |-> 1]
MCOrders == 1..2
MCOwner == <<alice, alice>>
MCQuantity == <<3, 4>>
MCOrderQueries ==
    {OrdersQuery(alice, 0, All), OrdersQuery(alice, 2, {"placed"}), OrdersQuery(bob, 0, All)}

Columns == UNION {{e.query.filters[i] : i \in DOMAIN e.query.filters} : e \in AllEndpoints}
(* One column of each pair that a query filters on. *)
Half == {"margin_pool_id", "referral_id", "event_type", "balance_manager_id",
         "maker_balance_manager_id"}
RowAt(id, ts, here, there) ==
    [id |-> id, ts |-> ts, values |-> [c \in Columns |-> IF c \in Half THEN here ELSE there]]
MCRows == {RowAt(1, 1, x, x), RowAt(2, 4, x, x), RowAt(3, 4, y, x), RowAt(4, 5, x, y)}
MCDecoy == RowAt(0, 0, x, x)

Fields(name, size) == [pool_name |-> name, min_size |-> size]
Request(token, op, fields) == [token |-> token, op |-> op, id |-> k1, fields |-> fields]
MCRequests ==
    {Request(good, "create", Fields("a", 1)), Request(good, "update", Fields("b", NULL)),
     Request(good, "update", Fields(NULL, NULL)), Request(good, "delete", Fields(NULL, NULL)),
     Request(wrong, "delete", Fields(NULL, NULL)), Request(NULL, "delete", Fields(NULL, NULL)),
     Request(Empty, "create", Fields("c", 1))}

Trade(pool, maker, taker, base, price) ==
    [pool |-> pool, maker |-> maker, taker |-> taker, base |-> base, quote |-> base * price,
     price |-> price]
PoolRow(id, name) == [pool_id |-> id, pool_name |-> name]
Times(start, end) == [start_time |-> start, end_time |-> end]

M == INSTANCE Market WITH
    Second <- 1, Day <- 1, Late <- 0, Managers <- {alice, bob}, Names <- {A, B},
    Trades <- {Trade(a, alice, bob, 1, 2), Trade(a, bob, bob, 2, 1)},
    PoolTables <- {<<PoolRow(a, A)>>, <<PoolRow(b, A)>>},
    Asked <- {<<"summary", Times(NULL, NULL)>>, <<"ticker", Times(NULL, NULL)>>,
              <<"ticker", Times(NULL, 0)>>}, MaxClock <- 2, MaxFills <- 2

ASSUME MCServerAssumption == M!MarketAssumption

Init ==
    /\ part \in {"orders", "listings", "admin", "market"}
    /\ ServerInit /\ M!Init
    /\ part # "listings" => endpoint = CHOOSE e \in AllEndpoints : TRUE
    /\ part # "market" => pools = <<PoolRow(b, A)>>

Next ==
    \/ /\ part = "orders" /\ O!Next
       /\ UNCHANGED <<part, listingsVars, adminVars, marketVars>>
    \/ /\ part = "listings" /\ L!Next
       /\ UNCHANGED <<part, ordersVars, adminVars, marketVars>>
    \/ /\ part = "admin" /\ Adm!Next
       /\ UNCHANGED <<part, ordersVars, listingsVars, marketVars>>
    \/ part = "market" /\ M!Next /\ UNCHANGED <<part, serverVars>>

Spec == Init /\ [][Next]_allVars
-----------------------------------------------------------------------------
=============================================================================
