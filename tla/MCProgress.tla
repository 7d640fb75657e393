----------------------------- MODULE MCProgress -----------------------------
(***************************************************************************)
(* What has to happen in the end in the server, for TLC.  The two tasks     *)
(* share no state; a behaviour works on one and leaves the other as it      *)
(* began:                                                                   *)
(*   "intervals"  a trader's volumes by interval, over one or two pools     *)
(*                that are added and renamed at any time, while fills       *)
(*                arrive late;                                              *)
(*   "poller"     a pool that can be polled, one that cannot, and one whose *)
(*                asset comes and goes; the rate limiter is off, then on.   *)
(***************************************************************************)
EXTENDS MarginPoller

CONSTANTS
    NULL, Undone,
    alice, bob,           \* traders
    A, B, a, b            \* names and ids of pools

VARIABLES
    part,
    now, fills, pools, req, answer                                        \* Market

marketVars == <<now, fills, pools, req, answer>>
allVars == <<part, marketVars, vars>>

-----------------------------------------------------------------------------
Trade(pool, maker, taker, base, price) ==
    [pool |-> pool, maker |-> maker, taker |-> taker, base |-> base, quote |-> base * price,
     price |-> price]
NamedPool(id, name) == [pool_id |-> id, pool_name |-> name]
Within(start, end, interval) ==
    [start_time |-> start, end_time |-> end, interval |-> interval, manager |-> alice,
     names |-> {A}]

(* None given, some, an interval of zero, a window that is still open, and  *)
(* an interval whose first end is beyond the integers (Word = 16).          *)
MCQueries ==
    {Within(NULL, NULL, 1), Within(0, 2, 1), Within(0, 2, 0), Within(1, NULL, 2), Within(1, 2, 7)}

M == INSTANCE Market WITH
    Second <- 1, Day <- 2, Late <- 1, Managers <- {alice, bob}, Names <- {A, B},
    Trades <- {Trade(a, alice, bob, 1, 2), Trade(a, bob, bob, 2, 1)},
    PoolTables <- {<<NamedPool(a, A)>>, <<NamedPool(a, B), NamedPool(b, A)>>},
    Asked <- {<<"intervals", q>> : q \in MCQueries}, MaxClock <- 2, MaxFills <- 2

Type(prefix, path) == [prefix |-> prefix, path |-> path]
MarginPool(id, type) == [pool_id |-> id, asset_type |-> type]
State(supply, borrow, vault, withdrawal) ==
    [total_supply |-> supply, total_borrow |-> borrow, vault_balance |-> vault,
     supply_cap |-> 7, interest_rate |-> 1, get_available_withdrawal |-> withdrawal]

MCPools == {MarginPool(1, Type("", "sui")), MarginPool(2, Type("0x", "usdc")),
            MarginPool(3, Type("0x", "deep"))}
MCAssetTables == {{Type("0x", "sui"), Type("", "usdc")},
                  {Type("0x", "sui"), Type("", "usdc"), Type("0x", "deep")}, {}}
MCStates == <<State(4, 2, 3, Word - 1), State(3, 0, 3, 5)>>

ASSUME MCProgressAssumption == M!MarketAssumption

MCInit ==
    /\ part \in {"intervals", "poller"}
    /\ M!Init /\ Init
    /\ part # "intervals" => pools = <<NamedPool(a, A)>>
    /\ part # "poller" => assets = {}

MCNext ==
    \/ part = "intervals" /\ M!Next /\ UNCHANGED <<part, vars>>
    \/ part = "poller" /\ Next /\ UNCHANGED <<part, marketVars>>

(* The fairness of Market and of MarginPoller, each for the behaviours that *)
(* work on it: the other's steps are not possible there.                    *)
InIntervals(Step) == part = "intervals" /\ Step /\ UNCHANGED <<part, vars>>
InPoller(Step) == part = "poller" /\ Step /\ UNCHANGED <<part, marketVars>>

MCFairSpec ==
    /\ MCInit /\ [][MCNext]_allVars
    /\ WF_allVars(InIntervals(M!Serve))
    /\ WF_allVars(InPoller(Poll))
    /\ SF_allVars(InPoller(Listed)) /\ SF_allVars(InPoller(Connected))
    /\ \A p \in Pools : SF_allVars(InPoller(PoolAnswers(p)))
-----------------------------------------------------------------------------
(* Market: the volumes of the makers, and those of the takers, add up to    *)
(* the volume of the pool, and the intervals of a trader's history leave no *)
(* gap (historical_volume against historical_volume_by_balance_manager_id,  *)
(* get_historical_volume_by_balance_manager_id_with_interval).              *)
VolumesAddUp == M!TypeOK /\ M!SidesAddUp /\ M!IntervalsCover

(* RequestsAreAnswered of Market: a request for intervals is answered,      *)
(* whatever its window and interval, as long as no end of an interval is    *)
(* beyond an i64.                                                           *)
RequestsAreAnswered == M!RequestsAreAnswered
=============================================================================
