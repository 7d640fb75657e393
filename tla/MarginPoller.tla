--------------------------- MODULE MarginPoller ---------------------------
(***************************************************************************)
(* The background task of the server that polls the margin pools on the     *)
(* chain (crates/server/src/margin_metrics): every interval it lists the    *)
(* pools in the database, asks an RPC node for the state of each, sets the  *)
(* gauges and saves a snapshot.  Pools change on the chain, assets are      *)
(* registered and removed, and every call can fail.                         *)
(***************************************************************************)
EXTENDS Widths, Sequences, FiniteSets

CONSTANTS
    Pools,          \* the rows of margin_pool_created: [pool_id, asset_type]
    AssetTables,    \* the sets of asset types the assets table can hold
    States,         \* States[v]: what the view functions of a pool say at version v
    Gone,           \* ids of pools that the RPC node cannot answer for
    Unset           \* a gauge without a value

(* A view of a pool is the results of six view functions, all of them u64. *)
U64 == 0..(Word - 1)
View == [total_supply : U64, total_borrow : U64, vault_balance : U64, supply_cap : U64,
         interest_rate : U64, get_available_withdrawal : U64]

ASSUME PollerAssumption == States \in Seq(View) /\ Len(States) > 0

Ids == {p.pool_id : p \in Pools}

VARIABLES
    chain,        \* the version each pool is at
    assets,       \* the assets table
    pc,           \* "sleep", "list", "connect" or "query"
    todo,         \* pools still to query in this poll
    gauges,       \* per pool: the gauges
    snapshots,    \* per pool: the states saved, as the columns hold them
    outcome,      \* what the last poll was counted as
    updated       \* pools whose gauges the last poll set, for the properties

vars == <<chain, assets, pc, todo, gauges, snapshots, outcome, updated>>

NoGauges == [state |-> Unset, utilization |-> Unset, solvency |-> Unset, liquidity |-> Unset]

Init ==
    /\ chain = [i \in Ids |-> 1] /\ assets \in AssetTables
    /\ pc = "sleep" /\ todo = {}
    /\ gauges = [i \in Ids |-> NoGauges] /\ snapshots = [i \in Ids |-> {}]
    /\ outcome = "none" /\ updated = {}

PoolChanges ==
    /\ \E i \in Ids : chain[i] < Len(States) /\ chain' = [chain EXCEPT ![i] = @ + 1]
    /\ UNCHANGED <<assets, pc, todo, gauges, snapshots, outcome, updated>>

AssetsEdited ==
    /\ \E a \in AssetTables \ {assets} : assets' = a
    /\ UNCHANGED <<chain, pc, todo, gauges, snapshots, outcome, updated>>

-----------------------------------------------------------------------------
(* run: sleep, then poll.  The cancellation token is never cancelled.       *)
Wake ==
    /\ pc = "sleep" /\ pc' = "list"
    /\ updated' = {} /\ outcome' = "none"
    /\ UNCHANGED <<chain, assets, todo, gauges, snapshots>>

EndPoll(result) == pc' = "sleep" /\ outcome' = result /\ todo' = {}

(* Mutant of Normalized: the types are compared as they are written.         *)
AsWritten(type) == type

(* An asset type is [prefix, path]: written with 0x in front or without.    *)
Normalized(type) == type.path

(* Pools whose asset is not in the assets table are left out. *)
get_margin_pools ==
    {p \in Pools : \E a \in assets : Normalized(a) = Normalized(p.asset_type)}

List ==
    /\ pc = "list"
    /\ \/ /\ get_margin_pools = {} /\ EndPoll("success")
       \/ /\ get_margin_pools # {} /\ pc' = "connect" /\ todo' = get_margin_pools
          /\ UNCHANGED outcome
       \/ EndPoll("error")
    /\ UNCHANGED <<chain, assets, gauges, snapshots, updated>>

Connect ==
    /\ pc = "connect"
    /\ \/ pc' = "query" /\ UNCHANGED <<todo, outcome>>
       \/ EndPoll("error")
    /\ UNCHANGED <<chain, assets, gauges, snapshots, updated>>

-----------------------------------------------------------------------------
(* One transaction calls the view functions; their results come back in the *)
(* order of the calls and are taken out by index.                           *)

ViewCalls == <<"total_supply", "total_borrow", "vault_balance", "supply_cap",
               "interest_rate", "get_available_withdrawal">>

(* Mutant of query_pool_state: two results are taken for each other.         *)
query_pool_stateSwapped(s) ==
    LET results == [k \in DOMAIN ViewCalls |-> s[ViewCalls[k]]]
    IN  [total_supply |-> results[1], total_borrow |-> results[3],
         vault_balance |-> results[2], supply_cap |-> results[4],
         interest_rate |-> results[5], get_available_withdrawal |-> results[6]]

query_pool_state(s) ==
    LET results == [k \in DOMAIN ViewCalls |-> s[ViewCalls[k]]]
    IN  [total_supply |-> results[1], total_borrow |-> results[2],
         vault_balance |-> results[3], supply_cap |-> results[4],
         interest_rate |-> results[5], get_available_withdrawal |-> results[6]]

(* Ratios are kept as pairs; the solvency gauge is left alone when nothing  *)
(* is borrowed.                                                             *)
update_pool_metrics(g, s) ==
    [state |-> s,
     utilization |-> IF s.total_supply > 0 THEN <<s.total_borrow, s.total_supply>> ELSE <<0, 1>>,
     solvency |-> IF s.total_borrow > 0 THEN <<s.vault_balance, s.total_borrow>>
                  ELSE g.solvency,
     liquidity |-> IF s.total_supply > 0 THEN <<s.vault_balance, s.total_supply>> ELSE <<1, 1>>]

(* save_snapshot: the columns are BIGINT. *)
AsSaved(s) == [figure \in DOMAIN s |-> AsI64(s[figure])]

(* The pools of the list one after the other; the listing has no order. *)
NextPool(p) == pc = "query" /\ p \in todo /\ todo' = todo \ {p}

PoolAnswers(p) ==
    /\ NextPool(p) /\ p.pool_id \notin Gone
    /\ LET i == p.pool_id
           s == query_pool_state(States[chain[i]])
       IN  /\ gauges' = [gauges EXCEPT ![i] = update_pool_metrics(@, s)]
           /\ snapshots' = [snapshots EXCEPT ![i] = @ \cup {AsSaved(s)}]
           /\ updated' = updated \cup {i}
    /\ UNCHANGED <<chain, assets, pc, outcome>>

(* save_snapshot fails: the gauges are set all the same. *)
SnapshotFails(p) ==
    /\ NextPool(p) /\ p.pool_id \notin Gone
    /\ LET i == p.pool_id IN
          /\ gauges' = [gauges EXCEPT ![i] =
                           update_pool_metrics(@, query_pool_state(States[chain[i]]))]
          /\ updated' = updated \cup {i}
    /\ UNCHANGED <<chain, assets, pc, snapshots, outcome>>

(* A pool that cannot be queried is skipped. *)
PoolFails(p) ==
    /\ NextPool(p)
    /\ UNCHANGED <<chain, assets, pc, gauges, snapshots, outcome, updated>>

EndOfPoll ==
    /\ pc = "query" /\ todo = {}
    /\ EndPoll("success")
    /\ UNCHANGED <<chain, assets, gauges, snapshots, updated>>

Poll ==
    \/ Wake
    \/ List
    \/ Connect
    \/ \E p \in Pools : PoolAnswers(p) \/ SnapshotFails(p) \/ PoolFails(p)
    \/ EndOfPoll

Next == PoolChanges \/ AssetsEdited \/ Poll

Spec == Init /\ [][Next]_vars

(* The task keeps running and the database and the RPC node, except for the *)
(* pools it has lost, answer every now and then.                            *)
Listed == List /\ pc' # "sleep"
Connected == Connect /\ pc' # "sleep"
Fairness ==
    /\ WF_vars(Poll)
    /\ SF_vars(Listed) /\ SF_vars(Connected)
    /\ \A p \in Pools : SF_vars(PoolAnswers(p))

FairSpec == Spec /\ Fairness
-----------------------------------------------------------------------------
TypeOK ==
    /\ pc \in {"sleep", "list", "connect", "query"}
    /\ outcome \in {"none", "success", "error"}
    /\ updated \subseteq Ids
    /\ pc \in {"sleep", "list"} => todo = {}

(* Figure for figure a snapshot says what a state says, except that one of  *)
(* 2^63 or more is 2^64 too low: that is what the view functions give for   *)
(* the withdrawals of a pool whose rate limiter is off.                     *)
Tells(x, s) ==
    /\ DOMAIN x = DOMAIN s
    /\ \A figure \in DOMAIN s :
          IF s[figure] < Word \div 2 THEN x[figure] = s[figure]
          ELSE x[figure] = s[figure] - Word

(* Every pool's gauges show, and every snapshot tells of, a state the pool  *)
(* really was in, all figures of the same state (one transaction for the    *)
(* view calls, results taken out by index), and no list outlives its poll   *)
(* (query_all_pools, save_snapshot).                                        *)
FiguresWereTrue ==
    TypeOK /\ \A i \in Ids :
        LET past == {States[v] : v \in 1..chain[i]} IN
        /\ \A x \in snapshots[i] : \E s \in past : Tells(x, s)
        /\ LET g == gauges[i].state IN
           g # Unset => /\ g \in past
                        /\ g.total_borrow > 0 =>
                              gauges[i].solvency = <<g.vault_balance, g.total_borrow>>

Registered(p) == \E t \in assets : t.path = p.asset_type.path

(* A pool whose asset stays registered is polled again and again, in        *)
(* whichever form its type is written, and a pool that cannot be queried    *)
(* does not keep the others from being refreshed (the Err arm in poll_once).*)
EveryPoolRefreshed ==
    \A p \in Pools :
        LET final == States[Len(States)] IN
        p.pool_id \notin Gone =>
            (<>[](Registered(p) /\ chain[p.pool_id] = Len(States))
                => <>[](/\ gauges[p.pool_id].state = final
                        /\ \E x \in snapshots[p.pool_id] : Tells(x, final)))
=============================================================================
