----------------------------- MODULE MCIndexer -----------------------------
(***************************************************************************)
(* The indexer for TLC, on a few transactions that are hard to index.  A    *)
(* behaviour is one of:                                                     *)
(*   "orders"   a pipeline of several event types, and crashes;             *)
(*   "routing"  events that look alike, command lines, several pools;       *)
(*   "shared"   two pipelines that write to one table and are kept going,   *)
(*              one of them held back by an event that does not decode,     *)
(*              and crashes;                                                *)
(*   "catalog"  one event of any type that the contracts emit, past all the *)
(*              pipelines.                                                  *)
(***************************************************************************)
EXTENDS Indexer

CONSTANTS c1, c2, m1, t1, tm1, s1, x1, sui, bad,   \* packages
          poolA, poolB

VARIABLES
    part,                   \* which of these a behaviour is
    config, tx, homes       \* Catalog

catalogVars == <<config, tx, homes>>
allVars == <<part, vars, catalogVars>>

Event(package, module, name, ok, pool, data) ==
    [package |-> package, type |-> <<module, name>>, ok |-> ok, pool |-> pool,
     time |-> 5, data |-> data]

Tx(commands, inputs, events) ==
    [commands |-> commands, inputs |-> inputs, events |-> events]

PoolInput(package, id) == [package |-> package, name |-> "Pool", id |-> id]

Placed(p) == Event(p, "order_info", "OrderPlaced", TRUE, poolA,
                   [order_id |-> 1, placed_quantity |-> 5])
Canceled(p) == Event(p, "order", "OrderCanceled", TRUE, poolA,
                     [order_id |-> 1, original_quantity |-> 5, canceled_quantity |-> 3])
Deposit(ok) == Event(m1, "margin_manager", "DepositCollateralEvent", ok, NULL,
                     [asset |-> "base", price |-> 3])
Withdraw == Event(m1, "margin_manager", "WithdrawCollateralEvent", TRUE, NULL,
                  [asset |-> "base", withdraw_base_asset |-> TRUE, base_price |-> 3,
                   quote_price |-> 1])
TradeParams(pool) == Event(c1, "governance", "TradeParamsUpdateEvent", TRUE, pool,
                           [taker_fee |-> 1])
PoolUpdated(p, module) == Event(p, module, "DeepbookPoolUpdated", TRUE, poolA,
                                [from |-> module])

(* An order placed and canceled through another package's router. *)
Routed == Tx(<<x1>>, <<>>, <<Placed(c1), Canceled(c2)>>)
(* Collateral moved twice: two pipelines, one table. *)
Moved == Tx(<<NotACall, m1>>, <<>>, <<Deposit(TRUE), Withdraw>>)
(* A deposit that does not decode, and a withdrawal. *)
Broken == Tx(<<m1>>, <<>>, <<Deposit(FALSE), Withdraw>>)
(* Both modules' DeepbookPoolUpdated. *)
Updated == Tx(<<m1>>, <<>>, <<PoolUpdated(m1, "margin_registry"), PoolUpdated(m1, "margin_pool")>>)
(* New trade parameters of one pool, after an input that is no Pool of DeepBook. *)
Governed == Tx(<<x1>>, <<PoolInput(x1, poolA), [package |-> c1, name |-> "BalanceManager", id |-> poolA],
                         PoolInput(c1, poolB)>>, <<TradeParams(poolB)>>)
(* Two pools in one transaction: both updates are filed under the first. *)
GovernedTwice == Tx(<<c1>>, <<PoolInput(c1, poolA), PoolInput(c1, poolB)>>,
                    <<TradeParams(poolA), TradeParams(poolB)>>)
(* Events that look like DeepBook's, and events of other deployments. *)
Foreign == Tx(<<c1>>, <<>>, <<Placed(x1), PoolUpdated(x1, "margin_pool")>>)
OtherNet == Tx(<<t1>>, <<>>, <<PoolUpdated(tm1, "margin_pool"), PoolUpdated(s1, "margin_registry")>>)

Both == {"deepbook", "deepbook-margin"}
Production(env) == [sandbox |-> FALSE, env |-> env, packages |-> Both]
Sandbox(env, core, margin, path) ==
    [sandbox |-> TRUE, env |-> env, packages |-> Both, deepbook_package_id |-> core,
     margin_packages |-> margin, local_ingestion_path |-> path]

(* The parts: the pipelines at work in each, the blocks of its chain and    *)
(* its length, its command lines and the crashes it allows.                 *)
Parts == {"orders", "routing", "shared"}

Collateral == {DepositCollateralHandler, WithdrawCollateralHandler}
PartWatched ==
    [orders |-> {OrderUpdateHandler},
     routing |-> {DeepbookPoolUpdatedHandler, DeepbookPoolUpdatedRegistryHandler,
                  TradeParamsUpdateHandler},
     shared |-> Collateral]

PartBlocks ==
    [orders |-> {<<Routed>>, <<Moved, Routed>>, <<Foreign, Routed>>},
     routing |-> {<<Updated>>, <<Governed>>, <<GovernedTwice>>, <<Foreign>>, <<OtherNet>>,
                  <<Updated, OtherNet>>, <<Governed, Updated>>},
     shared |-> {<<Moved>>, <<Broken>>, <<Broken, Moved>>}]

PartModes ==
    [orders |-> {Production("Mainnet")},
     routing |-> {Production("Mainnet"), Production("Testnet"), Production(NULL),
                  Sandbox("Localnet", {c1}, {s1}, TRUE), Sandbox("Localnet", {c1}, {s1}, FALSE),
                  Sandbox("Testnet", {s1}, {}, FALSE)},
     shared |-> {Production("Mainnet")}]

PartCheckpoints == [orders |-> 2, routing |-> 1, shared |-> 2]
PartCrashes == [orders |-> 1, routing |-> 0, shared |-> 1]

AllWatched == UNION {PartWatched[p] : p \in Parts}
AllBlocks == UNION {PartBlocks[p] : p \in Parts}
AllModes == UNION {PartModes[p] : p \in Parts}

Cat == INSTANCE Catalog WITH
    Configs <- {[env |-> "Mainnet", override |-> NoOverride],
                [env |-> "Testnet", override |-> NoOverride],
                [env |-> "Testnet", override |-> init_package_override({s1}, {m1})],
                [env |-> "Testnet", override |-> init_package_override({s1}, {})]}

MCInit ==
    /\ Init
    /\ \/ part \in Parts /\ mode \in PartModes[part]
          /\ config = NULL /\ tx = NULL /\ homes = <<>>
       \/ part = "catalog" /\ mode = Production(NULL) /\ Cat!Init

(* A step of the indexer that stays within its part. *)
IndexerStep ==
    /\ part \in Parts
    /\ Next
    /\ chain' # chain =>
          \E b \in PartBlocks[part] : chain'[Len(chain')] = Checkpoint(Len(chain'), b)
    /\ Len(chain') <= PartCheckpoints[part] /\ crashes' <= PartCrashes[part]
    /\ \A h \in Watched \ PartWatched[part] : pending'[h.name] = Empty
    /\ UNCHANGED <<part, catalogVars>>

MCNext ==
    \/ IndexerStep
    \/ part = "catalog" /\ Cat!Index /\ UNCHANGED <<part, vars>>

(* The fairness of Indexer, for the behaviours it matters to. *)
InShared(Step) == part = "shared" /\ Step /\ UNCHANGED <<part, catalogVars>>

MCFairSpec ==
    /\ MCInit /\ [][MCNext]_allVars
    /\ WF_allVars(InShared(Start))
    /\ \A h \in Collateral :
          /\ WF_allVars(InShared(Process(h)))
          /\ WF_allVars(InShared(Commit(h)))
          /\ WF_allVars(InShared(UpdateWatermark(h)))
-----------------------------------------------------------------------------
(* Every checkpoint is indexed in the end by every pipeline that no         *)
(* undecodable event holds back: a bad event stops its own pipeline only,   *)
(* and a crash only delays (process, whose error the framework retries).    *)
EventuallyIndexed ==
    \A h \in Collateral : \A c \in 1..MaxCheckpoints :
        (part = "shared" /\ Healthy(h, c)) ~> (part # "shared" \/ watermark[h.name] >= c)

(* An event that the contracts emit and the indexer has a struct for is     *)
(* stored once, in one table, whatever the environment; from another        *)
(* package it is stored nowhere (the MODULE and NAME of each struct, the    *)
(* module lists of lib.rs, one handler for each struct).                    *)
OneHome == Cat!OneHome
=============================================================================
