--------------------------- MODULE IndexerProofs ---------------------------
(***************************************************************************)
(* Proofs about the indexer, for every set of pipelines, every chain, every *)
(* command line and any number of crashes: nothing is missing below a       *)
(* watermark, nothing is in the tables that is not on the chain, and the    *)
(* whole is an event log.                                                   *)
(***************************************************************************)
EXTENDS Indexer, FiniteSetTheorems, WellFoundedInduction, TLAPS

-----------------------------------------------------------------------------
(* The 47 pipelines. *)

CoreNames ==
    {"balance_manager_event", "balances", "deepbook_referral_created_event",
     "deepbook_referral_set_event", "flash_loan", "order_fill", "pool_price",
     "proposals", "rebates", "referral_fee_events", "stakes", "votes",
     "book_params_updated", "referral_claimed", "ewma_updates",
     "taker_fee_penalty_applied", "deep_burned", "order_update",
     "trade_params_update", "pool_created"}

(* The pipelines of the core package handle events of its modules.          *)
LEMMA CoreHandlerFacts ==
    ASSUME NEW h \in CoreHandlers
    PROVE  h.name \in CoreNames /\ \A s \in h.events : s[1] \in CORE_MODULES
<1> USE DEF CoreHandlers, Handler,
            BalanceManagerEventHandler, BalancesHandler,
            DeepBookReferralCreatedEventHandler,
            DeepBookReferralSetEventHandler, FlashLoanHandler,
            OrderFillHandler, PoolPriceHandler, ProposalsHandler,
            RebatesHandler, ReferralFeeEventHandler, StakesHandler,
            VotesHandler, BookParamsUpdatedHandler, ReferralClaimedHandler,
            EwmaUpdateHandler, TakerFeePenaltyHandler, DeepBurnedHandler,
            OrderUpdateHandler, TradeParamsUpdateHandler, PoolCreatedHandler
<1>1. h.name \in CoreNames
  BY DEF CoreNames
<1>2. \A s \in h.events : s[1] \in CORE_MODULES
  BY DEF CORE_MODULES
<1> QED BY <1>1, <1>2

(* Those of the margin package handle events of the margin modules, and     *)
(* have names of their own.                                                 *)
LEMMA MarginHandlerFacts ==
    ASSUME NEW h \in MarginHandlers
    PROVE  h.name \notin CoreNames /\ \A s \in h.events : s[1] \in MARGIN_MODULES
<1> USE DEF MarginHandlers, Handler,
            MarginManagerCreatedHandler, LoanBorrowedHandler,
            LoanRepaidHandler, LiquidationHandler, AssetSuppliedHandler,
            AssetWithdrawnHandler, MarginPoolCreatedHandler,
            DeepbookPoolUpdatedHandler, InterestParamsUpdatedHandler,
            MarginPoolConfigUpdatedHandler, MaintainerCapUpdatedHandler,
            DeepbookPoolRegisteredHandler, DeepbookPoolUpdatedRegistryHandler,
            DeepbookPoolConfigUpdatedHandler, MaintainerFeesWithdrawnHandler,
            ProtocolFeesWithdrawnHandler, SupplierCapMintedHandler,
            SupplyReferralMintedHandler, PauseCapUpdatedHandler,
            ProtocolFeesIncreasedHandler, ReferralFeesClaimedHandler,
            DepositCollateralHandler, WithdrawCollateralHandler,
            ConditionalOrderAddedHandler, ConditionalOrderCancelledHandler,
            ConditionalOrderExecutedHandler,
            ConditionalOrderInsufficientFundsHandler
<1>1. h.name \notin CoreNames
  BY DEF CoreNames
<1>2. \A s \in h.events : s[1] \in MARGIN_MODULES
  BY DEF MARGIN_MODULES
<1> QED BY <1>1, <1>2

(* A pipeline is known by its name, and by any event type it handles.       *)
Alone(g, h) == g.name = h.name \/ g.events \cap h.events # {} => g = h

(* The pipelines of the core package (main.rs, one add_pipeline for each).  *)
LEMMA CoreHandlersAlone ==
    ASSUME NEW g \in CoreHandlers, NEW h \in CoreHandlers
    PROVE  Alone(g, h)
<1>1. g.name = h.name => g = h
  BY DEF CoreHandlers, Handler,
         BalanceManagerEventHandler, BalancesHandler,
         DeepBookReferralCreatedEventHandler, DeepBookReferralSetEventHandler,
         FlashLoanHandler, OrderFillHandler, PoolPriceHandler,
         ProposalsHandler, RebatesHandler, ReferralFeeEventHandler,
         StakesHandler, VotesHandler, BookParamsUpdatedHandler,
         ReferralClaimedHandler, EwmaUpdateHandler, TakerFeePenaltyHandler,
         DeepBurnedHandler, OrderUpdateHandler, TradeParamsUpdateHandler,
         PoolCreatedHandler
<1>2. ASSUME NEW s \in g.events, s \in h.events
      PROVE  g = h
  BY <1>2 DEF CoreHandlers, Handler,
         BalanceManagerEventHandler, BalancesHandler,
         DeepBookReferralCreatedEventHandler, DeepBookReferralSetEventHandler,
         FlashLoanHandler, OrderFillHandler, PoolPriceHandler,
         ProposalsHandler, RebatesHandler, ReferralFeeEventHandler,
         StakesHandler, VotesHandler, BookParamsUpdatedHandler,
         ReferralClaimedHandler, EwmaUpdateHandler, TakerFeePenaltyHandler,
         DeepBurnedHandler, OrderUpdateHandler, TradeParamsUpdateHandler,
         PoolCreatedHandler
<1> QED BY <1>1, <1>2 DEF Alone

(* The pipelines of the margin package.                                     *)
LEMMA MarginHandlersAlone ==
    ASSUME NEW g \in MarginHandlers, NEW h \in MarginHandlers
    PROVE  Alone(g, h)
<1> SUFFICES ASSUME NEW x \in MarginHandlers
             PROVE  \A y \in MarginHandlers : Alone(x, y)
  OBVIOUS
<1> USE DEF MarginHandlers, Handler,
            MarginManagerCreatedHandler, LoanBorrowedHandler,
            LoanRepaidHandler, LiquidationHandler, AssetSuppliedHandler,
            AssetWithdrawnHandler, MarginPoolCreatedHandler,
            DeepbookPoolUpdatedHandler, InterestParamsUpdatedHandler,
            MarginPoolConfigUpdatedHandler, MaintainerCapUpdatedHandler,
            DeepbookPoolRegisteredHandler, DeepbookPoolUpdatedRegistryHandler,
            DeepbookPoolConfigUpdatedHandler, MaintainerFeesWithdrawnHandler,
            ProtocolFeesWithdrawnHandler, SupplierCapMintedHandler,
            SupplyReferralMintedHandler, PauseCapUpdatedHandler,
            ProtocolFeesIncreasedHandler, ReferralFeesClaimedHandler,
            DepositCollateralHandler, WithdrawCollateralHandler,
            ConditionalOrderAddedHandler, ConditionalOrderCancelledHandler,
            ConditionalOrderExecutedHandler,
            ConditionalOrderInsufficientFundsHandler
<1>1. Alone(x, MarginManagerCreatedHandler)
  BY DEF Alone
<1>2. Alone(x, LoanBorrowedHandler)
  BY DEF Alone
<1>3. Alone(x, LoanRepaidHandler)
  BY DEF Alone
<1>4. Alone(x, LiquidationHandler)
  BY DEF Alone
<1>5. Alone(x, AssetSuppliedHandler)
  BY DEF Alone
<1>6. Alone(x, AssetWithdrawnHandler)
  BY DEF Alone
<1>7. Alone(x, MarginPoolCreatedHandler)
  BY DEF Alone
<1>8. Alone(x, DeepbookPoolUpdatedHandler)
  BY DEF Alone
<1>9. Alone(x, InterestParamsUpdatedHandler)
  BY DEF Alone
<1>10. Alone(x, MarginPoolConfigUpdatedHandler)
  BY DEF Alone
<1>11. Alone(x, MaintainerCapUpdatedHandler)
  BY DEF Alone
<1>12. Alone(x, DeepbookPoolRegisteredHandler)
  BY DEF Alone
<1>13. Alone(x, DeepbookPoolUpdatedRegistryHandler)
  BY DEF Alone
<1>14. Alone(x, DeepbookPoolConfigUpdatedHandler)
  BY DEF Alone
<1>15. Alone(x, MaintainerFeesWithdrawnHandler)
  BY DEF Alone
<1>16. Alone(x, ProtocolFeesWithdrawnHandler)
  BY DEF Alone
<1>17. Alone(x, SupplierCapMintedHandler)
  BY DEF Alone
<1>18. Alone(x, SupplyReferralMintedHandler)
  BY DEF Alone
<1>19. Alone(x, PauseCapUpdatedHandler)
  BY DEF Alone
<1>20. Alone(x, ProtocolFeesIncreasedHandler)
  BY DEF Alone
<1>21. Alone(x, ReferralFeesClaimedHandler)
  BY DEF Alone
<1>22. Alone(x, DepositCollateralHandler)
  BY DEF Alone
<1>23. Alone(x, WithdrawCollateralHandler)
  BY DEF Alone
<1>24. Alone(x, ConditionalOrderAddedHandler)
  BY DEF Alone
<1>25. Alone(x, ConditionalOrderCancelledHandler)
  BY DEF Alone
<1>26. Alone(x, ConditionalOrderExecutedHandler)
  BY DEF Alone
<1>27. Alone(x, ConditionalOrderInsufficientFundsHandler)
  BY DEF Alone
<1> HIDE DEF MarginManagerCreatedHandler, LoanBorrowedHandler,
             LoanRepaidHandler, LiquidationHandler, AssetSuppliedHandler,
             AssetWithdrawnHandler, MarginPoolCreatedHandler,
             DeepbookPoolUpdatedHandler, InterestParamsUpdatedHandler,
             MarginPoolConfigUpdatedHandler, MaintainerCapUpdatedHandler,
             DeepbookPoolRegisteredHandler,
             DeepbookPoolUpdatedRegistryHandler,
             DeepbookPoolConfigUpdatedHandler, MaintainerFeesWithdrawnHandler,
             ProtocolFeesWithdrawnHandler, SupplierCapMintedHandler,
             SupplyReferralMintedHandler, PauseCapUpdatedHandler,
             ProtocolFeesIncreasedHandler, ReferralFeesClaimedHandler,
             DepositCollateralHandler, WithdrawCollateralHandler,
             ConditionalOrderAddedHandler, ConditionalOrderCancelledHandler,
             ConditionalOrderExecutedHandler,
             ConditionalOrderInsufficientFundsHandler
<1> QED
  BY <1>1, <1>2, <1>3, <1>4, <1>5, <1>6, <1>7, <1>8, <1>9, <1>10, <1>11,
     <1>12, <1>13, <1>14, <1>15, <1>16, <1>17, <1>18, <1>19, <1>20, <1>21,
     <1>22, <1>23, <1>24, <1>25, <1>26, <1>27

(* Two pipelines with the same name, or with an event type in common, are   *)
(* one.                                                                     *)
LEMMA HandlersAlone ==
    ASSUME NEW g \in AllHandlers, NEW h \in AllHandlers
    PROVE  Alone(g, h)
<1>1. CORE_MODULES \cap MARGIN_MODULES = {}
  BY DEF CORE_MODULES, MARGIN_MODULES
<1>2. CASE g \in CoreHandlers /\ h \in MarginHandlers
  BY <1>1, <1>2, CoreHandlerFacts, MarginHandlerFacts DEF Alone
<1>3. CASE h \in CoreHandlers /\ g \in MarginHandlers
  BY <1>1, <1>3, CoreHandlerFacts, MarginHandlerFacts DEF Alone
<1> QED BY <1>2, <1>3, CoreHandlersAlone, MarginHandlersAlone DEF AllHandlers

-----------------------------------------------------------------------------
(* What a command line makes of the environment. *)

Configuration(m) == [env |-> ResolveMode(m).env, override |-> ResolveMode(m).override]

Pipelines(m) == RegisterPipelines(ResolveMode(m).packages)

(* The pipelines that are started are the ones that run.                    *)
LEMMA PipelinesRun ==
    ASSUME NEW m \in Modes, StartAllowed(m), NEW h \in AllHandlers
    PROVE  h \in Pipelines(m) <=> Runs(h, m)
<1>1. ~ (h \in CoreHandlers /\ h \in MarginHandlers)
  BY CoreHandlerFacts, MarginHandlerFacts
<1>2. m.sandbox \in BOOLEAN
  BY ModesAssumption
<1>3. CASE m.sandbox
  <2>1. ResolveMode(m).packages = IF m.margin_packages = {} THEN m.packages \cap {"deepbook"}
                                  ELSE m.packages
    BY <1>3 DEF ResolveMode
  <2> QED BY <1>1, <1>3, <2>1 DEF Pipelines, RegisterPipelines, Runs, AllHandlers
<1>4. CASE ~m.sandbox
  <2>1. ResolveMode(m).packages = m.packages
    BY <1>4 DEF ResolveMode
  <2> QED BY <1>1, <1>4, <2>1 DEF Pipelines, RegisterPipelines, Runs, AllHandlers
<1> QED BY <1>2, <1>3, <1>4

(* They look for the packages that the command line deploys them on.        *)
LEMMA PackagesOf ==
    ASSUME NEW m \in Modes, StartAllowed(m)
    PROVE  /\ \A h \in CoreHandlers :
                 DeployedBy(h, m) = get_core_package_addresses(Configuration(m))
           /\ \A h \in MarginHandlers :
                 DeployedBy(h, m) = get_margin_package_addresses(Configuration(m))
<1>1. \A h \in CoreHandlers : h \notin MarginHandlers
  BY CoreHandlerFacts, MarginHandlerFacts
<1>2. m.sandbox \in BOOLEAN /\ (~m.sandbox => m.env \in {"Mainnet", "Testnet", NULL})
  BY ModesAssumption
<1>3. CASE m.sandbox
  <2>1. Configuration(m).override = init_package_override(m.deepbook_package_id, m.margin_packages)
    BY <1>3 DEF Configuration, ResolveMode
  <2>2. Configuration(m).override # NoOverride
    BY <2>1 DEF init_package_override, NoOverride
  <2>3. /\ get_core_package_addresses(Configuration(m)) = m.deepbook_package_id
        /\ get_margin_package_addresses(Configuration(m)) = m.margin_packages
    BY <2>1, <2>2 DEF get_core_package_addresses, get_margin_package_addresses, init_package_override
  <2> QED BY <1>1, <1>3, <2>3 DEF DeployedBy
<1>4. CASE ~m.sandbox
  <2>1. m.env \in {"Mainnet", "Testnet"}
    BY <1>2, <1>4 DEF StartAllowed
  <2>2. Configuration(m).override = NoOverride /\ Configuration(m).env = m.env
    BY <1>4 DEF Configuration, ResolveMode
  <2>3. /\ get_core_package_addresses(Configuration(m)) =
              IF m.env = "Mainnet" THEN MainnetPackages ELSE TestnetPackages
        /\ get_margin_package_addresses(Configuration(m)) =
              IF m.env = "Mainnet" THEN MainnetMarginPackages ELSE TestnetMarginPackages
    BY <2>2 DEF get_core_package_addresses, get_margin_package_addresses
  <2>4. CASE m.env = "Mainnet"
    BY <1>1, <1>4, <2>3, <2>4 DEF DeployedBy
  <2>5. CASE m.env = "Testnet"
    BY <1>1, <1>4, <2>3, <2>5 DEF DeployedBy
  <2> QED BY <2>1, <2>4, <2>5
<1> QED BY <1>2, <1>3, <1>4

(* An event matches a struct of a started pipeline exactly when it concerns *)
(* the pipeline, and then its transaction is looked at.                     *)
LEMMA MatchesConcern ==
    ASSUME NEW m \in Modes, StartAllowed(m), NEW h \in AllHandlers, h \in Pipelines(m), NEW e
    PROVE  /\ (\E s \in h.events : matches_event_type(s, e, Configuration(m))) <=> Concerns(h, e, m)
           /\ Concerns(h, e, m) => e.package \in package_addresses(Configuration(m))
<1> DEFINE c == Configuration(m)
<1>1. CORE_MODULES \cap MARGIN_MODULES = {}
  BY DEF CORE_MODULES, MARGIN_MODULES
<1>2. Runs(h, m)
  BY PipelinesRun
<1>3. CASE h \in CoreHandlers
  <2>1. \A s \in h.events : get_package_addresses_for_module(s[1], c)
                              = get_core_package_addresses(c) \ Unparsable
    <3> TAKE s \in h.events
    <3>1. s[1] \in CORE_MODULES
      BY <1>3, CoreHandlerFacts
    <3>2. get_module_type(s[1]) = "Core"
      BY <1>1, <3>1 DEF get_module_type, MARGIN_MODULES, SUI_MODULES, CORE_MODULES
    <3> QED BY <3>2 DEF get_package_addresses_for_module, parse_address_from_hex
  <2>2. DeployedBy(h, m) = get_core_package_addresses(c)
    BY <1>3, PackagesOf
  <2> QED BY <1>2, <2>1, <2>2 DEF matches_event_type, Concerns, package_addresses
<1>4. CASE h \in MarginHandlers
  <2>1. \A s \in h.events : get_package_addresses_for_module(s[1], c)
                              = get_margin_package_addresses(c) \ Unparsable
    <3> TAKE s \in h.events
    <3>1. s[1] \in MARGIN_MODULES
      BY <1>4, MarginHandlerFacts
    <3>2. get_module_type(s[1]) = "Margin"
      BY <1>1, <3>1 DEF get_module_type, MARGIN_MODULES, SUI_MODULES, CORE_MODULES
    <3> QED BY <3>2 DEF get_package_addresses_for_module, parse_address_from_hex
  <2>2. DeployedBy(h, m) = get_margin_package_addresses(c)
    BY <1>4, PackagesOf
  <2> QED BY <1>2, <2>1, <2>2 DEF matches_event_type, Concerns, package_addresses
<1> QED BY <1>3, <1>4 DEF AllHandlers

-----------------------------------------------------------------------------
(* The rows of a checkpoint. *)

EventsIn(h, cp, m) == Positions(h, cp.transactions, m)

RowAt(h, c, cp, m, p) == Row(h, c, cp, cp.transactions[p[1]], p[2], Configuration(m))

IsCheckpoint(c, cp) == \E b \in Blocks : cp = Checkpoint(c, b)

(* Positions are pairs of a transaction and an event of it.                 *)
LEMMA PositionFacts ==
    ASSUME NEW h, NEW cp, NEW m, NEW p
    PROVE  p \in EventsIn(h, cp, m) <=>
              \E t \in DOMAIN cp.transactions : \E i \in DOMAIN cp.transactions[t].events :
                  p = <<t, i>> /\ Concerns(h, cp.transactions[t].events[i], m)
BY DEF EventsIn, Positions

(* A transaction of checkpoint c knows its place.                           *)
LEMMA DigestFacts ==
    ASSUME NEW c, NEW cp, IsCheckpoint(c, cp), NEW t \in DOMAIN cp.transactions
    PROVE  cp.transactions[t].digest = <<c, t>>
BY DEF IsCheckpoint, Checkpoint

(* The key of a row is that of its event, and tells the event.              *)
LEMMA RowFacts ==
    ASSUME NEW h, NEW c, NEW cp, IsCheckpoint(c, cp), NEW m, NEW p \in EventsIn(h, cp, m)
    PROVE  /\ RowAt(h, c, cp, m, p).event_digest = KeyAt(c, p)
           /\ RowAt(h, c, cp, m, p).checkpoint = c
           /\ RowAt(h, c, cp, m, p).columns = Columns(cp.transactions[p[1]].events[p[2]])
           /\ RowAt(h, c, cp, m, p).pool_id =
                 PoolColumn(h, cp.transactions[p[1]], p[2], Configuration(m))
<1>1. PICK t \in DOMAIN cp.transactions : \E i \in DOMAIN cp.transactions[t].events : p = <<t, i>>
  BY PositionFacts
<1>2. PICK i \in DOMAIN cp.transactions[t].events : p = <<t, i>>
  BY <1>1
<1>3. cp.transactions[p[1]].digest = <<c, p[1]>>
  BY <1>2, DigestFacts
<1> QED BY <1>3 DEF RowAt, Row, event_digest, KeyAt

(* An event_digest is that of one event: it tells the checkpoint and the    *)
(* place in it.                                                             *)
LEMMA KeysTell ==
    ASSUME NEW h, NEW c, NEW cp, NEW m, NEW p \in EventsIn(h, cp, m),
           NEW g, NEW d, NEW dp, NEW n, NEW q \in EventsIn(g, dp, n), KeyAt(c, p) = KeyAt(d, q)
    PROVE  c = d /\ p = q
<1>1. PICK t, i : p = <<t, i>>
  BY PositionFacts
<1>2. PICK u, j : q = <<u, j>>
  BY PositionFacts
<1> QED BY <1>1, <1>2 DEF KeyAt

(* process makes a row of every event that concerns a started pipeline, and *)
(* no other.                                                                *)
LEMMA ProcessRows ==
    ASSUME NEW m \in Modes, StartAllowed(m), NEW h \in AllHandlers, h \in Pipelines(m),
           NEW c, NEW cp, IsCheckpoint(c, cp), NEW r
    PROVE  r \in process(h, c, cp, Configuration(m))
              <=> \E p \in EventsIn(h, cp, m) : r = RowAt(h, c, cp, m, p)
<1> DEFINE k == Configuration(m)
           txs == cp.transactions
<1>1. ASSUME NEW t \in DOMAIN txs, NEW i \in DOMAIN txs[t].events
      PROVE  /\ i \in Matches(h, txs[t], k) <=> Concerns(h, txs[t].events[i], m)
             /\ Concerns(h, txs[t].events[i], m) => is_deepbook_tx(txs[t], k)
  <2>1. (\E s \in h.events : matches_event_type(s, txs[t].events[i], k))
           <=> Concerns(h, txs[t].events[i], m)
    BY MatchesConcern
  <2>2. Concerns(h, txs[t].events[i], m) => txs[t].events[i].package \in package_addresses(k)
    BY MatchesConcern
  <2>3. i \in Matches(h, txs[t], k) <=> Concerns(h, txs[t].events[i], m)
    BY <2>1 DEF Matches
  <2> QED BY <2>2, <2>3 DEF is_deepbook_tx, Elements
<1>2. ASSUME r \in process(h, c, cp, k)
      PROVE  \E p \in EventsIn(h, cp, m) : r = RowAt(h, c, cp, m, p)
  <2>1. PICK tx \in DeepbookTxs(cp, k) : \E i \in Matches(h, tx, k) : r = Row(h, c, cp, tx, i, k)
    BY <1>2 DEF process
  <2>2. PICK i \in Matches(h, tx, k) : r = Row(h, c, cp, tx, i, k)
    BY <2>1
  <2>3. PICK t \in DOMAIN txs : tx = txs[t]
    BY <2>1 DEF DeepbookTxs, Elements
  <2>4. i \in DOMAIN txs[t].events
    BY <2>2, <2>3 DEF Matches
  <2>5. Concerns(h, txs[t].events[i], m)
    BY <1>1, <2>2, <2>3, <2>4
  <2>6. <<t, i>> \in EventsIn(h, cp, m)
    BY <2>3, <2>4, <2>5, PositionFacts
  <2>7. r = RowAt(h, c, cp, m, <<t, i>>)
    BY <2>2, <2>3 DEF RowAt
  <2> QED BY <2>6, <2>7
<1>3. ASSUME NEW p \in EventsIn(h, cp, m), r = RowAt(h, c, cp, m, p)
      PROVE  r \in process(h, c, cp, k)
  <2>1. PICK t \in DOMAIN txs : \E i \in DOMAIN txs[t].events :
                 p = <<t, i>> /\ Concerns(h, txs[t].events[i], m)
    BY PositionFacts
  <2>2. PICK i \in DOMAIN txs[t].events : p = <<t, i>> /\ Concerns(h, txs[t].events[i], m)
    BY <2>1
  <2>3. i \in Matches(h, txs[t], k) /\ is_deepbook_tx(txs[t], k)
    BY <1>1, <2>2
  <2>4. txs[t] \in DeepbookTxs(cp, k)
    BY <2>3 DEF DeepbookTxs, Elements
  <2>5. r = Row(h, c, cp, txs[t], i, k)
    BY <1>3, <2>2 DEF RowAt
  <2> QED BY <2>3, <2>4, <2>5 DEF process
<1> QED BY <1>2, <1>3

(* A finite set with two elements has more than one.                        *)
LEMMA TwoElements ==
    ASSUME NEW S, IsFiniteSet(S), NEW x \in S, NEW y \in S, x # y
    PROVE  Cardinality(S) > 1
<1>1. IsFiniteSet({x}) /\ Cardinality({x}) = 1
  BY FS_Singleton
<1>2. IsFiniteSet({x} \cup {y}) /\ Cardinality({x} \cup {y}) = 2
  BY <1>1, FS_AddElement
<1>3. {x} \cup {y} \subseteq S
  OBVIOUS
<1>4. Cardinality({x} \cup {y}) <= Cardinality(S) /\ Cardinality(S) \in Nat
  BY <1>3, FS_Subset, FS_CardinalityType
<1> QED BY <1>2, <1>4

PoolsAmong(inputs, k) ==
    {o.id : o \in {x \in Elements(inputs) : x.name = "Pool" /\ x.package \in package_addresses(k)}}

(* The pools among the inputs of a transaction are finitely many.           *)
LEMMA FewPools ==
    ASSUME NEW S, NEW inputs \in Seq(S), NEW k
    PROVE  IsFiniteSet(PoolsAmong(inputs, k))
<1> DEFINE I == {i \in 1..Len(inputs) : /\ inputs[i].name = "Pool"
                                        /\ inputs[i].package \in package_addresses(k)}
           f == [i \in I |-> inputs[i].id]
<1>1. DOMAIN inputs = 1..Len(inputs) /\ Len(inputs) \in Nat
  OBVIOUS
<1>2. IsFiniteSet(1..Len(inputs))
  BY <1>1, FS_Interval
<1>3. IsFiniteSet(I)
  BY <1>2, FS_Subset
<1>4. PoolsAmong(inputs, k) = {inputs[i].id : i \in I}
  BY <1>1 DEF PoolsAmong, Elements
<1> HIDE DEF I
<1>5. f \in Surjection(I, {inputs[i].id : i \in I})
  BY DEF Surjection
<1>6. IsFiniteSet({inputs[i].id : i \in I})
  BY <1>3, <1>5, FS_Surjection
<1> QED BY <1>4, <1>6

(* Some positions in a sequence: one of them is the first.                  *)
LEMMA FirstPosition ==
    ASSUME NEW S, NEW s \in Seq(S), NEW I, I \subseteq DOMAIN s, I # {}
    PROVE  \E j \in I : \A n \in I : j <= n
<1>1. I \subseteq Nat
  OBVIOUS
<1>2. PICK j \in I : \A n \in I : ~ (n < j)
  <2>1. IsWellFoundedOn(OpToRel(<, Nat), Nat)
    BY NatLessThanWellFounded, Zenon
  <2>2. \E j \in I : \A n \in I : ~ (<<n, j>> \in OpToRel(<, Nat))
    BY <1>1, <2>1, WFMin, Zenon
  <2>3. \A j \in I, n \in I : n < j => <<n, j>> \in OpToRel(<, Nat)
    BY <1>1 DEF OpToRel
  <2> QED BY <2>2, <2>3, Zenon
<1>3. \A n \in I : j <= n
  <2> TAKE n \in I
  <2>1. j \in Nat /\ n \in Nat /\ ~ (n < j)
    BY <1>1, <1>2
  <2> QED BY <2>1
<1> QED BY <1>3

(* A row is filed under the pool its event is about, or under none, unless  *)
(* the transaction has several pools among its inputs: then under one.      *)
LEMMA PoolFacts ==
    ASSUME NEW m \in Modes, StartAllowed(m), NEW h \in AllHandlers, h \in Pipelines(m),
           NEW c, NEW cp, IsCheckpoint(c, cp), NEW p \in EventsIn(h, cp, m),
           NEW tx, tx = cp.transactions[p[1]]
    PROVE  \/ PoolColumn(h, tx, p[2], Configuration(m)) \in {tx.events[p[2]].pool, NULL}
           \/ /\ h.table = TradeParamsUpdateHandler.table
              /\ Cardinality(PoolsAmong(tx.inputs, Configuration(m))) > 1
              /\ PoolColumn(h, tx, p[2], Configuration(m)) \in PoolsAmong(tx.inputs, Configuration(m))
<1> DEFINE k == Configuration(m)
           e == tx.events[p[2]]
           pools == PoolsAmong(tx.inputs, k)
<1>1. CASE h # TradeParamsUpdateHandler
  BY <1>1 DEF PoolColumn
<1>2. CASE h = TradeParamsUpdateHandler
  <2>1. PICK b \in Blocks : cp = Checkpoint(c, b)
    BY DEF IsCheckpoint
  <2>2. PICK t \in DOMAIN cp.transactions : \E i \in DOMAIN cp.transactions[t].events :
                p = <<t, i>> /\ Concerns(h, cp.transactions[t].events[i], m)
    BY PositionFacts
  <2>3. PICK i \in DOMAIN cp.transactions[t].events :
                p = <<t, i>> /\ Concerns(h, cp.transactions[t].events[i], m)
    BY <2>2
  <2>4. /\ t \in DOMAIN b /\ tx.inputs = b[t].inputs /\ tx.events = b[t].events
        /\ i \in DOMAIN tx.events /\ e = tx.events[i] /\ Concerns(h, e, m)
    BY <2>1, <2>2, <2>3 DEF Checkpoint
  <2> HIDE DEF e
  <2>5. e.type \in TradeParamsUpdateHandler.events /\ e.package \in package_addresses(k)
    BY <1>2, <2>4, MatchesConcern DEF Concerns
  <2>6. e \in Elements(b[t].events)
    BY <2>4 DEF Elements
  <2>7. PICK o \in Elements(tx.inputs) : o.package = e.package /\ o.name = "Pool" /\ o.id = e.pool
    BY <2>4, <2>5, <2>6, BlocksAssumption
  <2>8. e.pool \in pools
    BY <2>5, <2>7 DEF PoolsAmong
  <2>9. tx.inputs \in Seq(Elements(tx.inputs))
    BY <2>4, BlocksAssumption
  <2>10. IsFiniteSet(pools)
    BY <2>9, FewPools
  <2> DEFINE I == {j \in DOMAIN tx.inputs : /\ tx.inputs[j].package \in package_addresses(k)
                                            /\ tx.inputs[j].name = "Pool"}
             first == CHOOSE j \in I : \A n \in I : j <= n
  <2>11. PoolColumn(h, tx, p[2], k) = IF I = {} THEN NULL ELSE tx.inputs[first].id
    <3>1. PoolColumn(h, tx, p[2], k) = first_input_pool(tx, k)
      <4>1. h \notin {ConditionalOrderAddedHandler, ConditionalOrderCancelledHandler,
                       ConditionalOrderInsufficientFundsHandler}
        BY <1>2 DEF TradeParamsUpdateHandler, ConditionalOrderAddedHandler, Handler,
                    ConditionalOrderCancelledHandler, ConditionalOrderInsufficientFundsHandler
      <4> QED BY <1>2, <4>1 DEF PoolColumn
    <3>2. first_input_pool(tx, k) = IF I = {} THEN NULL ELSE tx.inputs[first].id
      BY DEF first_input_pool
    <3> QED BY <3>1, <3>2
  <2>12. ASSUME I # {}
         PROVE  tx.inputs[first].id \in pools
    <3>1. I \subseteq DOMAIN tx.inputs
      OBVIOUS
    <3>2. \E j \in I : \A n \in I : j <= n
      <4> HIDE DEF I
      <4> QED BY <2>9, <2>12, <3>1, FirstPosition
    <3>3. first \in I
      <4> HIDE DEF I
      <4> QED BY <3>2
    <3> HIDE DEF first
    <3> QED BY <3>3 DEF PoolsAmong, Elements
  <2> HIDE DEF I, first, pools
  <2>13. CASE I # {} /\ tx.inputs[first].id # e.pool
    BY <1>2, <2>8, <2>10, <2>11, <2>12, <2>13, TwoElements DEF pools
  <2> QED BY <2>11, <2>13 DEF e
<1> QED BY <1>1, <1>2

-----------------------------------------------------------------------------
(* The inductive invariant. *)

Checkpoints == {Checkpoint(c, b) : c \in Nat, b \in Blocks}

ChainOK ==
    chain \in Seq(Checkpoints) /\ \A c \in DOMAIN chain : IsCheckpoint(c, chain[c])

(* Once a pipeline is registered, the process is what the command line      *)
(* makes of it, through every restart.                                      *)
ProcessOK ==
    /\ mode \in Modes /\ up \in BOOLEAN /\ crashes \in 0..MaxCrashes
    /\ registered \subseteq Watched
    /\ registered # {} => /\ StartAllowed(mode) /\ cfg = Configuration(mode)
                          /\ registered = Pipelines(mode) \cap Watched

(* Only registered pipelines get anywhere.                                  *)
ProgressOK ==
    /\ watermark \in [Names -> Nat] /\ pending = [p \in Names |-> pending[p]]
    /\ \A h \in Watched :
          /\ watermark[h.name] <= Len(chain)
          /\ watermark[h.name] > 0 => h \in registered
          /\ \A c \in DOMAIN pending[h.name] :
                c \in Nat /\ watermark[h.name] < c /\ c <= Len(chain) /\ h \in registered

(* What is pending are rows of its checkpoint.                              *)
PendingOK ==
    \A h \in Watched : \A c \in DOMAIN pending[h.name] : \A r \in pending[h.name][c] :
        \E p \in EventsIn(h, chain[c], mode) : r = RowAt(h, c, chain[c], mode, p)

(* A row in a table is one that a registered pipeline of the table made.    *)
Explains(t, k, r, h, c, p) ==
    /\ h.table = t /\ p \in EventsIn(h, chain[c], mode)
    /\ k = KeyAt(c, p) /\ r = RowAt(h, c, chain[c], mode, p)

TablesOK ==
    /\ tables = [t \in Tables |-> tables[t]]
    /\ \A t \in Tables : \A k \in DOMAIN tables[t] :
          \E h \in registered : \E c \in DOMAIN chain : \E p :
              Explains(t, k, tables[t][k], h, c, p)

(* An event is in the table when it is below the watermark, or processed    *)
(* and no longer pending.                                                   *)
Through(h, c, p) ==
    \/ c <= watermark[h.name]
    \/ c \in DOMAIN pending[h.name]
         /\ RowAt(h, c, chain[c], mode, p) \notin pending[h.name][c]

StoredOK ==
    \A h \in Watched : \A c \in DOMAIN chain : \A p \in EventsIn(h, chain[c], mode) :
        Through(h, c, p) => KeyAt(c, p) \in DOMAIN tables[h.table]

IInv == ChainOK /\ ProcessOK /\ ProgressOK /\ PendingOK /\ TablesOK /\ StoredOK

(* What is known of a pipeline that is followed.                            *)
LEMMA WatchedFacts ==
    ASSUME NEW h \in Watched
    PROVE  /\ h \in AllHandlers /\ h.name \in Names /\ h.table \in Tables
           /\ \A g \in Watched : g.name = h.name => g = h
BY HandlersAlone, IndexerAssumption DEF Names, Tables, Alone

(* An empty database on an empty chain.                                     *)
LEMMA InitIInv == Init => IInv
<1> SUFFICES ASSUME Init PROVE IInv
  OBVIOUS
<1> USE DEF Init
<1>1. ChainOK
  BY DEF ChainOK
<1>2. ProcessOK
  <2>1. crashes \in 0..MaxCrashes
    BY IndexerAssumption
  <2> QED BY <2>1 DEF ProcessOK
<1>3. ASSUME NEW h \in Watched
      PROVE  watermark[h.name] = 0 /\ pending[h.name] = <<>>
  BY <1>3, WatchedFacts DEF Empty
<1>4. ProgressOK
  BY <1>3 DEF ProgressOK
<1>5. PendingOK
  BY <1>3 DEF PendingOK
<1>6. TablesOK
  BY DEF TablesOK, Empty
<1>7. StoredOK
  BY DEF StoredOK
<1> QED BY <1>1, <1>2, <1>4, <1>5, <1>6, <1>7 DEF IInv

(* Starting registers the pipelines of the command line, the same each time *)
(* (main).                                                                  *)
LEMMA StartIInv == IInv /\ Start => IInv'
<1> SUFFICES ASSUME IInv, Start PROVE IInv'
  OBVIOUS
<1> USE DEF IInv, Start
<1>1. /\ cfg' = Configuration(mode) /\ registered' = Pipelines(mode) \cap Watched
      /\ StartAllowed(mode)
  BY DEF Configuration, Pipelines
<1>2. chain' = chain /\ mode' = mode /\ pending' = pending /\ tables' = tables
      /\ watermark' = watermark
  OBVIOUS
<1>3. registered \subseteq registered'
  BY <1>1 DEF ProcessOK
<1>4. ChainOK'
  BY <1>2 DEF ChainOK
<1>5. ProcessOK'
  BY <1>1, <1>2 DEF ProcessOK
<1>6. ProgressOK'
  BY <1>2, <1>3 DEF ProgressOK
<1>7. PendingOK'
  BY <1>2 DEF PendingOK
<1>8. TablesOK'
  BY <1>2, <1>3 DEF TablesOK, Explains
<1>9. StoredOK'
  BY <1>2 DEF StoredOK, Through
<1> QED BY <1>4, <1>5, <1>6, <1>7, <1>8, <1>9

(* Another checkpoint leaves what is indexed as it is.                      *)
LEMMA NewCheckpointIInv == IInv /\ NewCheckpoint => IInv'
<1> SUFFICES ASSUME IInv, NewCheckpoint PROVE IInv'
  OBVIOUS
<1>1. PICK b \in Blocks : chain' = Append(chain, Checkpoint(Len(chain) + 1, b))
  BY DEF NewCheckpoint
<1>2. /\ mode' = mode /\ pending' = pending /\ tables' = tables /\ watermark' = watermark
      /\ up' = up /\ cfg' = cfg /\ registered' = registered /\ crashes' = crashes
  BY DEF NewCheckpoint
<1>3. chain \in Seq(Checkpoints) /\ Checkpoint(Len(chain) + 1, b) \in Checkpoints
  <2>1. chain \in Seq(Checkpoints)
    BY DEF IInv, ChainOK
  <2>2. Len(chain) + 1 \in Nat
    BY <2>1
  <2> QED BY <2>1, <2>2 DEF Checkpoints
<1>4. /\ chain' \in Seq(Checkpoints) /\ Len(chain') = Len(chain) + 1 /\ Len(chain) \in Nat
      /\ DOMAIN chain = 1..Len(chain) /\ DOMAIN chain' = 1..(Len(chain) + 1)
      /\ \A c \in DOMAIN chain : chain'[c] = chain[c]
      /\ chain'[Len(chain) + 1] = Checkpoint(Len(chain) + 1, b)
  BY <1>1, <1>3
<1>5. ChainOK'
  <2>1. ASSUME NEW c \in DOMAIN chain'
        PROVE  IsCheckpoint(c, chain'[c])
    <3>1. CASE c \in DOMAIN chain
      BY <1>4, <3>1 DEF IInv, ChainOK
    <3>2. CASE c = Len(chain) + 1
      BY <1>4, <3>2 DEF IsCheckpoint
    <3> QED BY <1>4, <3>1, <3>2
  <2> QED BY <1>4, <2>1 DEF ChainOK
<1>6. ProcessOK'
  BY <1>2 DEF IInv, ProcessOK
<1>7. ASSUME NEW h \in Watched
      PROVE  /\ watermark[h.name] \in Nat /\ watermark[h.name] <= Len(chain)
             /\ \A c \in DOMAIN pending[h.name] : c \in DOMAIN chain /\ chain'[c] = chain[c]
  <2>1. watermark[h.name] \in Nat
    BY WatchedFacts DEF IInv, ProgressOK
  <2>2. watermark[h.name] <= Len(chain)
    BY DEF IInv, ProgressOK
  <2>3. ASSUME NEW c \in DOMAIN pending[h.name]
        PROVE  c \in DOMAIN chain
    <3>1. c \in Nat /\ watermark[h.name] < c /\ c <= Len(chain)
      BY DEF IInv, ProgressOK
    <3> QED BY <1>4, <2>1, <3>1
  <2> QED BY <1>4, <2>1, <2>2, <2>3
<1>8. ProgressOK'
  BY <1>2, <1>4, <1>7 DEF IInv, ProgressOK
<1>9. PendingOK'
  <2> SUFFICES ASSUME NEW h \in Watched, NEW c \in DOMAIN pending[h.name],
                      NEW r \in pending[h.name][c]
               PROVE  \E p \in EventsIn(h, chain'[c], mode) :
                         r = RowAt(h, c, chain'[c], mode, p)
    BY <1>2 DEF PendingOK
  <2>1. chain'[c] = chain[c]
    BY <1>7
  <2>2. \E p \in EventsIn(h, chain[c], mode) : r = RowAt(h, c, chain[c], mode, p)
    BY DEF IInv, PendingOK
  <2> QED BY <2>1, <2>2
<1>10. TablesOK'
  <2>1. ASSUME NEW t, NEW k, NEW r, NEW h, NEW c \in DOMAIN chain, NEW p, Explains(t, k, r, h, c, p)
        PROVE  c \in DOMAIN chain' /\ Explains(t, k, r, h, c, p)'
    BY <1>2, <1>4, <2>1 DEF Explains
  <2> QED BY <1>2, <2>1 DEF IInv, TablesOK
<1>11. StoredOK'
  <2> SUFFICES ASSUME NEW h \in Watched, NEW c \in DOMAIN chain',
                      NEW p \in EventsIn(h, chain'[c], mode'), Through(h, c, p)'
               PROVE  KeyAt(c, p) \in DOMAIN tables'[h.table]
    BY DEF StoredOK
  <2>1. c \in DOMAIN chain
    BY <1>2, <1>4, <1>7 DEF Through
  <2>2. Through(h, c, p) /\ p \in EventsIn(h, chain[c], mode)
    BY <1>2, <1>4, <2>1 DEF Through
  <2> QED BY <1>2, <2>1, <2>2 DEF IInv, StoredOK
<1> QED BY <1>5, <1>6, <1>8, <1>9, <1>10, <1>11 DEF IInv

(* A crash loses what was pending, which is above the watermark (process is *)
(* repeated).                                                               *)
LEMMA CrashIInv == IInv /\ Crash => IInv'
<1> SUFFICES ASSUME IInv, Crash PROVE IInv'
  OBVIOUS
<1> USE DEF IInv, Crash
<1>1. /\ mode' = mode /\ tables' = tables /\ watermark' = watermark /\ chain' = chain
      /\ cfg' = cfg /\ registered' = registered
  OBVIOUS
<1>2. ASSUME NEW h \in Watched
      PROVE  DOMAIN pending'[h.name] = {}
  BY <1>2, WatchedFacts DEF Empty
<1>3. ChainOK'
  BY <1>1 DEF ChainOK
<1>4. ProcessOK'
  <2>1. crashes' \in 0..MaxCrashes
    BY IndexerAssumption DEF ProcessOK
  <2>2. mode' \in Modes /\ up' \in BOOLEAN
    BY DEF ProcessOK
  <2> QED BY <1>1, <2>1, <2>2 DEF ProcessOK
<1>5. ProgressOK'
  BY <1>1, <1>2 DEF ProgressOK
<1>6. PendingOK'
  BY <1>2 DEF PendingOK
<1>7. TablesOK'
  BY <1>1 DEF TablesOK, Explains
<1>8. StoredOK'
  BY <1>1, <1>2 DEF StoredOK, Through
<1> QED BY <1>3, <1>4, <1>5, <1>6, <1>7, <1>8

(* The state a pipeline starts a step from.                                 *)
LEMMA PipelineFacts ==
    ASSUME IInv, NEW h \in Watched
    PROVE  /\ watermark[h.name] \in Nat /\ watermark[h.name] <= Len(chain) /\ Len(chain) \in Nat
           /\ DOMAIN chain = 1..Len(chain) /\ DOMAIN watermark = Names /\ DOMAIN pending = Names
           /\ \A c \in DOMAIN pending[h.name] :
                 c \in DOMAIN chain /\ watermark[h.name] < c /\ h \in registered
           /\ \A c \in DOMAIN chain : IsCheckpoint(c, chain[c])
           /\ h \in registered =>
                 mode \in Modes /\ StartAllowed(mode) /\ cfg = Configuration(mode) /\ h \in Pipelines(mode)
<1>1. chain \in Seq(Checkpoints) /\ \A c \in DOMAIN chain : IsCheckpoint(c, chain[c])
  BY DEF IInv, ChainOK
<1>2. DOMAIN chain = 1..Len(chain) /\ Len(chain) \in Nat
  BY <1>1
<1>3. watermark[h.name] \in Nat /\ DOMAIN watermark = Names /\ DOMAIN pending = Names
  BY WatchedFacts DEF IInv, ProgressOK
<1>4. watermark[h.name] <= Len(chain)
  BY DEF IInv, ProgressOK
<1>5. ASSUME NEW c \in DOMAIN pending[h.name]
      PROVE  c \in DOMAIN chain /\ watermark[h.name] < c /\ h \in registered
  <2>1. c \in Nat /\ watermark[h.name] < c /\ c <= Len(chain) /\ h \in registered
    BY DEF IInv, ProgressOK
  <2> QED BY <1>2, <1>3, <2>1
<1>6. h \in registered =>
         mode \in Modes /\ StartAllowed(mode) /\ cfg = Configuration(mode) /\ h \in Pipelines(mode)
  BY DEF IInv, ProcessOK
<1> QED BY <1>1, <1>2, <1>3, <1>4, <1>5, <1>6

(* What a step of h does to the pending rows of the others.                 *)
LEMMA OnlyItsOwn ==
    ASSUME IInv, NEW h \in Watched, NEW x, pending' = [pending EXCEPT ![h.name] = x]
    PROVE  /\ pending' = [p \in Names |-> pending'[p]]
           /\ pending'[h.name] = x
           /\ \A g \in Watched : g # h => pending'[g.name] = pending[g.name]
<1>1. DOMAIN pending = Names
  BY PipelineFacts
<1>2. h.name \in Names /\ \A g \in Watched : g.name \in Names /\ (g.name = h.name => g = h)
  BY WatchedFacts
<1> QED BY <1>1, <1>2

(* Processing makes the rows of one checkpoint pending, all of them.        *)
LEMMA ProcessIInv ==
    ASSUME NEW h \in Watched
    PROVE  IInv /\ Process(h) => IInv'
<1> SUFFICES ASSUME IInv, Process(h) PROVE IInv'
  OBVIOUS
<1>1. PICK c \in Unprocessed(h.name) :
         pending' = [pending EXCEPT ![h.name] =
                        [d \in DOMAIN pending[h.name] \cup {c} |->
                            IF d = c THEN process(h, c, chain[c], cfg) ELSE pending[h.name][d]]]
  BY DEF Process
<1> DEFINE new == [d \in DOMAIN pending[h.name] \cup {c} |->
                      IF d = c THEN process(h, c, chain[c], cfg) ELSE pending[h.name][d]]
<1>2. /\ mode' = mode /\ tables' = tables /\ watermark' = watermark /\ chain' = chain
      /\ cfg' = cfg /\ registered' = registered /\ up' = up /\ crashes' = crashes
      /\ h \in registered
  BY DEF Process
<1>3. /\ watermark[h.name] \in Nat /\ Len(chain) \in Nat /\ DOMAIN chain = 1..Len(chain)
      /\ \A d \in DOMAIN chain : IsCheckpoint(d, chain[d])
      /\ mode \in Modes /\ StartAllowed(mode) /\ cfg = Configuration(mode) /\ h \in Pipelines(mode)
  BY <1>2, PipelineFacts
<1>4. c \in DOMAIN chain /\ c \in Nat /\ watermark[h.name] < c /\ c <= Len(chain)
      /\ c \notin DOMAIN pending[h.name]
  BY <1>3 DEF Unprocessed
<1>5. /\ pending' = [p \in Names |-> pending'[p]]
      /\ pending'[h.name] = new
      /\ \A g \in Watched : g # h => pending'[g.name] = pending[g.name]
  <2>1. pending' = [pending EXCEPT ![h.name] = new]
    BY <1>1
  <2> HIDE DEF new
  <2> QED BY <2>1, OnlyItsOwn
<1>6. \A r : r \in process(h, c, chain[c], cfg) <=>
                \E p \in EventsIn(h, chain[c], mode) : r = RowAt(h, c, chain[c], mode, p)
  BY <1>3, <1>4, WatchedFacts, ProcessRows
<1>7. /\ DOMAIN pending'[h.name] = DOMAIN pending[h.name] \cup {c}
      /\ pending'[h.name][c] = process(h, c, chain[c], cfg)
      /\ \A d \in DOMAIN pending[h.name] : pending'[h.name][d] = pending[h.name][d]
  BY <1>4, <1>5
<1> HIDE DEF new
<1>8. ChainOK'
  BY <1>2 DEF IInv, ChainOK
<1>9. ProcessOK'
  BY <1>2 DEF IInv, ProcessOK
<1>10. ProgressOK'
  <2> SUFFICES ASSUME NEW g \in Watched
               PROVE  /\ watermark[g.name] <= Len(chain)
                      /\ watermark[g.name] > 0 => g \in registered
                      /\ \A d \in DOMAIN pending'[g.name] :
                           d \in Nat /\ watermark[g.name] < d /\ d <= Len(chain) /\ g \in registered
    BY <1>2, <1>5 DEF IInv, ProgressOK
  <2>1. CASE g = h
    BY <1>2, <1>4, <1>7, <2>1 DEF IInv, ProgressOK
  <2>2. CASE g # h
    BY <1>5, <2>2 DEF IInv, ProgressOK
  <2> QED BY <2>1, <2>2
<1>11. PendingOK'
  <2> SUFFICES ASSUME NEW g \in Watched, NEW d \in DOMAIN pending'[g.name],
                      NEW r \in pending'[g.name][d]
               PROVE  \E p \in EventsIn(g, chain[d], mode) : r = RowAt(g, d, chain[d], mode, p)
    BY <1>2 DEF PendingOK
  <2>1. CASE g = h /\ d = c
    BY <1>6, <1>7, <2>1
  <2>2. CASE ~ (g = h /\ d = c)
    <3>1. d \in DOMAIN pending[g.name] /\ r \in pending[g.name][d]
      BY <1>5, <1>7, <2>2
    <3> QED BY <3>1 DEF IInv, PendingOK
  <2> QED BY <2>1, <2>2
<1>12. TablesOK'
  BY <1>2 DEF IInv, TablesOK, Explains
<1>13. StoredOK'
  <2> SUFFICES ASSUME NEW g \in Watched, NEW d \in DOMAIN chain,
                      NEW p \in EventsIn(g, chain[d], mode), Through(g, d, p)'
               PROVE  KeyAt(d, p) \in DOMAIN tables[g.table]
    BY <1>2 DEF StoredOK
  <2>1. Through(g, d, p)
    <3>1. \/ d <= watermark[g.name]
          \/ d \in DOMAIN pending'[g.name] /\ RowAt(g, d, chain[d], mode, p) \notin pending'[g.name][d]
      BY <1>2 DEF Through
    <3>2. CASE d \in DOMAIN pending'[g.name]
                 /\ RowAt(g, d, chain[d], mode, p) \notin pending'[g.name][d]
      <4>1. ~ (g = h /\ d = c)
        BY <1>6, <1>7, <3>2
      <4>2. d \in DOMAIN pending[g.name] /\ pending'[g.name][d] = pending[g.name][d]
        BY <1>5, <1>7, <3>2, <4>1
      <4> QED BY <3>2, <4>2 DEF Through
    <3> QED BY <3>1, <3>2 DEF Through
  <2> QED BY <2>1 DEF IInv, StoredOK
<1> QED BY <1>8, <1>9, <1>10, <1>11, <1>12, <1>13 DEF IInv

(* Table n is table with those of rows whose keys were free.                *)
Inserted(table, rows, n) ==
    /\ DOMAIN n = DOMAIN table \cup {r.event_digest : r \in rows}
    /\ \A k \in DOMAIN table : n[k] = table[k]
    /\ \A k \in DOMAIN n : k \notin DOMAIN table => n[k] \in rows /\ n[k].event_digest = k

(* What an insert does.                                                     *)
LEMMA CommitFacts ==
    ASSUME NEW table, NEW rows
    PROVE  Inserted(table, rows, commit(table, rows))
<1> DEFINE new == {r.event_digest : r \in rows} \ DOMAIN table
           n == commit(table, rows)
<1>1. n = [k \in DOMAIN table \cup new |->
              IF k \in DOMAIN table THEN table[k] ELSE CHOOSE r \in rows : r.event_digest = k]
  BY DEF commit
<1>2. ASSUME NEW k \in new
      PROVE  LET x == CHOOSE r \in rows : r.event_digest = k IN x \in rows /\ x.event_digest = k
  <2>1. \E r \in rows : r.event_digest = k
    OBVIOUS
  <2> QED BY <2>1
<1> HIDE DEF n
<1>3. Inserted(table, rows, n)
  BY <1>1, <1>2 DEF Inserted
<1> QED BY <1>3 DEF n

(* A batch of pending rows of h, answered or not.                           *)
LEMMA BatchFacts ==
    ASSUME IInv, NEW h \in Watched, NEW rows \in SUBSET PendingRows(h.name), Batch(h, rows)
    PROVE  /\ TablesOK'
           /\ \A t \in Tables : DOMAIN tables[t] \subseteq DOMAIN tables'[t]
           /\ \A r \in rows : r.event_digest \in DOMAIN tables'[h.table]
<1>1. /\ chain' = chain /\ mode' = mode /\ registered' = registered /\ h \in registered
      /\ tables' = [tables EXCEPT ![h.table] = commit(tables[h.table], rows)]
  BY DEF Batch
<1> DEFINE n == commit(tables[h.table], rows)
<1>0. n = commit(tables[h.table], rows) /\ Inserted(tables[h.table], rows, n)
  BY CommitFacts
<1> HIDE DEF n
<1>2. /\ DOMAIN n = DOMAIN tables[h.table] \cup {r.event_digest : r \in rows}
      /\ \A k \in DOMAIN tables[h.table] : n[k] = tables[h.table][k]
      /\ \A k \in DOMAIN n : k \notin DOMAIN tables[h.table] => n[k] \in rows /\ n[k].event_digest = k
  BY <1>0 DEF Inserted
<1>3. DOMAIN tables = Tables /\ h.table \in Tables
  BY WatchedFacts DEF IInv, TablesOK
<1>4. tables' = [tables EXCEPT ![h.table] = n]
  BY <1>0, <1>1
<1>5. /\ tables' = [t \in Tables |-> tables'[t]] /\ tables'[h.table] = n
      /\ \A t \in Tables : t # h.table => tables'[t] = tables[t]
  BY <1>3, <1>4
<1>6. ASSUME NEW r \in rows
      PROVE  \E c \in DOMAIN chain : \E p \in EventsIn(h, chain[c], mode) :
                 r = RowAt(h, c, chain[c], mode, p) /\ r.event_digest = KeyAt(c, p)
  <2>1. PICK c \in DOMAIN pending[h.name] : r \in pending[h.name][c]
    BY DEF PendingRows
  <2>2. c \in DOMAIN chain /\ IsCheckpoint(c, chain[c])
    BY <2>1, PipelineFacts
  <2>3. PICK p \in EventsIn(h, chain[c], mode) : r = RowAt(h, c, chain[c], mode, p)
    BY <2>1 DEF IInv, PendingOK
  <2>4. r.event_digest = KeyAt(c, p)
    BY <2>2, <2>3, RowFacts
  <2> QED BY <2>2, <2>3, <2>4
<1>7. ASSUME NEW t \in Tables, NEW k \in DOMAIN tables'[t]
      PROVE  \E g \in registered : \E c \in DOMAIN chain : \E p : Explains(t, k, tables'[t][k], g, c, p)
  <2>1. CASE k \in DOMAIN tables[t]
    <3>1. tables'[t][k] = tables[t][k]
      BY <1>2, <1>5, <2>1
    <3> QED BY <2>1, <3>1 DEF IInv, TablesOK
  <2>2. CASE k \notin DOMAIN tables[t]
    <3>1. t = h.table /\ tables'[t][k] \in rows /\ tables'[t][k].event_digest = k
      BY <1>2, <1>5, <2>2
    <3>2. PICK c \in DOMAIN chain : \E p \in EventsIn(h, chain[c], mode) :
                 tables'[t][k] = RowAt(h, c, chain[c], mode, p) /\ k = KeyAt(c, p)
      BY <1>6, <3>1
    <3>3. PICK p \in EventsIn(h, chain[c], mode) :
                 tables'[t][k] = RowAt(h, c, chain[c], mode, p) /\ k = KeyAt(c, p)
      BY <3>2
    <3>4. Explains(t, k, tables'[t][k], h, c, p)
      BY <3>1, <3>3 DEF Explains
    <3> QED BY <1>1, <3>4
  <2> QED BY <2>1, <2>2
<1>8. TablesOK'
  BY <1>1, <1>5, <1>7 DEF TablesOK, Explains
<1>9. \A t \in Tables : DOMAIN tables[t] \subseteq DOMAIN tables'[t]
  BY <1>2, <1>5
<1>10. \A r \in rows : r.event_digest \in DOMAIN tables'[h.table]
  BY <1>2, <1>5
<1> QED BY <1>8, <1>9, <1>10

(* What is pending after some or none of rows were dropped from old.        *)
Trimmed(old, rows, x) ==
    /\ DOMAIN x = DOMAIN old
    /\ \A c \in DOMAIN x : x[c] \subseteq old[c] /\ old[c] \ rows \subseteq x[c]

(* Pending rows of h may be dropped once they are in the table.             *)
LEMMA BatchIInv ==
    ASSUME IInv, NEW h \in Watched, NEW rows \in SUBSET PendingRows(h.name), Batch(h, rows),
           NEW x, pending' = [pending EXCEPT ![h.name] = x],
           Trimmed(pending[h.name], rows, x)
    PROVE  IInv'
<1>1. /\ mode' = mode /\ watermark' = watermark /\ chain' = chain
      /\ cfg' = cfg /\ registered' = registered /\ up' = up /\ crashes' = crashes
  BY DEF Batch
<1>2. /\ pending' = [p \in Names |-> pending'[p]]
      /\ pending'[h.name] = x
      /\ \A g \in Watched : g # h => pending'[g.name] = pending[g.name]
  BY OnlyItsOwn
<1>3. /\ TablesOK'
      /\ \A t \in Tables : DOMAIN tables[t] \subseteq DOMAIN tables'[t]
      /\ \A r \in rows : r.event_digest \in DOMAIN tables'[h.table]
  BY BatchFacts
<1>4. ASSUME NEW g \in Watched
      PROVE  /\ DOMAIN pending'[g.name] = DOMAIN pending[g.name]
             /\ \A c \in DOMAIN pending[g.name] : pending'[g.name][c] \subseteq pending[g.name][c]
  BY <1>2 DEF Trimmed
<1>5. ChainOK'
  BY <1>1 DEF IInv, ChainOK
<1>6. ProcessOK'
  BY <1>1 DEF IInv, ProcessOK
<1>7. ProgressOK'
  BY <1>1, <1>2, <1>4 DEF IInv, ProgressOK
<1>8. PendingOK'
  <2> SUFFICES ASSUME NEW g \in Watched, NEW d \in DOMAIN pending'[g.name],
                      NEW r \in pending'[g.name][d]
               PROVE  \E p \in EventsIn(g, chain[d], mode) : r = RowAt(g, d, chain[d], mode, p)
    BY <1>1 DEF PendingOK
  <2>1. d \in DOMAIN pending[g.name] /\ r \in pending[g.name][d]
    BY <1>4
  <2> QED BY <2>1 DEF IInv, PendingOK
<1>9. StoredOK'
  <2> SUFFICES ASSUME NEW g \in Watched, NEW d \in DOMAIN chain,
                      NEW p \in EventsIn(g, chain[d], mode), Through(g, d, p)'
               PROVE  KeyAt(d, p) \in DOMAIN tables'[g.table]
    BY <1>1 DEF StoredOK
  <2> DEFINE r == RowAt(g, d, chain[d], mode, p)
  <2>1. CASE Through(g, d, p)
    BY <1>3, <2>1, WatchedFacts DEF IInv, StoredOK
  <2>2. CASE ~Through(g, d, p)
    <3>1. d \in DOMAIN pending'[g.name] /\ r \notin pending'[g.name][d]
      BY <1>1, <2>2 DEF Through
    <3>2. r \in pending[g.name][d] /\ d \in DOMAIN pending[g.name]
      BY <1>4, <2>2, <3>1 DEF Through
    <3>3. g = h /\ r \in rows
      BY <1>2, <3>1, <3>2 DEF Trimmed
    <3>4. IsCheckpoint(d, chain[d])
      BY PipelineFacts
    <3>5. r.event_digest = KeyAt(d, p)
      BY <3>4, RowFacts
    <3> QED BY <1>3, <3>3, <3>5
  <2> QED BY <2>1, <2>2
<1> QED BY <1>3, <1>5, <1>6, <1>7, <1>8, <1>9 DEF IInv

(* A batch that is answered: its rows are in the table, so they need not    *)
(* stay pending.                                                            *)
LEMMA CommitIInv ==
    ASSUME NEW h \in Watched
    PROVE  IInv /\ Commit(h) => IInv'
<1> SUFFICES ASSUME IInv, Commit(h) PROVE IInv'
  OBVIOUS
<1>1. PICK rows \in SUBSET PendingRows(h.name) :
         /\ Batch(h, rows)
         /\ pending' = [pending EXCEPT ![h.name] =
                           [c \in DOMAIN pending[h.name] |-> pending[h.name][c] \ rows]]
  BY DEF Commit
<1> DEFINE x == [c \in DOMAIN pending[h.name] |-> pending[h.name][c] \ rows]
<1>2. Trimmed(pending[h.name], rows, x)
  BY DEF Trimmed
<1>3. pending' = [pending EXCEPT ![h.name] = x]
  BY <1>1
<1> HIDE DEF x
<1> QED BY <1>1, <1>2, <1>3, BatchIInv

(* A batch whose answer is lost: its rows are both stored and pending.      *)
LEMMA CommitUnansweredIInv ==
    ASSUME NEW h \in Watched
    PROVE  IInv /\ CommitUnanswered(h) => IInv'
<1> SUFFICES ASSUME IInv, CommitUnanswered(h) PROVE IInv'
  OBVIOUS
<1>1. PICK rows \in SUBSET PendingRows(h.name) : Batch(h, rows) /\ pending' = pending
  BY DEF CommitUnanswered
<1> DEFINE x == pending[h.name]
<1>2. Trimmed(pending[h.name], rows, x)
  BY DEF Trimmed
<1>3. pending = [p \in Names |-> pending[p]]
  BY DEF IInv, ProgressOK
<1>4. pending' = [pending EXCEPT ![h.name] = x]
  BY <1>1, <1>3
<1>5. Batch(h, rows)
  BY <1>1
<1> HIDE DEF x
<1> QED BY <1>2, <1>4, <1>5, BatchIInv

(* The events of the checkpoints a watermark moves over are stored.         *)
LEMMA CommittedIsStored ==
    ASSUME IInv, NEW h \in Watched, NEW w \in (watermark[h.name] + 1)..Len(chain),
           Committed(h.name, w), NEW c \in DOMAIN chain, c <= w,
           NEW p \in EventsIn(h, chain[c], mode)
    PROVE  KeyAt(c, p) \in DOMAIN tables[h.table]
<1>1. watermark[h.name] \in Nat /\ Len(chain) \in Nat /\ DOMAIN chain = 1..Len(chain)
  BY PipelineFacts
<1>2. Through(h, c, p)
  <2>1. CASE c > watermark[h.name]
    <3>1. c \in (watermark[h.name] + 1)..w
      BY <1>1, <2>1
    <3>2. c \in DOMAIN pending[h.name] /\ pending[h.name][c] = {}
      BY <3>1 DEF Committed
    <3> QED BY <3>2 DEF Through
  <2>2. CASE ~ (c > watermark[h.name])
    BY <1>1, <2>2 DEF Through
  <2> QED BY <2>1, <2>2
<1> QED BY <1>2 DEF IInv, StoredOK

(* The watermark moves over checkpoints with nothing pending, so all of     *)
(* them is stored.                                                          *)
LEMMA UpdateWatermarkIInv ==
    ASSUME NEW h \in Watched
    PROVE  IInv /\ UpdateWatermark(h) => IInv'
<1> SUFFICES ASSUME IInv, UpdateWatermark(h) PROVE IInv'
  OBVIOUS
<1>1. PICK w \in (watermark[h.name] + 1)..Len(chain) :
         /\ Committed(h.name, w)
         /\ watermark' = [watermark EXCEPT ![h.name] = w]
         /\ pending' = [pending EXCEPT ![h.name] =
                           [c \in {d \in DOMAIN pending[h.name] : d > w} |-> pending[h.name][c]]]
  BY DEF UpdateWatermark
<1> DEFINE new == [c \in {d \in DOMAIN pending[h.name] : d > w} |-> pending[h.name][c]]
<1>2. /\ mode' = mode /\ tables' = tables /\ chain' = chain
      /\ cfg' = cfg /\ registered' = registered /\ up' = up /\ crashes' = crashes
      /\ h \in registered
  BY DEF UpdateWatermark
<1>3. /\ watermark[h.name] \in Nat /\ Len(chain) \in Nat /\ DOMAIN chain = 1..Len(chain)
      /\ DOMAIN watermark = Names
      /\ \A c \in DOMAIN pending[h.name] : c \in DOMAIN chain
  BY PipelineFacts
<1>4. w \in Nat /\ watermark[h.name] < w /\ w <= Len(chain)
  BY <1>3
<1>5. /\ pending' = [p \in Names |-> pending'[p]]
      /\ pending'[h.name] = new
      /\ \A g \in Watched : g # h => pending'[g.name] = pending[g.name]
  <2>1. pending' = [pending EXCEPT ![h.name] = new]
    BY <1>1
  <2> HIDE DEF new
  <2> QED BY <2>1, OnlyItsOwn
<1>6. /\ DOMAIN pending'[h.name] = {d \in DOMAIN pending[h.name] : d > w}
      /\ \A c \in DOMAIN pending'[h.name] : pending'[h.name][c] = pending[h.name][c]
  BY <1>5
<1> HIDE DEF new
<1>7. /\ watermark' \in [Names -> Nat] /\ watermark'[h.name] = w
      /\ \A g \in Watched : g # h => watermark'[g.name] = watermark[g.name]
  <2>1. watermark \in [Names -> Nat]
    BY DEF IInv, ProgressOK
  <2>2. h.name \in Names /\ \A g \in Watched : g.name \in Names /\ (g.name = h.name => g = h)
    BY WatchedFacts
  <2> QED BY <1>1, <1>4, <2>1, <2>2
<1>8. ASSUME NEW g \in Watched, NEW c \in DOMAIN pending'[g.name]
      PROVE  c \in DOMAIN pending[g.name] /\ pending'[g.name][c] = pending[g.name][c]
  BY <1>5, <1>6, <1>8
<1>9. ChainOK'
  BY <1>2 DEF IInv, ChainOK
<1>10. ProcessOK'
  BY <1>2 DEF IInv, ProcessOK
<1>11. ProgressOK'
  <2> SUFFICES ASSUME NEW g \in Watched
               PROVE  /\ watermark'[g.name] <= Len(chain)
                      /\ watermark'[g.name] > 0 => g \in registered
                      /\ \A d \in DOMAIN pending'[g.name] :
                           d \in Nat /\ watermark'[g.name] < d /\ d <= Len(chain) /\ g \in registered
    BY <1>2, <1>5, <1>7 DEF ProgressOK
  <2>1. CASE g = h
    <3>1. ASSUME NEW d \in DOMAIN pending'[h.name]
          PROVE  d \in Nat /\ w < d /\ d <= Len(chain)
      <4>1. d \in DOMAIN chain /\ d > w
        BY <1>3, <1>6
      <4> QED BY <1>3, <1>4, <4>1
    <3> QED BY <1>2, <1>4, <1>7, <2>1, <3>1
  <2>2. CASE g # h
    BY <1>5, <1>7, <2>2 DEF IInv, ProgressOK
  <2> QED BY <2>1, <2>2
<1>12. PendingOK'
  <2> SUFFICES ASSUME NEW g \in Watched, NEW d \in DOMAIN pending'[g.name],
                      NEW r \in pending'[g.name][d]
               PROVE  \E p \in EventsIn(g, chain[d], mode) : r = RowAt(g, d, chain[d], mode, p)
    BY <1>2 DEF PendingOK
  <2>1. d \in DOMAIN pending[g.name] /\ r \in pending[g.name][d]
    BY <1>8
  <2> QED BY <2>1 DEF IInv, PendingOK
<1>13. TablesOK'
  BY <1>2 DEF IInv, TablesOK, Explains
<1>14. StoredOK'
  <2> SUFFICES ASSUME NEW g \in Watched, NEW d \in DOMAIN chain,
                      NEW p \in EventsIn(g, chain[d], mode), Through(g, d, p)'
               PROVE  KeyAt(d, p) \in DOMAIN tables[g.table]
    BY <1>2 DEF StoredOK
  <2>1. CASE g = h /\ d <= w
    BY <1>1, <2>1, CommittedIsStored
  <2>2. CASE ~ (g = h /\ d <= w)
    <3>1. \/ d <= watermark'[g.name]
          \/ d \in DOMAIN pending'[g.name] /\ RowAt(g, d, chain[d], mode, p) \notin pending'[g.name][d]
      BY <1>2 DEF Through
    <3>2. Through(g, d, p)
      BY <1>7, <1>8, <2>2, <3>1 DEF Through
    <3> QED BY <3>2 DEF IInv, StoredOK
  <2> QED BY <2>1, <2>2
<1> QED BY <1>9, <1>10, <1>11, <1>12, <1>13, <1>14 DEF IInv

(* The invariant holds in every reachable state.                            *)
LEMMA IInvHolds == Spec => []IInv
<1>1. Init => IInv
  BY InitIInv
<1>2. IInv /\ [Next]_vars => IInv'
  <2> SUFFICES ASSUME IInv, [Next]_vars PROVE IInv'
    OBVIOUS
  <2>1. CASE Start
    BY <2>1, StartIInv
  <2>2. CASE NewCheckpoint
    BY <2>2, NewCheckpointIInv
  <2>3. CASE \E h \in Watched : Process(h)
    BY <2>3, ProcessIInv
  <2>4. CASE \E h \in Watched : Commit(h)
    BY <2>4, CommitIInv
  <2>5. CASE \E h \in Watched : CommitUnanswered(h)
    BY <2>5, CommitUnansweredIInv
  <2>6. CASE \E h \in Watched : UpdateWatermark(h)
    BY <2>6, UpdateWatermarkIInv
  <2>7. CASE Crash
    BY <2>7, CrashIInv
  <2>8. CASE UNCHANGED vars
    <3>1. /\ mode' = mode /\ tables' = tables /\ watermark' = watermark /\ chain' = chain
          /\ cfg' = cfg /\ registered' = registered /\ up' = up /\ crashes' = crashes
          /\ pending' = pending
      BY <2>8 DEF vars
    <3>2. ChainOK' /\ ProcessOK'
      BY <3>1 DEF IInv, ChainOK, ProcessOK
    <3>3. ProgressOK'
      BY <3>1 DEF IInv, ProgressOK
    <3>6. PendingOK'
      BY <3>1 DEF IInv, PendingOK
    <3>4. TablesOK'
      BY <3>1 DEF IInv, TablesOK, Explains
    <3>5. StoredOK'
      BY <3>1 DEF IInv, StoredOK, Through
    <3> QED BY <3>2, <3>3, <3>4, <3>5, <3>6 DEF IInv
  <2> QED BY <2>1, <2>2, <2>3, <2>4, <2>5, <2>6, <2>7, <2>8 DEF Next
<1> QED BY <1>1, <1>2, PTL DEF Spec

-----------------------------------------------------------------------------
(* What the invariant says of the tables. *)

(* A row of a table, with the registered pipeline, the checkpoint and the   *)
(* position it comes from.                                                  *)
LEMMA RowOrigin ==
    ASSUME IInv, NEW t \in Tables, NEW k \in DOMAIN tables[t]
    PROVE  \E h \in registered : \E c \in DOMAIN chain : \E p \in EventsIn(h, chain[c], mode) :
              /\ h \in Watched /\ h \in AllHandlers /\ h.table = t /\ k = KeyAt(c, p)
              /\ tables[t][k] = RowAt(h, c, chain[c], mode, p) /\ IsCheckpoint(c, chain[c])
              /\ tables[t][k].event_digest = k /\ tables[t][k].checkpoint = c
              /\ tables[t][k].columns = Columns(chain[c].transactions[p[1]].events[p[2]])
              /\ tables[t][k].pool_id =
                    PoolColumn(h, chain[c].transactions[p[1]], p[2], Configuration(mode))
              /\ mode \in Modes /\ StartAllowed(mode) /\ cfg = Configuration(mode)
              /\ h \in Pipelines(mode)
<1>1. PICK h \in registered : \E c \in DOMAIN chain : \E p : Explains(t, k, tables[t][k], h, c, p)
  BY DEF IInv, TablesOK
<1>2. PICK c \in DOMAIN chain : \E p : Explains(t, k, tables[t][k], h, c, p)
  BY <1>1
<1>3. PICK p : Explains(t, k, tables[t][k], h, c, p)
  BY <1>2
<1>4. /\ h.table = t /\ p \in EventsIn(h, chain[c], mode)
      /\ k = KeyAt(c, p) /\ tables[t][k] = RowAt(h, c, chain[c], mode, p)
  BY <1>3 DEF Explains
<1>5. h \in Watched
  BY DEF IInv, ProcessOK
<1>6. /\ h \in AllHandlers /\ IsCheckpoint(c, chain[c]) /\ mode \in Modes /\ StartAllowed(mode)
      /\ cfg = Configuration(mode) /\ h \in Pipelines(mode)
  BY <1>5, PipelineFacts, WatchedFacts
<1>7. /\ tables[t][k].event_digest = k /\ tables[t][k].checkpoint = c
      /\ tables[t][k].columns = Columns(chain[c].transactions[p[1]].events[p[2]])
      /\ tables[t][k].pool_id = PoolColumn(h, chain[c].transactions[p[1]], p[2], Configuration(mode))
  BY <1>4, <1>6, RowFacts
<1> QED BY <1>4, <1>5, <1>6, <1>7

(* What is neither pending nor unprocessed is stored.                       *)
LEMMA IInvNothingMissing == IInv => NothingMissing
<1> SUFFICES ASSUME IInv, NEW h \in Watched, NEW c \in 1..watermark[h.name],
                    NEW p \in EventsFor(h, c)
             PROVE  /\ KeyAt(c, p) \in DOMAIN tables[h.table]
                    /\ tables[h.table][KeyAt(c, p)].columns = Columns(EventAt(c, p))
  BY DEF NothingMissing
<1>1. p \in EventsIn(h, chain[c], mode)
  BY DEF EventsFor, EventsIn
<1>2. /\ watermark[h.name] \in Nat /\ watermark[h.name] <= Len(chain) /\ Len(chain) \in Nat
      /\ DOMAIN chain = 1..Len(chain)
  BY PipelineFacts
<1>3. c \in DOMAIN chain /\ c <= watermark[h.name]
  BY <1>2
<1>4. KeyAt(c, p) \in DOMAIN tables[h.table]
  BY <1>1, <1>3 DEF IInv, StoredOK, Through
<1>5. h.table \in Tables
  BY WatchedFacts
<1>6. PICK g \in registered : \E d \in DOMAIN chain : \E q \in EventsIn(g, chain[d], mode) :
         /\ KeyAt(c, p) = KeyAt(d, q)
         /\ tables[h.table][KeyAt(c, p)].columns = Columns(chain[d].transactions[q[1]].events[q[2]])
  BY <1>4, <1>5, RowOrigin
<1>7. PICK d \in DOMAIN chain : \E q \in EventsIn(g, chain[d], mode) :
         /\ KeyAt(c, p) = KeyAt(d, q)
         /\ tables[h.table][KeyAt(c, p)].columns = Columns(chain[d].transactions[q[1]].events[q[2]])
  BY <1>6
<1>8. PICK q \in EventsIn(g, chain[d], mode) :
         /\ KeyAt(c, p) = KeyAt(d, q)
         /\ tables[h.table][KeyAt(c, p)].columns = Columns(chain[d].transactions[q[1]].events[q[2]])
  BY <1>7
<1>9. c = d /\ p = q
  BY <1>1, <1>8, KeysTell
<1> QED BY <1>4, <1>8, <1>9 DEF EventAt

(* Below a watermark nothing is missing, whatever was processed out of      *)
(* order, committed twice or lost in a crash (process and commit of the     *)
(* handlers), for any pipelines, chain, command line and bounds.            *)
THEOREM NothingIsMissing == Spec => []NothingMissing
BY IInvHolds, IInvNothingMissing, PTL

(* The type invariant.                                                      *)
LEMMA IInvTypeOK == IInv => TypeOK
<1> SUFFICES ASSUME IInv PROVE TypeOK
  OBVIOUS
<1>1. mode \in Modes /\ up \in BOOLEAN /\ crashes \in 0..MaxCrashes /\ registered \subseteq Watched
  BY DEF IInv, ProcessOK
<1>2. ASSUME NEW n \in Names
      PROVE  watermark[n] \in 0..Len(chain) /\ DOMAIN pending[n] \subseteq (watermark[n] + 1)..Len(chain)
  <2>1. PICK h \in Watched : n = h.name
    BY DEF Names
  <2>2. /\ watermark[n] \in Nat /\ watermark[n] <= Len(chain) /\ Len(chain) \in Nat
        /\ DOMAIN chain = 1..Len(chain)
        /\ \A c \in DOMAIN pending[n] : c \in DOMAIN chain /\ watermark[n] < c
    BY <2>1, PipelineFacts
  <2> QED BY <2>2
<1>3. \A t \in Tables : \A k \in DOMAIN tables[t] : tables[t][k].event_digest = k
  BY RowOrigin
<1> QED BY <1>1, <1>2, <1>3 DEF TypeOK

(* A row was made for an event of a pipeline of its table.                  *)
LEMMA IInvRowsBelong == IInv => RowsBelong
<1> SUFFICES ASSUME IInv, NEW t \in Tables, NEW k \in DOMAIN tables[t]
             PROVE  \E c \in DOMAIN chain : \E h \in {w \in Watched : w.table = t} :
                       \E p \in EventsFor(h, c) :
                          /\ k = KeyAt(c, p)
                          /\ tables[t][k].checkpoint = c
                          /\ tables[t][k].columns = Columns(EventAt(c, p))
  BY DEF RowsBelong
<1>1. PICK h \in registered : \E c \in DOMAIN chain : \E p \in EventsIn(h, chain[c], mode) :
         /\ h \in Watched /\ h.table = t /\ k = KeyAt(c, p) /\ tables[t][k].checkpoint = c
         /\ tables[t][k].columns = Columns(chain[c].transactions[p[1]].events[p[2]])
  BY RowOrigin
<1> QED BY <1>1 DEF EventsFor, EventsIn, EventAt

(* One event, one pipeline, one table.                                      *)
LEMMA IInvOneTable == IInv => OneTable
<1> SUFFICES ASSUME IInv, NEW t \in Tables, NEW u \in Tables,
                    NEW k \in DOMAIN tables[t], k \in DOMAIN tables[u]
             PROVE  t = u
  BY DEF OneTable
<1>1. PICK h \in AllHandlers : \E c \in DOMAIN chain : \E p \in EventsIn(h, chain[c], mode) :
         h.table = t /\ k = KeyAt(c, p)
  BY RowOrigin
<1>2. PICK c \in DOMAIN chain : \E p \in EventsIn(h, chain[c], mode) : k = KeyAt(c, p)
  BY <1>1
<1>3. PICK p \in EventsIn(h, chain[c], mode) : k = KeyAt(c, p)
  BY <1>2
<1>4. PICK g \in AllHandlers : \E d \in DOMAIN chain : \E q \in EventsIn(g, chain[d], mode) :
         g.table = u /\ k = KeyAt(d, q)
  BY RowOrigin
<1>5. PICK d \in DOMAIN chain : \E q \in EventsIn(g, chain[d], mode) : k = KeyAt(d, q)
  BY <1>4
<1>6. PICK q \in EventsIn(g, chain[d], mode) : k = KeyAt(d, q)
  BY <1>5
<1>7. c = d /\ p = q
  <2>1. KeyAt(c, p) = KeyAt(d, q)
    BY <1>3, <1>6
  <2> QED BY <2>1, KeysTell
<1>8. \E e : Concerns(h, e, mode) /\ Concerns(g, e, mode)
  <2>1. PICK i, j : p = <<i, j>> /\ Concerns(h, chain[c].transactions[i].events[j], mode)
    BY PositionFacts
  <2>2. PICK x, y : q = <<x, y>> /\ Concerns(g, chain[d].transactions[x].events[y], mode)
    BY PositionFacts
  <2>3. p = q
    BY <1>7
  <2>4. <<i, j>> = <<x, y>>
    BY <2>1, <2>2, <2>3
  <2>5. i = x /\ j = y
    BY <2>4
  <2> QED BY <1>7, <2>1, <2>2, <2>5
<1>9. h.events \cap g.events # {}
  BY <1>8 DEF Concerns
<1>10. g = h
  BY <1>9, HandlersAlone DEF Alone
<1> QED BY <1>1, <1>4, <1>10

(* A row has the pool that its event is about, or the first of several.     *)
LEMMA IInvFiled == IInv => FiledUnderItsPool
<1> SUFFICES ASSUME IInv, NEW t \in Tables, NEW k \in DOMAIN tables[t],
                    NEW tx, tx = chain[k[1][1]].transactions[k[1][2]]
             PROVE  \/ tables[t][k].pool_id \in {tx.events[k[2]].pool, NULL}
                    \/ /\ t = TradeParamsUpdateHandler.table
                       /\ Cardinality(PoolsAmong(tx.inputs, cfg)) > 1
                       /\ tables[t][k].pool_id \in PoolsAmong(tx.inputs, cfg)
  BY DEF FiledUnderItsPool, PoolsAmong
<1>1. PICK h \in registered : \E c \in DOMAIN chain : \E p \in EventsIn(h, chain[c], mode) :
         /\ h \in AllHandlers /\ h.table = t /\ k = KeyAt(c, p) /\ IsCheckpoint(c, chain[c])
         /\ tables[t][k].pool_id =
               PoolColumn(h, chain[c].transactions[p[1]], p[2], Configuration(mode))
         /\ mode \in Modes /\ StartAllowed(mode) /\ cfg = Configuration(mode) /\ h \in Pipelines(mode)
  BY RowOrigin
<1>2. PICK c \in DOMAIN chain : \E p \in EventsIn(h, chain[c], mode) :
         /\ k = KeyAt(c, p) /\ IsCheckpoint(c, chain[c])
         /\ tables[t][k].pool_id =
               PoolColumn(h, chain[c].transactions[p[1]], p[2], Configuration(mode))
  BY <1>1
<1>3. PICK p \in EventsIn(h, chain[c], mode) :
         /\ k = KeyAt(c, p)
         /\ tables[t][k].pool_id =
               PoolColumn(h, chain[c].transactions[p[1]], p[2], Configuration(mode))
  BY <1>2
<1>4. tx = chain[c].transactions[p[1]] /\ k[2] = p[2]
  BY <1>3 DEF KeyAt
<1>5. \/ PoolColumn(h, tx, p[2], Configuration(mode)) \in {tx.events[p[2]].pool, NULL}
      \/ /\ h.table = TradeParamsUpdateHandler.table
         /\ Cardinality(PoolsAmong(tx.inputs, Configuration(mode))) > 1
         /\ PoolColumn(h, tx, p[2], Configuration(mode)) \in PoolsAmong(tx.inputs, Configuration(mode))
  <2>1. mode \in Modes /\ StartAllowed(mode) /\ h \in AllHandlers /\ h \in Pipelines(mode)
    BY <1>1
  <2>2. IsCheckpoint(c, chain[c]) /\ tx = chain[c].transactions[p[1]]
    BY <1>2, <1>4
  <2> HIDE <1>1, <1>2
  <2> QED BY <2>1, <2>2, PoolFacts
<1> QED BY <1>1, <1>3, <1>4, <1>5

(* The tables hold nothing that is not on the chain: every row is that of   *)
(* an event of a pipeline of its table, in no other table, and filed under  *)
(* the pool it is about (matches_event_type, the packages of the            *)
(* environment, commit and trade_params_update_handler.rs).                 *)
THEOREM NothingIsInvented == Spec => []NothingInvented
<1>1. IInv => NothingInvented
  BY IInvTypeOK, IInvRowsBelong, IInvOneTable, IInvFiled DEF NothingInvented
<1> QED BY <1>1, IInvHolds, PTL

-----------------------------------------------------------------------------
(* The refinement of EventLog. *)

(* The references a checkpoint publishes: one for each pipeline and event   *)
(* that concerns it.                                                        *)
LEMMA RefFacts ==
    ASSUME NEW c, NEW txs, NEW m, NEW r
    PROVE  r \in RefsFor(c, txs, m) <=>
              \E h \in Watched : \E p \in Positions(h, txs, m) : r = <<h.name, KeyAt(c, p)>>
BY DEF RefsFor

(* The references of a checkpoint are those of the block it was made of.    *)
LEMMA RefsOfBlock ==
    ASSUME NEW c, NEW b \in Blocks, NEW m
    PROVE  RefsFor(c, Checkpoint(c, b).transactions, m) = RefsFor(c, b, m)
<1> DEFINE txs == Checkpoint(c, b).transactions
<1>1. DOMAIN txs = DOMAIN b /\ \A t \in DOMAIN b : txs[t].events = b[t].events
  BY DEF Checkpoint
<1> HIDE DEF txs
<1>2. ASSUME NEW h
      PROVE  Positions(h, txs, m) = Positions(h, b, m)
  BY <1>1 DEF Positions
<1>3. RefsFor(c, txs, m) = RefsFor(c, b, m)
  BY <1>2 DEF RefsFor
<1> QED BY <1>3 DEF txs

(* The references that are stored: those with a row under the event's key.  *)
LEMMA StoredFacts ==
    ASSUME NEW r
    PROVE  r \in StoredRefs <=>
              \E h \in Watched : \E c \in DOMAIN chain : \E p \in EventsIn(h, chain[c], mode) :
                  r = <<h.name, KeyAt(c, p)>> /\ KeyAt(c, p) \in DOMAIN tables[h.table]
BY DEF StoredRefs, EventsFor, EventsIn

(* Steps that add no checkpoint publish nothing.                            *)
LEMMA PublishedStays ==
    ASSUME chain' = chain, mode' = mode
    PROVE  PublishedRefs' = PublishedRefs
BY DEF PublishedRefs

(* Steps that touch neither the chain nor the tables store nothing.         *)
LEMMA StoredStays ==
    ASSUME chain' = chain, mode' = mode, tables' = tables
    PROVE  StoredRefs' = StoredRefs
BY DEF StoredRefs, EventsFor

(* Init is an empty log.                                                    *)
LEMMA InitLog == Init => Log!LogInit
<1> SUFFICES ASSUME Init PROVE Log!LogInit
  OBVIOUS
<1>1. DOMAIN chain = {}
  BY DEF Init
<1>2. PublishedRefs = <<>>
  BY <1>1 DEF PublishedRefs
<1>3. StoredRefs = {}
  BY <1>1, StoredFacts
<1>4. watermark = [p \in Names |-> 0]
  BY DEF Init
<1> QED BY <1>2, <1>3, <1>4 DEF Log!LogInit

(* A new checkpoint is a step that publishes its references.                *)
LEMMA NewCheckpointLog == IInv /\ NewCheckpoint => Log!Publish
<1> SUFFICES ASSUME IInv, NewCheckpoint PROVE Log!Publish
  OBVIOUS
<1>1. PICK b \in Blocks : chain' = Append(chain, Checkpoint(Len(chain) + 1, b))
  BY DEF NewCheckpoint
<1>2. /\ mode' = mode /\ tables' = tables /\ watermark' = watermark /\ Len(chain) < MaxCheckpoints
  BY DEF NewCheckpoint
<1> DEFINE n == Len(chain)
           cp == Checkpoint(n + 1, b)
<1>3. chain \in Seq(Checkpoints) /\ \A c \in DOMAIN chain : IsCheckpoint(c, chain[c])
  BY DEF IInv, ChainOK
<1>4. n \in Nat /\ n + 1 \in 1..MaxCheckpoints
  BY <1>2, <1>3, IndexerAssumption
<1>5. cp \in Checkpoints
  BY <1>4 DEF Checkpoints
<1> HIDE DEF cp
<1>6. /\ DOMAIN chain = 1..n /\ DOMAIN chain' = 1..(n + 1)
      /\ \A c \in 1..n : chain'[c] = chain[c]
      /\ chain'[n + 1] = cp
  BY <1>1, <1>3, <1>5 DEF cp
<1> HIDE DEF n
<1> DEFINE new == RefsFor(n + 1, cp.transactions, mode)
<1>7. new \in BatchRefs
  <2>1. new = RefsFor(n + 1, b, mode)
    BY RefsOfBlock DEF cp
  <2>2. mode \in Modes
    BY DEF IInv, ProcessOK
  <2> QED BY <1>4, <2>1, <2>2 DEF BatchRefs
<1>8. PublishedRefs' = Append(PublishedRefs, new)
  <2> DEFINE f == PublishedRefs
             S == {f[c] : c \in 1..n} \cup {new}
             g == Append(f, new)
  <2>1. f = [c \in 1..n |-> RefsFor(c, chain[c].transactions, mode)]
    BY <1>6 DEF PublishedRefs
  <2>2. PublishedRefs' = [c \in 1..(n + 1) |-> RefsFor(c, chain'[c].transactions, mode)]
    BY <1>2, <1>6 DEF PublishedRefs
  <2> HIDE DEF f, new
  <2>3. f \in [1..n -> S] /\ f \in Seq(S) /\ Len(f) = n
    BY <1>4, <2>1
  <2>4. Append(f, new) = [c \in 1..(n + 1) |-> IF c = n + 1 THEN new ELSE f[c]]
    <3>1. g \in Seq(S) /\ Len(g) = n + 1 /\ \A c \in 1..(n + 1) : g[c] = IF c = n + 1 THEN new ELSE f[c]
      BY <1>4, <2>3
    <3> HIDE DEF g, S
    <3>2. g \in [1..Len(g) -> S]
      BY <3>1
    <3>3. g = [c \in 1..(n + 1) |-> IF c = n + 1 THEN new ELSE f[c]]
      BY <3>1, <3>2
    <3> QED BY <3>3 DEF g
  <2>5. ASSUME NEW c \in 1..(n + 1)
        PROVE  RefsFor(c, chain'[c].transactions, mode) = IF c = n + 1 THEN new ELSE f[c]
    BY <1>4, <1>6, <2>1 DEF new
  <2> QED BY <2>2, <2>4, <2>5 DEF f
<1>9. StoredRefs' = StoredRefs
  <2>1. ASSUME NEW r \in StoredRefs
        PROVE  r \in StoredRefs'
    <3>1. \E h \in Watched : \E c \in DOMAIN chain : \E p \in EventsIn(h, chain[c], mode) :
                  r = <<h.name, KeyAt(c, p)>> /\ KeyAt(c, p) \in DOMAIN tables[h.table]
      BY StoredFacts
    <3>2. \E h \in Watched : \E c \in DOMAIN chain' : \E p \in EventsIn(h, chain'[c], mode') :
                  r = <<h.name, KeyAt(c, p)>> /\ KeyAt(c, p) \in DOMAIN tables'[h.table]
      BY <1>2, <1>4, <1>6, <3>1
    <3> QED BY <3>2 DEF StoredRefs, EventsFor, EventsIn
  <2>2. ASSUME NEW r \in StoredRefs'
        PROVE  r \in StoredRefs
    <3>1. PICK h \in Watched, c \in DOMAIN chain' :
             \E p \in EventsIn(h, chain'[c], mode) :
                  r = <<h.name, KeyAt(c, p)>> /\ KeyAt(c, p) \in DOMAIN tables[h.table]
      BY <1>2 DEF StoredRefs, EventsFor, EventsIn
    <3>2. PICK p \in EventsIn(h, chain'[c], mode) :
                  r = <<h.name, KeyAt(c, p)>> /\ KeyAt(c, p) \in DOMAIN tables[h.table]
      BY <3>1
    <3>3. h.table \in Tables
      BY WatchedFacts
    <3>4. PICK g \in registered : \E d \in DOMAIN chain : \E q \in EventsIn(g, chain[d], mode) :
                  KeyAt(c, p) = KeyAt(d, q)
      BY <3>2, <3>3, RowOrigin
    <3>5. PICK d \in DOMAIN chain : \E q \in EventsIn(g, chain[d], mode) : KeyAt(c, p) = KeyAt(d, q)
      BY <3>4
    <3>6. PICK q \in EventsIn(g, chain[d], mode) : KeyAt(c, p) = KeyAt(d, q)
      BY <3>5
    <3>7. c = d
      BY <3>6, KeysTell
    <3>8. c \in DOMAIN chain /\ p \in EventsIn(h, chain[c], mode)
      BY <1>6, <3>7
    <3> QED BY <3>2, <3>8, StoredFacts
  <2> QED BY <2>1, <2>2
<1> QED BY <1>2, <1>7, <1>8, <1>9 DEF Log!Publish

(* A commit stores references that were published, and forgets none.        *)
LEMMA BatchLog ==
    ASSUME IInv, NEW h \in Watched, NEW rows \in SUBSET PendingRows(h.name), Batch(h, rows)
    PROVE  Log!Store
<1>1. chain' = chain /\ mode' = mode /\ watermark' = watermark
  BY DEF Batch
<1>2. PublishedRefs' = PublishedRefs
  BY <1>1, PublishedStays
<1>3. \A t \in Tables : DOMAIN tables[t] \subseteq DOMAIN tables'[t]
  BY BatchFacts
<1>4. ASSUME NEW r \in StoredRefs
      PROVE  r \in StoredRefs'
  <2>1. \E g \in Watched : \E c \in DOMAIN chain : \E p \in EventsIn(g, chain[c], mode) :
                r = <<g.name, KeyAt(c, p)>> /\ KeyAt(c, p) \in DOMAIN tables[g.table]
    BY StoredFacts
  <2>2. \E g \in Watched : \E c \in DOMAIN chain' : \E p \in EventsIn(g, chain'[c], mode') :
                r = <<g.name, KeyAt(c, p)>> /\ KeyAt(c, p) \in DOMAIN tables'[g.table]
    BY <1>1, <1>3, <2>1, WatchedFacts
  <2> QED BY <2>2 DEF StoredRefs, EventsFor, EventsIn
<1>5. ASSUME NEW r \in StoredRefs'
      PROVE  r \in Log!AllPublished
  <2>1. PICK g \in Watched, c \in DOMAIN chain :
           \E p \in EventsIn(g, chain[c], mode) : r = <<g.name, KeyAt(c, p)>>
    BY <1>1 DEF StoredRefs, EventsFor, EventsIn
  <2>2. r \in RefsFor(c, chain[c].transactions, mode)
    BY <2>1, RefFacts DEF EventsIn
  <2>3. c \in DOMAIN PublishedRefs /\ r \in PublishedRefs[c]
    BY <2>2 DEF PublishedRefs
  <2> QED BY <2>3 DEF Log!AllPublished
<1> DEFINE s == StoredRefs' \ StoredRefs
<1>6. s \in SUBSET (Log!AllPublished \ StoredRefs) /\ StoredRefs' = StoredRefs \cup s
  BY <1>4, <1>5
<1> QED BY <1>1, <1>2, <1>6 DEF Log!Store

(* A watermark vouches for what is stored.                                  *)
LEMMA UpdateWatermarkLog ==
    ASSUME IInv, NEW h \in Watched, UpdateWatermark(h)
    PROVE  Log!Vouch(h.name)
<1>1. PICK w \in (watermark[h.name] + 1)..Len(chain) :
         Committed(h.name, w) /\ watermark' = [watermark EXCEPT ![h.name] = w]
  BY DEF UpdateWatermark
<1>2. chain' = chain /\ mode' = mode /\ tables' = tables
  BY DEF UpdateWatermark
<1>3. PublishedRefs' = PublishedRefs /\ StoredRefs' = StoredRefs
  BY <1>2, PublishedStays, StoredStays
<1>4. watermark[h.name] \in Nat /\ Len(chain) \in Nat /\ DOMAIN chain = 1..Len(chain)
  BY PipelineFacts
<1>5. Len(PublishedRefs) = Len(chain)
  <2> DEFINE f == [c \in 1..Len(chain) |-> RefsFor(c, chain[c].transactions, mode)]
             S == {f[c] : c \in 1..Len(chain)}
  <2>1. f \in Seq(S) /\ Len(f) = Len(chain)
    BY <1>4
  <2> QED BY <1>4, <2>1 DEF PublishedRefs
<1>6. ASSUME NEW c \in 1..w, NEW r \in PublishedRefs[c], r[1] = h.name
      PROVE  r \in StoredRefs
  <2>1. c \in DOMAIN chain /\ c <= w
    BY <1>4
  <2>2. r \in RefsFor(c, chain[c].transactions, mode)
    BY <2>1 DEF PublishedRefs
  <2>3. PICK g \in Watched : \E p \in EventsIn(g, chain[c], mode) : r = <<g.name, KeyAt(c, p)>>
    BY <2>2, RefFacts DEF EventsIn
  <2>4. PICK p \in EventsIn(g, chain[c], mode) : r = <<g.name, KeyAt(c, p)>>
    BY <2>3
  <2>5. g = h
    BY <1>6, <2>4, WatchedFacts
  <2>6. KeyAt(c, p) \in DOMAIN tables[h.table]
    BY <1>1, <2>1, <2>4, <2>5, CommittedIsStored
  <2> QED BY <2>1, <2>4, <2>5, <2>6, StoredFacts
<1>7. Log!Complete(h.name, w)
  BY <1>6 DEF Log!Complete, Log!Of
<1> QED BY <1>1, <1>3, <1>5, <1>7 DEF Log!Vouch

(* The indexer is an event log: crashes, reprocessing and repeated commits  *)
(* are invisible in the tables, no row goes away, and a watermark only      *)
(* moves forward over what is stored (main.rs, commit of the handlers).     *)
THEOREM IndexerImplements == Spec => ImplementsLog
<1>1. IInv /\ [Next]_vars => [Log!LogNext]_(Log!logVars)
  <2> SUFFICES ASSUME IInv, [Next]_vars PROVE [Log!LogNext]_(Log!logVars)
    OBVIOUS
  <2>1. CASE NewCheckpoint
    BY <2>1, NewCheckpointLog DEF Log!LogNext
  <2>2. CASE \E h \in Watched : Commit(h)
    BY <2>2, BatchLog DEF Commit, Log!LogNext
  <2>3. CASE \E h \in Watched : CommitUnanswered(h)
    BY <2>3, BatchLog DEF CommitUnanswered, Log!LogNext
  <2>4. CASE \E h \in Watched : UpdateWatermark(h)
    <3>1. PICK h \in Watched : UpdateWatermark(h)
      BY <2>4
    <3>2. Log!Vouch(h.name) /\ h.name \in Names
      BY <3>1, UpdateWatermarkLog, WatchedFacts
    <3> QED BY <3>2 DEF Log!LogNext
  <2>5. CASE chain' = chain /\ mode' = mode /\ tables' = tables /\ watermark' = watermark
    <3>1. PublishedRefs' = PublishedRefs /\ StoredRefs' = StoredRefs
      BY <2>5, PublishedStays, StoredStays
    <3> QED BY <2>5, <3>1 DEF Log!logVars
  <2>6. \/ NewCheckpoint
        \/ \E h \in Watched : Commit(h)
        \/ \E h \in Watched : CommitUnanswered(h)
        \/ \E h \in Watched : UpdateWatermark(h)
        \/ chain' = chain /\ mode' = mode /\ tables' = tables /\ watermark' = watermark
    BY DEF Next, Start, Process, Crash, vars
  <2> QED BY <2>1, <2>2, <2>3, <2>4, <2>5, <2>6
<1> QED BY <1>1, InitLog, IInvHolds, PTL DEF Spec, ImplementsLog, Log!LogSpec
=============================================================================
