---------------------------- MODULE EventTypes ----------------------------
(***************************************************************************)
(* The Move events the indexer decodes (crates/indexer/src/models.rs) and  *)
(* how it decides that an event on the chain is one of them (lib.rs,        *)
(* traits.rs, sandbox.rs): by the address of the package that declares the  *)
(* type, the module and the name, whatever the type parameters.             *)
(*                                                                         *)
(* An event type is a pair <<module, name>>; a package address is a model   *)
(* value.  Unparsable are the package strings that are no 32-byte address   *)
(* (the placeholder "<not on mainnet>", or a shortened id given on the      *)
(* command line).                                                           *)
(***************************************************************************)
CONSTANTS
    MainnetPackages, TestnetPackages,              \* DeepBook core packages
    MainnetMarginPackages, TestnetMarginPackages,  \* margin packages
    SuiPackage,                                    \* 0x2
    Unparsable

CORE_MODULES == {"balance_manager", "order", "order_info", "vault", "deep_price",
                 "state", "ewma", "governance", "pool"}

MARGIN_MODULES == {"margin_manager", "margin_pool", "margin_registry",
                   "protocol_fees", "tpsl"}

SUI_MODULES == {"sui"}

get_module_type(module) ==
    CASE module \in CORE_MODULES   -> "Core"
      [] module \in MARGIN_MODULES -> "Margin"
      [] module \in SUI_MODULES    -> "Sui"
      [] OTHER                     -> "Unknown"

-----------------------------------------------------------------------------
(* The event structs, module by module. *)

In(module, names) == {<<module, name>> : name \in names}

BalanceManagerEvents ==
    In("balance_manager", {"BalanceEvent", "BalanceManagerEvent",
                           "DeepBookReferralCreatedEvent", "DeepBookReferralSetEvent"})

OrderEvents == In("order", {"OrderCanceled", "OrderModified"})

OrderInfoEvents == In("order_info", {"OrderFilled", "OrderPlaced", "OrderExpired"})

VaultEvents == In("vault", {"FlashLoanBorrowed"})

DeepPriceEvents == In("deep_price", {"PriceAdded"})

StateEvents == In("state", {"VoteEvent", "StakeEvent", "RebateEvent", "ProposalEvent",
                            "TakerFeePenaltyApplied"})

EwmaEvents == In("ewma", {"EWMAUpdate"})

GovernanceEvents == In("governance", {"TradeParamsUpdateEvent"})

PoolEvents == In("pool", {"PoolCreated", "BookParamsUpdated", "DeepBurned",
                          "ReferralFeeEvent", "ReferralClaimed"})

MarginManagerEvents ==
    In("margin_manager", {"MarginManagerCreatedEvent", "LoanBorrowedEvent",
                          "LoanRepaidEvent", "LiquidationEvent",
                          "DepositCollateralEvent", "WithdrawCollateralEvent"})

MarginPoolEvents ==
    In("margin_pool", {"MarginPoolCreated", "DeepbookPoolUpdated", "InterestParamsUpdated",
                       "MarginPoolConfigUpdated", "AssetSupplied", "AssetWithdrawn",
                       "MaintainerFeesWithdrawn", "ProtocolFeesWithdrawn",
                       "SupplierCapMinted", "SupplyReferralMinted"})

MarginRegistryEvents ==
    In("margin_registry", {"MaintainerCapUpdated", "DeepbookPoolRegistered",
                           "DeepbookPoolUpdated", "DeepbookPoolConfigUpdated",
                           "PauseCapUpdated"})

ProtocolFeesEvents ==
    In("protocol_fees", {"ProtocolFeesIncreasedEvent", "ReferralFeesClaimedEvent"})

TpslEvents ==
    In("tpsl", {"ConditionalOrderAdded", "ConditionalOrderCancelled",
                "ConditionalOrderExecuted", "ConditionalOrderInsufficientFunds"})

DecodedEvents ==
    UNION {BalanceManagerEvents, OrderEvents, OrderInfoEvents, VaultEvents,
           DeepPriceEvents, StateEvents, EwmaEvents, GovernanceEvents, PoolEvents,
           MarginManagerEvents, MarginPoolEvents, MarginRegistryEvents,
           ProtocolFeesEvents, TpslEvents}

-----------------------------------------------------------------------------
(* Package addresses.  A configuration c has the environment the handlers   *)
(* were constructed with and the sandbox override, <<>> when there is none. *)

NoOverride == <<>>

init_package_override(core, margin) == [core |-> core, margin |-> margin]

get_core_package_addresses(c) ==
    IF c.override # NoOverride THEN c.override.core
    ELSE IF c.env = "Mainnet" THEN MainnetPackages ELSE TestnetPackages

get_margin_package_addresses(c) ==
    IF c.override # NoOverride THEN c.override.margin
    ELSE IF c.env = "Mainnet" THEN MainnetMarginPackages ELSE TestnetMarginPackages

(* What is_deepbook_tx looks for. *)
package_addresses(c) ==
    get_core_package_addresses(c) \cup (get_margin_package_addresses(c) \ Unparsable)

parse_address_from_hex(strings) == strings \ Unparsable

(* No margin package and an unknown module are errors, which match nothing. *)
get_package_addresses_for_module(module, c) ==
    CASE get_module_type(module) = "Core" ->
            parse_address_from_hex(get_core_package_addresses(c))
      [] get_module_type(module) = "Margin" ->
            parse_address_from_hex(get_margin_package_addresses(c))
      [] get_module_type(module) = "Sui" -> {SuiPackage}
      [] OTHER -> {}

(* Mutant: the module of an event is not looked at. *)
matches_event_typeByName(struct, event, c) ==
    /\ event.package \in get_package_addresses_for_module(struct[1], c)
    /\ event.type[2] = struct[2]

matches_event_type(struct, event, c) ==
    /\ event.package \in get_package_addresses_for_module(struct[1], c)
    /\ event.type = struct
=============================================================================
