------------------------------ MODULE Queries ------------------------------
(***************************************************************************)
(* The queries of reader.rs that list rows of one table, newest first, and  *)
(* the endpoints of server.rs that pass their parameters on to them.  A     *)
(* query takes its filters by position, all of them strings: what a         *)
(* parameter filters on is decided by the order of the arguments.           *)
(***************************************************************************)

(* [table, filters: the columns in the order of the arguments, between:     *)
(* whether the window is mandatory, limited].                               *)
Query(table, filters) ==
    [table |-> table, filters |-> filters, between |-> TRUE, limited |-> TRUE]

get_order_updates == Query("order_updates", <<"pool_id", "balance_manager_id", "status">>)

(* balance_manager_id stands for either side of the fill. *)
get_orders == Query("order_fills", <<"pool_id", "maker_balance_manager_id",
                                     "taker_balance_manager_id", "balance_manager_id">>)

get_margin_manager_created ==
    [table |-> "margin_manager_created", filters |-> <<"owner">>, between |-> FALSE,
     limited |-> TRUE]

get_loan_borrowed == Query("loan_borrowed", <<"margin_manager_id", "margin_pool_id">>)

get_loan_repaid == Query("loan_repaid", <<"margin_manager_id", "margin_pool_id">>)

get_liquidation == Query("liquidation", <<"margin_manager_id", "margin_pool_id">>)

get_asset_supplied == Query("asset_supplied", <<"margin_pool_id", "supplier">>)

get_asset_withdrawn == Query("asset_withdrawn", <<"margin_pool_id", "supplier">>)

get_margin_pool_created ==
    [table |-> "margin_pool_created", filters |-> <<"margin_pool_id">>, between |-> FALSE,
     limited |-> FALSE]

get_deepbook_pool_updated ==
    Query("deepbook_pool_updated", <<"margin_pool_id", "deepbook_pool_id">>)

get_interest_params_updated == Query("interest_params_updated", <<"margin_pool_id">>)

get_margin_pool_config_updated == Query("margin_pool_config_updated", <<"margin_pool_id">>)

get_maintainer_cap_updated == Query("maintainer_cap_updated", <<"maintainer_cap_id">>)

get_maintainer_fees_withdrawn == Query("maintainer_fees_withdrawn", <<"margin_pool_id">>)

get_protocol_fees_withdrawn == Query("protocol_fees_withdrawn", <<"margin_pool_id">>)

get_supplier_cap_minted == Query("supplier_cap_minted", <<"supplier_cap_id">>)

get_supply_referral_minted ==
    Query("supply_referral_minted", <<"margin_pool_id", "owner">>)

get_pause_cap_updated == Query("pause_cap_updated", <<"pause_cap_id">>)

get_protocol_fees_increased == Query("protocol_fees_increased", <<"margin_pool_id">>)

get_referral_fees_claimed == Query("referral_fees_claimed", <<"referral_id", "owner">>)

get_referral_fee_events == Query("referral_fee_events", <<"pool_id", "referral_id">>)

get_deepbook_pool_registered == Query("deepbook_pool_registered", <<"pool_id">>)

get_deepbook_pool_updated_registry == Query("deepbook_pool_updated_registry", <<"pool_id">>)

get_deepbook_pool_config_updated == Query("deepbook_pool_config_updated", <<"pool_id">>)

get_collateral_events ==
    Query("collateral_events", <<"margin_manager_id", "event_type", "withdraw_base_asset">>)

get_pool_created ==
    [table |-> "pool_created", filters |-> <<>>, between |-> FALSE, limited |-> FALSE]

-----------------------------------------------------------------------------
(* An endpoint: its path, its query, and the parameters it passes, in the   *)
(* order of the query's filters; path are those taken from the path, which  *)
(* cannot be left out.                                                      *)

Endpoint(name, query, params) ==
    [name |-> name, query |-> query, params |-> params, path |-> {}]

order_updates ==
    [name |-> "order_updates", query |-> get_order_updates,
     params |-> <<"pool_id", "balance_manager_id", "status">>, path |-> {"pool_id"}]

trades ==
    [name |-> "order_fills", query |-> get_orders,
     params |-> <<"pool_id", "maker_balance_manager_id", "taker_balance_manager_id",
                  "balance_manager_id">>, path |-> {"pool_id"}]

margin_manager_created ==
    Endpoint("margin_manager_created", get_margin_manager_created, <<"owner">>)

loan_borrowed ==
    Endpoint("loan_borrowed", get_loan_borrowed, <<"margin_manager_id", "margin_pool_id">>)

loan_repaid ==
    Endpoint("loan_repaid", get_loan_repaid, <<"margin_manager_id", "margin_pool_id">>)

liquidation ==
    Endpoint("liquidation", get_liquidation, <<"margin_manager_id", "margin_pool_id">>)

asset_supplied ==
    Endpoint("asset_supplied", get_asset_supplied, <<"margin_pool_id", "supplier">>)

asset_withdrawn ==
    Endpoint("asset_withdrawn", get_asset_withdrawn, <<"margin_pool_id", "supplier">>)

margin_pool_created ==
    Endpoint("margin_pool_created", get_margin_pool_created, <<"margin_pool_id">>)

deepbook_pool_updated ==
    Endpoint("deepbook_pool_updated", get_deepbook_pool_updated,
             <<"margin_pool_id", "deepbook_pool_id">>)

interest_params_updated ==
    Endpoint("interest_params_updated", get_interest_params_updated, <<"margin_pool_id">>)

margin_pool_config_updated ==
    Endpoint("margin_pool_config_updated", get_margin_pool_config_updated, <<"margin_pool_id">>)

maintainer_cap_updated ==
    Endpoint("maintainer_cap_updated", get_maintainer_cap_updated, <<"maintainer_cap_id">>)

maintainer_fees_withdrawn ==
    Endpoint("maintainer_fees_withdrawn", get_maintainer_fees_withdrawn, <<"margin_pool_id">>)

protocol_fees_withdrawn ==
    Endpoint("protocol_fees_withdrawn", get_protocol_fees_withdrawn, <<"margin_pool_id">>)

supplier_cap_minted ==
    Endpoint("supplier_cap_minted", get_supplier_cap_minted, <<"supplier_cap_id">>)

supply_referral_minted ==
    Endpoint("supply_referral_minted", get_supply_referral_minted,
             <<"margin_pool_id", "owner">>)

pause_cap_updated == Endpoint("pause_cap_updated", get_pause_cap_updated, <<"pause_cap_id">>)

protocol_fees_increased ==
    Endpoint("protocol_fees_increased", get_protocol_fees_increased, <<"margin_pool_id">>)

referral_fees_claimed ==
    Endpoint("referral_fees_claimed", get_referral_fees_claimed, <<"referral_id", "owner">>)

referral_fee_events ==
    Endpoint("referral_fee_events", get_referral_fee_events, <<"pool_id", "referral_id">>)

deepbook_pool_registered ==
    Endpoint("deepbook_pool_registered", get_deepbook_pool_registered, <<"pool_id">>)

deepbook_pool_updated_registry ==
    Endpoint("deepbook_pool_updated_registry", get_deepbook_pool_updated_registry, <<"pool_id">>)

deepbook_pool_config_updated ==
    Endpoint("deepbook_pool_config_updated", get_deepbook_pool_config_updated, <<"pool_id">>)

(* The parameters type and is_base. *)
collateral_events ==
    Endpoint("collateral_events", get_collateral_events,
             <<"margin_manager_id", "event_type", "withdraw_base_asset">>)

pool_created == Endpoint("pool_created", get_pool_created, <<>>)

AllEndpoints ==
    {order_updates, trades, margin_manager_created, loan_borrowed, loan_repaid, liquidation,
     asset_supplied, asset_withdrawn, margin_pool_created, deepbook_pool_updated,
     interest_params_updated, margin_pool_config_updated, maintainer_cap_updated,
     maintainer_fees_withdrawn, protocol_fees_withdrawn, supplier_cap_minted,
     supply_referral_minted, pause_cap_updated, protocol_fees_increased,
     referral_fees_claimed, referral_fee_events, deepbook_pool_registered,
     deepbook_pool_updated_registry, deepbook_pool_config_updated, collateral_events,
     pool_created}
=============================================================================
