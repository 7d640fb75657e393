----------------------------- MODULE MCCatalog -----------------------------
(* Production on both networks, and a sandbox with and without margin.      *)
EXTENDS Catalog

CONSTANTS c1, m1, t1, tm1, s1, sui, bad

AllConfigs ==
    {[env |-> "Mainnet", override |-> NoOverride], [env |-> "Testnet", override |-> NoOverride],
     [env |-> "Testnet", override |-> init_package_override({s1}, {m1})],
     [env |-> "Testnet", override |-> init_package_override({s1}, {})]}
=============================================================================
