------------------------------ MODULE History -------------------------------
(***************************************************************************)
(* Maker rebates and the DEEP to burn: state/history.move, the volume and   *)
(* rebate fields of state/account.move and the handlers of state/state.move *)
(* and pool.move that use them.                                             *)
(*                                                                          *)
(* An epoch collects fees and the volumes of its makers.  When an account   *)
(* is first touched in a later epoch it is granted its share of the fees of *)
(* the epoch it was last touched in, in proportion to its volume among the  *)
(* makers with enough stake; the more liquidity others gave, measured by    *)
(* the median volume of the past epochs, the more of the share is burned    *)
(* instead.  Nothing is refreshed when an epoch begins: History and each    *)
(* account catch up when a handler reaches them.                            *)
(*                                                                          *)
(* Matching is abstracted to fills of a resting order by one taker; module  *)
(* Pool models it.  The vault here is what is left of it when the funds of  *)
(* orders and the settled balances are set aside.                           *)
(***************************************************************************)
EXTENDS Median, Totals

CONSTANTS
    N,               \* number of balance managers
    FirstEpoch,      \* epoch_created
    PhaseOutEpochs,  \* constants::phase_out_epochs
    MaxU128,         \* constants::max_u128
    StakeRequired,   \* values of stake_required governance may choose
    StakeAmounts, Quantities, MakerFees, TakerFees,  \* inputs explored
    MaxStake,        \* bound on the stake of an account
    MaxVolume,       \* bound on the volume of all epochs
    MaxEpoch         \* bound on the epochs explored

Users == 1..N

HistoryAssumption ==
    /\ N \in Nat
    /\ FirstEpoch \in Nat /\ MaxEpoch \in Nat /\ FirstEpoch <= MaxEpoch
    /\ PhaseOutEpochs \in Nat
    /\ MaxU128 \in Nat
    /\ StakeRequired \subseteq Nat
    /\ StakeAmounts \subseteq Nat /\ Quantities \subseteq Nat \ {0}
    /\ MakerFees \subseteq BalanceSheets /\ TakerFees \subseteq BalanceSheets
    /\ MaxStake \in Nat /\ MaxVolume \in Nat

VARIABLES
    epoch,     \* ctx.epoch()
    gov,       \* epoch of Governance, stake_required now and next
    history,   \* the History object
    accounts,  \* epoch, volume, stake and rebates of each Account
    vault,     \* balances of the vault, but for those of orders
    shares     \* granted or burned of each epoch (not in the code)

vars == <<epoch, gov, history, accounts, vault, shares>>

-----------------------------------------------------------------------------
(***************************************************************************)
(* History                                                                  *)
(***************************************************************************)
Volumes == [total_volume : Nat, total_staked_volume : Nat,
            total_fees_collected : BalanceSheets, historic_median : Nat,
            stake_required : Nat]

NoVolumes(required) ==
    [total_volume |-> 0, total_staked_volume |-> 0, total_fees_collected |-> Nothing,
     historic_median |-> 0, stake_required |-> required]

update_governance(g, e) ==
    IF g.epoch = e THEN g ELSE [g EXCEPT !.epoch = e, !.stake_required = g.next_stake_required]

(* The volumes of the PhaseOutEpochs epochs before h.epoch, 0 for one that   *)
(* nothing was recorded of.                                                  *)
PastVolumes(h) ==
    [i \in 1..PhaseOutEpochs |->
        LET e == h.epoch - PhaseOutEpochs + i - 1
        IN  IF e \in DOMAIN h.historic_volumes
            THEN h.historic_volumes[e].total_volume
            ELSE 0]

update_historic_median(h) ==
    [h EXCEPT !.volumes.historic_median =
        IF h.epoch - FirstEpoch < PhaseOutEpochs THEN MaxU128 ELSE median(PastVolumes(h))]

(* A table with an entry replaced or added.                                  *)
Recorded(table, e, v) ==
    [d \in DOMAIN table \cup {e} |-> IF d = e THEN v ELSE table[d]]

(* Mutant of update: the volumes are recorded for the epoch before e, even   *)
(* when epochs were skipped.                                                 *)
updatePreviousEpoch(h, required, e) ==
    IF h.epoch = e
    THEN h
    ELSE LET closed == update_historic_median(h)
         IN  [closed EXCEPT
                !.epoch = e, !.volumes = NoVolumes(required),
                !.historic_volumes =
                    Recorded(Recorded(@, e - 1, closed.volumes), e, NoVolumes(required))]

(* The epoch h.epoch ends: its entry is replaced, and one for e is made.     *)
update(h, required, e) ==
    IF h.epoch = e
    THEN h
    ELSE LET closed == update_historic_median(h)
         IN  [closed EXCEPT
                !.epoch = e,
                !.volumes = NoVolumes(required),
                !.historic_volumes =
                    Recorded(Recorded(@, h.epoch, closed.volumes), e, NoVolumes(required))]

add_volume(h, maker_volume, stake) ==
    [h EXCEPT !.volumes.total_volume = @ + maker_volume,
              !.volumes.total_staked_volume =
                  IF stake >= h.volumes.stake_required THEN @ + maker_volume ELSE @]

add_total_fees_collected(h, fees) ==
    [h EXCEPT !.volumes.total_fees_collected = add_balances(@, fees)]

(* The two factors of calculate_rebate_amount.                               *)
maker_rebate_percentage(v, maker_volume) ==
    LET others == div(v.total_volume - maker_volume, v.historic_median)
    IN  IF v.historic_median = 0 THEN 0
        ELSE IF others < Scale THEN Scale - others ELSE 0

(* Mutant of maker_volume_proportion: it is rounded up.                      *)
maker_volume_proportionUp(v, maker_volume) ==
    IF v.total_staked_volume = 0
    THEN 0
    ELSE (maker_volume * Scale + v.total_staked_volume - 1) \div v.total_staked_volume

maker_volume_proportion(v, maker_volume) ==
    IF v.total_staked_volume = 0 THEN 0 ELSE div(maker_volume, v.total_staked_volume)

(* What the epoch of account a holds for it, and what it is granted of that. *)
max_rebates(h, a) ==
    LET v == h.historic_volumes[a.epoch]
    IN  IF v.stake_required > a.active_stake
        THEN Nothing
        ELSE mul_balances(v.total_fees_collected,
                          maker_volume_proportion(v, a.maker_volume))

calculate_rebate_amount(h, a) ==
    mul_balances(max_rebates(h, a),
                 maker_rebate_percentage(h.historic_volumes[a.epoch], a.maker_volume))

maker_burn(h, a) == max_rebates(h, a).deep - calculate_rebate_amount(h, a).deep

-----------------------------------------------------------------------------
(***************************************************************************)
(* Accounts.  The operators work on the part of the state that refreshing   *)
(* an account reaches: s.history, s.accounts and s.shares.                  *)
(***************************************************************************)
Account == [epoch : Nat, maker_volume : Nat, active_stake : Nat, inactive_stake : Nat,
            unclaimed_rebates : BalanceSheets]

(* Mutant of RebateDue: only the epoch that has just ended counts.           *)
RebateDueLastEpoch(a) ==
    a.epoch + 1 = epoch /\ a.epoch > 0 /\ a.maker_volume > 0 /\ a.active_stake > 0

(* Whether refreshing account a computes a rebate, and whether it can.       *)
RebateDue(a) ==
    a.epoch # epoch /\ a.epoch > 0 /\ a.maker_volume > 0 /\ a.active_stake > 0

RefreshCompletes(h, a) ==
    RebateDue(a) => /\ a.epoch \in DOMAIN h.historic_volumes
                    /\ a.active_stake >= h.historic_volumes[a.epoch].stake_required =>
                          a.maker_volume <= h.historic_volumes[a.epoch].total_volume

Rebates(h, a) == IF RebateDue(a) THEN calculate_rebate_amount(h, a) ELSE Nothing

Burn(h, a) == IF RebateDue(a) THEN maker_burn(h, a) ELSE 0

(* Account.update, then the rebate for the epoch the account comes from.     *)
update_account(s, u) ==
    LET a == s.accounts[u]
        rebates == Rebates(s.history, a)
        burn == Burn(s.history, a)
    IN  IF a.epoch = epoch
        THEN s
        ELSE [history |-> [s.history EXCEPT !.balance_to_burn = @ + burn],
              accounts |-> [s.accounts EXCEPT ![u] =
                 [epoch |-> epoch, maker_volume |-> 0,
                  active_stake |-> a.active_stake + a.inactive_stake, inactive_stake |-> 0,
                  unclaimed_rebates |-> add_balances(a.unclaimed_rebates, rebates)]],
              shares |-> IF RebateDue(a)
                         THEN [s.shares EXCEPT ![a.epoch] =
                                 add_balances(@, [rebates EXCEPT !.deep = @ + burn])]
                         ELSE s.shares]

(* The objects after the calls every handler of State starts with.           *)
G == update_governance(gov, epoch)

H == update(history, G.stake_required, epoch)

Start == [history |-> H, accounts |-> accounts, shares |-> shares]

Refreshed(u) == update_account(Start, u)

-----------------------------------------------------------------------------
(***************************************************************************)
(* The handlers                                                             *)
(***************************************************************************)
Become(s) ==
    /\ history' = s.history
    /\ accounts' = s.accounts
    /\ shares' = s.shares
    /\ gov' = G

(* process_fills for one fill.                                               *)
process_fill(s, maker, quantity, fee) ==
    LET t == update_account(s, maker)
    IN  [t EXCEPT
           !.accounts[maker].maker_volume = @ + quantity,
           !.history = add_total_fees_collected(
                          add_volume(t.history, quantity, t.accounts[maker].active_stake),
                          fee)]

(* process_create for an order that fills quantity of an order of maker.     *)
Trade(taker, maker, quantity, maker_fee, taker_fee) ==
    LET filled == process_fill(Start, maker, quantity, maker_fee)
        done   == update_account(filled, taker)
    IN  /\ RefreshCompletes(H, accounts[maker])
        /\ RefreshCompletes(H, accounts[taker])
        /\ Become([done EXCEPT !.history = add_total_fees_collected(@, taker_fee)])
        /\ vault' = add_balances(vault, add_balances(maker_fee, taker_fee))
        /\ UNCHANGED epoch

(* A handler of orders that fills nothing: it refreshes the account.         *)
Touch(u) ==
    /\ RefreshCompletes(H, accounts[u])
    /\ Become(Refreshed(u))
    /\ UNCHANGED <<epoch, vault>>

Stake(u, amount) ==
    /\ RefreshCompletes(H, accounts[u])
    /\ amount > 0
    /\ Become([Refreshed(u) EXCEPT !.accounts[u].inactive_stake = @ + amount])
    /\ vault' = [vault EXCEPT !.deep = @ + amount]
    /\ UNCHANGED epoch

Unstake(u) ==
    LET a == Refreshed(u).accounts[u]
        amount == a.active_stake + a.inactive_stake
    IN  /\ RefreshCompletes(H, accounts[u])
        /\ amount <= vault.deep
        /\ Become([Refreshed(u) EXCEPT !.accounts[u].active_stake = 0,
                                       !.accounts[u].inactive_stake = 0])
        /\ vault' = [vault EXCEPT !.deep = @ - amount]
        /\ UNCHANGED epoch

ClaimRebates(u) ==
    LET amount == Refreshed(u).accounts[u].unclaimed_rebates
    IN  /\ RefreshCompletes(H, accounts[u])
        /\ \A x \in Assets : amount[x] <= vault[x]
        /\ Become([Refreshed(u) EXCEPT !.accounts[u].unclaimed_rebates = Nothing])
        /\ vault' = [x \in Assets |-> vault[x] - amount[x]]
        /\ UNCHANGED epoch

(* Mutant of BurnDeep: the amount to burn is not reset.                      *)
BurnDeepAgain ==
    /\ history.balance_to_burn <= vault.deep
    /\ vault' = [vault EXCEPT !.deep = @ - history.balance_to_burn]
    /\ UNCHANGED <<epoch, gov, history, accounts, shares>>

(* burn_deep refreshes nothing.                                              *)
BurnDeep ==
    /\ history.balance_to_burn <= vault.deep
    /\ vault' = [vault EXCEPT !.deep = @ - history.balance_to_burn]
    /\ history' = [history EXCEPT !.balance_to_burn = 0]
    /\ UNCHANGED <<epoch, gov, accounts, shares>>

(* Votes may set any requirement for the next epoch; module Governance       *)
(* models them.                                                              *)
Vote(u, required) ==
    /\ RefreshCompletes(H, accounts[u])
    /\ Refreshed(u).accounts[u].active_stake > 0
    /\ history' = Refreshed(u).history
    /\ accounts' = Refreshed(u).accounts
    /\ shares' = Refreshed(u).shares
    /\ gov' = [G EXCEPT !.next_stake_required = required]
    /\ UNCHANGED <<epoch, vault>>

NextEpoch ==
    /\ epoch < MaxEpoch
    /\ epoch' = epoch + 1
    /\ UNCHANGED <<gov, history, accounts, vault, shares>>

-----------------------------------------------------------------------------
Init ==
    /\ epoch = FirstEpoch
    /\ \E required \in StakeRequired :
          /\ gov = [epoch |-> epoch, stake_required |-> required,
                    next_stake_required |-> required]
          /\ history = [epoch |-> epoch, volumes |-> NoVolumes(required),
                        historic_volumes |-> [e \in {epoch} |-> NoVolumes(required)],
                        balance_to_burn |-> 0]
    /\ accounts = [u \in Users |-> [epoch |-> epoch, maker_volume |-> 0, active_stake |-> 0,
                                    inactive_stake |-> 0, unclaimed_rebates |-> Nothing]]
    /\ vault = Nothing
    /\ shares = [e \in FirstEpoch..MaxEpoch |-> Nothing]

(* Volume of the closed epochs and of the current one.                       *)
AllVolume ==
    history.volumes.total_volume
      + Total([e \in 1..MaxEpoch |-> IF e \in DOMAIN history.historic_volumes
                                     THEN history.historic_volumes[e].total_volume
                                     ELSE 0], MaxEpoch)

Next ==
    \/ \E taker, maker \in Users, quantity \in Quantities, maker_fee \in MakerFees,
          taker_fee \in TakerFees :
          /\ AllVolume + quantity <= MaxVolume
          /\ Trade(taker, maker, quantity, maker_fee, taker_fee)
    \/ \E u \in Users : Touch(u)
    \/ \E u \in Users, amount \in StakeAmounts :
          /\ accounts[u].active_stake + accounts[u].inactive_stake + amount <= MaxStake
          /\ Stake(u, amount)
    \/ \E u \in Users : Unstake(u)
    \/ \E u \in Users : ClaimRebates(u)
    \/ BurnDeep
    \/ \E u \in Users, required \in StakeRequired : Vote(u, required)
    \/ NextEpoch

Spec == Init /\ [][Next]_vars

-----------------------------------------------------------------------------
(***************************************************************************)
(* Properties                                                               *)
(***************************************************************************)

(* Every field has its type; no amount becomes negative.                     *)
TypeOK ==
    /\ epoch \in Nat
    /\ gov \in [epoch : Nat, stake_required : Nat, next_stake_required : Nat]
    /\ history.epoch \in Nat /\ history.balance_to_burn \in Nat
    /\ history.volumes \in Volumes
    /\ \A e \in DOMAIN history.historic_volumes :
          e \in Nat /\ history.historic_volumes[e] \in Volumes
    /\ accounts \in [Users -> Account]
    /\ vault \in BalanceSheets
    /\ shares \in [FirstEpoch..MaxEpoch -> BalanceSheets]

(* No handler aborts because an account comes from an old epoch: whatever    *)
(* epochs were skipped, that epoch is recorded with all of the account's     *)
(* volume (EHistoricVolumesNotFound, total_volume - maker_volume).           *)
RefreshNeverAborts == \A u \in Users : RefreshCompletes(H, accounts[u])

(* The shares of an epoch, granted, burned and still to come, stay within    *)
(* the fees of the epoch: only makers whose volume counts as staked have a   *)
(* share, whatever they stake or unstake later (calculate_rebate_amount).    *)
PendingShare(u, e, x) ==
    IF RebateDue(accounts[u]) /\ accounts[u].epoch = e
    THEN Rebates(H, accounts[u])[x] + (IF x = "deep" THEN Burn(H, accounts[u]) ELSE 0)
    ELSE 0

SharesWithinFees ==
    \A e \in DOMAIN H.historic_volumes, x \in Assets :
        shares[e][x] + Total([u \in Users |-> PendingShare(u, e, x)], N)
          <= H.historic_volumes[e].total_fees_collected[x]

(* The vault covers stakes, rebates granted or still to come and the DEEP to *)
(* burn together: claiming, unstaking and burning never abort and none takes *)
(* what belongs to another (withdraw_deep_to_burn, settle_balance_manager).  *)
Owed(x) ==
    Total([u \in Users |->
             accounts[u].unclaimed_rebates[x] + PendingShare(u, accounts[u].epoch, x)
               + (IF x = "deep"
                  THEN accounts[u].active_stake + accounts[u].inactive_stake
                  ELSE 0)], N)
      + (IF x = "deep" THEN history.balance_to_burn ELSE 0)

VaultCovers == TypeOK /\ \A x \in Assets : Owed(x) <= vault[x]

(* Once its epoch is over, an account's rebates depend on nothing that       *)
(* happens later: it may come back after any number of epochs and of trades  *)
(* of others, and a claim pays them in full (Account.update, History.update, *)
(* process_claim_rebates).                                                   *)
Entitled(u, x) == accounts[u].unclaimed_rebates[x] + Rebates(H, accounts[u])[x]

KeepsEntitlements ==
    \A u \in Users, x \in Assets :
        accounts[u].epoch < epoch =>
            \/ Entitled(u, x)' = Entitled(u, x)
            \/ /\ accounts'[u].unclaimed_rebates[x] = 0
               /\ vault'[x] = vault[x] - Entitled(u, x)

LateRefreshLosesNothing == [][KeepsEntitlements]_vars
=============================================================================
