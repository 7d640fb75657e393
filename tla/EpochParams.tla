---------------------------- MODULE EpochParams -----------------------------
(***************************************************************************)
(* What governance promises to trading, whatever stakers do: the trade      *)
(* parameters of a pool are fixed for the epoch, only the parameters of the *)
(* next epoch can change, and they take effect at the first call of a later *)
(* epoch (Governance.update and trade_params in state/governance.move).     *)
(* Governance implements this specification; Pool uses nothing more of it.  *)
(***************************************************************************)
EXTENDS Naturals

CONSTANT ParamSet     \* trade parameters

VARIABLES
    epoch,    \* ctx.epoch()
    params    \* epoch, trade_params and next_trade_params of the pool

vars == <<epoch, params>>

Updated ==
    IF params.epoch = epoch
    THEN params
    ELSE [epoch |-> epoch,
          trade_params |-> params.next_trade_params,
          next_trade_params |-> params.next_trade_params]

Init ==
    /\ epoch = 0
    /\ params.trade_params \in ParamSet
    /\ params = [epoch |-> 0, trade_params |-> params.trade_params,
                 next_trade_params |-> params.trade_params]

(* A handler of the pool: the lazy update, and possibly other parameters for *)
(* the next epoch.                                                           *)
Handler ==
    /\ params'.next_trade_params \in ParamSet
    /\ params' = [Updated EXCEPT !.next_trade_params = params'.next_trade_params]
    /\ epoch' = epoch

NextEpoch ==
    /\ epoch' = epoch + 1
    /\ params' = params

Next == Handler \/ NextEpoch

Spec == Init /\ [][Next]_vars
=============================================================================
