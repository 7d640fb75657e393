----------------------------- MODULE Governance -----------------------------
(***************************************************************************)
(* Staking and governance of one pool: packages/deepbook/sources/state,     *)
(* governance.move with the handlers of state.move that call it and the     *)
(* stake fields of account.move.                                            *)
(*                                                                          *)
(* Balance managers stake DEEP.  Stake is inactive until the next epoch;    *)
(* active stake carries voting power.  In every epoch a staked balance      *)
(* manager may submit one proposal (keyed by its own ID) and vote for one.  *)
(* A proposal whose votes exceed the quorum, half of the voting power at    *)
(* the start of the epoch, becomes the trade parameters of the next epoch.  *)
(*                                                                          *)
(* Both the Governance object and every Account are refreshed lazily, by    *)
(* the first handler that touches them in a new epoch, so that at any time  *)
(* some accounts still hold the data of an earlier epoch.                   *)
(*                                                                          *)
(* A handler is one Move transaction: it is atomic, and an abort undoes it. *)
(* An abort is a guard that is false.                                       *)
(***************************************************************************)
EXTENDS Totals, FiniteSets

CONSTANTS
    N,               \* number of balance managers
    InitialDeep,     \* DEEP each balance manager holds at first
    TradeParams,     \* parameters a balance manager may submit
    StakeRequired,   \* constants::default_stake_required
    FeeMultiple,     \* FEE_MULTIPLE
    FeeBounds,       \* MIN_/MAX_ TAKER/MAKER _STABLE/_VOLATILE
    MaxProposals,    \* MAX_PROPOSALS
    Threshold,       \* VOTING_POWER_THRESHOLD
    FloatScaling,    \* math::FLOAT_SCALING
    SqrtMultiplier,  \* FLOAT_SCALING / constants::deep_unit
    MaxEpoch         \* bound on the epochs explored

Users == 1..N

None == 0     \* option::none for a proposal ID

Params == [taker_fee : Nat, maker_fee : Nat, stake_required : Nat]

Proposal == [params : Params, votes : Nat, place : Nat]

PoolKinds == {"whitelisted", "stable", "volatile"}

ASSUME GovernanceAssumption ==
    /\ N \in Nat
    /\ InitialDeep \in [Users -> Nat]
    /\ TradeParams \subseteq Params
    /\ StakeRequired \in Nat
    /\ FeeMultiple \in Nat \ {0}
    /\ FeeBounds \in [{"stable", "volatile"} ->
                        [min_taker : Nat, max_taker : Nat,
                         min_maker : Nat, max_maker : Nat]]
    /\ MaxProposals \in Nat \ {0}
    /\ Threshold \in Nat
    /\ FloatScaling \in Nat \ {0}
    /\ SqrtMultiplier \in Nat \ {0}
    /\ MaxEpoch \in Nat

VARIABLES
    epoch,      \* ctx.epoch(), the epoch of the chain
    kind,       \* whitelisted and stable flags of the pool
    gov,        \* the Governance object
    accounts,   \* Account of each balance manager, its governance fields
    wallet,     \* DEEP in each balance manager
    vaultDeep   \* DEEP in the pool's vault

vars == <<epoch, kind, gov, accounts, wallet, vaultDeep>>

-----------------------------------------------------------------------------
(***************************************************************************)
(* Voting power.                                                            *)
(***************************************************************************)

(* std::u128::sqrt, the integer square root. *)
IntegerSqrt(x) == CHOOSE r \in 0..x : r * r <= x /\ x < (r + 1) * (r + 1)

(* math::sqrt at the precision of the DEEP token. *)
Sqrt(x) == IntegerSqrt(x * SqrtMultiplier * FloatScaling) \div SqrtMultiplier

stake_to_voting_power(stake) ==
    IF stake > Threshold
    THEN Threshold + Sqrt(stake) - Sqrt(Threshold)
    ELSE stake

-----------------------------------------------------------------------------
(***************************************************************************)
(* The Governance object.  Each operator maps the object before a call to   *)
(* the object after it.  proposals is a function on the IDs in the VecMap;  *)
(* the place of a proposal stands for its index: the VecMap keeps the order *)
(* of insertion, so the place is the number of proposals inserted before it *)
(* in this epoch.                                                           *)
(***************************************************************************)
DefaultParams(k) ==
    [taker_fee |-> IF k = "whitelisted" THEN 0 ELSE FeeBounds[k].max_taker,
     maker_fee |-> IF k = "whitelisted" THEN 0 ELSE FeeBounds[k].max_maker,
     stake_required |-> StakeRequired]

NoProposals == [p \in {} |-> [params |-> DefaultParams("stable"), votes |-> 0,
                              place |-> 0]]

empty(k, e) ==
    [epoch |-> e, proposals |-> NoProposals, inserted |-> 0,
     trade_params |-> DefaultParams(k), next_trade_params |-> DefaultParams(k),
     voting_power |-> 0, quorum |-> 0]

(* Mutant of update: the quorum is a third of the voting power.              *)
updateThird(g, e) ==
    IF g.epoch = e
    THEN g
    ELSE [epoch |-> e,
          quorum |-> g.voting_power \div 3,
          proposals |-> NoProposals,
          inserted |-> 0,
          trade_params |-> g.next_trade_params,
          next_trade_params |-> g.next_trade_params,
          voting_power |-> g.voting_power]

update(g, e) ==
    IF g.epoch = e
    THEN g
    ELSE [epoch |-> e,
          quorum |-> g.voting_power \div 2,
          proposals |-> NoProposals,
          inserted |-> 0,
          trade_params |-> g.next_trade_params,
          next_trade_params |-> g.next_trade_params,
          voting_power |-> g.voting_power]

(* Whether adjust_vote completes: a subtraction below zero aborts, and so   *)
(* does a vote for a proposal that is not in the VecMap.                    *)
adjust_vote_completes(g, from, to, stake) ==
    /\ from \in DOMAIN g.proposals =>
          stake_to_voting_power(stake) <= g.proposals[from].votes
    /\ to # None => to \in DOMAIN g.proposals

(* Mutant of SetVotes: the parameters of a winner take effect at once.       *)
SetVotesAtOnce(g, id, votes, next) ==
    [g EXCEPT !.proposals[id].votes = votes, !.next_trade_params = next,
              !.trade_params = next]

SetVotes(g, id, votes, next) ==
    [g EXCEPT !.proposals[id].votes = votes, !.next_trade_params = next]

remove_vote(g, from, stake) ==
    LET before == g.proposals[from].votes
        after  == before - stake_to_voting_power(stake)
    IN  IF from \in DOMAIN g.proposals
        THEN SetVotes(g, from, after, IF before > g.quorum /\ after < g.quorum
                                      THEN g.trade_params
                                      ELSE g.next_trade_params)
        ELSE g

(* Mutant of add_vote: next_trade_params follows only the first winner.      *)
add_voteFirst(g, to, stake) ==
    LET after == g.proposals[to].votes + stake_to_voting_power(stake)
    IN  IF to # None
        THEN SetVotes(g, to, after, IF /\ after > g.quorum
                                       /\ g.next_trade_params = g.trade_params
                                    THEN g.proposals[to].params
                                    ELSE g.next_trade_params)
        ELSE g

add_vote(g, to, stake) ==
    LET after == g.proposals[to].votes + stake_to_voting_power(stake)
    IN  IF to # None
        THEN SetVotes(g, to, after, IF after > g.quorum
                                    THEN g.proposals[to].params
                                    ELSE g.next_trade_params)
        ELSE g

adjust_vote(g, from, to, stake) == add_vote(remove_vote(g, from, stake), to, stake)

(* Mutant of adjust_voting_power: the power of the difference in place of    *)
(* the difference of the powers.                                             *)
adjust_voting_powerOfDifference(g, before, after) ==
    [g EXCEPT !.voting_power =
        IF after > before
        THEN g.voting_power + stake_to_voting_power(after - before)
        ELSE g.voting_power - stake_to_voting_power(before - after)]

adjust_voting_power(g, before, after) ==
    [g EXCEPT !.voting_power = g.voting_power + stake_to_voting_power(after)
                                              - stake_to_voting_power(before)]

ValidParams(k, p) ==
    /\ k # "whitelisted"
    /\ p.taker_fee % FeeMultiple = 0
    /\ p.maker_fee % FeeMultiple = 0
    /\ FeeBounds[k].min_taker <= p.taker_fee /\ p.taker_fee <= FeeBounds[k].max_taker
    /\ FeeBounds[k].min_maker <= p.maker_fee /\ p.maker_fee <= FeeBounds[k].max_maker

(* Mutant of IsLowestProposal: the latest proposal, whatever its votes.      *)
IsLatestProposal(g, power, id) ==
    /\ id \in DOMAIN g.proposals
    /\ \A q \in DOMAIN g.proposals \ {id} : g.proposals[q].place < g.proposals[id].place

(* The proposal that remove_lowest_proposal picks: fewer votes than the      *)
(* proposer's power, the fewest of those, the latest of the fewest.          *)
IsLowestProposal(g, power, id) ==
    /\ id \in DOMAIN g.proposals
    /\ g.proposals[id].votes < power
    /\ \A q \in DOMAIN g.proposals \ {id} :
          \/ g.proposals[q].votes > g.proposals[id].votes
          \/ /\ g.proposals[q].votes = g.proposals[id].votes
             /\ g.proposals[q].place < g.proposals[id].place

remove_proposal(g, id) ==
    [g EXCEPT !.proposals = [p \in DOMAIN g.proposals \ {id} |-> g.proposals[p]]]

insert_proposal(g, id, params) ==
    [g EXCEPT !.inserted = g.inserted + 1,
              !.proposals = [p \in DOMAIN g.proposals \cup {id} |->
                               IF p = id
                               THEN [params |-> params, votes |-> 0,
                                     place |-> g.inserted]
                               ELSE g.proposals[p]]]

(* add_proposal, as the set of objects it can leave: one, or none when it    *)
(* aborts because MAX_PROPOSALS is reached and no proposal is weak enough.   *)
MakeRoom(g, power) ==
    IF Cardinality(DOMAIN g.proposals) = MaxProposals
    THEN {remove_proposal(g, id) : id \in {q \in Users : IsLowestProposal(g, power, q)}}
    ELSE {g}

add_proposal(g, params, stake, id) ==
    {insert_proposal(h, id, params) : h \in MakeRoom(g, stake_to_voting_power(stake))}

-----------------------------------------------------------------------------
(***************************************************************************)
(* The governance fields of an Account.  An account that does not exist yet *)
(* is one with an old epoch and no stake: account::empty and Account.update *)
(* leave the same fields.                                                   *)
(***************************************************************************)
Account == [epoch : Nat, active_stake : Nat, inactive_stake : Nat,
            created_proposal : BOOLEAN, voted_proposal : 0..N]

EmptyAccount(e) ==
    [epoch |-> e, active_stake |-> 0, inactive_stake |-> 0,
     created_proposal |-> FALSE, voted_proposal |-> None]

(* Mutant of update_account: the vote of the last epoch is kept.             *)
update_accountKeepsVote(a, e) ==
    IF a.epoch = e
    THEN a
    ELSE [epoch |-> e,
          active_stake |-> a.active_stake + a.inactive_stake,
          inactive_stake |-> 0,
          created_proposal |-> FALSE,
          voted_proposal |-> a.voted_proposal]

update_account(a, e) ==
    IF a.epoch = e
    THEN a
    ELSE [epoch |-> e,
          active_stake |-> a.active_stake + a.inactive_stake,
          inactive_stake |-> 0,
          created_proposal |-> FALSE,
          voted_proposal |-> None]

StakeOf(a) == a.active_stake + a.inactive_stake

(* remove_stake: created_proposal survives, so that unstaking does not buy a *)
(* second proposal in the epoch.                                             *)
remove_stake(a) ==
    [a EXCEPT !.active_stake = 0, !.inactive_stake = 0, !.voted_proposal = None]

-----------------------------------------------------------------------------
(***************************************************************************)
(* Handlers of state.move.  Each starts with governance.update and          *)
(* update_account: G and A(u) are the objects after these calls.            *)
(***************************************************************************)
G == update(gov, epoch)

A(u) == update_account(accounts[u], epoch)

(* Mutant of Stake: the new stake is active at once.                         *)
StakeActive(u, amount) ==
    /\ amount > 0
    /\ amount <= wallet[u]
    /\ gov' = adjust_voting_power(G, StakeOf(A(u)), StakeOf(A(u)) + amount)
    /\ accounts' = [accounts EXCEPT ![u] =
                      [A(u) EXCEPT !.active_stake = A(u).active_stake + amount]]
    /\ wallet' = [wallet EXCEPT ![u] = wallet[u] - amount]
    /\ vaultDeep' = vaultDeep + amount
    /\ UNCHANGED <<epoch, kind>>

(* process_stake, then Vault.settle_balance_manager, which takes the DEEP    *)
(* owed from the balance manager or aborts.                                  *)
Stake(u, amount) ==
    /\ amount > 0
    /\ amount <= wallet[u]
    /\ gov' = adjust_voting_power(G, StakeOf(A(u)), StakeOf(A(u)) + amount)
    /\ accounts' = [accounts EXCEPT ![u] =
                      [A(u) EXCEPT !.inactive_stake = A(u).inactive_stake + amount]]
    /\ wallet' = [wallet EXCEPT ![u] = wallet[u] - amount]
    /\ vaultDeep' = vaultDeep + amount
    /\ UNCHANGED <<epoch, kind>>

(* Whether process_unstake and the transfer out of the vault complete.       *)
UnstakeCompletes(u) ==
    /\ stake_to_voting_power(StakeOf(A(u))) <= G.voting_power
    /\ adjust_vote_completes(G, A(u).voted_proposal, None, A(u).active_stake)
    /\ StakeOf(A(u)) <= vaultDeep

Unstake(u) ==
    /\ UnstakeCompletes(u)
    /\ gov' = adjust_vote(adjust_voting_power(G, StakeOf(A(u)), 0),
                          A(u).voted_proposal, None, A(u).active_stake)
    /\ accounts' = [accounts EXCEPT ![u] = remove_stake(A(u))]
    /\ wallet' = [wallet EXCEPT ![u] = wallet[u] + StakeOf(A(u))]
    /\ vaultDeep' = vaultDeep - StakeOf(A(u))
    /\ UNCHANGED <<epoch, kind>>

(* Whether process_vote completes on governance object g.                    *)
VoteCompletes(g, u, p) ==
    /\ A(u).active_stake > 0
    /\ adjust_vote_completes(g, A(u).voted_proposal, p, A(u).active_stake)

(* process_proposal: the new proposal also gets the proposer's vote.         *)
Propose(u, params) ==
    /\ A(u).active_stake > 0
    /\ ~ A(u).created_proposal
    /\ ValidParams(kind, params)
    /\ \E g \in add_proposal(G, params, A(u).active_stake, u) :
          /\ u \notin DOMAIN G.proposals
          /\ VoteCompletes(g, u, u)
          /\ gov' = adjust_vote(g, A(u).voted_proposal, u, A(u).active_stake)
    /\ accounts' = [accounts EXCEPT ![u] =
                      [A(u) EXCEPT !.created_proposal = TRUE, !.voted_proposal = u]]
    /\ UNCHANGED <<epoch, kind, wallet, vaultDeep>>

Vote(u, p) ==
    /\ VoteCompletes(G, u, p)
    /\ gov' = adjust_vote(G, A(u).voted_proposal, p, A(u).active_stake)
    /\ accounts' = [accounts EXCEPT ![u] = [A(u) EXCEPT !.voted_proposal = p]]
    /\ UNCHANGED <<epoch, kind, wallet, vaultDeep>>

(* The trading handlers (process_create with its makers, process_cancel,     *)
(* process_modify, process_claim_rebates) refresh governance and the         *)
(* accounts they touch, and change no other governance field.                *)
Touch(u) ==
    /\ gov' = G
    /\ accounts' = [accounts EXCEPT ![u] = A(u)]
    /\ UNCHANGED <<epoch, kind, wallet, vaultDeep>>

(* The chain enters the next epoch.  Nothing in the pool runs.               *)
NextEpoch ==
    /\ epoch < MaxEpoch
    /\ epoch' = epoch + 1
    /\ UNCHANGED <<kind, gov, accounts, wallet, vaultDeep>>

-----------------------------------------------------------------------------
Init ==
    /\ epoch = 0
    /\ kind \in PoolKinds
    /\ gov = empty(kind, 0)
    /\ accounts = [u \in Users |-> EmptyAccount(0)]
    /\ wallet = InitialDeep
    /\ vaultDeep = 0

Next ==
    \/ \E u \in Users, amount \in 1..Total(InitialDeep, N) : Stake(u, amount)
    \/ \E u \in Users : Unstake(u)
    \/ \E u \in Users, params \in TradeParams : Propose(u, params)
    \/ \E u \in Users, p \in Users : Vote(u, p)
    \/ \E u \in Users : Touch(u)
    \/ NextEpoch

Spec == Init /\ [][Next]_vars

-----------------------------------------------------------------------------
(***************************************************************************)
(* Properties                                                               *)
(***************************************************************************)

IsGovernance(g) ==
    \E S \in SUBSET Users :
        g \in [epoch : Nat,
               proposals : [S -> Proposal],
               inserted : Nat,
               trade_params : Params,
               next_trade_params : Params,
               voting_power : Nat,
               quorum : Nat]

(* Every field has its type; u64 fields never go below zero, and a proposal  *)
(* is keyed by the ID of a balance manager.                                  *)
TypeOK ==
    /\ epoch \in Nat
    /\ kind \in PoolKinds
    /\ IsGovernance(gov)
    /\ accounts \in [Users -> Account]
    /\ wallet \in [Users -> Nat]
    /\ vaultDeep \in Nat

(***************************************************************************)
(* What the properties say of a Governance object g and a table a of        *)
(* accounts.                                                                *)
(***************************************************************************)

(* The account took part in the epoch that the Governance object is in.      *)
Current(g, a, u) == a[u].epoch = g.epoch

(* The voting power of u that stands behind proposal p.                      *)
PowerFor(g, a, u, p) ==
    IF Current(g, a, u) /\ a[u].voted_proposal = p
    THEN stake_to_voting_power(a[u].active_stake)
    ELSE 0

VotesMatch(g, a) ==
    \A p \in DOMAIN g.proposals :
        g.proposals[p].votes = Total([u \in Users |-> PowerFor(g, a, u, p)], N)

TotalPower(a) == Total([u \in Users |-> stake_to_voting_power(StakeOf(a[u]))], N)

PowerMatches(g, a) == g.voting_power = TotalPower(a)

AboveQuorum(g, p) == p \in DOMAIN g.proposals /\ g.proposals[p].votes > g.quorum

WinnerIsNext(g) ==
    \A p \in Users : AboveQuorum(g, p) => g.next_trade_params = g.proposals[p].params

-----------------------------------------------------------------------------
(* The votes of a listed proposal are exactly the voting power of the        *)
(* balance managers whose vote in this epoch stands for it: moving a vote,   *)
(* unstaking, eviction of a proposal and the lazy epoch refresh lose no vote *)
(* and count none twice (adjust_vote, set_voted_proposal, Account.update).   *)
VotesMatchVoters == VotesMatch(gov, accounts)

(* voting_power is the power of all stake, active and inactive, although     *)
(* power is not additive and accounts roll over lazily (adjust_voting_power).*)
VotingPowerMatchesStake == PowerMatches(gov, accounts)

(* unstake never aborts: the votes to withdraw are still in the proposal,    *)
(* the power to withdraw is in voting_power, the DEEP is in the vault.       *)
UnstakeNeverAborts == \A u \in Users : UnstakeCompletes(u)

(* Two proposals are never above the quorum at once, whatever stake moves    *)
(* after the quorum was fixed at the start of the epoch (Governance.update). *)
AtMostOneWinner ==
    \A p, q \in Users : AboveQuorum(gov, p) /\ AboveQuorum(gov, q) => p = q

(* While a proposal is above the quorum its parameters are the ones that     *)
(* take effect in the next epoch (adjust_vote).                              *)
WinnerTakesEffect == WinnerIsNext(gov)

(* remove_lowest_proposal never evicts a proposal that is above the quorum.  *)
WinnerNeverEvicted ==
    [][\A p \in Users :
          AboveQuorum(gov, p) /\ gov'.epoch = gov.epoch => p \in DOMAIN gov'.proposals]_vars

(* Parameters other than the current ones take effect only when a listed     *)
(* proposal with these parameters has at least the quorum (README.md:45).    *)
NextParamsHaveQuorum ==
    gov.next_trade_params # gov.trade_params =>
        \E p \in DOMAIN gov.proposals :
            /\ gov.proposals[p].params = gov.next_trade_params
            /\ gov.proposals[p].votes >= gov.quorum

(* Trading sees of governance only the promise of EpochParams: the fees of   *)
(* an epoch are fixed before it starts, whoever refreshes the pool first.    *)
EP == INSTANCE EpochParams WITH
          ParamSet <- Params,
          params <- [epoch |-> gov.epoch, trade_params |-> gov.trade_params,
                     next_trade_params |-> gov.next_trade_params]

ImplementsEpochParams == EP!Spec
=============================================================================
