-------------------------- MODULE GovernanceProofs --------------------------
(***************************************************************************)
(* Proofs about Governance for every number of balance managers, every      *)
(* stake and every number of epochs.                                        *)
(***************************************************************************)
EXTENDS Governance, ArithmeticLemmas

(***************************************************************************)
(* IntegerSqrt (std::u128::sqrt) is the floor of the square root.           *)
(***************************************************************************)
LEMMA IntegerSqrtFacts ==
    ASSUME NEW x \in Nat
    PROVE  /\ IntegerSqrt(x) \in 0..x
           /\ IntegerSqrt(x) * IntegerSqrt(x) <= x
           /\ x < (IntegerSqrt(x) + 1) * (IntegerSqrt(x) + 1)
<1> DEFINE T == {r \in Nat : x < (r + 1) * (r + 1)}
<1>1. x \in T
  <2>1. (x + 1) * (x + 1) = x * x + 2 * x + 1 /\ x * x >= 0
    OBVIOUS
  <2>2. QED BY <2>1
<1>2. PICK r \in T : \A y \in T : ~ (y < r)
  BY <1>1, LeastElement
<1>3. r \in 0..x
  BY <1>1, <1>2
<1>4. r * r <= x
  <2>1. CASE r = 0
    BY <2>1
  <2>2. CASE r # 0
    <3>1. r - 1 \in Nat /\ ~ (r - 1 \in T)
      BY <1>2, <2>2
    <3>2. ~ (x < (r - 1 + 1) * (r - 1 + 1))
      BY <3>1
    <3>3. r - 1 + 1 = r
      OBVIOUS
    <3>4. QED BY <3>2, <3>3
  <2>3. QED BY <2>1, <2>2
<1>5. \E q \in 0..x : q * q <= x /\ x < (q + 1) * (q + 1)
  BY <1>2, <1>3, <1>4
<1>6. QED
  BY <1>5 DEF IntegerSqrt

(***************************************************************************)
(* IntegerSqrt does not decrease, so that math::sqrt does not either.       *)
(***************************************************************************)
LEMMA IntegerSqrtMonotone ==
    ASSUME NEW x \in Nat, NEW y \in Nat, x <= y
    PROVE  IntegerSqrt(x) <= IntegerSqrt(y)
<1> DEFINE r == IntegerSqrt(x)
           s == IntegerSqrt(y)
<1>1. r \in Nat /\ s \in Nat /\ r * r <= x /\ y < (s + 1) * (s + 1)
  BY IntegerSqrtFacts
<1> HIDE DEF r, s
<1>2. SUFFICES ASSUME s < r PROVE FALSE
  BY <1>1 DEF r, s
<1>3. s + 1 <= r
  BY <1>1, <1>2
<1>4. (s + 1) * (s + 1) <= r * (s + 1) /\ r * (s + 1) <= r * r
  BY <1>1, <1>3
<1>5. r * (s + 1) \in Int /\ r * r \in Int /\ (s + 1) * (s + 1) \in Int
  BY <1>1
<1>6. QED
  BY <1>1, <1>4, <1>5

(***************************************************************************)
(* The subtraction in stake_to_voting_power never goes below zero.          *)
(***************************************************************************)
LEMMA PowerType ==
    ASSUME NEW stake \in Nat
    PROVE  /\ stake_to_voting_power(stake) \in Nat
           /\ stake_to_voting_power(0) = 0
<1> DEFINE scaled(x) == x * SqrtMultiplier * FloatScaling
<1>1. SqrtMultiplier \in Nat \ {0} /\ FloatScaling \in Nat \ {0} /\ Threshold \in Nat
  BY GovernanceAssumption
<1>2. \A x \in Nat : scaled(x) \in Nat
  BY <1>1
<1>3. \A x \in Nat : Sqrt(x) \in Nat
  <2>1. \A x \in Nat : IntegerSqrt(scaled(x)) \in Nat
    BY <1>2, IntegerSqrtFacts
  <2>2. QED
    BY <1>1, <2>1 DEF Sqrt
<1>4. ASSUME stake > Threshold
      PROVE  Sqrt(Threshold) <= Sqrt(stake)
  <2>1. scaled(Threshold) <= scaled(stake)
    <3>1. Threshold * SqrtMultiplier <= stake * SqrtMultiplier
      BY <1>1, <1>4
    <3>2. QED BY <1>1, <3>1
  <2>2. IntegerSqrt(scaled(Threshold)) <= IntegerSqrt(scaled(stake))
    BY <1>1, <1>2, <2>1, IntegerSqrtMonotone
  <2>3. \A m, n \in Nat : m <= n => m \div SqrtMultiplier <= n \div SqrtMultiplier
    BY <1>1
  <2>4. QED
    BY <1>1, <1>2, <2>2, <2>3, IntegerSqrtFacts DEF Sqrt
<1>5. QED
  BY <1>1, <1>3, <1>4 DEF stake_to_voting_power

-----------------------------------------------------------------------------
(***************************************************************************)
(* The inductive invariant.                                                 *)
(***************************************************************************)

(* The stake of u that can vote in the epoch of g: an account that was not   *)
(* refreshed yet will see its inactive stake become active.                  *)
Eligible(g, a, u) ==
    IF Current(g, a, u) THEN a[u].active_stake ELSE StakeOf(a[u])

(* The quorum is at least half, rounded down, of the power that can vote.    *)
QuorumCovers(g, a) ==
    Total([u \in Users |-> stake_to_voting_power(Eligible(g, a, u))], N)
        <= 2 * g.quorum + 1

(* created_proposal is set for the owner of a listed proposal, and of any    *)
(* proposal, listed or evicted, that a vote of this epoch names.             *)
OwnersCreated(g, a) ==
    /\ \A p \in DOMAIN g.proposals : Current(g, a, p) /\ a[p].created_proposal
    /\ \A u \in Users :
          Current(g, a, u) /\ a[u].voted_proposal # None =>
              /\ Current(g, a, a[u].voted_proposal)
              /\ a[a[u].voted_proposal].created_proposal

(* What the count of votes rests on. *)
CountInv(g, a) ==
    /\ IsGovernance(g)
    /\ a \in [Users -> Account]
    /\ VotesMatch(g, a)
    /\ QuorumCovers(g, a)

VoteInv(g, a) ==
    /\ IsGovernance(g)
    /\ a \in [Users -> Account]
    /\ \A u \in Users : a[u].epoch <= g.epoch
    /\ VotesMatch(g, a)
    /\ QuorumCovers(g, a)
    /\ OwnersCreated(g, a)
    /\ WinnerIsNext(g)

TotalStake(a) == Total([u \in Users |-> StakeOf(a[u])], N)

(* The vault holds exactly the staked DEEP.                                  *)
StakeInVault == vaultDeep = TotalStake(accounts)

IInv ==
    /\ TypeOK
    /\ gov.epoch <= epoch
    /\ VoteInv(gov, accounts)
    /\ PowerMatches(gov, accounts)
    /\ StakeInVault

-----------------------------------------------------------------------------
(***************************************************************************)
(* The types of the fields of a Governance object.                          *)
(***************************************************************************)
LEMMA GovernanceFields ==
    ASSUME NEW g, IsGovernance(g)
    PROVE  /\ g.epoch \in Nat /\ g.inserted \in Nat
           /\ g.trade_params \in Params /\ g.next_trade_params \in Params
           /\ g.voting_power \in Nat /\ g.quorum \in Nat
           /\ DOMAIN g.proposals \subseteq Users
           /\ g.proposals \in [DOMAIN g.proposals -> Proposal]
           /\ g = [epoch |-> g.epoch, proposals |-> g.proposals,
                   inserted |-> g.inserted, trade_params |-> g.trade_params,
                   next_trade_params |-> g.next_trade_params,
                   voting_power |-> g.voting_power, quorum |-> g.quorum]
BY DEF IsGovernance

(***************************************************************************)
(* The types of the fields of an Account.                                   *)
(***************************************************************************)
LEMMA AccountFields ==
    ASSUME NEW a \in [Users -> Account], NEW u \in Users
    PROVE  /\ a[u].epoch \in Nat
           /\ a[u].active_stake \in Nat /\ a[u].inactive_stake \in Nat
           /\ a[u].created_proposal \in BOOLEAN /\ a[u].voted_proposal \in 0..N
           /\ StakeOf(a[u]) \in Nat
BY DEF Account, StakeOf

(***************************************************************************)
(* Balance managers are numbered from 1, and None is no balance manager.    *)
(***************************************************************************)
LEMMA UserIndex == N \in Nat /\ Users = 1..N /\ None \notin Users
BY GovernanceAssumption DEF Users, None

(***************************************************************************)
(* Every summand of the totals is a natural number.                         *)
(***************************************************************************)
LEMMA SummandTypes ==
    ASSUME NEW g, NEW a \in [Users -> Account], NEW u \in Users, NEW p
    PROVE  /\ PowerFor(g, a, u, p) \in Nat
           /\ Eligible(g, a, u) \in Nat
           /\ stake_to_voting_power(Eligible(g, a, u)) \in Nat
           /\ stake_to_voting_power(StakeOf(a[u])) \in Nat
           /\ stake_to_voting_power(a[u].active_stake) \in Nat
BY AccountFields, PowerType DEF PowerFor, Eligible

(***************************************************************************)
(* Two listed proposals share the power that can vote.                      *)
(***************************************************************************)
LEMMA VotesShareQuorum ==
    ASSUME NEW g, NEW a, CountInv(g, a),
           NEW p \in DOMAIN g.proposals, NEW q \in DOMAIN g.proposals, p # q
    PROVE  g.proposals[p].votes + g.proposals[q].votes <= 2 * g.quorum + 1
<1> DEFINE fp == [u \in Users |-> PowerFor(g, a, u, p)]
           fq == [u \in Users |-> PowerFor(g, a, u, q)]
           sum == [u \in Users |-> fp[u] + fq[u]]
           el == [u \in Users |-> stake_to_voting_power(Eligible(g, a, u))]
<1>1. a \in [Users -> Account] /\ IsGovernance(g)
  BY DEF CountInv
<1>2. \A u \in Users : fp[u] \in Nat /\ fq[u] \in Nat /\ el[u] \in Nat
  BY <1>1, SummandTypes
<1>3. \A u \in Users : sum[u] <= el[u]
  BY <1>1, <1>2, PowerType, AccountFields DEF PowerFor, Eligible
<1> HIDE DEF fp, fq, el
<1>4. Total(sum, N) = Total(fp, N) + Total(fq, N)
  BY <1>2, UserIndex, TotalAdd
<1>5. Total(sum, N) <= Total(el, N)
  <2>1. \A u \in 1..N : sum[u] \in Int /\ el[u] \in Int /\ sum[u] <= el[u]
    BY <1>2, <1>3, UserIndex
  <2> HIDE DEF sum
  <2>2. QED BY <2>1, UserIndex, TotalMonotone
<1>6. /\ g.proposals[p].votes = Total(fp, N)
      /\ g.proposals[q].votes = Total(fq, N)
  BY DEF CountInv, VotesMatch, fp, fq
<1>7. Total(el, N) <= 2 * g.quorum + 1
  BY DEF CountInv, QuorumCovers, el
<1>8. Total(sum, N) \in Int /\ Total(el, N) \in Int /\ g.quorum \in Nat
  <2>1. \A u \in 1..N : sum[u] \in Int /\ el[u] \in Int
    BY <1>2, UserIndex
  <2> HIDE DEF sum
  <2>2. Total(sum, N) \in Int /\ Total(el, N) \in Int
    BY <2>1, UserIndex, TotalType
  <2>3. g.quorum \in Nat
    BY <1>1, GovernanceFields
  <2>4. QED BY <2>2, <2>3
<1>9. QED
  BY <1>4, <1>5, <1>6, <1>7, <1>8

(***************************************************************************)
(* Two proposals are never above the quorum of update at once.              *)
(***************************************************************************)
LEMMA OneAboveQuorum ==
    ASSUME NEW g, NEW a, VoteInv(g, a), NEW p, NEW q,
           AboveQuorum(g, p), AboveQuorum(g, q)
    PROVE  p = q
<1>1. SUFFICES ASSUME p # q PROVE FALSE
  OBVIOUS
<1>2. IsGovernance(g) /\ p \in DOMAIN g.proposals /\ q \in DOMAIN g.proposals
  BY DEF VoteInv, AboveQuorum
<1>3. /\ g.quorum \in Nat
      /\ g.proposals[p].votes \in Nat
      /\ g.proposals[q].votes \in Nat
  BY <1>2, GovernanceFields DEF Proposal
<1>4. g.proposals[p].votes + g.proposals[q].votes <= 2 * g.quorum + 1
  BY <1>1, <1>2, VotesShareQuorum DEF VoteInv, CountInv
<1>5. QED
  BY <1>3, <1>4 DEF AboveQuorum

-----------------------------------------------------------------------------
(***************************************************************************)
(* The calls a handler makes, one lemma each: every call keeps VoteInv.     *)
(***************************************************************************)

(* The accounts once update_account has refreshed the one of u.              *)
RefreshAccount(a, u, e) == [a EXCEPT ![u] = update_account(a[u], e)]

(***************************************************************************)
(* governance.update and update_account at the start of a handler.          *)
(***************************************************************************)
LEMMA RefreshKeepsVoteInv ==
    ASSUME NEW g, NEW a, VoteInv(g, a), PowerMatches(g, a),
           NEW e \in Nat, g.epoch <= e, NEW u \in Users
    PROVE  /\ VoteInv(update(g, e), RefreshAccount(a, u, e))
           /\ PowerMatches(update(g, e), RefreshAccount(a, u, e))
           /\ update(g, e).epoch = e
           /\ Current(update(g, e), RefreshAccount(a, u, e), u)
           /\ \A x \in Users : StakeOf(RefreshAccount(a, u, e)[x]) = StakeOf(a[x])
<1> DEFINE h == update(g, e)
           b == [a EXCEPT ![u] = update_account(a[u], e)]
<1>1. /\ IsGovernance(g) /\ a \in [Users -> Account]
      /\ \A x \in Users : a[x].epoch <= g.epoch
  BY DEF VoteInv
<1>2. /\ update_account(a[u], e) \in Account
      /\ update_account(a[u], e).epoch = e
      /\ StakeOf(update_account(a[u], e)) = StakeOf(a[u])
  <2>1. CASE a[u].epoch = e
    BY <1>1, <2>1 DEF update_account
  <2>2. CASE a[u].epoch # e
    <3>1. /\ a[u].active_stake \in Nat
          /\ a[u].inactive_stake \in Nat
          /\ None \in 0..N
      BY <1>1, AccountFields, UserIndex DEF None
    <3>2. update_account(a[u], e)
            = [epoch |-> e, active_stake |-> StakeOf(a[u]), inactive_stake |-> 0,
               created_proposal |-> FALSE, voted_proposal |-> None]
      BY <2>2 DEF update_account, StakeOf
    <3>3. QED
      BY <3>1, <3>2 DEF Account, StakeOf
  <2>3. QED BY <2>1, <2>2
<1>3. /\ b \in [Users -> Account]
      /\ b[u] = update_account(a[u], e)
      /\ \A x \in Users : x # u => b[x] = a[x]
  BY <1>1, <1>2
<1>4. IsGovernance(h) /\ h.epoch = e /\ h.voting_power = g.voting_power
  <2>1. CASE g.epoch = e
    BY <1>1, <2>1 DEF update
  <2>2. CASE g.epoch # e
    <3>1. NoProposals \in [{} -> Proposal]
      BY DEF NoProposals
    <3>2. g.voting_power \div 2 \in Nat
      BY <1>1, GovernanceFields
    <3>3. h = [epoch |-> e, proposals |-> NoProposals, inserted |-> 0,
               trade_params |-> g.next_trade_params,
               next_trade_params |-> g.next_trade_params,
               voting_power |-> g.voting_power,
               quorum |-> g.voting_power \div 2]
      BY <1>1, <2>2, GovernanceFields DEF update
    <3>4. QED
      BY <1>1, <3>1, <3>2, <3>3, GovernanceFields DEF IsGovernance
  <2>3. QED BY <2>1, <2>2
<1>5. \A x \in Users : b[x].epoch <= h.epoch
  BY <1>1, <1>2, <1>3, <1>4, AccountFields, GovernanceFields
<1>6. \A x \in Users : StakeOf(b[x]) = StakeOf(a[x])
  BY <1>2, <1>3
<1>7. PowerMatches(h, b)
  <2>1. [x \in Users |-> stake_to_voting_power(StakeOf(b[x]))]
          = [x \in Users |-> stake_to_voting_power(StakeOf(a[x]))]
    BY <1>6
  <2>2. QED BY <1>4, <2>1 DEF PowerMatches, TotalPower
<1>8. VotesMatch(h, b) /\ QuorumCovers(h, b) /\ OwnersCreated(h, b) /\ WinnerIsNext(h)
  <2>1. CASE g.epoch = e
    <3>1. h = g
      BY <2>1 DEF update
    <3>2. CASE a[u].epoch = e
      <4>1. b = a
        BY <1>1, <1>3, <3>2 DEF update_account
      <4>2. QED BY <3>1, <4>1 DEF VoteInv
    <3>3. CASE a[u].epoch # e
      <4>1. \A x \in Users : \A p \in DOMAIN g.proposals :
               PowerFor(g, b, x, p) = PowerFor(g, a, x, p)
        BY <1>1, <1>3, <2>1, <3>3, GovernanceFields, UserIndex
           DEF PowerFor, Current, update_account
      <4>2. \A x \in Users : Eligible(g, b, x) = Eligible(g, a, x)
        BY <1>1, <1>3, <2>1, <3>3 DEF Eligible, Current, update_account, StakeOf
      <4>3. VotesMatch(g, b)
        <5>1. \A p \in DOMAIN g.proposals :
                 [x \in Users |-> PowerFor(g, b, x, p)]
                   = [x \in Users |-> PowerFor(g, a, x, p)]
          BY <4>1
        <5>2. QED BY <5>1 DEF VoteInv, VotesMatch
      <4>4. QuorumCovers(g, b)
        <5>1. [x \in Users |-> stake_to_voting_power(Eligible(g, b, x))]
                = [x \in Users |-> stake_to_voting_power(Eligible(g, a, x))]
          BY <4>2
        <5>2. QED BY <5>1 DEF VoteInv, QuorumCovers
      <4>5. OwnersCreated(g, b)
        BY <1>1, <1>3, <2>1, <3>3, GovernanceFields, AccountFields, UserIndex
           DEF VoteInv, OwnersCreated, Current, update_account
      <4>6. QED BY <3>1, <4>3, <4>4, <4>5 DEF VoteInv
    <3>4. QED BY <3>2, <3>3
  <2>2. CASE g.epoch # e
    <3>1. h.proposals = NoProposals /\ h.quorum = g.voting_power \div 2
      BY <1>1, <2>2, GovernanceFields DEF update
    <3>2. DOMAIN h.proposals = {}
      BY <3>1 DEF NoProposals
    <3>3. \A x \in Users : x # u => b[x].epoch # e
      BY <1>1, <1>3, <2>2, AccountFields, GovernanceFields
    <3>4. ASSUME NEW x \in Users
          PROVE  Eligible(h, b, x) = StakeOf(a[x])
      <4>1. CASE x = u
        <5>a. b[u] = update_account(a[u], e) /\ h.epoch = e
          BY <1>3, <1>4
        <5>b. g.epoch \in Nat /\ a[u].epoch \in Nat /\ a[u].epoch <= g.epoch
          BY <1>1, AccountFields, GovernanceFields
        <5>c. a[u].epoch # e
          BY <2>2, <5>b
        <5>1. b[u] = update_account(a[u], e) /\ a[u].epoch # e /\ h.epoch = e
          BY <5>a, <5>c
        <5>2. b[u].epoch = e /\ b[u].active_stake = StakeOf(a[u])
          BY <5>1 DEF update_account, StakeOf
        <5> HIDE DEF b, h
        <5>3. QED BY <4>1, <5>1, <5>2 DEF Eligible, Current
      <4>2. CASE x # u
        <5>1. b[x] = a[x] /\ b[x].epoch # e /\ h.epoch = e
          BY <1>1, <1>3, <1>4, <3>3, <4>2
        <5> HIDE DEF b, h
        <5>2. QED BY <5>1 DEF Eligible, Current
      <4>3. QED BY <4>1, <4>2
    <3>5. QuorumCovers(h, b)
      <4>1. [x \in Users |-> stake_to_voting_power(Eligible(h, b, x))]
              = [x \in Users |-> stake_to_voting_power(StakeOf(a[x]))]
        BY <3>4
      <4>2. g.voting_power \in Nat
        BY <1>1, GovernanceFields
      <4>3. g.voting_power <= 2 * (g.voting_power \div 2) + 1
        BY <4>2
      <4>4. QED BY <3>1, <4>1, <4>3 DEF PowerMatches, TotalPower, QuorumCovers
    <3>6. OwnersCreated(h, b)
      <4>1. b[u].voted_proposal = None
        BY <1>1, <1>3, <2>2, AccountFields, GovernanceFields DEF update_account
      <4>2. QED
        BY <1>4, <3>2, <3>3, <4>1 DEF OwnersCreated, Current
    <3>7. QED BY <3>2, <3>5, <3>6 DEF VotesMatch, WinnerIsNext, AboveQuorum
  <2>3. QED BY <2>1, <2>2
<1>9. Current(h, b, u)
  BY <1>2, <1>3, <1>4 DEF Current
<1>10. QED
  BY <1>1, <1>3, <1>4, <1>5, <1>6, <1>7, <1>8, <1>9 DEF VoteInv, RefreshAccount

(***************************************************************************)
(* adjust_voting_power changes nothing that VoteInv speaks of.              *)
(***************************************************************************)
LEMMA AdjustPowerKeepsVoteInv ==
    ASSUME NEW g, NEW a, VoteInv(g, a), NEW before \in Nat, NEW after \in Nat,
           stake_to_voting_power(before)
               <= g.voting_power + stake_to_voting_power(after)
    PROVE  LET h == adjust_voting_power(g, before, after)
           IN  /\ VoteInv(h, a)
               /\ h.epoch = g.epoch
               /\ h.proposals = g.proposals
               /\ h.quorum = g.quorum
               /\ h.voting_power = g.voting_power + stake_to_voting_power(after)
                                                  - stake_to_voting_power(before)
<1> DEFINE h == adjust_voting_power(g, before, after)
           power == g.voting_power + stake_to_voting_power(after)
                                   - stake_to_voting_power(before)
<1>1. IsGovernance(g)
  BY DEF VoteInv
<1>2. power \in Nat
  BY <1>1, GovernanceFields, PowerType
<1>3. h = [g EXCEPT !.voting_power = power]
  BY DEF adjust_voting_power
<1> HIDE DEF h, power
<1>4. /\ h.epoch = g.epoch /\ h.proposals = g.proposals /\ h.quorum = g.quorum
      /\ h.next_trade_params = g.next_trade_params
      /\ h.voting_power = power
  BY <1>1, <1>3, GovernanceFields
<1>5. IsGovernance(h)
  BY <1>1, <1>2, <1>3 DEF IsGovernance
<1>6. \A x \in Users : /\ Current(h, a, x) <=> Current(g, a, x)
                       /\ Eligible(h, a, x) = Eligible(g, a, x)
                       /\ \A p : PowerFor(h, a, x, p) = PowerFor(g, a, x, p)
  BY <1>4 DEF Current, Eligible, PowerFor
<1>7. VotesMatch(h, a)
  <2>1. \A p : [x \in Users |-> PowerFor(h, a, x, p)]
                 = [x \in Users |-> PowerFor(g, a, x, p)]
    BY <1>6
  <2>2. QED BY <1>4, <2>1 DEF VoteInv, VotesMatch
<1>8. QuorumCovers(h, a)
  <2>1. [x \in Users |-> stake_to_voting_power(Eligible(h, a, x))]
          = [x \in Users |-> stake_to_voting_power(Eligible(g, a, x))]
    BY <1>6
  <2>2. QED BY <1>4, <2>1 DEF VoteInv, QuorumCovers
<1>9. OwnersCreated(h, a)
  BY <1>4 DEF VoteInv, OwnersCreated, Current
<1>10. WinnerIsNext(h)
  BY <1>4 DEF VoteInv, WinnerIsNext, AboveQuorum
<1>11. QED
  BY <1>4, <1>5, <1>7, <1>8, <1>9, <1>10 DEF VoteInv, h, power

(***************************************************************************)
(* Replacing an account of this epoch by one with the same vote, the same   *)
(* or less active stake when it does not vote, and the same flags.          *)
(***************************************************************************)
LEMMA RestakeKeepsVoteInv ==
    ASSUME NEW g, NEW a, VoteInv(g, a), NEW u \in Users, Current(g, a, u),
           NEW acc \in Account,
           acc.epoch = a[u].epoch,
           acc.created_proposal = a[u].created_proposal,
           acc.voted_proposal = a[u].voted_proposal,
           \/ acc.active_stake = a[u].active_stake
           \/ acc.active_stake = 0 /\ acc.voted_proposal = None
    PROVE  VoteInv(g, [a EXCEPT ![u] = acc])
<1> DEFINE b == [a EXCEPT ![u] = acc]
<1>1. /\ IsGovernance(g) /\ a \in [Users -> Account]
      /\ \A x \in Users : a[x].epoch <= g.epoch
  BY DEF VoteInv
<1>2. b \in [Users -> Account] /\ b[u] = acc /\ \A x \in Users : x # u => b[x] = a[x]
  BY <1>1
<1> HIDE DEF b
<1>3. \A x \in Users : b[x].epoch = a[x].epoch
  BY <1>2
<1>4. \A x \in Users, p \in Users : PowerFor(g, b, x, p) = PowerFor(g, a, x, p)
  BY <1>2, <1>3, UserIndex DEF PowerFor, Current
<1>5. VotesMatch(g, b)
  <2>1. \A p \in DOMAIN g.proposals :
           [x \in Users |-> PowerFor(g, b, x, p)] = [x \in Users |-> PowerFor(g, a, x, p)]
    BY <1>1, <1>4, GovernanceFields
  <2>2. QED BY <2>1 DEF VoteInv, VotesMatch
<1>6. QuorumCovers(g, b)
  <2> DEFINE ea == [x \in Users |-> stake_to_voting_power(Eligible(g, a, x))]
             eb == [x \in Users |-> stake_to_voting_power(Eligible(g, b, x))]
  <2>1. \A x \in Users : ea[x] \in Nat /\ eb[x] \in Nat
    BY <1>1, <1>2, SummandTypes
  <2>2. \A x \in Users : x # u => eb[x] = ea[x]
    BY <1>2 DEF Eligible, Current
  <2>3. eb[u] <= ea[u]
    <3>1. /\ ea[u] = stake_to_voting_power(a[u].active_stake)
          /\ eb[u] = stake_to_voting_power(acc.active_stake)
      BY <1>2, <1>3 DEF Eligible, Current
    <3>2. stake_to_voting_power(0) = 0
      BY PowerType
    <3>3. QED BY <2>1, <3>1, <3>2
  <2> HIDE DEF ea, eb
  <2>4. \A x \in 1..N : eb[x] \in Int /\ ea[x] \in Int /\ eb[x] <= ea[x]
    BY <2>1, <2>2, <2>3, UserIndex
  <2>5. Total(eb, N) <= Total(ea, N)
    BY <2>4, UserIndex, TotalMonotone
  <2>6. Total(ea, N) \in Int /\ Total(eb, N) \in Int
    BY <2>4, UserIndex, TotalType
  <2>7. Total(ea, N) <= 2 * g.quorum + 1 /\ g.quorum \in Nat
    BY <1>1, GovernanceFields DEF VoteInv, QuorumCovers, ea
  <2>8. Total(eb, N) <= 2 * g.quorum + 1
    BY <2>5, <2>6, <2>7
  <2>9. QED BY <2>8 DEF QuorumCovers, eb
<1>7. \A x \in Users : /\ b[x].created_proposal = a[x].created_proposal
                       /\ b[x].voted_proposal = a[x].voted_proposal
                       /\ a[x].voted_proposal # None => a[x].voted_proposal \in Users
  <2>1. \A x \in Users : /\ b[x].created_proposal = a[x].created_proposal
                         /\ b[x].voted_proposal = a[x].voted_proposal
    BY <1>2
  <2>2. \A x \in Users : a[x].voted_proposal \in 0..N
    BY <1>1, AccountFields
  <2>3. QED BY <2>1, <2>2, UserIndex DEF None
<1>8. OwnersCreated(g, b)
  BY <1>1, <1>3, <1>7, GovernanceFields DEF VoteInv, OwnersCreated, Current
<1>9. VoteInv(g, b)
  BY <1>1, <1>2, <1>3, <1>5, <1>6, <1>8 DEF VoteInv
<1>10. QED
  BY <1>9 DEF b

(***************************************************************************)
(* h is g with the votes of proposal id, and the trade parameters elected   *)
(* for the next epoch, replaced.  Kept as a definition so that a proof can   *)
(* instantiate SetVotesFields before it looks inside.                        *)
(***************************************************************************)
OnlyVotesDiffer(g, h, id, votes, next) ==
    /\ h.epoch = g.epoch /\ h.quorum = g.quorum
    /\ h.voting_power = g.voting_power
    /\ h.next_trade_params = next
    /\ DOMAIN h.proposals = DOMAIN g.proposals
    /\ \A p \in DOMAIN g.proposals :
          /\ h.proposals[p].params = g.proposals[p].params
          /\ h.proposals[p].votes = IF p = id THEN votes ELSE g.proposals[p].votes

(***************************************************************************)
(* The Governance object after the votes of one proposal were set.          *)
(***************************************************************************)
LEMMA SetVotesFields ==
    ASSUME NEW g, IsGovernance(g), NEW id \in DOMAIN g.proposals,
           NEW votes \in Nat, NEW next \in Params
    PROVE  /\ IsGovernance(SetVotes(g, id, votes, next))
           /\ OnlyVotesDiffer(g, SetVotes(g, id, votes, next), id, votes, next)
<1> DEFINE changed == [g.proposals[id] EXCEPT !.votes = votes]
           props == [g.proposals EXCEPT ![id] = changed]
           h == [g EXCEPT !.proposals = props, !.next_trade_params = next]
<1>1. PICK S \in SUBSET Users :
         g \in [epoch : Nat, proposals : [S -> Proposal], inserted : Nat,
               trade_params : Params, next_trade_params : Params,
               voting_power : Nat, quorum : Nat]
  BY DEF IsGovernance
<1>2. g.proposals \in [S -> Proposal] /\ id \in S
  BY <1>1
<1>3. changed \in Proposal /\ changed.votes = votes /\ changed.params = g.proposals[id].params
  <2>1. g.proposals[id] \in Proposal
    BY <1>2
  <2>2. QED BY <2>1 DEF Proposal
<1> HIDE DEF changed
<1>4. /\ props \in [S -> Proposal]
      /\ props[id] = changed
      /\ \A p \in S : p # id => props[p] = g.proposals[p]
  BY <1>2, <1>3
<1> HIDE DEF props
<1>5. /\ h \in [epoch : Nat, proposals : [S -> Proposal], inserted : Nat,
                trade_params : Params, next_trade_params : Params,
                voting_power : Nat, quorum : Nat]
      /\ h.epoch = g.epoch /\ h.quorum = g.quorum
      /\ h.voting_power = g.voting_power /\ h.next_trade_params = next
      /\ h.proposals = props
  BY <1>1, <1>4
<1> HIDE DEF h
<1>6. IsGovernance(h)
  BY <1>5 DEF IsGovernance
<1>7. h = SetVotes(g, id, votes, next)
  BY DEF SetVotes, h, props, changed
<1>8. OnlyVotesDiffer(g, h, id, votes, next)
  BY <1>2, <1>3, <1>4, <1>5 DEF OnlyVotesDiffer
<1>9. QED
  BY <1>6, <1>7, <1>8

(* set_voted_proposal and set_created_proposal on the table of accounts.     *)
SetVoted(a, u, p) == [a EXCEPT ![u] = [a[u] EXCEPT !.voted_proposal = p]]

SetCreated(a, u) == [a EXCEPT ![u] = [a[u] EXCEPT !.created_proposal = TRUE]]

(***************************************************************************)
(* remove_vote takes the vote of u back.                                    *)
(***************************************************************************)
LEMMA RemoveVoteKeepsVoteInv ==
    ASSUME NEW g, NEW a, VoteInv(g, a), NEW u \in Users, Current(g, a, u),
           adjust_vote_completes(g, a[u].voted_proposal, None, a[u].active_stake)
    PROVE  /\ VoteInv(remove_vote(g, a[u].voted_proposal, a[u].active_stake), SetVoted(a, u, None))
           /\ remove_vote(g, a[u].voted_proposal, a[u].active_stake).epoch = g.epoch
           /\ remove_vote(g, a[u].voted_proposal, a[u].active_stake).voting_power = g.voting_power
           /\ DOMAIN remove_vote(g, a[u].voted_proposal, a[u].active_stake).proposals = DOMAIN g.proposals
<1> DEFINE from == a[u].voted_proposal
           stake == a[u].active_stake
           h == remove_vote(g, from, stake)
           acc == [a[u] EXCEPT !.voted_proposal = None]
           b == [a EXCEPT ![u] = acc]
           v == stake_to_voting_power(stake)
           before == g.proposals[from].votes
           next == IF before > g.quorum /\ before - v < g.quorum
                   THEN g.trade_params ELSE g.next_trade_params
<1>1. /\ IsGovernance(g) /\ a \in [Users -> Account]
      /\ \A x \in Users : a[x].epoch <= g.epoch
  BY DEF VoteInv
<1>2. /\ acc \in Account /\ acc.epoch = a[u].epoch /\ acc.active_stake = stake
      /\ acc.inactive_stake = a[u].inactive_stake
      /\ acc.created_proposal = a[u].created_proposal /\ acc.voted_proposal = None
  <2>1. a[u] \in Account /\ None \in 0..N
    BY <1>1, UserIndex DEF None
  <2>2. QED BY <2>1 DEF Account
<1> HIDE DEF acc
<1>3. b \in [Users -> Account] /\ b[u] = acc /\ \A x \in Users : x # u => b[x] = a[x]
  BY <1>1, <1>2
<1> HIDE DEF b
<1>4. \A x \in Users : b[x].epoch = a[x].epoch /\ Eligible(g, b, x) = Eligible(g, a, x)
  BY <1>2, <1>3 DEF Eligible, Current, StakeOf
<1>5. QuorumCovers(g, b)
  <2>1. [x \in Users |-> stake_to_voting_power(Eligible(g, b, x))]
          = [x \in Users |-> stake_to_voting_power(Eligible(g, a, x))]
    BY <1>4
  <2>2. QED BY <2>1 DEF VoteInv, QuorumCovers
<1>6. \A x \in Users : a[x].voted_proposal # None => a[x].voted_proposal \in Users
  <2>1. \A x \in Users : a[x].voted_proposal \in 0..N
    BY <1>1, AccountFields
  <2>2. QED BY <2>1, UserIndex DEF None
<1>7. OwnersCreated(g, b)
  BY <1>1, <1>2, <1>3, <1>4, <1>6, GovernanceFields DEF VoteInv, OwnersCreated, Current
<1>8. \A x \in Users, p \in Users :
         PowerFor(g, b, x, p) = IF x = u /\ p = from THEN 0 ELSE PowerFor(g, a, x, p)
  BY <1>2, <1>3, <1>4, UserIndex DEF PowerFor, Current
<1>9. v \in Nat /\ PowerFor(g, a, u, from) = v
  BY <1>1, SummandTypes DEF PowerFor
<1>10. \A p \in Users :
          Total([x \in Users |-> PowerFor(g, b, x, p)], N)
            = Total([x \in Users |-> PowerFor(g, a, x, p)], N)
                - (IF p = from THEN v ELSE 0)
  <2> TAKE p \in Users
  <2> DEFINE fa == [x \in Users |-> PowerFor(g, a, x, p)]
             fb == [x \in Users |-> PowerFor(g, b, x, p)]
  <2>1. \A x \in 1..N : fa[x] \in Int /\ fb[x] \in Int
    BY <1>1, <1>3, SummandTypes, UserIndex
  <2>2. \A x \in 1..N : x # u => fa[x] = fb[x]
    BY <1>8, UserIndex
  <2>3. fb[u] = fa[u] - (IF p = from THEN v ELSE 0)
    BY <1>8, <1>9, <2>1, UserIndex
  <2> HIDE DEF fa, fb
  <2>4. Total(fb, N) = Total(fa, N) + fb[u] - fa[u]
    <3>1. OneChange(fa, fb, N, u)
      BY <2>1, <2>2 DEF OneChange
    <3>2. N \in Nat /\ u \in 1..N
      BY UserIndex
    <3>3. QED BY <3>1, <3>2, TotalOneChange
  <2>5. Total(fa, N) \in Int
    BY <2>1, UserIndex, TotalType
  <2>6. Total(fb, N) = Total(fa, N) - (IF p = from THEN v ELSE 0)
    BY <1>9, <2>1, <2>3, <2>4, <2>5, UserIndex
  <2>7. QED BY <2>6 DEF fa, fb
<1>11. CASE from \notin DOMAIN g.proposals
  <2>1. h = g
    BY <1>11 DEF remove_vote
  <2>2. \A p \in DOMAIN g.proposals : p # from /\ p \in Users
    BY <1>1, <1>11, GovernanceFields
  <2>3. \A p \in DOMAIN g.proposals : g.proposals[p].votes \in Nat
    BY <1>1, GovernanceFields DEF Proposal
  <2>4. VotesMatch(g, b)
    <3>1. ASSUME NEW p \in DOMAIN g.proposals
          PROVE  g.proposals[p].votes = Total([x \in Users |-> PowerFor(g, b, x, p)], N)
      <4>1. g.proposals[p].votes = Total([x \in Users |-> PowerFor(g, a, x, p)], N)
        BY DEF VoteInv, VotesMatch
      <4>2. QED BY <1>10, <2>2, <2>3, <4>1
    <3>2. QED BY <3>1 DEF VotesMatch
  <2>5. VoteInv(g, b)
    BY <1>1, <1>3, <1>4, <1>5, <1>7, <2>4 DEF VoteInv
  <2>6. QED BY <2>1, <2>5 DEF SetVoted, b, acc
<1>12. CASE from \in DOMAIN g.proposals
  <2>1. v <= before /\ before \in Nat /\ from \in Users /\ g.quorum \in Nat
    <3>1. before \in Nat /\ from \in Users /\ g.quorum \in Nat
      BY <1>1, <1>12, GovernanceFields DEF Proposal
    <3>2. QED BY <1>12, <3>1 DEF adjust_vote_completes
  <2>2. h = SetVotes(g, from, before - v, next)
    BY <1>12 DEF remove_vote
  <2>3. next \in Params /\ before - v \in Nat
    BY <1>1, <1>9, <2>1, GovernanceFields
  <2> HIDE DEF h, next
  <2>a. OnlyVotesDiffer(g, h, from, before - v, next) /\ IsGovernance(h)
    <3> DEFINE left == before - v
    <3>1. left \in Nat /\ h = SetVotes(g, from, left, next) /\ IsGovernance(g)
      BY <1>1, <2>2, <2>3
    <3> HIDE DEF left, from, before, v, stake
    <3>2. OnlyVotesDiffer(g, h, from, left, next) /\ IsGovernance(h)
      BY ONLY <1>12, <2>3, <3>1, SetVotesFields
    <3>3. QED BY <3>2 DEF left
  <2>4. /\ h.epoch = g.epoch /\ h.quorum = g.quorum /\ h.voting_power = g.voting_power
        /\ h.next_trade_params = next /\ DOMAIN h.proposals = DOMAIN g.proposals
        /\ \A p \in DOMAIN g.proposals :
              /\ h.proposals[p].params = g.proposals[p].params
              /\ h.proposals[p].votes = IF p = from THEN before - v
                                                    ELSE g.proposals[p].votes
    BY <2>a DEF OnlyVotesDiffer
  <2>5. IsGovernance(h)
    BY <2>a
  <2>6. \A x \in Users : /\ Current(h, b, x) <=> Current(g, b, x)
                         /\ Eligible(h, b, x) = Eligible(g, b, x)
                         /\ \A p : PowerFor(h, b, x, p) = PowerFor(g, b, x, p)
    BY <2>4 DEF Current, Eligible, PowerFor
  <2>7. VotesMatch(h, b)
    <3>1. \A p : [x \in Users |-> PowerFor(h, b, x, p)]
                   = [x \in Users |-> PowerFor(g, b, x, p)]
      BY <2>6
    <3>2. ASSUME NEW p \in DOMAIN g.proposals
          PROVE  h.proposals[p].votes = Total([x \in Users |-> PowerFor(g, b, x, p)], N)
      <4>1. p \in Users /\ g.proposals[p].votes \in Nat
        BY <1>1, GovernanceFields DEF Proposal
      <4>2. g.proposals[p].votes = Total([x \in Users |-> PowerFor(g, a, x, p)], N)
        BY DEF VoteInv, VotesMatch
      <4>3. QED BY <1>9, <1>10, <2>1, <2>4, <4>1, <4>2
    <3>3. QED BY <2>4, <3>1, <3>2 DEF VotesMatch
  <2>8. QuorumCovers(h, b)
    <3>1. [x \in Users |-> stake_to_voting_power(Eligible(h, b, x))]
            = [x \in Users |-> stake_to_voting_power(Eligible(g, b, x))]
      BY <2>6
    <3>2. QED BY <1>5, <2>4, <3>1 DEF QuorumCovers
  <2>9. OwnersCreated(h, b)
    BY <1>7, <2>4 DEF OwnersCreated, Current
  <2>10. WinnerIsNext(h)
    <3>1. SUFFICES ASSUME NEW p \in Users, AboveQuorum(h, p)
                   PROVE  h.next_trade_params = h.proposals[p].params
      BY DEF WinnerIsNext
    <3>2. p \in DOMAIN g.proposals /\ g.proposals[p].votes \in Nat
      BY <1>1, <2>4, <3>1, GovernanceFields DEF AboveQuorum, Proposal
    <3>3. AboveQuorum(g, p)
      BY <1>9, <2>1, <2>4, <3>1, <3>2 DEF AboveQuorum
    <3>4. g.next_trade_params = g.proposals[p].params
      BY <3>3 DEF VoteInv, WinnerIsNext
    <3>5. next = g.next_trade_params
      <4>1. SUFFICES ASSUME before > g.quorum, before - v < g.quorum PROVE FALSE
        BY DEF next
      <4>2. AboveQuorum(g, from)
        BY <1>12, <4>1 DEF AboveQuorum
      <4>3. p = from
        BY <3>3, <4>2, OneAboveQuorum
      <4>4. h.proposals[p].votes > h.quorum
        BY <3>1 DEF AboveQuorum
      <4>5. QED BY <1>9, <2>1, <2>4, <3>2, <4>1, <4>3, <4>4
    <3>6. QED BY <2>4, <3>2, <3>4, <3>5
  <2>11. VoteInv(h, b)
    BY <1>1, <1>3, <1>4, <2>4, <2>5, <2>7, <2>8, <2>9, <2>10 DEF VoteInv
  <2>12. QED BY <2>4, <2>11 DEF SetVoted, h, b, acc
<1>13. QED BY <1>11, <1>12

(***************************************************************************)
(* add_vote puts the vote of u, who has none, behind a listed proposal.     *)
(***************************************************************************)
LEMMA AddVoteKeepsVoteInv ==
    ASSUME NEW g, NEW a, VoteInv(g, a), NEW u \in Users, Current(g, a, u),
           a[u].voted_proposal = None, NEW to \in DOMAIN g.proposals
    PROVE  /\ VoteInv(add_vote(g, to, a[u].active_stake), SetVoted(a, u, to))
           /\ add_vote(g, to, a[u].active_stake).epoch = g.epoch
           /\ add_vote(g, to, a[u].active_stake).voting_power = g.voting_power
           /\ DOMAIN add_vote(g, to, a[u].active_stake).proposals = DOMAIN g.proposals
<1> DEFINE stake == a[u].active_stake
           h == add_vote(g, to, stake)
           acc == [a[u] EXCEPT !.voted_proposal = to]
           b == [a EXCEPT ![u] = acc]
           v == stake_to_voting_power(stake)
           after == g.proposals[to].votes + v
           next == IF after > g.quorum THEN g.proposals[to].params
                                       ELSE g.next_trade_params
<1>1. /\ IsGovernance(g) /\ a \in [Users -> Account]
      /\ \A x \in Users : a[x].epoch <= g.epoch
      /\ to \in Users
  BY GovernanceFields DEF VoteInv
<1>2. /\ acc \in Account /\ acc.epoch = a[u].epoch /\ acc.active_stake = stake
      /\ acc.inactive_stake = a[u].inactive_stake
      /\ acc.created_proposal = a[u].created_proposal /\ acc.voted_proposal = to
  <2>1. a[u] \in Account /\ to \in 0..N
    BY <1>1, UserIndex
  <2>2. QED BY <2>1 DEF Account
<1> HIDE DEF acc
<1>3. b \in [Users -> Account] /\ b[u] = acc /\ \A x \in Users : x # u => b[x] = a[x]
  BY <1>1, <1>2
<1> HIDE DEF b
<1>4. \A x \in Users : b[x].epoch = a[x].epoch /\ Eligible(g, b, x) = Eligible(g, a, x)
  BY <1>2, <1>3 DEF Eligible, Current, StakeOf
<1>5. \A x \in Users : a[x].voted_proposal # None => a[x].voted_proposal \in Users
  <2>1. \A x \in Users : a[x].voted_proposal \in 0..N
    BY <1>1, AccountFields
  <2>2. QED BY <2>1, UserIndex DEF None
<1>6. OwnersCreated(g, b)
  <2>1. \A x \in Users : b[x].created_proposal = a[x].created_proposal
    BY <1>2, <1>3
  <2>2. \A p \in DOMAIN g.proposals : Current(g, b, p) /\ b[p].created_proposal
    BY <1>1, <1>4, <2>1, GovernanceFields DEF VoteInv, OwnersCreated, Current
  <2>3. ASSUME NEW x \in Users, Current(g, b, x), b[x].voted_proposal # None
        PROVE  /\ Current(g, b, b[x].voted_proposal)
               /\ b[b[x].voted_proposal].created_proposal
    <3>1. CASE x = u
      BY <1>2, <1>3, <2>2, <3>1
    <3>2. CASE x # u
      BY <1>3, <1>4, <1>5, <2>1, <2>3, <3>2 DEF VoteInv, OwnersCreated, Current
    <3>3. QED BY <3>1, <3>2
  <2>4. QED BY <2>2, <2>3 DEF OwnersCreated
<1>7. v \in Nat
  BY <1>1, SummandTypes
<1>8. \A x \in Users, p \in Users :
         PowerFor(g, b, x, p) = IF x = u /\ p = to THEN v ELSE PowerFor(g, a, x, p)
  BY <1>2, <1>3, <1>4, UserIndex DEF PowerFor, Current
<1>9. PowerFor(g, a, u, to) = 0
  BY <1>1, UserIndex DEF PowerFor
<1>10. \A p \in Users :
          Total([x \in Users |-> PowerFor(g, b, x, p)], N)
            = Total([x \in Users |-> PowerFor(g, a, x, p)], N)
                + (IF p = to THEN v ELSE 0)
  <2> TAKE p \in Users
  <2> DEFINE fa == [x \in Users |-> PowerFor(g, a, x, p)]
             fb == [x \in Users |-> PowerFor(g, b, x, p)]
  <2>1. \A x \in 1..N : fa[x] \in Int /\ fb[x] \in Int
    BY <1>1, <1>3, SummandTypes, UserIndex
  <2>2. \A x \in 1..N : x # u => fa[x] = fb[x]
    BY <1>8, UserIndex
  <2>3. fb[u] = fa[u] + (IF p = to THEN v ELSE 0)
    BY <1>7, <1>8, <1>9, <2>1, UserIndex
  <2> HIDE DEF fa, fb
  <2>4. Total(fb, N) = Total(fa, N) + fb[u] - fa[u]
    <3>1. OneChange(fa, fb, N, u)
      BY <2>1, <2>2 DEF OneChange
    <3>2. N \in Nat /\ u \in 1..N
      BY UserIndex
    <3>3. QED BY <3>1, <3>2, TotalOneChange
  <2>5. Total(fa, N) \in Int
    BY <2>1, UserIndex, TotalType
  <2>6. Total(fb, N) = Total(fa, N) + (IF p = to THEN v ELSE 0)
    BY <1>7, <2>1, <2>3, <2>4, <2>5, UserIndex
  <2>7. QED BY <2>6 DEF fa, fb
<1>11. g.proposals[to].votes \in Nat /\ g.quorum \in Nat /\ after \in Nat /\ next \in Params
  <2>1. g.proposals[to] \in Proposal /\ g.quorum \in Nat /\ g.next_trade_params \in Params
    BY <1>1, GovernanceFields
  <2>2. QED BY <1>7, <2>1 DEF Proposal
<1>12. h = SetVotes(g, to, after, next)
  BY <1>1, UserIndex DEF add_vote
<1> HIDE DEF h, next, after
<1>a. OnlyVotesDiffer(g, h, to, after, next) /\ IsGovernance(h)
  BY <1>1, <1>11, <1>12, SetVotesFields
<1>13. /\ h.epoch = g.epoch /\ h.quorum = g.quorum /\ h.voting_power = g.voting_power
       /\ h.next_trade_params = next /\ DOMAIN h.proposals = DOMAIN g.proposals
       /\ IsGovernance(h)
       /\ \A p \in DOMAIN g.proposals :
             /\ h.proposals[p].params = g.proposals[p].params
             /\ h.proposals[p].votes = IF p = to THEN after ELSE g.proposals[p].votes
  BY <1>a DEF OnlyVotesDiffer
<1>14. \A x \in Users : /\ Current(h, b, x) <=> Current(g, b, x)
                        /\ Eligible(h, b, x) = Eligible(g, a, x)
                        /\ \A p : PowerFor(h, b, x, p) = PowerFor(g, b, x, p)
  BY <1>4, <1>13 DEF Current, Eligible, PowerFor
<1>15. VotesMatch(h, b)
  <2>1. \A p : [x \in Users |-> PowerFor(h, b, x, p)]
                 = [x \in Users |-> PowerFor(g, b, x, p)]
    BY <1>14
  <2>2. ASSUME NEW p \in DOMAIN g.proposals
        PROVE  h.proposals[p].votes = Total([x \in Users |-> PowerFor(g, b, x, p)], N)
    <3>1. p \in Users /\ g.proposals[p].votes \in Nat
      BY <1>1, GovernanceFields DEF Proposal
    <3>2. g.proposals[p].votes = Total([x \in Users |-> PowerFor(g, a, x, p)], N)
      BY DEF VoteInv, VotesMatch
    <3>3. QED BY <1>7, <1>10, <1>13, <3>1, <3>2 DEF after
  <2>3. QED BY <1>13, <2>1, <2>2 DEF VotesMatch
<1>16. QuorumCovers(h, b)
  <2>1. [x \in Users |-> stake_to_voting_power(Eligible(h, b, x))]
          = [x \in Users |-> stake_to_voting_power(Eligible(g, a, x))]
    BY <1>14
  <2>2. QED BY <1>13, <2>1 DEF VoteInv, QuorumCovers
<1>17. OwnersCreated(h, b)
  BY <1>6, <1>13 DEF OwnersCreated, Current
<1>18. WinnerIsNext(h)
  <2>1. SUFFICES ASSUME NEW p \in Users, AboveQuorum(h, p)
                 PROVE  h.next_trade_params = h.proposals[p].params
    BY DEF WinnerIsNext
  <2>2. p \in DOMAIN g.proposals /\ h.proposals[p].votes > g.quorum
    BY <1>13, <2>1 DEF AboveQuorum
  <2>3. CASE p = to
    <3>1. next = g.proposals[to].params
      BY <1>13, <2>2, <2>3 DEF next
    <3>2. QED BY <1>13, <2>2, <2>3, <3>1
  <2>4. CASE p # to
    <3>1. AboveQuorum(g, p)
      BY <1>13, <2>2, <2>4 DEF AboveQuorum
    <3>2. g.next_trade_params = g.proposals[p].params
      BY <3>1 DEF VoteInv, WinnerIsNext
    <3>3. next = g.next_trade_params
      \* Otherwise two proposals would be above the quorum.
      <4>1. SUFFICES ASSUME after > g.quorum PROVE FALSE
        BY DEF next
      <4>2. h.proposals[to].votes > g.quorum /\ h.proposals[p].votes > g.quorum
        BY <1>13, <2>2, <4>1
      <4>3. CountInv(h, b)
        BY <1>1, <1>3, <1>4, <1>13, <1>15, <1>16 DEF CountInv
      <4>4. h.proposals[to].votes + h.proposals[p].votes <= 2 * h.quorum + 1
        BY <1>13, <2>2, <2>4, <4>3, VotesShareQuorum
      <4>5. h.proposals[to].votes \in Nat /\ h.proposals[p].votes \in Nat
        BY <1>13, <2>2, GovernanceFields DEF Proposal
      <4>6. QED BY <1>11, <1>13, <4>2, <4>4, <4>5
    <3>4. QED BY <1>13, <2>2, <3>2, <3>3
  <2>5. QED BY <2>3, <2>4
<1>19. VoteInv(h, b)
  BY <1>1, <1>3, <1>4, <1>13, <1>15, <1>16, <1>17, <1>18 DEF VoteInv
<1>20. QED
  BY <1>13, <1>19 DEF SetVoted, h, b, acc

(***************************************************************************)
(* Evicting a listed proposal keeps VoteInv: its voters keep naming it.     *)
(***************************************************************************)
LEMMA MakeRoomKeepsVoteInv ==
    ASSUME NEW g, NEW a, VoteInv(g, a), NEW power, NEW h \in MakeRoom(g, power)
    PROVE  /\ VoteInv(h, a)
           /\ h.epoch = g.epoch /\ h.quorum = g.quorum
           /\ h.voting_power = g.voting_power
           /\ DOMAIN h.proposals \subseteq DOMAIN g.proposals
           /\ \A p \in DOMAIN g.proposals \ DOMAIN h.proposals :
                 g.proposals[p].votes < power
<1>1. CASE h = g
  BY <1>1
<1>2. CASE h # g
  <2>1. PICK id \in Users : IsLowestProposal(g, power, id) /\ h = remove_proposal(g, id)
    BY <1>2 DEF MakeRoom
  <2>2. id \in DOMAIN g.proposals /\ g.proposals[id].votes < power
    BY <2>1 DEF IsLowestProposal
  <2> DEFINE props == [p \in DOMAIN g.proposals \ {id} |-> g.proposals[p]]
  <2>3. PICK S \in SUBSET Users :
           g \in [epoch : Nat, proposals : [S -> Proposal], inserted : Nat,
                 trade_params : Params, next_trade_params : Params,
                 voting_power : Nat, quorum : Nat]
    BY DEF VoteInv, IsGovernance
  <2>4. DOMAIN g.proposals = S /\ props \in [S \ {id} -> Proposal]
    BY <2>3
  <2>5. h = [g EXCEPT !.proposals = props]
    BY <2>1 DEF remove_proposal
  <2> HIDE DEF props
  <2>6. /\ h \in [epoch : Nat, proposals : [S \ {id} -> Proposal], inserted : Nat,
                  trade_params : Params, next_trade_params : Params,
                  voting_power : Nat, quorum : Nat]
        /\ h.epoch = g.epoch /\ h.quorum = g.quorum
        /\ h.voting_power = g.voting_power
        /\ h.next_trade_params = g.next_trade_params
        /\ h.proposals = props
    BY <2>3, <2>4, <2>5
  <2>7. IsGovernance(h)
    BY <2>6 DEF IsGovernance
  <2>8. /\ DOMAIN h.proposals = DOMAIN g.proposals \ {id}
        /\ \A p \in DOMAIN h.proposals : h.proposals[p] = g.proposals[p]
    BY <2>6 DEF props
  <2>9. \A x \in Users : /\ Current(h, a, x) <=> Current(g, a, x)
                         /\ Eligible(h, a, x) = Eligible(g, a, x)
                         /\ \A p : PowerFor(h, a, x, p) = PowerFor(g, a, x, p)
    BY <2>6 DEF Current, Eligible, PowerFor
  <2>10. VotesMatch(h, a)
    <3>1. \A p : [x \in Users |-> PowerFor(h, a, x, p)]
                   = [x \in Users |-> PowerFor(g, a, x, p)]
      BY <2>9
    <3>2. QED BY <2>8, <3>1 DEF VoteInv, VotesMatch
  <2>11. QuorumCovers(h, a)
    <3>1. [x \in Users |-> stake_to_voting_power(Eligible(h, a, x))]
            = [x \in Users |-> stake_to_voting_power(Eligible(g, a, x))]
      BY <2>9
    <3>2. QED BY <2>6, <3>1 DEF VoteInv, QuorumCovers
  <2>12. OwnersCreated(h, a)
    BY <2>6, <2>8 DEF VoteInv, OwnersCreated, Current
  <2>13. WinnerIsNext(h)
    BY <2>6, <2>8 DEF VoteInv, WinnerIsNext, AboveQuorum
  <2>14. VoteInv(h, a)
    BY <2>6, <2>7, <2>10, <2>11, <2>12, <2>13 DEF VoteInv
  <2>15. QED BY <2>2, <2>6, <2>8, <2>14
<1>3. QED BY <1>1, <1>2

(***************************************************************************)
(* A new proposal starts without votes, and nobody voted for it yet: the    *)
(* created_proposal flag keeps an evicted ID from being listed again.       *)
(***************************************************************************)
LEMMA InsertKeepsVoteInv ==
    ASSUME NEW g, NEW a, VoteInv(g, a), NEW u \in Users, Current(g, a, u),
           ~ a[u].created_proposal, NEW params \in Params
    PROVE  /\ VoteInv(insert_proposal(g, u, params), SetCreated(a, u))
           /\ insert_proposal(g, u, params).epoch = g.epoch
           /\ insert_proposal(g, u, params).voting_power = g.voting_power
           /\ DOMAIN insert_proposal(g, u, params).proposals = DOMAIN g.proposals \cup {u}
<1> DEFINE h == insert_proposal(g, u, params)
           acc == [a[u] EXCEPT !.created_proposal = TRUE]
           b == [a EXCEPT ![u] = acc]
           fresh == [params |-> params, votes |-> 0, place |-> g.inserted]
           props == [p \in DOMAIN g.proposals \cup {u} |->
                       IF p = u THEN fresh ELSE g.proposals[p]]
           n == g.inserted + 1
<1>1. /\ IsGovernance(g) /\ a \in [Users -> Account]
      /\ \A x \in Users : a[x].epoch <= g.epoch
  BY DEF VoteInv
<1>2. /\ acc \in Account /\ acc.epoch = a[u].epoch
      /\ acc.active_stake = a[u].active_stake
      /\ acc.inactive_stake = a[u].inactive_stake
      /\ acc.created_proposal = TRUE /\ acc.voted_proposal = a[u].voted_proposal
  <2>1. a[u] \in Account
    BY <1>1
  <2>2. QED BY <2>1 DEF Account
<1> HIDE DEF acc
<1>3. b \in [Users -> Account] /\ b[u] = acc /\ \A x \in Users : x # u => b[x] = a[x]
  BY <1>1, <1>2
<1> HIDE DEF b
<1>4. PICK S \in SUBSET Users :
         g \in [epoch : Nat, proposals : [S -> Proposal], inserted : Nat,
               trade_params : Params, next_trade_params : Params,
               voting_power : Nat, quorum : Nat]
  BY <1>1 DEF IsGovernance
<1>5. DOMAIN g.proposals = S /\ fresh \in Proposal /\ n \in Nat
  BY <1>4 DEF Proposal
<1>6. props \in [S \cup {u} -> Proposal]
  <2> HIDE DEF fresh
  <2>1. \A p \in S : g.proposals[p] \in Proposal
    BY <1>4
  <2>2. QED BY <1>5, <2>1
<1>7. h = [g EXCEPT !.inserted = n, !.proposals = props]
  BY DEF insert_proposal
<1> HIDE DEF h, props, n
<1>8. /\ h \in [epoch : Nat, proposals : [S \cup {u} -> Proposal], inserted : Nat,
                trade_params : Params, next_trade_params : Params,
                voting_power : Nat, quorum : Nat]
      /\ h.epoch = g.epoch /\ h.quorum = g.quorum
      /\ h.voting_power = g.voting_power
      /\ h.next_trade_params = g.next_trade_params
      /\ h.proposals = props
  BY <1>4, <1>5, <1>6, <1>7
<1>9. IsGovernance(h)
  <2>1. S \cup {u} \in SUBSET Users
    BY <1>4
  <2>2. QED BY <1>8, <2>1 DEF IsGovernance
<1>10. /\ DOMAIN h.proposals = DOMAIN g.proposals \cup {u}
       /\ h.proposals[u].votes = 0
       /\ \A p \in DOMAIN g.proposals : p # u => h.proposals[p] = g.proposals[p]
  BY <1>5, <1>8 DEF props
<1>11. \A x \in Users : /\ b[x].epoch = a[x].epoch
                        /\ Eligible(h, b, x) = Eligible(g, a, x)
                        /\ \A p : PowerFor(h, b, x, p) = PowerFor(g, a, x, p)
  BY <1>2, <1>3, <1>8 DEF Current, Eligible, PowerFor, StakeOf
<1>12. /\ u \notin DOMAIN g.proposals
       /\ \A x \in Users : PowerFor(g, a, x, u) = 0
  BY UserIndex DEF VoteInv, OwnersCreated, PowerFor
<1>13. VotesMatch(h, b)
  <2>1. \A p : [x \in Users |-> PowerFor(h, b, x, p)]
                 = [x \in Users |-> PowerFor(g, a, x, p)]
    BY <1>11
  <2>2. Total([x \in Users |-> PowerFor(g, a, x, u)], N) = 0
    <3> DEFINE f == [x \in Users |-> PowerFor(g, a, x, u)]
    <3>1. \A x \in 1..N : f[x] = 0
      BY <1>12, UserIndex
    <3> HIDE DEF f
    <3>2. Total(f, N) = 0
      BY <3>1, UserIndex, TotalZero
    <3>3. QED BY <3>2 DEF f
  <2>3. ASSUME NEW p \in DOMAIN h.proposals
        PROVE  h.proposals[p].votes = Total([x \in Users |-> PowerFor(g, a, x, p)], N)
    <3>1. CASE p = u
      BY <1>10, <2>2, <3>1
    <3>2. CASE p # u
      BY <1>10, <3>2 DEF VoteInv, VotesMatch
    <3>3. QED BY <3>1, <3>2
  <2>4. QED BY <2>1, <2>3 DEF VotesMatch
<1>14. QuorumCovers(h, b)
  <2>1. [x \in Users |-> stake_to_voting_power(Eligible(h, b, x))]
          = [x \in Users |-> stake_to_voting_power(Eligible(g, a, x))]
    BY <1>11
  <2>2. QED BY <1>8, <2>1 DEF VoteInv, QuorumCovers
<1>15. OwnersCreated(h, b)
  <2>1. \A x \in Users : a[x].created_proposal => b[x].created_proposal
    BY <1>2, <1>3
  <2>2. \A x \in Users : /\ b[x].voted_proposal = a[x].voted_proposal
                         /\ a[x].voted_proposal # None => a[x].voted_proposal \in Users
    <3>1. \A x \in Users : a[x].voted_proposal \in 0..N
      BY <1>1, AccountFields
    <3>2. \A x \in Users : b[x].voted_proposal = a[x].voted_proposal
      BY <1>2, <1>3
    <3>3. QED BY <3>1, <3>2, UserIndex DEF None
  <2>3. \A x \in Users : Current(h, b, x) <=> Current(g, a, x)
    BY <1>8, <1>11 DEF Current
  <2>4. b[u].created_proposal /\ DOMAIN g.proposals \subseteq Users
    BY <1>1, <1>2, <1>3, GovernanceFields
  <2>5. QED
    BY <1>10, <2>1, <2>2, <2>3, <2>4 DEF VoteInv, OwnersCreated
<1>16. WinnerIsNext(h)
  <2>1. ~ AboveQuorum(h, u)
    BY <1>8, <1>10 DEF AboveQuorum
  <2>2. QED BY <1>8, <1>10, <2>1 DEF VoteInv, WinnerIsNext, AboveQuorum
<1>17. VoteInv(h, b)
  BY <1>1, <1>3, <1>8, <1>9, <1>11, <1>13, <1>14, <1>15, <1>16 DEF VoteInv
<1>18. QED
  BY <1>8, <1>10, <1>17 DEF SetCreated, h, b, acc

-----------------------------------------------------------------------------
(***************************************************************************)
(* Totals over accounts when the account of u is replaced.                  *)
(***************************************************************************)
LEMMA ReplaceAccountTotals ==
    ASSUME NEW a \in [Users -> Account], NEW b \in [Users -> Account], NEW u \in Users,
           \A x \in Users : x # u => b[x] = a[x]
    PROVE  /\ TotalStake(b) = TotalStake(a) + StakeOf(b[u]) - StakeOf(a[u])
           /\ TotalPower(b) = TotalPower(a) + stake_to_voting_power(StakeOf(b[u]))
                                           - stake_to_voting_power(StakeOf(a[u]))
<1>0. u \in 1..N /\ N \in Nat
  BY UserIndex
<1>1. TotalStake(b) = TotalStake(a) + StakeOf(b[u]) - StakeOf(a[u])
  <2> DEFINE fa == [x \in Users |-> StakeOf(a[x])]
             fb == [x \in Users |-> StakeOf(b[x])]
  <2>1. \A x \in 1..N : fa[x] \in Int /\ fb[x] \in Int
    BY AccountFields, UserIndex
  <2>2. \A x \in 1..N : x # u => fa[x] = fb[x]
    BY UserIndex
  <2>3. fa[u] = StakeOf(a[u]) /\ fb[u] = StakeOf(b[u])
    OBVIOUS
  <2> HIDE DEF fa, fb
  <2>4. Total(fb, N) = Total(fa, N) + fb[u] - fa[u]
    BY ONLY <1>0, <2>1, <2>2, TotalUpdate
  <2>5. Total(fb, N) = Total(fa, N) + StakeOf(b[u]) - StakeOf(a[u])
    BY <2>3, <2>4
  <2>6. QED BY <2>5 DEF TotalStake, fa, fb
<1>2. TotalPower(b) = TotalPower(a) + stake_to_voting_power(StakeOf(b[u]))
                                    - stake_to_voting_power(StakeOf(a[u]))
  <2> DEFINE fa == [x \in Users |-> stake_to_voting_power(StakeOf(a[x]))]
             fb == [x \in Users |-> stake_to_voting_power(StakeOf(b[x]))]
  <2>1. \A x \in 1..N : fa[x] \in Int /\ fb[x] \in Int
    <3>1. \A x \in Users : StakeOf(a[x]) \in Nat /\ StakeOf(b[x]) \in Nat
      BY AccountFields
    <3>2. \A x \in Users : /\ stake_to_voting_power(StakeOf(a[x])) \in Nat
                           /\ stake_to_voting_power(StakeOf(b[x])) \in Nat
      BY <3>1, PowerType
    <3>3. QED BY <3>2, UserIndex
  <2>2. \A x \in 1..N : x # u => fa[x] = fb[x]
    BY UserIndex
  <2>3. /\ fa[u] = stake_to_voting_power(StakeOf(a[u]))
        /\ fb[u] = stake_to_voting_power(StakeOf(b[u]))
    OBVIOUS
  <2> HIDE DEF fa, fb
  <2>4. Total(fb, N) = Total(fa, N) + fb[u] - fa[u]
    BY ONLY <1>0, <2>1, <2>2, TotalUpdate
  <2>5. Total(fb, N) = Total(fa, N) + stake_to_voting_power(StakeOf(b[u]))
                                    - stake_to_voting_power(StakeOf(a[u]))
    BY <2>3, <2>4
  <2>6. QED BY <2>5 DEF TotalPower, fa, fb
<1>3. QED BY <1>1, <1>2

(***************************************************************************)
(* The power of one account is within voting_power, the votes of one voter  *)
(* within the votes of the proposal, its stake within the total stake.      *)
(***************************************************************************)
LEMMA PowerElement ==
    ASSUME NEW g, NEW a \in [Users -> Account], PowerMatches(g, a), NEW u \in Users
    PROVE  stake_to_voting_power(StakeOf(a[u])) <= g.voting_power
<1> DEFINE f == [x \in Users |-> stake_to_voting_power(StakeOf(a[x]))]
<1>1. \A x \in 1..N : f[x] \in Nat
  <2>1. \A x \in Users : StakeOf(a[x]) \in Nat
    BY AccountFields
  <2>2. \A x \in Users : stake_to_voting_power(StakeOf(a[x])) \in Nat
    BY <2>1, PowerType
  <2>3. QED BY <2>2, UserIndex
<1>2. f[u] = stake_to_voting_power(StakeOf(a[u])) /\ g.voting_power = Total(f, N)
  BY DEF PowerMatches, TotalPower
<1>3. u \in 1..N /\ N \in Nat
  BY UserIndex
<1> HIDE DEF f
<1>4. f[u] <= Total(f, N)
  BY ONLY <1>1, <1>3, TotalElement
<1>5. QED BY <1>2, <1>4

(***************************************************************************)
(* The power of one voter is within the votes that adjust_vote keeps.       *)
(***************************************************************************)
LEMMA VotesElement ==
    ASSUME NEW g, NEW a \in [Users -> Account], VotesMatch(g, a), NEW u \in Users,
           Current(g, a, u), a[u].voted_proposal \in DOMAIN g.proposals
    PROVE  stake_to_voting_power(a[u].active_stake)
               <= g.proposals[a[u].voted_proposal].votes
<1> DEFINE p == a[u].voted_proposal
           f == [x \in Users |-> PowerFor(g, a, x, p)]
<1>1. \A x \in 1..N : f[x] \in Nat
  BY SummandTypes, UserIndex
<1>2. f[u] = stake_to_voting_power(a[u].active_stake) /\ g.proposals[p].votes = Total(f, N)
  BY DEF VotesMatch, PowerFor
<1>3. u \in 1..N /\ N \in Nat
  BY UserIndex
<1> HIDE DEF f
<1>4. f[u] <= Total(f, N)
  BY ONLY <1>1, <1>3, TotalElement
<1>5. QED BY <1>2, <1>4

(***************************************************************************)
(* The stake of one account is within the total stake in the vault.         *)
(***************************************************************************)
LEMMA StakeElement ==
    ASSUME NEW a \in [Users -> Account], NEW u \in Users
    PROVE  StakeOf(a[u]) <= TotalStake(a)
<1> DEFINE f == [x \in Users |-> StakeOf(a[x])]
<1>1. \A x \in 1..N : f[x] \in Nat
  BY AccountFields, UserIndex
<1>2. f[u] = StakeOf(a[u])
  OBVIOUS
<1>3. u \in 1..N /\ N \in Nat
  BY UserIndex
<1> HIDE DEF f
<1>4. f[u] <= Total(f, N)
  BY ONLY <1>1, <1>3, TotalElement
<1>5. QED BY <1>2, <1>4 DEF TotalStake, f

(* The accounts once the handler of u has refreshed u's.                     *)
Refreshed(u) == RefreshAccount(accounts, u, epoch)

(***************************************************************************)
(* The state every handler works on, after its calls of governance.update   *)
(* and update_account.                                                      *)
(***************************************************************************)
LEMMA RefreshedState ==
    ASSUME IInv, NEW u \in Users
    PROVE  /\ VoteInv(G, Refreshed(u)) /\ PowerMatches(G, Refreshed(u))
           /\ G.epoch = epoch /\ Current(G, Refreshed(u), u)
           /\ Refreshed(u) \in [Users -> Account]
           /\ Refreshed(u)[u] = A(u) /\ A(u) \in Account
           /\ A(u).epoch = epoch
           /\ \A x \in Users : x # u => Refreshed(u)[x] = accounts[x]
           /\ vaultDeep = TotalStake(Refreshed(u))
<1>1. /\ epoch \in Nat /\ gov.epoch <= epoch /\ accounts \in [Users -> Account]
      /\ VoteInv(gov, accounts) /\ PowerMatches(gov, accounts) /\ StakeInVault
  BY DEF IInv, TypeOK
<1>2. /\ VoteInv(G, Refreshed(u)) /\ PowerMatches(G, Refreshed(u))
      /\ G.epoch = epoch /\ Current(G, Refreshed(u), u)
      /\ \A x \in Users : StakeOf(Refreshed(u)[x]) = StakeOf(accounts[x])
  BY <1>1, RefreshKeepsVoteInv DEF G, Refreshed
<1>3. Refreshed(u) \in [Users -> Account]
  BY <1>2 DEF VoteInv
<1>4. Refreshed(u)[u] = A(u) /\ \A x \in Users : x # u => Refreshed(u)[x] = accounts[x]
  BY <1>1 DEF Refreshed, RefreshAccount, A
<1>5. A(u) \in Account
  BY <1>3, <1>4
<1>6. A(u).epoch = epoch
  BY <1>2, <1>4 DEF Current
<1>7. vaultDeep = TotalStake(Refreshed(u))
  <2>1. [x \in Users |-> StakeOf(Refreshed(u)[x])] = [x \in Users |-> StakeOf(accounts[x])]
    BY <1>2
  <2>2. QED BY <1>1, <2>1 DEF StakeInVault, TotalStake
<1>8. QED BY <1>2, <1>3, <1>4, <1>5, <1>6, <1>7

(***************************************************************************)
(* A new pool (governance::empty, no accounts) satisfies the invariant.     *)
(***************************************************************************)
LEMMA InitIInv == Init => IInv
<1> SUFFICES ASSUME Init PROVE IInv
  OBVIOUS
<1>1. /\ epoch = 0 /\ kind \in PoolKinds /\ gov = empty(kind, 0)
      /\ accounts = [u \in Users |-> EmptyAccount(0)]
      /\ wallet \in [Users -> Nat] /\ vaultDeep = 0
  BY GovernanceAssumption DEF Init
<1>2. accounts \in [Users -> Account]
  BY <1>1, UserIndex DEF EmptyAccount, Account, None
<1>3. IsGovernance(gov)
  <2>1. NoProposals \in [{} -> Proposal]
    BY DEF NoProposals
  <2>2. DefaultParams(kind) \in Params
    <3>1. CASE kind = "whitelisted"
      BY <3>1, GovernanceAssumption DEF DefaultParams, Params
    <3>2. CASE kind # "whitelisted"
      <4>1. FeeBounds[kind].max_taker \in Nat /\ FeeBounds[kind].max_maker \in Nat
        BY <1>1, <3>2, GovernanceAssumption DEF PoolKinds
      <4>2. QED BY <3>2, <4>1, GovernanceAssumption DEF DefaultParams, Params
    <3>3. QED BY <3>1, <3>2
  <2>3. QED
    BY <1>1, <2>1, <2>2 DEF empty, IsGovernance
<1>4. /\ gov.epoch = 0 /\ gov.proposals = NoProposals /\ gov.voting_power = 0
      /\ gov.quorum = 0
  BY <1>1 DEF empty
<1>5. DOMAIN gov.proposals = {}
  BY <1>4 DEF NoProposals
<1>6. \A u \in Users : /\ accounts[u].epoch = 0 /\ accounts[u].active_stake = 0
                       /\ StakeOf(accounts[u]) = 0
                       /\ accounts[u].voted_proposal = None
  BY <1>1 DEF EmptyAccount, StakeOf
<1>7. \A u \in Users : /\ stake_to_voting_power(StakeOf(accounts[u])) = 0
                       /\ stake_to_voting_power(Eligible(gov, accounts, u)) = 0
  BY <1>6, PowerType DEF Eligible
<1>8. /\ Total([u \in Users |-> StakeOf(accounts[u])], N) = 0
      /\ Total([u \in Users |-> stake_to_voting_power(StakeOf(accounts[u]))], N) = 0
      /\ Total([u \in Users |-> stake_to_voting_power(Eligible(gov, accounts, u))], N) = 0
  <2> DEFINE z == [u \in Users |-> 0]
  <2>1. Total(z, N) = 0
    BY UserIndex, TotalZero
  <2>2. /\ [u \in Users |-> StakeOf(accounts[u])] = z
        /\ [u \in Users |-> stake_to_voting_power(StakeOf(accounts[u]))] = z
        /\ [u \in Users |-> stake_to_voting_power(Eligible(gov, accounts, u))] = z
    BY <1>6, <1>7
  <2> HIDE DEF z
  <2>3. QED BY <2>1, <2>2
<1>9. VoteInv(gov, accounts)
  <2>1. VotesMatch(gov, accounts)
    BY <1>5 DEF VotesMatch
  <2>2. QuorumCovers(gov, accounts)
    BY <1>4, <1>8 DEF QuorumCovers
  <2>3. OwnersCreated(gov, accounts)
    BY <1>5, <1>6 DEF OwnersCreated
  <2>4. WinnerIsNext(gov)
    BY <1>5 DEF WinnerIsNext, AboveQuorum
  <2>5. QED BY <1>2, <1>3, <1>4, <1>6, <2>1, <2>2, <2>3, <2>4 DEF VoteInv
<1>10. PowerMatches(gov, accounts) /\ StakeInVault
  BY <1>1, <1>4, <1>8 DEF PowerMatches, TotalPower, StakeInVault, TotalStake
<1>11. QED
  BY <1>1, <1>2, <1>3, <1>4, <1>9, <1>10 DEF IInv, TypeOK

-----------------------------------------------------------------------------
(***************************************************************************)
(* One lemma per action: it keeps the inductive invariant.                  *)
(***************************************************************************)
LEMMA StakeKeepsIInv ==
    ASSUME IInv, NEW u \in Users, NEW amount \in Nat, Stake(u, amount)
    PROVE  IInv'
<1> DEFINE b0 == Refreshed(u)
           acc == [A(u) EXCEPT !.inactive_stake = A(u).inactive_stake + amount]
           s == StakeOf(A(u))
<1>1. /\ VoteInv(G, b0) /\ PowerMatches(G, b0) /\ G.epoch = epoch /\ Current(G, b0, u)
      /\ b0 \in [Users -> Account] /\ b0[u] = A(u) /\ A(u) \in Account
      /\ \A x \in Users : x # u => b0[x] = accounts[x]
      /\ vaultDeep = TotalStake(b0)
  BY RefreshedState
<1>2. /\ epoch \in Nat /\ kind \in PoolKinds /\ accounts \in [Users -> Account]
      /\ wallet \in [Users -> Nat] /\ vaultDeep \in Nat
  BY DEF IInv, TypeOK
<1>3. /\ acc \in Account /\ acc.epoch = A(u).epoch
      /\ acc.created_proposal = A(u).created_proposal
      /\ acc.voted_proposal = A(u).voted_proposal
      /\ acc.active_stake = A(u).active_stake
      /\ s \in Nat
      /\ StakeOf(acc) = s + amount
  <2>1. A(u).inactive_stake + amount \in Nat
    BY <1>1 DEF Account
  <2>2. QED BY <1>1, <2>1 DEF Account, StakeOf
<1>4. /\ amount <= wallet[u] /\ gov' = adjust_voting_power(G, s, s + amount)
      /\ accounts' = [accounts EXCEPT ![u] = acc]
      /\ wallet' = [wallet EXCEPT ![u] = wallet[u] - amount]
      /\ vaultDeep' = vaultDeep + amount
      /\ epoch' = epoch /\ kind' = kind
  BY DEF Stake
<1> HIDE DEF b0, acc, s
<1>5. accounts' = [b0 EXCEPT ![u] = acc] /\ accounts' \in [Users -> Account]
  BY <1>1, <1>2, <1>3, <1>4
<1>6. /\ stake_to_voting_power(s) \in Nat /\ stake_to_voting_power(s + amount) \in Nat
      /\ G.voting_power \in Nat
      /\ stake_to_voting_power(s) <= G.voting_power
  <2>1. s + amount \in Nat
    BY <1>3
  <2>2. G.voting_power \in Nat
    BY <1>1, GovernanceFields DEF VoteInv
  <2>3. stake_to_voting_power(s) \in Nat /\ stake_to_voting_power(s + amount) \in Nat
    BY <1>3, <2>1, PowerType
  <2>4. stake_to_voting_power(StakeOf(b0[u])) <= G.voting_power
    BY <1>1, PowerElement
  <2>5. QED BY <1>1, <2>2, <2>3, <2>4 DEF s
<1>7. /\ VoteInv(gov', b0) /\ gov'.epoch = epoch
      /\ gov'.voting_power = G.voting_power + stake_to_voting_power(s + amount)
                                            - stake_to_voting_power(s)
  BY <1>1, <1>3, <1>4, <1>6, AdjustPowerKeepsVoteInv
<1>8. VoteInv(gov', accounts')
  <2>1. Current(gov', b0, u)
    BY <1>1, <1>7 DEF Current
  <2>2. QED BY <1>1, <1>3, <1>5, <1>7, <2>1, RestakeKeepsVoteInv
<1>9. PowerMatches(gov', accounts') /\ vaultDeep' = TotalStake(accounts')
  <2>1. accounts'[u] = acc /\ \A x \in Users : x # u => accounts'[x] = b0[x]
    BY <1>1, <1>5
  <2>2. /\ TotalStake(accounts') = TotalStake(b0) + StakeOf(acc) - StakeOf(A(u))
        /\ TotalPower(accounts') = TotalPower(b0) + stake_to_voting_power(StakeOf(acc))
                                                  - stake_to_voting_power(StakeOf(A(u)))
    <3>1. /\ u \in Users /\ b0 \in [Users -> Account] /\ accounts' \in [Users -> Account]
          /\ b0[u] = A(u)
      BY <1>1, <1>5
    <3>2. QED BY ONLY <2>1, <3>1, ReplaceAccountTotals
  <2>3. QED
    BY <1>1, <1>2, <1>3, <1>4, <1>6, <1>7, <2>2 DEF s, PowerMatches
<1>10. TypeOK'
  <2>1. wallet' \in [Users -> Nat] /\ vaultDeep' \in Nat
    BY <1>2, <1>4
  <2>2. IsGovernance(gov')
    BY <1>8 DEF VoteInv
  <2>3. QED BY <1>2, <1>4, <1>5, <2>1, <2>2 DEF TypeOK
<1>11. QED
  BY <1>2, <1>4, <1>7, <1>8, <1>9, <1>10 DEF IInv, StakeInVault

(***************************************************************************)
(* process_unstake keeps the invariant.                                     *)
(***************************************************************************)
LEMMA UnstakeKeepsIInv ==
    ASSUME IInv, NEW u \in Users, Unstake(u)
    PROVE  IInv'
<1> DEFINE b0 == Refreshed(u)
           s == StakeOf(A(u))
           from == A(u).voted_proposal
           active == A(u).active_stake
           h == adjust_voting_power(G, s, 0)
           mid == [A(u) EXCEPT !.voted_proposal = None]
           b1 == [b0 EXCEPT ![u] = mid]
           acc == remove_stake(A(u))
<1>1. /\ VoteInv(G, b0) /\ PowerMatches(G, b0) /\ G.epoch = epoch /\ Current(G, b0, u)
      /\ b0 \in [Users -> Account] /\ b0[u] = A(u) /\ A(u) \in Account
      /\ \A x \in Users : x # u => b0[x] = accounts[x]
      /\ vaultDeep = TotalStake(b0)
  BY RefreshedState
<1>2. /\ epoch \in Nat /\ kind \in PoolKinds /\ accounts \in [Users -> Account]
      /\ wallet \in [Users -> Nat] /\ vaultDeep \in Nat
  BY DEF IInv, TypeOK
<1>3. /\ acc \in Account /\ acc.epoch = A(u).epoch
      /\ acc.created_proposal = A(u).created_proposal
      /\ acc.voted_proposal = None /\ acc.active_stake = 0
      /\ StakeOf(acc) = 0 /\ s \in Nat
  <2>1. None \in 0..N
    BY UserIndex DEF None
  <2>2. acc \in Account
    BY <1>1, <2>1 DEF Account, remove_stake
  <2>3. /\ acc.epoch = A(u).epoch
        /\ acc.voted_proposal = None /\ acc.active_stake = 0 /\ acc.inactive_stake = 0
    BY <1>1 DEF Account, remove_stake
  <2>4. acc.created_proposal = A(u).created_proposal
    BY <1>1 DEF Account, remove_stake
  <2>5. StakeOf(acc) = 0 /\ s \in Nat
    BY <1>1, <2>3 DEF Account, StakeOf
  <2>6. QED BY <2>2, <2>3, <2>4, <2>5
<1>4. /\ mid \in Account /\ mid.epoch = A(u).epoch
      /\ mid.created_proposal = A(u).created_proposal /\ mid.voted_proposal = None
  <2>1. None \in 0..N
    BY UserIndex DEF None
  <2>2. QED BY <1>1, <2>1 DEF Account
<1>5. /\ stake_to_voting_power(s) <= G.voting_power
      /\ adjust_vote_completes(G, from, None, active)
      /\ s <= vaultDeep
      /\ gov' = adjust_vote(h, from, None, active)
      /\ accounts' = [accounts EXCEPT ![u] = acc]
      /\ wallet' = [wallet EXCEPT ![u] = wallet[u] + s]
      /\ vaultDeep' = vaultDeep - s
      /\ epoch' = epoch /\ kind' = kind
  BY DEF Unstake, UnstakeCompletes
<1>6. gov' = remove_vote(h, from, active)
  BY <1>5 DEF adjust_vote, add_vote
<1>7. /\ stake_to_voting_power(s) \in Nat /\ stake_to_voting_power(0) = 0
      /\ G.voting_power \in Nat
  BY <1>1, <1>3, PowerType, GovernanceFields DEF VoteInv
<1> HIDE DEF b0, acc, s, mid, h
<1>8. /\ VoteInv(h, b0) /\ h.epoch = epoch /\ h.proposals = G.proposals
      /\ h.voting_power = G.voting_power - stake_to_voting_power(s)
  <2>1. 0 \in Nat /\ stake_to_voting_power(s) <= G.voting_power + stake_to_voting_power(0)
    BY <1>5, <1>7
  <2>2. /\ VoteInv(h, b0) /\ h.epoch = epoch /\ h.proposals = G.proposals
        /\ h.voting_power = G.voting_power + stake_to_voting_power(0)
                                           - stake_to_voting_power(s)
    BY <1>1, <1>3, <2>1, AdjustPowerKeepsVoteInv DEF h
  <2>3. QED BY <1>7, <2>2
<1>9. Current(h, b0, u) /\ adjust_vote_completes(h, from, None, active)
  BY <1>1, <1>5, <1>8 DEF Current, adjust_vote_completes
<1>10. /\ VoteInv(gov', b1) /\ gov'.epoch = epoch
       /\ gov'.voting_power = G.voting_power - stake_to_voting_power(s)
  <2>1. b1 = SetVoted(b0, u, None)
    BY <1>1 DEF SetVoted, mid
  <2> HIDE DEF b1
  <2>2. QED BY <1>1, <1>6, <1>8, <1>9, <2>1, RemoveVoteKeepsVoteInv
<1>11. b1 \in [Users -> Account] /\ b1[u] = mid /\ \A x \in Users : x # u => b1[x] = b0[x]
  BY <1>1, <1>4
<1> HIDE DEF b1
<1>12. accounts' = [b1 EXCEPT ![u] = acc] /\ accounts' \in [Users -> Account]
  BY <1>1, <1>2, <1>3, <1>5, <1>11
<1>13. VoteInv(gov', accounts')
  <2>1. Current(gov', b1, u)
    BY <1>1, <1>4, <1>10, <1>11 DEF Current
  <2>2. /\ acc.epoch = b1[u].epoch /\ acc.created_proposal = b1[u].created_proposal
        /\ acc.voted_proposal = b1[u].voted_proposal
        /\ acc.active_stake = 0 /\ acc.voted_proposal = None
    BY <1>3, <1>4, <1>11
  <2>3. QED BY <1>3, <1>10, <1>12, <2>1, <2>2, RestakeKeepsVoteInv
<1>14. PowerMatches(gov', accounts') /\ vaultDeep' = TotalStake(accounts')
  <2>1. accounts'[u] = acc /\ \A x \in Users : x # u => accounts'[x] = b0[x]
    BY <1>11, <1>12
  <2>2. /\ TotalStake(accounts') = TotalStake(b0) + StakeOf(acc) - StakeOf(A(u))
        /\ TotalPower(accounts') = TotalPower(b0) + stake_to_voting_power(StakeOf(acc))
                                                  - stake_to_voting_power(StakeOf(A(u)))
    <3>1. /\ u \in Users /\ b0 \in [Users -> Account] /\ accounts' \in [Users -> Account]
          /\ b0[u] = A(u)
      BY <1>1, <1>12
    <3>2. QED BY ONLY <2>1, <3>1, ReplaceAccountTotals
  <2>3. QED
    BY <1>1, <1>2, <1>3, <1>5, <1>7, <1>10, <2>2 DEF s, PowerMatches
<1>15. TypeOK'
  <2>1. wallet' \in [Users -> Nat] /\ vaultDeep' \in Nat
    BY <1>2, <1>3, <1>5
  <2>2. IsGovernance(gov')
    BY <1>13 DEF VoteInv
  <2>3. QED BY <1>2, <1>5, <1>12, <2>1, <2>2 DEF TypeOK
<1>16. QED
  BY <1>2, <1>5, <1>10, <1>13, <1>14, <1>15 DEF IInv, StakeInVault

(***************************************************************************)
(* Moving the vote of a refreshed account to a listed proposal.             *)
(***************************************************************************)
LEMMA MoveVoteKeepsVoteInv ==
    ASSUME NEW g, NEW a \in [Users -> Account], VoteInv(g, a), NEW u \in Users,
           Current(g, a, u), NEW p \in Users,
           adjust_vote_completes(g, a[u].voted_proposal, p, a[u].active_stake),
           NEW h, h = adjust_vote(g, a[u].voted_proposal, p, a[u].active_stake)
    PROVE  /\ VoteInv(h, SetVoted(a, u, p))
           /\ h.epoch = g.epoch
           /\ h.voting_power = g.voting_power
           /\ DOMAIN h.proposals = DOMAIN g.proposals
<1> DEFINE from == a[u].voted_proposal
           active == a[u].active_stake
           m == remove_vote(g, from, active)
           c == SetVoted(a, u, None)
<1>1. adjust_vote_completes(g, from, None, active) /\ p \in DOMAIN g.proposals
  BY UserIndex DEF adjust_vote_completes
<1>2. /\ VoteInv(m, c) /\ m.epoch = g.epoch /\ m.voting_power = g.voting_power
      /\ DOMAIN m.proposals = DOMAIN g.proposals
  BY <1>1, RemoveVoteKeepsVoteInv
<1>3. /\ c[u].epoch = a[u].epoch /\ c[u].active_stake = active
      /\ c[u].voted_proposal = None
      /\ SetVoted(c, u, p) = SetVoted(a, u, p)
  BY DEF Account, SetVoted
<1> HIDE DEF m, c
<1>4. Current(m, c, u)
  BY <1>2, <1>3 DEF Current
<1>5. h = add_vote(m, p, c[u].active_stake)
  BY <1>3 DEF adjust_vote, m
<1>6. p \in DOMAIN m.proposals
  BY <1>1, <1>2
<1>7. /\ VoteInv(h, SetVoted(c, u, p)) /\ h.epoch = m.epoch
      /\ h.voting_power = m.voting_power /\ DOMAIN h.proposals = DOMAIN m.proposals
  BY <1>2, <1>3, <1>4, <1>5, <1>6, AddVoteKeepsVoteInv
<1>8. QED
  BY <1>2, <1>3, <1>7

(***************************************************************************)
(* The rest of IInv' for a handler that moves no funds.                     *)
(***************************************************************************)
LEMMA NoFundsKeepIInv ==
    ASSUME IInv, NEW u \in Users,
           VoteInv(gov', accounts'), gov'.epoch = epoch,
           gov'.voting_power = G.voting_power,
           StakeOf(accounts'[u]) = StakeOf(A(u)),
           \A x \in Users : x # u => accounts'[x] = accounts[x],
           UNCHANGED <<epoch, kind, wallet, vaultDeep>>
    PROVE  IInv'
<1> DEFINE b0 == Refreshed(u)
<1>1. /\ PowerMatches(G, b0) /\ b0 \in [Users -> Account] /\ b0[u] = A(u)
      /\ \A x \in Users : x # u => b0[x] = accounts[x]
      /\ vaultDeep = TotalStake(b0)
  BY RefreshedState
<1>2. accounts' \in [Users -> Account] /\ IsGovernance(gov')
  BY DEF VoteInv
<1>3. TotalStake(accounts') = TotalStake(b0) /\ TotalPower(accounts') = TotalPower(b0)
  <2>1. \A x \in Users : StakeOf(accounts'[x]) = StakeOf(b0[x])
    BY <1>1
  <2>2. /\ [x \in Users |-> StakeOf(accounts'[x])] = [x \in Users |-> StakeOf(b0[x])]
        /\ [x \in Users |-> stake_to_voting_power(StakeOf(accounts'[x]))]
             = [x \in Users |-> stake_to_voting_power(StakeOf(b0[x]))]
    BY <2>1
  <2>3. QED BY <2>2 DEF TotalStake, TotalPower
<1>4. QED
  BY <1>1, <1>2, <1>3 DEF IInv, TypeOK, StakeInVault, PowerMatches

(***************************************************************************)
(* process_vote keeps the invariant.                                        *)
(***************************************************************************)
LEMMA VoteKeepsIInv ==
    ASSUME IInv, NEW u \in Users, NEW p \in Users, Vote(u, p)
    PROVE  IInv'
<1> DEFINE b0 == Refreshed(u)
           acc == [A(u) EXCEPT !.voted_proposal = p]
<1>1. /\ VoteInv(G, b0) /\ G.epoch = epoch /\ Current(G, b0, u)
      /\ b0 \in [Users -> Account] /\ b0[u] = A(u) /\ A(u) \in Account
      /\ \A x \in Users : x # u => b0[x] = accounts[x]
  BY RefreshedState
<1>2. /\ adjust_vote_completes(G, A(u).voted_proposal, p, A(u).active_stake)
      /\ gov' = adjust_vote(G, A(u).voted_proposal, p, A(u).active_stake)
      /\ accounts' = [accounts EXCEPT ![u] = acc]
      /\ UNCHANGED <<epoch, kind, wallet, vaultDeep>>
  BY DEF Vote, VoteCompletes
<1>3. accounts \in [Users -> Account]
  BY DEF IInv, TypeOK
<1> HIDE DEF b0
<1>4. accounts' = SetVoted(b0, u, p)
  BY <1>1, <1>2, <1>3 DEF SetVoted
<1>5. /\ VoteInv(gov', accounts') /\ gov'.epoch = G.epoch
      /\ gov'.voting_power = G.voting_power
  <2>1. /\ adjust_vote_completes(G, b0[u].voted_proposal, p, b0[u].active_stake)
        /\ gov' = adjust_vote(G, b0[u].voted_proposal, p, b0[u].active_stake)
        /\ VoteInv(G, b0) /\ Current(G, b0, u) /\ b0 \in [Users -> Account]
        /\ u \in Users /\ p \in Users
    BY <1>1, <1>2
  <2>2. /\ VoteInv(gov', SetVoted(b0, u, p)) /\ gov'.epoch = G.epoch
        /\ gov'.voting_power = G.voting_power
    BY ONLY <2>1, MoveVoteKeepsVoteInv
  <2>3. QED BY <1>4, <2>2
<1>6. StakeOf(accounts'[u]) = StakeOf(A(u)) /\ \A x \in Users : x # u => accounts'[x] = accounts[x]
  BY <1>1, <1>2, <1>3 DEF StakeOf, Account
<1>7. QED
  BY <1>1, <1>2, <1>5, <1>6, NoFundsKeepIInv

(***************************************************************************)
(* A trading handler, which only refreshes, keeps the invariant.            *)
(***************************************************************************)
LEMMA TouchKeepsIInv ==
    ASSUME IInv, NEW u \in Users, Touch(u)
    PROVE  IInv'
<1>1. /\ VoteInv(G, Refreshed(u)) /\ G.epoch = epoch
      /\ Refreshed(u) \in [Users -> Account] /\ Refreshed(u)[u] = A(u)
      /\ \A x \in Users : x # u => Refreshed(u)[x] = accounts[x]
  BY RefreshedState
<1>2. /\ gov' = G /\ accounts' = Refreshed(u)
      /\ UNCHANGED <<epoch, kind, wallet, vaultDeep>>
  BY DEF Touch, Refreshed, RefreshAccount, A
<1>3. QED
  BY <1>1, <1>2, NoFundsKeepIInv

(***************************************************************************)
(* process_proposal keeps the invariant: room, insertion, own vote.         *)
(***************************************************************************)
LEMMA ProposeKeepsIInv ==
    ASSUME IInv, NEW u \in Users, NEW params \in TradeParams, Propose(u, params)
    PROVE  IInv'
<1> DEFINE b0 == Refreshed(u)
           b1 == SetCreated(b0, u)
           power == stake_to_voting_power(A(u).active_stake)
<1>1. /\ VoteInv(G, b0) /\ G.epoch = epoch /\ Current(G, b0, u)
      /\ b0 \in [Users -> Account] /\ b0[u] = A(u) /\ A(u) \in Account
      /\ \A x \in Users : x # u => b0[x] = accounts[x]
  BY RefreshedState
<1>2. PICK g \in add_proposal(G, params, A(u).active_stake, u) :
         /\ adjust_vote_completes(g, A(u).voted_proposal, u, A(u).active_stake)
         /\ gov' = adjust_vote(g, A(u).voted_proposal, u, A(u).active_stake)
  BY DEF Propose, VoteCompletes
<1>3. PICK m \in MakeRoom(G, power) : g = insert_proposal(m, u, params)
  BY DEF add_proposal
<1>4. /\ ~ A(u).created_proposal
      /\ accounts' = [accounts EXCEPT ![u] = [A(u) EXCEPT !.created_proposal = TRUE,
                                                          !.voted_proposal = u]]
      /\ UNCHANGED <<epoch, kind, wallet, vaultDeep>>
  BY DEF Propose
<1>5. params \in Params /\ accounts \in [Users -> Account]
  BY GovernanceAssumption DEF IInv, TypeOK
<1> HIDE DEF b0, power
<1>6. VoteInv(m, b0) /\ m.epoch = epoch /\ m.voting_power = G.voting_power
  BY <1>1, MakeRoomKeepsVoteInv
<1>7. Current(m, b0, u) /\ ~ b0[u].created_proposal
  BY <1>1, <1>4, <1>6 DEF Current
<1>8. /\ VoteInv(g, b1) /\ g.epoch = epoch /\ g.voting_power = G.voting_power
  <2>1. /\ VoteInv(insert_proposal(m, u, params), SetCreated(b0, u))
        /\ insert_proposal(m, u, params).epoch = m.epoch
        /\ insert_proposal(m, u, params).voting_power = m.voting_power
    BY <1>5, <1>6, <1>7, InsertKeepsVoteInv
  <2>2. QED BY <1>3, <1>6, <2>1
<1>9. /\ b1 \in [Users -> Account] /\ b1[u].epoch = epoch
      /\ b1[u].voted_proposal = A(u).voted_proposal
      /\ b1[u].active_stake = A(u).active_stake
  <2>1. A(u).epoch = epoch
    BY RefreshedState
  <2>2. b1[u] = [A(u) EXCEPT !.created_proposal = TRUE]
    BY <1>1 DEF SetCreated
  <2>3. b1 \in [Users -> Account]
    BY <1>8 DEF VoteInv
  <2>4. QED BY <1>1, <2>1, <2>2, <2>3 DEF Account
<1>10. accounts' = SetVoted(b1, u, u)
  BY <1>1, <1>4, <1>5 DEF SetVoted, SetCreated
<1> HIDE DEF b1
<1>11. /\ VoteInv(gov', accounts') /\ gov'.epoch = epoch
       /\ gov'.voting_power = G.voting_power
  <2>1. /\ adjust_vote_completes(g, b1[u].voted_proposal, u, b1[u].active_stake)
        /\ gov' = adjust_vote(g, b1[u].voted_proposal, u, b1[u].active_stake)
        /\ VoteInv(g, b1) /\ Current(g, b1, u) /\ b1 \in [Users -> Account]
        /\ u \in Users
    BY <1>2, <1>8, <1>9 DEF Current
  <2>2. /\ VoteInv(gov', SetVoted(b1, u, u)) /\ gov'.epoch = g.epoch
        /\ gov'.voting_power = g.voting_power
    BY ONLY <2>1, MoveVoteKeepsVoteInv
  <2>3. QED BY <1>8, <1>10, <2>2
<1>12. /\ StakeOf(accounts'[u]) = StakeOf(A(u))
       /\ \A x \in Users : x # u => accounts'[x] = accounts[x]
  BY <1>1, <1>4, <1>5 DEF StakeOf, Account
<1>13. QED
  BY <1>4, <1>11, <1>12, NoFundsKeepIInv

(***************************************************************************)
(* Every step of the pool and of the chain keeps the invariant.             *)
(***************************************************************************)
LEMMA NextKeepsIInv == IInv /\ [Next]_vars => IInv'
<1> SUFFICES ASSUME IInv, [Next]_vars PROVE IInv'
  OBVIOUS
<1>1. ASSUME NEW u \in Users, NEW amount \in 1..Total(InitialDeep, N), Stake(u, amount)
      PROVE  IInv'
  <2>1. amount \in Nat
    OBVIOUS
  <2>2. QED BY <1>1, <2>1, StakeKeepsIInv
<1>2. ASSUME NEW u \in Users, Unstake(u) PROVE IInv'
  BY <1>2, UnstakeKeepsIInv
<1>3. ASSUME NEW u \in Users, NEW params \in TradeParams, Propose(u, params) PROVE IInv'
  BY <1>3, ProposeKeepsIInv
<1>4. ASSUME NEW u \in Users, NEW p \in Users, Vote(u, p) PROVE IInv'
  BY <1>4, VoteKeepsIInv
<1>5. ASSUME NEW u \in Users, Touch(u) PROVE IInv'
  BY <1>5, TouchKeepsIInv
<1>6. CASE NextEpoch
  <2>1. gov.epoch \in Nat /\ epoch \in Nat
    BY GovernanceFields DEF IInv, TypeOK
  <2>2. QED
    BY <1>6, <2>1 DEF NextEpoch, IInv, TypeOK, StakeInVault
<1>7. CASE UNCHANGED vars
  BY <1>7 DEF vars, IInv, TypeOK, StakeInVault
<1>8. QED
  BY <1>1, <1>2, <1>3, <1>4, <1>5, <1>6, <1>7 DEF Next

-----------------------------------------------------------------------------
(***************************************************************************)
(* The inductive invariant holds in every reachable state.                  *)
(***************************************************************************)
THEOREM Invariance == Spec => []IInv
BY InitIInv, NextKeepsIInv, PTL DEF Spec

(***************************************************************************)
(* Every balance manager can take its stake back: what IInv says of the     *)
(* refreshed state makes each guard of process_unstake true.                *)
(***************************************************************************)
LEMMA UnstakeAlwaysCompletes == IInv => UnstakeNeverAborts
<1> SUFFICES ASSUME IInv, NEW u \in Users PROVE UnstakeCompletes(u)
  BY DEF UnstakeNeverAborts
<1> DEFINE b0 == Refreshed(u)
<1>1. /\ VoteInv(G, b0) /\ PowerMatches(G, b0) /\ Current(G, b0, u)
      /\ b0 \in [Users -> Account] /\ b0[u] = A(u)
      /\ vaultDeep = TotalStake(b0)
  BY RefreshedState
<1> HIDE DEF b0
<1>2. stake_to_voting_power(StakeOf(A(u))) <= G.voting_power
  BY <1>1, PowerElement
<1>3. StakeOf(A(u)) <= vaultDeep
  BY <1>1, StakeElement
<1>4. adjust_vote_completes(G, A(u).voted_proposal, None, A(u).active_stake)
  <2>1. VotesMatch(G, b0)
    BY <1>1 DEF VoteInv
  <2>2. b0[u].voted_proposal \in DOMAIN G.proposals =>
           stake_to_voting_power(b0[u].active_stake)
               <= G.proposals[b0[u].voted_proposal].votes
    BY <1>1, <2>1, VotesElement
  <2>3. QED BY <1>1, <2>2 DEF adjust_vote_completes
<1>5. QED
  BY <1>2, <1>3, <1>4 DEF UnstakeCompletes

(***************************************************************************)
(* No single voter outweighs a proposal above the quorum: either its own    *)
(* vote is in it, or it shares the power that can vote with its voters.     *)
(***************************************************************************)
LEMMA WinnerOutvotesEach ==
    ASSUME NEW g, NEW a, VoteInv(g, a), NEW u \in Users, Current(g, a, u),
           NEW p, AboveQuorum(g, p)
    PROVE  stake_to_voting_power(a[u].active_stake) <= g.proposals[p].votes
<1> DEFINE f == [x \in Users |-> PowerFor(g, a, x, p)]
           own == [f EXCEPT ![u] = stake_to_voting_power(a[u].active_stake)]
           el == [x \in Users |-> stake_to_voting_power(Eligible(g, a, x))]
           power == stake_to_voting_power(a[u].active_stake)
<1>1. /\ IsGovernance(g) /\ a \in [Users -> Account] /\ VotesMatch(g, a)
      /\ QuorumCovers(g, a)
      /\ p \in DOMAIN g.proposals /\ g.proposals[p].votes > g.quorum
  BY DEF VoteInv, AboveQuorum
<1>2. CASE a[u].voted_proposal = p
  BY <1>1, <1>2, VotesElement
<1>3. CASE a[u].voted_proposal # p
  <2>1. \A x \in Users : f[x] \in Nat /\ own[x] \in Nat /\ el[x] \in Nat
    BY <1>1, SummandTypes
  <2>2. f[u] = 0 /\ own[u] = power /\ \A x \in Users : x # u => f[x] = own[x]
    BY <1>3 DEF PowerFor
  <2>3. el[u] = power
    BY DEF Eligible
  <2>4. \A x \in Users : f[x] <= el[x]
    BY <1>1, <2>1, AccountFields, PowerType DEF PowerFor, Eligible
  <2>5. g.proposals[p].votes = Total(f, N) /\ Total(el, N) <= 2 * g.quorum + 1
    BY <1>1 DEF VotesMatch, QuorumCovers
  <2>6. power \in Nat /\ g.quorum \in Nat /\ g.proposals[p].votes \in Nat
    BY <1>1, SummandTypes, GovernanceFields DEF Proposal
  <2> HIDE DEF f, own, el, power
  <2>7. \A x \in Users : own[x] <= el[x]
    BY <2>1, <2>2, <2>3, <2>4
  <2>8. /\ N \in Nat /\ u \in 1..N
        /\ \A x \in 1..N : f[x] \in Int /\ own[x] \in Int /\ el[x] \in Int
        /\ \A x \in 1..N : x # u => f[x] = own[x]
        /\ \A x \in 1..N : own[x] <= el[x]
    BY <2>1, <2>2, <2>7, UserIndex
  <2>9. Total(own, N) = Total(f, N) + own[u] - f[u]
    BY ONLY <2>8, TotalUpdate
  <2>10. Total(own, N) <= Total(el, N) /\ Total(own, N) \in Int /\ Total(el, N) \in Int
    BY ONLY <2>8, TotalMonotone, TotalType
  <2>11. power <= g.proposals[p].votes
    BY <1>1, <2>2, <2>5, <2>6, <2>9, <2>10
  <2>12. QED BY <2>11 DEF power
<1>4. QED BY <1>2, <1>3

(***************************************************************************)
(* What process_proposal leaves: the proposals that add_proposal made room  *)
(* among, and the new one, in the epoch of the chain.                       *)
(***************************************************************************)
LEMMA ProposeResult ==
    ASSUME IInv, NEW u \in Users, NEW params \in TradeParams, Propose(u, params)
    PROVE  /\ gov'.epoch = epoch
           /\ \E m \in MakeRoom(G, stake_to_voting_power(A(u).active_stake)) :
                 DOMAIN gov'.proposals = DOMAIN m.proposals \cup {u}
<1> DEFINE b0 == Refreshed(u)
           power == stake_to_voting_power(A(u).active_stake)
           from == A(u).voted_proposal
<1>1. /\ VoteInv(G, b0) /\ G.epoch = epoch /\ Current(G, b0, u)
      /\ b0 \in [Users -> Account] /\ b0[u] = A(u)
  BY RefreshedState
<1>2. PICK g \in add_proposal(G, params, A(u).active_stake, u) :
         /\ adjust_vote_completes(g, from, u, A(u).active_stake)
         /\ gov' = adjust_vote(g, from, u, A(u).active_stake)
  BY DEF Propose, VoteCompletes
<1>3. PICK m \in MakeRoom(G, power) : g = insert_proposal(m, u, params)
  BY DEF add_proposal
<1>4. /\ ~ A(u).created_proposal /\ params \in Params
  BY GovernanceAssumption DEF Propose
<1> HIDE DEF b0, power
<1>5. /\ VoteInv(m, b0) /\ m.epoch = epoch
      /\ \A q \in DOMAIN G.proposals \ DOMAIN m.proposals : G.proposals[q].votes < power
  BY <1>1, MakeRoomKeepsVoteInv
<1>6. /\ VoteInv(g, SetCreated(b0, u)) /\ g.epoch = epoch
      /\ DOMAIN g.proposals = DOMAIN m.proposals \cup {u}
  <2>1. Current(m, b0, u) /\ ~ b0[u].created_proposal
    BY <1>1, <1>4, <1>5 DEF Current
  <2>2. /\ VoteInv(insert_proposal(m, u, params), SetCreated(b0, u))
        /\ insert_proposal(m, u, params).epoch = m.epoch
        /\ DOMAIN insert_proposal(m, u, params).proposals = DOMAIN m.proposals \cup {u}
    BY <1>4, <1>5, <2>1, InsertKeepsVoteInv
  <2>3. QED BY <1>3, <1>5, <2>2
<1>7. gov'.epoch = g.epoch /\ DOMAIN gov'.proposals = DOMAIN g.proposals
  <2> DEFINE b1 == SetCreated(b0, u)
  <2>1. /\ b1 \in [Users -> Account] /\ b1[u].epoch = epoch
        /\ b1[u].voted_proposal = from /\ b1[u].active_stake = A(u).active_stake
    <3>1. A(u).epoch = epoch /\ A(u) \in Account
      BY RefreshedState
    <3>2. b1[u] = [A(u) EXCEPT !.created_proposal = TRUE]
      BY <1>1 DEF SetCreated
    <3>3. b1 \in [Users -> Account]
      BY <1>6 DEF VoteInv
    <3>4. QED BY <3>1, <3>2, <3>3 DEF Account
  <2>2. VoteInv(g, b1)
    BY <1>6
  <2> HIDE DEF b1
  <2>3. /\ adjust_vote_completes(g, b1[u].voted_proposal, u, b1[u].active_stake)
        /\ gov' = adjust_vote(g, b1[u].voted_proposal, u, b1[u].active_stake)
        /\ VoteInv(g, b1) /\ Current(g, b1, u) /\ b1 \in [Users -> Account]
        /\ u \in Users
    BY <1>2, <1>6, <2>1, <2>2 DEF Current
  <2>4. QED BY ONLY <2>3, MoveVoteKeepsVoteInv
<1>8. QED
  BY <1>3, <1>6, <1>7 DEF power

(***************************************************************************)
(* process_proposal evicts no proposal above the quorum.                    *)
(***************************************************************************)
LEMMA ProposeKeepsWinner ==
    ASSUME IInv, NEW u \in Users, NEW params \in TradeParams, Propose(u, params),
           NEW p \in Users, AboveQuorum(gov, p), gov'.epoch = gov.epoch
    PROVE  p \in DOMAIN gov'.proposals
<1> DEFINE b0 == Refreshed(u)
           power == stake_to_voting_power(A(u).active_stake)
<1>1. /\ VoteInv(G, b0) /\ Current(G, b0, u)
      /\ b0 \in [Users -> Account] /\ b0[u] = A(u)
  BY RefreshedState
<1>2. gov'.epoch = epoch
  BY ProposeResult
<1>3. PICK m \in MakeRoom(G, power) : DOMAIN gov'.proposals = DOMAIN m.proposals \cup {u}
  BY ProposeResult
<1> HIDE DEF b0, power
<1>4. \A q \in DOMAIN G.proposals \ DOMAIN m.proposals : G.proposals[q].votes < power
  BY <1>1, MakeRoomKeepsVoteInv
<1>5. G = gov
  BY <1>2 DEF G, update
<1>6. power <= G.proposals[p].votes
  <2>1. AboveQuorum(G, p)
    BY <1>5
  <2>2. stake_to_voting_power(b0[u].active_stake) <= G.proposals[p].votes
    BY <1>1, <2>1, WinnerOutvotesEach
  <2>3. QED BY <1>1, <2>2 DEF power
<1>7. p \in DOMAIN m.proposals
  <2>1. p \in DOMAIN G.proposals
    BY <1>5 DEF AboveQuorum
  <2>2. power \in Nat /\ G.proposals[p].votes \in Nat
    <3>1. stake_to_voting_power(b0[u].active_stake) \in Nat
      BY <1>1, SummandTypes
    <3>2. IsGovernance(G)
      BY <1>1 DEF VoteInv
    <3>3. QED BY <1>1, <2>1, <3>1, <3>2, GovernanceFields DEF power, Proposal
  <2>3. QED BY <1>4, <1>6, <2>1, <2>2
<1>8. QED
  BY <1>3, <1>7

(***************************************************************************)
(* The handlers that only move stake or votes keep the listed proposals of  *)
(* the refreshed Governance object.                                         *)
(***************************************************************************)
LEMMA OtherHandlersKeepProposals ==
    ASSUME IInv, NEW u \in Users,
           \/ \E amount \in 1..Total(InitialDeep, N) : Stake(u, amount)
           \/ Unstake(u)
           \/ \E p \in Users : Vote(u, p)
           \/ Touch(u)
    PROVE  gov'.epoch = G.epoch /\ DOMAIN gov'.proposals = DOMAIN G.proposals
<1> DEFINE b0 == Refreshed(u)
           s == StakeOf(A(u))
<1>1. /\ VoteInv(G, b0) /\ PowerMatches(G, b0) /\ G.epoch = epoch
      /\ Current(G, b0, u) /\ b0 \in [Users -> Account] /\ b0[u] = A(u)
  BY RefreshedState
<1>2. /\ s \in Nat /\ stake_to_voting_power(s) \in Nat
      /\ stake_to_voting_power(s) <= G.voting_power /\ G.voting_power \in Nat
  <2>1. stake_to_voting_power(StakeOf(b0[u])) <= G.voting_power
    BY <1>1, PowerElement
  <2>2. StakeOf(b0[u]) \in Nat
    BY <1>1, AccountFields
  <2>3. IsGovernance(G)
    BY <1>1 DEF VoteInv
  <2>4. QED BY <1>1, <2>1, <2>2, <2>3, PowerType, GovernanceFields
<1> HIDE DEF b0
<1>3. ASSUME NEW after \in Nat
      PROVE  /\ VoteInv(adjust_voting_power(G, s, after), b0)
             /\ adjust_voting_power(G, s, after).epoch = G.epoch
             /\ adjust_voting_power(G, s, after).proposals = G.proposals
  <2>1. stake_to_voting_power(after) \in Nat
    BY PowerType
  <2>2. stake_to_voting_power(s) <= G.voting_power + stake_to_voting_power(after)
    BY <1>2, <2>1
  <2> HIDE DEF s
  <2>3. QED BY <1>1, <1>2, <2>2, AdjustPowerKeepsVoteInv
<1>4. ASSUME NEW amount \in 1..Total(InitialDeep, N), Stake(u, amount)
      PROVE  gov'.epoch = G.epoch /\ gov'.proposals = G.proposals
  <2>1. s + amount \in Nat /\ gov' = adjust_voting_power(G, s, s + amount)
    BY <1>2, <1>4 DEF Stake
  <2> HIDE DEF s
  <2>2. QED BY <1>3, <2>1
<1>5. ASSUME Unstake(u)
      PROVE  gov'.epoch = G.epoch /\ DOMAIN gov'.proposals = DOMAIN G.proposals
  <2> DEFINE h == adjust_voting_power(G, s, 0)
  <2>1. gov' = remove_vote(h, A(u).voted_proposal, A(u).active_stake)
    BY <1>5 DEF Unstake, adjust_vote, add_vote
  <2>2. VoteInv(h, b0) /\ h.epoch = G.epoch /\ h.proposals = G.proposals
    BY <1>3
  <2> HIDE DEF h, s
  <2>3. adjust_vote_completes(h, A(u).voted_proposal, None, A(u).active_stake)
    BY <1>5, <2>2 DEF Unstake, UnstakeCompletes, adjust_vote_completes
  <2>4. Current(h, b0, u)
    BY <1>1, <2>2 DEF Current
  <2>5. QED BY <1>1, <2>1, <2>2, <2>3, <2>4, RemoveVoteKeepsVoteInv
<1>6. ASSUME NEW p \in Users, Vote(u, p)
      PROVE  gov'.epoch = G.epoch /\ DOMAIN gov'.proposals = DOMAIN G.proposals
  <2>1. /\ adjust_vote_completes(G, b0[u].voted_proposal, p, b0[u].active_stake)
        /\ gov' = adjust_vote(G, b0[u].voted_proposal, p, b0[u].active_stake)
        /\ VoteInv(G, b0) /\ Current(G, b0, u) /\ b0 \in [Users -> Account]
        /\ u \in Users /\ p \in Users
    BY <1>1, <1>6 DEF Vote, VoteCompletes
  <2>2. QED BY ONLY <2>1, MoveVoteKeepsVoteInv
<1>7. CASE Touch(u)
  BY <1>7 DEF Touch
<1>8. QED
  BY <1>4, <1>5, <1>6, <1>7

(***************************************************************************)
(* One step: a proposal above the quorum stays listed while the Governance  *)
(* object stays in its epoch.                                               *)
(***************************************************************************)
LEMMA StepKeepsWinner ==
    ASSUME IInv, [Next]_vars, NEW p \in Users, AboveQuorum(gov, p),
           gov'.epoch = gov.epoch
    PROVE  p \in DOMAIN gov'.proposals
<1>1. p \in DOMAIN gov.proposals
  BY DEF AboveQuorum
<1>2. CASE \E u \in Users, params \in TradeParams : Propose(u, params)
  BY <1>2, ProposeKeepsWinner
<1>3. ASSUME NEW u \in Users,
             \/ \E amount \in 1..Total(InitialDeep, N) : Stake(u, amount)
             \/ Unstake(u)
             \/ \E q \in Users : Vote(u, q)
             \/ Touch(u)
      PROVE  p \in DOMAIN gov'.proposals
  <2>1. gov'.epoch = G.epoch /\ DOMAIN gov'.proposals = DOMAIN G.proposals
    BY <1>3, OtherHandlersKeepProposals
  <2>2. G.epoch = epoch
    BY RefreshedState
  <2>3. G = gov
    BY <2>1, <2>2 DEF G, update
  <2>4. QED BY <1>1, <2>1, <2>3
<1>4. CASE NextEpoch \/ UNCHANGED vars
  BY <1>1, <1>4 DEF NextEpoch, vars
<1>5. QED
  BY <1>2, <1>3, <1>4 DEF Next

-----------------------------------------------------------------------------
(***************************************************************************)
(* Every field keeps its type: no subtraction of the handlers goes below    *)
(* zero and every listed proposal is keyed by a balance manager.            *)
(***************************************************************************)
THEOREM TypeCorrect == Spec => []TypeOK
<1>1. IInv => TypeOK
  BY DEF IInv
<1>2. QED BY <1>1, Invariance, PTL

(***************************************************************************)
(* adjust_vote keeps the votes of every listed proposal equal to the power  *)
(* of the accounts whose vote names it.                                     *)
(***************************************************************************)
THEOREM VotesMatchVotersHolds == Spec => []VotesMatchVoters
<1>1. IInv => VotesMatchVoters
  BY DEF IInv, VoteInv, VotesMatchVoters
<1>2. QED BY <1>1, Invariance, PTL

(***************************************************************************)
(* adjust_voting_power keeps voting_power equal to the power of all stake.  *)
(***************************************************************************)
THEOREM VotingPowerMatchesStakeHolds == Spec => []VotingPowerMatchesStake
<1>1. IInv => VotingPowerMatchesStake
  BY DEF IInv, VotingPowerMatchesStake
<1>2. QED BY <1>1, Invariance, PTL

(***************************************************************************)
(* Pool.unstake never aborts, for any balance manager, in any epoch.        *)
(***************************************************************************)
THEOREM UnstakeNeverAbortsHolds == Spec => []UnstakeNeverAborts
BY UnstakeAlwaysCompletes, Invariance, PTL

(***************************************************************************)
(* At most one proposal of an epoch is above the quorum of update.          *)
(***************************************************************************)
THEOREM AtMostOneWinnerHolds == Spec => []AtMostOneWinner
<1>1. IInv => AtMostOneWinner
  <2> SUFFICES ASSUME IInv, NEW p \in Users, NEW q \in Users,
                      AboveQuorum(gov, p), AboveQuorum(gov, q)
               PROVE  p = q
    BY DEF AtMostOneWinner
  <2>1. VoteInv(gov, accounts)
    BY DEF IInv
  <2>2. QED BY <2>1, OneAboveQuorum
<1>2. QED BY <1>1, Invariance, PTL

(***************************************************************************)
(* The parameters of the proposal above the quorum are next_trade_params.   *)
(***************************************************************************)
THEOREM WinnerTakesEffectHolds == Spec => []WinnerTakesEffect
<1>1. IInv => WinnerTakesEffect
  BY DEF IInv, VoteInv, WinnerTakesEffect
<1>2. QED BY <1>1, Invariance, PTL

(***************************************************************************)
(* remove_lowest_proposal never evicts the proposal above the quorum.       *)
(***************************************************************************)
THEOREM WinnerNeverEvictedHolds == Spec => WinnerNeverEvicted
<1>1. IInv /\ [Next]_vars =>
        [\A p \in Users : AboveQuorum(gov, p) /\ gov'.epoch = gov.epoch =>
             p \in DOMAIN gov'.proposals]_vars
  BY StepKeepsWinner
<1>2. QED BY <1>1, Invariance, PTL DEF Spec, WinnerNeverEvicted

-----------------------------------------------------------------------------
(***************************************************************************)
(* Refinement.  No call changes trade_params, the parameters of the epoch:  *)
(* only governance.update does.                                             *)
(***************************************************************************)
SameTradeParams(h, g) == h.trade_params = g.trade_params

(* The calls of governance keep the parameters of the epoch.                 *)
LEMMA CallsKeepTradeParams ==
    ASSUME NEW g, IsGovernance(g)
    PROVE  /\ \A before, after : SameTradeParams(adjust_voting_power(g, before, after), g)
           /\ \A id, votes, next : SameTradeParams(SetVotes(g, id, votes, next), g)
           /\ \A id : SameTradeParams(remove_proposal(g, id), g)
           /\ \A id, params : SameTradeParams(insert_proposal(g, id, params), g)
<1>1. g = [epoch |-> g.epoch, proposals |-> g.proposals,
           inserted |-> g.inserted, trade_params |-> g.trade_params,
           next_trade_params |-> g.next_trade_params,
           voting_power |-> g.voting_power, quorum |-> g.quorum]
  BY GovernanceFields
<1>2. \A before, after : SameTradeParams(adjust_voting_power(g, before, after), g)
  BY <1>1 DEF SameTradeParams, adjust_voting_power
<1>3. \A id, votes, next : SameTradeParams(SetVotes(g, id, votes, next), g)
  BY <1>1 DEF SameTradeParams, SetVotes
<1>4. \A id : SameTradeParams(remove_proposal(g, id), g)
  BY <1>1 DEF SameTradeParams, remove_proposal
<1>5. \A id, params : SameTradeParams(insert_proposal(g, id, params), g)
  BY <1>1 DEF SameTradeParams, insert_proposal
<1>6. QED BY <1>2, <1>3, <1>4, <1>5

(***************************************************************************)
(* adjust_vote on a refreshed account keeps trade_params.                   *)
(***************************************************************************)
LEMMA AdjustVoteKeepsTradeParams ==
    ASSUME NEW g, NEW a, VoteInv(g, a), NEW u \in Users, Current(g, a, u), NEW to,
           adjust_vote_completes(g, a[u].voted_proposal, to, a[u].active_stake)
    PROVE  SameTradeParams(adjust_vote(g, a[u].voted_proposal, to, a[u].active_stake), g)
<1> DEFINE from == a[u].voted_proposal
           stake == a[u].active_stake
           m == remove_vote(g, from, stake)
<1>1. IsGovernance(g)
  BY DEF VoteInv
<1>2. adjust_vote_completes(g, from, None, stake)
  BY DEF adjust_vote_completes
<1>3. IsGovernance(m)
  BY <1>2, RemoveVoteKeepsVoteInv DEF VoteInv
<1>4. SameTradeParams(m, g)
  BY <1>1, CallsKeepTradeParams DEF remove_vote, SameTradeParams
<1> HIDE DEF m
<1>5. SameTradeParams(add_vote(m, to, stake), m)
  BY <1>3, CallsKeepTradeParams DEF add_vote, SameTradeParams
<1>6. QED
  BY <1>4, <1>5 DEF adjust_vote, SameTradeParams, m

(***************************************************************************)
(* Every handler of the pool leaves the trade_params of the refreshed       *)
(* object, in the epoch of the chain.                                       *)
(***************************************************************************)
LEMMA HandlersKeepTradeParams ==
    ASSUME IInv, NEW u \in Users,
           \/ \E amount \in 1..Total(InitialDeep, N) : Stake(u, amount)
           \/ Unstake(u)
           \/ \E params \in TradeParams : Propose(u, params)
           \/ \E p \in Users : Vote(u, p)
           \/ Touch(u)
    PROVE  SameTradeParams(gov', G)
<1> DEFINE b0 == Refreshed(u)
           s == StakeOf(A(u))
<1>1. /\ VoteInv(G, b0) /\ G.epoch = epoch /\ Current(G, b0, u) /\ b0[u] = A(u)
      /\ PowerMatches(G, b0) /\ b0 \in [Users -> Account] /\ IsGovernance(G)
  BY RefreshedState DEF VoteInv
<1> HIDE DEF b0
<1>2. ASSUME NEW amount, Stake(u, amount) PROVE SameTradeParams(gov', G)
  BY <1>1, <1>2, CallsKeepTradeParams DEF Stake
<1>3. ASSUME NEW p \in Users, Vote(u, p) PROVE SameTradeParams(gov', G)
  <2>1. /\ adjust_vote_completes(G, b0[u].voted_proposal, p, b0[u].active_stake)
        /\ gov' = adjust_vote(G, b0[u].voted_proposal, p, b0[u].active_stake)
    BY <1>1, <1>3 DEF Vote, VoteCompletes
  <2>2. QED BY <1>1, <2>1, AdjustVoteKeepsTradeParams
<1>4. ASSUME Unstake(u) PROVE SameTradeParams(gov', G)
  <2> DEFINE h == adjust_voting_power(G, s, 0)
  <2>1. SameTradeParams(h, G)
    BY <1>1, CallsKeepTradeParams
  <2>2. VoteInv(h, b0) /\ h.epoch = G.epoch /\ h.proposals = G.proposals
    <3>1. /\ s \in Nat /\ 0 \in Nat /\ stake_to_voting_power(0) = 0
          /\ G.voting_power \in Nat /\ stake_to_voting_power(s) <= G.voting_power
      <4>1. StakeOf(b0[u]) \in Nat
        BY <1>1, AccountFields
      <4>2. stake_to_voting_power(s) <= G.voting_power
        BY <1>4 DEF Unstake, UnstakeCompletes
      <4>3. QED BY <1>1, <4>1, <4>2, PowerType, GovernanceFields
    <3> HIDE DEF s
    <3>2. stake_to_voting_power(s) <= G.voting_power + stake_to_voting_power(0)
      BY <3>1
    <3>3. QED BY <1>1, <3>1, <3>2, AdjustPowerKeepsVoteInv
  <2>3. gov' = adjust_vote(h, A(u).voted_proposal, None, A(u).active_stake)
    BY <1>4 DEF Unstake
  <2> HIDE DEF h
  <2>4. /\ adjust_vote_completes(h, b0[u].voted_proposal, None, b0[u].active_stake)
        /\ Current(h, b0, u)
    BY <1>1, <1>4, <2>2 DEF Unstake, UnstakeCompletes, adjust_vote_completes, Current
  <2>5. SameTradeParams(adjust_vote(h, b0[u].voted_proposal, None, b0[u].active_stake), h)
    BY <2>2, <2>4, AdjustVoteKeepsTradeParams
  <2>6. QED BY <1>1, <2>1, <2>3, <2>5 DEF SameTradeParams
<1>5. ASSUME NEW params \in TradeParams, Propose(u, params) PROVE SameTradeParams(gov', G)
  <2> DEFINE b1 == SetCreated(b0, u)
             power == stake_to_voting_power(A(u).active_stake)
  <2>1. PICK g \in add_proposal(G, params, A(u).active_stake, u) :
           /\ adjust_vote_completes(g, A(u).voted_proposal, u, A(u).active_stake)
           /\ gov' = adjust_vote(g, A(u).voted_proposal, u, A(u).active_stake)
    BY <1>5 DEF Propose, VoteCompletes
  <2>2. PICK m \in MakeRoom(G, power) : g = insert_proposal(m, u, params)
    BY <2>1 DEF add_proposal
  <2>3. ~ A(u).created_proposal /\ params \in Params
    BY <1>5, GovernanceAssumption DEF Propose
  <2> HIDE DEF power
  <2>4. VoteInv(m, b0) /\ m.epoch = epoch
    BY <1>1, MakeRoomKeepsVoteInv
  <2>5. SameTradeParams(m, G)
    BY <1>1, CallsKeepTradeParams DEF MakeRoom, SameTradeParams
  <2>6. VoteInv(g, b1) /\ g.epoch = epoch
    <3>1. Current(m, b0, u) /\ ~ b0[u].created_proposal
      BY <1>1, <2>3, <2>4 DEF Current
    <3>2. /\ VoteInv(insert_proposal(m, u, params), SetCreated(b0, u))
          /\ insert_proposal(m, u, params).epoch = m.epoch
      BY <2>3, <2>4, <3>1, InsertKeepsVoteInv
    <3>3. QED BY <2>2, <2>4, <3>2
  <2>7. SameTradeParams(g, m)
    BY <2>2, <2>4, CallsKeepTradeParams DEF VoteInv
  <2>8. /\ b1[u].voted_proposal = A(u).voted_proposal
        /\ b1[u].active_stake = A(u).active_stake /\ b1[u].epoch = epoch
    <3>1. A(u).epoch = epoch /\ A(u) \in Account
      BY RefreshedState
    <3>2. b1[u] = [A(u) EXCEPT !.created_proposal = TRUE]
      BY <1>1 DEF SetCreated
    <3>3. QED BY <3>1, <3>2 DEF Account
  <2> HIDE DEF b1
  <2>9. /\ Current(g, b1, u)
        /\ adjust_vote_completes(g, b1[u].voted_proposal, u, b1[u].active_stake)
        /\ gov' = adjust_vote(g, b1[u].voted_proposal, u, b1[u].active_stake)
    BY <2>1, <2>6, <2>8 DEF Current
  <2>10. SameTradeParams(gov', g)
    BY <2>6, <2>9, AdjustVoteKeepsTradeParams
  <2>11. QED BY <2>5, <2>7, <2>10 DEF SameTradeParams
<1>6. CASE Touch(u)
  BY <1>6 DEF Touch, SameTradeParams
<1>7. QED
  BY <1>2, <1>3, <1>4, <1>5, <1>6

(***************************************************************************)
(* A step of Governance is a step of EpochParams, or changes nothing there. *)
(***************************************************************************)
LEMMA StepImplements == IInv /\ IInv' /\ [Next]_vars => [EP!Next]_(EP!vars)
<1> SUFFICES ASSUME IInv, IInv', [Next]_vars PROVE [EP!Next]_(EP!vars)
  OBVIOUS
<1>1. ASSUME NEW u \in Users,
             \/ \E amount \in 1..Total(InitialDeep, N) : Stake(u, amount)
             \/ Unstake(u)
             \/ \E params \in TradeParams : Propose(u, params)
             \/ \E p \in Users : Vote(u, p)
             \/ Touch(u)
      PROVE  EP!Next
  <2>1. gov'.trade_params = G.trade_params
    BY <1>1, HandlersKeepTradeParams DEF SameTradeParams
  <2>2. epoch' = epoch
    BY <1>1 DEF Stake, Unstake, Propose, Vote, Touch
  <2>3. gov'.epoch = epoch
    <3>1. gov'.epoch = G.epoch
      <4>1. CASE \E params \in TradeParams : Propose(u, params)
        BY <4>1, ProposeResult, RefreshedState
      <4>2. CASE ~ \E params \in TradeParams : Propose(u, params)
        BY <1>1, <4>2, OtherHandlersKeepProposals
      <4>3. QED BY <4>1, <4>2
    <3>2. G.epoch = epoch
      BY RefreshedState
    <3>3. QED BY <3>1, <3>2
  <2>4. gov'.next_trade_params \in Params
    BY GovernanceFields DEF IInv, TypeOK
  <2>5. G.trade_params = EP!Updated.trade_params
        /\ EP!Updated = [epoch |-> epoch, trade_params |-> G.trade_params,
                         next_trade_params |-> EP!Updated.next_trade_params]
    BY DEF G, update, EP!Updated
  <2>6. QED
    BY <2>1, <2>2, <2>3, <2>4, <2>5 DEF EP!Next, EP!Handler
<1>2. CASE NextEpoch
  BY <1>2 DEF NextEpoch, EP!Next, EP!NextEpoch
<1>3. CASE UNCHANGED vars
  BY <1>3 DEF vars, EP!vars
<1>4. QED
  BY <1>1, <1>2, <1>3 DEF Next

(***************************************************************************)
(* Governance implements EpochParams: the fees of an epoch are fixed when   *)
(* the epoch starts, whatever stakers do and whoever calls the pool first.  *)
(***************************************************************************)
THEOREM GovernanceImplements == Spec => ImplementsEpochParams
<1>1. Init => EP!Init
  <2> SUFFICES ASSUME Init PROVE EP!Init
    OBVIOUS
  <2>1. DefaultParams(kind) \in Params
    BY GovernanceAssumption DEF Init, DefaultParams, Params, PoolKinds
  <2>2. QED
    BY <2>1 DEF Init, empty, EP!Init
<1>2. QED
  BY <1>1, Invariance, StepImplements, PTL DEF Spec, ImplementsEpochParams, EP!Spec
=============================================================================
