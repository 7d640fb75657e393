--------------------------- MODULE HistoryProofs ---------------------------
(***************************************************************************)
(* Proofs about rebates and the DEEP to burn, for any number of balance     *)
(* managers, epochs and trades, any fees, stakes and requirements.          *)
(*                                                                          *)
(* Fees of the epoch that History is in belong to nobody yet.  When it      *)
(* closes, they become shares of the accounts that were last touched in it; *)
(* a share then waits, unchanged, until its account is refreshed, and is    *)
(* granted or burned.  The invariant follows the fees through these three   *)
(* states.                                                                  *)
(***************************************************************************)
EXTENDS History, ArithmeticLemmas

(* What median returns is a u128.  It is a recursive function of a vector.  *)
MedianIsNatural == \A v \in [1..PhaseOutEpochs -> Nat] : median(v) \in Nat

Epochs == FirstEpoch..MaxEpoch

-----------------------------------------------------------------------------
(* The inductive invariant, as a predicate of a history h, accounts a,      *)
(* shares sh and a vault v, so that it can be said of the objects in the    *)
(* middle of a handler.                                                     *)

HistoryOK(h) ==
    /\ h \in [epoch : Epochs, volumes : Volumes, historic_volumes : {h.historic_volumes},
              balance_to_burn : Nat]
    /\ h.epoch \in DOMAIN h.historic_volumes
    /\ \A e \in DOMAIN h.historic_volumes :
          e \in Epochs /\ e <= h.epoch /\ h.historic_volumes[e] \in Volumes

(* The volumes of epoch e, the current one or a closed one.                 *)
VolumesOf(h, e) == IF e = h.epoch THEN h.volumes ELSE h.historic_volumes[e]

(* An account comes from an epoch that is recorded with its volume.         *)
AccountOK(h, c) ==
    /\ c \in Account
    /\ c.epoch \in DOMAIN h.historic_volumes
    /\ c.maker_volume <= VolumesOf(h, c.epoch).total_volume

AccountsOK(h, a) == a \in [Users -> Account] /\ \A u \in Users : AccountOK(h, a[u])

(* The volume of c that counts as staked in the current epoch.              *)
StakedVolume(h, c) ==
    IF /\ c.epoch = h.epoch /\ c.active_stake > 0
       /\ c.active_stake >= h.volumes.stake_required
    THEN c.maker_volume
    ELSE 0

StakedOK(h, a) ==
    Total([u \in Users |-> StakedVolume(h, a[u])], N) <= h.volumes.total_staked_volume

(* The share of c in the fees of its epoch, once that is closed.            *)
Due(h, c) == c.epoch # h.epoch /\ c.epoch > 0 /\ c.maker_volume > 0 /\ c.active_stake > 0

Share(h, c, x) ==
    IF Due(h, c)
    THEN calculate_rebate_amount(h, c)[x] + (IF x = "deep" THEN maker_burn(h, c) ELSE 0)
    ELSE 0

ShareIn(h, c, e, x) == IF c.epoch = e THEN Share(h, c, x) ELSE 0

SharesIn(h, a, e, x) == [u \in Users |-> ShareIn(h, a[u], e, x)]

(* What was granted or burned of a closed epoch and the shares to come are  *)
(* within its fees; of the current epoch nothing was granted.               *)
SharesOK(h, a, sh) ==
    /\ sh \in [Epochs -> BalanceSheets]
    /\ \A e \in DOMAIN h.historic_volumes, x \in Assets :
          e < h.epoch =>
             sh[e][x] + Total(SharesIn(h, a, e, x), N)
                <= h.historic_volumes[e].total_fees_collected[x]
    /\ \A e \in Epochs, x \in Assets : h.epoch <= e => sh[e][x] = 0

(* What account c can claim, or will be able to.                            *)
Claim(h, c, x) ==
    c.unclaimed_rebates[x] + Share(h, c, x)
      + (IF x = "deep" THEN c.active_stake + c.inactive_stake ELSE 0)

Claims(h, a, x) == [u \in Users |-> Claim(h, a[u], x)]

ToBurn(h, x) == IF x = "deep" THEN h.balance_to_burn ELSE 0

(* The vault covers the claims, the DEEP to burn and the current fees.      *)
Covered(h, a, v) ==
    /\ v \in BalanceSheets
    /\ \A x \in Assets :
          Total(Claims(h, a, x), N) + ToBurn(h, x) + h.volumes.total_fees_collected[x] <= v[x]

Sound(h, a, sh, v) ==
    /\ HistoryOK(h) /\ AccountsOK(h, a) /\ StakedOK(h, a)
    /\ SharesOK(h, a, sh) /\ Covered(h, a, v)

IInv ==
    /\ epoch \in Epochs /\ history.epoch <= epoch
    /\ gov \in [epoch : Nat, stake_required : Nat, next_stake_required : Nat]
    /\ Sound(history, accounts, shares, vault)

-----------------------------------------------------------------------------
(* Shares. *)

(* The rebate percentage is one (maker_rebate_percentage).                  *)
LEMMA Percentage ==
    ASSUME NEW v \in Volumes, NEW n \in Nat, n <= v.total_volume
    PROVE  maker_rebate_percentage(v, n) \in Nat /\ maker_rebate_percentage(v, n) <= Scale
<1> DEFINE others == div(v.total_volume - n, v.historic_median)
<1>1. /\ v.total_volume - n \in Nat /\ v.historic_median \in Nat
      /\ Scale \in Nat
  BY ScaleAssumption DEF Volumes
<1>2. CASE v.historic_median = 0
  BY <1>1, <1>2 DEF maker_rebate_percentage
<1>3. CASE v.historic_median # 0
  <2>1. others \in Nat
    BY <1>1, <1>3, DivBounds
  <2>2. maker_rebate_percentage(v, n) = IF others < Scale THEN Scale - others ELSE 0
    BY <1>3 DEF maker_rebate_percentage
  <2> HIDE DEF others
  <2> QED BY <1>1, <2>1, <2>2
<1> QED BY <1>2, <1>3

(* The proportion is a number (maker_volume_proportion).                    *)
LEMMA Proportion ==
    ASSUME NEW v \in Volumes, NEW n \in Nat
    PROVE  /\ maker_volume_proportion(v, n) \in Nat
           /\ maker_volume_proportion(v, n) * v.total_staked_volume <= n * Scale
<1>1. v.total_staked_volume \in Nat /\ Scale \in Nat
  BY ScaleAssumption DEF Volumes
<1>2. CASE v.total_staked_volume = 0
  <2>1. maker_volume_proportion(v, n) = 0
    BY <1>2 DEF maker_volume_proportion
  <2> QED BY <1>1, <1>2, <2>1, TimesNat
<1>3. CASE v.total_staked_volume # 0
  BY <1>1, <1>3, DivBounds DEF maker_volume_proportion
<1> QED BY <1>2, <1>3

(* What an account is granted is a sheet, within what its epoch holds for   *)
(* it, and the rest of the DEEP is burned (calculate_rebate_amount).        *)
LEMMA Rebate ==
    ASSUME NEW h, HistoryOK(h), NEW c, AccountOK(h, c), c.epoch # h.epoch
    PROVE  /\ max_rebates(h, c) \in BalanceSheets
           /\ calculate_rebate_amount(h, c) \in BalanceSheets
           /\ \A x \in Assets : calculate_rebate_amount(h, c)[x] <= max_rebates(h, c)[x]
           /\ maker_burn(h, c) \in Nat
           /\ maker_burn(h, c) = max_rebates(h, c)["deep"] - calculate_rebate_amount(h, c)["deep"]
<1> DEFINE v == h.historic_volumes[c.epoch]
           p == maker_volume_proportion(v, c.maker_volume)
           q == maker_rebate_percentage(v, c.maker_volume)
           m == max_rebates(h, c)
           r == calculate_rebate_amount(h, c)
<1>1. /\ v \in Volumes /\ c.maker_volume \in Nat /\ c.maker_volume <= v.total_volume
      /\ v.total_fees_collected \in BalanceSheets
  BY DEF HistoryOK, AccountOK, VolumesOf, Account, Volumes
<1>2. p \in Nat
  BY <1>1, Proportion
<1>3. q \in Nat /\ q <= Scale
  BY <1>1, Percentage
<1>4. m \in BalanceSheets
  BY <1>1, <1>2, MulSheet, NothingSheet DEF max_rebates
<1>5. r \in BalanceSheets /\ \A x \in Assets : r[x] = mul(m[x], q)
  BY <1>3, <1>4, MulSheet DEF calculate_rebate_amount
<1>6. \A x \in Assets : r[x] <= m[x]
  <2> TAKE x \in Assets
  <2>1. m[x] \in Nat
    BY <1>4 DEF BalanceSheets
  <2>2. mul(m[x], q) <= m[x]
    BY <1>3, <2>1, MulAtMostWhole
  <2> QED BY <1>5, <2>2
<1>7. maker_burn(h, c) = m["deep"] - r["deep"]
  BY DEF maker_burn
<1>8. "deep" \in Assets /\ m["deep"] \in Nat /\ r["deep"] \in Nat
  BY <1>4, <1>5 DEF BalanceSheets, Assets
<1> HIDE DEF m, r
<1>9. r["deep"] <= m["deep"]
  BY <1>6, <1>8
<1>10. maker_burn(h, c) \in Nat
  BY <1>7, <1>8, <1>9
<1> QED BY <1>4, <1>5, <1>6, <1>7, <1>10 DEF m, r

(* A share is a number, and at most what the epoch holds for the account.   *)
LEMMA ShareBound ==
    ASSUME NEW h, HistoryOK(h), NEW c, AccountOK(h, c), NEW x \in Assets
    PROVE  /\ Share(h, c, x) \in Nat
           /\ Due(h, c) => Share(h, c, x) <= max_rebates(h, c)[x]
<1>1. CASE ~ Due(h, c)
  BY <1>1 DEF Share
<1>2. CASE Due(h, c)
  <2> DEFINE m == max_rebates(h, c)[x]
             r == calculate_rebate_amount(h, c)[x]
  <2>1. c.epoch # h.epoch
    BY <1>2 DEF Due
  <2>2. m \in Nat /\ r \in Nat /\ r <= m
    BY <2>1, Rebate DEF BalanceSheets
  <2>3. maker_burn(h, c) \in Nat /\ (x = "deep" => maker_burn(h, c) = m - r)
    BY <2>1, Rebate
  <2>4. Share(h, c, x) = r + (IF x = "deep" THEN maker_burn(h, c) ELSE 0)
    BY <1>2 DEF Share
  <2> HIDE DEF m, r
  <2>5. Share(h, c, x) \in Nat /\ Share(h, c, x) <= m
    BY <2>2, <2>3, <2>4
  <2> QED BY <2>5 DEF m
<1> QED BY <1>1, <1>2

(* A share is in proportion to the volume, rounded down twice (max_rebates).*)
LEMMA InProportion ==
    ASSUME NEW v \in Volumes, NEW fee \in Nat, NEW n \in Nat
    PROVE  mul(fee, maker_volume_proportion(v, n)) * v.total_staked_volume <= fee * n
<1> DEFINE p == maker_volume_proportion(v, n)
           m == mul(fee, p)
           s == v.total_staked_volume
<1>1. p \in Nat /\ p * s <= n * Scale /\ s \in Nat /\ Scale \in Nat \ {0}
  BY Proportion, ScaleAssumption DEF Volumes
<1>2. m \in Nat /\ m * Scale <= fee * p
  BY <1>1, MulBounds
<1> HIDE DEF p, m, s
<1>3. (m * Scale) * s <= (fee * p) * s
  BY <1>1, <1>2, TimesMonotone, TimesNat
<1>4. (fee * p) * s = fee * (p * s) /\ (m * Scale) * s = (m * s) * Scale
  BY <1>1, <1>2, TimesReorder
<1>5. fee * (p * s) <= fee * (n * Scale)
  BY <1>1, TimesMonotone, TimesNat
<1>6. fee * (n * Scale) = (fee * n) * Scale
  BY <1>1, TimesReorder
<1>7. /\ m * s \in Nat /\ fee * n \in Nat /\ (m * s) * Scale \in Nat
      /\ (fee * n) * Scale \in Nat /\ fee * (p * s) \in Nat
  BY <1>1, <1>2, TimesNat
<1>8. (m * s) * Scale <= (fee * n) * Scale
  BY <1>3, <1>4, <1>5, <1>6, <1>7
<1>9. m * s <= fee * n
  BY <1>1, <1>7, <1>8, TimesCancel
<1> QED BY <1>9 DEF m, p, s

(* Shares in proportion to volumes that add up to at most s are together    *)
(* at most what is shared.                                                  *)
LEMMA ProportionsAddUp ==
    ASSUME N \in Nat, NEW fee \in Nat, NEW s \in Nat, NEW g, NEW w,
           \A u \in 1..N : g[u] \in Nat /\ w[u] \in Nat /\ g[u] * s <= fee * w[u],
           s = 0 => \A u \in 1..N : g[u] = 0,
           Total(w, N) <= s
    PROVE  Total(g, N) <= fee
<1>1. CASE s = 0
  <2>1. Total(g, N) = 0
    BY <1>1, TotalZero
  <2> QED BY <2>1
<1>2. CASE s # 0
  <2> DEFINE gs == [u \in 1..N |-> g[u] * s]
             wf == [u \in 1..N |-> w[u] * fee]
  <2>1. Total(gs, N) = Total(g, N) * s
    <3>1. \A u \in 1..N : g[u] \in Int /\ gs[u] = g[u] * s
      OBVIOUS
    <3> HIDE DEF gs
    <3> QED BY <3>1, TotalTimes
  <2>2. Total(wf, N) = Total(w, N) * fee
    <3>1. \A u \in 1..N : w[u] \in Int /\ wf[u] = w[u] * fee
      OBVIOUS
    <3> HIDE DEF wf
    <3> QED BY <3>1, TotalTimes
  <2>3. \A u \in 1..N : gs[u] \in Int /\ wf[u] \in Int /\ gs[u] <= wf[u]
    <3> TAKE u \in 1..N
    <3>1. gs[u] = g[u] * s /\ wf[u] = w[u] * fee
      OBVIOUS
    <3>2. w[u] * fee = fee * w[u] /\ g[u] * s \in Int /\ fee * w[u] \in Int
      BY TimesReorder
    <3> QED BY <3>1, <3>2
  <2>4. Total(gs, N) <= Total(wf, N)
    <3> HIDE DEF gs, wf
    <3> QED BY <2>3, TotalMonotone
  <2>5. Total(g, N) \in Nat /\ Total(w, N) \in Nat
    BY TotalNat
  <2>6. Total(w, N) * fee <= s * fee
    BY <2>5, TimesMonotone
  <2>7. s * fee = fee * s /\ fee * s \in Nat /\ Total(g, N) * s \in Nat /\ Total(w, N) * fee \in Nat
    BY <2>5, TimesReorder, TimesNat
  <2>8. Total(g, N) * s <= fee * s
    BY <2>1, <2>2, <2>4, <2>6, <2>7
  <2> QED BY <1>2, <2>5, <2>8, TimesCancel
<1> QED BY <1>1, <1>2

-----------------------------------------------------------------------------
(* An epoch closes (History.update). *)

(* A new epoch has no volume and no fees (NoVolumes).                       *)
LEMMA NoVolumesFields ==
    ASSUME NEW r \in Nat
    PROVE  /\ NoVolumes(r) \in Volumes
           /\ NoVolumes(r).total_volume = 0 /\ NoVolumes(r).total_staked_volume = 0
           /\ NoVolumes(r).stake_required = r
           /\ \A x \in Assets : NoVolumes(r).total_fees_collected[x] = 0
BY NothingSheet DEF NoVolumes, Volumes

(* The median is recorded with the volumes (update_historic_median).        *)
LEMMA MedianRecorded ==
    ASSUME HistoryAssumption, MedianIsNatural, NEW h, HistoryOK(h)
    PROVE  LET k == update_historic_median(h)
           IN  /\ k = [h EXCEPT !.volumes = k.volumes]
               /\ k.volumes \in Volumes
               /\ k.volumes.total_volume = h.volumes.total_volume
               /\ k.volumes.total_staked_volume = h.volumes.total_staked_volume
               /\ k.volumes.total_fees_collected = h.volumes.total_fees_collected
               /\ k.volumes.stake_required = h.volumes.stake_required
<1> DEFINE m == IF h.epoch - FirstEpoch < PhaseOutEpochs THEN MaxU128 ELSE median(PastVolumes(h))
           k == update_historic_median(h)
<1>1. PastVolumes(h) \in [1..PhaseOutEpochs -> Nat]
  <2>1. \A e \in DOMAIN h.historic_volumes : h.historic_volumes[e].total_volume \in Nat
    BY DEF HistoryOK, Volumes
  <2> QED BY <2>1 DEF PastVolumes
<1>2. m \in Nat
  BY <1>1 DEF MedianIsNatural, HistoryAssumption
<1>3. k = [h EXCEPT !.volumes.historic_median = m]
  BY DEF update_historic_median
<1>4. h \in [epoch : Epochs, volumes : Volumes, historic_volumes : {h.historic_volumes},
             balance_to_burn : Nat]
  BY DEF HistoryOK
<1> HIDE DEF m, k
<1>5. k = [h EXCEPT !.volumes = [h.volumes EXCEPT !.historic_median = m]]
  BY <1>3
<1>6. k.volumes = [h.volumes EXCEPT !.historic_median = m]
  BY <1>4, <1>5
<1>7. h.volumes \in Volumes
  BY <1>4
<1>8. k.volumes \in Volumes
      /\ k.volumes.total_volume = h.volumes.total_volume
      /\ k.volumes.total_staked_volume = h.volumes.total_staked_volume
      /\ k.volumes.total_fees_collected = h.volumes.total_fees_collected
      /\ k.volumes.stake_required = h.volumes.stake_required
  BY <1>2, <1>6, <1>7 DEF Volumes
<1> QED BY <1>5, <1>6, <1>8 DEF k

(* What is recorded when h moves on to epoch e.                             *)
LEMMA Closed ==
    ASSUME HistoryAssumption, MedianIsNatural, NEW h, HistoryOK(h),
           NEW r \in Nat, NEW e \in Epochs, h.epoch < e
    PROVE  LET k == update(h, r, e)
           IN  /\ HistoryOK(k) /\ k.epoch = e /\ k.volumes = NoVolumes(r)
               /\ k.balance_to_burn = h.balance_to_burn
               /\ DOMAIN k.historic_volumes = DOMAIN h.historic_volumes \cup {e}
               /\ \A d \in DOMAIN h.historic_volumes :
                     d # h.epoch => k.historic_volumes[d] = h.historic_volumes[d]
               /\ k.historic_volumes[h.epoch].total_volume = h.volumes.total_volume
               /\ k.historic_volumes[h.epoch].total_staked_volume = h.volumes.total_staked_volume
               /\ k.historic_volumes[h.epoch].total_fees_collected
                     = h.volumes.total_fees_collected
               /\ k.historic_volumes[h.epoch].stake_required = h.volumes.stake_required
<1> DEFINE m == update_historic_median(h)
           k == update(h, r, e)
           t == Recorded(Recorded(h.historic_volumes, h.epoch, m.volumes), e, NoVolumes(r))
<1>1. /\ h \in [epoch : Epochs, volumes : Volumes, historic_volumes : {h.historic_volumes},
                balance_to_burn : Nat]
      /\ h.epoch \in DOMAIN h.historic_volumes
      /\ \A d \in DOMAIN h.historic_volumes :
            d \in Epochs /\ d <= h.epoch /\ h.historic_volumes[d] \in Volumes
  BY DEF HistoryOK
<1>2. /\ m = [h EXCEPT !.volumes = m.volumes]
      /\ m.volumes \in Volumes
      /\ m.volumes.total_volume = h.volumes.total_volume
      /\ m.volumes.total_staked_volume = h.volumes.total_staked_volume
      /\ m.volumes.total_fees_collected = h.volumes.total_fees_collected
      /\ m.volumes.stake_required = h.volumes.stake_required
  BY MedianRecorded
<1>3. NoVolumes(r) \in Volumes
  BY NoVolumesFields
<1>4. /\ DOMAIN t = DOMAIN h.historic_volumes \cup {e}
      /\ \A d \in DOMAIN h.historic_volumes :
            d # h.epoch => t[d] = h.historic_volumes[d]
      /\ t[h.epoch] = m.volumes /\ t[e] = NoVolumes(r)
  <2>1. e \notin DOMAIN h.historic_volumes /\ e # h.epoch
    BY <1>1 DEF HistoryAssumption, Epochs
  <2> HIDE DEF m
  <2> QED BY <1>1, <2>1 DEF Recorded
<1>5. m \in [epoch : Epochs, volumes : Volumes, historic_volumes : {h.historic_volumes},
             balance_to_burn : Nat] /\ m.epoch = h.epoch
        /\ m.historic_volumes = h.historic_volumes /\ m.balance_to_burn = h.balance_to_burn
  <2> HIDE DEF m
  <2> QED BY <1>1, <1>2
<1>6. k = [m EXCEPT !.epoch = e, !.volumes = NoVolumes(r), !.historic_volumes = t]
  <2>1. h.epoch # e
    BY <1>1 DEF HistoryAssumption, Epochs
  <2>2. m.historic_volumes = h.historic_volumes
    BY <1>5
  <2> QED BY <2>1, <2>2 DEF update
<1> HIDE DEF m, k, t
<1>7. /\ k.epoch = e /\ k.volumes = NoVolumes(r) /\ k.historic_volumes = t
      /\ k.balance_to_burn = h.balance_to_burn
      /\ k \in [epoch : Epochs, volumes : Volumes, historic_volumes : {t}, balance_to_burn : Nat]
  BY <1>3, <1>5, <1>6
<1>8. \A d \in DOMAIN t : d \in Epochs /\ d <= e /\ t[d] \in Volumes
  <2> SUFFICES ASSUME NEW d \in DOMAIN t PROVE d \in Epochs /\ d <= e /\ t[d] \in Volumes
    OBVIOUS
  <2>1. CASE d = e
    BY <1>3, <1>4, <2>1 DEF HistoryAssumption, Epochs
  <2>2. CASE d # e
    <3>1. d \in DOMAIN h.historic_volumes
      BY <1>4, <2>2
    <3>2. d \in Epochs /\ d <= h.epoch /\ h.historic_volumes[d] \in Volumes
      BY <1>1, <3>1
    <3>3. d \in Int /\ h.epoch \in Int /\ e \in Int
      BY <1>1, <3>2 DEF HistoryAssumption, Epochs
    <3> QED BY <1>2, <1>4, <3>1, <3>2, <3>3
  <2> QED BY <2>1, <2>2
<1>9. HistoryOK(k)
  BY <1>4, <1>7, <1>8 DEF HistoryOK
<1> QED BY <1>2, <1>4, <1>7, <1>9 DEF k

(* A share depends on what is recorded of its epoch, and on nothing else.   *)
LEMMA SameShare ==
    ASSUME NEW h, NEW k, NEW c, c.epoch # h.epoch, c.epoch # k.epoch,
           k.historic_volumes[c.epoch] = h.historic_volumes[c.epoch]
    PROVE  /\ Due(k, c) <=> Due(h, c)
           /\ calculate_rebate_amount(k, c) = calculate_rebate_amount(h, c)
           /\ maker_burn(k, c) = maker_burn(h, c)
           /\ \A x \in Assets : Share(k, c, x) = Share(h, c, x)
<1>1. max_rebates(k, c) = max_rebates(h, c)
  BY DEF max_rebates
<1>2. calculate_rebate_amount(k, c) = calculate_rebate_amount(h, c)
  BY <1>1 DEF calculate_rebate_amount
<1>3. maker_burn(k, c) = maker_burn(h, c)
  BY <1>1, <1>2 DEF maker_burn
<1>4. Due(k, c) <=> Due(h, c)
  BY DEF Due
<1> QED BY <1>2, <1>3, <1>4 DEF Share

(* Claims are numbers.                                                      *)
LEMMA ClaimNat ==
    ASSUME NEW h, HistoryOK(h), NEW c, AccountOK(h, c), NEW x \in Assets
    PROVE  Claim(h, c, x) \in Nat /\ c.unclaimed_rebates[x] \in Nat
<1>1. Share(h, c, x) \in Nat
  BY ShareBound
<1>2. c.unclaimed_rebates[x] \in Nat /\ c.active_stake \in Nat /\ c.inactive_stake \in Nat
  BY DEF AccountOK, Account, BalanceSheets
<1> QED BY <1>1, <1>2 DEF Claim

(* The shares of the epoch that closes are within its fees: only makers     *)
(* whose volume counted as staked have one (calculate_rebate_amount).       *)
LEMMA ClosingShares ==
    ASSUME HistoryAssumption, MedianIsNatural, NEW h, NEW a,
           HistoryOK(h), AccountsOK(h, a), StakedOK(h, a),
           NEW r \in Nat, NEW e \in Epochs, h.epoch < e, NEW x \in Assets,
           AccountsOK(update(h, r, e), a)
    PROVE  Total(SharesIn(update(h, r, e), a, h.epoch, x), N)
              <= h.volumes.total_fees_collected[x]
<1> DEFINE k == update(h, r, e)
           g == SharesIn(k, a, h.epoch, x)
           w == [u \in Users |-> StakedVolume(h, a[u])]
           v == k.historic_volumes[h.epoch]
           fee == h.volumes.total_fees_collected[x]
           s == h.volumes.total_staked_volume
<1>1. /\ HistoryOK(k) /\ k.epoch = e /\ v \in Volumes
      /\ v.total_staked_volume = s /\ v.total_fees_collected = h.volumes.total_fees_collected
      /\ v.stake_required = h.volumes.stake_required
  <2>1. /\ HistoryOK(k) /\ k.epoch = e
        /\ DOMAIN k.historic_volumes = DOMAIN h.historic_volumes \cup {e}
        /\ v.total_staked_volume = s /\ v.total_fees_collected = h.volumes.total_fees_collected
        /\ v.stake_required = h.volumes.stake_required
    BY Closed
  <2>2. h.epoch \in DOMAIN h.historic_volumes
    BY DEF HistoryOK
  <2>3. v \in Volumes
    BY <2>1, <2>2 DEF HistoryOK
  <2> QED BY <2>1, <2>3
<1>2. /\ h.volumes.total_fees_collected \in BalanceSheets /\ fee \in Nat /\ s \in Nat
      /\ h.volumes.stake_required \in Nat
  BY DEF HistoryOK, Volumes, BalanceSheets
<1>3. N \in Nat /\ Users = 1..N /\ h.epoch # e
  BY DEF HistoryAssumption, Users, HistoryOK, Epochs
<1> HIDE DEF k, v, fee, s
<1>4. ASSUME NEW u \in Users
      PROVE  /\ g[u] \in Nat /\ w[u] \in Nat /\ g[u] * s <= fee * w[u]
             /\ s = 0 => g[u] = 0
  <2> DEFINE c == a[u]
  <2>1. /\ AccountOK(h, c) /\ AccountOK(k, c) /\ c.maker_volume \in Nat /\ c.active_stake \in Nat
    BY DEF AccountsOK, AccountOK, Account, k
  <2>2. g[u] = ShareIn(k, c, h.epoch, x) /\ w[u] = StakedVolume(h, c)
    BY DEF SharesIn
  <2> HIDE DEF g, w, c
  <2>3. w[u] \in Nat
    BY <2>1, <2>2 DEF StakedVolume
  <2>4. Share(k, c, x) \in Nat /\ (Due(k, c) => Share(k, c, x) <= max_rebates(k, c)[x])
    BY <1>1, <2>1, ShareBound
  <2>5. CASE c.epoch # h.epoch \/ ~ Due(k, c)
    <3>1. g[u] = 0
      BY <2>2, <2>5 DEF ShareIn, Share
    <3>2. 0 * s = 0 /\ fee * w[u] \in Nat
      BY <1>2, <2>3, TimesNat
    <3> QED BY <2>3, <3>1, <3>2
  <2>6. CASE c.epoch = h.epoch /\ Due(k, c)
    <3>1. g[u] = Share(k, c, x) /\ g[u] \in Nat /\ g[u] <= max_rebates(k, c)[x]
      BY <2>2, <2>4, <2>6 DEF ShareIn
    <3>2. v = k.historic_volumes[c.epoch]
      BY <2>6 DEF v
    <3>3. CASE v.stake_required > c.active_stake
      <4>1. max_rebates(k, c)[x] = 0
        BY <3>2, <3>3, NothingSheet DEF max_rebates
      <4>2. g[u] = 0
        BY <3>1, <4>1
      <4>3. 0 * s = 0 /\ fee * w[u] \in Nat
        BY <1>2, <2>3, TimesNat
      <4> QED BY <2>3, <4>2, <4>3
    <3>4. CASE ~ (v.stake_required > c.active_stake)
      <4> DEFINE p == maker_volume_proportion(v, c.maker_volume)
      <4>1. p \in Nat
        BY <1>1, <2>1, Proportion
      <4>2. max_rebates(k, c)[x] = mul(fee, p)
        <5>1. max_rebates(k, c) = mul_balances(h.volumes.total_fees_collected, p)
          BY <1>1, <3>2, <3>4 DEF max_rebates
        <5> HIDE DEF p
        <5>2. mul_balances(h.volumes.total_fees_collected, p)[x]
                = mul(h.volumes.total_fees_collected[x], p)
          BY <1>2, <4>1, MulSheet
        <5> QED BY <5>1, <5>2 DEF fee
      <4>3. w[u] = c.maker_volume
        BY <1>1, <1>2, <2>1, <2>2, <2>6, <3>4 DEF StakedVolume, Due
      <4>4. mul(fee, p) * s <= fee * c.maker_volume
        BY <1>1, <1>2, <2>1, InProportion
      <4>5. mul(fee, p) \in Nat
        BY <1>2, <4>1, MulBounds
      <4>6. g[u] * s <= mul(fee, p) * s
        BY <1>2, <3>1, <4>2, <4>5, TimesMonotone
      <4>7. g[u] * s \in Nat /\ mul(fee, p) * s \in Nat /\ fee * c.maker_volume \in Nat
        BY <1>2, <2>1, <3>1, <4>5, TimesNat
      <4>8. g[u] * s <= fee * w[u]
        BY <4>3, <4>4, <4>6, <4>7
      <4>9. s = 0 => g[u] = 0
        <5> SUFFICES ASSUME s = 0 PROVE g[u] = 0
          OBVIOUS
        <5>1. p = 0
          BY <1>1 DEF maker_volume_proportion
        <5>2. mul(fee, 0) = 0
          BY <1>2, MulZero
        <5> QED BY <3>1, <4>2, <5>1, <5>2
      <4> QED BY <2>3, <3>1, <4>8, <4>9
    <3> QED BY <3>3, <3>4
  <2> QED BY <2>5, <2>6
<1>5. Total(w, N) <= s
  BY DEF StakedOK, s
<1> HIDE DEF g, w
<1>6. Total(g, N) <= fee
  BY <1>2, <1>3, <1>4, <1>5, ProportionsAddUp
<1> QED BY <1>6 DEF g, k, fee

(* The invariant holds when the epoch has closed.                           *)
LEMMA CloseSound ==
    ASSUME HistoryAssumption, MedianIsNatural, NEW h, NEW a, NEW sh, NEW v, Sound(h, a, sh, v),
           NEW r \in Nat, NEW e \in Epochs, h.epoch < e
    PROVE  Sound(update(h, r, e), a, sh, v)
<1> DEFINE k == update(h, r, e)
<1>1. /\ HistoryOK(k) /\ k.epoch = e /\ k.volumes = NoVolumes(r)
      /\ k.balance_to_burn = h.balance_to_burn
      /\ DOMAIN k.historic_volumes = DOMAIN h.historic_volumes \cup {e}
      /\ \A d \in DOMAIN h.historic_volumes :
            d # h.epoch => k.historic_volumes[d] = h.historic_volumes[d]
      /\ k.historic_volumes[h.epoch].total_volume = h.volumes.total_volume
      /\ k.historic_volumes[h.epoch].total_fees_collected = h.volumes.total_fees_collected
  BY Closed DEF Sound
<1>2. /\ HistoryOK(h) /\ AccountsOK(h, a) /\ StakedOK(h, a) /\ SharesOK(h, a, sh)
      /\ Covered(h, a, v)
  BY DEF Sound
<1>3. N \in Nat /\ Users = 1..N
  BY DEF HistoryAssumption, Users
<1>4. /\ h.epoch \in Epochs /\ Epochs \subseteq Int /\ e \in Int /\ h.epoch \in Int
      /\ \A d \in DOMAIN h.historic_volumes : d \in Epochs /\ d \in Int /\ d <= h.epoch /\ d # e
      /\ h.epoch \in DOMAIN h.historic_volumes
  BY <1>2 DEF HistoryOK, HistoryAssumption, Epochs
<1>5. /\ k.volumes.total_staked_volume = 0
      /\ \A x \in Assets : k.volumes.total_fees_collected[x] = 0
  BY <1>1, NoVolumesFields
<1> HIDE DEF k
<1>6. ASSUME NEW u \in Users
      PROVE  /\ AccountOK(h, a[u]) /\ AccountOK(k, a[u])
             /\ a[u].epoch \in DOMAIN h.historic_volumes /\ a[u].epoch # e
  <2>1. AccountOK(h, a[u])
    BY <1>2 DEF AccountsOK
  <2>2. a[u].epoch \in DOMAIN h.historic_volumes /\ a[u].epoch # e
    BY <1>4, <2>1 DEF AccountOK
  <2>3. VolumesOf(k, a[u].epoch).total_volume = VolumesOf(h, a[u].epoch).total_volume
    BY <1>1, <2>2 DEF VolumesOf
  <2>4. AccountOK(k, a[u])
    BY <1>1, <2>1, <2>2, <2>3 DEF AccountOK
  <2> QED BY <2>1, <2>2, <2>4
<1>7. AccountsOK(k, a)
  BY <1>2, <1>6 DEF AccountsOK
<1>8. StakedOK(k, a)
  <2> DEFINE w == [u \in Users |-> StakedVolume(k, a[u])]
  <2>1. \A u \in 1..N : w[u] = 0
    BY <1>1, <1>3, <1>6 DEF StakedVolume
  <2>2. Total(w, N) = 0
    <3> HIDE DEF w
    <3> QED BY <1>3, <2>1, TotalZero
  <2> QED BY <1>5, <2>2 DEF StakedOK
<1>9. ASSUME NEW x \in Assets
      PROVE  Total(SharesIn(k, a, h.epoch, x), N) <= h.volumes.total_fees_collected[x]
  BY <1>2, <1>7, ClosingShares DEF k
<1>10. ASSUME NEW u \in Users, NEW x \in Assets
       PROVE  /\ a[u].epoch # h.epoch => Share(k, a[u], x) = Share(h, a[u], x)
              /\ a[u].epoch = h.epoch => Share(h, a[u], x) = 0
  <2>1. CASE a[u].epoch = h.epoch
    BY <2>1 DEF Share, Due
  <2>2. CASE a[u].epoch # h.epoch
    <3>1. k.historic_volumes[a[u].epoch] = h.historic_volumes[a[u].epoch]
      BY <1>1, <1>6, <2>2
    <3>2. a[u].epoch # k.epoch
      BY <1>1, <1>6
    <3>3. Share(k, a[u], x) = Share(h, a[u], x)
      BY <2>2, <3>1, <3>2, SameShare
    <3> QED BY <2>2, <3>3
  <2> QED BY <2>1, <2>2
<1>11. SharesOK(k, a, sh)
  <2>1. sh \in [Epochs -> BalanceSheets]
    BY <1>2 DEF SharesOK
  <2>2. ASSUME NEW d \in DOMAIN k.historic_volumes, NEW x \in Assets, d < k.epoch
        PROVE  sh[d][x] + Total(SharesIn(k, a, d, x), N)
                 <= k.historic_volumes[d].total_fees_collected[x]
    <3>1. d \in DOMAIN h.historic_volumes
      BY <1>1, <1>4, <2>2
    <3>2. CASE d = h.epoch
      <4>1. sh[d][x] = 0
        BY <1>2, <1>4, <3>2 DEF SharesOK
      <4>2. Total(SharesIn(k, a, d, x), N) <= k.historic_volumes[d].total_fees_collected[x]
        BY <1>1, <1>9, <3>2
      <4>3. Total(SharesIn(k, a, d, x), N) \in Nat
        <5>1. \A u \in 1..N : SharesIn(k, a, d, x)[u] \in Nat
          <6> SUFFICES ASSUME NEW u \in Users PROVE ShareIn(k, a[u], d, x) \in Nat
            BY <1>3 DEF SharesIn
          <6>1. Share(k, a[u], x) \in Nat
            BY <1>1, <1>6, ShareBound
          <6> QED BY <6>1 DEF ShareIn
        <5> QED BY <1>3, <5>1, TotalNat
      <4> QED BY <4>1, <4>2, <4>3
    <3>3. CASE d # h.epoch
      <4>1. SharesIn(k, a, d, x) = SharesIn(h, a, d, x)
        <5>1. \A u \in Users : ShareIn(k, a[u], d, x) = ShareIn(h, a[u], d, x)
          BY <1>10, <3>3 DEF ShareIn
        <5> QED BY <5>1 DEF SharesIn
      <4>2. k.historic_volumes[d] = h.historic_volumes[d] /\ d < h.epoch
        BY <1>1, <1>4, <3>1, <3>3
      <4> QED BY <1>2, <3>1, <4>1, <4>2 DEF SharesOK
    <3> QED BY <3>2, <3>3
  <2>3. ASSUME NEW d \in Epochs, NEW x \in Assets, k.epoch <= d PROVE sh[d][x] = 0
    <3>1. h.epoch <= d
      BY <1>1, <1>4, <2>3
    <3> QED BY <1>2, <3>1 DEF SharesOK
  <2> QED BY <2>1, <2>2, <2>3 DEF SharesOK
<1>12. Covered(k, a, v)
  <2>1. v \in BalanceSheets
    BY <1>2 DEF Covered
  <2> SUFFICES ASSUME NEW x \in Assets
               PROVE  Total(Claims(k, a, x), N) + ToBurn(k, x)
                        + k.volumes.total_fees_collected[x] <= v[x]
    BY <2>1 DEF Covered
  <2> DEFINE f == Claims(h, a, x)
             g == SharesIn(k, a, h.epoch, x)
             t == Claims(k, a, x)
  <2>2. \A u \in 1..N : f[u] \in Nat /\ g[u] \in Nat /\ t[u] = f[u] + g[u]
    <3> SUFFICES ASSUME NEW u \in Users
                 PROVE  f[u] \in Nat /\ g[u] \in Nat /\ t[u] = f[u] + g[u]
      BY <1>3
    <3>1. f[u] = Claim(h, a[u], x) /\ g[u] = ShareIn(k, a[u], h.epoch, x)
            /\ t[u] = Claim(k, a[u], x)
      BY DEF Claims, SharesIn
    <3>2. Claim(h, a[u], x) \in Nat /\ a[u].unclaimed_rebates[x] \in Nat
      BY <1>2, <1>6, ClaimNat
    <3>3. Share(k, a[u], x) \in Nat /\ Share(h, a[u], x) \in Nat
      BY <1>1, <1>2, <1>6, ShareBound
    <3>4. a[u].active_stake \in Nat /\ a[u].inactive_stake \in Nat
      BY <1>6 DEF AccountOK, Account
    <3>5. /\ a[u].epoch # h.epoch => Share(k, a[u], x) = Share(h, a[u], x)
          /\ a[u].epoch = h.epoch => Share(h, a[u], x) = 0
      BY <1>10
    <3> QED BY <3>1, <3>2, <3>3, <3>4, <3>5 DEF Claim, ShareIn
  <2> HIDE DEF f, g, t
  <2>3. Total(t, N) = Total(f, N) + Total(g, N)
    BY <1>3, <2>2, TotalAdd
  <2>4. Total(f, N) \in Nat /\ Total(g, N) \in Nat
    BY <1>3, <2>2, TotalNat
  <2>5. Total(g, N) <= h.volumes.total_fees_collected[x]
    BY <1>9 DEF g
  <2>6. Total(f, N) + ToBurn(h, x) + h.volumes.total_fees_collected[x] <= v[x]
    BY <1>2 DEF Covered, f
  <2>7. ToBurn(k, x) = ToBurn(h, x) /\ ToBurn(h, x) \in Nat
    BY <1>1, <1>2 DEF ToBurn, HistoryOK
  <2>8. h.volumes.total_fees_collected[x] \in Nat /\ v[x] \in Nat
    BY <1>2, <2>1 DEF HistoryOK, Volumes, BalanceSheets
  <2>9. Total(t, N) + ToBurn(k, x) + k.volumes.total_fees_collected[x] <= v[x]
    BY <1>5, <2>3, <2>4, <2>5, <2>6, <2>7, <2>8
  <2> QED BY <2>9 DEF t
<1> QED BY <1>1, <1>7, <1>8, <1>11, <1>12 DEF Sound, k

-----------------------------------------------------------------------------
(* One account changes. *)

(* The invariant holds when one account, of the current epoch afterwards,   *)
(* takes no more of what the vault and the recorded fees hold than they     *)
(* leave it.                                                                *)
LEMMA OneAccount ==
    ASSUME HistoryAssumption, NEW h, NEW a, NEW sh, NEW v, Sound(h, a, sh, v),
           NEW k, NEW b, NEW th, NEW w, NEW u \in Users,
           HistoryOK(k), k.epoch = h.epoch, k.historic_volumes = h.historic_volumes,
           k.volumes.stake_required = h.volumes.stake_required,
           h.volumes.total_volume <= k.volumes.total_volume,
           b \in [Users -> Account], \A i \in Users : i # u => b[i] = a[i],
           b[u].epoch = h.epoch, b[u].maker_volume <= k.volumes.total_volume,
           StakedVolume(k, b[u]) - StakedVolume(h, a[u])
              <= k.volumes.total_staked_volume - h.volumes.total_staked_volume,
           th \in [Epochs -> BalanceSheets],
           \A e \in Epochs, x \in Assets : th[e][x] = sh[e][x] + ShareIn(h, a[u], e, x),
           w \in BalanceSheets,
           \A x \in Assets :
              Claim(k, b[u], x) + ToBurn(k, x) + k.volumes.total_fees_collected[x] - w[x]
                <= Claim(h, a[u], x) + ToBurn(h, x) + h.volumes.total_fees_collected[x] - v[x]
    PROVE  Sound(k, b, th, w)
<1>1. /\ HistoryOK(h) /\ AccountsOK(h, a) /\ StakedOK(h, a) /\ SharesOK(h, a, sh)
      /\ Covered(h, a, v)
  BY DEF Sound
<1>2. N \in Nat /\ Users = 1..N /\ u \in 1..N
  BY DEF HistoryAssumption, Users
<1>3. /\ h.epoch \in Int /\ h.epoch \in DOMAIN h.historic_volumes
      /\ \A d \in DOMAIN h.historic_volumes : d \in Epochs /\ d \in Int /\ d <= h.epoch
      /\ h.volumes.total_volume \in Nat /\ k.volumes.total_volume \in Nat
      /\ h.volumes.total_staked_volume \in Nat /\ k.volumes.total_staked_volume \in Nat
      /\ h.volumes.stake_required \in Nat
      /\ \A x \in Assets : h.volumes.total_fees_collected[x] \in Nat
                           /\ k.volumes.total_fees_collected[x] \in Nat
      /\ h.balance_to_burn \in Nat /\ k.balance_to_burn \in Nat
  <2>1. /\ h.epoch \in Epochs /\ h.epoch \in DOMAIN h.historic_volumes
        /\ DOMAIN h.historic_volumes \subseteq Epochs
        /\ \A d \in DOMAIN h.historic_volumes : d <= h.epoch
    BY <1>1 DEF HistoryOK
  <2>2. Epochs \subseteq Int
    BY DEF HistoryAssumption, Epochs
  <2>3. h.volumes \in Volumes /\ h.balance_to_burn \in Nat
    BY <1>1 DEF HistoryOK
  <2>4. k.volumes \in Volumes /\ k.balance_to_burn \in Nat
    BY DEF HistoryOK
  <2>5. ASSUME NEW q \in Volumes
        PROVE  /\ q.total_volume \in Nat /\ q.total_staked_volume \in Nat
               /\ q.stake_required \in Nat
               /\ \A x \in Assets : q.total_fees_collected[x] \in Nat
    <3>1. /\ q.total_volume \in Nat /\ q.total_staked_volume \in Nat
          /\ q.stake_required \in Nat /\ q.total_fees_collected \in BalanceSheets
      BY DEF Volumes
    <3> QED BY <3>1 DEF BalanceSheets
  <2>6. /\ \A x \in Assets : h.volumes.total_fees_collected[x] \in Nat
        /\ h.volumes.total_volume \in Nat /\ h.volumes.total_staked_volume \in Nat
        /\ h.volumes.stake_required \in Nat
    BY <2>3, <2>5
  <2>7. /\ \A x \in Assets : k.volumes.total_fees_collected[x] \in Nat
        /\ k.volumes.total_volume \in Nat /\ k.volumes.total_staked_volume \in Nat
    BY <2>4, <2>5
  <2>8. \A d \in DOMAIN h.historic_volumes : d \in Epochs /\ d \in Int /\ d <= h.epoch
    BY <2>1, <2>2
  <2>9. h.epoch \in Int
    BY <2>1, <2>2
  <2> QED BY <2>1, <2>3, <2>4, <2>6, <2>7, <2>8, <2>9
<1>4. ASSUME NEW i \in Users
      PROVE  AccountOK(h, a[i]) /\ AccountOK(k, b[i])
  <2>1. AccountOK(h, a[i])
    BY <1>1 DEF AccountsOK
  <2>2. CASE i = u
    BY <1>3, <2>1, <2>2 DEF AccountOK, VolumesOf
  <2>3. CASE i # u
    <3>1. VolumesOf(h, a[i].epoch).total_volume <= VolumesOf(k, a[i].epoch).total_volume
          /\ VolumesOf(h, a[i].epoch).total_volume \in Nat
          /\ VolumesOf(k, a[i].epoch).total_volume \in Nat
      BY <1>1, <1>3, <2>1 DEF AccountOK, VolumesOf, HistoryOK, Volumes
    <3>2. a[i].maker_volume \in Nat
      BY <2>1 DEF AccountOK, Account
    <3>3. b[i] = a[i]
      BY <2>3
    <3> QED BY <2>1, <3>1, <3>2, <3>3 DEF AccountOK
  <2> QED BY <2>1, <2>2, <2>3
<1>5. AccountsOK(k, b)
  BY <1>4 DEF AccountsOK
<1>6. ASSUME NEW i \in Users
      PROVE  /\ StakedVolume(h, a[i]) \in Nat /\ StakedVolume(k, b[i]) \in Nat
             /\ i # u => StakedVolume(k, b[i]) = StakedVolume(h, a[i])
  <2>1. a[i] \in Account /\ b[i] \in Account
    BY <1>4 DEF AccountOK
  <2> QED BY <2>1 DEF StakedVolume, Account
<1>7. StakedOK(k, b)
  <2> DEFINE f == [i \in Users |-> StakedVolume(h, a[i])]
             g == [i \in Users |-> StakedVolume(k, b[i])]
  <2>1. /\ OneChange(f, g, N, u)
        /\ f[u] = StakedVolume(h, a[u]) /\ g[u] = StakedVolume(k, b[u])
        /\ \A i \in 1..N : f[i] \in Nat /\ g[i] \in Nat
    BY <1>2, <1>6 DEF OneChange
  <2>2. Total(f, N) <= h.volumes.total_staked_volume
    BY <1>1 DEF StakedOK
  <2> HIDE DEF f, g
  <2>3. Total(g, N) = Total(f, N) + g[u] - f[u]
    BY <1>2, <2>1, TotalOneChange
  <2>4. Total(f, N) \in Nat /\ f[u] \in Nat /\ g[u] \in Nat
    BY <1>2, <2>1, TotalNat
  <2>5. g[u] - f[u] <= k.volumes.total_staked_volume - h.volumes.total_staked_volume
    BY <2>1
  <2>6. Total(g, N) <= k.volumes.total_staked_volume
    BY <1>3, <2>2, <2>3, <2>4, <2>5
  <2> QED BY <2>6 DEF StakedOK, g
<1>8. ASSUME NEW i \in Users, NEW x \in Assets
      PROVE  /\ Share(h, a[i], x) \in Nat
             /\ Share(k, b[i], x) = IF i = u THEN 0 ELSE Share(h, a[i], x)
  <2>1. Share(h, a[i], x) \in Nat
    BY <1>1, <1>4, ShareBound
  <2>2. CASE i = u
    BY <2>1, <2>2 DEF Share, Due
  <2>3. CASE i # u /\ a[i].epoch = h.epoch
    <3>1. Share(h, a[i], x) = 0 /\ Share(k, b[i], x) = 0
      BY <2>3 DEF Share, Due
    <3> QED BY <2>3, <3>1
  <2>4. CASE i # u /\ a[i].epoch # h.epoch
    <3>1. b[i] = a[i]
      BY <2>4
    <3>2. Share(k, a[i], x) = Share(h, a[i], x)
      BY <2>4, SameShare
    <3> QED BY <2>1, <2>4, <3>1, <3>2
  <2> QED BY <2>2, <2>3, <2>4
<1>9. SharesOK(k, b, th)
  <2>1. ASSUME NEW e \in DOMAIN k.historic_volumes, NEW x \in Assets, e < k.epoch
        PROVE  th[e][x] + Total(SharesIn(k, b, e, x), N)
                 <= k.historic_volumes[e].total_fees_collected[x]
    <3> DEFINE f == SharesIn(h, a, e, x)
               g == SharesIn(k, b, e, x)
    <3>1. \A i \in Users : /\ f[i] = ShareIn(h, a[i], e, x) /\ f[i] \in Nat
                           /\ g[i] = IF i = u THEN 0 ELSE f[i]
      <4> SUFFICES ASSUME NEW i \in Users
                   PROVE  /\ f[i] = ShareIn(h, a[i], e, x) /\ f[i] \in Nat
                          /\ g[i] = IF i = u THEN 0 ELSE f[i]
        OBVIOUS
      <4>1. f[i] = ShareIn(h, a[i], e, x) /\ g[i] = ShareIn(k, b[i], e, x)
        BY DEF SharesIn
      <4>2. CASE i = u
        BY <1>8, <4>1, <4>2 DEF ShareIn
      <4>3. CASE i # u
        <5>1. b[i] = a[i]
          BY <4>3
        <5> QED BY <1>8, <4>1, <4>3, <5>1 DEF ShareIn
      <4> QED BY <4>2, <4>3
    <3> HIDE DEF f, g
    <3>2. OneChange(f, g, N, u) /\ (\A i \in 1..N : f[i] \in Nat) /\ f[u] \in Nat /\ g[u] = 0
      BY <1>2, <3>1 DEF OneChange
    <3>3. Total(g, N) = Total(f, N) + g[u] - f[u]
      BY <1>2, <3>2, TotalOneChange
    <3>4. Total(f, N) \in Nat
      BY <1>2, <3>2, TotalNat
    <3>5. e \in Epochs /\ e \in DOMAIN h.historic_volumes /\ e < h.epoch
      BY <1>3, <2>1
    <3>6. sh[e][x] \in Nat /\ sh[e][x] + Total(f, N) <= h.historic_volumes[e].total_fees_collected[x]
      BY <1>1, <3>5 DEF SharesOK, BalanceSheets, f
    <3>7. th[e][x] = sh[e][x] + f[u]
      BY <3>1, <3>5
    <3>8. th[e][x] + Total(g, N) = sh[e][x] + Total(f, N)
      BY <3>2, <3>3, <3>4, <3>6, <3>7
    <3> QED BY <3>6, <3>8 DEF g
  <2>2. ASSUME NEW e \in Epochs, NEW x \in Assets, k.epoch <= e
        PROVE  th[e][x] = 0
    <3>1. sh[e][x] = 0
      BY <1>1, <2>2 DEF SharesOK
    <3>2. a[u].epoch \in DOMAIN h.historic_volumes
      BY <1>4 DEF AccountOK
    <3>3. e \in Int
      BY DEF HistoryAssumption, Epochs
    <3>4. ShareIn(h, a[u], e, x) = 0
      BY <1>3, <2>2, <3>2, <3>3 DEF ShareIn, Share, Due
    <3> QED BY <3>1, <3>4
  <2> QED BY <2>1, <2>2 DEF SharesOK
<1>10. Covered(k, b, w)
  <2> SUFFICES ASSUME NEW x \in Assets
               PROVE  Total(Claims(k, b, x), N) + ToBurn(k, x)
                        + k.volumes.total_fees_collected[x] <= w[x]
    BY DEF Covered
  <2> DEFINE f == Claims(h, a, x)
             g == Claims(k, b, x)
  <2>1. ASSUME NEW i \in Users
        PROVE  /\ f[i] = Claim(h, a[i], x) /\ g[i] = Claim(k, b[i], x)
               /\ f[i] \in Nat /\ g[i] \in Nat /\ (i # u => f[i] = g[i])
    <3>1. f[i] = Claim(h, a[i], x) /\ g[i] = Claim(k, b[i], x)
      BY DEF Claims
    <3>2. Claim(h, a[i], x) \in Nat /\ Claim(k, b[i], x) \in Nat
      BY <1>1, <1>4, ClaimNat
    <3>3. i # u => Claim(k, b[i], x) = Claim(h, a[i], x)
      BY <1>8 DEF Claim
    <3> QED BY <3>1, <3>2, <3>3
  <2> HIDE DEF f, g
  <2>2. OneChange(f, g, N, u) /\ (\A i \in 1..N : f[i] \in Nat) /\ f[u] \in Nat /\ g[u] \in Nat
    BY <1>2, <2>1 DEF OneChange
  <2>3. Total(g, N) = Total(f, N) + g[u] - f[u]
    BY <1>2, <2>2, TotalOneChange
  <2>4. Total(f, N) \in Nat
    BY <1>2, <2>2, TotalNat
  <2>5. Total(f, N) + ToBurn(h, x) + h.volumes.total_fees_collected[x] <= v[x]
    BY <1>1 DEF Covered, f
  <2>6. ToBurn(h, x) \in Nat /\ ToBurn(k, x) \in Nat
    BY <1>3 DEF ToBurn
  <2>7. v[x] \in Nat /\ w[x] \in Nat
    BY <1>1 DEF Covered, BalanceSheets
  <2>8. g[u] + ToBurn(k, x) + k.volumes.total_fees_collected[x] - w[x]
          <= f[u] + ToBurn(h, x) + h.volumes.total_fees_collected[x] - v[x]
    BY <2>1
  <2>9. h.volumes.total_fees_collected[x] \in Nat /\ k.volumes.total_fees_collected[x] \in Nat
    BY <1>3
  <2>10. Total(g, N) + ToBurn(k, x) + k.volumes.total_fees_collected[x] <= w[x]
    BY <2>2, <2>3, <2>4, <2>5, <2>6, <2>7, <2>8, <2>9
  <2> QED BY <2>10 DEF g
<1> QED BY <1>5, <1>7, <1>9, <1>10 DEF Sound

-----------------------------------------------------------------------------
(* The parts of the state inside a handler, when History has caught up. *)

SoundState(s, v) ==
    /\ s = [history |-> s.history, accounts |-> s.accounts, shares |-> s.shares]
    /\ s.history.epoch = epoch
    /\ Sound(s.history, s.accounts, s.shares, v)

EntitledIn(s, u, x) ==
    s.accounts[u].unclaimed_rebates[x] + Rebates(s.history, s.accounts[u])[x]

(* From s to t no closed epoch is rewritten, and no account gains or loses  *)
(* rebates.                                                                 *)
Keeps(s, t) ==
    /\ t.history.historic_volumes = s.history.historic_volumes
    /\ \A u \in Users, x \in Assets : EntitledIn(t, u, x) = EntitledIn(s, u, x)

(* Calls that keep the rebates of every account may follow one another.     *)
LEMMA KeepsTransitive ==
    ASSUME NEW s, NEW t, NEW r, Keeps(s, t), Keeps(t, r)
    PROVE  Keeps(s, r)
BY DEF Keeps

(* Rebates depend on the closed epochs and the account.                     *)
LEMMA SameRebates ==
    ASSUME NEW h, NEW k, NEW c, k.historic_volumes = h.historic_volumes
    PROVE  Rebates(k, c) = Rebates(h, c)
BY DEF Rebates, calculate_rebate_amount, max_rebates

(* What refreshing an account grants and burns is its share.                *)
LEMMA Granted ==
    ASSUME NEW s, NEW v, SoundState(s, v), NEW u \in Users
    PROVE  LET h == s.history
               c == s.accounts[u]
           IN  /\ RebateDue(c) <=> Due(h, c)
               /\ Rebates(h, c) \in BalanceSheets /\ Burn(h, c) \in Nat
               /\ \A x \in Assets :
                     Share(h, c, x)
                       = Rebates(h, c)[x] + (IF x = "deep" THEN Burn(h, c) ELSE 0)
<1> DEFINE h == s.history
           c == s.accounts[u]
<1>1. HistoryOK(h) /\ AccountOK(h, c) /\ h.epoch = epoch
  BY DEF SoundState, Sound, AccountsOK
<1> HIDE DEF h, c
<1>2. RebateDue(c) <=> Due(h, c)
  BY <1>1 DEF RebateDue, Due
<1>3. CASE ~ Due(h, c)
  <2>1. Rebates(h, c) = Nothing /\ Burn(h, c) = 0 /\ \A x \in Assets : Share(h, c, x) = 0
    BY <1>2, <1>3 DEF Rebates, Burn, Share
  <2>2. \A x \in Assets : Nothing[x] = 0 /\ Nothing \in BalanceSheets
    BY NothingSheet
  <2> QED BY <1>2, <2>1, <2>2, NothingSheet DEF h, c
<1>4. CASE Due(h, c)
  <2>1. c.epoch # h.epoch
    BY <1>4 DEF Due
  <2>2. calculate_rebate_amount(h, c) \in BalanceSheets /\ maker_burn(h, c) \in Nat
    BY <1>1, <2>1, Rebate
  <2>3. Rebates(h, c) = calculate_rebate_amount(h, c) /\ Burn(h, c) = maker_burn(h, c)
    BY <1>2, <1>4 DEF Rebates, Burn
  <2>4. \A x \in Assets :
           Share(h, c, x) = Rebates(h, c)[x] + (IF x = "deep" THEN Burn(h, c) ELSE 0)
    BY <1>4, <2>3 DEF Share
  <2> QED BY <1>2, <2>2, <2>3, <2>4 DEF h, c
<1> QED BY <1>3, <1>4

(* An account of the current epoch has no rebate to come.                   *)
LEMMA NothingDue ==
    ASSUME NEW h, NEW c, c.epoch = epoch, NEW x \in Assets
    PROVE  Rebates(h, c)[x] = 0
BY NothingSheet DEF Rebates, RebateDue

(* Refreshing an account grants its share, and disturbs nothing else        *)
(* (Account.update, State.update_account).                                  *)
LEMMA Refresh ==
    ASSUME HistoryAssumption, NEW s, NEW v, SoundState(s, v), NEW u \in Users
    PROVE  LET t == update_account(s, u)
           IN  SoundState(t, v) /\ Keeps(s, t) /\ t.accounts[u].epoch = epoch
<1> DEFINE h == s.history
           a == s.accounts
           c == a[u]
           sh == s.shares
           t == update_account(s, u)
<1>1. CASE c.epoch = epoch
  <2>1. t = s
    BY <1>1 DEF update_account
  <2> HIDE DEF t
  <2> QED BY <1>1, <2>1 DEF Keeps, t
<1>2. CASE c.epoch # epoch
  <2> DEFINE r == Rebates(h, c)
             n == Burn(h, c)
             k == [h EXCEPT !.balance_to_burn = @ + n]
             d == [epoch |-> epoch, maker_volume |-> 0,
                   active_stake |-> c.active_stake + c.inactive_stake, inactive_stake |-> 0,
                   unclaimed_rebates |-> add_balances(c.unclaimed_rebates, r)]
             b == [a EXCEPT ![u] = d]
             g == [r EXCEPT !.deep = @ + n]
             th == IF RebateDue(c) THEN [sh EXCEPT ![c.epoch] = add_balances(@, g)] ELSE sh
  <2>1. t = [history |-> k, accounts |-> b, shares |-> th]
    BY <1>2 DEF update_account
  <2>2. /\ Sound(h, a, sh, v) /\ HistoryOK(h) /\ AccountOK(h, c) /\ h.epoch = epoch
        /\ a \in [Users -> Account] /\ sh \in [Epochs -> BalanceSheets] /\ v \in BalanceSheets
    BY DEF SoundState, Sound, AccountsOK, SharesOK, Covered
  <2>3. /\ RebateDue(c) <=> Due(h, c)
        /\ r \in BalanceSheets /\ n \in Nat
        /\ \A x \in Assets : Share(h, c, x) = r[x] + (IF x = "deep" THEN n ELSE 0)
    BY Granted
  <2>4. /\ c \in Account /\ c.epoch \in Epochs /\ c.active_stake \in Nat
        /\ c.inactive_stake \in Nat /\ c.unclaimed_rebates \in BalanceSheets
    BY <2>2 DEF AccountOK, HistoryOK, Account
  <2>5. epoch \in Nat
    BY <2>2 DEF HistoryOK, HistoryAssumption, Epochs
  <2> HIDE DEF t, h, a, c, sh, r, n
  <2>6. /\ HistoryOK(k) /\ k.epoch = h.epoch /\ k.historic_volumes = h.historic_volumes
        /\ k.volumes = h.volumes /\ k.balance_to_burn = h.balance_to_burn + n
    BY <2>2, <2>3 DEF HistoryOK
  <2>7. /\ add_balances(c.unclaimed_rebates, r) \in BalanceSheets
        /\ \A x \in Assets :
              add_balances(c.unclaimed_rebates, r)[x] = c.unclaimed_rebates[x] + r[x]
    BY <2>3, <2>4, AddSheets
  <2>8. d \in Account
    BY <2>4, <2>5, <2>7 DEF Account
  <2>9. b \in [Users -> Account] /\ b[u] = d /\ \A i \in Users : i # u => b[i] = a[i]
    BY <2>2, <2>8
  <2>10. \A x \in Assets : g[x] = Share(h, c, x)
    BY <2>3 DEF BalanceSheets, Assets
  <2>11. g \in BalanceSheets
    BY <2>3 DEF BalanceSheets, Assets
  <2>12. /\ th \in [Epochs -> BalanceSheets]
         /\ \A e \in Epochs, x \in Assets : th[e][x] = sh[e][x] + ShareIn(h, c, e, x)
    <3>1. CASE RebateDue(c)
      <4>1. /\ add_balances(sh[c.epoch], g) \in BalanceSheets
            /\ \A x \in Assets : add_balances(sh[c.epoch], g)[x] = sh[c.epoch][x] + g[x]
        BY <2>2, <2>4, <2>11, AddSheets
      <4>2. th = [sh EXCEPT ![c.epoch] = add_balances(sh[c.epoch], g)]
        BY <3>1
      <4> HIDE DEF th, g
      <4>3. th \in [Epochs -> BalanceSheets]
        BY <2>2, <4>1, <4>2
      <4>4. ASSUME NEW e \in Epochs, NEW x \in Assets
            PROVE  th[e][x] = sh[e][x] + ShareIn(h, c, e, x)
        <5>1. sh[e][x] \in Nat
          BY <2>2 DEF BalanceSheets
        <5>2. CASE e = c.epoch
          BY <2>2, <2>10, <4>1, <4>2, <5>2 DEF ShareIn
        <5>3. CASE e # c.epoch
          BY <2>2, <4>2, <5>1, <5>3 DEF ShareIn
        <5> QED BY <5>2, <5>3
      <4> QED BY <4>3, <4>4
    <3>2. CASE ~ RebateDue(c)
      <4>1. th = sh
        BY <3>2
      <4>2. \A e \in Epochs, x \in Assets : ShareIn(h, c, e, x) = 0 /\ sh[e][x] \in Nat
        BY <2>2, <2>3, <3>2 DEF ShareIn, Share, BalanceSheets
      <4> HIDE DEF th
      <4> QED BY <2>2, <4>1, <4>2
    <3> QED BY <3>1, <3>2
  <2> HIDE DEF k, b, th
  <2>13. /\ d.epoch = epoch /\ d.maker_volume = 0 /\ d.inactive_stake = 0
         /\ d.active_stake = c.active_stake + c.inactive_stake
         /\ d.unclaimed_rebates = add_balances(c.unclaimed_rebates, r)
    OBVIOUS
  <2> HIDE DEF d
  <2>14. ASSUME NEW x \in Assets
         PROVE  Claim(k, b[u], x) + ToBurn(k, x) + k.volumes.total_fees_collected[x] - v[x]
                  <= Claim(h, c, x) + ToBurn(h, x) + h.volumes.total_fees_collected[x] - v[x]
    <3>1. Share(k, d, x) = 0
      BY <2>2, <2>6, <2>13 DEF Share, Due
    <3>2. /\ c.unclaimed_rebates[x] \in Nat /\ r[x] \in Nat /\ v[x] \in Nat
          /\ h.volumes.total_fees_collected[x] \in Nat /\ h.balance_to_burn \in Nat
      BY <2>2, <2>3, <2>4 DEF BalanceSheets, HistoryOK, Volumes
    <3>3. d.unclaimed_rebates[x] = c.unclaimed_rebates[x] + r[x]
      BY <2>7, <2>13
    <3>4. Share(h, c, x) = r[x] + (IF x = "deep" THEN n ELSE 0)
      BY <2>3
    <3>5. Claim(k, d, x) + ToBurn(k, x) = Claim(h, c, x) + ToBurn(h, x)
      BY <2>3, <2>4, <2>6, <2>13, <3>1, <3>2, <3>3, <3>4 DEF Claim, ToBurn
    <3>6. Claim(h, c, x) \in Nat /\ ToBurn(h, x) \in Nat
      BY <2>2, <3>2, ClaimNat DEF ToBurn
    <3> QED BY <2>6, <2>9, <3>2, <3>5, <3>6
  <2>15. Sound(k, b, th, v)
    <3>1. /\ h.volumes.total_volume \in Nat /\ h.volumes.total_staked_volume \in Nat
      BY <2>2 DEF HistoryOK, Volumes
    <3>2. StakedVolume(k, b[u]) = 0 /\ StakedVolume(h, c) = 0
      BY <1>2, <2>2, <2>6, <2>9, <2>13 DEF StakedVolume, c
    <3>3. /\ k.volumes.stake_required = h.volumes.stake_required
          /\ h.volumes.total_volume <= k.volumes.total_volume
          /\ b[u].epoch = h.epoch /\ b[u].maker_volume <= k.volumes.total_volume
          /\ StakedVolume(k, b[u]) - StakedVolume(h, c)
               <= k.volumes.total_staked_volume - h.volumes.total_staked_volume
      BY <2>2, <2>6, <2>9, <2>13, <3>1, <3>2
    <3> QED BY <2>2, <2>6, <2>9, <2>12, <2>14, <3>3, OneAccount DEF c
  <2>16. SoundState(t, v)
    BY <2>1, <2>2, <2>6, <2>15 DEF SoundState
  <2>17. Keeps(s, t)
    <3>1. t.history = k /\ t.accounts = b
      BY <2>1
    <3>2. ASSUME NEW i \in Users, NEW x \in Assets
          PROVE  EntitledIn(t, i, x) = EntitledIn(s, i, x)
      <4>1. EntitledIn(t, i, x) = b[i].unclaimed_rebates[x] + Rebates(k, b[i])[x]
            /\ EntitledIn(s, i, x) = a[i].unclaimed_rebates[x] + Rebates(h, a[i])[x]
        BY <3>1 DEF EntitledIn, a, h
      <4>2. CASE i # u
        BY <2>6, <2>9, <4>1, <4>2, SameRebates
      <4>3. CASE i = u
        <5>1. Rebates(k, d)[x] = 0
          BY <2>13, NothingDue
        <5>2. a[i] = c /\ b[i] = d
          BY <2>9, <4>3 DEF c
        <5>3. c.unclaimed_rebates[x] \in Nat /\ r[x] \in Nat
          BY <2>3, <2>4 DEF BalanceSheets
        <5> QED BY <2>7, <2>13, <4>1, <5>1, <5>2, <5>3 DEF r
      <4> QED BY <4>2, <4>3
    <3> QED BY <2>6, <3>1, <3>2 DEF Keeps, h
  <2>18. t.accounts[u].epoch = epoch
    BY <2>1, <2>9, <2>13
  <2> QED BY <2>16, <2>17, <2>18 DEF t
<1> QED BY <1>1, <1>2

-----------------------------------------------------------------------------
(* The other calls inside a handler. *)

(* The invariant holds when only fees, the DEEP to burn and the vault       *)
(* change, and the vault covers the change.                                 *)
LEMMA SameAccounts ==
    ASSUME HistoryAssumption, NEW h, NEW a, NEW sh, NEW v, Sound(h, a, sh, v),
           NEW k, NEW w, HistoryOK(k), k.epoch = h.epoch,
           k.historic_volumes = h.historic_volumes,
           k.volumes.total_volume = h.volumes.total_volume,
           k.volumes.total_staked_volume = h.volumes.total_staked_volume,
           k.volumes.stake_required = h.volumes.stake_required,
           w \in BalanceSheets,
           \A x \in Assets :
              ToBurn(k, x) + k.volumes.total_fees_collected[x] - w[x]
                <= ToBurn(h, x) + h.volumes.total_fees_collected[x] - v[x]
    PROVE  Sound(k, a, sh, w)
<1>1. /\ HistoryOK(h) /\ AccountsOK(h, a) /\ StakedOK(h, a) /\ SharesOK(h, a, sh)
      /\ Covered(h, a, v)
  BY DEF Sound
<1>2. N \in Nat /\ Users = 1..N
  BY DEF HistoryAssumption, Users
<1>3. \A c : VolumesOf(k, c.epoch).total_volume = VolumesOf(h, c.epoch).total_volume
  BY DEF VolumesOf
<1>4. AccountsOK(k, a)
  BY <1>1, <1>3 DEF AccountsOK, AccountOK
<1>5. StakedOK(k, a)
  <2>1. \A u \in Users : StakedVolume(k, a[u]) = StakedVolume(h, a[u])
    BY DEF StakedVolume
  <2>2. [u \in Users |-> StakedVolume(k, a[u])] = [u \in Users |-> StakedVolume(h, a[u])]
    BY <2>1
  <2> QED BY <1>1, <2>2 DEF StakedOK
<1>6. ASSUME NEW u \in Users, NEW x \in Assets
      PROVE  Share(k, a[u], x) = Share(h, a[u], x)
  <2>1. CASE a[u].epoch = h.epoch
    BY <2>1 DEF Share, Due
  <2>2. CASE a[u].epoch # h.epoch
    BY <2>2, SameShare
  <2> QED BY <2>1, <2>2
<1>7. SharesOK(k, a, sh)
  <2>1. ASSUME NEW e, NEW x \in Assets PROVE SharesIn(k, a, e, x) = SharesIn(h, a, e, x)
    <3>1. \A u \in Users : ShareIn(k, a[u], e, x) = ShareIn(h, a[u], e, x)
      BY <1>6 DEF ShareIn
    <3> QED BY <3>1 DEF SharesIn
  <2> QED BY <1>1, <2>1 DEF SharesOK
<1>8. Covered(k, a, w)
  <2> SUFFICES ASSUME NEW x \in Assets
               PROVE  Total(Claims(k, a, x), N) + ToBurn(k, x)
                        + k.volumes.total_fees_collected[x] <= w[x]
    BY DEF Covered
  <2>1. Claims(k, a, x) = Claims(h, a, x)
    BY <1>6 DEF Claims, Claim
  <2>2. Total(Claims(h, a, x), N) \in Nat
    <3>1. \A u \in Users : Claim(h, a[u], x) \in Nat
      BY <1>1, ClaimNat DEF AccountsOK
    <3>2. \A u \in 1..N : Claims(h, a, x)[u] \in Nat
      BY <1>2, <3>1 DEF Claims
    <3> QED BY <1>2, <3>2, TotalNat
  <2>3. /\ v[x] \in Nat /\ w[x] \in Nat
        /\ h.volumes.total_fees_collected[x] \in Nat /\ k.volumes.total_fees_collected[x] \in Nat
        /\ ToBurn(h, x) \in Nat /\ ToBurn(k, x) \in Nat
    BY <1>1 DEF Covered, BalanceSheets, HistoryOK, Volumes, ToBurn
  <2>4. Total(Claims(h, a, x), N) + ToBurn(h, x) + h.volumes.total_fees_collected[x] <= v[x]
    BY <1>1 DEF Covered
  <2>5. ToBurn(k, x) + k.volumes.total_fees_collected[x] - w[x]
          <= ToBurn(h, x) + h.volumes.total_fees_collected[x] - v[x]
    OBVIOUS
  <2> QED BY <2>1, <2>2, <2>3, <2>4, <2>5
<1> QED BY <1>4, <1>5, <1>7, <1>8 DEF Sound

(* Fees are recorded and deposited (add_total_fees_collected).              *)
LEMMA Collect ==
    ASSUME HistoryAssumption, NEW s, NEW v, SoundState(s, v), NEW fee \in BalanceSheets
    PROVE  LET t == [s EXCEPT !.history = add_total_fees_collected(@, fee)]
           IN  SoundState(t, add_balances(v, fee)) /\ Keeps(s, t)
<1> DEFINE h == s.history
           k == add_total_fees_collected(h, fee)
           t == [s EXCEPT !.history = k]
           w == add_balances(v, fee)
<1>1. /\ s = [history |-> h, accounts |-> s.accounts, shares |-> s.shares]
      /\ h.epoch = epoch /\ Sound(h, s.accounts, s.shares, v) /\ HistoryOK(h)
      /\ v \in BalanceSheets /\ h.volumes \in Volumes
      /\ h.volumes.total_fees_collected \in BalanceSheets
  BY DEF SoundState, Sound, Covered, HistoryOK, Volumes
<1> HIDE DEF h
<1>2. /\ add_balances(h.volumes.total_fees_collected, fee) \in BalanceSheets
      /\ \A x \in Assets : add_balances(h.volumes.total_fees_collected, fee)[x]
                             = h.volumes.total_fees_collected[x] + fee[x]
  BY <1>1, AddSheets
<1>3. w \in BalanceSheets /\ \A x \in Assets : w[x] = v[x] + fee[x]
  BY <1>1, AddSheets
<1>4. k = [h EXCEPT !.volumes = [h.volumes EXCEPT !.total_fees_collected =
                                    add_balances(h.volumes.total_fees_collected, fee)]]
  BY DEF add_total_fees_collected
<1> HIDE DEF k, w
<1>5. k.volumes = [h.volumes EXCEPT !.total_fees_collected =
                      add_balances(h.volumes.total_fees_collected, fee)]
      /\ k.epoch = h.epoch /\ k.historic_volumes = h.historic_volumes
      /\ k.balance_to_burn = h.balance_to_burn
      /\ k = [epoch |-> h.epoch, volumes |-> k.volumes, historic_volumes |-> h.historic_volumes,
              balance_to_burn |-> h.balance_to_burn]
  BY <1>1, <1>4 DEF HistoryOK
<1>6. /\ k.volumes \in Volumes
      /\ k.volumes.total_volume = h.volumes.total_volume
      /\ k.volumes.total_staked_volume = h.volumes.total_staked_volume
      /\ k.volumes.stake_required = h.volumes.stake_required
      /\ k.volumes.total_fees_collected = add_balances(h.volumes.total_fees_collected, fee)
  BY <1>1, <1>2, <1>5 DEF Volumes
<1>7. HistoryOK(k)
  BY <1>1, <1>5, <1>6 DEF HistoryOK
<1>8. ASSUME NEW x \in Assets
      PROVE  ToBurn(k, x) + k.volumes.total_fees_collected[x] - w[x]
               <= ToBurn(h, x) + h.volumes.total_fees_collected[x] - v[x]
  <2>1. ToBurn(k, x) = ToBurn(h, x) /\ ToBurn(h, x) \in Nat
    BY <1>1, <1>5 DEF ToBurn, HistoryOK
  <2>2. v[x] \in Nat /\ fee[x] \in Nat /\ h.volumes.total_fees_collected[x] \in Nat
    BY <1>1 DEF BalanceSheets
  <2> QED BY <1>2, <1>3, <1>6, <2>1, <2>2
<1>9. Sound(k, s.accounts, s.shares, w)
  BY <1>1, <1>3, <1>5, <1>6, <1>7, <1>8, SameAccounts
<1>10. t = [history |-> k, accounts |-> s.accounts, shares |-> s.shares]
  BY <1>1
<1> HIDE DEF t
<1>11. SoundState(t, w)
  BY <1>1, <1>5, <1>9, <1>10 DEF SoundState
<1>12. Keeps(s, t)
  BY <1>5, <1>10, SameRebates DEF Keeps, EntitledIn, h
<1> QED BY <1>11, <1>12 DEF t, w, k, h

(* Stake or rebates of a refreshed account change, and the vault by as much *)
(* (process_stake, process_unstake, process_claim_rebates).                 *)
LEMMA Adjust ==
    ASSUME HistoryAssumption, NEW s, NEW v, SoundState(s, v), NEW u \in Users,
           s.accounts[u].epoch = epoch,
           NEW d \in Account, d.epoch = epoch, d.maker_volume = s.accounts[u].maker_volume,
           d.active_stake \in {s.accounts[u].active_stake, 0},
           NEW w \in BalanceSheets,
           \A x \in Assets :
              v[x] + d.unclaimed_rebates[x]
                 + (IF x = "deep" THEN d.active_stake + d.inactive_stake ELSE 0)
               = w[x] + s.accounts[u].unclaimed_rebates[x]
                 + (IF x = "deep" THEN s.accounts[u].active_stake + s.accounts[u].inactive_stake
                    ELSE 0)
    PROVE  SoundState([s EXCEPT !.accounts[u] = d], w)
<1> DEFINE h == s.history
           a == s.accounts
           c == a[u]
           b == [a EXCEPT ![u] = d]
           t == [s EXCEPT !.accounts = b]
<1>1. /\ s = [history |-> h, accounts |-> a, shares |-> s.shares] /\ h.epoch = epoch
      /\ Sound(h, a, s.shares, v) /\ HistoryOK(h) /\ AccountOK(h, c)
      /\ a \in [Users -> Account] /\ v \in BalanceSheets
      /\ s.shares \in [Epochs -> BalanceSheets]
  BY DEF SoundState, Sound, Covered, AccountsOK, SharesOK
<1>2. t = [history |-> h, accounts |-> b, shares |-> s.shares]
  BY <1>1
<1>3. [s EXCEPT !.accounts[u] = d] = t
  BY <1>1
<1>4. b \in [Users -> Account] /\ b[u] = d /\ \A i \in Users : i # u => b[i] = a[i]
  BY <1>1
<1>5. /\ c.maker_volume \in Nat /\ c.active_stake \in Nat /\ c.inactive_stake \in Nat
      /\ d.active_stake \in Nat /\ d.inactive_stake \in Nat
      /\ c.unclaimed_rebates \in BalanceSheets /\ d.unclaimed_rebates \in BalanceSheets
      /\ h.volumes \in Volumes /\ h.volumes.stake_required \in Nat
      /\ h.volumes.total_volume \in Nat /\ h.volumes.total_staked_volume \in Nat
      /\ c.epoch = epoch /\ d.maker_volume = c.maker_volume
  BY <1>1 DEF AccountOK, Account, HistoryOK, Volumes
<1>6. c.maker_volume <= h.volumes.total_volume
  BY <1>1, <1>5 DEF AccountOK, VolumesOf
<1>7. StakedVolume(h, d) <= StakedVolume(h, c) /\ StakedVolume(h, d) \in Nat
        /\ StakedVolume(h, c) \in Nat
  BY <1>1, <1>5 DEF StakedVolume
<1>8. ASSUME NEW x \in Assets
      PROVE  Claim(h, b[u], x) + ToBurn(h, x) + h.volumes.total_fees_collected[x] - w[x]
               <= Claim(h, c, x) + ToBurn(h, x) + h.volumes.total_fees_collected[x] - v[x]
  <2>1. Share(h, c, x) = 0 /\ Share(h, d, x) = 0
    BY <1>1, <1>5 DEF Share, Due
  <2>2. /\ c.unclaimed_rebates[x] \in Nat /\ d.unclaimed_rebates[x] \in Nat
        /\ v[x] \in Nat /\ w[x] \in Nat /\ h.volumes.total_fees_collected[x] \in Nat
        /\ ToBurn(h, x) \in Nat
    BY <1>1, <1>5 DEF BalanceSheets, Volumes, HistoryOK, ToBurn
  <2>3. v[x] + d.unclaimed_rebates[x]
          + (IF x = "deep" THEN d.active_stake + d.inactive_stake ELSE 0)
          = w[x] + c.unclaimed_rebates[x]
          + (IF x = "deep" THEN c.active_stake + c.inactive_stake ELSE 0)
    OBVIOUS
  <2> HIDE DEF h, c, b
  <2>4. v[x] + Claim(h, d, x) = w[x] + Claim(h, c, x) /\ Claim(h, d, x) \in Nat
          /\ Claim(h, c, x) \in Nat
    <3> DEFINE m == IF x = "deep" THEN d.active_stake + d.inactive_stake ELSE 0
               n == IF x = "deep" THEN c.active_stake + c.inactive_stake ELSE 0
    <3>1. m \in Nat /\ n \in Nat
      BY <1>5
    <3>2. /\ Claim(h, d, x) = d.unclaimed_rebates[x] + 0 + m
          /\ Claim(h, c, x) = c.unclaimed_rebates[x] + 0 + n
      BY <2>1 DEF Claim
    <3>3. v[x] + d.unclaimed_rebates[x] + m = w[x] + c.unclaimed_rebates[x] + n
      BY <2>3
    <3> HIDE DEF m, n
    <3> QED BY <2>2, <3>1, <3>2, <3>3
  <2> QED BY <1>4, <2>2, <2>4
<1>9. \A e \in Epochs, x \in Assets : s.shares[e][x] = s.shares[e][x] + ShareIn(h, c, e, x)
  <2>1. \A e \in Epochs, x \in Assets : ShareIn(h, c, e, x) = 0 /\ s.shares[e][x] \in Nat
    BY <1>1, <1>5 DEF ShareIn, Share, Due, BalanceSheets
  <2> QED BY <2>1
<1> HIDE DEF h, c, b, t
<1>10. Sound(h, b, s.shares, w)
  <2>1. /\ h.volumes.total_volume <= h.volumes.total_volume
        /\ b[u].epoch = h.epoch /\ b[u].maker_volume <= h.volumes.total_volume
        /\ StakedVolume(h, b[u]) - StakedVolume(h, c)
             <= h.volumes.total_staked_volume - h.volumes.total_staked_volume
    BY <1>1, <1>4, <1>5, <1>6, <1>7
  <2> QED BY <1>1, <1>4, <1>8, <1>9, <2>1, OneAccount DEF c
<1> QED BY <1>1, <1>2, <1>3, <1>10 DEF SoundState

(* A fill adds to the volume of a refreshed maker and of the epoch          *)
(* (process_fills, add_volume).                                             *)
LEMMA AddVolume ==
    ASSUME HistoryAssumption, NEW s, NEW v, SoundState(s, v), NEW u \in Users,
           s.accounts[u].epoch = epoch, NEW q \in Nat
    PROVE  LET t == [s EXCEPT !.accounts[u].maker_volume = @ + q,
                              !.history = add_volume(s.history, q, s.accounts[u].active_stake)]
           IN  SoundState(t, v) /\ Keeps(s, t)
<1> DEFINE h == s.history
           a == s.accounts
           c == a[u]
           d == [c EXCEPT !.maker_volume = @ + q]
           b == [a EXCEPT ![u] = d]
           k == add_volume(h, q, c.active_stake)
           t == [s EXCEPT !.accounts[u].maker_volume = @ + q, !.history = k]
           staked == IF c.active_stake >= h.volumes.stake_required
                     THEN h.volumes.total_staked_volume + q ELSE h.volumes.total_staked_volume
           vk == [h.volumes EXCEPT !.total_volume = @ + q, !.total_staked_volume = staked]
<1>1. /\ s = [history |-> h, accounts |-> a, shares |-> s.shares] /\ h.epoch = epoch
      /\ Sound(h, a, s.shares, v) /\ HistoryOK(h) /\ AccountOK(h, c)
      /\ a \in [Users -> Account] /\ v \in BalanceSheets
      /\ s.shares \in [Epochs -> BalanceSheets]
  BY DEF SoundState, Sound, Covered, AccountsOK, SharesOK
<1>2. /\ c \in Account /\ c.maker_volume \in Nat /\ c.active_stake \in Nat
      /\ c.inactive_stake \in Nat /\ c.unclaimed_rebates \in BalanceSheets
      /\ h.volumes \in Volumes /\ h.volumes.stake_required \in Nat
      /\ h.volumes.total_volume \in Nat /\ h.volumes.total_staked_volume \in Nat
      /\ c.epoch = epoch /\ staked \in Nat
  BY <1>1 DEF AccountOK, Account, HistoryOK, Volumes
<1>3. c.maker_volume <= h.volumes.total_volume
  BY <1>1, <1>2 DEF AccountOK, VolumesOf
<1>4. h \in [epoch : Epochs, volumes : Volumes, historic_volumes : {h.historic_volumes},
             balance_to_burn : Nat]
  BY <1>1 DEF HistoryOK
<1>5. k = [h EXCEPT !.volumes = vk]
  BY <1>2, <1>4 DEF add_volume, Volumes
<1>6. t = [history |-> k, accounts |-> b, shares |-> s.shares]
  <2> DEFINE m == [s EXCEPT !.accounts = b]
  <2>1. m = [history |-> h, accounts |-> b, shares |-> s.shares]
    BY <1>1
  <2>2. t = [m EXCEPT !.history = k]
    OBVIOUS
  <2> HIDE DEF m, k
  <2> QED BY <2>1, <2>2
<1>7. /\ d \in Account /\ d.epoch = c.epoch /\ d.maker_volume = c.maker_volume + q
      /\ d.active_stake = c.active_stake /\ d.inactive_stake = c.inactive_stake
      /\ d.unclaimed_rebates = c.unclaimed_rebates
  BY <1>2 DEF Account
<1> HIDE DEF staked
<1>8. /\ vk \in Volumes /\ vk.total_volume = h.volumes.total_volume + q
      /\ vk.total_staked_volume = staked /\ vk.stake_required = h.volumes.stake_required
      /\ vk.total_fees_collected = h.volumes.total_fees_collected
  <2> HIDE DEF h
  <2>1. h.volumes.total_volume + q \in Nat
    BY <1>2
  <2>2. vk = [[h.volumes EXCEPT !.total_volume = h.volumes.total_volume + q]
                EXCEPT !.total_staked_volume = staked]
    OBVIOUS
  <2> HIDE DEF vk
  <2> QED BY <1>2, <2>1, <2>2 DEF Volumes
<1> HIDE DEF h, a, c, d, k, t, vk
<1>9. b \in [Users -> Account] /\ b[u] = d /\ \A i \in Users : i # u => b[i] = a[i]
  BY <1>1, <1>7
<1>10. /\ k.volumes = vk /\ k.epoch = h.epoch /\ k.historic_volumes = h.historic_volumes
       /\ k.balance_to_burn = h.balance_to_burn
       /\ k \in [epoch : Epochs, volumes : Volumes, historic_volumes : {h.historic_volumes},
                 balance_to_burn : Nat]
  BY <1>4, <1>5, <1>8
<1>11. HistoryOK(k)
  BY <1>1, <1>10 DEF HistoryOK
<1>12. StakedVolume(k, d) - StakedVolume(h, c)
         <= k.volumes.total_staked_volume - h.volumes.total_staked_volume
  BY <1>1, <1>2, <1>7, <1>8, <1>10 DEF StakedVolume, staked
<1>13. ASSUME NEW x \in Assets
       PROVE  Claim(k, d, x) + ToBurn(k, x) + k.volumes.total_fees_collected[x] - v[x]
                <= Claim(h, c, x) + ToBurn(h, x) + h.volumes.total_fees_collected[x] - v[x]
  <2>1. Share(h, c, x) = 0 /\ Share(k, d, x) = 0
    BY <1>1, <1>2, <1>7, <1>10 DEF Share, Due
  <2>2. Claim(k, d, x) = Claim(h, c, x)
    BY <1>7, <2>1 DEF Claim
  <2>3. ToBurn(k, x) = ToBurn(h, x) /\ ToBurn(h, x) \in Nat
    BY <1>1, <1>10 DEF ToBurn, HistoryOK
  <2>4. Claim(h, c, x) \in Nat /\ v[x] \in Nat /\ h.volumes.total_fees_collected[x] \in Nat
    BY <1>1, <1>2, ClaimNat DEF BalanceSheets, Volumes
  <2> QED BY <1>8, <1>10, <2>2, <2>3, <2>4
<1>14. \A e \in Epochs, x \in Assets : s.shares[e][x] = s.shares[e][x] + ShareIn(h, c, e, x)
  <2>1. \A e \in Epochs, x \in Assets : ShareIn(h, c, e, x) = 0 /\ s.shares[e][x] \in Nat
    BY <1>1, <1>2 DEF ShareIn, Share, Due, BalanceSheets
  <2> QED BY <2>1
<1>15. Sound(k, b, s.shares, v)
  <2>1. /\ k.volumes.stake_required = h.volumes.stake_required
        /\ h.volumes.total_volume <= k.volumes.total_volume
        /\ b[u].epoch = h.epoch /\ b[u].maker_volume <= k.volumes.total_volume
    BY <1>1, <1>2, <1>3, <1>7, <1>8, <1>9, <1>10
  <2> HIDE DEF b
  <2> QED BY <1>1, <1>9, <1>10, <1>11, <1>12, <1>13, <1>14, <2>1, OneAccount DEF c
<1>16. SoundState(t, v)
  BY <1>1, <1>6, <1>10, <1>15 DEF SoundState
<1>17. Keeps(s, t)
  <2>1. t.history = k /\ t.accounts = b
    BY <1>6
  <2>2. ASSUME NEW i \in Users, NEW x \in Assets
        PROVE  EntitledIn(t, i, x) = EntitledIn(s, i, x)
    <3>1. EntitledIn(t, i, x) = b[i].unclaimed_rebates[x] + Rebates(k, b[i])[x]
          /\ EntitledIn(s, i, x) = a[i].unclaimed_rebates[x] + Rebates(h, a[i])[x]
      BY <2>1 DEF EntitledIn, a, h
    <3>2. CASE i # u
      BY <1>9, <1>10, <3>1, <3>2, SameRebates
    <3>3. CASE i = u
      <4>1. a[i] = c /\ b[i] = d
        BY <1>9, <3>3 DEF c
      <4>2. Rebates(k, d)[x] = 0 /\ Rebates(h, c)[x] = 0
        BY <1>2, <1>7, NothingDue
      <4> QED BY <1>7, <3>1, <4>1, <4>2
    <3> QED BY <3>2, <3>3
  <2> QED BY <1>10, <2>1, <2>2 DEF Keeps, h
<1> QED BY <1>16, <1>17 DEF t, k, c, a, h

(* A fill of an order of maker (process_fills).                             *)
LEMMA Fill ==
    ASSUME HistoryAssumption, NEW s, NEW v, SoundState(s, v), NEW maker \in Users,
           NEW q \in Nat, NEW fee \in BalanceSheets
    PROVE  LET t == process_fill(s, maker, q, fee)
           IN  SoundState(t, add_balances(v, fee)) /\ Keeps(s, t)
<1> DEFINE t == update_account(s, maker)
           r == [t EXCEPT !.accounts[maker].maker_volume = @ + q,
                          !.history = add_volume(t.history, q, t.accounts[maker].active_stake)]
           p == [r EXCEPT !.history = add_total_fees_collected(@, fee)]
<1>1. SoundState(t, v) /\ Keeps(s, t) /\ t.accounts[maker].epoch = epoch
  BY Refresh
<1>2. t = [history |-> t.history, accounts |-> t.accounts, shares |-> t.shares]
  BY <1>1 DEF SoundState
<1> HIDE DEF t
<1>3. SoundState(r, v) /\ Keeps(t, r)
  BY <1>1, AddVolume
<1>4. r.history = add_volume(t.history, q, t.accounts[maker].active_stake)
  BY <1>2
<1>5. p = [t EXCEPT !.accounts[maker].maker_volume = @ + q,
                    !.history = add_total_fees_collected(
                        add_volume(t.history, q, t.accounts[maker].active_stake), fee)]
  BY <1>2, <1>4
<1>6. process_fill(s, maker, q, fee) = p
  BY <1>5 DEF process_fill, t
<1> HIDE DEF r
<1>7. SoundState(p, add_balances(v, fee)) /\ Keeps(r, p)
  BY <1>3, Collect
<1> HIDE DEF p
<1>8. Keeps(s, p)
  BY <1>1, <1>3, <1>7, KeepsTransitive
<1> QED BY <1>6, <1>7, <1>8

-----------------------------------------------------------------------------
(* The handlers.  Each keeps the invariant and every account's rebates. *)

Gov == [epoch : Nat, stake_required : Nat, next_stake_required : Nat]

(* The calls every handler starts with leave the objects sound.             *)
LEMMA Starts ==
    ASSUME HistoryAssumption, MedianIsNatural, IInv
    PROVE  SoundState(Start, vault) /\ G \in Gov /\ epoch \in Nat
<1>1. /\ epoch \in Epochs /\ epoch \in Nat /\ history.epoch \in Nat /\ history.epoch <= epoch
      /\ gov \in Gov /\ Sound(history, accounts, shares, vault) /\ HistoryOK(history)
  BY DEF IInv, Gov, Sound, HistoryOK, HistoryAssumption, Epochs
<1>2. G \in Gov /\ G.stake_required \in Nat
  BY <1>1 DEF G, Gov, update_governance
<1>3. Sound(H, accounts, shares, vault) /\ H.epoch = epoch
  <2>1. CASE history.epoch = epoch
    BY <1>1, <2>1 DEF H, update
  <2>2. CASE history.epoch # epoch
    <3>1. history.epoch < epoch
      BY <1>1, <2>2
    <3>2. Sound(H, accounts, shares, vault)
      BY <1>1, <1>2, <3>1, CloseSound DEF H
    <3>3. H.epoch = epoch
      BY <1>1, <1>2, <3>1, Closed DEF H
    <3> QED BY <3>2, <3>3
  <2> QED BY <2>1, <2>2
<1> QED BY <1>1, <1>2, <1>3 DEF SoundState, Start

(* A handler ends in the parts t of the state.                              *)
LEMMA Ends ==
    ASSUME HistoryAssumption, IInv, NEW t, SoundState(t, vault'),
           history' = t.history, accounts' = t.accounts, shares' = t.shares,
           epoch' = epoch, gov' \in Gov
    PROVE  /\ IInv'
           /\ \A u \in Users, x \in Assets : Entitled(u, x)' = EntitledIn(t, u, x)
<1>1. /\ Sound(history', accounts', shares', vault') /\ history'.epoch = epoch'
      /\ epoch' \in Epochs /\ epoch' \in Int
  BY DEF SoundState, IInv, HistoryAssumption, Epochs
<1>2. IInv'
  BY <1>1 DEF IInv, Gov
<1>3. H' = history'
  BY <1>1 DEF H, update
<1>4. ASSUME NEW u \in Users PROVE Rebates(H, accounts[u])' = Rebates(t.history, t.accounts[u])
  BY <1>3 DEF Rebates, RebateDue
<1>5. ASSUME NEW u \in Users, NEW x \in Assets PROVE Entitled(u, x)' = EntitledIn(t, u, x)
  BY <1>4 DEF Entitled, EntitledIn
<1> QED BY <1>2, <1>5

(* When it keeps the rebates of every account, so does the step.            *)
LEMMA EndsKeeping ==
    ASSUME HistoryAssumption, IInv, NEW t, SoundState(t, vault'), Keeps(Start, t),
           history' = t.history, accounts' = t.accounts, shares' = t.shares,
           epoch' = epoch, gov' \in Gov
    PROVE  IInv' /\ KeepsEntitlements
<1>1. IInv' /\ \A u \in Users, x \in Assets : Entitled(u, x)' = EntitledIn(t, u, x)
  BY Ends
<1>2. \A u \in Users, x \in Assets : Entitled(u, x) = EntitledIn(Start, u, x)
  BY DEF Entitled, EntitledIn, Start
<1>3. \A u \in Users, x \in Assets : Entitled(u, x)' = Entitled(u, x)
  BY <1>1, <1>2 DEF Keeps
<1> QED BY <1>1, <1>3 DEF KeepsEntitlements

(* Refreshing the account after those calls (State.update_account).         *)
LEMMA Refreshing ==
    ASSUME HistoryAssumption, MedianIsNatural, IInv, NEW u \in Users
    PROVE  /\ SoundState(Refreshed(u), vault) /\ Keeps(Start, Refreshed(u))
           /\ Refreshed(u).accounts[u].epoch = epoch
BY Starts, Refresh DEF Refreshed

(* An order that fills one of maker (process_create, process_fills).        *)
LEMMA TradeKeeps ==
    ASSUME HistoryAssumption, MedianIsNatural, IInv,
           NEW taker \in Users, NEW maker \in Users, NEW quantity \in Quantities,
           NEW maker_fee \in MakerFees, NEW taker_fee \in TakerFees,
           Trade(taker, maker, quantity, maker_fee, taker_fee)
    PROVE  IInv' /\ KeepsEntitlements
<1> DEFINE filled == process_fill(Start, maker, quantity, maker_fee)
           done == update_account(filled, taker)
           t == [done EXCEPT !.history = add_total_fees_collected(@, taker_fee)]
           v == add_balances(vault, maker_fee)
<1>1. /\ quantity \in Nat /\ maker_fee \in BalanceSheets /\ taker_fee \in BalanceSheets
      /\ vault \in BalanceSheets
  BY DEF HistoryAssumption, IInv, Sound, Covered
<1>2. SoundState(Start, vault) /\ G \in Gov
  BY Starts
<1>3. SoundState(filled, v) /\ Keeps(Start, filled)
  BY <1>1, <1>2, Fill
<1>4. /\ Become(t) /\ epoch' = epoch
      /\ vault' = add_balances(vault, add_balances(maker_fee, taker_fee))
  BY DEF Trade
<1> HIDE DEF filled
<1>5. SoundState(done, v) /\ Keeps(filled, done)
  BY <1>3, Refresh
<1> HIDE DEF done
<1>6. SoundState(t, add_balances(v, taker_fee)) /\ Keeps(done, t)
  BY <1>1, <1>5, Collect
<1>7. add_balances(v, taker_fee) = vault'
  <2>1. /\ v \in BalanceSheets /\ \A x \in Assets : v[x] = vault[x] + maker_fee[x]
    BY <1>1, AddSheets
  <2>2. /\ add_balances(maker_fee, taker_fee) \in BalanceSheets
        /\ \A x \in Assets : add_balances(maker_fee, taker_fee)[x] = maker_fee[x] + taker_fee[x]
    BY <1>1, AddSheets
  <2> DEFINE f == add_balances(maker_fee, taker_fee)
  <2> HIDE DEF v, f
  <2>3. /\ add_balances(v, taker_fee) \in BalanceSheets
        /\ \A x \in Assets : add_balances(v, taker_fee)[x] = v[x] + taker_fee[x]
    BY <1>1, <2>1, AddSheets
  <2>4. /\ add_balances(vault, f) \in BalanceSheets
        /\ \A x \in Assets : add_balances(vault, f)[x] = vault[x] + f[x]
    BY <1>1, <2>2, AddSheets DEF f
  <2>5. \A x \in Assets : vault[x] \in Nat /\ maker_fee[x] \in Nat /\ taker_fee[x] \in Nat
    BY <1>1 DEF BalanceSheets
  <2>6. \A x \in Assets : add_balances(v, taker_fee)[x] = add_balances(vault, f)[x]
    BY <2>1, <2>2, <2>3, <2>4, <2>5 DEF f
  <2>7. add_balances(v, taker_fee) = add_balances(vault, f)
    BY <2>3, <2>4, <2>6 DEF BalanceSheets
  <2> QED BY <1>4, <2>7 DEF f
<1> HIDE DEF t, v
<1>8. Keeps(Start, t)
  BY <1>3, <1>5, <1>6, KeepsTransitive
<1> QED BY <1>2, <1>4, <1>6, <1>7, <1>8, EndsKeeping DEF Become

(* A handler that only refreshes an account.                                *)
LEMMA TouchKeeps ==
    ASSUME HistoryAssumption, MedianIsNatural, IInv, NEW u \in Users, Touch(u)
    PROVE  IInv' /\ KeepsEntitlements
BY Starts, Refreshing, EndsKeeping DEF Touch, Become

(* A vote changes the requirement of the next epoch (process_vote).         *)
LEMMA VoteKeeps ==
    ASSUME HistoryAssumption, MedianIsNatural, IInv, NEW u \in Users,
           NEW required \in StakeRequired, Vote(u, required)
    PROVE  IInv' /\ KeepsEntitlements
<1>1. G \in Gov /\ required \in Nat
  BY Starts DEF HistoryAssumption
<1>2. gov' \in Gov
  BY <1>1 DEF Vote, Gov
<1> QED BY <1>2, Refreshing, EndsKeeping DEF Vote

(* A change of stake leaves the rebates of every account as they are.       *)
LEMMA AdjustKeeps ==
    ASSUME NEW s, NEW v, SoundState(s, v), NEW u \in Users, s.accounts[u].epoch = epoch,
           NEW d \in Account, d.epoch = epoch,
           d.unclaimed_rebates = s.accounts[u].unclaimed_rebates
    PROVE  Keeps(s, [s EXCEPT !.accounts[u] = d])
<1> DEFINE a == s.accounts
           b == [a EXCEPT ![u] = d]
           t == [s EXCEPT !.accounts[u] = d]
<1>1. /\ s = [history |-> s.history, accounts |-> a, shares |-> s.shares]
      /\ a \in [Users -> Account]
  BY DEF SoundState, Sound, AccountsOK
<1>2. t.history = s.history /\ t.accounts = b
  BY <1>1
<1>3. b[u] = d /\ \A i \in Users : i # u => b[i] = a[i]
  BY <1>1
<1>4. ASSUME NEW i \in Users, NEW x \in Assets
      PROVE  EntitledIn(t, i, x) = EntitledIn(s, i, x)
  <2>1. EntitledIn(t, i, x) = b[i].unclaimed_rebates[x] + Rebates(s.history, b[i])[x]
        /\ EntitledIn(s, i, x) = a[i].unclaimed_rebates[x] + Rebates(s.history, a[i])[x]
    BY <1>2 DEF EntitledIn
  <2>2. CASE i # u
    BY <1>3, <2>1, <2>2
  <2>3. CASE i = u
    <3>1. Rebates(s.history, d)[x] = 0 /\ Rebates(s.history, a[u])[x] = 0
      BY NothingDue
    <3> HIDE DEF b, t
    <3> QED BY <1>3, <2>1, <2>3, <3>1
  <2> QED BY <2>2, <2>3
<1> HIDE DEF t
<1>5. Keeps(s, t)
  BY <1>2, <1>4 DEF Keeps
<1> QED BY <1>5 DEF t

(* The stake of an account grows with the vault (process_stake).            *)
LEMMA StakeKeeps ==
    ASSUME HistoryAssumption, MedianIsNatural, IInv, NEW u \in Users,
           NEW amount \in StakeAmounts, Stake(u, amount)
    PROVE  IInv' /\ KeepsEntitlements
<1> DEFINE r == Refreshed(u)
           c == r.accounts[u]
           d == [c EXCEPT !.inactive_stake = @ + amount]
           t == [r EXCEPT !.accounts[u] = d]
<1>1. /\ SoundState(r, vault) /\ Keeps(Start, r) /\ c.epoch = epoch
      /\ G \in Gov /\ amount \in Nat /\ vault \in BalanceSheets
  BY Starts, Refreshing DEF HistoryAssumption, IInv, Sound, Covered
<1>2. Become(t) /\ vault' = [vault EXCEPT !.deep = @ + amount] /\ epoch' = epoch
  BY DEF Stake
<1> HIDE DEF r
<1>3. c \in Account
  BY <1>1 DEF SoundState, Sound, AccountsOK
<1> HIDE DEF c
<1>4. /\ d \in Account /\ d.epoch = epoch /\ d.maker_volume = c.maker_volume
      /\ d.active_stake = c.active_stake /\ d.inactive_stake = c.inactive_stake + amount
      /\ d.unclaimed_rebates = c.unclaimed_rebates
      /\ c.active_stake \in Nat /\ c.inactive_stake \in Nat
      /\ c.unclaimed_rebates \in BalanceSheets
  BY <1>1, <1>3 DEF Account
<1>5. /\ vault' \in BalanceSheets
      /\ \A x \in Assets : vault'[x] = vault[x] + (IF x = "deep" THEN amount ELSE 0)
  BY <1>1, <1>2 DEF BalanceSheets, Assets
<1> HIDE DEF d
<1>6. ASSUME NEW x \in Assets
      PROVE  vault[x] + d.unclaimed_rebates[x]
                + (IF x = "deep" THEN d.active_stake + d.inactive_stake ELSE 0)
              = vault'[x] + c.unclaimed_rebates[x]
                + (IF x = "deep" THEN c.active_stake + c.inactive_stake ELSE 0)
  <2>1. vault[x] \in Nat /\ c.unclaimed_rebates[x] \in Nat
    BY <1>1, <1>4 DEF BalanceSheets
  <2>2. vault'[x] = vault[x] + (IF x = "deep" THEN amount ELSE 0)
    BY <1>5
  <2>3. d.unclaimed_rebates[x] = c.unclaimed_rebates[x]
    BY <1>4
  <2> QED BY <1>1, <1>4, <2>1, <2>2, <2>3
<1>7. SoundState(t, vault')
  <2>1. r.accounts[u] = c /\ d.active_stake \in {c.active_stake, 0}
    BY <1>4 DEF c
  <2>2. \A x \in Assets :
           vault[x] + d.unclaimed_rebates[x]
              + (IF x = "deep" THEN d.active_stake + d.inactive_stake ELSE 0)
            = vault'[x] + r.accounts[u].unclaimed_rebates[x]
              + (IF x = "deep" THEN r.accounts[u].active_stake + r.accounts[u].inactive_stake
                 ELSE 0)
    BY <1>6, <2>1
  <2>3. /\ SoundState(r, vault) /\ r.accounts[u].epoch = epoch /\ d \in Account
        /\ d.epoch = epoch /\ d.maker_volume = r.accounts[u].maker_volume
        /\ d.active_stake \in {r.accounts[u].active_stake, 0} /\ vault' \in BalanceSheets
    BY <1>1, <1>4, <1>5, <2>1
  <2> HIDE DEF t
  <2>4. SoundState([r EXCEPT !.accounts[u] = d], vault')
    BY <2>2, <2>3, Adjust
  <2> QED BY <2>4 DEF t
<1>8. Keeps(r, t)
  BY <1>1, <1>4, AdjustKeeps DEF c
<1> HIDE DEF t
<1>9. Keeps(Start, t)
  BY <1>1, <1>8, KeepsTransitive
<1> QED BY <1>1, <1>2, <1>7, <1>9, EndsKeeping DEF Become

(* The vault pays out the stake it held (process_unstake).                  *)
LEMMA UnstakeKeeps ==
    ASSUME HistoryAssumption, MedianIsNatural, IInv, NEW u \in Users, Unstake(u)
    PROVE  IInv' /\ KeepsEntitlements
<1> DEFINE r == Refreshed(u)
           c == r.accounts[u]
           amount == c.active_stake + c.inactive_stake
           d == [c EXCEPT !.active_stake = 0, !.inactive_stake = 0]
           t == [r EXCEPT !.accounts[u] = d]
<1>1. /\ SoundState(r, vault) /\ Keeps(Start, r) /\ c.epoch = epoch
      /\ G \in Gov /\ vault \in BalanceSheets
  BY Starts, Refreshing DEF IInv, Sound, Covered
<1>2. /\ Become([r EXCEPT !.accounts[u].active_stake = 0, !.accounts[u].inactive_stake = 0])
      /\ vault' = [vault EXCEPT !.deep = @ - amount] /\ epoch' = epoch /\ amount <= vault.deep
  BY DEF Unstake
<1> HIDE DEF r
<1>3. /\ c \in Account /\ r.accounts \in [Users -> Account]
      /\ r = [history |-> r.history, accounts |-> r.accounts, shares |-> r.shares]
  BY <1>1 DEF SoundState, Sound, AccountsOK
<1>4. [r EXCEPT !.accounts[u].active_stake = 0, !.accounts[u].inactive_stake = 0] = t
  BY <1>3
<1> HIDE DEF c
<1>5. /\ d \in Account /\ d.epoch = epoch /\ d.maker_volume = c.maker_volume
      /\ d.active_stake = 0 /\ d.inactive_stake = 0
      /\ d.unclaimed_rebates = c.unclaimed_rebates
      /\ c.active_stake \in Nat /\ c.inactive_stake \in Nat /\ amount \in Nat
      /\ c.unclaimed_rebates \in BalanceSheets
  <2> DEFINE m == [c EXCEPT !.active_stake = 0]
  <2>1. /\ m \in Account /\ m.epoch = c.epoch /\ m.maker_volume = c.maker_volume
        /\ m.active_stake = 0 /\ m.unclaimed_rebates = c.unclaimed_rebates
    BY <1>3 DEF Account
  <2>2. d = [m EXCEPT !.inactive_stake = 0]
    OBVIOUS
  <2> HIDE DEF m, d
  <2>3. /\ d \in Account /\ d.epoch = m.epoch /\ d.maker_volume = m.maker_volume
        /\ d.active_stake = 0 /\ d.inactive_stake = 0
        /\ d.unclaimed_rebates = m.unclaimed_rebates
    BY <2>1, <2>2 DEF Account
  <2>4. /\ c.active_stake \in Nat /\ c.inactive_stake \in Nat /\ amount \in Nat
        /\ c.unclaimed_rebates \in BalanceSheets
    BY <1>3 DEF Account
  <2> QED BY <1>1, <2>1, <2>3, <2>4
<1> HIDE DEF d
<1>6. /\ vault' \in BalanceSheets
      /\ \A x \in Assets : vault'[x] = vault[x] - (IF x = "deep" THEN amount ELSE 0)
  <2> HIDE DEF amount
  <2> QED BY <1>1, <1>2, <1>5 DEF BalanceSheets, Assets
<1>7. ASSUME NEW x \in Assets
      PROVE  vault[x] + d.unclaimed_rebates[x]
                + (IF x = "deep" THEN d.active_stake + d.inactive_stake ELSE 0)
              = vault'[x] + c.unclaimed_rebates[x]
                + (IF x = "deep" THEN c.active_stake + c.inactive_stake ELSE 0)
  <2>1. vault[x] \in Nat /\ c.unclaimed_rebates[x] \in Nat
    BY <1>1, <1>5 DEF BalanceSheets
  <2>2. vault'[x] = vault[x] - (IF x = "deep" THEN amount ELSE 0)
    BY <1>6
  <2>3. d.unclaimed_rebates[x] = c.unclaimed_rebates[x]
    BY <1>5
  <2> QED BY <1>5, <2>1, <2>2, <2>3
<1>8. SoundState(t, vault')
  <2>1. r.accounts[u] = c /\ d.active_stake \in {c.active_stake, 0}
    BY <1>5 DEF c
  <2>2. \A x \in Assets :
           vault[x] + d.unclaimed_rebates[x]
              + (IF x = "deep" THEN d.active_stake + d.inactive_stake ELSE 0)
            = vault'[x] + r.accounts[u].unclaimed_rebates[x]
              + (IF x = "deep" THEN r.accounts[u].active_stake + r.accounts[u].inactive_stake
                 ELSE 0)
    BY <1>7, <2>1
  <2>3. /\ SoundState(r, vault) /\ r.accounts[u].epoch = epoch /\ d \in Account
        /\ d.epoch = epoch /\ d.maker_volume = r.accounts[u].maker_volume
        /\ d.active_stake \in {r.accounts[u].active_stake, 0} /\ vault' \in BalanceSheets
    BY <1>1, <1>5, <1>6, <2>1
  <2> HIDE DEF t
  <2>4. SoundState([r EXCEPT !.accounts[u] = d], vault')
    BY <2>2, <2>3, Adjust
  <2> QED BY <2>4 DEF t
<1>9. Keeps(r, t)
  BY <1>1, <1>5, AdjustKeeps DEF c
<1> HIDE DEF t
<1>10. Keeps(Start, t)
  BY <1>1, <1>9, KeepsTransitive
<1> QED BY <1>1, <1>2, <1>4, <1>8, <1>10, EndsKeeping DEF Become

(* A claim pays what was granted, in full (process_claim_rebates).          *)
LEMMA ClaimRebatesKeeps ==
    ASSUME HistoryAssumption, MedianIsNatural, IInv, NEW u \in Users, ClaimRebates(u)
    PROVE  IInv' /\ KeepsEntitlements
<1> DEFINE r == Refreshed(u)
           c == r.accounts[u]
           amount == c.unclaimed_rebates
           d == [c EXCEPT !.unclaimed_rebates = Nothing]
           t == [r EXCEPT !.accounts[u] = d]
<1>1. /\ SoundState(r, vault) /\ Keeps(Start, r) /\ c.epoch = epoch
      /\ G \in Gov /\ vault \in BalanceSheets
  BY Starts, Refreshing DEF IInv, Sound, Covered
<1>2. /\ Become(t) /\ vault' = [x \in Assets |-> vault[x] - amount[x]] /\ epoch' = epoch
      /\ \A x \in Assets : amount[x] <= vault[x]
  BY DEF ClaimRebates
<1> HIDE DEF r
<1>3. /\ c \in Account /\ r.accounts \in [Users -> Account]
      /\ r = [history |-> r.history, accounts |-> r.accounts, shares |-> r.shares]
  BY <1>1 DEF SoundState, Sound, AccountsOK
<1>4. t.history = r.history /\ t.accounts = [r.accounts EXCEPT ![u] = d]
  BY <1>3
<1> HIDE DEF c
<1>5. /\ d \in Account /\ d.epoch = epoch /\ d.maker_volume = c.maker_volume
      /\ d.active_stake = c.active_stake /\ d.inactive_stake = c.inactive_stake
      /\ d.unclaimed_rebates = Nothing
      /\ c.active_stake \in Nat /\ c.inactive_stake \in Nat
      /\ amount \in BalanceSheets
  BY <1>1, <1>3, NothingSheet DEF Account
<1> HIDE DEF d, amount
<1>6. \A x \in Assets : d.unclaimed_rebates[x] = 0 /\ vault[x] \in Nat /\ amount[x] \in Nat
  BY <1>1, <1>5, NothingSheet DEF BalanceSheets
<1>7. /\ vault' \in BalanceSheets
      /\ \A x \in Assets : vault'[x] = vault[x] - amount[x]
  BY <1>2, <1>6 DEF BalanceSheets
<1>8. ASSUME NEW x \in Assets
      PROVE  vault[x] + d.unclaimed_rebates[x]
                + (IF x = "deep" THEN d.active_stake + d.inactive_stake ELSE 0)
              = vault'[x] + c.unclaimed_rebates[x]
                + (IF x = "deep" THEN c.active_stake + c.inactive_stake ELSE 0)
  BY <1>5, <1>6, <1>7 DEF amount
<1>9. SoundState(t, vault')
  <2>1. r.accounts[u] = c /\ d.active_stake \in {c.active_stake, 0}
    BY <1>5 DEF c
  <2>2. \A x \in Assets :
           vault[x] + d.unclaimed_rebates[x]
              + (IF x = "deep" THEN d.active_stake + d.inactive_stake ELSE 0)
            = vault'[x] + r.accounts[u].unclaimed_rebates[x]
              + (IF x = "deep" THEN r.accounts[u].active_stake + r.accounts[u].inactive_stake
                 ELSE 0)
    BY <1>8, <2>1
  <2>3. /\ SoundState(r, vault) /\ r.accounts[u].epoch = epoch /\ d \in Account
        /\ d.epoch = epoch /\ d.maker_volume = r.accounts[u].maker_volume
        /\ d.active_stake \in {r.accounts[u].active_stake, 0} /\ vault' \in BalanceSheets
    BY <1>1, <1>5, <1>7, <2>1
  <2> HIDE DEF t
  <2>4. SoundState([r EXCEPT !.accounts[u] = d], vault')
    BY <2>2, <2>3, Adjust
  <2> QED BY <2>4 DEF t
<1> HIDE DEF t
<1>10. IInv' /\ \A i \in Users, x \in Assets : Entitled(i, x)' = EntitledIn(t, i, x)
  BY <1>1, <1>2, <1>9, Ends DEF Become
<1>11. ASSUME NEW i \in Users, NEW x \in Assets
       PROVE  Entitled(i, x) = EntitledIn(r, i, x)
  BY <1>1 DEF Keeps, Entitled, EntitledIn, Start
<1>12. ASSUME NEW i \in Users, NEW x \in Assets, i # u
       PROVE  Entitled(i, x)' = Entitled(i, x)
  <2>1. t.accounts[i] = r.accounts[i]
    BY <1>3, <1>4, <1>12
  <2>2. EntitledIn(t, i, x) = EntitledIn(r, i, x)
    BY <1>4, <2>1 DEF EntitledIn
  <2> QED BY <1>10, <1>11, <2>2
<1>13. ASSUME NEW x \in Assets
       PROVE  accounts'[u].unclaimed_rebates[x] = 0 /\ vault'[x] = vault[x] - Entitled(u, x)
  <2>1. accounts'[u] = d
    BY <1>2, <1>3, <1>4 DEF Become
  <2>2. Rebates(r.history, c)[x] = 0
    BY <1>1, NothingDue
  <2>3. EntitledIn(r, u, x) = amount[x]
    BY <1>6, <2>2 DEF EntitledIn, amount, c
  <2> QED BY <1>6, <1>7, <1>11, <2>1, <2>3
<1> QED BY <1>10, <1>12, <1>13 DEF KeepsEntitlements

(* What History.update records depends on the epoch that closes only.       *)
LEMMA Entries ==
    ASSUME NEW h, HistoryOK(h), NEW r, NEW e, h.epoch # e
    PROVE  /\ update(h, r, e).historic_volumes
                = Recorded(Recorded(h.historic_volumes, h.epoch, update_historic_median(h).volumes),
                           e, NoVolumes(r))
           /\ update_historic_median(h).volumes
                = [h.volumes EXCEPT !.historic_median =
                     IF h.epoch - FirstEpoch < PhaseOutEpochs THEN MaxU128
                     ELSE median(PastVolumes(h))]
<1> DEFINE n == IF h.epoch - FirstEpoch < PhaseOutEpochs THEN MaxU128 ELSE median(PastVolumes(h))
           m == update_historic_median(h)
<1>1. h = [epoch |-> h.epoch, volumes |-> h.volumes, historic_volumes |-> h.historic_volumes,
           balance_to_burn |-> h.balance_to_burn]
  BY DEF HistoryOK
<1>2. m = [h EXCEPT !.volumes = [h.volumes EXCEPT !.historic_median = n]]
  BY DEF update_historic_median
<1> HIDE DEF n, m
<1>3. /\ m.volumes = [h.volumes EXCEPT !.historic_median = n]
      /\ m = [epoch |-> h.epoch, volumes |-> m.volumes, historic_volumes |-> h.historic_volumes,
              balance_to_burn |-> h.balance_to_burn]
      /\ m.historic_volumes = h.historic_volumes
  BY <1>1, <1>2
<1> DEFINE table == Recorded(Recorded(h.historic_volumes, h.epoch, m.volumes), e, NoVolumes(r))
<1>4. update(h, r, e) = [m EXCEPT !.epoch = e, !.volumes = NoVolumes(r),
                                  !.historic_volumes = table]
  BY <1>3 DEF update, m
<1> HIDE DEF table
<1>5. update(h, r, e).historic_volumes = table
  BY <1>3, <1>4
<1> QED BY <1>3, <1>5 DEF table, m, n

(* The DEEP to burn leaves the vault (burn_deep).                           *)
LEMMA BurnDeepKeeps ==
    ASSUME HistoryAssumption, MedianIsNatural, IInv, BurnDeep
    PROVE  IInv' /\ KeepsEntitlements
<1>1. /\ HistoryOK(history) /\ Sound(history, accounts, shares, vault)
      /\ vault \in BalanceSheets /\ history.balance_to_burn \in Nat
      /\ epoch \in Epochs /\ history.epoch <= epoch
  BY DEF IInv, Sound, Covered, HistoryOK
<1>2. /\ history.balance_to_burn <= vault.deep
      /\ vault' = [vault EXCEPT !.deep = @ - history.balance_to_burn]
      /\ history' = [history EXCEPT !.balance_to_burn = 0]
      /\ epoch' = epoch /\ gov' = gov /\ accounts' = accounts /\ shares' = shares
  BY DEF BurnDeep
<1>3. /\ history'.epoch = history.epoch /\ history'.volumes = history.volumes
      /\ history'.historic_volumes = history.historic_volumes /\ history'.balance_to_burn = 0
      /\ HistoryOK(history')
  BY <1>1, <1>2 DEF HistoryOK
<1>4. /\ vault' \in BalanceSheets
      /\ \A x \in Assets :
            vault'[x] = vault[x] - (IF x = "deep" THEN history.balance_to_burn ELSE 0)
  BY <1>1, <1>2 DEF BalanceSheets, Assets
<1>5. ASSUME NEW x \in Assets
      PROVE  ToBurn(history', x) + history'.volumes.total_fees_collected[x] - vault'[x]
               <= ToBurn(history, x) + history.volumes.total_fees_collected[x] - vault[x]
  <2>1. vault[x] \in Nat /\ history.volumes.total_fees_collected[x] \in Nat
    BY <1>1 DEF BalanceSheets, HistoryOK, Volumes
  <2>2. vault'[x] = vault[x] - (IF x = "deep" THEN history.balance_to_burn ELSE 0)
    BY <1>4
  <2> QED BY <1>1, <1>3, <2>1, <2>2 DEF ToBurn
<1>6. Sound(history', accounts, shares, vault')
  BY <1>1, <1>3, <1>4, <1>5, SameAccounts
<1>7. IInv'
  BY <1>2, <1>3, <1>6 DEF IInv
<1>8. H'.historic_volumes = H.historic_volumes
  <2>1. G' = G
    BY <1>2 DEF G
  <2>2. CASE history.epoch = epoch
    BY <1>2, <1>3, <2>2 DEF H, update
  <2>3. CASE history.epoch # epoch
    <3>1. PastVolumes(history') = PastVolumes(history)
      BY <1>3 DEF PastVolumes
    <3>2. /\ H.historic_volumes
                = Recorded(Recorded(history.historic_volumes, history.epoch,
                              update_historic_median(history).volumes), epoch,
                           NoVolumes(G.stake_required))
          /\ update_historic_median(history).volumes
                = [history.volumes EXCEPT !.historic_median =
                     IF history.epoch - FirstEpoch < PhaseOutEpochs THEN MaxU128
                     ELSE median(PastVolumes(history))]
      BY <1>1, <2>3, Entries DEF H
    <3>3. /\ H'.historic_volumes
                = Recorded(Recorded(history'.historic_volumes, history'.epoch,
                              update_historic_median(history').volumes), epoch',
                           NoVolumes(G'.stake_required))
          /\ update_historic_median(history').volumes
                = [history'.volumes EXCEPT !.historic_median =
                     IF history'.epoch - FirstEpoch < PhaseOutEpochs THEN MaxU128
                     ELSE median(PastVolumes(history'))]
      <4>1. history'.epoch # epoch'
        BY <1>2, <1>3, <2>3
      <4>2. H' = update(history', G'.stake_required, epoch')
        BY DEF H
      <4> QED BY <1>3, <4>1, <4>2, Entries
    <3>4. update_historic_median(history').volumes = update_historic_median(history).volumes
      BY <1>3, <3>1, <3>2, <3>3
    <3> QED BY <1>2, <1>3, <2>1, <3>2, <3>3, <3>4
  <2> QED BY <2>2, <2>3
<1>9. ASSUME NEW u \in Users, NEW x \in Assets PROVE Entitled(u, x)' = Entitled(u, x)
  <2>1. Rebates(H, accounts[u])' = Rebates(H, accounts[u])
    BY <1>2, <1>8 DEF Rebates, RebateDue, calculate_rebate_amount, max_rebates
  <2> QED BY <1>2, <2>1 DEF Entitled
<1> QED BY <1>7, <1>9 DEF KeepsEntitlements

(* An epoch begins, and no object knows of it yet.                          *)
LEMMA NextEpochKeeps ==
    ASSUME HistoryAssumption, MedianIsNatural, IInv, NextEpoch
    PROVE  IInv' /\ KeepsEntitlements
<1>1. /\ HistoryOK(history) /\ history.epoch \in Nat /\ epoch \in Nat /\ history.epoch <= epoch
      /\ epoch' = epoch + 1 /\ epoch' \in Epochs /\ history' = history /\ accounts' = accounts
      /\ vault' = vault /\ shares' = shares /\ gov' = gov /\ gov \in Gov
      /\ epoch \in Epochs
  BY DEF NextEpoch, IInv, Sound, HistoryOK, HistoryAssumption, Epochs, Gov
<1>2. IInv'
  BY <1>1 DEF IInv
<1>3. H' = update(history, G'.stake_required, epoch') /\ G'.stake_required \in Nat
  BY <1>1 DEF H, G, Gov, update_governance
<1>4. ASSUME NEW u \in Users, NEW x \in Assets, accounts[u].epoch < epoch
      PROVE  Entitled(u, x)' = Entitled(u, x)
  <2> DEFINE c == accounts[u]
             d == c.epoch
  <2>1. d \in DOMAIN history.historic_volumes /\ d \in Nat /\ d <= history.epoch /\ d < epoch
    BY <1>1, <1>4 DEF IInv, Sound, AccountsOK, AccountOK, Account, HistoryOK
  <2>2. H'.historic_volumes[d] = H.historic_volumes[d]
    <3>1. CASE history.epoch = epoch
      <4>1. H = history
        BY <3>1 DEF H, update
      <4>2. H'.historic_volumes[d] = history.historic_volumes[d]
        BY <1>1, <1>3, <2>1, <3>1, Closed
      <4> QED BY <4>1, <4>2
    <3>2. CASE history.epoch # epoch
      <4> DEFINE closed == update_historic_median(history).volumes
                 inner == Recorded(history.historic_volumes, history.epoch, closed)
      <4>1. H.historic_volumes = Recorded(inner, epoch, NoVolumes(G.stake_required))
        BY <1>1, <3>2, Entries DEF H
      <4>2. H'.historic_volumes = Recorded(inner, epoch', NoVolumes(G'.stake_required))
        <5>1. history.epoch # epoch'
          BY <1>1
        <5> QED BY <1>1, <1>3, <5>1, Entries
      <4>3. d \in DOMAIN inner
        BY <2>1 DEF Recorded
      <4> HIDE DEF inner
      <4>4. d # epoch /\ d # epoch'
        BY <1>1, <2>1
      <4>5. H.historic_volumes[d] = inner[d] /\ H'.historic_volumes[d] = inner[d]
        BY <4>1, <4>2, <4>3, <4>4 DEF Recorded
      <4> QED BY <4>5
    <3> QED BY <3>1, <3>2
  <2>3. calculate_rebate_amount(H', c) = calculate_rebate_amount(H, c)
    BY <2>2 DEF calculate_rebate_amount, max_rebates
  <2>4. d # epoch /\ d # epoch'
    BY <1>1, <2>1
  <2>5. Rebates(H, accounts[u])' = Rebates(H, accounts[u])
    BY <1>1, <2>3, <2>4 DEF Rebates, RebateDue
  <2> QED BY <1>1, <2>5 DEF Entitled
<1> QED BY <1>2, <1>4 DEF KeepsEntitlements

-----------------------------------------------------------------------------
(* The theorems. *)

(* A new pool (state::empty).                                               *)
LEMMA InitSound ==
    ASSUME HistoryAssumption, Init
    PROVE  IInv
<1>1. /\ epoch = FirstEpoch /\ epoch \in Epochs /\ epoch \in Nat
      /\ vault = Nothing /\ shares = [e \in Epochs |-> Nothing]
      /\ accounts = [u \in Users |-> [epoch |-> epoch, maker_volume |-> 0, active_stake |-> 0,
                                      inactive_stake |-> 0, unclaimed_rebates |-> Nothing]]
  BY DEF Init, HistoryAssumption, Epochs
<1>2. PICK required \in StakeRequired :
         /\ gov = [epoch |-> epoch, stake_required |-> required,
                   next_stake_required |-> required]
         /\ history = [epoch |-> epoch, volumes |-> NoVolumes(required),
                       historic_volumes |-> [e \in {epoch} |-> NoVolumes(required)],
                       balance_to_burn |-> 0]
  BY DEF Init
<1>3. required \in Nat /\ N \in Nat /\ Users = 1..N
  BY DEF HistoryAssumption, Users
<1>4. /\ NoVolumes(required) \in Volumes
      /\ NoVolumes(required).total_volume = 0 /\ NoVolumes(required).total_staked_volume = 0
      /\ \A x \in Assets : NoVolumes(required).total_fees_collected[x] = 0
  BY <1>3, NoVolumesFields
<1>5. /\ history.epoch = epoch /\ history.volumes = NoVolumes(required)
      /\ history.balance_to_burn = 0
      /\ history.historic_volumes = [e \in {epoch} |-> NoVolumes(required)]
  BY <1>2
<1>6. HistoryOK(history)
  BY <1>1, <1>2, <1>4, <1>5 DEF HistoryOK
<1>7. ASSUME NEW u \in Users
      PROVE  /\ accounts[u] \in Account /\ accounts[u].epoch = epoch
             /\ accounts[u].maker_volume = 0 /\ accounts[u].active_stake = 0
             /\ accounts[u].inactive_stake = 0 /\ accounts[u].unclaimed_rebates = Nothing
  BY <1>1, NothingSheet DEF Account
<1>8. AccountsOK(history, accounts)
  <2>1. accounts \in [Users -> Account]
    BY <1>1, <1>7
  <2>2. ASSUME NEW u \in Users PROVE AccountOK(history, accounts[u])
    BY <1>4, <1>5, <1>7 DEF AccountOK, VolumesOf
  <2> QED BY <2>1, <2>2 DEF AccountsOK
<1>9. StakedOK(history, accounts)
  <2> DEFINE f == [u \in Users |-> StakedVolume(history, accounts[u])]
  <2>1. \A u \in 1..N : f[u] = 0
    BY <1>3, <1>7 DEF StakedVolume
  <2> HIDE DEF f
  <2>2. Total(f, N) = 0
    BY <1>3, <2>1, TotalZero
  <2> QED BY <1>4, <1>5, <2>2 DEF StakedOK, f
<1>10. SharesOK(history, accounts, shares)
  <2>1. shares \in [Epochs -> BalanceSheets] /\ \A e \in Epochs, x \in Assets : shares[e][x] = 0
    BY <1>1, NothingSheet
  <2>2. \A e \in DOMAIN history.historic_volumes : ~ (e < history.epoch)
    BY <1>1, <1>5
  <2> QED BY <2>1, <2>2 DEF SharesOK
<1>11. Covered(history, accounts, vault)
  <2>1. vault \in BalanceSheets /\ \A x \in Assets : vault[x] = 0
    BY <1>1, NothingSheet
  <2>2. ASSUME NEW x \in Assets
        PROVE  Total(Claims(history, accounts, x), N) = 0
    <3>1. \A u \in Users : Claim(history, accounts[u], x) = 0
      BY <1>5, <1>7, NothingSheet DEF Claim, Share, Due
    <3>2. \A u \in 1..N : Claims(history, accounts, x)[u] = 0
      BY <1>3, <3>1 DEF Claims
    <3> QED BY <1>3, <3>2, TotalZero
  <2>3. \A x \in Assets : ToBurn(history, x) = 0 /\ history.volumes.total_fees_collected[x] = 0
    BY <1>4, <1>5 DEF ToBurn
  <2> QED BY <2>1, <2>2, <2>3 DEF Covered
<1>12. gov \in [epoch : Nat, stake_required : Nat, next_stake_required : Nat]
  BY <1>1, <1>2, <1>3
<1> QED BY <1>1, <1>5, <1>6, <1>8, <1>9, <1>10, <1>11, <1>12 DEF IInv, Sound

(* Every step keeps the invariant and every account's rebates.              *)
LEMMA NextKeeps ==
    ASSUME HistoryAssumption, MedianIsNatural, IInv, Next
    PROVE  IInv' /\ KeepsEntitlements
<1>1. CASE \E taker, maker \in Users, quantity \in Quantities, maker_fee \in MakerFees,
              taker_fee \in TakerFees : Trade(taker, maker, quantity, maker_fee, taker_fee)
  BY <1>1, TradeKeeps
<1>2. CASE \E u \in Users : Touch(u)
  BY <1>2, TouchKeeps
<1>3. CASE \E u \in Users, amount \in StakeAmounts : Stake(u, amount)
  BY <1>3, StakeKeeps
<1>4. CASE \E u \in Users : Unstake(u)
  BY <1>4, UnstakeKeeps
<1>5. CASE \E u \in Users : ClaimRebates(u)
  BY <1>5, ClaimRebatesKeeps
<1>6. CASE BurnDeep
  BY <1>6, BurnDeepKeeps
<1>7. CASE \E u \in Users, required \in StakeRequired : Vote(u, required)
  BY <1>7, VoteKeeps
<1>8. CASE NextEpoch
  BY <1>8, NextEpochKeeps
<1> QED BY <1>1, <1>2, <1>3, <1>4, <1>5, <1>6, <1>7, <1>8 DEF Next

(* The fees of every epoch are followed to the accounts and the vault: the  *)
(* invariant of History holds in every state the handlers reach.            *)
THEOREM Invariance ==
    ASSUME HistoryAssumption, MedianIsNatural
    PROVE  Spec => []IInv
<1>1. Init => IInv
  BY InitSound
<1>2. IInv /\ [Next]_vars => IInv'
  <2> SUFFICES ASSUME IInv, [Next]_vars PROVE IInv'
    OBVIOUS
  <2>1. CASE Next
    BY <2>1, NextKeeps
  <2>2. CASE UNCHANGED vars
    BY <2>2 DEF IInv, vars
  <2> QED BY <2>1, <2>2
<1> QED BY <1>1, <1>2, PTL DEF Spec

(* The epoch an account comes from is always recorded with its volume, so   *)
(* that no handler aborts on an account that stayed away (volumes_of,       *)
(* calculate_rebate_amount).                                                *)
THEOREM RefreshCompletesAlways ==
    ASSUME HistoryAssumption, MedianIsNatural
    PROVE  Spec => []RefreshNeverAborts
<1>1. IInv => RefreshNeverAborts
  <2> SUFFICES ASSUME IInv, NEW u \in Users PROVE RefreshCompletes(H, accounts[u])
    BY DEF RefreshNeverAborts
  <2>1. AccountOK(H, accounts[u]) /\ H.epoch = epoch
    BY Starts DEF SoundState, Start, Sound, AccountsOK
  <2> QED BY <2>1 DEF RefreshCompletes, RebateDue, AccountOK, VolumesOf
<1> QED BY <1>1, Invariance, PTL

(* A share still to come, as the properties state it.                       *)
LEMMA Pending ==
    ASSUME HistoryAssumption, MedianIsNatural, IInv, NEW u \in Users, NEW e, NEW x \in Assets
    PROVE  PendingShare(u, e, x) = ShareIn(H, accounts[u], e, x)
<1>1. Start.history = H /\ Start.accounts = accounts
  BY DEF Start
<1>2. /\ RebateDue(accounts[u]) <=> Due(H, accounts[u])
      /\ Share(H, accounts[u], x)
           = Rebates(H, accounts[u])[x] + (IF x = "deep" THEN Burn(H, accounts[u]) ELSE 0)
  BY <1>1, Starts, Granted
<1>3. ~ Due(H, accounts[u]) => Share(H, accounts[u], x) = 0
  BY DEF Share
<1> QED BY <1>2, <1>3 DEF PendingShare, ShareIn

(* Whatever is staked, unstaked and traded later, the accounts of an epoch  *)
(* are granted, and the burn takes, at most its fees                        *)
(* (calculate_rebate_amount, add_volume).                                   *)
THEOREM SharesStayWithinFees ==
    ASSUME HistoryAssumption, MedianIsNatural
    PROVE  Spec => []SharesWithinFees
<1>1. IInv => SharesWithinFees
  <2> SUFFICES ASSUME IInv, NEW e \in DOMAIN H.historic_volumes, NEW x \in Assets
               PROVE  shares[e][x] + Total([u \in Users |-> PendingShare(u, e, x)], N)
                        <= H.historic_volumes[e].total_fees_collected[x]
    BY DEF SharesWithinFees
  <2>1. [u \in Users |-> PendingShare(u, e, x)] = SharesIn(H, accounts, e, x)
    BY Pending DEF SharesIn
  <2>2. HistoryOK(H) /\ SharesOK(H, accounts, shares) /\ H.epoch = epoch /\ epoch \in Nat
    BY Starts DEF SoundState, Start, Sound
  <2>3. e \in Epochs /\ e \in Int /\ e <= H.epoch /\ H.historic_volumes[e] \in Volumes
    BY <2>2 DEF HistoryOK, HistoryAssumption, Epochs
  <2>4. CASE e < H.epoch
    BY <2>1, <2>2, <2>4 DEF SharesOK
  <2>5. CASE e = H.epoch
    <3>1. shares[e][x] = 0
      BY <2>2, <2>3, <2>5 DEF SharesOK
    <3>2. \A u \in 1..N : SharesIn(H, accounts, e, x)[u] = 0
      BY <2>5 DEF SharesIn, ShareIn, Share, Due, Users
    <3>3. Total(SharesIn(H, accounts, e, x), N) = 0
      BY <3>2, TotalZero DEF HistoryAssumption
    <3>4. H.historic_volumes[e].total_fees_collected[x] \in Nat
      BY <2>3 DEF Volumes, BalanceSheets
    <3> QED BY <2>1, <3>1, <3>3, <3>4
  <2> QED BY <2>2, <2>3, <2>4, <2>5
<1> QED BY <1>1, Invariance, PTL

(* Claims, unstaking and burning are covered together, in every asset       *)
(* (settle_balance_manager, withdraw_deep_to_burn), and no amount becomes   *)
(* negative.                                                                *)
THEOREM VaultAlwaysCovers ==
    ASSUME HistoryAssumption, MedianIsNatural
    PROVE  Spec => []VaultCovers
<1>1. ASSUME IInv PROVE TypeOK
  <2>1. /\ HistoryOK(history) /\ accounts \in [Users -> Account] /\ vault \in BalanceSheets
        /\ shares \in [Epochs -> BalanceSheets] /\ epoch \in Epochs
        /\ gov \in [epoch : Nat, stake_required : Nat, next_stake_required : Nat]
    BY <1>1 DEF IInv, Sound, AccountsOK, SharesOK, Covered
  <2>2. Epochs \subseteq Nat /\ Epochs = FirstEpoch..MaxEpoch
    BY DEF HistoryAssumption, Epochs
  <2>3. /\ history.epoch \in Nat /\ history.balance_to_burn \in Nat
        /\ history.volumes \in Volumes
        /\ \A e \in DOMAIN history.historic_volumes :
              e \in Nat /\ history.historic_volumes[e] \in Volumes
    BY <2>1, <2>2 DEF HistoryOK
  <2>4. epoch \in Nat
    BY <2>1, <2>2
  <2> QED BY <2>1, <2>2, <2>3, <2>4 DEF TypeOK
<1>2. ASSUME IInv, NEW x \in Assets PROVE Owed(x) <= vault[x]
  <2> DEFINE f == [u \in Users |->
                     accounts[u].unclaimed_rebates[x] + PendingShare(u, accounts[u].epoch, x)
                       + (IF x = "deep"
                          THEN accounts[u].active_stake + accounts[u].inactive_stake
                          ELSE 0)]
  <2>1. /\ HistoryOK(H) /\ AccountsOK(H, accounts) /\ Covered(H, accounts, vault)
    BY <1>2, Starts DEF SoundState, Start, Sound
  <2>2. H.balance_to_burn = history.balance_to_burn
    <3>1. /\ HistoryOK(history) /\ history.epoch <= epoch /\ epoch \in Epochs
          /\ epoch \in Nat /\ history.epoch \in Nat /\ G.stake_required \in Nat
      BY <1>2, Starts DEF IInv, Sound, HistoryOK, HistoryAssumption, Epochs, Gov
    <3>2. CASE history.epoch = epoch
      BY <3>2 DEF H, update
    <3>3. CASE history.epoch # epoch
      <4>1. history.epoch < epoch
        BY <3>1, <3>3
      <4> QED BY <3>1, <4>1, Closed DEF H
    <3> QED BY <3>2, <3>3
  <2>3. f = Claims(H, accounts, x)
    <3>1. \A u \in Users : PendingShare(u, accounts[u].epoch, x) = Share(H, accounts[u], x)
      BY <1>2, Pending DEF ShareIn
    <3> QED BY <3>1 DEF Claims, Claim
  <2>4. Total(f, N) \in Nat
    <3>1. \A u \in 1..N : Claim(H, accounts[u], x) \in Nat
      BY <2>1, ClaimNat DEF AccountsOK, Users
    <3>2. \A u \in 1..N : f[u] \in Nat
      BY <2>3, <3>1 DEF Claims, Users
    <3> HIDE DEF f
    <3> QED BY <3>2, TotalNat DEF HistoryAssumption
  <2>5. Owed(x) = Total(f, N) + ToBurn(H, x)
    BY <2>2 DEF Owed, ToBurn
  <2>6. Total(f, N) + ToBurn(H, x) + H.volumes.total_fees_collected[x] <= vault[x]
    BY <2>1, <2>3 DEF Covered
  <2>7. /\ H.volumes.total_fees_collected[x] \in Nat /\ vault[x] \in Nat /\ ToBurn(H, x) \in Nat
    BY <2>1 DEF HistoryOK, Volumes, BalanceSheets, Covered, ToBurn
  <2> HIDE DEF f
  <2> QED BY <2>4, <2>5, <2>6, <2>7
<1>3. IInv => VaultCovers
  BY <1>1, <1>2 DEF VaultCovers
<1> QED BY <1>3, Invariance, PTL

(* Whenever an account comes back, it is granted what it had earned when    *)
(* its epoch closed: no later trade, vote, stake or skipped epoch changes   *)
(* that, and a claim pays it in full (Account.update, History.update).      *)
THEOREM LateRefreshIsHarmless ==
    ASSUME HistoryAssumption, MedianIsNatural
    PROVE  Spec => LateRefreshLosesNothing
<1>1. IInv /\ [Next]_vars => [KeepsEntitlements]_vars
  BY NextKeeps
<1> QED BY <1>1, Invariance, PTL DEF Spec, LateRefreshLosesNothing
=============================================================================
