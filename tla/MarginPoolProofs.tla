-------------------------- MODULE MarginPoolProofs --------------------------
(***************************************************************************)
(* What holds of a margin pool for every number of suppliers and managers,  *)
(* every configuration and every scale: the shares agree, the pool stays    *)
(* solvent, a supplier loses only to a written-off loan, and new parameters *)
(* act from now on.                                                         *)
(***************************************************************************)
EXTENDS MarginPool, ArithmeticLemmas, SequenceTheorems

-----------------------------------------------------------------------------
(* Fees.  A tracker's claim is rounded down; ExactFees counts what the pool *)
(* owes without rounding, in units of 1/Scale.                              *)

Tracker == [current_shares : Nat, last_fees_per_share : Nat, unclaimed_fees : Nat]

FeesOK(f) ==
    /\ f \in [referrals : Seq(Tracker), total_shares : Nat, fees_per_share : Nat,
              maintainer_fees : Nat, protocol_fees : Nat]
    /\ \A r \in DOMAIN f.referrals : f.referrals[r].last_fees_per_share <= f.fees_per_share

Accrued(f, r) ==
    f.referrals[r].current_shares * (f.fees_per_share - f.referrals[r].last_fees_per_share)

Exact(f, r) == f.referrals[r].unclaimed_fees * Scale + Accrued(f, r)

ExactFees(f) ==
    (f.maintainer_fees + f.protocol_fees) * Scale
      + Total([r \in DOMAIN f.referrals |-> Exact(f, r)], Len(f.referrals))

SharesIn(f) ==
    Total([r \in DOMAIN f.referrals |-> f.referrals[r].current_shares], Len(f.referrals))

(* The trackers of well-formed fees.                                        *)
LEMMA TrackerFacts ==
    ASSUME NEW f, FeesOK(f), NEW r \in DOMAIN f.referrals
    PROVE  /\ Len(f.referrals) \in Nat /\ DOMAIN f.referrals = 1..Len(f.referrals)
           /\ f.referrals[r] \in Tracker
           /\ f.fees_per_share - f.referrals[r].last_fees_per_share \in Nat
           /\ Accrued(f, r) \in Nat /\ Exact(f, r) \in Nat
           /\ Unclaimed(f, r) \in Nat /\ Unclaimed(f, r) * Scale <= Exact(f, r)
<1>1. /\ f.referrals \in Seq(Tracker) /\ f.fees_per_share \in Nat
      /\ f.referrals[r].last_fees_per_share <= f.fees_per_share
  BY DEF FeesOK
<1>2. Len(f.referrals) \in Nat /\ DOMAIN f.referrals = 1..Len(f.referrals)
  BY <1>1
<1>3. f.referrals[r] \in Tracker
  BY <1>1, <1>2, ElementOfSeq
<1>4. /\ f.referrals[r].current_shares \in Nat /\ f.referrals[r].unclaimed_fees \in Nat
      /\ f.referrals[r].last_fees_per_share \in Nat
  BY <1>3 DEF Tracker
<1>5. f.fees_per_share - f.referrals[r].last_fees_per_share \in Nat
  BY <1>1, <1>4
<1> DEFINE c == f.referrals[r].current_shares
           d == f.fees_per_share - f.referrals[r].last_fees_per_share
           u == f.referrals[r].unclaimed_fees
<1>6. Accrued(f, r) = c * d /\ Unclaimed(f, r) = u + mul(c, d) /\ Exact(f, r) = u * Scale + c * d
  BY DEF Accrued, Exact, Unclaimed
<1>7. c \in Nat /\ d \in Nat /\ u \in Nat /\ Scale \in Nat
  BY <1>4, <1>5, ScaleAssumption
<1> HIDE DEF c, d, u
<1>8. c * d \in Nat /\ u * Scale \in Nat /\ mul(c, d) \in Nat /\ mul(c, d) * Scale <= c * d
  BY <1>7, MulBounds, TimesNat
<1>9. (u + mul(c, d)) * Scale = u * Scale + mul(c, d) * Scale
  BY <1>7, <1>8, TimesDistributes
<1>10. (u + mul(c, d)) * Scale <= u * Scale + c * d
  BY <1>7, <1>8, <1>9, TimesNat
<1>11. Unclaimed(f, r) \in Nat /\ Unclaimed(f, r) * Scale <= Exact(f, r)
  BY <1>6, <1>7, <1>8, <1>10
<1>12. Accrued(f, r) \in Nat /\ Exact(f, r) \in Nat
  BY <1>6, <1>8
<1> QED BY <1>2, <1>3, <1>5, <1>11, <1>12

(* What is owed without rounding covers what can be claimed.                *)
LEMMA ExactCoversClaims ==
    ASSUME NEW f, FeesOK(f)
    PROVE  /\ ExactFees(f) \in Nat
           /\ Total([r \in DOMAIN f.referrals |-> Unclaimed(f, r)], Len(f.referrals)) \in Nat
           /\ (f.maintainer_fees + f.protocol_fees
                 + Total([r \in DOMAIN f.referrals |-> Unclaimed(f, r)], Len(f.referrals)))
              * Scale <= ExactFees(f)
<1> DEFINE n == Len(f.referrals)
           claim == [r \in DOMAIN f.referrals |-> Unclaimed(f, r)]
           scaled == [r \in DOMAIN f.referrals |-> Unclaimed(f, r) * Scale]
           exact == [r \in DOMAIN f.referrals |-> Exact(f, r)]
           rest == f.maintainer_fees + f.protocol_fees
<1>1. n \in Nat /\ DOMAIN f.referrals = 1..n /\ rest \in Nat /\ Scale \in Nat
  BY ScaleAssumption DEF FeesOK
<1>2. \A r \in 1..n : /\ claim[r] \in Nat /\ scaled[r] = claim[r] * Scale
                      /\ exact[r] \in Nat /\ scaled[r] <= exact[r]
  BY <1>1, TrackerFacts
<1>3. \A r \in 1..n : scaled[r] \in Nat
  BY <1>1, <1>2, TimesNat
<1> HIDE DEF claim, scaled, exact, n, rest
<1>4. Total(claim, n) \in Nat /\ Total(exact, n) \in Nat
  BY <1>1, <1>2, TotalNat
<1>5. Total(scaled, n) = Total(claim, n) * Scale
  BY <1>1, <1>2, TotalTimes
<1>6. Total(scaled, n) <= Total(exact, n)
  BY <1>1, <1>2, <1>3, TotalMonotone
<1>7. (rest + Total(claim, n)) * Scale = rest * Scale + Total(claim, n) * Scale
  BY <1>1, <1>4, TimesDistributes
<1>8. rest * Scale \in Nat
  BY <1>1, TimesNat
<1>9. /\ (rest + Total(claim, n)) * Scale <= rest * Scale + Total(exact, n)
      /\ rest * Scale + Total(exact, n) \in Nat
  BY <1>1, <1>4, <1>5, <1>6, <1>7, <1>8
<1> QED BY <1>4, <1>9 DEF ExactFees, claim, exact, n, rest

(* The fees after a tracker is replaced by one that is up to date.          *)
LEMMA ReplaceTracker ==
    ASSUME NEW f, FeesOK(f), NEW r \in DOMAIN f.referrals,
           NEW t \in Tracker, t.last_fees_per_share = f.fees_per_share,
           NEW g, g \in [referrals : {[f.referrals EXCEPT ![r] = t]}, total_shares : Nat,
                         fees_per_share : {f.fees_per_share},
                         maintainer_fees : {f.maintainer_fees},
                         protocol_fees : {f.protocol_fees}]
    PROVE  /\ FeesOK(g) /\ Len(g.referrals) = Len(f.referrals)
           /\ \A q \in DOMAIN f.referrals :
                 g.referrals[q] = IF q = r THEN t ELSE f.referrals[q]
           /\ ExactFees(g) = ExactFees(f) - Exact(f, r) + t.unclaimed_fees * Scale
           /\ SharesIn(g) = SharesIn(f) - f.referrals[r].current_shares + t.current_shares
<1> DEFINE n == Len(f.referrals)
<1>1. /\ n \in Nat /\ DOMAIN f.referrals = 1..n /\ r \in 1..n /\ f.referrals[r] \in Tracker
      /\ f.referrals \in Seq(Tracker) /\ f.fees_per_share \in Nat
      /\ f.maintainer_fees \in Nat /\ f.protocol_fees \in Nat
      /\ t.current_shares \in Nat /\ t.unclaimed_fees \in Nat
  BY TrackerFacts DEF FeesOK, Tracker
<1>2. /\ g.referrals = [f.referrals EXCEPT ![r] = t]
      /\ g.fees_per_share = f.fees_per_share
      /\ g.maintainer_fees = f.maintainer_fees /\ g.protocol_fees = f.protocol_fees
  OBVIOUS
<1>3. /\ g.referrals \in Seq(Tracker) /\ Len(g.referrals) = n /\ DOMAIN g.referrals = 1..n
      /\ \A q \in 1..n : g.referrals[q] = IF q = r THEN t ELSE f.referrals[q]
  BY <1>1, <1>2, ExceptSeq
<1>4. g \in [referrals : Seq(Tracker), total_shares : Nat, fees_per_share : Nat,
             maintainer_fees : Nat, protocol_fees : Nat]
  BY <1>1, <1>2, <1>3
<1>5. FeesOK(g)
  <2>1. \A q \in 1..n : f.referrals[q].last_fees_per_share <= f.fees_per_share
    BY <1>1 DEF FeesOK
  <2>2. t.last_fees_per_share <= f.fees_per_share
    BY <1>1
  <2>3. \A q \in DOMAIN g.referrals : g.referrals[q].last_fees_per_share <= g.fees_per_share
    BY <1>2, <1>3, <2>1, <2>2
  <2> QED BY <1>4, <2>3 DEF FeesOK
<1> HIDE DEF n
<1>r. n \in Nat /\ r \in 1..n
  BY <1>1
<1>6. ExactFees(g) = ExactFees(f) - Exact(f, r) + t.unclaimed_fees * Scale
  <2> DEFINE a == [q \in DOMAIN f.referrals |-> Exact(f, q)]
             b == [q \in DOMAIN g.referrals |-> Exact(g, q)]
             rest == (f.maintainer_fees + f.protocol_fees) * Scale
             unclaimed == t.unclaimed_fees * Scale
  <2>1. \A q \in 1..n : a[q] \in Int /\ b[q] \in Int
    BY <1>1, <1>3, <1>5, TrackerFacts
  <2>2. \A q \in 1..n : q # r => a[q] = b[q]
    BY <1>1, <1>2, <1>3 DEF Exact, Accrued
  <2>3. unclaimed \in Int /\ rest \in Int
    BY <1>1, ScaleAssumption, TimesNat
  <2>4. b[r] = unclaimed /\ a[r] = Exact(f, r)
    <3>1. b[r] = unclaimed + t.current_shares * (f.fees_per_share - f.fees_per_share)
      BY <1>1, <1>2, <1>3 DEF Exact, Accrued
    <3>2. t.current_shares * (f.fees_per_share - f.fees_per_share) = 0
      BY <1>1
    <3> QED BY <1>1, <2>3, <3>1, <3>2
  <2>5. /\ ExactFees(f) = rest + Total(a, n)
        /\ ExactFees(g) = rest + Total(b, n)
    BY <1>2, <1>3 DEF ExactFees, n
  <2> HIDE DEF a, b, rest, unclaimed
  <2>6. Total(b, n) = Total(a, n) + b[r] - a[r]
    <3>1. OneChange(a, b, n, r)
      BY <2>1, <2>2 DEF OneChange
    <3> QED BY <1>r, <3>1, TotalOneChange
  <2>7. Total(a, n) \in Int /\ a[r] \in Int
    BY <1>1, <2>1, TotalType
  <2>8. ExactFees(g) = ExactFees(f) - Exact(f, r) + unclaimed
    BY <2>3, <2>4, <2>5, <2>6, <2>7
  <2> QED BY <2>8 DEF unclaimed
<1>7. SharesIn(g) = SharesIn(f) - f.referrals[r].current_shares + t.current_shares
  <2> DEFINE a == [q \in DOMAIN f.referrals |-> f.referrals[q].current_shares]
             b == [q \in DOMAIN g.referrals |-> g.referrals[q].current_shares]
  <2>1. \A q \in 1..n : a[q] \in Int /\ b[q] \in Int
    <3> SUFFICES ASSUME NEW q \in 1..n PROVE a[q] \in Int /\ b[q] \in Int
      OBVIOUS
    <3>1. f.referrals[q] \in Tracker /\ g.referrals[q] \in Tracker
      BY <1>1, <1>3, ElementOfSeq
    <3>2. f.referrals[q].current_shares \in Nat /\ g.referrals[q].current_shares \in Nat
      BY <3>1 DEF Tracker
    <3>3. a[q] = f.referrals[q].current_shares /\ b[q] = g.referrals[q].current_shares
      BY <1>1, <1>3
    <3> HIDE DEF a, b
    <3> QED BY <3>2, <3>3
  <2>2. \A q \in 1..n : q # r => a[q] = b[q]
    BY <1>1, <1>3
  <2>3. b[r] = t.current_shares /\ a[r] = f.referrals[r].current_shares
    BY <1>1, <1>3
  <2>4. SharesIn(f) = Total(a, n) /\ SharesIn(g) = Total(b, n)
    BY <1>3 DEF SharesIn, n
  <2> HIDE DEF a, b
  <2>5. Total(b, n) = Total(a, n) + b[r] - a[r]
    <3>1. OneChange(a, b, n, r)
      BY <2>1, <2>2 DEF OneChange
    <3> QED BY <1>r, <3>1, TotalOneChange
  <2>6. Total(a, n) \in Int /\ a[r] \in Int /\ b[r] \in Int
    BY <1>1, <2>1, TotalType
  <2> QED BY <2>3, <2>4, <2>5, <2>6
<1> QED BY <1>1, <1>3, <1>5, <1>6, <1>7 DEF n

(* A change of shares settles what the tracker has earned and leaves the    *)
(* others alone; no fee appears from nowhere.                               *)
LEMMA ChangeShares ==
    ASSUME NEW f, FeesOK(f), NEW r \in DOMAIN f.referrals, NEW change \in Int,
           f.referrals[r].current_shares + change \in Nat, f.total_shares + change \in Nat,
           SharesIn(f) = f.total_shares
    PROVE  LET g == change_shares(f, r, change)
           IN  /\ FeesOK(g) /\ ExactFees(g) <= ExactFees(f)
               /\ Len(g.referrals) = Len(f.referrals)
               /\ g.total_shares = f.total_shares + change
               /\ SharesIn(g) = g.total_shares
               /\ \A q \in DOMAIN f.referrals :
                     g.referrals[q].current_shares =
                        f.referrals[q].current_shares + IF q = r THEN change ELSE 0
<1> DEFINE t == [update_unclaimed_fees(f, r) EXCEPT !.current_shares = @ + change]
           g == change_shares(f, r, change)
<1>1. /\ f.referrals[r] \in Tracker /\ f.fees_per_share \in Nat /\ f.total_shares \in Nat
      /\ Unclaimed(f, r) \in Nat /\ Unclaimed(f, r) * Scale <= Exact(f, r)
      /\ Exact(f, r) \in Nat /\ ExactFees(f) \in Nat
      /\ f.referrals[r].current_shares \in Nat
  BY TrackerFacts, ExactCoversClaims DEF FeesOK, Tracker
<1>2. /\ t \in Tracker
      /\ t.current_shares = f.referrals[r].current_shares + change
      /\ t.last_fees_per_share = f.fees_per_share
      /\ t.unclaimed_fees = Unclaimed(f, r)
  BY <1>1 DEF Tracker, update_unclaimed_fees
<1> HIDE DEF t
<1>3. g = [f EXCEPT !.referrals[r] = t, !.total_shares = @ + change]
  BY DEF change_shares, t
<1>4. g \in [referrals : {[f.referrals EXCEPT ![r] = t]}, total_shares : Nat,
             fees_per_share : {f.fees_per_share}, maintainer_fees : {f.maintainer_fees},
             protocol_fees : {f.protocol_fees}]
      /\ g.total_shares = f.total_shares + change
  BY <1>3 DEF FeesOK
<1> HIDE DEF g
<1>5. /\ FeesOK(g) /\ Len(g.referrals) = Len(f.referrals)
      /\ \A q \in DOMAIN f.referrals :
            g.referrals[q] = IF q = r THEN t ELSE f.referrals[q]
      /\ ExactFees(g) = ExactFees(f) - Exact(f, r) + Unclaimed(f, r) * Scale
      /\ SharesIn(g) = SharesIn(f) - f.referrals[r].current_shares + t.current_shares
  BY <1>2, <1>4, ReplaceTracker
<1>6. Unclaimed(f, r) * Scale \in Nat
  BY <1>1, ScaleAssumption, TimesNat
<1>7. ExactFees(g) <= ExactFees(f)
  BY <1>1, <1>5, <1>6
<1>9. SharesIn(g) = g.total_shares
  <2> DEFINE held == f.referrals[r].current_shares
             all == f.total_shares
  <2>1. SharesIn(g) = all - held + (held + change) /\ g.total_shares = all + change
    BY <1>2, <1>4, <1>5
  <2>2. held \in Int /\ all \in Int
    BY <1>1
  <2> HIDE DEF held, all
  <2> QED BY <2>1, <2>2
<1>8. ASSUME NEW q \in DOMAIN f.referrals
      PROVE  g.referrals[q].current_shares =
                f.referrals[q].current_shares + IF q = r THEN change ELSE 0
  <2>1. f.referrals[q].current_shares \in Nat
    BY TrackerFacts DEF Tracker
  <2> QED BY <1>2, <1>5, <2>1
<1> QED BY <1>4, <1>5, <1>7, <1>8, <1>9 DEF g

(* What a referral claims is taken off what is owed.                        *)
LEMMA ClaimFees ==
    ASSUME NEW f, FeesOK(f), NEW r \in DOMAIN f.referrals, SharesIn(f) = f.total_shares
    PROVE  LET g == [f EXCEPT !.referrals[r] =
                        [update_unclaimed_fees(f, r) EXCEPT !.unclaimed_fees = 0]]
           IN  /\ FeesOK(g) /\ ExactFees(g) + Unclaimed(f, r) * Scale <= ExactFees(f)
               /\ Len(g.referrals) = Len(f.referrals)
               /\ g.total_shares = f.total_shares
               /\ SharesIn(g) = g.total_shares
               /\ \A q \in DOMAIN f.referrals :
                     g.referrals[q].current_shares = f.referrals[q].current_shares
<1> DEFINE t == [update_unclaimed_fees(f, r) EXCEPT !.unclaimed_fees = 0]
           g == [f EXCEPT !.referrals[r] = t]
<1>1. /\ f.referrals[r] \in Tracker /\ f.fees_per_share \in Nat /\ f.total_shares \in Nat
      /\ Unclaimed(f, r) \in Nat /\ Unclaimed(f, r) * Scale <= Exact(f, r)
      /\ Exact(f, r) \in Nat /\ ExactFees(f) \in Nat
      /\ f.referrals[r].current_shares \in Nat
  BY TrackerFacts, ExactCoversClaims DEF FeesOK, Tracker
<1>2. /\ t \in Tracker
      /\ t.current_shares = f.referrals[r].current_shares
      /\ t.last_fees_per_share = f.fees_per_share
      /\ t.unclaimed_fees = 0
  BY <1>1 DEF Tracker, update_unclaimed_fees
<1> HIDE DEF t
<1>4. g \in [referrals : {[f.referrals EXCEPT ![r] = t]}, total_shares : Nat,
             fees_per_share : {f.fees_per_share}, maintainer_fees : {f.maintainer_fees},
             protocol_fees : {f.protocol_fees}]
      /\ g.total_shares = f.total_shares
  BY DEF FeesOK
<1> HIDE DEF g
<1>5. /\ FeesOK(g) /\ Len(g.referrals) = Len(f.referrals)
      /\ \A q \in DOMAIN f.referrals :
            g.referrals[q] = IF q = r THEN t ELSE f.referrals[q]
      /\ ExactFees(g) = ExactFees(f) - Exact(f, r) + 0 * Scale
      /\ SharesIn(g) = SharesIn(f) - f.referrals[r].current_shares + t.current_shares
  BY <1>2, <1>4, ReplaceTracker
<1>6. Unclaimed(f, r) * Scale \in Nat /\ 0 * Scale = 0
  BY <1>1, ScaleAssumption, TimesNat
<1>7. ExactFees(g) + Unclaimed(f, r) * Scale <= ExactFees(f) /\ SharesIn(g) = g.total_shares
  BY <1>1, <1>2, <1>4, <1>5, <1>6
<1>8. ASSUME NEW q \in DOMAIN f.referrals
      PROVE  g.referrals[q].current_shares = f.referrals[q].current_shares
  BY <1>2, <1>5
<1> QED BY <1>4, <1>5, <1>7, <1>8 DEF g, t

(* A new tracker owes nothing.                                              *)
LEMMA MintTracker ==
    ASSUME NEW f, FeesOK(f), SharesIn(f) = f.total_shares
    PROVE  LET g == [f EXCEPT !.referrals = Append(@, NewTracker(f.fees_per_share))]
           IN  /\ FeesOK(g) /\ ExactFees(g) = ExactFees(f)
               /\ Len(g.referrals) = Len(f.referrals) + 1
               /\ g.total_shares = f.total_shares
               /\ SharesIn(g) = g.total_shares
               /\ \A q \in DOMAIN g.referrals :
                     g.referrals[q].current_shares =
                        IF q = Len(g.referrals) THEN 0 ELSE f.referrals[q].current_shares
<1> DEFINE n == Len(f.referrals)
           t == NewTracker(f.fees_per_share)
           g == [f EXCEPT !.referrals = Append(@, t)]
<1>1. /\ n \in Nat /\ DOMAIN f.referrals = 1..n /\ f.referrals \in Seq(Tracker)
      /\ f.fees_per_share \in Nat /\ f.total_shares \in Nat
      /\ f.maintainer_fees \in Nat /\ f.protocol_fees \in Nat
  BY DEF FeesOK
<1>2. /\ t \in Tracker /\ t.current_shares = 0 /\ t.unclaimed_fees = 0
      /\ t.last_fees_per_share = f.fees_per_share
  BY <1>1 DEF NewTracker, Tracker
<1> HIDE DEF t
<1>3. /\ g.referrals = Append(f.referrals, t)
      /\ g.fees_per_share = f.fees_per_share /\ g.total_shares = f.total_shares
      /\ g.maintainer_fees = f.maintainer_fees /\ g.protocol_fees = f.protocol_fees
  BY DEF FeesOK
<1>4. /\ g.referrals \in Seq(Tracker) /\ Len(g.referrals) = n + 1
      /\ DOMAIN g.referrals = 1..(n + 1)
      /\ \A q \in 1..n : g.referrals[q] = f.referrals[q]
      /\ g.referrals[n + 1] = t
  BY <1>1, <1>2, <1>3, AppendProperties
<1>5. g \in [referrals : Seq(Tracker), total_shares : Nat, fees_per_share : Nat,
             maintainer_fees : Nat, protocol_fees : Nat]
  BY <1>1, <1>3, <1>4 DEF FeesOK
<1> HIDE DEF g, n
<1>6. \A q \in 1..(n + 1) : q \in 1..n \/ q = n + 1
  BY <1>1
<1>7. FeesOK(g)
  <2>1. \A q \in 1..n : f.referrals[q].last_fees_per_share <= f.fees_per_share
    BY <1>1 DEF FeesOK
  <2>2. t.last_fees_per_share <= f.fees_per_share
    BY <1>1, <1>2
  <2>3. \A q \in DOMAIN g.referrals : g.referrals[q].last_fees_per_share <= g.fees_per_share
    BY <1>3, <1>4, <1>6, <2>1, <2>2
  <2> QED BY <1>5, <2>3 DEF FeesOK
<1>8. ExactFees(g) = ExactFees(f)
  <2> DEFINE a == [q \in DOMAIN f.referrals |-> Exact(f, q)]
             b == [q \in DOMAIN g.referrals |-> Exact(g, q)]
             rest == (f.maintainer_fees + f.protocol_fees) * Scale
  <2>1. (\A q \in 1..n : a[q] \in Int) /\ (\A q \in 1..(n + 1) : b[q] \in Int)
    BY <1>1, <1>4, <1>7, TrackerFacts
  <2>2. \A q \in 1..n : a[q] = b[q]
    BY <1>1, <1>3, <1>4 DEF Exact, Accrued
  <2>3. b[n + 1] = 0
    <3>1. b[n + 1] = 0 * Scale + 0 * (f.fees_per_share - f.fees_per_share)
      BY <1>1, <1>2, <1>3, <1>4 DEF Exact, Accrued
    <3> QED BY <1>1, <3>1, ScaleAssumption
  <2>4. ExactFees(f) = rest + Total(a, n) /\ ExactFees(g) = rest + Total(b, n + 1)
    BY <1>3, <1>4 DEF ExactFees, n
  <2> HIDE DEF a, b, rest
  <2>5. Total(b, n + 1) = Total(a, n) + b[n + 1]
    BY <1>1, <2>1, <2>2, TotalExtend
  <2>6. Total(a, n) \in Int
    BY <1>1, <2>1, TotalType
  <2> QED BY <2>3, <2>4, <2>5, <2>6
<1>9. SharesIn(g) = SharesIn(f)
  <2> DEFINE a == [q \in DOMAIN f.referrals |-> f.referrals[q].current_shares]
             b == [q \in DOMAIN g.referrals |-> g.referrals[q].current_shares]
  <2>1. \A q \in 1..(n + 1) : b[q] \in Int
    <3> SUFFICES ASSUME NEW q \in 1..(n + 1) PROVE b[q] \in Int
      OBVIOUS
    <3>1. g.referrals[q] \in Tracker
      BY <1>4, ElementOfSeq
    <3>2. g.referrals[q].current_shares \in Nat
      BY <3>1 DEF Tracker
    <3> QED BY <1>4, <3>2
  <2>2. \A q \in 1..n : a[q] = b[q]
    BY <1>1, <1>4
  <2>3. b[n + 1] = 0
    BY <1>1, <1>2, <1>4
  <2>4. SharesIn(f) = Total(a, n) /\ SharesIn(g) = Total(b, n + 1)
    BY <1>4 DEF SharesIn, n
  <2> HIDE DEF a, b
  <2>5. \A q \in 1..n : a[q] \in Int
    BY <1>1, <2>1, <2>2
  <2>6. Total(b, n + 1) = Total(a, n) + b[n + 1]
    BY <1>1, <2>1, <2>2, TotalExtend
  <2>7. Total(a, n) \in Int
    BY <1>1, <2>5, TotalType
  <2> QED BY <2>3, <2>4, <2>6, <2>7
<1>10. ASSUME NEW q \in DOMAIN g.referrals
       PROVE  g.referrals[q].current_shares =
                 IF q = n + 1 THEN 0 ELSE f.referrals[q].current_shares
  BY <1>2, <1>4, <1>6
<1> QED BY <1>3, <1>4, <1>7, <1>8, <1>9, <1>10 DEF g, n, t

(* A rise of the fees per share, and of the other two accounts, adds what   *)
(* all the shares earn by it.                                               *)
LEMMA RaiseFees ==
    ASSUME NEW f, FeesOK(f), SharesIn(f) = f.total_shares,
           NEW delta \in Nat, NEW x \in Nat, NEW y \in Nat,
           NEW g, g \in [referrals : {f.referrals}, total_shares : {f.total_shares},
                         fees_per_share : {f.fees_per_share + delta},
                         maintainer_fees : {f.maintainer_fees + x},
                         protocol_fees : {f.protocol_fees + y}]
    PROVE  /\ FeesOK(g) /\ SharesIn(g) = g.total_shares
           /\ g.referrals = f.referrals /\ g.total_shares = f.total_shares
           /\ ExactFees(g) = ExactFees(f) + f.total_shares * delta + (x + y) * Scale
<1> DEFINE n == Len(f.referrals)
<1>1. /\ n \in Nat /\ DOMAIN f.referrals = 1..n /\ f.referrals \in Seq(Tracker)
      /\ f.fees_per_share \in Nat /\ f.total_shares \in Nat
      /\ f.maintainer_fees \in Nat /\ f.protocol_fees \in Nat /\ Scale \in Nat
  BY ScaleAssumption DEF FeesOK
<1>2. /\ g.referrals = f.referrals /\ g.total_shares = f.total_shares
      /\ g.fees_per_share = f.fees_per_share + delta
      /\ g.maintainer_fees = f.maintainer_fees + x /\ g.protocol_fees = f.protocol_fees + y
  OBVIOUS
<1>3. g.fees_per_share \in Nat /\ g.maintainer_fees \in Nat /\ g.protocol_fees \in Nat
  <2>1. \A a, b \in Nat : a + b \in Nat
    OBVIOUS
  <2> QED BY <1>1, <1>2, <2>1, Zenon
<1>4. g \in [referrals : Seq(Tracker), total_shares : Nat, fees_per_share : Nat,
             maintainer_fees : Nat, protocol_fees : Nat]
  BY <1>1, <1>2, <1>3
<1> HIDE DEF n
<1>5. FeesOK(g)
  <2>1. ASSUME NEW r \in DOMAIN g.referrals
        PROVE  g.referrals[r].last_fees_per_share <= g.fees_per_share
    <3> DEFINE last == f.referrals[r].last_fees_per_share
               fps == f.fees_per_share
    <3>1. r \in DOMAIN f.referrals
      BY <1>2
    <3>2. f.referrals[r] \in Tracker /\ last <= fps
      BY <3>1, TrackerFacts DEF FeesOK
    <3>3. last \in Nat /\ fps \in Nat
      BY <1>1, <3>2 DEF Tracker
    <3>4. g.referrals[r].last_fees_per_share = last /\ g.fees_per_share = fps + delta
      BY <1>2
    <3> HIDE DEF last, fps
    <3> QED BY <3>2, <3>3, <3>4
  <2> QED BY <1>4, <2>1 DEF FeesOK
<1>6. ExactFees(g) = ExactFees(f) + f.total_shares * delta + (x + y) * Scale
  <2> DEFINE a == [q \in DOMAIN f.referrals |-> Exact(f, q)]
             b == [q \in DOMAIN g.referrals |-> Exact(g, q)]
             c == [q \in DOMAIN f.referrals |-> f.referrals[q].current_shares]
             d == [q \in DOMAIN f.referrals |-> f.referrals[q].current_shares * delta]
             rest == f.maintainer_fees + f.protocol_fees
  <2>1. ASSUME NEW q \in 1..n
        PROVE  /\ a[q] \in Int /\ c[q] \in Int /\ d[q] = c[q] * delta
               /\ d[q] \in Int /\ b[q] = a[q] + d[q]
    <3> DEFINE s == f.referrals[q].current_shares
               last == f.referrals[q].last_fees_per_share
               fps == f.fees_per_share
               v == f.referrals[q].unclaimed_fees
    <3>1. f.referrals[q] \in Tracker
      BY <1>1, TrackerFacts
    <3>2. s \in Nat /\ last \in Nat /\ fps \in Nat /\ v \in Nat
      BY <1>1, <3>1 DEF Tracker
    <3>3. /\ b[q] = v * Scale + s * ((fps + delta) - last) /\ a[q] = v * Scale + s * (fps - last)
          /\ c[q] = s /\ d[q] = s * delta
      BY <1>1, <1>2 DEF Exact, Accrued
    <3> HIDE DEF s, last, fps, v, a, b, c, d
    <3>4. /\ (fps + delta) - last = (fps - last) + delta /\ fps - last \in Int
      BY <3>2
    <3>5. s * ((fps - last) + delta) = s * (fps - last) + s * delta
      BY <3>2, <3>4, TimesDistributes
    <3>6. v * Scale \in Int /\ s * (fps - last) \in Int /\ s * delta \in Int
      BY <1>1, <3>2, <3>4, TimesReorder
    <3> QED BY <3>2, <3>3, <3>4, <3>5, <3>6
  <2>2. /\ ExactFees(f) = rest * Scale + Total(a, n) /\ SharesIn(f) = Total(c, n)
        /\ ExactFees(g) = (g.maintainer_fees + g.protocol_fees) * Scale + Total(b, n)
    BY <1>2 DEF ExactFees, SharesIn, n
  <2>3. rest \in Int /\ g.maintainer_fees + g.protocol_fees = rest + (x + y)
    BY <1>1, <1>2
  <2> HIDE DEF a, b, c, d, rest
  <2>4. \A q \in 1..n : a[q] \in Int /\ d[q] \in Int /\ b[q] = a[q] + d[q]
    BY <2>1
  <2>5. \A q \in 1..n : c[q] \in Int /\ d[q] = c[q] * delta
    BY <2>1
  <2>6. Total(b, n) = Total(a, n) + Total(d, n)
    <3>1. n \in Nat
      BY <1>1
    <3> QED BY <2>4, <3>1, TotalAdd, Zenon
  <2>7. Total(d, n) = Total(c, n) * delta
    <3>1. delta \in Int /\ n \in Nat
      BY <1>1
    <3> QED BY <3>1, <2>5, TotalTimes, Zenon
  <2>8. (rest + (x + y)) * Scale = rest * Scale + (x + y) * Scale
    BY <1>1, <2>3, TimesDistributes
  <2>9. Total(a, n) \in Int
    BY <1>1, <2>4, TotalType
  <2>10. rest * Scale \in Int /\ (x + y) * Scale \in Int /\ f.total_shares * delta \in Int
    BY <1>1, <2>3, TimesReorder
  <2>11. ExactFees(g) = (rest * Scale + (x + y) * Scale) + (Total(a, n) + f.total_shares * delta)
    BY <2>2, <2>3, <2>6, <2>7, <2>8
  <2> QED BY <2>2, <2>9, <2>10, <2>11
<1>7. SharesIn(g) = g.total_shares
  BY <1>2 DEF SharesIn
<1> QED BY <1>2, <1>5, <1>6, <1>7

(* Fees that accrue are distributed in full or, by rounding, in part.       *)
LEMMA AccrueFees ==
    ASSUME NEW f, FeesOK(f), SharesIn(f) = f.total_shares, NEW accrued \in Nat
    PROVE  LET g == increase_fees_accrued(f, accrued)
           IN  /\ FeesOK(g) /\ SharesIn(g) = g.total_shares
               /\ g.referrals = f.referrals /\ g.total_shares = f.total_shares
               /\ ExactFees(g) <= ExactFees(f) + accrued * Scale
<1> DEFINE quarter == accrued \div 4
           part == accrued - 2 * quarter
           g == increase_fees_accrued(f, accrued)
           all == f.total_shares
<1>1. all \in Nat /\ ExactFees(f) \in Nat /\ Scale \in Nat
  BY ScaleAssumption, ExactCoversClaims DEF FeesOK
<1>2. /\ quarter \in Nat /\ part \in Nat /\ part + (quarter + quarter) = accrued
      /\ part \div 2 \in Nat /\ part - part \div 2 \in Nat
  OBVIOUS
<1>3. CASE all > 0
  <2> DEFINE delta == div(part, all)
  <2>1. g = [f EXCEPT !.fees_per_share = @ + delta, !.maintainer_fees = @ + quarter,
                      !.protocol_fees = @ + quarter]
    BY <1>3 DEF increase_fees_accrued
  <2> HIDE DEF g, quarter, part
  <2>2. delta \in Nat /\ delta * all <= part * Scale
    <3>1. all \in Nat \ {0} /\ part \in Nat
      BY <1>1, <1>2, <1>3
    <3> HIDE DEF all
    <3> QED BY <3>1, DivBounds
  <2> HIDE DEF delta
  <2>3. g \in [referrals : {f.referrals}, total_shares : {f.total_shares},
               fees_per_share : {f.fees_per_share + delta},
               maintainer_fees : {f.maintainer_fees + quarter},
               protocol_fees : {f.protocol_fees + quarter}]
    BY <2>1 DEF FeesOK
  <2>4. /\ FeesOK(g) /\ SharesIn(g) = g.total_shares
        /\ g.referrals = f.referrals /\ g.total_shares = f.total_shares
        /\ ExactFees(g) = ExactFees(f) + all * delta + (quarter + quarter) * Scale
    BY <1>2, <2>2, <2>3, RaiseFees
  <2> HIDE DEF all
  <2>5. /\ (part + (quarter + quarter)) * Scale = part * Scale + (quarter + quarter) * Scale
        /\ all * delta = delta * all /\ delta * all \in Int /\ part * Scale \in Int
        /\ (quarter + quarter) * Scale \in Int
    BY <1>1, <1>2, <2>2, TimesDistributes, TimesReorder
  <2>6. ExactFees(g) <= ExactFees(f) + accrued * Scale
    BY <1>1, <1>2, <2>2, <2>4, <2>5
  <2> QED BY <2>4, <2>6 DEF g
<1>4. CASE ~ (all > 0)
  <2> DEFINE x == quarter + part \div 2
             y == quarter + (part - part \div 2)
  <2>1. g = [f EXCEPT !.maintainer_fees = @ + quarter + part \div 2,
                      !.protocol_fees = @ + quarter + part - part \div 2]
    BY <1>4 DEF increase_fees_accrued
  <2> HIDE DEF g, quarter, part
  <2>2. x \in Nat /\ y \in Nat /\ x + y = accrued
    BY <1>2
  <2>3. /\ f.maintainer_fees + quarter + part \div 2 = f.maintainer_fees + x
        /\ f.protocol_fees + quarter + part - part \div 2 = f.protocol_fees + y
        /\ f.fees_per_share + 0 = f.fees_per_share
    BY <1>2 DEF FeesOK
  <2> HIDE DEF x, y
  <2>4. g \in [referrals : {f.referrals}, total_shares : {f.total_shares},
               fees_per_share : {f.fees_per_share + 0},
               maintainer_fees : {f.maintainer_fees + x},
               protocol_fees : {f.protocol_fees + y}]
    BY <2>1, <2>3 DEF FeesOK
  <2>5. 0 \in Nat
    OBVIOUS
  <2>6. /\ FeesOK(g) /\ SharesIn(g) = g.total_shares
        /\ g.referrals = f.referrals /\ g.total_shares = f.total_shares
        /\ ExactFees(g) = ExactFees(f) + all * 0 + (x + y) * Scale
    BY <2>2, <2>4, <2>5, RaiseFees
  <2> HIDE DEF all
  <2>7. all * 0 = 0 /\ accrued * Scale \in Int
    BY <1>1
  <2>8. ExactFees(g) <= ExactFees(f) + accrued * Scale
    BY <1>1, <2>2, <2>6, <2>7
  <2> QED BY <2>6, <2>8 DEF g
<1> QED BY <1>3, <1>4

-----------------------------------------------------------------------------
(* The inductive invariant: every field has its type, the shares agree, the *)
(* trackers hold all the shares, and the coins and loans back the supply    *)
(* and the fees before rounding.                                            *)

StateRecord ==
    [total_supply : Nat, total_borrow : Nat, supply_shares : Nat, borrow_shares : Nat,
     last_update_timestamp : Nat]

Position == [shares : Nat, referral : Nat]

LimiterRecord ==
    [available : Nat, last_updated_ms : Nat, capacity : Nat, refill_rate_per_ms : Nat,
     enabled : BOOLEAN]

LimiterOK(l, at) ==
    l \in LimiterRecord /\ l.available <= l.capacity /\ l.last_updated_ms <= at

TypeInv ==
    /\ now \in Nat /\ vault \in Nat /\ ops \in Nat /\ allowed \in BOOLEAN
    /\ state \in StateRecord /\ state.last_update_timestamp <= now
    /\ config \in [pool : MarginPoolConfig, interest : InterestConfig]
    /\ loans \in [1..Managers -> Nat] /\ wealth \in [1..Managers -> Nat]
    /\ LimiterOK(limiter, now)

PositionsOK(p, f) ==
    /\ p \in [1..Suppliers -> Position]
    /\ \A u \in 1..Suppliers : /\ p[u].referral <= Len(f.referrals)
                               /\ p[u].referral = NoReferral => p[u].shares = 0

Held(p) == [u \in 1..Suppliers |-> p[u].shares]
Named(p, r) == [u \in 1..Suppliers |-> IF p[u].referral = r THEN p[u].shares ELSE 0]

(* What suppliers, state and trackers say of the shares of the supply. *)
SupplyAgrees(p, s, f) ==
    /\ s.supply_shares = Total(Held(p), Suppliers)
    /\ f.total_shares = s.supply_shares
    /\ SharesIn(f) = f.total_shares
    /\ \A r \in DOMAIN f.referrals :
          f.referrals[r].current_shares = Total(Named(p, r), Suppliers)

Backed(v, s, f) ==
    ExactFees(f) + s.total_supply * Scale <= (v + s.total_borrow) * Scale

IInv ==
    /\ TypeInv
    /\ FeesOK(fees)
    /\ PositionsOK(positions, fees)
    /\ SupplyAgrees(positions, state, fees)
    /\ state.borrow_shares = Total(loans, Managers)
    /\ Backed(vault, state, fees)

(* What is owed, with a more than before, is covered by what there is, if   *)
(* that grew as much.                                                       *)
LEMMA StillCovered ==
    ASSUME NEW e \in Int, NEW e2 \in Int, NEW a \in Int, NEW a2 \in Int, NEW c \in Int,
           NEW c2 \in Int, NEW d \in Int,
           e + a * Scale <= c * Scale, e2 <= e + d * Scale, d + a2 - a <= c2 - c
    PROVE  e2 + a2 * Scale <= c2 * Scale
<1>1. Scale \in Nat
  BY ScaleAssumption
<1>2. ((d + a2) - a) * Scale <= (c2 - c) * Scale
  BY <1>1, TimesMonotone
<1>3. /\ ((d + a2) - a) * Scale = (d + a2) * Scale - a * Scale
      /\ (d + a2) * Scale = d * Scale + a2 * Scale
      /\ (c2 - c) * Scale = c2 * Scale - c * Scale
  BY <1>1, TimesDistributes
<1>4. /\ a * Scale \in Int /\ d * Scale \in Int /\ a2 * Scale \in Int
      /\ c * Scale \in Int /\ c2 * Scale \in Int
  BY <1>1, TimesReorder
<1> QED BY <1>2, <1>3, <1>4

(* The same for the pool, when the fees do not grow.                        *)
LEMMA StaysBacked ==
    ASSUME NEW v \in Nat, NEW s \in StateRecord, NEW f, FeesOK(f), Backed(v, s, f),
           NEW v2 \in Nat, NEW s2 \in StateRecord, NEW f2, FeesOK(f2),
           ExactFees(f2) <= ExactFees(f),
           s2.total_supply - s.total_supply <= (v2 + s2.total_borrow) - (v + s.total_borrow)
    PROVE  Backed(v2, s2, f2)
<1> DEFINE e == ExactFees(f)
           e2 == ExactFees(f2)
           a == s.total_supply
           a2 == s2.total_supply
           c == v + s.total_borrow
           c2 == v2 + s2.total_borrow
<1>1. a \in Int /\ a2 \in Int /\ c \in Int /\ c2 \in Int
  BY DEF StateRecord
<1>2. e \in Int /\ e2 \in Int
  <2>1. ExactFees(f) \in Nat
    BY ExactCoversClaims
  <2>2. ExactFees(f2) \in Nat
    BY ExactCoversClaims
  <2> QED BY <2>1, <2>2
<1>3. e + a * Scale <= c * Scale
  BY DEF Backed
<1>4. e2 <= e /\ a2 - a <= c2 - c
  OBVIOUS
<1>5. SUFFICES e2 + a2 * Scale <= c2 * Scale
  BY DEF Backed
<1> HIDE DEF e, e2, a, a2, c, c2
<1>6. 0 \in Int /\ e2 <= e + 0 * Scale /\ 0 + a2 - a <= c2 - c
  BY <1>1, <1>2, <1>4, ScaleAssumption
<1> QED BY <1>1, <1>2, <1>3, <1>6, StillCovered

(* A supplier's new position changes the sums by what is new in it.         *)
LEMMA MovePosition ==
    ASSUME Suppliers \in Nat, NEW p \in [1..Suppliers -> Position],
           NEW u \in 1..Suppliers, NEW w \in Position
    PROVE  LET z == [p EXCEPT ![u] = w]
           IN  /\ Total(Held(p), Suppliers) \in Nat
               /\ p[u].shares <= Total(Held(p), Suppliers)
               /\ Total(Held(z), Suppliers) = Total(Held(p), Suppliers) - p[u].shares + w.shares
               /\ \A q : /\ Total(Named(p, q), Suppliers) \in Nat
                         /\ p[u].referral = q => p[u].shares <= Total(Named(p, q), Suppliers)
                         /\ Total(Named(z, q), Suppliers) =
                              Total(Named(p, q), Suppliers)
                                - (IF p[u].referral = q THEN p[u].shares ELSE 0)
                                + (IF w.referral = q THEN w.shares ELSE 0)
<1> DEFINE z == [p EXCEPT ![u] = w]
<1>1. /\ z \in [1..Suppliers -> Position] /\ z[u] = w
      /\ \A v \in 1..Suppliers : v # u => z[v] = p[v]
  OBVIOUS
<1> HIDE DEF z
<1>2. \A v \in 1..Suppliers : p[v].shares \in Nat /\ z[v].shares \in Nat
  BY <1>1 DEF Position
<1>3. /\ \A v \in 1..Suppliers : Held(p)[v] \in Nat /\ Held(z)[v] \in Nat
      /\ \A v \in 1..Suppliers : v # u => Held(p)[v] = Held(z)[v]
      /\ Held(p)[u] = p[u].shares /\ Held(z)[u] = w.shares
  BY <1>1, <1>2 DEF Held
<1>4. /\ Total(Held(p), Suppliers) \in Nat
      /\ p[u].shares <= Total(Held(p), Suppliers)
  BY <1>3, TotalNat, TotalElement
<1>5. Total(Held(z), Suppliers) = Total(Held(p), Suppliers) - p[u].shares + w.shares
  <2>1. \A v \in 1..Suppliers : Held(p)[v] \in Int /\ Held(z)[v] \in Int
    BY <1>3
  <2>2. Total(Held(z), Suppliers) = Total(Held(p), Suppliers) + Held(z)[u] - Held(p)[u]
    <3>1. OneChange(Held(p), Held(z), Suppliers, u)
      BY <1>3, <2>1 DEF OneChange
    <3> QED BY <3>1, TotalOneChange
  <2>3. p[u].shares \in Nat /\ w.shares \in Nat
    BY <1>1, <1>2
  <2> QED BY <1>3, <1>4, <2>2, <2>3
<1>6. ASSUME NEW q
      PROVE  /\ Total(Named(p, q), Suppliers) \in Nat
             /\ p[u].referral = q => p[u].shares <= Total(Named(p, q), Suppliers)
             /\ Total(Named(z, q), Suppliers) =
                  Total(Named(p, q), Suppliers)
                    - (IF p[u].referral = q THEN p[u].shares ELSE 0)
                    + (IF w.referral = q THEN w.shares ELSE 0)
  <2>1. /\ \A v \in 1..Suppliers : Named(p, q)[v] \in Nat /\ Named(z, q)[v] \in Nat
        /\ \A v \in 1..Suppliers : v # u => Named(p, q)[v] = Named(z, q)[v]
        /\ Named(p, q)[u] = IF p[u].referral = q THEN p[u].shares ELSE 0
        /\ Named(z, q)[u] = IF w.referral = q THEN w.shares ELSE 0
    BY <1>1, <1>2 DEF Named
  <2>2. Total(Named(p, q), Suppliers) \in Nat
    BY <2>1, TotalNat
  <2>3. Named(p, q)[u] <= Total(Named(p, q), Suppliers)
    BY <2>1, TotalElement
  <2>4. \A v \in 1..Suppliers : Named(p, q)[v] \in Int /\ Named(z, q)[v] \in Int
    BY <2>1
  <2>5. Total(Named(z, q), Suppliers)
          = Total(Named(p, q), Suppliers) + Named(z, q)[u] - Named(p, q)[u]
    <3>1. OneChange(Named(p, q), Named(z, q), Suppliers, u)
      BY <2>1, <2>4 DEF OneChange
    <3> QED BY <3>1, TotalOneChange
  <2>6. Named(p, q)[u] \in Nat /\ Named(z, q)[u] \in Nat
    BY <2>1
  <2>7. Total(Named(z, q), Suppliers)
          = Total(Named(p, q), Suppliers) - Named(p, q)[u] + Named(z, q)[u]
    BY <2>2, <2>5, <2>6
  <2> QED BY <2>1, <2>2, <2>3, <2>7
<1> QED BY <1>4, <1>5, <1>6 DEF z

(* The same for the loans.                                                  *)
LEMMA MoveLoan ==
    ASSUME Managers \in Nat, NEW l \in [1..Managers -> Nat], NEW m \in 1..Managers,
           NEW x \in Nat
    PROVE  /\ Total(l, Managers) \in Nat /\ l[m] <= Total(l, Managers)
           /\ Total([l EXCEPT ![m] = x], Managers) = Total(l, Managers) - l[m] + x
<1> DEFINE z == [l EXCEPT ![m] = x]
<1>1. /\ \A i \in 1..Managers : l[i] \in Nat /\ z[i] \in Nat /\ l[i] \in Int /\ z[i] \in Int
      /\ \A i \in 1..Managers : i # m => l[i] = z[i]
      /\ z[m] = x
  OBVIOUS
<1> HIDE DEF z
<1>2. Total(l, Managers) \in Nat
  BY <1>1, TotalNat
<1>3. l[m] <= Total(l, Managers)
  BY <1>1, TotalElement
<1>4. Total(z, Managers) = Total(l, Managers) + z[m] - l[m]
  <2>1. OneChange(l, z, Managers, m)
    BY <1>1 DEF OneChange
  <2> QED BY <2>1, TotalOneChange
<1>5. Total(z, Managers) = Total(l, Managers) - l[m] + x
  BY <1>1, <1>2, <1>4
<1> QED BY <1>2, <1>3, <1>5 DEF z

(* The limiter never holds more than its capacity.                          *)
LEMMA LimiterFacts ==
    ASSUME NEW at \in Nat, NEW l, LimiterOK(l, at), NEW amount \in Nat,
           NEW limits \in [capacity : Nat, refill_rate_per_ms : Nat, enabled : BOOLEAN]
    PROVE  /\ LimiterOK(refill(l, at), at)
           /\ refill(l, at).capacity = l.capacity
           /\ LimiterOK(record_deposit(l, amount, at), at)
           /\ AllowsWithdrawal(l, amount, at)
                => LimiterOK(check_and_record_withdrawal(l, amount, at), at)
           /\ LimiterOK(update_config(l, limits, at), at)
           /\ LimiterOK(new_limiter(limits, at), at)
<1>1. /\ l.available \in Nat /\ l.capacity \in Nat /\ l.last_updated_ms \in Nat
      /\ l.refill_rate_per_ms \in Nat /\ l.available <= l.capacity
      /\ l.last_updated_ms <= at /\ l.enabled \in BOOLEAN /\ l \in LimiterRecord
  BY DEF LimiterOK, LimiterRecord
<1> DEFINE gain == (at - l.last_updated_ms) * l.refill_rate_per_ms
           k == refill(l, at)
<1>2. LimiterOK(k, at) /\ k.capacity = l.capacity
  <2>1. CASE at > l.last_updated_ms
    <3>1. at - l.last_updated_ms \in Nat
      BY <1>1
    <3>2. gain \in Nat
      BY <1>1, <3>1, TimesNat
    <3> DEFINE x == Lesser(l.available + gain, l.capacity)
    <3>3. k = [l EXCEPT !.available = x, !.last_updated_ms = at]
      BY <2>1 DEF refill
    <3> HIDE DEF gain, k
    <3>4. x \in Nat /\ x <= l.capacity
      BY <1>1, <3>2 DEF Lesser
    <3> HIDE DEF x
    <3>5. /\ k \in LimiterRecord /\ k.available = x /\ k.last_updated_ms = at
          /\ k.capacity = l.capacity
      BY <1>1, <3>3, <3>4 DEF LimiterRecord
    <3> QED BY <3>4, <3>5 DEF LimiterOK
  <2>2. CASE ~ (at > l.last_updated_ms)
    BY <2>2 DEF refill
  <2> QED BY <2>1, <2>2
<1>3. k.available \in Nat /\ k.capacity \in Nat /\ k.last_updated_ms \in Nat /\ k \in LimiterRecord
  BY <1>2 DEF LimiterOK, LimiterRecord
<1>4. LimiterOK(record_deposit(l, amount, at), at)
  <2>1. CASE l.enabled
    <3>1. /\ Lesser(k.available + amount, l.capacity) \in Nat
          /\ Lesser(k.available + amount, l.capacity) <= l.capacity
      BY <1>1, <1>3 DEF Lesser
    <3>2. record_deposit(l, amount, at)
            = [k EXCEPT !.available = Lesser(@ + amount, l.capacity)]
      BY <2>1 DEF record_deposit
    <3> HIDE DEF k
    <3> QED BY <1>2, <1>3, <3>1, <3>2 DEF LimiterOK, LimiterRecord
  <2>2. CASE ~ l.enabled
    BY <2>2 DEF record_deposit
  <2> QED BY <2>1, <2>2
<1>5. ASSUME AllowsWithdrawal(l, amount, at)
      PROVE  LimiterOK(check_and_record_withdrawal(l, amount, at), at)
  <2>1. CASE l.enabled
    <3>1. amount <= k.available
      BY <1>5, <2>1 DEF AllowsWithdrawal
    <3>2. check_and_record_withdrawal(l, amount, at) = [k EXCEPT !.available = @ - amount]
      BY <2>1 DEF check_and_record_withdrawal
    <3> HIDE DEF k
    <3>3. k.available - amount \in Nat /\ k.available - amount <= k.capacity
      BY <1>2, <1>3, <3>1 DEF LimiterOK
    <3> QED BY <1>2, <1>3, <3>2, <3>3 DEF LimiterOK, LimiterRecord
  <2>2. CASE ~ l.enabled
    BY <2>2 DEF check_and_record_withdrawal
  <2> QED BY <2>1, <2>2
<1>6. LimiterOK(update_config(l, limits, at), at)
  <2>1. /\ Lesser(k.available, limits.capacity) \in Nat
        /\ Lesser(k.available, limits.capacity) <= limits.capacity
    BY <1>3 DEF Lesser
  <2>2. k.last_updated_ms \in Nat /\ k.last_updated_ms <= at
    BY <1>2, <1>3 DEF LimiterOK
  <2> QED BY <2>1, <2>2 DEF LimiterOK, LimiterRecord, update_config
<1>7. LimiterOK(new_limiter(limits, at), at)
  BY DEF LimiterOK, LimiterRecord, new_limiter
<1> QED BY <1>2, <1>4, <1>5, <1>6, <1>7

(* The rate of a configuration that passed its assertions.                  *)
LEMMA InterestRateNat ==
    ASSUME NEW s \in StateRecord,
           NEW c \in [pool : MarginPoolConfig, interest : InterestConfig]
    PROVE  interest_rate(c.interest, utilization_rate(s)) \in Nat
<1> DEFINE i == c.interest
           util == utilization_rate(s)
<1>1. s.total_supply \in Nat /\ s.total_borrow \in Nat
  BY DEF StateRecord
<1>2. /\ i.base_rate \in Nat /\ i.base_slope \in Nat /\ i.optimal_utilization \in Nat
      /\ i.excess_slope \in Nat
  BY ScaleAssumption DEF InterestConfig
<1>3. util \in Nat
  <2>1. CASE s.total_supply = 0
    BY <2>1 DEF utilization_rate
  <2>2. CASE s.total_supply # 0
    <3>1. s.total_supply \in Nat \ {0}
      BY <1>1, <2>2
    <3>2. div(s.total_borrow, s.total_supply) \in Nat
      BY <1>1, <3>1, DivBounds
    <3> QED BY <2>2, <3>2 DEF utilization_rate
  <2> QED BY <2>1, <2>2
<1> HIDE DEF util, i
<1>4. interest_rate(i, util) \in Nat
  <2>1. CASE util < i.optimal_utilization
    <3>1. mul(util, i.base_slope) \in Nat
      BY <1>2, <1>3, MulBounds
    <3> QED BY <1>2, <2>1, <3>1 DEF interest_rate
  <2>2. CASE ~ (util < i.optimal_utilization)
    <3>1. util - i.optimal_utilization \in Nat
      BY <1>2, <1>3, <2>2
    <3>2. /\ mul(i.optimal_utilization, i.base_slope) \in Nat
          /\ mul(util - i.optimal_utilization, i.excess_slope) \in Nat
      BY <1>2, <3>1, MulBounds
    <3> QED BY <1>2, <2>2, <3>2 DEF interest_rate
  <2> QED BY <2>1, <2>2
<1> QED BY <1>4 DEF i, util

(* Interest and fees are never negative; the fees are a part of the         *)
(* interest if the spread is at most Scale, and update stays above zero if  *)
(* they are at most what the supply and the interest come to.               *)
LEMMA UpdateFacts ==
    ASSUME Year \in Nat \ {0}, NEW s \in StateRecord, NEW at \in Nat,
           s.last_update_timestamp <= at,
           NEW c \in [pool : MarginPoolConfig, interest : InterestConfig]
    PROVE  /\ Interest(s, c, at) \in Nat /\ FeesDue(s, c, at) \in Nat
           /\ c.pool.protocol_spread <= Scale => FeesDue(s, c, at) <= Interest(s, c, at)
           /\ FeesDue(s, c, at) <= s.total_supply + Interest(s, c, at)
                => update(s, c, at) \in StateRecord
           /\ update(s, c, at).total_supply
                = s.total_supply + Interest(s, c, at) - FeesDue(s, c, at)
           /\ update(s, c, at).total_borrow = s.total_borrow + Interest(s, c, at)
           /\ update(s, c, at).supply_shares = s.supply_shares
           /\ update(s, c, at).borrow_shares = s.borrow_shares
           /\ update(s, c, at).last_update_timestamp = at
<1>1. /\ s.total_supply \in Nat /\ s.total_borrow \in Nat
      /\ s.last_update_timestamp \in Nat /\ at - s.last_update_timestamp \in Nat
  BY DEF StateRecord
<1> DEFINE i == c.interest
           util == utilization_rate(s)
           rate == interest_rate(i, util)
           spread == c.pool.protocol_spread
<1>2. spread \in Nat /\ Scale \in Nat
  BY ScaleAssumption DEF MarginPoolConfig
<1> HIDE DEF util, i, spread
<1>4. rate \in Nat
  BY InterestRateNat DEF i, util
<1> DEFINE yearly == mul(s.total_borrow, rate)
           years == div(at - s.last_update_timestamp, Year)
           gain == Interest(s, c, at)
           due == FeesDue(s, c, at)
<1>5. gain = mul(yearly, years) /\ due = mul(gain, spread)
  BY DEF Interest, FeesDue, util, i, spread
<1> HIDE DEF rate
<1>6. yearly \in Nat /\ years \in Nat
  BY <1>1, <1>4, MulBounds, DivBounds
<1> HIDE DEF yearly, years, gain, due
<1>7. gain \in Nat
  BY <1>5, <1>6, MulBounds
<1>8. due \in Nat /\ (spread <= Scale => due <= gain)
  BY <1>2, <1>5, <1>7, MulBounds, MulAtMostWhole
<1>9. /\ due <= s.total_supply + gain => s.total_supply + gain - due \in Nat
      /\ s.total_borrow + gain \in Nat
  BY <1>1, <1>7, <1>8
<1>10. update(s, c, at) = [s EXCEPT !.total_supply = @ + gain - due,
                                    !.total_borrow = @ + gain, !.last_update_timestamp = at]
  BY DEF update, gain, due
<1>11. /\ due <= s.total_supply + gain => update(s, c, at) \in StateRecord
       /\ update(s, c, at).total_supply = s.total_supply + gain - due
       /\ update(s, c, at).total_borrow = s.total_borrow + gain
       /\ update(s, c, at).supply_shares = s.supply_shares
       /\ update(s, c, at).borrow_shares = s.borrow_shares
       /\ update(s, c, at).last_update_timestamp = at
  BY <1>9, <1>10 DEF StateRecord
<1> QED BY <1>7, <1>8, <1>11 DEF gain, due, spread

(* The handlers' first step, State.update and increase_fees_accrued, keeps  *)
(* the shares and leaves the pool backed.                                   *)
LEMMA Accrual ==
    ASSUME MarginPoolAssumption, IInv, Accrues
    PROVE  /\ S \in StateRecord /\ S.last_update_timestamp = now
           /\ S.supply_shares = state.supply_shares /\ S.borrow_shares = state.borrow_shares
           /\ FeesOK(F) /\ F.referrals = fees.referrals
           /\ SupplyAgrees(positions, S, F) /\ PositionsOK(positions, F)
           /\ Backed(vault, S, F)
           /\ ExactFees(F) \in Nat /\ vault + S.total_borrow \in Nat
<1> DEFINE gain == Interest(state, config, now)
           due == FeesDue(state, config, now)
<1>1. /\ now \in Nat /\ vault \in Nat /\ state \in StateRecord
      /\ state.last_update_timestamp <= now
      /\ config \in [pool : MarginPoolConfig, interest : InterestConfig]
      /\ Year \in Nat \ {0}
  BY DEF IInv, TypeInv, MarginPoolAssumption
<1>2. /\ gain \in Nat /\ due \in Nat /\ S \in StateRecord
      /\ S.total_supply = state.total_supply + gain - due
      /\ S.total_borrow = state.total_borrow + gain
      /\ S.supply_shares = state.supply_shares /\ S.borrow_shares = state.borrow_shares
      /\ S.last_update_timestamp = now
  BY <1>1, UpdateFacts DEF S, Accrues
<1> HIDE DEF gain, due
<1>3. FeesOK(fees) /\ SharesIn(fees) = fees.total_shares /\ ExactFees(fees) \in Nat
  BY ExactCoversClaims DEF IInv, SupplyAgrees
<1>4. /\ FeesOK(F) /\ SharesIn(F) = F.total_shares
      /\ F.referrals = fees.referrals /\ F.total_shares = fees.total_shares
      /\ ExactFees(F) <= ExactFees(fees) + due * Scale
  BY <1>2, <1>3, AccrueFees DEF F, due
<1>5. SupplyAgrees(positions, S, F) /\ PositionsOK(positions, F)
  BY <1>2, <1>4 DEF IInv, SupplyAgrees, PositionsOK
<1>6. ExactFees(F) \in Nat
  BY <1>4, ExactCoversClaims
<1>7. /\ state.total_supply \in Nat /\ state.total_borrow \in Nat
      /\ S.total_supply \in Nat /\ S.total_borrow \in Nat
  BY <1>1, <1>2 DEF StateRecord
<1>8. /\ due + S.total_supply - state.total_supply
           <= (vault + S.total_borrow) - (vault + state.total_borrow)
      /\ vault + S.total_borrow \in Nat
  BY <1>1, <1>2, <1>7
<1>9. ExactFees(fees) + state.total_supply * Scale <= (vault + state.total_borrow) * Scale
  BY DEF IInv, Backed
<1>10. vault + state.total_borrow \in Nat
  BY <1>1, <1>7
<1>11. Backed(vault, S, F)
  BY <1>2, <1>3, <1>4, <1>6, <1>7, <1>8, <1>9, <1>10, StillCovered DEF Backed
<1> QED BY <1>2, <1>4, <1>5, <1>6, <1>8, <1>11

(* The ratios of shares and amounts.                                        *)
LEMMA RatioNat ==
    ASSUME NEW s \in StateRecord
    PROVE  /\ supply_ratio(s) \in Nat /\ borrow_ratio(s) \in Nat
           /\ s.supply_shares # 0 => supply_ratio(s) = div(s.total_supply, s.supply_shares)
           /\ s.borrow_shares # 0 => borrow_ratio(s) = div(s.total_borrow, s.borrow_shares)
<1>1. /\ s.total_supply \in Nat /\ s.supply_shares \in Nat
      /\ s.total_borrow \in Nat /\ s.borrow_shares \in Nat /\ Scale \in Nat
  BY ScaleAssumption DEF StateRecord
<1>2. supply_ratio(s) \in Nat
  <2>1. CASE s.supply_shares = 0
    BY <1>1, <2>1 DEF supply_ratio
  <2>2. CASE s.supply_shares # 0
    <3>1. s.supply_shares \in Nat \ {0}
      BY <1>1, <2>2
    <3>2. div(s.total_supply, s.supply_shares) \in Nat
      BY <1>1, <3>1, DivBounds
    <3> QED BY <2>2, <3>2 DEF supply_ratio
  <2> QED BY <2>1, <2>2
<1>3. borrow_ratio(s) \in Nat
  <2>1. CASE s.borrow_shares = 0
    BY <1>1, <2>1 DEF borrow_ratio
  <2>2. CASE s.borrow_shares # 0
    <3>1. s.borrow_shares \in Nat \ {0}
      BY <1>1, <2>2
    <3>2. div(s.total_borrow, s.borrow_shares) \in Nat
      BY <1>1, <3>1, DivBounds
    <3> QED BY <2>2, <3>2 DEF borrow_ratio
  <2> QED BY <2>1, <2>2
<1> QED BY <1>2, <1>3 DEF supply_ratio, borrow_ratio

(* A larger supply of as many shares has a ratio at least as large.         *)
LEMMA RatioMonotone ==
    ASSUME NEW s \in StateRecord, NEW z \in StateRecord,
           s.supply_shares = z.supply_shares, s.total_supply <= z.total_supply
    PROVE  supply_ratio(s) <= supply_ratio(z)
<1>1. /\ s.total_supply \in Nat /\ z.total_supply \in Nat /\ s.supply_shares \in Nat
      /\ Scale \in Nat
  BY ScaleAssumption DEF StateRecord
<1>2. CASE s.supply_shares = 0
  BY <1>1, <1>2 DEF supply_ratio
<1>3. CASE s.supply_shares # 0
  <2>1. s.supply_shares \in Nat \ {0}
    BY <1>1, <1>3
  <2>2. div(s.total_supply, s.supply_shares) <= div(z.total_supply, s.supply_shares)
    BY <1>1, <2>1, DivMonotone
  <2> QED BY <1>3, <2>2 DEF supply_ratio
<1> QED BY <1>2, <1>3

(* A supply moves all the shares of a supplier to the new referral.         *)
LEMMA SupplyStep ==
    ASSUME MarginPoolAssumption, IInv, NEW u \in 1..Suppliers, NEW amount \in SupplyAmounts,
           NEW r \in DOMAIN fees.referrals, Supply(u, amount, r)
    PROVE  IInv'
<1> DEFINE ratio == supply_ratio(S)
           shares == div(amount, ratio)
           held == positions[u].shares
           old == positions[u].referral
           previous == IF old = NoReferral THEN r ELSE old
           w == [shares |-> held + shares, referral |-> r]
           g == change_shares(F, previous, -held)
           h == change_shares(g, r, held + shares)
<1>1. /\ ops' = ops + 1 /\ ratio > 0
      /\ state' = [S EXCEPT !.supply_shares = @ + shares, !.total_supply = @ + amount]
      /\ positions' = [positions EXCEPT ![u] = w]
      /\ fees' = h /\ vault' = vault + amount
      /\ limiter' = record_deposit(limiter, amount, now)
      /\ UNCHANGED <<now, config, allowed, loans, wealth>>
  BY DEF Supply, Call
<1>0. Accrues
  BY DEF Supply
<1>2. /\ S \in StateRecord /\ S.last_update_timestamp = now
      /\ S.borrow_shares = state.borrow_shares
      /\ FeesOK(F) /\ F.referrals = fees.referrals
      /\ SupplyAgrees(positions, S, F) /\ PositionsOK(positions, F)
      /\ Backed(vault, S, F)
      /\ ExactFees(F) \in Nat /\ vault + S.total_borrow \in Nat
  BY <1>0, Accrual
<1>3. /\ amount \in Nat /\ Suppliers \in Nat /\ vault \in Nat /\ TypeInv
      /\ S.total_supply \in Nat /\ S.supply_shares \in Nat /\ S.total_borrow \in Nat
      /\ positions \in [1..Suppliers -> Position]
  BY <1>2 DEF MarginPoolAssumption, IInv, TypeInv, StateRecord, PositionsOK
<1>4. shares \in Nat
  <2>1. ratio \in Nat \ {0}
    BY <1>1, <1>2, RatioNat
  <2> HIDE DEF ratio
  <2> QED BY <1>3, <2>1, DivBounds
<1>5. /\ held \in Nat /\ old \in Nat /\ old <= Len(F.referrals)
      /\ old = NoReferral => held = 0
      /\ DOMAIN F.referrals = 1..Len(F.referrals) /\ r \in DOMAIN F.referrals
      /\ Len(F.referrals) \in Nat /\ r \in Nat /\ r # NoReferral
  <2>1. positions[u] \in Position
    BY <1>3
  <2>2. held \in Nat /\ old \in Nat
    BY <2>1 DEF Position
  <2>3. old <= Len(F.referrals) /\ (old = NoReferral => held = 0)
    BY <1>2 DEF PositionsOK
  <2>4. r \in DOMAIN F.referrals
    BY <1>2
  <2>5. DOMAIN F.referrals = 1..Len(F.referrals) /\ Len(F.referrals) \in Nat
    BY <1>2, <2>4, TrackerFacts
  <2> QED BY <2>2, <2>3, <2>4, <2>5 DEF NoReferral
<1> HIDE DEF shares, held, old
<1>6. w \in Position /\ w.shares = held + shares /\ w.referral = r
  BY <1>4, <1>5 DEF Position
<1>7. /\ Total(Held(positions), Suppliers) \in Nat
      /\ held <= Total(Held(positions), Suppliers)
      /\ Total(Held(positions'), Suppliers)
           = Total(Held(positions), Suppliers) - held + (held + shares)
      /\ \A q : /\ Total(Named(positions, q), Suppliers) \in Nat
                /\ old = q => held <= Total(Named(positions, q), Suppliers)
                /\ Total(Named(positions', q), Suppliers) =
                     Total(Named(positions, q), Suppliers)
                       - (IF old = q THEN held ELSE 0)
                       + (IF r = q THEN held + shares ELSE 0)
  <2> DEFINE z == [positions EXCEPT ![u] = w]
  <2> HIDE DEF w
  <2>1. /\ Total(Held(positions), Suppliers) \in Nat
        /\ positions[u].shares <= Total(Held(positions), Suppliers)
        /\ Total(Held(z), Suppliers)
             = Total(Held(positions), Suppliers) - positions[u].shares + w.shares
        /\ \A q : /\ Total(Named(positions, q), Suppliers) \in Nat
                  /\ positions[u].referral = q
                       => positions[u].shares <= Total(Named(positions, q), Suppliers)
                  /\ Total(Named(z, q), Suppliers) =
                       Total(Named(positions, q), Suppliers)
                         - (IF positions[u].referral = q THEN positions[u].shares ELSE 0)
                         + (IF w.referral = q THEN w.shares ELSE 0)
    BY <1>3, <1>6, MovePosition
  <2>2. positions' = z
    BY <1>1
  <2> HIDE DEF z
  <2> QED BY <1>6, <2>1, <2>2 DEF held, old
<1>8. previous \in DOMAIN F.referrals
  BY <1>5 DEF NoReferral
<1> HIDE DEF w, previous
<1>9. /\ F.referrals[previous].current_shares + (-held) \in Nat
      /\ F.total_shares + (-held) \in Nat /\ SharesIn(F) = F.total_shares
      /\ F.total_shares \in Nat
  <2>1. F.referrals[previous].current_shares = Total(Named(positions, previous), Suppliers)
    BY <1>2, <1>8 DEF SupplyAgrees
  <2>2. old # NoReferral => previous = old
    BY DEF previous
  <2>3. F.total_shares = Total(Held(positions), Suppliers) /\ SharesIn(F) = F.total_shares
    BY <1>2 DEF SupplyAgrees
  <2> QED BY <1>5, <1>7, <2>1, <2>2, <2>3
<1>10. /\ FeesOK(g) /\ ExactFees(g) <= ExactFees(F)
       /\ Len(g.referrals) = Len(F.referrals)
       /\ g.total_shares = F.total_shares + (-held)
       /\ SharesIn(g) = g.total_shares
       /\ \A q \in DOMAIN F.referrals :
             g.referrals[q].current_shares =
                F.referrals[q].current_shares + IF q = previous THEN -held ELSE 0
  <2>1. -held \in Int
    BY <1>5
  <2> QED BY <1>2, <1>8, <1>9, <2>1, ChangeShares
<1> HIDE DEF g
<1>11. r \in DOMAIN g.referrals /\ DOMAIN g.referrals = DOMAIN F.referrals
  BY <1>5, <1>10 DEF FeesOK
<1>12. /\ g.referrals[r].current_shares + (held + shares) \in Nat
       /\ g.total_shares + (held + shares) \in Nat /\ held + shares \in Int
  <2> DEFINE c == g.referrals[r].current_shares
             k == g.total_shares
  <2>1. c \in Nat /\ k \in Nat
    BY <1>10, <1>11, TrackerFacts DEF FeesOK, Tracker
  <2>2. held + shares \in Nat
    BY <1>4, <1>5
  <2> HIDE DEF c, k
  <2>3. c + (held + shares) \in Nat /\ k + (held + shares) \in Nat
    BY <2>1, <2>2
  <2> QED BY <2>2, <2>3 DEF c, k
<1>13. /\ FeesOK(h) /\ ExactFees(h) <= ExactFees(g)
       /\ Len(h.referrals) = Len(g.referrals)
       /\ h.total_shares = g.total_shares + (held + shares)
       /\ SharesIn(h) = h.total_shares
       /\ \A q \in DOMAIN g.referrals :
             h.referrals[q].current_shares =
                g.referrals[q].current_shares + IF q = r THEN held + shares ELSE 0
  BY <1>10, <1>11, <1>12, ChangeShares
<1> HIDE DEF h
<1>14. /\ state' \in StateRecord /\ state'.last_update_timestamp = now
       /\ state'.supply_shares = S.supply_shares + shares
       /\ state'.total_supply = S.total_supply + amount
       /\ state'.total_borrow = S.total_borrow /\ state'.borrow_shares = S.borrow_shares
  <2>1. S.supply_shares + shares \in Nat /\ S.total_supply + amount \in Nat
    BY <1>3, <1>4
  <2> QED BY <1>1, <1>2, <2>1 DEF StateRecord
<1>15. TypeInv'
  <2>1. LimiterOK(limiter', now')
    BY <1>1, <1>3, LimiterFacts DEF TypeInv, MarginPoolConfig
  <2> QED BY <1>1, <1>3, <1>14, <2>1 DEF TypeInv
<1>16. PositionsOK(positions, fees)'
  <2>1. positions' \in [1..Suppliers -> Position] /\ positions'[u] = w
        /\ \A v \in 1..Suppliers : v # u => positions'[v] = positions[v]
    BY <1>1, <1>3, <1>6
  <2>2. Len(fees'.referrals) = Len(F.referrals)
    BY <1>1, <1>10, <1>13
  <2>3. r <= Len(F.referrals)
    BY <1>5
  <2> QED BY <1>2, <1>5, <1>6, <2>1, <2>2, <2>3 DEF PositionsOK
<1>17. SupplyAgrees(positions, state, fees)'
  <2>1. state'.supply_shares = Total(Held(positions'), Suppliers)
        /\ fees'.total_shares = state'.supply_shares
    <3>1. S.supply_shares = Total(Held(positions), Suppliers) /\ F.total_shares = S.supply_shares
      BY <1>2 DEF SupplyAgrees
    <3>2. fees'.total_shares = (F.total_shares + (-held)) + (held + shares)
      BY <1>1, <1>10, <1>13
    <3> QED BY <1>3, <1>4, <1>5, <1>7, <1>14, <3>1, <3>2
  <2>2. SharesIn(fees') = fees'.total_shares
    BY <1>1, <1>13
  <2>3. ASSUME NEW q \in DOMAIN fees'.referrals
        PROVE  fees'.referrals[q].current_shares = Total(Named(positions', q), Suppliers)
    <3> DEFINE c == F.referrals[q].current_shares
    <3>1. q \in DOMAIN F.referrals
      BY <1>1, <1>10, <1>13 DEF FeesOK
    <3>2. /\ fees'.referrals[q].current_shares =
               (c + (IF q = previous THEN -held ELSE 0)) + (IF q = r THEN held + shares ELSE 0)
      BY <1>1, <1>10, <1>11, <1>13, <3>1
    <3>3. /\ c = Total(Named(positions, q), Suppliers) /\ c \in Nat
          /\ Total(Named(positions', q), Suppliers) =
               c - (IF old = q THEN held ELSE 0) + (IF r = q THEN held + shares ELSE 0)
      BY <1>2, <1>7, <3>1 DEF SupplyAgrees
    <3>4. (IF q = previous THEN -held ELSE 0) = -(IF old = q THEN held ELSE 0)
      <4>1. q # NoReferral
        BY <1>5, <3>1 DEF NoReferral
      <4> QED BY <1>5, <4>1 DEF previous
    <3> HIDE DEF c
    <3> QED BY <1>4, <1>5, <3>2, <3>3, <3>4
  <2> QED BY <2>1, <2>2, <2>3 DEF SupplyAgrees
<1>18. Backed(vault, state, fees)'
  <2>1. ExactFees(h) <= ExactFees(F) /\ vault' \in Nat
    <3>1. ExactFees(h) \in Nat /\ ExactFees(g) \in Nat
      BY <1>10, <1>13, ExactCoversClaims
    <3>2. ExactFees(h) <= ExactFees(F)
      BY <1>2, <1>10, <1>13, <3>1
    <3> QED BY <1>1, <1>3, <3>2
  <2>2. state'.total_supply - S.total_supply
          <= (vault' + state'.total_borrow) - (vault + S.total_borrow)
    BY <1>1, <1>3, <1>14
  <2> QED BY <1>1, <1>2, <1>3, <1>13, <1>14, <2>1, <2>2, StaysBacked
<1>19. state'.borrow_shares = Total(loans', Managers)
  BY <1>1, <1>2, <1>14 DEF IInv
<1> QED BY <1>1, <1>13, <1>15, <1>16, <1>17, <1>18, <1>19 DEF IInv

(* A withdrawal takes at least as much off the supply as it pays out.       *)
LEMMA WithdrawStep ==
    ASSUME MarginPoolAssumption, IInv, NEW u \in 1..Suppliers, NEW amount \in Nat,
           Withdraw(u, amount)
    PROVE  IInv'
<1> DEFINE ratio == supply_ratio(S)
           held == positions[u].shares
           r == positions[u].referral
           shares == SharesToWithdraw(held, amount)
           w == [shares |-> held - shares, referral |-> r]
           off == mul(shares, ratio)
           g == change_shares(F, r, -shares)
<1>1. /\ ops' = ops + 1 /\ mul(held, ratio) > 0 /\ AllowsWithdrawal(limiter, amount, now)
      /\ shares <= held /\ amount <= vault
      /\ state' = [S EXCEPT !.supply_shares = @ - shares, !.total_supply = @ - off]
      /\ positions' = [positions EXCEPT ![u].shares = @ - shares]
      /\ fees' = g /\ vault' = vault - amount
      /\ limiter' = check_and_record_withdrawal(limiter, amount, now)
      /\ UNCHANGED <<now, config, allowed, loans, wealth>>
  BY DEF Withdraw, Call, S, supply_shares_to_amount
<1>0. Accrues
  BY DEF Withdraw
<1>2. /\ S \in StateRecord /\ S.last_update_timestamp = now
      /\ S.borrow_shares = state.borrow_shares
      /\ FeesOK(F) /\ F.referrals = fees.referrals
      /\ SupplyAgrees(positions, S, F) /\ PositionsOK(positions, F)
      /\ Backed(vault, S, F)
      /\ ExactFees(F) \in Nat /\ vault + S.total_borrow \in Nat
  BY <1>0, Accrual
<1>3. /\ Suppliers \in Nat /\ vault \in Nat /\ TypeInv
      /\ S.total_supply \in Nat /\ S.supply_shares \in Nat /\ S.total_borrow \in Nat
      /\ positions \in [1..Suppliers -> Position] /\ ratio \in Nat
  BY <1>2, RatioNat DEF MarginPoolAssumption, IInv, TypeInv, StateRecord, PositionsOK
<1>4. /\ held \in Nat /\ r \in Nat /\ r <= Len(F.referrals)
      /\ r = NoReferral => held = 0
  <2>1. positions[u] \in Position
    BY <1>3
  <2>2. held \in Nat /\ r \in Nat
    BY <2>1 DEF Position
  <2> QED BY <1>2, <2>2 DEF PositionsOK
<1>5. shares \in Nat /\ amount <= off /\ off \in Nat
  <2>1. shares = mul_round_up(held, div_round_up(amount, mul(held, ratio)))
    BY DEF SharesToWithdraw, supply_shares_to_amount, S
  <2> HIDE DEF shares, ratio, held
  <2>2. shares \in Nat /\ amount <= mul(shares, ratio)
    BY <1>1, <1>3, <1>4, <2>1, WithdrawalCovered
  <2> QED BY <1>3, <2>2, MulBounds
<1>6. held # 0
  <2> HIDE DEF held, ratio
  <2> QED BY <1>1, <1>3, MulZero
<1> HIDE DEF shares, held, r, ratio
<1>7. held - shares \in Nat
  BY <1>1, <1>4, <1>5
<1>8. w \in Position /\ w.shares = held - shares /\ w.referral = r
  BY <1>4, <1>7 DEF Position
<1> HIDE DEF w
<1>9. positions' = [positions EXCEPT ![u] = w]
  <2>1. \A v \in 1..Suppliers : positions'[v] = IF v = u THEN [positions[u] EXCEPT !.shares = @ - shares]
                                                ELSE positions[v]
    BY <1>1, <1>3
  <2>2. [positions[u] EXCEPT !.shares = @ - shares] = w
    <3>1. positions[u] \in Position
      BY <1>3
    <3> QED BY <3>1 DEF Position, w, held, r
  <2>3. positions' \in [1..Suppliers -> Position]
    BY <1>1, <1>3, <1>8, <2>2
  <2> QED BY <1>3, <1>8, <2>1, <2>2, <2>3
<1>10. /\ Total(Held(positions), Suppliers) \in Nat
       /\ held <= Total(Held(positions), Suppliers)
       /\ Total(Held(positions'), Suppliers)
            = Total(Held(positions), Suppliers) - held + (held - shares)
       /\ \A q : /\ Total(Named(positions, q), Suppliers) \in Nat
                 /\ r = q => held <= Total(Named(positions, q), Suppliers)
                 /\ Total(Named(positions', q), Suppliers) =
                      Total(Named(positions, q), Suppliers)
                        - (IF r = q THEN held ELSE 0)
                        + (IF r = q THEN held - shares ELSE 0)
  <2> DEFINE z == [positions EXCEPT ![u] = w]
  <2>1. /\ Total(Held(positions), Suppliers) \in Nat
        /\ positions[u].shares <= Total(Held(positions), Suppliers)
        /\ Total(Held(z), Suppliers)
             = Total(Held(positions), Suppliers) - positions[u].shares + w.shares
        /\ \A q : /\ Total(Named(positions, q), Suppliers) \in Nat
                  /\ positions[u].referral = q
                       => positions[u].shares <= Total(Named(positions, q), Suppliers)
                  /\ Total(Named(z, q), Suppliers) =
                       Total(Named(positions, q), Suppliers)
                         - (IF positions[u].referral = q THEN positions[u].shares ELSE 0)
                         + (IF w.referral = q THEN w.shares ELSE 0)
    BY <1>3, <1>8, MovePosition
  <2>2. positions' = z
    BY <1>9
  <2> HIDE DEF z
  <2> QED BY <1>8, <2>1, <2>2 DEF held, r
<1>11. /\ S.supply_shares = Total(Held(positions), Suppliers) /\ held <= S.supply_shares
       /\ F.total_shares = S.supply_shares /\ SharesIn(F) = F.total_shares
  BY <1>2, <1>10 DEF SupplyAgrees
<1>12. off <= S.total_supply
  <2>1. S.supply_shares \in Nat \ {0} /\ shares <= S.supply_shares
    BY <1>1, <1>3, <1>4, <1>5, <1>6, <1>11
  <2>2. ratio = div(S.total_supply, S.supply_shares)
    BY <1>2, <2>1, RatioNat DEF ratio
  <2> QED BY <1>3, <1>5, <2>1, <2>2, SharesWithinTotal
<1> HIDE DEF off
<1>13. r \in DOMAIN F.referrals /\ DOMAIN F.referrals = 1..Len(F.referrals)
  <2>1. DOMAIN F.referrals = 1..Len(F.referrals) /\ Len(F.referrals) \in Nat
    BY <1>2 DEF FeesOK
  <2> QED BY <1>4, <1>6, <2>1 DEF NoReferral
<1>14. /\ F.referrals[r].current_shares + (-shares) \in Nat
       /\ F.total_shares + (-shares) \in Nat /\ -shares \in Int
  <2>1. F.referrals[r].current_shares = Total(Named(positions, r), Suppliers)
    BY <1>2, <1>13 DEF SupplyAgrees
  <2>2. held <= Total(Named(positions, r), Suppliers)
        /\ Total(Named(positions, r), Suppliers) \in Nat
    BY <1>10
  <2>3. shares <= held /\ F.total_shares \in Nat /\ held <= F.total_shares
    BY <1>1, <1>3, <1>11
  <2> QED BY <1>4, <1>5, <2>1, <2>2, <2>3
<1>15. /\ FeesOK(g) /\ ExactFees(g) <= ExactFees(F)
       /\ Len(g.referrals) = Len(F.referrals)
       /\ g.total_shares = F.total_shares + (-shares)
       /\ SharesIn(g) = g.total_shares
       /\ \A q \in DOMAIN F.referrals :
             g.referrals[q].current_shares =
                F.referrals[q].current_shares + IF q = r THEN -shares ELSE 0
  BY <1>2, <1>11, <1>13, <1>14, ChangeShares
<1> HIDE DEF g
<1>16. /\ state' \in StateRecord /\ state'.last_update_timestamp = now
       /\ state'.supply_shares = S.supply_shares - shares
       /\ state'.total_supply = S.total_supply - off
       /\ state'.total_borrow = S.total_borrow /\ state'.borrow_shares = S.borrow_shares
  <2>1. S.supply_shares - shares \in Nat
    BY <1>1, <1>3, <1>4, <1>5, <1>11
  <2>2. S.total_supply - off \in Nat
    BY <1>3, <1>5, <1>12
  <2> QED BY <1>1, <1>2, <2>1, <2>2 DEF StateRecord
<1>17. TypeInv'
  <2>1. LimiterOK(limiter', now')
    BY <1>1, <1>3, LimiterFacts DEF TypeInv, MarginPoolConfig
  <2>2. vault' \in Nat
    BY <1>1, <1>3
  <2> QED BY <1>1, <1>3, <1>16, <2>1, <2>2 DEF TypeInv
<1>18. PositionsOK(positions, fees)'
  <2>1. positions' \in [1..Suppliers -> Position] /\ positions'[u] = w
        /\ \A v \in 1..Suppliers : v # u => positions'[v] = positions[v]
    BY <1>3, <1>8, <1>9
  <2>2. Len(fees'.referrals) = Len(F.referrals)
    BY <1>1, <1>15
  <2> QED BY <1>2, <1>4, <1>6, <1>8, <2>1, <2>2 DEF PositionsOK
<1>19. SupplyAgrees(positions, state, fees)'
  <2>1. state'.supply_shares = Total(Held(positions'), Suppliers)
        /\ fees'.total_shares = state'.supply_shares
    <3>1. state'.supply_shares = S.supply_shares - shares
          /\ fees'.total_shares = S.supply_shares + (-shares)
          /\ Total(Held(positions'), Suppliers) = S.supply_shares - held + (held - shares)
      BY <1>1, <1>10, <1>11, <1>15, <1>16
    <3> QED BY <1>3, <1>4, <1>5, <3>1
  <2>2. SharesIn(fees') = fees'.total_shares
    BY <1>1, <1>15
  <2>3. ASSUME NEW q \in DOMAIN fees'.referrals
        PROVE  fees'.referrals[q].current_shares = Total(Named(positions', q), Suppliers)
    <3> DEFINE c == F.referrals[q].current_shares
    <3>1. q \in DOMAIN F.referrals
      BY <1>1, <1>13, <1>15 DEF FeesOK
    <3>2. fees'.referrals[q].current_shares = c + (IF q = r THEN -shares ELSE 0)
      BY <1>1, <1>15, <3>1
    <3>3. /\ c = Total(Named(positions, q), Suppliers) /\ c \in Nat
          /\ Total(Named(positions', q), Suppliers) =
               c - (IF r = q THEN held ELSE 0) + (IF r = q THEN held - shares ELSE 0)
      BY <1>2, <1>10, <3>1 DEF SupplyAgrees
    <3> HIDE DEF c
    <3> QED BY <1>4, <1>5, <3>2, <3>3
  <2> QED BY <2>1, <2>2, <2>3 DEF SupplyAgrees
<1>20. Backed(vault, state, fees)'
  <2>1. vault' \in Nat
    BY <1>1, <1>3
  <2>2. state'.total_supply - S.total_supply
          <= (vault' + state'.total_borrow) - (vault + S.total_borrow)
    <3> DEFINE before == S.total_supply
               owed == S.total_borrow
    <3>1. /\ state'.total_supply = before - off /\ state'.total_borrow = owed
          /\ vault' = vault - amount /\ amount <= off /\ off \in Nat
      BY <1>1, <1>5, <1>16
    <3>2. before \in Nat /\ owed \in Nat /\ vault \in Nat /\ amount \in Nat
      BY <1>1, <1>3
    <3> HIDE DEF before, owed
    <3>3. (before - off) - before <= ((vault - amount) + owed) - (vault + owed)
      BY <3>1, <3>2
    <3> QED BY <3>1, <3>3 DEF before, owed
  <2> QED BY <1>1, <1>2, <1>3, <1>15, <1>16, <2>1, <2>2, StaysBacked
<1>21. state'.borrow_shares = Total(loans', Managers)
  BY <1>1, <1>2, <1>16 DEF IInv
<1> QED BY <1>1, <1>15, <1>17, <1>18, <1>19, <1>20, <1>21 DEF IInv

(* A new referral has no shares, and nobody has named it.                   *)
LEMMA MintStep ==
    ASSUME MarginPoolAssumption, IInv, MintSupplyReferral
    PROVE  IInv'
<1> DEFINE n == Len(fees.referrals)
           g == [fees EXCEPT !.referrals = Append(@, NewTracker(fees.fees_per_share))]
<1>1. /\ ops' = ops + 1 /\ fees' = g
      /\ UNCHANGED <<now, vault, state, config, positions, limiter, allowed, loans, wealth>>
  BY DEF MintSupplyReferral, Call
<1>2. /\ TypeInv /\ FeesOK(fees) /\ PositionsOK(positions, fees)
      /\ SupplyAgrees(positions, state, fees) /\ Backed(vault, state, fees)
      /\ state.borrow_shares = Total(loans, Managers)
      /\ SharesIn(fees) = fees.total_shares /\ Suppliers \in Nat
  BY DEF IInv, SupplyAgrees, MarginPoolAssumption
<1>3. /\ FeesOK(g) /\ ExactFees(g) = ExactFees(fees)
      /\ Len(g.referrals) = n + 1
      /\ g.total_shares = fees.total_shares
      /\ SharesIn(g) = g.total_shares
      /\ \A q \in DOMAIN g.referrals :
            g.referrals[q].current_shares =
               IF q = n + 1 THEN 0 ELSE fees.referrals[q].current_shares
  BY <1>2, MintTracker
<1> HIDE DEF g
<1>4. n \in Nat /\ DOMAIN fees.referrals = 1..n /\ DOMAIN g.referrals = 1..(n + 1)
  BY <1>2, <1>3 DEF FeesOK
<1> HIDE DEF n
<1>5. TypeInv'
  BY <1>1, <1>2 DEF TypeInv
<1>6. \A v \in 1..Suppliers : positions[v].referral \in Nat /\ positions[v].referral <= n
  BY <1>2 DEF PositionsOK, Position, n
<1>7. PositionsOK(positions, fees)'
  <2>1. \A v \in 1..Suppliers : positions[v].referral <= n + 1
    BY <1>4, <1>6
  <2> QED BY <1>1, <1>2, <1>3, <2>1 DEF PositionsOK
<1>8. SupplyAgrees(positions, state, fees)'
  <2>1. ASSUME NEW q \in DOMAIN g.referrals
        PROVE  g.referrals[q].current_shares = Total(Named(positions, q), Suppliers)
    <3>1. CASE q = n + 1
      <4>1. \A v \in 1..Suppliers : positions[v].referral # n + 1
        BY <1>4, <1>6
      <4>2. \A v \in 1..Suppliers : Named(positions, q)[v] = 0
        BY <3>1, <4>1 DEF Named
      <4>3. Total(Named(positions, q), Suppliers) = 0
        BY <1>2, <4>2, TotalZero
      <4> QED BY <1>3, <3>1, <4>3
    <3>2. CASE q # n + 1
      <4>1. q \in DOMAIN fees.referrals
        BY <1>4, <3>2
      <4> QED BY <1>2, <1>3, <3>2, <4>1 DEF SupplyAgrees
    <3> QED BY <3>1, <3>2
  <2> QED BY <1>1, <1>2, <1>3, <2>1 DEF SupplyAgrees
<1>9. Backed(vault, state, fees)'
  BY <1>1, <1>2, <1>3 DEF Backed
<1> QED BY <1>1, <1>2, <1>3, <1>5, <1>7, <1>8, <1>9 DEF IInv

(* What a referral is paid was owed to it.                                  *)
LEMMA ClaimStep ==
    ASSUME MarginPoolAssumption, IInv, NEW r \in DOMAIN fees.referrals,
           WithdrawReferralFees(r)
    PROVE  IInv'
<1> DEFINE paid == Unclaimed(fees, r)
           g == [fees EXCEPT !.referrals[r] =
                    [update_unclaimed_fees(fees, r) EXCEPT !.unclaimed_fees = 0]]
<1>1. /\ ops' = ops + 1 /\ fees' = g /\ paid <= vault /\ vault' = vault - paid
      /\ UNCHANGED <<now, state, config, positions, limiter, allowed, loans, wealth>>
  BY DEF WithdrawReferralFees, Call
<1>2. /\ TypeInv /\ FeesOK(fees) /\ PositionsOK(positions, fees)
      /\ SupplyAgrees(positions, state, fees) /\ Backed(vault, state, fees)
      /\ state.borrow_shares = Total(loans, Managers)
      /\ SharesIn(fees) = fees.total_shares /\ vault \in Nat
      /\ state.total_supply \in Nat /\ state.total_borrow \in Nat
  BY DEF IInv, SupplyAgrees, TypeInv, StateRecord
<1>3. /\ FeesOK(g) /\ ExactFees(g) + paid * Scale <= ExactFees(fees)
      /\ Len(g.referrals) = Len(fees.referrals)
      /\ g.total_shares = fees.total_shares
      /\ SharesIn(g) = g.total_shares
      /\ \A q \in DOMAIN fees.referrals :
            g.referrals[q].current_shares = fees.referrals[q].current_shares
  BY <1>2, ClaimFees
<1>4. paid \in Nat
  BY <1>2, TrackerFacts
<1> HIDE DEF g, paid
<1>5. vault' \in Nat
  BY <1>1, <1>2, <1>4
<1>6. TypeInv'
  BY <1>1, <1>2, <1>5 DEF TypeInv
<1>7. PositionsOK(positions, fees)'
  BY <1>1, <1>2, <1>3 DEF PositionsOK
<1>8. SupplyAgrees(positions, state, fees)'
  <2>1. DOMAIN g.referrals = DOMAIN fees.referrals
    BY <1>2, <1>3 DEF FeesOK
  <2> QED BY <1>1, <1>2, <1>3, <2>1 DEF SupplyAgrees
<1>9. Backed(vault, state, fees)'
  <2> DEFINE e == ExactFees(fees)
             e2 == ExactFees(g)
             a == state.total_supply
             b == state.total_borrow
  <2>1. ExactFees(g) \in Nat
    BY <1>3, ExactCoversClaims
  <2>2. ExactFees(fees) \in Nat
    BY <1>2, ExactCoversClaims
  <2>3. /\ e + a * Scale <= (vault + b) * Scale
        /\ e2 + paid * Scale <= e
    BY <1>2, <1>3 DEF Backed
  <2>4. SUFFICES e2 + a * Scale <= ((vault - paid) + b) * Scale
    BY <1>1 DEF Backed
  <2> HIDE DEF e, e2, a, b
  <2>5. e \in Int /\ e2 \in Int /\ a \in Int /\ b \in Int
    BY <1>2, <2>1, <2>2 DEF e, e2, a, b
  <2>6. (-paid) * Scale = -(paid * Scale) /\ paid * Scale \in Int
    BY <1>4, ScaleAssumption, TimesReorder
  <2>7. /\ e2 <= e + (-paid) * Scale /\ -paid \in Int
        /\ vault + b \in Int /\ (vault - paid) + b \in Int
        /\ (-paid) + a - a <= ((vault - paid) + b) - (vault + b)
    BY <1>2, <1>4, <2>3, <2>5, <2>6
  <2> QED BY <2>3, <2>5, <2>7, StillCovered
<1> QED BY <1>1, <1>2, <1>3, <1>6, <1>7, <1>8, <1>9 DEF IInv

(* The same for maintainer and protocol.                                    *)
LEMMA CollectStep ==
    ASSUME MarginPoolAssumption, IInv, NEW whose \in {"maintainer_fees", "protocol_fees"},
           WithdrawFees(whose)
    PROVE  IInv'
<1> DEFINE paid == fees[whose]
           g == [fees EXCEPT ![whose] = 0]
           n == Len(fees.referrals)
<1>1. /\ ops' = ops + 1 /\ fees' = g /\ paid <= vault /\ vault' = vault - paid
      /\ UNCHANGED <<now, state, config, positions, limiter, allowed, loans, wealth>>
  BY DEF WithdrawFees, Call
<1>2. /\ TypeInv /\ FeesOK(fees) /\ PositionsOK(positions, fees)
      /\ SupplyAgrees(positions, state, fees) /\ Backed(vault, state, fees)
      /\ state.borrow_shares = Total(loans, Managers)
      /\ SharesIn(fees) = fees.total_shares /\ vault \in Nat
      /\ state.total_supply \in Nat /\ state.total_borrow \in Nat
  BY DEF IInv, SupplyAgrees, TypeInv, StateRecord
<1>3. /\ g \in [referrals : Seq(Tracker), total_shares : Nat, fees_per_share : Nat,
                maintainer_fees : Nat, protocol_fees : Nat]
      /\ g.referrals = fees.referrals /\ g.total_shares = fees.total_shares
      /\ g.fees_per_share = fees.fees_per_share
      /\ paid \in Nat /\ fees.maintainer_fees \in Nat /\ fees.protocol_fees \in Nat
      /\ g.maintainer_fees + g.protocol_fees
           = (fees.maintainer_fees + fees.protocol_fees) - paid
  <2>1. CASE whose = "maintainer_fees"
    BY <1>2, <2>1 DEF FeesOK
  <2>2. CASE whose = "protocol_fees"
    BY <1>2, <2>2 DEF FeesOK
  <2> QED BY <2>1, <2>2
<1> HIDE DEF g, paid
<1>4. FeesOK(g) /\ SharesIn(g) = g.total_shares
  BY <1>2, <1>3 DEF FeesOK, SharesIn
<1>5. vault' \in Nat
  BY <1>1, <1>2, <1>3
<1>6. TypeInv'
  BY <1>1, <1>2, <1>5 DEF TypeInv
<1>7. PositionsOK(positions, fees)'
  BY <1>1, <1>2, <1>3 DEF PositionsOK
<1>8. SupplyAgrees(positions, state, fees)'
  BY <1>1, <1>2, <1>3, <1>4 DEF SupplyAgrees
<1>9. Backed(vault, state, fees)'
  <2> DEFINE rest == fees.maintainer_fees + fees.protocol_fees
             trackers == Total([q \in DOMAIN fees.referrals |-> Exact(fees, q)], n)
             e == ExactFees(fees)
             e2 == ExactFees(g)
             a == state.total_supply
             b == state.total_borrow
  <2>1. [q \in DOMAIN g.referrals |-> Exact(g, q)]
          = [q \in DOMAIN fees.referrals |-> Exact(fees, q)]
    BY <1>3 DEF Exact, Accrued
  <2>2. e = rest * Scale + trackers /\ e2 = (rest - paid) * Scale + trackers
    BY <1>3, <2>1 DEF ExactFees
  <2>3. e + a * Scale <= (vault + b) * Scale
    BY <1>2 DEF Backed
  <2>4. SUFFICES e2 + a * Scale <= ((vault - paid) + b) * Scale
    BY <1>1 DEF Backed
  <2>5. ExactFees(fees) \in Nat
    BY <1>2, ExactCoversClaims
  <2>6. ExactFees(g) \in Nat
    BY <1>4, ExactCoversClaims
  <2>7. \A q \in 1..n : Exact(fees, q) \in Int
    BY <1>2, TrackerFacts DEF FeesOK
  <2>8. trackers \in Int
    <3> DEFINE x == [q \in DOMAIN fees.referrals |-> Exact(fees, q)]
    <3>1. n \in Nat /\ DOMAIN fees.referrals = 1..n
      BY <1>2 DEF FeesOK
    <3>2. \A q \in 1..n : x[q] \in Int
      BY <2>7, <3>1
    <3> HIDE DEF x, n
    <3>3. Total(x, n) \in Int
      BY <3>1, <3>2, TotalType
    <3> QED BY <3>3 DEF x
  <2>9. rest \in Int /\ a \in Int /\ b \in Int /\ e \in Int /\ e2 \in Int
    <3>1. rest \in Int /\ a \in Int /\ b \in Int
      BY <1>2, <1>3, SMTT(30)
    <3>2. e \in Int /\ e2 \in Int
      BY <2>5, <2>6
    <3> QED BY <3>1, <3>2
  <2> HIDE DEF rest, trackers, e, e2, a, b
  <2>10. (rest - paid) * Scale = rest * Scale - paid * Scale
    BY <1>3, <2>9, ScaleAssumption, TimesDistributes
  <2>11. /\ (-paid) * Scale = -(paid * Scale)
         /\ paid * Scale \in Int /\ rest * Scale \in Int
    BY <1>3, <2>9, ScaleAssumption, TimesReorder
  <2>12. e2 <= e + (-paid) * Scale
    BY <2>2, <2>8, <2>9, <2>10, <2>11
  <2>13. /\ -paid \in Int
         /\ vault + b \in Int /\ (vault - paid) + b \in Int
         /\ (-paid) + a - a <= ((vault - paid) + b) - (vault + b)
    BY <1>2, <1>3, <2>9
  <2> QED BY <2>3, <2>9, <2>12, <2>13, StillCovered
<1> QED BY <1>1, <1>2, <1>4, <1>6, <1>7, <1>8, <1>9 DEF IInv

(* What the handlers of a loan have in common: the manager's shares and the *)
(* pool's change alike, and what comes in covers what the loans lose.       *)
LEMMA LoanStep ==
    ASSUME MarginPoolAssumption, IInv, Accrues, NEW m \in 1..Managers, NEW l \in Nat,
           ops' = ops + 1, fees' = F, vault' \in Nat,
           state' \in StateRecord, state'.last_update_timestamp = now,
           state'.supply_shares = S.supply_shares,
           state'.borrow_shares = S.borrow_shares - loans[m] + l,
           state'.total_supply - S.total_supply
             <= (vault' + state'.total_borrow) - (vault + S.total_borrow),
           loans' = [loans EXCEPT ![m] = l], wealth' \in [1..Managers -> Nat],
           UNCHANGED <<now, config, positions, limiter, allowed>>
    PROVE  IInv'
<1>1. /\ S \in StateRecord /\ S.borrow_shares = state.borrow_shares
      /\ FeesOK(F) /\ SupplyAgrees(positions, S, F) /\ PositionsOK(positions, F)
      /\ Backed(vault, S, F)
  BY Accrual
<1>2. /\ TypeInv /\ vault \in Nat /\ Managers \in Nat /\ loans \in [1..Managers -> Nat]
      /\ state.borrow_shares = Total(loans, Managers)
  BY DEF IInv, TypeInv, MarginPoolAssumption
<1>3. TypeInv'
  <2>1. loans' \in [1..Managers -> Nat] /\ now \in Nat /\ now <= now
    BY <1>2 DEF TypeInv
  <2> QED BY <1>2, <2>1 DEF TypeInv
<1>4. SupplyAgrees(positions, state, fees)' /\ PositionsOK(positions, fees)'
  BY <1>1 DEF SupplyAgrees, PositionsOK
<1>5. state'.borrow_shares = Total(loans', Managers)
  <2>1. Total([loans EXCEPT ![m] = l], Managers) = Total(loans, Managers) - loans[m] + l
    BY <1>2, MoveLoan
  <2> QED BY <1>1, <1>2, <2>1
<1>6. ExactFees(F) <= ExactFees(F)
  <2>1. ExactFees(F) \in Nat
    BY <1>1, ExactCoversClaims
  <2> QED BY <2>1
<1>7. Backed(vault', state', F)
  BY <1>1, <1>2, <1>6, StaysBacked
<1> QED BY <1>1, <1>3, <1>4, <1>5, <1>7 DEF IInv

(* What a manager's shares are worth is part of the loans.                  *)
LEMMA LoanFacts ==
    ASSUME MarginPoolAssumption, IInv, Accrues, NEW m \in 1..Managers
    PROVE  /\ loans[m] \in Nat /\ wealth[m] \in Nat /\ vault \in Nat /\ Managers \in Nat
           /\ S \in StateRecord /\ S.last_update_timestamp = now
           /\ S.total_supply \in Nat /\ S.total_borrow \in Nat /\ S.borrow_shares \in Nat
           /\ S.supply_shares \in Nat
           /\ loans[m] <= S.borrow_shares
           /\ borrow_ratio(S) \in Nat
           /\ Debt(m) = mul_round_up(loans[m], borrow_ratio(S)) /\ Debt(m) \in Nat
           /\ \A x \in Nat : x <= loans[m] /\ loans[m] > 0
                 => /\ mul(x, borrow_ratio(S)) \in Nat
                    /\ mul(x, borrow_ratio(S)) <= S.total_borrow
<1>1. /\ S \in StateRecord /\ S.last_update_timestamp = now
      /\ S.borrow_shares = state.borrow_shares
  BY Accrual
<1>2. /\ vault \in Nat /\ Managers \in Nat /\ loans \in [1..Managers -> Nat]
      /\ wealth \in [1..Managers -> Nat] /\ state.borrow_shares = Total(loans, Managers)
  BY DEF IInv, TypeInv, MarginPoolAssumption
<1>3. /\ S.total_supply \in Nat /\ S.total_borrow \in Nat /\ S.borrow_shares \in Nat
      /\ S.supply_shares \in Nat
  BY <1>1 DEF StateRecord
<1>4. loans[m] \in Nat /\ wealth[m] \in Nat
  BY <1>2
<1>5. loans[m] <= S.borrow_shares
  <2>1. 0 \in Nat
    OBVIOUS
  <2> QED BY <1>1, <1>2, <2>1, MoveLoan, SMTT(30)
<1>6. /\ borrow_ratio(S) \in Nat
      /\ S.borrow_shares # 0 => borrow_ratio(S) = div(S.total_borrow, S.borrow_shares)
  BY <1>1, RatioNat
<1>7. Debt(m) = mul_round_up(loans[m], borrow_ratio(S)) /\ Debt(m) \in Nat
  BY <1>4, <1>6, MulBounds DEF Debt, borrow_shares_to_amount
<1>8. ASSUME NEW x \in Nat, x <= loans[m], loans[m] > 0
      PROVE  mul(x, borrow_ratio(S)) \in Nat /\ mul(x, borrow_ratio(S)) <= S.total_borrow
  <2>1. S.borrow_shares \in Nat \ {0} /\ x <= S.borrow_shares
    BY <1>3, <1>4, <1>5, <1>8
  <2>2. mul(x, borrow_ratio(S)) <= S.total_borrow
    BY <1>3, <1>6, <2>1, SharesWithinTotal
  <2> QED BY <1>6, <2>2, MulBounds
<1> QED BY <1>1, <1>2, <1>3, <1>4, <1>5, <1>6, <1>7, <1>8

(* A loan takes out of the coins what it adds to the loans.                 *)
LEMMA BorrowStep ==
    ASSUME MarginPoolAssumption, IInv, NEW m \in 1..Managers, NEW amount \in LoanAmounts,
           Borrow(m, amount)
    PROVE  IInv'
<1> DEFINE ratio == borrow_ratio(S)
           shares == div_round_up(amount, ratio)
<1>1. /\ ops' = ops + 1 /\ ratio > 0 /\ amount <= vault
      /\ state' = [S EXCEPT !.borrow_shares = @ + shares, !.total_borrow = @ + amount]
      /\ fees' = F /\ vault' = vault - amount
      /\ loans' = [loans EXCEPT ![m] = @ + shares]
      /\ wealth' = [wealth EXCEPT ![m] = @ + amount]
      /\ UNCHANGED <<now, config, positions, limiter, allowed>>
  BY DEF Borrow, Call
<1>0. Accrues
  BY DEF Borrow
<1>2. /\ loans[m] \in Nat /\ wealth[m] \in Nat /\ vault \in Nat
      /\ S \in StateRecord /\ S.last_update_timestamp = now
      /\ S.total_supply \in Nat /\ S.total_borrow \in Nat /\ S.borrow_shares \in Nat
      /\ ratio \in Nat
  BY <1>0, LoanFacts
<1>3. amount \in Nat /\ wealth \in [1..Managers -> Nat]
  BY DEF MarginPoolAssumption, IInv, TypeInv
<1>4. shares \in Nat
  <2>1. ratio \in Nat \ {0}
    BY <1>1, <1>2
  <2> HIDE DEF ratio
  <2> QED BY <1>3, <2>1, DivBounds
<1> HIDE DEF shares, ratio
<1>5. /\ state' \in StateRecord /\ state'.last_update_timestamp = now
      /\ state'.supply_shares = S.supply_shares
      /\ state'.borrow_shares = S.borrow_shares + shares
      /\ state'.total_supply = S.total_supply /\ state'.total_borrow = S.total_borrow + amount
  <2>1. S.borrow_shares + shares \in Nat /\ S.total_borrow + amount \in Nat
    BY <1>2, <1>3, <1>4
  <2> QED BY <1>1, <1>2, <2>1 DEF StateRecord
<1>6. /\ vault' \in Nat /\ loans[m] + shares \in Nat
      /\ S.borrow_shares + shares = S.borrow_shares - loans[m] + (loans[m] + shares)
      /\ state'.total_supply - S.total_supply
           <= (vault' + state'.total_borrow) - (vault + S.total_borrow)
  <2>1. vault' \in Nat /\ loans[m] + shares \in Nat
    BY <1>1, <1>2, <1>3, <1>4, SMTT(30)
  <2>2. S.borrow_shares + shares = S.borrow_shares - loans[m] + (loans[m] + shares)
    BY <1>2, <1>4
  <2>3. vault' = vault - amount /\ vault \in Int /\ amount \in Int /\ S.total_borrow \in Int
    BY <1>1, <1>2, <1>3
  <2>4. state'.total_supply - S.total_supply
          <= (vault' + state'.total_borrow) - (vault + S.total_borrow)
    BY <1>2, <1>5, <2>3
  <2> QED BY <2>1, <2>2, <2>4
<1>7. wealth' \in [1..Managers -> Nat] /\ loans' = [loans EXCEPT ![m] = loans[m] + shares]
  BY <1>1, <1>2, <1>3
<1> QED BY <1>0, <1>1, <1>5, <1>6, <1>7, LoanStep

(* A repayment takes no more off the loans than it brings in.               *)
LEMMA RepayStep ==
    ASSUME MarginPoolAssumption, IInv, NEW m \in 1..Managers, NEW amount \in LoanAmounts,
           Repay(m, amount)
    PROVE  IInv'
<1> DEFINE ratio == borrow_ratio(S)
           debt == Debt(m)
           paid == Lesser(amount, debt)
           shares == mul(loans[m], div(paid, debt))
           off == mul(shares, ratio)
<1>1. /\ ops' = ops + 1 /\ loans[m] > 0 /\ debt > 0 /\ paid <= wealth[m]
      /\ state' = [S EXCEPT !.borrow_shares = @ - shares, !.total_borrow = @ - off]
      /\ fees' = F /\ vault' = vault + paid
      /\ loans' = [loans EXCEPT ![m] = @ - shares]
      /\ wealth' = [wealth EXCEPT ![m] = @ - paid]
      /\ UNCHANGED <<now, config, positions, limiter, allowed>>
  BY DEF Repay, Call
<1>0. Accrues
  BY DEF Repay
<1>2. /\ loans[m] \in Nat /\ wealth[m] \in Nat /\ vault \in Nat
      /\ S \in StateRecord /\ S.last_update_timestamp = now
      /\ S.total_supply \in Nat /\ S.total_borrow \in Nat /\ S.borrow_shares \in Nat
      /\ loans[m] <= S.borrow_shares /\ ratio \in Nat
      /\ debt = mul_round_up(loans[m], ratio) /\ debt \in Nat
      /\ \A x \in Nat : x <= loans[m] /\ loans[m] > 0
            => mul(x, ratio) \in Nat /\ mul(x, ratio) <= S.total_borrow
  BY <1>0, LoanFacts
<1>3. amount \in Nat /\ wealth \in [1..Managers -> Nat]
  BY DEF MarginPoolAssumption, IInv, TypeInv
<1> HIDE DEF ratio, debt
<1>4. paid \in Nat /\ paid <= debt
  BY <1>2, <1>3 DEF Lesser
<1> HIDE DEF paid
<1>5. shares \in Nat /\ off <= paid /\ shares <= loans[m]
  BY <1>1, <1>2, <1>4, RepaymentCovers
<1> HIDE DEF shares
<1>6. off \in Nat /\ off <= S.total_borrow
  BY <1>1, <1>2, <1>5
<1> HIDE DEF off
<1>7. /\ state' \in StateRecord /\ state'.last_update_timestamp = now
      /\ state'.supply_shares = S.supply_shares
      /\ state'.borrow_shares = S.borrow_shares - shares
      /\ state'.total_supply = S.total_supply /\ state'.total_borrow = S.total_borrow - off
  <2>1. S.borrow_shares - shares \in Nat /\ S.total_borrow - off \in Nat
    BY <1>2, <1>5, <1>6
  <2> QED BY <1>1, <1>2, <2>1 DEF StateRecord
<1>8. /\ vault' \in Nat /\ loans[m] - shares \in Nat
      /\ S.borrow_shares - shares = S.borrow_shares - loans[m] + (loans[m] - shares)
      /\ state'.total_supply - S.total_supply
           <= (vault' + state'.total_borrow) - (vault + S.total_borrow)
  BY <1>1, <1>2, <1>4, <1>5, <1>6, <1>7
<1>9. wealth' \in [1..Managers -> Nat] /\ loans' = [loans EXCEPT ![m] = loans[m] - shares]
  BY <1>1, <1>2, <1>3, <1>4
<1> QED BY <1>0, <1>1, <1>7, <1>8, <1>9, LoanStep

(* A liquidation repays at most the debt.                                   *)
LEMMA MaxRepayFacts ==
    ASSUME MarginPoolAssumption, IInv, Accrues, NEW m \in 1..Managers, Debt(m) > 0,
           wealth[m] <= mul(Risk.target_liquidation_risk_ratio, Debt(m))
    PROVE  max_repay(m) \in Nat /\ max_repay(m) <= Debt(m)
<1> DEFINE target == Risk.target_liquidation_risk_ratio
           both == Scale + Risk.user_liquidation_reward + Risk.pool_liquidation_reward
           debt == Debt(m)
           assets == wealth[m]
           missing == mul(target, debt) - assets
           whole == div(missing, target - both)
           debt_repay == Lesser(whole, debt)
           cap == Lesser(mul(debt_repay, both), assets)
<1>1. debt \in Nat \ {0} /\ assets \in Nat /\ Managers \in Nat
  BY LoanFacts
<1>2. /\ target \in Nat /\ both \in Nat \ {0} /\ both < target
  <2>1. RiskAssumption
    BY <1>1 DEF MarginPoolAssumption
  <2> QED BY <2>1, ScaleAssumption DEF RiskAssumption
<1>3. max_repay(m) = div(cap, both)
  BY DEF max_repay
<1>4. assets <= mul(target, debt)
  OBVIOUS
<1> HIDE DEF target, both, debt, assets
<1>5. missing \in Nat /\ target - both \in Nat \ {0}
  <2>1. mul(target, debt) \in Nat
    BY <1>1, <1>2, MulBounds
  <2> QED BY <1>1, <1>2, <1>4, <2>1
<1> HIDE DEF missing
<1>6. whole \in Nat
  BY <1>5, DivBounds
<1> HIDE DEF whole
<1>7. debt_repay \in Nat /\ debt_repay <= debt
  BY <1>1, <1>6 DEF Lesser
<1> HIDE DEF debt_repay
<1>8. mul(debt_repay, both) \in Nat /\ mul(debt_repay, both) * Scale <= debt_repay * both
  BY <1>2, <1>7, MulBounds
<1>9. cap \in Nat /\ cap <= mul(debt_repay, both)
  BY <1>1, <1>8 DEF Lesser
<1> HIDE DEF cap
<1>10. cap * Scale <= debt_repay * both
  <2>1. cap * Scale <= mul(debt_repay, both) * Scale
    BY <1>8, <1>9, ScaleAssumption, TimesMonotone
  <2>2. /\ cap * Scale \in Int /\ mul(debt_repay, both) * Scale \in Int
        /\ debt_repay * both \in Int
    BY <1>2, <1>7, <1>8, <1>9, ScaleAssumption, TimesReorder
  <2> QED BY <1>8, <2>1, <2>2
<1>11. div(cap, both) \in Nat
  BY <1>2, <1>9, DivBounds
<1>12. div(cap, both) <= debt_repay
  BY <1>2, <1>7, <1>9, <1>10, DivAtMost
<1>13. div(cap, both) \in Nat /\ div(cap, both) <= debt
  BY <1>1, <1>7, <1>11, <1>12
<1> QED BY <1>3, <1>13 DEF debt

(* Assets with a risk ratio below 1 do not cover the debt.                  *)
LEMMA UnderWater ==
    ASSUME NEW assets \in Nat, NEW debt \in Nat \ {0}, MaxRiskRatio \in Nat,
           Scale <= MaxRiskRatio, risk_ratio(assets, debt) < Scale
    PROVE  assets < debt
<1>1. risk_ratio(assets, debt) = div(assets, debt)
  BY ScaleAssumption DEF risk_ratio
<1>2. SUFFICES ASSUME debt <= assets PROVE FALSE
  OBVIOUS
<1>3. Scale * debt <= assets * Scale
  BY <1>2, ScaleAssumption, TimesMonotone, TimesReorder
<1>4. Scale <= div(assets, debt)
  <2>1. Scale \in Int
    BY ScaleAssumption
  <2> QED BY <1>3, <2>1, DivAtLeast
<1>5. div(assets, debt) \in Nat
  BY DivBounds
<1> QED BY <1>1, <1>4, <1>5, ScaleAssumption

(* What a liquidation takes off the loans is paid for, unless the assets do *)
(* not cover the loan and all of it is written off.                         *)
LEMMA LiquidateFacts ==
    ASSUME MarginPoolAssumption, IInv, NEW m \in 1..Managers, NEW coin \in Coins,
           Liquidate(m, coin)
    PROVE  \E paid \in Nat, shares \in Nat, out \in Nat :
              LET amount == mul(shares, borrow_ratio(S))
              IN  /\ shares <= loans[m] /\ out <= wealth[m] /\ amount \in Nat
                  /\ amount <= S.total_borrow /\ amount <= S.total_supply + paid
                  /\ \/ amount <= paid
                     \/ shares = loans[m] /\ loans[m] > 0 /\ wealth[m] < Debt(m)
                  /\ ops' = ops + 1 /\ fees' = F /\ vault' = vault + paid
                  /\ state' = [S EXCEPT !.borrow_shares = @ - shares,
                                        !.total_borrow = @ - amount,
                                        !.total_supply = @ + paid - amount]
                  /\ loans' = [loans EXCEPT ![m] = @ - shares]
                  /\ wealth' = [wealth EXCEPT ![m] = @ - out]
                  /\ UNCHANGED <<now, config, positions, limiter, allowed>>
<1> DEFINE with_pool == Scale + Risk.pool_liquidation_reward
           ratio == borrow_ratio(S)
           debt == Debt(m)
           repay_amount == Lesser(max_repay(m), div(coin, with_pool))
           paid == mul(repay_amount, with_pool)
           shares == LiquidatedShares(m, repay_amount)
           amount == mul(shares, ratio)
           user == with_pool + Risk.user_liquidation_reward
           out == Lesser(mul(repay_amount, user), wealth[m])
<1>1. /\ ops' = ops + 1 /\ loans[m] > 0 /\ debt > 0
      /\ wealth[m] <= mul(Risk.target_liquidation_risk_ratio, debt)
      /\ amount <= S.total_supply + paid
      /\ state' = [S EXCEPT !.borrow_shares = @ - shares, !.total_borrow = @ - amount,
                            !.total_supply = @ + paid - amount]
      /\ fees' = F /\ vault' = vault + paid
      /\ loans' = [loans EXCEPT ![m] = @ - shares]
      /\ wealth' = [wealth EXCEPT ![m] = @ - out]
      /\ UNCHANGED <<now, config, positions, limiter, allowed>>
  BY DEF Liquidate, Call
<1>0. Accrues
  BY DEF Liquidate
<1>2. /\ loans[m] \in Nat /\ wealth[m] \in Nat /\ Managers \in Nat
      /\ ratio \in Nat
      /\ debt = mul_round_up(loans[m], ratio) /\ debt \in Nat
      /\ \A x \in Nat : x <= loans[m] /\ loans[m] > 0
            => mul(x, ratio) \in Nat /\ mul(x, ratio) <= S.total_borrow
  BY <1>0, LoanFacts
<1>3. /\ with_pool \in Nat \ {0} /\ Scale <= with_pool /\ user \in Nat /\ coin \in Nat
      /\ MaxRiskRatio \in Nat /\ Scale <= MaxRiskRatio
  <2>1. RiskAssumption
    BY <1>2 DEF MarginPoolAssumption
  <2> QED BY <2>1, ScaleAssumption DEF RiskAssumption, MarginPoolAssumption
<1>4. max_repay(m) \in Nat /\ max_repay(m) <= debt
  BY <1>0, <1>1, MaxRepayFacts
<1> HIDE DEF with_pool, user
<1>5. repay_amount \in Nat /\ repay_amount <= debt
  <2>1. div(coin, with_pool) \in Nat
    BY <1>3, DivBounds
  <2> QED BY <1>2, <1>4, <2>1 DEF Lesser
<1> HIDE DEF repay_amount
<1>6. paid \in Nat /\ repay_amount <= paid
  <2>1. repay_amount * Scale <= repay_amount * with_pool
    BY <1>3, <1>5, ScaleAssumption, TimesMonotone
  <2> QED BY <1>3, <1>5, <2>1, MulBounds, MulAtLeast
<1>7. out \in Nat /\ out <= wealth[m]
  <2>1. mul(repay_amount, user) \in Nat
    BY <1>3, <1>5, MulBounds
  <2> QED BY <1>2, <2>1 DEF Lesser
<1> HIDE DEF paid, out, ratio
<1>8. /\ shares \in Nat /\ shares <= loans[m]
      /\ \/ amount <= paid
         \/ shares = loans[m] /\ loans[m] > 0 /\ wealth[m] < debt
  <2>1. CASE risk_ratio(wealth[m], Debt(m)) < Scale /\ repay_amount = max_repay(m)
    <3>1. shares = loans[m]
      BY <2>1 DEF LiquidatedShares
    <3>2. debt \in Nat \ {0} /\ risk_ratio(wealth[m], debt) < Scale
      BY <1>1, <1>2, <2>1
    <3> HIDE DEF debt
    <3>3. wealth[m] < debt
      BY <1>2, <1>3, <3>2, UnderWater
    <3>4. loans[m] <= loans[m]
      BY <1>2
    <3> QED BY <1>1, <1>2, <3>1, <3>3, <3>4
  <2>2. CASE ~ (risk_ratio(wealth[m], Debt(m)) < Scale /\ repay_amount = max_repay(m))
    <3>1. shares = mul(loans[m], div(repay_amount, debt))
      BY <2>2 DEF LiquidatedShares
    <3> HIDE DEF shares, debt
    <3>2. shares \in Nat /\ amount <= repay_amount /\ shares <= loans[m]
      BY <1>1, <1>2, <1>5, <3>1, RepaymentCovers
    <3>3. amount \in Nat
      BY <1>2, <3>2, MulBounds
    <3> QED BY <1>5, <1>6, <3>2, <3>3
  <2> QED BY <2>1, <2>2
<1> HIDE DEF shares
<1>9. amount \in Nat /\ amount <= S.total_borrow
  BY <1>1, <1>2, <1>8
<1> QED BY <1>1, <1>6, <1>7, <1>8, <1>9 DEF ratio

(* A liquidation changes coins, loans and supply alike.                     *)
LEMMA LiquidateStep ==
    ASSUME MarginPoolAssumption, IInv, NEW m \in 1..Managers, NEW coin \in Coins,
           Liquidate(m, coin)
    PROVE  IInv'
<1> DEFINE ratio == borrow_ratio(S)
<1>0. Accrues
  BY DEF Liquidate
<1>1. PICK paid \in Nat, shares \in Nat, out \in Nat :
              LET amount == mul(shares, ratio)
              IN  /\ shares <= loans[m] /\ out <= wealth[m] /\ amount \in Nat
                  /\ amount <= S.total_borrow /\ amount <= S.total_supply + paid
                  /\ ops' = ops + 1 /\ fees' = F /\ vault' = vault + paid
                  /\ state' = [S EXCEPT !.borrow_shares = @ - shares,
                                        !.total_borrow = @ - amount,
                                        !.total_supply = @ + paid - amount]
                  /\ loans' = [loans EXCEPT ![m] = @ - shares]
                  /\ wealth' = [wealth EXCEPT ![m] = @ - out]
                  /\ UNCHANGED <<now, config, positions, limiter, allowed>>
  BY LiquidateFacts, Zenon
<1> DEFINE amount == mul(shares, ratio)
<1>2. /\ loans[m] \in Nat /\ wealth[m] \in Nat /\ vault \in Nat
      /\ S \in StateRecord /\ S.last_update_timestamp = now
      /\ S.total_supply \in Nat /\ S.total_borrow \in Nat /\ S.borrow_shares \in Nat
      /\ loans[m] <= S.borrow_shares
  BY <1>0, LoanFacts
<1>3. wealth \in [1..Managers -> Nat]
  BY DEF IInv, TypeInv
<1>4. amount \in Nat /\ amount <= S.total_borrow /\ amount <= S.total_supply + paid
  BY <1>1
<1>5. state' = [S EXCEPT !.borrow_shares = @ - shares, !.total_borrow = @ - amount,
                         !.total_supply = @ + paid - amount]
  BY <1>1
<1> HIDE DEF amount, ratio
<1>6. /\ state' \in StateRecord /\ state'.last_update_timestamp = now
      /\ state'.supply_shares = S.supply_shares
      /\ state'.borrow_shares = S.borrow_shares - shares
      /\ state'.total_supply = S.total_supply + paid - amount
      /\ state'.total_borrow = S.total_borrow - amount
  <2>1. /\ S.borrow_shares - shares \in Nat /\ S.total_borrow - amount \in Nat
        /\ S.total_supply + paid - amount \in Nat
    BY <1>1, <1>2, <1>4
  <2> QED BY <1>2, <1>5, <2>1 DEF StateRecord
<1>7. vault' = vault + paid /\ vault' \in Nat /\ loans[m] - shares \in Nat
  BY <1>1, <1>2
<1>8. S.borrow_shares - shares = S.borrow_shares - loans[m] + (loans[m] - shares)
  BY <1>2
<1>9. state'.total_supply - S.total_supply
        <= (vault' + state'.total_borrow) - (vault + S.total_borrow)
  BY <1>2, <1>4, <1>6, <1>7
<1>10. wealth[m] - out \in Nat
  BY <1>1, <1>2
<1>11. /\ wealth' \in [1..Managers -> Nat]
       /\ loans' = [loans EXCEPT ![m] = loans[m] - shares]
  BY <1>1, <1>3, <1>10
<1> QED BY <1>0, <1>1, <1>6, <1>7, <1>8, <1>9, <1>11, LoanStep

(* A change of the parameters brings the books up to date first.            *)
LEMMA ConfigStep ==
    ASSUME MarginPoolAssumption, IInv, Accrues,
           config' \in [pool : MarginPoolConfig, interest : InterestConfig],
           LimiterOK(limiter', now), ops' = ops + 1, state' = S, fees' = F,
           UNCHANGED <<now, vault, positions, allowed, loans, wealth>>
    PROVE  IInv'
<1>1. /\ S \in StateRecord /\ S.last_update_timestamp = now
      /\ S.borrow_shares = state.borrow_shares
      /\ FeesOK(F) /\ SupplyAgrees(positions, S, F) /\ PositionsOK(positions, F)
      /\ Backed(vault, S, F)
  BY Accrual
<1>2. TypeInv /\ state.borrow_shares = Total(loans, Managers)
  BY DEF IInv
<1>3. TypeInv'
  <2>1. now \in Nat /\ now <= now
    BY <1>2 DEF TypeInv
  <2> QED BY <1>1, <1>2, <2>1 DEF TypeInv
<1> QED BY <1>1, <1>2, <1>3 DEF IInv

(* The steps that change neither shares nor amounts.                        *)
LEMMA OtherStep ==
    ASSUME MarginPoolAssumption, IInv, NEW m,
           \/ AllowDeepbookPool
           \/ Tick
           \/ m \in 1..Managers /\ \E w \in Wealths : Revalue(m, w)
           \/ UNCHANGED vars
    PROVE  IInv'
<1>1. /\ TypeInv /\ FeesOK(fees) /\ PositionsOK(positions, fees)
      /\ SupplyAgrees(positions, state, fees) /\ Backed(vault, state, fees)
      /\ state.borrow_shares = Total(loans, Managers)
  BY DEF IInv
<1>2. CASE AllowDeepbookPool
  <2>1. TypeInv'
    BY <1>1, <1>2 DEF AllowDeepbookPool, Call, TypeInv
  <2> QED BY <1>1, <1>2, <2>1 DEF AllowDeepbookPool, IInv
<1>3. CASE Tick
  <2>1. now' \in Nat /\ state.last_update_timestamp <= now' /\ LimiterOK(limiter, now')
    <3>1. /\ now \in Nat /\ now' = now + 1 /\ state.last_update_timestamp <= now
          /\ state.last_update_timestamp \in Nat
          /\ limiter.last_updated_ms \in Nat /\ limiter.last_updated_ms <= now
      BY <1>1, <1>3 DEF Tick, TypeInv, StateRecord, LimiterOK, LimiterRecord
    <3>2. now' \in Nat /\ state.last_update_timestamp <= now' /\ limiter.last_updated_ms <= now'
      BY <3>1
    <3> QED BY <1>1, <3>2 DEF TypeInv, LimiterOK
  <2>2. TypeInv'
    BY <1>1, <1>3, <2>1 DEF Tick, TypeInv
  <2> QED BY <1>1, <1>3, <2>2 DEF Tick, IInv
<1>4. CASE m \in 1..Managers /\ \E w \in Wealths : Revalue(m, w)
  <2>1. PICK w \in Wealths : Revalue(m, w)
    BY <1>4
  <2>2. w \in Nat
    BY DEF MarginPoolAssumption
  <2>3. TypeInv'
    <3>1. /\ ops' = ops + 1 /\ wealth' = [wealth EXCEPT ![m] = w]
          /\ UNCHANGED <<now, vault, state, config, limiter, allowed, loans>>
      BY <2>1 DEF Revalue, Call
    <3>2. wealth \in [1..Managers -> Nat] /\ ops \in Nat
      BY <1>1 DEF TypeInv
    <3>3. wealth' \in [1..Managers -> Nat]
      BY <2>2, <3>1, <3>2
    <3>4. ops' \in Nat
      BY <3>1, <3>2
    <3> QED BY <1>1, <3>1, <3>3, <3>4 DEF TypeInv
  <2> QED BY <1>1, <2>1, <2>3 DEF Revalue, IInv
<1>5. CASE UNCHANGED vars
  <2>1. TypeInv'
    BY <1>1, <1>5 DEF vars, TypeInv
  <2> QED BY <1>1, <1>5, <2>1 DEF vars, IInv
<1> QED BY <1>2, <1>3, <1>4, <1>5

(* A new pool.                                                              *)
LEMMA InitStep ==
    ASSUME MarginPoolAssumption, Init
    PROVE  IInv
<1>1. /\ Suppliers \in Nat /\ Managers \in Nat
      /\ InitialConfig \in [pool : MarginPoolConfig, interest : InterestConfig]
      /\ Wealths \subseteq Nat
  BY DEF MarginPoolAssumption
<1>2. /\ now = 0 /\ vault = 0 /\ ops = 0
      /\ state = [total_supply |-> 0, total_borrow |-> 0, supply_shares |-> 0,
                  borrow_shares |-> 0, last_update_timestamp |-> 0]
      /\ config = InitialConfig
      /\ fees = [referrals |-> <<NewTracker(0)>>, total_shares |-> 0, fees_per_share |-> 0,
                 maintainer_fees |-> 0, protocol_fees |-> 0]
      /\ positions = [u \in 1..Suppliers |-> [shares |-> 0, referral |-> NoReferral]]
      /\ limiter = new_limiter(InitialConfig.pool.rate_limit, 0)
      /\ allowed = TRUE
      /\ loans = [m \in 1..Managers |-> 0]
      /\ wealth \in [1..Managers -> Wealths]
  BY DEF Init
<1>3. TypeInv
  <2>1. InitialConfig.pool.rate_limit \in
          [capacity : Nat, refill_rate_per_ms : Nat, enabled : BOOLEAN]
    BY <1>1 DEF MarginPoolConfig
  <2>2. LimiterOK(limiter, now)
    BY <1>2, <2>1 DEF LimiterOK, LimiterRecord, new_limiter
  <2>3. state \in StateRecord /\ state.last_update_timestamp = 0
    BY <1>2 DEF StateRecord
  <2>4. loans \in [1..Managers -> Nat] /\ wealth \in [1..Managers -> Nat]
    BY <1>1, <1>2
  <2> QED BY <1>1, <1>2, <2>2, <2>3, <2>4 DEF TypeInv
<1> DEFINE t == NewTracker(0)
<1>4. t \in Tracker /\ t.current_shares = 0 /\ t.last_fees_per_share = 0 /\ t.unclaimed_fees = 0
  BY DEF NewTracker, Tracker
<1> HIDE DEF t
<1>5. /\ fees.referrals = <<t>> /\ fees.fees_per_share = 0 /\ fees.total_shares = 0
      /\ fees.maintainer_fees = 0 /\ fees.protocol_fees = 0
  BY <1>2 DEF t
<1>6. /\ <<t>> \in Seq(Tracker) /\ Len(<<t>>) = 1 /\ DOMAIN <<t>> = {1} /\ <<t>>[1] = t
  BY <1>4
<1>7. FeesOK(fees)
  <2>1. fees \in [referrals : Seq(Tracker), total_shares : Nat, fees_per_share : Nat,
                  maintainer_fees : Nat, protocol_fees : Nat]
    BY <1>2, <1>6 DEF t
  <2> QED BY <1>4, <1>5, <1>6, <2>1 DEF FeesOK
<1>8. PositionsOK(positions, fees)
  BY <1>2, <1>5, <1>6 DEF PositionsOK, Position, NoReferral
<1>9. Total(Held(positions), Suppliers) = 0
  <2>1. \A u \in 1..Suppliers : Held(positions)[u] = 0
    BY <1>2 DEF Held
  <2> QED BY <1>1, <2>1, TotalZero
<1>10. \A r : Total(Named(positions, r), Suppliers) = 0
  <2> SUFFICES ASSUME NEW r PROVE Total(Named(positions, r), Suppliers) = 0
    OBVIOUS
  <2>1. \A u \in 1..Suppliers : Named(positions, r)[u] = 0
    BY <1>2 DEF Named
  <2> QED BY <1>1, <2>1, TotalZero
<1>11. SharesIn(fees) = 0
  <2> DEFINE a == [r \in DOMAIN fees.referrals |-> fees.referrals[r].current_shares]
  <2>1. \A i \in 1..1 : a[i] = 0
    BY <1>4, <1>5, <1>6
  <2>2. SharesIn(fees) = Total(a, 1) /\ 1 \in Nat
    BY <1>5, <1>6 DEF SharesIn
  <2> HIDE DEF a
  <2> QED BY <2>1, <2>2, TotalZero
<1>12. ExactFees(fees) = 0
  <2> DEFINE a == [r \in DOMAIN fees.referrals |-> Exact(fees, r)]
  <2>1. \A i \in 1..1 : a[i] = 0
    <3>1. a[1] = 0 * Scale + 0 * (0 - 0)
      BY <1>4, <1>5, <1>6 DEF Exact, Accrued
    <3> QED BY <3>1, ScaleAssumption
  <2>2. ExactFees(fees) = (0 + 0) * Scale + Total(a, 1) /\ 1 \in Nat
    BY <1>5, <1>6 DEF ExactFees
  <2> HIDE DEF a
  <2>3. Total(a, 1) = 0
    BY <2>1, <2>2, TotalZero
  <2> QED BY <2>2, <2>3, ScaleAssumption
<1>13. SupplyAgrees(positions, state, fees)
  BY <1>2, <1>4, <1>5, <1>6, <1>9, <1>10, <1>11 DEF SupplyAgrees
<1>14. state.borrow_shares = Total(loans, Managers)
  <2>1. \A i \in 1..Managers : loans[i] = 0
    BY <1>2
  <2> QED BY <1>1, <1>2, <2>1, TotalZero
<1>15. Backed(vault, state, fees)
  BY <1>2, <1>12, ScaleAssumption DEF Backed
<1> QED BY <1>3, <1>7, <1>8, <1>13, <1>14, <1>15 DEF IInv

(* What is withdrawn is an amount.                                          *)
LEMMA WithdrawnNat ==
    ASSUME MarginPoolAssumption, IInv, Accrues, NEW u \in 1..Suppliers,
           NEW amount \in WithdrawAmounts
                            \cup {supply_shares_to_amount(positions[u].shares)}
    PROVE  amount \in Nat
<1>1. S \in StateRecord /\ positions \in [1..Suppliers -> Position]
  BY Accrual DEF IInv, PositionsOK
<1>2. positions[u].shares \in Nat /\ supply_ratio(S) \in Nat
  BY <1>1, RatioNat DEF Position
<1>3. supply_shares_to_amount(positions[u].shares) \in Nat
  BY <1>2, MulBounds DEF supply_shares_to_amount, S
<1> QED
  BY <1>3 DEF MarginPoolAssumption

(* Every step keeps the invariant.                                          *)
LEMMA NextStep ==
    ASSUME MarginPoolAssumption, IInv, [Next]_vars
    PROVE  IInv'
<1>1. ASSUME NEW u \in 1..Suppliers, NEW amount \in SupplyAmounts,
             NEW r \in DOMAIN fees.referrals, Supply(u, amount, r)
      PROVE  IInv'
  BY <1>1, SupplyStep
<1>2. ASSUME NEW u \in 1..Suppliers,
             NEW amount \in WithdrawAmounts
                              \cup {supply_shares_to_amount(positions[u].shares)},
             Withdraw(u, amount)
      PROVE  IInv'
  <2>0. Accrues
    BY <1>2 DEF Withdraw
  <2>1. amount \in Nat
    BY <2>0, WithdrawnNat
  <2> QED BY <1>2, <2>1, WithdrawStep
<1>3. CASE Collect
  <2>1. CASE MintSupplyReferral
    BY <2>1, MintStep
  <2>2. CASE \E r \in DOMAIN fees.referrals : WithdrawReferralFees(r)
    BY <2>2, ClaimStep
  <2>3. CASE \E whose \in {"maintainer_fees", "protocol_fees"} : WithdrawFees(whose)
    BY <2>3, CollectStep
  <2> QED BY <1>3, <2>1, <2>2, <2>3 DEF Collect
<1>4. CASE Trade
  <2>1. PICK m \in 1..Managers :
          \/ \E amount \in LoanAmounts : Borrow(m, amount) \/ Repay(m, amount)
          \/ \E coin \in Coins : Liquidate(m, coin)
          \/ \E w \in Wealths : Revalue(m, w)
    BY <1>4 DEF Trade
  <2>2. CASE \E amount \in LoanAmounts : Borrow(m, amount) \/ Repay(m, amount)
    BY <2>2, BorrowStep, RepayStep
  <2>3. CASE \E coin \in Coins : Liquidate(m, coin)
    BY <2>3, LiquidateStep
  <2>4. CASE \E w \in Wealths : Revalue(m, w)
    BY <2>4, OtherStep
  <2> QED BY <2>1, <2>2, <2>3, <2>4
<1>5. CASE Maintain
  <2>1. /\ now \in Nat /\ LimiterOK(limiter, now)
        /\ config \in [pool : MarginPoolConfig, interest : InterestConfig]
    BY DEF IInv, TypeInv
  <2>2. ASSUME NEW c \in InterestConfigs, UpdateInterestParams(c)
        PROVE  IInv'
    <3>1. /\ Accrues /\ ops' = ops + 1 /\ config' = [config EXCEPT !.interest = c]
          /\ state' = S /\ fees' = F
          /\ UNCHANGED <<now, vault, positions, limiter, allowed, loans, wealth>>
      BY <2>2 DEF UpdateInterestParams, Call
    <3>2. c \in InterestConfig
      BY DEF MarginPoolAssumption
    <3>3. config' \in [pool : MarginPoolConfig, interest : InterestConfig]
      BY <2>1, <3>1, <3>2
    <3> QED BY <2>1, <3>1, <3>3, ConfigStep
  <2>3. ASSUME NEW c \in PoolConfigs, UpdateMarginPoolConfig(c)
        PROVE  IInv'
    <3>1. /\ Accrues /\ ops' = ops + 1 /\ config' = [config EXCEPT !.pool = c]
          /\ limiter' = update_config(limiter, c.rate_limit, now)
          /\ state' = S /\ fees' = F
          /\ UNCHANGED <<now, vault, positions, allowed, loans, wealth>>
      BY <2>3 DEF UpdateMarginPoolConfig, Call
    <3>2. c \in MarginPoolConfig
      BY DEF MarginPoolAssumption
    <3>3. config' \in [pool : MarginPoolConfig, interest : InterestConfig]
      BY <2>1, <3>1, <3>2
    <3>4. c.rate_limit \in [capacity : Nat, refill_rate_per_ms : Nat, enabled : BOOLEAN]
          /\ 0 \in Nat
      BY <3>2 DEF MarginPoolConfig
    <3>5. LimiterOK(limiter', now)
      BY <2>1, <3>1, <3>4, LimiterFacts
    <3> QED BY <3>1, <3>3, <3>5, ConfigStep
  <2>4. CASE AllowDeepbookPool
    BY <2>4, OtherStep
  <2> QED BY <1>5, <2>2, <2>3, <2>4 DEF Maintain
<1>6. CASE Tick
  BY <1>6, OtherStep
<1>7. CASE UNCHANGED vars
  BY <1>7, OtherStep
<1>8. CASE Lend
  BY <1>1, <1>2, <1>8 DEF Lend
<1> QED BY <1>3, <1>4, <1>5, <1>6, <1>7, <1>8 DEF Next

(* The invariant implies the types.                                         *)
LEMMA IInvTypeOK ==
    ASSUME IInv
    PROVE  TypeOK
<1>1. /\ TypeInv /\ FeesOK(fees) /\ PositionsOK(positions, fees)
  BY DEF IInv
<1> DEFINE n == Len(fees.referrals)
           T == [current_shares : Nat, last_fees_per_share : 0..fees.fees_per_share,
                 unclaimed_fees : Nat]
<1>2. state \in [total_supply : Nat, total_borrow : Nat, supply_shares : Nat,
                 borrow_shares : Nat, last_update_timestamp : 0..now]
  <2>1. state.last_update_timestamp \in 0..now
    BY <1>1 DEF TypeInv, StateRecord
  <2> QED BY <1>1, <2>1 DEF TypeInv, StateRecord
<1>3. /\ fees.total_shares \in Nat /\ fees.fees_per_share \in Nat
      /\ fees.maintainer_fees \in Nat /\ fees.protocol_fees \in Nat
      /\ fees.referrals \in Seq(Tracker) /\ n \in Nat /\ DOMAIN fees.referrals = 1..n
  BY <1>1 DEF FeesOK
<1>4. fees.referrals \in Seq(T)
  <2>1. ASSUME NEW r \in 1..n
        PROVE  fees.referrals[r] \in T
    <3>1. /\ fees.referrals[r] \in Tracker
          /\ fees.referrals[r].last_fees_per_share <= fees.fees_per_share
      BY <1>1, <1>3, TrackerFacts DEF FeesOK
    <3>2. fees.referrals[r].last_fees_per_share \in 0..fees.fees_per_share
      BY <1>3, <3>1 DEF Tracker
    <3> QED BY <3>1, <3>2 DEF Tracker
  <2>2. fees.referrals \in [1..n -> Tracker]
    BY <1>3, LenProperties
  <2> HIDE DEF T
  <2>3. fees.referrals \in [1..n -> T]
    BY <2>1, <2>2
  <2> QED BY <1>3, <2>3, SeqDef
<1>5. positions \in [1..Suppliers -> [shares : Nat, referral : 0..n]]
  <2>1. ASSUME NEW u \in 1..Suppliers
        PROVE  positions[u] \in [shares : Nat, referral : 0..n]
    <3>1. positions[u] \in Position /\ positions[u].referral <= n
      BY <1>1 DEF PositionsOK
    <3>2. positions[u].referral \in 0..n
      BY <1>3, <3>1 DEF Position
    <3> QED BY <3>1, <3>2 DEF Position
  <2> QED BY <1>1, <2>1 DEF PositionsOK
<1>6. limiter.available \in 0..limiter.capacity /\ limiter.last_updated_ms \in 0..now
  BY <1>1 DEF TypeInv, LimiterOK, LimiterRecord
<1> QED BY <1>1, <1>2, <1>3, <1>4, <1>5, <1>6 DEF TypeOK, TypeInv

(* It implies that the shares agree.                                        *)
LEMMA IInvSharesAgree ==
    ASSUME IInv
    PROVE  SharesAgree
<1>1. TypeOK
  BY IInvTypeOK
<1> QED BY <1>1 DEF IInv, SupplyAgrees, SharesAgree, Held, Named

(* It implies solvency: what is owed before rounding covers the claims.     *)
LEMMA IInvSolvent ==
    ASSUME IInv
    PROVE  Solvent
<1> DEFINE rest == fees.maintainer_fees + fees.protocol_fees
           claims == Total([r \in DOMAIN fees.referrals |-> Unclaimed(fees, r)],
                           Len(fees.referrals))
           owed == state.total_supply + (rest + claims)
           has == vault + state.total_borrow
<1>1. /\ FeesOK(fees) /\ Backed(vault, state, fees)
      /\ state.total_supply \in Nat /\ state.total_borrow \in Nat /\ vault \in Nat
  BY DEF IInv, TypeInv, StateRecord
<1>2. /\ ExactFees(fees) \in Nat /\ claims \in Nat
      /\ (rest + claims) * Scale <= ExactFees(fees)
  BY <1>1, ExactCoversClaims
<1>3. rest \in Nat
  BY <1>1 DEF FeesOK
<1>4. ExactFees(fees) + state.total_supply * Scale <= has * Scale /\ FeesOwed = rest + claims
  BY <1>1 DEF Backed, FeesOwed
<1> HIDE DEF rest, claims
<1>5. owed * Scale = state.total_supply * Scale + (rest + claims) * Scale
  BY <1>1, <1>2, <1>3, ScaleAssumption, TimesDistributes
<1>6. /\ state.total_supply * Scale \in Int /\ (rest + claims) * Scale \in Int
      /\ owed \in Int /\ has \in Int
  BY <1>1, <1>2, <1>3, ScaleAssumption, TimesReorder
<1> HIDE DEF has
<1>7. has * Scale \in Int
  BY <1>6, ScaleAssumption, TimesReorder
<1>8. owed * Scale <= has * Scale
  BY <1>2, <1>4, <1>5, <1>6, <1>7
<1> HIDE DEF owed
<1>9. owed <= has
  BY <1>6, <1>8, ScaleAssumption, TimesCancel
<1> QED BY <1>4, <1>6, <1>9 DEF owed, has, Solvent

-----------------------------------------------------------------------------
(* IInv is an invariant of the pool, whatever its parameters: the handlers  *)
(* of margin_pool.move, margin_manager's repayment and liquidation, and the *)
(* maintainer's changes keep it.                                            *)
THEOREM Invariance ==
    ASSUME MarginPoolAssumption
    PROVE  Spec => []IInv
<1>1. Init => IInv
  BY InitStep
<1>2. IInv /\ [Next]_vars => IInv'
  BY NextStep
<1> QED BY <1>1, <1>2, PTL DEF Spec

(* No field of a margin pool ever leaves its type: no subtraction of        *)
(* margin_state, position_manager, protocol_fees or rate_limiter goes below *)
(* zero.                                                                    *)
THEOREM TypeCorrect ==
    ASSUME MarginPoolAssumption
    PROVE  Spec => []TypeOK
<1>1. Spec => []IInv
  BY Invariance
<1>2. IInv => TypeOK
  BY IInvTypeOK
<1> QED BY <1>1, <1>2, PTL

(* Positions, state, referral trackers and managers agree on the shares     *)
(* after every handler (increase_user_supply, change of referral,           *)
(* decrease_shares, repay_shares).                                          *)
THEOREM SharesAlwaysAgree ==
    ASSUME MarginPoolAssumption
    PROVE  Spec => []SharesAgree
<1>1. Spec => []IInv
  BY Invariance
<1>2. IInv => SharesAgree
  BY IInvSharesAgree
<1> QED BY <1>1, <1>2, PTL

(* The coins and the loans always cover the supply and every fee not yet    *)
(* claimed, for every scale, rate, spread and reward the configuration      *)
(* functions let pass (margin_state, protocol_fees, repay_liquidation).     *)
THEOREM AlwaysSolvent ==
    ASSUME MarginPoolAssumption
    PROVE  Spec => []Solvent
<1>1. Spec => []IInv
  BY Invariance
<1>2. IInv => Solvent
  BY IInvSolvent
<1> QED BY <1>1, <1>2, PTL

-----------------------------------------------------------------------------
(* What shares are worth. *)

(* An update at the time of the last one adds nothing.                      *)
LEMMA UpdateAtOnce ==
    ASSUME Year \in Nat \ {0}, NEW s \in StateRecord, NEW at \in Nat,
           s.last_update_timestamp = at,
           NEW c \in [pool : MarginPoolConfig, interest : InterestConfig]
    PROVE  /\ supply_ratio(update(s, c, at)) = supply_ratio(s)
           /\ borrow_ratio(update(s, c, at)) = borrow_ratio(s)
           /\ update(s, c, at) \in StateRecord
<1> DEFINE z == update(s, c, at)
           gain == Interest(s, c, at)
           due == FeesDue(s, c, at)
           i == c.interest
           rate == interest_rate(i, utilization_rate(s))
           yearly == mul(s.total_borrow, rate)
<1>1. /\ gain \in Nat /\ due = mul(gain, c.pool.protocol_spread)
      /\ z.total_supply = s.total_supply + gain - due
      /\ z.total_borrow = s.total_borrow + gain
      /\ z.supply_shares = s.supply_shares /\ z.borrow_shares = s.borrow_shares
  <2>1. s.last_update_timestamp <= at
    OBVIOUS
  <2> QED BY <2>1, UpdateFacts DEF FeesDue
<1>2. s.total_supply \in Nat /\ s.total_borrow \in Nat
  BY DEF StateRecord
<1>3. gain = 0
  <2>1. at - s.last_update_timestamp = 0
    OBVIOUS
  <2>2. div(0, Year) = 0
    BY ScaleAssumption DEF div
  <2>3. gain = mul(yearly, 0)
    BY <2>1, <2>2 DEF Interest
  <2> HIDE DEF yearly
  <2>4. yearly \in Nat
    <3>1. rate \in Nat
      BY InterestRateNat
    <3> HIDE DEF rate
    <3> QED BY <1>2, <3>1, MulBounds DEF yearly
  <2> QED BY <2>3, <2>4, MulZero
<1>6. due = 0
  <2>1. c.pool.protocol_spread \in Nat
    BY DEF MarginPoolConfig
  <2>2. mul(0, c.pool.protocol_spread) = 0
    BY <2>1, MulZero
  <2> HIDE DEF gain, due
  <2> QED BY <1>1, <1>3, <2>2
<1>7. z \in StateRecord
  <2>1. s.last_update_timestamp <= at
    OBVIOUS
  <2>2. due <= s.total_supply + gain
    BY <1>2, <1>3, <1>6
  <2> QED BY <2>1, <2>2, UpdateFacts
<1> HIDE DEF gain, due
<1>4. z.total_supply = s.total_supply /\ z.total_borrow = s.total_borrow
  BY <1>1, <1>2, <1>3, <1>6
<1> HIDE DEF z
<1>5. supply_ratio(z) = supply_ratio(s) /\ borrow_ratio(z) = borrow_ratio(s)
  BY <1>1, <1>4 DEF supply_ratio, borrow_ratio
<1> QED BY <1>5, <1>7 DEF z

(* The supply never shrinks while time passes, if fees are a part of the    *)
(* interest.                                                                *)
LEMMA UpdateMonotone ==
    ASSUME Year \in Nat \ {0}, NEW s \in StateRecord, NEW at \in Nat, NEW later \in Nat,
           s.last_update_timestamp <= at, at <= later,
           NEW c \in [pool : MarginPoolConfig, interest : InterestConfig],
           c.pool.protocol_spread <= Scale
    PROVE  /\ supply_ratio(update(s, c, at)) \in Nat
           /\ supply_ratio(update(s, c, later)) \in Nat
           /\ supply_ratio(update(s, c, at)) <= supply_ratio(update(s, c, later))
<1> DEFINE x == update(s, c, at)
           y == update(s, c, later)
           rate == interest_rate(c.interest, utilization_rate(s))
           yearly == mul(s.total_borrow, rate)
           spread == c.pool.protocol_spread
           gain == Interest(s, c, at)
           more == Interest(s, c, later)
<1>1. /\ s.total_supply \in Nat /\ s.total_borrow \in Nat /\ s.supply_shares \in Nat
      /\ s.last_update_timestamp \in Nat /\ rate \in Nat
      /\ spread \in Nat /\ spread <= Scale /\ Scale \in Nat \ {0}
  BY InterestRateNat, ScaleAssumption DEF StateRecord, MarginPoolConfig
<1>2. /\ gain \in Nat /\ x.total_supply = s.total_supply + gain - mul(gain, spread)
      /\ x.supply_shares = s.supply_shares /\ x \in StateRecord
  <2>1. FeesDue(s, c, at) <= s.total_supply + Interest(s, c, at)
    <3>1. /\ FeesDue(s, c, at) \in Nat /\ Interest(s, c, at) \in Nat
          /\ FeesDue(s, c, at) <= Interest(s, c, at)
      BY UpdateFacts
    <3> QED BY <1>1, <3>1
  <2> QED BY <2>1, UpdateFacts DEF FeesDue
<1>3. /\ more \in Nat /\ y.total_supply = s.total_supply + more - mul(more, spread)
      /\ y.supply_shares = s.supply_shares /\ y \in StateRecord
  <2>1. s.last_update_timestamp <= later
    BY <1>1
  <2>2. FeesDue(s, c, later) <= s.total_supply + Interest(s, c, later)
    <3>1. /\ FeesDue(s, c, later) \in Nat /\ Interest(s, c, later) \in Nat
          /\ FeesDue(s, c, later) <= Interest(s, c, later)
      BY <2>1, UpdateFacts
    <3> QED BY <1>1, <3>1
  <2> QED BY <2>1, <2>2, UpdateFacts DEF FeesDue
<1>4. gain <= more
  <2> DEFINE d == at - s.last_update_timestamp
             e == later - s.last_update_timestamp
  <2>1. d \in Nat /\ e \in Nat /\ d <= e
    BY <1>1
  <2>2. gain = mul(yearly, div(d, Year)) /\ more = mul(yearly, div(e, Year))
    BY DEF Interest
  <2> HIDE DEF rate, d, e
  <2>3. yearly \in Nat
    BY <1>1, MulBounds
  <2> HIDE DEF yearly
  <2>4. div(d, Year) \in Nat
    BY <2>1, DivBounds
  <2>5. div(e, Year) \in Nat
    BY <2>1, DivBounds
  <2>6. div(d, Year) <= div(e, Year) /\ yearly <= yearly
    BY <2>1, <2>3, DivMonotone
  <2>7. mul(yearly, div(d, Year)) <= mul(yearly, div(e, Year))
    BY <2>3, <2>4, <2>5, <2>6, MulMonotone
  <2> QED BY <2>2, <2>7
<1> HIDE DEF x, y, gain, more, spread
<1>5. gain - mul(gain, spread) <= more - mul(more, spread)
  BY <1>1, <1>2, <1>3, <1>4, MulLipschitz
<1>6. mul(gain, spread) \in Nat /\ mul(more, spread) \in Nat
  BY <1>1, <1>2, <1>3, MulBounds
<1>7. x.total_supply <= y.total_supply /\ x.total_supply \in Nat /\ y.total_supply \in Nat
  <2>1. x.total_supply <= y.total_supply
    BY <1>1, <1>2, <1>3, <1>5, <1>6
  <2> QED BY <1>2, <1>3, <2>1 DEF StateRecord
<1>8. supply_ratio(x) <= supply_ratio(y)
  BY <1>2, <1>3, <1>7, RatioMonotone
<1>9. supply_ratio(x) \in Nat /\ supply_ratio(y) \in Nat
  BY <1>2, <1>3, RatioNat
<1> QED BY <1>8, <1>9 DEF x, y

(* After a handler that updated the state, ratios are those of the state.   *)
LEMMA RatioAfter ==
    ASSUME MarginPoolAssumption, IInv', state'.last_update_timestamp = now'
    PROVE  /\ supply_ratio(S)' = supply_ratio(state')
           /\ borrow_ratio(S)' = borrow_ratio(state')
           /\ supply_ratio(S)' \in Nat
<1>1. /\ Year \in Nat \ {0} /\ state' \in StateRecord /\ now' \in Nat
      /\ config' \in [pool : MarginPoolConfig, interest : InterestConfig]
  BY DEF MarginPoolAssumption, IInv, TypeInv
<1>2. /\ supply_ratio(update(state', config', now')) = supply_ratio(state')
      /\ borrow_ratio(update(state', config', now')) = borrow_ratio(state')
  BY <1>1, UpdateAtOnce
<1>3. supply_ratio(state') \in Nat
  BY <1>1, RatioNat
<1> QED BY <1>2, <1>3 DEF S

(* The ratio counts as kept if both ratios are what a handler can compute.  *)
RatioKept ==
    /\ supply_ratio(S) \in Nat /\ supply_ratio(S)' \in Nat
    /\ supply_ratio(S) <= supply_ratio(S)'

(* Shares that stay are worth no less at a ratio that did not fall.         *)
LEMMA WorthKept ==
    ASSUME MarginPoolAssumption, IInv, NEW u \in 1..Suppliers,
           positions'[u] = positions[u], RatioKept
    PROVE  ~ (Worth(u)' < Worth(u))
<1> DEFINE held == positions[u].shares
           a == supply_ratio(S)
           b == supply_ratio(S)'
<1>1. a \in Nat /\ b \in Nat /\ a <= b
  BY DEF RatioKept
<1>2. held \in Nat
  BY DEF IInv, PositionsOK, Position
<1>3. Worth(u) = mul(held, a) /\ Worth(u)' = mul(held, b)
  BY DEF Worth, supply_shares_to_amount, S
<1> HIDE DEF a, b, held
<1>4. held <= held
  BY <1>2
<1>5. mul(held, a) <= mul(held, b)
  BY <1>1, <1>2, <1>4, MulMonotone
<1>6. mul(held, a) \in Nat /\ mul(held, b) \in Nat
  BY <1>1, <1>2, MulBounds
<1> QED BY <1>3, <1>5, <1>6

(* As long as state, parameters and time stay, so does what shares are      *)
(* worth, even where update would abort.                                    *)
LEMMA WorthStays ==
    ASSUME MarginPoolAssumption, IInv, NEW u \in 1..Suppliers,
           positions'[u] = positions[u], UNCHANGED <<state, config, now>>
    PROVE  ~ (Worth(u)' < Worth(u))
<1> DEFINE held == positions[u].shares
           z == update(state, config, now)
           ratio == supply_ratio(z)
<1>1. /\ Year \in Nat \ {0} /\ state \in StateRecord /\ now \in Nat
      /\ state.last_update_timestamp <= now
      /\ config \in [pool : MarginPoolConfig, interest : InterestConfig]
      /\ Scale \in Nat \ {0} /\ held \in Nat
  BY ScaleAssumption DEF MarginPoolAssumption, IInv, TypeInv, PositionsOK, Position
<1>2. z.total_supply \in Int /\ z.supply_shares \in Nat
  <2>1. /\ Interest(state, config, now) \in Nat /\ FeesDue(state, config, now) \in Nat
        /\ z.total_supply
             = state.total_supply + Interest(state, config, now) - FeesDue(state, config, now)
        /\ z.supply_shares = state.supply_shares
    BY <1>1, UpdateFacts
  <2>2. state.total_supply \in Nat /\ state.supply_shares \in Nat
    BY <1>1 DEF StateRecord
  <2> HIDE DEF z
  <2> QED BY <2>1, <2>2
<1> HIDE DEF z
<1>3. ratio \in Int
  BY <1>1, <1>2 DEF supply_ratio, div
<1> HIDE DEF ratio, held
<1>4. mul(held, ratio) \in Int
  BY <1>1, <1>3 DEF mul
<1>5. Worth(u) = mul(held, ratio)
  BY DEF Worth, supply_shares_to_amount, held, ratio, z
<1>6. Worth(u)' = Worth(u)
  BY DEF Worth, supply_shares_to_amount, supply_ratio, update, Interest, FeesDue,
         interest_rate, utilization_rate
<1> QED BY <1>4, <1>5, <1>6

(* The ratio after a supply or a withdrawal: as much is added for each      *)
(* share, or at most as much taken, as it was worth.                        *)
LEMMA RatioNotLess ==
    ASSUME NEW s \in StateRecord, NEW z \in StateRecord, z.supply_shares # 0,
           supply_ratio(s) * z.supply_shares <= z.total_supply * Scale
    PROVE  supply_ratio(s) <= supply_ratio(z)
<1>1. supply_ratio(s) \in Int /\ z.supply_shares \in Nat \ {0} /\ z.total_supply \in Nat
  BY RatioNat DEF StateRecord
<1>2. supply_ratio(z) = div(z.total_supply, z.supply_shares)
  BY RatioNat
<1> QED BY <1>1, <1>2, DivAtLeast

(* No supply lowers the ratio.                                              *)
LEMMA SupplyRatio ==
    ASSUME MarginPoolAssumption, IInv, IInv', NEW u \in 1..Suppliers,
           NEW amount \in SupplyAmounts, NEW r \in DOMAIN fees.referrals, Supply(u, amount, r)
    PROVE  RatioKept
<1> DEFINE ratio == supply_ratio(S)
           shares == div(amount, ratio)
           total == S.total_supply
           all == S.supply_shares
<1>1. /\ ratio > 0 /\ now' = now
      /\ state' = [S EXCEPT !.supply_shares = @ + shares, !.total_supply = @ + amount]
  BY DEF Supply
<1>2. S \in StateRecord /\ S.last_update_timestamp = now /\ amount \in Nat
  <2>1. Accrues
    BY DEF Supply
  <2> QED BY <2>1, Accrual DEF MarginPoolAssumption
<1>3. ratio \in Nat \ {0} /\ total \in Nat /\ all \in Nat /\ Scale \in Nat
  BY <1>1, <1>2, RatioNat, ScaleAssumption DEF StateRecord
<1>4. shares \in Nat /\ shares * ratio <= amount * Scale
  <2> HIDE DEF ratio
  <2> QED BY <1>2, <1>3, DivBounds
<1>5. state' \in StateRecord
  BY DEF IInv, TypeInv
<1> HIDE DEF shares
<1>6. /\ state'.supply_shares = all + shares /\ state'.total_supply = total + amount
      /\ state'.last_update_timestamp = now'
  BY <1>1, <1>2 DEF StateRecord
<1>7. supply_ratio(S)' = supply_ratio(state') /\ supply_ratio(S)' \in Nat
  BY <1>6, RatioAfter
<1>8. CASE all + shares = 0
  <2>1. all = 0
    BY <1>3, <1>4, <1>8
  <2>2. ratio = Scale /\ supply_ratio(state') = Scale
    BY <1>6, <1>8, <2>1 DEF supply_ratio
  <2> QED BY <1>3, <1>7, <2>2 DEF RatioKept
<1>9. CASE all + shares # 0
  <2>1. ratio * all <= total * Scale
    <3>1. CASE all = 0
      <4> HIDE DEF ratio, total
      <4>1. ratio * all = 0 /\ total * Scale \in Nat
        BY <1>3, <3>1, TimesNat
      <4> QED BY <4>1
    <3>2. CASE all # 0
      <4>1. ratio = div(total, all)
        BY <1>2, <3>2, RatioNat
      <4>2. all \in Nat \ {0}
        BY <1>3, <3>2
      <4> HIDE DEF ratio, total, all
      <4> QED BY <1>3, <4>1, <4>2, DivBounds
    <3> QED BY <3>1, <3>2
  <2> DEFINE ra == ratio
  <2>2. ra \in Nat /\ ra * all <= total * Scale /\ shares * ra <= amount * Scale
    BY <1>3, <1>4, <2>1
  <2> HIDE DEF ra, total, all
  <2>3. /\ ra * (all + shares) = ra * all + ra * shares /\ ra * shares = shares * ra
        /\ (total + amount) * Scale = total * Scale + amount * Scale
    BY <1>2, <1>3, <1>4, <2>2, TimesDistributes, TimesReorder
  <2>4. /\ ra * all \in Int /\ shares * ra \in Int /\ total * Scale \in Int
        /\ amount * Scale \in Int
    BY <1>2, <1>3, <1>4, <2>2, TimesReorder
  <2>5. ra * (all + shares) <= (total + amount) * Scale
    BY <2>2, <2>3, <2>4
  <2>6. supply_ratio(S) <= supply_ratio(state')
    BY <1>2, <1>5, <1>6, <1>9, <2>5, RatioNotLess DEF ra
  <2>7. ratio \in Nat
    BY <1>3
  <2> QED BY <1>7, <2>6, <2>7 DEF RatioKept
<1> QED BY <1>8, <1>9

(* No withdrawal lowers it, unless no share is left.                        *)
LEMMA WithdrawRatio ==
    ASSUME MarginPoolAssumption, IInv, IInv', NEW u \in 1..Suppliers, NEW amount \in Nat,
           Withdraw(u, amount)
    PROVE  state'.supply_shares = 0 \/ RatioKept
<1> DEFINE ratio == supply_ratio(S)
           held == positions[u].shares
           shares == SharesToWithdraw(held, amount)
           off == mul(shares, ratio)
           total == S.total_supply
           all == S.supply_shares
<1>1. /\ mul(held, ratio) > 0 /\ shares <= held /\ now' = now
      /\ state' = [S EXCEPT !.supply_shares = @ - shares, !.total_supply = @ - off]
  BY DEF Withdraw, S, supply_shares_to_amount
<1>2. /\ S \in StateRecord /\ S.last_update_timestamp = now
      /\ SupplyAgrees(positions, S, F) /\ PositionsOK(positions, F)
  <2>1. Accrues
    BY DEF Withdraw
  <2> QED BY <2>1, Accrual
<1>3. ratio \in Nat /\ total \in Nat /\ all \in Nat /\ Scale \in Nat
  BY <1>2, RatioNat, ScaleAssumption DEF StateRecord
<1>4. held \in Nat /\ Suppliers \in Nat /\ positions \in [1..Suppliers -> Position]
  BY DEF IInv, PositionsOK, Position, MarginPoolAssumption
<1>5. shares \in Nat
  <2>1. shares = mul_round_up(held, div_round_up(amount, mul(held, ratio)))
    BY DEF SharesToWithdraw, supply_shares_to_amount, S
  <2> HIDE DEF shares, ratio, held
  <2> QED BY <1>1, <1>3, <1>4, <2>1, WithdrawalCovered
<1>6. state' \in StateRecord
  BY DEF IInv, TypeInv
<1> HIDE DEF shares
<1>7. off \in Nat /\ off * Scale <= shares * ratio
  BY <1>3, <1>5, MulBounds
<1> HIDE DEF off
<1>8. /\ state'.supply_shares = all - shares /\ state'.total_supply = total - off
      /\ state'.last_update_timestamp = now'
  BY <1>1, <1>2 DEF StateRecord
<1>9. supply_ratio(S)' = supply_ratio(state') /\ supply_ratio(S)' \in Nat
  BY <1>8, RatioAfter
<1>10. SUFFICES ASSUME all - shares # 0 PROVE ratio <= supply_ratio(state')
  BY <1>3, <1>8, <1>9 DEF RatioKept
<1>11. all # 0
  <2>1. all - shares \in Nat
    BY <1>6, <1>8 DEF StateRecord
  <2> HIDE DEF all
  <2> QED BY <1>3, <1>5, <1>10, <2>1
<1>12. ratio * all <= total * Scale
  <2>1. ratio = div(total, all)
    BY <1>2, <1>11, RatioNat
  <2>2. all \in Nat \ {0}
    BY <1>3, <1>11
  <2> HIDE DEF ratio, total, all
  <2> QED BY <1>3, <2>1, <2>2, DivBounds
<1> DEFINE ra == ratio
<1>13. ra \in Nat /\ ra * all <= total * Scale /\ off * Scale <= shares * ra
  BY <1>3, <1>7, <1>12
<1> HIDE DEF ra, total, all
<1>14. /\ ra * (all - shares) = ra * all - ra * shares /\ ra * shares = shares * ra
       /\ (total - off) * Scale = total * Scale - off * Scale
  BY <1>3, <1>5, <1>7, <1>13, TimesDistributes, TimesReorder
<1>15. /\ ra * all \in Int /\ shares * ra \in Int /\ total * Scale \in Int
       /\ off * Scale \in Int
  BY <1>3, <1>5, <1>7, <1>13, TimesReorder
<1>16. ra * (all - shares) <= (total - off) * Scale
  BY <1>13, <1>14, <1>15
<1> QED BY <1>2, <1>6, <1>8, <1>10, <1>16, RatioNotLess DEF ra

(* A loan that is taken or paid back leaves the ratio of the supply alone,  *)
(* and a liquidation lowers it only by a loan that is written off.          *)
LEMMA TradeRatio ==
    ASSUME MarginPoolAssumption, IInv, IInv', Trade
    PROVE  \/ RatioKept
           \/ UNCHANGED <<state, config, now>>
           \/ \E m \in 1..Managers : WritesOff(m)
<1>1. ASSUME Accrues
      PROVE  /\ S \in StateRecord /\ S.last_update_timestamp = now /\ state' \in StateRecord
             /\ supply_ratio(S) \in Nat
  BY <1>1, Accrual, RatioNat DEF IInv, TypeInv
<1>3. PICK m \in 1..Managers :
        \/ \E amount \in LoanAmounts : Borrow(m, amount) \/ Repay(m, amount)
        \/ \E coin \in Coins : Liquidate(m, coin)
        \/ \E w \in Wealths : Revalue(m, w)
  BY DEF Trade
<1>4. CASE \E amount \in LoanAmounts : Borrow(m, amount) \/ Repay(m, amount)
  <2>1. /\ state'.last_update_timestamp = now' /\ state'.supply_shares = S.supply_shares
        /\ state'.total_supply = S.total_supply
    <3>1. PICK amount \in LoanAmounts : Borrow(m, amount) \/ Repay(m, amount)
      BY <1>4
    <3>2. CASE Borrow(m, amount)
      <4>1. Accrues
        BY <3>2 DEF Borrow
      <4> QED BY <1>1, <3>2, <4>1 DEF Borrow, StateRecord
    <3>3. CASE Repay(m, amount)
      <4>1. Accrues
        BY <3>3 DEF Repay
      <4> QED BY <1>1, <3>3, <4>1 DEF Repay, StateRecord
    <3> QED BY <3>1, <3>2, <3>3
  <2>2. supply_ratio(S)' = supply_ratio(state') /\ supply_ratio(S)' \in Nat
    BY <2>1, RatioAfter
  <2>3. supply_ratio(state') = supply_ratio(S)
    BY <2>1 DEF supply_ratio
  <2> QED BY <2>2, <2>3 DEF RatioKept
<1>5. CASE \E coin \in Coins : Liquidate(m, coin)
  <2> DEFINE ratio == borrow_ratio(S)
  <2>1. PICK coin \in Coins : Liquidate(m, coin)
    BY <1>5
  <2>0. /\ S \in StateRecord /\ S.last_update_timestamp = now /\ state' \in StateRecord
        /\ supply_ratio(S) \in Nat
    BY <1>1, <2>1 DEF Liquidate
  <2>2. PICK paid \in Nat, shares \in Nat, out \in Nat :
          LET amount == mul(shares, ratio)
          IN  /\ shares <= loans[m] /\ amount \in Nat
              /\ \/ amount <= paid
                 \/ shares = loans[m] /\ loans[m] > 0 /\ wealth[m] < Debt(m)
              /\ state' = [S EXCEPT !.borrow_shares = @ - shares,
                                    !.total_borrow = @ - amount,
                                    !.total_supply = @ + paid - amount]
              /\ loans' = [loans EXCEPT ![m] = @ - shares]
              /\ UNCHANGED <<now, config, positions, limiter, allowed>>
    BY <2>1, LiquidateFacts, Zenon
  <2> DEFINE amount == mul(shares, ratio)
  <2>3. state' = [S EXCEPT !.borrow_shares = @ - shares, !.total_borrow = @ - amount,
                           !.total_supply = @ + paid - amount]
        /\ amount \in Nat /\ now' = now
    BY <2>2
  <2> HIDE DEF amount
  <2>4. /\ state'.last_update_timestamp = now' /\ state'.supply_shares = S.supply_shares
        /\ state'.total_supply = S.total_supply + paid - amount
    BY <2>0, <2>3 DEF StateRecord
  <2>5. CASE amount <= paid
    <3>1. S.total_supply \in Nat
      BY <2>0 DEF StateRecord
    <3>2. S.total_supply <= state'.total_supply
      BY <2>3, <2>4, <2>5, <3>1
    <3>3. supply_ratio(S) <= supply_ratio(state')
      BY <2>0, <2>4, <3>2, RatioMonotone
    <3>4. supply_ratio(S)' = supply_ratio(state') /\ supply_ratio(S)' \in Nat
      BY <2>4, RatioAfter
    <3> QED BY <2>0, <3>3, <3>4 DEF RatioKept
  <2>6. CASE ~ (amount <= paid)
    <3>1. shares = loans[m] /\ loans[m] > 0 /\ wealth[m] < Debt(m)
      BY <2>2, <2>6 DEF amount
    <3>2. loans'[m] = 0
      <4>1. loans \in [1..Managers -> Nat] /\ loans[m] \in Nat
        BY DEF IInv, TypeInv
      <4>2. loans'[m] = loans[m] - shares
        BY <2>2, <4>1
      <4> QED BY <3>1, <4>1, <4>2
    <3> QED BY <3>1, <3>2 DEF WritesOff
  <2> QED BY <2>5, <2>6
<1>6. CASE \E w \in Wealths : Revalue(m, w)
  BY <1>6 DEF Revalue
<1> QED BY <1>3, <1>4, <1>5, <1>6

(* Every step leaves a supplier's worth, writes off a loan, or charges more *)
(* than the interest.                                                       *)
LEMMA WorthStep ==
    ASSUME MarginPoolAssumption, IInv, IInv', Next
    PROVE  Losers # {} => SpreadEatsSupply \/ \E m \in 1..Managers : WritesOff(m)
<1> SUFFICES ASSUME NEW u \in 1..Suppliers, positions'[u] = positions[u]
             PROVE  \/ ~ (Worth(u)' < Worth(u))
                    \/ SpreadEatsSupply \/ \E m \in 1..Managers : WritesOff(m)
  BY DEF Losers
<1>1. ASSUME Accrues
      PROVE  /\ S \in StateRecord /\ S.last_update_timestamp = now
             /\ supply_ratio(S) \in Nat
  BY <1>1, Accrual, RatioNat
<1>3. CASE RatioKept
  BY <1>3, WorthKept
<1>4. CASE UNCHANGED <<state, config, now>>
  BY <1>4, WorthStays
<1>5. CASE Accrues /\ state' = S /\ now' = now
  <2>1. state'.last_update_timestamp = now'
    BY <1>1, <1>5
  <2>2. supply_ratio(S)' = supply_ratio(state') /\ supply_ratio(S)' \in Nat
    BY <2>1, RatioAfter
  <2>3. supply_ratio(state') = supply_ratio(S)
    BY <1>5 DEF supply_ratio
  <2>4. RatioKept
    BY <2>2, <2>3 DEF RatioKept
  <2> QED BY <1>3, <2>4
<1>6. CASE Lend
  <2>1. PICK v \in 1..Suppliers :
          \/ \E amount \in SupplyAmounts, r \in DOMAIN fees.referrals : Supply(v, amount, r)
          \/ \E amount \in WithdrawAmounts
                             \cup {supply_shares_to_amount(positions[v].shares)} :
                Withdraw(v, amount)
    BY <1>6 DEF Lend
  <2>2. CASE \E amount \in SupplyAmounts, r \in DOMAIN fees.referrals : Supply(v, amount, r)
    BY <1>3, <2>2, SupplyRatio
  <2>3. ASSUME NEW amount \in WithdrawAmounts
                                \cup {supply_shares_to_amount(positions[v].shares)},
               Withdraw(v, amount)
        PROVE  ~ (Worth(u)' < Worth(u))
    <3>0. Accrues
      BY <2>3 DEF Withdraw
    <3>1. amount \in Nat
      BY <3>0, WithdrawnNat
    <3>2. CASE state'.supply_shares = 0
      <4>1. /\ positions' \in [1..Suppliers -> Position] /\ Suppliers \in Nat
            /\ state'.supply_shares = Total(Held(positions'), Suppliers)
        BY DEF IInv, PositionsOK, SupplyAgrees, MarginPoolAssumption
      <4>2. positions'[u] \in Position /\ positions'[u].shares \in Nat
        BY <4>1 DEF Position
      <4>3. positions'[u].shares <= Total(Held(positions'), Suppliers)
        BY <4>1, <4>2, MovePosition
      <4>4. positions[u].shares = 0 /\ positions'[u].shares = 0
        BY <3>2, <4>1, <4>2, <4>3
      <4>5. /\ Worth(u) = mul(0, supply_ratio(S))
            /\ Worth(u)' = mul(0, supply_ratio(S)')
        BY <4>4 DEF Worth, supply_shares_to_amount, S
      <4>6. mul(0, supply_ratio(S)) = 0
        BY <1>1, <3>0, MulZero
      <4>7. supply_ratio(S)' = Scale
        <5>1. state'.last_update_timestamp = now'
          BY <1>1, <2>3, <3>0 DEF Withdraw, StateRecord
        <5>2. supply_ratio(S)' = supply_ratio(state')
          BY <5>1, RatioAfter
        <5> QED BY <3>2, <5>2 DEF supply_ratio
      <4>8. mul(0, Scale) = 0 /\ Scale \in Nat
        BY ScaleAssumption, MulZero
      <4> QED BY <4>5, <4>6, <4>7, <4>8
    <3>3. CASE state'.supply_shares # 0
      <4>1. RatioKept
        BY <2>3, <3>1, <3>3, WithdrawRatio
      <4> QED BY <4>1, WorthKept
    <3> QED BY <3>2, <3>3
  <2> QED BY <2>1, <2>2, <2>3
<1>7. CASE Collect
  <2>1. UNCHANGED <<state, config, now>>
    BY <1>7 DEF Collect, MintSupplyReferral, WithdrawReferralFees, WithdrawFees
  <2> QED BY <1>4, <2>1
<1>8. CASE Trade
  BY <1>3, <1>4, <1>8, TradeRatio
<1>9. CASE Maintain
  <2>1. CASE AllowDeepbookPool
    BY <1>4, <2>1 DEF AllowDeepbookPool
  <2>2. CASE ~ AllowDeepbookPool
    <3>1. Accrues /\ state' = S /\ now' = now
      BY <1>9, <2>2 DEF Maintain, UpdateInterestParams, UpdateMarginPoolConfig
    <3> QED BY <1>5, <3>1
  <2> QED BY <2>1, <2>2
<1>10. CASE Tick
  <2>1. now' = now + 1 /\ state' = state /\ config' = config
    BY <1>10 DEF Tick
  <2>2. /\ Year \in Nat \ {0} /\ state \in StateRecord /\ now \in Nat /\ now' \in Nat
        /\ state.last_update_timestamp <= now
        /\ config \in [pool : MarginPoolConfig, interest : InterestConfig]
    BY DEF MarginPoolAssumption, IInv, TypeInv
  <2>3. now <= now'
    BY <2>1, <2>2
  <2>4. CASE config.pool.protocol_spread > Scale
    BY <2>1, <2>2, <2>4 DEF SpreadEatsSupply
  <2>5. CASE ~ (config.pool.protocol_spread > Scale)
    <3>1. config.pool.protocol_spread <= Scale
      BY <2>2, <2>5, ScaleAssumption DEF MarginPoolConfig
    <3>2. /\ supply_ratio(update(state, config, now)) \in Nat
          /\ supply_ratio(update(state, config, now')) \in Nat
          /\ supply_ratio(update(state, config, now))
               <= supply_ratio(update(state, config, now'))
      BY <2>2, <2>3, <3>1, UpdateMonotone
    <3>3. supply_ratio(S)' = supply_ratio(update(state, config, now'))
      BY <2>1 DEF S
    <3>4. RatioKept
      BY <3>2, <3>3 DEF S, RatioKept
    <3> QED BY <1>3, <3>4
  <2> QED BY <2>4, <2>5
<1> QED BY <1>6, <1>7, <1>8, <1>9, <1>10 DEF Next

(* A change of parameters leaves what is owed and owned at that moment.     *)
LEMMA BooksStep ==
    ASSUME MarginPoolAssumption, IInv, IInv', Next
    PROVE  KeepsTheBooks
<1> SUFFICES ASSUME config' # config
             PROVE  /\ \A m \in 1..Managers : Debt(m)' = Debt(m)
                    /\ \A u \in 1..Suppliers : Worth(u)' = Worth(u)
  BY DEF KeepsTheBooks
<1>1. Maintain
  <2>1. ~ Lend
    BY DEF Lend, Supply, Withdraw
  <2>2. ~ Collect
    BY DEF Collect, MintSupplyReferral, WithdrawReferralFees, WithdrawFees
  <2>3. ~ Trade
    <3>1. ASSUME NEW m, NEW x
          PROVE  ~ Borrow(m, x) /\ ~ Repay(m, x) /\ ~ Revalue(m, x)
      BY DEF Borrow, Repay, Revalue
    <3>2. ASSUME NEW m, NEW x
          PROVE  ~ Liquidate(m, x)
      BY DEF Liquidate
    <3> QED BY <3>1, <3>2 DEF Trade
  <2>4. ~ Tick
    BY DEF Tick
  <2> QED BY <2>1, <2>2, <2>3, <2>4 DEF Next
<1>2. Accrues /\ state' = S /\ now' = now /\ positions' = positions /\ loans' = loans
  BY <1>1 DEF Maintain, UpdateInterestParams, UpdateMarginPoolConfig, AllowDeepbookPool
<1>3. S \in StateRecord /\ S.last_update_timestamp = now
  BY <1>2, Accrual
<1>4. /\ supply_ratio(S)' = supply_ratio(state')
      /\ borrow_ratio(S)' = borrow_ratio(state')
  <2>1. state'.last_update_timestamp = now'
    BY <1>2, <1>3
  <2> QED BY <2>1, RatioAfter
<1>5. supply_ratio(state') = supply_ratio(S) /\ borrow_ratio(state') = borrow_ratio(S)
  BY <1>2 DEF supply_ratio, borrow_ratio
<1>6. ASSUME NEW m \in 1..Managers
      PROVE  Debt(m)' = Debt(m)
  <2>1. Debt(m)' = mul_round_up(loans'[m], borrow_ratio(S)')
    BY DEF Debt, borrow_shares_to_amount
  <2>2. Debt(m) = mul_round_up(loans[m], borrow_ratio(S))
    BY DEF Debt, borrow_shares_to_amount
  <2> QED BY <1>2, <1>4, <1>5, <2>1, <2>2
<1>7. ASSUME NEW u \in 1..Suppliers
      PROVE  Worth(u)' = Worth(u)
  <2>1. Worth(u)' = mul(positions'[u].shares, supply_ratio(S)')
    BY DEF Worth, supply_shares_to_amount, S
  <2>2. Worth(u) = mul(positions[u].shares, supply_ratio(S))
    BY DEF Worth, supply_shares_to_amount, S
  <2> QED BY <1>2, <1>4, <1>5, <2>1, <2>2
<1> QED BY <1>6, <1>7

(* What a supplier's shares are worth never falls by the rounding of        *)
(* increase_supply, decrease_supply_shares, update or repay_liquidation, in *)
(* whatever order handlers run: it falls only when a loan that its          *)
(* manager's assets do not cover is liquidated as a whole, or while time    *)
(* passes under a protocol spread of more than one, which the configuration *)
(* functions let pass.                                                      *)
THEOREM SuppliersAreSafe ==
    ASSUME MarginPoolAssumption
    PROVE  Spec => SuppliersLoseOnlyToDefaults
<1> DEFINE Kept == Losers # {} => SpreadEatsSupply \/ \E m \in 1..Managers : WritesOff(m)
<1>1. IInv /\ IInv' /\ [Next]_vars => [Kept]_vars
  BY WorthStep
<1>2. Spec => []IInv
  BY Invariance
<1> QED BY <1>1, <1>2, PTL DEF Spec, SuppliersLoseOnlyToDefaults

(* update_interest_params and update_margin_pool_config change no debt and  *)
(* no supplier's worth at that moment.                                      *)
THEOREM ParametersNeverActBack ==
    ASSUME MarginPoolAssumption
    PROVE  Spec => ParametersActFromNowOn
<1>1. IInv /\ IInv' /\ [Next]_vars => [KeepsTheBooks]_vars
  BY BooksStep
<1>2. Spec => []IInv
  BY Invariance
<1> QED BY <1>1, <1>2, PTL DEF Spec, ParametersActFromNowOn

-----------------------------------------------------------------------------
(* The limiter.  Balance is what the bucket may hold after the flows i..j,  *)
(* had it been full before flow i: the limiter never has more.              *)

FlowRecord == [at : Nat, in : Nat, out : Nat, capacity : Nat, rate : Nat]

Gain(fl, k) == fl[k].rate * (fl[k].at - fl[k - 1].at)

Net(fl, i, k) ==
    IF k < i THEN 0
    ELSE IF k = i THEN fl[k].in - fl[k].out
    ELSE (fl[k].in - fl[k].out) + Gain(fl, k)

Balance(fl, i, j) == fl[i].capacity + Total([k \in 1..j |-> Net(fl, i, k)], j)

BucketInv ==
    LET n == Len(flows)
    IN  /\ flows \in Seq(FlowRecord)
        /\ n > 0 => flows[n].at = limiter.last_updated_ms
        /\ \A i \in 1..n : limiter.available <= Balance(flows, i, n)
        /\ \A j \in 1..n : \A i \in 1..j : 0 <= Balance(flows, i, j)

(* Every change of the bucket is an integer.                                *)
LEMMA NetInt ==
    ASSUME NEW fl \in Seq(FlowRecord), NEW i \in 1..Len(fl), NEW k \in 1..Len(fl)
    PROVE  /\ fl[k].in \in Nat /\ fl[k].out \in Nat /\ fl[k].capacity \in Nat
           /\ k > 1 => Gain(fl, k) \in Int
           /\ Net(fl, i, k) \in Int
<1>1. fl[k] \in FlowRecord
  BY ElementOfSeq
<1>2. /\ fl[k].in \in Nat /\ fl[k].out \in Nat /\ fl[k].capacity \in Nat
      /\ fl[k].at \in Nat /\ fl[k].rate \in Nat
  BY <1>1 DEF FlowRecord
<1>3. ASSUME k > 1 PROVE Gain(fl, k) \in Int
  <2>1. k - 1 \in 1..Len(fl)
    BY <1>3
  <2>2. fl[k - 1] \in FlowRecord
    BY <2>1, ElementOfSeq
  <2>3. fl[k - 1].at \in Nat
    BY <2>2 DEF FlowRecord
  <2>4. fl[k].at - fl[k - 1].at \in Int
    BY <1>2, <2>3
  <2> QED BY <1>2, <2>4, TimesReorder DEF Gain
<1>4. Net(fl, i, k) \in Int
  <2>1. CASE k < i
    BY <2>1 DEF Net
  <2>2. CASE k = i
    BY <1>2, <2>2 DEF Net
  <2>3. CASE ~ (k < i) /\ k # i
    <3>1. k > 1
      BY <2>3
    <3>2. Gain(fl, k) \in Int /\ fl[k].in - fl[k].out \in Int
      BY <1>2, <1>3, <3>1
    <3>3. Net(fl, i, k) = (fl[k].in - fl[k].out) + Gain(fl, k)
      BY <2>3 DEF Net
    <3> HIDE DEF Net, Gain
    <3> QED BY <3>2, <3>3
  <2> QED BY <2>1, <2>2, <2>3
<1> QED BY <1>2, <1>3, <1>4

(* The balances after one more flow.                                        *)
LEMMA AppendFlow ==
    ASSUME NEW fl \in Seq(FlowRecord), NEW e \in FlowRecord
    PROVE  LET n == Len(fl)
               g == Append(fl, e)
           IN  /\ g \in Seq(FlowRecord) /\ Len(g) = n + 1 /\ g[n + 1] = e
               /\ \A i \in 1..n : /\ Balance(fl, i, n) \in Int
                                  /\ Balance(g, i, n + 1) =
                                       Balance(fl, i, n) + ((e.in - e.out)
                                         + e.rate * (e.at - fl[n].at))
               /\ Balance(g, n + 1, n + 1) = e.capacity + (e.in - e.out)
               /\ \A j \in 1..n : \A i \in 1..j : Balance(g, i, j) = Balance(fl, i, j)
<1> DEFINE n == Len(fl)
           g == Append(fl, e)
<1>1. /\ n \in Nat /\ g \in Seq(FlowRecord) /\ Len(g) = n + 1 /\ g[n + 1] = e
      /\ \A k \in 1..n : g[k] = fl[k]
  BY AppendProperties
<1> HIDE DEF g
<1>2. ASSUME NEW i \in 1..n, NEW k \in 1..n
      PROVE  Net(g, i, k) = Net(fl, i, k) /\ Net(fl, i, k) \in Int
  <2>1. CASE k = 1
    BY <1>1, <2>1, NetInt DEF Net
  <2>2. CASE k # 1
    <3>1. k - 1 \in 1..n
      BY <1>1, <2>2
    <3>2. g[k] = fl[k] /\ g[k - 1] = fl[k - 1]
      BY <1>1, <3>1
    <3> QED BY <3>2, NetInt DEF Net, Gain
  <2> QED BY <2>1, <2>2
<1>3. ASSUME NEW j \in 1..n, NEW i \in 1..j
      PROVE  Balance(g, i, j) = Balance(fl, i, j)
  <2>1. i \in 1..n /\ \A k \in 1..j : k \in 1..n
    BY <1>1
  <2>2. [k \in 1..j |-> Net(g, i, k)] = [k \in 1..j |-> Net(fl, i, k)]
    BY <1>2, <2>1
  <2>3. g[i] = fl[i]
    BY <1>1, <2>1
  <2> QED BY <2>2, <2>3 DEF Balance
<1>4. \A k \in 1..(n + 1) : k \in 1..n \/ k = n + 1
  BY <1>1
<1>5. ASSUME NEW i \in 1..n
      PROVE  /\ Balance(fl, i, n) \in Int
             /\ Balance(g, i, n + 1) =
                  Balance(fl, i, n) + ((e.in - e.out) + e.rate * (e.at - fl[n].at))
  <2> DEFINE a == [k \in 1..n |-> Net(fl, i, k)]
             b == [k \in 1..(n + 1) |-> Net(g, i, k)]
             x == (e.in - e.out) + e.rate * (e.at - fl[n].at)
  <2>1. b[n + 1] = x
    <3>1. ~ (n + 1 < i) /\ n + 1 # i /\ n + 1 \in 1..(n + 1) /\ (n + 1) - 1 = n
          /\ n \in 1..n
      BY <1>1
    <3>2. g[n] = fl[n]
      BY <1>1, <3>1
    <3> QED BY <1>1, <3>1, <3>2 DEF Net, Gain
  <2>2. \A k \in 1..n : a[k] = b[k] /\ a[k] \in Int
    BY <1>1, <1>2
  <2>3. i \in 1..Len(g) /\ n + 1 \in 1..Len(g)
    BY <1>1
  <2>4. Net(g, i, n + 1) \in Int
    BY <1>1, <2>3, NetInt
  <2>5. \A k \in 1..(n + 1) : b[k] \in Int
    BY <1>2, <1>4, <2>4
  <2>6. /\ Balance(fl, i, n) = fl[i].capacity + Total(a, n)
        /\ Balance(g, i, n + 1) = fl[i].capacity + Total(b, n + 1)
    BY <1>1 DEF Balance
  <2>7. fl[i].capacity \in Nat /\ n + 1 \in 1..(n + 1)
    BY <1>1, NetInt
  <2> HIDE DEF a, b, n
  <2>8. Total(b, n + 1) = Total(a, n) + b[n + 1] /\ b[n + 1] \in Int
    BY <1>1, <2>2, <2>5, <2>7, TotalExtend
  <2>9. Total(a, n) \in Int
    BY <1>1, <2>2, TotalType
  <2>10. /\ Balance(fl, i, n) \in Int
         /\ Balance(g, i, n + 1) = Balance(fl, i, n) + x
    <3> HIDE DEF x
    <3> QED BY <2>1, <2>6, <2>7, <2>8, <2>9
  <2> QED BY <2>10
<1>6. Balance(g, n + 1, n + 1) = e.capacity + (e.in - e.out)
  <2> DEFINE z == [k \in 1..n |-> 0]
             b == [k \in 1..(n + 1) |-> Net(g, n + 1, k)]
  <2>1. b[n + 1] = e.in - e.out /\ e.in - e.out \in Int
    <3>1. e.in \in Nat /\ e.out \in Nat
      BY DEF FlowRecord
    <3>2. n + 1 \in 1..(n + 1) /\ ~ (n + 1 < n + 1)
      BY <1>1
    <3>3. b[n + 1] = e.in - e.out
      BY <1>1, <3>2 DEF Net
    <3> QED BY <3>1, <3>3
  <2>2. \A k \in 1..n : b[k] = 0 /\ z[k] = 0 /\ z[k] = b[k]
    BY <1>1 DEF Net
  <2>3. \A k \in 1..(n + 1) : b[k] \in Int
    <3> HIDE DEF b
    <3> QED BY <1>4, <2>1, <2>2
  <2>4. Balance(g, n + 1, n + 1) = e.capacity + Total(b, n + 1)
    BY <1>1 DEF Balance
  <2> HIDE DEF z, b, n
  <2>5. Total(z, n) = 0
    BY <1>1, <2>2, TotalZero
  <2>6. Total(b, n + 1) = Total(z, n) + b[n + 1]
    BY <1>1, <2>2, <2>3, TotalExtend
  <2>7. Total(b, n + 1) = e.in - e.out
    BY <2>1, <2>5, <2>6
  <2> QED BY <2>4, <2>7
<1> QED BY <1>1, <1>3, <1>5, <1>6 DEF g

(* A refill adds at most what the time that passed allows.                  *)
LEMMA RefillFacts ==
    ASSUME NEW at \in Nat, NEW l, LimiterOK(l, at)
    PROVE  /\ refill(l, at).available \in Nat /\ refill(l, at).last_updated_ms = at
           /\ refill(l, at).available <= l.capacity
           /\ refill(l, at).available
                <= l.available + l.refill_rate_per_ms * (at - l.last_updated_ms)
           /\ l.refill_rate_per_ms * (at - l.last_updated_ms) \in Nat
<1> DEFINE d == at - l.last_updated_ms
           rate == l.refill_rate_per_ms
           k == refill(l, at)
<1>1. /\ l.available \in Nat /\ l.capacity \in Nat /\ l.last_updated_ms \in Nat
      /\ rate \in Nat /\ l.available <= l.capacity
      /\ l.last_updated_ms <= at /\ l \in LimiterRecord
  BY DEF LimiterOK, LimiterRecord
<1>2. d \in Nat
  BY <1>1
<1>3. rate * d \in Nat /\ d * rate = rate * d
  BY <1>1, <1>2, TimesNat, TimesReorder
<1>4. CASE at > l.last_updated_ms
  <2> DEFINE x == Lesser(l.available + d * rate, l.capacity)
  <2>1. k = [l EXCEPT !.available = x, !.last_updated_ms = at]
    BY <1>4 DEF refill
  <2> HIDE DEF k, d, rate
  <2>2. x \in Nat /\ x <= l.capacity /\ x <= l.available + rate * d
    BY <1>1, <1>3 DEF Lesser
  <2> HIDE DEF x
  <2>3. k.available = x /\ k.last_updated_ms = at
    BY <1>1, <2>1 DEF LimiterRecord
  <2> QED BY <1>3, <2>2, <2>3 DEF k, d, rate
<1>5. CASE ~ (at > l.last_updated_ms)
  <2>1. k = l /\ l.last_updated_ms = at
    BY <1>1, <1>5 DEF refill
  <2> HIDE DEF k, d, rate
  <2>2. l.available <= l.available + rate * d
    BY <1>1, <1>3
  <2> QED BY <1>1, <1>3, <2>1, <2>2 DEF k, d, rate
<1> QED BY <1>4, <1>5

(* One more flow, with a limiter that was refilled for it.                  *)
LEMMA FlowStep ==
    ASSUME now \in Nat, LimiterOK(limiter, now), BucketInv, NEW in \in Nat, NEW out \in Nat,
           flows' = Append(flows, Flow(in, out)),
           limiter'.last_updated_ms = now, limiter'.available \in Nat,
           limiter'.available <= refill(limiter, now).available + (in - out)
    PROVE  BucketInv'
<1> DEFINE n == Len(flows)
           e == Flow(in, out)
           rate == limiter.refill_rate_per_ms
           after == limiter'.available
           full == refill(limiter, now).available
<1>1. /\ limiter.capacity \in Nat /\ rate \in Nat /\ limiter.available \in Nat
      /\ limiter.last_updated_ms \in Nat
  BY DEF LimiterOK, LimiterRecord
<1>2. /\ e \in FlowRecord /\ e.in = in /\ e.out = out /\ e.at = now
      /\ e.capacity = limiter.capacity /\ e.rate = rate
  BY <1>1 DEF Flow, FlowRecord
<1>3. /\ flows \in Seq(FlowRecord) /\ n \in Nat
      /\ n > 0 => flows[n].at = limiter.last_updated_ms
      /\ \A i \in 1..n : limiter.available <= Balance(flows, i, n)
      /\ \A j \in 1..n : \A i \in 1..j : 0 <= Balance(flows, i, j)
  BY DEF BucketInv
<1>4. /\ full \in Nat /\ full <= limiter.capacity
      /\ full <= limiter.available + rate * (now - limiter.last_updated_ms)
      /\ rate * (now - limiter.last_updated_ms) \in Nat
  BY RefillFacts
<1>5. after \in Nat /\ after <= full + (in - out)
  OBVIOUS
<1> HIDE DEF e, after, full, rate
<1>6. flows' = Append(flows, e)
  BY DEF e
<1>7. /\ flows' \in Seq(FlowRecord) /\ Len(flows') = n + 1 /\ flows'[n + 1] = e
      /\ \A i \in 1..n : /\ Balance(flows, i, n) \in Int
                         /\ Balance(flows', i, n + 1) =
                              Balance(flows, i, n) + ((e.in - e.out)
                                + e.rate * (e.at - flows[n].at))
      /\ Balance(flows', n + 1, n + 1) = e.capacity + (e.in - e.out)
      /\ \A j \in 1..n : \A i \in 1..j : Balance(flows', i, j) = Balance(flows, i, j)
  BY <1>2, <1>3, <1>6, AppendFlow
<1> HIDE DEF n
<1>8. ASSUME NEW i \in 1..(n + 1)
      PROVE  after <= Balance(flows', i, n + 1) /\ Balance(flows', i, n + 1) \in Int
  <2>1. CASE i = n + 1
    BY <1>1, <1>2, <1>4, <1>5, <1>7, <2>1
  <2>2. CASE i # n + 1
    <3> DEFINE gain == rate * (now - limiter.last_updated_ms)
               before == Balance(flows, i, n)
    <3>1. i \in 1..n /\ n > 0
      BY <1>3, <2>2
    <3>2. Balance(flows', i, n + 1) = before + ((in - out) + gain) /\ before \in Int
      BY <1>2, <1>3, <1>7, <3>1
    <3>3. limiter.available <= before
      BY <1>3, <3>1
    <3>4. gain \in Nat /\ full <= limiter.available + gain
      BY <1>4
    <3>5. in \in Nat /\ out \in Nat
      OBVIOUS
    <3> HIDE DEF gain, before
    <3>6. (in - out) + gain \in Int /\ before + ((in - out) + gain) \in Int
      BY <3>2, <3>4, <3>5
    <3>7. full <= before + gain
      BY <1>1, <1>4, <3>2, <3>3, <3>4
    <3>8. after <= before + ((in - out) + gain)
      BY <1>4, <1>5, <3>2, <3>4, <3>5, <3>7
    <3> QED BY <3>2, <3>6, <3>8
  <2> QED BY <2>1, <2>2
<1>9. flows'[Len(flows')].at = limiter'.last_updated_ms
  BY <1>2, <1>7
<1>10. \A i \in 1..Len(flows') : limiter'.available <= Balance(flows', i, Len(flows'))
  BY <1>7, <1>8 DEF after
<1>11. ASSUME NEW j \in 1..(n + 1), NEW i \in 1..j
       PROVE  0 <= Balance(flows', i, j)
  <2>1. CASE j = n + 1
    <3>1. after <= Balance(flows', i, n + 1) /\ Balance(flows', i, n + 1) \in Int
      BY <1>8, <2>1
    <3> QED BY <1>5, <2>1, <3>1
  <2>2. CASE j # n + 1
    <3>1. j \in 1..n
      BY <1>3, <2>2
    <3> QED BY <1>3, <1>7, <3>1
  <2> QED BY <2>1, <2>2
<1> QED BY <1>7, <1>9, <1>10, <1>11 DEF BucketInv

(* Every step keeps what the bucket may hold.                               *)
LEMMA BucketStep ==
    ASSUME MarginPoolAssumption, IInv, BucketInv, [Next]_vars
    PROVE  BucketInv'
<1>1. now \in Nat /\ LimiterOK(limiter, now)
  BY DEF IInv, TypeInv
<1> DEFINE full == refill(limiter, now)
<1>2. /\ full.available \in Nat /\ full.last_updated_ms = now
      /\ full.available <= limiter.capacity
      /\ full \in LimiterRecord /\ limiter.capacity \in Nat
  <2>1. 0 \in Nat
    OBVIOUS
  <2>2. config.pool.rate_limit \in [capacity : Nat, refill_rate_per_ms : Nat, enabled : BOOLEAN]
    BY DEF IInv, TypeInv, MarginPoolConfig
  <2>3. LimiterOK(full, now)
    BY <1>1, <2>1, <2>2, LimiterFacts
  <2> QED BY <1>1, <2>3, RefillFacts DEF LimiterOK, LimiterRecord
<1> HIDE DEF full
<1>3. CASE UNCHANGED <<flows, limiter>>
  BY <1>3 DEF BucketInv
<1>4. ASSUME NEW u \in 1..Suppliers, NEW amount \in SupplyAmounts,
             NEW r \in DOMAIN fees.referrals, Supply(u, amount, r)
      PROVE  BucketInv'
  <2>1. limiter' = record_deposit(limiter, amount, now) /\ Seen(amount, 0) /\ amount \in Nat
    BY <1>4 DEF Supply, MarginPoolAssumption
  <2>2. CASE ~ limiter.enabled
    BY <1>3, <2>1, <2>2 DEF record_deposit, Seen
  <2>3. CASE limiter.enabled
    <3> DEFINE x == Lesser(full.available + amount, limiter.capacity)
    <3>1. limiter' = [full EXCEPT !.available = x] /\ flows' = Append(flows, Flow(amount, 0))
      BY <2>1, <2>3 DEF record_deposit, Seen, full
    <3>2. x \in Nat /\ x <= full.available + (amount - 0) /\ 0 \in Nat
      BY <1>2, <2>1 DEF Lesser
    <3> HIDE DEF x
    <3>3. limiter'.available = x /\ limiter'.last_updated_ms = now
      BY <1>2, <3>1 DEF LimiterRecord
    <3> QED BY <1>1, <2>1, <3>1, <3>2, <3>3, FlowStep DEF full
  <2> QED BY <2>2, <2>3
<1>5. ASSUME NEW u \in 1..Suppliers,
             NEW amount \in WithdrawAmounts
                              \cup {supply_shares_to_amount(positions[u].shares)},
             Withdraw(u, amount)
      PROVE  BucketInv'
  <2>1. /\ limiter' = check_and_record_withdrawal(limiter, amount, now) /\ Seen(0, amount)
        /\ AllowsWithdrawal(limiter, amount, now) /\ Accrues
    BY <1>5 DEF Withdraw
  <2>2. amount \in Nat
    BY <2>1, WithdrawnNat
  <2>3. CASE ~ limiter.enabled
    BY <1>3, <2>1, <2>3 DEF check_and_record_withdrawal, Seen
  <2>4. CASE limiter.enabled
    <3> DEFINE x == full.available - amount
    <3>1. /\ limiter' = [full EXCEPT !.available = x] /\ flows' = Append(flows, Flow(0, amount))
          /\ amount <= full.available
      BY <2>1, <2>4 DEF check_and_record_withdrawal, Seen, AllowsWithdrawal, full
    <3>2. x \in Nat /\ x <= full.available + (0 - amount) /\ 0 \in Nat
      BY <1>2, <2>2, <3>1
    <3> HIDE DEF x
    <3>3. limiter'.available = x /\ limiter'.last_updated_ms = now
      BY <1>2, <3>1 DEF LimiterRecord
    <3> QED BY <1>1, <2>2, <3>1, <3>2, <3>3, FlowStep DEF full
  <2> QED BY <2>3, <2>4
<1>6. ASSUME NEW c \in PoolConfigs, UpdateMarginPoolConfig(c)
      PROVE  BucketInv'
  <2>1. /\ limiter' = update_config(limiter, c.rate_limit, now)
        /\ flows' = Append(flows, Flow(0, 0))
    BY <1>6 DEF UpdateMarginPoolConfig
  <2>2. c.rate_limit.capacity \in Nat
    BY DEF MarginPoolAssumption, MarginPoolConfig
  <2>3. /\ limiter'.available = Lesser(full.available, c.rate_limit.capacity)
        /\ limiter'.last_updated_ms = now
    BY <1>2, <2>1 DEF update_config, full
  <2>4. limiter'.available \in Nat /\ limiter'.available <= full.available + (0 - 0) /\ 0 \in Nat
    BY <1>2, <2>2, <2>3 DEF Lesser
  <2> QED BY <1>1, <2>1, <2>3, <2>4, FlowStep DEF full
<1>7. CASE Lend
  BY <1>4, <1>5, <1>7 DEF Lend
<1>8. CASE Collect
  BY <1>3, <1>8 DEF Collect, MintSupplyReferral, WithdrawReferralFees, WithdrawFees
<1>9. CASE Trade
  <2>1. ASSUME NEW m, NEW x
        PROVE  Borrow(m, x) \/ Repay(m, x) \/ Revalue(m, x) => UNCHANGED <<flows, limiter>>
    BY DEF Borrow, Repay, Revalue
  <2>2. ASSUME NEW m, NEW x
        PROVE  Liquidate(m, x) => UNCHANGED <<flows, limiter>>
    BY DEF Liquidate
  <2> QED BY <1>3, <1>9, <2>1, <2>2 DEF Trade
<1>10. CASE Maintain
  <2>1. CASE \E c \in InterestConfigs : UpdateInterestParams(c)
    BY <1>3, <2>1 DEF UpdateInterestParams
  <2>2. CASE AllowDeepbookPool
    BY <1>3, <2>2 DEF AllowDeepbookPool
  <2> QED BY <1>6, <1>10, <2>1, <2>2 DEF Maintain
<1>11. CASE Tick
  BY <1>3, <1>11 DEF Tick
<1>12. CASE UNCHANGED vars
  BY <1>3, <1>12 DEF vars
<1> QED BY <1>7, <1>8, <1>9, <1>10, <1>11, <1>12 DEF Next

(* A balance that is not negative is the bound on what left.                *)
LEMMA BucketBound ==
    ASSUME BucketInv
    PROVE  WithinTheBucket
<1> SUFFICES ASSUME NEW i \in DOMAIN flows, NEW j \in DOMAIN flows, i <= j
             PROVE  Since(Outs, i, j)
                      <= flows[i].capacity + Since(Refills, i + 1, j) + Since(Ins, i, j)
  BY DEF WithinTheBucket
<1> DEFINE out == [k \in 1..j |-> IF k < i THEN 0 ELSE Outs[k]]
           in == [k \in 1..j |-> IF k < i THEN 0 ELSE Ins[k]]
           gain == [k \in 1..j |-> IF k < i + 1 THEN 0 ELSE Refills[k]]
           net == [k \in 1..j |-> Net(flows, i, k)]
           sum == [k \in 1..j |-> in[k] + gain[k]]
<1>1. /\ flows \in Seq(FlowRecord) /\ DOMAIN flows = 1..Len(flows) /\ Len(flows) \in Nat
      /\ j \in Nat /\ i \in 1..j /\ j \in 1..Len(flows) /\ i \in 1..Len(flows)
  BY DEF BucketInv
<1>2. 0 <= flows[i].capacity + Total(net, j)
  BY <1>1 DEF BucketInv, Balance
<1>3. ASSUME NEW k \in 1..j
      PROVE  /\ out[k] \in Int /\ in[k] \in Int /\ gain[k] \in Int /\ net[k] \in Int
             /\ sum[k] = in[k] + gain[k] /\ sum[k] = net[k] + out[k]
  <2>1. k \in 1..Len(flows)
    BY <1>1
  <2>2. /\ flows[k].in \in Nat /\ flows[k].out \in Nat /\ (k > 1 => Gain(flows, k) \in Int)
        /\ Net(flows, i, k) \in Int
    BY <1>1, <2>1, NetInt
  <2>3. /\ Outs[k] = flows[k].out /\ Ins[k] = flows[k].in
        /\ k # 1 => Refills[k] = Gain(flows, k)
    BY <1>1, <2>1 DEF Outs, Ins, Refills, Gain
  <2>4. CASE k < i
    <3>1. k < i + 1 /\ k # i /\ ~ (k > i) /\ 0 + 0 = 0 /\ 0 \in Int
      BY <1>1, <2>4
    <3>2. /\ out[k] = 0 /\ in[k] = 0 /\ gain[k] = 0 /\ net[k] = 0
          /\ sum[k] = in[k] + gain[k]
      BY <2>4, <3>1 DEF Net
    <3> HIDE DEF out, in, gain, net, sum
    <3> QED BY <3>1, <3>2
  <2>5. CASE k = i
    <3>1. out[k] = flows[k].out /\ in[k] = flows[k].in /\ gain[k] = 0
          /\ net[k] = flows[k].in - flows[k].out /\ sum[k] = in[k] + gain[k]
      BY <1>1, <2>3, <2>5 DEF Net
    <3> HIDE DEF out, in, gain, net, sum
    <3> QED BY <2>2, <3>1
  <2>6. CASE ~ (k < i) /\ k # i
    <3>1. k > 1 /\ k # 1 /\ ~ (k < i + 1)
      BY <1>1, <2>6
    <3>2. out[k] = flows[k].out /\ in[k] = flows[k].in /\ gain[k] = Gain(flows, k)
          /\ net[k] = (flows[k].in - flows[k].out) + Gain(flows, k)
          /\ sum[k] = in[k] + gain[k]
      BY <2>3, <2>6, <3>1 DEF Net
    <3> HIDE DEF out, in, gain, net, sum
    <3> QED BY <2>2, <3>1, <3>2
  <2> QED BY <2>4, <2>5, <2>6
<1>4. /\ Since(Outs, i, j) = Total(out, j) /\ Since(Ins, i, j) = Total(in, j)
      /\ Since(Refills, i + 1, j) = Total(gain, j)
  BY DEF Since
<1> HIDE DEF out, in, gain, net, sum
<1>5. \A k \in 1..j : in[k] \in Int /\ gain[k] \in Int /\ sum[k] = in[k] + gain[k]
  BY <1>3
<1>6. \A k \in 1..j : net[k] \in Int /\ out[k] \in Int /\ sum[k] = net[k] + out[k]
  BY <1>3
<1>7. Total(sum, j) = Total(in, j) + Total(gain, j)
  <2>1. j \in Nat
    BY <1>1
  <2> QED BY <1>5, <2>1, TotalAdd, Zenon
<1>8. Total(sum, j) = Total(net, j) + Total(out, j)
  <2>1. j \in Nat
    BY <1>1
  <2> QED BY <1>6, <2>1, TotalAdd, Zenon
<1>9. Total(in, j) \in Int
  BY <1>1, <1>5, TotalType
<1>10. Total(gain, j) \in Int
  BY <1>1, <1>5, TotalType
<1>11. Total(net, j) \in Int
  BY <1>1, <1>6, TotalType
<1>12. Total(out, j) \in Int
  BY <1>1, <1>6, TotalType
<1>13. flows[i].capacity \in Nat
  BY <1>1, NetInt
<1>14. Total(out, j) <= flows[i].capacity + Total(gain, j) + Total(in, j)
  BY <1>2, <1>7, <1>8, <1>9, <1>10, <1>11, <1>12, <1>13
<1> QED BY <1>4, <1>14

(* What leaves a pool in any stretch of time is within the capacity, the    *)
(* refill and the deposits of that time, for every sequence of deposits,    *)
(* withdrawals and changes of the limits (rate_limiter.move).               *)
THEOREM AlwaysWithinTheBucket ==
    ASSUME MarginPoolAssumption
    PROVE  Spec => []WithinTheBucket
<1>1. Init => BucketInv
  <2>1. <<>> \in Seq(FlowRecord) /\ Len(<<>>) = 0
    OBVIOUS
  <2> QED BY <2>1 DEF Init, BucketInv
<1>2. IInv /\ BucketInv /\ [Next]_vars => BucketInv'
  BY BucketStep
<1>3. BucketInv => WithinTheBucket
  BY BucketBound
<1>4. Spec => []IInv
  BY Invariance
<1> QED BY <1>1, <1>2, <1>3, <1>4, PTL DEF Spec
=============================================================================
