------------------------ MODULE DlcTransactionsProofs ------------------------
(***************************************************************************)
(* The fees of DlcTransactions for every funding: any amounts, weights,    *)
(* script lengths and fee rate, each way to share the fees, with and       *)
(* without a channel.                                                      *)
(***************************************************************************)
EXTENDS DlcTransactions, TLAPS

FundingParams ==
    [offer : PartyParams, accept : PartyParams, rate : Nat,
     config : FeeConfigs, channel : BOOLEAN]

-----------------------------------------------------------------------------
(* Rates and weights are natural numbers, and so are the fees made of them.*)

(* A product of natural numbers is one, and grows with its factor.         *)
LEMMA ProductNat ==
    ASSUME NEW a \in Nat, NEW b \in Nat PROVE a * b \in Nat
  OBVIOUS

LEMMA ProductMonotone ==
    ASSUME NEW a \in Nat, NEW b \in Nat, NEW r \in Nat, a =< b
    PROVE  a * r =< b * r
  <1>1. PICK d \in Nat : b = a + d
    <2>1. b - a \in Nat
      OBVIOUS
    <2>2. b = a + (b - a)
      OBVIOUS
    <2> QED BY <2>1, <2>2
  <1>2. b * r = a * r + d * r
    BY <1>1
  <1>3. d * r \in Nat /\ a * r \in Nat
    BY ProductNat
  <1> QED BY <1>2, <1>3

(* The virtual size of a weight, rounded up.                               *)
LEMMA SizeNat ==
    ASSUME NEW w \in Nat
    PROVE  /\ (w + 3) \div 4 \in Nat
           /\ w =< 4 * ((w + 3) \div 4)
           /\ 4 * ((w + 3) \div 4) =< w + 3
  OBVIOUS

LEMMA FeeNat ==
    ASSUME NEW w \in Nat, NEW r \in Nat
    PROVE  /\ WeightToFee(w, r) \in Nat
           /\ TxWeightToFee(w, r) \in Nat
           /\ TxWeightToFee(w, r) >= WeightToFee(w, r)
           /\ TxWeightToFee(w, r) >= MIN_FEE
  <1>1. WeightToFee(w, r) \in Nat
    BY SizeNat, ProductNat DEF WeightToFee
  <1> QED BY <1>1 DEF TxWeightToFee, MIN_FEE

(* Rounding two weights up costs at least as much as rounding their sum.   *)
LEMMA FeeSum ==
    ASSUME NEW v \in Nat, NEW w \in Nat, NEW r \in Nat
    PROVE  WeightToFee(v + w, r) =< WeightToFee(v, r) + WeightToFee(w, r)
  <1> DEFINE a == (v + 3) \div 4
             b == (w + 3) \div 4
             c == (v + w + 3) \div 4
  <1>1. a \in Nat /\ b \in Nat /\ c \in Nat
    BY SizeNat
  <1>2. c =< a + b
    OBVIOUS
  <1>3. c * r =< (a + b) * r
    BY <1>1, <1>2, ProductMonotone
  <1>4. (a + b) * r = a * r + b * r
    BY <1>1
  <1> QED BY <1>3, <1>4 DEF WeightToFee

-----------------------------------------------------------------------------
LEMMA ShareNat ==
    ASSUME NEW c \in FeeConfigs
    PROVE  OfferShare(c) \in 0 .. 2 /\ AcceptShare(c) \in 0 .. 2
  BY DEF FeeConfigs, OfferShare, AcceptShare

LEMMA PartyFeesNat ==
    ASSUME NEW p \in PartyParams, NEW share \in 0 .. 2, NEW r \in Nat
    PROVE  /\ FundFeeWithoutChange(p, share, r) \in Nat
           /\ CetFee(p, share, r) \in Nat
  <1>1. p.inputs_weight \in Nat /\ p.payout_len \in Nat
    BY DEF PartyParams
  <1>2. (FUND_TX_BASE_WEIGHT * share) \div 2 \in Nat
    BY DEF FUND_TX_BASE_WEIGHT
  <1>3. (CET_BASE_WEIGHT * share) \div 2 \in Nat
    BY DEF CET_BASE_WEIGHT
  <1>4. FundFeeWithoutChange(p, share, r) \in Nat
    <2> DEFINE w == (FUND_TX_BASE_WEIGHT * share) \div 2 + p.inputs_weight
    <2>1. w \in Nat
      BY <1>1, <1>2
    <2>2. TxWeightToFee(w, r) \in Nat
      BY <2>1, FeeNat
    <2> HIDE DEF w
    <2> QED BY <2>2 DEF FundFeeWithoutChange, w
  <1>5. PayoutSpkFee(p.payout_len, r) \in Nat
    BY <1>1, ProductNat DEF PayoutSpkFee
  <1>6. share * PayoutSpkFee(p.payout_len, r) \in Nat
    BY <1>5, ProductNat
  <1>7. WeightToFee((CET_BASE_WEIGHT * share) \div 2, r) \in Nat
    BY <1>3, FeeNat
  <1> QED BY <1>4, <1>6, <1>7 DEF CetFee

LEMMA ExtraFeeNat ==
    ASSUME NEW f \in FundingParams
    PROVE  ExtraFee(f) \in Nat
  <1>1. f.rate \in Nat /\ f.channel \in BOOLEAN
    BY DEF FundingParams
  <1> DEFINE w == BUFFER_TX_WEIGHT + CET_EXTRA_WEIGHT
  <1>2. w \in Nat
    BY DEF BUFFER_TX_WEIGHT, CET_EXTRA_WEIGHT
  <1> HIDE DEF w
  <1>3. TxWeightToFee(w, f.rate) \in Nat
    BY <1>1, <1>2, FeeNat
  <1>4. ExtraFee(f) = TxWeightToFee(w, f.rate) \/ ExtraFee(f) = 0
    BY <1>1 DEF ExtraFee, ChannelExtraFee, w
  <1> QED BY <1>3, <1>4

(* The two parts of the extra fee, for each way to share it.               *)
LEMMA ExtraParts ==
    ASSUME NEW f
    PROVE  /\ f.config = "EvenSplit" =>
                 /\ OfferExtra(f) = (ExtraFee(f) \div 2) + (ExtraFee(f) % 2)
                 /\ AcceptExtra(f) = ExtraFee(f) \div 2
           /\ f.config = "AllOffer" =>
                 OfferExtra(f) = ExtraFee(f) /\ AcceptExtra(f) = 0
           /\ f.config = "AllAccept" =>
                 OfferExtra(f) = 0 /\ AcceptExtra(f) = ExtraFee(f)
  BY Zenon DEF OfferExtra, AcceptExtra

LEMMA ExtraNat ==
    ASSUME NEW f \in FundingParams
    PROVE  /\ OfferExtra(f) \in Nat
           /\ AcceptExtra(f) \in Nat
           /\ OfferExtra(f) + AcceptExtra(f) = ExtraFee(f)
  <1>1. f.config \in FeeConfigs
    BY DEF FundingParams
  <1>2. ExtraFee(f) \in Nat
    BY ExtraFeeNat
  <1>3. CASE f.config = "EvenSplit"
    BY <1>2, <1>3, ExtraParts
  <1>4. CASE f.config = "AllOffer"
    BY <1>2, <1>4, ExtraParts
  <1>5. CASE f.config = "AllAccept"
    BY <1>2, <1>5, ExtraParts
  <1> QED BY <1>1, <1>3, <1>4, <1>5 DEF FeeConfigs

LEMMA FundingParts ==
    ASSUME NEW f \in FundingParams
    PROVE  /\ f.offer \in PartyParams /\ f.accept \in PartyParams
           /\ f.rate \in Nat /\ f.config \in FeeConfigs
           /\ f.channel \in BOOLEAN
           /\ OfferShare(f.config) \in 0 .. 2
           /\ AcceptShare(f.config) \in 0 .. 2
           /\ OfferExtra(f) \in Nat /\ AcceptExtra(f) \in Nat
           /\ TotalCollateral(f) = f.offer.collateral + f.accept.collateral
  <1>1. /\ f.offer \in PartyParams /\ f.accept \in PartyParams
        /\ f.rate \in Nat /\ f.config \in FeeConfigs /\ f.channel \in BOOLEAN
    BY DEF FundingParams
  <1>2. OfferShare(f.config) \in 0 .. 2 /\ AcceptShare(f.config) \in 0 .. 2
    BY <1>1, ShareNat
  <1> QED BY <1>1, <1>2, ExtraNat DEF TotalCollateral

(* What a party puts in and does not get back as change or pay for the     *)
(* fund transaction is its collateral, its part of the CET and its part of *)
(* the extra fee.                                                          *)
LEMMA PartyConserved ==
    ASSUME NEW p \in PartyParams, NEW share \in 0 .. 2, NEW r \in Nat,
           NEW extra \in Nat
    PROVE  /\ ChangeAmount(p, share, r, extra) \in Int
           /\ FundFee(p, share, r, extra) \in Nat
           /\ p.input_amount - ChangeAmount(p, share, r, extra)
              - FundFee(p, share, r, extra)
              = p.collateral + CetFee(p, share, r) + extra
           /\ p.collateral \in Nat /\ p.input_amount \in Nat
           /\ CetFee(p, share, r) \in Nat
  <1>1. /\ p.input_amount \in Nat /\ p.collateral \in Nat
        /\ 36 + 4 * p.change_len \in Nat
    BY DEF PartyParams
  <1>2. /\ FundFeeWithoutChange(p, share, r) \in Nat
        /\ CetFee(p, share, r) \in Nat
    BY PartyFeesNat
  <1>3. WeightToFee(36 + 4 * p.change_len, r) \in Nat
    BY <1>1, FeeNat
  <1>4. ChangeFee(p, share, r, extra) \in Nat
    BY <1>3 DEF ChangeFee
  <1>5. Leftover(p, share, r, extra) \in Int
    BY <1>1, <1>2 DEF Leftover
  <1> QED BY <1>1, <1>2, <1>4, <1>5 DEF ChangeAmount, FundFee, Leftover

(***************************************************************************)
(* The fund output holds the collaterals, the fees of the CET and the      *)
(* extra fee of a channel, to the satoshi, and no party's change is        *)
(* negative: the assertions of create_fund_transaction_with_fees never     *)
(* fail, whatever the amounts, the fee rate and the way to share the fees. *)
(***************************************************************************)
THEOREM FundingConserved ==
    \A f \in FundingParams : CanFund(f) => FundConserved(f)
  <1> SUFFICES ASSUME NEW f \in FundingParams, CanFund(f)
               PROVE  FundConserved(f)
    OBVIOUS
  <1>0. /\ f.offer \in PartyParams /\ f.accept \in PartyParams
        /\ f.rate \in Nat
        /\ OfferShare(f.config) \in 0 .. 2 /\ AcceptShare(f.config) \in 0 .. 2
        /\ OfferExtra(f) \in Nat /\ AcceptExtra(f) \in Nat
    BY FundingParts
  <1>1. /\ OfferChange(f) \in Int /\ OfferFundFee(f) \in Nat
        /\ f.offer.input_amount \in Nat
        /\ f.offer.input_amount - OfferChange(f) - OfferFundFee(f)
           = f.offer.collateral + OfferCetFee(f) + OfferExtra(f)
    <2> DEFINE p == f.offer
               s == OfferShare(f.config)
               r == f.rate
               e == OfferExtra(f)
    <2>1. p \in PartyParams /\ s \in 0 .. 2 /\ r \in Nat /\ e \in Nat
      BY <1>0
    <2> HIDE DEF p, s, r, e
    <2>2. /\ ChangeAmount(p, s, r, e) \in Int /\ FundFee(p, s, r, e) \in Nat
          /\ p.input_amount \in Nat
          /\ p.input_amount - ChangeAmount(p, s, r, e) - FundFee(p, s, r, e)
             = p.collateral + CetFee(p, s, r) + e
      BY <2>1, PartyConserved
    <2> QED BY <2>2 DEF p, s, r, e, OfferChange, OfferFundFee, OfferCetFee
  <1>2. /\ AcceptChange(f) \in Int /\ AcceptFundFee(f) \in Nat
        /\ f.accept.input_amount \in Nat
        /\ f.accept.input_amount - AcceptChange(f) - AcceptFundFee(f)
           = f.accept.collateral + AcceptCetFee(f) + AcceptExtra(f)
    <2> DEFINE p == f.accept
               s == AcceptShare(f.config)
               r == f.rate
               e == AcceptExtra(f)
    <2>1. p \in PartyParams /\ s \in 0 .. 2 /\ r \in Nat /\ e \in Nat
      BY <1>0
    <2> HIDE DEF p, s, r, e
    <2>2. /\ ChangeAmount(p, s, r, e) \in Int /\ FundFee(p, s, r, e) \in Nat
          /\ p.input_amount \in Nat
          /\ p.input_amount - ChangeAmount(p, s, r, e) - FundFee(p, s, r, e)
             = p.collateral + CetFee(p, s, r) + e
      BY <2>1, PartyConserved
    <2> QED BY <2>2 DEF p, s, r, e, AcceptChange, AcceptFundFee, AcceptCetFee
  <1>3. OfferCetFee(f) \in Nat /\ AcceptCetFee(f) \in Nat
    BY FundingParts, PartyFeesNat DEF OfferCetFee, AcceptCetFee
  <1>4. f.offer.collateral \in Nat /\ f.accept.collateral \in Nat
    BY FundingParts DEF PartyParams
  <1>5. FundOutputValue(f) = TotalCollateral(f) + OfferCetFee(f)
          + AcceptCetFee(f) + OfferExtra(f) + AcceptExtra(f)
    <2> DEFINE i == f.offer.input_amount
               j == f.accept.input_amount
               c == f.offer.collateral
               d == f.accept.collateral
               x == OfferChange(f)
               y == AcceptChange(f)
               u == OfferFundFee(f)
               v == AcceptFundFee(f)
               m == OfferCetFee(f)
               n == AcceptCetFee(f)
               s == OfferExtra(f)
               t == AcceptExtra(f)
    <2>1. /\ i \in Nat /\ j \in Nat /\ c \in Nat /\ d \in Nat
          /\ x \in Int /\ y \in Int /\ u \in Nat /\ v \in Nat
          /\ m \in Nat /\ n \in Nat /\ s \in Nat /\ t \in Nat
          /\ i - x - u = c + m + s /\ j - y - v = d + n + t
      BY <1>0, <1>1, <1>2, <1>3, <1>4
    <2> HIDE DEF i, j, c, d, x, y, u, v, m, n, s, t
    <2>2. i + j - x - y - u - v = c + d + m + n + s + t
      BY <2>1
    <2> QED BY <2>2 DEF FundOutputValue, TotalCollateral,
                        i, j, c, d, x, y, u, v, m, n, s, t
  <1>6. OfferChange(f) >= 0 /\ AcceptChange(f) >= 0
    BY DEF CanFund, CanPay, OfferChange, AcceptChange
  <1>7. OfferExtra(f) + AcceptExtra(f) = ExtraFee(f)
    BY ExtraNat
  <1> QED BY <1>5, <1>6, <1>7 DEF FundConserved

-----------------------------------------------------------------------------
(* The weight that a party pays for in the fund transaction: its share of  *)
(* the base weight, its inputs and its change output, if it has one.       *)
PartyWeight(p, share, change) ==
    (FUND_TX_BASE_WEIGHT * share) \div 2 + p.inputs_weight
    + (IF change >= DUST_LIMIT THEN 36 + 4 * p.change_len ELSE 0)

(* A party without inputs that can pay has no share of the fees and no     *)
(* change, unless there are no fees at all.                                *)
LEMMA WithoutInputs ==
    ASSUME NEW p \in PartyParams, NEW share \in 0 .. 2, NEW r \in Nat,
           NEW extra \in Nat, p.inputs_weight = 0,
           CanPay(p, share, r, extra)
    PROVE  r = 0 \/ (share = 0 /\ ChangeAmount(p, share, r, extra) = 0)
  <1> DEFINE k == PayoutSpkFee(p.payout_len, r)
             x == WeightToFee((CET_BASE_WEIGHT * share) \div 2, r)
             rest == Leftover(p, share, r, extra)
  <1>1. /\ p.collateral \in Nat /\ p.payout_len \in Nat
        /\ p.input_amount = 0
    BY DEF PartyParams
  <1>2. FundFeeWithoutChange(p, share, r) = 0
    BY DEF FundFeeWithoutChange
  <1>3. k \in Nat /\ k >= r
    <2>1. 9 + p.payout_len \in Nat /\ 1 =< 9 + p.payout_len
      BY <1>1
    <2>2. /\ 1 * r =< (9 + p.payout_len) * r
          /\ (9 + p.payout_len) * r \in Nat
      BY <2>1, ProductMonotone, ProductNat
    <2> QED BY <2>2 DEF PayoutSpkFee
  <1>4. CetFee(p, share, r) = x + share * k
    BY DEF CetFee
  <1>5. x \in Nat
    <2>1. (CET_BASE_WEIGHT * share) \div 2 \in Nat
      BY DEF CET_BASE_WEIGHT
    <2> QED BY <2>1, FeeNat
  <1>6. /\ rest = 0 - (p.collateral + 0 + CetFee(p, share, r) + extra)
        /\ rest >= 0
    BY <1>1, <1>2 DEF Leftover, CanPay
  <1>7. ChangeAmount(p, share, r, extra)
        = rest - (IF rest = 0 THEN 0
                  ELSE WeightToFee(36 + 4 * p.change_len, r))
    BY DEF ChangeAmount, ChangeFee
  <1> HIDE DEF k, x, rest
  <1>8. CASE share = 0
    <2>1. CetFee(p, share, r) \in Nat
      BY <1>3, <1>4, <1>5, <1>8
    <2>2. rest = 0
      BY <1>1, <1>6, <2>1
    <2> QED BY <1>7, <1>8, <2>2
  <1>9. CASE share \in {1, 2}
    <2>1. share * k \in Nat /\ share * k >= k
      BY <1>3, <1>9
    <2>2. CetFee(p, share, r) \in Nat /\ CetFee(p, share, r) >= r
      BY <1>3, <1>4, <1>5, <2>1
    <2>3. r = 0
      BY <1>1, <1>6, <2>2
    <2> QED BY <2>3
  <1> QED BY <1>8, <1>9

LEMMA PartyPaysWeight ==
    ASSUME NEW p \in PartyParams, NEW share \in 0 .. 2, NEW r \in Nat,
           NEW extra \in Nat, CanPay(p, share, r, extra)
    PROVE  LET change == ChangeAmount(p, share, r, extra)
           IN  /\ PartyWeight(p, share, change) \in Nat
               /\ FundFee(p, share, r, extra)
                     >= WeightToFee(PartyWeight(p, share, change), r)
  <1> DEFINE change == ChangeAmount(p, share, r, extra)
             v == (FUND_TX_BASE_WEIGHT * share) \div 2 + p.inputs_weight
             w == 36 + 4 * p.change_len
             base == FundFeeWithoutChange(p, share, r)
             cost == ChangeFee(p, share, r, extra)
             rest == Leftover(p, share, r, extra)
  <1>1. p.inputs_weight \in Nat /\ p.change_len \in Nat
    BY DEF PartyParams
  <1>2. v \in Nat /\ w \in Nat
    BY <1>1 DEF FUND_TX_BASE_WEIGHT
  <1>3. p.inputs_weight > 0 => base = TxWeightToFee(v, r)
    BY <1>1 DEF FundFeeWithoutChange
  <1>4. cost = IF rest = 0 THEN 0 ELSE WeightToFee(w, r)
    BY DEF ChangeFee
  <1>5. change = rest - cost /\ change \in Int /\ change >= 0
    BY PartyConserved DEF ChangeAmount, CanPay
  <1>6. FundFee(p, share, r, extra) = base + cost
    BY DEF FundFee
  <1>7. PartyWeight(p, share, change)
        = v + (IF change >= DUST_LIMIT THEN w ELSE 0)
    BY DEF PartyWeight
  <1>nat. FundFee(p, share, r, extra) \in Nat
    BY PartyConserved
  <1>none. p.inputs_weight = 0 => r = 0 \/ (v = 0 /\ change = 0)
    <2>1. SUFFICES ASSUME p.inputs_weight = 0, r # 0
                   PROVE  v = 0 /\ change = 0
      OBVIOUS
    <2>2. share = 0 /\ change = 0
      BY <2>1, WithoutInputs
    <2> QED BY <2>1, <2>2 DEF FUND_TX_BASE_WEIGHT
  <1> HIDE DEF change, v, w, base, cost, rest
  <1>8. /\ WeightToFee(v, r) \in Nat /\ TxWeightToFee(v, r) \in Nat
        /\ TxWeightToFee(v, r) >= WeightToFee(v, r)
        /\ WeightToFee(w, r) \in Nat
        /\ WeightToFee(v + w, r) =< WeightToFee(v, r) + WeightToFee(w, r)
    BY <1>2, FeeNat, FeeSum
  <1>none1. CASE p.inputs_weight = 0
    <2>1. PartyWeight(p, share, change) \in Nat
      BY <1>2, <1>7
    <2>2. WeightToFee(PartyWeight(p, share, change), r) = 0
      <3>1. CASE r = 0
        <4>1. (PartyWeight(p, share, change) + 3) \div 4 \in Nat
          BY <2>1, SizeNat
        <4> QED BY <3>1, <4>1 DEF WeightToFee
      <3>2. CASE v = 0 /\ change = 0
        <4>1. PartyWeight(p, share, change) = 0
          BY <1>7, <3>2 DEF DUST_LIMIT
        <4> QED BY <4>1 DEF WeightToFee
      <3> QED BY <1>none, <1>none1, <3>1, <3>2
    <2> QED BY <1>nat, <2>1, <2>2 DEF change
  <1>9. CASE p.inputs_weight > 0 /\ change >= DUST_LIMIT
    <2>1. rest # 0
      BY <1>4, <1>5, <1>9 DEF DUST_LIMIT
    <2>2. cost = WeightToFee(w, r)
      BY <1>4, <2>1
    <2>3. PartyWeight(p, share, change) = v + w
      BY <1>7, <1>9
    <2>4. v + w \in Nat
      BY <1>2
    <2>5. WeightToFee(v + w, r) \in Nat
      BY <2>4, FeeNat
    <2>6. FundFee(p, share, r, extra) >= WeightToFee(v + w, r)
      BY <1>3, <1>6, <1>8, <1>9, <2>2, <2>5
    <2> QED BY <2>3, <2>4, <2>6 DEF change
  <1>10. CASE p.inputs_weight > 0 /\ ~ (change >= DUST_LIMIT)
    <2>1. PartyWeight(p, share, change) = v
      BY <1>2, <1>7, <1>10
    <2>2. cost \in Nat
      BY <1>4, <1>8
    <2> QED BY <1>2, <1>3, <1>6, <1>8, <1>10, <2>1, <2>2 DEF change
  <1> QED BY <1>1, <1>none1, <1>9, <1>10

(***************************************************************************)
(* The fund transaction pays for its weight at the agreed rate, whichever  *)
(* of the change outputs are discarded as dust, also when one of the       *)
(* parties has no inputs and so pays nothing of it.                        *)
(***************************************************************************)
THEOREM FundFeesPaid ==
    \A f \in FundingParams : CanFund(f) => FundFeePaid(f)
  <1> SUFFICES ASSUME NEW f \in FundingParams, CanFund(f)
               PROVE  FundTxFee(f) >= WeightToFee(FundTxWeight(f), f.rate)
    BY DEF FundFeePaid
  <1> DEFINE r == f.rate
             x == OfferChange(f)
             y == AcceptChange(f)
             u == OfferFundFee(f)
             v == AcceptFundFee(f)
             a == PartyWeight(f.offer, OfferShare(f.config), x)
             b == PartyWeight(f.accept, AcceptShare(f.config), y)
             i == f.offer.input_amount
             j == f.accept.input_amount
  <1>0. /\ f.offer \in PartyParams /\ f.accept \in PartyParams /\ r \in Nat
        /\ OfferShare(f.config) \in 0 .. 2 /\ AcceptShare(f.config) \in 0 .. 2
        /\ OfferExtra(f) \in Nat /\ AcceptExtra(f) \in Nat
    BY FundingParts
  <1>1. a \in Nat /\ u >= WeightToFee(a, r)
    <2> DEFINE p == f.offer
               s == OfferShare(f.config)
               e == OfferExtra(f)
    <2>1. /\ p \in PartyParams /\ s \in 0 .. 2 /\ r \in Nat /\ e \in Nat
          /\ CanPay(p, s, r, e)
      BY <1>0 DEF CanFund
    <2> HIDE DEF p, s, e, r
    <2>2. /\ PartyWeight(p, s, ChangeAmount(p, s, r, e)) \in Nat
          /\ FundFee(p, s, r, e)
               >= WeightToFee(PartyWeight(p, s, ChangeAmount(p, s, r, e)), r)
      BY <2>1, PartyPaysWeight
    <2> QED BY <2>2 DEF p, s, e, r, OfferChange, OfferFundFee
  <1>2. b \in Nat /\ v >= WeightToFee(b, r)
    <2> DEFINE p == f.accept
               s == AcceptShare(f.config)
               e == AcceptExtra(f)
    <2>1. /\ p \in PartyParams /\ s \in 0 .. 2 /\ r \in Nat /\ e \in Nat
          /\ CanPay(p, s, r, e)
      BY <1>0 DEF CanFund
    <2> HIDE DEF p, s, e, r
    <2>2. /\ PartyWeight(p, s, ChangeAmount(p, s, r, e)) \in Nat
          /\ FundFee(p, s, r, e)
               >= WeightToFee(PartyWeight(p, s, ChangeAmount(p, s, r, e)), r)
      BY <2>1, PartyPaysWeight
    <2> QED BY <2>2 DEF p, s, e, r, AcceptChange, AcceptFundFee
  <1>3. FundTxWeight(f) = a + b
    <2>1. /\ f.offer.inputs_weight \in Nat /\ f.offer.change_len \in Nat
          /\ f.accept.inputs_weight \in Nat /\ f.accept.change_len \in Nat
      BY <1>0 DEF PartyParams
    <2>2. (FUND_TX_BASE_WEIGHT * OfferShare(f.config)) \div 2
          + (FUND_TX_BASE_WEIGHT * AcceptShare(f.config)) \div 2
          = FUND_TX_BASE_WEIGHT
      BY <1>0 DEF FUND_TX_BASE_WEIGHT, AcceptShare
    <2> DEFINE m == (FUND_TX_BASE_WEIGHT * OfferShare(f.config)) \div 2
               n == (FUND_TX_BASE_WEIGHT * AcceptShare(f.config)) \div 2
               c == IF x >= DUST_LIMIT THEN 36 + 4 * f.offer.change_len ELSE 0
               d == IF y >= DUST_LIMIT THEN 36 + 4 * f.accept.change_len ELSE 0
    <2>3. /\ a = m + f.offer.inputs_weight + c
          /\ b = n + f.accept.inputs_weight + d
          /\ FundTxWeight(f) = FUND_TX_BASE_WEIGHT + f.offer.inputs_weight
                               + f.accept.inputs_weight + c + d
      BY DEF FundTxWeight, PartyWeight
    <2>4. m \in Nat /\ n \in Nat /\ c \in Nat /\ d \in Nat
      BY <1>0, <2>1 DEF FUND_TX_BASE_WEIGHT
    <2> HIDE DEF a, b, c, d, m, n
    <2>5. m + n = FUND_TX_BASE_WEIGHT
      BY <2>2 DEF m, n
    <2> QED BY <2>1, <2>3, <2>4, <2>5
  <1>4. /\ i \in Nat /\ j \in Nat /\ x \in Int /\ y \in Int
        /\ u \in Nat /\ v \in Nat /\ x >= 0 /\ y >= 0
    <2>1. /\ x \in Int /\ u \in Nat /\ i \in Nat
      BY <1>0, PartyConserved, Zenon DEF OfferChange, OfferFundFee
    <2>2. /\ y \in Int /\ v \in Nat /\ j \in Nat
      BY <1>0, PartyConserved, Zenon DEF AcceptChange, AcceptFundFee
    <2> QED BY <2>1, <2>2 DEF CanFund, CanPay, OfferChange, AcceptChange
  <1>5. FundTxFee(f) = i + j - (i + j - x - y - u - v) - Kept(x) - Kept(y)
    BY DEF FundTxFee, FundOutputValue
  <1> HIDE DEF r, x, y, u, v, a, b, i, j
  <1>6. /\ Kept(x) \in Int /\ Kept(x) =< x
        /\ Kept(y) \in Int /\ Kept(y) =< y
    BY <1>4 DEF Kept, DUST_LIMIT
  <1>7. FundTxFee(f) >= u + v
    BY <1>4, <1>5, <1>6
  <1>8. /\ WeightToFee(a, r) \in Nat /\ WeightToFee(b, r) \in Nat
        /\ WeightToFee(a + b, r) \in Nat
        /\ WeightToFee(a + b, r) =< WeightToFee(a, r) + WeightToFee(b, r)
    <2>1. a + b \in Nat
      BY <1>1, <1>2
    <2> QED BY <1>0, <1>1, <1>2, <2>1, FeeNat, FeeSum
  <1>9. FundTxFee(f) \in Int
    BY <1>4, <1>5, <1>6
  <1>10. FundTxFee(f) >= WeightToFee(a + b, r)
    BY <1>1, <1>2, <1>4, <1>7, <1>8, <1>9
  <1> QED BY <1>3, <1>10 DEF r

-----------------------------------------------------------------------------
LEMMA OutputFee ==
    ASSUME NEW len \in Nat, NEW r \in Nat
    PROVE  /\ 4 * (9 + len) \in Nat
           /\ WeightToFee(4 * (9 + len), r) = PayoutSpkFee(len, r)
           /\ PayoutSpkFee(len, r) \in Nat
           /\ PayoutSpkFee(len, r) >= 9 * r
  <1>1. (4 * (9 + len) + 3) \div 4 = 9 + len
    OBVIOUS
  <1>2. (9 + len) * r \in Nat
    BY ProductNat
  <1>3. 9 * r =< (9 + len) * r
    BY ProductMonotone
  <1> QED BY <1>1, <1>2, <1>3 DEF WeightToFee, PayoutSpkFee

(* The base weight of a CET is paid for, and each payout output is paid    *)
(* for when the fees are shared evenly or the payout scripts have the same *)
(* length: a party that pays alone pays twice for its own script.          *)
LEMMA CetFees ==
    ASSUME NEW f \in FundingParams
    PROVE  /\ OfferCetFee(f) \in Nat /\ AcceptCetFee(f) \in Nat
           /\ OfferCetFee(f) + AcceptCetFee(f)
                 >= WeightToFee(CET_BASE_WEIGHT, f.rate) + 18 * f.rate
           /\ (\/ f.config = "EvenSplit"
               \/ f.offer.payout_len = f.accept.payout_len) =>
                 OfferCetFee(f) + AcceptCetFee(f)
                   >= WeightToFee(CET_BASE_WEIGHT, f.rate)
                      + PayoutSpkFee(f.offer.payout_len, f.rate)
                      + PayoutSpkFee(f.accept.payout_len, f.rate)
  <1> DEFINE r == f.rate
             k == PayoutSpkFee(f.offer.payout_len, r)
             l == PayoutSpkFee(f.accept.payout_len, r)
             m == OfferCetFee(f)
             n == AcceptCetFee(f)
  <1>1. /\ r \in Nat /\ f.offer.payout_len \in Nat
        /\ f.accept.payout_len \in Nat /\ f.config \in FeeConfigs
    BY DEF FundingParams, PartyParams
  <1>2. k \in Nat /\ l \in Nat /\ k >= 9 * r /\ l >= 9 * r
    BY <1>1, OutputFee
  <1>3. f.offer.payout_len = f.accept.payout_len => k = l
    OBVIOUS
  <1>4. /\ WeightToFee(CET_BASE_WEIGHT, r) = 125 * r
        /\ WeightToFee((CET_BASE_WEIGHT * 2) \div 2, r) = 125 * r
        /\ WeightToFee((CET_BASE_WEIGHT * 1) \div 2, r) = 63 * r
        /\ WeightToFee((CET_BASE_WEIGHT * 0) \div 2, r) = 0
    BY <1>1 DEF WeightToFee, CET_BASE_WEIGHT
  <1>5. /\ m = WeightToFee((CET_BASE_WEIGHT * OfferShare(f.config)) \div 2, r)
                + OfferShare(f.config) * k
        /\ n = WeightToFee((CET_BASE_WEIGHT * AcceptShare(f.config)) \div 2, r)
                + AcceptShare(f.config) * l
    BY DEF OfferCetFee, AcceptCetFee, CetFee
  <1> HIDE DEF r, k, l, m, n
  <1>6. CASE f.config = "EvenSplit"
    <2>1. OfferShare(f.config) = 1 /\ AcceptShare(f.config) = 1
      BY <1>6 DEF OfferShare, AcceptShare
    <2>2. m = 63 * r + k /\ n = 63 * r + l
      BY <1>2, <1>4, <1>5, <2>1
    <2>3. /\ m \in Nat /\ n \in Nat /\ m + n >= 125 * r + 18 * r
          /\ m + n >= 125 * r + k + l
      BY <1>1, <1>2, <2>2 DEF r
    <2> QED BY <1>4, <2>3 DEF r, k, l, m, n
  <1>7. CASE f.config = "AllOffer"
    <2>1. OfferShare(f.config) = 2 /\ AcceptShare(f.config) = 0
      BY <1>7 DEF OfferShare, AcceptShare
    <2>2. m = 125 * r + 2 * k /\ n = 0
      BY <1>2, <1>4, <1>5, <2>1
    <2>3. /\ m \in Nat /\ n \in Nat /\ m + n >= 125 * r + 18 * r
          /\ k = l => m + n >= 125 * r + k + l
      BY <1>1, <1>2, <2>2 DEF r
    <2> QED BY <1>3, <1>4, <1>7, <2>3 DEF r, k, l, m, n
  <1>8. CASE f.config = "AllAccept"
    <2>1. OfferShare(f.config) = 0 /\ AcceptShare(f.config) = 2
      BY <1>8 DEF OfferShare, AcceptShare
    <2>2. m = 0 /\ n = 125 * r + 2 * l
      BY <1>2, <1>4, <1>5, <2>1
    <2>3. /\ m \in Nat /\ n \in Nat /\ m + n >= 125 * r + 18 * r
          /\ k = l => m + n >= 125 * r + k + l
      BY <1>1, <1>2, <2>2 DEF r
    <2> QED BY <1>3, <1>4, <1>8, <2>3 DEF r, k, l, m, n
  <1> QED BY <1>1, <1>6, <1>7, <1>8 DEF FeeConfigs

LEMMA ExtraPaid ==
    ASSUME NEW f \in FundingParams
    PROVE  /\ f.channel => /\ ExtraFee(f) >= 233 * f.rate
                           /\ ExtraFee(f) >= MIN_FEE
           /\ ~ f.channel => ExtraFee(f) = 0
  <1>1. f.rate \in Nat /\ f.channel \in BOOLEAN
    BY DEF FundingParams
  <1> DEFINE w == BUFFER_TX_WEIGHT + CET_EXTRA_WEIGHT
             r == f.rate
  <1>2. w = 929
    BY DEF BUFFER_TX_WEIGHT, CET_EXTRA_WEIGHT
  <1>3. /\ TxWeightToFee(w, r) >= WeightToFee(w, r)
        /\ TxWeightToFee(w, r) >= MIN_FEE
    <2> HIDE DEF w, r
    <2>1. w \in Nat /\ r \in Nat
      BY <1>1, <1>2 DEF r
    <2> QED BY <2>1, FeeNat
  <1>4. WeightToFee(w, r) = 233 * r
    BY <1>1, <1>2 DEF WeightToFee
  <1> QED BY <1>1, <1>3, <1>4 DEF ExtraFee, ChannelExtraFee

(* What the fund output holds besides the collaterals.                     *)
LEMMA FundSurplus ==
    ASSUME NEW f \in FundingParams, CanFund(f)
    PROVE  /\ FundOutputValue(f) = TotalCollateral(f) + OfferCetFee(f)
                                   + AcceptCetFee(f) + ExtraFee(f)
           /\ TotalCollateral(f) \in Nat
           /\ ExtraFee(f) \in Nat
  <1>1. /\ FundOutputValue(f) = TotalCollateral(f) + OfferCetFee(f)
             + AcceptCetFee(f) + OfferExtra(f) + AcceptExtra(f)
        /\ OfferExtra(f) + AcceptExtra(f) = ExtraFee(f)
    BY FundingConserved, Zenon DEF FundConserved
  <1>2. OfferCetFee(f) \in Nat /\ AcceptCetFee(f) \in Nat
    BY CetFees
  <1>3. OfferExtra(f) \in Nat /\ AcceptExtra(f) \in Nat /\ ExtraFee(f) \in Nat
    BY ExtraNat, ExtraFeeNat
  <1>4. TotalCollateral(f) \in Nat
    BY DEF FundingParams, PartyParams, TotalCollateral
  <1> QED BY <1>1, <1>2, <1>3, <1>4

Payouts(f) ==
    {payout \in [offer : Nat, accept : Nat] :
        payout.offer + payout.accept = TotalCollateral(f)}

(***************************************************************************)
(* A CET for any division of the collateral, and the buffer transaction    *)
(* before it in a channel, are paid for at the agreed rate by what the     *)
(* fund output holds, whichever payouts are discarded as dust, when the    *)
(* fees are shared evenly or the payout scripts have the same length.      *)
(***************************************************************************)
THEOREM CetFeesPaid ==
    \A f \in FundingParams : \A payout \in Payouts(f) : \A lock :
        CanFund(f) /\ ScriptsPaid(f) => CetFeePaid(Cet(payout, lock), f)
  <1> SUFFICES ASSUME NEW f \in FundingParams, NEW payout \in Payouts(f),
                      NEW lock, CanFund(f),
                      \/ f.config = "EvenSplit"
                      \/ f.offer.payout_len = f.accept.payout_len
               PROVE  CetFeePaid(Cet(payout, lock), f)
    BY DEF ScriptsPaid
  <1> DEFINE cet == Cet(payout, lock)
             r == f.rate
             t == TotalCollateral(f)
             e == ExtraFee(f)
             k == PayoutSpkFee(f.offer.payout_len, r)
             l == PayoutSpkFee(f.accept.payout_len, r)
             fees == OfferCetFee(f) + AcceptCetFee(f)
             v == 4 * (9 + f.offer.payout_len)
             w == 4 * (9 + f.accept.payout_len)
             base == CET_BASE_WEIGHT + (IF f.channel THEN 929 ELSE 0)
             a == IF cet.offer > 0 THEN v ELSE 0
             b == IF cet.accept > 0 THEN w ELSE 0
  <1>1. /\ r \in Nat /\ f.offer.payout_len \in Nat
        /\ f.accept.payout_len \in Nat /\ f.channel \in BOOLEAN
    BY DEF FundingParams, PartyParams
  <1>2. /\ v \in Nat /\ w \in Nat /\ k \in Nat /\ l \in Nat
        /\ WeightToFee(v, r) = k /\ WeightToFee(w, r) = l
    BY <1>1, OutputFee
  <1>3. /\ cet.offer \in Nat /\ cet.accept \in Nat /\ t \in Nat
        /\ cet.offer + cet.accept =< t
    <2>1. /\ payout.offer \in Nat /\ payout.accept \in Nat
          /\ payout.offer + payout.accept = t
      BY DEF Payouts
    <2>2. cet.offer = Kept(payout.offer) /\ cet.accept = Kept(payout.accept)
      BY DEF Cet
    <2> HIDE DEF cet, t
    <2> QED BY <2>1, <2>2 DEF Kept, DUST_LIMIT
  <1>4. /\ fees \in Nat /\ fees >= WeightToFee(CET_BASE_WEIGHT, r) + k + l
        /\ FundOutputValue(f) = t + fees + e /\ e \in Nat
    <2>1. OfferCetFee(f) \in Nat /\ AcceptCetFee(f) \in Nat
      BY CetFees
    <2>2. fees >= WeightToFee(CET_BASE_WEIGHT, r) + k + l
      BY CetFees
    <2> QED BY <1>3, <2>1, <2>2, FundSurplus
  <1>5. /\ WeightToFee(CET_BASE_WEIGHT, r) = 125 * r
        /\ WeightToFee(base, r) = (IF f.channel THEN 358 ELSE 125) * r
        /\ base \in Nat
    BY <1>1 DEF WeightToFee, CET_BASE_WEIGHT
  <1>6. CetPathWeight(cet, f) = base + a + b
    <2>1. /\ CetWeight(cet, f) = CET_BASE_WEIGHT
               + (IF f.channel THEN CET_EXTRA_WEIGHT ELSE 0) + a + b
          /\ a \in Nat /\ b \in Nat
      BY <1>2 DEF CetWeight
    <2> HIDE DEF a, b, cet
    <2> QED BY <1>1, <2>1 DEF CetPathWeight, CET_BASE_WEIGHT,
                              CET_EXTRA_WEIGHT, BUFFER_TX_WEIGHT
  <1>7. CetPathFee(cet, f) = FundOutputValue(f) - cet.offer - cet.accept
    BY DEF CetPathFee
  <1>8. a \in {0, v} /\ b \in {0, w}
    OBVIOUS
  <1>9. /\ f.channel => e >= 233 * r
        /\ ~ f.channel => e = 0
    BY ExtraPaid
  <1> HIDE DEF cet, r, t, e, k, l, fees, v, w, base, a, b
  <1>10. WeightToFee(0, r) = 0
    BY <1>1 DEF WeightToFee, r
  <1>11. /\ a \in Nat /\ b \in Nat
         /\ WeightToFee(a, r) \in Nat /\ WeightToFee(a, r) =< k
         /\ WeightToFee(b, r) \in Nat /\ WeightToFee(b, r) =< l
    BY <1>2, <1>8, <1>10
  <1>12. /\ WeightToFee(base + a + b, r) \in Nat
         /\ WeightToFee(base + a + b, r) =< WeightToFee(base, r) + k + l
    <2>1. base + a \in Nat /\ base + a + b \in Nat
      BY <1>5, <1>11
    <2>2. /\ WeightToFee(base + a + b, r)
               =< WeightToFee(base + a, r) + WeightToFee(b, r)
          /\ WeightToFee(base + a, r) =< WeightToFee(base, r) + WeightToFee(a, r)
      BY <1>1, <1>5, <1>11, <2>1, FeeSum
    <2>3. /\ WeightToFee(base + a + b, r) \in Nat
          /\ WeightToFee(base + a, r) \in Nat /\ WeightToFee(base, r) \in Nat
      BY <1>1, <1>5, <2>1, FeeNat
    <2> QED BY <1>2, <1>11, <2>2, <2>3
  <1>13. fees + e >= WeightToFee(base, r) + k + l
    BY <1>1, <1>2, <1>4, <1>5, <1>9
  <1>14. WeightToFee(base, r) \in Nat
    BY <1>1, <1>5, FeeNat
  <1>15. CetPathFee(cet, f) >= fees + e
    BY <1>3, <1>4, <1>7
  <1>16. CetPathFee(cet, f) \in Int
    BY <1>3, <1>4, <1>7
  <1>17. CetPathFee(cet, f) >= WeightToFee(base + a + b, r)
    BY <1>2, <1>4, <1>12, <1>13, <1>14, <1>15, <1>16
  <1> QED BY <1>6, <1>17 DEF CetFeePaid, cet, r

(***************************************************************************)
(* In a channel, for any division of the collateral of which at least one  *)
(* part is above the dust limit, what the fund output holds covers the fee *)
(* of the settle transaction, so the unsigned subtraction of               *)
(* create_settle_transaction does not wrap, and its outputs give out no    *)
(* more than the fund output less that fee.                                *)
(***************************************************************************)
THEOREM SettlementPaid ==
    \A f \in FundingParams : \A payout \in Payouts(f) :
        /\ CanFund(f) /\ f.channel
        /\ SettleOutputs(payout.offer, payout.accept) > 0
        => SettlePaid(f, payout.offer, payout.accept)
  <1> SUFFICES ASSUME NEW f \in FundingParams, NEW payout \in Payouts(f),
                      CanFund(f), f.channel,
                      SettleOutputs(payout.offer, payout.accept) > 0
               PROVE  SettlePaid(f, payout.offer, payout.accept)
    OBVIOUS
  <1> DEFINE x == payout.offer
             y == payout.accept
             r == f.rate
             t == TotalCollateral(f)
             e == ExtraFee(f)
             fees == OfferCetFee(f) + AcceptCetFee(f)
             n == SettleOutputs(x, y)
             fee == SettleFee(n, r)
             back == SettleReserve(f, x, y)
             share == back \div n
  <1>1. r \in Nat /\ x \in Nat /\ y \in Nat /\ x + y = t
    BY DEF FundingParams, Payouts
  <1>2. /\ fees \in Nat /\ fees >= 125 * r + 18 * r
        /\ FundOutputValue(f) = t + fees + e /\ e \in Nat /\ t \in Nat
    <2>1. OfferCetFee(f) \in Nat /\ AcceptCetFee(f) \in Nat
      BY CetFees
    <2>2. fees >= WeightToFee(CET_BASE_WEIGHT, r) + 18 * r
      BY CetFees
    <2>3. WeightToFee(CET_BASE_WEIGHT, r) = 125 * r
      BY <1>1 DEF WeightToFee, CET_BASE_WEIGHT
    <2> QED BY <1>1, <2>1, <2>2, <2>3, FundSurplus
  <1>3. e >= 233 * r /\ e >= MIN_FEE
    BY ExtraPaid
  <1>4. n = (IF Kept(x) > 0 THEN 1 ELSE 0) + (IF Kept(y) > 0 THEN 1 ELSE 0)
    BY DEF SettleOutputs
  <1>5. back = FundOutputValue(f) - x - y - fee
    BY DEF SettleReserve
  <1>6. /\ SettleTx(f, x, y).offer = IF Kept(x) > 0 THEN x + share ELSE 0
        /\ SettleTx(f, x, y).accept = IF Kept(y) > 0 THEN y + share ELSE 0
    BY DEF SettleTx
  <1>7. n > 0
    OBVIOUS
  <1> HIDE DEF x, y, r, t, e, fees, n
  <1>8. n \in {1, 2}
    BY <1>4, <1>7
  <1>9. fee \in Nat /\ (fee =< MIN_FEE \/ fee =< 230 * r)
    <2>1. CASE n = 1
      <3>1. WeightToFee(SETTLE_INPUT_WEIGHT + 1 * SETTLE_OUTPUT_WEIGHT + 148, r)
            = 187 * r
        BY <1>1 DEF WeightToFee, SETTLE_INPUT_WEIGHT, SETTLE_OUTPUT_WEIGHT
      <3> QED BY <1>1, <2>1, <3>1 DEF SettleFee, TxWeightToFee, MIN_FEE
    <2>2. CASE n = 2
      <3>1. WeightToFee(SETTLE_INPUT_WEIGHT + 2 * SETTLE_OUTPUT_WEIGHT + 148, r)
            = 230 * r
        BY <1>1 DEF WeightToFee, SETTLE_INPUT_WEIGHT, SETTLE_OUTPUT_WEIGHT
      <3> QED BY <1>1, <2>2, <3>1 DEF SettleFee, TxWeightToFee, MIN_FEE
    <2> QED BY <1>8, <2>1, <2>2
  <1> HIDE DEF fee, back
  <1>10. back \in Int /\ back = fees + e - fee /\ back >= 0
    <2>1. back = fees + e - fee
      BY <1>1, <1>2, <1>5, <1>9
    <2>2. e >= fee \/ fee =< MIN_FEE
      BY <1>1, <1>2, <1>3, <1>9
    <2> QED BY <1>1, <1>2, <1>3, <1>9, <2>1, <2>2 DEF MIN_FEE
  <1>11. share \in Nat /\ n * share =< back
    <2>1. CASE n = 1
      BY <1>10, <2>1
    <2>2. CASE n = 2
      BY <1>10, <2>2
    <2> QED BY <1>8, <2>1, <2>2
  <1> HIDE DEF share
  <1>12. SettleTx(f, x, y).offer + SettleTx(f, x, y).accept
         =< FundOutputValue(f) - fee
    <2>1. FundOutputValue(f) - fee = x + y + back
      BY <1>1, <1>2, <1>9, <1>10
    <2>2. CASE n = 1
      <3>1. share =< back
        BY <1>11, <2>2
      <3>2. CASE Kept(x) > 0
        <4>1. ~ (Kept(y) > 0)
          BY <1>4, <2>2, <3>2
        <4> QED BY <1>1, <1>6, <1>10, <1>11, <2>1, <3>1, <3>2, <4>1
      <3>3. CASE ~ (Kept(x) > 0)
        <4>1. Kept(y) > 0
          BY <1>4, <2>2, <3>3
        <4> QED BY <1>1, <1>6, <1>10, <1>11, <2>1, <3>1, <3>3, <4>1
      <3> QED BY <3>2, <3>3
    <2>3. CASE n = 2
      <3>1. Kept(x) > 0 /\ Kept(y) > 0
        BY <1>4, <2>3
      <3> QED BY <1>1, <1>6, <1>10, <1>11, <2>1, <2>3, <3>1
    <2> QED BY <1>8, <2>2, <2>3
  <1> QED BY <1>10, <1>12 DEF SettlePaid, back, fee, n, r, x, y
=============================================================================
