--------------------------- MODULE DlcTransactions ---------------------------
(***************************************************************************)
(* The values of the transactions of a contract and of a channel, from     *)
(* dlc/src/lib.rs, dlc/src/util.rs and dlc/src/channel/mod.rs: who pays    *)
(* which fee, what is locked in the fund output, and what is left for each *)
(* transaction that spends it.                                             *)
(*                                                                         *)
(* The parameters of a party are                                           *)
(*   [input_amount, collateral, inputs_weight, change_len, payout_len]     *)
(* where inputs_weight is the weight of all its inputs and the last two    *)
(* are the lengths of its scripts.  A share is the part of the common fees *)
(* that a party pays, in halves.                                           *)
(***************************************************************************)
EXTENDS Integers, Sequences

DUST_LIMIT == 1000
MIN_FEE == 153
FUND_TX_BASE_WEIGHT == 214
CET_BASE_WEIGHT == 500
BUFFER_TX_WEIGHT == 599
CET_EXTRA_WEIGHT == 330
SETTLE_INPUT_WEIGHT == 428
SETTLE_OUTPUT_WEIGHT == 172

FeeConfigs == {"EvenSplit", "AllOffer", "AllAccept"}

(* input_amount is the sum of the inputs (get_party_params and             *)
(* get_tx_input_infos): without inputs there is none.                      *)
PartyParams ==
    {p \in [input_amount : Nat, collateral : Nat, inputs_weight : Nat,
            change_len : Nat, payout_len : Nat] :
        p.inputs_weight = 0 => p.input_amount = 0}

-----------------------------------------------------------------------------
(* util.rs                                                                 *)

WeightToFee(weight, rate) == ((weight + 3) \div 4) * rate

TxWeightToFee(weight, rate) ==
    IF WeightToFee(weight, rate) > MIN_FEE THEN WeightToFee(weight, rate)
    ELSE MIN_FEE

ChannelExtraFee(rate) ==
    TxWeightToFee(BUFFER_TX_WEIGHT + CET_EXTRA_WEIGHT, rate)

PayoutSpkFee(len, rate) == (9 + len) * rate

(* discard_dust, for one output.                                           *)
Kept(value) == IF value >= DUST_LIMIT THEN value ELSE 0

-----------------------------------------------------------------------------
(* get_change_output_and_fees                                              *)

OfferShare(config) ==
    CASE config = "AllOffer" -> 2
      [] config = "EvenSplit" -> 1
      [] config = "AllAccept" -> 0

AcceptShare(config) == 2 - OfferShare(config)

FundFeeWithoutChange(p, share, rate) ==
    IF p.inputs_weight = 0 THEN 0
    ELSE TxWeightToFee((FUND_TX_BASE_WEIGHT * share) \div 2 + p.inputs_weight,
                       rate)

CetFee(p, share, rate) ==
    WeightToFee((CET_BASE_WEIGHT * share) \div 2, rate)
    + share * PayoutSpkFee(p.payout_len, rate)

Leftover(p, share, rate, extra) ==
    p.input_amount - (p.collateral + FundFeeWithoutChange(p, share, rate)
                      + CetFee(p, share, rate) + extra)

ChangeFee(p, share, rate, extra) ==
    IF Leftover(p, share, rate, extra) = 0 THEN 0
    ELSE WeightToFee(36 + 4 * p.change_len, rate)

ChangeAmount(p, share, rate, extra) ==
    Leftover(p, share, rate, extra) - ChangeFee(p, share, rate, extra)

(* The two errors: the inputs are too small, or what is left of them is    *)
(* less than what the change output costs.                                 *)
CanPay(p, share, rate, extra) ==
    Leftover(p, share, rate, extra) >= 0 /\ ChangeAmount(p, share, rate, extra) >= 0

FundFee(p, share, rate, extra) ==
    FundFeeWithoutChange(p, share, rate) + ChangeFee(p, share, rate, extra)

-----------------------------------------------------------------------------
(* create_fund_transaction_with_fees.  A funding is                        *)
(* [offer, accept, rate, config, channel].                                 *)

ExtraFee(f) == IF f.channel THEN ChannelExtraFee(f.rate) ELSE 0

(* Mutant: the remainder of the division is paid by nobody.                *)
M_OfferExtra(f) ==
    CASE f.config = "EvenSplit" -> ExtraFee(f) \div 2
      [] f.config = "AllOffer" -> ExtraFee(f)
      [] f.config = "AllAccept" -> 0

OfferExtra(f) ==
    CASE f.config = "EvenSplit" -> (ExtraFee(f) \div 2) + (ExtraFee(f) % 2)
      [] f.config = "AllOffer" -> ExtraFee(f)
      [] f.config = "AllAccept" -> 0

AcceptExtra(f) ==
    CASE f.config = "EvenSplit" -> ExtraFee(f) \div 2
      [] f.config = "AllOffer" -> 0
      [] f.config = "AllAccept" -> ExtraFee(f)

TotalCollateral(f) == f.offer.collateral + f.accept.collateral

OfferChange(f) ==
    ChangeAmount(f.offer, OfferShare(f.config), f.rate, OfferExtra(f))
AcceptChange(f) ==
    ChangeAmount(f.accept, AcceptShare(f.config), f.rate, AcceptExtra(f))
OfferFundFee(f) ==
    FundFee(f.offer, OfferShare(f.config), f.rate, OfferExtra(f))
AcceptFundFee(f) ==
    FundFee(f.accept, AcceptShare(f.config), f.rate, AcceptExtra(f))
OfferCetFee(f) == CetFee(f.offer, OfferShare(f.config), f.rate)
AcceptCetFee(f) == CetFee(f.accept, AcceptShare(f.config), f.rate)

CanFund(f) ==
    /\ CanPay(f.offer, OfferShare(f.config), f.rate, OfferExtra(f))
    /\ CanPay(f.accept, AcceptShare(f.config), f.rate, AcceptExtra(f))

FundOutputValue(f) ==
    f.offer.input_amount + f.accept.input_amount
    - OfferChange(f) - AcceptChange(f) - OfferFundFee(f) - AcceptFundFee(f)

(* What the outputs of the fund transaction leave for its fee: a change    *)
(* that is dust has no output.                                             *)
FundTxFee(f) ==
    f.offer.input_amount + f.accept.input_amount - FundOutputValue(f)
    - Kept(OfferChange(f)) - Kept(AcceptChange(f))

FundTxWeight(f) ==
    FUND_TX_BASE_WEIGHT + f.offer.inputs_weight + f.accept.inputs_weight
    + (IF OfferChange(f) >= DUST_LIMIT THEN 36 + 4 * f.offer.change_len ELSE 0)
    + (IF AcceptChange(f) >= DUST_LIMIT THEN 36 + 4 * f.accept.change_len
       ELSE 0)

-----------------------------------------------------------------------------
(* create_channel_transactions, create_renewal_channel_transactions and    *)
(* create_cets_and_refund_tx                                               *)

CanBuffer(f) == f.channel => FundOutputValue(f) > ExtraFee(f) + DUST_LIMIT

BufferValue(f) == FundOutputValue(f) - ExtraFee(f)

(* has_proper_outcomes.                                                    *)
Proper(payouts, f) ==
    \A i \in DOMAIN payouts :
        payouts[i].offer + payouts[i].accept = TotalCollateral(f)

(* create_cet; lock is the lock time.                                      *)
Cet(payout, lock) ==
    [offer |-> Kept(payout.offer), accept |-> Kept(payout.accept),
     lock |-> lock]

Refund(f) ==
    Cet([offer |-> f.offer.collateral, accept |-> f.accept.collateral],
        "refund")

(* A fund output that is dust is discarded with the dust of the change,    *)
(* and the search for it in the fund transaction panics.                   *)
FundOutputKept(f) == FundOutputValue(f) >= DUST_LIMIT

CanCreate(f, payouts) ==
    CanFund(f) /\ FundOutputKept(f) /\ CanBuffer(f) /\ Proper(payouts, f)

CetWeight(cet, f) ==
    CET_BASE_WEIGHT + (IF f.channel THEN CET_EXTRA_WEIGHT ELSE 0)
    + (IF cet.offer > 0 THEN 4 * (9 + f.offer.payout_len) ELSE 0)
    + (IF cet.accept > 0 THEN 4 * (9 + f.accept.payout_len) ELSE 0)

(* What is paid for the CET and the buffer transaction before it.          *)
CetPathFee(cet, f) == FundOutputValue(f) - cet.offer - cet.accept

CetPathWeight(cet, f) ==
    CetWeight(cet, f) + (IF f.channel THEN BUFFER_TX_WEIGHT ELSE 0)

-----------------------------------------------------------------------------
(* create_settle_transaction                                               *)

SettleOutputs(offer, accept) ==
    (IF Kept(offer) > 0 THEN 1 ELSE 0) + (IF Kept(accept) > 0 THEN 1 ELSE 0)

SettleFee(outputs, rate) ==
    TxWeightToFee(SETTLE_INPUT_WEIGHT + outputs * SETTLE_OUTPUT_WEIGHT + 148,
                  rate)

(* The subtraction of the code is one of unsigned integers, and the        *)
(* division is by the number of the outputs.                               *)
SettleReserve(f, offer, accept) ==
    FundOutputValue(f) - offer - accept
    - SettleFee(SettleOutputs(offer, accept), f.rate)

SettleTx(f, offer, accept) ==
    LET back == SettleReserve(f, offer, accept) \div SettleOutputs(offer, accept)
    IN [offer |-> IF Kept(offer) > 0 THEN offer + back ELSE 0,
        accept |-> IF Kept(accept) > 0 THEN accept + back ELSE 0]

-----------------------------------------------------------------------------
(* The fees of a funding that was accepted.                                *)

(* The two assertions of create_fund_transaction_with_fees.                *)
FundConserved(f) ==
    /\ FundOutputValue(f) = TotalCollateral(f) + OfferCetFee(f)
          + AcceptCetFee(f) + OfferExtra(f) + AcceptExtra(f)
    /\ OfferChange(f) >= 0 /\ AcceptChange(f) >= 0
    /\ OfferExtra(f) + AcceptExtra(f) = ExtraFee(f)

(* The fund transaction pays for its weight.  A party without inputs pays  *)
(* nothing of it, but then it cannot have a share of the fees.             *)
FundFeePaid(f) == FundTxFee(f) >= WeightToFee(FundTxWeight(f), f.rate)

(* With AllOffer and AllAccept one party pays twice for its own payout     *)
(* script, and nobody for the other one where that is longer.              *)
ScriptsPaid(f) ==
    f.config = "EvenSplit" \/ f.offer.payout_len = f.accept.payout_len

(* The CET, together with the buffer transaction of a channel, pays for    *)
(* its weight.                                                             *)
CetFeePaid(cet, f) ==
    CetPathFee(cet, f) >= WeightToFee(CetPathWeight(cet, f), f.rate)

(* The settle transaction can be paid from the fund output, for any        *)
(* division of the collateral, and gives out no more than is there.        *)
SettlePaid(f, offered, accepted) ==
    /\ SettleReserve(f, offered, accepted) >= 0
    /\ SettleTx(f, offered, accepted).offer
       + SettleTx(f, offered, accepted).accept
          =< FundOutputValue(f)
             - SettleFee(SettleOutputs(offered, accepted), f.rate)
=============================================================================
