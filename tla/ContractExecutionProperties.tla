--------------------- MODULE ContractExecutionProperties ---------------------
(***************************************************************************)
(* What the parties of a contract rely on: that they compute the same      *)
(* signatures, that an outcome on which enough oracles agree closes the    *)
(* contract with a valid transaction and the payout of the curve, and that *)
(* the fees are paid.                                                      *)
(***************************************************************************)
EXTENDS ContractExecution

(* Both parties are honest here.  The offering party signs from what it    *)
(* iterates out of its tries, the accepting one from what it generated:    *)
(* when the two differ in an entry, an index or an order, a correct        *)
(* signature does not verify and the contract fails with the coins locked. *)
HonestSignaturesVerify == phase # "FailedSign"

-----------------------------------------------------------------------------
(* The value of an attestation that counts: an oracle that has more digits *)
(* than another can attest what the other cannot.                          *)

MaxValue(info) ==
    info.numeric.base ^ MinNbDigits(info.numeric.nb_digits) - 1

AtMost(value, max) == IF value > max THEN max ELSE value

Distance(a, b) == IF a > b THEN a - b ELSE b - a

LargestOf(info, oracle) ==
    info.numeric.base ^ info.numeric.nb_digits[oracle + 1] - 1

(* The oracle of a set whose value selects the CET.                        *)
MainOracle(info, oracles) ==
    LET digits(o) == info.numeric.nb_digits[o + 1]
        least == {o \in oracles : \A p \in oracles : digits(o) =< digits(p)}
    IN Min(least)

(* Enough oracles attest one value, an oracle that cannot express it its   *)
(* largest one.                                                            *)
Agreed(info, attested) ==
    IF info.kind = "Enum"
    THEN \E v \in ToSet(info.outcomes) :
            Cardinality({o \in DOMAIN attested : attested[o] = v})
                >= info.threshold
    ELSE \E v \in 0 .. Max({LargestOf(info, o) : o \in DOMAIN attested}) :
            Cardinality({o \in DOMAIN attested :
                            attested[o] = AtMost(v, LargestOf(info, o))})
                >= info.threshold

(* Enough oracles attest values that are close to that of the main one,    *)
(* which is in the range of the payout function.                           *)
CloseEnough(info, attested) ==
    \E oracles \in SUBSET DOMAIN attested :
        LET main == MainOracle(info, oracles)
        IN /\ Cardinality(oracles) = info.threshold
           /\ attested[main] =< MaxValue(info)
           /\ \A o \in oracles : Distance(attested[o], attested[main])
                                     =< 2 ^ info.diff[1].min_support_exp

(* An outcome that enough oracles attest closes the contract, for either   *)
(* party, whatever the other oracles say and also above the range of the   *)
(* oracles with the fewest digits.  When the oracles may differ, so does   *)
(* any outcome within the supported difference.  The look-up goes through  *)
(* prefixes, tries of tries and combination indexes that tests sample.     *)
AttestedCloses ==
    phase = "NotFound" =>
        LET info == terms.infos[closing.info]
        IN /\ ~Agreed(info, closing.attested)
           /\ info.kind = "Numerical" /\ info.diff # <<>> =>
                 ~CloseEnough(info, closing.attested)

(* The transaction that get_signed_cet returns is valid: the signature at  *)
(* the index that was looked up is for the CET that was looked up, and the *)
(* attested signatures that were picked open it.  The code looks up every  *)
(* contract info from the first CET on, so this is about the first info;   *)
(* see the hazards for the others.                                         *)
ClosesWithValidCet ==
    phase = "Closed" /\ closing.info = 1 => closing.valid

(* The payout of the curve at an outcome, rounded, for some outcome of the *)
(* piece with the same value: a constant piece keeps the rounding of its   *)
(* first outcome.                                                          *)
CurvePayouts(info, value) ==
    UNION {LET piece == info.pieces[i]
               span == FirstPoint(piece).outcome .. LastPoint(piece).outcome
           IN IF value \notin span THEN {}
              ELSE {Round(info.intervals, w, Evaluate(piece, w)) :
                       w \in {u \in span : Evaluate(piece, u).num
                                           * Evaluate(piece, value).den
                                         = Evaluate(piece, value).num
                                           * Evaluate(piece, u).den}} :
              i \in DOMAIN info.pieces}

(* The CET that closes the contract pays what the payout function says of  *)
(* the attested value, to each party, but for an output below the dust     *)
(* limit: the ranges, the prefixes of the ranges and the CET indexes fit.  *)
PaysCurve ==
    phase = "Closed" /\ closing.info = 1 =>
        LET info == terms.infos[1]
            main == MainOracle(info, closing.oracles)
            value == closing.attested[main]
        IN IF info.kind = "Enum"
           THEN LET o == CHOOSE o \in closing.oracles : TRUE
                    i == SelectInSeq(info.outcomes,
                             LAMBDA v : v = closing.attested[o])
                IN closing.cet = Cet(info.payouts[i], "cet")
           ELSE \E p \in CurvePayouts(info, AtMost(value, MaxValue(info))) :
                   LET paid == AtMost(p, Collateral)
                   IN closing.cet = Cet([offer |-> paid,
                                         accept |-> Collateral - paid], "cet")

(* The contract closes only on values that are together: the same value    *)
(* from all the oracles whose signatures are used, or, when they may       *)
(* differ, values that are within the maximum error of each other's main   *)
(* one.  Values above the range of the oracles with the fewest digits      *)
(* count as the largest one in it.                                         *)
ClosesWithinError ==
    phase = "Closed" =>
        LET info == terms.infos[closing.info]
            main == MainOracle(info, closing.oracles)
            Counted(o) == AtMost(closing.attested[o], MaxValue(info))
        IN /\ Cardinality(closing.oracles) = info.threshold
           /\ info.kind = "Enum" =>
                 \A o, p \in closing.oracles :
                     closing.attested[o] = closing.attested[p]
           /\ info.kind = "Numerical" /\ info.diff = <<>> =>
                 \A o \in closing.oracles : Counted(o) = Counted(main)
           /\ info.kind = "Numerical" /\ info.diff # <<>> =>
                 \A o \in closing.oracles : Distance(Counted(o), Counted(main))
                                       =< 2 ^ info.diff[1].max_error_exp

-----------------------------------------------------------------------------
(* The fund transaction and the settle transactions of an accepted         *)
(* contract pay the fee of their weight from what the parties put in, with *)
(* three ways to share the fees, a party without inputs, change that is    *)
(* dust, inputs that are just enough and a channel's extra fee that is     *)
(* odd; so do the CETs and the refund transaction where both payout        *)
(* scripts are paid for.  No assertion fails and no unsigned subtraction   *)
(* wraps.                                                                  *)
FeesCovered ==
    phase \notin {"Offered", "FailedAccept"} =>
        /\ FundConserved(funding)
        /\ FundFeePaid(funding)
        /\ ScriptsPaid(funding) =>
              \A cet \in ToSet(txs.cets) \cup {Refund(funding)} :
                  CetFeePaid(cet, funding)
        /\ \A p \in ToSet(txs.settle) :
              SettlePaid(funding, Collateral - p, p)
=============================================================================
