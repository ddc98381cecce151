-------------------------- MODULE ContractExecution --------------------------
(***************************************************************************)
(* One contract from its offer to the CET that closes it, seen from the    *)
(* data: the ranges of outcomes and their payouts (PayoutCurve), the       *)
(* transactions and their fees (DlcTransactions), the adaptor signatures   *)
(* that the two parties exchange and look up (AdaptorTries), and the       *)
(* attestations of the oracles.  DlcContract and DlcChannel are about the  *)
(* messages and the chain; there a contract is one value.                  *)
(*                                                                         *)
(* Keys and messages are left out: an adaptor signature is the CET and the *)
(* adaptor point it was made for, a point the set of the oracle signatures *)
(* whose secrets open it, <<oracle, position, digit or outcome>>.          *)
(***************************************************************************)
EXTENDS AdaptorTries, PayoutCurve, DlcTransactions

CONSTANTS
    Cases,         \* the contracts: [infos, funding]
    SettlePayouts  \* what the accepting party of a channel is offered to settle

(* A contract info is                                                      *)
(*   [kind |-> "Enum", outcomes, payouts, nb_oracles, threshold], or       *)
(*   [kind |-> "Numerical", numeric, pieces, intervals, diff, threshold]   *)
(* with diff a sequence, empty for None.                                   *)

VARIABLES
    terms,    \* the case
    phase,    \* how far the contract has come
    txs,      \* the transactions, the same for both parties
    offer,    \* what the offering party has: its adaptor infos and the
    accept,   \*   signatures of the other party
    closing   \* how it was closed

vars == <<terms, phase, txs, offer, accept, closing>>

Parties == {"offer", "accept"}

Nothing == [infos |-> <<>>, sigs |-> <<>>]
NotClosed == [by |-> "nobody"]

funding == terms.funding
Collateral == TotalCollateral(funding)

-----------------------------------------------------------------------------
(* The contract descriptors                                                *)

NbOracles(info) ==
    IF info.kind = "Enum" THEN info.nb_oracles ELSE Len(info.numeric.nb_digits)

RangePayouts(info) ==
    ToRangePayouts(info.pieces, info.intervals, Collateral)

(* ContractInfo::get_payouts.                                              *)
PayoutsIn(ranges) == [i \in DOMAIN ranges |-> ranges[i].payout]

PayoutsOf(info) ==
    IF info.kind = "Enum" THEN info.payouts ELSE PayoutsIn(RangePayouts(info))

(* The checks of the constructors of the tries.                            *)
ValidTrie(info) ==
    /\ NbOracles(info) >= 1
    /\ info.diff # <<>> =>
          /\ info.threshold =< NbOracles(info)
          /\ info.diff[1].min_support_exp < info.diff[1].max_error_exp

(* DigitTrie::insert panics on an empty path: the only prefix of a payout  *)
(* that is the same for all the outcomes is empty.                         *)
NoEmptyPath(info) ==
    LET prefixes == OutcomePrefixes(info.numeric, RangePayouts(info))
    IN \A i \in DOMAIN prefixes : prefixes[i].path # <<>>

(* ContractInfo::validate, the errors of get_payouts, and those of making  *)
(* the adaptor info.                                                       *)
ValidInfo(info) ==
    \/ /\ info.kind = "Enum"
       /\ Cardinality(ToSet(info.outcomes)) = Len(info.outcomes)
    \/ /\ info.kind = "Numerical"
       /\ ValidIntervals(info.intervals)
       /\ ValidFunction(info.pieces,
              info.numeric.base ^ MinNbDigits(info.numeric.nb_digits) - 1)
       /\ RangePayouts(info) # <<>>
       /\ ValidTrie(info)
       /\ NoEmptyPath(info)

(* EnumDescriptor::iter_outcomes.                                          *)
EnumInfos(info) ==
    LET all == Combinations(info.nb_oracles, info.threshold)
    IN FlattenSeq([c \in DOMAIN info.outcomes |->
           [i \in DOMAIN all |->
               Entry(c - 1, all[i],
                     [j \in DOMAIN all[i] |-> <<info.outcomes[c]>>])]])

(* The adaptor info of a contract info: the entries in the order of their  *)
(* indexes, and the trie.                                                  *)
AdaptorInfo(info, start) ==
    CASE info.kind = "Enum" ->
            [infos |-> Numbered(EnumInfos(info), start), trie |-> NoNode]
      [] info.kind = "Numerical" /\ info.diff = <<>> ->
            GenerateAgree(info.numeric, info.threshold, RangePayouts(info),
                          start)
      [] OTHER ->
            GenerateDiff(info.numeric, info.threshold, info.diff[1],
                         RangePayouts(info), start)

(* What an iteration over a stored adaptor info gives.  The enumeration is *)
(* iterated as it was generated, its indexes counted from start.           *)
Iterated(info, trie, start) ==
    CASE info.kind = "Enum" -> Numbered(EnumInfos(info), start)
      [] info.kind = "Numerical" /\ info.diff = <<>> ->
            IterAgree(trie, info.numeric, info.threshold)
      [] OTHER -> MultiInfos(trie, info.threshold)

-----------------------------------------------------------------------------
(* Signatures                                                              *)

(* get_adaptor_point_for_indexed_paths, get_adaptor_point_from_oracle_info.*)
Point(indexes, paths) ==
    UNION {{<<indexes[i], k, paths[i][k]>> : k \in DOMAIN paths[i]} :
              i \in DOMAIN indexes}

Signature(x, cets) ==
    [cet |-> cets[x.value.cet_index + 1], point |-> Point(x.indexes, x.paths)]

(* Mutant: the signatures are left in the order of the iteration.          *)
M_SignHelper(infos, cets) ==
    [i \in DOMAIN infos |-> Signature(infos[i], cets)]

(* sign_helper: sorted by adaptor index.                                   *)
SignHelper(infos, cets) ==
    LET sorted == SortSeq(infos, LAMBDA x, y :
                      x.value.adaptor_index < y.value.adaptor_index)
    IN [i \in DOMAIN sorted |-> Signature(sorted[i], cets)]

(* verify_helper; an index that is out of bounds panics.                   *)
VerifyHelper(infos, cets, sigs) ==
    \A i \in DOMAIN infos :
        LET x == infos[i]
        IN /\ x.value.adaptor_index + 1 \in DOMAIN sigs
           /\ x.value.cet_index + 1 \in DOMAIN cets
           /\ sigs[x.value.adaptor_index + 1] = Signature(x, cets)

NextIndex(infos) ==
    1 + Max({infos[i].value.adaptor_index : i \in DOMAIN infos})

(* The CETs of one contract info; those of the first have the lock time of *)
(* the contract, those of the others have none.                            *)
CetsFor(payouts, lock) == [i \in DOMAIN payouts |-> Cet(payouts[i], lock)]

CetsOf(info, lock) == CetsFor(PayoutsOf(info), lock)

LockOf(i) == IF i = 1 THEN "cet" ELSE "none"

-----------------------------------------------------------------------------
Init ==
    /\ terms \in Cases
    /\ phase = "Offered"
    /\ txs = [cets |-> <<>>, settle |-> <<>>]
    /\ offer = Nothing
    /\ accept = Nothing
    /\ closing = NotClosed

(* accept_contract_internal: the adaptor infos and signatures of one       *)
(* contract info after the other, the signatures counted through.          *)
AddAccepted(done, cets, new) ==
    [cets |-> done.cets \o cets,
     infos |-> Append(done.infos, new.trie),
     sigs |-> done.sigs \o SignHelper(new.infos, cets)]

AcceptInfo(done, i) ==
    AddAccepted(done, CetsOf(terms.infos[i], LockOf(i)),
                AdaptorInfo(terms.infos[i], Len(done.sigs)))

AcceptAll ==
    FoldLeft(LAMBDA d, i : AcceptInfo(d, i),
             [cets |-> <<>>, infos |-> <<>>, sigs |-> <<>>],
             [i \in DOMAIN terms.infos |-> i])

Acceptable ==
    /\ \A i \in DOMAIN terms.infos : ValidInfo(terms.infos[i])
    /\ CanCreate(funding, PayoutsOf(terms.infos[1]))

(* accept_contract: the transactions are made, and signed.                 *)
Accept ==
    /\ phase = "Offered"
    /\ Acceptable
    /\ phase' = "Accepted"
    /\ \E all \in {AcceptAll} :
          /\ txs' = [txs EXCEPT !.cets = all.cets]
          /\ accept' = [infos |-> all.infos, sigs |-> <<>>]
          /\ offer' = [infos |-> <<>>, sigs |-> all.sigs]
    /\ UNCHANGED <<terms, closing>>

(* The offer is invalid, panics in a trie, or cannot be funded.            *)
AcceptFails ==
    /\ phase = "Offered"
    /\ ~Acceptable
    /\ phase' = "FailedAccept"
    /\ UNCHANGED <<terms, txs, offer, accept, closing>>

(* verify_accepted_and_sign_contract_internal: the infos are generated and *)
(* the signatures verified, each info with its own CETs.                   *)
AddVerified(done, cets, new) ==
    [cets |-> done.cets \o cets,
     infos |-> Append(done.infos, new.trie),
     next |-> NextIndex(new.infos),
     ok |-> done.ok /\ VerifyHelper(new.infos, cets, offer.sigs)]

VerifyInfo(done, i) ==
    AddVerified(done, CetsOf(terms.infos[i], LockOf(i)),
                AdaptorInfo(terms.infos[i], done.next))

VerifyAll ==
    FoldLeft(LAMBDA d, i : VerifyInfo(d, i),
             [cets |-> <<>>, infos |-> <<>>, next |-> 0, ok |-> TRUE],
             [i \in DOMAIN terms.infos |-> i])

(* The own signatures, from the adaptor infos and all the CETs.            *)
OwnSignatures(infos, cets) ==
    FlattenSeq([i \in DOMAIN terms.infos |->
        SignHelper(Iterated(terms.infos[i], infos[i], 0), cets)])

Sign ==
    /\ phase = "Accepted"
    /\ \E all \in {VerifyAll} :
          /\ phase' = IF all.ok THEN "Signed" ELSE "FailedSign"
          /\ offer' = [offer EXCEPT !.infos = all.infos]
          /\ accept' = IF all.ok
                       THEN [accept EXCEPT
                                !.sigs = OwnSignatures(all.infos, all.cets)]
                       ELSE accept
    /\ UNCHANGED <<terms, txs, closing>>

(* verify_signed_contract_internal: every info with all the CETs.          *)
AddChecked(done, infos) ==
    [next |-> NextIndex(infos),
     ok |-> done.ok /\ VerifyHelper(infos, txs.cets, accept.sigs)]

CheckInfo(done, i) ==
    AddChecked(done, Iterated(terms.infos[i], accept.infos[i], done.next))

OnSign ==
    LET all == FoldLeft(LAMBDA d, i : CheckInfo(d, i),
                        [next |-> 0, ok |-> TRUE],
                        [i \in DOMAIN terms.infos |-> i])
    IN /\ phase = "Signed"
       /\ phase' = IF all.ok THEN "Confirmed" ELSE "FailedSign"
       /\ UNCHANGED <<terms, txs, offer, accept, closing>>

-----------------------------------------------------------------------------
(* Closing                                                                 *)

(* The attestations for an info: what some of its oracles attest, each a   *)
(* value that its announcement allows, in the order of the oracles.        *)
Attestable(info, oracle) ==
    IF info.kind = "Enum" THEN ToSet(info.outcomes)
    ELSE 0 .. info.numeric.base ^ info.numeric.nb_digits[oracle + 1] - 1

AttestationsOf(info) ==
    LET Of(oracles) == {a \in [oracles -> UNION {Attestable(info, o) :
                                                    o \in oracles}] :
                           \A o \in oracles : a[o] \in Attestable(info, o)}
    IN UNION {Of(oracles) : oracles \in
                 {s \in SUBSET (0 .. NbOracles(info) - 1) :
                     Cardinality(s) >= info.threshold}}

(* The outcomes of an attestation: the digits, or the one outcome.         *)
OutcomesOf(info, oracle, value) ==
    IF info.kind = "Enum" THEN <<value>>
    ELSE DecomposeValue(value, info.numeric.base,
                        info.numeric.nb_digits[oracle + 1])

OutcomePaths(info, attested) ==
    LET oracles == SetToSortSeq(DOMAIN attested, <)
    IN [i \in DOMAIN oracles |->
           <<oracles[i], OutcomesOf(info, oracles[i], attested[oracles[i]])>>]

(* EnumDescriptor::get_range_info_for_outcome: the outcome that most of    *)
(* the oracles attested, one of those when there are several.              *)
EnumLookUp(info, paths, start) ==
    LET all == AgreeingOracles(paths, 1)
        most == {x \in all : \A y \in all : Len(y.oracles) =< Len(x.oracles)}
        position(x) == SelectInSeq(info.outcomes,
                                   LAMBDA o : o = x.path[1]) - 1
        count == Len(Combinations(info.nb_oracles, info.threshold))
        Answer(x) ==
            LET oracles == Take(x.oracles, info.threshold)
                comb == CombinationIndex(oracles, info.nb_oracles) - 1
            IN [value |-> RangeInfo(position(x),
                                    count * position(x) + comb + start),
                path |-> [i \in DOMAIN oracles |-> <<oracles[i], x.path>>]]
    IN {Answer(x) : x \in {y \in most : Len(y.oracles) >= info.threshold}}

(* get_range_info_for_outcome: the answers it can give.                    *)
RangeInfos(info, trie, paths) ==
    CASE info.kind = "Enum" -> EnumLookUp(info, paths, 0)
      [] info.kind = "Numerical" /\ info.diff = <<>> ->
            LookUpAgree(trie, info.numeric, info.threshold, paths)
      [] OTHER -> ToSet(LookUpMulti(trie, paths, info.threshold))

(* Mutant: all the signatures of an attestation are used.                  *)
M_OracleSigs(paths, found) ==
    UNION {{<<p[1], k, p[2][k]>> : k \in DOMAIN p[2]} :
              p \in {q \in ToSet(paths) :
                        \E r \in ToSet(found.path) : r[1] = q[1]}}

(* get_range_info_and_oracle_sigs: of the attestations of the oracles that *)
(* were found, as many signatures as the path has digits.                  *)
OracleSigs(paths, found) ==
    UNION {{<<p[1], k, p[2][k]>> :
               k \in 1 .. Len(SelectSeq(found.path,
                                        LAMBDA q : q[1] = p[1])[1][2])} :
              p \in {q \in ToSet(paths) :
                        \E r \in ToSet(found.path) : r[1] = q[1]}}

Closed(by, i, attested, found, cet, valid) ==
    [by |-> by, info |-> i, attested |-> attested,
     oracles |-> {found.path[j][1] : j \in DOMAIN found.path},
     cet |-> cet, valid |-> valid]

(* get_signed_cet by a party, with the adaptor signature of the other.  It *)
(* is valid when the oracle signatures open it and it was made for the     *)
(* transaction.                                                            *)
Close(by) ==
    LET own == IF by = "offer" THEN offer ELSE accept
    IN /\ phase = "Confirmed"
       /\ \E i \in DOMAIN terms.infos :
          \E attested \in AttestationsOf(terms.infos[i]) :
             LET paths == OutcomePaths(terms.infos[i], attested)
             IN \E found \in RangeInfos(terms.infos[i], own.infos[i], paths) :
                  LET cet == txs.cets[found.value.cet_index + 1]
                      sig == own.sigs[found.value.adaptor_index + 1]
                  IN closing' = Closed(by, i, attested, found, cet,
                                 /\ sig.cet = cet
                                 /\ sig.point = OracleSigs(paths, found))
       /\ phase' = "Closed"
       /\ UNCHANGED <<terms, txs, offer, accept>>

(* No closing info for the outcomes: the contract stays as it is.          *)
CloseFails(by) ==
    LET own == IF by = "offer" THEN offer ELSE accept
    IN /\ phase = "Confirmed"
       /\ \E i \in DOMAIN terms.infos :
          \E attested \in AttestationsOf(terms.infos[i]) :
             /\ RangeInfos(terms.infos[i], own.infos[i],
                           OutcomePaths(terms.infos[i], attested)) = {}
             /\ closing' = [by |-> by, info |-> i, attested |-> attested]
       /\ phase' = "NotFound"
       /\ UNCHANGED <<terms, txs, offer, accept>>

(* get_settle_tx_and_adaptor_sig for a channel, payout to the accept side. *)
(* With no output above the dust limit the code divides by zero.           *)
Settle(payout) ==
    /\ phase = "Confirmed"
    /\ funding.channel
    /\ payout =< Collateral
    /\ SettleOutputs(Collateral - payout, payout) > 0
    /\ phase' = "Settled"
    /\ txs' = [txs EXCEPT !.settle = <<payout>>]
    /\ UNCHANGED <<terms, offer, accept, closing>>

Next ==
    \/ Accept
    \/ AcceptFails
    \/ Sign
    \/ OnSign
    \/ \E by \in Parties : Close(by) \/ CloseFails(by)
    \/ \E payout \in SettlePayouts : Settle(payout)

Spec == Init /\ [][Next]_vars
=============================================================================
