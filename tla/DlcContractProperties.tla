------------------------ MODULE DlcContractProperties ------------------------
(***************************************************************************)
(* What the setup of contracts and channels, and the closing of contracts, *)
(* promise.                                                                *)
(***************************************************************************)
EXTENDS DlcContract

(* Every variable of DlcContract has its type.                             *)
TypeOK ==
    /\ store \in [Party -> [Deals -> Record]]
    /\ reserved \in [Party -> SUBSET Coins]
    /\ watched \in [Party -> SUBSET ChannelDeals]
    /\ stored \in [Party -> SUBSET ChannelDeals]
    /\ net \in [Party -> Seq(Message)]
    /\ fund \in [Deals -> {"None", "Pool", "Mined"}]
    /\ pool \in [Party -> [Deals -> Spending \cup {"None"}]]
    /\ spent \in [Deals -> Spending \cup {"None"}]
    /\ descriptor \in [ContractDeals -> Descriptors]
    /\ attested \in [Oracles -> Outcomes \cup {"None"}]
    /\ now \in 0 .. MaxTime
    /\ torn \subseteq ChannelDeals
    /\ troubles \in 0 .. MaxTroubles

(* Coins are in the funding output only while both parties have stored the *)
(* signatures that get them out again, whatever was lost, did not verify   *)
(* or stopped in between: on_accept_message and on_accept_channel store    *)
(* before Sign is sent, on_sign_message before the broadcast.  Only        *)
(* on_sign_channel broadcasts first (torn).  The buffer transaction of a   *)
(* funded channel is watched by both parties, also after a restart: the    *)
(* party that offered has persisted its monitor before Sign is sent.       *)
FundSafe ==
    \A d \in Deals : fund[d] # "None" =>
        \A p \in Party :
            \/ /\ store[p][d].contract \in Held
               /\ d \in ChannelDeals => d \in watched[p]
            \/ d \in torn /\ ~store[p][d].offer

(* Two contracts that have been signed, or accepted, are never funded with *)
(* the same coin, also when an offer was rejected and its coin released    *)
(* (get_utxos_for_amount, on_reject).                                      *)
CoinsOnce ==
    \A p \in Party : \A d, e \in Deals :
        /\ store[p][d].contract \in Held \cup {"Accepted"}
        /\ store[p][e].contract \in Held \cup {"Accepted"}
        /\ d # e
        => store[p][d].coin # store[p][e].coin

(* What was ever published or recorded of a deal.                          *)
Published(d) ==
    {spent[d]} \cup {pool[p][d] : p \in Party}
    \cup {store[p][d].cet : p \in Party}

(* A CET that a party published or recorded is one that Threshold oracles  *)
(* attested, whichever attestations it had got by then: all of them its    *)
(* outcome, or where oracles may differ one of them, and the others what   *)
(* this outcome has a cover for (get_range_info_for_outcome).              *)
Supported(d, x) ==
    \E c \in SUBSET Oracles :
        /\ Cardinality(c) >= Threshold
        /\ IF descriptor[d] = "Difference"
           THEN \E m \in c : /\ attested[m] = x
                             /\ {attested[i] : i \in c \ {m}} \in Cover[x]
           ELSE \A i \in c : attested[i] = x

CetSupported ==
    \A d \in ContractDeals : \A x \in Published(d) \cap Outcomes : Supported(d, x)

(* The outcomes that may be attested along with the one of a CET.          *)
Close(d, x) ==
    IF descriptor[d] = "Difference" THEN {x} \cup UNION Cover[x] ELSE {x}

(* The two parties ask the oracles at different times and get different    *)
(* attestations.  As long as the threshold is a majority, all CETs that    *)
(* were ever published or recorded are for one outcome; where oracles may  *)
(* differ MultiTrie::look_up takes the first combination it finds, and     *)
(* the parties can publish CETs of two outcomes, but of no two that have   *)
(* no outcome close to both.                                               *)
OneCet ==
    2 * Threshold > NbOracles =>
        \A d \in ContractDeals : \A x, y \in Published(d) \cap Outcomes :
            Close(d, x) \cap Close(d, y) # {}

(* Enough oracles attested, and there is no CET for what they attested.    *)
Disagreement(d) ==
    /\ Cardinality(Attested) >= Threshold
    /\ LookUp(d, Attested) = {}

(* Coins in the funding output of a contract are paid out, by a CET or by  *)
(* the refund, even if the peer is gone, messages were lost and oracles    *)
(* are silent; unless the oracles disagree, where check_confirmed_contract *)
(* returns the error and never gets to check_refund.  Attestations that    *)
(* were numbered before an earlier announcement matured                    *)
(* (get_closable_contract_info) give an invalid CET, and only delay it.    *)
CoinsReturned ==
    \A d \in ContractDeals :
        fund[d] # "None" ~> (spent[d] # "None" \/ Disagreement(d))

(* The funding output was spent by another transaction than the one the    *)
(* attestations now lead to: the refund, or where oracles may differ the   *)
(* CET of another combination.  close_contract fails from then on.         *)
Overtaken(d) ==
    /\ spent[d] # "None"
    /\ \A t \in LookUp(d, Attested) : t.cet # spent[d]

(* A party that has confirmed a funded contract comes to record that it    *)
(* ended, unless the other party got another transaction through.  It may  *)
(* record its refund where the CET of the other party was mined:           *)
(* check_refund does not wait for a confirmation.                          *)
Waits(p, d) ==
    /\ fund[d] # "None" /\ store[p][d].contract = "Confirmed"
    /\ ~Overtaken(d) /\ ~Disagreement(d)

OutcomeRecorded ==
    \A d \in ContractDeals :
        (\E p \in Party : Waits(p, d)) ~> (\A p \in Party : ~Waits(p, d))
=============================================================================
