------------------------------ MODULE DlcContract ------------------------------
(***************************************************************************)
(* The life of contracts between two parties that is not the update of a   *)
(* channel: offer, accept and sign, for a contract of its own and for one  *)
(* in a DLC channel, the funding transaction, the coins the wallets        *)
(* reserve for it, and the periodic check that closes a contract of its    *)
(* own with a CET or with the refund transaction.                          *)
(*                                                                         *)
(* Sources: dlc-manager/src/manager.rs, contract_updater.rs, the first     *)
(* part of channel_updater.rs, utils.rs, contract/, the stores and         *)
(* simple-wallet/src/lib.rs.                                               *)
(*                                                                         *)
(* A deal is one offer with what follows from it.  A store keeps one       *)
(* contract of a deal, first under its temporary and then under its final  *)
(* id.  The signatures of a message are kept as one bit, whether they      *)
(* verify.  Every handler writes in several steps (wallet, store, chain    *)
(* monitor, blockchain, message): its parameter stop is the last step done *)
(* before the process stops, if it does.                                   *)
(*                                                                         *)
(* A definition M_X is a mutation of the one after it, a bug the code      *)
(* could have there; the properties are tested by putting it in its place. *)
(***************************************************************************)
EXTENDS Naturals, Sequences, FiniteSets

CONSTANTS Alice, Bob,
          ContractDeals,  \* deals over a contract of its own
          ChannelDeals,   \* deals that set up a DLC channel
          Coins,          \* the coins of each wallet, one funds one deal
          NbOracles,      \* announcements of each contract
          Threshold,      \* attestations that are needed
          Maturity,       \* when oracle i may attest
          RefundDelay,    \* REFUND_DELAY
          Descriptors,    \* the kinds of contracts that are offered
          Outcomes,       \* what may be attested, one for each CET
          Cover,          \* per outcome: what the others may attest with it
          Attests,        \* bound, per oracle: the outcomes it may attest
          MaxTime,        \* bound: the clock stops there
          Offering,       \* per deal: the parties that may offer it
          MaxTroubles     \* bound: invalid messages, failing calls, lost
                          \* messages and processes that stop, together

Oracles == 1 .. NbOracles

ASSUME DlcContractAssumption ==
    /\ Alice # Bob
    /\ ContractDeals \cap ChannelDeals = {}
    /\ NbOracles \in Nat \ {0}
    /\ Threshold \in Oracles
    /\ Maturity \in [Oracles -> Nat]
    /\ RefundDelay \in Nat
    /\ Descriptors \subseteq {"Enum", "Numerical", "Difference"}
    /\ {"None", "Refund"} \cap Outcomes = {}
    /\ Cover \in [Outcomes -> SUBSET (SUBSET Outcomes)]
    /\ Attests \in [Oracles -> SUBSET Outcomes]
    /\ MaxTime \in Nat
    /\ Offering \in [ContractDeals \cup ChannelDeals -> SUBSET {Alice, Bob}]
    /\ MaxTroubles \in Nat

Party == {Alice, Bob}
Other(p) == IF p = Alice THEN Bob ELSE Alice
Deals == ContractDeals \cup ChannelDeals

(* refund_locktime: the latest maturity and the refund delay.              *)
RefundTime ==
    RefundDelay + (CHOOSE m \in {Maturity[i] : i \in Oracles} :
                      \A i \in Oracles : Maturity[i] =< m)

-----------------------------------------------------------------------------
(* Data.                                                                   *)

ContractState == {"None", "Offered", "Accepted", "Signed", "Confirmed",
                  "PreClosed", "Closed", "Refunded", "FailedAccept",
                  "FailedSign", "Rejected"}
ChannelState == {"None", "Offered", "Accepted", "Signed", "FailedAccept",
                 "FailedSign", "Cancelled"}

(* The states whose record holds what is needed to leave the contract      *)
(* without the other party: its signatures on the CETs and on the refund.  *)
Held == {"Signed", "Confirmed", "PreClosed", "Closed", "Refunded"}

(* The transactions that may spend a funding output: the CET of an         *)
(* outcome, or the refund.                                                 *)
Spending == Outcomes \cup {"Refund"}

Record == [contract : ContractState, channel : ChannelState,
           offer : BOOLEAN,                  \* is_offer_party
           coin : Coins \cup {"None"},       \* own funding input
           cet : Outcomes \cup {"None"}]     \* signed_cet
NoRecord == [contract |-> "None", channel |-> "None", offer |-> FALSE,
             coin |-> "None", cet |-> "None"]

Message == [type : {"Offer", "Accept", "Sign", "Reject"}, deal : Deals,
            valid : BOOLEAN]

VARIABLES
    store,     \* per party and deal: what its store holds
    reserved,  \* per party: the coins its wallet has reserved
    watched,   \* per party: the deals whose buffer transaction is watched
    stored,    \* per party: the chain monitor as it was last persisted
    net,       \* per party: the messages on their way to it
    fund,      \* per deal: where the funding transaction is
    pool,      \* per party and deal: what its node holds as spending it
    spent,     \* per deal: what spends the funding output on the chain
    descriptor, \* per contract: the kind its offer describes
    attested,  \* per oracle: the outcome it attested
    now,       \* the clock
    torn,      \* deals whose Sign was handled and not stored to the end
    troubles   \* what went wrong so far

vars == <<store, reserved, watched, stored, net, fund, pool, spent,
          descriptor, attested, now, torn, troubles>>

Init ==
    /\ store = [p \in Party |-> [d \in Deals |-> NoRecord]]
    /\ reserved = [p \in Party |-> {}]
    /\ watched = [p \in Party |-> {}]
    /\ stored = [p \in Party |-> {}]
    /\ net = [p \in Party |-> <<>>]
    /\ fund = [d \in Deals |-> "None"]
    /\ pool = [p \in Party |-> [d \in Deals |-> "None"]]
    /\ spent = [d \in Deals |-> "None"]
    /\ descriptor \in [ContractDeals -> Descriptors]
    /\ attested = [i \in Oracles |-> "None"]
    /\ now = 0
    /\ torn = {}
    /\ troubles = 0

chain == <<fund, pool, spent>>
world == <<descriptor, attested, now>>

-----------------------------------------------------------------------------
(* A handler that has `last` steps goes wrong somewhere, or stops after    *)
(* one of them, or neither.  When the process stops, what was in memory    *)
(* only is gone, and so are the messages that were not handled.            *)

Stops(stop, last, wrong) ==
    /\ stop \in 1 .. last
    /\ ~(wrong /\ stop < last)
    /\ IF wrong \/ stop < last
       THEN troubles < MaxTroubles /\ troubles' = troubles + 1
       ELSE troubles' = troubles

Reload(p, mem, disk, stop, last) ==
    watched' = [watched EXCEPT ![p] = IF stop < last THEN disk ELSE mem]

Handled(p, stop, last) ==
    [net EXCEPT ![p] = IF stop < last THEN <<>> ELSE Tail(net[p])]

Is(p, type) == net[p] # <<>> /\ Head(net[p]).type = type

-----------------------------------------------------------------------------
(* The wallet.                                                             *)

(* get_utxos_for_amount with lock_utxos takes coins nobody has reserved;   *)
(* with none left the call fails before anything is stored.                *)
M_FreeCoins(p) == Coins

FreeCoins(p) == Coins \ reserved[p]

Coin(p) == CHOOSE c \in FreeCoins(p) : TRUE

-----------------------------------------------------------------------------
(* The offer.                                                              *)

(* offer_contract and offer_channel: the offer that is stored.             *)
OfferedRecord(d, coin) ==
    [NoRecord EXCEPT !.contract = "Offered",
        !.channel = IF d \in ChannelDeals THEN "Offered" ELSE "None",
        !.offer = TRUE, !.coin = coin]

(* try_from_offer_dlc and from_offer_channel: the offer as it is received. *)
ReceivedRecord(d) ==
    [NoRecord EXCEPT !.contract = "Offered",
        !.channel = IF d \in ChannelDeals THEN "Offered" ELSE "None"]

(* send_offer and offer_channel: reserve a coin, store the offer, send it. *)
(* The contract of a send_offer is validated after the coin is reserved,   *)
(* and an error does not release it.                                       *)
Offer(p, d, valid, stop) ==
    /\ p \in Offering[d]
    /\ store[p][d] = NoRecord
    /\ store[Other(p)][d] = NoRecord
    /\ \A q \in Party : \A i \in 1 .. Len(net[q]) : net[q][i].deal # d
    /\ FreeCoins(p) # {}
    /\ valid \/ d \in ContractDeals
    /\ Stops(stop, 3, ~valid)
    /\ reserved' = [reserved EXCEPT ![p] = @ \cup {Coin(p)}]
    /\ store' = IF stop = 1 \/ ~valid THEN store ELSE
                [store EXCEPT ![p][d] = OfferedRecord(d, Coin(p))]
    /\ net' = CASE stop < 3 -> [net EXCEPT ![p] = <<>>]
                [] stop = 3 /\ valid ->
                   [net EXCEPT ![Other(p)] = Append(@,
                       [type |-> "Offer", deal |-> d, valid |-> TRUE])]
                [] OTHER -> net
    /\ Reload(p, watched[p], stored[p], stop, 3)
    /\ UNCHANGED <<stored, torn, chain, world>>

(* on_offer_message and on_offer_channel.  Nothing is sent back.           *)
OnOffer(p) ==
    /\ Is(p, "Offer")
    /\ LET d == Head(net[p]).deal
       IN store' = IF store[p][d].contract # "None" THEN store
                   ELSE [store EXCEPT ![p][d] = ReceivedRecord(d)]
    /\ net' = [net EXCEPT ![p] = Tail(@)]
    /\ UNCHANGED <<reserved, watched, stored, torn, troubles,
                   chain, world>>

-----------------------------------------------------------------------------
(* The answer.                                                             *)

(* accept_contract: the accepted contract, with the coin that funds it.    *)
AcceptedContract(r, coin) ==
    [r EXCEPT !.contract = "Accepted", !.coin = coin]

(* accept_channel_offer_internal: the channel around it.                   *)
AcceptedRecord(r, d, coin) ==
    LET a == AcceptedContract(r, coin)
    IN IF d \in ChannelDeals THEN [a EXCEPT !.channel = "Accepted"] ELSE a

(* accept_contract_offer and accept_channel: reserve a coin, store the     *)
(* accepted contract, send the signatures.  accept_contract_offer leaves   *)
(* it to its caller to accept only offers that were received, as the       *)
(* sample application does.  valid is FALSE when what is sent will not     *)
(* verify: the two sides compute different transactions.                   *)
Accept(p, d, valid, stop) ==
    /\ store[p][d].contract = "Offered"
    /\ d \in ChannelDeals => store[p][d].channel = "Offered"
    /\ ~store[p][d].offer
    /\ FreeCoins(p) # {}
    /\ Stops(stop, 3, ~valid)
    /\ reserved' = [reserved EXCEPT ![p] = @ \cup {Coin(p)}]
    /\ store' = IF stop = 1 THEN store ELSE
                [store EXCEPT ![p][d] = AcceptedRecord(@, d, Coin(p))]
    /\ net' = IF stop < 3 THEN [net EXCEPT ![p] = <<>>]
              ELSE [net EXCEPT ![Other(p)] = Append(@,
                       [type |-> "Accept", deal |-> d, valid |-> valid])]
    /\ Reload(p, watched[p], stored[p], stop, 3)
    /\ UNCHANGED <<stored, torn, chain, world>>

(* reject_channel: only a channel can be rejected.                         *)
RejectChannel(p, d, stop) ==
    /\ store[p][d].channel = "Offered"
    /\ ~store[p][d].offer
    /\ store[p][d].contract = "Offered"
    /\ Stops(stop, 2, FALSE)
    /\ store' = [store EXCEPT ![p][d].channel = "Cancelled",
                              ![p][d].contract = "Rejected"]
    /\ net' = IF stop < 2 THEN [net EXCEPT ![p] = <<>>]
              ELSE [net EXCEPT ![Other(p)] = Append(@,
                       [type |-> "Reject", deal |-> d, valid |-> TRUE])]
    /\ Reload(p, watched[p], stored[p], stop, 2)
    /\ UNCHANGED <<reserved, stored, torn, chain, world>>

(* on_reject: the coin of the offer is released, then the record is moved. *)
OnReject(p, stop) ==
    /\ Is(p, "Reject")
    /\ Stops(stop, 2, FALSE)
    /\ LET d == Head(net[p]).deal
           moves == /\ store[p][d].channel = "Offered"
                    /\ store[p][d].contract = "Offered"
       IN /\ reserved' = IF moves
                         THEN [reserved EXCEPT ![p] = @ \ {store[p][d].coin}]
                         ELSE reserved
          /\ store' = IF ~moves \/ stop = 1 THEN store
                      ELSE [store EXCEPT ![p][d].channel = "Cancelled",
                                         ![p][d].contract = "Rejected"]
    /\ net' = Handled(p, stop, 2)
    /\ Reload(p, watched[p], stored[p], stop, 2)
    /\ UNCHANGED <<stored, torn, chain, world>>

-----------------------------------------------------------------------------
(* The signatures.                                                         *)

(* Whether the chain monitor is told of the buffer transaction.            *)
M_Watches(d) == TRUE

Watches(d) == d \in ChannelDeals

(* The order of the writes of a handler; the last one is also its end.     *)
M_AcceptSteps == [store |-> 1, send |-> 2, persist |-> 3]

AcceptSteps == [store |-> 1, persist |-> 2, send |-> 3]

(* accept_fail_on_error, sign_fail_on_error: what does not verify.  Of a   *)
(* channel the contract keeps its state.                                   *)
FailedRecord(r, d, state) ==
    IF d \in ChannelDeals THEN [r EXCEPT !.channel = state]
    ELSE [r EXCEPT !.contract = state]

(* verify_accepted_and_sign_contract_internal: the refund signature and    *)
(* every adaptor signature verify, for transactions this party computes.   *)
AcceptVerifies(r, m) == r.offer /\ m.valid

(* verify_and_sign_accepted_channel_internal.                              *)
SignedByOffer(r, d) ==
    [r EXCEPT !.contract = "Signed",
              !.channel = IF d \in ChannelDeals THEN "Signed" ELSE @]

(* on_accept_message and on_accept_channel.  For a channel the buffer      *)
(* transaction is watched, in memory, and the monitor is persisted after   *)
(* the store.  The Sign that is sent verifies or not.                      *)
OnAccept(p, stop, sent) ==
    /\ Is(p, "Accept")
    /\ LET d == Head(net[p]).deal
           r == store[p][d]
           channel == d \in ChannelDeals
           mine == r.contract = "Offered"
                   /\ (channel => r.channel = "Offered")
           good == mine /\ AcceptVerifies(r, Head(net[p]))
           mem == IF good /\ Watches(d) THEN watched[p] \cup {d} ELSE watched[p]
           disk == IF good /\ Watches(d) /\ stop >= AcceptSteps.persist
                   THEN mem ELSE stored[p]
       IN /\ Stops(stop, 3, ~sent)
          /\ ~good => stop = 3 /\ sent
          /\ store' =
                CASE good /\ stop >= AcceptSteps.store ->
                        [store EXCEPT ![p][d] = SignedByOffer(r, d)]
                  [] mine /\ ~good ->
                        [store EXCEPT ![p][d] =
                            FailedRecord(r, d, "FailedAccept")]
                  [] OTHER -> store
          /\ stored' = [stored EXCEPT ![p] = disk]
          /\ Reload(p, mem, disk, stop, 3)
          /\ net' = [Handled(p, stop, 3) EXCEPT ![Other(p)] =
                        IF good /\ stop >= AcceptSteps.send
                        THEN Append(@, [type |-> "Sign", deal |-> d,
                                        valid |-> sent])
                        ELSE @]
    /\ UNCHANGED <<reserved, torn, chain, world>>

(* A node takes the funding transaction when its inputs are unspent.       *)
FundValid(d) ==
    \A e \in Deals \ {d} : fund[e] # "None" =>
        \A p \in Party : store[p][d].coin # store[p][e].coin

(* A contract of its own is stored before the funding transaction is       *)
(* broadcast, a channel after it and before its monitor is persisted.      *)
M_SignSteps(d) == [broadcast |-> 1, store |-> 2, persist |-> 3]

SignSteps(d) ==
    IF d \in ChannelDeals THEN [broadcast |-> 1, store |-> 2, persist |-> 3]
    ELSE [store |-> 1, broadcast |-> 2, persist |-> 2]

(* verify_signed_contract_internal.                                        *)
SignVerifies(m) == m.valid

(* verify_signed_channel_internal.                                         *)
SignedByAccept(r, d) ==
    [r EXCEPT !.contract = "Signed",
              !.channel = IF d \in ChannelDeals THEN "Signed" ELSE @]

(* on_sign_message and on_sign_channel.  A broadcast that fails ends the   *)
(* handler there.                                                          *)
OnSign(p, stop, sends) ==
    /\ Is(p, "Sign")
    /\ LET d == Head(net[p]).deal
           channel == d \in ChannelDeals
           steps == SignSteps(d)
           last == IF channel THEN 3 ELSE 2
           r == store[p][d]
           mine == r.contract = "Accepted"
                   /\ (channel => r.channel = "Accepted")
           good == mine /\ SignVerifies(Head(net[p]))
           takes == sends /\ FundValid(d)
           Done(step) == good /\ stop >= step
                         /\ (takes \/ step < steps.broadcast)
           mem == IF good /\ Watches(d) THEN watched[p] \cup {d} ELSE watched[p]
           disk == IF Watches(d) /\ Done(steps.persist) THEN mem ELSE stored[p]
       IN /\ Stops(stop, last, ~sends)
          /\ ~good => stop = last /\ sends
          /\ fund' = IF Done(steps.broadcast)
                     THEN [fund EXCEPT ![d] = "Pool"] ELSE fund
          /\ store' = CASE Done(steps.store) ->
                              [store EXCEPT ![p][d] = SignedByAccept(r, d)]
                        [] mine /\ ~good ->
                              [store EXCEPT ![p][d] =
                                  FailedRecord(r, d, "FailedSign")]
                        [] OTHER -> store
          /\ stored' = [stored EXCEPT ![p] = disk]
          /\ Reload(p, mem, disk, stop, last)
          /\ net' = Handled(p, stop, last)
          /\ torn' = IF channel /\ good /\ takes /\ stop < last
                     THEN torn \cup {d} ELSE torn
    /\ UNCHANGED <<reserved, pool, spent, world>>

-----------------------------------------------------------------------------
(* Closing.                                                                *)

Matured(i) == Maturity[i] =< now
Attested == {i \in Oracles : attested[i] # "None"}

(* get_closable_contract_info counts the announcements that have matured   *)
(* before it looks for their attestations.                                 *)
M_ListIndex(i, got) == Cardinality({j \in got : j =< i})

ListIndex(i, got) == Cardinality({j \in Oracles : j =< i /\ Matured(j)})

(* The contract is closable with the attestations got from the oracles.    *)
Closable(got) ==
    /\ Cardinality({i \in Oracles : Matured(i)}) >= Threshold
    /\ Cardinality(got) >= Threshold

Voters(got, x) == {i \in got : attested[i] = x}

(* Oracles that agree: the first Threshold of those that attested x, where *)
(* there are as many.  get_majority_combination takes the outcome that     *)
(* most oracles attested, get_agreeing_oracles the one that fewest did; of *)
(* several the hash map decides.                                           *)
M_Enough(got, x) == Voters(got, x) # {}

Enough(got, x) == Cardinality(Voters(got, x)) >= Threshold

Agreement(got, x) ==
    [cet |-> x,
     by |-> {i \in Voters(got, x) :
                Cardinality({j \in Voters(got, x) : j =< i}) =< Threshold}]

EnumLookUp(got) ==
    {Agreement(got, x) : x \in {y \in Outcomes :
        /\ Enough(got, y)
        /\ \A z \in Outcomes :
              Cardinality(Voters(got, z)) =< Cardinality(Voters(got, y))}}

NumericalLookUp(got) ==
    {Agreement(got, x) : x \in {y \in Outcomes :
        /\ Enough(got, y)
        /\ \A z \in Outcomes : Enough(got, z) =>
              Cardinality(Voters(got, y)) =< Cardinality(Voters(got, z))}}

(* Oracles that may differ, MultiTrie::look_up: the first combination that *)
(* is in the trie.  It is when the others attested what the outcome of the *)
(* first oracle, whose CET it is, has a cover for (ContractExecution       *)
(* computes the covers).                                                   *)
M_Covers(c, m) == TRUE

Covers(c, m) == {attested[i] : i \in c \ {m}} \in Cover[attested[m]]

Match(c, m) == m \in c /\ (\A i \in c : m =< i) /\ Covers(c, m)

Precedes(b, c) == \E i \in b \ c : \A j \in c \ b : i < j

Combinations(got) == {c \in SUBSET got : Cardinality(c) = Threshold}

DifferenceLookUp(got) ==
    {t \in [cet : Outcomes, by : Combinations(got)] :
        /\ \E m \in t.by : Match(t.by, m) /\ t.cet = attested[m]
        /\ \A c \in Combinations(got) :
              (\E m \in c : Match(c, m)) => ~Precedes(c, t.by)}

(* get_range_info_for_outcome: the CET and the oracles it is closed with.  *)
LookUp(d, got) ==
    CASE descriptor[d] = "Enum" -> EnumLookUp(got)
      [] descriptor[d] = "Numerical" -> NumericalLookUp(got)
      [] descriptor[d] = "Difference" -> DifferenceLookUp(got)

NotFound == [cet |-> "None", by |-> {}]

(* get_range_info_and_oracle_sigs: an error when there is nothing found.   *)
(* The contract of a channel is not closed here.                           *)
Found(d, got) ==
    LET found == IF d \in ContractDeals THEN LookUp(d, got) ELSE {}
    IN IF found = {} THEN {NotFound} ELSE found

(* get_signed_cet: the adaptor signature is the one of these oracles, that *)
(* is, their numbers in the list are their numbers in the contract.        *)
(* Otherwise it is decrypted with the wrong attestations and the CET is    *)
(* not valid.                                                              *)
CetValid(got, t) == \A i \in t.by : ListIndex(i, got) = i

(* get_transaction_confirmations is positive.                              *)
M_Mined(d, tx) == FALSE

Mined(d, tx) == spent[d] = tx

(* send_transaction.                                                       *)
Takes(p, d, tx) ==
    fund[d] # "None" /\ spent[d] = "None" /\ pool[p][d] \in {"None", tx}

(* check_signed_contract: NB_CONFIRMATIONS is zero, so a signed contract   *)
(* is confirmed by the next check wherever its funding transaction is.     *)
AfterSigned(c) == IF c = "Signed" THEN "Confirmed" ELSE c

(* check_refund, reached when there is nothing to close with; the          *)
(* signature of the other party was stored with the contract.              *)
M_RefundDue == FALSE

RefundDue == RefundTime =< now

(* What check_confirmed_contract does: nothing, an error, a CET or the     *)
(* refund; with a CET or a refund, whether it is broadcast first.  An      *)
(* error in finding or sending the CET leaves the refund untried.          *)
Closing(p, d, got, t) ==
    CASE Closable(got) /\ t # NotFound /\ Mined(d, t.cet) -> "Closed"
      [] /\ Closable(got) /\ t # NotFound /\ ~Mined(d, t.cet)
         /\ CetValid(got, t) /\ Takes(p, d, t.cet) -> "SendCet"
      [] ~Closable(got) /\ RefundDue /\ Mined(d, "Refund") -> "Refunded"
      [] /\ ~Closable(got) /\ RefundDue /\ ~Mined(d, "Refund")
         /\ Takes(p, d, "Refund") -> "SendRefund"
      [] OTHER -> "Stays"

(* close_contract and check_refund: the state that is stored next.         *)
CloseContract(does, c) ==
    CASE does = "SendCet" -> "PreClosed"
      [] does = "Closed" -> "Closed"
      [] does \in {"SendRefund", "Refunded"} -> "Refunded"
      [] OTHER -> c

(* check_preclosed_contract, again with no confirmation asked for.         *)
AfterPreClosed(c) == IF c = "PreClosed" THEN "Closed" ELSE c

(* periodic_check on the deals of a party: check_signed_contracts,         *)
(* check_confirmed_contracts and check_preclosed_contracts, each of them   *)
(* reading the store again.  Deals share no state here, so they are taken  *)
(* one at a time.  got are the attestations the oracles answer with.       *)
PeriodicCheck(p, got, d, stop) ==
    /\ store[p][d].contract \in {"Signed", "Confirmed", "PreClosed"}
    /\ got \subseteq Attested
    /\ \A i \in got : Matured(i)
    /\ \E t \in Found(d, got) :
         LET c == AfterSigned(store[p][d].contract)
             does == IF c = "Confirmed" /\ d \in ContractDeals
                     THEN Closing(p, d, got, t) ELSE "Stays"
             sends == does \in {"SendCet", "SendRefund"}
             last == IF sends THEN 3 ELSE 2
             tx == IF does = "SendCet" THEN t.cet ELSE "Refund"
             half == CloseContract(does, c)
             final == AfterPreClosed(half)
         IN /\ Stops(stop, last, FALSE)
            /\ stop < last => sends
            /\ pool' = IF sends THEN [pool EXCEPT ![p][d] = tx] ELSE pool
            /\ store' = [store EXCEPT ![p][d].contract =
                            CASE stop = last -> final
                              [] stop = 2 -> half
                              [] OTHER -> c,
                          ![p][d].cet =
                            IF does \in {"SendCet", "Closed"} /\ stop > 1
                            THEN t.cet ELSE @]
            /\ net' = IF stop < last THEN [net EXCEPT ![p] = <<>>] ELSE net
            /\ Reload(p, watched[p], stored[p], stop, last)
    /\ UNCHANGED <<reserved, stored, fund, spent, torn, world>>

-----------------------------------------------------------------------------
(* The world around: chain, oracles, clock, transport, restarts.           *)

MineFund(d) ==
    /\ fund[d] = "Pool"
    /\ fund' = [fund EXCEPT ![d] = "Mined"]
    /\ UNCHANGED <<store, reserved, watched, stored, net, pool, spent, torn,
                   troubles, world>>

(* One of the transactions the nodes hold is mined; the others are void.   *)
MineSpend(d) ==
    /\ fund[d] = "Mined" /\ spent[d] = "None"
    /\ \E p \in Party :
         /\ pool[p][d] # "None"
         /\ spent' = [spent EXCEPT ![d] = pool[p][d]]
    /\ pool' = [p \in Party |-> [pool[p] EXCEPT ![d] = "None"]]
    /\ UNCHANGED <<store, reserved, watched, stored, net, fund, torn,
                   troubles, world>>

Relay(p, d) ==
    /\ pool[p][d] # "None" /\ pool[Other(p)][d] = "None"
    /\ pool' = [pool EXCEPT ![Other(p)][d] = pool[p][d]]
    /\ UNCHANGED <<store, reserved, watched, stored, net, fund, spent, torn,
                   troubles, world>>

Attest(i, x) ==
    /\ Matured(i) /\ attested[i] = "None" /\ x \in Attests[i]
    /\ attested' = [attested EXCEPT ![i] = x]
    /\ UNCHANGED <<store, reserved, watched, stored, net, chain, descriptor, now,
                   torn, troubles>>

Tick ==
    /\ now < MaxTime
    /\ now' = now + 1
    /\ UNCHANGED <<store, reserved, watched, stored, net, chain, descriptor,
                   attested, torn, troubles>>

Lose(p) ==
    /\ net[p] # <<>>
    /\ troubles < MaxTroubles
    /\ net' = [net EXCEPT ![p] = Tail(@)]
    /\ troubles' = troubles + 1
    /\ UNCHANGED <<store, reserved, watched, stored, chain, torn, world>>

Restart(p) ==
    /\ troubles < MaxTroubles
    /\ troubles' = troubles + 1
    /\ watched' = [watched EXCEPT ![p] = stored[p]]
    /\ net' = [net EXCEPT ![p] = <<>>]
    /\ UNCHANGED <<store, reserved, stored, chain, torn, world>>

-----------------------------------------------------------------------------
Next ==
    \/ \E p \in Party, d \in Deals, v \in BOOLEAN, s \in 1 .. 3 :
          Offer(p, d, v, s) \/ Accept(p, d, v, s)
    \/ \E p \in Party, d \in Deals, s \in 1 .. 2 : RejectChannel(p, d, s)
    \/ \E p \in Party : OnOffer(p) \/ Lose(p) \/ Restart(p)
    \/ \E p \in Party, s \in 1 .. 2 : OnReject(p, s)
    \/ \E p \in Party, s \in 1 .. 3, v \in BOOLEAN :
          OnAccept(p, s, v) \/ OnSign(p, s, v)
    \/ \E p \in Party, d \in Deals, got \in SUBSET Attested, s \in 1 .. 3 :
          PeriodicCheck(p, got, d, s)
    \/ \E d \in Deals : MineFund(d) \/ MineSpend(d)
    \/ \E p \in Party, d \in Deals : Relay(p, d)
    \/ \E i \in Oracles, x \in Outcomes : Attest(i, x)
    \/ Tick

Spec == Init /\ [][Next]_vars

(* The periodic check runs for every contract, with all that the oracles   *)
(* attested when it runs often enough; the clock advances and transactions *)
(* are mined.  Messages may stay under way, oracles silent.                *)
FairSpec ==
    /\ Spec
    /\ WF_vars(Tick)
    /\ \A d \in ContractDeals : WF_vars(MineFund(d)) /\ WF_vars(MineSpend(d))
    /\ \A p \in Party : \A d \in ContractDeals :
          WF_vars(\E s \in 2 .. 3 : PeriodicCheck(p, Attested, d, s))

=============================================================================
