----------------------------- MODULE DlcChannel -----------------------------
(***************************************************************************)
(* One DLC channel of dlc-manager, seen by both of its parties, from the   *)
(* moment the channel is signed (setup is done) until it is closed: the    *)
(* settle and renew protocols that move it from one update to the next,    *)
(* rejections, collaborative and forced closing, the chain monitor that    *)
(* looks for the counter party's transactions, and punishment.             *)
(*                                                                         *)
(* Sources: dlc-manager/src/manager.rs, channel_updater.rs,                *)
(* chain_monitor.rs, channel/signed_channel.rs.                            *)
(*                                                                         *)
(* update_idx counts down in the code; here update 0 is the first one and  *)
(* update n stands for INITIAL_UPDATE_NUMBER - n.  A per-update point, the *)
(* secret behind it and a contract are named by their update number.       *)
(* Signatures are named by the transaction they sign: verifying one is     *)
(* comparing that transaction with the one the verifier builds.            *)
(*                                                                         *)
(* A definition M_X is a mutation of the one after it, a bug the code      *)
(* could have there; the properties are tested by putting it in its place. *)
(***************************************************************************)
EXTENDS Naturals, Sequences

CONSTANTS Alice, Bob,      \* Alice offered the channel, Bob accepted it
          MaxUpdates,      \* bound: no party starts an update past this one
          Calls,           \* the calls the applications make on their manager
          Offering,        \* the parties whose application makes offers
          FirstContract,   \* the first contract at the start, see Init
          MaxLost,         \* bound: messages the transport may lose
          MaxRestarts,     \* bound: times a manager may be restarted
          MaxCheats,       \* bound: broadcasts outside the manager
          MaxCloseOffers   \* bound: collaborative close offers

CallNames == {"settle", "renew", "reject", "close", "closeAnytime", "force"}

ASSUME ConstantsAssumption ==
    /\ Alice # Bob
    /\ MaxUpdates \in Nat \ {0}
    /\ Calls \subseteq CallNames
    /\ Offering \subseteq {Alice, Bob}
    /\ FirstContract \in {"Signed", "Confirmed"}
    /\ MaxLost \in Nat
    /\ MaxRestarts \in Nat
    /\ MaxCheats \in Nat
    /\ MaxCloseOffers \in Nat

Party == {Alice, Bob}
Other(p) == IF p = Alice THEN Bob ELSE Alice

-----------------------------------------------------------------------------
(* Data.                                                                   *)

Update == 0 .. MaxUpdates
NoPoints == [q \in Party |-> 0]

(* A transaction spending the fund output: the buffer transaction of a     *)
(* contract, a settle transaction, or a collaborative close.  offerer is   *)
(* the party in the offer role when it was built and point the per-update  *)
(* point of each party that its scripts are derived from.                  *)
Tx == [kind : {"none", "buffer", "settle", "close"},
       offerer : Party, point : [Party -> Update]]
NoTx == [kind |-> "none", offerer |-> Alice, point |-> NoPoints]
BufferTx(o, pts) == [kind |-> "buffer", offerer |-> o, point |-> pts]
SettleTx(o, pts) == [kind |-> "settle", offerer |-> o, point |-> pts]
CloseTx(o) == [kind |-> "close", offerer |-> o, point |-> NoPoints]

(* A contract is stored under a temporary id while offered and under its   *)
(* final id from its acceptance on; both are derived from the update.      *)
ContractId == {"temp", "final"} \X Update
NoContract == <<"none", 0>>
M_TempIdOfNext(n) == <<"temp", n + 1>>
TempId(n) == <<"temp", n>>
FinalId(n) == <<"final", n>>
ContractState == {"None", "Offered", "Accepted", "Signed", "Confirmed",
                  "PreClosed", "Closed", "Rejected"}

StateName == {"None", "Established", "SettledOffered", "SettledReceived",
              "SettledAccepted", "SettledConfirmed", "Settled",
              "RenewOffered", "RenewAccepted", "RenewConfirmed",
              "RenewFinalized", "Closing", "SettledClosing",
              "CollaborativeCloseOffered"}

(* SignedChannelState.  Every variant is the same record; a field that a   *)
(* variant does not have keeps its default.                                *)
SignedState ==
    [name : StateName,
     tx : Tx,                \* buffer_transaction, settle_tx or close_tx
     contract : ContractId \cup {NoContract},
     next : [Party -> Update],    \* next per-update point of each party
     prev : Update,          \* prev_offer_per_update_point
     isOffer : BOOLEAN,
     isInitiator : BOOLEAN]
Variant(name, tx, contract) ==
    [name |-> name, tx |-> tx, contract |-> contract, next |-> NoPoints,
     prev |-> 0, isOffer |-> FALSE, isInitiator |-> FALSE]
WithNext(s, pts) == [s EXCEPT !.next = pts]
WithPrev(s, n) == [s EXCEPT !.prev = n]
WithOffer(s, isOffer) == [s EXCEPT !.isOffer = isOffer]
AsInitiator(s) == [s EXCEPT !.isInitiator = TRUE]
NoState == Variant("None", NoTx, NoContract)

StableStates == {"Established", "Settled"}
RollbackStates == {"SettledOffered", "SettledReceived", "SettledAccepted",
                   "SettledConfirmed", "RenewOffered", "RenewAccepted",
                   "RenewConfirmed", "CollaborativeCloseOffered"}
(* The states check_for_timed_out_channels looks at.                       *)
TimeoutStates == {"RenewOffered", "RenewAccepted", "RenewConfirmed",
                  "RenewFinalized", "SettledOffered", "SettledAccepted",
                  "SettledConfirmed"}

ChannelType == {"Signed", "SettledClosing", "Closed", "CounterClosed",
                "ClosedPunished", "CollaborativelyClosed"}

(* SignedChannelState::get_contract_id.                                    *)
M_GetContractIdUnlessClosing(s) ==
    IF s.name \in {"Established", "RenewOffered", "RenewAccepted",
                   "RenewConfirmed", "RenewFinalized"}
    THEN s.contract ELSE NoContract
GetContractId(s) ==
    IF s.name \in {"Established", "RenewOffered", "RenewAccepted",
                   "RenewConfirmed", "RenewFinalized", "Closing"}
    THEN s.contract ELSE NoContract

(* A message: the sender's next per-update point, a revealed secret and a  *)
(* signed transaction, where its type has them.                            *)
MessageType == {"SettleOffer", "SettleAccept", "SettleConfirm",
                "SettleFinalize", "RenewOffer", "RenewAccept",
                "RenewConfirm", "RenewFinalize", "RenewRevoke",
                "CollaborativeCloseOffer", "Reject"}
Message == [type : MessageType, next : Update, secret : Update, sig : Tx]
Msg(type, next, secret, sig) ==
    [type |-> type, next |-> next, secret |-> secret, sig |-> sig]

(* ChainMonitor: a watched transaction with its TxType.  At most one entry *)
(* per transaction; txo holds the buffer transactions whose output is      *)
(* watched for a CET.                                                      *)
WatchType == {"BufferTx", "SettleTx2", "CollaborativeClose", "Revoked"}
Watch == [tx : Tx, type : WatchType, idx : Update, isOffer : BOOLEAN]
Monitor == [tx : SUBSET Watch, txo : SUBSET Tx]
EmptyMonitor == [tx |-> {}, txo |-> {}]
Entry(tx, type) == [tx |-> tx, type |-> type, idx |-> 0, isOffer |-> FALSE]
SettleEntry(tx, isOffer) == [Entry(tx, "SettleTx2") EXCEPT !.isOffer = isOffer]
RevokedEntry(tx, n, isOffer) ==
    [tx |-> tx, type |-> "Revoked", idx |-> n, isOffer |-> isOffer]
M_AddTxForgetting(m, e) ==
    [tx |-> {e}, txo |-> IF e.type = "BufferTx" THEN {e.tx} ELSE {}]
AddTx(m, e) ==
    [tx |-> {x \in m.tx : x.tx # e.tx} \cup {e},
     txo |-> IF e.type = "BufferTx" THEN m.txo \cup {e.tx} ELSE m.txo]
M_RemoveNoTx(m, tx) == m
RemoveTx(m, tx) == [m EXCEPT !.tx = {x \in @ : x.tx # tx}]
(* The answers did_we_offer_last_channel_settlement can give, None if      *)
(* there is no answer: it takes the is_offer of whichever revoked buffer   *)
(* transaction the hash map yields first.                                  *)
DidWeOfferLastSettlement(m) ==
    {e.isOffer : e \in {x \in m.tx : x.type = "Revoked" /\ x.tx.kind = "buffer"}}

-----------------------------------------------------------------------------
VARIABLES
    ctype,      \* variant of the stored Channel of each party
    state,      \* SignedChannel.state
    rollback,   \* SignedChannel.roll_back_state (NoState for None)
    updateIdx,  \* SignedChannel.update_idx
    points,     \* own_per_update_point and counter_per_update_point
    secrets,    \* counter_party_commitment_secrets: updates they cover
    contracts,  \* the contract store
    net,        \* messages on their way to each party, in order
    monitor,    \* the chain monitor in memory
    stored,     \* the chain monitor as last persisted
    mempool,    \* broadcast transactions spending the fund output
    chain,      \* the confirmed one: transaction, who broadcast it, depth
    pool,       \* broadcast transactions spending an output of chain.tx
    spent,      \* the confirmed ones
    attested,   \* the oracles have attested the contracts' events
    panicked,   \* a party whose manager hit a failing expect()
    revealed,   \* history: per-update secrets each party sent out
    held,       \* history: transactions each party got the peer's signature for
    used        \* what is used up of the environment's bounds

chanVars == <<ctype, state, rollback, updateIdx, points, secrets>>
storeVars == <<contracts, monitor, stored>>
chainVars == <<mempool, chain, pool, spent, attested>>
historyVars == <<revealed, held>>
vars == <<chanVars, storeVars, chainVars, historyVars, net, panicked, used>>

FundSpend == [tx : Tx, by : Party]
(* cet spends a buffer output; claim spends the broadcaster's output of a  *)
(* settle transaction; punish spends the counter party's output of a       *)
(* revoked transaction.                                                    *)
Spend == [kind : {"cet", "claim", "punish"}, by : Party]
Unspent == [tx |-> NoTx, by |-> Alice, depth |-> 0]

TypeOK ==
    /\ ctype \in [Party -> ChannelType]
    /\ state \in [Party -> SignedState]
    /\ rollback \in [Party -> SignedState]
    /\ updateIdx \in [Party -> Update]
    /\ points \in [Party -> [Party -> Update]]
    /\ secrets \in [Party -> SUBSET Update]
    /\ contracts \in [Party -> [ContractId -> ContractState]]
    /\ net \in [Party -> Seq(Message)]
    /\ monitor \in [Party -> Monitor]
    /\ stored \in [Party -> Monitor]
    /\ mempool \in SUBSET FundSpend
    /\ chain \in [tx : Tx, by : Party, depth : 0 .. 2]
    /\ pool \in SUBSET Spend
    /\ spent \in SUBSET Spend
    /\ attested \in BOOLEAN
    /\ panicked \in SUBSET Party
    /\ revealed \in [Party -> SUBSET Update]
    /\ held \in [Party -> SUBSET Tx]
    /\ used \in [lost : Nat, restarts : Nat, cheats : Nat, closes : Nat]

FirstTx == BufferTx(Alice, NoPoints)
FirstMonitor == AddTx(EmptyMonitor, Entry(FirstTx, "BufferTx"))

(* Both parties have just stored the signed channel, its first contract    *)
(* and the watch for its buffer transaction (on_accept_channel,            *)
(* on_sign_channel); with FirstContract = "Confirmed" both have also run   *)
(* the periodic check that confirms the contract.                          *)
Init ==
    /\ ctype = [p \in Party |-> "Signed"]
    /\ state = [p \in Party |->
                  WithOffer(Variant("Established", FirstTx, FinalId(0)), p = Alice)]
    /\ rollback = [p \in Party |-> NoState]
    /\ updateIdx = [p \in Party |-> 0]
    /\ points = [p \in Party |-> NoPoints]
    /\ secrets = [p \in Party |-> {}]
    /\ contracts = [p \in Party |-> [c \in ContractId |->
                       IF c = FinalId(0) THEN FirstContract ELSE "None"]]
    /\ net = [p \in Party |-> <<>>]
    /\ monitor = [p \in Party |-> FirstMonitor]
    /\ stored = [p \in Party |-> FirstMonitor]
    /\ mempool = {} /\ chain = Unspent /\ pool = {} /\ spent = {}
    /\ attested = FALSE
    /\ panicked = {}
    /\ revealed = [p \in Party |-> {}]
    /\ held = [p \in Party |-> {FirstTx}]
    /\ used = [lost |-> 0, restarts |-> 0, cheats |-> 0, closes |-> 0]

-----------------------------------------------------------------------------
(* Pieces of actions.                                                      *)

(* get_channel_in_state!(.., Signed, ..) of a manager that still runs.     *)
Signed(p) == p \notin panicked /\ ctype[p] = "Signed"
InState(p, name) == Signed(p) /\ state[p].name = name

Points(p, own, counter) == [q \in Party |-> IF q = p THEN own ELSE counter]

(* std::mem::swap of the state into roll_back_state.                       *)
MoveTo(p, s) ==
    /\ state' = [state EXCEPT ![p] = s]
    /\ rollback' = [rollback EXCEPT ![p] = state[p]]
SetState(p, s) == state' = [state EXCEPT ![p] = s]
M_RollBackKeeping(p) ==
    /\ state' = [state EXCEPT ![p] = rollback[p]]
    /\ rollback' = rollback
RollBack(p) ==
    /\ state' = [state EXCEPT ![p] = rollback[p]]
    /\ rollback' = [rollback EXCEPT ![p] = NoState]

Send(p, m) == net' = [net EXCEPT ![Other(p)] = Append(@, m)]
Consume(p) == net' = [net EXCEPT ![p] = Tail(@)]
Reply(p, m) ==
    net' = [net EXCEPT ![p] = Tail(@), ![Other(p)] = Append(@, m)]
Receives(p, type) == net[p] # <<>> /\ Head(net[p]).type = type

SetContract(p, id, s) == contracts' = [contracts EXCEPT ![p][id] = s]

(* The secret a party gives up: build_commitment_secret(seed, update_idx)  *)
(* before update_idx moves on.                                             *)
M_NextSecret(p) == updateIdx[p] + 1
PerUpdateSecret(p) == updateIdx[p]
Reveal(p) == revealed' = [revealed EXCEPT ![p] = @ \cup {PerUpdateSecret(p)}]

(* provide_secret(update_idx, ..), and the move to the next update.        *)
M_StoreSecretLate(p) == secrets' = [secrets EXCEPT ![p] = @ \cup {updateIdx[p] + 1}]
StoreSecret(p) == secrets' = [secrets EXCEPT ![p] = @ \cup {updateIdx[p]}]
M_SameUpdateIdx(p) == updateIdx' = updateIdx
StepUpdateIdx(p) == updateIdx' = [updateIdx EXCEPT ![p] = @ + 1]

Hold(p, tx) == held' = [held EXCEPT ![p] = @ \cup {tx}]
WatchTx(p, e) == monitor' = [monitor EXCEPT ![p] = AddTx(@, e)]
M_PersistNothing(p) == stored' = stored
Persist(p) == stored' = [stored EXCEPT ![p] = monitor'[p]]
Panic(p) ==
    /\ panicked' = panicked \cup {p}
    /\ UNCHANGED <<chanVars, storeVars, chainVars, historyVars, net, used>>

(* send_transaction fails when another transaction spending the fund       *)
(* output is confirmed.                                                    *)
CanSend(tx) == chain.tx \in {NoTx, tx}
Broadcast(p, tx) ==
    mempool' = IF chain.tx = NoTx
               THEN mempool \cup {[tx |-> tx, by |-> p]} ELSE mempool

-----------------------------------------------------------------------------
(* Settling: offer, accept, confirm, finalize.                             *)

SettleOffer(p) ==
    LET next == updateIdx[p] + 1 IN
    /\ InState(p, "Established")
    /\ updateIdx[p] < MaxUpdates
    /\ MoveTo(p, WithNext(Variant("SettledOffered", NoTx, NoContract),
                          Points(p, next, 0)))
    /\ Send(p, Msg("SettleOffer", next, 0, NoTx))
    /\ UNCHANGED <<ctype, updateIdx, points, secrets, storeVars, chainVars,
                   historyVars, panicked, used>>

(* A settle offer that crosses our own is answered with a Reject.          *)
OnSettleOfferReject(p) ==
    /\ Receives(p, "SettleOffer")
    /\ InState(p, "SettledOffered")
    /\ Reply(p, Msg("Reject", 0, 0, NoTx))
    /\ UNCHANGED <<chanVars, storeVars, chainVars, historyVars, panicked, used>>

OnSettleOffer(p) ==
    /\ Receives(p, "SettleOffer")
    /\ InState(p, "Established")
    /\ MoveTo(p, WithNext(Variant("SettledReceived", NoTx, NoContract),
                          Points(p, 0, Head(net[p]).next)))
    /\ Consume(p)
    /\ UNCHANGED <<ctype, updateIdx, points, secrets, storeVars, chainVars,
                   historyVars, panicked, used>>

(* The settle transaction is watched, but the monitor is not persisted.    *)
AcceptSettleOffer(p) ==
    LET next == updateIdx[p] + 1
        pts == Points(p, next, state[p].next[Other(p)])
        tx == SettleTx(Other(p), pts) IN
    /\ InState(p, "SettledReceived")
    /\ updateIdx[p] < MaxUpdates
    /\ SetState(p, WithNext(Variant("SettledAccepted", tx, NoContract), pts))
    /\ WatchTx(p, SettleEntry(tx, FALSE))
    /\ Send(p, Msg("SettleAccept", next, 0, tx))
    /\ UNCHANGED <<ctype, rollback, updateIdx, points, secrets, contracts,
                   stored, chainVars, historyVars, panicked, used>>

RejectSettleOffer(p) ==
    /\ InState(p, "SettledReceived")
    /\ RollBack(p)
    /\ Send(p, Msg("Reject", 0, 0, NoTx))
    /\ UNCHANGED <<ctype, updateIdx, points, secrets, storeVars, chainVars,
                   historyVars, panicked, used>>

(* What settle_channel_confirm checks: the counter party's signature for   *)
(* the settle transaction built from the points of both.                   *)
SettleAcceptValid(p, m) ==
    m.sig = SettleTx(p, Points(p, state[p].next[p], m.next))

(* The offering party gives up the secret of the current update with its   *)
(* own signature.                                                          *)
OnSettleAccept(p) ==
    LET m == Head(net[p])
        pts == Points(p, state[p].next[p], m.next)
        tx == SettleTx(p, pts) IN
    /\ Receives(p, "SettleAccept")
    /\ InState(p, "SettledOffered")
    /\ SettleAcceptValid(p, m)
    /\ SetState(p, WithNext(Variant("SettledConfirmed", tx, NoContract), pts))
    /\ WatchTx(p, SettleEntry(tx, TRUE))
    /\ Hold(p, tx)
    /\ Reveal(p)
    /\ Reply(p, Msg("SettleConfirm", 0, PerUpdateSecret(p), tx))
    /\ UNCHANGED <<ctype, rollback, updateIdx, points, secrets, contracts,
                   stored, chainVars, panicked, used>>

(* The buffer transaction a settlement revokes, with the role this party   *)
(* has in it.                                                              *)
M_SettledEntryAsAccepter(p) ==
    RevokedEntry(rollback[p].tx, updateIdx[p], FALSE)
SettledEntry(p) ==
    RevokedEntry(rollback[p].tx, updateIdx[p], rollback[p].isOffer)

(* Both sides adopt the settled state in the same way: the counter party's *)
(* secret is stored, the previous buffer transaction is watched as revoked *)
(* and its contract is closed with the channel, in one write.              *)
AdoptSettled(p) ==
    /\ SetState(p, Variant("Settled", state[p].tx, NoContract))
    /\ rollback' = [rollback EXCEPT ![p] = NoState]
    /\ StepUpdateIdx(p)
    /\ points' = [points EXCEPT ![p] = state[p].next]
    /\ StoreSecret(p)
    /\ WatchTx(p, SettledEntry(p))
    /\ SetContract(p, rollback[p].contract, "Closed")
    /\ Persist(p)

(* What settle_channel_finalize and settle_channel_on_finalize check.      *)
SettleConfirmValid(p, m) ==
    /\ rollback[p].name = "Established"
    /\ m.sig = state[p].tx
    /\ m.secret = points[p][Other(p)]
M_SettleFinalizeNextSecret(p, m) ==
    /\ rollback[p].name = "Established"
    /\ m.secret = state[p].next[Other(p)]
SettleFinalizeValid(p, m) ==
    /\ rollback[p].name = "Established"
    /\ m.secret = points[p][Other(p)]

(* get_collaboratively_closed_contract.                                    *)
ContractConfirmed(p, id) ==
    id \in ContractId /\ contracts[p][id] = "Confirmed"

OnSettleConfirm(p) ==
    LET m == Head(net[p]) IN
    /\ Receives(p, "SettleConfirm")
    /\ InState(p, "SettledAccepted")
    /\ SettleConfirmValid(p, m)
    /\ ContractConfirmed(p, rollback[p].contract)
    /\ AdoptSettled(p)
    /\ Hold(p, state[p].tx)
    /\ Reveal(p)
    /\ Reply(p, Msg("SettleFinalize", 0, PerUpdateSecret(p), NoTx))
    /\ UNCHANGED <<ctype, chainVars, panicked, used>>

OnSettleFinalize(p) ==
    LET m == Head(net[p]) IN
    /\ Receives(p, "SettleFinalize")
    /\ InState(p, "SettledConfirmed")
    /\ SettleFinalizeValid(p, m)
    /\ ContractConfirmed(p, rollback[p].contract)
    /\ AdoptSettled(p)
    /\ Consume(p)
    /\ UNCHANGED <<ctype, chainVars, historyVars, panicked, used>>

(* When the contract is not yet Confirmed the handler fails after it       *)
(* changed the monitor in memory; neither channel nor monitor is stored.   *)
OnSettleUnconfirmed(p) ==
    LET m == Head(net[p]) IN
    /\ \/ /\ Receives(p, "SettleConfirm")
          /\ InState(p, "SettledAccepted")
          /\ SettleConfirmValid(p, m)
       \/ /\ Receives(p, "SettleFinalize")
          /\ InState(p, "SettledConfirmed")
          /\ SettleFinalizeValid(p, m)
    /\ ~ContractConfirmed(p, rollback[p].contract)
    /\ WatchTx(p, SettledEntry(p))
    /\ Consume(p)
    /\ UNCHANGED <<chanVars, contracts, stored, chainVars, historyVars,
                   panicked, used>>

-----------------------------------------------------------------------------
(* Renewing: offer, accept, confirm, finalize, revoke.                     *)

RenewOffer(p) ==
    LET next == updateIdx[p] + 1 IN
    /\ Signed(p) /\ state[p].name \in StableStates
    /\ updateIdx[p] < MaxUpdates
    /\ MoveTo(p, WithOffer(WithNext(Variant("RenewOffered", NoTx, TempId(next)),
                                    Points(p, next, 0)), TRUE))
    /\ SetContract(p, TempId(next), "Offered")
    /\ Send(p, Msg("RenewOffer", next, 0, NoTx))
    /\ UNCHANGED <<ctype, updateIdx, points, secrets, monitor, stored,
                   chainVars, historyVars, panicked, used>>

(* A renew offer that crosses our own is answered with a Reject.           *)
OnRenewOfferReject(p) ==
    /\ Receives(p, "RenewOffer")
    /\ InState(p, "RenewOffered") /\ state[p].isOffer
    /\ Reply(p, Msg("Reject", 0, 0, NoTx))
    /\ UNCHANGED <<chanVars, storeVars, chainVars, historyVars, panicked, used>>

OnRenewOffer(p) ==
    LET next == updateIdx[p] + 1 IN
    /\ Receives(p, "RenewOffer")
    /\ Signed(p) /\ state[p].name \in StableStates
    /\ updateIdx[p] < MaxUpdates
    /\ MoveTo(p, WithNext(Variant("RenewOffered", NoTx, TempId(next)),
                          Points(p, 0, Head(net[p]).next)))
    /\ SetContract(p, TempId(next), "Offered")
    /\ Consume(p)
    /\ UNCHANGED <<ctype, updateIdx, points, secrets, monitor, stored,
                   chainVars, historyVars, panicked, used>>

ContractOffered(p, id) == id \in ContractId /\ contracts[p][id] = "Offered"

AcceptRenewOffer(p) ==
    LET next == updateIdx[p] + 1
        pts == Points(p, next, state[p].next[Other(p)])
        tx == BufferTx(Other(p), pts) IN
    /\ InState(p, "RenewOffered")
    /\ updateIdx[p] < MaxUpdates
    /\ ContractOffered(p, state[p].contract)
    /\ SetState(p, WithNext(Variant("RenewAccepted", tx, FinalId(next)), pts))
    /\ contracts' = [contracts EXCEPT ![p][state[p].contract] = "None",
                                      ![p][FinalId(next)] = "Accepted"]
    /\ Send(p, Msg("RenewAccept", next, 0, tx))
    /\ UNCHANGED <<ctype, rollback, updateIdx, points, secrets, monitor,
                   stored, chainVars, historyVars, panicked, used>>

RejectRenewOffer(p) ==
    /\ InState(p, "RenewOffered") /\ ~state[p].isOffer
    /\ ContractOffered(p, state[p].contract)
    /\ RollBack(p)
    /\ SetContract(p, state[p].contract, "Rejected")
    /\ Send(p, Msg("Reject", 0, 0, NoTx))
    /\ UNCHANGED <<ctype, updateIdx, points, secrets, monitor, stored,
                   chainVars, historyVars, panicked, used>>

(* What verify_renew_accept_and_confirm checks.                            *)
RenewAcceptValid(p, m) ==
    /\ ContractOffered(p, state[p].contract)
    /\ m.sig = BufferTx(p, Points(p, state[p].next[p], m.next))

(* The new contract is stored as Confirmed at once; the new buffer         *)
(* transaction is not watched yet.                                         *)
OnRenewAccept(p) ==
    LET m == Head(net[p])
        pts == Points(p, state[p].next[p], m.next)
        tx == BufferTx(p, pts)
        id == FinalId(state[p].contract[2]) IN
    /\ Receives(p, "RenewAccept")
    /\ InState(p, "RenewOffered")
    /\ RenewAcceptValid(p, m)
    /\ SetState(p, WithNext(Variant("RenewConfirmed", tx, id), pts))
    /\ SetContract(p, id, "Confirmed")
    /\ Reply(p, Msg("RenewConfirm", 0, 0, tx))
    /\ UNCHANGED <<ctype, rollback, updateIdx, points, secrets, monitor,
                   stored, chainVars, historyVars, panicked, used>>

(* The state a renewal replaces.  Its contract, if it is Established, must *)
(* be Confirmed; its transaction is watched as revoked, always with        *)
(* is_offer false.                                                         *)
RenewableRollback(p) ==
    \/ rollback[p].name = "Settled"
    \/ /\ rollback[p].name = "Established"
       /\ ContractConfirmed(p, rollback[p].contract)
M_SupersededEntryOfNext(p) ==
    RevokedEntry(rollback[p].tx, updateIdx[p] + 1, FALSE)
SupersededEntry(p) == RevokedEntry(rollback[p].tx, updateIdx[p], FALSE)
M_SupersededStaysOpen(p, cs) == cs
WithSupersededClosed(p, cs) ==
    IF rollback[p].name = "Established"
    THEN [cs EXCEPT ![rollback[p].contract] = "Closed"] ELSE cs

(* What verify_renew_confirm_and_finalize, renew_channel_on_finalize and   *)
(* renew_channel_on_revoke check.                                          *)
RenewConfirmValid(p, m) ==
    /\ RenewableRollback(p)
    /\ contracts[p][state[p].contract] = "Accepted"
    /\ m.sig = state[p].tx
RenewFinalizeValid(p, m) ==
    /\ RenewableRollback(p)
    /\ m.sig = state[p].tx
    /\ m.secret = points[p][Other(p)]
RenewRevokeValid(p, m) == m.secret = state[p].prev

(* The accepting party now holds the new buffer transaction and gives up   *)
(* its secret; the offering one has not given up its own yet.  The old     *)
(* contract is closed by a second write.                                   *)
OnRenewConfirm(p) ==
    LET m == Head(net[p])
        s == state[p] IN
    /\ Receives(p, "RenewConfirm")
    /\ InState(p, "RenewAccepted")
    /\ RenewConfirmValid(p, m)
    /\ SetState(p, WithPrev(Variant("RenewFinalized", s.tx, s.contract),
                            points[p][Other(p)]))
    /\ points' = [points EXCEPT ![p] = s.next]
    /\ monitor' = [monitor EXCEPT ![p] =
                     AddTx(AddTx(@, Entry(s.tx, "BufferTx")),
                           SupersededEntry(p))]
    /\ Persist(p)
    /\ contracts' = [contracts EXCEPT ![p] =
         WithSupersededClosed(p, [@ EXCEPT ![s.contract] = "Confirmed"])]
    /\ Hold(p, s.tx)
    /\ Reveal(p)
    /\ Reply(p, Msg("RenewFinalize", 0, PerUpdateSecret(p), s.tx))
    /\ UNCHANGED <<ctype, rollback, updateIdx, secrets, chainVars, panicked,
                   used>>

OnRenewFinalize(p) ==
    LET m == Head(net[p])
        s == state[p] IN
    /\ Receives(p, "RenewFinalize")
    /\ InState(p, "RenewConfirmed")
    /\ RenewFinalizeValid(p, m)
    /\ SetState(p, WithOffer(Variant("Established", s.tx, s.contract), TRUE))
    /\ rollback' = [rollback EXCEPT ![p] = NoState]
    /\ StepUpdateIdx(p)
    /\ points' = [points EXCEPT ![p] = s.next]
    /\ StoreSecret(p)
    /\ monitor' = [monitor EXCEPT ![p] =
                     AddTx(AddTx(@, SupersededEntry(p)),
                           Entry(s.tx, "BufferTx"))]
    /\ Persist(p)
    /\ contracts' = [contracts EXCEPT ![p] = WithSupersededClosed(p, @)]
    /\ Hold(p, s.tx)
    /\ Reveal(p)
    /\ Reply(p, Msg("RenewRevoke", 0, PerUpdateSecret(p), NoTx))
    /\ UNCHANGED <<ctype, chainVars, panicked, used>>

(* roll_back_state is left as it is, and is_offer becomes true although    *)
(* this party accepted the renewal.                                        *)
OnRenewRevoke(p) ==
    LET s == state[p] IN
    /\ Receives(p, "RenewRevoke")
    /\ InState(p, "RenewFinalized")
    /\ RenewRevokeValid(p, Head(net[p]))
    /\ SetState(p, WithOffer(Variant("Established", s.tx, s.contract), TRUE))
    /\ StepUpdateIdx(p)
    /\ StoreSecret(p)
    /\ Consume(p)
    /\ UNCHANGED <<ctype, rollback, points, storeVars, chainVars,
                   historyVars, panicked, used>>

-----------------------------------------------------------------------------
(* A Reject of our offer rolls it back; in a stable state it is ignored.   *)
OnReject(p) ==
    /\ Receives(p, "Reject")
    /\ Signed(p)
    /\ \/ /\ state[p].name \in StableStates
          /\ UNCHANGED <<state, rollback, contracts>>
       \/ /\ state[p].name = "SettledOffered"
          /\ RollBack(p)
          /\ UNCHANGED contracts
       \/ /\ state[p].name = "RenewOffered" /\ state[p].isOffer
          /\ ContractOffered(p, state[p].contract)
          /\ RollBack(p)
          /\ SetContract(p, state[p].contract, "Rejected")
    /\ Consume(p)
    /\ UNCHANGED <<ctype, updateIdx, points, secrets, monitor, stored,
                   chainVars, historyVars, panicked, used>>

-----------------------------------------------------------------------------
(* Collaborative close.                                                    *)

(* Nothing checks the state the channel is in.                             *)
OfferCollaborativeClose(p) ==
    LET tx == CloseTx(p) IN
    /\ Signed(p)
    /\ used.closes < MaxCloseOffers
    /\ MoveTo(p, WithOffer(Variant("CollaborativeCloseOffered", tx, NoContract),
                           TRUE))
    /\ WatchTx(p, Entry(tx, "CollaborativeClose"))
    /\ Persist(p)
    /\ Send(p, Msg("CollaborativeCloseOffer", 0, 0, tx))
    /\ used' = [used EXCEPT !.closes = @ + 1]
    /\ UNCHANGED <<ctype, updateIdx, points, secrets, contracts, chainVars,
                   historyVars, panicked>>

(* Only the absence of a roll back state is checked.                       *)
OnCollaborativeCloseOffer(p) ==
    /\ Receives(p, "CollaborativeCloseOffer")
    /\ Signed(p)
    /\ rollback[p] = NoState
    /\ MoveTo(p, Variant("CollaborativeCloseOffered", CloseTx(Other(p)),
                         NoContract))
    /\ Consume(p)
    /\ UNCHANGED <<ctype, updateIdx, points, secrets, storeVars, chainVars,
                   historyVars, panicked, used>>

(* The channel is closed, and no longer watched over, as soon as the close *)
(* transaction is broadcast.                                               *)
AcceptCollaborativeClose(p) ==
    LET prev == rollback[p] IN
    /\ InState(p, "CollaborativeCloseOffered") /\ ~state[p].isOffer
    /\ CanSend(state[p].tx)
    /\ Broadcast(p, state[p].tx)
    /\ ctype' = [ctype EXCEPT ![p] = "CollaborativelyClosed"]
    /\ \/ /\ prev.name = "Established"
          /\ ContractConfirmed(p, prev.contract)
          /\ SetContract(p, prev.contract, "Closed")
       \/ prev.name # "Established" /\ UNCHANGED contracts
    /\ UNCHANGED <<state, rollback, updateIdx, points, secrets, monitor,
                   stored, chain, pool, spent, attested, historyVars, net,
                   panicked, used>>

-----------------------------------------------------------------------------
(* Forced close.                                                           *)

(* The state a forced close starts from.                                   *)
ClosedFrom(p) ==
    IF state[p].name \in RollbackStates THEN rollback[p] ELSE state[p]
RolledBack(p) ==
    IF state[p].name \in RollbackStates THEN NoState ELSE rollback[p]

(* The buffer or settle transaction is signed with the key of the current  *)
(* per-update point, which must be the one it was built with.              *)
UnilateralCloseEstablished(p, s) ==
    /\ s.name \in {"Established", "RenewFinalized"}
    /\ s.tx.point[p] = points[p][p]
UnilateralCloseSettled(p, s) ==
    /\ s.name = "Settled"
    /\ s.tx.point[p] = points[p][p]

ForceCloseEstablished(p) ==
    LET s == ClosedFrom(p) IN
    /\ Signed(p)
    /\ UnilateralCloseEstablished(p, s)
    /\ CanSend(s.tx)
    /\ SetState(p, AsInitiator(Variant("Closing", s.tx, GetContractId(s))))
    /\ rollback' = [rollback EXCEPT ![p] = RolledBack(p)]
    /\ Broadcast(p, s.tx)
    /\ monitor' = [monitor EXCEPT ![p] = RemoveTx(@, s.tx)]
    /\ Persist(p)
    /\ UNCHANGED <<ctype, updateIdx, points, secrets, contracts, chain, pool,
                   spent, attested, historyVars, net, panicked, used>>

(* The monitor forgets the channel, but only in memory.                    *)
ForceCloseSettled(p) ==
    LET s == ClosedFrom(p) IN
    /\ Signed(p)
    /\ UnilateralCloseSettled(p, s)
    /\ CanSend(s.tx)
    /\ \E offered \in DidWeOfferLastSettlement(monitor[p]) :
         SetState(p, WithOffer(AsInitiator(Variant("SettledClosing", s.tx,
                                                   NoContract)), offered))
    /\ rollback' = [rollback EXCEPT ![p] = RolledBack(p)]
    /\ Broadcast(p, s.tx)
    /\ monitor' = [monitor EXCEPT ![p] = EmptyMonitor]
    /\ UNCHANGED <<ctype, updateIdx, points, secrets, contracts, stored,
                   chain, pool, spent, attested, historyVars, net, panicked,
                   used>>

(* expect("to have a rollback state") in force_close_channel_internal.     *)
ForceCloseFails(p) ==
    /\ Signed(p)
    /\ state[p].name \in RollbackStates
    /\ rollback[p].name \in RollbackStates \cup {"None"}
    /\ Panic(p)

-----------------------------------------------------------------------------
(* The periodic check: contracts, closing channels, watched transactions.  *)

Confirmed(tx) == chain.depth > 0 /\ chain.tx = tx
Matured(tx) == chain.depth = 2 /\ chain.tx = tx      \* CET_NSEQUENCE blocks

(* An output is free for a transaction when no confirmed one conflicts.    *)
OutputFree(s) ==
    CASE s.kind = "cet" -> \A x \in spent : x.kind = "cet"
      [] s.kind = "punish" /\ chain.tx.kind = "buffer" -> spent \subseteq {s}
      [] s.kind = "punish" -> [kind |-> "claim", by |-> Other(s.by)] \notin spent
      [] s.kind = "claim" -> [kind |-> "punish", by |-> Other(s.by)] \notin spent
BroadcastSpend(s) == pool' = pool \cup {s}
CetConfirmed == \E x \in spent : x.kind = "cet"

CheckSignedContract(p) ==
    /\ p \notin panicked
    /\ \E id \in ContractId :
         /\ contracts[p][id] = "Signed"
         /\ SetContract(p, id, "Confirmed")
    /\ UNCHANGED <<chanVars, monitor, stored, chainVars, historyVars, net,
                   panicked, used>>

CheckPreclosedContract(p) ==
    /\ p \notin panicked
    /\ \E id \in ContractId :
         /\ contracts[p][id] = "PreClosed"
         /\ SetContract(p, id, "Closed")
    /\ UNCHANGED <<chanVars, monitor, stored, chainVars, historyVars, net,
                   panicked, used>>

(* The CET is built from the contract and signed for the buffer output     *)
(* that the current per-update points give: it is valid only if these are  *)
(* those of the confirmed buffer transaction.                              *)
CetValid(p) ==
    /\ points[p] = state[p].tx.point
    /\ state[p].contract = FinalId(state[p].tx.point[p])
TryFinalizeClosingEstablishedChannel(p) ==
    LET s == state[p]
        cet == [kind |-> "cet", by |-> p] IN
    /\ InState(p, "Closing")
    /\ Matured(s.tx)
    /\ ContractConfirmed(p, s.contract)
    /\ attested
    /\ CetValid(p)
    /\ OutputFree(cet)
    /\ pool' = IF CetConfirmed THEN pool ELSE pool \cup {cet}
    /\ SetContract(p, s.contract, IF CetConfirmed THEN "Closed" ELSE "PreClosed")
    /\ monitor' = [monitor EXCEPT ![p] = EmptyMonitor]
    /\ ctype' = [ctype EXCEPT ![p] =
                   IF s.isInitiator THEN "Closed" ELSE "CounterClosed"]
    /\ UNCHANGED <<state, rollback, updateIdx, points, secrets, stored,
                   mempool, chain, spent, attested, historyVars, net,
                   panicked, used>>

(* The claimed output is found by the script of the current points.        *)
ClaimFound(p) == points[p] = state[p].tx.point
TryFinalizeSettledClosingChannel(p) ==
    LET claim == [kind |-> "claim", by |-> p] IN
    /\ InState(p, "SettledClosing")
    /\ Matured(state[p].tx)
    /\ ClaimFound(p)
    /\ OutputFree(claim)
    /\ BroadcastSpend(claim)
    /\ ctype' = [ctype EXCEPT ![p] = "SettledClosing"]
    /\ UNCHANGED <<state, rollback, updateIdx, points, secrets, storeVars,
                   mempool, chain, spent, attested, historyVars, net,
                   panicked, used>>

TryConfirmClaimTx(p) ==
    /\ p \notin panicked
    /\ ctype[p] = "SettledClosing"
    /\ [kind |-> "claim", by |-> p] \in spent
    /\ monitor' = [monitor EXCEPT ![p] = EmptyMonitor]
    /\ ctype' = [ctype EXCEPT ![p] =
                   IF state[p].isInitiator THEN "Closed" ELSE "CounterClosed"]
    /\ UNCHANGED <<state, rollback, updateIdx, points, secrets, contracts,
                   stored, chainVars, historyVars, net, panicked, used>>

(* process_watched_txs, for the watched transaction that is confirmed.     *)
ConfirmedWatch(p, type) ==
    {e \in monitor[p].tx : e.type = type /\ Confirmed(e.tx)}

(* expect("to have a contract id").                                        *)
ProcessBufferTxFails(p) ==
    /\ Signed(p)
    /\ ConfirmedWatch(p, "BufferTx") # {}
    /\ GetContractId(state[p]) = NoContract
    /\ Panic(p)

ProcessBufferTx(p) ==
    /\ Signed(p)
    /\ GetContractId(state[p]) # NoContract
    /\ \E e \in ConfirmedWatch(p, "BufferTx") :
         MoveTo(p, Variant("Closing", e.tx, GetContractId(state[p])))
    /\ UNCHANGED <<ctype, updateIdx, points, secrets, storeVars, chainVars,
                   historyVars, net, panicked, used>>

ProcessSettleTx2(p) ==
    /\ Signed(p)
    /\ \E e \in ConfirmedWatch(p, "SettleTx2") :
         MoveTo(p, WithOffer(Variant("SettledClosing", e.tx, NoContract),
                             e.isOffer))
    /\ UNCHANGED <<ctype, updateIdx, points, secrets, storeVars, chainVars,
                   historyVars, net, panicked, used>>

(* expect("to be able to retrieve the per update secret").                 *)
ProcessRevokedFails(p) ==
    /\ Signed(p)
    /\ \E e \in ConfirmedWatch(p, "Revoked") : e.idx \notin secrets[p]
    /\ Panic(p)

(* The punishment needs the counter party's secret for the update of the   *)
(* transaction, its signature from the witness (so the counter party must  *)
(* be the one who broadcast it) and the roles the two parties had.         *)
M_PunishableWhoeverPublished(p, e) ==
    /\ e.idx \in secrets[p]
    /\ e.idx = e.tx.point[Other(p)]
    /\ e.isOffer = (e.tx.offerer = p)
    /\ OutputFree([kind |-> "punish", by |-> p])
Punishable(p, e) ==
    /\ e.idx \in secrets[p]
    /\ e.idx = e.tx.point[Other(p)]
    /\ chain.by = Other(p)
    /\ e.isOffer = (e.tx.offerer = p)
    /\ OutputFree([kind |-> "punish", by |-> p])
ProcessRevoked(p) ==
    /\ Signed(p)
    /\ \E e \in ConfirmedWatch(p, "Revoked") : Punishable(p, e)
    /\ BroadcastSpend([kind |-> "punish", by |-> p])
    /\ ctype' = [ctype EXCEPT ![p] = "ClosedPunished"]
    /\ monitor' = [monitor EXCEPT ![p] = EmptyMonitor]
    /\ Persist(p)
    /\ UNCHANGED <<state, rollback, updateIdx, points, secrets, contracts,
                   mempool, chain, spent, attested, historyVars, net,
                   panicked, used>>

ProcessCollaborativeClose(p) ==
    LET prev == rollback[p] IN
    /\ InState(p, "CollaborativeCloseOffered")
    /\ ConfirmedWatch(p, "CollaborativeClose") # {}
    /\ \/ /\ prev.name = "Established"
          /\ ContractConfirmed(p, prev.contract)
          /\ SetContract(p, prev.contract, "Closed")
       \/ prev.name # "Established" /\ UNCHANGED contracts
    /\ ctype' = [ctype EXCEPT ![p] = "CollaborativelyClosed"]
    /\ monitor' = [monitor EXCEPT ![p] = EmptyMonitor]
    /\ Persist(p)
    /\ UNCHANGED <<state, rollback, updateIdx, points, secrets, chainVars,
                   historyVars, net, panicked, used>>

(* No watched transaction is left for the loop to act on, or to fail on.   *)
Quiet(p) ==
    ctype[p] = "Signed" =>
      \A e \in monitor[p].tx : Confirmed(e.tx) =>
         \/ e.type = "BufferTx" /\ state[p].name = "Closing"
         \/ e.type = "SettleTx2" /\ state[p].name = "SettledClosing"

(* The output of a watched buffer transaction is spent, by whatever        *)
(* transaction; the loop comes to it after the watched transactions, and   *)
(* after check_signed_contracts, which finds the fund transaction long     *)
(* confirmed when the spent one has matured.                               *)
ProcessCet(p) ==
    LET id == GetContractId(state[p]) IN
    /\ Signed(p)
    /\ chain.depth > 0 /\ chain.tx \in monitor[p].txo /\ spent # {}
    /\ Quiet(p)
    /\ chain.depth = 2 => \A c \in ContractId : contracts[p][c] # "Signed"
    /\ ctype' = [ctype EXCEPT ![p] =
                   IF state[p].name = "Closing" /\ ~state[p].isInitiator
                   THEN "CounterClosed" ELSE "Closed"]
    /\ \/ ContractConfirmed(p, id) /\ SetContract(p, id, "PreClosed")
       \/ ~ContractConfirmed(p, id) /\ UNCHANGED contracts
    /\ monitor' = [monitor EXCEPT ![p] = EmptyMonitor]
    /\ Persist(p)
    /\ UNCHANGED <<state, rollback, updateIdx, points, secrets, chainVars,
                   historyVars, net, panicked, used>>

(* The periodic check ends with the monitor persisted, unless the loop     *)
(* over the watched transactions failed.                                   *)
CheckForWatchedTx(p) ==
    /\ p \notin panicked
    /\ Quiet(p)
    /\ stored[p] # monitor[p]
    /\ stored' = [stored EXCEPT ![p] = monitor[p]]
    /\ UNCHANGED <<chanVars, contracts, monitor, chainVars, historyVars, net,
                   panicked, used>>

-----------------------------------------------------------------------------
(* Messages no handler accepts: the handler returns an error, or the       *)
(* channel is not Signed any more, and nothing changes.                    *)
Accepts(p, m) ==
    LET s == state[p] IN
    /\ Signed(p)
    /\ CASE m.type = "SettleOffer" -> s.name \in {"Established", "SettledOffered"}
         [] m.type = "SettleAccept" ->
              s.name = "SettledOffered" /\ SettleAcceptValid(p, m)
         [] m.type = "SettleConfirm" ->
              s.name = "SettledAccepted" /\ SettleConfirmValid(p, m)
         [] m.type = "SettleFinalize" ->
              s.name = "SettledConfirmed" /\ SettleFinalizeValid(p, m)
         [] m.type = "RenewOffer" ->
              \/ s.name \in StableStates
              \/ s.name = "RenewOffered" /\ s.isOffer
         [] m.type = "RenewAccept" ->
              s.name = "RenewOffered" /\ RenewAcceptValid(p, m)
         [] m.type = "RenewConfirm" ->
              s.name = "RenewAccepted" /\ RenewConfirmValid(p, m)
         [] m.type = "RenewFinalize" ->
              s.name = "RenewConfirmed" /\ RenewFinalizeValid(p, m)
         [] m.type = "RenewRevoke" ->
              s.name = "RenewFinalized" /\ RenewRevokeValid(p, m)
         [] m.type = "CollaborativeCloseOffer" -> rollback[p] = NoState
         [] m.type = "Reject" ->
              \/ s.name \in StableStates \cup {"SettledOffered"}
              \/ /\ s.name = "RenewOffered" /\ s.isOffer
                 /\ ContractOffered(p, s.contract)
HandlerError(p) ==
    /\ p \notin panicked
    /\ net[p] # <<>>
    /\ ~Accepts(p, Head(net[p]))
    /\ Consume(p)
    /\ UNCHANGED <<chanVars, storeVars, chainVars, historyVars, panicked, used>>

-----------------------------------------------------------------------------
(* The environment.                                                        *)

(* A block confirms one of the transactions spending the fund output.      *)
Mine ==
    /\ chain.depth = 0
    /\ \E s \in mempool : chain' = [tx |-> s.tx, by |-> s.by, depth |-> 1]
    /\ UNCHANGED <<chanVars, storeVars, mempool, pool, spent, attested,
                   historyVars, net, panicked, used>>
Mature ==
    /\ chain.depth = 1
    /\ chain' = [chain EXCEPT !.depth = 2]
    /\ UNCHANGED <<chanVars, storeVars, mempool, pool, spent, attested,
                   historyVars, net, panicked, used>>
MineSpend ==
    /\ \E s \in pool \ spent :
         /\ OutputFree(s)
         /\ s.kind = "cet" => ~CetConfirmed
         /\ spent' = spent \cup {s}
    /\ UNCHANGED <<chanVars, storeVars, mempool, chain, pool, attested,
                   historyVars, net, panicked, used>>
Attest ==
    /\ ~attested
    /\ attested' = TRUE
    /\ UNCHANGED <<chanVars, storeVars, mempool, chain, pool, spent,
                   historyVars, net, panicked, used>>

LoseMessage(p) ==
    /\ net[p] # <<>>
    /\ used.lost < MaxLost
    /\ Consume(p)
    /\ used' = [used EXCEPT !.lost = @ + 1]
    /\ UNCHANGED <<chanVars, storeVars, chainVars, historyVars, panicked>>

(* The manager is dropped and built again from its store.                  *)
Restart(p) ==
    /\ p \notin panicked
    /\ used.restarts < MaxRestarts
    /\ monitor[p] # stored[p]
    /\ monitor' = [monitor EXCEPT ![p] = stored[p]]
    /\ used' = [used EXCEPT !.restarts = @ + 1]
    /\ UNCHANGED <<chanVars, contracts, stored, chainVars, historyVars, net,
                   panicked>>

(* A party publishes a transaction it once got signed, outside its manager *)
(* (what the cheating tests do from a saved state).                        *)
PublishOld(p) ==
    /\ used.cheats < MaxCheats
    /\ chain.depth = 0
    /\ \E tx \in held[p] : mempool' = mempool \cup {[tx |-> tx, by |-> p]}
    /\ used' = [used EXCEPT !.cheats = @ + 1]
    /\ UNCHANGED <<chanVars, storeVars, chain, pool, spent, attested,
                   historyVars, net, panicked>>

-----------------------------------------------------------------------------
(* What the applications do with the calls that the manager does not guard *)
(* itself: they accept renewals the peer offered, and offer to close a     *)
(* channel that is in a stable state unless Calls has "closeAnytime".      *)
OfferUpdate(p) ==
    /\ p \in Offering
    /\ \/ "settle" \in Calls /\ SettleOffer(p)
       \/ "renew" \in Calls /\ RenewOffer(p)
AnswerOffer(p) ==
    \/ AcceptSettleOffer(p)
    \/ ~state[p].isOffer /\ AcceptRenewOffer(p)
    \/ "reject" \in Calls /\ (RejectSettleOffer(p) \/ RejectRenewOffer(p))
OfferClose(p) ==
    /\ p \in Offering
    /\ \/ "close" \in Calls /\ state[p].name \in StableStates
       \/ "closeAnytime" \in Calls
    /\ OfferCollaborativeClose(p)
ForceClose(p) ==
    /\ "force" \in Calls
    /\ ForceCloseEstablished(p) \/ ForceCloseSettled(p) \/ ForceCloseFails(p)

ApiCall(p) ==
    \/ OfferUpdate(p) \/ AnswerOffer(p)
    \/ OfferClose(p) \/ AcceptCollaborativeClose(p)
    \/ ForceClose(p)

OnDlcMessage(p) ==
    \/ OnSettleOfferReject(p) \/ OnSettleOffer(p) \/ OnSettleAccept(p)
    \/ OnSettleConfirm(p) \/ OnSettleFinalize(p) \/ OnSettleUnconfirmed(p)
    \/ OnRenewOfferReject(p) \/ OnRenewOffer(p) \/ OnRenewAccept(p)
    \/ OnRenewConfirm(p) \/ OnRenewFinalize(p) \/ OnRenewRevoke(p)
    \/ OnReject(p) \/ OnCollaborativeCloseOffer(p) \/ HandlerError(p)

PeriodicCheck(p) ==
    \/ CheckSignedContract(p) \/ CheckPreclosedContract(p)
    \/ TryFinalizeClosingEstablishedChannel(p)
    \/ TryFinalizeSettledClosingChannel(p) \/ TryConfirmClaimTx(p)
    \/ ProcessBufferTx(p) \/ ProcessBufferTxFails(p)
    \/ ProcessSettleTx2(p)
    \/ ProcessRevoked(p) \/ ProcessRevokedFails(p)
    \/ ProcessCollaborativeClose(p) \/ ProcessCet(p)
    \/ CheckForWatchedTx(p)

Environment ==
    \/ Mine \/ Mature \/ MineSpend \/ Attest
    \/ \E p \in Party : LoseMessage(p) \/ Restart(p) \/ PublishOld(p)

Next ==
    \/ \E p \in Party : ApiCall(p) \/ OnDlcMessage(p) \/ PeriodicCheck(p)
    \/ Environment

Spec == Init /\ [][Next]_vars
=============================================================================
