-------------------------- MODULE DlcChannelReveal ---------------------------
(***************************************************************************)
(* Type correctness of DlcChannel, and no secret of an update given up     *)
(* before the transaction of the next one is held.                         *)
(***************************************************************************)
EXTENDS DlcChannelProperties, SequenceTheorems, TLAPS

-----------------------------------------------------------------------------
(***************************************************************************)
(* Type correctness of DlcChannel, for every choice of its constants.      *)
(***************************************************************************)

-----------------------------------------------------------------------------
(* What the operators on the data return.                                  *)

LEMMA OtherType ==
    ASSUME NEW p \in Party
    PROVE  Other(p) \in Party /\ Other(p) # p /\ Other(Other(p)) = p
  BY ConstantsAssumption DEF Other, Party

LEMMA UpdateType ==
    /\ 0 \in Update
    /\ \A n \in Update : n \in Nat /\ (n < MaxUpdates => n + 1 \in Update)
  BY ConstantsAssumption DEF Update

LEMMA PointsType ==
    ASSUME NEW p \in Party, NEW own \in Update, NEW counter \in Update
    PROVE  Points(p, own, counter) \in [Party -> Update]
  BY DEF Points

LEMMA TxType ==
    /\ NoTx \in Tx
    /\ \A o \in Party : CloseTx(o) \in Tx
    /\ \A o \in Party : \A pts \in [Party -> Update] :
          BufferTx(o, pts) \in Tx /\ SettleTx(o, pts) \in Tx
  <1>1. NoPoints \in [Party -> Update]
    BY UpdateType DEF NoPoints
  <1>2. Alice \in Party
    BY DEF Party
  <1> QED
    BY <1>1, <1>2 DEF Tx, NoTx, CloseTx, BufferTx, SettleTx

LEMMA ContractIdType ==
    /\ \A n \in Update : TempId(n) \in ContractId /\ FinalId(n) \in ContractId
    /\ \A id \in ContractId : id[2] \in Update
  BY DEF TempId, FinalId, ContractId

(* A state keeps its type, and its name, when a field is set.              *)
LEMMA VariantType ==
    ASSUME NEW name \in StateName, NEW tx \in Tx,
           NEW c \in ContractId \cup {NoContract}
    PROVE  /\ Variant(name, tx, c) \in SignedState
           /\ Variant(name, tx, c).name = name
           /\ Variant(name, tx, c).tx = tx
  <1>1. NoPoints \in [Party -> Update]
    BY UpdateType DEF NoPoints
  <1> QED
    BY <1>1, UpdateType DEF Variant, SignedState

LEMMA WithType ==
    ASSUME NEW s \in SignedState
    PROVE  /\ \A pts \in [Party -> Update] :
                 /\ WithNext(s, pts) \in SignedState
                 /\ WithNext(s, pts).name = s.name
           /\ \A n \in Update : /\ WithPrev(s, n) \in SignedState
                                /\ WithPrev(s, n).name = s.name
           /\ \A b \in BOOLEAN : /\ WithOffer(s, b) \in SignedState
                                 /\ WithOffer(s, b).name = s.name
           /\ AsInitiator(s) \in SignedState /\ AsInitiator(s).name = s.name
  BY DEF SignedState, WithNext, WithPrev, WithOffer, AsInitiator

LEMMA VariantWithNext ==
    ASSUME NEW name \in StateName, NEW tx \in Tx,
           NEW c \in ContractId \cup {NoContract}, NEW pts \in [Party -> Update]
    PROVE  /\ WithNext(Variant(name, tx, c), pts) \in SignedState
           /\ WithNext(Variant(name, tx, c), pts).name = name
  BY VariantType, WithType

LEMMA StateFields ==
    ASSUME NEW s \in SignedState
    PROVE  /\ s.name \in StateName
           /\ s.tx \in Tx
           /\ s.contract \in ContractId \cup {NoContract}
           /\ s.next \in [Party -> Update]
           /\ s.prev \in Update
           /\ s.isOffer \in BOOLEAN
           /\ s.isInitiator \in BOOLEAN
           /\ GetContractId(s) \in ContractId \cup {NoContract}
  BY DEF SignedState, GetContractId

LEMMA NoStateType == NoState \in SignedState /\ NoState.name = "None"
  BY VariantType, TxType DEF NoState, StateName

LEMMA MsgType ==
    ASSUME NEW type \in MessageType, NEW next \in Update, NEW secret \in Update,
           NEW sig \in Tx
    PROVE  Msg(type, next, secret, sig) \in Message
  BY DEF Msg, Message

LEMMA MonitorOps ==
    ASSUME NEW m \in Monitor
    PROVE  /\ EmptyMonitor \in Monitor
           /\ \A e \in Watch : AddTx(m, e) \in Monitor
           /\ \A tx \in Tx : RemoveTx(m, tx) \in Monitor
  BY DEF Monitor, EmptyMonitor, AddTx, RemoveTx, Watch

LEMMA EntryType ==
    /\ \A tx \in Tx, type \in WatchType : Entry(tx, type) \in Watch
    /\ \A tx \in Tx, b \in BOOLEAN : SettleEntry(tx, b) \in Watch
    /\ \A tx \in Tx, n \in Update, b \in BOOLEAN :
          RevokedEntry(tx, n, b) \in Watch
  BY UpdateType DEF Entry, SettleEntry, RevokedEntry, Watch, WatchType
-----------------------------------------------------------------------------
(* What the pieces of actions do to the types of the variables.            *)

StateTyped == state \in [Party -> SignedState]
RollbackTyped == rollback \in [Party -> SignedState]
NetTyped == net \in [Party -> Seq(Message)]
MonitorTyped == monitor \in [Party -> Monitor]
StoredTyped == stored \in [Party -> Monitor]
ContractsTyped == contracts \in [Party -> [ContractId -> ContractState]]

LEMMA SetStateType ==
    ASSUME StateTyped, NEW p \in Party, NEW s \in SignedState, SetState(p, s)
    PROVE  StateTyped' /\ state'[p] = s /\ (\A q \in Party \ {p} : state'[q] = state[q])
  BY DEF StateTyped, SetState

LEMMA MoveToType ==
    ASSUME StateTyped, RollbackTyped, NEW p \in Party, NEW s \in SignedState,
           MoveTo(p, s)
    PROVE  /\ StateTyped' /\ RollbackTyped'
           /\ state'[p] = s /\ rollback'[p] = state[p]
           /\ \A q \in Party \ {p} : state'[q] = state[q] /\ rollback'[q] = rollback[q]
  BY DEF StateTyped, RollbackTyped, MoveTo

LEMMA RollBackType ==
    ASSUME StateTyped, RollbackTyped, NEW p \in Party, RollBack(p)
    PROVE  /\ StateTyped' /\ RollbackTyped'
           /\ state'[p] = rollback[p] /\ rollback'[p] = NoState
           /\ \A q \in Party \ {p} : state'[q] = state[q] /\ rollback'[q] = rollback[q]
  BY NoStateType DEF StateTyped, RollbackTyped, RollBack

LEMMA SetRollbackType ==
    ASSUME RollbackTyped, NEW p \in Party, NEW s \in SignedState,
           rollback' = [rollback EXCEPT ![p] = s]
    PROVE  /\ RollbackTyped' /\ rollback'[p] = s
           /\ \A q \in Party \ {p} : rollback'[q] = rollback[q]
  BY DEF RollbackTyped

LEMMA HeadType ==
    ASSUME NetTyped, NEW p \in Party, net[p] # <<>>
    PROVE  /\ Head(net[p]) \in Message
           /\ Tail(net[p]) \in Seq(Message)
           /\ Head(net[p]).next \in Update
           /\ Head(net[p]).secret \in Update
           /\ Head(net[p]).sig \in Tx
  <1>1. net[p] \in Seq(Message)
    BY DEF NetTyped
  <1>2. Head(net[p]) \in Message /\ Tail(net[p]) \in Seq(Message)
    BY <1>1, HeadTailProperties
  <1> QED
    BY <1>2 DEF Message

LEMMA SendType ==
    ASSUME NetTyped, NEW p \in Party, NEW m \in Message, Send(p, m)
    PROVE  NetTyped'
  <1>1. Append(net[Other(p)], m) \in Seq(Message)
    BY OtherType, AppendProperties DEF NetTyped
  <1> QED
    BY <1>1, OtherType DEF NetTyped, Send

LEMMA ConsumeType ==
    ASSUME NetTyped, NEW p \in Party, net[p] # <<>>, Consume(p)
    PROVE  NetTyped'
  BY HeadType DEF NetTyped, Consume

LEMMA ReplyType ==
    ASSUME NetTyped, NEW p \in Party, NEW m \in Message, net[p] # <<>>,
           Reply(p, m)
    PROVE  NetTyped'
  <1>1. Append(net[Other(p)], m) \in Seq(Message)
    BY OtherType, AppendProperties DEF NetTyped
  <1>2. Tail(net[p]) \in Seq(Message)
    BY HeadType
  <1>3. net' = [net EXCEPT ![p] = Tail(net[p]),
                           ![Other(p)] = Append(net[Other(p)], m)]
    BY OtherType DEF Reply
  <1> QED
    BY <1>1, <1>2, <1>3, OtherType DEF NetTyped

LEMMA WatchTxType ==
    ASSUME MonitorTyped, NEW p \in Party, NEW e \in Watch, WatchTx(p, e)
    PROVE  MonitorTyped'
  BY MonitorOps DEF MonitorTyped, WatchTx

LEMMA PersistType ==
    ASSUME StoredTyped, MonitorTyped', NEW p \in Party, Persist(p)
    PROVE  StoredTyped'
  BY DEF StoredTyped, MonitorTyped, Persist

LEMMA SetContractType ==
    ASSUME ContractsTyped, NEW p \in Party, NEW id, NEW s \in ContractState,
           SetContract(p, id, s)
    PROVE  ContractsTyped'
  BY DEF ContractsTyped, SetContract
-----------------------------------------------------------------------------
(* The inductive invariant.  TypeOK alone is not inductive: update_idx     *)
(* moves on when an update completes, and stays in its range only because  *)
(* the pending states are entered below the bound; and an offer is rolled  *)
(* back to a stable state, which is not pending.                           *)

Pending == {"SettledOffered", "SettledAccepted", "SettledConfirmed",
            "RenewOffered", "RenewAccepted", "RenewConfirmed",
            "RenewFinalized"}
Revertible == {"SettledOffered", "SettledReceived", "RenewOffered"}
PendingIdx ==
    \A p \in Party :
       /\ state[p].name \in Pending => updateIdx[p] < MaxUpdates
       /\ state[p].name \in Revertible => rollback[p].name \in StableStates

RestTyped ==
    /\ ctype \in [Party -> ChannelType]
    /\ updateIdx \in [Party -> Update]
    /\ points \in [Party -> [Party -> Update]]
    /\ secrets \in [Party -> SUBSET Update]
    /\ panicked \in SUBSET Party
    /\ revealed \in [Party -> SUBSET Update]
    /\ held \in [Party -> SUBSET Tx]
    /\ used \in [lost : Nat, restarts : Nat, cheats : Nat, closes : Nat]
ChainTyped ==
    /\ mempool \in SUBSET FundSpend
    /\ chain \in [tx : Tx, by : Party, depth : 0 .. 2]
    /\ pool \in SUBSET Spend
    /\ spent \in SUBSET Spend
    /\ attested \in BOOLEAN

TypeInv ==
    /\ StateTyped /\ RollbackTyped /\ NetTyped /\ MonitorTyped /\ StoredTyped
    /\ ContractsTyped /\ RestTyped /\ ChainTyped /\ PendingIdx

LEMMA TypeInvImpliesTypeOK == TypeInv => TypeOK
  BY DEF TypeInv, TypeOK, StateTyped, RollbackTyped, NetTyped, MonitorTyped,
         StoredTyped, ContractsTyped, RestTyped, ChainTyped

LEMMA PendingIdxNext ==
    ASSUME PendingIdx, NEW p \in Party,
           \A q \in Party \ {p} : /\ state'[q] = state[q]
                                  /\ rollback'[q] = rollback[q]
                                  /\ updateIdx'[q] = updateIdx[q],
           state'[p].name \in Pending => updateIdx'[p] < MaxUpdates,
           state'[p].name \in Revertible => rollback'[p].name \in StableStates
    PROVE  PendingIdx'
  BY DEF PendingIdx

-----------------------------------------------------------------------------
(* Settling keeps the invariant.                                           *)

LEMMA SettleOfferType ==
    ASSUME TypeInv, NEW p \in Party, SettleOffer(p)
    PROVE  TypeInv'
  <1> DEFINE next == updateIdx[p] + 1
             s == WithNext(Variant("SettledOffered", NoTx, NoContract),
                           Points(p, next, 0))
  <1>1. next \in Update /\ updateIdx[p] < MaxUpdates
    BY UpdateType DEF TypeInv, SettleOffer, RestTyped
  <1>2. s \in SignedState /\ s.name = "SettledOffered"
    <2>1. Points(p, next, 0) \in [Party -> Update]
      BY <1>1, UpdateType, PointsType
    <2> QED
      BY <2>1, VariantWithNext, TxType DEF StateName
  <1>3. MoveTo(p, s) /\ state[p].name \in StableStates /\ updateIdx' = updateIdx
    BY DEF SettleOffer, InState, StableStates
  <1>4. StateTyped' /\ RollbackTyped' /\ PendingIdx'
    <2> HIDE DEF s
    <2> QED BY <1>1, <1>2, <1>3, MoveToType, PendingIdxNext DEF TypeInv
  <1>5. NetTyped'
    BY <1>1, SendType, MsgType, UpdateType, TxType
       DEF TypeInv, SettleOffer, MessageType
  <1> QED
    BY <1>4, <1>5
       DEF TypeInv, SettleOffer, storeVars, chainVars, historyVars,
           MonitorTyped, StoredTyped, ContractsTyped, RestTyped, ChainTyped

LEMMA OnSettleOfferRejectType ==
    ASSUME TypeInv, NEW p \in Party, OnSettleOfferReject(p)
    PROVE  TypeInv'
  <1>1. NetTyped'
    BY ReplyType, MsgType, UpdateType, TxType
       DEF TypeInv, OnSettleOfferReject, Receives, MessageType
  <1> QED
    BY <1>1 DEF TypeInv, OnSettleOfferReject, chanVars, storeVars, chainVars,
                historyVars, StateTyped, RollbackTyped, MonitorTyped,
                StoredTyped, ContractsTyped, RestTyped, ChainTyped, PendingIdx

LEMMA OnSettleOfferType ==
    ASSUME TypeInv, NEW p \in Party, OnSettleOffer(p)
    PROVE  TypeInv'
  <1> DEFINE s == WithNext(Variant("SettledReceived", NoTx, NoContract),
                           Points(p, 0, Head(net[p]).next))
  <1>1. net[p] # <<>> /\ Head(net[p]).next \in Update
    BY HeadType DEF TypeInv, OnSettleOffer, Receives
  <1>2. s \in SignedState /\ s.name = "SettledReceived"
    <2>1. Points(p, 0, Head(net[p]).next) \in [Party -> Update]
      BY <1>1, UpdateType, PointsType
    <2> QED
      BY <2>1, VariantWithNext, TxType DEF StateName
  <1>3. MoveTo(p, s) /\ state[p].name \in StableStates /\ updateIdx' = updateIdx
    BY DEF OnSettleOffer, InState, StableStates
  <1>4. StateTyped' /\ RollbackTyped' /\ PendingIdx'
    <2> HIDE DEF s
    <2> QED BY <1>2, <1>3, MoveToType, PendingIdxNext DEF TypeInv, Pending
  <1>5. NetTyped'
    BY <1>1, ConsumeType DEF TypeInv, OnSettleOffer
  <1> QED
    BY <1>4, <1>5
       DEF TypeInv, OnSettleOffer, storeVars, chainVars, historyVars,
           MonitorTyped, StoredTyped, ContractsTyped, RestTyped, ChainTyped

LEMMA AcceptSettleOfferType ==
    ASSUME TypeInv, NEW p \in Party, AcceptSettleOffer(p)
    PROVE  TypeInv'
  <1> DEFINE next == updateIdx[p] + 1
             pts == Points(p, next, state[p].next[Other(p)])
             tx == SettleTx(Other(p), pts)
             s == WithNext(Variant("SettledAccepted", tx, NoContract), pts)
  <1>1. next \in Update /\ updateIdx[p] < MaxUpdates
    BY UpdateType DEF TypeInv, AcceptSettleOffer, RestTyped
  <1>2. pts \in [Party -> Update] /\ tx \in Tx
    <2>1. state[p].next[Other(p)] \in Update
      BY StateFields, OtherType DEF TypeInv, StateTyped
    <2> QED
      BY <1>1, <2>1, PointsType, TxType, OtherType
  <1>3. s \in SignedState /\ s.name = "SettledAccepted"
    BY <1>2, VariantWithNext DEF StateName
  <1>4. /\ SetState(p, s) /\ WatchTx(p, SettleEntry(tx, FALSE))
        /\ Send(p, Msg("SettleAccept", next, 0, tx))
        /\ rollback' = rollback /\ updateIdx' = updateIdx
    BY DEF AcceptSettleOffer
  <1> HIDE DEF next, pts, tx, s
  <1>5. StateTyped' /\ PendingIdx'
    BY <1>1, <1>3, <1>4, SetStateType, PendingIdxNext DEF TypeInv, Revertible
  <1>6. MonitorTyped'
    BY <1>2, <1>4, WatchTxType, EntryType DEF TypeInv
  <1>7. NetTyped'
    BY <1>1, <1>2, <1>4, SendType, MsgType, UpdateType DEF TypeInv, MessageType
  <1> QED
    BY <1>5, <1>6, <1>7
       DEF TypeInv, AcceptSettleOffer, chainVars, historyVars, RollbackTyped,
           StoredTyped, ContractsTyped, RestTyped, ChainTyped

LEMMA RejectSettleOfferType ==
    ASSUME TypeInv, NEW p \in Party, RejectSettleOffer(p)
    PROVE  TypeInv'
  <1>1. StateTyped' /\ RollbackTyped' /\ PendingIdx'
    <2>1. rollback[p].name \in StableStates /\ RollBack(p) /\ updateIdx' = updateIdx
      BY DEF TypeInv, PendingIdx, Revertible, RejectSettleOffer, InState
    <2> QED
      BY <2>1, RollBackType, PendingIdxNext
         DEF TypeInv, StableStates, Pending, Revertible
  <1>2. NetTyped'
    BY SendType, MsgType, UpdateType, TxType
       DEF TypeInv, RejectSettleOffer, MessageType
  <1> QED
    BY <1>1, <1>2
       DEF TypeInv, RejectSettleOffer, storeVars, chainVars, historyVars,
           MonitorTyped, StoredTyped, ContractsTyped, RestTyped, ChainTyped

LEMMA OnSettleAcceptType ==
    ASSUME TypeInv, NEW p \in Party, OnSettleAccept(p)
    PROVE  TypeInv'
  <1> DEFINE pts == Points(p, state[p].next[p], Head(net[p]).next)
             tx == SettleTx(p, pts)
             s == WithNext(Variant("SettledConfirmed", tx, NoContract), pts)
  <1>1. net[p] # <<>> /\ Head(net[p]).next \in Update
    BY HeadType DEF TypeInv, OnSettleAccept, Receives
  <1>2. updateIdx[p] \in Update /\ updateIdx[p] < MaxUpdates
    BY DEF TypeInv, OnSettleAccept, InState, PendingIdx, Pending, RestTyped
  <1>3. pts \in [Party -> Update] /\ tx \in Tx
    <2>1. state[p].next[p] \in Update
      BY StateFields DEF TypeInv, StateTyped
    <2> QED
      BY <1>1, <2>1, PointsType, TxType
  <1>4. s \in SignedState /\ s.name = "SettledConfirmed"
    BY <1>3, VariantWithNext DEF StateName
  <1>5. /\ SetState(p, s) /\ WatchTx(p, SettleEntry(tx, TRUE))
        /\ Reply(p, Msg("SettleConfirm", 0, PerUpdateSecret(p), tx))
        /\ Hold(p, tx) /\ Reveal(p)
        /\ rollback' = rollback /\ updateIdx' = updateIdx
    BY DEF OnSettleAccept
  <1> HIDE DEF pts, tx, s
  <1>6. StateTyped' /\ PendingIdx'
    BY <1>2, <1>4, <1>5, SetStateType, PendingIdxNext DEF TypeInv, Revertible
  <1>7. MonitorTyped'
    BY <1>3, <1>5, WatchTxType, EntryType DEF TypeInv
  <1>8. NetTyped'
    BY <1>1, <1>2, <1>3, <1>5, ReplyType, MsgType, UpdateType
       DEF TypeInv, MessageType, PerUpdateSecret
  <1>9. RestTyped'
    BY <1>2, <1>3, <1>5
       DEF TypeInv, OnSettleAccept, RestTyped, Hold, Reveal, PerUpdateSecret
  <1> QED
    BY <1>6, <1>7, <1>8, <1>9
       DEF TypeInv, OnSettleAccept, chainVars, RollbackTyped, StoredTyped,
           ContractsTyped, ChainTyped

(* The state a settlement is adopted from is pending, so update_idx has    *)
(* room to move on.                                                        *)
LEMMA AdoptSettledType ==
    ASSUME TypeInv, NEW p \in Party, AdoptSettled(p),
           state[p].name \in Pending
    PROVE  /\ StateTyped' /\ RollbackTyped' /\ PendingIdx'
           /\ MonitorTyped' /\ StoredTyped' /\ ContractsTyped'
           /\ updateIdx' \in [Party -> Update]
           /\ points' \in [Party -> [Party -> Update]]
           /\ secrets' \in [Party -> SUBSET Update]
  <1> DEFINE s == Variant("Settled", state[p].tx, NoContract)
  <1>1. /\ updateIdx[p] \in Update /\ updateIdx[p] < MaxUpdates
        /\ updateIdx[p] + 1 \in Update
    BY UpdateType DEF TypeInv, PendingIdx, RestTyped
  <1>2. /\ state[p].tx \in Tx /\ state[p].next \in [Party -> Update]
        /\ rollback[p].tx \in Tx /\ rollback[p].isOffer \in BOOLEAN
    BY StateFields DEF TypeInv, StateTyped, RollbackTyped
  <1>3. s \in SignedState /\ s.name = "Settled"
    BY <1>2, VariantType DEF StateName
  <1>4. /\ SetState(p, s) /\ rollback' = [rollback EXCEPT ![p] = NoState]
        /\ updateIdx' = [updateIdx EXCEPT ![p] = @ + 1]
        /\ points' = [points EXCEPT ![p] = state[p].next]
        /\ secrets' = [secrets EXCEPT ![p] = @ \cup {updateIdx[p]}]
        /\ WatchTx(p, SettledEntry(p))
        /\ SetContract(p, rollback[p].contract, "Closed")
        /\ Persist(p)
    BY DEF AdoptSettled, StepUpdateIdx, StoreSecret
  <1> HIDE DEF s
  <1>5. /\ updateIdx' \in [Party -> Update]
        /\ \A q \in Party \ {p} : updateIdx'[q] = updateIdx[q]
    BY <1>1, <1>4 DEF TypeInv, RestTyped
  <1>6. StateTyped' /\ RollbackTyped' /\ PendingIdx'
    <2>1. /\ StateTyped' /\ state'[p] = s
          /\ \A q \in Party \ {p} : state'[q] = state[q]
      BY <1>3, <1>4, SetStateType DEF TypeInv
    <2>2. RollbackTyped' /\ \A q \in Party \ {p} : rollback'[q] = rollback[q]
      BY <1>4, SetRollbackType, NoStateType DEF TypeInv
    <2>3. state'[p].name \notin Pending \cup Revertible
      BY <1>3, <2>1 DEF Pending, Revertible
    <2> QED
      BY <1>5, <2>1, <2>2, <2>3, PendingIdxNext DEF TypeInv
  <1>7. MonitorTyped' /\ StoredTyped'
    <2>1. MonitorTyped'
      BY <1>1, <1>2, <1>4, WatchTxType, EntryType DEF TypeInv, SettledEntry
    <2> QED
      BY <1>4, <2>1, PersistType DEF TypeInv
  <1>8. ContractsTyped'
    BY <1>4, SetContractType DEF TypeInv, ContractState
  <1>9. /\ points' \in [Party -> [Party -> Update]]
        /\ secrets' \in [Party -> SUBSET Update]
    BY <1>1, <1>2, <1>4 DEF TypeInv, RestTyped
  <1> QED
    BY <1>5, <1>6, <1>7, <1>8, <1>9

LEMMA OnSettleConfirmType ==
    ASSUME TypeInv, NEW p \in Party, OnSettleConfirm(p)
    PROVE  TypeInv'
  <1>1. state[p].name \in Pending /\ AdoptSettled(p) /\ net[p] # <<>>
    BY DEF OnSettleConfirm, InState, Pending, Receives
  <1>2. updateIdx[p] \in Update /\ state[p].tx \in Tx
    BY StateFields DEF TypeInv, StateTyped, RestTyped
  <1>3. NetTyped'
    BY <1>1, <1>2, ReplyType, MsgType, UpdateType, TxType
       DEF TypeInv, OnSettleConfirm, MessageType, PerUpdateSecret
  <1>4. RestTyped'
    BY <1>1, <1>2, AdoptSettledType
       DEF TypeInv, OnSettleConfirm, RestTyped, Hold, Reveal, PerUpdateSecret
  <1> QED
    BY <1>1, <1>3, <1>4, AdoptSettledType
       DEF TypeInv, OnSettleConfirm, chainVars, ChainTyped

LEMMA OnSettleFinalizeType ==
    ASSUME TypeInv, NEW p \in Party, OnSettleFinalize(p)
    PROVE  TypeInv'
  <1>1. state[p].name \in Pending /\ AdoptSettled(p) /\ net[p] # <<>>
    BY DEF OnSettleFinalize, InState, Pending, Receives
  <1>2. NetTyped'
    BY <1>1, ConsumeType DEF TypeInv, OnSettleFinalize
  <1>3. RestTyped'
    BY <1>1, AdoptSettledType DEF TypeInv, OnSettleFinalize, RestTyped, historyVars
  <1> QED
    BY <1>1, <1>2, <1>3, AdoptSettledType
       DEF TypeInv, OnSettleFinalize, chainVars, ChainTyped

LEMMA OnSettleUnconfirmedType ==
    ASSUME TypeInv, NEW p \in Party, OnSettleUnconfirmed(p)
    PROVE  TypeInv'
  <1>1. net[p] # <<>> /\ WatchTx(p, SettledEntry(p)) /\ Consume(p)
    BY DEF OnSettleUnconfirmed, Receives
  <1>2. NetTyped'
    BY <1>1, ConsumeType DEF TypeInv
  <1>3. MonitorTyped'
    <2>1. /\ updateIdx[p] \in Update
          /\ rollback[p].tx \in Tx /\ rollback[p].isOffer \in BOOLEAN
      BY StateFields DEF TypeInv, RollbackTyped, RestTyped
    <2> QED
      BY <1>1, <2>1, WatchTxType, EntryType DEF TypeInv, SettledEntry
  <1> QED
    BY <1>2, <1>3 DEF TypeInv, OnSettleUnconfirmed, chanVars, chainVars,
                      historyVars, StateTyped, RollbackTyped, StoredTyped,
                      ContractsTyped, RestTyped, ChainTyped, PendingIdx

-----------------------------------------------------------------------------
(* Renewing keeps the invariant.                                           *)

LEMMA RenewOfferType ==
    ASSUME TypeInv, NEW p \in Party, RenewOffer(p)
    PROVE  TypeInv'
  <1> DEFINE next == updateIdx[p] + 1
             v == WithNext(Variant("RenewOffered", NoTx, TempId(next)),
                           Points(p, next, 0))
  <1>1. next \in Update /\ updateIdx[p] < MaxUpdates
    BY UpdateType DEF TypeInv, RenewOffer, RestTyped
  <1>2. v \in SignedState /\ v.name = "RenewOffered"
    <2>1. Points(p, next, 0) \in [Party -> Update]
      BY <1>1, UpdateType, PointsType
    <2>2. TempId(next) \in ContractId
      BY <1>1, ContractIdType
    <2> QED
      BY <2>1, <2>2, VariantWithNext, TxType DEF StateName
  <1>3. /\ MoveTo(p, WithOffer(v, TRUE))
        /\ state[p].name \in StableStates /\ updateIdx' = updateIdx
    BY DEF RenewOffer
  <1>4. StateTyped' /\ RollbackTyped' /\ PendingIdx'
    <2> HIDE DEF v
    <2>1. WithOffer(v, TRUE) \in SignedState /\ WithOffer(v, TRUE).name = "RenewOffered"
      BY <1>2, WithType
    <2> QED BY <1>1, <2>1, <1>3, MoveToType, PendingIdxNext DEF TypeInv
  <1>5. NetTyped'
    BY <1>1, SendType, MsgType, UpdateType, TxType
       DEF TypeInv, RenewOffer, MessageType
  <1>6. ContractsTyped'
    BY SetContractType DEF TypeInv, RenewOffer, ContractState
  <1> QED
    BY <1>4, <1>5, <1>6
       DEF TypeInv, RenewOffer, chainVars, historyVars, MonitorTyped,
           StoredTyped, RestTyped, ChainTyped

LEMMA OnRenewOfferRejectType ==
    ASSUME TypeInv, NEW p \in Party, OnRenewOfferReject(p)
    PROVE  TypeInv'
  <1>1. NetTyped'
    BY ReplyType, MsgType, UpdateType, TxType
       DEF TypeInv, OnRenewOfferReject, Receives, MessageType
  <1> QED
    BY <1>1 DEF TypeInv, OnRenewOfferReject, chanVars, storeVars, chainVars,
                historyVars, StateTyped, RollbackTyped, MonitorTyped,
                StoredTyped, ContractsTyped, RestTyped, ChainTyped, PendingIdx

LEMMA OnRenewOfferType ==
    ASSUME TypeInv, NEW p \in Party, OnRenewOffer(p)
    PROVE  TypeInv'
  <1> DEFINE next == updateIdx[p] + 1
             s == WithNext(Variant("RenewOffered", NoTx, TempId(next)),
                           Points(p, 0, Head(net[p]).next))
  <1>1. next \in Update /\ updateIdx[p] < MaxUpdates
    BY UpdateType DEF TypeInv, OnRenewOffer, RestTyped
  <1>2. net[p] # <<>> /\ Head(net[p]).next \in Update
    BY HeadType DEF TypeInv, OnRenewOffer, Receives
  <1>3. s \in SignedState /\ s.name = "RenewOffered"
    <2>1. Points(p, 0, Head(net[p]).next) \in [Party -> Update]
      BY <1>2, UpdateType, PointsType
    <2>2. TempId(next) \in ContractId
      BY <1>1, ContractIdType
    <2> QED
      BY <2>1, <2>2, VariantWithNext, TxType DEF StateName
  <1>4. MoveTo(p, s) /\ state[p].name \in StableStates /\ updateIdx' = updateIdx
    BY DEF OnRenewOffer
  <1>5. StateTyped' /\ RollbackTyped' /\ PendingIdx'
    <2> HIDE DEF s
    <2> QED BY <1>1, <1>3, <1>4, MoveToType, PendingIdxNext DEF TypeInv
  <1>6. NetTyped'
    BY <1>2, ConsumeType DEF TypeInv, OnRenewOffer
  <1>7. ContractsTyped'
    BY SetContractType DEF TypeInv, OnRenewOffer, ContractState
  <1> QED
    BY <1>5, <1>6, <1>7
       DEF TypeInv, OnRenewOffer, chainVars, historyVars, MonitorTyped,
           StoredTyped, RestTyped, ChainTyped

LEMMA AcceptRenewOfferType ==
    ASSUME TypeInv, NEW p \in Party, AcceptRenewOffer(p)
    PROVE  TypeInv'
  <1> DEFINE next == updateIdx[p] + 1
             pts == Points(p, next, state[p].next[Other(p)])
             tx == BufferTx(Other(p), pts)
             s == WithNext(Variant("RenewAccepted", tx, FinalId(next)), pts)
  <1>1. next \in Update /\ updateIdx[p] < MaxUpdates
    BY UpdateType DEF TypeInv, AcceptRenewOffer, RestTyped
  <1>2. pts \in [Party -> Update] /\ tx \in Tx
    <2>1. state[p].next[Other(p)] \in Update
      BY StateFields, OtherType DEF TypeInv, StateTyped
    <2> QED
      BY <1>1, <2>1, PointsType, TxType, OtherType
  <1>3. s \in SignedState /\ s.name = "RenewAccepted"
    BY <1>1, <1>2, VariantWithNext, ContractIdType DEF StateName
  <1>4. /\ SetState(p, s)
        /\ Send(p, Msg("RenewAccept", next, 0, tx))
        /\ rollback' = rollback /\ updateIdx' = updateIdx
    BY DEF AcceptRenewOffer
  <1>5. ContractsTyped'
    BY DEF TypeInv, AcceptRenewOffer, ContractsTyped, ContractState
  <1> HIDE DEF next, pts, tx, s
  <1>6. StateTyped' /\ PendingIdx'
    BY <1>1, <1>3, <1>4, SetStateType, PendingIdxNext DEF TypeInv, Revertible
  <1>7. NetTyped'
    BY <1>1, <1>2, <1>4, SendType, MsgType, UpdateType DEF TypeInv, MessageType
  <1> QED
    BY <1>5, <1>6, <1>7
       DEF TypeInv, AcceptRenewOffer, chainVars, historyVars, RollbackTyped,
           MonitorTyped, StoredTyped, RestTyped, ChainTyped

LEMMA RejectRenewOfferType ==
    ASSUME TypeInv, NEW p \in Party, RejectRenewOffer(p)
    PROVE  TypeInv'
  <1>1. StateTyped' /\ RollbackTyped' /\ PendingIdx'
    <2>1. rollback[p].name \in StableStates /\ RollBack(p) /\ updateIdx' = updateIdx
      BY DEF TypeInv, PendingIdx, Revertible, RejectRenewOffer, InState
    <2> QED
      BY <2>1, RollBackType, PendingIdxNext
         DEF TypeInv, StableStates, Pending, Revertible
  <1>2. NetTyped'
    BY SendType, MsgType, UpdateType, TxType
       DEF TypeInv, RejectRenewOffer, MessageType
  <1>3. ContractsTyped'
    BY SetContractType DEF TypeInv, RejectRenewOffer, ContractState
  <1> QED
    BY <1>1, <1>2, <1>3
       DEF TypeInv, RejectRenewOffer, chainVars, historyVars,
           MonitorTyped, StoredTyped, RestTyped, ChainTyped

LEMMA OnRenewAcceptType ==
    ASSUME TypeInv, NEW p \in Party, OnRenewAccept(p)
    PROVE  TypeInv'
  <1> DEFINE pts == Points(p, state[p].next[p], Head(net[p]).next)
             tx == BufferTx(p, pts)
             id == FinalId(state[p].contract[2])
             s == WithNext(Variant("RenewConfirmed", tx, id), pts)
  <1>1. net[p] # <<>> /\ Head(net[p]).next \in Update
    BY HeadType DEF TypeInv, OnRenewAccept, Receives
  <1>2. updateIdx[p] < MaxUpdates
    BY DEF TypeInv, OnRenewAccept, InState, PendingIdx, Pending
  <1>3. pts \in [Party -> Update] /\ tx \in Tx
    <2>1. state[p].next[p] \in Update
      BY StateFields DEF TypeInv, StateTyped
    <2> QED
      BY <1>1, <2>1, PointsType, TxType
  <1>4. id \in ContractId
    BY ContractIdType DEF OnRenewAccept, RenewAcceptValid, ContractOffered
  <1>5. s \in SignedState /\ s.name = "RenewConfirmed"
    BY <1>3, <1>4, VariantWithNext DEF StateName
  <1>6. /\ SetState(p, s) /\ SetContract(p, id, "Confirmed")
        /\ Reply(p, Msg("RenewConfirm", 0, 0, tx))
        /\ rollback' = rollback /\ updateIdx' = updateIdx
    BY DEF OnRenewAccept
  <1> HIDE DEF pts, tx, id, s
  <1>7. StateTyped' /\ PendingIdx'
    BY <1>2, <1>5, <1>6, SetStateType, PendingIdxNext DEF TypeInv, Revertible
  <1>8. NetTyped'
    BY <1>1, <1>3, <1>6, ReplyType, MsgType, UpdateType DEF TypeInv, MessageType
  <1>9. ContractsTyped'
    BY <1>6, SetContractType DEF TypeInv, ContractState
  <1> QED
    BY <1>7, <1>8, <1>9
       DEF TypeInv, OnRenewAccept, chainVars, historyVars, RollbackTyped,
           MonitorTyped, StoredTyped, RestTyped, ChainTyped

LEMMA SupersededClosedType ==
    ASSUME NEW p \in Party, NEW cs \in [ContractId -> ContractState]
    PROVE  WithSupersededClosed(p, cs) \in [ContractId -> ContractState]
  BY DEF WithSupersededClosed, ContractState

(* The two entries a completed renewal adds to the monitor.                *)
LEMMA RenewMonitorType ==
    ASSUME TypeInv, NEW p \in Party
    PROVE  /\ Entry(state[p].tx, "BufferTx") \in Watch
           /\ SupersededEntry(p) \in Watch
           /\ AddTx(AddTx(monitor[p], Entry(state[p].tx, "BufferTx")),
                    SupersededEntry(p)) \in Monitor
           /\ AddTx(AddTx(monitor[p], SupersededEntry(p)),
                    Entry(state[p].tx, "BufferTx")) \in Monitor
  <1>1. state[p].tx \in Tx /\ rollback[p].tx \in Tx /\ updateIdx[p] \in Update
    BY StateFields DEF TypeInv, StateTyped, RollbackTyped, RestTyped
  <1>2. Entry(state[p].tx, "BufferTx") \in Watch /\ SupersededEntry(p) \in Watch
    BY <1>1, EntryType DEF SupersededEntry, WatchType
  <1> QED
    BY <1>2, MonitorOps DEF TypeInv, MonitorTyped

LEMMA OnRenewConfirmType ==
    ASSUME TypeInv, NEW p \in Party, OnRenewConfirm(p)
    PROVE  TypeInv'
  <1> DEFINE v == Variant("RenewFinalized", state[p].tx, state[p].contract)
             s == WithPrev(v, points[p][Other(p)])
  <1>1. /\ net[p] # <<>> /\ state[p].name \in Pending
        /\ updateIdx[p] \in Update /\ updateIdx[p] < MaxUpdates
        /\ points[p][Other(p)] \in Update
    BY OtherType DEF TypeInv, OnRenewConfirm, Receives, InState, PendingIdx,
                     Pending, RestTyped
  <1>2. /\ state[p].tx \in Tx /\ state[p].next \in [Party -> Update]
        /\ state[p].contract \in ContractId \cup {NoContract}
    BY StateFields DEF TypeInv, StateTyped
  <1>3. v \in SignedState /\ v.name = "RenewFinalized"
    BY <1>2, VariantType DEF StateName
  <1>4. SetState(p, s) /\ rollback' = rollback /\ updateIdx' = updateIdx
    BY DEF OnRenewConfirm
  <1>5. StateTyped' /\ PendingIdx'
    <2> HIDE DEF v
    <2>1. s \in SignedState /\ s.name = "RenewFinalized"
      BY <1>1, <1>3, WithType
    <2> HIDE DEF s
    <2> QED
      BY <1>1, <1>4, <2>1, SetStateType, PendingIdxNext DEF TypeInv, Revertible
  <1>6. MonitorTyped' /\ StoredTyped'
    <2>1. MonitorTyped'
      BY RenewMonitorType DEF TypeInv, OnRenewConfirm, MonitorTyped
    <2> QED
      BY <2>1, PersistType DEF TypeInv, OnRenewConfirm
  <1>7. ContractsTyped'
    <2>1. [contracts[p] EXCEPT ![state[p].contract] = "Confirmed"]
            \in [ContractId -> ContractState]
      BY DEF TypeInv, ContractsTyped, ContractState
    <2> QED
      BY <2>1, SupersededClosedType DEF TypeInv, OnRenewConfirm, ContractsTyped
  <1>8. NetTyped'
    BY <1>1, <1>2, ReplyType, MsgType, UpdateType
       DEF TypeInv, OnRenewConfirm, MessageType, PerUpdateSecret
  <1>9. RestTyped'
    BY <1>1, <1>2
       DEF TypeInv, OnRenewConfirm, RestTyped, Hold, Reveal, PerUpdateSecret
  <1> QED
    BY <1>5, <1>6, <1>7, <1>8, <1>9
       DEF TypeInv, OnRenewConfirm, chainVars, RollbackTyped, ChainTyped

LEMMA OnRenewFinalizeType ==
    ASSUME TypeInv, NEW p \in Party, OnRenewFinalize(p)
    PROVE  TypeInv'
  <1> DEFINE v == Variant("Established", state[p].tx, state[p].contract)
             s == WithOffer(v, TRUE)
  <1>1. /\ net[p] # <<>> /\ state[p].name \in Pending
        /\ updateIdx[p] \in Update /\ updateIdx[p] + 1 \in Update
    BY UpdateType DEF TypeInv, OnRenewFinalize, Receives, InState, PendingIdx,
                      Pending, RestTyped
  <1>2. /\ state[p].tx \in Tx /\ state[p].next \in [Party -> Update]
        /\ state[p].contract \in ContractId \cup {NoContract}
    BY StateFields DEF TypeInv, StateTyped
  <1>3. v \in SignedState /\ v.name = "Established"
    BY <1>2, VariantType DEF StateName
  <1>4. /\ SetState(p, s) /\ rollback' = [rollback EXCEPT ![p] = NoState]
        /\ updateIdx' = [updateIdx EXCEPT ![p] = @ + 1]
        /\ points' = [points EXCEPT ![p] = state[p].next]
        /\ secrets' = [secrets EXCEPT ![p] = @ \cup {updateIdx[p]}]
    BY DEF OnRenewFinalize, StepUpdateIdx, StoreSecret
  <1>5. StateTyped' /\ RollbackTyped' /\ PendingIdx'
    <2> HIDE DEF v
    <2>1. s \in SignedState /\ s.name = "Established"
      BY <1>3, WithType
    <2> HIDE DEF s
    <2>2. /\ StateTyped' /\ state'[p] = s
          /\ \A q \in Party \ {p} : state'[q] = state[q]
      BY <1>4, <2>1, SetStateType DEF TypeInv
    <2>3. RollbackTyped' /\ \A q \in Party \ {p} : rollback'[q] = rollback[q]
      BY <1>4, SetRollbackType, NoStateType DEF TypeInv
    <2>4. \A q \in Party \ {p} : updateIdx'[q] = updateIdx[q]
      BY <1>4 DEF TypeInv, RestTyped
    <2>5. state'[p].name \notin Pending \cup Revertible
      BY <2>1, <2>2 DEF Pending, Revertible
    <2> QED
      BY <2>2, <2>3, <2>4, <2>5, PendingIdxNext DEF TypeInv
  <1>6. MonitorTyped' /\ StoredTyped'
    <2>1. MonitorTyped'
      BY RenewMonitorType DEF TypeInv, OnRenewFinalize, MonitorTyped
    <2> QED
      BY <2>1, PersistType DEF TypeInv, OnRenewFinalize
  <1>7. ContractsTyped'
    BY SupersededClosedType DEF TypeInv, OnRenewFinalize, ContractsTyped
  <1>8. NetTyped'
    BY <1>1, ReplyType, MsgType, UpdateType, TxType
       DEF TypeInv, OnRenewFinalize, MessageType, PerUpdateSecret
  <1>9. RestTyped'
    BY <1>1, <1>2, <1>4
       DEF TypeInv, OnRenewFinalize, RestTyped, Hold, Reveal, PerUpdateSecret
  <1> QED
    BY <1>5, <1>6, <1>7, <1>8, <1>9
       DEF TypeInv, OnRenewFinalize, chainVars, ChainTyped

LEMMA OnRenewRevokeType ==
    ASSUME TypeInv, NEW p \in Party, OnRenewRevoke(p)
    PROVE  TypeInv'
  <1> DEFINE v == Variant("Established", state[p].tx, state[p].contract)
             s == WithOffer(v, TRUE)
  <1>1. /\ net[p] # <<>>
        /\ updateIdx[p] \in Update /\ updateIdx[p] + 1 \in Update
    BY UpdateType DEF TypeInv, OnRenewRevoke, Receives, InState, PendingIdx,
                      Pending, RestTyped
  <1>2. v \in SignedState /\ v.name = "Established"
    BY StateFields, VariantType DEF TypeInv, StateTyped, StateName
  <1>3. /\ SetState(p, s) /\ rollback' = rollback
        /\ updateIdx' = [updateIdx EXCEPT ![p] = @ + 1]
        /\ secrets' = [secrets EXCEPT ![p] = @ \cup {updateIdx[p]}]
    BY DEF OnRenewRevoke, StepUpdateIdx, StoreSecret
  <1>4. StateTyped' /\ PendingIdx'
    <2> HIDE DEF v
    <2>1. s \in SignedState /\ s.name = "Established"
      BY <1>2, WithType
    <2> HIDE DEF s
    <2>2. /\ StateTyped' /\ state'[p] = s
          /\ \A q \in Party \ {p} : state'[q] = state[q]
      BY <1>3, <2>1, SetStateType DEF TypeInv
    <2>3. \A q \in Party \ {p} : updateIdx'[q] = updateIdx[q]
      BY <1>3 DEF TypeInv, RestTyped
    <2>4. state'[p].name \notin Pending \cup Revertible
      BY <2>1, <2>2 DEF Pending, Revertible
    <2> QED
      BY <1>3, <2>2, <2>3, <2>4, PendingIdxNext DEF TypeInv
  <1>5. NetTyped'
    BY <1>1, ConsumeType DEF TypeInv, OnRenewRevoke
  <1>6. RestTyped'
    BY <1>1, <1>3 DEF TypeInv, OnRenewRevoke, RestTyped, historyVars
  <1> QED
    BY <1>4, <1>5, <1>6
       DEF TypeInv, OnRenewRevoke, storeVars, chainVars, RollbackTyped,
           MonitorTyped, StoredTyped, ContractsTyped, ChainTyped

LEMMA OnRejectType ==
    ASSUME TypeInv, NEW p \in Party, OnReject(p)
    PROVE  TypeInv'
  <1>1. NetTyped'
    BY ConsumeType DEF TypeInv, OnReject, Receives
  <1>2. updateIdx' = updateIdx
    BY DEF OnReject
  <1>3. ASSUME RollBack(p), state[p].name \in Revertible
        PROVE  StateTyped' /\ RollbackTyped' /\ PendingIdx'
    <2>1. rollback[p].name \in StableStates
      BY <1>3 DEF TypeInv, PendingIdx
    <2> QED
      BY <1>2, <1>3, <2>1, RollBackType, PendingIdxNext
         DEF TypeInv, StableStates, Pending, Revertible
  <1>4. StateTyped' /\ RollbackTyped' /\ PendingIdx' /\ ContractsTyped'
    <2>1. CASE UNCHANGED <<state, rollback, contracts>>
      BY <1>2, <2>1 DEF TypeInv, StateTyped, RollbackTyped, PendingIdx, ContractsTyped
    <2>2. CASE /\ state[p].name = "SettledOffered"
               /\ RollBack(p) /\ UNCHANGED contracts
      BY <1>3, <2>2 DEF Revertible, TypeInv, ContractsTyped
    <2>3. CASE /\ state[p].name = "RenewOffered" /\ RollBack(p)
               /\ SetContract(p, state[p].contract, "Rejected")
      BY <1>3, <2>3, SetContractType DEF Revertible, TypeInv, ContractState
    <2> QED
      BY <2>1, <2>2, <2>3 DEF OnReject
  <1> QED
    BY <1>1, <1>4
       DEF TypeInv, OnReject, chainVars, historyVars, MonitorTyped,
           StoredTyped, RestTyped, ChainTyped

-----------------------------------------------------------------------------
(* Closing keeps the invariant.                                            *)

LEMMA BroadcastType ==
    ASSUME ChainTyped, NEW p \in Party, NEW tx \in Tx, Broadcast(p, tx)
    PROVE  mempool' \in SUBSET FundSpend
  BY DEF ChainTyped, Broadcast, FundSpend

LEMMA OfferCollaborativeCloseType ==
    ASSUME TypeInv, NEW p \in Party, OfferCollaborativeClose(p)
    PROVE  TypeInv'
  <1> DEFINE tx == CloseTx(p)
             v == Variant("CollaborativeCloseOffered", tx, NoContract)
             s == WithOffer(v, TRUE)
  <1>1. tx \in Tx
    BY TxType
  <1>2. v \in SignedState /\ v.name = "CollaborativeCloseOffered"
    BY <1>1, VariantType DEF StateName
  <1>3. /\ MoveTo(p, s) /\ WatchTx(p, Entry(tx, "CollaborativeClose"))
        /\ Send(p, Msg("CollaborativeCloseOffer", 0, 0, tx))
        /\ Persist(p) /\ updateIdx' = updateIdx
        /\ used' = [used EXCEPT !.closes = @ + 1]
    BY DEF OfferCollaborativeClose
  <1>4. StateTyped' /\ RollbackTyped' /\ PendingIdx'
    <2> HIDE DEF v
    <2>1. s \in SignedState /\ s.name = "CollaborativeCloseOffered"
      BY <1>2, WithType
    <2> HIDE DEF s
    <2> QED
      BY <1>3, <2>1, MoveToType, PendingIdxNext DEF TypeInv, Pending, Revertible
  <1>5. MonitorTyped' /\ StoredTyped'
    <2>1. MonitorTyped'
      BY <1>1, <1>3, WatchTxType, EntryType DEF TypeInv, WatchType
    <2> QED
      BY <1>3, <2>1, PersistType DEF TypeInv
  <1>6. NetTyped'
    BY <1>1, <1>3, SendType, MsgType, UpdateType DEF TypeInv, MessageType
  <1>7. RestTyped'
    BY <1>3 DEF TypeInv, OfferCollaborativeClose, RestTyped, historyVars
  <1> QED
    BY <1>4, <1>5, <1>6, <1>7
       DEF TypeInv, OfferCollaborativeClose, chainVars, ContractsTyped, ChainTyped

LEMMA OnCollaborativeCloseOfferType ==
    ASSUME TypeInv, NEW p \in Party, OnCollaborativeCloseOffer(p)
    PROVE  TypeInv'
  <1> DEFINE s == Variant("CollaborativeCloseOffered", CloseTx(Other(p)), NoContract)
  <1>1. s \in SignedState /\ s.name = "CollaborativeCloseOffered"
    BY TxType, OtherType, VariantType DEF StateName
  <1>2. MoveTo(p, s) /\ updateIdx' = updateIdx
    BY DEF OnCollaborativeCloseOffer
  <1>3. StateTyped' /\ RollbackTyped' /\ PendingIdx'
    <2> HIDE DEF s
    <2> QED
      BY <1>1, <1>2, MoveToType, PendingIdxNext DEF TypeInv, Pending, Revertible
  <1>4. NetTyped'
    BY ConsumeType DEF TypeInv, OnCollaborativeCloseOffer, Receives
  <1> QED
    BY <1>3, <1>4
       DEF TypeInv, OnCollaborativeCloseOffer, storeVars, chainVars, historyVars,
           MonitorTyped, StoredTyped, ContractsTyped, RestTyped, ChainTyped

LEMMA AcceptCollaborativeCloseType ==
    ASSUME TypeInv, NEW p \in Party, AcceptCollaborativeClose(p)
    PROVE  TypeInv'
  <1>1. ContractsTyped'
    <2>1. CASE SetContract(p, rollback[p].contract, "Closed")
      BY <2>1, SetContractType DEF TypeInv, ContractState
    <2>2. CASE UNCHANGED contracts
      BY <2>2 DEF TypeInv, ContractsTyped
    <2> QED
      BY <2>1, <2>2 DEF AcceptCollaborativeClose
  <1>2. ChainTyped'
    <2>1. mempool' \in SUBSET FundSpend
      BY BroadcastType, StateFields DEF TypeInv, StateTyped, AcceptCollaborativeClose
    <2> QED
      BY <2>1 DEF TypeInv, AcceptCollaborativeClose, ChainTyped
  <1>3. RestTyped'
    BY DEF TypeInv, AcceptCollaborativeClose, RestTyped, ChannelType, historyVars
  <1> QED
    BY <1>1, <1>2, <1>3
       DEF TypeInv, AcceptCollaborativeClose, StateTyped, RollbackTyped,
           NetTyped, MonitorTyped, StoredTyped, PendingIdx

LEMMA ClosedFromType ==
    ASSUME TypeInv, NEW p \in Party
    PROVE  /\ ClosedFrom(p) \in SignedState /\ ClosedFrom(p).tx \in Tx
           /\ GetContractId(ClosedFrom(p)) \in ContractId \cup {NoContract}
           /\ RolledBack(p) \in SignedState
  <1>1. ClosedFrom(p) \in SignedState /\ RolledBack(p) \in SignedState
    BY NoStateType DEF TypeInv, StateTyped, RollbackTyped, ClosedFrom, RolledBack
  <1> QED
    BY <1>1, StateFields

(* What the two kinds of forced close do to the state.                     *)
LEMMA ForceCloseState ==
    ASSUME TypeInv, NEW p \in Party, NEW s \in SignedState, SetState(p, s),
           s.name \in {"Closing", "SettledClosing"},
           rollback' = [rollback EXCEPT ![p] = RolledBack(p)],
           updateIdx' = updateIdx
    PROVE  StateTyped' /\ RollbackTyped' /\ PendingIdx'
  <1>1. /\ StateTyped' /\ state'[p] = s
        /\ \A q \in Party \ {p} : state'[q] = state[q]
    BY SetStateType DEF TypeInv
  <1>2. RollbackTyped' /\ \A q \in Party \ {p} : rollback'[q] = rollback[q]
    BY SetRollbackType, ClosedFromType DEF TypeInv
  <1>3. state'[p].name \notin Pending \cup Revertible
    BY <1>1 DEF Pending, Revertible
  <1> QED
    BY <1>1, <1>2, <1>3, PendingIdxNext DEF TypeInv

LEMMA ForceCloseEstablishedType ==
    ASSUME TypeInv, NEW p \in Party, ForceCloseEstablished(p)
    PROVE  TypeInv'
  <1> DEFINE c == ClosedFrom(p)
             v == Variant("Closing", c.tx, GetContractId(c))
  <1>1. v \in SignedState /\ v.name = "Closing"
    BY ClosedFromType, VariantType DEF StateName
  <1>2. /\ SetState(p, AsInitiator(v))
        /\ rollback' = [rollback EXCEPT ![p] = RolledBack(p)]
        /\ updateIdx' = updateIdx
    BY DEF ForceCloseEstablished
  <1>3. StateTyped' /\ RollbackTyped' /\ PendingIdx'
    <2> HIDE DEF v
    <2>1. AsInitiator(v) \in SignedState /\ AsInitiator(v).name = "Closing"
      BY <1>1, WithType
    <2> QED
      BY <1>2, <2>1, ForceCloseState
  <1>4. MonitorTyped' /\ StoredTyped'
    <2>1. MonitorTyped'
      BY ClosedFromType, MonitorOps DEF TypeInv, ForceCloseEstablished, MonitorTyped
    <2> QED
      BY <2>1, PersistType DEF TypeInv, ForceCloseEstablished
  <1>5. ChainTyped'
    <2>1. mempool' \in SUBSET FundSpend
      BY BroadcastType, ClosedFromType DEF TypeInv, ForceCloseEstablished
    <2> QED
      BY <2>1 DEF TypeInv, ForceCloseEstablished, ChainTyped
  <1> QED
    BY <1>3, <1>4, <1>5
       DEF TypeInv, ForceCloseEstablished, historyVars, ContractsTyped,
           NetTyped, RestTyped

LEMMA ForceCloseSettledType ==
    ASSUME TypeInv, NEW p \in Party, ForceCloseSettled(p)
    PROVE  TypeInv'
  <1> DEFINE c == ClosedFrom(p)
             v == Variant("SettledClosing", c.tx, NoContract)
  <1>1. v \in SignedState /\ v.name = "SettledClosing"
    BY ClosedFromType, VariantType DEF StateName
  <1>2. PICK offered \in DidWeOfferLastSettlement(monitor[p]) :
          SetState(p, WithOffer(AsInitiator(v), offered))
    BY DEF ForceCloseSettled
  <1>3. offered \in BOOLEAN
    BY DEF TypeInv, MonitorTyped, Monitor, Watch, DidWeOfferLastSettlement
  <1>4. /\ rollback' = [rollback EXCEPT ![p] = RolledBack(p)]
        /\ updateIdx' = updateIdx
    BY DEF ForceCloseSettled
  <1>5. StateTyped' /\ RollbackTyped' /\ PendingIdx'
    <2> HIDE DEF v
    <2> DEFINE w == AsInitiator(v)
    <2>1. w \in SignedState /\ w.name = "SettledClosing"
      BY <1>1, WithType
    <2> HIDE DEF w
    <2>2. WithOffer(w, offered) \in SignedState /\ WithOffer(w, offered).name = "SettledClosing"
      BY <1>3, <2>1, WithType
    <2>3. SetState(p, WithOffer(w, offered))
      BY <1>2 DEF w
    <2> QED
      BY <1>4, <2>2, <2>3, ForceCloseState
  <1>6. MonitorTyped'
    BY MonitorOps DEF TypeInv, ForceCloseSettled, MonitorTyped
  <1>7. ChainTyped'
    <2>1. mempool' \in SUBSET FundSpend
      BY BroadcastType, ClosedFromType DEF TypeInv, ForceCloseSettled
    <2> QED
      BY <2>1 DEF TypeInv, ForceCloseSettled, ChainTyped
  <1> QED
    BY <1>5, <1>6, <1>7
       DEF TypeInv, ForceCloseSettled, historyVars, ContractsTyped, StoredTyped,
           NetTyped, RestTyped

LEMMA PanicType ==
    ASSUME TypeInv, NEW p \in Party, Panic(p)
    PROVE  TypeInv'
  BY DEF TypeInv, Panic, chanVars, storeVars, chainVars, historyVars,
         StateTyped, RollbackTyped, NetTyped, MonitorTyped, StoredTyped,
         ContractsTyped, RestTyped, ChainTyped, PendingIdx

-----------------------------------------------------------------------------
(* The periodic check keeps the invariant.                                 *)

LEMMA CheckContractsType ==
    ASSUME TypeInv, NEW p \in Party,
           CheckSignedContract(p) \/ CheckPreclosedContract(p)
    PROVE  TypeInv'
  <1>1. ContractsTyped'
    <2>1. PICK id \in ContractId, c \in {"Confirmed", "Closed"} : SetContract(p, id, c)
      BY DEF CheckSignedContract, CheckPreclosedContract
    <2> QED
      BY <2>1, SetContractType DEF TypeInv, ContractState
  <1> QED
    BY <1>1 DEF TypeInv, CheckSignedContract, CheckPreclosedContract, chanVars,
                chainVars, historyVars, StateTyped, RollbackTyped, NetTyped,
                MonitorTyped, StoredTyped, RestTyped, ChainTyped, PendingIdx

(* Every step of the check that closes a channel leaves the signed channel *)
(* and its history alone.                                                  *)
LEMMA ClosingStepType ==
    ASSUME TypeInv, NEW p \in Party, NEW c \in ChannelType,
           ctype' = [ctype EXCEPT ![p] = c],
           MonitorTyped', StoredTyped', ContractsTyped', pool' \in SUBSET Spend,
           UNCHANGED <<state, rollback, updateIdx, points, secrets, mempool,
                       chain, spent, attested, historyVars, net, panicked, used>>
    PROVE  TypeInv'
  <1>1. RestTyped'
    BY DEF TypeInv, RestTyped, historyVars
  <1> QED
    BY <1>1 DEF TypeInv, StateTyped, RollbackTyped, NetTyped, ChainTyped, PendingIdx

LEMMA EmptyMonitorType ==
    ASSUME TypeInv, NEW p \in Party,
           monitor' = [monitor EXCEPT ![p] = EmptyMonitor]
    PROVE  MonitorTyped' /\ (Persist(p) => StoredTyped')
  <1>1. MonitorTyped'
    BY MonitorOps DEF TypeInv, MonitorTyped
  <1> QED
    BY <1>1, PersistType DEF TypeInv

LEMMA TryFinalizeClosingEstablishedChannelType ==
    ASSUME TypeInv, NEW p \in Party, TryFinalizeClosingEstablishedChannel(p)
    PROVE  TypeInv'
  <1> DEFINE c == IF state[p].isInitiator THEN "Closed" ELSE "CounterClosed"
  <1>1. c \in ChannelType /\ ctype' = [ctype EXCEPT ![p] = c]
    BY DEF TryFinalizeClosingEstablishedChannel, ChannelType
  <1>2. ContractsTyped'
    BY SetContractType
       DEF TypeInv, TryFinalizeClosingEstablishedChannel, ContractState
  <1>3. pool' \in SUBSET Spend
    BY DEF TypeInv, ChainTyped, TryFinalizeClosingEstablishedChannel, Spend
  <1>4. MonitorTyped' /\ StoredTyped'
    BY EmptyMonitorType DEF TypeInv, TryFinalizeClosingEstablishedChannel, StoredTyped
  <1> QED
    BY <1>1, <1>2, <1>3, <1>4, ClosingStepType
       DEF TryFinalizeClosingEstablishedChannel

LEMMA TryFinalizeSettledClosingChannelType ==
    ASSUME TypeInv, NEW p \in Party, TryFinalizeSettledClosingChannel(p)
    PROVE  TypeInv'
  <1>1. "SettledClosing" \in ChannelType
    BY DEF ChannelType
  <1>2. pool' \in SUBSET Spend
    BY DEF TypeInv, ChainTyped, TryFinalizeSettledClosingChannel, BroadcastSpend, Spend
  <1>3. MonitorTyped' /\ StoredTyped' /\ ContractsTyped'
    BY DEF TypeInv, TryFinalizeSettledClosingChannel, storeVars, MonitorTyped,
           StoredTyped, ContractsTyped
  <1> QED
    BY <1>1, <1>2, <1>3, ClosingStepType DEF TryFinalizeSettledClosingChannel

LEMMA TryConfirmClaimTxType ==
    ASSUME TypeInv, NEW p \in Party, TryConfirmClaimTx(p)
    PROVE  TypeInv'
  <1> DEFINE c == IF state[p].isInitiator THEN "Closed" ELSE "CounterClosed"
  <1>1. c \in ChannelType /\ ctype' = [ctype EXCEPT ![p] = c]
    BY DEF TryConfirmClaimTx, ChannelType
  <1>2. MonitorTyped' /\ StoredTyped' /\ ContractsTyped' /\ pool' \in SUBSET Spend
    BY EmptyMonitorType
       DEF TypeInv, TryConfirmClaimTx, chainVars, StoredTyped, ContractsTyped, ChainTyped
  <1> QED
    BY <1>1, <1>2, ClosingStepType DEF TryConfirmClaimTx, chainVars

LEMMA ProcessBufferTxType ==
    ASSUME TypeInv, NEW p \in Party, ProcessBufferTx(p)
    PROVE  TypeInv'
  <1>1. PICK e \in ConfirmedWatch(p, "BufferTx") :
          MoveTo(p, Variant("Closing", e.tx, GetContractId(state[p])))
    BY DEF ProcessBufferTx
  <1> DEFINE s == Variant("Closing", e.tx, GetContractId(state[p]))
  <1>2. e.tx \in Tx
    BY DEF TypeInv, MonitorTyped, Monitor, Watch, ConfirmedWatch
  <1>3. s \in SignedState /\ s.name = "Closing"
    BY <1>2, StateFields, VariantType DEF TypeInv, StateTyped, StateName
  <1>4. StateTyped' /\ RollbackTyped' /\ PendingIdx'
    <2>1. MoveTo(p, s) /\ updateIdx' = updateIdx
      BY <1>1 DEF ProcessBufferTx
    <2> HIDE DEF s
    <2> QED
      BY <1>3, <2>1, MoveToType, PendingIdxNext DEF TypeInv, Pending, Revertible
  <1> QED
    BY <1>4 DEF TypeInv, ProcessBufferTx, storeVars, chainVars, historyVars,
                NetTyped, MonitorTyped, StoredTyped, ContractsTyped, RestTyped,
                ChainTyped

LEMMA ProcessSettleTx2Type ==
    ASSUME TypeInv, NEW p \in Party, ProcessSettleTx2(p)
    PROVE  TypeInv'
  <1>1. PICK e \in ConfirmedWatch(p, "SettleTx2") :
          MoveTo(p, WithOffer(Variant("SettledClosing", e.tx, NoContract), e.isOffer))
    BY DEF ProcessSettleTx2
  <1> DEFINE v == Variant("SettledClosing", e.tx, NoContract)
             s == WithOffer(v, e.isOffer)
  <1>2. e.tx \in Tx /\ e.isOffer \in BOOLEAN
    BY DEF TypeInv, MonitorTyped, Monitor, Watch, ConfirmedWatch
  <1>3. v \in SignedState /\ v.name = "SettledClosing"
    BY <1>2, VariantType DEF StateName
  <1>4. StateTyped' /\ RollbackTyped' /\ PendingIdx'
    <2>1. MoveTo(p, s) /\ updateIdx' = updateIdx
      BY <1>1 DEF ProcessSettleTx2
    <2> HIDE DEF v
    <2>2. s \in SignedState /\ s.name = "SettledClosing"
      BY <1>2, <1>3, WithType
    <2> HIDE DEF s
    <2> QED
      BY <2>1, <2>2, MoveToType, PendingIdxNext DEF TypeInv, Pending, Revertible
  <1> QED
    BY <1>4 DEF TypeInv, ProcessSettleTx2, storeVars, chainVars, historyVars,
                NetTyped, MonitorTyped, StoredTyped, ContractsTyped, RestTyped,
                ChainTyped

LEMMA ProcessRevokedType ==
    ASSUME TypeInv, NEW p \in Party, ProcessRevoked(p)
    PROVE  TypeInv'
  <1>1. "ClosedPunished" \in ChannelType
    BY DEF ChannelType
  <1>2. pool' \in SUBSET Spend
    BY DEF TypeInv, ChainTyped, ProcessRevoked, BroadcastSpend, Spend
  <1>3. MonitorTyped' /\ StoredTyped' /\ ContractsTyped'
    BY EmptyMonitorType DEF TypeInv, ProcessRevoked, ContractsTyped
  <1> QED
    BY <1>1, <1>2, <1>3, ClosingStepType DEF ProcessRevoked

LEMMA ProcessCollaborativeCloseType ==
    ASSUME TypeInv, NEW p \in Party, ProcessCollaborativeClose(p)
    PROVE  TypeInv'
  <1>1. "CollaborativelyClosed" \in ChannelType
    BY DEF ChannelType
  <1>2. ContractsTyped'
    <2>1. CASE SetContract(p, rollback[p].contract, "Closed")
      BY <2>1, SetContractType DEF TypeInv, ContractState
    <2>2. CASE UNCHANGED contracts
      BY <2>2 DEF TypeInv, ContractsTyped
    <2> QED
      BY <2>1, <2>2 DEF ProcessCollaborativeClose
  <1>3. MonitorTyped' /\ StoredTyped' /\ pool' \in SUBSET Spend
    BY EmptyMonitorType
       DEF TypeInv, ProcessCollaborativeClose, chainVars, ChainTyped
  <1> QED
    BY <1>1, <1>2, <1>3, ClosingStepType DEF ProcessCollaborativeClose, chainVars

LEMMA ProcessCetType ==
    ASSUME TypeInv, NEW p \in Party, ProcessCet(p)
    PROVE  TypeInv'
  <1> DEFINE c == IF state[p].name = "Closing" /\ ~state[p].isInitiator
                  THEN "CounterClosed" ELSE "Closed"
             id == GetContractId(state[p])
  <1>1. c \in ChannelType /\ ctype' = [ctype EXCEPT ![p] = c]
    BY DEF ProcessCet, ChannelType
  <1>2. ContractsTyped'
    <2>1. CASE SetContract(p, id, "PreClosed")
      BY <2>1, SetContractType DEF TypeInv, ContractState
    <2>2. CASE UNCHANGED contracts
      BY <2>2 DEF TypeInv, ContractsTyped
    <2> QED
      BY <2>1, <2>2 DEF ProcessCet
  <1>3. MonitorTyped' /\ StoredTyped' /\ pool' \in SUBSET Spend
    BY EmptyMonitorType DEF TypeInv, ProcessCet, chainVars, ChainTyped
  <1> QED
    BY <1>1, <1>2, <1>3, ClosingStepType DEF ProcessCet, chainVars

LEMMA CheckForWatchedTxType ==
    ASSUME TypeInv, NEW p \in Party, CheckForWatchedTx(p)
    PROVE  TypeInv'
  BY DEF TypeInv, CheckForWatchedTx, chanVars, chainVars, historyVars,
         StateTyped, RollbackTyped, NetTyped, MonitorTyped, StoredTyped,
         ContractsTyped, RestTyped, ChainTyped, PendingIdx

LEMMA HandlerErrorType ==
    ASSUME TypeInv, NEW p \in Party, HandlerError(p)
    PROVE  TypeInv'
  <1>1. NetTyped'
    BY ConsumeType DEF TypeInv, HandlerError
  <1> QED
    BY <1>1 DEF TypeInv, HandlerError, chanVars, storeVars, chainVars,
                historyVars, StateTyped, RollbackTyped, MonitorTyped,
                StoredTyped, ContractsTyped, RestTyped, ChainTyped, PendingIdx

-----------------------------------------------------------------------------
(* The environment keeps the invariant.                                    *)

LEMMA ChainStepType ==
    ASSUME TypeInv, Mine \/ Mature \/ MineSpend \/ Attest
    PROVE  TypeInv'
  <1>1. ChainTyped'
    <2>1. CASE Mine
      BY <2>1 DEF TypeInv, ChainTyped, Mine, FundSpend
    <2>2. CASE Mature
      BY <2>2 DEF TypeInv, ChainTyped, Mature
    <2>3. CASE MineSpend
      BY <2>3 DEF TypeInv, ChainTyped, MineSpend
    <2>4. CASE Attest
      BY <2>4 DEF TypeInv, ChainTyped, Attest
    <2> QED
      BY <2>1, <2>2, <2>3, <2>4
  <1>2. UNCHANGED <<chanVars, storeVars, historyVars, net, panicked, used>>
    BY DEF Mine, Mature, MineSpend, Attest
  <1> QED
    BY <1>1, <1>2 DEF TypeInv, chanVars, storeVars, historyVars, StateTyped,
                      RollbackTyped, NetTyped, MonitorTyped, StoredTyped,
                      ContractsTyped, RestTyped, PendingIdx

LEMMA LoseMessageType ==
    ASSUME TypeInv, NEW p \in Party, LoseMessage(p)
    PROVE  TypeInv'
  <1>1. NetTyped'
    BY ConsumeType DEF TypeInv, LoseMessage
  <1>2. RestTyped'
    BY DEF TypeInv, LoseMessage, RestTyped, chanVars, historyVars
  <1> QED
    BY <1>1, <1>2 DEF TypeInv, LoseMessage, chanVars, storeVars, chainVars,
                      StateTyped, RollbackTyped, MonitorTyped, StoredTyped,
                      ContractsTyped, ChainTyped, PendingIdx

LEMMA RestartType ==
    ASSUME TypeInv, NEW p \in Party, Restart(p)
    PROVE  TypeInv'
  <1>1. MonitorTyped'
    BY DEF TypeInv, Restart, MonitorTyped, StoredTyped
  <1>2. RestTyped'
    BY DEF TypeInv, Restart, RestTyped, chanVars, historyVars
  <1> QED
    BY <1>1, <1>2 DEF TypeInv, Restart, chanVars, chainVars, StateTyped,
                      RollbackTyped, NetTyped, StoredTyped, ContractsTyped,
                      ChainTyped, PendingIdx

LEMMA PublishOldType ==
    ASSUME TypeInv, NEW p \in Party, PublishOld(p)
    PROVE  TypeInv'
  <1>1. ChainTyped'
    BY DEF TypeInv, PublishOld, ChainTyped, RestTyped, FundSpend
  <1>2. RestTyped'
    BY DEF TypeInv, PublishOld, RestTyped, chanVars, historyVars
  <1> QED
    BY <1>1, <1>2 DEF TypeInv, PublishOld, chanVars, storeVars, StateTyped,
                      RollbackTyped, NetTyped, MonitorTyped, StoredTyped,
                      ContractsTyped, PendingIdx

-----------------------------------------------------------------------------
LEMMA InitType == Init => TypeInv
  <1> SUFFICES ASSUME Init PROVE TypeInv
    OBVIOUS
  <1>1. 0 \in Update /\ Alice \in Party /\ NoPoints \in [Party -> Update]
    BY UpdateType DEF Party, NoPoints
  <1>2. FirstTx \in Tx
    BY <1>1, TxType DEF FirstTx
  <1>3. FinalId(0) \in ContractId
    BY <1>1, ContractIdType
  <1> DEFINE v == Variant("Established", FirstTx, FinalId(0))
  <1>4. v \in SignedState /\ v.name = "Established"
    BY <1>2, <1>3, VariantType DEF StateName
  <1>5. StateTyped /\ \A p \in Party : state[p].name = "Established"
    <2> HIDE DEF v
    <2>1. state = [p \in Party |-> WithOffer(v, p = Alice)]
      BY DEF Init, v
    <2>2. \A p \in Party : /\ WithOffer(v, p = Alice) \in SignedState
                          /\ WithOffer(v, p = Alice).name = "Established"
      BY <1>4, WithType
    <2> QED
      BY <2>1, <2>2 DEF StateTyped
  <1>6. PendingIdx
    BY <1>5 DEF PendingIdx, Pending, Revertible
  <1>7. RollbackTyped
    BY NoStateType DEF Init, RollbackTyped
  <1>8. FirstMonitor \in Monitor
    <2>1. EmptyMonitor \in Monitor
      BY DEF Monitor, EmptyMonitor
    <2>2. Entry(FirstTx, "BufferTx") \in Watch
      BY <1>2, EntryType DEF WatchType
    <2> QED
      BY <2>1, <2>2, MonitorOps DEF FirstMonitor
  <1>9. MonitorTyped /\ StoredTyped
    BY <1>8 DEF Init, MonitorTyped, StoredTyped
  <1>10. NetTyped
    BY DEF Init, NetTyped
  <1>11. ContractsTyped
    BY ConstantsAssumption DEF Init, ContractsTyped, ContractState
  <1>12. RestTyped
    BY <1>1, <1>2 DEF Init, RestTyped, ChannelType
  <1>13. ChainTyped
    <2>1. Unspent \in [tx : Tx, by : Party, depth : 0 .. 2]
      BY <1>1, TxType DEF Unspent
    <2>2. attested \in BOOLEAN
      BY DEF Init
    <2> QED
      BY <2>1, <2>2 DEF Init, ChainTyped
  <1> QED
    BY <1>5, <1>6, <1>7, <1>9, <1>10, <1>11, <1>12, <1>13 DEF TypeInv

LEMMA NextType == TypeInv /\ [Next]_vars => TypeInv'
  <1> SUFFICES ASSUME TypeInv, [Next]_vars PROVE TypeInv'
    OBVIOUS
  <1>1. ASSUME NEW p \in Party, ApiCall(p) PROVE TypeInv'
    <2>1. CASE OfferUpdate(p)
      BY <2>1, SettleOfferType, RenewOfferType DEF OfferUpdate
    <2>2. CASE AnswerOffer(p)
      BY <2>2, AcceptSettleOfferType, AcceptRenewOfferType,
         RejectSettleOfferType, RejectRenewOfferType DEF AnswerOffer
    <2>3. CASE OfferClose(p)
      BY <2>3, OfferCollaborativeCloseType DEF OfferClose
    <2>4. CASE AcceptCollaborativeClose(p)
      BY <2>4, AcceptCollaborativeCloseType
    <2>5. CASE ForceClose(p)
      BY <2>5, ForceCloseEstablishedType, ForceCloseSettledType, PanicType
         DEF ForceClose, ForceCloseFails
    <2> QED
      BY <1>1, <2>1, <2>2, <2>3, <2>4, <2>5 DEF ApiCall
  <1>2. ASSUME NEW p \in Party, OnDlcMessage(p) PROVE TypeInv'
    BY <1>2, OnSettleOfferRejectType, OnSettleOfferType, OnSettleAcceptType,
       OnSettleConfirmType, OnSettleFinalizeType, OnSettleUnconfirmedType,
       OnRenewOfferRejectType, OnRenewOfferType, OnRenewAcceptType,
       OnRenewConfirmType, OnRenewFinalizeType, OnRenewRevokeType,
       OnRejectType, OnCollaborativeCloseOfferType, HandlerErrorType
       DEF OnDlcMessage
  <1>3. ASSUME NEW p \in Party, PeriodicCheck(p) PROVE TypeInv'
    BY <1>3, CheckContractsType, TryFinalizeClosingEstablishedChannelType,
       TryFinalizeSettledClosingChannelType, TryConfirmClaimTxType,
       ProcessBufferTxType, ProcessSettleTx2Type, ProcessRevokedType,
       ProcessCollaborativeCloseType, ProcessCetType, CheckForWatchedTxType,
       PanicType DEF PeriodicCheck, ProcessBufferTxFails, ProcessRevokedFails
  <1>4. CASE Environment
    BY <1>4, ChainStepType, LoseMessageType, RestartType, PublishOldType
       DEF Environment
  <1>5. CASE UNCHANGED vars
    BY <1>5 DEF vars, chanVars, storeVars, chainVars, historyVars, TypeInv,
                StateTyped, RollbackTyped, NetTyped, MonitorTyped, StoredTyped,
                ContractsTyped, RestTyped, ChainTyped, PendingIdx
  <1> QED
    BY <1>1, <1>2, <1>3, <1>4, <1>5 DEF Next

(* Every state of the channel is well typed: in particular a completed     *)
(* update never moves update_idx past the bound it was offered under, and  *)
(* a contract is only ever stored under an id the channel has derived.     *)
THEOREM TypeCorrect == Spec => []TypeOK
  <1>1. Spec => []TypeInv
    BY InitType, NextType, PTL DEF Spec
  <1> QED
    BY <1>1, TypeInvImpliesTypeOK, PTL

-----------------------------------------------------------------------------
(***************************************************************************)
(* No secret of an update is given up before the transaction of the next   *)
(* one is held, for every choice of the constants of DlcChannel: any       *)
(* number of updates, lost messages, restarts, cheats and closes.          *)
(*                                                                         *)
(* RevealOnlyWhenSuperseded is not inductive.  A secret is revealed for    *)
(* update_idx, and what is then held is the transaction of the pending     *)
(* state, so the pending states must agree with update_idx; an offered     *)
(* renewal is accepted by us or for us depending on is_offer, and only the *)
(* messages tell that a RenewAccept answers an offer of ours.              *)
(***************************************************************************)

Tracked == {"SettledOffered", "SettledAccepted", "RenewOffered",
            "RenewAccepted", "RenewConfirmed"}
PendingPoints(p) ==
    LET s == state[p]
        next == updateIdx[p] + 1 IN
    /\ s.name = "SettledOffered" => s.next[p] = next
    /\ s.name = "RenewOffered" =>
         IF s.isOffer THEN s.next[p] = next
         ELSE s.next[p] = 0 /\ s.next[Other(p)] > 0
    /\ s.name \in {"SettledAccepted", "RenewAccepted", "RenewConfirmed"} =>
         s.tx.point[p] = next
MessageSound(p, m) ==
    /\ m.type = "RenewOffer" => m.next > 0
    /\ m.type = "RenewAccept" => m.sig.point[p] > 0
NetSound == \A p \in Party : \A i \in 1 .. Len(net[p]) : MessageSound(p, net[p][i])
Superseded(p) ==
    \A n \in revealed[p] : \E tx \in held[p] : tx.point[p] = n + 1

RevealInv ==
    /\ TypeInv
    /\ NetSound
    /\ \A p \in Party : PendingPoints(p) /\ Superseded(p)

-----------------------------------------------------------------------------
(* Fields of the states and messages that actions build.                   *)

LEMMA PointsFields ==
    ASSUME NEW p \in Party, NEW own, NEW counter
    PROVE  Points(p, own, counter)[p] = own /\ Points(p, own, counter)[Other(p)] = counter
  BY OtherType DEF Points

LEMMA OfferBuilt ==
    ASSUME NEW s \in SignedState
    PROVE  /\ WithOffer(s, TRUE) \in SignedState
           /\ WithOffer(s, TRUE).name = s.name
           /\ WithOffer(s, TRUE).next = s.next
           /\ WithOffer(s, TRUE).isOffer = TRUE
  BY DEF WithOffer, SignedState

LEMMA MsgFields ==
    ASSUME NEW type, NEW next, NEW secret, NEW sig
    PROVE  /\ Msg(type, next, secret, sig).type = type
           /\ Msg(type, next, secret, sig).next = next
           /\ Msg(type, next, secret, sig).sig = sig
  BY DEF Msg

-----------------------------------------------------------------------------
(* Messages.                                                               *)

LEMMA ConsumeSound ==
    ASSUME TypeInv, NetSound, NEW p \in Party, net[p] # <<>>, Consume(p)
    PROVE  NetSound'
  <1>1. net[p] \in Seq(Message)
    BY DEF TypeInv, NetTyped
  <1>2. /\ Len(Tail(net[p])) = Len(net[p]) - 1 /\ Len(net[p]) \in Nat
        /\ \A i \in 1 .. Len(Tail(net[p])) : Tail(net[p])[i] = net[p][i + 1]
    BY <1>1, HeadTailProperties, LenProperties
  <1>3. ASSUME NEW q \in Party, NEW i \in 1 .. Len(net'[q])
        PROVE  MessageSound(q, net'[q][i])
    <2>1. CASE q = p
      <3>1. net'[q] = Tail(net[p])
        BY <2>1 DEF TypeInv, NetTyped, Consume
      <3>2. i + 1 \in 1 .. Len(net[p]) /\ net'[q][i] = net[p][i + 1]
        BY <1>2, <3>1
      <3> QED
        BY <2>1, <3>2 DEF NetSound
    <2>2. CASE q # p
      <3>1. net'[q] = net[q]
        BY <2>2 DEF TypeInv, NetTyped, Consume
      <3> QED
        BY <3>1 DEF NetSound
    <2> QED
      BY <2>1, <2>2
  <1> QED
    BY <1>3 DEF NetSound, MessageSound

LEMMA SendSound ==
    ASSUME TypeInv, NetSound, NEW p \in Party, NEW m \in Message, Send(p, m),
           MessageSound(Other(p), m)
    PROVE  NetSound'
  <1> DEFINE o == Other(p)
  <1>1. net[o] \in Seq(Message) /\ o \in Party
    BY OtherType DEF TypeInv, NetTyped
  <1>2. /\ Len(Append(net[o], m)) = Len(net[o]) + 1 /\ Len(net[o]) \in Nat
        /\ Append(net[o], m)[Len(net[o]) + 1] = m
        /\ \A i \in 1 .. Len(net[o]) : Append(net[o], m)[i] = net[o][i]
    BY <1>1, AppendProperties, LenProperties
  <1>3. ASSUME NEW q \in Party, NEW i \in 1 .. Len(net'[q])
        PROVE  MessageSound(q, net'[q][i])
    <2>1. CASE q = o
      <3>1. net'[q] = Append(net[o], m)
        BY <1>1, <2>1 DEF TypeInv, NetTyped, Send
      <3>2. i = Len(net[o]) + 1 \/ i \in 1 .. Len(net[o])
        BY <1>2, <3>1
      <3> QED
        BY <1>1, <1>2, <2>1, <3>1, <3>2 DEF NetSound
    <2>2. CASE q # o
      <3>1. net'[q] = net[q]
        BY <1>1, <2>2 DEF TypeInv, NetTyped, Send
      <3> QED
        BY <3>1 DEF NetSound
    <2> QED
      BY <2>1, <2>2
  <1> QED
    BY <1>3 DEF NetSound, MessageSound

LEMMA ReplySound ==
    ASSUME TypeInv, NetSound, NEW p \in Party, NEW m \in Message, Reply(p, m),
           net[p] # <<>>, MessageSound(Other(p), m)
    PROVE  NetSound'
  <1> DEFINE o == Other(p)
  <1>1. net[o] \in Seq(Message) /\ net[p] \in Seq(Message) /\ o \in Party /\ o # p
    BY OtherType DEF TypeInv, NetTyped
  <1>2. /\ Len(Append(net[o], m)) = Len(net[o]) + 1 /\ Len(net[o]) \in Nat
        /\ Append(net[o], m)[Len(net[o]) + 1] = m
        /\ \A i \in 1 .. Len(net[o]) : Append(net[o], m)[i] = net[o][i]
    BY <1>1, AppendProperties, LenProperties
  <1>3. /\ Len(Tail(net[p])) = Len(net[p]) - 1 /\ Len(net[p]) \in Nat
        /\ \A i \in 1 .. Len(Tail(net[p])) : Tail(net[p])[i] = net[p][i + 1]
    BY <1>1, HeadTailProperties, LenProperties
  <1>4. /\ net'[p] = Tail(net[p]) /\ net'[o] = Append(net[o], m)
        /\ \A q \in Party : q = p \/ q = o
    BY <1>1 DEF TypeInv, NetTyped, Reply, Other, Party
  <1>5. ASSUME NEW q \in Party, NEW i \in 1 .. Len(net'[q])
        PROVE  MessageSound(q, net'[q][i])
    <2>1. CASE q = o
      <3>1. i = Len(net[o]) + 1 \/ i \in 1 .. Len(net[o])
        BY <1>2, <1>4, <2>1
      <3> QED
        BY <1>1, <1>2, <1>4, <2>1, <3>1 DEF NetSound
    <2>2. CASE q = p
      <3>1. net'[q] = Tail(net[p])
        BY <1>4, <2>2
      <3>2. i \in 1 .. Len(Tail(net[p]))
        BY <3>1
      <3>3. i + 1 \in 1 .. Len(net[p]) /\ Tail(net[p])[i] = net[p][i + 1]
        BY <1>3, <3>2
      <3> QED
        BY <2>2, <3>1, <3>3 DEF NetSound
    <2> QED
      BY <1>4, <2>1, <2>2
  <1> QED
    BY <1>5 DEF NetSound, MessageSound

LEMMA HeadSound ==
    ASSUME TypeInv, NetSound, NEW p \in Party, net[p] # <<>>
    PROVE  MessageSound(p, Head(net[p]))
  <1>1. net[p] \in Seq(Message)
    BY DEF TypeInv, NetTyped
  <1>2. Head(net[p]) = net[p][1] /\ 1 \in 1 .. Len(net[p])
    BY <1>1, HeadTailProperties, LenProperties, EmptySeq
  <1> QED
    BY <1>2 DEF NetSound

(* Messages the invariant asks nothing of.                                 *)
LEMMA PlainSound ==
    ASSUME NEW p, NEW type \in MessageType \ {"RenewOffer", "RenewAccept"},
           NEW next, NEW secret, NEW sig
    PROVE  MessageSound(p, Msg(type, next, secret, sig))
  BY MsgFields DEF MessageSound

-----------------------------------------------------------------------------
(* A step of p: what has to be shown for p alone.                          *)

LEMMA StepOfParty ==
    ASSUME RevealInv, TypeInv', NetSound', NEW p \in Party,
           \A q \in Party \ {p} : /\ state'[q] = state[q]
                                  /\ updateIdx'[q] = updateIdx[q]
                                  /\ revealed'[q] = revealed[q]
                                  /\ held'[q] = held[q],
           PendingPoints(p)', Superseded(p)'
    PROVE  RevealInv'
  <1>1. ASSUME NEW q \in Party PROVE PendingPoints(q)' /\ Superseded(q)'
    <2>1. CASE q = p
      BY <2>1
    <2>2. CASE q # p
      BY <2>2 DEF RevealInv, PendingPoints, Superseded
    <2> QED
      BY <2>1, <2>2
  <1> QED
    BY <1>1 DEF RevealInv

LEMMA UntrackedPoints ==
    ASSUME NEW p \in Party, state'[p].name \notin Tracked
    PROVE  PendingPoints(p)'
  BY DEF Tracked, PendingPoints

LEMMA SameHistory ==
    ASSUME RevealInv, NEW p \in Party, UNCHANGED historyVars
    PROVE  Superseded(p)'
  BY DEF RevealInv, Superseded, historyVars

(* The secret of the current update is given up while the transaction of   *)
(* the next one is stored.                                                 *)
LEMMA RevealedHeld ==
    ASSUME RevealInv, NEW p \in Party, NEW tx \in Tx, Hold(p, tx), Reveal(p),
           tx.point[p] = updateIdx[p] + 1
    PROVE  /\ Superseded(p)'
           /\ \A q \in Party \ {p} : revealed'[q] = revealed[q] /\ held'[q] = held[q]
  <1>1. /\ revealed'[p] = revealed[p] \cup {updateIdx[p]}
        /\ held'[p] = held[p] \cup {tx}
        /\ \A q \in Party \ {p} : revealed'[q] = revealed[q] /\ held'[q] = held[q]
    BY DEF RevealInv, TypeInv, RestTyped, Hold, Reveal, PerUpdateSecret
  <1> QED
    BY <1>1 DEF RevealInv, Superseded

(* A step of p that only takes its state out of the tracked ones.          *)
LEMMA UntrackedStep ==
    ASSUME RevealInv, TypeInv', NetSound', NEW p \in Party,
           \A q \in Party \ {p} : state'[q] = state[q],
           state'[p].name \notin Tracked, updateIdx' = updateIdx,
           UNCHANGED historyVars
    PROVE  RevealInv'
  <1>1. PendingPoints(p)' /\ Superseded(p)'
    BY UntrackedPoints, SameHistory
  <1> QED
    BY <1>1, StepOfParty DEF historyVars

(* A step that leaves the channels' states and the messages alone, or only *)
(* takes or sends messages.                                                *)
LEMMA FrameStep ==
    ASSUME RevealInv, TypeInv', NetSound', state' = state,
           updateIdx' = updateIdx, UNCHANGED historyVars
    PROVE  RevealInv'
  BY DEF RevealInv, PendingPoints, Superseded, historyVars

LEMMA SameNet ==
    ASSUME NetSound, net' = net PROVE NetSound'
  BY DEF NetSound, MessageSound

(* A Reject, and a message that only carries a secret or a signature.      *)
LEMMA RejectMsg ==
    ASSUME NEW p \in Party
    PROVE  /\ Msg("Reject", 0, 0, NoTx) \in Message
           /\ MessageSound(Other(p), Msg("Reject", 0, 0, NoTx))
  BY MsgType, PlainSound, UpdateType, TxType DEF MessageType
-----------------------------------------------------------------------------
(* Settling keeps the invariant.                                           *)

LEMMA SettleOfferReveal ==
    ASSUME RevealInv, NEW p \in Party, SettleOffer(p)
    PROVE  RevealInv'
  <1> DEFINE next == updateIdx[p] + 1
             pts == Points(p, next, 0)
             s == WithNext(Variant("SettledOffered", NoTx, NoContract), pts)
             m == Msg("SettleOffer", next, 0, NoTx)
  <1>1. TypeInv /\ TypeInv'
    BY SettleOfferType DEF RevealInv
  <1>2. next \in Update /\ pts \in [Party -> Update] /\ pts[p] = next
    BY <1>1, UpdateType, PointsType, PointsFields
       DEF TypeInv, SettleOffer, RestTyped
  <1>3. s \in SignedState /\ s.name = "SettledOffered" /\ s.next = pts
    <2> HIDE DEF pts
    <2>1. s \in SignedState /\ s.name = "SettledOffered"
      BY <1>2, VariantWithNext, TxType DEF StateName
    <2>2. s.next = pts
      BY DEF Variant, WithNext
    <2> QED
      BY <2>1, <2>2
  <1>4. MoveTo(p, s) /\ Send(p, m) /\ updateIdx' = updateIdx /\ UNCHANGED historyVars
    BY DEF SettleOffer
  <1>5. NetSound'
    <2>1. m \in Message /\ MessageSound(Other(p), m)
      BY <1>2, MsgType, PlainSound, UpdateType, TxType DEF MessageType
    <2> QED
      BY <1>1, <1>4, <2>1, SendSound DEF RevealInv
  <1> HIDE DEF s, m, pts
  <1>6. state'[p] = s /\ \A q \in Party \ {p} : state'[q] = state[q]
    BY <1>1, <1>3, <1>4, MoveToType DEF TypeInv
  <1>7. PendingPoints(p)'
    BY <1>2, <1>3, <1>4, <1>6 DEF PendingPoints
  <1> QED
    BY <1>1, <1>4, <1>5, <1>6, <1>7, SameHistory, StepOfParty DEF historyVars

LEMMA OnSettleOfferReveal ==
    ASSUME RevealInv, NEW p \in Party, OnSettleOffer(p)
    PROVE  RevealInv'
  <1> DEFINE pts == Points(p, 0, Head(net[p]).next)
             s == WithNext(Variant("SettledReceived", NoTx, NoContract), pts)
  <1>1. TypeInv /\ TypeInv' /\ net[p] # <<>>
    BY OnSettleOfferType DEF RevealInv, OnSettleOffer, Receives
  <1>2. pts \in [Party -> Update]
    BY <1>1, HeadType, UpdateType, PointsType DEF TypeInv
  <1>3. s \in SignedState /\ s.name = "SettledReceived"
    <2> HIDE DEF pts
    <2> QED
      BY <1>2, VariantWithNext, TxType DEF StateName
  <1>4. MoveTo(p, s) /\ Consume(p) /\ updateIdx' = updateIdx /\ UNCHANGED historyVars
    BY DEF OnSettleOffer
  <1>5. NetSound'
    BY <1>1, <1>4, ConsumeSound DEF RevealInv
  <1> HIDE DEF s
  <1>6. state'[p] = s /\ \A q \in Party \ {p} : state'[q] = state[q]
    BY <1>1, <1>3, <1>4, MoveToType DEF TypeInv
  <1> QED
    BY <1>1, <1>3, <1>4, <1>5, <1>6, UntrackedStep DEF Tracked

LEMMA AcceptSettleOfferReveal ==
    ASSUME RevealInv, NEW p \in Party, AcceptSettleOffer(p)
    PROVE  RevealInv'
  <1> DEFINE next == updateIdx[p] + 1
             pts == Points(p, next, state[p].next[Other(p)])
             tx == SettleTx(Other(p), pts)
             s == WithNext(Variant("SettledAccepted", tx, NoContract), pts)
             m == Msg("SettleAccept", next, 0, tx)
  <1>1. TypeInv /\ TypeInv'
    BY AcceptSettleOfferType DEF RevealInv
  <1>2. next \in Update /\ state[p].next \in [Party -> Update] /\ Other(p) \in Party
    BY <1>1, UpdateType, StateFields, OtherType
       DEF TypeInv, AcceptSettleOffer, RestTyped, StateTyped
  <1>3. pts \in [Party -> Update] /\ pts[p] = next
    <2>1. pts \in [Party -> Update]
      BY <1>2, PointsType
    <2>2. pts[p] = next
      BY DEF Points
    <2> QED
      BY <2>1, <2>2
  <1>4. tx \in Tx /\ tx.point = pts
    <2> HIDE DEF pts
    <2>1. tx \in Tx
      BY <1>2, <1>3, TxType
    <2>2. tx.point = pts
      BY DEF SettleTx
    <2> QED
      BY <2>1, <2>2
  <1>5. s \in SignedState /\ s.name = "SettledAccepted" /\ s.tx = tx
    <2> HIDE DEF tx, pts
    <2> QED
      <3>1. s \in SignedState /\ s.name = "SettledAccepted"
        BY <1>3, <1>4, VariantWithNext DEF StateName
      <3>2. s.tx = tx
        BY DEF Variant, WithNext
      <3> QED
        BY <3>1, <3>2
  <1>6. SetState(p, s) /\ Send(p, m) /\ updateIdx' = updateIdx /\ UNCHANGED historyVars
    BY DEF AcceptSettleOffer
  <1>7. NetSound'
    <2>1. m \in Message /\ MessageSound(Other(p), m)
      <3> HIDE DEF tx
      <3> QED
        BY <1>2, <1>4, MsgType, PlainSound, UpdateType DEF MessageType
    <2> QED
      BY <1>1, <1>6, <2>1, SendSound DEF RevealInv
  <1> HIDE DEF s, m, tx, pts
  <1>8. state'[p] = s /\ \A q \in Party \ {p} : state'[q] = state[q]
    BY <1>1, <1>5, <1>6, SetStateType DEF TypeInv
  <1>9. PendingPoints(p)'
    BY <1>3, <1>4, <1>5, <1>6, <1>8 DEF PendingPoints
  <1> QED
    BY <1>1, <1>6, <1>7, <1>8, <1>9, SameHistory, StepOfParty DEF historyVars

(* An offer, ours or the peer's, is rolled back to a stable state.         *)
LEMMA RollBackReveal ==
    ASSUME RevealInv, TypeInv', NetSound', NEW p \in Party, RollBack(p),
           state[p].name \in Revertible, updateIdx' = updateIdx,
           UNCHANGED historyVars
    PROVE  RevealInv'
  <1>1. state'[p] = rollback[p] /\ \A q \in Party \ {p} : state'[q] = state[q]
    BY RollBackType DEF RevealInv, TypeInv
  <1>2. rollback[p].name \in StableStates
    BY DEF RevealInv, TypeInv, PendingIdx
  <1> QED
    BY <1>1, <1>2, UntrackedStep DEF Tracked, StableStates

LEMMA RejectSettleOfferReveal ==
    ASSUME RevealInv, NEW p \in Party, RejectSettleOffer(p)
    PROVE  RevealInv'
  <1>1. TypeInv /\ TypeInv'
    BY RejectSettleOfferType DEF RevealInv
  <1>2. NetSound'
    BY <1>1, RejectMsg, SendSound DEF RevealInv, RejectSettleOffer
  <1> QED
    BY <1>1, <1>2, RollBackReveal DEF RejectSettleOffer, InState, Revertible

LEMMA OnOfferRejectReveal ==
    ASSUME RevealInv, NEW p \in Party,
           OnSettleOfferReject(p) \/ OnRenewOfferReject(p)
    PROVE  RevealInv'
  <1>1. TypeInv /\ TypeInv'
    BY OnSettleOfferRejectType, OnRenewOfferRejectType DEF RevealInv
  <1>2. NetSound'
    BY <1>1, RejectMsg, ReplySound
       DEF RevealInv, OnSettleOfferReject, OnRenewOfferReject, Receives
  <1> QED
    BY <1>1, <1>2, FrameStep DEF OnSettleOfferReject, OnRenewOfferReject, chanVars

LEMMA OnSettleAcceptReveal ==
    ASSUME RevealInv, NEW p \in Party, OnSettleAccept(p)
    PROVE  RevealInv'
  <1> DEFINE pts == Points(p, state[p].next[p], Head(net[p]).next)
             tx == SettleTx(p, pts)
             s == WithNext(Variant("SettledConfirmed", tx, NoContract), pts)
             m == Msg("SettleConfirm", 0, PerUpdateSecret(p), tx)
  <1>1. TypeInv /\ TypeInv' /\ net[p] # <<>> /\ state[p].name = "SettledOffered"
    BY OnSettleAcceptType DEF RevealInv, OnSettleAccept, Receives, InState
  <1>2. /\ state[p].next \in [Party -> Update] /\ Head(net[p]).next \in Update
        /\ PerUpdateSecret(p) \in Update /\ state[p].next[p] = updateIdx[p] + 1
    BY <1>1, HeadType, StateFields
       DEF RevealInv, TypeInv, StateTyped, RestTyped, PerUpdateSecret, PendingPoints
  <1>3. pts \in [Party -> Update] /\ pts[p] = updateIdx[p] + 1
    <2>1. pts \in [Party -> Update]
      BY <1>2, PointsType
    <2>2. pts[p] = state[p].next[p]
      BY DEF Points
    <2> QED
      BY <1>2, <2>1, <2>2
  <1>4. tx \in Tx /\ tx.point = pts
    <2> HIDE DEF pts
    <2>1. tx \in Tx
      BY <1>3, TxType
    <2>2. tx.point = pts
      BY DEF SettleTx
    <2> QED
      BY <2>1, <2>2
  <1>5. s \in SignedState /\ s.name = "SettledConfirmed"
    <2> HIDE DEF pts, tx
    <2> QED
      BY <1>3, <1>4, VariantWithNext DEF StateName
  <1>6. /\ SetState(p, s) /\ Hold(p, tx) /\ Reveal(p) /\ Reply(p, m)
        /\ updateIdx' = updateIdx
    BY DEF OnSettleAccept
  <1> HIDE DEF pts, tx
  <1>7. NetSound'
    <2>1. m \in Message /\ MessageSound(Other(p), m)
      BY <1>2, <1>4, MsgType, PlainSound, UpdateType DEF MessageType
    <2> QED
      BY <1>1, <1>6, <2>1, ReplySound DEF RevealInv
  <1> HIDE DEF s, m
  <1>8. state'[p] = s /\ \A q \in Party \ {p} : state'[q] = state[q]
    BY <1>1, <1>5, <1>6, SetStateType DEF TypeInv
  <1>9. PendingPoints(p)'
    BY <1>5, <1>8, UntrackedPoints DEF Tracked
  <1>10. /\ Superseded(p)'
         /\ \A q \in Party \ {p} : revealed'[q] = revealed[q] /\ held'[q] = held[q]
    BY <1>3, <1>4, <1>6, RevealedHeld
  <1> QED
    BY <1>1, <1>6, <1>7, <1>8, <1>9, <1>10, StepOfParty

LEMMA AdoptSettledReveal ==
    ASSUME RevealInv, NEW p \in Party, AdoptSettled(p)
    PROVE  /\ PendingPoints(p)'
           /\ \A q \in Party \ {p} : state'[q] = state[q] /\ updateIdx'[q] = updateIdx[q]
  <1> DEFINE s == Variant("Settled", state[p].tx, NoContract)
  <1>1. s \in SignedState /\ s.name = "Settled"
    BY VariantType, StateFields DEF RevealInv, TypeInv, StateTyped, StateName
  <1>2. SetState(p, s) /\ StepUpdateIdx(p)
    BY DEF AdoptSettled
  <1> HIDE DEF s
  <1>3. state'[p] = s /\ \A q \in Party \ {p} : state'[q] = state[q]
    BY <1>1, <1>2, SetStateType DEF RevealInv, TypeInv
  <1>4. \A q \in Party \ {p} : updateIdx'[q] = updateIdx[q]
    BY <1>2 DEF RevealInv, TypeInv, RestTyped, StepUpdateIdx
  <1> QED
    BY <1>1, <1>3, <1>4, UntrackedPoints DEF Tracked

LEMMA OnSettleConfirmReveal ==
    ASSUME RevealInv, NEW p \in Party, OnSettleConfirm(p)
    PROVE  RevealInv'
  <1> DEFINE m == Msg("SettleFinalize", 0, PerUpdateSecret(p), NoTx)
  <1>1. /\ TypeInv /\ TypeInv' /\ net[p] # <<>> /\ AdoptSettled(p)
        /\ state[p].name = "SettledAccepted"
    BY OnSettleConfirmType DEF RevealInv, OnSettleConfirm, Receives, InState
  <1>2. /\ state[p].tx \in Tx /\ PerUpdateSecret(p) \in Update
        /\ state[p].tx.point[p] = updateIdx[p] + 1
    BY <1>1, StateFields
       DEF RevealInv, TypeInv, StateTyped, RestTyped, PerUpdateSecret, PendingPoints
  <1>3. Hold(p, state[p].tx) /\ Reveal(p) /\ Reply(p, m)
    BY DEF OnSettleConfirm
  <1>4. NetSound'
    <2>1. m \in Message /\ MessageSound(Other(p), m)
      BY <1>2, MsgType, PlainSound, UpdateType, TxType DEF MessageType
    <2> QED
      BY <1>1, <1>3, <2>1, ReplySound DEF RevealInv
  <1>5. /\ Superseded(p)'
        /\ \A q \in Party \ {p} : revealed'[q] = revealed[q] /\ held'[q] = held[q]
    BY <1>2, <1>3, RevealedHeld
  <1> QED
    BY <1>1, <1>4, <1>5, AdoptSettledReveal, StepOfParty

LEMMA OnSettleFinalizeReveal ==
    ASSUME RevealInv, NEW p \in Party, OnSettleFinalize(p)
    PROVE  RevealInv'
  <1>1. TypeInv /\ TypeInv' /\ net[p] # <<>> /\ AdoptSettled(p) /\ Consume(p)
    BY OnSettleFinalizeType DEF RevealInv, OnSettleFinalize, Receives
  <1>2. NetSound'
    BY <1>1, ConsumeSound DEF RevealInv
  <1>3. Superseded(p)' /\ UNCHANGED historyVars
    BY SameHistory DEF OnSettleFinalize
  <1> QED
    BY <1>1, <1>2, <1>3, AdoptSettledReveal, StepOfParty DEF historyVars

(* The other steps that only take a message.                               *)
LEMMA ConsumeReveal ==
    ASSUME RevealInv, NEW p \in Party,
           OnSettleUnconfirmed(p) \/ HandlerError(p) \/ LoseMessage(p)
    PROVE  RevealInv'
  <1>1. TypeInv /\ TypeInv' /\ net[p] # <<>> /\ Consume(p)
    BY OnSettleUnconfirmedType, HandlerErrorType, LoseMessageType
       DEF RevealInv, OnSettleUnconfirmed, HandlerError, LoseMessage, Receives
  <1>2. NetSound'
    BY <1>1, ConsumeSound DEF RevealInv
  <1> QED
    BY <1>1, <1>2, FrameStep
       DEF OnSettleUnconfirmed, HandlerError, LoseMessage, chanVars

-----------------------------------------------------------------------------
(* Renewing keeps the invariant.                                           *)

LEMMA RenewOfferReveal ==
    ASSUME RevealInv, NEW p \in Party, RenewOffer(p)
    PROVE  RevealInv'
  <1> DEFINE next == updateIdx[p] + 1
             pts == Points(p, next, 0)
             r == WithNext(Variant("RenewOffered", NoTx, TempId(next)), pts)
             s == WithOffer(r, TRUE)
             m == Msg("RenewOffer", next, 0, NoTx)
  <1>1. TypeInv /\ TypeInv'
    BY RenewOfferType DEF RevealInv
  <1>2. next \in Update /\ next > 0 /\ TempId(next) \in ContractId
    BY <1>1, UpdateType, ContractIdType DEF TypeInv, RenewOffer, RestTyped
  <1>3. pts \in [Party -> Update] /\ pts[p] = next
    <2>1. pts \in [Party -> Update]
      BY <1>2, UpdateType, PointsType
    <2>2. pts[p] = next
      BY DEF Points
    <2> QED
      BY <2>1, <2>2
  <1>4. /\ s \in SignedState /\ s.name = "RenewOffered"
        /\ s.isOffer = TRUE /\ s.next = pts
    <2> HIDE DEF pts
    <2>1. r \in SignedState /\ r.name = "RenewOffered"
      BY <1>2, <1>3, VariantWithNext, TxType DEF StateName
    <2>2. r.next = pts
      BY DEF Variant, WithNext
    <2> HIDE DEF r
    <2> QED
      BY <2>1, <2>2, OfferBuilt
  <1>5. MoveTo(p, s) /\ Send(p, m) /\ updateIdx' = updateIdx /\ UNCHANGED historyVars
    BY DEF RenewOffer
  <1>6. NetSound'
    <2>1. m \in Message
      BY <1>2, MsgType, UpdateType, TxType DEF MessageType
    <2>2. MessageSound(Other(p), m)
      BY <1>2 DEF MessageSound, Msg
    <2> QED
      BY <1>1, <1>5, <2>1, <2>2, SendSound DEF RevealInv
  <1> HIDE DEF s, m, pts
  <1>7. state'[p] = s /\ \A q \in Party \ {p} : state'[q] = state[q]
    BY <1>1, <1>4, <1>5, MoveToType DEF TypeInv
  <1>8. PendingPoints(p)'
    BY <1>3, <1>4, <1>5, <1>7 DEF PendingPoints
  <1> QED
    BY <1>1, <1>5, <1>6, <1>7, <1>8, SameHistory, StepOfParty DEF historyVars

LEMMA OnRenewOfferReveal ==
    ASSUME RevealInv, NEW p \in Party, OnRenewOffer(p)
    PROVE  RevealInv'
  <1> DEFINE next == updateIdx[p] + 1
             theirs == Head(net[p]).next
             pts == Points(p, 0, theirs)
             s == WithNext(Variant("RenewOffered", NoTx, TempId(next)), pts)
  <1>1. TypeInv /\ TypeInv' /\ net[p] # <<>> /\ Head(net[p]).type = "RenewOffer"
    BY OnRenewOfferType DEF RevealInv, OnRenewOffer, Receives
  <1>2. next \in Update /\ TempId(next) \in ContractId
    BY <1>1, UpdateType, ContractIdType DEF TypeInv, OnRenewOffer, RestTyped
  <1>3. theirs \in Update /\ theirs > 0
    BY <1>1, HeadType, HeadSound DEF RevealInv, TypeInv, MessageSound
  <1>4. pts \in [Party -> Update] /\ pts[p] = 0 /\ pts[Other(p)] > 0
    <2>1. pts \in [Party -> Update]
      BY <1>3, UpdateType, PointsType
    <2>2. pts[p] = 0 /\ pts[Other(p)] = theirs
      BY OtherType DEF Points
    <2> QED
      BY <1>3, <2>1, <2>2
  <1>5. /\ s \in SignedState /\ s.name = "RenewOffered"
        /\ s.isOffer = FALSE /\ s.next = pts
    <2> HIDE DEF pts
    <2>1. s \in SignedState /\ s.name = "RenewOffered"
      BY <1>2, <1>4, VariantWithNext, TxType DEF StateName
    <2>2. s.isOffer = FALSE /\ s.next = pts
      BY DEF Variant, WithNext
    <2> QED
      BY <2>1, <2>2
  <1>6. MoveTo(p, s) /\ Consume(p) /\ updateIdx' = updateIdx /\ UNCHANGED historyVars
    BY DEF OnRenewOffer
  <1>7. NetSound'
    BY <1>1, <1>6, ConsumeSound DEF RevealInv
  <1> HIDE DEF s, pts
  <1>8. state'[p] = s /\ \A q \in Party \ {p} : state'[q] = state[q]
    BY <1>1, <1>5, <1>6, MoveToType DEF TypeInv
  <1>9. PendingPoints(p)'
    BY <1>4, <1>5, <1>8 DEF PendingPoints
  <1> QED
    BY <1>1, <1>6, <1>7, <1>8, <1>9, SameHistory, StepOfParty DEF historyVars

(* Accepting the peer's offer answers it with the point it came with.      *)
LEMMA AcceptRenewOfferReveal ==
    ASSUME RevealInv, NEW p \in Party, AcceptRenewOffer(p), ~state[p].isOffer
    PROVE  RevealInv'
  <1> DEFINE next == updateIdx[p] + 1
             theirs == state[p].next[Other(p)]
             pts == Points(p, next, theirs)
             tx == BufferTx(Other(p), pts)
             s == WithNext(Variant("RenewAccepted", tx, FinalId(next)), pts)
             m == Msg("RenewAccept", next, 0, tx)
  <1>1. TypeInv /\ TypeInv' /\ state[p].name = "RenewOffered"
    BY AcceptRenewOfferType DEF RevealInv, AcceptRenewOffer, InState
  <1>2. /\ next \in Update /\ FinalId(next) \in ContractId
        /\ state[p].next \in [Party -> Update] /\ Other(p) \in Party
    BY <1>1, UpdateType, StateFields, OtherType, ContractIdType
       DEF TypeInv, AcceptRenewOffer, RestTyped, StateTyped
  <1>3. theirs > 0
    BY <1>1 DEF RevealInv, PendingPoints
  <1>4. pts \in [Party -> Update] /\ pts[p] = next /\ pts[Other(p)] > 0
    <2>1. pts \in [Party -> Update]
      BY <1>2, PointsType
    <2>2. pts[p] = next /\ pts[Other(p)] = theirs
      BY OtherType DEF Points
    <2> QED
      BY <1>3, <2>1, <2>2
  <1>5. tx \in Tx /\ tx.point = pts
    <2> HIDE DEF pts
    <2>1. tx \in Tx
      BY <1>2, <1>4, TxType
    <2>2. tx.point = pts
      BY DEF BufferTx
    <2> QED
      BY <2>1, <2>2
  <1>6. s \in SignedState /\ s.name = "RenewAccepted" /\ s.tx = tx
    <2> HIDE DEF tx, pts
    <2>1. s \in SignedState /\ s.name = "RenewAccepted"
      BY <1>2, <1>4, <1>5, VariantWithNext DEF StateName
    <2>2. s.tx = tx
      BY DEF Variant, WithNext
    <2> QED
      BY <2>1, <2>2
  <1>7. SetState(p, s) /\ Send(p, m) /\ updateIdx' = updateIdx /\ UNCHANGED historyVars
    BY DEF AcceptRenewOffer
  <1> HIDE DEF pts, tx
  <1>8. NetSound'
    <2>1. m \in Message
      BY <1>2, <1>5, MsgType, UpdateType DEF MessageType
    <2>2. m.type = "RenewAccept" /\ m.sig = tx
      BY DEF Msg
    <2>3. MessageSound(Other(p), m)
      BY <1>4, <1>5, <2>2 DEF MessageSound
    <2> QED
      BY <1>1, <1>7, <2>1, <2>3, SendSound DEF RevealInv
  <1> HIDE DEF s, m
  <1>9. state'[p] = s /\ \A q \in Party \ {p} : state'[q] = state[q]
    BY <1>1, <1>6, <1>7, SetStateType DEF TypeInv
  <1>10. PendingPoints(p)'
    BY <1>4, <1>5, <1>6, <1>7, <1>9 DEF PendingPoints
  <1> QED
    BY <1>1, <1>7, <1>8, <1>9, <1>10, SameHistory, StepOfParty DEF historyVars

LEMMA RejectRenewOfferReveal ==
    ASSUME RevealInv, NEW p \in Party, RejectRenewOffer(p)
    PROVE  RevealInv'
  <1>1. TypeInv /\ TypeInv'
    BY RejectRenewOfferType DEF RevealInv
  <1>2. NetSound'
    BY <1>1, RejectMsg, SendSound DEF RevealInv, RejectRenewOffer
  <1> QED
    BY <1>1, <1>2, RollBackReveal DEF RejectRenewOffer, InState, Revertible

(* Only an offer of ours is answered: the point the answer signs for is    *)
(* ours, and not zero.                                                     *)
LEMMA OnRenewAcceptReveal ==
    ASSUME RevealInv, NEW p \in Party, OnRenewAccept(p)
    PROVE  RevealInv'
  <1> DEFINE own == state[p].next[p]
             pts == Points(p, own, Head(net[p]).next)
             tx == BufferTx(p, pts)
             id == FinalId(state[p].contract[2])
             s == WithNext(Variant("RenewConfirmed", tx, id), pts)
             m == Msg("RenewConfirm", 0, 0, tx)
  <1>1. /\ TypeInv /\ TypeInv' /\ net[p] # <<>> /\ state[p].name = "RenewOffered"
        /\ Head(net[p]).type = "RenewAccept" /\ Head(net[p]).sig = tx
    BY OnRenewAcceptType
       DEF RevealInv, OnRenewAccept, RenewAcceptValid, Receives, InState
  <1>2. state[p].next \in [Party -> Update] /\ Head(net[p]).next \in Update
    BY <1>1, HeadType, StateFields DEF TypeInv, StateTyped
  <1>3. id \in ContractId
    BY ContractIdType DEF OnRenewAccept, RenewAcceptValid, ContractOffered
  <1>4. pts \in [Party -> Update] /\ pts[p] = own
    <2>1. pts \in [Party -> Update]
      BY <1>2, PointsType
    <2>2. pts[p] = own
      BY DEF Points
    <2> QED
      BY <2>1, <2>2
  <1>5. tx \in Tx /\ tx.point = pts
    <2> HIDE DEF pts
    <2>1. tx \in Tx
      BY <1>4, TxType
    <2>2. tx.point = pts
      BY DEF BufferTx
    <2> QED
      BY <2>1, <2>2
  <1>6. s \in SignedState /\ s.name = "RenewConfirmed" /\ s.tx = tx
    <2> HIDE DEF tx, pts, id
    <2>1. s \in SignedState /\ s.name = "RenewConfirmed"
      BY <1>3, <1>4, <1>5, VariantWithNext DEF StateName
    <2>2. s.tx = tx
      BY DEF Variant, WithNext
    <2> QED
      BY <2>1, <2>2
  <1>7. SetState(p, s) /\ Reply(p, m) /\ updateIdx' = updateIdx /\ UNCHANGED historyVars
    BY DEF OnRenewAccept
  <1> HIDE DEF pts, tx, id
  <1>8. NetSound'
    <2>1. m \in Message /\ MessageSound(Other(p), m)
      BY <1>5, MsgType, PlainSound, UpdateType DEF MessageType
    <2> QED
      BY <1>1, <1>7, <2>1, ReplySound DEF RevealInv
  <1>9. own = updateIdx[p] + 1
    <2>1. own > 0
      BY <1>1, <1>4, <1>5, HeadSound DEF RevealInv, MessageSound
    <2> QED
      BY <1>1, <2>1 DEF RevealInv, PendingPoints
  <1> HIDE DEF s, m, own
  <1>10. state'[p] = s /\ \A q \in Party \ {p} : state'[q] = state[q]
    BY <1>1, <1>6, <1>7, SetStateType DEF TypeInv
  <1>11. PendingPoints(p)'
    BY <1>4, <1>5, <1>6, <1>7, <1>9, <1>10 DEF PendingPoints
  <1> QED
    BY <1>1, <1>7, <1>8, <1>10, <1>11, SameHistory, StepOfParty DEF historyVars

LEMMA OnRenewConfirmReveal ==
    ASSUME RevealInv, NEW p \in Party, OnRenewConfirm(p)
    PROVE  RevealInv'
  <1> DEFINE tx == state[p].tx
             s == WithPrev(Variant("RenewFinalized", tx, state[p].contract),
                           points[p][Other(p)])
             m == Msg("RenewFinalize", 0, PerUpdateSecret(p), tx)
  <1>1. TypeInv /\ TypeInv' /\ net[p] # <<>> /\ state[p].name = "RenewAccepted"
    BY OnRenewConfirmType DEF RevealInv, OnRenewConfirm, Receives, InState
  <1>2. /\ tx \in Tx /\ PerUpdateSecret(p) \in Update
        /\ tx.point[p] = updateIdx[p] + 1
    BY <1>1, StateFields
       DEF RevealInv, TypeInv, StateTyped, RestTyped, PerUpdateSecret, PendingPoints
  <1>3. /\ SetState(p, s) /\ Hold(p, tx) /\ Reveal(p) /\ Reply(p, m)
        /\ updateIdx' = updateIdx
    BY DEF OnRenewConfirm
  <1>4. NetSound'
    <2>1. m \in Message /\ MessageSound(Other(p), m)
      BY <1>2, MsgType, PlainSound, UpdateType DEF MessageType
    <2> QED
      BY <1>1, <1>3, <2>1, ReplySound DEF RevealInv
  <1>5. s.name = "RenewFinalized"
    BY DEF Variant, WithPrev
  <1>6. state'[p].name = "RenewFinalized" /\ \A q \in Party \ {p} : state'[q] = state[q]
    <2> HIDE DEF s
    <2> QED
      BY <1>1, <1>3, <1>5 DEF TypeInv, StateTyped, SetState
  <1>7. PendingPoints(p)'
    BY <1>6, UntrackedPoints DEF Tracked
  <1>8. /\ Superseded(p)'
        /\ \A q \in Party \ {p} : revealed'[q] = revealed[q] /\ held'[q] = held[q]
    BY <1>2, <1>3, RevealedHeld
  <1> QED
    BY <1>1, <1>3, <1>4, <1>6, <1>7, <1>8, StepOfParty

LEMMA OnRenewFinalizeReveal ==
    ASSUME RevealInv, NEW p \in Party, OnRenewFinalize(p)
    PROVE  RevealInv'
  <1> DEFINE tx == state[p].tx
             s == WithOffer(Variant("Established", tx, state[p].contract), TRUE)
             m == Msg("RenewRevoke", 0, PerUpdateSecret(p), NoTx)
  <1>1. TypeInv /\ TypeInv' /\ net[p] # <<>> /\ state[p].name = "RenewConfirmed"
    BY OnRenewFinalizeType DEF RevealInv, OnRenewFinalize, Receives, InState
  <1>2. /\ tx \in Tx /\ PerUpdateSecret(p) \in Update
        /\ tx.point[p] = updateIdx[p] + 1
    BY <1>1, StateFields
       DEF RevealInv, TypeInv, StateTyped, RestTyped, PerUpdateSecret, PendingPoints
  <1>3. /\ SetState(p, s) /\ Hold(p, tx) /\ Reveal(p) /\ Reply(p, m)
        /\ StepUpdateIdx(p)
    BY DEF OnRenewFinalize
  <1>4. NetSound'
    <2>1. m \in Message /\ MessageSound(Other(p), m)
      BY <1>2, MsgType, PlainSound, UpdateType, TxType DEF MessageType
    <2> QED
      BY <1>1, <1>3, <2>1, ReplySound DEF RevealInv
  <1>5. s.name = "Established"
    BY DEF Variant, WithOffer
  <1>6. state'[p].name = "Established" /\ \A q \in Party \ {p} : state'[q] = state[q]
    <2> HIDE DEF s
    <2> QED
      BY <1>1, <1>3, <1>5 DEF TypeInv, StateTyped, SetState
  <1>7. PendingPoints(p)'
    BY <1>6, UntrackedPoints DEF Tracked
  <1>8. /\ Superseded(p)'
        /\ \A q \in Party \ {p} : revealed'[q] = revealed[q] /\ held'[q] = held[q]
    BY <1>2, <1>3, RevealedHeld
  <1>9. \A q \in Party \ {p} : updateIdx'[q] = updateIdx[q]
    BY <1>1, <1>3 DEF TypeInv, RestTyped, StepUpdateIdx
  <1> QED
    BY <1>1, <1>4, <1>6, <1>7, <1>8, <1>9, StepOfParty

LEMMA OnRenewRevokeReveal ==
    ASSUME RevealInv, NEW p \in Party, OnRenewRevoke(p)
    PROVE  RevealInv'
  <1> DEFINE s == WithOffer(Variant("Established", state[p].tx, state[p].contract),
                            TRUE)
  <1>1. TypeInv /\ TypeInv' /\ net[p] # <<>>
    BY OnRenewRevokeType DEF RevealInv, OnRenewRevoke, Receives
  <1>2. SetState(p, s) /\ StepUpdateIdx(p) /\ Consume(p) /\ UNCHANGED historyVars
    BY DEF OnRenewRevoke
  <1>3. s.name = "Established"
    BY DEF Variant, WithOffer
  <1>4. state'[p].name = "Established" /\ \A q \in Party \ {p} : state'[q] = state[q]
    <2> HIDE DEF s
    <2> QED
      BY <1>1, <1>2, <1>3 DEF TypeInv, StateTyped, SetState
  <1>5. NetSound'
    BY <1>1, <1>2, ConsumeSound DEF RevealInv
  <1>6. PendingPoints(p)' /\ Superseded(p)'
    BY <1>2, <1>4, UntrackedPoints, SameHistory DEF Tracked
  <1>7. \A q \in Party \ {p} : updateIdx'[q] = updateIdx[q]
    BY <1>1, <1>2 DEF TypeInv, RestTyped, StepUpdateIdx
  <1> QED
    BY <1>1, <1>2, <1>4, <1>5, <1>6, <1>7, StepOfParty DEF historyVars

LEMMA OnRejectReveal ==
    ASSUME RevealInv, NEW p \in Party, OnReject(p)
    PROVE  RevealInv'
  <1>1. /\ TypeInv /\ TypeInv' /\ net[p] # <<>> /\ Consume(p)
        /\ updateIdx' = updateIdx /\ UNCHANGED historyVars
    BY OnRejectType DEF RevealInv, OnReject, Receives
  <1>2. NetSound'
    BY <1>1, ConsumeSound DEF RevealInv
  <1>3. CASE state' = state
    BY <1>1, <1>2, <1>3, FrameStep
  <1>4. CASE RollBack(p) /\ state[p].name \in {"SettledOffered", "RenewOffered"}
    BY <1>1, <1>2, <1>4, RollBackReveal DEF Revertible
  <1> QED
    BY <1>3, <1>4 DEF OnReject

-----------------------------------------------------------------------------
(* Closing, the periodic check and the environment keep the invariant.     *)

LEMMA ClosingStep ==
    ASSUME RevealInv, TypeInv', NetSound', NEW p \in Party, NEW s,
           s.name \in {"Closing", "SettledClosing", "CollaborativeCloseOffered"},
           SetState(p, s), updateIdx' = updateIdx, UNCHANGED historyVars
    PROVE  RevealInv'
  <1>1. state'[p] = s /\ \A q \in Party \ {p} : state'[q] = state[q]
    BY DEF RevealInv, TypeInv, StateTyped, SetState
  <1> QED
    BY <1>1, UntrackedStep DEF Tracked

LEMMA OfferCollaborativeCloseReveal ==
    ASSUME RevealInv, NEW p \in Party, OfferCollaborativeClose(p)
    PROVE  RevealInv'
  <1> DEFINE s == WithOffer(Variant("CollaborativeCloseOffered", CloseTx(p),
                                    NoContract), TRUE)
             m == Msg("CollaborativeCloseOffer", 0, 0, CloseTx(p))
  <1>1. TypeInv /\ TypeInv'
    BY OfferCollaborativeCloseType DEF RevealInv
  <1>2. SetState(p, s) /\ Send(p, m) /\ updateIdx' = updateIdx /\ UNCHANGED historyVars
    BY DEF OfferCollaborativeClose, MoveTo, SetState
  <1>3. m \in Message /\ MessageSound(Other(p), m)
    BY MsgType, PlainSound, UpdateType, TxType DEF MessageType
  <1>4. NetSound'
    BY <1>1, <1>2, <1>3, SendSound DEF RevealInv
  <1>5. s.name = "CollaborativeCloseOffered"
    BY DEF Variant, WithOffer
  <1> HIDE DEF s
  <1> QED
    BY <1>1, <1>2, <1>4, <1>5, ClosingStep

LEMMA OnCollaborativeCloseOfferReveal ==
    ASSUME RevealInv, NEW p \in Party, OnCollaborativeCloseOffer(p)
    PROVE  RevealInv'
  <1> DEFINE s == Variant("CollaborativeCloseOffered", CloseTx(Other(p)), NoContract)
  <1>1. TypeInv /\ TypeInv' /\ net[p] # <<>>
    BY OnCollaborativeCloseOfferType DEF RevealInv, OnCollaborativeCloseOffer, Receives
  <1>2. SetState(p, s) /\ Consume(p) /\ updateIdx' = updateIdx /\ UNCHANGED historyVars
    BY DEF OnCollaborativeCloseOffer, MoveTo, SetState
  <1>3. NetSound'
    BY <1>1, <1>2, ConsumeSound DEF RevealInv
  <1>4. s.name = "CollaborativeCloseOffered"
    BY DEF Variant
  <1> HIDE DEF s
  <1> QED
    BY <1>1, <1>2, <1>3, <1>4, ClosingStep

LEMMA ForceCloseReveal ==
    ASSUME RevealInv, NEW p \in Party,
           ForceCloseEstablished(p) \/ ForceCloseSettled(p)
    PROVE  RevealInv'
  <1>1. TypeInv'
    BY ForceCloseEstablishedType, ForceCloseSettledType DEF RevealInv
  <1>2. NetSound' /\ updateIdx' = updateIdx /\ UNCHANGED historyVars
    BY SameNet DEF RevealInv, ForceCloseEstablished, ForceCloseSettled
  <1>3. \E s : SetState(p, s) /\ s.name \in {"Closing", "SettledClosing"}
    <2>1. CASE ForceCloseEstablished(p)
      <3> DEFINE s == AsInitiator(Variant("Closing", ClosedFrom(p).tx,
                                          GetContractId(ClosedFrom(p))))
      <3>1. SetState(p, s)
        BY <2>1 DEF ForceCloseEstablished
      <3>2. s.name = "Closing"
        BY DEF Variant, AsInitiator
      <3> HIDE DEF s
      <3> QED
        BY <3>1, <3>2
    <2>2. CASE ForceCloseSettled(p)
      <3>1. PICK offered \in DidWeOfferLastSettlement(monitor[p]) :
              SetState(p, WithOffer(AsInitiator(Variant("SettledClosing",
                              ClosedFrom(p).tx, NoContract)), offered))
        BY <2>2 DEF ForceCloseSettled
      <3> DEFINE s == WithOffer(AsInitiator(Variant("SettledClosing",
                              ClosedFrom(p).tx, NoContract)), offered)
      <3>2. s.name = "SettledClosing"
        BY DEF Variant, AsInitiator, WithOffer
      <3>3. SetState(p, s)
        BY <3>1
      <3> HIDE DEF s
      <3> QED
        BY <3>2, <3>3
    <2> QED
      BY <2>1, <2>2
  <1> QED
    BY <1>1, <1>2, <1>3, ClosingStep

LEMMA ProcessSpendReveal ==
    ASSUME RevealInv, NEW p \in Party, ProcessBufferTx(p) \/ ProcessSettleTx2(p)
    PROVE  RevealInv'
  <1>1. TypeInv'
    BY ProcessBufferTxType, ProcessSettleTx2Type DEF RevealInv
  <1>2. NetSound' /\ updateIdx' = updateIdx /\ UNCHANGED historyVars
    BY SameNet DEF RevealInv, ProcessBufferTx, ProcessSettleTx2
  <1>3. \E s : SetState(p, s) /\ s.name \in {"Closing", "SettledClosing"}
    <2>1. CASE ProcessBufferTx(p)
      <3>1. PICK e \in ConfirmedWatch(p, "BufferTx") :
              MoveTo(p, Variant("Closing", e.tx, GetContractId(state[p])))
        BY <2>1 DEF ProcessBufferTx
      <3> DEFINE s == Variant("Closing", e.tx, GetContractId(state[p]))
      <3>2. SetState(p, s) /\ s.name = "Closing"
        BY <3>1 DEF MoveTo, SetState, Variant
      <3> HIDE DEF s
      <3> QED
        BY <3>2
    <2>2. CASE ProcessSettleTx2(p)
      <3>1. PICK e \in ConfirmedWatch(p, "SettleTx2") :
              MoveTo(p, WithOffer(Variant("SettledClosing", e.tx, NoContract),
                                  e.isOffer))
        BY <2>2 DEF ProcessSettleTx2
      <3> DEFINE s == WithOffer(Variant("SettledClosing", e.tx, NoContract), e.isOffer)
      <3>2. SetState(p, s)
        BY <3>1 DEF MoveTo, SetState
      <3>3. s.name = "SettledClosing"
        BY DEF Variant, WithOffer
      <3> HIDE DEF s
      <3> QED
        BY <3>2, <3>3
    <2> QED
      BY <2>1, <2>2
  <1> QED
    BY <1>1, <1>2, <1>3, ClosingStep

(* Steps that leave state, update_idx, messages and history alone.         *)
LEMMA OutsideStep ==
    ASSUME RevealInv, TypeInv', state' = state, updateIdx' = updateIdx,
           net' = net, UNCHANGED historyVars
    PROVE  RevealInv'
  BY SameNet, FrameStep DEF RevealInv

LEMMA PanicReveal ==
    ASSUME RevealInv, NEW p \in Party, Panic(p)
    PROVE  RevealInv'
  BY PanicType, OutsideStep DEF RevealInv, Panic, chanVars

LEMMA CheckReveal ==
    ASSUME RevealInv, NEW p \in Party,
           \/ CheckSignedContract(p) \/ CheckPreclosedContract(p)
           \/ TryFinalizeClosingEstablishedChannel(p)
           \/ TryFinalizeSettledClosingChannel(p) \/ TryConfirmClaimTx(p)
           \/ ProcessRevoked(p) \/ ProcessCollaborativeClose(p)
           \/ ProcessCet(p) \/ CheckForWatchedTx(p)
           \/ AcceptCollaborativeClose(p)
    PROVE  RevealInv'
  <1>1. TypeInv'
    BY CheckContractsType, TryFinalizeClosingEstablishedChannelType,
       TryFinalizeSettledClosingChannelType, TryConfirmClaimTxType,
       ProcessRevokedType, ProcessCollaborativeCloseType, ProcessCetType,
       CheckForWatchedTxType, AcceptCollaborativeCloseType DEF RevealInv
  <1>2. state' = state /\ updateIdx' = updateIdx /\ net' = net /\ UNCHANGED historyVars
    BY DEF CheckSignedContract, CheckPreclosedContract,
           TryFinalizeClosingEstablishedChannel,
           TryFinalizeSettledClosingChannel, TryConfirmClaimTx,
           ProcessRevoked, ProcessCollaborativeClose, ProcessCet,
           CheckForWatchedTx, AcceptCollaborativeClose, chanVars
  <1> QED
    BY <1>1, <1>2, OutsideStep

LEMMA EnvironmentReveal ==
    ASSUME RevealInv, Environment
    PROVE  RevealInv'
  <1>1. CASE \E p \in Party : LoseMessage(p)
    BY <1>1, ConsumeReveal
  <1>2. CASE Mine \/ Mature \/ MineSpend \/ Attest \/ \E p \in Party : Restart(p) \/ PublishOld(p)
    <2>1. TypeInv'
      BY <1>2, ChainStepType, RestartType, PublishOldType DEF RevealInv
    <2>2. state' = state /\ updateIdx' = updateIdx /\ net' = net /\ UNCHANGED historyVars
      BY <1>2 DEF Mine, Mature, MineSpend, Attest, Restart, PublishOld, chanVars
    <2> QED
      BY <2>1, <2>2, OutsideStep
  <1> QED
    BY <1>1, <1>2 DEF Environment

-----------------------------------------------------------------------------

LEMMA InitReveal == Init => RevealInv
  <1> SUFFICES ASSUME Init PROVE RevealInv
    OBVIOUS
  <1>1. TypeInv
    BY InitType
  <1>2. NetSound
    BY DEF Init, NetSound
  <1>3. ASSUME NEW p \in Party PROVE PendingPoints(p) /\ Superseded(p)
    <2>1. state[p] = WithOffer(Variant("Established", FirstTx, FinalId(0)), p = Alice)
      BY DEF Init
    <2>2. state[p].name = "Established"
      BY <2>1 DEF Variant, WithOffer
    <2>3. revealed[p] = {}
      BY DEF Init
    <2> QED
      BY <2>2, <2>3 DEF PendingPoints, Superseded
  <1> QED
    BY <1>1, <1>2, <1>3 DEF RevealInv

LEMMA NextReveal == RevealInv /\ [Next]_vars => RevealInv'
  <1> SUFFICES ASSUME RevealInv, [Next]_vars PROVE RevealInv'
    OBVIOUS
  <1>1. ASSUME NEW p \in Party, ApiCall(p) PROVE RevealInv'
    <2>1. CASE OfferUpdate(p)
      BY <2>1, SettleOfferReveal, RenewOfferReveal DEF OfferUpdate
    <2>2. CASE AnswerOffer(p)
      BY <2>2, AcceptSettleOfferReveal, AcceptRenewOfferReveal,
         RejectSettleOfferReveal, RejectRenewOfferReveal DEF AnswerOffer
    <2>3. CASE OfferClose(p)
      BY <2>3, OfferCollaborativeCloseReveal DEF OfferClose
    <2>4. CASE AcceptCollaborativeClose(p)
      BY <2>4, CheckReveal
    <2>5. CASE ForceClose(p)
      BY <2>5, ForceCloseReveal, PanicReveal DEF ForceClose, ForceCloseFails
    <2> QED
      BY <1>1, <2>1, <2>2, <2>3, <2>4, <2>5 DEF ApiCall
  <1>2. ASSUME NEW p \in Party, OnDlcMessage(p) PROVE RevealInv'
    BY <1>2, OnOfferRejectReveal, OnSettleOfferReveal, OnSettleAcceptReveal,
       OnSettleConfirmReveal, OnSettleFinalizeReveal, ConsumeReveal,
       OnRenewOfferReveal, OnRenewAcceptReveal, OnRenewConfirmReveal,
       OnRenewFinalizeReveal, OnRenewRevokeReveal, OnRejectReveal,
       OnCollaborativeCloseOfferReveal DEF OnDlcMessage
  <1>3. ASSUME NEW p \in Party, PeriodicCheck(p) PROVE RevealInv'
    BY <1>3, CheckReveal, ProcessSpendReveal, PanicReveal
       DEF PeriodicCheck, ProcessBufferTxFails, ProcessRevokedFails
  <1>4. CASE Environment
    BY <1>4, EnvironmentReveal
  <1>5. CASE UNCHANGED vars
    <2>1. TypeInv'
      BY <1>5, NextType DEF RevealInv
    <2> QED
      BY <1>5, <2>1, OutsideStep DEF vars, chanVars
  <1> QED
    BY <1>1, <1>2, <1>3, <1>4, <1>5 DEF Next

(* However updates, rejections, closes, losses and restarts interleave, a  *)
(* party that sent out the secret of an update (SettleConfirm,             *)
(* SettleFinalize, RenewFinalize, RenewRevoke) holds the counter party's   *)
(* signature for the transaction of the next one.                          *)
THEOREM RevealSafe == Spec => []RevealOnlyWhenSuperseded
  <1>1. Spec => []RevealInv
    BY InitReveal, NextReveal, PTL DEF Spec
  <1>2. RevealInv => RevealOnlyWhenSuperseded
    BY DEF RevealInv, Superseded, RevealOnlyWhenSuperseded
  <1> QED
    BY <1>1, <1>2, PTL
=============================================================================
