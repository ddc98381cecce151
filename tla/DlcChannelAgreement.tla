------------------------- MODULE DlcChannelAgreement -------------------------
(***************************************************************************)
(* The update protocols of DlcChannel: the fair exchange of the secrets,   *)
(* the agreement of the two parties on the transaction they hold, and the  *)
(* contracts that are open.                                                *)
(***************************************************************************)
EXTENDS DlcChannelReveal

-----------------------------------------------------------------------------
(***************************************************************************)
(* The steps of DlcChannel as seen by the proofs about both parties: which *)
(* party acts, what the step does to its record of the channel, and which  *)
(* message it takes or sends.  Each action is brought into one of a few    *)
(* kinds of step, once, so that an invariant need only be shown for the    *)
(* kinds.                                                                  *)
(***************************************************************************)

Frozen == {"Closing", "SettledClosing", "CollaborativeCloseOffered"}
Both(n) == [q \in Party |-> n]

(* A step of p leaves what belongs to the other party alone.               *)
Untouched(p) ==
    \A q \in Party \ {p} :
       /\ ctype'[q] = ctype[q] /\ state'[q] = state[q]
       /\ rollback'[q] = rollback[q] /\ updateIdx'[q] = updateIdx[q]
       /\ points'[q] = points[q] /\ secrets'[q] = secrets[q]
       /\ revealed'[q] = revealed[q] /\ held'[q] = held[q]
       /\ monitor'[q] = monitor[q] /\ stored'[q] = stored[q]

KeepsPlace(p) ==
    /\ updateIdx'[p] = updateIdx[p] /\ points'[p] = points[p]
    /\ secrets'[p] = secrets[p]
KeepsHistory(p) == revealed'[p] = revealed[p] /\ held'[p] = held[p]
KeepsWatch(p) == monitor'[p] = monitor[p] /\ stored'[p] = stored[p]
KeepsType(p) == ctype'[p] = ctype[p]

Takes(p) == net[p] # <<>> /\ net'[p] = Tail(net[p])
Leaves(p) == net'[p] = net[p]
Says(p, m) ==
    m \in Message /\ net'[Other(p)] = Append(net[Other(p)], m)
Silent(p) == net'[Other(p)] = net[Other(p)]
SaysPlain(p) ==
    \E m : Says(p, m) /\ m.type \in {"Reject", "CollaborativeCloseOffer"}

-----------------------------------------------------------------------------
(* The kinds of step.                                                      *)

(* An update is offered.                                                   *)
Offers(p) ==
    /\ Untouched(p) /\ KeepsPlace(p) /\ KeepsHistory(p) /\ KeepsWatch(p)
    /\ KeepsType(p)
    /\ state[p].name \in StableStates /\ rollback'[p] = state[p]
    /\ \/ state'[p].name = "SettledOffered"
       \/ state'[p].name = "RenewOffered" /\ state'[p].isOffer
    /\ Leaves(p)
    /\ \E m : /\ Says(p, m) /\ m.type \in {"SettleOffer", "RenewOffer"}
              /\ m.next = updateIdx[p] + 1

(* An offer is received.                                                   *)
IsOffered(p) ==
    /\ Untouched(p) /\ KeepsPlace(p) /\ KeepsHistory(p) /\ KeepsWatch(p)
    /\ KeepsType(p)
    /\ state[p].name \in StableStates /\ rollback'[p] = state[p]
    /\ \/ state'[p].name = "SettledReceived"
       \/ state'[p].name = "RenewOffered" /\ ~state'[p].isOffer
    /\ state'[p].next[Other(p)] = Head(net[p]).next
    /\ Takes(p) /\ Silent(p) /\ Head(net[p]).type \in {"SettleOffer", "RenewOffer"}

(* An offer is accepted.                                                   *)
AcceptsUpdate(p) ==
    /\ Untouched(p) /\ KeepsPlace(p) /\ KeepsHistory(p) /\ KeepsType(p)
    /\ stored'[p] = stored[p] /\ rollback'[p] = rollback[p]
    /\ state'[p].next = Points(p, updateIdx[p] + 1, state[p].next[Other(p)])
    /\ state'[p].tx.point = state'[p].next
    /\ Leaves(p)
    /\ \E m : /\ Says(p, m) /\ m.next = updateIdx[p] + 1 /\ m.sig = state'[p].tx
              /\ \/ /\ m.type = "SettleAccept"
                    /\ state[p].name = "SettledReceived"
                    /\ state'[p].name = "SettledAccepted"
                    /\ monitor'[p] =
                         AddTx(monitor[p], SettleEntry(state'[p].tx, FALSE))
                 \/ /\ m.type = "RenewAccept"
                    /\ state[p].name = "RenewOffered" /\ ~state[p].isOffer
                    /\ state'[p].name = "RenewAccepted"
                    /\ monitor'[p] = monitor[p]

(* An offer is rolled back, by a Reject that is sent or received.          *)
Reverts(p) ==
    /\ Untouched(p) /\ KeepsPlace(p) /\ KeepsHistory(p) /\ KeepsWatch(p)
    /\ KeepsType(p)
    /\ state[p].name \in Revertible
    /\ state'[p] = rollback[p] /\ rollback'[p] = NoState
    /\ \/ Leaves(p) /\ SaysPlain(p)
       \/ Takes(p) /\ Silent(p)

(* SettleAccept is answered with the secret and the signature.             *)
ConfirmsSettle(p) ==
    LET m == Head(net[p]) IN
    /\ Untouched(p) /\ KeepsPlace(p) /\ KeepsType(p)
    /\ stored'[p] = stored[p] /\ rollback'[p] = rollback[p]
    /\ state[p].name = "SettledOffered" /\ state'[p].name = "SettledConfirmed"
    /\ state'[p].next = Points(p, state[p].next[p], m.next)
    /\ state'[p].tx.point = state'[p].next
    /\ monitor'[p] = AddTx(monitor[p], SettleEntry(state'[p].tx, TRUE))
    /\ revealed'[p] = revealed[p] \cup {updateIdx[p]}
    /\ held'[p] = held[p] \cup {state'[p].tx}
    /\ Takes(p) /\ m.type = "SettleAccept" /\ m.sig = state'[p].tx
    /\ \E r : /\ Says(p, r) /\ r.type = "SettleConfirm"
              /\ r.secret = updateIdx[p] /\ r.sig = state'[p].tx

(* A settlement is adopted: state, secret, watched transaction.            *)
AdoptsSettle(p) ==
    /\ Untouched(p) /\ KeepsType(p)
    /\ state'[p].name = "Settled" /\ state'[p].tx = state[p].tx
    /\ updateIdx'[p] = updateIdx[p] + 1
    /\ points'[p] = state[p].next
    /\ secrets'[p] = secrets[p] \cup {updateIdx[p]}
    /\ monitor'[p] = AddTx(monitor[p], SettledEntry(p))
    /\ stored'[p] = monitor'[p]

(* SettleConfirm is answered with SettleFinalize.                          *)
FinalizesSettle(p) ==
    LET m == Head(net[p]) IN
    /\ AdoptsSettle(p)
    /\ state[p].name = "SettledAccepted"
    /\ revealed'[p] = revealed[p] \cup {updateIdx[p]}
    /\ held'[p] = held[p] \cup {state[p].tx}
    /\ Takes(p) /\ m.type = "SettleConfirm"
    /\ m.sig = state[p].tx /\ m.secret = points[p][Other(p)]
    /\ \E r : /\ Says(p, r) /\ r.type = "SettleFinalize"
              /\ r.secret = updateIdx[p]

EndsSettle(p) ==
    LET m == Head(net[p]) IN
    /\ AdoptsSettle(p) /\ KeepsHistory(p)
    /\ state[p].name = "SettledConfirmed"
    /\ Takes(p) /\ Silent(p) /\ m.type = "SettleFinalize"
    /\ m.secret = points[p][Other(p)]

(* RenewAccept is answered with RenewConfirm.                              *)
ConfirmsRenew(p) ==
    LET m == Head(net[p]) IN
    /\ Untouched(p) /\ KeepsPlace(p) /\ KeepsHistory(p) /\ KeepsWatch(p)
    /\ KeepsType(p) /\ rollback'[p] = rollback[p]
    /\ state[p].name = "RenewOffered" /\ state'[p].name = "RenewConfirmed"
    /\ state'[p].next = Points(p, state[p].next[p], m.next)
    /\ state'[p].tx.point = state'[p].next
    /\ Takes(p) /\ m.type = "RenewAccept" /\ m.sig = state'[p].tx
    /\ \E r : /\ Says(p, r) /\ r.type = "RenewConfirm" /\ r.sig = state'[p].tx

(* RenewConfirm is answered with the secret; the new points are in use.    *)
FinalizesRenew(p) ==
    LET m == Head(net[p])
        T == state[p].tx IN
    /\ Untouched(p) /\ KeepsType(p) /\ rollback'[p] = rollback[p]
    /\ updateIdx'[p] = updateIdx[p] /\ secrets'[p] = secrets[p]
    /\ state[p].name = "RenewAccepted" /\ state'[p].name = "RenewFinalized"
    /\ state'[p].tx = T /\ state'[p].prev = points[p][Other(p)]
    /\ points'[p] = state[p].next
    /\ monitor'[p] = AddTx(AddTx(monitor[p], Entry(T, "BufferTx")),
                           SupersededEntry(p))
    /\ stored'[p] = monitor'[p]
    /\ revealed'[p] = revealed[p] \cup {updateIdx[p]}
    /\ held'[p] = held[p] \cup {T}
    /\ Takes(p) /\ m.type = "RenewConfirm" /\ m.sig = T
    /\ \E r : /\ Says(p, r) /\ r.type = "RenewFinalize"
              /\ r.secret = updateIdx[p] /\ r.sig = T

(* RenewFinalize is answered with RenewRevoke.                             *)
RevokesRenew(p) ==
    LET m == Head(net[p])
        T == state[p].tx IN
    /\ Untouched(p) /\ KeepsType(p)
    /\ state[p].name = "RenewConfirmed" /\ state'[p].name = "Established"
    /\ state'[p].tx = T
    /\ updateIdx'[p] = updateIdx[p] + 1
    /\ points'[p] = state[p].next
    /\ secrets'[p] = secrets[p] \cup {updateIdx[p]}
    /\ monitor'[p] = AddTx(AddTx(monitor[p], SupersededEntry(p)),
                           Entry(T, "BufferTx"))
    /\ stored'[p] = monitor'[p]
    /\ revealed'[p] = revealed[p] \cup {updateIdx[p]}
    /\ held'[p] = held[p] \cup {T}
    /\ Takes(p) /\ m.type = "RenewFinalize" /\ m.sig = T
    /\ m.secret = points[p][Other(p)]
    /\ \E r : /\ Says(p, r) /\ r.type = "RenewRevoke"
              /\ r.secret = updateIdx[p]

EndsRenew(p) ==
    LET m == Head(net[p]) IN
    /\ Untouched(p) /\ KeepsType(p) /\ KeepsHistory(p) /\ KeepsWatch(p)
    /\ rollback'[p] = rollback[p]
    /\ state[p].name = "RenewFinalized" /\ state'[p].name = "Established"
    /\ state'[p].tx = state[p].tx
    /\ updateIdx'[p] = updateIdx[p] + 1
    /\ points'[p] = points[p]
    /\ secrets'[p] = secrets[p] \cup {updateIdx[p]}
    /\ Takes(p) /\ Silent(p) /\ m.type = "RenewRevoke"
    /\ m.secret = state[p].prev

(* A close adds no watch for a buffer or settle transaction, and one that  *)
(* p does not start itself follows from a watched transaction that is      *)
(* confirmed.                                                              *)
SpendTypes == {"BufferTx", "SettleTx2"}
Follows(p) ==
    /\ \A e \in monitor'[p].tx : e.type \in SpendTypes => e \in monitor[p].tx
    /\ state'[p].name \in {"Closing", "SettledClosing"} =>
         \/ state'[p].isInitiator = TRUE
         \/ \E e \in monitor[p].tx : e.type \in SpendTypes /\ Confirmed(e.tx)

(* What the type of a channel that ends says.                              *)
Ends(p) ==
    /\ ctype'[p] = "CounterClosed" =>
         /\ state[p].isInitiator # TRUE
         /\ state[p].name = "Closing" \/ ctype[p] = "SettledClosing"
    /\ ctype'[p] = "SettledClosing" => state[p].name = "SettledClosing"
    /\ ctype'[p] = "ClosedPunished" =>
         \E e \in monitor[p].tx : /\ Confirmed(e.tx) /\ chain.by = Other(p)
                                  /\ e.tx.point[Other(p)] \in secrets[p]

(* A close starts, by agreement or by a transaction: no update goes on.    *)
Freezes(p) ==
    /\ Untouched(p) /\ KeepsPlace(p) /\ KeepsHistory(p) /\ KeepsType(p)
    /\ ctype[p] = "Signed" /\ state'[p].name \in Frozen /\ Follows(p)
    /\ state'[p].name = "CollaborativeCloseOffered" =>
         rollback'[p] = state[p] /\ state'[p].tx.kind = "close"
    /\ \/ Leaves(p) /\ Silent(p)
       \/ Leaves(p) /\ SaysPlain(p)
       \/ Takes(p) /\ Silent(p)

(* Nothing changes but a message that is taken or rejected, the type of a  *)
(* channel that ends, or the monitor, which only a restart takes back to   *)
(* what is stored.                                                         *)
Idles(p) ==
    /\ Untouched(p) /\ KeepsPlace(p) /\ KeepsHistory(p)
    /\ state'[p] = state[p] /\ rollback'[p] = rollback[p]
    /\ \/ Leaves(p) /\ Silent(p)
       \/ Takes(p) /\ Silent(p)
       \/ Takes(p) /\ SaysPlain(p)
    /\ \/ ctype'[p] # "Signed" /\ Ends(p)
       \/ /\ KeepsType(p)
          /\ \/ /\ \/ monitor'[p] = monitor[p]
                   \/ monitor'[p] = stored[p] /\ used'.restarts # 0
                /\ stored'[p] \in {monitor[p], stored[p]}
             \/ /\ state[p].name \in {"SettledAccepted", "SettledConfirmed"}
                /\ monitor'[p] = AddTx(monitor[p], SettledEntry(p))
                /\ stored'[p] = stored[p]

UpdateStep(p) ==
    \/ Offers(p) \/ IsOffered(p) \/ AcceptsUpdate(p) \/ Reverts(p)
    \/ ConfirmsSettle(p) \/ FinalizesSettle(p) \/ EndsSettle(p)
    \/ ConfirmsRenew(p) \/ FinalizesRenew(p) \/ RevokesRenew(p) \/ EndsRenew(p)
StepOf(p) ==
    \/ ctype[p] = "Signed" /\ UpdateStep(p)
    \/ Freezes(p) \/ Idles(p)

-----------------------------------------------------------------------------
(* Fields of the states that actions build.                                *)

LEMMA WithPrevFields ==
    ASSUME NEW n, NEW tx, NEW c, NEW k
    PROVE  /\ WithPrev(Variant(n, tx, c), k).name = n
           /\ WithPrev(Variant(n, tx, c), k).tx = tx
           /\ WithPrev(Variant(n, tx, c), k).prev = k
  BY DEF Variant, WithPrev

LEMMA MsgContent ==
    ASSUME NEW type, NEW next, NEW secret, NEW sig
    PROVE  /\ Msg(type, next, secret, sig).type = type
           /\ Msg(type, next, secret, sig).next = next
           /\ Msg(type, next, secret, sig).secret = secret
           /\ Msg(type, next, secret, sig).sig = sig
  BY DEF Msg

LEMMA TxPoints ==
    ASSUME NEW o, NEW pts
    PROVE  BufferTx(o, pts).point = pts /\ SettleTx(o, pts).point = pts
  BY DEF BufferTx, SettleTx

-----------------------------------------------------------------------------
(* What the pieces of actions do.                                          *)

LEMMA ConsumeEffect ==
    ASSUME NetTyped, NEW p \in Party, net[p] # <<>>, Consume(p)
    PROVE  Takes(p) /\ Silent(p)
  BY OtherType DEF NetTyped, Consume, Takes, Silent

LEMMA SendEffect ==
    ASSUME NetTyped, NEW p \in Party, NEW m \in Message, Send(p, m)
    PROVE  Leaves(p) /\ Says(p, m)
  BY OtherType DEF NetTyped, Send, Leaves, Says

LEMMA ReplyEffect ==
    ASSUME NetTyped, NEW p \in Party, NEW m \in Message, net[p] # <<>>, Reply(p, m)
    PROVE  Takes(p) /\ Says(p, m)
  <1>1. Other(p) \in Party /\ Other(p) # p
    BY OtherType
  <1>2. net' = [net EXCEPT ![p] = Tail(net[p]),
                           ![Other(p)] = Append(net[Other(p)], m)]
    BY <1>1 DEF Reply
  <1> QED
    BY <1>1, <1>2 DEF NetTyped, Takes, Says

LEMMA RejectSaid ==
    ASSUME NEW p \in Party, Says(p, Msg("Reject", 0, 0, NoTx))
    PROVE  SaysPlain(p)
  BY MsgContent DEF SaysPlain

LEMMA SetStateEffect ==
    ASSUME StateTyped, NEW p \in Party, NEW s, SetState(p, s)
    PROVE  state'[p] = s /\ \A q \in Party \ {p} : state'[q] = state[q]
  BY DEF StateTyped, SetState

LEMMA MoveToEffect ==
    ASSUME StateTyped, RollbackTyped, NEW p \in Party, NEW s, MoveTo(p, s)
    PROVE  /\ state'[p] = s /\ rollback'[p] = state[p]
           /\ \A q \in Party \ {p} : state'[q] = state[q] /\ rollback'[q] = rollback[q]
  BY DEF StateTyped, RollbackTyped, MoveTo

LEMMA RollbackEffect ==
    ASSUME RollbackTyped, NEW p \in Party, NEW s,
           rollback' = [rollback EXCEPT ![p] = s]
    PROVE  rollback'[p] = s /\ \A q \in Party \ {p} : rollback'[q] = rollback[q]
  BY DEF RollbackTyped

LEMMA IdxEffect ==
    ASSUME RestTyped, NEW p \in Party, StepUpdateIdx(p), StoreSecret(p)
    PROVE  /\ updateIdx'[p] = updateIdx[p] + 1
           /\ secrets'[p] = secrets[p] \cup {updateIdx[p]}
           /\ \A q \in Party \ {p} :
                 updateIdx'[q] = updateIdx[q] /\ secrets'[q] = secrets[q]
  BY DEF RestTyped, StepUpdateIdx, StoreSecret

LEMMA PointsEffect ==
    ASSUME RestTyped, NEW p \in Party, NEW pts,
           points' = [points EXCEPT ![p] = pts]
    PROVE  /\ points'[p] = pts
           /\ \A q \in Party \ {p} : points'[q] = points[q]
  BY DEF RestTyped

LEMMA RevealEffect ==
    ASSUME RestTyped, NEW p \in Party, NEW tx, Reveal(p), Hold(p, tx)
    PROVE  /\ revealed'[p] = revealed[p] \cup {updateIdx[p]}
           /\ held'[p] = held[p] \cup {tx}
           /\ \A q \in Party \ {p} : revealed'[q] = revealed[q] /\ held'[q] = held[q]
  BY DEF RestTyped, Reveal, Hold, PerUpdateSecret

LEMMA MonitorEffect ==
    ASSUME MonitorTyped, NEW p \in Party, NEW M,
           monitor' = [monitor EXCEPT ![p] = M]
    PROVE  /\ monitor'[p] = M
           /\ \A q \in Party \ {p} : monitor'[q] = monitor[q]
  BY DEF MonitorTyped

LEMMA PersistEffect ==
    ASSUME StoredTyped, NEW p \in Party, Persist(p)
    PROVE  /\ stored'[p] = monitor'[p]
           /\ \A q \in Party \ {p} : stored'[q] = stored[q]
  BY DEF StoredTyped, Persist

LEMMA CtypeEffect ==
    ASSUME RestTyped, NEW p \in Party, NEW t, ctype' = [ctype EXCEPT ![p] = t]
    PROVE  /\ ctype'[p] = t
           /\ \A q \in Party \ {p} : ctype'[q] = ctype[q]
  BY DEF RestTyped

-----------------------------------------------------------------------------
(* Settling.                                                               *)

LEMMA SettleOfferStep ==
    ASSUME TypeInv, NEW p \in Party, SettleOffer(p)
    PROVE  Offers(p)
  <1> DEFINE next == updateIdx[p] + 1
             pts == Points(p, next, 0)
             s == WithNext(Variant("SettledOffered", NoTx, NoContract), pts)
             m == Msg("SettleOffer", next, 0, NoTx)
  <1>1. next \in Update /\ pts \in [Party -> Update]
    BY UpdateType, PointsType DEF TypeInv, SettleOffer, RestTyped
  <1>2. s \in SignedState /\ s.name = "SettledOffered"
    <2> HIDE DEF pts
    <2> QED BY <1>1, VariantWithNext, TxType DEF StateName
  <1>3. m \in Message /\ m.type = "SettleOffer" /\ m.next = next
    BY <1>1, MsgType, MsgContent, UpdateType, TxType DEF MessageType
  <1>4. MoveTo(p, s) /\ Send(p, m) /\ state[p].name = "Established"
    BY DEF SettleOffer, InState
  <1> HIDE DEF s, m
  <1>5. /\ state'[p] = s /\ rollback'[p] = state[p]
        /\ \A q \in Party \ {p} : state'[q] = state[q] /\ rollback'[q] = rollback[q]
    BY <1>2, <1>4, MoveToType DEF TypeInv
  <1>6. Leaves(p) /\ Says(p, m)
    BY <1>3, <1>4, SendEffect DEF TypeInv
  <1>7. /\ UNCHANGED <<ctype, updateIdx, points, secrets, monitor, stored>>
        /\ UNCHANGED historyVars
    BY DEF SettleOffer, storeVars
  <1> QED
    BY <1>2, <1>3, <1>4, <1>5, <1>6, <1>7
       DEF Offers, Untouched, KeepsPlace, KeepsHistory, KeepsWatch, KeepsType,
           historyVars, StableStates

LEMMA OnSettleOfferStep ==
    ASSUME TypeInv, NEW p \in Party, OnSettleOffer(p)
    PROVE  IsOffered(p)
  <1> DEFINE n == Head(net[p]).next
             pts == Points(p, 0, n)
             s == WithNext(Variant("SettledReceived", NoTx, NoContract), pts)
  <1>1. net[p] # <<>> /\ n \in Update /\ Head(net[p]).type = "SettleOffer"
    BY HeadType DEF TypeInv, OnSettleOffer, Receives
  <1>2. pts \in [Party -> Update] /\ pts[Other(p)] = n
    BY <1>1, UpdateType, PointsType, PointsFields
  <1>3. s \in SignedState /\ s.name = "SettledReceived" /\ s.next = pts
    <2> HIDE DEF pts
    <2>1. s \in SignedState /\ s.name = "SettledReceived"
      BY <1>2, VariantWithNext, TxType DEF StateName
    <2>2. s.next = pts
      BY DEF Variant, WithNext
    <2> QED BY <2>1, <2>2
  <1>4. MoveTo(p, s) /\ Consume(p) /\ state[p].name = "Established"
    BY DEF OnSettleOffer, InState
  <1> HIDE DEF s, pts
  <1>5. /\ state'[p] = s /\ rollback'[p] = state[p]
        /\ \A q \in Party \ {p} : state'[q] = state[q] /\ rollback'[q] = rollback[q]
    BY <1>3, <1>4, MoveToType DEF TypeInv
  <1>6. Takes(p) /\ Silent(p)
    BY <1>1, <1>4, ConsumeEffect DEF TypeInv
  <1>7. /\ UNCHANGED <<ctype, updateIdx, points, secrets, monitor, stored>>
        /\ UNCHANGED historyVars
    BY DEF OnSettleOffer, storeVars
  <1> QED
    BY <1>1, <1>2, <1>3, <1>4, <1>5, <1>6, <1>7
       DEF IsOffered, Untouched, KeepsPlace, KeepsHistory, KeepsWatch,
           KeepsType, historyVars, StableStates

LEMMA AcceptSettleOfferStep ==
    ASSUME TypeInv, NEW p \in Party, AcceptSettleOffer(p)
    PROVE  AcceptsUpdate(p)
  <1> DEFINE next == updateIdx[p] + 1
             pts == Points(p, next, state[p].next[Other(p)])
             tx == SettleTx(Other(p), pts)
             s == WithNext(Variant("SettledAccepted", tx, NoContract), pts)
             m == Msg("SettleAccept", next, 0, tx)
  <1>1. next \in Update /\ state[p].next[Other(p)] \in Update /\ Other(p) \in Party
    BY UpdateType, StateFields, OtherType
       DEF TypeInv, AcceptSettleOffer, RestTyped, StateTyped
  <1>2. pts \in [Party -> Update]
    BY <1>1, PointsType
  <1>3. tx \in Tx /\ tx.point = pts
    <2> HIDE DEF pts
    <2> QED BY <1>1, <1>2, TxType, TxPoints
  <1>4. s \in SignedState /\ s.name = "SettledAccepted" /\ s.next = pts /\ s.tx = tx
    <2> HIDE DEF pts, tx
    <2>1. s \in SignedState /\ s.name = "SettledAccepted"
      BY <1>2, <1>3, VariantWithNext DEF StateName
    <2>2. s.next = pts /\ s.tx = tx
      BY DEF Variant, WithNext
    <2> QED BY <2>1, <2>2
  <1>5. m \in Message /\ m.type = "SettleAccept" /\ m.next = next /\ m.sig = tx
    <2> HIDE DEF tx
    <2> QED BY <1>1, <1>3, MsgType, MsgContent, UpdateType DEF MessageType
  <1>6. /\ SetState(p, s) /\ Send(p, m) /\ state[p].name = "SettledReceived"
        /\ monitor' = [monitor EXCEPT ![p] = AddTx(monitor[p], SettleEntry(tx, FALSE))]
    BY DEF AcceptSettleOffer, InState, WatchTx
  <1>7. /\ UNCHANGED <<ctype, rollback, updateIdx, points, secrets, stored>>
        /\ UNCHANGED historyVars
    BY DEF AcceptSettleOffer
  <1> HIDE DEF s, m, tx, pts
  <1>8. state'[p] = s /\ \A q \in Party \ {p} : state'[q] = state[q]
    BY <1>4, <1>6, SetStateType DEF TypeInv
  <1>9. Leaves(p) /\ Says(p, m)
    BY <1>5, <1>6, SendEffect DEF TypeInv
  <1>10. /\ monitor'[p] = AddTx(monitor[p], SettleEntry(tx, FALSE))
         /\ \A q \in Party \ {p} : monitor'[q] = monitor[q]
    BY <1>6, MonitorEffect DEF TypeInv
  <1> USE <1>3, <1>4, <1>5, <1>6, <1>7, <1>8, <1>9, <1>10
  <1>11. Untouched(p) /\ KeepsPlace(p) /\ KeepsHistory(p) /\ KeepsType(p)
    BY DEF Untouched, KeepsPlace, KeepsHistory, KeepsType, historyVars
  <1>12. state'[p].next = Points(p, updateIdx[p] + 1, state[p].next[Other(p)])
    BY DEF pts
  <1> QED
    BY <1>11, <1>12 DEF AcceptsUpdate

LEMMA OnSettleAcceptStep ==
    ASSUME TypeInv, NEW p \in Party, OnSettleAccept(p)
    PROVE  ConfirmsSettle(p)
  <1> DEFINE pts == Points(p, state[p].next[p], Head(net[p]).next)
             tx == SettleTx(p, pts)
             s == WithNext(Variant("SettledConfirmed", tx, NoContract), pts)
             m == Msg("SettleConfirm", 0, updateIdx[p], tx)
  <1>1. /\ net[p] # <<>> /\ Head(net[p]).type = "SettleAccept"
        /\ state[p].name = "SettledOffered" /\ updateIdx[p] \in Update
        /\ Head(net[p]).sig = tx
    BY DEF TypeInv, RestTyped, OnSettleAccept, Receives, InState, SettleAcceptValid
  <1>2. pts \in [Party -> Update]
    BY <1>1, PointsType, HeadType, StateFields DEF TypeInv, StateTyped
  <1>3. tx \in Tx /\ tx.point = pts
    <2> HIDE DEF pts
    <2> QED BY <1>2, TxType, TxPoints
  <1>4. s \in SignedState /\ s.name = "SettledConfirmed" /\ s.next = pts /\ s.tx = tx
    <2> HIDE DEF pts, tx
    <2>1. s \in SignedState /\ s.name = "SettledConfirmed"
      BY <1>2, <1>3, VariantWithNext DEF StateName
    <2>2. s.next = pts /\ s.tx = tx
      BY DEF Variant, WithNext
    <2> QED BY <2>1, <2>2
  <1>5. /\ m \in Message /\ m.type = "SettleConfirm"
        /\ m.secret = updateIdx[p] /\ m.sig = tx
    <2> HIDE DEF tx
    <2> QED BY <1>1, <1>3, MsgType, MsgContent, UpdateType DEF MessageType
  <1>6. /\ SetState(p, s) /\ Hold(p, tx) /\ Reveal(p) /\ Reply(p, m)
        /\ monitor' = [monitor EXCEPT ![p] = AddTx(monitor[p], SettleEntry(tx, TRUE))]
        /\ UNCHANGED <<ctype, rollback, updateIdx, points, secrets, stored>>
    BY DEF OnSettleAccept, WatchTx, PerUpdateSecret
  <1> HIDE DEF s, m, tx
  <1>8. state'[p] = s /\ \A q \in Party \ {p} : state'[q] = state[q]
    BY <1>4, <1>6, SetStateType DEF TypeInv
  <1>9. Takes(p) /\ Says(p, m)
    BY <1>1, <1>5, <1>6, ReplyEffect DEF TypeInv
  <1>10. /\ monitor'[p] = AddTx(monitor[p], SettleEntry(tx, TRUE))
         /\ \A q \in Party \ {p} : monitor'[q] = monitor[q]
    BY <1>6, MonitorEffect DEF TypeInv
  <1>11. /\ revealed'[p] = revealed[p] \cup {updateIdx[p]}
         /\ held'[p] = held[p] \cup {tx}
         /\ \A q \in Party \ {p} : revealed'[q] = revealed[q] /\ held'[q] = held[q]
    BY <1>6, RevealEffect DEF TypeInv
  <1> USE <1>1, <1>3, <1>4, <1>5, <1>6, <1>8, <1>9, <1>10, <1>11
  <1>12. Untouched(p) /\ KeepsPlace(p) /\ KeepsType(p)
    BY DEF Untouched, KeepsPlace, KeepsType
  <1>13. \E r : /\ Says(p, r) /\ r.type = "SettleConfirm"
                /\ r.secret = updateIdx[p] /\ r.sig = state'[p].tx
    OBVIOUS
  <1> QED
    BY <1>12, <1>13 DEF ConfirmsSettle

LEMMA AdoptSettledStep ==
    ASSUME TypeInv, NEW p \in Party, AdoptSettled(p), UNCHANGED ctype,
           \A q \in Party \ {p} : revealed'[q] = revealed[q] /\ held'[q] = held[q]
    PROVE  AdoptsSettle(p)
  <1> DEFINE s == Variant("Settled", state[p].tx, NoContract)
  <1>1. s \in SignedState /\ s.name = "Settled" /\ s.tx = state[p].tx
    BY VariantType, StateFields DEF TypeInv, StateTyped, StateName
  <1>2. /\ SetState(p, s) /\ StepUpdateIdx(p) /\ StoreSecret(p) /\ Persist(p)
        /\ rollback' = [rollback EXCEPT ![p] = NoState]
        /\ points' = [points EXCEPT ![p] = state[p].next]
        /\ monitor' = [monitor EXCEPT ![p] = AddTx(monitor[p], SettledEntry(p))]
    BY DEF AdoptSettled, WatchTx
  <1> HIDE DEF s
  <1>3. state'[p] = s /\ \A q \in Party \ {p} : state'[q] = state[q]
    BY <1>1, <1>2, SetStateType DEF TypeInv
  <1>4. \A q \in Party \ {p} : rollback'[q] = rollback[q]
    BY <1>2, SetRollbackType, NoStateType DEF TypeInv
  <1>5. /\ updateIdx'[p] = updateIdx[p] + 1
        /\ secrets'[p] = secrets[p] \cup {updateIdx[p]}
        /\ \A q \in Party \ {p} :
              updateIdx'[q] = updateIdx[q] /\ secrets'[q] = secrets[q]
    BY <1>2, IdxEffect DEF TypeInv
  <1>6. points'[p] = state[p].next /\ \A q \in Party \ {p} : points'[q] = points[q]
    BY <1>2, PointsEffect DEF TypeInv
  <1>7. /\ monitor'[p] = AddTx(monitor[p], SettledEntry(p))
        /\ \A q \in Party \ {p} : monitor'[q] = monitor[q]
    BY <1>2, MonitorEffect DEF TypeInv
  <1>8. stored'[p] = monitor'[p] /\ \A q \in Party \ {p} : stored'[q] = stored[q]
    BY <1>2, PersistEffect DEF TypeInv
  <1>9. Untouched(p) /\ KeepsType(p)
    BY <1>3, <1>4, <1>5, <1>6, <1>7, <1>8 DEF Untouched, KeepsType
  <1> QED
    BY <1>1, <1>3, <1>5, <1>6, <1>7, <1>8, <1>9 DEF AdoptsSettle

LEMMA OnSettleConfirmStep ==
    ASSUME TypeInv, NEW p \in Party, OnSettleConfirm(p)
    PROVE  FinalizesSettle(p)
  <1> DEFINE m == Msg("SettleFinalize", 0, updateIdx[p], NoTx)
  <1>1. /\ net[p] # <<>> /\ Head(net[p]).type = "SettleConfirm"
        /\ state[p].name = "SettledAccepted" /\ updateIdx[p] \in Update
        /\ Head(net[p]).sig = state[p].tx
        /\ Head(net[p]).secret = points[p][Other(p)]
    BY DEF TypeInv, RestTyped, OnSettleConfirm, Receives, InState,
           SettleConfirmValid
  <1>2. m \in Message /\ m.type = "SettleFinalize" /\ m.secret = updateIdx[p]
    BY <1>1, MsgType, MsgContent, UpdateType, TxType DEF MessageType
  <1>3. /\ AdoptSettled(p) /\ Hold(p, state[p].tx) /\ Reveal(p) /\ Reply(p, m)
        /\ UNCHANGED ctype
    BY DEF OnSettleConfirm, PerUpdateSecret
  <1>4. /\ revealed'[p] = revealed[p] \cup {updateIdx[p]}
        /\ held'[p] = held[p] \cup {state[p].tx}
        /\ \A q \in Party \ {p} : revealed'[q] = revealed[q] /\ held'[q] = held[q]
    BY <1>3, RevealEffect DEF TypeInv
  <1> HIDE DEF m
  <1>5. AdoptsSettle(p)
    BY <1>3, <1>4, AdoptSettledStep
  <1>6. Takes(p) /\ Says(p, m)
    BY <1>1, <1>2, <1>3, ReplyEffect DEF TypeInv
  <1> QED
    BY <1>1, <1>2, <1>4, <1>5, <1>6 DEF FinalizesSettle

LEMMA OnSettleFinalizeStep ==
    ASSUME TypeInv, NEW p \in Party, OnSettleFinalize(p)
    PROVE  EndsSettle(p)
  <1>1. /\ net[p] # <<>> /\ Head(net[p]).type = "SettleFinalize"
        /\ state[p].name = "SettledConfirmed"
        /\ Head(net[p]).secret = points[p][Other(p)]
        /\ AdoptSettled(p) /\ Consume(p) /\ UNCHANGED <<ctype, revealed, held>>
    BY DEF OnSettleFinalize, Receives, InState, SettleFinalizeValid, historyVars
  <1>2. AdoptsSettle(p)
    BY <1>1, AdoptSettledStep
  <1>3. Takes(p) /\ Silent(p)
    BY <1>1, ConsumeEffect DEF TypeInv
  <1> QED
    BY <1>1, <1>2, <1>3 DEF EndsSettle, KeepsHistory

LEMMA OnSettleUnconfirmedStep ==
    ASSUME TypeInv, NEW p \in Party, OnSettleUnconfirmed(p)
    PROVE  Idles(p)
  <1>1. /\ net[p] # <<>> /\ Consume(p)
        /\ state[p].name \in {"SettledAccepted", "SettledConfirmed"}
        /\ monitor' = [monitor EXCEPT ![p] = AddTx(monitor[p], SettledEntry(p))]
        /\ UNCHANGED chanVars /\ UNCHANGED <<stored, revealed, held>>
    BY DEF OnSettleUnconfirmed, Receives, InState, WatchTx, historyVars
  <1>2. Takes(p) /\ Silent(p)
    BY <1>1, ConsumeEffect DEF TypeInv
  <1>3. /\ monitor'[p] = AddTx(monitor[p], SettledEntry(p))
        /\ \A q \in Party \ {p} : monitor'[q] = monitor[q]
    BY <1>1, MonitorEffect DEF TypeInv
  <1>4. Untouched(p) /\ KeepsPlace(p) /\ KeepsHistory(p) /\ KeepsType(p)
    BY <1>1, <1>3 DEF Untouched, KeepsPlace, KeepsHistory, KeepsType, chanVars
  <1> QED
    BY <1>1, <1>2, <1>3, <1>4 DEF Idles, chanVars

-----------------------------------------------------------------------------
(* Renewing.                                                               *)

LEMMA RenewOfferStep ==
    ASSUME TypeInv, NEW p \in Party, RenewOffer(p)
    PROVE  Offers(p)
  <1> DEFINE next == updateIdx[p] + 1
             v == WithNext(Variant("RenewOffered", NoTx, TempId(next)),
                           Points(p, next, 0))
             s == WithOffer(v, TRUE)
             m == Msg("RenewOffer", next, 0, NoTx)
  <1>1. next \in Update
    BY UpdateType DEF TypeInv, RenewOffer, RestTyped
  <1>2. s.name = "RenewOffered" /\ s.isOffer = TRUE
    BY DEF Variant, WithNext, WithOffer
  <1>3. m \in Message /\ m.type = "RenewOffer" /\ m.next = next
    BY <1>1, MsgType, MsgContent, UpdateType, TxType DEF MessageType
  <1>4. MoveTo(p, s) /\ Send(p, m) /\ state[p].name \in StableStates
    BY DEF RenewOffer
  <1> HIDE DEF s, m
  <1>5. /\ state'[p] = s /\ rollback'[p] = state[p]
        /\ \A q \in Party \ {p} : state'[q] = state[q] /\ rollback'[q] = rollback[q]
    BY <1>4, MoveToEffect DEF TypeInv
  <1>6. Leaves(p) /\ Says(p, m)
    BY <1>3, <1>4, SendEffect DEF TypeInv
  <1>7. /\ UNCHANGED <<ctype, updateIdx, points, secrets, monitor, stored>>
        /\ UNCHANGED historyVars
    BY DEF RenewOffer
  <1> QED
    BY <1>2, <1>3, <1>4, <1>5, <1>6, <1>7
       DEF Offers, Untouched, KeepsPlace, KeepsHistory, KeepsWatch, KeepsType,
           historyVars

LEMMA OnRenewOfferStep ==
    ASSUME TypeInv, NEW p \in Party, OnRenewOffer(p)
    PROVE  IsOffered(p)
  <1> DEFINE n == Head(net[p]).next
             pts == Points(p, 0, n)
             s == WithNext(Variant("RenewOffered", NoTx, TempId(updateIdx[p] + 1)), pts)
  <1>1. net[p] # <<>> /\ Head(net[p]).type = "RenewOffer"
    BY DEF OnRenewOffer, Receives
  <1>2. pts[Other(p)] = n
    BY PointsFields
  <1>3. s.name = "RenewOffered" /\ s.next = pts /\ s.isOffer = FALSE
    <2> HIDE DEF pts
    <2> QED BY DEF Variant, WithNext
  <1>4. MoveTo(p, s) /\ Consume(p) /\ state[p].name \in StableStates
    BY DEF OnRenewOffer
  <1> HIDE DEF s, pts
  <1>5. /\ state'[p] = s /\ rollback'[p] = state[p]
        /\ \A q \in Party \ {p} : state'[q] = state[q] /\ rollback'[q] = rollback[q]
    BY <1>4, MoveToEffect DEF TypeInv
  <1>6. Takes(p) /\ Silent(p)
    BY <1>1, <1>4, ConsumeEffect DEF TypeInv
  <1>7. /\ UNCHANGED <<ctype, updateIdx, points, secrets, monitor, stored>>
        /\ UNCHANGED historyVars
    BY DEF OnRenewOffer
  <1> QED
    BY <1>1, <1>2, <1>3, <1>4, <1>5, <1>6, <1>7
       DEF IsOffered, Untouched, KeepsPlace, KeepsHistory, KeepsWatch,
           KeepsType, historyVars

LEMMA AcceptRenewOfferStep ==
    ASSUME TypeInv, NEW p \in Party, AcceptRenewOffer(p), ~state[p].isOffer
    PROVE  AcceptsUpdate(p)
  <1> DEFINE next == updateIdx[p] + 1
             pts == Points(p, next, state[p].next[Other(p)])
             tx == BufferTx(Other(p), pts)
             s == WithNext(Variant("RenewAccepted", tx, FinalId(next)), pts)
             m == Msg("RenewAccept", next, 0, tx)
  <1>1. next \in Update /\ state[p].next[Other(p)] \in Update /\ Other(p) \in Party
    BY UpdateType, StateFields, OtherType
       DEF TypeInv, AcceptRenewOffer, RestTyped, StateTyped
  <1>2. pts \in [Party -> Update]
    BY <1>1, PointsType
  <1>3. tx \in Tx /\ tx.point = pts
    <2> HIDE DEF pts
    <2> QED BY <1>1, <1>2, TxType, TxPoints
  <1>4. s.name = "RenewAccepted" /\ s.next = pts /\ s.tx = tx
    <2> HIDE DEF pts, tx
    <2> QED BY DEF Variant, WithNext
  <1>5. m \in Message /\ m.type = "RenewAccept" /\ m.next = next /\ m.sig = tx
    <2> HIDE DEF tx
    <2> QED BY <1>1, <1>3, MsgType, MsgContent, UpdateType DEF MessageType
  <1>6. SetState(p, s) /\ Send(p, m) /\ state[p].name = "RenewOffered"
    BY DEF AcceptRenewOffer, InState
  <1>7. /\ UNCHANGED <<ctype, rollback, updateIdx, points, secrets, monitor, stored>>
        /\ UNCHANGED historyVars
    BY DEF AcceptRenewOffer
  <1> HIDE DEF s, m, tx, pts
  <1>8. state'[p] = s /\ \A q \in Party \ {p} : state'[q] = state[q]
    BY <1>6, SetStateEffect DEF TypeInv
  <1>9. Leaves(p) /\ Says(p, m)
    BY <1>5, <1>6, SendEffect DEF TypeInv
  <1> USE <1>3, <1>4, <1>5, <1>6, <1>7, <1>8, <1>9
  <1>10. Untouched(p) /\ KeepsPlace(p) /\ KeepsHistory(p) /\ KeepsType(p)
    BY DEF Untouched, KeepsPlace, KeepsHistory, KeepsType, historyVars
  <1>11. state'[p].next = Points(p, updateIdx[p] + 1, state[p].next[Other(p)])
    BY DEF pts
  <1> QED
    BY <1>10, <1>11 DEF AcceptsUpdate

LEMMA OnRenewAcceptStep ==
    ASSUME TypeInv, NEW p \in Party, OnRenewAccept(p)
    PROVE  ConfirmsRenew(p)
  <1> DEFINE pts == Points(p, state[p].next[p], Head(net[p]).next)
             tx == BufferTx(p, pts)
             s == WithNext(Variant("RenewConfirmed", tx,
                                   FinalId(state[p].contract[2])), pts)
             m == Msg("RenewConfirm", 0, 0, tx)
  <1>1. /\ net[p] # <<>> /\ Head(net[p]).type = "RenewAccept"
        /\ state[p].name = "RenewOffered" /\ Head(net[p]).sig = tx
    BY DEF OnRenewAccept, Receives, InState, RenewAcceptValid
  <1>2. pts \in [Party -> Update]
    BY <1>1, PointsType, HeadType, StateFields DEF TypeInv, StateTyped
  <1>3. tx \in Tx /\ tx.point = pts
    <2> HIDE DEF pts
    <2> QED BY <1>2, TxType, TxPoints
  <1>4. s.name = "RenewConfirmed" /\ s.next = pts /\ s.tx = tx
    <2> HIDE DEF pts, tx
    <2> QED BY DEF Variant, WithNext
  <1>5. m \in Message /\ m.type = "RenewConfirm" /\ m.sig = tx
    <2> HIDE DEF tx
    <2> QED BY <1>3, MsgType, MsgContent, UpdateType DEF MessageType
  <1>6. SetState(p, s) /\ Reply(p, m)
    BY DEF OnRenewAccept
  <1>7. /\ UNCHANGED <<ctype, rollback, updateIdx, points, secrets, monitor, stored>>
        /\ UNCHANGED historyVars
    BY DEF OnRenewAccept
  <1> HIDE DEF s, m, tx
  <1>8. state'[p] = s /\ \A q \in Party \ {p} : state'[q] = state[q]
    BY <1>6, SetStateEffect DEF TypeInv
  <1>9. Takes(p) /\ Says(p, m)
    BY <1>1, <1>5, <1>6, ReplyEffect DEF TypeInv
  <1> USE <1>1, <1>3, <1>4, <1>5, <1>6, <1>7, <1>8, <1>9
  <1>10. Untouched(p) /\ KeepsPlace(p) /\ KeepsHistory(p) /\ KeepsType(p) /\ KeepsWatch(p)
    BY DEF Untouched, KeepsPlace, KeepsHistory, KeepsType, KeepsWatch, historyVars
  <1>11. \E r : Says(p, r) /\ r.type = "RenewConfirm" /\ r.sig = state'[p].tx
    OBVIOUS
  <1> QED
    BY <1>10, <1>11 DEF ConfirmsRenew

LEMMA OnRenewConfirmStep ==
    ASSUME TypeInv, NEW p \in Party, OnRenewConfirm(p)
    PROVE  FinalizesRenew(p)
  <1> DEFINE T == state[p].tx
             s == WithPrev(Variant("RenewFinalized", T, state[p].contract),
                           points[p][Other(p)])
             m == Msg("RenewFinalize", 0, updateIdx[p], T)
             M == AddTx(AddTx(monitor[p], Entry(T, "BufferTx")), SupersededEntry(p))
  <1>1. /\ net[p] # <<>> /\ Head(net[p]).type = "RenewConfirm"
        /\ state[p].name = "RenewAccepted" /\ Head(net[p]).sig = T
        /\ updateIdx[p] \in Update /\ T \in Tx
    BY StateFields DEF TypeInv, RestTyped, StateTyped, OnRenewConfirm, Receives,
                       InState, RenewConfirmValid
  <1>2. s.name = "RenewFinalized" /\ s.tx = T /\ s.prev = points[p][Other(p)]
    BY WithPrevFields
  <1>3. /\ m \in Message /\ m.type = "RenewFinalize"
        /\ m.secret = updateIdx[p] /\ m.sig = T
    BY <1>1, MsgType, MsgContent, UpdateType DEF MessageType
  <1>4. /\ SetState(p, s) /\ Reply(p, m) /\ Hold(p, T) /\ Reveal(p) /\ Persist(p)
        /\ points' = [points EXCEPT ![p] = state[p].next]
        /\ monitor' = [monitor EXCEPT ![p] = M]
        /\ UNCHANGED <<ctype, rollback, updateIdx, secrets>>
    BY DEF OnRenewConfirm, PerUpdateSecret
  <1> HIDE DEF s, m, M
  <1>5. state'[p] = s /\ \A q \in Party \ {p} : state'[q] = state[q]
    BY <1>4, SetStateEffect DEF TypeInv
  <1>6. Takes(p) /\ Says(p, m)
    BY <1>1, <1>3, <1>4, ReplyEffect DEF TypeInv
  <1>7. points'[p] = state[p].next /\ \A q \in Party \ {p} : points'[q] = points[q]
    BY <1>4, PointsEffect DEF TypeInv
  <1>8. monitor'[p] = M /\ \A q \in Party \ {p} : monitor'[q] = monitor[q]
    BY <1>4, MonitorEffect DEF TypeInv
  <1>9. stored'[p] = monitor'[p] /\ \A q \in Party \ {p} : stored'[q] = stored[q]
    BY <1>4, PersistEffect DEF TypeInv
  <1>10. /\ revealed'[p] = revealed[p] \cup {updateIdx[p]}
         /\ held'[p] = held[p] \cup {T}
         /\ \A q \in Party \ {p} : revealed'[q] = revealed[q] /\ held'[q] = held[q]
    BY <1>4, RevealEffect DEF TypeInv
  <1>11. Untouched(p) /\ KeepsType(p)
    BY <1>4, <1>5, <1>7, <1>8, <1>9, <1>10 DEF Untouched, KeepsType
  <1>12. \E r : /\ Says(p, r) /\ r.type = "RenewFinalize"
                /\ r.secret = updateIdx[p] /\ r.sig = T
    BY <1>3, <1>6
  <1> QED
    BY <1>1, <1>2, <1>4, <1>5, <1>6, <1>7, <1>8, <1>9, <1>10, <1>11, <1>12
       DEF FinalizesRenew, M

LEMMA OnRenewFinalizeStep ==
    ASSUME TypeInv, NEW p \in Party, OnRenewFinalize(p)
    PROVE  RevokesRenew(p)
  <1> DEFINE T == state[p].tx
             s == WithOffer(Variant("Established", T, state[p].contract), TRUE)
             m == Msg("RenewRevoke", 0, updateIdx[p], NoTx)
             M == AddTx(AddTx(monitor[p], SupersededEntry(p)), Entry(T, "BufferTx"))
  <1>1. /\ net[p] # <<>> /\ Head(net[p]).type = "RenewFinalize"
        /\ state[p].name = "RenewConfirmed" /\ Head(net[p]).sig = T
        /\ Head(net[p]).secret = points[p][Other(p)] /\ updateIdx[p] \in Update
    BY DEF TypeInv, RestTyped, OnRenewFinalize, Receives, InState,
           RenewFinalizeValid
  <1>2. s.name = "Established" /\ s.tx = T
    BY DEF Variant, WithOffer
  <1>3. m \in Message /\ m.type = "RenewRevoke" /\ m.secret = updateIdx[p]
    BY <1>1, MsgType, MsgContent, UpdateType, TxType DEF MessageType
  <1>4. /\ SetState(p, s) /\ Reply(p, m) /\ Hold(p, T) /\ Reveal(p) /\ Persist(p)
        /\ StepUpdateIdx(p) /\ StoreSecret(p)
        /\ rollback' = [rollback EXCEPT ![p] = NoState]
        /\ points' = [points EXCEPT ![p] = state[p].next]
        /\ monitor' = [monitor EXCEPT ![p] = M]
        /\ UNCHANGED ctype
    BY DEF OnRenewFinalize, PerUpdateSecret
  <1> HIDE DEF s, m, M
  <1>5. state'[p] = s /\ \A q \in Party \ {p} : state'[q] = state[q]
    BY <1>4, SetStateEffect DEF TypeInv
  <1>6. Takes(p) /\ Says(p, m)
    BY <1>1, <1>3, <1>4, ReplyEffect DEF TypeInv
  <1>7. points'[p] = state[p].next /\ \A q \in Party \ {p} : points'[q] = points[q]
    BY <1>4, PointsEffect DEF TypeInv
  <1>8. monitor'[p] = M /\ \A q \in Party \ {p} : monitor'[q] = monitor[q]
    BY <1>4, MonitorEffect DEF TypeInv
  <1>9. stored'[p] = monitor'[p] /\ \A q \in Party \ {p} : stored'[q] = stored[q]
    BY <1>4, PersistEffect DEF TypeInv
  <1>10. /\ revealed'[p] = revealed[p] \cup {updateIdx[p]}
         /\ held'[p] = held[p] \cup {T}
         /\ \A q \in Party \ {p} : revealed'[q] = revealed[q] /\ held'[q] = held[q]
    BY <1>4, RevealEffect DEF TypeInv
  <1>11. /\ updateIdx'[p] = updateIdx[p] + 1
         /\ secrets'[p] = secrets[p] \cup {updateIdx[p]}
         /\ \A q \in Party \ {p} :
               updateIdx'[q] = updateIdx[q] /\ secrets'[q] = secrets[q]
    BY <1>4, IdxEffect DEF TypeInv
  <1>12. \A q \in Party \ {p} : rollback'[q] = rollback[q]
    BY <1>4, RollbackEffect DEF TypeInv
  <1>13. Untouched(p) /\ KeepsType(p)
    BY <1>4, <1>5, <1>7, <1>8, <1>9, <1>10, <1>11, <1>12 DEF Untouched, KeepsType
  <1>14. \E r : Says(p, r) /\ r.type = "RenewRevoke" /\ r.secret = updateIdx[p]
    BY <1>3, <1>6
  <1> QED
    BY <1>1, <1>2, <1>5, <1>6, <1>7, <1>8, <1>9, <1>10, <1>11, <1>13, <1>14
       DEF RevokesRenew, M

LEMMA OnRenewRevokeStep ==
    ASSUME TypeInv, NEW p \in Party, OnRenewRevoke(p)
    PROVE  EndsRenew(p)
  <1> DEFINE s == WithOffer(Variant("Established", state[p].tx, state[p].contract), TRUE)
  <1>1. /\ net[p] # <<>> /\ Head(net[p]).type = "RenewRevoke"
        /\ state[p].name = "RenewFinalized"
        /\ Head(net[p]).secret = state[p].prev
    BY DEF OnRenewRevoke, Receives, InState, RenewRevokeValid
  <1>2. s.name = "Established" /\ s.tx = state[p].tx
    BY DEF Variant, WithOffer
  <1>3. /\ SetState(p, s) /\ Consume(p) /\ StepUpdateIdx(p) /\ StoreSecret(p)
        /\ UNCHANGED <<ctype, rollback, points, monitor, stored, revealed, held>>
    BY DEF OnRenewRevoke, storeVars, historyVars
  <1> HIDE DEF s
  <1>4. state'[p] = s /\ \A q \in Party \ {p} : state'[q] = state[q]
    BY <1>3, SetStateEffect DEF TypeInv
  <1>5. Takes(p) /\ Silent(p)
    BY <1>1, <1>3, ConsumeEffect DEF TypeInv
  <1>6. /\ updateIdx'[p] = updateIdx[p] + 1
        /\ secrets'[p] = secrets[p] \cup {updateIdx[p]}
        /\ \A q \in Party \ {p} :
              updateIdx'[q] = updateIdx[q] /\ secrets'[q] = secrets[q]
    BY <1>3, IdxEffect DEF TypeInv
  <1>7. Untouched(p) /\ KeepsType(p) /\ KeepsHistory(p) /\ KeepsWatch(p)
    BY <1>3, <1>4, <1>6 DEF Untouched, KeepsType, KeepsHistory, KeepsWatch
  <1> QED
    BY <1>1, <1>2, <1>3, <1>4, <1>5, <1>6, <1>7 DEF EndsRenew

-----------------------------------------------------------------------------
(* Rejections.                                                             *)

LEMMA RollBackStep ==
    ASSUME TypeInv, NEW p \in Party, RollBack(p), state[p].name \in Revertible,
           UNCHANGED <<ctype, updateIdx, points, secrets, monitor, stored>>,
           UNCHANGED historyVars,
           \/ Leaves(p) /\ SaysPlain(p)
           \/ Takes(p) /\ Silent(p)
    PROVE  Reverts(p)
  <1>1. /\ state'[p] = rollback[p] /\ rollback'[p] = NoState
        /\ \A q \in Party \ {p} : state'[q] = state[q] /\ rollback'[q] = rollback[q]
    BY RollBackType DEF TypeInv
  <1> QED
    BY <1>1 DEF Reverts, Untouched, KeepsPlace, KeepsHistory, KeepsWatch,
                KeepsType, historyVars

LEMMA RejectOfferStep ==
    ASSUME TypeInv, NEW p \in Party, RejectSettleOffer(p) \/ RejectRenewOffer(p)
    PROVE  Reverts(p)
  <1>1. /\ RollBack(p) /\ Send(p, Msg("Reject", 0, 0, NoTx))
        /\ state[p].name \in Revertible
        /\ UNCHANGED <<ctype, updateIdx, points, secrets, monitor, stored>>
        /\ UNCHANGED historyVars
    BY DEF RejectSettleOffer, RejectRenewOffer, InState, Revertible, storeVars
  <1>2. Leaves(p) /\ SaysPlain(p)
    BY <1>1, RejectMsg, SendEffect, RejectSaid DEF TypeInv
  <1> QED
    BY <1>1, <1>2, RollBackStep

(* A step that changes nothing the proofs look at but messages.            *)
LEMMA MessageStep ==
    ASSUME NEW p \in Party, UNCHANGED chanVars, UNCHANGED historyVars,
           UNCHANGED <<monitor, stored>>,
           \/ Leaves(p) /\ Silent(p)
           \/ Takes(p) /\ Silent(p)
           \/ Takes(p) /\ SaysPlain(p)
    PROVE  Idles(p)
  BY DEF Idles, Untouched, KeepsPlace, KeepsHistory, KeepsType, chanVars,
         historyVars

LEMMA OnRejectStep ==
    ASSUME TypeInv, NEW p \in Party, OnReject(p)
    PROVE  Reverts(p) \/ Idles(p)
  <1>1. /\ net[p] # <<>> /\ Consume(p) /\ UNCHANGED historyVars
        /\ UNCHANGED <<ctype, updateIdx, points, secrets, monitor, stored>>
    BY DEF OnReject, Receives
  <1>2. Takes(p) /\ Silent(p)
    BY <1>1, ConsumeEffect DEF TypeInv
  <1>3. CASE UNCHANGED <<state, rollback>>
    BY <1>1, <1>2, <1>3, MessageStep DEF chanVars
  <1>4. CASE RollBack(p) /\ state[p].name \in {"SettledOffered", "RenewOffered"}
    BY <1>1, <1>2, <1>4, RollBackStep DEF Revertible
  <1> QED
    BY <1>3, <1>4 DEF OnReject

LEMMA OnOfferRejectStep ==
    ASSUME TypeInv, NEW p \in Party, OnSettleOfferReject(p) \/ OnRenewOfferReject(p)
    PROVE  Idles(p)
  <1>1. /\ net[p] # <<>> /\ Reply(p, Msg("Reject", 0, 0, NoTx))
        /\ UNCHANGED chanVars /\ UNCHANGED historyVars
        /\ UNCHANGED <<monitor, stored>>
    BY DEF OnSettleOfferReject, OnRenewOfferReject, Receives, storeVars
  <1>2. Takes(p) /\ SaysPlain(p)
    BY <1>1, RejectMsg, ReplyEffect, RejectSaid DEF TypeInv
  <1> QED
    BY <1>1, <1>2, MessageStep

LEMMA DropMessageStep ==
    ASSUME TypeInv, NEW p \in Party, HandlerError(p) \/ LoseMessage(p)
    PROVE  Idles(p)
  <1>1. /\ net[p] # <<>> /\ Consume(p) /\ UNCHANGED chanVars
        /\ UNCHANGED historyVars /\ UNCHANGED <<monitor, stored>>
    BY DEF HandlerError, LoseMessage, storeVars
  <1>2. Takes(p) /\ Silent(p)
    BY <1>1, ConsumeEffect DEF TypeInv
  <1> QED
    BY <1>1, <1>2, MessageStep

-----------------------------------------------------------------------------
(* Closing.                                                                *)

LEMMA OfferCollaborativeCloseStep ==
    ASSUME TypeInv, NEW p \in Party, OfferCollaborativeClose(p)
    PROVE  Freezes(p)
  <1> DEFINE s == WithOffer(Variant("CollaborativeCloseOffered", CloseTx(p),
                                    NoContract), TRUE)
             m == Msg("CollaborativeCloseOffer", 0, 0, CloseTx(p))
  <1>1. s.name = "CollaborativeCloseOffered" /\ s.tx.kind = "close"
    BY DEF Variant, WithOffer, CloseTx
  <1>2. m \in Message /\ m.type = "CollaborativeCloseOffer"
    BY MsgType, MsgContent, UpdateType, TxType DEF MessageType
  <1>3. /\ MoveTo(p, s) /\ Send(p, m) /\ Persist(p) /\ UNCHANGED historyVars
        /\ monitor' = [monitor EXCEPT ![p] =
                         AddTx(monitor[p], Entry(CloseTx(p), "CollaborativeClose"))]
        /\ UNCHANGED <<ctype, updateIdx, points, secrets>> /\ ctype[p] = "Signed"
    BY DEF OfferCollaborativeClose, WatchTx, Signed
  <1> HIDE DEF s, m
  <1>4. /\ state'[p] = s /\ rollback'[p] = state[p]
        /\ \A q \in Party \ {p} : state'[q] = state[q] /\ rollback'[q] = rollback[q]
    BY <1>3, MoveToEffect DEF TypeInv
  <1>5. Leaves(p) /\ SaysPlain(p)
    BY <1>2, <1>3, SendEffect DEF TypeInv, SaysPlain
  <1>6. \A q \in Party \ {p} : monitor'[q] = monitor[q] /\ stored'[q] = stored[q]
    BY <1>3, MonitorEffect, PersistEffect DEF TypeInv
  <1>7. Follows(p)
    <2> DEFINE e == Entry(CloseTx(p), "CollaborativeClose")
    <2>1. e.type = "CollaborativeClose"
      BY DEF Entry
    <2>2. monitor'[p] = AddTx(monitor[p], e)
      BY <1>3, MonitorEffect DEF TypeInv
    <2> HIDE DEF e
    <2>3. monitor'[p].tx = {x \in monitor[p].tx : x.tx # e.tx} \cup {e}
      BY <2>2 DEF AddTx
    <2> QED
      BY <1>1, <1>4, <2>1, <2>3 DEF Follows, SpendTypes
  <1> QED
    BY <1>1, <1>3, <1>4, <1>5, <1>6, <1>7
       DEF Freezes, Untouched, KeepsPlace, KeepsHistory, KeepsType, Frozen,
           historyVars

LEMMA OnCollaborativeCloseOfferStep ==
    ASSUME TypeInv, NEW p \in Party, OnCollaborativeCloseOffer(p)
    PROVE  Freezes(p)
  <1> DEFINE s == Variant("CollaborativeCloseOffered", CloseTx(Other(p)), NoContract)
  <1>1. s.name = "CollaborativeCloseOffered" /\ s.tx.kind = "close"
    BY DEF Variant, CloseTx
  <1>2. /\ net[p] # <<>> /\ MoveTo(p, s) /\ Consume(p) /\ UNCHANGED historyVars
        /\ UNCHANGED <<ctype, updateIdx, points, secrets, monitor, stored>>
        /\ ctype[p] = "Signed"
    BY DEF OnCollaborativeCloseOffer, Receives, storeVars, Signed
  <1> HIDE DEF s
  <1>3. /\ state'[p] = s /\ rollback'[p] = state[p]
        /\ \A q \in Party \ {p} : state'[q] = state[q] /\ rollback'[q] = rollback[q]
    BY <1>2, MoveToEffect DEF TypeInv
  <1>4. Takes(p) /\ Silent(p)
    BY <1>2, ConsumeEffect DEF TypeInv
  <1>5. Follows(p)
    BY <1>1, <1>2, <1>3 DEF Follows
  <1> QED
    BY <1>1, <1>2, <1>3, <1>4, <1>5
       DEF Freezes, Untouched, KeepsPlace, KeepsHistory, KeepsType, Frozen,
           historyVars

LEMMA ForceCloseStep ==
    ASSUME TypeInv, NEW p \in Party,
           ForceCloseEstablished(p) \/ ForceCloseSettled(p)
    PROVE  Freezes(p)
  <1>1. \E s : /\ SetState(p, s) /\ s.name \in {"Closing", "SettledClosing"}
             /\ s.isInitiator = TRUE
    <2>1. CASE ForceCloseEstablished(p)
      <3> DEFINE s == AsInitiator(Variant("Closing", ClosedFrom(p).tx,
                                          GetContractId(ClosedFrom(p))))
      <3>1. SetState(p, s)
        BY <2>1 DEF ForceCloseEstablished
      <3>2. s.name = "Closing" /\ s.isInitiator = TRUE
        BY DEF Variant, AsInitiator
      <3> HIDE DEF s
      <3> QED
        BY <3>1, <3>2
    <2>2. CASE ForceCloseSettled(p)
      <3>1. PICK offered \in DidWeOfferLastSettlement(monitor[p]) :
              SetState(p, WithOffer(AsInitiator(Variant("SettledClosing",
                              ClosedFrom(p).tx, NoContract)), offered))
        BY <2>2 DEF ForceCloseSettled
      <3> DEFINE s == WithOffer(AsInitiator(Variant("SettledClosing",
                              ClosedFrom(p).tx, NoContract)), offered)
      <3>2. s.name = "SettledClosing" /\ s.isInitiator = TRUE
        BY DEF Variant, AsInitiator, WithOffer
      <3>3. SetState(p, s)
        BY <3>1
      <3> HIDE DEF s
      <3> QED
        BY <3>2, <3>3
    <2> QED
      BY <2>1, <2>2
  <1>2. /\ state'[p].name \in {"Closing", "SettledClosing"}
        /\ state'[p].isInitiator = TRUE
        /\ \A q \in Party \ {p} : state'[q] = state[q]
    BY <1>1, SetStateEffect DEF TypeInv
  <1>3. /\ rollback' = [rollback EXCEPT ![p] = RolledBack(p)]
        /\ UNCHANGED <<ctype, updateIdx, points, secrets, net, revealed, held>>
        /\ ctype[p] = "Signed"
    BY DEF ForceCloseEstablished, ForceCloseSettled, historyVars, Signed
  <1>4. \A q \in Party \ {p} : rollback'[q] = rollback[q]
    BY <1>3, RollbackEffect DEF TypeInv
  <1>5. \A q \in Party \ {p} : monitor'[q] = monitor[q] /\ stored'[q] = stored[q]
    <2>1. CASE ForceCloseEstablished(p)
      BY <2>1, MonitorEffect, PersistEffect DEF TypeInv, ForceCloseEstablished
    <2>2. CASE ForceCloseSettled(p)
      BY <2>2, MonitorEffect DEF TypeInv, ForceCloseSettled
    <2> QED
      BY <2>1, <2>2
  <1>6. monitor'[p].tx \subseteq monitor[p].tx
    <2>1. CASE ForceCloseEstablished(p)
      <3>1. monitor'[p] = RemoveTx(monitor[p], ClosedFrom(p).tx)
        BY <2>1, MonitorEffect DEF TypeInv, ForceCloseEstablished
      <3>2. monitor[p] \in Monitor
        BY DEF TypeInv, MonitorTyped
      <3>3. monitor'[p].tx = {x \in monitor[p].tx : x.tx # ClosedFrom(p).tx}
        BY <3>1, <3>2 DEF RemoveTx, Monitor
      <3> QED
        BY <3>3
    <2>2. CASE ForceCloseSettled(p)
      <3>1. monitor'[p] = EmptyMonitor
        BY <2>2, MonitorEffect DEF TypeInv, ForceCloseSettled
      <3> QED
        BY <3>1 DEF EmptyMonitor
    <2> QED
      BY <2>1, <2>2
  <1>7. Follows(p)
    BY <1>2, <1>6 DEF Follows
  <1> QED
    BY <1>2, <1>3, <1>4, <1>5, <1>7
       DEF Freezes, Untouched, KeepsPlace, KeepsHistory, KeepsType, Frozen,
           Leaves, Silent

LEMMA ProcessSpendStep ==
    ASSUME TypeInv, NEW p \in Party, ProcessBufferTx(p) \/ ProcessSettleTx2(p)
    PROVE  Freezes(p)
  <1>1. \E s : MoveTo(p, s) /\ s.name \in {"Closing", "SettledClosing"}
    <2>1. CASE ProcessBufferTx(p)
      <3>1. PICK e \in ConfirmedWatch(p, "BufferTx") :
              MoveTo(p, Variant("Closing", e.tx, GetContractId(state[p])))
        BY <2>1 DEF ProcessBufferTx
      <3> DEFINE s == Variant("Closing", e.tx, GetContractId(state[p]))
      <3>2. s.name = "Closing"
        BY DEF Variant
      <3>3. MoveTo(p, s)
        BY <3>1
      <3> HIDE DEF s
      <3> QED
        BY <3>2, <3>3
    <2>2. CASE ProcessSettleTx2(p)
      <3>1. PICK e \in ConfirmedWatch(p, "SettleTx2") :
              MoveTo(p, WithOffer(Variant("SettledClosing", e.tx, NoContract),
                                  e.isOffer))
        BY <2>2 DEF ProcessSettleTx2
      <3> DEFINE s == WithOffer(Variant("SettledClosing", e.tx, NoContract), e.isOffer)
      <3>2. s.name = "SettledClosing"
        BY DEF Variant, WithOffer
      <3>3. MoveTo(p, s)
        BY <3>1
      <3> HIDE DEF s
      <3> QED
        BY <3>2, <3>3
    <2> QED
      BY <2>1, <2>2
  <1>2. /\ state'[p].name \in {"Closing", "SettledClosing"}
        /\ \A q \in Party \ {p} : state'[q] = state[q] /\ rollback'[q] = rollback[q]
    BY <1>1, MoveToEffect DEF TypeInv
  <1>3. /\ UNCHANGED <<ctype, updateIdx, points, secrets, net, revealed, held>>
        /\ UNCHANGED <<monitor, stored>> /\ ctype[p] = "Signed"
    BY DEF ProcessBufferTx, ProcessSettleTx2, historyVars, storeVars, Signed
  <1>4. \E e \in monitor[p].tx : e.type \in SpendTypes /\ Confirmed(e.tx)
    BY DEF ProcessBufferTx, ProcessSettleTx2, ConfirmedWatch, SpendTypes
  <1>5. Follows(p)
    BY <1>3, <1>4 DEF Follows
  <1> QED
    BY <1>2, <1>3, <1>5
       DEF Freezes, Untouched, KeepsPlace, KeepsHistory, KeepsType, Frozen,
           Leaves, Silent

-----------------------------------------------------------------------------
(* Steps that leave the channels' records and the messages alone.          *)

LEMMA PanicStep ==
    ASSUME NEW p \in Party, Panic(p)
    PROVE  Idles(p)
  BY MessageStep DEF Panic, storeVars, Leaves, Silent

LEMMA EndStep ==
    ASSUME TypeInv, NEW p \in Party,
           \/ TryFinalizeClosingEstablishedChannel(p)
           \/ TryFinalizeSettledClosingChannel(p) \/ TryConfirmClaimTx(p)
           \/ ProcessRevoked(p) \/ ProcessCollaborativeClose(p)
           \/ ProcessCet(p) \/ AcceptCollaborativeClose(p)
    PROVE  Idles(p)
  <1>1. UNCHANGED <<state, rollback, updateIdx, points, secrets, net, revealed, held>>
    BY DEF TryFinalizeClosingEstablishedChannel,
           TryFinalizeSettledClosingChannel, TryConfirmClaimTx, ProcessRevoked,
           ProcessCollaborativeClose, ProcessCet, AcceptCollaborativeClose,
           historyVars
  <1>2. \E t : t # "Signed" /\ ctype' = [ctype EXCEPT ![p] = t]
    BY DEF TryFinalizeClosingEstablishedChannel,
           TryFinalizeSettledClosingChannel, TryConfirmClaimTx, ProcessRevoked,
           ProcessCollaborativeClose, ProcessCet, AcceptCollaborativeClose
  <1>3. ctype'[p] # "Signed" /\ \A q \in Party \ {p} : ctype'[q] = ctype[q]
    BY <1>2, CtypeEffect DEF TypeInv
  <1>4. \A q \in Party \ {p} : monitor'[q] = monitor[q]
    BY MonitorEffect
       DEF TypeInv, TryFinalizeClosingEstablishedChannel,
           TryFinalizeSettledClosingChannel, TryConfirmClaimTx, ProcessRevoked,
           ProcessCollaborativeClose, ProcessCet, AcceptCollaborativeClose,
           storeVars
  <1>5. \A q \in Party \ {p} : stored'[q] = stored[q]
    BY PersistEffect
       DEF TypeInv, TryFinalizeClosingEstablishedChannel,
           TryFinalizeSettledClosingChannel, TryConfirmClaimTx, ProcessRevoked,
           ProcessCollaborativeClose, ProcessCet, AcceptCollaborativeClose,
           storeVars
  <1>6. Ends(p)
    <2>1. CASE TryFinalizeClosingEstablishedChannel(p) \/ ProcessCet(p)
      <3>1. ctype'[p] = "CounterClosed" => state[p].name = "Closing" /\ ~ state[p].isInitiator
        BY <2>1, CtypeEffect
           DEF TryFinalizeClosingEstablishedChannel, ProcessCet, TypeInv, InState
      <3>2. ctype'[p] \in {"CounterClosed", "Closed"}
        BY <2>1, CtypeEffect
           DEF TryFinalizeClosingEstablishedChannel, ProcessCet, TypeInv
      <3> QED
        BY <3>1, <3>2 DEF Ends
    <2>2. CASE TryFinalizeSettledClosingChannel(p)
      <3>1. ctype'[p] = "SettledClosing" /\ state[p].name = "SettledClosing"
        BY <2>2, CtypeEffect DEF TryFinalizeSettledClosingChannel, TypeInv, InState
      <3> QED
        BY <3>1 DEF Ends
    <2>3. CASE TryConfirmClaimTx(p)
      <3> DEFINE t == IF state[p].isInitiator THEN "Closed" ELSE "CounterClosed"
      <3>1. ctype[p] = "SettledClosing" /\ ctype' = [ctype EXCEPT ![p] = t]
        BY <2>3 DEF TryConfirmClaimTx
      <3>2. /\ ctype[p] = "SettledClosing" /\ ctype'[p] \in {"CounterClosed", "Closed"}
            /\ ctype'[p] = "CounterClosed" => ~ state[p].isInitiator
        BY <3>1 DEF TypeInv, RestTyped
      <3> QED
        BY <3>2 DEF Ends
    <2>4. CASE ProcessRevoked(p)
      <3>1. ctype'[p] = "ClosedPunished"
        BY <2>4, CtypeEffect DEF ProcessRevoked, TypeInv
      <3>2. PICK e \in ConfirmedWatch(p, "Revoked") : Punishable(p, e)
        BY <2>4 DEF ProcessRevoked
      <3>3. /\ e \in monitor[p].tx /\ Confirmed(e.tx) /\ chain.by = Other(p)
            /\ e.tx.point[Other(p)] \in secrets[p]
        BY <3>2 DEF ConfirmedWatch, Punishable
      <3> QED
        BY <3>1, <3>3 DEF Ends
    <2>5. CASE ProcessCollaborativeClose(p) \/ AcceptCollaborativeClose(p)
      <3>1. ctype'[p] = "CollaborativelyClosed"
        BY <2>5, CtypeEffect
           DEF ProcessCollaborativeClose, AcceptCollaborativeClose, TypeInv
      <3> QED
        BY <3>1 DEF Ends
    <2> QED
      BY <2>1, <2>2, <2>3, <2>4, <2>5
  <1> QED
    BY <1>1, <1>3, <1>4, <1>5, <1>6
       DEF Idles, Untouched, KeepsPlace, KeepsHistory, Leaves, Silent

LEMMA CheckStep ==
    ASSUME TypeInv, NEW p \in Party,
           \/ CheckSignedContract(p) \/ CheckPreclosedContract(p)
           \/ CheckForWatchedTx(p) \/ Restart(p)
    PROVE  Idles(p)
  <1>1. UNCHANGED chanVars /\ UNCHANGED historyVars /\ net' = net
    BY DEF CheckSignedContract, CheckPreclosedContract, CheckForWatchedTx, Restart
  <1>2. /\ \/ monitor'[p] = monitor[p]
           \/ monitor'[p] = stored[p] /\ used'.restarts # 0
        /\ stored'[p] \in {monitor[p], stored[p]}
        /\ \A q \in Party \ {p} : monitor'[q] = monitor[q] /\ stored'[q] = stored[q]
    <2>1. CASE Restart(p)
      <3>1. used.restarts \in Nat /\ used'.restarts = used.restarts + 1
        BY <2>1 DEF Restart, TypeInv, RestTyped
      <3>2. used'.restarts # 0
        BY <3>1
      <3> QED
        BY <2>1, <3>2 DEF Restart, TypeInv, MonitorTyped, StoredTyped
    <2>2. CASE CheckSignedContract(p) \/ CheckPreclosedContract(p) \/ CheckForWatchedTx(p)
      BY <2>2 DEF CheckSignedContract, CheckPreclosedContract, CheckForWatchedTx,
                  TypeInv, MonitorTyped, StoredTyped
    <2> QED
      BY <2>1, <2>2
  <1> QED
    BY <1>1, <1>2
       DEF Idles, Untouched, KeepsPlace, KeepsHistory, KeepsType, Leaves,
           Silent, chanVars, historyVars

LEMMA OutsideIdles ==
    ASSUME NEW p \in Party,
           \/ Mine \/ Mature \/ MineSpend \/ Attest \/ UNCHANGED vars
           \/ \E q \in Party : PublishOld(q)
    PROVE  Idles(p)
  <1>1. /\ UNCHANGED chanVars /\ UNCHANGED historyVars
        /\ UNCHANGED <<monitor, stored>> /\ net' = net
    BY DEF Mine, Mature, MineSpend, Attest, PublishOld, vars, storeVars
  <1> QED
    BY <1>1, MessageStep DEF Leaves, Silent

(* The handlers and calls of the update protocols load a Signed channel.   *)
LEMMA UpdateSigned ==
    ASSUME NEW p \in Party,
           \/ SettleOffer(p) \/ RenewOffer(p) \/ AcceptSettleOffer(p)
           \/ AcceptRenewOffer(p) \/ RejectSettleOffer(p) \/ RejectRenewOffer(p)
           \/ OnSettleOffer(p) \/ OnSettleAccept(p) \/ OnSettleConfirm(p)
           \/ OnSettleFinalize(p) \/ OnRenewOffer(p) \/ OnRenewAccept(p)
           \/ OnRenewConfirm(p) \/ OnRenewFinalize(p) \/ OnRenewRevoke(p)
           \/ OnReject(p)
    PROVE  ctype[p] = "Signed"
  BY DEF SettleOffer, RenewOffer, AcceptSettleOffer, AcceptRenewOffer,
         RejectSettleOffer, RejectRenewOffer, OnSettleOffer, OnSettleAccept,
         OnSettleConfirm, OnSettleFinalize, OnRenewOffer, OnRenewAccept,
         OnRenewConfirm, OnRenewFinalize, OnRenewRevoke, OnReject, InState, Signed

(* Every step of a party is a step of one of the kinds.                    *)
LEMMA PartyStep ==
    ASSUME TypeInv, NEW p \in Party, ApiCall(p) \/ OnDlcMessage(p) \/ PeriodicCheck(p)
    PROVE  StepOf(p)
  <1>1. CASE ApiCall(p)
    <2>1. CASE OfferUpdate(p)
      BY <2>1, UpdateSigned, SettleOfferStep, RenewOfferStep
         DEF OfferUpdate, UpdateStep, StepOf
    <2>2. CASE AnswerOffer(p)
      BY <2>2, UpdateSigned, AcceptSettleOfferStep, AcceptRenewOfferStep,
         RejectOfferStep DEF AnswerOffer, UpdateStep, StepOf
    <2>3. CASE OfferClose(p)
      BY <2>3, OfferCollaborativeCloseStep DEF OfferClose, StepOf
    <2>4. CASE AcceptCollaborativeClose(p)
      BY <2>4, EndStep DEF StepOf
    <2>5. CASE ForceClose(p)
      BY <2>5, ForceCloseStep, PanicStep DEF ForceClose, ForceCloseFails, StepOf
    <2> QED
      BY <1>1, <2>1, <2>2, <2>3, <2>4, <2>5 DEF ApiCall
  <1>2. CASE OnDlcMessage(p)
    BY <1>2, UpdateSigned, OnOfferRejectStep, OnSettleOfferStep, OnSettleAcceptStep,
       OnSettleConfirmStep, OnSettleFinalizeStep, OnSettleUnconfirmedStep,
       OnRenewOfferStep, OnRenewAcceptStep, OnRenewConfirmStep,
       OnRenewFinalizeStep, OnRenewRevokeStep, OnRejectStep,
       OnCollaborativeCloseOfferStep, DropMessageStep
       DEF OnDlcMessage, UpdateStep, StepOf
  <1>3. CASE PeriodicCheck(p)
    BY <1>3, CheckStep, EndStep, ProcessSpendStep, PanicStep
       DEF PeriodicCheck, ProcessBufferTxFails, ProcessRevokedFails, StepOf
  <1> QED
    BY <1>1, <1>2, <1>3

(* Every step of the channel is a step of one of the kinds, of one party.  *)
LEMMA NextStep ==
    ASSUME TypeInv, [Next]_vars
    PROVE  \E p \in Party : StepOf(p)
  <1>1. ASSUME Environment PROVE \E p \in Party : StepOf(p)
    <2>1. Alice \in Party
      BY DEF Party
    <2> QED
      BY <1>1, <2>1, OutsideIdles, DropMessageStep, CheckStep
         DEF Environment, StepOf
  <1>2. CASE UNCHANGED vars
    <2>1. Alice \in Party
      BY DEF Party
    <2> QED
      BY <1>2, <2>1, OutsideIdles DEF StepOf
  <1> QED
    BY <1>1, <1>2, PartyStep DEF Next

(* What is used up of the bounds stays so, and is used by the environment  *)
(* and by close offers.                                                    *)
LEMMA UsedUp ==
    ASSUME TypeInv, [Next]_vars
    PROVE  /\ used'.restarts = 0 => used.restarts = 0
           /\ used'.cheats = 0 => used.cheats = 0
  <1>1. used \in [lost : Nat, restarts : Nat, cheats : Nat, closes : Nat]
    BY DEF TypeInv, RestTyped
  <1>2. ASSUME NEW p \in Party, ApiCall(p) \/ OnDlcMessage(p) \/ PeriodicCheck(p)
        PROVE  used'.restarts = used.restarts /\ used'.cheats = used.cheats
    <2>1. CASE OfferCollaborativeClose(p)
      BY <1>1, <2>1 DEF OfferCollaborativeClose
    <2>2. CASE ApiCall(p)
      BY <2>1, <2>2
         DEF ApiCall, OfferUpdate, AnswerOffer, OfferClose, ForceClose,
             SettleOffer, RenewOffer, AcceptSettleOffer, AcceptRenewOffer,
             RejectSettleOffer, RejectRenewOffer, AcceptCollaborativeClose,
             ForceCloseEstablished, ForceCloseSettled, ForceCloseFails, Panic
    <2>3. CASE OnDlcMessage(p)
      BY <2>3
         DEF OnDlcMessage, OnSettleOfferReject, OnSettleOffer, OnSettleAccept,
             OnSettleConfirm, OnSettleFinalize, OnSettleUnconfirmed,
             OnRenewOfferReject, OnRenewOffer, OnRenewAccept, OnRenewConfirm,
             OnRenewFinalize, OnRenewRevoke, OnReject,
             OnCollaborativeCloseOffer, HandlerError
    <2>4. CASE PeriodicCheck(p)
      BY <2>4
         DEF PeriodicCheck, CheckSignedContract, CheckPreclosedContract,
             TryFinalizeClosingEstablishedChannel,
             TryFinalizeSettledClosingChannel, TryConfirmClaimTx,
             ProcessBufferTx, ProcessBufferTxFails, ProcessSettleTx2,
             ProcessRevoked, ProcessRevokedFails, ProcessCollaborativeClose,
             ProcessCet, CheckForWatchedTx, Panic
    <2> QED
      BY <1>2, <2>2, <2>3, <2>4
  <1>3. CASE Environment
    BY <1>1, <1>3 DEF Environment, Mine, Mature, MineSpend, Attest, LoseMessage,
                      Restart, PublishOld
  <1>4. CASE UNCHANGED vars
    BY <1>4 DEF vars
  <1> QED
    BY <1>2, <1>3, <1>4 DEF Next

-----------------------------------------------------------------------------
(***************************************************************************)
(* The update protocols exchange the secrets of the updates fairly, for    *)
(* every choice of the constants of DlcChannel: a party has stored exactly *)
(* the counter party's secrets of the updates before its own, each was     *)
(* given up, and DlcChannel implements FairExchange.                       *)
(*                                                                         *)
(* The handlers compare a secret with the counter party's point they have  *)
(* stored, and store it under their own update_idx.  That the two are the  *)
(* same update is a fact about both parties and all messages between them: *)
(* a message names an update that its receiver has not adopted and its     *)
(* sender has reached, messages come in the order of their updates, and    *)
(* after the secret of an update nothing follows about it.                 *)
(***************************************************************************)

Waiting == {"SettledConfirmed", "RenewFinalized"}

(* Messages that name the update they lead to by the sender's next point,  *)
(* and messages that carry the secret of the update before it.             *)
Naming == {"SettleOffer", "SettleAccept", "RenewOffer", "RenewAccept"}
Disclosing == {"SettleConfirm", "SettleFinalize", "RenewFinalize", "RenewRevoke"}
Numbered == Naming \cup Disclosing \cup {"RenewConfirm"}
About(p, m) ==
    IF m.type \in Naming THEN m.next
    ELSE IF m.type \in Disclosing THEN m.secret + 1
    ELSE m.sig.point[Other(p)]

(* A message on its way to p, when the parties are in the updates idx and  *)
(* have given up the secrets shown.                                        *)
Carried(p, m, idx, shown) ==
    /\ m.type \in Numbered =>
         /\ idx[p] < About(p, m)
         /\ About(p, m) <= idx[Other(p)] + 1
    /\ m.type \in Disclosing => m.secret \in shown[Other(p)]
    /\ m.type \in {"SettleFinalize", "RenewRevoke"} =>
         m.secret < idx[Other(p)]
Precedes(p, a, b) ==
    a.type \in Numbered /\ b.type \in Numbered =>
       /\ About(p, a) <= About(p, b)
       /\ a.type \in Disclosing => About(p, a) < About(p, b)
Queue(p) ==
    /\ \A i \in 1 .. Len(net[p]) : Carried(p, net[p][i], updateIdx, revealed)
    /\ \A i, j \in 1 .. Len(net[p]) : i < j => Precedes(p, net[p][i], net[p][j])

(* What p's record of the channel says of its update.                      *)
GivenUp(p) ==
    /\ \A n \in revealed[p] : n <= updateIdx[p]
    /\ updateIdx[p] \in revealed[p] => state[p].name \in Frozen \cup Waiting
    /\ state[p].name \in Waiting => updateIdx[p] \in revealed[p]
Pointed(p) ==
    LET s == state[p]
        next == updateIdx[p] + 1 IN
    /\ s.name \in Updating \ {"RenewFinalized"} => points[p] = Both(updateIdx[p])
    /\ s.name = "RenewFinalized" =>
         /\ s.prev = updateIdx[p] /\ points[p] = Both(next)
         /\ s.tx.point = Both(next)
    /\ s.name = "SettledReceived" => s.next[Other(p)] = next
    /\ s.name = "RenewOffered" /\ ~s.isOffer => s.next[Other(p)] = next
    /\ s.name \in {"SettledAccepted", "SettledConfirmed", "RenewAccepted",
                   "RenewConfirmed"} => s.next = Both(next) /\ s.tx.point = Both(next)
Place(p) ==
    /\ secrets[p] = {n \in Update : n < updateIdx[p]}
    /\ GivenUp(p) /\ Pointed(p)

ExchangeInv ==
    /\ RevealInv
    /\ \A p \in Party : /\ Place(p) /\ Queue(p)
                        /\ secrets[p] \subseteq revealed[Other(p)]

-----------------------------------------------------------------------------
(* Data.                                                                   *)

LEMMA BothPoints ==
    ASSUME NEW p \in Party, NEW n
    PROVE  Points(p, n, n) = Both(n) /\ Both(n)[p] = n /\ Both(n)[Other(p)] = n
  BY OtherType DEF Points, Both

LEMMA IdxType ==
    ASSUME TypeInv, NEW p \in Party
    PROVE  /\ updateIdx[p] \in Update /\ updateIdx[p] \in Nat
           /\ revealed[p] \subseteq Update /\ secrets[p] \subseteq Update
  BY UpdateType DEF TypeInv, RestTyped

LEMMA MessageFields ==
    ASSUME NEW p \in Party, NEW m \in Message
    PROVE  /\ m.next \in Update /\ m.secret \in Nat /\ m.sig \in Tx
           /\ m.sig.point[Other(p)] \in Nat
           /\ About(p, m) \in Nat
  <1>1. m.next \in Update /\ m.secret \in Update /\ m.sig \in Tx
    BY DEF Message
  <1>2. m.sig.point[Other(p)] \in Update
    BY <1>1, OtherType DEF Tx
  <1>3. m.next \in Nat /\ m.secret \in Nat /\ m.sig.point[Other(p)] \in Nat
    BY <1>1, <1>2, UpdateType
  <1> QED
    BY <1>1, <1>3 DEF About

-----------------------------------------------------------------------------
(* How far apart the parties are.                                          *)

(* A party that has not given up the secret of its update is not behind.   *)
LEMMA NotBehind ==
    ASSUME ExchangeInv, NEW p \in Party, updateIdx[p] \notin revealed[p]
    PROVE  updateIdx[Other(p)] <= updateIdx[p]
  <1>1. Other(p) \in Party /\ Other(Other(p)) = p
    BY OtherType
  <1>2. /\ updateIdx[p] \in Update /\ updateIdx[p] \in Nat
        /\ updateIdx[Other(p)] \in Nat
    BY <1>1, IdxType DEF ExchangeInv, RevealInv
  <1>3. secrets[Other(p)] = {n \in Update : n < updateIdx[Other(p)]}
    BY <1>1 DEF ExchangeInv, Place
  <1>4. secrets[Other(p)] \subseteq revealed[p]
    BY <1>1 DEF ExchangeInv
  <1> QED
    BY <1>2, <1>3, <1>4

LEMMA AtMostOneApart ==
    ASSUME ExchangeInv, NEW p \in Party
    PROVE  updateIdx[Other(p)] <= updateIdx[p] + 1
  <1>1. Other(p) \in Party /\ Other(Other(p)) = p
    BY OtherType
  <1>2. /\ updateIdx[Other(p)] \in Update /\ updateIdx[p] \in Nat
        /\ updateIdx[Other(p)] \in Nat
    BY <1>1, IdxType DEF ExchangeInv, RevealInv
  <1>3. secrets[Other(p)] = {n \in Update : n < updateIdx[Other(p)]}
    BY <1>1 DEF ExchangeInv, Place
  <1>4. secrets[Other(p)] \subseteq revealed[p]
    BY <1>1 DEF ExchangeInv
  <1>5. \A n \in revealed[p] : n <= updateIdx[p]
    BY DEF ExchangeInv, Place, GivenUp
  <1>6. CASE updateIdx[Other(p)] > updateIdx[p] + 1
    <2>1. updateIdx[p] + 1 \in Update
      BY <1>2, <1>6, ConstantsAssumption DEF Update
    <2> QED
      BY <1>2, <1>3, <1>4, <1>5, <1>6, <2>1
  <1> QED
    BY <1>2, <1>6

LEMMA NotGiven ==
    ASSUME ExchangeInv, NEW p \in Party, state[p].name \notin Frozen \cup Waiting
    PROVE  updateIdx[p] \notin revealed[p]
  BY DEF ExchangeInv, Place, GivenUp

(* The message that p handles next.                                        *)
LEMMA HeadCarried ==
    ASSUME ExchangeInv, NEW p \in Party, net[p] # <<>>
    PROVE  Head(net[p]) \in Message /\ Carried(p, Head(net[p]), updateIdx, revealed)
  <1>1. net[p] \in Seq(Message)
    BY DEF ExchangeInv, RevealInv, TypeInv, NetTyped
  <1>2. Head(net[p]) = net[p][1] /\ 1 \in 1 .. Len(net[p]) /\ Head(net[p]) \in Message
    BY <1>1, HeadTailProperties, LenProperties, EmptySeq
  <1> QED
    BY <1>2 DEF ExchangeInv, Queue

LEMMA HeadAbout ==
    ASSUME ExchangeInv, NEW p \in Party, net[p] # <<>>,
           Head(net[p]).type \in Numbered, updateIdx[p] \notin revealed[p]
    PROVE  About(p, Head(net[p])) = updateIdx[p] + 1
  <1>1. /\ updateIdx[p] < About(p, Head(net[p]))
        /\ About(p, Head(net[p])) <= updateIdx[Other(p)] + 1
    BY HeadCarried DEF Carried
  <1>2. updateIdx[Other(p)] <= updateIdx[p]
    BY NotBehind
  <1>3. /\ About(p, Head(net[p])) \in Nat /\ updateIdx[p] \in Nat
        /\ updateIdx[Other(p)] \in Nat
    BY HeadCarried, MessageFields, OtherType, IdxType DEF ExchangeInv, RevealInv
  <1> QED
    BY <1>1, <1>2, <1>3

-----------------------------------------------------------------------------
(* The messages.                                                           *)

(* p adopts the next update with the secret it takes from its messages.    *)
MovesOn(p) ==
    /\ updateIdx'[p] = updateIdx[p] + 1
    /\ Takes(p) /\ Head(net[p]).type \in Disclosing
    /\ Head(net[p]).secret = updateIdx[p]
(* What p sends is about the update after its own.                         *)
Fits(p, m) ==
    /\ m.type \in Numbered =>
         About(Other(p), m) = updateIdx[p] + 1 /\ updateIdx[p] \notin revealed[p]
    /\ m.type \in Disclosing => m.secret \in revealed'[p]
    /\ m.type \in {"SettleFinalize", "RenewRevoke"} => m.secret < updateIdx'[p]

LEMMA TakenElements ==
    ASSUME TypeInv, NEW p \in Party, Takes(p)
    PROVE  /\ Len(net[p]) \in Nat /\ 1 \in 1 .. Len(net[p])
           /\ Head(net[p]) = net[p][1]
           /\ Len(net'[p]) = Len(net[p]) - 1
           /\ \A i \in 1 .. Len(net'[p]) :
                 i + 1 \in 1 .. Len(net[p]) /\ net'[p][i] = net[p][i + 1]
           /\ \A i \in 1 .. Len(net[p]) : net[p][i] \in Message
  <1>1. net[p] \in Seq(Message)
    BY DEF TypeInv, NetTyped
  <1>2. /\ Len(Tail(net[p])) = Len(net[p]) - 1 /\ Len(net[p]) \in Nat
        /\ \A i \in 1 .. Len(Tail(net[p])) : Tail(net[p])[i] = net[p][i + 1]
        /\ Head(net[p]) = net[p][1] /\ 1 \in 1 .. Len(net[p])
        /\ \A i \in 1 .. Len(net[p]) : net[p][i] \in Message
    BY <1>1, HeadTailProperties, LenProperties, EmptySeq, ElementOfSeq DEF Takes
  <1> QED
    BY <1>2 DEF Takes

LEMMA SaidElements ==
    ASSUME TypeInv, NEW p \in Party, NEW m, Says(p, m)
    PROVE  LET q == Other(p) IN
           /\ Len(net[q]) \in Nat /\ Len(net'[q]) = Len(net[q]) + 1
           /\ net'[q][Len(net[q]) + 1] = m
           /\ \A i \in 1 .. Len(net[q]) : net'[q][i] = net[q][i]
           /\ \A i \in 1 .. Len(net[q]) : net[q][i] \in Message
  <1> DEFINE q == Other(p)
  <1>1. net[q] \in Seq(Message) /\ m \in Message /\ net'[q] = Append(net[q], m)
    BY OtherType DEF TypeInv, NetTyped, Says
  <1>2. /\ Len(Append(net[q], m)) = Len(net[q]) + 1 /\ Len(net[q]) \in Nat
        /\ Append(net[q], m)[Len(net[q]) + 1] = m
        /\ \A i \in 1 .. Len(net[q]) : Append(net[q], m)[i] = net[q][i]
        /\ \A i \in 1 .. Len(net[q]) : net[q][i] \in Message
    BY <1>1, AppendProperties, LenProperties, ElementOfSeq
  <1> QED
    BY <1>1, <1>2

LEMMA QueueLater ==
    ASSUME NEW p \in Party,
           \A i \in 1 .. Len(net'[p]) : Carried(p, net'[p][i], updateIdx', revealed'),
           \A i, j \in 1 .. Len(net'[p]) : i < j => Precedes(p, net'[p][i], net'[p][j])
    PROVE  Queue(p)'
  BY DEF Queue, Carried, Precedes, About

LEMMA OwnQueue ==
    ASSUME ExchangeInv, TypeInv', NEW p \in Party,
           \A q \in Party \ {p} : /\ updateIdx'[q] = updateIdx[q]
                                  /\ revealed'[q] = revealed[q],
           updateIdx'[p] = updateIdx[p] \/ MovesOn(p),
           Leaves(p) \/ Takes(p)
    PROVE  Queue(p)'
  <1> DEFINE o == Other(p)
  <1>1. /\ TypeInv /\ o \in Party /\ o # p
        /\ updateIdx'[o] = updateIdx[o] /\ revealed'[o] = revealed[o]
    BY OtherType DEF ExchangeInv, RevealInv
  <1>2. CASE Takes(p)
    <2> DEFINE h == Head(net[p])
    <2>1. /\ Len(net[p]) \in Nat /\ 1 \in 1 .. Len(net[p]) /\ h = net[p][1]
          /\ Len(net'[p]) = Len(net[p]) - 1
          /\ \A i \in 1 .. Len(net'[p]) :
                i + 1 \in 1 .. Len(net[p]) /\ net'[p][i] = net[p][i + 1]
          /\ \A i \in 1 .. Len(net[p]) : net[p][i] \in Message
      BY <1>1, <1>2, TakenElements
    <2>2. ASSUME NEW i \in 1 .. Len(net'[p]) PROVE Carried(p, net'[p][i], updateIdx', revealed')
      <3> DEFINE m == net[p][i + 1]
      <3>1. /\ net'[p][i] = m /\ m \in Message /\ Carried(p, m, updateIdx, revealed)
            /\ Precedes(p, h, m)
        <4>1. i + 1 \in 1 .. Len(net[p]) /\ net'[p][i] = m /\ 1 < i + 1
          BY <2>1
        <4> QED
          BY <2>1, <4>1 DEF ExchangeInv, Queue
      <3>2. About(p, m) \in Nat /\ updateIdx[p] \in Nat
        BY <1>1, <3>1, MessageFields, IdxType
      <3> HIDE DEF m
      <3>3. m.type \in Numbered => updateIdx'[p] < About(p, m)
        <4>1. CASE updateIdx'[p] = updateIdx[p]
          BY <3>1, <4>1 DEF Carried
        <4>2. CASE MovesOn(p)
          <5>1. h.type \in Disclosing /\ h.type \in Numbered /\ h.type \notin Naming
            BY <4>2 DEF MovesOn, Numbered, Naming, Disclosing
          <5>2. About(p, h) = updateIdx[p] + 1
            BY <4>2, <5>1 DEF About, MovesOn
          <5> QED
            BY <3>1, <3>2, <4>2, <5>1, <5>2 DEF Precedes, MovesOn
        <4> QED
          BY <4>1, <4>2
      <3> QED
        BY <1>1, <3>1, <3>3 DEF Carried
    <2>3. ASSUME NEW i \in 1 .. Len(net'[p]), NEW j \in 1 .. Len(net'[p]), i < j
          PROVE  Precedes(p, net'[p][i], net'[p][j])
      <3>1. /\ i + 1 \in 1 .. Len(net[p]) /\ j + 1 \in 1 .. Len(net[p])
            /\ net'[p][i] = net[p][i + 1] /\ net'[p][j] = net[p][j + 1]
            /\ i + 1 < j + 1
        BY <2>1, <2>3
      <3>2. Precedes(p, net[p][i + 1], net[p][j + 1])
        BY <3>1 DEF ExchangeInv, Queue
      <3> QED
        BY <3>1, <3>2
    <2> QED
      BY <2>2, <2>3, QueueLater
  <1>3. CASE ~Takes(p)
    <2>1. net'[p] = net[p] /\ updateIdx'[p] = updateIdx[p]
      BY <1>3 DEF Leaves, MovesOn
    <2>2. Queue(p)
      BY DEF ExchangeInv
    <2>3. \A i \in 1 .. Len(net'[p]) : Carried(p, net'[p][i], updateIdx', revealed')
      BY <1>1, <2>1, <2>2 DEF Queue, Carried
    <2>4. \A i, j \in 1 .. Len(net'[p]) : i < j => Precedes(p, net'[p][i], net'[p][j])
      BY <2>1, <2>2 DEF Queue
    <2> QED
      BY <2>3, <2>4, QueueLater
  <1> QED
    BY <1>2, <1>3

LEMMA PeerQueue ==
    ASSUME ExchangeInv, TypeInv', NEW p \in Party,
           \A q \in Party \ {p} : /\ updateIdx'[q] = updateIdx[q]
                                  /\ revealed'[q] = revealed[q],
           revealed[p] \subseteq revealed'[p],
           updateIdx'[p] = updateIdx[p] \/ updateIdx'[p] = updateIdx[p] + 1,
           Silent(p) \/ \E m : Says(p, m) /\ Fits(p, m)
    PROVE  Queue(Other(p))'
  <1> DEFINE o == Other(p)
  <1>1. /\ TypeInv /\ o \in Party /\ o # p /\ Other(o) = p
        /\ updateIdx'[o] = updateIdx[o] /\ revealed'[o] = revealed[o]
    BY OtherType DEF ExchangeInv, RevealInv
  <1>2. updateIdx[p] \in Nat /\ updateIdx'[p] \in Nat /\ updateIdx[o] \in Nat
    BY <1>1, IdxType
  <1>3. Queue(o)
    BY <1>1 DEF ExchangeInv
  <1> HIDE DEF o
  <1>4. ASSUME NEW m \in Message, Carried(o, m, updateIdx, revealed)
        PROVE  Carried(o, m, updateIdx', revealed')
    <2>1. About(o, m) \in Nat /\ m.secret \in Nat
      BY <1>1, MessageFields
    <2> QED
      BY <1>1, <1>2, <1>4, <2>1 DEF Carried
  <1>5. CASE Silent(p)
    <2>1. net'[o] = net[o] /\ \A i \in 1 .. Len(net[o]) : net[o][i] \in Message
      BY <1>1, <1>5, ElementOfSeq DEF Silent, TypeInv, NetTyped, o
    <2>2. ASSUME NEW i \in 1 .. Len(net'[o])
          PROVE  Carried(o, net'[o][i], updateIdx', revealed')
      BY <1>3, <1>4, <2>1 DEF Queue
    <2>3. \A i, j \in 1 .. Len(net'[o]) : i < j => Precedes(o, net'[o][i], net'[o][j])
      BY <1>3, <2>1 DEF Queue
    <2> QED
      BY <1>1, <2>2, <2>3, QueueLater DEF o
  <1>6. ASSUME NEW m, Says(p, m), Fits(p, m) PROVE Queue(o)'
    <2> DEFINE n == Len(net[o])
    <2>1. /\ n \in Nat /\ Len(net'[o]) = n + 1 /\ net'[o][n + 1] = m
          /\ \A i \in 1 .. n : net'[o][i] = net[o][i]
          /\ \A i \in 1 .. n : net[o][i] \in Message
          /\ m \in Message
      BY <1>1, <1>6, SaidElements DEF o, Says
    <2>2. About(o, m) \in Nat
      BY <1>1, <2>1, MessageFields
    <2>3. /\ m.type \in Numbered =>
                About(o, m) = updateIdx[p] + 1 /\ updateIdx[p] \notin revealed[p]
          /\ m.type \in Disclosing => m.secret \in revealed'[p]
          /\ m.type \in {"SettleFinalize", "RenewRevoke"} => m.secret < updateIdx'[p]
      BY <1>6 DEF Fits, o
    <2>4. Carried(o, m, updateIdx', revealed')
      <3>1. m.type \in Numbered => updateIdx[o] <= updateIdx[p]
        BY <2>3, NotBehind DEF o
      <3> QED
        BY <1>1, <1>2, <2>2, <2>3, <3>1 DEF Carried
    <2>5. ASSUME NEW i \in 1 .. n PROVE Precedes(o, net[o][i], m)
      <3> DEFINE a == net[o][i]
      <3>1. a \in Message /\ Carried(o, a, updateIdx, revealed)
        BY <1>3, <2>1 DEF Queue
      <3>2. About(o, a) \in Nat /\ a.secret \in Nat
        BY <1>1, <3>1, MessageFields
      <3> HIDE DEF a
      <3>3. a.type \in Disclosing => About(o, a) = a.secret + 1
        BY DEF About, Naming, Disclosing
      <3> QED
        BY <1>1, <1>2, <2>3, <3>1, <3>2, <3>3 DEF Precedes, Carried, a
    <2>6. ASSUME NEW i \in 1 .. n + 1 PROVE Carried(o, net'[o][i], updateIdx', revealed')
      <3>1. CASE i = n + 1
        BY <2>1, <2>4, <3>1
      <3>2. CASE i \in 1 .. n
        <4>1. /\ net'[o][i] = net[o][i] /\ net[o][i] \in Message
              /\ Carried(o, net[o][i], updateIdx, revealed)
          BY <1>3, <2>1, <3>2 DEF Queue
        <4> QED
          BY <1>4, <4>1
      <3> QED
        BY <2>1, <3>1, <3>2
    <2>7. ASSUME NEW i \in 1 .. n + 1, NEW j \in 1 .. n + 1, i < j
          PROVE  Precedes(o, net'[o][i], net'[o][j])
      <3>1. i \in 1 .. n /\ net'[o][i] = net[o][i]
        BY <2>1, <2>7
      <3>2. CASE j = n + 1
        BY <2>1, <2>5, <3>1, <3>2
      <3>3. CASE j \in 1 .. n
        BY <1>3, <2>1, <2>7, <3>1, <3>3 DEF Queue
      <3> QED
        BY <2>1, <3>2, <3>3
    <2> QED
      BY <1>1, <2>1, <2>6, <2>7, QueueLater
  <1> QED
    BY <1>5, <1>6 DEF o

-----------------------------------------------------------------------------
(* A step of p: what has to be shown of p alone.                           *)

LEMMA PartyExchange ==
    ASSUME ExchangeInv, RevealInv', NEW p \in Party, Untouched(p),
           Place(p)', Queue(p)', Queue(Other(p))',
           revealed[p] \subseteq revealed'[p],
           secrets'[p] \subseteq revealed[Other(p)]
    PROVE  ExchangeInv'
  <1> DEFINE o == Other(p)
  <1>1. o \in Party /\ o # p /\ Other(o) = p /\ \A q \in Party : q = p \/ q = o
    BY OtherType DEF Party, Other
  <1>2. /\ state'[o] = state[o] /\ updateIdx'[o] = updateIdx[o]
        /\ points'[o] = points[o] /\ secrets'[o] = secrets[o]
        /\ revealed'[o] = revealed[o]
    BY <1>1 DEF Untouched
  <1>3. Place(o)'
    <2>1. Place(o)
      BY <1>1 DEF ExchangeInv
    <2> QED
      BY <1>2, <2>1 DEF Place, GivenUp, Pointed
  <1>4. secrets'[p] \subseteq revealed'[o] /\ secrets'[o] \subseteq revealed'[p]
    BY <1>1, <1>2 DEF ExchangeInv
  <1>5. ASSUME NEW q \in Party
        PROVE  Place(q)' /\ Queue(q)' /\ (secrets[q] \subseteq revealed[Other(q)])'
    <2>1. CASE q = p
      BY <1>4, <2>1
    <2>2. CASE q = o
      BY <1>1, <1>3, <1>4, <2>2
    <2> QED
      BY <1>1, <2>1, <2>2
  <1> QED
    BY <1>5 DEF ExchangeInv

(* p stays in its update.                                                  *)
LEMMA StayingStep ==
    ASSUME ExchangeInv, RevealInv', NEW p \in Party, Untouched(p),
           updateIdx'[p] = updateIdx[p], secrets'[p] = secrets[p],
           revealed[p] \subseteq revealed'[p],
           Leaves(p) \/ Takes(p),
           Silent(p) \/ \E m : Says(p, m) /\ Fits(p, m),
           GivenUp(p)', Pointed(p)'
    PROVE  ExchangeInv'
  <1>1. \A q \in Party \ {p} : updateIdx'[q] = updateIdx[q] /\ revealed'[q] = revealed[q]
    BY DEF Untouched
  <1>2. TypeInv'
    BY DEF RevealInv
  <1>3. Queue(p)' /\ Queue(Other(p))'
    BY <1>1, <1>2, OwnQueue, PeerQueue
  <1>4. Place(p)' /\ secrets'[p] \subseteq revealed[Other(p)]
    BY DEF ExchangeInv, Place
  <1> QED
    BY <1>3, <1>4, PartyExchange

(* p adopts the next update.                                               *)
LEMMA MovingStep ==
    ASSUME ExchangeInv, RevealInv', NEW p \in Party, Untouched(p), MovesOn(p),
           secrets'[p] = secrets[p] \cup {updateIdx[p]},
           revealed[p] \subseteq revealed'[p],
           Silent(p) \/ \E m : Says(p, m) /\ Fits(p, m),
           \A n \in revealed'[p] : n <= updateIdx[p],
           state'[p].name \in StableStates, points'[p] = Both(updateIdx[p] + 1)
    PROVE  ExchangeInv'
  <1>1. \A q \in Party \ {p} : updateIdx'[q] = updateIdx[q] /\ revealed'[q] = revealed[q]
    BY DEF Untouched
  <1>2. TypeInv' /\ TypeInv
    BY DEF RevealInv, ExchangeInv
  <1>3. updateIdx'[p] = updateIdx[p] + 1 /\ updateIdx[p] \in Update
    BY <1>2, IdxType DEF MovesOn
  <1>4. Queue(p)' /\ Queue(Other(p))'
    BY <1>1, <1>2, <1>3, OwnQueue, PeerQueue DEF MovesOn
  <1>5. secrets'[p] = {n \in Update : n < updateIdx'[p]}
    <2>1. secrets[p] = {n \in Update : n < updateIdx[p]}
      BY DEF ExchangeInv, Place
    <2>2. updateIdx[p] \in Nat /\ \A n \in Update : n \in Nat
      BY <1>3, UpdateType
    <2>3. \A n \in Update : n < updateIdx[p] + 1 <=> n < updateIdx[p] \/ n = updateIdx[p]
      BY <2>2
    <2> QED
      BY <1>3, <2>1, <2>3
  <1>6. secrets'[p] \subseteq revealed[Other(p)]
    <2>1. updateIdx[p] \in revealed[Other(p)]
      BY HeadCarried DEF MovesOn, Takes, Carried
    <2> QED
      BY <2>1 DEF ExchangeInv
  <1>7. GivenUp(p)'
    <2>1. \A n \in revealed'[p] : n <= updateIdx'[p] /\ n # updateIdx'[p]
      <3>1. revealed'[p] \subseteq Update
        BY <1>2 DEF TypeInv, RestTyped
      <3>2. updateIdx[p] \in Nat /\ \A n \in revealed'[p] : n \in Nat
        BY <1>3, <3>1, UpdateType
      <3> QED
        BY <1>3, <3>2
    <2> QED
      BY <2>1 DEF GivenUp, StableStates, Waiting
  <1>8. Pointed(p)'
    BY <1>3 DEF Pointed, StableStates, Updating
  <1>9. Place(p)'
    BY <1>5, <1>7, <1>8 DEF Place
  <1> QED
    BY <1>4, <1>6, <1>9, PartyExchange

-----------------------------------------------------------------------------
(* The kinds of step.                                                      *)

(* A party adopts an update on receipt of the secret of the one before.    *)
LEMMA AdoptsWithSecret ==
    ASSUME ExchangeInv, NEW p \in Party,
           FinalizesSettle(p) \/ EndsSettle(p) \/ RevokesRenew(p) \/ EndsRenew(p)
    PROVE  MovesOn(p)
  <1>1. CASE FinalizesSettle(p) \/ EndsSettle(p) \/ RevokesRenew(p)
    <2>1. /\ state[p].name \in {"SettledAccepted", "SettledConfirmed", "RenewConfirmed"}
          /\ updateIdx'[p] = updateIdx[p] + 1 /\ Takes(p)
          /\ Head(net[p]).type \in Disclosing
          /\ Head(net[p]).secret = points[p][Other(p)]
      BY <1>1 DEF FinalizesSettle, EndsSettle, RevokesRenew, AdoptsSettle, Disclosing
    <2>2. points[p] = Both(updateIdx[p])
      BY <2>1 DEF ExchangeInv, Place, Pointed, Updating
    <2> QED
      BY <2>1, <2>2, BothPoints DEF MovesOn
  <1>2. CASE EndsRenew(p)
    <2>1. /\ state[p].name = "RenewFinalized" /\ Head(net[p]).secret = state[p].prev
          /\ updateIdx'[p] = updateIdx[p] + 1 /\ Takes(p)
          /\ Head(net[p]).type \in Disclosing
      BY <1>2 DEF EndsRenew, Disclosing
    <2>2. state[p].prev = updateIdx[p]
      BY <2>1 DEF ExchangeInv, Place, Pointed
    <2> QED
      BY <2>1, <2>2 DEF MovesOn
  <1> QED
    BY <1>1, <1>2

LEMMA SaysPlainFits ==
    ASSUME NEW p \in Party, SaysPlain(p)
    PROVE  \E m : Says(p, m) /\ Fits(p, m)
  BY DEF SaysPlain, Fits, Numbered, Naming, Disclosing

(* The secret of the update is not given up, and the names below are those *)
(* of states in which it need not be.                                      *)
LEMMA GivenUpKept ==
    ASSUME ExchangeInv, NEW p \in Party, updateIdx'[p] = updateIdx[p],
           revealed'[p] = revealed[p], updateIdx[p] \notin revealed[p],
           state'[p].name \notin Waiting
    PROVE  GivenUp(p)'
  BY DEF ExchangeInv, Place, GivenUp

LEMMA GivenUpNow ==
    ASSUME ExchangeInv, NEW p \in Party, updateIdx'[p] = updateIdx[p],
           revealed'[p] = revealed[p] \cup {updateIdx[p]},
           state'[p].name \in Waiting
    PROVE  GivenUp(p)'
  <1>1. updateIdx[p] \in Nat
    BY IdxType DEF ExchangeInv, RevealInv
  <1> QED
    BY <1>1 DEF ExchangeInv, Place, GivenUp

LEMMA OffersExchange ==
    ASSUME ExchangeInv, RevealInv', NEW p \in Party, Offers(p)
    PROVE  ExchangeInv'
  <1>1. /\ Untouched(p) /\ KeepsPlace(p) /\ KeepsHistory(p) /\ Leaves(p)
        /\ state[p].name \in StableStates
        /\ \/ state'[p].name = "SettledOffered"
           \/ state'[p].name = "RenewOffered" /\ state'[p].isOffer
    BY DEF Offers
  <1>2. updateIdx[p] \notin revealed[p]
    BY <1>1, NotGiven DEF StableStates, Frozen, Waiting
  <1>3. GivenUp(p)'
    BY <1>1, <1>2, GivenUpKept DEF KeepsPlace, KeepsHistory, Waiting
  <1>4. Pointed(p)'
    <2>1. points[p] = Both(updateIdx[p])
      BY <1>1 DEF ExchangeInv, Place, Pointed, StableStates, Updating
    <2> QED
      BY <1>1, <2>1 DEF Pointed, KeepsPlace
  <1>5. \E m : Says(p, m) /\ Fits(p, m)
    BY <1>2 DEF Offers, Fits, Numbered, Naming, Disclosing, About
  <1> QED
    BY <1>1, <1>3, <1>4, <1>5, StayingStep DEF KeepsPlace, KeepsHistory

LEMMA IsOfferedExchange ==
    ASSUME ExchangeInv, RevealInv', NEW p \in Party, IsOffered(p)
    PROVE  ExchangeInv'
  <1>1. /\ Untouched(p) /\ KeepsPlace(p) /\ KeepsHistory(p) /\ Takes(p)
        /\ Silent(p) /\ state[p].name \in StableStates
        /\ \/ state'[p].name = "SettledReceived"
           \/ state'[p].name = "RenewOffered" /\ ~state'[p].isOffer
        /\ state'[p].next[Other(p)] = Head(net[p]).next
        /\ Head(net[p]).type \in {"SettleOffer", "RenewOffer"}
    BY DEF IsOffered
  <1>2. updateIdx[p] \notin revealed[p]
    BY <1>1, NotGiven DEF StableStates, Frozen, Waiting
  <1>3. GivenUp(p)'
    BY <1>1, <1>2, GivenUpKept DEF KeepsPlace, KeepsHistory, Waiting
  <1>4. Head(net[p]).next = updateIdx[p] + 1
    <2>1. About(p, Head(net[p])) = updateIdx[p] + 1
      BY <1>1, <1>2, HeadAbout DEF Takes, Numbered, Naming
    <2> QED
      BY <1>1, <2>1 DEF About, Naming
  <1>5. Pointed(p)'
    <2>1. points[p] = Both(updateIdx[p])
      BY <1>1 DEF ExchangeInv, Place, Pointed, StableStates, Updating
    <2> QED
      BY <1>1, <1>4, <2>1 DEF Pointed, KeepsPlace
  <1> QED
    BY <1>1, <1>3, <1>5, StayingStep DEF KeepsPlace, KeepsHistory

LEMMA AcceptsUpdateExchange ==
    ASSUME ExchangeInv, RevealInv', NEW p \in Party, AcceptsUpdate(p)
    PROVE  ExchangeInv'
  <1>1. /\ Untouched(p) /\ KeepsPlace(p) /\ KeepsHistory(p) /\ Leaves(p)
        /\ state'[p].next = Points(p, updateIdx[p] + 1, state[p].next[Other(p)])
        /\ state'[p].tx.point = state'[p].next
    BY DEF AcceptsUpdate
  <1>2. PICK m : /\ Says(p, m) /\ m.next = updateIdx[p] + 1
                 /\ m.type \in {"SettleAccept", "RenewAccept"}
                 /\ state'[p].name \in {"SettledAccepted", "RenewAccepted"}
                 /\ \/ state[p].name = "SettledReceived"
                    \/ state[p].name = "RenewOffered" /\ ~state[p].isOffer
    BY DEF AcceptsUpdate
  <1>3. updateIdx[p] \notin revealed[p]
    BY <1>2, NotGiven DEF Frozen, Waiting
  <1>4. GivenUp(p)'
    BY <1>1, <1>2, <1>3, GivenUpKept DEF KeepsPlace, KeepsHistory, Waiting
  <1>5. Pointed(p)'
    <2>1. points[p] = Both(updateIdx[p]) /\ state[p].next[Other(p)] = updateIdx[p] + 1
      BY <1>2 DEF ExchangeInv, Place, Pointed, Updating
    <2>2. state'[p].next = Both(updateIdx[p] + 1)
      BY <1>1, <2>1, BothPoints
    <2> QED
      BY <1>1, <1>2, <2>1, <2>2 DEF Pointed, KeepsPlace
  <1>6. Fits(p, m)
    BY <1>2, <1>3 DEF Fits, Numbered, Naming, Disclosing, About
  <1> QED
    BY <1>1, <1>2, <1>4, <1>5, <1>6, StayingStep DEF KeepsPlace, KeepsHistory

LEMMA RevertsExchange ==
    ASSUME ExchangeInv, RevealInv', NEW p \in Party, Reverts(p)
    PROVE  ExchangeInv'
  <1>1. /\ Untouched(p) /\ KeepsPlace(p) /\ KeepsHistory(p)
        /\ state[p].name \in Revertible /\ state'[p] = rollback[p]
        /\ Leaves(p) \/ Takes(p)
        /\ Silent(p) \/ SaysPlain(p)
    BY DEF Reverts
  <1>2. state'[p].name \in StableStates
    BY <1>1 DEF ExchangeInv, RevealInv, TypeInv, PendingIdx
  <1>3. updateIdx[p] \notin revealed[p]
    BY <1>1, NotGiven DEF Revertible, Frozen, Waiting
  <1>4. GivenUp(p)'
    BY <1>1, <1>2, <1>3, GivenUpKept DEF KeepsPlace, KeepsHistory, Waiting, StableStates
  <1>5. Pointed(p)'
    <2>1. points[p] = Both(updateIdx[p])
      BY <1>1 DEF ExchangeInv, Place, Pointed, Revertible, Updating
    <2> QED
      BY <1>1, <1>2, <2>1 DEF Pointed, KeepsPlace, StableStates
  <1> QED
    BY <1>1, <1>4, <1>5, SaysPlainFits, StayingStep DEF KeepsPlace, KeepsHistory

LEMMA ConfirmsSettleExchange ==
    ASSUME ExchangeInv, RevealInv', NEW p \in Party, ConfirmsSettle(p)
    PROVE  ExchangeInv'
  <1>1. /\ Untouched(p) /\ KeepsPlace(p) /\ Takes(p)
        /\ state[p].name = "SettledOffered" /\ state'[p].name = "SettledConfirmed"
        /\ state'[p].next = Points(p, state[p].next[p], Head(net[p]).next)
        /\ state'[p].tx.point = state'[p].next
        /\ revealed'[p] = revealed[p] \cup {updateIdx[p]}
        /\ Head(net[p]).type = "SettleAccept"
    BY DEF ConfirmsSettle
  <1>2. PICK r : /\ Says(p, r) /\ r.type = "SettleConfirm" /\ r.secret = updateIdx[p]
    BY DEF ConfirmsSettle
  <1>3. updateIdx[p] \notin revealed[p]
    BY <1>1, NotGiven DEF Frozen, Waiting
  <1>4. GivenUp(p)'
    BY <1>1, GivenUpNow DEF KeepsPlace, Waiting
  <1>5. Head(net[p]).next = updateIdx[p] + 1
    <2>1. About(p, Head(net[p])) = updateIdx[p] + 1
      BY <1>1, <1>3, HeadAbout DEF Takes, Numbered, Naming
    <2> QED
      BY <1>1, <2>1 DEF About, Naming
  <1>6. Pointed(p)'
    <2>1. points[p] = Both(updateIdx[p]) /\ state[p].next[p] = updateIdx[p] + 1
      BY <1>1 DEF ExchangeInv, Place, Pointed, Updating, RevealInv, PendingPoints
    <2>2. state'[p].next = Both(updateIdx[p] + 1)
      BY <1>1, <1>5, <2>1, BothPoints
    <2> QED
      BY <1>1, <2>1, <2>2 DEF Pointed, KeepsPlace
  <1>7. Fits(p, r)
    BY <1>1, <1>2, <1>3 DEF Fits, Numbered, Naming, Disclosing, About
  <1> QED
    BY <1>1, <1>2, <1>4, <1>6, <1>7, StayingStep DEF KeepsPlace

LEMMA FinalizesSettleExchange ==
    ASSUME ExchangeInv, RevealInv', NEW p \in Party, FinalizesSettle(p)
    PROVE  ExchangeInv'
  <1>1. /\ Untouched(p) /\ Takes(p)
        /\ state[p].name = "SettledAccepted" /\ state'[p].name = "Settled"
        /\ updateIdx'[p] = updateIdx[p] + 1 /\ points'[p] = state[p].next
        /\ secrets'[p] = secrets[p] \cup {updateIdx[p]}
        /\ revealed'[p] = revealed[p] \cup {updateIdx[p]}
        /\ Head(net[p]).type = "SettleConfirm"
        /\ Head(net[p]).secret = points[p][Other(p)]
    BY DEF FinalizesSettle, AdoptsSettle
  <1>2. PICK r : /\ Says(p, r) /\ r.type = "SettleFinalize" /\ r.secret = updateIdx[p]
    BY DEF FinalizesSettle
  <1>3. updateIdx[p] \notin revealed[p] /\ updateIdx[p] \in Nat
    BY <1>1, NotGiven, IdxType DEF Frozen, Waiting, ExchangeInv, RevealInv
  <1>4. points[p] = Both(updateIdx[p]) /\ state[p].next = Both(updateIdx[p] + 1)
    BY <1>1 DEF ExchangeInv, Place, Pointed, Updating
  <1>5. MovesOn(p)
    BY AdoptsWithSecret
  <1>6. \A n \in revealed'[p] : n <= updateIdx[p]
    BY <1>1, <1>3 DEF ExchangeInv, Place, GivenUp
  <1>7. Fits(p, r)
    BY <1>1, <1>2, <1>3 DEF Fits, Numbered, Naming, Disclosing, About
  <1> QED
    BY <1>1, <1>2, <1>4, <1>5, <1>6, <1>7, MovingStep DEF StableStates

LEMMA EndsSettleExchange ==
    ASSUME ExchangeInv, RevealInv', NEW p \in Party, EndsSettle(p)
    PROVE  ExchangeInv'
  <1>1. /\ Untouched(p) /\ Takes(p) /\ Silent(p)
        /\ state[p].name = "SettledConfirmed" /\ state'[p].name = "Settled"
        /\ updateIdx'[p] = updateIdx[p] + 1 /\ points'[p] = state[p].next
        /\ secrets'[p] = secrets[p] \cup {updateIdx[p]}
        /\ revealed'[p] = revealed[p]
        /\ Head(net[p]).type = "SettleFinalize"
        /\ Head(net[p]).secret = points[p][Other(p)]
    BY DEF EndsSettle, AdoptsSettle, KeepsHistory
  <1>2. points[p] = Both(updateIdx[p]) /\ state[p].next = Both(updateIdx[p] + 1)
    BY <1>1 DEF ExchangeInv, Place, Pointed, Updating
  <1>3. MovesOn(p)
    BY AdoptsWithSecret
  <1>4. \A n \in revealed'[p] : n <= updateIdx[p]
    BY <1>1 DEF ExchangeInv, Place, GivenUp
  <1> QED
    BY <1>1, <1>2, <1>3, <1>4, MovingStep DEF StableStates

LEMMA ConfirmsRenewExchange ==
    ASSUME ExchangeInv, RevealInv', NEW p \in Party, ConfirmsRenew(p)
    PROVE  ExchangeInv'
  <1>1. /\ Untouched(p) /\ KeepsPlace(p) /\ KeepsHistory(p) /\ Takes(p)
        /\ state[p].name = "RenewOffered" /\ state'[p].name = "RenewConfirmed"
        /\ state'[p].next = Points(p, state[p].next[p], Head(net[p]).next)
        /\ state'[p].tx.point = state'[p].next
        /\ Head(net[p]).type = "RenewAccept" /\ Head(net[p]).sig = state'[p].tx
    BY DEF ConfirmsRenew
  <1>2. PICK r : /\ Says(p, r) /\ r.type = "RenewConfirm" /\ r.sig = state'[p].tx
    BY DEF ConfirmsRenew
  <1>3. updateIdx[p] \notin revealed[p]
    BY <1>1, NotGiven DEF Frozen, Waiting
  <1>4. GivenUp(p)'
    BY <1>1, <1>3, GivenUpKept DEF KeepsPlace, KeepsHistory, Waiting
  <1>5. Head(net[p]).next = updateIdx[p] + 1
    <2>1. About(p, Head(net[p])) = updateIdx[p] + 1
      BY <1>1, <1>3, HeadAbout DEF Takes, Numbered, Naming
    <2> QED
      BY <1>1, <2>1 DEF About, Naming
  <1>6. state[p].next[p] = updateIdx[p] + 1
    <2>1. Head(net[p]).sig.point[p] > 0
      BY <1>1, HeadSound DEF MessageSound, Takes, ExchangeInv, RevealInv
    <2>2. state[p].next[p] > 0
      BY <1>1, <2>1, PointsFields
    <2>3. state[p].isOffer \in BOOLEAN
      BY StateFields DEF ExchangeInv, RevealInv, TypeInv, StateTyped
    <2> QED
      BY <1>1, <2>2, <2>3 DEF ExchangeInv, RevealInv, PendingPoints
  <1>7. state'[p].next = Both(updateIdx[p] + 1)
    BY <1>1, <1>5, <1>6, BothPoints
  <1>8. Pointed(p)'
    <2>1. points[p] = Both(updateIdx[p])
      BY <1>1 DEF ExchangeInv, Place, Pointed, Updating
    <2> QED
      BY <1>1, <1>7, <2>1 DEF Pointed, KeepsPlace
  <1>9. Fits(p, r)
    <2>1. About(Other(p), r) = updateIdx[p] + 1
      <3>1. r.sig.point[p] = updateIdx[p] + 1
        BY <1>1, <1>2, <1>7, BothPoints
      <3> QED
        BY <1>2, <3>1, OtherType DEF About, Naming, Disclosing
    <2> QED
      BY <1>2, <1>3, <2>1 DEF Fits, Disclosing
  <1> QED
    BY <1>1, <1>2, <1>4, <1>8, <1>9, StayingStep DEF KeepsPlace, KeepsHistory

LEMMA FinalizesRenewExchange ==
    ASSUME ExchangeInv, RevealInv', NEW p \in Party, FinalizesRenew(p)
    PROVE  ExchangeInv'
  <1>1. /\ Untouched(p) /\ Takes(p)
        /\ updateIdx'[p] = updateIdx[p] /\ secrets'[p] = secrets[p]
        /\ state[p].name = "RenewAccepted" /\ state'[p].name = "RenewFinalized"
        /\ state'[p].tx = state[p].tx /\ state'[p].prev = points[p][Other(p)]
        /\ points'[p] = state[p].next
        /\ revealed'[p] = revealed[p] \cup {updateIdx[p]}
    BY DEF FinalizesRenew
  <1>2. PICK r : /\ Says(p, r) /\ r.type = "RenewFinalize" /\ r.secret = updateIdx[p]
    BY DEF FinalizesRenew
  <1>3. updateIdx[p] \notin revealed[p]
    BY <1>1, NotGiven DEF Frozen, Waiting
  <1>4. GivenUp(p)'
    BY <1>1, GivenUpNow DEF Waiting
  <1>5. Pointed(p)'
    <2>1. /\ points[p] = Both(updateIdx[p]) /\ state[p].next = Both(updateIdx[p] + 1)
          /\ state[p].tx.point = Both(updateIdx[p] + 1)
      BY <1>1 DEF ExchangeInv, Place, Pointed, Updating
    <2>2. state'[p].prev = updateIdx[p]
      BY <1>1, <2>1, BothPoints
    <2> QED
      BY <1>1, <2>1, <2>2 DEF Pointed
  <1>6. Fits(p, r)
    BY <1>1, <1>2, <1>3 DEF Fits, Numbered, Naming, Disclosing, About
  <1> QED
    BY <1>1, <1>2, <1>4, <1>5, <1>6, StayingStep

LEMMA RevokesRenewExchange ==
    ASSUME ExchangeInv, RevealInv', NEW p \in Party, RevokesRenew(p)
    PROVE  ExchangeInv'
  <1>1. /\ Untouched(p) /\ Takes(p)
        /\ state[p].name = "RenewConfirmed" /\ state'[p].name = "Established"
        /\ updateIdx'[p] = updateIdx[p] + 1 /\ points'[p] = state[p].next
        /\ secrets'[p] = secrets[p] \cup {updateIdx[p]}
        /\ revealed'[p] = revealed[p] \cup {updateIdx[p]}
        /\ Head(net[p]).type = "RenewFinalize"
        /\ Head(net[p]).secret = points[p][Other(p)]
    BY DEF RevokesRenew
  <1>2. PICK r : /\ Says(p, r) /\ r.type = "RenewRevoke" /\ r.secret = updateIdx[p]
    BY DEF RevokesRenew
  <1>3. updateIdx[p] \notin revealed[p] /\ updateIdx[p] \in Nat
    BY <1>1, NotGiven, IdxType DEF Frozen, Waiting, ExchangeInv, RevealInv
  <1>4. points[p] = Both(updateIdx[p]) /\ state[p].next = Both(updateIdx[p] + 1)
    BY <1>1 DEF ExchangeInv, Place, Pointed, Updating
  <1>5. MovesOn(p)
    BY AdoptsWithSecret
  <1>6. \A n \in revealed'[p] : n <= updateIdx[p]
    BY <1>1, <1>3 DEF ExchangeInv, Place, GivenUp
  <1>7. Fits(p, r)
    BY <1>1, <1>2, <1>3 DEF Fits, Numbered, Naming, Disclosing, About
  <1> QED
    BY <1>1, <1>2, <1>4, <1>5, <1>6, <1>7, MovingStep DEF StableStates

LEMMA EndsRenewExchange ==
    ASSUME ExchangeInv, RevealInv', NEW p \in Party, EndsRenew(p)
    PROVE  ExchangeInv'
  <1>1. /\ Untouched(p) /\ Takes(p) /\ Silent(p)
        /\ state[p].name = "RenewFinalized" /\ state'[p].name = "Established"
        /\ updateIdx'[p] = updateIdx[p] + 1 /\ points'[p] = points[p]
        /\ secrets'[p] = secrets[p] \cup {updateIdx[p]}
        /\ revealed'[p] = revealed[p]
        /\ Head(net[p]).type = "RenewRevoke"
        /\ Head(net[p]).secret = state[p].prev
    BY DEF EndsRenew, KeepsHistory
  <1>2. points[p] = Both(updateIdx[p] + 1) /\ state[p].prev = updateIdx[p]
    BY <1>1 DEF ExchangeInv, Place, Pointed
  <1>3. MovesOn(p)
    BY AdoptsWithSecret
  <1>4. \A n \in revealed'[p] : n <= updateIdx[p]
    BY <1>1 DEF ExchangeInv, Place, GivenUp
  <1> QED
    BY <1>1, <1>2, <1>3, <1>4, MovingStep DEF StableStates

LEMMA FreezesExchange ==
    ASSUME ExchangeInv, RevealInv', NEW p \in Party, Freezes(p)
    PROVE  ExchangeInv'
  <1>1. /\ Untouched(p) /\ KeepsPlace(p) /\ KeepsHistory(p)
        /\ state'[p].name \in Frozen
        /\ Leaves(p) \/ Takes(p)
        /\ Silent(p) \/ SaysPlain(p)
    BY DEF Freezes
  <1>2. GivenUp(p)'
    BY <1>1 DEF ExchangeInv, Place, GivenUp, KeepsPlace, KeepsHistory, Frozen, Waiting
  <1>3. Pointed(p)'
    BY <1>1 DEF Pointed, Frozen, Updating
  <1> QED
    BY <1>1, <1>2, <1>3, SaysPlainFits, StayingStep DEF KeepsPlace, KeepsHistory

LEMMA IdlesExchange ==
    ASSUME ExchangeInv, RevealInv', NEW p \in Party, Idles(p)
    PROVE  ExchangeInv'
  <1>1. /\ Untouched(p) /\ KeepsPlace(p) /\ KeepsHistory(p)
        /\ state'[p] = state[p]
        /\ Leaves(p) \/ Takes(p)
        /\ Silent(p) \/ SaysPlain(p)
    BY DEF Idles
  <1>2. GivenUp(p)' /\ Pointed(p)'
    BY <1>1 DEF ExchangeInv, Place, GivenUp, Pointed, KeepsPlace, KeepsHistory
  <1> QED
    BY <1>1, <1>2, SaysPlainFits, StayingStep DEF KeepsPlace, KeepsHistory

-----------------------------------------------------------------------------
(* The invariant.                                                          *)

LEMMA InitExchange == Init => ExchangeInv
  <1> SUFFICES ASSUME Init PROVE ExchangeInv
    OBVIOUS
  <1>1. RevealInv
    BY InitReveal
  <1>2. ASSUME NEW p \in Party
        PROVE  /\ state[p].name = "Established" /\ updateIdx[p] = 0
               /\ points[p] = Both(0) /\ secrets[p] = {} /\ revealed[p] = {}
               /\ net[p] = <<>>
    BY DEF Init, Variant, WithOffer, Both, NoPoints
  <1>3. ASSUME NEW p \in Party PROVE Place(p)
    <2>1. {n \in Update : n < 0} = {}
      BY DEF Update
    <2> QED
      BY <1>2, <2>1 DEF Place, GivenUp, Pointed, Waiting
  <1>4. ASSUME NEW p \in Party PROVE Queue(p)
    BY <1>2 DEF Queue
  <1>5. ASSUME NEW p \in Party PROVE secrets[p] \subseteq revealed[Other(p)]
    BY <1>2
  <1> QED
    BY <1>1, <1>3, <1>4, <1>5 DEF ExchangeInv

LEMMA NextExchange == ExchangeInv /\ [Next]_vars => ExchangeInv'
  <1> SUFFICES ASSUME ExchangeInv, [Next]_vars PROVE ExchangeInv'
    OBVIOUS
  <1>1. RevealInv' /\ TypeInv
    BY NextReveal DEF ExchangeInv, RevealInv
  <1>2. PICK p \in Party : StepOf(p)
    BY <1>1, NextStep
  <1> QED
    BY <1>1, <1>2, OffersExchange, IsOfferedExchange, AcceptsUpdateExchange,
       RevertsExchange, ConfirmsSettleExchange, FinalizesSettleExchange,
       EndsSettleExchange, ConfirmsRenewExchange, FinalizesRenewExchange,
       RevokesRenewExchange, EndsRenewExchange, FreezesExchange, IdlesExchange
       DEF StepOf, UpdateStep

(* Whatever messages are lost and whoever restarts, closes or cheats, a    *)
(* party in update n has stored the counter party's secrets of exactly the *)
(* updates before n (settle_channel_finalize, settle_channel_on_finalize,  *)
(* renew_channel_on_finalize, renew_channel_on_revoke), and the counter    *)
(* party has given up each of them.                                        *)
THEOREM SecretsSafe == Spec => []SecretsComplete
  <1>1. ExchangeInv => SecretsComplete
    BY DEF ExchangeInv, Place, SecretsComplete
  <1> QED
    BY <1>1, InitExchange, NextExchange, PTL DEF Spec

-----------------------------------------------------------------------------
(* The abstract specification.                                             *)

LEMMA FunctionsKept ==
    ASSUME TypeInv, TypeInv', NEW p \in Party, Untouched(p)
    PROVE  /\ updateIdx'[p] = updateIdx[p] => updateIdx' = updateIdx
           /\ updateIdx'[p] = updateIdx[p] + 1 =>
                updateIdx' = [updateIdx EXCEPT ![p] = @ + 1]
           /\ revealed'[p] = revealed[p] => revealed' = revealed
           /\ revealed'[p] = revealed[p] \cup {updateIdx[p]} =>
                revealed' = [revealed EXCEPT ![p] = @ \cup {updateIdx[p]}]
  BY DEF TypeInv, RestTyped, Untouched

LEMMA StepExchanges ==
    ASSUME ExchangeInv, ExchangeInv', NEW p \in Party, StepOf(p)
    PROVE  [Exchange!Next]_<<updateIdx, revealed>>
  <1>1. TypeInv /\ TypeInv'
    BY DEF ExchangeInv, RevealInv
  <1>2. Exchange!Party = Party /\ Exchange!Other(p) = Other(p)
    BY DEF Exchange!Party, Exchange!Other, Party, Other
  <1>3. CASE Offers(p) \/ IsOffered(p) \/ AcceptsUpdate(p) \/ Reverts(p)
             \/ ConfirmsRenew(p) \/ Freezes(p) \/ Idles(p)
    <2>1. Untouched(p) /\ updateIdx'[p] = updateIdx[p] /\ revealed'[p] = revealed[p]
      BY <1>3 DEF Offers, IsOffered, AcceptsUpdate, Reverts, ConfirmsRenew,
                  Freezes, Idles, KeepsPlace, KeepsHistory
    <2> QED
      BY <1>1, <2>1, FunctionsKept
  <1>4. CASE ConfirmsSettle(p) \/ FinalizesRenew(p)
    <2>1. /\ Untouched(p) /\ updateIdx'[p] = updateIdx[p]
          /\ revealed'[p] = revealed[p] \cup {updateIdx[p]}
      BY <1>4 DEF ConfirmsSettle, FinalizesRenew, KeepsPlace
    <2>2. Exchange!Give(p) /\ UNCHANGED updateIdx
      BY <1>1, <2>1, FunctionsKept DEF Exchange!Give
    <2> QED
      BY <1>2, <2>2 DEF Exchange!Next
  <1>5. CASE FinalizesSettle(p) \/ EndsSettle(p) \/ RevokesRenew(p) \/ EndsRenew(p)
    <2>1. Untouched(p) /\ MovesOn(p)
      BY <1>5, AdoptsWithSecret DEF FinalizesSettle, EndsSettle, RevokesRenew,
                                    EndsRenew, AdoptsSettle
    <2>2. updateIdx[p] \in revealed[Other(p)]
      BY <2>1, HeadCarried DEF MovesOn, Takes, Carried
    <2>3. Exchange!MoveOn(p)
      BY <1>1, <1>2, <2>1, <2>2, FunctionsKept DEF Exchange!MoveOn, MovesOn
    <2>4. CASE FinalizesSettle(p) \/ RevokesRenew(p)
      <3>1. revealed'[p] = revealed[p] \cup {updateIdx[p]}
        BY <2>4 DEF FinalizesSettle, RevokesRenew
      <3>2. Exchange!Give(p)
        BY <1>1, <2>1, <3>1, FunctionsKept DEF Exchange!Give
      <3> QED
        BY <1>2, <2>3, <3>2 DEF Exchange!Next
    <2>5. CASE EndsSettle(p) \/ EndsRenew(p)
      <3>1. revealed'[p] = revealed[p] /\ state[p].name \in Waiting
        BY <2>5 DEF EndsSettle, EndsRenew, KeepsHistory, Waiting
      <3>2. updateIdx[p] \in revealed[p]
        BY <3>1 DEF ExchangeInv, Place, GivenUp
      <3>3. UNCHANGED revealed
        BY <1>1, <2>1, <3>1, FunctionsKept
      <3> QED
        BY <1>2, <2>3, <3>2, <3>3 DEF Exchange!Next
    <2> QED
      BY <1>5, <2>4, <2>5
  <1> QED
    BY <1>3, <1>4, <1>5 DEF StepOf, UpdateStep

(* The settle and renew protocols implement the fair exchange: a party     *)
(* moves to the next update only with the counter party's secret of the    *)
(* current one and having given up its own, and gives up no secret of an   *)
(* update it is not in.  All other operations leave the exchange alone.    *)
THEOREM ExchangeRefined == Spec => ExchangeSpec
  <1>1. Init => Exchange!Init
    BY DEF Init, Exchange!Init, Exchange!Party, Party
  <1>2. ExchangeInv /\ [Next]_vars => [Exchange!Next]_<<updateIdx, revealed>>
    <2> SUFFICES ASSUME ExchangeInv, [Next]_vars
                 PROVE  [Exchange!Next]_<<updateIdx, revealed>>
      OBVIOUS
    <2>1. ExchangeInv' /\ TypeInv
      BY NextExchange DEF ExchangeInv, RevealInv
    <2>2. PICK p \in Party : StepOf(p)
      BY <2>1, NextStep
    <2> QED
      BY <2>1, <2>2, StepExchanges
  <1> QED
    BY <1>1, <1>2, InitExchange, NextExchange, PTL DEF Spec, ExchangeSpec, Exchange!Spec

-----------------------------------------------------------------------------
(***************************************************************************)
(* The two parties hold the same transaction in the same update, for every *)
(* choice of the constants of DlcChannel.                                  *)
(*                                                                         *)
(* A handler checks a signature against the transaction it has built from  *)
(* its own record; nothing compares the records.  That they agree follows  *)
(* from what each party holds of an update and from what the messages on   *)
(* their way can still make the counter party hold.                        *)
(***************************************************************************)

(* What p holds is of its update, or of the next one once it gave up the   *)
(* secret of this one.                                                     *)
Holds(p) ==
    \A tx \in held[p] :
       /\ tx.point[p] <= updateIdx[p] + 1
       /\ tx.point[p] = updateIdx[p] + 1 => updateIdx[p] \in revealed[p]

(* The transaction p falls back on, and the one it waits for the secret    *)
(* of, are held.                                                           *)
Rests(p) ==
    Live(p) =>
      /\ StableTx(p) \in held[p] /\ StableTx(p).point = Both(updateIdx[p])
      /\ state[p].name \in Waiting => state[p].tx \in held[p]
      /\ state[p].name \notin StableStates => rollback[p].name \in StableStates

(* What the counter party holds of an update p knows of is p's own.        *)
Shares(p) ==
    LET q == Other(p) IN
    Live(p) => \A tx \in held[q] :
      /\ tx.point[q] = updateIdx[p] => tx = StableTx(p)
      /\ state[p].name \in Waiting /\ tx.point[q] = updateIdx[p] + 1 =>
           tx = state[p].tx

(* A message on its way to p speaks for what its sender holds.             *)
Vouched(p, m) ==
    LET q == Other(p) IN
    /\ m.type \in {"SettleConfirm", "RenewFinalize"} =>
         /\ \A tx \in held[q] : tx.point[q] = m.secret + 1 => tx = m.sig
         /\ m.secret = updateIdx[q] /\ Live(q) => m.sig = state[q].tx
    /\ m.type \in {"SettleAccept", "RenewConfirm"} /\ About(p, m) = updateIdx[q] + 1 =>
         /\ updateIdx[q] \notin revealed[q]
         /\ Live(q) => state[q].name = IF m.type = "SettleAccept"
                                       THEN "SettledAccepted" ELSE "RenewConfirmed"
InTransit(p) == {net[p][i] : i \in 1 .. Len(net[p])}

AgreementInv ==
    /\ ExchangeInv
    /\ \A p \in Party : /\ Holds(p) /\ Rests(p) /\ Shares(p)
                        /\ \A m \in InTransit(p) : Vouched(p, m)

-----------------------------------------------------------------------------
(* Messages.                                                               *)

LEMMA TransitCarried ==
    ASSUME ExchangeInv, NEW p \in Party, NEW m \in InTransit(p)
    PROVE  /\ m \in Message /\ Carried(p, m, updateIdx, revealed)
           /\ About(p, m) \in Nat /\ m.secret \in Nat
  <1>1. net[p] \in Seq(Message)
    BY DEF ExchangeInv, RevealInv, TypeInv, NetTyped
  <1>2. PICK i \in 1 .. Len(net[p]) : m = net[p][i]
    BY DEF InTransit
  <1>3. m \in Message /\ Carried(p, m, updateIdx, revealed)
    BY <1>1, <1>2, ElementOfSeq DEF ExchangeInv, Queue
  <1> QED
    BY <1>3, MessageFields

LEMMA OwnTransit ==
    ASSUME ExchangeInv, NEW p \in Party, Leaves(p) \/ Takes(p)
    PROVE  InTransit(p)' \subseteq InTransit(p)
  <1>1. CASE Leaves(p)
    BY <1>1 DEF Leaves, InTransit
  <1>2. CASE Takes(p)
    <2>1. \A i \in 1 .. Len(net'[p]) :
             i + 1 \in 1 .. Len(net[p]) /\ net'[p][i] = net[p][i + 1]
      BY <1>2, TakenElements DEF ExchangeInv, RevealInv
    <2> QED
      BY <2>1 DEF InTransit
  <1> QED
    BY <1>1, <1>2

LEMMA HeadTransit ==
    ASSUME ExchangeInv, NEW p \in Party, Takes(p)
    PROVE  Head(net[p]) \in InTransit(p)
  BY TakenElements DEF ExchangeInv, RevealInv, InTransit

LEMMA PeerTransit ==
    ASSUME ExchangeInv, NEW p \in Party
    PROVE  /\ Silent(p) => InTransit(Other(p))' = InTransit(Other(p))
           /\ \A m : Says(p, m) =>
                InTransit(Other(p))' \subseteq InTransit(Other(p)) \cup {m}
  <1> DEFINE o == Other(p)
  <1>1. Silent(p) => InTransit(o)' = InTransit(o)
    BY DEF Silent, InTransit
  <1>2. ASSUME NEW m, Says(p, m) PROVE InTransit(o)' \subseteq InTransit(o) \cup {m}
    <2>1. /\ Len(net[o]) \in Nat /\ Len(net'[o]) = Len(net[o]) + 1
          /\ net'[o][Len(net[o]) + 1] = m
          /\ \A i \in 1 .. Len(net[o]) : net'[o][i] = net[o][i]
      BY <1>2, SaidElements DEF ExchangeInv, RevealInv
    <2>2. ASSUME NEW i \in 1 .. Len(net'[o])
          PROVE  net'[o][i] \in InTransit(o) \cup {m}
      <3>1. i = Len(net[o]) + 1 \/ i \in 1 .. Len(net[o])
        BY <2>1
      <3> QED
        BY <2>1, <3>1 DEF InTransit
    <2> QED
      BY <2>2 DEF InTransit
  <1> QED
    BY <1>1, <1>2

-----------------------------------------------------------------------------
(* A step of p: what has to be shown.                                      *)

LEMMA PartyAgreement ==
    ASSUME AgreementInv, ExchangeInv', NEW p \in Party, Untouched(p),
           Leaves(p) \/ Takes(p),
           Holds(p)', Rests(p)', Shares(p)', Shares(Other(p))',
           \A m \in InTransit(Other(p))' : Vouched(Other(p), m)'
    PROVE  AgreementInv'
  <1> DEFINE o == Other(p)
  <1>1. o \in Party /\ o # p /\ Other(o) = p /\ \A q \in Party : q = p \/ q = o
    BY OtherType DEF Party, Other
  <1>2. /\ state'[o] = state[o] /\ updateIdx'[o] = updateIdx[o]
        /\ rollback'[o] = rollback[o] /\ held'[o] = held[o]
        /\ revealed'[o] = revealed[o] /\ ctype'[o] = ctype[o]
    BY <1>1 DEF Untouched
  <1>3. Holds(o)' /\ Rests(o)'
    <2>1. Holds(o) /\ Rests(o)
      BY <1>1 DEF AgreementInv
    <2> QED
      BY <1>2, <2>1 DEF Holds, Rests, Live, StableTx
  <1>4. ASSUME NEW m \in InTransit(p)' PROVE Vouched(p, m)'
    <2>1. Vouched(p, m)
      BY <1>4, OwnTransit DEF AgreementInv
    <2> QED
      BY <1>2, <2>1 DEF Vouched, Live, About
  <1>5. ASSUME NEW q \in Party
        PROVE  Holds(q)' /\ Rests(q)' /\ Shares(q)' /\ \A m \in InTransit(q)' : Vouched(q, m)'
    <2>1. CASE q = p
      BY <1>4, <2>1
    <2>2. CASE q = o
      BY <1>3, <2>2
    <2> QED
      BY <1>1, <2>1, <2>2
  <1> QED
    BY <1>5 DEF AgreementInv

(* p holds nothing new and stays in its update; its record changes, if at  *)
(* all, where no secret or signature of its own is on its way.             *)
Vouching == {"SettledAccepted", "RenewConfirmed"} \cup Waiting
LEMMA QuietStep ==
    ASSUME AgreementInv, ExchangeInv', NEW p \in Party, Untouched(p),
           Leaves(p) \/ Takes(p),
           updateIdx'[p] = updateIdx[p], revealed'[p] = revealed[p],
           held'[p] = held[p],
           Live(p)' => /\ Live(p) /\ StableTx(p)' = StableTx(p)
                       /\ state[p].name \in Vouching => state'[p] = state[p]
                       /\ state'[p].name \in Waiting => state'[p] = state[p]
                       /\ state'[p].name \notin StableStates =>
                            rollback'[p].name \in StableStates,
           Silent(p) \/ \E m : Says(p, m) /\ Vouched(Other(p), m)'
    PROVE  AgreementInv'
  <1> DEFINE o == Other(p)
  <1>1. /\ o \in Party /\ o # p /\ Other(o) = p
        /\ state'[o] = state[o] /\ updateIdx'[o] = updateIdx[o]
        /\ rollback'[o] = rollback[o] /\ held'[o] = held[o]
        /\ ctype'[o] = ctype[o]
    BY OtherType DEF Untouched
  <1>2. Holds(p)'
    BY DEF AgreementInv, Holds
  <1>3. Rests(p)'
    <2>1. Rests(p)
      BY DEF AgreementInv
    <2>2. SUFFICES ASSUME Live(p)'
                   PROVE  /\ StableTx(p)' \in held'[p]
                          /\ StableTx(p)'.point = Both(updateIdx'[p])
                          /\ state'[p].name \in Waiting => state'[p].tx \in held'[p]
                          /\ state'[p].name \notin StableStates =>
                               rollback'[p].name \in StableStates
      BY DEF Rests, Both
    <2> QED
      BY <2>1, <2>2 DEF Rests
  <1>4. Shares(p)'
    <2>1. Shares(p)
      BY DEF AgreementInv
    <2>2. SUFFICES ASSUME Live(p)', NEW tx \in held[o]
                   PROVE  /\ tx.point[o] = updateIdx[p] => tx = StableTx(p)'
                          /\ state'[p].name \in Waiting /\ tx.point[o] = updateIdx[p] + 1 =>
                               tx = state'[p].tx
      BY <1>1 DEF Shares
    <2> QED
      BY <2>1, <2>2 DEF Shares
  <1>5. Shares(o)'
    <2>1. Shares(o)
      BY <1>1 DEF AgreementInv
    <2> QED
      BY <1>1, <2>1 DEF Shares, Live, StableTx
  <1>6. ASSUME NEW m \in InTransit(o) PROVE Vouched(o, m)'
    <2>1. Vouched(o, m) /\ Carried(o, m, updateIdx, revealed)
      BY <1>1, <1>6, TransitCarried DEF AgreementInv
    <2>2. m.type \in {"SettleConfirm", "RenewFinalize"} => m.secret \in revealed[p]
      BY <1>1, <2>1 DEF Carried, Disclosing
    <2>3. updateIdx[p] \in revealed[p] /\ Live(p) => state[p].name \in Waiting
      BY NotGiven DEF AgreementInv, Live, Updating, Frozen
    <2>4. /\ m.type \in {"SettleConfirm", "RenewFinalize"} =>
               /\ \A tx \in held'[p] : tx.point[p] = m.secret + 1 => tx = m.sig
               /\ m.secret = updateIdx'[p] /\ Live(p)' => m.sig = state'[p].tx
      BY <1>1, <2>1, <2>2, <2>3 DEF Vouched, Vouching
    <2>5. m.type \in {"SettleAccept", "RenewConfirm"} /\ About(o, m) = updateIdx'[p] + 1 =>
            /\ updateIdx'[p] \notin revealed'[p]
            /\ Live(p)' => state'[p].name = IF m.type = "SettleAccept"
                                            THEN "SettledAccepted" ELSE "RenewConfirmed"
      BY <1>1, <2>1 DEF Vouched, Vouching
    <2> QED
      BY <1>1, <2>4, <2>5 DEF Vouched, About
  <1>7. \A m \in InTransit(o)' : Vouched(o, m)'
    BY <1>6, PeerTransit DEF AgreementInv
  <1> QED
    BY <1>2, <1>3, <1>4, <1>5, <1>7, PartyAgreement

(* The parties are in the same update when p, which has not given up its   *)
(* secret, takes a message that is about the next one.                     *)
LEMMA SameUpdate ==
    ASSUME ExchangeInv, NEW p \in Party, Takes(p), Head(net[p]).type \in Numbered,
           updateIdx[p] \notin revealed[p]
    PROVE  /\ updateIdx[Other(p)] = updateIdx[p]
           /\ About(p, Head(net[p])) = updateIdx[p] + 1
  <1>1. About(p, Head(net[p])) = updateIdx[p] + 1 /\ updateIdx[Other(p)] <= updateIdx[p]
    BY HeadAbout, NotBehind DEF Takes
  <1>2. About(p, Head(net[p])) <= updateIdx[Other(p)] + 1
    BY HeadCarried DEF Takes, Carried
  <1>3. updateIdx[p] \in Nat /\ updateIdx[Other(p)] \in Nat
    BY IdxType, OtherType DEF ExchangeInv, RevealInv
  <1> QED
    BY <1>1, <1>2, <1>3

(* p gives up the secret of its update for the next transaction.           *)
LEMMA GivingStep ==
    ASSUME AgreementInv, ExchangeInv', NEW p \in Party, Untouched(p),
           ctype[p] = "Signed", ctype'[p] = ctype[p], Takes(p),
           updateIdx'[p] = updateIdx[p],
           revealed'[p] = revealed[p] \cup {updateIdx[p]},
           held'[p] = held[p] \cup {state'[p].tx},
           state[p].name \in {"SettledOffered", "RenewAccepted"},
           state'[p].name \in Waiting, rollback'[p] = rollback[p],
           state'[p].tx.point = Both(updateIdx[p] + 1),
           Head(net[p]).type \in {"SettleAccept", "RenewConfirm"},
           NEW r, Says(p, r), r.type \in {"SettleConfirm", "RenewFinalize"},
           r.secret = updateIdx[p], r.sig = state'[p].tx
    PROVE  AgreementInv'
  <1> DEFINE o == Other(p)
             T == state'[p].tx
             u == updateIdx[p]
  <1>1. /\ o \in Party /\ o # p /\ Other(o) = p
        /\ state'[o] = state[o] /\ updateIdx'[o] = updateIdx[o]
        /\ rollback'[o] = rollback[o] /\ held'[o] = held[o]
        /\ revealed'[o] = revealed[o] /\ ctype'[o] = ctype[o]
    BY OtherType DEF Untouched
  <1>2. ExchangeInv /\ Live(p) /\ Live(p)'
    BY DEF AgreementInv, Live, Updating, Waiting
  <1>3. u \notin revealed[p] /\ u \in Nat
    BY <1>2, NotGiven, IdxType DEF Frozen, Waiting, ExchangeInv, RevealInv
  <1>4. updateIdx[o] = u /\ About(p, Head(net[p])) = u + 1
    BY <1>2, <1>3, SameUpdate DEF Numbered, Naming
  <1>5. u \notin revealed[o]
    <2>1. Vouched(p, Head(net[p]))
      BY <1>2, HeadTransit DEF AgreementInv
    <2> QED
      BY <1>4, <2>1 DEF Vouched
  <1>6. \A tx \in held[o] : tx.point[o] # u + 1
    BY <1>1, <1>4, <1>5 DEF AgreementInv, Holds
  <1>7. T.point[p] = u + 1 /\ T.point[o] = u + 1
    BY BothPoints
  <1>8. \A tx \in held[p] : tx.point[p] # u + 1
    BY <1>3 DEF AgreementInv, Holds
  <1>9. StableTx(p)' = StableTx(p) /\ state[p].name \notin StableStates
        /\ state'[p].name \notin StableStates
    BY DEF StableTx, StableStates, Waiting
  <1>10. Holds(p)'
    <2>1. \A tx \in held[p] : tx.point[p] <= u + 1
      BY DEF AgreementInv, Holds
    <2> QED
      BY <1>3, <1>7, <2>1 DEF Holds
  <1>11. Rests(p)'
    <2>1. /\ StableTx(p) \in held[p] /\ StableTx(p).point = Both(u)
          /\ rollback[p].name \in StableStates
      BY <1>2, <1>9 DEF AgreementInv, Rests
    <2> QED
      BY <1>9, <2>1 DEF Rests, Both
  <1>12. Shares(p)'
    <2>1. \A tx \in held[o] : tx.point[o] = u => tx = StableTx(p)
      BY <1>2 DEF AgreementInv, Shares
    <2> QED
      BY <1>1, <1>6, <1>9, <2>1 DEF Shares
  <1>13. Shares(o)'
    <2>1. Shares(o)
      BY <1>1 DEF AgreementInv
    <2>2. Live(o) => state[o].name \notin Waiting
      BY <1>1, <1>2, <1>4, <1>5 DEF ExchangeInv, Place, GivenUp
    <2>3. StableTx(o)' = StableTx(o) /\ (Live(o)' <=> Live(o))
      BY <1>1 DEF StableTx, Live
    <2>4. u + 1 # u
      BY <1>3
    <2> QED
      BY <1>1, <1>4, <1>7, <2>1, <2>2, <2>3, <2>4 DEF Shares
  <1>14. ASSUME NEW m \in InTransit(o) PROVE Vouched(o, m)'
    <2>1. Vouched(o, m) /\ Carried(o, m, updateIdx, revealed) /\ m.secret \in Nat
      BY <1>1, <1>2, <1>14, TransitCarried DEF AgreementInv
    <2>2. m.type \in {"SettleConfirm", "RenewFinalize"} =>
            m.secret \in revealed[p] /\ m.secret + 1 # u + 1
      BY <1>1, <1>3, <2>1 DEF Carried, Disclosing
    <2>3. ~ (m.type \in {"SettleAccept", "RenewConfirm"} /\ About(o, m) = u + 1)
      BY <1>1, <1>2, <2>1 DEF Vouched
    <2>4. m.type \in {"SettleConfirm", "RenewFinalize"} =>
            /\ \A tx \in held'[p] : tx.point[p] = m.secret + 1 => tx = m.sig
            /\ m.secret # updateIdx'[p]
      BY <1>1, <1>3, <1>7, <2>1, <2>2 DEF Vouched
    <2> QED
      BY <1>1, <2>3, <2>4 DEF Vouched, About
  <1>15. Vouched(o, r)'
    BY <1>1, <1>8 DEF Vouched
  <1>16. \A m \in InTransit(o)' : Vouched(o, m)'
    BY <1>2, <1>14, <1>15, PeerTransit
  <1> QED
    BY <1>10, <1>11, <1>12, <1>13, <1>16, PartyAgreement

(* p adopts the transaction that its counter party already holds, or that  *)
(* it answers the secret with.                                             *)
LEMMA AdoptingStep ==
    ASSUME AgreementInv, ExchangeInv', NEW p \in Party, Untouched(p),
           ctype[p] = "Signed", ctype'[p] = ctype[p], Takes(p),
           state[p].name \in {"SettledAccepted", "RenewConfirmed"} \cup Waiting,
           state'[p].name \in StableStates, state'[p].tx = state[p].tx,
           updateIdx'[p] = updateIdx[p] + 1,
           held'[p] = held[p] \cup {state[p].tx},
           \/ state[p].name \in Waiting
           \/ /\ updateIdx[p] \notin revealed[p]
              /\ Head(net[p]).type \in {"SettleConfirm", "RenewFinalize"}
              /\ Head(net[p]).secret = updateIdx[p]
              /\ Head(net[p]).sig = state[p].tx,
           \/ Silent(p)
           \/ \E r : Says(p, r) /\ r.type \in {"SettleFinalize", "RenewRevoke"}
    PROVE  AgreementInv'
  <1> DEFINE o == Other(p)
             T == state[p].tx
             u == updateIdx[p]
  <1>1. /\ o \in Party /\ o # p /\ Other(o) = p
        /\ state'[o] = state[o] /\ updateIdx'[o] = updateIdx[o]
        /\ rollback'[o] = rollback[o] /\ held'[o] = held[o]
        /\ revealed'[o] = revealed[o] /\ ctype'[o] = ctype[o]
    BY OtherType DEF Untouched
  <1>2. ExchangeInv /\ Live(p) /\ Live(p)'
    BY DEF AgreementInv, Live, Updating, Waiting, StableStates
  <1>3. u \in Nat /\ updateIdx[o] \in Nat
    BY <1>1, <1>2, IdxType DEF ExchangeInv, RevealInv
  <1>4. T.point = Both(u + 1) /\ T.point[p] = u + 1 /\ T.point[o] = u + 1
    <2>1. T.point = Both(u + 1)
      BY <1>2 DEF ExchangeInv, Place, Pointed, Waiting
    <2> QED
      BY <2>1, BothPoints
  <1>5. \A tx \in held[o] : tx.point[o] = u + 1 => tx = T
    <2>1. CASE state[p].name \in Waiting
      BY <1>2, <2>1 DEF AgreementInv, Shares
    <2>2. CASE state[p].name \notin Waiting
      <3>1. Vouched(p, Head(net[p]))
        BY <1>2, HeadTransit DEF AgreementInv
      <3> QED
        BY <2>2, <3>1 DEF Vouched
    <2> QED
      BY <2>1, <2>2
  <1>6. StableTx(p)' = T
    BY DEF StableTx
  <1>7. Holds(p)'
    <2>1. \A tx \in held'[p] : tx.point[p] \in Nat
      <3>1. \A tx \in held'[p] : tx \in Tx
        BY DEF ExchangeInv, RevealInv, TypeInv, RestTyped
      <3> QED
        BY <3>1, UpdateType DEF Tx
    <2>2. \A tx \in held'[p] : tx.point[p] <= u + 1
      BY <1>3, <1>4 DEF AgreementInv, Holds
    <2> QED
      BY <1>3, <2>1, <2>2 DEF Holds
  <1>8. Rests(p)'
    BY <1>4, <1>6 DEF Rests, Both, StableStates, Waiting
  <1>9. Shares(p)'
    BY <1>1, <1>5, <1>6 DEF Shares, StableStates, Waiting
  <1>10. Shares(o)'
    <2>1. Shares(o) /\ Rests(p)
      BY <1>1 DEF AgreementInv
    <2>2. StableTx(o)' = StableTx(o) /\ (Live(o)' <=> Live(o))
      BY <1>1 DEF StableTx, Live
    <2>3. CASE state[p].name \in Waiting
      <3>1. held'[p] = held[p]
        BY <1>2, <2>1, <2>3 DEF Rests
      <3> QED
        BY <1>1, <2>1, <2>2, <3>1 DEF Shares
    <2>4. CASE state[p].name \notin Waiting
      <3>1. updateIdx[o] <= u
        BY <1>2, <2>4, NotBehind
      <3>2. updateIdx[o] # u + 1
        BY <1>3, <3>1
      <3>3. Live(o) /\ updateIdx[o] + 1 = u + 1 => T = state[o].tx
        <4>1. Vouched(p, Head(net[p]))
          BY <1>2, HeadTransit DEF AgreementInv
        <4> QED
          BY <1>3, <2>4, <4>1 DEF Vouched
      <3> QED
        BY <1>1, <1>4, <2>1, <2>2, <3>2, <3>3 DEF Shares
    <2> QED
      BY <2>3, <2>4
  <1>11. ASSUME NEW m \in InTransit(o) PROVE Vouched(o, m)'
    <2>1. /\ Vouched(o, m) /\ Carried(o, m, updateIdx, revealed)
          /\ m.secret \in Nat /\ About(o, m) \in Nat
      BY <1>1, <1>2, <1>11, TransitCarried DEF AgreementInv
    <2>2. m.type \in {"SettleConfirm", "RenewFinalize"} =>
            m.secret \in revealed[p] /\ m.secret <= u
      BY <1>1, <1>2, <2>1 DEF Carried, Disclosing, ExchangeInv, Place, GivenUp
    <2>3. m.type \in {"SettleAccept", "RenewConfirm"} => About(o, m) <= u + 1
      BY <1>1, <2>1 DEF Carried, Numbered, Naming
    <2>4. m.type \in {"SettleConfirm", "RenewFinalize"} =>
            \A tx \in held'[p] : tx.point[p] = m.secret + 1 => tx = m.sig
      <3>1. m.type \in {"SettleConfirm", "RenewFinalize"} =>
              \A tx \in held[p] : tx.point[p] = m.secret + 1 => tx = m.sig
        BY <1>1, <2>1 DEF Vouched
      <3>2. CASE state[p].name \in Waiting
        BY <1>2, <3>1, <3>2 DEF AgreementInv, Rests
      <3>3. CASE state[p].name \notin Waiting
        BY <1>3, <1>4, <2>1, <2>2, <3>1, <3>3
      <3> QED
        BY <3>2, <3>3
    <2>5. m.type \in {"SettleConfirm", "RenewFinalize"} => m.secret # updateIdx'[p]
      BY <1>3, <2>1, <2>2
    <2>6. m.type \in {"SettleAccept", "RenewConfirm"} => About(o, m) # updateIdx'[p] + 1
      BY <1>3, <2>1, <2>3
    <2> QED
      BY <1>1, <2>4, <2>5, <2>6 DEF Vouched, About
  <1>12. ASSUME NEW r, r.type \in {"SettleFinalize", "RenewRevoke"}
         PROVE  Vouched(o, r)'
    BY <1>12 DEF Vouched
  <1>13. \A m \in InTransit(o)' : Vouched(o, m)'
    BY <1>2, <1>11, <1>12, PeerTransit
  <1> QED
    BY <1>7, <1>8, <1>9, <1>10, <1>13, PartyAgreement

-----------------------------------------------------------------------------
(* The kinds of step.                                                      *)

LEMMA PlainVouched ==
    ASSUME NEW p \in Party, NEW m,
           m.type \notin {"SettleConfirm", "RenewFinalize", "SettleAccept", "RenewConfirm"}
    PROVE  Vouched(p, m)'
  BY DEF Vouched

LEMMA OffersAgreement ==
    ASSUME AgreementInv, ExchangeInv', NEW p \in Party, ctype[p] = "Signed",
           Offers(p) \/ IsOffered(p)
    PROVE  AgreementInv'
  <1>1. /\ Untouched(p) /\ KeepsPlace(p) /\ KeepsHistory(p) /\ KeepsType(p)
        /\ state[p].name \in StableStates /\ rollback'[p] = state[p]
        /\ state'[p].name \in {"SettledOffered", "SettledReceived", "RenewOffered"}
        /\ Leaves(p) \/ Takes(p)
    BY DEF Offers, IsOffered
  <1>2. /\ Live(p) /\ StableTx(p)' = StableTx(p)
        /\ state[p].name \notin Vouching /\ state'[p].name \notin Waiting
    BY <1>1 DEF Live, StableTx, StableStates, Updating, Vouching, Waiting
  <1>3. Silent(p) \/ \E m : Says(p, m) /\ m.type \in {"SettleOffer", "RenewOffer"}
    BY DEF Offers, IsOffered
  <1>4. Silent(p) \/ \E m : Says(p, m) /\ Vouched(Other(p), m)'
    BY <1>3, OtherType, PlainVouched
  <1> QED
    BY <1>1, <1>2, <1>4, QuietStep DEF KeepsPlace, KeepsHistory

LEMMA AcceptsUpdateAgreement ==
    ASSUME AgreementInv, ExchangeInv', NEW p \in Party, ctype[p] = "Signed",
           AcceptsUpdate(p)
    PROVE  AgreementInv'
  <1>1. /\ Untouched(p) /\ KeepsPlace(p) /\ KeepsHistory(p) /\ KeepsType(p)
        /\ rollback'[p] = rollback[p] /\ Leaves(p)
    BY DEF AcceptsUpdate
  <1>2. PICK m : /\ Says(p, m) /\ m.next = updateIdx[p] + 1
                 /\ m.type \in {"SettleAccept", "RenewAccept"}
                 /\ state[p].name \in {"SettledReceived", "RenewOffered"}
                 /\ state'[p].name = IF m.type = "SettleAccept"
                                     THEN "SettledAccepted" ELSE "RenewAccepted"
    BY DEF AcceptsUpdate
  <1>3. /\ Live(p) /\ StableTx(p)' = StableTx(p)
        /\ state[p].name \notin Vouching /\ state'[p].name \notin Waiting
        /\ state[p].name \notin StableStates
    BY <1>1, <1>2 DEF Live, StableTx, StableStates, Updating, Vouching, Waiting
  <1>4. rollback[p].name \in StableStates
    BY <1>3 DEF AgreementInv, Rests
  <1>5. updateIdx[p] \notin revealed[p]
    BY <1>2, NotGiven DEF AgreementInv, Frozen, Waiting
  <1>6. Vouched(Other(p), m)'
    BY <1>1, <1>2, <1>5, OtherType DEF Vouched, KeepsPlace, KeepsHistory
  <1> QED
    BY <1>1, <1>2, <1>3, <1>4, <1>6, QuietStep DEF KeepsPlace, KeepsHistory

LEMMA RevertsAgreement ==
    ASSUME AgreementInv, ExchangeInv', NEW p \in Party, ctype[p] = "Signed",
           Reverts(p)
    PROVE  AgreementInv'
  <1>1. /\ Untouched(p) /\ KeepsPlace(p) /\ KeepsHistory(p) /\ KeepsType(p)
        /\ state[p].name \in Revertible /\ state'[p] = rollback[p]
        /\ Leaves(p) \/ Takes(p)
        /\ Silent(p) \/ SaysPlain(p)
    BY DEF Reverts
  <1>2. /\ Live(p) /\ state[p].name \notin Vouching
        /\ state[p].name \notin StableStates
    BY <1>1 DEF Live, StableStates, Updating, Vouching, Waiting, Revertible
  <1>3. state'[p].name \in StableStates
    BY <1>1, <1>2 DEF AgreementInv, Rests
  <1>4. StableTx(p)' = StableTx(p) /\ state'[p].name \notin Waiting
    BY <1>1, <1>2, <1>3 DEF StableTx, StableStates, Waiting
  <1>5. Silent(p) \/ \E m : Says(p, m) /\ Vouched(Other(p), m)'
    BY <1>1, OtherType, PlainVouched DEF SaysPlain
  <1> QED
    BY <1>1, <1>2, <1>3, <1>4, <1>5, QuietStep DEF KeepsPlace, KeepsHistory

LEMMA ConfirmsRenewAgreement ==
    ASSUME AgreementInv, ExchangeInv', NEW p \in Party, ctype[p] = "Signed",
           ConfirmsRenew(p)
    PROVE  AgreementInv'
  <1>1. /\ Untouched(p) /\ KeepsPlace(p) /\ KeepsHistory(p) /\ KeepsType(p)
        /\ rollback'[p] = rollback[p] /\ Takes(p)
        /\ state[p].name = "RenewOffered" /\ state'[p].name = "RenewConfirmed"
    BY DEF ConfirmsRenew
  <1>2. PICK r : Says(p, r) /\ r.type = "RenewConfirm"
    BY DEF ConfirmsRenew
  <1>3. /\ Live(p) /\ StableTx(p)' = StableTx(p)
        /\ state[p].name \notin Vouching /\ state'[p].name \notin Waiting
        /\ state[p].name \notin StableStates
    BY <1>1 DEF Live, StableTx, StableStates, Updating, Vouching, Waiting
  <1>4. rollback[p].name \in StableStates
    BY <1>3 DEF AgreementInv, Rests
  <1>5. updateIdx[p] \notin revealed[p]
    BY <1>1, NotGiven DEF AgreementInv, Frozen, Waiting
  <1>6. Vouched(Other(p), r)'
    BY <1>1, <1>2, <1>5, OtherType DEF Vouched, KeepsPlace, KeepsHistory
  <1> QED
    BY <1>1, <1>2, <1>3, <1>4, <1>6, QuietStep DEF KeepsPlace, KeepsHistory

LEMMA GivesAgreement ==
    ASSUME AgreementInv, ExchangeInv', NEW p \in Party, ctype[p] = "Signed",
           ConfirmsSettle(p) \/ FinalizesRenew(p)
    PROVE  AgreementInv'
  <1>1. /\ Untouched(p) /\ KeepsType(p) /\ Takes(p)
        /\ updateIdx'[p] = updateIdx[p]
        /\ revealed'[p] = revealed[p] \cup {updateIdx[p]}
        /\ held'[p] = held[p] \cup {state'[p].tx} /\ rollback'[p] = rollback[p]
        /\ state[p].name \in {"SettledOffered", "RenewAccepted"}
        /\ state'[p].name \in Waiting
        /\ Head(net[p]).type \in {"SettleAccept", "RenewConfirm"}
    BY DEF ConfirmsSettle, FinalizesRenew, KeepsPlace, Waiting
  <1>2. PICK r : /\ Says(p, r) /\ r.type \in {"SettleConfirm", "RenewFinalize"}
                 /\ r.secret = updateIdx[p] /\ r.sig = state'[p].tx
    BY DEF ConfirmsSettle, FinalizesRenew
  <1>3. state'[p].tx.point = Both(updateIdx[p] + 1)
    <2>1. Pointed(p)'
      BY DEF ExchangeInv, Place
    <2>2. /\ state'[p].name = "RenewFinalized" =>
               state'[p].tx.point = [q \in Party |-> updateIdx'[p] + 1]
          /\ state'[p].name = "SettledConfirmed" =>
               state'[p].tx.point = [q \in Party |-> updateIdx'[p] + 1]
      BY <2>1 DEF Pointed, Both
    <2> QED
      BY <1>1, <2>2 DEF Waiting, Both
  <1> QED
    BY <1>1, <1>2, <1>3, GivingStep DEF KeepsType

LEMMA AdoptsAgreement ==
    ASSUME AgreementInv, ExchangeInv', NEW p \in Party, ctype[p] = "Signed",
           FinalizesSettle(p) \/ EndsSettle(p) \/ RevokesRenew(p) \/ EndsRenew(p)
    PROVE  AgreementInv'
  <1>1. MovesOn(p)
    BY AdoptsWithSecret DEF AgreementInv
  <1>2. CASE FinalizesSettle(p) \/ RevokesRenew(p)
    <2>1. /\ Untouched(p) /\ KeepsType(p) /\ Takes(p)
          /\ state[p].name \in {"SettledAccepted", "RenewConfirmed"}
          /\ state'[p].name \in StableStates /\ state'[p].tx = state[p].tx
          /\ updateIdx'[p] = updateIdx[p] + 1
          /\ held'[p] = held[p] \cup {state[p].tx}
          /\ Head(net[p]).type \in {"SettleConfirm", "RenewFinalize"}
          /\ Head(net[p]).sig = state[p].tx
          /\ \E r : Says(p, r) /\ r.type \in {"SettleFinalize", "RenewRevoke"}
      BY <1>2 DEF FinalizesSettle, RevokesRenew, AdoptsSettle, StableStates
    <2>2. updateIdx[p] \notin revealed[p]
      BY <2>1, NotGiven DEF AgreementInv, Frozen, Waiting
    <2> QED
      BY <1>1, <2>1, <2>2, AdoptingStep DEF KeepsType, MovesOn
  <1>3. CASE EndsSettle(p) \/ EndsRenew(p)
    <2>1. /\ Untouched(p) /\ KeepsType(p) /\ Takes(p) /\ Silent(p)
          /\ state[p].name \in Waiting
          /\ state'[p].name \in StableStates /\ state'[p].tx = state[p].tx
          /\ updateIdx'[p] = updateIdx[p] + 1
          /\ held'[p] = held[p]
      BY <1>3 DEF EndsSettle, EndsRenew, AdoptsSettle, StableStates,
                  KeepsHistory, Waiting
    <2>2. state[p].tx \in held[p]
      BY <2>1 DEF AgreementInv, Rests, Live, Updating, Waiting
    <2>3. held'[p] = held[p] \cup {state[p].tx}
      BY <2>1, <2>2
    <2> QED
      BY <2>1, <2>3, AdoptingStep DEF KeepsType
  <1> QED
    BY <1>2, <1>3

LEMMA OtherAgreement ==
    ASSUME AgreementInv, ExchangeInv', NEW p \in Party, Freezes(p) \/ Idles(p)
    PROVE  AgreementInv'
  <1>1. /\ Untouched(p) /\ KeepsPlace(p) /\ KeepsHistory(p)
        /\ Leaves(p) \/ Takes(p)
        /\ Silent(p) \/ SaysPlain(p)
    BY DEF Freezes, Idles
  <1>2. Silent(p) \/ \E m : Says(p, m) /\ Vouched(Other(p), m)'
    BY <1>1, OtherType, PlainVouched DEF SaysPlain
  <1>3. CASE Freezes(p)
    <2>1. ~ Live(p)'
      BY <1>3 DEF Freezes, Frozen, Live, Updating
    <2> QED
      BY <1>1, <1>2, <2>1, QuietStep DEF KeepsPlace, KeepsHistory
  <1>4. CASE Idles(p)
    <2>1. /\ state'[p] = state[p] /\ rollback'[p] = rollback[p]
          /\ ctype'[p] # "Signed" \/ ctype'[p] = ctype[p]
      BY <1>4 DEF Idles, KeepsType
    <2>2. Live(p)' => Live(p) /\ StableTx(p)' = StableTx(p)
      BY <2>1 DEF Live, StableTx
    <2>3. Live(p) /\ state[p].name \notin StableStates => rollback[p].name \in StableStates
      BY DEF AgreementInv, Rests
    <2> QED
      BY <1>1, <1>2, <2>1, <2>2, <2>3, QuietStep DEF KeepsPlace, KeepsHistory
  <1> QED
    BY <1>3, <1>4

-----------------------------------------------------------------------------
(* The invariant.                                                          *)

LEMMA InitAgreement == Init => AgreementInv
  <1> SUFFICES ASSUME Init PROVE AgreementInv
    OBVIOUS
  <1>1. ASSUME NEW p \in Party
        PROVE  /\ state[p].name = "Established" /\ state[p].tx = FirstTx
               /\ updateIdx[p] = 0 /\ held[p] = {FirstTx} /\ net[p] = <<>>
    BY DEF Init, Variant, WithOffer
  <1>2. FirstTx.point = Both(0) /\ \A p \in Party : FirstTx.point[p] = 0
    BY DEF FirstTx, BufferTx, NoPoints, Both
  <1>3. ASSUME NEW p \in Party
        PROVE  Holds(p) /\ Rests(p) /\ Shares(p) /\ InTransit(p) = {}
    <2>1. Other(p) \in Party
      BY OtherType
    <2>2. Holds(p) /\ Rests(p)
      BY <1>1, <1>2 DEF Holds, Rests, StableTx, StableStates, Waiting
    <2>3. Shares(p)
      BY <1>1, <1>2, <2>1 DEF Shares, StableTx, StableStates, Waiting
    <2>4. InTransit(p) = {}
      BY <1>1 DEF InTransit
    <2> QED
      BY <2>2, <2>3, <2>4
  <1> QED
    BY <1>3, InitExchange DEF AgreementInv

LEMMA NextAgreement == AgreementInv /\ [Next]_vars => AgreementInv'
  <1> SUFFICES ASSUME AgreementInv, [Next]_vars PROVE AgreementInv'
    OBVIOUS
  <1>1. ExchangeInv' /\ TypeInv
    BY NextExchange DEF AgreementInv, ExchangeInv, RevealInv
  <1>2. PICK p \in Party : StepOf(p)
    BY <1>1, NextStep
  <1> QED
    BY <1>1, <1>2, OffersAgreement, AcceptsUpdateAgreement, RevertsAgreement,
       ConfirmsRenewAgreement, GivesAgreement, AdoptsAgreement, OtherAgreement
       DEF StepOf, UpdateStep

LEMMA Agrees ==
    ASSUME AgreementInv, NEW p \in Party, Live(p), Live(Other(p))
    PROVE  LET q == Other(p) IN
           /\ updateIdx[p] <= updateIdx[q] + 1
           /\ updateIdx[p] = updateIdx[q] => StableTx(p) = StableTx(q)
           /\ updateIdx[p] = updateIdx[q] + 1 =>
                /\ state[q].name \in {"SettledConfirmed", "RenewFinalized"}
                /\ state[q].tx = StableTx(p)
  <1> DEFINE q == Other(p)
  <1>1. q \in Party /\ Other(q) = p /\ ExchangeInv
    BY OtherType DEF AgreementInv
  <1>2. updateIdx[p] <= updateIdx[q] + 1
    BY <1>1, AtMostOneApart
  <1>3. /\ StableTx(p) \in held[p] /\ StableTx(p).point[p] = updateIdx[p]
        /\ StableTx(q) \in held[q] /\ StableTx(q).point[q] = updateIdx[q]
    BY <1>1 DEF AgreementInv, Rests, Both
  <1>4. updateIdx[p] = updateIdx[q] => StableTx(p) = StableTx(q)
    BY <1>1, <1>3 DEF AgreementInv, Shares
  <1>5. ASSUME updateIdx[p] = updateIdx[q] + 1
        PROVE  state[q].name \in Waiting /\ state[q].tx = StableTx(p)
    <2>1. updateIdx[q] \in revealed[q]
      <3>1. updateIdx[p] \in Nat /\ updateIdx[q] \in Update /\ updateIdx[q] \in Nat
        BY <1>1, IdxType DEF ExchangeInv, RevealInv
      <3>2. secrets[p] = {n \in Update : n < updateIdx[p]} /\ secrets[p] \subseteq revealed[q]
        BY <1>1 DEF ExchangeInv, Place
      <3> QED
        BY <1>5, <3>1, <3>2
    <2>2. state[q].name \in Waiting
      BY <1>1, <2>1, NotGiven DEF Live, Updating, Frozen
    <2> QED
      BY <1>1, <1>3, <1>5, <2>2 DEF AgreementInv, Shares
  <1> QED
    BY <1>2, <1>4, <1>5 DEF Waiting

(* Two parties that both update the channel never disagree about it, for   *)
(* any number of updates and with messages lost: in the same update they   *)
(* rest on the same transaction, and when one is ahead the other waits for *)
(* SettleFinalize or RenewRevoke of the transaction the first one rests    *)
(* on.                                                                     *)
THEOREM AgreementSafe == Spec => []UpdateAgreement
  <1>1. AgreementInv => UpdateAgreement
    BY Agrees DEF UpdateAgreement
  <1> QED
    BY <1>1, InitAgreement, NextAgreement, PTL DEF Spec

-----------------------------------------------------------------------------
(***************************************************************************)
(* The contract store follows the channel.  The invariant says which       *)
(* contracts are open in every state of an update, and that the state, or  *)
(* the one it rolls back to, names the contract of its update: closing the *)
(* contract that a state names is then closing the superseded one.         *)
(***************************************************************************)

OpenStates == {"Accepted", "Signed", "Confirmed"}
Books(c, S) == \A n \in Update : c[FinalId(n)] \in OpenStates <=> n \in S
Kept(s, u) == IF s.name = "Settled" THEN {} ELSE {u}

Unchanging == {"SettledOffered", "SettledReceived", "SettledAccepted",
               "SettledConfirmed", "RenewOffered"}
Renewing == {"RenewAccepted", "RenewConfirmed"}

(* The contracts c of a party in state s of update u that rolls back to r. *)
Booked(s, r, u, c) ==
    /\ s.name \in StableStates => Books(c, Kept(s, u))
    /\ s.name = "Established" => s.contract = FinalId(u)
    /\ s.name \in Unchanging \cup Renewing /\ r.name = "Established" =>
         r.contract = FinalId(u)
    /\ s.name \in Unchanging => Books(c, Kept(r, u))
    /\ s.name \in Renewing => Books(c, Kept(r, u) \cup {u + 1})
    /\ s.name = "RenewFinalized" => Books(c, {u + 1})
    /\ s.name = "RenewOffered" => s.contract = TempId(u + 1)
    /\ s.name \in Renewing \cup {"RenewFinalized"} => s.contract = FinalId(u + 1)
BookedBy(p) ==
    ctype[p] = "Signed" =>
       Booked(state[p], rollback[p], updateIdx[p], contracts[p])

BookInv == AgreementInv /\ \A p \in Party : BookedBy(p)

LEMMA Ids ==
    ASSUME NEW n \in Update
    PROVE  /\ FinalId(n) \in ContractId /\ TempId(n) \in ContractId
           /\ \A k \in Update : FinalId(k) = FinalId(n) => k = n
           /\ \A k : FinalId(k) # TempId(n)
  BY DEF FinalId, TempId, ContractId

(* A step of p books only its own contracts.                               *)
OwnBooks(p) == \A q \in Party \ {p} : contracts'[q] = contracts[q]

(* The contracts d are c with that of update n put into state t.           *)
PutFinal(d, c, n, t) ==
    \A k \in Update : d[FinalId(k)] = IF k = n THEN t ELSE c[FinalId(k)]

LEMMA FinalPut ==
    ASSUME NEW c, NEW d, NEW n \in Update, NEW t, NEW S, PutFinal(d, c, n, t),
           Books(c, S)
    PROVE  /\ t \in OpenStates => Books(d, S \cup {n})
           /\ t \notin OpenStates => Books(d, S \ {n})
  BY DEF PutFinal, Books

LEMMA SetFinal ==
    ASSUME ContractsTyped, NEW p \in Party, NEW n \in Update, NEW t,
           SetContract(p, FinalId(n), t)
    PROVE  PutFinal(contracts'[p], contracts[p], n, t) /\ OwnBooks(p)
  BY Ids DEF ContractsTyped, SetContract, PutFinal, OwnBooks

(* Contracts under temporary ids are not in the books.                     *)
LEMMA SetTemp ==
    ASSUME ContractsTyped, NEW p \in Party, NEW n \in Update, NEW t,
           SetContract(p, TempId(n), t)
    PROVE  /\ \A S : Books(contracts[p], S) => Books(contracts'[p], S)
           /\ OwnBooks(p)
  <1>1. /\ \A k \in Update : contracts'[p][FinalId(k)] = contracts[p][FinalId(k)]
        /\ OwnBooks(p)
    BY Ids DEF ContractsTyped, SetContract, OwnBooks
  <1> QED BY <1>1 DEF Books

(* The name and the contract of the states that actions build.             *)
LEMMA NextBuilt ==
    ASSUME NEW n, NEW tx, NEW c, NEW x
    PROVE  /\ WithNext(Variant(n, tx, c), x).name = n
           /\ WithNext(Variant(n, tx, c), x).contract = c
  BY DEF Variant, WithNext

LEMMA PrevBuilt ==
    ASSUME NEW n, NEW tx, NEW c, NEW x
    PROVE  /\ WithPrev(Variant(n, tx, c), x).name = n
           /\ WithPrev(Variant(n, tx, c), x).contract = c
  BY DEF Variant, WithPrev

LEMMA OfferVariant ==
    ASSUME NEW n, NEW tx, NEW c
    PROVE  /\ WithOffer(Variant(n, tx, c), TRUE).name = n
           /\ WithOffer(Variant(n, tx, c), TRUE).contract = c
  BY DEF Variant, WithOffer

-----------------------------------------------------------------------------
(* Steps that leave the contracts alone.                                   *)

LEMMA OfferBooked ==
    ASSUME NEW s, NEW r, NEW u, NEW c, Booked(s, r, u, c), NEW t,
           s.name \in StableStates,
           \/ t.name \in {"SettledOffered", "SettledReceived"}
           \/ t.name = "RenewOffered" /\ t.contract = TempId(u + 1)
    PROVE  Booked(t, s, u, c)
  BY DEF Booked, StableStates, Unchanging, Renewing

LEMMA SettlingBooked ==
    ASSUME NEW s, NEW r, NEW u, NEW c, Booked(s, r, u, c), NEW t,
           s.name \in Unchanging, t.name \in Unchanging \ {"RenewOffered"}
    PROVE  Booked(t, r, u, c)
  BY DEF Booked, StableStates, Unchanging, Renewing

LEMMA RevertBooked ==
    ASSUME NEW s, NEW r, NEW u, NEW c, Booked(s, r, u, c), NEW t,
           s.name \in Unchanging, r.name \in StableStates
    PROVE  Booked(r, t, u, c)
  BY DEF Booked, StableStates, Unchanging, Renewing

LEMMA FrozenBooked ==
    ASSUME NEW s, NEW r, NEW u, NEW c, s.name \in Frozen
    PROVE  Booked(s, r, u, c)
  BY DEF Booked, StableStates, Unchanging, Renewing, Frozen

LEMMA PlainBooks ==
    ASSUME BookInv, NEW p \in Party, Untouched(p), UNCHANGED contracts,
           \/ Freezes(p) \/ Idles(p)
           \/ SettleOffer(p) \/ OnSettleOffer(p) \/ AcceptSettleOffer(p)
           \/ OnSettleAccept(p) \/ RejectSettleOffer(p)
    PROVE  BookedBy(p)'
  <1>1. TypeInv /\ BookedBy(p) /\ PendingIdx
    BY DEF BookInv, AgreementInv, ExchangeInv, RevealInv, TypeInv
  <1>2. CASE Freezes(p)
    BY <1>2, FrozenBooked DEF BookedBy, Freezes
  <1>3. CASE Idles(p)
    BY <1>1, <1>3 DEF BookedBy, Idles, KeepsPlace, KeepsType
  <1>4. CASE SettleOffer(p) \/ OnSettleOffer(p)
    <2>1. PICK s : MoveTo(p, s) /\ s.name \in {"SettledOffered", "SettledReceived"}
      <3>1. CASE SettleOffer(p)
        <4> DEFINE s == WithNext(Variant("SettledOffered", NoTx, NoContract),
                                 Points(p, updateIdx[p] + 1, 0))
        <4>1. MoveTo(p, s) /\ s.name = "SettledOffered"
          BY <3>1, NextBuilt DEF SettleOffer
        <4> HIDE DEF s
        <4> QED BY <4>1
      <3>2. CASE OnSettleOffer(p)
        <4> DEFINE s == WithNext(Variant("SettledReceived", NoTx, NoContract),
                                 Points(p, 0, Head(net[p]).next))
        <4>1. MoveTo(p, s) /\ s.name = "SettledReceived"
          BY <3>2, NextBuilt DEF OnSettleOffer
        <4> HIDE DEF s
        <4> QED BY <4>1
      <3> QED BY <1>4, <3>1, <3>2
    <2>2. state'[p] = s /\ rollback'[p] = state[p]
      BY <1>1, <2>1, MoveToEffect DEF TypeInv
    <2>3. /\ state[p].name \in StableStates
          /\ ctype[p] = "Signed" /\ updateIdx'[p] = updateIdx[p]
      BY <1>4 DEF SettleOffer, OnSettleOffer, InState, Signed, StableStates
    <2> QED
      BY <1>1, <2>1, <2>2, <2>3, OfferBooked DEF BookedBy
  <1>5. CASE AcceptSettleOffer(p) \/ OnSettleAccept(p)
    <2>1. PICK s : SetState(p, s) /\ s.name \in {"SettledAccepted", "SettledConfirmed"}
      <3>1. CASE AcceptSettleOffer(p)
        <4> DEFINE pts == Points(p, updateIdx[p] + 1, state[p].next[Other(p)])
                   s == WithNext(Variant("SettledAccepted", SettleTx(Other(p), pts),
                                         NoContract), pts)
        <4>1. SetState(p, s)
          BY <3>1 DEF AcceptSettleOffer
        <4>2. s.name = "SettledAccepted"
          BY NextBuilt
        <4> HIDE DEF s
        <4> QED BY <4>1, <4>2
      <3>2. CASE OnSettleAccept(p)
        <4> DEFINE pts == Points(p, state[p].next[p], Head(net[p]).next)
                   s == WithNext(Variant("SettledConfirmed", SettleTx(p, pts),
                                         NoContract), pts)
        <4>1. SetState(p, s)
          BY <3>2 DEF OnSettleAccept
        <4>2. s.name = "SettledConfirmed"
          BY NextBuilt
        <4> HIDE DEF s
        <4> QED BY <4>1, <4>2
      <3> QED BY <1>5, <3>1, <3>2
    <2>2. state'[p] = s
      BY <1>1, <2>1, SetStateEffect DEF TypeInv
    <2>3. /\ rollback'[p] = rollback[p] /\ state[p].name \in Unchanging
          /\ ctype[p] = "Signed" /\ updateIdx'[p] = updateIdx[p]
      BY <1>5 DEF AcceptSettleOffer, OnSettleAccept, InState, Signed, Unchanging
    <2> QED
      BY <1>1, <2>1, <2>2, <2>3, SettlingBooked DEF BookedBy, Unchanging
  <1>6. CASE RejectSettleOffer(p)
    <2>1. /\ state'[p] = rollback[p] /\ state[p].name \in Unchanging
          /\ ctype[p] = "Signed" /\ updateIdx'[p] = updateIdx[p]
          /\ state[p].name \in Revertible
      BY <1>1, <1>6 DEF TypeInv, StateTyped, RejectSettleOffer, RollBack, InState,
                        Signed, Unchanging, Revertible
    <2>2. rollback[p].name \in StableStates
      BY <1>1, <2>1 DEF PendingIdx
    <2> QED
      BY <1>1, <2>1, <2>2, RevertBooked DEF BookedBy
  <1> QED
    BY <1>2, <1>3, <1>4, <1>5, <1>6

-----------------------------------------------------------------------------
(* Steps that change contracts.                                            *)

LEMMA BookTypes ==
    ASSUME BookInv, NEW p \in Party
    PROVE  /\ TypeInv /\ BookedBy(p) /\ PendingIdx
           /\ StateTyped /\ RollbackTyped /\ ContractsTyped /\ RestTyped
           /\ contracts[p] \in [ContractId -> ContractState]
           /\ updateIdx[p] \in Update /\ updateIdx[p] \in Nat
           /\ updateIdx[p] < MaxUpdates => updateIdx[p] + 1 \in Update
           /\ updateIdx[p] # updateIdx[p] + 1
  <1>1. TypeInv
    BY DEF BookInv, AgreementInv, ExchangeInv, RevealInv
  <1>2. updateIdx[p] \in Update /\ contracts[p] \in [ContractId -> ContractState]
    BY <1>1 DEF TypeInv, RestTyped, ContractsTyped
  <1> QED
    BY <1>1, <1>2, UpdateType DEF TypeInv, BookInv

LEMMA AdoptSettledBooks ==
    ASSUME BookInv, NEW p \in Party, OnSettleConfirm(p) \/ OnSettleFinalize(p)
    PROVE  BookedBy(p)' /\ OwnBooks(p)
  <1> DEFINE u == updateIdx[p]
             c == contracts[p]
  <1>1. /\ ctype[p] = "Signed" /\ state[p].name \in Unchanging
        /\ rollback[p].name = "Established"
        /\ AdoptSettled(p)
    BY DEF OnSettleConfirm, OnSettleFinalize, InState, Signed, Unchanging,
           SettleConfirmValid, SettleFinalizeValid
  <1>2. rollback[p].contract = FinalId(u) /\ Books(c, {u})
    BY <1>1, BookTypes DEF BookedBy, Booked, Kept
  <1>3. PutFinal(contracts'[p], c, u, "Closed") /\ OwnBooks(p)
    <2>1. SetContract(p, FinalId(u), "Closed")
      BY <1>1, <1>2 DEF AdoptSettled
    <2> QED BY <2>1, BookTypes, SetFinal
  <1>4. Books(contracts'[p], {u} \ {u})
    <2>1. "Closed" \notin OpenStates /\ u \in Update
      BY BookTypes DEF OpenStates
    <2> HIDE DEF c, u
    <2> QED BY <1>2, <1>3, <2>1, FinalPut
  <1>5. {u} \ {u} = {}
    OBVIOUS
  <1>6. state'[p].name = "Settled"
    <2>1. state'[p] = Variant("Settled", state[p].tx, NoContract)
      BY <1>1, BookTypes, SetStateEffect DEF AdoptSettled
    <2> QED BY <2>1 DEF Variant
  <1>7. Booked(state'[p], rollback'[p], updateIdx'[p], contracts'[p])
    BY <1>4, <1>5, <1>6 DEF Booked, Kept, StableStates, Unchanging, Renewing
  <1> QED
    BY <1>3, <1>7 DEF BookedBy

LEMMA RenewOfferBooks ==
    ASSUME BookInv, NEW p \in Party, RenewOffer(p) \/ OnRenewOffer(p)
    PROVE  BookedBy(p)' /\ OwnBooks(p)
  <1> DEFINE u == updateIdx[p]
             c == contracts[p]
  <1>1. /\ ctype[p] = "Signed" /\ state[p].name \in StableStates
        /\ u < MaxUpdates /\ SetContract(p, TempId(u + 1), "Offered")
        /\ updateIdx'[p] = u
    BY DEF RenewOffer, OnRenewOffer, Signed
  <1>3. /\ \A S : Books(c, S) => Books(contracts'[p], S)
        /\ OwnBooks(p)
    BY <1>1, BookTypes, SetTemp
  <1>4. PICK s : /\ MoveTo(p, s) /\ s.name = "RenewOffered"
                 /\ s.contract = TempId(u + 1)
    <2>1. CASE RenewOffer(p)
      <3> DEFINE s == WithOffer(WithNext(Variant("RenewOffered", NoTx, TempId(u + 1)),
                                         Points(p, u + 1, 0)), TRUE)
      <3>1. MoveTo(p, s)
        BY <2>1 DEF RenewOffer
      <3>2. s.name = "RenewOffered" /\ s.contract = TempId(u + 1)
        BY DEF WithOffer, WithNext, Variant
      <3> HIDE DEF s
      <3> QED BY <3>1, <3>2
    <2>2. CASE OnRenewOffer(p)
      <3> DEFINE s == WithNext(Variant("RenewOffered", NoTx, TempId(u + 1)),
                               Points(p, 0, Head(net[p]).next))
      <3>1. MoveTo(p, s)
        BY <2>2 DEF OnRenewOffer
      <3>2. s.name = "RenewOffered" /\ s.contract = TempId(u + 1)
        BY NextBuilt
      <3> HIDE DEF s
      <3> QED BY <3>1, <3>2
    <2> QED BY <2>1, <2>2
  <1>5. state'[p] = s /\ rollback'[p] = state[p]
    BY <1>4, BookTypes, MoveToEffect
  <1>6. Booked(state[p], rollback[p], u, c)
    BY <1>1, BookTypes DEF BookedBy
  <1>7. Booked(s, state[p], u, contracts'[p])
    BY <1>1, <1>3, <1>4, <1>6 DEF Booked, StableStates, Unchanging, Renewing
  <1> QED
    BY <1>1, <1>3, <1>5, <1>7 DEF BookedBy

LEMMA AcceptRenewBooks ==
    ASSUME BookInv, NEW p \in Party, AcceptRenewOffer(p)
    PROVE  BookedBy(p)' /\ OwnBooks(p)
  <1> DEFINE u == updateIdx[p]
             c == contracts[p]
             pts == Points(p, u + 1, state[p].next[Other(p)])
             s == WithNext(Variant("RenewAccepted", BufferTx(Other(p), pts),
                                   FinalId(u + 1)), pts)
  <1>1. /\ ctype[p] = "Signed" /\ state[p].name = "RenewOffered"
        /\ u < MaxUpdates /\ updateIdx'[p] = u /\ rollback'[p] = rollback[p]
    BY DEF AcceptRenewOffer, InState, Signed
  <1>2. Booked(state[p], rollback[p], u, c)
    BY <1>1, BookTypes DEF BookedBy
  <1>3. state[p].contract = TempId(u + 1) /\ Books(c, Kept(rollback[p], u))
    BY <1>1, <1>2 DEF Booked, Unchanging
  <1>4. contracts' = [contracts EXCEPT ![p][TempId(u + 1)] = "None",
                                       ![p][FinalId(u + 1)] = "Accepted"]
    BY <1>3 DEF AcceptRenewOffer
  <1>5. PutFinal(contracts'[p], c, u + 1, "Accepted") /\ OwnBooks(p)
    <2>1. u + 1 \in Update
      BY <1>1, BookTypes
    <2> QED BY <1>4, <2>1, BookTypes, Ids DEF ContractsTyped, OwnBooks, PutFinal
  <1>8. Books(contracts'[p], Kept(rollback[p], u) \cup {u + 1})
    BY <1>1, <1>3, <1>5, BookTypes, FinalPut DEF OpenStates
  <1>9. SetState(p, s)
    BY DEF AcceptRenewOffer
  <1>10. s.name = "RenewAccepted" /\ s.contract = FinalId(u + 1)
    BY NextBuilt
  <1> HIDE DEF s
  <1>11. state'[p] = s
    BY <1>9, BookTypes, SetStateEffect
  <1>12. Booked(s, rollback[p], u, contracts'[p])
    BY <1>1, <1>2, <1>8, <1>10 DEF Booked, StableStates, Unchanging, Renewing
  <1> QED
    BY <1>1, <1>5, <1>11, <1>12 DEF BookedBy

(* An offer that is rejected, by p or by the counter party.                *)
LEMMA RejectBooks ==
    ASSUME BookInv, NEW p \in Party, RejectRenewOffer(p) \/ OnReject(p)
    PROVE  BookedBy(p)' /\ OwnBooks(p)
  <1> DEFINE u == updateIdx[p]
             c == contracts[p]
  <1>1. ctype[p] = "Signed" /\ UNCHANGED <<ctype, updateIdx>>
    BY DEF RejectRenewOffer, OnReject, InState, Signed
  <1>2. Booked(state[p], rollback[p], u, c)
    BY <1>1, BookTypes DEF BookedBy
  <1>3. CASE UNCHANGED <<state, rollback, contracts>>
    BY <1>1, <1>2, <1>3 DEF BookedBy, OwnBooks
  <1>4. CASE /\ RollBack(p)
             /\ \/ state[p].name = "SettledOffered" /\ UNCHANGED contracts
                \/ /\ state[p].name = "RenewOffered"
                   /\ SetContract(p, state[p].contract, "Rejected")
    <2>1. state[p].name \in Revertible /\ state[p].name \in Unchanging
      BY <1>4 DEF Revertible, Unchanging
    <2>2. state'[p] = rollback[p] /\ rollback[p].name \in StableStates
      BY <1>4, <2>1, BookTypes DEF StateTyped, RollBack, PendingIdx
    <2>3. /\ OwnBooks(p)
          /\ \A S : Books(c, S) => Books(contracts'[p], S)
      <3>1. CASE UNCHANGED contracts
        BY <3>1 DEF OwnBooks
      <3>2. CASE state[p].name = "RenewOffered" /\ SetContract(p, state[p].contract, "Rejected")
        <4>1. state[p].contract = TempId(u + 1) /\ u + 1 \in Update
          BY <1>2, <3>2, BookTypes DEF Booked, PendingIdx, Pending
        <4>2. SetContract(p, TempId(u + 1), "Rejected")
          BY <3>2, <4>1
        <4> QED BY <4>1, <4>2, BookTypes, SetTemp
      <3> QED BY <1>4, <3>1, <3>2
    <2>4. Booked(rollback[p], rollback'[p], u, contracts'[p])
      BY <1>2, <2>1, <2>2, <2>3 DEF Booked, StableStates, Unchanging, Renewing
    <2> QED
      BY <1>1, <2>2, <2>3, <2>4 DEF BookedBy
  <1> QED
    BY <1>3, <1>4 DEF RejectRenewOffer, OnReject, InState

LEMMA OnRenewAcceptBooks ==
    ASSUME BookInv, NEW p \in Party, OnRenewAccept(p)
    PROVE  BookedBy(p)' /\ OwnBooks(p)
  <1> DEFINE u == updateIdx[p]
             c == contracts[p]
             id == FinalId(state[p].contract[2])
             pts == Points(p, state[p].next[p], Head(net[p]).next)
             s == WithNext(Variant("RenewConfirmed", BufferTx(p, pts), id), pts)
  <1>1. /\ ctype[p] = "Signed" /\ state[p].name = "RenewOffered"
        /\ updateIdx'[p] = u /\ rollback'[p] = rollback[p]
        /\ SetContract(p, id, "Confirmed") /\ SetState(p, s)
    BY DEF OnRenewAccept, InState, Signed
  <1>2. Booked(state[p], rollback[p], u, c) /\ u + 1 \in Update
    BY <1>1, BookTypes DEF BookedBy, PendingIdx, Pending
  <1>3. state[p].contract = TempId(u + 1) /\ Books(c, Kept(rollback[p], u))
    BY <1>1, <1>2 DEF Booked, Unchanging
  <1>4. id = FinalId(u + 1)
    BY <1>3 DEF TempId
  <1>5. PutFinal(contracts'[p], c, u + 1, "Confirmed") /\ OwnBooks(p)
    <2> HIDE DEF id
    <2> QED BY <1>1, <1>2, <1>4, BookTypes, SetFinal
  <1>6. Books(contracts'[p], Kept(rollback[p], u) \cup {u + 1})
    BY <1>2, <1>3, <1>5, FinalPut DEF OpenStates
  <1>7. s.name = "RenewConfirmed" /\ s.contract = FinalId(u + 1)
    <2> HIDE DEF id, pts
    <2> QED BY <1>4, NextBuilt
  <1> HIDE DEF s, id
  <1>8. state'[p] = s
    BY <1>1, BookTypes, SetStateEffect
  <1>9. Booked(s, rollback[p], u, contracts'[p])
    BY <1>1, <1>2, <1>6, <1>7 DEF Booked, StableStates, Unchanging, Renewing
  <1> QED
    BY <1>1, <1>5, <1>8, <1>9 DEF BookedBy

(* What closing the superseded contract leaves of the books.               *)
LEMMA SupersededBooks ==
    ASSUME NEW p \in Party, NEW c \in [ContractId -> ContractState],
           updateIdx[p] \in Update, updateIdx[p] + 1 \in Update,
           updateIdx[p] # updateIdx[p] + 1,
           rollback[p].name \in StableStates,
           rollback[p].name = "Established" =>
              rollback[p].contract = FinalId(updateIdx[p]),
           Books(c, Kept(rollback[p], updateIdx[p]) \cup {updateIdx[p] + 1})
    PROVE  Books(WithSupersededClosed(p, c), {updateIdx[p] + 1})
  <1> DEFINE u == updateIdx[p]
  <1>1. CASE rollback[p].name = "Settled"
    <2>1. WithSupersededClosed(p, c) = c
      BY <1>1 DEF WithSupersededClosed
    <2> QED BY <1>1, <2>1 DEF Kept, Books
  <1>2. CASE rollback[p].name = "Established"
    <2>1. WithSupersededClosed(p, c) = [c EXCEPT ![FinalId(u)] = "Closed"]
      BY <1>2 DEF WithSupersededClosed
    <2>2. PutFinal(WithSupersededClosed(p, c), c, u, "Closed")
      BY <2>1, Ids DEF PutFinal
    <2>3. Books(WithSupersededClosed(p, c), (Kept(rollback[p], u) \cup {u + 1}) \ {u})
      <3>1. /\ "Closed" \notin OpenStates /\ u \in Update
            /\ Books(c, Kept(rollback[p], u) \cup {u + 1})
        BY DEF OpenStates
      <3> HIDE DEF u
      <3> QED BY <2>2, <3>1, FinalPut
    <2>4. (Kept(rollback[p], u) \cup {u + 1}) \ {u} = {u + 1}
      BY <1>2 DEF Kept
    <2> QED BY <2>3, <2>4
  <1> QED BY <1>1, <1>2 DEF StableStates

LEMMA OnRenewConfirmBooks ==
    ASSUME BookInv, NEW p \in Party, OnRenewConfirm(p)
    PROVE  BookedBy(p)' /\ OwnBooks(p)
  <1> DEFINE u == updateIdx[p]
             c == contracts[p]
             d == [c EXCEPT ![FinalId(u + 1)] = "Confirmed"]
             s == WithPrev(Variant("RenewFinalized", state[p].tx, state[p].contract),
                           points[p][Other(p)])
  <1>1. /\ ctype[p] = "Signed" /\ state[p].name = "RenewAccepted"
        /\ updateIdx'[p] = u /\ rollback[p].name \in StableStates
        /\ SetState(p, s)
    BY DEF OnRenewConfirm, InState, Signed, RenewConfirmValid, RenewableRollback,
           StableStates
  <1>2. Booked(state[p], rollback[p], u, c) /\ u + 1 \in Update
    BY <1>1, BookTypes DEF BookedBy, PendingIdx, Pending
  <1>3. /\ state[p].contract = FinalId(u + 1)
        /\ rollback[p].name = "Established" => rollback[p].contract = FinalId(u)
        /\ Books(c, Kept(rollback[p], u) \cup {u + 1})
    BY <1>1, <1>2 DEF Booked, Renewing
  <1>4. contracts'[p] = WithSupersededClosed(p, d) /\ OwnBooks(p)
    BY <1>3, BookTypes DEF ContractsTyped, OnRenewConfirm, OwnBooks
  <1>5. d \in [ContractId -> ContractState] /\ PutFinal(d, c, u + 1, "Confirmed")
    BY <1>2, BookTypes, Ids DEF PutFinal, ContractState
  <1> HIDE DEF d
  <1>6. Books(d, Kept(rollback[p], u) \cup {u + 1})
    <2>1. Books(d, (Kept(rollback[p], u) \cup {u + 1}) \cup {u + 1})
      BY <1>2, <1>3, <1>5, FinalPut DEF OpenStates
    <2> QED BY <2>1 DEF Books
  <1>7. Books(contracts'[p], {u + 1})
    BY <1>1, <1>2, <1>3, <1>4, <1>5, <1>6, BookTypes, SupersededBooks
  <1>8. s.name = "RenewFinalized" /\ s.contract = FinalId(u + 1)
    BY <1>3, PrevBuilt
  <1> HIDE DEF s
  <1>9. state'[p] = s
    BY <1>1, BookTypes, SetStateEffect
  <1>10. Booked(s, rollback'[p], u, contracts'[p])
    BY <1>7, <1>8 DEF Booked, StableStates, Unchanging, Renewing
  <1> QED
    BY <1>1, <1>4, <1>9, <1>10 DEF BookedBy

LEMMA OnRenewFinalizeBooks ==
    ASSUME BookInv, NEW p \in Party, OnRenewFinalize(p) \/ OnRenewRevoke(p)
    PROVE  BookedBy(p)' /\ OwnBooks(p)
  <1> DEFINE u == updateIdx[p]
             c == contracts[p]
             s == WithOffer(Variant("Established", state[p].tx, state[p].contract), TRUE)
  <1>1. /\ ctype[p] = "Signed" /\ state[p].name \in {"RenewConfirmed", "RenewFinalized"}
        /\ StepUpdateIdx(p) /\ SetState(p, s)
    BY DEF OnRenewFinalize, OnRenewRevoke, InState, Signed
  <1>2. Booked(state[p], rollback[p], u, c) /\ u + 1 \in Update
    BY <1>1, BookTypes DEF BookedBy, PendingIdx, Pending
  <1>3. state[p].contract = FinalId(u + 1)
    BY <1>1, <1>2 DEF Booked, Renewing
  <1>4. Books(contracts'[p], {u + 1}) /\ OwnBooks(p)
    <2>1. CASE OnRenewFinalize(p)
      <3>1. state[p].name = "RenewConfirmed" /\ rollback[p].name \in StableStates
        BY <2>1 DEF OnRenewFinalize, InState, RenewFinalizeValid, RenewableRollback,
                    StableStates
      <3>2. contracts'[p] = WithSupersededClosed(p, c) /\ OwnBooks(p)
        BY <2>1, BookTypes DEF ContractsTyped, OnRenewFinalize, OwnBooks
      <3>3. /\ rollback[p].name = "Established" => rollback[p].contract = FinalId(u)
            /\ Books(c, Kept(rollback[p], u) \cup {u + 1})
        BY <1>2, <3>1 DEF Booked, Renewing
      <3> QED
        BY <1>2, <3>1, <3>2, <3>3, BookTypes, SupersededBooks
    <2>2. CASE OnRenewRevoke(p)
      <3>1. state[p].name = "RenewFinalized" /\ UNCHANGED contracts
        BY <2>2 DEF OnRenewRevoke, InState, storeVars
      <3> QED
        BY <1>2, <3>1 DEF Booked, OwnBooks
    <2> QED BY <2>1, <2>2
  <1>5. s.name = "Established" /\ s.contract = FinalId(u + 1)
    BY <1>3 DEF WithOffer, Variant
  <1> HIDE DEF s
  <1>6. state'[p] = s /\ updateIdx'[p] = u + 1
    BY <1>1, BookTypes, SetStateEffect DEF StepUpdateIdx, RestTyped
  <1>7. Booked(s, rollback'[p], u + 1, contracts'[p])
    BY <1>4, <1>5 DEF Booked, Kept, StableStates, Unchanging, Renewing
  <1> QED
    BY <1>4, <1>6, <1>7 DEF BookedBy

(* The periodic check moves a contract on, or closes one that is over.     *)
LEMMA CheckBooks ==
    ASSUME BookInv, NEW p \in Party, CheckSignedContract(p) \/ CheckPreclosedContract(p)
    PROVE  BookedBy(p)' /\ OwnBooks(p)
  <1>1. PICK id \in ContractId, t \in {"Confirmed", "Closed"} :
           /\ SetContract(p, id, t)
           /\ contracts[p][id] \in OpenStates <=> t \in OpenStates
    BY DEF CheckSignedContract, CheckPreclosedContract, OpenStates
  <1>2. /\ OwnBooks(p)
        /\ \A k \in Update : /\ contracts'[p][FinalId(k)] \in OpenStates
                                  <=> contracts[p][FinalId(k)] \in OpenStates
    BY <1>1, BookTypes, Ids DEF SetContract, ContractsTyped, OwnBooks
  <1>3. \A S : Books(contracts[p], S) => Books(contracts'[p], S)
    BY <1>2 DEF Books
  <1>4. UNCHANGED <<ctype, state, rollback, updateIdx>>
    BY DEF CheckSignedContract, CheckPreclosedContract, chanVars
  <1> QED
    BY <1>2, <1>3, <1>4, BookTypes DEF BookedBy, Booked

(* The end of the channel.                                                 *)
LEMMA EndBooks ==
    ASSUME BookInv, NEW p \in Party,
           \/ AcceptCollaborativeClose(p) \/ TryFinalizeClosingEstablishedChannel(p)
           \/ ProcessCollaborativeClose(p) \/ ProcessCet(p)
    PROVE  BookedBy(p)' /\ OwnBooks(p)
  <1>1. ctype'[p] # "Signed"
    BY BookTypes
       DEF RestTyped, AcceptCollaborativeClose, TryFinalizeClosingEstablishedChannel,
           ProcessCollaborativeClose, ProcessCet
  <1>2. \/ UNCHANGED contracts
        \/ \E id, t : SetContract(p, id, t)
    BY DEF AcceptCollaborativeClose, TryFinalizeClosingEstablishedChannel,
           ProcessCollaborativeClose, ProcessCet
  <1>3. OwnBooks(p)
    BY <1>2, BookTypes DEF ContractsTyped, SetContract, OwnBooks
  <1> QED
    BY <1>1, <1>3 DEF BookedBy

LEMMA StepUntouched ==
    ASSUME NEW p \in Party, StepOf(p)
    PROVE  Untouched(p)
  BY DEF StepOf, UpdateStep, Offers, IsOffered, AcceptsUpdate, Reverts,
         ConfirmsSettle, FinalizesSettle, EndsSettle, AdoptsSettle, ConfirmsRenew,
         FinalizesRenew, RevokesRenew, EndsRenew, Freezes, Idles

(* The steps that leave the contracts alone, by kind.                      *)
LEMMA PlainKinds ==
    ASSUME TypeInv, NEW p \in Party,
           \/ OfferCollaborativeClose(p) \/ OnCollaborativeCloseOffer(p)
           \/ ForceClose(p) \/ ProcessBufferTx(p) \/ ProcessSettleTx2(p)
           \/ OnSettleOfferReject(p) \/ OnRenewOfferReject(p) \/ OnSettleUnconfirmed(p)
           \/ HandlerError(p) \/ TryFinalizeSettledClosingChannel(p)
           \/ TryConfirmClaimTx(p) \/ ProcessRevoked(p) \/ CheckForWatchedTx(p)
           \/ ProcessBufferTxFails(p) \/ ProcessRevokedFails(p)
    PROVE  (Freezes(p) \/ Idles(p)) /\ UNCHANGED contracts
  <1>1. Freezes(p) \/ Idles(p)
    BY OfferCollaborativeCloseStep, OnCollaborativeCloseOfferStep, ForceCloseStep,
       PanicStep, ProcessSpendStep, OnOfferRejectStep, OnSettleUnconfirmedStep,
       DropMessageStep, EndStep, CheckStep
       DEF ForceClose, ForceCloseFails, ProcessBufferTxFails, ProcessRevokedFails
  <1>2. UNCHANGED contracts
    BY DEF OfferCollaborativeClose, OnCollaborativeCloseOffer, ForceClose,
           ForceCloseEstablished, ForceCloseSettled, ForceCloseFails,
           ProcessBufferTx, ProcessSettleTx2, OnSettleOfferReject,
           OnRenewOfferReject, OnSettleUnconfirmed, HandlerError,
           TryFinalizeSettledClosingChannel, TryConfirmClaimTx, ProcessRevoked,
           CheckForWatchedTx, ProcessBufferTxFails, ProcessRevokedFails, Panic,
           storeVars
  <1> QED BY <1>1, <1>2

LEMMA SettleUnbooked ==
    ASSUME NEW p \in Party,
           \/ SettleOffer(p) \/ OnSettleOffer(p) \/ AcceptSettleOffer(p)
           \/ OnSettleAccept(p) \/ RejectSettleOffer(p)
    PROVE  UNCHANGED contracts
  BY DEF SettleOffer, OnSettleOffer, AcceptSettleOffer, OnSettleAccept,
         RejectSettleOffer, storeVars

LEMMA PartyBooks ==
    ASSUME BookInv, NEW p \in Party, Untouched(p),
           ApiCall(p) \/ OnDlcMessage(p) \/ PeriodicCheck(p)
    PROVE  BookedBy(p)' /\ OwnBooks(p)
  <1>1. CASE /\ UNCHANGED contracts
             /\ \/ Freezes(p) \/ Idles(p)
                \/ SettleOffer(p) \/ OnSettleOffer(p) \/ AcceptSettleOffer(p)
                \/ OnSettleAccept(p) \/ RejectSettleOffer(p)
    BY <1>1, PlainBooks DEF OwnBooks
  <1>2. CASE ApiCall(p)
    BY <1>1, <1>2, BookTypes, PlainKinds, SettleUnbooked, RenewOfferBooks,
       AcceptRenewBooks, RejectBooks, EndBooks
       DEF ApiCall, OfferUpdate, AnswerOffer, OfferClose
  <1>3. CASE OnDlcMessage(p)
    BY <1>1, <1>3, BookTypes, PlainKinds, SettleUnbooked, AdoptSettledBooks,
       RenewOfferBooks, OnRenewAcceptBooks, OnRenewConfirmBooks,
       OnRenewFinalizeBooks, RejectBooks
       DEF OnDlcMessage
  <1>4. CASE PeriodicCheck(p)
    BY <1>1, <1>4, BookTypes, PlainKinds, CheckBooks, EndBooks DEF PeriodicCheck
  <1> QED
    BY <1>2, <1>3, <1>4

LEMMA NextBooks == BookInv /\ [Next]_vars => BookInv'
  <1> SUFFICES ASSUME BookInv, [Next]_vars PROVE BookInv'
    OBVIOUS
  <1>1. AgreementInv' /\ TypeInv
    BY NextAgreement DEF BookInv, AgreementInv, ExchangeInv, RevealInv
  <1>2. ASSUME NEW p \in Party, ApiCall(p) \/ OnDlcMessage(p) \/ PeriodicCheck(p)
        PROVE  \A q \in Party : BookedBy(q)'
    <2>1. Untouched(p)
      BY <1>1, <1>2, PartyStep, StepUntouched
    <2>2. BookedBy(p)' /\ OwnBooks(p)
      BY <1>2, <2>1, PartyBooks
    <2>3. ASSUME NEW q \in Party \ {p} PROVE BookedBy(q)'
      BY <2>1, <2>2 DEF BookInv, BookedBy, Untouched, OwnBooks
    <2> QED
      BY <2>2, <2>3
  <1>3. CASE UNCHANGED <<chanVars, contracts>>
    BY <1>1, <1>3 DEF BookInv, BookedBy, chanVars
  <1>4. Environment \/ UNCHANGED vars => UNCHANGED <<chanVars, contracts>>
    BY DEF Environment, Mine, Mature, MineSpend, Attest, LoseMessage, Restart,
           PublishOld, vars, storeVars
  <1> QED
    BY <1>1, <1>2, <1>3, <1>4 DEF BookInv, Next

LEMMA InitBooks == Init => BookInv
  <1> SUFFICES ASSUME Init PROVE BookInv
    OBVIOUS
  <1>1. AgreementInv
    BY InitAgreement
  <1>2. ASSUME NEW p \in Party PROVE BookedBy(p)
    <2>1. /\ state[p].name = "Established" /\ state[p].contract = FinalId(0)
          /\ updateIdx[p] = 0
      BY DEF Init, Variant, WithOffer
    <2>2. \A c \in ContractId : contracts[p][c] =
              IF c = FinalId(0) THEN FirstContract ELSE "None"
      BY DEF Init
    <2>3. FirstContract \in OpenStates
      BY ConstantsAssumption DEF OpenStates
    <2>4. Books(contracts[p], {0})
      BY <2>2, <2>3, UpdateType, Ids DEF Books, OpenStates
    <2> QED
      BY <2>1, <2>4 DEF BookedBy, Booked, Kept, StableStates, Unchanging, Renewing
  <1> QED
    BY <1>1, <1>2 DEF BookInv

(* In a stable state the contracts that are open under a final id are      *)
(* exactly the one of the current update, or none once it is settled: no   *)
(* rejection, crossing offer or lost message leaves a contract behind that *)
(* was superseded, and none is closed that is in force.                    *)
THEOREM ContractsSafe == Spec => []LiveContract
  <1>1. BookInv => LiveContract
    <2> SUFFICES ASSUME BookInv, NEW p \in Party, ctype[p] = "Signed",
                        state[p].name \in StableStates
                 PROVE  {n \in Update : contracts[p][FinalId(n)] \in OpenStates} =
                        Kept(state[p], updateIdx[p])
      BY DEF LiveContract, OpenStates, Kept
    <2>1. Books(contracts[p], Kept(state[p], updateIdx[p])) /\ updateIdx[p] \in Update
      BY BookTypes DEF BookedBy, Booked
    <2> QED
      BY <2>1 DEF Books, Kept
  <1> QED
    BY <1>1, InitBooks, NextBooks, PTL DEF Spec
=============================================================================
