------------------------- MODULE SubChannelRecovery -------------------------
(***************************************************************************)
(* What the recovery of a sub channel keeps.  Parties that merged agree on *)
(* the balances.  Where the recovery met none of its holes, a split that   *)
(* is watched as revoked can be punished, and two parties between which    *)
(* nothing is under way fund their Lightning channel by the same output    *)
(* and count the same splits.                                              *)
(***************************************************************************)
EXTENDS SubChannelProofs

-----------------------------------------------------------------------------
(* What a step of p does to the balance, to the Lightning secret it waits  *)
(* for, and to the last secrets it is to send again.                       *)

Again(p) ==
    {actions[p][i].point : i \in {j \in 1 .. Len(actions[p]) :
                                    actions[p][j].type = "ResendCloseFinalize"}}
AsksSplit(p) == Asks(p, "Offered") \/ Asks(p, "OffChainClosed")

KeepsFields(p) ==
    sub'[p].balance = sub[p].balance /\ sub'[p].checkLnSecret = sub[p].checkLnSecret
(* A message of the merge p sends in this step.                            *)
Answers(p, m) ==
    \/ m.type \notin {"CloseConfirm", "CloseFinalize"}
    \/ /\ m.type = "CloseConfirm"
       /\ sub'[p].balance + m.balance = TotalCollateral
    \/ m.type = "CloseFinalize" /\ (m.lnSecret \/ m.point \in Again(p))
LearnsEarly(p) ==
    /\ Usable(p) /\ sub[p].st = "CloseConfirmed" /\ sub[p].checkLnSecret
    /\ net[p] # <<>> /\ Head(net[p]).type = "CloseFinalize" /\ ~Head(net[p]).lnSecret
    /\ Head(net[p]).point = CounterPoint(p, sub[p].split)
Detail(p) ==
    /\ torn => torn'
    /\ actions'[Other(p)] = actions[Other(p)]
    /\ ln'[Other(p)] = ln[Other(p)] /\ (ln'[p].open => ln[p].open)
    /\ \/ KeepsFields(p)
       \/ sub[p].st \in SplitStates \ {"CloseConfirmed"} /\ ~Merges(p)
       \/ sub[p].st = "CloseConfirmed" /\ sub'[p].st = "CloseOffered"
       \/ sub[p].st = "CloseConfirmed" /\ sub'[p].balance = sub[p].balance /\ ~sub'[p].checkLnSecret
    /\ Got(p, "Reestablish") /\ Head(net[p]).flag \in {"Offered", "OffChainClosed"}
         /\ ln[p].open /\ sub'[p].st = "CloseConfirmed" => ~sub'[p].checkLnSecret
    /\ Merges(p) /\ Got(p, "CloseConfirm") => Head(net[p]).balance = sub[p].balance
    /\ \A m \in Msgs(Other(p))' : m \in Msgs(Other(p)) \/ Answers(p, m)
    /\ \A x \in Again(p)' :
         \/ x \in Again(p)
         \/ /\ Got(p, "Reestablish") /\ Head(net[p]).flag = "CloseConfirmed"
            /\ ln[p].open /\ sub[p].st \in {"Offered", "OffChainClosed"} /\ ready'[p]
    /\ ~torn' /\ Offers(p) => ready[p]
    /\ WatchesEarly(p) => Idles(p) \/ LearnsEarly(p)

(* An action that does nothing of it, but may say m.                       *)
LEMMA PlainDetail ==
    ASSUME TypeInv, NEW p \in Party, torn => torn', UNCHANGED actions,
           ln'[Other(p)] = ln[Other(p)], ln'[p].open => ln[p].open,
           NEW m \in Message, Says(p, m), Answers(p, m), PlainStep(p) \/ Discloses(p),
           ~torn' /\ Offers(p) => ready[p],
           Got(p, "Reestablish") => ~ln[p].open,
           watch'[p] = watch[p] \/ sub'[p].st # sub[p].st,
           KeepsFields(p) \/ sub[p].st \in SplitStates \ {"CloseConfirmed"}
    PROVE  Detail(p)
  <1>1. Msgs(Other(p))' \subseteq Msgs(Other(p)) \cup {m}
    BY SaysHeard DEF Heard
  <1>2. Again(p)' = Again(p) /\ actions'[Other(p)] = actions[Other(p)]
    BY DEF Again
  <1>3. ~Merges(p)
    BY PlainApart
  <1>4. WatchesEarly(p) => Idles(p)
    BY DEF WatchesEarly, Idles, SameSub
  <1> QED BY <1>1, <1>2, <1>3, <1>4 DEF Detail

LEMMA NothingTaken ==
    ASSUME TypeInv, NEW p \in Party, net'[p] = net[p]
    PROVE  ~Takes(p) /\ \A type : ~Got(p, type)
  <1>1. net[p] \in Seq(Message)
    BY TypeParts DEF NetTyped
  <1>2. net[p] # <<>> => Len(Tail(net[p])) = Len(net[p]) - 1 /\ Len(net[p]) \in Nat
    BY <1>1
  <1>3. ~Takes(p)
    <2>1. SUFFICES ASSUME net[p] # <<>>, net[p] = Tail(net[p])
                   PROVE  FALSE
      BY DEF Takes
    <2>2. Len(net[p]) = Len(Tail(net[p]))
      BY <2>1
    <2> QED BY <1>2, <2>1, <2>2
  <1> QED BY <1>3 DEF Got

LEMMA OutMoved ==
    ASSUME TypeInv, NEW p \in Party, NEW o, SetOut(p, o)
    PROVE  /\ ln'[Other(p)] = ln[Other(p)] /\ ln'[p].open = ln[p].open /\ ln'[p].out = o
  BY Others DEF SetOut, TypeInv, TypeOK

LEMMA OfferDetail ==
    ASSUME TypeInv, NEW p \in Party, OfferSubChannel(p)
    PROVE  Detail(p)
  <1> DEFINE s2 == [sub[p] EXCEPT !.st = "Offered", !.isOffer = TRUE, !.idx = NextIdx(sub[p]),
                                  !.point = PerSplitPoint(p, NextIdx(sub[p]))]
             m == [Msg("Offer") EXCEPT !.point = s2.point]
  <1>1. /\ SetSub(p, s2) /\ Send(p, m) /\ Torn(Recovering(p)) /\ CanOffer(sub[p])
        /\ UNCHANGED <<ln, watch, actions>>
    BY DEF OfferSubChannel, actVars
  <1>2. s2.balance = sub[p].balance /\ s2.checkLnSecret = sub[p].checkLnSecret
        /\ s2.point \in Point /\ s2.st # sub[p].st
    <2>1. sub[p].idx + 1 \in Index
      BY Fields DEF Index
    <2> QED BY <1>1, <2>1, Fields, PointTyped DEF SubChannelRecord, NextIdx, CanOffer
  <1>3. m \in Message /\ m.type = "Offer"
    BY <1>2, MsgTyped DEF MessageType, Message
  <1> HIDE DEF s2, m
  <1>4. sub'[p] = s2 /\ Says(p, m) /\ net'[p] = net[p] /\ Offers(p)
    BY <1>1, SetSubFrame, SendSays, OfferKind
  <1>5. KeepsFields(p) /\ Answers(p, m)
    BY <1>2, <1>3, <1>4 DEF KeepsFields, Answers
  <1>6. torn => torn'
    BY <1>1 DEF Torn
  <1>7. ~torn' => ready[p]
    BY <1>1 DEF Torn, Recovering
  <1> QED BY <1>1, <1>3, <1>4, <1>5, <1>6, <1>7, NothingTaken, PlainDetail DEF PlainStep

(* Steps that take no message and leave the balance and the Lightning      *)
(* secret alone.                                                           *)
LEMMA SendDetail ==
    ASSUME TypeInv, NEW p \in Party, NEW m \in Message, Send(p, m),
           m.type \notin {"CloseConfirm", "CloseFinalize"}, PlainStep(p), ~Offers(p),
           torn => torn', UNCHANGED actions, ln'[Other(p)] = ln[Other(p)],
           ln'[p].open => ln[p].open,
           watch'[p] = watch[p] \/ sub'[p].st # sub[p].st,
           KeepsFields(p) \/ sub[p].st \in SplitStates \ {"CloseConfirmed"}
    PROVE  Detail(p)
  <1>1. Says(p, m) /\ ~Got(p, "Reestablish") /\ Answers(p, m)
    BY SendSays, NothingTaken DEF Answers
  <1> QED BY <1>1, PlainDetail

LEMMA RejectDetail ==
    ASSUME TypeInv, NEW p \in Party, RejectSubChannelOffer(p) \/ RejectSubChannelCloseOffer(p)
    PROVE  Detail(p)
  <1>1. PICK st \in {"Rejected", "Signed"} :
          /\ SetSub(p, [sub[p] EXCEPT !.st = st]) /\ Send(p, Msg("Reject"))
          /\ UNCHANGED <<ln, watch, actions>> /\ (torn => torn')
    BY DEF RejectSubChannelOffer, RejectSubChannelCloseOffer, Torn, actVars
  <1>2. sub'[p] = [sub[p] EXCEPT !.st = st]
    BY <1>1, SetSubFrame
  <1>3. KeepsFields(p) /\ sub'[p].st = st
    BY <1>2, Fields DEF KeepsFields, SubChannelRecord
  <1>4. Msg("Reject") \in Message /\ Msg("Reject").type = "Reject"
    BY MsgTyped DEF MessageType
  <1>5. Drifts(p)
    BY RejectKind
  <1>6. ~Offers(p)
    BY <1>3 DEF Offers, Renewed
  <1> QED BY <1>1, <1>3, <1>4, <1>5, <1>6, SendDetail DEF PlainStep

LEMMA OfferCloseDetail ==
    ASSUME TypeInv, NEW p \in Party, NEW b \in 0 .. TotalCollateral, OfferSubchannelClose(p, b)
    PROVE  Detail(p)
  <1> DEFINE m == [Msg("CloseOffer") EXCEPT !.balance = b]
  <1>1. /\ In(p, "Signed") /\ Send(p, m) /\ UNCHANGED <<ln, watch, actions>> /\ (torn => torn')
        /\ sub'[p] = [sub[p] EXCEPT !.st = "CloseOffered", !.ours = TRUE, !.balance = b]
    BY SetSubFrame DEF OfferSubchannelClose, Torn, actVars
  <1>2. m \in Message /\ m.type = "CloseOffer"
    BY MsgTyped DEF MessageType, Message
  <1>3. Drifts(p) /\ ~Offers(p)
    BY <1>1, OfferCloseKind DEF Offers, Renewed, CanOffer, In
  <1> HIDE DEF m
  <1> QED BY <1>1, <1>2, <1>3, SendDetail DEF PlainStep, In, SplitStates

LEMMA AcceptDetail ==
    ASSUME TypeInv, NEW p \in Party, AcceptSubChannel(p)
    PROVE  Detail(p)
  <1> DEFINE t == AcceptedSplit(p, sub[p])
             m == [Msg("Accept") EXCEPT !.point = t.accept, !.split = t]
             s2 == [sub[p] EXCEPT !.st = "Accepted", !.split = t, !.commits = TRUE]
  <1>1. /\ SetSub(p, s2) /\ SetOut(p, "glue") /\ Send(p, m) /\ sub[p].st = "Offered"
        /\ UNCHANGED actions /\ (torn => torn')
    BY DEF AcceptSubChannel, CanAccept, AcceptEffect, In, Torn, actVars
  <1>2. t \in Split /\ t.accept \in Point
    BY Fields, PointTyped DEF AcceptedSplit, Split, Index
  <1> HIDE DEF t
  <1>3. m \in Message /\ m.type = "Accept"
    BY <1>2, MsgTyped DEF MessageType, Message
  <1>4. s2.balance = sub[p].balance /\ s2.checkLnSecret = sub[p].checkLnSecret /\ s2.st = "Accepted"
    BY Fields DEF SubChannelRecord
  <1> HIDE DEF s2, m
  <1>5. KeepsFields(p) /\ sub'[p].st = "Accepted"
    BY <1>1, <1>4, SetSubFrame DEF KeepsFields
  <1>6. PlainStep(p) /\ ~Offers(p)
    BY <1>5, AcceptKind DEF Offers, Renewed, PlainStep
  <1> QED BY <1>1, <1>3, <1>5, <1>6, OutMoved, SendDetail

LEMMA AcceptCloseDetail ==
    ASSUME TypeInv, NEW p \in Party, AcceptSubchannelCloseOffer(p)
    PROVE  Detail(p)
  <1> DEFINE m == [Msg("CloseAccept") EXCEPT !.balance = sub[p].balance]
  <1>1. /\ SetOut(p, "fund") /\ Send(p, m) /\ sub[p].st = "CloseOffered"
        /\ UNCHANGED <<actions, watch>> /\ (torn => torn')
    BY DEF AcceptSubchannelCloseOffer, CanAcceptClose, AcceptCloseEffect, In, Torn, actVars
  <1>2. m \in Message /\ m.type = "CloseAccept"
    BY Fields, MsgTyped DEF MessageType, Message
  <1>3. Drifts(p) /\ ~Offers(p)
    BY <1>1, AcceptCloseKind DEF Offers, Renewed, CanOffer
  <1> HIDE DEF m
  <1> QED BY <1>1, <1>2, <1>3, OutMoved, SendDetail DEF PlainStep, SplitStates

(* Steps that close on chain: no message, no action, and no balance.       *)
LEMMA QuietDetail ==
    ASSUME TypeInv, NEW p \in Party, UNCHANGED <<net, actions>>, torn => torn', PlainStep(p),
           ~Offers(p), ln'[Other(p)] = ln[Other(p)], ln'[p].open => ln[p].open,
           watch'[p] = watch[p] \/ sub'[p].st # sub[p].st, KeepsFields(p)
    PROVE  Detail(p)
  <1>1. Msg("Reject") \in Message /\ Msg("Reject").type = "Reject"
    BY MsgTyped DEF MessageType
  <1>2. Says(p, Msg("Reject")) /\ Answers(p, Msg("Reject")) /\ ~Got(p, "Reestablish")
    BY <1>1, NothingTaken DEF Says, TakesOrNot, Answers
  <1> QED BY <1>1, <1>2, PlainDetail

(* What such a step does to the sub channel.                               *)
Ends(p) ==
    \/ sub'[p] = sub[p] /\ watch'[p] = watch[p]
    \/ /\ sub'[p].st # sub[p].st /\ KeepsFields(p)
       /\ sub'[p].st \in SettledStates \cup {"Closing"}

LEMMA EndsDetail ==
    ASSUME TypeInv, NEW p \in Party, UNCHANGED <<net, actions>>, torn => torn', PlainStep(p),
           ln'[Other(p)] = ln[Other(p)], ln'[p].open => ln[p].open, Ends(p)
    PROVE  Detail(p)
  <1>1. KeepsFields(p) /\ (watch'[p] = watch[p] \/ sub'[p].st # sub[p].st)
    BY DEF Ends, KeepsFields
  <1>2. ~Offers(p)
    BY DEF Ends, Offers, Renewed, CanOffer, SettledStates
  <1> QED BY <1>1, <1>2, QuietDetail

LEMMA Restating ==
    ASSUME TypeInv, NEW p \in Party, NEW st \in SettledStates \cup {"Closing"}, sub[p].st # st,
           \/ SetSub(p, [sub[p] EXCEPT !.st = st])
           \/ \E i \in BOOLEAN, c \in BOOLEAN :
                SetSub(p, [sub[p] EXCEPT !.st = st, !.isInitiator = i, !.commits = c])
    PROVE  Ends(p) /\ sub'[p].st = st
  <1>1. \/ sub'[p] = [sub[p] EXCEPT !.st = st]
        \/ \E i \in BOOLEAN, c \in BOOLEAN :
             sub'[p] = [sub[p] EXCEPT !.st = st, !.isInitiator = i, !.commits = c]
    BY SetSubFrame
  <1> QED BY <1>1, Fields DEF Ends, KeepsFields, SubChannelRecord

LEMMA LnCloses ==
    ASSUME TypeInv, NEW p \in Party
    PROVE  /\ LdkCloses(p) => ln'[Other(p)] = ln[Other(p)] /\ ~ln'[p].open
           /\ UNCHANGED ln => ln'[Other(p)] = ln[Other(p)] /\ ln'[p].open = ln[p].open
  BY Others DEF LdkCloses, TypeInv, TypeOK

LEMMA ForceDetail ==
    ASSUME TypeInv, NEW p \in Party, ForceCloseSubChannel(p)
    PROVE  Detail(p) /\ sub'[p].st \in SettledStates \cup {"Closing"}
  <1>0. PlainStep(p) /\ UNCHANGED <<net, actions, torn>>
    BY ForceCloseKind DEF ForceCloseSubChannel, PlainStep, actVars, historyVars
  <1>1. CASE ForceCloseWithLdk(p)
    <2>1. Ends(p) /\ sub'[p].st = "OnChainClosed"
      BY <1>1, Restating DEF ForceCloseWithLdk, In, SettledStates
    <2> QED BY <1>0, <1>1, <2>1, LnCloses, EndsDetail DEF ForceCloseWithLdk, SettledStates
  <1>2. CASE ForceCloseWithSaved(p)
    <2>1. Ends(p) /\ sub'[p].st = "OnChainClosed"
      BY <1>2, Restating DEF ForceCloseWithSaved, In, SettledStates
    <2> QED BY <1>0, <1>2, <2>1, LnCloses, EndsDetail DEF ForceCloseWithSaved, SettledStates
  <1>3. CASE sub[p].st \in ClosableWithSplit /\ ForceCloseSigned(p, FALSE) /\ UNCHANGED ln
    <2>1. Ends(p) /\ sub'[p].st = "Closing"
      BY <1>3, Restating DEF ForceCloseSigned, ClosableWithSplit
    <2> QED BY <1>0, <1>3, <2>1, LnCloses, EndsDetail
  <1>4. CASE In(p, "CloseAccepted") /\ ForceCloseSigned(p, TRUE) /\ SetOut(p, "glue")
    <2>1. Ends(p) /\ sub'[p].st = "Closing"
      BY <1>4, Restating DEF ForceCloseSigned, In
    <2> QED BY <1>0, <1>4, <2>1, OutMoved, EndsDetail
  <1> QED BY <1>1, <1>2, <1>3, <1>4 DEF ForceCloseSubChannel

LEMMA FailsDetail ==
    ASSUME TypeInv, NEW p \in Party, ForceCloseFails(p)
    PROVE  Detail(p) /\ torn'
  <1>1. UNCHANGED <<net, actions, sub, watch>> /\ PlainStep(p) /\ SetOut(p, "glue") /\ torn'
    BY LdkKind DEF ForceCloseFails, Torn, PlainStep, subVars, actVars
  <1>2. Ends(p)
    BY <1>1 DEF Ends
  <1> QED BY <1>1, <1>2, OutMoved, EndsDetail

LEMMA LdkDetail ==
    ASSUME TypeInv, NEW p \in Party,
           LdkForceClose(p) \/ LdkPeerClosed(p) \/ PublishHeld(p) \/ SweepHeld(p)
    PROVE  Detail(p) /\ (UNCHANGED ln \/ ~ln'[p].open)
  <1>1. /\ UNCHANGED <<net, actions, torn, sub, watch>> /\ PlainStep(p)
        /\ LdkCloses(p) \/ UNCHANGED ln
    BY LdkKind DEF LdkForceClose, LdkPeerClosed, PublishHeld, SweepHeld, PlainStep, subVars, actVars,
                   historyVars
  <1>2. Ends(p)
    BY <1>1 DEF Ends
  <1> QED BY <1>1, <1>2, LnCloses, EndsDetail

LEMMA NotifyDetail ==
    ASSUME TypeInv, NEW p \in Party, Notify(p)
    PROVE  Detail(p) /\ (UNCHANGED <<sub, dlc, ln>> \/ Closed(p)')
  <1>0. PlainStep(p) /\ UNCHANGED <<net, actions, torn>>
    BY NotifyCounterKind, NotifyHolderKind
       DEF Notify, NotifyCounterClosed, NotifyHolderClosed, PlainStep, actVars, historyVars
  <1>1. CASE UNCHANGED <<sub, dlc, ln, watch>>
    <2>1. Ends(p)
      BY <1>1 DEF Ends
    <2> QED BY <1>0, <1>1, <2>1, LnCloses, EndsDetail
  <1>2. ASSUME NEW st \in SettledStates, sub[p].st # st, SetSub(p, [sub[p] EXCEPT !.st = st]),
               UNCHANGED ln
        PROVE  Detail(p) /\ Closed(p)'
    <2>1. Ends(p) /\ sub'[p].st = st
      BY <1>2, Restating
    <2> QED BY <1>0, <1>2, <2>1, LnCloses, EndsDetail DEF Closed
  <1>3. CASE ForceCloseSigned(p, TRUE) /\ sub[p].st # "Closing"
             /\ (UNCHANGED ln \/ SetOut(p, "glue"))
    <2>1. Ends(p) /\ sub'[p].st = "Closing"
      BY <1>3, Restating DEF ForceCloseSigned
    <2> QED BY <1>0, <1>3, <2>1, LnCloses, OutMoved, EndsDetail DEF Closed
  <1>4. CASE NotifyCounterClosed(p)
    BY <1>1, <1>2, <1>4 DEF NotifyCounterClosed, SettledStates, In, subVars
  <1>5. CASE NotifyHolderClosed(p)
    BY <1>1, <1>2, <1>3, <1>5 DEF NotifyHolderClosed, ForceCloseWithSaved, SettledStates, In, subVars
  <1> QED BY <1>4, <1>5 DEF Notify

LEMMA CheckDetail ==
    ASSUME TypeInv, NEW p \in Party, CheckSplit(p) \/ CheckRevoked(p) \/ FinalizeForceClose(p)
    PROVE  Detail(p) /\ Closed(p)'
  <1>0. PlainStep(p) /\ UNCHANGED <<net, actions, torn>>
    BY CheckSplitKind, CheckRevokedKind, FinalizeForceKind
       DEF CheckSplit, CheckRevoked, FinalizeForceClose, PlainStep, actVars, historyVars
  <1>1. CASE CheckSplit(p)
    <2>1. sub[p].st # "Closing" /\ (UNCHANGED ln \/ SetOut(p, "split"))
      BY <1>1 DEF CheckSplit
    <2>2. Ends(p) /\ sub'[p].st = "Closing"
      <3>1. sub'[p] = [sub[p] EXCEPT !.st = "Closing", !.isInitiator = FALSE,
                                     !.commits = @ /\ sub[p].st \notin {"Signed", "CloseOffered"}]
        BY <1>1, SetSubFrame DEF CheckSplit
      <3> QED BY <2>1, <3>1, Fields DEF Ends, KeepsFields, SubChannelRecord
    <2> QED BY <1>0, <2>1, <2>2, LnCloses, OutMoved, EndsDetail DEF Closed
  <1>2. CASE CheckRevoked(p)
    <2>1. SetSub(p, [sub[p] EXCEPT !.st = "ClosedPunished"]) /\ UNCHANGED <<ln, watch>>
      BY <1>2 DEF CheckRevoked
    <2>2. CASE sub[p].st # "ClosedPunished"
      <3>1. Ends(p) /\ sub'[p].st = "ClosedPunished"
        BY <2>1, <2>2, Restating DEF SettledStates
      <3> QED BY <1>0, <2>1, <3>1, LnCloses, EndsDetail DEF Closed, SettledStates
    <2>3. CASE sub[p].st = "ClosedPunished"
      <3>1. sub'[p] = sub[p] /\ Ends(p)
        BY <2>1, <2>3, SetSubFrame, Fields DEF SubChannelRecord, Ends
      <3> QED BY <1>0, <2>1, <2>3, <3>1, LnCloses, EndsDetail DEF Closed, SettledStates
    <2> QED BY <2>2, <2>3
  <1>3. CASE FinalizeForceClose(p)
    <2>1. PICK st \in SettledStates : SetSub(p, [sub[p] EXCEPT !.st = st])
      BY <1>3 DEF FinalizeForceClose, SettledStates
    <2>2. Ends(p) /\ sub'[p].st = st /\ (LdkCloses(p) \/ UNCHANGED ln)
      BY <1>3, <2>1, Restating DEF FinalizeForceClose, SettledStates, In
    <2> QED BY <1>0, <2>2, LnCloses, EndsDetail DEF Closed
  <1> QED BY <1>1, <1>2, <1>3

-----------------------------------------------------------------------------
(* Handling a message.                                                     *)

LEMMA TakeDetail ==
    ASSUME TypeInv, NEW p \in Party, NEW m \in Message, net[p] # <<>>,
           Head(net[p]).type # "Reestablish" \/ ~ln[p].open,
           Reply(p, m) \/ Consume(p), Answers(p, m), PlainStep(p) \/ Discloses(p), ~Offers(p),
           UNCHANGED <<actions, torn>>,
           ln'[Other(p)] = ln[Other(p)], ln'[p].open => ln[p].open,
           watch'[p] = watch[p] \/ sub'[p].st # sub[p].st,
           KeepsFields(p) \/ sub[p].st \in SplitStates \ {"CloseConfirmed"}
    PROVE  Detail(p)
  <1>1. Says(p, m)
    BY ReplySays, ConsumeTakes, SilentSays
  <1>2. Got(p, "Reestablish") => ~ln[p].open
    BY DEF Got
  <1> QED BY <1>1, <1>2, PlainDetail

LEMMA AnyAnswer ==
    ASSUME NEW p
    PROVE  Msg("Reject") \in Message /\ Answers(p, Msg("Reject"))
  BY MsgTyped DEF MessageType, Answers

LEMMA GetOfferDetail ==
    ASSUME TypeInv, NEW p \in Party, OnSubchannelOffer(p)
    PROVE  Detail(p)
  <1> DEFINE s2 == [sub[p] EXCEPT !.st = "Offered", !.isOffer = FALSE, !.idx = NextIdx(sub[p]),
                                  !.point = Head(net[p]).point,
                                  !.basePoints = @ \/ sub[p].st = "None"]
  <1>1. /\ SetSub(p, s2) /\ Consume(p) /\ net[p] # <<>> /\ Head(net[p]).type = "Offer"
        /\ UNCHANGED <<ln, watch, actions, torn>>
    BY DEF OnSubchannelOffer, Received, actVars, historyVars
  <1>2. s2.balance = sub[p].balance /\ s2.checkLnSecret = sub[p].checkLnSecret
        /\ s2.isOffer = FALSE
    BY Fields DEF SubChannelRecord
  <1> HIDE DEF s2
  <1>3. KeepsFields(p) /\ GetsOffer(p)
    BY <1>1, <1>2, SetSubFrame, GetOfferKind DEF KeepsFields
  <1>4. ~Offers(p)
    BY <1>3 DEF GetsOffer, Offers, Renewed
  <1> QED BY <1>1, <1>3, <1>4, AnyAnswer, TakeDetail DEF PlainStep

LEMMA ConfirmDetail ==
    ASSUME TypeInv, NEW p \in Party, OnSubchannelAccept(p)
    PROVE  Detail(p)
  <1> DEFINE t == OfferedSplit(sub[p], Head(net[p]))
             s2 == [sub[p] EXCEPT !.st = "Confirmed", !.split = t, !.basePoints = TRUE,
                                  !.commits = TRUE]
             m == [Msg("Confirm") EXCEPT !.split = t]
  <1>1. /\ SetSub(p, s2) /\ SetOut(p, "glue") /\ Reply(p, m) /\ sub[p].st = "Offered"
        /\ net[p] # <<>> /\ Head(net[p]).type = "Accept" /\ UNCHANGED <<actions, torn>>
        /\ t = Head(net[p]).split
    BY DEF OnSubchannelAccept, CanConfirm, In, Received, AcceptValid, actVars, historyVars
  <1>2. t \in Split
    BY <1>1, Heads DEF Message
  <1> HIDE DEF t
  <1>3. m \in Message /\ m.type = "Confirm"
    BY <1>2, MsgTyped DEF MessageType, Message
  <1>4. s2.balance = sub[p].balance /\ s2.checkLnSecret = sub[p].checkLnSecret /\ s2.st = "Confirmed"
    BY Fields DEF SubChannelRecord
  <1> HIDE DEF s2, m
  <1>5. KeepsFields(p) /\ sub'[p].st = "Confirmed" /\ Answers(p, m)
    BY <1>1, <1>3, <1>4, SetSubFrame DEF KeepsFields, Answers
  <1>6. PlainStep(p) /\ ~Offers(p)
    BY <1>5, ConfirmKind DEF Offers, Renewed, PlainStep
  <1> QED BY <1>1, <1>3, <1>5, <1>6, OutMoved, TakeDetail

LEMMA InvalidDetail ==
    ASSUME TypeInv, NEW p \in Party,
           \/ OnSubchannelAcceptInvalid(p) \/ OnSubChannelCloseAcceptInvalid(p)
           \/ OnSubChannelMessageError(p)
    PROVE  Detail(p)
  <1>1. /\ net[p] # <<>> /\ Consume(p) /\ UNCHANGED <<sub, watch, actions, torn>>
        /\ UNCHANGED ln \/ \E o \in {"fund", "glue"} : SetOut(p, o)
        /\ Head(net[p]).type # "Reestablish" \/ ~ln[p].open
    BY DEF OnSubchannelAcceptInvalid, OnSubChannelCloseAcceptInvalid, OnSubChannelMessageError,
           Received, Handled, subVars, actVars, historyVars
  <1>2. ln'[Other(p)] = ln[Other(p)] /\ (ln'[p].open => ln[p].open)
    BY <1>1, OutMoved
  <1>3. KeepsFields(p) /\ ~Offers(p)
    BY <1>1 DEF KeepsFields, Offers, Renewed, CanOffer
  <1> QED BY <1>1, <1>2, <1>3, InvalidKind, AnyAnswer, TakeDetail DEF PlainStep

LEMMA FinalizeDetail ==
    ASSUME TypeInv, NEW p \in Party, OnSubchannelConfirm(p) \/ OnSubChannelFinalize(p)
    PROVE  Detail(p)
  <1>1. PICK st \in {"Finalized", "Signed"} :
          /\ SetSub(p, [sub[p] EXCEPT !.st = st, !.commits = FALSE])
          /\ net[p] # <<>> /\ Head(net[p]).type # "Reestablish"
          /\ UNCHANGED <<ln, watch, actions, torn>>
    BY DEF OnSubchannelConfirm, OnSubChannelFinalize, Received, actVars
  <1>2. PICK m \in Message : Reply(p, m) /\ m.type \in {"Finalize", "Revoke"}
    <2>1. sub[p].split \in Split
      BY Fields
    <2>2. /\ [Msg("Finalize") EXCEPT !.split = sub[p].split] \in Message
          /\ [Msg("Finalize") EXCEPT !.split = sub[p].split].type = "Finalize"
          /\ Msg("Revoke") \in Message /\ Msg("Revoke").type = "Revoke"
      BY <2>1, MsgTyped DEF MessageType, Message
    <2> QED BY <2>2 DEF OnSubchannelConfirm, OnSubChannelFinalize
  <1> DEFINE s2 == [sub[p] EXCEPT !.st = st, !.commits = FALSE]
  <1>3. s2.balance = sub[p].balance /\ s2.checkLnSecret = sub[p].checkLnSecret /\ s2.st = st
    BY Fields DEF SubChannelRecord
  <1>4. SetSub(p, s2)
    BY <1>1
  <1> HIDE DEF s2
  <1>5. KeepsFields(p) /\ ~Offers(p) /\ Answers(p, m)
    BY <1>2, <1>3, <1>4, SetSubFrame DEF KeepsFields, Offers, Renewed, Answers
  <1>6. PlainStep(p)
    BY FinalizeKind, SignKind DEF PlainStep
  <1> QED BY <1>1, <1>2, <1>5, <1>6, LnCloses, TakeDetail

LEMMA RestateDetail ==
    ASSUME TypeInv, NEW p \in Party, OnSubChannelRevoke(p) \/ OnSubChannelReject(p)
    PROVE  Detail(p)
  <1>1. PICK st \in {"Rejected", "Signed"} :
          /\ SetSub(p, [sub[p] EXCEPT !.st = st]) /\ Consume(p)
          /\ net[p] # <<>> /\ Head(net[p]).type # "Reestablish"
          /\ UNCHANGED <<ln, watch, actions, torn>>
    BY DEF OnSubChannelRevoke, OnSubChannelReject, Received, actVars, historyVars
  <1>2. sub'[p] = [sub[p] EXCEPT !.st = st]
    BY <1>1, SetSubFrame
  <1>3. KeepsFields(p) /\ sub'[p].st = st
    BY <1>2, Fields DEF KeepsFields, SubChannelRecord
  <1>4. PlainStep(p) /\ ~Offers(p)
    BY <1>3, RejectKind, RevokeKind DEF Offers, Renewed, PlainStep
  <1> QED BY <1>1, <1>3, <1>4, LnCloses, AnyAnswer, TakeDetail

LEMMA GetOfferCloseDetail ==
    ASSUME TypeInv, NEW p \in Party, OnSubChannelCloseOffer(p)
    PROVE  Detail(p)
  <1>1. /\ Consume(p) /\ net[p] # <<>> /\ Head(net[p]).type # "Reestablish"
        /\ UNCHANGED <<ln, watch, actions, torn>>
        /\ UNCHANGED sub \/ sub[p].st = "Signed"
    BY DEF OnSubChannelCloseOffer, In, Received, actVars, historyVars
  <1>2. PlainStep(p)
    BY GetOfferCloseKind DEF PlainStep
  <1>3. ~Offers(p) /\ (KeepsFields(p) \/ sub[p].st \in SplitStates \ {"CloseConfirmed"})
    BY <1>1 DEF Offers, Renewed, CanOffer, KeepsFields, SplitStates
  <1> QED BY <1>1, <1>2, <1>3, LnCloses, AnyAnswer, TakeDetail

LEMMA CloseAcceptDetail ==
    ASSUME TypeInv, NEW p \in Party, OnSubChannelCloseAccept(p)
    PROVE  Detail(p)
  <1> DEFINE s2 == [sub[p] EXCEPT !.st = "CloseConfirmed", !.commits = TRUE,
                                  !.balance = OfferBalance(sub[p]), !.checkLnSecret = TRUE]
             m == [Msg("CloseConfirm") EXCEPT !.point = PerSplitPoint(p, sub[p].idx),
                                              !.balance = sub[p].balance]
  <1>1. SetSub(p, s2) /\ Reply(p, m) /\ sub[p].st = "CloseOffered" /\ SetOut(p, "fund")
        /\ net[p] # <<>> /\ Head(net[p]).type = "CloseAccept"
        /\ UNCHANGED <<watch, actions, torn>>
    BY DEF OnSubChannelCloseAccept, CanConfirmClose, In, Received, actVars
  <1>2. s2.balance = TotalCollateral - sub[p].balance
    BY Fields DEF SubChannelRecord, OfferBalance
  <1>3. m \in Message /\ m.type = "CloseConfirm" /\ m.balance = sub[p].balance
    BY MsgTyped, Fields, PointTyped DEF MessageType, Message
  <1> HIDE DEF s2, m
  <1>4. sub'[p] = s2 /\ Discloses(p)
    BY <1>1, SetSubFrame, CloseAcceptKind
  <1>5. sub[p].balance \in 0 .. TotalCollateral /\ TotalCollateral \in Nat
    BY Fields, SubChannelAssumption DEF SubChannelRecord
  <1>6. sub'[p].balance + m.balance = TotalCollateral
    BY <1>2, <1>3, <1>4, <1>5
  <1>7. Answers(p, m) /\ ~Offers(p)
    BY <1>1, <1>3, <1>6 DEF Answers, Offers, Renewed, CanOffer
  <1> QED BY <1>1, <1>3, <1>4, <1>7, OutMoved, TakeDetail DEF SplitStates

LEMMA StoreDetail ==
    ASSUME TypeInv, NEW p \in Party, NEW x \in Message, OffChainClosed(p, x)
    PROVE  KeepsFields(p) /\ sub'[p].st = "OffChainClosed"
  <1>1. sub'[p] = [sub[p] EXCEPT !.st = "OffChainClosed", !.commits = FALSE,
                                 !.secrets = StoreSecret(sub[p], x.point)]
    BY SetSubFrame DEF OffChainClosed
  <1> QED BY <1>1, Fields DEF KeepsFields, SubChannelRecord

LEMMA CloseConfirmDetail ==
    ASSUME TypeInv, NEW p \in Party, OnSubChannelCloseConfirm(p)
    PROVE  Detail(p)
  <1> DEFINE m == [Msg("CloseFinalize") EXCEPT !.point = PerSplitPoint(p, sub[p].idx),
                                               !.lnSecret = TRUE]
  <1>1. /\ OffChainClosed(p, Head(net[p])) /\ Reply(p, m) /\ sub[p].st = "CloseAccepted"
        /\ net[p] # <<>> /\ Head(net[p]).type = "CloseConfirm"
        /\ Head(net[p]).balance = sub[p].balance
        /\ UNCHANGED <<ln, actions, torn>>
    BY DEF OnSubChannelCloseConfirm, CanCloseOff, In, Received, actVars
  <1>2. m \in Message /\ m.type = "CloseFinalize" /\ m.lnSecret
    BY MsgTyped, Fields, PointTyped DEF MessageType, Message
  <1> HIDE DEF m
  <1>3. Got(p, "CloseConfirm") /\ Says(p, m) /\ Answers(p, m)
    BY <1>1, <1>2, ReplySays DEF Got, Answers
  <1>4. KeepsFields(p) /\ sub'[p].st = "OffChainClosed"
    BY <1>1, Heads, StoreDetail
  <1>5. Msgs(Other(p))' \subseteq Msgs(Other(p)) \cup {m} /\ Again(p)' = Again(p)
    BY <1>1, <1>2, <1>3, SaysHeard DEF Heard, Again
  <1>6. ~Offers(p) /\ ~WatchesEarly(p) /\ ~Got(p, "Reestablish")
    BY <1>1, <1>3 DEF Offers, Renewed, CanOffer, WatchesEarly, Got
  <1>7. ln'[Other(p)] = ln[Other(p)] /\ (ln'[p].open => ln[p].open)
        /\ actions'[Other(p)] = actions[Other(p)] /\ (torn => torn')
    BY <1>1
  <1> QED BY <1>1, <1>3, <1>4, <1>5, <1>6, <1>7 DEF Detail

LEMMA CloseFinalizeDetail ==
    ASSUME TypeInv, NEW p \in Party, OnSubChannelCloseFinalize(p)
    PROVE  Detail(p)
  <1>1. /\ Usable(p) /\ sub[p].st = "CloseConfirmed" /\ Consume(p)
        /\ net[p] # <<>> /\ Head(net[p]).type = "CloseFinalize"
        /\ Head(net[p]).point = CounterPoint(p, sub[p].split)
        /\ UNCHANGED <<ln, actions, torn>>
        /\ \/ OffChainClosed(p, Head(net[p]))
           \/ UNCHANGED sub /\ sub[p].checkLnSecret /\ ~Head(net[p]).lnSecret
    BY DEF OnSubChannelCloseFinalize, CanFinalizeClose, SecretValid, In, Received, actVars,
           historyVars, subVars
  <1>2. Takes(p) /\ Silent(p)
    BY <1>1, ConsumeTakes
  <1>3. Msgs(Other(p))' = Msgs(Other(p)) /\ Again(p)' = Again(p)
    BY <1>1, <1>2, SilentHeard DEF Again
  <1>4. ~Offers(p) /\ ~Got(p, "Reestablish") /\ ~Got(p, "CloseConfirm")
    BY <1>1 DEF Offers, Renewed, CanOffer, Got
  <1>5. KeepsFields(p) /\ (WatchesEarly(p) => LearnsEarly(p))
    <2>1. CASE OffChainClosed(p, Head(net[p]))
      <3>1. KeepsFields(p) /\ sub'[p].st = "OffChainClosed"
        BY <1>1, <2>1, Heads, StoreDetail
      <3> QED BY <1>1, <3>1 DEF WatchesEarly, SameSub
    <2>2. CASE UNCHANGED sub /\ sub[p].checkLnSecret /\ ~Head(net[p]).lnSecret
      BY <1>1, <2>2 DEF KeepsFields, LearnsEarly
    <2> QED BY <1>1, <2>1, <2>2
  <1>6. ln'[Other(p)] = ln[Other(p)] /\ (ln'[p].open => ln[p].open)
        /\ actions'[Other(p)] = actions[Other(p)] /\ (torn => torn')
    BY <1>1
  <1> QED BY <1>3, <1>4, <1>5, <1>6 DEF Detail

-----------------------------------------------------------------------------
(* The reconnection.                                                       *)

RepairKeeps(p, flag, s2) ==
    /\ \/ s2.balance = sub[p].balance /\ s2.checkLnSecret = sub[p].checkLnSecret
       \/ sub[p].st = "CloseAccepted"
       \/ sub[p].st = "CloseConfirmed" /\ s2.st = "CloseOffered"
       \/ sub[p].st = "CloseConfirmed" /\ s2.balance = sub[p].balance /\ ~s2.checkLnSecret
    /\ flag \in {"Offered", "OffChainClosed"} /\ s2.st = "CloseConfirmed" => ~s2.checkLnSecret

LEMMA RepairedKeeps ==
    ASSUME TypeInv, NEW p \in Party, NEW flag \in ReestablishFlag \cup {"none"}
    PROVE  RepairKeeps(p, flag, Repaired(p, flag).sub)
  <1>1. sub[p] \in SubChannelRecord
    BY Fields
  <1>2. ASSUME NEW d, NEW o, NEW list, sub[p].st # "CloseConfirmed"
        PROVE  RepairKeeps(p, flag, Repair(sub[p], d, o, list).sub)
    BY <1>2 DEF RepairKeeps, Repair
  <1>3. ASSUME NEW pt, NEW d, NEW o, NEW list, sub[p].st # "CloseConfirmed"
        PROVE  RepairKeeps(p, flag, Repair([sub[p] EXCEPT !.st = "Offered", !.point = pt,
                                                          !.commits = FALSE], d, o, list).sub)
    BY <1>1, <1>3 DEF RepairKeeps, Repair, SubChannelRecord
  <1>5. CASE sub[p].st = "CloseConfirmed"
    <2>1. Repaired(p, flag) = ReestablishCloseConfirmed(p, flag)
      BY <1>5 DEF Repaired, In
    <2>2. CASE flag = "CloseAccepted"
      <3> DEFINE s2 == [sub[p] EXCEPT !.st = "CloseOffered", !.ours = TRUE,
                                      !.balance = TotalCollateral - sub[p].balance,
                                      !.commits = FALSE, !.checkLnSecret = FALSE]
      <3>1. Repaired(p, flag).sub = s2
        BY <2>1, <2>2 DEF ReestablishCloseConfirmed, BackToCloseOffered, Repair
      <3>2. s2.st = "CloseOffered"
        BY <1>1 DEF SubChannelRecord
      <3> HIDE DEF s2
      <3> QED BY <1>5, <3>1, <3>2 DEF RepairKeeps
    <2>3. CASE flag \notin {"CloseAccepted", "none"}
      <3>1. Repaired(p, flag) = Repair([sub[p] EXCEPT !.checkLnSecret = FALSE], dlc[p], ln[p].out,
                                       <<>>)
        BY <2>1, <2>3 DEF ReestablishCloseConfirmed
      <3> QED BY <1>1, <1>5, <3>1 DEF RepairKeeps, Repair, SubChannelRecord
    <2>4. CASE flag = "none"
      BY <1>5, <2>1, <2>4 DEF ReestablishCloseConfirmed, NoRepair, RepairKeeps, Repair
    <2> QED BY <2>2, <2>3, <2>4
  <1>6. CASE sub[p].st = "CloseAccepted"
    BY <1>6, RepairedOk DEF RepairOk, Returned, RepairKeeps
  <1>7. CASE sub[p].st \in {"Accepted", "Confirmed", "Finalized"}
    BY <1>2, <1>3, <1>7 DEF Repaired, In, ReestablishAccepted, ReestablishConfirmed,
       ReestablishFinalized, BackToOffered, NoRepair, Todo
  <1>8. CASE sub[p].st \notin {"Accepted", "Confirmed", "Finalized", "CloseAccepted", "CloseConfirmed"}
    BY <1>2, <1>8 DEF Repaired, In, ReestablishOffered, ReestablishCloseOffered,
       ReestablishOffChainClosed, NoRepair, Todo
  <1> QED BY <1>5, <1>6, <1>7, <1>8

LEMMA ConcatItems ==
    ASSUME NEW u \in Seq(Action), NEW v \in Seq(Action), NEW i \in 1 .. Len(u \o v)
    PROVE  \/ \E j \in 1 .. Len(u) : (u \o v)[i] = u[j]
           \/ \E j \in 1 .. Len(v) : (u \o v)[i] = v[j]
  <1>1. /\ Len(u \o v) = Len(u) + Len(v)
        /\ \A k \in 1 .. (Len(u) + Len(v)) :
             (u \o v)[k] = IF k <= Len(u) THEN u[k] ELSE v[k - Len(u)]
    BY ConcatProperties
  <1>2. Len(u) \in Nat /\ Len(v) \in Nat
    OBVIOUS
  <1>3. CASE i <= Len(u)
    BY <1>1, <1>2, <1>3
  <1>4. CASE ~(i <= Len(u))
    <2>1. i - Len(u) \in 1 .. Len(v) /\ (u \o v)[i] = v[i - Len(u)]
      BY <1>1, <1>2, <1>4
    <2> QED BY <2>1
  <1> QED BY <1>3, <1>4

LEMMA ReturnDetail ==
    ASSUME TypeInv, NEW p \in Party, OnChannelReestablish(p)
    PROVE  Detail(p)
  <1> DEFINE flag == Head(net[p]).flag
             r == Repaired(p, flag)
  <1>1. /\ net[p] # <<>> /\ Head(net[p]).type = "Reestablish" /\ SetSub(p, r.sub)
        /\ Push(p, r.list) /\ Consume(p) /\ ready' = [ready EXCEPT ![p] = TRUE]
        /\ ln[p].open /\ SetOut(p, r.out) /\ UNCHANGED <<watch, torn>>
    BY DEF OnChannelReestablish, Received, historyVars
  <1>2. flag \in ReestablishFlag \cup {"none"}
    BY <1>1, Heads DEF Message
  <1>3. RepairOk(p, flag, r) /\ RepairKeeps(p, flag, r.sub)
    BY <1>2, RepairedOk, RepairedKeeps
  <1>4. Returns(p) /\ sub'[p] = r.sub /\ ready'[p]
    BY <1>1, ReturnKind, SetSubFrame DEF TypeInv, TypeOK
  <1> HIDE DEF r
  <1>5. /\ actions'[p] = actions[p] \o r.list
        /\ actions'[Other(p)] = actions[Other(p)] /\ actions[p] \in Seq(Action)
    BY <1>1, Others DEF TypeInv, TypeOK, Push
  <1>6. ASSUME NEW x \in Again(p)'
        PROVE  \/ x \in Again(p)
               \/ flag = "CloseConfirmed" /\ sub[p].st \in {"Offered", "OffChainClosed"}
    <2>1. PICK i \in 1 .. Len(actions'[p]) :
            actions'[p][i].type = "ResendCloseFinalize" /\ x = actions'[p][i].point
      BY DEF Again
    <2>2. r.list \in Seq(Action)
      BY <1>3 DEF RepairOk
    <2>3. \/ \E j \in 1 .. Len(actions[p]) : actions'[p][i] = actions[p][j]
          \/ \E j \in 1 .. Len(r.list) : actions'[p][i] = r.list[j]
      <3> DEFINE u == actions[p]  v == r.list
      <3>1. u \in Seq(Action) /\ v \in Seq(Action) /\ actions'[p] = u \o v
        BY <1>5, <2>2
      <3> HIDE DEF u, v
      <3>2. i \in 1 .. Len(u \o v) /\ actions'[p][i] = (u \o v)[i]
        BY <2>1, <3>1
      <3> QED BY <3>1, <3>2, ConcatItems DEF u, v
    <2>4. CASE \E j \in 1 .. Len(actions[p]) : actions'[p][i] = actions[p][j]
      BY <2>1, <2>4 DEF Again
    <2>5. CASE \E j \in 1 .. Len(r.list) : actions'[p][i] = r.list[j]
      BY <1>3, <2>1, <2>5 DEF RepairOk, NewAction
    <2> QED BY <2>3, <2>4, <2>5
  <1>7. Got(p, "Reestablish") /\ Msgs(Other(p))' = Msgs(Other(p))
    BY <1>4, SilentHeard DEF Returns
  <1>8. ~Merges(p)
    BY <1>4, PlainApart DEF PlainStep
  <1>9. ~Offers(p) /\ (WatchesEarly(p) => Idles(p))
    BY <1>1, <1>4 DEF Returns, Returned, Offers, Renewed, CanOffer, WatchesEarly, Idles
  <1>10. /\ \/ KeepsFields(p)
            \/ sub[p].st \in SplitStates \ {"CloseConfirmed"} /\ ~Merges(p)
            \/ sub[p].st = "CloseConfirmed" /\ sub'[p].st = "CloseOffered"
            \/ /\ sub[p].st = "CloseConfirmed" /\ sub'[p].balance = sub[p].balance
               /\ ~sub'[p].checkLnSecret
         /\ flag \in {"Offered", "OffChainClosed"} /\ sub'[p].st = "CloseConfirmed"
              => ~sub'[p].checkLnSecret
    BY <1>3, <1>4, <1>8 DEF RepairKeeps, KeepsFields, SplitStates
  <1>11. ln'[Other(p)] = ln[Other(p)] /\ (ln'[p].open => ln[p].open) /\ (torn => torn')
    BY <1>1, OutMoved
  <1> QED BY <1>1, <1>4, <1>5, <1>6, <1>7, <1>8, <1>9, <1>10, <1>11 DEF Detail

LEMMA AgainLess ==
    ASSUME TypeInv, NEW p \in Party, ProcessActions(p)
    PROVE  Again(p)' \subseteq Again(p) /\ actions'[Other(p)] = actions[Other(p)]
  <1>1. actions \in [Party -> Seq(Action)]
    BY DEF TypeInv, TypeOK
  <1>2. PICK i \in 1 .. Len(actions[p]) :
          actions' = [actions EXCEPT ![p] = SubSeq(actions[p], 1, i - 1)
                                            \o SubSeq(actions[p], i + 1, Len(actions[p]))]
    BY ProcessCases
  <1>3. \A j \in 1 .. Len(actions'[p]) : \E k \in 1 .. Len(actions[p]) :
          actions'[p][j] = actions[p][k]
    <2> DEFINE s == actions[p]  u == SubSeq(s, 1, i - 1) \o SubSeq(s, i + 1, Len(s))
    <2>1. s \in Seq(Action) /\ i \in 1 .. Len(s) /\ actions'[p] = u
      BY <1>1, <1>2
    <2>2. \A j \in 1 .. Len(u) : \E k \in 1 .. Len(s) : u[j] = s[k]
      <3> HIDE DEF s
      <3> QED BY <2>1, CutLeft
    <2> HIDE DEF u
    <2> QED BY <2>1, <2>2
  <1>4. Again(p)' \subseteq Again(p)
    BY <1>3 DEF Again
  <1> QED BY <1>1, <1>2, <1>4, Others

LEMMA ProcessDetail ==
    ASSUME TypeInv, NEW p \in Party, ProcessActions(p)
    PROVE  Detail(p)
  <1>1. Again(p)' \subseteq Again(p) /\ actions'[Other(p)] = actions[Other(p)] /\ UNCHANGED torn
    BY AgainLess, ProcessCases DEF historyVars
  <1>2. PlainStep(p)
    BY ProcessKind DEF PlainStep
  <1>3. ASSUME NEW m \in Message, Send(p, m) \/ UNCHANGED net, Answers(p, m), ~Offers(p),
               ln'[Other(p)] = ln[Other(p)], ln'[p].open => ln[p].open,
               watch'[p] = watch[p] \/ sub'[p].st # sub[p].st,
               KeepsFields(p)
        PROVE  Detail(p)
    <2>1. Says(p, m) /\ net'[p] = net[p]
      BY <1>3, SendSays DEF Says, TakesOrNot
    <2>2. Msgs(Other(p))' \subseteq Msgs(Other(p)) \cup {m} /\ ~Got(p, "Reestablish")
      BY <2>1, SaysHeard, NothingTaken DEF Heard
    <2>3. ~Merges(p) /\ (WatchesEarly(p) => Idles(p))
      BY <1>2, <1>3, PlainApart DEF WatchesEarly, Idles, SameSub
    <2> QED BY <1>1, <1>3, <2>2, <2>3 DEF Detail
  <1>4. CASE Dropped(p)
    <2>1. UNCHANGED <<sub, ln, watch, net>> /\ KeepsFields(p) /\ ~Offers(p)
      BY <1>4 DEF Dropped, subVars, KeepsFields, Offers, Renewed, CanOffer
    <2> QED BY <1>3, <2>1, LnCloses, AnyAnswer
  <1>5. CASE Resent(p)
    <2>1. UNCHANGED <<sub, ln, watch>> /\ KeepsFields(p) /\ ~Offers(p)
      BY <1>5 DEF Resent, subVars, KeepsFields, Offers, Renewed, CanOffer
    <2>2. PICK m \in Message : /\ Send(p, m)
                              /\ \/ m.type = "CloseOffer"
                                 \/ \E i \in 1 .. Len(actions[p]) :
                                      /\ actions[p][i] \in Action
                                      /\ m.point = actions[p][i].point
                                      /\ \/ /\ m.type = "Offer"
                                            /\ actions[p][i].type = "ResendOffer"
                                         \/ /\ m.type = "CloseFinalize"
                                            /\ actions[p][i].type = "ResendCloseFinalize"
      BY <1>5, ResentTyped
    <2>3. m.type # "CloseConfirm" /\ (m.type = "CloseFinalize" => m.point \in Again(p))
      BY <2>2 DEF Again
    <2>4. Answers(p, m)
      BY <2>3 DEF Answers
    <2> QED BY <1>3, <2>1, <2>2, <2>4, LnCloses
  <1>6. CASE ForceSigned(p)
    <2>1. sub'[p] = [sub[p] EXCEPT !.st = "Signed"] /\ UNCHANGED <<ln, watch, net>>
      BY <1>6, SetSubFrame DEF ForceSigned, MarkChannelSigned
    <2>2. KeepsFields(p) /\ ~Offers(p)
      BY <2>1, Fields DEF KeepsFields, SubChannelRecord, Offers, Renewed
    <2> QED BY <1>3, <2>1, <2>2, LnCloses, AnyAnswer
  <1>7. CASE CanAccept(p) /\ AcceptEffect(p)
    <2> DEFINE t == AcceptedSplit(p, sub[p])
               m == [Msg("Accept") EXCEPT !.point = t.accept, !.split = t]
               s2 == [sub[p] EXCEPT !.st = "Accepted", !.split = t, !.commits = TRUE]
    <2>1. SetSub(p, s2) /\ SetOut(p, "glue") /\ Send(p, m) /\ sub[p].st = "Offered"
      BY <1>7 DEF CanAccept, AcceptEffect, In
    <2>2. t \in Split /\ t.accept \in Point
      BY Fields, PointTyped DEF AcceptedSplit, Split, Index
    <2> HIDE DEF t
    <2>3. m \in Message /\ m.type = "Accept"
      BY <2>2, MsgTyped DEF MessageType, Message
    <2>4. s2.balance = sub[p].balance /\ s2.checkLnSecret = sub[p].checkLnSecret /\ s2.st = "Accepted"
      BY Fields DEF SubChannelRecord
    <2> HIDE DEF s2, m
    <2>5. KeepsFields(p) /\ sub'[p].st = "Accepted" /\ Answers(p, m) /\ ~Offers(p)
      BY <2>1, <2>3, <2>4, SetSubFrame DEF KeepsFields, Answers, Offers, Renewed
    <2> QED BY <1>3, <2>1, <2>3, <2>5, OutMoved
  <1>8. CASE CanAcceptClose(p) /\ AcceptCloseEffect(p) /\ UNCHANGED <<dlc, watch>>
    <2> DEFINE m == [Msg("CloseAccept") EXCEPT !.balance = sub[p].balance]
               s2 == [sub[p] EXCEPT !.st = "CloseAccepted", !.commits = TRUE]
    <2>1. SetOut(p, "fund") /\ Send(p, m) /\ SetSub(p, s2) /\ UNCHANGED watch
      BY <1>8 DEF AcceptCloseEffect
    <2>2. m \in Message /\ m.type = "CloseAccept"
      BY Fields, MsgTyped DEF MessageType, Message
    <2>3. s2.balance = sub[p].balance /\ s2.checkLnSecret = sub[p].checkLnSecret
          /\ s2.st = "CloseAccepted"
      BY Fields DEF SubChannelRecord
    <2> HIDE DEF m, s2
    <2>4. KeepsFields(p) /\ Answers(p, m) /\ ~Offers(p)
      BY <2>1, <2>2, <2>3, SetSubFrame DEF KeepsFields, Answers, Offers, Renewed
    <2> QED BY <1>3, <2>1, <2>2, <2>4, OutMoved
  <1> QED BY <1>4, <1>5, <1>6, <1>7, <1>8, ProcessCases

-----------------------------------------------------------------------------
(* Every step is one of these.                                             *)

Breaks ==
    /\ Drops /\ UNCHANGED <<ln, given>> /\ (torn => torn')
    /\ ~torn' => ready[Alice] = ready[Bob] /\ UNCHANGED actions
Rejoins ==
    /\ Greets /\ UNCHANGED <<ln, given, actions>> /\ (torn => torn')
    /\ ~torn' => \A p \in Party : Again(p) = {}
    /\ \A p \in Party : ln[Other(p)].open => net'[p] # <<>>

LEMMA StepDetail ==
    ASSUME TypeInv, [Next]_vars
    PROVE  Breaks \/ Rejoins \/ \E p \in Party : Trades(p) /\ Detail(p)
  <1>1. CASE UNCHANGED <<sub, watch, held, given, actions, stored, conn, ready, net, ln, torn>>
    <2>1. Alice \in Party
      BY DEF Party
    <2>2. Idles(Alice) /\ Ends(Alice)
      BY <1>1, <2>1, UnmovedSilent, UnmovedSub DEF Ends
    <2>3. Detail(Alice)
      BY <1>1, <2>1, <2>2, LnCloses, EndsDetail DEF PlainStep
    <2> QED BY <1>1, <2>1, <2>2, <2>3 DEF Trades, PlainStep
  <1>2. CASE \E t \in mempool : Confirm(t)
    BY <1>1, <1>2 DEF Confirm, subVars, actVars, historyVars
  <1>3. CASE Mature
    BY <1>1, <1>3 DEF Mature, subVars, actVars, historyVars
  <1>4. CASE UNCHANGED vars
    BY <1>1, <1>4 DEF vars
  <1>5. CASE Disconnect \/ \E p \in Party : Restart(p)
    <2>1. UNCHANGED <<ln, given>> /\ (torn => torn') /\ (~torn' => ready[Alice] = ready[Bob])
      BY <1>5 DEF Disconnect, Restart, Torn
    <2>2. ~torn' => UNCHANGED actions
      <3>1. CASE Disconnect
        BY <3>1 DEF Disconnect, actVars
      <3>2. ASSUME NEW p \in Party, Restart(p), ~torn'
            PROVE  UNCHANGED actions
        <4>1. actions' = [actions EXCEPT ![p] = stored[p]] /\ stored[p] = actions[p]
          BY <3>2 DEF Restart, Torn
        <4>2. actions \in [Party -> Seq(Action)]
          BY DEF TypeInv, TypeOK
        <4> QED BY <4>1, <4>2
      <3> QED BY <1>5, <3>1, <3>2
    <2> QED BY <1>5, <2>1, <2>2, DropKind DEF Breaks
  <1>6. CASE Reconnect
    <2>1. UNCHANGED <<ln, given, actions>> /\ (torn => torn')
      BY <1>6 DEF Reconnect, Torn, actVars
    <2>2. ~torn' => \A p \in Party : Again(p) = {}
      BY <1>6 DEF Reconnect, Torn, RepeatPending, Pending, Again
    <2>3. \A p \in Party : ln[Other(p)].open => net'[p] # <<>>
      BY <1>6 DEF Reconnect
    <2> QED BY <1>6, <2>1, <2>2, <2>3, GreetKind DEF Rejoins
  <1>7. ASSUME NEW p \in Party, Receive(p)
        PROVE  Trades(p) /\ Detail(p)
    BY <1>7, ReceiveTrades, GetOfferDetail, ConfirmDetail, InvalidDetail, FinalizeDetail,
       RestateDetail, GetOfferCloseDetail, CloseAcceptDetail, CloseConfirmDetail,
       CloseFinalizeDetail, ReturnDetail DEF Receive
  <1>8. ASSUME NEW p \in Party,
               Application(p) \/ Accept(p) \/ PeriodicCheck(p) \/ Notify(p) \/ LdkPeerClosed(p)
        PROVE  Trades(p) /\ Detail(p)
    <2>1. Trades(p)
      BY <1>8, OtherTrades DEF Trades
    <2>2. CASE Application(p)
      BY <2>1, <2>2, OfferDetail, RejectDetail, OfferCloseDetail, ForceDetail, FailsDetail,
         LdkDetail DEF Application
    <2>3. CASE Accept(p)
      BY <2>1, <2>3, AcceptDetail, AcceptCloseDetail DEF Accept
    <2>4. CASE PeriodicCheck(p)
      BY <2>1, <2>4, CheckDetail, ProcessDetail DEF PeriodicCheck
    <2>5. CASE Notify(p) \/ LdkPeerClosed(p)
      BY <2>1, <2>5, NotifyDetail, LdkDetail
    <2> QED BY <1>8, <2>2, <2>3, <2>4, <2>5
  <1> QED BY <1>2, <1>3, <1>4, <1>5, <1>6, <1>7, <1>8 DEF Next

-----------------------------------------------------------------------------
(* What each party gets.  The balance a party waits with is the rest of    *)
(* the one its CloseConfirm carries, and of the one its peer merged with.  *)

Shares(p, b) == sub[p].balance + b = TotalCollateral
SharedAhead(p) ==
    sub[p].st = "CloseConfirmed" /\ Count(p) < Count(Other(p)) /\ ~Closed(Other(p)) =>
      Shares(p, sub[Other(p)].balance)
SharedSent(p) ==
    sub[p].st = "CloseConfirmed" /\ ~Settled(Other(p)) =>
      \A m \in Msgs(Other(p)) : m.type = "CloseConfirm" => Shares(p, m.balance)
SharedMerged(p) ==
    sub[p].st = "OffChainClosed" /\ sub[Other(p)].st = "OffChainClosed" =>
      Shares(p, sub[Other(p)].balance)
SharedOf(p) == SharedAhead(p) /\ SharedSent(p) /\ SharedMerged(p)
ShareInv == MergeInv /\ \A p \in Party : SharedOf(p)

LEMMA SharesTyped ==
    ASSUME TypeInv, NEW p \in Party
    PROVE  sub[p].balance \in Nat /\ TotalCollateral \in Nat
  BY Fields, SubChannelAssumption DEF SubChannelRecord

(* A party whose last secret has come is behind its peer.                  *)
LEMMA BehindLast ==
    ASSUME NEW p \in Party, Effect(p), Takes(p), Head(net[p]).type = "CloseFinalize",
           sub[p].st = "CloseConfirmed", Head(net[p]).point = CounterPoint(p, sub[p].split)
    PROVE  Count(p) < Count(Other(p))
  <1> DEFINE q == Other(p)
  <1>1. TypeInv /\ LastOfClose(p) /\ Other(q) = p
    BY DEF Effect, MergeOf
  <1>2. Head(net[p]) \in Msgs(p)
    BY <1>1, TakesMsgs DEF TakesOrNot
  <1>3. Head(net[p]).point \in LastSecrets(q)
    BY <1>1, <1>2 DEF LastSecrets
  <1> QED BY <1>1, <1>3 DEF LastOfClose, SplitStates

LEMMA MergedOnlySo ==
    ASSUME NEW p \in Party, PartyStep(p), ~Merges(p), sub'[p].st = "OffChainClosed"
    PROVE  sub[p].st = "OffChainClosed"
  BY DEF PartyStep, Idles, Resends, Drifts, DriftTo, Offers, GetsOffer, Accepts, Confirms,
         Finalizes, Signs, Returns, Returned, Discloses, WatchesEarly, SameSub, Renewed,
         CanOffer, SetUp, Kept, SettledStates

(* A party out of a split, one that waits, and one that merges keep the    *)
(* balance.                                                                *)
LEMMA BalanceKept ==
    ASSUME NEW p \in Party, Detail(p),
           \/ sub[p].st \notin SplitStates
           \/ sub[p].st = "CloseConfirmed" /\ sub'[p].st # "CloseOffered"
           \/ Merges(p)
    PROVE  sub'[p].balance = sub[p].balance
  BY DEF Detail, KeepsFields, Merges, SplitStates

LEMMA OwnShares ==
    ASSUME NEW p \in Party, Effect(p), Detail(p), SharedOf(p)
    PROVE  SharedAhead(p)' /\ SharedSent(p)'
  <1> DEFINE q == Other(p)
  <1>1. /\ PartyStep(p) /\ sub'[q] = sub[q] /\ Count(q)' = Count(q) /\ Level(q) /\ Other(q) = p
        /\ Count(p) \in Nat /\ Count(q) \in Nat
    BY DEF Effect, MergeOf
  <1>2. SUFFICES ASSUME sub'[p].st = "CloseConfirmed"
                 PROVE  /\ Count(p)' < Count(q)' /\ ~Closed(q)' => Shares(p, sub[q].balance)'
                        /\ ~Settled(q)' => \A m \in Msgs(q)' :
                             m.type = "CloseConfirm" => Shares(p, m.balance)'
    BY DEF SharedAhead, SharedSent
  <1>3. ~Merges(p) /\ Count(p)' = Count(p)
    BY <1>2 DEF Merges, Effect
  <1>4. Closed(q)' = Closed(q) /\ Settled(q)' = Settled(q)
    BY <1>1 DEF Closed, Settled
  <1>5. CASE sub[p].st = "CloseConfirmed"
    <2>1. sub'[p].balance = sub[p].balance
      BY <1>2, <1>5, BalanceKept
    <2>2. Count(p)' < Count(q)' /\ ~Closed(q)' => Shares(p, sub[q].balance)'
      BY <1>1, <1>3, <1>4, <1>5, <2>1 DEF SharedOf, SharedAhead, Shares
    <2>3. ASSUME ~Settled(q), NEW m \in Msgs(q)', m.type = "CloseConfirm"
          PROVE  Shares(p, m.balance)'
      <3>1. CASE m \in Msgs(q)
        BY <1>5, <2>1, <2>3, <3>1 DEF SharedOf, SharedSent, Shares
      <3>2. CASE Answers(p, m)
        BY <2>3, <3>2 DEF Answers, Shares
      <3> QED BY <2>3, <3>1, <3>2 DEF Detail
    <2> QED BY <1>4, <2>2, <2>3
  <1>6. CASE Discloses(p)
    <2>1. Settled(q) \/ Accepter(q)
      BY <1>6, DisclosesNow
    <2>2. Count(p)' < Count(q)' /\ ~Closed(q)' => FALSE
      <3>1. ASSUME Accepter(q)
            PROVE  Count(q) <= Count(p)
        BY <1>1, <3>1 DEF Accepter, Level, SplitStates
      <3> QED BY <1>1, <1>3, <1>4, <2>1, <3>1 DEF Settled, Closed
    <2>3. ASSUME ~Settled(q), NEW m \in Msgs(q)', m.type = "CloseConfirm"
          PROVE  Shares(p, m.balance)'
      <3>1. m \notin Msgs(q)
        BY <1>6, <2>3, DisclosesNow DEF Has, Msgs
      <3>2. Answers(p, m)
        BY <2>3, <3>1 DEF Detail
      <3> QED BY <2>3, <3>2 DEF Answers, Shares
    <2> QED BY <1>4, <2>2, <2>3
  <1> QED BY <1>1, <1>2, <1>3, <1>5, <1>6, StaysConfirmed

LEMMA PeerShares ==
    ASSUME NEW p \in Party, Effect(p), Detail(p), SharedOf(Other(p))
    PROVE  SharedAhead(Other(p))' /\ SharedSent(Other(p))'
  <1> DEFINE q == Other(p)
  <1>1. /\ TypeInv /\ PartyStep(p) /\ sub'[q] = sub[q] /\ Count(q)' = Count(q) /\ Other(q) = p
        /\ Level(p) /\ Level(q) /\ Msgs(p)' \subseteq Msgs(p)
        /\ Count(p) \in Nat /\ Count(q) \in Nat /\ SharedOf(q)
    BY DEF Effect, MergeOf
  <1>2. SharedSent(q)'
    <2>1. Settled(p)' \/ ~Settled(p)
      BY <1>1, StaysSettled
    <2> HIDE DEF q
    <2>2. SUFFICES ASSUME sub[q].st = "CloseConfirmed", ~Settled(p), NEW m \in Msgs(p)',
                          m.type = "CloseConfirm"
                   PROVE  Shares(q, m.balance)'
      BY <1>1, <2>1 DEF SharedSent
    <2> QED BY <1>1, <2>2 DEF SharedOf, SharedSent, Shares
  <1>3. ASSUME sub[q].st = "CloseConfirmed", Count(q) < Count(p)', ~Closed(p)'
        PROVE  sub[q].balance + sub'[p].balance = TotalCollateral
    <2>1. CASE Merges(p)
      <3>1. sub'[p].balance = sub[p].balance
        BY <2>1, BalanceKept
      <3>2. Takes(p) /\ Head(net[p]) \in Msgs(p)
        BY <1>1, <2>1, TakesMsgs DEF Merges, Got, TakesOrNot
      <3>3. CASE sub[p].st = "CloseAccepted" /\ Got(p, "CloseConfirm")
        <4>1. Head(net[p]).balance = sub[p].balance /\ Head(net[p]).type = "CloseConfirm"
          BY <2>1, <3>3 DEF Detail, Got
        <4>2. ~Settled(p)
          BY <3>3 DEF Settled, SettledStates
        <4> HIDE DEF q
        <4>3. Shares(q, Head(net[p]).balance)
          BY <1>1, <1>3, <3>2, <4>1, <4>2 DEF SharedOf, SharedSent
        <4> QED BY <3>1, <4>1, <4>3 DEF Shares
      <3>4. CASE sub[p].st = "CloseConfirmed" /\ Got(p, "CloseFinalize")
        <4>1. Count(p) < Count(q)
          BY <2>1, <3>4, BehindLast DEF Merges, Got
        <4>2. Count(q) <= Count(p)
          BY <1>1, <1>3 DEF Level, SplitStates
        <4> QED BY <1>1, <4>1, <4>2
      <3> QED BY <2>1, <3>3, <3>4 DEF Merges
    <2>2. CASE ~Merges(p)
      <3>1. Count(p)' = Count(p)
        BY <2>2 DEF Effect
      <3>2. sub[p].st \notin SplitStates
        BY <1>1, <1>3, <3>1 DEF Level
      <3>3. ~Closed(p)
        BY <1>1, <1>3, <2>2, StaysMerging
      <3>4. sub'[p].balance = sub[p].balance
        BY <3>2, BalanceKept
      <3> HIDE DEF q
      <3> QED BY <1>1, <1>3, <3>1, <3>3, <3>4 DEF SharedOf, SharedAhead, Shares
    <2> QED BY <2>1, <2>2
  <1> HIDE DEF q
  <1>4. SharedAhead(q)'
    BY <1>1, <1>3 DEF SharedAhead, Shares
  <1> QED BY <1>2, <1>4 DEF q

LEMMA MergedShares ==
    ASSUME NEW p \in Party, Effect(p), Detail(p), SharedOf(p)
    PROVE  SharedMerged(p)' /\ SharedMerged(Other(p))'
  <1> DEFINE q == Other(p)
  <1>1. /\ TypeInv /\ PartyStep(p) /\ sub'[q] = sub[q] /\ Other(q) = p /\ q \in Party
        /\ CloseConfirmSent(p)
    BY DEF Effect, MergeOf
  <1>2. ASSUME sub'[p].st = "OffChainClosed", sub[q].st = "OffChainClosed"
        PROVE  sub'[p].balance = sub[p].balance /\ Shares(p, sub[q].balance)
    <2>1. ~Closed(q)
      BY <1>2 DEF Closed, SettledStates
    <2>2. CASE Merges(p)
      <3>1. Takes(p) /\ Head(net[p]) \in Msgs(p)
        BY <1>1, <2>2, TakesMsgs DEF Merges, Got, TakesOrNot
      <3>2. ~(sub[p].st = "CloseAccepted" /\ Got(p, "CloseConfirm"))
        <4>1. SUFFICES ASSUME sub[p].st = "CloseAccepted", Got(p, "CloseConfirm")
                       PROVE  FALSE
          OBVIOUS
        <4>2. Has(net[p], {"CloseConfirm"}) /\ ~Settled(p)
          BY <3>1, <4>1 DEF Has, Msgs, Got, Settled, SettledStates
        <4> QED BY <1>1, <1>2, <2>1, <4>2 DEF CloseConfirmSent
      <3>3. sub[p].st = "CloseConfirmed" /\ Got(p, "CloseFinalize")
        BY <2>2, <3>2 DEF Merges
      <3>4. Count(p) < Count(q)
        BY <2>2, <3>3, BehindLast DEF Merges, Got
      <3> QED BY <2>1, <2>2, <3>3, <3>4, BalanceKept DEF SharedOf, SharedAhead
    <2>3. CASE ~Merges(p)
      <3>1. sub[p].st = "OffChainClosed"
        BY <1>1, <1>2, <2>3, MergedOnlySo
      <3>2. sub'[p].balance = sub[p].balance
        BY <3>1, BalanceKept DEF SplitStates
      <3> QED BY <1>2, <3>1, <3>2 DEF SharedOf, SharedMerged
    <2> QED BY <2>2, <2>3
  <1>3. sub[p].balance \in Nat /\ sub[q].balance \in Nat
    BY <1>1, SharesTyped
  <1> HIDE DEF q
  <1>4. SharedMerged(p)' /\ SharedMerged(q)'
    BY <1>1, <1>2, <1>3 DEF SharedMerged, Shares, q
  <1> QED BY <1>4 DEF q

LEMMA ShareLink ==
    ASSUME ShareInv, Breaks \/ Rejoins, NEW p \in Party
    PROVE  SharedOf(p)'
  <1>1. UNCHANGED sub /\ (Drops \/ Greets) /\ Other(p) \in Party
    BY Others DEF Breaks, Rejoins, Drops, Greets
  <1>2. \A m \in Msgs(Other(p))' : m.type = "Reestablish"
    BY <1>1, LinkMsgs
  <1> QED BY <1>1, <1>2 DEF ShareInv, SharedOf, SharedAhead, SharedSent, SharedMerged, Shares,
          Count, Closed

LEMMA ShareInit == Init => ShareInv
  <1>1. ASSUME Init, NEW p \in Party
        PROVE  SharedOf(p)
    BY <1>1 DEF Init, NoSubChannel, SharedOf, SharedAhead, SharedSent, SharedMerged
  <1> QED BY <1>1, MergeInit DEF ShareInv

LEMMA ShareNext ==
    ASSUME ShareInv, [Next]_vars
    PROVE  ShareInv'
  <1>1. MergeInv /\ MergeInv' /\ TypeInv /\ \A p \in Party : SharedOf(p)
    BY MergeNext DEF ShareInv, MergeInv, AgreeInv
  <1>2. ASSUME NEW p \in Party, Trades(p), Detail(p)
        PROVE  \A x \in Party : SharedOf(x)'
    <2> DEFINE q == Other(p)
    <2>1. Effect(p) /\ q \in Party /\ \A x \in Party : x = p \/ x = q
      BY <1>1, <1>2, Effects, Others
    <2>2. SharedOf(p)'
      BY <1>1, <1>2, <2>1, OwnShares, MergedShares DEF SharedOf
    <2>3. SharedAhead(q)' /\ SharedSent(q)' /\ SharedMerged(q)'
      BY <1>1, <1>2, <2>1, PeerShares, MergedShares
    <2> HIDE DEF q
    <2>4. SharedOf(q)'
      BY <2>3 DEF SharedOf
    <2> QED BY <2>1, <2>2, <2>4
  <1>3. \A x \in Party : SharedOf(x)'
    BY <1>1, <1>2, StepDetail, ShareLink
  <1> QED BY <1>1, <1>3 DEF ShareInv

-----------------------------------------------------------------------------
(* Revoked splits.  A party that waits for the last secret with the        *)
(* Lightning one (checkLnSecret) is sent the secret alone only if it is    *)
(* about to hear of its peer's state, which makes it stop waiting for the  *)
(* other.                                                                  *)

First(p) == \A i \in 1 .. Len(net[p]) : net[p][i].type = "Reestablish" => i = 1
Checks(p) == sub[p].st = "CloseConfirmed" /\ ln[p].open /\ sub[p].checkLnSecret
LastPoint(p) == CounterPoint(p, sub[p].split)
Due(p) ==
    \/ \E m \in Msgs(p) : m.type = "CloseFinalize" /\ ~m.lnSecret /\ m.point = LastPoint(p)
    \/ LastPoint(p) \in Again(Other(p))
Answering(p) == ln[p].open /\ sub[p].st \in {"Offered", "OffChainClosed"}
Informed(p) ==
    ~torn /\ Checks(p) /\ Due(p) => AsksSplit(p) /\ ready[Other(p)] /\ ~ready[p]
ToInform(p) ==
    ~torn /\ Checks(p) /\ Asks(Other(p), "CloseConfirmed") /\ Answering(Other(p)) =>
      AsksSplit(p) /\ ~ready[p]
AllPunishable(p) == ~torn => \A e \in watch[p] : e.type = "Revoked" => Punishable(p, e)
RevokedOf(p) == First(p) /\ Informed(p) /\ ToInform(p) /\ AllPunishable(p)
RevokedInv == MergeInv /\ \A p \in Party : RevokedOf(p)

LEMMA FirstStep ==
    ASSUME TypeInv, NEW p \in Party, PartyStep(p), First(p), First(Other(p))
    PROVE  First(p)' /\ First(Other(p))'
  <1> DEFINE s == net[p]  u == net[Other(p)]
  <1>1. PICK m \in Message : Says(p, m) /\ m.type # "Reestablish"
    BY StepSays
  <1>2. s \in Seq(Message) /\ u \in Seq(Message) /\ Len(s) \in Nat /\ Len(u) \in Nat
    BY MsgsTyped
  <1>3. ASSUME s # <<>>, NEW i \in 1 .. Len(Tail(s)), Tail(s)[i].type = "Reestablish"
        PROVE  FALSE
    <2>1. i + 1 \in 1 .. Len(s) /\ Tail(s)[i] = s[i + 1] /\ i \in Nat
      BY <1>2, <1>3, TailMsgs
    <2>2. i + 1 = 1
      BY <1>3, <2>1 DEF First
    <2> QED BY <1>3, <2>1, <2>2
  <1>4. First(p)'
    <2>1. CASE net'[p] = s
      BY <2>1 DEF First
    <2>2. CASE s # <<>> /\ net'[p] = Tail(s)
      BY <1>3, <2>2 DEF First
    <2> QED BY <1>1, <2>1, <2>2 DEF Says, TakesOrNot, Takes
  <1>5. \A i \in 1 .. Len(Append(u, m)) : Append(u, m)[i].type = "Reestablish" => i = 1
    <2>1. \A i \in 1 .. Len(Append(u, m)) :
            (i \in 1 .. Len(u) /\ Append(u, m)[i] = u[i]) \/ Append(u, m)[i] = m
      BY <1>2, AppendMsgs
    <2> QED BY <1>1, <2>1 DEF First
  <1>6. First(Other(p))'
    BY <1>1, <1>5 DEF First, Says
  <1> QED BY <1>4, <1>6

(* The reestablish message is the first there is.                          *)
LEMMA AsksHead ==
    ASSUME TypeInv, NEW p \in Party, First(p), NEW flag, Asks(p, flag)
    PROVE  net[p] # <<>> /\ Head(net[p]).type = "Reestablish" /\ Head(net[p]).flag = flag
  <1>1. net[p] \in Seq(Message)
    BY MsgsTyped
  <1>2. PICK i \in 1 .. Len(net[p]) : net[p][i].type = "Reestablish" /\ net[p][i].flag = flag
    BY DEF Asks, Msgs
  <1>3. i = 1 /\ net[p] # <<>>
    BY <1>1, <1>2 DEF First
  <1>4. Head(net[p]) = net[p][1]
    BY <1>1, <1>3, TailMsgs
  <1> QED BY <1>2, <1>3, <1>4

(* A party that still checks after its step has not handled it yet.        *)
LEMMA StillAsked ==
    ASSUME NEW p \in Party, Effect(p), Detail(p), First(p), Checks(p)', AsksSplit(p), ~ready[p]
    PROVE  AsksSplit(p)' /\ ~ready'[p]
  <1>1. TypeInv /\ PartyStep(p)
    BY DEF Effect
  <1>2. PICK flag \in {"Offered", "OffChainClosed"} : Asks(p, flag)
    BY DEF AsksSplit
  <1>3. net[p] # <<>> /\ Head(net[p]).type = "Reestablish" /\ Head(net[p]).flag = flag
    BY <1>1, <1>2, AsksHead
  <1>4. ~Takes(p)
    <2>1. Takes(p) => Got(p, "Reestablish")
      BY <1>3 DEF Got
    <2> QED BY <1>3, <2>1 DEF Detail, Checks
  <1>5. net'[p] = net[p]
    <2>1. TakesOrNot(p)
      BY <1>1, StepSays DEF Says
    <2> QED BY <1>4, <2>1 DEF TakesOrNot
  <1>6. ~Returns(p)
    BY <1>4 DEF Returns, Got
  <1>7. ~ready'[p]
    BY <1>1, <1>6, StepFrame
  <1> QED BY <1>5, <1>7 DEF AsksSplit, Asks, Msgs

(* The messages to the peer stay.                                          *)
LEMMA PeerStillAsked ==
    ASSUME NEW p \in Party, Effect(p), AsksSplit(Other(p)), ~ready[Other(p)]
    PROVE  AsksSplit(Other(p))' /\ ~ready'[Other(p)]
  <1> DEFINE q == Other(p)
  <1>1. TypeInv /\ PartyStep(p) /\ ready'[q] = ready[q]
    BY DEF Effect
  <1>2. PICK m \in Message : Says(p, m)
    BY <1>1, StepSays
  <1>3. Msgs(q) \subseteq Msgs(q)'
    <2>1. net[q] \in Seq(Message)
      BY <1>1, MsgsTyped
    <2>2. CASE net'[q] = net[q]
      BY <2>2 DEF Msgs
    <2>3. CASE net'[q] = Append(net[q], m)
      <3> DEFINE u == net[q]
      <3>1. u \in Seq(Message) /\ net'[q] = Append(u, m)
        BY <2>1, <2>3
      <3> HIDE DEF u
      <3>2. /\ Len(u) \in Nat /\ Len(Append(u, m)) = Len(u) + 1
            /\ \A i \in 1 .. Len(u) : Append(u, m)[i] = u[i]
        BY <3>1, AppendProperties
      <3>3. \A i \in 1 .. Len(u) : i \in 1 .. Len(net'[q]) /\ net'[q][i] = u[i]
        BY <3>1, <3>2
      <3> QED BY <3>3 DEF Msgs, u
    <2> QED BY <1>2, <2>2, <2>3 DEF Says
  <1> HIDE DEF q
  <1>4. AsksSplit(q)'
    BY <1>3 DEF AsksSplit, Asks, q
  <1> QED BY <1>1, <1>4 DEF q

(* A party that checks after its step has just disclosed its secret, and   *)
(* no last secret is due, or checked before.                               *)
LEMMA ChecksBefore ==
    ASSUME NEW p \in Party, Effect(p), Detail(p), Checks(p)'
    PROVE  /\ Checks(p) \/ (Discloses(p) /\ sub[p].st = "CloseOffered")
           /\ sub'[p].split = sub[p].split
  <1>1. PartyStep(p) /\ sub'[p].st = "CloseConfirmed"
    BY DEF Effect, Checks
  <1>2. ~Merges(p)
    BY <1>1 DEF Merges
  <1>3. sub'[p].split = sub[p].split
    BY <1>1, EntersSplit DEF SplitStates, Finalizes, Signs
  <1>4. CASE sub[p].st = "CloseConfirmed"
    <2>1. sub[p].checkLnSecret /\ ln[p].open
      BY <1>1, <1>4 DEF Detail, KeepsFields, Checks
    <2> QED BY <1>3, <1>4, <2>1 DEF Checks
  <1>5. CASE Discloses(p)
    BY <1>3, <1>5 DEF Discloses
  <1> QED BY <1>1, <1>2, <1>4, <1>5, StaysConfirmed

LEMMA NoneDueYet ==
    ASSUME NEW p \in Party, Effect(p), sub[p].st = "CloseOffered"
    PROVE  LastPoint(p) \notin LastSecrets(Other(p))
  <1> DEFINE q == Other(p)
  <1>1. /\ LastOfClose(p) /\ Ahead(q) /\ Other(q) = p /\ Count(p) \in Nat /\ Count(q) \in Nat
    BY DEF Effect, MergeOf
  <1>2. ~Closed(p)
    BY DEF Closed, SettledStates
  <1>3. Count(q) <= Count(p)
    <2> HIDE DEF q
    <2> QED BY <1>1, <1>2 DEF Ahead
  <1> QED BY <1>1, <1>3 DEF LastOfClose, LastPoint, SplitStates

LEMMA AgainLeft ==
    ASSUME NEW p
    PROVE  /\ \A x \in Again(p) : x \in LastSecrets(p)
           /\ \A m \in Msgs(Other(p)) : m.type = "CloseFinalize" => m.point \in LastSecrets(p)
  <1>1. \A x \in Again(p) : \E a \in Left(p) : a.type = "ResendCloseFinalize" /\ a.point = x
    BY DEF Again, Left
  <1> QED BY <1>1 DEF LastSecrets

LEMMA OwnInformed ==
    ASSUME NEW p \in Party, Effect(p), Detail(p), First(p), Informed(p), ToInform(p)
    PROVE  Informed(p)' /\ ToInform(p)'
  <1> DEFINE q == Other(p)
  <1>1. /\ TypeInv /\ PartyStep(p) /\ q \in Party /\ Other(q) = p /\ sub'[q] = sub[q]
        /\ ready'[q] = ready[q] /\ Msgs(p)' \subseteq Msgs(p)
    BY DEF Effect
  <1>2. actions'[q] = actions[q] /\ ln'[q] = ln[q] /\ (torn => torn')
    BY DEF Detail
  <1>3. Again(q)' = Again(q)
    BY <1>2 DEF Again
  <1>4. ASSUME ~torn', Checks(p)', Due(p)'
        PROVE  AsksSplit(p)' /\ ready[q] /\ ~ready'[p]
    <2>1. sub'[p].split = sub[p].split /\ (Checks(p) \/ (Discloses(p) /\ sub[p].st = "CloseOffered"))
      BY <1>4, ChecksBefore
    <2>2. LastPoint(p)' = LastPoint(p)
      BY <2>1 DEF LastPoint
    <2>3. Due(p)
      BY <1>1, <1>3, <1>4, <2>2 DEF Due
    <2>4. Checks(p)
      <3>1. ASSUME sub[p].st = "CloseOffered"
            PROVE  FALSE
        <4>1. LastPoint(p) \in LastSecrets(q)
          BY <1>1, <2>3, AgainLeft DEF Due
        <4> QED BY <3>1, <4>1, NoneDueYet
      <3> QED BY <2>1, <3>1
    <2>5. AsksSplit(p) /\ ready[q] /\ ~ready[p]
      BY <1>2, <1>4, <2>3, <2>4 DEF Informed
    <2> QED BY <1>4, <2>5, StillAsked
  <1>5. ASSUME ~torn', Checks(p)', Asks(q, "CloseConfirmed")', Answering(q)
        PROVE  AsksSplit(p)' /\ ~ready'[p]
    <2>1. Checks(p) \/ Discloses(p)
      BY <1>5, ChecksBefore
    <2>2. Asks(q, "CloseConfirmed")
      BY <1>5, AskedBefore
    <2>3. ~Discloses(p)
      BY <1>5, DisclosesNow DEF Answering, Settled, SettledStates, Accepter
    <2>4. AsksSplit(p) /\ ~ready[p]
      BY <1>2, <1>5, <2>1, <2>2, <2>3 DEF ToInform
    <2> QED BY <1>5, <2>4, StillAsked
  <1>6. Answering(q)' = Answering(q)
    BY <1>1, <1>2 DEF Answering
  <1>7. Informed(p)'
    BY <1>1, <1>4 DEF Informed
  <1>8. ToInform(p)'
    BY <1>5, <1>6 DEF ToInform
  <1> QED BY <1>7, <1>8

(* The party whose peer takes the step.                                    *)
LEMMA PeerInformed ==
    ASSUME NEW p \in Party, Effect(p), Detail(p), First(p), Informed(Other(p)), ToInform(Other(p))
    PROVE  Informed(Other(p))' /\ ToInform(Other(p))'
  <1> DEFINE q == Other(p)
  <1>1. /\ TypeInv /\ PartyStep(p) /\ q \in Party /\ Other(q) = p /\ sub'[q] = sub[q]
        /\ ready'[q] = ready[q]
    BY DEF Effect
  <1>2. ln'[q] = ln[q] /\ (torn => torn') /\ (ready[p] => ready'[p])
    <2>1. ready[p] => ready'[p]
      BY <1>1, StepFrame
    <2> QED BY <2>1 DEF Detail
  <1>3. Checks(q)' = Checks(q) /\ LastPoint(q)' = LastPoint(q)
    BY <1>1, <1>2 DEF Checks, LastPoint
  <1>4. ASSUME ~torn', Checks(q), Due(q)'
        PROVE  AsksSplit(q)' /\ ready'[p] /\ ~ready'[q]
    <2>1. CASE Due(q)
      <3>1. AsksSplit(q) /\ ready[p] /\ ~ready[q]
        BY <1>1, <1>2, <1>4, <2>1 DEF Informed
      <3> QED BY <1>2, <3>1, PeerStillAsked
    <2>2. CASE LastPoint(q) \in Again(p)' /\ LastPoint(q) \notin Again(p)
      <3>1. /\ Got(p, "Reestablish") /\ Head(net[p]).flag = "CloseConfirmed"
            /\ ln[p].open /\ sub[p].st \in {"Offered", "OffChainClosed"} /\ ready'[p]
        BY <2>2 DEF Detail
      <3>2. Asks(p, "CloseConfirmed") /\ Answering(p)
        BY <1>1, <3>1, TakesMsgs DEF Got, TakesOrNot, Asks, Answering
      <3>3. AsksSplit(q) /\ ~ready[q]
        BY <1>1, <1>2, <1>4, <3>2 DEF ToInform
      <3> QED BY <3>1, <3>3, PeerStillAsked
    <2>3. Due(q) \/ LastPoint(q) \in Again(p)'
      <3>1. ASSUME NEW m \in Msgs(q)', m.type = "CloseFinalize", ~m.lnSecret,
                   m.point = LastPoint(q)
            PROVE  Due(q)
        <4>1. m \in Msgs(q) \/ m.point \in Again(p)
          BY <3>1 DEF Detail, Answers
        <4> HIDE DEF q
        <4> QED BY <1>1, <3>1, <4>1 DEF Due
      <3> HIDE DEF q
      <3> QED BY <1>1, <1>3, <1>4, <3>1 DEF Due
    <2>4. LastPoint(q) \in Again(p) => Due(q)
      <3> HIDE DEF q
      <3> QED BY <1>1 DEF Due
    <2> QED BY <2>1, <2>2, <2>3, <2>4
  <1>5. ASSUME ~torn', Checks(q), Asks(p, "CloseConfirmed")', Answering(p)'
        PROVE  AsksSplit(q)' /\ ~ready'[q]
    <2>1. Asks(p, "CloseConfirmed") /\ ~ready[p]
      BY <1>5, AskedBefore
    <2>2. Head(net[p]).type = "Reestablish"
      BY <1>1, <2>1, AsksHead
    <2>3. ~Got(p, "Reestablish")
      <3>1. SUFFICES ASSUME Got(p, "Reestablish")
                     PROVE  FALSE
        OBVIOUS
      <3>2. TakesOrNot(p) /\ One(net[p], {"Reestablish"}) /\ "Reestablish" \in {"Reestablish"}
        BY <3>1 DEF Got, TakesOrNot, Effect, NetInv, Greeted
      <3>3. ~Has(net'[p], {"Reestablish"})
        BY <1>1, <3>1, <3>2, TakesOne
      <3> QED BY <1>5, <3>3 DEF Asks, Has, Msgs
    <2>4. ~Takes(p)
      BY <2>2, <2>3 DEF Got
    <2>5. sub[p].st \in {"Offered", "OffChainClosed"}
      <3>1. sub'[p].st \in {"Offered", "OffChainClosed"}
        BY <1>5 DEF Answering
      <3>2. ~Merges(p) /\ ~GetsOffer(p) /\ ~Returns(p)
        BY <2>4 DEF Merges, GetsOffer, Returns, Got
      <3>3. ~Offers(p)
        BY <1>5, <2>1 DEF Detail
      <3> QED BY <1>1, <3>1, <3>2, <3>3
           DEF PartyStep, Idles, Resends, Drifts, DriftTo, Accepts, Confirms, Finalizes, Signs,
               Discloses, WatchesEarly, SameSub, SetUp, SettledStates
    <2>6. Answering(p)
      BY <1>5, <2>5 DEF Answering, Detail
    <2>7. AsksSplit(q) /\ ~ready[q]
      BY <1>1, <1>2, <1>5, <2>1, <2>6 DEF ToInform
    <2> QED BY <2>7, PeerStillAsked
  <1> HIDE DEF q
  <1>6. Informed(q)'
    BY <1>1, <1>3, <1>4 DEF Informed
  <1>7. ToInform(q)'
    BY <1>1, <1>3, <1>5 DEF ToInform
  <1> QED BY <1>6, <1>7 DEF q

(* Such a party does not come to change the watch too early.               *)
LEMMA NotEarly ==
    ASSUME TypeInv, NEW p \in Party, Informed(p), ~torn
    PROVE  ~LearnsEarly(p)
  <1>1. SUFFICES ASSUME LearnsEarly(p)
                 PROVE  FALSE
    OBVIOUS
  <1>2. Checks(p) /\ ready[p]
    BY <1>1 DEF LearnsEarly, Usable, Checks
  <1>3. Head(net[p]) \in Msgs(p)
    BY <1>1, MsgsTyped, TailMsgs DEF LearnsEarly, Msgs
  <1>4. Due(p)
    BY <1>1, <1>3 DEF LearnsEarly, Due, LastPoint
  <1> QED BY <1>2, <1>4 DEF Informed

LEMMA PunishableStep ==
    ASSUME NEW p \in Party, Effect(p), Detail(p), Informed(p), AllPunishable(p)
    PROVE  AllPunishable(p)'
  <1>1. TypeInv /\ PartyStep(p) /\ FreshIndex(p) /\ (torn => torn')
    BY DEF Effect, MergeOf, Detail
  <1>2. SUFFICES ASSUME ~torn', NEW e \in watch'[p], e.type = "Revoked"
                 PROVE  Punishable(p, e)'
    BY DEF AllPunishable
  <1>3. \A x \in watch[p] : x.type = "Revoked" => Punishable(p, x)
    BY <1>1, <1>2 DEF AllPunishable
  <1>4. CASE Merges(p)
    <2>1. /\ watch'[p] = Entered(watch[p], RevokedEntry(sub[p]))
          /\ sub'[p].secrets = {x \in sub[p].secrets : x[1] # sub[p].idx}
                                 \cup {<<sub[p].idx, CounterPoint(p, sub[p].split)>>}
          /\ sub[p].st \notin Done
      BY <1>4 DEF Merges, StoreSecret, Done, SettledStates
    <2>2. sub[p].idx \in Nat
      BY <1>1, Fields
    <2>3. \A x \in sub[p].secrets : x[1] # sub[p].idx
      BY <1>1, <2>1, <2>2 DEF FreshIndex
    <2>4. e = RevokedEntry(sub[p]) \/ e \in watch[p]
      BY <1>2, <2>1, EnteredParts
    <2> QED BY <1>2, <1>3, <2>1, <2>3, <2>4 DEF Punishable, RevokedEntry
  <1>5. CASE ~Merges(p)
    <2>1. sub'[p].secrets = sub[p].secrets
      BY <1>1, <1>5, KeepsSecrets
    <2>2. WatchesEarly(p) => watch'[p] = watch[p]
      BY <1>1, <1>2, NotEarly DEF Detail, Idles
    <2>3. e \in watch[p]
      <3>1. \A t : SplitEntry(t).type # "Revoked"
        BY DEF SplitEntry
      <3>2. ASSUME NEW t, watch'[p] = Entered(watch[p], SplitEntry(t))
            PROVE  e \in watch[p]
        BY <1>2, <3>1, <3>2, EnteredParts
      <3> QED BY <1>1, <1>2, <1>5, <2>2, <3>2
           DEF PartyStep, Idles, Resends, Drifts, Offers, GetsOffer, Accepts, Confirms, Finalizes,
               Signs, Returns, Discloses, Renewed, SetUp, Obtains
    <2> QED BY <1>2, <1>3, <2>1, <2>3 DEF Punishable
  <1> QED BY <1>4, <1>5

LEMMA RevokedLink ==
    ASSUME RevokedInv, Breaks \/ Rejoins, NEW p \in Party
    PROVE  RevokedOf(p)'
  <1> DEFINE q == Other(p)
  <1>1. /\ UNCHANGED <<sub, watch, ln>> /\ (Drops \/ Greets) /\ q \in Party /\ Other(q) = p
        /\ (torn => torn') /\ Informed(p) /\ AllPunishable(p) /\ NetInv
    BY Others DEF Breaks, Rejoins, Drops, Greets, RevokedInv, RevokedOf, MergeInv, AgreeInv
  <1>2. \A x \in Party : \A m \in Msgs(x)' :
          Greets /\ m.type = "Reestablish" /\ m.flag = GetReestablishFlag(sub[Other(x)])
    BY <1>1, LinkMsgs
  <1>3. First(p)'
    <2>1. net'[p] = <<>> \/ \E m \in Message : net'[p] = <<m>>
      BY <1>1 DEF Drops, DropConnection, Greets
    <2> QED BY <2>1 DEF First
  <1>4. AllPunishable(p)'
    BY <1>1 DEF AllPunishable, Punishable
  <1>5. Checks(p)' = Checks(p) /\ LastPoint(p)' = LastPoint(p) /\ Answering(q)' = Answering(q)
    BY <1>1 DEF Checks, LastPoint, Answering
  <1>6. Informed(p)'
    <2>1. SUFFICES ASSUME ~torn', Checks(p), Due(p)'
                   PROVE  FALSE
      BY <1>5 DEF Informed
    <2>2. LastPoint(p) \in Again(q)'
      BY <1>2, <1>5, <2>1 DEF Due
    <2>3. Again(q)' = Again(q) /\ Again(q) # {}
      BY <2>1, <2>2 DEF Breaks, Rejoins, Again
    <2>4. Breaks
      BY <1>1, <2>1, <2>3 DEF Rejoins
    <2>5. ready[q] /\ ~ready[p]
      BY <1>1, <2>1, <2>2, <2>3 DEF Informed, Due
    <2> QED BY <1>1, <2>1, <2>4, <2>5 DEF Breaks, Party, Other
  <1>7. ToInform(p)'
    <2>1. SUFFICES ASSUME Asks(q, "CloseConfirmed")', Answering(q)
                   PROVE  AsksSplit(p)' /\ ~ready'[p]
      BY <1>5 DEF ToInform
    <2>2. Greets
      BY <1>1, <1>2, <2>1 DEF Asks
    <2>3. Rejoins
      BY <2>2 DEF Breaks, Drops, DropConnection, Greets
    <2>4. net'[p] # <<>> /\ ~ready'[p]
      BY <1>1, <2>1, <2>2, <2>3 DEF Rejoins, Answering, Greets, NetInv, Down
    <2>5. PICK m \in Message : /\ net'[p] = <<m>> /\ m.type = "Reestablish"
                               /\ m.flag = GetReestablishFlag(sub[q])
      BY <2>2, <2>4 DEF Greets
    <2>6. m \in Msgs(p)' /\ m.flag \in {"Offered", "OffChainClosed"}
      BY <2>1, <2>5 DEF Msgs, GetReestablishFlag, ReestablishFlag, Answering
    <2> QED BY <2>4, <2>5, <2>6 DEF AsksSplit, Asks
  <1> QED BY <1>3, <1>4, <1>6, <1>7 DEF RevokedOf

LEMMA RevokedInit == Init => RevokedInv
  <1>1. ASSUME Init, NEW p \in Party
        PROVE  RevokedOf(p)
    <2>1. sub[p].st = "None" /\ net[p] = <<>> /\ watch[p] = {}
      BY <1>1 DEF Init, NoSubChannel
    <2> QED BY <2>1 DEF RevokedOf, First, Informed, ToInform, AllPunishable, Checks
  <1> QED BY <1>1, MergeInit DEF RevokedInv

LEMMA RevokedNext ==
    ASSUME RevokedInv, [Next]_vars
    PROVE  RevokedInv'
  <1>1. MergeInv /\ MergeInv' /\ TypeInv /\ \A p \in Party : RevokedOf(p)
    BY MergeNext DEF RevokedInv, MergeInv, AgreeInv
  <1>2. ASSUME NEW p \in Party, Trades(p), Detail(p)
        PROVE  \A x \in Party : RevokedOf(x)'
    <2> DEFINE q == Other(p)
    <2>1. Effect(p) /\ q \in Party /\ \A x \in Party : x = p \/ x = q
      BY <1>1, <1>2, Effects, Others
    <2>2. PartyStep(p) /\ RevokedOf(p) /\ RevokedOf(q)
      BY <1>1, <1>2, <2>1, TradeSteps
    <2>3. First(p)' /\ First(q)'
      BY <1>1, <2>2, FirstStep DEF RevokedOf
    <2>4. RevokedOf(p)'
      BY <1>2, <2>1, <2>2, <2>3, OwnInformed, PunishableStep DEF RevokedOf
    <2>5. Informed(q)' /\ ToInform(q)'
      BY <1>2, <2>1, <2>2, PeerInformed DEF RevokedOf
    <2>6. sub'[q] = sub[q] /\ watch'[q] = watch[q] /\ (torn => torn')
      BY <1>2, <2>2, StepFrame DEF Frame, Detail
    <2> HIDE DEF q
    <2>7. AllPunishable(q)'
      BY <2>2, <2>6 DEF RevokedOf, AllPunishable, Punishable
    <2>8. RevokedOf(q)'
      BY <2>3, <2>5, <2>7 DEF RevokedOf
    <2> QED BY <2>1, <2>4, <2>8
  <1>3. \A x \in Party : RevokedOf(x)'
    BY <1>1, <1>2, StepDetail, RevokedLink
  <1> QED BY <1>1, <1>3 DEF RevokedInv

-----------------------------------------------------------------------------
(* Where the two parties of a protocol stand to each other.  A party that  *)
(* has not handled its peer's reestablish message is seen as it will be    *)
(* once it has, with the actions this leaves it to do: a lost connection   *)
(* then changes little, and handling the message nothing.                  *)

DlcFor(st) ==
    CASE st = "Offered" -> {"Offered"}
      [] st = "Accepted" -> {"Accepted"}
      [] st = "Confirmed" -> {"Signed"}
      [] st \in {"Finalized", "Signed", "CloseOffered", "CloseAccepted", "CloseConfirmed"} ->
           {"Confirmed"}
      [] OTHER -> DlcState
DlcOf(p) == dlc[p] \in DlcFor(sub[p].st)
OutFor(st) ==
    IF st \in {"Accepted", "Confirmed", "Finalized", "Signed", "CloseOffered"}
    THEN "glue" ELSE "fund"
OutOf(p) == ln[p].out = OutFor(sub[p].st)

OfferedBack(s, pt) == [s EXCEPT !.st = "Offered", !.point = pt, !.commits = FALSE]
CloseBack(s, ours, balance) ==
    [s EXCEPT !.st = "CloseOffered", !.ours = ours, !.balance = balance,
              !.commits = FALSE, !.checkLnSecret = FALSE]
BackSub(p, s, flag) ==
    CASE s.st = "Accepted" -> OfferedBack(s, s.split.offer)
      [] s.st = "Confirmed" -> OfferedBack(s, OwnPoint(p, s.split))
      [] s.st = "Finalized" /\ flag \notin {"Signed", "none"} ->
           OfferedBack(s, CounterPoint(p, s.split))
      [] s.st = "CloseAccepted" -> CloseBack(s, FALSE, s.balance)
      [] s.st = "CloseConfirmed" /\ flag = "CloseAccepted" ->
           CloseBack(s, TRUE, TotalCollateral - s.balance)
      [] s.st = "CloseConfirmed" /\ flag \notin {"CloseAccepted", "none"} ->
           [s EXCEPT !.checkLnSecret = FALSE]
      [] OTHER -> s
BackList(p, s, flag) ==
    CASE s.st = "Offered" /\ s.isOffer /\ flag \in {"none", "OffChainClosed"} ->
           <<Act("ResendOffer", s.point, 0)>>
      [] s.st = "Offered" /\ s.isOffer /\ flag = "CloseConfirmed" ->
           <<Act("ResendCloseFinalize", PerSplitPoint(p, s.idx - 1), 0),
             Act("ResendOffer", s.point, 0)>>
      [] s.st = "Accepted" \/ (s.st = "Finalized" /\ flag \notin {"Signed", "none"}) ->
           ReAccept
      [] s.st = "Finalized" /\ flag = "Signed" -> <<Act("ForceSign", NoPoint, 0)>>
      [] s.st = "CloseOffered" /\ s.ours /\ flag = "Signed" ->
           <<Act("ResendCloseOffer", NoPoint, s.balance)>>
      [] s.st = "CloseAccepted" -> <<Act("ReAcceptCloseOffer", NoPoint, 0)>>
      [] s.st = "OffChainClosed" /\ flag = "CloseConfirmed" ->
           <<Act("ResendCloseFinalize", PerSplitPoint(p, s.idx), 0)>>
      [] OTHER -> <<>>

Just(m, type) == Len(m) = 1 /\ m[1].type = type
Pair(m, type, next) == Len(m) = 2 /\ m[1].type = type /\ m[2].type = next
Only(m, type) == \A i \in 1 .. Len(m) : m[i].type = type
Maybe(a, type) == a = <<>> \/ Just(a, type)

(* Actions that survive a reconnection; the others would be done twice.    *)
Keep(a) == IF Just(a, "ReAccept") \/ Just(a, "ReAcceptCloseOffer") THEN a ELSE <<>>
Seen(p) == IF conn THEN Head(net[p]).flag ELSE GetReestablishFlag(sub[Other(p)])
View(p) == IF ready[p] THEN sub[p] ELSE BackSub(p, sub[p], Seen(p))
Coming(p) == IF conn /\ ~ready[p] THEN Tail(net[p]) ELSE net[p]
Doing(p) ==
    IF ready[p] THEN actions[p] ELSE Keep(actions[p]) \o BackList(p, sub[p], Seen(p))

At(p, q, n) == [offer |-> PerSplitPoint(p, n), accept |-> PerSplitPoint(q, n)]
Offerer(p) ==
    View(p).st = "Offered" /\ View(p).isOffer /\ View(p).point = PerSplitPoint(p, View(p).idx)
Closer(p) == View(p).st = "CloseOffered" /\ View(p).ours
Signed(p) == View(p).st = "Signed"
SameView(p, q) ==
    /\ View(p).idx = View(q).idx /\ View(p).split = View(q).split
    /\ View(p).split \in {At(p, q, View(p).idx), At(q, p, View(p).idx)}
Quieted(p) == Coming(p) = <<>> /\ Doing(p) = <<>>

(* Nothing is offered; p's offer is under way, was rejected, was heard; or *)
(* the offers of both cross and are dropped.                               *)
AtRest(p, q) ==
    /\ CanOffer(View(p)) /\ CanOffer(View(q)) /\ View(p).idx = View(q).idx
    /\ Quieted(p) /\ Quieted(q)
OfferDue(p, q) ==
    /\ Offerer(p) /\ CanOffer(View(q)) /\ View(p).idx = View(q).idx + 1
    /\ Coming(p) = <<>> /\ Doing(q) = <<>>
    /\ \/ /\ Just(Coming(q), "Offer") /\ Coming(q)[1].point = View(p).point /\ Doing(p) = <<>>
       \/ /\ Coming(q) = <<>> /\ Just(Doing(p), "ResendOffer") /\ Doing(p)[1].point = View(p).point
OfferRejected(p, q) ==
    /\ Offerer(p) /\ Coming(q) = <<>> /\ Doing(p) = <<>> /\ Doing(q) = <<>>
    /\ \/ View(q).st = "Rejected" /\ View(q).idx = View(p).idx /\ Just(Coming(p), "Reject")
       \/ /\ Offerer(q) /\ View(q).idx = View(p).idx + 1
          /\ Pair(Coming(p), "Reject", "Offer") /\ Coming(p)[2].point = View(q).point
OfferHeard(p, q) ==
    /\ Offerer(p) /\ View(q).st = "Offered" /\ ~View(q).isOffer
    /\ View(q).point = View(p).point /\ View(p).idx = View(q).idx
    /\ Quieted(p) /\ Coming(q) = <<>> /\ Maybe(Doing(q), "ReAccept")
OffersCross(p, q) ==
    /\ Offerer(p) /\ Offerer(q) /\ View(p).idx = View(q).idx
    /\ Only(Coming(p), "Offer") /\ Only(Coming(q), "Offer")
    /\ Maybe(Doing(p), "ResendOffer") /\ Maybe(Doing(q), "ResendOffer")

(* The split p offered is accepted, confirmed, finalized and, whichever    *)
(* of the two offered it, revoked by p.                                    *)
AcceptDue(p, q) ==
    /\ Offerer(p) /\ View(q).st = "Accepted" /\ ~View(q).isOffer
    /\ View(p).idx = View(q).idx /\ View(q).split = At(p, q, View(p).idx)
    /\ Just(Coming(p), "Accept") /\ Coming(p)[1].split = View(q).split
    /\ Coming(p)[1].point = PerSplitPoint(q, View(p).idx)
    /\ Coming(q) = <<>> /\ Doing(p) = <<>> /\ Doing(q) = <<>>
SplitDue(p, q) ==
    /\ View(p).st = "Confirmed" /\ View(p).isOffer /\ ~View(q).isOffer
    /\ View(p).idx = View(q).idx
    /\ View(p).split = At(p, q, View(p).idx) /\ View(q).split = View(p).split
    /\ Doing(p) = <<>> /\ Doing(q) = <<>>
ConfirmDue(p, q) ==
    /\ SplitDue(p, q) /\ View(q).st = "Accepted" /\ Coming(p) = <<>>
    /\ Just(Coming(q), "Confirm") /\ Coming(q)[1].split = View(p).split
FinalizeDue(p, q) ==
    /\ SplitDue(p, q) /\ View(q).st = "Finalized" /\ Coming(q) = <<>>
    /\ Just(Coming(p), "Finalize") /\ Coming(p)[1].split = View(p).split
RevokeDue(p, q) ==
    /\ View(q).st = "Finalized" /\ SameView(p, q) /\ Quieted(p)
    /\ \/ /\ Signed(p)
          /\ \/ Just(Coming(q), "Revoke") /\ Doing(q) = <<>>
             \/ Coming(q) = <<>> /\ Just(Doing(q), "ForceSign")
       \/ /\ Closer(p)
          /\ \/ /\ Pair(Coming(q), "Revoke", "CloseOffer") /\ Doing(q) = <<>>
                /\ Coming(q)[2].balance = View(p).balance
             \/ Coming(q) = <<>> /\ Just(Doing(q), "ForceSign")
             \/ /\ Just(Coming(q), "CloseOffer") /\ Just(Doing(q), "ForceSign")
                /\ Coming(q)[1].balance = View(p).balance

(* The split is signed; p's offer to close is under way or refused, was    *)
(* heard, was rejected; or the offers of both cross and are refused.       *)
BothSigned(p, q) ==
    Signed(p) /\ Signed(q) /\ SameView(p, q) /\ Quieted(p) /\ Quieted(q)
CloseDue(p, q) ==
    /\ Closer(p) /\ Signed(q) /\ SameView(p, q) /\ Coming(p) = <<>> /\ Doing(q) = <<>>
    /\ \/ Coming(q) = <<>> /\ Doing(p) = <<>>
       \/ /\ Coming(q) = <<>> /\ Just(Doing(p), "ResendCloseOffer")
          /\ Doing(p)[1].balance = View(p).balance
       \/ /\ Just(Coming(q), "CloseOffer") /\ Coming(q)[1].balance = View(p).balance
          /\ Doing(p) = <<>>
CloseHeard(p, q) ==
    /\ Closer(p) /\ View(q).st = "CloseOffered" /\ ~View(q).ours /\ SameView(p, q)
    /\ View(p).balance = View(q).balance
    /\ Quieted(p) /\ Coming(q) = <<>> /\ Maybe(Doing(q), "ReAcceptCloseOffer")
CloseRejected(p, q) ==
    /\ Closer(p) /\ SameView(p, q) /\ Coming(q) = <<>> /\ Doing(p) = <<>> /\ Doing(q) = <<>>
    /\ \/ Signed(q) /\ Just(Coming(p), "Reject")
       \/ /\ Closer(q) /\ Pair(Coming(p), "Reject", "CloseOffer")
          /\ Coming(p)[2].balance = View(q).balance
ClosesCross(p, q) ==
    /\ Closer(p) /\ Closer(q) /\ SameView(p, q)
    /\ Only(Coming(p), "CloseOffer") /\ Only(Coming(q), "CloseOffer")
    /\ Maybe(Doing(p), "ResendCloseOffer") /\ Maybe(Doing(q), "ResendCloseOffer")

(* The close p offered is accepted and confirmed, and completed by p,      *)
(* which may have offered the next split already.                          *)
CloseAcceptDue(p, q) ==
    /\ Closer(p) /\ View(q).st = "CloseAccepted" /\ SameView(p, q)
    /\ View(p).balance = View(q).balance
    /\ Just(Coming(p), "CloseAccept") /\ Coming(p)[1].balance = View(p).balance
    /\ Coming(q) = <<>> /\ Doing(p) = <<>> /\ Doing(q) = <<>>
CloseConfirmDue(p, q) ==
    /\ View(p).st = "CloseConfirmed" /\ View(q).st = "CloseAccepted" /\ SameView(p, q)
    /\ View(p).balance + View(q).balance = TotalCollateral
    /\ Just(Coming(q), "CloseConfirm") /\ Coming(q)[1].balance = View(q).balance
    /\ Coming(q)[1].point = PerSplitPoint(p, View(p).idx)
    /\ Coming(p) = <<>> /\ Doing(p) = <<>> /\ Doing(q) = <<>>
CloseFinalizeDue(p, q) ==
    /\ View(q).st = "CloseConfirmed" /\ Coming(p) = <<>> /\ Doing(q) = <<>>
    /\ View(q).split \in {At(p, q, View(q).idx), At(q, p, View(q).idx)}
    /\ Coming(q) # <<>> =>
         Coming(q)[1].type = "CloseFinalize" /\ Coming(q)[1].point = PerSplitPoint(p, View(q).idx)
    /\ Coming(q) = <<>> =>
         Doing(p)[1].type = "ResendCloseFinalize" /\ Doing(p)[1].point = PerSplitPoint(p, View(q).idx)
    /\ \/ /\ View(p).st = "OffChainClosed" /\ View(p).idx = View(q).idx
          /\ \/ Len(Coming(q)) = 1 /\ Doing(p) = <<>>
             \/ Coming(q) = <<>> /\ Len(Doing(p)) = 1
       \/ /\ Offerer(p) /\ View(p).idx = View(q).idx + 1
          /\ \/ /\ Pair(Coming(q), "CloseFinalize", "Offer") /\ Doing(p) = <<>>
                /\ Coming(q)[2].point = View(p).point
             \/ /\ Len(Coming(q)) = 1 /\ Just(Doing(p), "ResendOffer")
                /\ Doing(p)[1].point = View(p).point
             \/ /\ Coming(q) = <<>> /\ Pair(Doing(p), "ResendCloseFinalize", "ResendOffer")
                /\ Doing(p)[2].point = View(p).point

Stands(p, q) ==
    \/ AtRest(p, q) \/ OfferDue(p, q) \/ OfferRejected(p, q) \/ OfferHeard(p, q)
    \/ OffersCross(p, q) \/ AcceptDue(p, q) \/ ConfirmDue(p, q) \/ FinalizeDue(p, q)
    \/ RevokeDue(p, q) \/ BothSigned(p, q) \/ CloseDue(p, q) \/ CloseHeard(p, q)
    \/ CloseRejected(p, q) \/ ClosesCross(p, q) \/ CloseAcceptDue(p, q)
    \/ CloseConfirmDue(p, q) \/ CloseFinalizeDue(p, q)
(* Revoke was lost, and its sender has offered to close: the peers cannot  *)
(* reconnect without hitting a hole.                                       *)
RevokeGone(p, q) ==
    ~conn /\ sub[p].st = "CloseOffered" /\ sub[p].ours /\ sub[q].st = "Finalized"
Stand(p, q) == Stands(p, q) \/ Stands(q, p) \/ RevokeGone(p, q) \/ RevokeGone(q, p)

(* What else holds of a party p whose peer is q.                           *)
Alive == \A p \in Party : ~Closed(p) /\ ln[p].open
Greeting(p) == conn /\ ~ready[p] => net[p] # <<>> /\ Head(net[p]).type = "Reestablish"
Forms(p) ==
    /\ conn /\ ~ready[p] => Keep(actions[p]) = actions[p]
    /\ ~conn => Len(actions[p]) \in {0, 1} \/ Pair(actions[p], "ResendCloseFinalize", "ResendOffer")
Cold(p, q) ==
    ~ready[p] /\ ~ready[q] =>
      /\ sub[q].st = "Offered" /\ ~sub[q].isOffer => sub[p].st = "Offered"
      /\ sub[q].st = "CloseOffered" /\ ~sub[q].ours => sub[p].st = "CloseOffered"
Fresh(p, q) ==
    conn /\ ~ready[p] /\ ~ready[q] =>
      \/ Len(net[p]) = 1 /\ Seen(p) = GetReestablishFlag(sub[q])
      \/ /\ Len(net[p]) = 2 /\ net[p][2].type = "Reject"
         /\ sub[p].st \in {"Offered", "CloseOffered"}
SecretsAt(p) == \A e \in sub[p].secrets : e[2][2] = e[1]
Side(p, q) ==
    DlcOf(p) /\ OutOf(p) /\ Greeting(p) /\ Forms(p) /\ Cold(p, q) /\ Fresh(p, q) /\ SecretsAt(p)
Stable(p, q) == Side(p, q) /\ Side(q, p) /\ Stand(p, q)

-----------------------------------------------------------------------------
(* Short sequences.                                                        *)

LEMMA JustAppend ==
    ASSUME NEW S, NEW m \in Seq(S), NEW x \in S
    PROVE  /\ Append(m, x) \in Seq(S)
           /\ m = <<>> => Just(Append(m, x), x.type) /\ Append(m, x)[1] = x
           /\ \A type : Just(m, type) =>
                /\ Pair(Append(m, x), type, x.type)
                /\ Append(m, x)[1] = m[1] /\ Append(m, x)[2] = x
           /\ \A type : Only(m, type) /\ x.type = type => Only(Append(m, x), type)
  <1> DEFINE n == Append(m, x)
  <1>1. /\ n \in Seq(S) /\ Len(n) = Len(m) + 1 /\ n[Len(m) + 1] = x
        /\ \A i \in 1 .. Len(m) : n[i] = m[i]
        /\ Len(m) \in Nat /\ (m = <<>> => Len(m) = 0)
    BY AppendProperties, LenProperties
  <1> HIDE DEF n
  <1>2. m = <<>> => Just(n, x.type) /\ n[1] = x
    BY <1>1 DEF Just
  <1>3. ASSUME NEW type, Just(m, type)
        PROVE  Pair(n, type, x.type) /\ n[1] = m[1] /\ n[2] = x
    BY <1>1, <1>3 DEF Just, Pair
  <1>4. ASSUME NEW type, Only(m, type), x.type = type
        PROVE  Only(n, type)
    BY <1>1, <1>4 DEF Only
  <1> QED BY <1>1, <1>2, <1>3, <1>4 DEF n

LEMMA JustTail ==
    ASSUME NEW S, NEW m \in Seq(S)
    PROVE  /\ \A type : Just(m, type) =>
                m # <<>> /\ Head(m) = m[1] /\ Tail(m) = <<>> /\ m[1] \in S
           /\ \A type, next : Pair(m, type, next) =>
                /\ m # <<>> /\ Head(m) = m[1] /\ m[1] \in S /\ m[2] \in S
                /\ Just(Tail(m), next) /\ Tail(m)[1] = m[2]
           /\ \A type : Only(m, type) /\ m # <<>> =>
                Head(m) = m[1] /\ m[1].type = type /\ Only(Tail(m), type)
           /\ Len(m) = 1 => m # <<>> /\ Head(m) = m[1] /\ Tail(m) = <<>> /\ m[1] \in S
  <1>1. /\ m # <<>> => /\ Head(m) = m[1] /\ Tail(m) \in Seq(S) /\ Len(Tail(m)) = Len(m) - 1
                       /\ \A i \in 1 .. Len(m) - 1 : Tail(m)[i] = m[i + 1]
        /\ Len(m) \in Nat /\ (m = <<>> <=> Len(m) = 0)
        /\ \A i \in 1 .. Len(m) : m[i] \in S
    BY HeadTailProperties, ElementOfSeq, EmptySeq, LenProperties
  <1>2. Len(m) = 1 => m # <<>> /\ Head(m) = m[1] /\ Tail(m) = <<>> /\ m[1] \in S
    <2>1. ASSUME Len(m) = 1
          PROVE  m # <<>> /\ Len(Tail(m)) = 0 /\ m[1] \in S
      BY <1>1, <2>1
    <2>2. ASSUME Len(m) = 1
          PROVE  Tail(m) = <<>>
      BY <1>1, <2>1, <2>2, EmptySeq
    <2> QED BY <1>1, <2>1, <2>2
  <1> DEFINE n == Tail(m)
  <1>3. ASSUME NEW type, NEW next, Pair(m, type, next)
        PROVE  /\ m # <<>> /\ Head(m) = m[1] /\ m[1] \in S /\ m[2] \in S
               /\ Just(n, next) /\ n[1] = m[2]
    <2>0. Len(m) = 2
      BY <1>3 DEF Pair
    <2>1. m # <<>> /\ m[1] \in S /\ m[2] \in S
      BY <1>1, <2>0
    <2>2. Len(n) = 1 /\ n[1] = m[1 + 1]
      BY <1>1, <2>0, <2>1
    <2> HIDE DEF n
    <2> QED BY <1>1, <1>3, <2>1, <2>2 DEF Just, Pair
  <1>4. ASSUME NEW type, Only(m, type), m # <<>>
        PROVE  Head(m) = m[1] /\ m[1].type = type /\ Only(n, type)
    <2>1. \A i \in 1 .. Len(n) : n[i] = m[i + 1] /\ i + 1 \in 1 .. Len(m)
      BY <1>1, <1>4
    <2> HIDE DEF n
    <2> QED BY <1>1, <1>4, <2>1 DEF Only
  <1> QED BY <1>2, <1>3, <1>4 DEF Just

(* Which lists can be which.                                               *)
LEMMA ListsApart ==
    ASSUME NEW S, NEW m \in Seq(S)
    PROVE  /\ \A type : Just(m, type) => Only(m, type)
           /\ m = <<>> => Len(m) = 0 /\ \A type : Only(m, type)
           /\ \A type : ~Just(<<>>, type)
           /\ \A type, next : ~Pair(<<>>, type, next)
  <1>1. /\ Len(m) \in Nat /\ Len(<<>>) = 0
    BY LenProperties
  <1>2. ASSUME NEW type, Just(m, type)
        PROVE  Only(m, type)
    BY <1>1, <1>2 DEF Just, Only
  <1> QED BY <1>1, <1>2 DEF Just, Pair, Only

LEMMA NoItems ==
    /\ Len(<<>>) = 0
    /\ \A type : ~Just(<<>>, type) /\ Only(<<>>, type)
    /\ \A type, next : ~Pair(<<>>, type, next)
  <1>1. Len(<<>>) = 0
    OBVIOUS
  <1> QED BY <1>1 DEF Just, Pair, Only

-----------------------------------------------------------------------------
(* What a party's own state says of the other.                             *)

Either(p, q) == Stands(p, q) \/ Stands(q, p)

LEMMA StandsBothWays ==
    ASSUME NEW p, NEW q
    PROVE  /\ AtRest(q, p) => AtRest(p, q)
           /\ OffersCross(q, p) => OffersCross(p, q)
           /\ BothSigned(q, p) => BothSigned(p, q)
           /\ ClosesCross(q, p) => ClosesCross(p, q)
           /\ SameView(q, p) => SameView(p, q)
           /\ Either(q, p) => Either(p, q)
  BY DEF AtRest, OffersCross, BothSigned, ClosesCross, SameView, At, Either

LEMMA WhereIdle ==
    ASSUME NEW p, NEW q, Either(p, q), CanOffer(View(p))
    PROVE  \/ AtRest(p, q) \/ OfferDue(q, p)
           \/ OfferRejected(q, p) /\ View(p).st = "Rejected"
           \/ CloseFinalizeDue(p, q) /\ View(p).st = "OffChainClosed"
  BY StandsBothWays
     DEF Either, Stands, CanOffer, OfferDue, OfferRejected, OfferHeard, OffersCross, AcceptDue,
         SplitDue, ConfirmDue, FinalizeDue, RevokeDue, BothSigned, CloseDue, CloseHeard,
         CloseRejected, ClosesCross, CloseAcceptDue, CloseConfirmDue, CloseFinalizeDue, Offerer,
         Closer, Signed

LEMMA WhereOffered ==
    ASSUME NEW p, NEW q, Either(p, q), View(p).st = "Offered"
    PROVE  \/ ~View(p).isOffer /\ OfferHeard(q, p)
           \/ /\ Offerer(p)
              /\ \/ OfferDue(p, q) \/ OfferRejected(p, q) \/ OfferRejected(q, p)
                 \/ OfferHeard(p, q) \/ OffersCross(p, q) \/ AcceptDue(p, q)
                 \/ CloseFinalizeDue(p, q)
  BY StandsBothWays
     DEF Either, Stands, CanOffer, AtRest, OfferDue, OfferRejected, OfferHeard, OffersCross,
         AcceptDue, SplitDue, ConfirmDue, FinalizeDue, RevokeDue, BothSigned, CloseDue,
         CloseHeard, CloseRejected, ClosesCross, CloseAcceptDue, CloseConfirmDue,
         CloseFinalizeDue, Offerer, Closer, Signed

LEMMA WhereSetUp ==
    ASSUME NEW p, NEW q, Either(p, q), View(p).st \in {"Accepted", "Confirmed", "Finalized"}
    PROVE  \/ View(p).st = "Accepted" /\ (AcceptDue(q, p) \/ ConfirmDue(q, p))
           \/ View(p).st = "Confirmed" /\ (ConfirmDue(p, q) \/ FinalizeDue(p, q))
           \/ View(p).st = "Finalized" /\ (FinalizeDue(q, p) \/ RevokeDue(q, p))
  BY DEF Either, Stands, CanOffer, AtRest, OfferDue, OfferRejected, OfferHeard, OffersCross,
         AcceptDue, SplitDue, ConfirmDue, FinalizeDue, RevokeDue, BothSigned, CloseDue,
         CloseHeard, CloseRejected, ClosesCross, CloseAcceptDue, CloseConfirmDue,
         CloseFinalizeDue, Offerer, Closer, Signed

LEMMA WhereSigned ==
    ASSUME NEW p, NEW q, Either(p, q), Signed(p)
    PROVE  RevokeDue(p, q) \/ BothSigned(p, q) \/ CloseDue(q, p) \/ CloseRejected(q, p)
  BY StandsBothWays
     DEF Either, Stands, CanOffer, AtRest, OfferDue, OfferRejected, OfferHeard, OffersCross,
         AcceptDue, SplitDue, ConfirmDue, FinalizeDue, RevokeDue, CloseDue,
         CloseHeard, CloseRejected, ClosesCross, CloseAcceptDue, CloseConfirmDue,
         CloseFinalizeDue, Offerer, Closer, Signed

LEMMA WhereCloseOffered ==
    ASSUME NEW p, NEW q, Either(p, q), View(p).st = "CloseOffered"
    PROVE  \/ ~View(p).ours /\ CloseHeard(q, p)
           \/ /\ Closer(p)
              /\ \/ RevokeDue(p, q) \/ CloseDue(p, q) \/ CloseHeard(p, q) \/ CloseRejected(p, q)
                 \/ CloseRejected(q, p) \/ ClosesCross(p, q) \/ CloseAcceptDue(p, q)
  BY StandsBothWays
     DEF Either, Stands, CanOffer, AtRest, OfferDue, OfferRejected, OfferHeard, OffersCross,
         AcceptDue, SplitDue, ConfirmDue, FinalizeDue, RevokeDue, BothSigned, CloseDue,
         CloseHeard, CloseRejected, ClosesCross, CloseAcceptDue, CloseConfirmDue,
         CloseFinalizeDue, Offerer, Closer, Signed

LEMMA WhereMerging ==
    ASSUME NEW p, NEW q, Either(p, q), View(p).st \in {"CloseAccepted", "CloseConfirmed"}
    PROVE  \/ View(p).st = "CloseAccepted" /\ (CloseAcceptDue(q, p) \/ CloseConfirmDue(q, p))
           \/ View(p).st = "CloseConfirmed" /\ (CloseConfirmDue(p, q) \/ CloseFinalizeDue(q, p))
  BY DEF Either, Stands, CanOffer, AtRest, OfferDue, OfferRejected, OfferHeard, OffersCross,
         AcceptDue, SplitDue, ConfirmDue, FinalizeDue, RevokeDue, BothSigned, CloseDue,
         CloseHeard, CloseRejected, ClosesCross, CloseAcceptDue, CloseConfirmDue,
         CloseFinalizeDue, Offerer, Closer, Signed

-----------------------------------------------------------------------------
(* A step of a party that is connected.                                    *)

Turn(p, q) ==
    /\ sub'[q] = sub[q] /\ dlc'[q] = dlc[q] /\ ln'[q] = ln[q] /\ actions'[q] = actions[q]
    /\ UNCHANGED <<conn, ready>>
Acting(p, q) ==
    /\ TypeInv /\ NetInv /\ p \in Party /\ q = Other(p) /\ ready[p]
    /\ Side(p, q) /\ Side(q, p) /\ Either(p, q)
(* What is left to show of it.                                             *)
Acted(p, q) == Turn(p, q) /\ DlcOf(p)' /\ OutOf(p)' /\ SecretsAt(p)' /\ Either(p, q)'

LEMMA Connected ==
    ASSUME NetInv, NEW p \in Party, ready[p]
    PROVE  conn
  BY DEF NetInv, Down

LEMMA ReadyView ==
    ASSUME NEW p, ready[p]
    PROVE  View(p) = sub[p] /\ Coming(p) = net[p] /\ Doing(p) = actions[p]
  BY DEF View, Coming, Doing

LEMMA ReadyViewNext ==
    ASSUME NEW p, ready'[p]
    PROVE  View(p)' = sub'[p] /\ Coming(p)' = net'[p] /\ Doing(p)' = actions'[p]
  BY DEF View, Coming, Doing

LEMMA ComingTyped ==
    ASSUME TypeInv, NEW p \in Party, Greeting(p)
    PROVE  Coming(p) \in Seq(Message)
  <1>1. net[p] \in Seq(Message)
    BY TypeParts DEF NetTyped
  <1>2. net[p] # <<>> => Tail(net[p]) \in Seq(Message)
    BY <1>1
  <1> QED BY <1>1, <1>2 DEF Coming, Greeting

LEMMA DoingTyped ==
    ASSUME TypeInv, NEW p \in Party
    PROVE  actions[p] \in Seq(Action)
  BY DEF TypeInv, TypeOK

(* Its messages come after the peer's reestablish message.                 *)
LEMMA HeadKept ==
    ASSUME NEW S, NEW m \in Seq(S), NEW x \in S, m # <<>>
    PROVE  /\ Append(m, x) # <<>> /\ Head(Append(m, x)) = Head(m)
           /\ Tail(Append(m, x)) = Append(Tail(m), x)
  BY HeadTailAppend, AppendProperties

LEMMA PeerViews ==
    ASSUME TypeInv, NetInv, NEW p \in Party, NEW q, q = Other(p), conn, Greeting(q),
           Turn(p, q), NEW m \in Message,
           net'[q] = net[q] \/ net'[q] = Append(net[q], m)
    PROVE  /\ View(q)' = View(q) /\ Doing(q)' = Doing(q)
           /\ net'[q] = net[q] => Coming(q)' = Coming(q)
           /\ net'[q] = Append(net[q], m) => Coming(q)' = Append(Coming(q), m)
           /\ Greeting(q)'
  <1>1. net[q] \in Seq(Message) /\ q \in Party
    BY TypeParts, Others DEF NetTyped
  <1>2. CASE ready[q]
    <2>1. ready'[q]
      BY <1>2 DEF Turn
    <2> QED BY <1>2, <2>1, ReadyView, ReadyViewNext DEF Turn, Greeting
  <1>3. CASE ~ready[q]
    <2>1. ~ready'[q] /\ conn' /\ net[q] # <<>> /\ Head(net[q]).type = "Reestablish"
      BY <1>3 DEF Turn, Greeting
    <2>2. /\ net'[q] # <<>> /\ Head(net'[q]) = Head(net[q])
          /\ Tail(net'[q]) = IF net'[q] = net[q] THEN Tail(net[q]) ELSE Append(Tail(net[q]), m)
      BY <1>1, <2>1, HeadKept
    <2>3. Seen(q)' = Seen(q)
      BY <2>1, <2>2 DEF Seen
    <2>4. View(q)' = View(q) /\ Doing(q)' = Doing(q)
      BY <1>3, <2>1, <2>3 DEF View, Doing, Turn
    <2>5. Greeting(q)'
      BY <2>1, <2>2 DEF Greeting
    <2>6. net'[q] = Append(net[q], m) => Tail(net'[q]) = Append(Tail(net[q]), m)
      BY <1>1, <2>1, HeadKept
    <2> QED BY <1>3, <2>1, <2>2, <2>3, <2>4, <2>5, <2>6 DEF Coming
  <1> QED BY <1>2, <1>3

LEMMA ActedStable ==
    ASSUME NEW p, NEW q, Acting(p, q), Acted(p, q), NEW m \in Message, Says(p, m)
    PROVE  Stable(p, q)'
  <1>1. TypeInv /\ NetInv /\ p \in Party /\ q = Other(p) /\ ready[p] /\ Side(q, p) /\ Turn(p, q)
    BY DEF Acting, Acted
  <1>2. conn /\ conn' /\ ready'[p] /\ ready'[q] = ready[q]
    BY <1>1, Connected DEF Turn
  <1>3. net'[q] = net[q] \/ net'[q] = Append(net[q], m)
    BY <1>1 DEF Says
  <1>4. Greeting(q)'
    BY <1>1, <1>2, <1>3, PeerViews DEF Side
  <1>5. DlcOf(q)' /\ OutOf(q)' /\ SecretsAt(q)' /\ Forms(q)'
    <2>1. DlcOf(q)' /\ OutOf(q)' /\ SecretsAt(q)'
      BY <1>1 DEF Side, Turn, DlcOf, OutOf, SecretsAt
    <2> QED BY <1>1, <1>2, <2>1 DEF Side, Forms, Turn
  <1>6. Side(q, p)'
    BY <1>2, <1>4, <1>5 DEF Side, Cold, Fresh
  <1>7. Side(p, q)'
    BY <1>2 DEF Acted, Side, Greeting, Forms, Cold, Fresh
  <1> QED BY <1>6, <1>7 DEF Stable, Stand, Acted, Either

(* What it does to what comes to either.                                   *)
Views(p, q) ==
    /\ View(p) = sub[p] /\ Coming(p) = net[p] /\ Doing(p) = actions[p]
    /\ View(p)' = sub'[p] /\ Doing(p)' = actions'[p]
    /\ View(q)' = View(q) /\ Doing(q)' = Doing(q)
Sent(q, m) ==
    /\ Coming(q) = <<>> => Just(Coming(q)', m.type) /\ Coming(q)'[1] = m
    /\ \A type : Just(Coming(q), type) =>
         /\ Pair(Coming(q)', type, m.type)
         /\ Coming(q)'[1] = Coming(q)[1] /\ Coming(q)'[2] = m
    /\ \A type : Only(Coming(q), type) /\ m.type = type => Only(Coming(q)', type)
Taken(p) ==
    /\ Coming(p) # <<>>
    /\ Len(Coming(p)) = 1 => Head(net[p]) = Coming(p)[1] /\ Coming(p)' = <<>>
    /\ \A type : Just(Coming(p), type) => Head(net[p]) = Coming(p)[1] /\ Coming(p)' = <<>>
    /\ \A type, next : Pair(Coming(p), type, next) =>
         /\ Head(net[p]) = Coming(p)[1]
         /\ Just(Coming(p)', next) /\ Coming(p)'[1] = Coming(p)[2]
    /\ \A type : Only(Coming(p), type) => Head(net[p]).type = type /\ Only(Coming(p)', type)

LEMMA OwnViews ==
    ASSUME NEW p, NEW q, Acting(p, q), Turn(p, q), NEW m \in Message,
           net'[q] = net[q] \/ net'[q] = Append(net[q], m)
    PROVE  /\ Views(p, q) /\ Coming(p)' = net'[p]
           /\ net'[q] = net[q] => Coming(q)' = Coming(q)
           /\ net'[q] = Append(net[q], m) => Sent(q, m)
  <1>1. TypeInv /\ NetInv /\ p \in Party /\ q = Other(p) /\ ready[p] /\ Greeting(q) /\ q \in Party
    BY Others DEF Acting, Side
  <1>2. conn /\ ready'[p]
    BY <1>1, Connected DEF Turn
  <1>3. /\ View(q)' = View(q) /\ Doing(q)' = Doing(q)
        /\ net'[q] = net[q] => Coming(q)' = Coming(q)
        /\ net'[q] = Append(net[q], m) => Coming(q)' = Append(Coming(q), m)
    BY <1>1, <1>2, PeerViews
  <1>4. ASSUME Coming(q)' = Append(Coming(q), m)
        PROVE  Sent(q, m)
    <2>1. Coming(q) \in Seq(Message)
      BY <1>1, ComingTyped
    <2> DEFINE c == Coming(q)
    <2>2. /\ c = <<>> => Just(Append(c, m), m.type) /\ Append(c, m)[1] = m
          /\ \A type : Just(c, type) =>
                /\ Pair(Append(c, m), type, m.type)
                /\ Append(c, m)[1] = c[1] /\ Append(c, m)[2] = m
          /\ \A type : Only(c, type) /\ m.type = type => Only(Append(c, m), type)
      <3>1. c \in Seq(Message)
        BY <2>1
      <3> HIDE DEF c
      <3> QED BY <3>1, JustAppend
    <2> QED BY <1>4, <2>2 DEF Sent
  <1> QED BY <1>1, <1>2, <1>3, <1>4, ReadyView, ReadyViewNext DEF Views

LEMMA TakenViews ==
    ASSUME NEW p, TypeInv, p \in Party, ready[p], ready'[p], net[p] # <<>>, net'[p] = Tail(net[p])
    PROVE  Taken(p)
  <1> DEFINE c == net[p]
  <1>1. c \in Seq(Message) /\ c # <<>>
    BY TypeParts DEF NetTyped
  <1>2. /\ \A type : Just(c, type) => Head(c) = c[1] /\ Tail(c) = <<>>
        /\ \A type, next : Pair(c, type, next) =>
             Head(c) = c[1] /\ Just(Tail(c), next) /\ Tail(c)[1] = c[2]
        /\ \A type : Only(c, type) => Head(c).type = type /\ Only(Tail(c), type)
        /\ Len(c) = 1 => Head(c) = c[1] /\ Tail(c) = <<>>
    <2> HIDE DEF c
    <2> QED BY <1>1, JustTail
  <1>3. Coming(p) = c /\ Coming(p)' = Tail(c)
    BY ReadyView, ReadyViewNext
  <1> QED BY <1>1, <1>2, <1>3 DEF Taken

LEMMA SendViews ==
    ASSUME NEW p, NEW q, Acting(p, q), Turn(p, q), NEW m \in Message, Send(p, m)
    PROVE  Views(p, q) /\ Coming(p)' = Coming(p) /\ Sent(q, m) /\ Says(p, m)
  <1>1. net'[p] = net[p] /\ net'[q] = Append(net[q], m) /\ Says(p, m)
    <2>1. TypeInv /\ p \in Party /\ q = Other(p) /\ conn
      BY Connected DEF Acting
    <2>2. net \in [Party -> Seq(Message)]
      BY <2>1, TypeParts DEF NetTyped
    <2> QED BY <2>1, <2>2, Others, SendSays DEF Send
  <1> QED BY <1>1, OwnViews DEF Views

LEMMA ReplyViews ==
    ASSUME NEW p, NEW q, Acting(p, q), Turn(p, q), NEW m \in Message, net[p] # <<>>, Reply(p, m)
    PROVE  Views(p, q) /\ Taken(p) /\ Sent(q, m) /\ Says(p, m)
  <1>1. TypeInv /\ p \in Party /\ q = Other(p) /\ ready[p] /\ ready'[p]
    BY DEF Acting, Turn
  <1>2. net \in [Party -> Seq(Message)]
    BY <1>1, TypeParts DEF NetTyped
  <1>3. net'[p] = Tail(net[p]) /\ net'[q] = Append(net[q], m) /\ Says(p, m)
    BY <1>1, <1>2, Others, ReplySays DEF Reply
  <1> QED BY <1>1, <1>3, OwnViews, TakenViews DEF Views

LEMMA ConsumeViews ==
    ASSUME NEW p, NEW q, Acting(p, q), Turn(p, q), net[p] # <<>>, Consume(p)
    PROVE  /\ Views(p, q) /\ Taken(p) /\ Coming(q)' = Coming(q)
           /\ \E m \in Message : Says(p, m)
  <1>1. TypeInv /\ p \in Party /\ q = Other(p) /\ ready[p] /\ ready'[p]
    BY DEF Acting, Turn
  <1>2. net \in [Party -> Seq(Message)] /\ Msg("Reject") \in Message
    BY <1>1, TypeParts, MsgTyped DEF NetTyped, MessageType
  <1>3. net'[p] = Tail(net[p]) /\ net'[q] = net[q]
    BY <1>1, <1>2, Others DEF Consume
  <1>4. Says(p, Msg("Reject"))
    BY <1>1, <1>3 DEF Says, TakesOrNot, Takes
  <1> QED BY <1>1, <1>2, <1>3, <1>4, OwnViews, TakenViews DEF Views

-----------------------------------------------------------------------------
(* Splitting.                                                              *)

Acts(p, q) == Acted(p, q) /\ \E m \in Message : Says(p, m)

LEMMA ActingParts ==
    ASSUME NEW p, NEW q, Acting(p, q)
    PROVE  /\ TypeInv /\ NetInv /\ p \in Party /\ q \in Party /\ q = Other(p) /\ q # p
           /\ ready[p] /\ Either(p, q) /\ DlcOf(p) /\ OutOf(p) /\ SecretsAt(p)
           /\ View(p) = sub[p] /\ Coming(p) = net[p] /\ Doing(p) = actions[p]
           /\ dlc \in [Party -> DlcState]
           /\ ln \in [Party -> [open : BOOLEAN, out : {"fund", "glue", "split"}]]
  BY Others, ReadyView DEF Acting, Side, TypeInv, TypeOK

LEMMA SetTurns ==
    ASSUME NEW p, NEW q, Acting(p, q), NEW s \in SubChannelRecord, SetSub(p, s) \/ UNCHANGED sub,
           UNCHANGED dlc \/ \E d : SetDlc(p, d), UNCHANGED ln \/ \E o : SetOut(p, o),
           actions'[q] = actions[q], UNCHANGED <<conn, ready>>
    PROVE  Turn(p, q) /\ (SetSub(p, s) => sub'[p] = s)
  <1>1. TypeInv /\ p \in Party /\ q \in Party /\ q = Other(p) /\ q # p
    BY ActingParts
  <1>2. sub'[q] = sub[q] /\ (SetSub(p, s) => sub'[p] = s)
    BY <1>1, SetSubFrame
  <1>3. dlc'[q] = dlc[q]
    BY <1>1, ActingParts DEF SetDlc
  <1>4. ln'[q] = ln[q]
    BY <1>1, ActingParts DEF SetOut
  <1> QED BY <1>2, <1>3, <1>4 DEF Turn

LEMMA SetDlcTo ==
    ASSUME NEW p, NEW q, Acting(p, q), NEW d, SetDlc(p, d)
    PROVE  dlc'[p] = d
  BY ActingParts DEF SetDlc

LEMMA OfferActs ==
    ASSUME NEW p, NEW q, Acting(p, q), OfferSubChannel(p), ~torn'
    PROVE  Acts(p, q)
  <1> DEFINE s2 == [sub[p] EXCEPT !.st = "Offered", !.isOffer = TRUE, !.idx = NextIdx(sub[p]),
                                  !.point = PerSplitPoint(p, NextIdx(sub[p]))]
             m == [Msg("Offer") EXCEPT !.point = s2.point]
  <1>0. TypeInv /\ p \in Party /\ q \in Party
    BY ActingParts
  <1>1. /\ SetSub(p, s2) /\ Send(p, m) /\ CanOffer(sub[p]) /\ SetDlc(p, "Offered")
        /\ UNCHANGED <<ln, actions, conn, ready>> /\ actions[p] = <<>>
    BY DEF OfferSubChannel, actVars, Torn, Recovering
  <1>2. /\ s2 \in SubChannelRecord /\ s2.st = "Offered" /\ s2.isOffer /\ s2.idx = sub[p].idx + 1
        /\ s2.point = PerSplitPoint(p, s2.idx) /\ s2.secrets = sub[p].secrets /\ s2.point \in Point
    <2>1. sub[p].idx + 1 \in Index /\ PerSplitPoint(p, sub[p].idx + 1) \in Point
      BY <1>0, Fields, PointTyped DEF Index
    <2> QED BY <1>0, <2>1, Fields DEF SubChannelRecord, NextIdx, StateName
  <1>3. m \in Message /\ m.type = "Offer" /\ m.point = s2.point
    BY <1>2, MsgTyped DEF MessageType, Message
  <1> HIDE DEF s2, m
  <1>4. Turn(p, q) /\ sub'[p] = s2 /\ dlc'[p] = "Offered"
    BY <1>1, <1>2, SetTurns, SetDlcTo
  <1>5. Views(p, q) /\ Coming(p)' = Coming(p) /\ Sent(q, m) /\ Says(p, m)
    BY <1>1, <1>3, <1>4, SendViews
  <1>6. DlcOf(p)' /\ OutOf(p)' /\ SecretsAt(p)'
    BY <1>1, <1>2, <1>4, ActingParts DEF DlcOf, DlcFor, OutOf, OutFor, SecretsAt, CanOffer
  <1>7. /\ View(p) = sub[p] /\ View(p)' = s2 /\ Doing(p) = <<>> /\ Doing(p)' = <<>>
        /\ View(q)' = View(q) /\ Doing(q)' = Doing(q) /\ Offerer(p)'
    BY <1>1, <1>2, <1>4, <1>5 DEF Views, Offerer
  <1>8. Either(p, q)'
    <2>1. CASE AtRest(p, q)
      <3>1. OfferDue(p, q)'
        BY <1>2, <1>3, <1>5, <1>7, <2>1 DEF AtRest, OfferDue, Quieted, Sent
      <3> QED BY <3>1 DEF Either, Stands
    <2>2. CASE OfferDue(q, p)
      <3>1. Coming(p) \in Seq(Message)
        BY <1>0, ActingParts, TypeParts DEF NetTyped
      <3>2. Only(Coming(p), "Offer") /\ Coming(q) = <<>> /\ Maybe(Doing(q), "ResendOffer")
        BY <2>2, <3>1, ListsApart DEF OfferDue, Maybe
      <3>3. Only(Coming(q)', "Offer")
        BY <1>3, <1>5, <3>2, NoItems DEF Sent
      <3>4. OffersCross(p, q)'
        BY <1>2, <1>3, <1>5, <1>7, <2>2, <3>2, <3>3 DEF OfferDue, OffersCross, Offerer, Maybe
      <3> QED BY <3>4 DEF Either, Stands
    <2>3. CASE OfferRejected(q, p) /\ View(p).st = "Rejected"
      <3>1. OfferRejected(q, p)'
        BY <1>2, <1>3, <1>5, <1>7, <2>3 DEF OfferRejected, Offerer, Sent
      <3> QED BY <3>1 DEF Either, Stands
    <2>4. CASE CloseFinalizeDue(p, q) /\ View(p).st = "OffChainClosed"
      <3>1. Len(Coming(q)) = 1 /\ Coming(q) # <<>> /\ Coming(p) = <<>>
        <4>1. Len(Coming(q)) = 1 \/ Len(Doing(p)) = 1
          BY <2>4 DEF CloseFinalizeDue, Offerer
        <4>2. Len(Doing(p)) = 0
          BY <1>7, NoItems
        <4>3. Coming(p) = <<>>
          BY <2>4 DEF CloseFinalizeDue
        <4> QED BY <4>1, <4>2, <4>3, NoItems
      <3>2. Just(Coming(q), "CloseFinalize")
        BY <2>4, <3>1 DEF CloseFinalizeDue, Just
      <3>3. Pair(Coming(q)', "CloseFinalize", "Offer") /\ Coming(q)'[1] = Coming(q)[1]
            /\ Coming(q)'[2] = m
        BY <1>3, <1>5, <3>2 DEF Sent
      <3>4. Coming(q)' # <<>>
        BY <3>3, NoItems
      <3>5. CloseFinalizeDue(p, q)'
        BY <1>2, <1>3, <1>5, <1>7, <2>4, <3>1, <3>3, <3>4 DEF CloseFinalizeDue, Offerer
      <3> QED BY <3>5 DEF Either, Stands
    <2> QED BY <1>1, <1>7, <2>1, <2>2, <2>3, <2>4, WhereIdle, ActingParts
  <1> QED BY <1>3, <1>4, <1>5, <1>6, <1>8 DEF Acts, Acted

(* The first message that comes to p says where the two stand.             *)
AtMessage(p, q, type) ==
    \/ type = "Offer" /\ (OfferDue(q, p) \/ OffersCross(p, q))
    \/ type = "Accept" /\ AcceptDue(p, q)
    \/ type = "Confirm" /\ ConfirmDue(q, p)
    \/ type = "Finalize" /\ FinalizeDue(p, q)
    \/ type = "Revoke" /\ RevokeDue(q, p)
    \/ type = "Reject" /\ (OfferRejected(p, q) \/ CloseRejected(p, q))
    \/ type = "CloseOffer" /\ (RevokeDue(q, p) \/ CloseDue(q, p) \/ ClosesCross(p, q))
    \/ type = "CloseAccept" /\ CloseAcceptDue(p, q)
    \/ type = "CloseConfirm" /\ CloseConfirmDue(q, p)
    \/ type = "CloseFinalize" /\ CloseFinalizeDue(q, p)

LEMMA FirstMessage ==
    ASSUME NEW p, NEW q, Either(p, q), Coming(p) # <<>>,
           \A type : Only(Coming(p), type) => Coming(p)[1].type = type
    PROVE  AtMessage(p, q, Coming(p)[1].type)
  <1>1. CASE Stands(p, q)
    BY <1>1
       DEF AtMessage, Stands, AtRest, OfferDue, OfferRejected, OfferHeard, OffersCross, AcceptDue,
           ConfirmDue, FinalizeDue, RevokeDue, BothSigned, CloseDue, CloseHeard, CloseRejected,
           ClosesCross, CloseAcceptDue, CloseConfirmDue, CloseFinalizeDue, Quieted, Just, Pair
  <1>2. CASE Stands(q, p)
    BY <1>2, StandsBothWays
       DEF AtMessage, Stands, AtRest, OfferDue, OfferRejected, OfferHeard, AcceptDue,
           ConfirmDue, FinalizeDue, RevokeDue, BothSigned, CloseDue, CloseHeard, CloseRejected,
           CloseAcceptDue, CloseConfirmDue, CloseFinalizeDue, Quieted, Just, Pair,
           OffersCross, ClosesCross
  <1> QED BY <1>1, <1>2 DEF Either

LEMMA HeadMessage ==
    ASSUME NEW p, NEW q, Acting(p, q), net[p] # <<>>
    PROVE  /\ Head(net[p]) = Coming(p)[1] /\ Head(net[p]) \in Message
           /\ AtMessage(p, q, Head(net[p]).type)
  <1>1. TypeInv /\ p \in Party /\ Coming(p) = net[p] /\ Either(p, q)
    BY ActingParts
  <1>2. net[p] \in Seq(Message)
    BY <1>1, TypeParts DEF NetTyped
  <1>3. /\ Head(net[p]) = net[p][1] /\ Head(net[p]) \in Message
        /\ \A type : Only(net[p], type) => net[p][1].type = type
    <2> DEFINE c == net[p]
    <2>1. c \in Seq(Message) /\ c # <<>>
      BY <1>2
    <2> HIDE DEF c
    <2>2. Head(c) = c[1] /\ Head(c) \in Message /\ \A type : Only(c, type) => c[1].type = type
      BY <2>1, JustTail, HeadTailProperties
    <2> QED BY <2>2 DEF c
  <1> QED BY <1>1, <1>3, FirstMessage

LEMMA GetOfferActs ==
    ASSUME NEW p, NEW q, Acting(p, q), OnSubchannelOffer(p)
    PROVE  Acts(p, q)
  <1> DEFINE b == sub[p].basePoints \/ sub[p].st = "None"
             s2 == [sub[p] EXCEPT !.st = "Offered", !.isOffer = FALSE, !.idx = NextIdx(sub[p]),
                                  !.point = Head(net[p]).point, !.basePoints = b]
  <1>0. TypeInv /\ p \in Party /\ q \in Party
    BY ActingParts
  <1>1. /\ SetSub(p, s2) /\ Consume(p) /\ CanOffer(sub[p]) /\ SetDlc(p, "Offered")
        /\ UNCHANGED <<ln, actions, conn, ready>> /\ net[p] # <<>> /\ Head(net[p]).type = "Offer"
    BY DEF OnSubchannelOffer, actVars, Received, CanReceiveOffer
  <1>2. /\ s2 \in SubChannelRecord /\ s2.st = "Offered" /\ ~s2.isOffer /\ s2.idx = sub[p].idx + 1
        /\ s2.point = Head(net[p]).point /\ s2.secrets = sub[p].secrets
    <2>1. sub[p].idx + 1 \in Index /\ b \in BOOLEAN /\ Head(net[p]).point \in Point
      BY <1>0, <1>1, Fields, Heads DEF Index
    <2> HIDE DEF b
    <2> QED BY <1>0, <2>1, Fields DEF SubChannelRecord, NextIdx, StateName
  <1> HIDE DEF s2
  <1>3. Turn(p, q) /\ sub'[p] = s2 /\ dlc'[p] = "Offered"
    BY <1>1, <1>2, SetTurns, SetDlcTo
  <1>4. Views(p, q) /\ Taken(p) /\ Coming(q)' = Coming(q) /\ \E m \in Message : Says(p, m)
    BY <1>1, <1>3, ConsumeViews
  <1>5. DlcOf(p)' /\ OutOf(p)' /\ SecretsAt(p)'
    BY <1>1, <1>2, <1>3, ActingParts DEF DlcOf, DlcFor, OutOf, OutFor, SecretsAt, CanOffer
  <1>6. OfferDue(q, p)
    BY <1>1, HeadMessage, ActingParts DEF AtMessage, OffersCross, Offerer, CanOffer
  <1>7. Just(Coming(p), "Offer") /\ Head(net[p]) = Coming(p)[1] /\ Coming(p)' = <<>>
    BY <1>4, <1>6 DEF OfferDue, Taken
  <1>8. OfferHeard(q, p)'
    BY <1>1, <1>2, <1>3, <1>4, <1>6, <1>7, NoItems DEF OfferDue, OfferHeard, Offerer, Views, Quieted, Maybe
  <1> QED BY <1>3, <1>4, <1>5, <1>8 DEF Acts, Acted, Either, Stands

LEMMA AcceptEffectActs ==
    ASSUME NEW p, NEW q, Acting(p, q), CanAccept(p), AcceptEffect(p), OfferHeard(q, p),
           actions'[p] = <<>>, actions'[q] = actions[q], UNCHANGED <<conn, ready>>
    PROVE  Acts(p, q)
  <1> DEFINE t == AcceptedSplit(p, sub[p])
             m == [Msg("Accept") EXCEPT !.point = t.accept, !.split = t]
             s2 == [sub[p] EXCEPT !.st = "Accepted", !.split = t, !.commits = TRUE]
  <1>0. TypeInv /\ p \in Party /\ q \in Party
    BY ActingParts
  <1>1. SetSub(p, s2) /\ SetDlc(p, "Accepted") /\ SetOut(p, "glue") /\ Send(p, m)
    BY DEF AcceptEffect
  <1>2. /\ t \in Split /\ t.accept \in Point /\ t.accept = PerSplitPoint(p, sub[p].idx)
        /\ t = [offer |-> sub[p].point, accept |-> PerSplitPoint(p, sub[p].idx)]
    BY <1>0, Fields, PointTyped DEF AcceptedSplit, Split, Index
  <1> HIDE DEF t
  <1>3. m \in Message /\ m.type = "Accept" /\ m.split = t /\ m.point = t.accept
    BY <1>2, MsgTyped DEF MessageType, Message
  <1>4. /\ s2 \in SubChannelRecord /\ s2.st = "Accepted" /\ s2.split = t /\ s2.idx = sub[p].idx
        /\ s2.isOffer = sub[p].isOffer /\ s2.secrets = sub[p].secrets
    BY <1>0, <1>2, Fields DEF SubChannelRecord, StateName
  <1> HIDE DEF s2, m
  <1>5. Turn(p, q) /\ sub'[p] = s2 /\ dlc'[p] = "Accepted"
    BY <1>1, <1>4, SetTurns, SetDlcTo
  <1>6. ln'[p].out = "glue"
    BY <1>0, <1>1, OutMoved
  <1>7. Views(p, q) /\ Coming(p)' = Coming(p) /\ Sent(q, m) /\ Says(p, m)
    BY <1>1, <1>3, <1>5, SendViews
  <1>8. DlcOf(p)' /\ OutOf(p)' /\ SecretsAt(p)'
    BY <1>4, <1>5, <1>6, ActingParts DEF DlcOf, DlcFor, OutOf, OutFor, SecretsAt
  <1>9. t = At(q, p, View(q).idx)
    BY <1>2, ActingParts DEF OfferHeard, Offerer, At
  <1>10. Just(Coming(q)', "Accept") /\ Coming(q)'[1] = m
    BY <1>3, <1>7 DEF Sent, OfferHeard, Quieted
  <1>11. AcceptDue(q, p)'
    BY <1>2, <1>3, <1>4, <1>5, <1>7, <1>9, <1>10 DEF OfferHeard, AcceptDue, Offerer, Views, Quieted
  <1> QED BY <1>3, <1>5, <1>7, <1>8, <1>11 DEF Acts, Acted, Either, Stands

LEMMA AcceptActs ==
    ASSUME NEW p, NEW q, Acting(p, q), AcceptSubChannel(p), ~torn'
    PROVE  Acts(p, q)
  <1>1. /\ CanAccept(p) /\ AcceptEffect(p) /\ UNCHANGED <<actions, conn, ready>>
        /\ ~Pending(p, "ReAccept") /\ sub[p].st = "Offered" /\ ~sub[p].isOffer
    BY DEF AcceptSubChannel, actVars, Torn, CanAccept, In
  <1>2. OfferHeard(q, p)
    BY <1>1, WhereOffered, ActingParts DEF Offerer
  <1>3. ~Just(actions[p], "ReAccept")
    BY <1>1 DEF Pending, Just
  <1>4. actions'[p] = <<>>
    BY <1>1, <1>2, <1>3, ActingParts DEF OfferHeard, Maybe
  <1> QED BY <1>1, <1>2, <1>4, AcceptEffectActs

LEMMA ConfirmActs ==
    ASSUME NEW p, NEW q, Acting(p, q), OnSubchannelAccept(p)
    PROVE  Acts(p, q)
  <1> DEFINE t == OfferedSplit(sub[p], Head(net[p]))
             m == [Msg("Confirm") EXCEPT !.split = t]
             s2 == [sub[p] EXCEPT !.st = "Confirmed", !.split = t, !.basePoints = TRUE,
                                  !.commits = TRUE]
  <1>0. TypeInv /\ p \in Party /\ q \in Party
    BY ActingParts
  <1>1. /\ SetSub(p, s2) /\ SetDlc(p, "Signed") /\ SetOut(p, "glue") /\ Reply(p, m)
        /\ net[p] # <<>> /\ Head(net[p]).type = "Accept"
        /\ UNCHANGED <<actions, conn, ready>>
    BY DEF OnSubchannelAccept, Received, actVars
  <1>2. t \in Split /\ t = [offer |-> sub[p].point, accept |-> Head(net[p]).point]
    BY <1>0, <1>1, Fields, Heads DEF OfferedSplit, Split
  <1> HIDE DEF t
  <1>3. m \in Message /\ m.type = "Confirm" /\ m.split = t
    BY <1>2, MsgTyped DEF MessageType, Message
  <1>4. /\ s2 \in SubChannelRecord /\ s2.st = "Confirmed" /\ s2.split = t /\ s2.idx = sub[p].idx
        /\ s2.isOffer = sub[p].isOffer /\ s2.secrets = sub[p].secrets
    BY <1>0, <1>2, Fields DEF SubChannelRecord, StateName
  <1> HIDE DEF s2, m
  <1>5. Turn(p, q) /\ sub'[p] = s2 /\ dlc'[p] = "Signed"
    BY <1>1, <1>4, SetTurns, SetDlcTo
  <1>6. ln'[p].out = "glue"
    BY <1>0, <1>1, OutMoved
  <1>7. Views(p, q) /\ Taken(p) /\ Sent(q, m) /\ Says(p, m)
    BY <1>1, <1>3, <1>5, ReplyViews
  <1>8. DlcOf(p)' /\ OutOf(p)' /\ SecretsAt(p)'
    BY <1>4, <1>5, <1>6, ActingParts DEF DlcOf, DlcFor, OutOf, OutFor, SecretsAt
  <1>9. AcceptDue(p, q)
    BY <1>1, HeadMessage DEF AtMessage
  <1>10. Coming(p)' = <<>> /\ Head(net[p]) = Coming(p)[1]
    BY <1>7, <1>9 DEF AcceptDue, Taken
  <1>11. t = At(p, q, View(p).idx)
    BY <1>2, <1>9, <1>10, ActingParts DEF AcceptDue, Offerer, At
  <1>12. Just(Coming(q)', "Confirm") /\ Coming(q)'[1] = m
    BY <1>3, <1>7, <1>9 DEF Sent, AcceptDue
  <1>13. View(p)' = s2 /\ View(q)' = View(q) /\ Doing(p)' = <<>> /\ Doing(q)' = <<>> /\ View(p) = sub[p]
    BY <1>1, <1>5, <1>7, <1>9 DEF AcceptDue, Views
  <1>14. SplitDue(p, q)'
    BY <1>4, <1>9, <1>11, <1>13 DEF AcceptDue, SplitDue, Offerer
  <1>15. ConfirmDue(p, q)'
    BY <1>3, <1>4, <1>9, <1>10, <1>12, <1>13, <1>14 DEF AcceptDue, ConfirmDue
  <1> QED BY <1>3, <1>5, <1>7, <1>8, <1>15 DEF Acts, Acted, Either, Stands

LEMMA NotInvalid ==
    ASSUME NEW p, NEW q, Acting(p, q)
    PROVE  ~OnSubchannelAcceptInvalid(p) /\ ~OnSubChannelCloseAcceptInvalid(p)
  <1>1. ASSUME net[p] # <<>>, Head(net[p]).type = "Accept"
        PROVE  AcceptValid(sub[p], Head(net[p]))
    <2>1. AcceptDue(p, q) /\ Head(net[p]) = Coming(p)[1]
      BY <1>1, HeadMessage DEF AtMessage
    <2> QED BY <2>1, ActingParts DEF AcceptDue, AcceptValid, OfferedSplit, Offerer, At
  <1>2. ASSUME net[p] # <<>>, Head(net[p]).type = "CloseAccept"
        PROVE  Head(net[p]).balance = sub[p].balance
    <2>1. CloseAcceptDue(p, q) /\ Head(net[p]) = Coming(p)[1]
      BY <1>2, HeadMessage DEF AtMessage
    <2> QED BY <2>1, ActingParts DEF CloseAcceptDue
  <1> QED BY <1>1, <1>2 DEF OnSubchannelAcceptInvalid, OnSubChannelCloseAcceptInvalid, Received

LEMMA FinalizeActs ==
    ASSUME NEW p, NEW q, Acting(p, q), OnSubchannelConfirm(p)
    PROVE  Acts(p, q)
  <1> DEFINE m == [Msg("Finalize") EXCEPT !.split = sub[p].split]
             s2 == [sub[p] EXCEPT !.st = "Finalized", !.commits = FALSE]
  <1>0. TypeInv /\ p \in Party /\ q \in Party
    BY ActingParts
  <1>1. /\ SetSub(p, s2) /\ SetDlc(p, "Confirmed") /\ Reply(p, m)
        /\ net[p] # <<>> /\ Head(net[p]).type = "Confirm" /\ sub[p].st = "Accepted"
        /\ UNCHANGED <<ln, actions, conn, ready>>
    BY DEF OnSubchannelConfirm, Received, actVars, CanFinalize, In
  <1>3. m \in Message /\ m.type = "Finalize" /\ m.split = sub[p].split
    BY <1>0, Fields, MsgTyped DEF MessageType, Message
  <1>4. /\ s2 \in SubChannelRecord /\ s2.st = "Finalized" /\ s2.split = sub[p].split
        /\ s2.idx = sub[p].idx /\ s2.isOffer = sub[p].isOffer /\ s2.secrets = sub[p].secrets
    BY <1>0, Fields DEF SubChannelRecord, StateName
  <1> HIDE DEF s2, m
  <1>5. Turn(p, q) /\ sub'[p] = s2 /\ dlc'[p] = "Confirmed"
    BY <1>1, <1>4, SetTurns, SetDlcTo
  <1>7. Views(p, q) /\ Taken(p) /\ Sent(q, m) /\ Says(p, m)
    BY <1>1, <1>3, <1>5, ReplyViews
  <1>8. DlcOf(p)' /\ OutOf(p)' /\ SecretsAt(p)'
    BY <1>1, <1>4, <1>5, ActingParts DEF DlcOf, DlcFor, OutOf, OutFor, SecretsAt
  <1>9. ConfirmDue(q, p)
    BY <1>1, HeadMessage DEF AtMessage
  <1>10. Coming(p)' = <<>>
    BY <1>7, <1>9 DEF ConfirmDue, Taken
  <1>12. Just(Coming(q)', "Finalize") /\ Coming(q)'[1] = m
    BY <1>3, <1>7, <1>9 DEF Sent, ConfirmDue
  <1>13. FinalizeDue(q, p)'
    BY <1>1, <1>3, <1>4, <1>5, <1>7, <1>9, <1>10, <1>12, ActingParts
       DEF ConfirmDue, FinalizeDue, SplitDue, Views
  <1> QED BY <1>3, <1>5, <1>7, <1>8, <1>13 DEF Acts, Acted, Either, Stands

LEMMA SignActs ==
    ASSUME NEW p, NEW q, Acting(p, q), OnSubChannelFinalize(p)
    PROVE  Acts(p, q)
  <1> DEFINE m == Msg("Revoke")
             s2 == [sub[p] EXCEPT !.st = "Signed", !.commits = FALSE]
  <1>0. TypeInv /\ p \in Party /\ q \in Party
    BY ActingParts
  <1>1. /\ SetSub(p, s2) /\ SetDlc(p, "Confirmed") /\ Reply(p, m)
        /\ net[p] # <<>> /\ Head(net[p]).type = "Finalize" /\ sub[p].st = "Confirmed"
        /\ UNCHANGED <<ln, actions, conn, ready>>
    BY DEF OnSubChannelFinalize, Received, actVars, CanSign, In
  <1>3. m \in Message /\ m.type = "Revoke"
    BY MsgTyped DEF MessageType
  <1>4. /\ s2 \in SubChannelRecord /\ s2.st = "Signed" /\ s2.split = sub[p].split
        /\ s2.idx = sub[p].idx /\ s2.secrets = sub[p].secrets
    BY <1>0, Fields DEF SubChannelRecord, StateName
  <1> HIDE DEF s2, m
  <1>5. Turn(p, q) /\ sub'[p] = s2 /\ dlc'[p] = "Confirmed"
    BY <1>1, <1>4, SetTurns, SetDlcTo
  <1>7. Views(p, q) /\ Taken(p) /\ Sent(q, m) /\ Says(p, m)
    BY <1>1, <1>3, <1>5, ReplyViews
  <1>8. DlcOf(p)' /\ OutOf(p)' /\ SecretsAt(p)'
    BY <1>1, <1>4, <1>5, ActingParts DEF DlcOf, DlcFor, OutOf, OutFor, SecretsAt
  <1>9. FinalizeDue(p, q)
    BY <1>1, HeadMessage DEF AtMessage
  <1>10. Coming(p)' = <<>>
    BY <1>7, <1>9 DEF FinalizeDue, Taken
  <1>12. Just(Coming(q)', "Revoke")
    BY <1>3, <1>7, <1>9 DEF Sent, FinalizeDue
  <1>13. SameView(p, q)'
    BY <1>4, <1>5, <1>7, <1>9 DEF FinalizeDue, SplitDue, Views, SameView
  <1>14. RevokeDue(p, q)'
    BY <1>1, <1>3, <1>4, <1>5, <1>7, <1>9, <1>10, <1>12, <1>13, ActingParts
       DEF FinalizeDue, RevokeDue, SplitDue, Views, Quieted, Signed
  <1> QED BY <1>3, <1>5, <1>7, <1>8, <1>14 DEF Acts, Acted, Either, Stands

(* Only the name of p's state changes.                                     *)
LEMMA RenamedActs ==
    ASSUME NEW p, NEW q, Acting(p, q), NEW st \in StateName,
           SetSub(p, [sub[p] EXCEPT !.st = st]), UNCHANGED <<dlc, ln, conn, ready>>,
           actions'[q] = actions[q],
           \/ <<sub[p].st, st>> \in {<<"Offered", "Rejected">>, <<"CloseOffered", "Signed">>}
           \/ <<sub[p].st, st>> = <<"Finalized", "Signed">>
    PROVE  /\ Turn(p, q) /\ DlcOf(p)' /\ OutOf(p)' /\ SecretsAt(p)'
           /\ sub'[p].st = st /\ sub'[p].idx = sub[p].idx /\ sub'[p].split = sub[p].split
  <1> DEFINE s2 == [sub[p] EXCEPT !.st = st]
  <1>1. /\ s2 \in SubChannelRecord /\ s2.st = st /\ s2.split = sub[p].split
        /\ s2.idx = sub[p].idx /\ s2.secrets = sub[p].secrets
    <2>1. TypeInv /\ p \in Party
      BY ActingParts
    <2> QED BY <2>1, Fields DEF SubChannelRecord
  <1>2. SetSub(p, s2)
    OBVIOUS
  <1> HIDE DEF s2
  <1>3. Turn(p, q) /\ sub'[p] = s2
    BY <1>1, <1>2, SetTurns
  <1>4. dlc'[p] = dlc[p] /\ ln'[p] = ln[p] /\ dlc[p] \in DlcState
    BY ActingParts
  <1>5. DlcOf(p)'
    BY <1>1, <1>3, <1>4, ActingParts DEF DlcOf, DlcFor
  <1>6. OutOf(p)' /\ SecretsAt(p)'
    BY <1>1, <1>3, <1>4, ActingParts DEF OutOf, OutFor, SecretsAt
  <1> QED BY <1>1, <1>3, <1>5, <1>6

LEMMA RevokedActs ==
    ASSUME NEW p, NEW q, Acting(p, q), RevokeDue(q, p), Turn(p, q), Views(p, q),
           sub'[p].st = "Signed", sub'[p].idx = sub[p].idx, sub'[p].split = sub[p].split,
           Coming(q)' = Coming(q), actions'[p] = <<>>,
           \/ Coming(p) # <<>> /\ Coming(p)[1].type = "Revoke" /\ Taken(p)
           \/ Doing(p) # <<>> /\ Coming(p)' = Coming(p)
    PROVE  Either(p, q)'
  <1>1. SameView(q, p)' /\ Signed(p)' /\ Doing(q)' = <<>> /\ Doing(p)' = <<>> /\ Coming(q)' = <<>>
        /\ (Signed(q)' <=> Signed(q)) /\ (Closer(q)' <=> Closer(q)) /\ View(q)' = View(q)
    BY DEF RevokeDue, SameView, Views, Signed, Closer, Quieted
  <1>2. CASE Signed(q)
    <2>1. Coming(p)' = <<>>
      BY <1>2, NoItems DEF RevokeDue, Taken, Just, Closer, Signed
    <2>2. BothSigned(q, p)'
      BY <1>1, <1>2, <2>1 DEF BothSigned, Quieted
    <2> QED BY <2>2 DEF Either, Stands
  <1>3. CASE Closer(q)
    <2>1. \/ Coming(p)' = <<>>
          \/ Just(Coming(p)', "CloseOffer") /\ Coming(p)'[1].balance = View(q).balance
      BY <1>3, NoItems DEF RevokeDue, Taken, Just, Pair, Closer, Signed
    <2>2. CloseDue(q, p)'
      BY <1>1, <1>3, <2>1 DEF CloseDue
    <2> QED BY <2>2 DEF Either, Stands
  <1> QED BY <1>2, <1>3 DEF RevokeDue

LEMMA RevokeActs ==
    ASSUME NEW p, NEW q, Acting(p, q), OnSubChannelRevoke(p)
    PROVE  Acts(p, q)
  <1>1. /\ SetSub(p, [sub[p] EXCEPT !.st = "Signed"]) /\ sub[p].st = "Finalized" /\ Consume(p)
        /\ net[p] # <<>> /\ Head(net[p]).type = "Revoke"
        /\ UNCHANGED <<dlc, ln, actions, conn, ready>>
    BY DEF OnSubChannelRevoke, Received, CanRevoke, In, actVars
  <1>2. /\ Turn(p, q) /\ DlcOf(p)' /\ OutOf(p)' /\ SecretsAt(p)'
        /\ sub'[p].st = "Signed" /\ sub'[p].idx = sub[p].idx /\ sub'[p].split = sub[p].split
    BY <1>1, RenamedActs DEF StateName
  <1>3. Views(p, q) /\ Taken(p) /\ Coming(q)' = Coming(q) /\ \E m \in Message : Says(p, m)
    BY <1>1, <1>2, ConsumeViews
  <1>4. RevokeDue(q, p) /\ Head(net[p]) = Coming(p)[1]
    BY <1>1, HeadMessage DEF AtMessage
  <1>5. Coming(p)[1].type = "Revoke" /\ Coming(p) # <<>> /\ actions'[p] = <<>>
    BY <1>1, <1>3, <1>4 DEF RevokeDue, Just, Views, Taken
  <1>6. Either(p, q)'
    BY <1>2, <1>3, <1>4, <1>5, RevokedActs
  <1> QED BY <1>2, <1>3, <1>6 DEF Acts, Acted

(* The same rejections, from a party that is not connected yet, are dealt  *)
(* with below.                                                             *)
LEMMA RejectActs ==
    ASSUME NEW p, NEW q, Acting(p, q), ~torn',
           RejectSubChannelOffer(p) \/ RejectSubChannelCloseOffer(p)
    PROVE  Acts(p, q)
  <1> DEFINE m == Msg("Reject")
  <1>1. m \in Message /\ m.type = "Reject"
    BY MsgTyped DEF MessageType
  <1>2. Send(p, m) /\ UNCHANGED <<dlc, ln, actions, conn, ready>>
    BY DEF RejectSubChannelOffer, RejectSubChannelCloseOffer, actVars
  <1> HIDE DEF m
  <1>3. CASE RejectSubChannelOffer(p)
    <2>1. /\ SetSub(p, [sub[p] EXCEPT !.st = "Rejected"]) /\ sub[p].st = "Offered"
          /\ ~sub[p].isOffer /\ ~Pending(p, "ReAccept")
      BY <1>3 DEF RejectSubChannelOffer, In, Torn
    <2>2. /\ Turn(p, q) /\ DlcOf(p)' /\ OutOf(p)' /\ SecretsAt(p)'
          /\ sub'[p].st = "Rejected" /\ sub'[p].idx = sub[p].idx
      BY <1>2, <2>1, RenamedActs DEF StateName
    <2>3. Views(p, q) /\ Coming(p)' = Coming(p) /\ Sent(q, m) /\ Says(p, m)
      BY <1>1, <1>2, <2>2, SendViews
    <2>4. OfferHeard(q, p)
      BY <2>1, WhereOffered, ActingParts DEF Offerer
    <2>5. ~Just(actions[p], "ReAccept")
      BY <2>1 DEF Pending, Just
    <2>6. Doing(p)' = <<>>
      BY <1>2, <2>3, <2>4, <2>5 DEF OfferHeard, Maybe, Views
    <2>7. OfferRejected(q, p)'
      BY <1>1, <2>2, <2>3, <2>4, <2>6 DEF OfferHeard, OfferRejected, Offerer, Sent, Quieted, Views
    <2> QED BY <1>1, <2>2, <2>3, <2>7 DEF Acts, Acted, Either, Stands
  <1>4. CASE RejectSubChannelCloseOffer(p)
    <2>1. /\ SetSub(p, [sub[p] EXCEPT !.st = "Signed"]) /\ sub[p].st = "CloseOffered"
          /\ ~sub[p].ours /\ ~Pending(p, "ReAcceptCloseOffer")
      BY <1>4 DEF RejectSubChannelCloseOffer, In, Torn
    <2>2. /\ Turn(p, q) /\ DlcOf(p)' /\ OutOf(p)' /\ SecretsAt(p)'
          /\ sub'[p].st = "Signed" /\ sub'[p].idx = sub[p].idx /\ sub'[p].split = sub[p].split
      BY <1>2, <2>1, RenamedActs DEF StateName
    <2>3. Views(p, q) /\ Coming(p)' = Coming(p) /\ Sent(q, m) /\ Says(p, m)
      BY <1>1, <1>2, <2>2, SendViews
    <2>4. CloseHeard(q, p)
      BY <2>1, WhereCloseOffered, ActingParts DEF Closer
    <2>5. ~Just(actions[p], "ReAcceptCloseOffer")
      BY <2>1 DEF Pending, Just
    <2>6. Doing(p)' = <<>> /\ SameView(q, p)'
      BY <1>2, <2>2, <2>3, <2>4, <2>5 DEF CloseHeard, Maybe, Views, SameView
    <2>7. CloseRejected(q, p)'
      BY <1>1, <2>2, <2>3, <2>4, <2>6 DEF CloseHeard, CloseRejected, Closer, Signed, Sent, Quieted, Views
    <2> QED BY <1>1, <2>2, <2>3, <2>7 DEF Acts, Acted, Either, Stands
  <1> QED BY <1>3, <1>4

LEMMA GetRejectActs ==
    ASSUME NEW p, NEW q, Acting(p, q), OnSubChannelReject(p)
    PROVE  Acts(p, q)
  <1>1. /\ Consume(p) /\ net[p] # <<>> /\ Head(net[p]).type = "Reject"
        /\ UNCHANGED <<dlc, ln, actions, conn, ready>>
    BY DEF OnSubChannelReject, Received, actVars
  <1>2. (OfferRejected(p, q) \/ CloseRejected(p, q)) /\ View(p) = sub[p]
    BY <1>1, HeadMessage, ActingParts DEF AtMessage
  <1>3. CASE OfferRejected(p, q)
    <2>1. SetSub(p, [sub[p] EXCEPT !.st = "Rejected"]) /\ sub[p].st = "Offered"
      BY <1>2, <1>3 DEF OnSubChannelReject, In, OfferRejected, Offerer
    <2>2. /\ Turn(p, q) /\ DlcOf(p)' /\ OutOf(p)' /\ SecretsAt(p)'
          /\ sub'[p].st = "Rejected" /\ sub'[p].idx = sub[p].idx
      BY <1>1, <2>1, RenamedActs DEF StateName
    <2>3. Views(p, q) /\ Taken(p) /\ Coming(q)' = Coming(q) /\ \E m \in Message : Says(p, m)
      BY <1>1, <2>2, ConsumeViews
    <2>4. Doing(p)' = <<>> /\ Doing(q)' = <<>> /\ CanOffer(View(p)') /\ View(q)' = View(q)
          /\ View(p)'.idx = View(p).idx
      BY <1>1, <1>3, <2>2, <2>3 DEF OfferRejected, Views, CanOffer
    <2>5. CASE View(q).st = "Rejected"
      <3>1. Coming(p)' = <<>> /\ View(q).idx = View(p).idx
        BY <1>3, <2>3, <2>5 DEF OfferRejected, Offerer, Taken
      <3>2. AtRest(p, q)'
        BY <1>3, <2>3, <2>4, <2>5, <3>1 DEF OfferRejected, AtRest, Quieted, CanOffer
      <3> QED BY <2>2, <2>3, <3>2 DEF Acts, Acted, Either, Stands
    <2>6. CASE View(q).st # "Rejected"
      <3>1. /\ Offerer(q) /\ View(q).idx = View(p).idx + 1 /\ Just(Coming(p)', "Offer")
            /\ Coming(p)'[1].point = View(q).point
        BY <1>3, <2>3, <2>6 DEF OfferRejected, Taken
      <3>2. OfferDue(q, p)'
        BY <1>3, <2>3, <2>4, <3>1 DEF OfferRejected, OfferDue, Offerer
      <3> QED BY <2>2, <2>3, <3>2 DEF Acts, Acted, Either, Stands
    <2> QED BY <2>5, <2>6
  <1>4. CASE CloseRejected(p, q)
    <2>1. SetSub(p, [sub[p] EXCEPT !.st = "Signed"]) /\ sub[p].st = "CloseOffered"
      BY <1>2, <1>4 DEF OnSubChannelReject, In, CloseRejected, Closer
    <2>2. /\ Turn(p, q) /\ DlcOf(p)' /\ OutOf(p)' /\ SecretsAt(p)'
          /\ sub'[p].st = "Signed" /\ sub'[p].idx = sub[p].idx /\ sub'[p].split = sub[p].split
      BY <1>1, <2>1, RenamedActs DEF StateName
    <2>3. Views(p, q) /\ Taken(p) /\ Coming(q)' = Coming(q) /\ \E m \in Message : Says(p, m)
      BY <1>1, <2>2, ConsumeViews
    <2>4. /\ Doing(p)' = <<>> /\ Doing(q)' = <<>> /\ Signed(p)' /\ View(q)' = View(q)
          /\ SameView(p, q)' /\ Coming(q)' = <<>>
      BY <1>1, <1>4, <2>2, <2>3 DEF CloseRejected, Views, Signed, SameView
    <2>5. CASE Signed(q)
      <3>1. Coming(p)' = <<>>
        BY <1>4, <2>3, <2>5 DEF CloseRejected, Closer, Signed, Taken
      <3>2. BothSigned(p, q)'
        BY <2>3, <2>4, <2>5, <3>1 DEF BothSigned, Quieted, Signed
      <3> QED BY <2>2, <2>3, <3>2 DEF Acts, Acted, Either, Stands
    <2>6. CASE ~Signed(q)
      <3>1. /\ Closer(q) /\ Just(Coming(p)', "CloseOffer")
            /\ Coming(p)'[1].balance = View(q).balance
        BY <1>4, <2>3, <2>6 DEF CloseRejected, Taken
      <3>2. SameView(q, p)' /\ Closer(q)'
        BY <2>4, <3>1 DEF SameView, Closer
      <3>3. CloseDue(q, p)'
        BY <2>4, <3>1, <3>2 DEF CloseDue
      <3> QED BY <2>2, <2>3, <3>3 DEF Acts, Acted, Either, Stands
    <2> QED BY <2>5, <2>6
  <1> QED BY <1>2, <1>3, <1>4

-----------------------------------------------------------------------------
(* Merging back.                                                           *)

LEMMA OfferCloseActs ==
    ASSUME NEW p, NEW q, Acting(p, q), NEW bal \in 0 .. TotalCollateral,
           OfferSubchannelClose(p, bal), ~torn'
    PROVE  Acts(p, q)
  <1> DEFINE m == [Msg("CloseOffer") EXCEPT !.balance = bal]
             s2 == [sub[p] EXCEPT !.st = "CloseOffered", !.ours = TRUE, !.balance = bal]
  <1>0. TypeInv /\ p \in Party /\ q \in Party
    BY ActingParts
  <1>1. /\ SetSub(p, s2) /\ Send(p, m) /\ sub[p].st = "Signed"
        /\ UNCHANGED <<dlc, ln, actions, conn, ready>> /\ actions[p] = <<>>
    BY DEF OfferSubchannelClose, actVars, Torn, Recovering, In
  <1>2. m \in Message /\ m.type = "CloseOffer" /\ m.balance = bal
    BY MsgTyped DEF MessageType, Message
  <1>3. /\ s2 \in SubChannelRecord /\ s2.st = "CloseOffered" /\ s2.ours /\ s2.balance = bal
        /\ s2.idx = sub[p].idx /\ s2.split = sub[p].split /\ s2.secrets = sub[p].secrets
    BY <1>0, Fields DEF SubChannelRecord, StateName
  <1> HIDE DEF s2, m
  <1>4. Turn(p, q) /\ sub'[p] = s2
    BY <1>1, <1>3, SetTurns
  <1>5. Views(p, q) /\ Coming(p)' = Coming(p) /\ Sent(q, m) /\ Says(p, m)
    BY <1>1, <1>2, <1>4, SendViews
  <1>6. DlcOf(p)' /\ OutOf(p)' /\ SecretsAt(p)'
    BY <1>1, <1>3, <1>4, ActingParts DEF DlcOf, DlcFor, OutOf, OutFor, SecretsAt
  <1>7. /\ View(p)' = s2 /\ Doing(p) = <<>> /\ Doing(p)' = <<>> /\ Closer(p)' /\ Signed(p)
        /\ View(q)' = View(q) /\ Doing(q)' = Doing(q) /\ View(p) = sub[p]
        /\ (SameView(p, q) => SameView(p, q)') /\ (Closer(q) => Closer(q)') /\ (Signed(q) => Signed(q)')
    BY <1>1, <1>3, <1>4, <1>5 DEF Views, Closer, Signed, SameView
  <1>8. Either(p, q)'
    <2>1. CASE RevokeDue(p, q)
      <3>1. ~Closer(p) /\ SameView(p, q)' /\ Coming(p) = <<>> /\ View(q).st = "Finalized"
        BY <1>7, <2>1 DEF RevokeDue, Closer, Signed, Quieted
      <3>2. \/ Just(Coming(q), "Revoke") /\ Doing(q) = <<>>
            \/ Coming(q) = <<>> /\ Just(Doing(q), "ForceSign")
        BY <2>1, <3>1 DEF RevokeDue
      <3>3. \/ Pair(Coming(q)', "Revoke", "CloseOffer") /\ Coming(q)'[2] = m /\ Doing(q) = <<>>
            \/ Just(Coming(q)', "CloseOffer") /\ Coming(q)'[1] = m /\ Just(Doing(q), "ForceSign")
        BY <1>2, <1>5, <3>2 DEF Sent
      <3>4. RevokeDue(p, q)'
        BY <1>2, <1>3, <1>5, <1>7, <3>1, <3>3 DEF RevokeDue, Quieted
      <3> QED BY <3>4 DEF Either, Stands
    <2>2. CASE BothSigned(p, q)
      <3>1. CloseDue(p, q)'
        BY <1>2, <1>3, <1>5, <1>7, <2>2 DEF BothSigned, CloseDue, Quieted, Sent
      <3> QED BY <3>1 DEF Either, Stands
    <2>3. CASE CloseDue(q, p)
      <3>1. SameView(p, q)' /\ Closer(q)' /\ Coming(q) = <<>> /\ Maybe(Doing(q), "ResendCloseOffer")
        BY <1>7, <2>3, StandsBothWays DEF CloseDue, Maybe
      <3>2. Coming(p) \in Seq(Message)
        BY <1>0, ActingParts, TypeParts DEF NetTyped
      <3>3. Only(Coming(p), "CloseOffer")
        BY <2>3, <3>2, ListsApart, NoItems DEF CloseDue
      <3>4. Only(Coming(q)', "CloseOffer")
        BY <1>2, <1>5, <3>1, NoItems DEF Sent
      <3>5. ClosesCross(p, q)'
        BY <1>5, <1>7, <3>1, <3>3, <3>4 DEF ClosesCross, Maybe
      <3> QED BY <3>5 DEF Either, Stands
    <2>4. CASE CloseRejected(q, p)
      <3>1. /\ Closer(q)' /\ SameView(q, p)' /\ Just(Coming(q), "Reject") /\ Coming(p) = <<>>
            /\ Doing(q) = <<>>
        BY <1>7, <2>4, StandsBothWays DEF CloseRejected, SameView, Closer, Signed
      <3>2. Pair(Coming(q)', "Reject", "CloseOffer") /\ Coming(q)'[2] = m
        BY <1>2, <1>5, <3>1 DEF Sent
      <3>3. CloseRejected(q, p)'
        BY <1>2, <1>3, <1>5, <1>7, <3>1, <3>2 DEF CloseRejected
      <3> QED BY <3>3 DEF Either, Stands
    <2> QED BY <1>7, <2>1, <2>2, <2>3, <2>4, WhereSigned, ActingParts
  <1> QED BY <1>2, <1>4, <1>5, <1>6, <1>8 DEF Acts, Acted

LEMMA GetCloseActs ==
    ASSUME NEW p, NEW q, Acting(p, q), OnSubChannelCloseOffer(p)
    PROVE  Acts(p, q)
  <1>0. TypeInv /\ p \in Party /\ q \in Party /\ View(p) = sub[p]
    BY ActingParts
  <1>1. /\ Consume(p) /\ net[p] # <<>> /\ Head(net[p]).type = "CloseOffer"
        /\ UNCHANGED <<dlc, ln, actions, conn, ready>>
    BY DEF OnSubChannelCloseOffer, Received, actVars
  <1>2. /\ RevokeDue(q, p) \/ CloseDue(q, p) \/ ClosesCross(p, q)
        /\ Head(net[p]) = Coming(p)[1] /\ Head(net[p]).balance \in 0 .. TotalCollateral
    BY <1>0, <1>1, HeadMessage, Heads DEF AtMessage
  <1>3. CASE UNCHANGED sub
    <2>1. sub[p] \in SubChannelRecord
      BY <1>0, Fields
    <2>2. Turn(p, q) /\ sub'[p] = sub[p]
      BY <1>1, <1>3, <2>1, SetTurns
    <2>3. Views(p, q) /\ Taken(p) /\ Coming(q)' = Coming(q) /\ \E m \in Message : Says(p, m)
      BY <1>1, <2>2, ConsumeViews
    <2>4. DlcOf(p)' /\ OutOf(p)' /\ SecretsAt(p)'
      BY <1>1, <2>2, ActingParts DEF DlcOf, OutOf, SecretsAt
    <2>5. /\ View(p)' = View(p) /\ Doing(p)' = Doing(p) /\ View(q)' = View(q) /\ Doing(q)' = Doing(q)
      BY <1>1, <2>2, <2>3 DEF Views
    <2>6. /\ SameView(p, q)' <=> SameView(p, q)
          /\ SameView(q, p)' <=> SameView(q, p)
          /\ Closer(p)' <=> Closer(p)
          /\ Closer(q)' <=> Closer(q)
          /\ Signed(p)' <=> Signed(p)
          /\ Signed(q)' <=> Signed(q)
      BY <2>5 DEF SameView, Closer, Signed
    <2>7. Either(p, q)'
      <3>1. CASE RevokeDue(q, p)
        <4>1. /\ SameView(q, p) /\ Closer(q) /\ Just(Coming(p), "CloseOffer") /\ Quieted(q)
              /\ Just(Doing(p), "ForceSign") /\ View(p).st = "Finalized"
          BY <1>1, <1>2, <3>1, <2>3 DEF RevokeDue, Just, Pair, Taken
        <4>2. Coming(p)' = <<>>
          BY <2>3, <4>1 DEF Taken
        <4>3. RevokeDue(q, p)'
          BY <2>3, <2>5, <2>6, <4>1, <4>2 DEF RevokeDue, Quieted
        <4> QED BY <4>3 DEF Either, Stands
      <3>2. CASE CloseDue(q, p)
        <4>1. Coming(p)' = <<>> /\ Doing(q) = <<>>
          BY <2>3, <3>2 DEF CloseDue, Taken
        <4>2. CloseDue(q, p)'
          BY <2>3, <2>5, <2>6, <3>2, <4>1 DEF CloseDue
        <4> QED BY <4>2 DEF Either, Stands
      <3>3. CASE ClosesCross(p, q)
        <4>1. Only(Coming(p)', "CloseOffer")
          BY <2>3, <3>3 DEF ClosesCross, Taken
        <4>2. ClosesCross(p, q)'
          BY <2>3, <2>5, <2>6, <3>3, <4>1 DEF ClosesCross
        <4> QED BY <4>2 DEF Either, Stands
      <3> QED BY <1>2, <3>1, <3>2, <3>3
    <2> QED BY <2>2, <2>3, <2>4, <2>7 DEF Acts, Acted
  <1>4. CASE ~UNCHANGED sub
    <2> DEFINE bal == Head(net[p]).balance
               s2 == [sub[p] EXCEPT !.st = "CloseOffered", !.ours = FALSE, !.balance = bal]
    <2>1. SetSub(p, s2) /\ sub[p].st = "Signed"
      BY <1>4 DEF OnSubChannelCloseOffer, In
    <2>2. bal \in 0 .. TotalCollateral
      BY <1>2
    <2> HIDE DEF bal
    <2>3. /\ s2 \in SubChannelRecord /\ s2.st = "CloseOffered" /\ ~s2.ours /\ s2.balance = bal
          /\ s2.idx = sub[p].idx /\ s2.split = sub[p].split /\ s2.secrets = sub[p].secrets
      BY <1>0, <2>2, Fields DEF SubChannelRecord, StateName
    <2> HIDE DEF s2
    <2>4. Turn(p, q) /\ sub'[p] = s2
      BY <1>1, <2>1, <2>3, SetTurns
    <2>5. Views(p, q) /\ Taken(p) /\ Coming(q)' = Coming(q) /\ \E m \in Message : Says(p, m)
      BY <1>1, <2>4, ConsumeViews
    <2>6. DlcOf(p)' /\ OutOf(p)' /\ SecretsAt(p)'
      BY <1>1, <2>1, <2>3, <2>4, ActingParts DEF DlcOf, DlcFor, OutOf, OutFor, SecretsAt
    <2>7. CloseDue(q, p)
      BY <1>0, <1>2, <2>1 DEF RevokeDue, ClosesCross, Closer
    <2>8. /\ Coming(p)' = <<>> /\ Doing(q) = <<>> /\ bal = View(q).balance
          /\ Just(Coming(p), "CloseOffer") /\ Doing(p) = <<>>
      BY <1>2, <2>5, <2>7 DEF CloseDue, Taken, bal
    <2>9. /\ View(p)' = s2 /\ View(q)' = View(q) /\ Doing(q)' = <<>> /\ Doing(p)' = <<>>
      BY <1>1, <2>4, <2>5, <2>8 DEF Views
    <2>10. SameView(q, p)' /\ Closer(q)'
      BY <1>0, <2>3, <2>7, <2>9 DEF CloseDue, SameView, Closer
    <2>11. CloseHeard(q, p)'
      BY <2>3, <2>5, <2>7, <2>8, <2>9, <2>10 DEF CloseHeard, CloseDue, Quieted, Maybe
    <2> QED BY <2>4, <2>5, <2>6, <2>11 DEF Acts, Acted, Either, Stands
  <1> QED BY <1>3, <1>4

LEMMA AcceptCloseEffectActs ==
    ASSUME NEW p, NEW q, Acting(p, q), CanAcceptClose(p), AcceptCloseEffect(p), CloseHeard(q, p),
           actions'[p] = <<>>, actions'[q] = actions[q], UNCHANGED <<dlc, conn, ready>>
    PROVE  Acts(p, q)
  <1> DEFINE m == [Msg("CloseAccept") EXCEPT !.balance = sub[p].balance]
             s2 == [sub[p] EXCEPT !.st = "CloseAccepted", !.commits = TRUE]
  <1>0. TypeInv /\ p \in Party /\ q \in Party /\ View(p) = sub[p]
    BY ActingParts
  <1>1. SetSub(p, s2) /\ SetOut(p, "fund") /\ Send(p, m) /\ sub[p].st = "CloseOffered"
    BY DEF AcceptCloseEffect, CanAcceptClose, In
  <1>2. m \in Message /\ m.type = "CloseAccept" /\ m.balance = sub[p].balance
    BY <1>0, Fields, MsgTyped DEF MessageType, Message
  <1>3. /\ s2 \in SubChannelRecord /\ s2.st = "CloseAccepted" /\ s2.balance = sub[p].balance
        /\ s2.idx = sub[p].idx /\ s2.split = sub[p].split /\ s2.secrets = sub[p].secrets
    BY <1>0, Fields DEF SubChannelRecord, StateName
  <1> HIDE DEF s2, m
  <1>4. Turn(p, q) /\ sub'[p] = s2
    BY <1>1, <1>3, SetTurns
  <1>5. ln'[p].out = "fund"
    BY <1>0, <1>1, OutMoved
  <1>6. Views(p, q) /\ Coming(p)' = Coming(p) /\ Sent(q, m) /\ Says(p, m)
    BY <1>1, <1>2, <1>4, SendViews
  <1>7. DlcOf(p)' /\ OutOf(p)' /\ SecretsAt(p)'
    BY <1>1, <1>3, <1>4, <1>5, ActingParts DEF DlcOf, DlcFor, OutOf, OutFor, SecretsAt
  <1>8. /\ View(p)' = s2 /\ View(q)' = View(q) /\ Doing(q)' = Doing(q) /\ Doing(p)' = <<>>
    BY <1>4, <1>6 DEF Views
  <1>9. SameView(q, p)' /\ Closer(q)'
    BY <1>0, <1>3, <1>8 DEF CloseHeard, SameView, Closer
  <1>10. Just(Coming(q)', "CloseAccept") /\ Coming(q)'[1] = m
    BY <1>2, <1>6 DEF Sent, CloseHeard, Quieted
  <1>11. CloseAcceptDue(q, p)'
    BY <1>0, <1>2, <1>3, <1>6, <1>8, <1>9, <1>10 DEF CloseHeard, CloseAcceptDue, Quieted
  <1> QED BY <1>2, <1>4, <1>6, <1>7, <1>11 DEF Acts, Acted, Either, Stands

LEMMA AcceptCloseActs ==
    ASSUME NEW p, NEW q, Acting(p, q), AcceptSubchannelCloseOffer(p), ~torn'
    PROVE  Acts(p, q)
  <1>1. /\ CanAcceptClose(p) /\ AcceptCloseEffect(p) /\ UNCHANGED <<dlc, actions, conn, ready>>
        /\ ~Pending(p, "ReAcceptCloseOffer") /\ sub[p].st = "CloseOffered" /\ ~sub[p].ours
    BY DEF AcceptSubchannelCloseOffer, actVars, Torn, CanAcceptClose, In
  <1>2. CloseHeard(q, p)
    BY <1>1, WhereCloseOffered, ActingParts DEF Closer
  <1>3. ~Just(actions[p], "ReAcceptCloseOffer")
    BY <1>1 DEF Pending, Just
  <1>4. actions'[p] = <<>>
    BY <1>1, <1>2, <1>3, ActingParts DEF CloseHeard, Maybe
  <1> QED BY <1>1, <1>2, <1>4, AcceptCloseEffectActs

LEMMA AtPoints ==
    ASSUME NEW p \in Party, NEW q, q = Other(p), NEW n \in Nat, NEW t \in {At(p, q, n), At(q, p, n)}
    PROVE  /\ OwnPoint(p, t) = PerSplitPoint(p, n) /\ CounterPoint(p, t) = PerSplitPoint(q, n)
           /\ PerSplitPoint(q, n)[2] = n
  BY Others DEF At, OwnPoint, CounterPoint, PerSplitPoint

LEMMA CloseAcceptActs ==
    ASSUME NEW p, NEW q, Acting(p, q), OnSubChannelCloseAccept(p)
    PROVE  Acts(p, q)
  <1> DEFINE m == [Msg("CloseConfirm") EXCEPT !.point = PerSplitPoint(p, sub[p].idx),
                                              !.balance = sub[p].balance]
             s2 == [sub[p] EXCEPT !.st = "CloseConfirmed", !.commits = TRUE,
                                  !.balance = OfferBalance(sub[p]), !.checkLnSecret = TRUE]
  <1>0. TypeInv /\ p \in Party /\ q \in Party /\ View(p) = sub[p]
    BY ActingParts
  <1>1. /\ SetSub(p, s2) /\ SetOut(p, "fund") /\ Reply(p, m) /\ sub[p].st = "CloseOffered"
        /\ net[p] # <<>> /\ Head(net[p]).type = "CloseAccept"
        /\ UNCHANGED <<dlc, actions, conn, ready>>
    BY DEF OnSubChannelCloseAccept, CanConfirmClose, Received, In, actVars
  <1>2. /\ OfferBalance(sub[p]) \in 0 .. TotalCollateral
        /\ OfferBalance(sub[p]) + sub[p].balance = TotalCollateral
        /\ PerSplitPoint(p, sub[p].idx) \in Point
    BY <1>0, Fields, PointTyped, SubChannelAssumption DEF OfferBalance
  <1>3. /\ m \in Message /\ m.type = "CloseConfirm" /\ m.balance = sub[p].balance
        /\ m.point = PerSplitPoint(p, sub[p].idx)
    BY <1>0, <1>2, Fields, MsgTyped DEF MessageType, Message
  <1>4. /\ s2 \in SubChannelRecord /\ s2.st = "CloseConfirmed" /\ s2.balance = OfferBalance(sub[p])
        /\ s2.idx = sub[p].idx /\ s2.split = sub[p].split /\ s2.secrets = sub[p].secrets
    BY <1>0, <1>2, Fields DEF SubChannelRecord, StateName
  <1> HIDE DEF s2, m
  <1>5. Turn(p, q) /\ sub'[p] = s2
    BY <1>1, <1>4, SetTurns
  <1>6. ln'[p].out = "fund"
    BY <1>0, <1>1, OutMoved
  <1>7. Views(p, q) /\ Taken(p) /\ Sent(q, m) /\ Says(p, m)
    BY <1>1, <1>3, <1>5, ReplyViews
  <1>8. DlcOf(p)' /\ OutOf(p)' /\ SecretsAt(p)'
    BY <1>1, <1>4, <1>5, <1>6, ActingParts DEF DlcOf, DlcFor, OutOf, OutFor, SecretsAt
  <1>9. CloseAcceptDue(p, q)
    BY <1>1, HeadMessage DEF AtMessage
  <1>10. /\ View(p)' = s2 /\ View(q)' = View(q) /\ Doing(q)' = <<>> /\ Doing(p)' = <<>>
         /\ Coming(p)' = <<>> /\ Just(Coming(q)', "CloseConfirm") /\ Coming(q)'[1] = m
    BY <1>1, <1>3, <1>5, <1>7, <1>9 DEF Views, CloseAcceptDue, Taken, Sent
  <1>11. SameView(p, q)' /\ View(p).balance = View(q).balance /\ View(q).st = "CloseAccepted"
    BY <1>0, <1>4, <1>9, <1>10 DEF CloseAcceptDue, SameView
  <1>12. CloseConfirmDue(p, q)'
    BY <1>0, <1>2, <1>3, <1>4, <1>10, <1>11 DEF CloseConfirmDue
  <1> QED BY <1>3, <1>5, <1>7, <1>8, <1>12 DEF Acts, Acted, Either, Stands

(* A split secret is stored under the index of its point.                  *)
LEMMA MergedActs ==
    ASSUME NEW p, NEW q, Acting(p, q), NEW pt \in Point, pt[2] = sub[p].idx,
           SetSub(p, [sub[p] EXCEPT !.st = "OffChainClosed", !.commits = FALSE,
                                    !.secrets = StoreSecret(sub[p], pt)]),
           SetDlc(p, "CollaborativelyClosed"), UNCHANGED <<ln, actions, conn, ready>>,
           sub[p].st \in {"CloseAccepted", "CloseConfirmed"}
    PROVE  /\ Turn(p, q) /\ DlcOf(p)' /\ OutOf(p)' /\ SecretsAt(p)'
           /\ sub'[p].st = "OffChainClosed" /\ sub'[p].idx = sub[p].idx
  <1> DEFINE S == StoreSecret(sub[p], pt)
             s2 == [sub[p] EXCEPT !.st = "OffChainClosed", !.commits = FALSE, !.secrets = S]
  <1>0. TypeInv /\ p \in Party /\ q \in Party
    BY ActingParts
  <1>1. S \in SUBSET (Index \X Point) /\ \A e \in S : e[2][2] = e[1]
    BY <1>0, Fields, ActingParts DEF StoreSecret, Index, SecretsAt
  <1>2. SetSub(p, s2)
    OBVIOUS
  <1> HIDE DEF S
  <1>3. /\ s2 \in SubChannelRecord /\ s2.st = "OffChainClosed" /\ s2.idx = sub[p].idx /\ s2.secrets = S
    BY <1>0, <1>1, Fields DEF SubChannelRecord, StateName
  <1> HIDE DEF s2
  <1>4. Turn(p, q) /\ sub'[p] = s2 /\ dlc'[p] = "CollaborativelyClosed"
    BY <1>2, <1>3, SetTurns, SetDlcTo
  <1>5. DlcOf(p)' /\ OutOf(p)' /\ SecretsAt(p)'
    BY <1>1, <1>3, <1>4, ActingParts DEF DlcOf, DlcFor, DlcState, OutOf, OutFor, SecretsAt
  <1> QED BY <1>3, <1>4, <1>5

LEMMA CloseConfirmActs ==
    ASSUME NEW p, NEW q, Acting(p, q), OnSubChannelCloseConfirm(p)
    PROVE  Acts(p, q)
  <1> DEFINE m == [Msg("CloseFinalize") EXCEPT !.point = PerSplitPoint(p, sub[p].idx),
                                               !.lnSecret = TRUE]
             pt == Head(net[p]).point
  <1>0. TypeInv /\ p \in Party /\ q \in Party /\ View(p) = sub[p] /\ q = Other(p)
    BY ActingParts
  <1>1. /\ SetSub(p, [sub[p] EXCEPT !.st = "OffChainClosed", !.commits = FALSE,
                                    !.secrets = StoreSecret(sub[p], pt)])
        /\ SetDlc(p, "CollaborativelyClosed") /\ Reply(p, m)
        /\ sub[p].st = "CloseAccepted" /\ net[p] # <<>> /\ Head(net[p]).type = "CloseConfirm"
        /\ UNCHANGED <<ln, actions, conn, ready>>
    BY DEF OnSubChannelCloseConfirm, CanCloseOff, OffChainClosed, Received, In, actVars
  <1>2. CloseConfirmDue(q, p) /\ Head(net[p]) = Coming(p)[1] /\ pt \in Point
    BY <1>0, <1>1, HeadMessage, Heads DEF AtMessage
  <1>3. sub[p].idx \in Nat /\ pt = PerSplitPoint(q, sub[p].idx) /\ PerSplitPoint(p, sub[p].idx) \in Point
    BY <1>0, <1>2, Fields, PointTyped DEF CloseConfirmDue, SameView
  <1>4. pt[2] = sub[p].idx
    BY <1>3 DEF PerSplitPoint
  <1>5. m \in Message /\ m.type = "CloseFinalize" /\ m.point = PerSplitPoint(p, sub[p].idx)
    BY <1>3, MsgTyped DEF MessageType, Message
  <1> HIDE DEF m, pt
  <1>6. /\ Turn(p, q) /\ DlcOf(p)' /\ OutOf(p)' /\ SecretsAt(p)'
        /\ sub'[p].st = "OffChainClosed" /\ sub'[p].idx = sub[p].idx
    BY <1>1, <1>2, <1>4, MergedActs
  <1>7. Views(p, q) /\ Taken(p) /\ Sent(q, m) /\ Says(p, m)
    BY <1>1, <1>5, <1>6, ReplyViews
  <1>8. /\ View(q)' = View(q) /\ Doing(q)' = <<>> /\ Doing(p)' = <<>> /\ View(p)' = sub'[p]
        /\ Coming(p)' = <<>> /\ Just(Coming(q)', "CloseFinalize") /\ Coming(q)'[1] = m
    BY <1>1, <1>2, <1>5, <1>7 DEF Views, CloseConfirmDue, Taken, Sent
  <1>9. /\ View(q).st = "CloseConfirmed" /\ View(q).idx = sub[p].idx
        /\ View(q).split \in {At(p, q, View(q).idx), At(q, p, View(q).idx)}
    BY <1>0, <1>2 DEF CloseConfirmDue, SameView
  <1>10. Len(Coming(q)') = 1 /\ Coming(q)'[1].type = "CloseFinalize" /\ Coming(q)' # <<>>
    BY <1>8, NoItems DEF Just
  <1>11. CloseFinalizeDue(p, q)'
    BY <1>5, <1>6, <1>8, <1>9, <1>10 DEF CloseFinalizeDue
  <1> QED BY <1>5, <1>6, <1>7, <1>11 DEF Acts, Acted, Either, Stands

LEMMA CloseFinalizeActs ==
    ASSUME NEW p, NEW q, Acting(p, q), OnSubChannelCloseFinalize(p), ~LearnsEarly(p)
    PROVE  Acts(p, q)
  <1> DEFINE pt == Head(net[p]).point
  <1>0. TypeInv /\ p \in Party /\ q \in Party /\ View(p) = sub[p] /\ q = Other(p)
    BY ActingParts
  <1>1. /\ Consume(p) /\ sub[p].st = "CloseConfirmed" /\ net[p] # <<>>
        /\ Head(net[p]).type = "CloseFinalize" /\ UNCHANGED <<ln, actions, conn, ready>>
    BY DEF OnSubChannelCloseFinalize, CanFinalizeClose, Received, In, actVars
  <1>2. ~(sub[p].checkLnSecret /\ ~Head(net[p]).lnSecret)
    BY <1>1 DEF OnSubChannelCloseFinalize, CanFinalizeClose, SecretValid, LearnsEarly
  <1>3. /\ SetSub(p, [sub[p] EXCEPT !.st = "OffChainClosed", !.commits = FALSE,
                                    !.secrets = StoreSecret(sub[p], pt)])
        /\ SetDlc(p, "CollaborativelyClosed")
    BY <1>2 DEF OnSubChannelCloseFinalize, OffChainClosed
  <1>4. CloseFinalizeDue(q, p) /\ Head(net[p]) = Coming(p)[1] /\ pt \in Point /\ Coming(p) = net[p]
    BY <1>0, <1>1, HeadMessage, Heads, ActingParts DEF AtMessage
  <1>5. sub[p].idx \in Nat /\ pt = PerSplitPoint(q, sub[p].idx)
    BY <1>0, <1>1, <1>4, Fields DEF CloseFinalizeDue
  <1>6. pt[2] = sub[p].idx
    BY <1>5 DEF PerSplitPoint
  <1> HIDE DEF pt
  <1>7. /\ Turn(p, q) /\ DlcOf(p)' /\ OutOf(p)' /\ SecretsAt(p)'
        /\ sub'[p].st = "OffChainClosed" /\ sub'[p].idx = sub[p].idx
    BY <1>1, <1>3, <1>4, <1>6, MergedActs
  <1>8. Views(p, q) /\ Taken(p) /\ Coming(q)' = Coming(q) /\ \E m \in Message : Says(p, m)
    BY <1>1, <1>7, ConsumeViews
  <1>9. /\ View(q)' = View(q) /\ Doing(q)' = Doing(q) /\ Doing(p)' = <<>> /\ View(p)' = sub'[p]
        /\ Coming(q)' = <<>> /\ CanOffer(View(p)') /\ View(p)'.idx = View(p).idx
    BY <1>0, <1>1, <1>4, <1>7, <1>8 DEF Views, CloseFinalizeDue, CanOffer
  <1>10. CASE View(q).st = "OffChainClosed"
    <2>1. Coming(p)' = <<>> /\ Doing(q) = <<>> /\ View(q).idx = View(p).idx
      BY <1>1, <1>4, <1>8, <1>10 DEF CloseFinalizeDue, Taken, Offerer
    <2>2. AtRest(p, q)'
      BY <1>9, <1>10, <2>1 DEF AtRest, Quieted, CanOffer
    <2> QED BY <1>7, <1>8, <2>2 DEF Acts, Acted, Either, Stands
  <1>11. CASE View(q).st # "OffChainClosed"
    <2>1. Offerer(q) /\ View(q).idx = View(p).idx + 1
      BY <1>4, <1>11 DEF CloseFinalizeDue
    <2>2. \/ /\ Pair(Coming(p), "CloseFinalize", "Offer") /\ Doing(q) = <<>>
             /\ Coming(p)[2].point = View(q).point
          \/ /\ Len(Coming(p)) = 1 /\ Just(Doing(q), "ResendOffer")
             /\ Doing(q)[1].point = View(q).point
      BY <1>1, <1>4, <1>11 DEF CloseFinalizeDue
    <2>3. \/ Just(Coming(p)', "Offer") /\ Coming(p)'[1].point = View(q).point /\ Doing(q) = <<>>
          \/ /\ Coming(p)' = <<>> /\ Just(Doing(q), "ResendOffer")
             /\ Doing(q)[1].point = View(q).point
      BY <1>8, <2>2 DEF Taken
    <2>4. OfferDue(q, p)'
      BY <1>9, <2>1, <2>3 DEF OfferDue, Offerer
    <2> QED BY <1>7, <1>8, <2>4 DEF Acts, Acted, Either, Stands
  <1> QED BY <1>10, <1>11

LEMMA ErrorActs ==
    ASSUME NEW p, NEW q, Acting(p, q), OnSubChannelMessageError(p), ln[p].open
    PROVE  Acts(p, q)
  <1>0. TypeInv /\ p \in Party /\ q \in Party /\ View(p) = sub[p] /\ q = Other(p) /\ DlcOf(p)
        /\ SecretsAt(p)
    BY ActingParts
  <1>1. /\ Consume(p) /\ net[p] # <<>> /\ ~Handled(p)
        /\ UNCHANGED <<sub, dlc, ln, actions, conn, ready>>
    BY DEF OnSubChannelMessageError, subVars, actVars
  <1>2. AtMessage(p, q, Head(net[p]).type) /\ Head(net[p]) = Coming(p)[1]
    BY <1>1, HeadMessage
  <1>3. Usable(p)
    BY Connected, ActingParts DEF Usable
  <1>4. OffersCross(p, q)
    <2>1. Head(net[p]).type # "Offer" \/ ~OfferDue(q, p)
      BY <1>0, <1>1 DEF Handled, CanReceiveOffer, OfferDue
    <2>2. Head(net[p]).type # "Accept" \/ ~AcceptDue(p, q)
      BY <1>0, <1>1, <1>3 DEF Handled, CanConfirm, AcceptDue, Offerer, DlcOf, DlcFor, In
    <2>3. Head(net[p]).type # "Confirm" \/ ~ConfirmDue(q, p)
      BY <1>0, <1>1, <1>2, <1>3 DEF Handled, CanFinalize, ConfirmDue, SplitDue, DlcOf, DlcFor, In
    <2>4. Head(net[p]).type # "Finalize" \/ ~FinalizeDue(p, q)
      BY <1>0, <1>1, <1>2, <1>3 DEF Handled, CanSign, FinalizeDue, SplitDue, DlcOf, DlcFor, In
    <2>5. Head(net[p]).type # "Revoke" \/ ~RevokeDue(q, p)
      BY <1>0, <1>1, <1>3 DEF Handled, CanRevoke, RevokeDue, In
    <2>6. Head(net[p]).type # "Reject" \/ ~(OfferRejected(p, q) \/ CloseRejected(p, q))
      BY <1>0, <1>1 DEF Handled, OfferRejected, CloseRejected, Offerer, Closer, In
    <2>7. Head(net[p]).type # "CloseOffer"
      BY <1>1 DEF Handled
    <2>8. Head(net[p]).type # "CloseAccept" \/ ~CloseAcceptDue(p, q)
      BY <1>0, <1>1, <1>3 DEF Handled, CanConfirmClose, CloseAcceptDue, Closer, In
    <2>9. sub[p].idx \in Nat
      BY <1>0, Fields
    <2>10. ASSUME NEW pt, pt = PerSplitPoint(q, sub[p].idx)
           PROVE  ProvideSecretOk(sub[p], pt)
      BY <1>0, <2>10 DEF ProvideSecretOk, PerSplitPoint, SecretsAt
    <2>11. Head(net[p]).type # "CloseConfirm" \/ ~CloseConfirmDue(q, p)
      <3>1. SUFFICES ASSUME Head(net[p]).type = "CloseConfirm", CloseConfirmDue(q, p)
                     PROVE  FALSE
        OBVIOUS
      <3>2. /\ Head(net[p]).point = PerSplitPoint(q, sub[p].idx)
            /\ sub[p].split \in {At(p, q, sub[p].idx), At(q, p, sub[p].idx)}
            /\ Head(net[p]).balance = sub[p].balance /\ sub[p].st = "CloseAccepted"
        BY <1>0, <1>2, <3>1 DEF CloseConfirmDue, SameView
      <3>3. CounterPoint(p, sub[p].split) = Head(net[p]).point
        BY <1>0, <2>9, <3>2, AtPoints
      <3>4. dlc[p] = "Confirmed"
        BY <1>0, <3>2 DEF DlcOf, DlcFor
      <3>5. CanCloseOff(p)
        BY <1>3, <2>10, <3>2, <3>3, <3>4 DEF CanCloseOff, SecretValid, In
      <3> QED BY <1>1, <3>1, <3>5 DEF Handled
    <2>12. Head(net[p]).type # "CloseFinalize" \/ ~CloseFinalizeDue(q, p)
      <3>1. SUFFICES ASSUME Head(net[p]).type = "CloseFinalize", CloseFinalizeDue(q, p)
                     PROVE  FALSE
        OBVIOUS
      <3>2. Coming(p) # <<>>
        BY <1>1, ActingParts
      <3>3. /\ Head(net[p]).point = PerSplitPoint(q, sub[p].idx)
            /\ sub[p].split \in {At(p, q, sub[p].idx), At(q, p, sub[p].idx)}
            /\ sub[p].st = "CloseConfirmed"
        BY <1>0, <1>2, <3>1, <3>2 DEF CloseFinalizeDue
      <3>4. CounterPoint(p, sub[p].split) = Head(net[p]).point
        BY <1>0, <2>9, <3>3, AtPoints
      <3>5. dlc[p] = "Confirmed"
        BY <1>0, <3>3 DEF DlcOf, DlcFor
      <3>6. CanFinalizeClose(p)
        BY <1>3, <2>10, <3>3, <3>4, <3>5 DEF CanFinalizeClose, SecretValid, In
      <3> QED BY <1>1, <3>1, <3>6 DEF Handled
    <2> QED BY <1>2, <2>1, <2>2, <2>3, <2>4, <2>5, <2>6, <2>7, <2>8, <2>11, <2>12 DEF AtMessage
  <1>5. sub[p] \in SubChannelRecord
    BY <1>0, Fields
  <1>6. Turn(p, q)
    BY <1>1, <1>5, SetTurns
  <1>7. Views(p, q) /\ Taken(p) /\ Coming(q)' = Coming(q) /\ \E m \in Message : Says(p, m)
    BY <1>1, <1>6, ConsumeViews
  <1>8. DlcOf(p)' /\ OutOf(p)' /\ SecretsAt(p)'
    BY <1>1, ActingParts DEF DlcOf, OutOf, SecretsAt
  <1>9. OffersCross(p, q)'
    BY <1>1, <1>4, <1>7 DEF OffersCross, Offerer, Views, Taken
  <1> QED BY <1>6, <1>7, <1>8, <1>9 DEF Acts, Acted, Either, Stands

-----------------------------------------------------------------------------
(* What is left to do after a reconnection.  The first action says where   *)
(* the two stand; only a party that offered the next split has two.        *)

AtAction(p, q, type) ==
    \/ type = "ResendOffer" /\ (OfferDue(p, q) \/ OffersCross(p, q) \/ CloseFinalizeDue(p, q))
    \/ type = "ResendCloseFinalize" /\ CloseFinalizeDue(p, q)
    \/ type = "ReAccept" /\ OfferHeard(q, p)
    \/ type = "ForceSign" /\ RevokeDue(q, p)
    \/ type = "ResendCloseOffer" /\ (CloseDue(p, q) \/ ClosesCross(p, q))
    \/ type = "ReAcceptCloseOffer" /\ CloseHeard(q, p)
Listed(a) == Len(a) = 1 \/ Pair(a, "ResendCloseFinalize", "ResendOffer")

LEMMA FirstAction ==
    ASSUME NEW p, NEW q, Either(p, q), Doing(p) # <<>>
    PROVE  /\ AtAction(p, q, Doing(p)[1].type) /\ Listed(Doing(p))
           /\ Doing(p)[1].type \in NeedsChannel => Len(Doing(p)) = 1
  <1>1. CASE Stands(p, q)
    BY <1>1
       DEF AtAction, Listed, Stands, AtRest, OfferDue, OfferRejected, OfferHeard, OffersCross,
           AcceptDue, SplitDue, ConfirmDue, FinalizeDue, RevokeDue, BothSigned, CloseDue,
           CloseHeard, CloseRejected, ClosesCross, CloseAcceptDue, CloseConfirmDue,
           CloseFinalizeDue, Quieted, Just, Pair, Maybe, NeedsChannel
  <1>2. CASE Stands(q, p)
    BY <1>2, StandsBothWays
       DEF AtAction, Listed, Stands, AtRest, OfferDue, OfferRejected, OfferHeard, AcceptDue,
           SplitDue, ConfirmDue, FinalizeDue, RevokeDue, BothSigned, CloseDue, CloseHeard,
           CloseRejected, CloseAcceptDue, CloseConfirmDue, CloseFinalizeDue, Quieted, Just, Pair,
           OffersCross, ClosesCross, Maybe, NeedsChannel
  <1> QED BY <1>1, <1>2 DEF Either

LEMMA CutFirst ==
    ASSUME NEW S, NEW s \in Seq(S), Len(s) \in {1, 2}
    PROVE  LET c == SubSeq(s, 1, 1 - 1) \o SubSeq(s, 1 + 1, Len(s)) IN
           /\ Len(s) = 1 => c = <<>>
           /\ Len(s) = 2 => Len(c) = 1 /\ c[1] = s[2]
  <1> DEFINE u == SubSeq(s, 1, 0)
             v == SubSeq(s, 2, Len(s))
  <1>1. /\ u \in Seq(S) /\ Len(u) = 0 /\ v \in Seq(S) /\ Len(v) = Len(s) - 1
        /\ Len(s) = 2 => v[1] = s[2]
    BY SubSeqProperties
  <1> HIDE DEF u, v
  <1>2. u = <<>>
    BY <1>1, EmptySeq
  <1>3. u \o v = v
    BY <1>1, <1>2, ConcatEmptySeq
  <1>4. Len(s) = 1 => v = <<>>
    BY <1>1, EmptySeq
  <1> QED BY <1>1, <1>3, <1>4 DEF u, v

(* The first action is the one done.                                       *)
LEMMA FirstDone ==
    ASSUME TypeInv, NEW p \in Party, NEW q, q = Other(p), ProcessActions(p), ln[p].open,
           actions[p] # <<>> => Listed(actions[p])
    PROVE  /\ actions[p] # <<>> /\ actions[p][1] \in Action
           /\ Doable(p, actions[p][1]) /\ Perform(p, actions[p][1])
           /\ Len(actions[p]) = 1 => actions'[p] = <<>>
           /\ Len(actions[p]) # 1 => Just(actions'[p], "ResendOffer")
                                     /\ actions'[p][1] = actions[p][2]
           /\ actions'[q] = actions[q] /\ UNCHANGED <<conn, ready>>
  <1> DEFINE s == actions[p]
  <1>1. s \in Seq(Action) /\ actions \in [Party -> Seq(Action)] /\ q \in Party /\ q # p
    BY Others DEF TypeInv, TypeOK
  <1>2. PICK i \in 1 .. Len(s) :
          /\ Doable(p, s[i]) /\ \A j \in 1 .. i - 1 : ~Doable(p, s[j])
          /\ Perform(p, s[i])
          /\ actions' = [actions EXCEPT ![p] = SubSeq(s, 1, i - 1) \o SubSeq(s, i + 1, Len(s))]
          /\ UNCHANGED <<conn, ready>>
    BY DEF ProcessActions
  <1>3. s # <<>> /\ Len(s) \in {1, 2} /\ Listed(s)
    <2>1. s # <<>>
      BY <1>1, <1>2, NoItems
    <2> QED BY <2>1 DEF Listed, Pair
  <1>4. i = 1
    <2>1. SUFFICES ASSUME i = 2
                   PROVE  FALSE
      BY <1>2, <1>3
    <2>2. Pair(s, "ResendCloseFinalize", "ResendOffer")
      BY <1>2, <1>3, <2>1 DEF Listed
    <2>3. Doable(p, s[1])
      BY <2>2 DEF Doable, NeedsChannel, Pair
    <2> QED BY <1>2, <2>1, <2>3
  <1>5. s[1] \in Action
    BY <1>1, <1>2, <1>4
  <1>6. /\ Len(s) = 1 => actions'[p] = <<>>
        /\ Len(s) = 2 => Len(actions'[p]) = 1 /\ actions'[p][1] = s[2]
    <2>1. actions'[p] = SubSeq(s, 1, 1 - 1) \o SubSeq(s, 1 + 1, Len(s))
      BY <1>1, <1>2, <1>4
    <2> HIDE DEF s
    <2> QED BY <1>1, <1>3, <2>1, CutFirst
  <1>7. actions'[q] = actions[q]
    BY <1>1, <1>2
  <1>8. Len(s) # 1 => Just(actions'[p], "ResendOffer") /\ actions'[p][1] = s[2]
    BY <1>3, <1>6 DEF Listed, Just, Pair
  <1> QED BY <1>2, <1>3, <1>4, <1>5, <1>6, <1>7, <1>8

(* Sending a message again.                                                *)
LEMMA ResendActs ==
    ASSUME NEW p, NEW q, Acting(p, q), NEW m \in Message, Resend(p, m),
           actions'[q] = actions[q], UNCHANGED <<conn, ready>>
    PROVE  /\ Turn(p, q) /\ DlcOf(p)' /\ OutOf(p)' /\ SecretsAt(p)'
           /\ Coming(p)' = Coming(p) /\ Sent(q, m) /\ Says(p, m)
           /\ View(p)' = View(p) /\ View(q)' = View(q) /\ Doing(q)' = Doing(q)
           /\ Doing(p)' = actions'[p]
  <1>1. sub[p] \in SubChannelRecord /\ View(p) = sub[p]
    BY ActingParts, Fields
  <1>2. Send(p, m) /\ UNCHANGED <<sub, dlc, ln>>
    BY DEF Resend, subVars
  <1>3. Turn(p, q)
    BY <1>1, <1>2, SetTurns
  <1>4. Views(p, q) /\ Coming(p)' = Coming(p) /\ Sent(q, m) /\ Says(p, m)
    BY <1>2, <1>3, SendViews
  <1>5. DlcOf(p)' /\ OutOf(p)' /\ SecretsAt(p)'
    BY <1>2, ActingParts DEF DlcOf, OutOf, SecretsAt
  <1> QED BY <1>1, <1>2, <1>3, <1>4, <1>5 DEF Views

LEMMA ResendOfferActs ==
    ASSUME NEW p, NEW q, Acting(p, q), NEW m \in Message, Resend(p, m), m.type = "Offer",
           m.point = actions[p][1].point, actions[p][1].type = "ResendOffer", actions[p] # <<>>,
           actions'[p] = <<>>, actions'[q] = actions[q], UNCHANGED <<conn, ready>>
    PROVE  Acts(p, q)
  <1>1. /\ Turn(p, q) /\ DlcOf(p)' /\ OutOf(p)' /\ SecretsAt(p)'
        /\ Coming(p)' = Coming(p) /\ Sent(q, m) /\ Says(p, m)
        /\ View(p)' = View(p) /\ View(q)' = View(q) /\ Doing(q)' = Doing(q)
        /\ Doing(p)' = <<>>
    BY ResendActs
  <1>2. Doing(p) = actions[p] /\ Either(p, q)
    BY ActingParts
  <1>3. OfferDue(p, q) \/ OffersCross(p, q) \/ CloseFinalizeDue(p, q)
    BY <1>2, FirstAction DEF AtAction
  <1>4. Either(p, q)'
    <2>1. CASE OfferDue(p, q)
      <3>1. Coming(q) = <<>> /\ View(p).point = m.point
        BY <1>2, <2>1 DEF OfferDue
      <3>2. Just(Coming(q)', "Offer") /\ Coming(q)'[1] = m
        BY <1>1, <3>1 DEF Sent
      <3>3. OfferDue(p, q)'
        BY <1>1, <2>1, <3>1, <3>2 DEF OfferDue, Offerer
      <3> QED BY <3>3 DEF Either, Stands
    <2>2. CASE OffersCross(p, q)
      <3>1. Only(Coming(q)', "Offer")
        BY <1>1, <2>2 DEF OffersCross, Sent
      <3>2. OffersCross(p, q)'
        BY <1>1, <2>2, <3>1 DEF OffersCross, Offerer, Maybe
      <3> QED BY <3>2 DEF Either, Stands
    <2>3. CASE CloseFinalizeDue(p, q)
      <3>1. /\ Len(Coming(q)) = 1 /\ Offerer(p) /\ View(p).idx = View(q).idx + 1
            /\ m.point = View(p).point /\ Coming(q) # <<>>
        BY <1>2, <2>3, NoItems DEF CloseFinalizeDue, Pair
      <3>2. Just(Coming(q), "CloseFinalize")
        BY <2>3, <3>1 DEF CloseFinalizeDue, Just
      <3>3. Pair(Coming(q)', "CloseFinalize", "Offer") /\ Coming(q)'[1] = Coming(q)[1]
            /\ Coming(q)'[2] = m
        BY <1>1, <3>2 DEF Sent
      <3>4. Coming(q)' # <<>>
        BY <3>3, NoItems
      <3>5. CloseFinalizeDue(p, q)'
        BY <1>1, <2>3, <3>1, <3>3, <3>4 DEF CloseFinalizeDue, Offerer
      <3> QED BY <3>5 DEF Either, Stands
    <2> QED BY <1>3, <2>1, <2>2, <2>3
  <1> QED BY <1>1, <1>4 DEF Acts, Acted

LEMMA ResendFinalizeActs ==
    ASSUME NEW p, NEW q, Acting(p, q), NEW m \in Message, Resend(p, m), m.type = "CloseFinalize",
           m.point = actions[p][1].point, actions[p][1].type = "ResendCloseFinalize",
           actions[p] # <<>>, Len(actions[p]) = 1 => actions'[p] = <<>>,
           Len(actions[p]) # 1 =>
             Just(actions'[p], "ResendOffer") /\ actions'[p][1] = actions[p][2],
           actions'[q] = actions[q], UNCHANGED <<conn, ready>>
    PROVE  Acts(p, q)
  <1>1. /\ Turn(p, q) /\ DlcOf(p)' /\ OutOf(p)' /\ SecretsAt(p)'
        /\ Coming(p)' = Coming(p) /\ Sent(q, m) /\ Says(p, m)
        /\ View(p)' = View(p) /\ View(q)' = View(q) /\ Doing(q)' = Doing(q)
        /\ Doing(p)' = actions'[p]
    BY ResendActs
  <1>2. Doing(p) = actions[p] /\ Either(p, q)
    BY ActingParts
  <1>3. CloseFinalizeDue(p, q)
    BY <1>2, FirstAction DEF AtAction
  <1>4. Coming(q) = <<>> /\ m.point = PerSplitPoint(p, View(q).idx)
    BY <1>2, <1>3, NoItems DEF CloseFinalizeDue, Just
  <1>5. Just(Coming(q)', "CloseFinalize") /\ Coming(q)'[1] = m
    BY <1>1, <1>4 DEF Sent
  <1>6. Len(Coming(q)') = 1 /\ Coming(q)' # <<>> /\ Coming(q)'[1].type = "CloseFinalize"
    BY <1>5, NoItems DEF Just
  <1>7. \/ /\ View(p).st = "OffChainClosed" /\ View(p).idx = View(q).idx /\ Doing(p)' = <<>>
        \/ /\ Offerer(p) /\ View(p).idx = View(q).idx + 1
           /\ Just(Doing(p)', "ResendOffer") /\ Doing(p)'[1].point = View(p).point
    BY <1>1, <1>2, <1>3, <1>4, NoItems DEF CloseFinalizeDue, Pair
  <1>8. CloseFinalizeDue(p, q)'
    BY <1>1, <1>3, <1>4, <1>5, <1>6, <1>7 DEF CloseFinalizeDue, Offerer
  <1> QED BY <1>1, <1>8 DEF Acts, Acted, Either, Stands

LEMMA ResendCloseActs ==
    ASSUME NEW p, NEW q, Acting(p, q), NEW m \in Message, Resend(p, m), m.type = "CloseOffer",
           m.balance = actions[p][1].balance, actions[p][1].type = "ResendCloseOffer",
           actions[p] # <<>>, actions'[p] = <<>>,
           actions'[q] = actions[q], UNCHANGED <<conn, ready>>
    PROVE  Acts(p, q)
  <1>1. /\ Turn(p, q) /\ DlcOf(p)' /\ OutOf(p)' /\ SecretsAt(p)'
        /\ Coming(p)' = Coming(p) /\ Sent(q, m) /\ Says(p, m)
        /\ View(p)' = View(p) /\ View(q)' = View(q) /\ Doing(q)' = Doing(q)
        /\ Doing(p)' = <<>>
    BY ResendActs
  <1>2. Doing(p) = actions[p] /\ Either(p, q)
    BY ActingParts
  <1>3. CloseDue(p, q) \/ ClosesCross(p, q)
    BY <1>2, FirstAction DEF AtAction
  <1>4. /\ SameView(p, q)' <=> SameView(p, q)
        /\ Closer(p)' <=> Closer(p)
        /\ Closer(q)' <=> Closer(q)
        /\ Signed(q)' <=> Signed(q)
    BY <1>1 DEF SameView, Closer, Signed
  <1>5. CASE CloseDue(p, q)
    <2>1. Coming(q) = <<>> /\ m.balance = View(p).balance
      BY <1>2, <1>5 DEF CloseDue
    <2>2. Just(Coming(q)', "CloseOffer") /\ Coming(q)'[1] = m
      BY <1>1, <2>1 DEF Sent
    <2>3. CloseDue(p, q)'
      BY <1>1, <1>4, <1>5, <2>1, <2>2 DEF CloseDue
    <2> QED BY <1>1, <2>3 DEF Acts, Acted, Either, Stands
  <1>6. CASE ClosesCross(p, q)
    <2>1. Only(Coming(q)', "CloseOffer")
      BY <1>1, <1>6 DEF ClosesCross, Sent
    <2>2. ClosesCross(p, q)'
      BY <1>1, <1>4, <1>6, <2>1 DEF ClosesCross, Maybe
    <2> QED BY <1>1, <2>2 DEF Acts, Acted, Either, Stands
  <1> QED BY <1>3, <1>5, <1>6

LEMMA ForceSignActs ==
    ASSUME NEW p, NEW q, Acting(p, q), MarkChannelSigned(p), sub[p].st = "Finalized",
           actions[p] # <<>>, actions[p][1].type = "ForceSign", actions'[p] = <<>>,
           actions'[q] = actions[q], UNCHANGED <<conn, ready>>
    PROVE  Acts(p, q)
  <1>1. SetSub(p, [sub[p] EXCEPT !.st = "Signed"]) /\ UNCHANGED <<dlc, ln, net>>
    BY DEF MarkChannelSigned
  <1>2. /\ Turn(p, q) /\ DlcOf(p)' /\ OutOf(p)' /\ SecretsAt(p)'
        /\ sub'[p].st = "Signed" /\ sub'[p].idx = sub[p].idx /\ sub'[p].split = sub[p].split
    BY <1>1, RenamedActs DEF StateName
  <1>3. Doing(p) = actions[p] /\ Either(p, q) /\ q = Other(p) /\ Coming(p) = net[p]
    BY ActingParts
  <1>4. RevokeDue(q, p)
    BY <1>3, FirstAction DEF AtAction
  <1>5. Msg("Reject") \in Message
    BY MsgTyped DEF MessageType
  <1>6. Says(p, Msg("Reject"))
    BY <1>1, <1>3 DEF Says, TakesOrNot
  <1>7. Views(p, q) /\ Coming(p)' = Coming(p) /\ Coming(q)' = Coming(q)
    BY <1>1, <1>2, <1>3, <1>5, OwnViews
  <1>8. Either(p, q)'
    BY <1>2, <1>3, <1>4, <1>7, RevokedActs
  <1> QED BY <1>2, <1>5, <1>6, <1>8 DEF Acts, Acted

LEMMA ProcessActs ==
    ASSUME NEW p, NEW q, Acting(p, q), ProcessActions(p), ln[p].open
    PROVE  Acts(p, q)
  <1> DEFINE a == actions[p][1]
  <1>1. /\ TypeInv /\ p \in Party /\ q = Other(p) /\ Doing(p) = actions[p] /\ Either(p, q)
    BY ActingParts
  <1>2. actions[p] # <<>> =>
          /\ Listed(actions[p]) /\ AtAction(p, q, a.type)
          /\ a.type \in NeedsChannel => Len(actions[p]) = 1
    BY <1>1, FirstAction
  <1>3. /\ actions[p] # <<>> /\ a \in Action /\ Perform(p, a)
        /\ Len(actions[p]) = 1 => actions'[p] = <<>>
        /\ Len(actions[p]) # 1 => Just(actions'[p], "ResendOffer")
                                  /\ actions'[p][1] = actions[p][2]
        /\ actions'[q] = actions[q] /\ UNCHANGED <<conn, ready>>
    BY <1>1, <1>2, FirstDone
  <1>4. a.point \in Point /\ a.balance \in 0 .. TotalCollateral
        /\ a.type \in {"ResendOffer", "ReAccept", "ForceSign", "ResendCloseOffer",
                       "ReAcceptCloseOffer", "ResendCloseFinalize"}
    BY <1>3 DEF Action
  <1>5. a.type # "ResendCloseFinalize" => Len(actions[p]) = 1
    BY <1>2, <1>3 DEF Listed, Pair
  <1> DEFINE pt == a.point
             bal == a.balance
  <1>6. CASE a.type = "ResendOffer"
    <2> DEFINE m == [Msg("Offer") EXCEPT !.point = pt]
    <2>1. Resend(p, m)
      BY <1>3, <1>6 DEF Perform
    <2>2. pt \in Point
      BY <1>4
    <2>3. m \in Message /\ m.type = "Offer" /\ m.point = pt
      <3> HIDE DEF pt
      <3> QED BY <2>2, MsgTyped DEF MessageType, Message
    <2> HIDE DEF m
    <2> QED BY <1>3, <1>5, <1>6, <2>1, <2>3, ResendOfferActs
  <1>7. CASE a.type = "ResendCloseFinalize"
    <2> DEFINE m == [Msg("CloseFinalize") EXCEPT !.point = pt]
    <2>1. Resend(p, m)
      BY <1>3, <1>7 DEF Perform
    <2>2. pt \in Point
      BY <1>4
    <2>3. m \in Message /\ m.type = "CloseFinalize" /\ m.point = pt
      <3> HIDE DEF pt
      <3> QED BY <2>2, MsgTyped DEF MessageType, Message
    <2> HIDE DEF m
    <2> QED BY <1>3, <1>7, <2>1, <2>3, ResendFinalizeActs
  <1>8. CASE a.type = "ResendCloseOffer"
    <2> DEFINE m == [Msg("CloseOffer") EXCEPT !.balance = bal]
    <2>1. Resend(p, m)
      BY <1>3, <1>8 DEF Perform
    <2>2. bal \in 0 .. TotalCollateral
      BY <1>4
    <2>3. m \in Message /\ m.type = "CloseOffer" /\ m.balance = bal
      <3> HIDE DEF bal
      <3> QED BY <2>2, MsgTyped DEF MessageType, Message
    <2> HIDE DEF m
    <2> QED BY <1>3, <1>5, <1>8, <2>1, <2>3, ResendCloseActs
  <1>9. CASE a.type = "ReAccept"
    <2>1. CanAccept(p) /\ AcceptEffect(p)
      BY <1>3, <1>9 DEF Perform
    <2>2. OfferHeard(q, p)
      BY <1>2, <1>3, <1>9 DEF AtAction
    <2> QED BY <1>3, <1>5, <1>9, <2>1, <2>2, AcceptEffectActs
  <1>10. CASE a.type = "ForceSign"
    <2>1. MarkChannelSigned(p) /\ sub[p].st = "Finalized"
      BY <1>3, <1>10 DEF Perform, In
    <2> QED BY <1>3, <1>5, <1>10, <2>1, ForceSignActs
  <1>11. CASE a.type = "ReAcceptCloseOffer"
    <2>1. CanAcceptClose(p) /\ AcceptCloseEffect(p) /\ UNCHANGED <<dlc, watch>>
      BY <1>3, <1>11 DEF Perform
    <2>2. CloseHeard(q, p)
      BY <1>2, <1>3, <1>11 DEF AtAction
    <2> QED BY <1>3, <1>5, <1>11, <2>1, <2>2, AcceptCloseEffectActs
  <1> QED BY <1>4, <1>6, <1>7, <1>8, <1>9, <1>10, <1>11

-----------------------------------------------------------------------------
(* Handling the peer's reestablish message, and losing what is sent        *)
(* without a connection, change nothing of where the two stand.            *)

Same(p, q) ==
    /\ View(p)' = View(p) /\ Coming(p)' = Coming(p) /\ Doing(p)' = Doing(p)
    /\ View(q)' = View(q) /\ Coming(q)' = Coming(q) /\ Doing(q)' = Doing(q)

LEMMA SameStands ==
    ASSUME NEW p, NEW q, Same(p, q), Stands(p, q)
    PROVE  Stands(p, q)'
  <1>1. /\ Offerer(p)' <=> Offerer(p)
        /\ Offerer(q)' <=> Offerer(q)
        /\ Closer(p)' <=> Closer(p)
        /\ Closer(q)' <=> Closer(q)
        /\ Signed(p)' <=> Signed(p)
        /\ Signed(q)' <=> Signed(q)
        /\ SameView(p, q)' <=> SameView(p, q)
        /\ Quieted(p)' <=> Quieted(p)
        /\ Quieted(q)' <=> Quieted(q)
        /\ SplitDue(p, q)' <=> SplitDue(p, q)
    BY DEF Same, Offerer, Closer, Signed, SameView, Quieted, SplitDue
  <1>2. /\ AtRest(p, q) => AtRest(p, q)'
        /\ OfferDue(p, q) => OfferDue(p, q)'
        /\ OfferRejected(p, q) => OfferRejected(p, q)'
        /\ OfferHeard(p, q) => OfferHeard(p, q)'
        /\ OffersCross(p, q) => OffersCross(p, q)'
    BY <1>1 DEF Same, AtRest, OfferDue, OfferRejected, OfferHeard, OffersCross
  <1>3. /\ AcceptDue(p, q) => AcceptDue(p, q)'
        /\ ConfirmDue(p, q) => ConfirmDue(p, q)'
        /\ FinalizeDue(p, q) => FinalizeDue(p, q)'
        /\ RevokeDue(p, q) => RevokeDue(p, q)'
        /\ BothSigned(p, q) => BothSigned(p, q)'
    BY <1>1 DEF Same, AcceptDue, ConfirmDue, FinalizeDue, RevokeDue, BothSigned
  <1>4. /\ CloseDue(p, q) => CloseDue(p, q)'
        /\ CloseHeard(p, q) => CloseHeard(p, q)'
        /\ CloseRejected(p, q) => CloseRejected(p, q)'
        /\ ClosesCross(p, q) => ClosesCross(p, q)'
    BY <1>1 DEF Same, CloseDue, CloseHeard, CloseRejected, ClosesCross
  <1>5. /\ CloseAcceptDue(p, q) => CloseAcceptDue(p, q)'
        /\ CloseConfirmDue(p, q) => CloseConfirmDue(p, q)'
        /\ CloseFinalizeDue(p, q) => CloseFinalizeDue(p, q)'
    BY <1>1 DEF Same, CloseAcceptDue, CloseConfirmDue, CloseFinalizeDue
  <1> QED BY <1>2, <1>3, <1>4, <1>5 DEF Stands

LEMMA SameEither ==
    ASSUME NEW p, NEW q, Same(p, q), Either(p, q)
    PROVE  Either(p, q)'
  <1>1. Same(q, p)
    BY DEF Same
  <1> QED BY <1>1, SameStands DEF Either

(* What taking a state back keeps.                                         *)
LEMMA BackSubFields ==
    ASSUME NEW s \in SubChannelRecord, NEW p, NEW flag
    PROVE  /\ BackSub(p, s, flag).idx = s.idx /\ BackSub(p, s, flag).secrets = s.secrets
           /\ BackSub(p, s, flag).isOffer = s.isOffer /\ BackSub(p, s, flag).split = s.split
           /\ s.st \notin {"Accepted", "Confirmed", "Finalized", "CloseAccepted", "CloseConfirmed"} =>
                BackSub(p, s, flag) = s
           /\ BackSub(p, s, flag).st \in {s.st, "Offered", "CloseOffered"}
  BY DEF BackSub, OfferedBack, CloseBack, SubChannelRecord

LEMMA JoinTwo ==
    ASSUME NEW x, NEW y
    PROVE  <<x>> \o <<y>> = <<x, y>> /\ <<>> \o <<y>> = <<y>>
  <1> DEFINE u == <<x>>
             v == <<y>>
             w == <<x, y>>
  <1>1. /\ u \in Seq({x, y}) /\ v \in Seq({x, y}) /\ w \in Seq({x, y})
        /\ Len(u) = 1 /\ Len(v) = 1 /\ Len(w) = 2 /\ u[1] = x /\ v[1] = y /\ w[1] = x /\ w[2] = y
    OBVIOUS
  <1> HIDE DEF u, v, w
  <1>2. u \o v \in Seq({x, y}) /\ Len(u \o v) = 2 /\ (u \o v)[1] = x /\ (u \o v)[2] = y
    BY <1>1, ConcatProperties
  <1>3. u \o v = w
    BY <1>1, <1>2, SeqEqual
  <1>4. <<>> \o v = v
    BY <1>1, ConcatEmptySeq
  <1> QED BY <1>3, <1>4 DEF u, v, w

LEMMA RepairLink ==
    ASSUME TypeInv, NEW p \in Party, NEW flag, DlcOf(p), OutOf(p)
    PROVE  LET r == Repaired(p, flag) IN
           /\ r.sub = BackSub(p, sub[p], flag) /\ r.list = BackList(p, sub[p], flag)
           /\ r.out = OutFor(r.sub.st) /\ r.dlc \in DlcFor(r.sub.st)
  <1> DEFINE r == Repaired(p, flag)
             s == sub[p]
  <1>0. s \in SubChannelRecord /\ s.st \in StateName /\ dlc[p] \in DlcState
    BY Fields DEF TypeInv, TypeOK
  <1>1. CASE s.st = "Offered"
    <2>1. dlc[p] = "Offered" /\ ln[p].out = "fund"
      BY <1>1 DEF DlcOf, DlcFor, OutOf, OutFor
    <2>2. r = ReestablishOffered(p, flag)
      BY <1>1 DEF Repaired, In
    <2>3. BackSub(p, s, flag) = s
      BY <1>1 DEF BackSub
    <2> DEFINE fin == Act("ResendCloseFinalize", PerSplitPoint(p, s.idx - 1), 0)
               off == Act("ResendOffer", s.point, 0)
    <2>4. <<fin>> \o <<off>> = <<fin, off>> /\ <<>> \o <<off>> = <<off>>
      BY JoinTwo
    <2>5. /\ r.sub = s /\ r.dlc = "Offered" /\ r.out = "fund"
          /\ r.list = IF s.isOffer /\ flag \in {"none", "OffChainClosed", "CloseConfirmed"}
                      THEN (IF flag = "CloseConfirmed" THEN <<fin>> ELSE <<>>) \o <<off>>
                      ELSE <<>>
      BY <2>1, <2>2 DEF ReestablishOffered, Todo, NoRepair, Repair, ResendCloseFinalize
    <2>6. BackList(p, s, flag) =
            IF s.isOffer /\ flag \in {"none", "OffChainClosed", "CloseConfirmed"}
            THEN (IF flag = "CloseConfirmed" THEN <<fin, off>> ELSE <<off>>) ELSE <<>>
      BY <1>1 DEF BackList
    <2> HIDE DEF fin, off
    <2>7. r.list = BackList(p, s, flag)
      BY <2>4, <2>5, <2>6
    <2> QED BY <1>1, <2>3, <2>5, <2>7 DEF OutFor, DlcFor
  <1>2. CASE s.st = "Accepted"
    <2>1. dlc[p] = "Accepted"
      BY <1>2 DEF DlcOf, DlcFor
    <2>2. r = ReestablishAccepted(p)
      BY <1>2 DEF Repaired, In
    <2>3. /\ BackSub(p, s, flag) = OfferedBack(s, s.split.offer)
          /\ BackList(p, s, flag) = ReAccept
      BY <1>2 DEF BackSub, BackList
    <2>4. /\ r.sub = OfferedBack(s, s.split.offer) /\ r.dlc = "Offered" /\ r.out = "fund"
          /\ r.list = ReAccept
      BY <2>1, <2>2 DEF ReestablishAccepted, BackToOffered, Repair, OfferedBack
    <2>5. OfferedBack(s, s.split.offer).st = "Offered"
      BY <1>0 DEF OfferedBack, SubChannelRecord
    <2> QED BY <2>3, <2>4, <2>5 DEF OutFor, DlcFor
  <1>3. CASE s.st = "Confirmed"
    <2>1. dlc[p] = "Signed"
      BY <1>3 DEF DlcOf, DlcFor
    <2>2. r = ReestablishConfirmed(p)
      BY <1>3 DEF Repaired, In
    <2>3. /\ BackSub(p, s, flag) = OfferedBack(s, OwnPoint(p, s.split))
          /\ BackList(p, s, flag) = <<>>
      BY <1>3 DEF BackSub, BackList
    <2>4. /\ r.sub = OfferedBack(s, OwnPoint(p, s.split)) /\ r.dlc = "Offered" /\ r.out = "fund"
          /\ r.list = <<>>
      BY <2>1, <2>2 DEF ReestablishConfirmed, BackToOffered, Repair, OfferedBack
    <2>5. OfferedBack(s, OwnPoint(p, s.split)).st = "Offered"
      BY <1>0 DEF OfferedBack, SubChannelRecord
    <2> QED BY <2>3, <2>4, <2>5 DEF OutFor, DlcFor
  <1>4. CASE s.st = "Finalized"
    <2>1. dlc[p] = "Confirmed" /\ ln[p].out = "glue"
      BY <1>4 DEF DlcOf, DlcFor, OutOf, OutFor
    <2>2. r = ReestablishFinalized(p, flag)
      BY <1>4 DEF Repaired, In
    <2>3. CASE flag \notin {"Signed", "none"}
      <3>1. /\ BackSub(p, s, flag) = OfferedBack(s, CounterPoint(p, s.split))
            /\ BackList(p, s, flag) = ReAccept
        BY <1>4, <2>3 DEF BackSub, BackList
      <3>2. /\ r.sub = OfferedBack(s, CounterPoint(p, s.split)) /\ r.dlc = "Offered"
            /\ r.out = "fund" /\ r.list = ReAccept
        BY <2>1, <2>2, <2>3 DEF ReestablishFinalized, BackToOffered, Repair, OfferedBack
      <3>3. OfferedBack(s, CounterPoint(p, s.split)).st = "Offered"
        BY <1>0 DEF OfferedBack, SubChannelRecord
      <3> QED BY <3>1, <3>2, <3>3 DEF OutFor, DlcFor
    <2>4. CASE flag \in {"Signed", "none"}
      <3>1. BackSub(p, s, flag) = s
        BY <1>4, <2>4 DEF BackSub
      <3>2. /\ r.sub = s /\ r.dlc = "Confirmed" /\ r.out = "glue"
            /\ r.list = BackList(p, s, flag)
        BY <1>4, <2>1, <2>2, <2>4 DEF ReestablishFinalized, Todo, NoRepair, Repair, BackList
      <3> QED BY <1>4, <3>1, <3>2 DEF OutFor, DlcFor
    <2> QED BY <2>3, <2>4
  <1>5. CASE s.st = "CloseOffered"
    <2>1. r = ReestablishCloseOffered(p, flag)
      BY <1>5 DEF Repaired, In
    <2>2. BackSub(p, s, flag) = s
      BY <1>5 DEF BackSub
    <2>3. /\ r.sub = s /\ r.dlc = dlc[p] /\ r.out = ln[p].out /\ r.list = BackList(p, s, flag)
      BY <1>5, <2>1 DEF ReestablishCloseOffered, Todo, NoRepair, Repair, BackList
    <2> QED BY <2>2, <2>3 DEF DlcOf, OutOf
  <1>6. CASE s.st = "CloseAccepted"
    <2>1. dlc[p] = "Confirmed"
      BY <1>6 DEF DlcOf, DlcFor
    <2>2. r = ReestablishCloseAccepted(p)
      BY <1>6 DEF Repaired, In
    <2>3. /\ BackSub(p, s, flag) = CloseBack(s, FALSE, s.balance)
          /\ BackList(p, s, flag) = <<Act("ReAcceptCloseOffer", NoPoint, 0)>>
      BY <1>6 DEF BackSub, BackList
    <2>4. /\ r.sub = CloseBack(s, FALSE, s.balance) /\ r.dlc = "Confirmed" /\ r.out = "glue"
          /\ r.list = <<Act("ReAcceptCloseOffer", NoPoint, 0)>>
      BY <2>1, <2>2 DEF ReestablishCloseAccepted, BackToCloseOffered, Repair, CloseBack
    <2>5. CloseBack(s, FALSE, s.balance).st = "CloseOffered"
      BY <1>0 DEF CloseBack, SubChannelRecord
    <2> QED BY <2>3, <2>4, <2>5 DEF OutFor, DlcFor
  <1>7. CASE s.st = "CloseConfirmed"
    <2>1. dlc[p] = "Confirmed" /\ ln[p].out = "fund"
      BY <1>7 DEF DlcOf, DlcFor, OutOf, OutFor
    <2>2. r = ReestablishCloseConfirmed(p, flag) /\ BackList(p, s, flag) = <<>>
      BY <1>7 DEF Repaired, In, BackList
    <2>3. CASE flag = "CloseAccepted"
      <3> DEFINE b == TotalCollateral - s.balance
      <3>1. BackSub(p, s, flag) = CloseBack(s, TRUE, b)
        BY <1>7, <2>3 DEF BackSub
      <3>2. r.sub = CloseBack(s, TRUE, b) /\ r.dlc = "Confirmed" /\ r.out = "glue" /\ r.list = <<>>
        BY <2>1, <2>2, <2>3 DEF ReestablishCloseConfirmed, BackToCloseOffered, Repair, CloseBack
      <3>3. CloseBack(s, TRUE, b).st = "CloseOffered"
        BY <1>0 DEF CloseBack, SubChannelRecord
      <3> QED BY <2>2, <3>1, <3>2, <3>3 DEF OutFor, DlcFor
    <2>4. CASE flag # "CloseAccepted"
      <3>1. /\ r.sub = BackSub(p, s, flag) /\ r.dlc = "Confirmed" /\ r.out = "fund" /\ r.list = <<>>
        BY <1>7, <2>1, <2>2, <2>4 DEF ReestablishCloseConfirmed, NoRepair, Repair, BackSub
      <3>2. BackSub(p, s, flag).st = "CloseConfirmed"
        BY <1>0, <1>7, <2>4 DEF BackSub, SubChannelRecord
      <3> QED BY <2>2, <3>1, <3>2 DEF OutFor, DlcFor
    <2> QED BY <2>3, <2>4
  <1>8. CASE s.st \notin {"Offered", "Accepted", "Confirmed", "Finalized", "CloseOffered",
                          "CloseAccepted", "CloseConfirmed"}
    <2>1. BackSub(p, s, flag) = s
      BY <1>8 DEF BackSub
    <2>2. r = IF s.st = "OffChainClosed" THEN ReestablishOffChainClosed(p, flag) ELSE NoRepair(p)
      BY <1>8 DEF Repaired, In
    <2>3. /\ r.sub = s /\ r.dlc = dlc[p] /\ r.out = ln[p].out /\ r.list = BackList(p, s, flag)
      BY <1>8, <2>2
         DEF ReestablishOffChainClosed, Todo, NoRepair, Repair, BackList, ResendCloseFinalize
    <2> QED BY <2>1, <2>3 DEF DlcOf, OutOf
  <1> QED BY <1>1, <1>2, <1>3, <1>4, <1>5, <1>6, <1>7, <1>8

Waiting(p, q) ==
    /\ TypeInv /\ NetInv /\ p \in Party /\ q = Other(p) /\ conn /\ ~ready[p]
    /\ Side(p, q) /\ Side(q, p) /\ Either(p, q)

LEMMA ReturnStable ==
    ASSUME NEW p, NEW q, Waiting(p, q), OnChannelReestablish(p)
    PROVE  Stable(p, q)'
  <1> DEFINE flag == Head(net[p]).flag
             r == Repaired(p, flag)
  <1>0. /\ TypeInv /\ NetInv /\ p \in Party /\ q \in Party /\ q = Other(p) /\ q # p /\ conn
        /\ ~ready[p] /\ Either(p, q) /\ Side(p, q) /\ Side(q, p)
    BY Others DEF Waiting
  <1>1. /\ net[p] # <<>> /\ SetSub(p, r.sub) /\ SetDlc(p, r.dlc) /\ SetOut(p, r.out)
        /\ Push(p, r.list) /\ Consume(p) /\ ready' = [ready EXCEPT ![p] = TRUE] /\ UNCHANGED conn
    BY DEF OnChannelReestablish, Received
  <1>2. /\ r.sub = BackSub(p, sub[p], flag) /\ r.list = BackList(p, sub[p], flag)
        /\ r.out = OutFor(r.sub.st) /\ r.dlc \in DlcFor(r.sub.st)
    BY <1>0, RepairLink DEF Side
  <1>3. Seen(p) = flag /\ Keep(actions[p]) = actions[p]
    BY <1>0 DEF Seen, Side, Forms
  <1>4. /\ sub \in [Party -> SubChannelRecord] /\ dlc \in [Party -> DlcState]
        /\ ln \in [Party -> [open : BOOLEAN, out : {"fund", "glue", "split"}]]
        /\ net \in [Party -> Seq(Message)] /\ actions \in [Party -> Seq(Action)]
        /\ ready \in [Party -> BOOLEAN]
    BY <1>0, TypeParts DEF TypeInv, TypeOK, SubTyped, NetTyped
  <1>5. r.sub.secrets = sub[p].secrets
    BY <1>2, <1>4, <1>0, BackSubFields
  <1> HIDE DEF r, flag
  <1>6. /\ sub'[p] = r.sub /\ dlc'[p] = r.dlc /\ ln'[p].out = r.out /\ ready'[p]
        /\ net'[p] = Tail(net[p]) /\ actions'[p] = actions[p] \o r.list
    BY <1>0, <1>1, <1>4 DEF SetSub, SetDlc, SetOut, Push, Consume
  <1>7. /\ sub'[q] = sub[q] /\ dlc'[q] = dlc[q] /\ ln'[q] = ln[q] /\ ready'[q] = ready[q]
        /\ net'[q] = net[q] /\ actions'[q] = actions[q] /\ conn'
    BY <1>0, <1>1, <1>4 DEF SetSub, SetDlc, SetOut, Push, Consume
  <1>8. /\ View(p)' = View(p) /\ Coming(p)' = Coming(p) /\ Doing(p)' = Doing(p)
    <2>1. View(p)' = r.sub /\ Coming(p)' = Tail(net[p]) /\ Doing(p)' = actions[p] \o r.list
      BY <1>6, ReadyViewNext
    <2>2. View(p) = r.sub /\ Coming(p) = Tail(net[p]) /\ Doing(p) = actions[p] \o r.list
      BY <1>0, <1>2, <1>3 DEF View, Coming, Doing
    <2> QED BY <2>1, <2>2
  <1>9. Seen(q)' = Seen(q)
    BY <1>0, <1>7 DEF Seen
  <1>10. View(q)' = View(q) /\ Coming(q)' = Coming(q) /\ Doing(q)' = Doing(q)
    BY <1>0, <1>7, <1>9 DEF View, Coming, Doing
  <1>11. Either(p, q)'
    BY <1>0, <1>8, <1>10, SameEither DEF Same
  <1>12. Side(q, p)'
    <2>1. DlcOf(q)' /\ OutOf(q)' /\ SecretsAt(q)'
      BY <1>0, <1>7 DEF Side, DlcOf, OutOf, SecretsAt
    <2>2. Greeting(q)' /\ Forms(q)' /\ Cold(q, p)' /\ Fresh(q, p)'
      BY <1>0, <1>6, <1>7 DEF Side, Greeting, Forms, Cold, Fresh
    <2> QED BY <2>1, <2>2 DEF Side
  <1>13. Side(p, q)'
    <2>1. DlcOf(p)' /\ OutOf(p)' /\ SecretsAt(p)'
      BY <1>0, <1>2, <1>5, <1>6 DEF Side, DlcOf, OutOf, SecretsAt
    <2>2. Greeting(p)' /\ Forms(p)' /\ Cold(p, q)' /\ Fresh(p, q)'
      BY <1>6, <1>7 DEF Greeting, Forms, Cold, Fresh
    <2> QED BY <2>1, <2>2 DEF Side
  <1> QED BY <1>11, <1>12, <1>13 DEF Stable, Stand, Either

-----------------------------------------------------------------------------
(* A party that waits for the peer's reestablish message: it can reject an *)
(* offer, and nothing else.                                                *)

LEMMA Unmoved ==
    ASSUME NEW s \in SubChannelRecord, NEW p, NEW flag,
           \/ s.st \in {"Rejected", "Signed"}
           \/ s.st = "Offered" /\ ~s.isOffer
           \/ s.st = "CloseOffered" /\ ~s.ours
    PROVE  BackSub(p, s, flag) = s /\ BackList(p, s, flag) = <<>>
  BY DEF BackSub, BackList

LEMMA KeepAlone ==
    ASSUME NEW S, NEW a \in Seq(S)
    PROVE  Keep(a) \o <<>> = Keep(a) /\ Keep(a) \in Seq(S)
  <1>1. Keep(a) \in Seq(S)
    BY DEF Keep
  <1> QED BY <1>1, ConcatEmptySeq

LEMMA RejectViews ==
    ASSUME NEW p, NEW q, TypeInv, p \in Party, q = Other(p), ~ready[p],
           NEW st \in {"Rejected", "Signed"},
           SetSub(p, [sub[p] EXCEPT !.st = st]), UNCHANGED <<dlc, ln, actions, conn, ready>>,
           \/ sub[p].st = "Offered" /\ ~sub[p].isOffer /\ st = "Rejected"
           \/ sub[p].st = "CloseOffered" /\ ~sub[p].ours /\ st = "Signed",
           DlcOf(p), OutOf(p), SecretsAt(p), net'[p] = net[p]
    PROVE  /\ Turn(p, q) /\ DlcOf(p)' /\ OutOf(p)' /\ SecretsAt(p)'
           /\ sub'[p].st = st /\ sub'[p].idx = sub[p].idx /\ sub'[p].split = sub[p].split
           /\ View(p) = sub[p] /\ View(p)' = sub'[p] /\ Coming(p)' = Coming(p)
           /\ Doing(p) = Keep(actions[p]) /\ Doing(p)' = Keep(actions[p])
  <1> DEFINE s2 == [sub[p] EXCEPT !.st = st]
  <1>0. /\ q \in Party /\ q # p /\ sub[p] \in SubChannelRecord /\ actions[p] \in Seq(Action)
        /\ dlc[p] \in DlcState
    BY Others, Fields DEF TypeInv, TypeOK
  <1>1. /\ s2 \in SubChannelRecord /\ s2.st = st /\ s2.split = sub[p].split
        /\ s2.idx = sub[p].idx /\ s2.secrets = sub[p].secrets
    BY <1>0 DEF SubChannelRecord, StateName
  <1>2. SetSub(p, s2)
    OBVIOUS
  <1> HIDE DEF s2
  <1>3. sub'[p] = s2 /\ sub'[q] = sub[q]
    BY <1>0, <1>1, <1>2, SetSubFrame
  <1>4. Turn(p, q)
    BY <1>3 DEF Turn
  <1>5. DlcOf(p)' /\ OutOf(p)' /\ SecretsAt(p)'
    BY <1>0, <1>1, <1>3 DEF DlcOf, DlcFor, OutOf, OutFor, SecretsAt
  <1>6. /\ BackSub(p, sub[p], Seen(p)) = sub[p] /\ BackList(p, sub[p], Seen(p)) = <<>>
        /\ BackSub(p, s2, Seen(p)') = s2 /\ BackList(p, s2, Seen(p)') = <<>>
    BY <1>0, <1>1, Unmoved
  <1>7. ~ready'[p] /\ conn' = conn /\ actions'[p] = actions[p]
    OBVIOUS
  <1>8. View(p) = sub[p] /\ Doing(p) = Keep(actions[p])
    BY <1>0, <1>6, KeepAlone DEF View, Doing
  <1>9. View(p)' = sub'[p] /\ Doing(p)' = Keep(actions[p])
    BY <1>0, <1>3, <1>6, <1>7, KeepAlone DEF View, Doing
  <1>10. Coming(p)' = Coming(p)
    BY <1>7 DEF Coming
  <1> QED BY <1>1, <1>3, <1>4, <1>5, <1>8, <1>9, <1>10

LEMMA SentInTurn ==
    ASSUME NEW p, NEW q, Waiting(p, q), Turn(p, q), NEW m \in Message, Send(p, m)
    PROVE  /\ net'[p] = net[p] /\ net'[q] = Append(net[q], m)
           /\ View(q)' = View(q) /\ Doing(q)' = Doing(q) /\ Sent(q, m) /\ Greeting(q)'
  <1>0. TypeInv /\ NetInv /\ p \in Party /\ q = Other(p) /\ conn /\ Greeting(q) /\ q \in Party /\ q # p
    BY Others DEF Waiting, Side
  <1>1. net \in [Party -> Seq(Message)]
    BY <1>0, TypeParts DEF NetTyped
  <1>2. net'[p] = net[p] /\ net'[q] = Append(net[q], m)
    BY <1>0, <1>1 DEF Send
  <1>3. /\ View(q)' = View(q) /\ Doing(q)' = Doing(q)
        /\ Coming(q)' = Append(Coming(q), m) /\ Greeting(q)'
    BY <1>0, <1>2, PeerViews
  <1>4. Coming(q) \in Seq(Message)
    BY <1>0, ComingTyped
  <1> DEFINE c == Coming(q)
  <1>5. /\ c = <<>> => Just(Append(c, m), m.type) /\ Append(c, m)[1] = m
        /\ \A type : Just(c, type) =>
              /\ Pair(Append(c, m), type, m.type)
              /\ Append(c, m)[1] = c[1] /\ Append(c, m)[2] = m
        /\ \A type : Only(c, type) /\ m.type = type => Only(Append(c, m), type)
    <2>1. c \in Seq(Message)
      BY <1>4
    <2> HIDE DEF c
    <2> QED BY <2>1, JustAppend
  <1>6. Sent(q, m)
    BY <1>3, <1>5 DEF Sent
  <1> QED BY <1>2, <1>3, <1>6

(* A rejection sent before the peer's reestablish message is handled.      *)
LEMMA RejectSides ==
    ASSUME NEW p, NEW q, Waiting(p, q), NEW m \in Message, m.type = "Reject", Send(p, m),
           Turn(p, q), DlcOf(p)', OutOf(p)', SecretsAt(p)', Coming(p) = <<>>, Coming(q) = <<>>,
           UNCHANGED actions, ~ready[q] => sub[q].st \in {"Offered", "CloseOffered"},
           sub[q].st = "Offered" => sub[q].isOffer, sub[q].st = "CloseOffered" => sub[q].ours,
           sub'[p].st \in {"Rejected", "Signed"}
    PROVE  Side(p, q)' /\ Side(q, p)'
  <1>0. /\ TypeInv /\ NetInv /\ p \in Party /\ q = Other(p) /\ conn /\ conn' /\ q \in Party /\ q # p
        /\ ~ready[p] /\ ~ready'[p] /\ ready'[q] = ready[q] /\ Side(p, q) /\ Side(q, p)
    BY Others DEF Waiting, Turn
  <1>1. /\ net'[p] = net[p] /\ net'[q] = Append(net[q], m) /\ Greeting(q)'
    BY SentInTurn
  <1>2. DlcOf(q)' /\ OutOf(q)' /\ SecretsAt(q)' /\ Forms(q)' /\ Forms(p)' /\ Greeting(p)'
    <2>1. DlcOf(q)' /\ OutOf(q)' /\ SecretsAt(q)'
      BY <1>0 DEF Side, Turn, DlcOf, OutOf, SecretsAt
    <2>2. Forms(q)' /\ Forms(p)' /\ Greeting(p)'
      BY <1>0, <1>1 DEF Side, Turn, Forms, Greeting
    <2> QED BY <2>1, <2>2
  <1>3. Cold(p, q)' /\ Cold(q, p)'
    BY <1>0 DEF Turn, Cold
  <1>4. Fresh(p, q)'
    <2>1. Tail(net[p]) = <<>> /\ net[p] # <<>> /\ net[p] \in Seq(Message)
      BY <1>0, TypeParts DEF Coming, Side, Greeting, NetTyped
    <2>2. Len(net[p]) # 2
      <3> DEFINE c == net[p]
      <3>1. c \in Seq(Message) /\ c # <<>> /\ Tail(c) = <<>>
        BY <2>1
      <3> HIDE DEF c
      <3>2. Len(Tail(c)) = Len(c) - 1 /\ Len(c) \in Nat
        BY <3>1, HeadTailProperties, LenProperties
      <3>3. Len(c) # 2
        <4>1. Len(Tail(c)) = 0
          BY <3>1, NoItems
        <4> QED BY <3>2, <4>1
      <3> QED BY <3>3 DEF c
    <2>3. Seen(p)' = Seen(p) /\ sub'[q] = sub[q]
      BY <1>0, <1>1 DEF Seen, Turn
    <2> QED BY <1>0, <1>1, <2>2, <2>3 DEF Fresh, Side
  <1>5. Fresh(q, p)'
    <2>1. SUFFICES ASSUME ~ready[q]
                   PROVE  Fresh(q, p)'
      BY <1>0 DEF Fresh
    <2>2. Tail(net[q]) = <<>> /\ net[q] # <<>> /\ net[q] \in Seq(Message)
      BY <1>0, <2>1, TypeParts DEF Coming, Side, Greeting, NetTyped
    <2>3. Len(Append(net[q], m)) = 2 /\ Append(net[q], m)[2] = m
      <3> DEFINE c == net[q]
      <3>1. c \in Seq(Message) /\ c # <<>> /\ Tail(c) = <<>>
        BY <2>2
      <3> HIDE DEF c
      <3>2. Len(Tail(c)) = Len(c) - 1 /\ Len(c) \in Nat
        BY <3>1, HeadTailProperties, LenProperties
      <3>3. Len(c) = 1
        <4>1. Len(Tail(c)) = 0
          BY <3>1, NoItems
        <4> QED BY <3>2, <4>1
      <3>4. Len(Append(c, m)) = 2 /\ Append(c, m)[2] = m
        <4>1. Len(Append(c, m)) = Len(c) + 1 /\ Append(c, m)[Len(c) + 1] = m
          BY <3>1, AppendProperties
        <4> QED BY <3>3, <4>1
      <3> QED BY <3>4 DEF c
    <2>4. sub'[q].st \in {"Offered", "CloseOffered"}
      BY <2>1 DEF Turn
    <2> QED BY <1>1, <2>3, <2>4 DEF Fresh
  <1> QED BY <1>0, <1>1, <1>2, <1>3, <1>4, <1>5 DEF Side

LEMMA ViewKeeps ==
    ASSUME TypeInv, NEW p \in Party
    PROVE  /\ View(p).isOffer = sub[p].isOffer /\ View(p).idx = sub[p].idx
           /\ View(p).split = sub[p].split
           /\ sub[p].st \notin {"Accepted", "Confirmed", "Finalized", "CloseAccepted", "CloseConfirmed"} =>
                View(p) = sub[p]
           /\ View(p).st = "Signed" => sub[p].st = "Signed"
  BY Fields, BackSubFields DEF View

LEMMA RejectOfferWaits ==
    ASSUME NEW p, NEW q, Waiting(p, q), RejectSubChannelOffer(p), ~torn'
    PROVE  Stable(p, q)'
  <1> DEFINE m == Msg("Reject")
  <1>0. /\ TypeInv /\ NetInv /\ p \in Party /\ q \in Party /\ q = Other(p) /\ conn /\ ~ready[p]
        /\ Either(p, q) /\ Side(p, q) /\ Side(q, p)
    BY Others DEF Waiting
  <1>1. m \in Message /\ m.type = "Reject"
    BY MsgTyped DEF MessageType
  <1>2. /\ Send(p, m) /\ UNCHANGED <<dlc, ln, actions, conn, ready>>
        /\ SetSub(p, [sub[p] EXCEPT !.st = "Rejected"]) /\ sub[p].st = "Offered" /\ ~sub[p].isOffer
        /\ ~Pending(p, "ReAccept")
    BY DEF RejectSubChannelOffer, actVars, In, Torn
  <1> HIDE DEF m
  <1>3. net'[p] = net[p]
    BY <1>0, Others, TypeParts, <1>2 DEF Send, NetTyped
  <1>4. /\ Turn(p, q) /\ DlcOf(p)' /\ OutOf(p)' /\ SecretsAt(p)'
        /\ sub'[p].st = "Rejected" /\ sub'[p].idx = sub[p].idx
        /\ View(p) = sub[p] /\ View(p)' = sub'[p] /\ Coming(p)' = Coming(p)
        /\ Doing(p) = Keep(actions[p]) /\ Doing(p)' = Keep(actions[p])
    BY <1>0, <1>2, <1>3, RejectViews DEF Side
  <1>5. View(q)' = View(q) /\ Doing(q)' = Doing(q) /\ Sent(q, m)
    BY <1>1, <1>2, <1>4, SentInTurn
  <1>6. OfferHeard(q, p)
    BY <1>0, <1>2, <1>4, WhereOffered DEF Offerer
  <1>7. Doing(p) = <<>>
    <2>1. Keep(actions[p]) = actions[p]
      BY <1>0 DEF Side, Forms
    <2>2. ~Just(actions[p], "ReAccept")
      BY <1>2 DEF Pending, Just
    <2> QED BY <1>4, <1>6, <2>1, <2>2 DEF OfferHeard, Maybe
  <1>8. OfferRejected(q, p)'
    BY <1>1, <1>4, <1>5, <1>6, <1>7 DEF OfferHeard, OfferRejected, Offerer, Sent, Quieted
  <1>9. /\ ~ready[q] => sub[q].st = "Offered"
        /\ sub[q].st = "Offered" => sub[q].isOffer
        /\ sub[q].st # "CloseOffered"
    <2>1. View(q).isOffer = sub[q].isOffer /\ (sub[q].st = "CloseOffered" => View(q) = sub[q])
      BY <1>0, ViewKeeps
    <2>2. ~ready[q] => sub[q].st = "Offered"
      BY <1>0, <1>2 DEF Side, Cold
    <2> QED BY <1>6, <2>1, <2>2 DEF OfferHeard, Offerer
  <1>10. Side(p, q)' /\ Side(q, p)'
    BY <1>1, <1>2, <1>4, <1>6, <1>9, RejectSides DEF OfferHeard, Quieted
  <1> QED BY <1>8, <1>10 DEF Stable, Stand, Stands

LEMMA RejectCloseWaits ==
    ASSUME NEW p, NEW q, Waiting(p, q), RejectSubChannelCloseOffer(p), ~torn'
    PROVE  Stable(p, q)'
  <1> DEFINE m == Msg("Reject")
  <1>0. /\ TypeInv /\ NetInv /\ p \in Party /\ q \in Party /\ q = Other(p) /\ conn /\ ~ready[p]
        /\ Either(p, q) /\ Side(p, q) /\ Side(q, p)
    BY Others DEF Waiting
  <1>1. m \in Message /\ m.type = "Reject"
    BY MsgTyped DEF MessageType
  <1>2. /\ Send(p, m) /\ UNCHANGED <<dlc, ln, actions, conn, ready>>
        /\ SetSub(p, [sub[p] EXCEPT !.st = "Signed"]) /\ sub[p].st = "CloseOffered" /\ ~sub[p].ours
        /\ ~Pending(p, "ReAcceptCloseOffer")
    BY DEF RejectSubChannelCloseOffer, actVars, In, Torn
  <1> HIDE DEF m
  <1>3. net'[p] = net[p]
    BY <1>0, Others, TypeParts, <1>2 DEF Send, NetTyped
  <1>4. /\ Turn(p, q) /\ DlcOf(p)' /\ OutOf(p)' /\ SecretsAt(p)'
        /\ sub'[p].st = "Signed" /\ sub'[p].idx = sub[p].idx /\ sub'[p].split = sub[p].split
        /\ View(p) = sub[p] /\ View(p)' = sub'[p] /\ Coming(p)' = Coming(p)
        /\ Doing(p) = Keep(actions[p]) /\ Doing(p)' = Keep(actions[p])
    BY <1>0, <1>2, <1>3, RejectViews DEF Side
  <1>5. View(q)' = View(q) /\ Doing(q)' = Doing(q) /\ Sent(q, m)
    BY <1>1, <1>2, <1>4, SentInTurn
  <1>6. CloseHeard(q, p)
    BY <1>0, <1>2, <1>4, WhereCloseOffered DEF Closer
  <1>7. Doing(p) = <<>>
    <2>1. Keep(actions[p]) = actions[p]
      BY <1>0 DEF Side, Forms
    <2>2. ~Just(actions[p], "ReAcceptCloseOffer")
      BY <1>2 DEF Pending, Just
    <2> QED BY <1>4, <1>6, <2>1, <2>2 DEF CloseHeard, Maybe
  <1>8. SameView(q, p)' /\ Closer(q)' /\ Signed(p)'
    BY <1>4, <1>5, <1>6 DEF CloseHeard, SameView, Closer, Signed
  <1>9. CloseRejected(q, p)'
    BY <1>1, <1>4, <1>5, <1>6, <1>7, <1>8 DEF CloseHeard, CloseRejected, Sent, Quieted
  <1>10. /\ ~ready[q] => sub[q].st = "CloseOffered"
         /\ sub[q].st = "CloseOffered" => sub[q].ours
         /\ sub[q].st # "Offered"
    <2>1. sub[q].st \in {"CloseOffered", "Offered"} => View(q) = sub[q]
      BY <1>0, ViewKeeps
    <2>2. ~ready[q] => sub[q].st = "CloseOffered"
      BY <1>0, <1>2 DEF Side, Cold
    <2> QED BY <1>6, <2>1, <2>2 DEF CloseHeard, Closer
  <1>11. Side(p, q)' /\ Side(q, p)'
    BY <1>1, <1>2, <1>4, <1>6, <1>10, RejectSides DEF CloseHeard, Quieted
  <1> QED BY <1>9, <1>11 DEF Stable, Stand, Stands

-----------------------------------------------------------------------------
(* The peers are not connected.                                            *)

Apart(p, q) ==
    /\ TypeInv /\ NetInv /\ p \in Party /\ q = Other(p) /\ ~conn
    /\ Side(p, q) /\ Side(q, p) /\ Stand(p, q)

LEMMA ApartParts ==
    ASSUME NEW p, NEW q, Apart(p, q)
    PROVE  /\ TypeInv /\ p \in Party /\ q \in Party /\ q = Other(p) /\ q # p /\ p = Other(q)
           /\ ~conn /\ ~ready[p] /\ ~ready[q] /\ net[p] = <<>> /\ net[q] = <<>>
           /\ Side(p, q) /\ Side(q, p) /\ Stand(p, q)
           /\ actions[p] \in Seq(Action) /\ actions[q] \in Seq(Action)
  <1>1. /\ TypeInv /\ NetInv /\ p \in Party /\ q \in Party /\ q = Other(p) /\ q # p /\ p = Other(q)
        /\ ~conn /\ Side(p, q) /\ Side(q, p) /\ Stand(p, q)
    BY Others DEF Apart
  <1> QED BY <1>1, DoingTyped DEF NetInv, Down

LEMMA StillApart ==
    ASSUME NEW p, NEW q, Apart(p, q), UNCHANGED <<sub, dlc, ln>>,
           ~conn', ~ready'[p], ~ready'[q], net'[p] = <<>>, net'[q] = <<>>,
           Keep(actions'[p]) = Keep(actions[p]), Keep(actions'[q]) = Keep(actions[q]),
           Forms(p)', Forms(q)'
    PROVE  Stable(p, q)'
  <1>0. /\ q = Other(p) /\ p = Other(q) /\ ~conn /\ ~ready[p] /\ ~ready[q]
        /\ net[p] = <<>> /\ net[q] = <<>> /\ Side(p, q) /\ Side(q, p) /\ Stand(p, q)
    BY ApartParts
  <1>1. Seen(p)' = Seen(p) /\ Seen(q)' = Seen(q)
    BY <1>0 DEF Seen
  <1>2. Same(p, q)
    BY <1>0, <1>1 DEF Same, View, Coming, Doing
  <1>3. Stand(p, q)'
    <2>1. Either(p, q) => Either(p, q)'
      BY <1>2, SameEither
    <2>2. /\ RevokeGone(p, q) => RevokeGone(p, q)'
          /\ RevokeGone(q, p) => RevokeGone(q, p)'
      BY DEF RevokeGone
    <2> QED BY <1>0, <2>1, <2>2 DEF Stand, Either
  <1>4. DlcOf(p)' /\ OutOf(p)' /\ SecretsAt(p)' /\ DlcOf(q)' /\ OutOf(q)' /\ SecretsAt(q)'
    BY <1>0 DEF Side, DlcOf, OutOf, SecretsAt
  <1>5. Cold(p, q)' /\ Cold(q, p)' /\ Fresh(p, q)' /\ Fresh(q, p)' /\ Greeting(p)' /\ Greeting(q)'
    BY <1>0 DEF Side, Cold, Fresh, Greeting
  <1> QED BY <1>3, <1>4, <1>5 DEF Stable, Side

(* What is sent again without a connection is lost.                        *)
LEMMA ProcessApart ==
    ASSUME NEW p, NEW q, Apart(p, q), ProcessActions(p), ln[p].open
    PROVE  Stable(p, q)'
  <1> DEFINE a == actions[p][1]
  <1>0. /\ TypeInv /\ p \in Party /\ q \in Party /\ q = Other(p)
        /\ ~conn /\ ~ready[p] /\ ~ready[q] /\ net[p] = <<>> /\ net[q] = <<>>
        /\ Side(p, q) /\ Side(q, p)
    BY ApartParts
  <1>1. actions[p] # <<>> => Listed(actions[p])
    <2> DEFINE s == actions[p]
    <2>1. s \in Seq(Action)
      BY ApartParts
    <2>2. Len(s) \in {0, 1} \/ Pair(s, "ResendCloseFinalize", "ResendOffer")
      BY <1>0 DEF Side, Forms
    <2> HIDE DEF s
    <2>3. Len(s) \in Nat /\ (s # <<>> => Len(s) # 0)
      BY <2>1, EmptySeq, LenProperties
    <2>4. s # <<>> => Listed(s)
      BY <2>2, <2>3 DEF Listed
    <2> QED BY <2>4 DEF s
  <1>2. /\ actions[p] # <<>> /\ a \in Action /\ Perform(p, a)
        /\ Len(actions[p]) = 1 => actions'[p] = <<>>
        /\ Len(actions[p]) # 1 => Just(actions'[p], "ResendOffer")
        /\ actions'[q] = actions[q] /\ UNCHANGED <<conn, ready>>
    BY <1>0, <1>1, FirstDone
  <1>3. a.type \in {"ResendOffer", "ResendCloseOffer", "ResendCloseFinalize"}
        /\ UNCHANGED <<sub, dlc, ln, net>>
    <2>1. ~Usable(p)
      BY <1>0 DEF Usable
    <2> QED BY <1>0, <1>2, <2>1
            DEF Perform, Action, CanAccept, CanAcceptClose, Resend, Send, subVars
  <1>4. Keep(actions'[p]) = <<>> /\ Keep(actions[p]) = <<>>
    BY <1>2, <1>3, NoItems DEF Keep, Just
  <1>5. Forms(p)' /\ Forms(q)'
    <2>1. Len(actions'[p]) \in {0, 1}
      <3>1. Len(actions'[p]) = 0 \/ Len(actions'[p]) = 1
        BY <1>2, NoItems DEF Just
      <3> QED BY <3>1
    <2> QED BY <1>0, <1>2, <2>1 DEF Side, Forms
  <1> QED BY <1>0, <1>2, <1>3, <1>4, <1>5, StillApart

LEMMA RejectCloseApart ==
    ASSUME NEW p, NEW q, Apart(p, q), RejectSubChannelCloseOffer(p), ~torn'
    PROVE  Stable(p, q)'
  <1>0. /\ TypeInv /\ p \in Party /\ q \in Party /\ q = Other(p) /\ p = Other(q)
        /\ ~conn /\ ~ready[p] /\ ~ready[q] /\ net[p] = <<>> /\ net[q] = <<>>
        /\ Side(p, q) /\ Side(q, p) /\ Stand(p, q)
        /\ actions[p] \in Seq(Action) /\ actions[q] \in Seq(Action)
    BY ApartParts
  <1>1. /\ UNCHANGED <<dlc, ln, actions, conn, ready, net>>
        /\ SetSub(p, [sub[p] EXCEPT !.st = "Signed"]) /\ sub[p].st = "CloseOffered" /\ ~sub[p].ours
        /\ ~Pending(p, "ReAcceptCloseOffer")
    BY <1>0 DEF RejectSubChannelCloseOffer, actVars, In, Torn, Send
  <1>2. /\ Turn(p, q) /\ DlcOf(p)' /\ OutOf(p)' /\ SecretsAt(p)'
        /\ sub'[p].st = "Signed" /\ sub'[p].idx = sub[p].idx /\ sub'[p].split = sub[p].split
        /\ View(p) = sub[p] /\ View(p)' = sub'[p] /\ Coming(p)' = Coming(p)
        /\ Doing(p) = Keep(actions[p]) /\ Doing(p)' = Keep(actions[p])
    BY <1>0, <1>1, RejectViews DEF Side
  <1>3. CloseHeard(q, p)
    <2>1. Either(p, q)
      BY <1>0, <1>1 DEF Stand, Either, RevokeGone
    <2> QED BY <1>1, <1>2, <2>1, WhereCloseOffered DEF Closer
  <1>4. Doing(p) = <<>>
    <2>1. ~Just(actions[p], "ReAcceptCloseOffer")
      BY <1>1 DEF Pending, Just
    <2> QED BY <1>2, <1>3, <2>1 DEF CloseHeard, Maybe, Keep
  <1>5. sub[q].st = "CloseOffered" /\ View(q) = sub[q] /\ sub[q].ours /\ sub[q] \in SubChannelRecord
    <2>1. sub[q].st = "CloseOffered"
      BY <1>0, <1>1 DEF Side, Cold
    <2> QED BY <1>0, <1>3, <2>1, ViewKeeps, Fields DEF CloseHeard, Closer
  <1>6. Keep(actions[q]) = <<>>
    <2>1. Keep(actions[q]) \o BackList(q, sub[q], Seen(q)) = <<>>
      BY <1>0, <1>3 DEF CloseHeard, Quieted, Doing
    <2>2. BackList(q, sub[q], Seen(q)) = <<>>
      <3>1. Seen(q) = "CloseOffered"
        BY <1>0, <1>1 DEF Seen, GetReestablishFlag, ReestablishFlag
      <3> QED BY <1>5, <3>1 DEF BackList
    <2> QED BY <1>0, <2>1, <2>2, KeepAlone
  <1>7. Seen(q)' = "Signed" /\ sub'[q] = sub[q]
    BY <1>0, <1>1, <1>2 DEF Seen, GetReestablishFlag, ReestablishFlag, Turn
  <1>8. View(q)' = sub[q] /\ Doing(q)' = <<Act("ResendCloseOffer", NoPoint, sub[q].balance)>>
    <2> DEFINE x == Act("ResendCloseOffer", NoPoint, sub[q].balance)
    <2>1. BackSub(q, sub[q], "Signed") = sub[q] /\ BackList(q, sub[q], "Signed") = <<x>>
      BY <1>5 DEF BackSub, BackList
    <2>2. <<>> \o <<x>> = <<x>>
      BY JoinTwo
    <2> HIDE DEF x
    <2>3. View(q)' = sub[q] /\ Doing(q)' = <<x>>
      BY <1>0, <1>1, <1>6, <1>7, <2>1, <2>2 DEF View, Doing
    <2> QED BY <2>3 DEF x
  <1>9. Just(Doing(q)', "ResendCloseOffer") /\ Doing(q)'[1].balance = sub[q].balance
    BY <1>8 DEF Just, Act
  <1>10. SameView(q, p)' /\ Closer(q)' /\ Signed(p)'
    BY <1>2, <1>3, <1>5, <1>8 DEF CloseHeard, SameView, Closer, Signed
  <1>11. CloseDue(q, p)'
    BY <1>0, <1>1, <1>2, <1>4, <1>8, <1>9, <1>10 DEF CloseDue, Coming
  <1>12. Side(p, q)' /\ Side(q, p)'
    <2>1. DlcOf(q)' /\ OutOf(q)' /\ SecretsAt(q)'
      BY <1>0, <1>1, <1>7 DEF Side, DlcOf, OutOf, SecretsAt
    <2>2. Forms(p)' /\ Forms(q)' /\ Greeting(p)' /\ Greeting(q)' /\ Fresh(p, q)' /\ Fresh(q, p)'
      BY <1>0, <1>1 DEF Side, Forms, Greeting, Fresh
    <2>3. Cold(p, q)' /\ Cold(q, p)'
      BY <1>2, <1>5, <1>7 DEF Cold
    <2> QED BY <1>2, <2>1, <2>2, <2>3 DEF Side
  <1> QED BY <1>11, <1>12 DEF Stable, Stand, Stands

LEMMA OneItem ==
    ASSUME NEW x
    PROVE  <<x>> # <<>> /\ Head(<<x>>) = x /\ Len(<<x>>) = 1 /\ Tail(<<x>>) = <<>>
  <1> DEFINE s == <<x>>
  <1>1. s \in Seq({x}) /\ Len(s) = 1 /\ s[1] = x
    OBVIOUS
  <1> HIDE DEF s
  <1>2. s # <<>> /\ Head(s) = s[1] /\ Tail(s) = <<>>
    BY <1>1, JustTail
  <1> QED BY <1>1, <1>2 DEF s

LEMMA Reconnects ==
    ASSUME NEW p, NEW q, Apart(p, q), Reconnect, ~torn', ln[p].open, ln[q].open
    PROVE  Stable(p, q)'
  <1>0. /\ TypeInv /\ p \in Party /\ q \in Party /\ q = Other(p) /\ p = Other(q) /\ q # p
        /\ ~conn /\ ~ready[p] /\ ~ready[q] /\ net[p] = <<>> /\ net[q] = <<>>
        /\ Side(p, q) /\ Side(q, p) /\ Stand(p, q)
        /\ actions[p] \in Seq(Action) /\ actions[q] \in Seq(Action)
    BY ApartParts
  <1> DEFINE hail(x) == [Msg("Reestablish") EXCEPT !.flag = GetReestablishFlag(sub[Other(x)])]
  <1>1. /\ conn' /\ UNCHANGED <<sub, dlc, ln, actions, ready>>
        /\ ~RevokeLost /\ ~RepeatPending(p) /\ ~RepeatPending(q)
    BY <1>0 DEF Reconnect, subVars, actVars, Torn
  <1>2. ASSUME NEW x \in {p, q}
        PROVE  net'[x] = <<hail(x)>> /\ hail(x).type = "Reestablish"
               /\ hail(x).flag = GetReestablishFlag(sub[Other(x)])
    <2>1. x \in Party /\ ln[Other(x)].open
      BY <1>0, <1>2
    <2>2. net'[x] = <<hail(x)>>
      BY <2>1 DEF Reconnect
    <2>3. GetReestablishFlag(sub[Other(x)]) \in ReestablishFlag \cup {"none"}
      BY DEF GetReestablishFlag
    <2> DEFINE f == GetReestablishFlag(sub[Other(x)])
    <2> HIDE DEF f
    <2>4. [Msg("Reestablish") EXCEPT !.flag = f].type = "Reestablish"
          /\ [Msg("Reestablish") EXCEPT !.flag = f].flag = f
      BY DEF Msg
    <2> QED BY <2>2, <2>4 DEF f
  <1> HIDE DEF hail
  <1>3. ASSUME NEW x \in {p, q}
        PROVE  /\ net'[x] # <<>> /\ Head(net'[x]).type = "Reestablish" /\ Len(net'[x]) = 1
               /\ Seen(x)' = Seen(x) /\ Coming(x)' = <<>> /\ Coming(x) = <<>>
               /\ Seen(x)' = GetReestablishFlag(sub[Other(x)])
    <2>1. /\ net'[x] # <<>> /\ Head(net'[x]) = hail(x) /\ Len(net'[x]) = 1 /\ Tail(net'[x]) = <<>>
      BY <1>2, <1>3, OneItem
    <2> QED BY <1>0, <1>1, <1>2, <1>3, <2>1 DEF Seen, Coming
  <1>4. Same(p, q)
    <2>1. View(p)' = View(p) /\ Doing(p)' = Doing(p)
      BY <1>0, <1>1, <1>3 DEF View, Doing
    <2>2. View(q)' = View(q) /\ Doing(q)' = Doing(q)
      BY <1>0, <1>1, <1>3 DEF View, Doing
    <2> QED BY <1>3, <2>1, <2>2 DEF Same
  <1>5. Either(p, q)
    BY <1>0, <1>1 DEF Stand, Either, RevokeGone, RevokeLost, In
  <1>6. Either(p, q)'
    BY <1>4, <1>5, SameEither
  <1>7. ASSUME NEW x \in {p, q}
        PROVE  Keep(actions[x]) = actions[x]
    <2> DEFINE s == actions[x]
    <2>1. s \in Seq(Action) /\ ~RepeatPending(x)
      BY <1>0, <1>1, <1>7
    <2>2. Len(s) \in {0, 1} \/ Pair(s, "ResendCloseFinalize", "ResendOffer")
      BY <1>0, <1>7 DEF Side, Forms
    <2>3. \A i \in 1 .. Len(s) : s[i].type \in {"ReAccept", "ReAcceptCloseOffer"}
      <3>1. SUFFICES ASSUME NEW i \in 1 .. Len(s)
                     PROVE  s[i].type \in {"ReAccept", "ReAcceptCloseOffer"}
        OBVIOUS
      <3>2. s[i] \in Action
        BY <2>1
      <3>3. s[i].type \notin {"ResendOffer", "ResendCloseOffer", "ResendCloseFinalize", "ForceSign"}
        BY <2>1 DEF RepeatPending, Pending
      <3> QED BY <3>2, <3>3 DEF Action
    <2> HIDE DEF s
    <2>4. Len(s) \in Nat /\ (Len(s) = 0 => s = <<>>)
      BY <2>1, EmptySeq, LenProperties
    <2>5. Len(s) # 2
      <3>1. SUFFICES ASSUME Len(s) = 2
                     PROVE  FALSE
        OBVIOUS
      <3>2. s[1].type = "ResendCloseFinalize"
        BY <2>2, <3>1 DEF Pair
      <3>3. s[1].type \in {"ReAccept", "ReAcceptCloseOffer"}
        BY <2>3, <3>1
      <3> QED BY <3>2, <3>3
    <2>6. s = <<>> \/ Just(s, "ReAccept") \/ Just(s, "ReAcceptCloseOffer")
      <3>1. Len(s) = 0 \/ Len(s) = 1
        BY <2>2, <2>4, <2>5 DEF Pair
      <3>2. Len(s) = 1 => s[1].type \in {"ReAccept", "ReAcceptCloseOffer"}
        BY <2>3
      <3> QED BY <2>4, <3>1, <3>2 DEF Just
    <2>7. Keep(s) = s
      BY <2>6 DEF Keep
    <2> QED BY <2>7 DEF s
  <1>8. Side(p, q)' /\ Side(q, p)'
    <2>1. DlcOf(p)' /\ OutOf(p)' /\ SecretsAt(p)' /\ DlcOf(q)' /\ OutOf(q)' /\ SecretsAt(q)'
      BY <1>0, <1>1 DEF Side, DlcOf, OutOf, SecretsAt
    <2>2. Cold(p, q)' /\ Cold(q, p)'
      BY <1>0, <1>1 DEF Side, Cold
    <2>3. Greeting(p)' /\ Greeting(q)' /\ Forms(p)' /\ Forms(q)'
      BY <1>1, <1>3, <1>7 DEF Greeting, Forms
    <2>4. Fresh(p, q)' /\ Fresh(q, p)'
      BY <1>0, <1>1, <1>3 DEF Fresh
    <2> QED BY <2>1, <2>2, <2>3, <2>4 DEF Side
  <1> QED BY <1>6, <1>8 DEF Stable, Stand, Either

-----------------------------------------------------------------------------
(* The connection of two peers that handled each other's reestablish       *)
(* messages is lost: what was under way is taken back or done again.       *)

Lost(p, q) ==
    /\ Coming(p)' = <<>> /\ Coming(q)' = <<>>
    /\ View(p)' = BackSub(p, View(p), GetReestablishFlag(View(q)))
    /\ View(q)' = BackSub(q, View(q), GetReestablishFlag(View(p)))
    /\ Doing(p)' = Keep(Doing(p)) \o BackList(p, View(p), GetReestablishFlag(View(q)))
    /\ Doing(q)' = Keep(Doing(q)) \o BackList(q, View(q), GetReestablishFlag(View(p)))
Losing(p, q) ==
    /\ p \in Party /\ q \in Party /\ q = Other(p) /\ p = Other(q) /\ Lost(p, q)
    /\ View(p) \in SubChannelRecord /\ View(q) \in SubChannelRecord
    /\ Doing(p) \in Seq(Action) /\ Doing(q) \in Seq(Action)

LEMMA EmptyBack ==
    ASSUME NEW p, NEW s, NEW flag
    PROVE  <<>> \o BackList(p, s, flag) = BackList(p, s, flag)
  <1> DEFINE b == BackList(p, s, flag)
  <1>1. b = <<>> \/ (\E x : b = <<x>>) \/ (\E x, y : b = <<x, y>>)
    BY DEF BackList, ReAccept
  <1>2. \E S : b \in Seq(S)
    <2> HIDE DEF b
    <2>1. ASSUME NEW x, b = <<x>>
          PROVE  b \in Seq({x})
      BY <2>1
    <2>2. ASSUME NEW x, NEW y, b = <<x, y>>
          PROVE  b \in Seq({x, y})
      BY <2>2
    <2>3. b = <<>> => b \in Seq({})
      OBVIOUS
    <2> QED BY <1>1, <2>1, <2>2, <2>3
  <1> HIDE DEF b
  <1>3. <<>> \o b = b
    BY <1>2, ConcatEmptySeq
  <1> QED BY <1>3 DEF b

LEMMA KeepWhich ==
    ASSUME NEW a
    PROVE  /\ a = <<>> => Keep(a) = <<>>
           /\ Len(a) = 2 => Keep(a) = <<>>
           /\ a[1].type \notin {"ReAccept", "ReAcceptCloseOffer"} => Keep(a) = <<>>
           /\ \A type \in {"ReAccept", "ReAcceptCloseOffer"} : Maybe(a, type) => Keep(a) = a
  BY DEF Keep, Just, Maybe

(* A party with nothing that survives does what its state says.            *)
LEMMA LostDoing ==
    ASSUME NEW p, NEW q, Losing(p, q), Keep(Doing(p)) = <<>>
    PROVE  Doing(p)' = BackList(p, View(p), GetReestablishFlag(View(q)))
  BY EmptyBack DEF Losing, Lost

LEMMA LostSilent ==
    ASSUME NEW p, NEW q, Losing(p, q),
           BackList(p, View(p), GetReestablishFlag(View(q))) = <<>>
    PROVE  Doing(p)' = Keep(Doing(p))
  BY KeepAlone DEF Losing, Lost

LEMMA LosingBothWays ==
    ASSUME NEW p, NEW q, Losing(p, q)
    PROVE  Losing(q, p)
  BY DEF Losing, Lost

(* Nothing is taken back in these states.                                  *)
Unrepaired == {"None", "Rejected", "Offered", "Signed", "CloseOffered", "OffChainClosed"}
LEMMA LostUnrepaired ==
    ASSUME NEW p, NEW q, Losing(p, q), View(p).st \in Unrepaired
    PROVE  View(p)' = View(p)
  BY DEF Losing, Lost, BackSub, Unrepaired

LEMMA LostOffer ==
    ASSUME NEW p, NEW q, Losing(p, q),
           AtRest(p, q) \/ OfferDue(p, q) \/ OfferHeard(p, q) \/ OffersCross(p, q)
    PROVE  Stands(p, q)'
  <1>1. CASE AtRest(p, q)
    <2>1. View(p)' = View(p) /\ View(q)' = View(q)
      BY <1>1, LostUnrepaired, LosingBothWays DEF AtRest, CanOffer, Unrepaired
    <2>2. /\ BackList(p, View(p), GetReestablishFlag(View(q))) = <<>>
          /\ BackList(q, View(q), GetReestablishFlag(View(p))) = <<>>
      BY <1>1 DEF AtRest, CanOffer, BackList, GetReestablishFlag, ReestablishFlag
    <2>3. Doing(p)' = <<>> /\ Doing(q)' = <<>>
      BY <1>1, <2>2, LostSilent, LosingBothWays, KeepWhich DEF AtRest, Quieted
    <2>4. AtRest(p, q)'
      BY <1>1, <2>1, <2>3 DEF AtRest, Quieted, Losing, Lost
    <2> QED BY <2>4 DEF Stands
  <1>2. CASE OfferDue(p, q)
    <2>1. View(p)' = View(p) /\ View(q)' = View(q)
      BY <1>2, LostUnrepaired, LosingBothWays DEF OfferDue, CanOffer, Unrepaired, Offerer
    <2>2. BackList(q, View(q), GetReestablishFlag(View(p))) = <<>>
      BY <1>2 DEF OfferDue, Offerer, CanOffer, BackList, GetReestablishFlag, ReestablishFlag
    <2>3. Doing(q)' = <<>>
      BY <1>2, <2>2, LostSilent, LosingBothWays, KeepWhich DEF OfferDue
    <2>4. Keep(Doing(p)) = <<>>
      BY <1>2, KeepWhich DEF OfferDue, Just
    <2>5. GetReestablishFlag(View(q)) \in {"none", "OffChainClosed"}
      BY <1>2 DEF OfferDue, CanOffer, GetReestablishFlag, ReestablishFlag
    <2>6. Doing(p)' = <<Act("ResendOffer", View(p).point, 0)>>
      <3>1. Doing(p)' = BackList(p, View(p), GetReestablishFlag(View(q)))
        BY <2>4, LostDoing
      <3> QED BY <1>2, <2>5, <3>1 DEF OfferDue, Offerer, BackList
    <2>7. Just(Doing(p)', "ResendOffer") /\ Doing(p)'[1].point = View(p).point
      BY <2>6 DEF Just, Act
    <2>8. OfferDue(p, q)'
      BY <1>2, <2>1, <2>3, <2>7 DEF OfferDue, Offerer, Losing, Lost
    <2> QED BY <2>8 DEF Stands
  <1>3. CASE OfferHeard(p, q)
    <2>1. View(p)' = View(p) /\ View(q)' = View(q)
      BY <1>3, LostUnrepaired, LosingBothWays DEF OfferHeard, Unrepaired, Offerer
    <2>2. /\ BackList(p, View(p), GetReestablishFlag(View(q))) = <<>>
          /\ BackList(q, View(q), GetReestablishFlag(View(p))) = <<>>
      BY <1>3 DEF OfferHeard, Offerer, BackList, GetReestablishFlag, ReestablishFlag
    <2>3. Doing(p)' = <<>> /\ Doing(q)' = Doing(q)
      BY <1>3, <2>2, LostSilent, LosingBothWays, KeepWhich DEF OfferHeard, Quieted
    <2>4. OfferHeard(p, q)'
      BY <1>3, <2>1, <2>3 DEF OfferHeard, Offerer, Quieted, Losing, Lost
    <2> QED BY <2>4 DEF Stands
  <1>4. CASE OffersCross(p, q)
    <2>1. View(p)' = View(p) /\ View(q)' = View(q)
      BY <1>4, LostUnrepaired, LosingBothWays DEF OffersCross, Unrepaired, Offerer
    <2>2. /\ BackList(p, View(p), GetReestablishFlag(View(q))) = <<>>
          /\ BackList(q, View(q), GetReestablishFlag(View(p))) = <<>>
      BY <1>4 DEF OffersCross, Offerer, BackList, GetReestablishFlag, ReestablishFlag
    <2>3. Keep(Doing(p)) = <<>> /\ Keep(Doing(q)) = <<>>
      BY <1>4, KeepWhich DEF OffersCross, Maybe, Just
    <2>4. Doing(p)' = <<>> /\ Doing(q)' = <<>>
      BY <2>2, <2>3, LostSilent, LosingBothWays
    <2>5. OffersCross(p, q)'
      BY <1>4, <2>1, <2>4, NoItems DEF OffersCross, Offerer, Maybe, Losing, Lost
    <2> QED BY <2>5 DEF Stands
  <1> QED BY <1>1, <1>2, <1>3, <1>4

LEMMA LostSplit ==
    ASSUME NEW p, NEW q, Losing(p, q),
           AcceptDue(p, q) \/ ConfirmDue(p, q) \/ FinalizeDue(p, q)
    PROVE  Stands(p, q)'
  <1> DEFINE n == View(p).idx
  <1>0. /\ n \in Nat /\ View(p) \in SubChannelRecord /\ View(q) \in SubChannelRecord
        /\ p \in Party /\ q \in Party /\ q = Other(p) /\ p = Other(q)
    BY DEF Losing, SubChannelRecord, Index
  <1>1. View(q).idx = n /\ ~View(q).isOffer /\ Doing(p) = <<>> /\ Doing(q) = <<>>
        /\ View(q).split = At(p, q, n)
    BY DEF AcceptDue, ConfirmDue, FinalizeDue, SplitDue
  <1>2. /\ At(p, q, n).offer = PerSplitPoint(p, n) /\ OwnPoint(p, At(p, q, n)) = PerSplitPoint(p, n)
        /\ CounterPoint(q, At(p, q, n)) = PerSplitPoint(p, n)
    <2>1. OwnPoint(p, At(p, q, n)) = PerSplitPoint(p, n)
      BY <1>0, AtPoints
    <2>2. CounterPoint(q, At(p, q, n)) = PerSplitPoint(p, n)
      BY <1>0, AtPoints
    <2> QED BY <2>1, <2>2 DEF At
  <1>3. Offerer(p)' /\ View(p)'.idx = n /\ Doing(p)' = <<>> /\ View(p)'.point = PerSplitPoint(p, n)
    <2>1. Keep(Doing(p)) = <<>>
      BY <1>1, KeepWhich
    <2>2. CASE AcceptDue(p, q)
      <3>1. View(p)' = View(p)
        BY <2>2, LostUnrepaired DEF AcceptDue, Offerer, Unrepaired
      <3>2. BackList(p, View(p), GetReestablishFlag(View(q))) = <<>>
        BY <2>2 DEF AcceptDue, Offerer, BackList, GetReestablishFlag, ReestablishFlag
      <3>3. Doing(p)' = <<>>
        BY <2>1, <3>2, LostSilent
      <3> QED BY <2>2, <3>1, <3>3 DEF AcceptDue, Offerer
    <2>3. CASE ConfirmDue(p, q) \/ FinalizeDue(p, q)
      <3>1. View(p).st = "Confirmed" /\ View(p).isOffer /\ View(p).split = At(p, q, n)
        BY <2>3 DEF ConfirmDue, FinalizeDue, SplitDue
      <3>2. View(p)' = OfferedBack(View(p), PerSplitPoint(p, n))
        BY <1>2, <3>1 DEF Losing, Lost, BackSub
      <3>3. BackList(p, View(p), GetReestablishFlag(View(q))) = <<>>
        BY <3>1 DEF BackList
      <3>4. Doing(p)' = <<>>
        BY <2>1, <3>3, LostSilent
      <3> DEFINE s == View(p)
                 pt == PerSplitPoint(p, n)
      <3>5. s \in SubChannelRecord
        BY <1>0
      <3> HIDE DEF s, pt
      <3>6. LET t == OfferedBack(s, pt) IN
            t.st = "Offered" /\ t.isOffer = s.isOffer /\ t.point = pt /\ t.idx = s.idx
        BY <3>5 DEF OfferedBack, SubChannelRecord
      <3> USE DEF s, pt
      <3>7. LET t == View(p)' IN
            t.st = "Offered" /\ t.isOffer /\ t.point = PerSplitPoint(p, n) /\ t.idx = n
        BY <3>1, <3>2, <3>6
      <3> QED BY <3>4, <3>7 DEF Offerer
    <2> QED BY <2>2, <2>3
  <1>4. /\ View(q)' = OfferedBack(View(q), PerSplitPoint(p, n)) /\ Doing(q)' = ReAccept
    <2>0. Doing(q)' = BackList(q, View(q), GetReestablishFlag(View(p)))
      BY <1>1, KeepWhich, LostDoing, LosingBothWays
    <2>1. CASE View(q).st = "Accepted"
      <3>1. View(q)' = OfferedBack(View(q), View(q).split.offer)
        BY <2>1 DEF Losing, Lost, BackSub
      <3>2. Doing(q)' = ReAccept
        BY <2>0, <2>1 DEF BackList
      <3> QED BY <1>1, <1>2, <3>1, <3>2
    <2>2. CASE View(q).st = "Finalized"
      <3>1. GetReestablishFlag(View(p)) = "Confirmed"
        BY <2>2 DEF AcceptDue, ConfirmDue, FinalizeDue, SplitDue, GetReestablishFlag, ReestablishFlag
      <3>2. View(q)' = OfferedBack(View(q), CounterPoint(q, View(q).split))
        BY <2>2, <3>1 DEF Losing, Lost, BackSub
      <3>3. Doing(q)' = ReAccept
        BY <2>0, <2>2, <3>1 DEF BackList
      <3> QED BY <1>1, <1>2, <3>2, <3>3
    <2> QED BY <2>1, <2>2 DEF AcceptDue, ConfirmDue, FinalizeDue
  <1>5. LET t == View(q)' IN
        t.st = "Offered" /\ t.isOffer = View(q).isOffer /\ t.point = PerSplitPoint(p, n) /\ t.idx = n
    <2> DEFINE s == View(q)
               pt == PerSplitPoint(p, n)
    <2>1. s \in SubChannelRecord
      BY <1>0
    <2> HIDE DEF s, pt
    <2>2. LET t == OfferedBack(s, pt) IN
          t.st = "Offered" /\ t.isOffer = s.isOffer /\ t.point = pt /\ t.idx = s.idx
      BY <2>1 DEF OfferedBack, SubChannelRecord
    <2> USE DEF s, pt
    <2> QED BY <1>1, <1>4, <2>2
  <1>6. Just(Doing(q)', "ReAccept")
    BY <1>4 DEF ReAccept, Just, Act
  <1>7. OfferHeard(p, q)'
    BY <1>1, <1>3, <1>5, <1>6 DEF OfferHeard, Quieted, Maybe, Losing, Lost
  <1> QED BY <1>7 DEF Stands

LEMMA LostSigned ==
    ASSUME NEW p, NEW q, Losing(p, q),
           \/ RevokeDue(p, q) /\ Signed(p)
           \/ BothSigned(p, q) \/ CloseDue(p, q) \/ CloseHeard(p, q) \/ CloseRejected(p, q)
           \/ ClosesCross(p, q)
    PROVE  Stands(p, q)'
  <1>0. Losing(q, p) /\ Coming(p)' = <<>> /\ Coming(q)' = <<>>
    BY LosingBothWays DEF Losing, Lost
  <1>1. View(p)' = View(p)
    BY LostUnrepaired
       DEF RevokeDue, BothSigned, CloseDue, CloseHeard, CloseRejected, ClosesCross, Signed, Closer,
           Unrepaired
  <1>2. View(q)' = View(q)
    <2>1. CASE RevokeDue(p, q) /\ Signed(p)
      <3>1. View(q).st = "Finalized" /\ GetReestablishFlag(View(p)) = "Signed"
        BY <2>1 DEF RevokeDue, Signed, GetReestablishFlag, ReestablishFlag
      <3> QED BY <3>1 DEF Losing, Lost, BackSub
    <2>2. CASE BothSigned(p, q) \/ CloseDue(p, q) \/ CloseHeard(p, q) \/ CloseRejected(p, q)
               \/ ClosesCross(p, q)
      BY <1>0, <2>2, LostUnrepaired
         DEF BothSigned, CloseDue, CloseHeard, CloseRejected, ClosesCross, Signed, Closer, Unrepaired
    <2> QED BY <2>1, <2>2
  <1>3. /\ SameView(p, q)' <=> SameView(p, q)
        /\ Closer(p)' <=> Closer(p)
        /\ Closer(q)' <=> Closer(q)
        /\ Signed(p)' <=> Signed(p)
        /\ Signed(q)' <=> Signed(q)
    BY <1>1, <1>2 DEF SameView, Closer, Signed
  <1>4. CASE RevokeDue(p, q) /\ Signed(p)
    <2>1. /\ BackList(p, View(p), GetReestablishFlag(View(q))) = <<>>
          /\ BackList(q, View(q), GetReestablishFlag(View(p))) = <<Act("ForceSign", NoPoint, 0)>>
      BY <1>4 DEF RevokeDue, Signed, BackList, GetReestablishFlag, ReestablishFlag
    <2>2. Keep(Doing(p)) = <<>> /\ Keep(Doing(q)) = <<>>
      BY <1>4, KeepWhich DEF RevokeDue, Quieted, Just, Signed, Closer
    <2>3. Doing(p)' = <<>> /\ Doing(q)' = <<Act("ForceSign", NoPoint, 0)>>
      BY <1>0, <2>1, <2>2, LostDoing
    <2>4. Just(Doing(q)', "ForceSign")
      BY <2>3 DEF Just, Act
    <2>5. RevokeDue(p, q)'
      BY <1>0, <1>1, <1>2, <1>3, <1>4, <2>3, <2>4 DEF RevokeDue, Quieted
    <2> QED BY <2>5 DEF Stands
  <1>5. CASE BothSigned(p, q)
    <2>1. /\ BackList(p, View(p), GetReestablishFlag(View(q))) = <<>>
          /\ BackList(q, View(q), GetReestablishFlag(View(p))) = <<>>
      BY <1>5 DEF BothSigned, Signed, BackList
    <2>2. Doing(p)' = <<>> /\ Doing(q)' = <<>>
      BY <1>0, <1>5, <2>1, LostSilent, KeepWhich DEF BothSigned, Quieted
    <2>3. BothSigned(p, q)'
      BY <1>0, <1>3, <1>5, <2>2 DEF BothSigned, Quieted
    <2> QED BY <2>3 DEF Stands
  <1>6. CASE \/ CloseDue(p, q)
             \/ CloseRejected(p, q) /\ Signed(q)
    <2>1. /\ BackList(q, View(q), GetReestablishFlag(View(p))) = <<>>
          /\ BackList(p, View(p), GetReestablishFlag(View(q))) =
               <<Act("ResendCloseOffer", NoPoint, View(p).balance)>>
      BY <1>6 DEF CloseDue, CloseRejected, Closer, Signed, BackList, GetReestablishFlag, ReestablishFlag
    <2>2. Keep(Doing(p)) = <<>> /\ Keep(Doing(q)) = <<>>
      BY <1>6, KeepWhich DEF CloseDue, CloseRejected, Just
    <2>3. Doing(q)' = <<>> /\ Doing(p)' = <<Act("ResendCloseOffer", NoPoint, View(p).balance)>>
      BY <1>0, <2>1, <2>2, LostDoing
    <2>4. Just(Doing(p)', "ResendCloseOffer") /\ Doing(p)'[1].balance = View(p).balance
      BY <2>3 DEF Just, Act
    <2>5. Closer(p) /\ Signed(q) /\ SameView(p, q)
      BY <1>6 DEF CloseDue, CloseRejected
    <2>6. CloseDue(p, q)'
      BY <1>0, <1>1, <1>3, <2>3, <2>4, <2>5 DEF CloseDue
    <2> QED BY <2>6 DEF Stands
  <1>7. CASE CloseHeard(p, q)
    <2>1. /\ BackList(p, View(p), GetReestablishFlag(View(q))) = <<>>
          /\ BackList(q, View(q), GetReestablishFlag(View(p))) = <<>>
      BY <1>7 DEF CloseHeard, Closer, BackList, GetReestablishFlag, ReestablishFlag
    <2>2. Doing(p)' = <<>> /\ Doing(q)' = Doing(q)
      BY <1>0, <1>7, <2>1, LostSilent, KeepWhich DEF CloseHeard, Quieted
    <2>3. CloseHeard(p, q)'
      BY <1>0, <1>1, <1>2, <1>3, <1>7, <2>2 DEF CloseHeard, Quieted
    <2> QED BY <2>3 DEF Stands
  <1>8. CASE \/ ClosesCross(p, q)
             \/ CloseRejected(p, q) /\ ~Signed(q)
    <2>1. Closer(p) /\ Closer(q) /\ SameView(p, q)
      BY <1>8 DEF ClosesCross, CloseRejected
    <2>2. /\ BackList(p, View(p), GetReestablishFlag(View(q))) = <<>>
          /\ BackList(q, View(q), GetReestablishFlag(View(p))) = <<>>
      BY <2>1 DEF Closer, BackList, GetReestablishFlag, ReestablishFlag
    <2>3. Keep(Doing(p)) = <<>> /\ Keep(Doing(q)) = <<>>
      BY <1>8, KeepWhich DEF ClosesCross, CloseRejected, Maybe, Just
    <2>4. Doing(p)' = <<>> /\ Doing(q)' = <<>>
      BY <1>0, <2>2, <2>3, LostSilent
    <2>5. ClosesCross(p, q)'
      BY <1>0, <1>3, <2>1, <2>4, NoItems DEF ClosesCross, Maybe
    <2> QED BY <2>5 DEF Stands
  <1> QED BY <1>4, <1>5, <1>6, <1>7, <1>8

LEMMA LostMerge ==
    ASSUME NEW p, NEW q, Losing(p, q), CloseAcceptDue(p, q) \/ CloseConfirmDue(p, q)
    PROVE  Stands(p, q)'
  <1> DEFINE s == View(p)
             t == View(q)
  <1>0. /\ Losing(q, p) /\ Coming(p)' = <<>> /\ Coming(q)' = <<>>
        /\ s \in SubChannelRecord /\ t \in SubChannelRecord
    BY LosingBothWays DEF Losing, Lost
  <1>1. /\ t.st = "CloseAccepted" /\ SameView(p, q) /\ Doing(p) = <<>> /\ Doing(q) = <<>>
    BY DEF CloseAcceptDue, CloseConfirmDue
  <1>2. /\ View(q)' = CloseBack(t, FALSE, t.balance)
        /\ Doing(q)' = <<Act("ReAcceptCloseOffer", NoPoint, 0)>>
    <2>1. View(q)' = CloseBack(t, FALSE, t.balance)
      BY <1>1 DEF Losing, Lost, BackSub
    <2>2. Doing(q)' = BackList(q, t, GetReestablishFlag(s))
      BY <1>0, <1>1, KeepWhich, LostDoing
    <2> QED BY <1>1, <2>1, <2>2 DEF BackList
  <1>3. Just(Doing(q)', "ReAcceptCloseOffer")
    BY <1>2 DEF Just, Act
  <1>4. Doing(p)' = <<>>
    <2>1. BackList(p, s, GetReestablishFlag(t)) = <<>>
      BY <1>1 DEF CloseAcceptDue, CloseConfirmDue, Closer, BackList, GetReestablishFlag, ReestablishFlag
    <2> QED BY <1>1, <2>1, KeepWhich, LostSilent
  <1>5. LET u == View(q)' IN
        /\ u.st = "CloseOffered" /\ ~u.ours /\ u.balance = t.balance
        /\ u.idx = t.idx /\ u.split = t.split
    <2> HIDE DEF t
    <2> QED BY <1>0, <1>2 DEF CloseBack, SubChannelRecord
  <1>6. LET u == View(p)' IN
        /\ u.st = "CloseOffered" /\ u.ours /\ u.balance = t.balance
        /\ u.idx = s.idx /\ u.split = s.split
    <2>1. CASE CloseAcceptDue(p, q)
      <3>1. View(p)' = View(p)
        BY <2>1, LostUnrepaired DEF CloseAcceptDue, Closer, Unrepaired
      <3> QED BY <2>1, <3>1 DEF CloseAcceptDue, Closer
    <2>2. CASE CloseConfirmDue(p, q)
      <3> DEFINE b == TotalCollateral - s.balance
      <3>1. View(p)' = CloseBack(s, TRUE, b)
        BY <2>2 DEF Losing, Lost, BackSub, CloseConfirmDue, GetReestablishFlag, ReestablishFlag
      <3>2. b = t.balance
        <4>1. s.balance \in Nat /\ t.balance \in Nat /\ s.balance + t.balance = TotalCollateral
          BY <1>0, <2>2 DEF CloseConfirmDue, SubChannelRecord
        <4> HIDE DEF s, t
        <4> QED BY <4>1, SubChannelAssumption
      <3>3. LET u == CloseBack(s, TRUE, b) IN
            u.st = "CloseOffered" /\ u.ours /\ u.balance = b /\ u.idx = s.idx /\ u.split = s.split
        <4> HIDE DEF s, b
        <4> QED BY <1>0 DEF CloseBack, SubChannelRecord
      <3> QED BY <3>1, <3>2, <3>3
    <2> QED BY <2>1, <2>2
  <1>7. SameView(p, q)'
    BY <1>1, <1>5, <1>6 DEF SameView
  <1>8. CloseHeard(p, q)'
    BY <1>0, <1>3, <1>4, <1>5, <1>6, <1>7 DEF CloseHeard, Closer, Quieted, Maybe
  <1> QED BY <1>8 DEF Stands

LEMMA LostFinal ==
    ASSUME NEW p, NEW q, Losing(p, q), CloseFinalizeDue(p, q)
    PROVE  Stands(p, q)'
  <1> DEFINE s == View(p)
             t == View(q)
  <1>0. /\ Losing(q, p) /\ Coming(p)' = <<>> /\ Coming(q)' = <<>>
        /\ s \in SubChannelRecord /\ t \in SubChannelRecord /\ s.idx \in Nat /\ t.idx \in Nat
    BY LosingBothWays DEF Losing, Lost, SubChannelRecord, Index
  <1>1. /\ t.st = "CloseConfirmed" /\ Doing(q) = <<>>
        /\ t.split \in {At(p, q, t.idx), At(q, p, t.idx)}
        /\ \/ s.st = "OffChainClosed" /\ s.idx = t.idx
           \/ Offerer(p) /\ s.idx = t.idx + 1
    BY DEF CloseFinalizeDue
  <1>2. View(p)' = View(p)
    BY <1>1, LostUnrepaired DEF Offerer, Unrepaired
  <1>3. LET u == View(q)' IN
        u.st = "CloseConfirmed" /\ u.idx = t.idx /\ u.split = t.split
    <2>1. GetReestablishFlag(s) \in {"OffChainClosed", "Offered"}
      BY <1>1 DEF Offerer, GetReestablishFlag, ReestablishFlag
    <2>2. View(q)' = [t EXCEPT !.checkLnSecret = FALSE]
      BY <1>1, <2>1 DEF Losing, Lost, BackSub
    <2> HIDE DEF t
    <2> QED BY <1>0, <1>1, <2>2 DEF SubChannelRecord
  <1>4. Doing(q)' = <<>>
    <2>1. BackList(q, t, GetReestablishFlag(s)) = <<>>
      BY <1>1 DEF BackList
    <2> QED BY <1>0, <1>1, <2>1, KeepWhich, LostSilent
  <1>5. Keep(Doing(p)) = <<>>
    <2>1. \/ Doing(p) = <<>> \/ Just(Doing(p), "ResendOffer")
          \/ Doing(p)[1].type = "ResendCloseFinalize"
      BY NoItems DEF CloseFinalizeDue, Pair
    <2> QED BY <2>1, KeepWhich DEF Just
  <1>6. GetReestablishFlag(t) = "CloseConfirmed"
    BY <1>1 DEF GetReestablishFlag, ReestablishFlag
  <1>7. Doing(p)' = BackList(p, s, "CloseConfirmed")
    BY <1>5, <1>6, LostDoing
  <1>8. CASE s.st = "OffChainClosed" /\ s.idx = t.idx
    <2>1. Doing(p)' = <<Act("ResendCloseFinalize", PerSplitPoint(p, t.idx), 0)>>
      BY <1>7, <1>8 DEF BackList
    <2>2. /\ Len(Doing(p)') = 1 /\ Doing(p)'[1].type = "ResendCloseFinalize"
          /\ Doing(p)'[1].point = PerSplitPoint(p, t.idx)
      BY <2>1 DEF Act
    <2>3. CloseFinalizeDue(p, q)'
      BY <1>0, <1>1, <1>2, <1>3, <1>4, <1>8, <2>2 DEF CloseFinalizeDue
    <2> QED BY <2>3 DEF Stands
  <1>9. CASE Offerer(p) /\ s.idx = t.idx + 1
    <2>1. s.idx - 1 = t.idx
      <3> HIDE DEF s, t
      <3> QED BY <1>0, <1>9
    <2>2. Doing(p)' = <<Act("ResendCloseFinalize", PerSplitPoint(p, t.idx), 0),
                        Act("ResendOffer", s.point, 0)>>
      BY <1>7, <1>9, <2>1 DEF BackList, Offerer
    <2>3. /\ Pair(Doing(p)', "ResendCloseFinalize", "ResendOffer")
          /\ Doing(p)'[1].point = PerSplitPoint(p, t.idx) /\ Doing(p)'[2].point = s.point
          /\ Doing(p)'[1].type = "ResendCloseFinalize"
      BY <2>2 DEF Act, Pair
    <2>4. CloseFinalizeDue(p, q)'
      BY <1>0, <1>1, <1>2, <1>3, <1>4, <1>9, <2>3 DEF CloseFinalizeDue, Offerer
    <2> QED BY <2>4 DEF Stands
  <1> QED BY <1>1, <1>8, <1>9

(* A lost rejection of an offer is one of the holes; without it the two    *)
(* stand in one of the positions again, or Revoke is gone.                 *)
LEMMA LostStands ==
    ASSUME NEW p, NEW q, Losing(p, q), Stands(p, q), ~OfferRejected(p, q)
    PROVE  Stands(p, q)' \/ (Closer(p) /\ View(q).st = "Finalized")
  BY LostOffer, LostSplit, LostSigned, LostMerge, LostFinal DEF Stands, RevokeDue

(* What losing the connection does.                                        *)
Broken(p, q) ==
    /\ TypeInv /\ NetInv /\ p \in Party /\ q \in Party /\ q = Other(p) /\ p = Other(q)
    /\ UNCHANGED <<sub, dlc, ln, actions>> /\ ~conn' /\ ~ready'[p] /\ ~ready'[q]
    /\ net'[p] = <<>> /\ net'[q] = <<>> /\ ready[p] = ready[q] /\ ~RejectLost
    /\ Side(p, q) /\ Side(q, p)

LEMMA BrokenBothWays ==
    ASSUME NEW p, NEW q, Broken(p, q)
    PROVE  Broken(q, p)
  BY DEF Broken

LEMMA BrokenSide ==
    ASSUME NEW p, NEW q, Broken(p, q), Cold(p, q)',
           Len(actions[p]) \in {0, 1} \/ Pair(actions[p], "ResendCloseFinalize", "ResendOffer")
    PROVE  Side(p, q)'
  <1>1. DlcOf(p)' /\ OutOf(p)' /\ SecretsAt(p)'
    BY DEF Broken, Side, DlcOf, OutOf, SecretsAt
  <1>2. Greeting(p)' /\ Forms(p)' /\ Fresh(p, q)'
    BY DEF Broken, Greeting, Forms, Fresh
  <1> QED BY <1>1, <1>2 DEF Side

LEMMA BrokenSeen ==
    ASSUME NEW p, NEW q, Broken(p, q)
    PROVE  /\ Seen(p)' = GetReestablishFlag(sub[q]) /\ Coming(p)' = <<>>
           /\ View(p)' = BackSub(p, sub[p], GetReestablishFlag(sub[q]))
           /\ Doing(p)' = Keep(actions[p]) \o BackList(p, sub[p], GetReestablishFlag(sub[q]))
  <1>1. Seen(p)' = GetReestablishFlag(sub[q])
    BY DEF Broken, Seen
  <1> QED BY <1>1 DEF Broken, Coming, View, Doing

LEMMA ListedLen ==
    ASSUME NEW S, NEW a \in Seq(S), a # <<>> => Listed(a)
    PROVE  Len(a) \in {0, 1} \/ Pair(a, "ResendCloseFinalize", "ResendOffer")
  BY NoItems DEF Listed

(* Both handled the reestablish messages.                                  *)
LEMMA BrokenReady ==
    ASSUME NEW p, NEW q, Broken(p, q), ready[p], Either(p, q)
    PROVE  Stable(p, q)'
  <1>1. Broken(q, p) /\ ready[q]
    BY BrokenBothWays DEF Broken
  <1>2. ASSUME NEW x, NEW y, Broken(x, y), ready[x], ready[y], Either(x, y)
        PROVE  Losing(x, y) /\ Side(x, y)' /\ View(x) = sub[x] /\ Coming(x) = net[x]
    <2>1. /\ View(x) = sub[x] /\ Doing(x) = actions[x] /\ View(y) = sub[y] /\ Doing(y) = actions[y]
          /\ Coming(x) = net[x]
      BY <1>2, ReadyView
    <2>2. /\ sub[x] \in SubChannelRecord /\ sub[y] \in SubChannelRecord
          /\ actions[x] \in Seq(Action) /\ actions[y] \in Seq(Action)
      BY <1>2, Fields, DoingTyped DEF Broken
    <2>3. Lost(x, y)
      BY <1>2, <2>1, BrokenSeen, BrokenBothWays DEF Lost
    <2>4. Losing(x, y)
      BY <1>2, <2>1, <2>2, <2>3 DEF Losing, Broken
    <2>5. Len(actions[x]) \in {0, 1} \/ Pair(actions[x], "ResendCloseFinalize", "ResendOffer")
      BY <1>2, <2>1, <2>2, FirstAction, ListedLen
    <2>6. Cold(x, y)'
      <3>1. Either(y, x)
        BY <1>2 DEF Either
      <3>2. sub[y].st = "Offered" /\ ~sub[y].isOffer => sub[x].st = "Offered"
        BY <2>1, <3>1, WhereOffered DEF OfferHeard, Offerer
      <3>3. sub[y].st = "CloseOffered" /\ ~sub[y].ours => sub[x].st = "CloseOffered"
        BY <2>1, <3>1, WhereCloseOffered DEF CloseHeard, Closer
      <3> QED BY <1>2, <3>2, <3>3 DEF Cold, Broken
    <2> QED BY <1>2, <2>1, <2>4, <2>5, <2>6, BrokenSide
  <1>3. Either(q, p)
    BY DEF Either
  <1>4. ASSUME NEW x, NEW y, Broken(x, y), ready[x], ready[y], Stands(x, y)
        PROVE  Stands(x, y)' \/ RevokeGone(x, y)'
    <2>1. Either(x, y) /\ Either(y, x) /\ Broken(y, x)
      BY <1>4, BrokenBothWays DEF Either
    <2>2. Losing(x, y) /\ View(x) = sub[x] /\ Coming(x) = net[x] /\ View(y) = sub[y]
      BY <1>2, <1>4, <2>1
    <2>3. ~OfferRejected(x, y)
      <3>1. SUFFICES ASSUME OfferRejected(x, y)
                     PROVE  FALSE
        OBVIOUS
      <3>2. sub[x].st = "Offered" /\ x \in Party /\ ~RejectLost
        BY <1>4, <2>2, <3>1 DEF OfferRejected, Offerer, Broken
      <3>3. net[x][1].type = "Reject" /\ Len(net[x]) \in {1, 2}
        BY <2>2, <3>1 DEF OfferRejected, Just, Pair
      <3>4. 1 \in 1 .. Len(net[x])
        BY <3>3
      <3> QED BY <3>2, <3>3, <3>4 DEF RejectLost, In
    <2>4. Closer(x) /\ View(y).st = "Finalized" => RevokeGone(x, y)'
      BY <1>4, <2>2 DEF Closer, RevokeGone, Broken
    <2> QED BY <1>4, <2>2, <2>3, <2>4, LostStands
  <1>5. Stand(p, q)'
    BY <1>1, <1>4 DEF Either, Stand
  <1> QED BY <1>1, <1>2, <1>3, <1>5 DEF Stable

(* Neither did.  All that can be lost with the reestablish messages is the *)
(* rejection of an offer to close, which is then made again.               *)
LEMMA BrokenWaiting ==
    ASSUME NEW p, NEW q, Broken(p, q), conn, ~ready[p], Either(p, q)
    PROVE  Stable(p, q)'
  <1>1. Broken(q, p) /\ ~ready[q] /\ Either(q, p)
    BY BrokenBothWays DEF Broken, Either
  <1>2. ASSUME NEW x, NEW y, Broken(x, y), ~ready[x], ~ready[y]
        PROVE  /\ Side(x, y)' /\ Keep(actions[x]) = actions[x] /\ net[x] \in Seq(Message)
               /\ net[x] # <<>> /\ Coming(x) = Tail(net[x]) /\ Side(x, y)
               /\ sub[x] \in SubChannelRecord /\ actions[x] \in Seq(Action)
    <2>1. Keep(actions[x]) = actions[x] /\ net[x] # <<>> /\ Coming(x) = Tail(net[x]) /\ Side(x, y)
      BY <1>2 DEF Broken, Side, Forms, Greeting, Coming
    <2>2. net[x] \in Seq(Message) /\ sub[x] \in SubChannelRecord /\ actions[x] \in Seq(Action)
      BY <1>2, TypeParts, Fields, DoingTyped DEF Broken, NetTyped
    <2>3. Len(actions[x]) \in {0, 1}
      BY <2>1, NoItems DEF Keep, Just
    <2>4. Cold(x, y)'
      BY <1>2, <2>1 DEF Broken, Side, Cold
    <2> QED BY <1>2, <2>1, <2>2, <2>3, <2>4, BrokenSide
  <1>3. ASSUME NEW x, NEW y, Broken(x, y), ~ready[x], ~ready[y], Seen(x) = GetReestablishFlag(sub[y])
        PROVE  View(x)' = View(x) /\ Doing(x)' = Doing(x)
    BY <1>3, BrokenSeen DEF View, Doing
  <1>4. ASSUME NEW x, NEW y, Broken(x, y), ~ready[x], ~ready[y], Either(x, y),
               Len(net[x]) = 2, net[x][2].type = "Reject", sub[x].st \in {"Offered", "CloseOffered"}
        PROVE  CloseRejected(x, y) /\ Just(Coming(x), "Reject") /\ CloseDue(x, y)'
    <2>0. /\ Broken(y, x) /\ x \in Party /\ y \in Party /\ TypeInv /\ y = Other(x) /\ ~RejectLost
      BY <1>4, BrokenBothWays DEF Broken
    <2>1. Just(Coming(x), "Reject")
      <3> DEFINE c == net[x]
      <3>1. c \in Seq(Message) /\ Len(c) = 2 /\ c[2].type = "Reject" /\ Coming(x) = Tail(c)
        BY <1>2, <1>4
      <3> HIDE DEF c
      <3>2. Pair(c, c[1].type, "Reject")
        BY <3>1 DEF Pair
      <3> QED BY <3>1, <3>2, JustTail
    <2>2. sub[x].st = "CloseOffered"
      <3>1. 2 \in 1 .. Len(net[x])
        BY <1>4
      <3> QED BY <1>4, <2>0, <3>1 DEF RejectLost, In
    <2>3. View(x) = sub[x]
      BY <2>0, <2>2, ViewKeeps
    <2>4. CloseRejected(x, y)
      <3>1. Coming(x) # <<>> /\ Coming(x)[1].type = "Reject"
        BY <2>1, NoItems DEF Just
      <3>2. \A type : Only(Coming(x), type) => Coming(x)[1].type = type
        BY <2>1 DEF Only, Just
      <3>3. OfferRejected(x, y) \/ CloseRejected(x, y)
        BY <1>4, <3>1, <3>2, FirstMessage DEF AtMessage
      <3> QED BY <2>2, <2>3, <3>3 DEF OfferRejected, Offerer
    <2>5. Closer(x) /\ Signed(y) /\ SameView(x, y) /\ Doing(x) = <<>> /\ Doing(y) = <<>>
      BY <2>1, <2>4 DEF CloseRejected, Just, Pair
    <2>6. sub[y].st = "Signed" /\ View(y) = sub[y] /\ sub[x] \in SubChannelRecord
      BY <2>0, <2>5, ViewKeeps, Fields DEF Signed
    <2>7. /\ View(x)' = View(x) /\ View(y)' = View(y)
      <3>1. /\ View(x)' = BackSub(x, sub[x], GetReestablishFlag(sub[y]))
            /\ View(y)' = BackSub(y, sub[y], GetReestablishFlag(sub[x]))
        BY <1>4, <2>0, BrokenSeen
      <3> QED BY <2>2, <2>3, <2>6, <3>1 DEF BackSub
    <2>8. /\ Keep(actions[x]) = <<>> /\ Keep(actions[y]) = <<>>
      <3>1. BackList(y, sub[y], Seen(y)) = <<>>
        BY <2>6 DEF BackList
      <3>2. Keep(actions[y]) = <<>>
        BY <1>2, <1>4, <2>0, <2>5, <3>1, KeepAlone DEF Doing
      <3>3. Keep(actions[x]) = <<>>
        <4> DEFINE k == Keep(actions[x])
                   b == BackList(x, sub[x], Seen(x))
        <4>1. k \in Seq(Action) /\ k \o b = <<>>
          BY <1>2, <1>4, <2>0, <2>5, KeepAlone DEF Doing
        <4>2. b = <<>> \/ b = <<Act("ResendCloseOffer", NoPoint, sub[x].balance)>>
          BY <2>2 DEF BackList
        <4>3. b \in Seq(Action)
          <5> DEFINE a == Act("ResendCloseOffer", NoPoint, sub[x].balance)
          <5>1. sub[x].balance \in 0 .. TotalCollateral /\ NoPoint \in Point
            BY <2>0, Fields, NoneTyped
          <5>2. a \in Action /\ (b = <<>> \/ b = <<a>>)
            BY <4>2, <5>1 DEF Act, Action
          <5> HIDE DEF a, b
          <5>3. <<a>> \in Seq(Action) /\ <<>> \in Seq(Action)
            BY <5>2
          <5> QED BY <5>2, <5>3
        <4> HIDE DEF k, b
        <4>4. Len(k) + Len(b) = 0 /\ Len(k) \in Nat /\ Len(b) \in Nat
          BY <4>1, <4>3, ConcatProperties, NoItems, LenProperties
        <4>5. Len(k) = 0
          BY <4>4
        <4>6. k = <<>>
          BY <4>1, <4>5, EmptySeq
        <4> QED BY <4>6 DEF k
      <3> QED BY <3>2, <3>3
    <2>9. GetReestablishFlag(sub[y]) = "Signed"
      BY <2>6 DEF GetReestablishFlag, ReestablishFlag
    <2>10. /\ Doing(y)' = <<>>
           /\ Doing(x)' = <<Act("ResendCloseOffer", NoPoint, sub[x].balance)>>
      <3>1. /\ Doing(x)' = <<>> \o BackList(x, sub[x], GetReestablishFlag(sub[y]))
            /\ Doing(y)' = <<>> \o BackList(y, sub[y], GetReestablishFlag(sub[x]))
        BY <1>4, <2>0, <2>8, BrokenSeen
      <3>2. BackList(y, sub[y], GetReestablishFlag(sub[x])) = <<>>
        BY <2>6 DEF BackList
      <3>3. BackList(x, sub[x], "Signed") = <<Act("ResendCloseOffer", NoPoint, sub[x].balance)>>
        BY <2>2, <2>3, <2>5 DEF BackList, Closer
      <3> QED BY <2>9, <3>1, <3>2, <3>3, EmptyBack
    <2>11. Just(Doing(x)', "ResendCloseOffer") /\ Doing(x)'[1].balance = View(x)'.balance
      BY <2>3, <2>7, <2>10 DEF Just, Act
    <2>12. Closer(x)' /\ Signed(y)' /\ SameView(x, y)'
      BY <2>5, <2>7 DEF Closer, Signed, SameView
    <2>13. Coming(x)' = <<>> /\ Coming(y)' = <<>>
      BY <1>4, <2>0, BrokenSeen
    <2>14. CloseDue(x, y)'
      BY <2>10, <2>11, <2>12, <2>13 DEF CloseDue
    <2> QED BY <2>1, <2>4, <2>14
  <1>5. ASSUME NEW x, NEW y, Broken(x, y), ~ready[x], ~ready[y], Len(net[x]) = 1
        PROVE  Coming(x) = <<>>
    <2> DEFINE c == net[x]
    <2>1. c \in Seq(Message) /\ Len(c) = 1 /\ Coming(x) = Tail(c)
      BY <1>2, <1>5
    <2> HIDE DEF c
    <2> QED BY <2>1, JustTail
  <1>6. Stand(p, q)'
    <2>1. CASE Len(net[p]) = 2 /\ net[p][2].type = "Reject" /\ sub[p].st \in {"Offered", "CloseOffered"}
      BY <1>1, <1>4, <2>1 DEF Stand, Stands
    <2>2. CASE Len(net[q]) = 2 /\ net[q][2].type = "Reject" /\ sub[q].st \in {"Offered", "CloseOffered"}
      BY <1>1, <1>4, <2>2 DEF Stand, Stands
    <2>3. CASE /\ Len(net[p]) = 1 /\ Seen(p) = GetReestablishFlag(sub[q])
               /\ Len(net[q]) = 1 /\ Seen(q) = GetReestablishFlag(sub[p])
      <3>1. Same(p, q)
        BY <1>1, <1>3, <1>5, <2>3, BrokenSeen DEF Same
      <3> QED BY <3>1, SameEither DEF Stand, Either
    <2> QED BY <1>1, <1>2, <2>1, <2>2, <2>3 DEF Side, Fresh
  <1> QED BY <1>1, <1>2, <1>6 DEF Stable

LEMMA BreakStable ==
    ASSUME TypeInv, NetInv, NEW p \in Party, NEW q, q = Other(p), Stable(p, q), ~torn',
           Disconnect \/ \E r \in Party : Restart(r)
    PROVE  Stable(p, q)'
  <1>0. q \in Party /\ q # p /\ p = Other(q) /\ Party = {p, q} /\ p \in Party
    BY Others
  <1>1. /\ UNCHANGED <<sub, dlc, ln>> /\ ~conn' /\ ~ready'[p] /\ ~ready'[q]
        /\ net'[p] = <<>> /\ net'[q] = <<>> /\ ~RejectLost /\ ready[Alice] = ready[Bob]
    BY <1>0 DEF Disconnect, Restart, DropConnection, Torn, subVars
  <1>2. UNCHANGED actions
    <2>1. CASE Disconnect
      BY <2>1 DEF Disconnect, actVars
    <2>2. ASSUME NEW r \in Party, Restart(r)
          PROVE  UNCHANGED actions
      <3>1. actions' = [actions EXCEPT ![r] = stored[r]] /\ stored[r] = actions[r]
        BY <2>2 DEF Restart, Torn
      <3>2. actions \in [Party -> Seq(Action)]
        BY DEF TypeInv, TypeOK
      <3> QED BY <3>1, <3>2
    <2> QED BY <2>1, <2>2
  <1>3. ready[p] = ready[q]
    BY <1>0, <1>1 DEF Other
  <1>4. Broken(p, q)
    BY <1>0, <1>1, <1>2, <1>3 DEF Broken, Stable
  <1>5. CASE conn
    <2>1. Either(p, q)
      BY <1>5 DEF Stable, Stand, Either, RevokeGone
    <2> QED BY <1>4, <1>5, <2>1, BrokenReady, BrokenWaiting
  <1>6. CASE ~conn
    <2>1. Apart(p, q)
      BY <1>6 DEF Apart, Stable
    <2>2. Forms(p)' /\ Forms(q)'
      BY <1>1, <1>2, <1>6 DEF Stable, Side, Forms
    <2> QED BY <1>1, <1>2, <2>1, <2>2, StillApart
  <1> QED BY <1>5, <1>6

-----------------------------------------------------------------------------
(* Every step of a party keeps where the two stand, until it meets a hole  *)
(* or closes.                                                              *)

Pairs(p, q) ==
    TypeInv /\ NetInv /\ p \in Party /\ q = Other(p) /\ Stable(p, q) /\ ln[p].open

LEMMA PairCases ==
    ASSUME NEW p, NEW q, Pairs(p, q)
    PROVE  Acting(p, q) \/ Waiting(p, q) \/ Apart(p, q)
  <1>1. ready[p] => conn
    BY Connected DEF Pairs
  <1>2. conn => Either(p, q)
    BY DEF Pairs, Stable, Stand, RevokeGone, Either
  <1> QED BY <1>1, <1>2 DEF Pairs, Stable, Acting, Waiting, Apart

LEMMA ActsStable ==
    ASSUME NEW p, NEW q, Acting(p, q), Acts(p, q)
    PROVE  Stable(p, q)'
  <1>1. PICK m \in Message : Says(p, m)
    BY DEF Acts
  <1> QED BY <1>1, ActedStable DEF Acts

LEMMA ReceiveStable ==
    ASSUME NEW p, NEW q, Pairs(p, q), ~LearnsEarly(p), Receive(p)
    PROVE  Stable(p, q)'
  <1>0. ln[p].open /\ p \in Party /\ NetInv /\ TypeInv
    BY DEF Pairs
  <1>1. CASE Acting(p, q)
    <2>1. ~OnChannelReestablish(p)
      <3>1. net[p] \in Seq(Message) /\ ~Has(net[p], {"Reestablish"})
        BY <1>0, <1>1, TypeParts DEF NetTyped, NetInv, Greeted, Acting
      <3>2. net[p] # <<>> => Head(net[p]).type # "Reestablish"
        BY <3>1 DEF Has
      <3> QED BY <3>2 DEF OnChannelReestablish, Received
    <2>2. Acts(p, q)
      BY <1>0, <1>1, <2>1, GetOfferActs, ConfirmActs, NotInvalid, FinalizeActs, SignActs,
         RevokeActs, GetRejectActs, GetCloseActs, CloseAcceptActs, CloseConfirmActs,
         CloseFinalizeActs, ErrorActs DEF Receive
    <2> QED BY <1>1, <2>2, ActsStable
  <1>2. CASE Waiting(p, q)
    <2>1. net[p] # <<>> /\ Head(net[p]).type = "Reestablish"
      BY <1>2 DEF Waiting, Side, Greeting
    <2>2. OnChannelReestablish(p)
      BY <1>0, <2>1
         DEF Receive, Received, OnSubchannelOffer, OnSubchannelAccept, OnSubchannelAcceptInvalid,
             OnSubchannelConfirm, OnSubChannelFinalize, OnSubChannelRevoke, OnSubChannelReject,
             OnSubChannelCloseOffer, OnSubChannelCloseAccept, OnSubChannelCloseAcceptInvalid,
             OnSubChannelCloseConfirm, OnSubChannelCloseFinalize, OnSubChannelMessageError, Handled
    <2> QED BY <1>2, <2>2, ReturnStable
  <1>3. CASE Apart(p, q)
    <2>1. net[p] = <<>>
      BY <1>0, <1>3 DEF Apart, NetInv, Down
    <2>2. ~Receive(p)
      BY <2>1
         DEF Receive, Received, OnSubchannelOffer, OnSubchannelAccept, OnSubchannelAcceptInvalid,
             OnSubchannelConfirm, OnSubChannelFinalize, OnSubChannelRevoke, OnSubChannelReject,
             OnSubChannelCloseOffer, OnSubChannelCloseAccept, OnSubChannelCloseAcceptInvalid,
             OnSubChannelCloseConfirm, OnSubChannelCloseFinalize, OnSubChannelMessageError,
             OnChannelReestablish
    <2> QED BY <2>2
  <1> QED BY <1>1, <1>2, <1>3, PairCases

(* A party that waits for its peer's reestablish message does none of its  *)
(* actions: those it has need the channel.                                 *)
LEMMA WaitingIdle ==
    ASSUME NEW p, NEW q, Waiting(p, q), ln[p].open
    PROVE  ~ProcessActions(p)
  <1>1. SUFFICES ASSUME NEW i \in 1 .. Len(actions[p]), Doable(p, actions[p][i])
                 PROVE  FALSE
    BY DEF ProcessActions
  <1>2. ~ready[p] /\ Keep(actions[p]) = actions[p] /\ actions[p] \in Seq(Action)
    BY DoingTyped DEF Waiting, Side, Forms
  <1>3. actions[p] # <<>>
    BY <1>1, <1>2, NoItems
  <1>4. Len(actions[p]) = 1 /\ actions[p][1].type \in {"ReAccept", "ReAcceptCloseOffer"}
    BY <1>2, <1>3 DEF Keep, Just
  <1>5. i = 1
    BY <1>1, <1>4
  <1> QED BY <1>1, <1>2, <1>4, <1>5
          DEF Doable, NeedsChannel, CanAccept, CanAcceptClose, Usable

LEMMA ProcessStable ==
    ASSUME NEW p, NEW q, Pairs(p, q), ProcessActions(p)
    PROVE  Stable(p, q)'
  <1>1. ln[p].open
    BY DEF Pairs
  <1> QED BY <1>1, PairCases, ProcessActs, ActsStable, WaitingIdle, ProcessApart

LEMMA CallStable ==
    ASSUME NEW p, NEW q, Pairs(p, q), ~torn',
           \/ OfferSubChannel(p) \/ RejectSubChannelOffer(p) \/ RejectSubChannelCloseOffer(p)
           \/ \E b \in 0 .. TotalCollateral : OfferSubchannelClose(p, b)
           \/ Accept(p)
    PROVE  Stable(p, q)'
  <1>1. CASE Acting(p, q)
    <2>1. Acts(p, q)
      BY <1>1, OfferActs, RejectActs, OfferCloseActs, AcceptActs, AcceptCloseActs DEF Accept
    <2> QED BY <1>1, <2>1, ActsStable
  <1>2. CASE ~ready[p]
    <2>1. ~OfferSubChannel(p) /\ \A b \in 0 .. TotalCollateral : ~OfferSubchannelClose(p, b)
      BY <1>2 DEF OfferSubChannel, OfferSubchannelClose, Torn, Recovering
    <2>2. ~Accept(p)
      BY <1>2 DEF Accept, AcceptSubChannel, AcceptSubchannelCloseOffer, CanAccept, CanAcceptClose,
                  Usable
    <2>3. ~conn => ~RejectSubChannelOffer(p)
      BY DEF RejectSubChannelOffer, Torn
    <2>4. CASE Waiting(p, q)
      BY <2>1, <2>2, <2>4, RejectOfferWaits, RejectCloseWaits
    <2>5. CASE Apart(p, q)
      BY <2>1, <2>2, <2>3, <2>5, RejectCloseApart DEF Apart
    <2> QED BY <1>1, <2>4, <2>5, PairCases
  <1>3. CASE Waiting(p, q) \/ Apart(p, q)
    <2>1. ~ready[p]
      BY <1>3 DEF Waiting, Apart, NetInv, Down
    <2> QED BY <1>2, <2>1
  <1> QED BY <1>1, <1>3, PairCases

(* A step that touches nothing of it.                                      *)
LEMMA UntouchedStable ==
    ASSUME NEW p, NEW q, Stable(p, q), UNCHANGED <<sub, dlc, ln, actions, net, conn, ready>>
    PROVE  Stable(p, q)'
  <1>1. ASSUME NEW x
        PROVE  /\ Seen(x)' = Seen(x) /\ View(x)' = View(x) /\ Coming(x)' = Coming(x)
               /\ Doing(x)' = Doing(x)
    <2>1. Seen(x)' = Seen(x)
      BY DEF Seen
    <2> QED BY <2>1 DEF View, Coming, Doing
  <1>2. Same(p, q)
    BY <1>1 DEF Same
  <1>3. Stand(p, q)'
    <2>1. Either(p, q) => Either(p, q)'
      BY <1>2, SameEither
    <2>2. /\ RevokeGone(p, q) => RevokeGone(p, q)'
          /\ RevokeGone(q, p) => RevokeGone(q, p)'
      BY DEF RevokeGone
    <2> QED BY <2>1, <2>2 DEF Stable, Stand, Either
  <1>4. ASSUME NEW x, NEW y, Side(x, y)
        PROVE  Side(x, y)'
    <2>1. DlcOf(x)' /\ OutOf(x)' /\ SecretsAt(x)'
      BY <1>4 DEF Side, DlcOf, OutOf, SecretsAt
    <2>2. Greeting(x)' /\ Forms(x)' /\ Cold(x, y)' /\ Fresh(x, y)'
      BY <1>1, <1>4 DEF Side, Greeting, Forms, Cold, Fresh
    <2> QED BY <2>1, <2>2 DEF Side
  <1> QED BY <1>3, <1>4 DEF Stable

LEMMA StableBothWays ==
    ASSUME NEW p, NEW q, Stable(p, q)
    PROVE  Stable(q, p)
  BY DEF Stable, Stand

LEMMA StableBothWaysNext ==
    ASSUME NEW p, NEW q, Stable(p, q)'
    PROVE  Stable(q, p)'
  BY DEF Stable, Stand

(* Closing on chain ends it.                                               *)
LEMMA ClosedStays ==
    ASSUME NEW p \in Party, PartyStep(p), ~Closed(p)'
    PROVE  ~Closed(p)
  BY DEF PartyStep, Closed, SettledStates, Idles, Resends, Drifts, DriftTo, Offers, GetsOffer,
         Accepts, Confirms, Finalizes, Signs, Returns, Returned, Discloses, Merges,
         WatchesEarly, SameSub, Renewed, CanOffer, SetUp, Obtains

LEMMA AliveBefore ==
    ASSUME TypeInv, [Next]_vars, Alive', ~torn'
    PROVE  Alive /\ ~torn
  <1>1. CASE Breaks \/ Rejoins
    BY <1>1 DEF Breaks, Rejoins, Drops, Greets, Alive, Closed
  <1>2. ASSUME NEW p \in Party, Trades(p), Detail(p)
        PROVE  Alive /\ ~torn
    <2>1. ~torn /\ ln[p].open /\ ln'[Other(p)] = ln[Other(p)]
      BY <1>2 DEF Detail, Alive
    <2>2. PartyStep(p)
      BY <1>2, TradeSteps
    <2>3. ~Closed(p) /\ sub'[Other(p)] = sub[Other(p)]
      BY <1>2, <2>2, ClosedStays, StepFrame DEF Alive, Frame
    <2>4. ~Closed(Other(p)) /\ ln[Other(p)].open
      BY <2>1, <2>3, Others DEF Alive, Closed
    <2> QED BY <2>1, <2>3, <2>4, Others DEF Alive
  <1> QED BY <1>1, <1>2, StepDetail

LEMMA PartyStable ==
    ASSUME NEW p, NEW q, Pairs(p, q), ~LearnsEarly(p), ~torn', Alive',
           Receive(p) \/ Application(p) \/ Accept(p) \/ PeriodicCheck(p) \/ Notify(p)
             \/ LdkPeerClosed(p)
    PROVE  Stable(p, q)'
  <1>0. TypeInv /\ p \in Party /\ ~Closed(p)' /\ ln'[p].open /\ Stable(p, q) /\ ln[p].open
    BY DEF Pairs, Alive
  <1>1. CASE Receive(p)
    BY <1>1, ReceiveStable
  <1>2. CASE Accept(p)
    BY <1>2, CallStable
  <1>3. CASE PeriodicCheck(p)
    BY <1>0, <1>3, CheckDetail, ProcessStable DEF PeriodicCheck
  <1>4. CASE LdkForceClose(p) \/ LdkPeerClosed(p) \/ PublishHeld(p) \/ SweepHeld(p)
    <2>1. UNCHANGED <<sub, dlc, ln, actions, net, conn, ready>>
      BY <1>0, <1>4, LdkDetail
         DEF LdkForceClose, LdkPeerClosed, PublishHeld, SweepHeld, subVars, actVars
    <2> QED BY <1>0, <2>1, UntouchedStable
  <1>5. CASE Notify(p)
    <2>1. UNCHANGED <<sub, dlc, ln>>
      BY <1>0, <1>5, NotifyDetail
    <2>2. UNCHANGED <<actions, net, conn, ready>>
      BY <1>5 DEF Notify, NotifyCounterClosed, NotifyHolderClosed, actVars
    <2> QED BY <1>0, <2>1, <2>2, UntouchedStable
  <1>6. CASE ForceCloseSubChannel(p)
    BY <1>0, <1>6, ForceDetail DEF Closed
  <1>7. CASE Application(p)
    BY <1>0, <1>4, <1>6, <1>7, FailsDetail, CallStable DEF Application
  <1> QED BY <1>1, <1>2, <1>3, <1>4, <1>5, <1>7

-----------------------------------------------------------------------------
(* The inductive invariant.                                                *)

StableInv == RevokedInv /\ (~torn /\ Alive => Stable(Alice, Bob))

LEMMA StableInit == Init => StableInv
  <1>1. ASSUME Init
        PROVE  Stable(Alice, Bob)
    <2>1. ASSUME NEW p \in Party
          PROVE  /\ sub[p] = NoSubChannel /\ ready[p] /\ net[p] = <<>> /\ actions[p] = <<>>
                 /\ dlc[p] = "None" /\ ln[p].out = "fund" /\ conn
      BY <1>1, <2>1 DEF Init
    <2>2. NoSubChannel.st = "None" /\ NoSubChannel.idx = 0 /\ NoSubChannel.secrets = {}
      BY DEF NoSubChannel
    <2>3. ASSUME NEW p \in Party
          PROVE  /\ View(p).st = "None" /\ View(p).idx = 0 /\ Quieted(p)
      BY <2>1, <2>2 DEF View, Coming, Doing, Quieted
    <2>4. ASSUME NEW p \in Party, NEW q \in Party
          PROVE  Side(p, q)
      <3>1. DlcOf(p) /\ OutOf(p) /\ SecretsAt(p)
        BY <2>1, <2>2 DEF DlcOf, DlcFor, DlcState, OutOf, OutFor, SecretsAt
      <3> QED BY <2>1, <3>1 DEF Side, Greeting, Forms, Cold, Fresh
    <2>5. Alice \in Party /\ Bob \in Party
      BY DEF Party
    <2>6. AtRest(Alice, Bob)
      BY <2>3, <2>5 DEF AtRest, CanOffer
    <2> QED BY <2>4, <2>5, <2>6 DEF Stable, Stand, Stands
  <1> QED BY <1>1, RevokedInit DEF StableInv

LEMMA StableNext ==
    ASSUME StableInv, [Next]_vars
    PROVE  StableInv'
  <1>1. RevokedInv /\ RevokedInv' /\ TypeInv /\ NetInv
    BY RevokedNext DEF StableInv, RevokedInv, MergeInv, AgreeInv
  <1>2. SUFFICES ASSUME ~torn', Alive'
                 PROVE  Stable(Alice, Bob)'
    BY <1>1 DEF StableInv
  <1>3. ~torn /\ Alive /\ Stable(Alice, Bob)
    BY <1>1, <1>2, AliveBefore DEF StableInv
  <1>4. /\ Alice \in Party /\ Bob \in Party /\ Bob = Other(Alice) /\ Alice = Other(Bob)
        /\ \A p \in Party : p = Alice \/ p = Bob
    BY SubChannelAssumption DEF Party, Other
  <1>5. ASSUME NEW p \in Party,
               Receive(p) \/ Application(p) \/ Accept(p) \/ PeriodicCheck(p) \/ Notify(p)
                 \/ LdkPeerClosed(p)
        PROVE  Stable(Alice, Bob)'
    <2>1. ~LearnsEarly(p)
      BY <1>1, <1>3, NotEarly DEF RevokedInv, RevokedOf
    <2>2. CASE p = Alice
      <3>1. Pairs(Alice, Bob)
        BY <1>1, <1>3, <1>4 DEF Pairs, Alive
      <3> QED BY <1>2, <1>5, <2>1, <2>2, <3>1, PartyStable
    <2>3. CASE p = Bob
      <3>1. Pairs(Bob, Alice)
        BY <1>1, <1>3, <1>4, StableBothWays DEF Pairs, Alive
      <3>2. Stable(Bob, Alice)'
        BY <1>2, <1>5, <2>1, <2>3, <3>1, PartyStable
      <3> QED BY <3>2, StableBothWaysNext
    <2> QED BY <1>4, <2>2, <2>3
  <1>6. CASE Disconnect \/ \E r \in Party : Restart(r)
    BY <1>1, <1>2, <1>3, <1>4, <1>6, BreakStable
  <1>7. CASE Reconnect
    <2>1. Apart(Alice, Bob) /\ ln[Alice].open /\ ln[Bob].open
      BY <1>1, <1>3, <1>4, <1>7 DEF Apart, Stable, Reconnect, Alive
    <2> QED BY <1>2, <1>7, <2>1, Reconnects
  <1>8. CASE UNCHANGED <<sub, dlc, ln, actions, net, conn, ready>>
    BY <1>3, <1>8, UntouchedStable
  <1>9. CASE Mature \/ (\E t \in mempool : Confirm(t)) \/ UNCHANGED vars
    BY <1>8, <1>9 DEF Mature, Confirm, vars, subVars, actVars
  <1> QED BY <1>5, <1>6, <1>7, <1>9 DEF Next

(* Two parties between which nothing is under way.                         *)
LEMMA QuietAgree ==
    ASSUME Stable(Alice, Bob), Quiet
    PROVE  ln[Alice].out = ln[Bob].out /\ sub[Alice].idx = sub[Bob].idx
  <1>1. ASSUME NEW p \in Party
        PROVE  View(p) = sub[p] /\ Coming(p) = <<>> /\ Doing(p) = <<>> /\ conn /\ ready[p]
    BY <1>1, ReadyView DEF Quiet, Usable
  <1>2. \A type, next : ~Just(<<>>, type) /\ ~Pair(<<>>, type, next)
    BY NoItems DEF Just, Pair
  <1>3. ASSUME NEW p \in Party, NEW q \in Party, Stands(p, q)
        PROVE  sub[p].idx = sub[q].idx /\ OutFor(sub[p].st) = OutFor(sub[q].st)
    <2>1. \/ AtRest(p, q) \/ OfferHeard(p, q) \/ OffersCross(p, q) \/ BothSigned(p, q)
          \/ CloseDue(p, q) \/ CloseHeard(p, q) \/ ClosesCross(p, q)
      BY <1>1, <1>2, <1>3, NoItems
         DEF Stands, OfferDue, OfferRejected, AcceptDue, ConfirmDue, FinalizeDue, RevokeDue,
             CloseRejected, CloseAcceptDue, CloseConfirmDue, CloseFinalizeDue
    <2>2. CASE AtRest(p, q) \/ OfferHeard(p, q) \/ OffersCross(p, q)
      BY <1>1, <2>2 DEF AtRest, OfferHeard, OffersCross, Offerer, CanOffer, OutFor
    <2>3. CASE BothSigned(p, q) \/ CloseDue(p, q) \/ CloseHeard(p, q) \/ ClosesCross(p, q)
      BY <1>1, <2>3 DEF BothSigned, CloseDue, CloseHeard, ClosesCross, Closer, Signed, SameView,
                        OutFor
    <2> QED BY <2>1, <2>2, <2>3
  <1>4. Alice \in Party /\ Bob \in Party
    BY DEF Party
  <1>5. Stands(Alice, Bob) \/ Stands(Bob, Alice)
    BY <1>1, <1>4 DEF Stable, Stand, RevokeGone
  <1>6. sub[Alice].idx = sub[Bob].idx /\ OutFor(sub[Alice].st) = OutFor(sub[Bob].st)
    BY <1>3, <1>4, <1>5
  <1> QED BY <1>6 DEF Stable, Side, OutOf

(* Where the recovery met none of its holes, two parties between which     *)
(* nothing is under way fund their Lightning channel by the same output    *)
(* and count the same splits, whatever set_funding_outpoint calls and      *)
(* rollbacks of on_channel_reestablish each of them went through, and a    *)
(* split that is watched as revoked can be punished.  Parties that merged  *)
(* agree on what each got, hole or not.                                    *)
THEOREM RecoveriesAgree == Spec => []RecoveryAgreement
  <1>1. ShareInv /\ StableInv => RecoveryAgreement
    <2>1. SUFFICES ASSUME ShareInv, StableInv
                   PROVE  RecoveryAgreement
      OBVIOUS
    <2>2. ASSUME ~torn, Quiet
          PROVE  ln[Alice].out = ln[Bob].out /\ sub[Alice].idx = sub[Bob].idx
      <3>1. Alive
        BY <2>2 DEF Quiet, Alive, Usable
      <3> QED BY <2>1, <2>2, <3>1, QuietAgree DEF StableInv
    <2>3. ~torn => \A p \in Party : \A e \in watch[p] : e.type = "Revoked" => Punishable(p, e)
      BY <2>1 DEF StableInv, RevokedInv, RevokedOf, AllPunishable
    <2>4. (\A p \in Party : In(p, "OffChainClosed")) =>
            sub[Alice].balance + sub[Bob].balance = TotalCollateral
      <3>1. Alice \in Party /\ Bob \in Party /\ Other(Alice) = Bob
        BY SubChannelAssumption DEF Party, Other
      <3>2. SharedMerged(Alice)
        BY <2>1, <3>1 DEF ShareInv, SharedOf
      <3> QED BY <3>1, <3>2 DEF SharedMerged, Shares, In
    <2> QED BY <2>2, <2>3, <2>4 DEF RecoveryAgreement
  <1>2. Init => ShareInv /\ StableInv
    BY ShareInit, StableInit
  <1>3. ShareInv /\ StableInv /\ [Next]_vars => ShareInv' /\ StableInv'
    BY ShareNext, StableNext
  <1> QED BY <1>1, <1>2, <1>3, PTL DEF Spec
=============================================================================
