-------------------------- MODULE SubChannelProofs --------------------------
(***************************************************************************)
(* Proofs about sub channels, for any bounds on splits, disconnections and *)
(* restarts and any set of calls, holes of the recovery included.          *)
(*                                                                         *)
(* The handlers and calls come down to the few kinds of steps defined      *)
(* under "Kinds of steps"; the invariants are proved for these.            *)
(***************************************************************************)
EXTENDS SubChannelProperties, SequenceTheorems, FiniteSetTheorems, TLAPS

-----------------------------------------------------------------------------
(* Parties, points and splits.                                             *)

LEMMA Others ==
    ASSUME NEW p \in Party
    PROVE  /\ Other(p) \in Party /\ Other(p) # p /\ Other(Other(p)) = p
           /\ Party = {p, Other(p)}
  BY SubChannelAssumption DEF Party, Other

(* The points of a split transaction one party calls its own are the ones  *)
(* the other calls the peer's.                                             *)
LEMMA PointsMirror ==
    ASSUME NEW p \in Party, NEW t \in Split
    PROVE  CounterPoint(Other(p), t) = OwnPoint(p, t)
  <1>1. t.offer[1] \in Party
    BY DEF Split, Point
  <1> QED BY <1>1, Others DEF CounterPoint, OwnPoint

LEMMA PointTyped ==
    ASSUME NEW p \in Party, NEW n \in Nat
    PROVE  PerSplitPoint(p, n) \in Point
  BY DEF PerSplitPoint, Point, Index

LEMMA NoneTyped == NoPoint \in Point /\ NoSplit \in Split
  BY SubChannelAssumption DEF NoPoint, NoSplit, Point, Split, Index, Party

LEMMA SidesTyped ==
    ASSUME NEW p \in Party, NEW t \in Split
    PROVE  OwnPoint(p, t) \in Point /\ CounterPoint(p, t) \in Point
  BY DEF OwnPoint, CounterPoint, Split

-----------------------------------------------------------------------------
(* Messages and actions.                                                   *)

LEMMA MsgTyped ==
    ASSUME NEW type \in MessageType
    PROVE  /\ Msg(type) \in Message /\ Msg(type).type = type
           /\ Msg(type).point = NoPoint /\ Msg(type).split = NoSplit
           /\ Msg(type).flag = "none"
  BY NoneTyped, SubChannelAssumption DEF Msg, Message

LEMMA ActTyped ==
    ASSUME NEW type \in {"ResendOffer", "ReAccept", "ForceSign", "ResendCloseOffer",
                         "ReAcceptCloseOffer", "ResendCloseFinalize"},
           NEW pt \in Point, NEW b \in 0 .. TotalCollateral
    PROVE  /\ Act(type, pt, b) \in Action
           /\ Act(type, pt, b).type = type /\ Act(type, pt, b).point = pt
  BY DEF Act, Action

NetTyped == net \in [Party -> Seq(Message)]
SubTyped == sub \in [Party -> SubChannelRecord]

LEMMA SendTyped ==
    ASSUME NetTyped, NEW p \in Party, NEW m \in Message, Send(p, m)
    PROVE  NetTyped'
  BY Others DEF NetTyped, Send

LEMMA ConsumeTyped ==
    ASSUME NetTyped, NEW p \in Party, net[p] # <<>>, Consume(p)
    PROVE  NetTyped'
  BY Others DEF NetTyped, Consume

LEMMA ReplyTyped ==
    ASSUME NetTyped, NEW p \in Party, net[p] # <<>>, NEW m \in Message, Reply(p, m)
    PROVE  NetTyped'
  <1>1. Tail(net[p]) \in Seq(Message) /\ Append(net[Other(p)], m) \in Seq(Message)
    BY Others DEF NetTyped
  <1>2. net' \in [Party -> Seq(Message)]
    BY <1>1, Others DEF NetTyped, Reply
  <1> QED BY <1>2 DEF NetTyped

LEMMA SetSubTyped ==
    ASSUME SubTyped, NEW p \in Party, NEW s \in SubChannelRecord, SetSub(p, s)
    PROVE  SubTyped' /\ sub'[p] = s /\ sub'[Other(p)] = sub[Other(p)]
  BY Others DEF SubTyped, SetSub

LEMMA HeadTyped ==
    ASSUME NetTyped, NEW p \in Party, net[p] # <<>>
    PROVE  Head(net[p]) \in Message /\ Tail(net[p]) \in Seq(Message)
  BY DEF NetTyped

-----------------------------------------------------------------------------
(* Types.  A sub channel that exists has counted a split: the index that   *)
(* get_reconnect_close_finalize undoes is not below zero.                  *)

Counted ==
    \A p \in Party : /\ sub[p].st # "None" \/ sub[p].secrets # {} => sub[p].idx # 0
                     /\ IsFiniteSet(sub[p].secrets)
TypeInv == TypeOK /\ Counted

LEMMA TypeParts ==
    ASSUME TypeInv
    PROVE  SubTyped /\ NetTyped /\ Counted /\ TypeOK
  BY DEF TypeInv, TypeOK, SubTyped, NetTyped

LEMMA Fields ==
    ASSUME TypeInv, NEW p \in Party
    PROVE  /\ sub[p] \in SubChannelRecord /\ sub[p].st \in StateName
           /\ sub[p].isOffer \in BOOLEAN /\ sub[p].idx \in Nat
           /\ sub[p].point \in Point /\ sub[p].split \in Split
           /\ sub[p].balance \in 0 .. TotalCollateral
           /\ sub[p].secrets \in SUBSET (Nat \X Point) /\ IsFiniteSet(sub[p].secrets)
  BY TypeParts DEF SubTyped, SubChannelRecord, Index, Counted

LEMMA Heads ==
    ASSUME TypeInv, NEW p \in Party, net[p] # <<>>
    PROVE  /\ Head(net[p]) \in Message /\ Head(net[p]).point \in Point
           /\ Head(net[p]).split \in Split
           /\ Head(net[p]).balance \in 0 .. TotalCollateral
           /\ Head(net[p]).flag \in ReestablishFlag \cup {"none"}
  BY TypeParts, HeadTyped DEF Message

(* What is left to show of a step that changes one sub channel and sends   *)
(* messages.                                                               *)
RestTyped ==
    /\ dlc \in [Party -> DlcState]
    /\ ln \in [Party -> [open : BOOLEAN, out : {"fund", "glue", "split"}]]
    /\ watch \in [Party -> SUBSET WatchEntry]
    /\ actions \in [Party -> Seq(Action)]
    /\ stored \in [Party -> Seq(Action)]
    /\ conn \in BOOLEAN
    /\ ready \in [Party -> BOOLEAN]
    /\ event \in [Party -> {"none", "holder", "peer"}]
    /\ mempool \subseteq Spend
    /\ spent \in Spend
    /\ outputs \in OutputState
    /\ used \in [disconnects : 0 .. MaxDisconnects, restarts : 0 .. MaxRestarts]
    /\ given \in [Party -> SUBSET Nat]
    /\ held \in [Party -> SUBSET Split]
    /\ torn \in BOOLEAN

LEMMA Reassembled == TypeInv <=> SubTyped /\ NetTyped /\ RestTyped /\ Counted
  BY DEF TypeInv, TypeOK, SubTyped, NetTyped, RestTyped

LEMMA Reassembly ==
    ASSUME SubTyped', NetTyped', RestTyped', Counted'
    PROVE  TypeInv'
  BY DEF TypeInv, TypeOK, SubTyped, NetTyped, RestTyped

LEMMA SetSubCounted ==
    ASSUME TypeInv, NEW p \in Party, NEW s \in SubChannelRecord,
           \/ s.idx # 0
           \/ s.st = sub[p].st /\ s.idx = sub[p].idx /\ s.secrets = sub[p].secrets,
           s.secrets = sub[p].secrets \/ IsFiniteSet(s.secrets), SetSub(p, s)
    PROVE  SubTyped' /\ Counted'
  <1>1. SubTyped' /\ sub'[p] = s /\ sub'[Other(p)] = sub[Other(p)]
    BY TypeParts, SetSubTyped
  <1> QED BY <1>1, TypeParts, Fields, Others DEF Counted

LEMMA EntryTyped ==
    ASSUME TypeInv, NEW p \in Party, NEW e \in WatchEntry, AddWatch(p, e)
    PROVE  watch' \in [Party -> SUBSET WatchEntry]
  BY DEF TypeInv, TypeOK, AddWatch

LEMMA OfferTyped ==
    ASSUME TypeInv, NEW p \in Party, OfferSubChannel(p)
    PROVE  TypeInv'
  <1> DEFINE s2 == [sub[p] EXCEPT !.st = "Offered", !.isOffer = TRUE, !.idx = NextIdx(sub[p]),
                                  !.point = PerSplitPoint(p, NextIdx(sub[p]))]
             m == [Msg("Offer") EXCEPT !.point = s2.point]
  <1>1. NextIdx(sub[p]) \in Nat /\ NextIdx(sub[p]) # 0
        /\ PerSplitPoint(p, NextIdx(sub[p])) \in Point
    BY Fields, PointTyped DEF NextIdx
  <1>2. s2 \in SubChannelRecord /\ s2.idx # 0 /\ s2.secrets = sub[p].secrets /\ s2.point \in Point
    BY <1>1, Fields DEF SubChannelRecord, StateName, Index
  <1>3. SetSub(p, s2) /\ Send(p, m)
    BY DEF OfferSubChannel
  <1>4. m \in Message
    BY <1>2, MsgTyped DEF MessageType, Message
  <1> HIDE DEF s2, m
  <1>5. SubTyped' /\ Counted' /\ NetTyped'
    BY <1>2, <1>3, <1>4, SetSubCounted, SendTyped, TypeParts
  <1>6. RestTyped'
    BY Reassembled DEF RestTyped, OfferSubChannel, SetDlc, DlcState, Torn, actVars, chainVars
  <1> QED BY <1>5, <1>6, Reassembly

LEMMA GetOfferTyped ==
    ASSUME TypeInv, NEW p \in Party, OnSubchannelOffer(p)
    PROVE  TypeInv'
  <1> DEFINE b == sub[p].basePoints \/ sub[p].st = "None"
             s2 == [sub[p] EXCEPT !.st = "Offered", !.isOffer = FALSE, !.idx = NextIdx(sub[p]),
                                  !.point = Head(net[p]).point, !.basePoints = b]
  <1>1. NextIdx(sub[p]) \in Nat /\ NextIdx(sub[p]) # 0 /\ net[p] # <<>>
    BY Fields DEF NextIdx, OnSubchannelOffer, Received
  <1>2. s2 \in SubChannelRecord /\ s2.idx # 0 /\ s2.secrets = sub[p].secrets
    <2>1. b \in BOOLEAN
      OBVIOUS
    <2> HIDE DEF b
    <2> QED BY <1>1, <2>1, Fields, Heads DEF SubChannelRecord, StateName, Index
  <1>3. SetSub(p, s2) /\ Consume(p)
    BY DEF OnSubchannelOffer
  <1> HIDE DEF s2
  <1>4. SubTyped' /\ Counted' /\ NetTyped'
    BY <1>1, <1>2, <1>3, SetSubCounted, ConsumeTyped, TypeParts
  <1>5. RestTyped'
    BY Reassembled DEF RestTyped, OnSubchannelOffer, SetDlc, DlcState, actVars, chainVars,
                       historyVars
  <1> QED BY <1>4, <1>5, Reassembly

LEMMA Exists ==
    ASSUME TypeInv, NEW p \in Party, sub[p].st # "None"
    PROVE  sub[p].idx # 0
  BY TypeParts DEF Counted

LEMMA SetOutTyped ==
    ASSUME TypeInv, NEW p \in Party, NEW o \in {"fund", "glue", "split"}, SetOut(p, o)
    PROVE  ln' \in [Party -> [open : BOOLEAN, out : {"fund", "glue", "split"}]]
  BY DEF TypeInv, TypeOK, SetOut

LEMMA SetDlcTyped ==
    ASSUME TypeInv, NEW p \in Party, NEW d \in DlcState, SetDlc(p, d)
    PROVE  dlc' \in [Party -> DlcState]
  BY DEF TypeInv, TypeOK, SetDlc

LEMMA HoldsTyped ==
    ASSUME TypeInv, NEW p \in Party, NEW t \in Split, Holds(p, t)
    PROVE  held' \in [Party -> SUBSET Split]
  BY DEF TypeInv, TypeOK, Holds

LEMMA AcceptEffectTyped ==
    ASSUME TypeInv, NEW p \in Party, CanAccept(p), AcceptEffect(p)
    PROVE  /\ SubTyped' /\ Counted' /\ NetTyped'
           /\ dlc' \in [Party -> DlcState]
           /\ ln' \in [Party -> [open : BOOLEAN, out : {"fund", "glue", "split"}]]
           /\ watch' \in [Party -> SUBSET WatchEntry]
  <1> DEFINE t == AcceptedSplit(p, sub[p])
             s2 == [sub[p] EXCEPT !.st = "Accepted", !.split = t, !.commits = TRUE]
             m == [Msg("Accept") EXCEPT !.point = t.accept, !.split = t]
             e == [split |-> t, type |-> "SplitTx", idx |-> 0]
  <1>1. t \in Split /\ t.accept \in Point
    BY Fields, PointTyped DEF AcceptedSplit, Split
  <1>2. SetSub(p, s2) /\ Send(p, m) /\ AddWatch(p, e) /\ SetDlc(p, "Accepted")
        /\ SetOut(p, "glue") /\ sub[p].st = "Offered"
    BY DEF AcceptEffect, CanAccept, In
  <1> HIDE DEF t
  <1>3. s2 \in SubChannelRecord /\ s2.idx # 0 /\ s2.secrets = sub[p].secrets
    BY <1>1, <1>2, Fields, Exists DEF SubChannelRecord, StateName, Index
  <1>4. m \in Message
    BY <1>1, MsgTyped DEF MessageType, Message
  <1>5. e \in WatchEntry
    BY <1>1 DEF WatchEntry, Index
  <1>6. dlc' \in [Party -> DlcState]
    BY <1>2 DEF TypeInv, TypeOK, SetDlc, DlcState
  <1> HIDE DEF s2, m, e
  <1> QED
    BY <1>2, <1>3, <1>4, <1>5, <1>6, SetSubCounted, SendTyped, TypeParts, EntryTyped, SetOutTyped

LEMMA AcceptTyped ==
    ASSUME TypeInv, NEW p \in Party, AcceptSubChannel(p)
    PROVE  TypeInv'
  <1>1. CanAccept(p) /\ AcceptEffect(p)
    BY DEF AcceptSubChannel
  <1>2. RestTyped'
    BY <1>1, AcceptEffectTyped, Reassembled
       DEF RestTyped, AcceptSubChannel, Torn, actVars, chainVars
  <1> QED BY <1>1, <1>2, AcceptEffectTyped, Reassembly

LEMMA ConfirmTyped ==
    ASSUME TypeInv, NEW p \in Party, OnSubchannelAccept(p)
    PROVE  TypeInv'
  <1> DEFINE t == OfferedSplit(sub[p], Head(net[p]))
             s2 == [sub[p] EXCEPT !.st = "Confirmed", !.split = t,
                                  !.basePoints = TRUE, !.commits = TRUE]
             m == [Msg("Confirm") EXCEPT !.split = t]
             e == [split |-> t, type |-> "SplitTx", idx |-> 0]
  <1>1. SetSub(p, s2) /\ Reply(p, m) /\ AddWatch(p, e) /\ SetDlc(p, "Signed")
        /\ SetOut(p, "glue") /\ sub[p].st = "Offered" /\ net[p] # <<>>
    BY DEF OnSubchannelAccept, CanConfirm, In, Received
  <1>2. t \in Split
    BY <1>1, Fields, Heads DEF OfferedSplit, Split
  <1> HIDE DEF t
  <1>3. s2 \in SubChannelRecord /\ s2.idx # 0 /\ s2.secrets = sub[p].secrets
    BY <1>1, <1>2, Fields, Exists DEF SubChannelRecord, StateName, Index
  <1>4. m \in Message
    BY <1>2, MsgTyped DEF MessageType, Message
  <1>5. e \in WatchEntry
    BY <1>2 DEF WatchEntry, Index
  <1>6. RestTyped'
    <2>1. dlc' \in [Party -> DlcState]
      BY <1>1 DEF TypeInv, TypeOK, SetDlc, DlcState
    <2> HIDE DEF s2, m, e
    <2>2. watch' \in [Party -> SUBSET WatchEntry]
      BY <1>1, <1>5, EntryTyped
    <2>3. ln' \in [Party -> [open : BOOLEAN, out : {"fund", "glue", "split"}]]
      BY <1>1, SetOutTyped
    <2> QED
      BY <2>1, <2>2, <2>3, Reassembled
         DEF RestTyped, OnSubchannelAccept, actVars, chainVars, historyVars
  <1> HIDE DEF s2, m, e
  <1>7. SubTyped' /\ Counted' /\ NetTyped'
    BY <1>1, <1>3, <1>4, SetSubCounted, ReplyTyped, TypeParts
  <1> QED BY <1>6, <1>7, Reassembly

LEMMA InvalidTyped ==
    ASSUME TypeInv, NEW p \in Party,
           \/ OnSubchannelAcceptInvalid(p) \/ OnSubChannelCloseAcceptInvalid(p)
           \/ OnSubChannelMessageError(p)
    PROVE  TypeInv'
  <1>1. net[p] # <<>> /\ Consume(p) /\ UNCHANGED sub
    BY DEF OnSubchannelAcceptInvalid, OnSubChannelCloseAcceptInvalid, OnSubChannelMessageError,
           Received, subVars
  <1>2. SubTyped' /\ Counted' /\ NetTyped'
    BY <1>1, ConsumeTyped, TypeParts DEF SubTyped, Counted
  <1>3. ln' \in [Party -> [open : BOOLEAN, out : {"fund", "glue", "split"}]]
    BY SetOutTyped, Reassembled
       DEF RestTyped, OnSubchannelAcceptInvalid, OnSubChannelCloseAcceptInvalid,
           OnSubChannelMessageError
  <1>4. RestTyped'
    BY <1>3, Reassembled
       DEF RestTyped, OnSubchannelAcceptInvalid, OnSubChannelCloseAcceptInvalid,
           OnSubChannelMessageError, subVars, actVars, chainVars, historyVars
  <1> QED BY <1>2, <1>4, Reassembly

LEMMA FinalizeTyped ==
    ASSUME TypeInv, NEW p \in Party, OnSubchannelConfirm(p) \/ OnSubChannelFinalize(p)
    PROVE  TypeInv'
  <1>1. PICK st \in {"Finalized", "Signed"}, m \in Message :
           /\ SetSub(p, [sub[p] EXCEPT !.st = st, !.commits = FALSE])
           /\ net[p] # <<>> /\ sub[p].st # "None"
           /\ Reply(p, m)
    <2>1. CASE OnSubchannelConfirm(p)
      <3>1. [Msg("Finalize") EXCEPT !.split = sub[p].split] \in Message
        BY MsgTyped, Fields DEF MessageType, Message
      <3> QED BY <2>1, <3>1 DEF OnSubchannelConfirm, Received, CanFinalize, In
    <2>2. CASE OnSubChannelFinalize(p)
      <3>1. Msg("Revoke") \in Message
        BY MsgTyped DEF MessageType
      <3> QED BY <2>2, <3>1 DEF OnSubChannelFinalize, Received, CanSign, In
    <2> QED BY <2>1, <2>2
  <1> DEFINE s2 == [sub[p] EXCEPT !.st = st, !.commits = FALSE]
  <1>2. s2 \in SubChannelRecord /\ s2.idx # 0 /\ s2.secrets = sub[p].secrets
    BY <1>1, Fields, Exists DEF SubChannelRecord, StateName
  <1>3. SetSub(p, s2)
    BY <1>1
  <1> HIDE DEF s2
  <1>4. SubTyped' /\ Counted' /\ NetTyped'
    BY <1>1, <1>2, <1>3, SetSubCounted, ReplyTyped, TypeParts
  <1>5. held' \in [Party -> SUBSET Split] /\ dlc' \in [Party -> DlcState]
    <2>1. Holds(p, sub[p].split) /\ SetDlc(p, "Confirmed")
      BY DEF OnSubchannelConfirm, OnSubChannelFinalize
    <2> QED BY <2>1, Fields, HoldsTyped, SetDlcTyped DEF DlcState
  <1>6. RestTyped'
    BY <1>5, Reassembled
       DEF RestTyped, OnSubchannelConfirm, OnSubChannelFinalize, actVars, chainVars
  <1> QED BY <1>4, <1>6, Reassembly

LEMMA Restated ==
    ASSUME TypeInv, NEW p \in Party, sub[p].st # "None", NEW st \in StateName
    PROVE  /\ [sub[p] EXCEPT !.st = st] \in SubChannelRecord
           /\ [sub[p] EXCEPT !.st = st].idx # 0
           /\ [sub[p] EXCEPT !.st = st].secrets = sub[p].secrets
  BY Fields, Exists DEF SubChannelRecord

LEMMA RestatedTyped ==
    ASSUME TypeInv, NEW p \in Party, sub[p].st # "None", NEW st \in StateName,
           SetSub(p, [sub[p] EXCEPT !.st = st])
    PROVE  SubTyped' /\ Counted'
  <1> DEFINE s2 == [sub[p] EXCEPT !.st = st]
  <1>1. s2 \in SubChannelRecord /\ s2.idx # 0 /\ s2.secrets = sub[p].secrets
    BY Restated
  <1>2. SetSub(p, s2)
    OBVIOUS
  <1> HIDE DEF s2
  <1> QED BY <1>1, <1>2, SetSubCounted

LEMMA RevokeTyped ==
    ASSUME TypeInv, NEW p \in Party, OnSubChannelRevoke(p)
    PROVE  TypeInv'
  <1>1. SubTyped' /\ Counted' /\ NetTyped'
    BY RestatedTyped, ConsumeTyped, TypeParts
       DEF OnSubChannelRevoke, CanRevoke, In, Received, StateName
  <1>2. RestTyped'
    BY Reassembled DEF RestTyped, OnSubChannelRevoke, actVars, chainVars, historyVars
  <1> QED BY <1>1, <1>2, Reassembly

LEMMA RejectTyped ==
    ASSUME TypeInv, NEW p \in Party,
           RejectSubChannelOffer(p) \/ RejectSubChannelCloseOffer(p) \/ OnSubChannelReject(p)
    PROVE  TypeInv'
  <1>1. SubTyped' /\ Counted'
    BY RestatedTyped
       DEF RejectSubChannelOffer, RejectSubChannelCloseOffer, OnSubChannelReject, In, StateName
  <1>2. NetTyped'
    <2>1. Msg("Reject") \in Message
      BY MsgTyped DEF MessageType
    <2> QED
      BY <2>1, SendTyped, ConsumeTyped, TypeParts
         DEF RejectSubChannelOffer, RejectSubChannelCloseOffer, OnSubChannelReject, Received
  <1>3. RestTyped'
    BY Reassembled
       DEF RestTyped, RejectSubChannelOffer, RejectSubChannelCloseOffer, OnSubChannelReject,
           Torn, actVars, chainVars, historyVars
  <1> QED BY <1>1, <1>2, <1>3, Reassembly

LEMMA OfferCloseTyped ==
    ASSUME TypeInv, NEW p \in Party, NEW b \in 0 .. TotalCollateral,
           OfferSubchannelClose(p, b)
    PROVE  TypeInv'
  <1> DEFINE s2 == [sub[p] EXCEPT !.st = "CloseOffered", !.ours = TRUE, !.balance = b]
             m == [Msg("CloseOffer") EXCEPT !.balance = b]
  <1>1. SetSub(p, s2) /\ Send(p, m) /\ sub[p].st = "Signed"
    BY DEF OfferSubchannelClose, In
  <1>2. s2 \in SubChannelRecord /\ s2.idx # 0 /\ s2.secrets = sub[p].secrets
    BY <1>1, Fields, Exists DEF SubChannelRecord, StateName
  <1>3. m \in Message
    BY MsgTyped DEF MessageType, Message
  <1> HIDE DEF s2, m
  <1>4. SubTyped' /\ Counted' /\ NetTyped'
    BY <1>1, <1>2, <1>3, SetSubCounted, SendTyped, TypeParts
  <1>5. RestTyped'
    BY Reassembled DEF RestTyped, OfferSubchannelClose, Torn, actVars, chainVars
  <1> QED BY <1>4, <1>5, Reassembly

LEMMA GetOfferCloseTyped ==
    ASSUME TypeInv, NEW p \in Party, OnSubChannelCloseOffer(p)
    PROVE  TypeInv'
  <1> DEFINE s2 == [sub[p] EXCEPT !.st = "CloseOffered", !.ours = FALSE,
                                  !.balance = Head(net[p]).balance]
  <1>1. /\ net[p] # <<>> /\ Consume(p)
        /\ (SetSub(p, s2) /\ sub[p].st = "Signed") \/ UNCHANGED sub
    BY DEF OnSubChannelCloseOffer, In, Received
  <1>2. ASSUME sub[p].st = "Signed" PROVE s2 \in SubChannelRecord /\ s2.idx # 0 /\ s2.secrets = sub[p].secrets
    BY <1>1, <1>2, Fields, Heads, Exists DEF SubChannelRecord, StateName
  <1> HIDE DEF s2
  <1>3. SubTyped' /\ Counted'
    BY <1>1, <1>2, SetSubCounted, TypeParts DEF SubTyped, Counted
  <1>4. NetTyped'
    BY <1>1, ConsumeTyped, TypeParts
  <1>5. RestTyped'
    BY Reassembled DEF RestTyped, OnSubChannelCloseOffer, actVars, chainVars, historyVars
  <1> QED BY <1>3, <1>4, <1>5, Reassembly

LEMMA AcceptCloseEffectTyped ==
    ASSUME TypeInv, NEW p \in Party, CanAcceptClose(p), AcceptCloseEffect(p)
    PROVE  /\ SubTyped' /\ Counted' /\ NetTyped'
           /\ ln' \in [Party -> [open : BOOLEAN, out : {"fund", "glue", "split"}]]
  <1> DEFINE s2 == [sub[p] EXCEPT !.st = "CloseAccepted", !.commits = TRUE]
             m == [Msg("CloseAccept") EXCEPT !.balance = sub[p].balance]
  <1>1. SetSub(p, s2) /\ Send(p, m) /\ SetOut(p, "fund") /\ sub[p].st = "CloseOffered"
    BY DEF AcceptCloseEffect, CanAcceptClose, In
  <1>2. s2 \in SubChannelRecord /\ s2.idx # 0 /\ s2.secrets = sub[p].secrets
    BY <1>1, Fields, Exists DEF SubChannelRecord, StateName
  <1>3. m \in Message
    BY MsgTyped, Fields DEF MessageType, Message
  <1> HIDE DEF s2, m
  <1> QED
    BY <1>1, <1>2, <1>3, SetSubCounted, SendTyped, SetOutTyped, TypeParts

LEMMA AcceptCloseTyped ==
    ASSUME TypeInv, NEW p \in Party, AcceptSubchannelCloseOffer(p)
    PROVE  TypeInv'
  <1>1. CanAcceptClose(p) /\ AcceptCloseEffect(p)
    BY DEF AcceptSubchannelCloseOffer
  <1>2. RestTyped'
    BY <1>1, AcceptCloseEffectTyped, Reassembled
       DEF RestTyped, AcceptSubchannelCloseOffer, Torn, actVars, chainVars
  <1> QED BY <1>1, <1>2, AcceptCloseEffectTyped, Reassembly

LEMMA GivesTyped ==
    ASSUME TypeInv, NEW p \in Party, Gives(p)
    PROVE  given' \in [Party -> SUBSET Nat]
  <1>1. Closes(sub[p]) \in Nat
    BY Fields, FS_CardinalityType DEF Closes
  <1> QED BY <1>1 DEF TypeInv, TypeOK, Gives

LEMMA CloseAcceptTyped ==
    ASSUME TypeInv, NEW p \in Party, OnSubChannelCloseAccept(p)
    PROVE  TypeInv'
  <1> DEFINE b == OfferBalance(sub[p])
             s2 == [sub[p] EXCEPT !.st = "CloseConfirmed", !.commits = TRUE, !.balance = b,
                                  !.checkLnSecret = TRUE]
             m == [Msg("CloseConfirm") EXCEPT !.point = PerSplitPoint(p, sub[p].idx),
                                              !.balance = sub[p].balance]
  <1>1. SetSub(p, s2) /\ Reply(p, m) /\ SetOut(p, "fund") /\ sub[p].st = "CloseOffered"
        /\ net[p] # <<>> /\ Gives(p)
    BY DEF OnSubChannelCloseAccept, CanConfirmClose, In, Received
  <1>2. b \in 0 .. TotalCollateral
    BY Fields, SubChannelAssumption DEF OfferBalance
  <1> HIDE DEF b
  <1>3. s2 \in SubChannelRecord /\ s2.idx # 0 /\ s2.secrets = sub[p].secrets
    BY <1>1, <1>2, Fields, Exists DEF SubChannelRecord, StateName
  <1>4. m \in Message
    BY MsgTyped, Fields, PointTyped DEF MessageType, Message
  <1> HIDE DEF s2, m
  <1>5. SubTyped' /\ Counted' /\ NetTyped'
    BY <1>1, <1>3, <1>4, SetSubCounted, ReplyTyped, TypeParts
  <1>6. ln' \in [Party -> [open : BOOLEAN, out : {"fund", "glue", "split"}]]
        /\ given' \in [Party -> SUBSET Nat]
    BY <1>1, SetOutTyped, GivesTyped
  <1>7. RestTyped'
    BY <1>6, Reassembled DEF RestTyped, OnSubChannelCloseAccept, actVars, chainVars
  <1> QED BY <1>5, <1>7, Reassembly

LEMMA StoreSecretTyped ==
    ASSUME TypeInv, NEW p \in Party, NEW pt \in Point
    PROVE  /\ StoreSecret(sub[p], pt) \in SUBSET (Nat \X Point)
           /\ IsFiniteSet(StoreSecret(sub[p], pt))
  <1> DEFINE S == {e \in sub[p].secrets : e[1] # sub[p].idx}
  <1>1. S \subseteq sub[p].secrets /\ sub[p].secrets \in SUBSET (Nat \X Point)
        /\ IsFiniteSet(sub[p].secrets) /\ sub[p].idx \in Nat
    BY Fields
  <1>2. IsFiniteSet(S)
    BY <1>1, FS_Subset
  <1>3. StoreSecret(sub[p], pt) = S \cup {<<sub[p].idx, pt>>}
    BY DEF StoreSecret
  <1>4. <<sub[p].idx, pt>> \in Nat \X Point
    BY <1>1
  <1> HIDE DEF S
  <1>5. StoreSecret(sub[p], pt) \in SUBSET (Nat \X Point)
    BY <1>1, <1>3, <1>4
  <1>6. IsFiniteSet(S \cup {<<sub[p].idx, pt>>})
    BY <1>2, FS_AddElement
  <1> QED BY <1>3, <1>5, <1>6

LEMMA RevokedTyped ==
    ASSUME TypeInv, NEW p \in Party
    PROVE  RevokedEntry(sub[p]) \in WatchEntry
  BY Fields DEF RevokedEntry, WatchEntry, Index

LEMMA OffChainTyped ==
    ASSUME TypeInv, NEW p \in Party, NEW m \in Message, OffChainClosed(p, m),
           sub[p].st # "None"
    PROVE  /\ SubTyped' /\ Counted'
           /\ dlc' \in [Party -> DlcState]
           /\ watch' \in [Party -> SUBSET WatchEntry]
  <1> DEFINE S == StoreSecret(sub[p], m.point)
             s2 == [sub[p] EXCEPT !.st = "OffChainClosed", !.commits = FALSE, !.secrets = S]
  <1>1. SetSub(p, s2) /\ SetDlc(p, "CollaborativelyClosed") /\ AddWatch(p, RevokedEntry(sub[p]))
    BY DEF OffChainClosed
  <1>2. S \in SUBSET (Nat \X Point) /\ IsFiniteSet(S)
    BY StoreSecretTyped DEF Message
  <1> HIDE DEF S
  <1>3. s2 \in SubChannelRecord /\ s2.idx # 0 /\ IsFiniteSet(s2.secrets)
    BY <1>2, Fields, Exists DEF SubChannelRecord, StateName, Index
  <1> HIDE DEF s2
  <1>4. SubTyped' /\ Counted'
    BY <1>1, <1>3, SetSubCounted
  <1> QED
    BY <1>1, <1>4, RevokedTyped, EntryTyped, SetDlcTyped DEF DlcState

LEMMA CloseConfirmTyped ==
    ASSUME TypeInv, NEW p \in Party, OnSubChannelCloseConfirm(p)
    PROVE  TypeInv'
  <1> DEFINE m == [Msg("CloseFinalize") EXCEPT !.point = PerSplitPoint(p, sub[p].idx),
                                               !.lnSecret = TRUE]
  <1>1. net[p] # <<>> /\ OffChainClosed(p, Head(net[p])) /\ Gives(p) /\ Reply(p, m)
        /\ sub[p].st = "CloseAccepted"
    BY DEF OnSubChannelCloseConfirm, CanCloseOff, In, Received
  <1>2. m \in Message
    BY MsgTyped, Fields, PointTyped DEF MessageType, Message
  <1> HIDE DEF m
  <1>3. SubTyped' /\ Counted' /\ NetTyped'
    BY <1>1, <1>2, Heads, OffChainTyped, ReplyTyped, TypeParts
  <1>4. RestTyped'
    BY <1>1, Heads, OffChainTyped, GivesTyped, Reassembled
       DEF RestTyped, OnSubChannelCloseConfirm, actVars, chainVars
  <1> QED BY <1>3, <1>4, Reassembly

LEMMA CloseFinalizeTyped ==
    ASSUME TypeInv, NEW p \in Party, OnSubChannelCloseFinalize(p)
    PROVE  TypeInv'
  <1>1. /\ net[p] # <<>> /\ Consume(p) /\ sub[p].st = "CloseConfirmed"
        /\ \/ OffChainClosed(p, Head(net[p]))
           \/ AddWatch(p, RevokedEntry(sub[p])) /\ UNCHANGED <<sub, dlc>>
    BY DEF OnSubChannelCloseFinalize, CanFinalizeClose, In, Received, subVars
  <1>2. NetTyped'
    BY <1>1, ConsumeTyped, TypeParts
  <1>3. /\ SubTyped' /\ Counted'
        /\ dlc' \in [Party -> DlcState]
        /\ watch' \in [Party -> SUBSET WatchEntry]
    <2>1. CASE OffChainClosed(p, Head(net[p]))
      BY <1>1, <2>1, Heads, OffChainTyped
    <2>2. CASE AddWatch(p, RevokedEntry(sub[p])) /\ UNCHANGED <<sub, dlc>>
      BY <2>2, TypeParts, RevokedTyped, EntryTyped, Reassembled DEF SubTyped, Counted, RestTyped
    <2> QED BY <1>1, <2>1, <2>2
  <1>4. RestTyped'
    BY <1>3, Reassembled
       DEF RestTyped, OnSubChannelCloseFinalize, actVars, chainVars, historyVars
  <1> QED BY <1>2, <1>3, <1>4, Reassembly

(* What on_channel_reestablish can do to a sub channel: leave its state,   *)
(* take a split that is not set up back to the offer, or a merge back to   *)
(* the offer to close; and what it leaves to do.                           *)
Kept(s, s2) ==
    /\ s2.idx = s.idx /\ s2.isOffer = s.isOffer /\ s2.point = s.point
    /\ s2.split = s.split /\ s2.secrets = s.secrets
OfferAgain(p, s) ==
    CASE s.st = "Accepted" -> s.split.offer
      [] s.st = "Confirmed" -> OwnPoint(p, s.split)
      [] s.st = "Finalized" -> CounterPoint(p, s.split)
Returned(p, s, flag, s2) ==
    \/ s2.st = s.st /\ Kept(s, s2)
    \/ /\ s.st \in {"Accepted", "Confirmed", "Finalized"} /\ s2.st = "Offered"
       /\ s2.idx = s.idx /\ s2.isOffer = s.isOffer /\ s2.split = s.split
       /\ s2.secrets = s.secrets /\ s2.point = OfferAgain(p, s)
    \/ /\ s.st = "CloseAccepted" \/ (s.st = "CloseConfirmed" /\ flag = "CloseAccepted")
       /\ s2.st = "CloseOffered" /\ Kept(s, s2)
NewAction(p, s, flag, a) ==
    /\ a.type = "ResendOffer" => s.st = "Offered" /\ s.isOffer /\ a.point = s.point
    /\ a.type = "ResendCloseFinalize" =>
         /\ flag = "CloseConfirmed"
         /\ \/ s.st = "Offered" /\ a.point = PerSplitPoint(p, s.idx - 1)
            \/ s.st = "OffChainClosed" /\ a.point = PerSplitPoint(p, s.idx)
RepairOk(p, flag, r) ==
    /\ r.sub \in SubChannelRecord /\ Returned(p, sub[p], flag, r.sub)
    /\ r.dlc \in DlcState /\ r.out \in {"fund", "glue", "split"}
    /\ r.list \in Seq(Action)
    /\ \A i \in 1 .. Len(r.list) : NewAction(p, sub[p], flag, r.list[i])

LEMMA Outer ==
    ASSUME TypeInv, NEW p \in Party
    PROVE  dlc[p] \in DlcState /\ ln[p].out \in {"fund", "glue", "split"}
  BY DEF TypeInv, TypeOK

LEMMA TodoOk ==
    ASSUME TypeInv, NEW p \in Party, NEW flag, NEW list \in Seq(Action),
           \A i \in 1 .. Len(list) : NewAction(p, sub[p], flag, list[i])
    PROVE  RepairOk(p, flag, Todo(p, list))
  <1> DEFINE r == Todo(p, list)
  <1>1. r.sub = sub[p] /\ r.dlc = dlc[p] /\ r.out = ln[p].out /\ r.list = list
    BY DEF Todo, Repair
  <1>2. Returned(p, sub[p], flag, sub[p])
    BY DEF Returned, Kept
  <1> HIDE DEF r
  <1>3. RepairOk(p, flag, r)
    BY <1>1, <1>2, Outer, Fields DEF RepairOk
  <1> QED BY <1>3 DEF r

LEMMA NoRepairOk ==
    ASSUME TypeInv, NEW p \in Party, NEW flag
    PROVE  RepairOk(p, flag, NoRepair(p))
  <1>1. <<>> \in Seq(Action) /\ Len(<<>>) = 0
    OBVIOUS
  <1>2. NoRepair(p) = Todo(p, <<>>)
    BY DEF NoRepair, Todo
  <1>3. \A i \in 1 .. Len(<<>>) : NewAction(p, sub[p], flag, <<>>[i])
    BY <1>1
  <1> QED BY <1>1, <1>2, <1>3, TodoOk

LEMMA OneAction ==
    ASSUME TypeInv, NEW p \in Party, NEW a \in Action, NEW flag, NewAction(p, sub[p], flag, a)
    PROVE  <<a>> \in Seq(Action) /\ \A i \in 1 .. Len(<<a>>) : NewAction(p, sub[p], flag, <<a>>[i])
  <1>1. <<a>> \in Seq(Action) /\ Len(<<a>>) = 1 /\ <<a>>[1] = a
    OBVIOUS
  <1>2. \A i \in 1 .. 1 : i = 1
    OBVIOUS
  <1> QED BY <1>1, <1>2

LEMMA OfferedOk ==
    ASSUME TypeInv, NEW p \in Party, NEW flag, sub[p].st = "Offered"
    PROVE  RepairOk(p, flag, ReestablishOffered(p, flag))
  <1> DEFINE a == Act("ResendOffer", sub[p].point, 0)
             b == ResendCloseFinalize(p, TRUE)
  <1>1. a \in Action /\ a.type = "ResendOffer" /\ a.point = sub[p].point
    BY Fields, ActTyped, SubChannelAssumption
  <1>2. b \in Action /\ b.type = "ResendCloseFinalize"
        /\ b.point = PerSplitPoint(p, sub[p].idx - 1)
    <2>1. sub[p].idx - 1 \in Nat
      BY Fields, Exists
    <2> QED BY <2>1, PointTyped, ActTyped, SubChannelAssumption DEF ResendCloseFinalize
  <1>3. sub[p].isOffer => NewAction(p, sub[p], flag, a)
    BY <1>1 DEF NewAction
  <1>4. flag = "CloseConfirmed" => NewAction(p, sub[p], flag, b)
    BY <1>2 DEF NewAction
  <1>5. \/ ReestablishOffered(p, flag) = NoRepair(p)
        \/ /\ sub[p].isOffer
           /\ \/ /\ flag = "CloseConfirmed"
                 /\ ReestablishOffered(p, flag) = Todo(p, <<b>> \o <<a>>)
              \/ ReestablishOffered(p, flag) = Todo(p, <<>> \o <<a>>)
    BY DEF ReestablishOffered
  <1> HIDE DEF a, b
  <1>6. <<>> \o <<a>> = <<a>>
    OBVIOUS
  <1>7. ASSUME sub[p].isOffer, flag = "CloseConfirmed"
        PROVE  /\ <<b>> \o <<a>> \in Seq(Action)
               /\ \A i \in 1 .. Len(<<b>> \o <<a>>) : NewAction(p, sub[p], flag, (<<b>> \o <<a>>)[i])
    <2> DEFINE u == <<b>>
               v == <<a>>
    <2>1. u \in Seq(Action) /\ v \in Seq(Action) /\ Len(u) = 1 /\ Len(v) = 1
          /\ u[1] = b /\ v[1] = a
      BY <1>1, <1>2
    <2> HIDE DEF u, v
    <2>2. u \o v \in Seq(Action) /\ Len(u \o v) = 2 /\ (u \o v)[1] = b /\ (u \o v)[2] = a
      BY <2>1, ConcatProperties
    <2>3. \A i \in 1 .. 2 : i = 1 \/ i = 2
      OBVIOUS
    <2>4. u \o v \in Seq(Action) /\ \A i \in 1 .. Len(u \o v) : NewAction(p, sub[p], flag, (u \o v)[i])
      BY <1>3, <1>4, <1>7, <2>2, <2>3
    <2> QED BY <2>4 DEF u, v
  <1> QED
    BY <1>1, <1>3, <1>5, <1>6, <1>7, NoRepairOk, TodoOk, OneAction

LEMMA BackToOfferedOk ==
    ASSUME TypeInv, NEW p \in Party, NEW flag, NEW list \in Seq(Action),
           \A i \in 1 .. Len(list) : NewAction(p, sub[p], flag, list[i]),
           sub[p].st \in {"Accepted", "Confirmed", "Finalized"}
    PROVE  RepairOk(p, flag, BackToOffered(p, OfferAgain(p, sub[p]), list))
  <1> DEFINE pt == OfferAgain(p, sub[p])
             s2 == [sub[p] EXCEPT !.st = "Offered", !.point = pt, !.commits = FALSE]
             r == BackToOffered(p, pt, list)
  <1>1. pt \in Point
    BY Fields, SidesTyped DEF OfferAgain, Split
  <1> HIDE DEF pt
  <1>2. s2 \in SubChannelRecord /\ s2.st = "Offered" /\ s2.idx = sub[p].idx
        /\ s2.isOffer = sub[p].isOffer /\ s2.split = sub[p].split
        /\ s2.secrets = sub[p].secrets /\ s2.point = pt
    BY <1>1, Fields DEF SubChannelRecord, StateName
  <1>3. r.sub = s2 /\ r.dlc = "Offered" /\ r.out = "fund" /\ r.list = list
    BY DEF BackToOffered, Repair
  <1> HIDE DEF s2, r
  <1>4. Returned(p, sub[p], flag, s2)
    BY <1>2 DEF Returned, pt
  <1>5. RepairOk(p, flag, r)
    BY <1>2, <1>3, <1>4 DEF RepairOk, DlcState
  <1> QED BY <1>5 DEF r, pt

LEMMA PlainActions ==
    ASSUME TypeInv, NEW p \in Party, NEW flag, NEW b \in 0 .. TotalCollateral,
           NEW type \in {"ReAccept", "ForceSign", "ResendCloseOffer", "ReAcceptCloseOffer"}
    PROVE  /\ <<Act(type, NoPoint, b)>> \in Seq(Action)
           /\ \A i \in 1 .. Len(<<Act(type, NoPoint, b)>>) :
                NewAction(p, sub[p], flag, <<Act(type, NoPoint, b)>>[i])
  <1> DEFINE a == Act(type, NoPoint, b)
  <1>1. a \in Action /\ a.type = type
    BY NoneTyped, ActTyped
  <1>2. NewAction(p, sub[p], flag, a)
    BY <1>1 DEF NewAction
  <1> QED BY <1>1, <1>2, OneAction

LEMMA BackToCloseOk ==
    ASSUME TypeInv, NEW p \in Party, NEW flag, NEW ours \in BOOLEAN,
           NEW b \in 0 .. TotalCollateral, NEW list \in Seq(Action),
           \A i \in 1 .. Len(list) : NewAction(p, sub[p], flag, list[i]),
           sub[p].st = "CloseAccepted" \/ (sub[p].st = "CloseConfirmed" /\ flag = "CloseAccepted")
    PROVE  RepairOk(p, flag, BackToCloseOffered(p, ours, b, list))
  <1> DEFINE s2 == [sub[p] EXCEPT !.st = "CloseOffered", !.ours = ours, !.balance = b,
                                  !.commits = FALSE, !.checkLnSecret = FALSE]
             r == BackToCloseOffered(p, ours, b, list)
  <1>1. s2 \in SubChannelRecord /\ s2.st = "CloseOffered" /\ Kept(sub[p], s2)
    BY Fields DEF SubChannelRecord, StateName, Kept
  <1>2. r.sub = s2 /\ r.dlc = dlc[p] /\ r.out = "glue" /\ r.list = list
    BY DEF BackToCloseOffered, Repair
  <1> HIDE DEF s2, r
  <1>3. Returned(p, sub[p], flag, s2)
    BY <1>1 DEF Returned
  <1>4. RepairOk(p, flag, r)
    BY <1>1, <1>2, <1>3, Outer DEF RepairOk
  <1> QED BY <1>4 DEF r

LEMMA CloseConfirmedOk ==
    ASSUME TypeInv, NEW p \in Party, NEW flag, sub[p].st = "CloseConfirmed"
    PROVE  RepairOk(p, flag, ReestablishCloseConfirmed(p, flag))
  <1>1. <<>> \in Seq(Action) /\ \A i \in 1 .. Len(<<>>) : NewAction(p, sub[p], flag, <<>>[i])
    OBVIOUS
  <1>2. CASE flag = "CloseAccepted"
    <2>1. TotalCollateral - sub[p].balance \in 0 .. TotalCollateral
      BY Fields, SubChannelAssumption
    <2>2. ReestablishCloseConfirmed(p, flag)
            = BackToCloseOffered(p, TRUE, TotalCollateral - sub[p].balance, <<>>)
      BY <1>2 DEF ReestablishCloseConfirmed
    <2> QED BY <1>1, <1>2, <2>1, <2>2, BackToCloseOk
  <1>3. CASE flag = "none"
    <2>1. ReestablishCloseConfirmed(p, flag) = NoRepair(p)
      BY <1>3 DEF ReestablishCloseConfirmed
    <2> QED BY <2>1, NoRepairOk
  <1>4. CASE flag \notin {"CloseAccepted", "none"}
    <2> DEFINE s2 == [sub[p] EXCEPT !.checkLnSecret = FALSE]
               r == ReestablishCloseConfirmed(p, flag)
    <2>1. s2 \in SubChannelRecord /\ s2.st = sub[p].st /\ Kept(sub[p], s2)
      BY Fields DEF SubChannelRecord, Kept
    <2>2. r.sub = s2 /\ r.dlc = dlc[p] /\ r.out = ln[p].out /\ r.list = <<>>
      BY <1>4 DEF ReestablishCloseConfirmed, Repair
    <2> HIDE DEF s2, r
    <2>3. Returned(p, sub[p], flag, s2)
      BY <2>1 DEF Returned
    <2>4. RepairOk(p, flag, r)
      BY <1>1, <2>1, <2>2, <2>3, Outer DEF RepairOk
    <2> QED BY <2>4 DEF r
  <1> QED BY <1>2, <1>3, <1>4

LEMMA SetupOk ==
    ASSUME TypeInv, NEW p \in Party, NEW flag
    PROVE  /\ sub[p].st = "Accepted" => RepairOk(p, flag, ReestablishAccepted(p))
           /\ sub[p].st = "Confirmed" => RepairOk(p, flag, ReestablishConfirmed(p))
           /\ sub[p].st = "Finalized" => RepairOk(p, flag, ReestablishFinalized(p, flag))
  <1>1. <<>> \in Seq(Action) /\ \A i \in 1 .. Len(<<>>) : NewAction(p, sub[p], flag, <<>>[i])
    OBVIOUS
  <1>2. 0 \in 0 .. TotalCollateral
    BY SubChannelAssumption
  <1>3. ReAccept \in Seq(Action) /\ \A i \in 1 .. Len(ReAccept) : NewAction(p, sub[p], flag, ReAccept[i])
    BY <1>2, PlainActions DEF ReAccept
  <1>4. ASSUME sub[p].st = "Accepted" PROVE RepairOk(p, flag, ReestablishAccepted(p))
    <2>1. ReestablishAccepted(p) \in {NoRepair(p), BackToOffered(p, OfferAgain(p, sub[p]), ReAccept)}
      BY <1>4 DEF ReestablishAccepted, OfferAgain
    <2> QED BY <1>3, <1>4, <2>1, NoRepairOk, BackToOfferedOk
  <1>5. ASSUME sub[p].st = "Confirmed" PROVE RepairOk(p, flag, ReestablishConfirmed(p))
    <2>1. ReestablishConfirmed(p) \in {NoRepair(p), BackToOffered(p, OfferAgain(p, sub[p]), <<>>)}
      BY <1>5 DEF ReestablishConfirmed, OfferAgain
    <2> QED BY <1>1, <1>5, <2>1, NoRepairOk, BackToOfferedOk
  <1>6. ASSUME sub[p].st = "Finalized" PROVE RepairOk(p, flag, ReestablishFinalized(p, flag))
    <2>1. ReestablishFinalized(p, flag) \in
            {NoRepair(p), BackToOffered(p, OfferAgain(p, sub[p]), ReAccept),
             Todo(p, <<Act("ForceSign", NoPoint, 0)>>)}
      BY <1>6 DEF ReestablishFinalized, OfferAgain
    <2>2. RepairOk(p, flag, Todo(p, <<Act("ForceSign", NoPoint, 0)>>))
      BY <1>2, PlainActions, TodoOk
    <2> QED BY <1>3, <1>6, <2>1, <2>2, NoRepairOk, BackToOfferedOk
  <1> QED BY <1>4, <1>5, <1>6

LEMMA MergeOk ==
    ASSUME TypeInv, NEW p \in Party, NEW flag
    PROVE  /\ sub[p].st = "CloseOffered" => RepairOk(p, flag, ReestablishCloseOffered(p, flag))
           /\ sub[p].st = "CloseAccepted" => RepairOk(p, flag, ReestablishCloseAccepted(p))
           /\ sub[p].st = "OffChainClosed" => RepairOk(p, flag, ReestablishOffChainClosed(p, flag))
  <1>1. 0 \in 0 .. TotalCollateral
    BY SubChannelAssumption
  <1>2. ASSUME sub[p].st = "CloseOffered"
        PROVE  RepairOk(p, flag, ReestablishCloseOffered(p, flag))
    <2>1. ReestablishCloseOffered(p, flag) \in
            {NoRepair(p), Todo(p, <<Act("ResendCloseOffer", NoPoint, sub[p].balance)>>)}
      BY DEF ReestablishCloseOffered
    <2>2. RepairOk(p, flag, Todo(p, <<Act("ResendCloseOffer", NoPoint, sub[p].balance)>>))
      BY Fields, PlainActions, TodoOk
    <2> QED BY <2>1, <2>2, NoRepairOk
  <1>3. ASSUME sub[p].st = "CloseAccepted" PROVE RepairOk(p, flag, ReestablishCloseAccepted(p))
    <2> DEFINE list == <<Act("ReAcceptCloseOffer", NoPoint, 0)>>
    <2>1. list \in Seq(Action) /\ \A i \in 1 .. Len(list) : NewAction(p, sub[p], flag, list[i])
      BY <1>1, PlainActions
    <2>2. ReestablishCloseAccepted(p) = BackToCloseOffered(p, FALSE, sub[p].balance, list)
      BY DEF ReestablishCloseAccepted
    <2> HIDE DEF list
    <2> QED BY <1>3, <2>1, <2>2, Fields, BackToCloseOk
  <1>4. ASSUME sub[p].st = "OffChainClosed"
        PROVE  RepairOk(p, flag, ReestablishOffChainClosed(p, flag))
    <2> DEFINE a == ResendCloseFinalize(p, FALSE)
    <2>1. a \in Action /\ a.type = "ResendCloseFinalize" /\ a.point = PerSplitPoint(p, sub[p].idx)
      BY <1>1, Fields, PointTyped, ActTyped DEF ResendCloseFinalize
    <2>2. flag = "CloseConfirmed" => NewAction(p, sub[p], flag, a)
      BY <1>4, <2>1 DEF NewAction
    <2>3. \/ ReestablishOffChainClosed(p, flag) = NoRepair(p)
          \/ ReestablishOffChainClosed(p, flag) = Todo(p, <<a>>) /\ flag = "CloseConfirmed"
      BY DEF ReestablishOffChainClosed
    <2> HIDE DEF a
    <2>4. flag = "CloseConfirmed" => RepairOk(p, flag, Todo(p, <<a>>))
      BY <2>1, <2>2, OneAction, TodoOk
    <2> QED BY <2>3, <2>4, NoRepairOk
  <1> QED BY <1>2, <1>3, <1>4

LEMMA RepairedOk ==
    ASSUME TypeInv, NEW p \in Party, NEW flag
    PROVE  RepairOk(p, flag, Repaired(p, flag))
  <1>1. Repaired(p, flag) =
          CASE sub[p].st = "Offered" -> ReestablishOffered(p, flag)
            [] sub[p].st = "Accepted" -> ReestablishAccepted(p)
            [] sub[p].st = "Confirmed" -> ReestablishConfirmed(p)
            [] sub[p].st = "Finalized" -> ReestablishFinalized(p, flag)
            [] sub[p].st = "CloseOffered" -> ReestablishCloseOffered(p, flag)
            [] sub[p].st = "CloseAccepted" -> ReestablishCloseAccepted(p)
            [] sub[p].st = "CloseConfirmed" -> ReestablishCloseConfirmed(p, flag)
            [] sub[p].st = "OffChainClosed" -> ReestablishOffChainClosed(p, flag)
            [] OTHER -> NoRepair(p)
    BY DEF Repaired, In
  <1> QED BY <1>1, OfferedOk, SetupOk, MergeOk, CloseConfirmedOk, NoRepairOk

LEMMA ReturnedTyped ==
    ASSUME TypeInv, NEW p \in Party, OnChannelReestablish(p)
    PROVE  TypeInv'
  <1> DEFINE flag == Head(net[p]).flag
             r == Repaired(p, flag)
  <1>1. /\ net[p] # <<>> /\ SetSub(p, r.sub) /\ SetDlc(p, r.dlc) /\ SetOut(p, r.out)
        /\ Push(p, r.list) /\ Consume(p) /\ ready' = [ready EXCEPT ![p] = TRUE]
    BY DEF OnChannelReestablish, Received
  <1>2. RepairOk(p, flag, r)
    BY RepairedOk
  <1> HIDE DEF r, flag
  <1>3. /\ r.sub \in SubChannelRecord /\ r.sub.secrets = sub[p].secrets
        /\ r.sub.idx # 0 \/ (r.sub.st = sub[p].st /\ r.sub.idx = sub[p].idx)
    BY <1>2, Exists DEF RepairOk, Returned, Kept
  <1>4. SubTyped' /\ Counted' /\ NetTyped'
    BY <1>1, <1>3, SetSubCounted, ConsumeTyped, TypeParts
  <1>5. actions' \in [Party -> Seq(Action)] /\ stored' \in [Party -> Seq(Action)]
    <2>1. actions[p] \o r.list \in Seq(Action)
      BY <1>2, ConcatProperties DEF RepairOk, TypeInv, TypeOK
    <2> QED BY <1>1, <2>1 DEF Push, TypeInv, TypeOK
  <1>6. dlc' \in [Party -> DlcState]
        /\ ln' \in [Party -> [open : BOOLEAN, out : {"fund", "glue", "split"}]]
    BY <1>1, <1>2, SetDlcTyped, SetOutTyped DEF RepairOk
  <1>7. ready' \in [Party -> BOOLEAN]
    BY <1>1 DEF TypeInv, TypeOK
  <1>8. RestTyped'
    BY <1>5, <1>6, <1>7, Reassembled
       DEF RestTyped, OnChannelReestablish, chainVars, historyVars
  <1> QED BY <1>4, <1>8, Reassembly

LEMMA DropTyped ==
    ASSUME TypeInv, Disconnect \/ \E p \in Party : Restart(p)
    PROVE  TypeInv'
  <1>1. DropConnection /\ UNCHANGED sub
    BY DEF Disconnect, Restart, subVars
  <1>2. SubTyped' /\ Counted' /\ NetTyped'
    BY <1>1, TypeParts DEF SubTyped, Counted, NetTyped, DropConnection
  <1>3. conn' \in BOOLEAN /\ ready' \in [Party -> BOOLEAN]
    BY <1>1 DEF DropConnection
  <1>4. used' \in [disconnects : 0 .. MaxDisconnects, restarts : 0 .. MaxRestarts]
    <2>1. used \in [disconnects : 0 .. MaxDisconnects, restarts : 0 .. MaxRestarts]
      BY DEF TypeInv, TypeOK
    <2>2. \/ /\ used.disconnects < MaxDisconnects
             /\ used' = [used EXCEPT !.disconnects = used.disconnects + 1]
          \/ /\ used.restarts < MaxRestarts
             /\ used' = [used EXCEPT !.restarts = used.restarts + 1]
      BY DEF Disconnect, Restart
    <2> QED BY <2>1, <2>2, SubChannelAssumption
  <1>5. actions' \in [Party -> Seq(Action)]
    BY DEF TypeInv, TypeOK, Disconnect, Restart, actVars
  <1>6. RestTyped'
    BY <1>3, <1>4, <1>5, Reassembled
       DEF RestTyped, Disconnect, Restart, Torn, subVars, actVars, chainVars
  <1> QED BY <1>2, <1>6, Reassembly

LEMMA GreetingTyped ==
    ASSUME TypeInv, NEW p \in Party
    PROVE  <<[Msg("Reestablish") EXCEPT !.flag = GetReestablishFlag(sub[p])]>> \in Seq(Message)
  <1>1. GetReestablishFlag(sub[p]) \in ReestablishFlag \cup {"none"}
    BY DEF GetReestablishFlag
  <1>2. [Msg("Reestablish") EXCEPT !.flag = GetReestablishFlag(sub[p])] \in Message
    BY <1>1, MsgTyped DEF MessageType, Message
  <1> QED BY <1>2

LEMMA ReconnectTyped ==
    ASSUME TypeInv, Reconnect
    PROVE  TypeInv'
  <1>1. SubTyped' /\ Counted'
    BY TypeParts DEF SubTyped, Counted, Reconnect, subVars
  <1>2. NetTyped'
    BY GreetingTyped, Others DEF NetTyped, Reconnect
  <1>3. RestTyped'
    BY Reassembled DEF RestTyped, Reconnect, Torn, subVars, actVars, chainVars
  <1> QED BY <1>1, <1>2, <1>3, Reassembly

(* The steps process_actions takes.                                        *)
Dropped(p) == UNCHANGED <<subVars, ln, watch, net>>
Resent(p) ==
    /\ UNCHANGED <<subVars, ln, watch>>
    /\ \E i \in 1 .. Len(actions[p]) :
         LET a == actions[p][i] IN
         \/ /\ a.type = "ResendOffer" /\ Send(p, [Msg("Offer") EXCEPT !.point = a.point])
         \/ /\ a.type = "ResendCloseOffer"
            /\ Send(p, [Msg("CloseOffer") EXCEPT !.balance = a.balance])
         \/ /\ a.type = "ResendCloseFinalize"
            /\ Send(p, [Msg("CloseFinalize") EXCEPT !.point = a.point])
ForceSigned(p) == Usable(p) /\ In(p, "Finalized") /\ MarkChannelSigned(p)

LEMMA ProcessCases ==
    ASSUME TypeInv, NEW p \in Party, ProcessActions(p)
    PROVE  /\ \/ Dropped(p) \/ Resent(p) \/ ForceSigned(p)
              \/ CanAccept(p) /\ AcceptEffect(p)
              \/ CanAcceptClose(p) /\ AcceptCloseEffect(p) /\ UNCHANGED <<dlc, watch>>
           /\ \E i \in 1 .. Len(actions[p]) :
                actions' = [actions EXCEPT ![p] = SubSeq(actions[p], 1, i - 1)
                                                  \o SubSeq(actions[p], i + 1, Len(actions[p]))]
           /\ UNCHANGED <<stored, conn, ready, event, chainVars, used, historyVars>>
  <1>1. PICK i \in 1 .. Len(actions[p]) :
          /\ IF actions[p][i].type \in NeedsChannel /\ ~ln[p].open
             THEN Dropped(p) ELSE Perform(p, actions[p][i])
          /\ actions' = [actions EXCEPT ![p] = SubSeq(actions[p], 1, i - 1)
                                               \o SubSeq(actions[p], i + 1, Len(actions[p]))]
    BY DEF ProcessActions, Dropped
  <1>2. UNCHANGED <<stored, conn, ready, event, chainVars, used, historyVars>>
    BY DEF ProcessActions
  <1>3. actions[p][i] \in Action
    BY DEF TypeInv, TypeOK
  <1>4. ASSUME Perform(p, actions[p][i])
        PROVE  \/ Resent(p) \/ ForceSigned(p)
               \/ CanAccept(p) /\ AcceptEffect(p)
               \/ CanAcceptClose(p) /\ AcceptCloseEffect(p) /\ UNCHANGED <<dlc, watch>>
    BY <1>3, <1>4 DEF Perform, Resend, Resent, ForceSigned, Action
  <1> QED BY <1>1, <1>2, <1>4

LEMMA CutTyped ==
    ASSUME NEW s \in Seq(Action), NEW i \in 1 .. Len(s)
    PROVE  SubSeq(s, 1, i - 1) \o SubSeq(s, i + 1, Len(s)) \in Seq(Action)
  <1>1. SubSeq(s, 1, i - 1) \in Seq(Action) /\ SubSeq(s, i + 1, Len(s)) \in Seq(Action)
    BY SubSeqProperties
  <1> QED BY <1>1, ConcatProperties

LEMMA ResentTyped ==
    ASSUME TypeInv, NEW p \in Party, Resent(p)
    PROVE  \E m \in Message : /\ Send(p, m)
                              /\ \/ m.type = "CloseOffer"
                                 \/ \E i \in 1 .. Len(actions[p]) :
                                      /\ actions[p][i] \in Action
                                      /\ m.point = actions[p][i].point
                                      /\ \/ /\ m.type = "Offer"
                                            /\ actions[p][i].type = "ResendOffer"
                                         \/ /\ m.type = "CloseFinalize"
                                            /\ actions[p][i].type = "ResendCloseFinalize"
  <1>1. PICK i \in 1 .. Len(actions[p]) :
          \/ /\ actions[p][i].type = "ResendOffer"
             /\ Send(p, [Msg("Offer") EXCEPT !.point = actions[p][i].point])
          \/ /\ actions[p][i].type = "ResendCloseOffer"
             /\ Send(p, [Msg("CloseOffer") EXCEPT !.balance = actions[p][i].balance])
          \/ /\ actions[p][i].type = "ResendCloseFinalize"
             /\ Send(p, [Msg("CloseFinalize") EXCEPT !.point = actions[p][i].point])
    BY DEF Resent
  <1>2. actions[p][i] \in Action /\ actions[p][i].point \in Point
        /\ actions[p][i].balance \in 0 .. TotalCollateral
    <2>1. actions[p][i] \in Action
      BY DEF TypeInv, TypeOK
    <2> QED BY <2>1 DEF Action
  <1>3. [Msg("Offer") EXCEPT !.point = actions[p][i].point] \in Message
        /\ [Msg("Offer") EXCEPT !.point = actions[p][i].point].type = "Offer"
        /\ [Msg("Offer") EXCEPT !.point = actions[p][i].point].point = actions[p][i].point
    BY <1>2, MsgTyped DEF MessageType, Message
  <1>4. [Msg("CloseOffer") EXCEPT !.balance = actions[p][i].balance] \in Message
        /\ [Msg("CloseOffer") EXCEPT !.balance = actions[p][i].balance].type = "CloseOffer"
    BY <1>2, MsgTyped DEF MessageType, Message
  <1>5. [Msg("CloseFinalize") EXCEPT !.point = actions[p][i].point] \in Message
        /\ [Msg("CloseFinalize") EXCEPT !.point = actions[p][i].point].type = "CloseFinalize"
        /\ [Msg("CloseFinalize") EXCEPT !.point = actions[p][i].point].point
             = actions[p][i].point
    BY <1>2, MsgTyped DEF MessageType, Message
  <1> QED BY <1>1, <1>2, <1>3, <1>4, <1>5

LEMMA ProcessTyped ==
    ASSUME TypeInv, NEW p \in Party, ProcessActions(p)
    PROVE  TypeInv'
  <1>1. actions' \in [Party -> Seq(Action)]
    <2>1. PICK i \in 1 .. Len(actions[p]) :
            actions' = [actions EXCEPT ![p] = SubSeq(actions[p], 1, i - 1)
                                              \o SubSeq(actions[p], i + 1, Len(actions[p]))]
      BY ProcessCases
    <2>2. actions \in [Party -> Seq(Action)]
      BY DEF TypeInv, TypeOK
    <2>3. SubSeq(actions[p], 1, i - 1) \o SubSeq(actions[p], i + 1, Len(actions[p]))
            \in Seq(Action)
      BY <2>2, CutTyped
    <2> QED BY <2>1, <2>2, <2>3
  <1>2. UNCHANGED <<stored, conn, ready, event, chainVars, used, historyVars>>
    BY ProcessCases
  <1>3. /\ SubTyped' /\ Counted' /\ NetTyped'
        /\ dlc' \in [Party -> DlcState]
        /\ ln' \in [Party -> [open : BOOLEAN, out : {"fund", "glue", "split"}]]
        /\ watch' \in [Party -> SUBSET WatchEntry]
    <2>1. CASE Dropped(p)
      BY <2>1, Reassembled DEF Dropped, subVars, SubTyped, Counted, NetTyped, RestTyped
    <2>2. CASE Resent(p)
      <3>1. NetTyped'
        BY <2>2, ResentTyped, SendTyped, TypeParts
      <3> QED BY <2>2, <3>1, Reassembled DEF Resent, subVars, SubTyped, Counted, RestTyped
    <2>3. CASE ForceSigned(p)
      <3>1. SubTyped' /\ Counted'
        BY <2>3, RestatedTyped DEF ForceSigned, MarkChannelSigned, In, StateName
      <3> QED
        BY <2>3, <3>1, Reassembled DEF ForceSigned, MarkChannelSigned, NetTyped, RestTyped
    <2>4. CASE CanAccept(p) /\ AcceptEffect(p)
      BY <2>4, AcceptEffectTyped
    <2>5. CASE CanAcceptClose(p) /\ AcceptCloseEffect(p) /\ UNCHANGED <<dlc, watch>>
      BY <2>5, AcceptCloseEffectTyped, Reassembled DEF RestTyped
    <2> QED BY <2>1, <2>2, <2>3, <2>4, <2>5, ProcessCases
  <1>4. RestTyped'
    BY <1>1, <1>2, <1>3, Reassembled DEF RestTyped, chainVars, historyVars
  <1> QED BY <1>3, <1>4, Reassembly

-----------------------------------------------------------------------------
(* Closing on chain.                                                       *)

LEMMA SpendTyped ==
    ASSUME NEW p \in Party, NEW t \in Split
    PROVE  CommitBy(p) \in Spend /\ SplitBy(p, t) \in Spend
  BY NoneTyped DEF CommitBy, SplitBy, Spend

LEMMA LdkTyped ==
    ASSUME TypeInv, NEW p \in Party, LdkCloses(p)
    PROVE  ln' \in [Party -> [open : BOOLEAN, out : {"fund", "glue", "split"}]]
  BY DEF TypeInv, TypeOK, LdkCloses

LEMMA LdkBroadcastTyped ==
    ASSUME TypeInv, NEW p \in Party, LdkBroadcast(p)
    PROVE  mempool' \subseteq Spend
  BY SpendTyped, NoneTyped DEF TypeInv, TypeOK, LdkBroadcast

LEMMA EventTyped ==
    ASSUME TypeInv, NEW p \in Party, NEW e \in {"none", "holder", "peer"},
           event' = [event EXCEPT ![p] = e]
    PROVE  event' \in [Party -> {"none", "holder", "peer"}]
  BY DEF TypeInv, TypeOK

LEMMA CleanupTyped ==
    ASSUME TypeInv, NEW p \in Party, CleanupChannel(p)
    PROVE  watch' \in [Party -> SUBSET WatchEntry]
  BY DEF TypeInv, TypeOK, CleanupChannel

(* The parts of the state a way of closing changes.                        *)
ClosingTyped ==
    /\ SubTyped /\ Counted
    /\ dlc \in [Party -> DlcState]
    /\ watch \in [Party -> SUBSET WatchEntry]
    /\ mempool \subseteq Spend

LEMMA WithLdkTyped ==
    ASSUME TypeInv, NEW p \in Party, ForceCloseWithLdk(p)
    PROVE  /\ ClosingTyped'
           /\ ln' \in [Party -> [open : BOOLEAN, out : {"fund", "glue", "split"}]]
           /\ event' \in [Party -> {"none", "holder", "peer"}]
  <1>1. SubTyped' /\ Counted'
    BY RestatedTyped DEF ForceCloseWithLdk, In, StateName
  <1> QED
    BY <1>1, SetDlcTyped, CleanupTyped, LdkTyped, LdkBroadcastTyped, EventTyped
       DEF ForceCloseWithLdk, ClosingTyped, DlcState

LEMMA WithSavedTyped ==
    ASSUME TypeInv, NEW p \in Party, ForceCloseWithSaved(p)
    PROVE  ClosingTyped'
  <1>1. SubTyped' /\ Counted'
    BY RestatedTyped DEF ForceCloseWithSaved, In, StateName
  <1>2. mempool' \subseteq Spend
    BY SpendTyped, NoneTyped DEF TypeInv, TypeOK, ForceCloseWithSaved, Broadcast
  <1> QED
    BY <1>1, <1>2, SetDlcTyped, CleanupTyped DEF ForceCloseWithSaved, ClosingTyped, DlcState

LEMMA SignedTyped ==
    ASSUME TypeInv, NEW p \in Party, sub[p].st # "None", NEW c \in BOOLEAN,
           ForceCloseSigned(p, c)
    PROVE  ClosingTyped'
  <1> DEFINE s2 == [sub[p] EXCEPT !.st = "Closing", !.isInitiator = TRUE, !.commits = c]
  <1>1. SetSub(p, s2) /\ Broadcast(SplitBy(p, sub[p].split)) /\ UNCHANGED <<dlc, watch>>
    BY DEF ForceCloseSigned
  <1>2. s2 \in SubChannelRecord /\ s2.idx # 0 /\ s2.secrets = sub[p].secrets
    BY Fields, Exists DEF SubChannelRecord, StateName
  <1> HIDE DEF s2
  <1>3. SubTyped' /\ Counted'
    BY <1>1, <1>2, SetSubCounted
  <1>4. mempool' \subseteq Spend
    BY <1>1, SpendTyped, Fields DEF TypeInv, TypeOK, Broadcast
  <1> QED BY <1>1, <1>3, <1>4, Reassembled DEF ClosingTyped, RestTyped

LEMMA ForceCloseTyped ==
    ASSUME TypeInv, NEW p \in Party, ForceCloseSubChannel(p)
    PROVE  TypeInv'
  <1>1. NetTyped' /\ UNCHANGED <<actions, stored, conn, ready, spent, outputs, used, given, held,
                                 torn>>
    BY TypeParts DEF ForceCloseSubChannel, NetTyped, actVars, historyVars
  <1>2. /\ ClosingTyped'
        /\ ln' \in [Party -> [open : BOOLEAN, out : {"fund", "glue", "split"}]]
        /\ event' \in [Party -> {"none", "holder", "peer"}]
    <2>1. CASE ForceCloseWithLdk(p)
      BY <2>1, WithLdkTyped
    <2>2. CASE ForceCloseWithSaved(p) /\ UNCHANGED event
      BY <2>2, WithSavedTyped, Reassembled DEF ForceCloseWithSaved, RestTyped
    <2>3. CASE sub[p].st \in ClosableWithSplit /\ ForceCloseSigned(p, FALSE) /\ UNCHANGED <<ln, event>>
      BY <2>3, SignedTyped, Reassembled DEF ClosableWithSplit, RestTyped
    <2>4. CASE In(p, "CloseAccepted") /\ ForceCloseSigned(p, TRUE) /\ SetOut(p, "glue")
               /\ UNCHANGED event
      BY <2>4, SignedTyped, SetOutTyped, Reassembled DEF In, RestTyped
    <2> QED BY <2>1, <2>2, <2>3, <2>4 DEF ForceCloseSubChannel
  <1>3. RestTyped'
    BY <1>1, <1>2, Reassembled DEF RestTyped, ClosingTyped
  <1> QED BY <1>1, <1>2, <1>3, Reassembly DEF ClosingTyped

LEMMA ForceFailsTyped ==
    ASSUME TypeInv, NEW p \in Party, ForceCloseFails(p)
    PROVE  TypeInv'
  <1>1. SubTyped' /\ Counted' /\ NetTyped'
    BY TypeParts DEF SubTyped, Counted, NetTyped, ForceCloseFails, subVars
  <1>2. ln' \in [Party -> [open : BOOLEAN, out : {"fund", "glue", "split"}]] /\ torn' \in BOOLEAN
    BY SetOutTyped DEF ForceCloseFails, Torn
  <1>3. RestTyped'
    BY <1>2, Reassembled DEF RestTyped, ForceCloseFails, subVars, actVars, chainVars
  <1> QED BY <1>1, <1>3, Reassembly

LEMMA LdkStepsTyped ==
    ASSUME TypeInv, NEW p \in Party, LdkForceClose(p) \/ LdkPeerClosed(p)
    PROVE  TypeInv'
  <1>1. SubTyped' /\ Counted' /\ NetTyped'
    BY TypeParts DEF SubTyped, Counted, NetTyped, LdkForceClose, LdkPeerClosed, subVars
  <1>2. /\ ln' \in [Party -> [open : BOOLEAN, out : {"fund", "glue", "split"}]]
        /\ mempool' \subseteq Spend
        /\ event' \in [Party -> {"none", "holder", "peer"}]
    BY LdkTyped, LdkBroadcastTyped, EventTyped DEF LdkForceClose, LdkPeerClosed
  <1>3. RestTyped'
    BY <1>2, Reassembled
       DEF RestTyped, LdkForceClose, LdkPeerClosed, subVars, actVars, historyVars
  <1> QED BY <1>1, <1>3, Reassembly

LEMMA NotifyCounterTyped ==
    ASSUME TypeInv, NEW p \in Party, NotifyCounterClosed(p)
    PROVE  TypeInv'
  <1>1. SubTyped' /\ Counted'
    BY RestatedTyped, TypeParts DEF NotifyCounterClosed, In, StateName, subVars, SubTyped, Counted
  <1>2. dlc' \in [Party -> DlcState] /\ watch' \in [Party -> SUBSET WatchEntry]
    BY SetDlcTyped, CleanupTyped, Reassembled DEF NotifyCounterClosed, subVars, RestTyped, DlcState
  <1>3. event' \in [Party -> {"none", "holder", "peer"}]
    BY EventTyped DEF NotifyCounterClosed
  <1>4. NetTyped' /\ RestTyped'
    BY <1>2, <1>3, TypeParts, Reassembled
       DEF NetTyped, RestTyped, NotifyCounterClosed, actVars, chainVars, historyVars
  <1> QED BY <1>1, <1>4, Reassembly

LEMMA NotifyHolderTyped ==
    ASSUME TypeInv, NEW p \in Party, NotifyHolderClosed(p)
    PROVE  TypeInv'
  <1>1. /\ ClosingTyped'
        /\ ln' \in [Party -> [open : BOOLEAN, out : {"fund", "glue", "split"}]]
    <2>1. CASE /\ In(p, "Offered") \/ In(p, "CloseConfirmed")
               /\ SetSub(p, [sub[p] EXCEPT !.st = "OnChainClosed"]) /\ SetDlc(p, "Closed")
               /\ CleanupChannel(p) /\ UNCHANGED <<ln, mempool>>
      <3>1. SubTyped' /\ Counted'
        BY <2>1, RestatedTyped DEF In, StateName
      <3> QED
        BY <2>1, <3>1, SetDlcTyped, CleanupTyped, Reassembled
           DEF ClosingTyped, RestTyped, DlcState
    <2>2. CASE /\ In(p, "OffChainClosed")
               /\ SetSub(p, [sub[p] EXCEPT !.st = "OnChainClosed"])
               /\ CleanupChannel(p) /\ UNCHANGED <<dlc, ln, mempool>>
      <3>1. SubTyped' /\ Counted'
        BY <2>2, RestatedTyped DEF In, StateName
      <3> QED
        BY <2>2, <3>1, CleanupTyped, Reassembled DEF ClosingTyped, RestTyped
    <2>3. CASE ForceCloseWithSaved(p)
      BY <2>3, WithSavedTyped, Reassembled DEF ForceCloseWithSaved, RestTyped
    <2>4. CASE /\ sub[p].st \in {"CloseAccepted", "CloseOffered", "Signed", "Finalized"}
               /\ ForceCloseSigned(p, TRUE)
               /\ IF In(p, "CloseAccepted") THEN SetOut(p, "glue") ELSE UNCHANGED ln
      BY <2>4, SignedTyped, SetOutTyped, Reassembled DEF RestTyped
    <2>5. CASE UNCHANGED <<subVars, ln, watch, mempool>>
      BY <2>5, Reassembled DEF subVars, ClosingTyped, SubTyped, Counted, RestTyped
    <2> QED BY <2>1, <2>2, <2>3, <2>4, <2>5 DEF NotifyHolderClosed
  <1>2. event' \in [Party -> {"none", "holder", "peer"}]
    BY EventTyped DEF NotifyHolderClosed
  <1>3. NetTyped' /\ RestTyped'
    BY <1>1, <1>2, TypeParts, Reassembled
       DEF NetTyped, RestTyped, ClosingTyped, NotifyHolderClosed, actVars, historyVars
  <1> QED BY <1>1, <1>3, Reassembly DEF ClosingTyped

LEMMA FinalizeForceTyped ==
    ASSUME TypeInv, NEW p \in Party, FinalizeForceClose(p)
    PROVE  TypeInv'
  <1>1. SubTyped' /\ Counted'
    <2>1. PICK st \in {"OnChainClosed", "CounterOnChainClosed"} :
            SetSub(p, [sub[p] EXCEPT !.st = st])
      BY DEF FinalizeForceClose
    <2>2. sub[p].st # "None" /\ st \in StateName
      BY DEF FinalizeForceClose, In, StateName
    <2> QED BY <2>1, <2>2, RestatedTyped
  <1>2. dlc' \in [Party -> DlcState]
    <2>1. PICK d \in {"Closing", dlc[p]} : SetDlc(p, d)
      BY DEF FinalizeForceClose
    <2> QED BY <2>1, Outer, SetDlcTyped DEF DlcState
  <1>3. /\ watch' \in [Party -> SUBSET WatchEntry]
        /\ ln' \in [Party -> [open : BOOLEAN, out : {"fund", "glue", "split"}]]
        /\ event' \in [Party -> {"none", "holder", "peer"}]
    BY CleanupTyped, LdkTyped, EventTyped, Reassembled DEF FinalizeForceClose, RestTyped
  <1>4. NetTyped' /\ RestTyped'
    BY <1>2, <1>3, TypeParts, Reassembled
       DEF NetTyped, RestTyped, FinalizeForceClose, OutputState, actVars, historyVars
  <1> QED BY <1>1, <1>4, Reassembly

LEMMA CheckSplitTyped ==
    ASSUME TypeInv, NEW p \in Party, CheckSplit(p)
    PROVE  TypeInv'
  <1> DEFINE c == sub[p].commits /\ sub[p].st \notin {"Signed", "CloseOffered"}
             s2 == [sub[p] EXCEPT !.st = "Closing", !.isInitiator = FALSE, !.commits = c]
  <1>1. SetSub(p, s2) /\ sub[p].st # "None"
    BY DEF CheckSplit
  <1>2. s2 \in SubChannelRecord /\ s2.idx # 0 /\ s2.secrets = sub[p].secrets
    <2>1. c \in BOOLEAN
      OBVIOUS
    <2> HIDE DEF c
    <2> QED BY <1>1, <2>1, Fields, Exists DEF SubChannelRecord, StateName
  <1> HIDE DEF s2
  <1>3. SubTyped' /\ Counted'
    BY <1>1, <1>2, SetSubCounted
  <1>4. watch' \in [Party -> SUBSET WatchEntry]
    BY DEF TypeInv, TypeOK, CheckSplit
  <1>5. ln' \in [Party -> [open : BOOLEAN, out : {"fund", "glue", "split"}]]
    BY SetOutTyped, Reassembled DEF CheckSplit, RestTyped
  <1>6. NetTyped' /\ RestTyped'
    BY <1>4, <1>5, TypeParts, Reassembled
       DEF NetTyped, RestTyped, CheckSplit, actVars, chainVars, historyVars
  <1> QED BY <1>3, <1>6, Reassembly

LEMMA CheckRevokedTyped ==
    ASSUME TypeInv, NEW p \in Party, CheckRevoked(p)
    PROVE  TypeInv'
  <1> DEFINE s2 == [sub[p] EXCEPT !.st = "ClosedPunished"]
  <1>1. SetSub(p, s2) /\ sub[p].idx # 0
    <2>1. sub[p].secrets # {}
      BY DEF CheckRevoked, Punishable
    <2> QED BY <2>1, TypeParts DEF CheckRevoked, Counted
  <1>2. s2 \in SubChannelRecord /\ s2.idx # 0 /\ s2.secrets = sub[p].secrets
    BY <1>1, Fields DEF SubChannelRecord, StateName
  <1> HIDE DEF s2
  <1>3. SubTyped' /\ Counted'
    BY <1>1, <1>2, SetSubCounted
  <1>4. NetTyped' /\ RestTyped'
    BY TypeParts, Reassembled
       DEF NetTyped, RestTyped, CheckRevoked, OutputState, actVars, historyVars
  <1> QED BY <1>3, <1>4, Reassembly

LEMMA ChainTyped ==
    ASSUME TypeInv, \/ \E p \in Party : PublishHeld(p) \/ SweepHeld(p)
                    \/ \E t \in mempool : Confirm(t)
                    \/ Mature
    PROVE  TypeInv'
  <1>1. SubTyped' /\ Counted' /\ NetTyped'
    BY TypeParts DEF SubTyped, Counted, NetTyped, PublishHeld, SweepHeld, Confirm, Mature,
                       subVars
  <1>2. mempool' \subseteq Spend /\ spent' \in Spend /\ outputs' \in OutputState
    <2>1. CASE \E p \in Party : PublishHeld(p)
      <3>1. PICK p \in Party : PublishHeld(p)
        BY <2>1
      <3>2. PICK t \in held[p] : mempool' = mempool \cup {SplitBy(p, t)}
        BY <3>1 DEF PublishHeld, Broadcast
      <3>3. t \in Split
        BY DEF TypeInv, TypeOK
      <3> QED BY <3>1, <3>2, <3>3, SpendTyped, Reassembled DEF PublishHeld, RestTyped
    <2>2. CASE \E t \in mempool : Confirm(t)
      BY <2>2, Reassembled DEF Confirm, RestTyped
    <2>3. CASE Mature
      BY <2>3, Reassembled DEF Mature, RestTyped, OutputState
    <2>4. CASE \E p \in Party : SweepHeld(p)
      BY <2>4, Reassembled DEF SweepHeld, RestTyped, OutputState
    <2> QED BY <2>1, <2>2, <2>3, <2>4
  <1>3. RestTyped'
    BY <1>2, Reassembled
       DEF RestTyped, PublishHeld, SweepHeld, Confirm, Mature, subVars, actVars, historyVars
  <1> QED BY <1>1, <1>3, Reassembly

LEMMA InitTyped == Init => TypeInv
  <1> SUFFICES ASSUME Init PROVE TypeInv
    OBVIOUS
  <1>1. NoSubChannel \in SubChannelRecord
    BY NoneTyped, SubChannelAssumption DEF NoSubChannel, SubChannelRecord, StateName, Index
  <1>2. SubTyped /\ Counted
    BY <1>1, FS_EmptySet DEF Init, SubTyped, Counted, NoSubChannel
  <1>3. NetTyped
    BY DEF Init, NetTyped
  <1>4. used \in [disconnects : 0 .. MaxDisconnects, restarts : 0 .. MaxRestarts]
    BY SubChannelAssumption DEF Init
  <1>5. spent \in Spend
    BY DEF Init, Spend, NoSpend
  <1>6. RestTyped
    <2>1. dlc \in [Party -> DlcState] /\ conn \in BOOLEAN /\ ready \in [Party -> BOOLEAN]
          /\ event \in [Party -> {"none", "holder", "peer"}]
      BY DEF Init, DlcState
    <2>2. ln \in [Party -> [open : BOOLEAN, out : {"fund", "glue", "split"}]]
      BY DEF Init
    <2>3. watch \in [Party -> SUBSET WatchEntry] /\ actions \in [Party -> Seq(Action)]
          /\ stored \in [Party -> Seq(Action)] /\ given \in [Party -> SUBSET Nat]
          /\ held \in [Party -> SUBSET Split]
      BY DEF Init
    <2>4. mempool \subseteq Spend /\ outputs \in OutputState /\ torn \in BOOLEAN
      BY DEF Init, OutputState
    <2> QED BY <1>4, <1>5, <2>1, <2>2, <2>3, <2>4 DEF RestTyped
  <1> QED BY <1>2, <1>3, <1>6, Reassembled

LEMMA StutterTyped == TypeInv /\ UNCHANGED vars => TypeInv'
  BY DEF TypeInv, TypeOK, Counted, vars

LEMMA NextTyped ==
    ASSUME TypeInv, [Next]_vars
    PROVE  TypeInv'
  <1>1. ASSUME NEW p \in Party, Receive(p) PROVE TypeInv'
    BY <1>1, GetOfferTyped, ConfirmTyped, InvalidTyped, FinalizeTyped, RevokeTyped, RejectTyped,
       GetOfferCloseTyped, CloseAcceptTyped, CloseConfirmTyped, CloseFinalizeTyped,
       ReturnedTyped DEF Receive
  <1>2. ASSUME NEW p \in Party, Application(p) PROVE TypeInv'
    BY <1>2, OfferTyped, RejectTyped, OfferCloseTyped, ForceCloseTyped, ForceFailsTyped,
       LdkStepsTyped, ChainTyped DEF Application
  <1>3. ASSUME NEW p \in Party, Accept(p) PROVE TypeInv'
    BY <1>3, AcceptTyped, AcceptCloseTyped DEF Accept
  <1>4. ASSUME NEW p \in Party, PeriodicCheck(p) PROVE TypeInv'
    BY <1>4, CheckSplitTyped, CheckRevokedTyped, ProcessTyped, FinalizeForceTyped
       DEF PeriodicCheck
  <1>5. ASSUME NEW p \in Party, Notify(p) \/ LdkPeerClosed(p) \/ Restart(p) PROVE TypeInv'
    BY <1>5, NotifyCounterTyped, NotifyHolderTyped, LdkStepsTyped, DropTyped DEF Notify
  <1>6. CASE Disconnect \/ Reconnect \/ (\E t \in mempool : Confirm(t)) \/ Mature
    BY <1>6, DropTyped, ReconnectTyped, ChainTyped
  <1> QED BY <1>1, <1>2, <1>3, <1>4, <1>5, <1>6, StutterTyped DEF Next

(* The state of both parties, their messages and what they watch stay of   *)
(* their types, whatever is lost, resent and recovered: in particular the  *)
(* split index that get_reconnect_close_finalize undoes never falls below  *)
(* zero, and a resent offer carries a per-split point.                     *)
THEOREM TypeCorrect == Spec => []TypeOK
  <1>1. Init => TypeInv
    BY InitTyped
  <1>2. TypeInv /\ [Next]_vars => TypeInv'
    BY NextTyped
  <1>3. TypeInv => TypeOK
    BY DEF TypeInv
  <1> QED BY <1>1, <1>2, <1>3, PTL DEF Spec

-----------------------------------------------------------------------------
(* Kinds of steps.  What a step of party p does to the sub channels, the   *)
(* watches, the messages and what is left to do after a reconnection.      *)

Msgs(p) == {net[p][i] : i \in 1 .. Len(net[p])}
Left(p) == {actions[p][i] : i \in 1 .. Len(actions[p])}
             \cup {stored[p][i] : i \in 1 .. Len(stored[p])}

(* The step is p's, and leaves the connection and the peer alone.          *)
Frame(p) ==
    /\ sub'[Other(p)] = sub[Other(p)] /\ watch'[Other(p)] = watch[Other(p)]
    /\ held'[Other(p)] = held[Other(p)] /\ Left(Other(p))' = Left(Other(p))
    /\ ready'[Other(p)] = ready[Other(p)] /\ conn' = conn
Calm(p) == Frame(p) /\ ready'[p] = ready[p] /\ Left(p)' \subseteq Left(p)
SameSub(p) == sub'[p] = sub[p] /\ held'[p] = held[p]

Takes(p) == net[p] # <<>> /\ net'[p] = Tail(net[p])
TakesOrNot(p) == net'[p] = net[p] \/ Takes(p)
Silent(p) == TakesOrNot(p) /\ net'[Other(p)] = net[Other(p)]
(* p says m, unless the connection is down.                                *)
Says(p, m) ==
    /\ TakesOrNot(p)
    /\ \/ net'[Other(p)] = net[Other(p)]
       \/ /\ conn \/ net[p] # <<>>
          /\ net'[Other(p)] = Append(net[Other(p)], m)
Got(p, type) == Takes(p) /\ Head(net[p]).type = type
Entered(W, e) == {x \in W : x.split # e.split} \cup {e}
SplitEntry(t) == [split |-> t, type |-> "SplitTx", idx |-> 0]

Idles(p) == Calm(p) /\ SameSub(p) /\ watch'[p] = watch[p] /\ Silent(p)

Resendable(p, m) ==
    \/ m.type = "CloseOffer"
    \/ \E a \in Left(p) : /\ m.point = a.point
                          /\ \/ m.type = "Offer" /\ a.type = "ResendOffer"
                             \/ m.type = "CloseFinalize" /\ a.type = "ResendCloseFinalize"
Resends(p) ==
    /\ Calm(p) /\ SameSub(p) /\ watch'[p] = watch[p]
    /\ \E m \in Message : Says(p, m) /\ Resendable(p, m)

(* Steps that only change the state's name.                                *)
DriftTo(s, s2) ==
    \/ s2.st \in SettledStates
    \/ s.st = "Offered" /\ s2.st = "Rejected"
    \/ s.st = "Finalized" /\ s2.st = "Signed"
    \/ s.st = "Signed" /\ s2.st = "CloseOffered"
    \/ s.st = "CloseOffered" /\ s2.st \in {"Signed", "CloseAccepted"}
    \/ /\ s.st \in {"Finalized", "Signed", "CloseOffered", "CloseAccepted", "CloseConfirmed"}
       /\ s2.st = "Closing" /\ (s.st = "CloseConfirmed" => ~s2.isInitiator)
Drifts(p) ==
    /\ Calm(p) /\ Kept(sub[p], sub'[p]) /\ held'[p] = held[p] /\ DriftTo(sub[p], sub'[p])
    /\ \/ watch'[p] = watch[p]
       \/ watch'[p] \subseteq watch[p] /\ sub'[p].st \in SettledStates \cup {"Closing"}
    /\ \E m \in Message :
         /\ m.type \in {"Reject", "CloseOffer", "CloseAccept"} /\ Says(p, m)
         /\ m.type = "CloseAccept" =>
              ready[p] /\ sub[p].st = "CloseOffered" /\ sub'[p].st = "CloseAccepted"

Renewed(p, offer) ==
    /\ Calm(p) /\ watch'[p] = watch[p] /\ held'[p] = held[p]
    /\ CanOffer(sub[p]) /\ sub'[p].st = "Offered" /\ sub'[p].isOffer = offer
    /\ sub'[p].idx = sub[p].idx + 1
    /\ sub'[p].split = sub[p].split /\ sub'[p].secrets = sub[p].secrets
Offers(p) ==
    /\ Renewed(p, TRUE)
    /\ sub'[p].point = PerSplitPoint(p, sub[p].idx + 1)
    /\ \E m \in Message : /\ Says(p, m) /\ m.type = "Offer"
                          /\ m.point = PerSplitPoint(p, sub[p].idx + 1)
GetsOffer(p) ==
    /\ Renewed(p, FALSE)
    /\ Got(p, "Offer") /\ sub'[p].point = Head(net[p]).point
    /\ Silent(p)

SetUp(p, st, t) ==
    /\ Calm(p) /\ held'[p] = held[p] /\ watch'[p] = Entered(watch[p], SplitEntry(t))
    /\ sub[p].st = "Offered" /\ ready[p]
    /\ sub'[p].st = st /\ sub'[p].split = t
    /\ sub'[p].idx = sub[p].idx /\ sub'[p].isOffer = sub[p].isOffer
    /\ sub'[p].secrets = sub[p].secrets
Accepts(p) ==
    \E t \in Split :
      /\ SetUp(p, "Accepted", t) /\ t = AcceptedSplit(p, sub[p])
      /\ net'[p] = net[p]
      /\ \E m \in Message : Says(p, m) /\ m.type = "Accept" /\ m.split = t
Confirms(p) ==
    \E t \in Split :
      /\ SetUp(p, "Confirmed", t) /\ t.offer = sub[p].point /\ sub[p].isOffer
      /\ Got(p, "Accept") /\ Head(net[p]).split = t
      /\ \E m \in Message : Says(p, m) /\ m.type = "Confirm" /\ m.split = t

(* The peer's signature for the split comes with the message.              *)
Obtains(p, type) ==
    /\ Calm(p) /\ Kept(sub[p], sub'[p]) /\ watch'[p] = watch[p]
    /\ held'[p] = held[p] \cup {sub[p].split}
    /\ Got(p, type) /\ Head(net[p]).split = sub[p].split /\ ready[p]
Finalizes(p) ==
    /\ Obtains(p, "Confirm") /\ sub[p].st = "Accepted" /\ sub'[p].st = "Finalized"
    /\ \E m \in Message : Says(p, m) /\ m.type = "Finalize" /\ m.split = sub[p].split
Signs(p) ==
    /\ Obtains(p, "Finalize") /\ sub[p].st = "Confirmed" /\ sub'[p].st = "Signed"
    /\ \E m \in Message : Says(p, m) /\ m.type = "Revoke"

Returns(p) ==
    /\ Frame(p) /\ watch'[p] = watch[p] /\ held'[p] = held[p]
    /\ Got(p, "Reestablish") /\ Silent(p) /\ ready'[p] = TRUE
    /\ Returned(p, sub[p], Head(net[p]).flag, sub'[p])
    /\ \A a \in Left(p)' : a \in Left(p) \/ NewAction(p, sub[p], Head(net[p]).flag, a)

Discloses(p) ==
    /\ Calm(p) /\ Kept(sub[p], sub'[p]) /\ watch'[p] = watch[p] /\ held'[p] = held[p]
    /\ sub[p].st = "CloseOffered" /\ sub'[p].st = "CloseConfirmed" /\ ready[p]
    /\ Got(p, "CloseAccept")
    /\ \E m \in Message : /\ Says(p, m) /\ m.type = "CloseConfirm"
                          /\ m.point = PerSplitPoint(p, sub[p].idx)
Merges(p) ==
    /\ Calm(p) /\ held'[p] = held[p] /\ ready[p]
    /\ \/ sub[p].st = "CloseAccepted" /\ Got(p, "CloseConfirm")
       \/ sub[p].st = "CloseConfirmed" /\ Got(p, "CloseFinalize")
    /\ Head(net[p]).point = CounterPoint(p, sub[p].split)
    /\ sub'[p].st = "OffChainClosed" /\ sub'[p].idx = sub[p].idx
    /\ sub'[p].split = sub[p].split
    /\ sub'[p].secrets = StoreSecret(sub[p], Head(net[p]).point)
    /\ watch'[p] = Entered(watch[p], RevokedEntry(sub[p]))
    /\ \E m \in Message : /\ Says(p, m) /\ m.type = "CloseFinalize"
                          /\ m.point = PerSplitPoint(p, sub[p].idx)
(* on_sub_channel_close_finalize fails after it has changed the watch.     *)
WatchesEarly(p) ==
    /\ Calm(p) /\ SameSub(p) /\ sub[p].st = "CloseConfirmed" /\ Silent(p)
    /\ watch'[p] = Entered(watch[p], RevokedEntry(sub[p]))

PartyStep(p) ==
    \/ Idles(p) \/ Resends(p) \/ Drifts(p) \/ Offers(p) \/ GetsOffer(p)
    \/ Accepts(p) \/ Confirms(p) \/ Finalizes(p) \/ Signs(p) \/ Returns(p)
    \/ Discloses(p) \/ Merges(p) \/ WatchesEarly(p)

Drops ==
    /\ UNCHANGED <<sub, watch, held>> /\ DropConnection
    /\ \A p \in Party : Left(p)' \subseteq Left(p)
Greets ==
    /\ UNCHANGED <<sub, watch, held, ready>> /\ ~conn /\ conn'
    /\ \A p \in Party :
         /\ Left(p)' = Left(p)
         /\ \/ net'[p] = <<>>
            \/ \E m \in Message : /\ net'[p] = <<m>> /\ m.type = "Reestablish"
                                  /\ m.flag = GetReestablishFlag(sub[Other(p)])

LEMMA SendSays ==
    ASSUME TypeInv, NEW p \in Party, NEW m, Send(p, m)
    PROVE  Says(p, m) /\ net'[p] = net[p]
  BY Others, TypeParts DEF Send, Says, TakesOrNot, NetTyped

LEMMA ConsumeTakes ==
    ASSUME TypeInv, NEW p \in Party, net[p] # <<>>, Consume(p)
    PROVE  Takes(p) /\ Silent(p)
  BY Others, TypeParts DEF Consume, Silent, TakesOrNot, Takes, NetTyped

LEMMA ReplySays ==
    ASSUME TypeInv, NEW p \in Party, net[p] # <<>>, NEW m, Reply(p, m)
    PROVE  Takes(p) /\ Says(p, m)
  BY Others, TypeParts DEF Reply, Says, TakesOrNot, Takes, NetTyped

LEMMA SilentSays ==
    ASSUME NEW p, NEW m, Silent(p)
    PROVE  Says(p, m)
  BY DEF Silent, Says

LEMMA UnmovedSilent ==
    ASSUME NEW p, UNCHANGED net
    PROVE  Silent(p)
  BY DEF Silent, TakesOrNot

LEMMA SetSubFrame ==
    ASSUME TypeInv, NEW p \in Party, NEW s, SetSub(p, s)
    PROVE  sub'[p] = s /\ sub'[Other(p)] = sub[Other(p)]
  BY Others, TypeParts DEF SubTyped, SetSub

LEMMA AddWatchFrame ==
    ASSUME TypeInv, NEW p \in Party, NEW e, AddWatch(p, e)
    PROVE  watch'[p] = Entered(watch[p], e) /\ watch'[Other(p)] = watch[Other(p)]
  BY Others DEF TypeInv, TypeOK, AddWatch, Entered

LEMMA CleanupFrame ==
    ASSUME TypeInv, NEW p \in Party, CleanupChannel(p)
    PROVE  watch'[p] \subseteq watch[p] /\ watch'[Other(p)] = watch[Other(p)]
  BY Others DEF TypeInv, TypeOK, CleanupChannel

LEMMA HoldsFrame ==
    ASSUME TypeInv, NEW p \in Party, NEW t, Holds(p, t)
    PROVE  held'[p] = held[p] \cup {t} /\ held'[Other(p)] = held[Other(p)]
  BY Others DEF TypeInv, TypeOK, Holds

(* A step that changes neither actions, connection nor readiness.          *)
LEMMA CalmStep ==
    ASSUME NEW p \in Party, UNCHANGED <<actions, stored, conn, ready>>,
           sub'[Other(p)] = sub[Other(p)], watch'[Other(p)] = watch[Other(p)],
           held'[Other(p)] = held[Other(p)]
    PROVE  Calm(p)
  BY DEF Calm, Frame, Left

LEMMA OfferKind ==
    ASSUME TypeInv, NEW p \in Party, OfferSubChannel(p)
    PROVE  Offers(p)
  <1> DEFINE n == sub[p].idx + 1
             s2 == [sub[p] EXCEPT !.st = "Offered", !.isOffer = TRUE, !.idx = n,
                                  !.point = PerSplitPoint(p, n)]
             m == [Msg("Offer") EXCEPT !.point = s2.point]
  <1>1. SetSub(p, s2) /\ Send(p, m) /\ CanOffer(sub[p])
        /\ UNCHANGED <<watch, actions, stored, conn, ready, held>>
    BY DEF OfferSubChannel, NextIdx, actVars
  <1>2. /\ s2.st = "Offered" /\ s2.isOffer = TRUE /\ s2.idx = n
        /\ s2.point = PerSplitPoint(p, n) /\ s2.split = sub[p].split
        /\ s2.secrets = sub[p].secrets
    BY Fields DEF SubChannelRecord
  <1>3. m \in Message /\ m.type = "Offer" /\ m.point = PerSplitPoint(p, n)
    <2>1. n \in Nat
      BY Fields
    <2>2. s2.point \in Point
      BY <1>2, <2>1, PointTyped
    <2> HIDE DEF s2
    <2> QED BY <1>2, <2>2, MsgTyped DEF MessageType, Message
  <1> HIDE DEF s2, m
  <1>4. sub'[p] = s2 /\ Calm(p)
    BY <1>1, SetSubFrame, CalmStep
  <1>5. Renewed(p, TRUE)
    BY <1>1, <1>2, <1>4 DEF Renewed
  <1> QED BY <1>1, <1>2, <1>3, <1>4, <1>5, SendSays DEF Offers

LEMMA GetOfferKind ==
    ASSUME TypeInv, NEW p \in Party, OnSubchannelOffer(p)
    PROVE  GetsOffer(p)
  <1> DEFINE s2 == [sub[p] EXCEPT !.st = "Offered", !.isOffer = FALSE, !.idx = NextIdx(sub[p]),
                                  !.point = Head(net[p]).point,
                                  !.basePoints = @ \/ sub[p].st = "None"]
  <1>1. SetSub(p, s2) /\ Consume(p) /\ CanOffer(sub[p]) /\ net[p] # <<>>
        /\ Head(net[p]).type = "Offer"
        /\ UNCHANGED <<watch, actions, stored, conn, ready, held>>
    BY DEF OnSubchannelOffer, CanReceiveOffer, Received, actVars, historyVars
  <1>2. /\ s2.st = "Offered" /\ s2.isOffer = FALSE /\ s2.idx = sub[p].idx + 1
        /\ s2.point = Head(net[p]).point /\ s2.split = sub[p].split
        /\ s2.secrets = sub[p].secrets
    BY Fields DEF SubChannelRecord, NextIdx
  <1> HIDE DEF s2
  <1>3. sub'[p] = s2 /\ Calm(p)
    BY <1>1, SetSubFrame, CalmStep
  <1>4. Renewed(p, FALSE)
    BY <1>1, <1>2, <1>3 DEF Renewed
  <1> QED BY <1>1, <1>2, <1>3, <1>4, ConsumeTakes DEF GetsOffer, Got

LEMMA AcceptEffectKind ==
    ASSUME TypeInv, NEW p \in Party, CanAccept(p), AcceptEffect(p),
           UNCHANGED <<conn, ready, held>>, Calm(p)
    PROVE  Accepts(p)
  <1> DEFINE t == AcceptedSplit(p, sub[p])
             s2 == [sub[p] EXCEPT !.st = "Accepted", !.split = t, !.commits = TRUE]
             m == [Msg("Accept") EXCEPT !.point = t.accept, !.split = t]
  <1>1. SetSub(p, s2) /\ Send(p, m) /\ AddWatch(p, SplitEntry(t)) /\ sub[p].st = "Offered"
        /\ ready[p]
    BY DEF AcceptEffect, CanAccept, In, Usable, SplitEntry
  <1>2. t \in Split /\ t.accept \in Point
    BY Fields, PointTyped DEF AcceptedSplit, Split
  <1> HIDE DEF t
  <1>3. /\ s2.st = "Accepted" /\ s2.split = t /\ s2.idx = sub[p].idx
        /\ s2.isOffer = sub[p].isOffer /\ s2.secrets = sub[p].secrets
    BY Fields DEF SubChannelRecord
  <1>4. m \in Message /\ m.type = "Accept" /\ m.split = t
    BY <1>2, MsgTyped DEF MessageType, Message
  <1> HIDE DEF s2, m
  <1>5. sub'[p] = s2 /\ Says(p, m) /\ net'[p] = net[p]
        /\ watch'[p] = Entered(watch[p], SplitEntry(t))
    BY <1>1, SetSubFrame, SendSays, AddWatchFrame
  <1>6. SetUp(p, "Accepted", t)
    BY <1>1, <1>3, <1>5 DEF SetUp
  <1> QED BY <1>2, <1>4, <1>5, <1>6 DEF Accepts, t

LEMMA AcceptKind ==
    ASSUME TypeInv, NEW p \in Party, AcceptSubChannel(p)
    PROVE  Accepts(p)
  <1>1. CanAccept(p) /\ AcceptEffect(p) /\ UNCHANGED <<actions, stored, conn, ready, held>>
    BY DEF AcceptSubChannel, actVars
  <1>2. sub'[Other(p)] = sub[Other(p)] /\ watch'[Other(p)] = watch[Other(p)]
    BY <1>1, SetSubFrame, AddWatchFrame DEF AcceptEffect
  <1> QED BY <1>1, <1>2, CalmStep, AcceptEffectKind

LEMMA ConfirmKind ==
    ASSUME TypeInv, NEW p \in Party, OnSubchannelAccept(p)
    PROVE  Confirms(p)
  <1> DEFINE t == OfferedSplit(sub[p], Head(net[p]))
             s2 == [sub[p] EXCEPT !.st = "Confirmed", !.split = t,
                                  !.basePoints = TRUE, !.commits = TRUE]
             m == [Msg("Confirm") EXCEPT !.split = t]
  <1>1. SetSub(p, s2) /\ Reply(p, m) /\ AddWatch(p, SplitEntry(t)) /\ sub[p].st = "Offered"
        /\ ready[p] /\ net[p] # <<>> /\ Head(net[p]).type = "Accept"
        /\ sub[p].isOffer /\ Head(net[p]).split = t
        /\ UNCHANGED <<actions, stored, conn, ready, held>>
    BY DEF OnSubchannelAccept, CanConfirm, In, Usable, SplitEntry, Received, AcceptValid,
           actVars, historyVars
  <1>2. t \in Split /\ t.offer = sub[p].point
    BY <1>1, Fields, Heads DEF OfferedSplit, Split
  <1> HIDE DEF t
  <1>3. /\ s2.st = "Confirmed" /\ s2.split = t /\ s2.idx = sub[p].idx
        /\ s2.isOffer = sub[p].isOffer /\ s2.secrets = sub[p].secrets
    BY Fields DEF SubChannelRecord
  <1>4. m \in Message /\ m.type = "Confirm" /\ m.split = t
    BY <1>2, MsgTyped DEF MessageType, Message
  <1> HIDE DEF s2, m
  <1>5. sub'[p] = s2 /\ Says(p, m) /\ Takes(p)
        /\ watch'[p] = Entered(watch[p], SplitEntry(t)) /\ Calm(p)
    BY <1>1, SetSubFrame, ReplySays, AddWatchFrame, CalmStep
  <1>6. SetUp(p, "Confirmed", t)
    BY <1>1, <1>3, <1>5 DEF SetUp
  <1> QED BY <1>1, <1>2, <1>4, <1>5, <1>6 DEF Confirms, Got

LEMMA FinalizeKind ==
    ASSUME TypeInv, NEW p \in Party, OnSubchannelConfirm(p)
    PROVE  Finalizes(p)
  <1> DEFINE s2 == [sub[p] EXCEPT !.st = "Finalized", !.commits = FALSE]
             m == [Msg("Finalize") EXCEPT !.split = sub[p].split]
  <1>1. SetSub(p, s2) /\ Reply(p, m) /\ Holds(p, sub[p].split) /\ sub[p].st = "Accepted"
        /\ ready[p] /\ net[p] # <<>> /\ Head(net[p]).type = "Confirm"
        /\ Head(net[p]).split = sub[p].split
        /\ UNCHANGED <<watch, actions, stored, conn, ready>>
    BY DEF OnSubchannelConfirm, CanFinalize, In, Usable, Received, actVars
  <1>2. s2.st = "Finalized" /\ Kept(sub[p], s2)
    BY Fields DEF SubChannelRecord, Kept
  <1>3. m \in Message /\ m.type = "Finalize" /\ m.split = sub[p].split
    BY Fields, MsgTyped DEF MessageType, Message
  <1> HIDE DEF s2, m
  <1>4. sub'[p] = s2 /\ Says(p, m) /\ Takes(p) /\ held'[p] = held[p] \cup {sub[p].split}
        /\ Calm(p)
    BY <1>1, SetSubFrame, ReplySays, HoldsFrame, CalmStep
  <1>5. Obtains(p, "Confirm")
    BY <1>1, <1>2, <1>4 DEF Obtains, Got
  <1> QED BY <1>1, <1>2, <1>3, <1>4, <1>5 DEF Finalizes

LEMMA SignKind ==
    ASSUME TypeInv, NEW p \in Party, OnSubChannelFinalize(p)
    PROVE  Signs(p)
  <1> DEFINE s2 == [sub[p] EXCEPT !.st = "Signed", !.commits = FALSE]
             m == Msg("Revoke")
  <1>1. SetSub(p, s2) /\ Reply(p, m) /\ Holds(p, sub[p].split) /\ sub[p].st = "Confirmed"
        /\ ready[p] /\ net[p] # <<>> /\ Head(net[p]).type = "Finalize"
        /\ Head(net[p]).split = sub[p].split
        /\ UNCHANGED <<watch, actions, stored, conn, ready>>
    BY DEF OnSubChannelFinalize, CanSign, In, Usable, Received, actVars
  <1>2. s2.st = "Signed" /\ Kept(sub[p], s2)
    BY Fields DEF SubChannelRecord, Kept
  <1>3. m \in Message /\ m.type = "Revoke"
    BY MsgTyped DEF MessageType
  <1> HIDE DEF s2, m
  <1>4. sub'[p] = s2 /\ Says(p, m) /\ Takes(p) /\ held'[p] = held[p] \cup {sub[p].split}
        /\ Calm(p)
    BY <1>1, SetSubFrame, ReplySays, HoldsFrame, CalmStep
  <1>5. Obtains(p, "Finalize")
    BY <1>1, <1>2, <1>4 DEF Obtains, Got
  <1> QED BY <1>1, <1>2, <1>3, <1>4, <1>5 DEF Signs

(* A step that sets the state's name and says nothing of weight.           *)
LEMMA DriftStep ==
    ASSUME TypeInv, NEW p \in Party, NEW st \in StateName,
           SetSub(p, [sub[p] EXCEPT !.st = st]),
           DriftTo(sub[p], [sub[p] EXCEPT !.st = st]),
           UNCHANGED <<held, conn, ready>>,
           Left(p)' \subseteq Left(p), Left(Other(p))' = Left(Other(p)),
           watch'[Other(p)] = watch[Other(p)],
           \/ watch'[p] = watch[p]
           \/ watch'[p] \subseteq watch[p] /\ st \in SettledStates \cup {"Closing"},
           Silent(p) \/ Says(p, Msg("Reject"))
    PROVE  Drifts(p)
  <1> DEFINE s2 == [sub[p] EXCEPT !.st = st]
  <1>1. s2.st = st /\ Kept(sub[p], s2)
    BY Fields DEF SubChannelRecord, Kept
  <1>2. SetSub(p, s2) /\ DriftTo(sub[p], s2)
    OBVIOUS
  <1>3. Msg("Reject") \in Message /\ Msg("Reject").type = "Reject"
    BY MsgTyped DEF MessageType
  <1> HIDE DEF s2
  <1>4. sub'[p] = s2 /\ sub'[Other(p)] = sub[Other(p)]
    BY <1>2, SetSubFrame
  <1>5. Calm(p)
    BY <1>4 DEF Calm, Frame
  <1> QED
    BY <1>1, <1>2, <1>3, <1>4, <1>5, SilentSays DEF Drifts

LEMMA SameLeft ==
    ASSUME UNCHANGED <<actions, stored>>, NEW p
    PROVE  Left(p)' = Left(p)
  BY DEF Left

LEMMA RevokeKind ==
    ASSUME TypeInv, NEW p \in Party, OnSubChannelRevoke(p)
    PROVE  Drifts(p)
  <1>1. SetSub(p, [sub[p] EXCEPT !.st = "Signed"]) /\ sub[p].st = "Finalized"
        /\ net[p] # <<>> /\ Consume(p) /\ UNCHANGED <<watch, held, conn, ready, actions, stored>>
    BY DEF OnSubChannelRevoke, CanRevoke, In, Received, actVars, historyVars
  <1>2. DriftTo(sub[p], [sub[p] EXCEPT !.st = "Signed"]) /\ "Signed" \in StateName
    BY <1>1, Fields DEF DriftTo, StateName, SubChannelRecord
  <1>3. Silent(p) /\ Left(p)' = Left(p) /\ Left(Other(p))' = Left(Other(p))
    BY <1>1, ConsumeTakes, SameLeft
  <1> QED BY <1>1, <1>2, <1>3, DriftStep

LEMMA RejectKind ==
    ASSUME TypeInv, NEW p \in Party,
           RejectSubChannelOffer(p) \/ RejectSubChannelCloseOffer(p) \/ OnSubChannelReject(p)
    PROVE  Drifts(p)
  <1>1. PICK st \in {"Rejected", "Signed"} :
          /\ SetSub(p, [sub[p] EXCEPT !.st = st])
          /\ \/ sub[p].st = "Offered" /\ st = "Rejected"
             \/ sub[p].st = "CloseOffered" /\ st = "Signed"
    BY DEF RejectSubChannelOffer, RejectSubChannelCloseOffer, OnSubChannelReject, In
  <1>2. /\ UNCHANGED <<watch, held, conn, ready, actions, stored>>
        /\ Send(p, Msg("Reject")) \/ (Consume(p) /\ net[p] # <<>>)
    BY DEF RejectSubChannelOffer, RejectSubChannelCloseOffer, OnSubChannelReject, Received,
           actVars, historyVars
  <1>3. DriftTo(sub[p], [sub[p] EXCEPT !.st = st]) /\ st \in StateName
    BY <1>1, Fields DEF DriftTo, StateName, SubChannelRecord
  <1>4. Silent(p) \/ Says(p, Msg("Reject"))
    BY <1>2, SendSays, ConsumeTakes
  <1>5. Left(p)' = Left(p) /\ Left(Other(p))' = Left(Other(p))
    BY <1>2, SameLeft
  <1> QED BY <1>1, <1>2, <1>3, <1>4, <1>5, DriftStep

LEMMA OfferCloseKind ==
    ASSUME TypeInv, NEW p \in Party, NEW b \in 0 .. TotalCollateral,
           OfferSubchannelClose(p, b)
    PROVE  Drifts(p)
  <1> DEFINE s2 == [sub[p] EXCEPT !.st = "CloseOffered", !.ours = TRUE, !.balance = b]
             m == [Msg("CloseOffer") EXCEPT !.balance = b]
  <1>1. SetSub(p, s2) /\ Send(p, m) /\ sub[p].st = "Signed"
        /\ UNCHANGED <<watch, held, conn, ready, actions, stored>>
    BY DEF OfferSubchannelClose, In, actVars
  <1>2. s2.st = "CloseOffered" /\ Kept(sub[p], s2)
    BY Fields DEF SubChannelRecord, Kept
  <1>3. m \in Message /\ m.type = "CloseOffer"
    BY MsgTyped DEF MessageType, Message
  <1> HIDE DEF s2, m
  <1>4. sub'[p] = s2 /\ Says(p, m) /\ Calm(p)
    BY <1>1, SetSubFrame, SendSays, CalmStep
  <1> QED BY <1>1, <1>2, <1>3, <1>4 DEF Drifts, DriftTo

LEMMA GetOfferCloseKind ==
    ASSUME TypeInv, NEW p \in Party, OnSubChannelCloseOffer(p)
    PROVE  Drifts(p) \/ Idles(p)
  <1> DEFINE s2 == [sub[p] EXCEPT !.st = "CloseOffered", !.ours = FALSE,
                                  !.balance = Head(net[p]).balance]
  <1>1. /\ net[p] # <<>> /\ Consume(p)
        /\ (SetSub(p, s2) /\ sub[p].st = "Signed") \/ UNCHANGED sub
        /\ UNCHANGED <<watch, held, conn, ready, actions, stored>>
    BY DEF OnSubChannelCloseOffer, In, Received, actVars, historyVars
  <1>2. s2.st = "CloseOffered" /\ Kept(sub[p], s2)
    BY Fields DEF SubChannelRecord, Kept
  <1>3. Msg("Reject") \in Message /\ Msg("Reject").type = "Reject"
    BY MsgTyped DEF MessageType
  <1> HIDE DEF s2
  <1>4. Silent(p)
    BY <1>1, ConsumeTakes
  <1>5. CASE SetSub(p, s2) /\ sub[p].st = "Signed"
    <2>1. sub'[p] = s2 /\ Calm(p)
      BY <1>1, <1>5, SetSubFrame, CalmStep
    <2> QED BY <1>1, <1>2, <1>3, <1>4, <1>5, <2>1, SilentSays DEF Drifts, DriftTo
  <1>6. CASE UNCHANGED sub
    BY <1>1, <1>4, <1>6, CalmStep DEF Idles, SameSub
  <1> QED BY <1>1, <1>5, <1>6

LEMMA AcceptCloseEffectKind ==
    ASSUME TypeInv, NEW p \in Party, CanAcceptClose(p), AcceptCloseEffect(p),
           UNCHANGED <<held, watch>>, Calm(p)
    PROVE  Drifts(p)
  <1> DEFINE s2 == [sub[p] EXCEPT !.st = "CloseAccepted", !.commits = TRUE]
             m == [Msg("CloseAccept") EXCEPT !.balance = sub[p].balance]
  <1>1. SetSub(p, s2) /\ Send(p, m) /\ sub[p].st = "CloseOffered" /\ ready[p]
    BY DEF AcceptCloseEffect, CanAcceptClose, In, Usable
  <1>2. s2.st = "CloseAccepted" /\ Kept(sub[p], s2)
    BY Fields DEF SubChannelRecord, Kept
  <1>3. m \in Message /\ m.type = "CloseAccept"
    BY MsgTyped, Fields DEF MessageType, Message
  <1> HIDE DEF s2, m
  <1>4. sub'[p] = s2 /\ Says(p, m)
    BY <1>1, SetSubFrame, SendSays
  <1> QED BY <1>1, <1>2, <1>3, <1>4 DEF Drifts, DriftTo

LEMMA AcceptCloseKind ==
    ASSUME TypeInv, NEW p \in Party, AcceptSubchannelCloseOffer(p)
    PROVE  Drifts(p)
  <1>1. CanAcceptClose(p) /\ AcceptCloseEffect(p)
        /\ UNCHANGED <<watch, held, conn, ready, actions, stored>>
    BY DEF AcceptSubchannelCloseOffer, actVars
  <1>2. sub'[Other(p)] = sub[Other(p)]
    BY <1>1, SetSubFrame DEF AcceptCloseEffect
  <1> QED BY <1>1, <1>2, CalmStep, AcceptCloseEffectKind

LEMMA UnmovedSub ==
    ASSUME NEW p \in Party, UNCHANGED <<sub, watch, held, actions, stored, conn, ready>>,
           Silent(p)
    PROVE  Idles(p)
  BY CalmStep DEF Idles, SameSub

LEMMA InvalidKind ==
    ASSUME TypeInv, NEW p \in Party,
           \/ OnSubchannelAcceptInvalid(p) \/ OnSubChannelCloseAcceptInvalid(p)
           \/ OnSubChannelMessageError(p)
    PROVE  Idles(p)
  <1>1. /\ net[p] # <<>> /\ Consume(p)
        /\ UNCHANGED <<sub, watch, held, actions, stored, conn, ready>>
    BY DEF OnSubchannelAcceptInvalid, OnSubChannelCloseAcceptInvalid, OnSubChannelMessageError,
           Received, subVars, actVars, historyVars
  <1> QED BY <1>1, ConsumeTakes, UnmovedSub

LEMMA CloseAcceptKind ==
    ASSUME TypeInv, NEW p \in Party, OnSubChannelCloseAccept(p)
    PROVE  Discloses(p)
  <1> DEFINE s2 == [sub[p] EXCEPT !.st = "CloseConfirmed", !.commits = TRUE,
                                  !.balance = OfferBalance(sub[p]), !.checkLnSecret = TRUE]
             m == [Msg("CloseConfirm") EXCEPT !.point = PerSplitPoint(p, sub[p].idx),
                                              !.balance = sub[p].balance]
  <1>1. SetSub(p, s2) /\ Reply(p, m) /\ sub[p].st = "CloseOffered" /\ ready[p]
        /\ net[p] # <<>> /\ Head(net[p]).type = "CloseAccept"
        /\ UNCHANGED <<watch, held, conn, ready, actions, stored>>
    BY DEF OnSubChannelCloseAccept, CanConfirmClose, In, Usable, Received, actVars
  <1>2. s2.st = "CloseConfirmed" /\ Kept(sub[p], s2)
    BY Fields DEF SubChannelRecord, Kept
  <1>3. m \in Message /\ m.type = "CloseConfirm" /\ m.point = PerSplitPoint(p, sub[p].idx)
    BY MsgTyped, Fields, PointTyped DEF MessageType, Message
  <1> HIDE DEF s2, m
  <1>4. sub'[p] = s2 /\ Says(p, m) /\ Calm(p)
    BY <1>1, SetSubFrame, ReplySays, CalmStep
  <1>5. Got(p, "CloseAccept")
    BY <1>1, ReplySays DEF Got
  <1> QED BY <1>1, <1>2, <1>3, <1>4, <1>5 DEF Discloses

(* Storing the peer's secret, with the message that may follow.            *)
LEMMA MergeStep ==
    ASSUME TypeInv, NEW p \in Party, net[p] # <<>>, OffChainClosed(p, Head(net[p])), ready[p],
           UNCHANGED <<held, conn, ready, actions, stored>>,
           Head(net[p]).point = CounterPoint(p, sub[p].split),
           \/ sub[p].st = "CloseAccepted" /\ Got(p, "CloseConfirm")
           \/ sub[p].st = "CloseConfirmed" /\ Got(p, "CloseFinalize"),
           NEW m \in Message, m.type = "CloseFinalize",
           m.point = PerSplitPoint(p, sub[p].idx), Says(p, m)
    PROVE  Merges(p)
  <1> DEFINE s2 == [sub[p] EXCEPT !.st = "OffChainClosed", !.commits = FALSE,
                                  !.secrets = StoreSecret(sub[p], Head(net[p]).point)]
  <1>1. SetSub(p, s2) /\ AddWatch(p, RevokedEntry(sub[p]))
    BY DEF OffChainClosed
  <1>2. s2.st = "OffChainClosed" /\ s2.idx = sub[p].idx /\ s2.split = sub[p].split
        /\ s2.secrets = StoreSecret(sub[p], Head(net[p]).point)
    BY Fields DEF SubChannelRecord
  <1> HIDE DEF s2
  <1>3. sub'[p] = s2 /\ watch'[p] = Entered(watch[p], RevokedEntry(sub[p])) /\ Calm(p)
    BY <1>1, SetSubFrame, AddWatchFrame, CalmStep
  <1> QED BY <1>2, <1>3 DEF Merges

LEMMA CloseConfirmKind ==
    ASSUME TypeInv, NEW p \in Party, OnSubChannelCloseConfirm(p)
    PROVE  Merges(p)
  <1> DEFINE m == [Msg("CloseFinalize") EXCEPT !.point = PerSplitPoint(p, sub[p].idx),
                                               !.lnSecret = TRUE]
  <1>1. /\ OffChainClosed(p, Head(net[p])) /\ Reply(p, m) /\ sub[p].st = "CloseAccepted"
        /\ net[p] # <<>> /\ Head(net[p]).type = "CloseConfirm"
        /\ Head(net[p]).point = CounterPoint(p, sub[p].split) /\ ready[p]
        /\ UNCHANGED <<held, conn, ready, actions, stored>>
    BY DEF OnSubChannelCloseConfirm, CanCloseOff, Usable, SecretValid, In, Received, actVars
  <1>2. m \in Message /\ m.type = "CloseFinalize" /\ m.point = PerSplitPoint(p, sub[p].idx)
    BY MsgTyped, Fields, PointTyped DEF MessageType, Message
  <1> HIDE DEF m
  <1>3. Got(p, "CloseConfirm") /\ Says(p, m)
    BY <1>1, ReplySays DEF Got
  <1> QED BY <1>1, <1>2, <1>3, MergeStep

LEMMA CloseFinalizeKind ==
    ASSUME TypeInv, NEW p \in Party, OnSubChannelCloseFinalize(p)
    PROVE  Merges(p) \/ WatchesEarly(p)
  <1> DEFINE m == [Msg("CloseFinalize") EXCEPT !.point = PerSplitPoint(p, sub[p].idx)]
  <1>1. /\ sub[p].st = "CloseConfirmed" /\ Consume(p)
        /\ net[p] # <<>> /\ Head(net[p]).type = "CloseFinalize"
        /\ Head(net[p]).point = CounterPoint(p, sub[p].split) /\ ready[p]
        /\ UNCHANGED <<held, conn, ready, actions, stored>>
    BY DEF OnSubChannelCloseFinalize, CanFinalizeClose, Usable, SecretValid, In, Received, actVars,
           historyVars
  <1>2. m \in Message /\ m.type = "CloseFinalize" /\ m.point = PerSplitPoint(p, sub[p].idx)
    BY MsgTyped, Fields, PointTyped DEF MessageType, Message
  <1> HIDE DEF m
  <1>3. Got(p, "CloseFinalize") /\ Silent(p) /\ Says(p, m)
    BY <1>1, ConsumeTakes, SilentSays DEF Got
  <1>4. CASE OffChainClosed(p, Head(net[p]))
    BY <1>1, <1>2, <1>3, <1>4, MergeStep
  <1>5. CASE AddWatch(p, RevokedEntry(sub[p])) /\ UNCHANGED sub
    <2>1. watch'[p] = Entered(watch[p], RevokedEntry(sub[p])) /\ Calm(p)
      BY <1>1, <1>5, AddWatchFrame, CalmStep
    <2> QED BY <1>1, <1>3, <1>5, <2>1 DEF WatchesEarly, SameSub
  <1> QED BY <1>4, <1>5 DEF OnSubChannelCloseFinalize, subVars

LEMMA ReturnKind ==
    ASSUME TypeInv, NEW p \in Party, OnChannelReestablish(p)
    PROVE  Returns(p)
  <1> DEFINE flag == Head(net[p]).flag
             r == Repaired(p, flag)
  <1>1. /\ net[p] # <<>> /\ Head(net[p]).type = "Reestablish" /\ SetSub(p, r.sub)
        /\ Push(p, r.list) /\ Consume(p) /\ ready' = [ready EXCEPT ![p] = TRUE]
        /\ UNCHANGED <<watch, held, conn>>
    BY DEF OnChannelReestablish, Received, historyVars
  <1>2. RepairOk(p, flag, r)
    BY RepairedOk
  <1> HIDE DEF r
  <1>3. Got(p, "Reestablish") /\ Silent(p) /\ sub'[p] = r.sub
        /\ sub'[Other(p)] = sub[Other(p)]
    BY <1>1, ConsumeTakes, SetSubFrame DEF Got
  <1>4. ready'[p] = TRUE /\ ready'[Other(p)] = ready[Other(p)]
    BY <1>1, Others DEF TypeInv, TypeOK
  <1>5. /\ actions'[p] = actions[p] \o r.list /\ stored'[p] = actions[p] \o r.list
        /\ actions'[Other(p)] = actions[Other(p)] /\ stored'[Other(p)] = stored[Other(p)]
    BY <1>1, Others DEF TypeInv, TypeOK, Push
  <1>6. Left(Other(p))' = Left(Other(p))
    BY <1>5 DEF Left
  <1>7. ASSUME NEW a \in Left(p)'
        PROVE  a \in Left(p) \/ NewAction(p, sub[p], flag, a)
    <2> DEFINE u == actions[p]  v == r.list
    <2>1. u \in Seq(Action) /\ v \in Seq(Action)
      BY <1>2 DEF RepairOk, TypeInv, TypeOK
    <2>2. /\ Len(u \o v) = Len(u) + Len(v)
          /\ \A i \in 1 .. (Len(u) + Len(v)) :
               (u \o v)[i] = IF i <= Len(u) THEN u[i] ELSE v[i - Len(u)]
      BY <2>1, ConcatProperties
    <2>3. PICK i \in 1 .. Len(u \o v) : a = (u \o v)[i]
      BY <1>5 DEF Left
    <2>4. Len(u) \in Nat /\ Len(v) \in Nat
      BY <2>1
    <2>5. \/ \E j \in 1 .. Len(u) : a = u[j]
          \/ \E j \in 1 .. Len(v) : a = v[j]
      <3> HIDE DEF u, v
      <3>1. CASE i <= Len(u)
        BY <2>2, <2>3, <2>4, <3>1
      <3>2. CASE ~(i <= Len(u))
        <4>1. i - Len(u) \in 1 .. Len(v) /\ a = v[i - Len(u)]
          BY <2>2, <2>3, <2>4, <3>2
        <4> QED BY <4>1
      <3> QED BY <3>1, <3>2
    <2> QED BY <1>2, <2>5 DEF Left, RepairOk
  <1>8. Frame(p)
    BY <1>1, <1>3, <1>4, <1>6 DEF Frame
  <1>9. Returned(p, sub[p], flag, sub'[p])
    BY <1>2, <1>3 DEF RepairOk
  <1> QED BY <1>1, <1>3, <1>4, <1>7, <1>8, <1>9 DEF Returns

LEMMA CutLeft ==
    ASSUME NEW s \in Seq(Action), NEW i \in 1 .. Len(s),
           NEW j \in 1 .. Len(SubSeq(s, 1, i - 1) \o SubSeq(s, i + 1, Len(s)))
    PROVE  \E k \in 1 .. Len(s) :
             (SubSeq(s, 1, i - 1) \o SubSeq(s, i + 1, Len(s)))[j] = s[k]
  <1> DEFINE u == SubSeq(s, 1, i - 1)  v == SubSeq(s, i + 1, Len(s))
  <1>1. Len(s) \in Nat /\ i \in Nat
    OBVIOUS
  <1>2. u \in Seq(Action) /\ Len(u) = i - 1 /\ \A k \in 1 .. i - 1 : u[k] = s[k]
    BY <1>1, SubSeqProperties
  <1>3. v \in Seq(Action) /\ Len(v) = Len(s) - i
        /\ \A k \in 1 .. (Len(s) - i) : v[k] = s[i + k]
    BY <1>1, SubSeqProperties
  <1>4. /\ Len(u \o v) = Len(u) + Len(v)
        /\ \A k \in 1 .. (Len(u) + Len(v)) :
             (u \o v)[k] = IF k <= Len(u) THEN u[k] ELSE v[k - Len(u)]
    BY <1>2, <1>3, ConcatProperties
  <1>5. j \in 1 .. Len(u \o v)
    OBVIOUS
  <1> HIDE DEF u, v
  <1>6. CASE j <= i - 1
    <2>1. (u \o v)[j] = s[j] /\ j \in 1 .. Len(s)
      BY <1>1, <1>2, <1>3, <1>4, <1>5, <1>6
    <2> QED BY <2>1 DEF u, v
  <1>7. CASE ~(j <= i - 1)
    <2>1. j - (i - 1) \in 1 .. (Len(s) - i) /\ (u \o v)[j] = v[j - (i - 1)]
      BY <1>1, <1>2, <1>3, <1>4, <1>5, <1>7
    <2>2. v[j - (i - 1)] = s[i + (j - (i - 1))] /\ i + (j - (i - 1)) \in 1 .. Len(s)
      BY <1>1, <1>3, <2>1
    <2> QED BY <2>1, <2>2 DEF u, v
  <1> QED BY <1>6, <1>7

LEMMA ProcessLeft ==
    ASSUME TypeInv, NEW p \in Party, ProcessActions(p)
    PROVE  Left(p)' \subseteq Left(p) /\ Left(Other(p))' = Left(Other(p))
  <1>1. PICK i \in 1 .. Len(actions[p]) :
          actions' = [actions EXCEPT ![p] = SubSeq(actions[p], 1, i - 1)
                                            \o SubSeq(actions[p], i + 1, Len(actions[p]))]
    BY ProcessCases
  <1>2. actions \in [Party -> Seq(Action)] /\ UNCHANGED stored
    BY ProcessCases DEF TypeInv, TypeOK
  <1>3. /\ actions'[p] = SubSeq(actions[p], 1, i - 1)
                          \o SubSeq(actions[p], i + 1, Len(actions[p]))
        /\ actions'[Other(p)] = actions[Other(p)]
    BY <1>1, <1>2, Others
  <1>4. Left(Other(p))' = Left(Other(p))
    BY <1>2, <1>3 DEF Left
  <1>5. \A j \in 1 .. Len(actions'[p]) : \E k \in 1 .. Len(actions[p]) :
          actions'[p][j] = actions[p][k]
    <2> DEFINE s == actions[p]  u == SubSeq(s, 1, i - 1) \o SubSeq(s, i + 1, Len(s))
    <2>1. s \in Seq(Action) /\ i \in 1 .. Len(s) /\ actions'[p] = u
      BY <1>2, <1>3
    <2>2. \A j \in 1 .. Len(u) : \E k \in 1 .. Len(s) : u[j] = s[k]
      <3> HIDE DEF s
      <3> QED BY <2>1, CutLeft
    <2> HIDE DEF u
    <2> QED BY <2>1, <2>2
  <1>6. Left(p)' \subseteq Left(p)
    BY <1>2, <1>5 DEF Left
  <1> QED BY <1>4, <1>6

LEMMA ProcessKind ==
    ASSUME TypeInv, NEW p \in Party, ProcessActions(p)
    PROVE  Idles(p) \/ Resends(p) \/ Drifts(p) \/ Accepts(p)
  <1>1. Left(p)' \subseteq Left(p) /\ Left(Other(p))' = Left(Other(p))
        /\ UNCHANGED <<conn, ready, held>>
    BY ProcessLeft, ProcessCases DEF historyVars
  <1>2. ASSUME sub'[Other(p)] = sub[Other(p)], watch'[Other(p)] = watch[Other(p)]
        PROVE  Calm(p)
    BY <1>1, <1>2 DEF Calm, Frame
  <1>3. CASE Dropped(p)
    <2>1. UNCHANGED <<sub, watch, net>>
      BY <1>3 DEF Dropped, subVars
    <2> QED BY <1>1, <1>2, <2>1, UnmovedSilent DEF Idles, SameSub
  <1>4. CASE Resent(p)
    <2>1. UNCHANGED <<sub, watch>>
      BY <1>4 DEF Resent, subVars
    <2>2. PICK m \in Message : /\ Send(p, m)
                              /\ \/ m.type = "CloseOffer"
                                 \/ \E i \in 1 .. Len(actions[p]) :
                                      /\ actions[p][i] \in Action
                                      /\ m.point = actions[p][i].point
                                      /\ \/ /\ m.type = "Offer"
                                            /\ actions[p][i].type = "ResendOffer"
                                         \/ /\ m.type = "CloseFinalize"
                                            /\ actions[p][i].type = "ResendCloseFinalize"
      BY <1>4, ResentTyped
    <2>3. Resendable(p, m)
      BY <2>2 DEF Resendable, Left
    <2>4. Calm(p) /\ Says(p, m)
      BY <1>2, <2>1, <2>2, SendSays
    <2> QED BY <1>1, <2>1, <2>3, <2>4 DEF Resends, SameSub
  <1>5. CASE ForceSigned(p)
    <2>1. SetSub(p, [sub[p] EXCEPT !.st = "Signed"]) /\ sub[p].st = "Finalized"
          /\ UNCHANGED <<watch, net>>
      BY <1>5 DEF ForceSigned, MarkChannelSigned, In
    <2>2. DriftTo(sub[p], [sub[p] EXCEPT !.st = "Signed"]) /\ "Signed" \in StateName
      BY <2>1, Fields DEF DriftTo, StateName, SubChannelRecord
    <2> QED BY <1>1, <2>1, <2>2, UnmovedSilent, DriftStep
  <1>6. CASE CanAccept(p) /\ AcceptEffect(p)
    <2>1. Calm(p)
      BY <1>2, <1>6, SetSubFrame, AddWatchFrame DEF AcceptEffect
    <2> QED BY <1>1, <1>6, <2>1, AcceptEffectKind
  <1>7. CASE CanAcceptClose(p) /\ AcceptCloseEffect(p) /\ UNCHANGED <<dlc, watch>>
    <2>1. Calm(p)
      BY <1>2, <1>7, SetSubFrame DEF AcceptCloseEffect
    <2> QED BY <1>1, <1>7, <2>1, AcceptCloseEffectKind
  <1> QED BY <1>3, <1>4, <1>5, <1>6, <1>7, ProcessCases

(* Closing on chain: a step that sets the state's name, and may forget     *)
(* what is watched.                                                        *)
LEMMA CloseStep ==
    ASSUME TypeInv, NEW p \in Party, NEW st \in SettledStates,
           SetSub(p, [sub[p] EXCEPT !.st = st]),
           UNCHANGED <<held, conn, ready, actions, stored, net>>,
           UNCHANGED watch \/ CleanupChannel(p)
    PROVE  Drifts(p)
  <1>1. DriftTo(sub[p], [sub[p] EXCEPT !.st = st]) /\ st \in StateName
    BY Fields DEF DriftTo, StateName, SubChannelRecord, SettledStates
  <1>2. /\ watch'[Other(p)] = watch[Other(p)]
        /\ watch'[p] = watch[p] \/ watch'[p] \subseteq watch[p]
    BY CleanupFrame
  <1> QED BY <1>1, <1>2, UnmovedSilent, SameLeft, DriftStep

LEMMA WithSplitKind ==
    ASSUME TypeInv, NEW p \in Party, NEW c \in BOOLEAN, ForceCloseSigned(p, c),
           sub[p].st \in {"Finalized", "Signed", "CloseOffered", "CloseAccepted"},
           UNCHANGED <<held, conn, ready, actions, stored, net>>
    PROVE  Drifts(p)
  <1> DEFINE s2 == [sub[p] EXCEPT !.st = "Closing", !.isInitiator = TRUE, !.commits = c]
  <1>1. SetSub(p, s2) /\ UNCHANGED watch
    BY DEF ForceCloseSigned
  <1>2. s2.st = "Closing" /\ Kept(sub[p], s2)
    BY Fields DEF SubChannelRecord, Kept
  <1>3. Msg("Reject") \in Message /\ Msg("Reject").type = "Reject"
    BY MsgTyped DEF MessageType
  <1> HIDE DEF s2
  <1>4. sub'[p] = s2 /\ Says(p, Msg("Reject")) /\ Calm(p)
    BY <1>1, SetSubFrame, UnmovedSilent, SilentSays, CalmStep
  <1> QED BY <1>1, <1>2, <1>3, <1>4 DEF Drifts, DriftTo

LEMMA ForceCloseKind ==
    ASSUME TypeInv, NEW p \in Party, ForceCloseSubChannel(p)
    PROVE  Drifts(p)
  <1>1. UNCHANGED <<held, conn, ready, actions, stored, net>>
    BY DEF ForceCloseSubChannel, actVars, historyVars
  <1>2. "OnChainClosed" \in SettledStates
    BY DEF SettledStates
  <1>3. CASE ForceCloseWithLdk(p)
    BY <1>1, <1>2, <1>3, CloseStep DEF ForceCloseWithLdk
  <1>4. CASE ForceCloseWithSaved(p)
    BY <1>1, <1>2, <1>4, CloseStep DEF ForceCloseWithSaved
  <1>5. CASE sub[p].st \in ClosableWithSplit /\ ForceCloseSigned(p, FALSE)
    BY <1>1, <1>5, WithSplitKind DEF ClosableWithSplit
  <1>6. CASE In(p, "CloseAccepted") /\ ForceCloseSigned(p, TRUE)
    BY <1>1, <1>6, WithSplitKind DEF In
  <1> QED BY <1>3, <1>4, <1>5, <1>6 DEF ForceCloseSubChannel

LEMMA LdkKind ==
    ASSUME TypeInv, NEW p \in Party,
           LdkForceClose(p) \/ LdkPeerClosed(p) \/ ForceCloseFails(p) \/ PublishHeld(p) \/ SweepHeld(p)
    PROVE  Idles(p)
  <1>1. UNCHANGED <<sub, watch, held, actions, stored, conn, ready, net>>
    BY DEF LdkForceClose, LdkPeerClosed, ForceCloseFails, PublishHeld, SweepHeld, subVars, actVars,
           historyVars
  <1> QED BY <1>1, UnmovedSilent, UnmovedSub

LEMMA NotifyCounterKind ==
    ASSUME TypeInv, NEW p \in Party, NotifyCounterClosed(p)
    PROVE  Drifts(p) \/ Idles(p)
  <1>1. UNCHANGED <<held, conn, ready, actions, stored, net>>
    BY DEF NotifyCounterClosed, actVars, historyVars
  <1>2. "CounterOnChainClosed" \in SettledStates
    BY DEF SettledStates
  <1>3. \/ /\ SetSub(p, [sub[p] EXCEPT !.st = "CounterOnChainClosed"])
           /\ UNCHANGED watch \/ CleanupChannel(p)
        \/ UNCHANGED <<sub, watch>>
    BY DEF NotifyCounterClosed, subVars
  <1>4. CASE UNCHANGED <<sub, watch>>
    BY <1>1, <1>4, UnmovedSilent, UnmovedSub
  <1> QED BY <1>1, <1>2, <1>3, <1>4, CloseStep

LEMMA NotifyHolderKind ==
    ASSUME TypeInv, NEW p \in Party, NotifyHolderClosed(p)
    PROVE  Drifts(p) \/ Idles(p)
  <1>1. UNCHANGED <<held, conn, ready, actions, stored, net>>
    BY DEF NotifyHolderClosed, actVars, historyVars
  <1>2. "OnChainClosed" \in SettledStates
    BY DEF SettledStates
  <1>3. \/ SetSub(p, [sub[p] EXCEPT !.st = "OnChainClosed"]) /\ CleanupChannel(p)
        \/ /\ sub[p].st \in {"CloseAccepted", "CloseOffered", "Signed", "Finalized"}
           /\ ForceCloseSigned(p, TRUE)
        \/ UNCHANGED <<sub, watch>>
    BY DEF NotifyHolderClosed, ForceCloseWithSaved, subVars
  <1>4. CASE UNCHANGED <<sub, watch>>
    BY <1>1, <1>4, UnmovedSilent, UnmovedSub
  <1> QED BY <1>1, <1>2, <1>3, <1>4, CloseStep, WithSplitKind

LEMMA FinalizeForceKind ==
    ASSUME TypeInv, NEW p \in Party, FinalizeForceClose(p)
    PROVE  Drifts(p)
  <1> DEFINE st == IF sub[p].isInitiator THEN "OnChainClosed" ELSE "CounterOnChainClosed"
  <1>1. SetSub(p, [sub[p] EXCEPT !.st = st]) /\ CleanupChannel(p)
        /\ UNCHANGED <<held, conn, ready, actions, stored, net>>
    BY DEF FinalizeForceClose, actVars, historyVars
  <1>2. st \in SettledStates
    BY DEF SettledStates
  <1> HIDE DEF st
  <1> QED BY <1>1, <1>2, CloseStep

LEMMA CheckSplitKind ==
    ASSUME TypeInv, NEW p \in Party, CheckSplit(p)
    PROVE  Drifts(p)
  <1> DEFINE s2 == [sub[p] EXCEPT !.st = "Closing", !.isInitiator = FALSE,
                       !.commits = @ /\ sub[p].st \notin {"Signed", "CloseOffered"}]
  <1>1. SetSub(p, s2) /\ watch' = [watch EXCEPT ![p] = {e \in watch[p] : e.split # spent.split}]
        /\ sub[p].st \in {"Signed", "CloseOffered", "CloseAccepted", "CloseConfirmed"}
        /\ UNCHANGED <<held, conn, ready, actions, stored, net>>
    BY DEF CheckSplit, actVars, historyVars
  <1>2. s2.st = "Closing" /\ ~s2.isInitiator /\ Kept(sub[p], s2)
    BY Fields DEF SubChannelRecord, Kept
  <1>3. Msg("Reject") \in Message /\ Msg("Reject").type = "Reject"
    BY MsgTyped DEF MessageType
  <1> HIDE DEF s2
  <1>4. watch'[p] \subseteq watch[p] /\ watch'[Other(p)] = watch[Other(p)]
    BY <1>1, Others DEF TypeInv, TypeOK
  <1>5. sub'[p] = s2 /\ Says(p, Msg("Reject")) /\ Calm(p)
    BY <1>1, <1>4, SetSubFrame, UnmovedSilent, SilentSays, CalmStep
  <1> QED BY <1>1, <1>2, <1>3, <1>4, <1>5 DEF Drifts, DriftTo

LEMMA CheckRevokedKind ==
    ASSUME TypeInv, NEW p \in Party, CheckRevoked(p)
    PROVE  Drifts(p)
  <1>1. SetSub(p, [sub[p] EXCEPT !.st = "ClosedPunished"])
        /\ UNCHANGED <<watch, held, conn, ready, actions, stored, net>>
    BY DEF CheckRevoked, actVars, historyVars
  <1>2. "ClosedPunished" \in SettledStates
    BY DEF SettledStates
  <1> QED BY <1>1, <1>2, CloseStep

LEMMA DropKind ==
    ASSUME TypeInv, Disconnect \/ \E p \in Party : Restart(p)
    PROVE  Drops
  <1>1. DropConnection /\ UNCHANGED <<sub, watch, held, stored>>
    BY DEF Disconnect, Restart, subVars, actVars
  <1>2. \A p \in Party : actions'[p] = actions[p] \/ actions'[p] = stored[p]
    BY DEF Disconnect, Restart, actVars, TypeInv, TypeOK
  <1>3. \A p \in Party : Left(p)' \subseteq Left(p)
    BY <1>1, <1>2 DEF Left
  <1> QED BY <1>1, <1>3 DEF Drops

LEMMA GreetKind ==
    ASSUME TypeInv, Reconnect
    PROVE  Greets
  <1>1. UNCHANGED <<sub, watch, held, ready, actions, stored>> /\ ~conn /\ conn'
    BY DEF Reconnect, subVars, actVars
  <1>2. ASSUME NEW p \in Party
        PROVE  /\ Left(p)' = Left(p)
               /\ \/ net'[p] = <<>>
                  \/ \E m \in Message : /\ net'[p] = <<m>> /\ m.type = "Reestablish"
                                        /\ m.flag = GetReestablishFlag(sub[Other(p)])
    <2> DEFINE m == [Msg("Reestablish") EXCEPT !.flag = GetReestablishFlag(sub[Other(p)])]
    <2>1. net'[p] = <<>> \/ net'[p] = <<m>>
      BY DEF Reconnect
    <2>2. GetReestablishFlag(sub[Other(p)]) \in ReestablishFlag \cup {"none"}
      BY DEF GetReestablishFlag
    <2>3. m \in Message /\ m.type = "Reestablish"
          /\ m.flag = GetReestablishFlag(sub[Other(p)])
      BY <2>2, MsgTyped DEF MessageType, Message
    <2> HIDE DEF m
    <2> QED BY <1>1, <2>1, <2>3, SameLeft
  <1> QED BY <1>1, <1>2 DEF Greets

(* Every step is of one of these kinds.                                    *)
LEMMA StepKinds ==
    ASSUME TypeInv, [Next]_vars
    PROVE  Drops \/ Greets \/ \E p \in Party : PartyStep(p)
  <1>1. CASE UNCHANGED <<sub, watch, held, actions, stored, conn, ready, net>>
    BY <1>1, UnmovedSilent, UnmovedSub DEF PartyStep, Party
  <1>2. CASE \E t \in mempool : Confirm(t)
    BY <1>1, <1>2 DEF Confirm, subVars, actVars, historyVars
  <1>3. CASE Mature
    BY <1>1, <1>3 DEF Mature, subVars, actVars, historyVars
  <1>4. CASE UNCHANGED vars
    BY <1>1, <1>4 DEF vars
  <1>5. CASE Disconnect \/ Reconnect
    BY <1>5, DropKind, GreetKind
  <1>6. ASSUME NEW p \in Party,
               \/ Receive(p) \/ Application(p) \/ Accept(p) \/ PeriodicCheck(p)
               \/ Notify(p) \/ LdkPeerClosed(p) \/ Restart(p)
        PROVE  Drops \/ PartyStep(p)
    <2>1. CASE Receive(p)
      BY <2>1, GetOfferKind, ConfirmKind, InvalidKind, FinalizeKind, SignKind, RevokeKind,
         RejectKind, GetOfferCloseKind, CloseAcceptKind, CloseConfirmKind, CloseFinalizeKind,
         ReturnKind DEF Receive, PartyStep
    <2>2. CASE Application(p)
      BY <2>2, OfferKind, RejectKind, OfferCloseKind, ForceCloseKind, LdkKind
         DEF Application, PartyStep
    <2>3. CASE Accept(p)
      BY <2>3, AcceptKind, AcceptCloseKind DEF Accept, PartyStep
    <2>4. CASE PeriodicCheck(p)
      BY <2>4, CheckSplitKind, CheckRevokedKind, ProcessKind, FinalizeForceKind
         DEF PeriodicCheck, PartyStep
    <2>5. CASE Notify(p)
      BY <2>5, NotifyCounterKind, NotifyHolderKind DEF Notify, PartyStep
    <2>6. CASE LdkPeerClosed(p)
      BY <2>6, LdkKind DEF PartyStep
    <2>7. CASE Restart(p)
      BY <2>7, DropKind
    <2> QED BY <1>6, <2>1, <2>2, <2>3, <2>4, <2>5, <2>6, <2>7
  <1> QED BY <1>2, <1>3, <1>4, <1>5, <1>6 DEF Next

-----------------------------------------------------------------------------
(* What the messages under way can be after a step.                        *)

Heard(p, m) ==
    Msgs(p)' \subseteq Msgs(p) /\ Msgs(Other(p))' \subseteq Msgs(Other(p)) \cup {m}

LEMMA TailMsgs ==
    ASSUME NEW s \in Seq(Message), s # <<>>
    PROVE  /\ Len(s) \in Nat /\ 1 \in 1 .. Len(s) /\ Head(s) = s[1]
           /\ \A i \in 1 .. Len(Tail(s)) : i + 1 \in 1 .. Len(s) /\ Tail(s)[i] = s[i + 1]
  BY HeadTailProperties

LEMMA AppendMsgs ==
    ASSUME NEW s \in Seq(Message), NEW m \in Message
    PROVE  \A i \in 1 .. Len(Append(s, m)) :
             (i \in 1 .. Len(s) /\ Append(s, m)[i] = s[i]) \/ Append(s, m)[i] = m
  BY AppendProperties

LEMMA MsgsTyped ==
    ASSUME TypeInv, NEW p \in Party
    PROVE  Msgs(p) \subseteq Message /\ net[p] \in Seq(Message) /\ net[Other(p)] \in Seq(Message)
  BY TypeParts, Others DEF NetTyped, Msgs

LEMMA TakesMsgs ==
    ASSUME TypeInv, NEW p \in Party, TakesOrNot(p)
    PROVE  Msgs(p)' \subseteq Msgs(p) /\ (Takes(p) => Head(net[p]) \in Msgs(p))
  <1>1. CASE net'[p] = net[p]
    BY <1>1, MsgsTyped, TailMsgs DEF Msgs, Takes
  <1>2. CASE Takes(p)
    BY <1>2, MsgsTyped, TailMsgs DEF Msgs, Takes
  <1> QED BY <1>1, <1>2 DEF TakesOrNot

LEMMA SaysHeard ==
    ASSUME TypeInv, NEW p \in Party, NEW m \in Message, Says(p, m)
    PROVE  Heard(p, m) /\ (Takes(p) => Head(net[p]) \in Msgs(p))
  <1>1. TakesOrNot(p)
    BY DEF Says
  <1>2. CASE net'[Other(p)] = net[Other(p)]
    BY <1>1, <1>2, TakesMsgs DEF Heard, Msgs
  <1>3. CASE net'[Other(p)] = Append(net[Other(p)], m)
    <2>1. Msgs(Other(p))' \subseteq Msgs(Other(p)) \cup {m}
      BY <1>3, MsgsTyped, AppendMsgs DEF Msgs
    <2> QED BY <1>1, <2>1, TakesMsgs DEF Heard
  <1> QED BY <1>2, <1>3 DEF Says

LEMMA SilentHeard ==
    ASSUME TypeInv, NEW p \in Party, Silent(p)
    PROVE  /\ Msgs(p)' \subseteq Msgs(p) /\ Msgs(Other(p))' = Msgs(Other(p))
           /\ Takes(p) => Head(net[p]) \in Msgs(p)
  BY TakesMsgs DEF Silent, Msgs

-----------------------------------------------------------------------------
(* The watches.                                                            *)

Merging == {"Signed", "CloseOffered", "CloseAccepted", "CloseConfirmed"}
Watches(p, t) == \E e \in watch[p] : e.split = t

(* A watch of p on a revoked split is of an earlier index, or of the       *)
(* current one once the merge has come to storing the secret.              *)
RevokedOk(p, e) ==
    /\ e.idx <= sub[p].idx
    /\ \/ e.idx < sub[p].idx \/ sub[p].st = "OffChainClosed" \/ Closed(p)
       \/ e.split = sub[p].split /\ sub[p].st \in Merging
    /\ \/ Punishable(p, e)
       \/ /\ e.split = sub[p].split /\ e.idx = sub[p].idx
          /\ sub[p].st \in Merging \/ Closed(p)

(* p watches every split the peer has its signature for or will get it in  *)
(* a message under way.                                                    *)
SentWatched(p) ==
    \A m \in Msgs(Other(p)) :
      m.type \in {"Confirm", "Finalize"} => Closed(p) \/ Watches(p, m.split)
AcceptedWatched(p) == sub[p].st = "Accepted" => Watches(p, sub[p].split)
HeldWatched(p) == \A t \in held[Other(p)] : Closed(p) \/ Watches(p, t)
RevokedWatched(p) == \A e \in watch[p] : e.type = "Revoked" => RevokedOk(p, e)
WatchOf(p) ==
    SentWatched(p) /\ AcceptedWatched(p) /\ HeldWatched(p) /\ RevokedWatched(p)
WatchInv == \A p \in Party : WatchOf(p)

(* A step of p does not touch what its peer watches, and its peer watches  *)
(* the split the step may give p a signature for.                          *)
PeerWatch(p) ==
    /\ sub'[Other(p)] = sub[Other(p)] /\ watch'[Other(p)] = watch[Other(p)]
    /\ Msgs(p)' \subseteq Msgs(p)
    /\ \/ held'[p] = held[p]
       \/ \E m \in Msgs(p) : /\ held'[p] = held[p] \cup {m.split}
                             /\ m.type \in {"Confirm", "Finalize"}
LEMMA PeerWatched ==
    ASSUME WatchInv, NEW p \in Party, PeerWatch(p)
    PROVE  WatchOf(Other(p))'
  <1> DEFINE q == Other(p)
  <1>1. q \in Party /\ Other(q) = p /\ sub'[q] = sub[q] /\ watch'[q] = watch[q]
    BY Others DEF PeerWatch
  <1>2. WatchOf(q)
    BY <1>1 DEF WatchInv
  <1> HIDE DEF q
  <1>3. SentWatched(q)'
    BY <1>1, <1>2 DEF WatchOf, SentWatched, PeerWatch, Closed, Watches
  <1>4. AcceptedWatched(q)'
    BY <1>1, <1>2 DEF WatchOf, AcceptedWatched, Watches
  <1>5. HeldWatched(q)'
    <2>1. \A t \in held'[p] : t \in held[p]
            \/ \E m \in Msgs(p) : m.split = t /\ m.type \in {"Confirm", "Finalize"}
      BY DEF PeerWatch
    <2>2. \A t \in held'[p] : Closed(q) \/ Watches(q, t)
      BY <1>1, <1>2, <2>1 DEF WatchOf, SentWatched, HeldWatched
    <2> QED BY <1>1, <2>2 DEF HeldWatched, Closed, Watches
  <1>6. RevokedWatched(q)'
    BY <1>1, <1>2 DEF WatchOf, RevokedWatched, RevokedOk, Closed, Punishable
  <1> QED BY <1>3, <1>4, <1>5, <1>6 DEF WatchOf, q

(* A step of p after which p still watches what it did, or is closing.     *)
StillWatches(p) ==
    /\ held'[Other(p)] = held[Other(p)]
    /\ \A t : Closed(p) \/ Watches(p, t) => Closed(p)' \/ Watches(p, t)'
LEMMA WatchesStill ==
    ASSUME NEW p \in Party, WatchOf(p), StillWatches(p), NEW m,
           Msgs(Other(p))' \subseteq Msgs(Other(p)) \cup {m},
           m.type \in {"Confirm", "Finalize"} => Closed(p)' \/ Watches(p, m.split)'
    PROVE  SentWatched(p)' /\ HeldWatched(p)'
  <1>1. SentWatched(p)'
    BY DEF WatchOf, SentWatched, StillWatches
  <1>2. HeldWatched(p)'
    BY DEF WatchOf, HeldWatched, StillWatches
  <1> QED BY <1>1, <1>2

(* Renaming the state keeps a revoked watch in order unless p leaves the   *)
(* merge.                                                                  *)
LEMMA RevokedKept ==
    ASSUME NEW p \in Party, WatchOf(p), sub'[p].split = sub[p].split,
           sub'[p].idx = sub[p].idx, sub'[p].secrets = sub[p].secrets,
           \/ sub[p].st \notin Merging \cup {"OffChainClosed"} /\ ~Closed(p)
           \/ sub[p].st = "OffChainClosed" /\ sub'[p].st = "OffChainClosed"
           \/ sub[p].st \in Merging /\ sub'[p].st \in Merging
           \/ Closed(p)',
           \A e \in watch'[p] : e.type = "Revoked" => e \in watch[p]
    PROVE  RevokedWatched(p)'
  <1>1. SUFFICES ASSUME NEW e \in watch[p], e.type = "Revoked"
                 PROVE  RevokedOk(p, e)'
    BY DEF RevokedWatched
  <1>2. RevokedOk(p, e)
    BY <1>1 DEF WatchOf, RevokedWatched
  <1>3. Punishable(p, e) => Punishable(p, e)'
    BY DEF Punishable
  <1>4. CASE Closed(p)'
    BY <1>2, <1>3, <1>4 DEF RevokedOk
  <1>5. CASE sub[p].st \notin Merging \cup {"OffChainClosed"} /\ ~Closed(p)
    BY <1>2, <1>3, <1>5 DEF RevokedOk
  <1>6. CASE sub[p].st = "OffChainClosed" /\ sub'[p].st = "OffChainClosed"
    BY <1>2, <1>3, <1>6 DEF RevokedOk, Merging, Closed, SettledStates
  <1>7. CASE sub[p].st \in Merging /\ sub'[p].st \in Merging
    BY <1>2, <1>3, <1>7 DEF RevokedOk, Merging, Closed, SettledStates
  <1> QED BY <1>4, <1>5, <1>6, <1>7

(* What each kind of step leaves alone, for either invariant.              *)
LEMMA FrameParts ==
    ASSUME NEW p \in Party, Calm(p) \/ Frame(p)
    PROVE  /\ sub'[Other(p)] = sub[Other(p)] /\ watch'[Other(p)] = watch[Other(p)]
           /\ held'[Other(p)] = held[Other(p)] /\ Left(Other(p))' = Left(Other(p))
           /\ ready'[Other(p)] = ready[Other(p)] /\ conn' = conn
  BY DEF Calm, Frame

LEMMA EnteredParts ==
    ASSUME NEW W, NEW e
    PROVE  /\ \A x \in W : \E y \in Entered(W, e) : y.split = x.split
           /\ e \in Entered(W, e)
           /\ \A x \in Entered(W, e) : x = e \/ (x \in W /\ x.split # e.split)
  BY DEF Entered

LEMMA SameWatches ==
    ASSUME NEW p \in Party, watch'[p] = watch[p], held'[Other(p)] = held[Other(p)],
           sub'[p].st = sub[p].st \/ ~Closed(p) \/ Closed(p)'
    PROVE  StillWatches(p)
  BY DEF StillWatches, Closed, Watches

LEMMA EntersWatch ==
    ASSUME NEW p \in Party, NEW e, watch'[p] = Entered(watch[p], e),
           held'[Other(p)] = held[Other(p)], ~Closed(p)
    PROVE  StillWatches(p) /\ Watches(p, e.split)'
  BY EnteredParts DEF StillWatches, Watches

LEMMA StatesApart ==
    /\ \A p : sub[p].st \in {"None", "Offered", "Accepted", "Confirmed", "Finalized", "Rejected"}
         => sub[p].st \notin Merging \cup {"OffChainClosed"} /\ ~Closed(p)
    /\ \A p : sub[p].st \in Merging \cup {"OffChainClosed"} => ~Closed(p)
  BY DEF Closed, SettledStates, Merging

LEMMA PlainWatch ==
    ASSUME TypeInv, WatchInv, NEW p \in Party, Idles(p) \/ Resends(p)
    PROVE  WatchOf(p)' /\ PeerWatch(p)
  <1>1. Calm(p) /\ SameSub(p) /\ watch'[p] = watch[p] /\ WatchOf(p)
    BY DEF Idles, Resends, WatchInv
  <1>2. PICK m \in Message : Says(p, m) /\ m.type \notin {"Confirm", "Finalize"}
    <2>1. Msg("Reject") \in Message /\ Msg("Reject").type = "Reject"
      BY MsgTyped DEF MessageType
    <2>2. CASE Idles(p)
      BY <2>1, <2>2, SilentSays DEF Idles
    <2>3. CASE Resends(p)
      BY <2>3 DEF Resends, Resendable
    <2> QED BY <2>2, <2>3
  <1>3. Heard(p, m)
    BY <1>2, SaysHeard
  <1>4. StillWatches(p)
    BY <1>1, FrameParts, SameWatches DEF SameSub
  <1>5. SentWatched(p)' /\ HeldWatched(p)'
    BY <1>1, <1>2, <1>3, <1>4, WatchesStill DEF Heard
  <1>6. AcceptedWatched(p)' /\ RevokedWatched(p)'
    BY <1>1 DEF SameSub, WatchOf, AcceptedWatched, RevokedWatched, RevokedOk, Watches,
                Closed, Punishable
  <1>7. PeerWatch(p)
    BY <1>1, <1>3, FrameParts DEF PeerWatch, Heard, SameSub
  <1> QED BY <1>5, <1>6, <1>7 DEF WatchOf

LEMMA DriftWatch ==
    ASSUME TypeInv, WatchInv, NEW p \in Party, Drifts(p)
    PROVE  WatchOf(p)' /\ PeerWatch(p)
  <1>1. Calm(p) /\ Kept(sub[p], sub'[p]) /\ held'[p] = held[p] /\ DriftTo(sub[p], sub'[p])
        /\ watch'[p] \subseteq watch[p] /\ (watch'[p] = watch[p] \/ Closed(p)') /\ WatchOf(p)
    BY DEF Drifts, WatchInv, Closed
  <1>2. PICK m \in Message : Says(p, m) /\ m.type \notin {"Confirm", "Finalize"}
    BY DEF Drifts
  <1>3. Heard(p, m)
    BY <1>2, SaysHeard
  <1>4. (Closed(p) => Closed(p)') /\ sub'[p].st # "Accepted"
    BY <1>1 DEF DriftTo, Closed, SettledStates
  <1>5. StillWatches(p)
    BY <1>1, <1>4, FrameParts, SameWatches DEF StillWatches
  <1>6. SentWatched(p)' /\ HeldWatched(p)'
    BY <1>1, <1>2, <1>3, <1>5, WatchesStill DEF Heard
  <1>7. AcceptedWatched(p)'
    BY <1>4 DEF AcceptedWatched
  <1>8. \/ sub[p].st \notin Merging \cup {"OffChainClosed"} /\ ~Closed(p)
        \/ sub[p].st \in Merging /\ sub'[p].st \in Merging
        \/ Closed(p)'
    BY <1>1 DEF DriftTo, Closed, SettledStates, Merging
  <1>9. RevokedWatched(p)'
    BY <1>1, <1>8, RevokedKept DEF Kept
  <1>10. PeerWatch(p)
    BY <1>1, <1>3, FrameParts DEF PeerWatch, Heard
  <1> QED BY <1>6, <1>7, <1>9, <1>10 DEF WatchOf

LEMMA OffersWatch ==
    ASSUME TypeInv, WatchInv, NEW p \in Party, Offers(p) \/ GetsOffer(p)
    PROVE  WatchOf(p)' /\ PeerWatch(p)
  <1>1. PICK b \in BOOLEAN : Renewed(p, b)
    BY DEF Offers, GetsOffer
  <1>2. Calm(p) /\ watch'[p] = watch[p] /\ held'[p] = held[p] /\ WatchOf(p)
    BY <1>1 DEF Renewed, WatchInv
  <1>3. PICK m \in Message : Says(p, m) /\ m.type \notin {"Confirm", "Finalize"}
    <2>1. Msg("Reject") \in Message /\ Msg("Reject").type = "Reject"
      BY MsgTyped DEF MessageType
    <2>2. CASE GetsOffer(p)
      BY <2>1, <2>2, SilentSays DEF GetsOffer
    <2>3. CASE Offers(p)
      BY <2>3 DEF Offers
    <2> QED BY <2>2, <2>3
  <1>4. Heard(p, m)
    BY <1>3, SaysHeard
  <1>5. ~Closed(p) /\ sub[p].st \notin Merging /\ sub'[p].st = "Offered"
    BY <1>1 DEF Renewed, CanOffer, Closed, SettledStates, Merging
  <1>6. SentWatched(p)' /\ HeldWatched(p)'
    BY <1>2, <1>3, <1>4, <1>5, FrameParts, SameWatches, WatchesStill DEF Heard
  <1>7. AcceptedWatched(p)'
    BY <1>5 DEF AcceptedWatched
  <1>8. RevokedWatched(p)'
    <2>1. sub'[p].idx = sub[p].idx + 1 /\ sub'[p].secrets = sub[p].secrets
      BY <1>1 DEF Renewed
    <2>2. sub[p].idx \in Nat
      BY Fields
    <2>3. ASSUME NEW e \in watch[p], e.type = "Revoked"
          PROVE  e.idx <= sub[p].idx /\ Punishable(p, e) /\ e.idx \in Nat
      <3>1. RevokedOk(p, e)
        BY <1>2, <2>3 DEF WatchOf, RevokedWatched
      <3>2. e \in WatchEntry
        BY DEF TypeInv, TypeOK
      <3> QED BY <1>5, <3>1, <3>2 DEF RevokedOk, WatchEntry, Index
    <2>4. ASSUME NEW e \in watch[p], e.type = "Revoked"
          PROVE  RevokedOk(p, e)'
      BY <2>1, <2>2, <2>3, <2>4 DEF RevokedOk, Punishable
    <2> QED BY <1>2, <2>4 DEF RevokedWatched
  <1>9. PeerWatch(p)
    BY <1>2, <1>4, FrameParts DEF PeerWatch, Heard
  <1> QED BY <1>6, <1>7, <1>8, <1>9 DEF WatchOf

LEMMA SetUpWatch ==
    ASSUME TypeInv, WatchInv, NEW p \in Party, Accepts(p) \/ Confirms(p)
    PROVE  WatchOf(p)' /\ PeerWatch(p)
  <1>1. PICK t \in Split : /\ SetUp(p, "Accepted", t) \/ SetUp(p, "Confirmed", t)
                           /\ \E m \in Message : Says(p, m) /\ m.split = t
    BY DEF Accepts, Confirms
  <1>2. PICK m \in Message : Says(p, m) /\ m.split = t
    BY <1>1
  <1>3. /\ Calm(p) /\ held'[p] = held[p] /\ watch'[p] = Entered(watch[p], SplitEntry(t))
        /\ sub[p].st = "Offered" /\ sub'[p].split = t /\ sub'[p].idx = sub[p].idx
        /\ sub'[p].secrets = sub[p].secrets /\ WatchOf(p)
    BY <1>1 DEF SetUp, WatchInv
  <1>4. Heard(p, m)
    BY <1>2, SaysHeard
  <1>5. SplitEntry(t).split = t /\ SplitEntry(t).type = "SplitTx"
    BY DEF SplitEntry
  <1>6. ~Closed(p) /\ sub[p].st \notin Merging \cup {"OffChainClosed"}
    BY <1>3, StatesApart
  <1>7. StillWatches(p) /\ Watches(p, t)'
    BY <1>3, <1>5, <1>6, FrameParts, EntersWatch
  <1>8. SentWatched(p)' /\ HeldWatched(p)'
    BY <1>2, <1>3, <1>4, <1>7, WatchesStill DEF Heard
  <1>9. AcceptedWatched(p)'
    BY <1>3, <1>7 DEF AcceptedWatched
  <1>10. RevokedWatched(p)'
    <2>1. SUFFICES ASSUME NEW e \in watch'[p], e.type = "Revoked"
                   PROVE  RevokedOk(p, e)'
      BY DEF RevokedWatched
    <2>2. e \in watch[p]
      <3>1. e # SplitEntry(t)
        BY <1>5, <2>1
      <3> QED BY <1>3, <3>1, EnteredParts
    <2>3. RevokedOk(p, e)
      BY <1>3, <2>1, <2>2 DEF WatchOf, RevokedWatched
    <2>4. e.idx < sub[p].idx /\ Punishable(p, e)
      BY <1>6, <2>3 DEF RevokedOk
    <2>5. e.idx \in Nat /\ sub[p].idx \in Nat
      <3>1. e \in WatchEntry
        BY <2>2 DEF TypeInv, TypeOK
      <3> QED BY <3>1, Fields DEF WatchEntry, Index
    <2>6. Punishable(p, e)'
      BY <1>3, <2>4 DEF Punishable
    <2> QED BY <1>3, <2>4, <2>5, <2>6 DEF RevokedOk
  <1>11. PeerWatch(p)
    BY <1>3, <1>4, FrameParts DEF PeerWatch, Heard
  <1> QED BY <1>8, <1>9, <1>10, <1>11 DEF WatchOf

LEMMA ObtainWatch ==
    ASSUME TypeInv, WatchInv, NEW p \in Party, Finalizes(p) \/ Signs(p)
    PROVE  WatchOf(p)' /\ PeerWatch(p)
  <1>1. PICK type \in {"Confirm", "Finalize"} : Obtains(p, type)
    BY DEF Finalizes, Signs
  <1>2. /\ Calm(p) /\ Kept(sub[p], sub'[p]) /\ watch'[p] = watch[p]
        /\ held'[p] = held[p] \cup {sub[p].split} /\ Takes(p) /\ Head(net[p]).type = type
        /\ Head(net[p]).split = sub[p].split /\ WatchOf(p)
    BY <1>1 DEF Obtains, Got, WatchInv
  <1>3. /\ sub[p].st \in {"Accepted", "Confirmed"} /\ sub'[p].st # "Accepted"
        /\ \E m \in Message :
             /\ Says(p, m)
             /\ \/ m.type = "Revoke"
                \/ m.type = "Finalize" /\ m.split = sub[p].split /\ sub[p].st = "Accepted"
    BY DEF Finalizes, Signs
  <1>4. PICK m \in Message : /\ Says(p, m)
             /\ \/ m.type = "Revoke"
                \/ m.type = "Finalize" /\ m.split = sub[p].split /\ sub[p].st = "Accepted"
    BY <1>3
  <1>5. Heard(p, m) /\ Head(net[p]) \in Msgs(p)
    BY <1>2, <1>4, SaysHeard
  <1>6. ~Closed(p) /\ sub[p].st \notin Merging \cup {"OffChainClosed"}
    BY <1>3, StatesApart
  <1>7. StillWatches(p)
    BY <1>2, <1>6, FrameParts, SameWatches
  <1>8. m.type \in {"Confirm", "Finalize"} => Closed(p)' \/ Watches(p, m.split)'
    BY <1>2, <1>4, <1>7 DEF WatchOf, AcceptedWatched, StillWatches
  <1>9. SentWatched(p)' /\ HeldWatched(p)'
    BY <1>2, <1>5, <1>7, <1>8, WatchesStill DEF Heard
  <1>10. AcceptedWatched(p)'
    BY <1>3 DEF AcceptedWatched
  <1>11. RevokedWatched(p)'
    BY <1>2, <1>6, RevokedKept DEF Kept
  <1>12. PeerWatch(p)
    BY <1>1, <1>2, <1>5, FrameParts DEF PeerWatch, Heard
  <1> QED BY <1>9, <1>10, <1>11, <1>12 DEF WatchOf

LEMMA ReturnWatch ==
    ASSUME TypeInv, WatchInv, NEW p \in Party, Returns(p) \/ Discloses(p)
    PROVE  WatchOf(p)' /\ PeerWatch(p)
  <1>1. watch'[p] = watch[p] /\ held'[p] = held[p] /\ WatchOf(p) /\ (Calm(p) \/ Frame(p))
    BY DEF Returns, Discloses, WatchInv
  <1>2. PICK m \in Message : Says(p, m) /\ m.type \notin {"Confirm", "Finalize"}
    <2>1. Msg("Reject") \in Message /\ Msg("Reject").type = "Reject"
      BY MsgTyped DEF MessageType
    <2>2. CASE Returns(p)
      BY <2>1, <2>2, SilentSays DEF Returns
    <2>3. CASE Discloses(p)
      BY <2>3 DEF Discloses
    <2> QED BY <2>2, <2>3
  <1>3. Heard(p, m)
    BY <1>2, SaysHeard
  <1>4. \/ sub'[p].st = sub[p].st
        \/ sub[p].st \in {"Accepted", "Confirmed", "Finalized"} /\ sub'[p].st = "Offered"
        \/ sub[p].st \in Merging /\ sub'[p].st \in Merging
    BY DEF Returns, Discloses, Returned, Merging
  <1>5. /\ sub'[p].split = sub[p].split /\ sub'[p].idx = sub[p].idx
        /\ sub'[p].secrets = sub[p].secrets
    BY DEF Returns, Discloses, Returned, Kept
  <1>6. sub'[p].st = sub[p].st \/ ~Closed(p)
    BY <1>4, StatesApart
  <1>7. SentWatched(p)' /\ HeldWatched(p)'
    BY <1>1, <1>2, <1>3, <1>6, FrameParts, SameWatches, WatchesStill DEF Heard
  <1>8. AcceptedWatched(p)'
    BY <1>1, <1>4, <1>5 DEF AcceptedWatched, Watches, WatchOf, Merging
  <1>9. RevokedWatched(p)'
    <2>1. \/ sub[p].st \notin Merging \cup {"OffChainClosed"} /\ ~Closed(p)
          \/ sub[p].st = "OffChainClosed" /\ sub'[p].st = "OffChainClosed"
          \/ sub[p].st \in Merging /\ sub'[p].st \in Merging
          \/ Closed(p)'
      BY <1>4, StatesApart DEF Closed
    <2> QED BY <1>1, <1>5, <2>1, RevokedKept
  <1>10. PeerWatch(p)
    BY <1>1, <1>3, FrameParts DEF PeerWatch, Heard
  <1> QED BY <1>7, <1>8, <1>9, <1>10 DEF WatchOf

LEMMA MergeWatch ==
    ASSUME TypeInv, WatchInv, NEW p \in Party, Merges(p) \/ WatchesEarly(p)
    PROVE  WatchOf(p)' /\ PeerWatch(p)
  <1>0. PICK r : r = RevokedEntry(sub[p])
    OBVIOUS
  <1>1. /\ watch'[p] = Entered(watch[p], r) /\ held'[p] = held[p]
        /\ WatchOf(p) /\ Calm(p) /\ sub[p].st \in {"CloseAccepted", "CloseConfirmed"}
        /\ sub'[p].split = sub[p].split /\ sub'[p].idx = sub[p].idx
    BY <1>0 DEF Merges, WatchesEarly, SameSub, WatchInv
  <1>2. PICK m \in Message : Says(p, m) /\ m.type \notin {"Confirm", "Finalize"}
    <2>1. Msg("Reject") \in Message /\ Msg("Reject").type = "Reject"
      BY MsgTyped DEF MessageType
    <2>2. CASE WatchesEarly(p)
      BY <2>1, <2>2, SilentSays DEF WatchesEarly
    <2>3. CASE Merges(p)
      BY <2>3 DEF Merges
    <2> QED BY <2>2, <2>3
  <1>3. Heard(p, m)
    BY <1>2, SaysHeard
  <1>4. r.split = sub[p].split /\ r.type = "Revoked" /\ r.idx = sub[p].idx
    BY <1>0 DEF RevokedEntry
  <1>5. ~Closed(p)
    BY <1>1, StatesApart DEF Merging
  <1>6. SentWatched(p)' /\ HeldWatched(p)'
    BY <1>1, <1>2, <1>3, <1>5, FrameParts, EntersWatch, WatchesStill DEF Heard
  <1>7. AcceptedWatched(p)'
    BY <1>1 DEF AcceptedWatched, Merges, WatchesEarly, SameSub
  <1>8. \/ /\ sub'[p].st = "OffChainClosed"
           /\ sub'[p].secrets = {x \in sub[p].secrets : x[1] # sub[p].idx}
                                  \cup {<<sub[p].idx, CounterPoint(p, sub[p].split)>>}
        \/ sub'[p].st = "CloseConfirmed" /\ sub'[p].secrets = sub[p].secrets
    BY DEF Merges, WatchesEarly, SameSub, StoreSecret
  <1>9. RevokedOk(p, r)'
    <2>1. sub[p].idx \in Nat
      BY Fields
    <2>2. Punishable(p, r)' \/ sub'[p].st \in Merging
      BY <1>1, <1>4, <1>8 DEF Punishable, Merging
    <2> QED BY <1>1, <1>4, <1>8, <2>1, <2>2 DEF RevokedOk, Merging
  <1>10. ASSUME NEW e \in watch[p], e.split # r.split, e.type = "Revoked"
         PROVE  RevokedOk(p, e)'
    <2>1. RevokedOk(p, e)
      BY <1>1, <1>10 DEF WatchOf, RevokedWatched
    <2>2. e.idx < sub[p].idx /\ Punishable(p, e)
      BY <1>1, <1>4, <1>5, <1>10, <2>1 DEF RevokedOk
    <2>3. e.idx \in Nat /\ sub[p].idx \in Nat
      <3>1. e \in WatchEntry
        BY DEF TypeInv, TypeOK
      <3> QED BY <3>1, Fields DEF WatchEntry, Index
    <2>4. Punishable(p, e)'
      BY <1>8, <2>2, <2>3 DEF Punishable
    <2> QED BY <1>1, <2>2, <2>3, <2>4 DEF RevokedOk
  <1>11. RevokedWatched(p)'
    BY <1>1, <1>9, <1>10, EnteredParts DEF RevokedWatched
  <1>12. PeerWatch(p)
    BY <1>1, <1>3, FrameParts DEF PeerWatch, Heard
  <1> QED BY <1>6, <1>7, <1>11, <1>12 DEF WatchOf

(* Losing the connection, reconnecting.                                    *)
LEMMA LinkWatch ==
    ASSUME TypeInv, WatchInv, Drops \/ Greets
    PROVE  WatchInv'
  <1>1. UNCHANGED <<sub, watch, held>>
    BY DEF Drops, Greets
  <1>2. ASSUME NEW p \in Party, NEW m \in Msgs(p)'
        PROVE  m.type = "Reestablish"
    <2>1. CASE net'[p] = <<>>
      BY <2>1, <1>2 DEF Msgs
    <2>2. CASE \E x \in Message : net'[p] = <<x>> /\ x.type = "Reestablish"
      BY <2>2, <1>2 DEF Msgs
    <2> QED BY <2>1, <2>2 DEF Drops, DropConnection, Greets
  <1>3. ASSUME NEW p \in Party
        PROVE  WatchOf(p)'
    <2>1. WatchOf(p) /\ Other(p) \in Party
      BY Others DEF WatchInv
    <2>2. SentWatched(p)'
      BY <1>2, <2>1 DEF SentWatched
    <2>3. AcceptedWatched(p)' /\ HeldWatched(p)' /\ RevokedWatched(p)'
      BY <1>1, <2>1 DEF WatchOf, AcceptedWatched, HeldWatched, RevokedWatched, RevokedOk,
                        Watches, Closed, Punishable
    <2> QED BY <2>2, <2>3 DEF WatchOf
  <1> QED BY <1>3 DEF WatchInv

LEMMA WatchInit == Init => WatchInv
  <1>1. SUFFICES ASSUME Init, NEW p \in Party
                 PROVE  WatchOf(p)
    BY DEF WatchInv
  <1>2. /\ Other(p) \in Party /\ net[Other(p)] = <<>> /\ held[Other(p)] = {} /\ watch[p] = {}
        /\ sub[p].st = "None"
    BY <1>1, Others DEF Init, NoSubChannel
  <1>3. Msgs(Other(p)) = {}
    BY <1>2 DEF Msgs
  <1> QED
    BY <1>2, <1>3 DEF WatchOf, SentWatched, AcceptedWatched, HeldWatched, RevokedWatched

LEMMA WatchStep ==
    ASSUME TypeInv, WatchInv, [Next]_vars
    PROVE  WatchInv'
  <1>1. ASSUME NEW p \in Party, PartyStep(p)
        PROVE  WatchInv'
    <2>1. WatchOf(p)' /\ PeerWatch(p)
      BY <1>1, PlainWatch, DriftWatch, OffersWatch, SetUpWatch, ObtainWatch, ReturnWatch,
         MergeWatch DEF PartyStep
    <2>2. WatchOf(Other(p))'
      BY <2>1, PeerWatched
    <2>3. \A q \in Party : q = p \/ q = Other(p)
      BY Others
    <2> QED BY <2>1, <2>2, <2>3 DEF WatchInv
  <1> QED BY <1>1, StepKinds, LinkWatch

(* The split a peer can publish is watched, and one watched as revoked can *)
(* be punished, but for the current one whose merge is not over: however   *)
(* accept_sub_channel_internal, on_subchannel_accept, cleanup_channel and  *)
(* the recovery interleave.                                                *)
THEOREM SplitsWatched == Spec => []SplitWatched
  <1>1. Init => TypeInv /\ WatchInv
    BY InitTyped, WatchInit
  <1>2. TypeInv /\ WatchInv /\ [Next]_vars => (TypeInv /\ WatchInv)'
    BY NextTyped, WatchStep
  <1>3. TypeInv /\ WatchInv => SplitWatched
    <2>1. SUFFICES ASSUME WatchInv, NEW p \in Party
                   PROVE  /\ \A t \in held[Other(p)] : ~Closed(p) => Watches(p, t)
                          /\ \A e \in watch[p] : e.type = "Revoked" =>
                               \/ Punishable(p, e)
                               \/ /\ e.split = sub[p].split /\ e.idx = sub[p].idx
                                  /\ sub[p].st \in (SplitStates \ {"Finalized"}) \cup SettledStates
      BY DEF SplitWatched, Watches
    <2>2. WatchOf(p)
      BY <2>1 DEF WatchInv
    <2>3. sub[p].st \in Merging \/ Closed(p) =>
            sub[p].st \in (SplitStates \ {"Finalized"}) \cup SettledStates
      BY DEF Merging, Closed, SplitStates, SettledStates
    <2> QED BY <2>2, <2>3 DEF WatchOf, HeldWatched, RevokedWatched, RevokedOk
  <1> QED BY <1>1, <1>2, <1>3, PTL DEF Spec

-----------------------------------------------------------------------------
(* At most one message of some types, and whether there is one.            *)

One(s, T) ==
    \A i, j \in 1 .. Len(s) : s[i].type \in T /\ s[j].type \in T => i = j
Has(s, T) == \E i \in 1 .. Len(s) : s[i].type \in T

LEMMA TailOne ==
    ASSUME NEW s \in Seq(Message), s # <<>>, NEW T
    PROVE  /\ One(s, T) => One(Tail(s), T)
           /\ Has(Tail(s), T) => Has(s, T)
           /\ One(s, T) /\ Head(s).type \in T => ~Has(Tail(s), T)
  <1> DEFINE t == Tail(s)
  <1>1. /\ Len(s) \in Nat /\ 1 \in 1 .. Len(s) /\ Head(s) = s[1] /\ t \in Seq(Message)
        /\ \A i \in 1 .. Len(t) : i + 1 \in 1 .. Len(s) /\ t[i] = s[i + 1]
    BY TailMsgs, HeadTailProperties
  <1>2. Len(t) \in Nat
    BY <1>1
  <1> HIDE DEF t
  <1>3. One(s, T) => One(t, T)
    <2>1. SUFFICES ASSUME One(s, T), NEW i \in 1 .. Len(t), NEW j \in 1 .. Len(t),
                          t[i].type \in T, t[j].type \in T
                   PROVE  i = j
      BY DEF One
    <2>2. i + 1 = j + 1
      BY <1>1, <2>1 DEF One
    <2> QED BY <1>2, <2>1, <2>2
  <1>4. Has(t, T) => Has(s, T)
    BY <1>1 DEF Has
  <1>5. ASSUME One(s, T), Head(s).type \in T, Has(t, T)
        PROVE  FALSE
    <2>1. PICK i \in 1 .. Len(t) : t[i].type \in T
      BY <1>5 DEF Has
    <2>2. 1 = i + 1
      BY <1>1, <1>5, <2>1 DEF One
    <2> QED BY <1>2, <2>1, <2>2
  <1> QED BY <1>3, <1>4, <1>5 DEF t

LEMMA AppendOne ==
    ASSUME NEW s \in Seq(Message), NEW m \in Message, NEW T
    PROVE  /\ Has(Append(s, m), T) => Has(s, T) \/ m.type \in T
           /\ One(s, T) /\ (m.type \in T => ~Has(s, T)) => One(Append(s, m), T)
  <1> DEFINE u == Append(s, m)
  <1>1. Len(s) \in Nat /\ Len(u) = Len(s) + 1 /\ u[Len(s) + 1] = m
        /\ \A i \in 1 .. Len(s) : u[i] = s[i]
    BY AppendProperties
  <1> HIDE DEF u
  <1>2. \A i \in 1 .. Len(u) : i \in 1 .. Len(s) \/ i = Len(s) + 1
    BY <1>1
  <1>3. Has(u, T) => Has(s, T) \/ m.type \in T
    BY <1>1, <1>2 DEF Has
  <1>4. ASSUME One(s, T), m.type \in T => ~Has(s, T)
        PROVE  One(u, T)
    BY <1>1, <1>2, <1>4 DEF One, Has
  <1> QED BY <1>3, <1>4 DEF u

LEMMA TakesOne ==
    ASSUME TypeInv, NEW p \in Party, TakesOrNot(p), NEW T
    PROVE  /\ One(net[p], T) => One(net'[p], T)
           /\ Has(net'[p], T) => Has(net[p], T)
           /\ \A type \in T : One(net[p], T) /\ Got(p, type) => ~Has(net'[p], T)
  <1>1. net[p] \in Seq(Message)
    BY MsgsTyped
  <1>2. CASE Takes(p)
    BY <1>1, <1>2, TailOne DEF Takes, Got
  <1>3. CASE ~Takes(p)
    BY <1>3 DEF TakesOrNot, Got
  <1> QED BY <1>2, <1>3

LEMMA SaysOne ==
    ASSUME TypeInv, NEW p \in Party, NEW m \in Message, Says(p, m), NEW T
    PROVE  LET q == Other(p) IN
           /\ Has(net'[q], T) => Has(net[q], T) \/ m.type \in T
           /\ One(net[q], T) /\ (m.type \in T => ~Has(net[q], T)) => One(net'[q], T)
  <1>1. net[Other(p)] \in Seq(Message)
    BY MsgsTyped
  <1>2. CASE net'[Other(p)] = net[Other(p)]
    BY <1>2
  <1>3. CASE net'[Other(p)] = Append(net[Other(p)], m)
    BY <1>1, <1>3, AppendOne
  <1> QED BY <1>2, <1>3 DEF Says

LEMMA HasMsgs ==
    ASSUME NEW p, NEW T
    PROVE  /\ Has(net[p], T) <=> \E m \in Msgs(p) : m.type \in T
           /\ Has(net'[p], T) <=> \E m \in Msgs(p)' : m.type \in T
  BY DEF Has, Msgs

LEMMA EmptyNet ==
    ASSUME NEW p, NEW T
    PROVE  /\ net[p] = <<>> => One(net[p], T) /\ ~Has(net[p], T) /\ Msgs(p) = {}
           /\ net'[p] = <<>> => One(net'[p], T) /\ ~Has(net'[p], T) /\ Msgs(p)' = {}
  BY DEF One, Has, Msgs

LEMMA OneInNet ==
    ASSUME NEW m, NEW T
    PROVE  One(<<m>>, T) /\ (Has(<<m>>, T) <=> m.type \in T)
  BY DEF One, Has

-----------------------------------------------------------------------------
(* The connection: nothing is under way without one, and a party that has  *)
(* handled its peer's reestablish message gets no other on it.             *)

Down == ~conn => \A p \in Party : net[p] = <<>> /\ ~ready[p]
Greeted(p) ==
    /\ One(net[p], {"Reestablish"})
    /\ ready[p] => ~Has(net[p], {"Reestablish"})
NetInv == Down /\ \A p \in Party : Greeted(p)

(* What a step of a party says.                                            *)
LEMMA StepSays ==
    ASSUME TypeInv, NEW p \in Party, PartyStep(p)
    PROVE  \E m \in Message :
             /\ Says(p, m) /\ m.type # "Reestablish"
             /\ m.type = "Accept" => Accepts(p) /\ m.split = sub'[p].split
             /\ m.type = "Confirm" => Confirms(p) /\ m.split = sub'[p].split
             /\ m.type = "Finalize" => Finalizes(p) /\ m.split = sub[p].split
             /\ m.type = "CloseConfirm" =>
                  Discloses(p) /\ m.point = PerSplitPoint(p, sub[p].idx)
             /\ m.type = "CloseAccept" =>
                  ready[p] /\ sub[p].st = "CloseOffered" /\ sub'[p].st = "CloseAccepted"
             /\ m.type = "CloseFinalize" =>
                  \/ Merges(p) /\ m.point = PerSplitPoint(p, sub[p].idx)
                  \/ \E a \in Left(p) : a.type = "ResendCloseFinalize" /\ a.point = m.point
             /\ m.type = "Offer" =>
                  \/ Offers(p) /\ m.point = PerSplitPoint(p, sub[p].idx + 1)
                  \/ \E a \in Left(p) : a.type = "ResendOffer" /\ a.point = m.point
  <1>0. Msg("Reject") \in Message /\ Msg("Reject").type = "Reject"
    BY MsgTyped DEF MessageType
  <1>1. CASE Silent(p)
    BY <1>0, <1>1, SilentSays
  <1>2. CASE Resends(p)
    BY <1>2 DEF Resends, Resendable
  <1>3. CASE Drifts(p)
    BY <1>3 DEF Drifts
  <1>4. CASE Offers(p)
    BY <1>4 DEF Offers
  <1>5. CASE Accepts(p)
    BY <1>5 DEF Accepts, SetUp
  <1>6. CASE Confirms(p)
    BY <1>6 DEF Confirms, SetUp
  <1>7. CASE Finalizes(p)
    BY <1>7 DEF Finalizes
  <1>8. CASE Signs(p)
    BY <1>8 DEF Signs
  <1>9. CASE Discloses(p)
    BY <1>9 DEF Discloses
  <1>10. CASE Merges(p)
    BY <1>10 DEF Merges
  <1>11. Idles(p) \/ GetsOffer(p) \/ Returns(p) \/ WatchesEarly(p) => Silent(p)
    BY DEF Idles, GetsOffer, Returns, WatchesEarly
  <1> QED
    BY <1>1, <1>2, <1>3, <1>4, <1>5, <1>6, <1>7, <1>8, <1>9, <1>10, <1>11 DEF PartyStep

(* What it leaves alone.                                                   *)
LEMMA StepFrame ==
    ASSUME NEW p \in Party, PartyStep(p)
    PROVE  /\ Calm(p) \/ (Frame(p) /\ Returns(p))
           /\ Frame(p)
           /\ ready'[p] = ready[p] \/ (Returns(p) /\ ready'[p])
  <1>1. Calm(p) \/ (Frame(p) /\ Returns(p))
    BY DEF PartyStep, Idles, Resends, Drifts, Offers, GetsOffer, Accepts, Confirms, Finalizes,
           Signs, Returns, Discloses, Merges, WatchesEarly, Renewed, SetUp, Obtains
  <1> QED BY <1>1 DEF Calm, Returns

LEMMA NetStep ==
    ASSUME TypeInv, NetInv, NEW p \in Party, PartyStep(p)
    PROVE  NetInv'
  <1>1. PICK m \in Message : Says(p, m) /\ m.type # "Reestablish"
    BY StepSays
  <1>2. Frame(p) /\ (ready'[p] = ready[p] \/ (Returns(p) /\ ready'[p]))
    BY StepFrame
  <1>3. TakesOrNot(p) /\ m.type \notin {"Reestablish"}
    BY <1>1 DEF Says
  <1>4. /\ Other(p) \in Party /\ ready'[Other(p)] = ready[Other(p)] /\ conn' = conn
        /\ \A x \in Party : x = p \/ x = Other(p)
    BY <1>2, Others DEF Frame
  <1>5. Greeted(Other(p))'
    <2>1. Greeted(Other(p))
      BY <1>4 DEF NetInv
    <2> QED BY <1>1, <1>3, <1>4, <2>1, SaysOne DEF Greeted
  <1>6. Greeted(p)'
    <2>1. Greeted(p)
      BY DEF NetInv
    <2>2. One(net'[p], {"Reestablish"})
      BY <1>3, <2>1, TakesOne DEF Greeted
    <2>3. ready'[p] => ~Has(net'[p], {"Reestablish"})
      <3>1. CASE ready'[p] = ready[p]
        BY <1>3, <2>1, <3>1, TakesOne DEF Greeted
      <3>2. CASE Returns(p)
        <4>1. Got(p, "Reestablish") /\ "Reestablish" \in {"Reestablish"}
          BY <3>2 DEF Returns
        <4> QED BY <1>3, <2>1, <4>1, TakesOne DEF Greeted
      <3> QED BY <1>2, <3>1, <3>2
    <2> QED BY <2>2, <2>3 DEF Greeted
  <1>7. Down'
    <2>1. SUFFICES ASSUME ~conn
                   PROVE  \A x \in Party : net'[x] = <<>> /\ ~ready'[x]
      BY <1>4 DEF Down
    <2>2. \A x \in Party : net[x] = <<>> /\ ~ready[x]
      BY <2>1 DEF NetInv, Down
    <2>3. net'[p] = <<>> /\ net'[Other(p)] = <<>> /\ ~Returns(p)
      BY <1>1, <1>4, <2>1, <2>2 DEF Says, TakesOrNot, Takes, Returns, Got
    <2> QED BY <1>2, <1>4, <2>2, <2>3
  <1> QED BY <1>4, <1>5, <1>6, <1>7 DEF NetInv

LEMMA NetLink ==
    ASSUME TypeInv, NetInv, Drops \/ Greets
    PROVE  NetInv'
  <1>1. CASE Drops
    <2>1. \A p \in Party : net'[p] = <<>> /\ ~ready'[p]
      BY <1>1 DEF Drops, DropConnection
    <2> QED BY <2>1, EmptyNet DEF NetInv, Down, Greeted
  <1>2. CASE Greets
    <2>1. conn' /\ \A p \in Party : ~ready'[p]
      BY <1>2 DEF Greets, NetInv, Down
    <2>2. \A p \in Party : net'[p] = <<>> \/ \E m \in Message : net'[p] = <<m>>
      BY <1>2 DEF Greets
    <2> QED BY <2>1, <2>2, EmptyNet, OneInNet DEF NetInv, Down, Greeted
  <1> QED BY <1>1, <1>2

(* A party that handles a reestablish message was not ready, and its peer  *)
(* sent it nothing else of the new connection.                             *)
LEMMA ReturningUnready ==
    ASSUME TypeInv, NetInv, NEW p \in Party
    PROVE  /\ Returns(p) => ~ready[p]
           /\ ready[p] => \A m \in Msgs(p) : m.type # "Reestablish"
  <1>1. Returns(p) => Takes(p) /\ TakesOrNot(p) /\ Head(net[p]).type = "Reestablish"
    BY DEF Returns, Got, TakesOrNot
  <1>2. ready[p] => \A m \in Msgs(p) : m.type # "Reestablish"
    BY HasMsgs DEF NetInv, Greeted
  <1> QED BY <1>1, <1>2, TakesMsgs

-----------------------------------------------------------------------------
(* Whose points a split is made of.                                        *)

Own(p) == PerSplitPoint(p, sub[p].idx)
(* The point an offer is made with, as p sees it.                          *)
OfferPoint(p, x) == IF sub[p].isOffer THEN x = Own(p) ELSE x[1] = Other(p)
PointOf(p) ==
    /\ sub[p].st = "Offered" => OfferPoint(p, sub[p].point)
    /\ sub[p].st \in {"Accepted", "Finalized"} =>
         sub[p].split.accept = Own(p) /\ OfferPoint(p, sub[p].split.offer)
    /\ sub[p].st = "Confirmed" => sub[p].isOffer /\ sub[p].split.offer = Own(p)
    /\ sub[p].st \in SplitStates => OwnPoint(p, sub[p].split) = Own(p)
SentPoints(p) ==
    /\ \A m \in Msgs(p) : m.type = "Offer" => m.point[1] = Other(p)
    /\ \A a \in Left(p) : a.type = "ResendOffer" => a.point[1] = p
PointInv == \A p \in Party : PointOf(p) /\ SentPoints(p)

LEMMA OwnFirst ==
    ASSUME NEW p \in Party
    PROVE  Own(p)[1] = p /\ Own(p)[2] = sub[p].idx
  BY DEF Own, PerSplitPoint

(* Which of a split's points are p's.                                      *)
LEMMA SidesOf ==
    ASSUME NEW p \in Party, NEW t
    PROVE  /\ t.offer[1] = p => OwnPoint(p, t) = t.offer /\ CounterPoint(p, t) = t.accept
           /\ t.offer[1] # p => OwnPoint(p, t) = t.accept /\ CounterPoint(p, t) = t.offer
  BY DEF OwnPoint, CounterPoint

(* The accepting party's view of a split.                                  *)
LEMMA AcceptedPoints ==
    ASSUME TypeInv, NEW p \in Party, NEW t \in Split, t.accept = Own(p),
           OfferPoint(p, t.offer)
    PROVE  OwnPoint(p, t) = Own(p) /\ OfferPoint(p, CounterPoint(p, t))
  <1>1. CASE t.offer[1] = p
    <2>1. sub[p].isOffer /\ t.offer = Own(p)
      BY <1>1, Others DEF OfferPoint
    <2> QED BY <1>1, <2>1, SidesOf DEF OfferPoint
  <1>2. CASE t.offer[1] # p
    BY <1>2, SidesOf
  <1> QED BY <1>1, <1>2

LEMMA KeptPoints ==
    ASSUME NEW p \in Party, sub'[p].idx = sub[p].idx, sub'[p].isOffer = sub[p].isOffer
    PROVE  Own(p)' = Own(p) /\ \A x : OfferPoint(p, x)' <=> OfferPoint(p, x)
  BY DEF Own, OfferPoint

(* States a renaming step of the kinds Drifts and Discloses goes between.  *)
LEMMA RenamedPoints ==
    ASSUME TypeInv, PointInv, NEW p \in Party, Kept(sub[p], sub'[p]),
           \/ sub'[p].st = sub[p].st
           \/ sub'[p].st \in SettledStates \cup {"Rejected", "OffChainClosed"}
           \/ sub[p].st \in SplitStates /\ sub'[p].st \in SplitStates \ {"Finalized"}
    PROVE  PointOf(p)'
  <1>1. PointOf(p) /\ sub'[p].idx = sub[p].idx /\ sub'[p].isOffer = sub[p].isOffer
        /\ sub'[p].point = sub[p].point /\ sub'[p].split = sub[p].split
    BY DEF PointInv, Kept
  <1>2. Own(p)' = Own(p) /\ \A x : OfferPoint(p, x)' <=> OfferPoint(p, x)
    BY <1>1, KeptPoints
  <1>3. CASE sub'[p].st = sub[p].st
    BY <1>1, <1>2, <1>3 DEF PointOf
  <1>4. CASE sub'[p].st \in SettledStates \cup {"Rejected", "OffChainClosed"}
    BY <1>4 DEF PointOf, SettledStates, SplitStates
  <1>5. CASE sub[p].st \in SplitStates /\ sub'[p].st \in SplitStates \ {"Finalized"}
    BY <1>1, <1>2, <1>5 DEF PointOf, SplitStates
  <1> QED BY <1>3, <1>4, <1>5

LEMMA DriftStates ==
    ASSUME NEW p, Drifts(p)
    PROVE  \/ sub'[p].st \in SettledStates \cup {"Rejected"}
           \/ sub[p].st \in SplitStates /\ sub'[p].st \in SplitStates \ {"Finalized"}
  BY DEF Drifts, DriftTo, SplitStates

LEMMA ReturnPoints ==
    ASSUME TypeInv, PointInv, NEW p \in Party, Returns(p)
    PROVE  PointOf(p)'
  <1> DEFINE s == sub[p]
  <1>1. Returned(p, s, Head(net[p]).flag, sub'[p]) /\ PointOf(p)
    BY DEF Returns, PointInv
  <1>2. CASE sub'[p].st = s.st /\ Kept(s, sub'[p])
    BY <1>2, RenamedPoints
  <1>3. CASE /\ s.st \in {"CloseAccepted", "CloseConfirmed"}
             /\ sub'[p].st = "CloseOffered" /\ Kept(s, sub'[p])
    BY <1>3, RenamedPoints DEF SplitStates
  <1>4. CASE /\ s.st \in {"Accepted", "Confirmed", "Finalized"} /\ sub'[p].st = "Offered"
             /\ sub'[p].idx = s.idx /\ sub'[p].isOffer = s.isOffer /\ sub'[p].split = s.split
             /\ sub'[p].point = OfferAgain(p, s)
    <2>1. Own(p)' = Own(p) /\ \A x : OfferPoint(p, x)' <=> OfferPoint(p, x)
      BY <1>4, KeptPoints
    <2>2. OfferPoint(p, OfferAgain(p, s))
      <3>1. CASE s.st = "Accepted"
        BY <1>1, <3>1 DEF PointOf, OfferAgain
      <3>2. CASE s.st = "Confirmed"
        BY <1>1, <3>2, OwnFirst, SidesOf DEF PointOf, OfferAgain, OfferPoint
      <3>3. CASE s.st = "Finalized"
        BY <1>1, <3>3, Fields, AcceptedPoints DEF PointOf, OfferAgain
      <3> QED BY <1>4, <3>1, <3>2, <3>3
    <2>3. \A x : x = OfferAgain(p, s) => OfferPoint(p, x)'
      BY <2>1, <2>2
    <2>4. OfferPoint(p, sub[p].point)'
      BY <1>4, <2>3 DEF OfferPoint, Own
    <2> QED BY <1>4, <2>4 DEF PointOf, SplitStates
  <1> QED BY <1>1, <1>2, <1>3, <1>4 DEF Returned

LEMMA SetUpPoints ==
    ASSUME TypeInv, PointInv, NEW p \in Party, Accepts(p) \/ Confirms(p)
    PROVE  PointOf(p)'
  <1>1. PICK t \in Split :
          \/ SetUp(p, "Accepted", t) /\ t = AcceptedSplit(p, sub[p])
          \/ SetUp(p, "Confirmed", t) /\ t.offer = sub[p].point /\ sub[p].isOffer
    BY DEF Accepts, Confirms
  <1>2. /\ sub[p].st = "Offered" /\ sub'[p].split = t /\ sub'[p].idx = sub[p].idx
        /\ sub'[p].isOffer = sub[p].isOffer
    BY <1>1 DEF SetUp
  <1>3. OfferPoint(p, sub[p].point)
    BY <1>2 DEF PointInv, PointOf
  <1>4. Own(p)' = Own(p) /\ \A x : OfferPoint(p, x)' <=> OfferPoint(p, x)
    BY <1>2, KeptPoints
  <1>5. CASE SetUp(p, "Accepted", t) /\ t = AcceptedSplit(p, sub[p])
    <2>1. t.offer = sub[p].point /\ t.accept = Own(p)
      BY <1>5 DEF AcceptedSplit, Own
    <2>2. OfferPoint(p, t.offer)'
      BY <1>3, <1>4, <2>1
    <2> QED BY <1>2, <1>4, <1>5, <2>1, <2>2 DEF SetUp, PointOf, SplitStates, OfferPoint
  <1>6. CASE SetUp(p, "Confirmed", t) /\ t.offer = sub[p].point /\ sub[p].isOffer
    <2>1. t.offer = Own(p)
      BY <1>3, <1>6 DEF OfferPoint
    <2> QED BY <1>2, <1>4, <1>6, <2>1 DEF SetUp, PointOf, SplitStates
  <1> QED BY <1>1, <1>5, <1>6

LEMMA ObtainPoints ==
    ASSUME TypeInv, PointInv, NEW p \in Party, Finalizes(p) \/ Signs(p)
    PROVE  PointOf(p)'
  <1>1. /\ sub'[p].split = sub[p].split /\ sub'[p].idx = sub[p].idx
        /\ sub'[p].isOffer = sub[p].isOffer /\ PointOf(p)
    BY DEF Finalizes, Signs, Obtains, Kept, PointInv
  <1>2. Own(p)' = Own(p) /\ \A x : OfferPoint(p, x)' <=> OfferPoint(p, x)
    BY <1>1, KeptPoints
  <1>3. CASE Finalizes(p)
    <2>1. sub[p].st = "Accepted" /\ sub'[p].st = "Finalized"
      BY <1>3 DEF Finalizes
    <2>2. sub[p].split.accept = Own(p) /\ OfferPoint(p, sub[p].split.offer)
      BY <1>1, <2>1 DEF PointOf
    <2>3. OwnPoint(p, sub[p].split) = Own(p)
      BY <2>2, Fields, AcceptedPoints
    <2>4. \A x : x = sub[p].split.offer => OfferPoint(p, x)'
      BY <1>2, <2>2
    <2>5. OfferPoint(p, sub[p].split.offer)'
      BY <1>1, <2>4 DEF OfferPoint, Own
    <2> QED BY <1>1, <1>2, <2>1, <2>2, <2>3, <2>5 DEF PointOf, SplitStates
  <1>4. CASE Signs(p)
    <2>1. sub[p].st = "Confirmed" /\ sub'[p].st = "Signed"
      BY <1>4 DEF Signs
    <2>2. OwnPoint(p, sub[p].split) = Own(p)
      BY <1>1, <2>1, OwnFirst, SidesOf DEF PointOf
    <2> QED BY <1>1, <1>2, <2>1, <2>2 DEF PointOf, SplitStates
  <1> QED BY <1>3, <1>4

LEMMA OwnStepPoints ==
    ASSUME TypeInv, PointInv, NEW p \in Party, PartyStep(p)
    PROVE  PointOf(p)'
  <1>1. CASE Idles(p) \/ Resends(p) \/ WatchesEarly(p)
    BY <1>1, RenamedPoints DEF Idles, Resends, WatchesEarly, SameSub, Kept
  <1>2. CASE Drifts(p)
    BY <1>2, DriftStates, RenamedPoints DEF Drifts
  <1>3. CASE Discloses(p)
    BY <1>3, RenamedPoints DEF Discloses, SplitStates
  <1>4. CASE Merges(p)
    BY <1>4 DEF Merges, PointOf, SplitStates
  <1>5. CASE Offers(p)
    BY <1>5 DEF Offers, Renewed, PointOf, OfferPoint, Own, SplitStates
  <1>6. CASE GetsOffer(p)
    <2>1. Takes(p) /\ Head(net[p]).type = "Offer" /\ Silent(p)
          /\ sub'[p].point = Head(net[p]).point /\ sub'[p].st = "Offered" /\ ~sub'[p].isOffer
      BY <1>6 DEF GetsOffer, Got, Renewed
    <2>2. Head(net[p]).point[1] = Other(p)
      BY <2>1, SilentHeard DEF PointInv, SentPoints
    <2> QED BY <2>1, <2>2 DEF PointOf, OfferPoint, SplitStates
  <1> QED
    BY <1>1, <1>2, <1>3, <1>4, <1>5, <1>6, SetUpPoints, ObtainPoints, ReturnPoints DEF PartyStep

LEMMA PointStep ==
    ASSUME TypeInv, PointInv, NEW p \in Party, PartyStep(p)
    PROVE  PointInv'
  <1> DEFINE q == Other(p)
  <1>1. q \in Party /\ Other(q) = p /\ p # q /\ \A x \in Party : x = p \/ x = q
    BY Others
  <1>2. Frame(p) /\ (Calm(p) \/ Returns(p))
    BY StepFrame
  <1>3. sub'[q] = sub[q] /\ Left(q)' = Left(q)
    BY <1>2 DEF Frame
  <1>4. PICK m \in Message :
          /\ Says(p, m)
          /\ m.type = "Offer" =>
               \/ m.point = PerSplitPoint(p, sub[p].idx + 1)
               \/ \E a \in Left(p) : a.type = "ResendOffer" /\ a.point = m.point
    BY StepSays
  <1>5. Msgs(p)' \subseteq Msgs(p) /\ Msgs(q)' \subseteq Msgs(q) \cup {m}
    BY <1>4, SaysHeard DEF Heard
  <1>6. PointOf(p) /\ SentPoints(p) /\ PointOf(q) /\ SentPoints(q)
    BY <1>1 DEF PointInv
  <1> HIDE DEF q
  <1>7. PointOf(q)'
    BY <1>3, <1>6 DEF PointOf, OfferPoint, Own
  <1>8. m.type = "Offer" => m.point[1] = p
    BY <1>4, <1>6 DEF SentPoints, PerSplitPoint
  <1>9. SentPoints(q)'
    BY <1>1, <1>3, <1>5, <1>6, <1>8 DEF SentPoints
  <1>10. \A a \in Left(p)' : a.type = "ResendOffer" => a.point[1] = p
    <2>1. CASE Calm(p)
      BY <1>6, <2>1 DEF Calm, SentPoints
    <2>2. CASE Returns(p)
      <3>1. SUFFICES ASSUME NEW a \in Left(p)', a.type = "ResendOffer"
                     PROVE  a.point[1] = p
        OBVIOUS
      <3>2. CASE a \in Left(p)
        BY <1>6, <3>1, <3>2 DEF SentPoints
      <3>3. CASE NewAction(p, sub[p], Head(net[p]).flag, a)
        BY <1>6, <3>1, <3>3, OwnFirst DEF NewAction, PointOf, OfferPoint
      <3> QED BY <2>2, <3>1, <3>2, <3>3 DEF Returns
    <2> QED BY <1>2, <2>1, <2>2
  <1>11. SentPoints(p)'
    BY <1>5, <1>6, <1>10 DEF SentPoints
  <1> QED BY <1>1, <1>7, <1>9, <1>11, OwnStepPoints DEF PointInv

LEMMA LinkMsgs ==
    ASSUME NEW p \in Party, NEW m \in Msgs(p)', Drops \/ Greets
    PROVE  Greets /\ m.type = "Reestablish" /\ m.flag = GetReestablishFlag(sub[Other(p)])
  <1>1. ~Drops /\ net'[p] # <<>>
    BY EmptyNet DEF Drops, DropConnection
  <1>2. PICK x \in Message : /\ net'[p] = <<x>> /\ x.type = "Reestablish"
                             /\ x.flag = GetReestablishFlag(sub[Other(p)])
    BY <1>1 DEF Greets
  <1> QED BY <1>1, <1>2 DEF Msgs

LEMMA PointLink ==
    ASSUME TypeInv, PointInv, Drops \/ Greets
    PROVE  PointInv'
  <1>1. UNCHANGED sub /\ \A p \in Party : Left(p)' \subseteq Left(p)
    BY DEF Drops, Greets
  <1>2. ASSUME NEW p \in Party
        PROVE  PointOf(p)' /\ SentPoints(p)'
    BY <1>1, LinkMsgs DEF PointInv, PointOf, OfferPoint, Own, SentPoints
  <1> QED BY <1>2 DEF PointInv

-----------------------------------------------------------------------------
(* The messages that set a split up, while no sub channel is settled on    *)
(* chain; p is the accepting party, q its peer.                            *)

With(p, st, t) == sub[p].st = st /\ sub[p].split = t
Settled(p) == sub[p].st \in SettledStates
Unsettled == \A p \in Party : ~Settled(p)

AcceptSent(p) ==
    \A m \in Msgs(Other(p)) : m.type = "Accept" => ready[p] /\ With(p, "Accepted", m.split)
ConfirmSent(p) ==
    \A m \in Msgs(p) : m.type = "Confirm" =>
      /\ ready[p] /\ ready[Other(p)]
      /\ With(p, "Accepted", m.split) /\ With(Other(p), "Confirmed", m.split)
FinalizeSent(p) ==
    \A m \in Msgs(Other(p)) : m.type = "Finalize" =>
      /\ ready[p] /\ ready[Other(p)]
      /\ sub[p].st \in SplitStates /\ sub[p].split = m.split
      /\ With(Other(p), "Confirmed", m.split)
FromAcceptor == {"Accept", "Finalize"}
OneSent(p) ==
    /\ One(net[Other(p)], FromAcceptor) /\ One(net[p], {"Confirm"})
    /\ Has(net[Other(p)], FromAcceptor) => ~Has(net[p], {"Confirm"})
SetupOf(p) == AcceptSent(p) /\ ConfirmSent(p) /\ FinalizeSent(p) /\ OneSent(p)

SameSplit ==
    (\A p \in Party : sub[p].st \in SplitStates) => sub[Alice].split = sub[Bob].split
(* A split in use is one whose secret the peer has not given.              *)
Live == {"Confirmed"} \cup (SplitStates \ {"Closing"})
NotRevoked(p) ==
    sub[p].st \in Live => \A e \in sub[p].secrets : e[2] # CounterPoint(p, sub[p].split)
SetupInv ==
    Unsettled =>
      /\ \A p \in Party : SetupOf(p) /\ NotRevoked(p)
      /\ SameSplit

(* A secret p has sent or will send is of an earlier split, or of the      *)
(* current one in a state in which p does not publish it any more.         *)
Done == {"OffChainClosed"} \cup SettledStates
Disclosed == Done \cup {"CloseConfirmed", "Closing"}
Before(p, x, S) ==
    x[1] = p /\ (x[2] < sub[p].idx \/ (x[2] = sub[p].idx /\ sub[p].st \in S))
ConfirmsBefore(p) ==
    \A m \in Msgs(Other(p)) :
      m.type = "CloseConfirm" => Before(p, m.point, Disclosed) /\ ready[p]
FinalizesBefore(p) ==
    \A m \in Msgs(Other(p)) : m.type = "CloseFinalize" => Before(p, m.point, Done)
ResendsBefore(p) ==
    \A a \in Left(p) : a.type = "ResendCloseFinalize" => Before(p, a.point, Done)
SecretsBefore(p) == \A e \in sub[Other(p)].secrets : Before(p, e[2], Disclosed)
(* A party taken back from CloseConfirmed has not given the secret.        *)
TakesBack(p) ==
    /\ sub[p].st = "CloseConfirmed"
    /\ \E m \in Msgs(p) : m.type = "Reestablish" /\ m.flag = "CloseAccepted"
NotTakenBack(p) == TakesBack(p) => \A e \in sub[Other(p)].secrets : e[2] # Own(p)
SecretOf(p) ==
    /\ ConfirmsBefore(p) /\ FinalizesBefore(p) /\ ResendsBefore(p)
    /\ SecretsBefore(p) /\ NotTakenBack(p)
SecretInv == \A p \in Party : SecretOf(p)

AgreeInv == TypeInv /\ NetInv /\ PointInv /\ SetupInv /\ SecretInv

(* What a step does to the states.                                         *)
LEMMA StaysSettled ==
    ASSUME NEW p \in Party, PartyStep(p), ~Settled(p)'
    PROVE  ~Settled(p)
  BY DEF PartyStep, Settled, SettledStates, Idles, Resends, Drifts, DriftTo, Offers, GetsOffer,
         Accepts, Confirms, Finalizes, Signs, Returns, Returned, Discloses, Merges,
         WatchesEarly, SameSub, Renewed, CanOffer, SetUp, Obtains

LEMMA StaysAccepted ==
    ASSUME TypeInv, NetInv, NEW p \in Party, PartyStep(p), ~Settled(p)', ready[p],
           sub[p].st \in {"Accepted", "Confirmed"}, ~Finalizes(p), ~Signs(p)
    PROVE  sub'[p] = sub[p] /\ ready'[p]
  <1>1. ~Returns(p)
    BY ReturningUnready
  <1>2. Idles(p) \/ Resends(p)
    BY <1>1 DEF PartyStep, Settled, Drifts, DriftTo, Offers, GetsOffer, Accepts, Confirms,
           Discloses, Merges, WatchesEarly, Renewed, CanOffer, SetUp
  <1> QED BY <1>2 DEF Idles, Resends, SameSub, Calm

LEMMA StaysSplit ==
    ASSUME NEW p \in Party, PartyStep(p), ~Settled(p)', sub[p].st \in SplitStates
    PROVE  \/ sub'[p].st \in SplitStates /\ sub'[p].split = sub[p].split
           \/ Merges(p) \/ Returns(p)
  BY DEF PartyStep, Settled, Idles, Resends, Drifts, DriftTo, Offers, GetsOffer, Accepts,
         Confirms, Finalizes, Signs, Discloses, WatchesEarly, SameSub, Renewed, CanOffer,
         SetUp, SplitStates, Kept

LEMMA EntersSplit ==
    ASSUME NEW p \in Party, PartyStep(p), sub'[p].st \in SplitStates
    PROVE  \/ sub[p].st \in SplitStates /\ sub'[p].split = sub[p].split
           \/ Finalizes(p) \/ Signs(p)
  BY DEF PartyStep, Idles, Resends, Drifts, DriftTo, Offers, GetsOffer, Accepts, Confirms,
         Returns, Returned, Discloses, Merges, WatchesEarly, SameSub, Renewed, SetUp,
         SplitStates, SettledStates, Kept

LEMMA EntersLive ==
    ASSUME NEW p \in Party, PartyStep(p), sub'[p].st \in Live
    PROVE  \/ /\ sub[p].st \in Live /\ sub'[p].split = sub[p].split
              /\ sub'[p].secrets = sub[p].secrets
           \/ Finalizes(p) \/ Confirms(p)
  BY DEF PartyStep, Idles, Resends, Drifts, DriftTo, Offers, GetsOffer, Accepts, Signs,
         Returns, Returned, Discloses, Merges, WatchesEarly, SameSub, Renewed, SetUp, Obtains,
         SplitStates, Live, SettledStates, Kept

LEMMA KeepsSecrets ==
    ASSUME NEW p \in Party, PartyStep(p), ~Merges(p)
    PROVE  sub'[p].secrets = sub[p].secrets
  BY DEF PartyStep, Idles, Resends, Drifts, Offers, GetsOffer, Accepts, Confirms, Finalizes,
         Signs, Returns, Returned, Discloses, WatchesEarly, SameSub, Renewed, SetUp, Obtains,
         Kept

LEMMA CountsUp ==
    ASSUME NEW p \in Party, PartyStep(p)
    PROVE  \/ sub'[p].idx = sub[p].idx + 1
           \/ /\ sub'[p].idx = sub[p].idx
              /\ sub[p].st \in Done => sub'[p].st \in Done
              /\ sub[p].st \in Disclosed =>
                   \/ sub'[p].st \in Disclosed
                   \/ /\ Returns(p) /\ sub[p].st = "CloseConfirmed"
                      /\ Head(net[p]).flag = "CloseAccepted"
  BY DEF PartyStep, Idles, Resends, Drifts, DriftTo, Offers, GetsOffer, Accepts, Confirms,
         Finalizes, Signs, Returns, Returned, Discloses, Merges, WatchesEarly, SameSub, Renewed,
         SetUp, Obtains, Kept, Done, Disclosed, SettledStates

(* What is known before a step of p that leaves neither party settled.     *)
LEMMA SetupBefore ==
    ASSUME AgreeInv, NEW p \in Party, PartyStep(p), Unsettled'
    PROVE  LET q == Other(p) IN
           /\ TypeInv /\ NetInv /\ PointInv /\ SecretOf(p) /\ SecretOf(q)
           /\ q \in Party /\ Other(q) = p /\ \A x \in Party : x = p \/ x = q
           /\ ~Settled(p)' /\ SetupOf(p) /\ SetupOf(q) /\ NotRevoked(p) /\ NotRevoked(q)
           /\ SameSplit
           /\ sub'[q] = sub[q] /\ ready'[q] = ready[q]
  <1>1. /\ Other(p) \in Party /\ Other(Other(p)) = p
        /\ \A x \in Party : x = p \/ x = Other(p)
    BY Others
  <1>2. sub'[Other(p)] = sub[Other(p)] /\ ready'[Other(p)] = ready[Other(p)]
    BY StepFrame DEF Frame
  <1>3. Unsettled
    BY <1>1, <1>2, StaysSettled DEF Unsettled, Settled
  <1> QED BY <1>1, <1>2, <1>3 DEF AgreeInv, SetupInv, SecretInv, Unsettled

(* A secret of q's that p may get before q's split is merged is not q's    *)
(* current one.                                                            *)
LEMMA NotGiven ==
    ASSUME TypeInv, NEW q \in Party, NEW x, NEW S, Before(q, x, S), sub[q].st \notin S
    PROVE  x # Own(q)
  <1>1. x[2] < sub[q].idx /\ sub[q].idx \in Nat
    BY Fields DEF Before
  <1> QED BY <1>1, OwnFirst

(* The offering party's own point in a split it confirmed.                 *)
LEMMA ConfirmedPoint ==
    ASSUME PointInv, NEW q \in Party, NEW t, With(q, "Confirmed", t)
    PROVE  OwnPoint(q, t) = Own(q)
  BY OwnFirst, SidesOf DEF PointInv, PointOf, With

LEMMA MergeApart ==
    ASSUME AgreeInv, NEW p \in Party, Merges(p), With(Other(p), "Confirmed", sub[p].split)
    PROVE  FALSE
  <1> DEFINE q == Other(p)  x == Head(net[p]).point
  <1>1. TypeInv /\ PointInv /\ SecretOf(q) /\ q \in Party /\ Other(q) = p
    BY Others DEF AgreeInv, SecretInv
  <1>2. /\ Takes(p) /\ Head(net[p]).type \in {"CloseConfirm", "CloseFinalize"}
        /\ x = CounterPoint(p, sub[p].split)
    BY DEF Merges, Got
  <1>3. Head(net[p]) \in Msgs(p)
    BY <1>1, <1>2, TakesMsgs DEF TakesOrNot
  <1>4. Before(q, x, Disclosed) \/ Before(q, x, Done)
    BY <1>1, <1>2, <1>3 DEF SecretOf, ConfirmsBefore, FinalizesBefore
  <1>5. sub[q].st \notin Disclosed /\ sub[q].st \notin Done
    BY DEF With, Disclosed, Done, SettledStates
  <1>6. x # Own(q)
    BY <1>1, <1>4, <1>5, NotGiven
  <1>7. CounterPoint(p, sub[p].split) = OwnPoint(q, sub[p].split)
    BY <1>1, PointsMirror, Fields
  <1> QED BY <1>1, <1>2, <1>6, <1>7, ConfirmedPoint

(* What p takes in the steps that set a split up.                          *)
LEMMA TakenSetup ==
    ASSUME AgreeInv, NEW p \in Party, PartyStep(p), Unsettled'
    PROVE  LET q == Other(p) IN
           /\ Confirms(p) =>
                /\ ready[p] /\ ready[q] /\ With(q, "Accepted", sub'[p].split)
                /\ Has(net[p], FromAcceptor) /\ ~Has(net'[p], FromAcceptor)
           /\ Finalizes(p) =>
                /\ ready[p] /\ ready[q] /\ With(q, "Confirmed", sub[p].split)
                /\ Has(net[p], {"Confirm"}) /\ ~Has(net'[p], {"Confirm"})
           /\ Signs(p) =>
                /\ sub[q].st \in SplitStates /\ sub[q].split = sub[p].split
                /\ ~Has(net'[p], FromAcceptor)
  <1> DEFINE q == Other(p)
  <1>1. TypeInv /\ SetupOf(p) /\ SetupOf(q) /\ Other(q) = p
    BY SetupBefore
  <1> HIDE DEF q
  <1>2. Takes(p) => Head(net[p]) \in Msgs(p) /\ TakesOrNot(p)
    BY <1>1, TakesMsgs DEF TakesOrNot
  <1>3. /\ One(net[p], FromAcceptor) /\ One(net[p], {"Confirm"})
        /\ "Accept" \in FromAcceptor /\ "Finalize" \in FromAcceptor /\ "Confirm" \in {"Confirm"}
    BY <1>1 DEF SetupOf, OneSent, FromAcceptor
  <1>4. ASSUME Confirms(p)
        PROVE  /\ ready[p] /\ ready[q] /\ With(q, "Accepted", sub'[p].split)
               /\ Has(net[p], FromAcceptor) /\ ~Has(net'[p], FromAcceptor)
    <2>1. Got(p, "Accept") /\ Takes(p) /\ Head(net[p]).type = "Accept"
          /\ Head(net[p]).split = sub'[p].split /\ ready[p]
      BY <1>4 DEF Confirms, SetUp, Got
    <2>2. ready[q] /\ With(q, "Accepted", sub'[p].split)
      BY <1>1, <1>2, <2>1 DEF SetupOf, AcceptSent
    <2>3. Has(net[p], FromAcceptor)
      BY <1>2, <1>3, <2>1, HasMsgs
    <2> QED BY <1>1, <1>2, <1>3, <2>1, <2>2, <2>3, TakesOne
  <1>5. ASSUME Finalizes(p)
        PROVE  /\ ready[p] /\ ready[q] /\ With(q, "Confirmed", sub[p].split)
               /\ Has(net[p], {"Confirm"}) /\ ~Has(net'[p], {"Confirm"})
    <2>1. Got(p, "Confirm") /\ Takes(p) /\ Head(net[p]).type = "Confirm"
          /\ Head(net[p]).split = sub[p].split
      BY <1>5 DEF Finalizes, Obtains, Got
    <2>2. ready[p] /\ ready[q] /\ With(q, "Confirmed", sub[p].split)
      BY <1>1, <1>2, <2>1 DEF SetupOf, ConfirmSent, q
    <2>3. Has(net[p], {"Confirm"})
      BY <1>2, <1>3, <2>1, HasMsgs
    <2> QED BY <1>1, <1>2, <1>3, <2>1, <2>2, <2>3, TakesOne
  <1>6. ASSUME Signs(p)
        PROVE  /\ sub[q].st \in SplitStates /\ sub[q].split = sub[p].split
               /\ ~Has(net'[p], FromAcceptor)
    <2>1. Got(p, "Finalize") /\ Takes(p) /\ Head(net[p]).type = "Finalize"
          /\ Head(net[p]).split = sub[p].split
      BY <1>6 DEF Signs, Obtains, Got
    <2>2. sub[q].st \in SplitStates /\ sub[q].split = sub[p].split
      BY <1>1, <1>2, <2>1 DEF SetupOf, FinalizeSent
    <2> QED BY <1>1, <1>2, <1>3, <2>1, <2>2, TakesOne
  <1> QED BY <1>4, <1>5, <1>6 DEF q

(* The messages p sends as the accepting party.                            *)
LEMMA AcceptorStep ==
    ASSUME AgreeInv, NEW p \in Party, PartyStep(p), Unsettled'
    PROVE  SetupOf(p)'
  <1> DEFINE q == Other(p)
  <1>1. /\ TypeInv /\ NetInv /\ q \in Party /\ SetupOf(p) /\ ~Settled(p)'
        /\ sub'[q] = sub[q] /\ ready'[q] = ready[q]
    BY SetupBefore
  <1>2. PICK m \in Message :
          /\ Says(p, m)
          /\ m.type = "Accept" => Accepts(p) /\ m.split = sub'[p].split
          /\ m.type = "Finalize" => Finalizes(p) /\ m.split = sub[p].split
    BY <1>1, StepSays
  <1>3. Msgs(p)' \subseteq Msgs(p) /\ Msgs(q)' \subseteq Msgs(q) \cup {m} /\ TakesOrNot(p)
    BY <1>1, <1>2, SaysHeard DEF Heard, Says
  <1>4. Finalizes(p) => /\ ready[p] /\ ready[q] /\ With(q, "Confirmed", sub[p].split)
                        /\ Has(net[p], {"Confirm"}) /\ ~Has(net'[p], {"Confirm"})
    BY TakenSetup
  <1>5. /\ Accepts(p) => /\ sub[p].st = "Offered" /\ ready'[p] = ready[p] /\ ready[p]
                         /\ sub'[p].st = "Accepted"
        /\ Finalizes(p) => /\ sub[p].st = "Accepted" /\ sub'[p].st = "Finalized"
                           /\ sub'[p].split = sub[p].split /\ ready'[p] = ready[p]
        /\ Signs(p) => sub[p].st = "Confirmed"
        /\ Merges(p) => ready'[p] = ready[p]
    BY DEF Accepts, SetUp, Finalizes, Signs, Obtains, Kept, Calm, Merges
  <1>6. /\ Has(net[q], FromAcceptor) => ~Has(net[p], {"Confirm"})
        /\ One(net[q], FromAcceptor) /\ One(net[p], {"Confirm"})
    BY <1>1 DEF SetupOf, OneSent
  <1>7. "Accept" \in FromAcceptor /\ "Finalize" \in FromAcceptor
        /\ \A x \in FromAcceptor : x = "Accept" \/ x = "Finalize"
    BY DEF FromAcceptor
  <1> HIDE DEF q
  <1>8. AcceptSent(p)'
    <2>1. SUFFICES ASSUME NEW x \in Msgs(q)', x.type = "Accept"
                   PROVE  ready'[p] /\ sub'[p].st = "Accepted" /\ sub'[p].split = x.split
      BY DEF AcceptSent, With, q
    <2>2. CASE x = m
      BY <1>2, <1>5, <2>1, <2>2
    <2>3. CASE x \in Msgs(q)
      <3>1. ready[p] /\ sub[p].st = "Accepted" /\ sub[p].split = x.split
        BY <1>1, <2>1, <2>3 DEF SetupOf, AcceptSent, With, q
      <3>2. ~Finalizes(p) /\ ~Signs(p)
        BY <1>4, <1>5, <1>6, <1>7, <2>1, <2>3, <3>1, HasMsgs
      <3> QED BY <1>1, <3>1, <3>2, StaysAccepted
    <2> QED BY <1>3, <2>1, <2>2, <2>3
  <1>9. ConfirmSent(p)'
    <2>1. SUFFICES ASSUME NEW x \in Msgs(p)', x.type = "Confirm"
                   PROVE  /\ ready'[p] /\ ready'[q] /\ sub'[p].st = "Accepted"
                          /\ sub'[p].split = x.split /\ sub'[q].st = "Confirmed"
                          /\ sub'[q].split = x.split
      BY DEF ConfirmSent, With, q
    <2>2. /\ ready[p] /\ ready[q] /\ sub[p].st = "Accepted" /\ sub[p].split = x.split
          /\ sub[q].st = "Confirmed" /\ sub[q].split = x.split
      BY <1>1, <1>3, <2>1 DEF SetupOf, ConfirmSent, With, q
    <2>3. ~Finalizes(p) /\ ~Signs(p)
      BY <1>4, <1>5, <2>1, <2>2, HasMsgs
    <2> QED BY <1>1, <2>2, <2>3, StaysAccepted
  <1>10. FinalizeSent(p)'
    <2>1. SUFFICES ASSUME NEW x \in Msgs(q)', x.type = "Finalize"
                   PROVE  /\ ready'[p] /\ ready'[q] /\ sub'[p].st \in SplitStates
                          /\ sub'[p].split = x.split /\ sub'[q].st = "Confirmed"
                          /\ sub'[q].split = x.split
      BY DEF FinalizeSent, With, q
    <2>2. CASE x = m
      BY <1>1, <1>2, <1>4, <1>5, <2>1, <2>2 DEF With, SplitStates
    <2>3. CASE x \in Msgs(q)
      <3>1. /\ ready[p] /\ ready[q] /\ sub[p].st \in SplitStates /\ sub[p].split = x.split
            /\ sub[q].st = "Confirmed" /\ sub[q].split = x.split
        BY <1>1, <2>1, <2>3 DEF SetupOf, FinalizeSent, With, q
      <3>2. ~Merges(p)
        BY <3>1, MergeApart DEF With, q
      <3>3. ~Returns(p)
        BY <1>1, <3>1, ReturningUnready
      <3>4. ready'[p]
        BY <3>1, <3>3, StepFrame
      <3> QED BY <1>1, <3>1, <3>2, <3>3, <3>4, StaysSplit
    <2> QED BY <1>3, <2>1, <2>2, <2>3
  <1>11. OneSent(p)'
    <2>1. m.type \in FromAcceptor => ~Has(net[q], FromAcceptor)
      <3>1. CASE m.type = "Accept"
        <4>1. sub[p].st = "Offered"
          BY <1>2, <1>5, <3>1
        <4> QED BY <1>1, <1>7, <4>1, HasMsgs
                DEF SetupOf, AcceptSent, FinalizeSent, With, q, SplitStates
      <3>2. CASE m.type = "Finalize"
        BY <1>2, <1>4, <1>6, <3>2
      <3> QED BY <1>7, <3>1, <3>2
    <2>2. One(net'[q], FromAcceptor)
      BY <1>1, <1>2, <1>6, <2>1, SaysOne DEF q
    <2>3. One(net'[p], {"Confirm"})
      BY <1>1, <1>3, <1>6, TakesOne
    <2>4. Has(net'[q], FromAcceptor) => ~Has(net'[p], {"Confirm"})
      <3>1. CASE Has(net[q], FromAcceptor)
        BY <1>1, <1>3, <1>6, <3>1, TakesOne
      <3>2. CASE m.type = "Accept"
        <4>1. sub[p].st = "Offered"
          BY <1>2, <1>5, <3>2
        <4>2. ~Has(net[p], {"Confirm"})
          <5>1. \A x \in Msgs(p) : x.type # "Confirm"
            BY <1>1, <4>1 DEF SetupOf, ConfirmSent, With
          <5> QED BY <5>1 DEF Has, Msgs
        <4> QED BY <1>1, <1>3, <4>2, TakesOne
      <3>3. CASE m.type = "Finalize"
        BY <1>2, <1>4, <3>3
      <3>4. CASE ~Has(net[q], FromAcceptor) /\ m.type \notin FromAcceptor
        BY <1>1, <1>2, <3>4, SaysOne DEF q
      <3> QED BY <1>7, <3>1, <3>2, <3>3, <3>4
    <2> QED BY <2>2, <2>3, <2>4 DEF OneSent, q
  <1> QED BY <1>8, <1>9, <1>10, <1>11 DEF SetupOf

(* The messages p takes and sends as the offering party.                   *)
LEMMA OffererStep ==
    ASSUME AgreeInv, NEW p \in Party, PartyStep(p), Unsettled'
    PROVE  SetupOf(Other(p))'
  <1> DEFINE q == Other(p)
  <1>1. /\ TypeInv /\ NetInv /\ q \in Party /\ Other(q) = p /\ SetupOf(q) /\ ~Settled(p)'
        /\ sub'[q] = sub[q] /\ ready'[q] = ready[q]
    BY SetupBefore
  <1>2. PICK m \in Message :
          /\ Says(p, m)
          /\ m.type = "Confirm" => Confirms(p) /\ m.split = sub'[p].split
    BY <1>1, StepSays
  <1>3. Msgs(p)' \subseteq Msgs(p) /\ Msgs(q)' \subseteq Msgs(q) \cup {m} /\ TakesOrNot(p)
    BY <1>1, <1>2, SaysHeard DEF Heard, Says
  <1>4. /\ Confirms(p) =>
             /\ ready[p] /\ ready[q] /\ With(q, "Accepted", sub'[p].split)
             /\ Has(net[p], FromAcceptor) /\ ~Has(net'[p], FromAcceptor)
        /\ Signs(p) => sub[q].st \in SplitStates /\ ~Has(net'[p], FromAcceptor)
    BY TakenSetup
  <1>5. /\ Confirms(p) => sub'[p].st = "Confirmed" /\ ready'[p] = ready[p]
        /\ Finalizes(p) => sub[p].st = "Accepted"
    BY DEF Confirms, SetUp, Finalizes, Calm
  <1>6. /\ Has(net[p], FromAcceptor) => ~Has(net[q], {"Confirm"})
        /\ One(net[p], FromAcceptor) /\ One(net[q], {"Confirm"})
    BY <1>1 DEF SetupOf, OneSent
  <1>7. "Accept" \in FromAcceptor /\ "Finalize" \in FromAcceptor
        /\ \A x \in FromAcceptor : x = "Accept" \/ x = "Finalize"
    BY DEF FromAcceptor
  <1> HIDE DEF q
  <1>8. AcceptSent(q)'
    BY <1>1, <1>3 DEF SetupOf, AcceptSent, With
  <1>9. ConfirmSent(q)'
    <2>1. SUFFICES ASSUME NEW x \in Msgs(q)', x.type = "Confirm"
                   PROVE  /\ ready'[q] /\ ready'[p] /\ sub'[q].st = "Accepted"
                          /\ sub'[q].split = x.split /\ sub'[p].st = "Confirmed"
                          /\ sub'[p].split = x.split
      BY <1>1 DEF ConfirmSent, With
    <2>2. CASE x = m
      BY <1>1, <1>2, <1>4, <1>5, <2>1, <2>2 DEF With
    <2>3. CASE x \in Msgs(q)
      <3>1. /\ ready[p] /\ ready[q] /\ sub[q].st = "Accepted" /\ sub[q].split = x.split
            /\ sub[p].st = "Confirmed" /\ sub[p].split = x.split
        BY <1>1, <2>1, <2>3 DEF SetupOf, ConfirmSent, With
      <3>2. ~Finalizes(p) /\ ~Signs(p)
        BY <1>4, <1>5, <3>1 DEF SplitStates
      <3> QED BY <1>1, <3>1, <3>2, StaysAccepted
    <2> QED BY <1>3, <2>1, <2>2, <2>3
  <1>10. FinalizeSent(q)'
    <2>1. SUFFICES ASSUME NEW x \in Msgs(p)', x.type = "Finalize"
                   PROVE  /\ ready'[q] /\ ready'[p] /\ sub'[q].st \in SplitStates
                          /\ sub'[q].split = x.split /\ sub'[p].st = "Confirmed"
                          /\ sub'[p].split = x.split
      BY <1>1 DEF FinalizeSent, With
    <2>2. /\ ready[p] /\ ready[q] /\ sub[q].st \in SplitStates /\ sub[q].split = x.split
          /\ sub[p].st = "Confirmed" /\ sub[p].split = x.split
      BY <1>1, <1>3, <2>1 DEF SetupOf, FinalizeSent, With
    <2>3. ~Finalizes(p) /\ ~Signs(p)
      BY <1>4, <1>5, <1>7, <2>1, <2>2, HasMsgs
    <2> QED BY <1>1, <2>2, <2>3, StaysAccepted
  <1>11. OneSent(q)'
    <2>1. One(net'[p], FromAcceptor)
      BY <1>1, <1>3, <1>6, TakesOne
    <2>2. m.type \in {"Confirm"} => ~Has(net[q], {"Confirm"}) /\ ~Has(net'[p], FromAcceptor)
      BY <1>2, <1>4, <1>6
    <2>3. One(net'[q], {"Confirm"})
      BY <1>1, <1>2, <1>6, <2>2, SaysOne DEF q
    <2>4. Has(net'[q], {"Confirm"}) => Has(net[q], {"Confirm"}) \/ m.type \in {"Confirm"}
      BY <1>1, <1>2, SaysOne DEF q
    <2>5. Has(net'[p], FromAcceptor) => Has(net[p], FromAcceptor)
      BY <1>1, <1>3, TakesOne
    <2>6. Has(net'[p], FromAcceptor) => ~Has(net'[q], {"Confirm"})
      BY <1>6, <2>2, <2>4, <2>5
    <2> QED BY <1>1, <2>1, <2>3, <2>6 DEF OneSent
  <1> QED BY <1>8, <1>9, <1>10, <1>11 DEF SetupOf, q

LEMMA SameSplitStep ==
    ASSUME AgreeInv, NEW p \in Party, PartyStep(p), Unsettled'
    PROVE  SameSplit'
  <1> DEFINE q == Other(p)
  <1>1. /\ q \in Party /\ SameSplit /\ sub'[q] = sub[q] /\ \A x \in Party : x = p \/ x = q
        /\ Alice \in Party /\ Bob \in Party
    BY SetupBefore DEF Party
  <1>2. SUFFICES ASSUME sub'[p].st \in SplitStates, sub[q].st \in SplitStates
                 PROVE  sub'[p].split = sub[q].split
    <2>1. (sub'[p].st \in SplitStates /\ sub[q].st \in SplitStates => sub'[p].split = sub[q].split)
            => SameSplit'
      BY <1>1 DEF SameSplit
    <2> QED BY <2>1
  <1>3. CASE sub[p].st \in SplitStates /\ sub'[p].split = sub[p].split
    <2>1. {Alice, Bob} = {p, q}
      BY Others DEF Party
    <2>2. sub[Alice].split = sub[Bob].split
      BY <1>1, <1>2, <1>3 DEF SameSplit
    <2>3. sub[p].split = sub[q].split
      BY <2>1, <2>2
    <2> QED BY <1>3, <2>3
  <1>4. CASE Finalizes(p)
    BY <1>2, <1>4, TakenSetup DEF With, SplitStates
  <1>5. CASE Signs(p)
    BY <1>5, TakenSetup DEF Signs, Obtains, Kept
  <1> QED BY <1>2, <1>3, <1>4, <1>5, EntersSplit

LEMMA NotRevokedStep ==
    ASSUME AgreeInv, NEW p \in Party, PartyStep(p), Unsettled'
    PROVE  NotRevoked(p)' /\ NotRevoked(Other(p))'
  <1> DEFINE q == Other(p)
  <1>1. /\ TypeInv /\ PointInv /\ SecretOf(q) /\ q \in Party /\ Other(q) = p /\ sub'[q] = sub[q]
        /\ NotRevoked(p) /\ NotRevoked(q)
    BY SetupBefore
  <1> HIDE DEF q
  <1>2. NotRevoked(q)'
    BY <1>1 DEF NotRevoked
  <1>3. ASSUME sub[q].st \in {"Accepted", "Confirmed"}, NEW e \in sub[p].secrets
        PROVE  e[2] # Own(q)
    <2>1. Before(q, e[2], Disclosed)
      BY <1>1, <1>3 DEF SecretOf, SecretsBefore
    <2>2. sub[q].st \notin Disclosed
      BY <1>3 DEF Disclosed, Done, SettledStates
    <2> QED BY <1>1, <2>1, <2>2, NotGiven
  <1>4. CASE Confirms(p)
    <2>1. /\ With(q, "Accepted", sub'[p].split) /\ sub'[p].split.offer = sub[p].point
          /\ sub[p].isOffer /\ sub[p].st = "Offered" /\ sub'[p].secrets = sub[p].secrets
      BY <1>4, TakenSetup DEF Confirms, SetUp, q
    <2>2. sub'[p].split.offer = Own(p)
      BY <1>1, <2>1 DEF PointInv, PointOf, OfferPoint
    <2>3. sub'[p].split.accept = Own(q)
      BY <1>1, <2>1 DEF PointInv, PointOf, With
    <2>4. CounterPoint(p, sub'[p].split) = Own(q)
      BY <2>2, <2>3, OwnFirst, SidesOf
    <2> QED BY <1>2, <1>3, <2>1, <2>4 DEF NotRevoked, With, q
  <1>5. CASE Finalizes(p)
    <2>1. /\ With(q, "Confirmed", sub[p].split) /\ sub'[p].split = sub[p].split
          /\ sub'[p].secrets = sub[p].secrets
      BY <1>5, TakenSetup DEF Finalizes, Obtains, Kept, q
    <2>2. CounterPoint(p, sub[p].split) = OwnPoint(q, sub[p].split)
      BY <1>1, PointsMirror, Fields
    <2>3. CounterPoint(p, sub'[p].split) = Own(q)
      BY <1>1, <2>1, <2>2, ConfirmedPoint
    <2> QED BY <1>2, <1>3, <2>1, <2>3 DEF NotRevoked, With, q
  <1>6. CASE sub'[p].st \notin Live
    BY <1>2, <1>6 DEF NotRevoked, q
  <1>7. CASE /\ sub[p].st \in Live /\ sub'[p].split = sub[p].split
             /\ sub'[p].secrets = sub[p].secrets
    BY <1>1, <1>2, <1>7 DEF NotRevoked, q
  <1> QED BY <1>4, <1>5, <1>6, <1>7, EntersLive

LEMMA SetupStep ==
    ASSUME AgreeInv, NEW p \in Party, PartyStep(p)
    PROVE  SetupInv'
  <1>1. SUFFICES ASSUME Unsettled'
                 PROVE  (\A x \in Party : SetupOf(x)' /\ NotRevoked(x)') /\ SameSplit'
    BY DEF SetupInv
  <1>2. \A x \in Party : x = p \/ x = Other(p)
    BY Others
  <1> QED BY <1>1, <1>2, AcceptorStep, OffererStep, SameSplitStep, NotRevokedStep

LEMMA SetupLink ==
    ASSUME AgreeInv, Drops \/ Greets
    PROVE  SetupInv'
  <1>1. UNCHANGED sub
    BY DEF Drops, Greets
  <1>2. SUFFICES ASSUME Unsettled
                 PROVE  (\A p \in Party : SetupOf(p)' /\ NotRevoked(p)') /\ SameSplit'
    BY <1>1 DEF SetupInv, Unsettled, Settled
  <1>3. SameSplit' /\ \A p \in Party : NotRevoked(p)'
    BY <1>1, <1>2 DEF AgreeInv, SetupInv, SameSplit, NotRevoked
  <1>4. ASSUME NEW p \in Party
        PROVE  SetupOf(p)'
    <2>1. \A x \in Party : \A m \in Msgs(x)' :
            m.type \notin {"Accept", "Confirm", "Finalize"}
      BY LinkMsgs
    <2>2. \A x \in Party : ~Has(net'[x], FromAcceptor) /\ ~Has(net'[x], {"Confirm"})
      BY <2>1 DEF FromAcceptor, Has, Msgs
    <2>3. \A x \in Party : One(net'[x], FromAcceptor) /\ One(net'[x], {"Confirm"})
      BY <2>2 DEF One, Has
    <2>4. Other(p) \in Party
      BY Others
    <2> QED BY <2>1, <2>2, <2>3, <2>4 DEF SetupOf, AcceptSent, ConfirmSent, FinalizeSent, OneSent
  <1> QED BY <1>3, <1>4

-----------------------------------------------------------------------------
(* The secrets given.                                                      *)

LEMMA BeforeStep ==
    ASSUME TypeInv, NEW p \in Party, PartyStep(p), NEW x \in Point, NEW S, Before(p, x, S),
           \/ S = Done
           \/ S = Disclosed /\ ~(sub[p].st = "CloseConfirmed" /\ Returns(p))
           \/ S = Disclosed /\ Head(net[p]).flag # "CloseAccepted"
           \/ S = Disclosed /\ x # Own(p)
    PROVE  Before(p, x, S)'
  <1>1. x[1] = p /\ x[2] \in Nat /\ sub[p].idx \in Nat /\ x = <<x[1], x[2]>>
    BY Fields DEF Before, Point, Index
  <1>2. x # Own(p) => x[2] # sub[p].idx
    BY <1>1 DEF Own, PerSplitPoint
  <1>3. CASE sub'[p].idx = sub[p].idx + 1
    BY <1>1, <1>3 DEF Before
  <1>4. CASE sub'[p].idx = sub[p].idx /\ x[2] < sub[p].idx
    BY <1>1, <1>4 DEF Before
  <1>5. CASE sub'[p].idx = sub[p].idx /\ ~(x[2] < sub[p].idx)
    <2>1. x[2] = sub[p].idx /\ sub[p].st \in S
      BY <1>5 DEF Before
    <2>2. sub'[p].st \in S
      <3>1. CASE S = Done
        <4>1. sub[p].st \in Done => sub'[p].st \in Done
          BY <1>1, <1>5, CountsUp
        <4> QED BY <2>1, <3>1, <4>1
      <3>2. CASE S = Disclosed
        <4>1. sub'[p].st \in Disclosed
                \/ (Returns(p) /\ sub[p].st = "CloseConfirmed"
                    /\ Head(net[p]).flag = "CloseAccepted")
          BY <1>1, <1>5, <2>1, <3>2, CountsUp
        <4>2. Done # Disclosed
          BY DEF Disclosed, Done, SettledStates
        <4> QED BY <1>2, <2>1, <3>2, <4>1, <4>2
      <3> QED BY <3>1, <3>2
    <2> QED BY <1>1, <1>5, <2>1, <2>2 DEF Before
  <1> QED BY <1>3, <1>4, <1>5, CountsUp

(* What p has said of its own secrets.                                     *)
LEMMA OwnSecretStep ==
    ASSUME AgreeInv, NEW p \in Party, PartyStep(p)
    PROVE  SecretOf(p)'
  <1> DEFINE q == Other(p)
  <1>1. /\ TypeInv /\ NetInv /\ SecretOf(p) /\ q \in Party /\ Other(q) = p
    BY Others DEF AgreeInv, SecretInv
  <1>2. PICK m \in Message :
          /\ Says(p, m)
          /\ m.type = "CloseConfirm" =>
               Discloses(p) /\ m.point = PerSplitPoint(p, sub[p].idx)
          /\ m.type = "CloseFinalize" =>
               \/ Merges(p) /\ m.point = PerSplitPoint(p, sub[p].idx)
               \/ \E a \in Left(p) : a.type = "ResendCloseFinalize" /\ a.point = m.point
    BY <1>1, StepSays
  <1>3. Msgs(p)' \subseteq Msgs(p) /\ Msgs(q)' \subseteq Msgs(q) \cup {m}
        /\ (Takes(p) => Head(net[p]) \in Msgs(p))
    BY <1>1, <1>2, SaysHeard DEF Heard
  <1>4. sub'[q] = sub[q]
    BY StepFrame DEF Frame
  <1>5. Returns(p) => ~ready[p]
    BY <1>1, ReturningUnready
  <1>6. /\ \A x \in Msgs(q) : x.point \in Point
        /\ \A x \in sub[q].secrets : x[2] \in Point
    BY <1>1, MsgsTyped, Fields DEF Message
  <1>7. \A a \in Left(p) : a.point \in Point
    <2>1. actions[p] \in Seq(Action) /\ stored[p] \in Seq(Action)
      BY <1>1 DEF TypeInv, TypeOK
    <2>2. \A a \in Left(p) : a \in Action
      BY <2>1 DEF Left
    <2> QED BY <2>2 DEF Action
  <1>8. /\ Discloses(p) => /\ sub'[p].st = "CloseConfirmed" /\ sub'[p].idx = sub[p].idx
                           /\ ready[p]
        /\ Merges(p) => sub'[p].st = "OffChainClosed" /\ sub'[p].idx = sub[p].idx
    BY DEF Discloses, Merges, Kept
  <1>9. PerSplitPoint(p, sub[p].idx)[1] = p /\ PerSplitPoint(p, sub[p].idx)[2] = sub[p].idx
        /\ "CloseConfirmed" \in Disclosed /\ "OffChainClosed" \in Done
    BY DEF PerSplitPoint, Disclosed, Done
  <1> HIDE DEF q
  <1>10. ConfirmsBefore(p)'
    <2>1. SUFFICES ASSUME NEW x \in Msgs(q)', x.type = "CloseConfirm"
                   PROVE  Before(p, x.point, Disclosed)' /\ ready'[p]
      BY DEF ConfirmsBefore, q
    <2>2. CASE x = m
      <3>1. Discloses(p) /\ x.point = PerSplitPoint(p, sub[p].idx)
        BY <1>2, <2>1, <2>2
      <3>2. Before(p, x.point, Disclosed)'
        BY <1>8, <1>9, <3>1 DEF Before
      <3> QED BY <1>8, <3>1, <3>2 DEF Discloses, Calm
    <2>3. CASE x \in Msgs(q)
      <3>1. Before(p, x.point, Disclosed) /\ ready[p] /\ x.point \in Point
        BY <1>1, <1>6, <2>1, <2>3 DEF SecretOf, ConfirmsBefore, q
      <3>2. ~Returns(p) /\ ready'[p]
        BY <1>5, <3>1, StepFrame
      <3> QED BY <1>1, <3>1, <3>2, BeforeStep
    <2> QED BY <1>3, <2>1, <2>2, <2>3
  <1>11. FinalizesBefore(p)'
    <2>1. SUFFICES ASSUME NEW x \in Msgs(q)', x.type = "CloseFinalize"
                   PROVE  Before(p, x.point, Done)'
      BY DEF FinalizesBefore, q
    <2>2. CASE Merges(p) /\ x.point = PerSplitPoint(p, sub[p].idx)
      BY <1>8, <1>9, <2>2 DEF Before
    <2>3. CASE \/ x \in Msgs(q)
               \/ \E a \in Left(p) : a.type = "ResendCloseFinalize" /\ a.point = x.point
      <3>1. Before(p, x.point, Done) /\ x.point \in Point
        BY <1>1, <1>6, <1>7, <2>1, <2>3 DEF SecretOf, FinalizesBefore, ResendsBefore, q
      <3> QED BY <1>1, <3>1, BeforeStep
    <2> QED BY <1>2, <1>3, <2>1, <2>2, <2>3
  <1>12. ResendsBefore(p)'
    <2>1. SUFFICES ASSUME NEW a \in Left(p)', a.type = "ResendCloseFinalize"
                   PROVE  Before(p, a.point, Done)'
      BY DEF ResendsBefore
    <2>2. CASE a \in Left(p)
      <3>1. Before(p, a.point, Done) /\ a.point \in Point
        BY <1>1, <1>7, <2>1, <2>2 DEF SecretOf, ResendsBefore
      <3> QED BY <1>1, <3>1, BeforeStep
    <2>3. CASE Returns(p) /\ NewAction(p, sub[p], Head(net[p]).flag, a)
      <3>1. sub[p].idx \in Nat /\ (sub[p].st # "None" => sub[p].idx # 0)
        BY <1>1, Fields, TypeParts DEF Counted
      <3>2. sub'[p].idx = sub[p].idx /\ (sub[p].st = "OffChainClosed" => sub'[p].st = sub[p].st)
        BY <2>3 DEF Returns, Returned, Kept
      <3>3. CASE sub[p].st = "Offered" /\ a.point = PerSplitPoint(p, sub[p].idx - 1)
        BY <3>1, <3>2, <3>3 DEF Before, PerSplitPoint
      <3>4. CASE sub[p].st = "OffChainClosed" /\ a.point = PerSplitPoint(p, sub[p].idx)
        BY <1>9, <3>2, <3>4 DEF Before
      <3> QED BY <2>1, <2>3, <3>3, <3>4 DEF NewAction
    <2>4. a \in Left(p) \/ (Returns(p) /\ NewAction(p, sub[p], Head(net[p]).flag, a))
      BY StepFrame DEF Calm, Returns
    <2> QED BY <2>2, <2>3, <2>4
  <1>13. SecretsBefore(p)'
    <2>1. SUFFICES ASSUME NEW e \in sub[q].secrets
                   PROVE  Before(p, e[2], Disclosed)'
      BY <1>4 DEF SecretsBefore, q
    <2>2. Before(p, e[2], Disclosed) /\ e[2] \in Point
      BY <1>1, <1>6, <2>1 DEF SecretOf, SecretsBefore, q
    <2>3. CASE /\ sub[p].st = "CloseConfirmed" /\ Returns(p)
               /\ Head(net[p]).flag = "CloseAccepted"
      <3>1. Head(net[p]) \in Msgs(p) /\ Head(net[p]).type = "Reestablish"
        BY <1>3, <2>3 DEF Returns, Got
      <3>2. e[2] # Own(p)
        BY <1>1, <2>1, <2>3, <3>1 DEF SecretOf, NotTakenBack, TakesBack, q
      <3> QED BY <1>1, <2>2, <3>2, BeforeStep
    <2>4. CASE ~(/\ sub[p].st = "CloseConfirmed" /\ Returns(p)
                 /\ Head(net[p]).flag = "CloseAccepted")
      BY <1>1, <2>2, <2>4, BeforeStep
    <2> QED BY <2>3, <2>4
  <1>14. NotTakenBack(p)'
    <2>1. SUFFICES ASSUME TakesBack(p)', NEW e \in sub[q].secrets
                   PROVE  e[2] # Own(p)'
      BY <1>4 DEF NotTakenBack, q
    <2>2. PICK x \in Msgs(p) : x.type = "Reestablish" /\ x.flag = "CloseAccepted"
      BY <1>3, <2>1 DEF TakesBack
    <2>3. ~ready[p]
      BY <1>1, <2>2, ReturningUnready
    <2>4. sub'[p].st = "CloseConfirmed"
      BY <2>1 DEF TakesBack
    <2>5. sub[p].st = "CloseConfirmed" /\ sub'[p].idx = sub[p].idx
      BY <1>8, <2>3, <2>4 DEF PartyStep, Idles, Resends, Drifts, DriftTo, Offers, GetsOffer,
         Accepts, Confirms, Finalizes, Signs, Returns, Returned, Merges, WatchesEarly, SameSub,
         Renewed, SetUp, Obtains, Kept, SettledStates
    <2>6. e[2] # Own(p)
      BY <1>1, <2>1, <2>2, <2>5 DEF SecretOf, NotTakenBack, TakesBack, q
    <2> QED BY <2>5, <2>6 DEF Own
  <1> QED BY <1>10, <1>11, <1>12, <1>13, <1>14 DEF SecretOf

(* What p has got of its peer's.                                           *)
LEMMA PeerSecretStep ==
    ASSUME AgreeInv, NEW p \in Party, PartyStep(p)
    PROVE  SecretOf(Other(p))'
  <1> DEFINE q == Other(p)
  <1>1. /\ TypeInv /\ NetInv /\ SecretOf(q) /\ q \in Party /\ Other(q) = p
    BY Others DEF AgreeInv, SecretInv
  <1>2. PICK m \in Message : Says(p, m) /\ m.type # "Reestablish"
    BY <1>1, StepSays
  <1>3. Msgs(p)' \subseteq Msgs(p) /\ Msgs(q)' \subseteq Msgs(q) \cup {m}
        /\ (Takes(p) => Head(net[p]) \in Msgs(p))
    BY <1>1, <1>2, SaysHeard DEF Heard
  <1>4. sub'[q] = sub[q] /\ Left(q)' = Left(q) /\ ready'[q] = ready[q]
    BY StepFrame DEF Frame
  <1>5. \A x, S : Before(q, x, S)' <=> Before(q, x, S)
    BY <1>4 DEF Before
  <1>6. Own(q)' = Own(q) /\ (TakesBack(q)' => TakesBack(q))
    BY <1>2, <1>3, <1>4 DEF Own, TakesBack
  <1> HIDE DEF q
  <1>7. ConfirmsBefore(q)' /\ FinalizesBefore(q)' /\ ResendsBefore(q)'
    BY <1>1, <1>3, <1>4, <1>5
       DEF SecretOf, ConfirmsBefore, FinalizesBefore, ResendsBefore
  <1>8. \A e \in sub'[p].secrets :
          \/ e \in sub[p].secrets
          \/ Merges(p) /\ e[2] = Head(net[p]).point
    BY KeepsSecrets DEF Merges, StoreSecret
  <1>9. ASSUME Merges(p)
        PROVE  /\ Before(q, Head(net[p]).point, Disclosed)
               /\ TakesBack(q) => Head(net[p]).point # Own(q)
    <2>1. Head(net[p]) \in Msgs(p) /\ Head(net[p]).type \in {"CloseConfirm", "CloseFinalize"}
      BY <1>3, <1>9 DEF Merges, Got
    <2>2. CASE Head(net[p]).type = "CloseConfirm"
      <3>1. Before(q, Head(net[p]).point, Disclosed) /\ ready[q]
        BY <1>1, <2>1, <2>2 DEF SecretOf, ConfirmsBefore
      <3>2. ~TakesBack(q)
        BY <1>1, <3>1, ReturningUnready DEF TakesBack
      <3> QED BY <3>1, <3>2
    <2>3. CASE Head(net[p]).type = "CloseFinalize"
      <3>1. Before(q, Head(net[p]).point, Done)
        BY <1>1, <2>1, <2>3 DEF SecretOf, FinalizesBefore
      <3>2. Before(q, Head(net[p]).point, Disclosed)
        BY <3>1 DEF Before, Disclosed
      <3>3. TakesBack(q) => sub[q].st \notin Done
        BY DEF TakesBack, Done, SettledStates
      <3> QED BY <1>1, <3>1, <3>2, <3>3, NotGiven
    <2> QED BY <2>1, <2>2, <2>3
  <1>10. SecretsBefore(q)'
    BY <1>1, <1>5, <1>8, <1>9 DEF SecretOf, SecretsBefore
  <1>11. NotTakenBack(q)'
    BY <1>1, <1>6, <1>8, <1>9 DEF SecretOf, NotTakenBack
  <1> QED BY <1>7, <1>10, <1>11 DEF SecretOf, q

LEMMA SecretLink ==
    ASSUME AgreeInv, Drops \/ Greets
    PROVE  SecretInv'
  <1>1. UNCHANGED sub /\ \A p \in Party : Left(p)' \subseteq Left(p)
    BY DEF Drops, Greets
  <1>2. \A p \in Party : \A m \in Msgs(p)' :
          m.type = "Reestablish" /\ m.flag = GetReestablishFlag(sub[Other(p)])
    BY LinkMsgs
  <1>3. ASSUME NEW p \in Party
        PROVE  SecretOf(p)'
    <2> DEFINE q == Other(p)
    <2>1. TypeInv /\ PointInv /\ SetupInv /\ SecretOf(p) /\ q \in Party /\ Other(q) = p
      BY Others DEF AgreeInv, SecretInv
    <2>2. \A x, S : Before(p, x, S)' <=> Before(p, x, S)
      BY <1>1 DEF Before
    <2>3. ConfirmsBefore(p)' /\ FinalizesBefore(p)'
      BY <1>2, <2>1 DEF ConfirmsBefore, FinalizesBefore
    <2>4. ResendsBefore(p)' /\ SecretsBefore(p)'
      BY <1>1, <2>1, <2>2 DEF SecretOf, ResendsBefore, SecretsBefore
    <2>5. NotTakenBack(p)'
      <3>1. SUFFICES ASSUME TakesBack(p)', NEW e \in sub[q].secrets
                     PROVE  e[2] # Own(p)
        BY <1>1 DEF NotTakenBack, Own
      <3>2. sub[p].st = "CloseConfirmed" /\ GetReestablishFlag(sub[q]) = "CloseAccepted"
        BY <1>1, <1>2, <3>1 DEF TakesBack
      <3>3. sub[q].st = "CloseAccepted"
        BY <3>2 DEF GetReestablishFlag
      <3>4. \A x \in Party : x = p \/ x = q
        BY Others
      <3>5. Unsettled /\ sub[p].st \in SplitStates /\ sub[q].st \in SplitStates
            /\ sub[q].st \in Live
        BY <3>2, <3>3, <3>4 DEF Unsettled, Settled, SettledStates, SplitStates, Live
      <3>6. sub[Alice].split = sub[Bob].split /\ NotRevoked(q)
        BY <2>1, <3>4, <3>5 DEF SetupInv, SameSplit
      <3>7. {Alice, Bob} = {p, q}
        BY Others DEF Party
      <3>8. sub[p].split = sub[q].split
        BY <3>6, <3>7
      <3>9. CounterPoint(q, sub[q].split) = Own(p)
        BY <2>1, <3>5, <3>8, PointsMirror, Fields DEF PointInv, PointOf
      <3> QED BY <3>1, <3>5, <3>6, <3>9 DEF NotRevoked
    <2> QED BY <2>3, <2>4, <2>5 DEF SecretOf
  <1> QED BY <1>3 DEF SecretInv

LEMMA AgreeInit == Init => AgreeInv
  <1> SUFFICES ASSUME Init
               PROVE  AgreeInv
    OBVIOUS
  <1>1. /\ conn /\ \A p \in Party : /\ net[p] = <<>> /\ sub[p].st = "None" /\ sub[p].secrets = {}
                                    /\ actions[p] = <<>> /\ stored[p] = <<>>
    BY DEF Init, NoSubChannel
  <1>2. \A p \in Party : Left(p) = {} /\ Msgs(p) = {} /\ Other(p) \in Party
    BY <1>1, Others DEF Left, Msgs
  <1>3. NetInv
    BY <1>1, EmptyNet DEF NetInv, Down, Greeted
  <1>4. PointInv
    BY <1>1, <1>2 DEF PointInv, PointOf, SentPoints, SplitStates
  <1>5. SetupInv
    <2>1. \A p \in Party : SetupOf(p)
      BY <1>1, <1>2, EmptyNet DEF SetupOf, AcceptSent, ConfirmSent, FinalizeSent, OneSent
    <2>2. \A p \in Party : NotRevoked(p)
      BY <1>1 DEF NotRevoked, Live, SplitStates
    <2>3. SameSplit
      BY <1>1 DEF SameSplit, SplitStates, Party
    <2> QED BY <2>1, <2>2, <2>3 DEF SetupInv
  <1>6. SecretInv
    BY <1>1, <1>2 DEF SecretInv, SecretOf, ConfirmsBefore, FinalizesBefore, ResendsBefore,
                      SecretsBefore, NotTakenBack, TakesBack
  <1> QED BY <1>3, <1>4, <1>5, <1>6, InitTyped DEF AgreeInv

LEMMA AgreeStep ==
    ASSUME AgreeInv, [Next]_vars
    PROVE  AgreeInv'
  <1>1. TypeInv'
    BY NextTyped DEF AgreeInv
  <1>2. ASSUME NEW p \in Party, PartyStep(p)
        PROVE  AgreeInv'
    <2>1. NetInv' /\ PointInv' /\ SetupInv'
      BY <1>2, NetStep, PointStep, SetupStep DEF AgreeInv
    <2>2. SecretInv'
      <3>1. \A x \in Party : x = p \/ x = Other(p)
        BY Others
      <3> QED BY <1>2, <3>1, OwnSecretStep, PeerSecretStep DEF SecretInv
    <2> QED BY <1>1, <2>1, <2>2 DEF AgreeInv
  <1>3. CASE Drops \/ Greets
    BY <1>1, <1>3, NetLink, PointLink, SetupLink, SecretLink DEF AgreeInv
  <1> QED BY <1>2, <1>3, StepKinds DEF AgreeInv

(* Two parties that can both publish a split publish the same one, made    *)
(* with the point each of them will give the secret of, through any        *)
(* number of lost, resent and repeated messages of the setup.              *)
THEOREM SplitsAgree == Spec => []SplitAgreement
  <1>1. AgreeInv => SplitAgreement
    <2>1. SUFFICES ASSUME AgreeInv
                   PROVE  SplitAgreement
      OBVIOUS
    <2>2. (\A p \in Party : sub[p].st \in SplitStates) => sub[Alice].split = sub[Bob].split
      BY <2>1 DEF AgreeInv, SetupInv, SameSplit, Unsettled, Settled, SplitStates, SettledStates
    <2>3. \A p \in Party : sub[p].st \in SplitStates =>
            OwnPoint(p, sub[p].split) = PerSplitPoint(p, sub[p].idx)
      BY <2>1 DEF AgreeInv, PointInv, PointOf, Own
    <2> QED BY <2>2, <2>3 DEF SplitAgreement
  <1> QED BY <1>1, AgreeInit, AgreeStep, PTL DEF Spec

(* A party that starts closing on chain publishes no split whose secret    *)
(* its peer has, although on_channel_reestablish can take it back from     *)
(* CloseConfirmed, after it sent the secret.                               *)
THEOREM NoRevokedPublished == Spec => NothingRevokedPublished
  <1>1. ASSUME AgreeInv, [Next]_vars, NEW p \in Party, StartsClosing(p)
        PROVE  \A e \in sub[Other(p)].secrets : e[2] # OwnPoint(p, sub[p].split)
    <2>1. sub[p].st # "Closing" /\ sub'[p].st = "Closing" /\ sub'[p].isInitiator
      BY <1>1 DEF StartsClosing
    <2>2. PICK x \in Party : PartyStep(x)
      BY <1>1, <2>1, StepKinds DEF AgreeInv, Drops, Greets
    <2>3. x = p
      BY <2>1, <2>2, StepFrame, Others DEF Frame
    <2>4. sub[p].st \in {"Finalized", "Signed", "CloseOffered", "CloseAccepted"}
      BY <2>1, <2>2, <2>3 DEF PartyStep, Idles, Resends, Drifts, DriftTo, Offers, GetsOffer,
         Accepts, Confirms, Finalizes, Signs, Returns, Returned, Discloses, Merges,
         WatchesEarly, SameSub, Renewed, SetUp, Kept, SettledStates
    <2>5. sub[p].st \in SplitStates /\ sub[p].st \notin Disclosed
      BY <2>4 DEF SplitStates, Disclosed, Done, SettledStates
    <2>6. OwnPoint(p, sub[p].split) = Own(p) /\ SecretOf(p) /\ TypeInv
      BY <1>1, <2>5 DEF AgreeInv, PointInv, PointOf, SecretInv
    <2> QED BY <2>5, <2>6, NotGiven DEF SecretOf, SecretsBefore
  <1>2. AgreeInv /\ [Next]_vars =>
          [\A p \in Party : StartsClosing(p) =>
             \A e \in sub[Other(p)].secrets : e[2] # OwnPoint(p, sub[p].split)]_vars
    BY <1>1
  <1> QED BY <1>2, AgreeInit, AgreeStep, PTL DEF Spec, NothingRevokedPublished

-----------------------------------------------------------------------------
(* Merging as an exchange: the steps with what they do to the closes a     *)
(* party has given the secret for.                                         *)

Count(p) == Closes(sub[p])
Adds(p) == given' = [given EXCEPT ![p] = @ \cup {Count(p)}]
PlainStep(p) ==
    \/ Idles(p) \/ Resends(p) \/ Drifts(p) \/ Offers(p) \/ GetsOffer(p)
    \/ Accepts(p) \/ Confirms(p) \/ Finalizes(p) \/ Signs(p) \/ Returns(p)
    \/ WatchesEarly(p)
(* The accepting party merges with the secret it gives, the offering party *)
(* has given its own before.                                               *)
MergesFirst(p) == Merges(p) /\ sub[p].st = "CloseAccepted" /\ Got(p, "CloseConfirm")
MergesLast(p) == Merges(p) /\ sub[p].st = "CloseConfirmed" /\ Got(p, "CloseFinalize")
Trades(p) ==
    \/ UNCHANGED given /\ PlainStep(p)
    \/ Adds(p) /\ Discloses(p)
    \/ Adds(p) /\ MergesFirst(p)
    \/ UNCHANGED given /\ MergesLast(p)

LEMMA ReceiveTrades ==
    ASSUME TypeInv, NEW p \in Party, Receive(p)
    PROVE  Trades(p)
  <1>1. CASE OnSubChannelCloseAccept(p)
    BY <1>1, CloseAcceptKind DEF OnSubChannelCloseAccept, Gives, Adds, Count, Trades
  <1>2. CASE OnSubChannelCloseConfirm(p)
    <2>1. Adds(p) /\ sub[p].st = "CloseAccepted"
      BY <1>2 DEF OnSubChannelCloseConfirm, CanCloseOff, In, Gives, Adds, Count
    <2> QED BY <1>2, <2>1, CloseConfirmKind DEF Merges, MergesFirst, Trades
  <1>3. CASE OnSubChannelCloseFinalize(p)
    <2>1. UNCHANGED given /\ sub[p].st = "CloseConfirmed"
      BY <1>3 DEF OnSubChannelCloseFinalize, CanFinalizeClose, In, historyVars
    <2>2. Merges(p) => MergesLast(p)
      BY <2>1 DEF Merges, MergesLast
    <2> QED BY <1>3, <2>1, <2>2, CloseFinalizeKind DEF PlainStep, Trades
  <1>4. CASE OnSubchannelOffer(p) \/ OnSubchannelAccept(p) \/ OnSubchannelConfirm(p)
             \/ OnSubChannelFinalize(p)
    <2>1. UNCHANGED given
      BY <1>4 DEF OnSubchannelOffer, OnSubchannelAccept, OnSubchannelConfirm,
         OnSubChannelFinalize, historyVars
    <2> QED BY <1>4, <2>1, GetOfferKind, ConfirmKind, FinalizeKind, SignKind DEF PlainStep, Trades
  <1>5. CASE OnSubchannelAcceptInvalid(p) \/ OnSubChannelRevoke(p) \/ OnSubChannelReject(p)
             \/ OnSubChannelCloseOffer(p) \/ OnSubChannelCloseAcceptInvalid(p)
             \/ OnChannelReestablish(p) \/ OnSubChannelMessageError(p)
    <2>1. UNCHANGED given
      BY <1>5 DEF OnSubchannelAcceptInvalid, OnSubChannelRevoke, OnSubChannelReject,
         OnSubChannelCloseOffer, OnSubChannelCloseAcceptInvalid, OnChannelReestablish,
         OnSubChannelMessageError, historyVars
    <2> QED BY <1>5, <2>1, InvalidKind, RevokeKind, RejectKind, GetOfferCloseKind, ReturnKind
            DEF PlainStep, Trades
  <1> QED BY <1>1, <1>2, <1>3, <1>4, <1>5 DEF Receive

LEMMA OtherTrades ==
    ASSUME TypeInv, NEW p \in Party,
           \/ Application(p) \/ Accept(p) \/ PeriodicCheck(p)
           \/ Notify(p) \/ LdkPeerClosed(p)
    PROVE  UNCHANGED given /\ PlainStep(p)
  <1>1. CASE Application(p)
    <2>1. UNCHANGED given
      BY <1>1 DEF Application, OfferSubChannel, RejectSubChannelOffer,
         RejectSubChannelCloseOffer, OfferSubchannelClose, ForceCloseSubChannel,
         ForceCloseFails, LdkForceClose, PublishHeld, SweepHeld, historyVars
    <2> QED BY <1>1, <2>1, OfferKind, RejectKind, OfferCloseKind, ForceCloseKind, LdkKind
            DEF Application, PlainStep
  <1>2. CASE Accept(p)
    BY <1>2, AcceptKind, AcceptCloseKind
       DEF Accept, AcceptSubChannel, AcceptSubchannelCloseOffer, PlainStep
  <1>3. CASE PeriodicCheck(p)
    <2>1. UNCHANGED given
      BY <1>3 DEF PeriodicCheck, CheckSplit, CheckRevoked, ProcessActions, FinalizeForceClose,
         historyVars
    <2> QED BY <1>3, <2>1, CheckSplitKind, CheckRevokedKind, ProcessKind, FinalizeForceKind
            DEF PeriodicCheck, PlainStep
  <1>4. CASE Notify(p)
    <2>1. UNCHANGED given
      BY <1>4 DEF Notify, NotifyCounterClosed, NotifyHolderClosed, historyVars
    <2> QED BY <1>4, <2>1, NotifyCounterKind, NotifyHolderKind DEF Notify, PlainStep
  <1>5. CASE LdkPeerClosed(p)
    BY <1>5, LdkKind DEF LdkPeerClosed, historyVars, PlainStep
  <1> QED BY <1>1, <1>2, <1>3, <1>4, <1>5

LEMMA TradeKinds ==
    ASSUME TypeInv, [Next]_vars
    PROVE  \/ (Drops \/ Greets) /\ UNCHANGED given
           \/ \E p \in Party : Trades(p)
  <1>1. CASE UNCHANGED <<sub, watch, held, given, actions, stored, conn, ready, net>>
    BY <1>1, UnmovedSilent, UnmovedSub DEF Trades, PlainStep, Party
  <1>2. CASE \E t \in mempool : Confirm(t)
    BY <1>1, <1>2 DEF Confirm, subVars, actVars, historyVars
  <1>3. CASE Mature
    BY <1>1, <1>3 DEF Mature, subVars, actVars, historyVars
  <1>4. CASE UNCHANGED vars
    BY <1>1, <1>4 DEF vars
  <1>5. CASE Disconnect \/ Reconnect \/ \E p \in Party : Restart(p)
    <2>1. UNCHANGED given
      BY <1>5 DEF Disconnect, Reconnect, Restart
    <2> QED BY <1>5, <2>1, DropKind, GreetKind
  <1>6. ASSUME NEW p \in Party,
               \/ Receive(p) \/ Application(p) \/ Accept(p) \/ PeriodicCheck(p)
               \/ Notify(p) \/ LdkPeerClosed(p)
        PROVE  Trades(p)
    BY <1>6, ReceiveTrades, OtherTrades DEF Trades
  <1> QED BY <1>2, <1>3, <1>4, <1>5, <1>6 DEF Next

-----------------------------------------------------------------------------
(* The merge.  Both parties count the closes they have a secret of.        *)

(* A secret is stored under an index that was not used before.             *)
FreshIndex(p) ==
    \A e \in sub[p].secrets :
      e[1] < sub[p].idx \/ (e[1] = sub[p].idx /\ sub[p].st \in Done)
(* A party has given its secret for every close it has counted, and for    *)
(* the one it waits for.                                                   *)
Paid(p) ==
    /\ \A n \in Nat : n < Count(p) => n \in given[p]
    /\ sub[p].st = "CloseConfirmed" => Count(p) \in given[p]
(* A party is ahead by one at most, of a peer that waits or closes, and    *)
(* never while it is in a split itself.                                    *)
Ahead(p) ==
    /\ Count(p) <= Count(Other(p)) + 1
    /\ Count(p) = Count(Other(p)) + 1 =>
         sub[Other(p)].st = "CloseConfirmed" \/ Closed(Other(p))
Level(p) == sub[p].st \in SplitStates => Count(p) <= Count(Other(p))
(* The peer of a party that waits for the last secret is still in the      *)
(* split, or has merged; a reestablish message that asks for this secret   *)
(* finds it so.                                                            *)
Merged(p) == sub[p].st \in Merging \/ Closed(p) \/ Count(Other(p)) < Count(p)
Asks(p, flag) == \E m \in Msgs(p) : m.type = "Reestablish" /\ m.flag = flag
Attended(p) == sub[p].st = "CloseConfirmed" => Merged(Other(p))
Asked(p) == Asks(p, "CloseConfirmed") /\ sub[Other(p)].st \in SplitStates => Merged(p)
(* A party is taken back from CloseConfirmed only if its peer has not      *)
(* merged.                                                                 *)
Unmerged(p) ==
    /\ sub[p].st \in {"Signed", "CloseOffered", "CloseAccepted"} \/ Closed(p)
    /\ Count(p) <= Count(Other(p))
BackTogether(p) == TakesBack(p) => Unmerged(Other(p))
(* The last secrets p has sent or will send again.                         *)
LastSecrets(p) ==
    {m.point : m \in {x \in Msgs(Other(p)) : x.type = "CloseFinalize"}} \cup
    {a.point : a \in {x \in Left(p) : x.type = "ResendCloseFinalize"}}
(* One that is of the split its peer is in was given for a close that the  *)
(* peer has not counted yet.                                               *)
LastOfClose(p) ==
    sub[p].st \in SplitStates =>
      \A x \in LastSecrets(Other(p)) :
        x = CounterPoint(p, sub[p].split) => Count(p) < Count(Other(p))
(* The message that completes a split of p meets it level with its peer.   *)
Completes(p, type, st) ==
    ~Settled(p) =>
      /\ One(net[p], {type})
      /\ \A m \in Msgs(p) : m.type = type =>
           /\ ready[p] /\ With(p, st, m.split) /\ Count(p) <= Count(Other(p))
           /\ \A x \in LastSecrets(Other(p)) : x # CounterPoint(p, m.split)
(* The messages of a merge that p accepts.                                 *)
Accepter(p) == ready[p] /\ sub[p].st \in {"CloseAccepted", "Closing"}
CloseAcceptSent(p) ==
    ~Settled(p) /\ ~Settled(Other(p)) =>
      /\ One(net[Other(p)], {"CloseAccept"})
      /\ Has(net[Other(p)], {"CloseAccept"}) => Accepter(p) /\ ~Has(net[p], {"CloseConfirm"})
      /\ Has(net[p], {"CloseConfirm"}) => ready[Other(p)]
CloseConfirmSent(p) ==
    ~Settled(p) =>
      /\ One(net[p], {"CloseConfirm"})
      /\ Has(net[p], {"CloseConfirm"}) =>
           /\ Accepter(p) /\ Count(p) \in given[Other(p)]
           /\ sub[Other(p)].st = "CloseConfirmed" \/ Closed(Other(p))
MergeOf(p) ==
    /\ FreshIndex(p) /\ Paid(p) /\ Ahead(p) /\ Level(p)
    /\ Attended(p) /\ Asked(p) /\ BackTogether(p) /\ LastOfClose(p)
    /\ Completes(p, "Confirm", "Accepted") /\ Completes(p, "Finalize", "Confirmed")
    /\ CloseAcceptSent(p) /\ CloseConfirmSent(p)
MergeInv == AgreeInv /\ \A p \in Party : MergeOf(p)

LEMMA CountTyped ==
    ASSUME TypeInv, NEW p \in Party
    PROVE  Count(p) \in Nat
  BY Fields, FS_CardinalityType DEF Count, Closes

LEMMA TradeSteps ==
    ASSUME NEW p \in Party, Trades(p)
    PROVE  /\ PartyStep(p)
           /\ Merges(p) \/ (PlainStep(p) /\ UNCHANGED given) \/ (Discloses(p) /\ Adds(p))
  BY DEF Trades, PlainStep, PartyStep, MergesFirst, MergesLast

LEMMA PlainApart ==
    ASSUME NEW p \in Party, PlainStep(p) \/ Discloses(p)
    PROVE  ~Merges(p)
  BY DEF PlainStep, Idles, Resends, Drifts, DriftTo, Offers, GetsOffer, Accepts, Confirms,
         Finalizes, Signs, Returns, Returned, Discloses, Merges, WatchesEarly, SameSub, Renewed,
         SetUp, Kept, SettledStates

(* A merge counts one close more.                                          *)
LEMMA MergeCounts ==
    ASSUME TypeInv, NEW p \in Party, FreshIndex(p), Merges(p)
    PROVE  Count(p)' = Count(p) + 1
  <1> DEFINE S == sub[p].secrets
             x == <<sub[p].idx, Head(net[p]).point>>
  <1>1. sub'[p].secrets = {e \in S : e[1] # sub[p].idx} \cup {x}
    BY DEF Merges, StoreSecret
  <1>2. sub[p].st \notin Done /\ sub[p].idx \in Nat /\ S \in SUBSET (Nat \X Point) /\ IsFiniteSet(S)
    BY Fields DEF Merges, Done, SettledStates
  <1>3. \A e \in S : e[1] # sub[p].idx
    BY <1>2 DEF FreshIndex
  <1>4. sub'[p].secrets = S \cup {x} /\ x \notin S
    BY <1>1, <1>3
  <1> HIDE DEF S, x
  <1>5. Cardinality(S \cup {x}) = Cardinality(S) + 1
    BY <1>2, <1>4, FS_AddElement
  <1> QED BY <1>4, <1>5 DEF Count, Closes, S

(* What a step of p does to what the merge is about.                       *)
Effect(p) ==
    /\ Other(p) \in Party /\ Other(Other(p)) = p
    /\ sub'[Other(p)] = sub[Other(p)] /\ ready'[Other(p)] = ready[Other(p)]
    /\ given'[Other(p)] = given[Other(p)] /\ Left(Other(p))' = Left(Other(p))
    /\ Count(Other(p))' = Count(Other(p)) /\ Count(p) \in Nat /\ Count(Other(p)) \in Nat
    /\ Msgs(p)' \subseteq Msgs(p) /\ given[p] \subseteq given'[p]
    /\ TypeInv /\ NetInv /\ PartyStep(p) /\ MergeOf(p) /\ MergeOf(Other(p))
    /\ \/ Merges(p) /\ Count(p)' = Count(p) + 1
       \/ ~Merges(p) /\ Count(p)' = Count(p)

LEMMA Effects ==
    ASSUME MergeInv, NEW p \in Party, Trades(p)
    PROVE  Effect(p)
  <1>1. /\ Other(p) \in Party /\ Other(Other(p)) = p /\ Other(p) # p
        /\ TypeInv /\ NetInv /\ MergeOf(p) /\ MergeOf(Other(p))
    BY Others DEF MergeInv, AgreeInv
  <1>2. PartyStep(p)
    BY TradeSteps
  <1>3. /\ sub'[Other(p)] = sub[Other(p)] /\ ready'[Other(p)] = ready[Other(p)]
        /\ Left(Other(p))' = Left(Other(p))
    BY <1>2, StepFrame DEF Frame
  <1>4. Count(Other(p))' = Count(Other(p)) /\ Count(p) \in Nat /\ Count(Other(p)) \in Nat
    BY <1>1, <1>3, CountTyped DEF Count
  <1>5. given'[Other(p)] = given[Other(p)] /\ given[p] \subseteq given'[p]
    <2>1. given \in [Party -> SUBSET Nat]
      BY <1>1 DEF TypeInv, TypeOK
    <2>2. UNCHANGED given \/ Adds(p)
      BY DEF Trades
    <2> QED BY <1>1, <2>1, <2>2 DEF Adds
  <1>6. Msgs(p)' \subseteq Msgs(p)
    <2>1. PICK m \in Message : Says(p, m)
      BY <1>1, <1>2, StepSays
    <2> QED BY <1>1, <2>1, SaysHeard DEF Heard
  <1>7. CASE Merges(p)
    <2>1. Count(p)' = Count(p) + 1
      BY <1>1, <1>7, MergeCounts DEF MergeOf
    <2> QED BY <1>1, <1>2, <1>3, <1>4, <1>5, <1>6, <1>7, <2>1 DEF Effect
  <1>8. CASE ~Merges(p)
    <2>1. Count(p)' = Count(p)
      BY <1>2, <1>8, KeepsSecrets DEF Count, Closes
    <2> QED BY <1>1, <1>2, <1>3, <1>4, <1>5, <1>6, <1>8, <2>1 DEF Effect
  <1> QED BY <1>7, <1>8

(* What a step does to the states of a merge.                              *)
LEMMA StaysMerging ==
    ASSUME NEW p \in Party, PartyStep(p), ~Merges(p)
    PROVE  /\ sub[p].st \in Merging => sub'[p].st \in Merging \/ Closed(p)'
           /\ Closed(p) => Closed(p)'
  BY DEF PartyStep, Closed, Idles, Resends, Drifts, DriftTo, Offers, GetsOffer, Accepts, Confirms,
         Finalizes, Signs, Returns, Returned, Discloses, WatchesEarly, SameSub, Renewed,
         CanOffer, SetUp, Kept, Merging, SettledStates

LEMMA StaysConfirmed ==
    ASSUME NEW p \in Party, PartyStep(p), ~Merges(p)
    PROVE  /\ sub[p].st = "CloseConfirmed" =>
                \/ sub'[p].st = "CloseConfirmed" \/ Closed(p)'
                \/ Returns(p) /\ Head(net[p]).flag = "CloseAccepted"
           /\ sub'[p].st = "CloseConfirmed" => sub[p].st = "CloseConfirmed" \/ Discloses(p)
  BY DEF PartyStep, Closed, Idles, Resends, Drifts, DriftTo, Offers, GetsOffer, Accepts, Confirms,
         Finalizes, Signs, Returns, Returned, Discloses, WatchesEarly, SameSub, Renewed,
         CanOffer, SetUp, Kept, SettledStates

LEMMA StaysAccepter ==
    ASSUME TypeInv, NetInv, NEW p \in Party, PartyStep(p), ~Merges(p), ~Settled(p)', Accepter(p)
    PROVE  Accepter(p)'
  <1>1. ~Returns(p)
    BY ReturningUnready DEF Accepter
  <1>2. sub'[p].st \in {"CloseAccepted", "Closing"}
    BY <1>1 DEF PartyStep, Accepter, Settled, Idles, Resends, Drifts, DriftTo, Offers, GetsOffer,
         Accepts, Confirms, Finalizes, Signs, Discloses, WatchesEarly, SameSub, Renewed,
         CanOffer, SetUp, SettledStates
  <1> QED BY <1>1, <1>2, StepFrame DEF Accepter

-----------------------------------------------------------------------------
(* The invariant of the merge is kept, part by part.  p is the party that  *)
(* takes the step.                                                         *)

LEMMA IndexStep ==
    ASSUME NEW p \in Party, Effect(p)
    PROVE  FreshIndex(p)' /\ FreshIndex(Other(p))'
  <1>1. FreshIndex(p) /\ FreshIndex(Other(p)) /\ TypeInv /\ PartyStep(p)
    BY DEF Effect, MergeOf
  <1>2. FreshIndex(Other(p))'
    BY <1>1 DEF Effect, FreshIndex
  <1>3. sub[p].idx \in Nat /\ sub[p].secrets \in SUBSET (Nat \X Point)
    BY <1>1, Fields
  <1>4. CASE Merges(p)
    <2>1. /\ sub'[p].idx = sub[p].idx /\ sub'[p].st = "OffChainClosed"
          /\ sub'[p].secrets = {e \in sub[p].secrets : e[1] # sub[p].idx}
                                 \cup {<<sub[p].idx, Head(net[p]).point>>}
      BY <1>4 DEF Merges, StoreSecret
    <2>2. sub'[p].st \in Done
      BY <2>1 DEF Done
    <2>3. ASSUME NEW e \in sub'[p].secrets
          PROVE  e[1] < sub[p].idx \/ e[1] = sub[p].idx
      <3>1. CASE e \in sub[p].secrets
        BY <1>1, <3>1 DEF FreshIndex
      <3>2. CASE e = <<sub[p].idx, Head(net[p]).point>>
        BY <3>2
      <3> QED BY <2>1, <2>3, <3>1, <3>2
    <2> QED BY <1>2, <2>1, <2>2, <2>3 DEF FreshIndex
  <1>5. CASE ~Merges(p)
    <2>1. sub'[p].secrets = sub[p].secrets
      BY <1>1, <1>5, KeepsSecrets
    <2>2. \/ sub'[p].idx = sub[p].idx + 1
          \/ sub'[p].idx = sub[p].idx /\ (sub[p].st \in Done => sub'[p].st \in Done)
      BY <1>1, CountsUp
    <2>3. ASSUME NEW e \in sub[p].secrets
          PROVE  e[1] < sub'[p].idx \/ (e[1] = sub'[p].idx /\ sub'[p].st \in Done)
      <3>1. e[1] \in Nat /\ (e[1] < sub[p].idx \/ (e[1] = sub[p].idx /\ sub[p].st \in Done))
        BY <1>1, <1>3, <2>3 DEF FreshIndex
      <3> QED BY <1>3, <2>2, <3>1
    <2> QED BY <1>2, <2>1, <2>3 DEF FreshIndex
  <1> QED BY <1>4, <1>5

LEMMA DisclosesAdds ==
    ASSUME NEW p \in Party, Trades(p), Discloses(p)
    PROVE  Adds(p)
  <1>1. ~PlainStep(p)
    BY DEF PlainStep, Idles, Resends, Drifts, DriftTo, Offers, GetsOffer, Accepts, Confirms,
       Finalizes, Signs, Returns, Returned, Discloses, WatchesEarly, SameSub, Renewed,
       SetUp, Kept, SettledStates
  <1>2. ~MergesLast(p)
    BY DEF Discloses, MergesLast
  <1> QED BY <1>1, <1>2 DEF Trades

LEMMA PaidStep ==
    ASSUME NEW p \in Party, Effect(p), Trades(p)
    PROVE  Paid(p)' /\ Paid(Other(p))'
  <1>1. Paid(p) /\ Paid(Other(p)) /\ TypeInv /\ PartyStep(p) /\ Count(p) \in Nat
    BY DEF Effect, MergeOf
  <1>2. Paid(Other(p))'
    BY <1>1 DEF Effect, Paid
  <1>3. given \in [Party -> SUBSET Nat] /\ given[p] \subseteq given'[p]
    BY <1>1 DEF Effect, TypeInv, TypeOK
  <1>4. Adds(p) => Count(p) \in given'[p]
    BY <1>3 DEF Adds
  <1>5. CASE Merges(p)
    <2>1. Count(p)' = Count(p) + 1 /\ sub'[p].st # "CloseConfirmed"
      BY <1>5 DEF Effect, Merges
    <2>2. Count(p) \in given'[p]
      <3>1. Adds(p) \/ MergesLast(p)
        BY <1>5, PlainApart DEF Trades
      <3>2. MergesLast(p) => Count(p) \in given[p]
        BY <1>1 DEF MergesLast, Paid
      <3> QED BY <1>3, <1>4, <3>1, <3>2
    <2>3. \A n \in Nat : n < Count(p) + 1 => n < Count(p) \/ n = Count(p)
      BY <1>1
    <2> QED BY <1>1, <1>2, <1>3, <2>1, <2>2, <2>3 DEF Paid
  <1>6. CASE ~Merges(p)
    <2>1. Count(p)' = Count(p)
      BY <1>6 DEF Effect
    <2>2. sub'[p].st = "CloseConfirmed" => sub[p].st = "CloseConfirmed" \/ Discloses(p)
      BY <1>1, <1>6, StaysConfirmed
    <2>3. Discloses(p) => Adds(p)
      BY DisclosesAdds
    <2> QED BY <1>1, <1>2, <1>3, <1>4, <2>1, <2>2, <2>3 DEF Paid
  <1> QED BY <1>5, <1>6

(* Whoever merges does so with a secret its peer has given for this close. *)
LEMMA MergeLevel ==
    ASSUME NEW p \in Party, Effect(p), Merges(p)
    PROVE  /\ Count(p) <= Count(Other(p)) /\ Count(p) \in given[Other(p)]
           /\ \/ Count(p) < Count(Other(p))
              \/ sub[Other(p)].st = "CloseConfirmed" \/ Closed(Other(p))
  <1> DEFINE q == Other(p)
  <1>1. /\ TypeInv /\ q \in Party /\ Other(q) = p /\ Count(p) \in Nat /\ Count(q) \in Nat
        /\ Level(p) /\ LastOfClose(p) /\ CloseConfirmSent(p) /\ Paid(q)
    BY DEF Effect, MergeOf
  <1> HIDE DEF q
  <1>2. /\ sub[p].st \in SplitStates /\ ~Settled(p) /\ Takes(p)
        /\ Head(net[p]).point = CounterPoint(p, sub[p].split)
    BY DEF Merges, Got, SplitStates, Settled, SettledStates
  <1>3. Head(net[p]) \in Msgs(p)
    BY <1>1, <1>2, TakesMsgs DEF TakesOrNot
  <1>4. Count(p) <= Count(q)
    BY <1>1, <1>2 DEF Level, q
  <1>5. CASE sub[p].st = "CloseAccepted" /\ Got(p, "CloseConfirm")
    <2>1. Has(net[p], {"CloseConfirm"})
      BY <1>3, <1>5 DEF Got, Has, Msgs
    <2> QED BY <1>1, <1>2, <1>4, <2>1 DEF CloseConfirmSent, q
  <1>6. CASE sub[p].st = "CloseConfirmed" /\ Got(p, "CloseFinalize")
    <2>1. Head(net[p]).point \in LastSecrets(q)
      BY <1>1, <1>3, <1>6 DEF LastSecrets, Got
    <2>2. Count(p) < Count(q)
      BY <1>1, <1>2, <2>1 DEF LastOfClose, q
    <2> QED BY <1>1, <1>4, <2>2 DEF Paid, q
  <1> QED BY <1>5, <1>6 DEF Merges

LEMMA AheadStep ==
    ASSUME NEW p \in Party, Effect(p)
    PROVE  Ahead(p)' /\ Ahead(Other(p))'
  <1> DEFINE q == Other(p)
  <1>1. /\ TypeInv /\ NetInv /\ PartyStep(p) /\ q \in Party /\ Other(q) = p
        /\ Count(p) \in Nat /\ Count(q) \in Nat /\ Count(q)' = Count(q)
        /\ Ahead(p) /\ Ahead(q) /\ BackTogether(p) /\ sub'[q] = sub[q]
    BY DEF Effect, MergeOf
  <1>2. CASE Merges(p)
    <2>1. Count(p)' = Count(p) + 1
      BY <1>2 DEF Effect
    <2>2. /\ Count(p) <= Count(q)
          /\ Count(p) < Count(q) \/ sub[q].st = "CloseConfirmed" \/ Closed(q)
      BY <1>2, MergeLevel
    <2> HIDE DEF q
    <2>3. Count(p) + 1 <= Count(q) + 1 /\ (Count(p) < Count(q) => Count(p) + 1 # Count(q) + 1)
      BY <1>1, <2>2
    <2>4. Closed(q)' = Closed(q)
      BY <1>1 DEF Closed
    <2>5. Ahead(p)'
      BY <1>1, <2>1, <2>2, <2>3, <2>4 DEF Ahead, q
    <2>6. Count(q) <= Count(p) + 1
      BY <1>1 DEF Ahead
    <2>7. Count(q) <= (Count(p) + 1) + 1 /\ Count(q) # (Count(p) + 1) + 1
      BY <1>1, <2>6
    <2>8. Ahead(q)'
      BY <1>1, <2>1, <2>7 DEF Ahead
    <2> QED BY <2>5, <2>8 DEF q
  <1>3. CASE ~Merges(p)
    <2>1. Count(p)' = Count(p)
      BY <1>3 DEF Effect
    <2>2. Closed(q)' = Closed(q)
      BY <1>1 DEF Closed
    <2>3. Ahead(p)'
      BY <1>1, <2>1, <2>2 DEF Ahead
    <2> HIDE DEF q
    <2>4. ASSUME Count(q) = Count(p) + 1
          PROVE  sub'[p].st = "CloseConfirmed" \/ Closed(p)'
      <3>1. sub[p].st = "CloseConfirmed" \/ Closed(p)
        BY <1>1, <2>4 DEF Ahead
      <3>2. CASE Returns(p) /\ Head(net[p]).flag = "CloseAccepted" /\ sub[p].st = "CloseConfirmed"
        <4>1. Takes(p) /\ Head(net[p]).type = "Reestablish"
          BY <3>2 DEF Returns, Got
        <4>2. Head(net[p]) \in Msgs(p)
          BY <1>1, <4>1, TakesMsgs DEF TakesOrNot
        <4>3. TakesBack(p)
          BY <3>2, <4>1, <4>2 DEF TakesBack
        <4>4. Count(q) <= Count(p)
          BY <1>1, <4>3 DEF BackTogether, Unmerged, q
        <4> QED BY <1>1, <2>4, <4>4
      <3> QED BY <1>1, <1>3, <3>1, <3>2, StaysConfirmed, StaysMerging
    <2>5. Ahead(q)'
      BY <1>1, <2>1, <2>4 DEF Ahead
    <2> QED BY <2>3, <2>5 DEF q
  <1> QED BY <1>2, <1>3

(* The message that completes a split, and what it finds.                  *)
LEMMA CompletesNow ==
    ASSUME NEW p \in Party, Effect(p), Finalizes(p) \/ Signs(p)
    PROVE  /\ sub'[p].split = sub[p].split /\ Count(p) <= Count(Other(p))
           /\ \A x \in LastSecrets(Other(p)) : x # CounterPoint(p, sub[p].split)
  <1>1. TypeInv /\ Completes(p, "Confirm", "Accepted") /\ Completes(p, "Finalize", "Confirmed")
    BY DEF Effect, MergeOf
  <1>2. /\ sub[p].st \in {"Accepted", "Confirmed"} /\ Takes(p)
        /\ Head(net[p]).type \in {"Confirm", "Finalize"} /\ Head(net[p]).split = sub[p].split
        /\ sub'[p].split = sub[p].split
    BY DEF Finalizes, Signs, Obtains, Got, Kept
  <1>3. Head(net[p]) \in Msgs(p) /\ ~Settled(p)
    BY <1>1, <1>2, TakesMsgs DEF TakesOrNot, Settled, SettledStates
  <1> QED BY <1>1, <1>2, <1>3 DEF Completes

LEMMA LevelStep ==
    ASSUME NEW p \in Party, Effect(p)
    PROVE  Level(p)' /\ Level(Other(p))'
  <1> DEFINE q == Other(p)
  <1>1. /\ PartyStep(p) /\ Other(q) = p /\ Count(p) \in Nat /\ Count(q) \in Nat
        /\ Count(q)' = Count(q) /\ Level(p) /\ Level(q) /\ sub'[q] = sub[q]
    BY DEF Effect, MergeOf
  <1>2. Count(p)' \in Nat /\ Count(p) <= Count(p)'
    BY <1>1 DEF Effect
  <1> HIDE DEF q
  <1>3. Level(q)'
    BY <1>1, <1>2 DEF Level
  <1>4. ASSUME sub'[p].st \in SplitStates
        PROVE  Count(p)' <= Count(q)
    <2>1. ~Merges(p)
      BY <1>4 DEF Merges, SplitStates
    <2>2. Count(p)' = Count(p)
      BY <2>1 DEF Effect
    <2>3. Count(p) <= Count(q)
      BY <1>1, <1>4, EntersSplit, CompletesNow DEF Level, q
    <2> QED BY <2>2, <2>3
  <1> QED BY <1>1, <1>3, <1>4 DEF Level, q

(* A reestablish message under way to a party is from before the step, and *)
(* the party has not handled it yet.                                       *)
LEMMA AskedBefore ==
    ASSUME NEW p \in Party, Effect(p), NEW flag
    PROVE  /\ Asks(p, flag)' => Asks(p, flag) /\ ~ready[p]
           /\ Asks(Other(p), flag)' => Asks(Other(p), flag) /\ ~ready[Other(p)]
  <1> DEFINE q == Other(p)
  <1>1. TypeInv /\ NetInv /\ PartyStep(p) /\ q \in Party /\ Msgs(p)' \subseteq Msgs(p)
    BY DEF Effect
  <1>2. PICK m \in Message : Says(p, m) /\ m.type # "Reestablish"
    BY <1>1, StepSays
  <1>3. Msgs(q)' \subseteq Msgs(q) \cup {m}
    BY <1>1, <1>2, SaysHeard DEF Heard
  <1>4. \A x \in Party : Asks(x, flag) => ~ready[x]
    BY <1>1, ReturningUnready DEF Asks
  <1>5. Asks(p, flag)' => Asks(p, flag)
    BY <1>1 DEF Asks
  <1> HIDE DEF q
  <1>6. Asks(q, flag)' => Asks(q, flag)
    BY <1>2, <1>3 DEF Asks
  <1> QED BY <1>1, <1>4, <1>5, <1>6 DEF q

(* What is merged stays so for the peer.                                   *)
LEMMA StaysMerged ==
    ASSUME NEW p \in Party, Effect(p), Merged(p),
           Merges(p) => sub[Other(p)].st \in SplitStates
    PROVE  Merged(p)'
  <1> DEFINE q == Other(p)
  <1>1. /\ PartyStep(p) /\ Other(q) = p /\ Count(p) \in Nat /\ Count(q) \in Nat
        /\ Count(q)' = Count(q) /\ Level(q) /\ sub'[q] = sub[q]
    BY DEF Effect, MergeOf
  <1>2. CASE Merges(p)
    <2>1. Count(p)' = Count(p) + 1 /\ Count(q) <= Count(p)
      BY <1>1, <1>2 DEF Effect, Level
    <2> HIDE DEF q
    <2>2. Count(q)' < Count(p)'
      BY <1>1, <2>1
    <2> QED BY <2>2 DEF Merged, q
  <1>3. CASE ~Merges(p)
    <2>1. Count(p)' = Count(p)
      BY <1>3 DEF Effect
    <2> QED BY <1>1, <1>3, <2>1, StaysMerging DEF Merged
  <1> QED BY <1>2, <1>3

LEMMA PeerMerged ==
    ASSUME NEW p \in Party, Effect(p), Merged(Other(p)), ~Merges(p)
    PROVE  Merged(Other(p))'
  BY DEF Effect, Merged, Closed

(* What the answer to an offer to close finds.                             *)
LEMMA DisclosesNow ==
    ASSUME NEW p \in Party, Effect(p), Discloses(p)
    PROVE  /\ Settled(Other(p)) \/ Accepter(Other(p))
           /\ ~Settled(Other(p)) => /\ Has(net[p], {"CloseAccept"})
                                    /\ ~Has(net[Other(p)], {"CloseConfirm"})
                                    /\ ~Has(net'[p], {"CloseAccept"})
  <1> DEFINE q == Other(p)
  <1>1. TypeInv /\ CloseAcceptSent(q) /\ Other(q) = p
    BY DEF Effect, MergeOf
  <1>2. /\ Got(p, "CloseAccept") /\ Takes(p) /\ Head(net[p]).type = "CloseAccept"
        /\ ~Settled(p) /\ TakesOrNot(p)
    BY DEF Discloses, Got, TakesOrNot, Settled, SettledStates
  <1>3. Head(net[p]) \in Msgs(p)
    BY <1>1, <1>2, TakesMsgs
  <1>4. Has(net[p], {"CloseAccept"})
    BY <1>2, <1>3 DEF Has, Msgs
  <1> HIDE DEF q
  <1>5. ~Settled(q) => /\ One(net[p], {"CloseAccept"}) /\ Accepter(q)
                       /\ ~Has(net[q], {"CloseConfirm"})
    BY <1>1, <1>2, <1>4 DEF CloseAcceptSent
  <1>6. ~Settled(q) => ~Has(net'[p], {"CloseAccept"})
    <2>1. "CloseAccept" \in {"CloseAccept"}
      OBVIOUS
    <2> QED BY <1>1, <1>2, <1>5, <2>1, TakesOne
  <1> QED BY <1>4, <1>5, <1>6 DEF q

LEMMA AttendedStep ==
    ASSUME NEW p \in Party, Effect(p)
    PROVE  Attended(p)' /\ Attended(Other(p))'
  <1> DEFINE q == Other(p)
  <1>1. /\ PartyStep(p) /\ Other(q) = p /\ sub'[q] = sub[q] /\ Attended(p) /\ Attended(q)
    BY DEF Effect, MergeOf
  <1>2. ASSUME sub'[p].st = "CloseConfirmed"
        PROVE  Merged(q)'
    <2>1. ~Merges(p)
      BY <1>2 DEF Merges
    <2>2. Merged(q)
      <3>1. CASE sub[p].st = "CloseConfirmed"
        BY <1>1, <3>1 DEF Attended
      <3>2. CASE Discloses(p)
        <4>1. Settled(q) \/ sub[q].st \in {"CloseAccepted", "Closing"}
          BY <3>2, DisclosesNow DEF Accepter
        <4> QED BY <4>1 DEF Merged, Merging, Closed, Settled
      <3> QED BY <1>1, <1>2, <2>1, <3>1, <3>2, StaysConfirmed
    <2> QED BY <2>1, <2>2, PeerMerged
  <1>3. ASSUME sub[q].st = "CloseConfirmed"
        PROVE  Merged(p)'
    <2>1. Merged(p) /\ sub[q].st \in SplitStates
      BY <1>1, <1>3 DEF Attended, SplitStates
    <2> QED BY <2>1, StaysMerged
  <1> HIDE DEF q
  <1>4. Attended(p)' /\ Attended(q)'
    BY <1>1, <1>2, <1>3 DEF Attended, q
  <1> QED BY <1>4 DEF q

(* A split is completed over a connection both parties are ready on.       *)
LEMMA CompletesReady ==
    ASSUME AgreeInv, NEW p \in Party, Finalizes(p) \/ Signs(p), ~Settled(Other(p))
    PROVE  ready[Other(p)]
  <1> DEFINE q == Other(p)
  <1>1. TypeInv /\ q \in Party /\ Other(q) = p /\ \A x \in Party : x = p \/ x = q
    BY Others DEF AgreeInv
  <1>2. /\ sub[p].st \in {"Accepted", "Confirmed"} /\ Takes(p)
        /\ Head(net[p]).type \in {"Confirm", "Finalize"}
    BY DEF Finalizes, Signs, Obtains, Got
  <1>3. Head(net[p]) \in Msgs(p)
    BY <1>1, <1>2, TakesMsgs DEF TakesOrNot
  <1> HIDE DEF q
  <1>4. Unsettled
    BY <1>1, <1>2 DEF Unsettled, Settled, SettledStates, q
  <1>5. ConfirmSent(p) /\ FinalizeSent(q)
    BY <1>1, <1>4 DEF AgreeInv, SetupInv, SetupOf
  <1> QED BY <1>1, <1>2, <1>3, <1>5 DEF ConfirmSent, FinalizeSent, q

LEMMA AskedStep ==
    ASSUME AgreeInv, NEW p \in Party, Effect(p)
    PROVE  Asked(p)' /\ Asked(Other(p))'
  <1> DEFINE q == Other(p)
             flag == "CloseConfirmed"
  <1>1. /\ PartyStep(p) /\ Other(q) = p /\ sub'[q] = sub[q] /\ Asked(p) /\ Asked(q)
        /\ q \in Party
    BY DEF Effect, MergeOf
  <1>2. ASSUME Asks(p, flag)', sub[q].st \in SplitStates
        PROVE  Merged(p)'
    <2>1. Asks(p, flag) /\ ~ready[p]
      BY <1>2, AskedBefore
    <2>2. Merged(p) /\ ~Merges(p)
      BY <1>1, <1>2, <2>1 DEF Asked, Merges
    <2> QED BY <2>2, StaysMerged
  <1>3. ASSUME Asks(q, flag)', sub'[p].st \in SplitStates
        PROVE  Merged(q)'
    <2>1. Asks(q, flag) /\ ~ready[q]
      BY <1>3, AskedBefore
    <2>2. ~Merges(p)
      BY <1>3 DEF Merges, SplitStates
    <2>3. Merged(q)
      <3>1. CASE sub[p].st \in SplitStates
        BY <1>1, <2>1, <3>1 DEF Asked
      <3>2. CASE Finalizes(p) \/ Signs(p)
        BY <2>1, <3>2, CompletesReady DEF Merged, Closed, Settled
      <3> QED BY <1>1, <1>3, <3>1, <3>2, EntersSplit
    <2> QED BY <2>2, <2>3, PeerMerged
  <1> HIDE DEF q
  <1>4. Asked(p)' /\ Asked(q)'
    BY <1>1, <1>2, <1>3 DEF Asked, q
  <1> QED BY <1>4 DEF q

LEMMA TakesBackAsks ==
    ASSUME NEW p
    PROVE  /\ TakesBack(p) <=> sub[p].st = "CloseConfirmed" /\ Asks(p, "CloseAccepted")
           /\ TakesBack(p)' <=> sub'[p].st = "CloseConfirmed" /\ Asks(p, "CloseAccepted")'
  BY DEF TakesBack, Asks

LEMMA BackTogetherStep ==
    ASSUME NEW p \in Party, Effect(p)
    PROVE  BackTogether(p)' /\ BackTogether(Other(p))'
  <1> DEFINE q == Other(p)
             flag == "CloseAccepted"
  <1>1. /\ PartyStep(p) /\ Other(q) = p /\ sub'[q] = sub[q] /\ TypeInv /\ NetInv
        /\ BackTogether(p) /\ BackTogether(q) /\ q \in Party
        /\ Count(p) \in Nat /\ Count(q) \in Nat /\ Count(q)' = Count(q)
        /\ CloseAcceptSent(p)
    BY DEF Effect, MergeOf
  <1>2. ASSUME TakesBack(p)'
        PROVE  Unmerged(q)'
    <2>1. Asks(p, flag) /\ ~ready[p] /\ sub'[p].st = "CloseConfirmed"
      BY <1>2, AskedBefore, TakesBackAsks
    <2>2. ~Merges(p) /\ ~Discloses(p)
      BY <2>1 DEF Merges, Discloses
    <2>3. sub[p].st = "CloseConfirmed" /\ Count(p)' = Count(p)
      BY <1>1, <2>1, <2>2, StaysConfirmed DEF Effect
    <2>4. Unmerged(q)
      BY <1>1, <2>1, <2>3, TakesBackAsks DEF BackTogether
    <2> QED BY <1>1, <2>3, <2>4 DEF Unmerged, Closed
  <1>3. ASSUME TakesBack(q)'
        PROVE  Unmerged(p)'
    <2>1. Asks(q, flag) /\ ~ready[q] /\ sub[q].st = "CloseConfirmed"
      BY <1>1, <1>3, AskedBefore, TakesBackAsks
    <2>2. Unmerged(p) /\ ~Settled(q)
      BY <1>1, <2>1, TakesBackAsks DEF BackTogether, Settled, SettledStates
    <2>3. ~Discloses(p)
      BY <2>1, <2>2, DisclosesNow DEF Accepter
    <2>4. ~Merges(p)
      <3>1. SUFFICES ASSUME Merges(p)
                     PROVE  FALSE
        OBVIOUS
      <3>2. sub[p].st \in {"CloseAccepted", "CloseConfirmed"} /\ Takes(p)
        BY <3>1 DEF Merges, Got
      <3>3. sub[p].st = "CloseAccepted" /\ ~Settled(p)
        BY <2>2, <3>2 DEF Unmerged, Closed, SettledStates, Settled
      <3>4. Head(net[p]).type = "CloseConfirm" /\ Head(net[p]) \in Msgs(p)
        BY <1>1, <3>1, <3>2, <3>3, TakesMsgs DEF Merges, Got, TakesOrNot
      <3>5. Has(net[p], {"CloseConfirm"})
        BY <3>4 DEF Has, Msgs
      <3> QED BY <1>1, <2>1, <2>2, <3>3, <3>5 DEF CloseAcceptSent
    <2>5. Count(p)' = Count(p)
      BY <2>4 DEF Effect
    <2>6. sub'[p].st \in {"Signed", "CloseOffered", "CloseAccepted"} \/ Closed(p)'
      <3>1. sub[p].st \in Merging \/ Closed(p)
        BY <2>2 DEF Unmerged, Merging
      <3>2. sub'[p].st \in Merging \/ Closed(p)'
        BY <1>1, <2>4, <3>1, StaysMerging
      <3>3. sub[p].st # "CloseConfirmed"
        BY <2>2 DEF Unmerged, Closed, SettledStates
      <3>4. sub'[p].st # "CloseConfirmed"
        BY <1>1, <2>3, <2>4, <3>3, StaysConfirmed
      <3> QED BY <3>2, <3>4 DEF Merging
    <2> QED BY <1>1, <2>2, <2>5, <2>6 DEF Unmerged
  <1> HIDE DEF q
  <1>4. BackTogether(p)' /\ BackTogether(q)'
    BY <1>1, <1>2, <1>3 DEF BackTogether, q
  <1> QED BY <1>4 DEF q

(* The last secrets p's step adds are of a merge, now or before.           *)
LEMMA LastSecretsStep ==
    ASSUME NEW p \in Party, Effect(p)
    PROVE  /\ LastSecrets(Other(p))' \subseteq LastSecrets(Other(p))
           /\ \A x \in LastSecrets(p)' :
                \/ x \in LastSecrets(p) \/ Merges(p)
                \/ /\ Returns(p) /\ Head(net[p]).flag = "CloseConfirmed"
                   /\ sub[p].st \in {"Offered", "OffChainClosed"}
  <1> DEFINE q == Other(p)
  <1>1. /\ TypeInv /\ PartyStep(p) /\ Other(q) = p /\ Msgs(p)' \subseteq Msgs(p)
        /\ Left(q)' = Left(q)
    BY DEF Effect
  <1>2. PICK m \in Message :
          /\ Says(p, m)
          /\ m.type = "CloseFinalize" =>
               \/ Merges(p)
               \/ \E a \in Left(p) : a.type = "ResendCloseFinalize" /\ a.point = m.point
    BY <1>1, StepSays
  <1>3. Msgs(q)' \subseteq Msgs(q) \cup {m}
    BY <1>1, <1>2, SaysHeard DEF Heard
  <1>4. \A a \in Left(p)' :
          a \in Left(p) \/ (Returns(p) /\ NewAction(p, sub[p], Head(net[p]).flag, a))
    BY <1>1, StepFrame DEF Calm, Returns
  <1> HIDE DEF q
  <1>5. LastSecrets(q)' \subseteq LastSecrets(q)
    BY <1>1 DEF LastSecrets
  <1>6. ASSUME NEW x \in LastSecrets(p)'
        PROVE  \/ x \in LastSecrets(p) \/ Merges(p)
               \/ /\ Returns(p) /\ Head(net[p]).flag = "CloseConfirmed"
                  /\ sub[p].st \in {"Offered", "OffChainClosed"}
    <2>1. \/ \E y \in Msgs(q)' : y.type = "CloseFinalize" /\ x = y.point
          \/ \E a \in Left(p)' : a.type = "ResendCloseFinalize" /\ x = a.point
      BY <1>6 DEF LastSecrets, q
    <2>2. ASSUME NEW y \in Msgs(q), y.type = "CloseFinalize", x = y.point
          PROVE  x \in LastSecrets(p)
      BY <2>2 DEF LastSecrets, q
    <2>3. ASSUME NEW a \in Left(p), a.type = "ResendCloseFinalize", x = a.point
          PROVE  x \in LastSecrets(p)
      BY <2>3 DEF LastSecrets
    <2>4. CASE \E y \in Msgs(q)' : y.type = "CloseFinalize" /\ x = y.point
      BY <1>2, <1>3, <2>2, <2>3, <2>4
    <2>5. CASE \E a \in Left(p)' : a.type = "ResendCloseFinalize" /\ x = a.point
      BY <1>4, <2>3, <2>5 DEF NewAction
    <2> QED BY <2>1, <2>4, <2>5
  <1> QED BY <1>5, <1>6 DEF q

LEMMA LastOfCloseStep ==
    ASSUME NEW p \in Party, Effect(p)
    PROVE  LastOfClose(p)' /\ LastOfClose(Other(p))'
  <1> DEFINE q == Other(p)
  <1>1. /\ TypeInv /\ PartyStep(p) /\ Other(q) = p /\ sub'[q] = sub[q]
        /\ Count(p) \in Nat /\ Count(q) \in Nat /\ Count(q)' = Count(q)
        /\ LastOfClose(p) /\ LastOfClose(q) /\ Asked(p) /\ Level(q)
    BY DEF Effect, MergeOf
  <1>2. Count(p)' \in Nat /\ Count(p) <= Count(p)' /\ (Merges(p) => Count(p) < Count(p)')
    BY <1>1 DEF Effect
  <1>3. LastSecrets(q)' \subseteq LastSecrets(q)
    BY LastSecretsStep
  <1>4. CounterPoint(q, sub[q].split)' = CounterPoint(q, sub[q].split)
    BY <1>1
  <1>5. ASSUME sub'[p].st \in SplitStates, NEW x \in LastSecrets(q),
               x = CounterPoint(p, sub'[p].split)
        PROVE  Count(p)' < Count(q)
    <2>1. ~Merges(p)
      BY <1>5 DEF Merges, SplitStates
    <2>2. Count(p)' = Count(p)
      BY <2>1 DEF Effect
    <2>3. sub[p].st \in SplitStates /\ sub'[p].split = sub[p].split
      BY <1>1, <1>5, EntersSplit, CompletesNow
    <2> QED BY <1>1, <1>5, <2>2, <2>3 DEF LastOfClose
  <1>6. ASSUME sub[q].st \in SplitStates, NEW x \in LastSecrets(p)',
               x = CounterPoint(q, sub[q].split)
        PROVE  Count(q) < Count(p)'
    <2>1. CASE x \in LastSecrets(p)
      <3>1. Count(q) < Count(p)
        BY <1>1, <1>6, <2>1 DEF LastOfClose
      <3> QED BY <1>1, <1>2, <3>1
    <2>2. CASE Merges(p)
      <3>1. Count(q) <= Count(p)
        BY <1>1, <1>6 DEF Level
      <3> QED BY <1>1, <1>2, <2>2, <3>1
    <2>3. CASE /\ Returns(p) /\ Head(net[p]).flag = "CloseConfirmed"
               /\ sub[p].st \in {"Offered", "OffChainClosed"}
      <3>1. Takes(p) /\ Head(net[p]).type = "Reestablish"
        BY <2>3 DEF Returns, Got
      <3>2. Asks(p, "CloseConfirmed")
        BY <1>1, <2>3, <3>1, TakesMsgs DEF TakesOrNot, Asks
      <3>3. Count(q) < Count(p)
        BY <1>1, <1>6, <2>3, <3>2 DEF Asked, Merged, Merging, Closed, SettledStates
      <3> QED BY <1>1, <1>2, <3>3
    <2> QED BY <1>6, <2>1, <2>2, <2>3, LastSecretsStep
  <1> HIDE DEF q
  <1>7. LastOfClose(p)' /\ LastOfClose(q)'
    BY <1>1, <1>3, <1>5, <1>6 DEF LastOfClose, q
  <1> QED BY <1>7 DEF q

(* The two messages that complete a split, and the state each one meets.   *)
Completing(type, st) ==
    (type = "Confirm" /\ st = "Accepted") \/ (type = "Finalize" /\ st = "Confirmed")

LEMMA OwnCompletes ==
    ASSUME NEW p \in Party, Effect(p), NEW type, NEW st, Completing(type, st),
           Completes(p, type, st)
    PROVE  Completes(p, type, st)'
  <1> DEFINE q == Other(p)
  <1>1. /\ TypeInv /\ NetInv /\ PartyStep(p) /\ Msgs(p)' \subseteq Msgs(p)
        /\ Count(q)' = Count(q) /\ LastSecrets(q)' \subseteq LastSecrets(q)
    BY LastSecretsStep DEF Effect
  <1>2. SUFFICES ASSUME ~Settled(p)'
                 PROVE  /\ One(net'[p], {type})
                        /\ \A m \in Msgs(p)' : m.type = type =>
                             /\ ready'[p] /\ sub'[p].st = st /\ sub'[p].split = m.split
                             /\ Count(p)' <= Count(q)
                             /\ \A x \in LastSecrets(q) : x # CounterPoint(p, m.split)
    BY <1>1 DEF Completes, With
  <1>3. ~Settled(p)
    BY <1>1, <1>2, StaysSettled
  <1>4. TakesOrNot(p)
    <2>1. PICK m \in Message : Says(p, m)
      BY <1>1, StepSays
    <2> QED BY <2>1 DEF Says
  <1>5. One(net[p], {type}) /\ type \in {type}
    BY <1>3 DEF Completes
  <1>6. One(net'[p], {type}) /\ (Got(p, type) => ~Has(net'[p], {type}))
    BY <1>1, <1>4, <1>5, TakesOne
  <1>7. ASSUME NEW m \in Msgs(p)', m.type = type
        PROVE  /\ ready'[p] /\ sub'[p].st = st /\ sub'[p].split = m.split
               /\ Count(p)' <= Count(q)
               /\ \A x \in LastSecrets(q) : x # CounterPoint(p, m.split)
    <2>1. /\ ready[p] /\ sub[p].st = st /\ sub[p].split = m.split /\ Count(p) <= Count(q)
          /\ \A x \in LastSecrets(q) : x # CounterPoint(p, m.split)
      BY <1>1, <1>3, <1>7 DEF Completes, With
    <2>2. Has(net'[p], {type})
      BY <1>7 DEF Has, Msgs
    <2>3. ~Finalizes(p) /\ ~Signs(p)
      BY <1>6, <2>1, <2>2 DEF Finalizes, Signs, Obtains, Completing
    <2>4. st \in {"Accepted", "Confirmed"}
      BY DEF Completing
    <2>5. sub'[p] = sub[p] /\ ready'[p]
      BY <1>1, <1>2, <2>1, <2>3, <2>4, StaysAccepted
    <2>6. ~Merges(p)
      BY <2>1, <2>4 DEF Merges
    <2>7. Count(p)' = Count(p)
      BY <2>6 DEF Effect
    <2> QED BY <2>1, <2>5, <2>7
  <1> QED BY <1>6, <1>7

(* What p sends to complete its peer's split.                              *)
LEMMA SaysCompletes ==
    ASSUME AgreeInv, NEW p \in Party, Effect(p), ~Settled(Other(p)), Confirms(p) \/ Finalizes(p)
    PROVE  LET q == Other(p) IN
           /\ ready[q] /\ Count(q) <= Count(p)'
           /\ Confirms(p) => /\ With(q, "Accepted", sub'[p].split)
                             /\ ~Has(net[q], {"Confirm"})
           /\ Finalizes(p) => /\ With(q, "Confirmed", sub'[p].split)
                              /\ ~Has(net[q], {"Finalize"})
           /\ \A x \in LastSecrets(p)' : x # CounterPoint(q, sub'[p].split)
  <1> DEFINE q == Other(p)
  <1>1. /\ TypeInv /\ PartyStep(p) /\ q \in Party /\ Other(q) = p /\ sub'[q] = sub[q]
        /\ Count(p) \in Nat /\ Count(q) \in Nat /\ Ahead(q) /\ PointInv /\ SecretOf(p)
        /\ \A x \in Party : x = p \/ x = q
    BY Others DEF Effect, MergeOf, AgreeInv, SecretInv
  <1>2. /\ sub[p].st \in {"Offered", "Accepted"} /\ sub'[p].st \in {"Confirmed", "Finalized"}
        /\ ~Merges(p) /\ ~Returns(p)
    BY DEF Confirms, Finalizes, SetUp, Merges, Returns, Returned
  <1>3. Count(p)' = Count(p)
    BY <1>2 DEF Effect
  <1>4. Unsettled'
    BY <1>1, <1>2 DEF Unsettled, Settled, SettledStates
  <1>5. SetupOf(p) /\ SetupOf(q)
    BY <1>1, <1>4, SetupBefore
  <1>6. /\ Confirms(p) => /\ ready[q] /\ With(q, "Accepted", sub'[p].split)
                          /\ Has(net[p], FromAcceptor)
        /\ Finalizes(p) => /\ ready[q] /\ With(q, "Confirmed", sub[p].split)
                           /\ Has(net[p], {"Confirm"})
    BY <1>1, <1>4, TakenSetup
  <1>7. Finalizes(p) => sub'[p].split = sub[p].split
    BY DEF Finalizes, Obtains, Kept
  <1> HIDE DEF q
  <1>8. Confirms(p) => ~Has(net[q], {"Confirm"})
    BY <1>1, <1>5, <1>6 DEF SetupOf, OneSent
  <1>9. Finalizes(p) => ~Has(net[q], {"Finalize"})
    <2>1. Finalizes(p) => ~Has(net[q], FromAcceptor)
      BY <1>5, <1>6 DEF SetupOf, OneSent, q
    <2> QED BY <2>1 DEF Has, FromAcceptor
  <1>10. Count(q) <= Count(p)'
    <2>1. Count(q) <= Count(p) + 1 /\ Count(q) # Count(p) + 1
      BY <1>1, <1>2 DEF Ahead, Closed, SettledStates
    <2> QED BY <1>1, <1>3, <2>1
  <1>11. CounterPoint(q, sub'[p].split) = Own(p)
    <2>1. CASE Confirms(p)
      <3>1. /\ sub'[p].split.offer = sub[p].point /\ sub[p].isOffer /\ sub[p].st = "Offered"
            /\ sub'[p].split \in Split
        BY <2>1 DEF Confirms, SetUp
      <3>2. sub'[p].split.offer = Own(p)
        BY <1>1, <3>1 DEF PointInv, PointOf, OfferPoint
      <3>3. OwnPoint(p, sub'[p].split) = Own(p)
        BY <3>2, OwnFirst, SidesOf
      <3> QED BY <3>1, <3>3, PointsMirror DEF q
    <2>2. CASE Finalizes(p)
      <3>1. sub[p].split \in Split /\ sub[p].st = "Accepted"
        BY <1>1, <2>2, Fields DEF Finalizes
      <3>2. OwnPoint(p, sub[p].split) = Own(p)
        BY <1>1, <3>1, AcceptedPoints DEF PointInv, PointOf
      <3> QED BY <1>7, <2>2, <3>1, <3>2, PointsMirror DEF q
    <2> QED BY <2>1, <2>2
  <1>12. ASSUME NEW x \in LastSecrets(p)'
         PROVE  x # Own(p)
    <2>1. x \in LastSecrets(p)
      BY <1>2, <1>12, LastSecretsStep
    <2>2. Before(p, x, Done)
      BY <1>1, <2>1 DEF LastSecrets, SecretOf, FinalizesBefore, ResendsBefore
    <2>3. sub[p].st \notin Done
      BY <1>2 DEF Done, SettledStates
    <2> QED BY <1>1, <2>2, <2>3, NotGiven
  <1> QED BY <1>6, <1>7, <1>8, <1>9, <1>10, <1>11, <1>12 DEF q

LEMMA PeerCompletes ==
    ASSUME AgreeInv, NEW p \in Party, Effect(p), NEW type, NEW st, Completing(type, st),
           Completes(Other(p), type, st)
    PROVE  Completes(Other(p), type, st)'
  <1> DEFINE q == Other(p)
  <1>1. /\ TypeInv /\ NetInv /\ PartyStep(p) /\ q \in Party /\ Other(q) = p /\ sub'[q] = sub[q]
        /\ ready'[q] = ready[q] /\ Count(p) \in Nat /\ Count(q) \in Nat /\ Count(q)' = Count(q)
        /\ \A x \in Party : x = p \/ x = q
    BY Others DEF Effect
  <1>2. Count(p)' \in Nat /\ Count(p) <= Count(p)'
    BY <1>1 DEF Effect
  <1>3. PICK m \in Message :
          /\ Says(p, m)
          /\ m.type = "Confirm" => Confirms(p) /\ m.split = sub'[p].split
          /\ m.type = "Finalize" => Finalizes(p) /\ m.split = sub[p].split
    BY <1>1, StepSays
  <1>4. Msgs(q)' \subseteq Msgs(q) \cup {m}
    BY <1>1, <1>3, SaysHeard DEF Heard
  <1>5. Finalizes(p) => sub'[p].split = sub[p].split
    BY DEF Finalizes, Obtains, Kept
  <1>6. ~Settled(q) /\ (Confirms(p) \/ Finalizes(p)) =>
          /\ ready[q] /\ Count(q) <= Count(p)'
          /\ Confirms(p) => With(q, "Accepted", sub'[p].split) /\ ~Has(net[q], {"Confirm"})
          /\ Finalizes(p) => With(q, "Confirmed", sub'[p].split) /\ ~Has(net[q], {"Finalize"})
          /\ \A x \in LastSecrets(p)' : x # CounterPoint(q, sub'[p].split)
    BY SaysCompletes
  <1> HIDE DEF q
  <1>7. SUFFICES ASSUME ~Settled(q)
                 PROVE  /\ One(net'[q], {type})
                        /\ \A y \in Msgs(q)' : y.type = type =>
                             /\ ready[q] /\ With(q, st, y.split) /\ Count(q) <= Count(p)'
                             /\ \A x \in LastSecrets(p)' : x # CounterPoint(q, y.split)
    BY <1>1 DEF Completes, With, Settled, q
  <1>8. /\ One(net[q], {type})
        /\ \A y \in Msgs(q) : y.type = type =>
             /\ ready[q] /\ With(q, st, y.split) /\ Count(q) <= Count(p)
             /\ \A x \in LastSecrets(p) : x # CounterPoint(q, y.split)
    BY <1>1, <1>7 DEF Completes, q
  <1>9. One(net'[q], {type})
    <2>1. m.type \in {type} => ~Has(net[q], {type})
      BY <1>3, <1>6, <1>7 DEF Completing
    <2> QED BY <1>1, <1>3, <1>8, <2>1, SaysOne DEF q
  <1>10. ASSUME NEW y \in Msgs(q)', y.type = type
         PROVE  /\ ready[q] /\ With(q, st, y.split) /\ Count(q) <= Count(p)'
                /\ \A x \in LastSecrets(p)' : x # CounterPoint(q, y.split)
    <2>1. CASE y = m
      BY <1>3, <1>5, <1>6, <1>7, <1>10, <2>1 DEF Completing
    <2>2. CASE y \in Msgs(q)
      <3>1. /\ ready[q] /\ With(q, st, y.split) /\ Count(q) <= Count(p)
            /\ \A x \in LastSecrets(p) : x # CounterPoint(q, y.split)
        BY <1>8, <1>10, <2>2
      <3>2. ASSUME NEW x \in LastSecrets(p)', x \notin LastSecrets(p)
            PROVE  FALSE
        <4>1. \/ Merges(p)
              \/ Returns(p) /\ sub[p].st \in {"Offered", "OffChainClosed"}
          BY <3>2, LastSecretsStep
        <4>2. ~Settled(p)
          BY <4>1 DEF Settled, SettledStates, Merges
        <4>3. SetupOf(p) /\ SetupOf(q)
          BY <1>1, <1>7, <4>2 DEF AgreeInv, SetupInv, Unsettled
        <4>4. CASE type = "Confirm"
          BY <1>1, <1>10, <2>2, <4>1, <4>3, <4>4, ReturningUnready
             DEF SetupOf, ConfirmSent, With, Merges
        <4>5. CASE type = "Finalize"
          <5>1. ready[p] /\ sub[p].split = y.split /\ With(q, "Confirmed", y.split)
            BY <1>10, <2>2, <4>3, <4>5 DEF SetupOf, FinalizeSent, q
          <5> QED BY <1>1, <4>1, <5>1, ReturningUnready, MergeApart DEF q
        <4> QED BY <4>4, <4>5 DEF Completing
      <3> QED BY <1>1, <1>2, <3>1, <3>2
    <2> QED BY <1>4, <1>10, <2>1, <2>2
  <1> QED BY <1>9, <1>10

(* The answer to an offer to close, and the secret that answers it.        *)
LEMMA OwnCloseAccept ==
    ASSUME NEW p \in Party, Effect(p)
    PROVE  CloseAcceptSent(p)' /\ CloseConfirmSent(p)'
  <1> DEFINE q == Other(p)
             A == {"CloseAccept"}
             C == {"CloseConfirm"}
  <1>1. /\ TypeInv /\ NetInv /\ PartyStep(p) /\ q \in Party /\ Other(q) = p /\ sub'[q] = sub[q]
        /\ ready'[q] = ready[q] /\ given'[q] = given[q]
        /\ CloseAcceptSent(p) /\ CloseConfirmSent(p)
    BY DEF Effect, MergeOf
  <1>2. PICK m \in Message :
          /\ Says(p, m)
          /\ m.type = "CloseAccept" =>
               ready[p] /\ sub[p].st = "CloseOffered" /\ sub'[p].st = "CloseAccepted"
    BY <1>1, StepSays
  <1>3. TakesOrNot(p) /\ "CloseConfirm" \in C
    BY <1>2 DEF Says
  <1>4. /\ One(net[p], C) => One(net'[p], C)
        /\ Has(net'[p], C) => Has(net[p], C)
        /\ One(net[p], C) /\ Got(p, "CloseConfirm") => ~Has(net'[p], C)
    BY <1>1, <1>3, TakesOne
  <1>5. /\ Has(net'[q], A) => Has(net[q], A) \/ m.type = "CloseAccept"
        /\ One(net[q], A) /\ (m.type = "CloseAccept" => ~Has(net[q], A)) => One(net'[q], A)
    <2>1. m.type \in A <=> m.type = "CloseAccept"
      OBVIOUS
    <2> QED BY <1>1, <1>2, <2>1, SaysOne
  <1>6. ready'[p] = ready[p] \/ ready'[p]
    BY <1>1, StepFrame
  <1>7. Got(p, "CloseConfirm") => Has(net[p], C)
    <2>1. Got(p, "CloseConfirm") => Head(net[p]) \in Msgs(p) /\ Head(net[p]).type = "CloseConfirm"
      BY <1>1, <1>3, TakesMsgs DEF Got
    <2> QED BY <2>1 DEF Has, Msgs
  <1>8. Accepter(p) /\ Merges(p) => Got(p, "CloseConfirm")
    BY DEF Accepter, Merges
  <1>9. ~Settled(p)' => ~Settled(p)
    BY <1>1, StaysSettled
  <1>10. ~Settled(p)' /\ Accepter(p) /\ ~Merges(p) => Accepter(p)'
    BY <1>1, StaysAccepter
  <1>11. ~Merges(p) => Count(p)' = Count(p)
    BY DEF Effect
  <1> HIDE DEF q, A, C
  <1>12. sub[p].st = "CloseOffered" => ~Accepter(p)
    BY DEF Accepter
  <1>13. ASSUME ~Settled(p)', ~Settled(q)
         PROVE  /\ One(net'[q], A)
                /\ Has(net'[q], A) => Accepter(p)' /\ ~Has(net'[p], C)
                /\ Has(net'[p], C) => ready[q]
    <2>1. /\ One(net[q], A)
          /\ Has(net[q], A) => Accepter(p) /\ ~Has(net[p], C)
          /\ Has(net[p], C) => ready[q] /\ Accepter(p)
      BY <1>1, <1>9, <1>13 DEF CloseAcceptSent, CloseConfirmSent, q, A, C
    <2>2. m.type = "CloseAccept" => ~Has(net[q], A) /\ ~Has(net[p], C) /\ Accepter(p)'
      BY <1>2, <1>6, <1>12, <2>1 DEF Accepter
    <2>3. Has(net[q], A) => Accepter(p)'
      BY <1>7, <1>8, <1>10, <1>13, <2>1
    <2> QED BY <1>4, <1>5, <2>1, <2>2, <2>3
  <1>14. CloseAcceptSent(p)'
    <2>1. Settled(q)' <=> Settled(q)
      BY <1>1 DEF Settled
    <2> QED BY <1>1, <1>13, <2>1 DEF CloseAcceptSent, q, A, C
  <1>15. ASSUME ~Settled(p)'
         PROVE  /\ One(net'[p], C)
                /\ Has(net'[p], C) => /\ Accepter(p)' /\ Count(p)' \in given[q]
                                      /\ sub[q].st = "CloseConfirmed" \/ Closed(q)
    <2>1. /\ One(net[p], C)
          /\ Has(net[p], C) => /\ Accepter(p) /\ Count(p) \in given[q]
                               /\ sub[q].st = "CloseConfirmed" \/ Closed(q)
      BY <1>1, <1>9, <1>15 DEF CloseConfirmSent, q, C
    <2> QED BY <1>4, <1>8, <1>10, <1>11, <1>15, <2>1
  <1>16. CloseConfirmSent(p)'
    <2>1. Closed(q)' <=> Closed(q)
      BY <1>1 DEF Closed
    <2> QED BY <1>1, <1>15, <2>1 DEF CloseConfirmSent, q, C
  <1> QED BY <1>14, <1>16

LEMMA PeerCloseAccept ==
    ASSUME NEW p \in Party, Effect(p)
    PROVE  CloseAcceptSent(Other(p))'
  <1> DEFINE q == Other(p)
             A == {"CloseAccept"}
             C == {"CloseConfirm"}
  <1>1. /\ TypeInv /\ NetInv /\ PartyStep(p) /\ q \in Party /\ Other(q) = p /\ sub'[q] = sub[q]
        /\ ready'[q] = ready[q] /\ CloseAcceptSent(q)
    BY DEF Effect, MergeOf
  <1>2. PICK m \in Message : Says(p, m) /\ (m.type = "CloseConfirm" => Discloses(p))
    BY <1>1, StepSays
  <1>3. TakesOrNot(p)
    BY <1>2 DEF Says
  <1>4. /\ One(net[p], A) => One(net'[p], A)
        /\ Has(net'[p], A) => Has(net[p], A)
    BY <1>1, <1>3, TakesOne
  <1>5. Has(net'[q], C) => Has(net[q], C) \/ m.type = "CloseConfirm"
    <2>1. m.type \in C <=> m.type = "CloseConfirm"
      OBVIOUS
    <2> QED BY <1>1, <1>2, <2>1, SaysOne
  <1>6. ready[p] => ready'[p]
    BY <1>1, StepFrame
  <1>7. ~Settled(p)' => ~Settled(p)
    BY <1>1, StaysSettled
  <1>8. Discloses(p) => ready[p] /\ (~Settled(q) => ~Has(net'[p], A))
    BY DisclosesNow DEF Discloses
  <1>9. /\ Settled(q)' <=> Settled(q)
        /\ Accepter(q)' <=> Accepter(q)
    BY <1>1 DEF Settled, Accepter
  <1> HIDE DEF q, A, C
  <1>10. ASSUME ~Settled(p)', ~Settled(q)
         PROVE  /\ One(net'[p], A)
                /\ Has(net'[p], A) => Accepter(q) /\ ~Has(net'[q], C)
                /\ Has(net'[q], C) => ready'[p]
    <2>1. /\ One(net[p], A)
          /\ Has(net[p], A) => Accepter(q) /\ ~Has(net[q], C)
          /\ Has(net[q], C) => ready[p]
      BY <1>1, <1>7, <1>10 DEF CloseAcceptSent, A, C
    <2> QED BY <1>2, <1>4, <1>5, <1>6, <1>8, <1>10, <2>1
  <1>11. CloseAcceptSent(q)'
    BY <1>1, <1>9, <1>10 DEF CloseAcceptSent, A, C
  <1> QED BY <1>11 DEF q

LEMMA PeerCloseConfirm ==
    ASSUME NEW p \in Party, Effect(p), Trades(p)
    PROVE  CloseConfirmSent(Other(p))'
  <1> DEFINE q == Other(p)
             C == {"CloseConfirm"}
  <1>1. /\ TypeInv /\ NetInv /\ PartyStep(p) /\ q \in Party /\ Other(q) = p /\ sub'[q] = sub[q]
        /\ Count(p) \in Nat /\ Count(q) \in Nat /\ Count(q)' = Count(q)
        /\ given[p] \subseteq given'[p] /\ ready'[q] = ready[q]
        /\ CloseAcceptSent(q) /\ CloseConfirmSent(q) /\ Level(p) /\ Level(q)
    BY DEF Effect, MergeOf
  <1>2. PICK m \in Message : Says(p, m) /\ (m.type = "CloseConfirm" => Discloses(p))
    BY <1>1, StepSays
  <1>3. /\ Has(net'[q], C) => Has(net[q], C) \/ m.type = "CloseConfirm"
        /\ One(net[q], C) /\ (m.type = "CloseConfirm" => ~Has(net[q], C)) => One(net'[q], C)
    <2>1. m.type \in C <=> m.type = "CloseConfirm"
      OBVIOUS
    <2> QED BY <1>1, <1>2, <2>1, SaysOne
  <1>4. Discloses(p) => /\ sub[p].st = "CloseOffered" /\ sub'[p].st = "CloseConfirmed"
                        /\ ~Settled(q) => Accepter(q) /\ ~Has(net[q], C)
    BY DisclosesNow DEF Discloses
  <1>5. Discloses(p) => Count(p) \in given'[p]
    <2>1. given \in [Party -> SUBSET Nat]
      BY <1>1 DEF TypeInv, TypeOK
    <2>2. Discloses(p) => Adds(p)
      BY DisclosesAdds
    <2> QED BY <2>1, <2>2 DEF Adds
  <1>6. Accepter(q) => Count(q) <= Count(p)
    BY <1>1 DEF Accepter, Level, SplitStates
  <1>7. Merges(p) => Count(p) < Count(q) \/ sub[p].st # "CloseConfirmed"
    <2>1. SUFFICES ASSUME Merges(p), sub[p].st = "CloseConfirmed"
                   PROVE  Count(p) < Count(q)
      OBVIOUS
    <2>2. /\ Takes(p) /\ Head(net[p]).type = "CloseFinalize"
          /\ Head(net[p]).point = CounterPoint(p, sub[p].split)
      BY <2>1 DEF Merges, Got
    <2>3. Head(net[p]) \in Msgs(p)
      BY <1>1, <2>2, TakesMsgs DEF TakesOrNot
    <2>4. Head(net[p]).point \in LastSecrets(q) /\ LastOfClose(p)
      BY <1>1, <2>2, <2>3 DEF LastSecrets, Effect, MergeOf
    <2> QED BY <2>1, <2>2, <2>4 DEF LastOfClose, SplitStates
  <1>8. /\ Settled(q)' <=> Settled(q)
        /\ Accepter(q)' <=> Accepter(q)
    BY <1>1 DEF Settled, Accepter
  <1> HIDE DEF q, C
  <1>9. ASSUME ~Settled(q)
        PROVE  /\ One(net'[q], C)
               /\ Has(net'[q], C) => /\ Accepter(q) /\ Count(q) \in given'[p]
                                     /\ sub'[p].st = "CloseConfirmed" \/ Closed(p)'
    <2>1. /\ One(net[q], C)
          /\ Has(net[q], C) => /\ Accepter(q) /\ Count(q) \in given[p]
                               /\ sub[p].st = "CloseConfirmed" \/ Closed(p)
      BY <1>1, <1>9 DEF CloseConfirmSent, C
    <2>2. One(net'[q], C)
      BY <1>2, <1>3, <1>4, <1>9, <2>1
    <2>3. CASE Has(net[q], C)
      <3>1. ~Merges(p)
        <4>1. SUFFICES ASSUME Merges(p)
                       PROVE  FALSE
          OBVIOUS
        <4>2. ~Closed(p)
          BY <4>1 DEF Merges, Closed, SettledStates
        <4>3. Count(p) < Count(q) /\ Count(q) <= Count(p)
          BY <1>6, <1>7, <2>1, <2>3, <4>1, <4>2
        <4> QED BY <1>1, <4>3
      <3>2. sub[p].st = "CloseConfirmed" => ready[p]
        BY <1>1, <1>9, <2>3 DEF CloseAcceptSent, Settled, SettledStates, C
      <3>3. sub'[p].st = "CloseConfirmed" \/ Closed(p)'
        <4>1. sub[p].st = "CloseConfirmed" => ~Returns(p)
          BY <1>1, <3>2, ReturningUnready
        <4> QED BY <1>1, <2>1, <2>3, <3>1, <4>1, StaysConfirmed, StaysMerging
      <3> QED BY <1>1, <2>1, <2>2, <2>3, <3>3
    <2>4. CASE Discloses(p)
      <3>1. Accepter(q) /\ sub'[p].st = "CloseConfirmed"
        BY <1>4, <1>9, <2>4
      <3>2. Count(p) <= Count(q)
        BY <1>4, <1>1, <2>4 DEF Level, SplitStates, q
      <3>3. Count(p) = Count(q)
        BY <1>1, <1>6, <3>1, <3>2
      <3> QED BY <1>5, <2>2, <2>4, <3>1, <3>3
    <2> QED BY <1>2, <1>3, <2>2, <2>3, <2>4
  <1>10. CloseConfirmSent(q)'
    BY <1>1, <1>8, <1>9 DEF CloseConfirmSent, C
  <1> QED BY <1>10 DEF q

-----------------------------------------------------------------------------
LEMMA MergeTrade ==
    ASSUME MergeInv, NEW p \in Party, Trades(p)
    PROVE  \A x \in Party : MergeOf(x)'
  <1> DEFINE q == Other(p)
  <1>1. Effect(p) /\ AgreeInv /\ \A x \in Party : x = p \/ x = q
    BY Effects, Others DEF MergeInv
  <1>2. /\ FreshIndex(p)' /\ Paid(p)' /\ Ahead(p)' /\ Level(p)' /\ Attended(p)' /\ Asked(p)'
        /\ BackTogether(p)' /\ LastOfClose(p)'
        /\ FreshIndex(q)' /\ Paid(q)' /\ Ahead(q)' /\ Level(q)' /\ Attended(q)' /\ Asked(q)'
        /\ BackTogether(q)' /\ LastOfClose(q)'
    BY <1>1, IndexStep, PaidStep, AheadStep, LevelStep, AttendedStep, AskedStep,
       BackTogetherStep, LastOfCloseStep
  <1>3. /\ CloseAcceptSent(p)' /\ CloseConfirmSent(p)'
        /\ CloseAcceptSent(q)' /\ CloseConfirmSent(q)'
    BY <1>1, OwnCloseAccept, PeerCloseAccept, PeerCloseConfirm
  <1>4. Completing("Confirm", "Accepted") /\ Completing("Finalize", "Confirmed")
    BY DEF Completing
  <1>5. /\ Completes(p, "Confirm", "Accepted") /\ Completes(p, "Finalize", "Confirmed")
        /\ Completes(q, "Confirm", "Accepted") /\ Completes(q, "Finalize", "Confirmed")
    BY <1>1 DEF Effect, MergeOf
  <1>6. /\ Completes(p, "Confirm", "Accepted")' /\ Completes(p, "Finalize", "Confirmed")'
        /\ Completes(q, "Confirm", "Accepted")' /\ Completes(q, "Finalize", "Confirmed")'
    BY <1>1, <1>4, <1>5, OwnCompletes, PeerCompletes
  <1>7. MergeOf(p)'
    BY <1>2, <1>3, <1>6 DEF MergeOf
  <1> HIDE DEF q
  <1>8. MergeOf(q)'
    BY <1>2, <1>3, <1>6 DEF MergeOf
  <1> QED BY <1>1, <1>7, <1>8

LEMMA MergeLink ==
    ASSUME MergeInv, Drops \/ Greets, UNCHANGED given, NEW p \in Party
    PROVE  MergeOf(p)'
  <1> DEFINE q == Other(p)
  <1>1. UNCHANGED sub /\ \A x \in Party : Left(x)' \subseteq Left(x)
    BY DEF Drops, Greets
  <1>2. \A x \in Party : \A m \in Msgs(x)' :
          m.type = "Reestablish" /\ m.flag = GetReestablishFlag(sub[Other(x)])
    BY LinkMsgs
  <1>3. /\ q \in Party /\ Other(q) = p /\ MergeOf(p) /\ MergeOf(q)
    BY Others DEF MergeInv
  <1>4. /\ Count(p)' = Count(p) /\ Count(q)' = Count(q)
        /\ Closed(p)' = Closed(p) /\ Closed(q)' = Closed(q)
    BY <1>1 DEF Count, Closed
  <1>5. FreshIndex(p)' /\ Paid(p)' /\ Ahead(p)' /\ Level(p)'
    BY <1>1, <1>3, <1>4 DEF MergeOf, FreshIndex, Paid, Ahead, Level
  <1>6. Merged(p)' = Merged(p) /\ Merged(q)' = Merged(q) /\ Attended(p)'
    BY <1>1, <1>3, <1>4 DEF MergeOf, Merged, Attended
  <1> HIDE DEF q
  <1>7. Asked(p)'
    <2>1. Asks(p, "CloseConfirmed")' => sub[q].st = "CloseConfirmed"
      BY <1>2 DEF Asks, GetReestablishFlag, q
    <2>2. Attended(q)
      BY <1>3 DEF MergeOf
    <2> QED BY <1>1, <1>3, <1>6, <2>1, <2>2 DEF Asked, Attended, q
  <1>8. BackTogether(p)'
    <2>1. TakesBack(p)' => sub[q].st = "CloseAccepted"
      BY <1>2 DEF TakesBack, GetReestablishFlag, q
    <2>2. Level(q)
      BY <1>3 DEF MergeOf
    <2>3. sub[q].st = "CloseAccepted" => Count(q) <= Count(p)
      BY <1>3, <2>2 DEF Level, SplitStates
    <2> QED BY <1>1, <1>3, <1>4, <2>1, <2>3 DEF BackTogether, Unmerged, q
  <1>9. LastSecrets(q)' \subseteq LastSecrets(q)
    BY <1>1, <1>2, <1>3 DEF LastSecrets
  <1>10. LastOfClose(p)'
    BY <1>1, <1>3, <1>4, <1>9 DEF MergeOf, LastOfClose, q
  <1>11. \A x \in Party : \A T : "Reestablish" \notin T =>
           One(net'[x], T) /\ ~Has(net'[x], T)
    BY <1>2 DEF One, Has, Msgs
  <1>12. Completes(p, "Confirm", "Accepted")' /\ Completes(p, "Finalize", "Confirmed")'
    BY <1>2, <1>11 DEF Completes
  <1>13. CloseAcceptSent(p)' /\ CloseConfirmSent(p)'
    BY <1>3, <1>11 DEF CloseAcceptSent, CloseConfirmSent, q
  <1> QED BY <1>5, <1>6, <1>7, <1>8, <1>10, <1>12, <1>13 DEF MergeOf

LEMMA MergeInit == Init => MergeInv
  <1> SUFFICES ASSUME Init
               PROVE  MergeInv
    OBVIOUS
  <1>1. \A p \in Party : /\ net[p] = <<>> /\ sub[p].st = "None" /\ sub[p].secrets = {}
                         /\ Count(p) = 0 /\ Other(p) \in Party
    BY Others, FS_EmptySet DEF Init, NoSubChannel, Count, Closes
  <1>2. ASSUME NEW p \in Party
        PROVE  MergeOf(p)
    <2>1. FreshIndex(p) /\ Paid(p) /\ Ahead(p) /\ Level(p)
      BY <1>1 DEF FreshIndex, Paid, Ahead, Level, SplitStates
    <2>2. Msgs(p) = {}
      BY <1>1 DEF Msgs
    <2>3. Attended(p) /\ Asked(p) /\ BackTogether(p) /\ LastOfClose(p)
      BY <1>1, <2>2 DEF Attended, Asked, Asks, BackTogether, TakesBack, LastOfClose, SplitStates
    <2>4. Completes(p, "Confirm", "Accepted") /\ Completes(p, "Finalize", "Confirmed")
      BY <1>1, <2>2, EmptyNet DEF Completes
    <2>5. CloseAcceptSent(p) /\ CloseConfirmSent(p)
      BY <1>1, EmptyNet DEF CloseAcceptSent, CloseConfirmSent
    <2> QED BY <2>1, <2>3, <2>4, <2>5 DEF MergeOf
  <1> QED BY <1>2, AgreeInit DEF MergeInv

LEMMA MergeNext ==
    ASSUME MergeInv, [Next]_vars
    PROVE  MergeInv'
  <1>1. AgreeInv' /\ TypeInv
    BY AgreeStep DEF MergeInv, AgreeInv
  <1>2. \A p \in Party : MergeOf(p)'
    BY <1>1, TradeKinds, MergeTrade, MergeLink
  <1> QED BY <1>1, <1>2 DEF MergeInv

(* What a step is in the exchange.                                         *)
Counts == [p \in Party |-> Closes(sub[p])]
LEMMA TradeExchanges ==
    ASSUME MergeInv, NEW p \in Party, Trades(p)
    PROVE  Exchange!Next \/ UNCHANGED <<Counts, given>>
  <1> DEFINE q == Other(p)
  <1>1. Effect(p) /\ q \in Party /\ q # p /\ \A x \in Party : x = p \/ x = q
    BY Effects, Others
  <1>2. /\ Counts[p] = Count(p) /\ Counts'[p] = Count(p)' /\ Counts'[q] = Counts[q]
        /\ Counts = [x \in Party |-> Counts[x]] /\ Counts' = [x \in Party |-> Counts'[x]]
    BY <1>1 DEF Counts, Count, Effect
  <1>3. Party = Exchange!Party /\ Exchange!Other(p) = q
    BY DEF Party, Exchange!Party, Other, Exchange!Other
  <1>4. Adds(p) => Exchange!Give(p)
    BY <1>2 DEF Adds, Exchange!Give, Count
  <1>5. ASSUME ~Merges(p)
        PROVE  UNCHANGED Counts
    <2>1. Counts'[p] = Counts[p]
      BY <1>1, <1>2, <1>5 DEF Effect
    <2> QED BY <1>1, <1>2, <2>1
  <1>6. ASSUME Merges(p)
        PROVE  Exchange!MoveOn(p)
    <2>1. Counts'[p] = Counts[p] + 1
      BY <1>1, <1>2, <1>6 DEF Effect
    <2>2. Counts' = [Counts EXCEPT ![p] = Counts[p] + 1]
      BY <1>1, <1>2, <2>1
    <2>3. Counts[p] \in given[q]
      BY <1>1, <1>2, <1>6, MergeLevel
    <2> QED BY <1>3, <2>2, <2>3 DEF Exchange!MoveOn, Counts
  <1>7. CASE UNCHANGED given /\ PlainStep(p)
    BY <1>5, <1>7, PlainApart
  <1>8. CASE Adds(p) /\ Discloses(p)
    BY <1>3, <1>4, <1>5, <1>8, PlainApart DEF Exchange!Next, Counts
  <1>9. CASE Adds(p) /\ MergesFirst(p)
    BY <1>3, <1>4, <1>6, <1>9 DEF Exchange!Next, MergesFirst
  <1>10. CASE UNCHANGED given /\ MergesLast(p)
    <2>1. Merges(p) /\ Counts[p] \in given[p]
      BY <1>1, <1>2, <1>10 DEF MergesLast, Effect, MergeOf, Paid
    <2> QED BY <1>3, <1>6, <1>10, <2>1 DEF Exchange!Next, Counts
  <1> QED BY <1>7, <1>8, <1>9, <1>10 DEF Trades

(* Merging back is a fair exchange of split secrets: a party counts a      *)
(* close, and stores the peer's secret, only when its peer has given the   *)
(* secret of this very close and it has given, or gives, its own; through  *)
(* lost and resent messages, a party that on_channel_reestablish takes     *)
(* back from CloseConfirmed, and closing on chain at any time.             *)
THEOREM MergesFair == Spec => FairClose
  <1>1. Init => Exchange!Init
    BY FS_EmptySet DEF Init, NoSubChannel, Closes, Exchange!Init, Exchange!Party, Party
  <1>2. MergeInv /\ [Next]_vars =>
          [Exchange!Next]_<<[p \in Party |-> Closes(sub[p])], given>>
    <2>1. SUFFICES ASSUME MergeInv, [Next]_vars
                   PROVE  Exchange!Next \/ UNCHANGED <<Counts, given>>
      BY DEF Counts
    <2>2. CASE (Drops \/ Greets) /\ UNCHANGED given
      BY <2>2 DEF Counts, Drops, Greets
    <2>3. TypeInv
      BY <2>1 DEF MergeInv, AgreeInv
    <2> QED BY <2>1, <2>2, <2>3, TradeKinds, TradeExchanges
  <1> QED BY <1>1, <1>2, MergeInit, MergeNext, PTL DEF Spec, FairClose, Exchange!Spec
=============================================================================
