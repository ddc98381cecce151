------------------------------ MODULE SubChannel ------------------------------
(***************************************************************************)
(* A DLC channel embedded in a Lightning channel, seen by both parties:    *)
(* the protocol that splits the Lightning channel, the one that merges it  *)
(* back off chain, rejections, the recovery run when two peers reconnect,  *)
(* forced closing, and the watch on the split transaction.                 *)
(*                                                                         *)
(* Sources: dlc-manager/src/sub_channel_manager.rs, subchannel/mod.rs,     *)
(* dlc/src/channel/sub_channel.rs, dlc-messages/src/sub_channel.rs.        *)
(*                                                                         *)
(* update_idx counts down in the code; here split n stands for             *)
(* INITIAL_SPLIT_NUMBER - n + 1.  A per-split point and the secret behind  *)
(* it are named by their owner and index.  The split transaction is named  *)
(* by the two points its scripts come from, and a signature by what it     *)
(* signs.  The Lightning channel manager (LDK) is external: what is kept   *)
(* of it is whether the channel is open and which output its commitment    *)
(* transactions spend, "fund", "glue", or "split" (the output the glue     *)
(* transaction spends).                                                    *)
(*                                                                         *)
(* A definition M_X is a mutation of the one after it, a bug the code      *)
(* could have there; the properties are tested by putting it in its place. *)
(***************************************************************************)
EXTENDS Naturals, Sequences, FiniteSets

CONSTANTS Alice, Bob,
          Offering,         \* the parties whose application makes offers
          Calls,            \* per party: other calls its application makes
          TotalCollateral,  \* collateral of the DLC channel
          MaxSplits,        \* bound: no sub channel is offered past this one
          MaxDisconnects,   \* bound: times the peers lose their connection
          MaxRestarts       \* bound: times a node is restarted

CallNames == {"reject", "close", "force", "ldk", "cheat"}

ASSUME SubChannelAssumption ==
    /\ Alice # Bob
    /\ Offering \subseteq {Alice, Bob}
    /\ Calls \in [{Alice, Bob} -> SUBSET CallNames]
    /\ TotalCollateral \in Nat
    /\ MaxSplits \in Nat \ {0}
    /\ MaxDisconnects \in Nat
    /\ MaxRestarts \in Nat

Party == {Alice, Bob}
Other(p) == IF p = Alice THEN Bob ELSE Alice

-----------------------------------------------------------------------------
(* Data.                                                                   *)

(* No party offers past MaxSplits, but a resent offer makes its receiver   *)
(* count a split twice, see torn below.                                    *)
Index == Nat
Point == Party \X Index
Split == [offer : Point, accept : Point]
NoPoint == <<Alice, 0>>
NoSplit == [offer |-> NoPoint, accept |-> NoPoint]

StateName == {"None", "Offered", "Accepted", "Confirmed", "Finalized",
              "Signed", "Closing", "OnChainClosed", "CounterOnChainClosed",
              "CloseOffered", "CloseAccepted", "CloseConfirmed",
              "OffChainClosed", "ClosedPunished", "Rejected"}

(* A SubChannel with its SubChannelState.  balance is accept_balance in    *)
(* CloseOffered and own_balance from then on; the other one is the rest of *)
(* the collateral.  commits says if commitment transactions were saved.    *)
SubChannelRecord ==
    [st : StateName, isOffer : BOOLEAN, idx : Index,
     basePoints : BOOLEAN,        \* counter_base_points is set
     point : Point,               \* OfferedSubChannel.per_split_point
     split : Split,
     ours : BOOLEAN,              \* CloseOfferedSubChannel.is_offer
     balance : 0 .. TotalCollateral,
     checkLnSecret : BOOLEAN, isInitiator : BOOLEAN, commits : BOOLEAN,
     secrets : SUBSET (Index \X Point)]   \* counter_party_secrets
NoSubChannel ==
    [st |-> "None", isOffer |-> FALSE, idx |-> 0, basePoints |-> FALSE,
     point |-> NoPoint, split |-> NoSplit, ours |-> FALSE, balance |-> 0,
     checkLnSecret |-> FALSE, isInitiator |-> FALSE, commits |-> FALSE,
     secrets |-> {}]

(* The states whose name a node puts in its channel_reestablish.           *)
ReestablishFlag == {"Offered", "Accepted", "Confirmed", "Finalized", "Signed",
                    "CloseOffered", "CloseAccepted", "CloseConfirmed",
                    "OffChainClosed"}
M_FlagOfEveryState(s) == s.st
GetReestablishFlag(s) == IF s.st \in ReestablishFlag THEN s.st ELSE "none"

(* The stored DLC channel and its contract: "Signed" is a signed channel   *)
(* whose contract is Signed, "Confirmed" one whose contract is Confirmed.  *)
DlcState == {"None", "Offered", "Accepted", "Signed", "Confirmed", "Closing",
             "Closed", "CounterClosed", "CollaborativelyClosed"}

MessageType == {"Offer", "Accept", "Confirm", "Finalize", "Revoke",
                "CloseOffer", "CloseAccept", "CloseConfirm", "CloseFinalize",
                "Reject", "Reestablish"}
(* point: the sender's point or the secret behind one; split: the          *)
(* transaction the signatures are for; lnSecret: commit_revocation_secret  *)
(* is present; flag: sub_channel_state of a reestablish.                   *)
Message == [type : MessageType, point : Point, split : Split,
            balance : 0 .. TotalCollateral, lnSecret : BOOLEAN,
            flag : ReestablishFlag \cup {"none"}]
Msg(type) == [type |-> type, point |-> NoPoint, split |-> NoSplit,
              balance |-> 0, lnSecret |-> FALSE, flag |-> "none"]

(* Action: what is left to do for the peer after a reconnection.           *)
Action == [type : {"ResendOffer", "ReAccept", "ForceSign", "ResendCloseOffer",
                   "ReAcceptCloseOffer", "ResendCloseFinalize"},
           point : Point, balance : 0 .. TotalCollateral]
Act(type, point, balance) ==
    [type |-> type, point |-> point, balance |-> balance]

WatchEntry == [split : Split, type : {"SplitTx", "Revoked"}, idx : Index]

(* What can spend the output that funds the Lightning channel.             *)
Spend == {[kind |-> "none", by |-> Alice, split |-> NoSplit]} \cup
         [kind : {"commit", "split"}, by : Party, split : Split]
NoSpend == [kind |-> "none", by |-> Alice, split |-> NoSplit]
CommitBy(p) == [kind |-> "commit", by |-> p, split |-> NoSplit]
SplitBy(p, t) == [kind |-> "split", by |-> p, split |-> t]
(* The outputs of a confirmed split transaction are locked for             *)
(* CET_NSEQUENCE blocks, then spent by the glue transaction; at any time   *)
(* before that they can be spent as a punishment.                          *)
OutputState == {"locked", "free", "glued", "punished"}

-----------------------------------------------------------------------------
VARIABLES
    sub,       \* the stored SubChannel of each party
    dlc,       \* the DLC channel get_dlc_channel_id names
    ln,        \* LDK: is the channel open, and which output it is funded by
    watch,     \* chain monitor: watched split transactions
    actions,   \* SubChannelManager.actions
    stored,    \* the actions as last saved
    net,       \* messages on their way to each party, in order
    conn,      \* the peers are connected
    ready,     \* the peer's channel_reestablish was handled
    event,     \* LDK's ChannelClosed event not handled yet
    mempool, spent,  \* transactions broadcast, and the one confirmed
    outputs,   \* those of a confirmed split: see OutputState
    used,      \* what the bounds count
    given,     \* history: closes whose split secret each party sent
    held,      \* history: splits each party got the peer's signature for
    torn       \* history: see Torn

subVars == <<sub, dlc>>
chainVars == <<mempool, spent, outputs>>
actVars == <<actions, stored>>
historyVars == <<given, held, torn>>
vars == <<sub, dlc, ln, watch, actions, stored, net, conn, ready, event,
          mempool, spent, outputs, used, given, held, torn>>

Init ==
    /\ sub = [p \in Party |-> NoSubChannel]
    /\ dlc = [p \in Party |-> "None"]
    /\ ln = [p \in Party |-> [open |-> TRUE, out |-> "fund"]]
    /\ watch = [p \in Party |-> {}]
    /\ actions = [p \in Party |-> <<>>]
    /\ stored = [p \in Party |-> <<>>]
    /\ net = [p \in Party |-> <<>>]
    /\ conn = TRUE
    /\ ready = [p \in Party |-> TRUE]
    /\ event = [p \in Party |-> "none"]
    /\ mempool = {}
    /\ spent = NoSpend
    /\ outputs = "locked"
    /\ used = [disconnects |-> 0, restarts |-> 0]
    /\ given = [p \in Party |-> {}]
    /\ held = [p \in Party |-> {}]
    /\ torn = FALSE

-----------------------------------------------------------------------------
(* Building blocks.                                                        *)

In(p, st) == sub[p].st = st
Usable(p) == conn /\ ready[p] /\ ln[p].open
Received(p, type) == net[p] # <<>> /\ Head(net[p]).type = type
(* A message is lost when there is no connection to send it on.            *)
Send(p, m) ==
    net' = IF conn THEN [net EXCEPT ![Other(p)] = Append(@, m)] ELSE net
Consume(p) == net' = [net EXCEPT ![p] = Tail(@)]
Reply(p, m) ==
    net' = [net EXCEPT ![p] = Tail(@), ![Other(p)] = Append(@, m)]

SetSub(p, s) == sub' = [sub EXCEPT ![p] = s]
SetDlc(p, d) == dlc' = [dlc EXCEPT ![p] = d]
SetOut(p, o) == ln' = [ln EXCEPT ![p].out = o]
M_AddWatchOnly(p, e) == watch' = [watch EXCEPT ![p] = {e}]
AddWatch(p, e) ==
    watch' = [watch EXCEPT ![p] = {x \in @ : x.split # e.split} \cup {e}]
Push(p, list) ==
    /\ actions' = [actions EXCEPT ![p] = @ \o list]
    /\ stored' = [stored EXCEPT ![p] = actions[p] \o list]

Pending(p, type) == \E i \in 1 .. Len(actions[p]) : actions[p][i].type = type

(* The point of split n, derived from the party's seed.                    *)
PerSplitPoint(p, n) == <<p, n>>
(* The points of a split transaction that belong to p.                     *)
OwnPoint(p, t) == IF t.offer[1] = p THEN t.offer ELSE t.accept
CounterPoint(p, t) == IF t.offer[1] = p THEN t.accept ELSE t.offer

(* CounterpartyCommitmentSecrets::provide_secret (LDK): an even index is   *)
(* checked against the odd one stored before it, and both must be what     *)
(* their owner derives at these indices.                                   *)
ProvideSecretOk(s, pt) ==
    s.idx % 2 = 0 =>
      \A e \in s.secrets : e[1] + 1 = s.idx => pt[2] = s.idx /\ e[2][2] = e[1]
M_StoreNoSecret(s, pt) == s.secrets
M_StoreSecretForNextToo(s, pt) ==
    s.secrets \cup {<<s.idx, pt>>, <<s.idx + 1, pt>>}
StoreSecret(s, pt) ==
    {e \in s.secrets : e[1] # s.idx} \cup {<<s.idx, pt>>}
Closes(s) == Cardinality(s.secrets)
Gives(p) == given' = [given EXCEPT ![p] = @ \cup {Closes(sub[p])}]

Holds(p, t) == held' = [held EXCEPT ![p] = @ \cup {t}]

(* torn records that a hole of the recovery was hit: the connection is     *)
(* lost between the handling of the two reestablish messages (one side     *)
(* stays unrepaired); an offer is made before the recovery is over (it is  *)
(* sent twice, or overtakes a resent message); an offer is answered while  *)
(* the action that accepts it again is pending, or a restart brings back   *)
(* actions already done (the stale action accepts a later offer); a        *)
(* rejection is lost (only one side counts the resent offer); Revoke is    *)
(* lost and its sender has offered to close (the other side, still         *)
(* Finalized, rolls the split back); the peers reconnect while a message   *)
(* of the last reconnection is still to be sent again, or a split still to *)
(* be marked as signed (it is done twice; the second ForceSign waits until *)
(* it marks a later split, which is Finalized only).                       *)
RepeatPending(p) ==
    \E type \in {"ResendOffer", "ResendCloseOffer", "ResendCloseFinalize",
                 "ForceSign"} : Pending(p, type)
Torn(hole) == torn' = (torn \/ hole)
Recovering(p) == ~ready[p] \/ actions[p] # <<>>

-----------------------------------------------------------------------------
(* Splitting the Lightning channel.                                        *)

NextIdx(s) == s.idx + 1
CanOffer(s) == s.st \in {"None", "OffChainClosed", "Rejected"}

(* per_split_seed is set by the own first offer or acceptance.  A record   *)
(* made for an offer that was received and rejected has none, and the      *)
(* next offer panics.                                                      *)
HasSeed(s) == s.st = "None" \/ ~s.basePoints \/ s.split # NoSplit

OfferSubChannel(p) ==
    LET s == sub[p]
        n == NextIdx(s)
        s2 == [s EXCEPT !.st = "Offered", !.isOffer = TRUE, !.idx = n,
                        !.point = PerSplitPoint(p, n)]
    IN /\ ln[p].open
       /\ CanOffer(s)
       /\ HasSeed(s)
       /\ n <= MaxSplits
       /\ SetSub(p, s2)
       /\ SetDlc(p, "Offered")
       /\ Send(p, [Msg("Offer") EXCEPT !.point = s2.point])
       /\ Torn(Recovering(p))
       /\ UNCHANGED <<ln, watch, actVars, conn, ready, event, chainVars, used,
                      given, held>>

(* Only a sub channel that did not exist yet gets the offerer's base       *)
(* points.                                                                 *)
CanReceiveOffer(p) == ln[p].open /\ CanOffer(sub[p])
OnSubchannelOffer(p) ==
    LET s == sub[p] IN
    /\ Received(p, "Offer")
    /\ CanReceiveOffer(p)
    /\ SetSub(p, [s EXCEPT !.st = "Offered", !.isOffer = FALSE,
                           !.idx = NextIdx(s), !.point = Head(net[p]).point,
                           !.basePoints = @ \/ s.st = "None"])
    /\ SetDlc(p, "Offered")
    /\ Consume(p)
    /\ UNCHANGED <<ln, watch, actVars, conn, ready, event, chainVars, used,
                   historyVars>>

(* create_split_tx, as the accepting party builds it.                      *)
M_AcceptedSplitOfNext(p, s) ==
    [offer |-> s.point, accept |-> PerSplitPoint(p, NextIdx(s))]
AcceptedSplit(p, s) ==
    [offer |-> s.point, accept |-> PerSplitPoint(p, s.idx)]

(* accept_sub_channel_internal, called by the application or for a         *)
(* ReAccept action.  The funding outpoint of the Lightning channel moves   *)
(* to the glue transaction with the commitment signature for the peer.     *)
(* Without base points the code panics.                                    *)
CanAccept(p) ==
    /\ In(p, "Offered")
    /\ Usable(p)
    /\ sub[p].basePoints
    /\ dlc[p] = "Offered"
AcceptEffect(p) ==
    LET t == AcceptedSplit(p, sub[p]) IN
    /\ SetSub(p, [sub[p] EXCEPT !.st = "Accepted", !.split = t,
                                !.commits = TRUE])
    /\ SetDlc(p, "Accepted")
    /\ SetOut(p, "glue")
    /\ AddWatch(p, [split |-> t, type |-> "SplitTx", idx |-> 0])
    /\ Send(p, [Msg("Accept") EXCEPT !.point = t.accept, !.split = t])

(* The application accepts and rejects the offers it received, never its   *)
(* own (the calls do not check this).                                      *)
AcceptSubChannel(p) ==
    /\ ~sub[p].isOffer
    /\ CanAccept(p)
    /\ AcceptEffect(p)
    /\ Torn(Pending(p, "ReAccept"))
    /\ UNCHANGED <<actVars, conn, ready, event, chainVars, used, given, held>>

(* The split transaction the offering party builds from an Accept.         *)
OfferedSplit(s, m) == [offer |-> s.point, accept |-> m.point]

AcceptValid(s, m) == s.isOffer /\ m.split = OfferedSplit(s, m)

(* The commitment signature of the Accept is verified after the offering   *)
(* party has moved its own funding outpoint, and nothing moves it back.    *)
CanConfirm(p) == In(p, "Offered") /\ Usable(p) /\ dlc[p] = "Offered"
OnSubchannelAccept(p) ==
    LET m == Head(net[p])
        t == OfferedSplit(sub[p], m)
    IN /\ Received(p, "Accept")
       /\ CanConfirm(p)
       /\ AcceptValid(sub[p], m)
       /\ SetSub(p, [sub[p] EXCEPT !.st = "Confirmed", !.split = t,
                                   !.basePoints = TRUE, !.commits = TRUE])
       /\ SetDlc(p, "Signed")
       /\ SetOut(p, "glue")
       /\ AddWatch(p, [split |-> t, type |-> "SplitTx", idx |-> 0])
       /\ Reply(p, [Msg("Confirm") EXCEPT !.split = t])
       /\ UNCHANGED <<actVars, conn, ready, event, chainVars, used,
                      historyVars>>
OnSubchannelAcceptInvalid(p) ==
    /\ Received(p, "Accept")
    /\ CanConfirm(p)
    /\ ~AcceptValid(sub[p], Head(net[p]))
    /\ SetOut(p, "glue")
    /\ Consume(p)
    /\ UNCHANGED <<subVars, watch, actVars, conn, ready, event, chainVars,
                   used, historyVars>>

CanFinalize(p) ==
    /\ Usable(p)
    /\ In(p, "Accepted")
    /\ Head(net[p]).split = sub[p].split
    /\ dlc[p] = "Accepted"
OnSubchannelConfirm(p) ==
    LET s == sub[p] IN
    /\ Received(p, "Confirm")
    /\ CanFinalize(p)
    /\ SetSub(p, [s EXCEPT !.st = "Finalized", !.commits = FALSE])
    /\ SetDlc(p, "Confirmed")
    /\ Reply(p, [Msg("Finalize") EXCEPT !.split = s.split])
    /\ Holds(p, s.split)
    /\ UNCHANGED <<ln, watch, actVars, conn, ready, event, chainVars, used,
                   given, torn>>

CanSign(p) ==
    /\ Usable(p)
    /\ In(p, "Confirmed")
    /\ Head(net[p]).split = sub[p].split
    /\ dlc[p] = "Signed"
OnSubChannelFinalize(p) ==
    LET s == sub[p] IN
    /\ Received(p, "Finalize")
    /\ CanSign(p)
    /\ SetSub(p, [s EXCEPT !.st = "Signed", !.commits = FALSE])
    /\ SetDlc(p, "Confirmed")
    /\ Reply(p, Msg("Revoke"))
    /\ Holds(p, s.split)
    /\ UNCHANGED <<ln, watch, actVars, conn, ready, event, chainVars, used,
                   given, torn>>

CanRevoke(p) == Usable(p) /\ In(p, "Finalized")
OnSubChannelRevoke(p) ==
    /\ Received(p, "Revoke")
    /\ CanRevoke(p)
    /\ SetSub(p, [sub[p] EXCEPT !.st = "Signed"])
    /\ Consume(p)
    /\ UNCHANGED <<dlc, ln, watch, actVars, conn, ready, event, chainVars,
                   used, historyVars>>

(* reject_sub_channel_offer and the rejection of an offer to close.        *)
RejectSubChannelOffer(p) ==
    /\ "reject" \in Calls[p]
    /\ In(p, "Offered") /\ ~sub[p].isOffer
    /\ SetSub(p, [sub[p] EXCEPT !.st = "Rejected"])
    /\ Send(p, Msg("Reject"))
    /\ Torn(~conn \/ Pending(p, "ReAccept"))
    /\ UNCHANGED <<dlc, ln, watch, actVars, conn, ready, event, chainVars,
                   used, given, held>>
RejectSubChannelCloseOffer(p) ==
    /\ "reject" \in Calls[p]
    /\ In(p, "CloseOffered") /\ ~sub[p].ours
    /\ SetSub(p, [sub[p] EXCEPT !.st = "Signed"])
    /\ Send(p, Msg("Reject"))
    /\ Torn(Pending(p, "ReAcceptCloseOffer"))
    /\ UNCHANGED <<dlc, ln, watch, actVars, conn, ready, event, chainVars,
                   used, given, held>>
OnSubChannelReject(p) ==
    /\ Received(p, "Reject")
    /\ \/ In(p, "Offered") /\ SetSub(p, [sub[p] EXCEPT !.st = "Rejected"])
       \/ In(p, "CloseOffered") /\ SetSub(p, [sub[p] EXCEPT !.st = "Signed"])
    /\ Consume(p)
    /\ UNCHANGED <<dlc, ln, watch, actVars, conn, ready, event, chainVars,
                   used, historyVars>>

-----------------------------------------------------------------------------
(* Merging the Lightning channel back.                                     *)

SignedDlc(p) == dlc[p] \in {"Signed", "Confirmed"}

(* The DLC channel has to be Established or Settled.  What its own         *)
(* protocols do with it in the meantime is not modelled here: an offer     *)
(* that meets it in another state is refused, with any outcome possible.   *)
OfferSubchannelClose(p, balance) ==
    /\ "close" \in Calls[p]
    /\ In(p, "Signed")
    /\ SignedDlc(p)
    /\ SetSub(p, [sub[p] EXCEPT !.st = "CloseOffered", !.ours = TRUE,
                                !.balance = balance])
    /\ Send(p, [Msg("CloseOffer") EXCEPT !.balance = balance])
    /\ Torn(Recovering(p))
    /\ UNCHANGED <<dlc, ln, watch, actVars, conn, ready, event, chainVars,
                   used, given, held>>

OnSubChannelCloseOffer(p) ==
    /\ Received(p, "CloseOffer")
    /\ \/ /\ In(p, "Signed")
          /\ SignedDlc(p)
          /\ SetSub(p, [sub[p] EXCEPT !.st = "CloseOffered", !.ours = FALSE,
                                      !.balance = Head(net[p]).balance])
       \/ UNCHANGED sub
    /\ Consume(p)
    /\ UNCHANGED <<dlc, ln, watch, actVars, conn, ready, event, chainVars,
                   used, historyVars>>

(* accept_subchannel_close_offer, for the application or an action.        *)
CanAcceptClose(p) ==
    /\ In(p, "CloseOffered")
    /\ ~sub[p].ours
    /\ Usable(p)
    /\ SignedDlc(p)
AcceptCloseEffect(p) ==
    /\ SetSub(p, [sub[p] EXCEPT !.st = "CloseAccepted", !.commits = TRUE])
    /\ SetOut(p, "fund")
    /\ Send(p, [Msg("CloseAccept") EXCEPT !.balance = sub[p].balance])
AcceptSubchannelCloseOffer(p) ==
    /\ CanAcceptClose(p)
    /\ AcceptCloseEffect(p)
    /\ Torn(Pending(p, "ReAcceptCloseOffer"))
    /\ UNCHANGED <<dlc, watch, actVars, conn, ready, event, chainVars, used,
                   given, held>>

(* The offering party's own share.                                         *)
M_OfferBalanceOfPeer(s) == s.balance
OfferBalance(s) == TotalCollateral - s.balance

CanConfirmClose(p) == Usable(p) /\ In(p, "CloseOffered")

(* on_sub_channel_close_accept gives up the secret of the split.  As with  *)
(* Accept, a commitment signature for another balance is found out after   *)
(* the funding outpoint has moved.                                         *)
OnSubChannelCloseAccept(p) ==
    LET s == sub[p] IN
    /\ Received(p, "CloseAccept")
    /\ CanConfirmClose(p)
    /\ Head(net[p]).balance = s.balance
    /\ SetSub(p, [s EXCEPT !.st = "CloseConfirmed", !.commits = TRUE,
                           !.balance = OfferBalance(s),
                           !.checkLnSecret = TRUE])
    /\ SetOut(p, "fund")
    /\ Gives(p)
    /\ Reply(p, [Msg("CloseConfirm") EXCEPT
                   !.point = PerSplitPoint(p, s.idx),
                   !.balance = s.balance])
    /\ UNCHANGED <<dlc, watch, actVars, conn, ready, event, chainVars, used,
                   held, torn>>
OnSubChannelCloseAcceptInvalid(p) ==
    /\ Received(p, "CloseAccept")
    /\ CanConfirmClose(p)
    /\ Head(net[p]).balance # sub[p].balance
    /\ SetOut(p, "fund")
    /\ Consume(p)
    /\ UNCHANGED <<subVars, watch, actVars, conn, ready, event, chainVars,
                   used, historyVars>>

(* The split secret must be the one behind the peer's point.               *)
SecretValid(p, m) ==
    /\ m.point = CounterPoint(p, sub[p].split)
    /\ ProvideSecretOk(sub[p], m.point)
    /\ dlc[p] = "Confirmed"

M_RevokedEntryOfNext(s) ==
    [split |-> s.split, type |-> "Revoked", idx |-> s.idx + 1]
RevokedEntry(s) == [split |-> s.split, type |-> "Revoked", idx |-> s.idx]
OffChainClosed(p, m) ==
    /\ SetSub(p, [sub[p] EXCEPT !.st = "OffChainClosed", !.commits = FALSE,
                                !.secrets = StoreSecret(sub[p], m.point)])
    /\ SetDlc(p, "CollaborativelyClosed")
    /\ AddWatch(p, RevokedEntry(sub[p]))

CanCloseOff(p) ==
    /\ Usable(p)
    /\ In(p, "CloseAccepted")
    /\ SecretValid(p, Head(net[p]))
    /\ Head(net[p]).balance = sub[p].balance
OnSubChannelCloseConfirm(p) ==
    LET m == Head(net[p]) IN
    /\ Received(p, "CloseConfirm")
    /\ CanCloseOff(p)
    /\ OffChainClosed(p, m)
    /\ Gives(p)
    /\ Reply(p, [Msg("CloseFinalize") EXCEPT
                   !.point = PerSplitPoint(p, sub[p].idx), !.lnSecret = TRUE])
    /\ UNCHANGED <<ln, actVars, conn, ready, event, chainVars, used, held,
                   torn>>

(* The watch is changed before the Lightning secret is missed, while the   *)
(* split secret is stored only if nothing fails.                           *)
CanFinalizeClose(p) ==
    /\ Usable(p)
    /\ In(p, "CloseConfirmed")
    /\ SecretValid(p, Head(net[p]))
OnSubChannelCloseFinalize(p) ==
    /\ Received(p, "CloseFinalize")
    /\ CanFinalizeClose(p)
    /\ \/ /\ sub[p].checkLnSecret => Head(net[p]).lnSecret
          /\ OffChainClosed(p, Head(net[p]))
       \/ /\ sub[p].checkLnSecret /\ ~Head(net[p]).lnSecret
          /\ AddWatch(p, RevokedEntry(sub[p]))
          /\ UNCHANGED subVars
    /\ Consume(p)
    /\ UNCHANGED <<ln, actVars, conn, ready, event, chainVars, used,
                   historyVars>>

(* A message no handler accepts is answered with an error and dropped.     *)
Handled(p) ==
    CASE Head(net[p]).type = "Offer" -> CanReceiveOffer(p)
      [] Head(net[p]).type = "Accept" -> CanConfirm(p)
      [] Head(net[p]).type = "Confirm" -> CanFinalize(p)
      [] Head(net[p]).type = "Finalize" -> CanSign(p)
      [] Head(net[p]).type = "Revoke" -> CanRevoke(p)
      [] Head(net[p]).type = "Reject" -> In(p, "Offered") \/ In(p, "CloseOffered")
      [] Head(net[p]).type = "CloseOffer" -> TRUE
      [] Head(net[p]).type = "CloseAccept" -> CanConfirmClose(p)
      [] Head(net[p]).type = "CloseConfirm" -> CanCloseOff(p)
      [] Head(net[p]).type = "CloseFinalize" -> CanFinalizeClose(p)
      [] Head(net[p]).type = "Reestablish" -> ln[p].open
OnSubChannelMessageError(p) ==
    /\ net[p] # <<>>
    /\ ~Handled(p)
    /\ Consume(p)
    /\ UNCHANGED <<subVars, ln, watch, actVars, conn, ready, event, chainVars,
                   used, historyVars>>

-----------------------------------------------------------------------------
(* Losing the connection, and what a node does when its peer is back.      *)

RejectLost ==
    \E p \in Party : /\ In(p, "Offered")
                     /\ \E i \in 1 .. Len(net[p]) : net[p][i].type = "Reject"
DropConnection ==
    /\ conn' = FALSE
    /\ net' = [p \in Party |-> <<>>]
    /\ ready' = [p \in Party |-> FALSE]
Disconnect ==
    /\ conn
    /\ used.disconnects < MaxDisconnects
    /\ used' = [used EXCEPT !.disconnects = @ + 1]
    /\ DropConnection
    /\ Torn(ready[Alice] # ready[Bob] \/ RejectLost)
    /\ UNCHANGED <<subVars, ln, watch, actVars, event, chainVars, given, held>>

(* process_actions does not save what is left of the actions.              *)
Restart(p) ==
    /\ used.restarts < MaxRestarts
    /\ used' = [used EXCEPT !.restarts = @ + 1]
    /\ DropConnection
    /\ actions' = [actions EXCEPT ![p] = stored[p]]
    /\ Torn(ready[Alice] # ready[Bob] \/ RejectLost \/ stored[p] # actions[p])
    /\ UNCHANGED <<subVars, ln, watch, stored, event, chainVars, given, held>>

RevokeLost ==
    \E p \in Party : In(p, "Finalized") /\ In(Other(p), "CloseOffered")
(* LDK asks the SubChannelManager for the flag to put in its message.      *)
Reconnect ==
    /\ ~conn
    /\ conn' = TRUE
    /\ net' = [p \in Party |->
                 IF ln[Other(p)].open
                 THEN <<[Msg("Reestablish") EXCEPT
                           !.flag = GetReestablishFlag(sub[Other(p)])]>>
                 ELSE <<>>]
    /\ Torn(RevokeLost \/ \E p \in Party : RepeatPending(p))
    /\ UNCHANGED <<subVars, ln, watch, actVars, ready, event, chainVars, used,
                   given, held>>

(* What on_channel_reestablish makes of the node's state, one definition   *)
(* per state: the sub channel, the DLC channel, the output the Lightning   *)
(* channel is funded by, and the actions left to do.                       *)
Repair(s, d, o, list) == [sub |-> s, dlc |-> d, out |-> o, list |-> list]
NoRepair(p) == Repair(sub[p], dlc[p], ln[p].out, <<>>)
Todo(p, list) == Repair(sub[p], dlc[p], ln[p].out, list)

(* get_reconnect_close_finalize: the index of an offer made since is       *)
(* undone.                                                                 *)
ResendCloseFinalize(p, restore) ==
    Act("ResendCloseFinalize",
        PerSplitPoint(p, IF restore THEN sub[p].idx - 1 ELSE sub[p].idx), 0)

M_ReestablishOfferedKnown(p, flag) ==
    IF sub[p].isOffer /\ flag = "OffChainClosed"
    THEN Todo(p, <<Act("ResendOffer", sub[p].point, 0)>>)
    ELSE NoRepair(p)
ReestablishOffered(p, flag) ==
    IF /\ sub[p].isOffer
       /\ flag \in {"none", "OffChainClosed", "CloseConfirmed"}
       /\ dlc[p] = "Offered"
    THEN Todo(p, (IF flag = "CloseConfirmed"
                  THEN <<ResendCloseFinalize(p, TRUE)>> ELSE <<>>)
                 \o <<Act("ResendOffer", sub[p].point, 0)>>)
    ELSE NoRepair(p)

BackToOffered(p, pt, list) ==
    Repair([sub[p] EXCEPT !.st = "Offered", !.point = pt, !.commits = FALSE],
           "Offered", "fund", list)
ReAccept == <<Act("ReAccept", NoPoint, 0)>>

ReestablishAccepted(p) ==
    IF dlc[p] = "Accepted"
    THEN BackToOffered(p, sub[p].split.offer, ReAccept) ELSE NoRepair(p)
ReestablishConfirmed(p) ==
    IF dlc[p] = "Signed"
    THEN BackToOffered(p, OwnPoint(p, sub[p].split), <<>>) ELSE NoRepair(p)
M_FinalizedUnlessSigned(p, flag) ==
    IF flag \notin {"Signed", "none"} /\ dlc[p] = "Confirmed"
    THEN BackToOffered(p, CounterPoint(p, sub[p].split), ReAccept)
    ELSE NoRepair(p)
M_FinalizedOutpointBack(p, flag) ==
    Repair(sub[p], dlc[p], "fund",
           IF flag = "Signed" THEN <<Act("ForceSign", NoPoint, 0)>> ELSE <<>>)
ReestablishFinalized(p, flag) ==
    IF flag = "Signed" THEN Todo(p, <<Act("ForceSign", NoPoint, 0)>>)
    ELSE IF flag # "none" /\ dlc[p] = "Confirmed"
    THEN BackToOffered(p, CounterPoint(p, sub[p].split), ReAccept)
    ELSE NoRepair(p)

ReestablishCloseOffered(p, flag) ==
    IF sub[p].ours /\ flag = "Signed"
    THEN Todo(p, <<Act("ResendCloseOffer", NoPoint, sub[p].balance)>>)
    ELSE NoRepair(p)
BackToCloseOffered(p, ours, balance, list) ==
    Repair([sub[p] EXCEPT !.st = "CloseOffered", !.ours = ours,
                          !.balance = balance, !.commits = FALSE,
                          !.checkLnSecret = FALSE],
           dlc[p], "glue", list)
ReestablishCloseAccepted(p) ==
    BackToCloseOffered(p, FALSE, sub[p].balance,
                       <<Act("ReAcceptCloseOffer", NoPoint, 0)>>)
M_CloseConfirmedAlwaysBack(p, flag) ==
    BackToCloseOffered(p, TRUE, TotalCollateral - sub[p].balance, <<>>)
ReestablishCloseConfirmed(p, flag) ==
    CASE flag = "CloseAccepted" ->
           BackToCloseOffered(p, TRUE, TotalCollateral - sub[p].balance, <<>>)
      [] flag \notin {"CloseAccepted", "none"} ->
           Repair([sub[p] EXCEPT !.checkLnSecret = FALSE], dlc[p], ln[p].out,
                  <<>>)
      [] OTHER -> NoRepair(p)
M_OffChainClosedDone(p, flag) == NoRepair(p)
ReestablishOffChainClosed(p, flag) ==
    IF flag = "CloseConfirmed" THEN Todo(p, <<ResendCloseFinalize(p, FALSE)>>)
    ELSE NoRepair(p)

Repaired(p, flag) ==
    CASE In(p, "Offered") -> ReestablishOffered(p, flag)
      [] In(p, "Accepted") -> ReestablishAccepted(p)
      [] In(p, "Confirmed") -> ReestablishConfirmed(p)
      [] In(p, "Finalized") -> ReestablishFinalized(p, flag)
      [] In(p, "CloseOffered") -> ReestablishCloseOffered(p, flag)
      [] In(p, "CloseAccepted") -> ReestablishCloseAccepted(p)
      [] In(p, "CloseConfirmed") -> ReestablishCloseConfirmed(p, flag)
      [] In(p, "OffChainClosed") -> ReestablishOffChainClosed(p, flag)
      [] OTHER -> NoRepair(p)

OnChannelReestablish(p) ==
    LET r == Repaired(p, Head(net[p]).flag) IN
    /\ Received(p, "Reestablish")
    /\ ln[p].open
    /\ ready' = [ready EXCEPT ![p] = TRUE]
    /\ SetSub(p, r.sub)
    /\ SetDlc(p, r.dlc)
    /\ SetOut(p, r.out)
    /\ Push(p, r.list)
    /\ Consume(p)
    /\ UNCHANGED <<watch, conn, event, chainVars, used, historyVars>>

(* process_actions handles every action it can and keeps the others, in    *)
(* order.  An action that needs the Lightning channel is dropped once that *)
(* is gone.                                                                *)
MarkChannelSigned(p) ==
    /\ SetSub(p, [sub[p] EXCEPT !.st = "Signed"])
    /\ UNCHANGED <<dlc, ln, watch, net>>
Resend(p, m) == Send(p, m) /\ UNCHANGED <<subVars, ln, watch>>
Perform(p, a) ==
    CASE a.type = "ResendOffer" ->
           Resend(p, [Msg("Offer") EXCEPT !.point = a.point])
      [] a.type = "ResendCloseOffer" ->
           Resend(p, [Msg("CloseOffer") EXCEPT !.balance = a.balance])
      [] a.type = "ResendCloseFinalize" ->
           Resend(p, [Msg("CloseFinalize") EXCEPT !.point = a.point])
      [] a.type = "ReAccept" -> CanAccept(p) /\ AcceptEffect(p)
      [] a.type = "ForceSign" ->
           /\ Usable(p) /\ In(p, "Finalized") /\ dlc[p] = "Confirmed"
           /\ MarkChannelSigned(p)
      [] a.type = "ReAcceptCloseOffer" ->
           CanAcceptClose(p) /\ AcceptCloseEffect(p) /\ UNCHANGED <<dlc, watch>>
NeedsChannel == {"ReAccept", "ForceSign", "ReAcceptCloseOffer"}
Doable(p, a) ==
    CASE a.type \notin NeedsChannel \/ ~ln[p].open -> TRUE
      [] a.type = "ReAccept" -> CanAccept(p)
      [] a.type = "ReAcceptCloseOffer" -> CanAcceptClose(p)
      [] OTHER -> Usable(p) /\ In(p, "Finalized") /\ dlc[p] = "Confirmed"
ProcessActions(p) ==
    \E i \in 1 .. Len(actions[p]) :
       LET a == actions[p][i] IN
       /\ Doable(p, a)
       /\ \A j \in 1 .. i - 1 : ~Doable(p, actions[p][j])
       /\ IF a.type \in NeedsChannel /\ ~ln[p].open
          THEN UNCHANGED <<subVars, ln, watch, net>>
          ELSE Perform(p, a)
       /\ actions' = [actions EXCEPT ![p] =
                        SubSeq(@, 1, i - 1) \o SubSeq(@, i + 1, Len(@))]
       /\ UNCHANGED <<stored, conn, ready, event, chainVars, used,
                      historyVars>>

-----------------------------------------------------------------------------
(* Closing on chain.                                                       *)

SettledStates == {"OnChainClosed", "CounterOnChainClosed", "ClosedPunished"}

Unspent == spent = NoSpend
Broadcast(t) == mempool' = mempool \cup {t}
(* LDK publishes its commitment transaction; it can only be mined where    *)
(* the output it spends is the funding output itself.                      *)
LdkBroadcast(p) ==
    mempool' = IF ln[p].out = "fund" /\ Unspent
               THEN mempool \cup {CommitBy(p)} ELSE mempool
CleanupChannel(p) == watch' = [watch EXCEPT ![p] = {}]
LdkCloses(p) == ln' = [ln EXCEPT ![p].open = FALSE]

(* force_close_with_ldk: the monitor forgets the channel before the        *)
(* commitment transaction is confirmed.                                    *)
ForceCloseWithLdk(p) ==
    /\ In(p, "Offered") \/ In(p, "CloseConfirmed")
    /\ ln[p].open
    /\ SetSub(p, [sub[p] EXCEPT !.st = "OnChainClosed"])
    /\ SetDlc(p, "Closed")
    /\ CleanupChannel(p)
    /\ LdkCloses(p)
    /\ LdkBroadcast(p)
    /\ event' = [event EXCEPT ![p] = "holder"]

(* force_close_with_saved_commitment: the commitment transactions from     *)
(* before the split.  LDK is not told.                                     *)
ForceCloseWithSaved(p) ==
    /\ In(p, "Accepted") \/ In(p, "Confirmed")
    /\ Unspent
    /\ SetSub(p, [sub[p] EXCEPT !.st = "OnChainClosed"])
    /\ SetDlc(p, "Closed")
    /\ CleanupChannel(p)
    /\ Broadcast(CommitBy(p))
    /\ UNCHANGED ln

(* force_close_signed_channel *)
ForceCloseSigned(p, commits) ==
    /\ Unspent
    /\ SetSub(p, [sub[p] EXCEPT !.st = "Closing", !.isInitiator = TRUE,
                                !.commits = commits])
    /\ Broadcast(SplitBy(p, sub[p].split))
    /\ UNCHANGED <<dlc, watch>>

M_ClosableAlsoConfirmed ==
    {"Signed", "Finalized", "CloseOffered", "CloseConfirmed"}
ClosableWithSplit == {"Signed", "Finalized", "CloseOffered"}
ForceCloseSubChannel(p) ==
    /\ "force" \in Calls[p]
    /\ \/ ForceCloseWithLdk(p)
       \/ ForceCloseWithSaved(p) /\ UNCHANGED event
       \/ /\ sub[p].st \in ClosableWithSplit
          /\ ForceCloseSigned(p, FALSE)
          /\ UNCHANGED <<ln, event>>
       \/ /\ In(p, "CloseAccepted")
          /\ ln[p].open
          /\ ForceCloseSigned(p, TRUE)
          /\ SetOut(p, "glue")
          /\ UNCHANGED event
    /\ UNCHANGED <<actVars, net, conn, ready, spent, outputs, used,
                   historyVars>>

(* The funding outpoint was moved back when the split transaction is found *)
(* to be refused, and stays there.                                         *)
ForceCloseFails(p) ==
    /\ "force" \in Calls[p]
    /\ In(p, "CloseAccepted")
    /\ ln[p].open
    /\ ~Unspent
    /\ SetOut(p, "glue")
    /\ Torn(TRUE)
    /\ UNCHANGED <<subVars, watch, actVars, net, conn, ready, event, chainVars,
                   used, given, held>>

(* LDK closes the Lightning channel: on its own (an application's call to  *)
(* LDK, an error in a message), or because the peer has closed, which the  *)
(* peer says or its confirmed commitment transaction shows.                *)
LdkForceClose(p) ==
    /\ "ldk" \in Calls[p]
    /\ ln[p].open
    /\ LdkCloses(p)
    /\ LdkBroadcast(p)
    /\ event' = [event EXCEPT ![p] = "holder"]
    /\ UNCHANGED <<subVars, watch, actVars, net, conn, ready, spent, outputs,
                   used, historyVars>>
LdkPeerClosed(p) ==
    /\ ln[p].open
    /\ \/ conn /\ ~ln[Other(p)].open
       \/ spent = CommitBy(Other(p))
    /\ LdkCloses(p)
    /\ LdkBroadcast(p)
    /\ event' = [event EXCEPT ![p] = "peer"]
    /\ UNCHANGED <<subVars, watch, actVars, net, conn, ready, spent, outputs,
                   used, historyVars>>

(* notify_ln_channel_closed, for a peer's close (CounterpartyForceClosed,  *)
(* CommitmentTxConfirmed)...                                               *)
NotifyCounterClosed(p) ==
    /\ event[p] = "peer"
    /\ \/ /\ sub[p].st \in {"Offered", "Accepted", "Confirmed", "Finalized",
                             "CloseAccepted", "CloseConfirmed"}
          /\ SetSub(p, [sub[p] EXCEPT !.st = "CounterOnChainClosed"])
          /\ SetDlc(p, "CounterClosed")
          /\ CleanupChannel(p)
       \/ /\ In(p, "OffChainClosed")
          /\ SetSub(p, [sub[p] EXCEPT !.st = "CounterOnChainClosed"])
          /\ CleanupChannel(p)
          /\ UNCHANGED dlc
       \/ /\ In(p, "Rejected")
          /\ SetSub(p, [sub[p] EXCEPT !.st = "CounterOnChainClosed"])
          /\ UNCHANGED <<dlc, watch>>
       \/ /\ sub[p].st \in {"None", "Signed", "Closing", "CloseOffered"}
                           \cup SettledStates
          /\ UNCHANGED <<subVars, watch>>
    /\ event' = [event EXCEPT ![p] = "none"]
    /\ UNCHANGED <<ln, actVars, net, conn, ready, chainVars, used,
                   historyVars>>

(* ... and for the holder's own (HolderForceClosed, ProcessingError).  The *)
(* commitment transactions come from LDK's monitor, which is moved back to *)
(* the glue output in CloseAccepted.  An error leaves all as it was.       *)
NotifyHolderClosed(p) ==
    /\ event[p] = "holder"
    /\ \/ /\ In(p, "Offered") \/ In(p, "CloseConfirmed")
          /\ SetSub(p, [sub[p] EXCEPT !.st = "OnChainClosed"])
          /\ SetDlc(p, "Closed")
          /\ CleanupChannel(p)
          /\ UNCHANGED <<ln, mempool>>
       \/ /\ In(p, "OffChainClosed")
          /\ SetSub(p, [sub[p] EXCEPT !.st = "OnChainClosed"])
          /\ CleanupChannel(p)
          /\ UNCHANGED <<dlc, ln, mempool>>
       \/ ForceCloseWithSaved(p)
       \/ /\ sub[p].st \in {"CloseAccepted", "CloseOffered", "Signed",
                             "Finalized"}
          /\ ForceCloseSigned(p, TRUE)
          /\ IF In(p, "CloseAccepted") THEN SetOut(p, "glue") ELSE UNCHANGED ln
       \/ /\ \/ sub[p].st \in {"None", "Rejected", "Closing"} \cup SettledStates
             \/ /\ ~Unspent
                /\ sub[p].st \in {"Accepted", "Confirmed", "CloseAccepted",
                                  "CloseOffered", "Signed", "Finalized"}
          /\ UNCHANGED <<subVars, ln, watch, mempool>>
    /\ event' = [event EXCEPT ![p] = "none"]
    /\ UNCHANGED <<actVars, net, conn, ready, spent, outputs, used,
                   historyVars>>

(* finalize_force_close_sub_channels: the glue transaction and the closing *)
(* of the DLC channel follow the confirmed split transaction.              *)
M_SplitConfirmedOurs(p) == spent = SplitBy(p, sub[p].split)
SplitConfirmed(p) == spent.kind = "split" /\ spent.split = sub[p].split
FinalizeForceClose(p) ==
    /\ In(p, "Closing")
    /\ SplitConfirmed(p)
    /\ outputs \in {"free", "glued"}
    /\ outputs' = "glued"
    /\ SetSub(p, [sub[p] EXCEPT !.st = IF sub[p].isInitiator
                                       THEN "OnChainClosed"
                                       ELSE "CounterOnChainClosed"])
    /\ SetDlc(p, IF SignedDlc(p) THEN "Closing" ELSE dlc[p])
    /\ CleanupChannel(p)
    /\ IF ln[p].open /\ ~sub[p].commits
       THEN LdkCloses(p) /\ event' = [event EXCEPT ![p] = "holder"]
       ELSE UNCHANGED <<ln, event>>
    /\ UNCHANGED <<actVars, net, conn, ready, mempool, spent, used,
                   historyVars>>

(* check_for_watched_tx for a confirmed split transaction.  It sets the    *)
(* output of the Lightning channel to one of the split transaction itself. *)
Watched(p, type) ==
    \E e \in watch[p] : /\ spent.kind = "split" /\ e.split = spent.split
                        /\ e.type = type
CheckSplit(p) ==
    /\ Watched(p, "SplitTx")
    /\ \/ sub[p].st \in {"Signed", "CloseOffered"} /\ UNCHANGED ln
       \/ /\ sub[p].st \in {"CloseAccepted", "CloseConfirmed"}
          /\ IF ln[p].open THEN SetOut(p, "split") ELSE UNCHANGED ln
    /\ SetSub(p, [sub[p] EXCEPT
                    !.st = "Closing", !.isInitiator = FALSE,
                    !.commits = @ /\ sub[p].st \notin {"Signed", "CloseOffered"}])
    /\ watch' = [watch EXCEPT ![p] = {e \in @ : e.split # spent.split}]
    /\ UNCHANGED <<dlc, actVars, net, conn, ready, event, chainVars, used,
                   historyVars>>
(* ... and for a revoked one.  The key of the publisher is recovered from  *)
(* its signature, the own adaptor signature and the secret stored under    *)
(* the index of the watch: on the publisher's own node, and with another   *)
(* secret, there is nothing to recover.  Once the outputs are spent the    *)
(* punishment is not broadcast.  Each of these errors ends the check.      *)
Punishable(p, e) == <<e.idx, CounterPoint(p, e.split)>> \in sub[p].secrets
CheckRevoked(p) ==
    /\ \E e \in watch[p] : /\ spent.kind = "split" /\ e.split = spent.split
                           /\ e.type = "Revoked" /\ Punishable(p, e)
    /\ spent.by = Other(p)
    /\ outputs \in {"locked", "free"}
    /\ outputs' = "punished"
    /\ SetSub(p, [sub[p] EXCEPT !.st = "ClosedPunished"])
    /\ UNCHANGED <<dlc, ln, watch, actVars, net, conn, ready, event, mempool,
                   spent, used, historyVars>>

-----------------------------------------------------------------------------
(* The chain.  A dishonest peer publishes any split it has the signature   *)
(* for, and spends its outputs when it can, without its manager.           *)

PublishHeld(p) ==
    /\ "cheat" \in Calls[p]
    /\ Unspent
    /\ \E t \in held[p] : Broadcast(SplitBy(p, t))
    /\ UNCHANGED <<subVars, ln, watch, actVars, net, conn, ready, event, spent,
                   outputs, used, historyVars>>
SweepHeld(p) ==
    /\ "cheat" \in Calls[p]
    /\ spent.kind = "split" /\ spent.by = p
    /\ outputs = "free"
    /\ outputs' = "glued"
    /\ UNCHANGED <<subVars, ln, watch, actVars, net, conn, ready, event,
                   mempool, spent, used, historyVars>>

Confirm(t) ==
    /\ Unspent
    /\ t \in mempool
    /\ spent' = t
    /\ mempool' = {}
    /\ UNCHANGED <<subVars, ln, watch, actVars, net, conn, ready, event,
                   outputs, used, historyVars>>
Mature ==
    /\ spent.kind = "split" /\ outputs = "locked"
    /\ outputs' = "free"
    /\ UNCHANGED <<subVars, ln, watch, actVars, net, conn, ready, event,
                   mempool, spent, used, historyVars>>

-----------------------------------------------------------------------------
Receive(p) ==
    \/ OnSubchannelOffer(p) \/ OnSubchannelAccept(p)
    \/ OnSubchannelAcceptInvalid(p) \/ OnSubchannelConfirm(p)
    \/ OnSubChannelFinalize(p) \/ OnSubChannelRevoke(p)
    \/ OnSubChannelReject(p) \/ OnSubChannelCloseOffer(p)
    \/ OnSubChannelCloseAccept(p) \/ OnSubChannelCloseAcceptInvalid(p)
    \/ OnSubChannelCloseConfirm(p) \/ OnSubChannelCloseFinalize(p)
    \/ OnChannelReestablish(p) \/ OnSubChannelMessageError(p)
PeriodicCheck(p) ==
    CheckSplit(p) \/ CheckRevoked(p) \/ ProcessActions(p) \/ FinalizeForceClose(p)
Notify(p) == NotifyCounterClosed(p) \/ NotifyHolderClosed(p)
Application(p) ==
    \/ p \in Offering /\ OfferSubChannel(p)
    \/ RejectSubChannelOffer(p) \/ RejectSubChannelCloseOffer(p)
    \/ \E b \in 0 .. TotalCollateral : OfferSubchannelClose(p, b)
    \/ ForceCloseSubChannel(p) \/ ForceCloseFails(p)
    \/ LdkForceClose(p) \/ PublishHeld(p) \/ SweepHeld(p)
Accept(p) == AcceptSubChannel(p) \/ AcceptSubchannelCloseOffer(p)

Next ==
    \/ \E p \in Party :
         \/ Receive(p) \/ Application(p) \/ Accept(p) \/ PeriodicCheck(p)
         \/ Notify(p) \/ LdkPeerClosed(p) \/ Restart(p)
    \/ Disconnect \/ Reconnect
    \/ \E t \in mempool : Confirm(t)
    \/ Mature

Spec == Init /\ [][Next]_vars

(* The peers reconnect, messages on a live connection are delivered, the   *)
(* application calls periodic_check and forwards LDK's events, and a       *)
(* broadcast transaction is mined.  Nothing makes the applications offer,  *)
(* accept or close.                                                        *)
FairSpec ==
    /\ Spec
    /\ \A p \in Party : /\ WF_vars(Receive(p))
                        /\ WF_vars(PeriodicCheck(p))
                        /\ WF_vars(Notify(p))
                        /\ WF_vars(LdkPeerClosed(p))
    /\ WF_vars(Reconnect)
    /\ WF_vars(\E t \in mempool : Confirm(t))
    /\ WF_vars(Mature)
=============================================================================
