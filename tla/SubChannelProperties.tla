------------------------ MODULE SubChannelProperties ------------------------
(***************************************************************************)
(* What a sub channel has to guarantee to both parties.                    *)
(***************************************************************************)
EXTENDS SubChannel

TypeOK ==
    /\ sub \in [Party -> SubChannelRecord]
    /\ dlc \in [Party -> DlcState]
    /\ ln \in [Party -> [open : BOOLEAN, out : {"fund", "glue", "split"}]]
    /\ watch \in [Party -> SUBSET WatchEntry]
    /\ actions \in [Party -> Seq(Action)]
    /\ stored \in [Party -> Seq(Action)]
    /\ net \in [Party -> Seq(Message)]
    /\ conn \in BOOLEAN
    /\ ready \in [Party -> BOOLEAN]
    /\ event \in [Party -> {"none", "holder", "peer"}]
    /\ mempool \subseteq Spend
    /\ spent \in Spend
    /\ outputs \in OutputState
    /\ used \in [disconnects : 0 .. MaxDisconnects, restarts : 0 .. MaxRestarts]
    /\ given \in [Party -> SUBSET Nat]
    /\ held \in [Party -> SUBSET Split]
    /\ torn \in BOOLEAN

Closed(p) == sub[p].st \in SettledStates \cup {"Closing"}
SplitStates == {"Finalized", "Signed", "CloseOffered", "CloseAccepted",
                "CloseConfirmed", "Closing"}

(* Two parties that can both publish a split publish the same one, and     *)
(* each has in it the point of its current update_idx, so that the secret  *)
(* it gives up when it merges back is the one of this split, with whatever *)
(* messages were lost, resent and accepted again on the way.               *)
SplitAgreement ==
    /\ (\A p \in Party : sub[p].st \in SplitStates) =>
         sub[Alice].split = sub[Bob].split
    /\ \A p \in Party : sub[p].st \in SplitStates =>
         OwnPoint(p, sub[p].split) = PerSplitPoint(p, sub[p].idx)

(* A split transaction the peer is able to publish is watched, until the   *)
(* sub channel is closed or closing (add_tx in accept_sub_channel_internal *)
(* and on_subchannel_accept against cleanup_channel and remove_tx).  One   *)
(* that is watched as revoked can be punished: the secret stored under the *)
(* index of the watch is the one behind the peer's point in that split, or *)
(* get_secret(update_idx).expect(..) fails in check_for_watched_tx.  The   *)
(* exception is the current split while its merge is not over:             *)
(* on_sub_channel_close_finalize changes the watch before it can fail.     *)
SplitWatched ==
    \A p \in Party :
      /\ \A t \in held[Other(p)] :
           ~Closed(p) => \E e \in watch[p] : e.split = t
      /\ \A e \in watch[p] : e.type = "Revoked" =>
           \/ Punishable(p, e)
           \/ /\ e.split = sub[p].split /\ e.idx = sub[p].idx
              /\ sub[p].st \in (SplitStates \ {"Finalized"}) \cup SettledStates

(* Nothing is under way: no message, no event, no action, no closing, both *)
(* reconnected.                                                            *)
Quiet ==
    \A p \in Party : /\ net[p] = <<>> /\ actions[p] = <<>>
                     /\ event[p] = "none" /\ Usable(p) /\ ~Closed(p)

(* Where the recovery met none of its holes: when nothing is under way,    *)
(* the commitment transactions of the two parties spend the same output of *)
(* the Lightning channel, whichever of set_funding_outpoint calls and      *)
(* rollbacks each of them went through, and the two count the same splits, *)
(* from which the DLC channel id and the per-split secrets are derived.    *)
(* Every split watched as revoked can be punished then, without exception. *)
(* With or without a hole, parties that merged the channel back agree on   *)
(* what each got out of it.                                                *)
RecoveryAgreement ==
    /\ ~torn =>
         /\ Quiet => /\ ln[Alice].out = ln[Bob].out
                     /\ sub[Alice].idx = sub[Bob].idx
         /\ \A p \in Party : \A e \in watch[p] :
              e.type = "Revoked" => Punishable(p, e)
    /\ (\A p \in Party : In(p, "OffChainClosed")) =>
         sub[Alice].balance + sub[Bob].balance = TotalCollateral

(* A party that starts closing on chain publishes no split whose secret    *)
(* the peer has: a reconnection may have taken it back from CloseConfirmed *)
(* to CloseOffered after it sent the secret (on_channel_reestablish).      *)
StartsClosing(p) ==
    sub[p].st # "Closing" /\ sub'[p].st = "Closing" /\ sub'[p].isInitiator
NothingRevokedPublished ==
    [][\A p \in Party : StartsClosing(p) =>
         \A e \in sub[Other(p)].secrets : e[2] # OwnPoint(p, sub[p].split)]_vars

(* Merging back is a fair exchange of split secrets: each close both       *)
(* parties complete is one update of FairExchange.                         *)
Exchange == INSTANCE FairExchange WITH
    adopted <- [p \in Party |-> Closes(sub[p])],
    disclosed <- given
FairClose == Exchange!Spec

(* Liveness, where the recovery met none of its holes.                     *)
AnyClosed == torn \/ \E p \in Party : Closed(p) \/ ~ln[p].open

(* An accepted sub channel is set up in the end, through any number of     *)
(* reconnections, unless a party closes.                                   *)
SplitCompletes ==
    \A p \in Party :
      sub[p].st \in {"Accepted", "Confirmed", "Finalized"} ~>
        (In(p, "Signed") \/ AnyClosed)

(* An accepted close is completed by both in the end.                      *)
MergeCompletes ==
    \A p \in Party :
      sub[p].st \in {"CloseAccepted", "CloseConfirmed"} ~>
        (In(p, "OffChainClosed") \/ AnyClosed)

(* Parties that close with the split transaction get to the end, if that   *)
(* transaction is the one that is mined and nobody is punished for it.     *)
ClosingWithSplit(p) ==
    In(p, "Closing") /\ spent.kind = "split" /\ spent.split = sub[p].split
ForcedSplitCompletes ==
    (\E p \in Party : ClosingWithSplit(p)) ~>
        (outputs = "punished" \/ \A p \in Party : ~ClosingWithSplit(p))

(* A confirmed split that the peer published and that is watched as        *)
(* revoked is punished, unless its delay passes and the publisher spends   *)
(* it before the check runs, or the Lightning channel is closed as well,   *)
(* which makes the node forget it (notify_ln_channel_closed).              *)
Deceived == Other(spent.by)
RevokedSplitPunished ==
    Watched(Deceived, "Revoked") ~>
        (In(Deceived, "ClosedPunished") \/ outputs = "glued" \/ ~ln[Deceived].open)
=============================================================================
