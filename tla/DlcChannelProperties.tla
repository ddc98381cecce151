------------------------ MODULE DlcChannelProperties ------------------------
(***************************************************************************)
(* What a DLC channel is meant to keep, as invariants, action properties   *)
(* and liveness properties of DlcChannel.                                  *)
(***************************************************************************)
EXTENDS DlcChannel

-----------------------------------------------------------------------------
(* The update protocols.                                                   *)

Updating == {"Established", "Settled", "SettledOffered", "SettledReceived",
             "SettledAccepted", "SettledConfirmed", "RenewOffered",
             "RenewAccepted", "RenewConfirmed", "RenewFinalized"}
Live(p) == ctype[p] = "Signed" /\ state[p].name \in Updating
StableTx(p) ==
    IF state[p].name \in StableStates THEN state[p].tx ELSE rollback[p].tx

(* A party gives up the secret of an update (SettleConfirm, SettleFinalize,*)
(* RenewFinalize, RenewRevoke) only when it already holds the counter      *)
(* party's signature for the transaction of the next one: it is never left *)
(* with nothing but a revoked transaction.                                 *)
RevealOnlyWhenSuperseded ==
    \A p \in Party : \A n \in revealed[p] :
       \E tx \in held[p] : tx.point[p] = n + 1

(* A party that is in update n has the counter party's secret for every    *)
(* update before n and no other, and each was really given up: however     *)
(* messages are lost, update_idx never runs ahead of                       *)
(* counter_party_commitment_secrets, in which watched transactions look    *)
(* their secret up.                                                        *)
SecretsComplete ==
    \A p \in Party :
       /\ secrets[p] = {n \in Update : n < updateIdx[p]}
       /\ secrets[p] \subseteq revealed[Other(p)]

(* While both parties update the channel, their update indices are at most *)
(* one apart; in the same update they hold the same transaction; and the   *)
(* one behind is waiting for the last message of the update the other one  *)
(* has already adopted.                                                    *)
UpdateAgreement ==
    \A p \in Party :
       LET q == Other(p) IN
       Live(p) /\ Live(q) =>
         /\ updateIdx[p] <= updateIdx[q] + 1
         /\ updateIdx[p] = updateIdx[q] => StableTx(p) = StableTx(q)
         /\ updateIdx[p] = updateIdx[q] + 1 =>
              /\ state[q].name \in {"SettledConfirmed", "RenewFinalized"}
              /\ state[q].tx = StableTx(p)

(* The contract store follows the channel: in a stable state the contracts *)
(* that are still open under a final id are exactly the one established in *)
(* the current update, or none once it is settled.                         *)
LiveContract ==
    \A p \in Party : ctype[p] = "Signed" /\ state[p].name \in StableStates =>
       {n \in Update : contracts[p][FinalId(n)] \in
                          {"Accepted", "Signed", "Confirmed"}} =
       IF state[p].name = "Settled" THEN {} ELSE {updateIdx[p]}

(* The update protocols implement the fair exchange of revocation secrets. *)
Exchange == INSTANCE FairExchange
              WITH adopted <- updateIdx, disclosed <- revealed
ExchangeSpec == Exchange!Spec

-----------------------------------------------------------------------------
(* The chain monitor and punishment.                                       *)

(* A transaction the counter party could publish although it gave up its   *)
(* secret is watched as revoked, under the update whose secret is stored;  *)
(* and what is watched as revoked has its secret stored, so that           *)
(* process_watched_txs finds it.  The exception is the current update,     *)
(* from RenewConfirm until RenewRevoke arrives or after a settlement       *)
(* failed on an unconfirmed contract.                                      *)
PunishReady ==
    \A p \in Party : Live(p) =>
       /\ \A tx \in held[Other(p)] : tx.point[Other(p)] \in secrets[p] =>
             \E e \in monitor[p].tx :
                /\ e.tx = tx /\ e.type = "Revoked"
                /\ e.idx = tx.point[Other(p)]
       /\ \A e \in monitor[p].tx : e.type = "Revoked" =>
             \/ e.idx \in secrets[p]
             \/ /\ e.idx = updateIdx[p] /\ e.tx = rollback[p].tx
                /\ state[p].name \in {"RenewFinalized", "SettledAccepted",
                                      "SettledConfirmed"}

(* Every transaction the counter party can publish is watched, as long as  *)
(* no manager is restarted; the exception is the renewed buffer            *)
(* transaction from RenewConfirm until RenewFinalize arrives.              *)
WatchCoverage ==
    \A p \in Party : used.restarts = 0 /\ Live(p) =>
       \A tx \in held[Other(p)] :
          \/ \E e \in monitor[p].tx : e.tx = tx
          \/ state[p].name = "RenewConfirmed" /\ tx = state[p].tx

(* The roll back of a forced close never leads a party to broadcast a      *)
(* transaction whose secret it has given up, except from SettledConfirmed, *)
(* where the offering party of a settlement waits for SettleFinalize.      *)
ForcedCloseUnrevoked ==
    [][\A p \in Party : used' = used =>
         \A s \in mempool' \ mempool : s.by = p /\ s.tx.kind # "close" =>
            \/ s.tx.point[p] \notin revealed[p]
            \/ state[p].name = "SettledConfirmed"]_vars

(* A party punishes only a transaction that the counter party broadcast    *)
(* and whose secret the counter party had given up.  When nothing is       *)
(* published outside the managers and none is restarted, it records a      *)
(* channel as CounterClosed only if the counter party did broadcast the    *)
(* transaction that spends the fund output: it never mistakes its own      *)
(* forced close, seen on chain by its monitor, for one of the peer.  (A    *)
(* restart brings back the watches that a forced close of a settled        *)
(* channel drops in memory only.)                                          *)
CloserIdentified ==
    \A p \in Party :
       /\ ctype[p] = "ClosedPunished" =>
             /\ chain.by = Other(p)
             /\ chain.tx.point[Other(p)] \in revealed[Other(p)]
       /\ used.cheats = 0 /\ used.restarts = 0 /\ ctype[p] = "CounterClosed" =>
             [tx |-> chain.tx, by |-> Other(p)] \in mempool

-----------------------------------------------------------------------------
(* Liveness.  Messages are delivered, the periodic check runs again and    *)
(* again, blocks are mined and the oracles attest; the application answers *)
(* an offer, but need not make one.                                        *)
PeriodicFairness(p) ==
    /\ WF_vars(CheckSignedContract(p))
    /\ WF_vars(CheckPreclosedContract(p))
    /\ WF_vars(TryFinalizeClosingEstablishedChannel(p))
    /\ WF_vars(TryFinalizeSettledClosingChannel(p))
    /\ WF_vars(TryConfirmClaimTx(p))
    /\ WF_vars(ProcessBufferTx(p))
    /\ WF_vars(ProcessSettleTx2(p))
    /\ WF_vars(ProcessRevoked(p))
    /\ WF_vars(ProcessCollaborativeClose(p))
    /\ WF_vars(ProcessCet(p))
Fairness ==
    /\ \A p \in Party :
         /\ WF_vars(OnDlcMessage(p))
         /\ WF_vars(AnswerOffer(p))
         /\ WF_vars(AcceptCollaborativeClose(p))
         /\ PeriodicFairness(p)
    /\ WF_vars(Mine) /\ WF_vars(Mature) /\ WF_vars(MineSpend)
    /\ WF_vars(Attest)
FairSpec == Spec /\ Fairness

(* An update that one party starts reaches a stable state on both sides,   *)
(* by completing it or by rejecting the offer.                             *)
UpdateCompletes ==
    \A p \in Party :
       state[p].name \in TimeoutStates \cup {"SettledReceived"} ~>
       state[p].name \in StableStates

(* A forced close of a channel on whose update the parties agree is        *)
(* carried through by both, whether one or both of them start it, from an  *)
(* established or from a settled channel: each ends closed with no         *)
(* contract left open.  Left out are closes that cross an update, whose    *)
(* ends claim_contract_id and the README describe, and transactions        *)
(* published outside the managers.                                         *)
UpdateUnderWay ==
    \/ \E p \in Party : net[p] # <<>>
    \/ \E p \in Party : state[p].name \in TimeoutStates \cup {"SettledReceived"}

ForcedCloseCompletes ==
    \A p, q \in Party :
       /\ state[p].name \in {"Closing", "SettledClosing"}
       /\ state[p].tx = state[Other(p)].tx
       /\ updateIdx[p] = updateIdx[Other(p)]
       /\ ~UpdateUnderWay
       ~> \/ /\ ctype[q] \in {"Closed", "CounterClosed"}
             /\ \A id \in ContractId :
                  contracts[q][id] \notin {"Signed", "Confirmed", "PreClosed"}
          \/ UpdateUnderWay \/ used.cheats > 0

(* A revoked transaction published by the counter party, outside its       *)
(* manager, ends with the channel closed by punishment: the monitor finds  *)
(* it, the secret is there, and the roles recorded with the watched        *)
(* transaction are those of its script.  The delay may pass and the        *)
(* publisher spend its output before the periodic check runs.  Left out is *)
(* a party that has force closed a settled channel:                        *)
(* initiate_unilateral_close_settled_channel drops all its watches before  *)
(* the settle transaction is confirmed.                                    *)
CheatPunished ==
    \A p \in Party :
       /\ ctype[p] = "Signed" /\ state[p].name # "SettledClosing"
       /\ chain.depth > 0 /\ chain.by = Other(p)
       /\ chain.tx.kind \in {"buffer", "settle"}
       /\ chain.tx.point[Other(p)] \in secrets[p]
       ~> \/ ctype[p] = "ClosedPunished"
          \/ \E s \in spent : s.by = Other(p)

(* A collaborative close offered while the peer is in a stable state       *)
(* closes the channel on both sides, also after offers of either kind were *)
(* rejected.  Left out is a peer whose contract came from a renewal it     *)
(* accepted: renew_channel_on_revoke leaves its roll_back_state set, and   *)
(* it refuses the offer.                                                   *)
CollaborativeCloseCompletes ==
    \A p \in Party : LET q == Other(p) IN
       /\ InState(p, "CollaborativeCloseOffered") /\ state[p].isOffer
       /\ \/ state[q].name = "Settled"
          \/ state[q].name = "Established" /\ updateIdx[q] = 0
       ~> ctype[p] = "CollaborativelyClosed" /\ ctype[q] = "CollaborativelyClosed"
=============================================================================
