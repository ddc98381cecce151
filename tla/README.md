# A TLA+ development for rust-dlc

This directory holds TLA+ models of rust-dlc, the TLC configurations that check
them and TLAPS proofs about them. `PROJECT.json` is the index: components, runs,
the map from definitions to source lines, the hazards the properties are for,
findings and theorems. Paths below are relative to `src/`.

## 1. The system

A discreet log contract (DLC) is a Bitcoin contract that pays by an oracle's
attestation. rust-dlc implements single contracts, *DLC channels* in which two
parties replace one contract by the next without going on chain, and *sub
channels*, DLC channels inside a Lightning channel.

| Component | State it keeps | Operations | Talks to |
|---|---|---|---|
| Manager and channel updater (`dlc-manager/src/manager.rs`, `channel_updater.rs`) | per channel: `Channel` variant, `SignedChannelState`, `roll_back_state`, `update_idx`, per-update points, the counter party's secrets | settle, renew, reject, collaborative and forced close, as calls of the application and handlers of messages; `periodic_check` | peer's manager by messages; store; blockchain; oracles |
| Chain monitor (`chain_monitor.rs`) | watched transactions and outputs, in memory behind a mutex, persisted on request | `add_tx`, `remove_tx`, `cleanup_channel`, `confirmed_txs`, `did_we_offer_last_channel_settlement` | filled by the updater and the manager, read by `periodic_check` |
| Contracts and channel setup (`manager.rs`, `contract_updater.rs`, `contract/`, `offered_channel.rs`, `accepted_channel.rs`) | offered, accepted, signed, confirmed, pre-closed, closed contracts; offered and accepted channels; coins the wallet reserves | offer, accept, sign, reject; the periodic check closes by attestations or refunds | peer's manager; store; wallet; blockchain; oracles |
| Sub channels (`sub_channel_manager.rs`, `subchannel/`) | `SubChannel` state, `update_idx`, the counter party's split secrets, pending actions | split a Lightning channel, merge it back, reject, recover on `channel_reestablish`, force close, punish | Lightning node (LDK), manager, chain monitor |
| Message handler (`dlc-messages/src/message_handler.rs`, `segmentation/`) | a segment reader per peer, queues of sent and received messages | send, segment, reassemble, hand over | LDK's peer manager, application |
| Tries (`dlc-trie`) | the adaptor signatures of a numeric contract by outcome and oracles | cover ranges with digit prefixes, insert, look up, iterate | contracts |
| Payouts (`payout_curve.rs`, `contract/*_descriptor.rs`) | none | ranges of outcomes with one payout each, look-up of attested outcomes | contracts |
| Transactions (`dlc`) | none | values, fees, change and dust of all transactions | all of the above |
| Storage (`dlc-sled-storage-provider`) | trees by id and type prefix | upsert, update, delete | manager |
| Providers (`bitcoin-rpc-provider`, `electrs-...`, `simple-wallet`, `p2pd-oracle-client`) | caches | adapters to services | outside world |

**What is hard.** Two managers run concurrently and meet only in messages and on
the chain. Either application may call at any time, so offers cross, and a close
can start in the middle of an update. A message may never arrive, and a DLC
channel does not send it again; a sub channel repairs itself when the peers
reconnect, from what each says of its own state. Each update trades revocation
secrets, in an order in which a party must never be left with only a transaction
it has revoked, nor without the secret for one the peer can publish. The chain
monitor is changed in memory and written later, handlers write several times, and
a process may stop between any two writes. The periodic check acts on what the
chain shows with whatever state the channel is in *then*. Below the protocols,
two parties compute thousands of adaptor signatures independently and in the same
order, and find one again from what oracles attest that do not agree.

**What correct means.** Updates: fair exchange of secrets, completeness of the
stored secrets, agreement between the parties, contract store in step with the
channel. Monitor: whatever can be published against a party is watched, and what
is revoked is watched as revoked with a secret at hand. Closing: a forced close
ends, records who closed, and publishes nothing revoked; a collaborative close
ends; cheating, and only cheating, is punished. Setup: nobody's coins are in a
funding output it cannot leave alone. Contracts: one outcome is paid, with a valid
transaction, and the coins come back. Sub channels: the two parties agree on the
split after any disconnect. Message handler: a message is delivered whole, once,
in order, or not at all. Tries and payouts: honest signatures verify, an agreed
outcome is found and pays the curve. Fees: every transaction is paid for.

## 2. Modules

    FairExchange            what trading secrets promises (abstract)
    DlcChannel              a channel: both parties, network, chain
      DlcChannelProperties  properties, fairness, refinement to FairExchange
        DlcChannelClaims    statements of the code base that do not hold
          MCDlcChannel      the module TLC runs
        DlcChannelReveal    proofs: types, secrets given up safely
          DlcChannelAgreement  proofs: exchange, agreement, contract store
            DlcChannelClose    proofs: watching, punishing, closing
    SubChannel              a channel inside a Lightning channel
      SubChannelProperties  properties, refinement to FairExchange
        SubChannelProofs    proofs: types, watching, agreement, secrets, merging
          SubChannelRecovery  proofs: what a recovery restores
        MCSubChannel
    DlcContract             setup of contracts and channels, closing of contracts
      DlcContractProperties
        DlcContractProofs   proofs of its invariants
        MCDlcContract
    DigitTries              digits, prefixes, DigitTrie, combinations
      MultiOracleTries      MultiTrie, outcomes that differ
        AdaptorTries        MultiOracleTrie and MultiOracleTrieWithDiff
    PayoutCurve             pieces to ranges of outcomes
    DlcTransactions         values, weights and fees
      DlcTransactionsProofs proofs that they add up
    ContractExecution       one contract's data, over the five modules above
      ContractExecutionProperties
        MCContractExecution the contracts that TLC goes through
    MessageHandler          segmentation and reassembly between nodes
      MessageHandlerProperties
        MessageHandlerProofs  proofs that messages arrive as they were sent
        MCMessageHandler

`DlcChannel`, `SubChannel` and `DlcContract` are about the order of messages,
writes and blocks, and there a contract is one value. `ContractExecution` is about
that value: it composes the tries, the payout curve and the transactions as
`contract_updater.rs` and the descriptors do. `DlcContract` ends, for a channel,
where `DlcChannel` starts.

### DlcChannel

One channel, two parties `Alice` (who offered it) and `Bob`, from the moment both
have stored the signed channel. Setup is in `DlcContract`; `Init` is the state in
which `verify_and_sign_accepted_channel_internal` and
`verify_signed_channel_internal` leave it.

*State.* `ctype`, `state`, `rollback`, `updateIdx`, `points`, `secrets` are the
fields of the stored `Channel`; every variant of `SignedChannelState` is the same
record, with the fields a variant lacks at a default. `contracts` is the part of
the contract store that belongs to the channel, under temporary and final ids.
`monitor` is the chain monitor in memory and `stored` the persisted one. `net` is
the queue of messages on their way to a party. `mempool`, `chain`, `pool`,
`spent`, `attested` are the blockchain, reduced to what spends the fund output,
and the oracles. `panicked` holds parties whose manager hit a failing `expect()`.
`revealed` and `held` are history: the secrets a party has sent, the transactions
it got the peer's signature for. `used` counts what the environment used up.

*Data.* `update_idx` counts down from 2^48 - 1 in the code; here it counts up
from 0, and the bound `MaxUpdates` stands far below the width. A per-update point,
its secret and a contract are named by their update; `build_commitment_secret`
and `provide_secret` become naming and set insertion. A signature is named by the
transaction it signs, and verifying is comparing with the transaction the verifier
builds. Amounts, fees, scripts, adaptor points and CET outcomes are left out; the
role a party had in a transaction (`offerer`) is kept, because scripts depend on it.

*Actions.* One per call or handler, with every write it makes:

| Code | Actions |
|---|---|
| `settle_offer`, `accept_settle_offer`, `reject_settle_offer` | `SettleOffer`, `AcceptSettleOffer`, `RejectSettleOffer` |
| `on_settle_offer`, `_accept`, `_confirm`, `_finalize` | `OnSettleOffer`, `OnSettleOfferReject`, `OnSettleAccept`, `OnSettleConfirm`, `OnSettleFinalize`; `OnSettleUnconfirmed` is the error path that has already changed the monitor |
| `renew_offer`, `accept_renew_offer`, `reject_renew_offer` | `RenewOffer`, `AcceptRenewOffer`, `RejectRenewOffer` |
| `on_renew_offer`, `_accept`, `_confirm`, `_finalize`, `_revoke` | `OnRenewOffer`, `OnRenewOfferReject`, `OnRenewAccept`, `OnRenewConfirm`, `OnRenewFinalize`, `OnRenewRevoke` |
| `on_reject` | `OnReject` |
| `offer_collaborative_close`, `on_collaborative_close_offer`, `accept_collaborative_close` | `OfferCollaborativeClose`, `OnCollaborativeCloseOffer`, `AcceptCollaborativeClose` |
| `force_close_channel` | `ForceCloseEstablished`, `ForceCloseSettled`, `ForceCloseFails` (the `expect`) |
| `periodic_check` | `CheckSignedContract`, `CheckPreclosedContract`, `TryFinalizeClosingEstablishedChannel`, `TryFinalizeSettledClosingChannel`, `TryConfirmClaimTx`, `ProcessBufferTx`, `ProcessSettleTx2`, `ProcessRevoked`, `ProcessCollaborativeClose`, `ProcessCet`, `ProcessBufferTxFails`, `ProcessRevokedFails`, `CheckForWatchedTx` |
| a handler that returns an error before any change | `HandlerError` |
| environment | `Mine`, `Mature`, `MineSpend`, `Attest`, `LoseMessage`, `Restart`, `PublishOld` |

The parts of one `periodic_check` are separate actions because each part writes
to the store by itself and an error in one ends the check, so that any of them
may be the last one before another event. `NB_CONFIRMATIONS` is 0, so a contract
is confirmed by the first check after its signature. A timed-out pending state
is only logged (`check_for_timed_out_channels`), so there is no action for it.

Messages between two parties stay in order, as on the connection they share; they
may be lost, and none is repeated, since nothing resends. `PublishOld` is a party
that broadcasts a transaction it once held, outside its manager, as the tests of
cheating do.

*Operators named `M_...`* are bugs the definition after them could have. They
are used nowhere; each shows, put in its place, that a property notices.

### FairExchange

The promise of an update, without messages: a party gives up the secret of the
update it is in and of no later one, and moves on only against the peer's secret
for the update it leaves, having given up its own. `DlcChannelProperties` maps
`adopted` to `updateIdx` and `disclosed` to `revealed`; `ExchangeSpec` says that
settling and renewing, rejections, crossings, losses and restarts included, are
steps of it. `SubChannelProperties` maps the merges a party has completed and the
split secrets it has sent to the same two variables; `FairClose` says that
merging back is such an exchange too, recovery included.

### SubChannel

One Lightning channel that two parties split into a Lightning and a DLC part and
merge back. `sub` is the stored `SubChannel` with its state, `dlc` the DLC channel
it names, `watch` its entries in the chain monitor, `actions` and `stored` the
pending actions in memory and as saved. Of LDK, which is external, `ln` keeps
whether the channel is open and which output its commitment transactions spend
(`set_funding_outpoint`); `event` is a closing event not handled yet.

| Code | Actions |
|---|---|
| `offer_sub_channel`, `accept_sub_channel`, `reject_sub_channel_offer`, `offer_subchannel_close`, `accept_subchannel_close_offer`, `reject_sub_channel_close_offer`, `force_close_sub_channel` | the same names in camel case; `ForceCloseFails` is a forced close whose split transaction is refused after the funding outpoint was moved back |
| `on_subchannel_offer` to `on_sub_channel_revoke`, `on_sub_channel_close_offer` to `_finalize`, `on_sub_channel_reject` | `OnSubchannelOffer` and so on; `OnSubchannelAcceptInvalid` and `OnSubChannelCloseAcceptInvalid` are the answers that no longer verify |
| `on_channel_reestablish` | `OnChannelReestablish`, every pair of own state and peer's state |
| `periodic_check` | `ProcessActions`, `CheckSplit`, `CheckRevoked`, `FinalizeForceClose` |
| `notify_ln_channel_closed` | `NotifyCounterClosed`, `NotifyHolderClosed` |
| environment | `Disconnect`, `Reconnect`, `Restart`, `LdkForceClose`, `LdkPeerClosed`, `PublishHeld`, `SweepHeld`, `Confirm`, `Mature` |

`update_idx` counts up; a point is named by its owner and index, so that a secret
of the wrong index is told apart, and `ProvideSecretOk` is the check that
`provide_secret` can make for consecutive indices. Messages are lost with the
connection, and in a reestablish each side sends the name of its state and
handles the peer's. The recovery has holes, which the model keeps and `torn`
records: the connection breaks again between the two halves of a reestablish, an
offer is made before the recovery is over, an answer is given while the action
that gives it again is pending, a restart brings finished actions back, a
rejection is lost, `Revoke` is lost before a close is offered, or the peers
reconnect while a resend or a `ForceSign` is pending, which is then queued twice, or
a forced close fails half way.
After one of these the two parties may count different splits, and most of
`RecoveryAgreement` and the liveness properties speak of the states without one; the
others hold through every hole. `MaxSplits` bounds what a
party offers, not `update_idx`: an offer that is sent twice is counted twice by its
receiver, so `Index` is `Nat`. `Calls` says, per party, which calls its application
makes.

`outputs` follows the outputs of a confirmed split: locked by the delay, free,
spent by the glue transaction (or by whoever published the split), or punished.
`CheckRevoked` succeeds where the code does: the secret stored under the index of the
watch fits the split (`Punishable`; another one is an `expect` or an error), the peer
published it (on the publisher's own node `recover` has nothing to compare its own
adaptor signature with and fails), and the outputs are not spent yet (`send_transaction`
fails). `HasSeed` is the guard that stands for the `expect` on `per_split_seed` in
`offer_sub_channel`.

### DlcContract

Deals, each an offer with what follows: contracts of their own and DLC channels.
`store` is what a party has stored of a deal, `reserved` the coins its wallet
keeps for one, `watched` and `stored` its chain monitor in memory and on disk,
`fund`, `pool` and `spent` the chain. `Offer`, `Accept`, `RejectChannel`,
`OnOffer`, `OnReject`, `OnAccept`, `OnSign` and `PeriodicCheck` are the calls and
handlers of `manager.rs`, contract and channel in one action where the two do the
same. Each has a parameter `stop`, the last write it does before its process
stops: wallet, store, monitor, broadcast and message are separate writes, in the
order of the code. A signature is one bit, whether it verifies. `Closing` is
`check_confirmed_contract` with its early returns: with enough attestations
(`Closable`) it builds a CET or fails, and only without them it looks at the
refund. `ListIndex` is the number an attestation gets after unmatured announcements
were dropped, and `CetValid` says that a CET is valid only when these numbers are
the oracles' own.

`LookUp` is `get_range_info_for_outcome` for the three kinds of contracts, one of
which `descriptor` gives to each contract. `EnumLookUp` takes an outcome that most
oracles attested, `NumericalLookUp` one that enough, but fewest, oracles attested
(`get_agreeing_oracles` compares that way round), and of several the hash map
chooses any. `DifferenceLookUp` takes the first combination of oracles in order for
which the trie has a match: the outcome of its first oracle has a cover for what
the others attested. The covers are the constant `Cover`, arbitrary here;
`ContractExecution` computes them. A party closes with any subset of the
attestations given so far.

### DigitTries, MultiOracleTries, AdaptorTries, PayoutCurve, DlcTransactions

Pure algorithms as operators. A trie is a tree of records instead of an arena, an
`Option` is a sequence of at most one element, and look-ups that depend on the
order of a hash map return the set of possible answers. Multi tries are in base
two when oracles differ, as `multi_oracle.rs` assumes. `PayoutCurve` calculates
with exact fractions where the code uses `f64`; polynomials are interpolated as in
the code, hyperbolas have a = 1 and b = 0, and points no extra precision. What
rounding errors of `f64` do to a payout near a half is therefore not modelled.
`DlcTransactions` has the integer arithmetic of `get_change_output_and_fees`,
`create_fund_transaction_with_fees`, the channel transactions and
`create_settle_transaction`, with the constants of the code.

### ContractExecution

One contract from offer to CET. `Accept` is `accept_contract` (payouts, validation,
transactions, tries, signatures), `AcceptFails` the same for an offer that is not
`Acceptable`: a payout curve, rounding intervals or trie parameters that are refused,
coins that do not suffice, and the two panics, an empty path in a trie and a fund
output below dust; `Sign` is `verify_accepted_and_sign_contract`,
`OnSign` is `verify_signed_contract`, `Close` is `get_signed_cet` with any set of
attestations the oracles may give, `CloseFails` the same when nothing is found,
`Settle` the settle transaction of a channel. A signature is the CET and the adaptor
point it was made for; a point is the set of oracle signatures that open it. So a
CET is valid exactly when the index looked up leads to the signature of the
looked-up CET and the attestations picked are the ones it needs.

### MessageHandler

Nodes with `msg_events`, `msg_received` and `segment_readers` as in
`message_handler.rs`. `SendMessage` queues a message or its segments,
`ProcessEvents` is the peer manager that takes them, `HandleCustomMessage` the
handler with its reader, `GetAndClearReceivedMessages` the application. A byte is
a message and a position, so that `Read` can tell a message from a mixture; the
sizes are parameters. The one queue of a handler is kept by receiver, since it is
drained as a whole and receivers share no connection. `Panic` is the frame that LDK refuses to encrypt, for a plain
message just below the limit.

## 3. Runs

The parties of a channel play different roles from the start, so no symmetry is
used. Deadlock is not checked: a channel or a contract may be left alone, and a
closed one takes no further step.

| Run | Module and bounds | Shows |
|---|---|---|
| `updates` | `MCDlcChannel`: 3 updates, both offer, 2 losses, 1 restart | `TypeOK`, `RevealOnlyWhenSuperseded`, `SecretsComplete`, `UpdateAgreement`, `LiveContract`, `PunishReady`, refinement `ExchangeSpec` |
| `closing` | `MCDlcChannel`: 2 updates offered by Bob, forced closes of both, 1 collaborative close offer in any state, 1 broadcast outside the managers | `WatchCoverage`, `CloserIdentified`, `ForcedCloseUnrevoked` |
| `live_updates` | `MCDlcChannel`: 3 updates and a collaborative close offered by Alice, no loss | `UpdateCompletes`, `CollaborativeCloseCompletes` |
| `live_closing` | `MCDlcChannel`: forced closes of both, 1 settlement, 1 broadcast outside the managers, no restart | `ForcedCloseCompletes`, `CheatPunished` |
| `sub_reconnect` | `MCSubChannel`: 2 splits, rejections by Bob, merges offered by either party, 1 lost connection, 1 restart | `TypeOK`, `SplitAgreement`, `SplitWatched`, `RecoveryAgreement`, refinement `FairClose`, `SplitCompletes`, `MergeCompletes` |
| `sub_close` | `MCSubChannel`: 2 splits and merges, 1 lost connection, forced closes by both parties and by the LDK of one, splits published and swept outside the managers by the other | `NothingRevokedPublished`, `ForcedSplitCompletes`, `RevokedSplitPunished` |
| `contract` | `MCDlcContract`: 1 contract of each kind and 1 channel, one coin each, 3 oracles of which 2 are needed and the first matures last, 3 outcomes, 2 troubles | `TypeOK`, `FundSafe`, `CoinsOnce`, `CetSupported`, `OneCet`, `CoinsReturned`, `OutcomeRecorded` |
| `execution` | `MCContractExecution`: 24 contracts of which 6 are invalid, 624 fundings, all attestations | `HonestSignaturesVerify`, `AttestedCloses`, `ClosesWithValidCet`, `PaysCurve`, `ClosesWithinError`, `FeesCovered` |
| `segments` | `MCMessageHandler`: 3 nodes, 3 and 1 messages of up to 4 segments, 1 fault | `DeliveredAsSent`, `OnlyOversizedRefused`, `ProcessedOrLost` |
| `claim_contract_id` | `MCDlcChannel`: a settlement and forced closes | refutes `BufferTxHasContract` |
| `claim_honest_close` | `MCDlcChannel`: a settlement and forced closes | refutes `HonestCloseUnpunished` |
| `claim_punish` | `MCDlcChannel`: renewals, 1 broadcast outside the managers | refutes `CheatPunished` |

**Why these bounds.** *Channels.* An update touches the state of the update before
it (the transaction it revokes) and leaves behind what the next one starts from, so
two updates show every pair of settle and renew in either order, and three show
what a stale `roll_back_state` or a kept watch does to the update after such a pair.
Two losses allow one on each side of an update, or in two consecutive ones. One
restart is enough to fall back to any persisted monitor. One broadcast outside the
managers decides the fund output. In `closing` only Bob offers: he accepted the
channel, so roles change with his first offer; with both parties offering the run
takes more than 6 million states, and the crossing offers it would add are in
`updates`. *Sub channels.* A disconnect and a restart give two recoveries, the
second over what the first repaired; the second split runs on what the first merge
left. A collateral of 1 has two divisions, enough to tell the balances apart. In
`sub_close` a lost connection takes a party back from `CloseConfirmed` to
`CloseOffered` with its secret given, and the second split is the one whose index
differs from the first's; how the collateral is divided does not matter to a forced
close, so it is 0 there, and restarts are left to `sub_reconnect`.
*Contracts.* Two troubles are an invalid or lost message and a crash, or two
crashes; two deals over one coin make them compete for it. The oracle that matures
last comes first, so that dropping it shifts the numbers of the others. Of the three
outcomes one is close to both others, which are not close to each other; the oracles
can agree, differ within and beyond what is covered, and split 2 to 1. *Execution.*
Outcomes of three to five digits have ranges with front, middle and back groups;
the error bounds are chosen so that main outcomes lie inside, at both borders and
at the ends of an error interval. Fundings have exact inputs, dust change, too
little, a party without inputs, payout scripts of two lengths, and an odd extra fee. *Segments.* The sizes leave
room for a plain message, one that fits a frame no more, one of exactly as many
segments as allowed and one of more; two senders interleave.

**Fairness.** `DlcChannel`: weak fairness of message handling, of every part of the
periodic check, of the application's answer to an offer, and of blocks and
attestations. The peer handler delivers what it received, `periodic_check` is
called again and again by the application (as in `sample/src/cli.rs`), and a
block chain and an oracle that stop are outside what the code can handle. Nothing
is assumed of offers or of forced closes. In its liveness runs no message is lost:
the code never resends one, and an update whose message is lost really stays
pending. `live_updates` lets one party offer, because a settle offer that crosses a
renew offer leaves both parties pending. `live_closing` has no restarts, because
watches are not persisted when they are added (section 4). `SubChannel`: the peers
reconnect, a live connection delivers, the periodic check runs and LDK's events are
forwarded; nobody has to offer, accept or close. `DlcContract`: time passes,
transactions are mined and the periodic check of a contract of its own runs through
with all the attestations given so far; messages need not arrive and oracles need not
attest. `MessageHandler`: the loops of the peer manager
and of the application go on; broken connections need not come back.

## 4. Findings

Three runs refute something the code base states.

- `claim_contract_id`: `process_watched_txs` expects a contract id when the
  buffer transaction is confirmed. The settle states have none, and the peer may
  force close in any of them.
- `claim_honest_close`: in `SettledConfirmed` a forced close rolls back to the
  established state whose secret has just been sent; the peer punishes it.
- `claim_punish`: a renewal watches what it supersedes with `is_offer: false`.
  Where the party did offer that transaction, its punishment is built for the wrong
  script.

Other behaviour the model shows, worth a reader's attention and without a run:

- `renew_channel_on_revoke` leaves `roll_back_state` set and sets `is_offer` on
  the accepting side. That party then refuses every collaborative close until the
  next settlement (the exception in `CollaborativeCloseCompletes`).
- Between `RenewConfirm` and `RenewRevoke` the accepting party watches a
  transaction as revoked without its secret; if the peer publishes it then, the
  `expect` on the secret fails (the exception in `PunishReady`).
- Between `RenewConfirm` and `RenewFinalize` the offering party does not watch the
  new buffer transaction (the exception in `WatchCoverage`).
- A collaborative close may be offered in any state; over a pending one, a later
  forced close fails on its `expect` (`ForceCloseFails`).
- `accept_collaborative_close` records the close before it is confirmed; a
  forced close that crosses it may be what the chain confirms.
- A settlement handled before the contract is confirmed fails half way and cannot
  be resumed (`OnSettleUnconfirmed`).
- Watches for settle transactions are not persisted when they are added.
- Force closing a settled channel drops all its watches before the settle transaction
  is confirmed; a revoked buffer transaction that is confirmed instead goes unpunished
  (the exception in `CheatPunished`).
- `on_sign_channel` broadcasts the fund transaction before it stores the channel
  (the exception `torn` in `FundSafe`).
- When oracles disagree, `check_confirmed_contract` fails for ever and never tries
  the refund (the exception in `CoinsReturned`).
- Coins reserved for a deal that fails are never released.
- While an announcement has not matured, attestations of later oracles get the wrong
  number, and the CET is invalid until it has. No invalid CET gets through
  (`CetSupported`), and the coins come back later (`CoinsReturned`).
- Where oracles may differ, the CET depends on the attestations a party had got when
  it asked: the two parties can publish CETs of two different outcomes, and the chain
  decides. `OneCet` says what remains: an outcome is close to both. The party whose CET
  lost stays in `Confirmed` with an error in every check (`Overtaken`).
- A contract with several contract infos is looked up from the first CET on: closed
  by any but the first, its CET is invalid (the premise of `ClosesWithValidCet`).
- `maximize_coverage` of a contract is stored and never read: the tries are always
  built as if it were true.
- With `AllOffer` and `AllAccept`, the party that pays is charged for its own payout
  script twice, so a longer script of the peer is not paid for (`ScriptsPaid`, the
  premise of `FeesCovered` for CETs and refunds).
- A settlement with both payouts below dust divides by zero.
- A plain message whose length is within two bytes of the limit is not segmented and
  does not fit a frame (`Panic`).
- A settle transaction confirmed before `SettleFinalize` is handled moves the channel
  to `SettledClosing` with the points of the previous update, and its output is never
  found (`ClaimFound`); a buffer transaction confirmed while a renewal is pending
  stores the contract of the renewal (`CetValid`).
- An invalid or missing state of one channel ends the loop of `process_watched_txs`,
  so watched transactions after it wait, in every check (one channel here).
- `notify_ln_channel_closed` also drops the watch on an earlier, revoked split.
- When a split confirms during a merge, the funding outpoint is set to the split and
  not to the glue transaction.
- `on_sign_message` stores the contract before it broadcasts the fund transaction,
  and nothing broadcasts it again.
- A payout that is constant over all outcomes gives an empty prefix, for which
  inserting into a trie panics (`NoEmptyPath`).
- A party that received and rejected the first offer of a sub channel has no
  `per_split_seed`; an offer of its own then panics on the `expect` (`HasSeed`).
- A forced close in `CloseAccepted` whose split transaction is refused leaves the
  funding outpoint moved back, without recording anything (`ForceCloseFails`).
- A message put together from segments with an unknown type panics while the lock on
  all the readers is held.
- The recovery of a sub channel has the holes listed under `SubChannel`.
- `on_sub_channel_close_finalize` changes the watch on a split to revoked before it
  looks at the Lightning secret and stores the split secret. With two lost
  connections and a restart it can fail in between: a `ResendOffer` that the restart
  brought back is accepted by a party that had merged, and rejected; the other one,
  in `CloseConfirmed`, is then told no state, keeps `check_ln_secret`, and gets a
  resent `close_finalize` without a Lightning secret. The watch then says revoked
  with no secret stored, and the `expect` of `check_for_watched_tx` would fail. The
  proof attempt of `SplitWatched` met this case; the property excepts a split whose
  merge is not over, and `RecoveryAgreement` says that the exception needs a hole.
- A `ForceSign` that is pending when the peers reconnect is queued again. The second
  one finds no sub channel in `Finalized`, is kept to be tried again, and marks the next
  split this party finalizes as signed before its `Revoke` has come. The proof of
  `RecoveryAgreement` met this case, which `RepeatPending` counts among the holes.

## 5. Proofs

Every theorem holds for all values of the constants that satisfy the named
assumption of the module (`ConstantsAssumption`, `DlcContractAssumption`, `SubChannelAssumption`,
`SizeAssumption`, ...), so for any number of updates, losses, restarts, deals,
oracles or messages. Each inductive invariant was first checked by TLC on the
runs above.

| Theorem | Module | States |
|---|---|---|
| `TypeCorrect`, `RevealSafe` | `DlcChannelReveal` | `TypeOK`, `RevealOnlyWhenSuperseded` |
| `SecretsSafe`, `ExchangeRefined`, `AgreementSafe`, `ContractsSafe` | `DlcChannelAgreement` | `SecretsComplete`, the refinement `ExchangeSpec`, `UpdateAgreement`, `LiveContract` |
| `PunishSafe`, `CoverageSafe`, `ForcedCloseSafe`, `CloserSafe` | `DlcChannelClose` | `PunishReady`, `WatchCoverage`, `ForcedCloseUnrevoked`, `CloserIdentified` |
| `TypeCorrect`, `FundsSafe`, `CoinsSafe`, `CetsSupported`, `OutcomeUnique` | `DlcContractProofs` | `TypeOK`, `FundSafe`, `CoinsOnce`, `CetSupported`, `OneCet` |
| `MessagesArrive`, `RefusalsJustified` | `MessageHandlerProofs` | `DeliveredAsSent`, `OnlyOversizedRefused` |
| `TypeCorrect`, `SplitsWatched`, `SplitsAgree`, `NoRevokedPublished`, `MergesFair` | `SubChannelProofs` | `TypeOK`, `SplitWatched`, `SplitAgreement`, `NothingRevokedPublished`, the refinement `FairClose` |
| `RecoveriesAgree` | `SubChannelRecovery` | `RecoveryAgreement` |
| `FundingConserved`, `FundFeesPaid`, `CetFeesPaid`, `SettlementPaid` | `DlcTransactionsProofs` | what `FeesCovered` checks on 624 fundings |

### Channels

*Type correctness* is not inductive as it stands: an update index that moves on
must stay within the bound, and only the offer looked at it. `TypeInv` adds
`PendingIdx`: a party in a pending state is below the bound, and an offer that can
still be rejected rolls back to a stable state. One lemma per action, and lemmas
for the pieces actions are made of (the monitor's operations, sending and
consuming, moving and rolling back).

*Secrets are given up safely.* `RevealInv` adds `NetSound`, which ties what a
renew message carries to a later update than the first, `PendingPoints`, the point
of the transaction a pending update will adopt, and `Superseded`, the property
itself. When a handler gives up the secret of `updateIdx[p]`, it has in the same
step received the signature of `state[p].tx` (or of the transaction it rebuilds),
and `PendingPoints` says that this one is for `updateIdx[p] + 1`. The subtle case
is a `RenewAccept` that reaches a party which is in `RenewOffered` because the
*peer* offered: `on_renew_accept` does not look at `is_offer`. `NetSound` says that
the transaction such a message signs has a later point for the receiver than the
one it would rebuild, so the signature check refuses it.

*Kinds of step.* The proofs about both parties need each action many times.
`DlcChannelAgreement` therefore first brings every action, once, into one of some fifteen
kinds: who acts (`Untouched` for the other party), what happens to the record of
the channel, which message is taken and which is sent. `NextStep` says that there
are no other steps, and the invariants below are shown for the kinds.

*The exchange of secrets* (`ExchangeInv`). A handler compares a secret with the
counter party's point it has stored and stores it under its own `update_idx`. That
these are the same update is a fact about both parties and all messages between
them. `Place(p)` says that p has the secrets of the updates before its own, which
points it knows, and where it may have given up the current secret. `Queue(p)` says
of the messages on their way to p that each is about an update p has not adopted
and its sender has reached (`Carried`), that they come in the order of their
updates, and that nothing follows about an update after its secret (`Precedes`).
From this `SecretsSafe`; and since a party moves on only with the secret it has
just taken from its messages and after giving up its own, `ExchangeRefined`: every
step is a step of `FairExchange` or leaves it alone.

*Agreement* (`AgreementInv`). Nothing compares the records of the two parties; a
handler only checks signatures against the transaction it builds itself. `Holds`
and `Rests` say what a party holds of its own update, `Shares` that what the
counter party holds of an update p knows of is p's own transaction, and `Vouched`
what a message on its way says of what its sender holds, which is what makes
`Shares` survive the delivery. `ContractsSafe` adds `Booked` (`BookInv`): per state
of the channel, which final ids are open in the contract store, so that a
rejection, a roll back or the end of a renewal each close exactly the right one.

*Watching* (`WatchInv`, `CoverageInv`). The monitor that counts is also the stored
one, which a restart brings back, so `Watched` is said of both. An entry that
revokes a transaction names its update, and that update is over or just being
superseded (`Justified`): the accepter of a renewal adds it before it has the
secret. `CoverageInv` is about what the counter party holds *or is about to hold*
because of a signature on its way.

*Closing* (`CloseOfferInv`, `CloseInv`). A forced close falls back on
`roll_back_state` and checks no secret; that the transaction is not revoked follows
from `GivenUp` and, after a collaborative close was offered, `Withdrawable`. Who
closed is told apart by the monitor alone: `Published` says that what a manager
broadcast is no longer in its monitor, `Countered` that a close it did not start
was confirmed from the counter party.

Two properties speak of behaviours without restarts. A restart brings back the
persisted monitor, and the watch on a settle transaction is not persisted when it
is added: after one, a transaction of the counter party may be unwatched
(`WatchCoverage`), and an entry for a transaction that the party itself has
broadcast since may be back, so that it takes its own close for one of the counter
party (second part of `CloserIdentified`).

### Sub channels

The proofs of `SubChannelProofs` say nothing of `torn`: they hold through every hole
of the recovery, for any number of lost connections and restarts. As for channels, `StepKinds` first
brings every action into one of a dozen kinds (`Offers`, `Accepts`, `Confirms`,
`Finalizes`, `Signs`, `Discloses` and `Merges` for the two halves of giving up the
split secret, `Returns` for `on_channel_reestablish`, `Drops` and `Greets` for the
connection, and so on). What is pending, in memory or as saved, counts as one set
(`Left`), so that a restart adds nothing to it.

*Types.* `TypeInv` adds `Counted`: the secrets a party has stored are finitely many,
which is what makes `Closes`, a cardinality, a number, and a sub channel that exists
has an index above 0, so that the recovery can take it back by one.

*Watching* (`WatchInv`). A split the peer is able to publish is one it has the
signature for, so the invariant starts earlier: with the message that carries the
signature (`SentWatched`) and with the party that may still send it
(`AcceptedWatched`). `RevokedWatched` says that a revoked watch is of an earlier
index or of a merge that has come to storing the secret; otherwise the next split
would be taken for the revoked one.

*Agreement* (`AgreeInv`). The splits two parties hold are never compared: a handler
checks the signatures in a message against the split it builds itself, and
`on_channel_reestablish` decides from the name of the peer's state alone. Four parts
are needed. `NetInv`: no message outlives its connection, and each party gets one
reestablish message on it. `PointInv`: which of the points of a split are its
owner's, and of which index. `SetupInv`: an `Accept`, `Confirm` or `Finalize` on its
way finds both parties past their reestablish, in the states and with the split it
was sent in, and never two of them at once; this is what fails when a stale message
could meet a state that a reconnection has rolled back. It speaks of the time before
a party has settled on chain, since a settled party still leaves messages behind.
`SecretInv`: every split secret that is stored, on its way or waiting to be sent
again is of an earlier index than its owner's, or its owner is in a state that
publishes this split no more; a party that a reconnection takes back from
`CloseConfirmed` to `CloseOffered` finds its secret not stored (`NotTakenBack`).
`NoRevokedPublished` follows from the last part.

*Merging* (`MergeInv`). `MergesFair` maps a party's stored secrets to the closes it
has counted (`Count`) and shows that a step which stores one is a `MoveOn` of
`FairExchange`. The handlers compare a secret with a point of the split and know no
number of a close, so the invariant has to relate the two counts. `FreshIndex`: a
stored secret is under an earlier index, so storing one counts one close more.
`Paid`: a party has given its secret for every close it has counted, and for the one
it waits for. `Ahead` and `Level`: a party is at most one close ahead, only of a peer
in `CloseConfirmed` or closing, and never while it is in a split itself. What moves a
count is a `CloseConfirm` or a `CloseFinalize`. `CloseConfirmSent`: the former is
alone, finds the party that answered the offer still in `CloseAccepted`, and its
sender has given the secret of this close; `CloseAcceptSent` says the same of the
message before it. `LastOfClose`: the latter can be sent again after a reconnection,
by a party that may have merged long ago and offered the next split, so what is said
of it is that one whose secret fits the split its receiver is in is of a close only
its sender has counted. For that, a reestablish message that asks for the secret
finds a party that has merged or still can (`Asked`, from `Attended`), a party is
taken back from `CloseConfirmed` only while the peer has not merged
(`BackTogether`), and a split that is completed is none a secret on its way is of
(`Completes`).

*Recovery* (`SubChannelRecovery`). `RecoveryAgreement` has three parts, each with an
invariant of its own. They rest on `StepDetail`, which says for each kind of step what
it does to the balance, the pending actions and the Lightning secret that is waited for.

`ShareInv`, which holds through every hole: a party in `CloseConfirmed` waits with the
rest of the balance its `CloseConfirm` carries, and of the one its peer has merged with.
`RevokedInv`: a party that still checks the Lightning secret gets no last message
without it (`Informed`). Such a message is only sent again for a peer that said
`CloseConfirmed` in its reestablish message, and that peer stops checking on handling
the one it gets itself (`ToInform`), so without a hole the early change of the watch
cannot fail.

`StableInv` is about outputs and indices. Quiet states alone are not inductive, so it
says where two parties stand at *every* point of the protocol. `Stands(p, q)` lists
seventeen positions, from `AtRest` over `OfferDue`, `AcceptDue`, ... to
`CloseFinalizeDue`: the two states, the indices, the points and balances, the messages
on their way and the actions pending. What makes the list short enough is how a party
is seen: one that has not handled its peer's reestablish message counts as what that
message will make of it (`View`, with `Doing` for its actions and `Coming` for the
messages after it). Handling the message is then no change of position
(`ReturnStable`), and a lost connection leads from each position to one of a few
(`LostStands`): a message on its way has become the action that sends it again, or the
states before it. `RevokeGone` is the one position that a reconnection cannot leave
without meeting a hole. `Side` adds what holds of each party alone: the DLC channel and
the output that go with its state, the reestablish message at the head of its queue,
and that what is pending before it is handled needs the channel. `PartyStable`,
`BreakStable` and `Reconnects` show that each step leads from a position to a position,
records a hole or closes; in a quiet one the parties have the same index, and the states
of both call for the same output (`QuietAgree`).

### Contracts

`FundInv`: a `Sign` message on its way means that its sender has stored the contract
and, for a channel, persisted the watch (`Backed`); so whoever broadcasts the fund
transaction finds both parties backed, except where `on_sign_channel` broadcasts
first (`torn`). `CoinInv`: a coin is claimed by a deal as long as the deal may be
funded, or its offer stands, or its rejection is *on its way* (`Claims`); a
rejection is sent once, so what `on_reject` releases is claimed by nothing else.
`CetInv`: an outcome with a published or recorded CET is `Supported`, by `Threshold`
oracles that attested it or, where oracles may differ, by one that did and others
whose attestations it has a cover for. Whatever `LookUp` finds is supported when it
is found, and stays so, since no oracle takes an attestation back: this is
`CetsSupported`. `OutcomeUnique`: two sets of `Threshold` oracles meet when that is a
majority (`MajoritiesMeet`), and what an oracle in both attested is close to both
outcomes (`SupportClose`); without differences close means equal.

### Messages

`MessageHandlerProofs` follows a *lane*, all there is of the messages of one node to
another: the queue, the wire and the reader's buffer are cut from trains of pieces
(`Train`), in which a message that has begun is there to its end, in the order of
its bytes, and messages are in the order of their numbers. `Chunks` and
`PartsTrain` say that `get_segments` makes such a train, with `NbSegments`, which
the code computes apart from the cutting, as its length. `Expects`: the reader has
exactly the bytes before the next piece on the wire, with exactly as many chunks to
come, or this piece begins a message. The second case is why leftovers of a broken
connection do no harm: after a reconnection the wire begins with a message, plain
messages and starts reset a reader, and a chunk comes only after its start.
`HandledPiece` is the effect of `handle_custom_message` on a piece the reader expects.

### Fees

`DlcTransactionsProofs` is about the operators of `DlcTransactions` for every
funding: any amounts, weights, script lengths and rate. `FundingConserved`: the
fund output holds the collaterals and all later fees to the satoshi, so the
assertions of `create_fund_transaction_with_fees` cannot fail. `FundFeesPaid`: the
fund transaction pays for its weight, also when a party has no inputs
(`WithoutInputs`: if it can pay it has no share of the fees). `CetFeesPaid`: so
does any CET together with its buffer transaction, if the fees are shared evenly or
the payout scripts have the same length (`ScriptsPaid`), which the proof needs and
the code does not check. `SettlementPaid`: the unsigned subtraction of
`create_settle_transaction` does not wrap. The argument: a party puts in what it
gets back as change plus what it pays (`PartyConserved`); rounding two weights up
costs no less than rounding their sum (`FeeSum`); so what is paid in parts covers
the whole.

### Only model-checked

Liveness: fairness and ENABLED are out of the prover's reach. The tries, the
payout curve and with them all of `ContractExecution` reach recursive operators
over data, for which there is no induction. `DlcTransactionsProofs` shows what
`FeesCovered` checks, but `FeesCovered` itself is a property of `ContractExecution`.

## 6. Not modelled

Message encodings have no state and are covered by the repository's compatibility
tests; the layout of the store, dumps of tries and the conversion of messages are
of that kind. Providers, mocks and the sample are adapters and test code; of
`simple-wallet` the reservation of coins is in `DlcContract`. Rounding errors of
`f64`, general hyperbolas and extra precision of payout points are left out of
`PayoutCurve`: TLC has no floating point.

`DlcChannel`: several channels in one manager, crashes inside a handler,
reorganisations of the chain and fee bumping are left out. The applications are
assumed to accept only renewals of the peer. `SubChannel`: one sub channel, atomic
handlers, no amounts but the division of the collateral, and no states of LDK
beyond the outpoint and the closing. `DlcContract`: the periodic check takes one
deal at a time, since deals share only coins; its oracles have the same number of
digits, so that an outcome has one name. `ContractExecution`: both parties are
honest; what an invalid signature leads to is in `DlcContract`. `MessageHandler`:
messages of a known type only, and of less than 65,536 segments, above which
`nb_segments as u16` would wrap. `MultiOracleTries`: `SingleCovering` yields no
combination where `multi_oracle.rs` would fail on an `unwrap`, which needs an error
bound of as many bits as the outcomes have.

## 7. Plan

1. *Crashes inside the handlers of a channel*, each write a step of its own, as
   `DlcContract` has them for the setup.
