-------------------------- MODULE DlcContractProofs --------------------------
(***************************************************************************)
(* The safety of setting up and closing contracts, for any set of deals,   *)
(* coins, oracles and outcomes, any maturities and any number of lost      *)
(* messages, invalid messages and processes that stop.                     *)
(***************************************************************************)
EXTENDS DlcContractProperties, FiniteSetTheorems, SequenceTheorems, TLAPS

(* The place of each variable in its type.                                 *)
LEMMA PartyFacts ==
    /\ Alice \in Party /\ Bob \in Party
    /\ \A p \in Party : Other(p) \in Party /\ Other(p) # p /\ Other(Other(p)) = p
BY DlcContractAssumption DEF Party, Other

LEMMA HeadTail ==
    ASSUME TypeOK, NEW p \in Party, net[p] # <<>>
    PROVE  /\ net[p] \in Seq(Message) /\ Tail(net[p]) \in Seq(Message)
           /\ Head(net[p]) \in Message /\ Head(net[p]).deal \in Deals
<1>1. net[p] \in Seq(Message)
  BY DEF TypeOK
<1>2. Head(net[p]) \in Message /\ Tail(net[p]) \in Seq(Message)
  BY <1>1, HeadTailProperties
<1> QED BY <1>1, <1>2 DEF Message

LEMMA HandledType ==
    ASSUME TypeOK, NEW p \in Party, net[p] # <<>>, NEW s, NEW l
    PROVE  Handled(p, s, l) \in [Party -> Seq(Message)]
BY HeadTail, EmptySeq DEF TypeOK, Handled

LEMMA ReloadType ==
    ASSUME TypeOK, NEW p \in Party, NEW mem \in SUBSET ChannelDeals,
           NEW disk \in SUBSET ChannelDeals, NEW s, NEW l, Reload(p, mem, disk, s, l)
    PROVE  watched' \in [Party -> SUBSET ChannelDeals]
BY DEF TypeOK, Reload

LEMMA StopsType ==
    ASSUME TypeOK, NEW s, NEW l, NEW w, Stops(s, l, w)
    PROVE  troubles' \in 0 .. MaxTroubles
BY DlcContractAssumption DEF TypeOK, Stops

LEMMA CoinFree ==
    ASSUME NEW p \in Party, FreeCoins(p) # {}
    PROVE  Coin(p) \in Coins /\ Coin(p) \notin reserved[p]
<1>1. Coin(p) \in FreeCoins(p)
  BY DEF Coin
<1> QED BY <1>1 DEF FreeCoins

LEMMA RecordType ==
    ASSUME NEW d \in Deals
    PROVE  /\ NoRecord \in Record
           /\ ReceivedRecord(d) \in Record
           /\ \A c \in Coins : OfferedRecord(d, c) \in Record
           /\ \A r \in Record, c \in Coins : AcceptedRecord(r, d, c) \in Record
           /\ \A r \in Record : /\ SignedByOffer(r, d) \in Record
                                /\ SignedByAccept(r, d) \in Record
                                /\ FailedRecord(r, d, "FailedAccept") \in Record
                                /\ FailedRecord(r, d, "FailedSign") \in Record
<1>1. NoRecord \in Record
  BY DEF NoRecord, Record, ContractState, ChannelState
<1>2. ReceivedRecord(d) \in Record
  BY DEF ReceivedRecord, NoRecord, Record, ContractState, ChannelState
<1>3. \A c \in Coins : OfferedRecord(d, c) \in Record
  BY DEF OfferedRecord, NoRecord, Record, ContractState, ChannelState
<1>4. \A r \in Record, c \in Coins : AcceptedRecord(r, d, c) \in Record
  BY DEF AcceptedRecord, AcceptedContract, Record, ContractState, ChannelState
<1>5. \A r \in Record : SignedByOffer(r, d) \in Record /\ SignedByAccept(r, d) \in Record
  BY DEF SignedByOffer, SignedByAccept, Record, ContractState, ChannelState
<1>6. \A r \in Record : /\ FailedRecord(r, d, "FailedAccept") \in Record
                        /\ FailedRecord(r, d, "FailedSign") \in Record
  BY DEF FailedRecord, Record, ContractState, ChannelState
<1> QED BY <1>1, <1>2, <1>3, <1>4, <1>5, <1>6

LEMMA StoreUpdate ==
    ASSUME TypeOK, NEW p \in Party, NEW d \in Deals, NEW r \in Record,
           store' = [store EXCEPT ![p][d] = r]
    PROVE  store' \in [Party -> [Deals -> Record]]
BY DEF TypeOK

LEMMA Sent ==
    ASSUME TypeOK, NEW p \in Party, NEW m \in Message, NEW N \in [Party -> Seq(Message)]
    PROVE  [N EXCEPT ![p] = Append(@, m)] \in [Party -> Seq(Message)]
BY AppendProperties

(* The steps of a party's own calls.                                       *)
LEMMA OfferType ==
    ASSUME TypeOK, NEW p \in Party, NEW d \in Deals, NEW v \in BOOLEAN, NEW s \in 1 .. 3,
           Offer(p, d, v, s)
    PROVE  TypeOK'
<1>1. Coin(p) \in Coins /\ OfferedRecord(d, Coin(p)) \in Record
  BY CoinFree, RecordType DEF Offer
<1>2. store' \in [Party -> [Deals -> Record]]
  BY <1>1, StoreUpdate DEF Offer, TypeOK
<1>3. [type |-> "Offer", deal |-> d, valid |-> TRUE] \in Message
  BY DEF Message
<1>4. net' \in [Party -> Seq(Message)]
  <2>1. [net EXCEPT ![p] = <<>>] \in [Party -> Seq(Message)]
    BY EmptySeq DEF TypeOK
  <2>2. [net EXCEPT ![Other(p)] = Append(@,
           [type |-> "Offer", deal |-> d, valid |-> TRUE])] \in [Party -> Seq(Message)]
    BY <1>3, Sent, PartyFacts DEF TypeOK
  <2> QED BY <2>1, <2>2 DEF Offer, TypeOK
<1>5. watched' \in [Party -> SUBSET ChannelDeals]
  BY ReloadType DEF Offer, TypeOK
<1>6. troubles' \in 0 .. MaxTroubles
  BY StopsType DEF Offer
<1>7. reserved' \in [Party -> SUBSET Coins]
  BY <1>1 DEF Offer, TypeOK
<1> QED BY <1>2, <1>4, <1>5, <1>6, <1>7 DEF Offer, TypeOK, chain, world

LEMMA AcceptType ==
    ASSUME TypeOK, NEW p \in Party, NEW d \in Deals, NEW v \in BOOLEAN, NEW s \in 1 .. 3,
           Accept(p, d, v, s)
    PROVE  TypeOK'
<1>1. Coin(p) \in Coins /\ AcceptedRecord(store[p][d], d, Coin(p)) \in Record
  BY CoinFree, RecordType DEF Accept, TypeOK
<1>2. store' \in [Party -> [Deals -> Record]]
  BY <1>1, StoreUpdate DEF Accept, TypeOK
<1>3. [type |-> "Accept", deal |-> d, valid |-> v] \in Message
  BY DEF Message
<1>4. net' \in [Party -> Seq(Message)]
  <2>1. [net EXCEPT ![p] = <<>>] \in [Party -> Seq(Message)]
    BY EmptySeq DEF TypeOK
  <2>2. [net EXCEPT ![Other(p)] = Append(@,
           [type |-> "Accept", deal |-> d, valid |-> v])] \in [Party -> Seq(Message)]
    BY <1>3, Sent, PartyFacts DEF TypeOK
  <2> QED BY <2>1, <2>2 DEF Accept, TypeOK
<1>5. watched' \in [Party -> SUBSET ChannelDeals]
  BY ReloadType DEF Accept, TypeOK
<1>6. troubles' \in 0 .. MaxTroubles
  BY StopsType DEF Accept
<1>7. reserved' \in [Party -> SUBSET Coins]
  BY <1>1 DEF Accept, TypeOK
<1> QED BY <1>2, <1>4, <1>5, <1>6, <1>7 DEF Accept, TypeOK, chain, world

(* The record of a rejected channel.                                       *)
RejectedRecord(r) == [r EXCEPT !.channel = "Cancelled", !.contract = "Rejected"]

LEMMA RejectedType ==
    ASSUME NEW r \in Record
    PROVE  RejectedRecord(r) \in Record
BY DEF RejectedRecord, Record, ContractState, ChannelState

LEMMA TwoFields ==
    ASSUME NEW p, NEW d
    PROVE  [store EXCEPT ![p][d].channel = "Cancelled", ![p][d].contract = "Rejected"]
             = [store EXCEPT ![p][d] = RejectedRecord(store[p][d])]
BY DEF RejectedRecord

LEMMA RejectType ==
    ASSUME TypeOK, NEW p \in Party, NEW d \in Deals, NEW s \in 1 .. 2, RejectChannel(p, d, s)
    PROVE  TypeOK'
<1>1. store' \in [Party -> [Deals -> Record]]
  <2>1. store' = [store EXCEPT ![p][d].channel = "Cancelled",
                               ![p][d].contract = "Rejected"]
    BY DEF RejectChannel
  <2>2. store' = [store EXCEPT ![p][d] = RejectedRecord(store[p][d])]
    BY <2>1, TwoFields
  <2> QED BY <2>2, StoreUpdate, RejectedType DEF TypeOK
<1>2. [type |-> "Reject", deal |-> d, valid |-> TRUE] \in Message
  BY DEF Message
<1>3. net' \in [Party -> Seq(Message)]
  <2>1. [net EXCEPT ![p] = <<>>] \in [Party -> Seq(Message)]
    BY EmptySeq DEF TypeOK
  <2>2. [net EXCEPT ![Other(p)] = Append(@,
           [type |-> "Reject", deal |-> d, valid |-> TRUE])] \in [Party -> Seq(Message)]
    BY <1>2, Sent, PartyFacts DEF TypeOK
  <2> QED BY <2>1, <2>2 DEF RejectChannel, TypeOK
<1>4. watched' \in [Party -> SUBSET ChannelDeals]
  BY ReloadType DEF RejectChannel, TypeOK
<1>5. troubles' \in 0 .. MaxTroubles
  BY StopsType DEF RejectChannel
<1> QED BY <1>1, <1>3, <1>4, <1>5 DEF RejectChannel, TypeOK, chain, world

(* The record of a contract after a periodic check.                        *)
CheckedRecord(r, c, x) == [r EXCEPT !.contract = c, !.cet = x]

LEMMA CheckedType ==
    ASSUME NEW r \in Record, NEW c \in ContractState, NEW x \in Outcomes \cup {"None"}
    PROVE  CheckedRecord(r, c, x) \in Record
BY DEF CheckedRecord, Record

(* The look-up finds a CET of outcome x.                                   *)
Finds(d, got, x) == d \in ContractDeals /\ \E t \in LookUp(d, got) : t.cet = x

LEMMA FindsOutcome ==
    ASSUME TypeOK, NEW d, NEW got, NEW x, Finds(d, got, x)
    PROVE  x \in Outcomes
<1>1. PICK t \in LookUp(d, got) : t.cet = x
  BY DEF Finds
<1>2. descriptor[d] \in {"Enum", "Numerical", "Difference"}
  BY DlcContractAssumption DEF Finds, TypeOK
<1>3. t \in EnumLookUp(got) => t.cet \in Outcomes
  BY DEF EnumLookUp, Agreement
<1>4. t \in NumericalLookUp(got) => t.cet \in Outcomes
  BY DEF NumericalLookUp, Agreement
<1>5. t \in DifferenceLookUp(got) => t.cet \in Outcomes
  BY DEF DifferenceLookUp
<1> QED BY <1>1, <1>2, <1>3, <1>4, <1>5 DEF LookUp

(* What a periodic check leaves behind.                                    *)
Checked(p, d, got, x, c, y) ==
    /\ store[p][d].contract \in Held
    /\ store' = [store EXCEPT ![p][d] = CheckedRecord(store[p][d], c, y)]
    /\ y = store[p][d].cet \/ (y = x /\ Finds(d, got, x))
    /\ \/ pool' = pool
       \/ pool' = [pool EXCEPT ![p][d] = "Refund"]
       \/ pool' = [pool EXCEPT ![p][d] = x] /\ Finds(d, got, x)
    /\ net' = [net EXCEPT ![p] = <<>>] \/ net' = net
    /\ watched' = [watched EXCEPT ![p] = stored[p]] \/ watched' = watched
    /\ troubles' \in 0 .. MaxTroubles
    /\ UNCHANGED <<reserved, stored, fund, spent, torn, world>>

LEMMA PeriodicEffect ==
    ASSUME TypeOK, NEW p \in Party, NEW d \in Deals, NEW got \in SUBSET Attested,
           NEW s \in 1 .. 3, PeriodicCheck(p, got, d, s)
    PROVE  \E x \in Outcomes \cup {"None"}, c \in Held, y \in Outcomes \cup {"None"} :
              Checked(p, d, got, x, c, y)
<1>1. PICK t \in Found(d, got) : PeriodicCheck(p, got, d, s)!4!(t)
  BY DEF PeriodicCheck
<1> DEFINE x == t.cet
           c == AfterSigned(store[p][d].contract)
           does == IF c = "Confirmed" /\ d \in ContractDeals
                   THEN Closing(p, d, got, t) ELSE "Stays"
           sends == does \in {"SendCet", "SendRefund"}
           last == IF sends THEN 3 ELSE 2
           half == CloseContract(does, c)
           final == AfterPreClosed(half)
           new == CASE s = last -> final [] s = 2 -> half [] OTHER -> c
           y == IF does \in {"SendCet", "Closed"} /\ s > 1 THEN x ELSE store[p][d].cet
<1>2. (t \in LookUp(d, got) /\ d \in ContractDeals) \/ t = NotFound
  BY DEF Found
<1>3. store[p][d] \in Record /\ store[p][d].cet \in Outcomes \cup {"None"}
  BY DEF TypeOK, Record
<1>4. does \in {"SendCet", "Closed"} => Finds(d, got, x)
  BY <1>2 DEF Closing, Finds
<1>4a. Finds(d, got, x) => x \in Outcomes
  BY FindsOutcome
<1>4b. x \in Outcomes \cup {"None"}
  BY <1>2, <1>4a DEF Finds, NotFound
<1>5. store[p][d].contract \in {"Signed", "Confirmed", "PreClosed"}
  BY DEF PeriodicCheck
<1>6. c \in {"Confirmed", "PreClosed"}
  BY <1>5 DEF AfterSigned
<1>7. half \in {"Confirmed", "PreClosed", "Closed", "Refunded"}
  BY <1>6 DEF CloseContract
<1>8. final \in {"Confirmed", "Closed", "Refunded"}
  BY <1>7 DEF AfterPreClosed
<1>9. new \in Held
  BY <1>6, <1>7, <1>8 DEF Held
<1>10. y \in Outcomes \cup {"None"}
  BY <1>3, <1>4b
<1>11. store' = [store EXCEPT ![p][d].contract = new, ![p][d].cet = y]
  BY <1>1
<1> HIDE DEF new, y
<1>12. store' = [store EXCEPT ![p][d] = CheckedRecord(store[p][d], new, y)]
  BY <1>11 DEF CheckedRecord
<1>13. \/ pool' = pool
       \/ pool' = [pool EXCEPT ![p][d] = "Refund"]
       \/ pool' = [pool EXCEPT ![p][d] = x] /\ Finds(d, got, x)
  BY <1>1, <1>4
<1>14. net' = [net EXCEPT ![p] = <<>>] \/ net' = net
  BY <1>1
<1>15. watched' = [watched EXCEPT ![p] = stored[p]] \/ watched' = watched
  BY <1>1 DEF Reload, TypeOK
<1>16. troubles' \in 0 .. MaxTroubles
  BY <1>1, StopsType
<1>17. UNCHANGED <<reserved, stored, fund, spent, torn, world>>
  BY DEF PeriodicCheck
<1>18. y = store[p][d].cet \/ (y = x /\ Finds(d, got, x))
  BY <1>4 DEF y
<1>19. store[p][d].contract \in Held
  BY <1>5 DEF Held
<1>20. Checked(p, d, got, x, new, y)
  BY <1>12, <1>13, <1>14, <1>15, <1>16, <1>17, <1>18, <1>19 DEF Checked
<1> QED BY <1>4b, <1>9, <1>10, <1>20

LEMMA CheckType ==
    ASSUME TypeOK, NEW p \in Party, NEW d \in Deals, NEW got \in SUBSET Attested,
           NEW s \in 1 .. 3, PeriodicCheck(p, got, d, s)
    PROVE  TypeOK'
<1>1. PICK x \in Outcomes \cup {"None"}, c \in Held, y \in Outcomes \cup {"None"} :
             Checked(p, d, got, x, c, y)
  BY PeriodicEffect
<1>2. store' \in [Party -> [Deals -> Record]]
  <2>1. c \in ContractState /\ store[p][d] \in Record
    BY DEF Held, ContractState, TypeOK
  <2>2. CheckedRecord(store[p][d], c, y) \in Record
    BY <2>1, CheckedType
  <2> QED BY <1>1, <2>2, StoreUpdate DEF Checked
<1>3. pool' \in [Party -> [Deals -> Spending \cup {"None"}]]
  <2>1. PICK tx \in Spending : pool' = pool \/ pool' = [pool EXCEPT ![p][d] = tx]
    BY <1>1, FindsOutcome DEF Checked, Spending
  <2>2. pool \in [Party -> [Deals -> Spending \cup {"None"}]]
    BY DEF TypeOK
  <2> QED BY <2>1, <2>2
<1>4. net' \in [Party -> Seq(Message)]
  <2>1. net' = [net EXCEPT ![p] = <<>>] \/ net' = net
    BY <1>1 DEF Checked
  <2>2. net \in [Party -> Seq(Message)]
    BY DEF TypeOK
  <2> QED BY <2>1, <2>2, EmptySeq
<1>5. watched' \in [Party -> SUBSET ChannelDeals]
  BY <1>1 DEF Checked, TypeOK
<1> QED BY <1>1, <1>2, <1>3, <1>4, <1>5 DEF Checked, TypeOK, world

(* The steps that handle a message.                                        *)
LEMMA OnOfferType ==
    ASSUME TypeOK, NEW p \in Party, OnOffer(p)
    PROVE  TypeOK'
<1> DEFINE d == Head(net[p]).deal
<1>1. d \in Deals /\ net' \in [Party -> Seq(Message)]
  BY HeadTail DEF OnOffer, Is, TypeOK
<1>2. ReceivedRecord(d) \in Record
  BY <1>1, RecordType
<1>3. store' = store \/ store' = [store EXCEPT ![p][d] = ReceivedRecord(d)]
  BY DEF OnOffer
<1>4. store' \in [Party -> [Deals -> Record]]
  BY <1>1, <1>2, <1>3, StoreUpdate DEF TypeOK
<1> QED BY <1>1, <1>4 DEF OnOffer, TypeOK, chain, world

LEMMA OnRejectType ==
    ASSUME TypeOK, NEW p \in Party, NEW s \in 1 .. 2, OnReject(p, s)
    PROVE  TypeOK'
<1> DEFINE d == Head(net[p]).deal
<1>1. d \in Deals /\ net' \in [Party -> Seq(Message)]
  BY HeadTail, HandledType DEF OnReject, Is, TypeOK
<1>2. \/ store' = store
      \/ store' = [store EXCEPT ![p][d].channel = "Cancelled", ![p][d].contract = "Rejected"]
  BY DEF OnReject
<1>3. store' = store \/ store' = [store EXCEPT ![p][d] = RejectedRecord(store[p][d])]
  BY <1>2, TwoFields
<1>4. store' \in [Party -> [Deals -> Record]]
  <2>1. RejectedRecord(store[p][d]) \in Record
    BY <1>1, RejectedType DEF TypeOK
  <2> HIDE DEF d
  <2> QED BY <1>1, <1>3, <2>1, StoreUpdate DEF TypeOK
<1>5. reserved' \in [Party -> SUBSET Coins]
  BY DEF OnReject, TypeOK
<1>6. watched' \in [Party -> SUBSET ChannelDeals]
  BY ReloadType DEF OnReject, TypeOK
<1>7. troubles' \in 0 .. MaxTroubles
  BY StopsType DEF OnReject
<1> QED BY <1>1, <1>4, <1>5, <1>6, <1>7 DEF OnReject, TypeOK, chain, world

(* What a chain monitor becomes in memory and on disk.                     *)
Kept(p, mem, disk) ==
    /\ watched[p] \subseteq mem
    /\ stored[p] \subseteq watched[p] => stored[p] \subseteq disk /\ disk \subseteq mem
    /\ stored' = [stored EXCEPT ![p] = disk]
    /\ \/ watched' = [watched EXCEPT ![p] = mem]
       \/ watched' = [watched EXCEPT ![p] = disk]

(* What on_accept leaves behind: the contract is signed and Sign may be    *)
(* sent, or it failed, or the message was not for it.                      *)
SignSent(p, d, v, N) ==
    [N EXCEPT ![Other(p)] = Append(@, [type |-> "Sign", deal |-> d, valid |-> v])]

Accepts(p, s, v, d, disk) ==
    \/ /\ store[p][d].contract = "Offered" /\ store[p][d].offer
       /\ store' = [store EXCEPT ![p][d] = SignedByOffer(store[p][d], d)]
       /\ \/ net' = Handled(p, s, 3)
          \/ /\ net' = SignSent(p, d, v, Handled(p, s, 3))
             /\ d \in ChannelDeals => d \in disk
    \/ /\ store[p][d].contract = "Offered"
       /\ store' = [store EXCEPT ![p][d] = FailedRecord(store[p][d], d, "FailedAccept")]
       /\ net' = Handled(p, s, 3)
    \/ store' = store /\ net' = Handled(p, s, 3)

LEMMA SameExcept ==
    ASSUME TypeOK, NEW p \in Party, net[p] # <<>>, NEW s, NEW l
    PROVE  [Handled(p, s, l) EXCEPT ![Other(p)] = @] = Handled(p, s, l)
BY HandledType, PartyFacts

LEMMA AcceptEffect ==
    ASSUME TypeOK, NEW p \in Party, NEW s \in 1 .. 3, NEW v \in BOOLEAN, OnAccept(p, s, v)
    PROVE  \E mem, disk \in SUBSET ChannelDeals :
              Kept(p, mem, disk) /\ Accepts(p, s, v, Head(net[p]).deal, disk)
<1> DEFINE d == Head(net[p]).deal
           r == store[p][d]
           mine == r.contract = "Offered"
                   /\ (d \in ChannelDeals => r.channel = "Offered")
           good == mine /\ AcceptVerifies(r, Head(net[p]))
           mem == IF good /\ Watches(d) THEN watched[p] \cup {d} ELSE watched[p]
           disk == IF good /\ Watches(d) /\ s >= AcceptSteps.persist
                   THEN mem ELSE stored[p]
<1>1. d \in Deals /\ net[p] # <<>>
  BY HeadTail DEF OnAccept, Is
<1>2. mem \in SUBSET ChannelDeals /\ disk \in SUBSET ChannelDeals
  BY DEF TypeOK, Watches
<1>3. Stops(s, 3, ~v) /\ stored' = [stored EXCEPT ![p] = disk] /\ Reload(p, mem, disk, s, 3)
  BY DEF OnAccept
<1>4. Kept(p, mem, disk)
  <2>1. \/ watched' = [watched EXCEPT ![p] = mem]
        \/ watched' = [watched EXCEPT ![p] = disk]
    BY <1>3 DEF Reload
  <2>2. watched[p] \subseteq mem
    OBVIOUS
  <2>3. stored[p] \subseteq watched[p] => stored[p] \subseteq disk /\ disk \subseteq mem
    OBVIOUS
  <2> QED BY <1>3, <2>1, <2>2, <2>3 DEF Kept
<1>5. ~good => s = 3 /\ v
  BY DEF OnAccept
<1>6. net' = [Handled(p, s, 3) EXCEPT ![Other(p)] =
                IF good /\ s >= AcceptSteps.send
                THEN Append(@, [type |-> "Sign", deal |-> d, valid |-> v]) ELSE @]
  BY DEF OnAccept
<1>7. store' = CASE good /\ s >= AcceptSteps.store ->
                      [store EXCEPT ![p][d] = SignedByOffer(r, d)]
                 [] mine /\ ~good ->
                      [store EXCEPT ![p][d] = FailedRecord(r, d, "FailedAccept")]
                 [] OTHER -> store
  BY DEF OnAccept
<1>8. AcceptSteps.store = 1 /\ AcceptSteps.persist = 2 /\ AcceptSteps.send = 3
  BY DEF AcceptSteps
<1>9. ~(good /\ s >= AcceptSteps.send) => net' = Handled(p, s, 3)
  BY <1>1, <1>6, SameExcept
<1>10. good /\ s >= AcceptSteps.send => net' = SignSent(p, d, v, Handled(p, s, 3))
  BY <1>6 DEF SignSent
<1>11. good /\ s >= AcceptSteps.send /\ d \in ChannelDeals => d \in disk
  BY <1>8 DEF Watches
<1>12. good => r.contract = "Offered" /\ r.offer
  BY DEF AcceptVerifies
<1>13. mine => r.contract = "Offered"
  OBVIOUS
<1>14. good => store' = [store EXCEPT ![p][d] = SignedByOffer(r, d)]
  BY <1>7, <1>8
<1>15. mine /\ ~good => store' = [store EXCEPT ![p][d] = FailedRecord(r, d, "FailedAccept")]
  BY <1>7
<1>16. ~mine => store' = store
  BY <1>7
<1>17. ASSUME good PROVE Accepts(p, s, v, d, disk)
  <2> HIDE DEF good, disk, d
  <2> QED BY <1>17, <1>9, <1>10, <1>11, <1>12, <1>14 DEF Accepts
<1>18. ASSUME ~good PROVE Accepts(p, s, v, d, disk)
  <2>1. good => mine
    OBVIOUS
  <2> HIDE DEF good, disk, d, mine
  <2> QED BY <1>18, <2>1, <1>9, <1>13, <1>15, <1>16 DEF Accepts
<1> QED BY <1>2, <1>4, <1>17, <1>18

LEMMA OnAcceptType ==
    ASSUME TypeOK, NEW p \in Party, NEW s \in 1 .. 3, NEW v \in BOOLEAN, OnAccept(p, s, v)
    PROVE  TypeOK'
<1> DEFINE d == Head(net[p]).deal
<1>1. d \in Deals /\ net[p] # <<>>
  BY HeadTail DEF OnAccept, Is
<1> HIDE DEF d
<1>2. PICK mem \in SUBSET ChannelDeals, disk \in SUBSET ChannelDeals :
             Kept(p, mem, disk) /\ Accepts(p, s, v, d, disk)
  BY AcceptEffect DEF d
<1>3. /\ watched' \in [Party -> SUBSET ChannelDeals]
      /\ stored' \in [Party -> SUBSET ChannelDeals]
  BY <1>2 DEF Kept, TypeOK
<1>4. /\ SignedByOffer(store[p][d], d) \in Record
      /\ FailedRecord(store[p][d], d, "FailedAccept") \in Record
  BY <1>1, RecordType DEF TypeOK
<1>5. store' \in [Party -> [Deals -> Record]]
  <2>1. \/ store' = store
        \/ store' = [store EXCEPT ![p][d] = SignedByOffer(store[p][d], d)]
        \/ store' = [store EXCEPT ![p][d] = FailedRecord(store[p][d], d, "FailedAccept")]
    BY <1>2 DEF Accepts
  <2> QED BY <1>1, <1>4, <2>1, StoreUpdate DEF TypeOK
<1>6. net' \in [Party -> Seq(Message)]
  <2>1. [type |-> "Sign", deal |-> d, valid |-> v] \in Message
    BY <1>1 DEF Message
  <2>2. Handled(p, s, 3) \in [Party -> Seq(Message)]
    BY <1>1, HandledType
  <2>3. SignSent(p, d, v, Handled(p, s, 3)) \in [Party -> Seq(Message)]
    BY <2>1, <2>2, Sent, PartyFacts DEF SignSent
  <2> QED BY <1>2, <2>2, <2>3 DEF Accepts
<1>7. troubles' \in 0 .. MaxTroubles
  BY StopsType DEF OnAccept
<1> QED BY <1>3, <1>5, <1>6, <1>7 DEF OnAccept, TypeOK, chain, world

(* What on_sign leaves behind: coins reach the funding output only from an *)
(* accepted contract, and then the contract is signed and, of a channel,   *)
(* the monitor on disk, or the deal is torn.                               *)
Signs(p, d, disk) ==
    /\ \/ store' = store
       \/ /\ store[p][d].contract = "Accepted"
          /\ store' = [store EXCEPT ![p][d] = SignedByAccept(store[p][d], d)]
       \/ /\ store[p][d].contract = "Accepted" /\ fund' = fund
          /\ store' = [store EXCEPT ![p][d] = FailedRecord(store[p][d], d, "FailedSign")]
    /\ \/ fund' = fund
       \/ /\ fund' = [fund EXCEPT ![d] = "Pool"] /\ store[p][d].contract = "Accepted"
          /\ \/ d \in torn'
             \/ /\ store' = [store EXCEPT ![p][d] = SignedByAccept(store[p][d], d)]
                /\ d \in ChannelDeals => d \in disk
    /\ torn' = torn \/ (torn' = torn \cup {d} /\ d \in ChannelDeals)

LEMMA SignEffect ==
    ASSUME TypeOK, NEW p \in Party, NEW s \in 1 .. 3, NEW v \in BOOLEAN, OnSign(p, s, v)
    PROVE  \E mem, disk \in SUBSET ChannelDeals, l \in {2, 3} :
              /\ Kept(p, mem, disk) /\ Signs(p, Head(net[p]).deal, disk)
              /\ net' = Handled(p, s, l)
<1> DEFINE d == Head(net[p]).deal
           r == store[p][d]
           last == IF d \in ChannelDeals THEN 3 ELSE 2
           mine == r.contract = "Accepted"
                   /\ (d \in ChannelDeals => r.channel = "Accepted")
           good == mine /\ SignVerifies(Head(net[p]))
           takes == v /\ FundValid(d)
           steps == SignSteps(d)
           Done(step) == good /\ s >= step
                         /\ (takes \/ step < steps.broadcast)
           mem == IF good /\ Watches(d) THEN watched[p] \cup {d} ELSE watched[p]
           disk == IF Watches(d) /\ Done(steps.persist) THEN mem ELSE stored[p]
<1>1. d \in Deals /\ net[p] # <<>>
  BY HeadTail DEF OnSign, Is
<1>2. mem \in SUBSET ChannelDeals /\ disk \in SUBSET ChannelDeals
  BY DEF TypeOK, Watches
<1>3. /\ Stops(s, last, ~v) /\ stored' = [stored EXCEPT ![p] = disk]
      /\ Reload(p, mem, disk, s, last) /\ net' = Handled(p, s, last)
  BY DEF OnSign
<1>4. Kept(p, mem, disk)
  <2>1. \/ watched' = [watched EXCEPT ![p] = mem]
        \/ watched' = [watched EXCEPT ![p] = disk]
    BY <1>3 DEF Reload
  <2>2. watched[p] \subseteq mem
    OBVIOUS
  <2>3. stored[p] \subseteq watched[p] => stored[p] \subseteq disk /\ disk \subseteq mem
    OBVIOUS
  <2> QED BY <1>3, <2>1, <2>2, <2>3 DEF Kept
<1>5. ~good => s = last /\ v
  BY DEF OnSign
<1>6. fund' = IF Done(steps.broadcast) THEN [fund EXCEPT ![d] = "Pool"] ELSE fund
  BY DEF OnSign
<1>7. store' = CASE Done(steps.store) ->
                      [store EXCEPT ![p][d] = SignedByAccept(r, d)]
                 [] mine /\ ~good ->
                      [store EXCEPT ![p][d] = FailedRecord(r, d, "FailedSign")]
                 [] OTHER -> store
  BY DEF OnSign
<1>8. torn' = IF d \in ChannelDeals /\ good /\ takes /\ s < last THEN torn \cup {d} ELSE torn
  BY DEF OnSign
<1>9. /\ d \in ChannelDeals => steps.broadcast = 1 /\ steps.store = 2 /\ steps.persist = 3
      /\ d \notin ChannelDeals => steps.broadcast = 2 /\ steps.store = 1 /\ steps.persist = 2
  BY DEF SignSteps
<1>10. s \in 1 .. last
  BY <1>3 DEF Stops
<1>11. good => mine
  OBVIOUS
<1>12. mine => r.contract = "Accepted"
  OBVIOUS
<1>13. Watches(d) = (d \in ChannelDeals)
  BY DEF Watches
<1>14. (Watches(d) /\ Done(steps.persist) => disk = mem) /\ (good /\ Watches(d) => d \in mem)
  OBVIOUS
<1>15. last \in {2, 3} /\ (d \in ChannelDeals => last = 3) /\ (d \notin ChannelDeals => last = 2)
  OBVIOUS
<1> HIDE DEF mem, disk, d, mine, good, takes, steps, last
<1>16. /\ \/ store' = store
          \/ /\ r.contract = "Accepted"
             /\ store' = [store EXCEPT ![p][d] = SignedByAccept(store[p][d], d)]
          \/ /\ r.contract = "Accepted" /\ fund' = fund
             /\ store' = [store EXCEPT ![p][d] = FailedRecord(store[p][d], d, "FailedSign")]
  BY <1>6, <1>7, <1>11, <1>12
<1>17. CASE Done(steps.broadcast)
  <2>1. r.contract = "Accepted" /\ fund' = [fund EXCEPT ![d] = "Pool"]
    BY <1>6, <1>11, <1>12, <1>17
  <2>2. ASSUME d \in ChannelDeals, s < 3 PROVE Signs(p, d, disk)
    <3>1. torn' = torn \cup {d}
      BY <1>8, <1>15, <1>17, <1>9, <2>2
    <3> QED BY <1>16, <2>1, <2>2, <3>1 DEF Signs
  <2>3. ASSUME d \in ChannelDeals, s = 3 PROVE Signs(p, d, disk)
    <3>1. Done(steps.store) /\ Done(steps.persist)
      BY <1>9, <1>17, <2>3
    <3>2. store' = [store EXCEPT ![p][d] = SignedByAccept(store[p][d], d)]
      BY <1>7, <3>1
    <3>3. d \in disk
      BY <1>13, <1>14, <3>1, <2>3
    <3> QED BY <1>8, <1>15, <2>1, <2>3, <3>2, <3>3 DEF Signs
  <2>4. ASSUME d \notin ChannelDeals PROVE Signs(p, d, disk)
    <3>1. Done(steps.store)
      BY <1>9, <1>17, <2>4
    <3>2. store' = [store EXCEPT ![p][d] = SignedByAccept(store[p][d], d)]
      BY <1>7, <3>1
    <3> QED BY <1>8, <2>1, <2>4, <3>2 DEF Signs
  <2>5. s \in 1 .. 3
    OBVIOUS
  <2> QED BY <2>2, <2>3, <2>4, <2>5, <1>2, <1>3, <1>4, <1>15 DEF d
<1>18. CASE ~Done(steps.broadcast)
  <2>1. fund' = fund
    BY <1>6, <1>18
  <2> QED BY <2>1, <1>2, <1>3, <1>4, <1>8, <1>15, <1>16 DEF Signs, d
<1> QED BY <1>17, <1>18

LEMMA OnSignType ==
    ASSUME TypeOK, NEW p \in Party, NEW s \in 1 .. 3, NEW v \in BOOLEAN, OnSign(p, s, v)
    PROVE  TypeOK'
<1> DEFINE d == Head(net[p]).deal
<1>1. d \in Deals /\ net[p] # <<>>
  BY HeadTail DEF OnSign, Is
<1> HIDE DEF d
<1>2. PICK mem \in SUBSET ChannelDeals, disk \in SUBSET ChannelDeals, l \in {2, 3} :
             Kept(p, mem, disk) /\ Signs(p, d, disk) /\ net' = Handled(p, s, l)
  BY SignEffect DEF d
<1>3. /\ watched' \in [Party -> SUBSET ChannelDeals]
      /\ stored' \in [Party -> SUBSET ChannelDeals]
  BY <1>2 DEF Kept, TypeOK
<1>4. /\ SignedByAccept(store[p][d], d) \in Record
      /\ FailedRecord(store[p][d], d, "FailedSign") \in Record
  BY <1>1, RecordType DEF TypeOK
<1>5. store' \in [Party -> [Deals -> Record]]
  <2>1. \/ store' = store
        \/ store' = [store EXCEPT ![p][d] = SignedByAccept(store[p][d], d)]
        \/ store' = [store EXCEPT ![p][d] = FailedRecord(store[p][d], d, "FailedSign")]
    BY <1>2 DEF Signs
  <2> QED BY <1>1, <1>4, <2>1, StoreUpdate DEF TypeOK
<1>6. net' \in [Party -> Seq(Message)]
  BY <1>1, <1>2, HandledType
<1>7. troubles' \in 0 .. MaxTroubles
  BY StopsType DEF OnSign
<1>8. fund' \in [Deals -> {"None", "Pool", "Mined"}] /\ torn' \subseteq ChannelDeals
  BY <1>1, <1>2 DEF Signs, TypeOK
<1> QED BY <1>3, <1>5, <1>6, <1>7, <1>8 DEF OnSign, TypeOK, world

(* The steps of the chain, the oracles, the clock and the transport.       *)
LEMMA WorldType ==
    ASSUME TypeOK,
           \/ \E d \in Deals : MineFund(d) \/ MineSpend(d)
           \/ \E p \in Party, d \in Deals : Relay(p, d)
           \/ \E i \in Oracles, x \in Outcomes : Attest(i, x)
           \/ Tick
           \/ \E p \in Party : Lose(p) \/ Restart(p)
    PROVE  TypeOK'
<1>1. ASSUME NEW d \in Deals, MineFund(d) PROVE TypeOK'
  BY <1>1 DEF MineFund, TypeOK, world
<1>2. ASSUME NEW d \in Deals, MineSpend(d) PROVE TypeOK'
  <2>1. PICK p \in Party : spent' = [spent EXCEPT ![d] = pool[p][d]]
    BY <1>2 DEF MineSpend
  <2>2. spent' \in [Deals -> Spending \cup {"None"}]
    BY <2>1 DEF TypeOK
  <2>3. "None" \in Spending \cup {"None"}
    OBVIOUS
  <2>4. pool' \in [Party -> [Deals -> Spending \cup {"None"}]]
    BY <1>2, <2>3 DEF TypeOK, MineSpend
  <2> QED BY <1>2, <2>2, <2>4 DEF MineSpend, TypeOK, world
<1>3. ASSUME NEW p \in Party, NEW d \in Deals, Relay(p, d) PROVE TypeOK'
  BY <1>3, PartyFacts DEF Relay, TypeOK, world
<1>4. ASSUME NEW i \in Oracles, NEW x \in Outcomes, Attest(i, x) PROVE TypeOK'
  BY <1>4 DEF Attest, TypeOK, chain
<1>5. ASSUME Tick PROVE TypeOK'
  BY <1>5, DlcContractAssumption DEF Tick, TypeOK, chain
<1>6. ASSUME NEW p \in Party, Lose(p) PROVE TypeOK'
  <2>1. net' \in [Party -> Seq(Message)]
    BY <1>6, HeadTail DEF Lose, TypeOK
  <2> QED BY <1>6, <2>1, DlcContractAssumption DEF Lose, TypeOK, chain, world
<1>7. ASSUME NEW p \in Party, Restart(p) PROVE TypeOK'
  <2>1. net' \in [Party -> Seq(Message)]
    BY <1>7, EmptySeq DEF Restart, TypeOK
  <2> QED BY <1>7, <2>1, DlcContractAssumption DEF Restart, TypeOK, chain, world
<1> QED BY <1>1, <1>2, <1>3, <1>4, <1>5, <1>6, <1>7

LEMMA TypeInit ==
    ASSUME Init
    PROVE  TypeOK
<1>1. NoRecord \in Record
  BY DEF NoRecord, Record, ContractState, ChannelState
<1> QED BY <1>1, EmptySeq, DlcContractAssumption DEF Init, TypeOK

LEMMA TypeStep ==
    ASSUME TypeOK, [Next]_vars
    PROVE  TypeOK'
<1>1. CASE Next
  BY <1>1, OfferType, AcceptType, RejectType, OnOfferType, OnRejectType, OnAcceptType,
     OnSignType, CheckType, WorldType DEF Next
<1>2. CASE UNCHANGED vars
  BY <1>2 DEF vars, TypeOK, chain, world
<1> QED BY <1>1, <1>2

(* Every reachable state of the setup and closing of contracts is well     *)
(* typed: every record the handlers of DlcContract store is one the stores *)
(* can hold.                                                               *)
THEOREM TypeCorrect == Spec => []TypeOK
<1>1. Init => TypeOK
  BY TypeInit
<1>2. TypeOK /\ [Next]_vars => TypeOK'
  BY TypeStep
<1> QED BY <1>1, <1>2, PTL DEF Spec

-----------------------------------------------------------------------------
(* What the records that handlers store have in common.                    *)

LEMMA RecordFields ==
    ASSUME NEW r \in Record, NEW d \in Deals, NEW k, NEW x
    PROVE  /\ LET n == OfferedRecord(d, k) IN
                n.contract = "Offered" /\ n.offer /\ n.coin = k
           /\ LET n == ReceivedRecord(d) IN
                n.contract = "Offered" /\ ~n.offer /\ n.coin = "None"
           /\ LET n == AcceptedRecord(r, d, k) IN
                n.contract = "Accepted" /\ n.offer = r.offer /\ n.coin = k
           /\ LET n == RejectedRecord(r) IN
                n.contract = "Rejected" /\ n.offer = r.offer /\ n.coin = r.coin
           /\ LET n == SignedByOffer(r, d) IN
                n.contract = "Signed" /\ n.offer = r.offer /\ n.coin = r.coin
           /\ LET n == SignedByAccept(r, d) IN
                n.contract = "Signed" /\ n.offer = r.offer /\ n.coin = r.coin
           /\ LET n == FailedRecord(r, d, x) IN
                n.contract \in {r.contract, x} /\ n.offer = r.offer /\ n.coin = r.coin
           /\ LET n == CheckedRecord(r, k, x) IN
                n.contract = k /\ n.offer = r.offer /\ n.coin = r.coin
<1>1. LET n == OfferedRecord(d, k) IN n.contract = "Offered" /\ n.offer /\ n.coin = k
  BY DEF OfferedRecord, NoRecord
<1>2. LET n == ReceivedRecord(d) IN n.contract = "Offered" /\ ~n.offer /\ n.coin = "None"
  BY DEF ReceivedRecord, NoRecord
<1>3. LET n == AcceptedRecord(r, d, k) IN
        n.contract = "Accepted" /\ n.offer = r.offer /\ n.coin = k
  BY DEF AcceptedRecord, AcceptedContract, Record
<1>4. LET n == RejectedRecord(r) IN
        n.contract = "Rejected" /\ n.offer = r.offer /\ n.coin = r.coin
  BY DEF RejectedRecord, Record
<1>5. LET n == SignedByOffer(r, d) IN
        n.contract = "Signed" /\ n.offer = r.offer /\ n.coin = r.coin
  BY DEF SignedByOffer, Record
<1>6. LET n == SignedByAccept(r, d) IN
        n.contract = "Signed" /\ n.offer = r.offer /\ n.coin = r.coin
  BY DEF SignedByAccept, Record
<1>7. LET n == FailedRecord(r, d, x) IN
        n.contract \in {r.contract, x} /\ n.offer = r.offer /\ n.coin = r.coin
  BY DEF FailedRecord, Record
<1>8. LET n == CheckedRecord(r, k, x) IN
        n.contract = k /\ n.offer = r.offer /\ n.coin = r.coin
  BY DEF CheckedRecord, Record
<1> QED BY <1>1, <1>2, <1>3, <1>4, <1>5, <1>6, <1>7, <1>8

LEMMA SignedFields ==
    ASSUME NEW r \in Record, NEW d \in Deals
    PROVE  /\ SignedByOffer(r, d).contract = "Signed"
           /\ SignedByOffer(r, d).offer = r.offer /\ SignedByOffer(r, d).coin = r.coin
           /\ SignedByAccept(r, d).contract = "Signed"
           /\ SignedByAccept(r, d).offer = r.offer /\ SignedByAccept(r, d).coin = r.coin
BY RecordFields

LEMMA NewFields ==
    ASSUME NEW r \in Record, NEW d \in Deals, NEW k \in Coins
    PROVE  /\ OfferedRecord(d, k) \in Record /\ OfferedRecord(d, k).contract = "Offered"
           /\ OfferedRecord(d, k).offer /\ OfferedRecord(d, k).coin = k
           /\ AcceptedRecord(r, d, k) \in Record
           /\ AcceptedRecord(r, d, k).contract = "Accepted"
           /\ AcceptedRecord(r, d, k).offer = r.offer /\ AcceptedRecord(r, d, k).coin = k
<1>1. OfferedRecord(d, k) \in Record /\ AcceptedRecord(r, d, k) \in Record
  BY RecordType
<1> QED BY <1>1, RecordFields

LEMMA FailedFields ==
    ASSUME NEW r \in Record, NEW d \in Deals, NEW x
    PROVE  /\ FailedRecord(r, d, x).contract \in {r.contract, x}
           /\ FailedRecord(r, d, x).offer = r.offer /\ FailedRecord(r, d, x).coin = r.coin
BY DEF FailedRecord, Record

LEMMA CheckedFields ==
    ASSUME NEW r \in Record, NEW c, NEW x
    PROVE  /\ CheckedRecord(r, c, x).contract = c
           /\ CheckedRecord(r, c, x).offer = r.offer /\ CheckedRecord(r, c, x).coin = r.coin
BY DEF CheckedRecord, Record

(* The messages of a queue.                                                *)
Items(s) == {s[i] : i \in 1 .. Len(s)}

LEMMA ItemsFacts ==
    /\ Items(<<>>) = {}
    /\ \A s \in Seq(Message) :
         /\ s # <<>> => Items(Tail(s)) \subseteq Items(s) /\ Head(s) \in Items(s)
         /\ \A m \in Message : Items(Append(s, m)) = Items(s) \cup {m}
<1>1. Items(<<>>) = {}
  BY DEF Items
<1>2. ASSUME NEW s \in Seq(Message), s # <<>>
      PROVE  Items(Tail(s)) \subseteq Items(s) /\ Head(s) \in Items(s)
  BY <1>2, HeadTailProperties DEF Items
<1>3. ASSUME NEW s \in Seq(Message), NEW m \in Message
      PROVE  Items(Append(s, m)) = Items(s) \cup {m}
  BY AppendProperties DEF Items
<1> QED BY <1>1, <1>2, <1>3

LEMMA HandledItems ==
    ASSUME TypeOK, NEW p \in Party, net[p] # <<>>, NEW s, NEW l, NEW q \in Party
    PROVE  Items(Handled(p, s, l)[q]) \subseteq Items(net[q])
<1>1. /\ q # p => Handled(p, s, l)[q] = net[q]
      /\ q = p => Handled(p, s, l)[q] \in {<<>>, Tail(net[p])}
  BY DEF Handled, TypeOK
<1> QED BY <1>1, ItemsFacts, HeadTail

LEMMA SentItems ==
    ASSUME NEW N \in [Party -> Seq(Message)], NEW p \in Party, NEW m \in Message,
           NEW q \in Party
    PROVE  Items([N EXCEPT ![p] = Append(@, m)][q]) \subseteq Items(N[q]) \cup {m}
<1>1. CASE q = p
  BY <1>1, ItemsFacts
<1>2. CASE q # p
  BY <1>2
<1> QED BY <1>1, <1>2

LEMMA ClearedItems ==
    ASSUME TypeOK, NEW p \in Party, NEW q \in Party
    PROVE  Items([net EXCEPT ![p] = <<>>][q]) \subseteq Items(net[q])
<1>1. CASE q = p
  BY <1>1, ItemsFacts DEF TypeOK
<1>2. CASE q # p
  BY <1>2 DEF TypeOK
<1> QED BY <1>1, <1>2

(* A step that sends one message at most.                                  *)
LEMMA SendsItems ==
    ASSUME TypeOK, NEW p \in Party, NEW m \in Message,
           \/ net' = [net EXCEPT ![p] = <<>>]
           \/ net' = [net EXCEPT ![Other(p)] = Append(@, m)]
           \/ net' = net
    PROVE  \A q \in Party : Items(net'[q]) \subseteq Items(net[q]) \cup {m}
<1> SUFFICES ASSUME NEW q \in Party
             PROVE  Items(net'[q]) \subseteq Items(net[q]) \cup {m}
  OBVIOUS
<1>1. CASE net' = [net EXCEPT ![p] = <<>>]
  BY <1>1, ClearedItems
<1>2. CASE net' = [net EXCEPT ![Other(p)] = Append(@, m)]
  <2>1. net \in [Party -> Seq(Message)] /\ Other(p) \in Party
    BY PartyFacts DEF TypeOK
  <2> QED BY <1>2, <2>1, SentItems
<1>3. CASE net' = net
  BY <1>3
<1> QED BY <1>1, <1>2, <1>3

-----------------------------------------------------------------------------
(* Coins and the way out.                                                  *)

(* A party can leave the contract alone, and after a restart it still      *)
(* watches the buffer transaction.                                         *)
Backed(p, d) ==
    store[p][d].contract \in Held /\ (d \in ChannelDeals => d \in stored[p])
(* A party did not offer the deal.                                         *)
Took(p, d) == store[p][d].contract # "None" /\ ~store[p][d].offer

FundInv ==
    /\ TypeOK
    /\ \A p \in Party : stored[p] \subseteq watched[p]
    /\ \A p \in Party, d \in Deals : store[p][d].contract = "Accepted" => Took(p, d)
    /\ \A p \in Party : \A m \in Items(net[p]) :
          m.type = "Sign" => Backed(Other(p), m.deal)
    /\ \A d \in Deals : fund[d] # "None" =>
          \A p \in Party : Backed(p, d) \/ (d \in torn /\ Took(p, d))

(* How a record may change.                                                *)
Moves(r, n) ==
    /\ r.contract \in Held => n.contract \in Held
    /\ r.contract # "None" /\ ~r.offer => n.contract # "None" /\ ~n.offer
    /\ n.contract = "Accepted" => ~n.offer
AllMove == \A p \in Party, d \in Deals : Moves(store[p][d], store'[p][d])

LEMMA StayMoves ==
    ASSUME FundInv, NEW p \in Party, NEW d \in Deals
    PROVE  Moves(store[p][d], store[p][d])
BY DEF FundInv, Moves, Took

LEMMA UpdateMoves ==
    ASSUME FundInv, NEW p \in Party, NEW d \in Deals, NEW n \in Record,
           Moves(store[p][d], n), store' = [store EXCEPT ![p][d] = n]
    PROVE  AllMove
<1> SUFFICES ASSUME NEW q \in Party, NEW e \in Deals
             PROVE  Moves(store[q][e], store'[q][e])
  BY DEF AllMove
<1>1. store'[q][e] = IF q = p /\ e = d THEN n ELSE store[q][e]
  BY DEF FundInv, TypeOK
<1> QED BY <1>1, StayMoves

(* A step that keeps the monitors in step, sends Sign only for what is     *)
(* backed, and funds no deal.                                              *)
Sound(p) ==
    /\ stored[p] \subseteq stored'[p] /\ stored'[p] \subseteq watched'[p]
    /\ \A m \in Items(net'[p]) :
          m.type = "Sign" => m \in Items(net[p]) \/ Backed(Other(p), m.deal)'

LEMMA FundKept ==
    ASSUME FundInv, TypeOK', AllMove, \A p \in Party : Sound(p), torn \subseteq torn',
           \A d \in Deals : fund'[d] # "None" /\ fund[d] = "None" =>
              \A p \in Party : Backed(p, d)' \/ (d \in torn' /\ Took(p, d)')
    PROVE  FundInv'
<1>1. ASSUME NEW p \in Party, NEW d \in Deals, Backed(p, d) PROVE Backed(p, d)'
  BY <1>1 DEF Backed, AllMove, Moves, Sound
<1>2. ASSUME NEW p \in Party, NEW d \in Deals, Took(p, d) PROVE Took(p, d)'
  BY <1>2 DEF Took, AllMove, Moves
<1>3. ASSUME NEW p \in Party, NEW d \in Deals, store'[p][d].contract = "Accepted"
      PROVE  Took(p, d)'
  BY <1>3 DEF Took, AllMove, Moves
<1>4. ASSUME NEW p \in Party, NEW m \in Items(net'[p]), m.type = "Sign"
      PROVE  Backed(Other(p), m.deal)'
  <2>1. CASE m \in Items(net[p])
    <3>1. m.deal \in Deals
      <4>1. net[p] \in Seq(Message)
        BY DEF FundInv, TypeOK
      <4>2. m \in Message
        BY <2>1, <4>1 DEF Items
      <4> QED BY <4>2 DEF Message
    <3> QED BY <1>1, <1>4, <2>1, <3>1, PartyFacts DEF FundInv
  <2> QED BY <1>4, <2>1 DEF Sound
<1>5. ASSUME NEW d \in Deals, fund'[d] # "None", NEW p \in Party
      PROVE  Backed(p, d)' \/ (d \in torn' /\ Took(p, d)')
  BY <1>1, <1>2, <1>5 DEF FundInv
<1>6. \A p \in Party : stored'[p] \subseteq watched'[p]
  BY DEF Sound
<1> QED BY <1>3, <1>4, <1>5, <1>6 DEF FundInv

Monitored == \A q \in Party : stored[q] \subseteq stored'[q] /\ stored'[q] \subseteq watched'[q]

LEMMA ReloadMonitored ==
    ASSUME FundInv, NEW p \in Party, NEW s, NEW l, UNCHANGED stored,
           Reload(p, watched[p], stored[p], s, l)
    PROVE  Monitored
BY DEF FundInv, TypeOK, Reload, Monitored

LEMMA RestartMonitored ==
    ASSUME FundInv, NEW p \in Party, stored' = stored,
           watched' = watched \/ watched' = [watched EXCEPT ![p] = stored[p]]
    PROVE  Monitored
<1> SUFFICES ASSUME NEW q \in Party
             PROVE  stored[q] \subseteq stored'[q] /\ stored'[q] \subseteq watched'[q]
  BY DEF Monitored
<1>1. watched \in [Party -> SUBSET ChannelDeals] /\ stored[q] \subseteq watched[q]
  BY DEF FundInv, TypeOK
<1> QED BY <1>1

LEMMA KeptMonitored ==
    ASSUME FundInv, NEW p \in Party, NEW mem \in SUBSET ChannelDeals,
           NEW disk \in SUBSET ChannelDeals, Kept(p, mem, disk)
    PROVE  Monitored /\ stored'[p] = disk
BY DEF FundInv, TypeOK, Kept, Monitored

LEMMA QuietSound ==
    ASSUME Monitored,
           \A q \in Party : \A m \in Items(net'[q]) : m \in Items(net[q]) \/ m.type # "Sign"
    PROVE  \A q \in Party : Sound(q)
BY DEF Sound, Monitored

LEMMA OfferFund ==
    ASSUME FundInv, NEW p \in Party, NEW d \in Deals, NEW v \in BOOLEAN, NEW s \in 1 .. 3,
           Offer(p, d, v, s)
    PROVE  FundInv'
<1>1. TypeOK /\ TypeOK'
  BY OfferType DEF FundInv
<1>2. Coin(p) \in Coins /\ OfferedRecord(d, Coin(p)) \in Record
  BY CoinFree, RecordType DEF Offer
<1>3. Moves(store[p][d], OfferedRecord(d, Coin(p)))
  <2>1. store[p][d] = NoRecord /\ NoRecord \in Record
    BY RecordType DEF Offer
  <2>2. OfferedRecord(d, Coin(p)).contract = "Offered"
    BY <2>1, RecordFields
  <2>3. NoRecord.contract = "None"
    BY DEF NoRecord
  <2> QED BY <2>1, <2>2, <2>3 DEF Moves, Held
<1>4. AllMove
  <2>1. store' = store \/ store' = [store EXCEPT ![p][d] = OfferedRecord(d, Coin(p))]
    BY DEF Offer
  <2> QED BY <1>2, <1>3, <2>1, UpdateMoves, StayMoves DEF AllMove
<1>5. Monitored
  BY ReloadMonitored DEF Offer
<1>6. ASSUME NEW q \in Party, NEW m \in Items(net'[q])
      PROVE  m \in Items(net[q]) \/ m.type # "Sign"
  <2> DEFINE new == [type |-> "Offer", deal |-> d, valid |-> TRUE]
  <2>1. new \in Message /\ new.type = "Offer"
    BY DEF Message
  <2>2. \/ net' = [net EXCEPT ![p] = <<>>]
        \/ net' = [net EXCEPT ![Other(p)] = Append(@, new)]
        \/ net' = net
    BY DEF Offer
  <2> HIDE DEF new
  <2> QED BY <1>1, <1>6, <2>1, <2>2, SendsItems
<1>7. UNCHANGED <<torn, fund>>
  BY DEF Offer, chain
<1> QED BY <1>1, <1>4, <1>5, <1>6, <1>7, QuietSound, FundKept

LEMMA AcceptFund ==
    ASSUME FundInv, NEW p \in Party, NEW d \in Deals, NEW v \in BOOLEAN, NEW s \in 1 .. 3,
           Accept(p, d, v, s)
    PROVE  FundInv'
<1>1. TypeOK /\ TypeOK' /\ store[p][d] \in Record
  BY AcceptType DEF FundInv, TypeOK
<1>2. Coin(p) \in Coins /\ AcceptedRecord(store[p][d], d, Coin(p)) \in Record
  BY <1>1, CoinFree, RecordType DEF Accept
<1>3. Moves(store[p][d], AcceptedRecord(store[p][d], d, Coin(p)))
  <2> DEFINE r == store[p][d]
             n == AcceptedRecord(r, d, Coin(p))
  <2>1. r.contract = "Offered" /\ ~r.offer
    BY DEF Accept
  <2>2. n.contract = "Accepted" /\ n.offer = r.offer
    BY <1>1, RecordFields
  <2> HIDE DEF n, r
  <2> QED BY <2>1, <2>2 DEF Moves, Held, n, r
<1>4. AllMove
  <2>1. store' = store
        \/ store' = [store EXCEPT ![p][d] = AcceptedRecord(store[p][d], d, Coin(p))]
    BY DEF Accept
  <2> QED BY <1>2, <1>3, <2>1, UpdateMoves, StayMoves DEF AllMove
<1>5. Monitored
  BY ReloadMonitored DEF Accept
<1>6. ASSUME NEW q \in Party, NEW m \in Items(net'[q])
      PROVE  m \in Items(net[q]) \/ m.type # "Sign"
  <2> DEFINE new == [type |-> "Accept", deal |-> d, valid |-> v]
  <2>1. new \in Message /\ new.type = "Accept"
    BY DEF Message
  <2>2. \/ net' = [net EXCEPT ![p] = <<>>]
        \/ net' = [net EXCEPT ![Other(p)] = Append(@, new)]
    BY DEF Accept
  <2> HIDE DEF new
  <2> QED BY <1>1, <1>6, <2>1, <2>2, SendsItems
<1>7. UNCHANGED <<torn, fund>>
  BY DEF Accept, chain
<1> QED BY <1>1, <1>4, <1>5, <1>6, <1>7, QuietSound, FundKept

LEMMA RejectFund ==
    ASSUME FundInv, NEW p \in Party, NEW d \in Deals, NEW s \in 1 .. 2, RejectChannel(p, d, s)
    PROVE  FundInv'
<1>1. TypeOK /\ TypeOK' /\ store[p][d] \in Record
  BY RejectType DEF FundInv, TypeOK
<1>2. RejectedRecord(store[p][d]) \in Record
  BY <1>1, RejectedType
<1>3. Moves(store[p][d], RejectedRecord(store[p][d]))
  BY <1>1, RecordFields DEF RejectChannel, Moves, Held
<1>4. AllMove
  <2>1. store' = [store EXCEPT ![p][d] = RejectedRecord(store[p][d])]
    BY TwoFields DEF RejectChannel
  <2> QED BY <1>2, <1>3, <2>1, UpdateMoves
<1>5. Monitored
  BY ReloadMonitored DEF RejectChannel
<1>6. ASSUME NEW q \in Party, NEW m \in Items(net'[q])
      PROVE  m \in Items(net[q]) \/ m.type # "Sign"
  <2> DEFINE new == [type |-> "Reject", deal |-> d, valid |-> TRUE]
  <2>1. new \in Message /\ new.type = "Reject"
    BY DEF Message
  <2>2. \/ net' = [net EXCEPT ![p] = <<>>]
        \/ net' = [net EXCEPT ![Other(p)] = Append(@, new)]
    BY DEF RejectChannel
  <2> HIDE DEF new
  <2> QED BY <1>1, <1>6, <2>1, <2>2, SendsItems
<1>7. UNCHANGED <<torn, fund>>
  BY DEF RejectChannel, chain
<1> QED BY <1>1, <1>4, <1>5, <1>6, <1>7, QuietSound, FundKept

LEMMA OnOfferFund ==
    ASSUME FundInv, NEW p \in Party, OnOffer(p)
    PROVE  FundInv'
<1> DEFINE d == Head(net[p]).deal
<1>1. TypeOK /\ TypeOK' /\ d \in Deals /\ net[p] # <<>>
  BY OnOfferType, HeadTail DEF FundInv, OnOffer, Is
<1>2. AllMove
  <2>1. \/ store' = store
        \/ /\ store[p][d].contract = "None"
           /\ store' = [store EXCEPT ![p][d] = ReceivedRecord(d)]
    BY DEF OnOffer
  <2> HIDE DEF d
  <2>2. ReceivedRecord(d) \in Record
    BY <1>1, RecordType
  <2>3. store[p][d].contract = "None" => Moves(store[p][d], ReceivedRecord(d))
    BY <1>1, RecordFields, RecordType DEF Moves, Held
  <2> QED BY <1>1, <2>1, <2>2, <2>3, UpdateMoves, StayMoves DEF AllMove
<1>3. Monitored
  BY DEF OnOffer, FundInv, Monitored
<1>4. ASSUME NEW q \in Party, NEW m \in Items(net'[q])
      PROVE  m \in Items(net[q]) \/ m.type # "Sign"
  <2>1. net' = Handled(p, 1, 1)
    BY DEF OnOffer, Handled
  <2> QED BY <1>1, <1>4, <2>1, HandledItems
<1>5. UNCHANGED <<torn, fund>>
  BY DEF OnOffer, chain
<1> QED BY <1>1, <1>2, <1>3, <1>4, <1>5, QuietSound, FundKept

LEMMA OnRejectFund ==
    ASSUME FundInv, NEW p \in Party, NEW s \in 1 .. 2, OnReject(p, s)
    PROVE  FundInv'
<1> DEFINE d == Head(net[p]).deal
<1>1. TypeOK /\ TypeOK' /\ d \in Deals /\ net[p] # <<>>
  BY OnRejectType, HeadTail DEF FundInv, OnReject, Is
<1>2. AllMove
  <2>1. \/ store' = store
        \/ /\ store[p][d].contract = "Offered"
           /\ store' = [store EXCEPT ![p][d] = RejectedRecord(store[p][d])]
    BY TwoFields DEF OnReject
  <2> HIDE DEF d
  <2>2. RejectedRecord(store[p][d]) \in Record /\ store[p][d] \in Record
    BY <1>1, RejectedType DEF TypeOK
  <2>3. store[p][d].contract = "Offered" =>
           Moves(store[p][d], RejectedRecord(store[p][d]))
    BY <1>1, <2>2, RecordFields DEF Moves, Held
  <2> QED BY <1>1, <2>1, <2>2, <2>3, UpdateMoves, StayMoves DEF AllMove
<1>3. Monitored
  BY ReloadMonitored DEF OnReject
<1>4. ASSUME NEW q \in Party, NEW m \in Items(net'[q])
      PROVE  m \in Items(net[q]) \/ m.type # "Sign"
  BY <1>1, <1>4, HandledItems DEF OnReject
<1>5. UNCHANGED <<torn, fund>>
  BY DEF OnReject, chain
<1> QED BY <1>1, <1>2, <1>3, <1>4, <1>5, QuietSound, FundKept

LEMMA OnAcceptFund ==
    ASSUME FundInv, NEW p \in Party, NEW s \in 1 .. 3, NEW v \in BOOLEAN, OnAccept(p, s, v)
    PROVE  FundInv'
<1>0. PICK d : d = Head(net[p]).deal
  OBVIOUS
<1>1. TypeOK /\ TypeOK' /\ d \in Deals /\ net[p] # <<>> /\ store[p][d] \in Record
  <2>1. TypeOK /\ TypeOK' /\ d \in Deals /\ net[p] # <<>>
    BY <1>0, OnAcceptType, HeadTail DEF FundInv, OnAccept, Is
  <2> QED BY <2>1 DEF TypeOK
<1>2. PICK mem \in SUBSET ChannelDeals, disk \in SUBSET ChannelDeals :
             Kept(p, mem, disk) /\ Accepts(p, s, v, d, disk)
  BY <1>0, <1>1, AcceptEffect
<1> DEFINE n == SignedByOffer(store[p][d], d)
           f == FailedRecord(store[p][d], d, "FailedAccept")
<1>3. n \in Record /\ f \in Record
  BY <1>1, RecordType
<1>4. store[p][d].contract = "Offered" => Moves(store[p][d], n) /\ Moves(store[p][d], f)
  <2>1. /\ n.contract = "Signed" /\ n.offer = store[p][d].offer
        /\ f.contract \in {store[p][d].contract, "FailedAccept"}
        /\ f.offer = store[p][d].offer
    BY <1>1, SignedFields, FailedFields
  <2> HIDE DEF n, f
  <2> QED BY <2>1 DEF Moves, Held
<1>5. AllMove
  <2>1. \/ store' = store
        \/ store[p][d].contract = "Offered" /\ store' = [store EXCEPT ![p][d] = n]
        \/ store[p][d].contract = "Offered" /\ store' = [store EXCEPT ![p][d] = f]
    BY <1>2 DEF Accepts
  <2> HIDE DEF n, f
  <2> QED BY <1>1, <1>3, <1>4, <2>1, UpdateMoves, StayMoves DEF AllMove
<1>6. Monitored /\ stored'[p] = disk
  BY <1>2, KeptMonitored
<1>7. ASSUME NEW q \in Party PROVE Sound(q)
  <2> DEFINE new == [type |-> "Sign", deal |-> d, valid |-> v]
             H == Handled(p, s, 3)
  <2>1. new \in Message /\ new.deal = d /\ H \in [Party -> Seq(Message)]
    BY <1>1, HandledType DEF Message
  <2>2. Items(H[q]) \subseteq Items(net[q])
    BY <1>1, HandledItems
  <2>3. CASE net' = H
    BY <1>6, <2>2, <2>3 DEF Sound, Monitored
  <2>4. CASE net' # H
    <3>1. /\ store' = [store EXCEPT ![p][d] = n]
          /\ net' = [H EXCEPT ![Other(p)] = Append(@, new)]
          /\ d \in ChannelDeals => d \in disk
      BY <1>2, <2>4 DEF Accepts, SignSent
    <3>2. store'[p][d].contract = "Signed"
      <4>1. n.contract = "Signed"
        BY <1>1, SignedFields
      <4> HIDE DEF n
      <4> QED BY <1>1, <3>1, <4>1 DEF TypeOK
    <3>3. Backed(p, d)'
      <4>1. store'[p][d].contract \in Held /\ (d \in ChannelDeals => d \in stored'[p])
        BY <1>6, <3>1, <3>2 DEF Held
      <4> QED BY <4>1 DEF Backed
    <3>4. q # Other(p) => net'[q] = H[q]
      BY <2>1, <3>1
    <3> HIDE DEF H, new
    <3>5. Items(net'[q]) \subseteq Items(H[q]) \cup {new}
      BY <2>1, <3>1, SentItems, PartyFacts
    <3>6. q = Other(p) => Other(q) = p
      BY PartyFacts
    <3>7. ASSUME NEW m \in Items(net'[q]), m.type = "Sign"
          PROVE  m \in Items(net[q]) \/ Backed(Other(q), m.deal)'
      <4>1. CASE q = Other(p)
        <5>1. CASE m = new
          BY <2>1, <3>3, <3>6, <4>1, <5>1
        <5>2. CASE m \in Items(H[q])
          BY <2>2, <5>2
        <5> QED BY <3>5, <3>7, <5>1, <5>2
      <4>2. CASE q # Other(p)
        BY <2>2, <3>4, <3>7, <4>2
      <4> QED BY <4>1, <4>2
    <3> QED BY <1>6, <3>7 DEF Sound, Monitored
  <2> QED BY <2>3, <2>4
<1>8. UNCHANGED <<torn, fund>>
  BY DEF OnAccept, chain
<1> QED BY <1>1, <1>5, <1>7, <1>8, FundKept

LEMMA OnSignFund ==
    ASSUME FundInv, NEW p \in Party, NEW s \in 1 .. 3, NEW v \in BOOLEAN, OnSign(p, s, v)
    PROVE  FundInv'
<1> DEFINE d == Head(net[p]).deal
<1>1. TypeOK /\ TypeOK' /\ d \in Deals /\ net[p] # <<>> /\ store[p][d] \in Record
  <2>1. TypeOK /\ TypeOK' /\ d \in Deals /\ net[p] # <<>>
    BY OnSignType, HeadTail DEF FundInv, OnSign, Is
  <2> HIDE DEF d
  <2> QED BY <2>1 DEF TypeOK
<1>2. PICK mem \in SUBSET ChannelDeals, disk \in SUBSET ChannelDeals, l \in {2, 3} :
             Kept(p, mem, disk) /\ Signs(p, d, disk) /\ net' = Handled(p, s, l)
  BY <1>1, SignEffect
<1>3. Backed(Other(p), d)
  <2>1. Head(net[p]) \in Items(net[p]) /\ Head(net[p]).type = "Sign"
    BY <1>1, ItemsFacts DEF TypeOK, OnSign, Is
  <2> QED BY <2>1 DEF FundInv
<1> HIDE DEF d
<1> DEFINE n == SignedByAccept(store[p][d], d)
           f == FailedRecord(store[p][d], d, "FailedSign")
<1>4. n \in Record /\ f \in Record
  BY <1>1, RecordType
<1>5. /\ n.contract = "Signed" /\ n.offer = store[p][d].offer
      /\ f.contract \in {store[p][d].contract, "FailedSign"}
      /\ f.offer = store[p][d].offer
  BY <1>1, SignedFields, FailedFields
<1>6. store[p][d].contract = "Accepted" => ~store[p][d].offer
  BY <1>1 DEF FundInv, Took
<1> HIDE DEF n, f
<1>7. store[p][d].contract = "Accepted" => Moves(store[p][d], n) /\ Moves(store[p][d], f)
  BY <1>5, <1>6 DEF Moves, Held
<1>8. AllMove
  <2>1. \/ store' = store
        \/ store[p][d].contract = "Accepted" /\ store' = [store EXCEPT ![p][d] = n]
        \/ store[p][d].contract = "Accepted" /\ store' = [store EXCEPT ![p][d] = f]
    BY <1>2 DEF Signs, n, f
  <2> QED BY <1>1, <1>4, <1>7, <2>1, UpdateMoves, StayMoves DEF AllMove
<1>9. Monitored /\ stored'[p] = disk
  BY <1>2, KeptMonitored
<1>10. ASSUME NEW q \in Party PROVE Sound(q)
  <2>1. Items(net'[q]) \subseteq Items(net[q])
    BY <1>1, <1>2, HandledItems
  <2> QED BY <1>9, <2>1 DEF Sound, Monitored
<1>11. torn \subseteq torn'
  BY <1>2 DEF Signs
<1>12. ASSUME NEW e \in Deals, fund'[e] # "None", fund[e] = "None", NEW q \in Party
       PROVE  Backed(q, e)' \/ (e \in torn' /\ Took(q, e)')
  <2>1. /\ fund' = [fund EXCEPT ![d] = "Pool"] /\ store[p][d].contract = "Accepted"
        /\ \/ d \in torn'
           \/ /\ store' = [store EXCEPT ![p][d] = n]
              /\ d \in ChannelDeals => d \in disk
    BY <1>2, <1>12 DEF Signs, n
  <2>2. e = d
    BY <1>1, <1>12, <2>1 DEF TypeOK
  <2>3. CASE q = p /\ d \in torn'
    BY <1>1, <1>6, <1>8, <2>1, <2>2, <2>3 DEF AllMove, Moves, Took
  <2>4. CASE q = p /\ d \notin torn'
    <3>1. store'[p][d].contract = "Signed"
      BY <1>1, <1>5, <2>1, <2>4 DEF TypeOK
    <3> QED BY <1>9, <2>1, <2>2, <2>4, <3>1 DEF Backed, Held
  <2>5. CASE q = Other(p)
    BY <1>1, <1>3, <1>8, <1>9, <2>2, <2>5 DEF Backed, AllMove, Moves, Monitored
  <2> QED BY <2>3, <2>4, <2>5 DEF Party, Other
<1> QED BY <1>1, <1>8, <1>10, <1>11, <1>12, FundKept

LEMMA CheckFund ==
    ASSUME FundInv, NEW p \in Party, NEW d \in Deals, NEW got \in SUBSET Attested,
           NEW s \in 1 .. 3, PeriodicCheck(p, got, d, s)
    PROVE  FundInv'
<1>1. TypeOK /\ TypeOK' /\ store[p][d] \in Record
  BY CheckType DEF FundInv, TypeOK
<1>2. PICK x \in Outcomes \cup {"None"}, c \in Held, y \in Outcomes \cup {"None"} :
             Checked(p, d, got, x, c, y)
  BY <1>1, PeriodicEffect
<1> DEFINE n == CheckedRecord(store[p][d], c, y)
<1>3. n \in Record /\ n.contract = c /\ n.offer = store[p][d].offer
  <2>1. c \in ContractState
    BY DEF Held, ContractState
  <2> QED BY <1>1, <2>1, CheckedType, CheckedFields
<1> HIDE DEF n
<1>4. Moves(store[p][d], n)
  BY <1>2, <1>3 DEF Moves, Checked, Held
<1>5. AllMove
  BY <1>2, <1>3, <1>4, UpdateMoves DEF Checked, n
<1>6. Monitored
  <2>1. /\ stored' = stored
        /\ watched' = watched \/ watched' = [watched EXCEPT ![p] = stored[p]]
    BY <1>2 DEF Checked
  <2> QED BY <2>1, RestartMonitored
<1>7. ASSUME NEW q \in Party PROVE Items(net'[q]) \subseteq Items(net[q])
  <2>1. net' = [net EXCEPT ![p] = <<>>] \/ net' = net
    BY <1>2 DEF Checked
  <2> QED BY <1>1, <2>1, ClearedItems
<1>8. UNCHANGED <<torn, fund>>
  BY <1>2 DEF Checked
<1> QED BY <1>1, <1>5, <1>6, <1>7, <1>8, QuietSound, FundKept

LEMMA WorldFund ==
    ASSUME FundInv,
           \/ \E d \in Deals : MineFund(d) \/ MineSpend(d)
           \/ \E p \in Party, d \in Deals : Relay(p, d)
           \/ \E i \in Oracles, x \in Outcomes : Attest(i, x)
           \/ Tick
           \/ \E p \in Party : Lose(p) \/ Restart(p)
    PROVE  FundInv'
<1>1. TypeOK /\ TypeOK'
  BY WorldType DEF FundInv
<1>2. store' = store /\ stored' = stored /\ torn' = torn
  BY DEF MineFund, MineSpend, Relay, Attest, Tick, Lose, Restart
<1>3. AllMove
  BY <1>2, StayMoves DEF AllMove
<1>4. Monitored
  <2>1. watched' = watched \/ \E p \in Party : watched' = [watched EXCEPT ![p] = stored[p]]
    BY DEF MineFund, MineSpend, Relay, Attest, Tick, Lose, Restart
  <2> QED BY <1>2, <2>1, RestartMonitored DEF Monitored, FundInv
<1>5. ASSUME NEW q \in Party PROVE Items(net'[q]) \subseteq Items(net[q])
  <2>1. \/ net' = net
        \/ \E p \in Party : net[p] # <<>> /\ net' = Handled(p, 1, 1)
        \/ \E p \in Party : net' = [net EXCEPT ![p] = <<>>]
    BY DEF MineFund, MineSpend, Relay, Attest, Tick, Lose, Restart, Handled
  <2> QED BY <1>1, <2>1, HandledItems, ClearedItems
<1>6. \A d \in Deals : fund'[d] # "None" => fund[d] # "None"
  <2>1. fund' = fund \/ \E d \in Deals : fund[d] = "Pool" /\ fund' = [fund EXCEPT ![d] = "Mined"]
    BY DEF MineFund, MineSpend, Relay, Attest, Tick, Lose, Restart, chain
  <2> QED BY <1>1, <2>1 DEF TypeOK
<1> QED BY <1>1, <1>2, <1>3, <1>4, <1>5, <1>6, QuietSound, FundKept

LEMMA FundInit ==
    ASSUME Init
    PROVE  FundInv
<1>1. TypeOK
  BY TypeInit
<1>2. NoRecord.contract = "None"
  BY DEF NoRecord
<1> QED BY <1>1, <1>2, ItemsFacts DEF Init, FundInv

LEMMA FundStep ==
    ASSUME FundInv, [Next]_vars
    PROVE  FundInv'
<1>1. CASE Next
  BY <1>1, OfferFund, AcceptFund, RejectFund, OnOfferFund, OnRejectFund, OnAcceptFund,
     OnSignFund, CheckFund, WorldFund DEF Next
<1>2. CASE UNCHANGED vars
  BY <1>2 DEF vars, FundInv, TypeOK, chain, world, Backed, Took
<1> QED BY <1>1, <1>2

(* Coins are in a funding output only while both parties have stored what  *)
(* gets them out again and, of a channel, watch the buffer transaction,    *)
(* wherever a handler stops and whatever is lost; on_sign_channel, which   *)
(* broadcasts before it stores, is the one exception.                      *)
THEOREM FundsSafe == Spec => []FundSafe
<1>1. Init => FundInv
  BY FundInit
<1>2. FundInv /\ [Next]_vars => FundInv'
  BY FundStep
<1>3. FundInv => FundSafe
  BY DEF FundInv, FundSafe, Backed, Took
<1> QED BY <1>1, <1>2, <1>3, PTL DEF Spec

-----------------------------------------------------------------------------
(* No coin twice.                                                          *)

(* A party's coin is committed to a deal: its record is one that may be    *)
(* funded, or its offer stands, or the rejection is still on its way.      *)
RejectedBy(p, d, N) == \E m \in Items(N[p]) : m.type = "Reject" /\ m.deal = d
Claims(p, d) ==
    \/ store[p][d].contract \in Held \cup {"Accepted"}
    \/ /\ store[p][d].contract = "Offered" /\ store[p][d].offer
       /\ store[Other(p)][d].contract # "Rejected" \/ RejectedBy(p, d, net)

(* What a message on its way says of its sender.                           *)
Tells(m, r) ==
    /\ m.type = "Offer" => r.offer
    /\ m.type = "Accept" => r.contract \notin {"None", "Offered", "Rejected"}
    /\ m.type = "Reject" => r.contract = "Rejected" /\ ~r.offer
(* No deal is rejected twice.                                              *)
RejectOnce(s) ==
    \A i, j \in 1 .. Len(s) :
       /\ s[i].type = "Reject" /\ s[j].type = "Reject" /\ s[i].deal = s[j].deal
       => i = j

CoinInv ==
    /\ TypeOK
    /\ \A p \in Party, d \in Deals :
         /\ store[p][d].offer => store[p][d].contract # "None"
         /\ Took(p, d) => store[Other(p)][d].offer
         /\ Claims(p, d) => store[p][d].coin \in reserved[p]
    /\ \A p \in Party : \A d, e \in Deals :
         Claims(p, d) /\ Claims(p, e) /\ d # e => store[p][d].coin # store[p][e].coin
    /\ \A p \in Party :
         /\ \A m \in Items(net[p]) : Tells(m, store[Other(p)][m.deal])
         /\ RejectOnce(net[p])

LEMMA RejectOnceFacts ==
    /\ RejectOnce(<<>>)
    /\ \A s \in Seq(Message) : RejectOnce(s) /\ s # <<>> =>
         /\ RejectOnce(Tail(s))
         /\ Head(s).type = "Reject" => \A m \in Items(Tail(s)) :
              ~(m.type = "Reject" /\ m.deal = Head(s).deal)
    /\ \A s \in Seq(Message), n \in Message :
         /\ RejectOnce(s)
         /\ n.type = "Reject" => \A m \in Items(s) :
              ~(m.type = "Reject" /\ m.deal = n.deal)
         => RejectOnce(Append(s, n))
<1>1. RejectOnce(<<>>)
  BY DEF RejectOnce
<1>2. ASSUME NEW s \in Seq(Message), RejectOnce(s), s # <<>>
      PROVE  /\ RejectOnce(Tail(s))
             /\ Head(s).type = "Reject" => \A m \in Items(Tail(s)) :
                  ~(m.type = "Reject" /\ m.deal = Head(s).deal)
  <2>1. /\ Len(s) \in Nat /\ Len(s) # 0 /\ Len(Tail(s)) = Len(s) - 1 /\ Head(s) = s[1]
        /\ \A i \in 1 .. Len(Tail(s)) : Tail(s)[i] = s[i + 1]
    BY <1>2, HeadTailProperties, LenProperties, EmptySeq
  <2>2. RejectOnce(Tail(s))
    <3> SUFFICES ASSUME NEW i \in 1 .. Len(Tail(s)), NEW j \in 1 .. Len(Tail(s)),
                        Tail(s)[i].type = "Reject", Tail(s)[j].type = "Reject",
                        Tail(s)[i].deal = Tail(s)[j].deal
                 PROVE  i = j
      BY DEF RejectOnce
    <3>1. i + 1 \in 1 .. Len(s) /\ j + 1 \in 1 .. Len(s)
      BY <2>1
    <3>2. i + 1 = j + 1
      BY <1>2, <2>1, <3>1 DEF RejectOnce
    <3> QED BY <3>2
  <2>3. ASSUME Head(s).type = "Reject", NEW m \in Items(Tail(s)), m.type = "Reject",
               m.deal = Head(s).deal
        PROVE  FALSE
    <3>1. PICK i \in 1 .. Len(Tail(s)) : m = Tail(s)[i]
      BY <2>3 DEF Items
    <3>2. i + 1 \in 1 .. Len(s) /\ 1 \in 1 .. Len(s) /\ i + 1 # 1
      BY <2>1
    <3>3. s[i + 1] = m /\ s[1] = Head(s)
      BY <2>1, <3>1
    <3> QED BY <1>2, <2>3, <3>2, <3>3 DEF RejectOnce
  <2> QED BY <2>2, <2>3
<1>3. ASSUME NEW s \in Seq(Message), NEW n \in Message, RejectOnce(s),
             n.type = "Reject" => \A m \in Items(s) :
                 ~(m.type = "Reject" /\ m.deal = n.deal)
      PROVE  RejectOnce(Append(s, n))
  <2> DEFINE t == Append(s, n)
  <2>1. /\ Len(s) \in Nat /\ Len(t) = Len(s) + 1 /\ t[Len(s) + 1] = n
        /\ \A i \in 1 .. Len(s) : t[i] = s[i]
    BY AppendProperties, LenProperties
  <2> HIDE DEF t
  <2>2. \A i \in 1 .. Len(t) : (i \in 1 .. Len(s) /\ t[i] \in Items(s)) \/ i = Len(s) + 1
    BY <2>1 DEF Items
  <2> SUFFICES ASSUME NEW i \in 1 .. Len(t), NEW j \in 1 .. Len(t),
                      t[i].type = "Reject", t[j].type = "Reject", t[i].deal = t[j].deal
               PROVE  i = j
    BY DEF RejectOnce, t
  <2>3. CASE i \in 1 .. Len(s) /\ j \in 1 .. Len(s)
    BY <1>3, <2>1, <2>3 DEF RejectOnce
  <2>4. CASE i = Len(s) + 1 /\ j = Len(s) + 1
    BY <2>4
  <2> QED BY <1>3, <2>1, <2>2, <2>3, <2>4
<1> QED BY <1>1, <1>2, <1>3

(* How a record may change, and what becomes of its coin.                  *)
Uncommitted == {"None", "Offered", "Rejected"}
Goes(r, n) ==
    /\ n.offer => n.contract # "None"
    /\ r.offer => n.offer
    /\ r.contract # "None" => n.contract # "None" /\ (~r.offer => ~n.offer)
    /\ r.contract \notin Uncommitted => n.contract \notin Uncommitted
    /\ r.contract = "Rejected" => n.contract = "Rejected"
AllGo == \A p \in Party, d \in Deals : Goes(store[p][d], store'[p][d])

LEMMA StayGoes ==
    ASSUME CoinInv, NEW p \in Party, NEW d \in Deals
    PROVE  Goes(store[p][d], store[p][d])
BY DEF CoinInv, Goes

LEMMA UpdateGoes ==
    ASSUME CoinInv, NEW p \in Party, NEW d \in Deals, NEW n \in Record,
           Goes(store[p][d], n), store' = [store EXCEPT ![p][d] = n]
    PROVE  /\ AllGo /\ store'[p][d] = n
           /\ \A q \in Party, e \in Deals :
                 (q # p \/ e # d) => store'[q][e] = store[q][e]
<1>1. \A q \in Party, e \in Deals :
         store'[q][e] = IF q = p /\ e = d THEN n ELSE store[q][e]
  BY DEF CoinInv, TypeOK
<1>2. ASSUME NEW q \in Party, NEW e \in Deals PROVE Goes(store[q][e], store'[q][e])
  BY <1>1, <1>2, StayGoes
<1> QED BY <1>1, <1>2 DEF AllGo

(* A claim that is new has a coin nobody had reserved.                     *)
Same(q, e) ==
    Claims(q, e) /\ store'[q][e].coin = store[q][e].coin
    /\ store[q][e].coin \in reserved'[q]
Fresh(q, e) ==
    store'[q][e].coin \notin reserved[q] /\ store'[q][e].coin \in reserved'[q]

LEMMA CoinKept ==
    ASSUME CoinInv, TypeOK', AllGo,
           \A q \in Party, e \in Deals : Took(q, e)' => store'[Other(q)][e].offer,
           \A q \in Party, e \in Deals : Claims(q, e)' => Same(q, e) \/ Fresh(q, e),
           \A q \in Party : \A e, f \in Deals : Fresh(q, e) /\ Fresh(q, f) /\ Claims(q, e)' /\ Claims(q, f)' => e = f,
           \A q \in Party : RejectOnce(net'[q]),
           \A q \in Party : \A m \in Items(net'[q]) :
              m \in Items(net[q]) \/ Tells(m, store'[Other(q)][m.deal])
    PROVE  CoinInv'
<1>1. ASSUME NEW q \in Party, NEW e \in Deals
      PROVE  /\ store'[q][e].offer => store'[q][e].contract # "None"
             /\ Took(q, e)' => store'[Other(q)][e].offer
             /\ Claims(q, e)' => store'[q][e].coin \in reserved'[q]
  BY DEF AllGo, Goes, Same, Fresh
<1>2. ASSUME NEW q \in Party, NEW e \in Deals, NEW f \in Deals,
             Claims(q, e)', Claims(q, f)', e # f
      PROVE  store'[q][e].coin # store'[q][f].coin
  BY <1>2 DEF Same, Fresh, CoinInv
<1>3. ASSUME NEW q \in Party, NEW m \in Items(net'[q])
      PROVE  Tells(m, store'[Other(q)][m.deal])
  <2>1. CASE m \in Items(net[q])
    <3>1. m.deal \in Deals /\ Other(q) \in Party
      <4>1. net[q] \in Seq(Message)
        BY DEF CoinInv, TypeOK
      <4>2. m \in Message
        BY <2>1, <4>1 DEF Items
      <4> QED BY <4>2, PartyFacts DEF Message
    <3>2. Tells(m, store[Other(q)][m.deal])
      BY <2>1 DEF CoinInv
    <3> QED BY <3>1, <3>2 DEF Tells, AllGo, Goes, Uncommitted
  <2> QED BY <1>3, <2>1
<1> QED BY <1>1, <1>2, <1>3 DEF CoinInv

(* A claim on a record that is left alone was there before.                *)
Rejecting(q) ==
    \A m \in Items(net'[q]) : m.type = "Reject" =>
       m \in Items(net[q]) \/ store[Other(q)][m.deal].contract # "Rejected"

LEMMA ClaimStays ==
    ASSUME CoinInv, AllGo, NEW q \in Party, NEW e \in Deals, Rejecting(q),
           store'[q][e].contract = store[q][e].contract,
           store'[q][e].offer = store[q][e].offer,
           store'[q][e].coin = store[q][e].coin, Claims(q, e)'
    PROVE  Claims(q, e) /\ store[q][e].coin \in reserved[q]
<1>1. Claims(q, e)
  <2>1. CASE store[q][e].contract \in Held \cup {"Accepted"}
    BY <2>1 DEF Claims
  <2>2. CASE store[q][e].contract \notin Held \cup {"Accepted"}
    <3>1. store[q][e].contract = "Offered" /\ store[q][e].offer
      BY <2>2 DEF Claims
    <3>2. store'[Other(q)][e].contract # "Rejected" \/ RejectedBy(q, e, net')
      BY <2>2 DEF Claims
    <3>3. Other(q) \in Party
      BY PartyFacts
    <3>4. CASE store'[Other(q)][e].contract # "Rejected"
      BY <3>1, <3>3, <3>4 DEF AllGo, Goes, Claims
    <3>5. CASE RejectedBy(q, e, net')
      BY <3>1, <3>5 DEF Rejecting, RejectedBy, Claims
    <3> QED BY <3>2, <3>4, <3>5
  <2> QED BY <2>1, <2>2
<1> QED BY <1>1 DEF CoinInv

(* The queues after a step: one message at most is new.                    *)
Queues(N) == \A q \in Party : RejectOnce(N[q]) /\ Items(N[q]) \subseteq Items(net[q])

LEMMA HandledQueues ==
    ASSUME CoinInv, NEW p \in Party, NEW s, NEW l
    PROVE  /\ net[p] # <<>> => Queues(Handled(p, s, l))
           /\ Queues([net EXCEPT ![p] = <<>>]) /\ Queues(net)
<1>1. TypeOK /\ net \in [Party -> Seq(Message)]
  BY DEF CoinInv, TypeOK
<1>2. Queues(net)
  BY DEF CoinInv, Queues
<1>3. Queues([net EXCEPT ![p] = <<>>])
  BY <1>1, <1>2, ClearedItems, RejectOnceFacts DEF Queues
<1>4. ASSUME net[p] # <<>>, NEW q \in Party
      PROVE  RejectOnce(Handled(p, s, l)[q])
  <2>1. CASE q = p
    <3>1. Handled(p, s, l)[q] \in {<<>>, Tail(net[p])}
      BY <1>1, <2>1 DEF Handled
    <3>2. RejectOnce(net[p]) /\ net[p] \in Seq(Message)
      BY <1>1, <1>2 DEF Queues
    <3> QED BY <1>4, <3>1, <3>2, RejectOnceFacts
  <2>2. CASE q # p
    BY <1>1, <1>2, <2>2 DEF Handled, Queues
  <2> QED BY <2>1, <2>2
<1> QED BY <1>1, <1>2, <1>3, <1>4, HandledItems DEF Queues

Delivered(p, m) ==
    \A q \in Party :
       /\ RejectOnce(net'[q])
       /\ \A k \in Items(net'[q]) : k \in Items(net[q]) \/ (q = Other(p) /\ k = m)

LEMMA SendQueues ==
    ASSUME CoinInv, NEW p \in Party, NEW m \in Message,
           NEW N \in [Party -> Seq(Message)], Queues(N),
           m.type = "Reject" => store[p][m.deal].contract # "Rejected",
           net' = N \/ net' = [N EXCEPT ![Other(p)] = Append(@, m)]
    PROVE  Delivered(p, m)
<1> DEFINE o == Other(p)
<1>1. o \in Party /\ Other(o) = p
  BY PartyFacts
<1>2. CASE net' = N
  BY <1>2 DEF Queues, Delivered
<1>3. CASE net' = [N EXCEPT ![o] = Append(@, m)]
  <2>1. \A q \in Party : q # o => net'[q] = N[q]
    BY <1>3
  <2>2. net'[o] = Append(N[o], m) /\ N[o] \in Seq(Message)
    BY <1>1, <1>3
  <2>3. m.type = "Reject" => \A k \in Items(N[o]) : ~(k.type = "Reject" /\ k.deal = m.deal)
    BY <1>1 DEF Queues, CoinInv, Tells
  <2>4. RejectOnce(net'[o])
    BY <1>1, <2>2, <2>3, RejectOnceFacts DEF Queues
  <2>5. Items(net'[o]) \subseteq Items(net[o]) \cup {m}
    BY <1>1, <2>2, ItemsFacts DEF Queues
  <2> HIDE DEF o
  <2> QED BY <1>1, <2>1, <2>4, <2>5 DEF Delivered, Queues, o
<1> QED BY <1>2, <1>3

(* From what one step does to one record and to the queues.                *)
LEMMA OneRecord ==
    ASSUME CoinInv, TypeOK', NEW p \in Party, NEW d \in Deals, NEW n \in Record,
           NEW m \in Message,
           store' = store \/ (store' = [store EXCEPT ![p][d] = n] /\ Goes(store[p][d], n)),
           store' # store /\ n.contract # "None" /\ ~n.offer => store[Other(p)][d].offer,
           store' # store /\ Claims(p, d)' =>
              Fresh(p, d) \/ (Claims(p, d) /\ n.coin = store[p][d].coin),
           \A q \in Party, e \in Deals :
              /\ store[q][e].coin \in reserved[q] /\ Claims(q, e)'
              => store[q][e].coin \in reserved'[q],
           Delivered(p, m),
           m \in Items(net'[Other(p)]) =>
              m \in Items(net[Other(p)]) \/ Tells(m, store'[p][m.deal]),
           m.type = "Reject" => store[p][m.deal].contract # "Rejected"
    PROVE  CoinInv'
<1>1. AllGo /\ \A q \in Party, e \in Deals :
                  (q # p \/ e # d) => store'[q][e] = store[q][e]
  BY UpdateGoes, StayGoes DEF AllGo
<1>2. Other(p) \in Party /\ Other(p) # p /\ Other(Other(p)) = p
  BY PartyFacts
<1>3. store' # store => store'[p][d] = n
  BY UpdateGoes
<1>4. \A q \in Party : RejectOnce(net'[q])
  BY DEF Delivered
<1>5. \A q \in Party : \A k \in Items(net'[q]) :
         k \in Items(net[q]) \/ Tells(k, store'[Other(q)][k.deal])
  BY <1>2 DEF Delivered
<1>6. \A q \in Party : Rejecting(q)
  BY <1>2 DEF Delivered, Rejecting
<1>7. ASSUME NEW q \in Party, NEW e \in Deals, store'[q][e] = store[q][e], Claims(q, e)'
      PROVE  Same(q, e)
  BY <1>1, <1>6, <1>7, ClaimStays DEF Same
<1>8. ASSUME NEW q \in Party, NEW e \in Deals, Claims(q, e)'
      PROVE  Same(q, e) \/ (Fresh(q, e) /\ q = p /\ e = d)
  <2>1. CASE store'[q][e] = store[q][e]
    BY <1>7, <1>8, <2>1
  <2>2. CASE store'[q][e] # store[q][e]
    <3>1. q = p /\ e = d /\ store' # store
      BY <1>1, <2>2
    <3>2. Fresh(p, d) \/ (Claims(p, d) /\ n.coin = store[p][d].coin)
      BY <1>8, <3>1
    <3>3. CASE Claims(p, d) /\ n.coin = store[p][d].coin
      BY <1>3, <1>8, <3>1, <3>3 DEF Same, CoinInv
    <3> QED BY <3>1, <3>2, <3>3
  <2> QED BY <2>1, <2>2
<1>9. ASSUME NEW q \in Party, NEW e \in Deals, Took(q, e)'
      PROVE  store'[Other(q)][e].offer
  <2>1. store[Other(q)][e].offer
    <3>1. CASE store'[q][e] = store[q][e]
      BY <1>9, <3>1 DEF Took, CoinInv
    <3>2. CASE store'[q][e] # store[q][e]
      BY <1>1, <1>3, <1>9, <3>2 DEF Took
    <3> QED BY <3>1, <3>2
  <2> QED BY <1>1, <2>1, PartyFacts DEF AllGo, Goes
<1>10. ASSUME NEW q \in Party, NEW e \in Deals, NEW f \in Deals, Fresh(q, e), Fresh(q, f),
              Claims(q, e)', Claims(q, f)'
       PROVE  e = f
  <2>1. ~Same(q, e) /\ ~Same(q, f)
    BY <1>10 DEF Same, Fresh, CoinInv
  <2> QED BY <1>8, <1>10, <2>1
<1> QED BY <1>1, <1>4, <1>5, <1>8, <1>9, <1>10, CoinKept

LEMMA OfferCoin ==
    ASSUME CoinInv, NEW p \in Party, NEW d \in Deals, NEW v \in BOOLEAN, NEW s \in 1 .. 3,
           Offer(p, d, v, s)
    PROVE  CoinInv'
<1> DEFINE n == OfferedRecord(d, Coin(p))
           m == [type |-> "Offer", deal |-> d, valid |-> TRUE]
<1>1. TypeOK /\ TypeOK' /\ net \in [Party -> Seq(Message)]
  BY OfferType DEF CoinInv, TypeOK
<1>2. Coin(p) \in Coins /\ Coin(p) \notin reserved[p]
  BY CoinFree DEF Offer
<1>3. n \in Record /\ n.contract = "Offered" /\ n.offer /\ n.coin = Coin(p)
  <2>1. NoRecord \in Record
    BY RecordType
  <2> QED BY <1>2, <2>1, NewFields
<1>4. store[p][d] = NoRecord /\ NoRecord.contract = "None" /\ ~NoRecord.offer
  BY DEF Offer, NoRecord
<1>5. m \in Message /\ m.type = "Offer" /\ m.deal = d
  BY DEF Message
<1>6. /\ store' = store \/ store' = [store EXCEPT ![p][d] = n]
      /\ s = 3 /\ v => store' = [store EXCEPT ![p][d] = n]
      /\ reserved' = [reserved EXCEPT ![p] = @ \cup {Coin(p)}]
      /\ \/ net' = [net EXCEPT ![p] = <<>>] \/ net' = net
         \/ s = 3 /\ v /\ net' = [net EXCEPT ![Other(p)] = Append(@, m)]
  BY DEF Offer
<1> HIDE DEF n, m
<1>7. Goes(store[p][d], n)
  BY <1>3, <1>4 DEF Goes, Uncommitted
<1>8. /\ Queues(net) /\ Queues([net EXCEPT ![p] = <<>>])
      /\ [net EXCEPT ![p] = <<>>] \in [Party -> Seq(Message)]
  BY <1>1, HandledQueues, EmptySeq
<1>9. Delivered(p, m)
  <2>1. CASE net' = [net EXCEPT ![p] = <<>>]
    BY <1>5, <1>8, <2>1, SendQueues
  <2>2. CASE net' = net \/ net' = [net EXCEPT ![Other(p)] = Append(@, m)]
    BY <1>1, <1>5, <1>8, <2>2, SendQueues
  <2> QED BY <1>6, <2>1, <2>2
<1>10. m \in Items(net'[Other(p)]) =>
          m \in Items(net[Other(p)]) \/ Tells(m, store'[p][m.deal])
  <2>1. CASE s = 3 /\ v
    <3>1. store'[p][d].offer
      BY <1>1, <1>3, <1>6, <2>1 DEF TypeOK
    <3> QED BY <1>5, <3>1 DEF Tells
  <2>2. CASE ~(s = 3 /\ v)
    BY <1>6, <1>8, <2>2, PartyFacts DEF Queues
  <2> QED BY <2>1, <2>2
<1>11. store' # store => Fresh(p, d)
  <2>1. reserved'[p] = reserved[p] \cup {Coin(p)}
    BY <1>1, <1>6 DEF TypeOK
  <2>2. store' # store => store'[p][d] = n
    BY <1>1, <1>6 DEF TypeOK
  <2> QED BY <1>2, <1>3, <2>1, <2>2 DEF Fresh
<1>12. \A q \in Party : reserved[q] \subseteq reserved'[q]
  BY <1>1, <1>6 DEF TypeOK
<1> QED BY <1>1, <1>3, <1>5, <1>6, <1>7, <1>9, <1>10, <1>11, <1>12, OneRecord

LEMMA AcceptCoin ==
    ASSUME CoinInv, NEW p \in Party, NEW d \in Deals, NEW v \in BOOLEAN, NEW s \in 1 .. 3,
           Accept(p, d, v, s)
    PROVE  CoinInv'
<1> DEFINE n == AcceptedRecord(store[p][d], d, Coin(p))
           m == [type |-> "Accept", deal |-> d, valid |-> v]
<1>1. /\ TypeOK /\ TypeOK' /\ net \in [Party -> Seq(Message)]
      /\ store[p][d] \in Record
  BY AcceptType DEF CoinInv, TypeOK
<1>2. Coin(p) \in Coins /\ Coin(p) \notin reserved[p]
  BY CoinFree DEF Accept
<1>3. store[p][d].contract = "Offered" /\ ~store[p][d].offer
  BY DEF Accept
<1>4. /\ n \in Record /\ n.contract = "Accepted" /\ n.coin = Coin(p)
      /\ n.offer = store[p][d].offer
  BY <1>1, <1>2, NewFields
<1>5. m \in Message /\ m.type = "Accept" /\ m.deal = d
  BY DEF Message
<1>6. /\ store' = store \/ store' = [store EXCEPT ![p][d] = n]
      /\ s = 3 => store' = [store EXCEPT ![p][d] = n]
      /\ reserved' = [reserved EXCEPT ![p] = @ \cup {Coin(p)}]
      /\ \/ net' = [net EXCEPT ![p] = <<>>] /\ s # 3
         \/ s = 3 /\ net' = [net EXCEPT ![Other(p)] = Append(@, m)]
  BY DEF Accept
<1> HIDE DEF n, m
<1>7. Goes(store[p][d], n)
  BY <1>3, <1>4 DEF Goes, Uncommitted
<1>8. /\ Queues(net) /\ Queues([net EXCEPT ![p] = <<>>])
      /\ [net EXCEPT ![p] = <<>>] \in [Party -> Seq(Message)]
  BY <1>1, HandledQueues, EmptySeq
<1>9. Delivered(p, m)
  <2>1. CASE net' = [net EXCEPT ![p] = <<>>]
    BY <1>5, <1>8, <2>1, SendQueues
  <2>2. CASE net' = net \/ net' = [net EXCEPT ![Other(p)] = Append(@, m)]
    BY <1>1, <1>5, <1>8, <2>2, SendQueues
  <2> QED BY <1>6, <2>1, <2>2
<1>10. m \in Items(net'[Other(p)]) =>
          m \in Items(net[Other(p)]) \/ Tells(m, store'[p][m.deal])
  <2>1. CASE s = 3
    <3>1. store'[p][d].contract = "Accepted"
      BY <1>1, <1>4, <1>6, <2>1 DEF TypeOK
    <3> QED BY <1>5, <3>1 DEF Tells
  <2>2. CASE s # 3
    BY <1>6, <1>8, <2>2, PartyFacts DEF Queues
  <2> QED BY <2>1, <2>2
<1>11. store' # store => Fresh(p, d)
  <2>1. reserved'[p] = reserved[p] \cup {Coin(p)}
    BY <1>1, <1>6 DEF TypeOK
  <2>2. store' # store => store'[p][d] = n
    BY <1>1, <1>6 DEF TypeOK
  <2> QED BY <1>2, <1>4, <2>1, <2>2 DEF Fresh
<1>12. \A q \in Party : reserved[q] \subseteq reserved'[q]
  BY <1>1, <1>6 DEF TypeOK
<1>13. store[Other(p)][d].offer
  BY <1>3 DEF CoinInv, Took
<1> QED BY <1>1, <1>4, <1>5, <1>6, <1>7, <1>9, <1>10, <1>11, <1>12, <1>13, OneRecord

LEMMA RejectCoin ==
    ASSUME CoinInv, NEW p \in Party, NEW d \in Deals, NEW s \in 1 .. 2, RejectChannel(p, d, s)
    PROVE  CoinInv'
<1> DEFINE n == RejectedRecord(store[p][d])
           m == [type |-> "Reject", deal |-> d, valid |-> TRUE]
<1>1. /\ TypeOK /\ TypeOK' /\ net \in [Party -> Seq(Message)]
      /\ store[p][d] \in Record
  BY RejectType DEF CoinInv, TypeOK
<1>2. store[p][d].contract = "Offered" /\ ~store[p][d].offer
  BY DEF RejectChannel
<1>3. n \in Record /\ n.contract = "Rejected" /\ n.offer = store[p][d].offer
  BY <1>1, RejectedType, RecordFields
<1>4. m \in Message /\ m.type = "Reject" /\ m.deal = d
  BY DEF Message
<1>5. /\ store' = [store EXCEPT ![p][d] = n] /\ reserved' = reserved
      /\ \/ net' = [net EXCEPT ![p] = <<>>]
         \/ net' = [net EXCEPT ![Other(p)] = Append(@, m)]
  BY TwoFields DEF RejectChannel
<1> HIDE DEF n, m
<1>6. Goes(store[p][d], n)
  BY <1>2, <1>3 DEF Goes, Uncommitted
<1>7. /\ Queues(net) /\ Queues([net EXCEPT ![p] = <<>>])
      /\ [net EXCEPT ![p] = <<>>] \in [Party -> Seq(Message)]
  BY <1>1, HandledQueues, EmptySeq
<1>8. Delivered(p, m)
  <2>1. CASE net' = [net EXCEPT ![p] = <<>>]
    BY <1>2, <1>4, <1>7, <2>1, SendQueues
  <2>2. CASE net' = net \/ net' = [net EXCEPT ![Other(p)] = Append(@, m)]
    BY <1>1, <1>2, <1>4, <1>7, <2>2, SendQueues
  <2> QED BY <1>5, <2>1, <2>2
<1>9. store'[p][d] = n
  BY <1>1, <1>5 DEF TypeOK
<1>10. Tells(m, store'[p][m.deal])
  BY <1>2, <1>3, <1>4, <1>9 DEF Tells
<1>11. ~Claims(p, d)'
  BY <1>3, <1>9 DEF Claims, Held
<1>12. store[Other(p)][d].offer
  BY <1>2 DEF CoinInv, Took
<1> QED BY <1>1, <1>2, <1>3, <1>4, <1>5, <1>6, <1>8, <1>10, <1>11, <1>12, OneRecord

(* A step that sends nothing.                                              *)
LEMMA SilentCoin ==
    ASSUME CoinInv, TypeOK', NEW p \in Party, NEW d \in Deals, NEW n \in Record,
           NEW N \in [Party -> Seq(Message)], Queues(N), net' = N,
           store' = store \/ (store' = [store EXCEPT ![p][d] = n] /\ Goes(store[p][d], n)),
           store' # store /\ n.contract # "None" /\ ~n.offer => store[Other(p)][d].offer,
           store' # store /\ Claims(p, d)' => Claims(p, d) /\ n.coin = store[p][d].coin,
           \A q \in Party, e \in Deals :
              /\ store[q][e].coin \in reserved[q] /\ Claims(q, e)'
              => store[q][e].coin \in reserved'[q]
    PROVE  CoinInv'
<1>1. PICK m \in Message : m.type = "Offer"
  <2>1. [type |-> "Offer", deal |-> d, valid |-> TRUE] \in Message
    BY DEF Message
  <2> QED BY <2>1
<1>2. Delivered(p, m)
  BY <1>1, SendQueues
<1>3. m \in Items(net'[Other(p)]) => m \in Items(net[Other(p)])
  BY PartyFacts DEF Queues
<1> QED BY <1>1, <1>2, <1>3, OneRecord

LEMMA OnOfferCoin ==
    ASSUME CoinInv, NEW p \in Party, OnOffer(p)
    PROVE  CoinInv'
<1>0. PICK d : d = Head(net[p]).deal
  OBVIOUS
<1>1. TypeOK /\ TypeOK' /\ d \in Deals /\ net[p] # <<>>
  BY <1>0, OnOfferType, HeadTail DEF CoinInv, OnOffer, Is
<1>2. /\ ReceivedRecord(d) \in Record /\ ReceivedRecord(d).contract = "Offered"
      /\ ~ReceivedRecord(d).offer
  BY <1>1, RecordType, RecordFields
<1>3. /\ \/ store' = store
         \/ /\ store[p][d].contract = "None"
            /\ store' = [store EXCEPT ![p][d] = ReceivedRecord(d)]
      /\ reserved' = reserved
  BY <1>0 DEF OnOffer
<1>4. store[p][d].contract = "None" => Goes(store[p][d], ReceivedRecord(d))
  BY <1>1, <1>2 DEF CoinInv, Goes, Uncommitted
<1>5. store[Other(p)][d].offer
  <2>1. Head(net[p]) \in Items(net[p]) /\ Head(net[p]).type = "Offer"
    BY <1>1, ItemsFacts DEF TypeOK, OnOffer, Is
  <2> QED BY <1>0, <2>1 DEF CoinInv, Tells
<1>6. store' # store => ~Claims(p, d)'
  <2>1. store' # store => store'[p][d] = ReceivedRecord(d)
    BY <1>1, <1>3 DEF TypeOK
  <2> QED BY <1>2, <2>1 DEF Claims, Held
<1>7. Handled(p, 1, 1) \in [Party -> Seq(Message)] /\ Queues(Handled(p, 1, 1))
  BY <1>1, HandledType, HandledQueues
<1>8. net' = Handled(p, 1, 1)
  BY DEF OnOffer, Handled
<1> QED BY <1>1, <1>2, <1>3, <1>4, <1>5, <1>6, <1>7, <1>8, SilentCoin

LEMMA OnRejectCoin ==
    ASSUME CoinInv, NEW p \in Party, NEW s \in 1 .. 2, OnReject(p, s)
    PROVE  CoinInv'
<1>0. PICK d : d = Head(net[p]).deal
  OBVIOUS
<1> DEFINE n == RejectedRecord(store[p][d])
<1>1. TypeOK /\ TypeOK' /\ d \in Deals /\ net[p] # <<>>
  BY <1>0, OnRejectType, HeadTail DEF CoinInv, OnReject, Is
<1>2. store[p][d] \in Record /\ net[p] \in Seq(Message) /\ RejectOnce(net[p])
  BY <1>1 DEF TypeOK, CoinInv
<1>3. n \in Record /\ n.contract = "Rejected" /\ n.offer = store[p][d].offer
  BY <1>1, <1>2, RejectedType, RecordFields
<1>4. /\ Head(net[p]) \in Items(net[p]) /\ Head(net[p]).type = "Reject"
      /\ Handled(p, s, 2)[p] \in {<<>>, Tail(net[p])}
  BY <1>1, <1>2, ItemsFacts DEF TypeOK, OnReject, Is, Handled
<1>5. store[Other(p)][d].contract = "Rejected" /\ ~store[Other(p)][d].offer
  BY <1>0, <1>4 DEF CoinInv, Tells
<1>6. store[p][d].offer
  <2>1. Took(Other(p), d) /\ Other(p) \in Party /\ Other(Other(p)) = p
    BY <1>5, PartyFacts DEF Took
  <2> QED BY <1>1, <2>1 DEF CoinInv
<1>7. \/ store' = store /\ reserved' = reserved
      \/ /\ store[p][d].contract = "Offered"
         /\ reserved' = [reserved EXCEPT ![p] = @ \ {store[p][d].coin}]
         /\ store' = store \/ store' = [store EXCEPT ![p][d] = n]
  <2>1. \/ store' = store /\ reserved' = reserved
        \/ /\ store[p][d].contract = "Offered"
           /\ reserved' = [reserved EXCEPT ![p] = @ \ {store[p][d].coin}]
           /\ \/ store' = store
              \/ store' = [store EXCEPT ![p][d].channel = "Cancelled",
                                        ![p][d].contract = "Rejected"]
    BY <1>0 DEF OnReject
  <2> QED BY <2>1, TwoFields
<1>8. net' = Handled(p, s, 2) /\ net' \in [Party -> Seq(Message)] /\ Queues(net')
  <2>1. net' = Handled(p, s, 2)
    BY DEF OnReject
  <2>2. Handled(p, s, 2) \in [Party -> Seq(Message)] /\ Queues(Handled(p, s, 2))
    BY <1>1, HandledType, HandledQueues
  <2> QED BY <2>1, <2>2
<1>9. RejectedBy(p, d, net) /\ ~RejectedBy(p, d, net')
  BY <1>0, <1>1, <1>2, <1>4, <1>8, RejectOnceFacts, ItemsFacts DEF RejectedBy
<1> HIDE DEF n
<1>10. store[p][d].contract = "Offered" => Goes(store[p][d], n) /\ Claims(p, d)
  BY <1>3, <1>6, <1>9 DEF Goes, Uncommitted, Claims
<1>11. \/ AllGo /\ store' = store
       \/ /\ AllGo /\ store'[p][d] = n
          /\ \A q \in Party, e \in Deals : (q # p \/ e # d) => store'[q][e] = store[q][e]
  BY <1>1, <1>3, <1>7, <1>10, UpdateGoes, StayGoes DEF AllGo
<1>12. store[p][d].contract = "Offered" => ~Claims(p, d)'
  <2>1. store'[Other(p)][d] = store[Other(p)][d]
    BY <1>1, <1>11, PartyFacts
  <2>2. store[p][d].contract = "Offered" => store'[p][d].contract \in {"Offered", "Rejected"}
    BY <1>3, <1>11
  <2> QED BY <1>5, <1>9, <2>1, <2>2 DEF Claims, Held
<1>13. store' # store => ~Claims(p, d)'
  BY <1>7, <1>12
<1>14. ASSUME NEW q \in Party, NEW e \in Deals, store[q][e].coin \in reserved[q], Claims(q, e)'
       PROVE  store[q][e].coin \in reserved'[q]
  <2>1. CASE reserved' = reserved
    BY <1>14, <2>1
  <2>2. CASE reserved' # reserved
    <3>1. /\ store[p][d].contract = "Offered"
          /\ reserved' = [reserved EXCEPT ![p] = @ \ {store[p][d].coin}]
      BY <1>7, <2>2
    <3>2. q # p \/ e # d
      BY <1>12, <1>14, <3>1
    <3>3. CASE q # p
      BY <1>1, <1>14, <3>1, <3>3 DEF TypeOK
    <3>4. CASE q = p
      <4>1. e # d /\ store'[q][e] = store[q][e] /\ AllGo
        BY <1>11, <3>2, <3>4
      <4>2. Rejecting(q)
        BY <1>8 DEF Rejecting, Queues
      <4>3. Claims(q, e)
        BY <1>14, <4>1, <4>2, ClaimStays
      <4>4. store[p][e].coin # store[p][d].coin
        BY <1>1, <1>10, <3>1, <3>4, <4>1, <4>3 DEF CoinInv
      <4> QED BY <1>1, <1>14, <3>1, <3>4, <4>4 DEF TypeOK
    <3> QED BY <3>3, <3>4
  <2> QED BY <2>1, <2>2
<1>15. store' = store \/ (store' = [store EXCEPT ![p][d] = n] /\ Goes(store[p][d], n))
  BY <1>7, <1>10
<1>16. ~(n.contract # "None" /\ ~n.offer)
  BY <1>3, <1>6
<1> QED BY <1>1, <1>3, <1>8, <1>13, <1>14, <1>15, <1>16, SilentCoin

LEMMA OnSignCoin ==
    ASSUME CoinInv, NEW p \in Party, NEW s \in 1 .. 3, NEW v \in BOOLEAN, OnSign(p, s, v)
    PROVE  CoinInv'
<1>0. PICK d : d = Head(net[p]).deal
  OBVIOUS
<1>1. TypeOK /\ TypeOK' /\ d \in Deals /\ net[p] # <<>>
  BY <1>0, OnSignType, HeadTail DEF CoinInv, OnSign, Is
<1>2. PICK l \in {2, 3} :
        /\ net' = Handled(p, s, l)
        /\ \/ store' = store
           \/ /\ store[p][d].contract = "Accepted"
              /\ store' = [store EXCEPT ![p][d] = SignedByAccept(store[p][d], d)]
           \/ /\ store[p][d].contract = "Accepted"
              /\ store' = [store EXCEPT ![p][d] = FailedRecord(store[p][d], d, "FailedSign")]
  BY <1>0, <1>1, SignEffect DEF Signs
<1>3. PICK n \in Record :
        /\ store' = store
           \/ (store[p][d].contract = "Accepted" /\ store' = [store EXCEPT ![p][d] = n])
        /\ n.contract \in {"Accepted", "Signed", "FailedSign"} \/ store' = store
        /\ n.offer = store[p][d].offer /\ n.coin = store[p][d].coin
  <2>1. /\ SignedByAccept(store[p][d], d) \in Record
        /\ FailedRecord(store[p][d], d, "FailedSign") \in Record
        /\ store[p][d] \in Record
    BY <1>1, RecordType DEF TypeOK
  <2>2. CASE store' = store
    BY <2>1, <2>2
  <2>3. CASE /\ store[p][d].contract = "Accepted"
             /\ store' = [store EXCEPT ![p][d] = SignedByAccept(store[p][d], d)]
    BY <1>1, <2>1, <2>3, SignedFields
  <2>4. CASE /\ store[p][d].contract = "Accepted"
             /\ store' = [store EXCEPT ![p][d] = FailedRecord(store[p][d], d, "FailedSign")]
    <3> DEFINE n == FailedRecord(store[p][d], d, "FailedSign")
    <3>1. /\ n.contract \in {store[p][d].contract, "FailedSign"}
          /\ n.offer = store[p][d].offer /\ n.coin = store[p][d].coin
      BY <1>1, <2>1, FailedFields
    <3> HIDE DEF n
    <3> QED BY <2>1, <2>4, <3>1 DEF n
  <2> QED BY <1>2, <2>2, <2>3, <2>4
<1>4. store[p][d].contract = "Accepted" => Claims(p, d)
  BY DEF Claims
<1>5. store' # store => Goes(store[p][d], n)
  BY <1>3 DEF Goes, Uncommitted
<1>6. store' # store /\ ~n.offer => store[Other(p)][d].offer
  BY <1>1, <1>3 DEF CoinInv, Took
<1>7. Handled(p, s, l) \in [Party -> Seq(Message)] /\ Queues(Handled(p, s, l))
  BY <1>1, HandledType, HandledQueues
<1>8. reserved' = reserved
  BY DEF OnSign
<1> QED BY <1>1, <1>2, <1>3, <1>4, <1>5, <1>6, <1>7, <1>8, SilentCoin

LEMMA CheckCoin ==
    ASSUME CoinInv, NEW p \in Party, NEW d \in Deals, NEW got \in SUBSET Attested,
           NEW s \in 1 .. 3, PeriodicCheck(p, got, d, s)
    PROVE  CoinInv'
<1>1. TypeOK /\ TypeOK' /\ store[p][d] \in Record
  BY CheckType DEF CoinInv, TypeOK
<1>2. PICK x \in Outcomes \cup {"None"}, c \in Held, y \in Outcomes \cup {"None"} :
             Checked(p, d, got, x, c, y)
  BY <1>1, PeriodicEffect
<1> DEFINE n == CheckedRecord(store[p][d], c, y)
<1>3. /\ n \in Record /\ n.contract = c /\ n.offer = store[p][d].offer
      /\ n.coin = store[p][d].coin
  <2>1. c \in ContractState
    BY DEF Held, ContractState
  <2> QED BY <1>1, <2>1, CheckedType, CheckedFields
<1>4. store' = [store EXCEPT ![p][d] = n] /\ store[p][d].contract \in Held
  BY <1>2 DEF Checked
<1> HIDE DEF n
<1>5. Goes(store[p][d], n) /\ Claims(p, d)
  BY <1>3, <1>4 DEF Goes, Uncommitted, Held, Claims
<1>6. ~n.offer => store[Other(p)][d].offer
  BY <1>3, <1>4 DEF CoinInv, Took, Held
<1>7. net' \in [Party -> Seq(Message)] /\ Queues(net')
  <2>1. net' = net \/ net' = [net EXCEPT ![p] = <<>>]
    BY <1>2 DEF Checked
  <2> QED BY <1>1, <2>1, HandledQueues, EmptySeq DEF TypeOK
<1>8. reserved' = reserved
  BY <1>2 DEF Checked
<1> QED BY <1>1, <1>3, <1>4, <1>5, <1>6, <1>7, <1>8, SilentCoin

LEMMA OnAcceptCoin ==
    ASSUME CoinInv, NEW p \in Party, NEW s \in 1 .. 3, NEW v \in BOOLEAN, OnAccept(p, s, v)
    PROVE  CoinInv'
<1>0. PICK d : d = Head(net[p]).deal
  OBVIOUS
<1> DEFINE m == [type |-> "Sign", deal |-> d, valid |-> v]
           H == Handled(p, s, 3)
<1>1. TypeOK /\ TypeOK' /\ d \in Deals /\ net[p] # <<>>
  BY <1>0, OnAcceptType, HeadTail DEF CoinInv, OnAccept, Is
<1>2. /\ \/ store' = store
         \/ /\ store[p][d].contract = "Offered" /\ store[p][d].offer
            /\ store' = [store EXCEPT ![p][d] = SignedByOffer(store[p][d], d)]
         \/ /\ store[p][d].contract = "Offered"
            /\ store' = [store EXCEPT ![p][d] = FailedRecord(store[p][d], d, "FailedAccept")]
      /\ net' = H \/ net' = [H EXCEPT ![Other(p)] = Append(@, m)]
  BY <1>0, <1>1, AcceptEffect DEF Accepts, SignSent
<1>3. PICK n \in Record :
        /\ store' = store
           \/ (store[p][d].contract = "Offered" /\ store' = [store EXCEPT ![p][d] = n])
        /\ \/ store' = store
           \/ n.contract = "Signed" /\ store[p][d].offer
           \/ n.contract \in {"Offered", "FailedAccept"}
        /\ n.offer = store[p][d].offer /\ n.coin = store[p][d].coin
  <2>1. /\ SignedByOffer(store[p][d], d) \in Record
        /\ FailedRecord(store[p][d], d, "FailedAccept") \in Record
        /\ store[p][d] \in Record
    BY <1>1, RecordType DEF TypeOK
  <2>2. CASE store' = store
    BY <2>1, <2>2
  <2>3. CASE /\ store[p][d].contract = "Offered" /\ store[p][d].offer
             /\ store' = [store EXCEPT ![p][d] = SignedByOffer(store[p][d], d)]
    <3> DEFINE n == SignedByOffer(store[p][d], d)
    <3>1. n.contract = "Signed" /\ n.offer = store[p][d].offer /\ n.coin = store[p][d].coin
      BY <1>1, <2>1, SignedFields
    <3> HIDE DEF n
    <3> QED BY <2>1, <2>3, <3>1 DEF n
  <2>4. CASE /\ store[p][d].contract = "Offered"
             /\ store' = [store EXCEPT ![p][d] = FailedRecord(store[p][d], d, "FailedAccept")]
    <3> DEFINE n == FailedRecord(store[p][d], d, "FailedAccept")
    <3>1. /\ n.contract \in {store[p][d].contract, "FailedAccept"}
          /\ n.offer = store[p][d].offer /\ n.coin = store[p][d].coin
      BY <1>1, <2>1, FailedFields
    <3> HIDE DEF n
    <3> QED BY <2>1, <2>4, <3>1 DEF n
  <2> QED BY <1>2, <2>2, <2>3, <2>4
<1>4. store[Other(p)][d].contract \notin Uncommitted
  <2>1. Head(net[p]) \in Items(net[p]) /\ Head(net[p]).type = "Accept"
    BY <1>1, ItemsFacts DEF TypeOK, OnAccept, Is
  <2> QED BY <1>0, <2>1 DEF CoinInv, Tells, Uncommitted
<1>5. store' # store => Goes(store[p][d], n)
  BY <1>3 DEF Goes, Uncommitted
<1>6. store' # store /\ ~n.offer => store[Other(p)][d].offer
  BY <1>1, <1>3 DEF CoinInv, Took
<1>7. store' # store => store'[p][d] = n
  BY <1>1, <1>3 DEF TypeOK
<1>8. store' # store /\ Claims(p, d)' => Claims(p, d)
  BY <1>3, <1>4, <1>7 DEF Claims, Held, Uncommitted
<1>9. m \in Message /\ m.type = "Sign" /\ m.deal = d
  BY <1>1 DEF Message
<1>10. H \in [Party -> Seq(Message)] /\ Queues(H)
  BY <1>1, HandledType, HandledQueues
<1> HIDE DEF m, H
<1>11. Delivered(p, m)
  BY <1>2, <1>9, <1>10, SendQueues
<1>12. Tells(m, store'[p][m.deal])
  BY <1>9 DEF Tells
<1>13. reserved' = reserved
  BY DEF OnAccept
<1> QED BY <1>1, <1>3, <1>5, <1>6, <1>8, <1>9, <1>11, <1>12, <1>13, OneRecord

LEMMA WorldCoin ==
    ASSUME CoinInv,
           \/ \E d \in Deals : MineFund(d) \/ MineSpend(d)
           \/ \E p \in Party, d \in Deals : Relay(p, d)
           \/ \E i \in Oracles, x \in Outcomes : Attest(i, x)
           \/ Tick
           \/ \E p \in Party : Lose(p) \/ Restart(p)
    PROVE  CoinInv'
<1>1. TypeOK /\ TypeOK'
  BY WorldType DEF CoinInv
<1>2. store' = store /\ reserved' = reserved
  BY DEF MineFund, MineSpend, Relay, Attest, Tick, Lose, Restart
<1>3. net' \in [Party -> Seq(Message)] /\ Queues(net')
  <2>1. \/ net' = net
        \/ \E p \in Party : net[p] # <<>> /\ net' = Handled(p, 1, 1)
        \/ \E p \in Party : net' = [net EXCEPT ![p] = <<>>]
    BY DEF MineFund, MineSpend, Relay, Attest, Tick, Lose, Restart, Handled
  <2>2. Alice \in Party
    BY PartyFacts
  <2>3. net' \in [Party -> Seq(Message)]
    BY <1>1 DEF TypeOK
  <2>4. ASSUME net' = net PROVE Queues(net')
    BY <2>2, <2>4, HandledQueues
  <2>5. ASSUME NEW p \in Party, net[p] # <<>>, net' = Handled(p, 1, 1) PROVE Queues(net')
    BY <2>5, HandledQueues
  <2>6. ASSUME NEW p \in Party, net' = [net EXCEPT ![p] = <<>>] PROVE Queues(net')
    BY <2>6, HandledQueues
  <2> QED BY <2>1, <2>3, <2>4, <2>5, <2>6
<1>4. AllGo /\ \A q \in Party : Rejecting(q)
  BY <1>2, <1>3, StayGoes DEF AllGo, Rejecting, Queues
<1>5. ASSUME NEW q \in Party, NEW e \in Deals, Claims(q, e)' PROVE Same(q, e)
  BY <1>2, <1>4, <1>5, ClaimStays DEF Same
<1>6. \A q \in Party, e \in Deals : Took(q, e)' => store'[Other(q)][e].offer
  BY <1>2 DEF CoinInv, Took
<1>7. \A q \in Party, e \in Deals : ~Fresh(q, e)
  BY <1>2 DEF Fresh
<1> QED BY <1>1, <1>3, <1>4, <1>5, <1>6, <1>7, CoinKept DEF Queues

LEMMA CoinInit ==
    ASSUME Init
    PROVE  CoinInv
<1>1. TypeOK
  BY TypeInit
<1>2. NoRecord.contract = "None" /\ ~NoRecord.offer
  BY DEF NoRecord
<1>3. \A p \in Party, d \in Deals : store[p][d] = NoRecord
  BY DEF Init
<1>4. \A p \in Party, d \in Deals : ~Claims(p, d)
  BY <1>2, <1>3 DEF Claims, Held
<1>5. \A p \in Party : net[p] = <<>>
  BY DEF Init
<1> QED BY <1>1, <1>2, <1>3, <1>4, <1>5, ItemsFacts, RejectOnceFacts DEF CoinInv, Took

LEMMA CoinStep ==
    ASSUME CoinInv, [Next]_vars
    PROVE  CoinInv'
<1>1. CASE Next
  BY <1>1, OfferCoin, AcceptCoin, RejectCoin, OnOfferCoin, OnRejectCoin, OnAcceptCoin,
     OnSignCoin, CheckCoin, WorldCoin DEF Next
<1>2. CASE UNCHANGED vars
  <2>1. TypeOK'
    BY <1>2, TypeStep DEF CoinInv
  <2> QED BY <1>2, <2>1 DEF vars, CoinInv, Claims, Took
<1> QED BY <1>1, <1>2

(* No coin funds two contracts that were accepted or signed: the wallet    *)
(* gives out a coin again only after on_reject released it, and by then    *)
(* the offer it was reserved for can no longer be accepted.                *)
THEOREM CoinsSafe == Spec => []CoinsOnce
<1>1. Init => CoinInv
  BY CoinInit
<1>2. CoinInv /\ [Next]_vars => CoinInv'
  BY CoinStep
<1>3. CoinInv => CoinsOnce
  BY DEF CoinInv, CoinsOnce, Claims
<1> QED BY <1>1, <1>2, <1>3, PTL DEF Spec

-----------------------------------------------------------------------------
(* One outcome.                                                            *)

(* Every outcome a CET was published or recorded for is supported by what  *)
(* the oracles attested, and no oracle takes back what it attested.        *)
CetInv == TypeOK /\ CetSupported

LEMMA OraclesFinite ==
    /\ IsFiniteSet(Oracles) /\ Cardinality(Oracles) = NbOracles
    /\ \A S \in SUBSET Oracles : /\ IsFiniteSet(S) /\ Cardinality(S) \in Nat
                                 /\ Cardinality(S) <= NbOracles
                                 /\ \A T \in SUBSET S : Cardinality(T) <= Cardinality(S)
<1>1. IsFiniteSet(Oracles) /\ Cardinality(Oracles) = NbOracles
  BY FS_Interval, DlcContractAssumption DEF Oracles
<1>2. ASSUME NEW S \in SUBSET Oracles
      PROVE  /\ IsFiniteSet(S) /\ Cardinality(S) \in Nat /\ Cardinality(S) <= NbOracles
             /\ \A T \in SUBSET S : Cardinality(T) <= Cardinality(S)
  <2>1. IsFiniteSet(S) /\ Cardinality(S) <= NbOracles
    BY <1>1, FS_Subset
  <2> QED BY <2>1, FS_Subset, FS_CardinalityType
<1> QED BY <1>1, <1>2

(* Attestations are added.                                                 *)
Grows ==
    /\ descriptor' = descriptor
    /\ \A i \in Oracles : attested[i] \in Outcomes => attested'[i] = attested[i]

LEMMA SupportKept ==
    ASSUME Grows, NEW d \in ContractDeals, NEW x \in Outcomes, Supported(d, x)
    PROVE  Supported(d, x)'
<1>1. PICK c \in SUBSET Oracles :
         /\ Cardinality(c) >= Threshold
         /\ IF descriptor[d] = "Difference"
            THEN \E m \in c : /\ attested[m] = x
                              /\ {attested[i] : i \in c \ {m}} \in Cover[x]
            ELSE \A i \in c : attested[i] = x
  BY DEF Supported
<1>2. CASE descriptor[d] = "Difference"
  <2>1. PICK m \in c : attested[m] = x /\ {attested[i] : i \in c \ {m}} \in Cover[x]
    BY <1>1, <1>2
  <2>2. {attested[i] : i \in c \ {m}} \subseteq Outcomes
    BY <2>1, DlcContractAssumption
  <2>3. \A i \in c \ {m} : attested'[i] = attested[i]
    BY <1>1, <2>2 DEF Grows
  <2>4. {attested'[i] : i \in c \ {m}} = {attested[i] : i \in c \ {m}}
    BY <2>3
  <2>5. attested'[m] = x /\ {attested'[i] : i \in c \ {m}} \in Cover[x]
    BY <1>1, <2>1, <2>4 DEF Grows
  <2> QED BY <1>1, <1>2, <2>5 DEF Supported, Grows
<1>3. CASE descriptor[d] # "Difference"
  <2>1. \A i \in c : attested'[i] = x
    BY <1>1, <1>3 DEF Grows
  <2> QED BY <1>1, <1>3, <2>1 DEF Supported, Grows
<1> QED BY <1>2, <1>3

LEMMA CetKept ==
    ASSUME CetInv, TypeOK', Grows,
           \A d \in ContractDeals : \A x \in Published(d)' \cap Outcomes :
              x \in Published(d) \/ Supported(d, x)
    PROVE  CetInv'
<1>1. ASSUME NEW d \in ContractDeals, NEW x \in Published(d)' \cap Outcomes
      PROVE  Supported(d, x)'
  <2>1. Supported(d, x)
    BY <1>1 DEF CetInv, CetSupported
  <2> QED BY <2>1, SupportKept
<1> QED BY <1>1 DEF CetInv, CetSupported

LEMMA CetSame ==
    ASSUME CetInv, TypeOK', UNCHANGED <<pool, spent, attested, descriptor>>,
           \A p \in Party, d \in Deals : store'[p][d].cet \in {store[p][d].cet, "None"}
    PROVE  CetInv'
<1>1. "None" \notin Outcomes /\ ContractDeals \subseteq Deals
  BY DlcContractAssumption DEF Deals
<1>2. ASSUME NEW d \in ContractDeals, NEW x \in Published(d)' \cap Outcomes
      PROVE  x \in Published(d)
  BY <1>1, <1>2 DEF Published
<1> QED BY <1>2, CetKept DEF Grows

LEMMA CetInit ==
    ASSUME Init
    PROVE  CetInv
<1>1. TypeOK
  BY TypeInit
<1>2. "None" \notin Outcomes /\ NoRecord.cet = "None"
  BY DlcContractAssumption DEF NoRecord
<1>3. ASSUME NEW d \in ContractDeals PROVE Published(d) \subseteq {"None"}
  BY <1>2 DEF Init, Published, Deals
<1> QED BY <1>1, <1>2, <1>3 DEF CetInv, CetSupported

(* What the look-ups find is supported by the attestations they were given. *)
LEMMA FindsSupported ==
    ASSUME TypeOK, NEW d, NEW got \in SUBSET Attested, NEW x, Finds(d, got, x)
    PROVE  Supported(d, x)
<1>1. PICK t \in LookUp(d, got) : t.cet = x
  BY DEF Finds
<1>2. descriptor[d] \in {"Enum", "Numerical", "Difference"} /\ got \subseteq Oracles
  BY DlcContractAssumption DEF Finds, TypeOK, Attested
<1>3. CASE descriptor[d] # "Difference"
  <2>1. Enough(got, x)
    BY <1>1, <1>2, <1>3 DEF LookUp, EnumLookUp, NumericalLookUp, Agreement
  <2>2. Voters(got, x) \in SUBSET Oracles /\ \A i \in Voters(got, x) : attested[i] = x
    BY <1>2 DEF Voters
  <2>3. Cardinality(Voters(got, x)) >= Threshold
    BY <2>1 DEF Enough
  <2> QED BY <1>3, <2>2, <2>3 DEF Supported
<1>4. CASE descriptor[d] = "Difference"
  <2>1. t \in DifferenceLookUp(got)
    BY <1>1, <1>4 DEF LookUp
  <2>2. t.by \in Combinations(got) /\ \E m \in t.by : Match(t.by, m) /\ t.cet = attested[m]
    BY <2>1 DEF DifferenceLookUp
  <2>3. PICK m \in t.by : Covers(t.by, m) /\ attested[m] = x
    BY <1>1, <2>2 DEF Match
  <2>4. t.by \in SUBSET Oracles /\ Cardinality(t.by) >= Threshold
    <3>1. t.by \subseteq got /\ Cardinality(t.by) = Threshold
      BY <2>2 DEF Combinations
    <3>2. Threshold \in Nat
      BY DlcContractAssumption DEF Oracles
    <3> QED BY <1>2, <3>1, <3>2
  <2>5. {attested[i] : i \in t.by \ {m}} \in Cover[x]
    BY <2>3 DEF Covers
  <2> QED BY <1>4, <2>3, <2>4, <2>5 DEF Supported
<1> QED BY <1>3, <1>4

LEMMA CheckCet ==
    ASSUME CetInv, NEW p \in Party, NEW d \in Deals, NEW got \in SUBSET Attested,
           NEW s \in 1 .. 3, PeriodicCheck(p, got, d, s)
    PROVE  CetInv'
<1>1. TypeOK /\ TypeOK' /\ store[p][d] \in Record
  BY CheckType DEF CetInv, TypeOK
<1>2. PICK x \in Outcomes \cup {"None"}, c \in Held, y \in Outcomes \cup {"None"} :
             Checked(p, d, got, x, c, y)
  BY <1>1, PeriodicEffect
<1>3. Finds(d, got, x) => Supported(d, x)
  BY <1>1, FindsSupported
<1>4. "Refund" \notin Outcomes /\ ContractDeals \subseteq Deals
  BY DlcContractAssumption DEF Deals
<1>5. ASSUME NEW q \in Party, NEW e \in Deals
      PROVE  \/ store'[q][e].cet = store[q][e].cet
             \/ e = d /\ store'[q][e].cet = x /\ Finds(d, got, x)
  <2>1. /\ store' = [store EXCEPT ![p][d] = CheckedRecord(store[p][d], c, y)]
        /\ y = store[p][d].cet \/ (y = x /\ Finds(d, got, x))
    BY <1>2 DEF Checked
  <2>2. CheckedRecord(store[p][d], c, y).cet = y
    BY <1>1 DEF CheckedRecord, Record
  <2>3. store'[q][e] = IF q = p /\ e = d THEN CheckedRecord(store[p][d], c, y) ELSE store[q][e]
    BY <1>1, <2>1 DEF TypeOK
  <2> QED BY <2>1, <2>2, <2>3
<1>6. ASSUME NEW q \in Party, NEW e \in Deals
      PROVE  \/ pool'[q][e] \in {pool[q][e], "Refund"}
             \/ e = d /\ pool'[q][e] = x /\ Finds(d, got, x)
  <2>1. \/ pool' = pool
        \/ pool' = [pool EXCEPT ![p][d] = "Refund"]
        \/ pool' = [pool EXCEPT ![p][d] = x] /\ Finds(d, got, x)
    BY <1>2 DEF Checked
  <2>2. pool \in [Party -> [Deals -> Spending \cup {"None"}]]
    BY <1>1 DEF TypeOK
  <2> QED BY <2>1, <2>2
<1>7. spent' = spent /\ attested' = attested /\ descriptor' = descriptor
  BY <1>2 DEF Checked, world
<1>8. ASSUME NEW e \in ContractDeals, NEW z \in Published(e)' \cap Outcomes
      PROVE  z \in Published(e) \/ Supported(e, z)
  <2>1. z \in Published(e) \/ (e = d /\ z = x /\ Finds(d, got, x))
    BY <1>4, <1>5, <1>6, <1>7, <1>8 DEF Published
  <2> QED BY <1>3, <2>1
<1> QED BY <1>1, <1>7, <1>8, CetKept DEF Grows

LEMMA WorldCet ==
    ASSUME CetInv,
           \/ \E d \in Deals : MineFund(d) \/ MineSpend(d)
           \/ \E p \in Party, d \in Deals : Relay(p, d)
           \/ \E i \in Oracles, x \in Outcomes : Attest(i, x)
           \/ Tick
           \/ \E p \in Party : Lose(p) \/ Restart(p)
    PROVE  CetInv'
<1>1. TypeOK /\ TypeOK' /\ "None" \notin Outcomes
  BY WorldType, DlcContractAssumption DEF CetInv
<1>2. store' = store
  BY DEF MineFund, MineSpend, Relay, Attest, Tick, Lose, Restart
<1>3. Grows
  <2>1. \/ attested' = attested
        \/ \E i \in Oracles, x \in Outcomes :
              attested[i] = "None" /\ attested' = [attested EXCEPT ![i] = x]
    BY DEF MineFund, MineSpend, Relay, Attest, Tick, Lose, Restart, world
  <2>2. descriptor' = descriptor
    BY DEF MineFund, MineSpend, Relay, Attest, Tick, Lose, Restart, world
  <2> QED BY <1>1, <2>1, <2>2 DEF Grows, TypeOK
<1>4. ASSUME NEW e \in Deals PROVE Published(e)' \subseteq Published(e) \cup {"None"}
  <2>1. CASE UNCHANGED <<pool, spent>>
    BY <1>2, <2>1 DEF Published
  <2>2. ASSUME NEW d \in Deals, MineSpend(d)
        PROVE  Published(e)' \subseteq Published(e) \cup {"None"}
    <3>1. PICK p \in Party : spent' = [spent EXCEPT ![d] = pool[p][d]]
      BY <2>2 DEF MineSpend
    <3>2. spent'[e] \in {spent[e], pool[p][e]}
      BY <1>1, <3>1 DEF TypeOK
    <3>3. \A q \in Party : pool'[q][e] \in {pool[q][e], "None"}
      BY <1>1, <2>2 DEF TypeOK, MineSpend
    <3> QED BY <1>2, <3>2, <3>3 DEF Published
  <2>3. ASSUME NEW p \in Party, NEW d \in Deals, Relay(p, d)
        PROVE  Published(e)' \subseteq Published(e) \cup {"None"}
    <3>1. \A q \in Party : pool'[q][e] \in {pool[q][e], pool[p][e]}
      BY <1>1, <2>3, PartyFacts DEF TypeOK, Relay
    <3>2. spent' = spent
      BY <2>3 DEF Relay
    <3> QED BY <1>2, <3>1, <3>2 DEF Published
  <2>4. \/ UNCHANGED <<pool, spent>> \/ \E d \in Deals : MineSpend(d)
        \/ \E p \in Party, d \in Deals : Relay(p, d)
    BY DEF MineFund, Attest, Tick, Lose, Restart, chain
  <2> QED BY <2>1, <2>2, <2>3, <2>4
<1> QED BY <1>1, <1>3, <1>4, CetKept DEF Deals

LEMMA OtherRecordsCet ==
    ASSUME TypeOK, NEW p \in Party, NEW d \in Deals, NEW n,
           n.cet \in {store[p][d].cet, "None"},
           store' = store \/ store' = [store EXCEPT ![p][d] = n]
    PROVE  \A q \in Party, e \in Deals : store'[q][e].cet \in {store[q][e].cet, "None"}
<1> SUFFICES ASSUME NEW q \in Party, NEW e \in Deals
             PROVE  store'[q][e].cet \in {store[q][e].cet, "None"}
  OBVIOUS
<1>1. store'[q][e] \in {store[q][e], n} /\ (store'[q][e] # store[q][e] => q = p /\ e = d)
  BY DEF TypeOK
<1> QED BY <1>1

(* Setting a contract up records no CET.                                   *)
LEMMA SetupCet ==
    ASSUME CetInv,
           \/ \E p \in Party, d \in Deals, v \in BOOLEAN, s \in 1 .. 3 :
                 Offer(p, d, v, s) \/ Accept(p, d, v, s)
           \/ \E p \in Party, d \in Deals, s \in 1 .. 2 : RejectChannel(p, d, s)
           \/ \E p \in Party : OnOffer(p)
           \/ \E p \in Party, s \in 1 .. 2 : OnReject(p, s)
           \/ \E p \in Party, s \in 1 .. 3, v \in BOOLEAN : OnAccept(p, s, v) \/ OnSign(p, s, v)
    PROVE  CetInv'
<1>1. TypeOK /\ TypeOK'
  BY OfferType, AcceptType, RejectType, OnOfferType, OnRejectType, OnAcceptType, OnSignType
     DEF CetInv
<1>2. UNCHANGED <<pool, spent, attested, descriptor>>
  <2>1. ASSUME NEW p \in Party, NEW s \in 1 .. 3, NEW v \in BOOLEAN, OnSign(p, s, v)
        PROVE  UNCHANGED <<pool, spent, attested, descriptor>>
    BY <2>1 DEF OnSign, world
  <2>2. ASSUME NEW p \in Party, NEW s \in 1 .. 3, NEW v \in BOOLEAN, OnAccept(p, s, v)
        PROVE  UNCHANGED <<pool, spent, attested, descriptor>>
    BY <2>2 DEF OnAccept, chain, world
  <2>3. ASSUME NEW p \in Party, NEW d \in Deals, NEW v \in BOOLEAN, NEW s \in 1 .. 3,
               Offer(p, d, v, s) \/ Accept(p, d, v, s)
        PROVE  UNCHANGED <<pool, spent, attested, descriptor>>
    BY <2>3 DEF Offer, Accept, chain, world
  <2>4. ASSUME NEW p \in Party, NEW d \in Deals, NEW s \in 1 .. 2, RejectChannel(p, d, s)
        PROVE  UNCHANGED <<pool, spent, attested, descriptor>>
    BY <2>4 DEF RejectChannel, chain, world
  <2>5. ASSUME NEW p \in Party, NEW s \in 1 .. 2, OnOffer(p) \/ OnReject(p, s)
        PROVE  UNCHANGED <<pool, spent, attested, descriptor>>
    BY <2>5 DEF OnOffer, OnReject, chain, world
  <2>6. 1 \in 1 .. 2
    OBVIOUS
  <2> QED BY <2>1, <2>2, <2>3, <2>4, <2>5, <2>6
<1>3. \A p \in Party, d \in Deals : store[p][d] \in Record
  BY <1>1 DEF TypeOK
<1> DEFINE Keeps == \A q \in Party, e \in Deals : store'[q][e].cet \in {store[q][e].cet, "None"}
<1>4. ASSUME NEW p \in Party, NEW d \in Deals, NEW v \in BOOLEAN, NEW s \in 1 .. 3,
             Offer(p, d, v, s)
      PROVE  Keeps
  <2>1. store' = store \/ store' = [store EXCEPT ![p][d] = OfferedRecord(d, Coin(p))]
    BY <1>4 DEF Offer
  <2>2. OfferedRecord(d, Coin(p)).cet = "None"
    BY DEF OfferedRecord, NoRecord
  <2> QED BY <1>1, <2>1, <2>2, OtherRecordsCet
<1>5. ASSUME NEW p \in Party, NEW d \in Deals, NEW v \in BOOLEAN, NEW s \in 1 .. 3,
             Accept(p, d, v, s)
      PROVE  Keeps
  <2>1. \/ store' = store
        \/ store' = [store EXCEPT ![p][d] = AcceptedRecord(store[p][d], d, Coin(p))]
    BY <1>5 DEF Accept
  <2>2. AcceptedRecord(store[p][d], d, Coin(p)).cet = store[p][d].cet
    BY <1>3 DEF AcceptedRecord, AcceptedContract, Record
  <2> QED BY <1>1, <2>1, <2>2, OtherRecordsCet
<1>6. ASSUME NEW p \in Party, NEW d \in Deals,
             store' = store \/ store' = [store EXCEPT ![p][d].channel = "Cancelled",
                                                      ![p][d].contract = "Rejected"]
      PROVE  Keeps
  <2>1. store' = store \/ store' = [store EXCEPT ![p][d] = RejectedRecord(store[p][d])]
    BY <1>6, TwoFields
  <2>2. RejectedRecord(store[p][d]).cet = store[p][d].cet
    BY <1>3 DEF RejectedRecord, Record
  <2> QED BY <1>1, <2>1, <2>2, OtherRecordsCet
<1>7. ASSUME NEW p \in Party, NEW d \in Deals, NEW s \in 1 .. 2, RejectChannel(p, d, s)
      PROVE  Keeps
  BY <1>6, <1>7 DEF RejectChannel
<1>8. ASSUME NEW p \in Party, OnOffer(p)
      PROVE  Keeps
  <2> DEFINE d == Head(net[p]).deal
  <2>1. d \in Deals
    BY <1>1, <1>8, HeadTail DEF OnOffer, Is
  <2>2. store' = store \/ store' = [store EXCEPT ![p][d] = ReceivedRecord(d)]
    BY <1>8 DEF OnOffer
  <2> HIDE DEF d
  <2>3. ReceivedRecord(d).cet = "None"
    BY DEF ReceivedRecord, NoRecord
  <2> QED BY <1>1, <2>1, <2>2, <2>3, OtherRecordsCet
<1>9. ASSUME NEW p \in Party, NEW s \in 1 .. 2, OnReject(p, s)
      PROVE  Keeps
  <2> DEFINE d == Head(net[p]).deal
  <2>1. d \in Deals
    BY <1>1, <1>9, HeadTail DEF OnReject, Is
  <2>2. store' = store \/ store' = [store EXCEPT ![p][d].channel = "Cancelled",
                                                 ![p][d].contract = "Rejected"]
    BY <1>9 DEF OnReject
  <2> HIDE DEF d
  <2> QED BY <1>6, <2>1, <2>2
<1>10. ASSUME NEW p \in Party, NEW s \in 1 .. 3, NEW v \in BOOLEAN, OnAccept(p, s, v)
       PROVE  Keeps
  <2> DEFINE d == Head(net[p]).deal
  <2>1. d \in Deals
    BY <1>1, <1>10, HeadTail DEF OnAccept, Is
  <2>2. \/ store' = store
        \/ store' = [store EXCEPT ![p][d] = SignedByOffer(store[p][d], d)]
        \/ store' = [store EXCEPT ![p][d] = FailedRecord(store[p][d], d, "FailedAccept")]
    BY <1>1, <1>10, AcceptEffect DEF Accepts
  <2> HIDE DEF d
  <2>3. SignedByOffer(store[p][d], d).cet = store[p][d].cet
    BY <1>3, <2>1 DEF SignedByOffer, Record
  <2>4. FailedRecord(store[p][d], d, "FailedAccept").cet = store[p][d].cet
    BY <1>3, <2>1 DEF FailedRecord, Record
  <2> QED BY <1>1, <2>1, <2>2, <2>3, <2>4, OtherRecordsCet
<1>11. ASSUME NEW p \in Party, NEW s \in 1 .. 3, NEW v \in BOOLEAN, OnSign(p, s, v)
       PROVE  Keeps
  <2> DEFINE d == Head(net[p]).deal
  <2>1. d \in Deals
    BY <1>1, <1>11, HeadTail DEF OnSign, Is
  <2>2. \/ store' = store
        \/ store' = [store EXCEPT ![p][d] = SignedByAccept(store[p][d], d)]
        \/ store' = [store EXCEPT ![p][d] = FailedRecord(store[p][d], d, "FailedSign")]
    BY <1>1, <1>11, SignEffect DEF Signs
  <2> HIDE DEF d
  <2>3. SignedByAccept(store[p][d], d).cet = store[p][d].cet
    BY <1>3, <2>1 DEF SignedByAccept, Record
  <2>4. FailedRecord(store[p][d], d, "FailedSign").cet = store[p][d].cet
    BY <1>3, <2>1 DEF FailedRecord, Record
  <2> QED BY <1>1, <2>1, <2>2, <2>3, <2>4, OtherRecordsCet
<1> HIDE DEF Keeps
<1>12. Keeps
  BY <1>4, <1>5, <1>7, <1>8, <1>9, <1>10, <1>11
<1> QED BY <1>1, <1>2, <1>12, CetSame DEF Keeps

LEMMA CetStep ==
    ASSUME CetInv, [Next]_vars
    PROVE  CetInv'
<1>1. CASE Next
  BY <1>1, SetupCet, CheckCet, WorldCet DEF Next
<1>2. CASE UNCHANGED vars
  <2>1. TypeOK'
    BY <1>2, TypeStep DEF CetInv
  <2> QED BY <1>2, <2>1, CetSame DEF vars, chain, world
<1> QED BY <1>1, <1>2

LEMMA MajoritiesMeet ==
    ASSUME 2 * Threshold > NbOracles, NEW X \in SUBSET Oracles, NEW Y \in SUBSET Oracles,
           Cardinality(X) >= Threshold, Cardinality(Y) >= Threshold
    PROVE  X \cap Y # {}
<1> SUFFICES ASSUME X \cap Y = {} PROVE FALSE
  OBVIOUS
<1>1. /\ IsFiniteSet(X) /\ IsFiniteSet(Y) /\ Cardinality(X) \in Nat /\ Cardinality(Y) \in Nat
      /\ Cardinality(X \cup Y) <= NbOracles
  BY OraclesFinite
<1>2. Cardinality(X \cup Y) = Cardinality(X) + Cardinality(Y)
  <2>1. Cardinality(X \cup Y) = Cardinality(X) + Cardinality(Y) - Cardinality(X \cap Y)
    BY <1>1, FS_Union
  <2>2. Cardinality(X \cap Y) = 0
    BY FS_EmptySet
  <2> QED BY <1>1, <2>1, <2>2
<1> QED BY <1>1, <1>2, DlcContractAssumption DEF Oracles

(* However the parties ask the oracles, whichever of them is late, and in  *)
(* all three kinds of contracts: a CET that is published, relayed, mined   *)
(* or recorded is one that a threshold of oracles attested.                *)
THEOREM CetsSupported == Spec => []CetSupported
<1>1. Init => CetInv
  BY CetInit
<1>2. CetInv /\ [Next]_vars => CetInv'
  BY CetStep
<1>3. CetInv => CetSupported
  BY DEF CetInv
<1> QED BY <1>1, <1>2, <1>3, PTL DEF Spec

(* Those who attested an outcome that is supported attested one close to   *)
(* it.                                                                     *)
LEMMA SupportClose ==
    ASSUME NEW d, NEW x, Supported(d, x)
    PROVE  \E c \in SUBSET Oracles : /\ Cardinality(c) >= Threshold
                                     /\ \A i \in c : attested[i] \in Close(d, x)
<1>1. PICK c \in SUBSET Oracles :
         /\ Cardinality(c) >= Threshold
         /\ IF descriptor[d] = "Difference"
            THEN \E m \in c : /\ attested[m] = x
                              /\ {attested[i] : i \in c \ {m}} \in Cover[x]
            ELSE \A i \in c : attested[i] = x
  BY DEF Supported
<1>2. CASE descriptor[d] = "Difference"
  <2>1. PICK m \in c : attested[m] = x /\ {attested[i] : i \in c \ {m}} \in Cover[x]
    BY <1>1, <1>2
  <2>2. \A i \in c : attested[i] = x \/ attested[i] \in {attested[j] : j \in c \ {m}}
    BY <2>1
  <2>3. \A i \in c : attested[i] \in {x} \cup UNION Cover[x]
    BY <2>1, <2>2
  <2> QED BY <1>1, <1>2, <2>3 DEF Close
<1>3. CASE descriptor[d] # "Difference"
  BY <1>1, <1>3 DEF Close
<1> QED BY <1>2, <1>3

(* When the threshold is a majority of the oracles, the CETs of an enum or *)
(* a numerical contract that are published, relayed, mined or recorded are *)
(* all for one outcome; those of a contract whose oracles may differ are   *)
(* pairwise close to a common outcome, one that an oracle attested.        *)
THEOREM OutcomeUnique == Spec => []OneCet
<1>1. Init => CetInv
  BY CetInit
<1>2. CetInv /\ [Next]_vars => CetInv'
  BY CetStep
<1>3. ASSUME CetInv, 2 * Threshold > NbOracles, NEW d \in ContractDeals,
             NEW x \in Published(d) \cap Outcomes, NEW y \in Published(d) \cap Outcomes
      PROVE  Close(d, x) \cap Close(d, y) # {}
  <2>1. Supported(d, x) /\ Supported(d, y)
    BY <1>3 DEF CetInv, CetSupported
  <2>2. PICK X \in SUBSET Oracles : /\ Cardinality(X) >= Threshold
                                    /\ \A i \in X : attested[i] \in Close(d, x)
    BY <2>1, SupportClose
  <2>3. PICK Y \in SUBSET Oracles : /\ Cardinality(Y) >= Threshold
                                    /\ \A i \in Y : attested[i] \in Close(d, y)
    BY <2>1, SupportClose
  <2>4. PICK k \in X : k \in Y
    BY <1>3, <2>2, <2>3, MajoritiesMeet
  <2> QED BY <2>2, <2>3, <2>4
<1>4. CetInv => OneCet
  BY <1>3 DEF OneCet
<1> QED BY <1>1, <1>2, <1>4, PTL DEF Spec
=============================================================================
