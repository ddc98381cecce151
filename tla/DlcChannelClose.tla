--------------------------- MODULE DlcChannelClose ---------------------------
(***************************************************************************)
(* Watching, punishing and closing a channel of DlcChannel.                *)
(***************************************************************************)
EXTENDS DlcChannelAgreement

-----------------------------------------------------------------------------
(***************************************************************************)
(* The chain monitor of a party is ready to punish, for every choice of    *)
(* the constants of DlcChannel.                                            *)
(*                                                                         *)
(* The monitor that counts is also the stored one, which a restart brings  *)
(* back: some handlers add a watch in memory only.  The entry that revokes *)
(* a transaction is added by a different handler on each side, for the     *)
(* accepter of a renewal before it has the secret, so the invariant says   *)
(* where an entry may be ahead of the secrets.                             *)
(***************************************************************************)

Superseding == {"RenewFinalized", "SettledAccepted", "SettledConfirmed"}
IsSuperseded(p, e) ==
    e.type = "Revoked" /\ e.tx = rollback[p].tx /\ e.idx = updateIdx[p]

(* An entry for a revoked transaction names its update, which is over or   *)
(* just being superseded.                                                  *)
Justified(p, e) ==
    /\ e.tx.point = Both(e.idx)
    /\ \/ e.idx < updateIdx[p]
       \/ IsSuperseded(p, e) /\ state[p].name \in Superseding

Watched(p, M) ==
    LET q == Other(p) IN
    Live(p) =>
      /\ \A tx \in held[q] : tx.point[q] < updateIdx[p] =>
           \E e \in M.tx : e.tx = tx /\ e.type = "Revoked" /\ e.idx = tx.point[q]
      /\ \A e \in M.tx : e.type = "Revoked" => Justified(p, e)
      /\ state[p].name = "RenewFinalized" => \E e \in M.tx : IsSuperseded(p, e)
Guarded(p) == \A M \in {monitor[p], stored[p]} : Watched(p, M)

WatchInv == AgreementInv /\ \A p \in Party : Guarded(p)

-----------------------------------------------------------------------------
(* Adding to the monitor.                                                  *)

LEMMA Added ==
    ASSUME NEW M, NEW e
    PROVE  /\ e \in AddTx(M, e).tx
           /\ \A x \in M.tx : x.tx # e.tx => x \in AddTx(M, e).tx
           /\ \A x \in AddTx(M, e).tx : x = e \/ (x \in M.tx /\ x.tx # e.tx)
  <1>1. AddTx(M, e).tx = {x \in M.tx : x.tx # e.tx} \cup {e}
    BY DEF AddTx
  <1> QED
    BY <1>1

LEMMA EntryFields ==
    ASSUME NEW tx, NEW type, NEW b, NEW n
    PROVE  /\ Entry(tx, type).tx = tx /\ Entry(tx, type).type = type
           /\ SettleEntry(tx, b).tx = tx /\ SettleEntry(tx, b).type = "SettleTx2"
           /\ RevokedEntry(tx, n, b).tx = tx /\ RevokedEntry(tx, n, b).idx = n
           /\ RevokedEntry(tx, n, b).type = "Revoked"
  BY DEF Entry, SettleEntry, RevokedEntry

(* N keeps what M has of past updates, and has no revocation besides but   *)
(* that of the transaction now superseded.                                 *)
Keeps(p, M, N) ==
    /\ \A x \in M.tx : x.type = "Revoked" /\ x.idx < updateIdx[p] => x \in N.tx
    /\ \A x \in N.tx : x.type = "Revoked" => x \in M.tx \/ IsSuperseded(p, x)

LEMMA MonitorEntries ==
    ASSUME TypeInv, NEW p \in Party, NEW M \in {monitor[p], stored[p]}, NEW e \in M.tx
    PROVE  e \in Watch /\ e.idx \in Nat
  <1>1. M \in Monitor
    BY DEF TypeInv, MonitorTyped, StoredTyped
  <1>2. e \in Watch
    BY <1>1 DEF Monitor
  <1> QED
    BY <1>2, UpdateType DEF Watch

LEMMA AddKeeps ==
    ASSUME AgreementInv, NEW p \in Party, Live(p),
           NEW M \in {monitor[p], stored[p]}, Watched(p, M),
           NEW N, Keeps(p, M, N),
           NEW e, NEW k \in Nat, k >= updateIdx[p], e.tx.point = Both(k),
           e.type = "Revoked" => IsSuperseded(p, e)
    PROVE  Keeps(p, M, AddTx(N, e))
  <1>1. ASSUME NEW x \in M.tx, x.type = "Revoked", x.idx < updateIdx[p]
        PROVE  x \in AddTx(N, e).tx
    <2>1. x \in N.tx
      BY <1>1 DEF Keeps
    <2>2. x.tx.point = Both(x.idx)
      BY <1>1 DEF Watched, Justified
    <2>3. x.idx \in Nat /\ updateIdx[p] \in Nat
      BY MonitorEntries, IdxType DEF AgreementInv, ExchangeInv, RevealInv
    <2>4. x.tx # e.tx
      BY <1>1, <2>2, <2>3, BothPoints
    <2> QED
      BY <2>1, <2>4, Added
  <1>2. ASSUME NEW x \in AddTx(N, e).tx, x.type = "Revoked"
        PROVE  x \in M.tx \/ IsSuperseded(p, x)
    BY <1>2, Added DEF Keeps
  <1> QED
    BY <1>1, <1>2 DEF Keeps

-----------------------------------------------------------------------------
(* What a step of p does to its own watch, and to that of the other party. *)

LEMMA StayWatched ==
    ASSUME AgreementInv, AgreementInv', NEW p \in Party, Untouched(p),
           updateIdx'[p] = updateIdx[p], Live(p)' => Live(p),
           NEW M \in {monitor[p], stored[p]}, Watched(p, M),
           NEW N, Keeps(p, M, N),
           Live(p)' => \/ state'[p].name \in Superseding /\ rollback'[p] = rollback[p]
                       \/ /\ state[p].name \notin Superseding
                          /\ \A x \in N.tx : x.type = "Revoked" => x \in M.tx,
           Live(p)' /\ state'[p].name = "RenewFinalized" =>
             rollback'[p] = rollback[p] /\ \E e \in N.tx : IsSuperseded(p, e)
    PROVE  Watched(p, N)'
  <1> DEFINE o == Other(p)
  <1>1. o \in Party /\ held'[o] = held[o]
    BY OtherType DEF Untouched
  <1>2. SUFFICES ASSUME Live(p)'
                 PROVE  /\ \A tx \in held[o] : tx.point[o] < updateIdx[p] =>
                             \E e \in N.tx : /\ e.tx = tx /\ e.type = "Revoked"
                                             /\ e.idx = tx.point[o]
                        /\ \A e \in N.tx : e.type = "Revoked" => Justified(p, e)'
                        /\ state'[p].name = "RenewFinalized" =>
                             \E e \in N.tx : IsSuperseded(p, e)'
    BY <1>1 DEF Watched
  <1>3. ASSUME NEW tx \in held[o], tx.point[o] < updateIdx[p]
        PROVE  \E e \in N.tx : e.tx = tx /\ e.type = "Revoked" /\ e.idx = tx.point[o]
    BY <1>2, <1>3 DEF Watched, Keeps
  <1>4. ASSUME NEW e \in N.tx, e.type = "Revoked" PROVE Justified(p, e)'
    <2>1. CASE e \in M.tx /\ e.idx < updateIdx[p]
      BY <1>2, <1>4, <2>1 DEF Watched, Justified, Both
    <2>2. CASE ~(e \in M.tx /\ e.idx < updateIdx[p])
      <3>1. IsSuperseded(p, e) /\ state'[p].name \in Superseding /\ rollback'[p] = rollback[p]
        BY <1>2, <1>4, <2>2 DEF Keeps, Watched, Justified
      <3>2. e.tx.point = [q \in Party |-> updateIdx'[p]]
        <4>1. Rests(p)'
          BY DEF AgreementInv
        <4>2. StableTx(p)' = rollback'[p].tx
          BY <3>1 DEF StableTx, Superseding, StableStates
        <4>3. StableTx(p)'.point = [q \in Party |-> updateIdx'[p]]
          BY <1>2, <4>1 DEF Rests, Both
        <4> QED
          BY <3>1, <4>2, <4>3 DEF IsSuperseded
      <3> QED
        BY <3>1, <3>2 DEF Justified, IsSuperseded, Both
    <2> QED
      BY <2>1, <2>2
  <1>5. state'[p].name = "RenewFinalized" => \E e \in N.tx : IsSuperseded(p, e)'
    BY <1>2 DEF IsSuperseded
  <1> QED
    BY <1>3, <1>4, <1>5

LEMMA AdoptWatched ==
    ASSUME AgreementInv, NEW p \in Party, Untouched(p), Live(p),
           state[p].name \notin StableStates, state'[p].name \in StableStates,
           updateIdx'[p] = updateIdx[p] + 1,
           NEW M \in {monitor[p], stored[p]}, Watched(p, M),
           NEW N, Keeps(p, M, N), \E e \in N.tx : IsSuperseded(p, e)
    PROVE  Watched(p, N)'
  <1> DEFINE o == Other(p)
             u == updateIdx[p]
  <1>1. o \in Party /\ held'[o] = held[o]
    BY OtherType DEF Untouched
  <1>2. u \in Nat /\ \A tx \in held[o] : tx.point[o] \in Nat
    <2>1. u \in Nat /\ held[o] \subseteq Tx
      BY <1>1, IdxType DEF AgreementInv, ExchangeInv, RevealInv, TypeInv, RestTyped
    <2> QED
      BY <1>1, <2>1, UpdateType DEF Tx
  <1>3. ASSUME NEW tx \in held[o], tx.point[o] < u + 1
        PROVE  \E e \in N.tx : e.tx = tx /\ e.type = "Revoked" /\ e.idx = tx.point[o]
    <2>1. CASE tx.point[o] < u
      BY <1>3, <2>1 DEF Watched, Keeps
    <2>2. CASE tx.point[o] = u
      <3>1. tx = rollback[p].tx
        BY <2>2 DEF AgreementInv, Shares, StableTx
      <3> QED
        BY <2>2, <3>1 DEF IsSuperseded
    <2> QED
      BY <1>2, <1>3, <2>1, <2>2
  <1>4. ASSUME NEW e \in N.tx, e.type = "Revoked" PROVE Justified(p, e)'
    <2>1. e.tx.point = Both(e.idx) /\ e.idx < u + 1
      <3>1. CASE e \in M.tx
        <4>1. e.idx \in Nat
          BY <3>1, MonitorEntries DEF AgreementInv, ExchangeInv, RevealInv
        <4> QED
          BY <1>2, <1>4, <3>1, <4>1 DEF Watched, Justified, IsSuperseded
      <3>2. CASE e \notin M.tx
        <4>1. IsSuperseded(p, e)
          BY <1>4, <3>2 DEF Keeps
        <4>2. rollback[p].tx.point = Both(u)
          BY DEF AgreementInv, Rests, StableTx
        <4> QED
          BY <1>2, <4>1, <4>2 DEF IsSuperseded
      <3> QED
        BY <3>1, <3>2
    <2>2. e.tx.point = [q \in Party |-> e.idx] /\ e.idx < updateIdx'[p]
      BY <2>1 DEF Both
    <2> QED
      BY <2>2 DEF Justified, Both
  <1>5. state'[p].name # "RenewFinalized"
    BY DEF StableStates
  <1> QED
    BY <1>1, <1>3, <1>4, <1>5 DEF Watched

(* What p newly holds is of no update that its counter party has left.     *)
LEMMA PeerGuarded ==
    ASSUME WatchInv, NEW p \in Party, Untouched(p),
           \A tx \in held'[p] : tx \in held[p] \/ tx.point[p] = updateIdx[p] + 1
    PROVE  Guarded(Other(p))'
  <1> DEFINE o == Other(p)
  <1>1. /\ o \in Party /\ o # p /\ Other(o) = p
        /\ state'[o] = state[o] /\ updateIdx'[o] = updateIdx[o]
        /\ rollback'[o] = rollback[o] /\ ctype'[o] = ctype[o]
        /\ monitor'[o] = monitor[o] /\ stored'[o] = stored[o]
    BY OtherType DEF Untouched
  <1>2. /\ updateIdx[o] <= updateIdx[p] + 1
        /\ updateIdx[o] \in Nat /\ updateIdx[p] \in Nat
    BY <1>1, AtMostOneApart, IdxType DEF WatchInv, AgreementInv, ExchangeInv, RevealInv
  <1>3. \A tx \in held'[p] : tx.point[p] < updateIdx[o] => tx \in held[p]
    BY <1>2
  <1>4. ASSUME NEW M \in {monitor[o], stored[o]} PROVE Watched(o, M)'
    <2>1. Watched(o, M)
      BY <1>1 DEF WatchInv, Guarded
    <2>2. Live(o)' => Live(o)
      BY <1>1 DEF Live
    <2>3. \A e \in M.tx : Justified(o, e) => Justified(o, e)'
      BY <1>1 DEF Justified, IsSuperseded, Both
    <2>4. \A e \in M.tx : IsSuperseded(o, e) => IsSuperseded(o, e)'
      BY <1>1 DEF IsSuperseded
    <2> QED
      BY <1>1, <1>3, <2>1, <2>2, <2>3, <2>4 DEF Watched
  <1> QED
    BY <1>1, <1>4 DEF Guarded

LEMMA PartyWatch ==
    ASSUME WatchInv, AgreementInv', NEW p \in Party, Untouched(p),
           \A tx \in held'[p] : tx \in held[p] \/ tx.point[p] = updateIdx[p] + 1,
           \A N \in {monitor'[p], stored'[p]} : Watched(p, N)'
    PROVE  WatchInv'
  <1>1. \A q \in Party : q = p \/ q = Other(p)
    BY DEF Party, Other
  <1>2. Guarded(p)'
    BY DEF Guarded
  <1> QED
    BY <1>1, <1>2, PeerGuarded DEF WatchInv
-----------------------------------------------------------------------------
(* The kinds of step.                                                      *)

LEMMA KeepsSelf == ASSUME NEW p, NEW M PROVE Keeps(p, M, M)
  BY DEF Keeps

(* p's monitor is one of the two it already was.                           *)
LEMMA KeptWatch ==
    ASSUME WatchInv, AgreementInv', NEW p \in Party, Untouched(p),
           updateIdx'[p] = updateIdx[p], held'[p] = held[p], Live(p)' => Live(p),
           monitor'[p] \in {monitor[p], stored[p]},
           stored'[p] \in {monitor[p], stored[p]},
           Live(p)' =>
             \/ state'[p] = state[p] /\ rollback'[p] = rollback[p]
             \/ /\ state[p].name \notin Superseding
                /\ state'[p].name # "RenewFinalized"
    PROVE  WatchInv'
  <1>1. ASSUME NEW M \in {monitor[p], stored[p]} PROVE Watched(p, M)'
    <2>1. Watched(p, M) /\ AgreementInv /\ Keeps(p, M, M)
      BY KeepsSelf DEF WatchInv, Guarded
    <2>2. Live(p)' => \/ state'[p].name \in Superseding /\ rollback'[p] = rollback[p]
                      \/ /\ state[p].name \notin Superseding
                         /\ \A x \in M.tx : x.type = "Revoked" => x \in M.tx
      OBVIOUS
    <2>3. Live(p)' /\ state'[p].name = "RenewFinalized" =>
             rollback'[p] = rollback[p] /\ \E e \in M.tx : IsSuperseded(p, e)
      BY <2>1 DEF Watched
    <2> QED
      BY <2>1, <2>2, <2>3, StayWatched
  <1> QED
    BY <1>1, PartyWatch

LEMMA QuietWatch ==
    ASSUME WatchInv, AgreementInv', NEW p \in Party, ctype[p] = "Signed",
           Offers(p) \/ IsOffered(p) \/ Reverts(p) \/ ConfirmsRenew(p)
    PROVE  WatchInv'
  <1>1. /\ Untouched(p) /\ KeepsPlace(p) /\ KeepsHistory(p) /\ KeepsWatch(p)
        /\ state[p].name \in StableStates \cup Revertible
    BY DEF Offers, IsOffered, Reverts, ConfirmsRenew, Revertible
  <1>2. Live(p) /\ state[p].name \notin Superseding
    BY <1>1 DEF Live, Updating, StableStates, Revertible, Superseding
  <1>3. state'[p].name # "RenewFinalized"
    <2>1. CASE Reverts(p)
      <3>1. state'[p] = rollback[p] /\ state[p].name \notin StableStates
        BY <2>1 DEF Reverts, Revertible, StableStates
      <3>2. rollback[p].name \in StableStates
        BY <1>2, <3>1 DEF WatchInv, AgreementInv, Rests
      <3> QED
        BY <3>1, <3>2 DEF StableStates
    <2> QED
      BY <2>1 DEF Offers, IsOffered, ConfirmsRenew
  <1> QED
    BY <1>1, <1>2, <1>3, KeptWatch DEF KeepsPlace, KeepsHistory, KeepsWatch

(* A settle transaction is watched, in memory only.                        *)
LEMMA SettleWatch ==
    ASSUME WatchInv, AgreementInv', NEW p \in Party, ctype[p] = "Signed",
           AcceptsUpdate(p) \/ ConfirmsSettle(p)
    PROVE  WatchInv'
  <1> DEFINE T == state'[p].tx
             u == updateIdx[p]
  <1>1. /\ Untouched(p) /\ KeepsPlace(p) /\ stored'[p] = stored[p]
        /\ rollback'[p] = rollback[p]
        /\ state[p].name \in {"SettledReceived", "RenewOffered", "SettledOffered"}
        /\ held'[p] = held[p] \/ held'[p] = held[p] \cup {T}
    BY DEF AcceptsUpdate, ConfirmsSettle, KeepsHistory
  <1>2. /\ Live(p) /\ state[p].name \notin Superseding /\ u \in Nat
        /\ AgreementInv
    BY <1>1, IdxType
       DEF Live, Updating, Superseding, WatchInv, AgreementInv, ExchangeInv, RevealInv
  <1>3. CASE monitor'[p] = monitor[p] /\ held'[p] = held[p]
             /\ state'[p].name = "RenewAccepted"
    BY <1>1, <1>2, <1>3, KeptWatch DEF KeepsPlace
  <1>4. CASE /\ state'[p].name \in {"SettledAccepted", "SettledConfirmed"}
             /\ \E b : monitor'[p] = AddTx(monitor[p], SettleEntry(T, b))
    <2>1. T.point = Both(u + 1)
      <3>1. Pointed(p)'
        BY DEF AgreementInv, ExchangeInv, Place
      <3>2. T.point = [q \in Party |-> updateIdx'[p] + 1]
        BY <1>4, <3>1 DEF Pointed, Both
      <3> QED
        BY <1>1, <3>2 DEF KeepsPlace, Both
    <2>2. PICK b : monitor'[p] = AddTx(monitor[p], SettleEntry(T, b))
      BY <1>4
    <2>3. Keeps(p, monitor[p], monitor'[p])
      <3> DEFINE e == SettleEntry(T, b)
      <3>1. e.tx = T /\ e.type # "Revoked"
        BY EntryFields
      <3>2. u + 1 \in Nat /\ u + 1 >= u
        BY <1>2
      <3>3. Watched(p, monitor[p])
        BY DEF WatchInv, Guarded
      <3> HIDE DEF e
      <3>4. Keeps(p, monitor[p], AddTx(monitor[p], e))
        BY <1>2, <2>1, <3>1, <3>2, <3>3, KeepsSelf, AddKeeps
      <3> QED
        BY <2>2, <3>4 DEF e
    <2>4. ASSUME NEW M \in {monitor[p], stored[p]}, NEW N, Keeps(p, M, N)
          PROVE  Watched(p, N)'
      <3>1. Watched(p, M)
        BY DEF WatchInv, Guarded
      <3>2. state'[p].name \in Superseding /\ state'[p].name # "RenewFinalized"
        BY <1>4 DEF Superseding
      <3> QED
        BY <1>1, <1>2, <2>4, <3>1, <3>2, StayWatched DEF KeepsPlace
    <2>5. \A N \in {monitor'[p], stored'[p]} : Watched(p, N)'
      BY <1>1, <2>3, <2>4, KeepsSelf
    <2>6. \A tx \in held'[p] : tx \in held[p] \/ tx.point[p] = u + 1
      BY <1>1, <2>1, BothPoints
    <2> QED
      BY <1>1, <2>5, <2>6, PartyWatch
  <1> QED
    BY <1>3, <1>4 DEF AcceptsUpdate, ConfirmsSettle, KeepsHistory

(* The entry for the transaction that an update supersedes.                *)
LEMMA SupersededKept ==
    ASSUME WatchInv, NEW p \in Party, Live(p), state[p].name \notin StableStates,
           NEW N, Keeps(p, monitor[p], N), NEW e, IsSuperseded(p, e)
    PROVE  /\ Keeps(p, monitor[p], AddTx(N, e))
           /\ e.tx.point = Both(updateIdx[p])
  <1>1. AgreementInv /\ Watched(p, monitor[p])
    BY DEF WatchInv, Guarded
  <1>2. updateIdx[p] \in Nat /\ updateIdx[p] >= updateIdx[p]
    BY <1>1, IdxType DEF AgreementInv, ExchangeInv, RevealInv
  <1>3. e.tx.point = Both(updateIdx[p])
    BY <1>1 DEF AgreementInv, Rests, StableTx, IsSuperseded
  <1> QED
    BY <1>1, <1>2, <1>3, AddKeeps

LEMMA BufferKept ==
    ASSUME WatchInv, NEW p \in Party, Live(p),
           NEW N, Keeps(p, monitor[p], N),
           NEW T, T.point = Both(updateIdx[p] + 1)
    PROVE  Keeps(p, monitor[p], AddTx(N, Entry(T, "BufferTx")))
  <1> DEFINE e == Entry(T, "BufferTx")
  <1>1. AgreementInv /\ Watched(p, monitor[p])
    BY DEF WatchInv, Guarded
  <1>2. updateIdx[p] + 1 \in Nat /\ updateIdx[p] + 1 >= updateIdx[p]
    BY <1>1, IdxType DEF AgreementInv, ExchangeInv, RevealInv
  <1>3. e.tx = T /\ e.type # "Revoked"
    BY EntryFields
  <1> HIDE DEF e
  <1>4. Keeps(p, monitor[p], AddTx(N, e))
    BY <1>1, <1>2, <1>3, AddKeeps
  <1> QED
    BY <1>4 DEF e

LEMMA EntriesSupersede ==
    ASSUME NEW p
    PROVE  IsSuperseded(p, SupersededEntry(p)) /\ IsSuperseded(p, SettledEntry(p))
  BY DEF IsSuperseded, SupersededEntry, SettledEntry, RevokedEntry

LEMMA FinalizesRenewWatch ==
    ASSUME WatchInv, AgreementInv', NEW p \in Party, ctype[p] = "Signed",
           FinalizesRenew(p)
    PROVE  WatchInv'
  <1> DEFINE T == state[p].tx
             u == updateIdx[p]
  <1>1. /\ Untouched(p) /\ rollback'[p] = rollback[p] /\ updateIdx'[p] = u
        /\ state[p].name = "RenewAccepted" /\ state'[p].name = "RenewFinalized"
        /\ monitor'[p] = AddTx(AddTx(monitor[p], Entry(T, "BufferTx")),
                               SupersededEntry(p))
        /\ stored'[p] = monitor'[p] /\ held'[p] = held[p] \cup {T}
    BY DEF FinalizesRenew
  <1>2. Live(p) /\ state[p].name \notin StableStates /\ AgreementInv
        /\ Watched(p, monitor[p])
    BY <1>1 DEF Live, Updating, StableStates, WatchInv, Guarded
  <1>3. T.point = Both(u + 1) /\ T.point[p] = u + 1
    BY <1>1, <1>2, BothPoints DEF AgreementInv, ExchangeInv, Place, Pointed
  <1>4. PICK N : N = monitor'[p]
    OBVIOUS
  <1>5. Keeps(p, monitor[p], N) /\ \E e \in N.tx : IsSuperseded(p, e)
    <2>1. Keeps(p, monitor[p], AddTx(monitor[p], Entry(T, "BufferTx")))
      BY <1>2, <1>3, KeepsSelf, BufferKept
    <2>2. Keeps(p, monitor[p], N)
      BY <1>1, <1>2, <1>4, <2>1, EntriesSupersede, SupersededKept
    <2>3. SupersededEntry(p) \in N.tx
      BY <1>1, <1>4, Added
    <2> QED
      BY <2>2, <2>3, EntriesSupersede
  <1>6. Watched(p, N)'
    <2>1. state'[p].name \in Superseding
      BY <1>1 DEF Superseding
    <2> QED
      BY <1>1, <1>2, <1>5, <2>1, StayWatched
  <1>7. \A M \in {monitor'[p], stored'[p]} : Watched(p, M)'
    BY <1>1, <1>4, <1>6
  <1> QED
    BY <1>1, <1>3, <1>7, PartyWatch

LEMMA AdoptsWatch ==
    ASSUME WatchInv, AgreementInv', NEW p \in Party, ctype[p] = "Signed",
           FinalizesSettle(p) \/ EndsSettle(p) \/ RevokesRenew(p) \/ EndsRenew(p)
    PROVE  WatchInv'
  <1> DEFINE T == state[p].tx
             u == updateIdx[p]
  <1>1. /\ Untouched(p) /\ updateIdx'[p] = u + 1
        /\ state[p].name \in {"SettledAccepted", "SettledConfirmed",
                              "RenewConfirmed", "RenewFinalized"}
        /\ state'[p].name \in StableStates
        /\ held'[p] = held[p] \/ held'[p] = held[p] \cup {T}
    BY DEF FinalizesSettle, EndsSettle, AdoptsSettle, RevokesRenew, EndsRenew,
           KeepsHistory, StableStates
  <1>2. /\ Live(p) /\ state[p].name \notin StableStates /\ AgreementInv
        /\ Watched(p, monitor[p]) /\ Watched(p, stored[p])
    BY <1>1 DEF Live, Updating, StableStates, WatchInv, Guarded
  <1>3. T.point = Both(u + 1) /\ T.point[p] = u + 1
    BY <1>1, <1>2, BothPoints DEF AgreementInv, ExchangeInv, Place, Pointed
  <1>4. ASSUME NEW M \in {monitor[p], stored[p]}, NEW N, Keeps(p, M, N),
               \E e \in N.tx : IsSuperseded(p, e)
        PROVE  Watched(p, N)'
    BY <1>1, <1>2, <1>4, AdoptWatched
  <1>5. CASE EndsRenew(p)
    <2>1. monitor'[p] = monitor[p] /\ stored'[p] = stored[p]
          /\ state[p].name = "RenewFinalized"
      BY <1>5 DEF EndsRenew, KeepsWatch
    <2>2. \A M \in {monitor[p], stored[p]} : \E e \in M.tx : IsSuperseded(p, e)
      BY <1>2, <2>1 DEF Watched
    <2>3. \A N \in {monitor'[p], stored'[p]} : Watched(p, N)'
      BY <1>4, <2>1, <2>2, KeepsSelf
    <2> QED
      BY <1>1, <1>3, <2>3, PartyWatch
  <1>6. CASE FinalizesSettle(p) \/ EndsSettle(p) \/ RevokesRenew(p)
    <2>1. PICK N : N = monitor'[p] /\ stored'[p] = N
      BY <1>6 DEF FinalizesSettle, EndsSettle, AdoptsSettle, RevokesRenew
    <2>2. Keeps(p, monitor[p], N) /\ \E e \in N.tx : IsSuperseded(p, e)
      <3>1. CASE FinalizesSettle(p) \/ EndsSettle(p)
        <4>1. N = AddTx(monitor[p], SettledEntry(p))
          BY <2>1, <3>1 DEF FinalizesSettle, EndsSettle, AdoptsSettle
        <4> QED
          BY <1>2, <4>1, KeepsSelf, EntriesSupersede, SupersededKept, Added
      <3>2. CASE RevokesRenew(p)
        <4> DEFINE e == SupersededEntry(p)
                   A == AddTx(monitor[p], e)
                   b == Entry(T, "BufferTx")
        <4>1. N = AddTx(A, b)
          BY <2>1, <3>2 DEF RevokesRenew
        <4>2. Keeps(p, monitor[p], A) /\ e.tx.point = Both(u)
          BY <1>2, KeepsSelf, EntriesSupersede, SupersededKept
        <4>3. e \in A.tx /\ IsSuperseded(p, e) /\ b.tx = T
          BY Added, EntriesSupersede, EntryFields
        <4>4. e.tx # T
          <5>1. u \in Nat
            BY <1>2, IdxType DEF AgreementInv, ExchangeInv, RevealInv
          <5> QED
            BY <1>3, <4>2, <5>1, BothPoints
        <4> HIDE DEF e, A
        <4>5. Keeps(p, monitor[p], N)
          BY <1>2, <1>3, <4>1, <4>2, BufferKept
        <4>6. e \in N.tx
          BY <4>1, <4>3, <4>4, Added
        <4> QED
          BY <4>3, <4>5, <4>6
      <3> QED
        BY <1>6, <3>1, <3>2
    <2>3. \A M \in {monitor'[p], stored'[p]} : Watched(p, M)'
      BY <1>4, <2>1, <2>2
    <2> QED
      BY <1>1, <1>3, <2>3, PartyWatch
  <1> QED
    BY <1>5, <1>6

LEMMA OtherWatch ==
    ASSUME WatchInv, AgreementInv', NEW p \in Party, Freezes(p) \/ Idles(p)
    PROVE  WatchInv'
  <1>1. Untouched(p) /\ KeepsPlace(p) /\ KeepsHistory(p)
    BY DEF Freezes, Idles
  <1>2. CASE ~ Live(p)'
    <2>1. \A N \in {monitor'[p], stored'[p]} : Watched(p, N)'
      BY <1>2 DEF Watched
    <2> QED
      BY <1>1, <2>1, PartyWatch DEF KeepsHistory
  <1>3. CASE Live(p)'
    <2>1. Idles(p) /\ KeepsType(p)
      BY <1>3 DEF Freezes, Idles, Live, Frozen, Updating
    <2>2. Live(p) /\ state'[p] = state[p] /\ rollback'[p] = rollback[p]
      BY <1>3, <2>1 DEF Idles, KeepsType, Live
    <2>3. CASE /\ monitor'[p] \in {monitor[p], stored[p]}
               /\ stored'[p] \in {monitor[p], stored[p]}
      BY <1>1, <2>2, <2>3, KeptWatch DEF KeepsPlace, KeepsHistory
    <2>4. CASE /\ state[p].name \in {"SettledAccepted", "SettledConfirmed"}
               /\ monitor'[p] = AddTx(monitor[p], SettledEntry(p))
               /\ stored'[p] = stored[p]
      <3>1. /\ state[p].name \notin StableStates /\ state[p].name \in Superseding
            /\ state[p].name # "RenewFinalized"
        BY <2>4 DEF StableStates, Superseding
      <3>2. Keeps(p, monitor[p], monitor'[p])
        BY <2>2, <2>4, <3>1, KeepsSelf, EntriesSupersede, SupersededKept
      <3>3. ASSUME NEW M \in {monitor[p], stored[p]}, NEW N, Keeps(p, M, N)
            PROVE  Watched(p, N)'
        <4>1. Watched(p, M) /\ AgreementInv
          BY DEF WatchInv, Guarded
        <4> QED
          BY <1>1, <2>2, <3>1, <3>3, <4>1, StayWatched DEF KeepsPlace
      <3>4. \A N \in {monitor'[p], stored'[p]} : Watched(p, N)'
        BY <2>4, <3>2, <3>3, KeepsSelf
      <3> QED
        BY <1>1, <3>4, PartyWatch DEF KeepsHistory
    <2> QED
      BY <1>3, <2>1, <2>3, <2>4 DEF Idles, Live
  <1> QED
    BY <1>2, <1>3

-----------------------------------------------------------------------------
(* The invariant.                                                          *)

LEMMA InitWatch == Init => WatchInv
  <1> SUFFICES ASSUME Init PROVE WatchInv
    OBVIOUS
  <1>1. ASSUME NEW p \in Party PROVE Guarded(p)
    <2>1. /\ state[p].name = "Established" /\ updateIdx[p] = 0
          /\ held[Other(p)] = {FirstTx}
          /\ monitor[p] = FirstMonitor /\ stored[p] = FirstMonitor
      BY OtherType DEF Init, Variant, WithOffer
    <2>2. FirstTx.point[Other(p)] = 0
      BY OtherType DEF FirstTx, BufferTx, NoPoints
    <2>3. \A e \in FirstMonitor.tx : e.type # "Revoked"
      <3>1. EmptyMonitor.tx = {}
        BY DEF EmptyMonitor
      <3> QED
        BY <3>1, Added, EntryFields DEF FirstMonitor
    <2> QED
      BY <2>1, <2>2, <2>3 DEF Guarded, Watched
  <1> QED
    BY <1>1, InitAgreement DEF WatchInv

LEMMA NextWatch == WatchInv /\ [Next]_vars => WatchInv'
  <1> SUFFICES ASSUME WatchInv, [Next]_vars PROVE WatchInv'
    OBVIOUS
  <1>1. AgreementInv' /\ TypeInv
    BY NextAgreement DEF WatchInv, AgreementInv, ExchangeInv, RevealInv
  <1>2. PICK p \in Party : StepOf(p)
    BY <1>1, NextStep
  <1> QED
    BY <1>1, <1>2, QuietWatch, SettleWatch, FinalizesRenewWatch, AdoptsWatch,
       OtherWatch DEF StepOf, UpdateStep

LEMMA ReadyToPunish ==
    ASSUME WatchInv, NEW p \in Party, Live(p)
    PROVE  /\ \A tx \in held[Other(p)] : tx.point[Other(p)] \in secrets[p] =>
                 \E e \in monitor[p].tx :
                    /\ e.tx = tx /\ e.type = "Revoked"
                    /\ e.idx = tx.point[Other(p)]
           /\ \A e \in monitor[p].tx : e.type = "Revoked" =>
                 \/ e.idx \in secrets[p]
                 \/ /\ e.idx = updateIdx[p] /\ e.tx = rollback[p].tx
                    /\ state[p].name \in {"RenewFinalized", "SettledAccepted",
                                          "SettledConfirmed"}
  <1>1. Watched(p, monitor[p]) /\ secrets[p] = {n \in Update : n < updateIdx[p]}
    BY DEF WatchInv, Guarded, AgreementInv, ExchangeInv, Place
  <1>2. ASSUME NEW e \in monitor[p].tx, e.type = "Revoked"
        PROVE  \/ e.idx \in secrets[p]
               \/ /\ e.idx = updateIdx[p] /\ e.tx = rollback[p].tx
                  /\ state[p].name \in {"RenewFinalized", "SettledAccepted",
                                        "SettledConfirmed"}
    <2>1. e.idx \in Update
      <3>1. e \in Watch
        BY MonitorEntries DEF WatchInv, AgreementInv, ExchangeInv, RevealInv
      <3> QED
        BY <3>1 DEF Watch
    <2> QED
      BY <1>1, <1>2, <2>1 DEF Watched, Justified, IsSuperseded, Superseding
  <1> QED
    BY <1>1, <1>2 DEF Watched

(* While a party updates the channel, every transaction its counter party  *)
(* could publish after giving up its secret is watched as revoked under    *)
(* the update whose secret is stored, and no entry is ahead of the secrets *)
(* except that of the update just being superseded: for any number of      *)
(* updates, with messages lost, settlements that fail on an unconfirmed    *)
(* contract, and restarts that take the monitor back to what is stored.    *)
THEOREM PunishSafe == Spec => []PunishReady
  <1>1. WatchInv => PunishReady
    BY ReadyToPunish DEF PunishReady
  <1> QED
    BY <1>1, InitWatch, NextWatch, PTL DEF Spec

-----------------------------------------------------------------------------
(* Coverage.  What the counter party holds, or is about to hold because of *)
(* a signature on its way, has been added to the monitor.                  *)

Signing == {"SettleAccept", "SettleConfirm", "RenewConfirm", "RenewFinalize"}
Lists(M, tx) == \E e \in M.tx : e.tx = tx
Seen(p, tx) ==
    \/ Lists(monitor[p], tx)
    \/ state[p].name = "RenewConfirmed" /\ tx = state[p].tx
Covers(p) ==
    Live(p) =>
      /\ \A tx \in held[Other(p)] : Seen(p, tx)
      /\ \A m \in InTransit(Other(p)) : m.type \in Signing => Seen(p, m.sig)

CoverageInv ==
    ExchangeInv /\ (used.restarts = 0 => \A p \in Party : Covers(p))

LEMMA AddLists ==
    ASSUME NEW M, NEW e, NEW tx
    PROVE  Lists(AddTx(M, e), tx) <=> Lists(M, tx) \/ tx = e.tx
  BY Added DEF Lists

(* A step of p keeps what p has seen, it says nothing it has not seen, and *)
(* it comes to hold what it was sent.                                      *)
LEMMA StepCovers ==
    ASSUME ExchangeInv, \A q \in Party : Covers(q), NEW p \in Party, Untouched(p),
           Leaves(p) \/ Takes(p),
           Live(p)' => Live(p),
           Live(p)' => \A tx : Seen(p, tx) => Seen(p, tx)',
           \/ Silent(p)
           \/ \E m : Says(p, m) /\ (m.type \in Signing /\ Live(p)' => Seen(p, m.sig)'),
           \/ held'[p] = held[p]
           \/ /\ Takes(p) /\ Head(net[p]).type \in Signing
              /\ held'[p] = held[p] \cup {Head(net[p]).sig}
    PROVE  \A q \in Party : Covers(q)'
  <1> DEFINE o == Other(p)
  <1>1. /\ o \in Party /\ o # p /\ Other(o) = p /\ \A q \in Party : q = p \/ q = o
    BY OtherType DEF Party, Other
  <1>2. /\ state'[o] = state[o] /\ monitor'[o] = monitor[o]
        /\ held'[o] = held[o] /\ ctype'[o] = ctype[o]
    BY <1>1 DEF Untouched
  <1>3. Covers(p)'
    <2>1. SUFFICES ASSUME Live(p)'
                   PROVE  /\ \A tx \in held'[o] : Seen(p, tx)'
                          /\ \A m \in InTransit(o)' : m.type \in Signing => Seen(p, m.sig)'
      BY DEF Covers
    <2>2. \A tx \in held'[o] : Seen(p, tx)'
      BY <1>2, <2>1 DEF Covers
    <2>3. \A m \in InTransit(o) : m.type \in Signing => Seen(p, m.sig)'
      BY <2>1 DEF Covers
    <2>4. \A m \in InTransit(o)' : m.type \in Signing => Seen(p, m.sig)'
      BY <2>1, <2>3, PeerTransit
    <2> QED
      BY <2>2, <2>4
  <1>4. Covers(o)'
    <2>1. SUFFICES ASSUME Live(o)'
                   PROVE  /\ \A tx \in held'[p] : Seen(o, tx)'
                          /\ \A m \in InTransit(p)' : m.type \in Signing => Seen(o, m.sig)'
      BY <1>1 DEF Covers
    <2>2. Live(o) /\ \A tx : Seen(o, tx) => Seen(o, tx)'
      BY <1>2, <2>1 DEF Live, Seen
    <2>3. /\ \A tx \in held[p] : Seen(o, tx)
          /\ \A m \in InTransit(p) : m.type \in Signing => Seen(o, m.sig)
      BY <1>1, <2>2 DEF Covers
    <2>4. \A tx \in held'[p] : Seen(o, tx)
      BY <2>3, HeadTransit
    <2> QED
      BY <2>2, <2>3, <2>4, OwnTransit
  <1> QED
    BY <1>1, <1>3, <1>4

(* A step that keeps the entries, possibly replacing some of them, and     *)
(* stays or does not come from RenewConfirmed.                             *)
LEMMA EntriesSeen ==
    ASSUME NEW p \in Party,
           \A tx : Lists(monitor[p], tx) => Lists(monitor'[p], tx),
           state[p].name # "RenewConfirmed" \/ state'[p] = state[p]
    PROVE  \A tx : Seen(p, tx) => Seen(p, tx)'
  BY DEF Seen

LEMMA UpdateCovers ==
    ASSUME ExchangeInv, \A q \in Party : Covers(q), NEW p \in Party,
           ctype[p] = "Signed", UpdateStep(p)
    PROVE  \A q \in Party : Covers(q)'
  <1> DEFINE T == state'[p].tx
  <1>1. CASE Offers(p) \/ IsOffered(p) \/ Reverts(p) \/ ConfirmsRenew(p) \/ EndsRenew(p)
    <2>1. /\ Untouched(p) /\ KeepsHistory(p) /\ KeepsWatch(p) /\ KeepsType(p)
          /\ Leaves(p) \/ Takes(p)
          /\ state[p].name \in Updating /\ state[p].name # "RenewConfirmed"
      BY <1>1 DEF Offers, IsOffered, Reverts, ConfirmsRenew, EndsRenew, Updating,
                  StableStates, Revertible
    <2>2. Live(p) /\ \A tx : Seen(p, tx) => Seen(p, tx)'
      BY <2>1, EntriesSeen DEF Live, KeepsWatch
    <2>3. \/ Silent(p)
          \/ \E m : Says(p, m) /\ (m.type \in Signing /\ Live(p)' => Seen(p, m.sig)')
      <3>1. CASE ConfirmsRenew(p)
        <4>1. PICK r : Says(p, r) /\ r.sig = T /\ state'[p].name = "RenewConfirmed"
          BY <3>1 DEF ConfirmsRenew
        <4>2. Seen(p, r.sig)'
          BY <4>1 DEF Seen
        <4> QED
          BY <4>1, <4>2
      <3>2. CASE ~ ConfirmsRenew(p)
        BY <1>1, <3>2 DEF Offers, IsOffered, Reverts, EndsRenew, SaysPlain, Signing
      <3> QED
        BY <3>1, <3>2
    <2> QED
      BY <2>1, <2>2, <2>3, StepCovers DEF KeepsHistory
  <1>2. CASE AcceptsUpdate(p)
    <2>1. /\ Untouched(p) /\ KeepsHistory(p) /\ Leaves(p)
          /\ state[p].name \in Updating /\ state[p].name # "RenewConfirmed"
      BY <1>2 DEF AcceptsUpdate, Updating
    <2>2. PICK m : /\ Says(p, m) /\ m.sig = T
                   /\ \/ \E e : monitor'[p] = AddTx(monitor[p], e) /\ e.tx = T
                      \/ monitor'[p] = monitor[p] /\ m.type \notin Signing
      <3>1. SettleEntry(T, FALSE).tx = T
        BY DEF SettleEntry, Entry
      <3> QED
        BY <1>2, <3>1 DEF AcceptsUpdate, Signing
    <2>3. Live(p) /\ \A tx : Seen(p, tx) => Seen(p, tx)'
      BY <2>1, <2>2, AddLists, EntriesSeen DEF Live
    <2>4. m.type \in Signing => Seen(p, m.sig)'
      <3>1. m.type \in Signing => Lists(monitor'[p], T)
        BY <2>2, AddLists, EntryFields
      <3> QED
        BY <2>2, <3>1 DEF Seen
    <2> QED
      BY <2>1, <2>2, <2>3, <2>4, StepCovers DEF KeepsHistory
  <1>3. CASE ConfirmsSettle(p)
    <2>1. /\ Untouched(p) /\ Takes(p)
          /\ state[p].name \in Updating /\ state[p].name # "RenewConfirmed"
          /\ Head(net[p]).type \in Signing /\ Head(net[p]).sig = T
          /\ held'[p] = held[p] \cup {T}
          /\ \E e : monitor'[p] = AddTx(monitor[p], e) /\ e.tx = T
          /\ \E r : Says(p, r) /\ r.sig = T
      <3>1. SettleEntry(T, TRUE).tx = T
        BY DEF SettleEntry, Entry
      <3> QED
        BY <1>3, <3>1 DEF ConfirmsSettle, Updating, Signing
    <2>2. Live(p) /\ \A tx : Seen(p, tx) => Seen(p, tx)'
      BY <2>1, AddLists, EntriesSeen DEF Live
    <2>3. Lists(monitor'[p], T)
      BY <2>1, AddLists, EntryFields
    <2>4. PICK r : Says(p, r) /\ r.sig = T
      BY <2>1
    <2>5. Seen(p, r.sig)'
      BY <2>3, <2>4 DEF Seen
    <2> QED
      BY <2>1, <2>2, <2>4, <2>5, StepCovers
  <1>4. CASE FinalizesSettle(p) \/ EndsSettle(p)
    <2>1. /\ Untouched(p) /\ Takes(p)
          /\ state[p].name \in Updating /\ state[p].name # "RenewConfirmed"
          /\ monitor'[p] = AddTx(monitor[p], SettledEntry(p))
          /\ \/ held'[p] = held[p]
             \/ /\ Head(net[p]).type \in Signing
                /\ held'[p] = held[p] \cup {Head(net[p]).sig}
          /\ Silent(p) \/ \E r : Says(p, r) /\ r.type \notin Signing
      BY <1>4 DEF FinalizesSettle, EndsSettle, AdoptsSettle, Updating, Signing,
                  KeepsHistory
    <2>2. Live(p) /\ \A tx : Seen(p, tx) => Seen(p, tx)'
      BY <2>1, AddLists, EntriesSeen DEF Live
    <2> QED
      BY <2>1, <2>2, StepCovers
  <1>5. CASE FinalizesRenew(p)
    <2> DEFINE A == AddTx(monitor[p], Entry(T, "BufferTx"))
    <2>1. /\ Untouched(p) /\ Takes(p)
          /\ state[p].name \in Updating /\ state[p].name # "RenewConfirmed"
          /\ Head(net[p]).type \in Signing /\ Head(net[p]).sig = T
          /\ held'[p] = held[p] \cup {T}
          /\ monitor'[p] = AddTx(A, SupersededEntry(p))
          /\ \E r : Says(p, r) /\ r.sig = T
      BY <1>5 DEF FinalizesRenew, Updating, Signing
    <2>2. Lists(A, T)
      BY AddLists, EntryFields
    <2>3. \A tx : Lists(monitor[p], tx) => Lists(A, tx)
      BY AddLists
    <2> HIDE DEF A
    <2>4. /\ \A tx : Lists(A, tx) => Lists(monitor'[p], tx)
          /\ Lists(monitor'[p], T)
      BY <2>1, <2>2, AddLists
    <2>5. Live(p) /\ \A tx : Seen(p, tx) => Seen(p, tx)'
      BY <2>1, <2>3, <2>4, EntriesSeen DEF Live
    <2>6. PICK r : Says(p, r) /\ r.sig = T
      BY <2>1
    <2>7. Seen(p, r.sig)'
      BY <2>4, <2>6 DEF Seen
    <2> QED
      BY <2>1, <2>5, <2>6, <2>7, StepCovers
  <1>6. CASE RevokesRenew(p)
    <2> DEFINE A == AddTx(monitor[p], SupersededEntry(p))
               S == state[p].tx
    <2>1. /\ Untouched(p) /\ Takes(p)
          /\ state[p].name \in Updating
          /\ Head(net[p]).type \in Signing /\ Head(net[p]).sig = S
          /\ held'[p] = held[p] \cup {S}
          /\ monitor'[p] = AddTx(A, Entry(S, "BufferTx"))
          /\ \E r : Says(p, r) /\ r.type \notin Signing
      BY <1>6 DEF RevokesRenew, Updating, Signing
    <2>2. \A tx : Lists(monitor[p], tx) => Lists(A, tx)
      BY AddLists
    <2> HIDE DEF A
    <2>3. \A tx : Lists(A, tx) => Lists(monitor'[p], tx)
      BY <2>1, AddLists
    <2>4. Lists(monitor'[p], S)
      BY <2>1, AddLists, EntryFields
    <2>5. Live(p) /\ \A tx : Seen(p, tx) => Seen(p, tx)'
      BY <2>1, <2>2, <2>3, <2>4 DEF Live, Seen
    <2> QED
      BY <2>1, <2>5, StepCovers
  <1> QED
    BY <1>1, <1>2, <1>3, <1>4, <1>5, <1>6 DEF UpdateStep

LEMMA OtherCovers ==
    ASSUME ExchangeInv, \A q \in Party : Covers(q), NEW p \in Party,
           used'.restarts = 0, Freezes(p) \/ Idles(p)
    PROVE  \A q \in Party : Covers(q)'
  <1>1. /\ Untouched(p) /\ held'[p] = held[p]
        /\ Leaves(p) \/ Takes(p)
        /\ Silent(p) \/ \E m : Says(p, m) /\ m.type \notin Signing
    BY DEF Freezes, Idles, KeepsHistory, SaysPlain, Signing
  <1>2. Live(p)' => /\ Live(p) /\ state'[p] = state[p]
                    /\ \/ monitor'[p] = monitor[p]
                       \/ monitor'[p] = AddTx(monitor[p], SettledEntry(p))
    BY DEF Freezes, Idles, KeepsType, Live, Frozen, Updating
  <1>3. Live(p)' => \A tx : Seen(p, tx) => Seen(p, tx)'
    BY <1>2, AddLists, EntriesSeen
  <1> QED
    BY <1>1, <1>2, <1>3, StepCovers

LEMMA InitCoverage == Init => CoverageInv
  <1> SUFFICES ASSUME Init PROVE CoverageInv
    OBVIOUS
  <1>1. ASSUME NEW p \in Party PROVE Covers(p)
    <2>1. Other(p) \in Party
      BY OtherType
    <2>2. /\ held[Other(p)] = {FirstTx} /\ net[Other(p)] = <<>>
          /\ monitor[p] = FirstMonitor
      BY <2>1 DEF Init
    <2>3. Lists(FirstMonitor, FirstTx)
      BY AddLists, EntryFields DEF FirstMonitor
    <2>4. InTransit(Other(p)) = {}
      BY <2>2 DEF InTransit
    <2> QED
      BY <2>2, <2>3, <2>4 DEF Covers, Seen
  <1> QED
    BY <1>1, InitExchange DEF CoverageInv

LEMMA NextCoverage == CoverageInv /\ [Next]_vars => CoverageInv'
  <1> SUFFICES ASSUME CoverageInv, [Next]_vars PROVE CoverageInv'
    OBVIOUS
  <1>1. ExchangeInv /\ ExchangeInv' /\ TypeInv
    BY NextExchange DEF CoverageInv, ExchangeInv, RevealInv
  <1>2. PICK p \in Party : StepOf(p)
    BY <1>1, NextStep
  <1>3. ASSUME used'.restarts = 0 PROVE \A q \in Party : Covers(q)'
    <2>1. \A q \in Party : Covers(q)
      BY <1>1, <1>3, UsedUp DEF CoverageInv
    <2> QED
      BY <1>1, <1>2, <1>3, <2>1, UpdateCovers, OtherCovers DEF StepOf
  <1> QED
    BY <1>1, <1>3 DEF CoverageInv

(* As long as no manager is restarted, a party that updates the channel    *)
(* watches every transaction its counter party can publish, the renewed    *)
(* buffer transaction excepted from RenewConfirm until RenewFinalize: each *)
(* handler adds the watch before its signature goes out, whatever becomes  *)
(* of the messages.                                                        *)
THEOREM CoverageSafe == Spec => []WatchCoverage
  <1>1. CoverageInv => WatchCoverage
    BY DEF CoverageInv, WatchCoverage, Covers, Seen, Lists
  <1> QED
    BY <1>1, InitCoverage, NextCoverage, PTL DEF Spec

-----------------------------------------------------------------------------
(***************************************************************************)
(* Closing a channel, for every choice of the constants of DlcChannel: a   *)
(* forced close publishes nothing that is revoked, and who closed the      *)
(* channel is recorded correctly.                                          *)
(*                                                                         *)
(* A forced close takes the channel back to its roll back state, whatever  *)
(* that is, and nothing checks the secrets given up: that the transaction  *)
(* is not revoked follows from where the update protocols give them up.    *)
(* Who closed is told apart by the monitor alone, which no longer has the  *)
(* transactions the party published itself.                                *)
(***************************************************************************)

(* A collaborative close may be offered in any state; the state it can be  *)
(* taken back to is one whose own point is not given up.                   *)
Withdrawable(p) ==
    state[p].name = "CollaborativeCloseOffered" =>
      /\ state[p].tx.kind = "close"
      /\ rollback[p].name \in StableStates \cup {"RenewFinalized"} =>
           points[p][p] \notin revealed[p]

CloseOfferInv == AgreementInv /\ \A p \in Party : Withdrawable(p)

(* What is confirmed was broadcast.                                        *)
ChainKnown ==
    chain.depth > 0 => [tx |-> chain.tx, by |-> chain.by] \in mempool
Punished(p) ==
    ctype[p] = "ClosedPunished" =>
      /\ chain.depth > 0 /\ chain.by = Other(p)
      /\ chain.tx.point[Other(p)] \in revealed[Other(p)]
Claiming(p) == ctype[p] = "SettledClosing" => state[p].name = "SettledClosing"

(* A party whose manager broadcast a transaction does not go on updating   *)
(* and does not watch it; a close it did not start was started by the      *)
(* counter party.                                                          *)
Honest == used.cheats = 0 /\ used.restarts = 0
Published(p) ==
    ctype[p] = "Signed" =>
      \A s \in mempool : s.by = p =>
        /\ state[p].name \in Frozen
        /\ \A e \in monitor[p].tx : e.type \in SpendTypes => e.tx # s.tx
ClosedByOther(p) ==
    \/ ctype[p] = "CounterClosed"
    \/ /\ state[p].name \in {"Closing", "SettledClosing"}
       /\ state[p].isInitiator # TRUE
Countered(p) ==
    ClosedByOther(p) =>
      chain.depth > 0 /\ [tx |-> chain.tx, by |-> Other(p)] \in mempool

CloseInv ==
    /\ CloseOfferInv /\ ChainKnown
    /\ \A p \in Party : Punished(p) /\ Claiming(p)
    /\ Honest => \A p \in Party : Published(p) /\ Countered(p)

-----------------------------------------------------------------------------
(* A forced close publishes nothing that is revoked.                       *)

LEMMA OwnPoint ==
    ASSUME ExchangeInv, NEW p \in Party,
           state[p].name \in Updating \ {"SettledConfirmed"}
    PROVE  points[p][p] \notin revealed[p]
  <1>1. Pointed(p) /\ \A n \in revealed[p] : n <= updateIdx[p]
    BY DEF ExchangeInv, Place, GivenUp
  <1>2. updateIdx[p] \in Nat
    BY IdxType DEF ExchangeInv, RevealInv
  <1>3. CASE state[p].name = "RenewFinalized"
    <2>1. points[p][p] = updateIdx[p] + 1
      BY <1>1, <1>3, BothPoints DEF Pointed
    <2> QED
      BY <1>1, <1>2, <2>1
  <1>4. CASE state[p].name # "RenewFinalized"
    <2>1. points[p][p] = updateIdx[p]
      BY <1>1, <1>4, BothPoints DEF Pointed
    <2>2. state[p].name \notin Frozen \cup Waiting
      BY <1>4 DEF Updating, Frozen, Waiting
    <2> QED
      BY <2>1, <2>2, NotGiven
  <1> QED
    BY <1>3, <1>4

LEMMA UpdateNames ==
    ASSUME AgreementInv, NEW p \in Party, ctype[p] = "Signed", UpdateStep(p)
    PROVE  /\ Untouched(p) /\ KeepsType(p)
           /\ state[p].name \notin Frozen /\ state'[p].name \notin Frozen
  <1>1. CASE Reverts(p)
    <2>1. /\ Untouched(p) /\ KeepsType(p) /\ state[p].name \in Revertible
          /\ state'[p] = rollback[p]
      BY <1>1 DEF Reverts
    <2>2. Live(p) /\ state[p].name \notin StableStates /\ state[p].name \notin Frozen
      BY <2>1 DEF Live, Updating, Revertible, StableStates, Frozen
    <2>3. rollback[p].name \in StableStates
      BY <2>2 DEF AgreementInv, Rests
    <2> QED
      BY <2>1, <2>2, <2>3 DEF StableStates, Frozen
  <1> QED
    BY <1>1 DEF UpdateStep, Offers, IsOffered, AcceptsUpdate, ConfirmsSettle,
                FinalizesSettle, EndsSettle, AdoptsSettle, ConfirmsRenew,
                FinalizesRenew, RevokesRenew, EndsRenew, StableStates, Frozen

LEMMA InitCloseOffer == Init => CloseOfferInv
  <1> SUFFICES ASSUME Init PROVE CloseOfferInv
    OBVIOUS
  <1>1. \A p \in Party : state[p].name = "Established"
    BY DEF Init, Variant, WithOffer
  <1> QED
    BY <1>1, InitAgreement DEF CloseOfferInv, Withdrawable

LEMMA NextCloseOffer == CloseOfferInv /\ [Next]_vars => CloseOfferInv'
  <1> SUFFICES ASSUME CloseOfferInv, [Next]_vars PROVE CloseOfferInv'
    OBVIOUS
  <1>1. AgreementInv /\ ExchangeInv /\ TypeInv /\ AgreementInv'
    BY NextAgreement DEF CloseOfferInv, AgreementInv, ExchangeInv, RevealInv
  <1>2. PICK p \in Party : StepOf(p)
    BY <1>1, NextStep
  <1>3. Untouched(p)
    BY <1>1, <1>2, UpdateNames DEF StepOf, Freezes, Idles
  <1>4. Withdrawable(p)'
    <2>1. CASE ctype[p] = "Signed" /\ UpdateStep(p)
      <3>1. state'[p].name # "CollaborativeCloseOffered"
        BY <1>1, <2>1, UpdateNames DEF Frozen
      <3> QED
        BY <3>1 DEF Withdrawable
    <2>2. CASE Freezes(p)
      <3>1. state[p].name \in StableStates \cup {"RenewFinalized"} =>
              points[p][p] \notin revealed[p]
        BY <1>1, OwnPoint DEF StableStates, Updating
      <3> QED
        BY <2>2, <3>1 DEF Freezes, KeepsPlace, KeepsHistory, Withdrawable
    <2>3. CASE Idles(p)
      BY <2>3 DEF Idles, KeepsPlace, KeepsHistory, CloseOfferInv, Withdrawable
    <2> QED
      BY <1>2, <2>1, <2>2, <2>3 DEF StepOf
  <1>5. ASSUME NEW q \in Party, q # p PROVE Withdrawable(q)'
    BY <1>3, <1>5 DEF Untouched, CloseOfferInv, Withdrawable
  <1> QED
    BY <1>1, <1>4, <1>5 DEF CloseOfferInv

(* What is broadcast, and by which call.                                   *)
Broadcasts(q, s) ==
    \/ AcceptCollaborativeClose(q) /\ s = [tx |-> state[q].tx, by |-> q]
    \/ /\ ForceCloseEstablished(q) \/ ForceCloseSettled(q)
       /\ s = [tx |-> ClosedFrom(q).tx, by |-> q]

LEMMA NewSpend ==
    ASSUME TypeInv, [Next]_vars, NEW s \in mempool' \ mempool
    PROVE  (used' # used /\ used'.cheats # 0) \/ \E q \in Party : Broadcasts(q, s)
  <1>1. ASSUME NEW q \in Party, ApiCall(q) PROVE Broadcasts(q, s)
    <2>1. CASE AcceptCollaborativeClose(q)
      BY <2>1 DEF AcceptCollaborativeClose, Broadcast, Broadcasts
    <2>2. CASE ForceCloseEstablished(q)
      BY <2>2 DEF ForceCloseEstablished, Broadcast, Broadcasts
    <2>3. CASE ForceCloseSettled(q)
      BY <2>3 DEF ForceCloseSettled, Broadcast, Broadcasts
    <2>4. CASE OfferUpdate(q) \/ AnswerOffer(q) \/ OfferClose(q) \/ ForceCloseFails(q)
      <3>1. mempool' = mempool
        BY <2>4
           DEF OfferUpdate, AnswerOffer, OfferClose, ForceCloseFails, Panic,
               SettleOffer, RenewOffer, AcceptSettleOffer, AcceptRenewOffer,
               RejectSettleOffer, RejectRenewOffer, OfferCollaborativeClose,
               chainVars
      <3> QED
        BY <3>1
    <2> QED
      BY <1>1, <2>1, <2>2, <2>3, <2>4 DEF ApiCall, ForceClose
  <1>2. ASSUME NEW q \in Party, OnDlcMessage(q) PROVE FALSE
    <2>1. mempool' = mempool
      BY <1>2
         DEF OnDlcMessage, OnSettleOfferReject, OnSettleOffer, OnSettleAccept,
             OnSettleConfirm, OnSettleFinalize, OnSettleUnconfirmed,
             OnRenewOfferReject, OnRenewOffer, OnRenewAccept, OnRenewConfirm,
             OnRenewFinalize, OnRenewRevoke, OnReject,
             OnCollaborativeCloseOffer, HandlerError, chainVars
    <2> QED
      BY <2>1
  <1>3. ASSUME NEW q \in Party, PeriodicCheck(q) PROVE FALSE
    <2>1. mempool' = mempool
      BY <1>3
         DEF PeriodicCheck, CheckSignedContract, CheckPreclosedContract,
             TryFinalizeClosingEstablishedChannel,
             TryFinalizeSettledClosingChannel, TryConfirmClaimTx,
             ProcessBufferTx, ProcessBufferTxFails, ProcessSettleTx2,
             ProcessRevoked, ProcessRevokedFails, ProcessCollaborativeClose,
             ProcessCet, CheckForWatchedTx, Panic, chainVars
    <2> QED
      BY <2>1
  <1>4. ASSUME Environment PROVE used' # used /\ used'.cheats # 0
    <2>1. PICK q \in Party : PublishOld(q)
      BY <1>4 DEF Environment, Mine, Mature, MineSpend, Attest, LoseMessage,
                  Restart, chainVars
    <2>2. /\ used \in [lost : Nat, restarts : Nat, cheats : Nat, closes : Nat]
          /\ used' = [used EXCEPT !.cheats = @ + 1]
      BY <2>1 DEF PublishOld, TypeInv, RestTyped
    <2>3. used.cheats \in Nat /\ used'.cheats = used.cheats + 1
      BY <2>2
    <2> QED
      BY <2>3
  <1>5. ASSUME UNCHANGED vars PROVE FALSE
    BY <1>5 DEF vars, chainVars
  <1> QED
    BY <1>1, <1>2, <1>3, <1>4, <1>5 DEF Next

LEMMA ForcedUnrevoked ==
    ASSUME CloseOfferInv, NEW p \in Party,
           ForceCloseEstablished(p) \/ ForceCloseSettled(p),
           state[p].name # "SettledConfirmed"
    PROVE  ClosedFrom(p).tx.point[p] \notin revealed[p]
  <1>1. /\ ClosedFrom(p).name \in StableStates \cup {"RenewFinalized"}
        /\ ClosedFrom(p).tx.point[p] = points[p][p]
    BY DEF ForceCloseEstablished, ForceCloseSettled, UnilateralCloseEstablished,
           UnilateralCloseSettled, StableStates
  <1>2. ExchangeInv /\ Withdrawable(p)
    BY DEF CloseOfferInv, AgreementInv
  <1>3. CASE state[p].name = "CollaborativeCloseOffered"
    BY <1>1, <1>2, <1>3 DEF ClosedFrom, RollbackStates, Withdrawable
  <1>4. CASE state[p].name # "CollaborativeCloseOffered"
    <2>1. state[p].name \in Updating \ {"SettledConfirmed"}
      BY <1>1, <1>4 DEF ClosedFrom, RollbackStates, Updating, StableStates
    <2> QED
      BY <1>1, <1>2, <2>1, OwnPoint
  <1> QED
    BY <1>3, <1>4

(* A manager that is asked to force close, at whatever point of an update  *)
(* or of a collaborative close, broadcasts no transaction whose secret it  *)
(* has given up; SettledConfirmed is the exception, and the only one.      *)
THEOREM ForcedCloseSafe == Spec => ForcedCloseUnrevoked
  <1> DEFINE Unrevoked ==
        \A p \in Party : used' = used =>
          \A s \in mempool' \ mempool : s.by = p /\ s.tx.kind # "close" =>
             \/ s.tx.point[p] \notin revealed[p]
             \/ state[p].name = "SettledConfirmed"
  <1>1. CloseOfferInv /\ [Next]_vars => [Unrevoked]_vars
    <2>1. SUFFICES ASSUME CloseOfferInv, [Next]_vars, NEW p \in Party, used' = used,
                          NEW s \in mempool' \ mempool, s.by = p,
                          s.tx.kind # "close", state[p].name # "SettledConfirmed"
                   PROVE  s.tx.point[p] \notin revealed[p]
      OBVIOUS
    <2>2. PICK q \in Party : Broadcasts(q, s)
      <3>1. TypeInv
        BY <2>1 DEF CloseOfferInv, AgreementInv, ExchangeInv, RevealInv
      <3> QED
        BY <2>1, <3>1, NewSpend
    <2>3. ~ AcceptCollaborativeClose(q) \/ s.tx # state[q].tx
      BY <2>1 DEF AcceptCollaborativeClose, InState, CloseOfferInv, Withdrawable
    <2>4. /\ ForceCloseEstablished(q) \/ ForceCloseSettled(q)
          /\ s.tx = ClosedFrom(q).tx /\ q = p
      BY <2>1, <2>2, <2>3 DEF Broadcasts
    <2> QED
      BY <2>1, <2>4, ForcedUnrevoked
  <1>2. Spec => [][Unrevoked]_vars
    BY <1>1, InitCloseOffer, NextCloseOffer, PTL DEF Spec
  <1> QED
    BY <1>2 DEF ForcedCloseUnrevoked

-----------------------------------------------------------------------------
(* Who closed the channel.                                                 *)

LEMMA ChainSteps ==
    ASSUME [Next]_vars
    PROVE  mempool \subseteq mempool' /\ (chain' = chain \/ Mine \/ Mature)
  <1>1. ASSUME NEW q \in Party, ApiCall(q)
        PROVE  mempool \subseteq mempool' /\ chain' = chain
    <2>1. CASE AcceptCollaborativeClose(q) \/ ForceCloseEstablished(q) \/ ForceCloseSettled(q)
      BY <2>1 DEF AcceptCollaborativeClose, ForceCloseEstablished,
                  ForceCloseSettled, Broadcast
    <2>2. CASE OfferUpdate(q) \/ AnswerOffer(q) \/ OfferClose(q) \/ ForceCloseFails(q)
      BY <2>2
         DEF OfferUpdate, AnswerOffer, OfferClose, ForceCloseFails, Panic,
             SettleOffer, RenewOffer, AcceptSettleOffer, AcceptRenewOffer,
             RejectSettleOffer, RejectRenewOffer, OfferCollaborativeClose,
             chainVars
    <2> QED
      BY <1>1, <2>1, <2>2 DEF ApiCall, ForceClose
  <1>2. ASSUME NEW q \in Party, OnDlcMessage(q)
        PROVE  mempool' = mempool /\ chain' = chain
    BY <1>2
       DEF OnDlcMessage, OnSettleOfferReject, OnSettleOffer, OnSettleAccept,
           OnSettleConfirm, OnSettleFinalize, OnSettleUnconfirmed,
           OnRenewOfferReject, OnRenewOffer, OnRenewAccept, OnRenewConfirm,
           OnRenewFinalize, OnRenewRevoke, OnReject,
           OnCollaborativeCloseOffer, HandlerError, chainVars
  <1>3. ASSUME NEW q \in Party, PeriodicCheck(q)
        PROVE  mempool' = mempool /\ chain' = chain
    BY <1>3
       DEF PeriodicCheck, CheckSignedContract, CheckPreclosedContract,
           TryFinalizeClosingEstablishedChannel,
           TryFinalizeSettledClosingChannel, TryConfirmClaimTx,
           ProcessBufferTx, ProcessBufferTxFails, ProcessSettleTx2,
           ProcessRevoked, ProcessRevokedFails, ProcessCollaborativeClose,
           ProcessCet, CheckForWatchedTx, Panic, chainVars
  <1>4. ASSUME Environment
        PROVE  mempool \subseteq mempool' /\ (chain' = chain \/ Mine \/ Mature)
    BY <1>4 DEF Environment, Mine, Mature, MineSpend, Attest, LoseMessage,
                Restart, PublishOld, chainVars
  <1>5. ASSUME UNCHANGED vars PROVE mempool' = mempool /\ chain' = chain
    BY <1>5 DEF vars, chainVars
  <1> QED
    BY <1>1, <1>2, <1>3, <1>4, <1>5 DEF Next

(* The confirmed transaction stays, and was broadcast.                     *)
LEMMA ChainStays ==
    ASSUME TypeInv, ChainKnown, [Next]_vars
    PROVE  /\ mempool \subseteq mempool' /\ ChainKnown'
           /\ chain.depth > 0 => /\ chain'.depth > 0
                                 /\ chain'.tx = chain.tx /\ chain'.by = chain.by
  <1>1. chain \in [tx : Tx, by : Party, depth : 0 .. 2] /\ mempool \subseteq FundSpend
    BY DEF TypeInv, ChainTyped
  <1>2. mempool \subseteq mempool'
    BY ChainSteps
  <1>3. CASE chain' = chain
    BY <1>2, <1>3 DEF ChainKnown
  <1>4. CASE Mine
    <2>1. PICK s \in mempool : chain' = [tx |-> s.tx, by |-> s.by, depth |-> 1]
      BY <1>4 DEF Mine
    <2>2. s = [tx |-> s.tx, by |-> s.by]
      BY <1>1 DEF FundSpend
    <2>3. [tx |-> chain'.tx, by |-> chain'.by] \in mempool'
      BY <1>2, <2>1, <2>2
    <2>4. chain.depth = 0
      BY <1>4 DEF Mine
    <2> QED
      BY <1>2, <2>3, <2>4 DEF ChainKnown
  <1>5. CASE Mature
    <2>1. /\ chain.depth = 1 /\ chain'.depth = 2
          /\ chain'.tx = chain.tx /\ chain'.by = chain.by
      BY <1>1, <1>5 DEF Mature
    <2> QED
      BY <1>2, <2>1 DEF ChainKnown
  <1> QED
    BY <1>3, <1>4, <1>5, ChainSteps

LEMMA NextPunished ==
    ASSUME CloseInv, [Next]_vars, NEW p \in Party
    PROVE  Punished(p)' /\ Claiming(p)'
  <1> DEFINE o == Other(p)
  <1>1. /\ AgreementInv /\ ExchangeInv /\ TypeInv /\ ChainKnown /\ o \in Party
        /\ secrets[p] \subseteq revealed[o]
    BY OtherType
       DEF CloseInv, CloseOfferInv, AgreementInv, ExchangeInv, RevealInv
  <1>2. PICK q \in Party : StepOf(q)
    BY <1>1, NextStep
  <1>3. \A x \in Party : revealed[x] \subseteq revealed'[x]
    <2>1. Untouched(q) /\ revealed[q] \subseteq revealed'[q]
      BY <1>2 DEF StepOf, UpdateStep, Offers, IsOffered, AcceptsUpdate, Reverts,
                  ConfirmsSettle, FinalizesSettle, EndsSettle, AdoptsSettle,
                  ConfirmsRenew, FinalizesRenew, RevokesRenew, EndsRenew,
                  Freezes, Idles, KeepsHistory
    <2> QED
      BY <2>1 DEF Untouched
  <1>4. /\ chain.depth > 0 => chain'.depth > 0 /\ chain'.tx = chain.tx /\ chain'.by = chain.by
    BY <1>1, ChainStays
  <1>5. CASE ctype'[p] = ctype[p] /\ (ctype[p] = "Signed" \/ state'[p] = state[p])
    BY <1>1, <1>3, <1>4, <1>5 DEF CloseInv, Punished, Claiming
  <1>6. CASE Idles(p) /\ ctype'[p] # "Signed" /\ Ends(p)
    <2>1. Claiming(p)'
      BY <1>6 DEF Claiming, Idles, Ends
    <2>2. ASSUME ctype'[p] = "ClosedPunished"
          PROVE  /\ chain.depth > 0 /\ chain.by = o
                 /\ chain.tx.point[o] \in revealed[o]
      BY <1>1, <1>6, <2>2 DEF Ends, Confirmed
    <2>3. Punished(p)'
      BY <1>1, <1>3, <1>4, <2>2 DEF Punished
    <2> QED
      BY <2>1, <2>3
  <1>7. \/ ctype'[p] = ctype[p] /\ (ctype[p] = "Signed" \/ state'[p] = state[p])
        \/ Idles(p) /\ ctype'[p] # "Signed" /\ Ends(p)
    <2>1. CASE q # p
      <3>1. Untouched(q)
        BY <1>1, <1>2, UpdateNames DEF StepOf, Freezes, Idles
      <3> QED
        BY <2>1, <3>1 DEF Untouched
    <2>2. CASE q = p
      <3>1. CASE ctype[p] = "Signed" /\ UpdateStep(p)
        BY <1>1, <3>1, UpdateNames DEF KeepsType
      <3>2. CASE Freezes(p)
        BY <3>2 DEF Freezes, KeepsType
      <3>3. CASE Idles(p)
        BY <3>3 DEF Idles, KeepsType
      <3> QED
        BY <1>2, <2>2, <3>1, <3>2, <3>3 DEF StepOf
    <2> QED
      BY <2>1, <2>2
  <1> QED
    BY <1>5, <1>6, <1>7

(* A manager drops the watch for what it publishes, and goes on to nothing *)
(* that adds it again.                                                     *)
LEMMA ForceCloseDrops ==
    ASSUME TypeInv, NEW p \in Party, ForceCloseEstablished(p) \/ ForceCloseSettled(p)
    PROVE  /\ Freezes(p)
           /\ \A e \in monitor'[p].tx : e.tx # ClosedFrom(p).tx
  <1>1. CASE ForceCloseEstablished(p)
    <2>1. monitor'[p] = RemoveTx(monitor[p], ClosedFrom(p).tx) /\ monitor[p] \in Monitor
      BY <1>1, MonitorEffect DEF TypeInv, MonitorTyped, ForceCloseEstablished
    <2>2. monitor'[p].tx = {x \in monitor[p].tx : x.tx # ClosedFrom(p).tx}
      BY <2>1 DEF RemoveTx, Monitor
    <2> QED
      BY <1>1, <2>2, ForceCloseStep
  <1>2. CASE ForceCloseSettled(p)
    <2>1. monitor'[p] = EmptyMonitor
      BY <1>2, MonitorEffect DEF TypeInv, ForceCloseSettled
    <2>2. monitor'[p].tx = {}
      BY <2>1 DEF EmptyMonitor
    <2> QED
      BY <1>2, <2>2, ForceCloseStep
  <1> QED
    BY <1>1, <1>2

LEMMA NextPublished ==
    ASSUME CloseInv, [Next]_vars, Honest, Honest', NEW p \in Party
    PROVE  Published(p)'
  <1>1. AgreementInv /\ TypeInv /\ Published(p)
    BY DEF CloseInv, CloseOfferInv, AgreementInv, ExchangeInv, RevealInv
  <1>2. SUFFICES ASSUME ctype'[p] = "Signed", NEW s \in mempool', s.by = p
                 PROVE  /\ state'[p].name \in Frozen
                        /\ \A e \in monitor'[p].tx : e.type \in SpendTypes => e.tx # s.tx
    BY DEF Published
  <1>3. CASE s \notin mempool
    <2>1. PICK q \in Party : Broadcasts(q, s)
      BY <1>1, <1>2, <1>3, NewSpend DEF Honest
    <2>2. q = p
      BY <1>2, <2>1 DEF Broadcasts
    <2>3. ~ AcceptCollaborativeClose(p)
      <3>1. AcceptCollaborativeClose(p) => ctype'[p] = "CollaborativelyClosed"
        BY <1>1, CtypeEffect DEF AcceptCollaborativeClose, TypeInv
      <3> QED
        BY <1>2, <3>1
    <2>4. /\ ForceCloseEstablished(p) \/ ForceCloseSettled(p)
          /\ s.tx = ClosedFrom(p).tx
      BY <2>1, <2>2, <2>3 DEF Broadcasts
    <2> QED
      BY <1>1, <2>4, ForceCloseDrops DEF Freezes
  <1>4. CASE s \in mempool
    <2>1. PICK q \in Party : StepOf(q)
      BY <1>1, NextStep
    <2>2. CASE q # p
      <3>1. Untouched(q)
        BY <1>1, <2>1, UpdateNames DEF StepOf, Freezes, Idles
      <3> QED
        BY <1>1, <1>2, <1>4, <2>2, <3>1 DEF Untouched, Published
    <2>3. CASE q = p
      <3>1. ctype[p] = "Signed"
        BY <1>1, <1>2, <2>1, <2>3 DEF StepOf, Freezes, Idles, KeepsType
      <3>2. /\ state[p].name \in Frozen
            /\ \A e \in monitor[p].tx : e.type \in SpendTypes => e.tx # s.tx
        BY <1>1, <1>2, <1>4, <3>1 DEF Published
      <3>3. ~ UpdateStep(p)
        BY <1>1, <3>1, <3>2, UpdateNames
      <3>4. CASE Freezes(p)
        BY <3>2, <3>4 DEF Freezes, Follows
      <3>5. CASE Idles(p)
        <4>1. state'[p] = state[p] /\ monitor'[p] = monitor[p]
          BY <1>2, <3>2, <3>5 DEF Idles, Honest, Frozen
        <4> QED
          BY <3>2, <4>1
      <3> QED
        BY <2>1, <2>3, <3>3, <3>4, <3>5 DEF StepOf
    <2> QED
      BY <2>2, <2>3
  <1> QED
    BY <1>3, <1>4

LEMMA NextCountered ==
    ASSUME CloseInv, [Next]_vars, Honest, NEW p \in Party
    PROVE  Countered(p)'
  <1> DEFINE o == Other(p)
             Theirs == chain.depth > 0 /\ [tx |-> chain.tx, by |-> o] \in mempool
  <1>1. /\ AgreementInv /\ TypeInv /\ ChainKnown /\ Published(p) /\ Countered(p)
        /\ Claiming(p)
    BY DEF CloseInv, CloseOfferInv, AgreementInv, ExchangeInv, RevealInv
  <1>2. SUFFICES ASSUME ClosedByOther(p)' PROVE Theirs
    <2>1. Theirs => chain'.depth > 0 /\ [tx |-> chain'.tx, by |-> o] \in mempool'
      BY <1>1, ChainStays
    <2> QED
      BY <1>2, <2>1 DEF Countered
  <1>3. CASE ClosedByOther(p)
    BY <1>1, <1>3 DEF Countered
  <1>4. CASE ~ ClosedByOther(p)
    <2>1. PICK q \in Party : StepOf(q)
      BY <1>1, NextStep
    <2>2. q = p
      <3>1. Untouched(q)
        BY <1>1, <2>1, UpdateNames DEF StepOf, Freezes, Idles
      <3> QED
        BY <1>2, <1>4, <3>1 DEF Untouched, ClosedByOther
    <2>3. ~ (ctype[p] = "Signed" /\ UpdateStep(p))
      BY <1>1, <1>2, UpdateNames DEF ClosedByOther, KeepsType, Frozen
    <2>4. ~ Idles(p)
      BY <1>1, <1>2, <1>4 DEF Idles, Ends, KeepsType, ClosedByOther, Claiming
    <2>5. Freezes(p)
      BY <2>1, <2>2, <2>3, <2>4 DEF StepOf
    <2>6. /\ ctype'[p] = "Signed" /\ ctype[p] = "Signed"
          /\ state'[p].name \in {"Closing", "SettledClosing"}
          /\ state'[p].isInitiator # TRUE
      BY <1>2, <2>5 DEF Freezes, KeepsType, ClosedByOther
    <2>7. PICK e \in monitor[p].tx : e.type \in SpendTypes /\ Confirmed(e.tx)
      BY <2>5, <2>6 DEF Freezes, Follows
    <2>8. /\ chain.depth > 0 /\ chain.tx = e.tx
          /\ [tx |-> chain.tx, by |-> chain.by] \in mempool
      BY <1>1, <2>7 DEF Confirmed, ChainKnown
    <2>9. chain.by # p
      <3> DEFINE s == [tx |-> chain.tx, by |-> chain.by]
      <3>1. s.by = p => s.tx # e.tx
        BY <1>1, <2>6, <2>7, <2>8 DEF Published
      <3> QED
        BY <2>8, <3>1
    <2>10. chain.by = o
      <3>1. chain.by \in Party
        BY <1>1 DEF TypeInv, ChainTyped
      <3> QED
        BY <2>9, <3>1 DEF Party, Other
    <2> QED
      BY <2>8, <2>10
  <1> QED
    BY <1>3, <1>4

LEMMA InitClose == Init => CloseInv
  <1> SUFFICES ASSUME Init PROVE CloseInv
    OBVIOUS
  <1>1. /\ chain.depth = 0 /\ mempool = {}
        /\ \A p \in Party : state[p].name = "Established" /\ ctype[p] = "Signed"
    BY DEF Init, Variant, WithOffer, Unspent
  <1>2. ChainKnown
    BY <1>1 DEF ChainKnown
  <1>3. ASSUME NEW p \in Party
        PROVE  Punished(p) /\ Claiming(p) /\ Published(p) /\ Countered(p)
    <2>1. Punished(p) /\ Claiming(p) /\ Published(p)
      BY <1>1 DEF Punished, Claiming, Published
    <2>2. ~ ClosedByOther(p)
      BY <1>1 DEF ClosedByOther
    <2> QED
      BY <2>1, <2>2 DEF Countered
  <1> QED
    BY <1>2, <1>3, InitCloseOffer DEF CloseInv

LEMMA NextClose == CloseInv /\ [Next]_vars => CloseInv'
  <1> SUFFICES ASSUME CloseInv, [Next]_vars PROVE CloseInv'
    OBVIOUS
  <1>1. CloseOfferInv /\ ChainKnown /\ TypeInv
    BY DEF CloseInv, CloseOfferInv, AgreementInv, ExchangeInv, RevealInv
  <1>2. CloseOfferInv' /\ ChainKnown'
    BY <1>1, NextCloseOffer, ChainStays
  <1>3. \A p \in Party : Punished(p)' /\ Claiming(p)'
    BY NextPunished
  <1>4. ASSUME Honest' PROVE \A p \in Party : Published(p)' /\ Countered(p)'
    <2>1. Honest
      BY <1>1, <1>4, UsedUp DEF Honest
    <2> QED
      BY <1>4, <2>1, NextPublished, NextCountered
  <1> QED
    BY <1>2, <1>3, <1>4 DEF CloseInv

(* A party punishes only what the counter party published and had revoked; *)
(* and with nothing published outside the managers and none restarted, a   *)
(* channel is recorded as CounterClosed only after the counter party       *)
(* broadcast the transaction, wherever the forced closes of the two cross. *)
THEOREM CloserSafe == Spec => []CloserIdentified
  <1>1. CloseInv => CloserIdentified
    BY DEF CloseInv, CloserIdentified, Punished, Countered, ClosedByOther, Honest
  <1> QED
    BY <1>1, InitClose, NextClose, PTL DEF Spec
=============================================================================
