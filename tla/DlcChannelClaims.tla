-------------------------- MODULE DlcChannelClaims --------------------------
(***************************************************************************)
(* Statements the code base makes about a DLC channel, in an expect() and  *)
(* in a test, that the code does not keep.  Each is checked in a run of    *)
(* its own, which TLC refutes.                                             *)
(***************************************************************************)
EXTENDS DlcChannelProperties

(* process_watched_txs, expect("to have a contract id"): when the watched  *)
(* buffer transaction is confirmed, the channel is in a state that has a   *)
(* contract.                                                               *)
BufferTxHasContract ==
    \A p \in Party : Signed(p) /\ ConfirmedWatch(p, "BufferTx") # {} =>
       GetContractId(state[p]) # NoContract

(* A party that force closes through its manager, as the tests of the      *)
(* settle and renew timeouts do, is not punished for it.                   *)
HonestCloseUnpunished ==
    \A p \in Party :
       used.cheats = 0 => ctype[p] # "ClosedPunished"
=============================================================================
