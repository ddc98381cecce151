----------------------- MODULE MessageHandlerProperties -----------------------
(***************************************************************************)
(* What the protocols above rely on: messages of a peer arrive whole, once *)
(* and in the order in which they were sent, or not at all.                *)
(***************************************************************************)
EXTENDS MessageHandler

Arrived(n) == processed[n] \o msg_received[n]

(* What a node gets from a peer is what the peer sent to it, whole, each   *)
(* message once and in order, although a reader keeps the segments of a    *)
(* message whose connection broke, and segments of several peers come      *)
(* interleaved.                                                            *)
DeliveredAsSent ==
    \A n \in Nodes : \A i \in DOMAIN Arrived(n) :
        LET m == Arrived(n)[i]
        IN /\ m # Torn
           /\ m.to = n /\ m.id =< sent[m.from]
           /\ \A j \in 1 .. i - 1 :
                 Arrived(n)[j].from = m.from => Arrived(n)[j].id < m.id

(* A peer is disconnected only for a message of more than MAX_SEGMENTS     *)
(* segments: no message that can be sent is refused because of what the    *)
(* reader has kept of an earlier one.                                      *)
OnlyOversizedRefused ==
    \A m \in refused : m.len > MAX_BUF_SIZE /\ NbSegments(m.len) > MAX_SEGMENTS

Ended(n, k) ==
    \E m \in lost \cup UNION {{processed[p][i] : i \in DOMAIN processed[p]} :
                               p \in Nodes} :
        m # Torn /\ m.from = n /\ m.id = k

(* Every message that is sent is processed, or was lost with a connection  *)
(* or with a process.  The handler itself forgets none.                    *)
ProcessedOrLost ==
    \A n \in Nodes : \A k \in 1 .. MaxSent[n] : (sent[n] >= k) ~> Ended(n, k)
=============================================================================
