---------------------------- MODULE FairExchange ----------------------------
(***************************************************************************)
(* What an update of a DLC channel promises, whatever messages carry it:   *)
(* the two parties exchange the secrets of the update they leave, and each *)
(* moves on only against the other's secret.  A party gives up the secret  *)
(* of the update it is in and of no later one; it moves to the next update *)
(* when it has the other party's secret for the current one, having given  *)
(* up its own.                                                             *)
(***************************************************************************)
EXTENDS Naturals

CONSTANTS Alice, Bob
Party == {Alice, Bob}
Other(p) == IF p = Alice THEN Bob ELSE Alice

VARIABLES adopted,    \* the update each party is in
          disclosed   \* the updates whose secret each party gave up

Init == /\ adopted = [p \in Party |-> 0]
        /\ disclosed = [p \in Party |-> {}]

Give(p) == disclosed' = [disclosed EXCEPT ![p] = @ \cup {adopted[p]}]
MoveOn(p) ==
    /\ adopted[p] \in disclosed[Other(p)]
    /\ adopted' = [adopted EXCEPT ![p] = @ + 1]

Next == \E p \in Party :
    \/ Give(p) /\ UNCHANGED adopted
    \/ MoveOn(p) /\ Give(p)
    \/ MoveOn(p) /\ adopted[p] \in disclosed[p] /\ UNCHANGED disclosed

Spec == Init /\ [][Next]_<<adopted, disclosed>>
=============================================================================
