----------------------------- MODULE MCDlcContract -----------------------------
(* Instances of DlcContract for TLC: the first of three oracles matures     *)
(* after the others.                                                        *)
EXTENDS DlcContractProperties, TLC

MCMaturity == <<1, 0, 0>>

(* The second outcome is close to the others, the first has no cover for   *)
(* it.  The oracles can agree, differ by little and differ by much.        *)
MCCover ==
    ("x" :> {{}, {"x"}}) @@ ("y" :> SUBSET {"x", "y", "z"})
    @@ ("z" :> SUBSET {"y", "z"})
MCAttests == <<{"x", "z"}, {"x", "y"}, {"x"}>>

(* Each party offers one of the deals and answers the other.               *)
MCOffering == [d \in ContractDeals |-> {Alice}] @@ [d \in ChannelDeals |-> {Bob}]
=============================================================================
