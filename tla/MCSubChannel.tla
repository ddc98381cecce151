---------------------------- MODULE MCSubChannel ----------------------------
(***************************************************************************)
(* The module TLC runs for sub channels.  The two parties start alike, but *)
(* liveness is checked, so no symmetry is used.                            *)
(***************************************************************************)
EXTENDS SubChannelProperties

(* Both offer to merge back, and the accepting party may reject.           *)
MCRecoveryCalls ==
    [p \in {Alice, Bob} |-> IF p = Alice THEN {"close"} ELSE {"close", "reject"}]

(* Alice offers to merge back; both close by force, LDK closes the channel *)
(* of Alice and Bob also publishes what it holds.                          *)
MCClosingCalls ==
    [p \in {Alice, Bob} |-> IF p = Alice THEN {"close", "force", "ldk"}
                            ELSE {"force", "cheat"}]
=============================================================================
