--------------------------- MODULE MCMessageHandler ---------------------------
(***************************************************************************)
(* Two nodes and a third one that both send to.  The sizes leave room for  *)
(* two, three and four segments.                                           *)
(***************************************************************************)
EXTENDS MessageHandlerProperties

MCNodes == {"a", "b", "c"}
MCLinks == {{"a", "c"}, {"b", "c"}}
MCLens ==
    [n \in MCNodes |-> IF n = "a" THEN {1, 4, 8, 12} ELSE {7}]
MCMaxSent == [n \in MCNodes |-> CASE n = "a" -> 3 [] n = "b" -> 1 [] OTHER -> 0]
=============================================================================
