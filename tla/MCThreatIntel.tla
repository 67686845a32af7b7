--------------------------- MODULE MCThreatIntel ---------------------------
(***************************************************************************)
(* Two addresses that are each other's byte-swapped form, and a map that   *)
(* holds one of them.                                                      *)
(***************************************************************************)
EXTENDS ThreatIntel

MCAddrs == {<<1, 2>>, <<2, 1>>}

=============================================================================
