--------------------------- MODULE MC_WsEndpoint ----------------------------
(* Small instances of WsEndpoint for TLC. *)
EXTENDS WsEndpoint, TLC

CONSTANTS s1, s2

MCScripts == {s1, s2}

\* The scripts are interchangeable model values.
MCSymmetry == Permutations(MCScripts)

=============================================================================
