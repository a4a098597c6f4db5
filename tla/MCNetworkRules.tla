--------------------------- MODULE MCNetworkRules ----------------------------
(* A small instance of NetworkRules for TLC: every combination of the      *)
(* settings over the ports there are.                                      *)
EXTENDS NetworkRules

CONSTANTS proxy, service

TwoPorts == {proxy, service}

AllBuilds ==
  [restricted : BOOLEAN, allowed : SUBSET TwoPorts,
   published : SUBSET TwoPorts, unix : BOOLEAN]

=============================================================================
