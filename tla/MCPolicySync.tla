---------------------------- MODULE MCPolicySync ----------------------------
(* Small instances of PolicySync. *)
EXTENDS PolicySync, TLC

CONSTANTS fa, fb, p1, p2, big

TwoFleets == {fa, fb}
OneFleet  == {fa}
TwoPolicies   == {p1, p2}
ThreePolicies == {p1, p2, big}
OneTooLarge   == {big}
NoneTooLarge  == {}
=============================================================================
