--------------------------------- MODULE MCCall ---------------------------------
(***************************************************************************)
(* An instance of Call for TLC: two programs that call each other, and a   *)
(* third one that calls one of them.                                       *)
(***************************************************************************)
EXTENDS CallAgreement

CONSTANTS p1, p2, p3

MCPlan == <<{<<p1, p2>>}, {<<p1, p2>>, <<p2, p1>>, <<p3, p1>>}>>
MCGathering == {p2}
=============================================================================
