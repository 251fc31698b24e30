-------------------------- MODULE MCGetAndSubscribe --------------------------
(* Instances of GetAndSubscribe for TLC: browsers j1 and j2 run JavaScript,   *)
(* browser n1 does not; they look at one campaign.                            *)
EXTENDS GetAndSubscribeVersions, TLC

CONSTANTS j1, j2, n1, k1

ThreeSessions == {j1, j2, n1}
JsSession     == {j1}
JsSessions    == Sessions \ {n1}
TheCampaign   == {k1}

\* j1 may come, leave and return, or log in, or store; the others look once.
Browsing == [s \in Sessions |-> IF s = j1 THEN 3 ELSE 1]
==============================================================================
