------------------------------ MODULE MCProfile ------------------------------
EXTENDS Profile, TLC

CONSTANTS ada, lin, r1, r2

\* ada is edited, and lin looks.
MCNamed == {{"profile_visible"}, {"photo_visible"}, {"profile_visible", "photo_visible"}, {"bio"}}
MCOperations == [r \in Requests |-> {ada} \X (Ops \ {"show"}) \cup (IF r = r2 THEN Users \X {"show"} ELSE {})]
=============================================================================
