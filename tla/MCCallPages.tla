---------------------------- MODULE MCCallPages ----------------------------
(* CallPages with the two requests a client has under way at a time. *)
EXTENDS CallPages, TLC

CONSTANTS c1, u1, u2

MCRequests == {u1, u2} \X {"start", "side"}
=============================================================================
