------------------------------- MODULE MCPush -------------------------------
(* The instance TLC checks Push on. *)
EXTENDS Push, TLC

CONSTANTS u1, u2, t1, t2, t3, r1, r2

\* u1 writes to u2 and registers devices, u2 makes every call; both register at once.
MCOperations == [r \in {r1, r2} |-> IF r = r1 THEN {<<u1, "alert">>} \cup {u2} \X Ops
                                   ELSE {u1, u2} \X {"register"} \cup {<<u1, "alert">>, <<u2, "unregister">>}]
Symmetry == Permutations(Tokens)
=============================================================================
