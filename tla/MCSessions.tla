----------------------------- MODULE MCSessions -----------------------------
(* Sessions for TLC: interchangeable requests, users and session ids.      *)
EXTENDS Sessions, TLC

\* A state without the expiry of revoked rows, which nothing reads.
Seen ==
    <<account, [s \in Sessions |-> IF s \in revoked THEN "revoked" ELSE row[s]], owner, gen,
      failures, req, conn, restarts>>

Symmetry == Permutations(Requests) \cup Permutations(Users) \cup Permutations(Sessions)
=============================================================================
