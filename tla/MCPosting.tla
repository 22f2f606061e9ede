----------------------------- MODULE MCPosting -----------------------------
(* The instance TLC checks Posting on. *)
EXTENDS Posting

CONSTANTS u1, b1, r1, r2

MCOperations == [r \in {r1, r2} |-> IF r = r1 THEN Ops ELSE {"upload", "delete", "remove"}]
MCCallers == [r \in {r1, r2} |-> IF r = r1 THEN {b1} ELSE {u1}]
=============================================================================
