-------------------------- MODULE MCFirstContact --------------------------
(* The instance TLC checks FirstContact on. *)
EXTENDS FirstContact, TLC

\* The peers, the conversations and the request slots are treated alike.
Symmetry == Permutations(Peers) \cup Permutations(Convs) \cup Permutations(Requests)
=============================================================================
