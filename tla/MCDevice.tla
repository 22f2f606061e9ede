------------------------------ MODULE MCDevice ------------------------------
EXTENDS Device, TLC

\* Tasks are interchangeable, and so are the rows.
Symmetry == Permutations(Tasks) \cup Permutations(Sessions)

\* What a call that has ended leaves in its task is not read again.
View == <<server, storage, alone, [t \in Tasks |-> IF UnderWay(t) THEN task[t] ELSE Blank]>>

=============================================================================
