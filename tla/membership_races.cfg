\* Two humans and a bot, two requests at once, cancelled anywhere: additions, invites, transfers, deleted
\* accounts.
CONSTANTS
    Users = {u1, u2, b1}
    Bots = {b1}
    Links = {l1}
    Requests = {r1, r2}
    Nobody = Nobody
    MaxRoomMembers = 3
    MaxBatch = 1
    Operations = {"AddMembers", "JoinInvite", "CreateInvite", "RevokeInvite",
                  "DeleteAccount", "TransferOwnership"}
    MayCancel = TRUE
SPECIFICATION Spec
INVARIANTS DirectPair
PROPERTIES SealedStaysSealed OrphanStaysOrphan
SYMMETRY HumanSymmetry
CHECK_DEADLOCK FALSE
