\* Two humans and a bot, every call, one request at a time.
CONSTANTS
    Users = {u1, u2, b1}
    Bots = {b1}
    Links = {l1}
    Requests = {r1}
    Nobody = Nobody
    MaxRoomMembers = 2
    MaxBatch = 2
    Operations = {"AddMembers", "JoinInvite", "JoinChannel", "GrantBot", "CreateInvite",
                  "RevokeInvite", "UpdateRoom", "RemoveMember", "TransferOwnership",
                  "LeaveRoom", "SetMemberRole", "DeleteAccount", "DeleteBot"}
    MayCancel = FALSE
SPECIFICATION Spec
PROPERTIES OneOwnerAtRest AudienceIsMembers OwnerStaysOwner ImplementsContract
SYMMETRY HumanSymmetry
\* The conversation stops for good once every account is deleted.
CHECK_DEADLOCK FALSE
