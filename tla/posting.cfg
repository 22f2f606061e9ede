SPECIFICATION Spec
CONSTANTS
    u1 = u1
    b1 = b1
    r1 = r1
    r2 = r2
    Users = {u1, b1}
    Bots = {b1}
    Changed = {b1}
    Grants = {{}, {"read", "send", "messages"}}
    Kinds = {"direct", "channel"}
    Messages = {m1}
    Files = {f1}
    Marked = {"direct"}
    Texts = {t1, t2}
    Requests = {r1, r2}
    None = none
    Operations <- MCOperations
    Callers <- MCCallers
    Leavers = {u1}
INVARIANTS FilesAreTheSenders RowHasBlob
PROPERTIES  DeletedStaysDeleted
