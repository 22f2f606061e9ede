\* Two messages, the first encrypted and perhaps the user's; a page holds one.
CONSTANTS
    MaxMessages = 2
    PageSize = 1
    Slots = 1
    l1 = l1
    Loads = {l1}
    Encrypted = {1}
    Own = {1}
    Deletable = {1}
SPECIFICATION Spec
INVARIANTS CacheTypeOK NothingMissed TextIsNotLost
PROPERTIES GoneStaysGone
