SPECIFICATION Spec
CONSTANTS
    t1 = t1
    t2 = t2
    Thread = {t1}
    Inbox = Inbox
    Junk = Junk
    Trash = Trash
    Folder = {Inbox, Junk, Trash}
    Seen = Seen
    Flagged = Seen
    Deleted = Deleted
    Flag = {Seen, Deleted}
    Nowhere = Nowhere
    Msg = {1, 2}
    UidOf <- MCUidOf
    Rank <- MCRank
    Early = {1, 2}
    FlagSets <- MCFlagSets
    MaxChanges = 1
PROPERTIES
    RemainingIndicesValid
