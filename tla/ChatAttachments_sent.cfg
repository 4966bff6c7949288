CONSTANTS
    u1 = u1
    w1 = w1
    k1 = k1
    k2 = k2
    first = first
    again = again
    other = other
    bare = bare
    Uploads = {u1}
    Keys = {k1, k2}
    Requests = {first, again, bare, other}
    KeyOf <- Key
    UploadsOf <- Attach
    Sweepers = {w1}
    NoKey = NoKey
    NoUpload = NoUpload
SPECIFICATION FairSpec
INVARIANTS AttachmentsStored FilesHaveOwners
PROPERTIES ConversationSpec RepeatsAnswered ExpiredUploadsGo
CHECK_DEADLOCK FALSE
