CONSTANTS
    u1 = u1
    u2 = u2
    k1 = k1
    k2 = k2
    first = first
    again = again
    other = other
    rival = rival
    Uploads = {u1, u2}
    Requests = {first, other, rival}
    Keys = {k1, k2}
    KeyOf <- RaceKey
    PhotosOf <- RacePhotos
    NoKey = NoKey
    NoRequest = NoRequest
SPECIFICATION FairSpec
INVARIANTS ObservationWhole
PROPERTY ExpiredOrphansGo
