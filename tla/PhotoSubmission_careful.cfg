CONSTANTS
    u1 = u1
    u2 = u2
    k1 = k1
    k2 = k2
    first = first
    again = again
    other = other
    rival = rival
    Uploads = {u1, u2}
    Requests = {first, again, other, rival}
    Keys = {k1, k2}
    KeyOf <- Key
    PhotosOf <- Photos
    NoKey = NoKey
    NoRequest = NoRequest
SPECIFICATION SpecCareful
INVARIANTS LinkedMediaIsStored RepeatsAgree ConflictTold
PROPERTY PhotoSpec
