\* Three requests of two users behind one address, and a minute that ends.
SPECIFICATION BoundedSpec
CONSTANTS
    Users = {u1, u2}
    Avatars = {a1, a2}
    Requests = {r1, r2, r3}
    NoAvatar = NoAvatar
    MaxFaults = 1
    Addresses = {x1}
    RateLimit = 2
    UploadLimit = 1
    MaxWindows = 1
    FormUsers = {u2}
    MaxEvents = 3
SYMMETRY Alike
INVARIANT ApiTypeOK
INVARIANT AnswersMatchEffects
INVARIANT RefusalsAreTruthful
INVARIANT CurrentMeansLatest
INVARIANT AdmissionIsBounded
CHECK_DEADLOCK FALSE
