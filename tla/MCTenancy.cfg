SPECIFICATION Spec
CONSTANTS
    Calls = {c1, c2, c3}
    First = First
    Users = {First, c1, c2, c3}
    Own = Own
    Other = Other
    None = None
    Ttl = 1
    MaxFaults = 1
SYMMETRY CallSymmetry
INVARIANTS AcceptedHasOwnProfile AcceptedWithLastToken RevokedAccountOnlyByOverlap
    RevocationTakesEffect ErasedIsBanned
