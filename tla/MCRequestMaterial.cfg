SPECIFICATION Spec
CONSTANTS
    Calls = {c1, c2, c3}
    Requester = Requester
    Approver = Approver
    Admin = Admin
    Stranger = Stranger
    System = System
    None = None
    First = First
    Earlier = Earlier
    Elsewhere = Elsewhere
    MaxFaults = 1
SYMMETRY CallSymmetry
INVARIANTS ListedHasFile ReplacedIsGone OrphanOnlyByFault OnlyPartiesWrite RepliesBeforeRemoval
    PatchSurvives
