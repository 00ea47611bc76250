SPECIFICATION Spec
CONSTANTS
    Actors = {a1, a2}
    VideoIds = {v1}
    Refs = {r1, r2}
    NoVideo = NoVideo
    NoRef = NoRef
    MaxManifests = 2
    MaxAttempts = 1
    MaxForced = 0
    SaveModes = {TRUE, FALSE}
    Faults = {"request", "job"}
SYMMETRY Symmetry
INVARIANTS
    TypeOK
    ReferenceClaimedOnce
    ShownWasAccepted
PROPERTIES
    RegistrySpec
    ModerationSettles
CHECK_DEADLOCK FALSE
