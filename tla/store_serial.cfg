SPECIFICATION FairSpec
CONSTANTS
    Actors = {a1}
    VideoIds = {v1, v2}
    Refs = {r1, r2}
    NoVideo = NoVideo
    NoRef = NoRef
    MaxManifests = 3
    MaxAttempts = 1
    MaxForced = 1
    SaveModes = {TRUE, FALSE}
    Faults = {}
INVARIANTS
    ShowsNewestValid
    ModeratedHasNoManifests
    NoOrphanManifest
PROPERTY EveryManifestDecided
CHECK_DEADLOCK FALSE
