SPECIFICATION FairSpec
CONSTANTS
    Actors = {a1}
    VideoIds = {v1}
    Refs = {r1, r2}
    NoVideo = NoVideo
    NoRef = NoRef
    MaxManifests = 2
    MaxAttempts = 1
    MaxForced = 0
    SaveModes = {TRUE, FALSE}
    Faults = {"request", "job"}
PROPERTY EveryManifestDecided
CHECK_DEADLOCK FALSE
