SPECIFICATION Spec
CONSTANTS
    Actors = {a1, a2}
    VideoIds = {v1}
    NoVideo = NoVideo
    MaxManifests = 1
    MaxComments = 0
    MaxRuns = 1
    Faults = {}
PROPERTY RefreshedAreKept
CHECK_DEADLOCK FALSE
