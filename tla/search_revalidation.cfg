SPECIFICATION Spec
CONSTANTS
    Actors = {a1}
    VideoIds = {v1}
    NoVideo = NoVideo
    MaxManifests = 1
    MaxComments = 0
    MaxRuns = 0
    Faults = {}
INVARIANT InSync
CHECK_DEADLOCK FALSE
