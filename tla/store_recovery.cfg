SPECIFICATION Spec
CONSTANTS
    Actors = {a1}
    VideoIds = {v1, v2}
    Refs = {r1, r2}
    NoVideo = NoVideo
    NoRef = NoRef
    MaxManifests = 2
    MaxAttempts = 2
    MaxForced = 1
    SaveModes = {TRUE, FALSE}
    Faults = {"request", "job"}
SYMMETRY Symmetry
INVARIANTS
    ListsOwnManifests
    NeverShowsOlder
PROPERTIES
    RegistrySpec
    ModerationIsFinal
    PublishedSpec
CHECK_DEADLOCK FALSE
