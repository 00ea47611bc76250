SPECIFICATION FairSpec
CONSTANTS
    Actors = {a1}
    VideoIds = {v1, v2}
    NoVideo = NoVideo
    MaxManifests = 2
    MaxComments = 1
    MaxRuns = 1
    Faults = {}
    IntValues = 32
    ResultWindow = 12
    MaxIndexedComments = 2
    MaxIndexedCommentsTotalChars = 2
    MaxTotal = 14
    MaxTake = 6
INVARIANTS
    TypeOK
    AnnouncedInSync
PROPERTIES
    SearchableEventually
    WithdrawnGoesForGood
    PagesShowAll
    IndexesNewestComments
CHECK_DEADLOCK FALSE
