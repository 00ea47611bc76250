SPECIFICATION Spec
CONSTANTS
    Actors = {a1, a2}
    VideoIds = {v1, v2}
    NoVideo = NoVideo
    MaxManifests = 1
    MaxComments = 0
    MaxRuns = 2
    Faults = {"crash", "lost write", "lost removal"}
SYMMETRY Symmetry
PROPERTIES
    TaskReconciles
    RebuildRestoresMapping
    FreshAreKept
    CatalogSpec
    WithdrawnStayOut
CHECK_DEADLOCK FALSE
