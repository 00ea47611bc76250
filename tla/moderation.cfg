SPECIFICATION Spec
CONSTANTS
    Actors = {a1, a2}
    Persons = {p1, p2}
    VideoIds = {v1}
    None = None
    MaxManifests = 1
    MaxReports = 2
    SaveModes = {TRUE, FALSE}
    Crashes = TRUE
SYMMETRY Symmetry
INVARIANTS
    TypeOK
    ReportedOnce
PROPERTIES
    ReviewTakesEffect
    ArchivedStays
    RecordsSurvive
CHECK_DEADLOCK FALSE
