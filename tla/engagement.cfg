SPECIFICATION Spec
CONSTANTS
    Actors = {a1, a2}
    Persons = {p1, p2}
    VideoIds = {v1}
    None = None
    MaxUsers = 2
    MaxVotes = 2
    MaxComments = 1
    MaxEditHistory = 2
    SaveModes = {TRUE, FALSE}
    Crashes = TRUE
SYMMETRY Symmetry
INVARIANTS
    TypeOK
    OneVotePerPerson
    TracesRemoved
PROPERTIES
    TotalsHeal
    VoteTakesEffect
    RemovalIsFinal
