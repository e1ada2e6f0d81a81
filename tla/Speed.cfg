SPECIFICATION Spec
CONSTANTS
    Limit = 32
    Kilo = 4
    Surveys <- MCSurveys
    Times = {0, 1}
INVARIANTS
    TypeOK
    NothingReadTwice
    SpansTheDrive
    NoZoneIsLonger
    StatusIsEarned
    HeadlinesAreRight
CHECK_DEADLOCK FALSE
