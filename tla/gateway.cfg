CONSTANTS
    Callers = {c1, c2}
    Priorities = {0, 1, 2}
    MaxJobs = 3
    MaxBackoffs = 1
SPECIFICATION Spec
INVARIANTS
    TypeOK
    NoOvertaking
    AnswersAreTrue
PROPERTIES
    JobsSettle
CHECK_DEADLOCK FALSE
