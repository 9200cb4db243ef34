SPECIFICATION FairSpec
CONSTANTS
    Callers = {c1, c2}
    Children = {k1, k2, k3}
    Foreigners = {TRUE, FALSE}
    None = None
INVARIANTS
    NoStray
PROPERTIES
    AnswersAreTrue
    CommandsEnd
CHECK_DEADLOCK FALSE
