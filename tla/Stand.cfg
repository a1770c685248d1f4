SPECIFICATION FairStandSpec
CONSTANTS
    None = None
    Request = Request
    Callers = {Request}
    Numbers <- MCNumbers
    Attempts = 2
    v1 = v1
    v2 = v2
    Variants = {v1, v2}
    Demo = v1
    StartStates <- MCStartStates
    StartData <- MCStartData
    Polls = {poll}
    Own = own
    MaxChanges = 2
INVARIANTS
    StandTypeOK
PROPERTIES
    AnswerWasHeld
    EventuallyTrue
