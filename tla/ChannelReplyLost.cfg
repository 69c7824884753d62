SPECIFICATION FairSpec
CONSTANTS
    approval1 = approval1
    approval2 = approval2
    question = question
    Requests <- MCRequests
    Questions <- MCQuestions
    MaxMessages = 3
    MaxForeign = 2
PROPERTY
    TurnsEnd
CHECK_DEADLOCK FALSE
