SPECIFICATION Spec
CONSTANTS
    MaxInterval = 2
    Timeout = 4
    RequestTimeout = 1
    Urls = 2
    MaxTime = 16
    MaxErrors = 2
    MaxAttempts = 3
    MaxDelay = 1
    MaxReferences = 1
INVARIANTS
    TypeOK
    DecidedInTime
    AnswerCollected
    SubmittedInTime
