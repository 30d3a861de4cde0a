SPECIFICATION Spec
CONSTANTS
    Workers = {k1}
    Nobody = nobody
    MaxMsgs = 3
    MaxAborts = 1
    MaxRetries = 1
    MinimumScore = 1
    MaxScore = 2
    MaxFound = 2
INVARIANT
    NoticeOnce
