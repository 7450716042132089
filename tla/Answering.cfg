SPECIFICATION Spec
CONSTANTS
    None = None
    Index <- Blocks01
    MaxItems = 2
    MaxPieces = 2
    MaxCount = 5
    Requests = 2
    MaxEvents = 9
    ReplyStatus <- Statuses
    ErrorCode <- Codes
    Value <- Answers
    Event <- Streamed
    Price <- Rates
    Denominator = 4
    Tokens <- Reserved
CHECK_DEADLOCK FALSE
INVARIANTS   CostIsCovered
