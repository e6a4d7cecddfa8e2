\* Every endpoint, two accounts, one retry, three frames.
SPECIFICATION Spec
CONSTANTS
    Accounts = {a1, a2}
    Scenarios <- MCScenarios
    Outages = {"rate", "blocked", "forbidden", "server"}
    RetryCodes = {"rate"}
    MaxRetries = 1
    MaxFrames = 3
    EnglishVotes = 2
    PendingLimit = 2
    None = None
INVARIANTS TextFaithful EndMark AttemptsAccounted PlainBlocksNest SummaryInOrder
PROPERTIES RequestEnds
