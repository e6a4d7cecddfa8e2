\* A chat stream that fails in band after text, and its retry.
SPECIFICATION Spec
CONSTANTS
    Accounts = {a1, a2}
    Scenarios <- MCChat
    Outages = {"rate", "blocked", "forbidden", "server"}
    RetryCodes = {"rate"}
    MaxRetries = 1
    MaxFrames = 3
    EnglishVotes = 2
    PendingLimit = 2
    None = None
INVARIANTS RetryIsTransparent
