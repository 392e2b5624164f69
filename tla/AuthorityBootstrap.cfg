SPECIFICATION MCSpec
CONSTANTS
    Parts = {"grants"}
    MaxTime = 0
    MaxProfiles = 1
    MaxChanges = 0
    Caps = {4}
    FirstStatus = {"ACTIVE"}
    NextStatus = {"SUSPENDED", "REVOKED"}
    RecurrenceThreshold = 2
    TrustedEpisodes <- MCEpisodes
    NoCode = NoCode
    MaxRecoveries = 1
    MaxGrants = 1
    FirstBindings = {2}
    MaxRuns = 1
    WindowSize = 3
    Agent = a
    Reserved = 4
    CanaryBudget = 1
    Environment = {}
PROPERTY ColdStartActs
