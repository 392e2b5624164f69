SPECIFICATION MCSpec
CONSTANTS
    Parts = {"profiles", "grants", "trajectory"}
    MaxTime = 1
    MaxProfiles = 2
    MaxChanges = 2
    Caps = {4}
    FirstStatus = {"ACTIVE"}
    NextStatus = {"SUSPENDED", "REVOKED"}
    RecurrenceThreshold = 2
    TrustedEpisodes <- MCEpisodes
    NoCode = NoCode
    MaxRecoveries = 2
    MaxGrants = 1
    FirstBindings = {2, 3, 4}
    MaxRuns = 3
    WindowSize = 3
    Agent = a
    Reserved = 4
    CanaryBudget = 1
    Environment = {"flag", "policy", "others"}
INVARIANT AuthorityTypeOK
INVARIANT RevocationIsFinal
INVARIANT DenialsLeaveNoTrace
INVARIANT OneProbePerRecovery
INVARIANT EvaluationsAreReproducible
INVARIANT BindingIsEarned
PROPERTY NoStaleDispatch
PROPERTY PastIsFixed
PROPERTY FirstIsCanary
PROPERTY NeverDowngraded
PROPERTY RepeatedFailuresStop
