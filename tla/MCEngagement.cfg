\* every policy, a target that answers each ping as it likes, a session that dies
\* between any two steps, probes that may mislead
SPECIFICATION FairSpec
CONSTANTS
    MaxCookies = 2
    Noise = {"error", "misread"}
    Configs <- AllConfigs
    Answers = {"ok", "slow", "down"}
    Roster <- MCRoster
    Pages = 1
    SqlTargets = 5
INVARIANTS GatedEnginesRespectHalt PassiveOnlyIsSilent
    EnsuredEnginesHoldSession ReportIsHonest
    NoThrashOnBlip LossIsSoonNoticed
PROPERTY Termination
\* the scan ends
CHECK_DEADLOCK FALSE
