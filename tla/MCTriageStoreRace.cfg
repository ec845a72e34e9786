\* an analyst judges between the snapshot and the wipe
SPECIFICATION Spec
CONSTANTS
    k1 = k1
    k2 = k2
    alice = alice
    bob = bob
    cli = cli
    scan = scan
    Keys = {k1, k2}
    Verdicts = {"open", "confirmed"}
    Results <- Unique
    Analysts = {alice}
    Ingesters = {cli}
    MaxIngests = 2
    MaxJudgements = 1
INVARIANT VerdictsSurvive
CHECK_DEADLOCK FALSE
