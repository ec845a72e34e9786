\* analysts judge while scans are ingested and ingested again
SPECIFICATION Spec
CONSTANTS
    k1 = k1
    k2 = k2
    alice = alice
    bob = bob
    cli = cli
    scan = scan
    Keys = {k1, k2}
    Verdicts = {"open", "confirmed"}
    Results <- Unique
    Analysts = {alice, bob}
    Ingesters = {cli, scan}
    MaxIngests = 3
    MaxJudgements = 2
INVARIANTS PublishedIsWhole VerdictsSurviveQuietIngest
PROPERTY ImplementsRegistry
SYMMETRY Alike
CHECK_DEADLOCK FALSE
