\* a CPU probe that always answers, a window of two polls and a ceiling of six
SPECIFICATION WSpec
CONSTANTS
    Stall = 2
    Ceiling = 6
    Grace = 2
    Blind = FALSE
    Leavers = TRUE
    Container = FALSE
INVARIANTS BusyIsSpared HungIsNoticed
CHECK_DEADLOCK FALSE
