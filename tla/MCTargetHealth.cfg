SPECIFICATION HSpec
CONSTANT MaxPings = 8
INVARIANT AlarmFitsHistory
PROPERTY NeverDeeperAgain
\* a halted monitor never pings again, and pings are bounded
CHECK_DEADLOCK FALSE
