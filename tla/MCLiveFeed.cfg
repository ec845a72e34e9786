\* two scans on one host
SPECIFICATION LFairSpec
CONSTANTS
    lab = lab
    shop = shop
    Absent = Absent
    Scans = {lab, shop}
    Pids = {11, 12}
    Pid <- OneHost
    Fresh = 2
    MaxSteps = 2
INVARIANTS LTypeOK RecordIsLatest
PROPERTY GhostsFade
CHECK_DEADLOCK FALSE
