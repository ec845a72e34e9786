\* base 0.1 s, cap 5 s (64 ticks per 0.1 s): the depth suite at 10 requests per second or more
SPECIFICATION TFairSpec
CONSTANTS
    Base = 64
    Cap = 3200
    Quarter = 160
    MaxBackoffs = 9
PROPERTIES StressNeverSpeedsUp RelaxationIsEarned ReturnsToBase
