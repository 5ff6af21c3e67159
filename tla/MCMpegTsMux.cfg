\* The rates are the program's; the PTS wraps after 512 ticks.
SPECIFICATION Spec
CONSTANTS
    PacketSize = 35
    MaxPesBytes = 146
    Capacity = 397
    FrameCounts = {1, 2, 9, 32}
    ClockRate = 90000
    SampleRate = 48000
    PtsModulus = 512
    MaxCalls = 18
INVARIANTS
    CountersAreContinuous
    PesIsWhole
    ClockIsExact
CHECK_DEADLOCK FALSE
