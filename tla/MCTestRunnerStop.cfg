SPECIFICATION RunnerSpec
CONSTANTS
    s1 = s1
    s2 = s2
    Runs = {s1, s2}
    NBatches <- MCBatches
    Tags = {t1}
    MaxStops = 1
    NoRun = NoRun
INVARIANTS
    EveryStopCounts
