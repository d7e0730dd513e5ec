SPECIFICATION DesktopSpec
CONSTANTS
    i1 = i1
    i2 = i2
    w1 = w1
    w2 = w2
    p1 = p1
    p2 = p2
    Inferences = {i1, i2}
    Switches = {w1, w2}
    MaxAttempts = 3
    Procs = {p1, p2}
    Detailed = p1
    NoProc = NoProc
INVARIANTS TypeOK StatusTellsTruth GivesUpOnlyUnreachable RunningIsKnown StoppedIsOff
PROPERTIES NoSilentLoss ToldIdle KeepsTrying
