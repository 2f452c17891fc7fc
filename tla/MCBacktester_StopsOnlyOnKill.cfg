CONSTANTS
    b1 = b1
    b2 = b2
    sb1 = sb1
    sym = sym
    Backtests <- MCBacktests
    SimBrokers <- MCSimBrokers
    Symbols = {sym}
    NoLimit = NoLimit
    Sink = Sink
    Defs <- MCDefs
    CtlCapacity = 5
    MaxTicks = 3
    MaxCmds = 4


SPECIFICATION Spec

INVARIANT StopsOnlyOnKill

CHECK_DEADLOCK FALSE
