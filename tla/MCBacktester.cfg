CONSTANTS
    b1 = b1
    b2 = b2
    sb1 = sb1
    sym = sym
    Backtests <- MCBacktests
    SimBrokers <- MCSimBrokers
    Symbols = {sym}
    NoLimit = NoLimit
    Sink = Sink
    Defs <- MCDefs
    CtlCapacity = 5
    MaxTicks = 3
    MaxCmds = 7

SPECIFICATION Spec

INVARIANT TypeOK
INVARIANT TickLimitsRespected
PROPERTY EarlyExitStopsSource
PROPERTY ResumedBacktestReachesLimit

\* The process ends on Kill, on a malformed message and on a duplicate
\* SimBroker stream; the controller's command budget also runs out.
CHECK_DEADLOCK FALSE
