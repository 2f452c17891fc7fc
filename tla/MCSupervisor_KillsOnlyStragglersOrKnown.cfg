CONSTANTS
    s = s
    c1 = c1
    c2 = c2
    x1 = x1
    Self <- s
    Children <- MCChildren
    MM <- c1
    Stragglers <- MCStragglers
    NoInstance = NoInstance
    ControllerCmds = {"Spawn", "KillAllInstances", "Kill", "Query"}
    MaxCmds = 3

SPECIFICATION Spec

INVARIANT KillsOnlyStragglersOrKnown

CHECK_DEADLOCK FALSE
