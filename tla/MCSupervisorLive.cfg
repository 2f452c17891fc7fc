CONSTANTS
    s = s
    c1 = c1
    c2 = c2
    x1 = x1
    Self <- s
    Children <- MCChildren
    MM <- c1
    Stragglers <- MCStragglers
    NoInstance = NoInstance
    ControllerCmds = {"Spawn", "KillAllInstances", "Kill", "Query"}
    MaxCmds = 1

SPECIFICATION Spec

PROPERTY DeadEventuallyDeregistered

\* The spawner process exits on Kill; after that only its children act and
\* once they have died nothing is enabled.
CHECK_DEADLOCK FALSE
