\* The single-tick return after an eviction, against the reference average.
SPECIFICATION Spec
CONSTANTS
    Period = 3
    Prices = {1, 3}
    MaxTs = 6
INVARIANT PushIsTWAP
CHECK_DEADLOCK FALSE
