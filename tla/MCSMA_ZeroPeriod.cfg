\* SimpleMovingAverage::new(0), as SMAList::add(0) creates it.
SPECIFICATION Spec
CONSTANTS
    Period = 0
    Prices = {1, 3}
    MaxTs = 3
INVARIANT NeverUnwrapsEmpty
CHECK_DEADLOCK FALSE
