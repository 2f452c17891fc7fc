\* SimpleMovingAverage over in-order and out-of-order ticks: period 3,
\* timestamps up to 6 (gaps shorter and longer than the period), two prices.
SPECIFICATION Spec
CONSTANTS
    Period = 3
    Prices = {1, 3}
    MaxTs = 6
INVARIANT WindowWellFormed
\* The window and ref_tick refine the history-only promise of spec 4.7.
PROPERTY ImplementsSMASpec
\* The thread stops after a panic (out-of-order tick) and when the bounded
\* timestamps run out.
CHECK_DEADLOCK FALSE
