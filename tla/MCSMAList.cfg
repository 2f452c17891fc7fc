\* SMAList with members of periods 1 and 3 (a window of one tick and one
\* of several), up to three members (duplicates included), five push_all
\* calls with timestamps up to 5 and one price: the windows do not depend
\* on prices.
SPECIFICATION Spec
CONSTANTS
    Periods = {1, 3}
    Prices = {1}
    MaxTs = 5
    MaxSMAs = 3
    MaxPushes = 5
INVARIANT MembersFollowStream
\* The thread stops after a panic and once the push bound is spent with
\* the list full.
CHECK_DEADLOCK FALSE
