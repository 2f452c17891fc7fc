--------------------------------- MODULE SMA --------------------------------
(***************************************************************************)
(* SimpleMovingAverage of src/tick_parser/src/calc/sma.rs: a time-weighted *)
(* average of a stream of ticks over a trailing window of Period timestamp *)
(* units.  The window is a VecDeque of ticks; ref_tick is the last tick    *)
(* trimmed out of it (Tick::null(), bid 0, while there is none).  push()   *)
(* returns the average of the mids, push_tick() a tick holding the         *)
(* averages of the bids and of the asks.  Each is checked against a        *)
(* reference: the average, over every time unit of the window, of the      *)
(* price in force at that time unit, computed from the whole history.      *)
(***************************************************************************)
EXTENDS Integers, Sequences, SequencesExt, FiniteSetsExt

CONSTANTS
    Period,   \* SimpleMovingAverage.period
    Prices,   \* bids and asks the ticks may carry
    MaxTs     \* bound on tick timestamps

ASSUME Period \in Nat /\ Prices \subseteq Nat /\ MaxTs \in Nat

VARIABLES
    ticks,    \* the window: SimpleMovingAverage.ticks, oldest first
    refTick,  \* SimpleMovingAverage.ref_tick
    hist,     \* history: every tick pushed, oldest first
    result,   \* what the last push / push_tick returned
    status    \* "ok", or the panic that ended the thread: "assert"
              \* (out-of-order tick) or "unwrap" (back() of an empty deque)

vars == <<ticks, refTick, hist, result, status>>

Tick == [bid : Prices, ask : Prices, ts : 1..MaxTs]

\* Tick::null(), and Tick::mid() (algobot_util, from spec 3).
NullTick == [bid |-> 0, ask |-> 0, ts |-> 0]
Mid(t) == (t.bid + t.ask) \div 2

\* The price average() reads ("mid") and the two average_tick() reads.
Price(t, f) == CASE f = "mid" -> Mid(t) [] f = "bid" -> t.bid [] f = "ask" -> t.ask

-----------------------------------------------------------------------------
(* The algorithm, translated from SimpleMovingAverage.                      *)

\* is_overflown(): back and front at least a period apart.
IsOverflown(w) == Last(w).ts - Head(w).ts >= Period

\* A trim that pops at most one tick (an `if` where the code has `while`).
TrimOnce(w, t) ==
    IF w = <<>> THEN [win |-> w, popped |-> t, panic |-> TRUE]
    ELSE IF IsOverflown(w) THEN [win |-> Tail(w), popped |-> Head(w), panic |-> FALSE]
    ELSE [win |-> w, popped |-> t, panic |-> FALSE]

\* trim(): pop the front while the window is overflown; the result is the
\* window, the last tick popped, and whether is_overflown() was called on
\* an empty deque (the unwrap panics).
RECURSIVE Trim(_, _)
Trim(w, t) ==
    IF w = <<>> THEN [win |-> w, popped |-> t, panic |-> TRUE]
    ELSE IF IsOverflown(w) THEN Trim(Tail(w), Head(w))
    ELSE [win |-> w, popped |-> t, panic |-> FALSE]

\* An average that leaves out the ref_tick term.
AverageNoRef(w, r, f) ==
    LET gaps == 1..(Len(w) - 1)
    IN  MapThenSumSet(LAMBDA i : Price(w[i], f) * (w[i + 1].ts - w[i].ts), gaps)
          \div MapThenSumSet(LAMBDA i : w[i + 1].ts - w[i].ts, gaps)

\* average() with f = "mid", and each half of average_tick() with f = "bid"
\* or "ask": the price of each window tick weighted by the time to the next one,
\* plus ref_tick's price over the rest of the period when there is one.
Average(w, r, f) ==
    LET gaps == 1..(Len(w) - 1)
        pSum == MapThenSumSet(LAMBDA i : Price(w[i], f) * (w[i + 1].ts - w[i].ts), gaps)
        tSum == MapThenSumSet(LAMBDA i : w[i + 1].ts - w[i].ts, gaps)
    IN  IF r.bid # 0
        THEN (pSum + (Period - tSum) * Price(r, f)) \div Period
        ELSE pSum \div tSum

\* average_tick(): a tick of the averaged bids and asks at the back's time.
AverageTick(w, r) ==
    [bid |-> Average(w, r, "bid"), ask |-> Average(w, r, "ask"), ts |-> Last(w).ts]

\* What push() (op "push") and push_tick() return: for a single tick left in
\* the window its mid, or the tick itself; otherwise average() or
\* average_tick().
Returned(w, r, op) ==
    CASE op = "push"      /\ Len(w) = 1 -> Mid(w[1])
      [] op = "push"      /\ Len(w) > 1 -> Average(w, r, "mid")
      [] op = "push_tick" /\ Len(w) = 1 -> w[1]
      [] op = "push_tick" /\ Len(w) > 1 -> AverageTick(w, r)

\* The steps push() and push_tick() share: the out-of-order assert, the
\* push_back, and the trim when overflown; Returned(w, r, op) is what the
\* call returns.
PushWith(t, op) ==
    IF ticks # <<>> /\ t.ts <= Last(ticks).ts
    THEN /\ status' = "assert"
         /\ UNCHANGED <<ticks, refTick, result>>
    ELSE LET w0 == Append(ticks, t)
             tr == IF IsOverflown(w0) THEN Trim(w0, NullTick)
                   ELSE [win |-> w0, popped |-> refTick, panic |-> FALSE]
         IN  IF tr.panic
             THEN /\ status' = "unwrap"
                  /\ UNCHANGED <<ticks, refTick, result>>
             ELSE /\ ticks' = tr.win
                  /\ refTick' = tr.popped
                  /\ result' = [op |-> op, val |-> Returned(tr.win, tr.popped, op)]
                  /\ UNCHANGED status


-----------------------------------------------------------------------------
Init ==
    /\ ticks = <<>>
    /\ refTick = NullTick
    /\ hist = <<>>
    /\ result = [op |-> "none", val |-> 0]
    /\ status = "ok"

\* push(t): returns the average of the mids.
Push(t) ==
    /\ status = "ok"
    /\ hist' = Append(hist, t)
    /\ PushWith(t, "push")

\* push_tick(t): returns the averaged tick.
PushTick(t) ==
    /\ status = "ok"
    /\ hist' = Append(hist, t)
    /\ PushWith(t, "push_tick")

Next == \E t \in Tick : Push(t) \/ PushTick(t)

Spec == Init /\ [][Next]_vars

-----------------------------------------------------------------------------
(* The promise of spec 4.7 (module SMASpec) over the same history: the     *)
(* window and ref_tick are hidden, the history, the results and the panic  *)
(* status are the abstract ones.                                           *)

Abs == INSTANCE SMASpec WITH Period <- Period, Prices <- Prices, MaxTs <- MaxTs,
                             hist <- hist, result <- result, status <- status

\* The last result, compared with the time-weighted average of the trailing
\* period over the whole history (SMASpec's TWAP), with no single-tick case.
ResultIsTWAP ==
    \/ result.op = "none"
    \/ result.op = "push" /\ result.val = Abs!TWAP(hist, "mid")
    \/ result.op = "push_tick"
       /\ result.val = [bid |-> Abs!TWAP(hist, "bid"), ask |-> Abs!TWAP(hist, "ask"),
                        ts |-> Last(hist).ts]

StrictlyIncreasing(w) == \A i \in 1..(Len(w) - 1) : w[i].ts < w[i + 1].ts

\* The window after every push/push_tick that returned (trim() ran to
\* completion): a run of the latest ticks in timestamp order spanning less
\* than a period, and ref_tick, when set, is the tick pushed just before
\* the window's front and lies a full period or more before its back.  This
\* is what average() relies on: Period - t_sum is never negative and the
\* ref_tick price covers exactly the part of the period before the front.
WindowWellFormed ==
    status = "ok" =>
        /\ ticks \in Seq(Tick)
        /\ StrictlyIncreasing(ticks)
        /\ IsSuffix(ticks, hist)
        /\ ticks # <<>> => Last(ticks).ts - Head(ticks).ts < Period
        /\ refTick # NullTick =>
              /\ ticks # <<>>
              /\ refTick.ts <= Last(ticks).ts - Period
              /\ hist[Len(hist) - Len(ticks)] = refTick

\* SimpleMovingAverage implements spec 4.7: every push/push_tick of an
\* in-order tick returns what SMASpec says for the history so far (its
\* mid when it is alone in the trailing period, else the time-weighted
\* average including the evicted ref_tick's share), and an out-of-order
\* tick stops the stream through push's assert, for every history of
\* ticks, including gaps longer than the period.
ImplementsSMASpec == Abs!Spec

\* Every value push()/push_tick() returns is the time-weighted average of
\* the trailing period, also when trim() leaves a single tick in the
\* window after evicting older ones (sma.rs 114-116 then return that
\* tick's price and ignore ref_tick).
PushIsTWAP == status = "ok" => ResultIsTWAP

\* A push of in-order ticks never panics in is_overflown()'s unwrap: for
\* SimpleMovingAverage::new(0), trim() empties the window and calls
\* back().unwrap() on the empty deque.
NeverUnwrapsEmpty == status # "unwrap"

=============================================================================
