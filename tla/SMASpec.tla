------------------------------- MODULE SMASpec -------------------------------
(***************************************************************************)
(* What the time-weighted moving average of spec 4.7 promises, stated over *)
(* the history of ticks pushed and without a window or a reference tick:   *)
(* a push of a tick later than every earlier one returns, when it is the   *)
(* only tick of the trailing period, that tick's mid (push_tick: the tick  *)
(* itself); otherwise the average over every time unit of the trailing     *)
(* period of the price in force at that unit.  A tick not later than the   *)
(* last one is detected (spec property 10): the stream stops there.        *)
(***************************************************************************)
EXTENDS Integers, Sequences, SequencesExt, FiniteSetsExt

CONSTANTS Period, Prices, MaxTs

VARIABLES
    hist,     \* every tick pushed, oldest first
    result,   \* what the last push or push_tick returned
    status    \* "ok", or "assert" once an out-of-order tick was detected

Tick == [bid : Prices, ask : Prices, ts : 1..MaxTs]

Mid(t) == (t.bid + t.ask) \div 2

Price(t, f) == CASE f = "mid" -> Mid(t) [] f = "bid" -> t.bid [] f = "ask" -> t.ask

\* The ticks of h inside the trailing period of its last tick.
InPeriod(h) == SelectSeq(h, LAMBDA x : Last(h).ts - x.ts < Period)

\* The price in force at time unit s: that of the last tick at or before s.
PriceAt(h, s) == h[SelectLastInSeq(h, LAMBDA x : x.ts <= s)]

\* The average, over the time units of [back - Period, back) that some tick
\* of h covers, of the price f in force at each.
TWAP(h, f) ==
    LET back == Last(h).ts
        lo   == IF back - Period > h[1].ts THEN back - Period ELSE h[1].ts
    IN  IF lo = back THEN Price(Last(h), f)
        ELSE MapThenSumSet(LAMBDA s : Price(PriceAt(h, s), f), lo..(back - 1))
               \div (back - lo)

\* The value a push ("push") or push_tick ("push_tick") returns after h.
Value(h, op) ==
    LET single == Len(InPeriod(h)) = 1
    IN  CASE op = "push"      /\ single  -> Mid(Last(h))
          [] op = "push"      /\ ~single -> TWAP(h, "mid")
          [] op = "push_tick" /\ single  -> Last(h)
          [] op = "push_tick" /\ ~single ->
                 [bid |-> TWAP(h, "bid"), ask |-> TWAP(h, "ask"), ts |-> Last(h).ts]

Init ==
    /\ hist = <<>>
    /\ result = [op |-> "none", val |-> 0]
    /\ status = "ok"

\* One call of op with tick t.
Call(t, op) ==
    /\ status = "ok"
    /\ hist' = Append(hist, t)
    /\ IF hist # <<>> /\ t.ts <= Last(hist).ts
       THEN status' = "assert" /\ UNCHANGED result
       ELSE result' = [op |-> op, val |-> Value(hist', op)] /\ UNCHANGED status

Next == \E t \in Tick, op \in {"push", "push_tick"} : Call(t, op)

Spec == Init /\ [][Next]_<<hist, result, status>>

=============================================================================
