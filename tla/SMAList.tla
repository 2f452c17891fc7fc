------------------------------- MODULE SMAList -------------------------------
(***************************************************************************)
(* SMAList of src/tick_parser/src/calc/sma.rs: a Vec of SimpleMovingAverage *)
(* fed by push_all(t), grown by add(period) and shrunk by remove(period).   *)
(* Each member is an SMA record; its steps are those of module SMA, taken   *)
(* through a parameterised instance with the member's own period.          *)
(***************************************************************************)
EXTENDS Integers, Sequences, SequencesExt

CONSTANTS
    Periods,    \* periods add() and remove() may be called with
    Prices,     \* bids and asks the ticks may carry
    MaxTs,      \* bound on tick timestamps
    MaxSMAs,    \* bound on the length of the list
    MaxPushes   \* bound on the number of push_all calls

ASSUME Periods \subseteq Nat /\ MaxSMAs \in Nat /\ MaxPushes \in Nat

VARIABLES
    smas,     \* SMAList.smas: one record per SimpleMovingAverage, with
              \* period, ticks and refTick as in the code and `from`, a
              \* history field: how many ticks had been pushed at its add()
    hist,     \* history: every tick given to push_all, oldest first
    status    \* "ok", or the panic of one member's push: "assert"/"unwrap"

vars == <<smas, hist, status>>

\* The SMA of period p, used for its operators only.
Member(p) == INSTANCE SMA WITH Period <- p, Prices <- Prices, MaxTs <- MaxTs,
                               ticks <- <<>>, refTick <- [bid |-> 0, ask |-> 0, ts |-> 0],
                               hist <- <<>>, result <- [op |-> "none", val |-> 0],
                               status <- "ok"

\* What spec 4.7 promises of an SMA of period p.
Promise(p) == INSTANCE SMASpec WITH Period <- p, Prices <- Prices, MaxTs <- MaxTs,
                                    hist <- <<>>, result <- [op |-> "none", val |-> 0],
                                    status <- "ok"

Tick == Member(1)!Tick
NullTick == Member(1)!NullTick

\* Member m's is_overflown() and trim(), and what spec 4.7 says its window
\* is after ticks h.  An INSTANCE argument must be constant-level, so the
\* period is bound by the set {m.period}.
OverflownIn(m, w) == \E q \in {m.period} : Member(q)!IsOverflown(w)
TrimIn(m, w) == CHOOSE r \in {Member(q)!Trim(w, NullTick) : q \in {m.period}} : TRUE
PromisedWindow(m, h) == CHOOSE r \in {Promise(q)!InPeriod(h) : q \in {m.period}} : TRUE

\* sma.push(t) on member m with its return value dropped: the out-of-order
\* assert, push_back, and the trim when overflown.
PushMember(m, t) ==
    LET w0 == Append(m.ticks, t)
        tr == IF OverflownIn(m, w0) THEN TrimIn(m, w0)
              ELSE [win |-> w0, popped |-> m.refTick, panic |-> FALSE]
    IN  CASE m.ticks # <<>> /\ t.ts <= Last(m.ticks).ts -> [sma |-> m, panic |-> "assert"]
          [] tr.panic -> [sma |-> m, panic |-> "unwrap"]
          [] OTHER -> [sma |-> [m EXCEPT !.ticks = tr.win, !.refTick = tr.popped],
                       panic |-> "none"]

\* Mutation: the loop over the members skips the first one.
PushEachFromSecond(l, t) ==
    [i \in 1..Len(l) |-> IF i = 1 THEN [sma |-> l[i], panic |-> "none"]
                         ELSE PushMember(l[i], t)]

\* for sma in smas { sma.push(t) }: every member in list order.
PushEach(l, t) == [i \in 1..Len(l) |-> PushMember(l[i], t)]

Init ==
    /\ smas = <<>>
    /\ hist = <<>>
    /\ status = "ok"

\* push_all(t): the first member whose push panics ends the thread.
PushAll(t) ==
    /\ status = "ok"
    /\ Len(hist) < MaxPushes
    /\ hist' = Append(hist, t)
    /\ LET outs == PushEach(smas, t)
           k    == SelectInSeq(outs, LAMBDA o : o.panic # "none")
       IN  IF k = 0
           THEN /\ smas' = [i \in 1..Len(smas) |-> outs[i].sma]
                /\ UNCHANGED status
           ELSE /\ status' = outs[k].panic
                /\ UNCHANGED smas

\* add(period): a fresh SimpleMovingAverage::new(period) at the back.
Add(p) ==
    /\ status = "ok"
    /\ Len(smas) < MaxSMAs
    /\ smas' = Append(smas, [period |-> p, ticks |-> <<>>, refTick |-> NullTick,
                             from |-> Len(hist)])
    /\ UNCHANGED <<hist, status>>

\* remove(period): remove the first member of that period; with none, only
\* a warning is printed.
RemoveSMA(p) ==
    /\ status = "ok"
    /\ smas' = RemoveFirstMatch(smas, LAMBDA m : m.period = p)
    /\ UNCHANGED <<hist, status>>

Next ==
    \/ \E t \in Tick : PushAll(t)
    \/ \E p \in Periods : Add(p) \/ RemoveSMA(p)

Spec == Init /\ [][Next]_vars

-----------------------------------------------------------------------------
TypeOK ==
    /\ smas \in Seq([period : Periods, ticks : Seq(Tick), refTick : Tick \cup {NullTick},
                     from : 0..MaxPushes])
    /\ hist \in Seq(Tick)
    /\ status \in {"ok", "assert", "unwrap"}

\* The ticks member m has been given: those pushed since its add().
SeenBy(m) == SubSeq(hist, m.from + 1, Len(hist))

\* Every member of the list, whenever it was added and whatever was added
\* or removed around it, holds the state a lone SimpleMovingAverage of its
\* period would hold after the ticks pushed since its add(): its window is
\* exactly the ticks of its trailing period (SMASpec's InPeriod), and
\* ref_tick is the tick just before the window, or Tick::null() when
\* nothing was evicted yet.  Vec::remove shifting the members, and a
\* member added mid-stream, must not mix up whose ticks are whose.
MembersFollowStream ==
    status = "ok" =>
        \A i \in 1..Len(smas) :
            LET m == smas[i]
                s == SeenBy(m)
            IN  /\ s # <<>> => m.ticks = PromisedWindow(m, s)
                /\ s = <<>> => m.ticks = <<>>
                /\ m.refTick = IF Len(s) > Len(m.ticks)
                               THEN s[Len(s) - Len(m.ticks)] ELSE NullTick

=============================================================================
