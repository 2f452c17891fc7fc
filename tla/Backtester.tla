----------------------------- MODULE Backtester ----------------------------
(***************************************************************************)
(* The backtester process of src/backtester/src/main.rs.                    *)
(*                                                                         *)
(* The main thread runs Backtester::listen(): it handles one command at a  *)
(* time, and start_backtest() wires a tick source (data.rs, modelled from  *)
(* the spec) to a destination.  For a sink destination a pump future runs *)
(* for_each over the tick stream, delivering each tick and checking       *)
(* check_early_exit(); for a SimBroker destination the stream is handed to *)
(* the SimBroker.  The source thread reads Pause/Resume/Stop from the      *)
(* backtest's control channel, written by the handle (listener) and by    *)
(* the pump on early exit.                                                 *)
(***************************************************************************)
EXTENDS Naturals, Sequences, FiniteSets

CONSTANTS
    Backtests,    \* uuids Uuid::new_v4() may mint for backtests
    SimBrokers,   \* uuids Uuid::new_v4() may mint for SimBrokers
    Symbols,      \* symbols a definition may name
    NoLimit,      \* model value: an Option<usize> limit that is None
    Sink,         \* model value: DataDest RedisChannel, Console or Null
    Defs,         \* the BacktestDefinitions the controller may send
    CtlCapacity,  \* capacity of the control sync_channel (5 in the code)
    MaxTicks,     \* bound on the ticks a source produces
    MaxCmds       \* bound on the commands the controller sends

Controls == {"Pause", "Resume", "Stop"}

ASSUME /\ \A d \in Defs :
            /\ d.maxN \in Nat \cup {NoLimit}
            /\ d.maxTs \in Nat \cup {NoLimit}
            /\ d.dest \in SimBrokers \cup {Sink}
            /\ d.symbol \in Symbols
       /\ CtlCapacity \in Nat \ {0} /\ MaxTicks \in Nat /\ MaxCmds \in Nat

VARIABLES
    proc,       \* the process: "up", "exiting" (Kill, 3 s grace) or "down"
    handles,    \* keys of running_backtests
    simbrokers, \* keys of the simbrokers map
    streams,    \* <<simbroker, symbol>> pairs given to register_tickstream
    def,        \* def[b]: the definition backtest b was started with
    src,        \* src[b]: "none", "paused", "running" or "stopped"
    ctl,        \* ctl[b]: the control channel (sync_channel) of b
    srcTs,      \* srcTs[b]: timestamp of the last tick the source produced
    pending,    \* pending[b]: a produced tick not yet taken downstream
    pump,       \* pump[b]: "none", "running", "stopping" (early exit, its
                \* internal Stop not yet sent), "done" or "simbroker"
    delivered,  \* delivered[b]: ticks handed to the destination
    resumed,    \* history: resumed[b] iff a Resume reached b's source
    killed,     \* history: a Kill command was handled
    cmdsSent    \* commands the controller has sent

vars == <<proc, handles, simbrokers, streams, def, src, ctl, srcTs, pending,
          pump, delivered, resumed, killed, cmdsSent>>

Alive == proc \in {"up", "exiting"}

-----------------------------------------------------------------------------
(* Helpers translated from the source.                                      *)

\* Mutation: strict comparisons in check_early_exit (off by one).
CheckEarlyExitStrict(ts, d, i) ==
    \/ d.maxN # NoLimit /\ d.maxN < i
    \/ d.maxTs # NoLimit /\ d.maxTs < ts

\* Mutation: the limits compared with the next tick (one tick early).
CheckEarlyExitEarly(ts, d, i) ==
    \/ d.maxN # NoLimit /\ d.maxN <= i + 1
    \/ d.maxTs # NoLimit /\ d.maxTs <= ts + 1

\* check_early_exit(t, def, i): max_tick_n <= i, or max_timestamp <= t.
CheckEarlyExit(ts, d, i) ==
    \/ d.maxN # NoLimit /\ d.maxN <= i
    \/ d.maxTs # NoLimit /\ d.maxTs <= ts

\* The state a tick source opened by TickGenerator::get() starts in (spec
\* 4.3, data.rs): paused until the first Resume.
OpenSource == "paused"

-----------------------------------------------------------------------------
Init ==
    /\ proc = "up"
    /\ handles = {}
    /\ simbrokers = {}
    /\ streams = {}
    /\ def = [b \in Backtests |-> CHOOSE d \in Defs : TRUE]
    /\ src = [b \in Backtests |-> "none"]
    /\ ctl = [b \in Backtests |-> <<>>]
    /\ srcTs = [b \in Backtests |-> 0]
    /\ pending = [b \in Backtests |-> FALSE]
    /\ pump = [b \in Backtests |-> "none"]
    /\ delivered = [b \in Backtests |-> 0]
    /\ resumed = [b \in Backtests |-> FALSE]
    /\ killed = FALSE
    /\ cmdsSent = 0

\* Every listener step handles one command the controller sent.
Command ==
    /\ Alive
    /\ cmdsSent < MaxCmds
    /\ cmdsSent' = cmdsSent + 1

(* Listener: StartBacktest and start_backtest().                           *)

\* Source and control channel are created first; a sink destination gets a
\* pump and the handle is registered.
StartToSink(b, d) ==
    /\ src' = [src EXCEPT ![b] = OpenSource]
    /\ pump' = [pump EXCEPT ![b] = "running"]
    /\ handles' = handles \cup {b}
    /\ UNCHANGED <<proc, simbrokers, streams>>

\* SimBroker destination: lookup under the simbrokers lock.  A miss returns
\* Err after the source was opened; a second stream for the same symbol
\* makes register_tickstream(..).unwrap() panic, which ends listen() and
\* with it the process.
StartToSimBroker(b, d) ==
    /\ src' = [src EXCEPT ![b] = OpenSource]
    /\ \/ /\ d.dest \notin simbrokers
          /\ UNCHANGED <<proc, handles, simbrokers, streams, pump>>
       \/ /\ d.dest \in simbrokers
          /\ <<d.dest, d.symbol>> \in streams
          /\ proc' = "down"
          /\ UNCHANGED <<handles, simbrokers, streams, pump>>
       \/ /\ d.dest \in simbrokers
          /\ <<d.dest, d.symbol>> \notin streams
          /\ streams' = streams \cup {<<d.dest, d.symbol>>}
          /\ pump' = [pump EXCEPT ![b] = "simbroker"]
          /\ handles' = handles \cup {b}
          /\ UNCHANGED <<proc, simbrokers>>

StartBacktest ==
    /\ Command
    /\ \E b \in Backtests, d \in Defs :
          /\ src[b] = "none"
          /\ def' = [def EXCEPT ![b] = d]
          /\ IF d.dest = Sink THEN StartToSink(b, d) ELSE StartToSimBroker(b, d)
    /\ UNCHANGED <<ctl, srcTs, pending, delivered, resumed, killed>>

(* Listener: Pause/Resume/StopBacktest and send_backtest_cmd().            *)

\* Mutation: an unbounded mpsc::channel() in place of sync_channel(5).
SendCtlUnbounded(b, c) ==
    ctl' = [ctl EXCEPT ![b] = IF src[b] = "stopped" THEN @ ELSE Append(@, c)]

\* send() on the sync_channel of a live source queues the command, and
\* blocks while the channel is full; once the source thread has ended the
\* channel is disconnected and the error is ignored.
SendCtl(b, c) ==
    \/ /\ src[b] = "stopped"
       /\ UNCHANGED ctl
    \/ /\ src[b] # "stopped"
       /\ Len(ctl[b]) < CtlCapacity
       /\ ctl' = [ctl EXCEPT ![b] = Append(@, c)]

\* remove_backtest(): drop the handle from running_backtests.
RemoveBacktest(hs, b) == hs \ {b}

ControlBacktest ==
    /\ Command
    /\ \E b \in Backtests, c \in Controls :
          \/ /\ b \notin handles
             /\ UNCHANGED <<ctl, handles>>
          \/ /\ b \in handles
             /\ SendCtl(b, c)
             /\ handles' = IF c = "Stop" THEN RemoveBacktest(handles, b) ELSE handles
    /\ UNCHANGED <<proc, simbrokers, streams, def, src, srcTs, pending, pump,
                   delivered, resumed, killed>>

(* Listener: the remaining commands.                                       *)

\* SpawnSimbroker: init_simbroker() inserts a fresh uuid.
SpawnSimbroker ==
    /\ Command
    /\ \E sb \in SimBrokers \ simbrokers : simbrokers' = simbrokers \cup {sb}
    /\ UNCHANGED <<proc, handles, streams, def, src, ctl, srcTs, pending,
                   pump, delivered, resumed, killed>>

\* Kill: a thread exits the process after 3 seconds.
Kill ==
    /\ Command
    /\ proc' = "exiting"
    /\ killed' = TRUE
    /\ UNCHANGED <<handles, simbrokers, streams, def, src, ctl, srcTs,
                   pending, pump, delivered, resumed>>

\* Ping, Type, and a StartBacktest whose definition does not parse: a
\* reply built without touching the maps.
Query ==
    /\ Command
    /\ UNCHANGED <<proc, handles, simbrokers, streams, def, src, ctl, srcTs,
                   pending, pump, delivered, resumed, killed>>

\* ListBacktests (and likewise ListSimbrokers, and the reply to an
\* unrecognised command): the maps are read under their locks and left as
\* they are.
ListQuery ==
    /\ Command
    /\ UNCHANGED <<proc, handles, simbrokers, streams, def, src, ctl, srcTs,
                   pending, pump, delivered, resumed, killed>>

\* A message that is not a WrappedCommand: listen() returns, main() returns
\* and the process ends.
Malformed ==
    /\ Command
    /\ proc' = "down"
    /\ UNCHANGED <<handles, simbrokers, streams, def, src, ctl, srcTs,
                   pending, pump, delivered, resumed, killed>>

\* The grace thread calls std::process::exit(0).
Exit ==
    /\ proc = "exiting"
    /\ proc' = "down"
    /\ UNCHANGED <<handles, simbrokers, streams, def, src, ctl, srcTs,
                   pending, pump, delivered, resumed, killed, cmdsSent>>

(* The tick source thread of backtest b (data.rs, from spec 4.3).           *)

\* It takes the next control command: Pause, Resume, or Stop, after which
\* the stream ends and the thread exits.
SourceControl(b) ==
    /\ Alive
    /\ src[b] \in {"paused", "running"}
    /\ ctl[b] # <<>>
    /\ src' = [src EXCEPT ![b] = CASE Head(ctl[b]) = "Pause"  -> "paused"
                                   [] Head(ctl[b]) = "Resume" -> "running"
                                   [] Head(ctl[b]) = "Stop"   -> "stopped"]
    /\ ctl' = [ctl EXCEPT ![b] = IF Head(@) = "Stop" THEN <<>> ELSE Tail(@)]
    /\ resumed' = [resumed EXCEPT ![b] = @ \/ Head(ctl[b]) = "Resume"]
    /\ UNCHANGED <<proc, handles, simbrokers, streams, def, srcTs, pending,
                   pump, delivered, killed, cmdsSent>>

\* While running it produces the next tick of the Random source
\* (timestamps 1, 2, 3, ...) once the previous one was taken.
SourceEmit(b) ==
    /\ Alive
    /\ src[b] = "running"
    /\ ~pending[b]
    /\ srcTs[b] < MaxTicks
    /\ srcTs' = [srcTs EXCEPT ![b] = @ + 1]
    /\ pending' = [pending EXCEPT ![b] = TRUE]
    /\ UNCHANGED <<proc, handles, simbrokers, streams, def, src, ctl, pump,
                   delivered, resumed, killed, cmdsSent>>

(* The pump of start_backtest(): for_each over the stream.                  *)

\* Mutation: the early exit ends for_each without the or_else Stop.
PumpTickNoStop(b) ==
    /\ Alive
    /\ pump[b] = "running"
    /\ pending[b]
    /\ pending' = [pending EXCEPT ![b] = FALSE]
    /\ delivered' = [delivered EXCEPT ![b] = @ + 1]
    /\ pump' = [pump EXCEPT ![b] =
                    IF CheckEarlyExit(srcTs[b], def[b], delivered[b] + 1)
                    THEN "done" ELSE "running"]
    /\ UNCHANGED <<proc, handles, simbrokers, streams, def, src, ctl, srcTs,
                   resumed, killed, cmdsSent>>

\* i += 1; dst.tick(t); then check_early_exit: on true the closure returns
\* Err and the pump goes on to or_else.
PumpTick(b) ==
    /\ Alive
    /\ pump[b] = "running"
    /\ pending[b]
    /\ pending' = [pending EXCEPT ![b] = FALSE]
    /\ delivered' = [delivered EXCEPT ![b] = @ + 1]
    /\ pump' = [pump EXCEPT ![b] =
                    IF CheckEarlyExit(srcTs[b], def[b], delivered[b] + 1)
                    THEN "stopping" ELSE "running"]
    /\ UNCHANGED <<proc, handles, simbrokers, streams, def, src, ctl, srcTs,
                   resumed, killed, cmdsSent>>

\* Mutation: try_send(Stop) in the or_else, which drops the Stop when the
\* channel is full.
PumpStopTrySend(b) ==
    /\ Alive
    /\ pump[b] = "stopping"
    /\ IF src[b] # "stopped" /\ Len(ctl[b]) < CtlCapacity
       THEN ctl' = [ctl EXCEPT ![b] = Append(@, "Stop")]
       ELSE UNCHANGED ctl
    /\ pump' = [pump EXCEPT ![b] = "done"]
    /\ UNCHANGED <<proc, handles, simbrokers, streams, def, src, srcTs,
                   pending, delivered, resumed, killed, cmdsSent>>

\* or_else: internal_handle_tx.send(Stop), blocking while the channel is
\* full.
PumpStop(b) ==
    /\ Alive
    /\ pump[b] = "stopping"
    /\ SendCtl(b, "Stop")
    /\ pump' = [pump EXCEPT ![b] = "done"]
    /\ UNCHANGED <<proc, handles, simbrokers, streams, def, src, srcTs,
                   pending, delivered, resumed, killed, cmdsSent>>

\* A SimBroker that owns the stream consumes its ticks; no exit check.
SimBrokerTick(b) ==
    /\ Alive
    /\ pump[b] = "simbroker"
    /\ pending[b]
    /\ pending' = [pending EXCEPT ![b] = FALSE]
    /\ delivered' = [delivered EXCEPT ![b] = @ + 1]
    /\ UNCHANGED <<proc, handles, simbrokers, streams, def, src, ctl, srcTs,
                   pump, resumed, killed, cmdsSent>>

-----------------------------------------------------------------------------
Listener ==
    \/ StartBacktest \/ ControlBacktest \/ SpawnSimbroker \/ Kill \/ Query
    \/ ListQuery
    \/ Malformed

Next ==
    \/ Listener
    \/ Exit
    \/ \E b \in Backtests :
          SourceControl(b) \/ SourceEmit(b) \/ PumpTick(b) \/ PumpStop(b)
          \/ SimBrokerTick(b)

\* The source threads, the pump futures and the exit timer all run; the
\* controller is not obliged to send anything.
Fairness ==
    /\ WF_vars(Exit)
    /\ \A b \in Backtests :
          /\ WF_vars(SourceControl(b)) /\ WF_vars(SourceEmit(b))
          /\ WF_vars(PumpTick(b)) /\ WF_vars(PumpStop(b))
          /\ WF_vars(SimBrokerTick(b))

Spec == Init /\ [][Next]_vars /\ Fairness

-----------------------------------------------------------------------------
TypeOK ==
    /\ proc \in {"up", "exiting", "down"}
    /\ handles \subseteq Backtests
    /\ simbrokers \subseteq SimBrokers
    /\ streams \subseteq SimBrokers \X Symbols
    /\ def \in [Backtests -> Defs]
    /\ src \in [Backtests -> {"none", "paused", "running", "stopped"}]
    /\ ctl \in [Backtests -> Seq(Controls)]
    /\ \A b \in Backtests : Len(ctl[b]) <= CtlCapacity
    /\ srcTs \in [Backtests -> 0..MaxTicks]
    /\ pending \in [Backtests -> BOOLEAN]
    /\ pump \in [Backtests -> {"none", "running", "stopping", "done", "simbroker"}]
    /\ delivered \in [Backtests -> 0..MaxTicks]
    /\ resumed \in [Backtests -> BOOLEAN] /\ killed \in BOOLEAN
    /\ cmdsSent \in 0..MaxCmds

\* The limit a definition puts on the ticks of the Random source, whose
\* i-th tick has timestamp i.
Limit(d) ==
    LET ls == {l \in {d.maxN, d.maxTs} : l # NoLimit}
    IN  IF ls = {} THEN MaxTicks ELSE CHOOSE l \in ls : \A m \in ls : l <= m

\* Spec 4.5 and tests backtest_n_early_exit / backtest_timestamp_early_exit:
\* a backtest with a sink destination delivers no more ticks than
\* max_tick_n, and none past the first tick at max_timestamp, however the
\* pump, the source and the controller's Pause/Resume/Stop interleave.
TickLimitsRespected ==
    \A b \in Backtests :
        pump[b] \in {"running", "stopping", "done"}
            => delivered[b] <= Limit(def[b])

\* Liveness (spec 4.5: exit-predicate satisfaction is identical to a Stop):
\* once check_early_exit has fired, the or_else's blocking send of Stop on
\* the sync_channel(5) gets through and ends the source, unless the process
\* ends first, even while the controller's Pause/Resume fill the channel
\* and the source drains it one command at a time.
EarlyExitStopsSource ==
    \A b \in Backtests :
        pump[b] = "stopping" ~> (src[b] = "stopped" \/ proc = "down")

\* Liveness (spec 4.5 and tests 6 and 7 of spec 8, "exactly 10 ticks appear
\* on the destination channel"): once a backtest to a sink has been resumed,
\* its pump goes on until it has delivered all the ticks its limits allow,
\* unless the controller pauses it, stops it (removing the handle) or kills
\* the process.  The source, the one-tick hand-off, the pump's early-exit
\* check and the shared control channel must not stall it or end it early.
ResumedBacktestReachesLimit ==
    \A b \in Backtests :
        (pump[b] = "running" /\ resumed[b])
            ~> \/ delivered[b] = Limit(def[b])
               \/ src[b] = "paused" \/ b \notin handles \/ proc # "up"

\* Spec 3 invariant (e): a handle is in running_backtests only while its
\* engine is running or paused.
HandleOnlyWhileActive ==
    \A b \in handles : src[b] \in {"paused", "running"}

\* Spec 7: a malformed message is logged and ignored; the backtester
\* process only ends because of a Kill.
StopsOnlyOnKill == proc = "down" => killed

=============================================================================
