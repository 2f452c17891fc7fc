# TLA+ models of TickGrinder

This directory holds TLA+ specifications of the parts of TickGrinder under
`src/`, the TLC configurations that check them, and `PROJECT.json`, which
lists:

- the components;
- the runs;
- the mutants each passing property must catch;
- the line map from every definition to the code it translates;
- the findings;
- the hazards.

## 1. The system

TickGrinder is a set of processes that talk over Redis pub/sub. A command is a
`WrappedCommand` (a uuid plus a `Command`) published on the shared control
channel or on a process's own channel. The reply is a `WrappedResponse`
carrying the same uuid, published on the responses channel. A message
published to a channel that nobody is subscribed to is lost.

| # | Component | Source | State | Operations | Interacts with |
|---|-----------|--------|-------|------------|----------------|
| C1 | Command codec | `src/util/src/transport/commands.rs` | none | `wrap`, `from_str`/`to_string`, `send_command`, `send_response` | every process |
| C2 | CommandServer (request/response bus with timeouts and retries) | not under `src/` | pending requests | `execute`, `broadcast` | C5, C8 |
| C3/C4 | Tick sources and timing maps (`data.rs`) | not under `src/` | per-source paused/running/stopped, control channel | `get`, Pause/Resume/Stop | C5 |
| C5 | Backtester | `src/backtester/src/main.rs` | `running_backtests`, `simbrokers` | `listen` (one handler per command), `start_backtest`, `send_backtest_cmd`, `remove_backtest`, `check_early_exit` | C1, C3, C6, C8 |
| C6 | SimBroker registry | `src/backtester/src/main.rs` | the `simbrokers` map, registered tickstreams | `init_simbroker`, `register_tickstream` | C5 |
| C7 | Time-weighted moving average | `src/tick_parser/src/calc/sma.rs` | window deque, `ref_tick`, `period` | `push`, `push_tick`, `trim`, `average`, `average_tick`, `SMAList::{add,remove,push_all}` | tick parser |
| C8 | Instance spawner | `src/spawner/src/main.rs` | `living` (mutex-protected `Vec<Instance>`) | `init` (spawn MM, straggler kill, self-registration, heartbeat loop), `listen`/`handle_command`, `kill_all`, `add_instance`, `remove_instance`, `get_missing_instance`, `spawn_*` | C1, C2, every child process |

### Hard behaviours

- **Spawner, two threads.** The main thread runs the heartbeat: ping all, find
  the first instance that sent no Pong, remove it, probe it with `Type`, and
  re-add it if it answers. The listener thread handles commands, including
  `Ready` (`add_instance`) and `KillAllInstances` (`kill_all` drains `living`).
  Each thread takes the lock once per call, so their calls interleave freely
  between the heartbeat's remove and re-add.
- **Lost messages.** A Ready, Ping or Kill reaches a process only while that
  process is subscribed. A Pong can miss the broadcast window.
- **Crashes.** A child or straggler can die at any time. A failing spawn panics
  the spawner's listener thread (`.expect`). An unparsable message, or a
  duplicate `register_tickstream`, ends the backtester process.
- **Backtests.** The tick source, the pump future and the listener run at the
  same time. They share one bounded control channel, `sync_channel(5)`, which
  both the handle and the pump's early-exit Stop write to.
- **Numeric edges in the SMA.** Period 0, a gap of a whole period between two
  ticks, the `bid == 0` sentinel, and the `usize` subtraction
  `period - t_sum`.

### What must hold

- **C8.**
  - Every instance appears in `living` at most once.
  - A live, registered, un-killed instance is forgotten only after its
    confirming `Type` probe failed (spec 4.8, 8.11).
  - A dead instance is eventually deregistered.
  - `KillAllInstances` reaches everything known. The spawner is in its own
    list (spec 4.8), so it is killed too (see section 4).
  - The straggler kill only hits stragglers.
  - Every spawned child is eventually registered.
- **C5.**
  - Sinks never receive ticks beyond `max_tick_n` or `max_timestamp`.
  - Once resumed, a sink eventually receives exactly that many ticks, unless
    the controller pauses, stops or kills it (spec 8, tests 6 and 7).
  - After an early exit, the pump's blocking send of Stop gets through a
    channel the controller may have filled, and stops the source.
  - A handle exists only while its engine is active.
  - The process ends only on Kill.
- **C7.**
  - The window stays ordered, spans less than a period, and `ref_tick` is
    the tick evicted just before it.
  - `push` and `push_tick` return what spec 4.7 promises for the history of
    ticks so far: `SimpleMovingAverage` refines the abstract `SMASpec`.

## 2. Modules

| Module | Models | Composition |
|--------|--------|-------------|
| `Supervisor.tla` | C8, with the children, stragglers and controller around it. C2's observable behaviour is modelled inside the actions that use it. | standalone; `MCSupervisor.tla` instantiates it |
| `Backtester.tla` | C5 and C6, with the source threads (C3) modelled from the spec | standalone; `MCBacktester.tla` instantiates it |
| `SMASpec.tla` | What spec 4.7 promises of C7, stated over the tick history alone: no window, no `ref_tick` | abstract specification |
| `SMA.tla` | C7's `SimpleMovingAverage` as operators and one action per call | `Abs == INSTANCE SMASpec WITH ...` (the refinement mapping); `ImplementsSMASpec == Abs!Spec` is checked as a PROPERTY |
| `SMAList.tla` | C7's `SMAList`: `new`, `add`, `remove`, `push_all` | `Member(p) == INSTANCE SMA WITH Period <- p, ...` for each member's step; `Promise(p) == INSTANCE SMASpec WITH ...` for the window it must hold |

### Supervisor

**State.**

- `living` is the `Vec<Instance>`, as a sequence of uuids.
- `hb` is the program counter of `init()`:
  spawn_mm → straggler ping → collect → kill stragglers → boot → ping →
  collect → check → remove → probe.
- `listening` is the listener thread's state.
- `inbox` holds the commands published to the spawner.
- `proc[p]` is the life of every process: idle (no uuid yet), starting, up,
  dying (the 3 s grace after Kill), dead.

**Actions.** There is one action per step of `init()` and per arm of
`handle_command`:

- The main thread: `InitSpawnMM`, `BroadcastPing`, `CloseWindow`,
  `KillStragglers`, `RegisterSelf`, `AllPresent`, `CheckMissing`,
  `RemoveSuspect`, `ProbeAnswered` and `ProbeTimedOut`.
- The listener: `Subscribe`, `HandleReady`, `HandleKillAll`, `HandleSpawn`
  (including its panic branch), `HandleKill` and `HandleQuery`.
- The other processes: `ChildStart`, `ReceiveKill`, `Exit`, `Crash` and
  `SendCommand`.

**Modelling choices.**

- `CloseWindow` chooses any subset of the pinged processes as the responders,
  which models Pongs that are late or lost.
- `RegisterSelf` does not wait for the listener. The 1928 ms boot sleep
  synchronises with nothing, so the first heartbeat may ping before the
  listener has subscribed; the spawner then misses its own Ping and probes
  itself.
- `ProbeTimedOut` is enabled whether or not the suspect is alive. A live
  instance whose `Info` arrives after the last retry, or is lost, is given up
  like a dead one. The history variable `givenUp` records every suspect whose
  probe timed out.

### Backtester

**State.**

- `handles` holds the keys of `running_backtests`.
- `simbrokers` and `streams` hold the SimBrokers and their registered
  `(simbroker, symbol)` streams.
- `src[b]` is the state of the source thread.
- `ctl[b]` is the bounded control channel.
- `pump[b]` is the state of the pump future.
- `delivered[b]` counts the ticks that reached the destination.

**Actions.**

- `StartBacktest` has three paths through `start_backtest`:
  1. to a sink;
  2. to an unknown SimBroker, which returns Err with the source left open;
  3. to a SimBroker. A duplicate stream there panics; otherwise the stream is
     registered.
- `ControlBacktest` sends Pause, Resume or Stop through `send_backtest_cmd`.
  `SendCtl` blocks while the channel is full. Stop removes the handle.
- `SpawnSimbroker`, `Kill`, `Query` (Ping, Type, an unparsable definition),
  `ListQuery` (ListBacktests, ListSimbrokers, unknown commands), `Malformed`
  and `Exit` model the other commands and the end of the process.
- `PumpTick` and `PumpStop` model the `for_each` closure and its `or_else`.
- `SourceControl`, `SourceEmit` and `SimBrokerTick` are modelled from the spec.

### SMA

`Trim` is the `while` loop of `trim()`, as a RECURSIVE operator. `Average(w, r,
F)` is `average()` when F is the mid, and each half of `average_tick()` when F
is the bid or the ask. `PushWith` holds the steps `push` and `push_tick`
share: the out-of-order assert, the push, the trim, and the single-tick
return.

`SMASpec` is the abstract specification. Its only state is the history
`hist`, the last result and the panic status. A call appends the tick, and
an out-of-order tick sets the status to `assert`. Otherwise the call returns
`Value(hist', op)`:

- the tick's mid (or the tick itself) when it is alone in its trailing period;
- otherwise `TWAP(h, F)`, the average over every time unit of
  `[back - period, back)` of the price of the last tick at or before that unit.

`SMA` instantiates it with the identity mapping on `hist`, `result` and
`status`. The window `ticks` and `ref_tick` are hidden. The refinement
therefore says that the deque, the trim and the `ref_tick` share of
`average()` together compute a function of the history alone, and the
function spec 4.7 names. `PushIsTWAP` compares every result with `TWAP`
alone, without the single-tick case.

### SMAList

`SMAList` models `SMAList` (`sma.rs` lines 8-39): a `Vec` of
`SimpleMovingAverage` that the tick parser's `AddSMA` and `RemoveSMA`
commands are meant to drive.

- `smas` is the vector. Each member is a record of `period`, `ticks` and
  `refTick`, as in the code, plus a history field `from`: how many ticks had
  been pushed when it was added. `hist` is every tick given to `push_all`.
- `Add(p)` is `add(period)`: a fresh `SimpleMovingAverage::new(period)` at
  the back. Duplicates are allowed, as in the code.
- `RemoveSMA(p)` is `remove(period)`: it removes the first member of that
  period (`RemoveFirstMatch`). With none, the list is unchanged, which is the
  printed warning.
- `PushAll(t)` is `push_all(t)`: `PushEach` gives every member, in order, the
  step of `push` (`PushMember`: the assert, `push_back`, and the trim), and
  drops the returned average. The first member that panics ends the thread.

`Member(p)` is a parameterised `INSTANCE SMA WITH Period <- p, ...`. The
member step uses its `IsOverflown` and `Trim`, so the list composes the very
operators the `sma` run checks. `Promise(p)` is likewise an instance of
`SMASpec`. SANY wants a constant-level INSTANCE argument, so the member's
period is bound through the set `{m.period}` (`OverflownIn`, `TrimIn`,
`PromisedWindow`).

`MembersFollowStream` states what the list must preserve. Every member holds
what a lone SMA of its period would hold after the ticks pushed since its
`add`:

- its window is `SMASpec`'s `InPeriod` of those ticks;
- its `ref_tick` is the tick just before the window, or `Tick::null()` when
  nothing has been evicted.

This has to hold across `Vec::remove` shifting the members, duplicate
periods, and members added mid-stream.

## 3. Runs

All the runs listed here are in `PROJECT.json`. Each pass run's properties
have a mutant in `PROJECT.json`. Each mutant is a plausible bug in the mapped
code, and TLC finds the property violated when the mutant replaces that code.

| Run | cfg | Expect | Shows |
|-----|-----|--------|-------|
| supervisor_safety | `MCSupervisor.cfg` | pass | `TypeOK`, `NoDuplicateInstances` and `ForgottenOnlyAfterFailedProbe` hold in every interleaving of the two threads, child boots and crashes, late or lost probe replies, an early end of the boot sleep, and up to 3 controller commands (about 7.0M states, under 2 minutes). |
| supervisor_liveness | `MCSupervisorLive.cfg` | pass | `DeadEventuallyDeregistered`: the heartbeat eventually drops a dead instance (1 controller command). |
| supervisor_killall_inflight | `MCSupervisor_KillAllReachesEveryKnown.cfg` | violation | KillAllInstances, handled between the heartbeat's remove and re-add, misses the suspect, which is then re-added. |
| supervisor_straggler_kill | `MCSupervisor_KillsOnlyStragglersOrKnown.cfg` | violation | The straggler kill kills the MM that `init()` has just spawned. |
| supervisor_lost_ready | `MCSupervisor_SpawnedEventuallyRegistered.cfg` | violation | The MM's Ready is published before the listener subscribes, so the MM is never registered. |
| backtester | `MCBacktester.cfg` | pass | `TypeOK` (the channel never holds more than 5), `TickLimitsRespected`, `EarlyExitStopsSource` (from the moment the exit check fires, through the pump's blocking Stop on a possibly full channel) and `ResumedBacktestReachesLimit` hold for two backtests and up to 7 commands (about 470k states, about 2 minutes). |
| backtester_handle_after_exit | `MCBacktester_HandleOnlyWhileActive.cfg` | violation | The handle survives an early exit. |
| backtester_malformed | `MCBacktester_StopsOnlyOnKill.cfg` | violation | One unparsable message ends the process. |
| sma | `MCSMA.cfg` | pass | `WindowWellFormed` holds and `ImplementsSMASpec` (SMA refines SMASpec) holds for every history of up to 6 ticks, including out-of-order ones (the assert). |
| sma_single_tick | `MCSMA_PushIsTWAP.cfg` | violation | After an eviction that leaves one tick, `push` returns that tick's mid, not the average. |
| sma_zero_period | `MCSMA_ZeroPeriod.cfg` | violation | Period 0 panics on the first push. |
| sma_list | `MCSMAList.cfg` | pass | `MembersFollowStream` holds through every sequence of `add`, `remove` and `push_all` on up to three members of periods 1 and 3, duplicates included (about 509k states, 10 s). |

### Bounds, and why they are enough

**Supervisor.**

- Two children: the MM that `init()` spawns, and one spawned on command.
- One straggler.
- Up to 3 commands. That is enough for Spawn, then a Ready, then
  KillAllInstances, interleaved with a full heartbeat round.

Every finding needs at most two children and one command.

**Backtester.**

- Two backtests, so two sources share the listener.
- Three definitions: a tick-count limit of 2, a timestamp limit of 2, and no
  limit to a SimBroker.
- 3 ticks per source, so every limit is reached and passed.
- 7 commands. That is enough to start both backtests, spawn a SimBroker,
  resume, and fill a channel.
- In the pass run the channel capacity is the code's own 5.

**SMA.**

- Period 3, with timestamps up to 6. This covers gaps shorter than, equal to,
  and longer than the period, and evictions of one and of several ticks.
- Prices 1 and 3, so mids differ and integer division rounds.

**SMAList.**

- Periods 1 and 3: a window of a single tick, and one that spans several.
- Up to 3 members. That is enough for two of one period and one of the
  other, and for a `remove` that shifts a later member forward.
- 5 `push_all` calls with timestamps up to 5. That is enough for a member
  added after some ticks, for evictions, and for an out-of-order tick.
- One price. The windows and `ref_tick` do not depend on prices, and the
  averages are the `sma` run's subject.

### Fairness

**Supervisor.** Weak fairness on:

- the main thread;
- the listener thread;
- each child's boot;
- each process's handling of a Kill sent to it;
- the 3-second exit timer.

The code justifies these: each is a thread or timer that runs once it is
enabled. Crashes and controller commands get no fairness.

**Backtester.** Weak fairness on the source threads, the pump futures and the
exit timer. The controller is not obliged to act. Because of that,
`ResumedBacktestReachesLimit` excuses a backtest that the controller paused,
stopped or killed. The property relies only on the source thread, the pump
and the exit timer running, which they do: each is a thread or future of its
own.

### Deadlock

Every cfg sets `CHECK_DEADLOCK FALSE`. The processes really stop:

- The spawner and the backtester exit after Kill.
- The backtester also exits on a malformed message and on a duplicate
  stream.
- The SMA's thread stops at a panic.

Otherwise, once the command bound or the timestamp bound is spent, the
listener is blocked waiting for input.

## 4. Not modelled, and why

- **JSON encoding and decoding (C1).** These are data transformations with no
  control; a failed parse is modelled by its effect.
- **CommandServer's internals (C2).** Not under `src/`. Its observable
  behaviour (subset answers, fire-and-forget, timeout) is modelled where it is
  used.
- **The timing maps, and data sources other than Random.** Not under `src/`.
  The delays do not change the order of events the properties depend on.
- **SimBroker order matching.** Not under `src/`.
- **Kill sent to the spawner itself.** `init()` registers the spawner in
  its own `living` list (line 105), so `KillAllInstances` also kills the
  spawner. Spec 4.8 keeps the supervisor in its own list on purpose and says
  KillAllInstances sends Kill to each known instance. The comment at line 96
  about "suicide" concerns the straggler kill, which
  `KillsOnlyStragglersOrKnown` covers. So no property asserts that the
  spawner survives.
- **SMAList keyed by period.** Spec 4.7 calls the list keyed by period, but
  `add` admits duplicates and `remove` takes the oldest of them. The model
  keeps the code's behaviour. `MembersFollowStream` shows that every
  duplicate still follows its own stream, and no run asserts the keying.
- **That a fresh source starts paused.** It is decided in `data.rs`, which
  is not under `src/`. `OpenSource` takes it from spec 4.3, so no property
  checks it: a property would only restate the spec-modelled definition.
- **`kill_stragglers = false`.** It reaches `unimplemented!()` (spawner
  line 92). It is a compile-time constant, and the model fixes it to `true`,
  the only value `init()` supports.
- **Two panics of the spawner.** The model leaves out the `.expect` on
  `spawn_mm` in `init()`, which would end the main thread. It also leaves out
  the `_ =>` arm of the probe (non-Info reply): every module answers `Type`
  with `Info`.
- **The benchmarks.**
- **The respawn of dead instances.** It is a TODO in the code.

## 5. Plan for later sittings

1. A `CommandBus` module: an abstract request/response specification (every
   response carries the id of its command, and there is at most one reply), and
   a detailed CommandServer with timeouts and retries shown to refine it. Then
   compose it with `Supervisor`, in place of the inline message abstraction.
2. An abstract per-backtest state machine (Created → Paused ⇄ Running →
   Stopped, spec 4.5), with `Backtester` shown to refine it under a mapping from
   `src`, `pump` and `handles`.
