----------------------------- MODULE Supervisor -----------------------------
(***************************************************************************)
(* The instance spawner of src/spawner/src/main.rs (InstanceManager).      *)
(*                                                                         *)
(* Two threads of the spawner process share the `living` list under a     *)
(* mutex: the main thread, which runs init() (spawn MM, kill stragglers,   *)
(* register itself) and then the heartbeat loop, and the listener thread   *)
(* started by listen(), which handles one inbound command at a time.      *)
(* Beside them run the processes the spawner talks to: the children it    *)
(* spawns, the stragglers of an earlier run, and an external controller.   *)
(* Messages travel over Redis pub/sub: a message published to a channel    *)
(* nobody is subscribed to is lost.                                        *)
(***************************************************************************)
EXTENDS Naturals, Sequences, FiniteSets, SequencesExt

CONSTANTS
    Self,           \* the spawner's own uuid
    Children,       \* uuids the spawner may generate for processes it spawns
    MM,             \* the uuid generated for the MM instance spawned by init()
    Stragglers,     \* instances still alive from a previous run of the platform
    NoInstance,     \* model value: no suspect chosen yet
    ControllerCmds, \* commands the external controller may send the spawner
    MaxCmds         \* bound on the number of commands the controller sends

Procs == {Self} \cup Children \cup Stragglers

\* The commands the spawner's handle_command distinguishes.  "Spawn" stands
\* for every SpawnX variant (they all launch a child and reply Ok), "Query"
\* for Ping, Type, Census and every unrecognised command (they reply and
\* change nothing).
Cmds == {"Spawn", "KillAllInstances", "Kill", "Query"}

ASSUME /\ MM \in Children
       /\ Self \notin Children \cup Stragglers
       /\ Children \cap Stragglers = {}
       /\ NoInstance \notin Procs
       /\ ControllerCmds \subseteq Cmds
       /\ MaxCmds \in Nat

VARIABLES
    proc,       \* proc[p]: "idle" (uuid not yet generated), "starting",
                \* "up", "dying" (Kill received, 3 s grace) or "dead"
    living,     \* InstanceManager.living: the uuids in the Vec<Instance>
    hb,         \* program counter of the main thread (init + heartbeat)
    pinged,     \* processes that got the current Ping and have not answered
    responders, \* uuids of the Pong responses collected by ping_all()
    suspect,    \* the instance get_missing_instance() returned
    listening,  \* listener thread: "no", "subscribing", "yes" or "dead"
    inbox,      \* commands published to the spawner's channels, in order
    killMsgs,   \* Kill commands published to subscribed processes
    cmdsSent,   \* commands the controller has sent
    killed,     \* history: every uuid the spawner sent Kill to
    registered, \* history: every uuid ever added to living
    mustDie,    \* history: what a KillAllInstances knew of when handled
    givenUp     \* history: every suspect whose Type probe timed out

vars == <<proc, living, hb, pinged, responders, suspect, listening, inbox,
          killMsgs, cmdsSent, killed, registered, mustDie, givenUp>>

ReadyMsg(i) == [cmd |-> "Ready", id |-> i]
CmdMsg(c)   == [cmd |-> c, id |-> Self]

\* A process answers a command only while it runs and is subscribed; the
\* spawner answers through its listener thread.
Responding(p) ==
    /\ proc[p] \in {"up", "dying"}
    /\ p = Self => listening = "yes"

SpawnerRunning == proc[Self] \in {"up", "dying"}

\* The instance the heartbeat is deregistering or probing right now.
InFlight == IF hb \in {"remove", "probe"} THEN {suspect} ELSE {}

\* Every instance the spawner still considers alive.
Known == ToSet(living) \cup InFlight

-----------------------------------------------------------------------------
(* Helpers translated from InstanceManager.                                *)

\* Mutation: add_instance inserting at the front of the Vec.
AddInstanceFront(l, i) == <<i>> \o l

\* add_instance: push to the back of the Vec.
AddInstance(l, i) == Append(l, i)

\* remove_instance: remove the LAST entry with that uuid, if any.
RemoveInstance(l, i) ==
    LET k == SelectLastInSeq(l, LAMBDA x : x = i)
    IN  IF k = 0 THEN l ELSE RemoveAt(l, k)

\* get_missing_instance: index of the first living instance that sent no
\* Pong, 0 when every one answered.
FirstMissing(l, rs) == SelectInSeq(l, LAMBDA x : x \notin rs)

\* cs.execute(Command::Kill, uuid) for each uuid: fire and forget; only a
\* subscribed process receives it.
SendKill(ps) ==
    /\ killed' = killed \cup ps
    /\ killMsgs' = killMsgs \cup {p \in ps : Responding(p)}

-----------------------------------------------------------------------------
Init ==
    /\ proc = [p \in Procs |-> IF p \in Children THEN "idle" ELSE "up"]
    /\ living = <<>>
    /\ hb = "spawn_mm"
    /\ pinged = {}
    /\ responders = {}
    /\ suspect = NoInstance
    /\ listening = "no"
    /\ inbox = <<>>
    /\ killMsgs = {}
    /\ cmdsSent = 0
    /\ killed = {}
    /\ registered = {}
    /\ mustDie = {}
    /\ givenUp = {}

(* Main thread: init().                                                    *)

\* self.spawn_mm(): a fresh uuid, the child process starts booting.
InitSpawnMM ==
    /\ SpawnerRunning
    /\ hb = "spawn_mm"
    /\ proc' = [proc EXCEPT ![MM] = "starting"]
    /\ hb' = "straggler_ping"
    /\ UNCHANGED <<living, pinged, responders, suspect, listening, inbox,
                   killMsgs, cmdsSent, killed, registered, mustDie, givenUp>>

\* ping_all(): broadcast Ping on the control channel; every subscribed
\* process receives it.
BroadcastPing ==
    /\ SpawnerRunning
    /\ hb \in {"straggler_ping", "ping"}
    /\ pinged' = {p \in Procs : Responding(p)}
    /\ hb' = IF hb = "ping" THEN "collect" ELSE "straggler_collect"
    /\ UNCHANGED <<proc, living, responders, suspect, listening, inbox,
                   killMsgs, cmdsSent, killed, registered, mustDie, givenUp>>

\* The broadcast's timeout fires.  The responses collected are the Pongs
\* of any of the pinged processes: each may have answered in time (and
\* possibly died since) or too late; later Pongs are dropped.
CloseWindow ==
    /\ SpawnerRunning
    /\ hb \in {"straggler_collect", "collect"}
    /\ \E rs \in SUBSET pinged : responders' = rs
    /\ pinged' = {}
    /\ hb' = IF hb = "collect" THEN "check" ELSE "straggler_kill"
    /\ UNCHANGED <<proc, living, suspect, listening, inbox,
                   killMsgs, cmdsSent, killed, registered, mustDie, givenUp>>

\* With kill_stragglers set, send Kill to every Pong responder; then
\* listen() starts the listener thread.
KillStragglers ==
    /\ SpawnerRunning
    /\ hb = "straggler_kill"
    /\ SendKill(responders)
    /\ responders' = {}
    /\ listening' = "subscribing"
    /\ hb' = "boot"
    /\ UNCHANGED <<proc, living, pinged, suspect, inbox,
                   cmdsSent, registered, mustDie, givenUp>>

\* After the boot sleep the spawner pushes its own Instance into living.
\* The 1928 ms sleep "give CommandServer a while to boot up" synchronises
\* with nothing: the listener may or may not have subscribed by then.
RegisterSelf ==
    /\ SpawnerRunning
    /\ hb = "boot"
    /\ living' = AddInstance(living, Self)
    /\ registered' = registered \cup {Self}
    /\ hb' = "ping"
    /\ UNCHANGED <<proc, pinged, responders, suspect, listening, inbox,
                   killMsgs, cmdsSent, killed, mustDie, givenUp>>

(* Main thread: the heartbeat loop.                                        *)

\* get_missing_instance() under the lock: nobody missing, loop again ...
AllPresent ==
    /\ SpawnerRunning
    /\ hb = "check"
    /\ FirstMissing(living, responders) = 0
    /\ responders' = {}
    /\ hb' = "ping"
    /\ UNCHANGED <<proc, living, pinged, suspect, listening,
                   inbox, killMsgs, cmdsSent, killed, registered, mustDie, givenUp>>

\* Mutation: the is_some() check on the missing instance dropped.
CheckMissingUnguarded ==
    /\ SpawnerRunning
    /\ hb = "check"
    /\ suspect' = IF FirstMissing(living, responders) = 0 THEN NoInstance
                  ELSE living[FirstMissing(living, responders)]
    /\ responders' = {}
    /\ hb' = "remove"
    /\ UNCHANGED <<proc, living, pinged, listening, inbox,
                   killMsgs, cmdsSent, killed, registered, mustDie, givenUp>>

\* ... or the first missing instance becomes the suspect.
CheckMissing ==
    /\ SpawnerRunning
    /\ hb = "check"
    /\ FirstMissing(living, responders) # 0
    /\ suspect' = living[FirstMissing(living, responders)]
    /\ responders' = {}
    /\ hb' = "remove"
    /\ UNCHANGED <<proc, living, pinged, listening, inbox,
                   killMsgs, cmdsSent, killed, registered, mustDie, givenUp>>

\* Mutation: the suspect is probed without being deregistered first.
RemoveSuspectSkipped ==
    /\ SpawnerRunning
    /\ hb = "remove"
    /\ hb' = "probe"
    /\ UNCHANGED <<proc, living, pinged, responders, suspect, listening,
                   inbox, killMsgs, cmdsSent, killed, registered, mustDie, givenUp>>

\* remove_instance(dead.uuid) takes the lock a second time; the Type
\* query is published to the suspect's channel.
RemoveSuspect ==
    /\ SpawnerRunning
    /\ hb = "remove"
    /\ living' = RemoveInstance(living, suspect)
    /\ hb' = "probe"
    /\ UNCHANGED <<proc, pinged, responders, suspect, listening, inbox,
                   killMsgs, cmdsSent, killed, registered, mustDie, givenUp>>

\* Mutation: the "wasn't dead after all" branch forgets add_instance.
ProbeAnsweredNoReAdd ==
    /\ SpawnerRunning
    /\ hb = "probe"
    /\ Responding(suspect)
    /\ suspect' = NoInstance
    /\ hb' = "ping"
    /\ UNCHANGED <<proc, living, pinged, responders, listening, inbox,
                   killMsgs, cmdsSent, killed, registered, mustDie, givenUp>>

\* Info reply to Type: "wasn't dead after all", add_instance again.
ProbeAnswered ==
    /\ SpawnerRunning
    /\ hb = "probe"
    /\ Responding(suspect)
    /\ living' = AddInstance(living, suspect)
    /\ registered' = registered \cup {suspect}
    /\ suspect' = NoInstance
    /\ hb' = "ping"
    /\ UNCHANGED <<proc, pinged, responders, listening, inbox,
                   killMsgs, cmdsSent, killed, mustDie, givenUp>>

\* No reply within the timeout after every retry: "really, truly, dead"
\* (respawn is a TODO).  A suspect that is alive but answers late, or whose
\* Info is lost, times out the same way.
ProbeTimedOut ==
    /\ SpawnerRunning
    /\ hb = "probe"
    /\ suspect' = NoInstance
    /\ givenUp' = givenUp \cup {suspect}
    /\ hb' = "ping"
    /\ UNCHANGED <<proc, living, pinged, responders, listening,
                   inbox, killMsgs, cmdsSent, killed, registered, mustDie>>

(* Listener thread: listen() and handle_command().                         *)

\* sub_multiple() on the control channel and the spawner's own channel.
Subscribe ==
    /\ SpawnerRunning
    /\ listening = "subscribing"
    /\ listening' = "yes"
    /\ UNCHANGED <<proc, living, hb, pinged, responders, suspect, inbox,
                   killMsgs, cmdsSent, killed, registered, mustDie, givenUp>>

ListenerReady(c) ==
    /\ SpawnerRunning
    /\ listening = "yes"
    /\ inbox # <<>>
    /\ Head(inbox).cmd = c
    /\ inbox' = Tail(inbox)

\* Ready{instance_type, uuid}: add_instance, reply Ok.
HandleReady ==
    /\ ListenerReady("Ready")
    /\ living' = AddInstance(living, Head(inbox).id)
    /\ registered' = registered \cup {Head(inbox).id}
    /\ UNCHANGED <<proc, hb, pinged, responders, suspect, listening,
                   killMsgs, cmdsSent, killed, mustDie, givenUp>>

\* kill_all(): under the lock, drain living sending Kill to each uuid.
HandleKillAll ==
    /\ ListenerReady("KillAllInstances")
    /\ SendKill(ToSet(living))
    /\ living' = <<>>
    /\ mustDie' = mustDie \cup Known
    /\ UNCHANGED <<proc, hb, pinged, responders, suspect, listening,
                   cmdsSent, registered, givenUp>>

\* spawn_*(): a fresh uuid and a child process; registration waits for its
\* Ready.  A failing process::Command::spawn hits .expect and the panic
\* ends the listener thread.
HandleSpawn ==
    /\ ListenerReady("Spawn")
    /\ \/ \E c \in Children :
             /\ proc[c] = "idle"
             /\ proc' = [proc EXCEPT ![c] = "starting"]
             /\ UNCHANGED listening
       \/ /\ listening' = "dead"
          /\ UNCHANGED proc
    /\ UNCHANGED <<living, hb, pinged, responders, suspect, killMsgs,
                   cmdsSent, killed, registered, mustDie, givenUp>>

\* Kill: a thread exits the process after 3 seconds.
HandleKill ==
    /\ ListenerReady("Kill")
    /\ proc' = [proc EXCEPT ![Self] = IF @ = "up" THEN "dying" ELSE @]
    /\ UNCHANGED <<living, hb, pinged, responders, suspect, listening,
                   killMsgs, cmdsSent, killed, registered, mustDie, givenUp>>

\* Ping, Type, Census, unrecognised: a reply and no state change.
HandleQuery ==
    /\ ListenerReady("Query")
    /\ UNCHANGED <<proc, living, hb, pinged, responders, suspect, listening,
                   killMsgs, cmdsSent, killed, registered, mustDie, givenUp>>

(* The other processes.                                                    *)

\* A child subscribes to its channels and publishes Ready on the control
\* channel; the spawner gets it only if its listener is subscribed.
ChildStart(c) ==
    /\ proc[c] = "starting"
    /\ proc' = [proc EXCEPT ![c] = "up"]
    /\ inbox' = IF SpawnerRunning /\ listening = "yes"
                THEN Append(inbox, ReadyMsg(c)) ELSE inbox
    /\ UNCHANGED <<living, hb, pinged, responders, suspect, listening,
                   killMsgs, cmdsSent, killed, registered, mustDie, givenUp>>

\* A process handles a Kill addressed to it: exit after a 3 second grace.
ReceiveKill(p) ==
    /\ p \in killMsgs
    /\ Responding(p)
    /\ killMsgs' = killMsgs \ {p}
    /\ proc' = [proc EXCEPT ![p] = IF @ = "up" THEN "dying" ELSE @]
    /\ UNCHANGED <<living, hb, pinged, responders, suspect, listening,
                   inbox, cmdsSent, killed, registered, mustDie, givenUp>>

\* std::process::exit(0) at the end of the grace period.
Exit(p) ==
    /\ proc[p] = "dying"
    /\ proc' = [proc EXCEPT ![p] = "dead"]
    /\ UNCHANGED <<living, hb, pinged, responders, suspect, listening,
                   inbox, killMsgs, cmdsSent, killed, registered, mustDie, givenUp>>

\* Any other process may crash at any time.
Crash(p) ==
    /\ p \in Children \cup Stragglers
    /\ proc[p] \in {"starting", "up"}
    /\ proc' = [proc EXCEPT ![p] = "dead"]
    /\ UNCHANGED <<living, hb, pinged, responders, suspect, listening,
                   inbox, killMsgs, cmdsSent, killed, registered, mustDie, givenUp>>

\* The controller publishes a command to the spawner.  A Spawn is only sent
\* while a uuid is left for it (a bound of the model, not of the code).
SendCommand(c) ==
    /\ cmdsSent < MaxCmds
    /\ SpawnerRunning
    /\ listening = "yes"
    /\ c = "Spawn" =>
          Cardinality({x \in Children : proc[x] = "idle"})
            > Len(SelectSeq(inbox, LAMBDA m : m.cmd = "Spawn"))
    /\ inbox' = Append(inbox, CmdMsg(c))
    /\ cmdsSent' = cmdsSent + 1
    /\ UNCHANGED <<proc, living, hb, pinged, responders, suspect, listening,
                   killMsgs, killed, registered, mustDie, givenUp>>

-----------------------------------------------------------------------------
MainThread ==
    \/ InitSpawnMM \/ BroadcastPing \/ CloseWindow \/ KillStragglers
    \/ RegisterSelf \/ AllPresent \/ CheckMissing \/ RemoveSuspect
    \/ ProbeAnswered \/ ProbeTimedOut

ListenerThread ==
    \/ Subscribe \/ HandleReady \/ HandleKillAll \/ HandleSpawn
    \/ HandleKill \/ HandleQuery

Next ==
    \/ MainThread
    \/ ListenerThread
    \/ \E p \in Procs : ReceiveKill(p) \/ Exit(p) \/ Crash(p)
    \/ \E c \in Children : ChildStart(c)
    \/ \E c \in ControllerCmds : SendCommand(c)

\* Threads that are not blocked get scheduled, timers fire, booting
\* processes finish booting and a process handles the Kill it received.
\* Crashes and controller commands get no fairness.
Fairness ==
    /\ WF_vars(MainThread)
    /\ WF_vars(ListenerThread)
    /\ \A c \in Children : WF_vars(ChildStart(c))
    /\ \A p \in Procs : WF_vars(ReceiveKill(p)) /\ WF_vars(Exit(p))

Spec == Init /\ [][Next]_vars /\ Fairness

-----------------------------------------------------------------------------
TypeOK ==
    /\ proc \in [Procs -> {"idle", "starting", "up", "dying", "dead"}]
    /\ living \in Seq(Procs)
    /\ pinged \subseteq Procs /\ responders \subseteq Procs
    /\ suspect \in Procs \cup {NoInstance}
    /\ hb \in {"remove", "probe"} => suspect \in Procs
    /\ listening \in {"no", "subscribing", "yes", "dead"}
    /\ inbox \in Seq([cmd : Cmds \cup {"Ready"}, id : Procs])
    /\ killMsgs \subseteq killed /\ killed \subseteq Procs
    /\ cmdsSent \in 0..MaxCmds
    /\ givenUp \subseteq Procs

\* Safety: the spawner never lists one process twice in living.  The
\* heartbeat's remove_instance before the Type probe is what keeps the
\* re-add of a suspect that answered from duplicating it.
NoDuplicateInstances == IsInjective(living)

\* Safety (spec 4.8 failure semantics and 8.11, respawn gating): the
\* heartbeat drops a registered process that is still running and was
\* never sent Kill only after its confirming Type probe timed out.  While
\* no probe of it failed, it stays in living or is the suspect being
\* probed, to be re-added if it answers: a missed Pong window alone,
\* however often, never forgets it.
ForgottenOnlyAfterFailedProbe ==
    \A i \in registered :
        (Responding(i) /\ i \notin killed /\ i \notin givenUp) => i \in Known

\* Liveness: while the spawner runs, a dead process listed in living is
\* eventually deregistered by the heartbeat, even if other instances keep
\* missing the Ping window (re-added suspects go to the back of living).
Unresponsive(i) == proc[i] = "dead" \/ (i = Self /\ listening = "dead")

DeadEventuallyDeregistered ==
    \A i \in Procs :
        (i \in ToSet(living) /\ Unresponsive(i))
            ~> (i \notin ToSet(living) \/ ~SpawnerRunning)

\* Spec 4.8 (KillAllInstances: "for each known instance, send Kill"): every
\* instance the spawner knew of when it handled KillAllInstances, including
\* the one the heartbeat is probing, has been sent Kill.
KillAllReachesEveryKnown == mustDie \subseteq killed

\* Spec 4.8 bootstrap: Kill is sent at start-up only to stragglers of a
\* prior run; any other Kill goes to an instance the spawner registered.
KillsOnlyStragglersOrKnown == killed \subseteq Stragglers \cup registered

\* Spec 3 ("instance records appear on Ready or local spawn"): a child the
\* spawner launched and that is up is eventually registered, unless it is
\* killed, dies, or the spawner's listener is gone.
SpawnedEventuallyRegistered ==
    \A c \in Children :
        proc[c] = "up"
            ~> \/ c \in registered
               \/ proc[c] \in {"dying", "dead"}
               \/ ~SpawnerRunning \/ listening = "dead"

=============================================================================
