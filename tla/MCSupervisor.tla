---------------------------- MODULE MCSupervisor ----------------------------
(* Model-checking instance of Supervisor: the spawner, two child uuids (the *)
(* MM spawned by init() and one spawned on command) and one straggler.      *)
EXTENDS Supervisor

CONSTANTS s, c1, c2, x1

MCChildren == {c1, c2}
MCStragglers == {x1}

=============================================================================
