---------------------------- MODULE MCTestQueue ----------------------------
(* Small instances of the test queue.                                       *)
EXTENDS TestQueue

CONSTANTS a, b, r

MCFps == {a, b}
MCWorkers == 1 .. 2
MCTasks == 1 .. 3
MCTuners == {r}
MCBatches == {<<a, b>>}
MCOptions == {"default"}
MCPrios == {0}
MCSizes == 1 .. 2
=============================================================================
