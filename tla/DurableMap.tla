----------------------------- MODULE DurableMap -----------------------------
(***************************************************************************)
(* What the node's agent-state store promises, whatever its threads do:    *)
(* stable storage only ever receives the agent map that is current at that *)
(* moment, and a restarted node begins with the stored map or with none.   *)
(* A map is named by the number of the change that produced it; change 0   *)
(* is the empty map.                                                       *)
(***************************************************************************)
EXTENDS Naturals

VARIABLES
  agents,   \* the map in memory
  changes,  \* how many changes were ever made, over all lives of the node
  disk      \* the last map written completely

vars == <<agents, changes, disk>>

Init ==
  /\ agents = 0
  /\ changes = 0
  /\ disk = 0

Change ==
  /\ changes' = changes + 1
  /\ agents' = changes'
  /\ UNCHANGED disk

Flush ==
  /\ disk' = agents
  /\ UNCHANGED <<agents, changes>>

Reload ==
  /\ agents' \in {disk, 0}
  /\ UNCHANGED <<changes, disk>>

Next == Change \/ Flush \/ Reload

Spec == Init /\ [][Next]_vars
=============================================================================
