------------------------------ MODULE NodeContract ------------------------------
(***************************************************************************)
(* The contract of AgentContract over the lives of a node. What ends with  *)
(* a process are its records, its call of Run and the containers in the    *)
(* making; containers stay. The next start takes stock of them, and before *)
(* it manages them again it may give up some. NodeLife implements it.      *)
(***************************************************************************)
EXTENDS AgentContract

VARIABLES
  phase,  \* "off", "starting" or "up"
  lives,  \* how often the node was started: each renews one budget
  seen    \* seen[a]: the container a start found and has not given up, 0 for none

nodeContractVars == <<contractVars, phase, lives, seen>>

Nothing == [a \in Agents |-> 0]

NodeInit == Init /\ phase = "off" /\ lives = 0 /\ seen = Nothing

\* Agents are worked on only while the node is up.
Live(a) ==
  /\ phase = "up"
  /\ Step(a, lives)
  /\ UNCHANGED <<phase, lives, seen>>

\* Containers disappear at any time.
Vanish(a) == Remove(a) /\ UNCHANGED <<phase, lives, seen>>

\* The containers are listed; a node that fails to comes up with none of them.
Start ==
  /\ phase = "off"
  /\ lives' = lives + 1
  /\ \/ phase' = "starting" /\ seen' = container
     \/ phase' = "up" /\ UNCHANGED seen
  /\ UNCHANGED contractVars

\* One that was found is given up, removed or not.
GiveUp(a) ==
  /\ phase = "starting" /\ seen[a] # 0
  /\ seen' = [seen EXCEPT ![a] = 0]
  /\ \/ UNCHANGED container
     \/ container[a] = seen[a] /\ container' = [container EXCEPT ![a] = 0]
  /\ UNCHANGED <<record, making, admitted, made, runs, phase, lives>>

\* Every other one is managed again.
Restore ==
  /\ phase = "starting"
  /\ phase' = "up"
  /\ record' = seen
  /\ seen' = Nothing
  /\ UNCHANGED <<container, making, admitted, made, runs, lives>>

\* The process ends, by a Shutdown or a crash.
End ==
  /\ phase # "off"
  /\ phase' = "off"
  /\ record' = Nothing
  /\ making' = [a \in Agents |-> {}]
  /\ admitted' = {}
  /\ seen' = Nothing
  /\ UNCHANGED <<container, made, runs, lives>>

NodeNext ==
  \/ \E a \in Agents : Live(a) \/ Vanish(a) \/ GiveUp(a)
  \/ Start \/ Restore \/ End

NodeSpec == NodeInit /\ [][NodeNext]_nodeContractVars
=============================================================================
