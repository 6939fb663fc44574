----------------------------- MODULE AgentContract -----------------------------
(***************************************************************************)
(* What agent.Manager and its monitor promise about an agent and its       *)
(* containers, without goroutines, locks or calls that fail: who may make  *)
(* a container and how many, which one a record may name, and who may add  *)
(* a record. AgentLifecycle implements it, whatever its goroutines do.     *)
(***************************************************************************)
EXTENDS Naturals, FiniteSets

CONSTANTS
  Agents,             \* agent ids
  MaxAgents,          \* cfg.MaxAgents
  MaxRestartAttempts  \* containers one accepted call of Run may lead to

VARIABLES
  record,     \* record[a]: the container the node manages for a, 0 for none
  container,  \* container[a]: the container that exists for a, 0 for none
  making,     \* making[a]: containers made and not yet recorded or given up
  admitted,   \* agents whose Run was accepted and has not ended
  made,       \* made[a]: containers made for a so far
  runs        \* runs[a]: calls of Run accepted for a so far

contractVars == <<record, container, making, admitted, made, runs>>

Managed == {a \in Agents : record[a] # 0}

Init ==
  /\ record = [a \in Agents |-> 0]
  /\ container = [a \in Agents |-> 0]
  /\ making = [a \in Agents |-> {}]
  /\ admitted = {}
  /\ made = [a \in Agents |-> 0]
  /\ runs = [a \in Agents |-> 0]

\* Run is accepted for an agent that is not managed, while there is a free
\* slot and no other call of Run under way.
Accept(a) ==
  /\ record[a] = 0 /\ admitted = {}
  /\ Cardinality(Managed) < MaxAgents
  /\ admitted' = {a}
  /\ runs' = [runs EXCEPT ![a] = @ + 1]
  /\ UNCHANGED <<record, container, making, made>>

\* It fails before it has a container.
Refuse(a) ==
  /\ a \in admitted
  /\ admitted' = {}
  /\ UNCHANGED <<record, container, making, made, runs>>

\* A container is made while the agent has none, and is paid for: each call of
\* Run allows MaxRestartAttempts of them, and so does each renewal.
Make(a, renewals) ==
  /\ container[a] = 0
  /\ made[a] < MaxRestartAttempts * (runs[a] + renewals)
  /\ made' = [made EXCEPT ![a] = @ + 1]
  /\ container' = [container EXCEPT ![a] = made'[a]]
  /\ making' = [making EXCEPT ![a] = @ \cup {made'[a]}]
  /\ UNCHANGED <<record, admitted, runs>>

\* A container in the making enters the record, each once at the most: for
\* the call of Run, which so ends, or in place of the one that is recorded.
Record(a, c) ==
  /\ c \in making[a]
  /\ \/ record[a] = 0 /\ a \in admitted /\ admitted' = {}
     \/ record[a] # 0 /\ UNCHANGED admitted
  /\ record' = [record EXCEPT ![a] = c]
  /\ making' = [making EXCEPT ![a] = @ \ {c}]
  /\ UNCHANGED <<container, made, runs>>

\* It is given up instead, removed or not, and Run ends if it was Run's.
Discard(a, c) ==
  /\ c \in making[a]
  /\ making' = [making EXCEPT ![a] = @ \ {c}]
  /\ admitted' \in {admitted, admitted \ {a}}
  /\ \/ UNCHANGED container
     \/ container[a] = c /\ container' = [container EXCEPT ![a] = 0]
  /\ UNCHANGED <<record, made, runs>>

\* A container disappears: the node or somebody else has removed it.
Remove(a) ==
  /\ container[a] # 0
  /\ container' = [container EXCEPT ![a] = 0]
  /\ UNCHANGED <<record, making, admitted, made, runs>>

\* The agent is not managed any more, whatever becomes of its container.
Drop(a) ==
  /\ record[a] # 0
  /\ record' = [record EXCEPT ![a] = 0]
  /\ UNCHANGED <<container, making, admitted, made, runs>>

Step(a, renewals) ==
  \/ Accept(a) \/ Refuse(a) \/ Make(a, renewals) \/ Remove(a) \/ Drop(a)
  \/ \E c \in making[a] : Record(a, c) \/ Discard(a, c)

Next == \E a \in Agents : Step(a, 0)

Spec == Init /\ [][Next]_contractVars
=============================================================================
