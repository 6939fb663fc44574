---------------------------- MODULE MCNodeProcess ----------------------------
(* NodeProcess for TLC: machines on which the defaults, the environment, the *)
(* cap and the validation each decide, and on two of them the commands look  *)
(* for the PID file where it is not. A node is only a process id.            *)
EXTENDS NodeProcess, TLC

File(agents, memory) ==
  [agents |-> agents, cpu |-> 0, memory |-> memory, storage |-> 0, beat |-> 0]
Home == [flag |-> "", env |-> "", file |-> "", config |-> FALSE]
Elsewhere == [Home EXCEPT !.flag = "here"]
Machine(file, env, total, dirs) ==
  [file |-> file, env |-> env, total |-> total, dirs |-> dirs]

Machines ==
  { Machine(File(10, 512), [memory |-> 2048, beat |-> 0], 8192, Home),
    Machine(File(10, 0), [memory |-> 512], 1000, Home),
    Machine(File(10, 0), [memory |-> 0], 1000, Home),
    Machine(File(3, 0), [agents |-> 2], 0, Elsewhere),
    Machine(File(2, 4096), [f \in {} |-> 0], 1000, Elsewhere) }

AnyNode == Permutations(Nodes)
=============================================================================
