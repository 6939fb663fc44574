------------------------------ MODULE NodeConfig ------------------------------
(***************************************************************************)
(* What a node makes of its configuration (internal/config): config.Load   *)
(* fills in defaults, lets the environment override them and caps the      *)
(* number of agents by the memory of the machine; validateResourceLimits   *)
(* refuses what is left of nonsense. A configuration holds the numbers     *)
(* something depends on. In the file 0 is "not set"; the environment is a  *)
(* record of the variables that are set to a number, as Atoi's errors are  *)
(* ignored.                                                                *)
(***************************************************************************)
EXTENDS Integers

Fields == {"agents", "cpu", "memory", "storage", "beat"}
Configs == [Fields -> Int]
IsEnvironment(env) == DOMAIN env \subseteq Fields /\ env \in [DOMAIN env -> Int]

Reserved == 256        \* MB kept for the system
LeastMemory == 1024    \* MB per agent
LeastStorage == 100    \* MB per agent

Or(value, default) == IF value = 0 THEN default ELSE value

SetDefaults(file) ==
  [agents |-> Or(file.agents, 50),
   cpu |-> Or(file.cpu, 1),
   memory |-> IF file.memory < LeastMemory THEN LeastMemory ELSE file.memory,
   storage |-> Or(file.storage, 10240),
   beat |-> Or(file.beat, 10)]

ApplyEnvOverrides(cfg, env) ==
  [f \in Fields |-> IF f \in DOMAIN env THEN env[f] ELSE cfg[f]]

\* Four fifths of the memory, and never the reserved part.
Usable(total) ==
  LET most == (4 * total) \div 5
      rest == total - Reserved
      least == IF rest < most THEN rest ELSE most
  IN  IF least < 0 THEN 0 ELSE least

\* A negative size divides to less than 1.
MaxByMemory(memory, total) ==
  LET n == IF memory > 0 THEN Usable(total) \div memory ELSE 0
  IN  IF n < 1 THEN 1 ELSE n

\* A total of 0 is memory that could not be measured.
CapMaxAgents(cfg, total) ==
  LET most == MaxByMemory(cfg.memory, total)
  IN  IF total # 0 /\ most < cfg.agents THEN [cfg EXCEPT !.agents = most] ELSE cfg

\* Mutant of Effective: the cap is computed before the environment is read.
EffectiveCappedEarly(file, env, total) ==
  ApplyEnvOverrides(CapMaxAgents(SetDefaults(file), total), env)

Effective(file, env, total) ==
  CapMaxAgents(ApplyEnvOverrides(SetDefaults(file), env), total)

\* The cap divides by the memory of an agent before anything validates it.
LoadPanics(file, env, total) ==
  total # 0 /\ ApplyEnvOverrides(SetDefaults(file), env).memory = 0

ValidLimits(cfg) ==
  /\ cfg.memory >= LeastMemory
  /\ cfg.cpu >= 1
  /\ cfg.agents >= 1
  /\ cfg.storage >= LeastStorage

\* rand.Int63n panics unless the interval is positive; nothing validates it.
HeartbeatPanics(cfg) == cfg.beat <= 0

\* The directory of the PID file, for the daemon and for the commands stop and
\* update; "" is not set, "home" the default. The daemon does not read --wallet-dir,
\* and a command reads the configuration only if it was given --config.
FirstSet(a, b) == IF a # "" THEN a ELSE b
DaemonDir(dirs) == FirstSet(dirs.env, FirstSet(dirs.file, "home"))
CommandDir(dirs) ==
  FirstSet(dirs.flag, FirstSet(dirs.env, IF dirs.config THEN DaemonDir(dirs) ELSE "home"))
=============================================================================
