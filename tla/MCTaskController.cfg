\* Two processes of which three are started, a task and one that depends on it,
\* and the limits of config.json.
CONSTANTS
  Procs = {p1, p2}
  Roadmap <- MCRoadmap
  DependsOn <- MCDependsOn
  Named = {"b"}
  MaxStarts = 3
  MaxAttempts = 2
  MaxRecoveries = 1
  None = None
  Dead = Dead
SPECIFICATION Spec
\* All the processes may have been started and have ended, or a lock was
\* removed from under its owner, where the model stops.
CHECK_DEADLOCK FALSE
SYMMETRY Symmetry
INVARIANTS ControllersAreExclusive 
PROPERTIES CompletionIsEarned RetriesRunOut
