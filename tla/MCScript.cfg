\* Eight scripts with two hooks, and two workers.
SPECIFICATION ScriptSpec
CHECK_DEADLOCK FALSE
CONSTANTS
  Hooks <- TwoHooks
  Func <- HookFunction
  Scripts <- SmallScripts
  NumThreads = 2
  Values = {2}
INVARIANTS
  SeesPrivateCopy
  CollectsEveryThread
