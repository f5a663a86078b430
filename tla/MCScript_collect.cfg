\* As MCScript.cfg, for what doc/script-api.rst says of run() and collect().
SPECIFICATION ScriptSpec
CHECK_DEADLOCK FALSE
CONSTANTS
  Hooks <- TwoHooks
  Func <- HookFunction
  Scripts <- SmallScripts
  NumThreads = 2
  Values = {2}
INVARIANT
  RunCollects
