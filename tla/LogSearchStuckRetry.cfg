SPECIFICATION Spec
CONSTANTS
  g1 = g1
  t1 = t1
  t2 = t2
  h1 = h1
  h2 = h2
  NoGroup = NoGroup
  Groups = {g1}
  Targets = {t1}
  TiKV = {}
  Handlers = {h1}
  Ops = {"create", "retry"}
  TaskMaxPreviewLines = 1
  TaskGroupMaxPreviewLines = 1
  MaxStarts = 2
  MaxRestarts = 0
INVARIANT
  RunningGroupHasRun
CHECK_DEADLOCK FALSE
