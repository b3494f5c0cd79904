SPECIFICATION Spec
CONSTANTS
  g1 = g1
  t1 = t1
  t2 = t2
  h1 = h1
  h2 = h2
  NoGroup = NoGroup
  Groups = {g1}
  Targets = {t1}
  TiKV = {}
  Handlers = {h1, h2}
  Ops = {"create", "cancel"}
  TaskMaxPreviewLines = 1
  TaskGroupMaxPreviewLines = 1
  MaxStarts = 1
  MaxRestarts = 0
PROPERTY
  CancelReachesTasks
CHECK_DEADLOCK FALSE
