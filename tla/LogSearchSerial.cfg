SPECIFICATION FairSpec
CONSTANTS
  g1 = g1
  t1 = t1
  t2 = t2
  h1 = h1
  h2 = h2
  NoGroup = NoGroup
  Groups = {g1}
  Targets = {t1, t2}
  TiKV = {t1}
  Handlers = {h1}
  Ops = {"create", "retry", "cancel", "delete"}
  TaskMaxPreviewLines = 1
  TaskGroupMaxPreviewLines = 2
  MaxStarts = 2
  MaxRestarts = 1
INVARIANTS
  TypeOK
  DownloadReady
  NoOrphanRows
  NoLeakedFile
  LiveGroupListedRunning
  ReceivedLogIsKept
PROPERTY
  CancelEndsRun
CHECK_DEADLOCK FALSE
