SPECIFICATION FairSpec
CONSTANTS
  Subscribers <- MCSubscribers
  Modifiers = {m1, m2}
  ChannelCap = 1
  EnableKeyVisualizer = TRUE
  Stored <- MCStored
  Requests <- MCRequests
  Budgets <- MCBudgets
  Groups = {g1}
  Tasks = {t1, t2}
  Clients = {c1}
  Enders = {e1}
  NoGroup = NoGroup
INVARIANTS
  LatestDelivered
  ServiceFollowsConfig
  GroupSumsUpTasks
CHECK_DEADLOCK FALSE
PROPERTIES
  SubscribersCatchUp
  CancelComesBack
