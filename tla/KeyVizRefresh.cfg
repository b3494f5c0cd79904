SPECIFICATION FairSpec
CONSTANTS
  Metrics = {m1, m2}
  Ranges = {r1}
  Zooms = {z1}
  Intervals = {0, 2, 3}
  ShowSetting = TRUE
  MaxFlights = 2
INVARIANTS
  AutoShowsFullRange
  ShowsTheView
  SpinnerEnds
  ProgressInRange
  TimerIsCurrent
PROPERTY KeepsRefreshing
