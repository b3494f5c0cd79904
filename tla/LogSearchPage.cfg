SPECIFICATION FairSpec
CONSTANTS
  Tasks = {t1, t2}
  MaxErrors = 1
  MaxRetries = 1
INVARIANTS
  NoStrayTimer
  DownloadsFinished
  PollsUntilTheEnd
PROPERTY PageShowsTheEnd
CHECK_DEADLOCK FALSE
