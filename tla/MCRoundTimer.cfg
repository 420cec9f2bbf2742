SPECIFICATION FairSpec
CONSTANTS
  None = None
  t1 = t1
  t2 = t2
  t3 = t3
  Timers = {t1, t2, t3}
INVARIANT
  LeaderHasTimer
PROPERTY
  LeaderKeepsProposing
