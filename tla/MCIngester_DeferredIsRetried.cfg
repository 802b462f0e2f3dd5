CONSTANTS
  s1 = s1
  s2 = s2
  None = None
  Matches = {m1, m2}
  Ids = {i1, i2}
  Scores = {s1, s2}
  FeedSnapshots <- MCFeedSnapshots
  MaxFeedChanges = 2
  MaxFaults = 1
SPECIFICATION Spec
INVARIANT DeferredIsRetried
