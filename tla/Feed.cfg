SPECIFICATION FairSpec
CONSTANTS
  index = index
  s1 = s1
  s2 = s2
  Feeds <- MCFeeds
  Indices <- MCIndices
  Bands <- MCBands
  Overlaps = FALSE
  MaxFaults = 2
INVARIANTS
  OneFeed
  RegisteredIsSubscribed
PROPERTIES
  FeedComesBack
