SPECIFICATION FairSpec
CONSTANTS
  Key = {1, 2, 3}
  NoKey = 0
  Scenarios <- OneWrite
  Workers = 2
PROPERTIES Converges
