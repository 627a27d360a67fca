SPECIFICATION FairSpec
CONSTANTS
  Configs <- SingleAndSmp
  w1 = w1
INVARIANTS
  DenseFromStart
  PerVcpuOrder
  SamplesSpaced
  RateLimitKeepsOneInN
  EndIsHonest
PROPERTIES
  CallbacksReturn
CHECK_DEADLOCK FALSE
