SPECIFICATION ServerSpec
CONSTANTS
  A = a
  B = b
  SEQ_RANGE = 8
  HISTORY = 4
  Careful = TRUE
  MAX_PACKETS = 2
  MAX_STARTS = 2
  MAX_FAULTS = 0
  SUB_MAX = 1
  ReqIds = {1}
  Topics = {"all", "bad"}
  Answers = {1}
  MAX_PUBLISHED = 1
  MAX_DROPS = 1
INVARIANT ServerTypeOK DeliveryOnLiveConnection ServerFollowsLink SubscriptionsOfThisConnection QuietAgreement
