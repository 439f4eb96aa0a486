SPECIFICATION FairSpec
CONSTANTS
  ha = ha
  hb = hb
  hc = hc
  Hosts = {ha, hb, hc}
  Transfers = {w1, w2}
  Configs <- TaskSettings
  Updates <- UserSettings
  Uses <- HostSettings
  Samples = {1, 2}
  MaxLimiters = 2
  MaxObjects = 3
  RecoverAfter = 2
  DeepRatio = 2
  KB = 1
  DefaultFloor = 2
  DefaultLimit = 4
  Unlimited = 99
  None = None
INVARIANTS TypeOK RateInRange HostShares
PROPERTIES RateRecovers
