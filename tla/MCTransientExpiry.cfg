SPECIFICATION ExpirySpec
SYMMETRY CallbackSymmetry
CONSTANTS
  a1 = a1 a2 = a2 p1 = p1 p2 = p2 c1 = c1 c2 = c2
  App = {a1}
  Pid = {p1}
  AppOf <- OneApp
  Callback = {c1, c2}
  NoApp = NoApp
  NoCallback = NoCallback
  ExemptedApp = {}
  ExemptedQuota = 1
  INIT_QUOTA = 3
  MIN_ALLOW_QUOTA_TIME = 2
  MAX_REQUEST_ID = 2
  AdvanceTime = 1
  WATCHDOG_DELAY_TIME = 1
  Int32Half = 64
  MaxRequests = 2
  DELAY_TIME_NORMAL = 3
  DELAY_TIME_LOW_POWER = 2
  ALLOW_REQUEST_TIME_BG = 1
  QUOTA_UPDATE = 9
  IntMax = 9
  BootTime = 1
  MaxTime = 5
  MaxEvents = 1
INVARIANTS CountedIsCharged RegistriesAgree CountedIsWatched NoStrayEvents NoticesMatch
PROPERTY WarnedInTime
