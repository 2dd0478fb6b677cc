SPECIFICATION PlatformSpec
CONSTANTS
  Texts = {t0, t1}
  CompleteTexts = {t1}
  Amenities = {a1}
  Categories = {c1}
  Tabs = {tab1}
  MinimumImages = 1
  MaxImages = 1
  Unused = Unused
  Things = {x1, x2}
  Twins = {y1, y2}
  Passwords = {"p1", "p2"}
  NoPassword = ""
  Sessions = {"s1"}
  ResetLinks = {"l1"}
  FailedLoginLimit = 1
  VerifyFirst = TRUE
  MaxVersion = 3
  DeviceKeys = {"k1", "k2"}
  Asks = {"a1", "a2", "a3"}
  NoAccount = ""
  StripeEvents = {"e1"}
  Messages = {"m1", "m2"}
  Replies = {"p1", "p2"}
  LastFile = 3
  Objects = {"table", "column", "rule", "index", "trigger"}
  Home <- HomeInRun
  Repeatable = {"table", "index"}
  Replacing = {"trigger"}
  ManifestFiles = {1, 3}
  Clicks = 3
  StayNights = 2
  MaxKey = 2
  Fetches = {"f1"}
  FeedNights = 4
  MaxEvents = 2
  LongestKey = 3
  NoFeed = ""
  MaxFeeds = 2
  LastDay = 4
  Today = 2
  Horizon = 3
  MostGuests = 2
  NightlyPrices = {7, 25}
  CleaningFees = {5}
  PricedNights = {3}
  VatRates = {20}
  NoRate = 1000
  Slices = {1, 4}
  MoneyRefunds = 3
SYMMETRY Interchangeable
INVARIANTS
  ApprovalStillTrue
  LiveWasReviewed
  PartsTypeOK
  SessionsAreCurrent
  OneSignInPerProof
  LastReviewCounts
  RecordedIsComplete
  ControlIsTrue
  CheckoutIsForRequest
  RefundsFit
  FeedIsUnderstood
  ListIsCurrent
  SearchAgreesWithBooking
  MoneyAddsUp
PROPERTIES
  ChangeVoidsApproval
  NoDeletionOfCancelled
CHECK_DEADLOCK FALSE
