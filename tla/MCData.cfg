\* A run of the built-in scraper over three targets, refusals and failures in
\* every order; two pages; exports of two rows; histories of three records;
\* two videos and two writes while figures are computed.
SPECIFICATION SceneSpec
CONSTANTS
  Targets = {t1, t2, t3}
  Accounts = {a1}
  NoAccount = NoAccount
  MaxAttempts = 1
  MaxChecks = 1
  BatchSize = 3
  ExternalLease = 1
  InternalLease = 2
  RunLimit = 1
  Backoff = 1
  BlocksBeforeAbort = 2
  FailuresBeforeAbort = 3
  Copies = 1
  MailLimit = 0
  Patient = FALSE
  ListLength = 2
  RateDelay = 3
  RateJitter = 1
  Pauses = {0, 2}
  WatchWindow = {1, 2}
  Exports <- SampleExports
  EarlyExports <- EarlySamples
  CaptionLists <- SomeCaptions
  WindowStart <- FridayMorning
  Reference <- SomeReference
  Donations <- SomeDonations
  Catalogues <- SomeCatalogues
  PartyOf <- Parties
  TopCount = 1
  Videos = {1, 2}
  Databases <- SomeDatabases
  Refreshes = {r1}
  WriteLimit = 2
  RowLimit = 1
  QueueLimit = 1
SYMMETRY Symmetry
CHECK_DEADLOCK FALSE
INVARIANTS EveryTypeOK BlockedRunSpares RequestsPaced NothingLost ContentSpared
INVARIANTS ReportAddsUp FilterNeutral FiguresHonest
