\* Two accounts and the built-in scraper on one target; results sent twice.
CONSTANTS
  Targets = {t1}
  Accounts = {a1, a2}
  NoAccount = NoAccount
  MaxAttempts = 2
  MaxChecks = 2
  BatchSize = 1
  ExternalLease = 1
  InternalLease = 2
  RunLimit = 1
  Backoff = 1
  BlocksBeforeAbort = 2
  FailuresBeforeAbort = 2
  Copies = 2
  MailLimit = 2
  Patient = FALSE
SYMMETRY Symmetry
SPECIFICATION Spec
INVARIANTS MemoryIsCurrent ScrapedOnce ChecksBounded
PROPERTY SettledStays
