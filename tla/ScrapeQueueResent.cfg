\* The documented promise that a result sent twice changes nothing more.
CONSTANTS
  Targets = {t1}
  Accounts = {a1}
  NoAccount = NoAccount
  MaxAttempts = 2
  MaxChecks = 2
  BatchSize = 1
  ExternalLease = 1
  InternalLease = 2
  RunLimit = 1
  Backoff = 1
  BlocksBeforeAbort = 2
  FailuresBeforeAbort = 2
  Copies = 2
  MailLimit = 2
  Patient = FALSE
SPECIFICATION Spec
PROPERTY ResentFailureCountsOnce
