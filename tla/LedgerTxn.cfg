CONSTANTS
  MIN_VOTES_TO_INCLUDE = 4
  Entries <- AllEntries
  Pairs <- XlmForUsd
  MaxDepth = 3
  MaxLedgerSeq = 2
  BATCH_SIZE = 1
  LEDGER_ENTRY_BATCH_COMMIT_SIZE = 1
  EntryCacheSize = 1
  BestOffersCacheSize = 1
  Scenarios = {"offers", "votes", "handles", "nesting", "tables"}
  MaxWinners = 3
  MinVotes = 5
SPECIFICATION MCSpec
INVARIANTS ReadsAreRight ExactMeansExact
PROPERTY ImplementsNesting
CHECK_DEADLOCK FALSE
