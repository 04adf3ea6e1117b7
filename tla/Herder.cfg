CONSTANTS
  MAX_SLOTS_TO_REMEMBER = 2
  NoPeer = "nobody"
  Sane <- MCSane
  Me = "me"
  Peers <- MCPeers
  MyQSet = "q0"
  LEDGER_VALIDITY_BRACKET = 2
  MAX_TIME_SLIP_SECONDS = 3
  TimeNow = 4
  CheckpointFrequency = 2
  CatchupCount = 2
  LedgerHash <- MCLedgerHash
  NetworkHeader <- MCNetworkHeader
  AppliedUpTo <- MCAppliedUpTo
  Has <- MCHas
  HandleEnvelope <- recvSCPEnvelope
  HandleItem <- RecvItem
  HandleTrigger <- triggerNextLedger
  HandleOutOfSync <- herderOutOfSync
  Scenarios = {"fetch", "bad", "track", "vote", "restart"}
  LastSlot = 5
  MaxLost = 1
  MaxCrashes = 1
  MaxLostSync = 2
SPECIFICATION MCSpec
INVARIANTS NoFailure QueueIsDrained SentIsPersisted
PROPERTIES CurrentLedgerAdvances TimersRunOrExpire EnvelopesAreProcessed
CHECK_DEADLOCK FALSE
