CONSTANTS
  HandleBody <- readBodyHandler
  HandleTick <- tick
  HandleIO <- handleIO
  Broadcast <- broadcast
  Drop <- dropWith
  Addresses <- MCAddresses
  Private = {}
  MAX_FAILURES = 1
  REALLY_DEAD_NUM_FAILURES_CUTOFF = 1
  FailureBound = 2
  Connections <- MCConnections
  CallerOf <- MCCallerOf
  AddressOf <- MCAddressOf
  PEER_TIMEOUT = 2
  PEER_STRAGGLER_TIMEOUT = 3
  TARGET_PEER_CONNECTIONS = 2
  MAX_ADDITIONAL_PEER_CONNECTIONS = 1
  MAX_OUTBOUND_PENDING_CONNECTIONS = 2
  MAX_INBOUND_PENDING_CONNECTIONS = 1
  POSSIBLY_PREFERRED_EXTRA = 1
  PREFERRED_PEERS_ONLY = FALSE
  NetworkOf <- MCNetworkOf
  FLOOD_LEEWAY = 2
  Nodes <- MCNodes
  KnownPeers <- MCKnownPeers
  PreferredPeers <- MCPreferredPeers
  PreferredKeys <- MCPreferredKeys
  MAX_TX_AGE = 2
  MaxLedgerSeq = 4
  Scenarios = {"crossing", "slots", "race", "idle", "ban", "self", "tick", "promote", "flood", "envelopes"}
SPECIFICATION MCSpec
INVARIANTS ListsAreRight HonestPeersAuthenticate
PROPERTIES FloodOnce ConnectionsEnd
CHECK_DEADLOCK FALSE
