CONSTANTS
  Peers <- TwoPeers
  MaxCalls = 2
  MaxCommands = 5
  MaxLinks = 2
SPECIFICATION Spec
CHECK_DEADLOCK FALSE
INVARIANTS
  CrashHasCause
  PeerKnown
  ServiceUnderOwner
  LastWishHolds
