CONSTANTS
  WORD_SIZE = 2
  N_WORDS = 3
  Readers = {r1, r2}
  MaxCounter = 9
  NoPacket = NoPacket
  REKEY_TIMEOUT = 1
  KEEPALIVE_TIMEOUT = 2
  REKEY_ATTEMPT_TIME = 4
  REKEY_AFTER_TIME = 5
  REJECT_AFTER_TIME = 9
  persistent_keepalive = 3
  MaxStep = 2
  Threads <- MCThreads
  limit = 2
  MaxTroubles = 2
SPECIFICATION NoiseSpec
INVARIANTS WindowExact FewUnproven AttemptsCease SilenceIsBroken
PROPERTIES ImplementsAntiReplay InitiatorGetsIn AttemptsAreFull RekeyedInTime
CHECK_DEADLOCK FALSE
