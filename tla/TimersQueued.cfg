CONSTANTS
  REKEY_TIMEOUT = 1
  KEEPALIVE_TIMEOUT = 2
  REKEY_ATTEMPT_TIME = 4
  REKEY_AFTER_TIME = 5
  REJECT_AFTER_TIME = 9
  persistent_keepalive = 3
  MaxStep = 2
SPECIFICATION TimersSpec

PROPERTY QueuedIsTried
