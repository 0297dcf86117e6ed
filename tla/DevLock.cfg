CONSTANTS
  Workers = {t1, t2, t3}
  NoThread = NoThread
  ApiEvents = 2
  MayExit = TRUE
  MayPanic = TRUE
SPECIFICATION LockFairSpec
INVARIANTS OneWriter NoStaleYield
PROPERTIES WriterGetsIn ReadersComeBack ExitReachesAll
CHECK_DEADLOCK FALSE
