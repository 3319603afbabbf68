CONSTANTS
  Threads = {t1, t2, t3, t4}
  Nobody = Nobody
  Readers = Readers
SPECIFICATION FairSpec
INVARIANTS TypeOK MutualExclusion
PROPERTIES NoStolenWriteLock SomebodyGetsIn
