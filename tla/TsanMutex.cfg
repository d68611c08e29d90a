SPECIFICATION FairSpec
CONSTANT Thread = {t1, t2, t3}
INVARIANTS MutualExclusion StateCountsHolders AssertionsHold
PROPERTIES ReadersHavePreference WaitersEnter ImplementsRWLock
