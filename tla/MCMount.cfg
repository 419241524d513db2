CONSTANTS
  t1 = t1
  t2 = t2
  Threads = {t1, t2}
  FrontEnds = {"rvfs", "fuse"}
  MaxIno = 5
  MaxCrashes = 2
SPECIFICATION FairSpec
INVARIANTS TypeOK FreshNumbers NumberRestored RootAssertion
PROPERTIES SavedNumberGrows CollisionsEnd
