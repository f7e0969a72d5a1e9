SPECIFICATION FairSpec
CONSTANTS
  Files = {"a.css", "b.css"}
  Paced = TRUE
  MaxWrites = 3
  MaxWatches = 2
CHECK_DEADLOCK FALSE
INVARIANTS QuietAfterDetach EditsAccounted
PROPERTIES EditsLoaded DetachReturns
