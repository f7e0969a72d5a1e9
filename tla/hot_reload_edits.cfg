SPECIFICATION Spec
CONSTANTS
  Files = {"a.css", "b.css"}
  Paced = FALSE
  MaxWrites = 3
  MaxWatches = 2
CHECK_DEADLOCK FALSE
INVARIANTS EditsAccounted
