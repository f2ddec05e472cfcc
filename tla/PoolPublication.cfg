\* Four generations hold create, release, hand-off and the removal of the
\* cursor.  Two hand-offs per pass: the second may fail after the first was done.
CONSTANTS
  Objects = {o1, o2}
  MaxGeneration = 4
  MaxPlans = 2
  HandoffLimit = 2
SPECIFICATION FairSpec
INVARIANTS TypeOK GraphStored PlansStored ReopenOldOrNew
PROPERTIES UncertainKeepsStore DiskAdvances NothingForgotten OperationsEnd
