\* A replay-safe call on either side of one that is not, with an operator who
\* answers.
SPECIFICATION FairSpec
CONSTANTS
  N = 3
  Safe = {1, 3}
  MaxCrashes = 2
  MaxPauses = 2
INVARIANTS JournalSafety EvidenceAgrees
PROPERTIES NothingRunsPastUnknown OnceSpec EventuallyDelivered
CHECK_DEADLOCK FALSE
