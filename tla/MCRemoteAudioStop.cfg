\* A playback may be stopped at any time.
CONSTANTS
  MaxOps = 3
  LateReplies = FALSE
SPECIFICATION Spec
INVARIANTS PlaybackIsOwn
CHECK_DEADLOCK FALSE
