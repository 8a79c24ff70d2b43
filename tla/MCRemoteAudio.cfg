\* Replies come in time.  The test case ends when it has no operations left.
CONSTANTS
  MaxOps = 4
  LateReplies = FALSE
SPECIFICATION FairSpec
INVARIANTS IInv RecordingIsOwn TimesOutOnlyDeaf PostsAwaited OneAtATime
PROPERTIES CallsReturn
CHECK_DEADLOCK FALSE
