SPECIFICATION FairSpec
CONSTANTS
  Queries = {q1, q2}
  NoData = NoData
  MaxUnread = 1
  MaxRequests = 3
INVARIANTS IInv RepliesAreAwaited ControlsAreTrue ResultsMatchText
PROPERTIES ControlsComeBack RetryEnds
