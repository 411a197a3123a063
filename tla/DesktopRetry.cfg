SPECIFICATION Spec
CONSTANTS
  Queries = {q1, q2}
  NoData = NoData
  MaxUnread = 1
  MaxRequests = 3
PROPERTIES RetriesThreeSecondsAtMost
