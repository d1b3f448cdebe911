SPECIFICATION FairSpec
CONSTANTS
  t1 = t1
  c1 = c1
  c2 = c2
  p1 = p1
  p2 = p2
  NoCall = NoCall
  NoPost = NoPost
  Posts <- MCPosts
  Traces <- MCTraces
  Calls <- MCCalls
  TraceOf <- MCTraceOf
\* A conversation ends: every call over and no answer left to post.
CHECK_DEADLOCK FALSE
INVARIANTS
  AnswerConsumedOnce
  NoLostWakeup
  NoPendingAfterStop
PROPERTIES
  KeepsPromise
  CallEnds
  CardsSettle
