SPECIFICATION FairSpec
CONSTANTS
  Writer = {w1, w2}
  Poll = {q1, q2}
  NoWriter = NoWriter
  MaxEvents = 3
INVARIANT NoEventMissed
PROPERTIES ImplementsFeed EventDelivered
CHECK_DEADLOCK FALSE
