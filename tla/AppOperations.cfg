SPECIFICATION Spec
CONSTANTS
  Op <- MCOp
  Resource <- MCResource
  Halves <- MCHalves
  Umbrella = "repository"
  Access <- MCAccess
  Session <- MCSession
  Droppable <- MCDroppable
INVARIANTS NobodyForgotten DeletionRunsAlone UnsafeStaysFenced
PROPERTIES ImplementsLocks OvertakesBehindSessions QueuedIsServed DrainEnds
