SPECIFICATION FairSpec
CONSTANTS
  t1 = t1
  t2 = t2
  p1 = p1
  p2 = p2
  q1 = q1
  q2 = q2
  NoThread = NoThread
  NoObject = NoObject
  Thread <- MCThread
  Local <- MCLocal
  Owner <- MCOwner
  Key = {k1}
  Object = {1, 2, 3}
INVARIANTS
  Counted
  NoUseAfterDelete
PROPERTIES
  Implements
