SPECIFICATION Spec
CONSTANTS
  t1 = t1
  t2 = t2
  t3 = t3
  Threads = {t1, t2, t3}
  NoThread = NoThread
INVARIANTS
  TypeOK
  CountersExact
  MutualExclusion
  RequestFollowsOwner
PROPERTIES
  RendezvousComplete
  ParkedStayParked
  ImplementsRWLock
