CONSTANTS
  c1 = c1
  c2 = c2
  c3 = c3
  Conns <- MCConns
  EP = EP
  NoThread = NoThread
  MaxActivate = 2
SPECIFICATION Spec
INVARIANTS
  TypeOK
  NoConnUseAfterFree
  EndpointOutlivesConns
PROPERTIES
  DrainTerminates
  FreeReleasesValidRefs
  LifecycleRefinement
