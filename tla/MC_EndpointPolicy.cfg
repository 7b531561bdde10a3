CONSTANTS
  c1 = c1
  c2 = c2
  c3 = c3
  n1 = n1
  n2 = n2
  NoConn = NoConn
  Conns <- MCConns
  Names <- MCNames
  Uid <- MCUid
  Gid <- MCGid
  FsUid <- MCFsUid
  Privileged <- MCPrivileged
  EpOf <- MCEpOf
  Rules <- MCRules
  MaxBatch = 2
SPECIFICATION Spec
INVARIANTS
  TypeOK
  CustomOnlyRestricts
  CustomDenialsHideExistence
  OwnedNamesPermitted
