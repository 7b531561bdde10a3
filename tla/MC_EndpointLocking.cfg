CONSTANTS
  c1 = c1
  c2 = c2
  n1 = n1
  n2 = n2
  NoConn = NoConn
  Conns <- MCConns
  Names <- MCNames
  Uid <- MCUid
  Gid <- MCGid
  FsUid <- MCUid
  Privileged = {}
  EpOf <- MCEpOf
  Rules <- MCRules
  MaxBatch = 1
  Src = c1
  Dst = c2
  NameLen <- MCNameLen
  WriterLocks = {"conn_lock", "names_lock"}
SPECIFICATION Spec
INVARIANTS
  TypeOK
  LockedChecksAtomic
  SrcNamesCopyFits
