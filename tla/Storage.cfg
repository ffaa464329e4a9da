SPECIFICATION MCSpec
CONSTANTS
  Oid = {o1, o2}
  FileId = {f1, f2}
  Zero = zero
  Data = {d1, d2}
  Oversize = big
  MaxVersion = 2
  MaxEntries = 3
  Slot = {n1, n2}
  Faults = TRUE
  Missing = missing
  Torn = torn
  CHUNK = 2
  Path = {p1, p2}
  Contents <- MCContents
  NoFile = nofile
  MaxFd = 2
  MaxOrphans = 1
SYMMETRY StorageSymmetry
INVARIANTS TypeOK NoStaleData OnlyObjectOpens DescriptorsClosed
PROPERTIES AckedWriteOpens FileCallsExact
