SPECIFICATION Spec
CONSTANTS
  Oid = {o1, o2}
  FileId = {f1, f2}
  Zero = zero
  Data = {d1, d2}
  Oversize = big
  MaxVersion = 3
  MaxEntries = 3
  Slot = {n1, n2}
  Faults = FALSE
  Missing = missing
  Torn = torn
PROPERTY RenamedObjectOpens
