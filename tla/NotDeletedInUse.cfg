SPECIFICATION Spec
CONSTANTS
  t1 = t1
  t2 = t2
  default = default
  memory = memory
  there = there
  missing = missing
  s1 = s1
  s2 = s2
  s3 = s3
  two = two
  one = one
  bad = bad
  NoThread = NoThread
  NoTable = NoTable
  Thread <- MCThread
  Table <- MCTable
  DefaultTable = default
  MemoryTable = {memory}
  MissingTable = {missing}
  Schema <- MCSchema
  Info <- MCInfo
  Unreadable = {bad}
  FirstSchema <- MCFirstSchema
  LastSchema <- MCLastSchema
  TablesOf <- MCTablesOf
  XmpInExif = TRUE
  MaxFiles = 3
  MaxCalls = 3
PROPERTY
  NotDeletedInUse
CHECK_DEADLOCK FALSE
