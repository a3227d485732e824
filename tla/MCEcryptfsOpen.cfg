SPECIFICATION MCSpec
CONSTANTS
  p = p
  q = q
  Tasks = {t1, t2}
  Password = {p}
  Private = {q}
  None = None
  MaxCalls = 4
  CallsTogether = 3
  MaxChanged = 1
  MaxSize = 2
  Mounts <- MCMounts
  Files <- MCFiles
INVARIANTS AllReturned KeyStored SizeKept
PROPERTIES CallsEnd
CHECK_DEADLOCK FALSE
