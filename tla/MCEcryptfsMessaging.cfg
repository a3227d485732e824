CONSTANTS
  Tasks = {t1, t2}
  Ctxs = {c1, c2}
  MaxSeq = 3
  MaxOpens = 2
  None = None
  OutQueue = OutQueue
  Poison = Poison
SPECIFICATION FairSpec
INVARIANTS OwnResponse ContextsAccounted NoOops
PROPERTIES WaitEnds
CHECK_DEADLOCK FALSE
