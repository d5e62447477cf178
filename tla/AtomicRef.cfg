CONSTANTS
  Threads = {t1, t2, t3}
  Objects = {o1, o2}
  NoObj = NoObj
  Batch = 4
SPECIFICATION Spec
INVARIANTS TypeOK CountExact WriteExclusive
PROPERTIES ImplementsRefCell Refilled
