SPECIFICATION Spec
CONSTANTS
  main = main
  other = other
  w1 = w1
  w2 = w2
  w3 = w3
  t1 = t1
  t2 = t2
  t3 = t3
  Workers = {w1, w2, w3}
  Clients = {main, other}
  Owner = main
  Tasks = {t1, t2, t3}
  Caller <- MCCaller
  NoTask = NoTask
INVARIANTS TypeOK ExactlyOnce NoWastedWakeup StopDrains
PROPERTIES EveryTaskRuns DestructorReturns ImplementsService
