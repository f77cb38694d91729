CONSTANTS
  Callers = {c1}
  Workers = {w1, w2}
  Timers = {t1, t2}
  Periods = {1, 2}
  MaxTimeout = 2
  IntMax = 2
  MaxLag = 1
  None = None
  c1 = c1
  w1 = w1
  w2 = w2
  t1 = t1
  t2 = t2
SPECIFICATION MCSpec
INVARIANT TimersSound
PROPERTIES NeverEarly ImplementsService Fires
