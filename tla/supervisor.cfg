SPECIFICATION FairSpec
CONSTANTS
  f1 = f1
  f2 = f2
  Fns = {f1, f2}
  MinWorkers <- ThreeWorkers
  Pids = {p1, p2, p3, p4}
INVARIANTS KnowsItsChildren CountsCover NeverTooMany
PROPERTIES NoSpawnOnceSignalled NeverAlone Respawns StopCompletes
