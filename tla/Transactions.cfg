SPECIFICATION Spec
CONSTANTS
  a = a  b = b  c = c  o = o  n1 = n1  n2 = n2
  x1 = x1  x2 = x2  x3 = x3  x4 = x4
  u1 = u1  u2 = u2  d1 = d1  g1 = g1  g2 = g2  f1 = f1  f2 = f2
  Hash = {a, b, c, o}
  Node = {n1, n2}
  Name = {x1, x2, x3, x4}
  Upload = {u1, u2}
  Delete = {d1}
  Collector = {g1, g2}
  ChunksOf <- CrossedChunks
  NameOf <- CrossedNames
  Starts <- SharedOrLocked
  Route = {n1}
  Reroutes = {{n2}}
  BatchSize = 1
  LateDeletes = TRUE
INVARIANTS
  CountsExact
  CommittedFilesStored
  BatchesDisjoint
PROPERTIES
  
  EveryoneFinishes
CHECK_DEADLOCK FALSE
