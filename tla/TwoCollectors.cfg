CONSTANTS
  h1 = h1  h2 = h2  w1 = w1  w2 = w2  c1 = c1  c2 = c2
  m1 = m1  m2 = m2  f1 = f1  f2 = f2  n1 = n1  n2 = n2
  Hash = {h1, h2}
  Worker = {w1}
  Master = {m1, m2}
  Client = {c1}
  Name = {n1}
  FileId = {f1}
  NodeSets <- Single
  Contents <- Mixed
  NameOf <- SameName
  Faults = {"bulk_delete_error"}
  ExpiryHours = 2
  ResumeWindow = 1
  NegotiationBound = 1
  TransferBound = 2
  BatchSize = 2
  LogBatch = 2
  MaxRef = 3
  MaxTime = 4
SPECIFICATION FairSpec
INVARIANTS PurgesExclusive
PROPERTIES TombstonesResolved
