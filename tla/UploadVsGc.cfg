CONSTANTS
  h1 = h1  h2 = h2  w1 = w1  w2 = w2  c1 = c1  c2 = c2
  m1 = m1  m2 = m2  f1 = f1  f2 = f2  n1 = n1  n2 = n2
  Hash = {h1}
  Worker = {w1, w2}
  Master = {m1, m2}
  Client = {c1, c2}
  Name = {n1, n2}
  FileId = {f1, f2}
  NodeSets <- Replicated
  Contents <- OneChunk
  NameOf <- OwnNames
  Faults = {"master_crash", "bulk_delete_error", "revert_error"}
  ExpiryHours = 2
  ResumeWindow = 1
  NegotiationBound = 1
  TransferBound = 2
  BatchSize = 2
  LogBatch = 2
  MaxRef = 3
  MaxTime = 5
SYMMETRY Symmetric
SPECIFICATION Spec
INVARIANTS  ResumableChunksKept NoLeakedBlobs ReferencesExact DataInv
  
