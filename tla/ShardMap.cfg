SPECIFICATION Spec
CONSTANTS
  a1 = a1  a2 = a2  a3 = a3  a4 = a4  n1 = n1  n2 = n2
  r1 = r1  b1 = b1  b2 = b2  b3 = b3  b4 = b4
  Bucket = {b1, b2, b3, b4}
  Node = {n1, n2}
  Add = {a1, a2, a3, a4}
  NameOf <- RetriedNames
  Replace = {r1}
  Concurrent = 2
SYMMETRY BucketSymmetry
INVARIANTS
  ShardInv
  EveryBucketRouted
  LoadDistributed

  
