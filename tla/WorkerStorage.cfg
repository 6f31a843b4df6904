SPECIFICATION Spec
CONSTANTS
  a = a  b = b  s1 = s1  s2 = s2  s3 = s3  s4 = s4  d1 = d1  d2 = d2
  Hash = {a, b}
  Save = {s1, s2, s3, s4}
  HashOf <- Sent
  Delete = {d1, d2}
  Target <- Purged
  Size = 2
  Capacity = 7
  Margin = 1
INVARIANTS
  NotOverallocated
  ReservationsExact
  SavedIsLoadable
CHECK_DEADLOCK FALSE
