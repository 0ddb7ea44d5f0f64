SPECIFICATION FairSpec
CONSTANTS
  c1 = c1  c2 = c2  u1 = u1  p1 = p1
  Nobody = Nobody
  Writes = {c1, c2}
  Updates = {u1}
  PhoneItems = {p1}
  MaxTimeouts = 1
  MaxFaults = 1
  MaxSchemas = 1
INVARIANTS IInv SuccessLasts SerializedUnlessCancelled
PROPERTIES StoreSpec ErasesOnlyUnseen CallsEnd
\* every call answers once
CHECK_DEADLOCK FALSE
