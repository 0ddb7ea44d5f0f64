SPECIFICATION Spec
CONSTANTS
  r1 = r1  r2 = r2  r3 = r3  ann = ann  bob = bob  cat = cat
  Requests = {r1, r2, r3}
  Names = {ann, bob}
  NoOne = NoOne
  Words = {cat}
  MaxRows = 2
  MaxDrops = 1
SYMMETRY RequestSymmetry
INVARIANTS OneUserRow EachWordOnce
\* every request is sent once
CHECK_DEADLOCK FALSE
