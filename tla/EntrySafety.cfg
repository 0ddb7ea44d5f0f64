SPECIFICATION Spec
CONSTANTS
  e1 = e1  e2 = e2  w1 = w1  w2 = w2  a1 = a1  r1 = r1
  run = run  jog = jog  verb = verb  noun = noun
  NoLemma = NoLemma
  Nobody = Nobody
  Entries = {e1, e2}
  Imported = {e2}
  Workers = {w1, w2}
  Approvers = {a1}
  Rejecters = {r1}
  Lemmas = {run}
  Senses = {verb, noun}
  DefaultSense = verb
  MaxFailures = 1
SYMMETRY SymWorkers
INVARIANTS IInv SyncedHasCard PendingIsRaw DroppedHasTwin ClaimIsExclusive
INVARIANTS OrphansLostARace
PROPERTIES OnlyApprovalUndoesRejection StatusSpec
\* every request answers once and the queue may be empty for good
CHECK_DEADLOCK FALSE
