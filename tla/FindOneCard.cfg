SPECIFICATION Spec
CONSTANTS
  e1 = e1  e2 = e2  w1 = w1  w2 = w2  a1 = a1  r1 = r1
  run = run  jog = jog  verb = verb  noun = noun
  NoLemma = NoLemma
  Nobody = Nobody
  Entries = {e1, e2}
  Imported = {}
  Workers = {}
  Approvers = {}
  Rejecters = {}
  Lemmas = {run}
  Senses = {verb}
  DefaultSense = verb
  MaxFailures = 0
INVARIANTS OneCardPerMeaning
\* every request answers once and the queue may be empty for good
CHECK_DEADLOCK FALSE
