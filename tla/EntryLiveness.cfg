SPECIFICATION FairSpec
CONSTANTS
  e1 = e1  e2 = e2  w1 = w1  w2 = w2  a1 = a1  r1 = r1
  run = run  jog = jog  verb = verb  noun = noun
  NoLemma = NoLemma
  Nobody = Nobody
  Entries = {e1, e2}
  Imported = {e2}
  Workers = {w1}
  Approvers = {a1}
  Rejecters = {}
  Lemmas = {run, jog}
  Senses = {verb}
  DefaultSense = verb
  MaxFailures = 1
PROPERTIES QueueDrains RequestsAnswered
\* every request answers once and the queue may be empty for good
CHECK_DEADLOCK FALSE
