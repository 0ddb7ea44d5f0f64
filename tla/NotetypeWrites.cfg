SPECIFICATION Spec
CONSTANTS
  en = en  es = es  c1 = c1  u1 = u1
  Unpinned = Unpinned
  Langs = {en, es}
  Releases = 2
  Writes = {c1}
  Updates = {u1}
  Nobody = Nobody
SYMMETRY Languages
INVARIANTS SchemaSettles CardsInOwnDeck
PROPERTIES TemplatesKept LocalStoreSpec
\* every call answers once
CHECK_DEADLOCK FALSE
