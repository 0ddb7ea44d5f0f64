SPECIFICATION FrontSpec
CONSTANTS
  ran = ran  run = run  the = the
  Gap = Gap
  Forms = {ran, run}
  Filler = the
  Ids = {1, 2}
  Distractors = {1, 2, 3}
  MaxLength = 2
  MaxExtras = 1
  MaxIndex = 2
INVARIANTS GapsAreSolvable AnswerIsHidden EverythingTurnsUp NoFixedSlot
