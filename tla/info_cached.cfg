SPECIFICATION InfoSpec
CONSTANTS
  Fields = {f1, f2}
  Texts = {t1, t2}
  NULL = NULL
  Garbage = Garbage
  Nothing = Nothing
  NoCommand = NoCommand
INVARIANTS
  InfoTypeOK
PROPERTIES
  AnswersStand
CHECK_DEADLOCK FALSE
