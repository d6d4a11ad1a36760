SPECIFICATION Spec
CONSTANTS
  INPUT_PIN_LIMIT = 20
  Ins <- Declarations
  Outs <- Results
  Chips <- Library
  Parts <- Used
  Links <- Linked
  MaxParts = 3
  MaxMentions = 4
CONSTRAINT Small
CHECK_DEADLOCK FALSE
INVARIANT NotWiredToItself
