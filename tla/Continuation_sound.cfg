SPECIFICATION ContinuationSpec
CONSTANTS
  Grants = {ls, mv}
  Defaults = {ls}
  FileAllowed = {ls}
  Granted = mv
  MaxDepth = 1
  Files <- MCFiles
  Commands <- MCCommands
  Controls <- MCControls
  Answers <- MCAnswers
  Edited <- MCEdited
  Bootstrap = TRUE
  Restoration <- MCRestoration
  MaxTurns = 6
  MaxMessages = 10
  MaxSteps = 2
  MaxEdits = 1
CHECK_DEADLOCK FALSE
INVARIANTS
    ContinuationSound
