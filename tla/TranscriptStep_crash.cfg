SPECIFICATION Spec
CONSTANTS
  Grants = {ls, mv}
  Defaults = {ls}
  FileAllowed = {ls}
  Granted = mv
  MaxDepth = 1
  Files <- MCFiles
  Commands <- MCCommands
  Controls <- MCControls
  Answers <- MCAnswers
  Edited <- MCEdited
  Bootstrap = TRUE
  MaxTurns = 6
  MaxMessages = 6
  MaxSteps = 3
  MaxEdits = 2
CHECK_DEADLOCK FALSE
INVARIANTS
    TranscriptRecorded
    ExecutionsRecorded
    CallsInOrder
    
