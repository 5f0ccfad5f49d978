\* History: an array of 4 lines, two directories, two saves, any number of
\* shells.  Jobs: up to 4 commands and 4 programs.
SPECIFICATION Spec
CONSTANTS
  Size = 4
  Line <- MCLine
  Dir = {home, other}
  MaxSaves = 2
  Command <- MCCommand
  MaxJobs = 4
  MaxProcs = 4
INVARIANTS HistoryTypeOK RecallsInOrder JobsTypeOK WaitsMatch
PROPERTIES HistorySurvives BackgroundSurvives PromptReturns
\* Ctrl-C can kill the shell, a long line end it, and so can the load of too
\* long a file.
CHECK_DEADLOCK FALSE
