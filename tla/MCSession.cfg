\* Everything a user may type, three lines of it; downloads and answers of any length.
SPECIFICATION Spec
CONSTANTS
  Lines <- AllLines
  MayBeLong = {"cDownload"}
  MaxTyped = 3
CHECK_DEADLOCK FALSE
INVARIANTS StateOK OneInFlight
PROPERTIES TakesItsOwnAnswer QuitIsKept AnswerEndsWait TimerEndsSynch
