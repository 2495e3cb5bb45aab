SPECIFICATION FairSpec
CONSTANTS
  t1 = t1
  t2 = t2
  None = None
  Thread = {t1, t2}
  MaxCommands = 2
  MaxWaited = 2
  Buttons = {a}
  a = a
  MaxFrames = 2
  LinkTimesOut = TRUE
CHECK_DEADLOCK FALSE
INVARIANTS NothingFreedUnderTheThread AnswersAreTrue
PROPERTIES RestartsAfterTheCountdown AnsweredAfterItsJob ImplementsFtpServer InstallIsFinished LinkNeverJams KeysArePressed
