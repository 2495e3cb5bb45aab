SPECIFICATION FairReleasesSpec
CONSTANTS
  t1 = t1
  t2 = t2
  None = None
  Thread = {t1, t2}
  Garbage = Garbage
  NoRelease = NoRelease
  Lists <- MCLists
  Builds <- MCBuilds
  ThreadMayFail = TRUE
  CloseMayFail = FALSE
  GameMayClose = TRUE
INVARIANTS PromptIsTrue
PROPERTIES TitleDeletedOnlyWithCia InstallIsReported NeverGoesBackwards UpToDateIsTrue
