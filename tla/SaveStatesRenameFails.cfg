SPECIFICATION Spec
CONSTANTS
  Space = {"rom", "ewram"}
  Func = {"f"}
  Var = {"table", "sprite", "menu", "titles", "lives", "music"}
  Build <- MCBuild
  Mixed <- MCMixed
  FromRom <- MCFromRom
  Content <- MCContent
  s1 = s1
  s2 = s2
  None = None
  Torn = Torn
  MaxId = 1
  Snap = {s1, s2}
  Time = {0, 1}
  OldFiles <- MCOneFile
  SavedVersion = 5
  JobDelay = 1
  GiveUp = 1
  ReadyFrames = 2
  CardMayFail = FALSE
  RenameMayFail = TRUE
  CrashMayHappen = FALSE
  FtpWrites = FALSE
INVARIANT FailedSaveLeavesOldAlone
