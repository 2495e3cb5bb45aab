SPECIFICATION Spec
CONSTANTS
  Space = {"rom", "ewram"}
  Func = {"f"}
  Var = {"table", "sprite", "menu", "titles", "lives", "music"}
  Build <- MCBuild
  Mixed <- MCMixed
  FromRom <- MCFromRom
  Content <- MCContent
  s1 = s1
  s2 = s2
  None = None
  Torn = Torn
  MaxId = 2
  Snap = {s1, s2}
  Time = {0, 1}
  OldFiles <- MCTwoFiles
  SavedVersion = 5
  JobDelay = 0
  GiveUp = 0
  ReadyFrames = 1
  CardMayFail = TRUE
  RenameMayFail = FALSE
  CrashMayHappen = FALSE
  FtpWrites = FALSE
INVARIANTS ListTellsTheCard PictureIsOfItsState CompatibleMeansLoadable
PROPERTIES ImplementsArchive
