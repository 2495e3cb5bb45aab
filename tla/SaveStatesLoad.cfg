SPECIFICATION FairSpec
CONSTANTS
  Space = {"rom", "ewram"}
  Func = {"f"}
  Var = {"table", "sprite", "menu", "titles", "lives", "music"}
  Build <- MCBuild
  Mixed <- MCMixed
  FromRom <- MCFromRom
  Content <- MCContent
  s1 = s1
  s2 = s2
  None = None
  Torn = Torn
  MaxId = 1
  Snap = {s1, s2}
  Time = {0}
  OldFiles <- MCMixedFiles
  SavedVersion = 3
  JobDelay = 1
  GiveUp = 1
  ReadyFrames = 2
  CardMayFail = TRUE
  RenameMayFail = TRUE
  CrashMayHappen = TRUE
  FtpWrites = TRUE
INVARIANTS PointersComeBack DataIsLeftAlone
PROPERTIES NoStateIsLost LoadIsAllOrNothing JobEventuallyEnds
