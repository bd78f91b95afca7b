CONSTANTS
  Pids = {1, 2, 3, 4, 5, 6, 7, 8}
  Runs = {1, 2, 3}
  Chunks = {"x", "y", "z", "e", "bad", "boom", "error", "help", "TAP", "gap"}
  Gap = "gap"
  PipeSize = 2
  srcFile = srcFile
  libFile = libFile
  outFile = outFile
  dirFile = dirFile
  Paths = {srcFile, libFile, outFile, dirFile}
  Absent = Absent
  Directory = Directory
  Terminal = Terminal
  Nothing = Nothing
  NoPid = NoPid
  Compile <- MCCompile
  Suites <- MCSuites
  FilesAtStart <- MCFiles
SPECIFICATION FairSpec
INVARIANTS
  TypeOK
  RunIsOutcome
  VerdictsRight
  TapOnce
  NoEndLeft
  OutputInOrder
PROPERTIES
  SuiteEnds
CHECK_DEADLOCK FALSE
