CONSTANTS
  Inputs <- MCInputs
  Named = {"a"}
  ModuleFiles = {"mods/sub"}
  OtherFiles = {"mods/modules/sub"}
  Directory <- MCDirectory
  Candidates <- MCCandidates
  Imports <- MCImports
  MaxEdits = 2
SPECIFICATION FairSpec
CHECK_DEADLOCK FALSE
INVARIANTS
  NoMissedChange
PROPERTY SettlesOnTheFiles
