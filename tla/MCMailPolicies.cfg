SPECIFICATION PolicySpec
CONSTANTS
  Ids = {i1, i2, i3, i4}
  Calls = {c1, c2}
  Presets = {"balanced", "safe"}
  Prompts <- MCPrompts
  Choices = {"pt"}
  Messages <- MCMessages
  Inputs <- MCInputs
  Levels <- MCLevels
  PresetAction <- MCPresetAction
  StatementsFail = TRUE
  MaxWrites = 3
  MaxIngested = 1
  None = None
SYMMETRY Symmetry
CHECK_DEADLOCK FALSE
INVARIANTS
  MostSpecificWins
  OwnRulesStay
