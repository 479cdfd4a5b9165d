SPECIFICATION SettingsSpec
CONSTANTS
  Unset = Unset
  Keys = {"invert_position", "invert_control"}
  Choices = {TRUE, FALSE}
  Default <- MCDefault
  PackBlocks <- NoPackBlocks
INVARIANTS
  SurvivesReload
