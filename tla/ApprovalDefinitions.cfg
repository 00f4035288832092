SPECIFICATION DefinitionsSpec
CONSTANTS
  Bands = {0, 1}
  DefaultNodes <- TwoSteps
  Saved = {{1}, {1, 2}}
  MaxVersion = 2
  Savers = {a1, a2}
  Seeders = {s1, s2}
SYMMETRY Interchangeable
INVARIANTS OneActivePerBand BaseBandStays
PROPERTIES RetiredStaysRetired
CHECK_DEADLOCK FALSE
