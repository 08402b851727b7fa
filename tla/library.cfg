CONSTANTS
  LLONG_MAX = 1023
  Characters <- FormatCharacters
  MaxFormat = 6
SPECIFICATION LibrarySpec
INVARIANTS WordsSeen ArgumentsMatch JumpsLand TextIsRight
