\* Two lines of two words: calls of five lines.
CONSTANTS
  LINE = 4
  WORD = 2
  Sizes = {20}
  Universes = {8}
  Tags = {0, 1}
SPECIFICATION WSpec
INVARIANTS
  TouchesUniverse
CHECK_DEADLOCK FALSE
