\* Two words, processes with chunk sizes 2 and 3, two restarts, and maybe an entry
\* by somebody else in the silence between the words.
SPECIFICATION Spec
CONSTANTS
  Absent = Absent
  Garbled = Garbled
  End = 6
  Spoken = {2, 3, 5}
  Others = {4}
  Sizes = {2, 3}
  MaxStarts = 3
INVARIANTS
  TypeOK
  HeardIsListed
  SilentWasHeard
  OneSizeIsExact
  TranslationsFit
PROPERTIES
  ListOnlyGrows
CHECK_DEADLOCK FALSE
