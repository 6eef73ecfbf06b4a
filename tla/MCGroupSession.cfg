\* Three changes of the members, two frames; the
\* third change makes a session mute.
CONSTANTS
  MaxPlaintext = 2
  Sessions = {s1, s2}
  Ids <- MCIds
  Texts <- MCTexts
  MAX_MEMBERS = 2
  EPOCH_LIMIT = 3
  SEQ_LIMIT = 2
  MaxEpoch = 3
  MaxFrames = 3
  MaxOpened = 1
SPECIFICATION Spec
INVARIANTS
  TypeOK
  NumbersFresh
  OpenedByRoom
  OpenedText
SYMMETRY SessionSymmetry
CHECK_DEADLOCK FALSE
