\* Two runs in one directory, of any of the four scripts.
CONSTANTS
  Trainers = {"nres", "lpcnet", "separator", "rnnoise"}
  Losses = {1, 2}
  Clips <- ClipsOf
  Layers = {3, 4}
  Sizes = {"small", "large"}
  Speakers = {2, 4}
  GruLayers = {3}
  BatchSizes = {3}
  EpochCounts = {3}
  BatchCounts = {2}
  MaxRuns = 2
SPECIFICATION Spec
INVARIANTS
  TypeOK
  KeepsLeast
  SpoiltIsFinal
  TrainableClips
  OnlyDefaultSeparator
  CausalButForNorms
CHECK_DEADLOCK FALSE
