SPECIFICATION Spec
CONSTANTS
  Half = 4
  NullText = 100
  WordText = 101
  ArrayText = 102
  Writers = {w1, w2}
  Spawns <- MCSpawns
  Merges <- MCMerges
  Replacements <- MCReplacements
  Unsets <- MCUnsets
  Increments <- MCIncrements
  Flats <- MCFlats
  ReservedRoot = "r"
  CounterKey <- MCCounterKey
  CasKey <- MCCasKey
  MaxSize = 7
  MaxVersion = 3
INVARIANTS
  MergeByPath
  NoUpdateLost
  FilterFinds
  VersionsAnnounced
