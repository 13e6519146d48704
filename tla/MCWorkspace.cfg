\* One file, by two paths: the one the snapshot names, and another.  No other program writes.
SPECIFICATION Spec
CONSTANTS
  Docs = {d1}
  InRoot = {d1}
  Spellings = {abs, rel}
  Canonical = abs
  NoEdit = NoEdit
  NoText = NoText
  NoTab = NoTab
  NoBuffer = NoBuffer
  MaxUndo = 1
  Theirs = Theirs
  MaxTexts = 1
  MaxOthers = 0
  MaxCrashes = 1
INVARIANTS
  CleanIsSaved
PROPERTIES
  UnsavedSnapshotKept
CHECK_DEADLOCK FALSE
