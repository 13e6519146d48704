\* One file, by two paths; another program writes it.  No crash, no undo.
SPECIFICATION Spec
CONSTANTS
  Docs = {d1}
  InRoot = {d1}
  Spellings = {abs, rel}
  Canonical = abs
  NoEdit = NoEdit
  NoText = NoText
  NoTab = NoTab
  NoBuffer = NoBuffer
  MaxUndo = 0
  Theirs = Theirs
  MaxTexts = 1
  MaxOthers = 1
  MaxCrashes = 0
PROPERTIES
  UnsavedKept
  SnapshotsCatchUp
  ChangeSeen
CHECK_DEADLOCK FALSE
