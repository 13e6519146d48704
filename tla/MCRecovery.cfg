\* Two files, of which the user is asked: one in the workspace's directory, one outside it.
SPECIFICATION Spec
CONSTANTS
  Docs = {d1, d2}
  InRoot = {d1}
  Spellings = {abs}
  Canonical = abs
  NoEdit = NoEdit
  NoText = NoText
  NoTab = NoTab
  NoBuffer = NoBuffer
  MaxUndo = 1
  Theirs = Theirs
  MaxTexts = 1
  MaxOthers = 1
  MaxCrashes = 1
PROPERTIES
  RecoveryKept
CHECK_DEADLOCK FALSE
