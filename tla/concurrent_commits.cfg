SPECIFICATION Spec
CONSTANTS
  Worker = {w1, w2}
  Tool = {}
  Language = {java}
  Combo = {}
  LayerId = {l1, l2, l3}
  Field = {f1}
  Label = {a}
  Value = {v1}
  NULL = NULL
  ImportedOverrides <- NoImports
  MaxVersion = 2
SYMMETRY Symmetry
CHECK_DEADLOCK FALSE
INVARIANTS
  TypeOK
  VersionsContiguous
  OneActiveUnlessOvertaken
PROPERTIES
  EditsNeverLost
  SupersedesTheActive
