SPECIFICATION Spec
CONSTANTS
  Tool = {claude}
  Language = {}
  Combo = {}
  LayerId = {l1, l2, l3}
  Field = {f1, f2}
  Label = {a, b}
  Value = {v1}
  v1 = v1
  NULL = NULL
  ImportedOverrides <- OptionImports
  MaxVersion = 2
SYMMETRY Symmetry
CHECK_DEADLOCK FALSE
PROPERTIES
  RestoreApplies
