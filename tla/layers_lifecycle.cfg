SPECIFICATION Spec
CONSTANTS
  Tool = {claude}
  Language = {java}
  Combo = {}
  LayerId = {l1, l2, l3, l4}
  Field = {f1}
  Label = {}
  Value = {v1}
  v1 = v1
  NULL = NULL
  ImportedOverrides <- MetaImports
  MaxVersion = 2
SYMMETRY Symmetry
CHECK_DEADLOCK FALSE
INVARIANTS
  TypeOK
  ExactlyOneActive
  Lineage
  SupersessionChain
  VersionsContiguous
  AuditAccounts
PROPERTIES
  NeverDark
  FrozenUnlessActive
  ConfinedToOneKey
