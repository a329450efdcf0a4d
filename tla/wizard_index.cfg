SPECIFICATION Spec
CONSTANTS
  NULL = NULL
  Absent = Absent
  Empty = empty
  s1 = s1
  s2 = s2
  s3 = s3
  lang = lang
  a = a
  b = b
  nested = nested
  java = java
  go = go
  yes = yes
  one = one
  empty = empty
  some = some
  none = none
  both = both
  Step <- Steps
  Field <- Fields
  Nested <- NestedFields
  Parent <- Around
  Value <- Values
  List <- Lists
  Items <- ListItems
  Alike <- Twins
  Language <- Languages
  LanguageField = lang
  Choices <- FieldChoices
  Configs <- Configurations
  RuleSets <- Stored
  Flows <- UserFlows
  DefaultFlow <- Reordered
  MaxEdits = 2
CHECK_DEADLOCK FALSE
INVARIANTS
  GenerateHasScreen
