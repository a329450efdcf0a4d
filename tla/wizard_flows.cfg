SPECIFICATION Spec
CONSTANTS
  NULL = NULL
  intro = intro
  build = build
  Owner = {ann}
  FlowId = {f1, f2, f3}
  StepKey = {intro, build}
  SchemaSteps <- Schema
  StepLists <- SentLists
  Worker = {w1, w2}
  MaxLists = 3
SYMMETRY Symmetry
CHECK_DEADLOCK FALSE
INVARIANTS
  FlowTypeOK
  StepsOneList
  OneDefaultUnlessCreated
