SPECIFICATION ReviewSpec
CONSTANTS
  Worker = {w1, w2}
  Tool = {t1}
  Language = {}
  Combo = {own1, own2}
  LayerId = {l1, l2}
  Field = {f1, f2}
  f1 = f1
  Label = {a}
  Value = {v1}
  v1 = v1
  NULL = NULL
  ImportedOverrides <- NoImports
  MaxVersion = 1
  Revision = {r1}
  Candidate = {c1}
  c1 = c1
  c2 = c2
  own1 = own1
  own2 = own2
  Actor = {a1}
  Answers <- OneAnswer
  OwnKey <- OwnKeys
SYMMETRY Symmetry
CHECK_DEADLOCK FALSE
INVARIANTS
  ReviewTypeOK
  SubmittedStaysMarked
  DecisionsAccountedFor
  DraftsAsSubmitted
