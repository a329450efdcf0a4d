SPECIFICATION Spec
CONSTANTS
  NULL = NULL
  Blank = Blank
  claude = claude
  python = python
  intro = intro
  build = build
  name = name
  style = style
  nameOfStyle = nameOfStyle
  nameOfBuild = nameOfBuild
  nameKey = nameKey
  styleKey = styleKey
  i1 = i1
  i2 = i2
  i3 = i3
  v1 = v1
  v2 = v2
  l1 = l1
  l2 = l2
  Tool = {claude}
  Language = {python}
  Combo = {}
  LayerId = {i1, i2, i3}
  Field <- Fields
  Label = {l1, l2}
  Value = {v1, v2}
  Step = {intro, build}
  StepOf <- StepOfField
  KeyOf <- KeyOfField
  PositionOf <- PositionOfField
  SchemaDoc <- SchemaDocs
  LayerDoc <- LayerDocs
  MetaChange <- MetaChanges
  MaxImports = 2
  MaxEdits = 1
  MaxWrites = 2
SYMMETRY Symmetry
INVARIANT ExportIsInverse
CHECK_DEADLOCK FALSE
