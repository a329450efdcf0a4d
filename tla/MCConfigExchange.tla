-------------------------- MODULE MCConfigExchange --------------------------
(* An instance of ConfigExchange: one tool, one language, a step of two     *)
(* fields and another step.  The other schema has two more fields with the  *)
(* key of one of them, one nested in its step and one in the other step.    *)
EXTENDS ConfigExchange

CONSTANTS claude, python, intro, build, name, style, nameOfStyle, nameOfBuild,
          nameKey, styleKey, i1, i2, i3, v1, v2, l1, l2

Fields == {style, name, nameOfStyle, nameOfBuild}
StepOfField == [f \in Fields |-> IF f = nameOfBuild THEN build ELSE intro]
KeyOfField == [f \in Fields |-> IF f = style THEN styleKey ELSE nameKey]
PositionOfField == [f \in Fields |-> IF f = name THEN 1 ELSE 0]

First == [label |-> l1, body |-> v1]
Second == [label |-> l1, body |-> v2]
Third == [label |-> l2, body |-> v2]

\* A schema, and the same one once fields were added to it.
SchemaBefore ==
  intro :> ("title" :> v1) @@ build :> ("title" :> v1 @@ "hidden" :> TRUE)
    @@ name :> ("required" :> TRUE @@ "hidden" :> TRUE @@ "options" :> <<>>)
    @@ style :> ("presets" :> <<First>> @@ "editability" :> "locked" @@ "locked_value" :> v1
                   @@ "description" :> Blank)

SchemaAfter ==
  nameOfBuild :> ("default" :> v1) @@ nameOfStyle :> ("validation" :> v2) @@ SchemaBefore

SchemaDocs == {SchemaBefore, SchemaAfter}

LayerDocs ==
  { <<"meta", name>> :> ("hidden" :> FALSE @@ "default" :> v2)
      @@ <<"step", build>> :> ("hidden" :> FALSE),
    <<"content", style>> :> ("merge_presets" :> <<Second, Third>>
                               @@ "merge_mode" :> "merge_by_label")
      @@ <<"content", name>> :> ("merge_options" :> <<>>)
      @@ <<"meta", nameOfBuild>> :> ("lock_reason" :> v1) }

Symmetry == Permutations({i1, i2, i3})

MetaChanges == {"hidden" :> TRUE @@ "default" :> v1, "hidden" :> NULL @@ "lock_reason" :> Blank}
=============================================================================
