-------------------------- MODULE ConfigResolution --------------------------
(***************************************************************************)
(* How the wizard configuration of a tool and a language is put together:  *)
(* the schema, overlaid with the override rows of the tool's active layer  *)
(* and then with those of the language's.                                  *)
(*                                                                         *)
(* A table of override rows is a partial function from targets to rows: a  *)
(* layer has at most one step override per step, and one metadata and one  *)
(* content override per field.  A row is a record of its columns, NULL     *)
(* where the column is; columns are named as the export writes them.  Of   *)
(* the texts of a step only the title is kept, of the attributes of a      *)
(* schema field those an override or an export treats in a way of its own: *)
(* description stands for all that are sent and written unless empty.      *)
(* A field is its path, which is unique in its step, and a nested field is *)
(* one of the step's like any other; two of them may have the same key.    *)
(* The options of the language selector, the languages, are left out.      *)
(***************************************************************************)
EXTENDS LayerOps, SequencesExt

CONSTANTS
  Step,       \* steps of the schema
  StepOf,     \* the step of a field
  KeyOf,      \* the field_key of a field, the last part of its path
  PositionOf  \* the place of a field among its siblings, the same in every file

ASSUME ResolutionAssumption ==
  /\ StepOf \in [Field -> Step] /\ DOMAIN KeyOf = Field
  /\ IsFiniteSet(Field) /\ PositionOf \in [Field -> 0..Cardinality(Field)]
  /\ Step \cap Field = {}
  /\ NULL \notin BOOLEAN

Target == ({"step"} \X Step) \cup ({"meta", "content"} \X Field)

Columns(t) ==
  CASE t[1] = "step" -> {"hidden", "title"}
    [] t[1] = "meta" -> {"default", "editability", "required", "hidden", "lock_reason"}
    [] t[1] = "content" -> {"replace_options_with", "merge_options",
                            "replace_presets_with", "merge_presets",
                            "preset_files_to_add", "merge_mode"}

EmptyRow(t) == [c \in Columns(t) |-> IF c = "merge_mode" THEN "append" ELSE NULL]

Row(rows, t) == IF t \in DOMAIN rows THEN rows[t] ELSE EmptyRow(t)

-----------------------------------------------------------------------------
(* The schema row of a field, and the field as it is sent to the wizard.   *)

SchemaColumns == {"default", "required", "hidden", "editability", "locked_value",
                  "validation", "options", "presets", "preset_files", "description"}

\* The entries of f, and those of g for what f has none.
Over(f, g) ==
  [x \in DOMAIN f \cup DOMAIN g |-> IF x \in DOMAIN f THEN f[x] ELSE g[x]]

\* field_to_dict, which passes every column on; the other two are set by overrides.
Serialised(field) == Over(field, [c \in {"lock_reason", "override_source"} |-> NULL])

Listed(list) == IF list = NULL THEN <<>> ELSE list

\* The columns of base that a row sets.
Overlaid(base, row) ==
  [c \in DOMAIN base |-> IF c \in DOMAIN row /\ row[c] # NULL THEN row[c] ELSE base[c]]

\* The first layer with a row for the field is named as the source.
Sourced(field, source) ==
  [field EXCEPT !.override_source = IF @ = NULL THEN source ELSE @]

MetaApplied(field, row, source) == Sourced(Overlaid(field, row), source)

\* merge_by_label: the first preset of the same label is replaced.
MergedByLabel(existing, new) ==
  FoldLeft(LAMBDA merged, p :
             IF \E i \in DOMAIN merged : merged[i].label = p.label
             THEN ReplaceAt(merged, SelectInSeq(merged, LAMBDA q : q.label = p.label), p)
             ELSE Append(merged, p),
           existing, new)

Options(existing, row) ==
  IF row.replace_options_with # NULL THEN row.replace_options_with
  ELSE IF row.merge_options # NULL THEN Listed(existing) \o row.merge_options
  ELSE existing

Presets(existing, row) ==
  IF row.replace_presets_with # NULL THEN row.replace_presets_with
  ELSE IF row.merge_presets = NULL THEN existing
  ELSE IF row.merge_mode = "merge_by_label"
  THEN MergedByLabel(Listed(existing), row.merge_presets)
  ELSE Listed(existing) \o row.merge_presets

Files(existing, row) ==
  IF row.preset_files_to_add = NULL THEN existing
  ELSE Listed(existing) \o row.preset_files_to_add

ContentApplied(field, row, source) ==
  Sourced([field EXCEPT !.options = Options(@, row), !.presets = Presets(@, row),
                        !.preset_files = Files(@, row)], source)

\* The rows of a layer for field f, applied to it.
FieldApplied(field, f, rows, source) ==
  LET meta == IF <<"meta", f>> \in DOMAIN rows
              THEN MetaApplied(field, rows[<<"meta", f>>], source) ELSE field
  IN  IF <<"content", f>> \in DOMAIN rows
      THEN ContentApplied(meta, rows[<<"content", f>>], source) ELSE meta

\* Mutant: the key is looked up among the fields of every step.
NamesakesAnywhere(f, fields) == {g \in fields : KeyOf[g] = KeyOf[f]}

Namesakes(f, fields) == {g \in fields : StepOf[g] = StepOf[f] /\ KeyOf[g] = KeyOf[f]}

\* field_key_to_id: of the step's fields with the key of f, nested ones included,
\* the last by position wins (the database promises no order where that is equal).
FoundByKey(f, fields) ==
  CHOOSE g \in Namesakes(f, fields) : \A h \in Namesakes(f, fields) : PositionOf[h] <= PositionOf[g]

\* The tool's rows are found by the field, the language's by its key.
ResolvedField(schema, f, toolRows, langRows, t, l) ==
  FieldApplied(FieldApplied(Serialised(schema[f]), f, toolRows, t),
               FoundByKey(f, DOMAIN schema \ Step), langRows, l)

ResolvedStep(schema, s, toolRows, langRows) ==
  Overlaid(Overlaid(schema[s], Row(toolRows, <<"step", s>>)), Row(langRows, <<"step", s>>))

\* load_resolved_config, for the rows of the two active layers (none, when a
\* layer does not exist).
Resolved(schema, toolRows, langRows, t, l) ==
  [x \in DOMAIN schema |->
     IF x \in Step THEN ResolvedStep(schema, x, toolRows, langRows)
     ELSE ResolvedField(schema, x, toolRows, langRows, t, l)]
=============================================================================
