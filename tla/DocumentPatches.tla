-------------------------- MODULE DocumentPatches --------------------------
(***************************************************************************)
(* What the operations of the JSON patch engine compute from a             *)
(* configuration document.                                                 *)
(*                                                                         *)
(* A document has three sections of entries.  An entry is the function     *)
(* from the property names it sets to their values; a section maps the     *)
(* fields, or steps, that have an entry to it.  Other keys of the document *)
(* are rewritten as they were read and left out, and so is the order of    *)
(* the entries, which nothing but their search depends on.  A preset list  *)
(* is a sequence: operations name presets by position.                     *)
(***************************************************************************)
EXTENDS Integers, SequencesExt

CONSTANTS
  Field,      \* "step.field" ids
  Step,       \* step ids
  Preset,     \* presets, identified by their labels
  NULL        \* an argument that is not given; no document

Refused == NULL     \* what an operation that raises PatchError evaluates to

MetadataKeys == {"default", "editability", "required", "hidden", "lock_reason"}

StructureKeys == {"merge_presets", "replace_presets_with", "merge_options",
                  "replace_options_with", "merge_mode", "preset_files_to_add", "validation"}

StepKeys == {"hidden", "title_override", "description_override", "hint_override"}

EmptyDocument == [metadata |-> <<>>, structure |-> <<>>, steps |-> <<>>]

\* The properties of f, and those of g that f does not set.
Over(f, g) == [x \in DOMAIN f \cup DOMAIN g |-> IF x \in DOMAIN f THEN f[x] ELSE g[x]]

\* The entry of x, created without properties when there is none.
EntryOf(section, x) == IF x \in DOMAIN section THEN section[x] ELSE <<>>

\* The section after its entry of x took the changes; refused as soon as one of
\* them is not a property of the section, before anything is written.
WithEntry(section, x, changes) ==
  Over([y \in {x} |-> Over(changes, EntryOf(section, x))], section)

UpdateMetadata(doc, f, changes) ==
  IF DOMAIN changes \subseteq MetadataKeys
  THEN [doc EXCEPT !.metadata = WithEntry(@, f, changes)] ELSE Refused

UpdateStructure(doc, f, changes) ==
  IF DOMAIN changes \subseteq StructureKeys
  THEN [doc EXCEPT !.structure = WithEntry(@, f, changes)] ELSE Refused

UpdateStep(doc, s, changes) ==
  IF DOMAIN changes \subseteq StepKeys
  THEN [doc EXCEPT !.steps = WithEntry(@, s, changes)] ELSE Refused

RemoveOverride(doc, f, type) == [doc EXCEPT ![type] = Restrict(@, DOMAIN @ \ {f})]

Presets(doc, f) ==
  LET entry == EntryOf(doc.structure, f)
  IN  IF "replace_presets_with" \in DOMAIN entry THEN entry.replace_presets_with ELSE <<>>

WithPresets(doc, f, presets) ==
  [doc EXCEPT !.structure =
     WithEntry(@, f, [key \in {"replace_presets_with"} |-> presets])]

\* list.insert: a negative position counts from the end, and stops at the front.
AddPreset(doc, f, preset, position) ==
  LET old == Presets(doc, f)
      at  == IF position = NULL \/ position >= Len(old) THEN Len(old)
             ELSE IF position < 0 THEN Max({0, Len(old) + position}) ELSE position
  IN  WithPresets(doc, f, InsertAt(old, at + 1, preset))

\* A position takes precedence over the label; the first of a label is removed.
RemovePreset(doc, f, preset, position) ==
  LET old   == Presets(doc, f)
      which == IF position # NULL THEN {position + 1} \cap DOMAIN old
               ELSE {i \in DOMAIN old : old[i] = preset}
  IN  IF f \notin DOMAIN doc.structure \/ which = {} THEN Refused
      ELSE WithPresets(doc, f, RemoveAt(old, Min(which)))

Entries(section, names, keys) ==
  DOMAIN section \subseteq names /\ \A x \in DOMAIN section : DOMAIN section[x] \subseteq keys

\* A whole document, or none.
Content(doc) ==
  doc # NULL =>
    /\ DOMAIN doc = {"metadata", "structure", "steps"}
    /\ Entries(doc.metadata, Field, MetadataKeys)
    /\ Entries(doc.structure, Field, StructureKeys)
    /\ Entries(doc.steps, Step, StepKeys)

-----------------------------------------------------------------------------
(* Requests.  A request is a call of one of the operations.                *)

\* The update that apply_patch dispatches a patch to.  A type that is not given is
\* detected: any metadata property but lock_reason makes it a metadata update,
\* whatever else is there.
UpdateType(patch) ==
  LET keys == DOMAIN patch.changes
  IN  IF patch.type # NULL THEN patch.type
      ELSE IF patch.field = NULL THEN "step"
      ELSE IF keys \cap (MetadataKeys \ {"lock_reason"}) # {} THEN "metadata"
      ELSE IF keys \cap StructureKeys # {} THEN "structure"
      ELSE Refused

ApplyPatch(patch) ==
  LET type == UpdateType(patch)
  IN  IF \/ DOMAIN patch.changes = {}
         \/ type \notin {"metadata", "structure", "step"}
         \/ type # "step" /\ patch.field = NULL
      THEN Refused
      ELSE [op |-> type, on |-> IF type = "step" THEN patch.step ELSE patch.field,
            changes |-> patch.changes]

\* The document that a request leaves when it works on doc alone; a file that is
\* missing, or not JSON, is refused first of all.
Result(doc, r) ==
  IF doc = NULL THEN Refused
  ELSE CASE r.op = "metadata"  -> UpdateMetadata(doc, r.on, r.changes)
         [] r.op = "structure" -> UpdateStructure(doc, r.on, r.changes)
         [] r.op = "step"      -> UpdateStep(doc, r.on, r.changes)
         [] r.op = "remove"    -> RemoveOverride(doc, r.on, r.type)
         [] r.op = "add"       -> AddPreset(doc, r.on, r.preset, r.position)
         [] OTHER (* "take" *) -> RemovePreset(doc, r.on, r.preset, r.position)
=============================================================================
