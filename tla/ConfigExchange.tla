--------------------------- MODULE ConfigExchange ---------------------------
(***************************************************************************)
(* The two commands that carry the configuration between the database and  *)
(* a directory of JSON files, next to the edits and drafts that change the *)
(* same layers in the database.                                            *)
(*                                                                         *)
(* A file is a partial function: schema.json from steps and fields to the  *)
(* attributes it gives, a layer file from targets to the override entries  *)
(* it lists; an entry is a partial function from JSON names to values.     *)
(* Titles of tools and languages, checksums, counters of the report, the   *)
(* dry runs and the versions and audit events of the edits are left out;   *)
(* so are the layers of combinations, which the import does not read.  The *)
(* schema keeps one version.  A key of the report is a file with an error. *)
(***************************************************************************)
EXTENDS ConfigResolution

CONSTANTS
  Blank,        \* the empty text
  SchemaDoc,    \* contents schema.json may be given
  LayerDoc,     \* contents a tool or language file may be given
  MetaChange,   \* the changes of a metadata request
  MaxImports, MaxEdits, MaxWrites   \* bounds on the commands, edits, file edits

SchemaColumnsOf(x) == IF x \in Step THEN {"hidden", "title"} ELSE SchemaColumns

\* schema.json gives steps and fields some of their attributes, flags as booleans.
SchemaFile(doc) ==
  /\ DOMAIN doc \subseteq Step \cup Field
  /\ \A x \in DOMAIN doc :
       /\ DOMAIN doc[x] \subseteq SchemaColumnsOf(x)
       /\ \A c \in DOMAIN doc[x] \cap {"hidden", "required"} : doc[x][c] \in BOOLEAN

ASSUME ExchangeAssumption ==
  /\ Combo = {}
  /\ \A doc \in SchemaDoc : SchemaFile(doc)
  /\ \A doc \in LayerDoc : DOMAIN doc \subseteq Target
  /\ \A changes \in MetaChange, f \in Field : DOMAIN changes \subseteq Columns(<<"meta", f>>)

VARIABLES
  schema,       \* rows of config_step and config_field
  layers, rows, \* rows of config_layer, and the override rows of each
  schemaFile, files,
  report,       \* keys of the files the last import reported
  imports, edits, writes

vars == <<schema, layers, rows, schemaFile, files, report, imports, edits, writes>>

NoRows == <<>>

\* Rows have the columns of their tables, override rows are for what the schema has.
ExchangeTypeOK ==
  /\ SchemaFile(schema) /\ \A x \in DOMAIN schema : DOMAIN schema[x] = SchemaColumnsOf(x)
  /\ layers \in [LayerId -> LayerRow]
  /\ DOMAIN rows = LayerId
  /\ \A i \in LayerId :
       /\ DOMAIN rows[i] \subseteq {t \in Target : t[2] \in DOMAIN schema}
       /\ \A t \in DOMAIN rows[i] : DOMAIN rows[i][t] = Columns(t)
  /\ report \subseteq Key

Init ==
  /\ schema = NoRows /\ layers = [i \in LayerId |-> Unused]
  /\ rows = [i \in LayerId |-> NoRows]
  /\ schemaFile \in SchemaDoc /\ files \in [Key -> LayerDoc]
  /\ report = {} /\ imports = 0 /\ edits = 0 /\ writes = 0

-----------------------------------------------------------------------------
(* Reading files.                                                          *)

SchemaDefault(c) ==
  CASE c \in {"hidden", "required"} -> FALSE
    [] c = "title" -> Blank
    [] c = "editability" -> "free"
    [] OTHER -> NULL

SchemaRow(x, entry) == Over(entry, [c \in SchemaColumnsOf(x) |-> SchemaDefault(c)])

\* The name a column is read under.
ReadAs(c) ==
  CASE c = "replace_options_with" -> "replace_options"
    [] c = "replace_presets_with" -> "replace_presets"
    [] c = "preset_files_to_add" -> "preset_files"
    [] OTHER -> c

\* Mutant: the columns that an entry does not name keep no value.
RowOfNamed(t, entry) == [c \in {d \in Columns(t) : ReadAs(d) \in DOMAIN entry} |-> entry[ReadAs(c)]]

RowOf(t, entry) ==
  [c \in Columns(t) |-> IF ReadAs(c) \in DOMAIN entry THEN entry[ReadAs(c)]
                        ELSE EmptyRow(t)[c]]

\* Every row the file names is written, none is deleted; entries of steps and
\* fields the schema does not have are reported and skipped.
Imported(old, doc, known) ==
  Over([t \in {u \in DOMAIN doc : u[2] \in known} |-> RowOf(t, doc[t])], old)

Found(k) == {i \in Used(layers) : layers[i].key = k}

\* Mutant: any layer of the key receives the file.
ReceivingAny(k) == IF Found(k) = {} THEN {} ELSE {CHOOSE i \in Found(k) : TRUE}

\* _upsert_layer looks a layer up by its key only, and raises for two.
Receiving(k) == {i \in Found(k) : Found(k) = {i}}

\* run_import and the commit, which a reported file does not prevent.
ImportFiles ==
  /\ imports < MaxImports
  /\ schema' = Over([x \in DOMAIN schemaFile |-> SchemaRow(x, schemaFile[x])], schema)
  /\ LET new == {k \in Key : Found(k) = {}}
         taken == {k \in Key : Receiving(k) # {}}
         known == DOMAIN schema'
     IN  /\ \E id \in Injection(new, LayerId \ Used(layers)) :
              /\ layers' = [i \in LayerId |->
                   IF i \in Range(id)
                   THEN NewLayer(CHOOSE k \in new : id[k] = i, "active", NULL)
                   ELSE layers[i]]
              /\ rows' = [i \in LayerId |->
                   IF i \in Range(id) \cup UNION {Receiving(k) : k \in taken}
                   THEN Imported(rows[i], files[layers'[i].key], known)
                   ELSE rows[i]]
         /\ report' = (Key \ (new \cup taken))
              \cup {k \in Key : \E t \in DOMAIN files[k] : t[2] \notin known}
  /\ imports' = imports + 1
  /\ UNCHANGED <<schemaFile, files, edits, writes>>

-----------------------------------------------------------------------------
(* Writing files.                                                          *)

\* Mutant: every column is tested for truth.
WrittenIfTrue(c, v) ==
  IF c \in {"hidden", "required"} THEN v = TRUE
  ELSE v \notin {NULL, Blank} /\ (c = "merge_mode" => v # "append")

\* Which values of an override column _export_layer_overrides writes.
Written(c, v) ==
  CASE c = "merge_mode" -> v # "append"
    [] c \in {"title", "editability", "lock_reason"} -> v \notin {NULL, Blank}
    [] c \in {"merge_options", "merge_presets", "preset_files_to_add"} -> v \notin {NULL, <<>>}
    [] OTHER -> v # NULL

Exported(table) ==
  [t \in DOMAIN table |->
     [c \in {d \in Columns(t) : Written(d, table[t][d])} |-> table[t][c]]]

\* Which values of a schema column _export_step and _export_field write.
SchemaWritten(c, v) ==
  CASE c \in {"hidden", "required"} -> v
    [] c = "title" -> v # Blank
    [] c = "description" -> v \notin {NULL, Blank}
    [] c \in {"editability", "locked_value", "validation"} -> FALSE
    [] c = "default" -> v # NULL
    [] OTHER -> v \notin {NULL, <<>>}

ExportedSchema ==
  [x \in DOMAIN schema |->
     [c \in {d \in DOMAIN schema[x] : SchemaWritten(d, schema[x][d])} |-> schema[x][c]]]

ActiveRows(k) ==
  IF ActiveLayers(layers, k) = {} THEN NoRows
  ELSE rows[CHOOSE i \in ActiveLayers(layers, k) : TRUE]

\* run_export with --force: the files of the keys with an active layer.
ExportFiles ==
  /\ writes < MaxWrites
  /\ schema # NoRows
  /\ schemaFile' = ExportedSchema
  /\ files' = [k \in Key |-> IF ActiveLayers(layers, k) = {} THEN files[k]
                             ELSE Exported(ActiveRows(k))]
  /\ writes' = writes + 1
  /\ UNCHANGED <<schema, layers, rows, report, imports, edits>>

-----------------------------------------------------------------------------
(* What else changes the files and the tables.                             *)

WriteFile ==
  /\ writes < MaxWrites /\ writes' = writes + 1
  /\ \/ \E doc \in SchemaDoc : schemaFile' = doc /\ UNCHANGED files
     \/ \E k \in Key, doc \in LayerDoc : files' = [files EXCEPT ![k] = doc] /\ UNCHANGED schemaFile
  /\ UNCHANGED <<schema, layers, rows, report, imports, edits>>

MetaUpdated(table, t, changes) ==
  Over([u \in {t} |-> Over(changes, Row(table, t))], table)

\* The metadata request of the admin, on the active layer.
UpdateField(k, f, changes) ==
  /\ edits < MaxEdits /\ edits' = edits + 1
  /\ f \in DOMAIN schema
  /\ \E i \in EditedLayers(layers, k) :
       /\ layers' = WithActive(layers, k, i)
       /\ rows' = [rows EXCEPT ![i] = MetaUpdated(@, <<"meta", f>>, changes)]
  /\ UNCHANGED <<schema, schemaFile, files, report, imports, writes>>

CreateDraft(k, d) ==
  /\ d \notin Used(layers)
  /\ \E i \in ActiveLayers(layers, k) :
       /\ layers' = Cloned(layers, i, d)
       /\ rows' = [rows EXCEPT ![d] = rows[i]]
  /\ UNCHANGED <<schema, schemaFile, files, report, imports, edits, writes>>

PromoteDraft(d) ==
  /\ layers[d].status = "draft"
  /\ \E prev \in Superseded(layers, d) : layers' = Promoted(layers, d, prev)
  /\ UNCHANGED <<schema, rows, schemaFile, files, report, imports, edits, writes>>

ArchiveDraft(d) ==
  /\ layers[d].status = "draft"
  /\ layers' = Archived(layers, d)
  /\ UNCHANGED <<schema, rows, schemaFile, files, report, imports, edits, writes>>

Next ==
  \/ ImportFiles \/ ExportFiles \/ WriteFile
  \/ \E k \in Key : \/ \E f \in Field, changes \in MetaChange : UpdateField(k, f, changes)
                    \/ \E d \in LayerId : CreateDraft(k, d)
  \/ \E d \in LayerId : PromoteDraft(d) \/ ArchiveDraft(d)

Spec == Init /\ [][Next]_vars

-----------------------------------------------------------------------------
(* Properties.                                                             *)

Pairs == Tool \X Language

Config(t, l) == Resolved(schema, ActiveRows(t), ActiveRows(l), t, l)

FirstSet(values) ==
  IF \E i \in DOMAIN values : values[i] # NULL
  THEN values[CHOOSE i \in DOMAIN values : values[i] # NULL /\ \A j \in 1..(i - 1) : values[j] = NULL]
  ELSE NULL

RowFor(x) == IF x \in Step THEN <<"step", x>> ELSE <<"meta", x>>

\* Attribute c of step or field x, with the language's overrides taken from the row of g.
InOrder(p, x, c, g) ==
  FirstSet(<<Row(ActiveRows(p[2]), RowFor(g))[c], Row(ActiveRows(p[1]), RowFor(x))[c], schema[x][c]>>)

\* x, and the other fields of its step with its key.
SameKey(x) ==
  IF x \in Step THEN {x}
  ELSE {g \in DOMAIN schema \ Step : <<StepOf[g], KeyOf[g]>> = <<StepOf[x], KeyOf[x]>>}

\* What the wizard gets for an attribute is the value of the language's active
\* layer, else of the tool's, else of the schema, whichever order of imports,
\* edits and promotions produced the layers; the language's is the row of the
\* field, or that of one other field of the step with its key, and then for every
\* attribute (load_resolved_config, _apply_lang_overrides_to_fields).
ResolvedAsLayered ==
  \A p \in Pairs : \A x \in DOMAIN schema :
    \E g \in SameKey(x) : \A c \in Columns(RowFor(x)) \cap DOMAIN schema[x] :
      Config(p[1], p[2])[x][c] = InOrder(p, x, c, g)

\* An import either reports a file or leaves the active layer of its key with
\* every row the file names (import_layers goes on after an error and _main
\* commits in any case).
ImportReportsOrApplies ==
  [][imports' # imports =>
       \A k \in Key \ report' :
         /\ ActiveLayers(layers', k) # {}
         /\ \A t \in DOMAIN files[k] : Row(ActiveRows(k)', t) = RowOf(t, files[k][t])]_vars

RestoredSchema == [x \in DOMAIN schema |-> SchemaRow(x, ExportedSchema[x])]

Restored(table) == Imported(NoRows, Exported(table), DOMAIN schema)

RestoredConfig(t, l) ==
  Resolved(RestoredSchema, Restored(ActiveRows(t)), Restored(ActiveRows(l)), t, l)

\* The rows of a layer for x lose nothing the import does not read: no list is
\* replaced, no file added, no text and no list emptied.
Exchangeable(table, x) ==
  /\ \A c \in {"merge_options", "merge_presets"} :
       x \in Field => Row(table, <<"content", x>>)[c] # <<>>
  /\ \A t \in DOMAIN table : t[2] = x => \A c \in Columns(t) : table[t][c] # Blank
  /\ \A c \in {"replace_options_with", "replace_presets_with", "preset_files_to_add"} :
       x \in Field => Row(table, <<"content", x>>)[c] = NULL

\* The attributes of x in the schema that no export writes.
LostInExport(x) ==
  {c \in DOMAIN schema[x] \cap {"editability", "locked_value", "validation"} :
     schema[x][c] # SchemaDefault(c)}

\* Values are the same up to empty lists and texts, which the export treats as none.
Same(c, v, w) ==
  \/ v = w
  \/ c \in {"options", "presets", "preset_files"} /\ Listed(v) = Listed(w)
  \/ c = "description" /\ {v, w} \subseteq {NULL, Blank}

\* Exported and imported into an empty database, the configuration of a tool
\* and a language resolves to the same attributes (export_all, run_import),
\* apart from what LostInExport and Exchangeable name and from fields with
\* a namesake in their step, of which a new database may find another.
ConfigSurvivesExchange ==
  \A p \in Pairs : \A x \in DOMAIN schema :
    /\ SameKey(x) = {x}
    /\ Exchangeable(ActiveRows(p[1]), x) /\ Exchangeable(ActiveRows(p[2]), x)
    => LET config == Config(p[1], p[2])[x]
           restored == RestoredConfig(p[1], p[2])[x]
       IN  \A c \in DOMAIN config \ LostInExport(x) : Same(c, restored[c], config[c])

\* The export is the inverse of the import, as config_db_exporter.py says: what
\* it writes, imported into an empty database, resolves to the same configuration.
ExportIsInverse ==
  \A p \in Pairs : RestoredConfig(p[1], p[2]) = Config(p[1], p[2])
=============================================================================
