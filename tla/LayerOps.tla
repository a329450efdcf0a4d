------------------------------ MODULE LayerOps ------------------------------
(***************************************************************************)
(* The tables behind the layered configuration and what each handler of    *)
(* the config and draft routers computes from them.                        *)
(*                                                                         *)
(* A layer row is a record of the config_layer columns the handlers test   *)
(* or set; an id that no row has yet is mapped to Unused.  The override    *)
(* rows of a layer are kept apart, as in the schema: one metadata row and  *)
(* one content row per field, NULL when the row does not exist.  Names,    *)
(* actors and timestamps are left out.  The operators take the tables as   *)
(* arguments, so that a module can apply them to the committed tables or   *)
(* to the snapshot a transaction works on.                                 *)
(*                                                                         *)
(* A definition marked Mutant is a plausible bug of the one after it; no   *)
(* specification uses it.                                                  *)
(***************************************************************************)
EXTENDS Integers, FiniteSetsExt

CONSTANTS
  Tool,       \* rows of ai_tool, named by tool_key
  Language,   \* the possible language_key values
  Combo,      \* the "tool+language" targets of the override scope
  LayerId,    \* primary keys of config_layer
  Field,      \* fields of the active schema
  Label,      \* preset labels
  Value,      \* values of a metadata override, bodies of a preset, options
  NULL        \* an absent row or a NULL column

\* A (scope, target) pair names one layer key: tool:t, language:l, override:c.
Key == Tool \cup Language \cup Combo

ASSUME KeysDisjoint ==
  /\ Tool \cap Language = {} /\ Tool \cap Combo = {} /\ Language \cap Combo = {}

ASSUME NullDistinct == NULL \notin Key \cup LayerId \cup Value

-----------------------------------------------------------------------------
(* Status values and the transition table of the lifecycle service.        *)

Status == {"draft", "active", "archived", "candidate", "rejected"}

AllowedTransitions ==
  { <<"draft", "active">>, <<"draft", "archived">>, <<"active", "archived">>,
    <<"candidate", "draft">>, <<"candidate", "rejected">>,
    <<"candidate", "withdrawn">> }

TerminalStatuses == {"archived", "rejected", "withdrawn"}

\* validate_transition returns without raising.
ValidTransition(from, to) ==
  /\ to \in Status
  /\ \/ from = to
     \/ from \notin TerminalStatuses /\ <<from, to>> \in AllowedTransitions

-----------------------------------------------------------------------------
(* Rows.                                                                   *)

LayerRow ==
  [ status    : Status \cup {"none"},
    key       : Key \cup {NULL},
    parent    : LayerId \cup {NULL},     \* parent_layer_id
    published : BOOLEAN,                 \* published_at is set
    successor : LayerId \cup {NULL} ]    \* the draft named by archive_reason

Unused == [status |-> "none", key |-> NULL, parent |-> NULL,
           published |-> FALSE, successor |-> NULL]

NewLayer(k, status, parent) ==
  [status |-> status, key |-> k, parent |-> parent,
   published |-> FALSE, successor |-> NULL]

Preset == [label : Label, body : Value]

ContentRow == [options : Value \cup {NULL}, presets : SUBSET Preset]

FieldOverride == [meta : Value \cup {NULL}, content : ContentRow \cup {NULL}]

NoOverrides == [f \in Field |-> [meta |-> NULL, content |-> NULL]]

Used(ls) == {i \in LayerId : ls[i].status # "none"}

ActiveLayers(ls, k) == {i \in LayerId : ls[i].status = "active" /\ ls[i].key = k}

-----------------------------------------------------------------------------
(* Version numbers.  Edits are recorded under the request's own scope and  *)
(* target, promotions under the row's layer_type and layer_key: two        *)
(* different histories of the same key.                                    *)

EditHistory(k) == <<"target", k>>
LayerHistory(k) == <<"layer_key", k>>

History == {"target", "layer_key"} \X Key

\* The histories that RestoreVersionRequest can name: its scope is one of tool,
\* language, override, and the layer_type of an override layer is combo.
Restorable == History \ {LayerHistory(c) : c \in Combo}

VersionData ==
  ({"meta"} \X Value) \cup ({"presets"} \X SUBSET Preset)
    \cup ({"layer"} \X LayerId) \cup ({"language"} \X Language) \cup {<<"none">>}

VersionRow == [history : History, number : Nat \ {0}, data : VersionData]

VersionNumbers(vs, h) == {v.number : v \in {w \in vs : w.history = h}}

\* Mutant: the maximum is taken over every history.
NextVersionNumberOverall(vs, h) ==
  IF vs = {} THEN 1 ELSE Max({v.number : v \in vs}) + 1

NextVersionNumber(vs, h) ==
  IF VersionNumbers(vs, h) = {} THEN 1 ELSE Max(VersionNumbers(vs, h)) + 1

NewVersion(vs, h, data) ==
  [history |-> h, number |-> NextVersionNumber(vs, h), data |-> data]

\* The numbers of every history are 1..n for some n up to max, each used once.
Gapless(vs, max) ==
  /\ \A v, w \in vs : v.history = w.history /\ v.number = w.number => v = w
  /\ \A h \in History : \E n \in 0..max : VersionNumbers(vs, h) = 1..n

-----------------------------------------------------------------------------
(* What the handlers write.                                                *)

\* Mutant: an edit is routed to a draft of the key.
EditedLayersWithDrafts(ls, k) ==
  {i \in LayerId : ls[i].status \in {"active", "draft"} /\ ls[i].key = k}

\* _get_or_create_*_layer: the layers an edit of k may land in, and the table
\* once the one it landed in exists.  The lookup is a LIMIT 1 without ORDER BY.
EditedLayers(ls, k) ==
  IF ActiveLayers(ls, k) # {} THEN ActiveLayers(ls, k) ELSE LayerId \ Used(ls)

WithActive(ls, k, i) ==
  IF ActiveLayers(ls, k) # {} THEN ls
  ELSE [ls EXCEPT ![i] = NewLayer(k, "active", NULL)]

Updated(row, v) == [row EXCEPT !.meta = v]

Reset(row, type) ==
  IF type = "structure" THEN [meta |-> NULL, content |-> NULL]
  ELSE [row EXCEPT !.meta = NULL]

\* The preset list after add_preset; its order is abstracted away.
PresetsWith(row, p) ==
  IF row.content = NULL THEN {p}
  ELSE {q \in row.content.presets : q.label # p.label} \cup {p}

PresetAdded(row, p) ==
  [row EXCEPT !.content =
     [options |-> IF row.content = NULL THEN NULL ELSE row.content.options,
      presets |-> PresetsWith(row, p)]]

\* remove_preset drops the presets in gone; a content row left without presets
\* is deleted, with whatever else it held.
PresetsRemoved(row, gone) ==
  IF row.content = NULL THEN row
  ELSE IF row.content.presets \subseteq gone THEN [row EXCEPT !.content = NULL]
  ELSE [row EXCEPT !.content.presets = @ \ gone]

\* What one remove_preset request may select: the presets with a label, the one
\* at a position, or nothing (no such label or position, or neither given).
Removals(row) ==
  IF row.content = NULL THEN {{}}
  ELSE {{}} \cup {{p} : p \in row.content.presets}
         \cup {{p \in row.content.presets : p.label = l} : l \in Label}

\* clone_layer_to_draft.
Cloned(ls, src, d) == [ls EXCEPT ![d] = NewLayer(ls[src].key, "draft", src)]

\* Mutants: the active layer is not looked up; it is looked up without its key.
SupersededNone(ls, d) == {NULL}

SupersededOfAnyKey(ls, d) ==
  LET others == {i \in LayerId : ls[i].status = "active"} \ {d}
  IN  IF others = {} THEN {NULL} ELSE others

\* promote_draft: the other active layer of the same type and key, if any ...
Superseded(ls, d) ==
  LET others == ActiveLayers(ls, ls[d].key) \ {d}
  IN  IF others = {} THEN {NULL} ELSE others

\* Mutant: published_at is not set.
PromotedUnpublished(ls, d, prev) ==
  [i \in LayerId |->
     IF i = d THEN [ls[i] EXCEPT !.status = "active"]
     ELSE IF i = prev THEN [ls[i] EXCEPT !.status = "archived", !.successor = d]
     ELSE ls[i]]

\* ... is archived, and d becomes the active one.
Promoted(ls, d, prev) ==
  [i \in LayerId |->
     IF i = d THEN [ls[i] EXCEPT !.status = "active", !.published = TRUE]
     ELSE IF i = prev THEN [ls[i] EXCEPT !.status = "archived", !.successor = d]
     ELSE ls[i]]

\* Mutant: a status the column has no value for.
Withdrawn(ls, d) == [ls EXCEPT ![d].status = "withdrawn"]

\* archive_draft, by transition().
Archived(ls, d) == [ls EXCEPT ![d].status = "archived"]
=============================================================================
