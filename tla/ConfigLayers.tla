---------------------------- MODULE ConfigLayers ----------------------------
(***************************************************************************)
(* The layer store as its API sees it when requests run one at a time:     *)
(* every action is one request handler of routers/config.py or             *)
(* routers/drafts.py with the single transaction it commits.  A request    *)
(* that raises is rolled back and is no step.  ConcurrentLayers takes the  *)
(* same handlers apart into a snapshot and a commit.                       *)
(***************************************************************************)
EXTENDS LayerOps

CONSTANTS
  ImportedOverrides,  \* override rows an imported layer may start with
  MaxVersion          \* bound: version numbers per history

ASSUME ImportAssumption == ImportedOverrides \subseteq [Field -> FieldOverride]

ASSUME BoundAssumption == MaxVersion \in Nat

\* NULL, for what a key without active layer serves, is no set of override rows.
ASSUME NullNoOverrides == NULL \notin [Field -> FieldOverride]

\* Ids come from a sequence of integers of a fixed width.
ASSUME FiniteIds == IsFiniteSet(LayerId)

VARIABLES
  layers,     \* config_layer
  overrides,  \* the override rows of each layer
  languages,  \* language
  versions,   \* config_version
  audit       \* config_audit_event: how many events per action and history

vars == <<layers, overrides, languages, versions, audit>>

\* "edit" stands for the actions update, reset, add_preset, remove_preset, create
\* and restore, whose events come with a version.
AuditAction == {"edit", "layer_draft_created", "layer_promoted", "layer_archived"}

TypeOK ==
  /\ layers \in [LayerId -> LayerRow]
  /\ overrides \in [LayerId -> [Field -> FieldOverride]]
  /\ languages \in SUBSET Language
  /\ versions \in SUBSET VersionRow
  /\ audit \in [AuditAction \X History -> Nat]

-----------------------------------------------------------------------------
\* A database the importer filled: at most one active layer per key and a
\* language row for each language layer.  No version or audit row exists yet.
Init ==
  /\ layers \in [LayerId ->
       {Unused} \cup {NewLayer(k, "active", NULL) : k \in Tool \cup Language}]
  /\ \A i, j \in Used(layers) : layers[i].key = layers[j].key => i = j
  /\ overrides \in [LayerId -> ImportedOverrides \cup {NoOverrides}]
  /\ \A i \in LayerId \ Used(layers) : overrides[i] = NoOverrides
  /\ languages = {l \in Language : ActiveLayers(layers, l) # {}}
  /\ versions = {}
  /\ audit = [e \in AuditAction \X History |-> 0]

-----------------------------------------------------------------------------
\* The tool or language row an edit or a new draft is addressed to exists.
Known(k) == k \in Tool \cup Combo \cup languages

Logged(action, h) == audit' = [audit EXCEPT ![<<action, h>>] = @ + 1]

\* _write_audit_and_version: both rows, in the request's transaction.
Recorded(action, h, data) ==
  /\ NextVersionNumber(versions, h) <= MaxVersion
  /\ versions' = versions \cup {NewVersion(versions, h, data)}
  /\ Logged(action, h)

\* What the four field edits share: the edit lands in the active layer i of k,
\* which is created if there is none, and never in a draft.
EditField(k, i, f, row, data) ==
  /\ Known(k)
  /\ i \in EditedLayers(layers, k)
  /\ layers' = WithActive(layers, k, i)
  /\ overrides' = [overrides EXCEPT ![i] = [@ EXCEPT ![f] = row]]
  /\ Recorded("edit", EditHistory(k), data)
  /\ UNCHANGED languages

UpdateField(k, i, f, v) ==
  EditField(k, i, f, Updated(overrides[i][f], v), <<"meta", v>>)

ResetField(k, i, f, type) ==
  EditField(k, i, f, Reset(overrides[i][f], type), <<"none">>)

AddPreset(k, i, f, p) ==
  EditField(k, i, f, PresetAdded(overrides[i][f], p),
            <<"presets", PresetsWith(overrides[i][f], p)>>)

RemovePreset(k, i, f) ==
  \E gone \in Removals(overrides[i][f]) :
    EditField(k, i, f, PresetsRemoved(overrides[i][f], gone), <<"none">>)

\* create_language: the language, its active layer, audit and version rows.
CreateLanguage(l, i) ==
  /\ l \notin languages
  /\ i \notin Used(layers)
  /\ languages' = languages \cup {l}
  /\ layers' = [layers EXCEPT ![i] = NewLayer(l, "active", NULL)]
  /\ Recorded("edit", EditHistory(l), <<"language", l>>)
  /\ UNCHANGED overrides

\* restore_version: a new version that repeats an old one's data.
RestoreVersion(h, n) ==
  /\ \E v \in versions :
       /\ v.history = h /\ v.number = n
       /\ Recorded("edit", h, v.data)
  /\ UNCHANGED <<layers, overrides, languages>>

\* Mutants: a draft may be cloned from any layer of k; its overrides are not.
CreateDraftFromAny(k, src, d) ==
  /\ Known(k)
  /\ src \in Used(layers) /\ layers[src].key = k
  /\ d \notin Used(layers)
  /\ layers' = Cloned(layers, src, d)
  /\ overrides' = [overrides EXCEPT ![d] = overrides[src]]
  /\ Logged("layer_draft_created", LayerHistory(k))
  /\ UNCHANGED <<languages, versions>>

CreateEmptyDraft(k, src, d) ==
  /\ Known(k)
  /\ src \in ActiveLayers(layers, k)
  /\ d \notin Used(layers)
  /\ layers' = Cloned(layers, src, d)
  /\ Logged("layer_draft_created", LayerHistory(k))
  /\ UNCHANGED <<overrides, languages, versions>>

\* create_draft_from_active: a clone of the active layer src of k.
CreateDraft(k, src, d) ==
  /\ Known(k)
  /\ src \in ActiveLayers(layers, k)
  /\ d \notin Used(layers)
  /\ layers' = Cloned(layers, src, d)
  /\ overrides' = [overrides EXCEPT ![d] = overrides[src]]
  /\ Logged("layer_draft_created", LayerHistory(k))
  /\ UNCHANGED <<languages, versions>>

\* promote_draft: any layer whose status may become active, itself included.
PromoteDraft(d) ==
  /\ d \in Used(layers)
  /\ ValidTransition(layers[d].status, "active")
  /\ \E prev \in Superseded(layers, d) : layers' = Promoted(layers, d, prev)
  /\ Recorded("layer_promoted", LayerHistory(layers[d].key), <<"layer", d>>)
  /\ UNCHANGED <<overrides, languages>>

\* Mutants: only the transition table guards the request; no event is written.
ArchiveLayer(d) ==
  /\ ValidTransition(layers[d].status, "archived")
  /\ layers' = Archived(layers, d)
  /\ Logged("layer_archived", LayerHistory(layers[d].key))
  /\ UNCHANGED <<overrides, languages, versions>>

ArchiveSilently(d) ==
  /\ layers[d].status = "draft"
  /\ layers' = Archived(layers, d)
  /\ UNCHANGED <<overrides, languages, versions, audit>>

\* archive_draft: only a draft.
ArchiveDraft(d) ==
  /\ layers[d].status = "draft"
  /\ ValidTransition(layers[d].status, "archived")
  /\ layers' = Archived(layers, d)
  /\ Logged("layer_archived", LayerHistory(layers[d].key))
  /\ UNCHANGED <<overrides, languages, versions>>

Next ==
  \/ \E k \in Key, i \in LayerId, f \in Field :
       \/ \E v \in Value : UpdateField(k, i, f, v)
       \/ \E type \in {"metadata", "structure"} : ResetField(k, i, f, type)
       \/ \E p \in Preset : AddPreset(k, i, f, p)
       \/ RemovePreset(k, i, f)
  \/ \E l \in Language, i \in LayerId : CreateLanguage(l, i)
  \/ \E h \in Restorable, n \in 1..MaxVersion : RestoreVersion(h, n)
  \/ \E k \in Key, src, d \in LayerId : CreateDraft(k, src, d)
  \/ \E d \in LayerId : PromoteDraft(d) \/ ArchiveDraft(d)

Spec == Init /\ [][Next]_vars

-----------------------------------------------------------------------------
(* Safety.                                                                 *)

\* A key with any layer has exactly one active layer: the readers take the first
\* they find, so a second one would make what they resolve a matter of chance,
\* and none would silently drop the key's configuration.
ExactlyOneActive ==
  \A i \in Used(layers) :
    \E a \in LayerId : ActiveLayers(layers, layers[i].key) = {a}

\* Every layer belongs to a tool, combo or language that exists: creating a
\* language can never adopt layers that were there before it.
KeysKnown == \A i \in Used(layers) : Known(layers[i].key)

\* Every draft descends from a layer of its own key that was published: a parent
\* is active or archived, never another draft, whatever became of it since.
Lineage ==
  \A i \in Used(layers) : layers[i].parent # NULL =>
    LET p == layers[layers[i].parent]
    IN  /\ layers[i].parent # i
        /\ p.key = layers[i].key
        /\ p.status \in {"active", "archived"}

\* The archive reason of a superseded layer leads, through later promotions, to
\* the layer that is active now: each link is a published layer of the same key
\* that is active or was superseded in turn.
SupersessionChain ==
  \A i \in LayerId : layers[i].successor # NULL =>
    LET s == layers[layers[i].successor]
    IN  /\ layers[i].status = "archived"
        /\ s.key = layers[i].key /\ s.published
        /\ \/ s.status = "active"
           \/ s.status = "archived" /\ s.successor # NULL

\* Version numbers of a history run 1, 2, ... without gap, and no two versions
\* share one.
VersionsContiguous == Gapless(versions, MaxVersion)

\* The audit trail accounts for the layer table: as many draft_created events as
\* cloned layers, a layer_archived event for each layer discarded rather than
\* superseded, and one event for every version, written in its transaction.
AuditAccounts ==
  /\ \A k \in Key :
       /\ audit[<<"layer_draft_created", LayerHistory(k)>>] =
            Cardinality({i \in LayerId : layers[i].key = k /\ layers[i].parent # NULL})
       /\ audit[<<"layer_archived", LayerHistory(k)>>] =
            Cardinality({i \in LayerId : /\ layers[i].key = k
                                         /\ layers[i].status = "archived"
                                         /\ layers[i].successor = NULL})
  /\ \A h \in History :
       Cardinality(VersionNumbers(versions, h)) =
         audit[<<"edit", h>>] + audit[<<"layer_promoted", h>>]

\* Once a key is served by an active layer it is always served by one.
NeverDark ==
  [][\A k \in Key : ActiveLayers(layers, k) # {} => ActiveLayers(layers', k) # {}]_vars

\* Drafts and archived layers are frozen: no request changes their overrides, and
\* an archived layer's row never changes again.
FrozenUnlessActive ==
  [][\A i \in LayerId :
       /\ layers[i].status \in {"draft", "archived"} => overrides'[i] = overrides[i]
       /\ layers[i].status \in TerminalStatuses => layers'[i] = layers[i]]_vars

\* A request touches the layers of one key only, and a row never changes key.
ConfinedToOneKey ==
  [][\E k \in Key : \A i \in LayerId :
       layers'[i] # layers[i] \/ overrides'[i] # overrides[i] =>
         /\ layers'[i].key = k
         /\ i \in Used(layers) => layers[i].key = k]_<<layers, overrides>>

\* Claimed by restore_version's docstring: the restored version's data is applied
\* back to the layer.  Here for the data of a metadata update.
RestoreApplies ==
  [][\A k \in Key, v \in versions :
       /\ RestoreVersion(EditHistory(k), v.number)
       /\ v.history = EditHistory(k) /\ v.data[1] = "meta"
       => \E i \in ActiveLayers(layers', k), f \in Field :
            overrides'[i][f].meta = v.data[2]]_vars

-----------------------------------------------------------------------------
(* The abstract specification: what each key serves and has put aside.     *)

Live ==
  [k \in Key |-> IF ActiveLayers(layers, k) = {} THEN NULL
                 ELSE overrides[CHOOSE i \in ActiveLayers(layers, k) : TRUE]]

Saved ==
  [k \in Key |-> {overrides[i] : i \in {j \in LayerId : /\ layers[j].status = "draft"
                                                       /\ layers[j].key = k}}]

Published == INSTANCE PublishedConfig WITH
  live <- Live, saved <- Saved, Empty <- NoOverrides

\* Every request is, to a reader, one step of PublishedConfig or none.
ImplementsPublished == Published!Spec
=============================================================================
