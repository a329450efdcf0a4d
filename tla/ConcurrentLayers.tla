-------------------------- MODULE ConcurrentLayers --------------------------
(***************************************************************************)
(* The layer store under concurrent requests.  get_db_session gives every  *)
(* request a session of its own on MySQL (InnoDB), at its default          *)
(* isolation level:                                                        *)
(*                                                                         *)
(*   - all reads of a transaction see the snapshot its first read took;    *)
(*   - a flush writes the columns that the handler changed, and only       *)
(*     those, to the rows as they are now, locking them until the commit,  *)
(*     so that on every row the writes follow each other in commit order;  *)
(*   - an insert waits for, and fails on, a row with the same unique key.  *)
(*                                                                         *)
(* Hence a request is two steps: Begin takes the snapshot, and a commit    *)
(* applies what the handler computed from it to the tables as they are by  *)
(* then.  A request that raises, or that the database rolls back, is an    *)
(* Abort.  Which request a worker runs only shows when it commits, and is  *)
(* chosen there.  Audit rows, which no handler reads, are left out.        *)
(***************************************************************************)
EXTENDS LayerOps

CONSTANTS
  Worker,             \* the requests that may be in progress at once
  ImportedOverrides,  \* override rows an imported layer may start with
  MaxVersion          \* bound: version numbers per history

ASSUME ImportAssumption == ImportedOverrides \subseteq [Field -> FieldOverride]

ASSUME BoundAssumption == MaxVersion \in Nat

VARIABLES
  layers,     \* config_layer
  overrides,  \* the override rows of each layer
  languages,  \* language
  versions,   \* config_version
  snap,       \* snap[w]: what w's transaction reads, NULL when it has none
  overtaken   \* ghost: keys of the drafts that were both promoted and archived

tables == <<layers, overrides, languages, versions>>
vars == <<tables, snap, overtaken>>

Snapshot ==
  [ layers    : [LayerId -> LayerRow],
    overrides : [LayerId -> [Field -> FieldOverride]],
    languages : SUBSET Language,
    versions  : SUBSET VersionRow ]

TypeOK ==
  /\ layers \in [LayerId -> LayerRow]
  /\ overrides \in [LayerId -> [Field -> FieldOverride]]
  /\ languages \in SUBSET Language
  /\ versions \in SUBSET VersionRow
  /\ snap \in [Worker -> Snapshot \cup {NULL}]
  /\ overtaken \in SUBSET Key

-----------------------------------------------------------------------------
\* As in ConfigLayers: a database the importer filled, and no request yet.
Init ==
  /\ layers \in [LayerId ->
       {Unused} \cup {NewLayer(k, "active", NULL) : k \in Tool \cup Language}]
  /\ \A i, j \in Used(layers) : layers[i].key = layers[j].key => i = j
  /\ overrides \in [LayerId -> ImportedOverrides \cup {NoOverrides}]
  /\ \A i \in LayerId \ Used(layers) : overrides[i] = NoOverrides
  /\ languages = {l \in Language : ActiveLayers(layers, l) # {}}
  /\ versions = {}
  /\ snap = [w \in Worker |-> NULL]
  /\ overtaken = {}

-----------------------------------------------------------------------------
(* Transactions.                                                           *)

Running(w) == snap[w] # NULL

Begin(w) ==
  /\ ~Running(w)
  /\ snap' = [snap EXCEPT ![w] = [layers |-> layers, overrides |-> overrides,
                                  languages |-> languages, versions |-> versions]]
  /\ UNCHANGED <<tables, overtaken>>

Ended(w) == snap' = [snap EXCEPT ![w] = NULL]

Abort(w) ==
  /\ Running(w)
  /\ Ended(w)
  /\ UNCHANGED <<tables, overtaken>>

\* A flushed row: the columns whose value differs from the one read.
Flushed(now, read, new) ==
  [c \in DOMAIN now |-> IF new[c] = read[c] THEN now[c] ELSE new[c]]

FlushedLayers(w, new) ==
  [i \in LayerId |-> Flushed(layers[i], snap[w].layers[i], new[i])]

\* The id of an inserted row is one that no committed row has.
Inserted(w, i) == i \notin Used(snap[w].layers) => i \notin Used(layers)

KnownTo(w, k) == k \in Tool \cup Combo \cup snap[w].languages

\* Mutant: no unique constraint on (scope, target_key, version_number).
RecordedUnchecked(w, h, data) ==
  LET v == NewVersion(snap[w].versions, h, data)
  IN  /\ v.number <= MaxVersion
      /\ versions' = versions \cup {v}

\* _write_audit_and_version: numbered from the snapshot, and refused by
\* uq_config_version_scope_target_ver if another request has committed that number since.
Recorded(w, h, data) ==
  LET v == NewVersion(snap[w].versions, h, data)
  IN  /\ v.number <= MaxVersion
      /\ v.number \notin VersionNumbers(versions, h)
      /\ versions' = versions \cup {v}

-----------------------------------------------------------------------------
(* Commits, one per handler.                                               *)

EditField(w, k, i, f, row, data) ==
  /\ Running(w) /\ KnownTo(w, k)
  /\ i \in EditedLayers(snap[w].layers, k) /\ Inserted(w, i)
  /\ layers' = FlushedLayers(w, WithActive(snap[w].layers, k, i))
  /\ overrides' = [overrides EXCEPT ![i][f] =
                     Flushed(@, snap[w].overrides[i][f], row)]
  /\ Recorded(w, EditHistory(k), data)
  /\ Ended(w)
  /\ UNCHANGED <<languages, overtaken>>

UpdateField(w, k, i, f, v) ==
  EditField(w, k, i, f, Updated(snap[w].overrides[i][f], v), <<"meta", v>>)

ResetField(w, k, i, f, type) ==
  EditField(w, k, i, f, Reset(snap[w].overrides[i][f], type), <<"none">>)

AddPreset(w, k, i, f, p) ==
  LET row == snap[w].overrides[i][f]
  IN  EditField(w, k, i, f, PresetAdded(row, p), <<"presets", PresetsWith(row, p)>>)

RemovePreset(w, k, i, f) ==
  LET row == snap[w].overrides[i][f]
  IN  /\ Running(w)
      /\ \E gone \in Removals(row) :
           EditField(w, k, i, f, PresetsRemoved(row, gone), <<"none">>)

\* language_key is unique.
CreateLanguage(w, l, i) ==
  /\ Running(w)
  /\ l \notin snap[w].languages /\ l \notin languages
  /\ i \notin Used(layers)
  /\ languages' = languages \cup {l}
  /\ layers' = [layers EXCEPT ![i] = NewLayer(l, "active", NULL)]
  /\ Recorded(w, EditHistory(l), <<"language", l>>)
  /\ Ended(w)
  /\ UNCHANGED <<overrides, overtaken>>

RestoreVersion(w, h, n) ==
  /\ Running(w)
  /\ \E v \in snap[w].versions :
       /\ v.history = h /\ v.number = n
       /\ Recorded(w, h, v.data)
  /\ Ended(w)
  /\ UNCHANGED <<layers, overrides, languages, overtaken>>

CreateDraft(w, k, src, d) ==
  /\ Running(w) /\ KnownTo(w, k)
  /\ src \in ActiveLayers(snap[w].layers, k)
  /\ d \notin Used(layers)
  /\ layers' = FlushedLayers(w, Cloned(snap[w].layers, src, d))
  /\ overrides' = [overrides EXCEPT ![d] = snap[w].overrides[src]]
  /\ Ended(w)
  /\ UNCHANGED <<languages, versions, overtaken>>

\* A draft that was archived since the snapshot is promoted all the same.
PromoteDraft(w, d) ==
  /\ Running(w)
  /\ d \in Used(snap[w].layers)
  /\ ValidTransition(snap[w].layers[d].status, "active")
  /\ \E prev \in Superseded(snap[w].layers, d) :
       layers' = FlushedLayers(w, Promoted(snap[w].layers, d, prev))
  /\ Recorded(w, LayerHistory(layers[d].key), <<"layer", d>>)
  /\ overtaken' = IF layers[d].status = "archived" THEN overtaken \cup {layers[d].key}
                  ELSE overtaken
  /\ Ended(w)
  /\ UNCHANGED <<overrides, languages>>

\* Nor does a draft that was promoted since refuse to be archived.
ArchiveDraft(w, d) ==
  /\ Running(w)
  /\ snap[w].layers[d].status = "draft"
  /\ ValidTransition(snap[w].layers[d].status, "archived")
  /\ layers' = FlushedLayers(w, Archived(snap[w].layers, d))
  /\ overtaken' = IF layers[d].status = "active" THEN overtaken \cup {layers[d].key}
                  ELSE overtaken
  /\ Ended(w)
  /\ UNCHANGED <<overrides, languages, versions>>

Next ==
  \E w \in Worker :
    \/ Begin(w) \/ Abort(w)
    \/ \E k \in Key, i \in LayerId, f \in Field :
         \/ \E v \in Value : UpdateField(w, k, i, f, v)
         \/ \E type \in {"metadata", "structure"} : ResetField(w, k, i, f, type)
         \/ \E p \in Preset : AddPreset(w, k, i, f, p)
         \/ RemovePreset(w, k, i, f)
    \/ \E l \in Language, i \in LayerId : CreateLanguage(w, l, i)
    \/ \E h \in Restorable, n \in 1..MaxVersion : RestoreVersion(w, h, n)
    \/ \E k \in Key, src, d \in LayerId : CreateDraft(w, k, src, d)
    \/ \E d \in LayerId : PromoteDraft(w, d) \/ ArchiveDraft(w, d)

Spec == Init /\ [][Next]_vars

-----------------------------------------------------------------------------
(* Safety.                                                                 *)

\* Requests that overlap never take one another's version number, nor leave a gap.
VersionsContiguous == Gapless(versions, MaxVersion)

\* Only the overlap of archiving and promoting one draft can spoil the set of
\* active layers: concurrent promotions of a key, its first edits, a promotion
\* and an edit, all leave it exactly one.
OneActiveUnlessOvertaken ==
  \A i \in Used(layers) : layers[i].key \in overtaken
    \/ \E a \in LayerId : ActiveLayers(layers, layers[i].key) = {a}

\* No lost update: an edit is computed from the overrides it changes as they are
\* when it commits, because two edits of a target cannot commit the same version.
EditsNeverLost ==
  [][\A w \in Worker, i \in LayerId :
       Running(w) /\ ~Running(w)' /\ i \in Used(layers)
         /\ overrides'[i] # overrides[i]
       => overrides[i] = snap[w].overrides[i]]_vars

\* Promotions of a key take effect one after the other: a promotion supersedes
\* the layer that is active then, unless the draft was archived in the meantime.
SupersedesTheActive ==
  [][\A d \in LayerId :
       layers[d].status = "draft" /\ layers'[d].status = "active"
         /\ layers[d].key \notin overtaken'
       => \A i \in ActiveLayers(layers, layers[d].key) :
            layers'[i].status = "archived" /\ layers'[i].successor = d]_vars
=============================================================================
