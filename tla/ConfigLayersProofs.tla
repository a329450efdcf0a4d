------------------------- MODULE ConfigLayersProofs -------------------------
(***************************************************************************)
(* Proofs about the layer store, for every set of tools, languages, layer  *)
(* ids, fields and values.                                                 *)
(***************************************************************************)
EXTENDS ConfigLayers, LayerOpsProofs, FiniteSetTheorems

-----------------------------------------------------------------------------
(* Version numbers.                                                        *)

\* Recording a version keeps every history contiguous and well typed.
LEMMA RecordedKeeps ==
  ASSUME TypeOK, VersionsContiguous,
         NEW action \in AuditAction, NEW h \in History, NEW data \in VersionData,
         Recorded(action, h, data)
  PROVE  /\ versions' \in SUBSET VersionRow
         /\ audit' \in [AuditAction \X History -> Nat]
         /\ VersionsContiguous'
<1>1. /\ NextVersionNumber(versions, h) <= MaxVersion
      /\ versions' = versions \cup {NewVersion(versions, h, data)}
  BY DEF Recorded
<1>2. versions' \in SUBSET VersionRow /\ VersionsContiguous'
  BY <1>1, BoundAssumption, NewVersionKeeps DEF TypeOK, VersionsContiguous
<1>3. audit' \in [AuditAction \X History -> Nat]
  BY DEF Recorded, Logged, TypeOK
<1>4. QED
  BY <1>2, <1>3

-----------------------------------------------------------------------------
(* The inductive invariant.  ExactlyOneActive rests on KeysKnown, for the   *)
(* active layer of a new language, and TypeOK on VersionsContiguous, for    *)
(* the next version number.                                                 *)

IInv == TypeOK /\ KeysKnown /\ ExactlyOneActive /\ VersionsContiguous

\* The layers of a key are none, or one active and others that are not.
LEMMA ActiveUnique ==
  ASSUME IInv, NEW k, NEW i \in ActiveLayers(layers, k)
  PROVE  ActiveLayers(layers, k) = {i}
<1>1. i \in Used(layers) /\ layers[i].key = k
  BY DEF ActiveLayers, Used
<1>2. QED
  BY <1>1 DEF IInv, ExactlyOneActive

\* A key without an active layer has no layer at all.
LEMMA NoLayerWithoutActive ==
  ASSUME IInv, NEW k, ActiveLayers(layers, k) = {}, NEW i \in Used(layers)
  PROVE  layers[i].key # k
BY DEF IInv, ExactlyOneActive

THEOREM InitInvariant == Init => IInv
<1> SUFFICES ASSUME Init PROVE IInv
  OBVIOUS
<1>1. NoOverrides \in [Field -> FieldOverride]
  BY DEF NoOverrides, FieldOverride
<1>2. /\ Unused \in LayerRow
      /\ \A k \in Key : NewLayer(k, "active", NULL) \in LayerRow
  BY DEF Unused, NewLayer, LayerRow, Status
<1>3. TypeOK
  BY <1>1, <1>2, ImportAssumption DEF Init, TypeOK, Key
<1>4. \A i \in Used(layers) : layers[i].status = "active" /\ layers[i].key \in Key
  BY DEF Init, Used, Unused, NewLayer, Key
<1>5. KeysKnown
  BY <1>4 DEF Init, KeysKnown, Known, Key, ActiveLayers, Used
<1>6. ExactlyOneActive
  <2> SUFFICES ASSUME NEW i \in Used(layers)
               PROVE  ActiveLayers(layers, layers[i].key) = {i}
    BY DEF ExactlyOneActive, Used
  <2>1. QED
    BY <1>4 DEF Init, ActiveLayers, Used
<1>7. VersionsContiguous
  <2>1. \A h \in History : VersionNumbers(versions, h) = 1..0
    BY DEF Init, VersionNumbers
  <2>2. 0 \in 0..MaxVersion
    BY BoundAssumption
  <2>3. QED
    BY <2>1, <2>2 DEF Init, VersionsContiguous, Gapless
<1>8. QED
  BY <1>3, <1>5, <1>6, <1>7 DEF IInv

-----------------------------------------------------------------------------
(* What a step does to the layer table: it changes layers of one key k     *)
(* only, none that is frozen, and leaves a as the active layer of k.       *)

KeyStep(k, a) ==
  /\ \A i \in LayerId :
       layers'[i] # layers[i] \/ overrides'[i] # overrides[i] =>
         /\ layers'[i].key = k
         /\ i \in Used(layers) => layers[i].key = k
  /\ \A i \in LayerId :
       /\ layers[i].status \in {"draft", "archived"} => overrides'[i] = overrides[i]
       /\ layers[i].status \in TerminalStatuses => layers'[i] = layers[i]
  /\ ActiveLayers(layers, k)' = {a}
  /\ Known(k)'
  /\ languages \subseteq languages'

\* Such a step keeps one active layer per key, and every key known.
LEMMA KeyStepKeeps ==
  ASSUME IInv, NEW k \in Key, NEW a \in LayerId, KeyStep(k, a)
  PROVE  /\ KeysKnown' /\ ExactlyOneActive'
         /\ \A g \in Key : ActiveLayers(layers, g) # {} => ActiveLayers(layers, g)' # {}
<1>1. ASSUME NEW j \in LayerId,
             layers'[j].key # k \/ (j \in Used(layers) /\ layers[j].key # k)
      PROVE  layers'[j] = layers[j]
  BY <1>1 DEF KeyStep
<1>2. ASSUME NEW g, g # k
      PROVE  ActiveLayers(layers, g)' = ActiveLayers(layers, g)
  <2>1. \A j \in LayerId : j \in ActiveLayers(layers, g)' => j \in ActiveLayers(layers, g)
    BY <1>1, <1>2 DEF ActiveLayers
  <2>2. \A j \in LayerId : j \in ActiveLayers(layers, g) => j \in ActiveLayers(layers, g)'
    BY <1>1, <1>2 DEF ActiveLayers, Used
  <2>3. QED
    BY <2>1, <2>2 DEF ActiveLayers
<1>3. ASSUME NEW j \in Used(layers)', layers'[j].key # k
      PROVE  j \in Used(layers) /\ layers'[j] = layers[j]
  BY <1>1, <1>3 DEF Used
<1>4. KeysKnown'
  <2> SUFFICES ASSUME NEW j \in Used(layers)' PROVE Known(layers[j].key)'
    BY DEF KeysKnown
  <2>1. CASE layers'[j].key = k
    BY <2>1 DEF KeyStep
  <2>2. CASE layers'[j].key # k
    <3>1. Known(layers[j].key)
      BY <1>3, <2>2 DEF IInv, KeysKnown
    <3>2. QED
      BY <1>3, <2>2, <3>1 DEF Known, KeyStep
  <2>3. QED
    BY <2>1, <2>2
<1>5. ExactlyOneActive'
  <2> SUFFICES ASSUME NEW j \in Used(layers)'
               PROVE  (\E b \in LayerId : ActiveLayers(layers, layers[j].key) = {b})'
    BY DEF ExactlyOneActive
  <2>1. CASE layers'[j].key = k
    BY <2>1 DEF KeyStep
  <2>2. CASE layers'[j].key # k
    <3>1. \E b \in LayerId : ActiveLayers(layers, layers[j].key) = {b}
      BY <1>3, <2>2 DEF IInv, ExactlyOneActive
    <3>2. QED
      BY <1>2, <1>3, <2>2, <3>1
  <2>3. QED
    BY <2>1, <2>2
<1>6. ASSUME NEW g \in Key, ActiveLayers(layers, g) # {}
      PROVE  ActiveLayers(layers, g)' # {}
  BY <1>2, <1>6 DEF KeyStep
<1>7. QED
  BY <1>4, <1>5, <1>6

-----------------------------------------------------------------------------
(* One lemma per request.                                                  *)

\* A new active layer, for a key that had none.
LEMMA NewActiveLayer ==
  ASSUME IInv, NEW k \in Key, NEW i \in LayerId, i \notin Used(layers),
         ActiveLayers(layers, k) = {},
         layers' = [layers EXCEPT ![i] = NewLayer(k, "active", NULL)]
  PROVE  /\ layers'[i].key = k
         /\ \A j \in LayerId : j # i => layers'[j] = layers[j]
         /\ ActiveLayers(layers, k)' = {i}
<1> USE DEF IInv, TypeOK
<1>1. layers'[i].status = "active" /\ layers'[i].key = k
  BY DEF NewLayer
<1>2. \A j \in LayerId : j # i => layers'[j] = layers[j]
  OBVIOUS
<1>3. ActiveLayers(layers, k)' = {i}
  BY <1>1, <1>2 DEF ActiveLayers
<1>4. QED
  BY <1>1, <1>2, <1>3

LEMMA EditFieldStep ==
  ASSUME IInv, NEW k \in Key, NEW i \in LayerId, NEW f \in Field,
         NEW row \in FieldOverride, NEW data \in VersionData,
         EditField(k, i, f, row, data)
  PROVE  /\ TypeOK' /\ VersionsContiguous'
         /\ \E a \in LayerId : KeyStep(k, a)
<1>1. VersionsContiguous' /\ TypeOK'
  <2>1. "edit" \in AuditAction /\ EditHistory(k) \in History
    BY DEF AuditAction, EditHistory, History
  <2>2. /\ VersionsContiguous' /\ versions' \in SUBSET VersionRow
        /\ audit' \in [AuditAction \X History -> Nat]
    BY <2>1, RecordedKeeps DEF EditField, IInv
  <2>3. layers' \in [LayerId -> LayerRow]
    BY TableTypes DEF EditField, IInv, TypeOK
  <2>4. overrides' \in [LayerId -> [Field -> FieldOverride]]
    BY DEF EditField, IInv, TypeOK
  <2>5. QED
    BY <2>2, <2>3, <2>4 DEF EditField, IInv, TypeOK
<1>2. /\ \A j \in LayerId : j # i => overrides'[j] = overrides[j]
      /\ Known(k)' /\ languages \subseteq languages'
  BY DEF EditField, Known, IInv, TypeOK
<1>3. CASE ActiveLayers(layers, k) # {}
  <2>1. layers' = layers /\ i \in ActiveLayers(layers, k)
    BY <1>3 DEF EditField, WithActive, EditedLayers
  <2>2. ActiveLayers(layers, k)' = {i}
    BY <2>1, ActiveUnique
  <2>3. layers[i].status = "active" /\ layers[i].key = k
    BY <2>1 DEF ActiveLayers
  <2>4. KeyStep(k, i)
    BY <1>2, <2>1, <2>2, <2>3 DEF KeyStep
  <2>5. QED
    BY <1>1, <2>4
<1>4. CASE ActiveLayers(layers, k) = {}
  <2>1. /\ i \notin Used(layers)
        /\ layers' = [layers EXCEPT ![i] = NewLayer(k, "active", NULL)]
    BY <1>4 DEF EditField, WithActive, EditedLayers
  <2>2. /\ layers'[i].key = k /\ ActiveLayers(layers, k)' = {i}
        /\ \A j \in LayerId : j # i => layers'[j] = layers[j]
    BY <1>4, <2>1, NewActiveLayer
  <2>3. layers[i].status = "none"
    BY <2>1 DEF Used
  <2>4. KeyStep(k, i)
    BY <1>2, <2>1, <2>2, <2>3 DEF KeyStep, TerminalStatuses
  <2>5. QED
    BY <1>1, <2>4
<1>5. QED
  BY <1>3, <1>4

LEMMA CreateLanguageStep ==
  ASSUME IInv, NEW l \in Language, NEW i \in LayerId, CreateLanguage(l, i)
  PROVE  /\ TypeOK' /\ VersionsContiguous'
         /\ \E a \in LayerId : KeyStep(l, a)
<1>1. l \in Key
  BY DEF Key
<1>2. VersionsContiguous' /\ TypeOK'
  <2>1. /\ "edit" \in AuditAction /\ EditHistory(l) \in History
        /\ <<"language", l>> \in VersionData
    BY <1>1 DEF AuditAction, EditHistory, History, VersionData
  <2>2. /\ VersionsContiguous' /\ versions' \in SUBSET VersionRow
        /\ audit' \in [AuditAction \X History -> Nat]
    BY <2>1, RecordedKeeps DEF CreateLanguage, IInv
  <2>3. layers' \in [LayerId -> LayerRow]
    BY <1>1, TableTypes DEF CreateLanguage, IInv, TypeOK
  <2>4. QED
    BY <2>2, <2>3 DEF CreateLanguage, IInv, TypeOK
<1>3. ActiveLayers(layers, l) = {}
  <2>1. ~Known(l)
    BY KeysDisjoint DEF CreateLanguage, Known
  <2>2. QED
    BY <2>1 DEF IInv, KeysKnown, ActiveLayers, Used
<1>4. /\ layers'[i].key = l /\ ActiveLayers(layers, l)' = {i}
      /\ \A j \in LayerId : j # i => layers'[j] = layers[j]
  BY <1>1, <1>3, NewActiveLayer DEF CreateLanguage
<1>5. layers[i].status = "none" /\ i \notin Used(layers)
  BY DEF CreateLanguage, Used
<1>6. overrides' = overrides /\ languages \subseteq languages' /\ Known(l)'
  BY DEF CreateLanguage, Known
<1>7. KeyStep(l, i)
  BY <1>4, <1>5, <1>6 DEF KeyStep, TerminalStatuses
<1>8. QED
  BY <1>2, <1>7

\* A known key is a key, so every layer has one.
LEMMA KeyOfLayer ==
  ASSUME IInv, NEW i \in Used(layers)
  PROVE  layers[i].key \in Key /\ Known(layers[i].key)
<1>1. Known(layers[i].key)
  BY DEF IInv, KeysKnown
<1>2. QED
  BY <1>1 DEF IInv, TypeOK, Known, Key

LEMMA CreateDraftStep ==
  ASSUME IInv, NEW k \in Key, NEW src \in LayerId, NEW d \in LayerId,
         CreateDraft(k, src, d)
  PROVE  /\ TypeOK' /\ VersionsContiguous'
         /\ \E a \in LayerId : KeyStep(k, a)
<1>1. src \in Used(layers) /\ layers[src].key = k /\ layers[src].status = "active"
  BY DEF CreateDraft, ActiveLayers, Used
<1>2. /\ layers'[d] = NewLayer(k, "draft", src)
      /\ \A j \in LayerId : j # d => layers'[j] = layers[j]
  BY <1>1 DEF CreateDraft, Cloned, IInv, TypeOK
<1>3. /\ \A j \in LayerId : j # d => overrides'[j] = overrides[j]
      /\ overrides' \in [LayerId -> [Field -> FieldOverride]]
  BY DEF CreateDraft, IInv, TypeOK
<1>4. audit' \in [AuditAction \X History -> Nat]
  BY DEF CreateDraft, Logged, IInv, TypeOK, AuditAction, LayerHistory, History
<1>5. layers' \in [LayerId -> LayerRow]
  BY <1>1, TableTypes DEF CreateDraft, IInv, TypeOK
<1>6. TypeOK' /\ VersionsContiguous'
  BY <1>3, <1>4, <1>5 DEF CreateDraft, IInv, TypeOK, VersionsContiguous
<1>7. d \notin Used(layers) /\ layers[d].status = "none"
  BY DEF CreateDraft, Used
<1>8. ActiveLayers(layers, k)' = {src}
  <2>1. ActiveLayers(layers, k) = {src}
    BY ActiveUnique DEF CreateDraft
  <2>2. layers'[d].status # "active"
    BY <1>2 DEF NewLayer
  <2>3. QED
    BY <1>2, <1>7, <2>1, <2>2 DEF ActiveLayers
<1>9. Known(k)' /\ languages' = languages
  BY DEF CreateDraft, Known
<1>10. KeyStep(k, src)
  BY <1>2, <1>3, <1>7, <1>8, <1>9 DEF KeyStep, NewLayer, TerminalStatuses
<1>11. QED
  BY <1>6, <1>10

LEMMA PromoteDraftStep ==
  ASSUME IInv, NEW d \in LayerId, PromoteDraft(d)
  PROVE  /\ TypeOK' /\ VersionsContiguous'
         /\ \E k \in Key, a \in LayerId : KeyStep(k, a)
<1> PICK k \in Key : k = layers[d].key
  BY KeyOfLayer DEF PromoteDraft
<1>1. d \in Used(layers) /\ Known(k)
  BY KeyOfLayer DEF PromoteDraft
<1>2. layers[d].status \in {"draft", "active"}
  BY DEF PromoteDraft, ValidTransition, AllowedTransitions
<1>3. PICK b \in LayerId : ActiveLayers(layers, k) = {b}
  BY <1>1 DEF IInv, ExactlyOneActive
<1>4. PICK prev \in Superseded(layers, d) : layers' = Promoted(layers, d, prev)
  BY DEF PromoteDraft
<1>5. prev = IF b = d THEN NULL ELSE b
  BY <1>3, <1>4 DEF Superseded
<1>6. /\ layers'[d].status = "active" /\ layers'[d].key = k
      /\ \A j \in LayerId : j # d /\ j # prev => layers'[j] = layers[j]
      /\ \A j \in LayerId : j # d /\ j = prev =>
           layers'[j].status = "archived" /\ layers'[j].key = layers[j].key
  BY <1>4, PromotedRows DEF IInv, TypeOK
<1>7. ActiveLayers(layers, k)' = {d}
  <2>1. \A j \in LayerId : j \in ActiveLayers(layers, k)' => j = d
    <3> SUFFICES ASSUME NEW j \in LayerId, j \in ActiveLayers(layers, k)', j # d
                 PROVE  FALSE
      OBVIOUS
    <3>1. j # prev
      BY <1>6 DEF ActiveLayers
    <3>2. j \in ActiveLayers(layers, k)
      BY <1>6, <3>1 DEF ActiveLayers
    <3>3. QED
      BY <1>3, <1>5, <3>1, <3>2
  <2>2. d \in ActiveLayers(layers, k)'
    BY <1>6 DEF ActiveLayers
  <2>3. QED
    BY <2>1, <2>2 DEF ActiveLayers
<1>8. TypeOK' /\ VersionsContiguous'
  <2>1. /\ "layer_promoted" \in AuditAction /\ LayerHistory(k) \in History
        /\ <<"layer", d>> \in VersionData
    BY <1>1 DEF AuditAction, LayerHistory, History, VersionData
  <2>2. /\ VersionsContiguous' /\ versions' \in SUBSET VersionRow
        /\ audit' \in [AuditAction \X History -> Nat]
    BY <2>1, RecordedKeeps DEF PromoteDraft, IInv
  <2>3. layers' \in [LayerId -> LayerRow]
    BY <1>4, TableTypes DEF IInv, TypeOK
  <2>4. QED
    BY <2>2, <2>3 DEF PromoteDraft, IInv, TypeOK
<1>9. overrides' = overrides /\ languages' = languages /\ Known(k)'
  BY <1>1 DEF PromoteDraft, Known
<1>10. b \in Used(layers) /\ layers[b].key = k /\ layers[b].status = "active"
  BY <1>3 DEF ActiveLayers, Used
<1>11. KeyStep(k, d)
  <2>1. \A j \in LayerId : layers'[j] # layers[j] => j = d \/ j = b
    BY <1>5, <1>6, NullDistinct
  <2>2. layers'[b].key = k
    BY <1>5, <1>6, <1>10
  <2>3. QED
    BY <1>1, <1>2, <1>6, <1>7, <1>9, <1>10, <2>1, <2>2 DEF KeyStep, TerminalStatuses
<1>12. QED
  BY <1>8, <1>11

LEMMA ArchiveDraftStep ==
  ASSUME IInv, NEW d \in LayerId, ArchiveDraft(d)
  PROVE  /\ TypeOK' /\ VersionsContiguous'
         /\ \E k \in Key, a \in LayerId : KeyStep(k, a)
<1>1. d \in Used(layers) /\ layers[d].status = "draft"
  BY DEF ArchiveDraft, Used
<1> PICK k \in Key : k = layers[d].key
  BY <1>1, KeyOfLayer
<1>2. Known(k)
  BY <1>1, KeyOfLayer
<1>3. PICK b \in LayerId : ActiveLayers(layers, k) = {b}
  BY <1>1 DEF IInv, ExactlyOneActive
<1>4. /\ layers'[d].status = "archived" /\ layers'[d].key = k
      /\ \A j \in LayerId : j # d => layers'[j] = layers[j]
      /\ layers' \in [LayerId -> LayerRow]
  BY ZenonT(60) DEF ArchiveDraft, Archived, IInv, TypeOK, LayerRow, Status
<1>5. audit' \in [AuditAction \X History -> Nat]
  BY <1>2 DEF ArchiveDraft, Logged, IInv, TypeOK, AuditAction, LayerHistory, History
<1>6. TypeOK' /\ VersionsContiguous'
  BY <1>4, <1>5 DEF ArchiveDraft, IInv, TypeOK, VersionsContiguous
<1>7. ActiveLayers(layers, k)' = {b}
  BY <1>1, <1>3, <1>4 DEF ActiveLayers
<1>8. overrides' = overrides /\ languages' = languages /\ Known(k)'
  BY <1>2 DEF ArchiveDraft, Known
<1>9. KeyStep(k, b)
  BY <1>1, <1>4, <1>7, <1>8 DEF KeyStep, TerminalStatuses
<1>10. QED
  BY <1>6, <1>9

LEMMA RestoreVersionStep ==
  ASSUME IInv, NEW h \in Restorable, NEW n \in 1..MaxVersion, RestoreVersion(h, n)
  PROVE  /\ TypeOK' /\ VersionsContiguous'
         /\ UNCHANGED <<layers, overrides, languages>>
<1>1. PICK v \in versions : Recorded("edit", h, v.data)
  BY DEF RestoreVersion
<1>2. /\ h \in History /\ v.data \in VersionData /\ "edit" \in AuditAction
  BY DEF Restorable, IInv, TypeOK, VersionRow, AuditAction
<1>3. /\ VersionsContiguous' /\ versions' \in SUBSET VersionRow
      /\ audit' \in [AuditAction \X History -> Nat]
  BY <1>1, <1>2, RecordedKeeps DEF IInv
<1>4. QED
  BY <1>3 DEF RestoreVersion, IInv, TypeOK

-----------------------------------------------------------------------------
(* All steps together.                                                     *)

\* Every request but a restore is a step of one key.
LEMMA NextIsKeyStep ==
  ASSUME IInv, Next
  PROVE  /\ TypeOK' /\ VersionsContiguous'
         /\ \/ \E k \in Key, a \in LayerId : KeyStep(k, a)
            \/ UNCHANGED <<layers, overrides, languages>>
<1> DEFINE Goal == /\ TypeOK' /\ VersionsContiguous'
                   /\ \/ \E k \in Key, a \in LayerId : KeyStep(k, a)
                      \/ UNCHANGED <<layers, overrides, languages>>
<1>1. ASSUME NEW i \in LayerId, NEW f \in Field
      PROVE  overrides[i][f] \in FieldOverride
  BY DEF IInv, TypeOK
<1>2. ASSUME NEW k \in Key, NEW i \in LayerId, NEW f \in Field, NEW v \in Value,
             UpdateField(k, i, f, v)
      PROVE  Goal
  <2>1. Updated(overrides[i][f], v) \in FieldOverride /\ <<"meta", v>> \in VersionData
    BY <1>1, RowTypes DEF VersionData
  <2>2. QED
    BY <1>2, <2>1, EditFieldStep DEF UpdateField
<1>3. ASSUME NEW k \in Key, NEW i \in LayerId, NEW f \in Field,
             NEW type \in {"metadata", "structure"}, ResetField(k, i, f, type)
      PROVE  Goal
  <2>1. Reset(overrides[i][f], type) \in FieldOverride /\ <<"none">> \in VersionData
    BY <1>1, RowTypes DEF VersionData
  <2>2. QED
    BY <1>3, <2>1, EditFieldStep DEF ResetField
<1>4. ASSUME NEW k \in Key, NEW i \in LayerId, NEW f \in Field, NEW p \in Preset,
             AddPreset(k, i, f, p)
      PROVE  Goal
  <2>1. /\ PresetAdded(overrides[i][f], p) \in FieldOverride
        /\ PresetsWith(overrides[i][f], p) \in SUBSET Preset
    BY <1>1, RowTypes
  <2>2. <<"presets", PresetsWith(overrides[i][f], p)>> \in VersionData
    BY <2>1 DEF VersionData
  <2>3. QED
    BY <1>4, <2>1, <2>2, EditFieldStep DEF AddPreset
<1>5. ASSUME NEW k \in Key, NEW i \in LayerId, NEW f \in Field, RemovePreset(k, i, f)
      PROVE  Goal
  <2>1. PICK gone : EditField(k, i, f, PresetsRemoved(overrides[i][f], gone), <<"none">>)
    BY <1>5 DEF RemovePreset
  <2>2. PresetsRemoved(overrides[i][f], gone) \in FieldOverride
    BY <1>1, RowTypes
  <2>3. <<"none">> \in VersionData
    BY DEF VersionData
  <2>4. QED
    BY <2>1, <2>2, <2>3, EditFieldStep
<1>6. ASSUME NEW l \in Language, NEW i \in LayerId, CreateLanguage(l, i)
      PROVE  Goal
  <2>1. l \in Key
    BY DEF Key
  <2>2. QED
    BY <1>6, <2>1, CreateLanguageStep
<1>7. ASSUME NEW d \in LayerId, PromoteDraft(d) \/ ArchiveDraft(d)
      PROVE  Goal
  <2>1. layers[d].key \in Key
    BY <1>7, KeyOfLayer DEF PromoteDraft, ArchiveDraft, Used
  <2>2. QED
    BY <1>7, <2>1, PromoteDraftStep, ArchiveDraftStep
<1>8. QED
  BY <1>2, <1>3, <1>4, <1>5, <1>6, <1>7, CreateDraftStep, RestoreVersionStep DEF Next

\* The inductive invariant is preserved.
THEOREM NextInvariant == IInv /\ [Next]_vars => IInv'
<1> SUFFICES ASSUME IInv, [Next]_vars PROVE IInv'
  OBVIOUS
<1>1. CASE Next
  <2>1. /\ TypeOK' /\ VersionsContiguous'
        /\ \/ \E k \in Key, a \in LayerId : KeyStep(k, a)
           \/ UNCHANGED <<layers, overrides, languages>>
    BY <1>1, NextIsKeyStep
  <2>2. CASE \E k \in Key, a \in LayerId : KeyStep(k, a)
    BY <2>1, <2>2, KeyStepKeeps DEF IInv
  <2>3. CASE UNCHANGED <<layers, overrides, languages>>
    BY <2>1, <2>3 DEF IInv, KeysKnown, ExactlyOneActive, ActiveLayers, Used, Known
  <2>4. QED
    BY <2>1, <2>2, <2>3
<1>2. CASE UNCHANGED vars
  BY <1>2 DEF vars, IInv, TypeOK, KeysKnown, ExactlyOneActive, VersionsContiguous,
              ActiveLayers, Used, Known
<1>3. QED
  BY <1>1, <1>2

\* The layer tables keep their types.
THEOREM TypeCorrect == Spec => []TypeOK
<1>1. IInv => TypeOK
  BY DEF IInv
<1>2. QED
  BY InitInvariant, NextInvariant, <1>1, PTL DEF Spec

\* Serial requests keep exactly one active layer for every key that has a layer.
THEOREM OneActive == Spec => []ExactlyOneActive
<1>1. IInv => ExactlyOneActive
  BY DEF IInv
<1>2. QED
  BY InitInvariant, NextInvariant, <1>1, PTL DEF Spec

\* No history ever misses or repeats a version number.
THEOREM VersionsGapless == Spec => []VersionsContiguous
<1>1. IInv => VersionsContiguous
  BY DEF IInv
<1>2. QED
  BY InitInvariant, NextInvariant, <1>1, PTL DEF Spec

\* A key that is served stays served: no request leaves it without active layer.
THEOREM NeverGoesDark == Spec => NeverDark
<1>1. IInv /\ [Next]_vars =>
        [\A k \in Key : ActiveLayers(layers, k) # {} => ActiveLayers(layers', k) # {}]_vars
  <2> SUFFICES ASSUME IInv, Next, NEW k \in Key, ActiveLayers(layers, k) # {}
               PROVE  ActiveLayers(layers', k) # {}
    OBVIOUS
  <2>1. \/ \E g \in Key, a \in LayerId : KeyStep(g, a)
        \/ UNCHANGED <<layers, overrides, languages>>
    BY NextIsKeyStep
  <2>2. ActiveLayers(layers, k)' # {}
    BY <2>1, KeyStepKeeps DEF ActiveLayers
  <2>3. QED
    BY <2>2 DEF ActiveLayers
<1>2. QED
  BY InitInvariant, NextInvariant, <1>1, PTL DEF Spec, NeverDark

\* Drafts keep the overrides they were cloned with and archived layers their row,
\* whatever is edited, promoted or archived around them.
THEOREM Frozen == Spec => FrozenUnlessActive
<1>1. IInv /\ [Next]_vars =>
        [\A i \in LayerId :
           /\ layers[i].status \in {"draft", "archived"} => overrides'[i] = overrides[i]
           /\ layers[i].status \in TerminalStatuses => layers'[i] = layers[i]]_vars
  <2> SUFFICES ASSUME IInv, Next, NEW i \in LayerId
               PROVE  /\ layers[i].status \in {"draft", "archived"}
                           => overrides'[i] = overrides[i]
                      /\ layers[i].status \in TerminalStatuses => layers'[i] = layers[i]
    OBVIOUS
  <2>1. QED
    BY NextIsKeyStep DEF KeyStep
<1>2. QED
  BY InitInvariant, NextInvariant, <1>1, PTL DEF Spec, FrozenUnlessActive

\* No request reaches the layers of two keys.
THEOREM Confined == Spec => ConfinedToOneKey
<1>1. IInv /\ [Next]_vars =>
        [\E k \in Key : \A i \in LayerId :
           layers'[i] # layers[i] \/ overrides'[i] # overrides[i] =>
             /\ layers'[i].key = k
             /\ i \in Used(layers) => layers[i].key = k]_<<layers, overrides>>
  BY NextIsKeyStep DEF KeyStep, vars
<1>2. QED
  BY InitInvariant, NextInvariant, <1>1, PTL DEF Spec, ConfinedToOneKey

-----------------------------------------------------------------------------
(* Provenance.  Both invariants are about the rows that another row names:  *)
(* such a row is published, so it is neither new nor a draft.               *)

Provenance == Lineage /\ SupersessionChain

LEMMA NewActiveProvenance ==
  ASSUME IInv, Provenance, NEW k \in Key, NEW i \in LayerId, i \notin Used(layers),
         layers' = [layers EXCEPT ![i] = NewLayer(k, "active", NULL)]
  PROVE  Provenance'
<1>1. /\ layers'[i].parent = NULL /\ layers'[i].successor = NULL
      /\ \A j \in LayerId : j # i => layers'[j] = layers[j]
  BY DEF IInv, TypeOK, NewLayer
<1>2. layers[i].status = "none"
  BY DEF Used
<1>3. \A j \in LayerId : layers[j] \in LayerRow
  BY DEF IInv, TypeOK
<1>4. Lineage'
  BY <1>1, <1>2, <1>3 DEF Provenance, Lineage, Used, LayerRow
<1>5. SupersessionChain'
  BY <1>1, <1>2, <1>3 DEF Provenance, SupersessionChain, LayerRow
<1>6. QED
  BY <1>4, <1>5 DEF Provenance

LEMMA CreateDraftProvenance ==
  ASSUME IInv, Provenance, NEW k \in Key, NEW src \in LayerId, NEW d \in LayerId,
         CreateDraft(k, src, d)
  PROVE  Provenance'
<1>1. /\ layers'[d].parent = src /\ layers'[d].successor = NULL /\ layers'[d].key = k
      /\ \A j \in LayerId : j # d => layers'[j] = layers[j]
  BY DEF CreateDraft, Cloned, ActiveLayers, IInv, TypeOK, NewLayer
<1>2. layers[d].status = "none" /\ layers[src].status = "active" /\ layers[src].key = k
  BY DEF CreateDraft, ActiveLayers, Used
<1>3. \A j \in LayerId : layers[j] \in LayerRow
  BY DEF IInv, TypeOK
<1>4. Lineage'
  BY <1>1, <1>2, <1>3 DEF Provenance, Lineage, Used, LayerRow
<1>5. SupersessionChain'
  BY <1>1, <1>2, <1>3 DEF Provenance, SupersessionChain, LayerRow
<1>6. QED
  BY <1>4, <1>5 DEF Provenance

LEMMA ArchiveDraftProvenance ==
  ASSUME IInv, Provenance, NEW d \in LayerId, ArchiveDraft(d)
  PROVE  Provenance'
<1>1. \A j \in LayerId : layers[j] \in LayerRow
  BY DEF IInv, TypeOK
<1>2. /\ layers[d].status = "draft"
      /\ layers'[d] = [layers[d] EXCEPT !.status = "archived"]
      /\ \A j \in LayerId : j # d => layers'[j] = layers[j]
  BY DEF ArchiveDraft, Archived, IInv, TypeOK
<1>3. /\ layers'[d].parent = layers[d].parent /\ layers'[d].key = layers[d].key
      /\ layers'[d].successor = layers[d].successor
  BY <1>1, <1>2 DEF LayerRow
<1>4. Lineage'
  BY <1>1, <1>2, <1>3 DEF Provenance, Lineage, Used, LayerRow
<1>5. SupersessionChain'
  BY <1>1, <1>2, <1>3 DEF Provenance, SupersessionChain, LayerRow
<1>6. QED
  BY <1>4, <1>5 DEF Provenance

\* The layer that d supersedes was the end of every chain of its key; now it
\* names d, and d is the end.
LEMMA PromoteDraftProvenance ==
  ASSUME IInv, Provenance, NEW d \in LayerId, PromoteDraft(d)
  PROVE  Provenance'
<1>1. \A j \in LayerId : layers[j] \in LayerRow
  BY DEF IInv, TypeOK
<1>2. layers[d].status \in {"draft", "active"}
  BY DEF PromoteDraft, ValidTransition, AllowedTransitions
<1>3. PICK prev \in Superseded(layers, d) : layers' = Promoted(layers, d, prev)
  BY DEF PromoteDraft
<1>4. prev # d /\ (prev \in LayerId => /\ layers[prev].status = "active"
                                       /\ layers[prev].key = layers[d].key)
  BY <1>3, NullDistinct DEF Superseded, ActiveLayers
<1>5. layers'[d] = [layers[d] EXCEPT !.status = "active", !.published = TRUE]
  BY <1>3 DEF Promoted
<1>6. \A j \in LayerId : j = prev =>
        layers'[j] = [layers[j] EXCEPT !.status = "archived", !.successor = d]
  BY <1>3, <1>4 DEF Promoted
<1>7. \A j \in LayerId : j # d /\ j # prev => layers'[j] = layers[j]
  BY <1>3 DEF Promoted
<1>8. /\ layers'[d].status = "active" /\ layers'[d].published
      /\ layers'[d].successor = layers[d].successor
  BY <1>1, <1>5 DEF LayerRow
<1>9. \A j \in LayerId : j = prev =>
        layers'[j].status = "archived" /\ layers'[j].successor = d
  <2> SUFFICES ASSUME NEW j \in LayerId, j = prev
               PROVE  layers'[j].status = "archived" /\ layers'[j].successor = d
    OBVIOUS
  <2>1. layers[j] \in LayerRow
    BY <1>1
  <2>2. layers'[j] = [layers[j] EXCEPT !.status = "archived", !.successor = d]
    BY <1>6
  <2>3. QED
    BY <2>1, <2>2 DEF LayerRow
<1>10. \A j \in LayerId :
         /\ layers'[j].key = layers[j].key /\ layers'[j].parent = layers[j].parent
         /\ layers[j].status \in {"active", "archived"}
              => layers'[j].status \in {"active", "archived"}
         /\ layers[j].published => layers'[j].published
  <2> TAKE j \in LayerId
  <2>1. layers[j] \in LayerRow
    BY <1>1
  <2>2. CASE j = d
    BY <1>5, <2>1, <2>2 DEF LayerRow
  <2>3. CASE j = prev
    <3>1. layers'[j] = [layers[j] EXCEPT !.status = "archived", !.successor = d]
      BY <1>6, <2>3
    <3>2. QED
      BY <2>1, <3>1 DEF LayerRow
  <2>4. CASE j # d /\ j # prev
    BY <1>7, <2>4
  <2>5. QED
    BY <2>2, <2>3, <2>4
<1>11. layers[d].successor = NULL
  BY <1>2 DEF Provenance, SupersessionChain
<1>12. Lineage'
  <2> SUFFICES ASSUME NEW j \in Used(layers)', layers'[j].parent # NULL
               PROVE  /\ layers'[j].parent # j
                      /\ layers'[layers'[j].parent].key = layers'[j].key
                      /\ layers'[layers'[j].parent].status \in {"active", "archived"}
    BY DEF Lineage
  <2>1. j \in LayerId /\ layers'[j].parent = layers[j].parent
    BY <1>10 DEF Used
  <2>2. j \in Used(layers)
    BY <1>2, <1>4, <1>7, <2>1 DEF Used
  <2>3. layers[j].parent \in LayerId
    BY <1>1, <2>1 DEF LayerRow
  <2>4. QED
    BY <1>10, <2>1, <2>2, <2>3 DEF Provenance, Lineage
<1>13. SupersessionChain'
  <2> SUFFICES ASSUME NEW j \in LayerId, layers'[j].successor # NULL
               PROVE  LET s == layers'[layers'[j].successor]
                      IN  /\ layers'[j].status = "archived"
                          /\ s.key = layers'[j].key /\ s.published
                          /\ \/ s.status = "active"
                             \/ s.status = "archived" /\ s.successor # NULL
    BY DEF SupersessionChain
  <2>1. CASE j = d
    BY <1>8, <1>11, <2>1
  <2>2. CASE j = prev
    BY <1>4, <1>8, <1>9, <1>10, <2>2
  <2>3. CASE j # d /\ j # prev
    <3> DEFINE e == layers[j].successor
    <3>1. layers'[j] = layers[j] /\ e # NULL /\ e \in LayerId
      BY <1>1, <1>7, <2>3 DEF LayerRow
    <3>2. /\ layers[j].status = "archived" /\ layers[e].key = layers[j].key
          /\ layers[e].published
          /\ layers[e].status = "active"
               \/ (layers[e].status = "archived" /\ layers[e].successor # NULL)
      BY <3>1 DEF Provenance, SupersessionChain
    <3>3. \/ layers'[e].status = "active"
          \/ layers'[e].status = "archived" /\ layers'[e].successor # NULL
      BY <1>7, <1>8, <1>9, <3>1, <3>2, NullDistinct
    <3>4. QED
      BY <1>10, <3>1, <3>2, <3>3
  <2>4. QED
    BY <2>1, <2>2, <2>3
<1>14. QED
  BY <1>12, <1>13 DEF Provenance

LEMMA ProvenanceKept == IInv /\ Provenance /\ [Next]_vars => Provenance'
<1> SUFFICES ASSUME IInv, Provenance, [Next]_vars PROVE Provenance'
  OBVIOUS
<1>1. CASE layers' = layers
  BY <1>1 DEF Provenance, Lineage, SupersessionChain, Used
<1>2. ASSUME NEW k \in Key, NEW i \in LayerId, NEW f, NEW row, NEW data,
             EditField(k, i, f, row, data)
      PROVE  Provenance'
  <2>1. CASE ActiveLayers(layers, k) # {}
    BY <1>1, <1>2, <2>1 DEF EditField, WithActive
  <2>2. CASE ActiveLayers(layers, k) = {}
    <3>1. /\ i \notin Used(layers)
          /\ layers' = [layers EXCEPT ![i] = NewLayer(k, "active", NULL)]
      BY <1>2, <2>2 DEF EditField, WithActive, EditedLayers
    <3>2. QED
      BY <3>1, NewActiveProvenance
  <2>3. QED
    BY <2>1, <2>2
<1>3. ASSUME NEW l \in Language, NEW i \in LayerId, CreateLanguage(l, i)
      PROVE  Provenance'
  BY <1>3, NewActiveProvenance DEF CreateLanguage, Key
<1>4. ASSUME NEW k \in Key, NEW i \in LayerId, NEW f \in Field,
             \/ \E v \in Value : UpdateField(k, i, f, v)
             \/ \E type \in {"metadata", "structure"} : ResetField(k, i, f, type)
             \/ \E p \in Preset : AddPreset(k, i, f, p)
             \/ RemovePreset(k, i, f)
      PROVE  Provenance'
  BY <1>2, <1>4 DEF UpdateField, ResetField, AddPreset, RemovePreset
<1>5. CASE UNCHANGED vars
  BY <1>1, <1>5 DEF vars
<1>6. CASE \E h \in Restorable, n \in 1..MaxVersion : RestoreVersion(h, n)
  BY <1>1, <1>6 DEF RestoreVersion
<1>7. QED
  BY <1>3, <1>4, <1>5, <1>6, CreateDraftProvenance, PromoteDraftProvenance,
     ArchiveDraftProvenance DEF Next

LEMMA InitProvenance == Init => Provenance
<1> SUFFICES ASSUME Init PROVE Provenance
  OBVIOUS
<1>1. \A i \in LayerId : layers[i].parent = NULL /\ layers[i].successor = NULL
  BY DEF Init, Unused, NewLayer
<1>2. QED
  BY <1>1 DEF Provenance, Lineage, SupersessionChain, Used

\* Every draft descends from a published layer of its own key.
THEOREM Descent == Spec => []Lineage
<1>1. Provenance => Lineage
  BY DEF Provenance
<1>2. QED
  BY InitInvariant, NextInvariant, InitProvenance, ProvenanceKept, <1>1, PTL DEF Spec

\* Archive reasons lead through later promotions to the layer that is active now.
THEOREM Succession == Spec => []SupersessionChain
<1>1. Provenance => SupersessionChain
  BY DEF Provenance
<1>2. QED
  BY InitInvariant, NextInvariant, InitProvenance, ProvenanceKept, <1>1, PTL DEF Spec

-----------------------------------------------------------------------------
(* The refinement of PublishedConfig.  A new active layer starts from no    *)
(* overrides because an id without row has none.                            *)

Unwritten == \A i \in LayerId \ Used(layers) : overrides[i] = NoOverrides

\* To a reader: a step of the abstract specification, or none.
ReaderStep == [Published!Next]_(Published!vars)

Drafts(ls, k) == {i \in LayerId : ls[i].status = "draft" /\ ls[i].key = k}

\* What a key serves and has put aside, by its active layer and its drafts.
LEMMA ServedBy ==
  /\ Live = [k \in Key |-> IF ActiveLayers(layers, k) = {} THEN NULL
                           ELSE overrides[CHOOSE i \in ActiveLayers(layers, k) : TRUE]]
  /\ Live' = [k \in Key |-> IF ActiveLayers(layers', k) = {} THEN NULL
                            ELSE overrides'[CHOOSE i \in ActiveLayers(layers', k) : TRUE]]
  /\ Saved = [k \in Key |-> {overrides[i] : i \in Drafts(layers, k)}]
  /\ Saved' = [k \in Key |-> {overrides'[i] : i \in Drafts(layers', k)}]
  /\ \A k \in Key, a \in LayerId :
       /\ ActiveLayers(layers, k) = {a} => Live[k] = overrides[a]
       /\ ActiveLayers(layers', k) = {a} => Live'[k] = overrides'[a]
<1>1. /\ Live = [k \in Key |-> IF ActiveLayers(layers, k) = {} THEN NULL
                     ELSE overrides[CHOOSE i \in ActiveLayers(layers, k) : TRUE]]
      /\ Live' = [k \in Key |-> IF ActiveLayers(layers', k) = {} THEN NULL
                     ELSE overrides'[CHOOSE i \in ActiveLayers(layers', k) : TRUE]]
  BY DEF Live, ActiveLayers
<1>2. /\ Saved = [k \in Key |-> {overrides[i] : i \in Drafts(layers, k)}]
      /\ Saved' = [k \in Key |-> {overrides'[i] : i \in Drafts(layers', k)}]
  BY DEF Saved, Drafts
<1>3. \A S, a : S = {a} => S # {} /\ (CHOOSE i \in S : TRUE) = a
  OBVIOUS
<1>4. ASSUME NEW k \in Key, NEW a \in LayerId
      PROVE  /\ ActiveLayers(layers, k) = {a} => Live[k] = overrides[a]
             /\ ActiveLayers(layers', k) = {a} => Live'[k] = overrides'[a]
  BY <1>1, <1>3
<1> QED
  BY <1>1, <1>2, <1>4

\* A key whose layers and overrides stay as they are serves and keeps what it did.
LEMMA OtherKeys ==
  ASSUME NEW g \in Key,
         ActiveLayers(layers', g) = ActiveLayers(layers, g),
         Drafts(layers', g) = Drafts(layers, g),
         \A i \in ActiveLayers(layers, g) \cup Drafts(layers, g) : overrides'[i] = overrides[i]
  PROVE  Live'[g] = Live[g] /\ Saved'[g] = Saved[g]
<1>1. CASE ActiveLayers(layers, g) = {}
  BY <1>1, ServedBy
<1>2. CASE ActiveLayers(layers, g) # {}
  <2>1. (CHOOSE i \in ActiveLayers(layers, g) : TRUE) \in ActiveLayers(layers, g)
    BY <1>2
  <2> QED
    BY <1>2, <2>1, ServedBy
<1>3. Saved'[g] = Saved[g]
  BY ServedBy
<1> QED
  BY <1>1, <1>2, <1>3

\* Steps that change layers of the key k only, as seen by the readers of the others.
LEMMA OneKeyServed ==
  ASSUME NEW k \in Key,
         \A j \in LayerId : layers'[j] # layers[j] \/ overrides'[j] # overrides[j] =>
           layers'[j].key = k /\ (j \in Used(layers) => layers[j].key = k)
  PROVE  \A g \in Key : g # k => Live'[g] = Live[g] /\ Saved'[g] = Saved[g]
<1> SUFFICES ASSUME NEW g \in Key, g # k
             PROVE  Live'[g] = Live[g] /\ Saved'[g] = Saved[g]
  OBVIOUS
<1>1. \A j \in LayerId :
        layers'[j].key = g \/ (layers[j].key = g /\ j \in Used(layers)) =>
          layers'[j] = layers[j] /\ overrides'[j] = overrides[j]
  OBVIOUS
<1>2. ActiveLayers(layers', g) = ActiveLayers(layers, g)
  BY <1>1 DEF ActiveLayers, Used
<1>3. Drafts(layers', g) = Drafts(layers, g)
  BY <1>1 DEF Drafts, Used
<1>4. \A i \in ActiveLayers(layers, g) \cup Drafts(layers, g) : overrides'[i] = overrides[i]
  BY <1>1 DEF ActiveLayers, Drafts, Used
<1> QED
  BY <1>2, <1>3, <1>4, OtherKeys

\* The new value of a map over the keys that is changed at k at most.
LEMMA ChangedAt ==
  ASSUME NEW k \in Key, \A g \in Key : g # k => Live'[g] = Live[g] /\ Saved'[g] = Saved[g]
  PROVE  /\ Live' = [Live EXCEPT ![k] = Live'[k]]
         /\ Saved' = [Saved EXCEPT ![k] = Saved'[k]]
         /\ Live'[k] = Live[k] => Live' = Live
         /\ Saved'[k] = Saved[k] => Saved' = Saved
<1>1. ASSUME NEW f, NEW g, f = [x \in Key |-> f[x]], g = [x \in Key |-> g[x]],
             \A x \in Key : x # k => g[x] = f[x]
      PROVE  g = [f EXCEPT ![k] = g[k]] /\ (g[k] = f[k] => g = f)
  <2>1. \A x \in Key : g[x] = [f EXCEPT ![k] = g[k]][x]
    BY <1>1
  <2>2. [f EXCEPT ![k] = g[k]] = [x \in Key |-> [f EXCEPT ![k] = g[k]][x]]
    BY <1>1
  <2>3. g = [x \in Key |-> [f EXCEPT ![k] = g[k]][x]]
    BY <1>1, <2>1
  <2>4. g[k] = f[k] => \A x \in Key : g[x] = f[x]
    BY <1>1
  <2> QED
    BY <1>1, <2>2, <2>3, <2>4
<1>2. /\ Live = [x \in Key |-> Live[x]]
      /\ Live' = [x \in Key |-> Live'[x]]
  BY ServedBy
<1>3. /\ Saved = [x \in Key |-> Saved[x]]
      /\ Saved' = [x \in Key |-> Saved'[x]]
  BY ServedBy
<1>4. Live' = [Live EXCEPT ![k] = Live'[k]] /\ (Live'[k] = Live[k] => Live' = Live)
  BY <1>1, <1>2
<1>5. Saved' = [Saved EXCEPT ![k] = Saved'[k]] /\ (Saved'[k] = Saved[k] => Saved' = Saved)
  BY <1>1, <1>3
<1> QED
  BY <1>4, <1>5

LEMMA EditFieldRefines ==
  ASSUME IInv, Unwritten, NEW k \in Key, NEW i \in LayerId, NEW f \in Field,
         NEW row \in FieldOverride, NEW data \in VersionData,
         EditField(k, i, f, row, data)
  PROVE  ReaderStep /\ Unwritten'
<1>1. /\ layers \in [LayerId -> LayerRow]
      /\ overrides \in [LayerId -> [Field -> FieldOverride]]
      /\ overrides' = [overrides EXCEPT ![i] = [@ EXCEPT ![f] = row]]
  BY DEF IInv, TypeOK, EditField
<1>2. /\ overrides'[i] = [overrides[i] EXCEPT ![f] = row]
      /\ \A j \in LayerId : j # i => overrides'[j] = overrides[j]
  BY <1>1
<1>3. overrides'[i] = [overrides[i] EXCEPT ![f] = overrides'[i][f]]
  BY <1>1, <1>2
<1>4. CASE ActiveLayers(layers, k) # {}
  <2>1. layers' = layers /\ i \in ActiveLayers(layers, k)
    BY <1>4 DEF EditField, WithActive, EditedLayers
  <2>2. ActiveLayers(layers, k) = {i} /\ ActiveLayers(layers', k) = {i}
    BY <2>1, ActiveUnique
  <2>3. layers[i].status = "active" /\ layers[i].key = k
    BY <2>1 DEF ActiveLayers
  <2>4. \A g \in Key : g # k => Live'[g] = Live[g] /\ Saved'[g] = Saved[g]
    BY <1>2, <2>1, <2>3, OneKeyServed
  <2>5. Saved'[k] = Saved[k]
    <3>1. i \notin Drafts(layers, k)
      BY <2>3 DEF Drafts
    <3> QED
      BY <1>2, <2>1, <3>1, ServedBy DEF Drafts
  <2>6. Live[k] = overrides[i] /\ Live'[k] = overrides'[i]
    BY <2>2, ServedBy
  <2>7. Live[k] # NULL
    BY <1>1, <2>6, NullNoOverrides
  <2>8. Live' = [Live EXCEPT ![k] = [Live[k] EXCEPT ![f] = Live'[k][f]]] /\ Saved' = Saved
    BY <1>3, <2>4, <2>5, <2>6, ChangedAt
  <2>9. Published!Edit(k, f)
    BY <2>7, <2>8 DEF Published!Edit
  <2>10. Unwritten'
    BY <1>2, <2>1, <2>3 DEF Unwritten, Used
  <2> QED
    BY <2>9, <2>10 DEF ReaderStep, Published!Next
<1>5. CASE ActiveLayers(layers, k) = {}
  <2>1. /\ i \notin Used(layers)
        /\ layers' = [layers EXCEPT ![i] = NewLayer(k, "active", NULL)]
    BY <1>5 DEF EditField, WithActive, EditedLayers
  <2>2. /\ layers'[i].key = k /\ ActiveLayers(layers', k) = {i}
        /\ \A j \in LayerId : j # i => layers'[j] = layers[j]
    BY <1>5, <2>1, NewActiveLayer DEF ActiveLayers
  <2>3. overrides[i] = NoOverrides
    BY <2>1 DEF Unwritten
  <2>4. \A g \in Key : g # k => Live'[g] = Live[g] /\ Saved'[g] = Saved[g]
    BY <1>2, <2>1, <2>2, OneKeyServed
  <2>5. Saved'[k] = Saved[k]
    <3>1. layers'[i].status = "active" /\ layers[i].status = "none"
      BY <1>1, <2>1 DEF NewLayer, Used
    <3>2. Drafts(layers', k) = Drafts(layers, k) /\ i \notin Drafts(layers, k)
      BY <2>2, <3>1 DEF Drafts
    <3> QED
      BY <1>2, <3>2, ServedBy DEF Drafts
  <2>6. Live[k] = NULL /\ Live'[k] = overrides'[i]
    BY <1>5, <2>2, ServedBy
  <2>7. Live' = [Live EXCEPT ![k] = Live'[k]] /\ Saved' = Saved
    BY <2>4, <2>5, ChangedAt
  <2>8. Live'[k] = [NoOverrides EXCEPT ![f] = Live'[k][f]]
    BY <1>3, <2>3, <2>6
  <2>9. Published!Start(k)
    BY <2>6, <2>7, <2>8 DEF Published!Start
  <2>10. Unwritten'
    BY <1>1, <1>2, <2>1, <2>2 DEF Unwritten, Used, NewLayer
  <2> QED
    BY <2>9, <2>10 DEF ReaderStep, Published!Next
<1> QED
  BY <1>4, <1>5

LEMMA CreateLanguageRefines ==
  ASSUME IInv, Unwritten, NEW l \in Language, NEW i \in LayerId, CreateLanguage(l, i)
  PROVE  ReaderStep /\ Unwritten'
<1>1. /\ l \in Key /\ i \notin Used(layers) /\ overrides' = overrides
      /\ layers' = [layers EXCEPT ![i] = NewLayer(l, "active", NULL)]
      /\ layers \in [LayerId -> LayerRow]
  BY DEF CreateLanguage, Key, IInv, TypeOK
<1>2. ActiveLayers(layers, l) = {}
  <2>1. ~Known(l)
    BY KeysDisjoint DEF CreateLanguage, Known
  <2> QED
    BY <2>1 DEF IInv, KeysKnown, ActiveLayers, Used
<1>3. /\ layers'[i].key = l /\ ActiveLayers(layers', l) = {i}
      /\ \A j \in LayerId : j # i => layers'[j] = layers[j]
  BY <1>1, <1>2, NewActiveLayer DEF ActiveLayers
<1>4. \A g \in Key : g # l => Live'[g] = Live[g] /\ Saved'[g] = Saved[g]
  BY <1>1, <1>3, OneKeyServed
<1>5. Saved'[l] = Saved[l]
  <2>1. layers'[i].status = "active" /\ layers[i].status = "none"
    BY <1>1 DEF NewLayer, Used
  <2>2. Drafts(layers', l) = Drafts(layers, l)
    BY <1>3, <2>1 DEF Drafts
  <2> QED
    BY <1>1, <2>2, ServedBy
<1>6. Live[l] = NULL /\ Live'[l] = NoOverrides
  <2>1. overrides'[i] = NoOverrides
    BY <1>1 DEF Unwritten
  <2> QED
    BY <1>1, <1>2, <1>3, <2>1, ServedBy
<1>7. Live' = [Live EXCEPT ![l] = Live'[l]] /\ Saved' = Saved
  BY <1>1, <1>4, <1>5, ChangedAt
<1>8. Published!Start(l)
  BY <1>6, <1>7 DEF Published!Start
<1>9. Unwritten'
  BY <1>1, <1>3 DEF Unwritten, Used, NewLayer
<1> QED
  BY <1>1, <1>8, <1>9 DEF ReaderStep, Published!Next

\* A new draft puts aside what its key serves.
LEMMA CreateDraftRefines ==
  ASSUME IInv, Unwritten, NEW k \in Key, NEW src \in LayerId, NEW d \in LayerId,
         CreateDraft(k, src, d)
  PROVE  ReaderStep /\ Unwritten'
<1>1. /\ layers[src].key = k /\ layers[src].status = "active"
      /\ d \notin Used(layers) /\ layers[d].status = "none"
      /\ layers \in [LayerId -> LayerRow]
      /\ overrides \in [LayerId -> [Field -> FieldOverride]]
  BY DEF CreateDraft, ActiveLayers, Used, IInv, TypeOK
<1>2. /\ layers'[d].status = "draft" /\ layers'[d].key = k
      /\ \A j \in LayerId : j # d => layers'[j] = layers[j]
  BY <1>1 DEF CreateDraft, Cloned, NewLayer
<1>3. /\ overrides'[d] = overrides[src]
      /\ \A j \in LayerId : j # d => overrides'[j] = overrides[j]
  BY <1>1 DEF CreateDraft
<1>4. \A g \in Key : g # k => Live'[g] = Live[g] /\ Saved'[g] = Saved[g]
  BY <1>1, <1>2, <1>3, OneKeyServed
<1>5. ActiveLayers(layers, k) = {src} /\ ActiveLayers(layers', k) = {src}
  <2>1. ActiveLayers(layers, k) = {src}
    BY ActiveUnique DEF CreateDraft
  <2> QED
    BY <1>1, <1>2, <2>1 DEF ActiveLayers
<1>6. Live[k] = overrides[src] /\ Live'[k] = Live[k] /\ Live[k] # NULL
  <2>1. src # d
    BY <1>1
  <2> QED
    BY <1>1, <1>3, <1>5, <2>1, ServedBy, NullNoOverrides, SMTT(30)
<1>7. Saved'[k] = Saved[k] \cup {Live[k]}
  <2>1. Drafts(layers', k) = Drafts(layers, k) \cup {d} /\ d \notin Drafts(layers, k)
    BY <1>1, <1>2 DEF Drafts
  <2>2. /\ Saved[k] = {overrides[i] : i \in Drafts(layers, k)}
        /\ Saved'[k] = {overrides'[i] : i \in Drafts(layers', k)}
    BY ServedBy
  <2>3. \A i \in Drafts(layers, k) : overrides'[i] = overrides[i]
    BY <1>3, <2>1 DEF Drafts
  <2> QED
    BY <1>3, <1>6, <2>1, <2>2, <2>3
<1>8. Live' = Live /\ Saved' = [Saved EXCEPT ![k] = Saved[k] \cup {Live[k]}]
  BY <1>4, <1>6, <1>7, ChangedAt
<1>9. Published!Save(k)
  BY <1>6, <1>8 DEF Published!Save
<1>10. Unwritten'
  BY <1>2, <1>3 DEF Unwritten, Used
<1> QED
  BY <1>9, <1>10 DEF ReaderStep, Published!Next

\* A draft that goes takes its overrides from what is put aside, unless another
\* draft of the key holds the same.
LEMMA DraftSpent ==
  ASSUME NEW k \in Key, NEW d \in Drafts(layers, k), overrides' = overrides,
         Drafts(layers', k) = Drafts(layers, k) \ {d},
         \A g \in Key : g # k => Saved'[g] = Saved[g]
  PROVE  /\ overrides[d] \in Saved[k]
         /\ Saved'[k] = Saved[k] \/ Saved'[k] = Saved[k] \ {overrides[d]}
<1>1. /\ Saved[k] = {overrides[i] : i \in Drafts(layers, k)}
      /\ Saved'[k] = {overrides[i] : i \in Drafts(layers, k) \ {d}}
  BY ServedBy
<1>2. Saved[k] = Saved'[k] \cup {overrides[d]}
  BY <1>1
<1> QED
  BY <1>2

\* Promoting a draft publishes what it holds; promoting the active layer, nothing.
LEMMA PromoteDraftRefines ==
  ASSUME IInv, Unwritten, NEW d \in LayerId, PromoteDraft(d)
  PROVE  ReaderStep /\ Unwritten'
<1> PICK k \in Key : k = layers[d].key
  BY KeyOfLayer DEF PromoteDraft
<1>1. /\ d \in Used(layers) /\ overrides' = overrides
      /\ layers[d].status \in {"draft", "active"}
  BY DEF PromoteDraft, ValidTransition, AllowedTransitions
<1>2. PICK b \in LayerId : ActiveLayers(layers, k) = {b}
  BY <1>1 DEF IInv, ExactlyOneActive
<1>3. PICK prev \in Superseded(layers, d) : layers' = Promoted(layers, d, prev)
  BY DEF PromoteDraft
<1>4. prev = IF b = d THEN NULL ELSE b
  BY <1>2, <1>3 DEF Superseded
<1>5. /\ layers'[d].status = "active" /\ layers'[d].key = k
      /\ \A j \in LayerId : j # d /\ j # prev => layers'[j] = layers[j]
      /\ \A j \in LayerId : j # d /\ j = prev =>
           layers'[j].status = "archived" /\ layers'[j].key = layers[j].key
  BY <1>3, PromotedRows DEF IInv, TypeOK
<1>6. /\ \A j \in LayerId : layers'[j] # layers[j] => j = d \/ j = b
      /\ layers[b].key = k /\ layers[b].status = "active"
      /\ layers'[b].key = k /\ (b # d => layers'[b].status = "archived")
  <2>1. \A j \in LayerId : layers'[j] # layers[j] => j = d \/ j = b
    BY <1>4, <1>5, NullDistinct
  <2>2. layers[b].key = k /\ layers[b].status = "active"
    BY <1>2 DEF ActiveLayers
  <2> QED
    BY <1>4, <1>5, <2>1, <2>2
<1>7. \A g \in Key : g # k => Live'[g] = Live[g] /\ Saved'[g] = Saved[g]
  BY <1>1, <1>5, <1>6, OneKeyServed
<1>8. ActiveLayers(layers', k) = {d}
  <2>1. \A j \in LayerId : j # d => j \notin ActiveLayers(layers', k)
    BY <1>2, <1>6 DEF ActiveLayers
  <2> QED
    BY <1>5, <2>1 DEF ActiveLayers
<1>9. Live'[k] = overrides[d] /\ Live[k] = overrides[b]
  BY <1>1, <1>2, <1>8, ServedBy
<1>10. Unwritten'
  <2>1. \A j \in LayerId \ Used(layers') : j \in LayerId \ Used(layers)
    BY <1>1, <1>5, <1>6 DEF Used
  <2> QED
    BY <1>1, <2>1 DEF Unwritten
<1>11. CASE layers[d].status = "active"
  <2>1. b = d
    BY <1>2, <1>11 DEF ActiveLayers
  <2>2. Drafts(layers', k) = Drafts(layers, k)
    BY <1>5, <1>6, <1>11, <2>1 DEF Drafts
  <2>3. Saved'[k] = Saved[k]
    <3>1. /\ Saved[k] = {overrides[i] : i \in Drafts(layers, k)}
          /\ Saved'[k] = {overrides'[i] : i \in Drafts(layers', k)}
      BY ServedBy
    <3> QED
      BY <1>1, <2>2, <3>1
  <2>4. Live' = Live /\ Saved' = Saved
    BY <1>7, <1>9, <2>1, <2>3, ChangedAt
  <2> QED
    BY <1>10, <2>4 DEF ReaderStep, Published!vars
<1>12. CASE layers[d].status = "draft"
  <2>1. b # d
    BY <1>6, <1>12
  <2>2. d \in Drafts(layers, k) /\ Drafts(layers', k) = Drafts(layers, k) \ {d}
    BY <1>5, <1>6, <1>12, <2>1 DEF Drafts
  <2>3. /\ overrides[d] \in Saved[k]
        /\ Saved'[k] = Saved[k] \/ Saved'[k] = Saved[k] \ {overrides[d]}
    BY <1>1, <1>7, <2>2, DraftSpent
  <2>4. /\ Live' = [Live EXCEPT ![k] = overrides[d]]
        /\ Saved' = Saved \/ Saved' = [Saved EXCEPT ![k] = Saved[k] \ {overrides[d]}]
    BY <1>7, <1>9, <2>3, ChangedAt
  <2>5. Published!Publish(k)
    BY <2>3, <2>4 DEF Published!Publish, Published!Spend
  <2> QED
    BY <1>10, <2>5 DEF ReaderStep, Published!Next
<1> QED
  BY <1>1, <1>11, <1>12

\* Archiving a draft discards what it holds.
LEMMA ArchiveDraftRefines ==
  ASSUME IInv, Unwritten, NEW d \in LayerId, ArchiveDraft(d)
  PROVE  ReaderStep /\ Unwritten'
<1>1. /\ d \in Used(layers) /\ layers[d].status = "draft" /\ overrides' = overrides
  BY DEF ArchiveDraft, Used
<1> PICK k \in Key : k = layers[d].key
  BY <1>1, KeyOfLayer
<1>2. /\ layers'[d].status = "archived" /\ layers'[d].key = k
      /\ \A j \in LayerId : j # d => layers'[j] = layers[j]
  BY DEF ArchiveDraft, Archived, IInv, TypeOK, LayerRow, Status
<1>3. \A g \in Key : g # k => Live'[g] = Live[g] /\ Saved'[g] = Saved[g]
  BY <1>1, <1>2, OneKeyServed
<1>4. ActiveLayers(layers', k) = ActiveLayers(layers, k)
  BY <1>1, <1>2 DEF ActiveLayers
<1>5. Live'[k] = Live[k]
  <2>1. CASE ActiveLayers(layers, k) = {}
    BY <1>4, <2>1, ServedBy
  <2>2. CASE ActiveLayers(layers, k) # {}
    BY <1>1, <1>4, <2>2, ServedBy
  <2> QED
    BY <2>1, <2>2
<1>6. d \in Drafts(layers, k) /\ Drafts(layers', k) = Drafts(layers, k) \ {d}
  BY <1>1, <1>2 DEF Drafts
<1>7. /\ overrides[d] \in Saved[k]
      /\ Saved'[k] = Saved[k] \/ Saved'[k] = Saved[k] \ {overrides[d]}
  BY <1>1, <1>3, <1>6, DraftSpent
<1>8. /\ Live' = Live
      /\ Saved' = Saved \/ Saved' = [Saved EXCEPT ![k] = Saved[k] \ {overrides[d]}]
  BY <1>3, <1>5, <1>7, ChangedAt
<1>9. Published!Discard(k)
  BY <1>7, <1>8 DEF Published!Discard, Published!Spend
<1>10. Unwritten'
  BY <1>1, <1>2 DEF Unwritten, Used
<1> QED
  BY <1>9, <1>10 DEF ReaderStep, Published!Next

\* A step that changes neither table is none to a reader.
LEMMA UnseenStep ==
  ASSUME Unwritten, UNCHANGED <<layers, overrides>>
  PROVE  ReaderStep /\ Unwritten'
<1>1. Live' = Live /\ Saved' = Saved
  BY DEF Live, Saved, ActiveLayers
<1>2. Unwritten'
  BY DEF Unwritten, Used
<1> QED
  BY <1>1, <1>2 DEF ReaderStep, Published!vars

LEMMA NextRefines == IInv /\ Unwritten /\ [Next]_vars => ReaderStep /\ Unwritten'
<1> SUFFICES ASSUME IInv, Unwritten, [Next]_vars PROVE ReaderStep /\ Unwritten'
  OBVIOUS
<1>1. ASSUME NEW i \in LayerId, NEW f \in Field
      PROVE  overrides[i][f] \in FieldOverride
  BY DEF IInv, TypeOK
<1>2. ASSUME NEW k \in Key, NEW i \in LayerId, NEW f \in Field, NEW v \in Value,
             UpdateField(k, i, f, v)
      PROVE  ReaderStep /\ Unwritten'
  <2>1. Updated(overrides[i][f], v) \in FieldOverride /\ <<"meta", v>> \in VersionData
    BY <1>1, RowTypes DEF VersionData
  <2> QED
    BY <1>2, <2>1, EditFieldRefines DEF UpdateField
<1>3. ASSUME NEW k \in Key, NEW i \in LayerId, NEW f \in Field,
             NEW type \in {"metadata", "structure"}, ResetField(k, i, f, type)
      PROVE  ReaderStep /\ Unwritten'
  <2>1. Reset(overrides[i][f], type) \in FieldOverride /\ <<"none">> \in VersionData
    BY <1>1, RowTypes DEF VersionData
  <2> QED
    BY <1>3, <2>1, EditFieldRefines DEF ResetField
<1>4. ASSUME NEW k \in Key, NEW i \in LayerId, NEW f \in Field, NEW p \in Preset,
             AddPreset(k, i, f, p)
      PROVE  ReaderStep /\ Unwritten'
  <2>1. /\ PresetAdded(overrides[i][f], p) \in FieldOverride
        /\ PresetsWith(overrides[i][f], p) \in SUBSET Preset
    BY <1>1, RowTypes
  <2>2. <<"presets", PresetsWith(overrides[i][f], p)>> \in VersionData
    BY <2>1 DEF VersionData
  <2> QED
    BY <1>4, <2>1, <2>2, EditFieldRefines DEF AddPreset
<1>5. ASSUME NEW k \in Key, NEW i \in LayerId, NEW f \in Field, RemovePreset(k, i, f)
      PROVE  ReaderStep /\ Unwritten'
  <2>1. PICK gone : EditField(k, i, f, PresetsRemoved(overrides[i][f], gone), <<"none">>)
    BY <1>5 DEF RemovePreset
  <2>2. PresetsRemoved(overrides[i][f], gone) \in FieldOverride
    BY <1>1, RowTypes
  <2>3. <<"none">> \in VersionData
    BY DEF VersionData
  <2> QED
    BY <2>1, <2>2, <2>3, EditFieldRefines
<1>6. ASSUME NEW h, NEW n, RestoreVersion(h, n)
      PROVE  ReaderStep /\ Unwritten'
  BY <1>6, UnseenStep DEF RestoreVersion
<1>7. CASE UNCHANGED vars
  BY <1>7, UnseenStep DEF vars
<1> QED
  BY <1>2, <1>3, <1>4, <1>5, <1>6, <1>7, CreateLanguageRefines, CreateDraftRefines,
     PromoteDraftRefines, ArchiveDraftRefines DEF Next

LEMMA InitRefines == Init => Published!Init /\ Unwritten
<1> SUFFICES ASSUME Init PROVE Published!Init /\ Unwritten
  OBVIOUS
<1>1. \A i \in LayerId : layers[i].status # "draft"
  BY DEF Init, Unused, NewLayer
<1>2. Saved = [k \in Key |-> {}]
  BY <1>1 DEF Saved
<1> QED
  BY <1>2 DEF Published!Init, Init, Unwritten

\* To a reader of the configuration every request is one edit of what a key serves,
\* one publication of what was put aside, or nothing.
THEOREM RefinesPublished == Spec => ImplementsPublished
<1>1. Spec => Published!Init /\ [][Published!Next]_(Published!vars)
  BY InitInvariant, NextInvariant, InitRefines, NextRefines, PTL DEF Spec, ReaderStep
<1> QED
  BY <1>1 DEF ImplementsPublished, Published!Spec

-----------------------------------------------------------------------------
(* The audit trail.  A new draft and an archiving count one layer more, and *)
(* an id without row counts for no key.                                     *)

Blank == \A i \in LayerId \ Used(layers) : layers[i] = Unused

Clones(ls, k) == {i \in LayerId : ls[i].key = k /\ ls[i].parent # NULL}

Discards(ls, k) ==
  {i \in LayerId : ls[i].key = k /\ ls[i].status = "archived" /\ ls[i].successor = NULL}

LayerEvents == {"layer_draft_created", "layer_archived"}

\* The two halves of AuditAccounts, for the tables as given.
LayersAccounted(ls, events) ==
  \A k \in Key :
    /\ events[<<"layer_draft_created", LayerHistory(k)>>] = Cardinality(Clones(ls, k))
    /\ events[<<"layer_archived", LayerHistory(k)>>] = Cardinality(Discards(ls, k))

VersionsAccounted(vs, events) ==
  \A h \in History :
    Cardinality(VersionNumbers(vs, h)) = events[<<"edit", h>>] + events[<<"layer_promoted", h>>]

LEMMA AuditHalves ==
  /\ AuditAccounts <=> LayersAccounted(layers, audit) /\ VersionsAccounted(versions, audit)
  /\ AuditAccounts' <=> LayersAccounted(layers', audit') /\ VersionsAccounted(versions', audit')
BY DEF AuditAccounts, LayersAccounted, VersionsAccounted, Clones, Discards

\* A recorded version and its event keep pace, and no layer event comes with them.
LEMMA RecordedAccounts ==
  ASSUME IInv, VersionsAccounted(versions, audit),
         NEW action \in {"edit", "layer_promoted"}, NEW h \in History,
         NEW data \in VersionData, Recorded(action, h, data)
  PROVE  /\ VersionsAccounted(versions', audit')
         /\ \A e \in LayerEvents, g \in History : audit'[<<e, g>>] = audit[<<e, g>>]
<1> DEFINE new == NewVersion(versions, h, data)
<1>1. /\ versions' = versions \cup {new}
      /\ audit' = [audit EXCEPT ![<<action, h>>] = @ + 1]
      /\ audit \in [AuditAction \X History -> Nat]
      /\ action \in AuditAction
  BY DEF Recorded, Logged, IInv, TypeOK, AuditAction
<1>2. PICK n \in 0..MaxVersion : VersionNumbers(versions, h) = 1..n
  BY DEF IInv, VersionsContiguous, Gapless
<1>3. n \in Nat /\ new.history = h /\ new.number = n + 1
  BY <1>2, BoundAssumption, NextNumber DEF NewVersion
<1> HIDE DEF new
<1>4. /\ VersionNumbers(versions', h) = 1..(n + 1)
      /\ \A g \in History : g # h => VersionNumbers(versions', g) = VersionNumbers(versions, g)
  <2>1. VersionNumbers(versions', h) = VersionNumbers(versions, h) \cup {n + 1}
    BY <1>1, <1>3 DEF VersionNumbers
  <2>2. 1..(n + 1) = (1..n) \cup {n + 1}
    BY <1>3
  <2>3. ASSUME NEW g \in History, g # h
        PROVE  VersionNumbers(versions', g) = VersionNumbers(versions, g)
    BY <1>1, <1>3, <2>3 DEF VersionNumbers
  <2> QED
    BY <1>2, <2>1, <2>2, <2>3
<1>5. Cardinality(1..n) = n /\ Cardinality(1..(n + 1)) = n + 1
  <2>1. Cardinality(1..n) = IF 1 > n THEN 0 ELSE n - 1 + 1
    BY <1>3, FS_Interval
  <2>2. Cardinality(1..(n + 1)) = IF 1 > n + 1 THEN 0 ELSE (n + 1) - 1 + 1
    BY <1>3, FS_Interval
  <2> QED
    BY <1>3, <2>1, <2>2
<1>6. /\ audit'[<<action, h>>] = audit[<<action, h>>] + 1
      /\ \A e \in AuditAction, g \in History :
           e # action \/ g # h => audit'[<<e, g>>] = audit[<<e, g>>]
  BY <1>1
<1>7. ASSUME NEW g \in History
      PROVE  /\ audit[<<"edit", g>>] \in Nat /\ audit[<<"layer_promoted", g>>] \in Nat
             /\ Cardinality(VersionNumbers(versions', g)) =
                  audit'[<<"edit", g>>] + audit'[<<"layer_promoted", g>>]
  <2>1. /\ Cardinality(VersionNumbers(versions, g)) =
             audit[<<"edit", g>>] + audit[<<"layer_promoted", g>>]
        /\ audit[<<"edit", g>>] \in Nat /\ audit[<<"layer_promoted", g>>] \in Nat
    BY <1>1 DEF VersionsAccounted, AuditAction
  <2>2. CASE g # h
    BY <1>4, <1>6, <2>1, <2>2 DEF AuditAction
  <2>3. CASE g = h /\ action = "edit"
    BY <1>2, <1>4, <1>5, <1>6, <2>1, <2>3 DEF AuditAction
  <2>4. CASE g = h /\ action = "layer_promoted"
    BY <1>2, <1>4, <1>5, <1>6, <2>1, <2>4 DEF AuditAction
  <2> QED
    BY <2>1, <2>2, <2>3, <2>4
<1> QED
  BY <1>6, <1>7 DEF VersionsAccounted, LayerEvents, AuditAction

\* A layer event leaves every other count as it is.
LEMMA LoggedAccounts ==
  ASSUME IInv, VersionsAccounted(versions, audit), NEW action \in LayerEvents,
         NEW k \in Key, Logged(action, LayerHistory(k)), versions' = versions
  PROVE  /\ VersionsAccounted(versions', audit')
         /\ audit[<<action, LayerHistory(k)>>] \in Nat
         /\ audit'[<<action, LayerHistory(k)>>] = audit[<<action, LayerHistory(k)>>] + 1
         /\ \A e \in LayerEvents, g \in Key : e # action \/ g # k =>
              audit'[<<e, LayerHistory(g)>>] = audit[<<e, LayerHistory(g)>>]
<1>1. /\ audit' = [audit EXCEPT ![<<action, LayerHistory(k)>>] = @ + 1]
      /\ audit \in [AuditAction \X History -> Nat]
      /\ \A g \in Key : LayerHistory(g) \in History
      /\ \A g \in Key : g # k => LayerHistory(g) # LayerHistory(k)
  BY DEF Logged, IInv, TypeOK, LayerHistory, History
<1>2. /\ audit'[<<action, LayerHistory(k)>>] = audit[<<action, LayerHistory(k)>>] + 1
      /\ audit[<<action, LayerHistory(k)>>] \in Nat
      /\ \A e \in AuditAction, h \in History : e # action \/ h # LayerHistory(k) =>
           audit'[<<e, h>>] = audit[<<e, h>>]
  BY <1>1 DEF AuditAction, LayerEvents
<1>3. VersionsAccounted(versions', audit')
  BY <1>2 DEF VersionsAccounted, AuditAction, LayerEvents
<1> QED
  BY <1>1, <1>2, <1>3 DEF AuditAction, LayerEvents

\* Steps that leave the counted layers and the layer events as they are.
LEMMA LayersStayAccounted ==
  ASSUME LayersAccounted(layers, audit),
         \A k \in Key : /\ Clones(layers', k) = Clones(layers, k)
                        /\ Discards(layers', k) = Discards(layers, k),
         \A e \in LayerEvents, g \in History : audit'[<<e, g>>] = audit[<<e, g>>]
  PROVE  LayersAccounted(layers', audit')
<1>1. \A k \in Key : LayerHistory(k) \in History
  BY DEF LayerHistory, History
<1> QED
  BY <1>1 DEF LayersAccounted, LayerEvents

\* A layer created active is no clone and not archived.
LEMMA NewActiveUncounted ==
  ASSUME IInv, Blank, NEW k \in Key, NEW i \in LayerId, i \notin Used(layers),
         layers' = [layers EXCEPT ![i] = NewLayer(k, "active", NULL)]
  PROVE  /\ Blank'
         /\ \A g \in Key : /\ Clones(layers', g) = Clones(layers, g)
                           /\ Discards(layers', g) = Discards(layers, g)
<1>1. /\ layers'[i].status = "active" /\ layers'[i].parent = NULL
      /\ \A j \in LayerId : j # i => layers'[j] = layers[j]
  BY DEF IInv, TypeOK, NewLayer
<1>2. layers[i].status = "none" /\ layers[i].parent = NULL
  BY DEF Blank, Unused
<1>3. Blank'
  BY <1>1 DEF Blank, Used
<1>4. ASSUME NEW g \in Key PROVE Clones(layers', g) = Clones(layers, g)
  BY <1>1, <1>2 DEF Clones
<1>5. ASSUME NEW g \in Key PROVE Discards(layers', g) = Discards(layers, g)
  BY <1>1, <1>2 DEF Discards
<1> QED
  BY <1>3, <1>4, <1>5

AuditInv == AuditAccounts /\ Blank

LEMMA EditFieldAccounts ==
  ASSUME IInv, AuditInv, NEW k \in Key, NEW i \in LayerId, NEW f, NEW row,
         NEW data \in VersionData, EditField(k, i, f, row, data)
  PROVE  AuditInv'
<1>1. Recorded("edit", EditHistory(k), data) /\ EditHistory(k) \in History
  BY DEF EditField, EditHistory, History
<1>2. /\ VersionsAccounted(versions', audit')
      /\ \A e \in LayerEvents, g \in History : audit'[<<e, g>>] = audit[<<e, g>>]
  BY <1>1, RecordedAccounts, AuditHalves DEF AuditInv
<1>3. /\ Blank'
      /\ \A g \in Key : /\ Clones(layers', g) = Clones(layers, g)
                        /\ Discards(layers', g) = Discards(layers, g)
  <2>1. CASE ActiveLayers(layers, k) # {}
    <3>1. layers' = layers
      BY <2>1 DEF EditField, WithActive
    <3> QED
      BY <3>1 DEF AuditInv, Blank, Used
  <2>2. CASE ActiveLayers(layers, k) = {}
    <3>1. /\ i \notin Used(layers)
          /\ layers' = [layers EXCEPT ![i] = NewLayer(k, "active", NULL)]
      BY <2>2 DEF EditField, WithActive, EditedLayers
    <3> QED
      BY <3>1, NewActiveUncounted DEF AuditInv
  <2> QED
    BY <2>1, <2>2
<1> QED
  BY <1>2, <1>3, LayersStayAccounted, AuditHalves DEF AuditInv

LEMMA CreateLanguageAccounts ==
  ASSUME IInv, AuditInv, NEW l \in Language, NEW i \in LayerId, CreateLanguage(l, i)
  PROVE  AuditInv'
<1>1. /\ l \in Key /\ Recorded("edit", EditHistory(l), <<"language", l>>)
      /\ EditHistory(l) \in History /\ <<"language", l>> \in VersionData
  BY DEF CreateLanguage, EditHistory, History, Key, VersionData
<1>2. /\ VersionsAccounted(versions', audit')
      /\ \A e \in LayerEvents, g \in History : audit'[<<e, g>>] = audit[<<e, g>>]
  BY <1>1, RecordedAccounts, AuditHalves DEF AuditInv
<1>3. /\ Blank'
      /\ \A g \in Key : /\ Clones(layers', g) = Clones(layers, g)
                        /\ Discards(layers', g) = Discards(layers, g)
  BY <1>1, NewActiveUncounted DEF CreateLanguage, AuditInv
<1> QED
  BY <1>2, <1>3, LayersStayAccounted, AuditHalves DEF AuditInv

LEMMA RestoreVersionAccounts ==
  ASSUME IInv, AuditInv, NEW h \in Restorable, NEW n \in 1..MaxVersion, RestoreVersion(h, n)
  PROVE  AuditInv'
<1>1. PICK v \in versions : Recorded("edit", h, v.data)
  BY DEF RestoreVersion
<1>2. h \in History /\ v.data \in VersionData /\ layers' = layers
  BY DEF Restorable, IInv, TypeOK, VersionRow, RestoreVersion
<1>3. /\ VersionsAccounted(versions', audit')
      /\ \A e \in LayerEvents, g \in History : audit'[<<e, g>>] = audit[<<e, g>>]
  BY <1>1, <1>2, RecordedAccounts, AuditHalves DEF AuditInv
<1>4. Blank' /\ LayersAccounted(layers', audit')
  BY <1>2, <1>3, LayersStayAccounted, AuditHalves DEF AuditInv, Blank, Used
<1> QED
  BY <1>3, <1>4, AuditHalves DEF AuditInv

\* The new draft is the one clone more of its key.
LEMMA CreateDraftAccounts ==
  ASSUME IInv, AuditInv, NEW k \in Key, NEW src \in LayerId, NEW d \in LayerId,
         CreateDraft(k, src, d)
  PROVE  AuditInv'
<1>1. /\ layers[src].key = k /\ d \notin Used(layers) /\ versions' = versions
      /\ Logged("layer_draft_created", LayerHistory(k))
      /\ layers' = Cloned(layers, src, d)
  BY DEF CreateDraft, ActiveLayers
<1>2. /\ layers'[d].key = k /\ layers'[d].parent # NULL /\ layers'[d].status = "draft"
      /\ \A j \in LayerId : j # d => layers'[j] = layers[j]
  BY <1>1, NullDistinct DEF Cloned, NewLayer, IInv, TypeOK
<1>3. layers[d].key = NULL /\ layers[d].status = "none" /\ NULL \notin Key
  BY <1>1, NullDistinct DEF AuditInv, Blank, Unused
<1>4. /\ VersionsAccounted(versions', audit')
      /\ audit'[<<"layer_draft_created", LayerHistory(k)>>] =
           audit[<<"layer_draft_created", LayerHistory(k)>>] + 1
      /\ \A e \in LayerEvents, g \in Key : e # "layer_draft_created" \/ g # k =>
              audit'[<<e, LayerHistory(g)>>] = audit[<<e, LayerHistory(g)>>]
  BY <1>1, LoggedAccounts, AuditHalves DEF AuditInv, LayerEvents
<1>5. /\ Clones(layers', k) = Clones(layers, k) \cup {d} /\ d \notin Clones(layers, k)
      /\ \A g \in Key : g # k => Clones(layers', g) = Clones(layers, g)
      /\ \A g \in Key : Discards(layers', g) = Discards(layers, g)
  <2>1. Clones(layers', k) = Clones(layers, k) \cup {d} /\ d \notin Clones(layers, k)
    BY <1>2, <1>3 DEF Clones
  <2>2. ASSUME NEW g \in Key, g # k PROVE Clones(layers', g) = Clones(layers, g)
    BY <1>2, <1>3, <2>2 DEF Clones
  <2>3. ASSUME NEW g \in Key PROVE Discards(layers', g) = Discards(layers, g)
    BY <1>2, <1>3 DEF Discards
  <2> QED
    BY <2>1, <2>2, <2>3
<1>6. Cardinality(Clones(layers', k)) = Cardinality(Clones(layers, k)) + 1
  <2>1. IsFiniteSet(Clones(layers, k))
    BY FiniteIds, FS_Subset DEF Clones
  <2> QED
    BY <1>5, <2>1, FS_AddElement
<1>7. LayersAccounted(layers', audit')
  BY <1>4, <1>5, <1>6, AuditHalves DEF AuditInv, LayersAccounted, LayerEvents
<1>8. Blank'
  BY <1>2 DEF AuditInv, Blank, Used
<1> QED
  BY <1>4, <1>7, <1>8, AuditHalves DEF AuditInv

\* The layer superseded is archived with a successor, so no event has to match it.
LEMMA PromoteDraftAccounts ==
  ASSUME IInv, AuditInv, NEW d \in LayerId, PromoteDraft(d)
  PROVE  AuditInv'
<1> PICK k \in Key : k = layers[d].key
  BY KeyOfLayer DEF PromoteDraft
<1>1. /\ layers[d].status \in {"draft", "active"}
      /\ Recorded("layer_promoted", LayerHistory(k), <<"layer", d>>)
      /\ LayerHistory(k) \in History /\ <<"layer", d>> \in VersionData
  BY DEF PromoteDraft, ValidTransition, AllowedTransitions, LayerHistory, History, VersionData
<1>2. /\ VersionsAccounted(versions', audit')
      /\ \A e \in LayerEvents, g \in History : audit'[<<e, g>>] = audit[<<e, g>>]
  BY <1>1, RecordedAccounts, AuditHalves DEF AuditInv
<1>3. PICK prev \in Superseded(layers, d) : layers' = Promoted(layers, d, prev)
  BY DEF PromoteDraft
<1>4. /\ \A j \in LayerId : layers[j] \in LayerRow
      /\ prev # d /\ (prev \in LayerId => layers[prev].status = "active")
  BY <1>3, NullDistinct DEF Superseded, ActiveLayers, IInv, TypeOK
<1>5. /\ layers'[d].status = "active" /\ layers'[d].key = layers[d].key
      /\ layers'[d].parent = layers[d].parent
      /\ \A j \in LayerId : j # d /\ j # prev => layers'[j] = layers[j]
  BY <1>3, <1>4 DEF Promoted, LayerRow
<1>6. prev \in LayerId => /\ layers'[prev].status = "archived"
                          /\ layers'[prev].successor # NULL
                          /\ layers'[prev].key = layers[prev].key
                          /\ layers'[prev].parent = layers[prev].parent
  BY <1>3, <1>4, NullDistinct DEF Promoted, LayerRow
<1>7. ASSUME NEW g \in Key PROVE Clones(layers', g) = Clones(layers, g)
  BY <1>5, <1>6 DEF Clones
<1>8. ASSUME NEW g \in Key PROVE Discards(layers', g) = Discards(layers, g)
  BY <1>1, <1>4, <1>5, <1>6 DEF Discards
<1>9. Blank'
  BY <1>1, <1>5, <1>6 DEF AuditInv, Blank, Used
<1> QED
  BY <1>2, <1>7, <1>8, <1>9, LayersStayAccounted, AuditHalves DEF AuditInv

\* A draft has no successor, so once archived it is one that was discarded.
LEMMA ArchiveDraftAccounts ==
  ASSUME IInv, Provenance, AuditInv, NEW d \in LayerId, ArchiveDraft(d)
  PROVE  AuditInv'
<1>1. /\ d \in Used(layers) /\ layers[d].status = "draft" /\ versions' = versions
      /\ layers[d] \in LayerRow
  BY DEF ArchiveDraft, Used, IInv, TypeOK
<1> PICK k \in Key : k = layers[d].key
  BY <1>1, KeyOfLayer
<1>2. layers[d].successor = NULL
  BY <1>1 DEF Provenance, SupersessionChain
<1>3. /\ layers'[d] = [layers[d] EXCEPT !.status = "archived"]
      /\ \A j \in LayerId : j # d => layers'[j] = layers[j]
  BY DEF ArchiveDraft, Archived, IInv, TypeOK
<1>4. /\ layers'[d].status = "archived" /\ layers'[d].key = k
      /\ layers'[d].successor = NULL /\ layers'[d].parent = layers[d].parent
  BY <1>1, <1>2, <1>3 DEF LayerRow
<1>5. /\ VersionsAccounted(versions', audit')
      /\ audit'[<<"layer_archived", LayerHistory(k)>>] =
           audit[<<"layer_archived", LayerHistory(k)>>] + 1
      /\ \A e \in LayerEvents, g \in Key : e # "layer_archived" \/ g # k =>
              audit'[<<e, LayerHistory(g)>>] = audit[<<e, LayerHistory(g)>>]
  BY <1>1, LoggedAccounts, AuditHalves DEF AuditInv, LayerEvents, ArchiveDraft
<1>6. /\ Discards(layers', k) = Discards(layers, k) \cup {d} /\ d \notin Discards(layers, k)
      /\ \A g \in Key : g # k => Discards(layers', g) = Discards(layers, g)
      /\ \A g \in Key : Clones(layers', g) = Clones(layers, g)
  <2>1. Discards(layers', k) = Discards(layers, k) \cup {d} /\ d \notin Discards(layers, k)
    BY <1>1, <1>3, <1>4 DEF Discards
  <2>2. ASSUME NEW g \in Key, g # k PROVE Discards(layers', g) = Discards(layers, g)
    BY <1>3, <1>4, <2>2 DEF Discards
  <2>3. ASSUME NEW g \in Key PROVE Clones(layers', g) = Clones(layers, g)
    BY <1>3, <1>4, ZenonT(60) DEF Clones
  <2> QED
    BY <2>1, <2>2, <2>3
<1>7. Cardinality(Discards(layers', k)) = Cardinality(Discards(layers, k)) + 1
  <2>1. IsFiniteSet(Discards(layers, k))
    BY FiniteIds, FS_Subset DEF Discards
  <2> QED
    BY <1>6, <2>1, FS_AddElement, SMTT(30)
<1>8. LayersAccounted(layers', audit')
  BY <1>5, <1>6, <1>7, AuditHalves DEF AuditInv, LayersAccounted, LayerEvents
<1>9. Blank'
  <2>1. \A j \in LayerId \ Used(layers') : j # d /\ j \notin Used(layers)
    BY <1>3, <1>4 DEF Used
  <2> QED
    BY <1>3, <2>1 DEF AuditInv, Blank, Used
<1> QED
  BY <1>5, <1>8, <1>9, AuditHalves DEF AuditInv

LEMMA AuditKept == IInv /\ Provenance /\ AuditInv /\ [Next]_vars => AuditInv'
<1> SUFFICES ASSUME IInv, Provenance, AuditInv, [Next]_vars PROVE AuditInv'
  OBVIOUS
<1>1. ASSUME NEW i \in LayerId, NEW f \in Field
      PROVE  overrides[i][f] \in FieldOverride
  BY DEF IInv, TypeOK
<1>2. ASSUME NEW k \in Key, NEW i \in LayerId, NEW f \in Field, NEW v \in Value,
             UpdateField(k, i, f, v)
      PROVE  AuditInv'
  <2>1. <<"meta", v>> \in VersionData
    BY DEF VersionData
  <2> QED
    BY <1>2, <2>1, EditFieldAccounts DEF UpdateField
<1>3. ASSUME NEW k \in Key, NEW i \in LayerId, NEW f \in Field, NEW type,
             ResetField(k, i, f, type)
      PROVE  AuditInv'
  <2>1. <<"none">> \in VersionData
    BY DEF VersionData
  <2> QED
    BY <1>3, <2>1, EditFieldAccounts DEF ResetField
<1>4. ASSUME NEW k \in Key, NEW i \in LayerId, NEW f \in Field, NEW p \in Preset,
             AddPreset(k, i, f, p)
      PROVE  AuditInv'
  <2>1. PresetsWith(overrides[i][f], p) \in SUBSET Preset
    BY <1>1, RowTypes
  <2>2. <<"presets", PresetsWith(overrides[i][f], p)>> \in VersionData
    BY <2>1 DEF VersionData
  <2> QED
    BY <1>4, <2>2, EditFieldAccounts DEF AddPreset
<1>5. ASSUME NEW k \in Key, NEW i \in LayerId, NEW f \in Field, RemovePreset(k, i, f)
      PROVE  AuditInv'
  <2>1. PICK gone : EditField(k, i, f, PresetsRemoved(overrides[i][f], gone), <<"none">>)
    BY <1>5 DEF RemovePreset
  <2>2. <<"none">> \in VersionData
    BY DEF VersionData
  <2> QED
    BY <2>1, <2>2, EditFieldAccounts
<1>6. CASE UNCHANGED vars
  <2>1. AuditAccounts'
    BY <1>6 DEF vars, AuditInv, AuditAccounts
  <2>2. Blank'
    BY <1>6 DEF vars, AuditInv, Blank, Used
  <2> QED
    BY <2>1, <2>2 DEF AuditInv
<1> QED
  BY <1>2, <1>3, <1>4, <1>5, <1>6, CreateLanguageAccounts, RestoreVersionAccounts,
     CreateDraftAccounts, PromoteDraftAccounts, ArchiveDraftAccounts DEF Next

LEMMA InitAudit == Init => AuditInv
<1> SUFFICES ASSUME Init PROVE AuditInv
  OBVIOUS
<1>1. \A i \in LayerId : layers[i].parent = NULL /\ layers[i].status # "archived"
  BY DEF Init, Unused, NewLayer
<1>2. \A k \in Key : Clones(layers, k) = {} /\ Discards(layers, k) = {}
  BY <1>1 DEF Clones, Discards
<1>3. \A h \in History : VersionNumbers(versions, h) = {}
  BY DEF Init, VersionNumbers
<1>4. /\ \A e \in AuditAction, h \in History : audit[<<e, h>>] = 0
      /\ \A k \in Key : LayerHistory(k) \in History
  BY DEF Init, LayerHistory, History
<1>5. LayersAccounted(layers, audit) /\ VersionsAccounted(versions, audit)
  BY <1>2, <1>3, <1>4, FS_EmptySet DEF LayersAccounted, VersionsAccounted, AuditAction
<1>6. Blank
  BY DEF Init, Blank, Used, NewLayer
<1> QED
  BY <1>5, <1>6, AuditHalves DEF AuditInv

\* The audit trail accounts for every layer and version, whatever requests have run.
THEOREM AuditTrail == Spec => []AuditAccounts
<1>1. AuditInv => AuditAccounts
  BY DEF AuditInv
<1> QED
  BY InitInvariant, NextInvariant, InitProvenance, ProvenanceKept, InitAudit, AuditKept,
     <1>1, PTL DEF Spec
=============================================================================
