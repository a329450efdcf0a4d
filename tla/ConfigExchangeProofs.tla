------------------------ MODULE ConfigExchangeProofs ------------------------
(***************************************************************************)
(* Proofs about the exchange of configurations with files, for any tools,  *)
(* languages, steps and fields, and any files that give known attributes.  *)
(***************************************************************************)
EXTENDS ConfigExchange, LayerOpsProofs, FiniteSetTheorems

\* A table of override rows, for the steps and fields in known.
TableOK(table, known) ==
  /\ DOMAIN table \subseteq {t \in Target : t[2] \in known}
  /\ \A t \in DOMAIN table : DOMAIN table[t] = Columns(t)

SchemaOK(s) == SchemaFile(s) /\ \A x \in DOMAIN s : DOMAIN s[x] = SchemaColumnsOf(x)

FilesOK ==
  /\ SchemaFile(schemaFile)
  /\ DOMAIN files = Key /\ \A k \in Key : DOMAIN files[k] \subseteq Target

\* A key with layers has one that is active: the import finds no other when it finds one.
HasActive(ls) ==
  \A i \in Used(ls) : ls[i].key \in Key /\ ActiveLayers(ls, ls[i].key) # {}

ExchangeInv == ExchangeTypeOK /\ FilesOK /\ HasActive(layers)

LEMMA TypesAsTables ==
  ExchangeTypeOK <=> /\ SchemaOK(schema) /\ layers \in [LayerId -> LayerRow]
                     /\ DOMAIN rows = LayerId
                     /\ \A i \in LayerId : TableOK(rows[i], DOMAIN schema)
                     /\ report \subseteq Key
BY DEF ExchangeTypeOK, SchemaOK, TableOK

-----------------------------------------------------------------------------
(* What is written to the tables.                                          *)

LEMMA SchemaRowOK ==
  ASSUME NEW doc, SchemaFile(doc), NEW old, SchemaOK(old)
  PROVE  LET new == Over([x \in DOMAIN doc |-> SchemaRow(x, doc[x])], old)
         IN  SchemaOK(new) /\ DOMAIN new = DOMAIN doc \cup DOMAIN old
<1> DEFINE read == [x \in DOMAIN doc |-> SchemaRow(x, doc[x])]
           new == Over(read, old)
<1>1. DOMAIN new = DOMAIN doc \cup DOMAIN old
  BY DEF Over
<1>2. ASSUME NEW x \in DOMAIN doc
      PROVE  /\ DOMAIN SchemaRow(x, doc[x]) = SchemaColumnsOf(x)
             /\ \A c \in SchemaColumnsOf(x) \cap {"hidden", "required"} :
                  SchemaRow(x, doc[x])[c] \in BOOLEAN
  BY DEF SchemaRow, Over, SchemaDefault, SchemaFile
<1>3. ASSUME NEW x \in DOMAIN new
      PROVE  /\ DOMAIN new[x] = SchemaColumnsOf(x)
             /\ \A c \in SchemaColumnsOf(x) \cap {"hidden", "required"} : new[x][c] \in BOOLEAN
  <2>1. CASE x \in DOMAIN doc
    <3>1. new[x] = SchemaRow(x, doc[x])
      BY <1>1, <2>1 DEF Over
    <3> QED
      BY <1>2, <2>1, <3>1
  <2>2. CASE x \notin DOMAIN doc
    <3>1. new[x] = old[x] /\ x \in DOMAIN old
      BY <1>1, <2>2 DEF Over
    <3> QED
      BY <3>1 DEF SchemaOK, SchemaFile
  <2> QED
    BY <2>1, <2>2
<1>4. DOMAIN new \subseteq Step \cup Field
  BY <1>1 DEF SchemaOK, SchemaFile
<1> QED
  BY <1>1, <1>3, <1>4 DEF SchemaOK, SchemaFile

LEMMA ImportedOK ==
  ASSUME NEW old, NEW before, TableOK(old, before), NEW known, before \subseteq known,
         NEW doc, DOMAIN doc \subseteq Target
  PROVE  /\ TableOK(Imported(old, doc, known), known)
         /\ \A t \in DOMAIN doc : t[2] \in known => Row(Imported(old, doc, known), t) = RowOf(t, doc[t])
<1> DEFINE read == [t \in {u \in DOMAIN doc : u[2] \in known} |-> RowOf(t, doc[t])]
           new == Imported(old, doc, known)
<1>1. new = Over(read, old)
  BY DEF Imported
<1>2. \A t : DOMAIN RowOf(t, doc[t]) = Columns(t)
  BY DEF RowOf
<1>3. /\ DOMAIN new = DOMAIN read \cup DOMAIN old
      /\ \A t \in DOMAIN read : new[t] = RowOf(t, doc[t])
      /\ \A t \in DOMAIN old \ DOMAIN read : new[t] = old[t]
  BY <1>1 DEF Over
<1> HIDE DEF new
<1>4. TableOK(new, known)
  BY <1>2, <1>3 DEF TableOK
<1>5. \A t \in DOMAIN doc : t[2] \in known => Row(new, t) = RowOf(t, doc[t])
  BY <1>3 DEF Row
<1> QED
  BY <1>4, <1>5 DEF new

LEMMA MetaUpdatedOK ==
  ASSUME NEW table, NEW known, TableOK(table, known), NEW f \in Field, f \in known,
         NEW changes, DOMAIN changes \subseteq Columns(<<"meta", f>>)
  PROVE  TableOK(MetaUpdated(table, <<"meta", f>>, changes), known)
<1> DEFINE t == <<"meta", f>>
           new == MetaUpdated(table, t, changes)
<1>1. t \in Target /\ t[2] = f
  BY DEF Target
<1>2. DOMAIN Row(table, t) = Columns(t)
  BY DEF Row, EmptyRow, TableOK
<1>3. DOMAIN Over(changes, Row(table, t)) = Columns(t)
  BY <1>2 DEF Over
<1>4. /\ DOMAIN new = {t} \cup DOMAIN table
      /\ new[t] = Over(changes, Row(table, t))
      /\ \A u \in DOMAIN table \ {t} : new[u] = table[u]
  <2> HIDE DEF t
  <2> QED
    BY DEF MetaUpdated, Over
<1> HIDE DEF t, new
<1> QED
  BY <1>1, <1>3, <1>4 DEF TableOK, t, new

LEMMA ActiveRowsOK ==
  ASSUME ExchangeTypeOK, NEW k
  PROVE  TableOK(ActiveRows(k), DOMAIN schema)
<1>1. CASE ActiveLayers(layers, k) = {}
  BY <1>1 DEF ActiveRows, NoRows, TableOK
<1>2. CASE ActiveLayers(layers, k) # {}
  <2>1. (CHOOSE i \in ActiveLayers(layers, k) : TRUE) \in LayerId
    BY <1>2 DEF ActiveLayers
  <2> QED
    BY <1>2, <2>1, TypesAsTables DEF ActiveRows
<1> QED
  BY <1>1, <1>2

-----------------------------------------------------------------------------
(* The inductive invariant.                                                *)

\* What an import does: a layer for each key that has none, and the rows of the files.
ImportStep(id) ==
  LET new == {k \in Key : Found(k) = {}}
      taken == {k \in Key : Receiving(k) # {}}
      known == DOMAIN schema'
  IN  /\ id \in [new -> LayerId \ Used(layers)]
      /\ \A k, l \in new : id[k] = id[l] => k = l
      /\ layers' \in [LayerId -> LayerRow]
      /\ \A k \in new : layers'[id[k]] = NewLayer(k, "active", NULL)
      /\ \A i \in LayerId \ {id[k] : k \in new} : layers'[i] = layers[i]
      /\ \A k \in new : rows'[id[k]] = Imported(rows[id[k]], files[k], known)
      /\ \A k \in taken : \A i \in Receiving(k) : rows'[i] = Imported(rows[i], files[k], known)
      /\ \A i \in LayerId : \/ rows'[i] = rows[i]
                            \/ \E k \in Key : rows'[i] = Imported(rows[i], files[k], known)
      /\ DOMAIN rows' = LayerId
      /\ report' = (Key \ (new \cup taken))
                     \cup {k \in Key : \E t \in DOMAIN files[k] : t[2] \notin known}

LEMMA ImportSteps == ASSUME ExchangeInv, ImportFiles PROVE \E id : ImportStep(id)
<1> DEFINE new == {k \in Key : Found(k) = {}}
           taken == {k \in Key : Receiving(k) # {}}
           known == DOMAIN schema'
<1>1. layers \in [LayerId -> LayerRow]
  BY DEF ExchangeInv, ExchangeTypeOK
<1>2. PICK id \in Injection(new, LayerId \ Used(layers)) :
        /\ layers' = [i \in LayerId |->
             IF i \in Range(id)
             THEN NewLayer(CHOOSE k \in new : id[k] = i, "active", NULL)
             ELSE layers[i]]
        /\ rows' = [i \in LayerId |->
             IF i \in Range(id) \cup UNION {Receiving(k) : k \in taken}
             THEN Imported(rows[i], files[layers'[i].key], known)
             ELSE rows[i]]
  BY DEF ImportFiles
<1>3. id \in [new -> LayerId \ Used(layers)] /\ \A k, l \in new : id[k] = id[l] => k = l
  BY DEF Injection, IsInjective
<1>4. report' = (Key \ (new \cup taken))
                  \cup {k \in Key : \E t \in DOMAIN files[k] : t[2] \notin known}
  BY DEF ImportFiles
<1> HIDE DEF new, taken, known
<1>5. Range(id) = {id[k] : k \in new}
  BY <1>3 DEF Range
<1>6. ASSUME NEW k \in new PROVE layers'[id[k]] = NewLayer(k, "active", NULL)
  <2>1. (CHOOSE l \in new : id[l] = id[k]) = k
    BY <1>3
  <2> QED
    BY <1>2, <1>3, <1>5, <2>1
<1>7. \A i \in LayerId \ Range(id) : layers'[i] = layers[i]
  BY <1>2
<1>8. new \subseteq Key /\ taken \subseteq Key
  BY DEF new, taken
<1>9. layers' \in [LayerId -> LayerRow]
  <2>1. \A k \in Key : NewLayer(k, "active", NULL) \in LayerRow
    BY DEF NewLayer, LayerRow, Status
  <2>2. ASSUME NEW i \in LayerId PROVE layers'[i] \in LayerRow
    BY <1>1, <1>5, <1>6, <1>7, <1>8, <2>1
  <2> QED
    BY <1>2, <2>2
<1>10. ASSUME NEW k \in new PROVE rows'[id[k]] = Imported(rows[id[k]], files[k], known)
  <2>1. layers'[id[k]].key = k
    <3>1. layers'[id[k]] = NewLayer(k, "active", NULL)
      BY <1>6
    <3> QED
      BY <3>1 DEF NewLayer
  <2> QED
    BY <1>2, <1>3, <1>5, <2>1
<1>11. ASSUME NEW k \in taken, NEW i \in Receiving(k)
       PROVE  rows'[i] = Imported(rows[i], files[k], known)
  <2>1. i \in Used(layers) /\ i \in LayerId /\ layers[i].key = k
    BY DEF Receiving, Found, Used
  <2>2. layers'[i].key = k
    BY <1>3, <1>5, <1>7, <2>1
  <2> QED
    BY <1>2, <2>1, <2>2
<1>12. ASSUME NEW i \in LayerId
       PROVE  \/ rows'[i] = rows[i]
              \/ \E k \in Key : rows'[i] = Imported(rows[i], files[k], known)
  <2>1. CASE i \in Range(id)
    BY <1>5, <1>8, <1>10, <2>1
  <2>2. CASE i \in UNION {Receiving(k) : k \in taken}
    BY <1>8, <1>11, <2>2
  <2>3. CASE i \notin Range(id) \cup UNION {Receiving(k) : k \in taken}
    BY <1>2, <2>3
  <2> QED
    BY <2>1, <2>2, <2>3
<1> QED
  BY <1>2, <1>3, <1>4, <1>5, <1>6, <1>7, <1>9, <1>10, <1>11, <1>12, ZenonT(60)
     DEF ImportStep, new, taken, known

LEMMA ImportKeeps == ASSUME ExchangeInv, ImportFiles PROVE ExchangeInv'
<1> DEFINE new == {k \in Key : Found(k) = {}}
           known == DOMAIN schema'
<1>1. PICK id : ImportStep(id)
  BY ImportSteps
<1>2. SchemaOK(schema') /\ DOMAIN schema \subseteq known
  <2>1. SchemaOK(schema) /\ SchemaFile(schemaFile)
    BY TypesAsTables DEF ExchangeInv, FilesOK
  <2>2. schema' = Over([x \in DOMAIN schemaFile |-> SchemaRow(x, schemaFile[x])], schema)
    BY DEF ImportFiles
  <2> DEFINE read == Over([x \in DOMAIN schemaFile |-> SchemaRow(x, schemaFile[x])], schema)
  <2>3. SchemaOK(read) /\ DOMAIN read = DOMAIN schemaFile \cup DOMAIN schema
    BY <2>1, SchemaRowOK
  <2> QED
    BY <2>2, <2>3
<1>3. ASSUME NEW i \in LayerId PROVE TableOK(rows'[i], known)
  <2>1. TableOK(rows[i], DOMAIN schema)
    BY TypesAsTables DEF ExchangeInv
  <2>2. CASE rows'[i] = rows[i]
    BY <1>2, <2>1, <2>2 DEF TableOK
  <2>3. CASE \E k \in Key : rows'[i] = Imported(rows[i], files[k], known)
    BY <1>2, <2>1, <2>3, ImportedOK DEF ExchangeInv, FilesOK
  <2> QED
    BY <1>1, <2>2, <2>3 DEF ImportStep
<1>4. ExchangeTypeOK'
  BY <1>1, <1>2, <1>3 DEF ImportStep, ExchangeTypeOK, SchemaOK, TableOK
<1>5. FilesOK'
  BY DEF ImportFiles, ExchangeInv, FilesOK
<1>6. ASSUME NEW i \in Used(layers')
      PROVE  layers'[i].key \in Key /\ ActiveLayers(layers', layers'[i].key) # {}
  <2>1. CASE \E k \in new : i = id[k]
    <3>1. PICK k \in new : i = id[k]
      BY <2>1
    <3>2. layers'[i] = NewLayer(k, "active", NULL) /\ i \in LayerId
      BY <1>1, <3>1 DEF ImportStep
    <3>3. i \in ActiveLayers(layers', k) /\ layers'[i].key = k
      BY <3>2 DEF NewLayer, ActiveLayers
    <3> QED
      BY <3>3
  <2>2. CASE ~\E k \in new : i = id[k]
    <3>1. layers'[i] = layers[i] /\ i \in LayerId /\ i \in Used(layers)
      BY <1>1, <2>2 DEF ImportStep, Used
    <3>2. PICK a \in LayerId : a \in ActiveLayers(layers, layers[i].key)
      BY <3>1 DEF ExchangeInv, HasActive, ActiveLayers
    <3>3. a \in Used(layers)
      BY <3>2 DEF ActiveLayers, Used
    <3>4. layers'[a] = layers[a]
      <4>1. \A k \in new : id[k] # a
        BY <1>1, <3>3 DEF ImportStep
      <4> QED
        BY <1>1, <4>1 DEF ImportStep
    <3>5. a \in ActiveLayers(layers', layers'[i].key)
      BY <3>1, <3>2, <3>4 DEF ActiveLayers
    <3> QED
      BY <3>1, <3>5 DEF ExchangeInv, HasActive
  <2> QED
    BY <2>1, <2>2
<1> QED
  BY <1>4, <1>5, <1>6 DEF ExchangeInv, HasActive

LEMMA ExportKeeps == ASSUME ExchangeInv, ExportFiles PROVE ExchangeInv'
<1>1. SchemaFile(ExportedSchema)
  BY DEF ExportedSchema, SchemaWritten, SchemaFile, ExchangeInv, ExchangeTypeOK
<1>2. ASSUME NEW k \in Key PROVE DOMAIN files'[k] \subseteq Target
  <2>1. DOMAIN Exported(ActiveRows(k)) \subseteq Target
    BY ActiveRowsOK DEF ExchangeInv, Exported, TableOK
  <2> QED
    BY <2>1 DEF ExportFiles, ExchangeInv, FilesOK
<1>3. FilesOK'
  BY <1>1, <1>2 DEF ExportFiles, FilesOK
<1> QED
  BY <1>3 DEF ExportFiles, ExchangeInv, ExchangeTypeOK, ActiveLayers, HasActive, Used

LEMMA WriteFileKeeps == ASSUME ExchangeInv, WriteFile PROVE ExchangeInv'
<1>1. FilesOK'
  BY ExchangeAssumption DEF WriteFile, ExchangeInv, FilesOK
<1> QED
  BY <1>1 DEF WriteFile, ExchangeInv, ExchangeTypeOK, ActiveLayers, HasActive, Used

LEMMA UpdateFieldKeeps ==
  ASSUME ExchangeInv, NEW k \in Key, NEW f \in Field, NEW changes \in MetaChange,
         UpdateField(k, f, changes)
  PROVE  ExchangeInv'
<1> USE DEF ExchangeInv
<1>1. PICK i \in EditedLayers(layers, k) :
        /\ layers' = WithActive(layers, k, i)
        /\ rows' = [rows EXCEPT ![i] = MetaUpdated(@, <<"meta", f>>, changes)]
  BY DEF UpdateField
<1>2. i \in LayerId /\ f \in DOMAIN schema /\ UNCHANGED <<schema, schemaFile, files, report>>
  BY DEF UpdateField, EditedLayers, ActiveLayers
<1>3. layers' \in [LayerId -> LayerRow]
  BY <1>1, <1>2, TableTypes DEF ExchangeTypeOK
<1>4. ASSUME NEW j \in LayerId PROVE TableOK(rows'[j], DOMAIN schema)
  <2>1. TableOK(rows[j], DOMAIN schema) /\ DOMAIN rows = LayerId
    BY TypesAsTables
  <2>2. j = i => TableOK(MetaUpdated(rows[j], <<"meta", f>>, changes), DOMAIN schema)
    BY <1>2, <2>1, MetaUpdatedOK, ExchangeAssumption
  <2> QED
    BY <1>1, <2>1, <2>2
<1>5. ExchangeTypeOK'
  BY <1>1, <1>2, <1>3, <1>4 DEF ExchangeTypeOK, TableOK
<1>6. HasActive(layers')
  <2>1. CASE ActiveLayers(layers, k) # {}
    BY <1>1, <2>1 DEF WithActive
  <2>2. CASE ActiveLayers(layers, k) = {}
    <3>1. /\ layers' = [layers EXCEPT ![i] = NewLayer(k, "active", NULL)]
          /\ i \notin Used(layers)
      BY <1>1, <2>2 DEF WithActive, EditedLayers
    <3>2. /\ layers'[i] = NewLayer(k, "active", NULL)
          /\ \A j \in LayerId \ {i} : layers'[j] = layers[j]
      BY <1>2, <3>1 DEF ExchangeTypeOK
    <3>3. i \in ActiveLayers(layers', k) /\ layers'[i].key = k
      BY <1>2, <3>2 DEF NewLayer, ActiveLayers
    <3>4. ASSUME NEW j \in Used(layers'), j # i
          PROVE  layers'[j].key \in Key /\ ActiveLayers(layers', layers'[j].key) # {}
      <4>1. j \in Used(layers) /\ layers'[j] = layers[j]
        BY <3>2, <3>4 DEF Used
      <4>2. PICK a \in LayerId : a \in ActiveLayers(layers, layers[j].key)
        BY <4>1 DEF HasActive, ActiveLayers
      <4>3. a # i
        BY <3>1, <4>2 DEF ActiveLayers, Used
      <4>4. a \in ActiveLayers(layers', layers'[j].key)
        BY <3>2, <4>1, <4>2, <4>3 DEF ActiveLayers
      <4> QED
        BY <4>1, <4>4 DEF HasActive
    <3> QED
      BY <3>3, <3>4 DEF HasActive
  <2> QED
    BY <2>1, <2>2
<1> QED
  BY <1>2, <1>5, <1>6 DEF FilesOK

\* A step that leaves keys and takes no layer away from a key whose layer was active.
LEMMA StatusKeeps ==
  ASSUME ExchangeInv, layers' \in [LayerId -> LayerRow],
         UNCHANGED <<schema, schemaFile, files, report>>,
         DOMAIN rows' = LayerId, \A i \in LayerId : TableOK(rows'[i], DOMAIN schema),
         \A i \in Used(layers') :
           layers'[i].key \in Key /\ ActiveLayers(layers', layers'[i].key) # {}
  PROVE  ExchangeInv'
BY DEF ExchangeInv, ExchangeTypeOK, FilesOK, HasActive, TableOK

LEMMA CreateDraftKeeps ==
  ASSUME ExchangeInv, NEW k \in Key, NEW d \in LayerId, CreateDraft(k, d)
  PROVE  ExchangeInv'
<1>1. PICK i \in ActiveLayers(layers, k) :
        layers' = Cloned(layers, i, d) /\ rows' = [rows EXCEPT ![d] = rows[i]]
  BY DEF CreateDraft
<1>2. /\ d \notin Used(layers) /\ i \in LayerId /\ i \in Used(layers) /\ layers[i].key = k
      /\ layers \in [LayerId -> LayerRow]
  BY DEF CreateDraft, ActiveLayers, Used, ExchangeInv, ExchangeTypeOK
<1>3. /\ layers'[d] = NewLayer(k, "draft", i)
      /\ \A j \in LayerId \ {d} : layers'[j] = layers[j]
      /\ layers' \in [LayerId -> LayerRow]
  BY <1>1, <1>2, TableTypes DEF Cloned
<1>4. DOMAIN rows' = LayerId /\ \A j \in LayerId : TableOK(rows'[j], DOMAIN schema)
  BY <1>1, <1>2, TypesAsTables DEF ExchangeInv
<1>5. ASSUME NEW j \in Used(layers')
      PROVE  layers'[j].key \in Key /\ ActiveLayers(layers', layers'[j].key) # {}
  <2>1. \E u \in Used(layers) : layers[u].key = layers'[j].key
    BY <1>2, <1>3 DEF NewLayer, Used
  <2>2. layers'[j].key \in Key /\ ActiveLayers(layers, layers'[j].key) # {}
    BY <2>1 DEF ExchangeInv, HasActive
  <2>3. PICK a \in LayerId : a \in ActiveLayers(layers, layers'[j].key)
    BY <2>2 DEF ActiveLayers
  <2>4. a # d
    BY <1>2, <2>3 DEF ActiveLayers, Used
  <2>5. a \in ActiveLayers(layers', layers'[j].key)
    BY <1>3, <2>3, <2>4 DEF ActiveLayers
  <2> QED
    BY <2>2, <2>5
<1> QED
  BY <1>3, <1>4, <1>5, StatusKeeps DEF CreateDraft

LEMMA PromoteDraftKeeps ==
  ASSUME ExchangeInv, NEW d \in LayerId, PromoteDraft(d) PROVE ExchangeInv'
<1>1. PICK prev \in Superseded(layers, d) : layers' = Promoted(layers, d, prev)
  BY DEF PromoteDraft
<1>2. /\ layers \in [LayerId -> LayerRow] /\ d \in Used(layers)
      /\ UNCHANGED <<schema, rows, schemaFile, files, report>>
  BY DEF PromoteDraft, Used, ExchangeInv, ExchangeTypeOK
<1>3. layers' \in [LayerId -> LayerRow]
  BY <1>1, <1>2, TableTypes
<1>4. \A j \in LayerId :
        /\ layers'[j].key = layers[j].key
        /\ j = d => layers'[j].status = "active"
        /\ j # d /\ j # prev => layers'[j] = layers[j]
  BY <1>1, <1>2, PromotedRows
<1>5. prev \in LayerId => layers[prev].key = layers[d].key
  BY <1>1, NullDistinct DEF Superseded, ActiveLayers
<1>6. ASSUME NEW j \in Used(layers')
      PROVE  layers'[j].key \in Key /\ ActiveLayers(layers', layers'[j].key) # {}
  <2>1. j \in Used(layers)
    <3>1. CASE j = d
      BY <1>2, <3>1
    <3>2. CASE j # d /\ j = prev
      BY <1>1, <3>2, NullDistinct DEF Superseded, ActiveLayers, Used
    <3>3. CASE j # d /\ j # prev
      BY <1>4, <3>3 DEF Used
    <3> QED
      BY <3>1, <3>2, <3>3
  <2>2. j \in LayerId /\ layers[j].key \in Key /\ layers'[j].key = layers[j].key
    BY <1>4, <2>1 DEF ExchangeInv, HasActive, Used
  <2>3. PICK a \in LayerId : a \in ActiveLayers(layers, layers[j].key)
    BY <2>1 DEF ExchangeInv, HasActive, ActiveLayers
  <2>4. CASE layers[j].key = layers[d].key
    BY <1>4, <2>2, <2>4 DEF ActiveLayers
  <2>5. CASE layers[j].key # layers[d].key
    <3>1. a # d /\ a # prev
      BY <1>5, <2>3, <2>5 DEF ActiveLayers
    <3> QED
      BY <1>4, <2>2, <2>3, <3>1 DEF ActiveLayers
  <2> QED
    BY <2>2, <2>4, <2>5
<1>7. DOMAIN rows' = LayerId /\ \A j \in LayerId : TableOK(rows'[j], DOMAIN schema)
  BY <1>2, TypesAsTables DEF ExchangeInv
<1> QED
  BY <1>2, <1>3, <1>6, <1>7, StatusKeeps

LEMMA ArchiveDraftKeeps ==
  ASSUME ExchangeInv, NEW d \in LayerId, ArchiveDraft(d) PROVE ExchangeInv'
<1>1. /\ layers' = Archived(layers, d) /\ layers[d].status = "draft"
      /\ UNCHANGED <<schema, rows, schemaFile, files, report>>
      /\ layers \in [LayerId -> LayerRow]
  BY DEF ArchiveDraft, ExchangeInv, ExchangeTypeOK
<1>2. layers' \in [LayerId -> LayerRow]
  BY <1>1, TableTypes
<1>3. \A j \in LayerId : /\ layers'[j].key = layers[j].key
                         /\ j # d => layers'[j] = layers[j]
  BY <1>1 DEF Archived, LayerRow
<1>4. ASSUME NEW j \in Used(layers')
      PROVE  layers'[j].key \in Key /\ ActiveLayers(layers', layers'[j].key) # {}
  <2>1. j \in LayerId /\ j \in Used(layers) /\ layers'[j].key = layers[j].key
    BY <1>1, <1>3 DEF Used
  <2>2. layers[j].key \in Key /\ ActiveLayers(layers, layers[j].key) # {}
    BY <2>1 DEF ExchangeInv, HasActive
  <2>3. PICK a \in LayerId : a \in ActiveLayers(layers, layers[j].key)
    BY <2>2 DEF ActiveLayers
  <2>4. a # d
    BY <1>1, <2>3 DEF ActiveLayers
  <2> QED
    BY <1>3, <2>1, <2>2, <2>3, <2>4 DEF ActiveLayers
<1>5. DOMAIN rows' = LayerId /\ \A j \in LayerId : TableOK(rows'[j], DOMAIN schema)
  BY <1>1, TypesAsTables DEF ExchangeInv
<1> QED
  BY <1>1, <1>2, <1>4, <1>5, StatusKeeps

LEMMA InitExchange == Init => ExchangeInv
<1> SUFFICES ASSUME Init PROVE ExchangeInv
  OBVIOUS
<1>1. DOMAIN NoRows = {}
  BY DEF NoRows
<1>2. layers \in [LayerId -> LayerRow] /\ Used(layers) = {}
  BY DEF Init, Unused, LayerRow, Used
<1>3. ExchangeTypeOK
  BY <1>1, <1>2 DEF Init, ExchangeTypeOK, SchemaFile
<1>4. FilesOK
  BY ExchangeAssumption DEF Init, FilesOK
<1> QED
  BY <1>2, <1>3, <1>4 DEF ExchangeInv, HasActive

LEMMA NextExchange == ExchangeInv /\ [Next]_vars => ExchangeInv'
<1> SUFFICES ASSUME ExchangeInv, [Next]_vars PROVE ExchangeInv'
  OBVIOUS
<1>1. CASE UNCHANGED vars
  BY <1>1 DEF vars, ExchangeInv, ExchangeTypeOK, FilesOK, HasActive, ActiveLayers, Used
<1> QED
  BY <1>1, ImportKeeps, ExportKeeps, WriteFileKeeps, UpdateFieldKeeps, CreateDraftKeeps,
     PromoteDraftKeeps, ArchiveDraftKeeps DEF Next

\* Whatever is imported, edited, drafted and promoted in between, rows have the columns
\* of their tables and override what the schema has.
THEOREM ExchangeTypes == Spec => []ExchangeTypeOK
<1>1. ExchangeInv => ExchangeTypeOK
  BY DEF ExchangeInv
<1> QED
  BY InitExchange, NextExchange, <1>1, PTL DEF Spec

-----------------------------------------------------------------------------
(* What an import leaves behind.                                           *)

LEMMA ImportApplies ==
  ASSUME ExchangeInv, ImportFiles, NEW k \in Key \ report'
  PROVE  /\ ActiveLayers(layers', k) # {}
         /\ \A t \in DOMAIN files[k] : Row(ActiveRows(k)', t) = RowOf(t, files[k][t])
<1> DEFINE new == {l \in Key : Found(l) = {}}
           taken == {l \in Key : Receiving(l) # {}}
           known == DOMAIN schema'
<1>1. PICK id : ImportStep(id)
  BY ImportSteps
<1>2. k \in new \cup taken /\ \A t \in DOMAIN files[k] : t[2] \in known
  BY <1>1 DEF ImportStep
\* The layer of the key is active, no other is, and it has received the file.
<1>3. \E i \in LayerId : /\ ActiveLayers(layers', k) = {i}
                         /\ rows'[i] = Imported(rows[i], files[k], known)
  <2>1. CASE k \in new
    <3>1. /\ id[k] \in LayerId /\ layers'[id[k]] = NewLayer(k, "active", NULL)
          /\ rows'[id[k]] = Imported(rows[id[k]], files[k], known)
      BY <1>1, <2>1 DEF ImportStep
    <3>2. id[k] \in ActiveLayers(layers', k)
      BY <3>1 DEF NewLayer, ActiveLayers
    <3>3. ASSUME NEW j \in ActiveLayers(layers', k) PROVE j = id[k]
      <4>1. CASE \E l \in new : j = id[l]
        <5>1. PICK l \in new : j = id[l]
          BY <4>1
        <5>2. layers'[j] = NewLayer(l, "active", NULL) /\ layers'[j].key = k
          BY <1>1, <5>1 DEF ImportStep, ActiveLayers
        <5> QED
          BY <5>1, <5>2 DEF NewLayer
      <4>2. CASE ~\E l \in new : j = id[l]
        <5>1. layers'[j] = layers[j] /\ j \in LayerId
          BY <1>1, <4>2 DEF ImportStep, ActiveLayers
        <5>2. j \in Found(k)
          BY <5>1 DEF Found, Used, ActiveLayers
        <5> QED
          BY <2>1, <5>2
      <4> QED
        BY <4>1, <4>2
    <3> QED
      BY <3>1, <3>2, <3>3
  <2>2. CASE k \notin new
    <3>1. PICK i : i \in Receiving(k)
      BY <1>2, <2>2
    <3>2. Found(k) = {i} /\ i \in LayerId /\ i \in Used(layers) /\ layers[i].key = k
      BY <3>1 DEF Receiving, Found, Used
    <3>3. rows'[i] = Imported(rows[i], files[k], known)
      BY <1>1, <3>1 DEF ImportStep
    <3>4. \A j \in Used(layers) : layers'[j] = layers[j]
      <4> SUFFICES ASSUME NEW j \in Used(layers) PROVE layers'[j] = layers[j]
        OBVIOUS
      <4>1. j \in LayerId \ {id[l] : l \in new}
        BY <1>1 DEF ImportStep, Used
      <4>2. \A h \in LayerId \ {id[l] : l \in new} : layers'[h] = layers[h]
        BY <1>1 DEF ImportStep
      <4> QED
        BY <4>1, <4>2
    <3>5. PICK a \in LayerId : a \in ActiveLayers(layers, k)
      BY <3>2 DEF ExchangeInv, HasActive, ActiveLayers
    <3>6. a = i
      BY <3>2, <3>5 DEF Found, ActiveLayers, Used
    <3>7. i \in ActiveLayers(layers', k)
      BY <3>2, <3>4, <3>5, <3>6 DEF ActiveLayers
    <3>8. ASSUME NEW j \in ActiveLayers(layers', k) PROVE j = i
      <4>1. CASE \E l \in new : j = id[l]
        <5>1. PICK l \in new : j = id[l]
          BY <4>1
        <5>2. layers'[j] = NewLayer(l, "active", NULL) /\ layers'[j].key = k
          BY <1>1, <5>1 DEF ImportStep, ActiveLayers
        <5>3. l = k
          BY <5>2 DEF NewLayer
        <5> QED
          BY <2>2, <5>3
      <4>2. CASE ~\E l \in new : j = id[l]
        <5>1. layers'[j] = layers[j] /\ j \in LayerId
          BY <1>1, <4>2 DEF ImportStep, ActiveLayers
        <5>2. j \in Found(k)
          BY <5>1 DEF Found, Used, ActiveLayers
        <5> QED
          BY <3>2, <5>2
      <4> QED
        BY <4>1, <4>2
    <3> QED
      BY <3>2, <3>3, <3>7, <3>8
  <2> QED
    BY <2>1, <2>2
<1>4. PICK i \in LayerId : /\ ActiveLayers(layers', k) = {i}
                           /\ rows'[i] = Imported(rows[i], files[k], known)
  BY <1>3
<1>5. ActiveRows(k)' = Imported(rows[i], files[k], known)
  BY <1>4 DEF ActiveRows
<1>6. DOMAIN schema \subseteq known
  BY DEF ImportFiles, Over
<1>7. TableOK(rows[i], DOMAIN schema) /\ DOMAIN files[k] \subseteq Target
  BY TypesAsTables DEF ExchangeInv, FilesOK
<1> HIDE DEF known
<1>8. \A t \in DOMAIN files[k] : Row(Imported(rows[i], files[k], known), t) = RowOf(t, files[k][t])
  BY <1>2, <1>6, <1>7, ImportedOK
<1> QED
  BY <1>4, <1>5, <1>8

\* An import reports a file or applies it, whatever layers there are.
THEOREM ImportsReported == Spec => ImportReportsOrApplies
<1>1. ExchangeInv /\ [Next]_vars =>
        [imports' # imports =>
           \A k \in Key \ report' :
             /\ ActiveLayers(layers', k) # {}
             /\ \A t \in DOMAIN files[k] : Row(ActiveRows(k)', t) = RowOf(t, files[k][t])]_vars
  <2> SUFFICES ASSUME ExchangeInv, Next, imports' # imports, NEW k \in Key \ report'
               PROVE  /\ ActiveLayers(layers', k) # {}
                      /\ \A t \in DOMAIN files[k] :
                           Row(ActiveRows(k)', t) = RowOf(t, files[k][t])
    OBVIOUS
  <2>1. ImportFiles
    BY DEF Next, ExportFiles, WriteFile, UpdateField, CreateDraft, PromoteDraft, ArchiveDraft
  <2> QED
    BY <2>1, ImportApplies
<1> QED
  BY InitExchange, NextExchange, <1>1, PTL DEF Spec, ImportReportsOrApplies

-----------------------------------------------------------------------------
(* Resolution.                                                             *)

LEMMA FirstOfThree ==
  ASSUME NEW u, NEW v, NEW z
  PROVE  FirstSet(<<u, v, z>>) = IF u # NULL THEN u ELSE IF v # NULL THEN v ELSE z
<1> DEFINE s == <<u, v, z>>
           First(i) == s[i] # NULL /\ \A j \in 1..(i - 1) : s[j] = NULL
<1>1. DOMAIN s = {1, 2, 3} /\ s[1] = u /\ s[2] = v /\ s[3] = z
  OBVIOUS
<1>2. First(1) <=> u # NULL
  BY <1>1
<1>3. First(2) <=> v # NULL /\ u = NULL
  <2>1. 1..(2 - 1) = {1}
    OBVIOUS
  <2> QED
    BY <1>1, <2>1
<1>4. First(3) <=> z # NULL /\ u = NULL /\ v = NULL
  <2>1. 1..(3 - 1) = {1, 2}
    OBVIOUS
  <2> QED
    BY <1>1, <2>1
<1>5. FirstSet(s) = IF \E i \in DOMAIN s : s[i] # NULL
                    THEN s[CHOOSE i \in DOMAIN s : First(i)] ELSE NULL
  BY DEF FirstSet
<1> HIDE DEF First, s
<1>6. CASE u # NULL
  <2>1. (CHOOSE i \in DOMAIN s : First(i)) = 1
    BY <1>1, <1>2, <1>3, <1>4, <1>6
  <2> QED
    BY <1>1, <1>5, <1>6, <2>1 DEF s
<1>7. CASE u = NULL /\ v # NULL
  <2>1. (CHOOSE i \in DOMAIN s : First(i)) = 2
    BY <1>1, <1>2, <1>3, <1>4, <1>7
  <2> QED
    BY <1>1, <1>5, <1>7, <2>1 DEF s
<1>8. CASE u = NULL /\ v = NULL /\ z # NULL
  <2>1. (CHOOSE i \in DOMAIN s : First(i)) = 3
    BY <1>1, <1>2, <1>3, <1>4, <1>8
  <2> QED
    BY <1>1, <1>5, <1>8, <2>1 DEF s
<1>9. CASE u = NULL /\ v = NULL /\ z = NULL
  BY <1>1, <1>5, <1>9 DEF s
<1> QED
  BY <1>6, <1>7, <1>8, <1>9

\* A row sets the columns where it is not NULL.
LEMMA OverlaidColumn ==
  ASSUME NEW base, NEW row, NEW c \in DOMAIN base, c \in DOMAIN row
  PROVE  /\ DOMAIN Overlaid(base, row) = DOMAIN base
         /\ Overlaid(base, row)[c] = IF row[c] # NULL THEN row[c] ELSE base[c]
BY DEF Overlaid

LEMMA SourcedColumns ==
  ASSUME NEW field, NEW source
  PROVE  /\ DOMAIN Sourced(field, source) = DOMAIN field
         /\ \A c \in DOMAIN field \ {"override_source"} : Sourced(field, source)[c] = field[c]
BY DEF Sourced

\* What a layer's rows make of a field's own columns.
MetaColumns == {"default", "required", "hidden", "editability"}

LEMMA AppliedColumn ==
  ASSUME NEW field, NEW f \in Field, NEW table, NEW known, TableOK(table, known), NEW source,
         NEW c \in MetaColumns, MetaColumns \subseteq DOMAIN field
  PROVE  LET new == FieldApplied(field, f, table, source)
             row == Row(table, <<"meta", f>>)
         IN  /\ DOMAIN new = DOMAIN field
             /\ new[c] = IF row[c] # NULL THEN row[c] ELSE field[c]
<1> DEFINE t == <<"meta", f>>
           u == <<"content", f>>
           row == Row(table, t)
           meta == IF t \in DOMAIN table THEN MetaApplied(field, table[t], source) ELSE field
<1>1. c \in Columns(t) /\ c # "merge_mode" /\ c # "override_source"
      /\ c \notin {"options", "presets", "preset_files"}
  BY DEF MetaColumns, Columns
<1>2. DOMAIN meta = DOMAIN field /\ meta[c] = IF row[c] # NULL THEN row[c] ELSE field[c]
  <2>1. CASE t \in DOMAIN table
    <3>1. row = table[t] /\ DOMAIN table[t] = Columns(t)
      BY <2>1 DEF Row, TableOK
    <3> DEFINE over == Overlaid(field, row)
    <3>2. /\ DOMAIN over = DOMAIN field
          /\ over[c] = IF row[c] # NULL THEN row[c] ELSE field[c]
      BY <1>1, <3>1, OverlaidColumn
    <3>3. meta = Sourced(over, source)
      BY <2>1, <3>1 DEF MetaApplied
    <3> HIDE DEF over, meta, row
    <3> QED
      BY <1>1, <3>2, <3>3, SourcedColumns
  <2>2. CASE t \notin DOMAIN table
    <3>1. row[c] = NULL
      BY <1>1, <2>2 DEF Row, EmptyRow
    <3> QED
      BY <2>2, <3>1
  <2> QED
    BY <2>1, <2>2
<1>3. FieldApplied(field, f, table, source)
        = IF u \in DOMAIN table THEN ContentApplied(meta, table[u], source) ELSE meta
  BY DEF FieldApplied
<1> HIDE DEF meta, row
<1>4. /\ DOMAIN ContentApplied(meta, table[u], source) = DOMAIN meta
      /\ ContentApplied(meta, table[u], source)[c] = meta[c]
  <2> DEFINE with == [meta EXCEPT !.options = Options(@, table[u]),
                                  !.presets = Presets(@, table[u]),
                                  !.preset_files = Files(@, table[u])]
  <2>1. DOMAIN with = DOMAIN meta /\ with[c] = meta[c]
    BY <1>1, <1>2
  <2>2. ContentApplied(meta, table[u], source) = Sourced(with, source)
    BY DEF ContentApplied
  <2> HIDE DEF with
  <2> QED
    BY <1>1, <1>2, <2>1, <2>2, SourcedColumns
<1> QED
  BY <1>2, <1>3, <1>4 DEF row

LEMMA Least ==
  ASSUME NEW T, T \subseteq Nat, T # {}
  PROVE  \E n \in T : \A m \in T : n <= m
<1> DEFINE R == {p \in Nat \X Nat : p[1] < p[2]}
<1>1. PICK n \in T : \A m \in T : ~(<<m, n>> \in R)
  <2>1. IsWellFoundedOn(R, Nat)
    BY NatLessThanWellFounded DEF OpToRel
  <2> HIDE DEF R
  <2> QED
    BY <2>1, WFMin
<1>2. ASSUME NEW m \in T PROVE n <= m
  <2>1. <<m, n>> \in Nat \X Nat /\ <<m, n>>[1] = m /\ <<m, n>>[2] = n
    BY T \subseteq Nat
  <2>2. ~(m < n)
    BY <1>1, <2>1
  <2> QED
    BY <2>2, T \subseteq Nat
<1> QED
  BY <1>2

\* Of finitely many fields with a key one is last, so a field finds one of its namesakes.
LEMMA FoundIsNamesake ==
  ASSUME NEW fields, fields \subseteq Field, NEW f \in fields
  PROVE  FoundByKey(f, fields) \in Namesakes(f, fields)
<1> DEFINE N == Namesakes(f, fields)
           last == Cardinality(Field)
           T == {last - PositionOf[g] : g \in N}
<1>1. f \in N /\ N \subseteq Field
  BY DEF Namesakes
<1>2. last \in Nat
  BY ResolutionAssumption, FS_CardinalityType
<1> HIDE DEF N, last
<1>3. ASSUME NEW g \in N PROVE PositionOf[g] \in 0..last
  BY <1>1, ResolutionAssumption DEF last
<1>4. T \subseteq Nat /\ T # {}
  BY <1>1, <1>2, <1>3
<1>5. PICK n \in T : \A m \in T : n <= m
  BY <1>4, Least
<1>6. PICK g \in N : n = last - PositionOf[g]
  BY <1>5
<1>7. ASSUME NEW h \in N PROVE PositionOf[h] <= PositionOf[g]
  <2>1. last - PositionOf[g] <= last - PositionOf[h]
    BY <1>5, <1>6
  <2> QED
    BY <1>2, <1>3, <2>1
<1> QED
  BY <1>6, <1>7 DEF FoundByKey, N

\* What is found in the schema for one of its fields.
LEMMA FoundInSchema ==
  ASSUME SchemaOK(schema), NEW x \in DOMAIN schema, x \notin Step
  PROVE  /\ FoundByKey(x, DOMAIN schema \ Step) \in SameKey(x)
         /\ SameKey(x) \subseteq Field
<1> DEFINE fields == DOMAIN schema \ Step
<1>1. fields \subseteq Field /\ x \in fields
  BY DEF SchemaOK, SchemaFile
<1>2. SameKey(x) = Namesakes(x, fields)
  BY DEF SameKey, Namesakes
<1> HIDE DEF fields
<1>3. FoundByKey(x, fields) \in Namesakes(x, fields)
  BY <1>1, FoundIsNamesake
<1> QED
  BY <1>1, <1>2, <1>3 DEF Namesakes, fields

LEMMA SerialisedColumns ==
  ASSUME NEW field
  PROVE  /\ DOMAIN Serialised(field) = DOMAIN field \cup {"lock_reason", "override_source"}
         /\ \A c \in DOMAIN field : Serialised(field)[c] = field[c]
BY DEF Serialised, Over

LEMMA Layered == ExchangeTypeOK => ResolvedAsLayered
<1> SUFFICES ASSUME ExchangeTypeOK, NEW p \in Pairs, NEW x \in DOMAIN schema
             PROVE  \E g \in SameKey(x) : \A c \in Columns(RowFor(x)) \cap DOMAIN schema[x] :
                      Config(p[1], p[2])[x][c] = InOrder(p, x, c, g)
  BY DEF ResolvedAsLayered
<1> DEFINE tool == ActiveRows(p[1])
           lang == ActiveRows(p[2])
           known == DOMAIN schema
<1>1. TableOK(tool, known) /\ TableOK(lang, known)
  BY ActiveRowsOK
<1>2. x \in Step \cup Field /\ DOMAIN schema[x] = SchemaColumnsOf(x) /\ SchemaOK(schema)
  BY TypesAsTables DEF SchemaOK, SchemaFile
<1>3. ASSUME NEW c \in DOMAIN schema[x], NEW g
      PROVE  InOrder(p, x, c, g)
               = IF Row(lang, RowFor(g))[c] # NULL THEN Row(lang, RowFor(g))[c]
                 ELSE IF Row(tool, RowFor(x))[c] # NULL THEN Row(tool, RowFor(x))[c]
                 ELSE schema[x][c]
  BY FirstOfThree DEF InOrder
<1> HIDE DEF tool, lang, known
<1>4. CASE x \in Step
  <2> DEFINE t == <<"step", x>>
             first == Overlaid(schema[x], Row(tool, t))
  <2>1. SameKey(x) = {x} /\ RowFor(x) = t
    BY <1>4 DEF SameKey, RowFor
  <2>2. DOMAIN Row(tool, t) = Columns(t) /\ DOMAIN Row(lang, t) = Columns(t)
    BY <1>1 DEF Row, EmptyRow, TableOK
  <2>3. Config(p[1], p[2])[x] = Overlaid(first, Row(lang, t))
    BY <1>4 DEF Config, Resolved, ResolvedStep, tool, lang
  <2> HIDE DEF t
  <2>4. ASSUME NEW c \in Columns(t) \cap DOMAIN schema[x]
        PROVE  Config(p[1], p[2])[x][c] = InOrder(p, x, c, x)
    <3>1. /\ DOMAIN first = DOMAIN schema[x]
          /\ first[c] = IF Row(tool, t)[c] # NULL THEN Row(tool, t)[c] ELSE schema[x][c]
      BY <2>2, OverlaidColumn
    <3> HIDE DEF first
    <3>2. Config(p[1], p[2])[x][c]
            = IF Row(lang, t)[c] # NULL THEN Row(lang, t)[c] ELSE first[c]
      BY <2>2, <2>3, <3>1, OverlaidColumn
    <3> QED
      BY <1>3, <2>1, <3>1, <3>2
  <2> QED
    BY <2>1, <2>4
<1>5. CASE x \notin Step
  <2> DEFINE g == FoundByKey(x, DOMAIN schema \ Step)
             t == <<"meta", x>>
             u == <<"meta", g>>
             sent == Serialised(schema[x])
             first == FieldApplied(sent, x, tool, p[1])
  <2>1. x \in Field /\ DOMAIN schema[x] = SchemaColumns /\ Step \cap Field = {}
    BY <1>2, <1>5, ResolutionAssumption DEF SchemaColumnsOf
  <2>2. g \in SameKey(x) /\ g \in Field
    BY <1>2, <1>5, FoundInSchema
  <2>3. Config(p[1], p[2])[x] = FieldApplied(first, g, lang, p[2])
    BY <1>5 DEF Config, Resolved, ResolvedField, tool, lang
  <2> HIDE DEF g
  <2>4. RowFor(x) = t /\ RowFor(g) = u
    BY <2>1, <2>2 DEF RowFor
  <2>5. ASSUME NEW c \in Columns(t) \cap DOMAIN schema[x]
        PROVE  Config(p[1], p[2])[x][c] = InOrder(p, x, c, g)
    <3>1. c \in MetaColumns /\ MetaColumns \subseteq SchemaColumns
      BY <2>1 DEF Columns, SchemaColumns, MetaColumns
    <3>2. MetaColumns \subseteq DOMAIN sent /\ sent[c] = schema[x][c]
      BY <2>1, <3>1, SerialisedColumns
    <3> HIDE DEF sent
    <3>3. /\ DOMAIN first = DOMAIN sent
          /\ first[c] = IF Row(tool, t)[c] # NULL THEN Row(tool, t)[c] ELSE sent[c]
      BY <1>1, <2>1, <3>1, <3>2, AppliedColumn
    <3> HIDE DEF first
    <3>4. Config(p[1], p[2])[x][c]
            = IF Row(lang, u)[c] # NULL THEN Row(lang, u)[c] ELSE first[c]
      BY <1>1, <2>2, <2>3, <3>1, <3>2, <3>3, AppliedColumn
    <3> HIDE DEF t, u
    <3> QED
      BY <1>3, <2>4, <3>2, <3>3, <3>4
  <2> QED
    BY <2>2, <2>4, <2>5
<1> QED
  BY <1>4, <1>5

\* In every state, the language's value wins over the tool's, and that over the schema's,
\* the language's being that of the field or of one namesake of it in its step.
THEOREM ResolvesLayered == Spec => []ResolvedAsLayered
BY ExchangeTypes, Layered, PTL

-----------------------------------------------------------------------------
(* There and back.                                                         *)

\* Attributes of steps and fields that are the same, but for those in lost.
Alike(lost, f, g) ==
  /\ DOMAIN f = DOMAIN g
  /\ \A c \in DOMAIN f \ lost : Same(c, f[c], g[c])

SameRow(r, s) == DOMAIN r = DOMAIN s /\ \A c \in DOMAIN s : r[c] = s[c]

\* What the export does not write of the schema is what the import assumes, but for
\* the columns that it never writes.
LEMMA SchemaRestored ==
  ASSUME SchemaOK(schema), NEW x \in DOMAIN schema
  PROVE  Alike(LostInExport(x), RestoredSchema[x], schema[x])
<1> DEFINE old == schema[x]
           written == [c \in {d \in DOMAIN old : SchemaWritten(d, old[d])} |-> old[c]]
           new == SchemaRow(x, written)
           never == {"editability", "locked_value", "validation"}
<1>1. RestoredSchema[x] = new
  BY DEF RestoredSchema, ExportedSchema
<1>2. /\ DOMAIN old = SchemaColumnsOf(x)
      /\ \A c \in SchemaColumnsOf(x) \cap {"hidden", "required"} : old[c] \in BOOLEAN
      /\ LostInExport(x) = {c \in SchemaColumnsOf(x) \cap never : old[c] # SchemaDefault(c)}
  BY DEF SchemaOK, SchemaFile, LostInExport
<1> HIDE DEF old
<1>3. /\ DOMAIN new = SchemaColumnsOf(x)
      /\ \A c \in SchemaColumnsOf(x) :
           new[c] = IF SchemaWritten(c, old[c]) THEN old[c] ELSE SchemaDefault(c)
  BY <1>2 DEF SchemaRow, Over
<1> HIDE DEF new
<1>4. ASSUME NEW c \in SchemaColumnsOf(x) \ LostInExport(x), ~SchemaWritten(c, old[c])
      PROVE  Same(c, SchemaDefault(c), old[c])
  <2>1. c \in {"hidden", "title"} \cup SchemaColumns
    BY DEF SchemaColumnsOf
  <2>2. CASE c \in {"hidden", "required"}
    BY <1>2, <1>4, <2>2 DEF SchemaWritten, SchemaDefault, Same
  <2>3. CASE c = "title"
    BY <1>4, <2>3 DEF SchemaWritten, SchemaDefault, Same
  <2>4. CASE c = "default"
    BY <1>4, <2>4 DEF SchemaWritten, SchemaDefault, Same
  <2>5. CASE c \in {"options", "presets", "preset_files"}
    BY <1>4, <2>5 DEF SchemaWritten, SchemaDefault, Same, Listed
  <2>6. CASE c = "description"
    BY <1>4, <2>6 DEF SchemaWritten, SchemaDefault, Same
  <2>7. CASE c \in never
    BY <1>2, <2>7 DEF Same
  <2> QED
    BY <2>1, <2>2, <2>3, <2>4, <2>5, <2>6, <2>7 DEF SchemaColumns
<1>5. \A c, v : Same(c, v, v)
  BY DEF Same
<1> QED
  BY <1>1, <1>2, <1>3, <1>4, <1>5 DEF Alike, old

\* What the export does not write of a row is what the import assumes, but for the
\* columns it reads under another name.
LEMMA RowRestored ==
  ASSUME NEW table, TableOK(table, DOMAIN schema), NEW x, Exchangeable(table, x)
  PROVE  \A t \in Target : t[2] = x =>
           /\ t \in DOMAIN Restored(table) <=> t \in DOMAIN table
           /\ t \in DOMAIN table => /\ DOMAIN Restored(table)[t] = Columns(t)
                                    /\ SameRow(Restored(table)[t], table[t])
<1> SUFFICES ASSUME NEW t \in Target, t[2] = x
             PROVE  /\ t \in DOMAIN Restored(table) <=> t \in DOMAIN table
                    /\ t \in DOMAIN table => /\ DOMAIN Restored(table)[t] = Columns(t)
                                             /\ SameRow(Restored(table)[t], table[t])
  OBVIOUS
<1>1. DOMAIN NoRows = {} /\ DOMAIN Exported(table) = DOMAIN table
  BY DEF NoRows, Exported
<1>2. /\ DOMAIN Restored(table) = DOMAIN table
      /\ \A u \in DOMAIN table : Restored(table)[u] = RowOf(u, Exported(table)[u])
  BY <1>1 DEF Restored, Imported, Over, TableOK
<1>3. ASSUME t \in DOMAIN table, NEW c \in Columns(t)
      PROVE  RowOf(t, Exported(table)[t])[c] = table[t][c]
  <2> DEFINE row == table[t]
             entry == [d \in {b \in Columns(t) : Written(b, row[b])} |-> row[d]]
  <2>1. Exported(table)[t] = entry
    BY <1>3 DEF Exported
  <2>2. RowOf(t, Exported(table)[t])[c]
          = IF ReadAs(c) \in DOMAIN entry THEN entry[ReadAs(c)] ELSE EmptyRow(t)[c]
    BY <2>1 DEF RowOf
  <2>3. row[c] # Blank
    BY <1>3 DEF Exchangeable
  <2>4. CASE c \in {"replace_options_with", "replace_presets_with", "preset_files_to_add"}
    <3>1. t[1] = "content" /\ x \in Field /\ t = <<"content", x>>
      BY <2>4 DEF Columns, Target
    <3>2. ReadAs(c) \notin Columns(t) /\ EmptyRow(t)[c] = NULL
      BY <2>4, <3>1 DEF ReadAs, Columns, EmptyRow
    <3>3. row[c] = NULL
      BY <1>3, <2>4, <3>1 DEF Exchangeable, Row
    <3> QED
      BY <2>2, <3>2, <3>3
  <2>5. CASE c \notin {"replace_options_with", "replace_presets_with", "preset_files_to_add"}
    <3>1. ReadAs(c) = c
      BY <2>5 DEF ReadAs
    <3>2. RowOf(t, Exported(table)[t])[c]
            = IF Written(c, row[c]) THEN row[c] ELSE EmptyRow(t)[c]
      BY <2>2, <3>1
    <3> HIDE DEF entry, row
    <3>3. ASSUME ~Written(c, row[c]) PROVE row[c] = EmptyRow(t)[c]
      <4>1. EmptyRow(t)[c] = IF c = "merge_mode" THEN "append" ELSE NULL
        BY DEF EmptyRow
      <4>2. CASE c = "merge_mode"
        BY <3>3, <4>1, <4>2 DEF Written
      <4>3. CASE c \in {"title", "editability", "lock_reason"}
        BY <2>3, <3>3, <4>1, <4>3 DEF Written
      <4>4. CASE c \in {"merge_options", "merge_presets"}
        <5>1. t[1] = "content" /\ x \in Field /\ t = <<"content", x>>
          BY <4>4 DEF Columns, Target
        <5>2. row[c] # <<>>
          BY <1>3, <4>4, <5>1 DEF Exchangeable, Row, row
        <5> QED
          BY <3>3, <4>1, <4>4, <5>2 DEF Written
      <4>5. CASE c \notin {"merge_mode", "title", "editability", "lock_reason",
                           "merge_options", "merge_presets"}
        BY <2>5, <3>3, <4>1, <4>5 DEF Written
      <4> QED
        BY <4>2, <4>3, <4>4, <4>5
    <3> QED
      BY <3>2, <3>3 DEF row
  <2> QED
    BY <2>4, <2>5
<1>4. \A u, entry : DOMAIN RowOf(u, entry) = Columns(u)
  BY DEF RowOf
<1> QED
  BY <1>2, <1>3, <1>4 DEF SameRow, TableOK

LEMMA OverlaidAlike ==
  ASSUME NEW lost, NEW f, NEW g, Alike(lost, f, g), NEW r, NEW s, SameRow(r, s)
  PROVE  Alike(lost, Overlaid(f, r), Overlaid(g, s))
<1>1. \A c, v : Same(c, v, v)
  BY DEF Same
<1> QED
  BY <1>1 DEF Alike, Overlaid, SameRow

LEMMA SourcedAlike ==
  ASSUME NEW lost, lost \subseteq SchemaColumns, NEW f, NEW g, Alike(lost, f, g), NEW source
  PROVE  Alike(lost, Sourced(f, source), Sourced(g, source))
<1>1. /\ DOMAIN Sourced(f, source) = DOMAIN f
      /\ \A c \in DOMAIN f :
           Sourced(f, source)[c]
             = IF c = "override_source" /\ f[c] = NULL THEN source ELSE f[c]
  BY DEF Sourced
<1>2. /\ DOMAIN Sourced(g, source) = DOMAIN g
      /\ \A c \in DOMAIN g :
           Sourced(g, source)[c]
             = IF c = "override_source" /\ g[c] = NULL THEN source ELSE g[c]
  BY DEF Sourced
<1>3. "override_source" \in DOMAIN f => f["override_source"] = g["override_source"]
  BY DEF Alike, Same, SchemaColumns
<1> QED
  BY <1>1, <1>2, <1>3 DEF Alike, Same

LEMMA ContentAlike ==
  ASSUME NEW lost, lost \subseteq SchemaColumns, NEW f, NEW g, Alike(lost, f, g),
         NEW r, NEW s, SameRow(r, s), NEW source,
         DOMAIN s = Columns(<<"content", source>>),
         \A c \in {"replace_options_with", "replace_presets_with", "preset_files_to_add"} :
           s[c] = NULL
  PROVE  \A from : Alike(lost, ContentApplied(f, r, from), ContentApplied(g, s, from))
<1> SUFFICES ASSUME NEW from
             PROVE  Alike(lost, ContentApplied(f, r, from), ContentApplied(g, s, from))
  OBVIOUS
<1> DEFINE with(h, row) == [h EXCEPT !.options = Options(@, row), !.presets = Presets(@, row),
                                     !.preset_files = Files(@, row)]
<1>1. DOMAIN s = {"replace_options_with", "merge_options", "replace_presets_with",
                  "merge_presets", "preset_files_to_add", "merge_mode"}
  BY DEF Columns
<1>2. /\ r.replace_options_with = NULL /\ r.replace_presets_with = NULL
      /\ r.preset_files_to_add = NULL
      /\ s.replace_options_with = NULL /\ s.replace_presets_with = NULL
      /\ s.preset_files_to_add = NULL
      /\ r.merge_options = s.merge_options /\ r.merge_presets = s.merge_presets
      /\ r.merge_mode = s.merge_mode
  BY <1>1 DEF SameRow
<1>3. ASSUME NEW v, NEW u, Listed(v) = Listed(u)
      PROVE  /\ Listed(Options(v, r)) = Listed(Options(u, s))
             /\ Listed(Presets(v, r)) = Listed(Presets(u, s))
             /\ Listed(Files(v, r)) = Listed(Files(u, s))
  BY <1>2, <1>3 DEF Options, Presets, Files
<1>4. ASSUME NEW h, NEW row
      PROVE  /\ DOMAIN with(h, row) = DOMAIN h
             /\ \A c \in DOMAIN h :
                  with(h, row)[c] = CASE c = "options" -> Options(h[c], row)
                                      [] c = "presets" -> Presets(h[c], row)
                                      [] c = "preset_files" -> Files(h[c], row)
                                      [] OTHER -> h[c]
  OBVIOUS
<1> HIDE DEF with
<1>5. Alike(lost, with(f, r), with(g, s))
  <2>1. DOMAIN with(f, r) = DOMAIN with(g, s) /\ DOMAIN with(f, r) = DOMAIN f
        /\ DOMAIN f = DOMAIN g
    BY <1>4 DEF Alike
  <2>2. ASSUME NEW c \in DOMAIN f \ lost
        PROVE  Same(c, with(f, r)[c], with(g, s)[c])
    <3>1. Same(c, f[c], g[c])
      BY DEF Alike
    <3>2. CASE c = "options"
      BY <1>3, <1>4, <2>1, <3>1, <3>2 DEF Same
    <3>3. CASE c = "presets"
      BY <1>3, <1>4, <2>1, <3>1, <3>3 DEF Same
    <3>4. CASE c = "preset_files"
      BY <1>3, <1>4, <2>1, <3>1, <3>4 DEF Same
    <3>5. CASE c \notin {"options", "presets", "preset_files"}
      <4>1. with(f, r)[c] = f[c] /\ with(g, s)[c] = g[c]
        BY <1>4, <2>1, <3>5
      <4> QED
        BY <3>1, <4>1
    <3> QED
      BY <3>2, <3>3, <3>4, <3>5
  <2> QED
    BY <2>1, <2>2 DEF Alike
<1>6. /\ ContentApplied(f, r, from) = Sourced(with(f, r), from)
      /\ ContentApplied(g, s, from) = Sourced(with(g, s), from)
  BY DEF ContentApplied, with
<1> QED
  BY <1>5, <1>6, SourcedAlike

LEMMA AppliedAlike ==
  ASSUME NEW lost, lost \subseteq SchemaColumns,
         NEW f \in Field, NEW g, NEW h, Alike(lost, g, h),
         NEW table, TableOK(table, DOMAIN schema), Exchangeable(table, f), NEW source
  PROVE  Alike(lost, FieldApplied(g, f, Restored(table), source), FieldApplied(h, f, table, source))
<1> DEFINE t == <<"meta", f>>
           u == <<"content", f>>
           back == Restored(table)
           metaG == IF t \in DOMAIN back THEN MetaApplied(g, back[t], source) ELSE g
           metaH == IF t \in DOMAIN table THEN MetaApplied(h, table[t], source) ELSE h
<1>1. t \in Target /\ t[2] = f /\ u \in Target /\ u[2] = f
  BY DEF Target
<1>2. /\ t \in DOMAIN back <=> t \in DOMAIN table
      /\ u \in DOMAIN back <=> u \in DOMAIN table
      /\ t \in DOMAIN table => SameRow(back[t], table[t])
      /\ u \in DOMAIN table => SameRow(back[u], table[u])
  BY <1>1, RowRestored
<1> HIDE DEF back
<1>3. Alike(lost, metaG, metaH)
  <2>1. CASE t \in DOMAIN table
    <3>1. metaG = Sourced(Overlaid(g, back[t]), source) /\ metaH = Sourced(Overlaid(h, table[t]), source)
      BY <1>2, <2>1 DEF MetaApplied
    <3>2. Alike(lost, Overlaid(g, back[t]), Overlaid(h, table[t]))
      BY <1>2, <2>1, OverlaidAlike
    <3> QED
      BY <3>1, <3>2, SourcedAlike
  <2>2. CASE t \notin DOMAIN table
    BY <1>2, <2>2
  <2> QED
    BY <2>1, <2>2
<1>4. FieldApplied(g, f, back, source)
        = IF u \in DOMAIN back THEN ContentApplied(metaG, back[u], source) ELSE metaG
  BY DEF FieldApplied
<1>5. FieldApplied(h, f, table, source)
        = IF u \in DOMAIN table THEN ContentApplied(metaH, table[u], source) ELSE metaH
  BY DEF FieldApplied
<1> HIDE DEF metaG, metaH, t
<1>6. CASE u \in DOMAIN table
  <2>1. /\ DOMAIN table[u] = Columns(<<"content", f>>)
        /\ \A c \in {"replace_options_with", "replace_presets_with", "preset_files_to_add"} :
             table[u][c] = NULL
    BY <1>6 DEF TableOK, Exchangeable, Row
  <2> HIDE DEF u
  <2>2. Alike(lost, ContentApplied(metaG, back[u], source), ContentApplied(metaH, table[u], source))
    BY <1>2, <1>3, <1>6, <2>1, ContentAlike
  <2> QED
    BY <1>2, <1>4, <1>5, <1>6, <2>2 DEF back
<1>7. CASE u \notin DOMAIN table
  BY <1>2, <1>3, <1>4, <1>5, <1>7 DEF back
<1> QED
  BY <1>6, <1>7

LEMMA SerialisedAlike ==
  ASSUME NEW lost, NEW f, NEW g, Alike(lost, f, g)
  PROVE  Alike(lost, Serialised(f), Serialised(g))
<1> DEFINE more == {"lock_reason", "override_source"}
<1>1. \A c, v : Same(c, v, v)
  BY DEF Same
<1>2. \A h : /\ DOMAIN Serialised(h) = DOMAIN h \cup more
             /\ \A c \in DOMAIN h \cup more :
                  Serialised(h)[c] = IF c \in DOMAIN h THEN h[c] ELSE NULL
  BY DEF Serialised, Over
<1> QED
  BY <1>1, <1>2 DEF Alike

LEMMA Survives == ExchangeTypeOK => ConfigSurvivesExchange
<1> SUFFICES ASSUME ExchangeTypeOK, NEW p \in Pairs, NEW x \in DOMAIN schema,
                    SameKey(x) = {x},
                    Exchangeable(ActiveRows(p[1]), x), Exchangeable(ActiveRows(p[2]), x)
             PROVE  Alike(LostInExport(x), RestoredConfig(p[1], p[2])[x], Config(p[1], p[2])[x])
  BY DEF ConfigSurvivesExchange, Alike
<1> DEFINE tool == ActiveRows(p[1])
           lang == ActiveRows(p[2])
           lost == LostInExport(x)
<1>1. TableOK(tool, DOMAIN schema) /\ TableOK(lang, DOMAIN schema)
  BY ActiveRowsOK
<1>2. x \in Step \cup Field /\ Alike(lost, RestoredSchema[x], schema[x])
  BY SchemaRestored, TypesAsTables DEF SchemaOK, SchemaFile
<1>3. DOMAIN RestoredSchema = DOMAIN schema /\ lost \subseteq SchemaColumns
  BY DEF RestoredSchema, LostInExport, SchemaColumns
<1> HIDE DEF tool, lang, lost
<1>4. CASE x \in Step
  <2> DEFINE t == <<"step", x>>
             R(table) == Row(table, t)
  <2>1. t \in Target /\ t[2] = x
    BY <1>4 DEF Target
  <2>2. SameRow(R(Restored(tool)), R(tool)) /\ SameRow(R(Restored(lang)), R(lang))
    <3>1. ASSUME NEW table, TableOK(table, DOMAIN schema), Exchangeable(table, x)
          PROVE  SameRow(Row(Restored(table), t), Row(table, t))
      BY <2>1, <3>1, RowRestored DEF Row, SameRow
    <3> QED
      BY <1>1, <3>1 DEF tool, lang
  <2>3. /\ RestoredConfig(p[1], p[2])[x]
             = Overlaid(Overlaid(RestoredSchema[x], R(Restored(tool))), R(Restored(lang)))
        /\ Config(p[1], p[2])[x] = Overlaid(Overlaid(schema[x], R(tool)), R(lang))
    BY <1>3, <1>4 DEF RestoredConfig, Config, Resolved, ResolvedStep, tool, lang
  <2> HIDE DEF R
  <2>4. Alike(lost, Overlaid(RestoredSchema[x], R(Restored(tool))), Overlaid(schema[x], R(tool)))
    BY <1>2, <2>2, OverlaidAlike
  <2> QED
    BY <2>2, <2>3, <2>4, OverlaidAlike DEF lost
<1>5. CASE x \notin Step
  <2>1. x \in Field /\ FoundByKey(x, DOMAIN schema \ Step) = x
    BY <1>2, <1>5, FoundInSchema, TypesAsTables
  <2> DEFINE Tooled(s, table) == FieldApplied(Serialised(s[x]), x, table, p[1])
  <2>2. /\ RestoredConfig(p[1], p[2])[x]
             = FieldApplied(Tooled(RestoredSchema, Restored(tool)), x, Restored(lang), p[2])
        /\ Config(p[1], p[2])[x] = FieldApplied(Tooled(schema, tool), x, lang, p[2])
    BY <1>3, <1>5, <2>1 DEF RestoredConfig, Config, Resolved, ResolvedField, tool, lang
  <2>3. Alike(lost, Serialised(RestoredSchema[x]), Serialised(schema[x]))
    BY <1>2, SerialisedAlike
  <2>4. Alike(lost, Tooled(RestoredSchema, Restored(tool)), Tooled(schema, tool))
    BY <1>1, <1>3, <2>1, <2>3, AppliedAlike DEF tool
  <2> HIDE DEF Tooled
  <2> QED
    BY <1>1, <1>3, <2>1, <2>2, <2>4, AppliedAlike DEF lang, lost
<1> QED
  BY <1>4, <1>5

\* In every state, what is exported and imported into an empty database resolves to the
\* same configuration, up to what ConfigSurvivesExchange excepts.
THEOREM ExchangeSurvived == Spec => []ConfigSurvivesExchange
BY ExchangeTypes, Survives, PTL
=============================================================================
