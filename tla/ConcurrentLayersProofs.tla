----------------------- MODULE ConcurrentLayersProofs -----------------------
(***************************************************************************)
(* Proofs about overlapping requests, for any number of workers.           *)
(***************************************************************************)
EXTENDS ConcurrentLayers, LayerOpsProofs

-----------------------------------------------------------------------------
(* The inductive invariant: what a transaction read is a past of the       *)
(* committed tables, and as long as no version of a key has been committed  *)
(* since, the overrides of its layers are still the ones read.             *)

Numbers(h) == VersionNumbers(versions, h)
Seen(w, h) == VersionNumbers(snap[w].versions, h)

RowsKept(w) ==
  /\ snap[w].versions \subseteq versions
  /\ snap[w].languages \subseteq languages
  /\ \A i \in Used(snap[w].layers) :
       i \in Used(layers) /\ layers[i].key = snap[w].layers[i].key

Unedited(w) ==
  \A i \in Used(snap[w].layers) :
    Numbers(EditHistory(layers[i].key)) = Seen(w, EditHistory(layers[i].key))
      => overrides[i] = snap[w].overrides[i]

Blank(ls) == \A i \in LayerId \ Used(ls) : ls[i] = Unused

KeysKnown == \A i \in Used(layers) : layers[i].key \in Tool \cup Combo \cup languages

CInv ==
  /\ TypeOK
  /\ VersionsContiguous
  /\ KeysKnown /\ Blank(layers)
  /\ \A w \in Worker : Running(w) =>
       /\ Blank(snap[w].layers)
       /\ Gapless(snap[w].versions, MaxVersion)
       /\ RowsKept(w)
       /\ Unedited(w)

LEMMA SubsetNumbers ==
  ASSUME NEW vs, NEW ws, vs \subseteq ws, NEW h
  PROVE  VersionNumbers(vs, h) \subseteq VersionNumbers(ws, h)
BY DEF VersionNumbers

THEOREM InitCInv == Init => CInv
<1> SUFFICES ASSUME Init PROVE CInv
  OBVIOUS
<1>1. NoOverrides \in [Field -> FieldOverride]
  BY DEF NoOverrides, FieldOverride
<1>2. /\ Unused \in LayerRow
      /\ \A k \in Key : NewLayer(k, "active", NULL) \in LayerRow
  BY DEF Unused, NewLayer, LayerRow, Status
<1>3. TypeOK
  BY <1>1, <1>2, ImportAssumption DEF Init, TypeOK, Key
<1>4. VersionsContiguous
  <2>1. \A h \in History : VersionNumbers(versions, h) = 1..0
    BY DEF Init, VersionNumbers
  <2>2. 0 \in 0..MaxVersion
    BY BoundAssumption
  <2>3. QED
    BY <2>1, <2>2 DEF Init, VersionsContiguous, Gapless
<1>5. \A w \in Worker : ~Running(w)
  BY DEF Init, Running
<1>6. KeysKnown
  BY DEF Init, KeysKnown, ActiveLayers, Used, Unused, NewLayer, Key
<1>7. Blank(layers)
  BY DEF Init, Blank, Used, NewLayer
<1>8. QED
  BY <1>3, <1>4, <1>5, <1>6, <1>7 DEF CInv

-----------------------------------------------------------------------------
(* What every commit has in common.                                        *)

Commit(w) ==
  /\ snap' = [snap EXCEPT ![w] = NULL]
  /\ TypeOK'
  /\ VersionsContiguous'
  /\ KeysKnown' /\ Blank(layers)'
  /\ versions \subseteq versions'
  /\ languages \subseteq languages'
  /\ \A i \in Used(layers) : i \in Used(layers)' /\ layers'[i].key = layers[i].key
  /\ \A i \in Used(layers) : overrides'[i] # overrides[i] =>
       /\ overrides[i] = snap[w].overrides[i]
       /\ VersionNumbers(versions', EditHistory(layers[i].key))
            # VersionNumbers(versions, EditHistory(layers[i].key))

LEMMA CommitKeeps ==
  ASSUME CInv, NEW w \in Worker, Running(w), Commit(w)
  PROVE  CInv'
<1> SUFFICES ASSUME NEW x \in Worker, Running(x)'
             PROVE  /\ Blank(snap'[x].layers)
                    /\ Gapless(snap'[x].versions, MaxVersion)
                    /\ RowsKept(x)' /\ Unedited(x)'
  BY DEF CInv, Commit, Running
<1>1. x # w /\ snap'[x] = snap[x] /\ Running(x)
  BY DEF Commit, Running, CInv, TypeOK
<1>2. /\ Blank(snap[x].layers) /\ Gapless(snap[x].versions, MaxVersion)
      /\ RowsKept(x) /\ Unedited(x)
  BY <1>1 DEF CInv
<1>3. RowsKept(x)'
  BY <1>1, <1>2 DEF RowsKept, Commit
<1>4. ASSUME NEW i \in Used(snap[x].layers), NEW h,
             h = EditHistory(layers[i].key),
             VersionNumbers(versions', h) = VersionNumbers(snap[x].versions, h)
      PROVE  overrides'[i] = snap[x].overrides[i]
  <2>1. i \in Used(layers)
    BY <1>2 DEF RowsKept
  <2>2. /\ VersionNumbers(snap[x].versions, h) \subseteq VersionNumbers(versions, h)
        /\ VersionNumbers(versions, h) \subseteq VersionNumbers(versions', h)
    BY <1>2, SubsetNumbers DEF RowsKept, Commit
  <2>3. VersionNumbers(versions', h) = VersionNumbers(versions, h)
    BY <1>4, <2>2
  <2>4. overrides'[i] = overrides[i]
    BY <1>4, <2>1, <2>3 DEF Commit
  <2>5. QED
    BY <1>2, <1>4, <2>3, <2>4 DEF Unedited, Numbers, Seen
<1>5. Unedited(x)'
  <2> SUFFICES ASSUME NEW i \in Used(snap'[x].layers),
                      VersionNumbers(versions', EditHistory(layers'[i].key))
                        = VersionNumbers(snap'[x].versions, EditHistory(layers'[i].key))
               PROVE  overrides'[i] = snap'[x].overrides[i]
    BY DEF Unedited, Numbers, Seen
  <2>1. i \in Used(layers) /\ layers'[i].key = layers[i].key
    BY <1>1, <1>2 DEF RowsKept, Commit
  <2>2. QED
    BY <1>1, <1>4, <2>1
<1>6. QED
  BY <1>1, <1>2, <1>3, <1>5

\* A committed version is the next one of its history, and the transaction had
\* read the history to its end: the unique constraint is an optimistic lock.
LEMMA RecordedSerial ==
  ASSUME CInv, NEW w \in Worker, Running(w), NEW h \in History, NEW data \in VersionData,
         Recorded(w, h, data)
  PROVE  /\ versions' \in SUBSET VersionRow /\ versions \subseteq versions'
         /\ VersionsContiguous'
         /\ Numbers(h) = Seen(w, h)
         /\ VersionNumbers(versions', h) # Numbers(h)
<1>1. PICK m \in 0..MaxVersion : Seen(w, h) = 1..m
  BY DEF CInv, Gapless, Seen
<1>2. PICK n \in 0..MaxVersion : Numbers(h) = 1..n
  BY DEF CInv, VersionsContiguous, Gapless, Numbers
<1>3. Seen(w, h) \subseteq Numbers(h)
  BY SubsetNumbers DEF CInv, RowsKept, Seen, Numbers
<1>4. m \in Nat /\ n \in Nat
  BY BoundAssumption
<1>5. NextVersionNumber(snap[w].versions, h) = m + 1
  BY <1>1, <1>4, NextNumber DEF Seen
<1>6. /\ m + 1 <= MaxVersion /\ m + 1 \notin Numbers(h)
      /\ versions' = versions \cup {NewVersion(snap[w].versions, h, data)}
  BY <1>5 DEF Recorded, NewVersion, Numbers
<1>7. m = n
  BY <1>1, <1>2, <1>3, <1>4, <1>6
<1>8. NextVersionNumber(versions, h) = m + 1
  BY <1>2, <1>4, <1>7, NextNumber DEF Numbers
<1>9. versions' = versions \cup {NewVersion(versions, h, data)}
  BY <1>5, <1>6, <1>8 DEF NewVersion
<1>10. versions' \in SUBSET VersionRow /\ VersionsContiguous'
  BY <1>6, <1>8, <1>9, BoundAssumption, NewVersionKeeps DEF CInv, TypeOK, VersionsContiguous
<1>11. m + 1 \in VersionNumbers(versions', h)
  <2> DEFINE v == NewVersion(versions, h, data)
  <2>1. v \in versions' /\ v.history = h /\ v.number = m + 1
    BY <1>8, <1>9 DEF NewVersion
  <2>2. QED
    BY <2>1 DEF VersionNumbers
<1>12. QED
  BY <1>1, <1>2, <1>6, <1>7, <1>9, <1>10, <1>11

\* Flushing keeps the type of a table, and the rows that are in use.
LEMMA FlushedTypes ==
  ASSUME CInv, NEW w \in Worker, Running(w), NEW new \in [LayerId -> LayerRow]
  PROVE  /\ FlushedLayers(w, new) \in [LayerId -> LayerRow]
         /\ \A i \in LayerId : new[i] = snap[w].layers[i]
              => FlushedLayers(w, new)[i] = layers[i]
         /\ \A i \in LayerId :
              /\ new[i].key = snap[w].layers[i].key
                   => FlushedLayers(w, new)[i].key = layers[i].key
              /\ new[i].key # snap[w].layers[i].key
                   => FlushedLayers(w, new)[i].key = new[i].key
              /\ new[i].status = snap[w].layers[i].status
                   => FlushedLayers(w, new)[i].status = layers[i].status
              /\ new[i].status # snap[w].layers[i].status
                   => FlushedLayers(w, new)[i].status = new[i].status
<1>1. ASSUME NEW i \in LayerId
      PROVE  /\ layers[i] \in LayerRow /\ new[i] \in LayerRow
             /\ snap[w].layers[i] \in LayerRow
             /\ FlushedLayers(w, new)[i] = Flushed(layers[i], snap[w].layers[i], new[i])
  BY DEF CInv, TypeOK, Snapshot, Running, FlushedLayers
<1>2. ASSUME NEW now \in LayerRow, NEW read \in LayerRow, NEW row \in LayerRow
      PROVE  /\ Flushed(now, read, row) \in LayerRow
             /\ row = read => Flushed(now, read, row) = now
             /\ row.key = read.key => Flushed(now, read, row).key = now.key
             /\ row.key # read.key => Flushed(now, read, row).key = row.key
             /\ row.status = read.status => Flushed(now, read, row).status = now.status
             /\ row.status # read.status => Flushed(now, read, row).status = row.status
  BY DEF Flushed, LayerRow
<1>3. QED
  BY <1>1, <1>2 DEF FlushedLayers

LEMMA SnapshotTypes ==
  ASSUME CInv, NEW w \in Worker, Running(w)
  PROVE  /\ snap[w].layers \in [LayerId -> LayerRow]
         /\ snap[w].overrides \in [LayerId -> [Field -> FieldOverride]]
         /\ snap[w].versions \in SUBSET VersionRow
         /\ [snap EXCEPT ![w] = NULL] \in [Worker -> Snapshot \cup {NULL}]
BY DEF CInv, TypeOK, Snapshot, Running

LEMMA FlushedOverride ==
  ASSUME NEW now \in FieldOverride, NEW read \in FieldOverride, NEW row \in FieldOverride
  PROVE  Flushed(now, read, row) \in FieldOverride
BY DEF Flushed, FieldOverride

\* An inserted row is written whole: its id has no row, in the snapshot or now.
LEMMA InsertedRow ==
  ASSUME CInv, NEW w \in Worker, Running(w), NEW new \in [LayerId -> LayerRow],
         NEW i \in LayerId, i \notin Used(layers)
  PROVE  FlushedLayers(w, new)[i] = new[i]
<1>1. layers[i] = Unused
  BY DEF CInv, Blank
<1>2. snap[w].layers[i] = Unused
  BY DEF CInv, Blank, RowsKept
<1>3. new[i] \in LayerRow
  OBVIOUS
<1>4. FlushedLayers(w, new)[i] = Flushed(Unused, Unused, new[i])
  BY <1>1, <1>2 DEF FlushedLayers
<1>5. Flushed(Unused, Unused, new[i]) = new[i]
  BY <1>3 DEF Flushed, Unused, LayerRow
<1>6. QED
  BY <1>4, <1>5

\* A commit that inserts at most the row i, in use and of a known key, and
\* leaves the rows in use alone.
LEMMA InsertKeeps ==
  ASSUME CInv, NEW k, NEW i \in LayerId,
         k \in Tool \cup Combo \cup languages', languages \subseteq languages',
         \A j \in Used(layers) : layers'[j] = layers[j],
         \A j \in LayerId : layers'[j] # layers[j] =>
           layers'[j].key = k /\ layers'[j].status # "none"
  PROVE  /\ KeysKnown' /\ Blank(layers)'
         /\ \A j \in Used(layers) : j \in Used(layers)' /\ layers'[j].key = layers[j].key
<1>1. KeysKnown'
  BY DEF CInv, KeysKnown, Used
<1>2. Blank(layers)'
  BY DEF CInv, Blank, Used
<1>3. QED
  BY <1>1, <1>2 DEF Used

-----------------------------------------------------------------------------
(* One lemma per commit.                                                   *)

LEMMA EditFieldCommits ==
  ASSUME CInv, NEW w \in Worker, NEW k \in Key, NEW i \in LayerId, NEW f \in Field,
         NEW row \in FieldOverride, NEW data \in VersionData,
         EditField(w, k, i, f, row, data)
  PROVE  Commit(w)
<1> DEFINE h == EditHistory(k)
           new == WithActive(snap[w].layers, k, i)
<1>1. Running(w) /\ h \in History
  BY DEF EditField, EditHistory, History
<1>2. /\ versions' \in SUBSET VersionRow /\ versions \subseteq versions'
      /\ VersionsContiguous'
      /\ Numbers(h) = Seen(w, h)
      /\ VersionNumbers(versions', h) # Numbers(h)
  BY <1>1, RecordedSerial DEF EditField
<1>3. new \in [LayerId -> LayerRow]
  BY <1>1, SnapshotTypes, TableTypes
<1>4. layers' = FlushedLayers(w, new)
  BY DEF EditField
<1>5. layers' \in [LayerId -> LayerRow]
  BY <1>1, <1>3, <1>4, FlushedTypes
<1>6. /\ overrides' \in [LayerId -> [Field -> FieldOverride]]
      /\ \A j \in LayerId : j # i => overrides'[j] = overrides[j]
  BY <1>1, SnapshotTypes, FlushedOverride DEF EditField, CInv, TypeOK
<1>7. /\ \A j \in Used(layers) : layers'[j] = layers[j]
      /\ \A j \in LayerId : layers'[j] # layers[j] =>
           layers'[j].key = k /\ layers'[j].status # "none"
  <2>1. CASE ActiveLayers(snap[w].layers, k) # {}
    BY <1>1, <1>3, <1>4, <2>1, FlushedTypes DEF WithActive, Used
  <2>2. CASE ActiveLayers(snap[w].layers, k) = {}
    <3>1. i \notin Used(layers)
      BY <2>2 DEF EditField, EditedLayers, Inserted
    <3>2. /\ \A j \in LayerId : j # i => new[j] = snap[w].layers[j]
          /\ new[i].key = k /\ new[i].status = "active"
      BY <1>1, <2>2, SnapshotTypes DEF WithActive, NewLayer
    <3>3. layers'[i] = new[i]
      BY <1>1, <1>3, <1>4, <3>1, InsertedRow
    <3>4. \A j \in LayerId : j # i => layers'[j] = layers[j]
      BY <1>1, <1>3, <1>4, <3>2, FlushedTypes
    <3>5. QED
      BY <3>1, <3>2, <3>3, <3>4 DEF Used
  <2>3. QED
    BY <2>1, <2>2
<1>8. i \in Used(layers) => layers[i].key = k /\ overrides[i] = snap[w].overrides[i]
  <2> SUFFICES ASSUME i \in Used(layers)
               PROVE  layers[i].key = k /\ overrides[i] = snap[w].overrides[i]
    OBVIOUS
  <2>1. i \in Used(snap[w].layers)
    BY DEF EditField, Inserted
  <2>2. snap[w].layers[i].key = k
    BY <2>1 DEF EditField, EditedLayers, ActiveLayers
  <2>3. layers[i].key = k
    BY <1>1, <2>1, <2>2 DEF CInv, RowsKept
  <2>4. QED
    BY <1>1, <1>2, <2>1, <2>3 DEF CInv, Unedited
<1>9. TypeOK'
  BY <1>1, <1>2, <1>5, <1>6, SnapshotTypes DEF EditField, Ended, CInv, TypeOK
<1>10. \A j \in Used(layers) : overrides'[j] # overrides[j] =>
         /\ overrides[j] = snap[w].overrides[j]
         /\ VersionNumbers(versions', EditHistory(layers[j].key))
              # VersionNumbers(versions, EditHistory(layers[j].key))
  BY <1>2, <1>6, <1>8 DEF Numbers, Used
<1>11. k \in Tool \cup Combo \cup languages' /\ languages' = languages
  BY <1>1 DEF EditField, KnownTo, CInv, RowsKept
<1>12. /\ KeysKnown' /\ Blank(layers)'
       /\ \A j \in Used(layers) : j \in Used(layers)' /\ layers'[j].key = layers[j].key
  BY <1>7, <1>11, InsertKeeps
<1>13. QED
  BY <1>2, <1>9, <1>10, <1>11, <1>12 DEF Commit, EditField, Ended

LEMMA CreateLanguageCommits ==
  ASSUME CInv, NEW w \in Worker, NEW l \in Language, NEW i \in LayerId,
         CreateLanguage(w, l, i)
  PROVE  Commit(w)
<1>1. /\ Running(w) /\ l \in Key /\ EditHistory(l) \in History
      /\ <<"language", l>> \in VersionData
  BY DEF CreateLanguage, Key, EditHistory, History, VersionData
<1>2. /\ versions' \in SUBSET VersionRow /\ versions \subseteq versions'
      /\ VersionsContiguous'
  BY <1>1, RecordedSerial DEF CreateLanguage
<1>3. layers' \in [LayerId -> LayerRow]
  BY <1>1, TableTypes DEF CreateLanguage, CInv, TypeOK
<1>4. /\ \A j \in Used(layers) : layers'[j] = layers[j]
      /\ \A j \in LayerId : layers'[j] # layers[j] =>
           layers'[j].key = l /\ layers'[j].status # "none"
  BY DEF CreateLanguage, Used, CInv, TypeOK, NewLayer
<1>5. TypeOK'
  BY <1>1, <1>2, <1>3, SnapshotTypes DEF CreateLanguage, Ended, CInv, TypeOK
<1>6. l \in languages' /\ languages \subseteq languages'
  BY DEF CreateLanguage
<1>7. /\ KeysKnown' /\ Blank(layers)'
      /\ \A j \in Used(layers) : j \in Used(layers)' /\ layers'[j].key = layers[j].key
  BY <1>4, <1>6, InsertKeeps
<1>8. QED
  BY <1>2, <1>5, <1>6, <1>7 DEF Commit, CreateLanguage, Ended, Used

LEMMA RestoreVersionCommits ==
  ASSUME CInv, NEW w \in Worker, NEW h \in Restorable, NEW n \in 1..MaxVersion,
         RestoreVersion(w, h, n)
  PROVE  Commit(w)
<1>1. Running(w) /\ h \in History
  BY DEF RestoreVersion, Restorable
<1>2. PICK v \in snap[w].versions : Recorded(w, h, v.data)
  BY DEF RestoreVersion
<1>3. v.data \in VersionData
  BY <1>1, <1>2, SnapshotTypes DEF VersionRow
<1>4. /\ versions' \in SUBSET VersionRow /\ versions \subseteq versions'
      /\ VersionsContiguous'
  BY <1>1, <1>2, <1>3, RecordedSerial
<1>5. TypeOK'
  BY <1>1, <1>4, SnapshotTypes DEF RestoreVersion, Ended, CInv, TypeOK
<1>6. KeysKnown' /\ Blank(layers)'
  BY DEF RestoreVersion, CInv, KeysKnown, Blank, Used
<1>7. QED
  BY <1>4, <1>5, <1>6 DEF Commit, RestoreVersion, Ended, Used

LEMMA CreateDraftCommits ==
  ASSUME CInv, NEW w \in Worker, NEW k \in Key, NEW src \in LayerId, NEW d \in LayerId,
         CreateDraft(w, k, src, d)
  PROVE  Commit(w)
<1> DEFINE new == Cloned(snap[w].layers, src, d)
<1>1. Running(w) /\ src \in Used(snap[w].layers) /\ snap[w].layers[src].key = k
  BY DEF CreateDraft, ActiveLayers, Used
<1>2. new \in [LayerId -> LayerRow]
  BY <1>1, SnapshotTypes, TableTypes
<1>3. layers' = FlushedLayers(w, new) /\ d \notin Used(layers)
  BY DEF CreateDraft
<1>4. \A j \in LayerId : j # d => new[j] = snap[w].layers[j]
  BY <1>1, SnapshotTypes DEF Cloned
<1>5. layers' \in [LayerId -> LayerRow]
  BY <1>1, <1>2, <1>3, FlushedTypes
<1>6. /\ layers'[d].key = k /\ layers'[d].status = "draft"
      /\ \A j \in LayerId : j # d => layers'[j] = layers[j]
  <2>1. layers'[d] = new[d]
    BY <1>1, <1>2, <1>3, InsertedRow
  <2>2. \A j \in LayerId : j # d => layers'[j] = layers[j]
    BY <1>1, <1>2, <1>3, <1>4, FlushedTypes
  <2>3. new[d].key = k /\ new[d].status = "draft"
    BY <1>1, SnapshotTypes DEF Cloned, NewLayer
  <2>4. QED
    BY <2>1, <2>2, <2>3
<1>7. /\ overrides' \in [LayerId -> [Field -> FieldOverride]]
      /\ \A j \in Used(layers) : overrides'[j] = overrides[j]
  BY <1>1, <1>3, SnapshotTypes DEF CreateDraft, CInv, TypeOK, Used
<1>8. TypeOK'
  BY <1>1, <1>5, <1>7, SnapshotTypes DEF CreateDraft, Ended, CInv, TypeOK
<1>9. k \in Tool \cup Combo \cup languages' /\ languages' = languages
  BY <1>1 DEF CreateDraft, KnownTo, CInv, RowsKept
<1>10. /\ KeysKnown' /\ Blank(layers)'
       /\ \A j \in Used(layers) : j \in Used(layers)' /\ layers'[j].key = layers[j].key
  <2>1. /\ \A j \in Used(layers) : layers'[j] = layers[j]
        /\ \A j \in LayerId : layers'[j] # layers[j] =>
             layers'[j].key = k /\ layers'[j].status # "none"
    BY <1>3, <1>6 DEF Used
  <2>2. QED
    BY <1>9, <2>1, InsertKeeps
<1>11. VersionsContiguous' /\ versions' = versions
  BY DEF CreateDraft, CInv, VersionsContiguous
<1>12. QED
  BY <1>7, <1>8, <1>9, <1>10, <1>11 DEF Commit, CreateDraft, Ended

\* Promotions and archivings change columns of rows in use, never their key.
LEMMA StatusCommits ==
  ASSUME CInv, NEW w \in Worker, Running(w), NEW new \in [LayerId -> LayerRow],
         languages' = languages,
         \A j \in LayerId : new[j].key = snap[w].layers[j].key,
         \A j \in LayerId : new[j] # snap[w].layers[j]
                              => j \in Used(snap[w].layers) /\ new[j].status # "none",
         layers' = FlushedLayers(w, new)
  PROVE  /\ layers' \in [LayerId -> LayerRow]
         /\ KeysKnown' /\ Blank(layers)'
         /\ \A j \in Used(layers) : j \in Used(layers)' /\ layers'[j].key = layers[j].key
<1>1. layers' \in [LayerId -> LayerRow]
  BY FlushedTypes
<1>2. \A j \in LayerId : layers'[j].key = layers[j].key
  BY FlushedTypes
<1>3. \A j \in LayerId : j \notin Used(layers) => layers'[j] = layers[j]
  BY FlushedTypes DEF CInv, RowsKept
<1>4. \A j \in LayerId :
        layers'[j].status = layers[j].status
          \/ (j \in Used(layers) /\ layers'[j].status # "none")
  BY FlushedTypes DEF CInv, RowsKept
<1>5. \A j \in LayerId : j \in Used(layers)' <=> j \in Used(layers)
  BY <1>4 DEF Used
<1>6. KeysKnown'
  BY <1>2, <1>5 DEF CInv, KeysKnown, Used
<1>7. Blank(layers)'
  BY <1>3, <1>5 DEF CInv, Blank
<1>8. QED
  BY <1>1, <1>2, <1>5, <1>6, <1>7 DEF Used

LEMMA PromoteDraftCommits ==
  ASSUME CInv, NEW w \in Worker, NEW d \in LayerId, PromoteDraft(w, d)
  PROVE  Commit(w)
<1>1. Running(w) /\ d \in Used(snap[w].layers)
  BY DEF PromoteDraft
<1>2. d \in Used(layers) /\ layers[d].key \in Key
  BY <1>1 DEF CInv, RowsKept, KeysKnown, Key, TypeOK
<1>3. PICK prev \in Superseded(snap[w].layers, d) :
        layers' = FlushedLayers(w, Promoted(snap[w].layers, d, prev))
  BY DEF PromoteDraft
<1> DEFINE new == Promoted(snap[w].layers, d, prev)
<1>4. new \in [LayerId -> LayerRow]
  BY <1>1, SnapshotTypes, TableTypes
<1>5. prev \in LayerId => prev \in Used(snap[w].layers)
  BY <1>3, NullDistinct DEF Superseded, ActiveLayers, Used
<1>6. \A j \in LayerId :
        /\ new[j].key = snap[w].layers[j].key
        /\ new[j] # snap[w].layers[j] =>
             j \in Used(snap[w].layers) /\ new[j].status # "none"
  BY <1>1, <1>5, SnapshotTypes, PromotedRows
<1>7. languages' = languages
  BY DEF PromoteDraft
<1> HIDE DEF new
<1>8. /\ layers' \in [LayerId -> LayerRow]
      /\ KeysKnown' /\ Blank(layers)'
      /\ \A j \in Used(layers) : j \in Used(layers)' /\ layers'[j].key = layers[j].key
  BY <1>1, <1>3, <1>4, <1>6, <1>7, StatusCommits DEF new
<1>9. /\ LayerHistory(layers[d].key) \in History /\ <<"layer", d>> \in VersionData
  BY <1>2 DEF LayerHistory, History, VersionData
<1>10. /\ versions' \in SUBSET VersionRow /\ versions \subseteq versions'
       /\ VersionsContiguous'
  BY <1>1, <1>9, RecordedSerial DEF PromoteDraft
<1>11. TypeOK'
  BY <1>1, <1>2, <1>8, <1>10, SnapshotTypes DEF PromoteDraft, Ended, CInv, TypeOK
<1>12. QED
  BY <1>7, <1>8, <1>10, <1>11 DEF Commit, PromoteDraft, Ended

LEMMA ArchiveDraftCommits ==
  ASSUME CInv, NEW w \in Worker, NEW d \in LayerId, ArchiveDraft(w, d)
  PROVE  Commit(w)
<1> DEFINE new == Archived(snap[w].layers, d)
<1>1. Running(w) /\ d \in Used(snap[w].layers)
  BY DEF ArchiveDraft, Used
<1>2. d \in Used(layers) /\ layers[d].key \in Key
  BY <1>1 DEF CInv, RowsKept, KeysKnown, Key, TypeOK
<1>3. new \in [LayerId -> LayerRow]
  BY <1>1, SnapshotTypes, TableTypes
<1>4. \A j \in LayerId :
        /\ new[j].key = snap[w].layers[j].key
        /\ new[j] # snap[w].layers[j] =>
             j \in Used(snap[w].layers) /\ new[j].status # "none"
  BY <1>1, SnapshotTypes DEF Archived, LayerRow
<1>5. languages' = languages /\ layers' = FlushedLayers(w, new)
  BY DEF ArchiveDraft
<1> HIDE DEF new
<1>6. /\ layers' \in [LayerId -> LayerRow]
      /\ KeysKnown' /\ Blank(layers)'
      /\ \A j \in Used(layers) : j \in Used(layers)' /\ layers'[j].key = layers[j].key
  BY <1>1, <1>3, <1>4, <1>5, StatusCommits
<1>7. TypeOK'
  BY <1>1, <1>2, <1>6, SnapshotTypes DEF ArchiveDraft, Ended, CInv, TypeOK
<1>8. VersionsContiguous' /\ versions' = versions
  BY DEF ArchiveDraft, CInv, VersionsContiguous
<1>9. QED
  BY <1>5, <1>6, <1>7, <1>8 DEF Commit, ArchiveDraft, Ended

-----------------------------------------------------------------------------
(* The theorems.                                                           *)

\* A request of a worker is one of the handlers, the edits being one with typed data.
Handler(w) ==
  \/ \E k \in Key, i \in LayerId, f \in Field, row \in FieldOverride, data \in VersionData :
       EditField(w, k, i, f, row, data)
  \/ \E l \in Language, i \in LayerId : CreateLanguage(w, l, i)
  \/ \E h \in Restorable, n \in 1..MaxVersion : RestoreVersion(w, h, n)
  \/ \E k \in Key, src, d \in LayerId : CreateDraft(w, k, src, d)
  \/ \E d \in LayerId : PromoteDraft(w, d) \/ ArchiveDraft(w, d)

LEMMA HandlerRuns ==
  ASSUME NEW w \in Worker, Handler(w)
  PROVE  Running(w)
BY DEF Handler, EditField, CreateLanguage, RestoreVersion, CreateDraft, PromoteDraft,
       ArchiveDraft

LEMMA EditIsHandler ==
  ASSUME CInv, NEW w \in Worker, NEW k \in Key, NEW i \in LayerId, NEW f \in Field,
         \/ \E v \in Value : UpdateField(w, k, i, f, v)
         \/ \E type \in {"metadata", "structure"} : ResetField(w, k, i, f, type)
         \/ \E p \in Preset : AddPreset(w, k, i, f, p)
         \/ RemovePreset(w, k, i, f)
  PROVE  Handler(w)
<1> DEFINE row == snap[w].overrides[i][f]
<1>1. Running(w)
  BY DEF UpdateField, ResetField, AddPreset, RemovePreset, EditField
<1>2. row \in FieldOverride
  BY <1>1, SnapshotTypes
<1>3. ASSUME NEW v \in Value, UpdateField(w, k, i, f, v)
      PROVE  Handler(w)
  <2>1. Updated(row, v) \in FieldOverride /\ <<"meta", v>> \in VersionData
    BY <1>2, RowTypes DEF VersionData
  <2>2. QED
    BY <1>3, <2>1 DEF UpdateField, Handler
<1>4. ASSUME NEW type \in {"metadata", "structure"}, ResetField(w, k, i, f, type)
      PROVE  Handler(w)
  <2>1. Reset(row, type) \in FieldOverride /\ <<"none">> \in VersionData
    BY <1>2, RowTypes DEF VersionData
  <2>2. QED
    BY <1>4, <2>1 DEF ResetField, Handler
<1>5. ASSUME NEW p \in Preset, AddPreset(w, k, i, f, p)
      PROVE  Handler(w)
  <2>1. PresetAdded(row, p) \in FieldOverride /\ PresetsWith(row, p) \in SUBSET Preset
    BY <1>2, RowTypes
  <2>2. <<"presets", PresetsWith(row, p)>> \in VersionData
    BY <2>1 DEF VersionData
  <2>3. QED
    BY <1>5, <2>1, <2>2 DEF AddPreset, Handler
<1>6. ASSUME RemovePreset(w, k, i, f)
      PROVE  Handler(w)
  <2>1. PICK gone : EditField(w, k, i, f, PresetsRemoved(row, gone), <<"none">>)
    BY <1>6 DEF RemovePreset
  <2>2. PresetsRemoved(row, gone) \in FieldOverride /\ <<"none">> \in VersionData
    BY <1>2, RowTypes DEF VersionData
  <2>3. QED
    BY <2>1, <2>2 DEF Handler
<1>7. QED
  BY <1>3, <1>4, <1>5, <1>6

\* Whatever request a worker commits, it has what commits have in common.
LEMMA HandlerCommits ==
  ASSUME CInv, NEW w \in Worker, Handler(w)
  PROVE  Commit(w)
BY EditFieldCommits, CreateLanguageCommits, RestoreVersionCommits, CreateDraftCommits,
   PromoteDraftCommits, ArchiveDraftCommits DEF Handler

\* A step begins, aborts or commits one request.
LEMMA NextHandlers ==
  ASSUME CInv, Next
  PROVE  \E w \in Worker : Begin(w) \/ Abort(w) \/ Handler(w)
<1>1. PICK w \in Worker :
        \/ Begin(w) \/ Abort(w)
        \/ \E k \in Key, i \in LayerId, f \in Field :
             \/ \E v \in Value : UpdateField(w, k, i, f, v)
             \/ \E type \in {"metadata", "structure"} : ResetField(w, k, i, f, type)
             \/ \E p \in Preset : AddPreset(w, k, i, f, p)
             \/ RemovePreset(w, k, i, f)
        \/ \E l \in Language, i \in LayerId : CreateLanguage(w, l, i)
        \/ \E h \in Restorable, n \in 1..MaxVersion : RestoreVersion(w, h, n)
        \/ \E k \in Key, src, d \in LayerId : CreateDraft(w, k, src, d)
        \/ \E d \in LayerId : PromoteDraft(w, d) \/ ArchiveDraft(w, d)
  BY DEF Next
<1>2. CASE \E k \in Key, i \in LayerId, f \in Field :
             \/ \E v \in Value : UpdateField(w, k, i, f, v)
             \/ \E type \in {"metadata", "structure"} : ResetField(w, k, i, f, type)
             \/ \E p \in Preset : AddPreset(w, k, i, f, p)
             \/ RemovePreset(w, k, i, f)
  BY <1>2, EditIsHandler
<1>3. QED
  BY <1>1, <1>2 DEF Handler

LEMMA NextCases ==
  ASSUME CInv, Next
  PROVE  \E w \in Worker :
           \/ Begin(w) \/ Abort(w)
           \/ Running(w) /\ Commit(w)
BY NextHandlers, HandlerRuns, HandlerCommits

\* A snapshot is a past of the tables it was just taken from.
LEMMA BeginKeeps ==
  ASSUME CInv, NEW w \in Worker, Begin(w)
  PROVE  CInv'
<1>1. /\ layers' = layers /\ overrides' = overrides
      /\ languages' = languages /\ versions' = versions /\ overtaken' = overtaken
  BY DEF Begin, tables
<1> DEFINE taken == [layers |-> layers, overrides |-> overrides,
                     languages |-> languages, versions |-> versions]
<1>2. taken \in Snapshot /\ snap' = [snap EXCEPT ![w] = taken]
  BY DEF CInv, TypeOK, Snapshot, Begin
<1>3. TypeOK'
  BY <1>1, <1>2 DEF CInv, TypeOK
<1>4. VersionsContiguous' /\ KeysKnown' /\ Blank(layers)'
  BY <1>1 DEF CInv, VersionsContiguous, KeysKnown, Blank, Used
<1>5. ASSUME NEW x \in Worker, x = w
      PROVE  /\ Blank(snap'[x].layers) /\ Gapless(snap'[x].versions, MaxVersion)
             /\ RowsKept(x)' /\ Unedited(x)'
  <2>1. snap'[x] = taken
    BY <1>2, <1>5 DEF CInv, TypeOK
  <2>2. /\ snap'[x].layers = layers /\ snap'[x].overrides = overrides
        /\ snap'[x].languages = languages /\ snap'[x].versions = versions
    BY <2>1
  <2>3. QED
    BY <1>1, <2>2 DEF CInv, VersionsContiguous, RowsKept, Unedited
<1>6. ASSUME NEW x \in Worker, x # w, Running(x)'
      PROVE  /\ Blank(snap'[x].layers) /\ Gapless(snap'[x].versions, MaxVersion)
             /\ RowsKept(x)' /\ Unedited(x)'
  <2>1. snap'[x] = snap[x] /\ Running(x)
    BY <1>2, <1>6 DEF CInv, TypeOK, Running
  <2>2. QED
    BY <1>1, <2>1 DEF CInv, RowsKept, Unedited, Numbers, Seen
<1>7. QED
  BY <1>3, <1>4, <1>5, <1>6 DEF CInv

\* A request that aborts leaves the tables as they were.
LEMMA AbortKeeps ==
  ASSUME CInv, NEW w \in Worker, Abort(w)
  PROVE  CInv'
<1>1. /\ layers' = layers /\ overrides' = overrides
      /\ languages' = languages /\ versions' = versions /\ overtaken' = overtaken
  BY DEF Abort, tables
<1>2. snap' = [snap EXCEPT ![w] = NULL]
  BY DEF Abort, Ended
<1>3. TypeOK' /\ VersionsContiguous' /\ KeysKnown' /\ Blank(layers)'
  BY <1>1, <1>2 DEF CInv, TypeOK, VersionsContiguous, KeysKnown, Blank, Used
<1>4. ASSUME NEW x \in Worker, Running(x)'
      PROVE  /\ Blank(snap'[x].layers) /\ Gapless(snap'[x].versions, MaxVersion)
             /\ RowsKept(x)' /\ Unedited(x)'
  <2>1. snap'[x] = snap[x] /\ Running(x)
    BY <1>2, <1>4 DEF CInv, TypeOK, Running
  <2>2. QED
    BY <1>1, <2>1 DEF CInv, RowsKept, Unedited, Numbers, Seen
<1>5. QED
  BY <1>3, <1>4 DEF CInv

\* The inductive invariant is preserved.
THEOREM NextCInv == CInv /\ [Next]_vars => CInv'
<1>1. ASSUME CInv, Next PROVE CInv'
  BY <1>1, NextCases, BeginKeeps, AbortKeeps, CommitKeeps
<1>2. ASSUME CInv, UNCHANGED vars PROVE CInv'
  <2>1. /\ layers' = layers /\ overrides' = overrides /\ snap' = snap
        /\ languages' = languages /\ versions' = versions /\ overtaken' = overtaken
    BY <1>2 DEF vars, tables
  <2>2. TypeOK' /\ VersionsContiguous' /\ KeysKnown' /\ Blank(layers)'
    BY <1>2, <2>1 DEF CInv, TypeOK, VersionsContiguous, KeysKnown, Blank, Used
  <2>3. ASSUME NEW x \in Worker, Running(x)'
        PROVE  /\ Blank(snap'[x].layers) /\ Gapless(snap'[x].versions, MaxVersion)
               /\ RowsKept(x)' /\ Unedited(x)'
    BY <1>2, <2>1, <2>3 DEF CInv, Running, RowsKept, Unedited, Numbers, Seen
  <2>4. QED
    BY <2>2, <2>3 DEF CInv
<1>3. QED
  BY <1>1, <1>2

\* Tables and snapshots keep their types.
THEOREM ConcurrentTypes == Spec => []TypeOK
<1>1. CInv => TypeOK
  BY DEF CInv
<1>2. QED
  BY InitCInv, NextCInv, <1>1, PTL DEF Spec

\* However many requests overlap, the numbers of a history stay 1..n: the unique
\* constraint admits only a writer that has read the history to its end.
THEOREM NumbersSerialise == Spec => []VersionsContiguous
<1>1. CInv => VersionsContiguous
  BY DEF CInv
<1>2. QED
  BY InitCInv, NextCInv, <1>1, PTL DEF Spec

\* However many requests overlap, no edit overwrites an override that changed
\* after the edit had read it.
THEOREM NoLostEdit == Spec => EditsNeverLost
<1>1. CInv /\ [Next]_vars =>
        [\A w \in Worker, i \in LayerId :
           Running(w) /\ ~Running(w)' /\ i \in Used(layers)
             /\ overrides'[i] # overrides[i]
           => overrides[i] = snap[w].overrides[i]]_vars
  <2> SUFFICES ASSUME CInv, Next, NEW w \in Worker, NEW i \in LayerId,
                      Running(w), ~Running(w)', i \in Used(layers),
                      overrides'[i] # overrides[i]
               PROVE  overrides[i] = snap[w].overrides[i]
    OBVIOUS
  <2>1. PICK x \in Worker : Begin(x) \/ Abort(x) \/ (Running(x) /\ Commit(x))
    BY NextCases
  <2>2. Commit(x)
    BY <2>1 DEF Begin, Abort, tables
  <2>3. x = w
    BY <2>2 DEF Commit, Running, CInv, TypeOK
  <2>4. QED
    BY <2>2, <2>3 DEF Commit
<1>2. QED
  BY InitCInv, NextCInv, <1>1, PTL DEF Spec, EditsNeverLost

-----------------------------------------------------------------------------
(* The active layers: which layer of a key is active is as serial as the   *)
(* versions that are written with it.                                      *)

HasLayer(ls, k) == \E i \in Used(ls) : ls[i].key = k

\* A key with layers has one active layer, and layers that are not archived have not
\* been superseded; unless archiving a draft overlapped its promotion.
Sound(ls) ==
  \A i \in Used(ls) : ls[i].key \notin overtaken =>
    /\ \E a \in LayerId : ActiveLayers(ls, ls[i].key) = {a}
    /\ ls[i].status # "archived" => ls[i].successor = NULL

\* The first layer of a key comes with a version of its edits.
FirstsSeen(w) ==
  \A k \in Key :
    HasLayer(layers, k) /\ Numbers(EditHistory(k)) = Seen(w, EditHistory(k))
      => HasLayer(snap[w].layers, k)

\* After the first, another layer gets active only with a version of the layers.
ActiveSeen(w) ==
  \A k \in Key \ overtaken :
    HasLayer(snap[w].layers, k) /\ Numbers(LayerHistory(k)) = Seen(w, LayerHistory(k))
      => ActiveLayers(layers, k) = ActiveLayers(snap[w].layers, k)

AInv ==
  /\ CInv
  /\ Sound(layers)
  /\ \A w \in Worker : Running(w) =>
       Sound(snap[w].layers) /\ FirstsSeen(w) /\ ActiveSeen(w)

-----------------------------------------------------------------------------
(* What every commit does to the active layers.                            *)

ActiveCommit ==
  /\ overtaken \subseteq overtaken'
  /\ Sound(layers)'
  /\ \A k \in Key :
       HasLayer(layers', k) =>
         \/ HasLayer(layers, k)
         \/ VersionNumbers(versions', EditHistory(k)) # Numbers(EditHistory(k))
  /\ \A k \in Key \ overtaken' :
       \/ ActiveLayers(layers', k) = ActiveLayers(layers, k)
       \/ ~HasLayer(layers, k)
       \/ VersionNumbers(versions', LayerHistory(k)) # Numbers(LayerHistory(k))

\* A history that is as it was seen, after a commit, was so before it.
LEMMA SeenBefore ==
  ASSUME CInv, NEW w \in Worker, Commit(w), NEW x \in Worker, Running(x), NEW h,
         VersionNumbers(versions', h) = Seen(x, h)
  PROVE  Numbers(h) = Seen(x, h) /\ VersionNumbers(versions', h) = Numbers(h)
<1>1. Seen(x, h) \subseteq Numbers(h)
  BY SubsetNumbers DEF CInv, RowsKept, Seen, Numbers
<1>2. Numbers(h) \subseteq VersionNumbers(versions', h)
  BY SubsetNumbers DEF Commit, Numbers
<1> QED
  BY <1>1, <1>2

LEMMA ActiveCommitKeeps ==
  ASSUME AInv, NEW w \in Worker, Running(w), Commit(w), ActiveCommit
  PROVE  AInv'
<1>1. CInv'
  BY CommitKeeps DEF AInv
<1> SUFFICES ASSUME NEW x \in Worker, Running(x)'
             PROVE  Sound(snap[x].layers)' /\ FirstsSeen(x)' /\ ActiveSeen(x)'
  BY <1>1 DEF AInv, ActiveCommit
<1>2. x # w /\ snap'[x] = snap[x] /\ Running(x)
  BY DEF Commit, Running, AInv, CInv, TypeOK
<1>3. Sound(snap[x].layers) /\ FirstsSeen(x) /\ ActiveSeen(x) /\ RowsKept(x) /\ CInv
  BY <1>2 DEF AInv, CInv
<1>4. Sound(snap[x].layers)'
  BY <1>2, <1>3 DEF Sound, ActiveCommit, Used, ActiveLayers
<1>5. FirstsSeen(x)'
  <2> SUFFICES ASSUME NEW k \in Key, HasLayer(layers', k),
                      VersionNumbers(versions', EditHistory(k)) = Seen(x, EditHistory(k))
               PROVE  HasLayer(snap[x].layers, k)
    BY <1>2 DEF FirstsSeen, HasLayer, Used, Numbers, Seen, EditHistory
  <2>1. /\ Numbers(EditHistory(k)) = Seen(x, EditHistory(k))
        /\ VersionNumbers(versions', EditHistory(k)) = Numbers(EditHistory(k))
    BY <1>2, <1>3, SeenBefore
  <2> QED
    BY <2>1, <1>3 DEF ActiveCommit, FirstsSeen
<1>6. ActiveSeen(x)'
  <2> SUFFICES ASSUME NEW k \in Key, k \notin overtaken', HasLayer(snap[x].layers, k),
                      VersionNumbers(versions', LayerHistory(k)) = Seen(x, LayerHistory(k))
               PROVE  ActiveLayers(layers', k) = ActiveLayers(snap[x].layers, k)
    BY <1>2 DEF ActiveSeen, HasLayer, Used, Numbers, Seen, LayerHistory, ActiveLayers
  <2>1. /\ Numbers(LayerHistory(k)) = Seen(x, LayerHistory(k))
        /\ VersionNumbers(versions', LayerHistory(k)) = Numbers(LayerHistory(k))
    BY <1>2, <1>3, SeenBefore
  <2>2. HasLayer(layers, k)
    BY <1>3 DEF HasLayer, RowsKept
  <2>3. ActiveLayers(layers', k) = ActiveLayers(layers, k) /\ k \notin overtaken
    BY <2>1, <2>2 DEF ActiveCommit
  <2> QED
    BY <2>1, <2>3, <1>3 DEF ActiveSeen
<1> QED
  BY <1>4, <1>5, <1>6

-----------------------------------------------------------------------------
(* Commits that insert a layer, or none.                                   *)

\* A row of key k is inserted: active and the first of its key, or a draft beside
\* the layer it is cloned from.
LEMMA InsertedActive ==
  ASSUME AInv, NEW k \in Key, NEW i \in LayerId, NEW row \in LayerRow,
         i \notin Used(layers), layers' = [layers EXCEPT ![i] = row],
         row.key = k, row.successor = NULL,
         \/ row.status = "active" /\ (k \notin overtaken => ~HasLayer(layers, k))
         \/ row.status = "draft" /\ HasLayer(layers, k),
         HasLayer(layers, k) \/ VersionNumbers(versions', EditHistory(k)) # Numbers(EditHistory(k)),
         overtaken' = overtaken
  PROVE  ActiveCommit
<1>1. layers \in [LayerId -> LayerRow]
  BY DEF AInv, CInv, TypeOK
<1>2. layers'[i] = row /\ \A j \in LayerId : j # i => layers'[j] = layers[j]
  BY <1>1
<1>3. layers[i].status = "none"
  BY DEF Used
<1>4. \A q : q # k => ActiveLayers(layers', q) = ActiveLayers(layers, q)
  BY <1>2, <1>3 DEF ActiveLayers
<1>5. row.status = "draft" => ActiveLayers(layers', k) = ActiveLayers(layers, k)
  BY <1>2, <1>3 DEF ActiveLayers
<1>6. ~HasLayer(layers, k) => ActiveLayers(layers, k) = {}
  BY DEF HasLayer, ActiveLayers, Used
<1>7. row.status = "active" /\ k \notin overtaken => ActiveLayers(layers', k) = {i}
  BY <1>2, <1>3, <1>6 DEF ActiveLayers
<1>8. Sound(layers)'
  <2> SUFFICES ASSUME NEW j \in LayerId, layers'[j].status # "none", layers'[j].key \notin overtaken
               PROVE  /\ \E a \in LayerId : ActiveLayers(layers', layers'[j].key) = {a}
                      /\ layers'[j].status # "archived" => layers'[j].successor = NULL
    BY DEF Sound, Used, ActiveLayers
  <2>1. CASE j = i
    <3>1. layers'[j].key = k /\ layers'[j].successor = NULL
      BY <1>2, <2>1
    <3>2. CASE row.status = "active"
      BY <3>1, <3>2, <1>7
    <3>3. CASE row.status = "draft"
      <4>1. PICK x \in Used(layers) : layers[x].key = k
        BY <3>3 DEF HasLayer
      <4>2. \E a \in LayerId : ActiveLayers(layers, k) = {a}
        BY <4>1, <3>1 DEF AInv, Sound
      <4> QED
        BY <4>2, <3>1, <3>3, <1>5
    <3> QED
      BY <3>2, <3>3
  <2>2. CASE j # i
    <3>1. layers'[j] = layers[j] /\ j \in Used(layers)
      BY <1>2, <2>2 DEF Used
    <3>2. /\ \E a \in LayerId : ActiveLayers(layers, layers[j].key) = {a}
          /\ layers[j].status # "archived" => layers[j].successor = NULL
      BY <3>1 DEF AInv, Sound
    <3>3. layers[j].key = k => row.status = "draft"
      BY <3>1 DEF HasLayer
    <3> QED
      BY <3>1, <3>2, <3>3, <1>4, <1>5
  <2> QED
    BY <2>1, <2>2
<1>9. \A q \in Key : HasLayer(layers', q) => HasLayer(layers, q) \/ q = k
  BY <1>2 DEF HasLayer, Used
<1>10. \A q \in Key \ overtaken :
         ActiveLayers(layers', q) = ActiveLayers(layers, q) \/ ~HasLayer(layers, q)
  BY <1>4, <1>5
<1> QED
  BY <1>8, <1>9, <1>10 DEF ActiveCommit

LEMMA LayersStay ==
  ASSUME AInv, layers' = layers, overtaken' = overtaken
  PROVE  ActiveCommit
BY DEF AInv, ActiveCommit, Sound, ActiveLayers, Used, HasLayer

\* Edits and new languages write at most an active layer, the first of its key.
LEMMA EditFieldActive ==
  ASSUME AInv, NEW w \in Worker, NEW k \in Key, NEW i \in LayerId, NEW f \in Field,
         NEW row \in FieldOverride, NEW data \in VersionData,
         EditField(w, k, i, f, row, data)
  PROVE  ActiveCommit
<1> DEFINE new == WithActive(snap[w].layers, k, i)
<1>1. /\ Running(w) /\ CInv /\ EditHistory(k) \in History
      /\ snap[w].layers \in [LayerId -> LayerRow]
      /\ layers' = FlushedLayers(w, new) /\ overtaken' = overtaken
  BY SnapshotTypes DEF EditField, AInv, EditHistory, History
<1>2. /\ Numbers(EditHistory(k)) = Seen(w, EditHistory(k))
      /\ VersionNumbers(versions', EditHistory(k)) # Numbers(EditHistory(k))
  BY <1>1, RecordedSerial DEF EditField
<1>3. new \in [LayerId -> LayerRow]
  BY <1>1, TableTypes
<1>4. layers' \in [LayerId -> LayerRow] /\ layers \in [LayerId -> LayerRow]
  BY <1>1, <1>3, FlushedTypes DEF CInv, TypeOK
<1>5. CASE ActiveLayers(snap[w].layers, k) # {}
  <2>1. \A j \in LayerId : layers'[j] = layers[j]
    BY <1>1, <1>3, <1>5, FlushedTypes DEF WithActive
  <2>2. layers' = layers
    BY <1>4, <2>1
  <2> QED
    BY <1>1, <2>2, LayersStay
<1>6. CASE ActiveLayers(snap[w].layers, k) = {}
  <2> DEFINE first == NewLayer(k, "active", NULL)
  <2>1. i \notin Used(layers)
    BY <1>6 DEF EditField, EditedLayers, Inserted
  <2>2. new = [snap[w].layers EXCEPT ![i] = first]
    BY <1>6 DEF WithActive
  <2>3. first \in LayerRow
    BY <1>1, <1>3, <2>2
  <2>4. layers'[i] = first
    BY <1>1, <1>3, <2>1, <2>2, InsertedRow
  <2>5. \A j \in LayerId : j # i => layers'[j] = layers[j]
    BY <1>1, <1>3, <2>2, FlushedTypes
  <2>6. layers' = [layers EXCEPT ![i] = first]
    BY <1>4, <2>4, <2>5
  <2>7. k \notin overtaken => ~HasLayer(layers, k)
    <3>1. HasLayer(layers, k) => HasLayer(snap[w].layers, k)
      BY <1>1, <1>2 DEF AInv, FirstsSeen
    <3>2. k \notin overtaken => ~HasLayer(snap[w].layers, k)
      BY <1>1, <1>6 DEF AInv, Sound, HasLayer
    <3> QED
      BY <3>1, <3>2
  <2>8. first.key = k /\ first.status = "active" /\ first.successor = NULL
    BY DEF NewLayer
  <2> HIDE DEF first
  <2> QED
    BY <1>1, <1>2, <2>1, <2>3, <2>6, <2>7, <2>8, InsertedActive
<1> QED
  BY <1>5, <1>6

LEMMA CreateLanguageActive ==
  ASSUME AInv, NEW w \in Worker, NEW l \in Language, NEW i \in LayerId,
         CreateLanguage(w, l, i)
  PROVE  ActiveCommit
<1> DEFINE first == NewLayer(l, "active", NULL)
<1>1. /\ Running(w) /\ CInv /\ l \in Key /\ EditHistory(l) \in History
      /\ <<"language", l>> \in VersionData
  BY DEF CreateLanguage, AInv, Key, EditHistory, History, VersionData
<1>2. VersionNumbers(versions', EditHistory(l)) # Numbers(EditHistory(l))
  BY <1>1, RecordedSerial DEF CreateLanguage
<1>3. ~HasLayer(layers, l)
  BY <1>1, KeysDisjoint DEF CreateLanguage, CInv, KeysKnown, HasLayer
<1>4. first \in LayerRow /\ first.key = l /\ first.status = "active" /\ first.successor = NULL
  BY <1>1 DEF NewLayer, LayerRow, Status
<1>5. /\ layers' = [layers EXCEPT ![i] = first] /\ i \notin Used(layers)
      /\ overtaken' = overtaken
  BY DEF CreateLanguage
<1> HIDE DEF first
<1> QED
  BY <1>1, <1>2, <1>3, <1>4, <1>5, InsertedActive

LEMMA CreateDraftActive ==
  ASSUME AInv, NEW w \in Worker, NEW k \in Key, NEW src \in LayerId, NEW d \in LayerId,
         CreateDraft(w, k, src, d)
  PROVE  ActiveCommit
<1> DEFINE draft == NewLayer(snap[w].layers[src].key, "draft", src)
           new == Cloned(snap[w].layers, src, d)
<1>1. /\ Running(w) /\ CInv /\ snap[w].layers \in [LayerId -> LayerRow]
      /\ src \in Used(snap[w].layers) /\ snap[w].layers[src].key = k
      /\ layers' = FlushedLayers(w, new) /\ overtaken' = overtaken
      /\ d \notin Used(layers) /\ layers \in [LayerId -> LayerRow]
  BY SnapshotTypes DEF CreateDraft, AInv, ActiveLayers, Used, CInv, TypeOK
<1>2. new \in [LayerId -> LayerRow]
  BY <1>1, TableTypes
<1>3. new = [snap[w].layers EXCEPT ![d] = draft]
  BY DEF Cloned
<1>4. layers'[d] = draft /\ draft \in LayerRow
  BY <1>1, <1>2, <1>3, InsertedRow
<1>5. \A j \in LayerId : j # d => layers'[j] = layers[j]
  BY <1>1, <1>2, <1>3, FlushedTypes
<1>6. layers' = [layers EXCEPT ![d] = draft]
  BY <1>1, <1>2, <1>4, <1>5, FlushedTypes
<1>7. HasLayer(layers, k)
  BY <1>1 DEF CInv, RowsKept, HasLayer
<1>8. draft.key = k /\ draft.status = "draft" /\ draft.successor = NULL
  BY <1>1 DEF NewLayer
<1> HIDE DEF draft
<1> QED
  BY <1>1, <1>4, <1>6, <1>7, <1>8, InsertedActive

-----------------------------------------------------------------------------
(* Commits that change the status of layers of one key.                    *)

LEMMA FlushedSuccessor ==
  ASSUME CInv, NEW w \in Worker, Running(w), NEW new \in [LayerId -> LayerRow],
         NEW i \in LayerId
  PROVE  /\ new[i].successor = snap[w].layers[i].successor
              => FlushedLayers(w, new)[i].successor = layers[i].successor
         /\ new[i].successor # snap[w].layers[i].successor
              => FlushedLayers(w, new)[i].successor = new[i].successor
<1>1. /\ layers[i] \in LayerRow /\ new[i] \in LayerRow
      /\ snap[w].layers[i] \in LayerRow
      /\ FlushedLayers(w, new)[i] = Flushed(layers[i], snap[w].layers[i], new[i])
  BY DEF CInv, TypeOK, Snapshot, Running, FlushedLayers
<1> QED
  BY <1>1 DEF Flushed, LayerRow

\* What is left to show of such a commit when the key has not been overtaken.
Succeeds(k) ==
  /\ \E a \in LayerId : ActiveLayers(layers', k) = {a}
  /\ \A j \in Used(layers) :
       layers[j].key = k /\ layers'[j].status # "archived" => layers'[j].successor = NULL
  /\ \/ ActiveLayers(layers', k) = ActiveLayers(layers, k)
     \/ VersionNumbers(versions', LayerHistory(k)) # Numbers(LayerHistory(k))

LEMMA StatusActive ==
  ASSUME AInv, NEW w \in Worker, Running(w), NEW new \in [LayerId -> LayerRow], NEW k \in Key,
         layers' = FlushedLayers(w, new),
         \A j \in LayerId : new[j].key = snap[w].layers[j].key,
         \A j \in LayerId : new[j] # snap[w].layers[j] =>
           /\ j \in Used(snap[w].layers) /\ snap[w].layers[j].key = k
           /\ new[j].status # "none",
         overtaken \subseteq overtaken',
         k \notin overtaken' => Succeeds(k)
  PROVE  ActiveCommit
<1>1. CInv
  BY DEF AInv
<1>2. \A j \in LayerId :
        /\ layers'[j].key = layers[j].key
        /\ j \in Used(layers)' => j \in Used(layers)
        /\ layers[j].key # k => layers'[j] = layers[j]
  <2> SUFFICES ASSUME NEW j \in LayerId
               PROVE  /\ layers'[j].key = layers[j].key
                      /\ j \in Used(layers)' => j \in Used(layers)
                      /\ layers[j].key # k => layers'[j] = layers[j]
    OBVIOUS
  <2>1. layers'[j].key = layers[j].key
    BY <1>1, FlushedTypes
  <2>2. CASE new[j] = snap[w].layers[j]
    BY <1>1, <2>1, <2>2, FlushedTypes DEF Used
  <2>3. CASE new[j] # snap[w].layers[j]
    BY <1>1, <2>1, <2>3 DEF CInv, RowsKept
  <2> QED
    BY <2>2, <2>3
<1>3. \A q : q # k => ActiveLayers(layers', q) = ActiveLayers(layers, q)
  BY <1>2 DEF ActiveLayers
<1>4. Sound(layers)'
  <2> SUFFICES ASSUME NEW j \in LayerId, j \in Used(layers)', layers'[j].key \notin overtaken'
               PROVE  /\ \E a \in LayerId : ActiveLayers(layers', layers'[j].key) = {a}
                      /\ layers'[j].status # "archived" => layers'[j].successor = NULL
    BY DEF Sound, Used, ActiveLayers
  <2>1. j \in Used(layers) /\ layers'[j].key = layers[j].key
    BY <1>2
  <2>2. CASE layers[j].key = k
    BY <2>1, <2>2 DEF Succeeds
  <2>3. CASE layers[j].key # k
    <3>1. /\ \E a \in LayerId : ActiveLayers(layers, layers[j].key) = {a}
          /\ layers[j].status # "archived" => layers[j].successor = NULL
      BY <2>1 DEF AInv, Sound
    <3> QED
      BY <1>2, <1>3, <2>1, <2>3, <3>1
  <2> QED
    BY <2>2, <2>3
<1>5. \A q \in Key : HasLayer(layers', q) => HasLayer(layers, q)
  BY <1>2 DEF HasLayer, Used
<1>6. \A q \in Key \ overtaken' :
        \/ ActiveLayers(layers', q) = ActiveLayers(layers, q)
        \/ VersionNumbers(versions', LayerHistory(q)) # Numbers(LayerHistory(q))
  BY <1>3 DEF Succeeds
<1> QED
  BY <1>4, <1>5, <1>6 DEF ActiveCommit

\* What a promotion does to the layers of a key that has not been overtaken: the one
\* active layer is d itself, or is superseded by d.
LEMMA PromotesOne ==
  ASSUME AInv, NEW w \in Worker, NEW d \in LayerId, PromoteDraft(w, d),
         layers[d].key \notin overtaken'
  PROVE  /\ Succeeds(layers[d].key)
         /\ \A a \in ActiveLayers(layers, layers[d].key) :
              a # d => layers'[a].status = "archived" /\ layers'[a].successor = d
<1> DEFINE k == layers[d].key
           read == snap[w].layers
<1>1. /\ Running(w) /\ CInv /\ d \in Used(read) /\ read \in [LayerId -> LayerRow]
      /\ layers \in [LayerId -> LayerRow]
  BY SnapshotTypes DEF PromoteDraft, AInv, CInv, TypeOK
<1>2. d \in Used(layers) /\ k \in Key /\ read[d].key = k
  BY <1>1 DEF CInv, RowsKept, KeysKnown, Key, TypeOK
<1>3. LayerHistory(k) \in History /\ <<"layer", d>> \in VersionData
  BY <1>2 DEF LayerHistory, History, VersionData
<1>4. /\ Numbers(LayerHistory(k)) = Seen(w, LayerHistory(k))
      /\ VersionNumbers(versions', LayerHistory(k)) # Numbers(LayerHistory(k))
  BY <1>1, <1>3, RecordedSerial DEF PromoteDraft
<1>5. layers[d].status # "archived" /\ k \notin overtaken
  BY DEF PromoteDraft
<1>6. PICK prev \in Superseded(read, d) : layers' = FlushedLayers(w, Promoted(read, d, prev))
  BY DEF PromoteDraft
<1> DEFINE new == Promoted(read, d, prev)
<1>7. new \in [LayerId -> LayerRow]
  BY <1>1, TableTypes
<1>8. ActiveLayers(layers, k) = ActiveLayers(read, k)
  BY <1>1, <1>2, <1>4, <1>5 DEF AInv, ActiveSeen, HasLayer
<1>9. PICK a \in LayerId : ActiveLayers(layers, k) = {a}
  BY <1>2, <1>5 DEF AInv, Sound
<1>10. read[d].status \in {"draft", "active"}
  BY DEF PromoteDraft, ValidTransition, AllowedTransitions, Used
<1>11. \A j \in Used(layers) : layers[j].key = k /\ layers[j].status # "archived"
                                => layers[j].successor = NULL
  BY <1>5 DEF AInv, Sound
<1>12. read[a].status = "active" /\ read[a].key = k /\ read[a].successor = NULL
  BY <1>1, <1>5, <1>8, <1>9 DEF ActiveLayers, AInv, Sound, Used
<1>13. CASE d = a
  <2>1. prev = NULL
    BY <1>2, <1>6, <1>8, <1>9, <1>13 DEF Superseded
  <2>2. \A j \in LayerId : /\ new[j].status = read[j].status /\ new[j].key = read[j].key
                           /\ new[j].successor = read[j].successor
    BY <1>1, <1>12, <1>13, <2>1, NullDistinct DEF Promoted, LayerRow
  <2> HIDE DEF new
  <2>3. \A j \in LayerId :
          /\ layers'[j].status = layers[j].status /\ layers'[j].key = layers[j].key
          /\ layers'[j].successor = layers[j].successor
    BY <1>1, <1>6, <1>7, <2>2, FlushedTypes, FlushedSuccessor DEF new
  <2>4. ActiveLayers(layers', k) = ActiveLayers(layers, k)
    BY <2>3 DEF ActiveLayers
  <2>5. \A j \in Used(layers) :
          layers[j].key = k /\ layers'[j].status # "archived" => layers'[j].successor = NULL
    BY <1>11, <2>3 DEF Used
  <2>6. Succeeds(k)
    BY <1>9, <2>4, <2>5 DEF Succeeds
  <2>7. \A b \in ActiveLayers(layers, k) : b = d
    BY <1>9, <1>13
  <2> QED
    BY <2>6, <2>7
<1>14. CASE d # a
  <2>1. prev = a
    BY <1>2, <1>6, <1>8, <1>9, <1>14 DEF Superseded
  <2>2. read[d].status = "draft"
    BY <1>2, <1>8, <1>9, <1>10, <1>14 DEF ActiveLayers
  <2>3. /\ new[d].status = "active" /\ new[d].key = k /\ new[d].successor = read[d].successor
        /\ new[a].status = "archived" /\ new[a].key = k /\ new[a].successor = d
        /\ \A j \in LayerId : j # d /\ j # a => new[j] = read[j]
    <3>1. read[d] \in LayerRow /\ read[a] \in LayerRow
      BY <1>1
    <3>2. /\ new[d] = [read[d] EXCEPT !.status = "active", !.published = TRUE]
          /\ new[a] = [read[a] EXCEPT !.status = "archived", !.successor = d]
          /\ \A j \in LayerId : j # d /\ j # a => new[j] = read[j]
      BY <1>14, <2>1 DEF Promoted
    <3> HIDE DEF new
    <3> QED
      BY <1>2, <1>12, <3>1, <3>2 DEF LayerRow
  <2>4. d # NULL
    BY NullDistinct
  <2> HIDE DEF new
  <2>5. layers'[d].status = "active" /\ layers'[d].successor = layers[d].successor
    BY <1>1, <1>6, <1>7, <2>2, <2>3, FlushedTypes, FlushedSuccessor DEF new
  <2>6. layers'[a].status = "archived" /\ layers'[a].successor = d
    BY <1>1, <1>6, <1>7, <1>12, <2>3, <2>4, FlushedTypes, FlushedSuccessor DEF new
  <2>7. layers'[d].key = k /\ \A j \in LayerId : j # d /\ j # a => layers'[j] = layers[j]
    BY <1>1, <1>2, <1>6, <1>7, <2>3, FlushedTypes DEF new
  <2>8. ActiveLayers(layers', k) = {d}
    BY <1>9, <2>5, <2>6, <2>7 DEF ActiveLayers
  <2>9. \A j \in Used(layers) :
          layers[j].key = k /\ layers'[j].status # "archived" => layers'[j].successor = NULL
    BY <1>2, <1>5, <1>11, <2>5, <2>6, <2>7 DEF Used
  <2> QED
    BY <1>4, <1>9, <2>6, <2>8, <2>9 DEF Succeeds
<1> QED
  BY <1>13, <1>14

LEMMA PromoteDraftActive ==
  ASSUME AInv, NEW w \in Worker, NEW d \in LayerId, PromoteDraft(w, d)
  PROVE  ActiveCommit
<1>1. /\ Running(w) /\ CInv /\ d \in Used(snap[w].layers)
      /\ snap[w].layers \in [LayerId -> LayerRow]
  BY SnapshotTypes DEF PromoteDraft, AInv
<1>2. /\ layers[d].key \in Key /\ snap[w].layers[d].key = layers[d].key
      /\ overtaken \subseteq overtaken'
  BY <1>1 DEF CInv, RowsKept, KeysKnown, Key, TypeOK, PromoteDraft
<1>3. PICK prev \in Superseded(snap[w].layers, d) :
        layers' = FlushedLayers(w, Promoted(snap[w].layers, d, prev))
  BY DEF PromoteDraft
<1> DEFINE new == Promoted(snap[w].layers, d, prev)
<1>4. new \in [LayerId -> LayerRow]
  BY <1>1, TableTypes
<1>5. prev \in LayerId =>
        prev \in Used(snap[w].layers) /\ snap[w].layers[prev].key = layers[d].key
  BY <1>2, <1>3, NullDistinct DEF Superseded, ActiveLayers, Used
<1>6. \A j \in LayerId :
        /\ new[j].key = snap[w].layers[j].key
        /\ new[j] # snap[w].layers[j] =>
             /\ j \in Used(snap[w].layers) /\ snap[w].layers[j].key = layers[d].key
             /\ new[j].status # "none"
  BY <1>1, <1>2, <1>5, PromotedRows
<1> HIDE DEF new
<1> QED
  BY <1>1, <1>2, <1>3, <1>4, <1>6, PromotesOne, StatusActive DEF new

\* Archiving what was read as a draft and is not active yet takes nothing away.
LEMMA ArchiveDraftActive ==
  ASSUME AInv, NEW w \in Worker, NEW d \in LayerId, ArchiveDraft(w, d)
  PROVE  ActiveCommit
<1> DEFINE new == Archived(snap[w].layers, d)
           k == layers[d].key
<1>1. /\ Running(w) /\ CInv /\ d \in Used(snap[w].layers)
      /\ snap[w].layers \in [LayerId -> LayerRow]
      /\ snap[w].layers[d].status = "draft"
      /\ layers' = FlushedLayers(w, new)
  BY SnapshotTypes DEF ArchiveDraft, AInv, Used
<1>2. /\ k \in Key /\ snap[w].layers[d].key = k /\ d \in Used(layers)
      /\ overtaken \subseteq overtaken'
  BY <1>1 DEF CInv, RowsKept, KeysKnown, Key, TypeOK, ArchiveDraft
<1>3. new \in [LayerId -> LayerRow]
  BY <1>1, TableTypes
<1>4. /\ new[d].key = k /\ new[d].status = "archived"
      /\ \A j \in LayerId : j # d => new[j] = snap[w].layers[j]
  BY <1>1, <1>2 DEF Archived, LayerRow
<1> HIDE DEF new
<1>5. ASSUME k \notin overtaken'
      PROVE  Succeeds(k)
  <2>1. layers[d].status # "active" /\ k \notin overtaken
    BY <1>5 DEF ArchiveDraft
  <2>2. layers'[d].status = "archived" /\ \A j \in LayerId : j # d => layers'[j] = layers[j]
    BY <1>1, <1>3, <1>4, FlushedTypes
  <2>3. ActiveLayers(layers', k) = ActiveLayers(layers, k)
    BY <2>1, <2>2 DEF ActiveLayers
  <2>4. /\ \E a \in LayerId : ActiveLayers(layers, k) = {a}
        /\ \A j \in Used(layers) : layers[j].key = k /\ layers[j].status # "archived"
                                    => layers[j].successor = NULL
    BY <1>2, <2>1 DEF AInv, Sound
  <2> QED
    BY <2>2, <2>3, <2>4 DEF Succeeds, Used
<1>6. \A j \in LayerId :
        /\ new[j].key = snap[w].layers[j].key
        /\ new[j] # snap[w].layers[j] =>
             /\ j \in Used(snap[w].layers) /\ snap[w].layers[j].key = k
             /\ new[j].status # "none"
  BY <1>1, <1>2, <1>4
<1> QED
  BY <1>1, <1>2, <1>3, <1>5, <1>6, StatusActive

\* No other request makes an active layer of a draft.
LEMMA PromotesOnly ==
  ASSUME AInv, NEW w \in Worker, Handler(w), NEW d \in LayerId,
         layers[d].status = "draft", layers'[d].status = "active"
  PROVE  PromoteDraft(w, d)
<1>1. CInv /\ Running(w) /\ snap[w].layers \in [LayerId -> LayerRow]
      /\ layers \in [LayerId -> LayerRow] /\ d \in Used(layers)
  BY HandlerRuns, SnapshotTypes DEF AInv, CInv, TypeOK, Used
<1>2. ASSUME NEW k \in Key, NEW i \in LayerId, NEW f \in Field,
             NEW row \in FieldOverride, NEW data \in VersionData,
             EditField(w, k, i, f, row, data)
      PROVE  FALSE
  <2> DEFINE new == WithActive(snap[w].layers, k, i)
  <2>1. new \in [LayerId -> LayerRow] /\ layers' = FlushedLayers(w, new)
    BY <1>1, <1>2, TableTypes DEF EditField
  <2>2. CASE new[d] = snap[w].layers[d]
    BY <1>1, <2>1, <2>2, FlushedTypes
  <2>3. CASE new[d] # snap[w].layers[d]
    BY <1>1, <1>2, <2>3 DEF WithActive, EditField, EditedLayers, Inserted
  <2> QED
    BY <2>2, <2>3
<1>3. ASSUME NEW l \in Language, NEW i \in LayerId, CreateLanguage(w, l, i)
      PROVE  FALSE
  BY <1>1, <1>3 DEF CreateLanguage
<1>4. ASSUME NEW h \in Restorable, NEW n \in 1..MaxVersion, RestoreVersion(w, h, n)
      PROVE  FALSE
  BY <1>4 DEF RestoreVersion
<1>5. ASSUME NEW k \in Key, NEW src \in LayerId, NEW e \in LayerId, CreateDraft(w, k, src, e)
      PROVE  FALSE
  <2> DEFINE new == Cloned(snap[w].layers, src, e)
  <2>1. src \in Used(snap[w].layers) /\ snap[w].layers[src].key = k
    BY <1>5 DEF CreateDraft, ActiveLayers, Used
  <2>2. new \in [LayerId -> LayerRow] /\ layers' = FlushedLayers(w, new)
    BY <1>1, <1>5, <2>1, TableTypes DEF CreateDraft
  <2>3. e # d
    BY <1>1, <1>5 DEF CreateDraft
  <2>4. new[d] = snap[w].layers[d]
    BY <1>1, <2>3 DEF Cloned
  <2> QED
    BY <1>1, <2>2, <2>4, FlushedTypes
<1>6. ASSUME NEW e \in LayerId, PromoteDraft(w, e), e # d
      PROVE  FALSE
  <2>1. PICK prev : layers' = FlushedLayers(w, Promoted(snap[w].layers, e, prev))
    BY <1>6 DEF PromoteDraft
  <2> DEFINE new == Promoted(snap[w].layers, e, prev)
  <2>2. new \in [LayerId -> LayerRow]
    BY <1>1, TableTypes
  <2>3. new[d].status = "archived" \/ new[d] = snap[w].layers[d]
    BY <1>1, <1>6, PromotedRows
  <2> HIDE DEF new
  <2> QED
    BY <1>1, <2>1, <2>2, <2>3, FlushedTypes DEF new
<1>7. ASSUME NEW e \in LayerId, ArchiveDraft(w, e)
      PROVE  FALSE
  <2> DEFINE new == Archived(snap[w].layers, e)
  <2>1. new \in [LayerId -> LayerRow] /\ layers' = FlushedLayers(w, new)
    BY <1>1, <1>7, TableTypes DEF ArchiveDraft
  <2>2. new[d].status = "archived" \/ new[d] = snap[w].layers[d]
    BY <1>1 DEF Archived, LayerRow
  <2> HIDE DEF new
  <2> QED
    BY <1>1, <2>1, <2>2, FlushedTypes
<1> QED
  BY <1>2, <1>3, <1>4, <1>5, <1>6, <1>7 DEF Handler

-----------------------------------------------------------------------------
(* The theorems.                                                           *)

LEMMA HandlerActive ==
  ASSUME AInv, NEW w \in Worker, Handler(w)
  PROVE  ActiveCommit
<1>1. ASSUME NEW h \in Restorable, NEW n \in 1..MaxVersion, RestoreVersion(w, h, n)
      PROVE  ActiveCommit
  BY <1>1, LayersStay DEF RestoreVersion
<1> QED
  BY <1>1, EditFieldActive, CreateLanguageActive, CreateDraftActive, PromoteDraftActive,
     ArchiveDraftActive DEF Handler

\* An imported database has one active layer per key it has layers of.
THEOREM InitAInv == Init => AInv
<1> SUFFICES ASSUME Init PROVE AInv
  OBVIOUS
<1>1. \A w \in Worker : ~Running(w)
  BY DEF Init, Running
<1>2. ASSUME NEW i \in Used(layers)
      PROVE  /\ ActiveLayers(layers, layers[i].key) = {i}
             /\ layers[i].successor = NULL
  <2>1. \A j \in Used(layers) : layers[j].status = "active" /\ layers[j].successor = NULL
    BY DEF Init, Used, Unused, NewLayer
  <2>2. \A j \in Used(layers) : layers[i].key = layers[j].key => i = j
    BY DEF Init
  <2>3. ActiveLayers(layers, layers[i].key) = {i}
    BY <2>1, <2>2 DEF ActiveLayers, Used
  <2> QED
    BY <2>1, <2>3
<1>3. Sound(layers)
  BY <1>2 DEF Sound, Used
<1> QED
  BY <1>1, <1>3, InitCInv DEF AInv

\* Beginning or aborting a request, like a stutter, leaves the layers alone.
LEMMA IdleKeepsActive ==
  ASSUME AInv, CInv', layers' = layers, versions' = versions, overtaken' = overtaken,
         \A x \in Worker : Running(x)' =>
           \/ snap'[x] = snap[x] /\ Running(x)
           \/ snap'[x].layers = layers /\ snap'[x].versions = versions
  PROVE  AInv'
<1>1. Sound(layers)'
  BY DEF AInv, Sound, Used, ActiveLayers
<1>2. ASSUME NEW x \in Worker, Running(x)'
      PROVE  Sound(snap[x].layers)' /\ FirstsSeen(x)' /\ ActiveSeen(x)'
  <2>1. CASE snap'[x] = snap[x] /\ Running(x)
    <3>1. Sound(snap[x].layers) /\ FirstsSeen(x) /\ ActiveSeen(x)
      BY <2>1 DEF AInv
    <3> QED
      BY <2>1, <3>1 DEF Sound, FirstsSeen, ActiveSeen, HasLayer, Used, ActiveLayers, Numbers, Seen
  <2>2. CASE snap'[x].layers = layers /\ snap'[x].versions = versions
    BY <2>2 DEF AInv, Sound, FirstsSeen, ActiveSeen, HasLayer, Used, ActiveLayers
  <2> QED
    BY <1>2, <2>1, <2>2
<1> QED
  BY <1>1, <1>2 DEF AInv

\* The invariant is preserved: by every request that commits, whatever it overlapped.
THEOREM NextAInv == AInv /\ [Next]_vars => AInv'
<1> SUFFICES ASSUME AInv, [Next]_vars PROVE AInv'
  OBVIOUS
<1>1. CInv /\ CInv'
  BY NextCInv DEF AInv
<1>2. ASSUME NEW w \in Worker, Begin(w)
      PROVE  AInv'
  <2>1. /\ snap'[w].layers = layers /\ snap'[w].versions = versions
        /\ \A x \in Worker : x # w => snap'[x] = snap[x]
    BY <1>1, <1>2 DEF Begin, CInv, TypeOK
  <2> QED
    BY <1>1, <1>2, <2>1, IdleKeepsActive DEF Begin, tables, Running
<1>3. ASSUME NEW w \in Worker, Abort(w)
      PROVE  AInv'
  <2>1. \A x \in Worker : Running(x)' => snap'[x] = snap[x] /\ Running(x)
    BY <1>1, <1>3 DEF Abort, Ended, CInv, TypeOK, Running
  <2> QED
    BY <1>1, <1>3, <2>1, IdleKeepsActive DEF Abort, tables
<1>4. ASSUME NEW w \in Worker, Handler(w)
      PROVE  AInv'
  BY <1>1, <1>4, HandlerRuns, HandlerCommits, HandlerActive, ActiveCommitKeeps
<1>5. CASE UNCHANGED vars
  BY <1>1, <1>5, IdleKeepsActive DEF vars, tables, Running
<1> QED
  BY <1>1, <1>2, <1>3, <1>4, <1>5, NextHandlers

\* However many requests overlap, a key that has layers has exactly one active layer,
\* unless one of its drafts was promoted and archived by requests that overlapped.
THEOREM OneActive == Spec => []OneActiveUnlessOvertaken
<1>1. AInv => OneActiveUnlessOvertaken
  BY DEF AInv, Sound, OneActiveUnlessOvertaken
<1> QED
  BY InitAInv, NextAInv, <1>1, PTL DEF Spec

\* Whatever a promotion had read, it supersedes the layer that is active when it
\* commits, unless its draft has been archived in the meantime.
THEOREM PromotionSupersedes == Spec => SupersedesTheActive
<1>1. AInv /\ [Next]_vars =>
        [\A d \in LayerId :
           layers[d].status = "draft" /\ layers'[d].status = "active"
             /\ layers[d].key \notin overtaken'
           => \A i \in ActiveLayers(layers, layers[d].key) :
                layers'[i].status = "archived" /\ layers'[i].successor = d]_vars
  <2> SUFFICES ASSUME AInv, Next, NEW d \in LayerId,
                      layers[d].status = "draft", layers'[d].status = "active",
                      layers[d].key \notin overtaken',
                      NEW i \in ActiveLayers(layers, layers[d].key)
               PROVE  layers'[i].status = "archived" /\ layers'[i].successor = d
    OBVIOUS
  <2>1. PICK w \in Worker : Begin(w) \/ Abort(w) \/ Handler(w)
    BY NextHandlers DEF AInv
  <2>2. Handler(w)
    BY <2>1 DEF Begin, Abort, tables
  <2>3. PromoteDraft(w, d)
    BY <2>2, PromotesOnly, Zenon
  <2> QED
    BY <2>3, PromotesOne DEF ActiveLayers
<1> QED
  BY InitAInv, NextAInv, <1>1, PTL DEF Spec, SupersedesTheActive
=============================================================================
