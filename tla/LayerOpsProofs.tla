--------------------------- MODULE LayerOpsProofs ---------------------------
(***************************************************************************)
(* Lemmas about the operators of LayerOps, for the proofs about the        *)
(* modules built from them.                                                *)
(***************************************************************************)
EXTENDS LayerOps, TLAPS

-----------------------------------------------------------------------------
(* Version numbers.                                                        *)

\* If the numbers of a history are 1..n, max(version_number) + 1 is n + 1.
LEMMA NextNumber ==
  ASSUME NEW vs, NEW h, NEW n \in Nat, VersionNumbers(vs, h) = 1..n
  PROVE  NextVersionNumber(vs, h) = n + 1
<1>1. CASE n = 0
  BY <1>1 DEF NextVersionNumber
<1>2. CASE n # 0
  <2>1. n \in 1..n /\ \A m \in 1..n : n >= m
    BY <1>2
  <2>2. Max(1..n) \in 1..n /\ \A m \in 1..n : Max(1..n) >= m
    BY <2>1 DEF Max
  <2>3. Max(1..n) = n
    BY <2>1, <2>2
  <2>4. QED
    BY <1>2, <2>1, <2>3 DEF NextVersionNumber
<1>3. QED
  BY <1>1, <1>2

\* A version numbered max + 1 leaves its history without gap or duplicate.
LEMMA NewVersionKeeps ==
  ASSUME NEW max \in Nat, NEW vs \in SUBSET VersionRow, Gapless(vs, max),
         NEW h \in History, NEW data \in VersionData, NextVersionNumber(vs, h) <= max
  PROVE  /\ vs \cup {NewVersion(vs, h, data)} \in SUBSET VersionRow
         /\ Gapless(vs \cup {NewVersion(vs, h, data)}, max)
<1> DEFINE new == NewVersion(vs, h, data)
           all == vs \cup {new}
<1>1. PICK n \in 0..max : VersionNumbers(vs, h) = 1..n
  BY DEF Gapless
<1>2. n \in Nat /\ NextVersionNumber(vs, h) = n + 1 /\ n + 1 \in 0..max
  BY <1>1, NextNumber
<1>3. new.history = h /\ new.number = n + 1 /\ new \in VersionRow
  BY <1>2 DEF NewVersion, VersionRow
<1> HIDE DEF new
<1>4. \A v \in vs : v.history = h => v.number \in 1..n
  BY <1>1 DEF VersionNumbers
<1>5. ASSUME NEW v \in all, NEW w \in all, v.history = w.history, v.number = w.number
      PROVE  v = w
  BY <1>2, <1>3, <1>4, <1>5 DEF Gapless
<1>6. ASSUME NEW g \in History
      PROVE  \E m \in 0..max : VersionNumbers(all, g) = 1..m
  <2>1. CASE g = h
    <3>1. VersionNumbers(all, g) = VersionNumbers(vs, h) \cup {n + 1}
      BY <1>3, <2>1 DEF VersionNumbers
    <3>2. 1..(n + 1) = (1..n) \cup {n + 1}
      BY <1>2
    <3>3. VersionNumbers(all, g) = 1..(n + 1)
      BY <1>1, <3>1, <3>2
    <3>4. QED
      BY <1>2, <3>3
  <2>2. CASE g # h
    <3>1. VersionNumbers(all, g) = VersionNumbers(vs, g)
      BY <1>3, <2>2 DEF VersionNumbers
    <3>2. QED
      BY <3>1 DEF Gapless
  <2>3. QED
    BY <2>1, <2>2
<1>7. all \in SUBSET VersionRow
  BY <1>3
<1>8. Gapless(all, max)
  BY <1>5, <1>6 DEF Gapless
<1>9. QED
  BY <1>7, <1>8 DEF new

-----------------------------------------------------------------------------
(* Types.                                                                  *)

\* The row operators return override rows.
LEMMA RowTypes ==
  ASSUME NEW row \in FieldOverride
  PROVE  /\ \A v \in Value : Updated(row, v) \in FieldOverride
         /\ \A type : Reset(row, type) \in FieldOverride
         /\ \A p \in Preset : /\ PresetAdded(row, p) \in FieldOverride
                             /\ PresetsWith(row, p) \in SUBSET Preset
         /\ \A gone : PresetsRemoved(row, gone) \in FieldOverride
<1>1. \A v \in Value : Updated(row, v) \in FieldOverride
  BY DEF Updated, FieldOverride
<1>2. \A type : Reset(row, type) \in FieldOverride
  BY DEF Reset, FieldOverride
<1>3. row.content # NULL => row.content \in ContentRow
  BY DEF FieldOverride
<1>4. ASSUME NEW p \in Preset
      PROVE  PresetAdded(row, p) \in FieldOverride /\ PresetsWith(row, p) \in SUBSET Preset
  <2>1. PresetsWith(row, p) \in SUBSET Preset
    BY <1>3 DEF PresetsWith, ContentRow
  <2>2. QED
    BY <1>3, <2>1 DEF PresetAdded, FieldOverride, ContentRow
<1>5. ASSUME NEW gone
      PROVE  PresetsRemoved(row, gone) \in FieldOverride
  BY <1>3 DEF PresetsRemoved, FieldOverride, ContentRow
<1>6. QED
  BY <1>1, <1>2, <1>4, <1>5

\* The row operators on the layer table return layer tables.
LEMMA TableTypes ==
  ASSUME NEW ls \in [LayerId -> LayerRow], NEW i \in LayerId
  PROVE  /\ \A k \in Key : WithActive(ls, k, i) \in [LayerId -> LayerRow]
         /\ \A k \in Key : [ls EXCEPT ![i] = NewLayer(k, "active", NULL)]
                                \in [LayerId -> LayerRow]
         /\ \A src \in Used(ls) :
              ls[src].key \in Key => Cloned(ls, src, i) \in [LayerId -> LayerRow]
         /\ \A prev : Promoted(ls, i, prev) \in [LayerId -> LayerRow]
         /\ Archived(ls, i) \in [LayerId -> LayerRow]
<1>1. \A k \in Key : NewLayer(k, "active", NULL) \in LayerRow
  BY DEF NewLayer, LayerRow, Status
<1>2. \A k \in Key, src \in LayerId : NewLayer(k, "draft", src) \in LayerRow
  BY DEF NewLayer, LayerRow, Status
<1>3. \A prev : Promoted(ls, i, prev) \in [LayerId -> LayerRow]
  <2> SUFFICES ASSUME NEW prev, NEW j \in LayerId
               PROVE  Promoted(ls, i, prev)[j] \in LayerRow
    BY DEF Promoted
  <2>1. CASE j = i
    BY <2>1 DEF Promoted, LayerRow, Status
  <2>2. CASE j # i /\ j = prev
    BY <2>2 DEF Promoted, LayerRow, Status
  <2>3. CASE j # i /\ j # prev
    BY <2>3 DEF Promoted
  <2>4. QED
    BY <2>1, <2>2, <2>3
<1>4. Archived(ls, i) \in [LayerId -> LayerRow]
  BY DEF Archived, LayerRow, Status
<1>5. QED
  BY <1>1, <1>2, <1>3, <1>4 DEF WithActive, Cloned, Used

\* A promotion activates d, archives prev and leaves every other row alone.
LEMMA PromotedRows ==
  ASSUME NEW ls \in [LayerId -> LayerRow], NEW d \in LayerId, NEW prev,
         NEW j \in LayerId
  PROVE  LET new == Promoted(ls, d, prev)[j]
         IN  /\ j = d => new.status = "active" /\ new.key = ls[j].key
             /\ j # d /\ j = prev => new.status = "archived" /\ new.key = ls[j].key
             /\ j # d /\ j # prev => new = ls[j]
<1>1. ls[j] \in LayerRow
  OBVIOUS
<1>2. CASE j = d
  BY <1>1, <1>2 DEF Promoted, LayerRow
<1>3. CASE j # d /\ j = prev
  BY <1>1, <1>3 DEF Promoted, LayerRow
<1>4. CASE j # d /\ j # prev
  BY <1>4 DEF Promoted
<1>5. QED
  BY <1>2, <1>3, <1>4
=============================================================================
