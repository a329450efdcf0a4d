------------------------- MODULE WizardFlowsProofs -------------------------
(***************************************************************************)
(* Proofs about WizardFlows, for any number of users, flows, steps, lists  *)
(* and overlapping requests.                                               *)
(***************************************************************************)
EXTENDS WizardFlows, FiniteSetTheorems, SequenceTheorems, TLAPS

AtMostOne(S) == \A x, y \in S : x = y

\* What StepsOneList says of the rows of one flow, and that its first step is there.
OneList(rows) ==
  /\ \A r, s \in rows : r.list = s.list /\ (r.key = s.key => r = s)
  /\ {r.position : r \in rows} = 0..(Cardinality(rows) - 1)
  /\ rows # {} => \E r \in rows : r.position = 0

\* The snapshot of w is a past of the tables.  Owners stay, archived flows stay
\* archived, defaults come only with a note in newer, and the rows of a flow are those
\* of the snapshot or were all replaced.
Past(w) ==
  /\ \A f \in FlowId :
       /\ snap[w].flows[f].owner # NULL => flows[f].owner = snap[w].flows[f].owner
       /\ snap[w].flows[f].status = "archived" => flows[f].status = "archived"
       /\ snap[w].steps[f] = steps[f] \/ snap[w].steps[f] \cap steps[f] = {}
       /\ \A r \in snap[w].steps[f] : r.list <= lists
  /\ \A o \in Owner \ newer[w] :
       ActiveDefaults(flows, o) \subseteq ActiveDefaults(snap[w].flows, o)

FlowInv ==
  /\ FlowTypeOK
  /\ \A f \in FlowId : flows[f].owner = NULL => steps[f] = {}
  /\ \A f \in FlowId : OneList(steps[f])
  /\ \A f \in FlowId : \A r \in steps[f] : r.list <= lists
  /\ \A w \in Worker : Running(w) => Past(w)
  /\ \A o \in Owner : o \in doubled \/ AtMostOne(ActiveDefaults(flows, o))

-----------------------------------------------------------------------------
(* What a committed request does to flows, defaults and steps.             *)

FlowsKept ==
  /\ flows' \in [FlowId -> FlowRow]
  /\ \A f \in FlowId :
       /\ flows[f].owner # NULL => flows'[f].owner = flows[f].owner
       /\ flows[f].status = "archived" => flows'[f].status = "archived"

\* A user gets no new default, or every request in progress is noted to precede it.
DefaultsKept ==
  /\ newer' \in [Worker -> SUBSET Owner] /\ doubled' \subseteq Owner
  /\ \A o \in Owner :
       \/ /\ ActiveDefaults(flows', o) \subseteq ActiveDefaults(flows, o)
          /\ o \in doubled => o \in doubled'
          /\ \A v \in Worker : Running(v) /\ o \in newer[v] => o \in newer'[v]
       \/ /\ \A v \in Worker : Running(v) => o \in newer'[v]
          /\ o \in doubled' \/ AtMostOne(ActiveDefaults(flows', o))

StepsKept ==
  /\ steps' \in [FlowId -> SUBSET StepRow] /\ lists' \in 0..MaxLists /\ lists <= lists'
  /\ \A f \in FlowId :
       \/ steps'[f] = steps[f]
       \/ /\ lists' = lists + 1 /\ OneList(steps'[f])
          /\ \A r \in steps'[f] : r.list = lists'
  /\ \A f \in FlowId : flows'[f].owner = NULL => steps'[f] = {}

Commit(w) == Ended(w) /\ FlowsKept /\ DefaultsKept /\ StepsKept

LEMMA CommitKeeps ==
  ASSUME NEW w \in Worker, FlowInv, Commit(w)
  PROVE  FlowInv'
<1> USE FlowAssumption DEF FlowInv, Commit
<1>1. FlowTypeOK'
  <2>1. snap' \in [Worker -> Store \cup {NULL}]
    BY DEF FlowTypeOK, Ended
  <2>2. \A f \in FlowId : flows'[f] = Unused => steps'[f] = {}
    BY DEF StepsKept, Unused
  <2> QED
    BY <2>1, <2>2 DEF FlowTypeOK, FlowsKept, DefaultsKept, StepsKept
<1>2. \A f \in FlowId : flows'[f].owner = NULL => steps'[f] = {}
  BY DEF StepsKept
<1>3. \A f \in FlowId : OneList(steps'[f])
  BY DEF StepsKept
<1>4. lists \in Nat /\ lists' \in Nat /\ lists <= lists'
  BY DEF StepsKept, FlowTypeOK
<1>5. \A f \in FlowId : \A r \in steps[f] \cup steps'[f] : r.list \in Nat
  BY DEF StepsKept, FlowTypeOK, StepRow
<1>6. \A f \in FlowId : \A r \in steps'[f] : r.list <= lists'
  BY <1>4, <1>5 DEF StepsKept
<1>7. ASSUME NEW v \in Worker, Running(v)' PROVE Past(v)'
  <2>1. Running(v) /\ snap'[v] = snap[v] /\ Past(v)
    BY <1>7 DEF Ended, Running, FlowTypeOK
  <2>2. snap[v] \in Store
    BY <2>1 DEF FlowTypeOK, Running
  <2>3. ASSUME NEW f \in FlowId
        PROVE  /\ snap[v].flows[f].owner # NULL => flows'[f].owner = snap[v].flows[f].owner
               /\ snap[v].flows[f].status = "archived" => flows'[f].status = "archived"
    BY <2>1 DEF Past, FlowsKept
  <2>4. ASSUME NEW f \in FlowId, NEW r \in snap[v].steps[f] PROVE r.list <= lists'
    BY <1>4, <2>1, <2>2 DEF Past, Store, StepRow
  <2>5. ASSUME NEW f \in FlowId
        PROVE  snap[v].steps[f] = steps'[f] \/ snap[v].steps[f] \cap steps'[f] = {}
    <3>1. CASE steps'[f] = steps[f]
      BY <3>1, <2>1 DEF Past
    <3>2. CASE steps'[f] # steps[f]
      <4>1. \A r \in steps'[f] : r.list = lists + 1
        BY <3>2 DEF StepsKept
      <4>2. \A r \in snap[v].steps[f] : r.list <= lists
        BY <2>1 DEF Past
      <4> QED
        BY <4>1, <4>2, <1>4
    <3> QED
      BY <3>1, <3>2
  <2>6. ASSUME NEW o \in Owner, o \notin newer'[v]
        PROVE  ActiveDefaults(flows', o) \subseteq ActiveDefaults(snap[v].flows, o)
    <3>1. ActiveDefaults(flows', o) \subseteq ActiveDefaults(flows, o) /\ o \notin newer[v]
      BY <2>1, <2>6 DEF DefaultsKept
    <3> QED
      BY <3>1, <2>1 DEF Past
  <2> QED
    BY <2>1, <2>3, <2>4, <2>5, <2>6 DEF Past, ActiveDefaults
<1>8. ASSUME NEW o \in Owner PROVE o \in doubled' \/ AtMostOne(ActiveDefaults(flows', o))
  BY DEF DefaultsKept, AtMostOne
<1> QED
  BY <1>1, <1>2, <1>3, <1>6, <1>7, <1>8 DEF FlowInv, OneList, ActiveDefaults, AtMostOne

-----------------------------------------------------------------------------
(* The rows of a list, and of a flow after them.                           *)

SentList == Seq([key : StepKey, enabled : BOOLEAN])

LEMMA RowsOfList ==
  ASSUME FlowInv, NEW list \in SentList, lists < MaxLists
  PROVE  /\ StepRows(list) \subseteq StepRow
         /\ \A r \in StepRows(list) : r.list = lists + 1
         /\ {r.position : r \in StepRows(list)} = 0..(Len(list) - 1)
         /\ StepRows(list) # {} => \E r \in StepRows(list) : r.position = 0
<1> DEFINE row(n) == [list |-> lists + 1, key |-> list[n].key, position |-> n - 1,
                      enabled |-> list[n].enabled]
<1>1. lists \in Nat /\ lists + 1 \in 1..MaxLists
  BY FlowAssumption DEF FlowInv, FlowTypeOK
<1>2. DOMAIN list = 1..Len(list) /\ Len(list) \in Nat
  BY DEF SentList
<1>3. StepRows(list) = {row(n) : n \in 1..Len(list)}
  BY <1>2 DEF StepRows
<1>4. ASSUME NEW n \in 1..Len(list) PROVE row(n) \in StepRow
  <2>1. list[n].key \in StepKey /\ list[n].enabled \in BOOLEAN
    <3>1. list[n] \in [key : StepKey, enabled : BOOLEAN]
      BY ElementOfSeq DEF SentList
    <3> QED
      BY <3>1
  <2>2. n - 1 \in Nat
    BY <1>2
  <2> HIDE FlowAssumption
  <2> QED
    BY <1>1, <2>1, <2>2 DEF StepRow
<1>5. {r.position : r \in StepRows(list)} = 0..(Len(list) - 1)
  <2>1. \A n \in 1..Len(list) : row(n).position \in 0..(Len(list) - 1)
    BY <1>2
  <2>2. \A i \in 0..(Len(list) - 1) : i + 1 \in 1..Len(list) /\ row(i + 1).position = i
    BY <1>2
  <2>3. \A r \in StepRows(list) : r.position \in 0..(Len(list) - 1)
    BY <2>1, <1>3
  <2>4. \A i \in 0..(Len(list) - 1) : \E r \in StepRows(list) : r.position = i
    BY <2>2, <1>3
  <2> QED
    BY <2>3, <2>4
<1>6. ASSUME StepRows(list) # {} PROVE \E r \in StepRows(list) : r.position = 0
  <2>1. 0 \in 0..(Len(list) - 1)
    BY <1>6, <1>2, <1>3
  <2> QED
    BY <2>1, <1>5
<1> QED
  BY <1>1, <1>3, <1>4, <1>5, <1>6

LEMMA EnabledList ==
  ASSUME NEW keys \in Seq(StepKey)
  PROVE  AllEnabled(keys) \in SentList
<1> DEFINE row(n) == [key |-> keys[n], enabled |-> TRUE]
<1>1. DOMAIN keys = 1..Len(keys) /\ Len(keys) \in Nat /\ \A n \in 1..Len(keys) : keys[n] \in StepKey
  OBVIOUS
<1>2. \A n \in 1..Len(keys) : row(n) \in [key : StepKey, enabled : BOOLEAN]
  BY <1>1
<1>3. [n \in 1..Len(keys) |-> row(n)] \in Seq([key : StepKey, enabled : BOOLEAN])
  BY <1>1, <1>2, SeqDef
<1> QED
  BY <1>1, <1>3 DEF AllEnabled, SentList

\* Of the rows that were there, either none is left or all stand in the way.
LEMMA InsertedKeeps ==
  ASSUME FlowInv, NEW f \in FlowId, NEW kept, kept \in {{}, steps[f]},
         NEW list \in SentList, Inserted(f, kept, list),
         flows'[f].owner # NULL,
         \A g \in FlowId : g # f /\ flows'[g].owner = NULL => flows[g].owner = NULL
  PROVE  StepsKept
<1> DEFINE rows == kept \cup StepRows(list)
<1>1. /\ StepRows(list) \subseteq StepRow
      /\ \A r \in StepRows(list) : r.list = lists + 1
      /\ {r.position : r \in StepRows(list)} = 0..(Len(list) - 1)
      /\ StepRows(list) # {} => \E r \in StepRows(list) : r.position = 0
  BY RowsOfList DEF Inserted
<1>2. lists \in Nat /\ lists' = lists + 1 /\ lists' \in 0..MaxLists /\ steps \in [FlowId -> SUBSET StepRow]
  BY FlowAssumption DEF Inserted, FlowInv, FlowTypeOK
<1>3. /\ steps'[f] = rows /\ \A g \in FlowId : g # f => steps'[g] = steps[g]
      /\ rows \subseteq StepRow /\ steps' \in [FlowId -> SUBSET StepRow]
  BY <1>1, <1>2 DEF Inserted
<1>4. rows = steps[f] \/ rows = StepRows(list)
  <2>1. CASE kept # {} /\ StepRows(list) # {}
    <3>1. PICK r \in kept : r.position = 0
      BY <2>1 DEF FlowInv, OneList
    <3>2. PICK s \in StepRows(list) : s.position = 0
      BY <2>1, <1>1
    <3>3. r = s
      BY <3>1, <3>2 DEF Inserted, Unique
    <3>4. r.list <= lists /\ s.list = lists + 1
      BY <1>1, <3>1, <3>2 DEF FlowInv
    <3> QED
      BY <3>3, <3>4, <1>2
  <2>2. CASE kept = {} \/ StepRows(list) = {}
    BY <2>2
  <2> QED
    BY <2>1, <2>2
<1>5. ASSUME rows = StepRows(list) PROVE OneList(rows)
  <2>1. Len(list) = Cardinality(rows)
    BY <1>5 DEF Inserted
  <2>2. \A r, s \in rows : r.key = s.key => r = s
    BY DEF Inserted, Unique
  <2> QED
    BY <1>1, <1>5, <2>1, <2>2 DEF OneList
<1>6. \A g \in FlowId :
        \/ steps'[g] = steps[g]
        \/ /\ lists' = lists + 1 /\ OneList(steps'[g])
           /\ \A r \in steps'[g] : r.list = lists'
  BY <1>1, <1>2, <1>3, <1>4, <1>5
<1>7. \A g \in FlowId : flows'[g].owner = NULL => steps'[g] = {}
  BY <1>3 DEF FlowInv
<1> QED
  BY <1>2, <1>3, <1>6, <1>7 DEF StepsKept

-----------------------------------------------------------------------------
(* The handlers.                                                           *)

LEMMA NewFlowKeeps ==
  ASSUME FlowInv, NEW o \in Owner, NEW f \in FlowId, NEW default \in BOOLEAN,
         NEW list \in SentList, NewFlow(o, f, default, list)
  PROVE  /\ FlowsKept /\ StepsKept
         /\ flows'[f] = [Unused EXCEPT !.owner = o, !.default = default]
         /\ \A g \in FlowId : g # f => flows'[g] = flows[g]
<1>1. /\ flows[f] = Unused /\ flows' = [flows EXCEPT ![f] = [Unused EXCEPT !.owner = o, !.default = default]]
      /\ Inserted(f, {}, list) /\ flows \in [FlowId -> FlowRow]
  BY DEF NewFlow, FlowInv, FlowTypeOK
<1>2. [Unused EXCEPT !.owner = o, !.default = default] \in FlowRow
  BY DEF Unused, FlowRow
<1>3. /\ flows'[f] = [Unused EXCEPT !.owner = o, !.default = default]
      /\ \A g \in FlowId : g # f => flows'[g] = flows[g]
  BY <1>1
<1>4. FlowsKept
  BY <1>1, <1>2, <1>3 DEF FlowsKept, Unused
<1>5. flows'[f].owner # NULL
  BY <1>3, FlowAssumption DEF Unused
<1>6. StepsKept
  BY <1>1, <1>3, <1>5, InsertedKeeps
<1> QED
  BY <1>3, <1>4, <1>6

LEMMA CreateKeeps ==
  ASSUME FlowInv, NEW w \in Worker, NEW o \in Owner, NEW f \in FlowId,
         NEW keys \in {NULL} \cup Seq(StepKey), CreateFlow(w, o, f, keys)
  PROVE  Commit(w)
<1>1. PICK list \in SentList : NewFlow(o, f, FALSE, list)
  BY EnabledList, FlowAssumption DEF CreateFlow
<1>2. /\ FlowsKept /\ StepsKept
      /\ flows'[f] = [Unused EXCEPT !.owner = o, !.default = FALSE]
      /\ \A g \in FlowId : g # f => flows'[g] = flows[g]
  BY <1>1, NewFlowKeeps
<1>3. \A p \in Owner : ActiveDefaults(flows', p) \subseteq ActiveDefaults(flows, p)
  BY <1>2 DEF ActiveDefaults, Unused
<1>4. DefaultsKept
  BY <1>3 DEF CreateFlow, ghosts, DefaultsKept, FlowInv, FlowTypeOK
<1> QED
  BY <1>2, <1>4 DEF Commit, CreateFlow

LEMMA GetOrCreateKeeps ==
  ASSUME FlowInv, NEW w \in Worker, NEW o \in Owner, NEW f \in FlowId,
         GetOrCreateDefault(w, o, f)
  PROVE  Commit(w)
<1>1. NewFlow(o, f, TRUE, AllEnabled(SchemaSteps)) /\ AllEnabled(SchemaSteps) \in SentList
  BY EnabledList, FlowAssumption DEF GetOrCreateDefault
<1>2. /\ FlowsKept /\ StepsKept
      /\ flows'[f] = [Unused EXCEPT !.owner = o, !.default = TRUE]
      /\ \A g \in FlowId : g # f => flows'[g] = flows[g]
  BY <1>1, NewFlowKeeps
<1>3. newer' \in [Worker -> SUBSET Owner] /\ doubled' \subseteq Owner
  BY DEF GetOrCreateDefault, MadeDefault, FlowInv, FlowTypeOK
<1>4. ASSUME NEW p \in Owner, p # o
      PROVE  /\ ActiveDefaults(flows', p) \subseteq ActiveDefaults(flows, p)
             /\ p \in doubled => p \in doubled'
             /\ \A v \in Worker : Running(v) /\ p \in newer[v] => p \in newer'[v]
  <2>1. ActiveDefaults(flows', p) \subseteq ActiveDefaults(flows, p)
    BY <1>2, <1>4 DEF ActiveDefaults, Unused
  <2> QED
    BY <2>1 DEF GetOrCreateDefault, MadeDefault
<1>5. \A v \in Worker : Running(v) => o \in newer'[v]
  BY DEF GetOrCreateDefault, MadeDefault
<1>6. o \in doubled' \/ AtMostOne(ActiveDefaults(flows', o))
  <2>1. CASE o \in newer[w]
    BY <2>1 DEF GetOrCreateDefault
  <2>2. CASE o \notin newer[w]
    <3>1. ActiveDefaults(flows, o) = {}
      BY <2>2 DEF FlowInv, Past, GetOrCreateDefault, Ended
    <3>2. ActiveDefaults(flows', o) \subseteq {f}
      BY <3>1, <1>2 DEF ActiveDefaults
    <3> QED
      BY <3>2 DEF AtMostOne
  <2> QED
    BY <2>1, <2>2
<1>7. DefaultsKept
  BY <1>3, <1>4, <1>5, <1>6 DEF DefaultsKept
<1> QED
  BY <1>2, <1>7 DEF Commit, GetOrCreateDefault

LEMMA OwnedStays ==
  ASSUME FlowInv, NEW w \in Worker, Running(w), NEW o \in Owner, NEW f \in FlowId,
         Owns(w, o, f)
  PROVE  flows[f].owner = o /\ snap[w].flows[f] \in FlowRow
BY FlowAssumption DEF FlowInv, FlowTypeOK, Past, Owns, Running, Store

LEMMA UpdateKeeps ==
  ASSUME FlowInv, NEW w \in Worker, NEW o \in Owner, NEW f \in FlowId,
         NEW list \in SentList, UpdateFlow(w, o, f, list)
  PROVE  Commit(w)
<1>1. flows[f].owner = o /\ Running(w) /\ UNCHANGED <<flows, newer, doubled>>
  BY OwnedStays DEF UpdateFlow, Ended, ghosts
<1>2. steps[f] \ snap[w].steps[f] \in {{}, steps[f]}
  <2>1. snap[w].steps[f] = steps[f] \/ snap[w].steps[f] \cap steps[f] = {}
    BY <1>1 DEF FlowInv, Past
  <2> QED
    BY <2>1
<1>3. StepsKept
  BY <1>1, <1>2, InsertedKeeps, FlowAssumption DEF UpdateFlow
<1>4. FlowsKept /\ DefaultsKept
  BY <1>1 DEF FlowsKept, DefaultsKept, FlowInv, FlowTypeOK
<1> QED
  BY <1>3, <1>4 DEF Commit, UpdateFlow

\* Rows of steps stay with their flows when no flow loses its owner.
LEMMA StepsUntouched ==
  ASSUME FlowInv, UNCHANGED <<steps, lists>>,
         \A f \in FlowId : flows'[f].owner = flows[f].owner
  PROVE  StepsKept
BY FlowAssumption DEF StepsKept, FlowInv, FlowTypeOK

LEMMA ArchiveKeeps ==
  ASSUME FlowInv, NEW w \in Worker, NEW o \in Owner, NEW f \in FlowId,
         ArchiveFlow(w, o, f)
  PROVE  Commit(w)
<1>1. flows[f].owner = o /\ Running(w) /\ snap[w].flows[f] \in FlowRow
  BY OwnedStays DEF ArchiveFlow, Ended
<1>2. flows \in [FlowId -> FlowRow] /\ flows[f] \in FlowRow
  BY DEF FlowInv, FlowTypeOK
<1>3. snap[w].flows[f].status = "archived" => flows[f].status = "archived"
  BY <1>1 DEF FlowInv, Past
<1>4. /\ Assigned(w, f, FALSE, "archived") \in FlowRow
      /\ Assigned(w, f, FALSE, "archived").owner = flows[f].owner
      /\ Assigned(w, f, FALSE, "archived").status = "archived"
  BY <1>1, <1>2, <1>3 DEF Assigned, FlowRow
<1>5. /\ flows' = [flows EXCEPT ![f] = Assigned(w, f, FALSE, "archived")]
      /\ UNCHANGED <<steps, lists, newer, doubled>>
  BY DEF ArchiveFlow, ghosts
<1>6. FlowsKept
  BY <1>2, <1>4, <1>5 DEF FlowsKept
<1>7. \A p \in Owner : ActiveDefaults(flows', p) \subseteq ActiveDefaults(flows, p)
  BY <1>2, <1>4, <1>5 DEF ActiveDefaults
<1>8. DefaultsKept
  BY <1>5, <1>7 DEF DefaultsKept, FlowInv, FlowTypeOK
<1>9. StepsKept
  BY <1>2, <1>4, <1>5, StepsUntouched
<1> QED
  BY <1>6, <1>8, <1>9 DEF Commit, ArchiveFlow

LEMMA SetDefaultKeeps ==
  ASSUME FlowInv, NEW w \in Worker, NEW o \in Owner, NEW f \in FlowId,
         SetDefault(w, o, f)
  PROVE  Commit(w)
<1> DEFINE chosen == Assigned(w, f, TRUE, snap[w].flows[f].status)
           other(g) == [flows[g] EXCEPT !.default = @ /\ flows[g].owner # o]
<1>1. flows[f].owner = o /\ Running(w)
  BY OwnedStays DEF SetDefault, Ended
<1>2. flows \in [FlowId -> FlowRow]
  BY DEF FlowInv, FlowTypeOK
<1>3. /\ chosen \in FlowRow /\ chosen.owner = o /\ chosen.status = flows[f].status
  BY <1>1, <1>2 DEF Assigned, FlowRow
<1>4. ASSUME NEW g \in FlowId
      PROVE  /\ other(g) \in FlowRow /\ other(g).owner = flows[g].owner
             /\ other(g).status = flows[g].status
             /\ other(g).default = (flows[g].default /\ flows[g].owner # o)
  BY <1>2 DEF FlowRow
<1>5. flows' = [g \in FlowId |-> IF g = f THEN chosen ELSE other(g)]
  BY DEF SetDefault
<1>6. flows' \in [FlowId -> FlowRow] /\ \A g \in FlowId : flows'[g].owner = flows[g].owner
                                      /\ flows'[g].status = flows[g].status
  BY <1>1, <1>3, <1>4, <1>5
<1>7. FlowsKept
  BY <1>6 DEF FlowsKept
<1>8. ActiveDefaults(flows', o) \subseteq {f}
  BY <1>4, <1>5 DEF ActiveDefaults
<1>9. ASSUME NEW p \in Owner, p # o
      PROVE  ActiveDefaults(flows', p) \subseteq ActiveDefaults(flows, p)
  BY <1>9, <1>1, <1>3, <1>4, <1>5 DEF ActiveDefaults
<1>10. DefaultsKept
  <2>1. newer' \in [Worker -> SUBSET Owner] /\ doubled' \subseteq Owner
    BY DEF SetDefault, MadeDefault, FlowInv, FlowTypeOK
  <2>2. \A v \in Worker : Running(v) => newer'[v] = newer[v] \cup {o}
    BY DEF SetDefault, MadeDefault
  <2>3. doubled' = doubled \ {o}
    BY DEF SetDefault
  <2> QED
    BY <1>8, <1>9, <2>1, <2>2, <2>3 DEF DefaultsKept, AtMostOne
<1>11. StepsKept
  BY <1>6, StepsUntouched DEF SetDefault
<1> QED
  BY <1>7, <1>10, <1>11 DEF Commit, SetDefault

-----------------------------------------------------------------------------
(* The invariant.                                                          *)

LEMMA FlowInvInit == Init => FlowInv
<1> SUFFICES ASSUME Init PROVE FlowInv
  OBVIOUS
<1>1. FlowTypeOK
  BY FlowAssumption DEF Init, FlowTypeOK, FlowRow, Unused
<1>2. OneList({})
  <2>1. Cardinality({}) = 0
    BY FS_EmptySet
  <2> QED
    BY <2>1 DEF OneList
<1>3. \A o \in Owner : ActiveDefaults(flows, o) = {}
  BY DEF Init, Unused, ActiveDefaults
<1> QED
  BY <1>1, <1>2, <1>3 DEF Init, FlowInv, Running, AtMostOne

LEMMA BeginKeeps ==
  ASSUME FlowInv, NEW w \in Worker, Begin(w)
  PROVE  FlowInv'
<1>1. snap \in [Worker -> Store \cup {NULL}] /\ newer \in [Worker -> SUBSET Owner]
  BY DEF FlowInv, FlowTypeOK
<1>2. /\ snap' = [snap EXCEPT ![w] = [flows |-> flows, steps |-> steps]]
      /\ newer' = [newer EXCEPT ![w] = {}]
      /\ UNCHANGED <<flows, steps, lists, doubled>>
  BY DEF Begin, tables
<1>3. [flows |-> flows, steps |-> steps] \in Store
  BY DEF FlowInv, FlowTypeOK, Store
<1>4. FlowTypeOK'
  BY <1>1, <1>2, <1>3 DEF FlowInv, FlowTypeOK
<1>5. ASSUME NEW v \in Worker, Running(v)' PROVE Past(v)'
  <2>1. CASE v = w
    <3>1. snap'[v].flows = flows /\ snap'[v].steps = steps
      BY <2>1, <1>1, <1>2
    <3> QED
      BY <3>1, <1>2 DEF FlowInv, Past, ActiveDefaults
  <2>2. CASE v # w
    <3>1. snap'[v] = snap[v] /\ newer'[v] = newer[v] /\ Past(v)
      BY <2>2, <1>1, <1>2, <1>5 DEF FlowInv, Running
    <3> QED
      BY <3>1, <1>2 DEF Past, ActiveDefaults
  <2> QED
    BY <2>1, <2>2
<1> QED
  BY <1>2, <1>4, <1>5, SMTT(30) DEF FlowInv, OneList, ActiveDefaults, AtMostOne

LEMMA AbortKeeps ==
  ASSUME FlowInv, NEW w \in Worker, Abort(w)
  PROVE  Commit(w)
<1>1. UNCHANGED <<flows, steps, lists, newer, doubled>>
  BY DEF Abort, tables, ghosts
<1>2. FlowsKept /\ DefaultsKept
  BY <1>1 DEF FlowsKept, DefaultsKept, FlowInv, FlowTypeOK
<1>3. StepsKept
  BY <1>1, StepsUntouched
<1> QED
  BY <1>2, <1>3 DEF Abort, Commit

LEMMA FlowInvStep == FlowInv /\ [Next]_vars => FlowInv'
<1> SUFFICES ASSUME FlowInv, [Next]_vars PROVE FlowInv'
  OBVIOUS
<1>1. CASE UNCHANGED vars
  BY <1>1 DEF vars, tables, ghosts, FlowInv, FlowTypeOK, OneList, Past, Running,
              ActiveDefaults, AtMostOne
<1>2. CASE Next
  <2>1. PICK w \in Worker :
          \/ Begin(w) \/ Abort(w)
          \/ \E o \in Owner, f \in FlowId :
               \/ \E keys \in {NULL} \cup {[n \in DOMAIN l |-> l[n].key] : l \in StepLists} :
                    CreateFlow(w, o, f, keys)
               \/ \E list \in StepLists : UpdateFlow(w, o, f, list)
               \/ SetDefault(w, o, f) \/ ArchiveFlow(w, o, f)
               \/ GetOrCreateDefault(w, o, f)
    BY <1>2 DEF Next
  <2>2. CASE Begin(w)
    BY <2>2, BeginKeeps
  <2>3. CASE Abort(w)
    BY <2>3, AbortKeeps, CommitKeeps
  <2>4. ASSUME NEW o \in Owner, NEW f \in FlowId,
               NEW keys \in {NULL} \cup {[n \in DOMAIN l |-> l[n].key] : l \in StepLists},
               CreateFlow(w, o, f, keys)
        PROVE  FlowInv'
    <3>1. keys \in {NULL} \cup Seq(StepKey)
      <4>1. ASSUME NEW l \in StepLists PROVE [n \in DOMAIN l |-> l[n].key] \in Seq(StepKey)
        <5>1. l \in SentList
          BY FlowAssumption DEF SentList
        <5>2. /\ DOMAIN l = 1..Len(l) /\ Len(l) \in Nat
              /\ \A n \in 1..Len(l) : l[n] \in [key : StepKey, enabled : BOOLEAN]
          BY <5>1, ElementOfSeq, LenProperties DEF SentList
        <5>3. \A n \in 1..Len(l) : l[n].key \in StepKey
          BY <5>2
        <5>4. [n \in 1..Len(l) |-> l[n].key] \in [1..Len(l) -> StepKey]
          BY <5>3
        <5> QED
          BY <5>2, <5>4, SeqDef
      <4> QED
        BY <4>1
    <3> QED
      BY <2>4, <3>1, CreateKeeps, CommitKeeps
  <2>5. ASSUME NEW o \in Owner, NEW f \in FlowId, NEW list \in StepLists,
               UpdateFlow(w, o, f, list)
        PROVE  FlowInv'
    <3>1. list \in SentList
      BY FlowAssumption DEF SentList
    <3> QED
      BY <2>5, <3>1, UpdateKeeps, CommitKeeps
  <2>6. ASSUME NEW o \in Owner, NEW f \in FlowId, SetDefault(w, o, f)
        PROVE  FlowInv'
    BY <2>6, SetDefaultKeeps, CommitKeeps
  <2>7. ASSUME NEW o \in Owner, NEW f \in FlowId, ArchiveFlow(w, o, f)
        PROVE  FlowInv'
    BY <2>7, ArchiveKeeps, CommitKeeps
  <2>8. ASSUME NEW o \in Owner, NEW f \in FlowId, GetOrCreateDefault(w, o, f)
        PROVE  FlowInv'
    BY <2>8, GetOrCreateKeeps, CommitKeeps
  <2> QED
    BY <2>1, <2>2, <2>3, <2>4, <2>5, <2>6, <2>7, <2>8
<1> QED
  BY <1>1, <1>2

-----------------------------------------------------------------------------
(* Theorems.                                                               *)

\* Tables and snapshots keep their types however many requests overlap.
THEOREM FlowTypes == Spec => []FlowTypeOK
<1>1. FlowInv => FlowTypeOK
  BY DEF FlowInv
<1> QED
  BY FlowInvInit, FlowInvStep, <1>1, PTL DEF Spec

\* However many updates of a flow overlap, its rows are one list, in positions 0, 1, ...
\* and with no step twice: of two lists that meet, the unique constraints refuse one.
THEOREM OneListPerFlow == Spec => []StepsOneList
<1>1. FlowInv => StepsOneList
  BY DEF FlowInv, StepsOneList, OneList
<1> QED
  BY FlowInvInit, FlowInvStep, <1>1, PTL DEF Spec

\* However many requests overlap, a user has one active default flow at most, unless one
\* was created while another was being made and none has been chosen since.
THEOREM OneDefault == Spec => []OneDefaultUnlessCreated
<1>1. ASSUME FlowInv PROVE OneDefaultUnlessCreated
  <2> SUFFICES ASSUME NEW o \in Owner, o \notin doubled
               PROVE  Cardinality(ActiveDefaults(flows, o)) <= 1
    BY DEF OneDefaultUnlessCreated
  <2>1. AtMostOne(ActiveDefaults(flows, o))
    BY <1>1 DEF FlowInv
  <2>2. CASE ActiveDefaults(flows, o) = {}
    BY <2>2, FS_EmptySet
  <2>3. CASE ActiveDefaults(flows, o) # {}
    <3>1. PICK f \in ActiveDefaults(flows, o) : ActiveDefaults(flows, o) = {f}
      BY <2>1, <2>3 DEF AtMostOne
    <3>2. Cardinality({f}) = 1
      BY FS_Singleton
    <3> QED
      BY <3>1, <3>2
  <2> QED
    BY <2>2, <2>3
<1> QED
  BY FlowInvInit, FlowInvStep, <1>1, PTL DEF Spec
=============================================================================
