-------------------------- MODULE FileStoreProofs --------------------------
(***************************************************************************)
(* Proofs about PatchLock, for any processes, requests and documents, and  *)
(* about FileStore, for any number of processes and saves, and any last    *)
(* number that the search for snapshots finds.                             *)
(***************************************************************************)
EXTENDS FileStore, TLAPS

-----------------------------------------------------------------------------
(* Where the processes are and who holds the lock: what the proofs need of *)
(* the types.                                                              *)
Placed ==
  /\ pc \in [Process -> {"idle"} \cup Waiting \cup Section]
  /\ lock \in Process \cup {NULL}

LockInv == Placed /\ MutualExclusion

LEMMA LockInvInit == Init => LockInv
BY DEF Init, LockInv, Placed, MutualExclusion, InSection, Section, Waiting

LEMMA LockInvCall == \A p \in Process, r \in Request : LockInv /\ Call(p, r) => LockInv'
BY DEF Call, Goto, LockInv, Placed, MutualExclusion, InSection, Section, Waiting

LEMMA LockInvCrash == \A p \in Process : LockInv /\ Crash(p) => LockInv'
BY DEF Crash, Goto, LockInv, Placed, MutualExclusion, InSection, Section, Waiting

LEMMA LockInvContinue == \A p \in Process : LockInv /\ Continue(p) => LockInv'
<1> SUFFICES ASSUME NEW p \in Process, LockInv, Continue(p) PROVE LockInv'
  OBVIOUS
<1> USE NullNoProcess DEF LockInv, Placed, MutualExclusion, InSection, Section, Waiting
<1>1. CASE Acquire(p)
  BY <1>1 DEF Acquire, Goto
<1>2. CASE Retry(p)
  BY <1>2 DEF Retry, Failed, Goto
<1>3. CASE Read(p)
  BY <1>3 DEF Read, Failed, Goto
<1>4. CASE WriteTemp(p)
  BY <1>4 DEF WriteTemp, Failed, Goto
<1>5. CASE Replace(p)
  BY <1>5 DEF Replace, Goto
<1>6. CASE Release(p)
  BY <1>6 DEF Release, Goto
<1> QED
  BY <1>1, <1>2, <1>3, <1>4, <1>5, <1>6 DEF Continue

LEMMA LockInvStep == LockInv /\ [Next]_vars => LockInv'
<1>1. CASE Next
  BY <1>1, LockInvCall, LockInvCrash, LockInvContinue DEF Next
<1>2. CASE UNCHANGED vars
  BY <1>2 DEF vars, LockInv, Placed, MutualExclusion, InSection
<1> QED
  BY <1>1, <1>2

\* Only the creator of the lock file works on the target, for any number of callers and
\* whatever times out, fails or crashes.
THEOREM Exclusion == Spec => []MutualExclusion
<1>1. LockInv => MutualExclusion
  BY DEF LockInv
<1> QED
  BY LockInvInit, LockInvStep, <1>1, PTL DEF Spec

-----------------------------------------------------------------------------
(* Types.  Every operation keeps the properties of an entry to those that  *)
(* its section knows: it refuses a request before it changes anything.     *)

LEMMA EntryKept ==
  ASSUME NEW section, NEW names, NEW keys, Entries(section, names, keys),
         NEW x \in names, NEW changes, DOMAIN changes \subseteq keys
  PROVE  Entries(WithEntry(section, x, changes), names, keys)
<1> DEFINE entry == Over(changes, EntryOf(section, x))
<1>1. DOMAIN EntryOf(section, x) \subseteq keys
  BY DEF Entries, EntryOf
<1>2. DOMAIN entry \subseteq keys
  BY <1>1 DEF Over
<1> HIDE DEF entry
<1>3. WithEntry(section, x, changes) =
        [y \in {x} \cup DOMAIN section |-> IF y \in {x} THEN entry ELSE section[y]]
  BY DEF WithEntry, Over, entry
<1> QED
  BY <1>2, <1>3 DEF Entries

LEMMA EntryRemoved ==
  ASSUME NEW section, NEW names, NEW keys, Entries(section, names, keys), NEW x
  PROVE  Entries(Restrict(section, DOMAIN section \ {x}), names, keys)
BY DEF Entries, Restrict

LEMMA PresetsKept ==
  ASSUME NEW doc, doc # NULL, Content(doc), NEW f \in Field, NEW presets
  PROVE  Content(WithPresets(doc, f, presets))
<1> DEFINE one == [key \in {"replace_presets_with"} |-> presets]
           section == WithEntry(doc.structure, f, one)
<1>1. Entries(section, Field, StructureKeys)
  <2>1. DOMAIN one \subseteq StructureKeys
    BY DEF StructureKeys
  <2>2. Entries(doc.structure, Field, StructureKeys)
    BY DEF Content
  <2> QED
    BY <2>1, <2>2, EntryKept
<1> HIDE DEF section
<1>2. WithPresets(doc, f, presets) = [doc EXCEPT !.structure = section]
  BY DEF WithPresets, section
<1> QED
  BY <1>1, <1>2 DEF Content

LEMMA ResultContent ==
  ASSUME NEW doc, Content(doc), NEW r \in Request
  PROVE  Content(Result(doc, r))
<1> SUFFICES ASSUME doc # NULL PROVE Content(Result(doc, r))
  BY DEF Result, Content, Refused
<1>1. /\ DOMAIN doc = {"metadata", "structure", "steps"}
      /\ Entries(doc.metadata, Field, MetadataKeys)
      /\ Entries(doc.structure, Field, StructureKeys)
      /\ Entries(doc.steps, Step, StepKeys)
  BY DEF Content
<1>2. CASE r.op = "metadata"
  <2> DEFINE section == WithEntry(doc.metadata, r.on, r.changes)
  <2>1. Result(doc, r) = UpdateMetadata(doc, r.on, r.changes) /\ r.on \in Field
    BY <1>2, RequestAssumption DEF Result
  <2>2. CASE DOMAIN r.changes \subseteq MetadataKeys
    <3>1. Entries(section, Field, MetadataKeys)
      BY <1>1, <2>1, <2>2, EntryKept
    <3>2. Result(doc, r) = [doc EXCEPT !.metadata = section]
      BY <2>1, <2>2 DEF UpdateMetadata
    <3> HIDE DEF section
    <3> QED
      BY <1>1, <3>1, <3>2 DEF Content
  <2> QED
    BY <2>1, <2>2 DEF UpdateMetadata, Refused, Content
<1>3. CASE r.op = "structure"
  <2> DEFINE section == WithEntry(doc.structure, r.on, r.changes)
  <2>1. Result(doc, r) = UpdateStructure(doc, r.on, r.changes) /\ r.on \in Field
    BY <1>3, RequestAssumption DEF Result
  <2>2. CASE DOMAIN r.changes \subseteq StructureKeys
    <3>1. Entries(section, Field, StructureKeys)
      BY <1>1, <2>1, <2>2, EntryKept
    <3>2. Result(doc, r) = [doc EXCEPT !.structure = section]
      BY <2>1, <2>2 DEF UpdateStructure
    <3> HIDE DEF section
    <3> QED
      BY <1>1, <3>1, <3>2 DEF Content
  <2> QED
    BY <2>1, <2>2 DEF UpdateStructure, Refused, Content
<1>4. CASE r.op = "step"
  <2> DEFINE section == WithEntry(doc.steps, r.on, r.changes)
  <2>1. Result(doc, r) = UpdateStep(doc, r.on, r.changes) /\ r.on \in Step
    BY <1>4, RequestAssumption DEF Result
  <2>2. CASE DOMAIN r.changes \subseteq StepKeys
    <3>1. Entries(section, Step, StepKeys)
      BY <1>1, <2>1, <2>2, EntryKept
    <3>2. Result(doc, r) = [doc EXCEPT !.steps = section]
      BY <2>1, <2>2 DEF UpdateStep
    <3> HIDE DEF section
    <3> QED
      BY <1>1, <3>1, <3>2 DEF Content
  <2> QED
    BY <2>1, <2>2 DEF UpdateStep, Refused, Content
<1>5. CASE r.op = "remove"
  <2> DEFINE section == Restrict(doc[r.type], DOMAIN doc[r.type] \ {r.on})
  <2>1. /\ r.type \in {"metadata", "structure"}
        /\ Result(doc, r) = [doc EXCEPT ![r.type] = section]
    BY <1>5, RequestAssumption DEF Result, RemoveOverride
  <2>2. \A names, keys :
          Entries(doc[r.type], names, keys) => Entries(section, names, keys)
    BY EntryRemoved
  <2> HIDE DEF section
  <2> QED
    BY <1>1, <2>1, <2>2 DEF Content
<1>6. CASE r.op \in {"add", "take"}
  <2>1. r.on \in Field
    BY <1>6, RequestAssumption
  <2>2. \/ Result(doc, r) = Refused
        \/ \E presets : Result(doc, r) = WithPresets(doc, r.on, presets)
    BY <1>6 DEF Result, AddPreset, RemovePreset
  <2> QED
    BY <2>1, <2>2, PresetsKept DEF Refused, Content
<1> QED
  BY <1>2, <1>3, <1>4, <1>5, <1>6, RequestAssumption

\* A request that is under way is one of those callers make.
Requested ==
  /\ request \in [Process -> Request \cup {NULL}]
  /\ \A p \in Process : pc[p] # "idle" => request[p] \in Request

PatchInv == PatchTypeOK /\ Requested /\ DOMAIN work = Process

LEMMA PatchInit == Init => PatchInv
<1> SUFFICES ASSUME Init PROVE PatchInv
  OBVIOUS
<1>1. Content(NULL)
  BY DEF Content
<1>2. Content(file) /\ \A p \in Process : Content(work[p])
  BY <1>1, DocumentAssumption DEF Init
<1>3. 0 \in 0..Retries /\ 0 \in 0..MaxCalls
  BY PatchNumbers
<1>4. PatchTypeOK
  BY <1>2, <1>3 DEF Init, PatchTypeOK
<1>5. Requested /\ DOMAIN work = Process
  BY DEF Init, Requested
<1> QED
  BY <1>4, <1>5 DEF PatchInv

LEMMA PatchStep == PatchInv /\ [Next]_vars => PatchInv'
<1> SUFFICES ASSUME PatchInv, [Next]_vars PROVE PatchInv'
  OBVIOUS
<1> USE PatchNumbers DEF PatchInv, PatchTypeOK, Requested, Waiting, Section
<1>0. Content(NULL)
  BY DEF Content
<1>1. ASSUME NEW p \in Process, NEW r \in Request, Call(p, r) PROVE PatchInv'
  BY <1>1 DEF Call, Goto
<1>2. ASSUME NEW p \in Process, Acquire(p) PROVE PatchInv'
  BY <1>2 DEF Acquire, Goto
<1>3. ASSUME NEW p \in Process, Retry(p) PROVE PatchInv'
  BY <1>3 DEF Retry, Failed, Goto
<1>4. ASSUME NEW p \in Process, Read(p) PROVE PatchInv'
  <2>1. Content(Result(file, request[p]))
    BY <1>4, ResultContent DEF Read
  <2> QED
    BY <1>4, <2>1 DEF Read, Failed, Goto
<1>5. ASSUME NEW p \in Process, WriteTemp(p) PROVE PatchInv'
  BY <1>0, <1>5 DEF WriteTemp, Failed, Goto
<1>6. ASSUME NEW p \in Process, Replace(p) PROVE PatchInv'
  BY <1>0, <1>6 DEF Replace, Goto
<1>7. ASSUME NEW p \in Process, Release(p) PROVE PatchInv'
  BY <1>7 DEF Release, Goto
<1>8. ASSUME NEW p \in Process, Crash(p) PROVE PatchInv'
  BY <1>0, <1>8 DEF Crash, Goto
<1>9. CASE UNCHANGED vars
  BY <1>9 DEF vars
<1> QED
  BY <1>1, <1>2, <1>3, <1>4, <1>5, <1>6, <1>7, <1>8, <1>9 DEF Next, Continue

\* Whatever is asked for, fails or dies, the target holds a whole document with no
\* property its section does not know.
THEOREM PatchTypes == Spec => []PatchTypeOK
<1>1. PatchInv => PatchTypeOK
  BY DEF PatchInv
<1> QED
  BY PatchInit, PatchStep, <1>1, PTL DEF Spec

-----------------------------------------------------------------------------
(* Refinement.  A process that has read the target holds what its request  *)
(* makes of it: nobody else replaces the file before it does.              *)

Prepared ==
  \A p \in Process : pc[p] \in {"writing", "replacing"} =>
    work[p] = Result(file, request[p]) /\ work[p] # Refused

Replies ==
  /\ reply \in [Process -> {"none", "ok", "error", "busy"}]
  /\ \A p \in Process :
       CASE pc[p] = "idle" -> request[p] = NULL
         [] pc[p] = "releasing" -> reply[p] \in {"none", "error"}
         [] OTHER -> reply[p] = "none"

Fields == DOMAIN request = Process /\ DOMAIN work = Process

RefineInv == LockInv /\ Prepared /\ Replies /\ Fields

AbstractCall == [p \in Process |-> [request |-> request[p], state |-> State(p)]]

LEMMA RefineInit == Init => RefineInv /\ Atomic!Init
<1> SUFFICES ASSUME Init PROVE RefineInv /\ Atomic!Init
  OBVIOUS
<1>1. LockInv
  BY LockInvInit
<1>2. Prepared /\ Replies /\ Fields
  BY DEF Init, Prepared, Replies, Fields
<1>3. Atomic!Init
  BY DEF Init, State, Atomic!Init, Atomic!NoCall
<1> QED
  BY <1>1, <1>2, <1>3 DEF RefineInv


(* The operators of AtomicDocument are those of the engine, constants being *)
(* the same.                                                                *)
LEMMA SameResult == \A d, r : Atomic!Result(d, r) = Result(d, r)
<1> USE DEF Refused, Atomic!Refused, WithEntry, Atomic!WithEntry, EntryOf, Atomic!EntryOf,
            Over, Atomic!Over
<1>1. \A d, f, c : Atomic!UpdateMetadata(d, f, c) = UpdateMetadata(d, f, c)
  BY DEF UpdateMetadata, Atomic!UpdateMetadata, MetadataKeys, Atomic!MetadataKeys
<1>2. \A d, f, c : Atomic!UpdateStructure(d, f, c) = UpdateStructure(d, f, c)
  BY DEF UpdateStructure, Atomic!UpdateStructure, StructureKeys, Atomic!StructureKeys
<1>3. \A d, s, c : Atomic!UpdateStep(d, s, c) = UpdateStep(d, s, c)
  BY DEF UpdateStep, Atomic!UpdateStep, StepKeys, Atomic!StepKeys
<1>4. \A d, f, t : Atomic!RemoveOverride(d, f, t) = RemoveOverride(d, f, t)
  BY DEF RemoveOverride, Atomic!RemoveOverride, Restrict, Atomic!Restrict
<1>5. \A d, f, x, n : Atomic!AddPreset(d, f, x, n) = AddPreset(d, f, x, n)
  BY DEF AddPreset, Atomic!AddPreset, Presets, Atomic!Presets, WithPresets,
         Atomic!WithPresets, InsertAt, Atomic!InsertAt, Max, Atomic!Max
<1>6. \A d, f, x, n : Atomic!RemovePreset(d, f, x, n) = RemovePreset(d, f, x, n)
  BY DEF RemovePreset, Atomic!RemovePreset, Presets, Atomic!Presets, WithPresets,
         Atomic!WithPresets, RemoveAt, Atomic!RemoveAt, Min, Atomic!Min
<1> HIDE DEF Over, Atomic!Over, EntryOf, Atomic!EntryOf, WithEntry, Atomic!WithEntry
<1> QED
  BY <1>1, <1>2, <1>3, <1>4, <1>5, <1>6 DEF Result, Atomic!Result

(* A step that changes neither what a caller has asked nor how it fares.   *)
LEMMA Invisible ==
  ASSUME UNCHANGED file,
         \A p \in Process : request'[p] = request[p] /\ State(p)' = State(p)
  PROVE  UNCHANGED Atomic!vars
BY DEF Atomic!vars

(* A step in which only p changes what it asks or how it fares.            *)
LEMMA Visible ==
  ASSUME NEW p \in Process, NEW r, NEW state,
         \A q \in Process \ {p} : request'[q] = request[q] /\ State(q)' = State(q),
         request'[p] = r, State(p)' = state
  PROVE  AbstractCall' = [AbstractCall EXCEPT ![p] = [request |-> r, state |-> state]]
BY DEF AbstractCall

LEMMA RefineCall ==
  ASSUME NEW p \in Process, NEW r \in Request, RefineInv, Call(p, r)
  PROVE  RefineInv' /\ Atomic!Ask(p, r)
<1> USE DEF RefineInv
<1>1. LockInv'
  BY LockInvCall
<1>2. Prepared'
  BY DEF Call, Goto, Prepared, LockInv, Placed
<1>3. Replies' /\ Fields'
  BY DEF Call, Goto, Replies, Fields, LockInv, Placed
<1>4. State(p) \notin {"asked", "applied"}
  BY DEF State, Call, Replies
<1>5. AbstractCall' = [AbstractCall EXCEPT ![p] = [request |-> r, state |-> "asked"]]
  <2>1. \A q \in Process \ {p} : request'[q] = request[q] /\ State(q)' = State(q)
    BY DEF Call, Goto, State, Fields, LockInv, Placed, Replies
  <2>2. request'[p] = r /\ State(p)' = "asked"
    BY DEF Call, Goto, State, Fields, LockInv, Placed, Replies
  <2> QED
    BY <2>1, <2>2, Visible
<1> QED
  BY <1>1, <1>2, <1>3, <1>4, <1>5 DEF Atomic!Ask, AbstractCall, Call

LEMMA RefineAcquire ==
  ASSUME NEW p \in Process, RefineInv, Acquire(p)
  PROVE  RefineInv' /\ UNCHANGED Atomic!vars
<1> USE DEF RefineInv
<1>1. LockInv'
  BY LockInvContinue DEF Continue
<1>2. Prepared'
  BY DEF Acquire, Goto, Prepared, LockInv, Placed
<1>3. Replies' /\ Fields'
  BY DEF Acquire, Goto, Replies, Fields, LockInv, Placed
<1>4. \A q \in Process : request'[q] = request[q] /\ State(q)' = State(q)
  BY DEF Acquire, Goto, State, LockInv, Placed
<1>5. UNCHANGED file
  BY DEF Acquire
<1> QED
  BY <1>1, <1>2, <1>3, <1>4, <1>5, Invisible

LEMMA RefineRetry ==
  ASSUME NEW p \in Process, RefineInv, Retry(p)
  PROVE  RefineInv' /\ (UNCHANGED Atomic!vars \/ Atomic!Refuse(p))
<1> USE DEF RefineInv
<1>1. LockInv'
  BY LockInvContinue DEF Continue
<1>2. Prepared'
  BY DEF Retry, Failed, Goto, Prepared, LockInv, Placed, Fields
<1>3. Replies' /\ Fields'
  BY DEF Retry, Failed, Goto, Replies, Fields, LockInv, Placed
<1>4. UNCHANGED file
  BY DEF Retry
<1>5. CASE tries[p] < Retries
  <2>1. \A q \in Process : request'[q] = request[q] /\ State(q)' = State(q)
    BY <1>5 DEF Retry, State
  <2> QED
    BY <1>1, <1>2, <1>3, <1>4, <2>1, Invisible
<1>6. CASE ~(tries[p] < Retries)
  <2>1. \A q \in Process \ {p} : request'[q] = request[q] /\ State(q)' = State(q)
    BY <1>6 DEF Retry, Failed, Goto, State, Fields, LockInv, Placed, Replies
  <2>2. request'[p] = NULL /\ State(p)' = "busy"
    BY <1>6 DEF Retry, Failed, Goto, State, Fields, LockInv, Placed, Replies
  <2>3. State(p) = "asked"
    BY DEF Retry, State
  <2>4. AbstractCall' = [AbstractCall EXCEPT ![p] = Atomic!Answered("busy")]
    BY <2>1, <2>2, Visible DEF Atomic!Answered
  <2>5. Atomic!Refuse(p)
    BY <2>3, <2>4, <1>4 DEF Atomic!Refuse, AbstractCall
  <2> QED
    BY <1>1, <1>2, <1>3, <2>5
<1> QED
  BY <1>5, <1>6

LEMMA RefineRead ==
  ASSUME NEW p \in Process, RefineInv, Read(p)
  PROVE  RefineInv' /\ UNCHANGED Atomic!vars
<1> USE DEF RefineInv
<1>1. LockInv'
  BY LockInvContinue DEF Continue
<1>2. Prepared'
  <2>1. CASE Result(file, request[p]) = Refused
    BY <2>1 DEF Read, Failed, Goto, Prepared, LockInv, Placed, Fields
  <2>2. CASE Result(file, request[p]) # Refused
    BY <2>2 DEF Read, Goto, Prepared, LockInv, Placed, Fields
  <2> QED
    BY <2>1, <2>2
<1>3. Replies' /\ Fields'
  BY DEF Read, Failed, Goto, Replies, Fields, LockInv, Placed
<1>4. UNCHANGED file
  BY DEF Read
<1>5. \A q \in Process : request'[q] = request[q] /\ State(q)' = State(q)
  BY DEF Read, Failed, Goto, State, LockInv, Placed, Replies
<1> QED
  BY <1>1, <1>2, <1>3, <1>4, <1>5, Invisible

LEMMA RefineWriteTemp ==
  ASSUME NEW p \in Process, RefineInv, WriteTemp(p)
  PROVE  RefineInv' /\ UNCHANGED Atomic!vars
<1> USE DEF RefineInv
<1>1. LockInv'
  BY LockInvContinue DEF Continue
<1>2. Prepared'
  BY DEF WriteTemp, Failed, Goto, Prepared, LockInv, Placed, Fields
<1>3. Replies' /\ Fields'
  BY DEF WriteTemp, Failed, Goto, Replies, Fields, LockInv, Placed
<1>4. UNCHANGED file
  BY DEF WriteTemp
<1>5. \A q \in Process : request'[q] = request[q] /\ State(q)' = State(q)
  BY DEF WriteTemp, Failed, Goto, State, LockInv, Placed, Replies
<1> QED
  BY <1>1, <1>2, <1>3, <1>4, <1>5, Invisible

LEMMA RefineReplace ==
  ASSUME NEW p \in Process, RefineInv, Replace(p)
  PROVE  RefineInv' /\ Atomic!Apply(p)
<1> USE DEF RefineInv
<1>1. LockInv'
  BY LockInvContinue DEF Continue
<1>2. \A q \in Process \ {p} : pc[q] \notin {"writing", "replacing"}
  BY DEF Replace, LockInv, MutualExclusion, InSection, Section
<1>3. Prepared'
  BY <1>2 DEF Replace, Goto, Prepared, LockInv, Placed, Fields
<1>4. Replies' /\ Fields'
  BY DEF Replace, Goto, Replies, Fields, LockInv, Placed
<1>5. file' = Atomic!Result(file, request[p]) /\ file' # Atomic!Refused
  BY SameResult DEF Replace, Prepared, Refused, Atomic!Refused
<1>6. AbstractCall' = [AbstractCall EXCEPT ![p] = [request |-> request[p], state |-> "applied"]]
  <2>1. \A q \in Process \ {p} : request'[q] = request[q] /\ State(q)' = State(q)
    BY DEF Replace, Goto, State, LockInv, Placed
  <2>2. request'[p] = request[p] /\ State(p)' = "applied"
    BY DEF Replace, Goto, State, LockInv, Placed, Replies
  <2> QED
    BY <2>1, <2>2, Visible
<1>7. AbstractCall[p] = [request |-> request[p], state |-> "asked"]
  BY DEF AbstractCall, State, Replace
<1>8. AbstractCall' = [AbstractCall EXCEPT ![p].state = "applied"]
  <2>1. [AbstractCall[p] EXCEPT !.state = "applied"]
          = [request |-> request[p], state |-> "applied"]
    BY <1>7
  <2> QED
    BY <1>6, <2>1 DEF AbstractCall
<1> QED
  BY <1>1, <1>3, <1>4, <1>5, <1>7, <1>8 DEF Atomic!Apply, AbstractCall

LEMMA RefineRelease ==
  ASSUME NEW p \in Process, RefineInv, Release(p)
  PROVE  RefineInv' /\ (Atomic!Confirm(p) \/ Atomic!Refuse(p))
<1> USE DEF RefineInv
<1>1. LockInv'
  BY LockInvContinue DEF Continue
<1>2. Prepared'
  BY DEF Release, Goto, Prepared, LockInv, Placed, Fields
<1>3. Replies' /\ Fields'
  BY DEF Release, Goto, Replies, Fields, LockInv, Placed
<1>4. \A q \in Process \ {p} : request'[q] = request[q] /\ State(q)' = State(q)
  BY DEF Release, Goto, State, Fields, LockInv, Placed, Replies
<1>5. UNCHANGED file
  BY DEF Release
<1>6. CASE reply[p] = "none"
  <2>1. request'[p] = NULL /\ State(p)' = "ok"
    BY <1>6 DEF Release, Goto, State, Fields, LockInv, Placed, Replies
  <2>2. AbstractCall' = [AbstractCall EXCEPT ![p] = Atomic!Answered("ok")]
    BY <1>4, <2>1, Visible DEF Atomic!Answered
  <2>3. State(p) = "applied"
    BY <1>6 DEF Release, State
  <2> QED
    BY <1>1, <1>2, <1>3, <1>5, <2>2, <2>3 DEF Atomic!Confirm, AbstractCall
<1>7. CASE reply[p] = "error"
  <2>1. request'[p] = NULL /\ State(p)' = "error"
    BY <1>7 DEF Release, Goto, State, Fields, LockInv, Placed, Replies
  <2>2. AbstractCall' = [AbstractCall EXCEPT ![p] = Atomic!Answered("error")]
    BY <1>4, <2>1, Visible DEF Atomic!Answered
  <2>3. State(p) = "asked"
    BY <1>7 DEF Release, State
  <2> QED
    BY <1>1, <1>2, <1>3, <1>5, <2>2, <2>3 DEF Atomic!Refuse, AbstractCall
<1> QED
  BY <1>6, <1>7 DEF Release, Replies

LEMMA RefineCrash ==
  ASSUME NEW p \in Process, RefineInv, Crash(p)
  PROVE  RefineInv' /\ Atomic!Vanish(p)
<1> USE DEF RefineInv
<1>1. LockInv'
  BY LockInvCrash
<1>2. Prepared'
  BY DEF Crash, Goto, Prepared, LockInv, Placed, Fields
<1>3. Replies' /\ Fields'
  BY DEF Crash, Goto, Replies, Fields, LockInv, Placed
<1>4. State(p) \in {"asked", "applied"} /\ UNCHANGED file
  BY DEF Crash, State
<1>5. \A q \in Process \ {p} : request'[q] = request[q] /\ State(q)' = State(q)
  BY DEF Crash, Goto, State, Fields, LockInv, Placed, Replies
<1>6. request'[p] = NULL /\ State(p)' = "none"
  BY DEF Crash, Goto, State, Fields, LockInv, Placed, Replies
<1>7. AbstractCall' = [AbstractCall EXCEPT ![p] = Atomic!NoCall]
  BY <1>5, <1>6, Visible DEF Atomic!NoCall
<1> QED
  BY <1>1, <1>2, <1>3, <1>4, <1>7 DEF Atomic!Vanish, AbstractCall

LEMMA RefineStep == RefineInv /\ [Next]_vars => RefineInv' /\ [Atomic!Next]_(Atomic!vars)
<1> SUFFICES ASSUME RefineInv, [Next]_vars
             PROVE  RefineInv' /\ [Atomic!Next]_(Atomic!vars)
  OBVIOUS
<1>1. ASSUME NEW p \in Process, NEW r \in Request, Call(p, r)
      PROVE  RefineInv' /\ [Atomic!Next]_(Atomic!vars)
  BY <1>1, RefineCall DEF Atomic!Next
<1>2. ASSUME NEW p \in Process, Crash(p)
      PROVE  RefineInv' /\ [Atomic!Next]_(Atomic!vars)
  BY <1>2, RefineCrash DEF Atomic!Next
<1>3. ASSUME NEW p \in Process, Continue(p)
      PROVE  RefineInv' /\ [Atomic!Next]_(Atomic!vars)
  BY <1>3, RefineAcquire, RefineRetry, RefineRead, RefineWriteTemp, RefineReplace,
     RefineRelease DEF Continue, Atomic!Next
<1>4. CASE UNCHANGED vars
  <2>1. RefineInv'
    BY <1>4 DEF vars, RefineInv, LockInv, Placed, MutualExclusion, InSection, Prepared,
                Replies, Fields
  <2>2. UNCHANGED Atomic!vars
    BY <1>4, Invisible DEF vars, State
  <2> QED
    BY <2>1, <2>2
<1> QED
  BY <1>1, <1>2, <1>3, <1>4 DEF Next

\* Every patch takes effect at once, on the document as it is then, and is answered with
\* success if and only if it did, for any number of callers.
THEOREM PatchesAtomic == Spec => ImplementsAtomic
<1>1. Spec => Atomic!Init /\ [][Atomic!Next]_(Atomic!vars)
  BY RefineInit, RefineStep, PTL DEF Spec
<1> QED
  BY <1>1 DEF ImplementsAtomic

-----------------------------------------------------------------------------
(* The patch engine with the version history next to it.                    *)


\* Saves and patches of one process exclude each other, and otherwise do not meet.
LEMMA StoreStep == StoreInit /\ [][StoreNext]_storeVars => Init /\ [][Next]_vars
<1>1. StoreInit => Init
  BY DEF StoreInit
<1>2. [StoreNext]_storeVars => [Next]_vars
  BY DEF StoreNext, Patch, BeginSave, ReadNumber, StoreVersion, AbandonSave, storeVars, Next
<1> QED
  BY <1>1, <1>2, PTL

\* Next to the version history, too, the target holds a whole document.
THEOREM StorePatchTypes == StoreSpec => []PatchTypeOK
<1>1. PatchInv => PatchTypeOK
  BY DEF PatchInv
<1> QED
  BY StoreStep, PatchInit, PatchStep, <1>1, PTL DEF StoreSpec

\* Next to the version history, too, only the creator of the lock file works on the
\* target.
THEOREM StoreExclusion == StoreSpec => []MutualExclusion
<1>1. LockInv => MutualExclusion
  BY DEF LockInv
<1> QED
  BY StoreStep, LockInvInit, LockInvStep, <1>1, PTL DEF StoreSpec

\* Next to the version history, too, every patch takes effect at once.
THEOREM StorePatchesAtomic == StoreSpec => ImplementsAtomic
<1>1. StoreSpec => Atomic!Init /\ [][Atomic!Next]_(Atomic!vars)
  BY StoreStep, RefineInit, RefineStep, PTL DEF StoreSpec
<1> QED
  BY <1>1 DEF ImplementsAtomic

-----------------------------------------------------------------------------
(* Snapshot numbers.  A number that was read is at most one past the files *)
(* that are there, and stays so, since files are never deleted.            *)

SaveRow == [save : Nat, number : Nat \cup {NULL}, earlier : SUBSET Nat]

UpTo(n) == DOMAIN history = 1..n

\* What a save knows of the files 1..n: it found those in earlier, and a number it
\* has read was at most one past the last, and was not there unless it is the last.
SaveFits(s, n) ==
  /\ s.earlier \subseteq 1..n
  /\ s.number # NULL =>
       /\ s.number \in 1..(n + 1)
       /\ s.number <= LastListed + 1
       /\ s.number <= LastListed => s.number \notin s.earlier

NumberInv ==
  /\ saves \in Nat
  /\ saving \in [Process -> SaveRow \cup {NULL}]
  /\ \E n \in 0..(LastListed + 1) :
       UpTo(n) /\ \A p \in Process : saving[p] # NULL => SaveFits(saving[p], n)

\* What the search for the next number returns.
LEMMA NextNumber ==
  ASSUME NEW n \in 0..(LastListed + 1), UpTo(n)
  PROVE  NextVersion = IF n <= LastListed THEN n + 1 ELSE LastListed + 1
<1> DEFINE S == {0} \cup {k \in DOMAIN history : k <= LastListed}
           m == IF n <= LastListed THEN n ELSE LastListed
<1>1. m \in S /\ (\A k \in S : k <= m) /\ S \subseteq Int /\ m \in Int
  BY HistoryNumbers DEF UpTo
<1>2. Max(S) = m
  <2> HIDE DEF S, m
  <2>1. \A x \in S : (\A y \in S : x >= y) => x = m
    BY <1>1
  <2> QED
    BY <1>1, <2>1 DEF Max
<1> QED
  BY <1>2, HistoryNumbers DEF NextVersion

LEMMA NumberInit == StoreInit => NumberInv
<1> SUFFICES ASSUME StoreInit PROVE NumberInv
  OBVIOUS
<1>1. UpTo(0)
  BY DEF StoreInit, UpTo
<1> QED
  BY <1>1, HistoryNumbers DEF StoreInit, NumberInv

\* A file more leaves what a save knows true.
LEMMA FitsMore ==
  ASSUME NEW s \in SaveRow, NEW n \in Nat, NEW k \in Nat, n <= k, SaveFits(s, n)
  PROVE  SaveFits(s, k)
BY DEF SaveFits, SaveRow

LEMMA NumberBegin ==
  ASSUME NEW p \in Process, NumberInv, BeginSave(p) PROVE NumberInv'
<1>1. PICK n \in 0..(LastListed + 1) :
        UpTo(n) /\ \A q \in Process : saving[q] # NULL => SaveFits(saving[q], n)
  BY DEF NumberInv
<1>2. DOMAIN history = 1..n /\ DOMAIN history \in SUBSET Nat
  BY <1>1, HistoryNumbers DEF UpTo
<1>3. saves' \in Nat /\ saving' \in [Process -> SaveRow \cup {NULL}]
  BY <1>2 DEF NumberInv, BeginSave, SaveRow
<1>4. UpTo(n)'
  BY <1>1 DEF BeginSave, UpTo
<1>5. \A q \in Process : saving'[q] # NULL => SaveFits(saving'[q], n)
  BY <1>1, <1>2 DEF BeginSave, NumberInv, SaveFits
<1> QED
  BY <1>3, <1>4, <1>5 DEF NumberInv, UpTo, SaveFits

LEMMA NumberRead ==
  ASSUME NEW p \in Process, NumberInv, ReadNumber(p) PROVE NumberInv'
<1>1. PICK n \in 0..(LastListed + 1) :
        UpTo(n) /\ \A q \in Process : saving[q] # NULL => SaveFits(saving[q], n)
  BY DEF NumberInv
<1>2. /\ NextVersion \in 1..(n + 1) /\ NextVersion <= LastListed + 1
      /\ NextVersion <= LastListed => NextVersion \notin 1..n
  BY <1>1, NextNumber, HistoryNumbers
<1>3. saving[p] \in SaveRow /\ saving'[p] = [saving[p] EXCEPT !.number = NextVersion]
  BY DEF NumberInv, ReadNumber
<1>4. saving' \in [Process -> SaveRow \cup {NULL}]
  BY <1>2, <1>3, HistoryNumbers DEF NumberInv, ReadNumber, SaveRow
<1>5. SaveFits(saving'[p], n)
  BY <1>1, <1>2, <1>3 DEF SaveFits, SaveRow, ReadNumber
<1>6. \A q \in Process : saving'[q] # NULL => SaveFits(saving'[q], n)
  BY <1>1, <1>5 DEF ReadNumber, NumberInv
<1> QED
  BY <1>1, <1>4, <1>6 DEF NumberInv, UpTo, SaveFits, ReadNumber

\* The files after a save: one more at most, at the end.
LEMMA StoredDomain ==
  ASSUME NEW p \in Process, NEW n \in 0..(LastListed + 1), UpTo(n),
         saving[p] # NULL, saving[p].number \in 1..(n + 1),
         saving[p].number <= LastListed + 1, StoreVersion(p)
  PROVE  \E k \in {n, n + 1} : k \in 0..(LastListed + 1) /\ UpTo(k)'
<1>1. DOMAIN history' = 1..n \cup {saving[p].number}
  BY DEF StoreVersion, UpTo
<1>2. CASE saving[p].number \in 1..n
  BY <1>1, <1>2 DEF UpTo
<1>3. CASE saving[p].number = n + 1
  BY <1>1, <1>3, HistoryNumbers DEF UpTo
<1> QED
  BY <1>2, <1>3

LEMMA NumberStore ==
  ASSUME NEW p \in Process, NumberInv, StoreVersion(p) PROVE NumberInv'
<1>1. PICK n \in 0..(LastListed + 1) :
        UpTo(n) /\ \A q \in Process : saving[q] # NULL => SaveFits(saving[q], n)
  BY DEF NumberInv
<1>2. PICK k \in {n, n + 1} : k \in 0..(LastListed + 1) /\ UpTo(k)'
  BY <1>1, StoredDomain DEF SaveFits, StoreVersion
<1>3. saves' \in Nat /\ saving' \in [Process -> SaveRow \cup {NULL}]
  BY DEF NumberInv, StoreVersion
<1>4. \A q \in Process : saving'[q] # NULL => saving'[q] = saving[q] /\ saving[q] \in SaveRow
  BY DEF NumberInv, StoreVersion
<1>5. \A q \in Process : saving'[q] # NULL => SaveFits(saving'[q], k)
  BY <1>1, <1>2, <1>4, FitsMore, HistoryNumbers
<1> QED
  BY <1>2, <1>3, <1>5 DEF NumberInv, SaveFits

LEMMA NumberAbandon ==
  ASSUME NEW p \in Process, NumberInv, AbandonSave(p) PROVE NumberInv'
BY DEF NumberInv, AbandonSave, UpTo, SaveFits

LEMMA NumberStep == NumberInv /\ [StoreNext]_storeVars => NumberInv'
<1>1. ASSUME NumberInv, UNCHANGED <<history, saving, saves>> PROVE NumberInv'
  BY <1>1 DEF NumberInv, UpTo, SaveFits
<1> QED
  BY <1>1, NumberBegin, NumberRead, NumberStore, NumberAbandon
     DEF StoreNext, Patch, storeVars

\* The numbers in use have no gap, however many saves overlap, fail or die.
THEOREM NumbersGapless == StoreSpec => []NumbersContiguous
<1>1. NumberInv => NumbersContiguous
  BY DEF NumberInv, UpTo, NumbersContiguous
<1> QED
  BY NumberInit, NumberStep, <1>1, PTL DEF StoreSpec

\* The step of a save: what it overwrites was not there when it began, or is past the
\* search.
LEMMA KeptStep ==
  ASSUME NumberInv, [StoreNext]_storeVars, NEW n \in DOMAIN history,
         history'[n] # history[n], ~(n > LastListed)
  PROVE  \E p \in Process : saving[p] # NULL /\ n \notin saving[p].earlier /\ saving'[p] = NULL
<1>1. PICK p \in Process : StoreVersion(p)
  BY DEF StoreNext, Patch, BeginSave, ReadNumber, AbandonSave, storeVars
<1>2. PICK k \in 0..(LastListed + 1) :
        UpTo(k) /\ \A q \in Process : saving[q] # NULL => SaveFits(saving[q], k)
  BY DEF NumberInv
<1>3. n = saving[p].number
  BY <1>1 DEF StoreVersion
<1>4. n \in Nat /\ n <= LastListed
  BY <1>2, HistoryNumbers DEF UpTo
<1>5. saving[p] # NULL /\ n \notin saving[p].earlier
  BY <1>1, <1>2, <1>3, <1>4 DEF StoreVersion, SaveFits
<1>6. saving'[p] = NULL
  BY <1>1 DEF StoreVersion, NumberInv
<1> QED
  BY <1>5, <1>6

\* A save replaces the file of another only when that one was written while it ran, or
\* past the last number that the search finds.
THEOREM SnapshotsKept == StoreSpec => EarlierSnapshotsKept
<1>1. NumberInv /\ [StoreNext]_storeVars =>
        [\A n \in DOMAIN history : history'[n] # history[n] =>
           \/ n > LastListed
           \/ \E p \in Process : saving[p] # NULL /\ n \notin saving[p].earlier
                                   /\ saving'[p] = NULL]_storeVars
  BY KeptStep
<1> QED
  BY NumberInit, NumberStep, <1>1, PTL DEF StoreSpec, EarlierSnapshotsKept
=============================================================================
