----------------------------- MODULE WizardFlows -----------------------------
(***************************************************************************)
(* The wizard flows of the users: named orders of steps, of which one can  *)
(* be the owner's default.  The handlers run as transactions like those of *)
(* ConcurrentLayers: Begin takes the snapshot that all reads see, and a    *)
(* commit writes to the rows as they are by then                           *)
(*                                                                         *)
(*   - the columns that the handler changed (a value equal to the one read *)
(*     is not flushed);                                                    *)
(*   - in a bulk UPDATE ... WHERE, every row that matches by then;         *)
(*   - rows deleted by the id that was read, if they are still there;      *)
(*   - inserted rows, unless a unique constraint refuses them, which fails *)
(*     the request.                                                        *)
(*                                                                         *)
(* Names, descriptions and custom titles are left out.                     *)
(***************************************************************************)
EXTENDS Integers, Sequences, FiniteSets

CONSTANTS
  Owner,        \* users
  FlowId,       \* ids of the flow table
  StepKey,      \* step keys
  SchemaSteps,  \* keys of the active schema's steps that are not hidden, in order
  StepLists,    \* the lists of [key, enabled] that clients send
  Worker,       \* requests that may be in progress at once
  NULL,
  MaxLists      \* bound: step lists ever stored

ASSUME FlowAssumption ==
  /\ SchemaSteps \in Seq(StepKey)
  /\ StepLists \subseteq Seq([key : StepKey, enabled : BOOLEAN])
  /\ MaxLists \in Nat
  /\ NULL \notin Owner

VARIABLES
  flows,    \* wizard_flow
  steps,    \* wizard_flow_step, per flow
  lists,    \* step lists stored so far: a list's number stands for its rows' ids
  snap,     \* snap[w]: what w's transaction reads, NULL when it has none
  newer,    \* ghost: newer[w] are the owners whose default was made since w's snapshot
  doubled   \* ghost: owners for whom a default was created next to a newer one, and who
            \* have not chosen a default since

tables == <<flows, steps, lists>>
ghosts == <<newer, doubled>>
vars == <<tables, snap, ghosts>>

FlowRow ==
  [owner : Owner \cup {NULL}, default : BOOLEAN, status : {"active", "archived"}]

Unused == [owner |-> NULL, default |-> FALSE, status |-> "active"]

StepRow ==
  [list : 1..MaxLists, key : StepKey, position : Nat, enabled : BOOLEAN]

Store == [flows : [FlowId -> FlowRow], steps : [FlowId -> SUBSET StepRow]]

\* Rows have the columns of their table, with their values.
FlowTypeOK ==
  /\ flows \in [FlowId -> FlowRow]
  /\ steps \in [FlowId -> SUBSET StepRow]
  /\ lists \in 0..MaxLists
  /\ snap \in [Worker -> Store \cup {NULL}]
  /\ newer \in [Worker -> SUBSET Owner] /\ doubled \subseteq Owner
  /\ \A f \in FlowId : flows[f] = Unused => steps[f] = {}

Init ==
  /\ flows = [f \in FlowId |-> Unused]
  /\ steps = [f \in FlowId |-> {}]
  /\ lists = 0
  /\ snap = [w \in Worker |-> NULL]
  /\ newer = [w \in Worker |-> {}]
  /\ doubled = {}

-----------------------------------------------------------------------------
(* Transactions.                                                           *)

Running(w) == snap[w] # NULL

Begin(w) ==
  /\ ~Running(w)
  /\ snap' = [snap EXCEPT ![w] = [flows |-> flows, steps |-> steps]]
  /\ newer' = [newer EXCEPT ![w] = {}]
  /\ UNCHANGED <<tables, doubled>>

Ended(w) == Running(w) /\ snap' = [snap EXCEPT ![w] = NULL]

\* Also the end of a request that has changed nothing.
Abort(w) == Ended(w) /\ UNCHANGED <<tables, ghosts>>

\* Mutant: the flow that is asked for is taken as it is.
AnyFlow(w, o, f) == Running(w)

\* flow is found, and the caller owns it.
Owns(w, o, f) == snap[w].flows[f].owner = o

\* The assigned columns of a flow, of which those that differ from the row read are flushed.
Assigned(w, f, default, status) ==
  LET read == snap[w].flows[f]
  IN  [flows[f] EXCEPT !.default = IF default = read.default THEN @ ELSE default,
                       !.status = IF status = read.status THEN @ ELSE status]

-----------------------------------------------------------------------------
(* Step rows.                                                              *)

\* Rows of a list, with positions from 0.
StepRows(list) ==
  { [list |-> lists + 1, key |-> list[n].key, position |-> n - 1,
     enabled |-> list[n].enabled] : n \in DOMAIN list }

\* Mutant: no unique constraint on (flow_id, position).
UniqueKeys(rows) == \A r, s \in rows : r.key = s.key => r = s

\* uq_flow_step_key, uq_flow_step_position
Unique(rows) == \A r, s \in rows : r.key = s.key \/ r.position = s.position => r = s

\* Rows of a list with a repeated key are refused by the database.
Inserted(f, kept, list) ==
  LET rows == kept \cup StepRows(list)
  IN  /\ Len(list) = Cardinality(StepRows(list))
      /\ Unique(rows)
      /\ lists < MaxLists
      /\ steps' = [steps EXCEPT ![f] = rows]
      /\ lists' = lists + 1

AllEnabled(keys) == [n \in DOMAIN keys |-> [key |-> keys[n], enabled |-> TRUE]]

-----------------------------------------------------------------------------
(* Handlers.                                                               *)

MadeDefault(o) == [w \in Worker |-> IF Running(w) THEN newer[w] \cup {o} ELSE {}]

NewFlow(o, f, default, list) ==
  /\ flows[f] = Unused
  /\ flows' = [flows EXCEPT ![f] = [Unused EXCEPT !.owner = o, !.default = default]]
  /\ Inserted(f, {}, list)

\* keys is NULL when the request has none: then all steps of the schema.
CreateFlow(w, o, f, keys) ==
  /\ Ended(w)
  /\ NewFlow(o, f, FALSE, AllEnabled(IF keys = NULL THEN SchemaSteps ELSE keys))
  /\ UNCHANGED ghosts

\* The rows that were read are deleted, and the new ones inserted.
UpdateFlow(w, o, f, list) ==
  /\ Ended(w) /\ Owns(w, o, f)
  /\ Inserted(f, steps[f] \ snap[w].steps[f], list)
  /\ UNCHANGED <<flows, ghosts>>

\* Mutant: the other flows are unset one by one, as they were read.
SetDefaultAsRead(w, o, f) ==
  /\ Ended(w) /\ Owns(w, o, f)
  /\ flows' = [g \in FlowId |->
       IF g = f THEN Assigned(w, f, TRUE, snap[w].flows[f].status)
       ELSE IF Owns(w, o, g) THEN Assigned(w, g, FALSE, snap[w].flows[g].status)
       ELSE flows[g]]
  /\ newer' = MadeDefault(o)
  /\ doubled' = doubled \ {o}
  /\ UNCHANGED <<steps, lists>>

\* The others are unset by a bulk update, which sees what has been committed since.
\* The status of the flow does not matter.
SetDefault(w, o, f) ==
  /\ Ended(w) /\ Owns(w, o, f)
  /\ flows' = [g \in FlowId |->
       IF g = f THEN Assigned(w, f, TRUE, snap[w].flows[f].status)
       ELSE [flows[g] EXCEPT !.default = @ /\ flows[g].owner # o]]
  /\ newer' = MadeDefault(o)
  /\ doubled' = doubled \ {o}
  /\ UNCHANGED <<steps, lists>>

ArchiveFlow(w, o, f) ==
  /\ Ended(w) /\ Owns(w, o, f)
  /\ flows' = [flows EXCEPT ![f] = Assigned(w, f, FALSE, "archived")]
  /\ UNCHANGED <<steps, lists, ghosts>>

ActiveDefaults(store, o) ==
  {f \in FlowId : store[f].owner = o /\ store[f].default /\ store[f].status = "active"}

\* Without an active default one is created, even by a request to read it.
GetOrCreateDefault(w, o, f) ==
  /\ Ended(w)
  /\ ActiveDefaults(snap[w].flows, o) = {}
  /\ NewFlow(o, f, TRUE, AllEnabled(SchemaSteps))
  /\ newer' = MadeDefault(o)
  /\ doubled' = IF o \in newer[w] THEN doubled \cup {o} ELSE doubled

Next ==
  \E w \in Worker :
    \/ Begin(w) \/ Abort(w)
    \/ \E o \in Owner, f \in FlowId :
         \/ \E keys \in {NULL} \cup {[n \in DOMAIN l |-> l[n].key] : l \in StepLists} :
              CreateFlow(w, o, f, keys)
         \/ \E list \in StepLists : UpdateFlow(w, o, f, list)
         \/ SetDefault(w, o, f) \/ ArchiveFlow(w, o, f)
         \/ GetOrCreateDefault(w, o, f)

Spec == Init /\ [][Next]_vars

-----------------------------------------------------------------------------
(* Safety.                                                                 *)

\* A flow's rows are one list that a client sent or the schema gave, in
\* positions 0, 1, ..., with no step twice: of two overlapping updates, the rows
\* never mix.
StepsOneList ==
  \A f \in FlowId :
    /\ \A r, s \in steps[f] : r.list = s.list /\ (r.key = s.key => r = s)
    /\ {r.position : r \in steps[f]} = 0..(Cardinality(steps[f]) - 1)

\* A user has at most one active default, whichever requests overlap: the one
\* exception is a default created on first use while another was being made,
\* and choosing a default repairs that.
OneDefaultUnlessCreated ==
  \A o \in Owner : o \in doubled \/ Cardinality(ActiveDefaults(flows, o)) <= 1
=============================================================================
