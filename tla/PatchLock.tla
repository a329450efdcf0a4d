----------------------------- MODULE PatchLock -----------------------------
(***************************************************************************)
(* The patch engine on one target file.  A call creates the lock file,     *)
(* reads and changes the document, writes it to a temporary file, renames  *)
(* that onto the target and removes the lock file; an exception on the way *)
(* skips to the removal.  The lock is nothing but the existence of a file: *)
(* a caller that dies leaves it behind, and nobody ever removes it.        *)
(*                                                                         *)
(* A process here is anything that calls the engine: a thread or an        *)
(* operating system process.  Only its file system steps are seen by       *)
(* others, so each of them is an action.                                   *)
(***************************************************************************)
EXTENDS DocumentPatches

CONSTANTS
  Process,    \* callers
  Request,    \* the calls they may make
  Document,   \* contents the target file may have at first
  Retries,    \* attempts that fit into the timeout of 5 s, 0.1 s apart
  MaxCalls    \* bound: calls made altogether

ASSUME PatchNumbers == Retries \in Nat /\ MaxCalls \in Nat

\* Files are edited through the engine alone; an id that is not known is not refused, so
\* Field and Step are all ids that a caller may name.
ASSUME DocumentAssumption == \A doc \in Document : Content(doc)

ASSUME RequestAssumption ==
  \A r \in Request :
    \/ r.op \in {"metadata", "structure", "add", "take"} /\ r.on \in Field
    \/ r.op = "step" /\ r.on \in Step
    \/ r.op = "remove" /\ r.type \in {"metadata", "structure"}

ASSUME NullNoProcess == NULL \notin Process

VARIABLES
  file,       \* content of the target; NULL when it is missing or not JSON
  lock,       \* who created the lock file, NULL when there is none
  pc,         \* where in its call each process is
  request,    \* the call it makes, NULL when it makes none
  work,       \* the document it has read and changed
  tries,      \* failed attempts to create the lock file
  reply,      \* how its last call ended
  calls,      \* number of calls made
  orphaned    \* ghost: a caller died between creating and removing the lock file

vars == <<file, lock, pc, request, work, tries, reply, calls, orphaned>>

Waiting == {"locking"}
Section == {"reading", "writing", "replacing", "releasing"}

Init ==
  /\ file \in Document \cup {NULL}
  /\ lock = NULL
  /\ pc = [p \in Process |-> "idle"]
  /\ request = [p \in Process |-> NULL]
  /\ work = [p \in Process |-> NULL]
  /\ tries = [p \in Process |-> 0]
  /\ reply = [p \in Process |-> "none"]
  /\ calls = 0
  /\ orphaned = FALSE

-----------------------------------------------------------------------------
Goto(p, label) == pc' = [pc EXCEPT ![p] = label]

\* The call ends without the lock, or without the file having been replaced.
Failed(p, label, how) ==
  /\ Goto(p, label)
  /\ reply' = [reply EXCEPT ![p] = how]

Call(p, r) ==
  /\ pc[p] = "idle" /\ calls < MaxCalls
  /\ Goto(p, "locking")
  /\ request' = [request EXCEPT ![p] = r]
  /\ tries' = [tries EXCEPT ![p] = 0]
  /\ reply' = [reply EXCEPT ![p] = "none"]
  /\ calls' = calls + 1
  /\ UNCHANGED <<file, lock, work, orphaned>>

\* Mutant: touch does not fail on an existing lock file.
AcquireAny(p) ==
  /\ pc[p] = "locking"
  /\ lock' = p
  /\ Goto(p, "reading")
  /\ UNCHANGED <<file, request, work, tries, reply, calls, orphaned>>

\* touch(exist_ok=False)
Acquire(p) ==
  /\ pc[p] = "locking" /\ lock = NULL
  /\ lock' = p
  /\ Goto(p, "reading")
  /\ UNCHANGED <<file, request, work, tries, reply, calls, orphaned>>

\* Mutant: the timeout is never looked at.
RetryForever(p) ==
  /\ pc[p] = "locking" /\ lock # NULL
  /\ tries' = [tries EXCEPT ![p] = 1 - @]
  /\ UNCHANGED <<file, lock, pc, request, work, reply, calls, orphaned>>

\* Mutant: one attempt too many.
RetryOnceMore(p) ==
  /\ pc[p] = "locking" /\ lock # NULL
  /\ IF tries[p] <= Retries
     THEN tries' = [tries EXCEPT ![p] = @ + 1] /\ UNCHANGED <<pc, request, reply>>
     ELSE /\ Failed(p, "idle", "busy")
          /\ request' = [request EXCEPT ![p] = NULL]
          /\ UNCHANGED tries
  /\ UNCHANGED <<file, lock, work, calls, orphaned>>

\* Another attempt, after a sleep; or FileLockError, before the try block is entered.
Retry(p) ==
  /\ pc[p] = "locking" /\ lock # NULL
  /\ IF tries[p] < Retries
     THEN tries' = [tries EXCEPT ![p] = @ + 1] /\ UNCHANGED <<pc, request, reply>>
     ELSE /\ Failed(p, "idle", "busy")
          /\ request' = [request EXCEPT ![p] = NULL]
          /\ UNCHANGED tries
  /\ UNCHANGED <<file, lock, work, calls, orphaned>>

\* Reads the target and applies the operation to what it has read.
Read(p) ==
  /\ pc[p] = "reading"
  /\ LET doc == Result(file, request[p])
     IN  IF doc = Refused THEN Failed(p, "releasing", "error") /\ UNCHANGED work
         ELSE /\ Goto(p, "writing")
              /\ work' = [work EXCEPT ![p] = doc]
              /\ UNCHANGED reply
  /\ UNCHANGED <<file, lock, request, tries, calls, orphaned>>

\* The temporary file is complete; or writing it failed, and it is removed.
WriteTemp(p) ==
  /\ pc[p] = "writing"
  /\ \/ Goto(p, "replacing") /\ UNCHANGED <<work, reply>>
     \/ Failed(p, "releasing", "error") /\ work' = [work EXCEPT ![p] = NULL]
  /\ UNCHANGED <<file, lock, request, tries, calls, orphaned>>

\* os.replace
Replace(p) ==
  /\ pc[p] = "replacing"
  /\ file' = work[p]
  /\ work' = [work EXCEPT ![p] = NULL]
  /\ Goto(p, "releasing")
  /\ UNCHANGED <<lock, request, tries, reply, calls, orphaned>>

\* Mutant: the lock file is removed only when the call succeeds.
ReleaseOnSuccess(p) ==
  /\ pc[p] = "releasing"
  /\ lock' = IF reply[p] = "error" THEN lock ELSE NULL
  /\ Goto(p, "idle")
  /\ request' = [request EXCEPT ![p] = NULL]
  /\ reply' = [reply EXCEPT ![p] = IF @ = "none" THEN "ok" ELSE @]
  /\ UNCHANGED <<file, work, tries, calls, orphaned>>

\* The finally block, and the return or the exception after it.
Release(p) ==
  /\ pc[p] = "releasing"
  /\ lock' = NULL
  /\ Goto(p, "idle")
  /\ request' = [request EXCEPT ![p] = NULL]
  /\ reply' = [reply EXCEPT ![p] = IF @ = "none" THEN "ok" ELSE @]
  /\ UNCHANGED <<file, work, tries, calls, orphaned>>

\* The process dies in a call and starts again; the temporary file it may leave is
\* never read.
Crash(p) ==
  /\ pc[p] # "idle"
  /\ Goto(p, "idle")
  /\ request' = [request EXCEPT ![p] = NULL]
  /\ work' = [work EXCEPT ![p] = NULL]
  /\ reply' = [reply EXCEPT ![p] = "none"]
  /\ orphaned' = (orphaned \/ pc[p] \in Section)
  /\ UNCHANGED <<file, lock, tries, calls>>

\* What a process does of its own accord once it has made a call.
Continue(p) ==
  Acquire(p) \/ Retry(p) \/ Read(p) \/ WriteTemp(p) \/ Replace(p) \/ Release(p)

Next ==
  \E p \in Process : (\E r \in Request : Call(p, r)) \/ Continue(p) \/ Crash(p)

\* A call under way goes on: sleeps end and file operations return.  Nobody has to
\* call or to crash.
Spec == Init /\ [][Next]_vars /\ \A p \in Process : WF_vars(Continue(p))

-----------------------------------------------------------------------------
(* Properties.                                                             *)

InSection(p) == pc[p] \in Section

\* Types: the target file holds a whole document unless it never did, whose entries
\* have no property their section does not know; the other variables hold their
\* states, counters and callers.
PatchTypeOK ==
  /\ Content(file) /\ \A p \in Process : Content(work[p])
  /\ lock \in Process \cup {NULL}
  /\ pc \in [Process -> {"idle"} \cup Waiting \cup Section]
  /\ tries \in [Process -> 0..Retries]
  /\ reply \in [Process -> {"none", "ok", "error", "busy"}]
  /\ calls \in 0..MaxCalls
  /\ orphaned \in BOOLEAN

\* Only the creator of the lock file is between reading and releasing, so that no two
\* callers work on the target at once, whatever timeouts, errors and crashes
\* (_acquire_file_lock, and the finally block of every operation).
MutualExclusion == \A p \in Process : InSection(p) => lock = p

\* Every call of the engine ends, with an answer or with its process, whoever died
\* holding the lock (the timeout of _acquire_file_lock).
EveryCallEnds == \A p \in Process : pc[p] # "idle" ~> pc[p] = "idle"

\* A lock file is removed in the end, unless a caller died holding it: no error path of
\* an operation forgets it (the finally blocks).
LockComesFree == lock # NULL ~> (lock = NULL \/ orphaned)

\* Callers see each patch take effect at once, on the document as it is then, with a
\* success reply if and only if it did (docstring of config_patcher: "Safe concurrent
\* access", "Atomic operations").
State(p) ==
  IF pc[p] = "idle" THEN reply[p]
  ELSE IF pc[p] = "releasing" /\ reply[p] = "none" THEN "applied"
  ELSE "asked"

Atomic == INSTANCE AtomicDocument WITH
  document <- file,
  call <- [p \in Process |-> [request |-> request[p], state |-> State(p)]]

ImplementsAtomic == Atomic!Init /\ [][Atomic!Next]_(Atomic!vars)
=============================================================================
