----------------------------- MODULE FileStore -----------------------------
(***************************************************************************)
(* The file based predecessor of the layer store: the patch engine and     *)
(* next to it the version history of the target, a directory of numbered   *)
(* files.  A save takes no lock: it reads the directory, adds one to the   *)
(* highest number it finds, and renames a temporary file to that name.     *)
(***************************************************************************)
EXTENDS PatchLock

CONSTANTS
  LastListed,   \* the largest number that v[0-9][0-9][0-9].json matches: 999
  MaxSaves      \* bound: saves begun altogether

ASSUME HistoryNumbers == LastListed \in Nat /\ MaxSaves \in Nat

VARIABLES
  history,    \* the numbered files: number -> the save its content is from
  saving,     \* the save each process is in, NULL when in none
  saves       \* number of saves begun

storeVars == <<vars, history, saving, saves>>

StoreInit == Init /\ history = <<>> /\ saving = [p \in Process |-> NULL] /\ saves = 0

\* Mutants: a counter of saves instead of the files; the highest number itself.
CountedVersion == saves

LatestVersion == Max({1} \cup {n \in DOMAIN history : n <= LastListed})

\* _next_version
NextVersion == Max({0} \cup {n \in DOMAIN history : n <= LastListed}) + 1

\* save_version is called; earlier is a ghost: the files that were there at that time.
BeginSave(p) ==
  /\ pc[p] = "idle" /\ saving[p] = NULL /\ saves < MaxSaves
  /\ saves' = saves + 1
  /\ saving' = [saving EXCEPT ![p] =
                  [save |-> saves + 1, number |-> NULL, earlier |-> DOMAIN history]]
  /\ UNCHANGED <<vars, history>>

ReadNumber(p) ==
  /\ saving[p] # NULL /\ saving[p].number = NULL
  /\ saving' = [saving EXCEPT ![p].number = NextVersion]
  /\ UNCHANGED <<vars, history, saves>>

\* The temporary file replaces whatever has that name.
StoreVersion(p) ==
  /\ saving[p] # NULL /\ saving[p].number # NULL
  /\ history' = [n \in DOMAIN history \cup {saving[p].number} |->
                   IF n = saving[p].number THEN saving[p].save ELSE history[n]]
  /\ saving' = [saving EXCEPT ![p] = NULL]
  /\ UNCHANGED <<vars, saves>>

\* Writing fails, or the process dies, before the file has its name.
AbandonSave(p) ==
  /\ saving[p] # NULL
  /\ saving' = [saving EXCEPT ![p] = NULL]
  /\ UNCHANGED <<vars, history, saves>>

Patch(p) ==
  /\ saving[p] = NULL
  /\ (\E r \in Request : Call(p, r)) \/ Continue(p) \/ Crash(p)
  /\ UNCHANGED <<history, saving, saves>>

StoreNext ==
  \E p \in Process :
    Patch(p) \/ BeginSave(p) \/ ReadNumber(p) \/ StoreVersion(p) \/ AbandonSave(p)

StoreSpec ==
  /\ StoreInit /\ [][StoreNext]_storeVars
  /\ \A p \in Process : WF_vars(Continue(p))

-----------------------------------------------------------------------------
(* Properties.                                                             *)

\* The numbers in use run from 1 without a gap, up to one more than the search finds,
\* whichever saves fail, die or overlap (_next_version numbers by the files that are
\* there, not by the saves that began).
NumbersContiguous == DOMAIN history \in {1..n : n \in 0..(LastListed + 1)}

\* A save replaces the file of another only when that one was written while it ran, or
\* past the last number that the search finds (save_version: no lock, and a three-digit
\* pattern; the docstring promises "immutable, sequentially-numbered copies").
EarlierSnapshotsKept ==
  [][\A n \in DOMAIN history : history'[n] # history[n] =>
       \/ n > LastListed
       \/ \E p \in Process : saving[p] # NULL /\ n \notin saving[p].earlier
                               /\ saving'[p] = NULL]_storeVars
=============================================================================
