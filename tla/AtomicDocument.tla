--------------------------- MODULE AtomicDocument ---------------------------
(***************************************************************************)
(* What a caller of the patch engine may rely on: a call takes effect at   *)
(* one moment between its start and its answer, on the document as it is   *)
(* at that moment, and at most once; it is answered with success if and    *)
(* only if it took effect.  A caller that dies gets no answer, and its     *)
(* call may or may not have taken effect.                                  *)
(***************************************************************************)
EXTENDS DocumentPatches

CONSTANTS Process, Request

VARIABLES
  document,   \* the content of the target file
  call        \* call[p]: the request of p and what became of it

NoCall == [request |-> NULL, state |-> "none"]

vars == <<document, call>>

Answered(state) == [request |-> NULL, state |-> state]

Init == call = [p \in Process |-> NoCall]

Ask(p, r) ==
  /\ call[p].state \notin {"asked", "applied"}
  /\ call' = [call EXCEPT ![p] = [request |-> r, state |-> "asked"]]
  /\ UNCHANGED document

Apply(p) ==
  /\ call[p].state = "asked"
  /\ document' = Result(document, call[p].request)
  /\ document' # Refused
  /\ call' = [call EXCEPT ![p].state = "applied"]

\* The two answers, and the end of a caller that waits for one no longer.
Confirm(p) ==
  /\ call[p].state = "applied"
  /\ call' = [call EXCEPT ![p] = Answered("ok")]
  /\ UNCHANGED document

Refuse(p) ==
  /\ call[p].state = "asked"
  /\ \E state \in {"error", "busy"} : call' = [call EXCEPT ![p] = Answered(state)]
  /\ UNCHANGED document

Vanish(p) ==
  /\ call[p].state \in {"asked", "applied"}
  /\ call' = [call EXCEPT ![p] = NoCall]
  /\ UNCHANGED document

Next ==
  \E p \in Process :
    \/ \E r \in Request : Ask(p, r)
    \/ Apply(p) \/ Confirm(p) \/ Refuse(p) \/ Vanish(p)

Spec == Init /\ [][Next]_vars
=============================================================================
