--------------------------- MODULE MCWizardFlows ---------------------------
(* Small instances of WizardFlows: a schema of two steps.                   *)
EXTENDS WizardFlows, TLC

CONSTANTS intro, build

Symmetry == Permutations(Worker) \cup Permutations(FlowId)

Schema == <<intro, build>>

\* No step; either step alone; one step twice.
SentLists ==
  { <<>>,
    <<[key |-> build, enabled |-> TRUE]>>,
    <<[key |-> intro, enabled |-> FALSE]>>,
    <<[key |-> intro, enabled |-> TRUE], [key |-> intro, enabled |-> TRUE]>> }
=============================================================================
