-------------------------- MODULE CandidateReview --------------------------
(***************************************************************************)
(* Personal revisions, the candidates they are submitted as, and the draft *)
(* layers that accepted candidates become.  Requests overlap as in         *)
(* ConcurrentLayers, whose transactions this module widens by two tables;  *)
(* of its handlers it takes those that decide what becomes of a draft, and *)
(* the edit of a field.                                                    *)
(*                                                                         *)
(* A definition marked Mutant is a plausible bug of the one after it; no   *)
(* specification uses it.                                                  *)
(***************************************************************************)
EXTENDS ConcurrentLayers

CONSTANTS
  Revision,   \* primary keys of user_config_revision
  Candidate,  \* primary keys of template_candidate
  Actor,      \* usernames of config editors
  Answers,    \* the answers a revision may be saved with, NULL for no answer
  OwnKey      \* OwnKey[c]: the layer_key "combo:candidate_<c>"

ASSUME AnswersAssumption == Answers \subseteq [Field -> Value \cup {NULL}]

ASSUME OwnKeyAssumption ==
  /\ OwnKey \in [Candidate -> Combo]
  /\ \A c, d \in Candidate : OwnKey[c] = OwnKey[d] => c = d

\* The keys a request can name: an override target has the key "override:...".
Target == Key \ {OwnKey[c] : c \in Candidate}

\* A candidate may also name a layer type and leave out the tool or language.
Untargeted == {"tool", "language"}

VARIABLES
  revisions,   \* user_config_revision and its values, NULL when absent
  candidates,  \* template_candidate, NULL when absent
  origin,      \* origin[d]: the candidate in the draft_name of layer d
  seen,        \* seen[w]: revisions and candidates in w's snapshot
  redecided    \* ghost: candidates that were decided more than once

reviewTables == <<revisions, candidates, origin, redecided>>
reviewVars == <<vars, reviewTables, seen>>

RevisionRow ==
  [ status : {"active", "submitted", "archived"},
    owner  : Actor,
    values : Answers ]

CandidateRow ==
  [ status   : {"submitted", "accepted", "rejected", "withdrawn"},
    revision : Revision,
    by       : Actor,                    \* submitted_by
    target   : Target \cup Untargeted,
    reviewed : BOOLEAN,                  \* reviewed_at is set
    layer    : LayerId \cup {NULL} ]     \* resulting_layer_id

Reviewable ==
  [ revisions  : [Revision -> RevisionRow \cup {NULL}],
    candidates : [Candidate -> CandidateRow \cup {NULL}] ]

\* NULL, for an absent row, is no row.
ASSUME RowsDistinct == NULL \notin RevisionRow \cup CandidateRow \cup Candidate

ReviewTypeOK ==
  /\ TypeOK
  /\ revisions \in [Revision -> RevisionRow \cup {NULL}]
  /\ candidates \in [Candidate -> CandidateRow \cup {NULL}]
  /\ origin \in [LayerId -> Candidate \cup {NULL}]
  /\ seen \in [Worker -> Reviewable \cup {NULL}]
  /\ \A w \in Worker : Running(w) => seen[w] \in Reviewable
  /\ redecided \in SUBSET Candidate

ReviewInit ==
  /\ Init
  /\ revisions = [r \in Revision |-> NULL]
  /\ candidates = [c \in Candidate |-> NULL]
  /\ origin = [i \in LayerId |-> NULL]
  /\ seen = [w \in Worker |-> NULL]
  /\ redecided = {}

-----------------------------------------------------------------------------
(* Transactions.                                                           *)

Open(w) ==
  /\ Begin(w)
  /\ seen' = [seen EXCEPT ![w] = [revisions |-> revisions, candidates |-> candidates]]
  /\ UNCHANGED reviewTables

Closed(w) == seen' = [seen EXCEPT ![w] = NULL]

\* A request of ConcurrentLayers ends: w's Abort or one of its commits.
LayerRequest(w) ==
  /\ \/ Abort(w)
     \/ \E k \in Target, i \in LayerId, f \in Field, v \in Value : UpdateField(w, k, i, f, v)
     \/ \E d \in LayerId : PromoteDraft(w, d) \/ ArchiveDraft(w, d)
  /\ Closed(w)
  /\ UNCHANGED reviewTables

ReviewEnded(w) == Ended(w) /\ Closed(w) /\ UNCHANGED <<languages, versions, overtaken>>

-----------------------------------------------------------------------------
(* Revisions.                                                              *)

SaveRevision(w, r, a, values) ==
  /\ Running(w)
  /\ revisions[r] = NULL
  /\ revisions' = [revisions EXCEPT ![r] =
                     [status |-> "active", owner |-> a, values |-> values]]
  /\ ReviewEnded(w)
  /\ UNCHANGED <<layers, overrides, candidates, origin, redecided>>

\* The revision as w read it, when a may use it.
Readable(w, r, a) ==
  /\ Running(w)
  /\ seen[w].revisions[r] # NULL
  /\ seen[w].revisions[r].owner = a
  /\ seen[w].revisions[r].status # "archived"

WithStatus(w, r, status) ==
  LET read == seen[w].revisions[r]
  IN  [revisions EXCEPT ![r] = Flushed(@, read, [read EXCEPT !.status = status])]

ArchiveRevision(w, r, a) ==
  /\ Readable(w, r, a)
  /\ revisions' = WithStatus(w, r, "archived")
  /\ ReviewEnded(w)
  /\ UNCHANGED <<layers, overrides, candidates, origin, redecided>>

-----------------------------------------------------------------------------
(* Candidates.                                                             *)

\* Mutant: the revision is not marked.
SubmitUnmarked(w, c, r, a, t) ==
  /\ Readable(w, r, a)
  /\ t \in Target => KnownTo(w, t)
  /\ candidates[c] = NULL
  /\ candidates' = [candidates EXCEPT ![c] =
       [status |-> "submitted", revision |-> r, by |-> a, target |-> t,
        reviewed |-> FALSE, layer |-> NULL]]
  /\ ReviewEnded(w)
  /\ UNCHANGED <<layers, overrides, revisions, origin, redecided>>

\* A revision that was submitted before can be submitted again, for any target.
Submit(w, c, r, a, t) ==
  /\ Readable(w, r, a)
  /\ t \in Target => KnownTo(w, t)
  /\ candidates[c] = NULL
  /\ candidates' = [candidates EXCEPT ![c] =
       [status |-> "submitted", revision |-> r, by |-> a, target |-> t,
        reviewed |-> FALSE, layer |-> NULL]]
  /\ revisions' = IF seen[w].revisions[r].status = "active"
                  THEN WithStatus(w, r, "submitted") ELSE revisions
  /\ ReviewEnded(w)
  /\ UNCHANGED <<layers, overrides, origin, redecided>>

\* Mutant: any candidate that was not accepted can be decided.
PendingOrRefused(w, c) ==
  /\ Running(w)
  /\ seen[w].candidates[c] # NULL
  /\ seen[w].candidates[c].status # "accepted"

\* The check that reject, withdraw and accept begin with.
Pending(w, c) ==
  /\ Running(w)
  /\ seen[w].candidates[c] # NULL
  /\ seen[w].candidates[c].status = "submitted"

Decided(w, c, row) ==
  /\ candidates' = [candidates EXCEPT ![c] = Flushed(@, seen[w].candidates[c], row)]
  /\ redecided' = IF candidates[c].status = "submitted" THEN redecided
                  ELSE redecided \cup {c}

Reject(w, c) ==
  /\ Pending(w, c)
  /\ Decided(w, c, [seen[w].candidates[c] EXCEPT !.status = "rejected", !.reviewed = TRUE])
  /\ ReviewEnded(w)
  /\ UNCHANGED <<layers, overrides, revisions, origin>>

Withdraw(w, c, a) ==
  /\ Pending(w, c)
  /\ seen[w].candidates[c].by = a
  /\ Decided(w, c, [seen[w].candidates[c] EXCEPT !.status = "withdrawn"])
  /\ ReviewEnded(w)
  /\ UNCHANGED <<layers, overrides, revisions, origin>>

DraftKey(c, t) == IF t \in Tool \cup Language THEN t ELSE OwnKey[c]

\* Mutant: fields without an answer get the value of another field.
ProposedShifted(values) ==
  [f \in Field |-> [meta |-> IF values[f] = NULL THEN values[CHOOSE g \in Field : TRUE]
                             ELSE values[f], content |-> NULL]]

\* Mutant: every default value is the whole map of answers.
ProposedWhole(values) == [f \in Field |-> [meta |-> values, content |-> NULL]]

\* The override rows of the draft: a default value for each answer.
Proposed(values) == [f \in Field |-> [meta |-> values[f], content |-> NULL]]

\* Mutant: the layer is not linked to the candidate.
AcceptUnlinked(w, c, d) ==
  LET read == seen[w].candidates[c]
  IN  /\ Pending(w, c)
      /\ d \notin Used(layers)
      /\ layers' = [layers EXCEPT ![d] = NewLayer(DraftKey(c, read.target), "draft", NULL)]
      /\ overrides' = [overrides EXCEPT ![d] =
           Proposed(seen[w].revisions[read.revision].values)]
      /\ origin' = [origin EXCEPT ![d] = c]
      /\ Decided(w, c, [read EXCEPT !.status = "accepted", !.reviewed = TRUE])
      /\ ReviewEnded(w)
      /\ UNCHANGED revisions

\* A new draft without parent, of the target's key only for a tool or a language.
Accept(w, c, d) ==
  LET read == seen[w].candidates[c]
  IN  /\ Pending(w, c)
      /\ d \notin Used(layers)
      /\ layers' = [layers EXCEPT ![d] = NewLayer(DraftKey(c, read.target), "draft", NULL)]
      /\ overrides' = [overrides EXCEPT ![d] =
           Proposed(seen[w].revisions[read.revision].values)]
      /\ origin' = [origin EXCEPT ![d] = c]
      /\ Decided(w, c, [read EXCEPT !.status = "accepted", !.reviewed = TRUE, !.layer = d])
      /\ ReviewEnded(w)
      /\ UNCHANGED revisions

ReviewNext ==
  \E w \in Worker :
    \/ Open(w) \/ LayerRequest(w)
    \/ \E r \in Revision, a \in Actor :
         \/ \E values \in Answers : SaveRevision(w, r, a, values)
         \/ ArchiveRevision(w, r, a)
         \/ \E c \in Candidate, t \in Target \cup Untargeted : Submit(w, c, r, a, t)
    \/ \E c \in Candidate :
         \/ Reject(w, c)
         \/ \E a \in Actor : Withdraw(w, c, a)
         \/ \E d \in LayerId : Accept(w, c, d)

ReviewSpec == ReviewInit /\ [][ReviewNext]_reviewVars

-----------------------------------------------------------------------------
(* Safety.                                                                 *)

\* A revision that was submitted never looks unsubmitted again, and whoever
\* submitted it owns it, however its candidates are decided and it is archived.
SubmittedStaysMarked ==
  \A c \in Candidate : candidates[c] # NULL =>
    LET r == revisions[candidates[c].revision]
    IN  r # NULL /\ r.status \in {"submitted", "archived"} /\ r.owner = candidates[c].by

\* A candidate's layer and its decision agree: a layer came of it if and only if
\* it was accepted, just one, and the candidate names it.  Two decisions that
\* overlapped are the exception.
DecisionsAccountedFor ==
  \A c \in Candidate \ redecided :
    IF candidates[c] = NULL THEN \A d \in LayerId : origin[d] # c
    ELSE /\ {d \in LayerId : origin[d] = c}
              = IF candidates[c].status = "accepted" THEN {candidates[c].layer} ELSE {}
         /\ candidates[c].reviewed <=> candidates[c].status \in {"accepted", "rejected"}

\* Until it is published, a draft that came of a candidate proposes what its
\* revision says and nothing else, whatever is edited and published meanwhile.
DraftsAsSubmitted ==
  \A d \in LayerId : origin[d] # NULL /\ ~layers[d].published =>
    /\ layers[d].key = DraftKey(origin[d], candidates[origin[d]].target)
    /\ \A f \in Field :
         overrides[d][f].meta = revisions[candidates[origin[d]].revision].values[f]

\* A review decides a candidate once: the workflow at the head of the model.
Queue == INSTANCE ReviewQueue WITH
  Item <- Candidate,
  Proposal <- LayerId,
  state <- [c \in Candidate |->
              IF candidates[c] = NULL THEN "absent" ELSE candidates[c].status],
  made <- [c \in Candidate |-> {d \in LayerId : origin[d] = c}]

ImplementsQueue == Queue!Spec
=============================================================================
