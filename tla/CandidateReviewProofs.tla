----------------------- MODULE CandidateReviewProofs -----------------------
(***************************************************************************)
(* Proofs about reviews that overlap with one another and with requests    *)
(* to the layers, for any number of workers, revisions and candidates.     *)
(***************************************************************************)
EXTENDS CandidateReview, ConcurrentLayersProofs

-----------------------------------------------------------------------------
(* The inductive invariant: CInv of the layers, what the tables of the     *)
(* review say together, and that a snapshot is a past of them.             *)

TargetsKnown ==
  \A c \in Candidate : candidates[c] # NULL /\ candidates[c].target \in Language
                         => candidates[c].target \in languages

\* A candidate that is not decided carries nothing of a decision.
Fresh(cs) ==
  \A c \in Candidate : cs[c] # NULL /\ cs[c].status = "submitted"
                         => ~cs[c].reviewed /\ cs[c].layer = NULL

\* A layer that came of a candidate: of its key, published once active, and until then
\* with the answers of its revision.
Drafted(d) ==
  LET c == candidates[origin[d]]
  IN  /\ d \in Used(layers) /\ c # NULL
      /\ layers[d].key = DraftKey(origin[d], c.target)
      /\ layers[d].status = "active" => layers[d].published
      /\ ~layers[d].published =>
           \A f \in Field : overrides[d][f].meta = revisions[c.revision].values[f]

ReviewTables ==
  /\ TargetsKnown
  /\ SubmittedStaysMarked
  /\ DecisionsAccountedFor
  /\ Fresh(candidates)
  /\ \A d \in LayerId : origin[d] # NULL => Drafted(d)

\* Revisions keep owner and answers and never turn active again, candidates keep what
\* was submitted, layers stay published.
ReviewPast(w) ==
  LET rs == seen[w].revisions
      cs == seen[w].candidates
  IN  /\ \A r \in Revision : rs[r] # NULL =>
           /\ revisions[r] # NULL
           /\ revisions[r].owner = rs[r].owner /\ revisions[r].values = rs[r].values
           /\ rs[r].status # "active" => revisions[r].status # "active"
      /\ \A c \in Candidate : cs[c] # NULL =>
           /\ candidates[c] # NULL
           /\ candidates[c].revision = cs[c].revision
           /\ candidates[c].by = cs[c].by /\ candidates[c].target = cs[c].target
           /\ rs[cs[c].revision] # NULL
      /\ Fresh(cs)
      /\ \A i \in Used(snap[w].layers) :
           \/ snap[w].layers[i].published
           \/ snap[w].layers[i].status = "active" /\ origin[i] # NULL
           => layers[i].published

RInv ==
  /\ CInv /\ ReviewTypeOK /\ ReviewTables
  /\ \A w \in Worker : Running(w) => ReviewPast(w)

-----------------------------------------------------------------------------
(* What every request that ends has in common.                             *)

Evolved ==
  /\ revisions' \in [Revision -> RevisionRow \cup {NULL}]
  /\ candidates' \in [Candidate -> CandidateRow \cup {NULL}]
  /\ origin' \in [LayerId -> Candidate \cup {NULL}]
  /\ redecided' \in SUBSET Candidate
  /\ \A r \in Revision : revisions[r] # NULL =>
       /\ revisions'[r] # NULL
       /\ revisions'[r].owner = revisions[r].owner
       /\ revisions'[r].values = revisions[r].values
       /\ revisions[r].status # "active" => revisions'[r].status # "active"
  /\ \A c \in Candidate : candidates[c] # NULL =>
       /\ candidates'[c] # NULL
       /\ candidates'[c].revision = candidates[c].revision
       /\ candidates'[c].by = candidates[c].by
       /\ candidates'[c].target = candidates[c].target
  /\ \A i \in Used(layers) :
       origin'[i] = origin[i] /\ (layers[i].published => layers'[i].published)
  /\ ReviewTables'

LEMMA RequestEnds ==
  ASSUME RInv, NEW w \in Worker, CInv', Closed(w), snap' = [snap EXCEPT ![w] = NULL], Evolved
  PROVE  RInv'
<1>1. ASSUME NEW x \in Worker, Running(x)'
      PROVE  /\ x # w /\ snap'[x] = snap[x] /\ seen'[x] = seen[x] /\ Running(x)
  BY <1>1 DEF Running, RInv, CInv, TypeOK, ReviewTypeOK, Closed
<1>2. ReviewTypeOK'
  <2>1. seen' \in [Worker -> Reviewable \cup {NULL}]
    BY DEF RInv, ReviewTypeOK, Closed
  <2>2. \A x \in Worker : Running(x)' => seen'[x] \in Reviewable
    BY <1>1 DEF RInv, ReviewTypeOK
  <2> QED
    BY <2>1, <2>2 DEF Evolved, ReviewTypeOK, CInv
<1>3. ASSUME NEW x \in Worker, Running(x)'
      PROVE  ReviewPast(x)'
  <2>1. snap'[x] = snap[x] /\ seen'[x] = seen[x] /\ ReviewPast(x) /\ RowsKept(x)
    BY <1>1, <1>3 DEF RInv, CInv
  <2>2. seen[x] \in Reviewable
    BY <1>1, <1>3 DEF RInv, ReviewTypeOK
  <2> DEFINE rs == seen[x].revisions
             cs == seen[x].candidates
  <2>3. ASSUME NEW r \in Revision, rs[r] # NULL
        PROVE  /\ revisions'[r] # NULL
               /\ revisions'[r].owner = rs[r].owner /\ revisions'[r].values = rs[r].values
               /\ rs[r].status # "active" => revisions'[r].status # "active"
    BY <2>1, <2>3 DEF ReviewPast, Evolved
  <2>4. ASSUME NEW c \in Candidate, cs[c] # NULL
        PROVE  /\ candidates'[c] # NULL
               /\ candidates'[c].revision = cs[c].revision
               /\ candidates'[c].by = cs[c].by /\ candidates'[c].target = cs[c].target
               /\ rs[cs[c].revision] # NULL
    BY <2>1, <2>4 DEF ReviewPast, Evolved
  <2>5. ASSUME NEW i \in Used(snap[x].layers),
               \/ snap[x].layers[i].published
               \/ snap[x].layers[i].status = "active" /\ origin'[i] # NULL
        PROVE  layers'[i].published
    <3>1. i \in Used(layers) /\ origin'[i] = origin[i]
      BY <2>1 DEF RowsKept, Evolved
    <3> QED
      BY <2>1, <2>5, <3>1 DEF ReviewPast, Evolved
  <2>6. Fresh(cs)
    BY <2>1 DEF ReviewPast
  <2> QED
    BY <2>1, <2>3, <2>4, <2>5, <2>6 DEF ReviewPast, Used, Fresh
<1> QED
  BY <1>2, <1>3 DEF RInv, Evolved

\* What w read of revisions and candidates has the type of the tables.
LEMMA SeenTypes ==
  ASSUME RInv, NEW w \in Worker, Running(w)
  PROVE  /\ seen[w].revisions \in [Revision -> RevisionRow \cup {NULL}]
         /\ seen[w].candidates \in [Candidate -> CandidateRow \cup {NULL}]
         /\ ReviewPast(w)
BY DEF RInv, ReviewTypeOK, Reviewable

\* Requests that leave the layers alone commit as far as the layers are concerned.
LEMMA LayersCommit ==
  ASSUME RInv, NEW w \in Worker, Running(w), Ended(w), UNCHANGED tables, overtaken' = overtaken
  PROVE  CInv'
<1>1. Commit(w)
  BY SnapshotTypes DEF RInv, CInv, TypeOK, Ended, tables, Commit, VersionsContiguous, KeysKnown,
     Blank, Used
<1> QED
  BY <1>1, CommitKeeps DEF RInv

-----------------------------------------------------------------------------
(* Revisions.                                                              *)

\* The status of a revision is flushed over what it has become by now.
LEMMA FlushedRevision ==
  ASSUME NEW now \in RevisionRow, NEW read \in RevisionRow,
         NEW status \in {"submitted", "archived"}
  PROVE  LET row == Flushed(now, read, [read EXCEPT !.status = status])
         IN  /\ row \in RevisionRow
             /\ row.owner = now.owner /\ row.values = now.values
             /\ row.status = IF status = read.status THEN now.status ELSE status
BY DEF Flushed, RevisionRow

\* The tables of the review when at most the status of a revision has changed.
LEMMA RevisionsEvolve ==
  ASSUME RInv,
         layers' = layers, overrides' = overrides, languages' = languages,
         candidates' = candidates, origin' = origin, redecided' = redecided,
         revisions' \in [Revision -> RevisionRow \cup {NULL}],
         \A r \in Revision : revisions[r] # NULL =>
           /\ revisions'[r] # NULL
           /\ revisions'[r].owner = revisions[r].owner
           /\ revisions'[r].values = revisions[r].values
           /\ revisions[r].status # "active" => revisions'[r].status # "active"
  PROVE  Evolved
<1>1. /\ candidates \in [Candidate -> CandidateRow \cup {NULL}]
      /\ origin \in [LayerId -> Candidate \cup {NULL}]
      /\ redecided \in SUBSET Candidate
  BY DEF RInv, ReviewTypeOK
<1>2. \A c \in Candidate : candidates[c] # NULL => candidates[c].revision \in Revision
  BY <1>1 DEF CandidateRow
<1>3. TargetsKnown' /\ Fresh(candidates)'
  BY DEF RInv, ReviewTables, TargetsKnown, Fresh
<1>4. SubmittedStaysMarked'
  <2> SUFFICES ASSUME NEW c \in Candidate, candidates[c] # NULL
               PROVE  LET r == revisions'[candidates[c].revision]
                      IN  /\ r # NULL /\ r.status \in {"submitted", "archived"}
                          /\ r.owner = candidates[c].by
    BY DEF SubmittedStaysMarked
  <2> DEFINE r == candidates[c].revision
  <2>1. /\ revisions[r] # NULL /\ revisions[r].status \in {"submitted", "archived"}
        /\ revisions[r].owner = candidates[c].by
    BY DEF RInv, ReviewTables, SubmittedStaysMarked
  <2>2. r \in Revision
    BY <1>2
  <2>3. revisions'[r] \in RevisionRow /\ revisions'[r].status # "active"
    BY <2>1, <2>2
  <2> QED
    BY <2>1, <2>2, <2>3 DEF RevisionRow
<1>5. DecisionsAccountedFor'
  BY DEF RInv, ReviewTables, DecisionsAccountedFor
<1>6. ASSUME NEW d \in LayerId, origin'[d] # NULL
      PROVE  Drafted(d)'
  <2>1. Drafted(d) /\ origin[d] \in Candidate
    BY <1>1, <1>6 DEF RInv, ReviewTables
  <2> DEFINE r == candidates[origin[d]].revision
  <2>2. r \in Revision /\ revisions[r] # NULL
    BY <1>2, <2>1 DEF Drafted, RInv, ReviewTables, SubmittedStaysMarked
  <2>3. revisions'[r].values = revisions[r].values
    BY <2>2
  <2> QED
    BY <2>1, <2>3 DEF Drafted, Used
<1> QED
  BY <1>1, <1>3, <1>4, <1>5, <1>6 DEF Evolved, ReviewTables

LEMMA SaveRevisionKeeps ==
  ASSUME RInv, NEW w \in Worker, NEW r \in Revision, NEW a \in Actor, NEW values \in Answers,
         SaveRevision(w, r, a, values)
  PROVE  RInv'
<1>1. CInv'
  BY LayersCommit DEF SaveRevision, ReviewEnded, tables
<1> DEFINE row == [status |-> "active", owner |-> a, values |-> values]
<1>2. row \in RevisionRow
  BY DEF RevisionRow
<1> HIDE DEF row
<1>3. /\ revisions \in [Revision -> RevisionRow \cup {NULL}]
      /\ revisions' = [revisions EXCEPT ![r] = row] /\ revisions[r] = NULL
  BY DEF SaveRevision, RInv, ReviewTypeOK, row
<1>4. /\ revisions' \in [Revision -> RevisionRow \cup {NULL}]
      /\ \A q \in Revision : revisions[q] # NULL => revisions'[q] = revisions[q]
  BY <1>2, <1>3
<1>5. Evolved
  BY <1>4, RevisionsEvolve DEF SaveRevision, ReviewEnded
<1> QED
  BY <1>1, <1>5, RequestEnds DEF SaveRevision, ReviewEnded, Ended

\* What WithStatus makes of the revisions, for a request that may read r.
LEMMA StatusFlushed ==
  ASSUME RInv, NEW w \in Worker, NEW r \in Revision, NEW a, Readable(w, r, a),
         NEW status \in {"submitted", "archived"}
  PROVE  /\ WithStatus(w, r, status) \in [Revision -> RevisionRow \cup {NULL}]
         /\ \A q \in Revision : revisions[q] # NULL =>
              LET row == WithStatus(w, r, status)[q]
              IN  /\ row # NULL
                  /\ row.owner = revisions[q].owner /\ row.values = revisions[q].values
                  /\ revisions[q].status # "active" => row.status # "active"
         /\ /\ revisions[r] # NULL /\ revisions[r].owner = a
            /\ seen[w].revisions[r].status # "active" => revisions[r].status # "active"
         /\ seen[w].revisions[r].status = "active" =>
              WithStatus(w, r, status)[r].status = status
<1> DEFINE read == seen[w].revisions[r]
           row == Flushed(revisions[r], read, [read EXCEPT !.status = status])
<1>1. /\ read \in RevisionRow /\ read.owner = a /\ revisions[r] # NULL
      /\ revisions[r].owner = read.owner
      /\ read.status # "active" => revisions[r].status # "active"
      /\ revisions \in [Revision -> RevisionRow \cup {NULL}]
  BY SeenTypes DEF Readable, ReviewPast, RInv, ReviewTypeOK
<1>2. revisions[r] \in RevisionRow
  BY <1>1
<1>3. /\ row \in RevisionRow
      /\ row.owner = revisions[r].owner /\ row.values = revisions[r].values
      /\ row.status = IF status = read.status THEN revisions[r].status ELSE status
  <2> HIDE DEF read
  <2> QED
    BY <1>1, <1>2, FlushedRevision, ZenonT(60)
<1>4. WithStatus(w, r, status) = [revisions EXCEPT ![r] = row]
  BY DEF WithStatus
<1>5. row # NULL
  BY <1>3, RowsDistinct
<1> HIDE DEF row
<1>6. \A q \in Revision : WithStatus(w, r, status)[q] = IF q = r THEN row ELSE revisions[q]
  BY <1>1, <1>4
<1> QED
  BY <1>1, <1>3, <1>4, <1>5, <1>6

LEMMA ArchiveRevisionKeeps ==
  ASSUME RInv, NEW w \in Worker, NEW r \in Revision, NEW a \in Actor, ArchiveRevision(w, r, a)
  PROVE  RInv'
<1>1. Running(w) /\ CInv'
  BY LayersCommit DEF ArchiveRevision, Readable, ReviewEnded, tables
<1>2. Evolved
  BY StatusFlushed, RevisionsEvolve DEF ArchiveRevision, ReviewEnded
<1> QED
  BY <1>1, <1>2, RequestEnds DEF ArchiveRevision, ReviewEnded, Ended

-----------------------------------------------------------------------------
(* Candidates.                                                             *)

LEMMA SubmitKeeps ==
  ASSUME RInv, NEW w \in Worker, NEW c \in Candidate, NEW r \in Revision, NEW a \in Actor,
         NEW t \in Target \cup Untargeted, Submit(w, c, r, a, t)
  PROVE  RInv'
<1> DEFINE row == [status |-> "submitted", revision |-> r, by |-> a, target |-> t,
                   reviewed |-> FALSE, layer |-> NULL]
<1>1. /\ Running(w) /\ CInv' /\ Readable(w, r, a)
      /\ layers' = layers /\ overrides' = overrides /\ languages' = languages
      /\ origin' = origin /\ redecided' = redecided
  BY LayersCommit DEF Submit, Readable, ReviewEnded, tables
<1>2. /\ candidates \in [Candidate -> CandidateRow \cup {NULL}]
      /\ revisions \in [Revision -> RevisionRow \cup {NULL}]
      /\ origin \in [LayerId -> Candidate \cup {NULL}] /\ redecided \in SUBSET Candidate
  BY DEF RInv, ReviewTypeOK
<1>3. row \in CandidateRow /\ row # NULL
  <2>1. row \in CandidateRow
    BY DEF CandidateRow
  <2> QED
    BY <2>1, RowsDistinct
<1>4. candidates[c] = NULL /\ candidates' = [candidates EXCEPT ![c] = row]
  BY DEF Submit
<1>5. /\ row.status = "submitted" /\ row.revision = r /\ row.by = a /\ row.target = t
      /\ row.reviewed = FALSE /\ row.layer = NULL
  OBVIOUS
<1> HIDE DEF row
<1>6. /\ candidates' \in [Candidate -> CandidateRow \cup {NULL}]
      /\ candidates'[c] = row
      /\ \A b \in Candidate : b # c => candidates'[b] = candidates[b]
  BY <1>2, <1>3, <1>4
<1>7. /\ revisions' \in [Revision -> RevisionRow \cup {NULL}]
      /\ \A q \in Revision : revisions[q] # NULL =>
           /\ revisions'[q] # NULL
           /\ revisions'[q].owner = revisions[q].owner
           /\ revisions'[q].values = revisions[q].values
           /\ revisions[q].status # "active" => revisions'[q].status # "active"
      /\ revisions'[r] # NULL /\ revisions'[r].owner = a /\ revisions'[r].status # "active"
  <2>1. CASE seen[w].revisions[r].status = "active"
    <3>1. revisions' = WithStatus(w, r, "submitted")
      BY <2>1 DEF Submit
    <3> QED
      BY <1>1, <2>1, <3>1, StatusFlushed
  <2>2. CASE seen[w].revisions[r].status # "active"
    <3>1. revisions' = revisions
      BY <2>2 DEF Submit
    <3> QED
      BY <1>1, <1>2, <2>2, <3>1, StatusFlushed
  <2> QED
    BY <2>1, <2>2
<1>8. TargetsKnown'
  <2>1. t \in Language => t \in languages
    <3>1. ASSUME t \in Language
          PROVE  KnownTo(w, t)
      <4>1. CASE t \in Target
        BY <4>1 DEF Submit
      <4>2. CASE t \notin Target
        <5>1. t \in Untargeted /\ t \in Key
          BY <3>1, <4>2 DEF Key
        <5>2. PICK b \in Candidate : t = OwnKey[b]
          BY <4>2, <5>1 DEF Target
        <5> QED
          BY <3>1, <5>2, OwnKeyAssumption, KeysDisjoint
      <4> QED
        BY <4>1, <4>2
    <3> QED
      BY <1>1, <3>1, KeysDisjoint DEF KnownTo, RInv, CInv, RowsKept
  <2> QED
    BY <1>1, <1>5, <1>6, <2>1 DEF TargetsKnown, RInv, ReviewTables
<1>9. SubmittedStaysMarked'
  <2> SUFFICES ASSUME NEW b \in Candidate, candidates'[b] # NULL
               PROVE  LET q == revisions'[candidates'[b].revision]
                      IN  /\ q # NULL /\ q.status \in {"submitted", "archived"}
                          /\ q.owner = candidates'[b].by
    BY DEF SubmittedStaysMarked
  <2> DEFINE q == candidates'[b].revision
  <2>1. q \in Revision
    BY <1>6 DEF CandidateRow
  <2>2. revisions'[q] # NULL /\ revisions'[q].status # "active"
        /\ revisions'[q].owner = candidates'[b].by
    <3>1. CASE b = c
      BY <1>5, <1>6, <1>7, <3>1
    <3>2. CASE b # c
      <4>1. /\ candidates'[b] = candidates[b] /\ revisions[q] # NULL
            /\ revisions[q].status \in {"submitted", "archived"}
            /\ revisions[q].owner = candidates[b].by
        BY <1>6, <3>2 DEF RInv, ReviewTables, SubmittedStaysMarked
      <4> QED
        BY <1>7, <2>1, <4>1
    <3> QED
      BY <3>1, <3>2
  <2>3. revisions'[q] \in RevisionRow
    BY <1>7, <2>1, <2>2
  <2> QED
    BY <2>2, <2>3 DEF RevisionRow
<1>10. \A d \in LayerId : origin[d] # c
  BY <1>2, <1>4, RowsDistinct DEF RInv, ReviewTables, Drafted
<1>11. DecisionsAccountedFor'
  <2> SUFFICES ASSUME NEW b \in Candidate, b \notin redecided
               PROVE  IF candidates'[b] = NULL THEN \A d \in LayerId : origin[d] # b
                      ELSE /\ {d \in LayerId : origin[d] = b}
                                = IF candidates'[b].status = "accepted"
                                  THEN {candidates'[b].layer} ELSE {}
                           /\ candidates'[b].reviewed
                                <=> candidates'[b].status \in {"accepted", "rejected"}
    BY <1>1 DEF DecisionsAccountedFor
  <2>1. CASE b = c
    BY <1>3, <1>5, <1>6, <1>10, <2>1
  <2>2. CASE b # c
    BY <1>6, <2>2 DEF RInv, ReviewTables, DecisionsAccountedFor
  <2> QED
    BY <2>1, <2>2
<1>12. Fresh(candidates)'
  BY <1>5, <1>6 DEF Fresh, RInv, ReviewTables
<1>13. ASSUME NEW d \in LayerId, origin'[d] # NULL
       PROVE  Drafted(d)'
  <2>1. Drafted(d) /\ origin[d] \in Candidate /\ origin[d] # c /\ origin'[d] = origin[d]
    BY <1>1, <1>2, <1>10, <1>13 DEF RInv, ReviewTables
  <2> DEFINE b == origin[d]
  <2>2. candidates'[b] = candidates[b]
    BY <1>6, <2>1
  <2>3. /\ candidates[b].revision \in Revision /\ revisions[candidates[b].revision] # NULL
    BY <1>2, <2>1 DEF Drafted, CandidateRow, RInv, ReviewTables, SubmittedStaysMarked
  <2>4. revisions'[candidates[b].revision].values = revisions[candidates[b].revision].values
    BY <1>7, <2>3
  <2> QED
    BY <1>1, <2>1, <2>2, <2>4 DEF Drafted, Used
<1>14. ReviewTables'
  BY <1>8, <1>9, <1>11, <1>12, <1>13 DEF ReviewTables
<1>15. \A b \in Candidate : candidates[b] # NULL => candidates'[b] = candidates[b]
  BY <1>4, <1>6
<1>16. Evolved
  BY <1>1, <1>2, <1>6, <1>7, <1>14, <1>15 DEF Evolved
<1> QED
  BY <1>1, <1>16, RequestEnds DEF Submit, ReviewEnded, Ended

\* A decision is flushed over what the candidate has become by now.
LEMMA FlushedCandidate ==
  ASSUME NEW now \in CandidateRow, NEW read \in CandidateRow, NEW new \in CandidateRow,
         new.revision = read.revision, new.by = read.by, new.target = read.target,
         new.status # read.status
  PROVE  /\ Flushed(now, read, new) \in CandidateRow
         /\ Flushed(now, read, new).revision = now.revision
         /\ Flushed(now, read, new).by = now.by
         /\ Flushed(now, read, new).target = now.target
         /\ Flushed(now, read, new).status = new.status
         /\ now.reviewed = read.reviewed => Flushed(now, read, new).reviewed = new.reviewed
         /\ now.layer = read.layer => Flushed(now, read, new).layer = new.layer
BY DEF Flushed, CandidateRow

\* What reject, withdraw and accept have in common.
DecidedAs(c, row) ==
  /\ candidates' \in [Candidate -> CandidateRow \cup {NULL}]
  /\ redecided' \in SUBSET Candidate
  /\ \A b \in Candidate : b # c =>
       candidates'[b] = candidates[b] /\ (b \in redecided' <=> b \in redecided)
  /\ candidates[c] # NULL /\ candidates'[c] # NULL
  /\ candidates'[c].revision = candidates[c].revision
  /\ candidates'[c].by = candidates[c].by
  /\ candidates'[c].target = candidates[c].target
  /\ candidates'[c].status = row.status
  /\ c \notin redecided' =>
       /\ candidates[c].status = "submitted" /\ c \notin redecided
       /\ candidates'[c].reviewed = row.reviewed
       /\ candidates'[c].layer = row.layer

\* The row that w read of a candidate that was not decided then.
LEMMA PendingRow ==
  ASSUME RInv, NEW w \in Worker, NEW c \in Candidate, Pending(w, c)
  PROVE  LET read == seen[w].candidates[c]
         IN  /\ read \in CandidateRow /\ read.status = "submitted"
             /\ read.reviewed = FALSE /\ read.layer = NULL
             /\ candidates[c] \in CandidateRow
             /\ candidates[c].revision = read.revision
             /\ candidates[c].target = read.target
             /\ seen[w].revisions[read.revision] # NULL
<1>1. /\ seen[w].candidates[c] \in CandidateRow /\ seen[w].candidates[c].status = "submitted"
      /\ seen[w].candidates[c] # NULL /\ ReviewPast(w)
  BY SeenTypes DEF Pending
<1>2. /\ candidates[c] # NULL
      /\ candidates[c].revision = seen[w].candidates[c].revision
      /\ candidates[c].target = seen[w].candidates[c].target
      /\ seen[w].revisions[seen[w].candidates[c].revision] # NULL
  BY <1>1 DEF ReviewPast
<1>3. ~seen[w].candidates[c].reviewed /\ seen[w].candidates[c].layer = NULL
  BY <1>1 DEF ReviewPast, Fresh
<1>4. seen[w].candidates[c].reviewed \in BOOLEAN
  BY <1>1 DEF CandidateRow
<1>5. candidates[c] \in CandidateRow
  BY <1>2 DEF RInv, ReviewTypeOK
<1> QED
  BY <1>1, <1>2, <1>3, <1>4, <1>5

LEMMA DecisionFlushed ==
  ASSUME RInv, NEW w \in Worker, NEW c \in Candidate, Pending(w, c), NEW row \in CandidateRow,
         row.revision = seen[w].candidates[c].revision,
         row.by = seen[w].candidates[c].by, row.target = seen[w].candidates[c].target,
         row.status # "submitted", Decided(w, c, row)
  PROVE  DecidedAs(c, row)
<1> DEFINE read == seen[w].candidates[c]
           new == Flushed(candidates[c], read, row)
<1>1. /\ read \in CandidateRow /\ read.status = "submitted"
      /\ read.reviewed = FALSE /\ read.layer = NULL
      /\ candidates[c] \in CandidateRow
  BY PendingRow
<1>2. row.revision = read.revision /\ row.by = read.by /\ row.target = read.target
  OBVIOUS
<1>3. /\ candidates' = [candidates EXCEPT ![c] = new]
      /\ redecided' = IF candidates[c].status = "submitted" THEN redecided
                      ELSE redecided \cup {c}
      /\ candidates \in [Candidate -> CandidateRow \cup {NULL}]
      /\ redecided \in SUBSET Candidate
  BY DEF Decided, RInv, ReviewTypeOK
<1> HIDE DEF read
<1>4. /\ new \in CandidateRow
      /\ new.revision = candidates[c].revision
      /\ new.by = candidates[c].by
      /\ new.target = candidates[c].target
      /\ new.status = row.status
      /\ candidates[c].reviewed = read.reviewed => new.reviewed = row.reviewed
      /\ candidates[c].layer = read.layer => new.layer = row.layer
  BY <1>1, <1>2, FlushedCandidate
<1> HIDE DEF new
<1>5. candidates[c] # NULL /\ new # NULL
  BY <1>1, <1>4, RowsDistinct
<1>6. /\ candidates' \in [Candidate -> CandidateRow \cup {NULL}]
      /\ candidates'[c] = new
      /\ \A b \in Candidate : b # c => candidates'[b] = candidates[b]
  BY <1>3, <1>4
<1>7. candidates[c].status = "submitted" =>
        candidates[c].reviewed = read.reviewed /\ candidates[c].layer = read.layer
  <2>1. candidates[c].reviewed \in BOOLEAN
    BY <1>1 DEF CandidateRow
  <2>2. candidates[c].status = "submitted" =>
          ~candidates[c].reviewed /\ candidates[c].layer = NULL
    BY <1>5 DEF RInv, ReviewTables, Fresh
  <2> QED
    BY <1>1, <2>1, <2>2
<1>8. c \notin redecided' => candidates[c].status = "submitted" /\ c \notin redecided
  BY <1>3
<1>9. /\ redecided' \in SUBSET Candidate
      /\ \A b \in Candidate : b # c => (b \in redecided' <=> b \in redecided)
  BY <1>3
<1> QED
  BY <1>4, <1>5, <1>6, <1>7, <1>8, <1>9 DEF DecidedAs

\* A candidate that was not decided has no layer.
LEMMA NoLayerYet ==
  ASSUME RInv, NEW c \in Candidate, c \notin redecided, candidates[c] # NULL,
         candidates[c].status = "submitted"
  PROVE  \A d \in LayerId : origin[d] # c
<1>1. {d \in LayerId : origin[d] = c} = {}
  BY DEF RInv, ReviewTables, DecisionsAccountedFor
<1> QED
  BY <1>1

\* The tables of the review after a decision, given what it did to the layers.
LEMMA DecisionEvolves ==
  ASSUME RInv, NEW c \in Candidate, NEW row \in CandidateRow, DecidedAs(c, row),
         row.status \in {"accepted", "rejected", "withdrawn"},
         row.reviewed <=> row.status \in {"accepted", "rejected"},
         revisions' = revisions, languages' = languages,
         origin' \in [LayerId -> Candidate \cup {NULL}],
         \A i \in Used(layers) :
           origin'[i] = origin[i] /\ (layers[i].published => layers'[i].published),
         \A b \in Candidate : b # c =>
           {d \in LayerId : origin'[d] = b} = {d \in LayerId : origin[d] = b},
         c \notin redecided' =>
           {d \in LayerId : origin'[d] = c} =
              IF row.status = "accepted" THEN {row.layer} ELSE {},
         \A d \in LayerId : origin'[d] # NULL => Drafted(d)'
  PROVE  Evolved
<1>1. /\ candidates \in [Candidate -> CandidateRow \cup {NULL}]
      /\ revisions \in [Revision -> RevisionRow \cup {NULL}]
  BY DEF RInv, ReviewTypeOK
<1>2. \A b \in Candidate : candidates'[b] # NULL =>
        /\ candidates[b] # NULL
        /\ candidates'[b].revision = candidates[b].revision
        /\ candidates'[b].by = candidates[b].by
        /\ candidates'[b].target = candidates[b].target
  BY DEF DecidedAs
<1>3. \A b \in Candidate : candidates[b] # NULL => candidates'[b] # NULL
  BY DEF DecidedAs
<1>4. TargetsKnown'
  BY <1>2 DEF TargetsKnown, RInv, ReviewTables
<1>5. SubmittedStaysMarked'
  BY <1>2 DEF SubmittedStaysMarked, RInv, ReviewTables
<1>6. DecisionsAccountedFor'
  <2> SUFFICES ASSUME NEW b \in Candidate, b \notin redecided'
               PROVE  IF candidates'[b] = NULL THEN \A d \in LayerId : origin'[d] # b
                      ELSE /\ {d \in LayerId : origin'[d] = b}
                                = IF candidates'[b].status = "accepted"
                                  THEN {candidates'[b].layer} ELSE {}
                           /\ candidates'[b].reviewed
                                <=> candidates'[b].status \in {"accepted", "rejected"}
    BY DEF DecisionsAccountedFor
  <2>1. CASE b = c
    BY <2>1 DEF DecidedAs
  <2>2. CASE b # c
    <3>1. candidates'[b] = candidates[b] /\ b \notin redecided
      BY <2>2 DEF DecidedAs
    <3>2. {d \in LayerId : origin'[d] = b} = {d \in LayerId : origin[d] = b}
      BY <2>2
    <3>3. IF candidates[b] = NULL THEN \A d \in LayerId : origin[d] # b
          ELSE /\ {d \in LayerId : origin[d] = b}
                    = IF candidates[b].status = "accepted"
                      THEN {candidates[b].layer} ELSE {}
               /\ candidates[b].reviewed
                    <=> candidates[b].status \in {"accepted", "rejected"}
      BY <3>1 DEF RInv, ReviewTables, DecisionsAccountedFor
    <3> QED
      BY <3>1, <3>2, <3>3
  <2> QED
    BY <2>1, <2>2
<1>7. Fresh(candidates)'
  BY DEF Fresh, RInv, ReviewTables, DecidedAs
<1>8. ReviewTables'
  BY <1>4, <1>5, <1>6, <1>7 DEF ReviewTables
<1> QED
  BY <1>1, <1>2, <1>3, <1>8 DEF Evolved, DecidedAs

\* A refusal makes no layer.
LEMMA RefusalEvolves ==
  ASSUME RInv, NEW c \in Candidate, NEW row \in CandidateRow, DecidedAs(c, row),
         row.status \in {"rejected", "withdrawn"}, row.reviewed <=> row.status = "rejected",
         UNCHANGED <<layers, overrides, languages, revisions, origin>>
  PROVE  Evolved
<1>1. origin \in [LayerId -> Candidate \cup {NULL}]
  BY DEF RInv, ReviewTypeOK
<1>2. ASSUME NEW d \in LayerId, origin'[d] # NULL
      PROVE  Drafted(d)'
  <2>1. Drafted(d) /\ origin[d] \in Candidate /\ origin'[d] = origin[d]
    BY <1>1, <1>2 DEF RInv, ReviewTables
  <2>2. /\ candidates'[origin[d]] # NULL
        /\ candidates'[origin[d]].revision = candidates[origin[d]].revision
        /\ candidates'[origin[d]].target = candidates[origin[d]].target
    BY <2>1 DEF Drafted, DecidedAs
  <2> QED
    BY <2>1, <2>2 DEF Drafted, Used
<1>3. c \notin redecided' => {d \in LayerId : origin'[d] = c} = {}
  BY NoLayerYet DEF DecidedAs
<1> QED
  BY <1>1, <1>2, <1>3, DecisionEvolves

LEMMA RejectKeeps ==
  ASSUME RInv, NEW w \in Worker, NEW c \in Candidate, Reject(w, c)
  PROVE  RInv'
<1> DEFINE row == [seen[w].candidates[c] EXCEPT !.status = "rejected", !.reviewed = TRUE]
<1>1. Running(w) /\ CInv' /\ Pending(w, c)
  BY LayersCommit DEF Reject, Pending, ReviewEnded, tables
<1>2. seen[w].candidates[c] \in CandidateRow
  BY <1>1, PendingRow
<1>3. /\ row \in CandidateRow /\ row.status = "rejected" /\ row.reviewed
      /\ row.revision = seen[w].candidates[c].revision
      /\ row.by = seen[w].candidates[c].by /\ row.target = seen[w].candidates[c].target
  BY <1>2 DEF CandidateRow
<1>4. Decided(w, c, row)
  BY DEF Reject
<1> HIDE DEF row
<1>5. DecidedAs(c, row)
  BY <1>1, <1>3, <1>4, DecisionFlushed
<1>6. Evolved
  BY <1>3, <1>5, RefusalEvolves DEF Reject, ReviewEnded
<1> QED
  BY <1>1, <1>6, RequestEnds DEF Reject, ReviewEnded, Ended

LEMMA WithdrawKeeps ==
  ASSUME RInv, NEW w \in Worker, NEW c \in Candidate, NEW a \in Actor, Withdraw(w, c, a)
  PROVE  RInv'
<1> DEFINE row == [seen[w].candidates[c] EXCEPT !.status = "withdrawn"]
<1>1. Running(w) /\ CInv' /\ Pending(w, c)
  BY LayersCommit DEF Withdraw, Pending, ReviewEnded, tables
<1>2. seen[w].candidates[c] \in CandidateRow /\ seen[w].candidates[c].reviewed = FALSE
  BY <1>1, PendingRow
<1>3. /\ row \in CandidateRow /\ row.status = "withdrawn" /\ ~row.reviewed
      /\ row.revision = seen[w].candidates[c].revision
      /\ row.by = seen[w].candidates[c].by /\ row.target = seen[w].candidates[c].target
  BY <1>2 DEF CandidateRow
<1>4. Decided(w, c, row)
  BY DEF Withdraw
<1> HIDE DEF row
<1>5. DecidedAs(c, row)
  BY <1>1, <1>3, <1>4, DecisionFlushed
<1>6. Evolved
  BY <1>3, <1>5, RefusalEvolves DEF Withdraw, ReviewEnded
<1> QED
  BY <1>1, <1>6, RequestEnds DEF Withdraw, ReviewEnded, Ended

-----------------------------------------------------------------------------
(* The layers.                                                             *)

\* To the layers, an acceptance is an insert of a draft without parent.
LEMMA AcceptCommits ==
  ASSUME RInv, NEW w \in Worker, NEW c \in Candidate, NEW d \in LayerId, Accept(w, c, d)
  PROVE  /\ Running(w) /\ Commit(w)
         /\ Proposed(revisions[candidates[c].revision].values) \in [Field -> FieldOverride]
         /\ DraftKey(c, candidates[c].target) \in Key
<1> DEFINE read == seen[w].candidates[c]
           k == DraftKey(c, read.target)
           values == seen[w].revisions[read.revision].values
           row == NewLayer(k, "draft", NULL)
<1>1. Pending(w, c) /\ Running(w)
  BY DEF Accept, Pending
<1>2. /\ read \in CandidateRow /\ candidates[c] \in CandidateRow
      /\ candidates[c].revision = read.revision /\ candidates[c].target = read.target
      /\ seen[w].revisions[read.revision] # NULL
  BY <1>1, PendingRow
<1>3. /\ read.revision \in Revision /\ candidates[c] # NULL
      /\ values = revisions[read.revision].values /\ values \in Answers
  <2>1. read.revision \in Revision /\ candidates[c] # NULL
    BY <1>2, RowsDistinct DEF CandidateRow
  <2>2. /\ seen[w].revisions[read.revision] \in RevisionRow
        /\ values = revisions[read.revision].values
    <3> HIDE DEF read
    <3> QED
      BY <1>1, <1>2, <2>1, SeenTypes DEF ReviewPast
  <2>3. values \in Answers
    BY <2>2 DEF RevisionRow
  <2> QED
    BY <2>1, <2>2, <2>3
<1>4. k \in Tool \cup Combo \cup languages /\ k \in Key
  <2>1. read.target \in Language => read.target \in languages
    BY <1>2, <1>3 DEF RInv, ReviewTables, TargetsKnown
  <2> QED
    BY <2>1, OwnKeyAssumption DEF DraftKey, Key
<1>5. Proposed(values) \in [Field -> FieldOverride]
  BY <1>3, AnswersAssumption DEF Proposed, FieldOverride
<1>6. /\ d \notin Used(layers)
      /\ layers' = [layers EXCEPT ![d] = row]
      /\ overrides' = [overrides EXCEPT ![d] = Proposed(values)]
      /\ languages' = languages /\ versions' = versions /\ overtaken' = overtaken
      /\ snap' = [snap EXCEPT ![w] = NULL]
  BY DEF Accept, ReviewEnded, Ended
<1>7. /\ CInv /\ layers \in [LayerId -> LayerRow]
      /\ overrides \in [LayerId -> [Field -> FieldOverride]]
  BY DEF RInv, CInv, TypeOK
<1>8. row \in LayerRow /\ row.key = k /\ row.status = "draft"
  BY <1>4 DEF NewLayer, LayerRow, Status
<1> HIDE DEF row, k, values
<1>9. /\ layers' \in [LayerId -> LayerRow]
      /\ \A j \in Used(layers) : layers'[j] = layers[j]
      /\ \A j \in LayerId : layers'[j] # layers[j] =>
           layers'[j].key = k /\ layers'[j].status # "none"
  BY <1>6, <1>7, <1>8 DEF Used
<1>10. /\ overrides' \in [LayerId -> [Field -> FieldOverride]]
       /\ \A j \in Used(layers) : overrides'[j] = overrides[j]
  BY <1>5, <1>6, <1>7 DEF Used
<1>11. /\ KeysKnown' /\ Blank(layers)'
       /\ \A j \in Used(layers) : j \in Used(layers)' /\ layers'[j].key = layers[j].key
  BY <1>4, <1>6, <1>7, <1>9, InsertKeeps
<1>12. TypeOK'
  BY <1>1, <1>6, <1>7, <1>9, <1>10, SnapshotTypes DEF CInv, TypeOK
<1>13. VersionsContiguous'
  BY <1>6, <1>7 DEF CInv, VersionsContiguous
<1>14. Commit(w)
  BY <1>6, <1>10, <1>11, <1>12, <1>13 DEF Commit
<1> QED
  BY <1>1, <1>2, <1>3, <1>4, <1>5, <1>14 DEF k, values

LEMMA AcceptKeeps ==
  ASSUME RInv, NEW w \in Worker, NEW c \in Candidate, NEW d \in LayerId, Accept(w, c, d)
  PROVE  RInv'
<1> DEFINE read == seen[w].candidates[c]
           row == [read EXCEPT !.status = "accepted", !.reviewed = TRUE, !.layer = d]
<1>1. Running(w) /\ CInv' /\ Commit(w) /\ Pending(w, c)
  BY AcceptCommits, CommitKeeps DEF RInv, Accept
<1>2. /\ read \in CandidateRow /\ candidates[c] \in CandidateRow
      /\ candidates[c].revision = read.revision /\ candidates[c].target = read.target
      /\ seen[w].revisions[read.revision] # NULL
  BY <1>1, PendingRow
<1>3. /\ row \in CandidateRow /\ row.status = "accepted" /\ row.reviewed /\ row.layer = d
      /\ row.revision = read.revision /\ row.by = read.by /\ row.target = read.target
  BY <1>2 DEF CandidateRow
<1>4. Decided(w, c, row)
  BY DEF Accept
<1> HIDE DEF row
<1>5. DecidedAs(c, row)
  BY <1>1, <1>3, <1>4, DecisionFlushed
<1>6. /\ origin \in [LayerId -> Candidate \cup {NULL}]
      /\ layers \in [LayerId -> LayerRow]
      /\ overrides \in [LayerId -> [Field -> FieldOverride]]
  BY DEF RInv, ReviewTypeOK, CInv, TypeOK
<1>7. /\ d \notin Used(layers) /\ revisions' = revisions /\ languages' = languages
      /\ layers' = [layers EXCEPT ![d] = NewLayer(DraftKey(c, read.target), "draft", NULL)]
      /\ overrides' = [overrides EXCEPT ![d] =
           Proposed(seen[w].revisions[read.revision].values)]
      /\ origin' = [origin EXCEPT ![d] = c]
  BY DEF Accept, ReviewEnded
<1>8. origin[d] = NULL
  BY <1>7 DEF RInv, ReviewTables, Drafted
<1>9. /\ origin' \in [LayerId -> Candidate \cup {NULL}]
      /\ origin'[d] = c /\ \A i \in LayerId : i # d => origin'[i] = origin[i]
  BY <1>6, <1>7
<1>10. \A i \in LayerId : i # d => layers'[i] = layers[i] /\ overrides'[i] = overrides[i]
  BY <1>6, <1>7
<1>11. \A i \in Used(layers) :
         origin'[i] = origin[i] /\ (layers[i].published => layers'[i].published)
  BY <1>7, <1>9, <1>10 DEF Used
<1>12. \A b \in Candidate : b # c =>
         {i \in LayerId : origin'[i] = b} = {i \in LayerId : origin[i] = b}
  BY <1>8, <1>9, RowsDistinct
<1>13. c \notin redecided' => {i \in LayerId : origin'[i] = c} = {d}
  <2> SUFFICES ASSUME c \notin redecided'
               PROVE  {i \in LayerId : origin'[i] = c} = {d}
    OBVIOUS
  <2>1. \A i \in LayerId : origin[i] # c
    BY <1>5, NoLayerYet DEF DecidedAs
  <2> QED
    BY <1>9, <2>1
<1>14. Drafted(d)'
  <2>1. /\ layers'[d] = NewLayer(DraftKey(c, read.target), "draft", NULL)
        /\ overrides'[d] = Proposed(seen[w].revisions[read.revision].values)
    BY <1>6, <1>7
  <2>2. /\ candidates'[c] # NULL /\ candidates'[c].target = read.target
        /\ candidates'[c].revision = read.revision
    BY <1>2, <1>5 DEF DecidedAs
  <2>3. read.revision \in Revision
    BY <1>2 DEF CandidateRow
  <2>4. seen[w].revisions[read.revision].values = revisions'[read.revision].values
    BY <1>1, <1>2, <1>7, <2>3, SeenTypes DEF ReviewPast
  <2> DEFINE values == seen[w].revisions[read.revision].values
             k == DraftKey(c, read.target)
  <2>5. /\ layers'[d].key = k /\ layers'[d].status = "draft"
        /\ \A f \in Field : overrides'[d][f].meta = values[f]
    <3>1. layers'[d] = NewLayer(k, "draft", NULL) /\ overrides'[d] = Proposed(values)
      BY <2>1
    <3> HIDE DEF values, k
    <3>2. layers'[d].key = k /\ layers'[d].status = "draft"
      BY <3>1 DEF NewLayer
    <3>3. \A f \in Field : overrides'[d][f].meta = values[f]
      BY <3>1 DEF Proposed
    <3> QED
      BY <3>2, <3>3
  <2>6. /\ layers'[d].key = DraftKey(c, candidates'[c].target)
        /\ \A f \in Field :
             overrides'[d][f].meta = revisions'[candidates'[c].revision].values[f]
    BY <2>2, <2>4, <2>5
  <2>7. origin'[d] = c /\ candidates'[c] # NULL /\ layers'[d].status = "draft"
    BY <1>9, <2>2, <2>5
  <2> HIDE DEF read
  <2> QED
    BY <2>6, <2>7 DEF Drafted, Used
<1>15. ASSUME NEW i \in LayerId, i # d, origin'[i] # NULL
       PROVE  Drafted(i)'
  <2>1. Drafted(i) /\ origin[i] \in Candidate /\ origin'[i] = origin[i]
    BY <1>6, <1>9, <1>15 DEF RInv, ReviewTables
  <2>2. /\ candidates'[origin[i]] # NULL
        /\ candidates'[origin[i]].revision = candidates[origin[i]].revision
        /\ candidates'[origin[i]].target = candidates[origin[i]].target
    BY <1>5, <2>1 DEF Drafted, DecidedAs
  <2> QED
    BY <1>7, <1>10, <1>15, <2>1, <2>2 DEF Drafted, Used
<1>16. \A i \in LayerId : origin'[i] # NULL => Drafted(i)'
  BY <1>14, <1>15
<1>17. Evolved
  BY <1>3, <1>5, <1>7, <1>9, <1>11, <1>12, <1>13, <1>16, DecisionEvolves
<1> QED
  BY <1>1, <1>17, RequestEnds DEF Accept, ReviewEnded, Ended

\* What a request of the layers leaves alone: the key of a layer in use, that it is
\* published, and, until it is, the overrides of one that came of a candidate.
DraftsLeft ==
  \A d \in Used(layers) :
    /\ d \in Used(layers)' /\ layers'[d].key = layers[d].key
    /\ layers[d].published => layers'[d].published
    /\ layers'[d].status = "active" =>
         layers'[d].published \/ layers[d].status = "active" \/ origin[d] = NULL
    /\ ~layers[d].published /\ origin[d] # NULL => overrides'[d] = overrides[d]

LEMMA DraftsLeftKeeps ==
  ASSUME RInv, NEW w \in Worker, CInv', DraftsLeft, Closed(w), snap' = [snap EXCEPT ![w] = NULL],
         languages \subseteq languages', UNCHANGED reviewTables
  PROVE  RInv'
<1>1. /\ revisions' = revisions /\ candidates' = candidates
      /\ origin' = origin /\ redecided' = redecided
  BY DEF reviewTables
<1>2. ASSUME NEW d \in LayerId, origin'[d] # NULL
      PROVE  Drafted(d)'
  <2>1. Drafted(d) /\ origin[d] # NULL
    BY <1>1, <1>2 DEF RInv, ReviewTables
  <2>2. /\ d \in Used(layers)' /\ layers'[d].key = layers[d].key
        /\ layers[d].published => layers'[d].published
        /\ layers'[d].status = "active" =>
             layers'[d].published \/ layers[d].status = "active"
        /\ ~layers[d].published => overrides'[d] = overrides[d]
    BY <2>1 DEF DraftsLeft, Drafted
  <2> DEFINE c == candidates[origin[d]]
  <2>3. /\ d \in Used(layers) /\ c # NULL
        /\ layers[d].key = DraftKey(origin[d], c.target)
        /\ layers[d].status = "active" => layers[d].published
        /\ ~layers[d].published =>
             \A f \in Field : overrides[d][f].meta = revisions[c.revision].values[f]
    BY <2>1 DEF Drafted
  <2>4. layers'[d].key = DraftKey(origin[d], c.target)
    BY <2>2, <2>3
  <2>5. layers'[d].status = "active" => layers'[d].published
    BY <2>2, <2>3
  <2>6. ~layers'[d].published =>
          \A f \in Field : overrides'[d][f].meta = revisions[c.revision].values[f]
    BY <2>2, <2>3
  <2> QED
    BY <1>1, <2>2, <2>3, <2>4, <2>5, <2>6 DEF Drafted
<1>3. TargetsKnown'
  BY <1>1 DEF RInv, ReviewTables, TargetsKnown
<1>4. SubmittedStaysMarked' /\ DecisionsAccountedFor' /\ Fresh(candidates)'
  BY <1>1 DEF RInv, ReviewTables, SubmittedStaysMarked, DecisionsAccountedFor, Fresh
<1>5. ReviewTables'
  BY <1>2, <1>3, <1>4 DEF ReviewTables
<1>6. Evolved
  BY <1>1, <1>5 DEF Evolved, RInv, ReviewTypeOK, DraftsLeft
<1> QED
  BY <1>6, RequestEnds

LEMMA FlushedPublished ==
  ASSUME CInv, NEW w \in Worker, Running(w), NEW new \in [LayerId -> LayerRow],
         NEW i \in LayerId
  PROVE  FlushedLayers(w, new)[i].published =
           IF new[i].published = snap[w].layers[i].published THEN layers[i].published
           ELSE new[i].published
<1>1. /\ layers[i] \in LayerRow /\ new[i] \in LayerRow
      /\ snap[w].layers[i] \in LayerRow
      /\ FlushedLayers(w, new)[i] = Flushed(layers[i], snap[w].layers[i], new[i])
  BY DEF CInv, TypeOK, Snapshot, Running, FlushedLayers
<1> QED
  BY <1>1 DEF Flushed, LayerRow

LEMMA UpdateFieldLeaves ==
  ASSUME RInv, NEW w \in Worker, NEW k \in Key, NEW i \in LayerId, NEW f \in Field,
         NEW v \in Value, UpdateField(w, k, i, f, v)
  PROVE  DraftsLeft
<1> DEFINE new == WithActive(snap[w].layers, k, i)
<1>1. /\ CInv /\ Running(w) /\ snap[w].layers \in [LayerId -> LayerRow]
      /\ overrides \in [LayerId -> [Field -> FieldOverride]]
      /\ layers' = FlushedLayers(w, new) /\ new \in [LayerId -> LayerRow]
  BY SnapshotTypes, TableTypes DEF UpdateField, EditField, RInv, CInv, TypeOK
<1>2. \A d \in Used(layers) : layers'[d] = layers[d]
  <2> SUFFICES ASSUME NEW d \in Used(layers)
               PROVE  layers'[d] = layers[d]
    OBVIOUS
  <2>1. new[d] = snap[w].layers[d]
    BY <1>1 DEF UpdateField, EditField, EditedLayers, WithActive, Inserted, Used
  <2> QED
    BY <1>1, <2>1, FlushedTypes DEF Used
<1>3. ASSUME NEW d \in Used(layers), overrides'[d] # overrides[d], origin[d] # NULL
      PROVE  layers[d].published
  <2>1. d = i
    BY <1>1, <1>3 DEF UpdateField, EditField
  <2>2. i \in Used(snap[w].layers)
    BY <1>3, <2>1 DEF UpdateField, EditField, Inserted
  <2>3. snap[w].layers[i].status = "active"
    BY <2>2 DEF UpdateField, EditField, EditedLayers, ActiveLayers
  <2> QED
    BY <1>1, <1>3, <2>1, <2>2, <2>3, SeenTypes DEF ReviewPast
<1> QED
  BY <1>2, <1>3 DEF DraftsLeft, Used

LEMMA PromoteDraftLeaves ==
  ASSUME RInv, NEW w \in Worker, NEW d \in LayerId, PromoteDraft(w, d)
  PROVE  DraftsLeft
<1>1. PICK prev \in Superseded(snap[w].layers, d) :
        layers' = FlushedLayers(w, Promoted(snap[w].layers, d, prev))
  BY DEF PromoteDraft
<1> DEFINE read == snap[w].layers
           new == Promoted(read, d, prev)
<1>2. /\ CInv /\ Running(w) /\ read \in [LayerId -> LayerRow]
      /\ new \in [LayerId -> LayerRow] /\ d \in Used(read) /\ ReviewPast(w)
      /\ layers \in [LayerId -> LayerRow] /\ overrides' = overrides
  BY SnapshotTypes, TableTypes, SeenTypes DEF PromoteDraft, RInv, CInv, TypeOK
<1>3. \A j \in Used(layers) : j \in Used(layers)' /\ layers'[j].key = layers[j].key
  BY <1>2, PromoteDraftCommits DEF Commit
<1>4. ASSUME NEW j \in Used(layers)
      PROVE  /\ layers[j].published => layers'[j].published
             /\ layers'[j].status = "active" =>
                  layers'[j].published \/ layers[j].status = "active"
  <2>1. j \in LayerId /\ read[j] \in LayerRow
    BY <1>2 DEF Used
  <2>2. CASE j = d
    <3>1. new[j].published = TRUE
      BY <2>1, <2>2 DEF Promoted, LayerRow
    <3>2. read[j].published = TRUE => layers[j].published
      BY <1>2, <2>2 DEF ReviewPast
    <3> HIDE DEF new
    <3>3. layers'[j].published = IF new[j].published = read[j].published
                                 THEN layers[j].published ELSE new[j].published
      BY <1>1, <1>2, <2>1, FlushedPublished DEF new
    <3> QED
      BY <3>1, <3>2, <3>3
  <2>3. CASE j # d /\ j = prev
    <3>1. new[j].published = read[j].published /\ new[j].status = "archived"
      BY <2>1, <2>3 DEF Promoted, LayerRow
    <3>2. read[j].status = "active"
      BY <1>1, <2>1, <2>3, NullDistinct DEF Superseded, ActiveLayers
    <3> HIDE DEF new
    <3>3. layers'[j].published = layers[j].published
      BY <1>1, <1>2, <2>1, <3>1, FlushedPublished DEF new
    <3>4. layers'[j].status = "archived"
      BY <1>1, <1>2, <2>1, <3>1, <3>2, FlushedTypes DEF new
    <3> QED
      BY <3>3, <3>4
  <2>4. CASE j # d /\ j # prev
    <3>1. new[j] = read[j]
      BY <2>1, <2>4 DEF Promoted
    <3> HIDE DEF new
    <3>2. layers'[j] = layers[j]
      BY <1>1, <1>2, <2>1, <3>1, FlushedTypes DEF new
    <3> QED
      BY <3>2
  <2> QED
    BY <2>2, <2>3, <2>4
<1> QED
  BY <1>2, <1>3, <1>4 DEF DraftsLeft

LEMMA ArchiveDraftLeaves ==
  ASSUME RInv, NEW w \in Worker, NEW d \in LayerId, ArchiveDraft(w, d)
  PROVE  DraftsLeft
<1> DEFINE read == snap[w].layers
           new == Archived(read, d)
<1>1. /\ CInv /\ Running(w) /\ read \in [LayerId -> LayerRow]
      /\ new \in [LayerId -> LayerRow] /\ read[d].status = "draft"
      /\ layers' = FlushedLayers(w, new) /\ overrides' = overrides
  BY SnapshotTypes, TableTypes DEF ArchiveDraft, RInv
<1>2. \A j \in Used(layers) : j \in Used(layers)' /\ layers'[j].key = layers[j].key
  BY <1>1, ArchiveDraftCommits DEF Commit
<1>3. /\ new[d].status = "archived" /\ new[d].published = read[d].published
      /\ \A j \in LayerId : j # d => new[j] = read[j]
  BY <1>1 DEF Archived, LayerRow
<1> HIDE DEF new
<1>4. layers'[d].status = "archived" /\ layers'[d].published = layers[d].published
  BY <1>1, <1>3, FlushedTypes, FlushedPublished
<1>5. \A j \in LayerId : j # d => layers'[j] = layers[j]
  BY <1>1, <1>3, FlushedTypes
<1> QED
  BY <1>1, <1>2, <1>4, <1>5 DEF DraftsLeft, Used

LEMMA LayerRequestKeeps ==
  ASSUME RInv, NEW w \in Worker, LayerRequest(w)
  PROVE  RInv'
<1>1. CASE Abort(w)
  <2>1. CInv' /\ Running(w)
    BY <1>1, AbortKeeps DEF RInv, Abort
  <2>2. DraftsLeft
    BY <1>1 DEF Abort, tables, DraftsLeft, Used
  <2> QED
    BY <1>1, <2>1, <2>2, DraftsLeftKeeps DEF Abort, Ended, tables, LayerRequest
<1>2. ASSUME NEW k \in Target, NEW i \in LayerId, NEW f \in Field, NEW v \in Value,
             UpdateField(w, k, i, f, v)
      PROVE  Commit(w) /\ DraftsLeft /\ Running(w)
  <2>1. k \in Key
    BY DEF Target
  <2>2. Handler(w)
    BY <1>2, <2>1, EditIsHandler DEF RInv
  <2> QED
    BY <1>2, <2>1, <2>2, UpdateFieldLeaves, HandlerRuns, HandlerCommits DEF RInv
<1>3. ASSUME NEW d \in LayerId, PromoteDraft(w, d) \/ ArchiveDraft(w, d)
      PROVE  Commit(w) /\ DraftsLeft /\ Running(w)
  <2>1. Handler(w)
    BY <1>3 DEF Handler
  <2> QED
    BY <1>3, <2>1, PromoteDraftLeaves, ArchiveDraftLeaves, HandlerRuns, HandlerCommits DEF RInv
<1>4. CASE Commit(w) /\ DraftsLeft /\ Running(w)
  <2>1. CInv' /\ snap' = [snap EXCEPT ![w] = NULL] /\ languages \subseteq languages'
    BY <1>4, CommitKeeps DEF RInv, Commit
  <2> QED
    BY <1>4, <2>1, DraftsLeftKeeps DEF LayerRequest
<1> QED
  BY <1>1, <1>2, <1>3, <1>4 DEF LayerRequest

-----------------------------------------------------------------------------
(* The theorems.                                                           *)

THEOREM InitRInv == ReviewInit => RInv
<1> SUFFICES ASSUME ReviewInit PROVE RInv
  OBVIOUS
<1>1. CInv /\ \A w \in Worker : ~Running(w)
  BY InitCInv DEF ReviewInit, Init, Running
<1>2. ReviewTypeOK
  BY <1>1 DEF ReviewInit, ReviewTypeOK, CInv
<1>3. ReviewTables
  BY RowsDistinct DEF ReviewInit, ReviewTables, TargetsKnown, SubmittedStaysMarked,
     DecisionsAccountedFor, Fresh
<1> QED
  BY <1>1, <1>2, <1>3 DEF RInv

\* Steps after which the tables are as they were.
LEMMA TablesStay ==
  ASSUME RInv, UNCHANGED tables, UNCHANGED reviewTables
  PROVE  ReviewTables'
<1>1. /\ revisions' = revisions /\ candidates' = candidates
      /\ origin' = origin /\ redecided' = redecided
      /\ layers' = layers /\ overrides' = overrides /\ languages' = languages
  BY DEF tables, reviewTables
<1>2. \A d \in LayerId : Drafted(d)' <=> Drafted(d)
  BY <1>1 DEF Drafted, Used
<1>3. /\ TargetsKnown' <=> TargetsKnown
      /\ SubmittedStaysMarked' <=> SubmittedStaysMarked
      /\ DecisionsAccountedFor' <=> DecisionsAccountedFor
      /\ Fresh(candidates)' <=> Fresh(candidates)
  BY <1>1 DEF TargetsKnown, SubmittedStaysMarked, DecisionsAccountedFor, Fresh
<1> QED
  BY <1>1, <1>2, <1>3 DEF RInv, ReviewTables

LEMMA OpenKeeps ==
  ASSUME RInv, NEW w \in Worker, Open(w)
  PROVE  RInv'
<1>1. CInv' /\ UNCHANGED tables /\ UNCHANGED reviewTables
  BY BeginKeeps DEF RInv, Open, Begin
<1>2. ReviewTables'
  BY <1>1, TablesStay
<1> DEFINE read == [revisions |-> revisions, candidates |-> candidates]
<1>3. read \in Reviewable
  BY DEF RInv, ReviewTypeOK, Reviewable
<1>4. /\ seen'[w] = read /\ snap'[w].layers = layers
      /\ \A x \in Worker : x # w => seen'[x] = seen[x] /\ snap'[x] = snap[x]
      /\ seen' \in [Worker -> Reviewable \cup {NULL}]
  BY <1>3 DEF Open, Begin, RInv, ReviewTypeOK, CInv, TypeOK
<1>5. ReviewTypeOK'
  <2>1. \A x \in Worker : Running(x)' => seen'[x] \in Reviewable
    BY <1>3, <1>4 DEF RInv, ReviewTypeOK, Running
  <2> QED
    BY <1>1, <1>4, <2>1 DEF RInv, ReviewTypeOK, reviewTables, CInv
<1>6. ReviewPast(w)'
  <2>1. \A i \in Used(layers) :
          layers[i].status = "active" /\ origin[i] # NULL => layers[i].published
    BY DEF RInv, ReviewTables, Drafted, Used
  <2>2. \A c \in Candidate : candidates[c] # NULL => revisions[candidates[c].revision] # NULL
    BY DEF RInv, ReviewTables, SubmittedStaysMarked
  <2>3. Fresh(candidates)
    BY DEF RInv, ReviewTables
  <2>4. /\ seen'[w].revisions = revisions /\ seen'[w].candidates = candidates
        /\ revisions' = revisions /\ candidates' = candidates
        /\ origin' = origin /\ layers' = layers /\ snap'[w].layers = layers
    BY <1>1, <1>4 DEF tables, reviewTables
  <2> QED
    BY <2>1, <2>2, <2>3, <2>4 DEF ReviewPast, Used, Fresh
<1>7. ASSUME NEW x \in Worker, x # w, Running(x)'
      PROVE  ReviewPast(x)'
  <2>1. /\ seen'[x] = seen[x] /\ snap'[x] = snap[x] /\ ReviewPast(x)
        /\ revisions' = revisions /\ candidates' = candidates
        /\ origin' = origin /\ layers' = layers
    BY <1>1, <1>4, <1>7 DEF tables, reviewTables, RInv, Running
  <2> QED
    BY <2>1 DEF ReviewPast, Used, Fresh
<1> QED
  BY <1>1, <1>2, <1>5, <1>6, <1>7 DEF RInv

\* The invariant is preserved, whichever requests overlap.
THEOREM NextRInv == RInv /\ [ReviewNext]_reviewVars => RInv'
<1>1. ASSUME RInv, ReviewNext PROVE RInv'
  BY <1>1, OpenKeeps, LayerRequestKeeps, SaveRevisionKeeps, ArchiveRevisionKeeps, SubmitKeeps,
     RejectKeeps, WithdrawKeeps, AcceptKeeps DEF ReviewNext
<1>2. ASSUME RInv, UNCHANGED reviewVars PROVE RInv'
  <2>1. /\ UNCHANGED vars /\ UNCHANGED tables /\ UNCHANGED reviewTables
        /\ seen' = seen /\ snap' = snap
    BY <1>2 DEF reviewVars, vars
  <2>2. CInv' /\ ReviewTables'
    BY <1>2, <2>1, NextCInv, TablesStay DEF RInv
  <2>3. ReviewTypeOK'
    BY <1>2, <2>1, <2>2 DEF RInv, ReviewTypeOK, reviewTables, CInv, Running
  <2>4. ASSUME NEW x \in Worker, Running(x)'
        PROVE  ReviewPast(x)'
    <3>1. /\ ReviewPast(x) /\ revisions' = revisions /\ candidates' = candidates
          /\ origin' = origin /\ layers' = layers
      BY <1>2, <2>1, <2>4 DEF tables, reviewTables, RInv, Running
    <3> QED
      BY <2>1, <3>1 DEF ReviewPast, Used, Fresh
  <2> QED
    BY <2>2, <2>3, <2>4 DEF RInv
<1> QED
  BY <1>1, <1>2

\* Revisions, candidates and what requests read of them keep their types.
THEOREM ReviewTypes == ReviewSpec => []ReviewTypeOK
<1>1. RInv => ReviewTypeOK
  BY DEF RInv
<1> QED
  BY InitRInv, NextRInv, <1>1, PTL DEF ReviewSpec

\* However submissions, decisions and archivings overlap, the revision of a candidate is
\* marked as submitted and belongs to whoever submitted it.
THEOREM StaysMarked == ReviewSpec => []SubmittedStaysMarked
<1>1. RInv => SubmittedStaysMarked
  BY DEF RInv, ReviewTables
<1> QED
  BY InitRInv, NextRInv, <1>1, PTL DEF ReviewSpec

\* However reviews overlap, a candidate has a layer if and only if it was accepted, just
\* one, unless it was decided more than once.
THEOREM Accounted == ReviewSpec => []DecisionsAccountedFor
<1>1. RInv => DecisionsAccountedFor
  BY DEF RInv, ReviewTables
<1> QED
  BY InitRInv, NextRInv, <1>1, PTL DEF ReviewSpec

\* However edits, promotions and reviews overlap, a draft that came of a candidate proposes
\* the answers of its revision until it is published.
THEOREM ProposedAsSubmitted == ReviewSpec => []DraftsAsSubmitted
<1>1. RInv => DraftsAsSubmitted
  BY DEF RInv, ReviewTables, Drafted, DraftsAsSubmitted
<1> QED
  BY InitRInv, NextRInv, <1>1, PTL DEF ReviewSpec

-----------------------------------------------------------------------------
(* With one worker no request reads what another has changed since, and the *)
(* review is the queue.                                                     *)

OneAtATime == \A x, y \in Worker : x = y

UpToDate ==
  /\ OneAtATime
  /\ redecided = {}
  /\ \A w \in Worker : Running(w) => seen[w].candidates = candidates

QueueStep == [Queue!Next]_(Queue!vars)

StateOf(cs) == [c \in Candidate |-> IF cs[c] = NULL THEN "absent" ELSE cs[c].status]

MadeOf(o) == [c \in Candidate |-> {d \in LayerId : o[d] = c}]

\* A request that ends leaves no transaction open.
LEMMA NoneOpen ==
  ASSUME RInv, UpToDate, NEW w \in Worker, snap' = [snap EXCEPT ![w] = NULL],
         redecided' = {}
  PROVE  UpToDate'
<1>1. \A x \in Worker : x = w /\ snap'[x] = NULL
  BY DEF UpToDate, OneAtATime, RInv, CInv, TypeOK
<1> QED
  BY <1>1 DEF UpToDate, OneAtATime, Running

\* The state of one candidate changes at a time.
LEMMA StateAt ==
  ASSUME NEW c \in Candidate, NEW row, row # NULL,
         candidates \in [Candidate -> CandidateRow \cup {NULL}],
         candidates' = [candidates EXCEPT ![c] = row]
  PROVE  StateOf(candidates') = [StateOf(candidates) EXCEPT ![c] = row.status]
<1>1. /\ candidates'[c] = row
      /\ \A b \in Candidate : b # c => candidates'[b] = candidates[b]
  OBVIOUS
<1>2. \A b \in Candidate :
        StateOf(candidates')[b] = [StateOf(candidates) EXCEPT ![c] = row.status][b]
  BY <1>1 DEF StateOf
<1>3. /\ StateOf(candidates') = [b \in Candidate |-> StateOf(candidates')[b]]
      /\ [StateOf(candidates) EXCEPT ![c] = row.status] =
           [b \in Candidate |-> [StateOf(candidates) EXCEPT ![c] = row.status][b]]
  BY DEF StateOf
<1> QED
  BY <1>2, <1>3

\* What w decides is submitted now, and is decided as w decides it.
LEMMA DecidedNow ==
  ASSUME RInv, UpToDate, NEW w \in Worker, NEW c \in Candidate, Pending(w, c),
         NEW row \in CandidateRow, Decided(w, c, row),
         row.revision = seen[w].candidates[c].revision,
         row.by = seen[w].candidates[c].by, row.target = seen[w].candidates[c].target,
         row.status # "submitted"
  PROVE  /\ candidates[c] # NULL /\ candidates[c].status = "submitted"
         /\ StateOf(candidates)[c] = "submitted"
         /\ StateOf(candidates') = [StateOf(candidates) EXCEPT ![c] = row.status]
         /\ redecided' = {}
<1>1. seen[w].candidates[c] = candidates[c]
  BY DEF UpToDate, Pending
<1>2. candidates[c] # NULL /\ candidates[c].status = "submitted"
  BY <1>1 DEF Pending
<1>3. redecided' = {}
  BY <1>2 DEF Decided, UpToDate
<1>4. /\ candidates \in [Candidate -> CandidateRow \cup {NULL}]
      /\ candidates[c] \in CandidateRow
  BY <1>2 DEF RInv, ReviewTypeOK
<1> DEFINE new == Flushed(candidates[c], seen[w].candidates[c], row)
<1>5. candidates' = [candidates EXCEPT ![c] = new]
  BY DEF Decided
<1>6. new.status = row.status /\ new \in CandidateRow
  BY <1>1, <1>2, <1>4, FlushedCandidate
<1>7. new # NULL
  BY <1>6, RowsDistinct
<1> HIDE DEF new
<1>8. StateOf(candidates') = [StateOf(candidates) EXCEPT ![c] = new.status]
  BY <1>4, <1>5, <1>7, StateAt
<1> QED
  BY <1>2, <1>3, <1>6, <1>8 DEF StateOf

LEMMA SubmitQueues ==
  ASSUME RInv, UpToDate, NEW w \in Worker, NEW c \in Candidate, NEW r \in Revision,
         NEW a \in Actor, NEW t \in Target \cup Untargeted, Submit(w, c, r, a, t)
  PROVE  QueueStep /\ UpToDate'
<1> DEFINE row == [status |-> "submitted", revision |-> r, by |-> a, target |-> t,
                   reviewed |-> FALSE, layer |-> NULL]
<1>1. /\ candidates[c] = NULL /\ candidates' = [candidates EXCEPT ![c] = row]
      /\ origin' = origin /\ redecided' = redecided
      /\ candidates \in [Candidate -> CandidateRow \cup {NULL}]
      /\ snap' = [snap EXCEPT ![w] = NULL]
  BY DEF Submit, ReviewEnded, Ended, RInv, ReviewTypeOK
<1>2. row \in CandidateRow /\ row.status = "submitted"
  BY DEF CandidateRow
<1>3. row # NULL
  BY <1>2, RowsDistinct
<1> HIDE DEF row
<1>4. StateOf(candidates') = [StateOf(candidates) EXCEPT ![c] = "submitted"]
  <2>1. StateOf(candidates') = [StateOf(candidates) EXCEPT ![c] = row.status]
    BY <1>1, <1>3, StateAt
  <2> QED
    BY <1>2, <2>1
<1>5. StateOf(candidates)[c] = "absent" /\ MadeOf(origin') = MadeOf(origin)
  BY <1>1 DEF StateOf, MadeOf
<1>6. Queue!Submit(c)
  BY <1>4, <1>5 DEF Queue!Submit, StateOf, MadeOf
<1>7. UpToDate'
  BY <1>1, NoneOpen DEF UpToDate
<1> QED
  BY <1>6, <1>7 DEF QueueStep, Queue!Next

LEMMA RefusalQueues ==
  ASSUME RInv, UpToDate, NEW w \in Worker, NEW c \in Candidate,
         Reject(w, c) \/ \E a \in Actor : Withdraw(w, c, a)
  PROVE  QueueStep /\ UpToDate'
<1> DEFINE read == seen[w].candidates[c]
           rejected == [read EXCEPT !.status = "rejected", !.reviewed = TRUE]
           withdrawn == [read EXCEPT !.status = "withdrawn"]
<1>1. /\ Pending(w, c) /\ origin' = origin /\ snap' = [snap EXCEPT ![w] = NULL]
      /\ Decided(w, c, rejected) \/ Decided(w, c, withdrawn)
  BY DEF Reject, Withdraw, ReviewEnded, Ended
<1>2. read \in CandidateRow
  BY <1>1, PendingRow
<1>3. /\ rejected \in CandidateRow /\ rejected.status = "rejected"
      /\ rejected.revision = read.revision /\ rejected.by = read.by
      /\ rejected.target = read.target
  BY <1>2 DEF CandidateRow
<1>4. /\ withdrawn \in CandidateRow /\ withdrawn.status = "withdrawn"
      /\ withdrawn.revision = read.revision /\ withdrawn.by = read.by
      /\ withdrawn.target = read.target
  BY <1>2 DEF CandidateRow
<1> HIDE DEF rejected, withdrawn
<1>5. /\ StateOf(candidates)[c] = "submitted" /\ redecided' = {}
      /\ \E refusal \in {"rejected", "withdrawn"} :
           StateOf(candidates') = [StateOf(candidates) EXCEPT ![c] = refusal]
  <2>1. CASE Decided(w, c, rejected)
    BY <1>1, <1>3, <2>1, DecidedNow
  <2>2. CASE Decided(w, c, withdrawn)
    BY <1>1, <1>4, <2>2, DecidedNow
  <2> QED
    BY <1>1, <2>1, <2>2
<1>6. MadeOf(origin') = MadeOf(origin)
  BY <1>1
<1>7. Queue!Refuse(c)
  BY <1>5, <1>6 DEF Queue!Refuse, StateOf, MadeOf
<1>8. UpToDate'
  BY <1>1, <1>5, NoneOpen
<1> QED
  BY <1>7, <1>8 DEF QueueStep, Queue!Next

LEMMA AcceptQueues ==
  ASSUME RInv, UpToDate, NEW w \in Worker, NEW c \in Candidate, NEW d \in LayerId,
         Accept(w, c, d)
  PROVE  QueueStep /\ UpToDate'
<1> DEFINE read == seen[w].candidates[c]
           row == [read EXCEPT !.status = "accepted", !.reviewed = TRUE, !.layer = d]
<1>1. /\ Pending(w, c) /\ Decided(w, c, row) /\ d \notin Used(layers)
      /\ origin' = [origin EXCEPT ![d] = c] /\ snap' = [snap EXCEPT ![w] = NULL]
      /\ origin \in [LayerId -> Candidate \cup {NULL}]
  BY DEF Accept, ReviewEnded, Ended, RInv, ReviewTypeOK
<1>2. read \in CandidateRow
  BY <1>1, PendingRow
<1>3. /\ row \in CandidateRow /\ row.status = "accepted"
      /\ row.revision = read.revision /\ row.by = read.by /\ row.target = read.target
  BY <1>2 DEF CandidateRow
<1> HIDE DEF row
<1>4. /\ candidates[c] # NULL /\ candidates[c].status = "submitted"
      /\ StateOf(candidates)[c] = "submitted" /\ redecided' = {}
      /\ StateOf(candidates') = [StateOf(candidates) EXCEPT ![c] = "accepted"]
  BY <1>1, <1>3, DecidedNow
<1>5. origin[d] = NULL /\ \A b \in Candidate : b # NULL
  <2>1. origin[d] = NULL
    BY <1>1 DEF RInv, ReviewTables, Drafted
  <2> QED
    BY <2>1, RowsDistinct
<1>6. \A i \in LayerId : origin[i] # c
  BY <1>4, NoLayerYet DEF UpToDate
<1>7. \A b \in Candidate : d \notin MadeOf(origin)[b]
  BY <1>5 DEF MadeOf
<1>8. MadeOf(origin') = [MadeOf(origin) EXCEPT ![c] = {d}]
  <2>1. /\ origin'[d] = c
        /\ \A i \in LayerId : i # d => origin'[i] = origin[i]
    BY <1>1
  <2>2. {i \in LayerId : origin'[i] = c} = {d}
    BY <1>6, <2>1
  <2>3. \A b \in Candidate : b # c =>
          {i \in LayerId : origin'[i] = b} = {i \in LayerId : origin[i] = b}
    BY <1>5, <2>1
  <2>4. \A b \in Candidate : MadeOf(origin')[b] = [MadeOf(origin) EXCEPT ![c] = {d}][b]
    BY <2>2, <2>3 DEF MadeOf
  <2>5. /\ MadeOf(origin') = [b \in Candidate |-> MadeOf(origin')[b]]
        /\ [MadeOf(origin) EXCEPT ![c] = {d}] =
             [b \in Candidate |-> [MadeOf(origin) EXCEPT ![c] = {d}][b]]
    BY DEF MadeOf
  <2> QED
    BY <2>4, <2>5
<1>9. Queue!Accept(c, d)
  BY <1>4, <1>7, <1>8 DEF Queue!Accept, StateOf, MadeOf
<1>10. UpToDate'
  BY <1>1, <1>4, NoneOpen
<1> QED
  BY <1>9, <1>10 DEF QueueStep, Queue!Next

\* Steps that touch neither candidates nor origins.
LEMMA QueueStutters ==
  ASSUME candidates' = candidates, origin' = origin
  PROVE  QueueStep
BY DEF QueueStep, Queue!vars

LEMMA OpenUpToDate ==
  ASSUME RInv, UpToDate, NEW w \in Worker, Open(w)
  PROVE  QueueStep /\ UpToDate'
<1>1. /\ candidates' = candidates /\ origin' = origin /\ redecided' = redecided
      /\ seen' = [seen EXCEPT ![w] = [revisions |-> revisions, candidates |-> candidates]]
      /\ seen \in [Worker -> Reviewable \cup {NULL}]
  BY DEF Open, reviewTables, RInv, ReviewTypeOK
<1>2. \A x \in Worker : x = w /\ seen'[x].candidates = candidates'
  BY <1>1 DEF UpToDate, OneAtATime
<1>3. UpToDate'
  BY <1>1, <1>2 DEF UpToDate, OneAtATime
<1> QED
  BY <1>1, <1>3, QueueStutters

LEMMA NextQueues == RInv /\ UpToDate /\ [ReviewNext]_reviewVars => QueueStep /\ UpToDate'
<1> SUFFICES ASSUME RInv, UpToDate, [ReviewNext]_reviewVars PROVE QueueStep /\ UpToDate'
  OBVIOUS
<1>1. ASSUME NEW w \in Worker, LayerRequest(w)
      PROVE  QueueStep /\ UpToDate'
  <2>1. snap' = [snap EXCEPT ![w] = NULL] /\ UNCHANGED reviewTables
    BY <1>1 DEF LayerRequest, Abort, Ended, UpdateField, EditField, PromoteDraft, ArchiveDraft
  <2>2. candidates' = candidates /\ origin' = origin /\ redecided' = {}
    BY <2>1 DEF reviewTables, UpToDate
  <2> QED
    BY <2>1, <2>2, NoneOpen, QueueStutters
<1>2. ASSUME NEW w \in Worker, NEW r \in Revision, NEW a \in Actor, NEW values \in Answers,
             SaveRevision(w, r, a, values)
      PROVE  QueueStep /\ UpToDate'
  <2>1. /\ snap' = [snap EXCEPT ![w] = NULL]
        /\ candidates' = candidates /\ origin' = origin /\ redecided' = {}
    BY <1>2 DEF SaveRevision, ReviewEnded, Ended, UpToDate
  <2> QED
    BY <2>1, NoneOpen, QueueStutters
<1>3. ASSUME NEW w \in Worker, NEW r \in Revision, NEW a \in Actor, ArchiveRevision(w, r, a)
      PROVE  QueueStep /\ UpToDate'
  <2>1. /\ snap' = [snap EXCEPT ![w] = NULL]
        /\ candidates' = candidates /\ origin' = origin /\ redecided' = {}
    BY <1>3 DEF ArchiveRevision, ReviewEnded, Ended, UpToDate
  <2> QED
    BY <2>1, NoneOpen, QueueStutters
<1>4. CASE UNCHANGED reviewVars
  <2>1. /\ candidates' = candidates /\ origin' = origin /\ redecided' = redecided
        /\ seen' = seen /\ snap' = snap
    BY <1>4 DEF reviewVars, reviewTables, vars
  <2>2. UpToDate'
    BY <2>1 DEF UpToDate, OneAtATime, Running
  <2> QED
    BY <2>1, <2>2, QueueStutters
<1> QED
  BY <1>1, <1>2, <1>3, <1>4, OpenUpToDate, SubmitQueues, RefusalQueues, AcceptQueues
  DEF ReviewNext

LEMMA InitQueue == ReviewInit => Queue!Init /\ (OneAtATime => UpToDate)
<1> SUFFICES ASSUME ReviewInit PROVE Queue!Init /\ (OneAtATime => UpToDate)
  OBVIOUS
<1>1. \A w \in Worker : ~Running(w)
  BY DEF ReviewInit, Init, Running
<1>2. \A d \in LayerId, c \in Candidate : origin[d] # c
  BY RowsDistinct DEF ReviewInit
<1>3. Queue!Init
  BY <1>2 DEF Queue!Init, ReviewInit
<1> QED
  BY <1>1, <1>3 DEF UpToDate, ReviewInit

\* Requests one at a time: the review is a queue whose items are decided once.
THEOREM ReviewsQueue == ReviewSpec /\ OneAtATime => ImplementsQueue
<1>1. ReviewSpec /\ OneAtATime => Queue!Init /\ [][Queue!Next]_(Queue!vars)
  BY InitRInv, NextRInv, InitQueue, NextQueues, PTL DEF ReviewSpec, QueueStep
<1> QED
  BY <1>1 DEF ImplementsQueue, Queue!Spec
=============================================================================
