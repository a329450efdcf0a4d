# TLA+ models of the AI config accelerator

The program is a configurable wizard: a schema of steps and fields, overlaid by
configuration layers for an AI tool, a language and a tool+language pair, resolved
into the forms a React client shows and finally into generated files. A FastAPI
service keeps the layers in MySQL and lets editors change them directly or through
drafts, candidates and revisions. This directory holds TLA+ modules of that service,
the TLC runs that check them on small instances, and TLAPS proofs.

## 1. Inventory

| component | source | state | operations | interacts with |
|---|---|---|---|---|
| layer lifecycle | `services/config_layer_lifecycle.py`, `db/models/layer.py` | `config_layer` rows: status, key, parent, published/archived columns | transition, clone to draft, promote | called by drafts and candidates; its `active` rows are what edits and reads look up |
| config write repository | `services/config_db_write_repository.py`, `routers/config.py` | override rows of a layer, `config_version`, `config_audit_event`, `language` | update, reset, add/remove preset, create language, restore | writes the active layer, creates it when missing |
| draft service | `services/draft_service.py`, `routers/drafts.py` | none of its own | create, preview, diff, promote, archive, list | lifecycle service; numbers versions with the write repository's helper |
| audit and versions | `db/models/audit.py`, `services/config_db_{audit,version}_service.py` | append-only rows | list, get, diff | written by every handler above |
| sessions | `db/session.py` | one transaction per request | begin at first read, commit by the router, rollback on close | everything |
| read repository, serialiser | `services/config_db_repository.py`, `config_db_serialiser.py`, `config_resolution_service.py` | none | resolve schema + layers, coverage matrix | reads active layers |
| candidates | `services/candidate_service.py`, `routers/candidates.py` | `template_candidate`, the draft layers of accepted ones | list, get, diff, accept, reject, withdraw | revisions; writes a draft layer of its own making, then the draft service takes over |
| revisions | `services/revision_service.py`, `routers/revisions.py` | `user_config_revision` and `user_config_revision_value` | save, list, get, archive, submit as a candidate | candidates |
| wizard flows | `services/wizard_flow_service.py`, `routers/flows.py` | `wizard_flow`, flow steps, the default flag | create, update, set default, archive, apply | resolved config |
| visibility rules | `services/visibility_engine.py`, `routers/visibility.py` | `visibility_rule`, per-layer overrides | create, update, delete, evaluate | the client evaluates them again |
| wizard client | `frontend/src/hooks/useWizard.ts` and components | answers, screen index | set value, next, previous, reset | resolved config |
| file patcher, version history | `services/config_patcher.py`, `version_history.py`, `audit_log.py` | JSON files, a lock file, numbered snapshots | locked read-modify-write, save version | the file-based predecessor of the layer store |
| import/export | `services/import_/*`, `config_db_exporter.py`, `commands/*` | fills the tables | upsert schema, layers, overrides; export; backup | layer store |
| generation | `services/file_generator.py`, `zip_service.py` | none | render files | resolved config |
| validation, diff, reports | `config_validator.py`, `config_diff.py`, `layer_comparison.py` | none | pure functions on documents | |
| auth, actors | `auth.py`, `actor_registry.py` | tokens, actor rows | identify the caller | every router |

Behaviours that are hard:

* *Concurrent requests.* Every handler reads, decides in Python and writes without
  row locks or conditional updates (no `with_for_update`, no version column). What
  keeps overlapping requests apart is a unique constraint on version numbers, where a
  handler happens to write one.
* *Status machines spread over functions.* `validate_transition` permits, the draft
  service restricts further, promotion changes two rows.
* *Two histories of one key.* Edits number their versions under (scope, target),
  promotions under (layer_type, layer_key).
* *Several writers of one record of what happened.* Status columns, audit events and
  versions are written by three functions of one transaction.
* *Crashes between file system steps* in the lock, replace and snapshot code of the
  file patcher.
* *State kept in two places* in the client: the screen index and the answers that
  determine which screens exist.

What makes each component correct, in short: one active layer per key, always; drafts
and archived layers are immutable; provenance columns lead to the active layer; no
version number twice and no gap; no committed edit overwritten unseen; a candidate
decided once; one default flow; the client's and the server's view of visibility agree;
the lock excludes writers and is released; the layers apply in order to the fields they
were made for; import then export is the identity. (Sections 4 and 5 say
which of these the code does not keep in full, and how far it does.)

PROJECT.json lists every hazard at its line.

## 2. Plan

The modules, in the order in which they were written; all of them exist.

1. `LayerOps`: the tables and what each handler computes from them.
2. `ConfigLayers`: requests one at a time; refines `PublishedConfig`.
3. `LayerOpsProofs`, `ConfigLayersProofs`: the invariants and the refinement of 2 for all
   constants.
4. `ConcurrentLayers`: the same handlers as overlapping transactions;
   `ConcurrentLayersProofs`: numbering, edits, active layers and promotions for any
   number of workers.
5. `CandidateReview`: revisions, candidates and the layers they create, overlapping;
   refines `ReviewQueue` when requests do not overlap;
   `CandidateReviewProofs`: its invariants for any number of requests.
6. `DocumentPatches`, `PatchLock`, `FileStore`: the file based predecessor of the layer
   store, with lock file, failures, crashes and snapshots; refines `AtomicDocument`.
   `FileStoreProofs`: types, exclusion, the refinement, snapshot numbers.
7. `WizardFlows`: the flows of the users as overlapping transactions;
   `WizardFlowsProofs`: step lists and defaults for any number of requests.
8. `VisibilityRules`, `WizardSession`: the rules, and the client that evaluates them while
   configurations, rules and flows arrive; `WizardSessionProofs`: its fetches, screens and
   the rules it shares with the server.
9. `ConfigResolution`, `ConfigExchange`: the layer overlay, import and export;
   `ConfigExchangeProofs`: what is imported, resolved and exported, for any files.

What would come next: the lists of options and presets in the statement about
resolution, which so far is about single attributes.

## 3. Modules

### LayerOps

A layer row is a record of the columns that guards test or handlers set:
`status`, `key` (layer_type and layer_key, or tool_id, or language_id: importer,
edits and clones keep these in agreement), `parent` (parent_layer_id), `published`
(published_at is set) and `successor` (the draft id in "Superseded by draft id=...", the
archive_reason a promotion writes). Override rows are kept per layer and field, NULL
when absent. `Key`, the (scope, target) pairs, is the disjoint union of tools,
languages and tool+language combos.

Abstractions:

* A metadata override is one value, not five columns; a preset has a label and a body.
* The order of a preset list is dropped: a list is a set. Removal by position is then
  the removal of some preset, or of none.
* Step overrides are cloned and kept exactly as field overrides and are not modelled
  apart. No endpoint edits them.
* Actors, names, timestamps and JSON wording are left out. The unique constraint on
  (layer_type, tool_id, language_id, version) therefore is, too: it can make the second
  draft within one second fail that is cloned from the published layer of a candidate
  submitted with both keys, and never applies elsewhere because
  one of its columns is NULL.
* The active layer is searched with LIMIT 1 and no ORDER BY; the models pick any.
* A version keeps what a restore would repeat (`VersionData`).

### ConfigLayers

One action per handler and the single transaction it commits; a request that raises
is rolled back and is no step. `Init` is a database the importer filled: at most one
active layer per tool and language and none of a combo, for the importer reads only the
tool and language files; a row per language with a layer, no versions.

| action | code |
|---|---|
| UpdateField, ResetField, AddPreset, RemovePreset | `POST /config/update`, `/reset`, `/presets/add`, `/presets/remove` |
| CreateLanguage | `POST /config/languages` |
| RestoreVersion | `POST /config/history/restore` |
| CreateDraft, PromoteDraft, ArchiveDraft | `POST /drafts`, `/drafts/{id}/promote`, `/drafts/{id}/archive` |

`EditField` is what the four edits share: look up or create the active layer of the
target, change one override row, write an audit event and a version. `Recorded` is
`_write_audit_and_version`. `audit` counts events per action and history instead of
keeping rows.

### PublishedConfig

What a reader may rely on: each key serves at most one set of overrides; it changes by
a one-field edit or by publishing a set that was put aside when the key served it;
once served, always served. `ConfigLayers!ImplementsPublished` maps `live` to the
overrides of the active layer and `saved` to those of the drafts.

### ConcurrentLayers

Every request has its own session and transaction. The database is MySQL with InnoDB and no
isolation level is set, so a transaction reads the snapshot of its first read
(REPEATABLE READ), and its UPDATEs apply to the current row. `Begin(w)` takes the
snapshot; the commit actions evaluate the operators of `LayerOps` on the snapshot and
write the changed columns (`Flushed`) into the tables as they are by then.
Writing at commit is no loss: an UPDATE holds its row lock to the end, so the writes to
one row happen in commit order, and no other transaction sees them earlier. Inserts that
would repeat a version number or a language key cannot commit. `Abort` is any rollback:
an exception, a duplicate key, a deadlock. `overtaken` is a ghost variable: the keys of
drafts for which an archiving and a promotion both committed from overlapping
transactions.

### CandidateReview

Extends ConcurrentLayers by the tables of revisions and candidates and by two ghosts of
bookkeeping: `origin[d]`, which the code keeps as text in the draft name ("From candidate
#7"), and `redecided`, the candidates a second decision was committed for. `Open(w)` takes
the snapshot of both sets of tables; a request then ends in one of

| action | code |
|---|---|
| SaveRevision, ArchiveRevision | `POST /revisions`, `/revisions/{id}/archive` |
| Submit | `POST /revisions/{id}/submit` |
| Reject, Withdraw, Accept | `POST /template-candidates/{id}/reject`, `/withdraw`, `/accept` |
| LayerRequest | the field edit, promotion and archiving of ConcurrentLayers, or a rollback |

The other edits of ConcurrentLayers and CreateDraft are left out: they tell these
properties nothing that the field edit and the drafts of candidates do not. None of the
handlers of candidates and revisions writes an audit event or a version, so nothing
serialises them: the checks see the snapshot, the UPDATE has no condition. A worker
alone is a server that handles one request at a time.

A target is a key, or only the type `tool` or `language`, which the endpoint accepts
without naming a tool or language. `DraftKey` is the key of the draft: that of the tool or
language, and `OwnKey[c]` = "combo:candidate_<c>" otherwise. `Proposed` are its overrides,
a default value per answered field, with no parent and nothing taken from the active
layer. Answers to fields the schema does not know are skipped by the code and are not
modelled.

### ReviewQueue

Items are submitted, then decided once, finally; a proposal is made of an item by
accepting it and in no other way. `CandidateReview!ImplementsQueue` maps the status
of the candidates to `state` and the layers that came of them to `made`.

### DocumentPatches, PatchLock, AtomicDocument

`DocumentPatches` is what the operations of `config_patcher.py` compute from a document:
three sections of entries, each a function from property names to values. `ApplyPatch`
turns a patch into the request that `apply_patch` dispatches it to. `Content` is what a
document is: entries of known sections with properties of their section.

`PatchLock` is the way to the file. Each file system operation of a call is an action,
because other processes see the file system between any two of them:

| action | code |
|---|---|
| Call | any of the six operations up to the lock |
| Acquire, Retry | `_acquire_file_lock`: `touch(exist_ok=False)`; a sleep, or FileLockError |
| Read | `_read_json_file` and the change of what was read, an exception included |
| WriteTemp | the temporary file of `_write_json_file`, complete or failed |
| Replace | `os.replace`; once it succeeded nothing can fail before the release |
| Release | the `finally` block and the reply |
| Crash | the process dies anywhere in a call and starts again |

A lock has no owner in the code; `lock` remembers the creator for the properties, and
`Release` removes whatever lock there is, as `unlink` does. `AtomicDocument` is what a caller
relies on: a call takes effect at one moment, on the document as it is then, and is
answered with success if and only if it did. The map of the refinement reads the effect
off `pc`: after Replace and before the reply a call has been applied.

### FileStore

`version_history.py` beside the patch engine: `save_version` takes no lock, so reading the
highest number and renaming a file to the next one are two actions. `LastListed` is the
999 of the search pattern. The ghost `earlier` of a save are the files that were there
when it began.

### WizardFlows

Flows and their steps, as transactions like those of ConcurrentLayers. The rows of a stored
list carry its number, which stands for their ids: an update deletes the ids it read.
Three things decide the properties: the unique constraints on (flow, step) and (flow,
position), that `set_default_flow` clears the other flows by one UPDATE that sees what
is committed by then, and that only changed columns are written. `newer` and `doubled` are
ghosts: whose default was made since a transaction read, and for whom a second one was
created. `get_or_create_default_flow` is what `GET /flows/default` calls.

### VisibilityRules

The rules of `visibility_engine.py` and of `useWizard.ts`. `ServerShows` skips disabled
rules and replaces values on the way, `RulesInEffect` is the list the client is sent, and
`ClientShows` evaluates it, with the default of a field that has no answer. `Holds` is the
one `switch` both sides have; where Python and TypeScript differ it takes the side:

* `Equal`: `==` compares lists by content and takes `True` for 1 (`Alike`), `===` does
  neither.
* A rule's value may be `NULL`, which is what `POST /visibility/rules` writes unless told
  otherwise. To the server a field without answer is `None`, which equals it; to the client
  it is its default, `null` when it has none, or `undefined` (`Absent`) when the
  configuration has no such field.
* A path of three components (`Nested`) names nothing in the answers to the server, which
  splits at the first dot only; the client drops what follows the second (`Parent`).

An object as comparison value is not modelled, nor an operator that is none of the six.

### WizardSession

The client: `Wizard.tsx` with its hook. Screens are derived state (`Rederived`), kept in a
variable because most steps leave them alone. `ShownSteps` is the set of the steps that are screens, and
`ScreensOf` that set in the flow's order or, without a flow, the configuration's: both
`buildScreens` and `apply_flow_to_config` walk a list whose steps are distinct, so the set
and the order say what the walk does. Every network answer is an action of
its own, in any order, or a failure. `fetches` are the configurations being fetched;
`live` is false once the effect's cleanup has set `cancelled`. An entry of this set stands for
all requests for one language that were given up.

| action | code |
|---|---|
| SetField, NextScreen, PrevScreen, StartOver | `setField`, `nextScreen`, `prevScreen`, `reset` of the hook, with `handleReset` |
| Submit, PreviewArrives, BackToWizard, Download, DownloadArrives | `handleSubmit`, `handleDownload` and their awaits |
| ChooseFlow, FlowArrives, ActivateFlow, FlowsArrive | flow selector, flow manager, `fetchFlow`, `fetchFlows` |
| RulesArrive | `fetchVisibilityRules` |
| ConfigArrives, ConfigFails | the language effect |

### ConfigResolution

`load_resolved_config` as operators: a schema row is serialised, the tool's rows are
applied and then the language's. The tool's rows are found by the field, the language's by its
key: `FoundByKey` is the last, by position, of the fields of the step with that key
(`Namesakes`). Nested fields are fields of the step like any other, as they are in the
list the code builds its map from: a field stands for its path, which is what the schema keeps
unique, and two fields of a step may have one key. Left out are the tree they form, the
options of the language selector and tags. `PositionOf` is the place of a field among its
siblings; it is the same in every file, and of two fields in one place the map may keep
either. `SchemaColumns` are the columns that an override, an import or an export treats in
some way of its own; "description" stands for the others that are sent and written unless
they are empty.

### ConfigExchange

Files and tables next to each other: `ImportFiles` and `ExportFiles` are the two commands,
`WriteFile` is whoever edits the JSON files, and a metadata edit and the handlers of drafts,
taken from LayerOps, change the tables in between. Column names are those of the export;
`ReadAs` gives the name the import looks for. `Written` and `SchemaWritten` are the
truth tests of the exporter, column by column. `Combo` is empty here, as the import
reads no combinations. `Receiving(k)` is the one layer `_upsert_layer` finds by the key alone,
or nothing when it finds none or raises for several. `LostInExport` are the attributes that
the export never writes and the import reads: editability, locked text, validation.

## 4. Runs

| run | checks | shows |
|---|---|---|
| layers_lifecycle | TypeOK, ExactlyOneActive, Lineage, SupersessionChain, VersionsContiguous, AuditAccounts; NeverDark, FrozenUnlessActive, ConfinedToOneKey | serial requests on a tool and a language keep the layer table and its records consistent |
| layers_overrides | ImplementsPublished | override rows; the store refines PublishedConfig |
| layers_restore | RestoreApplies, violated | a restore does not change the layer |
| concurrent_commits | TypeOK, VersionsContiguous, OneActiveUnlessOvertaken, EditsNeverLost, SupersedesTheActive | the unique version number acts as an optimistic lock |
| review_overlap | ReviewTypeOK, SubmittedStaysMarked, DecisionsAccountedFor, DraftsAsSubmitted | what survives overlapping reviews, submissions, edits and promotions |
| review_serial | ImplementsQueue | one request at a time, the review is a queue |
| file_store | PatchTypeOK, MutualExclusion, NumbersContiguous, EarlierSnapshotsKept, ImplementsAtomic; EveryCallEnds, LockComesFree | the file engine under failures, crashes and overlapping saves |
| wizard_flows | FlowTypeOK, StepsOneList, OneDefaultUnlessCreated | overlapping requests on the flows of a user |
| wizard_session | SessionTypeOK, VisibilityAgrees, PathIntact, OneLiveFetch, InstalledAsSelected; LanguageSettles | the client against every order of arrivals |
| wizard_index | GenerateHasScreen, violated | Generate on a screen that is not there |
| layer_exchange | ExchangeTypeOK, ResolvedAsLayered, ConfigSurvivesExchange, ImportReportsOrApplies | imports and exports over a store with drafts and archived layers |
| exchange_inverse | ExportIsInverse, violated | what an export leaves out |

Bounds of the layer and review runs. `MaxVersion` versions per history and history
kind: 2 in the layer runs, enough for an edit after an edit and for two promotions of a key,
and a restored version; 1 in the review runs, one edit and one promotion of a key next to
the reviews. Layer ids: four in the lifecycle run (two keys with a draft each, or one key with
its base, two drafts and a further clone), three elsewhere (base and two drafts, the
least in which two promotions compete). The overlapping review run has two layers, an imported
one and the draft, and one candidate, so that two requests can decide it; the serial one
has two revisions, two candidates and two editors, so that a revision is submitted twice
and by no one but its owner, and three layers, so that both candidates can be accepted
over an imported layer. Two workers: every hazard listed for these modules is between
two requests.

Bounds of the other runs.

* `file_store`: two processes, two calls (one holds the lock while the other waits or
  has its own turn), three saves (two overlap, a third comes after them), one retry, so that
  waiting, succeeding late and timing out all happen. `LastListed` is 1: with three
  saves the limit of the search is passed. Eight requests: one of each operation,
  two that detect their type, and one that is refused.
* `wizard_flows`: one owner, three flows, three stored lists, two requests at once. Owners
  are independent of each other, for every statement filters by owner.
* `wizard_session`: three steps; a language whose configuration lacks one (the server takes
  hidden steps out), one that gives a default and requires less, fields with an empty default
  and with none, a nested path; two rule sets, with priorities, both actions, layer
  overrides, and comparison with null, a list, the number a boolean equals and the empty
  text. Each disjunct of `ReadApart` is needed in this instance: without any one of them
  VisibilityAgrees is violated. A flow that reorders and drops steps, and one that disables
  all. Two edits: a language and its change, a language and an answer that hides a step, or
  an answer given and emptied again after going back.
* `layer_exchange`, `exchange_inverse`: one tool, one language, three layers;
  two imports, so that the second meets drafts and archived layers; a schema that gains two
  fields with the key of one it has, one nested in the same step and one in another step.

The symmetry sets permute ids and workers, which no formula tells apart; the runs with
liveness properties have none. Deadlock is not an error: a store that used up its
bounds stops.

Fairness is assumed in two places. `PatchLock`: a call under way goes on, `WF_vars(Continue(p))`
for every process: `time.sleep` ends, file operations return, and `_acquire_file_lock`
counts its timeout. No one has to call, and no one has to crash. `WizardSession`: a request for a
configuration ends, `WF_vars(ConfigEnds(x))`. `fetchWithTimeout` aborts it when no response
headers have come after 30 seconds (`wizardApi.ts:25` then clears the timer); that the body ends or
the connection breaks once they have come is an assumption about the server and the
network, which the code does not enforce. The user, rules and flows are not forced to do anything. Everywhere else
requests arrive when they like and the properties are safety properties.

What the violations say:

* `layers_restore`: after update, restore, the active layer has the updated value,
  although version history and audit trail show a restore.
* `wizard_index`: on the last screen, a flow is chosen, a language's configuration arrives or an answer
  triggers a rule, and screens in front vanish. The rendered screen comes of the clamped
  index, `nextScreen` of the stored one: Generate throws, and Back moves an index that
  is not the one shown.
* `exchange_inverse`: the editability, locked text or validation of a schema field, or a
  replaced list of options or presets, is gone after export and import.

Divergences that the models contain and no run is kept for. Each was observed as a
counterexample of a property that the documentation suggests, and the invariants above
are stated so as to hold next to them:

* An imported content row with options and no presets disappears with the first
  `presets/remove` request, even one that selects no preset
  (`config_db_write_repository.py:531`).
* Draft created, archive and promote requests overlap, archive commits first: the
  layer goes draft, archived, active. In the other order the key loses its active layer
  until the next edit creates an empty one (`config_layer_lifecycle.py:325`;
  OneActiveUnlessOvertaken excludes these keys).
* Two editors decide one candidate at once; it ends as rejected with a draft layer, or as
  accepted after it was withdrawn (`candidate_service.py:402`; DecisionsAccountedFor
  holds of every other candidate).
* A revision is archived, then the submission that read it before marks it as submitted
  (`candidate_service.py:170`).
* The active layer overrides field f2; a candidate that names f1 only is accepted and
  published, and f2 is back at its default, which the diff did not show
  (`candidate_service.py:440`).
* An edit created the layer "override:tool+language"; a candidate for that combo is
  accepted and promoted, and both layers are active (`candidate_service.py:436`).
* An edit that overlaps a promotion of the same key commits into the layer just archived
  (their versions are numbered in different histories). EditsNeverLost says nothing
  against it; the edit is as lost as one made before the promotion.
* Two first requests for the default flow create one each (`wizard_flow_service.py:278`;
  OneDefaultUnlessCreated excludes the owner until a default is chosen). An archived
  flow can be made the default, and the next read then creates another.
* Client and server show different things for a rule that is `ReadApart`, which
  VisibilityAgrees excludes: one that depends on a nested path; one that looks for a list,
  and the answer is a list of the same content (never `===`); one that compares a boolean
  with the number Python takes it for; one about a field nobody answered whose default is the empty text
  (`resolveFieldValue` gives the client the default, `buildInitialAnswers` leaves it out of the
  answers), when it compares with null or the empty text; and one about a field that the
  configuration lacks, because the server took its step out, when it compares with null: `None` to
  the server, `undefined` to the client (`useWizard.ts:26`).
* A field and a nested field of one step have the same key, which the schema allows: it keeps
  paths unique (`uq_config_field_schema_path`). Both then get the language's overrides of the
  one that is last by position, and those made for the other are never applied
  (`config_db_repository.py:560`), while the tool's overrides go to the field they are for;
  `docs/json-configuration-model.md:1068` asks that an override of a nested path "must resolve
  identically". TLC finds this in the instance of `layer_exchange` when the language's row in
  `ResolvedAsLayered` is required to be the field's own; the property says that it is the
  worst: one row per field, of one of its namesakes in the step. The repository's schema.json
  has no such pair.
* A list in the schema, or one of options or presets a layer adds, that is empty is not
  exported (`config_db_exporter.py:133`); imported again it is absent. `Same` treats the two
  as one value.
* A flow whose steps are all disabled leaves no screen, and rendering throws
  (`Wizard.tsx:183`; `Rendered` is false from then on).
* A process that dies holding the lock file stops all patches of the file: later calls
  end, but with a timeout (EveryCallEnds holds, LockComesFree excludes it).

## 5. Proofs

All theorems hold for every set of tools, languages, combos, layer ids, fields, values
and every bound, from `KeysDisjoint`, `NullDistinct`, `ImportAssumption`, `BoundAssumption`,
`NullNoOverrides` and `FiniteIds`, and the assumptions named with the modules below. `LayerOpsProofs` holds what both proofs need of the row operators:
that `NextVersionNumber` of the numbers 1..n is n + 1, that a version so numbered leaves
no gap, and that rows and tables keep their types.

`ConfigLayersProofs`: TypeCorrect, OneActive, VersionsGapless, NeverGoesDark, Frozen,
Confined, Descent and Succession. The inductive invariant is `IInv` = TypeOK, KeysKnown,
ExactlyOneActive and VersionsContiguous. ExactlyOneActive is not inductive without
KeysKnown: a new language gets an active layer without a search for one, and only
KeysKnown says that none can be there. TypeOK needs VersionsContiguous: the next version
number is a maximum, which is a number only when the set it is taken of is 1..n.

The step argument is one lemma per request, each showing that the request is a
`KeyStep(k, a)`: it changes layers of one key k only, none that is frozen, and leaves a
as the active layer of k. `KeyStepKeeps` draws the invariant and NeverDark from that;
`NextIsKeyStep` collects the requests; FrozenUnlessActive and ConfinedToOneKey are
parts of KeyStep. A restore changes no layer.

Lineage and SupersessionChain are inductive together, given `IInv`, again with one lemma
per request. The step that matters is a promotion: the layer it archives may be the end
of a chain, so the archiving has to name the promoted draft, which the same step makes
active and published; and no layer a draft descends from becomes a draft again.

RefinesPublished, also in `ConfigLayersProofs`, shows that the store implements
PublishedConfig. It needs, next to `IInv`, that an id not in use has no overrides
(`Unwritten`): the first edit of a key creates the layer it lands in, and would otherwise
serve whatever the id held. `NullNoOverrides` keeps a key that serves nothing apart from one
that serves overrides. Only `Live` and `Saved` of the request's key change
(`OneKeyServed`); an edit maps to Start or Edit, a new draft to Save, a promotion to
Publish or, of the active layer, to a stutter, an archiving to Discard, a restore to a stutter.

AuditTrail, in the same module, counts rows and so needs `FiniteIds`. The invariant
`AuditInv` adds to AuditAccounts that an id without row is `Blank`, so that creating a layer
that is no clone counts for nothing; `IInv` turns each number of versions into a length,
and SupersessionChain says that a draft has no successor, which makes an archived draft one
that was discarded and never one that was superseded.

`ConcurrentLayersProofs`: ConcurrentTypes, NumbersSerialise and NoLostEdit, for any set
of workers. The inductive invariant `CInv` says of every open transaction that its
snapshot is a past of the tables (`RowsKept`: versions and languages only grow, a row
keeps its key), that ids not in use are blank in both, and `Unedited`: if no version of
a key's edit history was committed since the snapshot, the overrides of its layers are
the ones read. The lock is in `RecordedSerial`: the snapshot's numbers are 1..m, the
committed ones 1..n with m <= n, and m + 1 is not among the latter, so m = n; hence a
handler that writes a version had read its history to the end. `Commit(w)` is what every
commit has in common, with one lemma per handler; `CommitKeeps` shows that a commit
of w leaves the invariant of all other transactions intact, because an edit that changes
overrides also adds a version to their history.

The second part of the module proves OneActive and PromotionSupersedes. Their
invariant `AInv` adds to `CInv` that the tables, and every snapshot, are `Sound` for the
keys that have not been overtaken: a key with layers has one active layer, and a layer
that is not archived has no successor. What ties a snapshot to the tables are two uses of
the version numbers as a lock. The first layer of a key comes with a version of its edits
(`FirstsSeen`), so an edit that finds no layer and commits was right; a later activation
comes with a version of its layers (`ActiveSeen`), so a promotion that commits had
read the layer that is active. `ActiveCommit` says both of a commit, with one lemma per
handler; archiving a draft writes no version, which is why it can overtake a promotion.

`CandidateReviewProofs`: ReviewTypes, StaysMarked, Accounted and ProposedAsSubmitted, for any
set of workers, revisions and candidates, with `AnswersAssumption`, `OwnKeyAssumption` and
`RowsDistinct` in addition. The invariant `RInv` is `CInv` for the layer tables and, for the
review tables, the properties with two more: a candidate nobody decided carries nothing of a
decision (`Fresh`), and the layer that came of a candidate has its key, is marked published
once it is active, and carries the answers of the revision until then (`Drafted`). Of an
open transaction it says (`ReviewPast`) that what it read can have changed in one direction
only: a revision keeps owner and answers and never turns active again, a candidate keeps
what was submitted, a published layer stays published. `Evolved` and `RequestEnds` summarise a request that
ends, `DecidedAs` a decision and `DraftsLeft` the requests on layers. ReviewsQueue is the
refinement of ReviewQueue when there is no more than one worker (`OneAtATime`): a request
then decides on the candidates as they are (`UpToDate`), nothing is decided twice, and
`RInv` says that an acceptance is the first layer of its candidate.

`WizardFlowsProofs`: FlowTypes, OneListPerFlow and OneDefault, for any users, flows, step
lists and workers, from `FlowAssumption`. The invariant `FlowInv` says of every snapshot
that owners stay, that archived flows stay archived, that a user has an active default the
snapshot does not have only with a note in `newer`, and that the rows of a flow are those
of the snapshot or were all replaced since. The last is what keeps lists apart: an
update deletes the rows that it had read, all of them or, if they were replaced, none, and
then the unique position 0 of the list that is there refuses the new one. Every commit is
summarised as `FlowsKept`, `DefaultsKept` and `StepsKept`, with one lemma per handler.

`FileStoreProofs` begins with the patch engine alone: PatchTypes, Exclusion and PatchesAtomic, for any number of processes, requests,
retries and documents. PatchTypes is about `PatchInv`: besides PatchTypeOK, a process in a call
has a request that callers make. With `RequestAssumption`, which gives the names of an
operation to the section it writes, every `Result` of a whole document is whole or refused
(one case per operation), and so is all that processes hold and what they replace the file with. The inductive invariant says that a process is in its section only
with its own lock, that a process before its replacement holds the result of its request
on the document as it is now (the lock makes this stable), and that a request is there
exactly while a call is under way. Each action then maps to a step of AtomicDocument or
to a stutter: Replace to Apply, Release to Confirm or Refuse, Crash to Vanish.

With the version history: the same three results for the composed specification, whose steps
are steps of PatchLock or leave its variables alone; NumbersGapless, for which the inductive
invariant says that the number a save has read is at most one more than a number in
use; and SnapshotsKept, for which it says that a number in use is new to the save, or past
what the search finds. (A save may replace a file that was stored after it began, even
one that is no longer the last: the theorem is about those that were there.)

`WizardSessionProofs`: NeverRaces and InstallsSelected, for any languages, configurations,
rules, flows and answers. The invariant `FetchInv` says that what is awaited is one request
for the language that is wanted, or nothing while a failure stands. Every handler either runs
the effect, whose cleanup gives up what was under way (`FetchAwaits`), or leaves what the
effect depends on alone. `LiveIsSelected` is the point of it: an answer that is not dropped is
to a request for the language selected, so the configuration installed is that one.

SessionTypes, PathsStayIntact and VisibilityIsShared, in the same module, hold of the
configurations, flows and rules the program makes, and not of any value of the constants; the
assumptions name what the database guarantees. `ConfigAssumption`: a configuration has a step
once and a field once (`uq_config_step_schema_key`, `uq_config_field_schema_path`), and the
language field has a language or nothing for its default. `SessionAssumption`: a flow names a
step once (`uq_flow_step_key`), the steps are finite in number, the language field takes
languages. `RuleAssumption`: a rule is its row.

* SessionTypes. The index is bounded by the number of steps, because `Sorted` puts any finite
  set of distinct places into one order, and so `ScreenRows` bounds the screens by the steps.
  `SessionInv` adds to the types that the screens are the ones derived from the state.
* PathsStayIntact. PathIntact is not inductive: answers are entered on the screen shown, which
  is the screen at the clamped index, and that one may be before the stored index. `PathInv`
  adds `SessionInv` and that the index of a steady session is one of a screen. `ScreensApart` then
  says that no two screens share a field, hence an answer on one completes or empties no
  other (`SetFieldKeepsPath`), and `StaysComplete` that a configuration that arrives and
  leaves the screens alone leaves them complete.
* VisibilityIsShared. The client evaluates the last rule in effect for a target, the server
  the same one with the overrides replaced on the way. `SameRuleDecides` shows that these are one
  rule (ties of priority go to the larger id on both sides, `DecidingIsLast`), and
  `DefaultUnanswered`, `DecidesAlike` and `ReadAlike` that the values client and server give it
  decide alike unless the rule is `ReadApart`. The theorem is about any comparison values, null
  and lists included, any paths and any overrides; each exception in `ReadApart` is a case in
  which the two evaluators differ.

`ConfigExchangeProofs`: ExchangeTypes, ImportsReported, ResolvesLayered and ExchangeSurvived, for
any tools, languages, steps, fields and file contents that `ExchangeAssumption` allows:
files give steps and fields known attributes, flags as booleans, and requests change
metadata columns. Values and files are otherwise arbitrary. The inductive invariant
`ExchangeInv` adds to the types that the files keep their shape and that a key that has
layers has one that is active (`HasActive`). Without the last, ImportReportsOrApplies is not
provable: the import takes a layer because it is the only one of its key, and reports
nothing even if it was an archived one; that it is the active one follows from no key
being without. `ImportSteps` summarises an import (which layers are new, which receive a
file, what is reported), and `ImportApplies` reads the property off it.

ResolvesLayered and ExchangeSurvived need the types only. `AppliedColumn` says what the rows of a
layer make of one attribute, and `FirstOfThree` joins the layers. Nothing is assumed about keys:
fields are finitely many, so among those with a key one is last, and the row found is that
of a namesake in the step (`FoundIsNamesake`), the same row for every attribute. It is the
field's own where the key is unique in the step. ExchangeSurvived excepts the fields with
a namesake, because the fields of a new database are stored in another order, and the
attributes in `LostInExport`, which no export writes. In its proof `SchemaRestored` and
`RowRestored` give column by column what export and import return, `Alike` relates two
fields that may differ in those attributes and whose lists may differ in being empty or absent, and `ContentAlike` shows that applying
rows without replaced lists keeps that. The lists that are merged are equal on both sides, so the fold that
merges them need not be expanded.

Every invariant and action property of the runs is thus stated by a theorem. Only
model-checked:

* EveryCallEnds, LockComesFree and LanguageSettles: liveness under fairness is out of
  reach of the prover.
* The three properties expected to be violated (RestoreApplies, GenerateHasScreen,
  ExportIsInverse).
* What a list operator computes for every input: `MergedByLabel` is a fold, and no theorem
  says what the presets of a resolved field are.

## 6. Not modelled

* File generation and zip packing, the reports, validators and comparisons of documents, and
  the coverage matrix are functions without state.
* Authentication and actor names decide who may call, nothing else here.
* The admin client sends the requests that are the actions of the server modules; it keeps
  forms and lists.
* Visibility rules: `POST` and `DELETE /visibility/rules` flush without committing and the
  session rolls back when it closes, so no request changes the tables; the rules are a
  constant of WizardSession. Overrides of rules are written by nothing in the program and not
  cloned into drafts.
* The audit log of the file engine is an append-only file nobody reads back; the lists of
  versions only read.
* Import: dry runs, checksums, counters, several schema versions. Export: the grouping by
  status, the backup command. Titles and tags in both.
* Bootstrap, settings and engine creation are wiring.
