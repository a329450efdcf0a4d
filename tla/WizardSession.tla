---------------------------- MODULE WizardSession ----------------------------
(***************************************************************************)
(* One user's wizard in the browser: screens are derived from the          *)
(* configuration, the flow, the visibility rules and the answers, while    *)
(* the first three arrive over the network, in any order.  The             *)
(* configuration depends on an answer, the language; an effect of the      *)
(* component asks for it again whenever the answers or the configuration   *)
(* change, after giving up the request that is under way.                  *)
(*                                                                         *)
(* A handler, or the arrival of an answer, is one step: React batches its  *)
(* state changes, renders, and runs the effects before the next one.       *)
(* Configurations keep their steps' and fields' keys, the required flags   *)
(* and the defaults; steps that are hidden do not get here, the server     *)
(* takes them out of what it sends (routers/wizard.py:38).  Nested fields  *)
(* and labels are left out, and "done" and "preview" stand for the views   *)
(* shown instead of the screens.                                           *)
(***************************************************************************)
EXTENDS VisibilityRules, Sequences

CONSTANTS
  Language,       \* languages the wizard can be asked for
  LanguageField,  \* the path of primary_language
  Choices,        \* Choices[f]: what the user may enter in field f
  Configs,        \* Configs[l]: the steps resolved for l, NULL for the wizard as opened
  RuleSets,       \* what the server may hold: [rules, overrides]
  Flows,          \* flows of the user that are listed, sequences of [step, enabled]
  DefaultFlow,    \* the one that is the default, or NULL
  MaxEdits        \* bound: answers the user enters, and times he starts over

FieldDefinition == [field : Field, required : BOOLEAN, default : Value \cup {NULL}]

StepDefinition == [step : Step, fields : Seq(FieldDefinition)]

FlowStep == [step : Step, enabled : BOOLEAN]

Distinct(steps) == \A m, n \in DOMAIN steps : steps[m].step = steps[n].step => m = n

ASSUME SessionAssumption ==
  /\ IsFiniteSet(Step)
  /\ Language \subseteq Value \ {Empty}
  /\ LanguageField \in Field
  /\ Choices \in [Field -> SUBSET Value]
  /\ Choices[LanguageField] \subseteq Language \cup {Empty}
  /\ Flows \subseteq Seq(FlowStep) /\ \A f \in Flows : Distinct(f)
  /\ DefaultFlow \in Flows \cup {NULL} /\ NULL \notin Flows
  /\ MaxEdits \in Nat

\* A configuration names a step once and a field once (uq_config_step_schema_key,
\* uq_config_field_schema_path).
ASSUME ConfigAssumption ==
  \A l \in Language \cup {NULL} :
    LET steps == Configs[l]
    IN  /\ steps \in Seq(StepDefinition) /\ Distinct(steps)
        /\ \A m, n \in DOMAIN steps :
             \A i \in DOMAIN steps[m].fields, j \in DOMAIN steps[n].fields :
               LET d == steps[m].fields[i]
                   e == steps[n].fields[j]
               IN  /\ d.field = e.field => m = n /\ i = j
                   /\ d.field = LanguageField => d.default \in Language \cup {Empty, NULL}

\* Rules are rows of a table, with a key.
ASSUME RuleAssumption ==
  \A s \in RuleSets :
    /\ s.rules \subseteq Rule /\ IsFiniteSet(s.rules) /\ s.overrides \subseteq RuleOverride
    /\ \A q, r \in s.rules : q.id = r.id => q = r

Request == [language : Language, live : BOOLEAN]

View == [previewed : BOOLEAN, done : BOOLEAN, submitting : BOOLEAN, downloading : BOOLEAN]

VARIABLES
  config,     \* language of currentConfig, NULL as opened
  entered,    \* answers of the fields that were touched
  index,      \* currentScreenIndex, from 0
  server,     \* the rules the server held when they were fetched, NULL before
  flow,       \* activeFlow
  screens,    \* what buildScreens makes of these four
  listed,     \* the flows have arrived
  asked,      \* flows being fetched
  resolved,   \* resolvedLanguage
  fetches,    \* configurations being fetched: [language, live]
  view,       \* what is shown and awaited
  edits,      \* answers entered and restarts so far
  failed,     \* ghost: the last fetch of a configuration failed
  steady      \* ghost: the screens have not changed since the first one was shown

choices == <<config, entered, server, flow, screens>>
network == <<listed, asked, resolved, fetches, failed>>
vars == <<choices, network, index, view, edits, steady>>

-----------------------------------------------------------------------------
(* What is derived from the state (useMemo).                               *)

FieldsOf(c) == UNION {Range(Configs[c][n].fields) : n \in DOMAIN Configs[c]}

Default(c) ==
  [f \in Field |-> IF \E d \in FieldsOf(c) : d.field = f
                   THEN (CHOOSE d \in FieldsOf(c) : d.field = f).default ELSE Absent]

\* Answers that were entered win over the defaults of the configuration.
Effective(c, e) ==
  [f \in DOMAIN e \cup {d.field : d \in {x \in FieldsOf(c) : x.default \notin {NULL, Empty}}} |->
     IF f \in DOMAIN e THEN e[f] ELSE Default(c)[f]]

ClientRules(s) == IF s = NULL THEN {} ELSE RulesInEffect(s.rules, s.overrides)

Shown(c, e, s, target) == ClientShows(ClientRules(s), Effective(c, e), Default(c), target)

\* What gives the order of the steps; a flow without steps is no flow.
Order(c, f) == IF f \in {NULL, <<>>} THEN Configs[c] ELSE f

Place(c, f, step) == CHOOSE n \in DOMAIN Order(c, f) : Order(c, f)[n].step = step

Enabled(f, step) == f \in {NULL, <<>>} \/ \E n \in DOMAIN f : f[n] = [step |-> step, enabled |-> TRUE]

\* buildScreens, and apply_flow_to_config: the steps of the configuration that the flow
\* enables and no rule hides, in the flow's order.
ShownSteps(c, e, s, f) ==
  {d \in Range(Configs[c]) : Enabled(f, d.step) /\ Shown(c, e, s, d.step)}

ScreensOf(c, e, s, f) ==
  LET steps == ShownSteps(c, e, s, f)
  IN  CHOOSE q \in [1..Cardinality(steps) -> steps] :
        \A m, n \in DOMAIN q : m < n => Place(c, f, q[m].step) < Place(c, f, q[n].step)

Filled(c, e, d) ==
  d.required => ~IsEmpty(Answer(Effective(c, e), d.field))

\* Every field of a step is validated, those that a rule hides too.
Complete(c, e, screen) == \A d \in Range(screen.fields) : Filled(c, e, d)

Clamped == IF index < Len(screens) THEN index
           ELSE IF screens = <<>> THEN 0 ELSE Len(screens) - 1

\* With no screen to show, rendering throws and the wizard is gone.
Rendered == view.done \/ view.previewed \/ screens # <<>>

OnScreens == Rendered /\ ~view.done /\ ~view.previewed

AtLast == Clamped = Len(screens) - 1

-----------------------------------------------------------------------------
(* The language effect.                                                    *)

Selected(c, e) ==
  IF \E d \in FieldsOf(c) : d.field = LanguageField
  THEN Answer(Effective(c, e), LanguageField) ELSE NULL

Wanted(c, e, r) == IF Selected(c, e) \in {NULL, Empty, r} THEN NULL ELSE Selected(c, e)

GivenUp(fs) == {[x EXCEPT !.live = FALSE] : x \in fs}

\* Mutant: the cleanup forgets to clear pendingLanguageRef.
FetchPending(c, e, r, fs) ==
  IF Wanted(c, e, r) = NULL \/ \E x \in fs : x.live /\ x.language = Wanted(c, e, r)
  THEN GivenUp(fs)
  ELSE GivenUp(fs) \cup {[language |-> Wanted(c, e, r), live |-> TRUE]}

\* Mutant: the effect has no cleanup.
FetchUncancelled(c, e, r, fs) ==
  fs \cup (IF Wanted(c, e, r) = NULL THEN {}
           ELSE {[language |-> Wanted(c, e, r), live |-> TRUE]})

\* The cleanup gives up what is under way; the effect may then ask anew.
Fetch(c, e, r, fs) ==
  GivenUp(fs) \cup (IF Wanted(c, e, r) = NULL THEN {}
                    ELSE {[language |-> Wanted(c, e, r), live |-> TRUE]})

Init ==
  /\ config = NULL /\ entered = [f \in {} |-> NULL] /\ index = 0
  /\ server = NULL /\ flow = NULL /\ listed = FALSE /\ asked = {}
  /\ screens = ScreensOf(NULL, entered, NULL, NULL)
  /\ resolved = NULL
  /\ fetches = Fetch(NULL, entered, NULL, {})
  /\ view = [previewed |-> FALSE, done |-> FALSE, submitting |-> FALSE, downloading |-> FALSE]
  /\ edits = 0 /\ failed = FALSE /\ steady = TRUE

\* What follows a change of answers, configuration, rules or flow.
Rederived ==
  /\ screens' = ScreensOf(config', entered', server', flow')
  /\ steady' = ((steady /\ screens' = screens) \/ index' = 0)

-----------------------------------------------------------------------------
(* The user.                                                               *)

SetField(f, v) ==
  /\ OnScreens /\ edits < MaxEdits
  /\ \E d \in Range(screens[Clamped + 1].fields) : d.field = f
  /\ Shown(config, entered, server, f)
  /\ v \in Choices[f]
  /\ entered' = [g \in DOMAIN entered \cup {f} |-> IF g = f THEN v ELSE entered[g]]
  /\ edits' = edits + 1
  /\ fetches' = Fetch(config, entered', resolved, fetches)
  /\ failed' = FALSE
  /\ UNCHANGED <<config, server, flow, listed, asked, resolved, index, view>>
  /\ Rederived

\* Mutant: the wizard proceeds whatever the fields hold.
MoveOnAnyway ==
  /\ index < Len(screens)
  /\ index' = IF index < Len(screens) - 1 THEN index + 1 ELSE index

\* Mutant: the index runs past the last screen.
MoveOnPast ==
  /\ index < Len(screens)
  /\ Complete(config, entered, screens[index + 1])
  /\ index' = index + 1

\* nextScreen: it reads the screen at the index as stored, and throws when there is none.
MoveOn ==
  /\ index < Len(screens)
  /\ Complete(config, entered, screens[index + 1])
  /\ index' = IF index < Len(screens) - 1 THEN index + 1 ELSE index

NextScreen ==
  /\ OnScreens /\ ~AtLast
  /\ MoveOn
  /\ UNCHANGED <<choices, network, view, edits, steady>>

PrevScreen ==
  /\ OnScreens /\ Clamped # 0
  /\ index' = index - 1
  /\ steady' = (steady \/ index' = 0)
  /\ UNCHANGED <<choices, network, view, edits>>

\* Generate, on the last screen.
Submit ==
  /\ OnScreens /\ AtLast /\ ~view.submitting
  /\ MoveOn
  /\ view' = [view EXCEPT !.submitting = TRUE]
  /\ UNCHANGED <<choices, network, edits, steady>>

PreviewArrives ==
  /\ Rendered /\ view.submitting
  /\ \E shown \in {TRUE, view.previewed} :
       view' = [view EXCEPT !.submitting = FALSE, !.previewed = shown]
  /\ UNCHANGED <<choices, network, index, edits, steady>>

BackToWizard ==
  /\ view.previewed /\ ~view.done
  /\ view' = [view EXCEPT !.previewed = FALSE]
  /\ UNCHANGED <<choices, network, index, edits, steady>>

Download ==
  /\ view.previewed /\ ~view.done /\ ~view.downloading
  /\ view' = [view EXCEPT !.downloading = TRUE]
  /\ UNCHANGED <<choices, network, index, edits, steady>>

DownloadArrives ==
  /\ Rendered /\ view.downloading
  /\ \/ view' = [view EXCEPT !.downloading = FALSE, !.done = TRUE, !.previewed = FALSE]
     \/ view' = [view EXCEPT !.downloading = FALSE]
  /\ UNCHANGED <<choices, network, index, edits, steady>>

\* The answers go, the configuration of the language stays.
StartOver ==
  /\ view.done /\ edits < MaxEdits
  /\ edits' = edits + 1
  /\ view' = [view EXCEPT !.done = FALSE, !.previewed = FALSE]
  /\ entered' = [f \in {} |-> NULL]
  /\ index' = 0
  /\ fetches' = Fetch(config, entered', resolved, fetches)
  /\ failed' = FALSE
  /\ UNCHANGED <<config, server, flow, listed, asked, resolved>>
  /\ Rederived

\* A flow of the list is fetched before it takes effect.
ChooseFlow(f) ==
  /\ OnScreens /\ listed /\ Flows # {}
  /\ IF f = NULL THEN flow' = NULL /\ asked' = asked
     ELSE asked' = asked \cup {f} /\ flow' = flow
  /\ UNCHANGED <<config, entered, server, listed, resolved, fetches, failed,
                 index, view, edits>>
  /\ Rederived

\* From the flow manager, which stays open over any view.
ActivateFlow(f) ==
  /\ Rendered /\ listed /\ Flows # {}
  /\ flow' = f
  /\ UNCHANGED <<config, entered, server, network, index, view, edits>>
  /\ Rederived

-----------------------------------------------------------------------------
(* The network.                                                            *)

RulesArrive(s) ==
  /\ Rendered /\ server = NULL
  /\ server' = s
  /\ UNCHANGED <<config, entered, flow, network, index, view, edits>>
  /\ Rederived

FlowsArrive ==
  /\ Rendered /\ ~listed
  /\ listed' = TRUE
  /\ asked' = IF DefaultFlow = NULL THEN asked ELSE asked \cup {DefaultFlow}
  /\ UNCHANGED <<choices, resolved, fetches, failed, index, view, edits, steady>>

\* A flow that arrives late replaces one chosen since.
FlowArrives(f) ==
  /\ Rendered /\ f \in asked
  /\ asked' = asked \ {f}
  /\ flow' \in {f, flow}
  /\ UNCHANGED <<config, entered, server, listed, resolved, fetches, failed,
                 index, view, edits>>
  /\ Rederived

\* Mutant: no look at cancelled.
InstallAny(x) ==
  /\ config' = x.language /\ resolved' = x.language /\ failed' = FALSE
  /\ fetches' = Fetch(x.language, entered, x.language, fetches \ {x})

\* A request that was given up changes nothing.
Install(x) ==
  IF x.live
  THEN /\ config' = x.language /\ resolved' = x.language /\ failed' = FALSE
       /\ fetches' = Fetch(x.language, entered, x.language, fetches \ {x})
  ELSE fetches' = fetches \ {x} /\ UNCHANGED <<config, resolved, failed>>

ConfigArrives(x) ==
  /\ Rendered /\ x \in fetches
  /\ Install(x)
  /\ UNCHANGED <<entered, server, flow, listed, asked, index, view, edits>>
  /\ Rederived

\* The effect runs again only if resolvedLanguage changes.
ConfigFails(x) ==
  /\ Rendered /\ x \in fetches
  /\ resolved' = IF x.live THEN NULL ELSE resolved
  /\ fetches' = IF resolved' = resolved THEN fetches \ {x}
                ELSE Fetch(config, entered, NULL, fetches \ {x})
  /\ failed' = (failed \/ (x.live /\ resolved = NULL))
  /\ UNCHANGED <<choices, listed, asked, index, view, edits, steady>>

ConfigEnds(x) == ConfigFails(x) \/ ConfigArrives(x)

Next ==
  \/ \E f \in Field, v \in Value : SetField(f, v)
  \/ NextScreen \/ PrevScreen
  \/ Submit \/ PreviewArrives \/ BackToWizard
  \/ Download \/ DownloadArrives \/ StartOver
  \/ \E f \in Flows \cup {NULL} : ChooseFlow(f) \/ ActivateFlow(f)
  \/ \E s \in RuleSets : RulesArrive(s)
  \/ FlowsArrive \/ \E f \in Flows : FlowArrives(f)
  \/ \E x \in Request : ConfigEnds(x)

\* Requests end: fetchWithTimeout gives up one whose answer does not begin in time, and an
\* answer that has begun is assumed to end, or to break off.  The user may stop.
Spec == Init /\ [][Next]_vars /\ \A x \in Request : WF_vars(ConfigEnds(x))

-----------------------------------------------------------------------------
(* Properties.                                                             *)

\* Fields of the component's state have the values of their types, and the
\* stored index never exceeds the number of steps there are.
SessionTypeOK ==
  /\ config \in Language \cup {NULL} /\ resolved \in {NULL, config}
  /\ DOMAIN entered \subseteq Field
  /\ \A f \in DOMAIN entered : entered[f] \in Choices[f]
  /\ index \in Nat /\ (index = 0 \/ index < Cardinality(Step))
  /\ server \in RuleSets \cup {NULL} /\ flow \in Flows \cup {NULL}
  /\ listed \in BOOLEAN /\ asked \subseteq Flows
  /\ fetches \subseteq Request
  /\ view \in View
  /\ edits \in 0..MaxEdits /\ failed \in BOOLEAN /\ steady \in BOOLEAN

\* The client, which evaluates the rules it was sent, and the server's evaluate
\* endpoint show the same steps and fields for the answers of the session, unless the
\* rule that decides is read apart.  It is when it depends on a nested field; when it
\* compares the answer with a list of the same content, or a boolean with a number;
\* or when nobody answered the field and either the client sees the empty text that is
\* its default and the rule compares with null or with the empty text, or the client
\* does not know the field (the server took its step out) and the rule compares with
\* null, which is what a rule compares with unless it says otherwise.
ReadApart(rule) ==
  LET compared == Compared(rule.operator, rule.value)
      answers == Effective(config, entered)
      answer == Answer(answers, rule.depends)
  IN  \/ rule.depends \in Nested
      \/ answer \in List \cap compared
      \/ \E w \in compared : {answer, w} \in Alike
      \/ /\ rule.depends \notin DOMAIN answers
         /\ \/ Default(config)[rule.depends] = Empty /\ {NULL, Empty} \cap compared # {}
            \/ Default(config)[rule.depends] = Absent /\ NULL \in compared

VisibilityAgrees ==
  server # NULL =>
    \A target \in Step \cup Path :
      \/ Shown(config, entered, server, target)
           <=> ServerShows(server.rules, server.overrides, Effective(config, entered), target)
      \/ /\ \E r \in ClientRules(server) : r.target = target
         /\ ReadApart(Deciding(ClientRules(server), target))

\* As long as no arrival and no answer changes the screens, every screen before
\* the current one holds what it requires: Next is the only way forward, and
\* going back and emptying a field does not get past it.
PathIntact ==
  steady => \A n \in 1..index : n \in DOMAIN screens /\ Complete(config, entered, screens[n])

\* The fetches of a session never race: one at most is awaited, it is for the
\* language that is selected, and there is one whenever the configuration is of
\* another language, unless the last one failed.
OneLiveFetch ==
  LET live == {x \in fetches : x.live}
      wanted == Wanted(config, entered, resolved)
  IN  live = IF wanted = NULL \/ failed THEN {} ELSE {[language |-> wanted, live |-> TRUE]}

\* A configuration is installed only for the language selected at that moment,
\* however many requests for other languages are still to be answered.
InstalledAsSelected ==
  [][config' # config => config' = Selected(config, entered)]_vars

\* A selected language gets its configuration, unless the selection changes, the
\* fetch fails, or the wizard has no screen left.
LanguageSettles ==
  \A l \in Language :
    Selected(config, entered) = l ~>
      (config = l \/ Selected(config, entered) # l \/ failed \/ ~Rendered)

\* Generate is answered: the screen it validates exists ("Clamp index when
\* screens shrink due to visibility changes").
GenerateHasScreen == OnScreens /\ AtLast => index < Len(screens)
=============================================================================
