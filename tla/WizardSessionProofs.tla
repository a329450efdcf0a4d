------------------------ MODULE WizardSessionProofs ------------------------
(***************************************************************************)
(* Proofs about a session of the wizard: its fetches, its screens and the  *)
(* rules it evaluates, for any languages, configurations, rules, flows and *)
(* answers, and any order in which requests are answered.                  *)
(***************************************************************************)
EXTENDS WizardSession, FiniteSetTheorems, TLAPS

Live(fs) == {x \in fs : x.live}

One(l) == IF l = NULL THEN {} ELSE {[language |-> l, live |-> TRUE]}

\* What is awaited, for the configuration, answers and resolved language given.
Awaited(c, e, r, fs) == Live(fs) = One(Wanted(c, e, r))

FetchRow(x) == x = [language |-> x.language, live |-> x.live] /\ x.live \in BOOLEAN

\* The inductive invariant.  A failed fetch is not repeated while its language is
\* selected, so that nothing is awaited then.
FetchInv ==
  /\ \A x \in fetches : FetchRow(x)
  /\ failed \in BOOLEAN
  /\ IF failed THEN Live(fetches) = {} ELSE Awaited(config, entered, resolved, fetches)

\* Giving up leaves nothing awaited, whatever was.
LEMMA GivenUpIsDead ==
  ASSUME NEW fs, \A x \in fs : FetchRow(x)
  PROVE  Live(GivenUp(fs)) = {} /\ \A x \in GivenUp(fs) : FetchRow(x) /\ ~x.live
<1>1. ASSUME NEW x, x = [language |-> x.language, live |-> x.live], NEW c
      PROVE  [x EXCEPT !.live = c] = [language |-> x.language, live |-> c]
  BY <1>1
<1>2. ASSUME NEW x \in fs
      PROVE  [x EXCEPT !.live = FALSE] = [language |-> x.language, live |-> FALSE]
  <2>1. x = [language |-> x.language, live |-> x.live]
    BY DEF FetchRow
  <2> QED
    BY <1>1, <2>1
<1>3. ASSUME NEW y \in GivenUp(fs) PROVE y.live = FALSE /\ FetchRow(y)
  <2>1. PICK x \in fs : y = [x EXCEPT !.live = FALSE]
    BY DEF GivenUp
  <2>2. y = [language |-> x.language, live |-> FALSE]
    BY <1>2, <2>1
  <2> QED
    BY <2>2 DEF FetchRow
<1> QED
  BY <1>3 DEF Live

\* After the effect one request is awaited, for the language that is wanted.
LEMMA FetchAwaits ==
  ASSUME NEW c, NEW e, NEW r, NEW fs, \A x \in fs : FetchRow(x)
  PROVE  /\ Awaited(c, e, r, Fetch(c, e, r, fs))
         /\ \A x \in Fetch(c, e, r, fs) : FetchRow(x)
<1>1. Fetch(c, e, r, fs) = GivenUp(fs) \cup One(Wanted(c, e, r))
  BY DEF Fetch, One
<1>2. \A x \in GivenUp(fs) : FetchRow(x) /\ ~x.live
  BY GivenUpIsDead
<1>3. ASSUME NEW x \in One(Wanted(c, e, r)) PROVE FetchRow(x) /\ x.live
  <2>1. x = [language |-> Wanted(c, e, r), live |-> TRUE]
    BY DEF One
  <2> QED
    BY <2>1 DEF FetchRow
<1>4. Live(Fetch(c, e, r, fs)) = One(Wanted(c, e, r))
  <2>1. \A x \in Fetch(c, e, r, fs) : x.live <=> x \in One(Wanted(c, e, r))
    BY <1>1, <1>2, <1>3
  <2>2. One(Wanted(c, e, r)) \subseteq Fetch(c, e, r, fs)
    BY <1>1
  <2> QED
    BY <2>1, <2>2, Zenon DEF Live
<1> QED
  BY <1>1, <1>2, <1>3, <1>4 DEF Awaited

\* What is awaited is the language selected, and no failure stands.
LEMMA LiveIsSelected ==
  ASSUME FetchInv, NEW x \in fetches, x.live
  PROVE  /\ ~failed /\ x.language = Selected(config, entered)
         /\ Live(fetches) = {x}
<1>1. x \in Live(fetches) /\ ~failed
  BY DEF FetchInv, Live
<1>2. Live(fetches) = One(Wanted(config, entered, resolved))
  BY <1>1 DEF FetchInv, Awaited
<1>3. /\ Wanted(config, entered, resolved) # NULL
      /\ x = [language |-> Wanted(config, entered, resolved), live |-> TRUE]
  BY <1>1, <1>2 DEF One
<1>4. Wanted(config, entered, resolved) = Selected(config, entered)
  BY <1>3 DEF Wanted
<1> QED
  BY <1>1, <1>2, <1>3, <1>4 DEF One

LEMMA InitFetch == Init => FetchInv
<1> SUFFICES ASSUME Init PROVE FetchInv
  OBVIOUS
<1>1. Awaited(NULL, entered, NULL, fetches) /\ \A x \in fetches : FetchRow(x)
  BY FetchAwaits DEF Init
<1> QED
  BY <1>1 DEF Init, FetchInv

\* Steps that have the effect run on what they leave behind.
LEMMA RefetchKeeps ==
  ASSUME NEW fs, \A x \in fs : FetchRow(x), failed' = FALSE,
         fetches' = Fetch(config', entered', resolved', fs)
  PROVE  FetchInv'
<1>1. /\ Awaited(config', entered', resolved', fetches')
      /\ \A x \in fetches' : FetchRow(x)
  BY FetchAwaits
<1> QED
  BY <1>1 DEF FetchInv

LEMMA SameFetchesKeep ==
  ASSUME FetchInv, UNCHANGED <<config, entered, resolved, fetches, failed>>
  PROVE  FetchInv'
BY DEF FetchInv

\* The answer to a request that was given up is dropped.
LEMMA DeadAnswerKeeps ==
  ASSUME FetchInv, NEW x \in fetches, ~x.live, fetches' = fetches \ {x},
         UNCHANGED <<config, entered, resolved, failed>>
  PROVE  FetchInv'
<1>1. Live(fetches') = Live(fetches)
  BY DEF Live
<1> QED
  BY <1>1 DEF FetchInv, Awaited

LEMMA ConfigArrivesKeeps ==
  ASSUME FetchInv, NEW x \in Request, ConfigArrives(x)
  PROVE  FetchInv' /\ (config' # config => config' = Selected(config, entered))
<1>1. x \in fetches /\ Install(x) /\ entered' = entered
  BY DEF ConfigArrives
<1>2. CASE x.live
  <2>1. /\ config' = x.language /\ resolved' = x.language /\ failed' = FALSE
        /\ fetches' = Fetch(config', entered', resolved', fetches \ {x})
    BY <1>1, <1>2 DEF Install
  <2>2. FetchInv'
    BY <2>1, RefetchKeeps DEF FetchInv
  <2>3. x.language = Selected(config, entered)
    BY <1>1, <1>2, LiveIsSelected
  <2> QED
    BY <2>1, <2>2, <2>3
<1>3. CASE ~x.live
  <2>1. fetches' = fetches \ {x} /\ UNCHANGED <<config, entered, resolved, failed>>
    BY <1>1, <1>3 DEF Install
  <2> QED
    BY <1>1, <1>3, <2>1, DeadAnswerKeeps
<1> QED
  BY <1>2, <1>3

\* A failure forgets what was resolved.  Only when nothing was does the effect stay
\* quiet, and then the failure stands.
LEMMA ConfigFailsKeeps ==
  ASSUME FetchInv, NEW x \in Request, ConfigFails(x)
  PROVE  FetchInv' /\ config' = config
<1>1. /\ x \in fetches /\ config' = config /\ entered' = entered
      /\ resolved' = IF x.live THEN NULL ELSE resolved
      /\ fetches' = IF resolved' = resolved THEN fetches \ {x}
                    ELSE Fetch(config, entered, NULL, fetches \ {x})
      /\ failed' = (failed \/ (x.live /\ resolved = NULL))
      /\ failed \in BOOLEAN /\ \A y \in fetches : FetchRow(y)
  BY DEF ConfigFails, choices, FetchInv
<1>2. CASE ~x.live
  <2>1. fetches' = fetches \ {x} /\ failed' = failed /\ resolved' = resolved
    BY <1>1, <1>2
  <2> QED
    BY <1>1, <1>2, <2>1, DeadAnswerKeeps
<1>3. CASE x.live /\ resolved = NULL
  <2>1. fetches' = fetches \ {x} /\ failed' = TRUE
    BY <1>1, <1>3
  <2>2. Live(fetches) = {x}
    BY <1>1, <1>3, LiveIsSelected
  <2>3. Live(fetches') = {}
    BY <2>1, <2>2 DEF Live
  <2> QED
    BY <1>1, <2>1, <2>3 DEF FetchInv
<1>4. CASE x.live /\ resolved # NULL
  <2>1. ~failed
    BY <1>1, <1>4, LiveIsSelected
  <2>2. /\ failed' = FALSE /\ resolved' = NULL
        /\ fetches' = Fetch(config', entered', resolved', fetches \ {x})
    BY <1>1, <1>4, <2>1
  <2> QED
    BY <1>1, <2>2, RefetchKeeps
<1> QED
  BY <1>2, <1>3, <1>4

LEMMA NextFetch ==
  FetchInv /\ [Next]_vars
    => FetchInv' /\ (config' # config => config' = Selected(config, entered))
<1> DEFINE Goal == FetchInv' /\ (config' # config => config' = Selected(config, entered))
<1> SUFFICES ASSUME FetchInv, [Next]_vars PROVE Goal
  OBVIOUS
<1>1. ASSUME NEW f \in Field, NEW v \in Value, SetField(f, v) PROVE Goal
  <2>1. /\ fetches' = Fetch(config', entered', resolved', fetches)
        /\ failed' = FALSE /\ config' = config
    BY <1>1 DEF SetField
  <2> QED
    BY <2>1, RefetchKeeps DEF FetchInv
<1>2. CASE StartOver
  <2>1. /\ fetches' = Fetch(config', entered', resolved', fetches)
        /\ failed' = FALSE /\ config' = config
    BY <1>2 DEF StartOver
  <2> QED
    BY <2>1, RefetchKeeps DEF FetchInv
<1>3. CASE \/ NextScreen \/ PrevScreen \/ Submit \/ PreviewArrives \/ BackToWizard
           \/ Download \/ DownloadArrives \/ FlowsArrive
  <2>1. UNCHANGED <<config, entered, resolved, fetches, failed>>
    BY <1>3 DEF NextScreen, PrevScreen, Submit, PreviewArrives, BackToWizard, Download,
                DownloadArrives, FlowsArrive, choices, network
  <2> QED
    BY <2>1, SameFetchesKeep
<1>4. ASSUME NEW f, ChooseFlow(f) \/ ActivateFlow(f) \/ FlowArrives(f) PROVE Goal
  <2>1. UNCHANGED <<config, entered, resolved, fetches, failed>>
    BY <1>4 DEF ChooseFlow, ActivateFlow, FlowArrives, network
  <2> QED
    BY <2>1, SameFetchesKeep
<1>5. ASSUME NEW s, RulesArrive(s) PROVE Goal
  <2>1. UNCHANGED <<config, entered, resolved, fetches, failed>>
    BY <1>5 DEF RulesArrive, network
  <2> QED
    BY <2>1, SameFetchesKeep
<1>6. CASE UNCHANGED vars
  <2>1. UNCHANGED <<config, entered, resolved, fetches, failed>>
    BY <1>6 DEF vars, choices, network
  <2> QED
    BY <2>1, SameFetchesKeep
<1> HIDE DEF Goal
<1>7. ASSUME NEW x \in Request, ConfigEnds(x) PROVE Goal
  BY <1>7, ConfigArrivesKeeps, ConfigFailsKeeps DEF ConfigEnds, Goal
<1> QED
  BY <1>1, <1>2, <1>3, <1>4, <1>5, <1>6, <1>7 DEF Next

\* Whatever is answered, entered and chosen in between, one fetch at most is awaited,
\* and it is for the language that is selected.
THEOREM NeverRaces == Spec => []OneLiveFetch
<1>1. FetchInv => OneLiveFetch
  BY DEF FetchInv, OneLiveFetch, Live, Awaited, One
<1> QED
  BY InitFetch, NextFetch, <1>1, PTL DEF Spec

\* Whatever was asked for before, the configuration installed is that of the language
\* selected at that moment.
THEOREM InstallsSelected == Spec => InstalledAsSelected
<1>1. FetchInv /\ [Next]_vars
        => [config' # config => config' = Selected(config, entered)]_vars
  BY NextFetch
<1> QED
  BY InitFetch, NextFetch, <1>1, PTL DEF Spec, InstalledAsSelected

-----------------------------------------------------------------------------
(* Sets in order.                                                          *)

\* Numbers have a least one.
LEMMA Least ==
  ASSUME NEW T, T \subseteq Nat, T # {}
  PROVE  \E n \in T : \A m \in T : n <= m
<1> DEFINE R == {p \in Nat \X Nat : p[1] < p[2]}
<1>1. PICK n \in T : \A m \in T : ~(<<m, n>> \in R)
  <2>1. IsWellFoundedOn(R, Nat)
    BY NatLessThanWellFounded DEF OpToRel
  <2> HIDE DEF R
  <2> QED
    BY <2>1, WFMin
<1>2. ASSUME NEW m \in T PROVE n <= m
  <2>1. <<m, n>> \in Nat \X Nat /\ <<m, n>>[1] = m /\ <<m, n>>[2] = n
    BY T \subseteq Nat
  <2>2. ~(m < n)
    BY <1>1, <2>1
  <2> QED
    BY <2>2, T \subseteq Nat
<1> QED
  BY <1>2

\* A set that is numbered can be listed by its numbers.
LEMMA Sorted ==
  ASSUME NEW S, NEW k \in Nat, NEW r \in [S -> 1..k],
         \A x, y \in S : r[x] = r[y] => x = y
  PROVE  /\ IsFiniteSet(S)
         /\ \E q \in [1..Cardinality(S) -> S] :
              \A m, n \in DOMAIN q : m < n => r[q[m]] < r[q[n]]
<1> DEFINE Upto(i) == {x \in S : r[x] <= i}
           Size == Cardinality(S)
<1>1. IsFiniteSet(S) /\ Size \in Nat
  <2>1. r \in Injection(S, 1..k)
    BY DEF Injection, IsInjective
  <2>2. IsFiniteSet(1..k)
    BY FS_Interval
  <2> QED
    BY <2>1, <2>2, FS_Injection, FS_CardinalityType
<1>2. ASSUME NEW i \in Nat PROVE IsFiniteSet(Upto(i)) /\ Cardinality(Upto(i)) \in Nat
  BY <1>1, FS_Subset, FS_CardinalityType
<1>3. Upto(0) = {} /\ Cardinality(Upto(0)) = 0
  <2>1. Upto(0) = {}
    OBVIOUS
  <2> QED
    BY <2>1, FS_EmptySet
<1>4. Upto(k) = S
  OBVIOUS
\* One number more is one element more at most.
<1>5. ASSUME NEW i \in Nat
      PROVE  Cardinality(Upto(i + 1))
               \in {Cardinality(Upto(i)), Cardinality(Upto(i)) + 1}
  <2>1. CASE \E x \in S : r[x] = i + 1
    <3>1. PICK x \in S : r[x] = i + 1
      BY <2>1
    <3>2. Upto(i + 1) = Upto(i) \cup {x}
      BY <3>1
    <3> QED
      BY <1>2, <3>2, FS_AddElement
  <2>2. CASE ~\E x \in S : r[x] = i + 1
    <3>1. Upto(i + 1) = Upto(i)
      BY <2>2
    <3> QED
      BY <3>1
  <2> QED
    BY <2>1, <2>2
<1> DEFINE Reaching(n) == {i \in 0..k : n <= Cardinality(Upto(i))}
<1> HIDE DEF Upto
<1>6. ASSUME NEW n \in 1..Size
      PROVE  \E i \in 1..k : /\ Cardinality(Upto(i)) = n
                             /\ \A j \in Reaching(n) : i <= j
                             /\ \E x \in S : r[x] = i
  <2>1. k \in Reaching(n)
    BY <1>1, <1>4
  <2>2. PICK i \in Reaching(n) : \A j \in Reaching(n) : i <= j
    <3>1. Reaching(n) \subseteq Nat
      OBVIOUS
    <3> HIDE DEF Reaching
    <3> QED
      BY <2>1, <3>1, Least
  <2>3. i # 0
    BY <1>3
  <2>4. i - 1 \in 0..k /\ i - 1 \notin Reaching(n) /\ i - 1 \in Nat /\ i = (i - 1) + 1
    BY <2>2, <2>3
  <2>5. ~(n <= Cardinality(Upto(i - 1)))
    BY <2>4
  <2>6. Cardinality(Upto(i)) = n /\ Cardinality(Upto(i)) = Cardinality(Upto(i - 1)) + 1
    BY <1>2, <1>5, <2>2, <2>4, <2>5
  <2>7. ASSUME \A x \in S : r[x] # i PROVE FALSE
    <3>1. Upto(i) = Upto(i - 1)
      BY <2>4, <2>7 DEF Upto
    <3> QED
      BY <1>2, <2>4, <2>6, <3>1
  <2> QED
    BY <2>2, <2>4, <2>6, <2>7
<1> DEFINE At(n) == CHOOSE i \in 1..k : /\ Cardinality(Upto(i)) = n
                                        /\ \A j \in Reaching(n) : i <= j
                                        /\ \E x \in S : r[x] = i
           q == [n \in 1..Size |-> CHOOSE x \in S : r[x] = At(n)]
<1>7. ASSUME NEW n \in 1..Size
      PROVE  /\ At(n) \in 1..k /\ Cardinality(Upto(At(n))) = n
             /\ \A j \in Reaching(n) : At(n) <= j
             /\ \E x \in S : r[x] = At(n)
  BY <1>6
<1> HIDE DEF At
<1>8. ASSUME NEW n \in 1..Size PROVE q[n] \in S /\ r[q[n]] = At(n)
  BY <1>7
<1>9. ASSUME NEW m \in 1..Size, NEW n \in 1..Size, m < n PROVE At(m) < At(n)
  <2>1. At(n) \in Reaching(m)
    BY <1>7, <1>9
  <2>2. At(m) <= At(n)
    BY <1>7, <2>1
  <2>3. At(m) # At(n)
    BY <1>7, <1>9
  <2> QED
    BY <1>7, <2>2, <2>3
<1>10. q \in [1..Size -> S] /\ \A m, n \in DOMAIN q : m < n => r[q[m]] < r[q[n]]
  BY <1>8, <1>9
<1> QED
  BY <1>1, <1>10

-----------------------------------------------------------------------------
(* The screens.                                                            *)

\* A configuration as the theorems use it.
LEMMA ConfigRows ==
  ASSUME NEW c \in Language \cup {NULL}
  PROVE  /\ Configs[c] \in Seq(StepDefinition) /\ Distinct(Configs[c])
         /\ \A s \in Range(Configs[c]) : s \in StepDefinition /\ Range(s.fields) \subseteq FieldsOf(c)
         /\ FieldsOf(c) \subseteq FieldDefinition
         /\ \A x, y \in FieldsOf(c) : x.field = y.field => x = y
         /\ \A x \in FieldsOf(c) :
              x.field = LanguageField => x.default \in Language \cup {Empty, NULL}
<1> DEFINE steps == Configs[c]
<1>1. /\ steps \in Seq(StepDefinition) /\ Distinct(steps)
      /\ \A m, n \in DOMAIN steps :
           \A i \in DOMAIN steps[m].fields, j \in DOMAIN steps[n].fields :
             /\ steps[m].fields[i].field = steps[n].fields[j].field => m = n /\ i = j
             /\ steps[m].fields[i].field = LanguageField
                  => steps[m].fields[i].default \in Language \cup {Empty, NULL}
  BY ConfigAssumption
<1>2. ASSUME NEW n \in DOMAIN steps
      PROVE  steps[n] \in StepDefinition /\ steps[n].fields \in Seq(FieldDefinition)
  <2>1. steps[n] \in StepDefinition
    BY <1>1
  <2> QED
    BY <2>1 DEF StepDefinition
<1>3. ASSUME NEW x \in FieldsOf(c)
      PROVE  \E n \in DOMAIN steps : \E i \in DOMAIN steps[n].fields : x = steps[n].fields[i]
  BY DEF FieldsOf, Range
<1>4. FieldsOf(c) \subseteq FieldDefinition
  BY <1>2, <1>3
<1>5. ASSUME NEW x \in FieldsOf(c), NEW y \in FieldsOf(c), x.field = y.field PROVE x = y
  <2>1. PICK m \in DOMAIN steps : \E i \in DOMAIN steps[m].fields : x = steps[m].fields[i]
    BY <1>3
  <2>2. PICK i \in DOMAIN steps[m].fields : x = steps[m].fields[i]
    BY <2>1
  <2>3. PICK n \in DOMAIN steps : \E j \in DOMAIN steps[n].fields : y = steps[n].fields[j]
    BY <1>3
  <2>4. PICK j \in DOMAIN steps[n].fields : y = steps[n].fields[j]
    BY <2>3
  <2>5. m = n /\ i = j
    BY <1>1, <1>5, <2>2, <2>4
  <2> QED
    BY <2>2, <2>4, <2>5
<1>6. ASSUME NEW x \in FieldsOf(c), x.field = LanguageField
      PROVE  x.default \in Language \cup {Empty, NULL}
  BY <1>1, <1>3, <1>6
<1>7. ASSUME NEW s \in Range(steps)
      PROVE  s \in StepDefinition /\ Range(s.fields) \subseteq FieldsOf(c)
  BY <1>2 DEF FieldsOf, Range
<1> QED
  BY <1>1, <1>4, <1>5, <1>6, <1>7

\* What a field holds depends on the answer entered for it and on its own default only.
LEMMA AnswerOfField ==
  ASSUME NEW c \in Language \cup {NULL}, NEW e, NEW d \in FieldsOf(c)
  PROVE  /\ Default(c)[d.field] = d.default
         /\ Answer(Effective(c, e), d.field) =
              IF d.field \in DOMAIN e THEN e[d.field]
              ELSE IF d.default \in {NULL, Empty} THEN NULL ELSE d.default
<1>1. d \in FieldDefinition /\ \A x \in FieldsOf(c) : x.field = d.field => x = d
  BY ConfigRows
<1>2. d.field \in Field
  BY <1>1 DEF FieldDefinition
<1>3. (CHOOSE x \in FieldsOf(c) : x.field = d.field) = d
  BY <1>1
<1>4. Default(c)[d.field] = d.default
  BY <1>2, <1>3 DEF Default
<1> DEFINE filled == {x.field : x \in {y \in FieldsOf(c) : y.default \notin {NULL, Empty}}}
<1>5. d.field \in filled <=> d.default \notin {NULL, Empty}
  BY <1>1
<1>6. Effective(c, e) = [f \in DOMAIN e \cup filled |->
                           IF f \in DOMAIN e THEN e[f] ELSE Default(c)[f]]
  BY DEF Effective
<1> HIDE DEF filled
<1> QED
  BY <1>4, <1>5, <1>6 DEF Answer

\* A step that is shown has its place in the order, and no other step has it.
LEMMA PlaceOfStep ==
  ASSUME NEW c \in Language \cup {NULL}, NEW f \in Flows \cup {NULL}, NEW e, NEW s
  PROVE  /\ Len(Order(c, f)) \in Nat
         /\ \A d \in ShownSteps(c, e, s, f) :
              Place(c, f, d.step) \in 1..Len(Order(c, f))
         /\ \A x, y \in ShownSteps(c, e, s, f) :
              Place(c, f, x.step) = Place(c, f, y.step) => x = y
<1>1. /\ Configs[c] \in Seq(StepDefinition) /\ Distinct(Configs[c])
      /\ f \notin {NULL, <<>>} => f \in Seq(FlowStep)
  BY ConfigRows, SessionAssumption
<1>2. Len(Order(c, f)) \in Nat /\ DOMAIN Order(c, f) = 1..Len(Order(c, f))
  BY <1>1 DEF Order
<1>3. ASSUME NEW d \in ShownSteps(c, e, s, f)
      PROVE  /\ Place(c, f, d.step) \in DOMAIN Order(c, f)
             /\ Order(c, f)[Place(c, f, d.step)].step = d.step
  <2>1. \E n \in DOMAIN Order(c, f) : Order(c, f)[n].step = d.step
    BY DEF ShownSteps, Enabled, Order, Range
  <2> QED
    BY <2>1 DEF Place
<1>4. ASSUME NEW x \in ShownSteps(c, e, s, f), NEW y \in ShownSteps(c, e, s, f),
             x.step = y.step
      PROVE  x = y
  BY <1>1, <1>4 DEF ShownSteps, Range, Distinct
<1> QED
  BY <1>2, <1>3, <1>4

\* buildScreens: the shown steps, each of them once, in the order that the flow, or
\* else the configuration, gives them.
LEMMA ScreensInOrder ==
  ASSUME NEW c \in Language \cup {NULL}, NEW f \in Flows \cup {NULL}, NEW e, NEW s
  PROVE  LET steps == ShownSteps(c, e, s, f)
             q == ScreensOf(c, e, s, f)
         IN  /\ IsFiniteSet(steps)
             /\ q \in [1..Cardinality(steps) -> steps]
             /\ \A m, n \in DOMAIN q :
                  m < n => Place(c, f, q[m].step) < Place(c, f, q[n].step)
<1> DEFINE steps == ShownSteps(c, e, s, f)
           k == Len(Order(c, f))
           r == [d \in steps |-> Place(c, f, d.step)]
<1>1. /\ k \in Nat /\ r \in [steps -> 1..k]
      /\ \A x, y \in steps : r[x] = r[y] => x = y
  BY PlaceOfStep
<1>2. /\ IsFiniteSet(steps)
      /\ \E q \in [1..Cardinality(steps) -> steps] :
           \A m, n \in DOMAIN q : m < n => r[q[m]] < r[q[n]]
  <2> HIDE DEF steps, k, r
  <2> QED
    BY <1>1, Sorted
<1>3. \E q \in [1..Cardinality(steps) -> steps] :
        \A m, n \in DOMAIN q : m < n => Place(c, f, q[m].step) < Place(c, f, q[n].step)
  <2>1. PICK q \in [1..Cardinality(steps) -> steps] :
          \A m, n \in DOMAIN q : m < n => r[q[m]] < r[q[n]]
    BY <1>2
  <2>2. \A n \in DOMAIN q : r[q[n]] = Place(c, f, q[n].step)
    <3> HIDE DEF steps
    <3> QED
      BY <2>1
  <2> QED
    BY <2>1, <2>2
<1> QED
  BY <1>2, <1>3 DEF ScreensOf

\* A screen is a step of the configuration, and there are no more than steps.
LEMMA ScreenRows ==
  ASSUME NEW c \in Language \cup {NULL}, NEW f \in Flows \cup {NULL}, NEW e, NEW s
  PROVE  LET q == ScreensOf(c, e, s, f)
         IN  /\ q \in Seq(Range(Configs[c]))
             /\ Len(q) <= Cardinality(Step)
<1> DEFINE steps == ShownSteps(c, e, s, f)
           q == ScreensOf(c, e, s, f)
           r == [d \in steps |-> d.step]
<1>1. IsFiniteSet(steps) /\ q \in [1..Cardinality(steps) -> steps]
  BY ScreensInOrder
<1>2. Cardinality(steps) \in Nat
  BY <1>1, FS_CardinalityType
<1>3. steps \subseteq Range(Configs[c])
  BY DEF ShownSteps
<1>4. /\ \A d \in steps : d.step \in Step
      /\ \A x, y \in steps : x.step = y.step => x = y
  <2> HIDE DEF steps
  <2>1. ASSUME NEW d \in steps
        PROVE  d \in StepDefinition /\ \E n \in DOMAIN Configs[c] : d = Configs[c][n]
    <3>1. d \in Range(Configs[c])
      BY <1>3
    <3> QED
      BY <3>1, ConfigRows DEF Range
  <2>2. \A d \in steps : d.step \in Step
    BY <2>1 DEF StepDefinition
  <2>3. Distinct(Configs[c])
    BY ConfigRows
  <2> QED
    BY <2>1, <2>2, <2>3 DEF Distinct
<1>5. r \in Injection(steps, Step)
  <2> HIDE DEF steps
  <2> QED
    BY <1>4 DEF Injection, IsInjective
<1>6. Cardinality(steps) <= Cardinality(Step)
  BY <1>5, FS_Injection, SessionAssumption
<1>7. q \in Seq(Range(Configs[c])) /\ Len(q) = Cardinality(steps)
  <2> HIDE DEF steps, q
  <2>1. q \in [1..Cardinality(steps) -> Range(Configs[c])]
    BY <1>1, <1>3
  <2> QED
    BY <1>2, <2>1
<1> QED
  BY <1>6, <1>7

-----------------------------------------------------------------------------
(* Types.                                                                  *)

AnswersOK(e) == DOMAIN e \subseteq Field /\ \A f \in DOMAIN e : e[f] \in Choices[f]

ScreensOK == screens = ScreensOf(config, entered, server, flow)

SessionInv == SessionTypeOK /\ ScreensOK

\* Only languages are asked for.
LEMMA FetchesAreRequests ==
  ASSUME NEW c \in Language \cup {NULL}, NEW e, AnswersOK(e), NEW r, NEW fs,
         fs \subseteq Request
  PROVE  Fetch(c, e, r, fs) \subseteq Request
<1>1. Selected(c, e) \in Language \cup {Empty, NULL}
  <2>1. CASE \E d \in FieldsOf(c) : d.field = LanguageField
    <3>1. PICK d \in FieldsOf(c) : d.field = LanguageField
      BY <2>1
    <3>2. d.default \in Language \cup {Empty, NULL}
      BY <3>1, ConfigRows
    <3>3. Selected(c, e) = IF LanguageField \in DOMAIN e THEN e[LanguageField]
                           ELSE IF d.default \in {NULL, Empty} THEN NULL ELSE d.default
      BY <2>1, <3>1, AnswerOfField DEF Selected
    <3>4. LanguageField \in DOMAIN e => e[LanguageField] \in Language \cup {Empty}
      BY SessionAssumption DEF AnswersOK
    <3> QED
      BY <3>2, <3>3, <3>4
  <2>2. CASE ~\E d \in FieldsOf(c) : d.field = LanguageField
    BY <2>2 DEF Selected
  <2> QED
    BY <2>1, <2>2
<1>2. Wanted(c, e, r) # NULL => Wanted(c, e, r) \in Language
  BY <1>1 DEF Wanted
<1>3. GivenUp(fs) \subseteq Request
  <2>1. ASSUME NEW x \in Request PROVE [x EXCEPT !.live = FALSE] \in Request
    BY DEF Request
  <2> QED
    BY <2>1 DEF GivenUp
<1> DEFINE l == Wanted(c, e, r)
<1>4. l # NULL => {[language |-> l, live |-> TRUE]} \subseteq Request
  BY <1>2 DEF Request
<1>5. Fetch(c, e, r, fs)
        = GivenUp(fs) \cup (IF l = NULL THEN {} ELSE {[language |-> l, live |-> TRUE]})
  BY DEF Fetch
<1> HIDE DEF l
<1> QED
  BY <1>3, <1>4, <1>5

LEMMA ScreenTypes ==
  ASSUME SessionInv
  PROVE  /\ config \in Language \cup {NULL}
         /\ screens \in Seq(Range(Configs[config])) /\ Len(screens) \in Nat
         /\ Cardinality(Step) \in Nat /\ Len(screens) <= Cardinality(Step)
BY ScreenRows, FS_CardinalityType, SessionAssumption DEF SessionInv, SessionTypeOK, ScreensOK

LEMMA InitSession == Init => SessionInv
<1> SUFFICES ASSUME Init PROVE SessionInv
  OBVIOUS
<1>1. AnswersOK(entered)
  BY DEF Init, AnswersOK
<1>2. fetches \subseteq Request
  BY <1>1, FetchesAreRequests DEF Init
<1>3. view \in View
  BY DEF Init, View
<1>4. edits \in 0..MaxEdits /\ index \in Nat /\ index = 0
  BY SessionAssumption DEF Init
<1>5. SessionTypeOK
  BY <1>1, <1>2, <1>3, <1>4 DEF Init, SessionTypeOK, AnswersOK
<1> QED
  BY <1>5 DEF Init, SessionInv, ScreensOK

\* The stored index stays below the number of screens it is moved along.
LEMMA MovesOn ==
  ASSUME SessionInv, MoveOn
  PROVE  index' \in Nat /\ index' < Len(screens) /\ index' < Cardinality(Step)
<1>1. index \in Nat /\ Len(screens) \in Nat /\ Len(screens) <= Cardinality(Step)
      /\ Cardinality(Step) \in Nat
  BY ScreenTypes DEF SessionInv, SessionTypeOK
<1> QED
  BY <1>1 DEF MoveOn

LEMMA NextSession == SessionInv /\ [Next]_vars => SessionInv'
<1> SUFFICES ASSUME SessionInv, [Next]_vars PROVE SessionInv'
  OBVIOUS
<1> USE DEF SessionInv
<1>1. ASSUME NEW f \in Field, NEW v \in Value, SetField(f, v) PROVE SessionInv'
  <2>1. AnswersOK(entered') /\ fetches' \subseteq Request
    <3>1. AnswersOK(entered')
      BY <1>1 DEF SetField, AnswersOK, SessionTypeOK
    <3> QED
      BY <1>1, <3>1, FetchesAreRequests DEF SetField, SessionTypeOK
  <2>2. edits' \in 0..MaxEdits
    BY <1>1, SessionAssumption DEF SetField, SessionTypeOK
  <2>3. SessionTypeOK'
    BY <1>1, <2>1, <2>2 DEF SetField, Rederived, SessionTypeOK, AnswersOK
  <2> QED
    BY <1>1, <2>3 DEF SetField, Rederived, ScreensOK
<1>2. CASE NextScreen
  <2>1. SessionTypeOK'
    BY <1>2, MovesOn DEF NextScreen, choices, network, SessionTypeOK
  <2> QED
    BY <1>2, <2>1 DEF NextScreen, choices, ScreensOK
<1>3. CASE PrevScreen
  <2>1. index' \in Nat /\ (index' = 0 \/ index' < Cardinality(Step))
    BY <1>3, ScreenTypes DEF PrevScreen, Clamped, SessionTypeOK
  <2>2. SessionTypeOK'
    BY <1>3, <2>1 DEF PrevScreen, choices, network, SessionTypeOK
  <2> QED
    BY <1>3, <2>2 DEF PrevScreen, choices, ScreensOK
<1>4. CASE Submit
  <2>1. SessionTypeOK'
    BY <1>4, MovesOn DEF Submit, choices, network, SessionTypeOK, View
  <2> QED
    BY <1>4, <2>1 DEF Submit, choices, ScreensOK
<1>5. CASE PreviewArrives \/ BackToWizard \/ Download \/ DownloadArrives
  <2>1. view' \in View
    BY <1>5 DEF PreviewArrives, BackToWizard, Download, DownloadArrives, SessionTypeOK, View
  <2>2. SessionTypeOK'
    BY <1>5, <2>1 DEF PreviewArrives, BackToWizard, Download, DownloadArrives, choices,
                      network, SessionTypeOK
  <2> QED
    BY <1>5, <2>2 DEF PreviewArrives, BackToWizard, Download, DownloadArrives, choices,
                      ScreensOK
<1>6. CASE StartOver
  <2>1. AnswersOK(entered') /\ fetches' \subseteq Request
    <3>1. AnswersOK(entered')
      BY <1>6 DEF StartOver, AnswersOK
    <3> QED
      BY <1>6, <3>1, FetchesAreRequests DEF StartOver, SessionTypeOK
  <2>2. edits' \in 0..MaxEdits
    BY <1>6, SessionAssumption DEF StartOver, SessionTypeOK
  <2>3. SessionTypeOK'
    BY <1>6, <2>1, <2>2 DEF StartOver, Rederived, SessionTypeOK, AnswersOK, View
  <2> QED
    BY <1>6, <2>3 DEF StartOver, Rederived, ScreensOK
<1>7. ASSUME NEW f \in Flows \cup {NULL}, ChooseFlow(f) \/ ActivateFlow(f)
      PROVE  SessionInv'
  <2>1. SessionTypeOK'
    BY <1>7 DEF ChooseFlow, ActivateFlow, Rederived, network, SessionTypeOK
  <2> QED
    BY <1>7, <2>1 DEF ChooseFlow, ActivateFlow, Rederived, ScreensOK
<1>8. ASSUME NEW s \in RuleSets, RulesArrive(s) PROVE SessionInv'
  <2>1. SessionTypeOK'
    BY <1>8 DEF RulesArrive, Rederived, network, SessionTypeOK
  <2> QED
    BY <1>8, <2>1 DEF RulesArrive, Rederived, ScreensOK
<1>9. CASE FlowsArrive
  <2>1. SessionTypeOK'
    BY <1>9, SessionAssumption DEF FlowsArrive, choices, SessionTypeOK
  <2> QED
    BY <1>9, <2>1 DEF FlowsArrive, choices, ScreensOK
<1>10. ASSUME NEW f \in Flows, FlowArrives(f) PROVE SessionInv'
  <2>1. SessionTypeOK'
    BY <1>10 DEF FlowArrives, Rederived, SessionTypeOK
  <2> QED
    BY <1>10, <2>1 DEF FlowArrives, Rederived, ScreensOK
<1>11. ASSUME NEW x \in Request, ConfigArrives(x) PROVE SessionInv'
  <2>1. /\ config' \in Language \cup {NULL} /\ resolved' \in {NULL, config'}
        /\ failed' \in BOOLEAN /\ fetches' \subseteq Request
    <3>1. CASE x.live
      <4>1. /\ config' = x.language /\ resolved' = x.language /\ failed' = FALSE
            /\ fetches' = Fetch(x.language, entered, x.language, fetches \ {x})
        BY <1>11, <3>1 DEF ConfigArrives, Install
      <4>2. x.language \in Language
        BY DEF Request
      <4>3. fetches' \subseteq Request
        BY <4>1, <4>2, FetchesAreRequests DEF SessionTypeOK, AnswersOK
      <4> QED
        BY <4>1, <4>2, <4>3
    <3>2. CASE ~x.live
      BY <1>11, <3>2 DEF ConfigArrives, Install, SessionTypeOK
    <3> QED
      BY <3>1, <3>2
  <2>2. SessionTypeOK'
    BY <1>11, <2>1 DEF ConfigArrives, Rederived, SessionTypeOK
  <2> QED
    BY <1>11, <2>2 DEF ConfigArrives, Rederived, ScreensOK
<1>12. ASSUME NEW x \in Request, ConfigFails(x) PROVE SessionInv'
  <2>1. resolved' \in {NULL, config} /\ failed' \in BOOLEAN
    BY <1>12 DEF ConfigFails, SessionTypeOK
  <2>2. fetches' \subseteq Request
    BY <1>12, FetchesAreRequests DEF ConfigFails, SessionTypeOK, AnswersOK
  <2>3. SessionTypeOK'
    BY <1>12, <2>1, <2>2 DEF ConfigFails, choices, SessionTypeOK
  <2> QED
    BY <1>12, <2>3 DEF ConfigFails, choices, ScreensOK
<1>13. CASE UNCHANGED vars
  BY <1>13 DEF vars, choices, network, SessionTypeOK, ScreensOK
<1> QED
  BY <1>1, <1>2, <1>3, <1>4, <1>5, <1>6, <1>7, <1>8, <1>9, <1>10, <1>11, <1>12, <1>13
     DEF Next, ConfigEnds

\* A session's state has its types, for any steps, languages and flows; in particular
\* the index that is stored stays below the number of steps there are.
THEOREM SessionTypes == Spec => []SessionTypeOK
<1>1. SessionInv => SessionTypeOK
  BY DEF SessionInv
<1> QED
  BY InitSession, NextSession, <1>1, PTL DEF Spec

-----------------------------------------------------------------------------
(* The way to the current screen.                                          *)

\* While the screens stay as they are, the stored index is that of one of them.
PathInv ==
  /\ SessionInv
  /\ steady => index = 0 \/ index < Len(screens)
  /\ PathIntact

\* A screen remains complete in another configuration that has it, defaults and all,
\* as long as its fields hold what they held.
LEMMA StaysComplete ==
  ASSUME NEW c \in Language \cup {NULL}, NEW c2 \in Language \cup {NULL}, NEW e, NEW e2,
         NEW screen, screen \in Range(Configs[c]), screen \in Range(Configs[c2]),
         \A d \in Range(screen.fields) :
           /\ d.field \in DOMAIN e <=> d.field \in DOMAIN e2
           /\ d.field \in DOMAIN e => e[d.field] = e2[d.field],
         Complete(c, e, screen)
  PROVE  Complete(c2, e2, screen)
<1> SUFFICES ASSUME NEW d \in Range(screen.fields) PROVE Filled(c2, e2, d)
  BY DEF Complete
<1>1. d \in FieldsOf(c) /\ d \in FieldsOf(c2)
  BY ConfigRows
<1>2. Answer(Effective(c, e), d.field) = Answer(Effective(c2, e2), d.field)
  BY <1>1, AnswerOfField, ZenonT(60)
<1> QED
  BY <1>2 DEF Complete, Filled

\* Two screens have no field in common.
LEMMA ScreensApart ==
  ASSUME SessionInv, NEW m \in 1..Len(screens), NEW n \in 1..Len(screens), m < n,
         NEW d \in Range(screens[m].fields), NEW x \in Range(screens[n].fields)
  PROVE  d.field # x.field
<1> DEFINE steps == Configs[config]
<1>1. /\ config \in Language \cup {NULL} /\ flow \in Flows \cup {NULL}
      /\ screens \in Seq(Range(steps)) /\ Len(screens) \in Nat
  BY ScreenTypes DEF SessionInv, SessionTypeOK
<1>2. DOMAIN screens = 1..Len(screens)
  BY <1>1
<1>3. Place(config, flow, screens[m].step) < Place(config, flow, screens[n].step)
  BY <1>1, <1>2, ScreensInOrder DEF SessionInv, ScreensOK
<1>4. /\ Place(config, flow, screens[m].step) \in Nat
      /\ Place(config, flow, screens[n].step) \in Nat
  <2>1. ASSUME NEW k \in 1..Len(screens)
        PROVE  screens[k] \in ShownSteps(config, entered, server, flow)
    <3> DEFINE shown == ShownSteps(config, entered, server, flow)
    <3>1. screens \in [1..Cardinality(shown) -> shown]
      BY <1>1, ScreensInOrder DEF SessionInv, ScreensOK
    <3> HIDE DEF shown
    <3>2. k \in DOMAIN screens
      BY <1>2
    <3>3. screens[k] \in shown
      BY <3>1, <3>2
    <3> QED
      BY <3>3 DEF shown
  <2>2. ASSUME NEW k \in 1..Len(screens)
        PROVE  Place(config, flow, screens[k].step) \in Nat
    <3>1. Place(config, flow, screens[k].step) \in 1..Len(Order(config, flow))
      BY <1>1, <2>1, PlaceOfStep
    <3> QED
      BY <3>1
  <2> QED
    BY <2>2
<1>5. screens[m] # screens[n]
  BY <1>3, <1>4
<1>6. PICK i \in DOMAIN steps, j \in DOMAIN steps :
        screens[m] = steps[i] /\ screens[n] = steps[j]
  BY <1>1 DEF Range
<1>7. PICK k \in DOMAIN steps[i].fields, l \in DOMAIN steps[j].fields :
        d = steps[i].fields[k] /\ x = steps[j].fields[l]
  BY <1>6 DEF Range
<1>8. d.field = x.field => i = j
  BY <1>1, <1>6, <1>7, ConfigAssumption
<1> QED
  BY <1>5, <1>6, <1>8

LEMMA InitPath == Init => PathInv
<1> SUFFICES ASSUME Init PROVE PathInv
  OBVIOUS
<1>1. index = 0
  BY DEF Init
<1> QED
  BY <1>1, InitSession DEF PathInv, PathIntact

\* At the first screen there is nothing behind.
LEMMA FirstScreenKeeps == ASSUME SessionInv', index' = 0 PROVE PathInv'
BY DEF PathInv, PathIntact

\* Steps that leave choices and index alone.
LEMMA StandingKeeps ==
  ASSUME PathInv, SessionInv', UNCHANGED <<choices, index, steady>>
  PROVE  PathInv'
BY DEF PathInv, PathIntact, choices

\* An arrival, or a choice of flow, either changes the screens or leaves them complete.
LEMMA ArrivalKeeps ==
  ASSUME PathInv, SessionInv', Rederived, index' = index, entered' = entered
  PROVE  PathInv'
<1>1. CASE index = 0
  BY <1>1, FirstScreenKeeps
<1>2. CASE index # 0 /\ ~steady'
  BY <1>2 DEF PathInv, PathIntact
<1>3. CASE index # 0 /\ steady'
  <2>1. steady /\ screens' = screens /\ index < Len(screens)
    BY <1>3 DEF PathInv, Rederived
  <2>2. /\ screens \in Seq(Range(Configs[config])) /\ config \in Language \cup {NULL}
        /\ screens \in Seq(Range(Configs[config'])) /\ config' \in Language \cup {NULL}
    <3>1. /\ config \in Language \cup {NULL} /\ flow \in Flows \cup {NULL}
          /\ config' \in Language \cup {NULL} /\ flow' \in Flows \cup {NULL}
          /\ screens = ScreensOf(config, entered, server, flow)
          /\ screens' = ScreensOf(config', entered', server', flow')
      BY DEF PathInv, SessionInv, SessionTypeOK, ScreensOK
    <3>2. screens \in Seq(Range(Configs[config]))
      BY <3>1, ScreenRows
    <3>3. screens' \in Seq(Range(Configs[config']))
      BY <3>1, ScreenRows
    <3> QED
      BY <2>1, <3>1, <3>2, <3>3
  <2>3. ASSUME NEW n \in 1..index
        PROVE  n \in DOMAIN screens' /\ Complete(config', entered', screens'[n])
    <3>1. n \in DOMAIN screens /\ Complete(config, entered, screens[n])
      BY <2>1 DEF PathInv, PathIntact
    <3>2. screens[n] \in Range(Configs[config]) /\ screens[n] \in Range(Configs[config'])
      BY <2>2, <3>1
    <3> QED
      BY <2>1, <2>2, <3>1, <3>2, StaysComplete
  <2> QED
    BY <2>1, <2>3 DEF PathInv, PathIntact
<1> QED
  BY <1>1, <1>2, <1>3

\* An answer is entered in a field of the screen shown, which is no field of those before.
LEMMA SetFieldKeepsPath ==
  ASSUME PathInv, SessionInv', NEW f, NEW v, SetField(f, v)
  PROVE  PathInv'
<1>1. /\ Rederived /\ index' = index /\ config' = config
      /\ \E x \in Range(screens[Clamped + 1].fields) : x.field = f
      /\ entered' = [g \in DOMAIN entered \cup {f} |-> IF g = f THEN v ELSE entered[g]]
  BY DEF SetField
<1>2. CASE index = 0
  BY <1>1, <1>2, FirstScreenKeeps
<1>3. CASE index # 0 /\ ~steady'
  BY <1>1, <1>3 DEF PathInv, PathIntact
<1>4. CASE index # 0 /\ steady'
  <2>1. steady /\ screens' = screens /\ index < Len(screens) /\ Clamped = index
    BY <1>1, <1>4 DEF PathInv, Rederived, Clamped
  <2>2. /\ screens \in Seq(Range(Configs[config])) /\ config \in Language \cup {NULL}
        /\ index \in Nat /\ Len(screens) \in Nat
    BY ScreenTypes DEF PathInv, SessionInv, SessionTypeOK
  <2>3. PICK x \in Range(screens[index + 1].fields) : x.field = f
    BY <1>1, <2>1
  <2>4. ASSUME NEW n \in 1..index
        PROVE  n \in DOMAIN screens' /\ Complete(config', entered', screens'[n])
    <3>1. n \in DOMAIN screens /\ Complete(config, entered, screens[n])
      BY <2>1 DEF PathInv, PathIntact
    <3>2. screens[n] \in Range(Configs[config])
      BY <2>2, <3>1
    <3>3. \A d \in Range(screens[n].fields) : d.field # f
      <4>1. n \in 1..Len(screens) /\ index + 1 \in 1..Len(screens) /\ n < index + 1
        BY <2>1, <2>2
      <4> QED
        BY <2>3, <4>1, ScreensApart DEF PathInv
    <3>4. \A d \in Range(screens[n].fields) :
            /\ d.field \in DOMAIN entered <=> d.field \in DOMAIN entered'
            /\ d.field \in DOMAIN entered => entered[d.field] = entered'[d.field]
      BY <1>1, <3>3
    <3>5. Complete(config, entered', screens[n])
      BY <2>2, <3>1, <3>2, <3>4, StaysComplete
    <3> QED
      BY <1>1, <2>1, <3>1, <3>5
  <2> QED
    BY <1>1, <2>1, <2>4 DEF PathInv, PathIntact
<1> QED
  BY <1>2, <1>3, <1>4

LEMMA NextPath == PathInv /\ [Next]_vars => PathInv'
<1> SUFFICES ASSUME PathInv, [Next]_vars PROVE PathInv'
  OBVIOUS
<1>1. SessionInv /\ SessionInv'
  BY NextSession DEF PathInv
<1>2. index \in Nat /\ Len(screens) \in Nat /\ DOMAIN screens = 1..Len(screens)
  BY <1>1, ScreenTypes DEF SessionInv, SessionTypeOK
<1>3. ASSUME NEW f, NEW v, SetField(f, v) PROVE PathInv'
  BY <1>1, <1>3, SetFieldKeepsPath
<1>4. CASE NextScreen \/ Submit
  <2>1. /\ index < Len(screens) /\ Complete(config, entered, screens[index + 1])
        /\ index' = IF index < Len(screens) - 1 THEN index + 1 ELSE index
        /\ UNCHANGED <<choices, steady>>
    BY <1>4 DEF NextScreen, Submit, MoveOn
  <2>2. ASSUME steady, NEW n \in 1..index'
        PROVE  n \in DOMAIN screens /\ Complete(config, entered, screens[n])
    <3>1. n \in 1..index \/ n = index + 1
      BY <1>2, <2>1
    <3> QED
      BY <1>2, <2>1, <2>2, <3>1 DEF PathInv, PathIntact
  <2>3. index' < Len(screens)
    BY <1>2, <2>1
  <2> QED
    BY <1>1, <2>1, <2>2, <2>3 DEF PathInv, PathIntact, choices
<1>5. CASE PrevScreen
  <2>1. /\ index' = index - 1 /\ steady' = (steady \/ index' = 0) /\ UNCHANGED choices
        /\ index' \in Nat
    BY <1>1, <1>5 DEF PrevScreen, SessionInv, SessionTypeOK
  <2>2. CASE index' = 0
    BY <1>1, <2>2, FirstScreenKeeps
  <2>3. CASE index' # 0
    <3>1. steady' = steady /\ (steady => index < Len(screens))
      BY <1>2, <2>1, <2>3 DEF PathInv, SessionInv, SessionTypeOK
    <3>2. 1..index' \subseteq 1..index
      BY <1>2, <2>1
    <3> QED
      BY <1>1, <1>2, <2>1, <3>1, <3>2 DEF PathInv, PathIntact, choices
  <2> QED
    BY <2>2, <2>3
<1>6. CASE PreviewArrives \/ BackToWizard \/ Download \/ DownloadArrives \/ FlowsArrive
  <2>1. UNCHANGED <<choices, index, steady>>
    BY <1>6 DEF PreviewArrives, BackToWizard, Download, DownloadArrives, FlowsArrive
  <2> QED
    BY <1>1, <2>1, StandingKeeps
<1>7. CASE StartOver
  BY <1>1, <1>7, FirstScreenKeeps DEF StartOver
<1>8. ASSUME NEW f, ChooseFlow(f) \/ ActivateFlow(f) \/ FlowArrives(f) PROVE PathInv'
  <2>1. Rederived /\ index' = index /\ entered' = entered
    BY <1>8 DEF ChooseFlow, ActivateFlow, FlowArrives
  <2> QED
    BY <1>1, <2>1, ArrivalKeeps
<1>9. ASSUME NEW s, RulesArrive(s) PROVE PathInv'
  BY <1>1, <1>9, ArrivalKeeps DEF RulesArrive
<1>10. ASSUME NEW x, ConfigEnds(x) PROVE PathInv'
  <2>1. CASE ConfigArrives(x)
    BY <1>1, <2>1, ArrivalKeeps DEF ConfigArrives
  <2>2. CASE ConfigFails(x)
    BY <1>1, <2>2, StandingKeeps DEF ConfigFails
  <2> QED
    BY <1>10, <2>1, <2>2 DEF ConfigEnds
<1>11. CASE UNCHANGED vars
  BY <1>1, <1>11, StandingKeeps DEF vars
<1> QED
  BY <1>3, <1>4, <1>5, <1>6, <1>7, <1>8, <1>9, <1>10, <1>11 DEF Next

\* Behind the current screen everything required is there, for any configurations,
\* flows and rules, however answers are entered and taken back.
THEOREM PathsStayIntact == Spec => []PathIntact
<1>1. PathInv => PathIntact
  BY DEF PathInv
<1> QED
  BY InitPath, NextPath, <1>1, PTL DEF Spec

-----------------------------------------------------------------------------
(* Visibility on the client and on the server.                             *)

\* The order in which both evaluations go through the rules.
NotAfter(q, r) == q.priority < r.priority \/ (q.priority = r.priority /\ q.id <= r.id)

LastOf(S, r) == r \in S /\ \A q \in S : NotAfter(q, r)

Numbered(S) == \A q \in S : q.id \in Nat /\ q.priority \in Int

\* A finite set of rules has a last one.
LEMMA LastExists ==
  ASSUME NEW S, IsFiniteSet(S), Numbered(S), S # {}
  PROVE  \E r \in S : LastOf(S, r)
<1> DEFINE Later(r) == {q \in S : ~NotAfter(q, r)}
           Sizes == {Cardinality(Later(r)) : r \in S}
<1>1. ASSUME NEW r \in S PROVE IsFiniteSet(Later(r)) /\ Cardinality(Later(r)) \in Nat
  <2>1. Later(r) \in SUBSET S
    OBVIOUS
  <2> HIDE DEF Later
  <2> QED
    BY <2>1, FS_Subset, FS_CardinalityType
<1>2. PICK r \in S : \A x \in S : Cardinality(Later(r)) <= Cardinality(Later(x))
  <2> HIDE DEF Later
  <2>1. Sizes \subseteq Nat /\ Sizes # {}
    BY <1>1
  <2>2. PICK n \in Sizes : \A m \in Sizes : n <= m
    <3> HIDE DEF Sizes
    <3> QED
      BY <2>1, Least
  <2> QED
    BY <2>2
<1>3. ASSUME NEW x \in Later(r) PROVE FALSE
  <2>1. x \in S /\ x \notin Later(x) /\ Later(x) \subseteq Later(r)
    BY <1>3 DEF Numbered, NotAfter
  <2>2. Later(x) \in SUBSET Later(r) /\ Later(x) # Later(r)
    BY <1>3, <2>1
  <2> HIDE DEF Later
  <2>3. Cardinality(Later(x)) <= Cardinality(Later(r))
        /\ Cardinality(Later(x)) # Cardinality(Later(r))
    BY <1>1, <2>2, FS_Subset
  <2> QED
    BY <1>1, <1>2, <2>1, <2>3
<1> QED
  BY <1>3 DEF LastOf

\* The rule that decides is the last of those of the target, and is the only last one.
LEMMA DecidingIsLast ==
  ASSUME NEW rules, NEW target, Numbered(rules),
         \A q, r \in rules : q.id = r.id => q = r,
         NEW last, LastOf({r \in rules : r.target = target}, last)
  PROVE  Deciding(rules, target) = last
<1> DEFINE of == {r \in rules : r.target = target}
<1>1. Deciding(rules, target) = CHOOSE r \in of : LastOf(of, r)
  BY DEF Deciding, LastOf, NotAfter
<1>2. ASSUME NEW r \in of, LastOf(of, r) PROVE r = last
  <2>1. r.id = last.id
    BY <1>2 DEF LastOf, NotAfter, Numbered
  <2> QED
    BY <1>2, <2>1 DEF LastOf
<1>3. (CHOOSE r \in of : LastOf(of, r)) = last
  <2> HIDE DEF of
  <2>1. last \in of /\ LastOf(of, last)
    BY DEF LastOf, of
  <2> QED
    BY <1>2, <2>1
<1> QED
  BY <1>1, <1>3

\* What a layer replaces of a rule is its value.
LEMMA OverriddenRow ==
  ASSUME NEW r \in Rule, NEW overrides, overrides \subseteq RuleOverride
  PROVE  LET o == Overridden(r, overrides)
         IN  /\ o \in Rule
             /\ o.id = r.id /\ o.target = r.target /\ o.depends = r.depends
             /\ o.operator = r.operator /\ o.action = r.action /\ o.priority = r.priority
<1> DEFINE values == {o.value : o \in {x \in overrides : x.rule = r.id /\ x.value # NULL}}
<1>1. CASE values = {}
  BY <1>1 DEF Overridden
<1>2. CASE values # {}
  <2> DEFINE v == CHOOSE x \in values : TRUE
  <2>1. v \in Value \cup {NULL}
    <3>1. v \in values
      BY <1>2
    <3> QED
      BY <3>1 DEF RuleOverride
  <2>2. Overridden(r, overrides) = [r EXCEPT !.value = v]
    BY <1>2 DEF Overridden
  <2> HIDE DEF v
  <2> QED
    BY <2>1, <2>2 DEF Rule
<1> QED
  BY <1>1, <1>2

\* Replacing values on the way decides as replacing them beforehand does.
LEMMA SameRuleDecides ==
  ASSUME NEW s \in RuleSets, NEW target
  PROVE  LET considered == {r \in s.rules : r.id \notin Disabled(s.overrides)}
             sent == RulesInEffect(s.rules, s.overrides)
         IN  /\ (\E r \in considered : r.target = target) <=> (\E r \in sent : r.target = target)
             /\ (\E r \in considered : r.target = target)
                  => /\ Deciding(considered, target) \in considered
                     /\ Deciding(sent, target)
                          = Overridden(Deciding(considered, target), s.overrides)
<1> DEFINE considered == {r \in s.rules : r.id \notin Disabled(s.overrides)}
           sent == RulesInEffect(s.rules, s.overrides)
           O(r) == Overridden(r, s.overrides)
<1>1. /\ considered \subseteq Rule /\ IsFiniteSet(considered)
      /\ \A q, r \in considered : q.id = r.id => q = r
  BY RuleAssumption, FS_Subset
<1>2. sent = {O(r) : r \in considered}
  BY DEF RulesInEffect
<1>3. ASSUME NEW r \in considered
      PROVE  /\ O(r) \in Rule /\ O(r).id = r.id /\ O(r).target = r.target
             /\ O(r).priority = r.priority
  <2>1. r \in Rule /\ s.overrides \subseteq RuleOverride
    BY <1>1, RuleAssumption
  <2> QED
    BY <2>1, OverriddenRow
<1>4. Numbered(considered) /\ Numbered(sent)
  BY <1>1, <1>2, <1>3 DEF Numbered, Rule
<1>5. \A q, r \in sent : q.id = r.id => q = r
  BY <1>1, <1>2, <1>3
<1> HIDE DEF considered, sent, O
<1>6. (\E r \in considered : r.target = target) <=> (\E r \in sent : r.target = target)
  BY <1>2, <1>3
<1>7. ASSUME \E r \in considered : r.target = target
      PROVE  /\ Deciding(considered, target) \in considered
             /\ Deciding(sent, target) = O(Deciding(considered, target))
  <2> DEFINE of == {r \in considered : r.target = target}
  <2>1. PICK last \in of : LastOf(of, last)
    <3>1. of \in SUBSET considered /\ of # {}
      BY <1>7
    <3>2. IsFiniteSet(of)
      BY <1>1, <3>1, FS_Subset
    <3>3. Numbered(of)
      BY <1>4 DEF Numbered
    <3> QED
      BY <3>1, <3>2, <3>3, LastExists
  <2>2. Deciding(considered, target) = last
    BY <1>1, <1>4, <2>1, DecidingIsLast
  <2>3. LastOf({r \in sent : r.target = target}, O(last))
    <3>1. O(last) \in sent /\ O(last).target = target
      BY <1>2, <1>3, <2>1
    <3>2. ASSUME NEW q \in sent, q.target = target PROVE NotAfter(q, O(last))
      <4>1. PICK r \in considered : q = O(r)
        BY <1>2
      <4>2. r \in of
        BY <1>3, <3>2, <4>1
      <4> QED
        BY <1>3, <2>1, <4>1, <4>2 DEF LastOf, NotAfter
    <3> QED
      BY <3>1, <3>2 DEF LastOf
  <2>4. Deciding(sent, target) = O(last)
    BY <1>4, <1>5, <2>3, DecidingIsLast
  <2> QED
    BY <2>1, <2>2, <2>4
<1> QED
  BY <1>6, <1>7 DEF considered, sent, O

\* Two values of a field, as the two sides see them, that compare alike and are empty
\* alike decide alike.
LEMMA DecidesAlike ==
  ASSUME NEW r \in Rule, NEW v, NEW w, IsEmpty(v) <=> IsEmpty(w),
         \A x \in Compared(r.operator, r.value) :
           Equal("client", v, x) <=> Equal("server", w, x)
  PROVE  Decides("client", r, v) <=> Decides("server", r, w)
<1>1. r.operator \in Operator
  BY DEF Rule
<1>2. Holds("client", r.operator, v, r.value) <=> Holds("server", r.operator, w, r.value)
  <2> DEFINE seen == \E x \in Compared(r.operator, r.value) : Equal("client", v, x)
             read == \E x \in Compared(r.operator, r.value) : Equal("server", w, x)
  <2>1. seen <=> read
    OBVIOUS
  <2> HIDE DEF seen, read
  <2>2. Holds("client", r.operator, v, r.value) =
          CASE r.operator \in {"equals", "in"}         -> seen
            [] r.operator \in {"not_equals", "not_in"} -> ~seen
            [] r.operator = "is_empty"                 -> IsEmpty(v)
            [] r.operator = "is_not_empty"             -> ~IsEmpty(v)
    BY DEF Holds, seen
  <2>3. Holds("server", r.operator, w, r.value) =
          CASE r.operator \in {"equals", "in"}         -> read
            [] r.operator \in {"not_equals", "not_in"} -> ~read
            [] r.operator = "is_empty"                 -> IsEmpty(w)
            [] r.operator = "is_not_empty"             -> ~IsEmpty(w)
    BY DEF Holds, read
  <2> QED
    BY <1>1, <2>1, <2>2, <2>3 DEF Operator
<1> QED
  BY <1>2 DEF Decides

\* Where no answer stands, the default that the client looks at is none or empty, or
\* there is no such field.
LEMMA DefaultUnanswered ==
  ASSUME NEW c, NEW e, NEW f \in Field, f \notin DOMAIN Effective(c, e)
  PROVE  Default(c)[f] \in {NULL, Empty, Absent}
<1>1. CASE \E d \in FieldsOf(c) : d.field = f
  <2> DEFINE d == CHOOSE x \in FieldsOf(c) : x.field = f
  <2>1. d \in FieldsOf(c) /\ d.field = f
    BY <1>1
  <2>2. Default(c)[f] = d.default
    BY <1>1 DEF Default
  <2>3. d.default \in {NULL, Empty}
    BY <2>1 DEF Effective
  <2> QED
    BY <2>2, <2>3
<1>2. CASE ~\E d \in FieldsOf(c) : d.field = f
  BY <1>2 DEF Default
<1> QED
  BY <1>1, <1>2

\* A rule that is not read apart decides alike on both sides.
LEMMA ReadAlike ==
  ASSUME NEW r \in Rule, ~ReadApart(r)
  PROVE  LET answers == Effective(config, entered)
         IN  Decides("client", r, ClientValue(answers, Default(config), r.depends))
               <=> Decides("server", r, Answer(answers, r.depends))
<1> DEFINE answers == Effective(config, entered)
           compared == Compared(r.operator, r.value)
           seen == ClientValue(answers, Default(config), r.depends)
           read == Answer(answers, r.depends)
<1>1. r.depends \in Field /\ r.depends \notin Nested
  BY DEF Rule, Path, ReadApart
<1>2. /\ ~(read \in List /\ read \in compared)
      /\ \A x \in compared : {read, x} \notin Alike
      /\ r.depends \notin DOMAIN answers
           => /\ Default(config)[r.depends] = Empty => NULL \notin compared /\ Empty \notin compared
              /\ Default(config)[r.depends] = Absent => NULL \notin compared
  BY DEF ReadApart
<1>3. seen = IF r.depends \in DOMAIN answers THEN answers[r.depends]
             ELSE Default(config)[r.depends]
  BY <1>1 DEF ClientValue
<1>4. read = IF r.depends \in DOMAIN answers THEN answers[r.depends] ELSE NULL
  BY DEF Answer
<1>5. compared \subseteq Value \cup {NULL}
  <2>1. r.operator \in Operator /\ r.value \in Value \cup {NULL}
    BY DEF Rule
  <2> QED
    BY <2>1, ValueAssumption DEF Compared, Operator
<1>6. r.depends \notin DOMAIN answers
        => /\ Default(config)[r.depends] \in {NULL, Empty, Absent}
           /\ NULL \notin List /\ Empty \notin List /\ Absent \notin List
           /\ Absent \notin compared
  BY <1>1, <1>5, DefaultUnanswered, ValueAssumption
<1> HIDE DEF answers, compared, seen, read
<1>7. IsEmpty(seen) <=> IsEmpty(read)
  BY <1>3, <1>4, <1>6 DEF IsEmpty
<1>8. ASSUME NEW x \in compared PROVE Equal("client", seen, x) <=> Equal("server", read, x)
  <2>1. Equal("client", seen, x) <=> (seen = x /\ seen \notin List)
    BY DEF Equal
  <2>2. Equal("server", read, x) <=> (read = x \/ {read, x} \in Alike)
    BY DEF Equal
  <2>3. {read, x} \notin Alike
    BY <1>2
  <2>4. CASE r.depends \in DOMAIN answers
    BY <1>2, <1>3, <1>4, <2>1, <2>2, <2>3, <2>4
  <2>5. CASE r.depends \notin DOMAIN answers
    BY <1>2, <1>3, <1>4, <1>6, <2>1, <2>2, <2>3, <2>5
  <2> QED
    BY <2>4, <2>5
<1>9. Decides("client", r, seen) <=> Decides("server", r, read)
  BY <1>7, <1>8, DecidesAlike DEF compared
<1> QED
  BY <1>9 DEF answers, seen, read

LEMMA SameVisibility == SessionTypeOK => VisibilityAgrees
<1> SUFFICES ASSUME SessionTypeOK, server # NULL, NEW target \in Step \cup Path
             PROVE  \/ Shown(config, entered, server, target)
                         <=> ServerShows(server.rules, server.overrides,
                                         Effective(config, entered), target)
                    \/ /\ \E r \in ClientRules(server) : r.target = target
                       /\ ReadApart(Deciding(ClientRules(server), target))
  BY DEF VisibilityAgrees
<1> DEFINE considered == {r \in server.rules : r.id \notin Disabled(server.overrides)}
           sent == RulesInEffect(server.rules, server.overrides)
           answers == Effective(config, entered)
           d == Deciding(considered, target)
           o == Overridden(d, server.overrides)
<1>1. server \in RuleSets /\ ClientRules(server) = sent
  BY DEF SessionTypeOK, ClientRules
<1>2. (\E r \in considered : r.target = target) <=> (\E r \in sent : r.target = target)
  BY <1>1, SameRuleDecides
<1>3. Shown(config, entered, server, target)
        = ((\E r \in sent : r.target = target) =>
             Decides("client", Deciding(sent, target),
                     ClientValue(answers, Default(config), Deciding(sent, target).depends)))
  BY <1>1 DEF Shown, ClientShows
<1>4. ServerShows(server.rules, server.overrides, answers, target)
        = ((\E r \in considered : r.target = target)
             => Decides("server", o, Answer(answers, d.depends)))
  BY DEF ServerShows
<1>5. CASE ~\E r \in considered : r.target = target
  BY <1>2, <1>3, <1>4, <1>5
<1>6. CASE \E r \in considered : r.target = target
  <2>1. d \in considered /\ Deciding(sent, target) = o
    BY <1>1, <1>6, SameRuleDecides
  <2>2. o \in Rule /\ o.depends = d.depends
    <3>1. d \in Rule /\ server.overrides \subseteq RuleOverride
      BY <1>1, <2>1, RuleAssumption
    <3> QED
      BY <3>1, OverriddenRow
  <2> HIDE DEF considered, sent, d, o
  <2>3. CASE ReadApart(o)
    BY <1>1, <1>2, <1>6, <2>1, <2>3
  <2>4. CASE ~ReadApart(o)
    <3>1. Decides("client", o, ClientValue(answers, Default(config), o.depends))
            <=> Decides("server", o, Answer(answers, o.depends))
      BY <2>2, <2>4, ReadAlike
    <3> QED
      BY <1>2, <1>3, <1>4, <1>6, <2>1, <2>2, <3>1
  <2> QED
    BY <2>3, <2>4
<1> QED
  BY <1>5, <1>6

\* Client and server decide alike, for any rules, overrides, configurations and answers,
\* unless the deciding rule is one of those that ReadApart names.
THEOREM VisibilityIsShared == Spec => []VisibilityAgrees
BY SessionTypes, SameVisibility, PTL
=============================================================================
