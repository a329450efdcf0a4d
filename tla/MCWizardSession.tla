--------------------------- MODULE MCWizardSession ---------------------------
(* An instance of WizardSession: three steps, the second of which the       *)
(* server takes out for go, and the third of which has a field with a       *)
(* nested one.  Field b is on for java and empty at first.                  *)
EXTENDS WizardSession, TLC

CONSTANTS s1, s2, s3, lang, a, b, nested, java, go, yes, one, empty, some, none, both

Steps == {s1, s2, s3}
Fields == {lang, a, b}
NestedFields == {nested}
Around == nested :> b

\* Lists: of an answer, of none, and what a rule looks for.
Values == {java, go, yes, one, empty, some, none, both}
Lists == {some, none, both}
ListItems == some :> {yes} @@ none :> {} @@ both :> {go, NULL}
Twins == {{yes, one}}

Languages == {java, go}

FieldChoices == lang :> {java, go} @@ a :> {some, none} @@ b :> {yes, empty}

Single(step, f, required, default) ==
  [step |-> step, fields |-> <<[field |-> f, required |-> required, default |-> default]>>]

Configurations ==
  NULL :> << Single(s1, lang, TRUE, NULL), Single(s2, a, TRUE, NULL),
             Single(s3, b, FALSE, empty) >>
    @@ java :> << Single(s1, lang, TRUE, NULL), Single(s2, a, FALSE, NULL),
                  Single(s3, b, FALSE, yes) >>
    @@ go :> << Single(s1, lang, TRUE, NULL), Single(s3, b, FALSE, NULL) >>

Hide(id, target, depends, operator, value, priority) ==
  [id |-> id, target |-> target, depends |-> depends, operator |-> operator,
   value |-> value, action |-> "hide", priority |-> priority]

Show(id, target, depends, operator, value, priority) ==
  [Hide(id, target, depends, operator, value, priority) EXCEPT !.action = "show"]

HideSecond == Hide(1, s2, b, "equals", yes, 0)

\* First: a layer that leaves rule 1 its value.  Second: one that has rule 1 look for the
\* empty answer, and no rule 4.  The other rules are some that may be read apart.
Stored ==
  { [rules |-> {HideSecond, Hide(2, a, b, "equals", NULL, 0)},
     overrides |-> {[rule |-> 1, disabled |-> FALSE, value |-> NULL]}],
    [rules |-> { HideSecond, Show(2, a, lang, "in", both, 0),
                 Show(3, a, lang, "is_not_empty", NULL, 1), Hide(4, a, lang, "equals", go, 2),
                 Hide(5, b, a, "equals", NULL, 0), Show(6, lang, a, "not_equals", some, 0),
                 Hide(7, nested, b, "equals", one, 0), Show(8, s3, nested, "is_empty", NULL, 0) },
     overrides |-> { [rule |-> 1, disabled |-> FALSE, value |-> empty],
                     [rule |-> 4, disabled |-> TRUE, value |-> NULL] }] }

On(s) == [step |-> s, enabled |-> TRUE]
Off(s) == [step |-> s, enabled |-> FALSE]

Reordered == <<On(s2), On(s1), Off(s3)>>
AllOff == <<Off(s1), Off(s2)>>

UserFlows == {Reordered, AllOff}
=============================================================================
