--------------------------- MODULE VisibilityRules ---------------------------
(***************************************************************************)
(* Conditional visibility, as the server and the wizard client each        *)
(* evaluate it.  A rule shows or hides its target, a step or a field,      *)
(* depending on the value of a field; of the rules of one target the one   *)
(* of the highest priority decides, and a target without a rule is         *)
(* visible.  Rules of one priority keep the order of their ids.            *)
(*                                                                         *)
(* The two differ in three ways.  A path that names a nested field is no   *)
(* key of the answers to the server, while the client takes the field      *)
(* around it.  The client falls back on the default of a field, and tells  *)
(* a field without one (null) from one that is not in its configuration    *)
(* (undefined); the server reads no answer in either.  And Python compares *)
(* lists by content and a boolean with a number, JavaScript does neither.  *)
(*                                                                         *)
(* Answers are functions from the fields that have one to values.  Objects *)
(* are no values: what a rule compares is a scalar or a list.              *)
(***************************************************************************)
EXTENDS Integers, FiniteSets, Functions

CONSTANTS
  Field,      \* paths "step.field"; a path without a dot is of no configuration
  Nested,     \* longer paths, "step.field.nested"
  Parent,     \* Parent[p]: the field that the first two components of p name
  Step,       \* step keys
  Value,      \* answers and comparison values
  List,       \* those that are lists
  Items,      \* Items[l]: what is in list l
  Alike,      \* pairs of different values that Python takes for equal: true and 1
  Empty,      \* the empty string
  NULL,       \* no answer to the server; null to the client, and as what a rule compares
  Absent      \* undefined, to the client

ASSUME ValueAssumption ==
  /\ List \subseteq Value /\ Empty \in Value \ List
  /\ Items \in [List -> SUBSET (Value \cup {NULL})]
  /\ Alike \subseteq SUBSET Value
  /\ NULL \notin Value /\ Absent \notin Value \cup {NULL}
  /\ Nested \cap Field = {} /\ Parent \in [Nested -> Field]

Path == Field \cup Nested

Operator == {"equals", "not_equals", "in", "not_in", "is_empty", "is_not_empty"}

Rule ==
  [ id       : Nat,
    target   : Step \cup Path,
    depends  : Path,           \* depends_on_field_path
    operator : Operator,
    value    : Value \cup {NULL},
    action   : {"show", "hide"},
    priority : Int ]

\* A layer's override of a rule: it disables the rule, or replaces its value unless
\* it has none.
RuleOverride == [rule : Nat, disabled : BOOLEAN, value : Value \cup {NULL}]

IsEmpty(v) == v \in {NULL, Absent, Empty} \/ (v \in List /\ Items[v] = {})

\* The == of Python and the === of JavaScript.
Equal(side, v, w) ==
  CASE side = "server" -> v = w \/ {v, w} \in Alike
    [] side = "client" -> v = w /\ v \notin List

\* What the value of the field is compared with.
Compared(operator, rv) ==
  CASE operator \in {"equals", "not_equals"} -> {rv}
    [] operator \in {"in", "not_in"} /\ rv \in List -> Items[rv]
    [] OTHER -> {}

Holds(side, operator, v, rv) ==
  LET among == \E w \in Compared(operator, rv) : Equal(side, v, w)
  IN  CASE operator \in {"equals", "in"}         -> among
        [] operator \in {"not_equals", "not_in"} -> ~among
        [] operator = "is_empty"                 -> IsEmpty(v)
        [] operator = "is_not_empty"             -> ~IsEmpty(v)

\* Both evaluations go through the rules by priority and let the last one stand.
Deciding(rules, target) ==
  CHOOSE r \in {q \in rules : q.target = target} :
    \A q \in rules : q.target = target =>
      q.priority < r.priority \/ (q.priority = r.priority /\ q.id <= r.id)

Decides(side, rule, v) ==
  (rule.action = "show") <=> Holds(side, rule.operator, v, rule.value)

-----------------------------------------------------------------------------
(* The rules in effect for the active layers of a request.                 *)

Disabled(overrides) == {o.rule : o \in {x \in overrides : x.disabled}}

\* Replaced values; of two layers that both replace one, any may be read last.
Overridden(rule, overrides) ==
  LET values == {o.value : o \in {x \in overrides : x.rule = rule.id /\ x.value # NULL}}
  IN  IF values = {} THEN rule
      ELSE [rule EXCEPT !.value = CHOOSE v \in values : TRUE]

\* Mutant: rules that a layer disables are left out, but values stay.
RulesUnreplaced(rules, overrides) == {r \in rules : r.id \notin Disabled(overrides)}

\* get_visibility_rules_for_config: what the client is sent.
RulesInEffect(rules, overrides) ==
  {Overridden(r, overrides) : r \in {q \in rules : q.id \notin Disabled(overrides)}}

-----------------------------------------------------------------------------
(* The two evaluations.                                                    *)

\* The answers have no key for what a path names inside a field.
Answer(answers, p) == IF p \in DOMAIN answers THEN answers[p] ELSE NULL

\* evaluate_visibility: rules are skipped and their values replaced on the way.
ServerShows(rules, overrides, answers, target) ==
  LET considered == {r \in rules : r.id \notin Disabled(overrides)}
  IN  (\E r \in considered : r.target = target) =>
        LET r == Deciding(considered, target)
        IN  Decides("server", Overridden(r, overrides), Answer(answers, r.depends))

\* resolveFieldValue: the answer, or else the default, of the field that the first two
\* components of the path name.
ClientValue(answers, default, p) ==
  LET f == IF p \in Nested THEN Parent[p] ELSE p
  IN  IF f \in DOMAIN answers THEN answers[f] ELSE default[f]

\* evaluateVisibilityRules
ClientShows(rules, answers, default, target) ==
  (\E r \in rules : r.target = target) =>
    LET r == Deciding(rules, target)
    IN  Decides("client", r, ClientValue(answers, default, r.depends))
=============================================================================
