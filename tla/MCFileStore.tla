---------------------------- MODULE MCFileStore ----------------------------
(* Instances of FileStore: one field, one step and the presets p1 and p2.   *)
EXTENDS FileStore

CONSTANTS f1, s1, p1, p2, w1, w2

Fields == {f1}
Steps == {s1}
PresetLabels == {p1, p2}
Processes == {w1, w2}

Patches ==
  { [field |-> f1, step |-> s1, type |-> NULL, changes |-> "required" :> "yes"],
    [field |-> f1, step |-> s1, type |-> NULL, changes |-> "lock_reason" :> "yes"],
    [field |-> f1, step |-> s1, type |-> NULL,
     changes |-> "hidden" :> "yes" @@ "merge_mode" :> "append"],
    [field |-> NULL, step |-> s1, type |-> NULL, changes |-> "hidden" :> "yes"],
    [field |-> f1, step |-> s1, type |-> "structure",
     changes |-> "replace_presets_with" :> <<p1, p2>>] }

Requests ==
  ({ApplyPatch(patch) : patch \in Patches} \ {Refused})
    \cup { [op |-> "remove", on |-> f1, type |-> "structure"],
           [op |-> "add", on |-> f1, preset |-> p1, position |-> -1],
           [op |-> "take", on |-> f1, preset |-> NULL, position |-> 1] }

Documents ==
  {[EmptyDocument EXCEPT !.structure = f1 :> ("replace_presets_with" :> <<p2>>)]}
=============================================================================
