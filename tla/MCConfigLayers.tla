--------------------------- MODULE MCConfigLayers ---------------------------
(* Small instances of ConfigLayers for TLC.                                *)
EXTENDS ConfigLayers, TLC

CONSTANTS v1

Symmetry == Permutations(LayerId)

\* The importer left a metadata override on every field, or nothing.
MetaImports == {[f \in Field |-> [meta |-> v1, content |-> NULL]]}

\* The importer left options on every field, with no preset beside them.
OptionImports ==
  {[f \in Field |-> [meta |-> NULL, content |-> [options |-> v1, presets |-> {}]]]}
=============================================================================
