--------------------------- MODULE PublishedConfig ---------------------------
(***************************************************************************)
(* What the layer store promises a reader of the configuration: each key   *)
(* serves at most one set of overrides.  It changes by an edit of a single *)
(* field, or by publishing a set of overrides that was put aside earlier   *)
(* when the key served it; once a key serves something it never stops.     *)
(***************************************************************************)
CONSTANTS Key, Field, Empty, NULL

VARIABLES
  live,   \* live[k]: the overrides k serves, NULL before the first
  saved   \* saved[k]: the overrides put aside in drafts of k

vars == <<live, saved>>

\* Nothing has been put aside yet; what is served came with the import.
Init == saved = [k \in Key |-> {}]

\* The first edit of a key starts from no overrides; a new language serves none.
Start(k) ==
  /\ live[k] = NULL
  /\ live' = [live EXCEPT ![k] = live'[k]]
  /\ \/ live'[k] = Empty
     \/ \E f \in Field : live'[k] = [Empty EXCEPT ![f] = live'[k][f]]
  /\ UNCHANGED saved

Edit(k, f) ==
  /\ live[k] # NULL
  /\ live' = [live EXCEPT ![k] = [@ EXCEPT ![f] = live'[k][f]]]
  /\ UNCHANGED saved

Save(k) ==
  /\ live[k] # NULL
  /\ saved' = [saved EXCEPT ![k] = @ \cup {live[k]}]
  /\ UNCHANGED live

\* Two drafts may hold the same overrides, so those used up may remain saved.
Spend(k, c) == saved' = saved \/ saved' = [saved EXCEPT ![k] = @ \ {c}]

Publish(k) ==
  \E c \in saved[k] : live' = [live EXCEPT ![k] = c] /\ Spend(k, c)

Discard(k) ==
  \E c \in saved[k] : Spend(k, c) /\ UNCHANGED live

Next ==
  \E k \in Key :
    \/ Start(k) \/ Save(k) \/ Publish(k) \/ Discard(k)
    \/ \E f \in Field : Edit(k, f)

Spec == Init /\ [][Next]_vars
=============================================================================
