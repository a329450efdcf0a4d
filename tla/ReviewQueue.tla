---------------------------- MODULE ReviewQueue ----------------------------
(***************************************************************************)
(* What a submitter and a reviewer may rely on: an item that was submitted *)
(* is decided at most once, a decision is final, and a proposal is made of *)
(* an item by accepting it and in no other way.                            *)
(***************************************************************************)
CONSTANTS Item, Proposal

VARIABLES
  state,  \* of each item
  made    \* the proposals made of each item

vars == <<state, made>>

Init ==
  /\ state = [c \in Item |-> "absent"]
  /\ made = [c \in Item |-> {}]

Submit(c) ==
  /\ state[c] = "absent"
  /\ state' = [state EXCEPT ![c] = "submitted"]
  /\ UNCHANGED made

Refuse(c) ==
  /\ state[c] = "submitted"
  /\ \E refusal \in {"rejected", "withdrawn"} :
       state' = [state EXCEPT ![c] = refusal]
  /\ UNCHANGED made

Accept(c, p) ==
  /\ state[c] = "submitted"
  /\ \A d \in Item : p \notin made[d]
  /\ state' = [state EXCEPT ![c] = "accepted"]
  /\ made' = [made EXCEPT ![c] = {p}]

Next ==
  \E c \in Item :
    \/ Submit(c) \/ Refuse(c)
    \/ \E p \in Proposal : Accept(c, p)

Spec == Init /\ [][Next]_vars
=============================================================================
