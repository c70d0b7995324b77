------------------------------ MODULE OnceResult ------------------------------
(***************************************************************************)
(* What Client::ensure_compatibility promises its callers, without saying   *)
(* how: one value is decided at most once and never changes, and a call     *)
(* either returns that value or is refused by an error of its own.          *)
(***************************************************************************)
CONSTANTS
  Callers,     \* one element per call
  Values,      \* what can be decided
  Refusals,    \* errors local to one call
  NoValue      \* nothing decided, nothing returned

VARIABLES cell, outcome

vars == <<cell, outcome>>

Init ==
  /\ cell \in Values \cup {NoValue}
  /\ outcome = [c \in Callers |-> NoValue]

Decide ==
  /\ cell = NoValue
  /\ cell' \in Values
  /\ UNCHANGED outcome

Return(c) ==
  /\ outcome[c] = NoValue
  /\ cell # NoValue
  /\ outcome' = [outcome EXCEPT ![c] = cell]
  /\ UNCHANGED cell

Refuse(c) ==
  /\ outcome[c] = NoValue
  /\ \E e \in Refusals : outcome' = [outcome EXCEPT ![c] = e]
  /\ UNCHANGED cell

Next == Decide \/ \E c \in Callers : Return(c) \/ Refuse(c)

Spec == Init /\ [][Next]_vars
=============================================================================
