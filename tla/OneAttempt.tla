------------------------------ MODULE OneAttempt ------------------------------
(***************************************************************************)
(* What a wrapping handle promises its owner: the request behind it is       *)
(* attempted once at most, an unused handle has had no effect, and a handle   *)
(* that received its response had exactly one.                                *)
(***************************************************************************)
EXTENDS Naturals

CONSTANT Handles

VARIABLES
  phase,    \* [Handles -> {"unused", "uncertain", "received"}]
  effects   \* [Handles -> 0 .. 1]: executions owed to the handle

vars == <<phase, effects>>

Init ==
  /\ phase = [h \in Handles |-> "unused"]
  /\ effects = [h \in Handles |-> 0]

Begin(h) ==
  /\ phase[h] = "unused"
  /\ phase' = [phase EXCEPT ![h] = "uncertain"]
  /\ UNCHANGED effects

\* The server acts while the owner cannot know, perhaps long after it gave up.
TakeEffect(h) ==
  /\ phase[h] = "uncertain"
  /\ effects[h] = 0
  /\ effects' = [effects EXCEPT ![h] = 1]
  /\ UNCHANGED phase

Receive(h) ==
  /\ phase[h] = "uncertain"
  /\ effects[h] = 1
  /\ phase' = [phase EXCEPT ![h] = "received"]
  /\ UNCHANGED effects

Next == \E h \in Handles : Begin(h) \/ TakeEffect(h) \/ Receive(h)

Spec == Init /\ [][Next]_vars
=============================================================================
