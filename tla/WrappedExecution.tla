--------------------------- MODULE WrappedExecution ---------------------------
(***************************************************************************)
(* Response wrapping and control-group execution: WrappedResponse of          *)
(* src/src/sys.rs, its conversion into the one-attempt ControlGroupExecution   *)
(* of src/src/sys/control_groups/execution.rs, and the stateless wrapping      *)
(* helpers an application may use on a copy of the token.                      *)
(*                                                                          *)
(* A method of a handle borrows it mutably, so a handle has one call at a      *)
(* time; the call is a future and may be dropped at every await.  The server   *)
(* and the network are external: requests may be lost or reach the server      *)
(* after the caller has gone, and a deferred request may be replayable.        *)
(***************************************************************************)
EXTENDS Naturals, FiniteSets

CONSTANTS
  Handles,      \* WrappedResponse values; each has its own wrapping token
  MaxCopies     \* bound: uses of a token copied out of its handle

ASSUME CopiesAssumption == MaxCopies \in Nat

VARIABLES
  kind,         \* "wrapped" or "execution" (after into_control_group_execution)
  attempted, consumed,     \* the fields of WrappedResponse
  state,        \* ControlGroupExecution::state, once converted
  token,        \* wrap_info.token: "token", "malformed" or "empty"
  accessor,     \* wrap_info.accessor.is_some()
  call,         \* the await at which the handle's future is suspended
  answer,       \* the server's answer to the handle's request, on its way back
  net,          \* unwrap requests on their way to the server
  issued,       \* what the server put in the wrap_info
  deferred, approved, live,  \* the server's side of each token
  sent,         \* history: unwrap requests sent by the handle
  ran,          \* history: executions by the server of the handle's request
  copies        \* uses of copied tokens so far

handle == <<kind, attempted, consumed, state, token, accessor>>
server == <<deferred, approved, live, ran>>
vars == <<handle, call, answer, net, issued, server, sent, copies>>

-----------------------------------------------------------------------------
Init ==
  /\ kind = [h \in Handles |-> "wrapped"]
  /\ attempted = [h \in Handles |-> FALSE]
  /\ consumed = [h \in Handles |-> FALSE]
  /\ state = [h \in Handles |-> "Ready"]
  /\ issued \in [Handles -> [token : {"token", "malformed", "empty"}, accessor : BOOLEAN]]
  /\ token = [h \in Handles |-> issued[h].token]
  /\ accessor = [h \in Handles |-> issued[h].accessor]
  /\ call = [h \in Handles |-> "none"]
  /\ answer = [h \in Handles |-> "none"]
  /\ net = {}
  /\ deferred \in [Handles -> BOOLEAN]
  /\ approved = [h \in Handles |-> FALSE]
  /\ live = [h \in Handles |-> TRUE]
  /\ sent = [h \in Handles |-> 0]
  /\ ran = [h \in Handles |-> 0]
  /\ copies = 0

validate_explicit_wrapping_token(t) == t = "token"

Suspend(h, l) == call' = [call EXCEPT ![h] = l]

-----------------------------------------------------------------------------
(* WrappedResponse::try_unwrap: marked as attempted before the request is     *)
(* even checked against the compatibility policy.                             *)

TryUnwrap(h) ==
  /\ kind[h] = "wrapped" /\ call[h] = "none"
  /\ ~attempted[h] /\ ~consumed[h]
  /\ validate_explicit_wrapping_token(token[h])
  /\ attempted' = [attempted EXCEPT ![h] = TRUE]
  /\ Suspend(h, "request")
  /\ UNCHANGED <<kind, consumed, state, token, accessor, answer, net, issued, server, sent, copies>>

\* Mutant of IntoExecution: the execution handle always starts Ready.
IntoExecutionReady(h) ==
  /\ kind[h] = "wrapped" /\ call[h] = "none"
  /\ kind' = [kind EXCEPT ![h] = "execution"]
  /\ UNCHANGED <<attempted, consumed, state, token, accessor, call, answer, net, issued,
                 server, sent, copies>>

\* into_control_group_execution takes the handle by value: no call is under way.
IntoExecution(h) ==
  /\ kind[h] = "wrapped" /\ call[h] = "none"
  /\ kind' = [kind EXCEPT ![h] = "execution"]
  /\ state' = [state EXCEPT ![h] = IF consumed[h] THEN "ResponseReceived"
                                   ELSE IF attempted[h] THEN "OutcomeUnknown" ELSE "Ready"]
  /\ UNCHANGED <<attempted, consumed, token, accessor, call, answer, net, issued, server,
                 sent, copies>>

-----------------------------------------------------------------------------
(* ControlGroupExecution::try_execute_bytes                                   *)

ensure_ready(h) == state[h] = "Ready" /\ validate_explicit_wrapping_token(token[h])

TryExecute(h) ==
  /\ kind[h] = "execution" /\ call[h] = "none"
  /\ ensure_ready(h)
  /\ Suspend(h, "profile")
  /\ UNCHANGED <<handle, answer, net, issued, server, sent, copies>>

\* require_control_groups: the profile is too old, assumed newer, or unknown.
ProfileRejected(h) ==
  /\ call[h] = "profile"
  /\ Suspend(h, "none")
  /\ UNCHANGED <<handle, answer, net, issued, server, sent, copies>>

ProfileAccepted(h) ==
  /\ call[h] = "profile"
  /\ ensure_ready(h)
  /\ state' = [state EXCEPT ![h] = "OutcomeUnknown"]
  /\ Suspend(h, "request")
  /\ UNCHANGED <<kind, attempted, consumed, token, accessor, answer, net, issued, server,
                 sent, copies>>

-----------------------------------------------------------------------------
(* The request itself, common to both handles.                                *)

\* The pipeline refuses before it sends: compatibility, route, cleartext URL.
RefusedLocally(h) ==
  /\ call[h] = "request"
  /\ Suspend(h, "none")
  /\ UNCHANGED <<handle, answer, net, issued, server, sent, copies>>

Send(h) ==
  /\ call[h] = "request"
  /\ Suspend(h, "response")
  /\ net' = net \cup {[of |-> h, copy |-> 0, token |-> token[h]]}
  /\ sent' = [sent EXCEPT ![h] = @ + 1]
  /\ UNCHANGED <<handle, answer, issued, server, copies>>

\* Mutant of Clear: only the token is cleared.
ClearToken(h) ==
  /\ consumed' = [consumed EXCEPT ![h] = TRUE]
  /\ token' = [token EXCEPT ![h] = "empty"]
  /\ state' = IF kind[h] = "execution" THEN [state EXCEPT ![h] = "ResponseReceived"] ELSE state
  /\ UNCHANGED <<kind, attempted, accessor>>

Clear(h) ==
  /\ consumed' = [consumed EXCEPT ![h] = TRUE]
  /\ token' = [token EXCEPT ![h] = "empty"]
  /\ accessor' = [accessor EXCEPT ![h] = FALSE]
  /\ state' = IF kind[h] = "execution" THEN [state EXCEPT ![h] = "ResponseReceived"] ELSE state
  /\ UNCHANGED <<kind, attempted>>

\* Mutant of Accepted: credentials are dropped whatever the answer is.
AcceptedAnyStatus(h) ==
  /\ call[h] = "response" /\ answer[h] # "none"
  /\ Suspend(h, "none")
  /\ Clear(h)
  /\ UNCHANGED <<answer, net, issued, server, sent, copies>>

\* A 200 or 204.  try_unwrap decodes before it clears, execution after.
Accepted(h) ==
  /\ call[h] = "response" /\ answer[h] = "ok"
  /\ Suspend(h, "none")
  /\ Clear(h)
  /\ UNCHANGED <<answer, net, issued, server, sent, copies>>

\* An error status, or a 200 whose body is cut off, too large or (for
\* try_unwrap) not what T expects.
Rejected(h) ==
  /\ call[h] = "response" /\ answer[h] # "none"
  /\ Suspend(h, "none")
  /\ UNCHANGED <<handle, answer, net, issued, server, sent, copies>>

\* Mutant of GiveUp: a dropped call makes the handle usable again.
GiveUpResets(h) ==
  /\ call[h] # "none"
  /\ Suspend(h, "none")
  /\ attempted' = [attempted EXCEPT ![h] = FALSE]
  /\ UNCHANGED <<kind, consumed, state, token, accessor, answer, net, issued, server, sent, copies>>

\* The future is dropped, or the transport fails or times out.
GiveUp(h) ==
  /\ call[h] # "none"
  /\ Suspend(h, "none")
  /\ UNCHANGED <<handle, answer, net, issued, server, sent, copies>>

-----------------------------------------------------------------------------
(* An application that keeps the token (token() of either handle) and uses    *)
(* the stateless helpers on it.                                               *)

\* Mutant of UnwrapCopy: a token that is not valid is passed on as it is.
UnwrapCopyUnchecked(h) ==
  /\ copies < MaxCopies
  /\ copies' = copies + 1
  /\ net' = net \cup {[of |-> h, copy |-> copies', token |-> token[h]]}
  /\ UNCHANGED <<handle, call, answer, issued, server, sent>>

\* Sys::wrapping_unwrap(Some(token))
UnwrapCopy(h) ==
  /\ copies < MaxCopies
  /\ validate_explicit_wrapping_token(token[h])
  /\ copies' = copies + 1
  /\ net' = net \cup {[of |-> h, copy |-> copies', token |-> token[h]]}
  /\ UNCHANGED <<handle, call, answer, issued, server, sent>>

\* Sys::wrapping_rewrap(token): the server moves the response to a new token,
\* which the caller gets as bare metadata, without a handle.
RewrapCopy(h) ==
  /\ copies < MaxCopies
  /\ validate_explicit_wrapping_token(token[h])
  /\ copies' = copies + 1
  /\ live' = [live EXCEPT ![h] = FALSE]
  /\ UNCHANGED <<handle, call, answer, net, issued, deferred, approved, ran, sent>>

-----------------------------------------------------------------------------
(* The server and the network.                                                *)

\* Sys::authorize_control_group by enough principals, and the expiry of that.
Authorize(h) ==
  /\ deferred[h] /\ ~approved[h]
  /\ approved' = [approved EXCEPT ![h] = TRUE]
  /\ UNCHANGED <<handle, call, answer, net, issued, deferred, live, ran, sent, copies>>

Expire(h) ==
  /\ \/ live[h] /\ live' = [live EXCEPT ![h] = FALSE] /\ UNCHANGED approved
     \/ approved[h] /\ approved' = [approved EXCEPT ![h] = FALSE] /\ UNCHANGED live
  /\ UNCHANGED <<handle, call, answer, net, issued, deferred, ran, sent, copies>>

Reply(m, a) ==
  answer' = IF m.copy = 0 THEN [answer EXCEPT ![m.of] = a] ELSE answer

\* A deferred request that was executed may stay executable (OpenBao 2.7.0).
ServerExecutes(m) ==
  /\ m \in net /\ live[m.of] /\ (deferred[m.of] => approved[m.of])
  /\ net' = net \ {m}
  /\ \/ live' = [live EXCEPT ![m.of] = FALSE]
     \/ deferred[m.of] /\ UNCHANGED live
  /\ ran' = IF m.copy = 0 THEN [ran EXCEPT ![m.of] = @ + 1] ELSE ran
  /\ Reply(m, "ok")
  /\ UNCHANGED <<handle, call, issued, deferred, approved, sent, copies>>

ServerDenies(m) ==
  /\ m \in net /\ ~(live[m.of] /\ (deferred[m.of] => approved[m.of]))
  /\ net' = net \ {m}
  /\ Reply(m, "denied")
  /\ UNCHANGED <<handle, call, issued, server, sent, copies>>

Lose(m) ==
  /\ m \in net
  /\ net' = net \ {m}
  /\ UNCHANGED <<handle, call, answer, issued, server, sent, copies>>

HandleStep(h) ==
  \/ TryUnwrap(h) \/ IntoExecution(h) \/ TryExecute(h) \/ ProfileRejected(h)
  \/ ProfileAccepted(h) \/ RefusedLocally(h) \/ Send(h) \/ Accepted(h) \/ Rejected(h)
  \/ GiveUp(h) \/ UnwrapCopy(h) \/ RewrapCopy(h) \/ Authorize(h) \/ Expire(h)

Next ==
  \/ \E h \in Handles : HandleStep(h)
  \/ \E m \in net : ServerExecutes(m) \/ ServerDenies(m) \/ Lose(m)

Spec == Init /\ [][Next]_vars

-----------------------------------------------------------------------------
(* Properties *)

Tokens == {"token", "malformed", "empty"}

TypeOK ==
  /\ kind \in [Handles -> {"wrapped", "execution"}]
  /\ attempted \in [Handles -> BOOLEAN]
  /\ consumed \in [Handles -> BOOLEAN]
  /\ state \in [Handles -> {"Ready", "OutcomeUnknown", "ResponseReceived"}]
  /\ token \in [Handles -> Tokens]
  /\ accessor \in [Handles -> BOOLEAN]
  /\ call \in [Handles -> {"none", "profile", "request", "response"}]
  /\ answer \in [Handles -> {"none", "ok", "denied"}]
  /\ net \subseteq [of : Handles, copy : 0 .. MaxCopies, token : Tokens]
  /\ issued \in [Handles -> [token : Tokens, accessor : BOOLEAN]]
  /\ deferred \in [Handles -> BOOLEAN]
  /\ approved \in [Handles -> BOOLEAN]
  /\ live \in [Handles -> BOOLEAN]
  /\ sent \in [Handles -> Nat]
  /\ ran \in [Handles -> Nat]
  /\ copies \in 0 .. MaxCopies
  /\ \A h \in Handles : kind[h] = "wrapped" => state[h] = "Ready" /\ call[h] # "profile"

Unused(h) == IF kind[h] = "wrapped" THEN ~attempted[h] /\ ~consumed[h] ELSE state[h] = "Ready"

Received(h) == IF kind[h] = "wrapped" THEN consumed[h] ELSE state[h] = "ResponseReceived"

\* A handle sends its request at most once, whatever sequence of try_unwrap,
\* cancellation, failure, conversion and try_execute its owner goes through,
\* and the server executes it at most once on the handle's account.
SentOnce == \A h \in Handles : sent[h] <= 1 /\ ran[h] <= sent[h]

\* What a handle says about itself is true of the server: one that is unused
\* (is_attempted is false, or the state is Ready) has sent nothing, so nothing
\* was done for it, and one whose response was received (is_consumed, or
\* ResponseReceived) was executed.
StateIsHonest ==
  \A h \in Handles :
    /\ Unused(h) => sent[h] = 0 /\ ran[h] = 0
    /\ Received(h) => ran[h] = 1

\* The credentials stay in the handle until the response has been received, for
\* recovery, and are gone from it afterwards.
CredentialsKeptUntilReceived ==
  \A h \in Handles :
    IF Received(h) THEN token[h] = "empty" /\ ~accessor[h]
    ELSE token[h] = issued[h].token /\ accessor[h] = issued[h].accessor

\* No unwrap request is sent with an empty or malformed token, which the server
\* would read as the client's own authentication token.
NoAmbientToken == \A m \in net : m.token = "token"

Phase(h) == IF Received(h) THEN "received" ELSE IF Unused(h) THEN "unused" ELSE "uncertain"

phases == [h \in Handles |-> Phase(h)]

Abstract == INSTANCE OneAttempt WITH phase <- phases, effects <- ran

\* The handles implement the abstract one-attempt handle: in particular no
\* cancellation and no conversion brings an uncertain handle back to unused.
OneAttemptSpec == Abstract!Spec
=============================================================================
