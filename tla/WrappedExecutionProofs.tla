------------------------ MODULE WrappedExecutionProofs ------------------------
(***************************************************************************)
(* Machine-checked proofs about WrappedExecution, for any number of handles  *)
(* and any number of uses of copied tokens.                                  *)
(***************************************************************************)
EXTENDS WrappedExecution, TLAPS

-----------------------------------------------------------------------------
(* The inductive invariant, one handle at a time. *)

\* The handle's own request is under way to the server.
Travelling(h) == \E m \in net : m.of = h /\ m.copy = 0

\* How far the one request has come, seen from the handle's fields.
StageInv(h) ==
  /\ Unused(h) => sent[h] = 0 /\ call[h] \in {"none", "profile"}
  /\ call[h] = "profile" => Unused(h) /\ kind[h] = "execution"
  /\ call[h] = "request" => sent[h] = 0 /\ ~Unused(h) /\ ~Received(h) /\ token[h] = "token"
  /\ call[h] = "response" => ~Unused(h) /\ ~Received(h)
  /\ Received(h) => ran[h] = 1 /\ call[h] = "none"

\* How far it has come, seen from the network and the server.
RequestInv(h) ==
  /\ sent[h] \in 0 .. 1
  /\ ran[h] \in 0 .. 1
  /\ sent[h] = 0 => ran[h] = 0 /\ answer[h] = "none" /\ ~Travelling(h)
  /\ Travelling(h) => ran[h] = 0 /\ answer[h] = "none"
  /\ answer[h] = "ok" => ran[h] = 1

\* The two records of what happened agree.
FieldsInv(h) ==
  /\ kind[h] = "wrapped" => state[h] = "Ready"
  /\ consumed[h] <=> Received(h)
  /\ attempted[h] => ~Unused(h)

CredentialsInv(h) ==
  IF Received(h) THEN token[h] = "empty" /\ ~accessor[h]
  ELSE token[h] = issued[h].token /\ accessor[h] = issued[h].accessor

HandleInv(h) == StageInv(h) /\ RequestInv(h) /\ FieldsInv(h) /\ CredentialsInv(h)

IInv ==
  /\ TypeOK
  /\ NoAmbientToken
  /\ \A h \in Handles : HandleInv(h)

-----------------------------------------------------------------------------
(* Every step of the system preserves it. *)

USE CopiesAssumption

LEMMA TypeStep ==
  ASSUME TypeOK, Next
  PROVE  TypeOK'
<1>1. ASSUME NEW h \in Handles, TryUnwrap(h) PROVE TypeOK'
  BY <1>1 DEF TryUnwrap, TypeOK, Tokens, handle, server, Suspend, validate_explicit_wrapping_token
<1>2. ASSUME NEW h \in Handles, IntoExecution(h) PROVE TypeOK'
  BY <1>2 DEF IntoExecution, TypeOK, Tokens, handle, server
<1>3. ASSUME NEW h \in Handles, TryExecute(h) PROVE TypeOK'
  BY <1>3 DEF TryExecute, TypeOK, Tokens, handle, server, ensure_ready, Suspend
<1>4. ASSUME NEW h \in Handles, ProfileRejected(h) PROVE TypeOK'
  BY <1>4 DEF ProfileRejected, TypeOK, Tokens, handle, server, Suspend
<1>5. ASSUME NEW h \in Handles, ProfileAccepted(h) PROVE TypeOK'
  BY <1>5 DEF ProfileAccepted, TypeOK, Tokens, handle, server, ensure_ready, validate_explicit_wrapping_token, Suspend
<1>6. ASSUME NEW h \in Handles, RefusedLocally(h) PROVE TypeOK'
  BY <1>6 DEF RefusedLocally, TypeOK, Tokens, handle, server, Suspend
<1>7. ASSUME NEW h \in Handles, Send(h) PROVE TypeOK'
  BY <1>7 DEF Send, TypeOK, Tokens, handle, server, Suspend
<1>8. ASSUME NEW h \in Handles, Accepted(h) PROVE TypeOK'
  BY <1>8 DEF Accepted, TypeOK, Tokens, handle, server, Suspend, Clear
<1>9. ASSUME NEW h \in Handles, Rejected(h) PROVE TypeOK'
  BY <1>9 DEF Rejected, TypeOK, Tokens, handle, server, Suspend
<1>10. ASSUME NEW h \in Handles, GiveUp(h) PROVE TypeOK'
  BY <1>10 DEF GiveUp, TypeOK, Tokens, handle, server, Suspend
<1>11. ASSUME NEW h \in Handles, UnwrapCopy(h) PROVE TypeOK'
  BY <1>11 DEF UnwrapCopy, TypeOK, Tokens, handle, server, validate_explicit_wrapping_token
<1>12. ASSUME NEW h \in Handles, RewrapCopy(h) PROVE TypeOK'
  BY <1>12 DEF RewrapCopy, TypeOK, Tokens, handle, server
<1>13. ASSUME NEW h \in Handles, Authorize(h) PROVE TypeOK'
  BY <1>13 DEF Authorize, TypeOK, Tokens, handle, server
<1>14. ASSUME NEW h \in Handles, Expire(h) PROVE TypeOK'
  BY <1>14 DEF Expire, TypeOK, Tokens, handle, server
<1>15. ASSUME NEW m \in net, ServerExecutes(m) PROVE TypeOK'
  <2>1. m.of \in Handles
    BY DEF TypeOK
  <2>2. live' \in [Handles -> BOOLEAN]
    BY <1>15, <2>1 DEF ServerExecutes, TypeOK
  <2>4. ran' \in [Handles -> Nat]
    BY <1>15, <2>1 DEF ServerExecutes, TypeOK
  <2>3. answer' \in [Handles -> {"none", "ok", "denied"}]
    BY <1>15, <2>1 DEF ServerExecutes, Reply, TypeOK
  <2> QED
    BY <1>15, <2>2, <2>3, <2>4 DEF ServerExecutes, TypeOK, Tokens, handle
<1>16. ASSUME NEW m \in net, ServerDenies(m) PROVE TypeOK'
  BY <1>16 DEF ServerDenies, TypeOK, Tokens, handle, server, Reply
<1>17. ASSUME NEW m \in net, Lose(m) PROVE TypeOK'
  BY <1>17 DEF Lose, TypeOK, Tokens, handle, server, Reply
<1> QED
  BY <1>1, <1>2, <1>3, <1>4, <1>5, <1>6, <1>7, <1>8, <1>9, <1>10, <1>11, <1>12, <1>13, <1>14, <1>15, <1>16, <1>17 DEF Next, HandleStep

\* A handle has at most one request of its own on the network.
LEMMA OwnRequestUnique ==
  ASSUME TypeOK, NoAmbientToken, NEW m \in net, NEW n \in net,
         m.copy = 0, n.copy = 0, m.of = n.of
  PROVE  m = n
BY DEF TypeOK, NoAmbientToken

LEMMA InvStep ==
  ASSUME IInv, Next
  PROVE  IInv'
<1>0. TypeOK /\ TypeOK'
  BY TypeStep DEF IInv
<1>1. ASSUME NEW h \in Handles, TryUnwrap(h) PROVE IInv'
  BY <1>0, <1>1 DEF TryUnwrap, IInv, HandleInv, StageInv, RequestInv, FieldsInv, CredentialsInv, Travelling, Unused, Received, NoAmbientToken, handle, server, TypeOK, Tokens, Suspend, validate_explicit_wrapping_token
<1>2. ASSUME NEW h \in Handles, IntoExecution(h) PROVE IInv'
  BY <1>0, <1>2 DEF IntoExecution, IInv, HandleInv, StageInv, RequestInv, FieldsInv, CredentialsInv, Travelling, Unused, Received, NoAmbientToken, handle, server, TypeOK, Tokens
<1>3. ASSUME NEW h \in Handles, TryExecute(h) PROVE IInv'
  BY <1>0, <1>3 DEF TryExecute, IInv, HandleInv, StageInv, RequestInv, FieldsInv, CredentialsInv, Travelling, Unused, Received, NoAmbientToken, handle, server, TypeOK, Tokens, ensure_ready, Suspend
<1>4. ASSUME NEW h \in Handles, ProfileRejected(h) PROVE IInv'
  BY <1>0, <1>4 DEF ProfileRejected, IInv, HandleInv, StageInv, RequestInv, FieldsInv, CredentialsInv, Travelling, Unused, Received, NoAmbientToken, handle, server, TypeOK, Tokens, Suspend
<1>5. ASSUME NEW h \in Handles, ProfileAccepted(h) PROVE IInv'
  BY <1>0, <1>5 DEF ProfileAccepted, IInv, HandleInv, StageInv, RequestInv, FieldsInv, CredentialsInv, Travelling, Unused, Received, NoAmbientToken, handle, server, TypeOK, Tokens, ensure_ready, validate_explicit_wrapping_token, Suspend
<1>6. ASSUME NEW h \in Handles, RefusedLocally(h) PROVE IInv'
  BY <1>0, <1>6 DEF RefusedLocally, IInv, HandleInv, StageInv, RequestInv, FieldsInv, CredentialsInv, Travelling, Unused, Received, NoAmbientToken, handle, server, TypeOK, Tokens, Suspend
<1>7. ASSUME NEW h \in Handles, Send(h) PROVE IInv'
  BY <1>0, <1>7 DEF Send, IInv, HandleInv, StageInv, RequestInv, FieldsInv, CredentialsInv, Travelling, Unused, Received, NoAmbientToken, handle, server, TypeOK, Tokens, Suspend
<1>8. ASSUME NEW h \in Handles, Accepted(h) PROVE IInv'
  <2>1. NoAmbientToken'
    BY <1>8 DEF Accepted, IInv, NoAmbientToken
  <2>2. ASSUME NEW g \in Handles, g # h PROVE HandleInv(g)'
    BY <1>0, <1>8, <2>2 DEF Accepted, Suspend, Clear, server, IInv, HandleInv, StageInv, RequestInv, FieldsInv, CredentialsInv, Travelling, Unused, Received, TypeOK
  <2>3. Received(h)' /\ ~Unused(h)' /\ consumed'[h] /\ call'[h] = "none"
    BY <1>0, <1>8 DEF Accepted, Suspend, Clear, IInv, HandleInv, StageInv, FieldsInv,
                      Unused, Received, TypeOK
  <2>4. StageInv(h)' /\ RequestInv(h)'
    BY <1>0, <1>8, <2>3 DEF Accepted, IInv, HandleInv, StageInv, RequestInv, Travelling,
                            server, TypeOK
  <2>5. FieldsInv(h)' /\ CredentialsInv(h)'
    BY <1>0, <1>8, <2>3 DEF Accepted, Clear, IInv, HandleInv, FieldsInv, CredentialsInv, TypeOK
  <2> QED
    BY <1>0, <2>1, <2>2, <2>4, <2>5 DEF IInv, HandleInv
<1>9. ASSUME NEW h \in Handles, Rejected(h) PROVE IInv'
  BY <1>0, <1>9 DEF Rejected, IInv, HandleInv, StageInv, RequestInv, FieldsInv, CredentialsInv, Travelling, Unused, Received, NoAmbientToken, handle, server, TypeOK, Tokens, Suspend
<1>10. ASSUME NEW h \in Handles, GiveUp(h) PROVE IInv'
  BY <1>0, <1>10 DEF GiveUp, IInv, HandleInv, StageInv, RequestInv, FieldsInv, CredentialsInv, Travelling, Unused, Received, NoAmbientToken, handle, server, TypeOK, Tokens, Suspend
<1>11. ASSUME NEW h \in Handles, UnwrapCopy(h) PROVE IInv'
  BY <1>0, <1>11 DEF UnwrapCopy, IInv, HandleInv, StageInv, RequestInv, FieldsInv, CredentialsInv, Travelling, Unused, Received, NoAmbientToken, handle, server, TypeOK, Tokens, validate_explicit_wrapping_token
<1>12. ASSUME NEW h \in Handles, RewrapCopy(h) PROVE IInv'
  BY <1>0, <1>12 DEF RewrapCopy, IInv, HandleInv, StageInv, RequestInv, FieldsInv, CredentialsInv, Travelling, Unused, Received, NoAmbientToken, handle, server, TypeOK, Tokens
<1>13. ASSUME NEW h \in Handles, Authorize(h) PROVE IInv'
  BY <1>0, <1>13 DEF Authorize, IInv, HandleInv, StageInv, RequestInv, FieldsInv, CredentialsInv, Travelling, Unused, Received, NoAmbientToken, handle, server, TypeOK, Tokens
<1>14. ASSUME NEW h \in Handles, Expire(h) PROVE IInv'
  BY <1>0, <1>14 DEF Expire, IInv, HandleInv, StageInv, RequestInv, FieldsInv, CredentialsInv, Travelling, Unused, Received, NoAmbientToken, handle, server, TypeOK, Tokens
<1>15. ASSUME NEW m \in net, ServerExecutes(m) PROVE IInv'
  <2>1. NoAmbientToken'
    BY <1>15 DEF ServerExecutes, IInv, NoAmbientToken
  <2>2. ASSUME NEW g \in Handles PROVE HandleInv(g)'
    <3>1. /\ Unused(g)' = Unused(g) /\ Received(g)' = Received(g)
          /\ call'[g] = call[g] /\ sent'[g] = sent[g]
          /\ kind'[g] = kind[g] /\ token'[g] = token[g]
          /\ FieldsInv(g)' = FieldsInv(g) /\ CredentialsInv(g)' = CredentialsInv(g)
      BY <1>15 DEF ServerExecutes, handle, server, FieldsInv, CredentialsInv, Unused, Received
    <3>2. CASE m.of = g /\ m.copy = 0
      <4>1. Travelling(g) /\ ~Travelling(g)'
        BY <1>0, <1>15, <3>2, OwnRequestUnique DEF ServerExecutes, Travelling, IInv
      <4> QED
        BY <1>0, <1>15, <3>1, <3>2, <4>1
           DEF ServerExecutes, Reply, server, IInv, HandleInv, StageInv, RequestInv, TypeOK
    <3>3. CASE ~(m.of = g /\ m.copy = 0)
      <4>1. ran'[g] = ran[g] /\ answer'[g] = answer[g] /\ (Travelling(g)' => Travelling(g))
        BY <1>0, <1>15, <3>3 DEF ServerExecutes, Reply, server, Travelling, TypeOK
      <4> QED
        BY <3>1, <4>1 DEF IInv, HandleInv, StageInv, RequestInv
    <3> QED
      BY <3>2, <3>3
  <2> QED
    BY <1>0, <2>1, <2>2 DEF IInv
<1>16. ASSUME NEW m \in net, ServerDenies(m) PROVE IInv'
  <2>1. NoAmbientToken'
    BY <1>16 DEF ServerDenies, IInv, NoAmbientToken
  <2>2. ASSUME NEW g \in Handles PROVE HandleInv(g)'
    <3>1. /\ Unused(g)' = Unused(g) /\ Received(g)' = Received(g)
          /\ call'[g] = call[g] /\ sent'[g] = sent[g]
          /\ kind'[g] = kind[g] /\ token'[g] = token[g]
          /\ FieldsInv(g)' = FieldsInv(g) /\ CredentialsInv(g)' = CredentialsInv(g)
      BY <1>16 DEF ServerDenies, handle, server, FieldsInv, CredentialsInv, Unused, Received
    <3>2. CASE m.of = g /\ m.copy = 0
      <4>1. Travelling(g) /\ ~Travelling(g)'
        BY <1>0, <1>16, <3>2, OwnRequestUnique DEF ServerDenies, Travelling, IInv
      <4> QED
        BY <1>0, <1>16, <3>1, <3>2, <4>1
           DEF ServerDenies, Reply, server, IInv, HandleInv, StageInv, RequestInv, TypeOK
    <3>3. CASE ~(m.of = g /\ m.copy = 0)
      <4>1. ran'[g] = ran[g] /\ answer'[g] = answer[g] /\ (Travelling(g)' => Travelling(g))
        BY <1>0, <1>16, <3>3 DEF ServerDenies, Reply, server, Travelling, TypeOK
      <4> QED
        BY <3>1, <4>1 DEF IInv, HandleInv, StageInv, RequestInv
    <3> QED
      BY <3>2, <3>3
  <2> QED
    BY <1>0, <2>1, <2>2 DEF IInv
<1>17. ASSUME NEW m \in net, Lose(m) PROVE IInv'
  BY <1>0, <1>17 DEF Lose, IInv, HandleInv, StageInv, RequestInv, FieldsInv, CredentialsInv, Travelling, Unused, Received, NoAmbientToken, handle, server, TypeOK, Tokens, Reply
<1> QED
  BY <1>1, <1>2, <1>3, <1>4, <1>5, <1>6, <1>7, <1>8, <1>9, <1>10, <1>11, <1>12, <1>13, <1>14, <1>15, <1>16, <1>17 DEF Next, HandleStep

-----------------------------------------------------------------------------
(* The theorems. *)

LEMMA InvInit == Init => IInv
BY DEF Init, IInv, TypeOK, Tokens, NoAmbientToken, HandleInv, StageInv, RequestInv, FieldsInv,
       CredentialsInv, Travelling, Unused, Received

LEMMA InvStutter ==
  ASSUME IInv, UNCHANGED vars
  PROVE  IInv'
BY DEF vars, handle, server, IInv, TypeOK, NoAmbientToken, HandleInv, StageInv, RequestInv,
       FieldsInv, CredentialsInv, Travelling, Unused, Received

LEMMA Invariance == Spec => []IInv
<1>1. IInv /\ [Next]_vars => IInv'
  BY InvStep, InvStutter
<1> QED
  BY InvInit, <1>1, PTL DEF Spec

\* The handles and the server's records keep their types; only a converted
\* handle has an execution state or waits for the profile check.
THEOREM TypeCorrect == Spec => []TypeOK
<1>1. IInv => TypeOK
  BY DEF IInv
<1> QED
  BY Invariance, <1>1, PTL

\* However many handles there are and whatever their owners do, each sends its
\* unwrap request at most once, and it is executed at most once.
THEOREM AtMostOneRequest == Spec => []SentOnce
<1>1. IInv => SentOnce
  BY DEF IInv, HandleInv, RequestInv, SentOnce
<1> QED
  BY Invariance, <1>1, PTL

\* Ready (and is_attempted() = false) is a guarantee that nothing was sent, and
\* a claimed response stands for one execution by the server.
THEOREM HonestStates == Spec => []StateIsHonest
<1>1. IInv => StateIsHonest
  BY DEF IInv, HandleInv, RequestInv, StageInv, StateIsHonest
<1> QED
  BY Invariance, <1>1, PTL

\* The token and the accessor survive every failure and cancellation, and no
\* success leaves them behind.
THEOREM CredentialsKept == Spec => []CredentialsKeptUntilReceived
<1>1. IInv => CredentialsKeptUntilReceived
  BY DEF IInv, HandleInv, CredentialsInv, CredentialsKeptUntilReceived
<1> QED
  BY Invariance, <1>1, PTL

\* An empty token never reaches the server, not even from a spent handle.
THEOREM AmbientTokenUnused == Spec => []NoAmbientToken
<1>1. IInv => NoAmbientToken
  BY DEF IInv
<1> QED
  BY Invariance, <1>1, PTL

-----------------------------------------------------------------------------
(* The refinement. *)

\* A step that leaves every handle's phase alone leaves the abstract variable
\* alone, and one that moves a single handle is an EXCEPT of it.
LEMMA PhaseFrame ==
  /\ (\A g \in Handles : Phase(g)' = Phase(g)) => phases' = phases
  /\ \A h \in Handles : \A p :
        Phase(h)' = p /\ (\A g \in Handles \ {h} : Phase(g)' = Phase(g))
          => phases' = [phases EXCEPT ![h] = p]
BY DEF phases

\* The handles implement the abstract one-attempt handle of OneAttempt, for any
\* number of handles: no cancellation, failure or conversion un-attempts one.
THEOREM ImplementsOneAttempt == Spec => OneAttemptSpec
<1>1. Init => Abstract!Init
  BY DEF Init, Abstract!Init, phases, Phase, Unused, Received
<1>2. IInv /\ [Next]_vars => [Abstract!Next]_(Abstract!vars)
  <2> SUFFICES ASSUME IInv, [Next]_vars PROVE [Abstract!Next]_(Abstract!vars)
    OBVIOUS
  <2> USE DEF Abstract!vars
  <2>0. TypeOK
    BY DEF IInv
  <2>1. CASE UNCHANGED vars
    BY <2>1, PhaseFrame DEF vars, handle, server, Phase, Unused, Received
  <2>2. ASSUME NEW h \in Handles,
               \/ TryExecute(h) \/ ProfileRejected(h) \/ RefusedLocally(h) \/ Send(h)
               \/ Rejected(h) \/ GiveUp(h) \/ UnwrapCopy(h) \/ RewrapCopy(h)
               \/ Authorize(h) \/ Expire(h)
        PROVE  UNCHANGED Abstract!vars
    BY <2>2, PhaseFrame
       DEF TryExecute, ProfileRejected, RefusedLocally, Send, Rejected, GiveUp, UnwrapCopy,
           RewrapCopy, Authorize, Expire, handle, server, Phase, Unused, Received
  <2>3. ASSUME NEW h \in Handles, IntoExecution(h) PROVE UNCHANGED Abstract!vars
    <3>1. \A g \in Handles : Phase(g)' = Phase(g)
      BY <2>0, <2>3 DEF IntoExecution, TypeOK, Phase, Unused, Received
    <3> QED
      BY <2>3, <3>1, PhaseFrame DEF IntoExecution, server
  <2>4. ASSUME NEW h \in Handles, TryUnwrap(h) \/ ProfileAccepted(h) PROVE Abstract!Begin(h)
    <3>1. phases[h] = "unused"
      BY <2>0, <2>4 DEF IInv, HandleInv, StageInv, TryUnwrap, ProfileAccepted, ensure_ready,
                        phases, Phase, Unused, Received
    <3>2. Phase(h)' = "uncertain"
      BY <2>0, <2>4 DEF IInv, HandleInv, StageInv, TryUnwrap, ProfileAccepted, ensure_ready,
                        TypeOK, Phase, Unused, Received
    <3>3. \A g \in Handles \ {h} : Phase(g)' = Phase(g)
      BY <2>0, <2>4 DEF TryUnwrap, ProfileAccepted, TypeOK, Phase, Unused, Received
    <3> QED
      BY <2>4, <3>1, <3>2, <3>3, PhaseFrame DEF TryUnwrap, ProfileAccepted, server, Abstract!Begin
  <2>5. ASSUME NEW h \in Handles, Accepted(h) PROVE Abstract!Receive(h)
    <3>1. phases[h] = "uncertain" /\ ran[h] = 1
      BY <2>0, <2>5 DEF IInv, HandleInv, StageInv, RequestInv, Accepted, phases, Phase
    <3>2. Phase(h)' = "received"
      BY <2>0, <2>5 DEF Accepted, Clear, TypeOK, Phase, Received
    <3>3. \A g \in Handles \ {h} : Phase(g)' = Phase(g)
      BY <2>0, <2>5 DEF Accepted, Clear, TypeOK, Phase, Unused, Received
    <3> QED
      BY <2>5, <3>1, <3>2, <3>3, PhaseFrame DEF Accepted, server, Abstract!Receive
  <2>6. ASSUME NEW m \in net, ServerDenies(m) \/ Lose(m) PROVE UNCHANGED Abstract!vars
    BY <2>6, PhaseFrame DEF ServerDenies, Lose, handle, server, Phase, Unused, Received
  <2>7. ASSUME NEW m \in net, ServerExecutes(m)
        PROVE  UNCHANGED Abstract!vars \/ Abstract!TakeEffect(m.of)
    <3>1. phases' = phases
      BY <2>7, PhaseFrame DEF ServerExecutes, handle, Phase, Unused, Received
    <3>2. CASE m.copy # 0
      BY <2>7, <3>1, <3>2 DEF ServerExecutes
    <3>3. CASE m.copy = 0
      <4>1. m.of \in Handles /\ Travelling(m.of)
        BY <2>0, <3>3 DEF Travelling, TypeOK
      <4>2. ran[m.of] = 0 /\ phases[m.of] = "uncertain"
        BY <2>0, <4>1 DEF IInv, HandleInv, StageInv, RequestInv, phases, Phase, TypeOK
      <4> QED
        BY <2>7, <3>1, <3>3, <4>1, <4>2 DEF ServerExecutes, Abstract!TakeEffect
    <3> QED
      BY <3>2, <3>3
  <2> QED
    BY <2>0, <2>1, <2>2, <2>3, <2>4, <2>5, <2>6, <2>7
       DEF Next, HandleStep, Abstract!Next, TypeOK
<1> QED
  BY <1>1, <1>2, Invariance, PTL DEF Spec, OneAttemptSpec, Abstract!Spec
=============================================================================
