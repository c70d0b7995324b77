------------------------- MODULE RequestPipelineProofs -------------------------
(***************************************************************************)
(* Machine-checked proofs about RequestPipeline, for every retry policy,     *)
(* every limit and every length of requests, answers and their chunks.       *)
(***************************************************************************)
EXTENDS RequestPipeline, WellFoundedInduction, TLAPS

-----------------------------------------------------------------------------
(* Functions defined by recursion on the natural numbers. *)

\* Every set of natural numbers that is not empty has a least one.
LEMMA LeastNat ==
  ASSUME NEW T \in SUBSET Nat, T # {}
  PROVE  \E x \in T : \A y \in T : x <= y
<1>1. PICK x \in T : \A y \in T : <<y, x>> \notin OpToRel(<, Nat)
  BY WFMin, NatLessThanWellFounded
<1>2. OpToRel(<, Nat) = {p \in Nat \X Nat : p[1] < p[2]}
  BY DEF OpToRel
<1> DEFINE R == OpToRel(<, Nat)
<1> HIDE DEF R
<1>3. R = {p \in Nat \X Nat : p[1] < p[2]}
  BY <1>2 DEF R
<1>4. \A y \in T : <<y, x>> \notin R
  BY <1>1 DEF R
<1>5. ASSUME NEW y \in T PROVE x <= y
  <2>1. SUFFICES ASSUME y < x PROVE FALSE
    OBVIOUS
  <2> DEFINE q == <<y, x>>
  <2>2. q \in Nat \X Nat /\ q[1] = y /\ q[2] = x
    OBVIOUS
  <2> HIDE DEF q
  <2>3. q \in R
    BY <1>3, <2>1, <2>2
  <2> QED BY <1>4, <2>3 DEF q
<1> QED BY <1>5

\* Induction, stated of a set so that it can be used with any predicate.
LEMMA SetInduction ==
  ASSUME NEW S, 0 \in S, \A n \in Nat : n \in S => n + 1 \in S
  PROVE  Nat \subseteq S
<1> SUFFICES ASSUME Nat \ S # {} PROVE FALSE
  OBVIOUS
<1>1. PICK x \in Nat \ S : \A y \in Nat \ S : x <= y
  BY LeastNat
<1>2. x # 0 /\ x - 1 \in Nat
  BY <1>1
<1>3. x - 1 \in S
  BY <1>1, <1>2
<1> QED BY <1>1, <1>2, <1>3


\* f begins with x0 and goes on by the step H.
Follows(f, S, x0, H) ==
  f \in [Nat -> S] /\ f[0] = x0 /\ \A n \in Nat : f[n + 1] = H[n][f[n]]

\* A function on the naturals may be defined by its first value and a step.
LEMMA PrimitiveRecursion ==
  ASSUME NEW S, NEW x0 \in S, NEW H \in [Nat -> [S -> S]]
  PROVE  \E f : Follows(f, S, x0, H)
<1> DEFINE Part(n, g) == /\ g \in [0 .. n -> S]
                         /\ g[0] = x0
                         /\ \A k \in 0 .. n - 1 : g[k + 1] = H[k][g[k]]
           T == {n \in Nat : \E g : Part(n, g)}
<1>1. ASSUME NEW n \in Nat PROVE \E g : Part(n, g)
  <2>1. 0 \in T
    <3>1. Part(0, [k \in 0 .. 0 |-> x0])
      OBVIOUS
    <3> QED BY <3>1
  <2>2. ASSUME NEW i \in Nat, i \in T PROVE i + 1 \in T
    <3>1. PICK g : Part(i, g)
      BY <2>2
    <3> DEFINE h == [k \in 0 .. i + 1 |-> IF k <= i THEN g[k] ELSE H[i][g[i]]]
    <3>2. h \in [0 .. i + 1 -> S]
      <4>1. g[i] \in S /\ H[i][g[i]] \in S
        BY <3>1
      <4>2. ASSUME NEW k \in 0 .. i + 1, k <= i PROVE g[k] \in S
        BY <3>1, <4>2
      <4> QED BY <4>1, <4>2
    <3>3. h[0] = x0
      BY <3>1
    <3>4. ASSUME NEW k \in 0 .. (i + 1) - 1 PROVE h[k + 1] = H[k][h[k]]
      <4>1. CASE k = i
        BY <4>1
      <4>2. CASE k # i
        BY <3>1, <4>2
      <4> QED BY <4>1, <4>2
    <3>5. Part(i + 1, h)
      BY <3>2, <3>3, <3>4
    <3> HIDE DEF h, Part
    <3> QED BY <3>5
  <2> HIDE DEF T
  <2>3. Nat \subseteq T
    BY <2>1, <2>2, SetInduction
  <2> QED BY <2>3 DEF T
<1>2. ASSUME NEW m \in Nat, NEW g, NEW h, Part(m, g), Part(m + 1, h)
      PROVE  g[m] = h[m]
  <2> DEFINE U == {k \in Nat : k <= m => g[k] = h[k]}
  <2>1. 0 \in U
    BY <1>2
  <2>2. ASSUME NEW i \in Nat, i \in U PROVE i + 1 \in U
    <3>1. CASE i + 1 <= m
      <4>1. i \in 0 .. m - 1 /\ i \in 0 .. (m + 1) - 1 /\ i <= m
        BY <3>1
      <4>2. g[i] = h[i]
        BY <2>2, <4>1
      <4>3. g[i + 1] = H[i][g[i]] /\ h[i + 1] = H[i][h[i]]
        BY <1>2, <4>1
      <4> QED BY <4>2, <4>3
    <3>2. CASE ~(i + 1 <= m)
      BY <3>2
    <3> QED BY <3>1, <3>2
  <2> HIDE DEF U
  <2>3. m \in U
    BY <2>1, <2>2, SetInduction
  <2> QED BY <2>3 DEF U
<1> DEFINE G(n) == CHOOSE g : Part(n, g)
           f == [n \in Nat |-> G(n)[n]]
<1>3. ASSUME NEW n \in Nat PROVE Part(n, G(n))
  BY <1>1
<1> HIDE DEF G
<1>4. f \in [Nat -> S] /\ f[0] = x0
  <2>1. ASSUME NEW n \in Nat PROVE G(n)[n] \in S
    BY <1>3
  <2>2. G(0)[0] = x0
    BY <1>3
  <2> QED BY <2>1, <2>2
<1>5. ASSUME NEW n \in Nat PROVE f[n + 1] = H[n][f[n]]
  <2>1. Part(n, G(n)) /\ Part(n + 1, G(n + 1))
    BY <1>3
  <2>2. G(n)[n] = G(n + 1)[n]
    <3> HIDE DEF Part
    <3> QED BY <1>2, <2>1
  <2>3. G(n + 1)[n + 1] = H[n][G(n + 1)[n]]
    BY <2>1
  <2> QED BY <2>2, <2>3
<1>6. Follows(f, S, x0, H)
  BY <1>4, <1>5 DEF Follows
<1> QED BY <1>6

-----------------------------------------------------------------------------
(* RetryPolicy *)

LEMMA MinOfTwo ==
  ASSUME NEW a \in Int, NEW b \in Int
  PROVE  Min({a, b}) = IF a <= b THEN a ELSE b
<1> DEFINE m == IF a <= b THEN a ELSE b
<1>1. m \in {a, b} /\ \A y \in {a, b} : m <= y
  OBVIOUS
<1>2. ASSUME NEW x \in {a, b}, \A y \in {a, b} : x <= y PROVE x = m
  BY <1>2
<1> QED BY <1>1, <1>2 DEF Min

\* The multiplier is a power of two, never zero.
LEMMA ShlDef ==
  /\ shl \in [Nat -> Nat \ {0}]
  /\ shl[0] = 1 /\ \A n \in Nat : shl[n + 1] = 2 * shl[n]
<1> DEFINE H == [n \in Nat |-> [x \in Nat \ {0} |-> 2 * x]]
<1>1. H \in [Nat -> [Nat \ {0} -> Nat \ {0}]]
  OBVIOUS
<1>2. PICK f : Follows(f, Nat \ {0}, 1, H)
  <2>1. 1 \in Nat \ {0}
    OBVIOUS
  <2> HIDE DEF H
  <2> QED BY <1>1, <2>1, PrimitiveRecursion, Zenon
<1>3. f \in [Nat -> Nat \ {0}] /\ f[0] = 1 /\ \A n \in Nat : f[n + 1] = 2 * f[n]
  BY <1>2 DEF Follows
<1> DEFINE Solves(g) == g = [n \in Nat |-> IF n = 0 THEN 1 ELSE 2 * g[n - 1]]
<1>4. Solves(f)
  <2>1. ASSUME NEW n \in Nat PROVE f[n] = IF n = 0 THEN 1 ELSE 2 * f[n - 1]
    <3>1. CASE n # 0
      <4>1. n - 1 \in Nat /\ (n - 1) + 1 = n
        BY <3>1
      <4> QED BY <3>1, <4>1, <1>3
    <3> QED BY <3>1, <1>3
  <2> QED BY <2>1, <1>3
<1>5. shl = CHOOSE g : Solves(g)
  BY DEF shl
<1>6. Solves(shl)
  <2> HIDE DEF Solves
  <2> QED BY <1>4, <1>5
<1>7. shl[0] = 1 /\ \A n \in Nat : shl[n + 1] = 2 * shl[n]
  <2>1. shl[0] = 1
    BY <1>6
  <2>2. ASSUME NEW n \in Nat PROVE shl[n + 1] = 2 * shl[n]
    <3>1. n + 1 \in Nat /\ n + 1 # 0 /\ (n + 1) - 1 = n
      OBVIOUS
    <3> QED BY <1>6, <3>1
  <2> QED BY <2>1, <2>2
<1>8. shl \in [Nat -> Nat \ {0}]
  <2> DEFINE P == {n \in Nat : shl[n] \in Nat \ {0}}
  <2>1. 0 \in P
    BY <1>7
  <2>2. ASSUME NEW n \in Nat, n \in P PROVE n + 1 \in P
    BY <1>7, <2>2
  <2> HIDE DEF P
  <2>3. Nat \subseteq P
    BY <2>1, <2>2, SetInduction
  <2>4. \A n \in Nat : shl[n] \in Nat \ {0}
    BY <2>3 DEF P
  <2>5. shl = [n \in Nat |-> shl[n]]
    BY <1>6
  <2> QED BY <2>4, <2>5
<1> QED BY <1>7, <1>8
LEMMA BaseRange ==
  ASSUME NEW i \in Nat
  PROVE  Base(i) \in Nat /\ Base(i) <= MaxDelay
<1>1. Min({i, 31}) \in Nat
  BY MinOfTwo
<1>2. shl[Min({i, 31})] \in Nat
  BY <1>1, ShlDef
<1> DEFINE m == InitialDelay * shl[Min({i, 31})]
<1>3. m \in Nat /\ MaxDelay \in Nat
  BY <1>2, PolicyAssumption
<1> HIDE DEF m
<1>4. Min({m, MaxDelay}) = IF m <= MaxDelay THEN m ELSE MaxDelay
  BY <1>3, MinOfTwo
<1> QED BY <1>3, <1>4 DEF Base, m

\* Jitter only lengthens a delay, and never beyond the maximum.
LEMMA DelayRange ==
  ASSUME NEW i \in Nat, NEW d \in delay_for_retry(i)
  PROVE  d \in Nat /\ Base(i) <= d /\ d <= MaxDelay
<1>1. Base(i) \in Nat /\ Base(i) <= MaxDelay /\ MaxDelay \in Nat
  BY BaseRange, PolicyAssumption
<1>2. (Base(i) * JitterPercent) \div 100 \in Int
  BY <1>1, PolicyAssumption
<1>3. PICK j \in 0 .. (Base(i) * JitterPercent) \div 100 : d = Min({Base(i) + j, MaxDelay})
  BY DEF delay_for_retry
<1>4. j \in Nat
  BY <1>2, <1>3
<1>5. d = IF Base(i) + j <= MaxDelay THEN Base(i) + j ELSE MaxDelay
  BY <1>1, <1>3, <1>4, MinOfTwo
<1> QED BY <1>1, <1>4, <1>5

LEMMA BackoffDef ==
  /\ Backoff \in [Nat -> Nat]
  /\ Backoff[0] = 0 /\ \A n \in Nat : Backoff[n + 1] = Backoff[n] + Base(n)
<1> DEFINE H == [n \in Nat |-> [x \in Nat |-> x + Base(n)]]
<1>1. H \in [Nat -> [Nat -> Nat]]
  BY BaseRange
<1>2. PICK f : Follows(f, Nat, 0, H)
  <2>1. 0 \in Nat
    OBVIOUS
  <2> HIDE DEF H
  <2> QED BY <1>1, <2>1, PrimitiveRecursion, Zenon
<1>3. f \in [Nat -> Nat] /\ f[0] = 0 /\ \A n \in Nat : f[n + 1] = f[n] + Base(n)
  BY <1>2 DEF Follows
<1> DEFINE Solves(g) == g = [n \in Nat |-> IF n = 0 THEN 0 ELSE g[n - 1] + Base(n - 1)]
<1>4. Solves(f)
  <2>1. ASSUME NEW n \in Nat PROVE f[n] = IF n = 0 THEN 0 ELSE f[n - 1] + Base(n - 1)
    <3>1. CASE n # 0
      <4>1. n - 1 \in Nat /\ (n - 1) + 1 = n
        BY <3>1
      <4> QED BY <3>1, <4>1, <1>3
    <3> QED BY <3>1, <1>3
  <2> QED BY <2>1, <1>3
<1>5. Backoff = CHOOSE g : Solves(g)
  BY DEF Backoff
<1>6. Solves(Backoff)
  <2> HIDE DEF Solves
  <2> QED BY <1>4, <1>5
<1>7. Backoff[0] = 0 /\ \A n \in Nat : Backoff[n + 1] = Backoff[n] + Base(n)
  <2>1. Backoff[0] = 0
    BY <1>6
  <2>2. ASSUME NEW n \in Nat PROVE Backoff[n + 1] = Backoff[n] + Base(n)
    <3>1. n + 1 \in Nat /\ n + 1 # 0 /\ (n + 1) - 1 = n
      OBVIOUS
    <3> QED BY <1>6, <3>1
  <2> QED BY <2>1, <2>2
<1>8. Backoff \in [Nat -> Nat]
  <2> DEFINE P == {n \in Nat : Backoff[n] \in Nat}
  <2>1. 0 \in P
    BY <1>7
  <2>2. ASSUME NEW n \in Nat, n \in P PROVE n + 1 \in P
    BY <1>7, <2>2, BaseRange
  <2> HIDE DEF P
  <2>3. Nat \subseteq P
    BY <2>1, <2>2, SetInduction
  <2>4. \A n \in Nat : Backoff[n] \in Nat
    BY <2>3 DEF P
  <2>5. Backoff = [n \in Nat |-> Backoff[n]]
    BY <1>6
  <2> QED BY <2>4, <2>5
<1> QED BY <1>7, <1>8
-----------------------------------------------------------------------------
(* The inductive invariant. *)

\* One request per attempt: sent in every phase after the first, and each
\* attempt but the current one has failed temporarily.
CountInv ==
  /\ attempt <= max_attempts
  /\ pc = "attempt" => Len(wire) = attempt - 1 /\ failures = attempt - 1
  /\ pc \in {"upload", "status", "body"} => Len(wire) = attempt /\ failures = attempt - 1
  /\ pc = "delay" => Len(wire) = attempt /\ failures = attempt /\ attempt < max_attempts
  /\ pc = "done" => Len(wire) \in {attempt - 1, attempt} /\ failures >= attempt - 1
  /\ result \in Temporary => Len(wire) = max_attempts

\* An upload has handed over what it no longer owes, its body ends when it owes
\* nothing, and a stream that broke off ends the call.
UploadInv ==
  /\ pc = "upload" => kind = "upload"
  /\ pc \in {"status", "body"} => kind # "upload"
  /\ kind = "upload" =>
       /\ sent + remaining = size
       /\ complete => remaining = 0 /\ ~short
       /\ short => pc = "done"
       /\ result = "Ok" => complete

\* Only a call that reads a body has one to read.
AnswerInv ==
  /\ pc = "body" => kind \notin {"upload", "stream"}
  /\ kind \in {"upload", "stream"} => total = 0 /\ got = 0
  /\ AnswerIsComplete

IInv ==
  /\ TypeOK
  /\ CarriesItsParts
  /\ CountInv
  /\ UploadInv
  /\ AnswerInv
  /\ BackoffBounds

-----------------------------------------------------------------------------
(* Its proof. *)

LEMMA InitIInv == Init => IInv
<1> SUFFICES ASSUME Init PROVE IInv
  OBVIOUS
<1>1. size \in Nat /\ parts \subseteq Parts
  BY SizeAssumption DEF Init, PartsOf, Parts, Kinds
<1>2. TypeOK
  <2>1. complete \in BOOLEAN /\ short \in BOOLEAN /\ errors \in BOOLEAN
    BY Zenon DEF Init
  <2> QED BY <1>1, <2>1, PolicyAssumption, SizeAssumption DEF Init, TypeOK, Temporary
<1>3. CarriesItsParts /\ AnswerInv
  BY DEF Init, CarriesItsParts, AnswerInv, AnswerIsComplete
<1>4. CountInv
  BY PolicyAssumption DEF Init, CountInv, max_attempts, Temporary
<1>5. UploadInv
  BY <1>1 DEF Init, UploadInv
<1>6. BackoffBounds
  BY BackoffDef, PolicyAssumption DEF Init, BackoffBounds
<1> QED BY <1>2, <1>3, <1>4, <1>5, <1>6 DEF IInv

\* No action changes what the call is.
LEMMA CallIsFixed == [Next]_vars => UNCHANGED call
BY DEF Next, Step, vars, call, Done, Delay, Refuse, SendSensitive, SendPlain, Sent, BadHead,
   TransportFails, StatusOnly, SourceFails, SourceEnds, Produce, Rejected, Accepted, Chunk,
   EndOfBody, NoContent

\* Only the delay touches the counters of the loop, and it keeps the bounds.
LEMMA NextBackoff == TypeOK /\ BackoffBounds /\ [Next]_vars => BackoffBounds'
<1> SUFFICES ASSUME TypeOK, BackoffBounds, [Next]_vars PROVE BackoffBounds'
  OBVIOUS
<1>1. CASE Delay
  <2>1. /\ retry_index \in Nat /\ retry_index' = retry_index + 1 /\ waited \in Nat
        /\ MaxDelay \in Nat
    BY <1>1, PolicyAssumption DEF Delay, TypeOK
  <2>2. PICK d \in delay_for_retry(retry_index) : waited' = waited + d
    BY <1>1 DEF Delay
  <2>3. d \in Nat /\ Base(retry_index) <= d /\ d <= MaxDelay
    BY <2>1, DelayRange
  <2>4. /\ Backoff[retry_index'] = Backoff[retry_index] + Base(retry_index)
        /\ Backoff[retry_index] \in Nat
    BY <2>1, BackoffDef
  <2>5. Base(retry_index) \in Nat
    BY <2>1, BaseRange
  <2>6. waited' >= Backoff[retry_index']
    BY <2>1, <2>2, <2>3, <2>4, <2>5 DEF BackoffBounds
  <2>7. /\ (retry_index + 1) * MaxDelay = retry_index * MaxDelay + MaxDelay
        /\ retry_index * MaxDelay \in Nat
    BY <2>1
  <2>8. waited' <= retry_index' * MaxDelay
    BY <2>1, <2>2, <2>3, <2>7 DEF BackoffBounds
  <2> QED BY <2>6, <2>8 DEF BackoffBounds
<1>2. CASE ~Delay
  <2>1. UNCHANGED counters
    BY <1>2 DEF Next, Step, vars, Done, Refuse, SendSensitive, SendPlain, Sent, BadHead,
       TransportFails, StatusOnly, SourceFails, SourceEnds, Produce, Rejected, Accepted, Chunk,
       EndOfBody, NoContent
  <2> QED BY <2>1 DEF BackoffBounds, counters
<1> QED BY <1>1, <1>2

\* An attempt that fails either leads to a delay, when the error is temporary and
\* attempts are left, or ends the call with the error.
LEMMA FailedType ==
  ASSUME TypeOK, pc # "done", NEW error \in {"Refused", "Decode", "Denied"} \cup Temporary,
         NEW e \in BOOLEAN, Failed(error, e)
  PROVE  /\ pc' \in {"delay", "done"} /\ failures' \in Nat /\ errors' \in BOOLEAN
         /\ result' \in {"none", "Ok", "Refused", "Decode", "Denied"} \cup Temporary
         /\ pc' = "done" <=> result' # "none"
<1>1. CASE attempt < max_attempts /\ error \in Temporary
  BY <1>1 DEF Failed, TypeOK
<1>2. CASE ~(attempt < max_attempts /\ error \in Temporary)
  <2>1. pc' = "done" /\ result' = error /\ errors' = e
    BY <1>2 DEF Failed, Return
  <2>2. failures' = failures + (IF error \in Temporary THEN 1 ELSE 0)
    BY <1>2 DEF Failed
  <2>3. failures' \in Nat
    BY <2>2 DEF TypeOK
  <2> QED BY <2>1, <2>3 DEF Temporary
<1> QED BY <1>1, <1>2

\* A request that was sent and failed has used its attempt.
LEMMA FailedCount ==
  ASSUME TypeOK, CountInv, pc \in {"upload", "status", "body"},
         NEW error \in {"Refused", "Decode", "Denied"} \cup Temporary, NEW e,
         Failed(error, e), UNCHANGED <<call, counters, wire>>
  PROVE  CountInv'
<1>1. max_attempts' = max_attempts
  BY DEF max_attempts, call
<1>2. Len(wire) = attempt /\ failures = attempt - 1 /\ attempt \in Nat
  BY DEF CountInv, TypeOK
<1>3. attempt <= max_attempts /\ max_attempts \in Nat
  BY PolicyAssumption DEF CountInv, max_attempts
<1>4. CASE attempt < max_attempts /\ error \in Temporary
  <2>1. pc' = "delay" /\ failures' = failures + 1 /\ result' = result /\ result = "none"
    BY <1>4 DEF Failed, TypeOK
  <2> QED BY <1>1, <1>2, <1>4, <2>1 DEF CountInv, counters, Temporary
<1>5. CASE ~(attempt < max_attempts /\ error \in Temporary)
  <2>1. pc' = "done" /\ result' = error
    BY <1>5 DEF Failed, Return
  <2>2. failures' = failures + (IF error \in Temporary THEN 1 ELSE 0)
    BY <1>5 DEF Failed
  <2> QED BY <1>1, <1>2, <1>3, <1>5, <2>1, <2>2 DEF CountInv, counters
<1> QED BY <1>4, <1>5

LEMMA NextType == IInv /\ [Next]_vars => TypeOK'
<1> SUFFICES ASSUME IInv, [Next]_vars PROVE TypeOK'
  OBVIOUS
<1> USE DEF IInv, call, counters, upload, answer
<1>0. CASE UNCHANGED vars
  BY <1>0 DEF vars, TypeOK, CountInv, max_attempts
<1>1. CASE Delay
  <2>1. PICK d \in delay_for_retry(retry_index) : waited' = waited + d
    BY <1>1 DEF Delay
  <2>2. waited' \in Nat
    BY <2>1, DelayRange DEF TypeOK
  <2>3. attempt + 1 \in 1 .. MaxAttempts
    BY <1>1, PolicyAssumption DEF Delay, TypeOK, CountInv, max_attempts
  <2> QED BY <1>1, <2>2, <2>3 DEF Delay, TypeOK
<1>2. CASE Refuse
  <2>1. /\ Failed("Refused", FALSE) /\ pc # "done"
        /\ "Refused" \in {"Refused", "Decode", "Denied"} \cup Temporary
    BY <1>2 DEF Refuse, Temporary
  <2>2. UNCHANGED <<call, counters, upload, answer, wire>>
    BY <1>2 DEF Refuse
  <2>3. /\ pc' \in {"delay", "done"} /\ failures' \in Nat /\ errors' \in BOOLEAN
        /\ result' \in {"none", "Ok", "Refused", "Decode", "Denied"} \cup Temporary
        /\ pc' = "done" <=> result' # "none"
    BY <2>1, FailedType
  <2> QED BY <2>2, <2>3 DEF TypeOK
<1>3. CASE SendSensitive
  BY <1>3, PolicyAssumption, SizeAssumption
  DEF TypeOK, CountInv, max_attempts, SendSensitive, Sent
<1>4. CASE SendPlain
  BY <1>4, PolicyAssumption, SizeAssumption
  DEF TypeOK, CountInv, max_attempts, SendPlain, Sent, is_sensitive
<1>5. CASE BadHead
  <2>1. /\ Failed("Decode", FALSE) /\ pc # "done"
        /\ "Decode" \in {"Refused", "Decode", "Denied"} \cup Temporary
    BY <1>5 DEF BadHead, ReadsBody, Temporary
  <2>2. UNCHANGED <<call, counters, upload, answer, wire>>
    BY <1>5 DEF BadHead
  <2>3. /\ pc' \in {"delay", "done"} /\ failures' \in Nat /\ errors' \in BOOLEAN
        /\ result' \in {"none", "Ok", "Refused", "Decode", "Denied"} \cup Temporary
        /\ pc' = "done" <=> result' # "none"
    BY <2>1, FailedType
  <2> QED BY <2>2, <2>3 DEF TypeOK
<1>6. CASE TransportFails
  <2>1. /\ Failed("Transport", FALSE) /\ pc # "done"
        /\ "Transport" \in {"Refused", "Decode", "Denied"} \cup Temporary
    BY <1>6 DEF TransportFails, AwaitingStatus, Temporary
  <2>2. UNCHANGED <<call, counters, upload, answer, wire>>
    BY <1>6 DEF TransportFails
  <2>3. /\ pc' \in {"delay", "done"} /\ failures' \in Nat /\ errors' \in BOOLEAN
        /\ result' \in {"none", "Ok", "Refused", "Decode", "Denied"} \cup Temporary
        /\ pc' = "done" <=> result' # "none"
    BY <2>1, FailedType
  <2> QED BY <2>2, <2>3 DEF TypeOK
<1>7. CASE StatusOnly
  BY <1>7, PolicyAssumption, SizeAssumption
  DEF TypeOK, CountInv, max_attempts, StatusOnly, Return
<1>8. CASE SourceFails
  <2>1. /\ Failed("Transport", FALSE) /\ pc # "done"
        /\ "Transport" \in {"Refused", "Decode", "Denied"} \cup Temporary
    BY <1>8 DEF SourceFails, Temporary
  <2>2. UNCHANGED <<call, counters, answer, wire>>
    BY <1>8 DEF SourceFails
  <2>3. /\ pc' \in {"delay", "done"} /\ failures' \in Nat /\ errors' \in BOOLEAN
        /\ result' \in {"none", "Ok", "Refused", "Decode", "Denied"} \cup Temporary
        /\ pc' = "done" <=> result' # "none"
    BY <2>1, FailedType
  <2>4. remaining' = remaining /\ sent' = sent /\ complete' = complete /\ short' \in BOOLEAN
    BY <1>8 DEF SourceFails
  <2> QED BY <2>2, <2>3, <2>4 DEF TypeOK
<1>9. CASE SourceEnds
  <2>1. CASE remaining = 0
    BY <1>9, <2>1 DEF SourceEnds, TypeOK
  <2>2. CASE remaining # 0
    <3>1. Failed("Transport", FALSE) /\ pc # "done" /\ "Transport" \in Temporary
      BY <1>9, <2>2 DEF SourceEnds, Temporary
    <3>2. /\ pc' \in {"delay", "done"} /\ failures' \in Nat /\ errors' \in BOOLEAN
          /\ result' \in {"none", "Ok", "Refused", "Decode", "Denied"} \cup Temporary
          /\ pc' = "done" <=> result' # "none"
      BY <3>1, FailedType
    <3> QED BY <1>9, <2>2, <3>2 DEF SourceEnds, TypeOK
  <2> QED BY <2>1, <2>2
<1>10. ASSUME NEW n \in ChunkSizes \cup {0}, Produce(n) PROVE TypeOK'
  <2>1. CASE n = 0 \/ n > remaining
    <3>1. Failed("Transport", FALSE) /\ pc # "done" /\ "Transport" \in Temporary
      BY <1>10, <2>1 DEF Produce, Temporary
    <3>2. /\ pc' \in {"delay", "done"} /\ failures' \in Nat /\ errors' \in BOOLEAN
          /\ result' \in {"none", "Ok", "Refused", "Decode", "Denied"} \cup Temporary
          /\ pc' = "done" <=> result' # "none"
      BY <3>1, FailedType
    <3>3. short' \in BOOLEAN
      BY <1>10, <2>1 DEF Produce
    <3> QED BY <1>10, <2>1, <3>2, <3>3 DEF Produce, TypeOK
  <2>2. CASE ~(n = 0 \/ n > remaining)
    <3>1. remaining' \in Nat /\ sent' \in Nat
      BY <1>10, <2>2, SizeAssumption DEF Produce, TypeOK
    <3>2. complete' \in BOOLEAN
      BY <1>10, <2>2 DEF Produce
    <3> QED BY <1>10, <2>2, <3>1, <3>2 DEF Produce, TypeOK
  <2> QED BY <2>1, <2>2
<1>11. ASSUME NEW status \in {"Unavailable", "Denied"}, NEW e \in BOOLEAN, Rejected(status, e)
       PROVE  TypeOK'
  BY <1>11, PolicyAssumption, SizeAssumption
  DEF TypeOK, CountInv, max_attempts, Rejected, AwaitingStatus, is_sensitive, Failed, Return,
     Temporary
<1>12. ASSUME NEW length \in BodySizes, NEW declared \in BOOLEAN, Accepted(length, declared)
       PROVE  TypeOK'
  BY <1>12, PolicyAssumption, SizeAssumption
  DEF TypeOK, CountInv, max_attempts, Accepted, ReadsBody
<1>13. ASSUME NEW n \in ChunkSizes, Chunk(n) PROVE TypeOK'
  <2>1. CASE got + n > MaxResponse
    <3>1. Failed("Decode", FALSE) /\ pc # "done" /\ got' = got
      BY <1>13, <2>1 DEF Chunk
    <3>2. /\ pc' \in {"delay", "done"} /\ failures' \in Nat /\ errors' \in BOOLEAN
          /\ result' \in {"none", "Ok", "Refused", "Decode", "Denied"} \cup Temporary
          /\ pc' = "done" <=> result' # "none"
      BY <3>1, FailedType
    <3> QED BY <1>13, <3>1, <3>2 DEF Chunk, TypeOK
  <2>2. CASE ~(got + n > MaxResponse)
    <3>1. got' \in 0 .. MaxResponse
      BY <1>13, <2>2, SizeAssumption DEF Chunk, TypeOK
    <3> QED BY <1>13, <2>2, <3>1 DEF Chunk, TypeOK
  <2> QED BY <2>1, <2>2
<1>14. ASSUME NEW r \in {"Ok", "Decode"}, EndOfBody(r) PROVE TypeOK'
  <2>1. /\ pc # "done"
        /\ IF r = "Ok" THEN Return(r, FALSE) /\ UNCHANGED failures ELSE Failed(r, FALSE)
    BY <1>14 DEF EndOfBody
  <2>2. /\ pc' \in {"delay", "done"} /\ failures' \in Nat /\ errors' \in BOOLEAN
        /\ result' \in {"none", "Ok", "Refused", "Decode", "Denied"} \cup Temporary
        /\ pc' = "done" <=> result' # "none"
    <3>1. CASE r = "Ok"
      BY <2>1, <3>1 DEF Return, TypeOK
    <3>2. CASE r = "Decode"
      BY <2>1, <3>2, FailedType
    <3> QED BY <3>1, <3>2
  <2>3. total' \in Nat /\ got' \in 0 .. MaxResponse /\ UNCHANGED <<call, counters, upload, wire>>
    BY <1>14, SizeAssumption DEF EndOfBody, TypeOK
  <2> QED BY <2>2, <2>3 DEF TypeOK
<1>15. ASSUME NEW r \in {"Ok", "Decode"}, NoContent(r) PROVE TypeOK'
  <2>1. /\ pc # "done"
        /\ IF r = "Ok" THEN Return(r, FALSE) /\ UNCHANGED failures ELSE Failed(r, FALSE)
    BY <1>15 DEF NoContent, ReadsBody
  <2>2. /\ pc' \in {"delay", "done"} /\ failures' \in Nat /\ errors' \in BOOLEAN
        /\ result' \in {"none", "Ok", "Refused", "Decode", "Denied"} \cup Temporary
        /\ pc' = "done" <=> result' # "none"
    <3>1. CASE r = "Ok"
      BY <2>1, <3>1 DEF Return, TypeOK
    <3>2. CASE r = "Decode"
      BY <2>1, <3>2, FailedType
    <3> QED BY <3>1, <3>2
  <2>3. total' \in Nat /\ got' \in 0 .. MaxResponse /\ UNCHANGED <<call, counters, upload, wire>>
    BY <1>15, SizeAssumption DEF NoContent, ReadsBody, TypeOK
  <2> QED BY <2>2, <2>3 DEF TypeOK
<1> QED BY <1>0, <1>1, <1>2, <1>3, <1>4, <1>5, <1>6, <1>7, <1>8, <1>9, <1>10, <1>11, <1>12,
   <1>13, <1>14, <1>15
   DEF Next, Step, Done

LEMMA NextParts == IInv /\ [Next]_vars => CarriesItsParts'
<1> SUFFICES ASSUME IInv, [Next]_vars PROVE CarriesItsParts'
  OBVIOUS
<1> USE DEF IInv, call, counters, upload, answer
<1>0. CASE UNCHANGED vars
  BY <1>0 DEF vars, TypeOK, CarriesItsParts
<1>1. CASE Delay
  BY <1>1
  DEF TypeOK, CarriesItsParts, Delay
<1>2. CASE Refuse
  BY <1>2
  DEF TypeOK, CarriesItsParts, Refuse, Failed, Return, Temporary
<1>3. CASE SendSensitive
  BY <1>3
  DEF TypeOK, CarriesItsParts, SendSensitive, Sent
<1>4. CASE SendPlain
  BY <1>4
  DEF TypeOK, CarriesItsParts, SendPlain, Sent, is_sensitive
<1>5. CASE BadHead
  BY <1>5
  DEF TypeOK, CarriesItsParts, BadHead, ReadsBody, Failed, Return, Temporary
<1>6. CASE TransportFails
  BY <1>6
  DEF TypeOK, CarriesItsParts, TransportFails, AwaitingStatus, Failed, Return, Temporary
<1>7. CASE StatusOnly
  BY <1>7
  DEF TypeOK, CarriesItsParts, StatusOnly, Return
<1>8. CASE SourceFails
  BY <1>8
  DEF TypeOK, CarriesItsParts, SourceFails, Failed, Return, Temporary
<1>9. CASE SourceEnds
  BY <1>9
  DEF TypeOK, CarriesItsParts, SourceEnds, Failed, Return, Temporary
<1>10. ASSUME NEW n \in ChunkSizes \cup {0}, Produce(n) PROVE CarriesItsParts'
  BY <1>10
  DEF TypeOK, CarriesItsParts, Produce, Failed, Return, Temporary
<1>11. ASSUME NEW status \in {"Unavailable", "Denied"}, NEW e \in BOOLEAN, Rejected(status, e)
       PROVE  CarriesItsParts'
  BY <1>11
  DEF TypeOK, CarriesItsParts, Rejected, AwaitingStatus, is_sensitive, Failed, Return, Temporary
<1>12. ASSUME NEW length \in BodySizes, NEW declared \in BOOLEAN, Accepted(length, declared)
       PROVE  CarriesItsParts'
  BY <1>12
  DEF TypeOK, CarriesItsParts, Accepted, ReadsBody
<1>13. ASSUME NEW n \in ChunkSizes, Chunk(n) PROVE CarriesItsParts'
  BY <1>13
  DEF TypeOK, CarriesItsParts, Chunk, Failed, Return, Temporary
<1>14. ASSUME NEW r \in {"Ok", "Decode"}, EndOfBody(r) PROVE CarriesItsParts'
  BY <1>14
  DEF TypeOK, CarriesItsParts, EndOfBody, Failed, Return, Temporary
<1>15. ASSUME NEW r \in {"Ok", "Decode"}, NoContent(r) PROVE CarriesItsParts'
  BY <1>15
  DEF TypeOK, CarriesItsParts, NoContent, ReadsBody, Failed, Return, Temporary
<1> QED BY <1>0, <1>1, <1>2, <1>3, <1>4, <1>5, <1>6, <1>7, <1>8, <1>9, <1>10, <1>11, <1>12,
   <1>13, <1>14, <1>15
   DEF Next, Step, Done

LEMMA NextCount == IInv /\ [Next]_vars => CountInv'
<1> SUFFICES ASSUME IInv, [Next]_vars PROVE CountInv'
  OBVIOUS
<1> USE DEF IInv, call, counters, upload, answer
<1>0. CASE UNCHANGED vars
  BY <1>0 DEF vars, TypeOK, CountInv, max_attempts
<1>1. CASE Delay
  BY <1>1, PolicyAssumption
  DEF TypeOK, CountInv, max_attempts, Delay
<1>2. CASE Refuse
  BY <1>2, PolicyAssumption
  DEF TypeOK, CountInv, max_attempts, Refuse, Failed, Return, Temporary
<1>3. CASE SendSensitive
  BY <1>3, PolicyAssumption
  DEF TypeOK, CountInv, max_attempts, SendSensitive, Sent
<1>4. CASE SendPlain
  BY <1>4, PolicyAssumption
  DEF TypeOK, CountInv, max_attempts, SendPlain, Sent, is_sensitive
<1>5. CASE BadHead
  BY <1>5, PolicyAssumption
  DEF TypeOK, CountInv, max_attempts, BadHead, ReadsBody, Failed, Return, Temporary
<1>6. CASE TransportFails
  <2>1. /\ pc \in {"upload", "status", "body"} /\ Failed("Transport", FALSE)
        /\ "Transport" \in Temporary /\ UNCHANGED <<call, counters, wire>>
    BY <1>6 DEF TransportFails, AwaitingStatus, Temporary
  <2> QED BY <2>1, FailedCount
<1>7. CASE StatusOnly
  <2>1. pc \in {"upload", "status"} /\ pc' = "done" /\ result' = "Ok"
    BY <1>7 DEF StatusOnly, Return
  <2>2. UNCHANGED <<call, counters, wire, failures>>
    BY <1>7 DEF StatusOnly
  <2>3. max_attempts' = max_attempts
    BY <2>2 DEF max_attempts
  <2> QED BY <2>1, <2>2, <2>3 DEF CountInv, Temporary, TypeOK
<1>8. CASE SourceFails
  BY <1>8, PolicyAssumption
  DEF TypeOK, CountInv, max_attempts, SourceFails, Failed, Return, Temporary
<1>9. CASE SourceEnds
  BY <1>9, PolicyAssumption
  DEF TypeOK, CountInv, max_attempts, SourceEnds, Failed, Return, Temporary
<1>10. ASSUME NEW n \in ChunkSizes \cup {0}, Produce(n) PROVE CountInv'
  BY <1>10, PolicyAssumption
  DEF TypeOK, CountInv, max_attempts, Produce, Failed, Return, Temporary
<1>11. ASSUME NEW status \in {"Unavailable", "Denied"}, NEW e \in BOOLEAN, Rejected(status, e)
       PROVE  CountInv'
  <2>1. /\ pc \in {"upload", "status", "body"} /\ Failed(status, e)
        /\ UNCHANGED <<call, counters, wire>>
    BY <1>11 DEF Rejected, AwaitingStatus
  <2>2. status \in {"Refused", "Decode", "Denied"} \cup Temporary
    BY DEF Temporary
  <2> QED BY <2>1, <2>2, FailedCount
<1>12. ASSUME NEW length \in BodySizes, NEW declared \in BOOLEAN, Accepted(length, declared)
       PROVE  CountInv'
  BY <1>12, PolicyAssumption
  DEF TypeOK, CountInv, max_attempts, Accepted, ReadsBody
<1>13. ASSUME NEW n \in ChunkSizes, Chunk(n) PROVE CountInv'
  BY <1>13, PolicyAssumption
  DEF TypeOK, CountInv, max_attempts, Chunk, Failed, Return, Temporary
<1>14. ASSUME NEW r \in {"Ok", "Decode"}, EndOfBody(r) PROVE CountInv'
  BY <1>14, PolicyAssumption
  DEF TypeOK, CountInv, max_attempts, EndOfBody, Failed, Return, Temporary
<1>15. ASSUME NEW r \in {"Ok", "Decode"}, NoContent(r) PROVE CountInv'
  BY <1>15, PolicyAssumption
  DEF TypeOK, CountInv, max_attempts, NoContent, ReadsBody, Failed, Return, Temporary
<1> QED BY <1>0, <1>1, <1>2, <1>3, <1>4, <1>5, <1>6, <1>7, <1>8, <1>9, <1>10, <1>11, <1>12,
   <1>13, <1>14, <1>15
   DEF Next, Step, Done

LEMMA NextUpload == IInv /\ [Next]_vars => UploadInv'
<1> SUFFICES ASSUME IInv, [Next]_vars PROVE UploadInv'
  OBVIOUS
<1> USE DEF IInv, call, counters, upload, answer
<1>0. CASE UNCHANGED vars
  BY <1>0 DEF vars, TypeOK, UploadInv, max_attempts, CountInv
<1>1. CASE Delay
  BY <1>1
  DEF TypeOK, UploadInv, max_attempts, CountInv, Delay
<1>2. CASE Refuse
  BY <1>2
  DEF TypeOK, UploadInv, max_attempts, CountInv, Refuse, Failed, Return, Temporary
<1>3. CASE SendSensitive
  BY <1>3
  DEF TypeOK, UploadInv, max_attempts, CountInv, SendSensitive, Sent
<1>4. CASE SendPlain
  BY <1>4
  DEF TypeOK, UploadInv, max_attempts, CountInv, SendPlain, Sent, is_sensitive
<1>5. CASE BadHead
  BY <1>5
  DEF TypeOK, UploadInv, max_attempts, CountInv, BadHead, ReadsBody, Failed, Return, Temporary
<1>6. CASE TransportFails
  BY <1>6
  DEF TypeOK, UploadInv, max_attempts, CountInv, TransportFails, AwaitingStatus, Failed, Return,
     Temporary
<1>7. CASE StatusOnly
  BY <1>7
  DEF TypeOK, UploadInv, max_attempts, CountInv, StatusOnly, Return
<1>8. CASE SourceFails
  BY <1>8
  DEF TypeOK, UploadInv, max_attempts, CountInv, SourceFails, Failed, Return, Temporary
<1>9. CASE SourceEnds
  BY <1>9
  DEF TypeOK, UploadInv, max_attempts, CountInv, SourceEnds, Failed, Return, Temporary
<1>10. ASSUME NEW n \in ChunkSizes \cup {0}, Produce(n) PROVE UploadInv'
  <2>1. pc = "upload" /\ kind = "upload" /\ result = "none" /\ UNCHANGED call
    BY <1>10 DEF Produce, TypeOK, UploadInv
  <2>2. CASE n = 0 \/ n > remaining
    <3>1. pc' = "done" /\ result' = "Transport"
      BY <1>10, <2>1, <2>2 DEF Produce, Failed, Return, max_attempts, CountInv, TypeOK
    <3>2. UNCHANGED <<remaining, sent, complete>> /\ short' = (short \/ (n = 0 /\ remaining > 0))
      BY <1>10, <2>2 DEF Produce
    <3>3. complete' => remaining' = 0 /\ ~short'
      <4>1. complete => remaining = 0 /\ ~short
        BY <2>1 DEF UploadInv
      <4>2. remaining = 0 => ~(remaining > 0)
        OBVIOUS
      <4> QED BY <3>2, <4>1, <4>2, Zenon
    <3> QED BY <2>1, <3>1, <3>2, <3>3 DEF UploadInv
  <2>3. CASE ~(n = 0 \/ n > remaining)
    <3>1. remaining' = remaining - n /\ sent' = sent + n /\ n \in Nat
      BY <1>10, <2>3, SizeAssumption DEF Produce
    <3>2. complete' = (remaining' = 0) /\ UNCHANGED <<short, pc, result>>
      BY <1>10, <2>3 DEF Produce
    <3>3. sent' + remaining' = size
      BY <2>1, <3>1 DEF UploadInv, TypeOK
    <3>4. ~short
      BY <2>1 DEF UploadInv
    <3> QED BY <2>1, <3>2, <3>3, <3>4 DEF UploadInv
  <2> QED BY <2>2, <2>3
<1>11. ASSUME NEW status \in {"Unavailable", "Denied"}, NEW e \in BOOLEAN, Rejected(status, e)
       PROVE  UploadInv'
  BY <1>11
  DEF TypeOK, UploadInv, max_attempts, CountInv, Rejected, AwaitingStatus, is_sensitive, Failed,
     Return, Temporary
<1>12. ASSUME NEW length \in BodySizes, NEW declared \in BOOLEAN, Accepted(length, declared)
       PROVE  UploadInv'
  BY <1>12
  DEF TypeOK, UploadInv, max_attempts, CountInv, Accepted, ReadsBody
<1>13. ASSUME NEW n \in ChunkSizes, Chunk(n) PROVE UploadInv'
  BY <1>13
  DEF TypeOK, UploadInv, max_attempts, CountInv, Chunk, Failed, Return, Temporary
<1>14. ASSUME NEW r \in {"Ok", "Decode"}, EndOfBody(r) PROVE UploadInv'
  BY <1>14
  DEF TypeOK, UploadInv, max_attempts, CountInv, EndOfBody, Failed, Return, Temporary
<1>15. ASSUME NEW r \in {"Ok", "Decode"}, NoContent(r) PROVE UploadInv'
  BY <1>15
  DEF TypeOK, UploadInv, max_attempts, CountInv, NoContent, ReadsBody, Failed, Return, Temporary
<1> QED BY <1>0, <1>1, <1>2, <1>3, <1>4, <1>5, <1>6, <1>7, <1>8, <1>9, <1>10, <1>11, <1>12,
   <1>13, <1>14, <1>15
   DEF Next, Step, Done

LEMMA NextAnswer == IInv /\ [Next]_vars => AnswerInv'
<1> SUFFICES ASSUME IInv, [Next]_vars PROVE AnswerInv'
  OBVIOUS
<1> USE DEF IInv, call, counters, upload, answer
<1>0. CASE UNCHANGED vars
  BY <1>0 DEF vars, TypeOK, AnswerInv, AnswerIsComplete, UploadInv
<1>1. CASE Delay
  BY <1>1
  DEF TypeOK, AnswerInv, AnswerIsComplete, UploadInv, Delay
<1>2. CASE Refuse
  BY <1>2
  DEF TypeOK, AnswerInv, AnswerIsComplete, UploadInv, Refuse, Failed, Return, Temporary
<1>3. CASE SendSensitive
  BY <1>3
  DEF TypeOK, AnswerInv, AnswerIsComplete, UploadInv, SendSensitive, Sent
<1>4. CASE SendPlain
  BY <1>4
  DEF TypeOK, AnswerInv, AnswerIsComplete, UploadInv, SendPlain, Sent, is_sensitive
<1>5. CASE BadHead
  BY <1>5
  DEF TypeOK, AnswerInv, AnswerIsComplete, UploadInv, BadHead, ReadsBody, Failed, Return,
     Temporary
<1>6. CASE TransportFails
  BY <1>6
  DEF TypeOK, AnswerInv, AnswerIsComplete, UploadInv, TransportFails, AwaitingStatus, Failed,
     Return, Temporary
<1>7. CASE StatusOnly
  BY <1>7
  DEF TypeOK, AnswerInv, AnswerIsComplete, UploadInv, StatusOnly, Return
<1>8. CASE SourceFails
  BY <1>8
  DEF TypeOK, AnswerInv, AnswerIsComplete, UploadInv, SourceFails, Failed, Return, Temporary
<1>9. CASE SourceEnds
  BY <1>9
  DEF TypeOK, AnswerInv, AnswerIsComplete, UploadInv, SourceEnds, Failed, Return, Temporary
<1>10. ASSUME NEW n \in ChunkSizes \cup {0}, Produce(n) PROVE AnswerInv'
  BY <1>10
  DEF TypeOK, AnswerInv, AnswerIsComplete, UploadInv, Produce, Failed, Return, Temporary
<1>11. ASSUME NEW status \in {"Unavailable", "Denied"}, NEW e \in BOOLEAN, Rejected(status, e)
       PROVE  AnswerInv'
  BY <1>11
  DEF TypeOK, AnswerInv, AnswerIsComplete, UploadInv, Rejected, AwaitingStatus, is_sensitive,
     Failed, Return, Temporary
<1>12. ASSUME NEW length \in BodySizes, NEW declared \in BOOLEAN, Accepted(length, declared)
       PROVE  AnswerInv'
  BY <1>12
  DEF TypeOK, AnswerInv, AnswerIsComplete, UploadInv, Accepted, ReadsBody
<1>13. ASSUME NEW n \in ChunkSizes, Chunk(n) PROVE AnswerInv'
  BY <1>13
  DEF TypeOK, AnswerInv, AnswerIsComplete, UploadInv, Chunk, Failed, Return, Temporary
<1>14. ASSUME NEW r \in {"Ok", "Decode"}, EndOfBody(r) PROVE AnswerInv'
  BY <1>14
  DEF TypeOK, AnswerInv, AnswerIsComplete, UploadInv, EndOfBody, Failed, Return, Temporary
<1>15. ASSUME NEW r \in {"Ok", "Decode"}, NoContent(r) PROVE AnswerInv'
  BY <1>15
  DEF TypeOK, AnswerInv, AnswerIsComplete, UploadInv, NoContent, ReadsBody, Failed, Return,
     Temporary
<1> QED BY <1>0, <1>1, <1>2, <1>3, <1>4, <1>5, <1>6, <1>7, <1>8, <1>9, <1>10, <1>11, <1>12,
   <1>13, <1>14, <1>15
   DEF Next, Step, Done

LEMMA Invariance == Spec => []IInv
<1>1. IInv /\ [Next]_vars => IInv'
  BY NextType, NextParts, NextCount, NextUpload, NextAnswer, NextBackoff DEF IInv
<1> QED BY <1>1, InitIInv, PTL DEF Spec

-----------------------------------------------------------------------------
(* The theorems. *)

\* The phases, counters and lengths of a call always have their types; no body
\* is accumulated beyond the limit and no attempt made beyond the policy.
THEOREM TypeCorrect == Spec => []TypeOK
<1>1. IInv => TypeOK
  BY DEF IInv
<1> QED BY <1>1, Invariance, PTL

\* Every request of every attempt carries the parts of the call, and none that
\* is worth protecting crosses a cleartext connection or leaks into an error.
THEOREM PartsAreCarried == Spec => []CarriesItsParts
<1>1. IInv => CarriesItsParts
  BY DEF IInv
<1> QED BY <1>1, Invariance, PTL

\* Whatever the lengths of bodies and chunks, a success stands for a body that
\* was read to its end.
THEOREM AnswersAreComplete == Spec => []AnswerIsComplete
<1>1. IInv => AnswerIsComplete
  BY DEF IInv, AnswerInv
<1> QED BY <1>1, Invariance, PTL

\* Whatever the caller's stream does, an upload the HTTP stack may take for
\* complete has exactly the declared length.
THEOREM UploadsAreExact == Spec => []UploadIsExact
<1>1. IInv => UploadIsExact
  BY DEF IInv, UploadInv, UploadIsExact, TypeOK
<1> QED BY <1>1, Invariance, PTL

\* The loop sends at most the policy's number of requests, repeats one only
\* after a temporary failure, and gives up on one only when none is left.
THEOREM RetriesJustified == Spec => []RetriesAreJustified
<1>1. IInv => RetriesAreJustified
  BY PolicyAssumption DEF IInv, TypeOK, CountInv, max_attempts, RetriesAreJustified
<1> QED BY <1>1, Invariance, PTL

\* For every policy and any number of retries, the time waited lies between the
\* sum of the exponential base delays and the maximum delay each time.
THEOREM BackoffIsBounded == Spec => []BackoffBounds
<1>1. IInv => BackoffBounds
  BY DEF IInv
<1> QED BY <1>1, Invariance, PTL
=============================================================================
