------------------------ MODULE ConsistencyContextProofs ------------------------
(***************************************************************************)
(* Machine-checked proofs about ConsistencyContext, for any number of          *)
(* contexts, calls, clusters and moves of the endpoint.                        *)
(***************************************************************************)
EXTENDS ConsistencyContext, TLAPS

-----------------------------------------------------------------------------
(* The inductive invariant. *)

\* How far a call has come.
StageInv(k) ==
  /\ pc[k] = "idle" => req[k].after = {}
  /\ pc[k] \in {"idle", "preflight"} => sent[k] = 0
  /\ pc[k] # "idle" => opened[of[k]] # {} /\ req[k].headers # <<>>
  /\ sent[k] \in 0 .. 1
  /\ sent[k] = 0 => k \notin wire /\ runs[k] = 0 /\ reply[k] = {}
  /\ k \in wire => runs[k] = 0 /\ reply[k] = {} /\ pc[k] # "idle"
  /\ runs[k] <= 1
  /\ seen[k] # {} => seen[k] = opened[of[k]]
  /\ pc[k] \in {"sent", "ok"} => seen[k] # {}
  /\ pc[k] = "ok" => reply[k] # {} /\ \A r \in reply[k] : r.ok

\* The index a call names is its context's, and stands for a write that is stored.
ArgumentInv(k) ==
  \A i \in req[k].after : i \in captured /\ i.ctx = of[k]

\* What an answer of the server says about the cluster that gave it.
AnswerInv(k) ==
  \A r \in reply[k] : r.ok =>
    /\ runs[k] = 1
    /\ \A j \in r.index : req[k].op = "write" /\ j.value <= committed[j.cluster]
    /\ \A t \in served[k] :
         /\ \A j \in r.index : j.cluster = t.cluster
         /\ \A i \in req[k].after : i.cluster = t.cluster => r.value >= i.value

\* A captured index belongs to its context's cluster, which has stored the write,
\* and it was issued for a write that context made.
IndexInv(i) ==
  /\ i.value <= committed[i.cluster]
  /\ opened[i.ctx] # {}
  /\ \A s \in opened[i.ctx] : s.cluster = i.cluster
  /\ \E k \in Calls :
       /\ of[k] = i.ctx /\ req[k].op = "write" /\ runs[k] = 1
       /\ \A s \in served[k] : s.cluster = i.cluster
       /\ pc[k] # "idle" /\ k \notin wire

CapturedInv == \A i \in captured : IndexInv(i)

ContextInv ==
  \A x \in Contexts : \A s \in opened[x] :
    /\ s.version \in Reviewed \cap Routable
    /\ report.tag = "Ok" /\ report.status = "Verified" /\ report.detected = s.version

IInv ==
  /\ TypeOK
  /\ CapturedInv
  /\ ContextInv
  /\ \A c \in Clusters : applied[c] <= committed[c]
  /\ \A k \in Calls : StageInv(k) /\ ArgumentInv(k) /\ AnswerInv(k)
-----------------------------------------------------------------------------
(* Every step of the system preserves it. *)

USE BoundsAssumption

\* The client's steps, one call at a time, with the arguments of Start named.
LEMMA NextCases ==
  ASSUME Next
  PROVE  \/ \E x \in Contexts : Open(x)
         \/ \E k \in Calls :
              \/ \E op \in {"read", "write"}, p \in UsedPolicies, after \in Option(captured) :
                   Start(k, op, after, p)
              \/ Preflight(k) \/ Accept(k) \/ Fail(k)
              \/ ServeRead(k) \/ ServeWrite(k) \/ Refuse(k) \/ Lose(k)
         \/ \E c \in Clusters : Replicate(c)
         \/ \E e \in Endpoints : Move(e)
<1>1. {} \in Option(captured) /\ \A i \in captured : {i} \in Option(captured)
  BY DEF Option
<1> QED
  BY <1>1, Zenon DEF Next, Client

LEMMA HeaderValues ==
  ASSUME NEW p \in UsedPolicies
  PROVE  /\ header_values(p) \in HeaderLists
         /\ header_values(p) # <<>>
BY UsedAssumption DEF header_values, ConsistencyPolicies, HeaderLists

LEMMA ServerType ==
  ASSUME TypeOK
  PROVE  Server \in Servers /\ {Server} \in Option(Servers) /\ {} \in Option(Servers)
BY DEF TypeOK, Server, Servers, Endpoints, Option

LEMMA AnswerType ==
  ASSUME TypeOK, NEW k \in Calls, NEW r \in Replies, Answer(k, r)
  PROVE  reply' \in [Calls -> Option(Replies)] /\ served' \in [Calls -> Option(Servers)]
<1>1. {r} \in Option(Replies)
  BY DEF Option
<1> QED
  BY <1>1, ServerType DEF Answer, TypeOK

LEMMA TypeStep ==
  ASSUME TypeOK, Next
  PROVE  TypeOK'
<1>1. ASSUME NEW x \in Contexts, Open(x) PROVE TypeOK'
  <2>1. opened' \in [Contexts -> Option(Servers)]
    BY <1>1, ServerType DEF Open, discover_cluster, TypeOK
  <2> QED
    BY <1>1, <2>1 DEF Open, TypeOK, cluster
<1>2. ASSUME NEW k \in Calls, NEW op \in {"read", "write"}, NEW p \in UsedPolicies,
             NEW after \in Option(captured), Start(k, op, after, p)
      PROVE  TypeOK'
  <2>1. after \in Option(ScopedIndices)
    BY DEF Option, TypeOK
  <2>2. [op |-> op, after |-> after, headers |-> header_values(p)] \in Requests
    BY <2>1, HeaderValues DEF Requests
  <2> QED
    BY <1>2, <2>2 DEF Start, TypeOK, context, cluster
<1>3. ASSUME NEW k \in Calls, Preflight(k) PROVE TypeOK'
  BY <1>3, ServerType DEF Preflight, Send, TypeOK, context, cluster
<1>4. ASSUME NEW k \in Calls, Accept(k) PROVE TypeOK'
  <2>1. captured' \subseteq ScopedIndices
    <3>1. PICK r \in reply[k] :
            captured' = captured \cup
              {[cluster |-> i.cluster, value |-> i.value, ctx |-> of[k]] : i \in r.index}
      BY <1>4 DEF Accept
    <3>2. r \in Replies
      BY DEF TypeOK, Option
    <3>3. \A i \in r.index : i \in Indices
      BY <3>2 DEF Replies, Option
    <3> QED
      BY <3>1, <3>3 DEF TypeOK, Indices, ScopedIndices
  <2> QED
    BY <1>4, <2>1 DEF Accept, TypeOK, context, cluster
<1>5. ASSUME NEW k \in Calls, Fail(k) PROVE TypeOK'
  BY <1>5 DEF Fail, TypeOK, context, cluster
<1>6. ASSUME NEW k \in Calls, ServeRead(k) PROVE TypeOK'
  <2>1. PICK v : Answer(k, [ok |-> TRUE, value |-> v, index |-> {}]) /\ v \in 0 .. MaxCommits
    <3>1. committed[endpoint.cluster] \in 0 .. MaxCommits /\ applied[endpoint.cluster] \in 0 .. MaxCommits
      BY DEF TypeOK, Endpoints
    <3> QED
      BY <1>6, <3>1 DEF ServeRead
  <2>2. [ok |-> TRUE, value |-> v, index |-> {}] \in Replies
    BY <2>1 DEF Replies, Option
  <2>3. reply' \in [Calls -> Option(Replies)] /\ served' \in [Calls -> Option(Servers)]
    BY <2>1, <2>2, AnswerType
  <2>4. runs' \in [Calls -> Nat]
    BY <1>6 DEF ServeRead, Execute, TypeOK
  <2> QED
    BY <1>6, <2>1, <2>3, <2>4 DEF ServeRead, Answer, TypeOK, context
<1>7. ASSUME NEW k \in Calls, ServeWrite(k) PROVE TypeOK'
  <2>1. committed' \in [Clusters -> 0 .. MaxCommits] /\ committed'[endpoint.cluster] \in 1 .. MaxCommits
    BY <1>7 DEF ServeWrite, TypeOK, Endpoints
  <2>2. PICK index \in {{}, {[cluster |-> endpoint.cluster, value |-> committed'[endpoint.cluster]]}} :
          Answer(k, [ok |-> TRUE, value |-> committed'[endpoint.cluster], index |-> index])
    BY <1>7 DEF ServeWrite
  <2>3. index \in Option(Indices)
    BY <2>1 DEF Option, Indices, TypeOK, Endpoints
  <2>4. [ok |-> TRUE, value |-> committed'[endpoint.cluster], index |-> index] \in Replies
    BY <2>1, <2>3 DEF Replies
  <2>5. reply' \in [Calls -> Option(Replies)] /\ served' \in [Calls -> Option(Servers)]
    BY <2>2, <2>4, AnswerType
  <2>6. runs' \in [Calls -> Nat]
    BY <1>7 DEF ServeWrite, Execute, TypeOK
  <2> QED
    BY <1>7, <2>1, <2>2, <2>5, <2>6 DEF ServeWrite, Answer, TypeOK, context
<1>8. ASSUME NEW k \in Calls, Refuse(k) PROVE TypeOK'
  <2>1. [ok |-> FALSE, value |-> 0, index |-> {}] \in Replies
    BY DEF Replies, Option
  <2> QED
    BY <1>8, <2>1, AnswerType DEF Refuse, Answer, TypeOK, context
<1>9. ASSUME NEW k \in Calls, Lose(k) PROVE TypeOK'
  BY <1>9 DEF Lose, TypeOK, context, cluster
<1>10. ASSUME NEW c \in Clusters, Replicate(c) PROVE TypeOK'
  BY <1>10 DEF Replicate, TypeOK, context
<1>11. ASSUME NEW e \in Endpoints, Move(e) PROVE TypeOK'
  BY <1>11 DEF Move, TypeOK, context
<1> QED
  BY <1>1, <1>2, <1>3, <1>4, <1>5, <1>6, <1>7, <1>8, <1>9, <1>10, <1>11, NextCases

\* The record of a call is the server it was checked against.
LEMMA SameServer ==
  ASSUME TypeOK, NEW k \in Calls, NEW s \in opened[of[k]],
         NEW t \in discover_cluster(s.version), s.cluster = t.cluster
  PROVE  opened[of[k]] = {Server}
<1>1. s \in Servers /\ opened[of[k]] = {s}
  BY DEF TypeOK, Option
<1>2. t = Server /\ t.version = s.version
  BY DEF discover_cluster
<1> QED
  BY <1>1, <1>2, ServerType DEF Servers

\* The last header value of a request that was sent settles an inconsistency.
LEMMA FallbackNamed ==
  ASSUME IInv, NEW k \in wire
  PROVE  Fallback(k) \in {"fail", "forward-active-node"}
<1>1. k \in Calls
  BY DEF IInv, TypeOK
<1>2. req[k].headers \in HeaderLists
  BY <1>1 DEF IInv, TypeOK, Requests, StageInv
<1>3. CASE req[k].headers = <<"fail">>
  BY <1>3 DEF Fallback
<1>4. CASE req[k].headers = <<"forward-active-node">>
  BY <1>4 DEF Fallback
<1>5. CASE req[k].headers = <<"await-state", "fail">>
  BY <1>5 DEF Fallback
<1>6. CASE req[k].headers = <<"await-state", "forward-active-node">>
  BY <1>6 DEF Fallback
<1> QED
  BY <1>2, <1>3, <1>4, <1>5, <1>6 DEF HeaderLists

\* Whatever the server answers, if it is right about itself.
LEMMA Answered ==
  ASSUME IInv, TypeOK', NEW k \in Calls, k \in wire, NEW r, Answer(k, r),
         runs' = IF r.ok THEN [runs EXCEPT ![k] = @ + 1] ELSE runs,
         \A c \in Clusters : committed'[c] >= committed[c],
         r.ok =>
           /\ \A j \in r.index : /\ req[k].op = "write" /\ j.cluster = endpoint.cluster
                                 /\ j.value <= committed'[j.cluster]
           /\ \A i \in req[k].after : i.cluster = endpoint.cluster => r.value >= i.value
  PROVE  IInv'
<1>0. TypeOK
  BY DEF IInv
<1>1. UNCHANGED <<report, opened, of, captured, pc, req, seen, applied, sent>> /\ wire' = wire \ {k}
  BY DEF Answer, context
<1>2. /\ reply'[k] = {r} /\ served'[k] = {Server}
      /\ \A j \in Calls : j # k => /\ reply'[j] = reply[j] /\ served'[j] = served[j]
                                  /\ runs'[j] = runs[j]
  BY <1>0 DEF Answer, TypeOK
<1>3. runs[k] = 0 /\ pc[k] # "idle" /\ (r.ok => runs'[k] = 1) /\ (~r.ok => runs'[k] = 0)
  BY <1>0 DEF IInv, StageInv, TypeOK
<1>4. Server.cluster = endpoint.cluster
  BY DEF Server
<1>5. \A c \in Clusters : committed[c] \in Nat /\ committed'[c] \in Nat /\ applied[c] \in Nat
  BY <1>0 DEF TypeOK
<1>6. ASSUME NEW i \in captured PROVE IndexInv(i)'
  <2>1. i.cluster \in Clusters /\ i.value \in Nat
    BY <1>0 DEF TypeOK, ScopedIndices
  <2>2. IndexInv(i)
    BY DEF IInv, CapturedInv
  <2>3. i.value <= committed'[i.cluster]
    BY <1>5, <2>1, <2>2 DEF IndexInv
  <2> QED
    BY <1>1, <1>2, <1>3, <2>2, <2>3 DEF IndexInv
<1>7. ASSUME NEW j \in Calls, j # k PROVE StageInv(j)' /\ ArgumentInv(j)' /\ AnswerInv(j)'
  <2>1. \A q \in reply[j] : \A n \in q.index : n.cluster \in Clusters /\ n.value \in Nat
    <3>1. \A q \in reply[j] : q \in Replies
      BY <1>0 DEF TypeOK, Option
    <3>2. \A q \in reply[j] : q.index \subseteq Indices
      BY <3>1 DEF Replies, Option
    <3> QED
      BY <3>2 DEF Indices
  <2>2. StageInv(j)' /\ ArgumentInv(j)'
    BY <1>1, <1>2, <1>7 DEF IInv, StageInv, ArgumentInv
  <2>3. AnswerInv(j)'
    <3>1. \A q \in reply[j] : q.ok => \A n \in q.index : n.value <= committed'[n.cluster]
      BY <1>5, <2>1 DEF IInv, AnswerInv
    <3> QED
      BY <1>1, <1>2, <1>7, <3>1 DEF IInv, AnswerInv
  <2> QED
    BY <2>2, <2>3
<1>8. StageInv(k)' /\ ArgumentInv(k)' /\ AnswerInv(k)'
  <2>1. pc[k] # "ok" /\ sent[k] = 1
    BY <1>3 DEF IInv, StageInv
  <2> QED
    BY <1>1, <1>2, <1>3, <1>4, <2>1 DEF IInv, StageInv, ArgumentInv, AnswerInv
<1>9. \A c \in Clusters : applied'[c] <= committed'[c]
  BY <1>1, <1>5 DEF IInv
<1> QED
  BY <1>1, <1>6, <1>7, <1>8, <1>9 DEF IInv, CapturedInv, ContextInv

LEMMA InvStep ==
  ASSUME IInv, Next
  PROVE  IInv'
<1>0. TypeOK /\ TypeOK'
  BY TypeStep DEF IInv
<1>1. ASSUME NEW x \in Contexts, Open(x) PROVE IInv'
  <2>1. \A y \in Contexts : opened[y] # {} => opened'[y] = opened[y]
    BY <1>0, <1>1 DEF Open, TypeOK
  <2>2. ContextInv'
    BY <1>0, <1>1 DEF Open, TypeOK, IInv, ContextInv, require_consistency_profile, discover_cluster
  <2>3. CapturedInv'
    BY <1>0, <1>1, <2>1 DEF Open, TypeOK, IInv, CapturedInv, IndexInv, ScopedIndices, cluster
  <2>4. \A k \in Calls : of[k] \in Contexts
    BY <1>0 DEF TypeOK
  <2>5. ASSUME NEW k \in Calls PROVE StageInv(k)' /\ ArgumentInv(k)' /\ AnswerInv(k)'
    <3>1. seen[k] # {} => opened[of[k]] # {}
      BY <2>5 DEF IInv, StageInv
    <3> QED
      BY <1>1, <2>1, <2>4, <3>1 DEF Open, IInv, StageInv, ArgumentInv, AnswerInv, cluster
  <2> QED
    BY <1>0, <1>1, <2>2, <2>3, <2>5 DEF Open, IInv, cluster
<1>2. ASSUME NEW k \in Calls, NEW op \in {"read", "write"}, NEW p \in UsedPolicies,
             NEW after \in Option(captured), Start(k, op, after, p)
      PROVE  IInv'
  <2>1. \A j \in Calls : j # k => req'[j] = req[j] /\ pc'[j] = pc[j]
    BY <1>0, <1>2 DEF Start, TypeOK
  <2>2. req'[k].op = op /\ req'[k].after = after /\ req'[k].headers # <<>> /\ pc'[k] = "preflight"
    BY <1>0, <1>2, HeaderValues DEF Start, TypeOK
  <2>3. StageInv(k) /\ pc[k] = "idle" /\ runs[k] = 0 /\ reply[k] = {} /\ k \notin wire
    BY <1>2 DEF Start, IInv, StageInv
  <2>4. \A i \in after : i \in captured /\ i.ctx = of[k]
    BY <1>2 DEF Start, validate_index, Option
  <2>5. CapturedInv'
    BY <1>2, <2>1, <2>3 DEF Start, IInv, CapturedInv, IndexInv, context, cluster
  <2>6. ASSUME NEW j \in Calls PROVE StageInv(j)' /\ ArgumentInv(j)' /\ AnswerInv(j)'
    BY <1>2, <2>1, <2>2, <2>3, <2>4
       DEF Start, IInv, StageInv, ArgumentInv, AnswerInv, context, cluster
  <2> QED
    BY <1>0, <1>2, <2>5, <2>6 DEF Start, IInv, ContextInv, context, cluster
<1>3. ASSUME NEW k \in Calls, Preflight(k) PROVE IInv'
  <2>1. opened[of[k]] = {Server}
    BY <1>0, <1>3, SameServer DEF Preflight
  <2>2. /\ pc'[k] = "sent" /\ seen'[k] = opened[of[k]] /\ sent[k] = 0 /\ sent'[k] = 1
        /\ \A j \in Calls : j # k => pc'[j] = pc[j] /\ seen'[j] = seen[j] /\ sent'[j] = sent[j]
    BY <1>0, <1>3, <2>1 DEF Preflight, Send, IInv, StageInv, TypeOK
  <2>3. pc[k] = "preflight" /\ runs[k] = 0 /\ reply[k] = {}
    BY <1>3, <2>2 DEF Preflight, IInv, StageInv
  <2>4. wire' = wire \cup {k} /\ UNCHANGED <<report, opened, of, captured, req, reply, committed, applied, runs, served>>
    BY <1>3 DEF Preflight, Send, context, cluster
  <2>5. CapturedInv'
    BY <2>2, <2>3, <2>4 DEF IInv, CapturedInv, IndexInv
  <2>6. ASSUME NEW j \in Calls PROVE StageInv(j)' /\ ArgumentInv(j)' /\ AnswerInv(j)'
    BY <2>2, <2>3, <2>4 DEF IInv, StageInv, ArgumentInv, AnswerInv
  <2> QED
    BY <1>0, <2>4, <2>5, <2>6 DEF IInv, ContextInv
<1>4. ASSUME NEW k \in Calls, Accept(k) PROVE IInv'
  <2>1. PICK r \in reply[k] :
          /\ r.ok
          /\ \A i \in r.index : \A s \in opened[of[k]] : i.cluster = s.cluster
          /\ captured' = captured \cup
               {[cluster |-> i.cluster, value |-> i.value, ctx |-> of[k]] : i \in r.index}
    BY <1>4 DEF Accept
  <2>2. /\ pc[k] = "sent" /\ pc'[k] = "ok" /\ \A j \in Calls : j # k => pc'[j] = pc[j]
        /\ UNCHANGED <<report, opened, of, req, seen, wire, reply, committed, applied, sent, runs, served>>
    BY <1>0, <1>4 DEF Accept, context, cluster, TypeOK
  <2>3. reply[k] = {r}
    BY <1>0 DEF TypeOK, Option
  <2>4. /\ runs[k] = 1 /\ opened[of[k]] # {} /\ k \notin wire
        /\ \A j \in r.index : /\ req[k].op = "write" /\ j.value <= committed[j.cluster]
                              /\ \A t \in served[k] : t.cluster = j.cluster
    BY <2>1, <2>2 DEF IInv, StageInv, AnswerInv
  <2>5. ASSUME NEW i \in captured' PROVE IndexInv(i)'
    <3>1. CASE i \in captured
      BY <2>2, <3>1 DEF IInv, CapturedInv, IndexInv
    <3>2. CASE i \notin captured
      <4>1. PICK j \in r.index :
              i = [cluster |-> j.cluster, value |-> j.value, ctx |-> of[k]]
        BY <2>1, <2>5, <3>2
      <4> QED
        BY <2>1, <2>2, <2>4, <4>1 DEF IndexInv
    <3> QED
      BY <3>1, <3>2
  <2>6. ASSUME NEW j \in Calls PROVE StageInv(j)' /\ ArgumentInv(j)' /\ AnswerInv(j)'
    <3>1. seen[k] # {}
      BY <2>2 DEF IInv, StageInv
    <3> QED
      BY <2>1, <2>2, <2>3, <3>1 DEF IInv, StageInv, ArgumentInv, AnswerInv
  <2> QED
    BY <1>0, <2>2, <2>5, <2>6 DEF IInv, ContextInv, CapturedInv
<1>5. ASSUME NEW k \in Calls, Fail(k) PROVE IInv'
  <2>1. /\ pc[k] # "idle" /\ pc'[k] = "failed" /\ \A j \in Calls : j # k => pc'[j] = pc[j]
        /\ UNCHANGED <<report, opened, of, captured, req, seen, wire, reply, committed, applied, sent, runs, served>>
    BY <1>0, <1>5 DEF Fail, context, cluster, TypeOK
  <2> QED
    BY <1>0, <2>1 DEF IInv, ContextInv, CapturedInv, IndexInv, StageInv, ArgumentInv, AnswerInv
<1>6. ASSUME NEW k \in Calls, ServeRead(k) PROVE IInv'
  <2> DEFINE v == IF endpoint.node = "active" \/ (Behind(k) /\ Fallback(k) = "forward-active-node")
                  THEN committed[endpoint.cluster] ELSE applied[endpoint.cluster]
             r == [ok |-> TRUE, value |-> v, index |-> {}]
  <2>1. Answer(k, r) /\ k \in wire /\ UNCHANGED committed /\ Execute(k)
    BY <1>6 DEF ServeRead
  <2>2. ~Behind(k) \/ Fallback(k) = "forward-active-node"
    BY <1>6, <2>1, FallbackNamed DEF ServeRead
  <2>3. ASSUME NEW i \in req[k].after, i.cluster = endpoint.cluster PROVE v >= i.value
    <3>1. i \in captured /\ i.value <= committed[i.cluster]
      BY <2>3 DEF IInv, ArgumentInv, CapturedInv, IndexInv
    <3>2. endpoint.node = "active" \/ endpoint.node = "standby"
      BY <1>0, <1>6 DEF ServeRead, TypeOK, Endpoints
    <3>3. /\ i.value \in Nat /\ committed[i.cluster] \in Nat /\ applied[i.cluster] \in Nat
      BY <1>0, <3>1 DEF TypeOK, ScopedIndices
    <3> QED
      BY <2>2, <2>3, <3>1, <3>2, <3>3 DEF Behind
  <2>4. \A c \in Clusters : committed'[c] >= committed[c]
    BY <1>0, <2>1 DEF TypeOK
  <2> HIDE DEF v
  <2> QED
    BY <1>0, <2>1, <2>3, <2>4, Answered DEF Execute
<1>7. ASSUME NEW k \in Calls, ServeWrite(k) PROVE IInv'
  <2> DEFINE v == committed'[endpoint.cluster]
  <2>1. PICK index \in {{}, {[cluster |-> endpoint.cluster, value |-> v]}} :
          Answer(k, [ok |-> TRUE, value |-> v, index |-> index])
    BY <1>7 DEF ServeWrite
  <2>2. k \in wire /\ Execute(k) /\ req[k].op = "write"
    BY <1>7 DEF ServeWrite
  <2>3. \A c \in Clusters : committed'[c] >= committed[c]
    BY <1>0, <1>7 DEF ServeWrite, TypeOK, Endpoints
  <2>4. endpoint.cluster \in Clusters
    BY <1>0 DEF TypeOK, Endpoints
  <2>5. \A c \in Clusters : committed[c] \in Nat /\ committed'[c] \in Nat
    BY <1>0 DEF TypeOK
  <2>6. ASSUME NEW i \in req[k].after, i.cluster = endpoint.cluster PROVE v >= i.value
    <3>1. i.value <= committed[i.cluster] /\ i.value \in Nat
      BY <1>0, <2>6 DEF IInv, ArgumentInv, CapturedInv, IndexInv, TypeOK, ScopedIndices
    <3> QED
      BY <2>3, <2>4, <2>5, <2>6, <3>1
  <2>7. \A j \in index : j.cluster = endpoint.cluster /\ j.value <= committed'[j.cluster]
    BY <2>1, <2>4, <2>5
  <2> HIDE DEF v
  <2> QED
    BY <1>0, <2>1, <2>2, <2>3, <2>6, <2>7, Answered DEF Execute
<1>8. ASSUME NEW k \in Calls, Refuse(k) PROVE IInv'
  BY <1>0, <1>8, Answered DEF Refuse, TypeOK
<1>9. ASSUME NEW k \in Calls, Lose(k) PROVE IInv'
  <2>1. wire' = wire \ {k} /\ UNCHANGED <<report, opened, of, captured, pc, req, seen, reply, committed, applied, sent, runs, served>>
    BY <1>9 DEF Lose, context, cluster
  <2> QED
    BY <1>0, <2>1 DEF IInv, ContextInv, CapturedInv, IndexInv, StageInv, ArgumentInv, AnswerInv
<1>10. ASSUME NEW c \in Clusters, Replicate(c) PROVE IInv'
  <2>1. UNCHANGED <<report, opened, of, captured, pc, req, seen, wire, reply, committed, sent, runs, served>>
    BY <1>10 DEF Replicate, context
  <2>2. \A d \in Clusters : applied'[d] <= committed[d]
    BY <1>0, <1>10 DEF Replicate, IInv, TypeOK
  <2> QED
    BY <1>0, <2>1, <2>2 DEF IInv, ContextInv, CapturedInv, IndexInv, StageInv, ArgumentInv, AnswerInv
<1>11. ASSUME NEW e \in Endpoints, Move(e) PROVE IInv'
  <2>1. UNCHANGED <<report, opened, of, captured, pc, req, seen, wire, reply, committed, applied, sent, runs, served>>
    BY <1>11 DEF Move, context
  <2> QED
    BY <1>0, <2>1 DEF IInv, ContextInv, CapturedInv, IndexInv, StageInv, ArgumentInv, AnswerInv
<1> QED
  BY <1>1, <1>2, <1>3, <1>4, <1>5, <1>6, <1>7, <1>8, <1>9, <1>10, <1>11, NextCases

-----------------------------------------------------------------------------
(* The theorems. *)

LEMMA InitInv == ASSUME Init PROVE IInv
<1>1. TypeOK
  BY DEF Init, TypeOK, Option, Requests, NoRequest, Endpoints
<1> QED
  BY <1>1 DEF Init, IInv, CapturedInv, ContextInv, StageInv, ArgumentInv, AnswerInv, NoRequest

LEMMA Invariance == Spec => []IInv
<1>1. ASSUME IInv, UNCHANGED vars PROVE IInv'
  BY <1>1 DEF IInv, vars, context, cluster, TypeOK, CapturedInv, IndexInv, ContextInv, StageInv,
              ArgumentInv, AnswerInv
<1> QED
  BY InitInv, InvStep, <1>1, PTL DEF Spec

\* Contexts, scoped indices, calls and answers keep their shape, and no request
\* is sent without an explicit behaviour for inconsistency.
THEOREM TypeCorrect == Spec => []TypeOK
<1>1. IInv => TypeOK
  BY DEF IInv
<1> QED
  BY Invariance, <1>1, PTL

\* An index stays with the context that captured it, and was issued by that
\* context's cluster for a write that context made.
THEOREM IndicesStayInContext == Spec => []IndexProvenance
<1>1. ASSUME IInv PROVE IndexProvenance
  BY <1>1 DEF IInv, CapturedInv, IndexInv, ArgumentInv, IndexProvenance
<1> QED
  BY Invariance, <1>1, PTL

\* No call sends its operation twice and no operation is executed twice.
THEOREM OperationsNotReplayed == Spec => []NeverReplayed
<1>1. ASSUME IInv, NEW k \in Calls PROVE sent[k] <= 1 /\ runs[k] <= sent[k]
  <2>1. StageInv(k) /\ runs[k] \in Nat
    BY <1>1 DEF IInv, TypeOK
  <2> QED
    BY <2>1 DEF StageInv
<1>2. IInv => NeverReplayed
  BY <1>1 DEF NeverReplayed
<1> QED
  BY Invariance, <1>2, PTL

\* A call that names an index and succeeds undisturbed has seen that write, for
\* any number of clusters and however far the standbys lag.
THEOREM IndexedReadsSeeWrites == Spec => []ReadYourWrites
<1>1. ASSUME IInv, NEW k \in Calls, pc[k] = "ok", Undisturbed(k),
             NEW i \in req[k].after, NEW r \in reply[k]
      PROVE  r.value >= i.value
  <2>1. r.ok /\ seen[k] # {} /\ seen[k] = opened[of[k]]
    BY <1>1 DEF IInv, StageInv
  <2>2. PICK t : t \in served[k] /\ t \in opened[of[k]]
    BY <1>1, <2>1 DEF Undisturbed
  <2>3. i.cluster = t.cluster
    BY <1>1, <2>2 DEF IInv, ArgumentInv, CapturedInv, IndexInv
  <2> QED
    BY <1>1, <2>1, <2>2, <2>3 DEF IInv, AnswerInv
<1>2. IInv => ReadYourWrites
  BY <1>1 DEF ReadYourWrites
<1> QED
  BY Invariance, <1>2, PTL

\* Contexts are opened on verified, reviewed and promoted versions only, and
\* undisturbed calls are answered by the server the context was opened on.
THEOREM OnlyVerifiedServers == Spec => []VerifiedServer
<1>1. ASSUME IInv PROVE VerifiedServer
  BY <1>1 DEF IInv, ContextInv, StageInv, Undisturbed, VerifiedServer
<1> QED
  BY Invariance, <1>1, PTL
=============================================================================
