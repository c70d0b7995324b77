------------------------ MODULE RouteDispatchProofs -------------------------
(***************************************************************************)
(* What RouteDispatch guarantees for every registry, every set of requests  *)
(* and every client.                                                        *)
(*                                                                          *)
(* The gates are proved without a look at how a path is matched.  The       *)
(* choice of an operation rests on the matcher, a recursion over the        *)
(* segments of a template: it is unfolded and reasoned about by induction   *)
(* on the length of a path, which is derived here from the well-foundedness *)
(* of finite sets.                                                          *)
(***************************************************************************)
EXTENDS RouteDispatch, FiniteSetTheorems, TLAPS

-----------------------------------------------------------------------------
(* Induction.                                                                *)

\* Every non-empty set of naturals has a least element: the numbers below n
\* form a finite set, and finite sets are well-founded under inclusion.
LEMMA LeastNatural ==
  ASSUME NEW T \in SUBSET Nat, T # {}
  PROVE  \E x \in T : \A y \in T : x <= y
  <1> DEFINE Down == {0..n : n \in T}
  <1>1. \A n \in Nat : IsFiniteSet(0..n)
    BY FS_Interval
  <1>2. Down \subseteq FiniteSubsetsOf(Nat)
    BY <1>1 DEF FiniteSubsetsOf
  <1>3. \E s \in Down : \A u \in Down : ~(<<u, s>> \in StrictSubsetOrdering(Nat))
    <2>1. Down # {}
      OBVIOUS
    <2> HIDE DEF Down
    <2> QED
      BY <1>2, <2>1, WFMin, FS_StrictSubsetOrderingWellFounded
  <1>4. PICK x \in T : \A y \in T : ~(<<0..y, 0..x>> \in StrictSubsetOrdering(Nat))
    BY <1>3
  <1>5. ASSUME NEW y \in T, y < x
        PROVE  FALSE
    <2>1. 0..y \subseteq 0..x /\ x \in 0..x /\ x \notin 0..y
      BY <1>5
    <2>2. 0..y # 0..x
      BY <2>1
    <2>3. <<0..y, 0..x>> \in (SUBSET Nat) \X (SUBSET Nat)
      OBVIOUS
    <2>4. <<0..y, 0..x>> \in StrictSubsetOrdering(Nat)
      BY <2>1, <2>2, <2>3 DEF StrictSubsetOrdering
    <2> QED
      BY <1>4, <2>4
  <1> QED
    BY <1>5

\* Induction over the length of a path.
LEMMA PathInduction ==
  ASSUME NEW Good \in SUBSET Seq(STRING),
         \A t \in Seq(STRING) : (t # <<>> => Tail(t) \in Good) => t \in Good
  PROVE  Good = Seq(STRING)
  <1> DEFINE Lengths == {Len(t) : t \in Seq(STRING) \ Good}
  <1>1. SUFFICES ASSUME Seq(STRING) \ Good # {}
                 PROVE  FALSE
    OBVIOUS
  <1>2. Lengths \in SUBSET Nat /\ Lengths # {}
    BY <1>1
  <1>3. PICK m \in Lengths : \A k \in Lengths : m <= k
    BY <1>2, LeastNatural
  <1>4. PICK t \in Seq(STRING) \ Good : Len(t) = m
    OBVIOUS
  <1>5. t # <<>> /\ Tail(t) \in Seq(STRING) /\ Tail(t) \notin Good
    OBVIOUS
  <1>6. Len(Tail(t)) \in Lengths
    BY <1>5
  <1>7. Len(Tail(t)) = m - 1 /\ m \in Nat
    BY <1>4, <1>5
  <1> QED
    BY <1>3, <1>6, <1>7

\* What a recursion over the segments of a template defines: a function that
\* gives every template the result of one step on the result for its tail.
LEMMA TemplateRecursion ==
  ASSUME NEW step \in [Seq(STRING) -> [SUBSET Seq(STRING) -> SUBSET Seq(STRING)]]
  PROVE  \E g \in [Seq(STRING) -> SUBSET Seq(STRING)] : \A t \in Seq(STRING) :
           g[t] = IF t = <<>> THEN {<<>>} ELSE step[t][g[Tail(t)]]
  <1> DEFINE F == [Seq(STRING) -> SUBSET Seq(STRING)]
             Solves(g, t) == g[t] = IF t = <<>> THEN {<<>>} ELSE step[t][g[Tail(t)]]
             Upto(n, g) == \A t \in Seq(STRING) : Len(t) <= n => Solves(g, t)
  <1>1. \A n \in Nat : \E g \in F : Upto(n, g)
    <2> DEFINE Bad == {n \in Nat : ~\E g \in F : Upto(n, g)}
    <2>1. SUFFICES ASSUME Bad # {}
                   PROVE  FALSE
      OBVIOUS
    <2>2. Bad \in SUBSET Nat
      OBVIOUS
    <2>3. PICK m \in Bad : \A k \in Bad : m <= k
      BY <2>1, <2>2, LeastNatural
    <2>4. \E g \in F : \A t \in Seq(STRING) : Len(t) < m => Solves(g, t)
      <3>1. CASE m = 0
        <4>1. [t \in Seq(STRING) |-> {<<>>}] \in F
          OBVIOUS
        <4>2. \A t \in Seq(STRING) : ~(Len(t) < m)
          BY <3>1
        <4> QED
          BY <4>1, <4>2
      <3>2. CASE m # 0
        <4>1. m \in Nat /\ m - 1 \in Nat /\ m - 1 \notin Bad
          <5> HIDE DEF Bad
          <5> QED
            BY <2>2, <2>3, <3>2
        <4>2. PICK g \in F : Upto(m - 1, g)
          BY <4>1
        <4>3. \A t \in Seq(STRING) : Len(t) < m => Len(t) <= m - 1
          BY <4>1
        <4> QED
          BY <4>2, <4>3
      <3> QED
        BY <3>1, <3>2
    <2>5. PICK g \in F : \A t \in Seq(STRING) : Len(t) < m => Solves(g, t)
      BY <2>4
    <2> DEFINE h == [t \in Seq(STRING) |-> IF t = <<>> THEN {<<>>} ELSE step[t][g[Tail(t)]]]
    <2>6. h \in F
      <3>1. ASSUME NEW t \in Seq(STRING), t # <<>>
            PROVE  step[t][g[Tail(t)]] \in SUBSET Seq(STRING)
        <4>1. Tail(t) \in Seq(STRING)
          BY <3>1
        <4>2. g[Tail(t)] \in SUBSET Seq(STRING)
          BY <4>1
        <4>3. step[t] \in [SUBSET Seq(STRING) -> SUBSET Seq(STRING)]
          OBVIOUS
        <4> QED
          BY <4>2, <4>3
      <3> QED
        BY <3>1
    <2>7. ASSUME NEW t \in Seq(STRING), Len(t) <= m
          PROVE  Solves(h, t)
      <3>1. CASE t = <<>>
        BY <3>1
      <3>2. CASE t # <<>>
        <4>1. Tail(t) \in Seq(STRING) /\ Len(Tail(t)) < m
          BY <2>7, <3>2
        <4>2. h[Tail(t)] = g[Tail(t)]
          BY <2>5, <4>1
        <4> QED
          BY <3>2, <4>2
      <3> QED
        BY <3>1, <3>2
    <2>8. m \notin Bad
      <3> HIDE DEF h
      <3> QED
        BY <2>6, <2>7
    <2> QED
      BY <2>8
  <1>2. ASSUME NEW m \in Nat, NEW n \in Nat, NEW g \in F, NEW h \in F, Upto(m, g), Upto(n, h)
        PROVE  \A t \in Seq(STRING) : Len(t) <= m /\ Len(t) <= n => g[t] = h[t]
    <2> DEFINE Good == {t \in Seq(STRING) : Len(t) <= m /\ Len(t) <= n => g[t] = h[t]}
    <2>1. ASSUME NEW t \in Seq(STRING), t # <<>> => Tail(t) \in Good
          PROVE  t \in Good
      <3>1. SUFFICES ASSUME Len(t) <= m, Len(t) <= n
                     PROVE  g[t] = h[t]
        OBVIOUS
      <3>2. CASE t = <<>>
        BY <1>2, <3>1, <3>2
      <3>3. CASE t # <<>>
        <4>1. Tail(t) \in Seq(STRING) /\ Len(Tail(t)) <= m /\ Len(Tail(t)) <= n
          BY <3>1, <3>3
        <4>2. g[Tail(t)] = h[Tail(t)]
          BY <2>1, <3>3, <4>1
        <4>3. Solves(g, t) /\ Solves(h, t)
          BY <1>2, <3>1
        <4> QED
          BY <3>3, <4>2, <4>3
      <3> QED
        BY <3>2, <3>3
    <2>2. Good \in SUBSET Seq(STRING)
      OBVIOUS
    <2>3. Good = Seq(STRING)
      <3> HIDE DEF Good
      <3> QED
        BY <2>1, <2>2, PathInduction
    <2> QED
      BY <2>3
  <1> DEFINE Chosen(n) == CHOOSE g \in F : Upto(n, g)
             f == [t \in Seq(STRING) |-> Chosen(Len(t))[t]]
  <1>3. \A n \in Nat : Chosen(n) \in F /\ Upto(n, Chosen(n))
    <2> HIDE DEF F, Upto
    <2> QED
      BY <1>1
  <1> HIDE DEF Chosen
  <1>4. f \in F
    BY <1>3
  <1>5. ASSUME NEW t \in Seq(STRING)
        PROVE  Solves(f, t)
    <2>1. Solves(Chosen(Len(t)), t)
      BY <1>3
    <2>2. CASE t = <<>>
      BY <2>1, <2>2
    <2>3. CASE t # <<>>
      <3>1. Tail(t) \in Seq(STRING) /\ Len(Tail(t)) \in Nat /\ Len(t) \in Nat
            /\ Len(Tail(t)) <= Len(t)
        BY <2>3
      <3>2. Chosen(Len(t))[Tail(t)] = Chosen(Len(Tail(t)))[Tail(t)]
        <4>1. /\ Chosen(Len(t)) \in F /\ Upto(Len(t), Chosen(Len(t)))
              /\ Chosen(Len(Tail(t))) \in F /\ Upto(Len(Tail(t)), Chosen(Len(Tail(t))))
          BY <1>3, <3>1
        <4>2. \A x \in Seq(STRING) : Len(x) <= Len(t) /\ Len(x) <= Len(Tail(t)) =>
                Chosen(Len(t))[x] = Chosen(Len(Tail(t)))[x]
          <5> HIDE DEF F, Upto
          <5> QED
            BY <1>2, <3>1, <4>1, Zenon
        <4>3. Len(Tail(t)) <= Len(t) /\ Len(Tail(t)) <= Len(Tail(t))
          BY <3>1
        <4> QED
          BY <3>1, <4>2, <4>3, Zenon
      <3> QED
        BY <2>1, <2>3, <3>1, <3>2
    <2> QED
      BY <2>2, <2>3
  <1> HIDE DEF f
  <1> QED
    BY <1>4, <1>5

-----------------------------------------------------------------------------
(* The matcher.                                                              *)

Multi == route_placeholder_is_multi_segment

\* One step of the matcher, for every template and path.
MatchStep(template, actual, rest) ==
  IF template = <<>> THEN actual = <<>>
  ELSE IF template[1] \in Multi
       THEN \E n \in 1..Len(actual) : After(actual, n) \in rest
  ELSE /\ actual # <<>>
       /\ Accepts(template[1], actual[1])
       /\ Tail(actual) \in rest

LEMMA MatcherUnfolds ==
  ASSUME NEW t \in Seq(STRING)
  PROVE  route_segments_match[t] =
           {p \in Seq(STRING) : MatchStep(t, p, route_segments_match[Tail(t)])}
  <1> DEFINE M == route_segments_match
             S == Seq(STRING)
  <1>1. PICK step \in [S -> [SUBSET S -> SUBSET S]] :
               step = [x \in S |-> [R \in SUBSET S |-> {p \in S : MatchStep(x, p, R)}]]
    OBVIOUS
  <1>2. PICK g \in [S -> SUBSET S] : \A x \in S :
               g[x] = IF x = <<>> THEN {<<>>} ELSE step[x][g[Tail(x)]]
    BY TemplateRecursion
  <1>3. \A x \in S : g[x] = {p \in S : MatchStep(x, p, g[Tail(x)])}
    <2> SUFFICES ASSUME NEW x \in S
                 PROVE  g[x] = {p \in S : MatchStep(x, p, g[Tail(x)])}
      OBVIOUS
    <2>1. CASE x = <<>>
      <3>1. g[x] = {<<>>}
        BY <1>2, <2>1
      <3> QED
        BY <2>1, <3>1 DEF MatchStep
    <2>2. CASE x # <<>>
      <3>1. g[Tail(x)] \in SUBSET S
        <4>1. Tail(x) \in S
          BY <2>2
        <4> QED
          BY <4>1
      <3>2. g[x] = step[x][g[Tail(x)]]
        BY <1>2, <2>2
      <3> QED
        BY <1>1, <3>1, <3>2
    <2> QED
      BY <2>1, <2>2
  <1>4. g = [x \in S |-> {p \in S : MatchStep(x, p, g[Tail(x)])}]
    BY <1>3
  <1>5. M = [x \in S |-> {p \in S : MatchStep(x, p, M[Tail(x)])}]
    BY <1>4 DEF route_segments_match, MatchStep, Multi
  <1> QED
    BY <1>5

\* What is left of a path after its first segments.
LEMMA AfterFacts ==
  ASSUME NEW p \in Seq(STRING), NEW m \in 0..Len(p)
  PROVE  /\ After(p, m) \in Seq(STRING)
         /\ Len(After(p, m)) = Len(p) - m
         /\ \A i \in 1..(Len(p) - m) : After(p, m)[i] = p[m + i]
  BY DEF After

LEMMA SameSegments ==
  ASSUME NEW a \in Seq(STRING), NEW b \in Seq(STRING), Len(a) = Len(b),
         \A i \in 1..Len(a) : a[i] = b[i]
  PROVE  a = b
  OBVIOUS

LEMMA AfterAfter ==
  ASSUME NEW p \in Seq(STRING), NEW m \in 0..Len(p), NEW n \in 0..(Len(p) - m)
  PROVE  After(After(p, m), n) = After(p, m + n)
  <1> DEFINE a == After(After(p, m), n)
             k == m + n
             b == After(p, k)
  <1>1. After(p, m) \in Seq(STRING) /\ Len(After(p, m)) = Len(p) - m
    BY AfterFacts
  <1>2. a \in Seq(STRING) /\ Len(a) = Len(p) - m - n
    BY <1>1, AfterFacts
  <1>3. k \in 0..Len(p)
    OBVIOUS
  <1>4. b \in Seq(STRING) /\ Len(b) = Len(p) - k
        /\ \A i \in 1..(Len(p) - k) : b[i] = p[k + i]
    <2> HIDE DEF k
    <2> QED
      BY <1>3, AfterFacts
  <1>5. ASSUME NEW i \in 1..Len(a)
        PROVE  a[i] = b[i]
    <2>1. a[i] = After(p, m)[n + i]
      BY <1>1, <1>2, AfterFacts
    <2>2. n + i \in 1..(Len(p) - m) /\ i \in 1..(Len(p) - k)
      BY <1>2
    <2>3. After(p, m)[n + i] = p[m + (n + i)]
      BY <2>2, AfterFacts
    <2>4. m + (n + i) = k + i
      BY <2>2
    <2> QED
      BY <1>4, <2>1, <2>2, <2>3, <2>4
  <1> HIDE DEF a, b
  <1>6. Len(a) = Len(b)
    BY <1>2, <1>4
  <1>7. a = b
    BY <1>2, <1>4, <1>5, <1>6, SameSegments
  <1> QED
    BY <1>7 DEF a, b

LEMMA AfterEnds ==
  ASSUME NEW p \in Seq(STRING)
  PROVE  /\ After(p, 0) = p
         /\ p # <<>> => After(p, 1) = Tail(p)
  <1>1. After(p, 0) = p
    <2>1. After(p, 0) \in Seq(STRING) /\ Len(After(p, 0)) = Len(p)
          /\ \A i \in 1..Len(p) : After(p, 0)[i] = p[i]
      BY AfterFacts
    <2> QED
      BY <2>1
  <1>2. ASSUME p # <<>>
        PROVE  After(p, 1) = Tail(p)
    <2>1. After(p, 1) \in Seq(STRING) /\ Len(After(p, 1)) = Len(p) - 1
          /\ \A i \in 1..(Len(p) - 1) : After(p, 1)[i] = p[1 + i]
      BY <1>2, AfterFacts
    <2>2. Tail(p) \in Seq(STRING) /\ Len(Tail(p)) = Len(p) - 1
          /\ \A i \in 1..(Len(p) - 1) : Tail(p)[i] = p[i + 1]
      BY <1>2
    <2> QED
      BY <2>1, <2>2
  <1> QED
    BY <1>1, <1>2

\* The matcher as one rule: the first segment takes some segments of the path,
\* one unless it stands for several, and the tail matches the rest.
Takes(segment, m, p) == segment \in Multi \/ (m = 1 /\ Accepts(segment, p[1]))

LEMMA MatchEmpty == route_segments_match[<<>>] = {<<>>}
  <1> DEFINE rest == route_segments_match[Tail(<<>>)]
  <1>1. \A p : MatchStep(<<>>, p, rest) <=> p = <<>>
    BY DEF MatchStep
  <1>2. <<>> \in Seq(STRING)
    OBVIOUS
  <1>3. route_segments_match[<<>>] = {p \in Seq(STRING) : MatchStep(<<>>, p, rest)}
    BY <1>2, MatcherUnfolds
  <1> HIDE DEF rest
  <1> QED
    BY <1>1, <1>2, <1>3

LEMMA MatchRule ==
  ASSUME NEW t \in Seq(STRING), t # <<>>, NEW p
  PROVE  p \in route_segments_match[t] <=>
           /\ p \in Seq(STRING)
           /\ \E m \in 1..Len(p) :
                Takes(t[1], m, p) /\ After(p, m) \in route_segments_match[Tail(t)]
  <1> DEFINE rest == route_segments_match[Tail(t)]
  <1>1. p \in route_segments_match[t] <=> p \in Seq(STRING) /\ MatchStep(t, p, rest)
    BY MatcherUnfolds
  <1>2. CASE t[1] \in Multi
    BY <1>1, <1>2 DEF MatchStep, Takes
  <1>3. CASE t[1] \notin Multi
    <2>1. MatchStep(t, p, rest) <=> p # <<>> /\ Accepts(t[1], p[1]) /\ Tail(p) \in rest
      BY <1>3 DEF MatchStep
    <2>2. p \in Seq(STRING) /\ p # <<>> => 1 \in 1..Len(p) /\ After(p, 1) = Tail(p)
      BY AfterEnds
    <2>3. p \in Seq(STRING) /\ (\E m \in 1..Len(p) : TRUE) => p # <<>>
      OBVIOUS
    <2> HIDE DEF rest
    <2>4. \A m : Takes(t[1], m, p) <=> m = 1 /\ Accepts(t[1], p[1])
      BY <1>3 DEF Takes
    <2>5. ASSUME p \in Seq(STRING), p # <<>>, Accepts(t[1], p[1]), Tail(p) \in rest
          PROVE  \E m \in 1..Len(p) : Takes(t[1], m, p) /\ After(p, m) \in rest
      BY <2>2, <2>4, <2>5
    <2>6. ASSUME p \in Seq(STRING), NEW m \in 1..Len(p), Takes(t[1], m, p), After(p, m) \in rest
          PROVE  p # <<>> /\ Accepts(t[1], p[1]) /\ Tail(p) \in rest
      BY <2>2, <2>3, <2>4, <2>6
    <2> QED
      BY <1>1, <2>1, <2>5, <2>6 DEF rest
  <1> QED
    BY <1>2, <1>3

\* A template takes at least a segment of the path for each of its own, and
\* exactly one when none stands for several.
LEMMA MatchLength ==
  \A t \in Seq(STRING) : \A p \in route_segments_match[t] :
    /\ p \in Seq(STRING) /\ Len(t) <= Len(p)
    /\ IsRigid(t) => Len(t) = Len(p)
  <1> DEFINE M == route_segments_match
             Good == {t \in Seq(STRING) : \A p \in M[t] :
                        /\ p \in Seq(STRING) /\ Len(t) <= Len(p)
                        /\ IsRigid(t) => Len(t) = Len(p)}
  <1>1. ASSUME NEW t \in Seq(STRING), t # <<>> => Tail(t) \in Good
        PROVE  t \in Good
    <2> SUFFICES ASSUME NEW p \in M[t]
                 PROVE  /\ p \in Seq(STRING) /\ Len(t) <= Len(p)
                        /\ IsRigid(t) => Len(t) = Len(p)
      OBVIOUS
    <2>1. CASE t = <<>>
      BY <2>1, MatchEmpty
    <2>2. CASE t # <<>>
      <3>1. PICK m \in 1..Len(p) : Takes(t[1], m, p) /\ After(p, m) \in M[Tail(t)]
        BY <2>2, MatchRule
      <3>2. p \in Seq(STRING)
        BY <2>2, MatchRule
      <3>3. Len(After(p, m)) = Len(p) - m
        BY <3>2, AfterFacts
      <3>4. /\ Len(Tail(t)) <= Len(After(p, m))
            /\ IsRigid(Tail(t)) => Len(Tail(t)) = Len(After(p, m))
        BY <1>1, <2>2, <3>1
      <3>5. IsRigid(t) => IsRigid(Tail(t)) /\ t[1] \notin Multi
        BY <2>2 DEF IsRigid, Multi
      <3>6. t[1] \notin Multi => m = 1
        BY <3>1 DEF Takes
      <3>7. Len(Tail(t)) = Len(t) - 1 /\ Len(t) \in Nat /\ Len(p) \in Nat
        BY <2>2, <3>2
      <3> QED
        BY <3>2, <3>3, <3>4, <3>5, <3>6, <3>7
    <2> QED
      BY <2>1, <2>2
  <1>2. Good = Seq(STRING)
    <2>1. Good \in SUBSET Seq(STRING)
      OBVIOUS
    <2> HIDE DEF Good
    <2> QED
      BY <1>1, <2>1, PathInduction
  <1> QED
    BY <1>2

\* Before the first segment that stands for several, a template and its path
\* agree position by position.
LEMMA MatchLeading ==
  \A t \in Seq(STRING) : \A p \in route_segments_match[t] : \A i \in Leading(t) :
    i \in 1..Len(p) /\ Accepts(t[i], p[i])
  <1> DEFINE M == route_segments_match
             Good == {t \in Seq(STRING) : \A p \in M[t] : \A i \in Leading(t) :
                        i \in 1..Len(p) /\ Accepts(t[i], p[i])}
  <1>1. ASSUME NEW t \in Seq(STRING), t # <<>> => Tail(t) \in Good
        PROVE  t \in Good
    <2> SUFFICES ASSUME NEW p \in M[t], NEW i \in Leading(t)
                 PROVE  i \in 1..Len(p) /\ Accepts(t[i], p[i])
      OBVIOUS
    <2>1. i \in 1..Len(t) /\ t # <<>> /\ t[1] \notin Multi
      BY DEF Leading, Multi
    <2>2. PICK m \in 1..Len(p) : Takes(t[1], m, p) /\ After(p, m) \in M[Tail(t)]
      BY <2>1, MatchRule
    <2>3. p \in Seq(STRING) /\ m = 1 /\ Accepts(t[1], p[1])
      BY <2>1, <2>2, MatchRule DEF Takes
    <2>4. CASE i = 1
      BY <2>2, <2>3, <2>4
    <2>5. CASE i # 1
      <3>1. i - 1 \in Leading(Tail(t)) /\ Tail(t)[i - 1] = t[i]
        BY <2>1, <2>5 DEF Leading
      <3>2. i - 1 \in 1..Len(After(p, 1)) /\ Accepts(t[i], After(p, 1)[i - 1])
        BY <1>1, <2>1, <2>2, <2>3, <3>1
      <3>3. 1 \in 0..Len(p)
        BY <2>2, <2>3
      <3>4. Len(After(p, 1)) = Len(p) - 1
            /\ \A j \in 1..(Len(p) - 1) : After(p, 1)[j] = p[1 + j]
        BY <2>3, <3>3, AfterFacts
      <3>5. i - 1 \in 1..(Len(p) - 1)
        BY <3>2, <3>4
      <3>6. After(p, 1)[i - 1] = p[1 + (i - 1)]
        BY <3>4, <3>5
      <3> QED
        BY <2>1, <2>3, <3>2, <3>5, <3>6
    <2> QED
      BY <2>4, <2>5
  <1>2. Good = Seq(STRING)
    <2>1. Good \in SUBSET Seq(STRING)
      OBVIOUS
    <2> HIDE DEF Good
    <2> QED
      BY <1>1, <2>1, PathInduction
  <1> QED
    BY <1>2

\* Behind the last segment that stands for several, they agree counted from the
\* end.
LEMMA MatchTrailing ==
  \A t \in Seq(STRING) : \A p \in route_segments_match[t] : \A i \in Trailing(t) :
    LET k == Len(p) - (Len(t) - i)
    IN  k \in 1..Len(p) /\ Accepts(t[i], p[k])
  <1> DEFINE M == route_segments_match
             Ends(t, p, i) == /\ Len(p) - (Len(t) - i) \in 1..Len(p)
                              /\ Accepts(t[i], p[Len(p) - (Len(t) - i)])
             Good == {t \in Seq(STRING) : \A p \in M[t] : \A i \in Trailing(t) : Ends(t, p, i)}
  <1>1. ASSUME NEW t \in Seq(STRING), t # <<>> => Tail(t) \in Good
        PROVE  t \in Good
    <2> SUFFICES ASSUME NEW p \in M[t], NEW i \in Trailing(t)
                 PROVE  Ends(t, p, i)
      OBVIOUS
    <2>1. i \in 1..Len(t) /\ t # <<>>
      BY DEF Trailing
    <2>2. PICK m \in 1..Len(p) : Takes(t[1], m, p) /\ After(p, m) \in M[Tail(t)]
      BY <2>1, MatchRule
    <2>3. p \in Seq(STRING)
      BY <2>1, MatchRule
    <2>4. CASE i = 1
      <3>1. IsRigid(t) /\ t[1] \notin Multi
        BY <2>1, <2>4 DEF Trailing, IsRigid, Multi
      <3>2. Len(t) = Len(p)
        BY <3>1, MatchLength
      <3>3. Accepts(t[1], p[1])
        BY <2>2, <3>1 DEF Takes
      <3>4. Len(p) - (Len(t) - i) = 1 /\ 1 \in 1..Len(p)
        BY <2>1, <2>3, <2>4, <3>2
      <3> QED
        BY <2>4, <3>3, <3>4
    <2>5. CASE i # 1
      <3> DEFINE q == After(p, m)
                 u == Tail(t)
      <3>1. i - 1 \in Trailing(u) /\ u[i - 1] = t[i]
        BY <2>1, <2>5 DEF Trailing
      <3>2. u \in Good
        BY <1>1, <2>1
      <3>3. Ends(u, q, i - 1)
        BY <2>2, <3>1, <3>2
      <3>4. m \in 0..Len(p)
        BY <2>2, <2>3
      <3>5. Len(q) = Len(p) - m /\ \A j \in 1..(Len(p) - m) : q[j] = p[m + j]
        BY <2>3, <3>4, AfterFacts
      <3>6. Len(u) = Len(t) - 1
        BY <2>1
      <3> HIDE DEF q, u
      <3>7. Len(q) - (Len(u) - (i - 1)) \in 1..(Len(p) - m)
        BY <3>3, <3>5
      <3>8. m + (Len(q) - (Len(u) - (i - 1))) = Len(p) - (Len(t) - i)
        BY <2>1, <2>2, <2>3, <3>5, <3>6
      <3>9. q[Len(q) - (Len(u) - (i - 1))] = p[Len(p) - (Len(t) - i)]
        BY <3>5, <3>7, <3>8
      <3>10. \A x \in 1..(Len(p) - m) : m + x \in 1..Len(p)
        BY <2>2, <2>3
      <3>11. Len(p) - (Len(t) - i) \in 1..Len(p)
        BY <3>7, <3>8, <3>10
      <3> QED
        BY <3>1, <3>3, <3>9, <3>11
    <2> QED
      BY <2>4, <2>5
  <1>2. Good = Seq(STRING)
    <2>1. Good \in SUBSET Seq(STRING)
      OBVIOUS
    <2> HIDE DEF Good
    <2> QED
      BY <1>1, <2>1, PathInduction
  <1> QED
    BY <1>2

\* Templates that are apart have no path in common.
LEMMA ApartIsDisjoint ==
  ASSUME NEW s \in Seq(STRING), NEW t \in Seq(STRING),
         NEW p \in route_segments_match[s], p \in route_segments_match[t]
  PROVE  ~Apart(s, t)
  <1>1. \A a, b, word : Accepts(a, word) /\ Accepts(b, word) => SegmentsMeet(a, b)
    BY DEF Accepts, SegmentsMeet
  <1>2. ASSUME NEW i \in Leading(s) \cap Leading(t)
        PROVE  SegmentsMeet(s[i], t[i])
    BY <1>1, MatchLeading
  <1>3. ASSUME NEW i \in Trailing(s), NEW j \in Trailing(t), Len(s) - i = Len(t) - j
        PROVE  SegmentsMeet(s[i], t[j])
    <2>1. Accepts(s[i], p[Len(p) - (Len(s) - i)]) /\ Accepts(t[j], p[Len(p) - (Len(t) - j)])
      BY MatchTrailing
    <2> QED
      BY <1>1, <1>3, <2>1
  <1>4. /\ IsRigid(s) => ~(Len(s) < Len(t))
        /\ IsRigid(t) => ~(Len(t) < Len(s))
    <2>1. /\ Len(s) <= Len(p) /\ (IsRigid(s) => Len(s) = Len(p))
          /\ Len(t) <= Len(p) /\ (IsRigid(t) => Len(t) = Len(p)) /\ p \in Seq(STRING)
      BY MatchLength
    <2> QED
      BY <2>1
  <1> QED
    BY <1>2, <1>3, <1>4 DEF Apart

\* A path splits where its template does.
LEMMA MatchSplits ==
  \A t \in Seq(STRING) : \A p \in route_segments_match[t] : \A k \in 0..Len(t) :
    \E j \in k..Len(p) : After(p, j) \in route_segments_match[After(t, k)]
  <1> DEFINE M == route_segments_match
             Splits(t, p, k) == \E j \in k..Len(p) : After(p, j) \in M[After(t, k)]
             Good == {t \in Seq(STRING) : \A p \in M[t] : \A k \in 0..Len(t) : Splits(t, p, k)}
  <1>1. ASSUME NEW t \in Seq(STRING), t # <<>> => Tail(t) \in Good
        PROVE  t \in Good
    <2> SUFFICES ASSUME NEW p \in M[t], NEW k \in 0..Len(t)
                 PROVE  Splits(t, p, k)
      OBVIOUS
    <2>1. p \in Seq(STRING)
      BY MatchLength
    <2>2. CASE k = 0
      <3>1. After(p, 0) = p /\ After(t, 0) = t /\ 0 \in 0..Len(p)
        BY <2>1, AfterEnds
      <3> QED
        BY <2>2, <3>1
    <2>3. CASE k # 0
      <3>1. t # <<>> /\ k - 1 \in 0..Len(Tail(t)) /\ 1 \in 0..Len(t) /\ k - 1 \in 0..(Len(t) - 1)
        BY <2>3
      <3>2. PICK m \in 1..Len(p) : After(p, m) \in M[Tail(t)]
        BY <3>1, MatchRule
      <3>3. Splits(Tail(t), After(p, m), k - 1)
        BY <1>1, <3>1, <3>2
      <3>4. PICK j \in (k - 1)..Len(After(p, m)) :
                   After(After(p, m), j) \in M[After(Tail(t), k - 1)]
        BY <3>3
      <3>5. After(Tail(t), k - 1) = After(t, k)
        <4>1. After(After(t, 1), k - 1) = After(t, 1 + (k - 1))
          BY <3>1, AfterAfter
        <4>2. 1 + (k - 1) = k
          OBVIOUS
        <4>3. After(t, 1) = Tail(t)
          BY <3>1, AfterEnds
        <4> QED
          BY <4>1, <4>2, <4>3
      <3>6. Len(After(p, m)) = Len(p) - m
        BY <2>1, AfterFacts
      <3>7. m \in 0..Len(p) /\ j \in 0..(Len(p) - m) /\ m + j \in k..Len(p)
        <4>1. j \in (k - 1)..(Len(p) - m) /\ Len(p) \in Nat
          BY <2>1, <3>6
        <4> QED
          BY <3>1, <4>1
      <3>8. After(After(p, m), j) = After(p, m + j)
        BY <2>1, <3>7, AfterAfter
      <3> QED
        BY <3>4, <3>5, <3>7, <3>8
    <2> QED
      BY <2>2, <2>3
  <1>2. Good = Seq(STRING)
    <2>1. Good \in SUBSET Seq(STRING)
      OBVIOUS
    <2> HIDE DEF Good
    <2> QED
      BY <1>1, <2>1, PathInduction
  <1> QED
    BY <1>2

-----------------------------------------------------------------------------
(* Covering.                                                                 *)

CoversSegment(wide, narrow) ==
  \/ wide \in Placeholders
  \/ /\ narrow \notin Placeholders
     /\ Alternatives(narrow) \subseteq Alternatives(wide)

CoverStep(wide, narrow, rest) ==
  IF wide = <<>> THEN narrow = <<>>
  ELSE IF wide[1] \in Multi
       THEN \E n \in 1..Len(narrow) : After(narrow, n) \in rest
  ELSE /\ narrow # <<>>
       /\ narrow[1] \notin Multi
       /\ CoversSegment(wide[1], narrow[1])
       /\ Tail(narrow) \in rest

LEMMA CoverUnfolds ==
  ASSUME NEW t \in Seq(STRING)
  PROVE  Covered[t] =
           {p \in Seq(STRING) : CoverStep(t, p, Covered[Tail(t)])}
  <1> DEFINE C == Covered
             S == Seq(STRING)
  <1>1. PICK step \in [S -> [SUBSET S -> SUBSET S]] :
               step = [x \in S |-> [R \in SUBSET S |-> {p \in S : CoverStep(x, p, R)}]]
    OBVIOUS
  <1>2. PICK g \in [S -> SUBSET S] : \A x \in S :
               g[x] = IF x = <<>> THEN {<<>>} ELSE step[x][g[Tail(x)]]
    BY TemplateRecursion
  <1>3. \A x \in S : g[x] = {p \in S : CoverStep(x, p, g[Tail(x)])}
    <2> SUFFICES ASSUME NEW x \in S
                 PROVE  g[x] = {p \in S : CoverStep(x, p, g[Tail(x)])}
      OBVIOUS
    <2>1. CASE x = <<>>
      <3>1. g[x] = {<<>>}
        BY <1>2, <2>1
      <3> QED
        BY <2>1, <3>1 DEF CoverStep
    <2>2. CASE x # <<>>
      <3>1. g[Tail(x)] \in SUBSET S
        <4>1. Tail(x) \in S
          BY <2>2
        <4> QED
          BY <4>1
      <3>2. g[x] = step[x][g[Tail(x)]]
        BY <1>2, <2>2
      <3> QED
        BY <1>1, <3>1, <3>2
    <2> QED
      BY <2>1, <2>2
  <1>4. g = [x \in S |-> {p \in S : CoverStep(x, p, g[Tail(x)])}]
    BY <1>3
  <1>5. C = [x \in S |-> {p \in S : CoverStep(x, p, C[Tail(x)])}]
    BY <1>4 DEF Covered, CoverStep, CoversSegment, Multi
  <1> QED
    BY <1>5

LEMMA CoverEmpty == Covered[<<>>] = {<<>>}
  <1> DEFINE rest == Covered[Tail(<<>>)]
  <1>1. \A n : CoverStep(<<>>, n, rest) <=> n = <<>>
    BY DEF CoverStep
  <1>2. <<>> \in Seq(STRING)
    OBVIOUS
  <1>3. Covered[<<>>] = {p \in Seq(STRING) : CoverStep(<<>>, p, rest)}
    BY <1>2, CoverUnfolds
  <1> HIDE DEF rest
  <1> QED
    BY <1>1, <1>2, <1>3

\* The cover relation as one rule, like the matcher's.
LEMMA CoverRule ==
  ASSUME NEW w \in Seq(STRING), w # <<>>, NEW n \in Covered[w]
  PROVE  /\ n \in Seq(STRING)
         /\ \E m \in 1..Len(n) :
              /\ After(n, m) \in Covered[Tail(w)]
              /\ \/ w[1] \in Multi
                 \/ m = 1 /\ n[1] \notin Multi /\ CoversSegment(w[1], n[1])
  <1> DEFINE rest == Covered[Tail(w)]
  <1>1. n \in Seq(STRING) /\ CoverStep(w, n, rest)
    BY CoverUnfolds
  <1>2. CASE w[1] \in Multi
    BY <1>1, <1>2 DEF CoverStep
  <1>3. CASE w[1] \notin Multi
    <2>1. n # <<>> /\ n[1] \notin Multi /\ CoversSegment(w[1], n[1]) /\ Tail(n) \in rest
      BY <1>1, <1>3 DEF CoverStep
    <2>2. 1 \in 1..Len(n) /\ After(n, 1) = Tail(n)
      BY <1>1, <2>1, AfterEnds
    <2> QED
      BY <1>1, <2>1, <2>2
  <1> QED
    BY <1>2, <1>3

\* A segment that covers another accepts whatever that one accepts.
LEMMA CoverAccepts ==
  ASSUME NEW wide, NEW narrow, NEW word, CoversSegment(wide, narrow), Accepts(narrow, word)
  PROVE  Accepts(wide, word)
  BY DEF CoversSegment, Accepts

\* A template that covers another matches every path that one matches.
THEOREM CoverMatches ==
  \A w \in Seq(STRING) : \A n \in Covered[w] :
    n \in Seq(STRING) /\ route_segments_match[n] \subseteq route_segments_match[w]
  <1> DEFINE M == route_segments_match
             Good == {w \in Seq(STRING) : \A n \in Covered[w] :
                        n \in Seq(STRING) /\ M[n] \subseteq M[w]}
  <1>1. ASSUME NEW w \in Seq(STRING), w # <<>> => Tail(w) \in Good
        PROVE  w \in Good
    <2> SUFFICES ASSUME NEW n \in Covered[w]
                 PROVE  n \in Seq(STRING) /\ M[n] \subseteq M[w]
      OBVIOUS
    <2>1. CASE w = <<>>
      BY <2>1, CoverEmpty
    <2>2. CASE w # <<>>
      <3>1. n \in Seq(STRING)
        BY <2>2, CoverRule
      <3>2. PICK k \in 1..Len(n) :
              /\ After(n, k) \in Covered[Tail(w)]
              /\ \/ w[1] \in Multi
                 \/ k = 1 /\ n[1] \notin Multi /\ CoversSegment(w[1], n[1])
        BY <2>2, CoverRule
      <3>3. M[After(n, k)] \subseteq M[Tail(w)]
        BY <1>1, <2>2, <3>2
      <3>4. ASSUME NEW p \in M[n]
            PROVE  p \in M[w]
        <4>1. p \in Seq(STRING)
          BY <3>1, MatchLength
        <4>2. CASE w[1] \in Multi
          <5>1. k \in 0..Len(n)
            BY <3>1
          <5>2. PICK j \in k..Len(p) : After(p, j) \in M[After(n, k)]
            BY <3>1, <5>1, MatchSplits
          <5>3. j \in 1..Len(p) /\ Takes(w[1], j, p)
            BY <3>1, <4>1, <4>2 DEF Takes
          <5> QED
            BY <2>2, <3>3, <4>1, <5>2, <5>3, MatchRule
        <4>3. CASE w[1] \notin Multi
          <5>1. k = 1 /\ n[1] \notin Multi /\ CoversSegment(w[1], n[1]) /\ n # <<>>
            BY <3>1, <3>2, <4>3
          <5>2. PICK m \in 1..Len(p) : Takes(n[1], m, p) /\ After(p, m) \in M[Tail(n)]
            BY <3>1, <5>1, MatchRule
          <5>3. m = 1 /\ Accepts(n[1], p[1])
            BY <5>1, <5>2 DEF Takes
          <5>4. Takes(w[1], m, p)
            BY <5>1, <5>3, CoverAccepts DEF Takes
          <5>5. After(n, k) = Tail(n)
            BY <3>1, <5>1, AfterEnds
          <5> QED
            BY <2>2, <3>3, <4>1, <5>2, <5>4, <5>5, MatchRule
        <4> QED
          BY <4>2, <4>3
      <3> QED
        BY <3>1, <3>4
    <2> QED
      BY <2>1, <2>2
  <1>2. Good = Seq(STRING)
    <2>1. Good \in SUBSET Seq(STRING)
      OBVIOUS
    <2> HIDE DEF Good
    <2> QED
      BY <1>1, <2>1, PathInduction
  <1> QED
    BY <1>2

\* A template is no longer than one it covers; of equal length, they compare
\* position by position.
LEMMA CoverPointwise ==
  \A w \in Seq(STRING) : \A n \in Covered[w] :
    /\ n \in Seq(STRING) /\ Len(w) <= Len(n)
    /\ Len(w) = Len(n) => \A i \in 1..Len(w) : CoversSegment(w[i], n[i])
  <1> DEFINE Fits(w, n) == /\ n \in Seq(STRING) /\ Len(w) <= Len(n)
                           /\ Len(w) = Len(n) => \A i \in 1..Len(w) : CoversSegment(w[i], n[i])
             Good == {w \in Seq(STRING) : \A n \in Covered[w] : Fits(w, n)}
  <1>1. ASSUME NEW w \in Seq(STRING), w # <<>> => Tail(w) \in Good
        PROVE  w \in Good
    <2> SUFFICES ASSUME NEW n \in Covered[w]
                 PROVE  Fits(w, n)
      OBVIOUS
    <2>1. CASE w = <<>>
      BY <2>1, CoverEmpty
    <2>2. CASE w # <<>>
      <3>1. n \in Seq(STRING)
        BY <2>2, CoverRule
      <3>2. PICK k \in 1..Len(n) :
              /\ After(n, k) \in Covered[Tail(w)]
              /\ \/ w[1] \in Multi
                 \/ k = 1 /\ n[1] \notin Multi /\ CoversSegment(w[1], n[1])
        BY <2>2, CoverRule
      <3>3. Fits(Tail(w), After(n, k))
        BY <1>1, <2>2, <3>2
      <3>4. k \in 0..Len(n)
        BY <3>1
      <3>5. Len(After(n, k)) = Len(n) - k
            /\ \A i \in 1..(Len(n) - k) : After(n, k)[i] = n[k + i]
        BY <3>1, <3>4, AfterFacts
      <3>6. Len(Tail(w)) = Len(w) - 1 /\ \A i \in 1..(Len(w) - 1) : Tail(w)[i] = w[i + 1]
        BY <2>2
      <3>7. Len(w) <= Len(n)
        BY <3>1, <3>3, <3>4, <3>5, <3>6
      <3>8. ASSUME Len(w) = Len(n), NEW i \in 1..Len(w)
            PROVE  CoversSegment(w[i], n[i])
        <4>1. k = 1
          BY <3>1, <3>3, <3>4, <3>5, <3>6, <3>8
        <4>2. CASE i = 1
          BY <3>2, <4>2 DEF CoversSegment, Multi, Placeholders
        <4>3. CASE i # 1
          <5>1. i - 1 \in 1..(Len(w) - 1) /\ i - 1 \in 1..(Len(n) - k) /\ i - 1 \in 1..Len(Tail(w))
            BY <3>6, <3>8, <4>1, <4>3
          <5>2. CoversSegment(Tail(w)[i - 1], After(n, k)[i - 1])
            BY <3>3, <3>5, <3>6, <3>8, <4>1, <5>1
          <5>3. Tail(w)[i - 1] = w[(i - 1) + 1] /\ After(n, k)[i - 1] = n[k + (i - 1)]
            BY <3>5, <3>6, <5>1
          <5>4. (i - 1) + 1 = i /\ k + (i - 1) = i
            BY <4>1
          <5> QED
            BY <5>2, <5>3, <5>4
        <4> QED
          BY <4>2, <4>3
      <3> QED
        BY <3>1, <3>7, <3>8
    <2> QED
      BY <2>1, <2>2
  <1>2. Good = Seq(STRING)
    <2>1. Good \in SUBSET Seq(STRING)
      OBVIOUS
    <2> HIDE DEF Good
    <2> QED
      BY <1>1, <2>1, PathInduction
  <1> QED
    BY <1>2

\* A path as long as the template matches it exactly when every segment is
\* accepted in its place.
LEMMA MatchPointwise ==
  \A t \in Seq(STRING) : \A p \in Seq(STRING) : Len(t) = Len(p) =>
    (p \in route_segments_match[t] <=> \A i \in 1..Len(t) : Accepts(t[i], p[i]))
  <1> DEFINE M == route_segments_match
             Each(t, p) == \A i \in 1..Len(t) : Accepts(t[i], p[i])
             Good == {t \in Seq(STRING) : \A p \in Seq(STRING) : Len(t) = Len(p) =>
                        (p \in M[t] <=> Each(t, p))}
  <1>1. ASSUME NEW t \in Seq(STRING), t # <<>> => Tail(t) \in Good
        PROVE  t \in Good
    <2> SUFFICES ASSUME NEW p \in Seq(STRING), Len(t) = Len(p)
                 PROVE  p \in M[t] <=> Each(t, p)
      OBVIOUS
    <2>1. CASE t = <<>>
      <3>1. p = <<>>
        BY <2>1
      <3> QED
        BY <2>1, <3>1, MatchEmpty
    <2>2. CASE t # <<>>
      <3> DEFINE u == Tail(t)
                 q == After(p, 1)
      <3>1. 1 \in 0..Len(p) /\ 1 \in 1..Len(p) /\ u \in Seq(STRING) /\ Len(u) = Len(t) - 1
            /\ \A i \in 1..(Len(t) - 1) : u[i] = t[i + 1]
        BY <2>2
      <3>2. q \in Seq(STRING) /\ Len(q) = Len(p) - 1
            /\ \A i \in 1..(Len(p) - 1) : q[i] = p[1 + i]
        BY <3>1, AfterFacts
      <3>3. q \in M[u] <=> Each(u, q)
        BY <1>1, <2>2, <3>1, <3>2
      <3>4. p \in M[t] <=> Accepts(t[1], p[1]) /\ q \in M[u]
        <4>1. ASSUME NEW m \in 1..Len(p), Takes(t[1], m, p), After(p, m) \in M[u]
              PROVE  m = 1 /\ Accepts(t[1], p[1])
          <5>1. Len(u) <= Len(After(p, m))
            BY <3>1, <4>1, MatchLength
          <5>2. m \in 0..Len(p)
            OBVIOUS
          <5>3. Len(After(p, m)) = Len(p) - m
            BY <5>2, AfterFacts
          <5>4. m = 1
            BY <3>1, <5>1, <5>2, <5>3
          <5> QED
            BY <4>1, <5>4 DEF Takes, Accepts, Multi, Placeholders
        <4>2. Accepts(t[1], p[1]) => Takes(t[1], 1, p)
          BY DEF Takes
        <4>3. p \in M[t] <=> \E m \in 1..Len(p) : Takes(t[1], m, p) /\ After(p, m) \in M[u]
          BY <2>2, MatchRule
        <4> QED
          BY <3>1, <4>1, <4>2, <4>3
      <3>5. Each(t, p) <=> Accepts(t[1], p[1]) /\ Each(u, q)
        <4> HIDE DEF u, q
        <4>1. ASSUME Each(t, p), NEW i \in 1..Len(u)
              PROVE  Accepts(u[i], q[i])
          <5>1. i \in 1..(Len(t) - 1) /\ i \in 1..(Len(p) - 1) /\ i + 1 \in 1..Len(t) /\ 1 + i = i + 1
            BY <3>1
          <5> QED
            BY <3>1, <3>2, <4>1, <5>1
        <4>2. ASSUME Each(u, q), Accepts(t[1], p[1]), NEW i \in 1..Len(t)
              PROVE  Accepts(t[i], p[i])
          <5>1. CASE i = 1
            BY <4>2, <5>1
          <5>2. CASE i # 1
            <6>1. /\ i - 1 \in 1..(Len(t) - 1) /\ i - 1 \in 1..(Len(p) - 1)
                  /\ i - 1 \in 1..Len(u) /\ (i - 1) + 1 = i /\ 1 + (i - 1) = i
              BY <3>1, <5>2
            <6> QED
              BY <3>1, <3>2, <4>2, <6>1
          <5> QED
            BY <5>1, <5>2
        <4>3. Each(t, p) => Accepts(t[1], p[1])
          BY <3>1
        <4> QED
          BY <4>1, <4>2, <4>3
      <3> QED
        BY <3>3, <3>4, <3>5
    <2> QED
      BY <2>1, <2>2
  <1>2. Good = Seq(STRING)
    <2>1. Good \in SUBSET Seq(STRING)
      OBVIOUS
    <2> HIDE DEF Good
    <2> QED
      BY <1>1, <2>1, PathInduction
  <1> QED
    BY <1>2

-----------------------------------------------------------------------------
(* The choice among the matches.                                             *)

LEMMA SpecificityIsNatural ==
  ASSUME NEW op \in Operations
  PROVE  route_template_specificity(op) \in Nat
  <1> DEFINE static == {i \in DOMAIN op.path : IsStatic(op.path[i])}
  <1>1. IsFiniteSet(op.query) /\ op.path \in Seq(STRING)
    BY RegistryAssumption
  <1>2. static \in SUBSET (1..Len(op.path)) /\ Len(op.path) \in Nat
    BY <1>1
  <1>3. IsFiniteSet(static)
    <2>1. IsFiniteSet(1..Len(op.path))
      BY <1>2, FS_Interval
    <2> HIDE DEF static
    <2> QED
      BY <1>2, <2>1, FS_Subset
  <1>4. Cardinality(op.query) \in Nat /\ Cardinality(static) \in Nat
    BY <1>1, <1>3, FS_CardinalityType
  <1> QED
    BY <1>2, <1>4 DEF route_template_specificity

\* Among finitely many operations some score is the highest.
LEMMA SomeMostSpecific ==
  ASSUME NEW ops \in SUBSET Operations, ops # {}
  PROVE  MostSpecific(ops) # {}
  <1> DEFINE Bad == {U \in SUBSET ops : U # {} /\ MostSpecific(U) = {}}
  <1>1. SUFFICES ASSUME Bad # {}
                 PROVE  FALSE
    OBVIOUS
  <1>2. IsFiniteSet(ops)
    BY RegistryAssumption, FS_Subset
  <1>3. Bad \subseteq FiniteSubsetsOf(ops)
    BY <1>2, FS_Subset DEF FiniteSubsetsOf
  <1>4. PICK U \in Bad : \A V \in Bad : ~(<<V, U>> \in StrictSubsetOrdering(ops))
    <2> HIDE DEF Bad
    <2> QED
      BY <1>1, <1>3, WFMin, FS_StrictSubsetOrderingWellFounded
  <1>5. PICK x \in U : TRUE
    OBVIOUS
  <1> DEFINE V == U \ {x}
             score(op) == route_template_specificity(op)
  <1>6. \A op \in U : score(op) \in Nat
    BY SpecificityIsNatural
  <1>7. V \notin Bad
    <2>1. <<V, U>> \in (SUBSET ops) \X (SUBSET ops) /\ V \subseteq U /\ V # U
      OBVIOUS
    <2>2. <<V, U>> \in StrictSubsetOrdering(ops)
      BY <2>1 DEF StrictSubsetOrdering
    <2> QED
      BY <1>4, <2>2
  <1>8. CASE V = {}
    <2>1. U = {x} /\ score(x) <= score(x)
      BY <1>6, <1>8
    <2>2. x \in MostSpecific(U)
      BY <2>1 DEF MostSpecific
    <2> QED
      BY <2>2
  <1>9. CASE V # {}
    <2>1. PICK y \in V : \A op \in V : score(op) <= score(y)
      BY <1>7, <1>9 DEF MostSpecific
    <2>2. \E z \in U : \A op \in U : score(op) <= score(z)
      <3>1. CASE score(x) <= score(y)
        BY <2>1, <3>1
      <3>2. CASE ~(score(x) <= score(y))
        <4>1. \A op \in U : score(op) <= score(x)
          <5> HIDE DEF score
          <5> QED
            BY <1>6, <2>1, <3>2
        <4> QED
          BY <4>1
      <3> QED
        BY <3>1, <3>2
    <2>3. MostSpecific(U) # {}
      BY <2>2 DEF MostSpecific
    <2> QED
      BY <2>3
  <1> QED
    BY <1>8, <1>9

\* Two operations that match one request: one of them has the higher score and
\* is covered by the other, form by form.
LEMMA MatchesAreOrdered ==
  ASSUME NEW scope, NEW method, NEW path, NEW query,
         NEW op \in Matches(scope, method, path, query),
         NEW other \in Matches(scope, method, path, query), op # other,
         route_template_specificity(other) <= route_template_specificity(op)
  PROVE  /\ route_template_specificity(other) < route_template_specificity(op)
         /\ QueryCovers(other, op)
         /\ \A w \in expand_optional_route_templates(other.path),
               n \in expand_optional_route_templates(op.path) :
              path \in route_segments_match[w] /\ path \in route_segments_match[n] =>
                n \in Covered[w]
  <1>1. op \in Operations /\ other \in Operations /\ Rivals(op, other)
    BY DEF Matches, openbao_operations, Rivals
  <1>2. ASSUME NEW n \in expand_optional_route_templates(op.path),
               NEW w \in expand_optional_route_templates(other.path),
               path \in route_segments_match[n], path \in route_segments_match[w]
        PROVE  /\ route_template_specificity(other) < route_template_specificity(op)
               /\ QueryCovers(other, op)
               /\ n \in Covered[w]
    <2>1. n \in Seq(STRING) /\ w \in Seq(STRING)
      BY <1>1, RegistryAssumption
    <2>2. ~Apart(n, w)
      BY <1>2, <2>1, ApartIsDisjoint
    <2> QED
      BY <1>1, <2>2, RegistryAssumption
  <1>3. /\ \E n \in expand_optional_route_templates(op.path) : path \in route_segments_match[n]
        /\ \E w \in expand_optional_route_templates(other.path) : path \in route_segments_match[w]
    BY DEF Matches, route_template_matches
  <1> QED
    BY <1>2, <1>3

\* So whenever something matches, exactly one operation is chosen, and every
\* other match covers it.
THEOREM ChoiceIsUnique ==
  ASSUME NEW scope, NEW method, NEW path, NEW query,
         Matches(scope, method, path, query) # {}
  PROVE  \E op \in Matches(scope, method, path, query) :
           /\ MostSpecific(Matches(scope, method, path, query)) = {op}
           /\ \A other \in Matches(scope, method, path, query) \ {op} :
                /\ QueryCovers(other, op)
                /\ \A w \in expand_optional_route_templates(other.path),
                      n \in expand_optional_route_templates(op.path) :
                     path \in route_segments_match[w] /\ path \in route_segments_match[n] =>
                       n \in Covered[w]
  <1> DEFINE matches == Matches(scope, method, path, query)
             score(op) == route_template_specificity(op)
  <1>1. matches \in SUBSET Operations
    BY DEF Matches, openbao_operations
  <1>2. PICK op : op \in MostSpecific(matches)
    BY <1>1, SomeMostSpecific
  <1>3. op \in matches /\ \A other \in matches : score(other) <= score(op)
    BY <1>2 DEF MostSpecific
  <1>4. ASSUME NEW other \in matches \ {op}
        PROVE  /\ score(other) < score(op)
               /\ QueryCovers(other, op)
               /\ \A w \in expand_optional_route_templates(other.path),
                     n \in expand_optional_route_templates(op.path) :
                    path \in route_segments_match[w] /\ path \in route_segments_match[n] =>
                      n \in Covered[w]
    BY <1>3, MatchesAreOrdered
  <1>5. ASSUME NEW other \in MostSpecific(matches)
        PROVE  other = op
    <2>1. other \in matches /\ score(op) <= score(other)
      BY <1>3 DEF MostSpecific
    <2>2. score(op) \in Nat /\ score(other) \in Nat
      BY <1>1, <1>3, <2>1, SpecificityIsNatural
    <2>3. ~(score(other) < score(op))
      BY <2>1, <2>2
    <2> QED
      BY <1>4, <2>1, <2>3
  <1> QED
    BY <1>2, <1>3, <1>4, <1>5

-----------------------------------------------------------------------------
(* Reports.                                                                  *)

\* What the proofs need of a report: Verified means that the server reported
\* the profile itself, only the Assumed policy assumes, and only a client
\* without a policy has no profile.
SoundReport(rep) ==
  /\ rep.tag \in {"Ok", "Err"}
  /\ rep.tag = "Ok" =>
       /\ rep.detected \in Nat \cup {NoVersion}
       /\ rep.profile \in Nat \cup {NoVersion}
       /\ rep.status = "Verified" => rep.detected = rep.profile /\ rep.profile # NoVersion
       /\ rep.status = "Assumed" => rep.policy = "Assumed"
       /\ rep.profile = NoVersion => rep.status = "Unverified"

\* The fallback profile is a routable release, when there is one.
LEMMA LatestIsVersion == latest_routable_profile \in Nat \cup {NoVersion}
  BY InventoryAssumption DEF latest_routable_profile

\* Every report a policy makes of a probe is sound.
LEMMA PoliciesMakeSoundReports ==
  ASSUME NEW p \in Policies, NEW v \in Versions \cup {NoVersion}
  PROVE  SoundReport(EvaluatePolicy(p, v))
  <1> DEFINE latest == latest_routable_profile
  <1>1. latest \in Nat \cup {NoVersion}
    BY LatestIsVersion
  <1>2. p.requirement.minimum \in Nat \cup {NoVersion}
    <2>1. PICK k, lo, hi : /\ p = Policy(k, Requirement(lo, hi))
                           /\ lo \in Routable \cup {NoVersion}
      BY DEF Policies, NoPolicy, NoRequirement
    <2> QED
      BY <2>1, InventoryAssumption DEF Policy, Requirement
  <1>3. v \in Nat \cup {NoVersion}
    BY InventoryAssumption
  <1>4. p.kind \in {"None", "AutomaticStrict", "AcknowledgedUnknownNewer", "Exact",
                    "Assumed", "Range"}
    BY DEF Policies, Policy, NoPolicy
  <1>5. CASE IsImmediate(p)
    <2>1. p.kind = "Assumed" => p.requirement.minimum \in Nat
      <3>1. p.kind = "Assumed" => \E lo \in Routable : p = Policy("Assumed", Requirement(lo, lo))
        BY DEF Policies, Policy, NoPolicy
      <3> QED
        BY <3>1, InventoryAssumption DEF Policy, Requirement
    <2>2. p.kind \in {"None", "Assumed"}
      BY <1>5 DEF IsImmediate
    <2> QED
      BY <1>5, <2>1, <2>2 DEF SoundReport, EvaluatePolicy, immediate_report, unverified,
         assumed, Report, NoVersion
  <1>6. CASE ~IsImmediate(p) /\ v = NoVersion
    BY <1>6 DEF SoundReport, EvaluatePolicy, ProbeFailure, Failure
  <1>7. CASE ~IsImmediate(p) /\ v # NoVersion
    <2> HIDE DEF latest
    <2>1. EvaluatePolicy(p, v) = evaluate_detected(p, v)
      BY <1>7 DEF EvaluatePolicy
    <2>2. SoundReport(verified(p, v))
      BY <1>3, <1>7 DEF SoundReport, verified, Report, NoVersion
    <2>3. latest # NoVersion => SoundReport(acknowledged_unknown_newer(v, latest))
      BY <1>1, <1>3 DEF SoundReport, acknowledged_unknown_newer, Report
    <2>4. SoundReport(VersionMismatch(v)) /\ SoundReport(UnknownVersion(v))
      BY DEF SoundReport, VersionMismatch, UnknownVersion, Failure
    <2>5. \/ evaluate_detected(p, v) \in {verified(p, v), VersionMismatch(v), UnknownVersion(v)}
          \/ latest # NoVersion /\ evaluate_detected(p, v) = acknowledged_unknown_newer(v, latest)
      BY <1>4, <1>7 DEF evaluate_detected, IsImmediate, latest
    <2> QED
      BY <2>1, <2>2, <2>3, <2>4, <2>5
  <1> QED
    BY <1>5, <1>6, <1>7

\* So is every report a client holds.
LEMMA ResultsAreSound ==
  ASSUME NEW rep \in Results
  PROVE  SoundReport(rep)
  BY ClientAssumption, PoliciesMakeSoundReports

-----------------------------------------------------------------------------
(* The inductive invariant: what a call was checked for before it is routed, *)
(* and what holds of it once it was sent.                                    *)

FieldsAdmitted ==
  \A f \in request.fields : Admits(f, report, ProfileVersion(report))

GateInv ==
  /\ report \in Results
  /\ stage # "idle" => request \in Requests
  /\ stage = "route" => FieldsAdmitted
  /\ RemovedBuiltinsNeedContract
  /\ FieldsNeedTheirProfile

\* An admitted field exists in the profile, and is backed by the report or by
\* the caller's assumption when it is new in 2.7.
LEMMA AdmittedFieldsExist ==
  ASSUME NEW rep, SoundReport(rep), rep.tag = "Ok",
         NEW f \in Fields, ProfileVersion(rep) \in Nat,
         Admits(f, rep, ProfileVersion(rep))
  PROVE  \E lo \in {f.minimum, f.resumed_at} :
           /\ ExistsIn(f, lo, ProfileVersion(rep))
           /\ lo >= V2_7_0 => \/ rep.detected = ProfileVersion(rep)
                              \/ rep.policy = "Assumed"
           /\ f.rule = "Reviewed" => rep.detected \in Reviewed
  <1> DEFINE v == ProfileVersion(rep)
  <1>1. rep.status = "Verified" => rep.detected = v
    BY DEF SoundReport, ProfileVersion
  <1>2. CASE f.rule = "Reviewed"
    <2>1. f = reviewed_profile
      BY <1>2 DEF Fields, reviewed_profile, Field
    <2>2. rep.detected \in Reviewed /\ rep.detected = v
      BY <1>1, <1>2 DEF Admits, ReviewedProfile
    <2>3. ExistsIn(f, f.minimum, v)
      BY <2>1, <2>2 DEF ExistsIn, reviewed_profile, Field, Reviewed, V2_7_0, NoVersion
    <2> QED
      BY <2>2, <2>3
  <1>3. CASE f.rule # "Reviewed"
    <2>1. /\ f.minimum \in Nat
          /\ f.maximum \in Nat \cup {NoVersion}
          /\ f.resumed_at \in Nat \cup {NoVersion}
          /\ f.resumed_at # NoVersion => f.minimum <= f.maximum /\ f.maximum < f.resumed_at
      BY <1>3 DEF Fields, reviewed_profile, Field
    <2>2. supports(f, v) /\ validate_selection(f, v, rep.status)
      BY <1>3 DEF Admits
    <2>3. ExistsIn(f, SelectedMinimum(f, v), v)
      BY <2>1, <2>2 DEF ExistsIn, SelectedMinimum, Resumed, supports, NoVersion
    <2>4. SelectedMinimum(f, v) >= V2_7_0 => rep.detected = v \/ rep.policy = "Assumed"
      BY <1>1, <2>2 DEF validate_selection, SoundReport
    <2>5. SelectedMinimum(f, v) \in {f.minimum, f.resumed_at}
      BY DEF SelectedMinimum
    <2> QED
      BY <1>3, <2>3, <2>4, <2>5
  <1> QED
    BY <1>2, <1>3

\* A registered call that is sent passed the plugin gate.
LEMMA AdmissionNeedsContract ==
  ASSUME NEW r \in Requests, NEW op, report \in Results, report.tag = "Ok",
         ServerVersion(report) \in Int,
         Admission(r, op).result = "Sent", for_path(op.path) # NoKind
  PROVE  /\ Admission(r, op).operation = op
         /\ \/ ServerVersion(report) < V2_7_0 /\ PluginSelection(r, op) = {}
            \/ \E s \in plugins :
                 /\ s.kind = for_path(op.path) /\ s.mount = r.mount
                 /\ report.status = "Verified" /\ report.detected = s.server
  <1> DEFINE selection == PluginSelection(r, op)
             contract  == \E s \in selection : supports_contract(s, op)
             needed    == \/ selection # {}
                          \/ requires_unverified_external_plugin(op.path, ServerVersion(report))
  <1>1. Admission(r, op).operation = op
    BY DEF Admission, Outcome
  <1>2. contract \/ ~needed
    BY DEF Admission, Outcome
  <1>3. CASE contract
    <2>1. PICK s \in selection : supports_contract(s, op)
      BY <1>3
    <2>2. s \in plugins /\ s.mount = r.mount
      BY DEF PluginSelection, PluginMount, matches_mount_scope
    <2>3. s.kind = for_path(op.path) /\ report.status = "Verified" /\ report.detected = s.server
      BY <2>1 DEF supports_contract
    <2> QED
      BY <1>1, <2>2, <2>3
  <1>4. CASE ~needed
    <2>1. ~(ServerVersion(report) >= V2_7_0)
      BY <1>4 DEF requires_unverified_external_plugin
    <2>2. ServerVersion(report) < V2_7_0
      BY <2>1 DEF V2_7_0
    <2> QED
      BY <1>1, <1>4, <2>2
  <1> QED
    BY <1>2, <1>3, <1>4

\* A literal endpoint that is sent is no plugin's.
LEMMA LiteralIsNoPlugin ==
  ASSUME NEW r \in Requests, r.binding = "Literal", WellFormed(r),
         Literal(r).result = "Sent"
  PROVE  for_path(Literal(r).operation.path) = NoKind
  <1> DEFINE v        == ProfileVersion(report)
             selected == {x \in r.variants : x.minimum <= v /\ v <= x.maximum}
             ops      == {op \in openbao_operations : \E x \in selected :
                            op.method = x.method /\ op.path = x.path}
             op       == CHOOSE o \in ops : TRUE
  <1>1. validate_endpoint_spec(r.variants) /\ selected # {} /\ Literal(r).operation = op
    BY DEF Literal, Outcome, WellFormed
  <1>2. ops # {}
    BY <1>1 DEF validate_endpoint_spec
  <1>3. op \in ops
    BY <1>2
  <1>4. PICK x \in selected : op.path = x.path
    BY <1>3
  <1> QED
    BY <1>1, <1>4, RequestAssumption

-----------------------------------------------------------------------------
\* Every state a client reaches satisfies the invariant of the gates.
THEOREM GatesHold == Spec => []GateInv
  <1>1. Init => GateInv
    BY DEF Init, GateInv, RemovedBuiltinsNeedContract, FieldsNeedTheirProfile
  <1>2. GateInv /\ [Next]_vars => GateInv'
    <2> SUFFICES ASSUME GateInv, [Next]_vars
                 PROVE  GateInv'
      OBVIOUS
    <2>1. CASE Issue
      <3>1. PICK r \in Requests : /\ request' = r
                                  /\ stage' = IF r.fields = {} THEN "route" ELSE "fields"
        BY <2>1 DEF Issue, Matching
      <3>2. stage' = "route" => FieldsAdmitted'
        BY <3>1 DEF FieldsAdmitted
      <3> QED
        BY <2>1, <3>1, <3>2
        DEF GateInv, Issue, RemovedBuiltinsNeedContract, FieldsNeedTheirProfile
    <2>2. CASE ValidateFields
      <3>1. report' = report /\ request' = request /\ request \in Requests
        BY <2>2 DEF ValidateFields, GateInv
      <3>2. stage' = "route" => FieldsAdmitted'
        BY <2>2, <3>1 DEF ValidateFields, FieldsAdmitted, ProfileVersion, Admits,
           ReviewedProfile
      <3>3. stage' = "done" => outcome'.result # "Sent"
        BY <2>2 DEF ValidateFields, Outcome, Refusal
      <3> QED
        BY <3>1, <3>2, <3>3
        DEF GateInv, RemovedBuiltinsNeedContract, FieldsNeedTheirProfile
    <2>3. CASE Route
      <3>1. /\ report' = report /\ request' = request /\ plugins' = plugins
            /\ report \in Results /\ request \in Requests /\ FieldsAdmitted
            /\ stage' = "done"
        BY <2>3 DEF Route, GateInv
      <3>2. SoundReport(report)
        BY <3>1, ResultsAreSound
      <3>3. SUFFICES ASSUME outcome'.result = "Sent"
                     PROVE  RemovedBuiltinsNeedContract' /\ FieldsNeedTheirProfile'
        BY <3>1 DEF GateInv, RemovedBuiltinsNeedContract, FieldsNeedTheirProfile
      <3>4. Refusal = "None" /\ WellFormed(request)
        BY <2>3, <3>3 DEF Route, Outcome, Refusal
      <3>5. report.tag = "Ok" /\ ProfileVersion(report) \in Nat
        BY <3>2, <3>4, InventoryAssumption DEF Refusal, is_routable_profile, SoundReport
      <3>6. ServerVersion(report) \in Int
        BY <3>2, <3>5 DEF ServerVersion, SoundReport, NoVersion
      <3>7. FieldsNeedTheirProfile'
        <4>1. \A f \in request.fields : f \in Fields
          BY <3>1, RequestAssumption
        <4>2. \A f \in request.fields : \E lo \in {f.minimum, f.resumed_at} :
                /\ ExistsIn(f, lo, ProfileVersion(report))
                /\ lo >= V2_7_0 => \/ report.detected = ProfileVersion(report)
                                   \/ report.policy = "Assumed"
                /\ f.rule = "Reviewed" => report.detected \in Reviewed
          BY <3>1, <3>2, <3>5, <4>1, AdmittedFieldsExist DEF FieldsAdmitted
        <4> QED
          BY <3>1, <4>2 DEF FieldsNeedTheirProfile, ProfileVersion
      <3>8. RemovedBuiltinsNeedContract'
        <4>1. CASE request.binding = "Literal"
          <5>1. outcome' = Literal(request)
            BY <2>3, <3>4, <4>1 DEF Route
          <5>2. for_path(outcome'.operation.path) = NoKind
            BY <3>1, <3>3, <3>4, <4>1, <5>1, LiteralIsNoPlugin
          <5> QED
            BY <5>2 DEF RemovedBuiltinsNeedContract
        <4>2. CASE request.binding # "Literal"
          <5>1. outcome' = Registered(request)
            BY <2>3, <3>4, <4>2 DEF Route
          <5>2. PICK op : outcome' = Admission(request, op)
            BY <3>3, <5>1 DEF Registered, Outcome
          <5>3. outcome'.operation = op
            BY <5>2 DEF Admission, Outcome
          <5>4. for_path(op.path) # NoKind =>
                  \/ ServerVersion(report) < V2_7_0 /\ PluginSelection(request, op) = {}
                  \/ \E s \in plugins :
                       /\ s.kind = for_path(op.path) /\ s.mount = request.mount
                       /\ report.status = "Verified" /\ report.detected = s.server
            BY <3>1, <3>3, <3>5, <3>6, <5>2, AdmissionNeedsContract
          <5>5. PluginSelection(request, outcome.operation)' = PluginSelection(request, op)
            BY <3>1, <5>3 DEF PluginSelection
          <5>6. ServerVersion(report)' = ServerVersion(report)
            BY <3>1 DEF ServerVersion, ProfileVersion
          <5> QED
            BY <3>1, <5>3, <5>4, <5>5, <5>6 DEF RemovedBuiltinsNeedContract
        <4> QED
          BY <4>1, <4>2
      <3> QED
        BY <3>7, <3>8
    <2>4. CASE Finish
      BY <2>4 DEF Finish, GateInv, RemovedBuiltinsNeedContract, FieldsNeedTheirProfile
    <2>5. CASE UNCHANGED vars
      <3>1. report' = report /\ plugins' = plugins /\ request' = request
            /\ stage' = stage /\ outcome' = outcome
        BY <2>5 DEF vars
      <3> QED
        BY <3>1 DEF GateInv, FieldsAdmitted, Admits, ReviewedProfile, ProfileVersion,
           RemovedBuiltinsNeedContract, ServerVersion, PluginSelection,
           FieldsNeedTheirProfile
    <2> QED
      BY <2>1, <2>2, <2>3, <2>4, <2>5 DEF Next
  <1> QED
    BY <1>1, <1>2, PTL DEF Spec

\* A call to a removed built-in is sent only to a server that has it, or under
\* the contract the caller selected for the reported release: for every
\* registry, contract table, policy and plugin configuration.
THEOREM PluginGate == Spec => []RemovedBuiltinsNeedContract
  <1>1. GateInv => RemovedBuiltinsNeedContract
    BY DEF GateInv
  <1> QED
    BY <1>1, GatesHold, PTL

\* A versioned field is sent only under a profile that has it, and a 2.7 field
\* never under a default or fallback profile: for every set of fields the
\* constructors can build.
THEOREM FieldGate == Spec => []FieldsNeedTheirProfile
  <1>1. GateInv => FieldsNeedTheirProfile
    BY DEF GateInv
  <1> QED
    BY <1>1, GatesHold, PTL

-----------------------------------------------------------------------------
(* Paths: a request is looked up under the documented mount, wherever its    *)
(* engine is mounted.                                                        *)

LEMMA ConcatFacts ==
  ASSUME NEW a \in Seq(STRING), NEW b \in Seq(STRING)
  PROVE  /\ a \o b \in Seq(STRING) /\ Len(a \o b) = Len(a) + Len(b)
         /\ HasPrefix(a \o b, a)
         /\ After(a \o b, Len(a)) = b
         /\ HasSuffix(a \o b, b)
         /\ a \o <<>> = a
  <1> DEFINE c == a \o b
  <1>1. c \in Seq(STRING) /\ Len(c) = Len(a) + Len(b)
    OBVIOUS
  <1>2. /\ \A i \in 1..Len(a) : c[i] = a[i]
        /\ \A i \in 1..Len(b) : c[Len(a) + i] = b[i]
    OBVIOUS
  <1>3. After(c, Len(a)) = b
    <2>1. Len(a) \in 0..Len(c)
      BY <1>1
    <2>2. After(c, Len(a)) \in Seq(STRING) /\ Len(After(c, Len(a))) = Len(c) - Len(a)
          /\ \A i \in 1..(Len(c) - Len(a)) : After(c, Len(a))[i] = c[Len(a) + i]
      BY <1>1, <2>1, AfterFacts
    <2>3. Len(c) - Len(a) = Len(b)
      BY <1>1
    <2> HIDE DEF c
    <2> QED
      BY <1>2, <2>2, <2>3, SameSegments
  <1>4. HasPrefix(c, a)
    <2>1. SubSeq(c, 1, Len(a)) \in Seq(STRING) /\ Len(SubSeq(c, 1, Len(a))) = Len(a)
          /\ \A i \in 1..Len(a) : SubSeq(c, 1, Len(a))[i] = c[i]
      <3> HIDE DEF c
      <3> QED
        BY <1>1
    <2>2. SubSeq(c, 1, Len(a)) = a
      <3> HIDE DEF c
      <3> QED
        BY <1>2, <2>1, SameSegments
    <2> QED
      BY <1>1, <2>2 DEF HasPrefix
  <1>5. HasSuffix(c, b)
    <2>1. Len(c) - Len(b) + 1 = Len(a) + 1
      BY <1>1
    <2>2. SubSeq(c, Len(a) + 1, Len(c)) = b
      BY <1>3 DEF After
    <2> QED
      BY <1>1, <2>1, <2>2 DEF HasSuffix
  <1>6. a \o <<>> = a
    OBVIOUS
  <1> QED
    BY <1>1, <1>3, <1>4, <1>5, <1>6

\* The mount never matters: the registry path of a plain request is its
\* documented path, with the marker at a root.
LEMMA MountIsSubstituted ==
  ASSUME NEW r \in Requests, r.plain, r.binding # "Literal"
  PROVE  /\ RegistryPath(r) = DocumentedPath(r)
         /\ DocumentedPath(r) \in Seq(STRING) /\ DocumentedPath(r) # NoPath
  <1> DEFINE tail == r.tail
             mount == r.mount
             doc == r.documented
  <1>1. /\ r.binding \in {"AuthMount", "SecretMount", "IdentityMount", "Exact"}
        /\ tail \in Seq(STRING) /\ mount \in Seq(STRING) /\ mount # <<>> /\ doc \in STRING
        /\ r.binding = "Exact" => r.scope = doc
        /\ r.binding = "IdentityMount" =>
             r.scope = "identity" /\ doc = "identity" /\ tail # <<>>
    BY PlainAssumption
  <1>2. /\ <<"auth">> \in Seq(STRING) /\ <<doc>> \in Seq(STRING)
        /\ <<"auth", doc>> \in Seq(STRING) /\ <<RootMarker>> \in Seq(STRING)
    <2>1. \A x \in STRING : <<x>> \in Seq(STRING)
      OBVIOUS
    <2>2. \A x, y \in STRING : <<x, y>> \in Seq(STRING)
      OBVIOUS
    <2>3. "auth" \in STRING /\ RootMarker \in STRING
      BY SegmentAssumption
    <2> QED
      BY <1>1, <2>1, <2>2, <2>3
  <1>3. CASE r.binding = "AuthMount"
    <2> DEFINE prefix == <<"auth">> \o mount
    <2>1. prefix \in Seq(STRING) /\ Len(prefix) = Len(mount) + 1
      BY <1>1, <1>2
    <2>2. Wire(r) = prefix \o tail
      BY <1>3 DEF Wire
    <2>3. HasPrefix(Wire(r), prefix) /\ After(Wire(r), Len(mount) + 1) = tail
      <3> HIDE DEF prefix
      <3> QED
        BY <1>1, <2>1, <2>2, ConcatFacts
    <2>4. RegistryPath(r) = <<"auth", doc>> \o tail
      BY <1>3, <2>3 DEF RegistryPath, auth_registry_path
    <2>5. <<"auth", doc>> \o tail \in Seq(STRING) /\ Len(<<"auth", doc>> \o tail) = 2 + Len(tail)
      BY <1>1, <1>2
    <2>6. DocumentedPath(r) = (<<"auth", doc>> \o tail) \o <<>>
      BY <1>3 DEF DocumentedPath, IsRootPath
    <2>7. (<<"auth", doc>> \o tail) \o <<>> = <<"auth", doc>> \o tail
      BY <2>5, ConcatFacts
    <2> QED
      BY <1>1, <2>4, <2>5, <2>6, <2>7 DEF NoPath
  <1>4. CASE r.binding = "SecretMount"
    <2> DEFINE normalized == <<doc>> \o tail
    <2>1. Wire(r) = mount \o tail
      BY <1>4 DEF Wire
    <2>2. HasPrefix(Wire(r), mount) /\ After(Wire(r), Len(mount)) = tail
      BY <1>1, <2>1, ConcatFacts
    <2>3. normalized \in Seq(STRING) /\ Len(normalized) = 1 + Len(tail)
      BY <1>1, <1>2
    <2>4. Len(tail) = 1 => normalized[2] = tail[1]
      BY <1>1, <1>2
    <2>5. IsRootPath(r) <=> \/ Len(normalized) = 1
                            \/ Len(normalized) = 2 /\ normalized[2] \in VersionedOperations
      <3>1. (tail = <<>> <=> Len(normalized) = 1) /\ (Len(tail) = 1 <=> Len(normalized) = 2)
        <4>1. Len(tail) \in Nat /\ (tail = <<>> <=> Len(tail) = 0)
          BY <1>1
        <4>2. PICK n \in Nat : n = Len(tail)
          BY <4>1
        <4>3. Len(normalized) = 1 + n
          BY <2>3, <4>2
        <4>4. (Len(tail) = 0 <=> Len(normalized) = 1) /\ (Len(tail) = 1 <=> Len(normalized) = 2)
          <5>1. (n = 0 <=> 1 + n = 1) /\ (n = 1 <=> 1 + n = 2)
            OBVIOUS
          <5> HIDE DEF normalized, tail
          <5> QED
            BY <4>2, <4>3, <5>1
        <4> QED
          BY <4>1, <4>4
      <3> HIDE DEF normalized
      <3> QED
        BY <1>4, <2>4, <3>1 DEF IsRootPath
    <2>6. RegistryPath(r) = IF IsRootPath(r) THEN Append(normalized, RootMarker) ELSE normalized
      <3>1. RegistryPath(r) = secret_registry_path(doc, mount, Wire(r))
        BY <1>4 DEF RegistryPath
      <3> QED
        BY <2>2, <2>5, <3>1 DEF secret_registry_path
    <2>7. DocumentedPath(r) = normalized \o (IF IsRootPath(r) THEN <<RootMarker>> ELSE <<>>)
      BY <1>4 DEF DocumentedPath
    <2>8. normalized \o <<>> = normalized
          /\ normalized \o <<RootMarker>> = Append(normalized, RootMarker)
          /\ Append(normalized, RootMarker) \in Seq(STRING)
          /\ Append(normalized, RootMarker) # <<>>
      <3> HIDE DEF normalized
      <3> QED
        BY <1>2, <2>3 DEF RootMarker
    <2>9. normalized # <<>>
      BY <1>1, <2>3
    <2> HIDE DEF normalized
    <2> QED
      BY <2>3, <2>6, <2>7, <2>8, <2>9 DEF NoPath
  <1>5. CASE r.binding = "Exact"
    <2>1. Wire(r) = <<doc>> \o tail
      BY <1>1, <1>5 DEF Wire
    <2>2. RegistryPath(r) = <<doc>> \o tail
      BY <1>5, <2>1 DEF RegistryPath, registered
    <2>3. <<doc>> \o tail \in Seq(STRING) /\ Len(<<doc>> \o tail) = 1 + Len(tail)
      BY <1>1, <1>2
    <2>4. DocumentedPath(r) = (<<doc>> \o tail) \o <<>>
      BY <1>5 DEF DocumentedPath, IsRootPath
    <2>5. (<<doc>> \o tail) \o <<>> = <<doc>> \o tail
      BY <2>3, ConcatFacts
    <2> QED
      BY <1>1, <2>2, <2>3, <2>4, <2>5 DEF NoPath
  <1>6. CASE r.binding = "IdentityMount"
    <2> DEFINE registry == <<"identity">> \o tail
    <2>1. Wire(r) = mount \o tail
      BY <1>6 DEF Wire
    <2>2. registry \in Seq(STRING) /\ Len(registry) = 1 + Len(tail) /\ registry[1] = "identity"
      <3>1. \A x \in STRING : <<x>> \o tail \in Seq(STRING)
                              /\ Len(<<x>> \o tail) = 1 + Len(tail)
                              /\ (<<x>> \o tail)[1] = x
        BY <1>1
      <3>2. "identity" \in STRING
        BY SegmentAssumption
      <3> HIDE DEF tail
      <3> QED
        BY <3>1, <3>2
    <2>3. Tail(registry) = tail
      <3>1. <<"identity">> \in Seq(STRING) /\ Len(<<"identity">>) = 1
        <4>1. \A x \in STRING : <<x>> \in Seq(STRING) /\ Len(<<x>>) = 1
          OBVIOUS
        <4>2. "identity" \in STRING
          BY SegmentAssumption
        <4> QED
          BY <4>1, <4>2
      <3>2. After(registry, 1) = tail
        BY <1>1, <3>1, ConcatFacts
      <3>3. registry # <<>>
        BY <1>1, <2>2
      <3> HIDE DEF registry
      <3> QED
        BY <2>2, <3>2, <3>3, AfterEnds
    <2>4. HasSuffix(Wire(r), tail) /\ Len(Wire(r)) = Len(mount) + Len(tail)
      BY <1>1, <2>1, ConcatFacts
    <2>5. Len(registry) > 1 /\ Len(Wire(r)) > Len(registry) - 1
      <3>1. Len(mount) > 0 /\ Len(tail) > 0 /\ Len(mount) \in Nat /\ Len(tail) \in Nat
        BY <1>1, <1>6
      <3>2. Len(registry) = 1 + Len(tail) /\ Len(Wire(r)) = Len(mount) + Len(tail)
        BY <2>2, <2>4
      <3> HIDE DEF registry, tail, mount
      <3> QED
        BY <3>1, <3>2
    <2>6. RegistryPath(r) = registered("identity", registry, Wire(r))
      BY <1>1, <1>6 DEF RegistryPath
    <2>7. RegistryPath(r) = registry
      <3> HIDE DEF registry
      <3> QED
        BY <2>2, <2>3, <2>4, <2>5, <2>6 DEF registered
    <2>8. DocumentedPath(r) = registry \o <<>>
      BY <1>1, <1>6 DEF DocumentedPath, IsRootPath
    <2> HIDE DEF registry
    <2>9. registry \o <<>> = registry /\ registry # <<>>
      BY <2>2, <2>5, ConcatFacts
    <2> QED
      BY <2>2, <2>7, <2>8, <2>9 DEF NoPath
  <1> QED
    BY <1>1, <1>3, <1>4, <1>5, <1>6
\* What it takes for one form of an operation to document a shape.
FormDocuments(form, shape) ==
  /\ Len(form) = Len(shape)
  /\ \A i \in DOMAIN shape :
       IF shape[i] = Argument THEN form[i] \in Placeholders
       ELSE \/ i = 1 /\ form[i] \in Placeholders
            \/ shape[i] \in Alternatives(form[i])

\* A form that documents a shape matches the paths that spell it.
LEMMA DocumentingMatches ==
  ASSUME NEW form \in Seq(STRING), NEW shape \in Seq(STRING), NEW path \in Seq(STRING),
         FormDocuments(form, shape), Spells(path, shape)
  PROVE  path \in route_segments_match[form]
  <1>1. Len(form) = Len(path) /\ DOMAIN shape = 1..Len(form)
    BY DEF FormDocuments, Spells
  <1>2. ASSUME NEW i \in 1..Len(form)
        PROVE  Accepts(form[i], path[i])
    <2>1. i \in DOMAIN shape
      BY <1>1
    <2>2. CASE shape[i] = Argument
      BY <2>1, <2>2 DEF FormDocuments, Accepts
    <2>3. CASE shape[i] # Argument
      <3>1. path[i] = shape[i]
        BY <2>1, <2>3 DEF Spells
      <3>2. form[i] \in Placeholders \/ shape[i] \in Alternatives(form[i])
        BY <2>1, <2>3 DEF FormDocuments
      <3> QED
        BY <3>1, <3>2 DEF Accepts
    <2> QED
      BY <2>2, <2>3
  <1> QED
    BY <1>1, <1>2, MatchPointwise

\* The words of a registered form are template words.
LEMMA FormWords ==
  ASSUME NEW op \in Operations, NEW form \in expand_optional_route_templates(op.path),
         NEW i \in DOMAIN form
  PROVE  Alternatives(form[i]) \subseteq TemplateWords
  BY DEF TemplateWords

\* A form that matches such a path and is covered by a documenting form
\* documents the shape as well: its arguments are in none of its words, and it
\* has a placeholder only where the other one has.
LEMMA NarrowerDocuments ==
  ASSUME NEW wide \in Seq(STRING), NEW shape \in Seq(STRING), NEW path \in Seq(STRING),
         NEW op \in Operations, NEW form \in expand_optional_route_templates(op.path),
         FormDocuments(wide, shape), Spells(path, shape),
         form \in Covered[wide], path \in route_segments_match[form]
  PROVE  FormDocuments(form, shape)
  <1>1. form \in Seq(STRING)
    BY RegistryAssumption
  <1>2. Len(form) = Len(wide) /\ Len(form) = Len(path) /\ Len(form) = Len(shape)
    <2>1. Len(wide) <= Len(form)
      BY CoverPointwise
    <2>2. Len(form) <= Len(path)
      BY <1>1, MatchLength
    <2>3. Len(wide) = Len(shape) /\ Len(path) = Len(shape)
      BY DEF FormDocuments, Spells
    <2>4. Len(form) \in Nat /\ Len(wide) \in Nat /\ Len(path) \in Nat
      BY <1>1
    <2> QED
      BY <2>1, <2>2, <2>3, <2>4
  <1>3. \A i \in 1..Len(form) : CoversSegment(wide[i], form[i])
    BY <1>2, CoverPointwise
  <1>4. \A i \in 1..Len(form) : Accepts(form[i], path[i])
    BY <1>1, <1>2, MatchPointwise
  <1>5. DOMAIN shape = 1..Len(form) /\ DOMAIN form = 1..Len(form)
    BY <1>1, <1>2
  <1>6. ASSUME NEW i \in DOMAIN shape
        PROVE  IF shape[i] = Argument THEN form[i] \in Placeholders
               ELSE \/ i = 1 /\ form[i] \in Placeholders
                    \/ shape[i] \in Alternatives(form[i])
    <2>1. Accepts(form[i], path[i]) /\ CoversSegment(wide[i], form[i])
      BY <1>3, <1>4, <1>5, <1>6
    <2>2. CASE shape[i] = Argument
      <3>1. path[i] \notin TemplateWords
        BY <1>6, <2>2 DEF Spells
      <3>2. Alternatives(form[i]) \subseteq TemplateWords
        BY <1>5, <1>6, FormWords
      <3> QED
        BY <2>1, <2>2, <3>1, <3>2 DEF Accepts
    <2>3. CASE shape[i] # Argument
      <3>1. path[i] = shape[i] /\ shape[i] \notin Placeholders
        BY <1>6, <2>3 DEF Spells
      <3>2. (i = 1 /\ wide[i] \in Placeholders) \/ shape[i] \in Alternatives(wide[i])
        BY <1>6, <2>3 DEF FormDocuments
      <3>3. CASE form[i] \in Placeholders
        <4>1. wide[i] \in Placeholders
          BY <2>1, <3>3 DEF CoversSegment
        <4>2. wide[i] # "(root|recovery)"
          BY <4>1 DEF Placeholders, route_placeholder_is_multi_segment, SingleSegment,
             Angled, Optional
        <4>3. Alternatives(wide[i]) = {wide[i]}
          BY <4>2 DEF Alternatives
        <4> QED
          BY <2>3, <3>1, <3>2, <3>3, <4>1, <4>3
      <3>4. CASE form[i] \notin Placeholders
        BY <2>1, <2>3, <3>1, <3>4 DEF Accepts
      <3> QED
        BY <3>3, <3>4
    <2> QED
      BY <2>2, <2>3
  <1> QED
    BY <1>2, <1>6 DEF FormDocuments

-----------------------------------------------------------------------------
(* The choice.                                                               *)

\* A call without a routable profile is refused with a reason, never as a
\* violated invariant.
LEMMA NoInternalRefusal ==
  ASSUME report \in Results
  PROVE  Refusal # "Internal"
  <1>1. SoundReport(report)
    BY ResultsAreSound
  <1>2. report.tag # "Err" => ProfileVersion(report) # NoVersion
    BY <1>1, LegacyAssumption DEF SoundReport, ProfileVersion
  <1> QED
    BY <1>2 DEF Refusal

\* A registered call whose path matches nothing is an internal error; any other
\* is judged by a match that every other match covers.
LEMMA RegisteredChoice ==
  ASSUME NEW r \in Requests, r.binding # "Literal"
  PROVE  \/ Matching[r] = {} /\ Registered(r) = Outcome("Internal", NoOperation)
         \/ \E op \in Matching[r] :
              /\ Registered(r).operation = op /\ Registered(r).result # "Internal"
              /\ \A other \in Matching[r] \ {op} : Covers(other, op, RegistryPath(r))
  <1> DEFINE matches == Matching[r]
             path == RegistryPath(r)
  <1>1. CASE matches = {}
    <2>1. MostSpecific(matches) = {}
      BY <1>1 DEF MostSpecific
    <2>2. Cardinality(MostSpecific(matches)) # 1
      BY <2>1, FS_EmptySet
    <2> QED
      BY <1>1, <2>2 DEF Registered
  <1>2. CASE matches # {}
    <2>1. matches = Matches(r.scope, r.method, path, r.query)
      BY <1>2 DEF Matching
    <2>2. PICK op \in matches :
            /\ MostSpecific(matches) = {op}
            /\ \A other \in matches \ {op} :
                 /\ QueryCovers(other, op)
                 /\ \A w \in expand_optional_route_templates(other.path),
                       n \in expand_optional_route_templates(op.path) :
                      path \in route_segments_match[w] /\ path \in route_segments_match[n] =>
                        n \in Covered[w]
      <3> HIDE DEF matches, path
      <3> QED
        BY <1>2, <2>1, ChoiceIsUnique
    <2>3. \A other \in matches \ {op} : Covers(other, op, path)
      BY <2>2 DEF Covers
    <2>4. Cardinality({op}) = 1 /\ (CHOOSE o \in {op} : TRUE) = op
      BY FS_Singleton
    <2>5. Registered(r) = Admission(r, op)
      BY <2>2, <2>4 DEF Registered
    <2>6. Admission(r, op).operation = op /\ Admission(r, op).result # "Internal"
      BY DEF Admission, Outcome
    <2> QED
      BY <2>3, <2>5, <2>6
  <1> QED
    BY <1>1, <1>2

\* A plain call that the registry documents is judged by an operation that
\* documents it.
LEMMA RegisteredDocuments ==
  ASSUME NEW r \in Requests, r.binding # "Literal", r.plain, EveryCallDocumented
  PROVE  Registered(r).result # "Internal" /\ Documents(Registered(r).operation, r.shape)
  <1> DEFINE path == RegistryPath(r)
             shape == r.shape
  <1>1. /\ path \in Seq(STRING) /\ path # NoPath
        /\ shape \in Seq(STRING) /\ Spells(path, shape) /\ r.method # "ACME"
    BY MountIsSubstituted, PlainAssumption
  <1>2. PICK doc \in Operations :
          /\ doc.method = r.method /\ doc.path[1] = r.scope
          /\ QueryMatches(doc.query, r.query) /\ Documents(doc, shape)
    BY DEF EveryCallDocumented
  <1>3. PICK wide \in expand_optional_route_templates(doc.path) : FormDocuments(wide, shape)
    BY <1>2 DEF Documents, FormDocuments
  <1>4. wide \in Seq(STRING)
    BY RegistryAssumption
  <1>5. path \in route_segments_match[wide]
    <2> HIDE DEF path, shape
    <2> QED
      BY <1>1, <1>3, <1>4, DocumentingMatches
  <1>6. Matching[r] = Matches(r.scope, r.method, path, r.query)
    BY <1>1 DEF Matching
  <1>7. doc \in Matching[r]
    BY <1>1, <1>2, <1>5, <1>6 DEF Matches, route_template_matches, openbao_operations
  <1>8. PICK op \in Matching[r] :
          /\ Registered(r).operation = op /\ Registered(r).result # "Internal"
          /\ \A other \in Matching[r] \ {op} : Covers(other, op, path)
    BY <1>7, RegisteredChoice
  <1>9. Documents(op, shape)
    <2>1. CASE op = doc
      BY <1>2, <2>1
    <2>2. CASE op # doc
      <3>1. op \in Operations
        BY <1>6 DEF Matches, openbao_operations
      <3>2. PICK form \in expand_optional_route_templates(op.path) :
              path \in route_segments_match[form]
        BY <1>6 DEF Matches, route_template_matches
      <3>3. form \in Covered[wide]
        BY <1>5, <1>7, <1>8, <2>2, <3>2 DEF Covers
      <3>4. FormDocuments(form, shape)
        <4> HIDE DEF path, shape
        <4> QED
          BY <1>1, <1>3, <1>4, <3>1, <3>2, <3>3, NarrowerDocuments
      <3> QED
        BY <3>4 DEF Documents, FormDocuments
    <2> QED
      BY <2>1, <2>2
  <1> QED
    BY <1>8, <1>9

\* What the choice is made from, and what was chosen.
ChoiceInv ==
  /\ report \in Results
  /\ stage # "idle" => request \in Requests
  /\ NarrowestOperation

\* The operation a call is judged by is the narrowest of its matches, and only
\* a path no template matches is an internal error: for every unambiguous
\* registry, every request, report and plugin configuration.
THEOREM ChoiceIsNarrowest == Spec => []NarrowestOperation
  <1>1. Init => ChoiceInv
    BY DEF Init, ChoiceInv, NarrowestOperation
  <1>2. ChoiceInv /\ [Next]_vars => ChoiceInv'
    <2> SUFFICES ASSUME ChoiceInv, [Next]_vars
                 PROVE  ChoiceInv'
      OBVIOUS
    <2>1. CASE Issue
      <3>1. request' \in Requests /\ stage' # "done" /\ report' = report
        BY <2>1 DEF Issue, Matching
      <3> QED
        BY <3>1 DEF ChoiceInv, NarrowestOperation
    <2>2. CASE ValidateFields
      <3>1. report' = report /\ request' = request /\ report \in Results /\ request \in Requests
        BY <2>2 DEF ValidateFields, ChoiceInv
      <3>2. stage' = "done" =>
              outcome'.operation = NoOperation /\ outcome'.result # "Internal"
        BY <2>2, <3>1, NoInternalRefusal DEF ValidateFields, Outcome
      <3> QED
        BY <3>1, <3>2 DEF ChoiceInv, NarrowestOperation
    <2>3. CASE Route
      <3>1. /\ report' = report /\ request' = request /\ stage' = "done"
            /\ report \in Results /\ request \in Requests
        BY <2>3 DEF Route, ChoiceInv
      <3>2. SUFFICES ASSUME request.binding # "Literal"
                     PROVE  NarrowestOperation'
        BY <3>1 DEF ChoiceInv, NarrowestOperation
      <3>3. WellFormed(request)
        BY <3>2 DEF WellFormed
      <3>4. CASE Refusal # "None"
        <4>1. outcome' = Outcome(Refusal, NoOperation) /\ Refusal # "Internal"
          BY <2>3, <3>1, <3>3, <3>4, NoInternalRefusal DEF Route
        <4> QED
          BY <4>1 DEF NarrowestOperation, Outcome
      <3>5. CASE Refusal = "None"
        <4>1. outcome' = Registered(request)
          BY <2>3, <3>2, <3>3, <3>5 DEF Route
        <4>2. CASE Matching[request] = {} /\ outcome' = Outcome("Internal", NoOperation)
          BY <3>1, <4>2 DEF NarrowestOperation, Outcome
        <4>3. CASE \E op \in Matching[request] :
                     /\ outcome'.operation = op /\ outcome'.result # "Internal"
                     /\ \A other \in Matching[request] \ {op} :
                          Covers(other, op, RegistryPath(request))
          BY <3>1, <4>3 DEF NarrowestOperation
        <4> QED
          BY <3>1, <3>2, <4>1, <4>2, <4>3, RegisteredChoice
      <3> QED
        BY <3>4, <3>5
    <2>4. CASE Finish
      BY <2>4 DEF Finish, ChoiceInv, NarrowestOperation
    <2>5. CASE UNCHANGED vars
      BY <2>5 DEF vars, ChoiceInv, NarrowestOperation
    <2> QED
      BY <2>1, <2>2, <2>3, <2>4, <2>5 DEF Next
  <1>3. ChoiceInv => NarrowestOperation
    BY DEF ChoiceInv
  <1> QED
    BY <1>1, <1>2, <1>3, PTL DEF Spec

\* What a plain call was issued as, and how it ended.
ReachInv ==
  /\ report \in Results
  /\ stage # "idle" => request \in Requests
  /\ ReachesItsOperation

\* If the registry documents every call, no plain call is lost in it: under
\* every mount, profile and plugin configuration it is refused for a reason it
\* reports, or judged by an operation that documents it.
THEOREM CallsReachTheirOperation ==
  EveryCallDocumented => (Spec => []ReachesItsOperation)
  <1> SUFFICES ASSUME EveryCallDocumented
               PROVE  Spec => []ReachesItsOperation
    OBVIOUS
  <1>1. Init => ReachInv
    BY DEF Init, ReachInv, ReachesItsOperation
  <1>2. ReachInv /\ [Next]_vars => ReachInv'
    <2> SUFFICES ASSUME ReachInv, [Next]_vars
                 PROVE  ReachInv'
      OBVIOUS
    <2>1. CASE Issue
      <3>1. request' \in Requests /\ stage' # "done" /\ report' = report
        BY <2>1 DEF Issue, Matching
      <3> QED
        BY <3>1 DEF ReachInv, ReachesItsOperation
    <2>2. CASE ValidateFields
      <3>1. report' = report /\ request' = request /\ report \in Results /\ request \in Requests
        BY <2>2 DEF ValidateFields, ReachInv
      <3>2. stage' = "done" =>
              outcome'.operation = NoOperation /\ outcome'.result # "Internal"
        BY <2>2, <3>1, NoInternalRefusal DEF ValidateFields, Outcome
      <3> QED
        BY <3>1, <3>2 DEF ReachInv, ReachesItsOperation
    <2>3. CASE Route
      <3>1. /\ report' = report /\ request' = request /\ stage' = "done"
            /\ report \in Results /\ request \in Requests
        BY <2>3 DEF Route, ReachInv
      <3>2. SUFFICES ASSUME request.binding # "Literal", request.plain
                     PROVE  ReachesItsOperation'
        BY <3>1 DEF ReachInv, ReachesItsOperation
      <3>3. WellFormed(request)
        BY <3>2 DEF WellFormed
      <3>4. CASE Refusal # "None"
        <4>1. outcome' = Outcome(Refusal, NoOperation) /\ Refusal # "Internal"
          BY <2>3, <3>1, <3>3, <3>4, NoInternalRefusal DEF Route
        <4> QED
          BY <4>1 DEF ReachesItsOperation, Outcome
      <3>5. CASE Refusal = "None"
        <4>1. outcome' = Registered(request)
          BY <2>3, <3>2, <3>3, <3>5 DEF Route
        <4>2. outcome'.result # "Internal" /\ Documents(outcome'.operation, request.shape)
          BY <3>1, <3>2, <4>1, RegisteredDocuments
        <4> QED
          BY <3>1, <4>2 DEF ReachesItsOperation
      <3> QED
        BY <3>4, <3>5
    <2>4. CASE Finish
      BY <2>4 DEF Finish, ReachInv, ReachesItsOperation
    <2>5. CASE UNCHANGED vars
      BY <2>5 DEF vars, ReachInv, ReachesItsOperation
    <2> QED
      BY <2>1, <2>2, <2>3, <2>4, <2>5 DEF Next
  <1>3. ReachInv => ReachesItsOperation
    BY DEF ReachInv
  <1> QED
    BY <1>1, <1>2, <1>3, PTL DEF Spec
=============================================================================
