---------------------------- MODULE RequestProofs ----------------------------
(***************************************************************************)
(* Proofs about Requests, for conversations of any length: the request     *)
(* translators between Claude, chat and Responses formats.                 *)
(***************************************************************************)
EXTENDS Requests, FiniteSetTheorems, WellFoundedInduction, TLAPS

-----------------------------------------------------------------------------
(* Induction, over a set: operators cannot be passed to a lemma. *)

\* The least k that is missing has everything below it.
LEMMA Upward ==
  ASSUME NEW n \in Nat, NEW S, 0 \in S, \A k \in 0..n : k < n /\ k \in S => k + 1 \in S
  PROVE  \A k \in 0..n : k \in S
<1> DEFINE Below == {0..k : k \in {k \in 0..n : k \notin S}}
<1>1. SUFFICES ASSUME Below # {} PROVE FALSE
  OBVIOUS
<1>2. IsFiniteSet(0..n)
  BY FS_Interval
<1>3. Below \subseteq FiniteSubsetsOf(0..n)
  <2> SUFFICES ASSUME NEW k \in 0..n PROVE 0..k \in FiniteSubsetsOf(0..n)
    OBVIOUS
  <2>1. 0..k \subseteq 0..n
    OBVIOUS
  <2> QED
    BY <1>2, <2>1, FS_Subset DEF FiniteSubsetsOf
<1>4. PICK X \in Below : \A Y \in Below : ~(<<Y, X>> \in StrictSubsetOrdering(0..n))
  <2> HIDE DEF Below
  <2> QED
    BY <1>1, <1>2, <1>3, WFMin, FS_StrictSubsetOrderingWellFounded
<1>5. PICK k \in 0..n : k \notin S /\ X = 0..k
  OBVIOUS
<1>6. k # 0 /\ k - 1 \in 0..n /\ k - 1 < n /\ (k - 1) + 1 = k
  BY <1>5
<1>7. 0..(k - 1) \notin Below
  <2>1. 0..(k - 1) \subseteq 0..n /\ k \notin 0..(k - 1) /\ k \in 0..k /\ 0..(k - 1) \subseteq 0..k
    BY <1>6
  <2>2. <<0..(k - 1), X>> \in StrictSubsetOrdering(0..n)
    <3>1. IsFiniteSet(0..(k - 1)) /\ IsFiniteSet(X) /\ X \subseteq 0..n
      BY <1>2, <1>3, <1>5, <2>1, FS_Subset
    <3>2. 0..(k - 1) # X
      BY <1>5, <2>1
    <3> QED
      BY <1>5, <2>1, <3>1, <3>2 DEF StrictSubsetOrdering
  <2> QED
    BY <1>4, <2>2
<1>8. k - 1 \in S
  BY <1>6, <1>7
<1> QED
  BY <1>5, <1>6, <1>8

\* What the empty sequence has, and an extended one has if the sequence it extends has it,
\* every sequence has.
LEMMA SequencesGrow ==
  ASSUME NEW X, NEW S, <<>> \in S, \A s \in S, x \in X : s \in Seq(X) => Append(s, x) \in S
  PROVE  \A s \in Seq(X) : s \in S
<1> SUFFICES ASSUME NEW s \in Seq(X) PROVE s \in S
  OBVIOUS
<1> DEFINE n == Len(s)
           Reached == {k \in 0..n : \A t \in Seq(X) : Len(t) = k => t \in S}
<1>1. 0 \in Reached
  OBVIOUS
<1>2. ASSUME NEW k \in 0..n, k < n, k \in Reached PROVE k + 1 \in Reached
  <2>1. SUFFICES ASSUME NEW t \in Seq(X), Len(t) = k + 1 PROVE t \in S
    BY <1>2
  <2> DEFINE f == SubSeq(t, 1, k)
  <2>2. f \in Seq(X) /\ Len(f) = k /\ t[k + 1] \in X /\ t = Append(f, t[k + 1])
    BY <1>2, <2>1
  <2>3. f \in S
    BY <1>2, <2>2
  <2> QED
    BY <2>2, <2>3
<1> HIDE DEF Reached
<1>3. \A k \in 0..n : k \in Reached
  BY <1>1, <1>2, Upward
<1> QED
  BY <1>3 DEF Reached

-----------------------------------------------------------------------------
(* Flattening. *)

Flattening(s, g) == g = [i \in 1..Len(s) |-> IF i = 1 THEN s[i] ELSE g[i - 1] \o s[i]]

LEMMA FlattenDef ==
  ASSUME NEW s, Len(s) # 0
  PROVE  FlattenSeq(s) = (CHOOSE g : Flattening(s, g))[Len(s)]
BY DEF FlattenSeq, Flattening

LEMMA FlatteningGrows ==
  ASSUME NEW X, NEW s \in Seq(Seq(X)), NEW x \in Seq(X), NEW g, Flattening(s, g), \A i \in 1..Len(s) : g[i] \in Seq(X)
  PROVE  \E h : Flattening(Append(s, x), h) /\ \A i \in 1..Len(Append(s, x)) : h[i] \in Seq(X)
<1> DEFINE t == Append(s, x)
           n == Len(s)
           h == [i \in 1..(n + 1) |-> IF i <= n THEN g[i] ELSE IF i = 1 THEN x ELSE g[n] \o x]
<1>1. n \in Nat /\ Len(t) = n + 1 /\ t[n + 1] = x /\ \A i \in 1..n : t[i] = s[i]
  OBVIOUS
<1>2. /\ \A i \in 1..n : h[i] = g[i]
      /\ h[n + 1] = IF n = 0 THEN x ELSE g[n] \o x
      /\ h = [i \in 1..(n + 1) |-> h[i]]
  BY <1>1
<1> HIDE DEF h, t, n
<1>3. \A i \in 1..n : g[i] = IF i = 1 THEN s[i] ELSE g[i - 1] \o s[i]
  BY DEF Flattening, n
<1>4. \A i \in 1..(n + 1) : i \in 1..n \/ i = n + 1
  BY <1>1
<1>5. \A i \in 1..(n + 1) : h[i] = IF i = 1 THEN t[i] ELSE h[i - 1] \o t[i]
  <2> SUFFICES ASSUME NEW i \in 1..(n + 1) PROVE h[i] = IF i = 1 THEN t[i] ELSE h[i - 1] \o t[i]
    OBVIOUS
  <2>1. CASE i \in 1..n
    <3>1. i # 1 => i - 1 \in 1..n
      BY <1>1, <2>1
    <3> QED
      BY <1>1, <1>2, <1>3, <2>1, <3>1
  <2>2. CASE i = n + 1
    <3>1. i # 1 => i - 1 = n /\ n \in 1..n /\ n # 0
      BY <1>1, <2>2
    <3>2. i = 1 => n = 0
      BY <1>1, <2>2
    <3> QED
      BY <1>1, <1>2, <2>2, <3>1, <3>2
  <2> QED
    BY <1>4, <2>1, <2>2
<1>6. Flattening(t, h)
  BY <1>1, <1>2, <1>5 DEF Flattening
<1>7. \A i \in 1..(n + 1) : h[i] \in Seq(X)
  <2>1. n # 0 => n \in 1..n
    BY <1>1
  <2>2. \A i \in 1..n : g[i] \in Seq(X)
    BY DEF n
  <2>3. h[n + 1] \in Seq(X)
    BY <1>2, <2>1, <2>2
  <2> QED
    BY <1>2, <1>4, <2>2, <2>3
<1> QED
  BY <1>1, <1>6, <1>7 DEF t

LEMMA FlatteningExists ==
  ASSUME NEW X, NEW s \in Seq(Seq(X))
  PROVE  /\ Flattening(s, CHOOSE g : Flattening(s, g))
         /\ \A i \in 1..Len(s) : (CHOOSE g : Flattening(s, g))[i] \in Seq(X)
<1> DEFINE Solved == {t \in Seq(Seq(X)) : \E g : Flattening(t, g) /\ \A i \in 1..Len(t) : g[i] \in Seq(X)}
<1>1. <<>> \in Solved
  <2>1. Flattening(<<>>, <<>>) /\ \A i \in 1..Len(<<>>) : <<>>[i] \in Seq(X)
    BY DEF Flattening
  <2> QED
    BY <2>1
<1>2. \A t \in Solved, x \in Seq(X) : t \in Seq(Seq(X)) => Append(t, x) \in Solved
  <2> SUFFICES ASSUME NEW t \in Solved, NEW x \in Seq(X) PROVE Append(t, x) \in Solved
    OBVIOUS
  <2>1. t \in Seq(Seq(X)) /\ Append(t, x) \in Seq(Seq(X)) /\ \E g : Flattening(t, g) /\ \A i \in 1..Len(t) : g[i] \in Seq(X)
    OBVIOUS
  <2>2. \E h : Flattening(Append(t, x), h) /\ \A i \in 1..Len(Append(t, x)) : h[i] \in Seq(X)
    BY <2>1, FlatteningGrows
  <2> QED
    BY <2>1, <2>2
<1> HIDE DEF Solved
<1>3. s \in Solved
  BY <1>1, <1>2, SequencesGrow
<1>4. PICK h : Flattening(s, h) /\ \A i \in 1..Len(s) : h[i] \in Seq(X)
  BY <1>3 DEF Solved
<1> DEFINE g == CHOOSE g : Flattening(s, g)
<1>5. Flattening(s, g)
  BY <1>4
<1> HIDE DEF g
<1>6. \A i \in 1..Len(s) : g[i] \in Seq(X)
  <2> DEFINE Good == {i \in 0..Len(s) : i # 0 => g[i] \in Seq(X)}
  <2>1. 0 \in Good /\ Len(s) \in Nat
    OBVIOUS
  <2>2. ASSUME NEW k \in 0..Len(s), k < Len(s), k \in Good PROVE k + 1 \in Good
    <3>1. k + 1 \in 1..Len(s) /\ k + 1 \in 0..Len(s) /\ (k + 1 # 1 => k # 0) /\ (k + 1) - 1 = k /\ s[k + 1] \in Seq(X)
      BY <2>2
    <3>2. g[k + 1] = IF k + 1 = 1 THEN s[k + 1] ELSE g[(k + 1) - 1] \o s[k + 1]
      BY <1>5, <3>1 DEF Flattening
    <3>3. k # 0 => g[k] \in Seq(X)
      BY <2>2
    <3>4. g[k + 1] \in Seq(X)
      <4>1. CASE k = 0
        BY <3>1, <3>2, <4>1
      <4>2. CASE k # 0
        BY <3>1, <3>2, <3>3, <4>2
      <4> QED
        BY <4>1, <4>2
    <3> QED
      BY <3>1, <3>4
  <2> HIDE DEF Good
  <2>3. \A k \in 0..Len(s) : k \in Good
    BY <2>1, <2>2, Upward
  <2> QED
    BY <2>3 DEF Good
<1> QED
  BY <1>5, <1>6 DEF g

LEMMA FlatEmpty == FlattenSeq(<<>>) = <<>>
BY DEF FlattenSeq

LEMMA FlatAppend ==
  ASSUME NEW X, NEW s \in Seq(Seq(X)), NEW x \in Seq(X)
  PROVE  /\ FlattenSeq(s) \in Seq(X)
         /\ FlattenSeq(Append(s, x)) = FlattenSeq(s) \o x
<1> DEFINE n == Len(s)
           t == Append(s, x)
           f == CHOOSE g : Flattening(s, g)
           h == CHOOSE g : Flattening(t, g)
<1>1. /\ n \in Nat /\ t \in Seq(Seq(X)) /\ Len(t) = n + 1 /\ t[n + 1] = x /\ \A i \in 1..n : t[i] = s[i]
      /\ 1..n \subseteq 1..(n + 1) /\ n + 1 # 0
  OBVIOUS
<1>2. FlattenSeq(t) = h[n + 1] /\ (n # 0 => FlattenSeq(s) = f[n])
  <2> HIDE DEF t
  <2> QED
    BY <1>1, FlattenDef
<1>3. Flattening(s, f) /\ \A i \in 1..n : f[i] \in Seq(X)
  BY FlatteningExists
<1>4. Flattening(t, h)
  <2> HIDE DEF t
  <2> QED
    BY <1>1, FlatteningExists
<1> HIDE DEF f, h, t, n
<1>5. /\ \A i \in 1..n : f[i] = IF i = 1 THEN s[i] ELSE f[i - 1] \o s[i]
      /\ \A i \in 1..(n + 1) : h[i] = IF i = 1 THEN t[i] ELSE h[i - 1] \o t[i]
  BY <1>1, <1>3, <1>4 DEF Flattening, n
<1>6. \A i \in 1..n : h[i] = f[i]
  <2> DEFINE Same == {i \in 0..n : i # 0 => h[i] = f[i]}
  <2>1. 0 \in Same
    BY <1>1
  <2>2. ASSUME NEW k \in 0..n, k < n, k \in Same PROVE k + 1 \in Same
    <3>1. k + 1 \in 1..n /\ k + 1 \in 1..(n + 1) /\ k + 1 \in 0..n /\ (k + 1 # 1 => k # 0) /\ (k + 1) - 1 = k
      BY <1>1, <2>2
    <3>2. k # 0 => h[k] = f[k]
      BY <2>2
    <3>3. h[k + 1] = f[k + 1]
      BY <1>1, <1>5, <3>1, <3>2
    <3> QED
      BY <3>1, <3>3
  <2> HIDE DEF Same
  <2>3. \A k \in 0..n : k \in Same
    BY <1>1, <2>1, <2>2, Upward
  <2> QED
    BY <1>1, <2>3 DEF Same
<1>7. CASE n = 0
  <2>1. s = <<>>
    BY <1>7 DEF n
  <2>2. FlattenSeq(s) = <<>> /\ h[n + 1] = x
    BY <1>1, <1>5, <1>7, <2>1, FlatEmpty
  <2> QED
    BY <1>2, <2>2 DEF t
<1>8. CASE n # 0
  <2>1. n \in Nat /\ n \in 1..n /\ n + 1 \in 1..(n + 1) /\ n + 1 # 1 /\ (n + 1) - 1 = n
    BY <1>1, <1>8
  <2>2. h[n + 1] = f[n] \o x
    <3>1. \A i \in 1..(n + 1) : i # 1 => h[i] = h[i - 1] \o t[i]
      BY <1>5
    <3>2. h[n + 1] = h[(n + 1) - 1] \o t[n + 1]
      BY <2>1, <3>1
    <3>3. t[n + 1] = x /\ h[n] = f[n]
      BY <1>1, <1>6, <2>1
    <3> QED
      BY <2>1, <3>2, <3>3
  <2> QED
    BY <1>2, <1>3, <1>8, <2>1, <2>2 DEF t
<1> QED
  BY <1>7, <1>8

\* What a function makes of a sequence, member by member.
Through(f, s) == Each(LAMBDA x : f[x], s)
Maps(f, X, Y) == f \in [X -> Seq(Y)]

LEMMA ThroughEmpty == ASSUME NEW f PROVE Through(f, <<>>) = <<>>
<1>1. <<>> \o [i \in DOMAIN <<>> |-> f[<<>>[i]]] = <<>>
  OBVIOUS
<1> QED
  BY <1>1, FlatEmpty DEF Through, Each, Mapped

LEMMA ThroughAppend ==
  ASSUME NEW X, NEW Y, NEW f, Maps(f, X, Y), NEW s \in Seq(X), NEW x \in X
  PROVE  Through(f, s) \in Seq(Y) /\ Through(f, Append(s, x)) = Through(f, s) \o f[x]
<1> DEFINE M(u) == <<>> \o [i \in DOMAIN u |-> f[u[i]]]
           t == Append(s, x)
           n == Len(s)
           v == Append(M(s), f[x])
<1>1. \A u : Through(f, u) = FlattenSeq(M(u))
  BY DEF Through, Each, Mapped
<1>0. \A y \in X : f[y] \in Seq(Y)
  BY DEF Maps
<1>2. \A u \in Seq(X) : M(u) \in Seq(Seq(Y)) /\ Len(M(u)) = Len(u) /\ \A i \in 1..Len(u) : M(u)[i] = f[u[i]]
  BY <1>0
<1> HIDE DEF M
<1>3. t \in Seq(X) /\ Len(t) = n + 1 /\ t[n + 1] = x /\ n \in Nat /\ \A i \in 1..n : t[i] = s[i]
  OBVIOUS
<1>4. v \in Seq(Seq(Y)) /\ Len(v) = n + 1 /\ v[n + 1] = f[x] /\ \A i \in 1..n : v[i] = f[s[i]]
  BY <1>0, <1>2
<1> HIDE DEF t, n, v
<1>5. M(t) \in Seq(Seq(Y)) /\ Len(M(t)) = n + 1 /\ \A i \in 1..(n + 1) : M(t)[i] = f[t[i]]
  BY <1>2, <1>3
<1>6. \A i \in 1..(n + 1) : i \in 1..n \/ i = n + 1
  BY <1>3
<1>7. \A i \in 1..(n + 1) : M(t)[i] = v[i]
  BY <1>3, <1>4, <1>5, <1>6
<1>8. M(t) = v
  BY <1>3, <1>4, <1>5, <1>7
<1>9. M(s) \in Seq(Seq(Y)) /\ f[x] \in Seq(Y)
  BY <1>0, <1>2
<1>10. FlattenSeq(M(s)) \in Seq(Y) /\ FlattenSeq(v) = FlattenSeq(M(s)) \o f[x]
  BY <1>9, FlatAppend DEF v
<1> QED
  BY <1>1, <1>8, <1>10 DEF t

LEMMA ThroughOne ==
  ASSUME NEW X, NEW Y, NEW f, Maps(f, X, Y), NEW x \in X
  PROVE  Through(f, <<x>>) = f[x]
<1>1. <<>> \in Seq(X)
  OBVIOUS
<1>2. PICK u \in Seq(X) : u = <<>>
  BY <1>1
<1>3. Through(f, Append(u, x)) = Through(f, u) \o f[x]
  BY ThroughAppend
<1>4. Append(u, x) = <<x>>
  BY <1>2
<1>5. <<>> \o f[x] = f[x]
  <2>1. f[x] \in Seq(Y)
    BY DEF Maps
  <2> QED
    BY <2>1
<1> QED
  BY <1>2, <1>3, <1>4, <1>5, ThroughEmpty

LEMMA ThroughConcat ==
  ASSUME NEW X, NEW Y, NEW f, Maps(f, X, Y), NEW s \in Seq(X), NEW t \in Seq(X)
  PROVE  Through(f, s \o t) = Through(f, s) \o Through(f, t)
<1> DEFINE Good == {u \in Seq(X) : Through(f, s \o u) = Through(f, s) \o Through(f, u)}
<1>1. <<>> \in Good
  <2>1. <<>> \in Seq(X) /\ s \o <<>> = s
    OBVIOUS
  <2>2. \A x \in X : Through(f, s) \in Seq(Y)
    BY ThroughAppend
  <2>3. X = {} => s = <<>>
    OBVIOUS
  <2>4. Through(f, s) \in Seq(Y)
    BY <2>2, <2>3, ThroughEmpty
  <2>5. Through(f, s) \o <<>> = Through(f, s)
    BY <2>4
  <2> QED
    BY <2>1, <2>5, ThroughEmpty
<1>2. ASSUME NEW u \in Good, NEW x \in X, u \in Seq(X) PROVE Append(u, x) \in Good
  <2>1. PICK v \in Seq(X) : v = s \o u
    <3>1. s \o u \in Seq(X)
      BY <1>2
    <3> QED
      BY <3>1
  <2>2. Through(f, v) = Through(f, s) \o Through(f, u) /\ Append(u, x) \in Seq(X) /\ s \o Append(u, x) = Append(v, x)
    BY <1>2, <2>1, SMTT(30)
  <2>3. Through(f, v) \in Seq(Y) /\ Through(f, Append(v, x)) = Through(f, v) \o f[x]
    BY ThroughAppend
  <2>4. Through(f, u) \in Seq(Y) /\ Through(f, Append(u, x)) = Through(f, u) \o f[x]
    BY <1>2, ThroughAppend
  <2>5. Through(f, s) \in Seq(Y)
    BY ThroughAppend
  <2>6. (Through(f, s) \o Through(f, u)) \o f[x] = Through(f, s) \o (Through(f, u) \o f[x])
    <3>1. f[x] \in Seq(Y)
      BY DEF Maps
    <3>2. \A a, b, c \in Seq(Y) : (a \o b) \o c = a \o (b \o c)
      BY SMTT(30)
    <3> QED
      BY <2>4, <2>5, <3>1, <3>2
  <2> QED
    BY <2>2, <2>3, <2>4, <2>6
<1> HIDE DEF Good
<1>3. t \in Good
  BY <1>1, <1>2, SequencesGrow
<1> QED
  BY <1>3 DEF Good

LEMMA ThroughTyped ==
  ASSUME NEW X, NEW Y, NEW f, Maps(f, X, Y), NEW s \in Seq(X)
  PROVE  Through(f, s) \in Seq(Y)
<1>1. CASE s = <<>>
  <2>1. <<>> \in Seq(Y)
    OBVIOUS
  <2> QED
    BY <1>1, <2>1, ThroughEmpty
<1>2. CASE s # <<>>
  <2>1. PICK x \in X : TRUE
    BY <1>2
  <2> QED
    BY <2>1, ThroughAppend
<1> QED
  BY <1>1, <1>2

\* Two functions one after the other are one function.
LEMMA ThroughThrough ==
  ASSUME NEW X, NEW Y, NEW Z, NEW f, Maps(f, X, Y), NEW g, Maps(g, Y, Z), NEW h, Maps(h, X, Z),
         \A x \in X : h[x] = Through(g, f[x]), NEW s \in Seq(X)
  PROVE  Through(g, Through(f, s)) = Through(h, s)
<1> DEFINE Good == {u \in Seq(X) : Through(g, Through(f, u)) = Through(h, u)}
<1>1. <<>> \in Good
  <2>1. <<>> \in Seq(X)
    OBVIOUS
  <2> QED
    BY <2>1, ThroughEmpty
<1>2. ASSUME NEW u \in Good, NEW x \in X, u \in Seq(X) PROVE Append(u, x) \in Good
  <2>1. Append(u, x) \in Seq(X) /\ Through(g, Through(f, u)) = Through(h, u)
    BY <1>2
  <2>2. PICK v \in Seq(Y) : v = Through(f, u) /\ Through(f, Append(u, x)) = v \o f[x]
    BY <1>2, ThroughAppend
  <2>5. PICK w \in Seq(Y) : w = f[x]
    BY DEF Maps
  <2>3. Through(h, Append(u, x)) = Through(h, u) \o h[x]
    BY <1>2, ThroughAppend
  <2>4. Through(g, v \o w) = Through(g, v) \o Through(g, w)
    BY ThroughConcat
  <2> QED
    BY <2>1, <2>2, <2>3, <2>4, <2>5
<1> HIDE DEF Good
<1>3. s \in Good
  BY <1>1, <1>2, SequencesGrow
<1> QED
  BY <1>3 DEF Good

LEMMA ThroughAlike ==
  ASSUME NEW X, NEW s \in Seq(X), NEW f, NEW g, \A x \in X : f[x] = g[x]
  PROVE  Through(f, s) = Through(g, s)
<1>1. [i \in DOMAIN s |-> f[s[i]]] = [i \in DOMAIN s |-> g[s[i]]]
  OBVIOUS
<1> QED
  BY <1>1 DEF Through, Each, Mapped

LEMMA ThroughSingles ==
  ASSUME NEW X, NEW Y, NEW f, Maps(f, X, Y), NEW g, \A x \in X : f[x] = <<g[x]>>, NEW s \in Seq(X)
  PROVE  Through(f, s) = <<>> \o [i \in DOMAIN s |-> g[s[i]]]
<1> DEFINE M(u) == <<>> \o [i \in DOMAIN u |-> g[u[i]]]
           Good == {u \in Seq(X) : Through(f, u) = M(u)}
<1>0. \A x \in X : g[x] \in Y
  <2>1. \A x \in X : f[x] \in Seq(Y)
    BY DEF Maps
  <2>2. \A y : <<y>> \in Seq(Y) => y \in Y
    OBVIOUS
  <2> QED
    BY <2>1, <2>2
<1>1. <<>> \in Good
  <2>1. <<>> \in Seq(X) /\ M(<<>>) = <<>>
    OBVIOUS
  <2> QED
    BY <2>1, ThroughEmpty
<1>2. ASSUME NEW u \in Good, NEW x \in X, u \in Seq(X) PROVE Append(u, x) \in Good
  <2>1. Append(u, x) \in Seq(X) /\ Through(f, u) = M(u)
    BY <1>2
  <2>2. Through(f, Append(u, x)) = Through(f, u) \o f[x]
    BY <1>2, ThroughAppend
  <2>3. M(Append(u, x)) = M(u) \o <<g[x]>>
    <3> DEFINE t == Append(u, x)
               n == Len(u)
               v == M(u) \o <<g[x]>>
    <3>1. t \in Seq(X) /\ Len(t) = n + 1 /\ t[n + 1] = x /\ n \in Nat /\ \A i \in 1..n : t[i] = u[i]
      BY <1>2
    <3>2. v \in Seq(Y) /\ Len(v) = n + 1 /\ v[n + 1] = g[x] /\ \A i \in 1..n : v[i] = g[u[i]]
      BY <1>0, <1>2, SMTT(30)
    <3>3. M(t) \in Seq(Y) /\ Len(M(t)) = n + 1 /\ \A i \in 1..(n + 1) : M(t)[i] = g[t[i]]
      BY <1>0, <3>1
    <3>4. \A i \in 1..(n + 1) : i \in 1..n \/ i = n + 1
      BY <3>1
    <3> HIDE DEF t, n, v, M
    <3>5. M(t) = v
      BY <3>1, <3>2, <3>3, <3>4
    <3> QED
      BY <3>5 DEF t, v
  <2> QED
    BY <2>1, <2>2, <2>3
<1> HIDE DEF Good
<1>3. s \in Good
  BY <1>1, <1>2, SequencesGrow
<1> QED
  BY <1>3 DEF Good

LEMMA ThroughSame ==
  ASSUME NEW X, NEW f, Maps(f, X, X), \A x \in X : f[x] = <<x>>, NEW s \in Seq(X)
  PROVE  Through(f, s) = s
<1> DEFINE g == [x \in X |-> x]
<1>1. \A x \in X : f[x] = <<g[x]>>
  OBVIOUS
<1>2. <<>> \o [i \in DOMAIN s |-> g[s[i]]] = s
  OBVIOUS
<1> HIDE DEF g
<1>3. Through(f, s) = <<>> \o [i \in DOMAIN s |-> g[s[i]]]
  BY <1>1, ThroughSingles
<1> QED
  BY <1>2, <1>3

LEMMA ThroughNothing ==
  ASSUME NEW X, NEW f, \A x \in X : f[x] = <<>>, NEW s \in Seq(X)
  PROVE  Through(f, s) = <<>>
<1> DEFINE g == [x \in X |-> <<>>]
           Good == {u \in Seq(X) : Through(g, u) = <<>>}
<1>2. Maps(g, X, {}) /\ \A x \in X : g[x] = <<>> /\ f[x] = g[x]
  BY DEF Maps
<1> HIDE DEF g
<1>3. <<>> \in Good
  <2>1. <<>> \in Seq(X)
    OBVIOUS
  <2> QED
    BY <2>1, ThroughEmpty
<1>4. ASSUME NEW u \in Good, NEW x \in X, u \in Seq(X) PROVE Append(u, x) \in Good
  <2>1. Through(g, Append(u, x)) = Through(g, u) \o g[x]
    BY <1>2, <1>4, ThroughAppend
  <2>2. <<>> \o <<>> = <<>>
    OBVIOUS
  <2> QED
    BY <1>2, <1>4, <2>1, <2>2
<1> HIDE DEF Good
<1>5. s \in Good
  BY <1>3, <1>4, SequencesGrow
<1>6. Through(f, s) = Through(g, s)
  BY <1>2, ThroughAlike
<1> QED
  BY <1>5, <1>6 DEF Good

-----------------------------------------------------------------------------
(* Members of a sequence that are picked, and parts of a kind. *)

Picks(X, T) == [x \in X |-> IF x \in T THEN <<x>> ELSE <<>>]

LEMMA PicksMap ==
  ASSUME NEW X, NEW T
  PROVE  Maps(Picks(X, T), X, X) /\ \A x \in X : Picks(X, T)[x] = IF x \in T THEN <<x>> ELSE <<>>
BY DEF Picks, Maps

\* What is in order in a sequence is in order in a part of it: e says where each part was.
Embedded(o, s, T, e) ==
  /\ e \in [1..Len(o) -> 1..Len(s)]
  /\ \A i \in 1..Len(o) : o[i] = s[e[i]] /\ s[e[i]] \in T
  /\ \A i, j \in 1..Len(o) : i < j => e[i] < e[j]
  /\ \A k \in 1..Len(s) : s[k] \in T => \E i \in 1..Len(o) : e[i] = k

LEMMA EmbeddedGrows ==
  ASSUME NEW X, NEW s \in Seq(X), NEW o \in Seq(X), NEW T, NEW e, Embedded(o, s, T, e), NEW p \in X,
         NEW v, v = IF p \in T THEN Append(o, p) ELSE o
  PROVE  \E f : Embedded(v, Append(s, p), T, f)
<1> DEFINE t == Append(s, p)
           n == Len(s)
           m == Len(o)
<1>1. /\ n \in Nat /\ m \in Nat /\ t \in Seq(X) /\ Len(t) = n + 1 /\ t[n + 1] = p /\ \A k \in 1..n : t[k] = s[k]
      /\ \A k \in 1..(n + 1) : k \in 1..n \/ k = n + 1
      /\ n + 1 \in 1..(n + 1) /\ 1..n \subseteq 1..(n + 1)
  OBVIOUS
<1>2. /\ e \in [1..m -> 1..n]
      /\ \A i \in 1..m : o[i] = s[e[i]] /\ s[e[i]] \in T
      /\ \A i, j \in 1..m : i < j => e[i] < e[j]
      /\ \A k \in 1..n : s[k] \in T => \E i \in 1..m : e[i] = k
  BY DEF Embedded
<1>3. CASE p \notin T
  <2>1. v = o
    BY <1>3
  <2> HIDE DEF t
  <2>2. \A i \in 1..m : e[i] \in 1..n
    BY <1>2
  <2>3. e \in [1..m -> 1..(n + 1)]
    BY <1>1, <1>2
  <2>4. \A i \in 1..m : o[i] = t[e[i]] /\ t[e[i]] \in T
    BY <1>1, <1>2, <2>2
  <2>5. \A k \in 1..(n + 1) : t[k] \in T => \E i \in 1..m : e[i] = k
    BY <1>1, <1>2, <1>3
  <2> HIDE DEF n, m
  <2>6. Embedded(v, t, T, e)
    BY <1>1, <1>2, <2>1, <2>3, <2>4, <2>5 DEF Embedded, m
  <2> QED
    BY <2>6 DEF t
<1>4. CASE p \in T
  <2> DEFINE f == [i \in 1..(m + 1) |-> IF i <= m THEN e[i] ELSE n + 1]
  <2>1. v \in Seq(X) /\ Len(v) = m + 1 /\ v[m + 1] = p /\ \A i \in 1..m : v[i] = o[i]
    BY <1>4
  <2> HIDE DEF t, n, m
  <2>2. /\ \A i \in 1..m : f[i] = e[i] /\ f[i] \in 1..n
        /\ f[m + 1] = n + 1
        /\ f = [i \in 1..(m + 1) |-> f[i]]
        /\ \A i \in 1..(m + 1) : i \in 1..m \/ i = m + 1
        /\ m + 1 \in 1..(m + 1) /\ 1..m \subseteq 1..(m + 1)
    BY <1>1, <1>2
  <2> HIDE DEF f
  <2>3. f \in [1..(m + 1) -> 1..(n + 1)]
    BY <1>1, <2>2
  <2>4. ASSUME NEW i \in 1..(m + 1) PROVE v[i] = t[f[i]] /\ t[f[i]] \in T
    <3>1. CASE i \in 1..m
      <4>1. f[i] = e[i] /\ e[i] \in 1..n
        BY <2>2, <3>1
      <4>2. o[i] = s[e[i]] /\ s[e[i]] \in T
        BY <1>2, <3>1
      <4>3. v[i] = o[i]
        BY <2>1, <3>1
      <4>4. t[e[i]] = s[e[i]]
        BY <1>1, <4>1
      <4> QED
        BY <4>1, <4>2, <4>3, <4>4
    <3>2. CASE i = m + 1
      <4>1. v[i] = p /\ t[f[i]] = p
        BY <1>1, <2>1, <2>2, <3>2
      <4> QED
        BY <1>4, <4>1
    <3> QED
      BY <2>2, <3>1, <3>2
  <2>5. ASSUME NEW i \in 1..(m + 1), NEW j \in 1..(m + 1), i < j PROVE f[i] < f[j]
    <3>1. i \in 1..m
      BY <1>1, <2>5
    <3>2. CASE j \in 1..m
      BY <1>2, <2>2, <2>5, <3>1, <3>2
    <3>3. CASE j = m + 1
      <4>1. f[i] \in 1..n /\ f[j] = n + 1
        BY <2>2, <3>1, <3>3
      <4> QED
        BY <1>1, <4>1
    <3> QED
      BY <2>2, <3>2, <3>3
  <2>6. ASSUME NEW k \in 1..(n + 1), t[k] \in T PROVE \E i \in 1..(m + 1) : f[i] = k
    <3>1. CASE k \in 1..n
      BY <1>1, <1>2, <2>2, <2>6, <3>1
    <3>2. CASE k = n + 1
      BY <2>2, <3>2
    <3> QED
      BY <1>1, <3>1, <3>2
  <2>7. Embedded(v, t, T, f)
    BY <1>1, <2>1, <2>3, <2>4, <2>5, <2>6 DEF Embedded
  <2> QED
    BY <2>7 DEF t
<1> QED
  BY <1>3, <1>4

LEMMA PickedEmbedded ==
  ASSUME NEW X, NEW T, NEW s \in Seq(X)
  PROVE  \E e : Embedded(Through(Picks(X, T), s), s, T, e)
<1> DEFINE f == Picks(X, T)
           Good == {u \in Seq(X) : \E e : Embedded(Through(f, u), u, T, e)}
<1>0. Maps(f, X, X) /\ \A x \in X : f[x] = IF x \in T THEN <<x>> ELSE <<>>
  BY PicksMap
<1> HIDE DEF f
<1>1. <<>> \in Good
  <2>1. <<>> \in Seq(X) /\ Embedded(<<>>, <<>>, T, <<>>)
    BY DEF Embedded
  <2> QED
    BY <2>1, ThroughEmpty
<1>2. ASSUME NEW u \in Good, NEW x \in X, u \in Seq(X) PROVE Append(u, x) \in Good
  <2>1. PICK o \in Seq(X) : o = Through(f, u)
    BY <1>0, <1>2, ThroughTyped
  <2>2. PICK e : Embedded(o, u, T, e)
    BY <2>1
  <2>3. Through(f, Append(u, x)) = IF x \in T THEN Append(o, x) ELSE o
    <3>1. Through(f, Append(u, x)) = Through(f, u) \o f[x]
      BY <1>0, <1>2, ThroughAppend
    <3>2. o \o <<x>> = Append(o, x) /\ o \o <<>> = o
      OBVIOUS
    <3> QED
      BY <1>0, <2>1, <3>1, <3>2
  <2>4. \E g : Embedded(Through(f, Append(u, x)), Append(u, x), T, g)
    BY <1>2, <2>2, <2>3, EmbeddedGrows
  <2> QED
    BY <1>2, <2>4
<1> HIDE DEF Good
<1>3. s \in Good
  BY <1>1, <1>2, SequencesGrow
<1> QED
  BY <1>3 DEF Good, f

OfKind(X, K) == {x \in X : x.kind \in K}

LEMMA OfThrough ==
  ASSUME NEW X, NEW K
  PROVE  /\ Maps(Picks(X, OfKind(X, K)), X, X)
         /\ \A s \in Seq(X) : Of(s, K) = Through(Picks(X, OfKind(X, K)), s)
<1> DEFINE f == Picks(X, OfKind(X, K))
<1>1. Maps(f, X, X) /\ \A x \in X : f[x] = IF x.kind \in K THEN <<x>> ELSE <<>>
  BY DEF Picks, OfKind, Maps
<1> HIDE DEF f
<1>2. ASSUME NEW s \in Seq(X) PROVE Of(s, K) = Through(f, s)
  <2>1. \A i \in DOMAIN s : s[i] \in X
    OBVIOUS
  <2>2. [i \in DOMAIN s |-> IF s[i].kind \in K THEN <<s[i]>> ELSE <<>>] = [i \in DOMAIN s |-> f[s[i]]]
    BY <1>1, <2>1
  <2> QED
    BY <2>2 DEF Of, Where, Each, Mapped, Through
<1> QED
  BY <1>1, <1>2 DEF f

LEMMA OfEmpty == ASSUME NEW K PROVE Of(<<>>, K) = <<>>
<1>1. <<>> \in Seq({}) /\ \A s \in Seq({}) : Of(s, K) = Through(Picks({}, OfKind({}, K)), s)
  BY OfThrough
<1> QED
  BY <1>1, ThroughEmpty

LEMMA OfAppend ==
  ASSUME NEW X, NEW K, NEW s \in Seq(X), NEW p \in X
  PROVE  /\ Of(s, K) \in Seq(X)
         /\ Of(Append(s, p), K) = Of(s, K) \o (IF p.kind \in K THEN <<p>> ELSE <<>>)
<1> DEFINE f == Picks(X, OfKind(X, K))
<1>1. Maps(f, X, X) /\ \A u \in Seq(X) : Of(u, K) = Through(f, u)
  BY OfThrough
<1>2. f[p] = IF p.kind \in K THEN <<p>> ELSE <<>>
  BY DEF Picks, OfKind
<1> DEFINE t == Append(s, p)
<1> HIDE DEF f
<1>3. t \in Seq(X)
  OBVIOUS
<1>4. Through(f, s) \in Seq(X) /\ Through(f, t) = Through(f, s) \o f[p]
  BY <1>1, ThroughAppend
<1> HIDE DEF t
<1> QED
  BY <1>1, <1>2, <1>3, <1>4 DEF t

LEMMA OfConcat ==
  ASSUME NEW X, NEW K, NEW s \in Seq(X), NEW t \in Seq(X)
  PROVE  Of(s \o t, K) = Of(s, K) \o Of(t, K)
<1> DEFINE f == Picks(X, OfKind(X, K))
<1>1. Maps(f, X, X) /\ \A u \in Seq(X) : Of(u, K) = Through(f, u)
  BY OfThrough
<1> HIDE DEF f
<1>2. s \o t \in Seq(X)
  OBVIOUS
<1>3. Through(f, s \o t) = Through(f, s) \o Through(f, t)
  BY <1>1, ThroughConcat
<1> QED
  BY <1>1, <1>2, <1>3

LEMMA OfTyped ==
  ASSUME NEW X, NEW K, NEW s \in Seq(X)
  PROVE  Of(s, K) \in Seq(X)
<1>1. CASE s = <<>>
  <2>1. <<>> \in Seq(X)
    OBVIOUS
  <2> QED
    BY <1>1, <2>1, OfEmpty
<1>2. CASE s # <<>>
  <2>1. PICK x \in X : TRUE
    BY <1>2
  <2> QED
    BY <2>1, OfAppend
<1> QED
  BY <1>1, <1>2

LEMMA OfEmbedded ==
  ASSUME NEW X, NEW K, NEW s \in Seq(X)
  PROVE  \E e : Embedded(Of(s, K), s, OfKind(X, K), e)
<1>1. Of(s, K) = Through(Picks(X, OfKind(X, K)), s)
  BY OfThrough
<1> QED
  BY <1>1, PickedEmbedded

LEMMA OfAll ==
  ASSUME NEW X, NEW K, \A x \in X : x.kind \in K, NEW s \in Seq(X)
  PROVE  Of(s, K) = s
<1>1. \A x \in X : Picks(X, OfKind(X, K))[x] = <<x>>
  BY DEF Picks, OfKind
<1>2. Maps(Picks(X, OfKind(X, K)), X, X) /\ Of(s, K) = Through(Picks(X, OfKind(X, K)), s)
  BY OfThrough
<1>3. Through(Picks(X, OfKind(X, K)), s) = s
  BY <1>1, <1>2, ThroughSame
<1> QED
  BY <1>2, <1>3

LEMMA OfNone ==
  ASSUME NEW X, NEW K, \A x \in X : x.kind \notin K, NEW s \in Seq(X)
  PROVE  Of(s, K) = <<>>
<1>1. \A x \in X : Picks(X, OfKind(X, K))[x] = <<>>
  BY DEF Picks, OfKind
<1>2. Of(s, K) = Through(Picks(X, OfKind(X, K)), s)
  BY OfThrough
<1>3. Through(Picks(X, OfKind(X, K)), s) = <<>>
  BY <1>1, ThroughNothing
<1> QED
  BY <1>2, <1>3

LEMMA OfOf ==
  ASSUME NEW X, NEW J, NEW K, NEW s \in Seq(X)
  PROVE  Of(Of(s, J), K) = Of(s, J \cap K)
<1> DEFINE f == Picks(X, OfKind(X, J))
           g == Picks(X, OfKind(X, K))
           h == Picks(X, OfKind(X, J \cap K))
<1>1. /\ Maps(f, X, X) /\ Maps(g, X, X) /\ Maps(h, X, X)
      /\ \A u \in Seq(X) : Of(u, J) = Through(f, u)
      /\ \A u \in Seq(X) : Of(u, K) = Through(g, u)
      /\ \A u \in Seq(X) : Of(u, J \cap K) = Through(h, u)
  BY OfThrough
<1>2. ASSUME NEW x \in X PROVE h[x] = Through(g, f[x])
  <2>1. /\ f[x] = IF x.kind \in J THEN <<x>> ELSE <<>>
        /\ h[x] = IF x.kind \in J /\ x.kind \in K THEN <<x>> ELSE <<>>
        /\ g[x] = IF x.kind \in K THEN <<x>> ELSE <<>>
    BY DEF Picks, OfKind
  <2> HIDE DEF f, g, h
  <2>2. Through(g, <<x>>) = g[x]
    BY <1>1, ThroughOne
  <2> QED
    BY <2>1, <2>2, ThroughEmpty
<1> HIDE DEF f, g, h
<1>3. Through(g, Through(f, s)) = Through(h, s)
  BY <1>1, <1>2, ThroughThrough
<1>4. Of(s, J) \in Seq(X)
  BY OfTyped
<1> QED
  BY <1>1, <1>3, <1>4

-----------------------------------------------------------------------------
(* What holds of a conversation, whoever translates it. *)

Words == {"", "f", "g", "call", "toolu"}
PartType ==
  [kind : {"system", "thought", "text", "use", "result", "own", "blank"},
   n : Int, id : Words \X Int, name : Words, turn : Int, plain : BOOLEAN]

\* Turns come one after the other, no part comes twice, and a result follows its call.
InOrder(S) == \A i, j \in 1..Len(S) : i < j => S[i].turn <= S[j].turn
Distinct(S) == \A i, j \in 1..Len(S) : S[i].kind = S[j].kind /\ S[i].n = S[j].n => i = j
Identified(S) == \A i \in 1..Len(S) : S[i].kind = "use" => S[i].id[2] = S[i].n /\ S[i].n > 0
Follows(S, j) == \E i \in 1..Len(S) : i < j /\ S[i].kind = "use" /\ S[i].n = S[j].n /\ S[i].id = S[j].id
Answering(S) == \A j \in 1..Len(S) : S[j].kind = "result" => S[j].name = "" /\ Follows(S, j)
Talk(S) == S \in Seq(PartType) /\ InOrder(S) /\ Distinct(S) /\ Identified(S) /\ Answering(S)

\* What is said next in turn t.
Joins(S, P, t) ==
  /\ P \in Seq(PartType) /\ t \in Int
  /\ \A i \in 1..Len(S) : S[i].turn <= t
  /\ \A i \in 1..Len(P) : P[i].turn = t
  /\ Distinct(P) /\ Identified(P)
  /\ \A i \in 1..Len(S), j \in 1..Len(P) : ~(S[i].kind = P[j].kind /\ S[i].n = P[j].n)
  /\ \A j \in 1..Len(P) : P[j].kind = "result" =>
        /\ P[j].name = ""
        /\ \E i \in 1..Len(S) : S[i].kind = "use" /\ S[i].n = P[j].n /\ S[i].id = P[j].id

LEMMA Sums ==
  ASSUME NEW n \in Nat, NEW m \in Nat
  PROVE  /\ \A i \in 1..(n + m) : i \in 1..n \/ \E j \in 1..m : i = n + j
         /\ \A i \in 1..n : i \in 1..(n + m)
         /\ \A i \in 1..(n + m), j \in 1..n : i < j => i \in 1..n
         /\ \A i \in 1..n, k \in 1..m : i < n + k
<1>1. \A i \in 1..(n + m) : i \in 1..n \/ \E j \in 1..m : i = n + j
  <2> SUFFICES ASSUME NEW i \in 1..(n + m), i \notin 1..n PROVE \E j \in 1..m : i = n + j
    OBVIOUS
  <2>1. i - n \in 1..m /\ i = n + (i - n)
    OBVIOUS
  <2> QED
    BY <2>1
<1> QED
  BY <1>1

LEMMA ConcatPlaces ==
  ASSUME NEW X, NEW S \in Seq(X), NEW P \in Seq(X)
  PROVE  /\ S \o P \in Seq(X) /\ Len(S \o P) = Len(S) + Len(P)
         /\ \A i \in 1..Len(S) : (S \o P)[i] = S[i] /\ S[i] \in X
         /\ \A i \in 1..Len(P) : (S \o P)[Len(S) + i] = P[i] /\ P[i] \in X
OBVIOUS

LEMMA TalkGrows ==
  ASSUME NEW S, Talk(S), NEW P, NEW t, Joins(S, P, t), NEW U, U = S \o P
  PROVE  Talk(U)
<1> DEFINE n == Len(S)
           m == Len(P)
<1>1. /\ S \in Seq(PartType) /\ InOrder(S) /\ Distinct(S) /\ Identified(S) /\ Answering(S)
  BY DEF Talk
<1>0. /\ P \in Seq(PartType) /\ t \in Int
      /\ \A i \in 1..n : S[i].turn <= t
      /\ \A i \in 1..m : P[i].turn = t
      /\ Distinct(P) /\ Identified(P)
      /\ \A i \in 1..n, j \in 1..m : ~(S[i].kind = P[j].kind /\ S[i].n = P[j].n)
      /\ \A j \in 1..m : P[j].kind = "result" =>
            /\ P[j].name = ""
            /\ \E i \in 1..n : S[i].kind = "use" /\ S[i].n = P[j].n /\ S[i].id = P[j].id
  BY DEF Joins
<1>2. /\ U \in Seq(PartType) /\ n \in Nat /\ m \in Nat /\ Len(U) = n + m
      /\ \A i \in 1..n : U[i] = S[i] /\ S[i] \in PartType
      /\ \A i \in 1..m : U[n + i] = P[i] /\ P[i] \in PartType
  <2>1. P \in Seq(PartType)
    BY <1>0
  <2>2. /\ S \o P \in Seq(PartType) /\ Len(S \o P) = Len(S) + Len(P)
        /\ \A i \in 1..Len(S) : (S \o P)[i] = S[i] /\ S[i] \in PartType
        /\ \A i \in 1..Len(P) : (S \o P)[Len(S) + i] = P[i] /\ P[i] \in PartType
    BY <1>1, <2>1, ConcatPlaces
  <2>3. Len(S) \in Nat /\ Len(P) \in Nat
    BY <1>1, <2>1
  <2> QED
    BY <2>2, <2>3
<1>3. /\ \A i \in 1..(n + m) : i \in 1..n \/ \E j \in 1..m : i = n + j
      /\ \A i \in 1..n, k \in 1..m : i < n + k
  BY <1>2, Sums
<1>4. \A i \in 1..n : i \in 1..(n + m)
  BY <1>2, Sums
<1>5. \A i \in 1..(n + m), j \in 1..n : i < j => i \in 1..n
  BY <1>2, Sums
<1> HIDE DEF n, m
<1>6. InOrder(U)
  <2> SUFFICES ASSUME NEW i \in 1..(n + m), NEW j \in 1..(n + m), i < j PROVE U[i].turn <= U[j].turn
    BY <1>2 DEF InOrder
  <2>1. CASE j \in 1..n
    BY <1>1, <1>2, <1>5, <2>1 DEF InOrder, n
  <2>2. ASSUME NEW k \in 1..m, j = n + k PROVE U[i].turn <= U[j].turn
    <3>1. U[j].turn = t
      BY <1>0, <1>2, <2>2
    <3>2. CASE i \in 1..n
      BY <1>0, <1>2, <3>1, <3>2
    <3>3. ASSUME NEW l \in 1..m, i = n + l PROVE U[i].turn <= t
      <4>1. U[i] = P[l]
        BY <1>2, <3>3
      <4>2. P[l].turn = t /\ t \in Int
        BY <1>0, <3>3
      <4> QED
        BY <4>1, <4>2
    <3> QED
      BY <1>3, <3>1, <3>2, <3>3
  <2> QED
    BY <1>3, <2>1, <2>2
<1>7. Distinct(U)
  <2> SUFFICES ASSUME NEW i \in 1..(n + m), NEW j \in 1..(n + m), U[i].kind = U[j].kind, U[i].n = U[j].n PROVE i = j
    BY <1>2 DEF Distinct
  <2>1. CASE i \in 1..n /\ j \in 1..n
    BY <1>1, <1>2, <2>1 DEF Distinct, n
  <2>2. ASSUME NEW k \in 1..m, i = n + k, NEW l \in 1..m, j = n + l PROVE i = j
    <3>1. P[k].kind = P[l].kind /\ P[k].n = P[l].n
      BY <1>2, <2>2
    <3> QED
      BY <1>0, <2>2, <3>1 DEF Distinct, m
  <2>3. ASSUME i \in 1..n, NEW l \in 1..m, j = n + l PROVE FALSE
    <3>1. S[i].kind = P[l].kind /\ S[i].n = P[l].n
      BY <1>2, <2>3
    <3> QED
      BY <1>0, <2>3, <3>1
  <2>4. ASSUME j \in 1..n, NEW l \in 1..m, i = n + l PROVE FALSE
    <3>1. S[j].kind = P[l].kind /\ S[j].n = P[l].n
      BY <1>2, <2>4
    <3> QED
      BY <1>0, <2>4, <3>1
  <2> QED
    BY <1>3, <2>1, <2>2, <2>3, <2>4
<1>8. Identified(U)
  <2> SUFFICES ASSUME NEW i \in 1..(n + m), U[i].kind = "use" PROVE U[i].id[2] = U[i].n /\ U[i].n > 0
    BY <1>2 DEF Identified
  <2>1. CASE i \in 1..n
    <3>1. S[i].kind = "use" /\ U[i] = S[i]
      BY <1>2, <2>1
    <3> QED
      BY <1>1, <2>1, <3>1 DEF Identified, n
  <2>2. ASSUME NEW k \in 1..m, i = n + k PROVE U[i].id[2] = U[i].n /\ U[i].n > 0
    <3>1. P[k].kind = "use" /\ U[i] = P[k]
      BY <1>2, <2>2
    <3> QED
      BY <1>0, <2>2, <3>1 DEF Identified, m
  <2> QED
    BY <1>3, <2>1, <2>2
<1>9. Answering(U)
  <2> SUFFICES ASSUME NEW j \in 1..(n + m), U[j].kind = "result" PROVE U[j].name = "" /\ Follows(U, j)
    BY <1>2 DEF Answering
  <2>1. CASE j \in 1..n
    <3>1. U[j] = S[j]
      BY <1>2, <2>1
    <3>2. S[j].name = "" /\ Follows(S, j)
      BY <1>1, <2>1, <3>1 DEF Answering, n
    <3>3. PICK i \in 1..n : i < j /\ S[i].kind = "use" /\ S[i].n = S[j].n /\ S[i].id = S[j].id
      BY <3>2 DEF Follows, n
    <3>4. i \in 1..(n + m) /\ U[i] = S[i]
      BY <1>2, <1>4
    <3>5. Follows(U, j)
      BY <1>2, <3>1, <3>3, <3>4 DEF Follows
    <3> QED
      BY <3>1, <3>2, <3>5
  <2>2. ASSUME NEW k \in 1..m, j = n + k PROVE U[j].name = "" /\ Follows(U, j)
    <3>1. U[j] = P[k] /\ \A i \in 1..n : i < j
      BY <1>2, <1>3, <2>2
    <3>2. P[k].name = "" /\ \E i \in 1..n : S[i].kind = "use" /\ S[i].n = P[k].n /\ S[i].id = P[k].id
      BY <1>0, <2>2, <3>1
    <3>3. PICK i \in 1..n : S[i].kind = "use" /\ S[i].n = P[k].n /\ S[i].id = P[k].id
      BY <3>2
    <3>4. i \in 1..(n + m) /\ U[i] = S[i]
      BY <1>2, <1>4
    <3>5. Follows(U, j)
      BY <1>2, <3>1, <3>3, <3>4 DEF Follows
    <3> QED
      BY <3>1, <3>2, <3>5
  <2> QED
    BY <1>3, <2>1, <2>2
<1> QED
  BY <1>2, <1>6, <1>7, <1>8, <1>9 DEF Talk

-----------------------------------------------------------------------------
(* The client: what it has said and what it waits for. *)

Clients == {"claude", "chat", "responses"}
TurnType == [role : {"user", "model", "tools"}, parts : Seq(PartType)]
PartsIn(X) == [m \in X |-> m.parts]
Tagged(ps, t) == Mapped(LAMBDA p : [p EXCEPT !.turn = t], ps)
Kinds(K) == Seq(OfKind(PartType, K))

LEMMA FlatThrough ==
  ASSUME NEW X, NEW Y, \A m \in X : m.parts \in Seq(Y), NEW ms \in Seq(X)
  PROVE  Flat(ms) = Through(PartsIn(X), ms)
<1>1. \A i \in DOMAIN ms : ms[i] \in X
  OBVIOUS
<1>2. [i \in DOMAIN ms |-> ms[i].parts] = [i \in DOMAIN ms |-> PartsIn(X)[ms[i]]]
  BY <1>1 DEF PartsIn
<1> QED
  BY <1>2 DEF Flat, Each, Mapped, Through

LEMMA PartsInMap ==
  ASSUME NEW X, NEW Y, \A m \in X : m.parts \in Seq(Y)
  PROVE  Maps(PartsIn(X), X, Y)
BY DEF Maps, PartsIn

LEMMA FlatTyped ==
  ASSUME NEW X, NEW Y, \A m \in X : m.parts \in Seq(Y), NEW ms \in Seq(X)
  PROVE  Flat(ms) \in Seq(Y)
<1>1. Maps(PartsIn(X), X, Y) /\ Flat(ms) = Through(PartsIn(X), ms)
  BY FlatThrough, PartsInMap
<1> QED
  BY <1>1, ThroughTyped

LEMMA FlatNone == Flat(<<>>) = <<>>
<1>1. <<>> \in Seq({}) /\ \A m \in {} : m.parts \in Seq({})
  OBVIOUS
<1>2. Flat(<<>>) = Through(PartsIn({}), <<>>)
  BY <1>1, FlatThrough
<1> QED
  BY <1>2, ThroughEmpty

LEMMA FlatConcat ==
  ASSUME NEW X, NEW Y, \A m \in X : m.parts \in Seq(Y), NEW s \in Seq(X), NEW t \in Seq(X)
  PROVE  Flat(s \o t) = Flat(s) \o Flat(t)
<1>1. Maps(PartsIn(X), X, Y) /\ \A ms \in Seq(X) : Flat(ms) = Through(PartsIn(X), ms)
  BY FlatThrough, PartsInMap
<1>2. s \o t \in Seq(X)
  OBVIOUS
<1>3. Through(PartsIn(X), s \o t) = Through(PartsIn(X), s) \o Through(PartsIn(X), t)
  BY <1>1, ThroughConcat
<1> QED
  BY <1>1, <1>2, <1>3

LEMMA FlatOne ==
  ASSUME NEW X, NEW Y, \A m \in X : m.parts \in Seq(Y), NEW x \in X
  PROVE  Flat(<<x>>) = x.parts
<1>1. Maps(PartsIn(X), X, Y) /\ \A ms \in Seq(X) : Flat(ms) = Through(PartsIn(X), ms)
  BY FlatThrough, PartsInMap
<1>2. <<x>> \in Seq(X) /\ PartsIn(X)[x] = x.parts
  BY DEF PartsIn
<1>3. Through(PartsIn(X), <<x>>) = PartsIn(X)[x]
  BY <1>1, ThroughOne
<1> QED
  BY <1>1, <1>2, <1>3

LEMMA FlatMore ==
  ASSUME NEW X, NEW Y, \A m \in X : m.parts \in Seq(Y), NEW s \in Seq(X), NEW x \in X
  PROVE  Flat(Append(s, x)) = Flat(s) \o x.parts
<1>1. Maps(PartsIn(X), X, Y) /\ \A ms \in Seq(X) : Flat(ms) = Through(PartsIn(X), ms)
  BY FlatThrough, PartsInMap
<1>2. Append(s, x) \in Seq(X) /\ PartsIn(X)[x] = x.parts
  BY DEF PartsIn
<1>3. Through(PartsIn(X), Append(s, x)) = Through(PartsIn(X), s) \o PartsIn(X)[x]
  BY <1>1, ThroughAppend
<1> QED
  BY <1>1, <1>2, <1>3

LEMMA PartFields ==
  ASSUME NEW p \in PartType
  PROVE  p.n \in Int /\ p.turn \in Int /\ p.name \in Words /\ p.id \in Words \X Int
BY DEF PartType

LEMMA TagOne ==
  ASSUME NEW p \in PartType, NEW t \in Int
  PROVE  LET q == [p EXCEPT !.turn = t]
         IN  /\ q \in PartType /\ q.kind = p.kind /\ q.n = p.n /\ q.id = p.id /\ q.name = p.name /\ q.turn = t
             /\ q.plain = p.plain
BY DEF PartType

LEMMA MappedOf ==
  ASSUME NEW Y, NEW s, s \in Seq(Y), NEW Z, NEW f \in [Y -> Z], NEW m, m = <<>> \o [i \in DOMAIN s |-> f[s[i]]]
  PROVE  m \in Seq(Z) /\ Len(m) = Len(s) /\ \A i \in 1..Len(s) : m[i] = f[s[i]] /\ s[i] \in Y
OBVIOUS

Tagging(t) == [p \in PartType |-> [p EXCEPT !.turn = t]]

LEMMA TaggedMapped ==
  ASSUME NEW s \in Seq(PartType), NEW t \in Int
  PROVE  Tagged(s, t) = <<>> \o [i \in DOMAIN s |-> Tagging(t)[s[i]]]
<1>1. \A i \in DOMAIN s : s[i] \in PartType
  OBVIOUS
<1>2. [i \in DOMAIN s |-> [s[i] EXCEPT !.turn = t]] = [i \in DOMAIN s |-> Tagging(t)[s[i]]]
  BY <1>1 DEF Tagging
<1> QED
  BY <1>2 DEF Tagged, Mapped

Retold(P, ps, t) ==
  /\ P \in Seq(PartType) /\ Len(P) = Len(ps)
  /\ \A i \in 1..Len(ps) : P[i].kind = ps[i].kind /\ P[i].n = ps[i].n /\ P[i].id = ps[i].id
                          /\ P[i].name = ps[i].name /\ P[i].turn = t

LEMMA TaggedOf ==
  ASSUME NEW ps \in Seq(PartType), NEW t \in Int
  PROVE  Retold(Tagged(ps, t), ps, t)
<1> DEFINE T == Tagged(ps, t)
           f == Tagging(t)
<1>1. \A p \in PartType : f[p] = [p EXCEPT !.turn = t]
  BY DEF Tagging
<1>2. \A p \in PartType : f[p] \in PartType
  BY <1>1, TagOne
<1>3. f \in [PartType -> PartType]
  BY <1>2 DEF Tagging
<1>4. T = <<>> \o [i \in DOMAIN ps |-> f[ps[i]]]
  BY TaggedMapped
<1> HIDE DEF T, f
<1>5. T \in Seq(PartType) /\ Len(T) = Len(ps) /\ \A i \in 1..Len(ps) : T[i] = f[ps[i]] /\ ps[i] \in PartType
  BY <1>3, <1>4, MappedOf
<1>6. ASSUME NEW i \in 1..Len(ps)
      PROVE  T[i].kind = ps[i].kind /\ T[i].n = ps[i].n /\ T[i].id = ps[i].id /\ T[i].name = ps[i].name /\ T[i].turn = t
  <2>1. T[i] = [ps[i] EXCEPT !.turn = t] /\ ps[i] \in PartType
    BY <1>1, <1>5
  <2> QED
    BY <2>1, TagOne
<1>7. Retold(T, ps, t)
  BY <1>5, <1>6 DEF Retold
<1> QED
  BY <1>7 DEF T

LEMMA RetoldSame ==
  ASSUME NEW ps, NEW P, NEW t, Retold(P, ps, t)
  PROVE  (Distinct(ps) => Distinct(P)) /\ (Identified(ps) => Identified(P))
<1>1. ASSUME Distinct(ps) PROVE Distinct(P)
  BY <1>1 DEF Retold, Distinct
<1>2. ASSUME Identified(ps) PROVE Identified(P)
  <2>1. Len(P) = Len(ps) /\ \A i \in 1..Len(ps) : P[i].kind = ps[i].kind /\ P[i].n = ps[i].n /\ P[i].id = ps[i].id
    BY DEF Retold
  <2> QED
    BY <1>2, <2>1 DEF Identified
<1> QED
  BY <1>1, <1>2

LEMMA TaggedThrough ==
  ASSUME NEW t \in Int
  PROVE  LET f == [p \in PartType |-> <<[p EXCEPT !.turn = t]>>]
         IN  Maps(f, PartType, PartType) /\ \A s \in Seq(PartType) : Tagged(s, t) = Through(f, s)
<1> DEFINE f == [p \in PartType |-> <<[p EXCEPT !.turn = t]>>]
           g == Tagging(t)
<1>1. \A p \in PartType : [p EXCEPT !.turn = t] \in PartType
  BY TagOne
<1>2. Maps(f, PartType, PartType)
  BY <1>1 DEF Maps
<1>3. \A p \in PartType : f[p] = <<g[p]>>
  BY DEF Tagging
<1>4. \A s \in Seq(PartType) : Tagged(s, t) = <<>> \o [i \in DOMAIN s |-> g[s[i]]]
  BY TaggedMapped
<1> HIDE DEF f, g
<1>5. ASSUME NEW s \in Seq(PartType) PROVE Tagged(s, t) = Through(f, s)
  BY <1>2, <1>3, <1>4, ThroughSingles
<1> QED
  BY <1>2, <1>5 DEF f

LEMMA TaggedConcat ==
  ASSUME NEW s \in Seq(PartType), NEW u \in Seq(PartType), NEW t \in Int
  PROVE  Tagged(s \o u, t) = Tagged(s, t) \o Tagged(u, t)
<1>1. PICK f : Maps(f, PartType, PartType) /\ \A v \in Seq(PartType) : Tagged(v, t) = Through(f, v)
  BY TaggedThrough
<1>2. s \o u \in Seq(PartType)
  OBVIOUS
<1>3. Through(f, s \o u) = Through(f, s) \o Through(f, u)
  BY <1>1, ThroughConcat
<1> QED
  BY <1>1, <1>2, <1>3

LEMMA TaggedKinds ==
  ASSUME NEW K, NEW s \in Kinds(K), NEW t \in Int
  PROVE  Tagged(s, t) \in Kinds(K)
<1>1. s \in Seq(PartType) /\ \A i \in 1..Len(s) : s[i].kind \in K
  BY DEF Kinds, OfKind
<1> DEFINE T == Tagged(s, t)
<1>2. T \in Seq(PartType) /\ Len(T) = Len(s) /\ \A i \in 1..Len(s) : T[i].kind = s[i].kind
  <2>1. Retold(T, s, t)
    BY <1>1, TaggedOf
  <2> QED
    BY <2>1 DEF Retold
<1> HIDE DEF T
<1>3. \A i \in 1..Len(T) : T[i] \in OfKind(PartType, K)
  BY <1>1, <1>2 DEF OfKind
<1>4. T \in Seq(OfKind(PartType, K))
  BY <1>2, <1>3
<1> QED
  BY <1>4 DEF Kinds, T

\* There is a number nobody has used.
LEMMA NewIsNew ==
  ASSUME Said \in Seq(PartType)
  PROVE  New \in Int /\ New > 0 /\ \A i \in 1..Len(Said) : Said[i].n < New
<1> DEFINE Ns(s) == {0} \cup {p.n : p \in ToSet(s)}
           Bounded == {s \in Seq(PartType) : \E x \in Ns(s) : \A y \in Ns(s) : y <= x}
<1>1. <<>> \in Bounded
  <2>1. <<>> \in Seq(PartType) /\ ToSet(<<>>) = {}
    BY DEF ToSet
  <2> QED
    BY <2>1
<1>2. ASSUME NEW s \in Bounded, NEW p \in PartType, s \in Seq(PartType) PROVE Append(s, p) \in Bounded
  <2>1. PICK x \in Ns(s) : \A y \in Ns(s) : y <= x
    BY <1>2
  <2>0. p.n \in Int /\ \A i \in 1..Len(s) : s[i].n \in Int
    <3>1. \A i \in 1..Len(s) : s[i] \in PartType
      BY <1>2
    <3> QED
      BY <3>1, PartFields
  <2>2. p.n \in Int /\ x \in Int /\ \A q \in ToSet(s) : q.n \in Int
    <3>1. \A q \in ToSet(s) : q.n \in Int
      BY <1>2, <2>0 DEF ToSet
    <3> QED
      BY <2>0, <3>1
  <2>3. ToSet(Append(s, p)) = ToSet(s) \cup {p}
    BY <1>2, SMTT(30) DEF ToSet
  <2>4. Ns(Append(s, p)) = Ns(s) \cup {p.n}
    BY <2>3
  <2>5. \A y \in Ns(s) : y \in Int
    BY <2>2
  <2> HIDE DEF Ns
  <2>6. \E z \in Ns(Append(s, p)) : \A y \in Ns(Append(s, p)) : y <= z
    <3>1. CASE p.n <= x
      BY <2>1, <2>2, <2>4, <3>1
    <3>2. CASE ~(p.n <= x)
      <4>1. \A y \in Ns(s) : y <= p.n
        BY <2>1, <2>2, <2>5, <3>2
      <4> QED
        BY <2>2, <2>4, <4>1
    <3> QED
      BY <3>1, <3>2
  <2>7. Append(s, p) \in Seq(PartType)
    BY <1>2
  <2> QED
    BY <2>6, <2>7
<1> HIDE DEF Bounded
<1>3. Said \in Bounded
  BY <1>1, <1>2, SequencesGrow
<1>4. \E x \in Ns(Said) : \A y \in Ns(Said) : y <= x
  BY <1>3 DEF Bounded
<1>5. Max(Ns(Said)) \in Ns(Said) /\ \A y \in Ns(Said) : y <= Max(Ns(Said))
  <2> HIDE DEF Ns
  <2> QED
    BY <1>4 DEF Max
<1>6. New = Max(Ns(Said)) + 1
  BY DEF New
<1>7. /\ 0 \in Ns(Said) /\ \A i \in 1..Len(Said) : Said[i].n \in Ns(Said)
      /\ \A y \in Ns(Said) : y \in Int
  BY DEF PartType, ToSet
<1> HIDE DEF Ns
<1> QED
  BY <1>5, <1>6, <1>7

-----------------------------------------------------------------------------
(* The inductive invariant. *)

LEMMA OfKinds ==
  ASSUME NEW K, NEW s \in Kinds(K), NEW J
  PROVE  (K \subseteq J => Of(s, J) = s) /\ (K \cap J = {} => Of(s, J) = <<>>)
<1>1. s \in Seq(OfKind(PartType, K)) /\ \A x \in OfKind(PartType, K) : x.kind \in K
  BY DEF Kinds, OfKind
<1> DEFINE X == OfKind(PartType, K)
<1> HIDE DEF X
<1>2. ASSUME K \subseteq J PROVE Of(s, J) = s
  <2>1. s \in Seq(X) /\ \A x \in X : x.kind \in J
    BY <1>1, <1>2 DEF X
  <2> QED
    BY <2>1, OfAll
<1>3. ASSUME K \cap J = {} PROVE Of(s, J) = <<>>
  <2>1. s \in Seq(X) /\ \A x \in X : x.kind \notin J
    BY <1>1, <1>3 DEF X
  <2> QED
    BY <2>1, OfNone
<1> QED
  BY <1>2, <1>3

LEMMA KindsParts == ASSUME NEW K, NEW s \in Kinds(K) PROVE s \in Seq(PartType)
BY DEF Kinds, OfKind

\* What a turn is made of, in this order.
Chained(a, r, b, c) == ((a \o r) \o b) \o c
Thoughts(m) == Of(m.parts, {"thought"})
Results(m) == Of(m.parts, {"result"})
Texts(m) == Of(m.parts, {"text"})
Uses(m) == Of(m.parts, {"use"})
Formed(m) ==
  /\ m.parts = Chained(Thoughts(m), Results(m), Texts(m), Uses(m))
  /\ m.role # "model" => Thoughts(m) = <<>> /\ Uses(m) = <<>>
  /\ m.role # "tools" => Results(m) = <<>>
  /\ m.role = "user" => Texts(m) # <<>>
  /\ Results(m) # <<>> \/ Texts(m) # <<>> \/ Uses(m) # <<>>

LEMMA FourKinds ==
  ASSUME NEW a \in Seq(PartType), NEW r \in Seq(PartType), NEW b \in Seq(PartType), NEW c \in Seq(PartType), NEW J
  PROVE  Of(Chained(a, r, b, c), J) = Chained(Of(a, J), Of(r, J), Of(b, J), Of(c, J))
<1>2. PICK x \in Seq(PartType) : x = a \o r
  <2>1. a \o r \in Seq(PartType)
    OBVIOUS
  <2> QED
    BY <2>1
<1>3. PICK y \in Seq(PartType) : y = x \o b
  <2>1. x \o b \in Seq(PartType)
    OBVIOUS
  <2> QED
    BY <2>1
<1>4. Of(x, J) = Of(a, J) \o Of(r, J)
  BY <1>2, OfConcat
<1>5. Of(y, J) = Of(x, J) \o Of(b, J)
  BY <1>3, OfConcat
<1>6. Of(y \o c, J) = Of(y, J) \o Of(c, J)
  BY OfConcat
<1>8. Chained(a, r, b, c) = y \o c
  BY <1>2, <1>3 DEF Chained
<1> QED
  BY <1>4, <1>5, <1>6, <1>8 DEF Chained

LEMMA ChainedOne ==
  ASSUME NEW x \in Seq(PartType)
  PROVE  /\ Chained(x, <<>>, <<>>, <<>>) = x /\ Chained(<<>>, x, <<>>, <<>>) = x
         /\ Chained(<<>>, <<>>, x, <<>>) = x /\ Chained(<<>>, <<>>, <<>>, x) = x
BY DEF Chained

LEMMA FormedOf ==
  ASSUME NEW a \in Kinds({"thought"}), NEW r \in Kinds({"result"}), NEW b \in Kinds({"text"}), NEW c \in Kinds({"use"}),
         NEW ps, ps = Chained(a, r, b, c)
  PROVE  /\ Of(ps, {"thought"}) = a /\ Of(ps, {"result"}) = r
         /\ Of(ps, {"text"}) = b /\ Of(ps, {"use"}) = c
<1>6. a \in Seq(PartType) /\ r \in Seq(PartType) /\ b \in Seq(PartType) /\ c \in Seq(PartType)
  BY KindsParts
<1>1. \A J : Of(ps, J) = Chained(Of(a, J), Of(r, J), Of(b, J), Of(c, J))
  BY <1>6, FourKinds
<1>2. \A J : ({"thought"} \subseteq J => Of(a, J) = a) /\ ({"thought"} \cap J = {} => Of(a, J) = <<>>)
  BY OfKinds
<1>3. \A J : ({"result"} \subseteq J => Of(r, J) = r) /\ ({"result"} \cap J = {} => Of(r, J) = <<>>)
  BY OfKinds
<1>4. \A J : ({"text"} \subseteq J => Of(b, J) = b) /\ ({"text"} \cap J = {} => Of(b, J) = <<>>)
  BY OfKinds
<1>5. \A J : ({"use"} \subseteq J => Of(c, J) = c) /\ ({"use"} \cap J = {} => Of(c, J) = <<>>)
  BY OfKinds
<1>8. Of(ps, {"thought"}) = Chained(a, <<>>, <<>>, <<>>)
  BY <1>1, <1>2, <1>3, <1>4, <1>5
<1>9. Of(ps, {"result"}) = Chained(<<>>, r, <<>>, <<>>)
  BY <1>1, <1>2, <1>3, <1>4, <1>5
<1>10. Of(ps, {"text"}) = Chained(<<>>, <<>>, b, <<>>)
  BY <1>1, <1>2, <1>3, <1>4, <1>5
<1>11. Of(ps, {"use"}) = Chained(<<>>, <<>>, <<>>, c)
  BY <1>1, <1>2, <1>3, <1>4, <1>5
<1> QED
  BY <1>6, <1>8, <1>9, <1>10, <1>11, ChainedOne

\* Turns are formed, numbered in order, and the user's comes first.
ConversationInv ==
  /\ turns \in Seq(TurnType)
  /\ \A i \in 1..Len(turns) : Formed(turns[i]) /\ \A k \in 1..Len(turns[i].parts) : turns[i].parts[k].turn = i
  /\ turns # <<>> => turns[1].role = "user"
SaidInv == Talk(Asked) /\ \A i \in 1..Len(Asked) : Asked[i].turn <= Len(turns)

Holds(S, k, n, id) == \E i \in 1..Len(S) : S[i].kind = k /\ S[i].n = n /\ S[i].id = id
Lacks(S, k, n) == \A i \in 1..Len(S) : ~(S[i].kind = k /\ S[i].n = n)
Apart(S, P) == \A i \in 1..Len(S), j \in 1..Len(P) : ~(S[i].kind = P[j].kind /\ S[i].n = P[j].n)

\* A call that waits was said, and no result of it was.
Waiting(S, c) ==
  /\ c.kind = "use" /\ c.n > 0 /\ c.id[2] = c.n
  /\ Holds(S, "use", c.n, c.id) /\ Lacks(S, "result", c.n)
AskedInv ==
  /\ asked \in Seq(PartType)
  /\ \A i \in 1..Len(asked) : Waiting(Said, asked[i])
  /\ \A i, j \in 1..Len(asked) : asked[i].n = asked[j].n => i = j

\* What may be said next.
Sayable(ps) ==
  /\ ps \in Seq(PartType) /\ Distinct(ps) /\ Identified(ps)
  /\ \A j \in 1..Len(ps) : ps[j].kind # "system"
  /\ Apart(Said, ps)
  /\ \A j \in 1..Len(ps) : ps[j].kind = "result" => ps[j].name = "" /\ Holds(Said, "use", ps[j].n, ps[j].id)

LEMMA PairIn == ASSUME NEW X, NEW x \in X, NEW n \in Int PROVE <<x, n>> \in X \X Int
OBVIOUS

PartKinds == {"system", "thought", "text", "use", "result", "own", "blank"}
LEMMA PartMade ==
  ASSUME NEW k \in PartKinds, NEW n \in Int
  PROVE  /\ Part(k, n) \in PartType /\ Part(k, n).kind = k /\ Part(k, n).n = n /\ Part(k, n).turn = 0
         /\ Part(k, n).plain = FALSE
<1>0. "" \in Words
  BY DEF Words
<1>1. PICK w \in Words : w = ""
  BY <1>0
<1>2. NoId = <<w, 0>>
  BY <1>1 DEF NoId
<1>3. NoId \in Words \X Int
  BY <1>2, PairIn
<1>4. Part(k, n) = [kind |-> k, n |-> n, id |-> NoId, name |-> w, turn |-> 0, plain |-> FALSE]
  BY <1>1 DEF Part
<1>5. Part(k, n) \in PartType
  BY <1>3, <1>4 DEF PartType, PartKinds
<1> QED
  BY <1>4, <1>5

LEMMA NoughtMade ==
  ASSUME NEW k \in {"system", "own", "blank"}
  PROVE  /\ Part(k, 0) \in PartType /\ Part(k, 0).kind = k /\ Part(k, 0).n = 0 /\ Part(k, 0).turn = 0
         /\ Part(k, 0).plain = FALSE
<1>1. PICK n \in Int : n = 0
  OBVIOUS
<1>2. k \in PartKinds
  BY DEF PartKinds
<1>3. /\ Part(k, n) \in PartType /\ Part(k, n).kind = k /\ Part(k, n).n = n /\ Part(k, n).turn = 0
      /\ Part(k, n).plain = FALSE
  BY <1>2, PartMade
<1> QED
  BY <1>1, <1>3

\* To write a part changes the way it is written only.
WrittenPlain == \/ Source = "chat" /\ "parts" \notin habits
                \/ Source \in {"claude", "responses"} /\ "plain" \in habits
LEMMA WrittenPart ==
  ASSUME NEW p \in PartType
  PROVE  /\ Written(p) \in PartType /\ Written(p).kind = p.kind /\ Written(p).n = p.n /\ Written(p).turn = p.turn
         /\ Written(p).plain = WrittenPlain
<1>1. PICK b \in BOOLEAN : b = WrittenPlain
  BY DEF WrittenPlain
<1>2. Written(p) = [p EXCEPT !.plain = b]
  BY <1>1 DEF Written, WrittenPlain
<1>3. /\ Written(p) \in PartType /\ Written(p).kind = p.kind /\ Written(p).n = p.n /\ Written(p).turn = p.turn
      /\ Written(p).plain = b
  BY <1>2 DEF PartType
<1> QED
  BY <1>1, <1>3

LEMMA TextMade ==
  ASSUME NEW n \in Int
  PROVE  Text(n) \in PartType /\ Text(n).kind = "text" /\ Text(n).n = n /\ Text(n).plain = WrittenPlain
<1> DEFINE p == Part("text", n)
<1>1. p \in PartType /\ p.kind = "text" /\ p.n = n
  <2>1. "text" \in PartKinds
    BY DEF PartKinds
  <2> QED
    BY <2>1, PartMade
<1>2. Text(n) = Written(p)
  BY DEF Text
<1> HIDE DEF p
<1> QED
  BY <1>1, <1>2, WrittenPart

LEMMA SystemPart == System \in PartType /\ System.kind = "system" /\ System.n = 0 /\ System.turn = 0
<1> DEFINE p == Part("system", 0)
<1>1. p \in PartType /\ p.kind = "system" /\ p.n = 0 /\ p.turn = 0
  BY NoughtMade
<1>2. System = p \/ System = Written(p)
  BY DEF System
<1> HIDE DEF p
<1> QED
  BY <1>1, <1>2, WrittenPart

\* What a client notes of itself later does not change how it writes.
Noted == {"interrupted", "swapped", "piecemeal"}
SameStyle == \A h \in {"system", "instructions", "parts", "plain"} : h \in habits <=> h \in habits'
LEMMA StyleStays ==
  ASSUME NEW hs, hs \subseteq Noted, Noting(hs)
  PROVE  SameStyle
BY DEF Noted, Noting, SameStyle

LEMMA SystemKept ==
  ASSUME pair' = pair, SameStyle
  PROVE  System' = System /\ ("system" \in habits <=> "system" \in habits')
<1>1. "system" \in habits <=> "system" \in habits'
  BY DEF SameStyle
<1>2. ("instructions" \in habits <=> "instructions" \in habits') /\ ("parts" \in habits <=> "parts" \in habits')
      /\ ("plain" \in habits <=> "plain" \in habits')
  BY DEF SameStyle
<1>3. WrittenPlain' <=> WrittenPlain
  BY <1>2 DEF WrittenPlain, Source
<1>4. PICK b \in BOOLEAN : b = WrittenPlain /\ b = WrittenPlain'
  BY <1>3 DEF WrittenPlain
<1> DEFINE p == Part("system", 0)
<1>5. Written(p) = [p EXCEPT !.plain = b] /\ Written(p)' = [p EXCEPT !.plain = b]
  BY <1>4 DEF Written, WrittenPlain
<1>6. System = IF "instructions" \in habits THEN p ELSE Written(p)
  BY DEF System
<1>7. System' = IF "instructions" \in habits' THEN p ELSE Written(p)'
  BY DEF System, Part
<1> HIDE DEF p
<1> QED
  BY <1>1, <1>2, <1>5, <1>6, <1>7

LEMMA SaidTyped == ASSUME turns \in Seq(TurnType) PROVE Said \in Seq(PartType)
<1>1. \A m \in TurnType : m.parts \in Seq(PartType)
  BY DEF TurnType
<1> QED
  BY <1>1, FlatTyped DEF Said

\* Asked is what was said, after a system text if there is one.
LEMMA AskedPlaces ==
  ASSUME Said \in Seq(PartType)
  PROVE  /\ Asked \in Seq(PartType)
         /\ \A i \in 1..Len(Asked) : Asked[i] = System \/ \E j \in 1..Len(Said) : Asked[i] = Said[j]
         /\ \A j \in 1..Len(Said) : \E i \in 1..Len(Asked) : Asked[i] = Said[j]
<1>1. CASE "system" \notin habits
  <2>1. Asked = Said
    BY <1>1 DEF Asked
  <2> QED
    BY <2>1
<1>2. CASE "system" \in habits
  <2>1. Asked = <<System>> \o Said /\ <<System>> \in Seq(PartType) /\ Len(<<System>>) = 1
    BY <1>2, SystemPart DEF Asked
  <2>2. /\ Asked \in Seq(PartType) /\ Len(Asked) = 1 + Len(Said)
        /\ \A i \in 1..Len(Said) : Asked[1 + i] = Said[i]
        /\ Asked[1] = System
    BY <2>1
  <2>3. \A i \in 1..(1 + Len(Said)) : i = 1 \/ \E j \in 1..Len(Said) : i = 1 + j
    <3> SUFFICES ASSUME NEW i \in 1..(1 + Len(Said)), i # 1 PROVE \E j \in 1..Len(Said) : i = 1 + j
      OBVIOUS
    <3>1. i - 1 \in 1..Len(Said) /\ i = 1 + (i - 1)
      OBVIOUS
    <3> QED
      BY <3>1
  <2>4. \A j \in 1..Len(Said) : 1 + j \in 1..Len(Asked)
    BY <2>2
  <2> QED
    BY <2>2, <2>3, <2>4, SMTT(30)
<1> QED
  BY <1>1, <1>2

LEMMA SayableJoins ==
  ASSUME Said \in Seq(PartType), NEW t \in Int, \A i \in 1..Len(Asked) : Asked[i].turn <= t,
         NEW ps, Sayable(ps), NEW P, P = Tagged(ps, t)
  PROVE  Joins(Asked, P, t)
<1>1. ps \in Seq(PartType) /\ Distinct(ps) /\ Identified(ps)
  BY DEF Sayable
<1>0. Retold(P, ps, t)
  BY <1>1, TaggedOf
<1>2. /\ P \in Seq(PartType) /\ Len(P) = Len(ps)
      /\ \A i \in 1..Len(P) : P[i].kind = ps[i].kind /\ P[i].n = ps[i].n /\ P[i].id = ps[i].id
                             /\ P[i].name = ps[i].name /\ P[i].turn = t
  BY <1>0 DEF Retold
<1>3. Distinct(P) /\ Identified(P)
  BY <1>0, <1>1, RetoldSame
<1>5. ASSUME NEW i \in 1..Len(Asked), NEW j \in 1..Len(P), Asked[i].kind = P[j].kind, Asked[i].n = P[j].n PROVE FALSE
  <2>0. P[j].kind = ps[j].kind /\ P[j].n = ps[j].n /\ j \in 1..Len(ps)
    BY <1>2
  <2>1. CASE Asked[i] = System
    <3>1. ps[j].kind = "system"
      BY <1>5, <2>0, <2>1, SystemPart
    <3> QED
      BY <2>0, <3>1 DEF Sayable
  <2>2. ASSUME NEW k \in 1..Len(Said), Asked[i] = Said[k] PROVE FALSE
    <3>1. Said[k].kind = ps[j].kind /\ Said[k].n = ps[j].n
      BY <1>5, <2>0, <2>2
    <3> QED
      BY <2>0, <3>1 DEF Sayable, Apart
  <2> QED
    BY <2>1, <2>2, AskedPlaces
<1>6. ASSUME NEW j \in 1..Len(P), P[j].kind = "result"
      PROVE  P[j].name = "" /\ \E i \in 1..Len(Asked) : Asked[i].kind = "use" /\ Asked[i].n = P[j].n /\ Asked[i].id = P[j].id
  <2>0. P[j].kind = ps[j].kind /\ P[j].n = ps[j].n /\ P[j].id = ps[j].id /\ P[j].name = ps[j].name /\ j \in 1..Len(ps)
    BY <1>2
  <2>1. ps[j].name = "" /\ \E k \in 1..Len(Said) : Said[k].kind = "use" /\ Said[k].n = ps[j].n /\ Said[k].id = ps[j].id
    BY <1>6, <2>0 DEF Sayable, Holds
  <2>3. PICK k \in 1..Len(Said) : Said[k].kind = "use" /\ Said[k].n = ps[j].n /\ Said[k].id = ps[j].id
    BY <2>1
  <2>2. PICK i \in 1..Len(Asked) : Asked[i] = Said[k]
    BY AskedPlaces
  <2> QED
    BY <2>0, <2>1, <2>3, <2>2
<1> QED
  BY <1>2, <1>3, <1>5, <1>6 DEF Joins

LEMMA TurnKeeps ==
  ASSUME ConversationInv, SaidInv, NEW role \in {"user", "model", "tools"}, NEW ps, Sayable(ps), Turn(role, ps),
         "system" \in habits <=> "system" \in habits', System' = System,
         NEW P, P = Tagged(ps, Len(turns) + 1), Formed(Msg(role, P)), turns = <<>> => role = "user"
  PROVE  ConversationInv' /\ SaidInv' /\ Said' = Said \o P
<1> DEFINE t == Len(turns) + 1
           m == Msg(role, P)
<1>1. /\ turns \in Seq(TurnType)
      /\ \A i \in 1..Len(turns) : Formed(turns[i]) /\ \A k \in 1..Len(turns[i].parts) : turns[i].parts[k].turn = i
      /\ turns # <<>> => turns[1].role = "user"
  BY DEF ConversationInv
<1>2. t \in Int /\ ps \in Seq(PartType) /\ Said \in Seq(PartType)
  <2>1. ps \in Seq(PartType)
    BY DEF Sayable
  <2>2. Len(turns) \in Nat
    BY <1>1
  <2> QED
    BY <1>1, <2>1, <2>2, SaidTyped
<1>3. P \in Seq(PartType) /\ Len(P) = Len(ps) /\ \A k \in 1..Len(P) : P[k].turn = t
  <2>1. Retold(P, ps, t)
    BY <1>2, TaggedOf
  <2> QED
    BY <2>1 DEF Retold
<1>4. m \in TurnType /\ m.parts = P /\ m.role = role /\ Formed(m)
  BY <1>3 DEF TurnType, Msg
<1>5. turns' = Append(turns, m)
  BY DEF Turn, Tagged
<1> HIDE DEF m
<1>6. /\ turns' \in Seq(TurnType) /\ Len(turns') = t /\ turns'[t] = m
      /\ \A i \in 1..Len(turns) : turns'[i] = turns[i]
      /\ \A i \in 1..t : i \in 1..Len(turns) \/ i = t
      /\ turns' # <<>> /\ (turns = <<>> => t = 1) /\ (turns # <<>> => 1 \in 1..Len(turns))
  BY <1>1, <1>4, <1>5
<1> HIDE DEF t
<1>7. ConversationInv'
  <2>1. \A i \in 1..t : Formed(turns'[i]) /\ \A k \in 1..Len(turns'[i].parts) : turns'[i].parts[k].turn = i
    <3> SUFFICES ASSUME NEW i \in 1..t
                 PROVE  Formed(turns'[i]) /\ \A k \in 1..Len(turns'[i].parts) : turns'[i].parts[k].turn = i
      OBVIOUS
    <3>1. CASE i \in 1..Len(turns)
      BY <1>1, <1>6, <3>1
    <3>2. CASE i = t
      BY <1>3, <1>4, <1>6, <3>2
    <3> QED
      BY <1>6, <3>1, <3>2
  <2>2. turns'[1].role = "user"
    <3>1. CASE turns = <<>>
      BY <1>4, <1>6, <3>1
    <3>2. CASE turns # <<>>
      BY <1>1, <1>6, <3>2
    <3> QED
      BY <3>1, <3>2
  <2> QED
    BY <1>6, <2>1, <2>2 DEF ConversationInv
<1>8. Said' = Said \o P
  <2>1. \A x \in TurnType : x.parts \in Seq(PartType)
    BY DEF TurnType
  <2>2. Flat(Append(turns, m)) = Flat(turns) \o m.parts
    BY <1>1, <1>4, <2>1, FlatMore
  <2> QED
    BY <1>4, <1>5, <2>2 DEF Said
<1>9. Asked' = Asked \o P
  <2>1. CASE "system" \in habits
    <3>1. Asked = <<System>> \o Said /\ Asked' = <<System>> \o (Said \o P) /\ <<System>> \in Seq(PartType)
      BY <1>8, <2>1, SystemPart DEF Asked
    <3>2. \A x, y, z \in Seq(PartType) : x \o (y \o z) = (x \o y) \o z
      OBVIOUS
    <3> QED
      BY <1>2, <1>3, <3>1, <3>2
  <2>2. CASE "system" \notin habits
    <3>1. Asked = Said /\ Asked' = Said \o P
      <4>1. Asked = <<>> \o Said /\ Asked' = <<>> \o (Said \o P)
        BY <1>8, <2>2 DEF Asked
      <4>2. Said \o P \in Seq(PartType)
        BY <1>2, <1>3
      <4> QED
        BY <1>2, <4>1, <4>2
    <3> QED
      BY <3>1
  <2> QED
    BY <2>1, <2>2
<1>10. \A i \in 1..Len(Asked) : Asked[i].turn <= t
  <2>1. \A i \in 1..Len(Asked) : Asked[i].turn <= Len(turns)
    BY DEF SaidInv
  <2>2. Len(turns) \in Nat /\ \A i \in 1..Len(Asked) : Asked[i] \in PartType
    BY <1>1, <1>2, AskedPlaces
  <2>3. \A i \in 1..Len(Asked) : Asked[i].turn \in Int
    BY <2>2, PartFields
  <2> QED
    BY <2>1, <2>2, <2>3 DEF t
<1>11. Joins(Asked, P, t)
  BY <1>2, <1>10, SayableJoins DEF t
<1>12. Talk(Asked)
  BY DEF SaidInv
<1>13. Talk(Asked')
  BY <1>9, <1>11, <1>12, TalkGrows
<1>14. \A i \in 1..Len(Asked') : Asked'[i].turn <= Len(turns')
  <2>1. Asked \in Seq(PartType)
    BY <1>2, AskedPlaces
  <2>2. PICK S \in Seq(PartType) : S = Asked
    BY <2>1
  <2>3. PICK U : U = Asked' /\ U = S \o P
    BY <1>9, <2>2
  <2>4. /\ Len(U) = Len(S) + Len(P) /\ Len(S) \in Nat /\ Len(P) \in Nat
        /\ \A i \in 1..Len(S) : U[i] = S[i]
        /\ \A i \in 1..Len(P) : U[Len(S) + i] = P[i]
    BY <1>3, <2>3, ConcatPlaces
  <2>5. \A i \in 1..(Len(S) + Len(P)) : i \in 1..Len(S) \/ \E j \in 1..Len(P) : i = Len(S) + j
    BY <2>4, Sums
  <2>6. ASSUME NEW i \in 1..Len(U) PROVE U[i].turn <= t
    <3>1. CASE i \in 1..Len(S)
      BY <1>10, <2>2, <2>4, <3>1
    <3>2. ASSUME NEW j \in 1..Len(P), i = Len(S) + j PROVE U[i].turn <= t
      <4>1. U[i].turn = t
        BY <1>3, <2>4, <3>2
      <4> QED
        BY <1>2, <4>1
    <3> QED
      BY <2>4, <2>5, <3>1, <3>2
  <2> QED
    BY <1>6, <2>3, <2>6
<1> QED
  BY <1>7, <1>8, <1>13, <1>14 DEF SaidInv

LEMMA NoParts == \A K : <<>> \in Kinds(K)
BY DEF Kinds

LEMMA TaggedSome ==
  ASSUME NEW s \in Seq(PartType), NEW t \in Int
  PROVE  Tagged(s, t) \in Seq(PartType) /\ (Tagged(s, t) = <<>> <=> s = <<>>)
<1>1. Retold(Tagged(s, t), s, t)
  BY TaggedOf
<1>2. \A x \in Seq(PartType) : x = <<>> <=> Len(x) = 0
  OBVIOUS
<1> QED
  BY <1>1, <1>2 DEF Retold

LEMMA TaggedChained ==
  ASSUME NEW a \in Seq(PartType), NEW r \in Seq(PartType), NEW b \in Seq(PartType), NEW c \in Seq(PartType), NEW t \in Int
  PROVE  Tagged(Chained(a, r, b, c), t) = Chained(Tagged(a, t), Tagged(r, t), Tagged(b, t), Tagged(c, t))
<1>2. PICK x \in Seq(PartType) : x = a \o r
  <2>1. a \o r \in Seq(PartType)
    OBVIOUS
  <2> QED
    BY <2>1
<1>3. PICK y \in Seq(PartType) : y = x \o b
  <2>1. x \o b \in Seq(PartType)
    OBVIOUS
  <2> QED
    BY <2>1
<1>4. Tagged(x, t) = Tagged(a, t) \o Tagged(r, t)
  BY <1>2, TaggedConcat
<1>5. Tagged(y, t) = Tagged(x, t) \o Tagged(b, t)
  BY <1>3, TaggedConcat
<1>6. Tagged(y \o c, t) = Tagged(y, t) \o Tagged(c, t)
  BY TaggedConcat
<1>8. Chained(a, r, b, c) = y \o c
  BY <1>2, <1>3 DEF Chained
<1> QED
  BY <1>4, <1>5, <1>6, <1>8 DEF Chained

LEMMA FormedTagged ==
  ASSUME NEW a \in Kinds({"thought"}), NEW r \in Kinds({"result"}), NEW b \in Kinds({"text"}), NEW c \in Kinds({"use"}),
         NEW role, role # "model" => a = <<>> /\ c = <<>>, role # "tools" => r = <<>>,
         role = "user" => b # <<>>, r # <<>> \/ b # <<>> \/ c # <<>>,
         NEW ps, ps = Chained(a, r, b, c), NEW t \in Int
  PROVE  Formed(Msg(role, Tagged(ps, t)))
<1>1. a \in Seq(PartType) /\ r \in Seq(PartType) /\ b \in Seq(PartType) /\ c \in Seq(PartType)
  BY KindsParts
<1>2. PICK d \in Kinds({"thought"}) : d = Tagged(a, t)
  BY TaggedKinds
<1>3. PICK u \in Kinds({"result"}) : u = Tagged(r, t)
  BY TaggedKinds
<1>4. PICK v \in Kinds({"text"}) : v = Tagged(b, t)
  BY TaggedKinds
<1>5. PICK w \in Kinds({"use"}) : w = Tagged(c, t)
  BY TaggedKinds
<1>6. /\ (a = <<>> => d = <<>>) /\ (c = <<>> => w = <<>>) /\ (r = <<>> => u = <<>>)
      /\ (b # <<>> => v # <<>>) /\ (c # <<>> => w # <<>>) /\ (r # <<>> => u # <<>>)
  BY <1>1, <1>2, <1>3, <1>4, <1>5, TaggedSome
<1> DEFINE qs == Tagged(ps, t)
           m == Msg(role, qs)
<1>7. qs = Chained(d, u, v, w)
  BY <1>1, <1>2, <1>3, <1>4, <1>5, TaggedChained
<1>8. m.parts = qs /\ m.role = role
  BY DEF Msg
<1> HIDE DEF m, qs
<1>9. Of(qs, {"thought"}) = d /\ Of(qs, {"result"}) = u /\ Of(qs, {"text"}) = v /\ Of(qs, {"use"}) = w
  BY <1>7, FormedOf
<1>10. Thoughts(m) = d /\ Results(m) = u /\ Texts(m) = v /\ Uses(m) = w
  BY <1>8, <1>9 DEF Thoughts, Results, Texts, Uses
<1>11. Formed(m)
  BY <1>6, <1>7, <1>8, <1>10 DEF Formed
<1> QED
  BY <1>11 DEF m, qs

LEMMA ApartKinds ==
  ASSUME NEW J, NEW K, J \cap K = {}, NEW s \in Kinds(J), NEW u \in Kinds(K)
  PROVE  Apart(s, u)
<1>1. \A i \in 1..Len(s) : s[i].kind \in J
  BY DEF Kinds, OfKind
<1>2. \A i \in 1..Len(u) : u[i].kind \in K
  BY DEF Kinds, OfKind
<1> QED
  BY <1>1, <1>2 DEF Apart

LEMMA LacksKinds ==
  ASSUME NEW K, NEW s \in Kinds(K), NEW k, k \notin K, NEW n
  PROVE  Lacks(s, k, n)
<1>1. \A i \in 1..Len(s) : s[i].kind \in K
  BY DEF Kinds, OfKind
<1> QED
  BY <1>1 DEF Lacks

LEMMA ConcatHolds ==
  ASSUME NEW s \in Seq(PartType), NEW u \in Seq(PartType), NEW k, NEW n, NEW id, Holds(s, k, n, id) \/ Holds(u, k, n, id)
  PROVE  Holds(s \o u, k, n, id)
<1>1. /\ Len(s \o u) = Len(s) + Len(u) /\ Len(s) \in Nat /\ Len(u) \in Nat
      /\ \A i \in 1..Len(s) : (s \o u)[i] = s[i] /\ i \in 1..(Len(s) + Len(u))
      /\ \A i \in 1..Len(u) : (s \o u)[Len(s) + i] = u[i] /\ Len(s) + i \in 1..(Len(s) + Len(u))
  OBVIOUS
<1> DEFINE v == s \o u
<1> HIDE DEF v
<1> QED
  BY <1>1 DEF Holds

LEMMA ConcatLacks ==
  ASSUME NEW s \in Seq(PartType), NEW u \in Seq(PartType), NEW k, NEW n, Lacks(s, k, n), Lacks(u, k, n)
  PROVE  Lacks(s \o u, k, n)
<1>1. /\ Len(s \o u) = Len(s) + Len(u) /\ Len(s) \in Nat /\ Len(u) \in Nat
      /\ \A i \in 1..Len(s) : (s \o u)[i] = s[i]
      /\ \A i \in 1..Len(u) : (s \o u)[Len(s) + i] = u[i]
  OBVIOUS
<1>2. \A i \in 1..(Len(s) + Len(u)) : i \in 1..Len(s) \/ \E j \in 1..Len(u) : i = Len(s) + j
  BY <1>1, Sums
<1> QED
  BY <1>1, <1>2 DEF Lacks

LEMMA RetoldHolds ==
  ASSUME NEW s, NEW P, NEW t, Retold(P, s, t), NEW k, NEW n, NEW id
  PROVE  (Holds(s, k, n, id) => Holds(P, k, n, id)) /\ (Lacks(s, k, n) => Lacks(P, k, n))
BY DEF Retold, Holds, Lacks

LEMMA ConcatDistinct ==
  ASSUME NEW s \in Seq(PartType), NEW u \in Seq(PartType), Distinct(s), Distinct(u), Apart(s, u)
  PROVE  Distinct(s \o u)
<1> DEFINE v == s \o u
           n == Len(s)
           m == Len(u)
<1>1. /\ Len(v) = n + m /\ n \in Nat /\ m \in Nat
      /\ \A i \in 1..n : v[i] = s[i]
      /\ \A i \in 1..m : v[n + i] = u[i]
  OBVIOUS
<1>2. \A i \in 1..(n + m) : i \in 1..n \/ \E j \in 1..m : i = n + j
  BY <1>1, Sums
<1> HIDE DEF v
<1> SUFFICES ASSUME NEW i \in 1..(n + m), NEW j \in 1..(n + m), v[i].kind = v[j].kind, v[i].n = v[j].n PROVE i = j
  BY <1>1 DEF Distinct, v
<1>3. CASE i \in 1..n /\ j \in 1..n
  BY <1>1, <1>3 DEF Distinct
<1>4. ASSUME NEW k \in 1..m, i = n + k, NEW l \in 1..m, j = n + l PROVE i = j
  <2>1. u[k].kind = u[l].kind /\ u[k].n = u[l].n
    BY <1>1, <1>4
  <2> QED
    BY <1>4, <2>1 DEF Distinct
<1>5. ASSUME i \in 1..n, NEW l \in 1..m, j = n + l PROVE FALSE
  <2>1. s[i].kind = u[l].kind /\ s[i].n = u[l].n
    BY <1>1, <1>5
  <2> QED
    BY <1>5, <2>1 DEF Apart
<1>6. ASSUME j \in 1..n, NEW l \in 1..m, i = n + l PROVE FALSE
  <2>1. s[j].kind = u[l].kind /\ s[j].n = u[l].n
    BY <1>1, <1>6
  <2> QED
    BY <1>6, <2>1 DEF Apart
<1> QED
  BY <1>2, <1>3, <1>4, <1>5, <1>6

\* What each part of a turn that may be said is.
LEMMA SayablePart ==
  ASSUME NEW s, Sayable(s), NEW j \in 1..Len(s)
  PROVE  /\ s[j].kind = "use" => s[j].id[2] = s[j].n /\ s[j].n > 0
         /\ s[j].kind # "system"
         /\ \A k \in 1..Len(Said) : ~(Said[k].kind = s[j].kind /\ Said[k].n = s[j].n)
         /\ s[j].kind = "result" => s[j].name = "" /\ Holds(Said, "use", s[j].n, s[j].id)
<1>1. s[j].kind = "use" => s[j].id[2] = s[j].n /\ s[j].n > 0
  BY DEF Sayable, Identified
<1>2. s[j].kind # "system"
  BY DEF Sayable
<1>3. \A k \in 1..Len(Said) : ~(Said[k].kind = s[j].kind /\ Said[k].n = s[j].n)
  BY DEF Sayable, Apart
<1>4. s[j].kind = "result" => s[j].name = "" /\ Holds(Said, "use", s[j].n, s[j].id)
  BY DEF Sayable
<1> QED
  BY <1>1, <1>2, <1>3, <1>4

LEMMA SayMore ==
  ASSUME NEW s, Sayable(s), NEW u, Sayable(u), Apart(s, u)
  PROVE  Sayable(s \o u)
<1> DEFINE v == s \o u
           n == Len(s)
           m == Len(u)
<1>0. s \in Seq(PartType) /\ u \in Seq(PartType)
  BY DEF Sayable
<1>1. /\ v \in Seq(PartType) /\ Len(v) = n + m /\ n \in Nat /\ m \in Nat
      /\ \A i \in 1..n : v[i] = s[i]
      /\ \A i \in 1..m : v[n + i] = u[i]
  BY <1>0
<1>2. \A i \in 1..(n + m) : i \in 1..n \/ \E j \in 1..m : i = n + j
  BY <1>1, Sums
<1>3. Distinct(v)
  BY <1>0, ConcatDistinct DEF Sayable
<1> HIDE DEF v
<1>4. \A i \in 1..(n + m) : (\E j \in 1..n : v[i] = s[j]) \/ (\E j \in 1..m : v[i] = u[j])
  BY <1>1, <1>2
<1>5. ASSUME NEW i \in 1..(n + m)
      PROVE  /\ v[i].kind = "use" => v[i].id[2] = v[i].n /\ v[i].n > 0
             /\ v[i].kind # "system"
             /\ \A k \in 1..Len(Said) : ~(Said[k].kind = v[i].kind /\ Said[k].n = v[i].n)
             /\ v[i].kind = "result" => v[i].name = "" /\ Holds(Said, "use", v[i].n, v[i].id)
  <2>1. ASSUME NEW j \in 1..n, v[i] = s[j]
        PROVE  /\ v[i].kind = "use" => v[i].id[2] = v[i].n /\ v[i].n > 0
               /\ v[i].kind # "system"
               /\ \A k \in 1..Len(Said) : ~(Said[k].kind = v[i].kind /\ Said[k].n = v[i].n)
               /\ v[i].kind = "result" => v[i].name = "" /\ Holds(Said, "use", v[i].n, v[i].id)
    <3>1. s \in Seq(PartType) /\ j \in 1..Len(s)
      BY <1>0, <2>1 DEF n, m
    <3>2. /\ s[j].kind = "use" => s[j].id[2] = s[j].n /\ s[j].n > 0
          /\ s[j].kind # "system"
          /\ \A k \in 1..Len(Said) : ~(Said[k].kind = s[j].kind /\ Said[k].n = s[j].n)
          /\ s[j].kind = "result" => s[j].name = "" /\ Holds(Said, "use", s[j].n, s[j].id)
      BY <3>1, SayablePart
    <3> QED
      BY <2>1, <3>2
  <2>2. ASSUME NEW j \in 1..m, v[i] = u[j]
        PROVE  /\ v[i].kind = "use" => v[i].id[2] = v[i].n /\ v[i].n > 0
               /\ v[i].kind # "system"
               /\ \A k \in 1..Len(Said) : ~(Said[k].kind = v[i].kind /\ Said[k].n = v[i].n)
               /\ v[i].kind = "result" => v[i].name = "" /\ Holds(Said, "use", v[i].n, v[i].id)
    <3>1. u \in Seq(PartType) /\ j \in 1..Len(u)
      BY <1>0, <2>2 DEF n, m
    <3>2. /\ u[j].kind = "use" => u[j].id[2] = u[j].n /\ u[j].n > 0
          /\ u[j].kind # "system"
          /\ \A k \in 1..Len(Said) : ~(Said[k].kind = u[j].kind /\ Said[k].n = u[j].n)
          /\ u[j].kind = "result" => u[j].name = "" /\ Holds(Said, "use", u[j].n, u[j].id)
      BY <3>1, SayablePart
    <3> QED
      BY <2>2, <3>2
  <2> QED
    BY <1>4, <2>1, <2>2
<1>6. Sayable(v)
  BY <1>1, <1>3, <1>5 DEF Sayable, Identified, Apart
<1> QED
  BY <1>6 DEF v

LEMMA UseMade ==
  ASSUME Source \in Clients, NEW name \in {"f", "g"}, NEW n \in Int
  PROVE  Use(name, n) \in PartType /\ Use(name, n).kind = "use" /\ Use(name, n).n = n /\ Use(name, n).id[2] = n
<1>1. \E w \in Words : IdOf(name, n) = <<w, n>>
  BY DEF Clients, Words, IdOf
<1>2. PICK w \in Words : IdOf(name, n) = <<w, n>>
  BY <1>1
<1>3. PICK id \in Words \X Int : id = IdOf(name, n) /\ id[2] = n
  <2>1. <<w, n>> \in Words \X Int /\ <<w, n>>[2] = n
    BY PairIn
  <2> QED
    BY <1>2, <2>1
<1>4. name \in Words
  BY DEF Words
<1> DEFINE p == Part("use", n)
<1>5. p \in PartType /\ p.kind = "use" /\ p.n = n
  <2>1. "use" \in PartKinds
    BY DEF PartKinds
  <2> QED
    BY <2>1, PartMade
<1>6. Use(name, n) = [p EXCEPT !.id = id, !.name = name]
  BY <1>3 DEF Use
<1> HIDE DEF p
<1>7. Use(name, n) \in PartType /\ Use(name, n).kind = p.kind /\ Use(name, n).n = p.n /\ Use(name, n).id = id
  BY <1>4, <1>5, <1>6 DEF PartType
<1> QED
  BY <1>3, <1>5, <1>7

LEMMA SayNone == Sayable(<<>>)
BY DEF Sayable, Distinct, Identified, Apart

LEMMA SayOne ==
  ASSUME Said \in Seq(PartType), NEW k \in {"thought", "text"}, NEW n \in Int, New <= n,
         NEW p \in PartType, p.kind = k, p.n = n
  PROVE  Sayable(<<p>>) /\ <<p>> \in Kinds({k})
<1> DEFINE s == <<p>>
<1>1. p \in PartType /\ p.kind = k /\ p.n = n
  OBVIOUS
<1>2. s \in Seq(PartType) /\ Len(s) = 1 /\ s[1] = p /\ \A i \in 1..Len(s) : i = 1
  BY <1>1
<1>3. s \in Kinds({k})
  <2>1. p \in OfKind(PartType, {k})
    BY <1>1 DEF OfKind
  <2> QED
    BY <2>1 DEF Kinds
<1> HIDE DEF s
<1>4. \A i \in 1..Len(Said) : Said[i].n # n
  <2>1. New \in Int /\ \A i \in 1..Len(Said) : Said[i].n < New /\ Said[i] \in PartType
    BY NewIsNew
  <2>2. \A i \in 1..Len(Said) : Said[i].n \in Int
    BY <2>1, PartFields
  <2> QED
    BY <2>1, <2>2
<1>5. Sayable(s)
  BY <1>1, <1>2, <1>4 DEF Sayable, Distinct, Identified, Apart
<1> QED
  BY <1>3, <1>5 DEF s

\* A thought or a text that is said next.
LEMMA SayThought ==
  ASSUME Said \in Seq(PartType), NEW n \in Int, New <= n
  PROVE  Sayable(<<Part("thought", n)>>) /\ <<Part("thought", n)>> \in Kinds({"thought"})
<1> DEFINE p == Part("thought", n)
<1>1. p \in PartType /\ p.kind = "thought" /\ p.n = n
  <2>1. "thought" \in PartKinds
    BY DEF PartKinds
  <2> QED
    BY <2>1, PartMade
<1> HIDE DEF p
<1> QED
  BY <1>1, SayOne DEF p

LEMMA SayText ==
  ASSUME Said \in Seq(PartType), NEW n \in Int, New <= n
  PROVE  Sayable(<<Text(n)>>) /\ <<Text(n)>> \in Kinds({"text"})
BY TextMade, SayOne

NewUses(names) == Mapped(LAMBDA i : Use(names[i], New + 1 + i), [i \in DOMAIN names |-> i])
Numbered(us, k) ==
  /\ us \in Seq(PartType) /\ Len(us) = k
  /\ \A i \in 1..k : us[i].kind = "use" /\ us[i].n = New + 1 + i /\ us[i].id[2] = us[i].n

LEMMA NewUsesNumbered ==
  ASSUME Said \in Seq(PartType), Source \in Clients, NEW k \in 0..2, NEW names \in [1..k -> {"f", "g"}]
  PROVE  Numbered(NewUses(names), k)
<1> DEFINE s == [i \in 1..k |-> i]
           f == [i \in 1..k |-> Use(names[i], New + 1 + i)]
           us == NewUses(names)
<1>1. New \in Int
  BY NewIsNew
<1>2. \A i \in 1..k : New + 1 + i \in Int
  BY <1>1
<1>3. \A i \in 1..k : f[i] \in PartType /\ f[i].kind = "use" /\ f[i].n = New + 1 + i /\ f[i].id[2] = New + 1 + i
  BY <1>2, UseMade
<1>4. s \in Seq(1..k) /\ Len(s) = k /\ \A i \in 1..k : s[i] = i
  OBVIOUS
<1>5. f \in [1..k -> PartType]
  BY <1>3
<1>6. us = <<>> \o [i \in DOMAIN s |-> f[s[i]]]
  <2>1. \A i \in DOMAIN s : s[i] \in 1..k /\ f[s[i]] = Use(names[s[i]], New + 1 + s[i])
    OBVIOUS
  <2>2. us = <<>> \o [i \in DOMAIN s |-> Use(names[s[i]], New + 1 + s[i])]
    BY DEF Mapped, NewUses
  <2> HIDE DEF s, f, us
  <2>3. [i \in DOMAIN s |-> Use(names[s[i]], New + 1 + s[i])] = [i \in DOMAIN s |-> f[s[i]]]
    BY <2>1
  <2> QED
    BY <2>2, <2>3
<1> HIDE DEF s, f, us
<1>7. us \in Seq(PartType) /\ Len(us) = k /\ \A i \in 1..k : us[i] = f[i]
  <2>1. us \in Seq(PartType) /\ Len(us) = Len(s) /\ \A i \in 1..Len(s) : us[i] = f[s[i]]
    BY <1>4, <1>5, <1>6, MappedOf
  <2> QED
    BY <1>4, <2>1
<1>8. \A i \in 1..k : us[i].kind = "use" /\ us[i].n = New + 1 + i /\ us[i].id[2] = us[i].n
  BY <1>3, <1>7
<1>9. Numbered(us, k)
  BY <1>7, <1>8 DEF Numbered
<1> QED
  BY <1>9 DEF us

LEMMA SayUses ==
  ASSUME Said \in Seq(PartType), NEW k \in 0..2, NEW us, Numbered(us, k)
  PROVE  us \in Kinds({"use"}) /\ Sayable(us)
<1>1. New \in Int /\ New > 0 /\ \A i \in 1..Len(Said) : Said[i].n < New
  BY NewIsNew
<1>7. us \in Seq(PartType) /\ Len(us) = k
  BY DEF Numbered
<1>8. \A i \in 1..k : us[i].kind = "use" /\ us[i].n = New + 1 + i /\ us[i].id[2] = us[i].n
  BY DEF Numbered
<1>9. us \in Kinds({"use"})
  <2>1. \A i \in 1..Len(us) : us[i] \in OfKind(PartType, {"use"})
    BY <1>7, <1>8 DEF OfKind
  <2> QED
    BY <1>7, <2>1 DEF Kinds
<1>10. Distinct(us)
  <2>1. \A i, j \in 1..k : us[i].n = us[j].n => i = j
    BY <1>1, <1>8
  <2> QED
    BY <1>7, <2>1 DEF Distinct
<1>11. \A i \in 1..k : us[i].n > New
  BY <1>1, <1>8
<1>12. Identified(us)
  <2>1. \A i \in 1..k : us[i].n > 0
    BY <1>1, <1>8
  <2> QED
    BY <1>7, <1>8, <2>1 DEF Identified
<1>13. Apart(Said, us)
  <2>1. \A i \in 1..Len(Said) : Said[i].n \in Int
    BY PartFields
  <2>2. \A i \in 1..Len(Said), j \in 1..k : Said[i].n # us[j].n
    BY <1>1, <1>8, <2>1
  <2> QED
    BY <1>7, <2>2 DEF Apart
<1>14. Sayable(us)
  BY <1>7, <1>8, <1>10, <1>12, <1>13 DEF Sayable
<1> QED
  BY <1>9, <1>14

ClientInv == ConversationInv /\ SaidInv /\ AskedInv

LEMMA ChainedSeqs ==
  ASSUME NEW s \in Seq(PartType), NEW u \in Seq(PartType)
  PROVE  /\ Chained(<<>>, <<>>, s, <<>>) = s /\ Chained(s, <<>>, u, <<>>) = s \o u
         /\ Chained(<<>>, s, u, <<>>) = s \o u
BY DEF Chained

LEMMA UserStep ==
  ASSUME ClientInv, UserSays
  PROVE  ClientInv'
<1> DEFINE ps == <<Text(New)>>
           P == Tagged(ps, Len(turns) + 1)
<1>1. ConversationInv /\ SaidInv /\ turns \in Seq(TurnType) /\ Said \in Seq(PartType) /\ Len(turns) + 1 \in Int
  <2>1. turns \in Seq(TurnType)
    BY DEF ClientInv, ConversationInv
  <2>2. Said \in Seq(PartType)
    BY <2>1, SaidTyped
  <2> QED
    BY <2>1, <2>2 DEF ClientInv
<1>2. asked' = <<>> /\ Turn("user", ps) /\ ("system" \in habits <=> "system" \in habits') /\ System' = System
  <2>1. asked' = <<>> /\ Turn("user", ps) /\ pair' = pair
    BY DEF UserSays, Turn
  <2>2. SameStyle
    BY StyleStays DEF UserSays, Noted
  <2> QED
    BY <2>1, <2>2, SystemKept
<1>3. Sayable(ps) /\ ps \in Kinds({"text"})
  <2>1. New \in Int /\ New <= New
    BY <1>1, NewIsNew
  <2> QED
    BY <1>1, <2>1, SayText
<1>4. ps # <<>>
  OBVIOUS
<1> HIDE DEF ps
<1>5. ps = Chained(<<>>, <<>>, ps, <<>>)
  BY <1>3, KindsParts, ChainedSeqs
<1>6. Formed(Msg("user", P))
  BY <1>1, <1>3, <1>4, <1>5, NoParts, FormedTagged
<1> HIDE DEF P
<1>7. ConversationInv' /\ SaidInv'
  BY <1>1, <1>2, <1>3, <1>6, TurnKeeps DEF P
<1>8. AskedInv'
  <2>1. <<>> \in Seq(PartType) /\ Len(<<>>) = 0 /\ 1..0 = {}
    OBVIOUS
  <2> QED
    BY <1>2, <2>1 DEF AskedInv
<1> QED
  BY <1>7, <1>8 DEF ClientInv

LEMMA ConcatKinds ==
  ASSUME NEW J, NEW K, NEW s \in Kinds(J), NEW u \in Kinds(K)
  PROVE  s \o u \in Kinds(J \cup K)
<1>1. s \in Seq(OfKind(PartType, J \cup K)) /\ u \in Seq(OfKind(PartType, J \cup K))
  <2>1. OfKind(PartType, J) \subseteq OfKind(PartType, J \cup K) /\ OfKind(PartType, K) \subseteq OfKind(PartType, J \cup K)
    BY DEF OfKind
  <2>2. s \in Seq(OfKind(PartType, J)) /\ u \in Seq(OfKind(PartType, K))
    BY DEF Kinds
  <2>3. \A X, Y : X \subseteq Y => \A x \in Seq(X) : x \in Seq(Y)
    OBVIOUS
  <2> QED
    BY <2>1, <2>2, <2>3
<1> DEFINE X == OfKind(PartType, J \cup K)
<1> HIDE DEF X
<1>2. s \in Seq(X) /\ u \in Seq(X)
  BY <1>1 DEF X
<1>3. s \o u \in Seq(X)
  BY <1>2
<1> QED
  BY <1>3 DEF Kinds, X

\* What is told in turn t is said.
LEMMA ToldIsSaid ==
  ASSUME NEW S \in Seq(PartType), NEW ps \in Seq(PartType), NEW t \in Int, NEW U, U = S \o Tagged(ps, t), NEW k, NEW n, NEW id
  PROVE  /\ Holds(S, k, n, id) \/ Holds(ps, k, n, id) => Holds(U, k, n, id)
         /\ Lacks(S, k, n) /\ Lacks(ps, k, n) => Lacks(U, k, n)
<1>1. PICK P : P = Tagged(ps, t) /\ Retold(P, ps, t) /\ P \in Seq(PartType)
  <2>1. Retold(Tagged(ps, t), ps, t)
    BY TaggedOf
  <2> QED
    BY <2>1 DEF Retold
<1>2. U = S \o P
  BY <1>1
<1>3. (Holds(ps, k, n, id) => Holds(P, k, n, id)) /\ (Lacks(ps, k, n) => Lacks(P, k, n))
  BY <1>1, RetoldHolds
<1>4. Holds(S, k, n, id) \/ Holds(P, k, n, id) => Holds(S \o P, k, n, id)
  BY <1>1, ConcatHolds
<1>5. Lacks(S, k, n) /\ Lacks(P, k, n) => Lacks(S \o P, k, n)
  BY <1>1, ConcatLacks
<1> QED
  BY <1>2, <1>3, <1>4, <1>5

LEMMA ToldIsHeld ==
  ASSUME NEW S \in Seq(PartType), NEW ps \in Seq(PartType), NEW t \in Int, NEW U, U = S \o Tagged(ps, t), NEW k, NEW n, NEW id,
         Holds(ps, k, n, id)
  PROVE  Holds(U, k, n, id)
BY ToldIsSaid

LEMMA ModelStep ==
  ASSUME ClientInv, Source \in Clients, NEW thought \in BOOLEAN, NEW text \in BOOLEAN, NEW k \in 0..2,
         NEW names \in [1..k -> {"f", "g"}], ModelAnswers(thought, text, names)
  PROVE  ClientInv'
<1> DEFINE a == IF thought THEN <<Part("thought", New)>> ELSE <<>>
           b == IF text THEN <<Text(New + 1)>> ELSE <<>>
           us == NewUses(names)
           ps == (a \o b) \o us
           t == Len(turns) + 1
           P == Tagged(ps, t)
<1>1. ConversationInv /\ SaidInv /\ turns \in Seq(TurnType) /\ Said \in Seq(PartType) /\ t \in Int
  <2>1. turns \in Seq(TurnType)
    BY DEF ClientInv, ConversationInv
  <2>2. Said \in Seq(PartType)
    BY <2>1, SaidTyped
  <2> QED
    BY <2>1, <2>2 DEF ClientInv
<1>2. /\ asked' = us /\ Turn("model", ps) /\ ("system" \in habits <=> "system" \in habits') /\ System' = System
      /\ turns # <<>> /\ (names # <<>> \/ text)
  <2>1. asked' = us /\ Turn("model", ps) /\ turns # <<>> /\ (names # <<>> \/ text) /\ habits' = habits
    BY DEF ModelAnswers, NewUses
  <2>2. pair' = pair /\ SameStyle
    BY <2>1 DEF Turn, SameStyle
  <2> QED
    BY <2>1, <2>2, SystemKept
<1>3. New \in Int /\ New <= New /\ New + 1 \in Int /\ New <= New + 1
  BY <1>1, NewIsNew
<1>4. Sayable(a) /\ a \in Kinds({"thought"})
  <2>1. CASE thought
    <3>1. Sayable(<<Part("thought", New)>>) /\ <<Part("thought", New)>> \in Kinds({"thought"})
      BY <1>1, <1>3, SayThought
    <3> QED
      BY <2>1, <3>1
  <2>2. CASE ~thought
    BY <2>2, SayNone, NoParts
  <2> QED
    BY <2>1, <2>2
<1>5. Sayable(b) /\ b \in Kinds({"text"})
  <2>1. CASE text
    <3>1. Sayable(<<Text(New + 1)>>) /\ <<Text(New + 1)>> \in Kinds({"text"})
      BY <1>1, <1>3, SayText
    <3> QED
      BY <2>1, <3>1
  <2>2. CASE ~text
    BY <2>2, SayNone, NoParts
  <2> QED
    BY <2>1, <2>2
<1>6. Numbered(us, k)
  BY <1>1, NewUsesNumbered
<1>7. us \in Kinds({"use"}) /\ Sayable(us)
  BY <1>1, <1>6, SayUses
<1>8. b # <<>> \/ us # <<>>
  <2>1. CASE text
    BY <2>1
  <2>2. CASE names # <<>>
    <3>1. k # 0
      BY <2>2
    <3>2. Len(us) = k
      BY <1>6 DEF Numbered
    <3> QED
      BY <3>1, <3>2
  <2> QED
    BY <1>2, <2>1, <2>2
<1> HIDE DEF a, b, us
<1>9. a \o b \in Kinds({"thought"} \cup {"text"}) /\ ps \in Kinds(({"thought"} \cup {"text"}) \cup {"use"})
  BY <1>4, <1>5, <1>7, ConcatKinds
<1>10. Sayable(ps)
  <2>1. Apart(a, b)
    BY <1>4, <1>5, ApartKinds
  <2>2. Sayable(a \o b)
    BY <1>4, <1>5, <2>1, SayMore
  <2>3. Apart(a \o b, us)
    <3>1. ({"thought"} \cup {"text"}) \cap {"use"} = {}
      OBVIOUS
    <3> QED
      BY <1>7, <1>9, <3>1, ApartKinds
  <2> QED
    BY <1>7, <2>2, <2>3, SayMore
<1>11. ps = Chained(a, <<>>, b, us)
  <2>1. a \in Seq(PartType) /\ b \in Seq(PartType) /\ us \in Seq(PartType)
    BY <1>4, <1>5, <1>7, KindsParts
  <2>2. a \o <<>> = a
    BY <2>1
  <2> QED
    BY <2>2 DEF Chained
<1> HIDE DEF ps, t
<1>12. Formed(Msg("model", P))
  BY <1>1, <1>4, <1>5, <1>7, <1>8, <1>11, NoParts, FormedTagged
<1> HIDE DEF P
<1>13. ConversationInv' /\ SaidInv' /\ Said' = Said \o P
  BY <1>1, <1>2, <1>10, <1>12, TurnKeeps DEF P, t
<1>14. ps \in Seq(PartType) /\ us \in Seq(PartType) /\ a \o b \in Seq(PartType) /\ Len(us) = k /\ ps = (a \o b) \o us
  BY <1>6, <1>9, KindsParts DEF Numbered, ps
<1>15. ASSUME NEW i \in 1..k PROVE Waiting(Said', us[i])
  <2>1. us[i].kind = "use" /\ us[i].n = New + 1 + i /\ us[i].id[2] = us[i].n
    BY <1>6 DEF Numbered
  <2>2. us[i].n > 0 /\ us[i].n > New /\ us[i].n \in Int
    <3>1. New > 0
      BY <1>1, NewIsNew
    <3> QED
      BY <1>3, <2>1, <3>1
  <2>3. Holds(us, "use", us[i].n, us[i].id)
    BY <1>14, <2>1 DEF Holds
  <2>4. Holds(ps, "use", us[i].n, us[i].id)
    BY <1>14, <2>3, ConcatHolds
  <2>5. Lacks(ps, "result", us[i].n)
    <3>1. "result" \notin (({"thought"} \cup {"text"}) \cup {"use"})
      OBVIOUS
    <3> QED
      BY <1>9, <3>1, LacksKinds DEF ps
  <2>6. Lacks(Said, "result", us[i].n)
    <3>1. \A j \in 1..Len(Said) : Said[j].n < New
      BY <1>1, NewIsNew
    <3>2. \A j \in 1..Len(Said) : Said[j] \in PartType
      BY <1>1
    <3>3. \A j \in 1..Len(Said) : Said[j].n \in Int
      BY <3>2, PartFields
    <3>4. \A j \in 1..Len(Said) : Said[j].n # us[i].n
      BY <1>3, <2>2, <3>1, <3>3
    <3> QED
      BY <3>4 DEF Lacks
  <2>7. Said' = Said \o Tagged(ps, t)
    BY <1>13 DEF P
  <2>8. Holds(Said', "use", us[i].n, us[i].id)
    BY <1>1, <1>14, <2>4, <2>7, ToldIsHeld
  <2>9. Lacks(Said', "result", us[i].n)
    BY <1>1, <1>14, <2>5, <2>6, <2>7, ToldIsSaid
  <2> QED
    BY <2>1, <2>2, <2>8, <2>9 DEF Waiting
<1>16. AskedInv'
  <2>1. \A i, j \in 1..k : us[i].n = us[j].n => i = j
    BY <1>3, <1>6 DEF Numbered
  <2> QED
    BY <1>2, <1>14, <1>15, <2>1 DEF AskedInv
<1> QED
  BY <1>13, <1>16 DEF ClientInv

Picked(order) == Mapped(LAMBDA i : asked[i], order)
Unanswered(answered) == Where(LAMBDA c : c \notin ToSet(answered), asked)

LEMMA PickedOf ==
  ASSUME asked \in Seq(PartType), NEW k \in 1..Len(asked), NEW order \in [1..k -> DOMAIN asked]
  PROVE  Picked(order) \in Seq(PartType) /\ Len(Picked(order)) = k /\ \A i \in 1..k : Picked(order)[i] = asked[order[i]]
<1> DEFINE Y == 1..Len(asked)
<1>1. order \in Seq(Y) /\ Len(order) = k /\ asked \in [Y -> PartType]
  OBVIOUS
<1>2. Picked(order) = <<>> \o [i \in DOMAIN order |-> asked[order[i]]]
  BY DEF Picked, Mapped
<1> HIDE DEF Y
<1>3. Picked(order) \in Seq(PartType) /\ Len(Picked(order)) = Len(order) /\ \A i \in 1..Len(order) : Picked(order)[i] = asked[order[i]]
  BY <1>1, <1>2, MappedOf
<1> QED
  BY <1>1, <1>3

LEMMA ResultMade ==
  ASSUME Source \in Clients, NEW p \in PartType
  PROVE  /\ ResultOf(p) \in PartType /\ ResultOf(p).kind = "result" /\ ResultOf(p).name = ""
         /\ ResultOf(p).n = p.n /\ ResultOf(p).id = p.id
<1>0. "" \in Words
  BY DEF Words
<1>1. PICK w \in Words : w = ""
  BY <1>0
<1>2. ResultOf(p) = [p EXCEPT !.kind = "result", !.name = w]
  BY <1>1 DEF ResultOf, Clients
<1>3. /\ ResultOf(p) \in PartType /\ ResultOf(p).kind = "result" /\ ResultOf(p).name = w
      /\ ResultOf(p).n = p.n /\ ResultOf(p).id = p.id
  BY <1>2 DEF PartType
<1> QED
  BY <1>1, <1>3

\* rs are the results of the calls an.
Answers(rs, an) ==
  /\ rs \in Seq(PartType) /\ Len(rs) = Len(an)
  /\ \A i \in 1..Len(an) : rs[i].kind = "result" /\ rs[i].name = "" /\ rs[i].n = an[i].n /\ rs[i].id = an[i].id

LEMMA ResultsAnswers ==
  ASSUME Source \in Clients, NEW an \in Seq(PartType)
  PROVE  Answers(Mapped(ResultOf, an), an)
<1> DEFINE f == [p \in PartType |-> ResultOf(p)]
           rs == Mapped(ResultOf, an)
<1>1. \A p \in PartType : /\ f[p] \in PartType /\ f[p].kind = "result" /\ f[p].name = ""
                          /\ f[p].n = p.n /\ f[p].id = p.id /\ f[p] = ResultOf(p)
  BY ResultMade
<1>2. f \in [PartType -> PartType]
  BY <1>1
<1> HIDE DEF f
<1>3. rs = <<>> \o [i \in DOMAIN an |-> f[an[i]]]
  <2>1. \A i \in DOMAIN an : an[i] \in PartType
    OBVIOUS
  <2>2. [i \in DOMAIN an |-> ResultOf(an[i])] = [i \in DOMAIN an |-> f[an[i]]]
    BY <1>1, <2>1
  <2> QED
    BY <2>2 DEF Mapped
<1> HIDE DEF rs
<1>4. rs \in Seq(PartType) /\ Len(rs) = Len(an) /\ \A i \in 1..Len(an) : rs[i] = f[an[i]] /\ an[i] \in PartType
  BY <1>2, <1>3, MappedOf
<1>6. ASSUME NEW i \in 1..Len(an)
      PROVE  rs[i].kind = "result" /\ rs[i].name = "" /\ rs[i].n = an[i].n /\ rs[i].id = an[i].id
  <2>1. rs[i] = f[an[i]] /\ an[i] \in PartType
    BY <1>4
  <2>2. PICK p \in PartType : p = an[i]
    BY <2>1
  <2>3. f[p].kind = "result" /\ f[p].name = "" /\ f[p].n = p.n /\ f[p].id = p.id
    BY <1>1
  <2> QED
    BY <2>1, <2>2, <2>3
<1>5. Answers(rs, an)
  BY <1>4, <1>6 DEF Answers
<1> QED
  BY <1>5 DEF rs

\* Calls that wait, each once.
Chosen(an) ==
  /\ an \in Seq(PartType)
  /\ \A i \in 1..Len(an) : Waiting(Said, an[i])
  /\ \A i, j \in 1..Len(an) : an[i].n = an[j].n => i = j

LEMMA PickedChosen ==
  ASSUME AskedInv, NEW k \in 1..Len(asked), NEW order \in [1..k -> DOMAIN asked], IsInjective(order)
  PROVE  Chosen(Picked(order))
<1> DEFINE an == Picked(order)
<1>1. asked \in Seq(PartType)
  BY DEF AskedInv
<1>2. an \in Seq(PartType) /\ Len(an) = k /\ \A i \in 1..k : an[i] = asked[order[i]]
  BY <1>1, PickedOf
<1> HIDE DEF an
<1>3. \A i \in 1..k : order[i] \in 1..Len(asked)
  BY <1>1
<1>4. \A i \in 1..k : Waiting(Said, an[i])
  BY <1>2, <1>3 DEF AskedInv
<1>5. ASSUME NEW i \in 1..k, NEW j \in 1..k, an[i].n = an[j].n PROVE i = j
  <2>1. order[i] = order[j]
    BY <1>2, <1>3, <1>5 DEF AskedInv
  <2> QED
    BY <2>1 DEF IsInjective
<1>6. Chosen(an)
  BY <1>2, <1>4, <1>5 DEF Chosen
<1> QED
  BY <1>6 DEF an

LEMMA SayResults ==
  ASSUME Said \in Seq(PartType), NEW an, Chosen(an), NEW rs, Answers(rs, an)
  PROVE  rs \in Kinds({"result"}) /\ Sayable(rs)
<1> DEFINE k == Len(an)
<1>1. rs \in Seq(PartType) /\ Len(rs) = k
  BY DEF Answers
<1>2. \A i \in 1..k : rs[i].kind = "result" /\ rs[i].name = "" /\ rs[i].n = an[i].n /\ rs[i].id = an[i].id
  BY DEF Answers
<1>3. \A i \in 1..k : Holds(Said, "use", an[i].n, an[i].id) /\ Lacks(Said, "result", an[i].n)
  BY DEF Chosen, Waiting
<1>4. \A i, j \in 1..k : an[i].n = an[j].n => i = j
  BY DEF Chosen
<1> HIDE DEF k
<1>5. rs \in Kinds({"result"})
  <2>2. \A i \in 1..Len(rs) : rs[i] \in PartType
    BY <1>1
  <2>3. \A i \in 1..Len(rs) : rs[i].kind = "result"
    BY <1>1, <1>2
  <2>0. \A i \in 1..Len(rs) : rs[i] \in PartType /\ rs[i].kind = "result"
    BY <2>2, <2>3
  <2>1. \A i \in 1..Len(rs) : rs[i] \in OfKind(PartType, {"result"})
    BY <2>0 DEF OfKind
  <2> QED
    BY <1>1, <2>1 DEF Kinds
<1>6. Distinct(rs) /\ Identified(rs)
  BY <1>1, <1>2, <1>4 DEF Distinct, Identified
<1>7. Apart(Said, rs)
  <2>1. ASSUME NEW i \in 1..Len(Said), NEW j \in 1..k, Said[i].kind = rs[j].kind, Said[i].n = rs[j].n PROVE FALSE
    BY <1>2, <1>3, <2>1 DEF Lacks
  <2> QED
    BY <1>1, <2>1 DEF Apart
<1>8. \A i \in 1..Len(rs) : rs[i].kind # "system" /\ rs[i].name = "" /\ Holds(Said, "use", rs[i].n, rs[i].id)
  BY <1>1, <1>2, <1>3
<1>9. Sayable(rs)
  BY <1>1, <1>6, <1>7, <1>8 DEF Sayable
<1> QED
  BY <1>5, <1>9

LEMMA UnansweredOf ==
  ASSUME asked \in Seq(PartType), NEW an
  PROVE  Unanswered(an) \in Seq(PartType) /\ \E e : Embedded(Unanswered(an), asked, PartType \ ToSet(an), e)
<1> DEFINE T == PartType \ ToSet(an)
           f == Picks(PartType, T)
<1>1. Maps(f, PartType, PartType) /\ \A x \in PartType : f[x] = IF x \in T THEN <<x>> ELSE <<>>
  BY PicksMap
<1>2. \A i \in DOMAIN asked : asked[i] \in PartType /\ (asked[i] \in T <=> asked[i] \notin ToSet(an))
  OBVIOUS
<1> HIDE DEF T, f
<1>3. [i \in DOMAIN asked |-> IF asked[i] \notin ToSet(an) THEN <<asked[i]>> ELSE <<>>] = [i \in DOMAIN asked |-> f[asked[i]]]
  BY <1>1, <1>2
<1>4. Unanswered(an) = Through(f, asked)
  BY <1>3 DEF Unanswered, Where, Each, Mapped, Through
<1>5. \E e : Embedded(Through(f, asked), asked, T, e)
  BY PickedEmbedded DEF f
<1>6. Through(f, asked) \in Seq(PartType)
  BY <1>1, ThroughTyped
<1> QED
  BY <1>4, <1>5, <1>6 DEF T

LEMMA ToolsStep ==
  ASSUME ClientInv, Source \in Clients, NEW k \in 1..Len(asked), NEW text \in BOOLEAN,
         NEW order \in [1..k -> DOMAIN asked], IsInjective(order), ToolsAnswer(Picked(order), text)
  PROVE  ClientInv'
<1> DEFINE an == Picked(order)
           rs == Mapped(ResultOf, an)
           b == IF text THEN <<Text(New)>> ELSE <<>>
           ps == rs \o b
           t == Len(turns) + 1
           P == Tagged(ps, t)
<1>1. ConversationInv /\ SaidInv /\ turns \in Seq(TurnType) /\ Said \in Seq(PartType) /\ t \in Int /\ AskedInv
  <2>1. turns \in Seq(TurnType)
    BY DEF ClientInv, ConversationInv
  <2>2. Said \in Seq(PartType)
    BY <2>1, SaidTyped
  <2> QED
    BY <2>1, <2>2 DEF ClientInv
<1>2. /\ asked' = Unanswered(an) /\ Turn("tools", ps) /\ ("system" \in habits <=> "system" \in habits')
      /\ System' = System /\ an # <<>>
  <2>1. asked' = Unanswered(an) /\ Turn("tools", ps) /\ an # <<>> /\ pair' = pair
    BY DEF ToolsAnswer, Unanswered, Turn
  <2>2. PICK hs : hs \subseteq Noted /\ Noting(hs)
    BY DEF ToolsAnswer, Noted
  <2>3. SameStyle
    BY <2>2, StyleStays
  <2> QED
    BY <2>1, <2>3, SystemKept
<1>3. New \in Int /\ New <= New
  BY <1>1, NewIsNew
<1>4. Chosen(an)
  BY <1>1, PickedChosen
<1>0. an \in Seq(PartType)
  BY <1>4 DEF Chosen
<1>A. Len(an) = k /\ \A i \in 1..k : an[i] = asked[order[i]] /\ order[i] \in 1..Len(asked) /\ an[i] \in ToSet(an)
  <2>1. asked \in Seq(PartType)
    BY <1>1 DEF AskedInv
  <2>2. Len(an) = k /\ \A i \in 1..k : an[i] = asked[order[i]]
    BY <2>1, PickedOf
  <2>3. \A i \in 1..k : order[i] \in 1..Len(asked)
    BY <2>1
  <2> HIDE DEF an
  <2>4. \A i \in 1..k : an[i] \in ToSet(an)
    BY <1>0, <2>2 DEF ToSet
  <2> QED
    BY <2>2, <2>3, <2>4
<1> HIDE DEF an
<1>5. Answers(rs, an)
  BY <1>0, ResultsAnswers
<1> HIDE DEF rs
<1>6. rs \in Kinds({"result"}) /\ Sayable(rs)
  BY <1>1, <1>4, <1>5, SayResults
<1>7. Sayable(b) /\ b \in Kinds({"text"})
  <2>1. CASE text
    <3>1. Sayable(<<Text(New)>>) /\ <<Text(New)>> \in Kinds({"text"})
      BY <1>1, <1>3, SayText
    <3> QED
      BY <2>1, <3>1
  <2>2. CASE ~text
    BY <2>2, SayNone, NoParts
  <2> QED
    BY <2>1, <2>2
<1> HIDE DEF b
<1>8. Sayable(ps)
  <2>1. Apart(rs, b)
    BY <1>6, <1>7, ApartKinds
  <2> QED
    BY <1>6, <1>7, <2>1, SayMore
<1>9. ps = Chained(<<>>, rs, b, <<>>) /\ rs \in Seq(PartType) /\ b \in Seq(PartType)
  <2>1. rs \in Seq(PartType) /\ b \in Seq(PartType)
    BY <1>6, <1>7, KindsParts
  <2> QED
    BY <2>1, ChainedSeqs
<1>10. rs # <<>>
  <2>0. Len(an) # 0
    BY <1>0, <1>2
  <2>1. Len(rs) = Len(an) /\ Len(an) # 0
    BY <1>5, <2>0 DEF Answers
  <2> QED
    BY <2>1
<1>11. turns # <<>>
  <2>1. 1 \in 1..Len(an)
    BY <1>0, <1>2
  <2>2. Holds(Said, "use", an[1].n, an[1].id)
    BY <1>4, <2>1 DEF Chosen, Waiting
  <2>3. Said # <<>>
    BY <2>2 DEF Holds
  <2> QED
    BY <2>3, FlatNone DEF Said
<1> HIDE DEF ps, t
<1>12. Formed(Msg("tools", P))
  BY <1>1, <1>6, <1>7, <1>9, <1>10, NoParts, FormedTagged
<1> HIDE DEF P
<1>13. ConversationInv' /\ SaidInv' /\ Said' = Said \o P
  BY <1>1, <1>2, <1>8, <1>11, <1>12, TurnKeeps DEF P, t
<1>14. ps \in Seq(PartType) /\ ps = rs \o b
  <2>1. rs \o b \in Seq(PartType)
    BY <1>9
  <2> QED
    BY <2>1 DEF ps
<1> DEFINE rest == Unanswered(an)
<1>15. rest \in Seq(PartType) /\ \E e : Embedded(rest, asked, PartType \ ToSet(an), e)
  BY <1>1, UnansweredOf DEF AskedInv
<1> HIDE DEF rest
<1>16. PICK e : Embedded(rest, asked, PartType \ ToSet(an), e)
  BY <1>15
<1>17. \A i \in 1..Len(rest) : e[i] \in 1..Len(asked) /\ rest[i] = asked[e[i]] /\ rest[i] \notin ToSet(an)
  BY <1>16 DEF Embedded
<1>18. \A i, j \in 1..Len(rest) : i < j => e[i] < e[j]
  BY <1>16 DEF Embedded
<1>19. Said' = Said \o Tagged(ps, t)
  BY <1>13 DEF P
<1>20. ASSUME NEW i \in 1..Len(rest) PROVE Waiting(Said', rest[i])
  <2>1. PICK c : c = rest[i] /\ Waiting(Said, c)
    BY <1>1, <1>17 DEF AskedInv
  <2>2. Lacks(rs, "result", c.n)
    <3>1. SUFFICES ASSUME NEW j \in 1..Len(rs), rs[j].n = c.n PROVE FALSE
      BY DEF Lacks
    <3>2. j \in 1..k /\ rs[j].n = an[j].n
      BY <1>A, <1>5 DEF Answers
    <3>3. asked[order[j]].n = asked[e[i]].n /\ order[j] \in 1..Len(asked) /\ e[i] \in 1..Len(asked)
      BY <1>A, <1>17, <2>1, <3>1, <3>2
    <3>4. order[j] = e[i]
      BY <1>1, <3>3 DEF AskedInv
    <3>5. an[j] = rest[i]
      BY <1>A, <1>17, <3>2, <3>4
    <3> QED
      BY <1>A, <1>17, <3>2, <3>5
  <2>3. Lacks(b, "result", c.n)
    <3>1. "result" \notin {"text"}
      OBVIOUS
    <3> QED
      BY <1>7, <3>1, LacksKinds
  <2>4. Lacks(ps, "result", c.n)
    BY <1>9, <1>14, <2>2, <2>3, ConcatLacks
  <2>5. Holds(Said, "use", c.n, c.id) /\ Lacks(Said, "result", c.n) /\ c.kind = "use" /\ c.n > 0 /\ c.id[2] = c.n
    BY <2>1 DEF Waiting
  <2>6. Holds(Said', "use", c.n, c.id)
    BY <1>1, <1>14, <1>19, <2>5, ToldIsSaid
  <2>7. Lacks(Said', "result", c.n)
    BY <1>1, <1>14, <1>19, <2>4, <2>5, ToldIsSaid
  <2> QED
    BY <2>1, <2>5, <2>6, <2>7 DEF Waiting
<1>21. ASSUME NEW i \in 1..Len(rest), NEW j \in 1..Len(rest), rest[i].n = rest[j].n PROVE i = j
  <2>1. e[i] = e[j]
    <3>1. asked[e[i]].n = asked[e[j]].n /\ e[i] \in 1..Len(asked) /\ e[j] \in 1..Len(asked)
      BY <1>17, <1>21
    <3> QED
      BY <1>1, <3>1 DEF AskedInv
  <2>2. ~(i < j) /\ ~(j < i)
    <3>1. e[i] \in Int /\ e[j] \in Int
      BY <1>17
    <3> QED
      BY <1>18, <2>1, <3>1
  <2> QED
    BY <2>2
<1>22. AskedInv'
  <2>1. asked' = rest
    BY <1>2 DEF rest
  <2> QED
    BY <1>15, <1>20, <1>21, <2>1 DEF AskedInv
<1> QED
  BY <1>13, <1>22 DEF ClientInv

LEMMA InitTalks == Init => ClientInv
<1> SUFFICES ASSUME Init PROVE ClientInv
  OBVIOUS
<1>1. turns = <<>> /\ asked = <<>> /\ Said = <<>>
  BY FlatNone DEF Init, Said
<1>2. ConversationInv
  <2>1. <<>> \in Seq(TurnType) /\ 1..Len(<<>>) = {}
    OBVIOUS
  <2> QED
    BY <1>1, <2>1 DEF ConversationInv
<1>3. AskedInv
  <2>1. <<>> \in Seq(PartType) /\ 1..Len(<<>>) = {}
    OBVIOUS
  <2> QED
    BY <1>1, <2>1 DEF AskedInv
<1>4. /\ Asked \in Seq(PartType) /\ \A i \in 1..Len(Asked) : i = 1 /\ Asked[i] = System
  <2>1. CASE "system" \in habits
    <3>1. Asked = <<System>> \o <<>>
      BY <1>1, <2>1 DEF Asked
    <3>2. <<System>> \in Seq(PartType) /\ <<System>> \o <<>> = <<System>> /\ \A i \in 1..Len(<<System>>) : i = 1 /\ <<System>>[i] = System
      BY SystemPart
    <3> QED
      BY <3>1, <3>2
  <2>2. CASE "system" \notin habits
    <3>1. Asked = <<>> \o <<>>
      BY <1>1, <2>2 DEF Asked
    <3>2. <<>> \o <<>> = <<>> /\ <<>> \in Seq(PartType) /\ 1..Len(<<>>) = {}
      OBVIOUS
    <3> QED
      BY <3>1, <3>2
  <2> QED
    BY <2>1, <2>2
<1>5. Talk(Asked)
  <2>1. \A i, j \in 1..Len(Asked) : i = j
    BY <1>4
  <2>2. \A i \in 1..Len(Asked) : Asked[i].kind = "system"
    BY <1>4, SystemPart
  <2>3. InOrder(Asked)
    <3>1. \A i, j \in 1..Len(Asked) : ~(i < j)
      BY <2>1
    <3> QED
      BY <3>1 DEF InOrder
  <2> QED
    BY <1>4, <2>1, <2>2, <2>3 DEF Talk, Distinct, Identified, Answering
<1>6. \A i \in 1..Len(Asked) : Asked[i].turn <= Len(turns)
  BY <1>1, <1>4, SystemPart
<1> QED
  BY <1>2, <1>3, <1>5, <1>6 DEF ClientInv, SaidInv

LEMMA NextTalks ==
  ASSUME Source \in Clients, ClientInv, [Next]_vars
  PROVE  ClientInv'
<1>1. CASE UserSays
  BY <1>1, UserStep
<1>2. ASSUME NEW thought \in BOOLEAN, NEW text \in BOOLEAN, NEW k \in 0..2, NEW names \in [1..k -> {"f", "g"}],
             ModelAnswers(thought, text, names)
      PROVE  ClientInv'
  BY <1>2, ModelStep
<1>3. ASSUME NEW k \in 1..Len(asked), NEW text \in BOOLEAN, NEW order \in [1..k -> DOMAIN asked], IsInjective(order),
             ToolsAnswer(Picked(order), text)
      PROVE  ClientInv'
  BY <1>3, ToolsStep
<1>4. CASE UNCHANGED vars
  <2>1. pair' = pair /\ habits' = habits /\ turns' = turns /\ asked' = asked
    BY <1>4 DEF vars
  <2>2. System' = System
    BY <2>1, SystemKept DEF SameStyle
  <2>3. Asked' = Asked /\ Said' = Said
    BY <2>1, <2>2 DEF Asked, Said
  <2> QED
    BY <2>1, <2>3 DEF ClientInv, ConversationInv, SaidInv, AskedInv
<1> QED
  BY <1>1, <1>2, <1>3, <1>4 DEF Next, Picked

\* The conversation of a client whose calls have ids: parts come once and turn after turn,
\* a result after its call, and the calls that wait are those without one.
THEOREM ClientsTalk == Spec => [](Source \in Clients => ClientInv)
<1>1. Init => (Source \in Clients => ClientInv)
  BY InitTalks
<1>2. (Source \in Clients => ClientInv) /\ [Next]_vars => (Source \in Clients => ClientInv)'
  <2> SUFFICES ASSUME Source \in Clients => ClientInv, [Next]_vars, Source' \in Clients PROVE ClientInv'
    BY DEF Clients
  <2>1. pair' = pair
    BY DEF Next, UserSays, ModelAnswers, ToolsAnswer, Turn, vars
  <2> QED
    BY <2>1, NextTalks DEF Source
<1> QED
  BY <1>1, <1>2, PTL DEF Spec

-----------------------------------------------------------------------------
(* What a translation must be to keep the conversation. *)

Heard == {"system", "thought", "text", "use", "result"}
Spoken == {"system", "text", "use", "result"}
Exchanged == {"use", "result"}
SystemRoles == {"system", "instructions", "developer", "systemInstruction"}
SentRoles == SystemRoles \cup {"user", "input", "model", "tool", "item"}
Fitting ==
  {m \in [role : SentRoles, parts : Seq(PartType)] :
     /\ m.parts # <<>>
     /\ \A i \in 1..Len(m.parts) : m.parts[i].kind \in {"own", "blank"} \/ m.role \in RolesOf(m.parts[i])}

\* What is due is in order in what was asked.
LEMMA DueEmbedded ==
  ASSUME Asked \in Seq(PartType), Target # "antigravity"
  PROVE  Due = Of(Asked, Spoken) /\ Due \in Seq(PartType) /\ \E e : Embedded(Due, Asked, OfKind(PartType, Spoken), e)
<1>1. Wanted = Spoken
  BY DEF Wanted, Spoken
<1>2. Due = Of(Asked, Spoken)
  BY <1>1 DEF Due
<1> QED
  BY <1>2, OfTyped, OfEmbedded

\* A part p that was asked, and where.
LEMMA EmbeddedTalks ==
  ASSUME NEW S, Talk(S), NEW o, o \in Seq(PartType), NEW T, NEW e, Embedded(o, S, T, e)
  PROVE  Distinct(o) /\ InOrder(o)
<1>1. S \in Seq(PartType) /\ Distinct(S) /\ InOrder(S)
  BY DEF Talk
<1>2. \A i \in 1..Len(o) : e[i] \in 1..Len(S) /\ o[i] = S[e[i]]
  BY DEF Embedded
<1>3. \A i, j \in 1..Len(o) : i < j => e[i] < e[j]
  BY DEF Embedded
<1>4. ASSUME NEW i \in 1..Len(o), NEW j \in 1..Len(o), o[i].kind = o[j].kind, o[i].n = o[j].n PROVE i = j
  <2>0. S[e[i]].kind = S[e[j]].kind /\ S[e[i]].n = S[e[j]].n /\ e[i] \in 1..Len(S) /\ e[j] \in 1..Len(S)
    BY <1>2, <1>4
  <2>1. e[i] = e[j]
    BY <1>1, <2>0 DEF Distinct
  <2>2. ~(i < j) /\ ~(j < i)
    <3>1. e[i] \in Int /\ e[j] \in Int
      BY <1>1, <1>2
    <3> QED
      BY <1>3, <2>1, <3>1
  <2> QED
    BY <2>2
<1>5. ASSUME NEW i \in 1..Len(o), NEW j \in 1..Len(o), i < j PROVE o[i].turn <= o[j].turn
  <2>1. e[i] < e[j]
    BY <1>3, <1>5
  <2> QED
    BY <1>1, <1>2, <2>1 DEF InOrder
<1> QED
  BY <1>4, <1>5 DEF Distinct, InOrder

LEMMA PlacesOne ==
  ASSUME NEW o, Distinct(o), NEW i \in 1..Len(o), o \in Seq(PartType)
  PROVE  Places(o[i], o) = {i}
<1>1. DOMAIN o = 1..Len(o)
  OBVIOUS
<1> QED
  BY <1>1 DEF Places, Distinct

LEMMA NameOfUse ==
  ASSUME Talk(Asked), Said \in Seq(PartType), NEW k \in 1..Len(Said), Said[k].kind = "use"
  PROVE  NameOf(Said[k].n) = Said[k].name
<1> DEFINE P(i) == Said[i].kind = "use" /\ Said[i].n = Said[k].n
           c == CHOOSE i \in DOMAIN Said : P(i)
<1>1. k \in DOMAIN Said /\ P(k)
  OBVIOUS
<1>2. c \in DOMAIN Said /\ P(c)
  BY <1>1
<1>3. NameOf(Said[k].n) = Said[c].name
  BY DEF NameOf
<1> HIDE DEF c
<1>4. PICK i \in 1..Len(Asked), j \in 1..Len(Asked) : Asked[i] = Said[k] /\ Asked[j] = Said[c]
  <2>1. c \in 1..Len(Said)
    BY <1>2
  <2> QED
    BY <2>1, AskedPlaces
<1>5. i = j
  <2>1. Asked[i].kind = Asked[j].kind /\ Asked[i].n = Asked[j].n
    BY <1>2, <1>4
  <2> QED
    BY <2>1 DEF Talk, Distinct
<1> QED
  BY <1>3, <1>4, <1>5

LEMMA NoDeviations ==
  ASSUME ClientInv, Target # "antigravity", NEW ms \in Seq(Fitting), Given(ms) = Due
  PROVE  Deviations(ms) = {}
<1> DEFINE g == Given(ms)
<1>1. Talk(Asked) /\ Said \in Seq(PartType) /\ Asked \in Seq(PartType)
  BY SaidTyped DEF ClientInv, ConversationInv, SaidInv, Talk
<1>2. g = Due /\ g \in Seq(PartType)
  BY <1>1, DueEmbedded
<1>3. PICK e : Embedded(g, Asked, OfKind(PartType, Spoken), e)
  BY <1>1, <1>2, DueEmbedded
<1> HIDE DEF g
<1>4. Distinct(g) /\ InOrder(g)
  BY <1>1, <1>2, <1>3, EmbeddedTalks
<1>5. \A i \in 1..Len(g) : e[i] \in 1..Len(Asked) /\ g[i] = Asked[e[i]]
  BY <1>3 DEF Embedded
<1>6. \A p \in ToSet(g) : \E i \in 1..Len(g) : p = g[i]
  BY <1>2 DEF ToSet
<1>7. \A i \in 1..Len(g) : Places(g[i], g) = {i}
  BY <1>2, <1>4, PlacesOne
<1>8. Lost(g) = {}
  <2>1. ASSUME NEW p \in ToSet(g) PROVE Places(p, g) # {}
    <3>1. PICK i \in 1..Len(g) : p = g[i]
      BY <1>6
    <3> QED
      BY <1>7, <3>1
  <2> QED
    BY <1>2, <2>1 DEF Lost
<1>9. Again(g) = {}
  <2>1. ASSUME NEW p \in ToSet(g) PROVE ~(Cardinality(Places(p, g)) > 1)
    <3>1. PICK i \in 1..Len(g) : p = g[i]
      BY <1>6
    <3>2. Cardinality(Places(p, g)) = 1
      BY <1>7, <3>1, FS_Singleton
    <3> QED
      BY <3>2
  <2> QED
    BY <2>1 DEF Again
<1>10. Invented(g) = {}
  <2>1. ASSUME NEW p \in ToSet(g) PROVE Places(p, Asked) # {}
    <3>1. PICK i \in 1..Len(g) : p = g[i]
      BY <1>6
    <3>2. e[i] \in DOMAIN Asked /\ p = Asked[e[i]]
      BY <1>1, <1>5, <3>1
    <3> QED
      BY <3>2 DEF Places
  <2> QED
    BY <2>1 DEF Invented
<1>11. Moved(g) = {}
  <2>1. ASSUME NEW i \in DOMAIN g, NEW j \in 1..(i - 1) PROVE ~(g[j].turn > g[i].turn)
    <3>1. i \in 1..Len(g) /\ j \in 1..Len(g) /\ j < i
      BY <1>2
    <3>2. g[j].turn <= g[i].turn
      BY <1>4, <3>1 DEF InOrder
    <3>3. g[i] \in PartType /\ g[j] \in PartType
      BY <1>2, <3>1
    <3>4. g[i].turn \in Int /\ g[j].turn \in Int
      BY <3>3, PartFields
    <3> QED
      BY <3>2, <3>4
  <2> QED
    BY <2>1 DEF Moved
<1>12. Misplaced(ms) = {}
  <2>1. ASSUME NEW i \in DOMAIN ms, NEW j \in DOMAIN ms[i].parts
        PROVE  ms[i].parts[j].kind \in {"own", "blank"} \/ ms[i].role \in RolesOf(ms[i].parts[j])
    <3>1. ms[i] \in Fitting
      OBVIOUS
    <3>2. ms[i].parts \in Seq(PartType)
      BY <3>1 DEF Fitting
    <3>3. j \in 1..Len(ms[i].parts)
      BY <3>2
    <3> QED
      BY <3>1, <3>3 DEF Fitting
  <2> DEFINE placed == UNION {{<<ms[i].role, ms[i].parts[j]>> : j \in DOMAIN ms[i].parts} : i \in DOMAIN ms}
  <2>2. ASSUME NEW f \in placed PROVE ~(f[2].kind \notin {"own", "blank", "raw"} /\ f[1] \notin RolesOf(f[2]))
    <3>1. PICK i \in DOMAIN ms : f \in {<<ms[i].role, ms[i].parts[j]>> : j \in DOMAIN ms[i].parts}
      OBVIOUS
    <3>2. PICK j \in DOMAIN ms[i].parts : f = <<ms[i].role, ms[i].parts[j]>>
      BY <3>1
    <3>3. f[1] = ms[i].role /\ f[2] = ms[i].parts[j]
      BY <3>2
    <3> QED
      BY <2>1, <3>3
  <2>3. Misplaced(ms) = {<<"role", f[2].kind>> : f \in {f \in placed : f[2].kind \notin {"own", "blank", "raw"} /\ f[1] \notin RolesOf(f[2])}}
    BY DEF Misplaced
  <2> HIDE DEF placed
  <2> QED
    BY <2>2, <2>3
<1>13. Empty(ms) = {}
  <2>1. \A i \in DOMAIN ms : ms[i].parts # <<>>
    BY DEF Fitting
  <2> QED
    BY <2>1 DEF Empty
<1>14. ASSUME NEW p \in ToSet(g), p.kind = "use" PROVE NameOf(p.n) = p.name
  <2>1. PICK i \in 1..Len(g) : p = g[i]
    BY <1>6
  <2>2. p = Asked[e[i]] /\ e[i] \in 1..Len(Asked)
    BY <1>5, <2>1
  <2>3. p # System
    BY <1>14, SystemPart
  <2>4. PICK k \in 1..Len(Said) : p = Said[k]
    BY <1>1, <2>2, <2>3, AskedPlaces
  <2> QED
    BY <1>1, <1>14, <2>4, NameOfUse
<1>15. Merged(g) = {}
  BY <1>14 DEF Merged
<1>16. ASSUME NEW p \in ToSet(g), p.kind = "result" PROVE p.name = ""
  <2>1. PICK i \in 1..Len(g) : p = g[i]
    BY <1>6
  <2>2. p = Asked[e[i]] /\ e[i] \in 1..Len(Asked)
    BY <1>5, <2>1
  <2> QED
    BY <1>1, <1>16, <2>2 DEF Talk, Answering
<1>17. Misnamed(g) = {}
  BY <1>16 DEF Misnamed
<1> QED
  BY <1>8, <1>9, <1>10, <1>11, <1>12, <1>13, <1>15, <1>17 DEF Deviations, g

\* Every result follows its call, which no other call can be taken for.
ResultsFound(ps) ==
  \A i \in DOMAIN ps : ps[i].kind = "use" \/ \E j \in 1..(i - 1) : CallsFor(ps, i) = {j} /\ ps[j].n = ps[i].n

LEMMA ExchangedFound ==
  ASSUME Talk(Asked)
  PROVE  ResultsFound(Of(Asked, Exchanged))
<1> DEFINE ps == Of(Asked, Exchanged)
           T == OfKind(PartType, Exchanged)
<1>1. /\ Asked \in Seq(PartType) /\ Distinct(Asked) /\ Identified(Asked) /\ Answering(Asked)
  BY DEF Talk
<1>2. ps \in Seq(PartType) /\ \E e : Embedded(ps, Asked, T, e)
  BY <1>1, OfTyped, OfEmbedded
<1> HIDE DEF ps
<1>3. PICK e : Embedded(ps, Asked, T, e)
  BY <1>2
<1>4. \A i \in 1..Len(ps) : e[i] \in 1..Len(Asked) /\ ps[i] = Asked[e[i]] /\ ps[i].kind \in Exchanged
  BY <1>3 DEF Embedded, OfKind
<1>5. \A i, j \in 1..Len(ps) : i < j => e[i] < e[j]
  BY <1>3 DEF Embedded
<1>6. \A k \in 1..Len(Asked) : Asked[k].kind \in Exchanged => \E i \in 1..Len(ps) : e[i] = k
  <2>1. \A k \in 1..Len(Asked) : Asked[k] \in PartType
    BY <1>1
  <2> QED
    BY <1>3, <2>1 DEF Embedded, OfKind
<1>7. Distinct(ps)
  BY <1>2, <1>3, EmbeddedTalks
<1>8. Identified(ps)
  BY <1>1, <1>4 DEF Identified
<1>9. ASSUME NEW i \in 1..Len(ps), ps[i].kind = "result"
      PROVE  \E j \in 1..(i - 1) : CallsFor(ps, i) = {j} /\ ps[j].n = ps[i].n
  <2>1. Follows(Asked, e[i])
    BY <1>1, <1>4, <1>9 DEF Answering
  <2>2. PICK k \in 1..Len(Asked) : k < e[i] /\ Asked[k].kind = "use" /\ Asked[k].n = ps[i].n /\ Asked[k].id = ps[i].id
    BY <1>4, <2>1 DEF Follows
  <2>3. PICK j \in 1..Len(ps) : e[j] = k
    BY <1>6, <2>2 DEF Exchanged
  <2>4. ps[j].kind = "use" /\ ps[j].n = ps[i].n /\ ps[j].id = ps[i].id
    BY <1>4, <2>2, <2>3
  <2>5. j < i
    <3>1. e[i] \in Int /\ e[j] \in Int /\ e[j] < e[i]
      BY <1>4, <2>2, <2>3
    <3>2. ~(i < j) /\ i # j
      BY <1>5, <3>1
    <3> QED
      BY <3>2
  <2>6. j \in 1..(i - 1)
    BY <2>5
  <2>7. ps[i].id[2] = ps[i].n /\ ps[i].n > 0
    BY <1>8, <2>4 DEF Identified
  <2>8. ps[i].id # NoId
    <3>1. NoId[2] = 0
      BY DEF NoId
    <3> QED
      BY <2>7, <3>1
  <2>9. ASSUME NEW l \in 1..(i - 1), ps[l].kind = "use", ps[l].id = ps[i].id PROVE l = j
    <3>1. l \in 1..Len(ps)
      OBVIOUS
    <3>2. ps[l].n = ps[j].n /\ ps[l].kind = ps[j].kind
      BY <1>8, <2>4, <2>7, <2>9, <3>1 DEF Identified
    <3> QED
      BY <1>7, <3>1, <3>2 DEF Distinct
  <2>10. CallsFor(ps, i) = {l \in {l \in 1..(i - 1) : ps[l].kind = "use"} : ps[l].id = ps[i].id}
    BY <2>8 DEF CallsFor
  <2>11. CallsFor(ps, i) = {j}
    BY <2>4, <2>6, <2>9, <2>10
  <2> QED
    BY <2>4, <2>6, <2>11
<1>10. ResultsFound(ps)
  <2>1. \A i \in DOMAIN ps : i \in 1..Len(ps)
    BY <1>2
  <2>2. \A i \in 1..Len(ps) : ps[i].kind = "use" \/ ps[i].kind = "result"
    BY <1>4 DEF Exchanged
  <2> QED
    BY <1>9, <2>1, <2>2 DEF ResultsFound
<1> QED
  BY <1>10 DEF ps

LEMMA FlatFitting == ASSUME NEW ms \in Seq(Fitting) PROVE Flat(ms) \in Seq(PartType)
<1>1. \A m \in Fitting : m.parts \in Seq(PartType)
  BY DEF Fitting
<1> QED
  BY <1>1, FlatTyped

LEMMA GivenExchanged ==
  ASSUME Asked \in Seq(PartType), Target # "antigravity", NEW ms \in Seq(Fitting), Given(ms) = Due
  PROVE  Of(Flat(ms), {"use", "result"}) = Of(Asked, Exchanged)
<1>1. Of(Flat(ms), Heard) = Of(Asked, Spoken)
  BY DueEmbedded DEF Given, Heard
<1>2. PICK ps \in Seq(PartType) : ps = Flat(ms)
  BY FlatFitting
<1>3. Of(Of(ps, Heard), Exchanged) = Of(ps, Heard \cap Exchanged)
  BY OfOf
<1>4. Of(Of(Asked, Spoken), Exchanged) = Of(Asked, Spoken \cap Exchanged)
  BY OfOf
<1>5. Heard \cap Exchanged = Exchanged /\ Spoken \cap Exchanged = Exchanged
  BY DEF Heard, Spoken, Exchanged
<1>6. Of(Flat(ms), Exchanged) = Of(Asked, Exchanged)
  BY <1>1, <1>2, <1>3, <1>4, <1>5
<1> QED
  BY <1>6 DEF Exchanged

-----------------------------------------------------------------------------
(* What messages carry. *)

Bodies == [role : SentRoles, parts : Seq(PartType)]
Voiced(role) == {p \in PartType : p.kind \in Heard /\ role \in RolesOf(p)}
Carries(ms, ps) == ms \in Seq(Fitting) /\ Of(Flat(ms), Heard) = ps

LEMMA FittingParts == \A m \in Fitting : m.parts \in Seq(PartType)
BY DEF Fitting

LEMMA VoicedHeard ==
  ASSUME NEW role, NEW ps \in Seq(Voiced(role))
  PROVE  ps \in Seq(PartType) /\ Of(ps, Heard) = ps /\ \A i \in 1..Len(ps) : role \in RolesOf(ps[i])
<1> DEFINE X == Voiced(role)
<1>1. \A x \in X : x \in PartType /\ x.kind \in Heard /\ role \in RolesOf(x)
  BY DEF Voiced
<1> HIDE DEF X
<1>2. ps \in Seq(X)
  BY DEF X
<1>3. Of(ps, Heard) = ps
  BY <1>1, <1>2, OfAll
<1>4. ps \in Seq(PartType) /\ \A i \in 1..Len(ps) : ps[i] \in X
  BY <1>1, <1>2
<1> QED
  BY <1>1, <1>3, <1>4

LEMMA CarriesNothing == Carries(<<>>, <<>>)
<1>1. <<>> \in Seq(Fitting)
  OBVIOUS
<1> QED
  BY <1>1, FlatNone, OfEmpty DEF Carries

LEMMA CarriesConcat ==
  ASSUME NEW ms, NEW ps, Carries(ms, ps), NEW ns, NEW qs, Carries(ns, qs)
  PROVE  Carries(ms \o ns, ps \o qs)
<1>1. ms \in Seq(Fitting) /\ ns \in Seq(Fitting) /\ Of(Flat(ms), Heard) = ps /\ Of(Flat(ns), Heard) = qs
  BY DEF Carries
<1>2. PICK s \in Seq(PartType) : s = Flat(ms)
  BY <1>1, FlatFitting
<1>3. PICK t \in Seq(PartType) : t = Flat(ns)
  BY <1>1, FlatFitting
<1>4. Flat(ms \o ns) = s \o t
  BY <1>1, <1>2, <1>3, FlatConcat, FittingParts
<1>5. Of(s \o t, Heard) = Of(s, Heard) \o Of(t, Heard)
  BY OfConcat
<1>6. ms \o ns \in Seq(Fitting)
  BY <1>1
<1> QED
  BY <1>1, <1>2, <1>3, <1>4, <1>5, <1>6 DEF Carries

LEMMA MsgFits ==
  ASSUME NEW role \in SentRoles, NEW ps \in Seq(Voiced(role)), ps # <<>>
  PROVE  Msg(role, ps) \in Fitting /\ Msg(role, ps).parts = ps
<1>1. ps \in Seq(PartType) /\ \A i \in 1..Len(ps) : role \in RolesOf(ps[i])
  BY VoicedHeard
<1>2. PICK m : m = Msg(role, ps)
  OBVIOUS
<1>3. m \in [role : SentRoles, parts : Seq(PartType)] /\ m.role = role /\ m.parts = ps
  BY <1>1, <1>2 DEF Msg
<1>4. m \in Fitting
  BY <1>1, <1>3 DEF Fitting
<1> QED
  BY <1>2, <1>3, <1>4

LEMMA CarriesOne ==
  ASSUME NEW role \in SentRoles, NEW ps \in Seq(Voiced(role)), ps # <<>>
  PROVE  Carries(<<Msg(role, ps)>>, ps)
<1>1. PICK m \in Fitting : m = Msg(role, ps) /\ m.parts = ps
  BY MsgFits
<1>2. Flat(<<m>>) = ps
  BY <1>1, FlatOne, FittingParts
<1>3. Of(ps, Heard) = ps
  BY VoicedHeard
<1>4. <<m>> \in Seq(Fitting)
  OBVIOUS
<1> QED
  BY <1>1, <1>2, <1>3, <1>4 DEF Carries

LEMMA CarriesIfAny ==
  ASSUME NEW role \in SentRoles, NEW ps \in Seq(Voiced(role))
  PROVE  Carries(IfAny(role, ps), ps)
BY CarriesOne, CarriesNothing DEF IfAny

Alones(role, K) == [p \in K |-> <<Msg(role, <<p>>)>>]

LEMMA AloneThrough ==
  ASSUME NEW role, NEW K, NEW Y, \A p \in K : Msg(role, <<p>>) \in Y, NEW ps \in Seq(K)
  PROVE  Maps(Alones(role, K), K, Y) /\ Alone(role, ps) = Through(Alones(role, K), ps)
<1> DEFINE f == Alones(role, K)
           g == [p \in K |-> Msg(role, <<p>>)]
<1>1. Maps(f, K, Y)
  BY DEF Maps, Alones
<1>2. \A p \in K : f[p] = <<g[p]>>
  BY DEF Alones
<1>3. \A i \in DOMAIN ps : ps[i] \in K
  OBVIOUS
<1>4. [i \in DOMAIN ps |-> Msg(role, <<ps[i]>>)] = [i \in DOMAIN ps |-> g[ps[i]]]
  BY <1>3
<1> HIDE DEF f, g
<1>5. Through(f, ps) = <<>> \o [i \in DOMAIN ps |-> g[ps[i]]]
  BY <1>1, <1>2, ThroughSingles
<1> QED
  BY <1>1, <1>4, <1>5 DEF Alone, Mapped, f

LEMMA CarriesAlone ==
  ASSUME NEW role \in SentRoles, NEW ps \in Seq(Voiced(role))
  PROVE  Carries(Alone(role, ps), ps)
<1> DEFINE K == Voiced(role)
           f == Alones(role, K)
           Good == {u \in Seq(K) : Carries(Through(f, u), u)}
<1>1. ASSUME NEW p \in K PROVE Msg(role, <<p>>) \in Fitting /\ Carries(f[p], <<p>>)
  <2>1. <<p>> \in Seq(Voiced(role)) /\ <<p>> # <<>>
    OBVIOUS
  <2>2. PICK s \in Seq(Voiced(role)) : s = <<p>> /\ s # <<>>
    BY <2>1
  <2>3. Msg(role, s) \in Fitting /\ Carries(<<Msg(role, s)>>, s)
    BY <2>2, MsgFits, CarriesOne
  <2>4. f[p] = <<Msg(role, <<p>>)>>
    BY DEF Alones
  <2> QED
    BY <2>2, <2>3, <2>4
<1>2. Maps(f, K, Fitting) /\ \A s \in Seq(K) : Alone(role, s) = Through(f, s)
  BY <1>1, AloneThrough
<1> HIDE DEF K, f
<1>3. <<>> \in Good
  <2>1. <<>> \in Seq(K)
    OBVIOUS
  <2> QED
    BY <2>1, ThroughEmpty, CarriesNothing
<1>4. ASSUME NEW u \in Good, NEW p \in K, u \in Seq(K) PROVE Append(u, p) \in Good
  <2>1. Through(f, Append(u, p)) = Through(f, u) \o f[p]
    BY <1>2, <1>4, ThroughAppend
  <2>2. Carries(Through(f, u), u) /\ Carries(f[p], <<p>>)
    BY <1>1
  <2>3. Carries(Through(f, u) \o f[p], u \o <<p>>)
    BY <2>2, CarriesConcat
  <2>4. u \o <<p>> = Append(u, p) /\ Append(u, p) \in Seq(K)
    BY <1>4
  <2> QED
    BY <2>1, <2>3, <2>4
<1> HIDE DEF Good
<1>5. ps \in Good
  BY <1>3, <1>4, SequencesGrow DEF K
<1> QED
  BY <1>2, <1>5 DEF Good, K

\* The turns of the conversation, and what is told of them.
Turns == {turns[i] : i \in 1..Len(turns)}
VoiceOf(m) == IF m.role = "model" THEN "model" ELSE "user"

LEMMA TurnsTyped ==
  ASSUME turns \in Seq(TurnType)
  PROVE  turns \in Seq(Turns) /\ \A m \in Turns : m \in TurnType /\ m.parts \in Seq(PartType)
<1>1. \A i \in 1..Len(turns) : turns[i] \in Turns
  BY DEF Turns
<1>2. turns \in Seq(Turns)
  BY <1>1
<1>3. \A i \in 1..Len(turns) : turns[i] \in TurnType
  OBVIOUS
<1>4. \A m \in Turns : m \in TurnType
  BY <1>3 DEF Turns
<1>5. \A m \in TurnType : m.parts \in Seq(PartType)
  BY DEF TurnType
<1> QED
  BY <1>2, <1>4, <1>5

LEMMA TurnsCarried ==
  ASSUME turns \in Seq(TurnType), NEW h, Maps(h, Turns, Fitting), \A m \in Turns : Carries(h[m], Of(m.parts, Spoken))
  PROVE  Carries(Through(h, turns), Of(Said, Spoken))
<1> DEFINE Good == {u \in Seq(Turns) : Carries(Through(h, u), Of(Flat(u), Spoken))}
<1>1. turns \in Seq(Turns) /\ \A m \in Turns : m.parts \in Seq(PartType)
  BY TurnsTyped
<1>2. <<>> \in Good
  <2>1. <<>> \in Seq(Turns)
    OBVIOUS
  <2> QED
    BY <2>1, ThroughEmpty, FlatNone, OfEmpty, CarriesNothing
<1>3. ASSUME NEW u \in Good, NEW m \in Turns, u \in Seq(Turns) PROVE Append(u, m) \in Good
  <2>1. Through(h, Append(u, m)) = Through(h, u) \o h[m]
    BY <1>3, ThroughAppend
  <2>2. PICK s \in Seq(PartType) : s = Flat(u)
    BY <1>1, <1>3, FlatTyped
  <2>3. PICK p \in Seq(PartType) : p = m.parts
    BY <1>1
  <2>4. Flat(Append(u, m)) = s \o p
    BY <1>1, <1>3, <2>2, <2>3, FlatMore
  <2>5. Of(s \o p, Spoken) = Of(s, Spoken) \o Of(p, Spoken)
    BY OfConcat
  <2>6. Carries(Through(h, u), Of(s, Spoken)) /\ Carries(h[m], Of(p, Spoken))
    BY <1>3, <2>2, <2>3
  <2>7. Carries(Through(h, u) \o h[m], Of(s, Spoken) \o Of(p, Spoken))
    BY <2>6, CarriesConcat
  <2>8. Append(u, m) \in Seq(Turns)
    BY <1>3
  <2> QED
    BY <2>1, <2>4, <2>5, <2>7, <2>8
<1> HIDE DEF Good
<1>4. turns \in Good
  BY <1>1, <1>2, <1>3, SequencesGrow
<1> QED
  BY <1>4 DEF Good, Said

LEMMA OfMembers ==
  ASSUME NEW s \in Seq(PartType), NEW K
  PROVE  \A i \in 1..Len(Of(s, K)) : Of(s, K)[i] \in PartType /\ Of(s, K)[i].kind \in K /\ \E j \in 1..Len(s) : Of(s, K)[i] = s[j]
<1>1. PICK o \in Seq(PartType) : o = Of(s, K)
  BY OfTyped
<1>2. PICK e : Embedded(o, s, OfKind(PartType, K), e)
  BY <1>1, OfEmbedded
<1>3. \A i \in 1..Len(o) : e[i] \in 1..Len(s) /\ o[i] = s[e[i]] /\ o[i].kind \in K
  BY <1>2 DEF Embedded, OfKind
<1> QED
  BY <1>1, <1>3

\* Who may tell the parts of a turn.
TurnFacts(m) ==
  /\ m \in TurnType /\ Formed(m)
  /\ Texts(m) \in Seq(Voiced(VoiceOf(m)))
  /\ Uses(m) \in Seq(Voiced("model")) /\ Uses(m) \in Seq(Voiced("item"))
  /\ Results(m) \in Seq(Voiced("user")) /\ Results(m) \in Seq(Voiced("tool")) /\ Results(m) \in Seq(Voiced("item"))
  /\ Of(m.parts, Spoken) = (Results(m) \o Texts(m)) \o Uses(m)

LEMMA OfVoiced ==
  ASSUME NEW s \in Seq(PartType), NEW k \in Heard, NEW role, \A i \in 1..Len(s) : s[i].kind = k => role \in RolesOf(s[i])
  PROVE  Of(s, {k}) \in Seq(Voiced(role))
<1>1. PICK o \in Seq(PartType) : o = Of(s, {k})
  BY OfTyped
<1>2. \A K : \A i \in 1..Len(Of(s, K)) : Of(s, K)[i] \in PartType /\ Of(s, K)[i].kind \in K /\ \E j \in 1..Len(s) : Of(s, K)[i] = s[j]
  BY OfMembers
<1>3. \A i \in 1..Len(o) : o[i] \in PartType /\ o[i].kind \in {k} /\ \E j \in 1..Len(s) : o[i] = s[j]
  BY <1>1, <1>2
<1>4. \A i \in 1..Len(o) : o[i] \in Voiced(role)
  BY <1>3 DEF Voiced
<1>5. o \in Seq(Voiced(role))
  BY <1>4
<1> QED
  BY <1>1, <1>5

\* The parts of a turn that have certain kinds.
LEMMA FormedKinds ==
  ASSUME NEW m \in TurnType, Formed(m), NEW K
  PROVE  Of(m.parts, K) = Chained(IF "thought" \in K THEN Thoughts(m) ELSE <<>>, IF "result" \in K THEN Results(m) ELSE <<>>,
                                  IF "text" \in K THEN Texts(m) ELSE <<>>, IF "use" \in K THEN Uses(m) ELSE <<>>)
<1>1. PICK s \in Seq(PartType) : s = m.parts
  BY DEF TurnType
<1>2. PICK a \in Seq(PartType) : a = Thoughts(m)
  BY <1>1, OfTyped DEF Thoughts
<1>3. PICK r \in Seq(PartType) : r = Results(m)
  BY <1>1, OfTyped DEF Results
<1>4. PICK b \in Seq(PartType) : b = Texts(m)
  BY <1>1, OfTyped DEF Texts
<1>5. PICK c \in Seq(PartType) : c = Uses(m)
  BY <1>1, OfTyped DEF Uses
<1>6. s = Chained(a, r, b, c)
  BY <1>1, <1>2, <1>3, <1>4, <1>5 DEF Formed
<1>7. Of(s, K) = Chained(Of(a, K), Of(r, K), Of(b, K), Of(c, K))
  BY <1>6, FourKinds
<1>8. \A k : Of(Of(s, {k}), K) = IF k \in K THEN Of(s, {k}) ELSE <<>>
  <2> SUFFICES ASSUME NEW k PROVE Of(Of(s, {k}), K) = IF k \in K THEN Of(s, {k}) ELSE <<>>
    OBVIOUS
  <2> DEFINE J == {k}
  <2>1. /\ k \in K => J \cap K = J
        /\ k \notin K => J \cap K = {}
    OBVIOUS
  <2> HIDE DEF J
  <2>2. Of(Of(s, J), K) = Of(s, J \cap K) /\ Of(s, {}) = <<>>
    BY OfOf, OfNone
  <2>3. Of(Of(s, J), K) = IF k \in K THEN Of(s, J) ELSE <<>>
    BY <2>1, <2>2
  <2> QED
    BY <2>3 DEF J
<1>9. Of(a, K) = IF "thought" \in K THEN a ELSE <<>>
  BY <1>1, <1>2, <1>8 DEF Thoughts
<1>10. Of(r, K) = IF "result" \in K THEN r ELSE <<>>
  BY <1>1, <1>3, <1>8 DEF Results
<1>11. Of(b, K) = IF "text" \in K THEN b ELSE <<>>
  BY <1>1, <1>4, <1>8 DEF Texts
<1>12. Of(c, K) = IF "use" \in K THEN c ELSE <<>>
  BY <1>1, <1>5, <1>8 DEF Uses
<1> QED
  BY <1>1, <1>2, <1>3, <1>4, <1>5, <1>7, <1>9, <1>10, <1>11, <1>12

LEMMA FormedSpoken ==
  ASSUME NEW m \in TurnType, Formed(m)
  PROVE  Of(m.parts, Spoken) = (Results(m) \o Texts(m)) \o Uses(m)
<1>1. "thought" \notin Spoken /\ "result" \in Spoken /\ "text" \in Spoken /\ "use" \in Spoken
  BY DEF Spoken
<1>2. Of(m.parts, Spoken) = Chained(<<>>, Results(m), Texts(m), Uses(m))
  BY <1>1, FormedKinds
<1>3. Results(m) \in Seq(PartType)
  BY OfTyped DEF Results, TurnType
<1>4. <<>> \o Results(m) = Results(m)
  BY <1>3
<1> QED
  BY <1>2, <1>4 DEF Chained

LEMMA TurnsHave ==
  ASSUME ConversationInv, NEW m \in Turns
  PROVE  TurnFacts(m)
<1>1. PICK i \in 1..Len(turns) : m = turns[i]
  BY DEF Turns
<1>2. m \in TurnType /\ Formed(m) /\ \A k \in 1..Len(m.parts) : m.parts[k].turn = i
  BY <1>1 DEF ConversationInv
<1>3. m.parts \in Seq(PartType)
  BY <1>2 DEF TurnType
<1>4. PICK s \in Seq(PartType) : s = m.parts /\ \A k \in 1..Len(s) : s[k].turn = i
  BY <1>2, <1>3
<1>5. \A k \in 1..Len(s) : s[k].kind = "text" => VoiceOf(m) \in RolesOf(s[k])
  BY <1>1, <1>4 DEF RolesOf, VoiceOf
<1>6. \A k \in 1..Len(s) : s[k].kind = "use" => "model" \in RolesOf(s[k]) /\ "item" \in RolesOf(s[k])
  BY DEF RolesOf
<1>7. \A k \in 1..Len(s) : s[k].kind = "result" => "user" \in RolesOf(s[k]) /\ "tool" \in RolesOf(s[k]) /\ "item" \in RolesOf(s[k])
  BY DEF RolesOf
<1>8. "text" \in Heard /\ "use" \in Heard /\ "result" \in Heard
  BY DEF Heard
<1>9. Texts(m) \in Seq(Voiced(VoiceOf(m)))
  BY <1>4, <1>5, <1>8, OfVoiced DEF Texts
<1>10. Uses(m) \in Seq(Voiced("model"))
  BY <1>4, <1>6, <1>8, OfVoiced DEF Uses
<1>11. Uses(m) \in Seq(Voiced("item"))
  BY <1>4, <1>6, <1>8, OfVoiced DEF Uses
<1>12. Results(m) \in Seq(Voiced("user"))
  BY <1>4, <1>7, <1>8, OfVoiced DEF Results
<1>13. Results(m) \in Seq(Voiced("tool"))
  BY <1>4, <1>7, <1>8, OfVoiced DEF Results
<1>14. Results(m) \in Seq(Voiced("item"))
  BY <1>4, <1>7, <1>8, OfVoiced DEF Results
<1>15. Of(m.parts, Spoken) = (Results(m) \o Texts(m)) \o Uses(m)
  BY <1>2, FormedSpoken
<1> QED
  BY <1>2, <1>9, <1>10, <1>11, <1>12, <1>13, <1>14, <1>15 DEF TurnFacts

-----------------------------------------------------------------------------
(* What a client sends, and what a translator makes of it turn by turn. *)

Sent == {m \in Bodies : m.parts # <<>>}
OfTurns == {m \in Sent : ~IsSystem(m)}
SystemTold == IF "system" \in habits THEN <<System>> ELSE <<>>
SystemSent == IF "system" \notin habits THEN <<>> ELSE <<Msg(SystemRole, <<System>>)>>

LEMMA MsgSent ==
  ASSUME NEW role \in SentRoles, NEW ps \in Seq(PartType), ps # <<>>
  PROVE  /\ Msg(role, ps) \in Sent /\ Msg(role, ps).role = role /\ Msg(role, ps).parts = ps
         /\ role \notin {"system", "instructions", "systemInstruction"} => Msg(role, ps) \in OfTurns
<1>1. PICK m : m = Msg(role, ps)
  OBVIOUS
<1>2. m \in Bodies /\ m.role = role /\ m.parts = ps
  BY <1>1 DEF Msg, Bodies
<1> QED
  BY <1>1, <1>2 DEF Sent, OfTurns, IsSystem

LEMMA IfAnySent ==
  ASSUME NEW role \in {"user", "input", "model", "tool", "item"}, NEW ps \in Seq(PartType)
  PROVE  IfAny(role, ps) \in Seq(OfTurns)
<1>1. role \in SentRoles /\ role \notin {"system", "instructions", "systemInstruction"}
  BY DEF SentRoles, SystemRoles
<1>2. CASE ps = <<>>
  BY <1>2 DEF IfAny
<1>3. CASE ps # <<>>
  <2>1. PICK m \in OfTurns : m = Msg(role, ps)
    BY <1>1, <1>3, MsgSent
  <2>2. IfAny(role, ps) = <<m>>
    BY <1>3, <2>1 DEF IfAny
  <2> QED
    BY <2>2
<1> QED
  BY <1>2, <1>3

LEMMA AloneSent ==
  ASSUME NEW role \in {"user", "model", "tool", "item"}, NEW ps \in Seq(PartType)
  PROVE  Alone(role, ps) \in Seq(OfTurns)
<1>1. role \in SentRoles /\ role \notin {"system", "instructions", "systemInstruction"}
  BY DEF SentRoles, SystemRoles
<1>2. \A p \in PartType : Msg(role, <<p>>) \in OfTurns
  <2> SUFFICES ASSUME NEW p \in PartType PROVE Msg(role, <<p>>) \in OfTurns
    OBVIOUS
  <2>1. <<p>> \in Seq(PartType) /\ <<p>> # <<>>
    OBVIOUS
  <2>2. PICK s \in Seq(PartType) : s = <<p>> /\ s # <<>>
    BY <2>1
  <2> QED
    BY <1>1, <2>2, MsgSent
<1>3. Maps(Alones(role, PartType), PartType, OfTurns) /\ Alone(role, ps) = Through(Alones(role, PartType), ps)
  BY <1>2, AloneThrough
<1> QED
  BY <1>3, ThroughTyped

\* A translator that tells of each turn what was said in it tells what was said.
LEMMA ToldByTurns ==
  ASSUME turns \in Seq(TurnType), NEW T, Maps(T, Turns, OfTurns), NEW g, Maps(g, Sent, Bodies),
         \A m \in Turns : Carries(Through(g, T[m]), Of(m.parts, Spoken))
  PROVE  Carries(Through(g, Through(T, turns)), Of(Said, Spoken))
<1> DEFINE h == [m \in Turns |-> Through(g, T[m])]
<1>1. \A m \in Turns : h[m] = Through(g, T[m])
  OBVIOUS
<1>2. \A m \in Turns : Through(g, T[m]) \in Seq(Fitting)
  BY DEF Carries
<1>3. Maps(h, Turns, Fitting)
  BY <1>2 DEF Maps
<1> HIDE DEF h
<1>4. Maps(h, Turns, Bodies)
  <2>1. Fitting \subseteq Bodies
    BY DEF Fitting, Bodies
  <2>2. \A s \in Seq(Fitting) : s \in Seq(Bodies)
    BY <2>1
  <2> QED
    BY <1>3, <2>2 DEF Maps
<1>5. Maps(T, Turns, Sent)
  <2>1. OfTurns \subseteq Sent
    BY DEF OfTurns
  <2>2. \A s \in Seq(OfTurns) : s \in Seq(Sent)
    BY <2>1
  <2> QED
    BY <2>2 DEF Maps
<1>6. turns \in Seq(Turns)
  BY TurnsTyped
<1>7. Through(g, Through(T, turns)) = Through(h, turns)
  BY <1>1, <1>4, <1>5, <1>6, ThroughThrough
<1>8. \A m \in Turns : Carries(h[m], Of(m.parts, Spoken))
  BY <1>1
<1>9. Carries(Through(h, turns), Of(Said, Spoken))
  BY <1>3, <1>8, TurnsCarried
<1> QED
  BY <1>7, <1>9

\* A translator that keeps a message but for its role.
LEMMA IfAnyThrough ==
  ASSUME NEW g, Maps(g, Sent, Bodies), NEW r \in SentRoles, NEW q, NEW ps \in Seq(PartType),
         ps # <<>> => g[Msg(r, ps)] = <<Msg(q, ps)>>
  PROVE  Through(g, IfAny(r, ps)) = IfAny(q, ps)
<1>1. CASE ps = <<>>
  BY <1>1, ThroughEmpty DEF IfAny
<1>2. CASE ps # <<>>
  <2>1. PICK m \in Sent : m = Msg(r, ps)
    BY <1>2, MsgSent
  <2>2. Through(g, <<m>>) = g[m]
    BY ThroughOne
  <2> QED
    BY <1>2, <2>1, <2>2 DEF IfAny
<1> QED
  BY <1>1, <1>2

LEMMA AloneTold ==
  ASSUME NEW g, Maps(g, Sent, Bodies), NEW r \in SentRoles, NEW q \in SentRoles,
         NEW K, K \subseteq PartType, \A p \in K : g[Msg(r, <<p>>)] = <<Msg(q, <<p>>)>>, NEW ps \in Seq(K)
  PROVE  Through(g, Alone(r, ps)) = Alone(q, ps)
<1>1. ASSUME NEW p \in K, NEW role \in SentRoles PROVE Msg(role, <<p>>) \in Sent
  <2>1. p \in PartType
    OBVIOUS
  <2>2. <<p>> \in Seq(PartType) /\ <<p>> # <<>>
    BY <2>1
  <2>3. PICK s \in Seq(PartType) : s = <<p>> /\ s # <<>>
    BY <2>2
  <2> QED
    BY <2>3, MsgSent
<1>2. \A p \in K : Msg(r, <<p>>) \in Sent /\ Msg(q, <<p>>) \in Bodies
  BY <1>1 DEF Sent
<1>3. Maps(Alones(r, K), K, Sent) /\ Alone(r, ps) = Through(Alones(r, K), ps)
  BY <1>2, AloneThrough
<1>4. Maps(Alones(q, K), K, Bodies) /\ Alone(q, ps) = Through(Alones(q, K), ps)
  BY <1>2, AloneThrough
<1>5. ASSUME NEW p \in K PROVE Alones(q, K)[p] = Through(g, Alones(r, K)[p])
  <2>1. PICK m \in Sent : m = Msg(r, <<p>>)
    BY <1>2
  <2>2. Through(g, <<m>>) = g[m]
    BY ThroughOne
  <2>3. g[m] = <<Msg(q, <<p>>)>>
    BY <2>1
  <2> QED
    BY <2>1, <2>2, <2>3 DEF Alones
<1>6. Through(g, Through(Alones(r, K), ps)) = Through(Alones(q, K), ps)
  BY <1>3, <1>4, <1>5, ThroughThrough
<1> QED
  BY <1>3, <1>4, <1>6

\* The system text and the conversation.
SystemIn == [m \in Sent |-> IF IsSystem(m) THEN m.parts ELSE <<>>]

LEMMA SystemPartsThrough ==
  ASSUME NEW ms \in Seq(Sent)
  PROVE  /\ Maps(SystemIn, Sent, PartType) /\ SystemParts(ms) = Through(SystemIn, ms)
         /\ Rest(ms) = Through(Picks(Sent, OfTurns), ms)
<1>1. Maps(SystemIn, Sent, PartType)
  BY DEF Maps, SystemIn, Sent, Bodies
<1>2. \A i \in DOMAIN ms : ms[i] \in Sent
  OBVIOUS
<1>3. [i \in DOMAIN ms |-> IF IsSystem(ms[i]) THEN ms[i].parts ELSE <<>>] = [i \in DOMAIN ms |-> SystemIn[ms[i]]]
  BY <1>2 DEF SystemIn
<1>4. \A m \in Sent : ~IsSystem(m) <=> m \in OfTurns
  BY DEF OfTurns
<1>5. \A m \in Sent : Picks(Sent, OfTurns)[m] = IF ~IsSystem(m) THEN <<m>> ELSE <<>>
  BY <1>4, PicksMap
<1>6. [i \in DOMAIN ms |-> IF ~IsSystem(ms[i]) THEN <<ms[i]>> ELSE <<>>] = [i \in DOMAIN ms |-> Picks(Sent, OfTurns)[ms[i]]]
  BY <1>2, <1>5
<1>7. SystemParts(ms) = Through(SystemIn, ms)
  BY <1>3 DEF SystemParts, Through, Each, Mapped
<1>8. Rest(ms) = Through(Picks(Sent, OfTurns), ms)
  BY <1>6 DEF Rest, Where, Through, Each, Mapped
<1> QED
  BY <1>1, <1>7, <1>8

\* The message with the system text, if a client sends one of its own.
LEMMA SystemMessage ==
  /\ SystemRole \in SystemRoles /\ (SystemRole # "system" => SystemRole \in habits)
  /\ Msg(SystemRole, <<System>>) \in Sent /\ Msg(SystemRole, <<System>>).role = SystemRole
  /\ Msg(SystemRole, <<System>>).parts = <<System>>
<1>1. SystemRole \in SystemRoles /\ (SystemRole # "system" => SystemRole \in habits)
  <2> DEFINE K == {"instructions", "developer", "systemInstruction"}
  <2>1. SystemRole = IF habits \cap K = {} THEN "system" ELSE CHOOSE role \in K : role \in habits
    BY DEF SystemRole
  <2>2. K \subseteq SystemRoles /\ "system" \in SystemRoles
    BY DEF SystemRoles
  <2> HIDE DEF K
  <2>3. CASE habits \cap K = {}
    BY <2>1, <2>2, <2>3
  <2>4. CASE habits \cap K # {}
    <3>1. \E role \in K : role \in habits
      BY <2>4
    <3>2. SystemRole \in K /\ SystemRole \in habits
      BY <2>1, <2>4, <3>1
    <3> QED
      BY <2>2, <3>2
  <2> QED
    BY <2>3, <2>4
<1>2. PICK s \in Seq(PartType) : s = <<System>> /\ s # <<>>
  <2>1. <<System>> \in Seq(PartType) /\ <<System>> # <<>>
    BY SystemPart
  <2> QED
    BY <2>1
<1>3. SystemRole \in SentRoles
  BY <1>1 DEF SentRoles
<1>4. Msg(SystemRole, s) \in Sent /\ Msg(SystemRole, s).role = SystemRole /\ Msg(SystemRole, s).parts = s
  BY <1>2, <1>3, MsgSent
<1> QED
  BY <1>1, <1>2, <1>4

LEMMA SystemSentTyped == SystemSent \in Seq(Sent) /\ SystemTold \in Seq(PartType)
<1>1. PICK m \in Sent : m = Msg(SystemRole, <<System>>)
  BY SystemMessage
<1>2. <<m>> \in Seq(Sent) /\ <<>> \in Seq(Sent)
  OBVIOUS
<1>3. <<System>> \in Seq(PartType) /\ <<>> \in Seq(PartType)
  BY SystemPart
<1> QED
  BY <1>1, <1>2, <1>3 DEF SystemSent, SystemTold

LEMMA SystemSentIs ==
  ASSUME SystemRole # "developer"
  PROVE  SystemParts(SystemSent) = SystemTold /\ Rest(SystemSent) = <<>>
<1>1. CASE "system" \notin habits
  <2>1. SystemSent = <<>> /\ SystemTold = <<>>
    BY <1>1 DEF SystemSent, SystemTold
  <2>2. <<>> \in Seq(Sent) /\ <<>> \in Seq(PartType)
    OBVIOUS
  <2>3. PICK e \in Seq(Sent) : e = <<>>
    BY <2>2
  <2>4. SystemParts(e) = Through(SystemIn, e) /\ Rest(e) = Through(Picks(Sent, OfTurns), e)
    BY SystemPartsThrough
  <2> QED
    BY <2>1, <2>3, <2>4, ThroughEmpty
<1>2. CASE "system" \in habits
  <2>1. PICK m \in Sent : m = Msg(SystemRole, <<System>>) /\ m.role = SystemRole /\ m.parts = <<System>>
    BY SystemMessage
  <2>2. SystemSent = <<m>> /\ SystemTold = <<System>>
    BY <1>2, <2>1 DEF SystemSent, SystemTold
  <2>3. PICK ms \in Seq(Sent) : ms = <<m>>
    <3>1. <<m>> \in Seq(Sent)
      OBVIOUS
    <3> QED
      BY <3>1
  <2>4. IsSystem(m)
    BY <2>1, SystemMessage DEF IsSystem, SystemRoles
  <2>5. Through(SystemIn, <<m>>) = <<System>>
    <3>1. SystemIn[m] = <<System>>
      BY <2>1, <2>4 DEF SystemIn
    <3>2. Maps(SystemIn, Sent, PartType)
      BY <2>3, SystemPartsThrough
    <3> QED
      BY <3>1, <3>2, ThroughOne
  <2>6. Through(Picks(Sent, OfTurns), <<m>>) = <<>>
    <3>1. Picks(Sent, OfTurns)[m] = <<>> /\ Maps(Picks(Sent, OfTurns), Sent, Sent)
      BY <2>4, PicksMap DEF OfTurns
    <3> QED
      BY <3>1, ThroughOne
  <2>7. SystemParts(ms) = Through(SystemIn, ms) /\ Rest(ms) = Through(Picks(Sent, OfTurns), ms)
    BY SystemPartsThrough
  <2> QED
    BY <2>2, <2>3, <2>5, <2>6, <2>7
<1> QED
  BY <1>1, <1>2

\* Messages among which there is none of the system.
LEMMA TurnsApart ==
  ASSUME NEW C \in Seq(OfTurns)
  PROVE  SystemParts(C) = <<>> /\ Rest(C) = C
<1> DEFINE f == SystemIn
           p == Picks(Sent, OfTurns)
<1>1. PICK c \in Seq(Sent) : c = C
  <2>1. C \in Seq(Sent)
    BY DEF OfTurns
  <2> QED
    BY <2>1
<1>2. SystemParts(c) = Through(f, c) /\ Rest(c) = Through(p, c)
  BY SystemPartsThrough
<1>3. Through(f, c) = <<>>
  <2>1. \A m \in OfTurns : f[m] = <<>>
    BY DEF SystemIn, OfTurns
  <2> HIDE DEF f
  <2> QED
    BY <1>1, <2>1, ThroughNothing
<1>4. Through(p, c) = C
  <2>0. \A m \in OfTurns : p[m] = <<m>>
    BY PicksMap DEF OfTurns
  <2> DEFINE q == [m \in OfTurns |-> <<m>>]
  <2>1. Maps(q, OfTurns, OfTurns) /\ \A m \in OfTurns : q[m] = <<m>> /\ p[m] = q[m]
    BY <2>0 DEF Maps
  <2> HIDE DEF q, p
  <2>2. Through(q, C) = C
    BY <2>1, ThroughSame
  <2>3. Through(p, C) = Through(q, C)
    BY <2>1, ThroughAlike
  <2> QED
    BY <1>1, <2>2, <2>3
<1> QED
  BY <1>1, <1>2, <1>3, <1>4

LEMMA SystemApart ==
  ASSUME SystemRole # "developer", NEW C \in Seq(OfTurns)
  PROVE  SystemParts(SystemSent \o C) = SystemTold /\ Rest(SystemSent \o C) = C
<1> DEFINE f == SystemIn
           p == Picks(Sent, OfTurns)
<1>1. PICK c \in Seq(Sent) : c = C
  <2>1. C \in Seq(Sent)
    BY DEF OfTurns
  <2> QED
    BY <2>1
<1>2. PICK s \in Seq(Sent) : s = SystemSent
  BY SystemSentTyped
<1>3. PICK ms \in Seq(Sent) : ms = s \o c
  <2>1. s \o c \in Seq(Sent)
    OBVIOUS
  <2> QED
    BY <2>1
<1>4. \A ns \in Seq(Sent) : SystemParts(ns) = Through(f, ns) /\ Rest(ns) = Through(p, ns)
  BY SystemPartsThrough
<1>5. Maps(f, Sent, PartType) /\ Maps(p, Sent, Sent)
  BY <1>2, PicksMap, SystemPartsThrough
<1> HIDE DEF f, p
<1>6. Through(f, s \o c) = Through(f, s) \o Through(f, c)
  BY <1>5, ThroughConcat
<1>7. Through(p, s \o c) = Through(p, s) \o Through(p, c)
  BY <1>5, ThroughConcat
<1>8. SystemParts(s) = SystemTold /\ Rest(s) = <<>> /\ SystemTold \in Seq(PartType)
  BY <1>2, SystemSentIs, SystemSentTyped
<1>9. SystemParts(c) = <<>> /\ Rest(c) = C
  BY <1>1, TurnsApart
<1>10. SystemTold \o <<>> = SystemTold /\ <<>> \o C = C
  BY <1>8
<1> QED
  BY <1>1, <1>2, <1>3, <1>4, <1>6, <1>7, <1>8, <1>9, <1>10

\* A message of the developer is one among the others.
LEMMA DeveloperApart ==
  ASSUME SystemRole = "developer", NEW C \in Seq(OfTurns)
  PROVE  SystemParts(SystemSent \o C) = <<>> /\ Rest(SystemSent \o C) = SystemSent \o C
<1>1. PICK m \in Sent : m = Msg(SystemRole, <<System>>) /\ m.role = "developer"
  BY SystemMessage
<1>2. m \in OfTurns
  BY <1>1 DEF OfTurns, IsSystem
<1>3. SystemSent \in Seq(OfTurns)
  BY <1>1, <1>2 DEF SystemSent
<1>4. SystemSent \o C \in Seq(OfTurns)
  BY <1>3
<1> QED
  BY <1>4, TurnsApart

\* What is due: the system text, and what was said.
LEMMA DueIs ==
  ASSUME Said \in Seq(PartType), Target # "antigravity"
  PROVE  Due = SystemTold \o Of(Said, Spoken)
<1>1. Asked = SystemTold \o Said
  BY DEF Asked, SystemTold
<1>2. PICK s \in Seq(PartType) : s = SystemTold
  BY SystemSentTyped
<1>3. Asked \in Seq(PartType)
  BY AskedPlaces
<1>4. Due = Of(Asked, Spoken)
  BY <1>3, DueEmbedded
<1>5. Of(s \o Said, Spoken) = Of(s, Spoken) \o Of(Said, Spoken)
  BY OfConcat
<1>6. Of(s, Spoken) = s
  <2>1. System \in PartType /\ System.kind \in Spoken
    BY SystemPart DEF Spoken
  <2>2. s \in Seq({System})
    <3>1. s = <<System>> \/ s = <<>>
      BY <1>2 DEF SystemTold
    <3>2. \A x : <<x>> \in Seq({x}) /\ <<>> \in Seq({x})
      OBVIOUS
    <3> QED
      BY <3>1, <3>2
  <2>3. \A x \in {System} : x \in PartType /\ x.kind \in Spoken
    BY <2>1
  <2>4. PICK X : X = {System}
    OBVIOUS
  <2> QED
    BY <2>2, <2>3, <2>4, OfAll
<1> QED
  BY <1>1, <1>2, <1>4, <1>5, <1>6

-----------------------------------------------------------------------------
(* The turns of each client's format. *)

\* The parts of a turn by kind.
LEMMA TurnParts ==
  ASSUME NEW m \in TurnType, Formed(m)
  PROVE  /\ m.parts \in Seq(PartType) /\ m.parts # <<>>
         /\ Results(m) \in Kinds({"result"}) /\ Texts(m) \in Kinds({"text"}) /\ Uses(m) \in Kinds({"use"})
         /\ Of(m.parts, {"use", "result"}) = Results(m) \o Uses(m)
         /\ m.role # "model" => Uses(m) = <<>>
         /\ m.role # "tools" => Results(m) = <<>>
<1>1. PICK s \in Seq(PartType) : s = m.parts
  BY DEF TurnType
<1>2. \A K : Of(s, K) \in Kinds(K)
  <2> SUFFICES ASSUME NEW K PROVE Of(s, K) \in Kinds(K)
    OBVIOUS
  <2>1. PICK o \in Seq(PartType) : o = Of(s, K)
    BY OfTyped
  <2>2. \A i \in 1..Len(o) : o[i] \in PartType /\ o[i].kind \in K
    BY <2>1, OfMembers
  <2>3. \A i \in 1..Len(o) : o[i] \in OfKind(PartType, K)
    BY <2>2 DEF OfKind
  <2>4. o \in Seq(OfKind(PartType, K))
    BY <2>3
  <2> QED
    BY <2>1, <2>4 DEF Kinds
<1>3. Results(m) \in Kinds({"result"}) /\ Texts(m) \in Kinds({"text"}) /\ Uses(m) \in Kinds({"use"})
  BY <1>1, <1>2 DEF Results, Texts, Uses
<1>4. PICK r \in Seq(PartType) : r = Results(m)
  BY <1>1, OfTyped DEF Results
<1>5. PICK u \in Seq(PartType) : u = Uses(m)
  BY <1>1, OfTyped DEF Uses
<1>6. Of(s, {"use", "result"}) = Chained(<<>>, r, <<>>, u)
  <2> DEFINE K == {"use", "result"}
  <2>1. "thought" \notin K /\ "result" \in K /\ "text" \notin K /\ "use" \in K
    OBVIOUS
  <2> HIDE DEF K
  <2>2. Of(s, K) = Chained(<<>>, r, <<>>, u)
    BY <1>1, <1>4, <1>5, <2>1, FormedKinds
  <2> QED
    BY <2>2 DEF K
<1>7. Chained(<<>>, r, <<>>, u) = r \o u
  BY DEF Chained
<1>8. s # <<>>
  <2>1. Results(m) # <<>> \/ Texts(m) # <<>> \/ Uses(m) # <<>>
    BY DEF Formed
  <2>2. \A K : Of(<<>>, K) = <<>>
    BY OfEmpty
  <2> QED
    BY <1>1, <2>1, <2>2 DEF Results, Texts, Uses
<1>9. (m.role # "model" => Uses(m) = <<>>) /\ (m.role # "tools" => Results(m) = <<>>)
  BY DEF Formed
<1> QED
  BY <1>1, <1>3, <1>4, <1>5, <1>6, <1>7, <1>8, <1>9

\* A turn with its results, calls and text in messages of their own.
Spread(m, r, u) ==
  IF m.role = "tools" THEN Alone(r, Results(m)) \o IfAny("user", Texts(m))
  ELSE IfAny(VoiceOf(m), Texts(m)) \o Alone(u, Uses(m))

LEMMA SpreadCarries ==
  ASSUME NEW m, TurnFacts(m), NEW r \in {"user", "tool", "item"}, NEW u \in {"model", "item"}
  PROVE  Carries(Spread(m, r, u), Of(m.parts, Spoken))
<1>1. r \in SentRoles /\ u \in SentRoles /\ VoiceOf(m) \in SentRoles
  BY DEF SentRoles, SystemRoles, VoiceOf
<1>2. Results(m) \in Seq(Voiced(r)) /\ Uses(m) \in Seq(Voiced(u)) /\ Texts(m) \in Seq(Voiced(VoiceOf(m)))
  BY DEF TurnFacts
<1>3. Carries(Alone(r, Results(m)), Results(m))
  BY <1>1, <1>2, CarriesAlone
<1>4. Carries(Alone(u, Uses(m)), Uses(m))
  BY <1>1, <1>2, CarriesAlone
<1>5. Carries(IfAny(VoiceOf(m), Texts(m)), Texts(m))
  BY <1>1, <1>2, CarriesIfAny
<1>6. m \in TurnType /\ Formed(m) /\ Of(m.parts, Spoken) = (Results(m) \o Texts(m)) \o Uses(m)
  BY DEF TurnFacts
<1>7. PICK R \in Seq(PartType) : R = Results(m)
  BY <1>6, TurnParts, KindsParts
<1>8. PICK X \in Seq(PartType) : X = Texts(m)
  BY <1>6, TurnParts, KindsParts
<1>9. PICK U \in Seq(PartType) : U = Uses(m)
  BY <1>6, TurnParts, KindsParts
<1>10. (R \o X) \o <<>> = R \o X /\ (<<>> \o X) \o U = X \o U
  OBVIOUS
<1>11. CASE m.role = "tools"
  <2>1. U = <<>> /\ VoiceOf(m) = "user"
    BY <1>6, <1>9, <1>11, TurnParts DEF VoiceOf
  <2>2. Of(m.parts, Spoken) = R \o X
    BY <1>6, <1>7, <1>8, <1>9, <1>10, <2>1
  <2>3. Spread(m, r, u) = Alone(r, R) \o IfAny("user", X)
    BY <1>7, <1>8, <1>11 DEF Spread
  <2>4. Carries(Alone(r, R) \o IfAny("user", X), R \o X)
    BY <1>3, <1>5, <1>7, <1>8, <2>1, CarriesConcat
  <2> QED
    BY <2>2, <2>3, <2>4
<1>12. CASE m.role # "tools"
  <2>1. R = <<>>
    BY <1>6, <1>7, <1>12, TurnParts
  <2>2. Of(m.parts, Spoken) = X \o U
    BY <1>6, <1>7, <1>8, <1>9, <1>10, <2>1
  <2>3. Spread(m, r, u) = IfAny(VoiceOf(m), X) \o Alone(u, U)
    BY <1>8, <1>9, <1>12 DEF Spread
  <2>4. Carries(IfAny(VoiceOf(m), X) \o Alone(u, U), X \o U)
    BY <1>4, <1>5, <1>8, <1>9, CarriesConcat
  <2> QED
    BY <2>2, <2>3, <2>4
<1> QED
  BY <1>11, <1>12

\* A translator of messages with the role item.
LEMMA SpreadThrough ==
  ASSUME NEW g, Maps(g, Sent, Bodies), NEW m \in TurnType, Formed(m),
         NEW a \in {"tool", "item"}, NEW b \in {"model", "item"}, NEW r \in {"user", "tool", "item"}, NEW u \in {"model", "item"},
         \A p \in OfKind(PartType, {"result"}) : g[Msg(a, <<p>>)] = <<Msg(r, <<p>>)>>,
         m.role # "tools" => \A p \in OfKind(PartType, {"use"}) : g[Msg(b, <<p>>)] = <<Msg(u, <<p>>)>>,
         Texts(m) # <<>> => g[Msg(VoiceOf(m), Texts(m))] = <<Msg(VoiceOf(m), Texts(m))>>
  PROVE  Through(g, Spread(m, a, b)) = Spread(m, r, u)
<1>1. {a, b, r, u, "user", VoiceOf(m)} \subseteq SentRoles
  BY DEF SentRoles, SystemRoles, VoiceOf
<1>2. PICK R \in Kinds({"result"}) : R = Results(m)
  BY TurnParts
<1>3. PICK X \in Kinds({"text"}) : X = Texts(m)
  BY TurnParts
<1>4. PICK U \in Kinds({"use"}) : U = Uses(m)
  BY TurnParts
<1>5. R \in Seq(PartType) /\ X \in Seq(PartType) /\ U \in Seq(PartType)
  BY KindsParts
<1>6. \A K : OfKind(PartType, K) \subseteq PartType
  BY DEF OfKind
<1>7. Through(g, Alone(a, R)) = Alone(r, R)
  <2> DEFINE K == OfKind(PartType, {"result"})
  <2>1. K \subseteq PartType /\ R \in Seq(K) /\ \A p \in K : g[Msg(a, <<p>>)] = <<Msg(r, <<p>>)>>
    BY <1>6 DEF Kinds
  <2> HIDE DEF K
  <2> QED
    BY <1>1, <2>1, AloneTold
<1>8. m.role # "tools" => Through(g, Alone(b, U)) = Alone(u, U)
  <2> SUFFICES ASSUME m.role # "tools" PROVE Through(g, Alone(b, U)) = Alone(u, U)
    OBVIOUS
  <2> DEFINE K == OfKind(PartType, {"use"})
  <2>1. K \subseteq PartType /\ U \in Seq(K) /\ \A p \in K : g[Msg(b, <<p>>)] = <<Msg(u, <<p>>)>>
    BY <1>6 DEF Kinds
  <2> HIDE DEF K
  <2> QED
    BY <1>1, <2>1, AloneTold
<1>9. Through(g, IfAny(VoiceOf(m), X)) = IfAny(VoiceOf(m), X)
  BY <1>1, <1>3, <1>5, IfAnyThrough
<1>10. \A s \in Seq(OfTurns) : s \in Seq(Sent)
  <2>1. OfTurns \subseteq Sent
    BY DEF OfTurns
  <2> QED
    BY <2>1
<1>11. PICK ar \in Seq(Sent) : ar = Alone(a, R)
  BY <1>5, <1>10, AloneSent
<1>12. PICK bu \in Seq(Sent) : bu = Alone(b, U)
  BY <1>5, <1>10, AloneSent
<1>13. VoiceOf(m) \in {"user", "input", "model", "tool", "item"}
  BY DEF VoiceOf
<1>14. PICK x \in Seq(Sent) : x = IfAny(VoiceOf(m), X)
  BY <1>5, <1>10, <1>13, IfAnySent
<1>15. Through(g, ar \o x) = Through(g, ar) \o Through(g, x)
  BY ThroughConcat
<1>16. Through(g, x \o bu) = Through(g, x) \o Through(g, bu)
  BY ThroughConcat
<1>17. CASE m.role = "tools"
  <2>1. VoiceOf(m) = "user"
    BY <1>17 DEF VoiceOf
  <2> QED
    BY <1>2, <1>3, <1>7, <1>9, <1>11, <1>14, <1>15, <1>17, <2>1 DEF Spread
<1>18. CASE m.role # "tools"
  BY <1>3, <1>4, <1>8, <1>9, <1>12, <1>14, <1>16, <1>18 DEF Spread
<1> QED
  BY <1>17, <1>18

LEMMA SpreadSent ==
  ASSUME NEW m \in TurnType, Formed(m), NEW a \in {"tool", "item"}, NEW b \in {"model", "item"}
  PROVE  Spread(m, a, b) \in Seq(OfTurns)
<1>1. Results(m) \in Seq(PartType) /\ Texts(m) \in Seq(PartType) /\ Uses(m) \in Seq(PartType)
  BY TurnParts, KindsParts
<1>2. VoiceOf(m) \in {"user", "model", "tool", "item"} /\ a \in {"user", "model", "tool", "item"}
      /\ b \in {"user", "model", "tool", "item"} /\ "user" \in {"user", "model", "tool", "item"}
  BY DEF VoiceOf
<1>3. Alone(a, Results(m)) \in Seq(OfTurns)
  BY <1>1, <1>2, AloneSent
<1>4. Alone(b, Uses(m)) \in Seq(OfTurns)
  BY <1>1, <1>2, AloneSent
<1>5. IfAny(VoiceOf(m), Texts(m)) \in Seq(OfTurns) /\ IfAny("user", Texts(m)) \in Seq(OfTurns)
  <2>1. VoiceOf(m) \in {"user", "input", "model", "tool", "item"} /\ "user" \in {"user", "input", "model", "tool", "item"}
    BY DEF VoiceOf
  <2> QED
    BY <1>1, <2>1, IfAnySent
<1>6. \A s, t \in Seq(OfTurns) : s \o t \in Seq(OfTurns)
  OBVIOUS
<1> QED
  BY <1>3, <1>4, <1>5, <1>6 DEF Spread

ClaudeTurns == [m \in Turns |-> ClaudeTurn(m)]
ChatTurns == [m \in Turns |-> ChatTurn(m)]
ResponsesTurns == [m \in Turns |-> ResponsesTurn(m)]

LEMMA RequestIs ==
  ASSUME turns \in Seq(TurnType)
  PROVE  /\ Source = "claude" => Request = SystemSent \o Through(ClaudeTurns, turns)
         /\ Source = "chat" => Request = SystemSent \o Through(ChatTurns, turns)
         /\ Source = "responses" => Request = SystemSent \o Through(ResponsesTurns, turns)
<1>1. \A i \in DOMAIN turns : turns[i] \in Turns
  BY DEF Turns
<1>2. [i \in DOMAIN turns |-> ClaudeTurn(turns[i])] = [i \in DOMAIN turns |-> ClaudeTurns[turns[i]]]
  BY <1>1 DEF ClaudeTurns
<1>3. [i \in DOMAIN turns |-> ChatTurn(turns[i])] = [i \in DOMAIN turns |-> ChatTurns[turns[i]]]
  BY <1>1 DEF ChatTurns
<1>4. [i \in DOMAIN turns |-> ResponsesTurn(turns[i])] = [i \in DOMAIN turns |-> ResponsesTurns[turns[i]]]
  BY <1>1 DEF ResponsesTurns
<1>5. Each(ClaudeTurn, turns) = Through(ClaudeTurns, turns)
  BY <1>2 DEF Through, Each, Mapped
<1>6. Each(ChatTurn, turns) = Through(ChatTurns, turns)
  BY <1>3 DEF Through, Each, Mapped
<1>7. Each(ResponsesTurn, turns) = Through(ResponsesTurns, turns)
  BY <1>4 DEF Through, Each, Mapped
<1>8. CASE Source = "claude"
  BY <1>5, <1>8 DEF Request, SystemSent
<1>9. CASE Source = "chat"
  BY <1>6, <1>9 DEF Request, SystemSent
<1>10. CASE Source = "responses"
  BY <1>7, <1>10 DEF Request, SystemSent
<1> QED
  BY <1>8, <1>9, <1>10

LEMMA TurnFormed ==
  ASSUME ConversationInv, NEW m \in Turns
  PROVE  m \in TurnType /\ Formed(m)
BY DEF Turns, ConversationInv

\* A turn of the user is its text.
LEMMA UserParts ==
  ASSUME NEW m \in TurnType, Formed(m), m.role = "user"
  PROVE  m.parts = Texts(m) /\ m = Msg("user", Texts(m)) /\ Texts(m) # <<>>
<1>1. PICK X \in Seq(PartType) : X = Texts(m)
  BY TurnParts, KindsParts
<1>2. m.parts = Chained(<<>>, <<>>, X, <<>>) /\ X # <<>>
  BY <1>1 DEF Formed
<1>3. m.parts = X
  BY <1>2, ChainedOne
<1>4. m = [role |-> m.role, parts |-> m.parts]
  BY DEF TurnType
<1> QED
  BY <1>1, <1>2, <1>3, <1>4 DEF Msg

\* A request with one turn only, whose input is a string.
InputOnly == Len(turns) = 1 /\ "input" \in habits

LEMMA ResponsesTurnsAre ==
  ASSUME ConversationInv
  PROVE  /\ Maps(ResponsesTurns, Turns, OfTurns)
         /\ ~InputOnly => \A m \in Turns : ResponsesTurns[m] = Spread(m, "item", "item")
         /\ InputOnly => \A m \in Turns : m.role = "user" /\ ResponsesTurns[m] = <<Msg("input", Texts(m))>>
<1>1. ASSUME ~InputOnly, NEW m \in Turns PROVE ResponsesTurn(m) = Spread(m, "item", "item")
  <2>1. m \in TurnType /\ Formed(m)
    BY TurnFormed
  <2>2. PICK R \in Seq(PartType) : R = Results(m)
    BY <2>1, TurnParts, KindsParts
  <2>3. PICK U \in Seq(PartType) : U = Uses(m)
    BY <2>1, TurnParts, KindsParts
  <2>4. Parts("text", m) = Texts(m) /\ Only(m, {"use", "result"}) = R \o U
    BY <2>1, <2>2, <2>3, TurnParts DEF Parts, Only, Texts
  <2>5. R \o <<>> = R /\ <<>> \o U = U
    OBVIOUS
  <2>6. CASE m.role = "tools"
    <3>1. Only(m, {"use", "result"}) = Results(m)
      BY <2>1, <2>2, <2>3, <2>4, <2>5, <2>6, TurnParts
    <3> QED
      BY <1>1, <2>4, <2>6, <3>1 DEF ResponsesTurn, Spread, InputOnly
  <2>7. CASE m.role # "tools"
    <3>1. Only(m, {"use", "result"}) = Uses(m)
      BY <2>1, <2>2, <2>3, <2>4, <2>5, <2>7, TurnParts
    <3> QED
      BY <1>1, <2>4, <2>7, <3>1 DEF ResponsesTurn, Spread, VoiceOf, InputOnly
  <2> QED
    BY <2>6, <2>7
<1>2. ASSUME InputOnly, NEW m \in Turns PROVE m.role = "user" /\ ResponsesTurn(m) = <<Msg("input", Texts(m))>>
  <2>1. m \in TurnType /\ Formed(m)
    BY TurnFormed
  <2>2. m.role = "user"
    <3>1. PICK i \in 1..Len(turns) : m = turns[i]
      BY DEF Turns
    <3>2. i = 1 /\ turns # <<>>
      BY <1>2, <3>1 DEF InputOnly
    <3> QED
      BY <3>1, <3>2 DEF ConversationInv
  <2>3. m.parts = Texts(m) /\ Texts(m) # <<>>
    BY <2>1, <2>2, UserParts
  <2>4. Parts("text", m) = Texts(m)
    BY DEF Parts, Only, Texts
  <2>5. Only(m, {"use", "result"}) = <<>>
    <3>1. PICK R \in Seq(PartType) : R = Results(m) /\ R = <<>>
      BY <2>1, <2>2, TurnParts, KindsParts
    <3>2. PICK U \in Seq(PartType) : U = Uses(m) /\ U = <<>>
      BY <2>1, <2>2, TurnParts, KindsParts
    <3>3. Only(m, {"use", "result"}) = R \o U
      BY <2>1, <3>1, <3>2, TurnParts DEF Only
    <3> QED
      BY <3>1, <3>2, <3>3
  <2>6. Alone("item", <<>>) = <<>>
    BY DEF Alone, Mapped
  <2>7. ResponsesTurn(m) = <<Msg("input", Texts(m))>> \o <<>>
    BY <1>2, <2>2, <2>3, <2>4, <2>5, <2>6 DEF ResponsesTurn, IfAny, InputOnly
  <2> QED
    BY <2>2, <2>7
<1>3. ASSUME NEW m \in Turns PROVE ResponsesTurn(m) \in Seq(OfTurns)
  <2>1. m \in TurnType /\ Formed(m)
    BY TurnFormed
  <2>2. Spread(m, "item", "item") \in Seq(OfTurns)
    BY <2>1, SpreadSent
  <2>3. CASE InputOnly
    <3>1. Texts(m) # <<>> /\ Texts(m) \in Seq(PartType)
      BY <1>2, <2>1, <2>3, TurnParts, KindsParts, UserParts
    <3>2. "input" \in SentRoles
      BY DEF SentRoles
    <3>3. PICK x \in OfTurns : x = Msg("input", Texts(m))
      BY <3>1, <3>2, MsgSent
    <3>4. ResponsesTurn(m) = <<x>>
      BY <1>2, <2>3, <3>3
    <3> QED
      BY <3>4
  <2> QED
    BY <1>1, <2>2, <2>3
<1> QED
  BY <1>1, <1>2, <1>3 DEF Maps, ResponsesTurns

\* A translator of one message into one.
Singly(F) == [m \in DOMAIN F |-> <<F[m]>>]

LEMMA SinglyThrough ==
  ASSUME NEW F \in [Sent -> Bodies]
  PROVE  /\ Maps(Singly(F), Sent, Bodies) /\ \A m \in Sent : Singly(F)[m] = <<F[m]>>
         /\ \A ms \in Seq(Sent) : Through(Singly(F), ms) = <<>> \o [i \in DOMAIN ms |-> F[ms[i]]]
<1>1. Maps(Singly(F), Sent, Bodies) /\ \A m \in Sent : Singly(F)[m] = <<F[m]>>
  BY DEF Singly, Maps
<1>2. \A ms \in Seq(Sent) : Through(Singly(F), ms) = <<>> \o [i \in DOMAIN ms |-> F[ms[i]]]
  BY <1>1, ThroughSingles
<1> QED
  BY <1>1, <1>2

\* What is told of the system text and of each turn is what is due.
LEMMA AllCarried ==
  ASSUME ConversationInv, Target # "antigravity", NEW before, Carries(before, SystemTold),
         NEW T, Maps(T, Turns, OfTurns), NEW g, Maps(g, Sent, Bodies),
         \A m \in Turns : Carries(Through(g, T[m]), Of(m.parts, Spoken))
  PROVE  Carries(before \o Through(g, Through(T, turns)), Due)
<1>1. turns \in Seq(TurnType)
  BY DEF ConversationInv
<1>2. Carries(Through(g, Through(T, turns)), Of(Said, Spoken))
  BY <1>1, ToldByTurns
<1>3. Due = SystemTold \o Of(Said, Spoken)
  BY <1>1, DueIs, SaidTyped
<1>4. Carries(before \o Through(g, Through(T, turns)), SystemTold \o Of(Said, Spoken))
  BY <1>2, CarriesConcat
<1> QED
  BY <1>3, <1>4

LEMMA TurnsSent ==
  ASSUME turns \in Seq(TurnType), NEW T, Maps(T, Turns, OfTurns)
  PROVE  /\ Through(T, turns) \in Seq(OfTurns) /\ Through(T, turns) \in Seq(Sent)
         /\ SystemSent \in Seq(Sent) /\ SystemSent \o Through(T, turns) \in Seq(Sent)
<1>1. Through(T, turns) \in Seq(OfTurns)
  BY TurnsTyped, ThroughTyped
<1>2. OfTurns \subseteq Sent
  BY DEF OfTurns
<1>3. \A s \in Seq(OfTurns) : s \in Seq(Sent)
  BY <1>2
<1>4. \A s, t \in Seq(Sent) : s \o t \in Seq(Sent)
  OBVIOUS
<1> QED
  BY <1>1, <1>3, <1>4, SystemSentTyped

\* The system text in a message of its own, after a text of the proxy or not.
LEMMA SystemCarried ==
  ASSUME NEW role \in {"system", "user", "developer"}, role = "developer" => Target \in {"chat", "codex"}
  PROVE  /\ Carries(IfAny(role, SystemTold), SystemTold)
         /\ Carries(<<Msg(role, <<Own>> \o SystemTold)>>, SystemTold)
<1>1. PICK s \in Seq(PartType) : s = SystemTold
  BY SystemSentTyped
<1>2. System \in Voiced(role)
  BY SystemPart DEF Voiced, Heard, RolesOf
<1>3. s = <<System>> \/ s = <<>>
  BY <1>1 DEF SystemTold
<1>4. s \in Seq(Voiced(role)) /\ role \in SentRoles
  <2>1. \A x \in Voiced(role) : <<x>> \in Seq(Voiced(role)) /\ <<>> \in Seq(Voiced(role))
    OBVIOUS
  <2> QED
    BY <1>2, <1>3, <2>1 DEF SentRoles, SystemRoles
<1>5. Carries(IfAny(role, s), s)
  BY <1>4, CarriesIfAny
<1>6. Own \in PartType /\ Own.kind = "own"
  BY NoughtMade DEF Own
<1>7. PICK o \in Seq(PartType) : o = <<Own>>
  <2>1. <<Own>> \in Seq(PartType)
    BY <1>6
  <2> QED
    BY <2>1
<1>8. PICK ps \in Seq(PartType) : ps = o \o s
  <2>1. o \o s \in Seq(PartType)
    OBVIOUS
  <2> QED
    BY <2>1
<1>9. Of(ps, Heard) = s
  <2>1. Of(o \o s, Heard) = Of(o, Heard) \o Of(s, Heard)
    BY OfConcat
  <2>2. Of(s, Heard) = s
    BY <1>4, VoicedHeard
  <2>3. Of(o, Heard) = <<>>
    <3>1. o \in Kinds({"own"})
      BY <1>6, <1>7 DEF Kinds, OfKind
    <3>2. {"own"} \cap Heard = {}
      BY DEF Heard
    <3> QED
      BY <3>1, <3>2, OfKinds
  <2>4. <<>> \o s = s
    OBVIOUS
  <2> QED
    BY <1>8, <2>1, <2>2, <2>3, <2>4
<1>10. ps # <<>> /\ \A i \in 1..Len(ps) : ps[i] = Own \/ ps[i] = System
  BY <1>3, <1>7, <1>8
<1>11. PICK m : m = Msg(role, ps)
  OBVIOUS
<1>12. m \in [role : SentRoles, parts : Seq(PartType)] /\ m.role = role /\ m.parts = ps
  BY <1>4, <1>11 DEF Msg
<1>13. \A i \in 1..Len(ps) : ps[i].kind \in {"own", "blank"} \/ role \in RolesOf(ps[i])
  <2>1. role \in RolesOf(System)
    BY <1>2 DEF Voiced
  <2> QED
    BY <1>6, <1>10, <2>1
<1>14. m \in Fitting
  BY <1>10, <1>12, <1>13 DEF Fitting
<1>15. Flat(<<m>>) = ps
  BY <1>12, <1>14, FlatOne, FittingParts
<1>16. <<m>> \in Seq(Fitting)
  BY <1>14
<1>17. Carries(<<m>>, s)
  BY <1>9, <1>15, <1>16 DEF Carries
<1> QED
  BY <1>1, <1>5, <1>7, <1>8, <1>11, <1>17

-----------------------------------------------------------------------------
(* From the Responses format. *)

\* Parts that are not of a string are what a translator reads of a content that is an array.
LEMMA ListedOf ==
  ASSUME NEW s \in Seq(PartType)
  PROVE  /\ Listed(s) \in Seq(PartType)
         /\ (\A i \in 1..Len(s) : ~s[i].plain) => Listed(s) = s
<1> DEFINE X == {p \in PartType : ~p.plain}
           f == Picks(PartType, X)
<1>1. Maps(f, PartType, PartType) /\ \A p \in PartType : f[p] = IF p \in X THEN <<p>> ELSE <<>>
  BY PicksMap
<1>2. \A p \in PartType : ~p.plain <=> p \in X
  OBVIOUS
<1>0. X \subseteq PartType
  OBVIOUS
<1> HIDE DEF X, f
<1>3. \A i \in DOMAIN s : s[i] \in PartType
  OBVIOUS
<1>4. [i \in DOMAIN s |-> IF ~s[i].plain THEN <<s[i]>> ELSE <<>>] = [i \in DOMAIN s |-> f[s[i]]]
  BY <1>1, <1>2, <1>3
<1>5. Listed(s) = Through(f, s)
  BY <1>4 DEF Listed, Where, Through, Each, Mapped
<1>6. Listed(s) \in Seq(PartType)
  BY <1>1, <1>5, ThroughTyped
<1>7. ASSUME \A i \in 1..Len(s) : ~s[i].plain PROVE Listed(s) = s
  <2>1. s \in Seq(X)
    <3>1. \A i \in 1..Len(s) : s[i] \in X
      BY <1>2, <1>3, <1>7
    <3> QED
      BY <3>1
  <2> DEFINE q == [p \in X |-> <<p>>]
  <2>2. Maps(q, X, X) /\ \A p \in X : q[p] = <<p>> /\ f[p] = q[p]
    BY <1>0, <1>1 DEF Maps
  <2> HIDE DEF q
  <2>3. Through(q, s) = s
    BY <2>1, <2>2, ThroughSame
  <2>4. Through(f, s) = Through(q, s)
    BY <2>1, <2>2, ThroughAlike
  <2> QED
    BY <1>5, <2>3, <2>4
<1> QED
  BY <1>6, <1>7

\* A client of this format that writes its contents as arrays.
ListedType == {p \in PartType : p.kind = "text" => ~p.plain}
ListedTurn == [role : {"user", "model", "tools"}, parts : Seq(ListedType)]
WritesArrays == Source = "responses" /\ "plain" \notin habits
ListedInv == WritesArrays => turns \in Seq(ListedTurn)

LEMMA ListedTagged ==
  ASSUME NEW s \in Seq(ListedType), NEW t \in Int
  PROVE  Tagged(s, t) \in Seq(ListedType)
<1> DEFINE f == [p \in ListedType |-> [p EXCEPT !.turn = t]]
<1>1. \A p \in ListedType : [p EXCEPT !.turn = t] \in ListedType
  <2> SUFFICES ASSUME NEW p \in ListedType PROVE [p EXCEPT !.turn = t] \in ListedType
    OBVIOUS
  <2>1. p \in PartType /\ (p.kind = "text" => ~p.plain)
    BY DEF ListedType
  <2>2. PICK q : q = [p EXCEPT !.turn = t] /\ q \in PartType /\ q.kind = p.kind /\ q.plain = p.plain
    BY <2>1, TagOne
  <2> QED
    BY <2>1, <2>2 DEF ListedType
<1>2. f \in [ListedType -> ListedType]
  BY <1>1
<1>3. \A i \in DOMAIN s : s[i] \in ListedType
  OBVIOUS
<1>4. [i \in DOMAIN s |-> [s[i] EXCEPT !.turn = t]] = [i \in DOMAIN s |-> f[s[i]]]
  BY <1>3
<1> HIDE DEF f
<1>5. Tagged(s, t) = <<>> \o [i \in DOMAIN s |-> f[s[i]]]
  BY <1>4 DEF Tagged, Mapped
<1> QED
  BY <1>2, <1>5, MappedOf

LEMMA ListedTurns ==
  ASSUME turns \in Seq(ListedTurn), NEW role \in {"user", "model", "tools"}, NEW ps \in Seq(ListedType), Turn(role, ps)
  PROVE  turns' \in Seq(ListedTurn)
<1>1. Len(turns) + 1 \in Int
  OBVIOUS
<1>2. Tagged(ps, Len(turns) + 1) \in Seq(ListedType)
  BY <1>1, ListedTagged
<1>3. turns' = Append(turns, Msg(role, Tagged(ps, Len(turns) + 1)))
  BY DEF Turn, Tagged
<1>4. Msg(role, Tagged(ps, Len(turns) + 1)) \in ListedTurn
  BY <1>2 DEF Msg, ListedTurn
<1> QED
  BY <1>3, <1>4

\* What is said next is written as the client writes.
LEMMA ListedParts ==
  ASSUME Said \in Seq(PartType), WritesArrays
  PROVE  /\ <<Text(New)>> \in Seq(ListedType) /\ <<Text(New + 1)>> \in Seq(ListedType)
         /\ \A s \in Seq(PartType) : \A K : s \in Kinds(K) /\ "text" \notin K => s \in Seq(ListedType)
         /\ \A s, u \in Seq(ListedType) : s \o u \in Seq(ListedType)
<1>1. New \in Int /\ New + 1 \in Int
  BY NewIsNew
<1>2. ~WrittenPlain
  BY DEF WritesArrays, WrittenPlain
<1>3. \A n \in Int : Text(n) \in ListedType
  BY <1>2, TextMade DEF ListedType
<1>4. \A K : "text" \notin K => OfKind(PartType, K) \subseteq ListedType
  BY DEF OfKind, ListedType
<1>5. <<Text(New)>> \in Seq(ListedType) /\ <<Text(New + 1)>> \in Seq(ListedType)
  BY <1>1, <1>3
<1>6. ASSUME NEW K, "text" \notin K, NEW s \in Kinds(K) PROVE s \in Seq(ListedType)
  <2>1. \A X, Y : X \subseteq Y => \A x \in Seq(X) : x \in Seq(Y)
    OBVIOUS
  <2>2. s \in Seq(OfKind(PartType, K)) /\ OfKind(PartType, K) \subseteq ListedType
    BY <1>4, <1>6 DEF Kinds
  <2> QED
    BY <2>1, <2>2
<1>7. \A s, u \in Seq(ListedType) : s \o u \in Seq(ListedType)
  OBVIOUS
<1> QED
  BY <1>5, <1>6, <1>7

LEMMA ArraysStay ==
  ASSUME NEW hs, hs \subseteq Noted, Noting(hs), pair' = pair, WritesArrays'
  PROVE  WritesArrays
BY StyleStays DEF WritesArrays, SameStyle, Source

LEMMA NextListed ==
  ASSUME Source \in Clients => ClientInv, ListedInv, [Next]_vars
  PROVE  ListedInv'
<1>0. pair' = pair
  BY DEF Next, UserSays, ModelAnswers, ToolsAnswer, Turn, vars
<1> SUFFICES ASSUME WritesArrays' PROVE turns' \in Seq(ListedTurn)
  BY DEF ListedInv
<1>1. Source = "responses" /\ Source \in Clients
  BY <1>0 DEF WritesArrays, Source, Clients
<1>2. turns \in Seq(TurnType) /\ Said \in Seq(PartType) /\ AskedInv
  BY <1>1, SaidTyped DEF ClientInv, ConversationInv
<1>3. ASSUME WritesArrays
      PROVE  /\ <<Text(New)>> \in Seq(ListedType) /\ <<Text(New + 1)>> \in Seq(ListedType) /\ <<>> \in Seq(ListedType)
             /\ \A s \in Seq(PartType) : \A K : s \in Kinds(K) /\ "text" \notin K => s \in Seq(ListedType)
             /\ \A s, u \in Seq(ListedType) : s \o u \in Seq(ListedType)
             /\ turns \in Seq(ListedTurn)
  BY <1>2, <1>3, ListedParts DEF ListedInv
<1>4. CASE UserSays
  <2>1. PICK hs : hs \subseteq Noted /\ Noting(hs)
    BY <1>4 DEF UserSays, Noted
  <2>2. WritesArrays /\ Turn("user", <<Text(New)>>)
    BY <1>0, <1>4, <2>1, ArraysStay DEF UserSays
  <2> QED
    BY <1>3, <2>2, ListedTurns
<1>5. ASSUME NEW thought \in BOOLEAN, NEW text \in BOOLEAN, NEW k \in 0..2, NEW names \in [1..k -> {"f", "g"}],
             ModelAnswers(thought, text, names)
      PROVE  turns' \in Seq(ListedTurn)
  <2> DEFINE a == IF thought THEN <<Part("thought", New)>> ELSE <<>>
             b == IF text THEN <<Text(New + 1)>> ELSE <<>>
             us == NewUses(names)
  <2>1. WritesArrays
    BY <1>0, <1>5 DEF ModelAnswers, WritesArrays, Source
  <2>2. Turn("model", (a \o b) \o us)
    BY <1>5 DEF ModelAnswers, NewUses
  <2>3. a = <<>>
    BY <1>1, <1>5 DEF ModelAnswers
  <2>4. b \in Seq(ListedType)
    BY <1>3, <2>1
  <2>5. us \in Seq(ListedType)
    <3>1. Numbered(us, k)
      BY <1>1, <1>2, NewUsesNumbered
    <3>2. us \in Kinds({"use"}) /\ us \in Seq(PartType)
      BY <1>2, <3>1, SayUses DEF Numbered
    <3> DEFINE K == {"use"}
    <3>3. us \in Kinds(K) /\ "text" \notin K
      BY <3>2
    <3> HIDE DEF K
    <3> QED
      BY <1>3, <2>1, <3>2, <3>3
  <2> HIDE DEF a, b, us
  <2>6. (a \o b) \o us \in Seq(ListedType)
    BY <1>3, <2>1, <2>3, <2>4, <2>5
  <2> QED
    BY <1>3, <2>1, <2>2, <2>6, ListedTurns
<1>6. ASSUME NEW k \in 1..Len(asked), NEW text \in BOOLEAN, NEW order \in [1..k -> DOMAIN asked], IsInjective(order),
             ToolsAnswer(Picked(order), text)
      PROVE  turns' \in Seq(ListedTurn)
  <2> DEFINE an == Picked(order)
             rs == Mapped(ResultOf, an)
             b == IF text THEN <<Text(New)>> ELSE <<>>
  <2>1. PICK hs : hs \subseteq Noted /\ Noting(hs)
    BY <1>6 DEF ToolsAnswer, Noted
  <2>2. WritesArrays
    BY <1>0, <2>1, ArraysStay
  <2>3. Turn("tools", rs \o b)
    BY <1>6 DEF ToolsAnswer
  <2>4. b \in Seq(ListedType)
    BY <1>3, <2>2
  <2>5. Chosen(an)
    BY <1>2, <1>6, PickedChosen
  <2> HIDE DEF an
  <2>6. Answers(rs, an)
    BY <1>1, <2>5, ResultsAnswers DEF Chosen
  <2> HIDE DEF rs
  <2>7. rs \in Kinds({"result"}) /\ rs \in Seq(PartType)
    BY <1>2, <2>5, <2>6, SayResults, KindsParts
  <2> DEFINE K == {"result"}
  <2>8. rs \in Kinds(K) /\ "text" \notin K
    BY <2>7
  <2> HIDE DEF K
  <2>9. rs \in Seq(ListedType)
    BY <1>3, <2>2, <2>7, <2>8
  <2> HIDE DEF b
  <2>10. rs \o b \in Seq(ListedType)
    BY <1>3, <2>2, <2>4, <2>9
  <2> QED
    BY <1>3, <2>2, <2>3, <2>10, ListedTurns
<1>7. CASE UNCHANGED vars
  <2>1. WritesArrays /\ turns' = turns
    BY <1>7 DEF vars, WritesArrays, Source
  <2> QED
    BY <1>3, <2>1
<1> QED
  BY <1>4, <1>5, <1>6, <1>7 DEF Next, Picked

LEMMA TurnsListed == Spec => [](Source \in Clients => ClientInv) /\ []ListedInv
<1>1. Init => ListedInv
  <2>1. <<>> \in Seq(ListedTurn)
    OBVIOUS
  <2> QED
    BY <2>1 DEF Init, ListedInv
<1>2. (Source \in Clients => ClientInv) /\ ListedInv /\ [Next]_vars => ListedInv'
  BY NextListed
<1> QED
  BY <1>1, <1>2, ClientsTalk, PTL DEF Spec

\* So what it sends of a turn and of the system is all read.
LEMMA AllListed ==
  ASSUME ListedInv, WritesArrays, ConversationInv
  PROVE  Listed(<<System>>) = <<System>> /\ \A m \in Turns : Listed(Texts(m)) = Texts(m) /\ \A i \in 1..Len(Texts(m)) : ~Texts(m)[i].plain
<1>1. ~System.plain
  <2> DEFINE p == Part("system", 0)
  <2>1. p \in PartType /\ p.plain = FALSE
    BY NoughtMade
  <2>2. System = p \/ System = Written(p)
    BY DEF System
  <2>3. ~WrittenPlain
    BY DEF WritesArrays, WrittenPlain
  <2> HIDE DEF p
  <2> QED
    BY <2>1, <2>2, <2>3, WrittenPart
<1>2. PICK s \in Seq(PartType) : s = <<System>> /\ \A i \in 1..Len(s) : ~s[i].plain
  <2>1. <<System>> \in Seq(PartType) /\ \A i \in 1..Len(<<System>>) : <<System>>[i] = System
    BY SystemPart
  <2> QED
    BY <1>1, <2>1
<1>3. Listed(<<System>>) = <<System>>
  BY <1>2, ListedOf
<1>4. ASSUME NEW m \in Turns PROVE Listed(Texts(m)) = Texts(m) /\ \A i \in 1..Len(Texts(m)) : ~Texts(m)[i].plain
  <2>1. PICK i \in 1..Len(turns) : m = turns[i]
    BY DEF Turns
  <2>2. m \in ListedTurn
    BY <2>1 DEF ListedInv
  <2>3. m.parts \in Seq(ListedType) /\ m.parts \in Seq(PartType)
    <3>1. m.parts \in Seq(ListedType) /\ ListedType \subseteq PartType
      BY <2>2 DEF ListedTurn, ListedType
    <3> QED
      BY <3>1
  <2>4. PICK ps \in Seq(PartType) : ps = m.parts /\ \A j \in 1..Len(ps) : ps[j].kind = "text" => ~ps[j].plain
    <3>1. \A j \in 1..Len(m.parts) : m.parts[j] \in ListedType
      BY <2>3
    <3> QED
      BY <2>3, <3>1 DEF ListedType
  <2>5. PICK K : K = {"text"}
    OBVIOUS
  <2>6. PICK X \in Seq(PartType) : X = Texts(m) /\ X = Of(ps, K)
    BY <2>4, <2>5, OfTyped DEF Texts
  <2>7. \A j \in 1..Len(X) : X[j].kind \in K /\ \E l \in 1..Len(ps) : X[j] = ps[l]
    BY <2>6, OfMembers
  <2>8. \A j \in 1..Len(X) : ~X[j].plain
    BY <2>4, <2>5, <2>7
  <2> QED
    BY <2>6, <2>8, ListedOf
<1> QED
  BY <1>3, <1>4

ChatOfItem ==
  [m \in Sent |-> CASE m.role = "item" /\ m.parts[1].kind = "use" -> Msg("model", m.parts)
                    [] m.role = "item" /\ m.parts[1].kind = "result" -> Msg("tool", m.parts)
                    [] m.role = "instructions" -> Msg("system", m.parts)
                    [] m.role = "input" -> Msg("user", m.parts)
                    [] OTHER -> Msg(m.role, Listed(m.parts))]

LEMMA MsgIs ==
  ASSUME NEW m \in Bodies, NEW role \in SentRoles
  PROVE  Msg(role, m.parts) \in Bodies /\ Msg(role, Listed(m.parts)) \in Bodies
<1>1. PICK s \in Seq(PartType) : s = m.parts
  BY DEF Bodies
<1>2. Listed(s) \in Seq(PartType)
  BY ListedOf
<1> QED
  BY <1>1, <1>2 DEF Msg, Bodies

LEMMA ItemOf ==
  ASSUME NEW K, NEW p \in OfKind(PartType, K)
  PROVE  /\ Msg("item", <<p>>) \in Sent /\ Msg("item", <<p>>).role = "item" /\ Msg("item", <<p>>).parts = <<p>>
         /\ Msg("item", <<p>>).parts[1].kind \in K
<1>1. p \in PartType /\ p.kind \in K
  BY DEF OfKind
<1>2. <<p>> \in Seq(PartType) /\ <<p>> # <<>> /\ <<p>>[1] = p
  BY <1>1
<1>3. PICK s \in Seq(PartType) : s = <<p>> /\ s # <<>> /\ s[1] = p
  BY <1>2
<1>4. "item" \in SentRoles
  BY DEF SentRoles
<1>5. Msg("item", s) \in Sent /\ Msg("item", s).role = "item" /\ Msg("item", s).parts = s
  BY <1>3, <1>4, MsgSent
<1> QED
  BY <1>1, <1>3, <1>5

LEMMA ChatOfItemIs ==
  /\ ChatOfItem \in [Sent -> Bodies]
  /\ \A p \in OfKind(PartType, {"result"}) : Msg("item", <<p>>) \in Sent /\ ChatOfItem[Msg("item", <<p>>)] = Msg("tool", <<p>>)
  /\ \A p \in OfKind(PartType, {"use"}) : Msg("item", <<p>>) \in Sent /\ ChatOfItem[Msg("item", <<p>>)] = Msg("model", <<p>>)
  /\ \A m \in Sent : m.role \in {"user", "model", "system", "developer"} => ChatOfItem[m] = Msg(m.role, Listed(m.parts))
  /\ \A m \in Sent : m.role = "instructions" => ChatOfItem[m] = Msg("system", m.parts)
  /\ \A m \in Sent : m.role = "input" => ChatOfItem[m] = Msg("user", m.parts)
<1>1. ASSUME NEW m \in Sent PROVE ChatOfItem[m] \in Bodies
  <2>1. m \in Bodies /\ {"model", "tool", "system", "user"} \subseteq SentRoles /\ m.role \in SentRoles
    BY DEF Sent, Bodies, SentRoles, SystemRoles
  <2>2. /\ Msg("model", m.parts) \in Bodies /\ Msg("tool", m.parts) \in Bodies /\ Msg("system", m.parts) \in Bodies
        /\ Msg("user", m.parts) \in Bodies /\ Msg(m.role, Listed(m.parts)) \in Bodies
    BY <2>1, MsgIs
  <2>3. ChatOfItem[m] \in {Msg(m.role, Listed(m.parts)), Msg("model", m.parts), Msg("tool", m.parts), Msg("system", m.parts),
                           Msg("user", m.parts)}
    BY DEF ChatOfItem
  <2> QED
    BY <2>2, <2>3
<1>2. ChatOfItem \in [Sent -> Bodies]
  BY <1>1 DEF ChatOfItem
<1>4. ASSUME NEW p \in OfKind(PartType, {"result"})
             PROVE Msg("item", <<p>>) \in Sent /\ ChatOfItem[Msg("item", <<p>>)] = Msg("tool", <<p>>)
  <2>1. PICK m \in Sent : m = Msg("item", <<p>>) /\ m.role = "item" /\ m.parts = <<p>> /\ m.parts[1].kind \in {"result"}
    BY ItemOf
  <2> QED
    BY <2>1 DEF ChatOfItem
<1>5. ASSUME NEW p \in OfKind(PartType, {"use"})
             PROVE Msg("item", <<p>>) \in Sent /\ ChatOfItem[Msg("item", <<p>>)] = Msg("model", <<p>>)
  <2>1. PICK m \in Sent : m = Msg("item", <<p>>) /\ m.role = "item" /\ m.parts = <<p>> /\ m.parts[1].kind \in {"use"}
    BY ItemOf
  <2> QED
    BY <2>1 DEF ChatOfItem
<1>6. \A m \in Sent : m.role \in {"user", "model", "system", "developer"} => ChatOfItem[m] = Msg(m.role, Listed(m.parts))
  BY DEF ChatOfItem
<1>7. \A m \in Sent : m.role = "instructions" => ChatOfItem[m] = Msg("system", m.parts)
  BY DEF ChatOfItem
<1>8. \A m \in Sent : m.role = "input" => ChatOfItem[m] = Msg("user", m.parts)
  BY DEF ChatOfItem
<1> QED
  BY <1>2, <1>4, <1>5, <1>6, <1>7, <1>8

\* The system text as one message.
LEMMA SystemThrough ==
  ASSUME NEW g, Maps(g, Sent, Bodies), NEW role,
         g[Msg(SystemRole, <<System>>)] = <<Msg(role, <<System>>)>>
  PROVE  Through(g, SystemSent) = IfAny(role, SystemTold)
<1>1. CASE "system" \notin habits
  BY <1>1, ThroughEmpty DEF SystemSent, SystemTold, IfAny
<1>2. CASE "system" \in habits
  <2>1. PICK m \in Sent : m = Msg(SystemRole, <<System>>)
    BY SystemMessage
  <2>2. Through(g, <<m>>) = g[m]
    BY ThroughOne
  <2>3. <<System>> # <<>>
    OBVIOUS
  <2> QED
    BY <1>2, <2>1, <2>2, <2>3 DEF SystemSent, SystemTold, IfAny
<1> QED
  BY <1>1, <1>2

\* Messages with the text of a turn.
LEMMA TextsSent ==
  ASSUME NEW m \in TurnType, Formed(m), Texts(m) # <<>>
  PROVE  /\ Msg(VoiceOf(m), Texts(m)) \in Sent /\ Msg(VoiceOf(m), Texts(m)).role = VoiceOf(m)
         /\ Msg(VoiceOf(m), Texts(m)).parts = Texts(m) /\ VoiceOf(m) \in {"user", "model"}
<1>1. VoiceOf(m) \in SentRoles /\ VoiceOf(m) \in {"user", "model"}
  BY DEF VoiceOf, SentRoles, SystemRoles
<1>2. Texts(m) \in Seq(PartType)
  BY TurnParts, KindsParts
<1> QED
  BY <1>1, <1>2, MsgSent

\* The message of an input that is a string.
LEMMA InputSent ==
  ASSUME NEW m \in TurnType, Formed(m), m.role = "user"
  PROVE  /\ Msg("input", Texts(m)) \in Sent /\ Msg("input", Texts(m)).role = "input" /\ Msg("input", Texts(m)).parts = Texts(m)
<1>1. "input" \in SentRoles
  BY DEF SentRoles
<1>2. Texts(m) \in Seq(PartType) /\ Texts(m) # <<>>
  BY TurnParts, KindsParts, UserParts
<1> QED
  BY <1>1, <1>2, MsgSent

LEMMA InputTold ==
  ASSUME ConversationInv, InputOnly, NEW m \in Turns, NEW g, Maps(g, Sent, Bodies),
         g[Msg("input", Texts(m))] = <<Msg("user", Texts(m))>>
  PROVE  Carries(Through(g, ResponsesTurns[m]), Of(m.parts, Spoken))
<1>1. m \in TurnType /\ Formed(m) /\ m.role = "user" /\ ResponsesTurns[m] = <<Msg("input", Texts(m))>>
  BY TurnFormed, ResponsesTurnsAre
<1>2. PICK M \in Sent : M = Msg("input", Texts(m))
  BY <1>1, InputSent
<1>3. Through(g, <<M>>) = <<Msg("user", Texts(m))>>
  BY <1>2, ThroughOne
<1>4. PICK X \in Seq(PartType) : X = Texts(m) /\ X # <<>>
  BY <1>1, TurnParts, KindsParts, UserParts
<1>5. X \in Seq(Voiced("user")) /\ Of(m.parts, Spoken) = (Results(m) \o X) \o Uses(m)
  BY <1>1, <1>4, TurnsHave DEF TurnFacts, VoiceOf
<1>6. Results(m) = <<>> /\ Uses(m) = <<>>
  BY <1>1, TurnParts
<1>7. (<<>> \o X) \o <<>> = X
  OBVIOUS
<1>8. "user" \in SentRoles
  BY DEF SentRoles
<1>9. Carries(<<Msg("user", X)>>, X)
  BY <1>4, <1>5, <1>8, CarriesOne
<1> QED
  BY <1>1, <1>2, <1>3, <1>4, <1>5, <1>6, <1>7, <1>9

LEMMA ResponsesToChatKeeps ==
  ASSUME ConversationInv, ListedInv, WritesArrays, Target = "chat", SystemRole # "systemInstruction"
  PROVE  Carries(ResponsesToChat(Request), Due)
<1> DEFINE g == Singly(ChatOfItem)
           T == ResponsesTurns
           C == Through(T, turns)
           role == IF SystemRole = "developer" THEN "developer" ELSE "system"
<1>1. turns \in Seq(TurnType) /\ Source = "responses" /\ Target # "antigravity"
  BY DEF ConversationInv, WritesArrays
<1>2. /\ Maps(g, Sent, Bodies) /\ \A m \in Sent : g[m] = <<ChatOfItem[m]>>
      /\ \A ms \in Seq(Sent) : Through(g, ms) = <<>> \o [i \in DOMAIN ms |-> ChatOfItem[ms[i]]]
  BY ChatOfItemIs, SinglyThrough
<1>3. Maps(T, Turns, OfTurns) /\ (~InputOnly => \A m \in Turns : T[m] = Spread(m, "item", "item"))
  BY ResponsesTurnsAre
<1>4. g[Msg(SystemRole, <<System>>)] = <<Msg(role, <<System>>)>>
  <2>1. PICK M \in Sent : M = Msg(SystemRole, <<System>>) /\ M.role = SystemRole /\ M.parts = <<System>>
    BY SystemMessage
  <2>2. SystemRole \in {"system", "instructions", "developer"}
    BY SystemMessage DEF SystemRoles
  <2>3. Listed(<<System>>) = <<System>>
    BY AllListed
  <2>4. ChatOfItem[M] = Msg(role, <<System>>)
    BY <2>1, <2>2, <2>3, ChatOfItemIs
  <2> QED
    BY <1>2, <2>1, <2>4
<1> HIDE DEF T, g
<1>5. Request = SystemSent \o C
  BY <1>1, RequestIs DEF T
<1>6. C \in Seq(Sent) /\ SystemSent \in Seq(Sent) /\ SystemSent \o C \in Seq(Sent)
  BY <1>1, <1>3, TurnsSent
<1>7. ResponsesToChat(Request) = Through(g, Request)
  <2>1. PICK ms \in Seq(Sent) : ms = Request
    BY <1>5, <1>6
  <2>2. \A i \in DOMAIN ms : ms[i] \in Sent
    OBVIOUS
  <2>3. [i \in DOMAIN ms |-> ChatOfItem[ms[i]]]
        = [i \in DOMAIN ms |->
             CASE ms[i].role = "item" /\ ms[i].parts[1].kind = "use" -> Msg("model", ms[i].parts)
               [] ms[i].role = "item" /\ ms[i].parts[1].kind = "result" -> Msg("tool", ms[i].parts)
               [] ms[i].role = "instructions" -> Msg("system", ms[i].parts)
               [] ms[i].role = "input" -> Msg("user", ms[i].parts)
               [] OTHER -> Msg(ms[i].role, Listed(ms[i].parts))]
    BY <2>2 DEF ChatOfItem
  <2> QED
    BY <1>2, <2>1, <2>3 DEF ResponsesToChat, Mapped
<1>8. Through(g, SystemSent \o C) = Through(g, SystemSent) \o Through(g, C)
  BY <1>2, <1>6, ThroughConcat
<1>9. Through(g, SystemSent) = IfAny(role, SystemTold)
  BY <1>2, <1>4, SystemThrough
<1>10. ASSUME NEW m \in Turns PROVE Carries(Through(g, T[m]), Of(m.parts, Spoken))
  <2>1. m \in TurnType /\ Formed(m)
    BY TurnFormed
  <2>2. CASE InputOnly
    <3>1. m.role = "user"
      BY <2>2, ResponsesTurnsAre
    <3>2. g[Msg("input", Texts(m))] = <<Msg("user", Texts(m))>>
      BY <1>2, <2>1, <3>1, InputSent, ChatOfItemIs
    <3> QED
      BY <1>2, <2>2, <3>2, InputTold DEF T
  <2>3. CASE ~InputOnly
    <3>3. \A p \in OfKind(PartType, {"result"}) : g[Msg("item", <<p>>)] = <<Msg("tool", <<p>>)>>
      BY <1>2, ChatOfItemIs
    <3>4. \A p \in OfKind(PartType, {"use"}) : g[Msg("item", <<p>>)] = <<Msg("model", <<p>>)>>
      BY <1>2, ChatOfItemIs
    <3>5. Texts(m) # <<>> => g[Msg(VoiceOf(m), Texts(m))] = <<Msg(VoiceOf(m), Texts(m))>>
      <4>1. Listed(Texts(m)) = Texts(m)
        BY AllListed
      <4> QED
        BY <1>2, <2>1, <4>1, TextsSent, ChatOfItemIs
    <3>6. Through(g, Spread(m, "item", "item")) = Spread(m, "tool", "model")
      BY <1>2, <2>1, <3>3, <3>4, <3>5, SpreadThrough
    <3>7. Carries(Spread(m, "tool", "model"), Of(m.parts, Spoken))
      BY TurnsHave, SpreadCarries
    <3> QED
      BY <1>3, <2>3, <3>6, <3>7
  <2> QED
    BY <2>2, <2>3
<1>11. Carries(IfAny(role, SystemTold), SystemTold)
  BY SystemCarried
<1> HIDE DEF role
<1>12. Carries(IfAny(role, SystemTold) \o Through(g, Through(T, turns)), Due)
  BY <1>1, <1>2, <1>3, <1>10, <1>11, AllCarried
<1> QED
  BY <1>5, <1>7, <1>8, <1>9, <1>12

ClaudeOfItem ==
  [m \in Sent |->
     CASE m.role = "item" -> <<Msg(IF m.parts[1].kind = "use" THEN "model" ELSE "user", m.parts)>>
       [] m.role = "input" -> <<>>
       [] IsSystem(m) -> IF Listed(m.parts) = <<>> THEN <<Msg("system", <<>>)>> ELSE <<>>
       [] OTHER -> IfAny(IF m.role = "developer" THEN "user" ELSE m.role, Listed(m.parts))]

LEMMA ClaudeOfItemIs ==
  /\ Maps(ClaudeOfItem, Sent, Bodies)
  /\ \A p \in OfKind(PartType, {"result"}) : ClaudeOfItem[Msg("item", <<p>>)] = <<Msg("user", <<p>>)>>
  /\ \A p \in OfKind(PartType, {"use"}) : ClaudeOfItem[Msg("item", <<p>>)] = <<Msg("model", <<p>>)>>
  /\ \A m \in Sent : m.role \in {"user", "model"} => ClaudeOfItem[m] = IfAny(m.role, Listed(m.parts))
  /\ \A m \in Sent : m.role = "developer" => ClaudeOfItem[m] = IfAny("user", Listed(m.parts))
  /\ \A m \in Sent : IsSystem(m) /\ Listed(m.parts) # <<>> => ClaudeOfItem[m] = <<>>
<1>1. ASSUME NEW m \in Sent PROVE ClaudeOfItem[m] \in Seq(Bodies)
  <2>1. m \in Bodies /\ {"model", "user", "system"} \subseteq SentRoles /\ m.role \in SentRoles
    BY DEF Sent, Bodies, SentRoles, SystemRoles
  <2>2. /\ Msg("model", m.parts) \in Bodies /\ Msg("user", m.parts) \in Bodies
        /\ Msg("user", Listed(m.parts)) \in Bodies /\ Msg(m.role, Listed(m.parts)) \in Bodies
    BY <2>1, MsgIs
  <2>3. Msg("system", <<>>) \in Bodies
    BY <2>1 DEF Msg, Bodies
  <2>4. ClaudeOfItem[m] \in {<<>>, <<Msg("model", m.parts)>>, <<Msg("user", m.parts)>>, <<Msg("system", <<>>)>>,
                             <<Msg("user", Listed(m.parts))>>, <<Msg(m.role, Listed(m.parts))>>}
    BY DEF ClaudeOfItem, IfAny
  <2>5. \A x \in Bodies : <<x>> \in Seq(Bodies) /\ <<>> \in Seq(Bodies)
    OBVIOUS
  <2> QED
    BY <2>2, <2>3, <2>4, <2>5
<1>2. Maps(ClaudeOfItem, Sent, Bodies)
  BY <1>1 DEF ClaudeOfItem, Maps
<1>4. ASSUME NEW p \in OfKind(PartType, {"result"}) PROVE ClaudeOfItem[Msg("item", <<p>>)] = <<Msg("user", <<p>>)>>
  <2>1. PICK m \in Sent : m = Msg("item", <<p>>) /\ m.role = "item" /\ m.parts = <<p>> /\ m.parts[1].kind \in {"result"}
    BY ItemOf
  <2>2. ClaudeOfItem[m] = <<Msg(IF m.parts[1].kind = "use" THEN "model" ELSE "user", m.parts)>>
    BY <2>1 DEF ClaudeOfItem, IsSystem
  <2> QED
    BY <2>1, <2>2
<1>5. ASSUME NEW p \in OfKind(PartType, {"use"}) PROVE ClaudeOfItem[Msg("item", <<p>>)] = <<Msg("model", <<p>>)>>
  <2>1. PICK m \in Sent : m = Msg("item", <<p>>) /\ m.role = "item" /\ m.parts = <<p>> /\ m.parts[1].kind \in {"use"}
    BY ItemOf
  <2>2. ClaudeOfItem[m] = <<Msg(IF m.parts[1].kind = "use" THEN "model" ELSE "user", m.parts)>>
    BY <2>1 DEF ClaudeOfItem, IsSystem
  <2> QED
    BY <2>1, <2>2
<1>6. \A m \in Sent : m.role \in {"user", "model"} => ClaudeOfItem[m] = IfAny(m.role, Listed(m.parts))
  BY DEF ClaudeOfItem, IsSystem
<1>7. \A m \in Sent : m.role = "developer" => ClaudeOfItem[m] = IfAny("user", Listed(m.parts))
  BY DEF ClaudeOfItem, IsSystem
<1>8. \A m \in Sent : IsSystem(m) /\ Listed(m.parts) # <<>> => ClaudeOfItem[m] = <<>>
  BY DEF ClaudeOfItem, IsSystem
<1> QED
  BY <1>2, <1>4, <1>5, <1>6, <1>7, <1>8

LEMMA ListedNone == Listed(<<>>) = <<>>
<1>1. PICK s \in Seq(PartType) : s = <<>> /\ Len(s) = 0
  <2>1. <<>> \in Seq(PartType) /\ Len(<<>>) = 0
    OBVIOUS
  <2> QED
    BY <2>1
<1>2. \A i \in 1..Len(s) : ~s[i].plain
  BY <1>1
<1> QED
  BY <1>1, <1>2, ListedOf

\* What Claude is given of the system text: in front, or where the developer said it.
LEMMA SystemToClaude ==
  ASSUME ConversationInv, ListedInv, WritesArrays, NEW C \in Seq(OfTurns), NEW P, P = SystemParts(SystemSent \o C)
  PROVE  IfAny("user", Listed(P)) \o Through(ClaudeOfItem, SystemSent) = IfAny("user", SystemTold)
<1>1. PICK M \in Sent : M = Msg(SystemRole, <<System>>) /\ M.role = SystemRole /\ M.parts = <<System>>
  BY SystemMessage
<1>2. Maps(ClaudeOfItem, Sent, Bodies) /\ Listed(<<System>>) = <<System>>
  BY ClaudeOfItemIs, AllListed
<1>3. Listed(<<>>) = <<>> /\ IfAny("user", <<>>) = <<>> /\ <<System>> # <<>> /\ <<>> \o <<>> = <<>>
  BY ListedNone DEF IfAny
<1>4. IfAny("user", <<System>>) = <<Msg("user", <<System>>)>>
  BY <1>3 DEF IfAny
<1>5. CASE "system" \notin habits
  <2>1. SystemSent = <<>> /\ SystemTold = <<>>
    BY <1>5 DEF SystemSent, SystemTold
  <2>2. P = <<>>
    <3>1. <<>> \o C = C
      OBVIOUS
    <3> QED
      BY <2>1, <3>1, TurnsApart
  <2>3. Through(ClaudeOfItem, <<>>) = <<>>
    BY ThroughEmpty
  <2> QED
    BY <1>3, <2>1, <2>2, <2>3
<1>6. CASE "system" \in habits /\ SystemRole = "developer"
  <2>1. P = <<>>
    BY <1>6, DeveloperApart
  <2>2. ClaudeOfItem[Msg(SystemRole, <<System>>)] = <<Msg("user", <<System>>)>>
    BY <1>1, <1>2, <1>4, <1>6, ClaudeOfItemIs
  <2>3. Through(ClaudeOfItem, SystemSent) = IfAny("user", SystemTold)
    BY <1>2, <2>2, SystemThrough
  <2>4. SystemTold = <<System>>
    BY <1>6 DEF SystemTold
  <2>5. <<>> \o <<Msg("user", <<System>>)>> = <<Msg("user", <<System>>)>>
    OBVIOUS
  <2> QED
    BY <1>3, <1>4, <2>1, <2>3, <2>4, <2>5
<1>7. CASE "system" \in habits /\ SystemRole # "developer"
  <2>1. P = SystemTold /\ SystemTold = <<System>> /\ SystemSent = <<M>>
    BY <1>1, <1>7, SystemApart DEF SystemTold, SystemSent
  <2>2. IsSystem(M)
    BY <1>1, <1>7, SystemMessage DEF IsSystem, SystemRoles
  <2>3. ClaudeOfItem[M] = <<>>
    BY <1>1, <1>2, <1>3, <2>2, ClaudeOfItemIs
  <2>4. Through(ClaudeOfItem, <<M>>) = <<>>
    BY <1>2, <2>3, ThroughOne
  <2>5. <<Msg("user", <<System>>)>> \o <<>> = <<Msg("user", <<System>>)>>
    OBVIOUS
  <2> QED
    BY <1>2, <1>4, <2>1, <2>4, <2>5
<1> QED
  BY <1>5, <1>6, <1>7

LEMMA ResponsesToClaudeKeeps ==
  ASSUME ConversationInv, ListedInv, WritesArrays, ~InputOnly, Target = "claude"
  PROVE  Carries(ResponsesToClaude(Request), Due)
<1> DEFINE g == ClaudeOfItem
           T == ResponsesTurns
           C == Through(T, turns)
           P == SystemParts(Request)
           before == IfAny("user", Listed(P))
<1>1. turns \in Seq(TurnType) /\ Source = "responses" /\ Target # "antigravity"
  BY DEF ConversationInv, WritesArrays
<1>2. Maps(g, Sent, Bodies)
  BY ClaudeOfItemIs
<1>3. Maps(T, Turns, OfTurns) /\ \A m \in Turns : T[m] = Spread(m, "item", "item")
  BY ResponsesTurnsAre
<1> HIDE DEF T
<1>4. Request = SystemSent \o C
  BY <1>1, RequestIs DEF T
<1>5. C \in Seq(Sent) /\ C \in Seq(OfTurns) /\ SystemSent \in Seq(Sent)
  BY <1>1, <1>3, TurnsSent
<1>6. before \o Through(g, SystemSent) = IfAny("user", SystemTold)
  BY <1>4, <1>5, SystemToClaude
<1>7. ResponsesToClaude(Request) = before \o Through(g, Request)
  <2> DEFINE Told(u) ==
               FlattenSeq(<<>> \o [i \in DOMAIN u |->
                 CASE u[i].role = "item" -> <<Msg(IF u[i].parts[1].kind = "use" THEN "model" ELSE "user", u[i].parts)>>
                   [] u[i].role = "input" -> <<>>
                   [] IsSystem(u[i]) -> IF Listed(u[i].parts) = <<>> THEN <<Msg("system", <<>>)>> ELSE <<>>
                   [] OTHER -> IfAny(IF u[i].role = "developer" THEN "user" ELSE u[i].role, Listed(u[i].parts))])
  <2>1. ResponsesToClaude(Request) = before \o Told(Request)
    BY DEF ResponsesToClaude, Each, Mapped
  <2>2. PICK ms \in Seq(Sent) : ms = Request
    <3>1. SystemSent \o C \in Seq(Sent)
      BY <1>5
    <3> QED
      BY <1>4, <3>1
  <2>3. \A i \in DOMAIN ms : ms[i] \in Sent
    OBVIOUS
  <2>4. [i \in DOMAIN ms |->
           CASE ms[i].role = "item" -> <<Msg(IF ms[i].parts[1].kind = "use" THEN "model" ELSE "user", ms[i].parts)>>
             [] ms[i].role = "input" -> <<>>
             [] IsSystem(ms[i]) -> IF Listed(ms[i].parts) = <<>> THEN <<Msg("system", <<>>)>> ELSE <<>>
             [] OTHER -> IfAny(IF ms[i].role = "developer" THEN "user" ELSE ms[i].role, Listed(ms[i].parts))]
        = [i \in DOMAIN ms |-> g[ms[i]]]
    BY <2>3 DEF ClaudeOfItem
  <2>5. Told(ms) = Through(g, ms)
    BY <2>4 DEF Through, Each, Mapped
  <2> HIDE DEF Told, g, before
  <2> QED
    BY <2>1, <2>2, <2>5
<1>8. ASSUME NEW m \in Turns PROVE Carries(Through(g, T[m]), Of(m.parts, Spoken))
  <2>1. m \in TurnType /\ Formed(m)
    BY TurnFormed
  <2>3. \A p \in OfKind(PartType, {"result"}) : g[Msg("item", <<p>>)] = <<Msg("user", <<p>>)>>
    BY ClaudeOfItemIs
  <2>4. \A p \in OfKind(PartType, {"use"}) : g[Msg("item", <<p>>)] = <<Msg("model", <<p>>)>>
    BY ClaudeOfItemIs
  <2>5. Texts(m) # <<>> => g[Msg(VoiceOf(m), Texts(m))] = <<Msg(VoiceOf(m), Texts(m))>>
    <3> SUFFICES ASSUME Texts(m) # <<>> PROVE g[Msg(VoiceOf(m), Texts(m))] = <<Msg(VoiceOf(m), Texts(m))>>
      OBVIOUS
    <3>1. PICK M \in Sent : M = Msg(VoiceOf(m), Texts(m)) /\ M.role = VoiceOf(m) /\ M.parts = Texts(m)
                            /\ M.role \in {"user", "model"}
      BY <2>1, TextsSent
    <3>2. Listed(Texts(m)) = Texts(m)
      BY AllListed
    <3>3. g[M] = IfAny(VoiceOf(m), Texts(m))
      BY <3>1, <3>2, ClaudeOfItemIs
    <3> QED
      BY <3>1, <3>3 DEF IfAny
  <2>6. Through(g, Spread(m, "item", "item")) = Spread(m, "user", "model")
    BY <1>2, <2>1, <2>3, <2>4, <2>5, SpreadThrough
  <2>7. Carries(Spread(m, "user", "model"), Of(m.parts, Spoken))
    BY TurnsHave, SpreadCarries
  <2> QED
    BY <1>3, <2>6, <2>7
<1> HIDE DEF g
<1>9. Carries(IfAny("user", SystemTold), SystemTold)
  BY SystemCarried
<1>10. Carries(IfAny("user", SystemTold) \o Through(g, C), Due)
  BY <1>1, <1>2, <1>3, <1>8, <1>9, AllCarried
<1>11. Through(g, SystemSent \o C) = Through(g, SystemSent) \o Through(g, C)
  BY <1>2, <1>5, ThroughConcat
<1>12. before \o (Through(g, SystemSent) \o Through(g, C)) = (before \o Through(g, SystemSent)) \o Through(g, C)
  <2>1. before \in Seq(Bodies)
    <3>1. Listed(P) \in Seq(PartType)
      <4>1. P \in Seq(PartType)
        <5>1. PICK ms \in Seq(Sent) : ms = Request
          <6>1. SystemSent \o C \in Seq(Sent)
            BY <1>5
          <6> QED
            BY <1>4, <6>1
        <5> QED
          BY <5>1, SystemPartsThrough, ThroughTyped
      <4> QED
        BY <4>1, ListedOf
    <3>2. IfAny("user", Listed(P)) \in Seq(OfTurns)
      BY <3>1, IfAnySent
    <3>3. OfTurns \subseteq Bodies
      BY DEF OfTurns, Sent
    <3> QED
      BY <3>2, <3>3
  <2>2. PICK a \in Seq(Bodies) : a = Through(g, SystemSent)
    BY <1>2, <1>5, ThroughTyped
  <2>3. PICK b \in Seq(Bodies) : b = Through(g, C)
    BY <1>2, <1>5, ThroughTyped
  <2>4. PICK d \in Seq(Bodies) : d = before
    BY <2>1
  <2>5. d \o (a \o b) = (d \o a) \o b
    OBVIOUS
  <2> QED
    BY <2>2, <2>3, <2>4, <2>5
<1> HIDE DEF C, P, before
<1> QED
  BY <1>4, <1>6, <1>7, <1>10, <1>11, <1>12

LEMMA ThroughFirst ==
  ASSUME NEW X, NEW Y, NEW f, Maps(f, X, Y), NEW s \in Seq(X), s # <<>>, NEW y, f[s[1]] = <<y>>
  PROVE  Through(f, s) # <<>> /\ Through(f, s)[1] = y
<1>1. PICK x \in X : x = s[1]
  BY DEF Maps
<1>2. PICK a \in Seq(X) : a = <<x>>
  <2>1. <<x>> \in Seq(X)
    OBVIOUS
  <2> QED
    BY <2>1
<1>3. PICK b \in Seq(X) : b = Tail(s)
  <2>1. Tail(s) \in Seq(X)
    OBVIOUS
  <2> QED
    BY <2>1
<1>4. s = a \o b
  BY <1>1, <1>2, <1>3
<1>5. Through(f, s) = Through(f, a) \o Through(f, b)
  BY <1>4, ThroughConcat
<1>6. Through(f, a) = <<y>>
  BY <1>1, <1>2, ThroughOne
<1>7. PICK t \in Seq(Y) : t = Through(f, b)
  BY ThroughTyped
<1>8. y \in Y
  <2>1. f[s[1]] \in Seq(Y)
    BY <1>1 DEF Maps
  <2> QED
    BY <2>1
<1>9. <<y>> \o t # <<>> /\ (<<y>> \o t)[1] = y
  BY <1>8
<1> QED
  BY <1>5, <1>6, <1>7, <1>9

\* Codex is given the messages as they are, an input that is a string as the user's.
CodexOfItem == [m \in Sent |-> IF m.role = "input" THEN Msg("user", m.parts) ELSE m]

LEMMA CodexOfItemIs ==
  /\ CodexOfItem \in [Sent -> Bodies]
  /\ \A m \in Sent : m.role # "input" => CodexOfItem[m] = m
  /\ \A m \in Sent : m.role = "input" => CodexOfItem[m] = Msg("user", m.parts)
<1>1. ASSUME NEW m \in Sent PROVE CodexOfItem[m] \in Bodies
  <2>1. m \in Bodies /\ "user" \in SentRoles
    BY DEF Sent, SentRoles
  <2>2. Msg("user", m.parts) \in Bodies
    BY <2>1, MsgIs
  <2> QED
    BY <2>1, <2>2 DEF CodexOfItem
<1>2. CodexOfItem \in [Sent -> Bodies]
  BY <1>1 DEF CodexOfItem
<1> QED
  BY <1>2 DEF CodexOfItem

LEMMA FirstTurnTold ==
  ASSUME ConversationInv, ListedInv, WritesArrays, turns # <<>>,
         NEW items, items = Through(Singly(CodexOfItem), Through(ResponsesTurns, turns))
  PROVE  BeginsWithText(items) /\ ~items[1].parts[1].plain
<1> DEFINE m == turns[1]
           g == Singly(CodexOfItem)
<1>1. turns \in Seq(TurnType) /\ m.role = "user"
  BY DEF ConversationInv
<1>2. turns \in Seq(Turns) /\ m \in Turns
  BY <1>1, TurnsTyped
<1> HIDE DEF m
<1>3. m \in TurnType /\ Formed(m)
  BY <1>2, TurnFormed
<1>4. Texts(m) # <<>> /\ Uses(m) = <<>>
  BY <1>1, <1>3 DEF Formed
<1>5. PICK X \in Seq(PartType) : X = Texts(m) /\ \A i \in 1..Len(X) : X[i].kind = "text" /\ ~X[i].plain
  <2>1. PICK X \in Kinds({"text"}) : X = Texts(m)
    BY <1>3, TurnParts
  <2>2. X \in Seq(PartType)
    BY KindsParts
  <2>3. \A i \in 1..Len(X) : X[i].kind = "text"
    BY DEF Kinds, OfKind
  <2> QED
    BY <1>2, <2>1, <2>2, <2>3, AllListed
<1>6. Alone("item", <<>>) = <<>>
  BY DEF Alone, Mapped
<1>7. PICK v \in {"user", "input"} : v = IF InputOnly THEN "input" ELSE "user"
  OBVIOUS
<1>8. PICK M \in Sent : M = Msg(v, X) /\ M.parts = X /\ M.role = v
  <2>1. v \in SentRoles
    BY DEF SentRoles
  <2> QED
    BY <1>4, <1>5, <2>1, MsgSent
<1>9. ResponsesTurns[m] = <<M>>
  <2>1. CASE InputOnly
    BY <1>2, <1>5, <1>7, <1>8, <2>1, ResponsesTurnsAre
  <2>2. CASE ~InputOnly
    <3>1. VoiceOf(m) = "user" /\ m.role # "tools"
      BY <1>1 DEF VoiceOf
    <3>2. IfAny("user", X) = <<M>>
      BY <1>4, <1>5, <1>7, <1>8, <2>2 DEF IfAny
    <3>3. <<M>> \o <<>> = <<M>>
      OBVIOUS
    <3>4. Spread(m, "item", "item") = <<M>>
      BY <1>4, <1>5, <1>6, <3>1, <3>2, <3>3 DEF Spread
    <3> QED
      BY <1>2, <2>2, <3>4, ResponsesTurnsAre
  <2> QED
    BY <2>1, <2>2
<1>10. Maps(ResponsesTurns, Turns, OfTurns)
  BY ResponsesTurnsAre
<1>11. PICK C : C = Through(ResponsesTurns, turns) /\ C # <<>> /\ C[1] = M
  BY <1>2, <1>9, <1>10, ThroughFirst DEF m
<1>12. C \in Seq(Sent)
  BY <1>1, <1>10, <1>11, TurnsSent
<1> DEFINE N == Msg("user", X)
<1>13. N = Msg("user", X) /\ N.parts = X
  BY DEF Msg
<1> HIDE DEF N
<1>14. Maps(g, Sent, Bodies) /\ g[M] = <<N>>
  <2>1. Maps(g, Sent, Bodies) /\ g[M] = <<CodexOfItem[M]>>
    BY CodexOfItemIs, SinglyThrough
  <2>2. CodexOfItem[M] = N
    BY <1>8, <1>13, CodexOfItemIs
  <2> QED
    BY <2>1, <2>2
<1> HIDE DEF g
<1>15. Through(g, C) # <<>> /\ Through(g, C)[1] = N
  BY <1>11, <1>12, <1>14, ThroughFirst
<1>16. items = Through(g, C)
  BY <1>11 DEF g
<1>17. X # <<>> /\ X[1].kind = "text" /\ ~X[1].plain
  BY <1>4, <1>5
<1> QED
  BY <1>13, <1>15, <1>16, <1>17 DEF BeginsWithText

\* The preamble carries nothing.
LEMMA OwnCarried == Carries(<<Msg("user", <<Own>>)>>, <<>>)
<1>1. Own \in PartType /\ Own.kind = "own"
  BY NoughtMade DEF Own
<1>2. PICK o \in Seq(PartType) : o = <<Own>> /\ o # <<>> /\ \A i \in 1..Len(o) : o[i] = Own
  <2>1. <<Own>> \in Seq(PartType) /\ <<Own>> # <<>> /\ \A i \in 1..Len(<<Own>>) : <<Own>>[i] = Own
    BY <1>1
  <2> QED
    BY <2>1
<1>3. Of(o, Heard) = <<>>
  <2>1. o \in Kinds({"own"})
    BY <1>1, <1>2 DEF Kinds, OfKind
  <2>2. {"own"} \cap Heard = {}
    BY DEF Heard
  <2> QED
    BY <2>1, <2>2, OfKinds
<1>4. PICK m : m = Msg("user", o)
  OBVIOUS
<1>5. m \in [role : SentRoles, parts : Seq(PartType)] /\ m.parts = o
  BY <1>4 DEF Msg, SentRoles
<1>6. m \in Fitting
  BY <1>1, <1>2, <1>5 DEF Fitting
<1>7. Flat(<<m>>) = o
  BY <1>5, <1>6, FlatOne, FittingParts
<1>8. <<m>> \in Seq(Fitting)
  BY <1>6
<1> QED
  BY <1>2, <1>3, <1>4, <1>7, <1>8 DEF Carries

\* The system text reaches Codex with the preamble, or as the developer's message.
CodexReads == "system" \notin habits \/ SystemRole = "developer" \/ WritesArrays

LEMMA ResponsesToCodexKeeps ==
  ASSUME ConversationInv, ListedInv, Source = "responses", CodexReads, Target = "codex", turns # <<>>
  PROVE  Carries(ResponsesToCodex(Request), Due)
<1> DEFINE g == Singly(CodexOfItem)
           T == ResponsesTurns
           C == Through(T, turns)
           told == Through(g, C)
<1>1. turns \in Seq(TurnType) /\ Target # "antigravity"
  BY DEF ConversationInv
<1>2. /\ Maps(g, Sent, Bodies) /\ \A m \in Sent : g[m] = <<CodexOfItem[m]>>
      /\ \A ms \in Seq(Sent) : Through(g, ms) = <<>> \o [i \in DOMAIN ms |-> CodexOfItem[ms[i]]]
  BY CodexOfItemIs, SinglyThrough
<1>3. Maps(T, Turns, OfTurns) /\ (~InputOnly => \A m \in Turns : T[m] = Spread(m, "item", "item"))
  BY ResponsesTurnsAre
<1>4. ASSUME WritesArrays PROVE BeginsWithText(told) /\ ~told[1].parts[1].plain
  BY <1>4, FirstTurnTold
<1> HIDE DEF T, g
<1>5. Request = SystemSent \o C
  BY <1>1, RequestIs DEF T
<1>6. C \in Seq(Sent) /\ C \in Seq(OfTurns) /\ SystemSent \in Seq(Sent)
  BY <1>1, <1>3, TurnsSent
<1>7. ASSUME NEW m \in Turns PROVE Carries(Through(g, T[m]), Of(m.parts, Spoken))
  <2>1. m \in TurnType /\ Formed(m)
    BY TurnFormed
  <2>2. CASE InputOnly
    <3>1. m.role = "user"
      BY <2>2, ResponsesTurnsAre
    <3>2. g[Msg("input", Texts(m))] = <<Msg("user", Texts(m))>>
      BY <1>2, <2>1, <3>1, InputSent, CodexOfItemIs
    <3> QED
      BY <1>2, <2>2, <3>2, InputTold DEF T
  <2>3. CASE ~InputOnly
    <3>3. \A p \in OfKind(PartType, {"result"}) : g[Msg("item", <<p>>)] = <<Msg("item", <<p>>)>>
      <4> SUFFICES ASSUME NEW p \in OfKind(PartType, {"result"}) PROVE g[Msg("item", <<p>>)] = <<Msg("item", <<p>>)>>
        OBVIOUS
      <4>1. PICK M \in Sent : M = Msg("item", <<p>>) /\ M.role = "item"
        BY ItemOf
      <4> QED
        BY <1>2, <4>1, CodexOfItemIs
    <3>4. \A p \in OfKind(PartType, {"use"}) : g[Msg("item", <<p>>)] = <<Msg("item", <<p>>)>>
      <4> SUFFICES ASSUME NEW p \in OfKind(PartType, {"use"}) PROVE g[Msg("item", <<p>>)] = <<Msg("item", <<p>>)>>
        OBVIOUS
      <4>1. PICK M \in Sent : M = Msg("item", <<p>>) /\ M.role = "item"
        BY ItemOf
      <4> QED
        BY <1>2, <4>1, CodexOfItemIs
    <3>5. Texts(m) # <<>> => g[Msg(VoiceOf(m), Texts(m))] = <<Msg(VoiceOf(m), Texts(m))>>
      BY <1>2, <2>1, TextsSent, CodexOfItemIs
    <3>6. Through(g, Spread(m, "item", "item")) = Spread(m, "item", "item")
      BY <1>2, <2>1, <3>3, <3>4, <3>5, SpreadThrough
    <3>7. Carries(Spread(m, "item", "item"), Of(m.parts, Spoken))
      BY TurnsHave, SpreadCarries
    <3> QED
      BY <1>3, <2>3, <3>6, <3>7
  <2> QED
    BY <2>2, <2>3
<1>8. ASSUME NEW P, NEW R \in Seq(Sent), P = SystemParts(Request), R = Rest(Request)
      PROVE  ResponsesToCodex(Request)
             = (IF BeginsWithText(Through(g, R)) /\ ~Through(g, R)[1].parts[1].plain
                THEN <<Msg("user", <<Own>> \o Listed(P))>> ELSE <<>>) \o Through(g, R)
  <2>1. \A i \in DOMAIN R : R[i] \in Sent
    OBVIOUS
  <2>2. [i \in DOMAIN R |-> IF R[i].role = "input" THEN Msg("user", R[i].parts) ELSE R[i]]
        = [i \in DOMAIN R |-> CodexOfItem[R[i]]]
    BY <2>1 DEF CodexOfItem
  <2>3. Through(g, R) = <<>> \o [i \in DOMAIN R |-> IF R[i].role = "input" THEN Msg("user", R[i].parts) ELSE R[i]]
    BY <1>2, <2>2
  <2> QED
    BY <1>8, <2>3 DEF ResponsesToCodex, Mapped
<1>9. ASSUME NEW before, Carries(before, SystemTold) PROVE Carries(before \o told, Due)
  BY <1>1, <1>2, <1>3, <1>7, <1>9, AllCarried
<1>10. ASSUME NEW B \in BOOLEAN PROVE Carries(IF B THEN <<Msg("user", <<Own>>)>> ELSE <<>>, <<>>)
  BY OwnCarried, CarriesNothing
<1>11. Listed(<<>>) = <<>> /\ <<Own>> \o <<>> = <<Own>>
  BY ListedNone
<1> HIDE DEF C, told
<1>12. CASE "system" \notin habits
  <2>1. SystemSent = <<>> /\ SystemTold = <<>>
    BY <1>12 DEF SystemSent, SystemTold
  <2>2. Request = C
    <3>1. <<>> \o C = C
      BY <1>6
    <3> QED
      BY <1>5, <2>1, <3>1
  <2>3. SystemParts(Request) = <<>> /\ Rest(Request) = C
    BY <1>6, <2>2, TurnsApart
  <2>4. PICK B \in BOOLEAN : B = (BeginsWithText(told) /\ ~told[1].parts[1].plain)
    BY DEF BeginsWithText
  <2>5. ResponsesToCodex(Request) = (IF B THEN <<Msg("user", <<Own>>)>> ELSE <<>>) \o told
    BY <1>6, <1>8, <1>11, <2>3, <2>4 DEF told
  <2> QED
    BY <1>9, <1>10, <2>1, <2>5
<1>13. CASE "system" \in habits /\ SystemRole = "developer"
  <2>1. SystemParts(Request) = <<>> /\ Rest(Request) = SystemSent \o C
    BY <1>5, <1>6, <1>13, DeveloperApart
  <2>2. PICK R \in Seq(Sent) : R = SystemSent \o C
    <3>1. SystemSent \o C \in Seq(Sent)
      BY <1>6
    <3> QED
      BY <3>1
  <2>3. Through(g, R) = Through(g, SystemSent) \o told
    BY <1>2, <1>6, <2>2, ThroughConcat DEF told
  <2>4. Through(g, SystemSent) = IfAny("developer", SystemTold)
    <3>1. g[Msg(SystemRole, <<System>>)] = <<Msg("developer", <<System>>)>>
      <4>1. PICK M \in Sent : M = Msg(SystemRole, <<System>>) /\ M.role = SystemRole
        BY SystemMessage
      <4> QED
        BY <1>2, <1>13, <4>1, CodexOfItemIs
    <3> QED
      BY <1>2, <3>1, SystemThrough
  <2>5. Carries(IfAny("developer", SystemTold), SystemTold)
    BY SystemCarried
  <2>6. PICK B \in BOOLEAN : B = (BeginsWithText(Through(g, R)) /\ ~Through(g, R)[1].parts[1].plain)
    BY DEF BeginsWithText
  <2> DEFINE own == IF B THEN <<Msg("user", <<Own>>)>> ELSE <<>>
             dev == IfAny("developer", SystemTold)
  <2>7. ResponsesToCodex(Request) = own \o (dev \o told)
    BY <1>8, <1>11, <2>1, <2>2, <2>3, <2>4, <2>6
  <2>8. Carries(own, <<>>)
    BY <1>10
  <2> HIDE DEF own, dev
  <2>9. Carries(own \o dev, <<>> \o SystemTold)
    BY <2>5, <2>8, CarriesConcat DEF dev
  <2>10. <<>> \o SystemTold = SystemTold
    BY SystemSentTyped
  <2>11. own \o (dev \o told) = (own \o dev) \o told
    <3>1. own \in Seq(Fitting) /\ dev \in Seq(Fitting)
      BY <2>5, <2>8 DEF Carries, dev
    <3>2. PICK a \in Seq(Bodies) : a = own
      <4>1. Fitting \subseteq Bodies
        BY DEF Fitting, Bodies
      <4>2. own \in Seq(Bodies)
        BY <3>1, <4>1
      <4> QED
        BY <4>2
    <3>3. PICK b \in Seq(Bodies) : b = dev
      <4>1. Fitting \subseteq Bodies
        BY DEF Fitting, Bodies
      <4>2. dev \in Seq(Bodies)
        BY <3>1, <4>1
      <4> QED
        BY <4>2
    <3>4. PICK c \in Seq(Bodies) : c = told
      BY <1>2, <1>6, ThroughTyped DEF told
    <3>5. a \o (b \o c) = (a \o b) \o c
      OBVIOUS
    <3> QED
      BY <3>2, <3>3, <3>4, <3>5
  <2> QED
    BY <1>9, <2>7, <2>9, <2>10, <2>11
<1>14. CASE SystemRole # "developer" /\ WritesArrays
  <2>1. SystemParts(Request) = SystemTold /\ Rest(Request) = C
    BY <1>5, <1>6, <1>14, SystemApart
  <2>2. Listed(SystemTold) = SystemTold
    BY <1>11, <1>14, AllListed DEF SystemTold
  <2>3. ResponsesToCodex(Request) = <<Msg("user", <<Own>> \o SystemTold)>> \o told
    BY <1>4, <1>6, <1>8, <1>14, <2>1, <2>2 DEF told
  <2>4. Carries(<<Msg("user", <<Own>> \o SystemTold)>>, SystemTold)
    BY SystemCarried
  <2> QED
    BY <1>9, <2>3, <2>4
<1> QED
  BY <1>12, <1>13, <1>14 DEF CodexReads

-----------------------------------------------------------------------------
(* Between Claude and chat. *)

\* The calls and texts of a model's turn, in one message.
LEMMA ModelVoiced ==
  ASSUME NEW m, TurnFacts(m), m.role = "model"
  PROVE  /\ Texts(m) \o Uses(m) \in Seq(Voiced("model")) /\ Texts(m) \o Uses(m) # <<>>
         /\ Of(m.parts, Spoken) = Texts(m) \o Uses(m)
<1>1. m \in TurnType /\ Formed(m) /\ Of(m.parts, Spoken) = (Results(m) \o Texts(m)) \o Uses(m)
  BY DEF TurnFacts
<1>2. PICK X \in Seq(Voiced("model")) : X = Texts(m)
  BY DEF TurnFacts, VoiceOf
<1>3. PICK U \in Seq(Voiced("model")) : U = Uses(m)
  BY DEF TurnFacts
<1>4. Results(m) = <<>> /\ (X # <<>> \/ U # <<>>)
  BY <1>1, <1>2, <1>3 DEF Formed
<1>5. X \o U \in Seq(Voiced("model")) /\ X \o U # <<>> /\ (<<>> \o X) \o U = X \o U
  BY <1>4
<1> QED
  BY <1>1, <1>2, <1>3, <1>4, <1>5

\* What the model said in the chat format: with an empty text or not.
Blanks(m) == IF Texts(m) = <<>> /\ "blank" \in habits THEN <<Blank>> ELSE <<>>

LEMMA BlankParts ==
  ASSUME NEW m \in TurnType, Formed(m), NEW K, "blank" \notin K, "text" \in K, "use" \in K
  PROVE  /\ (Texts(m) \o Blanks(m)) \o Uses(m) \in Seq(PartType)
         /\ Of((Texts(m) \o Blanks(m)) \o Uses(m), K) = Texts(m) \o Uses(m)
<1>1. PICK X \in Kinds({"text"}) : X = Texts(m)
  BY TurnParts
<1>2. PICK U \in Kinds({"use"}) : U = Uses(m)
  BY TurnParts
<1>3. Blanks(m) \in Kinds({"blank"})
  <2>1. Blank \in PartType /\ Blank.kind = "blank"
    <3> DEFINE p == Part("blank", 0)
    <3>1. p \in PartType /\ p.kind = "blank"
      BY NoughtMade
    <3>2. Blank = [p EXCEPT !.plain = TRUE]
      BY DEF Blank
    <3> HIDE DEF p
    <3> QED
      BY <3>1, <3>2 DEF PartType
  <2>2. Blank \in OfKind(PartType, {"blank"})
    BY <2>1 DEF OfKind
  <2>3. <<Blank>> \in Seq(OfKind(PartType, {"blank"})) /\ <<>> \in Seq(OfKind(PartType, {"blank"}))
    BY <2>2
  <2> QED
    BY <2>3 DEF Blanks, Kinds
<1>4. PICK B \in Kinds({"blank"}) : B = Blanks(m)
  BY <1>3
<1>5. X \in Seq(PartType) /\ U \in Seq(PartType) /\ B \in Seq(PartType)
  BY KindsParts
<1>6. Of(X, K) = X
  <2> DEFINE J == {"text"}
  <2>1. J \subseteq K /\ X \in Kinds(J)
    OBVIOUS
  <2> HIDE DEF J
  <2> QED
    BY <2>1, OfKinds
<1>7. Of(U, K) = U
  <2> DEFINE J == {"use"}
  <2>1. J \subseteq K /\ U \in Kinds(J)
    OBVIOUS
  <2> HIDE DEF J
  <2> QED
    BY <2>1, OfKinds
<1>8. Of(B, K) = <<>>
  <2> DEFINE J == {"blank"}
  <2>1. J \cap K = {} /\ B \in Kinds(J)
    OBVIOUS
  <2> HIDE DEF J
  <2> QED
    BY <2>1, OfKinds
<1>9. PICK s \in Seq(PartType) : s = X \o B
  <2>1. X \o B \in Seq(PartType)
    BY <1>5
  <2> QED
    BY <2>1
<1>10. Of(X \o B, K) = Of(X, K) \o Of(B, K)
  BY <1>5, OfConcat
<1>11. Of(s \o U, K) = Of(s, K) \o Of(U, K)
  BY <1>5, OfConcat
<1>12. X \o <<>> = X /\ s \o U \in Seq(PartType)
  BY <1>5
<1> QED
  BY <1>1, <1>2, <1>4, <1>6, <1>7, <1>8, <1>9, <1>10, <1>11, <1>12

LEMMA ChatTurnsAre ==
  ASSUME ConversationInv, NEW m \in Turns
  PROVE  /\ m.role = "user" => ChatTurns[m] = IfAny("user", Texts(m))
         /\ m.role = "model" => ChatTurns[m] = <<Msg("model", (Texts(m) \o Blanks(m)) \o Uses(m))>>
         /\ m.role = "tools" => ChatTurns[m] = Spread(m, "tool", "item")
<1>1. m \in TurnType /\ Formed(m)
  BY TurnFormed
<1>2. Parts("text", m) = Texts(m) /\ Parts("use", m) = Uses(m) /\ Parts("result", m) = Results(m)
  BY DEF Parts, Only, Texts, Uses, Results
<1>3. ChatTurns[m] = ChatTurn(m)
  BY DEF ChatTurns
<1>4. CASE m.role = "user"
  <2>1. ChatTurn(m) = <<m>>
    BY <1>4 DEF ChatTurn
  <2> QED
    BY <1>1, <1>3, <1>4, <2>1, UserParts DEF IfAny
<1>5. CASE m.role = "model"
  BY <1>2, <1>3, <1>5 DEF ChatTurn, Blanks
<1>6. CASE m.role = "tools"
  BY <1>2, <1>3, <1>6 DEF ChatTurn, Spread
<1> QED
  BY <1>4, <1>5, <1>6

LEMMA ChatTurnsMap ==
  ASSUME ConversationInv
  PROVE  Maps(ChatTurns, Turns, OfTurns)
<1>1. ASSUME NEW m \in Turns PROVE ChatTurn(m) \in Seq(OfTurns)
  <2>0. ChatTurns[m] = ChatTurn(m)
    BY DEF ChatTurns
  <2>1. m \in TurnType /\ Formed(m)
    BY TurnFormed
  <2>2. CASE m.role = "user"
    <3>1. Texts(m) \in Seq(PartType) /\ "user" \in {"user", "input", "model", "tool", "item"}
      BY <2>1, TurnParts, KindsParts
    <3>2. IfAny("user", Texts(m)) \in Seq(OfTurns)
      BY <3>1, IfAnySent
    <3> QED
      BY <2>0, <2>2, <3>2, ChatTurnsAre
  <2>3. CASE m.role = "model"
    <3> DEFINE K == {"text", "use"}
    <3>1. "blank" \notin K /\ "text" \in K /\ "use" \in K
      OBVIOUS
    <3> HIDE DEF K
    <3>2. PICK ps \in Seq(PartType) : ps = (Texts(m) \o Blanks(m)) \o Uses(m)
      BY <2>1, <3>1, BlankParts
    <3>3. ps # <<>>
      <4>1. Of(ps, K) = Texts(m) \o Uses(m)
        BY <2>1, <3>1, <3>2, BlankParts
      <4>2. Texts(m) \o Uses(m) # <<>>
        BY <2>3, TurnsHave, ModelVoiced
      <4> QED
        BY <4>1, <4>2, OfEmpty
    <3>4. "model" \in SentRoles /\ "model" \notin {"system", "instructions", "systemInstruction"}
      BY DEF SentRoles, SystemRoles
    <3>5. PICK M \in OfTurns : M = Msg("model", ps)
      BY <3>3, <3>4, MsgSent
    <3>6. <<M>> \in Seq(OfTurns)
      OBVIOUS
    <3> QED
      BY <2>0, <2>3, <3>2, <3>5, <3>6, ChatTurnsAre
  <2>4. CASE m.role = "tools"
    <3>1. Spread(m, "tool", "item") \in Seq(OfTurns)
      BY <2>1, SpreadSent
    <3> QED
      BY <2>0, <2>4, <3>1, ChatTurnsAre
  <2> QED
    BY <2>1, <2>2, <2>3, <2>4 DEF TurnType
<1> QED
  BY <1>1 DEF Maps, ChatTurns

ClaudeOfChat ==
  [m \in Sent |->
     CASE m.role \in {"tool", "system"} -> <<Msg("user", m.parts)>>
       [] m.role \in {"user", "model"} -> <<Msg(m.role, Only(m, {"text", "use"}))>>
       [] OTHER -> <<>>]

LEMMA ClaudeOfChatIs ==
  /\ Maps(ClaudeOfChat, Sent, Bodies)
  /\ \A m \in Sent : m.role \in {"tool", "system"} => ClaudeOfChat[m] = <<Msg("user", m.parts)>>
  /\ \A m \in Sent : m.role \in {"user", "model"} => ClaudeOfChat[m] = <<Msg(m.role, Of(m.parts, {"text", "use"}))>>
<1>1. \A m \in Sent : m.role \in {"tool", "system"} => ClaudeOfChat[m] = <<Msg("user", m.parts)>>
  BY DEF ClaudeOfChat
<1>2. \A m \in Sent : m.role \in {"user", "model"} => ClaudeOfChat[m] = <<Msg(m.role, Only(m, {"text", "use"}))>>
  BY DEF ClaudeOfChat
<1>3. ASSUME NEW m \in Sent PROVE ClaudeOfChat[m] \in Seq(Bodies)
  <2>1. m \in Bodies /\ "user" \in SentRoles /\ m.role \in SentRoles /\ m.parts \in Seq(PartType)
    BY DEF Sent, SentRoles, Bodies
  <2>2. PICK ps \in Seq(PartType) : ps = Only(m, {"text", "use"})
    BY <2>1, OfTyped DEF Only
  <2>3. PICK x \in Bodies : x = Msg("user", m.parts)
    BY <2>1 DEF Msg, Bodies
  <2>4. PICK y \in Bodies : y = Msg(m.role, ps)
    BY <2>1 DEF Msg, Bodies
  <2>5. CASE m.role \in {"tool", "system"}
    <3>1. ClaudeOfChat[m] = <<x>>
      BY <1>1, <2>3, <2>5
    <3> QED
      BY <3>1
  <2>6. CASE m.role \in {"user", "model"}
    <3>1. ClaudeOfChat[m] = <<y>>
      BY <1>2, <2>2, <2>4, <2>6
    <3> QED
      BY <3>1
  <2>7. CASE m.role \notin {"tool", "system", "user", "model"}
    <3>1. ClaudeOfChat[m] = <<>>
      BY <2>7 DEF ClaudeOfChat
    <3> QED
      BY <3>1
  <2> QED
    BY <2>5, <2>6, <2>7
<1>4. Maps(ClaudeOfChat, Sent, Bodies)
  BY <1>3 DEF ClaudeOfChat, Maps
<1> QED
  BY <1>1, <1>2, <1>4 DEF Only

\* One turn of the chat format, as Claude messages.
LEMMA ChatTurnTold ==
  ASSUME ConversationInv, NEW m \in Turns, NEW g, Maps(g, Sent, Bodies),
         \A x \in Sent : x.role \in {"tool", "system"} => g[x] = <<Msg("user", x.parts)>>,
         \A x \in Sent : x.role \in {"user", "model"} => g[x] = <<Msg(x.role, Of(x.parts, {"text", "use"}))>>
  PROVE  Carries(Through(g, ChatTurns[m]), Of(m.parts, Spoken))
<1>1. m \in TurnType /\ Formed(m) /\ TurnFacts(m)
  BY TurnFormed, TurnsHave
<1>2. PICK X \in Seq(PartType) : X = Texts(m)
  BY <1>1, TurnParts, KindsParts
<1>3. Of(X, {"text", "use"}) = X
  <2> DEFINE J == {"text"}
             K == {"text", "use"}
  <2>1. X \in Kinds(J) /\ J \subseteq K
    BY <1>1, <1>2, TurnParts
  <2> HIDE DEF J, K
  <2>2. Of(X, K) = X
    BY <2>1, OfKinds
  <2> QED
    BY <2>2 DEF K
<1>4. Texts(m) # <<>> => g[Msg(VoiceOf(m), Texts(m))] = <<Msg(VoiceOf(m), Texts(m))>>
  <2> SUFFICES ASSUME Texts(m) # <<>> PROVE g[Msg(VoiceOf(m), Texts(m))] = <<Msg(VoiceOf(m), Texts(m))>>
    OBVIOUS
  <2>1. PICK x \in Sent : x = Msg(VoiceOf(m), Texts(m)) /\ x.role = VoiceOf(m) /\ x.parts = Texts(m) /\ x.role \in {"user", "model"}
    BY <1>1, TextsSent
  <2>2. g[x] = <<Msg(x.role, Of(x.parts, {"text", "use"}))>>
    BY <2>1
  <2> QED
    BY <1>2, <1>3, <2>1, <2>2
<1>5. CASE m.role = "user"
  <2>1. VoiceOf(m) = "user" /\ "user" \in SentRoles
    BY <1>5 DEF VoiceOf, SentRoles, SystemRoles
  <2>2. Through(g, IfAny("user", X)) = IfAny("user", X)
    BY <1>2, <1>4, <2>1, IfAnyThrough
  <2>3. Carries(IfAny("user", X), X)
    <3>1. X \in Seq(Voiced("user"))
      BY <1>1, <1>2, <2>1 DEF TurnFacts
    <3> QED
      BY <2>1, <3>1, CarriesIfAny
  <2>4. Of(m.parts, Spoken) = (<<>> \o X) \o <<>>
    <3>1. Results(m) = <<>> /\ Uses(m) = <<>>
      BY <1>1, <1>5, TurnParts
    <3> QED
      BY <1>1, <1>2, <3>1 DEF TurnFacts
  <2>5. (<<>> \o X) \o <<>> = X
    OBVIOUS
  <2>6. ChatTurns[m] = IfAny("user", X)
    BY <1>2, <1>5, ChatTurnsAre
  <2> QED
    BY <2>2, <2>3, <2>4, <2>5, <2>6
<1>6. CASE m.role = "model"
  <2> DEFINE K == {"text", "use"}
  <2>1. "blank" \notin K /\ "text" \in K /\ "use" \in K
    OBVIOUS
  <2>0. \A x \in Sent : x.role \in {"user", "model"} => g[x] = <<Msg(x.role, Of(x.parts, K))>>
    OBVIOUS
  <2> HIDE DEF K
  <2>2. PICK ps \in Seq(PartType) : ps = (Texts(m) \o Blanks(m)) \o Uses(m) /\ Of(ps, K) = Texts(m) \o Uses(m)
    BY <1>1, <2>1, BlankParts
  <2>3. PICK v \in Seq(Voiced("model")) : v = Texts(m) \o Uses(m) /\ v # <<>> /\ Of(m.parts, Spoken) = v
    BY <1>1, <1>6, ModelVoiced
  <2>4. ps # <<>>
    BY <2>2, <2>3, OfEmpty
  <2>5. "model" \in SentRoles
    BY DEF SentRoles, SystemRoles
  <2>6. PICK x \in Sent : x = Msg("model", ps) /\ x.role = "model" /\ x.parts = ps
    BY <2>4, <2>5, MsgSent
  <2>7. g[x] = <<Msg("model", v)>>
    BY <2>0, <2>2, <2>3, <2>6
  <2>8. Through(g, <<x>>) = g[x]
    BY ThroughOne
  <2>9. ChatTurns[m] = <<x>>
    BY <1>6, <2>2, <2>6, ChatTurnsAre
  <2>10. Carries(<<Msg("model", v)>>, v)
    BY <2>3, <2>5, CarriesOne
  <2> QED
    BY <2>3, <2>7, <2>8, <2>9, <2>10
<1>7. CASE m.role = "tools"
  <2>1. ASSUME NEW p \in OfKind(PartType, {"result"}) PROVE g[Msg("tool", <<p>>)] = <<Msg("user", <<p>>)>>
    <3>1. p \in PartType /\ "tool" \in SentRoles
      BY DEF OfKind, SentRoles, SystemRoles
    <3>2. <<p>> \in Seq(PartType) /\ <<p>> # <<>>
      BY <3>1
    <3>3. PICK s \in Seq(PartType) : s = <<p>> /\ s # <<>>
      BY <3>2
    <3>4. PICK x \in Sent : x = Msg("tool", s) /\ x.role = "tool" /\ x.parts = s
      BY <3>1, <3>3, MsgSent
    <3> QED
      BY <3>3, <3>4
  <2>2. Through(g, Spread(m, "tool", "item")) = Spread(m, "user", "model")
    BY <1>1, <1>4, <1>7, <2>1, SpreadThrough
  <2>3. Carries(Spread(m, "user", "model"), Of(m.parts, Spoken))
    BY <1>1, SpreadCarries
  <2> QED
    BY <1>7, <2>2, <2>3, ChatTurnsAre
<1> QED
  BY <1>1, <1>5, <1>6, <1>7 DEF TurnType

LEMMA ChatToClaudeKeeps ==
  ASSUME ConversationInv, Source = "chat", Target # "antigravity", SystemRole = "system"
  PROVE  Carries(ChatToClaude(Request), Due)
<1> DEFINE g == ClaudeOfChat
           T == ChatTurns
           C == Through(T, turns)
<1>1. turns \in Seq(TurnType)
  BY DEF ConversationInv
<1>2. Maps(g, Sent, Bodies)
  BY ClaudeOfChatIs
<1>3. Maps(T, Turns, OfTurns)
  BY ChatTurnsMap
<1>4. /\ \A x \in Sent : x.role \in {"tool", "system"} => g[x] = <<Msg("user", x.parts)>>
      /\ \A x \in Sent : x.role \in {"user", "model"} => g[x] = <<Msg(x.role, Of(x.parts, {"text", "use"}))>>
  BY ClaudeOfChatIs
<1> HIDE DEF g
<1>5. ASSUME NEW m \in Turns PROVE Carries(Through(g, T[m]), Of(m.parts, Spoken))
  BY <1>2, <1>4, ChatTurnTold
<1> HIDE DEF T
<1>6. Request = SystemSent \o C
  BY <1>1, RequestIs DEF T
<1>7. C \in Seq(Sent) /\ SystemSent \in Seq(Sent) /\ SystemSent \o C \in Seq(Sent)
  BY <1>1, <1>3, TurnsSent, SystemSentTyped
<1>8. ChatToClaude(Request) = Through(g, Request)
  <2>1. PICK ms \in Seq(Sent) : ms = Request
    BY <1>6, <1>7
  <2>2. \A i \in DOMAIN ms : ms[i] \in Sent
    OBVIOUS
  <2>3. [i \in DOMAIN ms |-> g[ms[i]]]
        = [i \in DOMAIN ms |->
             CASE ms[i].role \in {"tool", "system"} -> <<Msg("user", ms[i].parts)>>
               [] ms[i].role \in {"user", "model"} -> <<Msg(ms[i].role, Only(ms[i], {"text", "use"}))>>
               [] OTHER -> <<>>]
    BY <2>2 DEF ClaudeOfChat, g
  <2> QED
    BY <2>1, <2>3 DEF ChatToClaude, Through, Each, Mapped
<1>9. Through(g, SystemSent \o C) = Through(g, SystemSent) \o Through(g, C)
  BY <1>2, <1>7, ThroughConcat
<1>10. Through(g, SystemSent) = IfAny("user", SystemTold)
  <2>1. PICK x \in Sent : x = Msg(SystemRole, <<System>>) /\ x.role = "system" /\ x.parts = <<System>>
    BY SystemMessage
  <2>2. g[Msg(SystemRole, <<System>>)] = <<Msg("user", <<System>>)>>
    BY <1>4, <2>1
  <2> QED
    BY <1>2, <2>2, SystemThrough
<1>11. Carries(IfAny("user", SystemTold), SystemTold)
  BY SystemCarried
<1>12. Carries(IfAny("user", SystemTold) \o Through(g, Through(T, turns)), Due)
  BY <1>2, <1>3, <1>5, <1>11, AllCarried
<1> QED
  BY <1>6, <1>8, <1>9, <1>10, <1>12

ChatOfClaude ==
  [m \in Sent |-> Alone("tool", Only(m, {"result"})) \o IfAny(m.role, Only(m, {"text"}))
                  \o IF m.role = "model" THEN IfAny("model", Only(m, {"use"})) ELSE <<>>]

LEMMA ChatOfClaudeMaps == Maps(ChatOfClaude, Sent, Bodies)
<1>1. ASSUME NEW m \in Sent PROVE ChatOfClaude[m] \in Seq(Bodies)
  <2>1. m \in Bodies /\ m.role \in SentRoles /\ "model" \in SentRoles /\ m.parts \in Seq(PartType)
    BY DEF Sent, SentRoles, Bodies
  <2>2. \A K : Only(m, K) \in Seq(PartType)
    BY <2>1, OfTyped DEF Only
  <2>3. Sent \subseteq Bodies /\ OfTurns \subseteq Bodies
    BY DEF Sent, OfTurns
  <2>4. PICK a \in Seq(Bodies) : a = Alone("tool", Only(m, {"result"}))
    <3>1. Alone("tool", Only(m, {"result"})) \in Seq(OfTurns)
      BY <2>2, AloneSent
    <3>2. \A s \in Seq(OfTurns) : s \in Seq(Bodies)
      BY <2>3
    <3> QED
      BY <3>1, <3>2
  <2>5. ASSUME NEW r \in SentRoles, NEW ps \in Seq(PartType) PROVE IfAny(r, ps) \in Seq(Bodies)
    <3>1. CASE ps = <<>>
      BY <3>1 DEF IfAny
    <3>2. CASE ps # <<>>
      <4>1. PICK x \in Bodies : x = Msg(r, ps)
        BY <2>3, <3>2, MsgSent
      <4>2. <<x>> \in Seq(Bodies)
        OBVIOUS
      <4> QED
        BY <3>2, <4>1, <4>2 DEF IfAny
    <3> QED
      BY <3>1, <3>2
  <2>6. PICK b \in Seq(Bodies) : b = IfAny(m.role, Only(m, {"text"}))
    BY <2>1, <2>2, <2>5
  <2>7. PICK c \in Seq(Bodies) : c = IF m.role = "model" THEN IfAny("model", Only(m, {"use"})) ELSE <<>>
    <3>1. IfAny("model", Only(m, {"use"})) \in Seq(Bodies) /\ <<>> \in Seq(Bodies)
      BY <2>1, <2>2, <2>5
    <3> QED
      BY <3>1
  <2>8. ChatOfClaude[m] = (a \o b) \o c
    BY <2>4, <2>6, <2>7 DEF ChatOfClaude
  <2> QED
    BY <2>8
<1> QED
  BY <1>1 DEF Maps, ChatOfClaude

LEMMA ClaudeTurnsAre ==
  ASSUME ConversationInv
  PROVE  /\ Maps(ClaudeTurns, Turns, OfTurns)
         /\ \A m \in Turns : ClaudeTurns[m] = <<Msg(VoiceOf(m), m.parts)>>
<1>1. \A m \in Turns : ClaudeTurns[m] = <<Msg(VoiceOf(m), m.parts)>>
  BY DEF ClaudeTurns, ClaudeTurn, VoiceOf
<1>2. ASSUME NEW m \in Turns PROVE <<Msg(VoiceOf(m), m.parts)>> \in Seq(OfTurns)
  <2>1. m.parts \in Seq(PartType) /\ m.parts # <<>>
    BY TurnFormed, TurnParts
  <2>2. VoiceOf(m) \in SentRoles /\ VoiceOf(m) \notin {"system", "instructions", "systemInstruction"}
    BY DEF VoiceOf, SentRoles, SystemRoles
  <2>3. PICK x \in OfTurns : x = Msg(VoiceOf(m), m.parts)
    BY <2>1, <2>2, MsgSent
  <2> QED
    BY <2>3
<1>3. \A m \in Turns : ClaudeTurns[m] \in Seq(OfTurns)
  BY <1>1, <1>2
<1> QED
  BY <1>1, <1>3 DEF Maps, ClaudeTurns

LEMMA ClaudeTurnTold ==
  ASSUME ConversationInv, NEW m \in Turns
  PROVE  Carries(Through(ChatOfClaude, ClaudeTurns[m]), Of(m.parts, Spoken))
<1> DEFINE V == VoiceOf(m)
<1>1. m \in TurnType /\ Formed(m) /\ TurnFacts(m)
  BY TurnFormed, TurnsHave
<1>2. V \in SentRoles /\ {"tool", "model"} \subseteq SentRoles /\ (V = "model" <=> m.role = "model")
  BY DEF VoiceOf, SentRoles, SystemRoles
<1>3. m.parts \in Seq(PartType) /\ m.parts # <<>>
  BY <1>1, TurnParts
<1>4. PICK x \in Sent : x = Msg(V, m.parts) /\ x.role = V /\ x.parts = m.parts
  BY <1>2, <1>3, MsgSent
<1>5. Only(x, {"result"}) = Results(m) /\ Only(x, {"text"}) = Texts(m) /\ Only(x, {"use"}) = Uses(m)
  BY <1>4 DEF Only, Results, Texts, Uses
<1> DEFINE third == IF V = "model" THEN IfAny("model", Uses(m)) ELSE <<>>
<1>6. ChatOfClaude[x] = (Alone("tool", Results(m)) \o IfAny(V, Texts(m))) \o third
  BY <1>4, <1>5 DEF ChatOfClaude
<1>7. Through(ChatOfClaude, <<x>>) = ChatOfClaude[x]
  BY ChatOfClaudeMaps, ThroughOne
<1>8. Carries(Alone("tool", Results(m)), Results(m))
  BY <1>1, <1>2, CarriesAlone DEF TurnFacts
<1>9. Carries(IfAny(V, Texts(m)), Texts(m))
  BY <1>1, <1>2, CarriesIfAny DEF TurnFacts
<1>10. Carries(third, Uses(m))
  <2>1. CASE V = "model"
    <3>1. Carries(IfAny("model", Uses(m)), Uses(m))
      BY <1>1, <1>2, CarriesIfAny DEF TurnFacts
    <3> QED
      BY <2>1, <3>1
  <2>2. CASE V # "model"
    <3>1. Uses(m) = <<>>
      BY <1>1, <1>2, <2>2, TurnParts
    <3> QED
      BY <2>2, <3>1, CarriesNothing
  <2> QED
    BY <2>1, <2>2
<1> HIDE DEF third
<1>11. Carries(Alone("tool", Results(m)) \o IfAny(V, Texts(m)), Results(m) \o Texts(m))
  BY <1>8, <1>9, CarriesConcat
<1>12. Carries((Alone("tool", Results(m)) \o IfAny(V, Texts(m))) \o third, (Results(m) \o Texts(m)) \o Uses(m))
  BY <1>10, <1>11, CarriesConcat
<1>13. Of(m.parts, Spoken) = (Results(m) \o Texts(m)) \o Uses(m)
  BY <1>1 DEF TurnFacts
<1>14. ClaudeTurns[m] = <<x>>
  BY <1>4, ClaudeTurnsAre
<1> QED
  BY <1>6, <1>7, <1>12, <1>13, <1>14

LEMMA ClaudeToChatKeeps ==
  ASSUME ConversationInv, Source = "claude", Target # "antigravity", SystemRole # "developer"
  PROVE  Carries(ClaudeToChat(Request), Due)
<1> DEFINE g == ChatOfClaude
           T == ClaudeTurns
           C == Through(T, turns)
<1>1. turns \in Seq(TurnType)
  BY DEF ConversationInv
<1>2. Maps(g, Sent, Bodies) /\ Maps(T, Turns, OfTurns)
  BY ChatOfClaudeMaps, ClaudeTurnsAre
<1>3. \A m \in Turns : Carries(Through(g, T[m]), Of(m.parts, Spoken))
  BY ClaudeTurnTold
<1> HIDE DEF g, T
<1>4. Request = SystemSent \o C
  BY <1>1, RequestIs DEF T
<1>5. C \in Seq(Sent) /\ C \in Seq(OfTurns)
  BY <1>1, <1>2, TurnsSent
<1>6. SystemParts(Request) = SystemTold /\ Rest(Request) = C
  BY <1>4, <1>5, SystemApart
<1> HIDE DEF C
<1>7. ClaudeToChat(Request) = <<Msg("system", <<Own>> \o SystemTold)>> \o Through(g, C)
  <2> DEFINE Told(u) ==
               FlattenSeq(<<>> \o [i \in DOMAIN u |->
                 Alone("tool", Only(u[i], {"result"})) \o IfAny(u[i].role, Only(u[i], {"text"}))
                 \o IF u[i].role = "model" THEN IfAny("model", Only(u[i], {"use"})) ELSE <<>>])
  <2>1. ClaudeToChat(Request) = <<Msg("system", <<Own>> \o SystemParts(Request))>> \o Told(Rest(Request))
    BY DEF ClaudeToChat, Each, Mapped
  <2>2. \A i \in DOMAIN C : C[i] \in Sent
    BY <1>5
  <2>3. [i \in DOMAIN C |->
           Alone("tool", Only(C[i], {"result"})) \o IfAny(C[i].role, Only(C[i], {"text"}))
           \o IF C[i].role = "model" THEN IfAny("model", Only(C[i], {"use"})) ELSE <<>>]
        = [i \in DOMAIN C |-> g[C[i]]]
    BY <2>2 DEF ChatOfClaude, g
  <2>4. Told(C) = Through(g, C)
    BY <2>3 DEF Through, Each, Mapped
  <2> HIDE DEF Told
  <2> QED
    BY <1>6, <2>1, <2>4
<1>8. Carries(<<Msg("system", <<Own>> \o SystemTold)>>, SystemTold)
  BY SystemCarried
<1>9. Carries(<<Msg("system", <<Own>> \o SystemTold)>> \o Through(g, Through(T, turns)), Due)
  BY <1>2, <1>3, <1>8, AllCarried
<1> QED
  BY <1>7, <1>9 DEF C

-----------------------------------------------------------------------------
(* The properties. *)

Faithful ==
  {<<"claude", "chat">>, <<"chat", "claude">>, <<"responses", "chat">>, <<"responses", "claude">>, <<"responses", "codex">>}

\* A role or a field of the system text is of the formats that have it.
StyleInv ==
  /\ "instructions" \in habits => Source = "responses"
  /\ "systemInstruction" \in habits => Source = "gemini"
  /\ "developer" \in habits => Source \in {"chat", "responses"}

LEMMA StyleKept == Spec => []StyleInv
<1>1. Init => StyleInv
  <2> SUFFICES ASSUME Init PROVE StyleInv
    OBVIOUS
  <2>1. pair[1] \in {"claude", "chat", "responses", "gemini"} /\ habits \in Habits(pair[1])
    BY RequestPairsAssumption DEF Init
  <2>2. CASE habits \in Styles(pair[1])
    BY <2>1, <2>2 DEF Styles, StyleInv, Source
  <2>3. CASE pair[1] = "responses" /\ habits \in {{"input"}, {"input", "system", "instructions"}}
    BY <2>3 DEF StyleInv, Source
  <2>4. CASE \E style \in Styles(pair[1]), system \in SystemStyles(pair[1]) : habits = style \cup {"system"} \cup system
    <3>1. PICK style \in Styles(pair[1]), system \in SystemStyles(pair[1]) : habits = style \cup {"system"} \cup system
      BY <2>4
    <3>2. style \cap {"instructions", "systemInstruction", "developer"} = {}
      BY <2>1, <3>1 DEF Styles
    <3>3. /\ "instructions" \in system => Source = "responses"
          /\ "systemInstruction" \in system => Source = "gemini"
          /\ "developer" \in system => Source \in {"chat", "responses"}
      BY <2>1, <3>1 DEF SystemStyles, Source
    <3> QED
      BY <3>1, <3>2, <3>3 DEF StyleInv
  <2> QED
    BY <2>1, <2>2, <2>3, <2>4 DEF Habits
<1>2. StyleInv /\ [Next]_vars => StyleInv'
  <2> SUFFICES ASSUME StyleInv, [Next]_vars PROVE StyleInv'
    OBVIOUS
  <2> DEFINE K == {"instructions", "systemInstruction", "developer"}
  <2>1. pair' = pair /\ habits' \cap K \subseteq habits
    <3>1. CASE UserSays
      BY <3>1 DEF UserSays, Noting, Turn
    <3>2. ASSUME NEW thought \in BOOLEAN, NEW text \in BOOLEAN, NEW k \in 0..2, NEW names \in [1..k -> {"f", "g"}],
                 ModelAnswers(thought, text, names)
          PROVE  pair' = pair /\ habits' = habits
      BY <3>2 DEF ModelAnswers, Turn
    <3>3. ASSUME NEW answered, NEW text \in BOOLEAN, ToolsAnswer(answered, text)
          PROVE  pair' = pair /\ habits' \cap K \subseteq habits
      BY <3>3 DEF ToolsAnswer, Turn, Noting
    <3>4. CASE UNCHANGED vars
      BY <3>4 DEF vars
    <3> QED
      BY <3>1, <3>2, <3>3, <3>4 DEF Next
  <2> QED
    BY <2>1 DEF StyleInv, Source
<1> QED
  BY <1>1, <1>2, PTL DEF Spec

\* The field or role of the system text, by the client's format.
LEMMA SystemRoleIs ==
  ASSUME StyleInv
  PROVE  /\ Source = "claude" => SystemRole = "system"
         /\ Source = "chat" /\ "developer" \notin habits => SystemRole = "system"
         /\ Source = "responses" => SystemRole # "systemInstruction"
BY SystemMessage DEF StyleInv, SystemRoles

\* The forms of a request these translators read: to Claude a string is no input and there
\* is no role developer; neither Claude nor chat is given what a Responses message says in
\* a string, and Codex, which is, not the system text beside it.
Read ==
  /\ pair = <<"chat", "claude">> => "developer" \notin habits
  /\ pair = <<"responses", "chat">> => "plain" \notin habits
  /\ pair = <<"responses", "claude">> => "plain" \notin habits /\ ~InputOnly
  /\ pair = <<"responses", "codex">> => CodexReads

\* A provider of these formats is given what is due, no more and in its order.
LEMMA TranslatedKeeps ==
  ASSUME Source \in Clients => ClientInv, ListedInv, StyleInv, pair \in Faithful, Read, Sendable
  PROVE  ClientInv /\ Target # "antigravity" /\ Carries(Translated, Due)
<1>1. Source \in {"claude", "chat", "responses"} /\ Target \in {"claude", "chat", "codex"}
  BY DEF Faithful, Source, Target
<1>2. ClientInv /\ ConversationInv /\ Target # "antigravity" /\ turns # <<>>
  BY <1>1 DEF Clients, ClientInv, Sendable
<1>3. CASE pair = <<"claude", "chat">>
  <2>1. Source = "claude" /\ Target = "chat"
    BY <1>3 DEF Source, Target
  <2>2. Translated = ClaudeToChat(Request)
    BY <2>1 DEF Translated, TranslateRequest
  <2>3. SystemRole # "developer"
    BY <2>1, SystemRoleIs
  <2> QED
    BY <1>2, <2>1, <2>2, <2>3, ClaudeToChatKeeps
<1>4. CASE pair = <<"chat", "claude">>
  <2>1. Source = "chat" /\ Target = "claude"
    BY <1>4 DEF Source, Target
  <2>2. Translated = ChatToClaude(Request)
    BY <2>1 DEF Translated, TranslateRequest
  <2>3. SystemRole = "system"
    BY <1>4, <2>1, SystemRoleIs DEF Read
  <2> QED
    BY <1>2, <2>1, <2>2, <2>3, ChatToClaudeKeeps
<1>5. CASE pair = <<"responses", "chat">>
  <2>1. Source = "responses" /\ Target = "chat"
    BY <1>5 DEF Source, Target
  <2>2. Translated = ResponsesToChat(Request)
    BY <2>1 DEF Translated, TranslateRequest
  <2>3. WritesArrays /\ SystemRole # "systemInstruction"
    BY <1>5, <2>1, SystemRoleIs DEF Read, WritesArrays
  <2> QED
    BY <1>2, <2>1, <2>2, <2>3, ResponsesToChatKeeps
<1>6. CASE pair = <<"responses", "claude">>
  <2>1. Source = "responses" /\ Target = "claude"
    BY <1>6 DEF Source, Target
  <2>2. Translated = ResponsesToClaude(Request)
    BY <2>1 DEF Translated, TranslateRequest
  <2>3. WritesArrays /\ ~InputOnly
    BY <1>6, <2>1 DEF Read, WritesArrays
  <2> QED
    BY <1>2, <2>1, <2>2, <2>3, ResponsesToClaudeKeeps
<1>7. CASE pair = <<"responses", "codex">>
  <2>1. Source = "responses" /\ Target = "codex"
    BY <1>7 DEF Source, Target
  <2>2. Translated = ResponsesToCodex(Request)
    BY <2>1 DEF Translated, TranslateRequest
  <2>3. CodexReads
    BY <1>7 DEF Read
  <2> QED
    BY <1>2, <2>1, <2>2, <2>3, ResponsesToCodexKeeps
<1> QED
  BY <1>2, <1>3, <1>4, <1>5, <1>6, <1>7 DEF Faithful

\* Nothing becomes of a conversation between these formats that has to be excused.
LEMMA NothingToExcuse ==
  ASSUME Source \in Clients => ClientInv, ListedInv, StyleInv, pair \in Faithful, Read, Sendable
  PROVE  Deviations(Translated) = {} /\ ResultsFound(Of(Flat(Translated), {"use", "result"}))
<1>1. ClientInv /\ Target # "antigravity" /\ Carries(Translated, Due)
  BY TranslatedKeeps
<1>2. Talk(Asked) /\ Asked \in Seq(PartType)
  BY <1>1 DEF ClientInv, SaidInv, Talk
<1>3. PICK ms \in Seq(Fitting) : ms = Translated
  BY <1>1 DEF Carries
<1>4. Given(ms) = Due
  BY <1>1, <1>3 DEF Carries, Given, Heard
<1>5. Deviations(ms) = {}
  BY <1>1, <1>4, NoDeviations
<1>6. Of(Flat(ms), {"use", "result"}) = Of(Asked, Exchanged)
  BY <1>1, <1>2, <1>4, GivenExchanged
<1>7. ResultsFound(Of(Asked, Exchanged))
  BY <1>2, ExchangedFound
<1> QED
  BY <1>3, <1>5, <1>6, <1>7

\* Between these formats, in the forms Read names, a provider is given the whole
\* conversation, in order and nothing else, however long it is: the translators of
\* internal/translator that ClaudeToChat, ChatToClaude, ResponsesToChat, ResponsesToClaude
\* and ResponsesToCodex stand for.  What they do to the other forms is listed in
\* KnownOfRequests, and nothing of that list is used here.
THEOREM ConversationIsKept == Spec => [](pair \in Faithful /\ Read => ConversationKept)
<1>1. (Source \in Clients => ClientInv) /\ ListedInv /\ StyleInv => (pair \in Faithful /\ Read => ConversationKept)
  BY NothingToExcuse DEF ConversationKept
<1> QED
  BY <1>1, TurnsListed, StyleKept, PTL

\* Between these formats, in these forms, each result reaches the provider as the answer
\* to its call: the one call with its id is before it and is the one it answers.
THEOREM ResultsAreAnswers == Spec => [](pair \in Faithful /\ Read => ResultsAnswer)
<1>1. (Source \in Clients => ClientInv) /\ ListedInv /\ StyleInv => (pair \in Faithful /\ Read => ResultsAnswer)
  <2> SUFFICES ASSUME Source \in Clients => ClientInv, ListedInv, StyleInv, pair \in Faithful, Read, Sendable
               PROVE  LET ps == Of(Flat(Translated), {"use", "result"})
                      IN  \A i \in DOMAIN ps :
                              \/ ps[i].kind = "use"
                              \/ \E j \in 1..(i - 1) : CallsFor(ps, i) = {j} /\ ps[j].n = ps[i].n
                              \/ Excused("mistaken", "result")
    BY DEF ResultsAnswer
  <2>1. ResultsFound(Of(Flat(Translated), {"use", "result"}))
    BY NothingToExcuse
  <2> QED
    BY <2>1 DEF ResultsFound
<1> QED
  BY <1>1, TurnsListed, StyleKept, PTL
=============================================================================
