-------------------------- MODULE TranslationProofs --------------------------
(***************************************************************************)
(* Proofs about Translation, for answers of any length.                    *)
(***************************************************************************)
EXTENDS Translation, FiniteSetTheorems, SequenceTheorems, WellFoundedInduction, TLAPS

-----------------------------------------------------------------------------
(* Induction, and folds of sequences. *)

\* Sets of numbers are compared by what they lack: a set without a greatest
\* member would have a smaller subset without one.
LEMMA GreatestMember ==
  ASSUME NEW n \in Nat, NEW S \in SUBSET (0..n), S # {}
  PROVE  Max(S) \in S /\ \A x \in S : x <= Max(S)
<1> DEFINE Bad == {X \in FiniteSubsetsOf(S) : X # {} /\ ~\E x \in X : \A y \in X : x >= y}
<1>1. IsFiniteSet(S) /\ S \in SUBSET Int
  <2>1. IsFiniteSet(0..n)
    BY FS_Interval
  <2>2. IsFiniteSet(S)
    BY <2>1, FS_Subset
  <2> QED
    BY <2>2
<1>2. SUFFICES ASSUME S \in Bad PROVE FALSE
  <2>1. S \in FiniteSubsetsOf(S)
    BY <1>1 DEF FiniteSubsetsOf
  <2>2. S \notin Bad => \E x \in S : \A y \in S : x >= y
    BY <2>1
  <2>3. (\E x \in S : \A y \in S : x >= y) => Max(S) \in S /\ \A x \in S : Max(S) >= x
    BY DEF Max
  <2> HIDE DEF Bad
  <2>4. \A x \in S : x \in Int
    OBVIOUS
  <2> QED
    BY <2>2, <2>3, <2>4
<1>3. PICK X \in Bad : \A Y \in Bad : ~(<<Y, X>> \in StrictSubsetOrdering(S))
  <2>1. Bad \subseteq FiniteSubsetsOf(S) /\ Bad # {}
    BY <1>2
  <2> HIDE DEF Bad
  <2> QED
    BY <1>1, <2>1, WFMin, FS_StrictSubsetOrderingWellFounded
<1>4. /\ X \subseteq S /\ IsFiniteSet(X) /\ X # {}
      /\ ~\E x \in X : \A y \in X : x >= y
  BY DEF FiniteSubsetsOf
<1>5. PICK x \in X : TRUE
  BY <1>4
<1>6. IsFiniteSet(X \ {x})
  BY <1>4, FS_RemoveElement
<1>7. X \ {x} \notin Bad
  <2>1. <<X \ {x}, X>> \in StrictSubsetOrdering(S)
    BY <1>4, <1>5 DEF StrictSubsetOrdering
  <2> QED
    BY <1>3, <2>1
<1>8. X \ {x} # {} => \E z \in X \ {x} : \A y \in X \ {x} : z >= y
  BY <1>4, <1>6, <1>7 DEF FiniteSubsetsOf
<1> QED
  BY <1>1, <1>4, <1>5, <1>8

\* Induction up to n, over a set.
LEMMA Upward ==
  ASSUME NEW n \in Nat, NEW S, 0 \in S, \A k \in 0..n : k < n /\ k \in S => k + 1 \in S
  PROVE  \A k \in 0..n : k \in S
<1> DEFINE Reached == {k \in 0..n : \A j \in 0..k : j \in S}
           m == Max(Reached)
<1>1. 0 \in Reached
  OBVIOUS
<1>2. m \in Reached /\ \A k \in Reached : k <= m
  BY <1>1, GreatestMember
<1>3. CASE m < n
  <2>1. m + 1 \in S /\ m + 1 \in 0..n
    BY <1>2, <1>3
  <2>2. m + 1 \in Reached
    BY <1>2, <2>1
  <2> QED
    BY <1>2, <2>2
<1>4. CASE m = n
  BY <1>2, <1>4
<1> QED
  BY <1>2, <1>3, <1>4

\* The equation of a fold has a solution: g keeps what the members of a set of
\* places come to, the greatest last.
Folds(base, F, n, g) ==
  g = [T \in SUBSET (1..n) |-> IF T = {} THEN base ELSE F[Max(T)][g[T \ {Max(T)}]]]

LEMMA WithoutGreatest ==
  ASSUME NEW n \in Nat, NEW T \in SUBSET (1..(n + 1)), T # {}
  PROVE  Max(T) \in T /\ T \ {Max(T)} \in SUBSET (1..n)
<1>1. T \in SUBSET (0..(n + 1)) /\ n + 1 \in Nat
  OBVIOUS
<1>2. Max(T) \in T /\ \A x \in T : x <= Max(T)
  BY <1>1, GreatestMember
<1> DEFINE m == Max(T)
<1>3. m \in T /\ \A x \in T : x <= m
  BY <1>2
<1> HIDE DEF m
<1>4. T \ {m} \in SUBSET (1..n)
  BY <1>3
<1> QED
  BY <1>3, <1>4 DEF m

LEMMA FoldExists ==
  ASSUME NEW C, NEW base \in C, NEW n \in Nat, NEW F \in [1..n -> [C -> C]]
  PROVE  \E g \in [SUBSET (1..n) -> C] : Folds(base, F, n, g)
<1> DEFINE Solution(k, g) == g \in [SUBSET (1..k) -> C] /\ Folds(base, F, k, g)
           Solved == {k \in 0..n : \E g : Solution(k, g)}
<1>1. 0 \in Solved
  <2> DEFINE g == [T \in SUBSET (1..0) |-> base]
  <2>1. \A T \in SUBSET (1..0) : T = {}
    OBVIOUS
  <2>2. g \in [SUBSET (1..0) -> C] /\ \A T \in SUBSET (1..0) : g[T] = base
    OBVIOUS
  <2> HIDE DEF g
  <2>3. Folds(base, F, 0, g)
    BY <2>1, <2>2 DEF Folds
  <2> QED
    BY <2>2, <2>3
<1>2. ASSUME NEW k \in 0..n, k < n, k \in Solved
      PROVE  k + 1 \in Solved
  <2>1. PICK g : Solution(k, g)
    BY <1>2
  <2> DEFINE h == [T \in SUBSET (1..(k + 1)) |->
                     IF T = {} THEN base ELSE F[Max(T)][g[T \ {Max(T)}]]]
  <2>2. h[{}] = base /\ \A T \in SUBSET (1..(k + 1)) : T # {} => h[T] = F[Max(T)][g[T \ {Max(T)}]]
    OBVIOUS
  <2>3. h = [T \in SUBSET (1..(k + 1)) |-> h[T]]
    OBVIOUS
  <2> HIDE DEF h
  <2>4. \A T \in SUBSET (1..(k + 1)) : T # {} =>
           Max(T) \in 1..n /\ T \ {Max(T)} \in SUBSET (1..k)
    <3> SUFFICES ASSUME NEW T \in SUBSET (1..(k + 1)), T # {}
                 PROVE  Max(T) \in 1..n /\ T \ {Max(T)} \in SUBSET (1..k)
      OBVIOUS
    <3>1. k \in Nat /\ 1..(k + 1) \subseteq 1..n
      BY <1>2
    <3>2. Max(T) \in T /\ T \ {Max(T)} \in SUBSET (1..k)
      BY <3>1, WithoutGreatest
    <3> QED
      BY <3>1, <3>2
  <2>5. g \in [SUBSET (1..k) -> C] /\ g[{}] = base
        /\ \A T \in SUBSET (1..k) : T # {} => g[T] = F[Max(T)][g[T \ {Max(T)}]]
    BY <2>1 DEF Folds
  <2>6. \A T \in SUBSET (1..k) : T \in SUBSET (1..(k + 1))
    BY <1>2
  <2>7. \A T \in SUBSET (1..k) : h[T] = g[T]
    BY <2>2, <2>5, <2>6
  <2>8. \A T \in SUBSET (1..(k + 1)) : h[T] \in C
    <3> SUFFICES ASSUME NEW T \in SUBSET (1..(k + 1)), T # {} PROVE h[T] \in C
      BY <2>2
    <3>1. g[T \ {Max(T)}] \in C /\ Max(T) \in 1..n
      BY <2>4, <2>5
    <3> QED
      BY <2>2, <3>1
  <2>9. \A T \in SUBSET (1..(k + 1)) : T # {} => h[T] = F[Max(T)][h[T \ {Max(T)}]]
    BY <2>2, <2>4, <2>7
  <2>10. h \in [SUBSET (1..(k + 1)) -> C]
    BY <2>3, <2>8
  <2>11. Folds(base, F, k + 1, h)
    BY <2>2, <2>3, <2>9 DEF Folds
  <2> QED
    BY <1>2, <2>10, <2>11
<1> HIDE DEF Solved
<1>3. \A k \in 0..n : k \in Solved
  BY <1>1, <1>2, Upward
<1>4. n \in 0..n
  OBVIOUS
<1> QED
  BY <1>3, <1>4 DEF Solved

\* Two functions that follow the same recursion agree on the first k places, for every k.
Follows(C, base, F, n, g) ==
  /\ g[{}] = base
  /\ \A k \in 1..n : g[1..(k - 1)] \in C => g[1..k] = F[k][g[1..(k - 1)]]

LEMMA SameRuns ==
  ASSUME NEW C, NEW base \in C, NEW n \in Nat, NEW F \in [1..n -> [C -> C]],
         NEW g, Follows(C, base, F, n, g), NEW h, Follows(C, base, F, n, h)
  PROVE  \A k \in 0..n : g[1..k] \in C /\ h[1..k] = g[1..k]
<1> DEFINE Same == {k \in 0..n : g[1..k] \in C /\ h[1..k] = g[1..k]}
<1>1. 0 \in Same
  <2>1. 1..0 = {}
    OBVIOUS
  <2> QED
    BY <2>1 DEF Follows
<1>2. ASSUME NEW k \in 0..n, k < n, k \in Same
      PROVE  k + 1 \in Same
  <2>1. k + 1 \in 1..n /\ (k + 1) - 1 = k
    BY <1>2
  <2>2. g[1..k] \in C /\ h[1..k] = g[1..k]
    BY <1>2
  <2>3. g[1..(k + 1)] = F[k + 1][g[1..k]] /\ h[1..(k + 1)] = F[k + 1][g[1..k]]
    BY <2>1, <2>2 DEF Follows
  <2>4. F[k + 1][g[1..k]] \in C
    BY <2>1, <2>2
  <2> QED
    BY <1>2, <2>3, <2>4
<1> HIDE DEF Same
<1>3. \A k \in 0..n : k \in Same
  BY <1>1, <1>2, Upward
<1> QED
  BY <1>3 DEF Same

LEMMA FirstPlaces ==
  ASSUME NEW n \in Nat, NEW k \in 1..n
  PROVE  /\ 1..k \in SUBSET (1..n) /\ 1..k # {}
         /\ Max(1..k) = k /\ (1..k) \ {k} = 1..(k - 1)
<1>1. 1..k \in SUBSET (1..n) /\ k \in 1..k /\ (1..k) \ {k} = 1..(k - 1)
  OBVIOUS
<1>2. 1..k \in SUBSET (0..k) /\ k \in Nat
  OBVIOUS
<1>3. Max(1..k) \in 1..k /\ \A x \in 1..k : x <= Max(1..k)
  BY <1>1, <1>2, GreatestMember
<1>4. Max(1..k) = k
  BY <1>1, <1>3
<1> QED
  BY <1>1, <1>4

-----------------------------------------------------------------------------
(* What an answer says, block by block. *)

Pieces == Seq(Int)
BlockType == [kind : {"thought", "text", "call"}, name : Int, data : Pieces, more : BOOLEAN]
ContentType == [thought : Pieces, text : Pieces, calls : Seq([name : Int, args : Pieces])]

LEMMA AddBlockTyped ==
  ASSUME NEW c \in ContentType, NEW b \in BlockType
  PROVE  AddBlock(c, b) \in ContentType
<1>1. /\ c = [thought |-> c.thought, text |-> c.text, calls |-> c.calls]
      /\ c.thought \in Pieces /\ c.text \in Pieces /\ c.calls \in Seq([name : Int, args : Pieces])
      /\ b.kind \in {"thought", "text", "call"} /\ b.name \in Int /\ b.data \in Pieces
  BY DEF ContentType, BlockType
<1>2. \A d, e \in Pieces : d \o e \in Pieces
  BY DEF Pieces
<1>3. Append(c.calls, [name |-> b.name, args |-> b.data]) \in Seq([name : Int, args : Pieces])
  BY <1>1
<1> QED
  BY <1>1, <1>2, <1>3 DEF AddBlock, AddCall, AddText, ContentType

LEMMA NoContentTyped == NoContent \in ContentType
BY DEF NoContent, ContentType, Pieces

\* The content is the last of the contents after the first k blocks.
LEMMA ContentRun ==
  ASSUME NEW s \in Seq(BlockType)
  PROVE  \E g : /\ Content(s) = g[1..Len(s)] /\ g[{}] = NoContent
                /\ \A k \in 1..Len(s) : g[1..k] = AddBlock(g[1..(k - 1)], s[k])
<1> DEFINE n == Len(s)
           Equation(g) == g = [T \in SUBSET (1..n) |->
                                 IF T = {} THEN NoContent ELSE AddBlock(g[T \ {Max(T)}], s[Max(T)])]
           F == [k \in 1..n |-> [c \in ContentType |-> AddBlock(c, s[k])]]
<1>1. n \in Nat /\ DOMAIN s = 1..n /\ \A k \in 1..n : s[k] \in BlockType
  OBVIOUS
<1>2. Content(s) = (CHOOSE g : Equation(g))[1..n]
  BY <1>1 DEF Content, FoldLeft, MapThenFoldSet
<1>3. F \in [1..n -> [ContentType -> ContentType]]
  BY <1>1, AddBlockTyped
<1>4. \A c \in ContentType, k \in 1..n : F[k][c] = AddBlock(c, s[k])
  OBVIOUS
<1> HIDE DEF F, n
<1>5. PICK h \in [SUBSET (1..n) -> ContentType] : Folds(NoContent, F, n, h)
  BY <1>1, <1>3, NoContentTyped, FoldExists
<1>6. Equation(h)
  <2>1. ASSUME NEW T \in SUBSET (1..n), T # {}
        PROVE  h[T] = AddBlock(h[T \ {Max(T)}], s[Max(T)])
    <3>1. T \in SUBSET (0..n)
      BY <1>1
    <3>2. Max(T) \in 1..n
      BY <1>1, <2>1, <3>1, GreatestMember
    <3>3. h[T] = F[Max(T)][h[T \ {Max(T)}]]
      BY <1>5, <2>1 DEF Folds
    <3> QED
      BY <1>4, <1>5, <3>2, <3>3
  <2>2. h[{}] = NoContent
    BY <1>5 DEF Folds
  <2>3. h = [T \in SUBSET (1..n) |-> h[T]]
    BY <1>5
  <2> QED
    BY <2>1, <2>2, <2>3
<1> DEFINE g == CHOOSE x : Equation(x)
<1>7. Equation(g)
  BY <1>6
<1>8. Content(s) = g[1..n]
  BY <1>2
<1> HIDE DEF g
<1>9. g[{}] = NoContent
  BY <1>7
<1>10. \A k \in 1..n : g[1..k] = AddBlock(g[1..(k - 1)], s[k])
  <2> SUFFICES ASSUME NEW k \in 1..n
               PROVE  g[1..k] = AddBlock(g[1..(k - 1)], s[k])
    OBVIOUS
  <2>1. /\ 1..k \in SUBSET (1..n) /\ 1..k # {}
        /\ Max(1..k) = k /\ (1..k) \ {k} = 1..(k - 1)
    BY <1>1, FirstPlaces
  <2> QED
    BY <1>7, <2>1
<1> QED
  BY <1>8, <1>9, <1>10 DEF n

\* An answer of no blocks has no content, and one more block adds its own.
LEMMA ContentEmpty == Content(<<>>) = NoContent
<1>1. <<>> \in Seq(BlockType) /\ Len(<<>>) = 0 /\ 1..0 = {}
  OBVIOUS
<1> QED
  BY <1>1, ContentRun

LEMMA ContentAppend ==
  ASSUME NEW s \in Seq(BlockType), NEW b \in BlockType
  PROVE  Content(s) \in ContentType /\ Content(Append(s, b)) = AddBlock(Content(s), b)
<1> DEFINE n == Len(s)
           u == Append(s, b)
           F == [k \in 1..n |-> [c \in ContentType |-> AddBlock(c, s[k])]]
<1>1. /\ n \in Nat /\ u \in Seq(BlockType) /\ Len(u) = n + 1 /\ u[n + 1] = b
      /\ \A k \in 1..n : s[k] \in BlockType /\ u[k] = s[k] /\ k \in 1..(n + 1)
      /\ n + 1 \in 1..(n + 1) /\ (n + 1) - 1 = n
  OBVIOUS
<1>2. PICK g : /\ Content(s) = g[1..n] /\ g[{}] = NoContent
               /\ \A k \in 1..n : g[1..k] = AddBlock(g[1..(k - 1)], s[k])
  BY ContentRun
<1> HIDE DEF u
<1>3. PICK h : /\ Content(u) = h[1..(n + 1)] /\ h[{}] = NoContent
               /\ \A k \in 1..(n + 1) : h[1..k] = AddBlock(h[1..(k - 1)], u[k])
  BY <1>1, ContentRun
<1>4. F \in [1..n -> [ContentType -> ContentType]]
  BY <1>1, AddBlockTyped
<1>5. \A c \in ContentType, k \in 1..n : F[k][c] = AddBlock(c, s[k])
  OBVIOUS
<1> HIDE DEF n, F
<1>6. Follows(ContentType, NoContent, F, n, g)
  BY <1>2, <1>5 DEF Follows
<1>7. Follows(ContentType, NoContent, F, n, h)
  BY <1>1, <1>3, <1>5 DEF Follows
<1>8. \A k \in 0..n : g[1..k] \in ContentType /\ h[1..k] = g[1..k]
  BY <1>1, <1>4, <1>6, <1>7, NoContentTyped, SameRuns
<1>9. n \in 0..n
  BY <1>1
<1>10. h[1..(n + 1)] = AddBlock(h[1..n], b)
  BY <1>1, <1>3
<1> QED
  BY <1>2, <1>3, <1>8, <1>9, <1>10 DEF u

LEMMA ContentTyped ==
  ASSUME NEW s \in Seq(BlockType)
  PROVE  Content(s) \in ContentType
<1>1. Block("text", NoName, <<>>) \in BlockType
  <2>1. <<>> \in Pieces /\ NoName \in Int
    BY DEF Pieces, NoName
  <2> QED
    BY <2>1 DEF Block, BlockType
<1> QED
  BY <1>1, ContentAppend

LEMMA SizeTyped ==
  ASSUME NEW s \in Seq(BlockType)
  PROVE  Size(s) \in Nat
<1> DEFINE n == Len(s)
           Equation(g) == g = [T \in SUBSET (1..n) |->
                                 IF T = {} THEN 0 ELSE g[T \ {Max(T)}] + Len(s[Max(T)].data)]
           F == [k \in 1..n |-> [c \in Nat |-> c + Len(s[k].data)]]
<1>1. n \in Nat /\ DOMAIN s = 1..n /\ \A k \in 1..n : Len(s[k].data) \in Nat
  BY DEF BlockType, Pieces
<1>2. Size(s) = (CHOOSE g : Equation(g))[1..n]
  BY <1>1 DEF Size, FoldLeft, MapThenFoldSet
<1>3. F \in [1..n -> [Nat -> Nat]]
  BY <1>1
<1>4. \A c \in Nat, k \in 1..n : F[k][c] = c + Len(s[k].data)
  OBVIOUS
<1> HIDE DEF F, n
<1>5. PICK h \in [SUBSET (1..n) -> Nat] : Folds(0, F, n, h)
  BY <1>1, <1>3, FoldExists
<1>6. Equation(h)
  <2>1. ASSUME NEW T \in SUBSET (1..n), T # {}
        PROVE  h[T] = h[T \ {Max(T)}] + Len(s[Max(T)].data)
    <3>1. T \in SUBSET (0..n)
      BY <1>1
    <3>2. Max(T) \in 1..n
      BY <1>1, <2>1, <3>1, GreatestMember
    <3>3. h[T] = F[Max(T)][h[T \ {Max(T)}]]
      BY <1>5, <2>1 DEF Folds
    <3> QED
      BY <1>4, <1>5, <3>2, <3>3
  <2>2. h[{}] = 0
    BY <1>5 DEF Folds
  <2>3. h = [T \in SUBSET (1..n) |-> h[T]]
    BY <1>5
  <2> QED
    BY <2>1, <2>2, <2>3
<1> DEFINE g == CHOOSE x : Equation(x)
<1>7. Equation(g)
  BY <1>6
<1>8. Size(s) = g[1..n]
  BY <1>2
<1> HIDE DEF g
<1>9. g[{}] = 0
  BY <1>7
<1>10. \A k \in 1..n : g[1..k] = g[1..(k - 1)] + Len(s[k].data)
  <2> SUFFICES ASSUME NEW k \in 1..n
               PROVE  g[1..k] = g[1..(k - 1)] + Len(s[k].data)
    OBVIOUS
  <2>1. /\ 1..k \in SUBSET (1..n) /\ 1..k # {}
        /\ Max(1..k) = k /\ (1..k) \ {k} = 1..(k - 1)
    BY <1>1, FirstPlaces
  <2> QED
    BY <1>7, <2>1
<1>11. Follows(Nat, 0, F, n, g)
  BY <1>4, <1>9, <1>10 DEF Follows
<1>12. \A k \in 0..n : g[1..k] \in Nat
  BY <1>1, <1>3, <1>11, SameRuns
<1>13. n \in 0..n
  BY <1>1
<1> QED
  BY <1>8, <1>12, <1>13

\* A client reads what one chunk comes to: nothing, one event or two.
Reading(framed, c, events) == FoldLeft(LAMBDA d, e : Read(framed, d, e), c, events)

LEMMA ReadNothing ==
  ASSUME NEW f, NEW c
  PROVE  Reading(f, c, <<>>) = c
<1> DEFINE Equation(g) == g = [T \in SUBSET {} |-> IF T = {} THEN c ELSE Read(f, g[T \ {Max(T)}], <<>>[Max(T)])]
           h == [T \in SUBSET {} |-> c]
<1>1. DOMAIN <<>> = {}
  OBVIOUS
<1>2. Reading(f, c, <<>>) = (CHOOSE g : Equation(g))[{}]
  BY <1>1 DEF Reading, FoldLeft, MapThenFoldSet
<1>3. \A T \in SUBSET {} : T = {}
  OBVIOUS
<1>4. Equation(h)
  BY <1>3
<1> DEFINE g == CHOOSE x : Equation(x)
<1>5. Equation(g)
  BY <1>4
<1> HIDE DEF g
<1>6. g[{}] = c
  BY <1>5
<1> QED
  BY <1>2, <1>6 DEF g

LEMMA ReadOne ==
  ASSUME NEW f, NEW c, NEW e
  PROVE  Reading(f, c, <<e>>) = Read(f, c, e)
<1> DEFINE Equation(g) == g = [T \in SUBSET {1} |-> IF T = {} THEN c ELSE Read(f, g[T \ {Max(T)}], <<e>>[Max(T)])]
           h == [T \in SUBSET {1} |-> IF T = {} THEN c ELSE Read(f, c, e)]
<1>1. DOMAIN <<e>> = {1} /\ <<e>>[1] = e
  OBVIOUS
<1>2. Reading(f, c, <<e>>) = (CHOOSE g : Equation(g))[{1}]
  BY <1>1 DEF Reading, FoldLeft, MapThenFoldSet
<1>3. Max({1}) = 1
  BY DEF Max
<1>4. \A T \in SUBSET {1} : T = {} \/ T = {1}
  OBVIOUS
<1>5. {1} \ {1} = {}
  OBVIOUS
<1>6. h[{}] = c /\ h[{1}] = Read(f, c, e) /\ h = [T \in SUBSET {1} |-> h[T]]
  OBVIOUS
<1> HIDE DEF h
<1>7. \A T \in SUBSET {1} : h[T] = IF T = {} THEN c ELSE Read(f, h[T \ {Max(T)}], <<e>>[Max(T)])
  BY <1>1, <1>3, <1>4, <1>5, <1>6
<1>8. Equation(h)
  BY <1>6, <1>7
<1> DEFINE g == CHOOSE x : Equation(x)
<1>9. Equation(g)
  BY <1>8
<1> HIDE DEF g
<1>10. \A T \in SUBSET {1} : g[T] = IF T = {} THEN c ELSE Read(f, g[T \ {Max(T)}], <<e>>[Max(T)])
  BY <1>9
<1>11. g[{}] = c
  BY <1>10
<1>12. g[{1}] = Read(f, c, e)
  BY <1>1, <1>3, <1>5, <1>10, <1>11
<1> QED
  BY <1>2, <1>12 DEF g

LEMMA ReadTwo ==
  ASSUME NEW f, NEW c, NEW e1, NEW e2
  PROVE  Reading(f, c, <<e1, e2>>) = Read(f, Read(f, c, e1), e2)
<1> DEFINE both == <<e1, e2>>
           Equation(g) == g = [T \in SUBSET {1, 2} |-> IF T = {} THEN c ELSE Read(f, g[T \ {Max(T)}], both[Max(T)])]
           h == [T \in SUBSET {1, 2} |-> IF T = {} THEN c ELSE IF T = {1} THEN Read(f, c, e1)
                                         ELSE IF T = {2} THEN Read(f, c, e2) ELSE Read(f, Read(f, c, e1), e2)]
<1>1. DOMAIN both = {1, 2} /\ both[1] = e1 /\ both[2] = e2
  OBVIOUS
<1> HIDE DEF both
<1>2. Reading(f, c, both) = (CHOOSE g : Equation(g))[{1, 2}]
  BY <1>1 DEF Reading, FoldLeft, MapThenFoldSet
<1>3. Max({1}) = 1 /\ Max({2}) = 2 /\ Max({1, 2}) = 2
  BY DEF Max
<1>4. \A T \in SUBSET {1, 2} : T = {} \/ T = {1} \/ T = {2} \/ T = {1, 2}
  OBVIOUS
<1>5. {1} \ {1} = {} /\ {2} \ {2} = {} /\ {1, 2} \ {2} = {1}
  OBVIOUS
<1>6. /\ h[{}] = c /\ h[{1}] = Read(f, c, e1) /\ h[{2}] = Read(f, c, e2)
      /\ h[{1, 2}] = Read(f, Read(f, c, e1), e2) /\ h = [T \in SUBSET {1, 2} |-> h[T]]
  <2>1. {1} # {2} /\ {1, 2} # {1} /\ {1, 2} # {2} /\ {1, 2} # {} /\ {1} # {} /\ {2} # {}
    OBVIOUS
  <2> QED
    BY <2>1
<1> HIDE DEF h
<1>7. \A T \in SUBSET {1, 2} : h[T] = IF T = {} THEN c ELSE Read(f, h[T \ {Max(T)}], both[Max(T)])
  BY <1>1, <1>3, <1>4, <1>5, <1>6, ZenonT(60)
<1>8. Equation(h)
  BY <1>6, <1>7
<1> DEFINE g == CHOOSE x : Equation(x)
<1>9. Equation(g)
  BY <1>8
<1> HIDE DEF g
<1>10. \A T \in SUBSET {1, 2} : g[T] = IF T = {} THEN c ELSE Read(f, g[T \ {Max(T)}], both[Max(T)])
  BY <1>9
<1>11. g[{}] = c
  BY <1>10
<1>12. g[{1}] = Read(f, c, e1)
  BY <1>1, <1>3, <1>5, <1>10, <1>11
<1>13. g[{1, 2}] = Read(f, Read(f, c, e1), e2)
  <2>1. {1, 2} \in SUBSET {1, 2} /\ {1, 2} # {}
    OBVIOUS
  <2>2. g[{1, 2}] = Read(f, g[{1, 2} \ {Max({1, 2})}], both[Max({1, 2})])
    BY <1>10, <2>1
  <2> QED
    BY <1>1, <1>3, <1>5, <1>12, <2>2
<1> QED
  BY <1>2, <1>13 DEF g, both

-----------------------------------------------------------------------------
(* Providers of events: Claude and Codex. *)

FromEvents == Source \in {"claude", "codex"}
Whole(blocks) == \A n \in DOMAIN blocks : ~blocks[n].more

\* One block at most is open, the last, and the reason is known from the time it is told.
Provider ==
  /\ said \in Seq(BlockType)
  /\ phase \in {"start", "saying", "told", "done"}
  /\ open = {} \/ (phase = "saying" /\ said # <<>> /\ open = {Len(said)})
  /\ phase = "start" => said = <<>>
  /\ phase \in {"start", "saying"} => reason = "none"
  /\ phase \in {"told", "done"} => IF HasCall(said) THEN reason = "tool" ELSE reason \in {"stop", "length"}
  /\ Source = "claude" => Whole(said)
  /\ Source = "codex" => phase # "told" /\ reason # "length"

\* A client of whole calls has heard all but a call that is still open.
CallOpen(s, o) == o # {} /\ Last(s).kind = "call"
Heard(s, o) == IF CallOpen(s, o) THEN Front(s) ELSE s
Tool(i, n, a) == [at |-> i, name |-> n, args |-> a]
Gatherer(out, calls) == [out |-> out, calls |-> calls]
Counter(out, last) == [out |-> out, last |-> last]
Passing(out) == [out |-> out]
Marking(out, tool) == [out |-> out, tool |-> tool]
Gathered(s, o) ==
  IF CallOpen(s, o) THEN <<Tool(Len(s) - 1, Last(s).name, Last(s).data)>> ELSE <<>>

\* A client that has no fault to find.
Client(content, blocks, started, why, ended) ==
  [got |-> content, blocks |-> blocks, started |-> started, reason |-> why, ended |-> ended, faults |-> {}]
Following(content, blocks, why) == Client(content, blocks, FALSE, why, FALSE)
Finished(content, blocks, why) == Client(content, blocks, FALSE, why, TRUE)
\* ... of a format that begins a stream with an event.
Yes == TRUE
No == FALSE
Seen(s) == IF HasCall(s) THEN Yes ELSE No
Watching(content, blocks, why) == Client(content, blocks, Yes, why, No)
Satisfied(content, blocks, why) == Client(content, blocks, Yes, why, Yes)

\* Clients of the chat format: every call has come whole, in a place below the next one.
CallBlock == [at : Int, kind : {"call"}, open : {FALSE}, data : Pieces, slot : Int, call : {0}]
Calling(blocks, next) == blocks \in Seq(CallBlock) /\ \A n \in DOMAIN blocks : blocks[n].at < next
ChatTold(next) ==
  /\ phase # "done" => r = Following(Content(Heard(said, open)), r.blocks, reason)
  /\ phase = "done" => r = Finished(Content(Heard(said, open)), r.blocks, reason)
  /\ Calling(r.blocks, next)
ClaudeChat ==
  pair = <<"claude", "chat">> =>
    /\ t = Gatherer(<<>>, Gathered(said, open))
    /\ ChatTold(Len(Heard(said, open)))
CodexChat ==
  pair = <<"codex", "chat">> =>
    /\ t = Counter(<<>>, t.last) /\ t.last \in Int /\ t.last >= -1
    /\ t.last # -1 <=> HasCall(Heard(said, open))
    /\ ChatTold(t.last + 1)

\* Clients of the Claude format: a block for a block, in the same place.
ClaudeBlock ==
  [at : Int, kind : {"thought", "text", "call"}, open : BOOLEAN, data : Pieces, slot : Int, call : Int]
Placed(blocks, s, o) ==
  /\ blocks \in Seq(ClaudeBlock) /\ Len(blocks) = Len(s)
  /\ \A n \in 1..Len(s) : /\ blocks[n].at = n - 1 /\ blocks[n].slot = n - 1
                          /\ blocks[n].kind = s[n].kind
                          /\ n \in o => blocks[n].open = TRUE
                          /\ n \notin o => blocks[n].open = FALSE
Pointed(blocks, s, o) == CallOpen(s, o) => blocks[Len(s)].call = Len(Content(s).calls)
ClaudeTold ==
  /\ phase = "start" => r = Following(Content(said), r.blocks, reason)
  /\ phase \in {"saying", "told"} => r = Watching(Content(said), r.blocks, reason)
  /\ phase = "done" => r = Satisfied(Content(said), r.blocks, reason)
  /\ Placed(r.blocks, said, open) /\ Pointed(r.blocks, said, open)
ClaudeClaude ==
  pair = <<"claude", "claude">> => t = Passing(<<>>) /\ ClaudeTold
CodexClaude ==
  pair = <<"codex", "claude">> /\ Whole(said) => t = Marking(<<>>, Seen(said)) /\ ClaudeTold

\* What opening, saying more of and closing the last block does to an answer.
LEMMA LastBlock ==
  ASSUME NEW s \in Seq(BlockType), s # <<>>
  PROVE  /\ Len(s) \in Nat /\ Len(s) >= 1
         /\ Last(s) = s[Len(s)] /\ Last(s) \in BlockType
         /\ Front(s) \in Seq(BlockType) /\ Len(Front(s)) = Len(s) - 1
         /\ \A n \in 1..(Len(s) - 1) : Front(s)[n] = s[n]
         /\ s = Append(Front(s), Last(s))
<1>1. Len(s) \in Nat /\ Len(s) >= 1 /\ Last(s) = s[Len(s)] /\ Last(s) \in BlockType
  BY DEF Last
<1>2. Front(s) = SubSeq(s, 1, Len(s) - 1)
  BY DEF Front
<1>3. /\ Front(s) \in Seq(BlockType) /\ Len(Front(s)) = Len(s) - 1
      /\ \A n \in 1..(Len(s) - 1) : Front(s)[n] = s[n]
  <2> DEFINE m == Len(s) - 1
  <2>1. m \in Int /\ m >= 0 /\ m - 1 + 1 = m /\ \A i \in 1..m : s[i] \in BlockType /\ 1 + i - 1 = i
    BY <1>1
  <2> HIDE DEF m
  <2>2. /\ SubSeq(s, 1, m) \in Seq(BlockType)
        /\ Len(SubSeq(s, 1, m)) = IF 1 <= m THEN m - 1 + 1 ELSE 0
        /\ \A i \in 1..(m - 1 + 1) : SubSeq(s, 1, m)[i] = s[1 + i - 1]
    BY <2>1, SubSeqProperties
  <2>3. Len(SubSeq(s, 1, m)) = m /\ \A i \in 1..m : SubSeq(s, 1, m)[i] = s[i]
    BY <2>1, <2>2
  <2> QED
    BY <1>2, <2>2, <2>3 DEF m
<1>4. \A n \in 1..(Len(s) - 1) : Front(s)[n] = s[n]
  BY <1>3
<1>5. s = Append(Front(s), Last(s))
  BY <1>1, <1>3, <1>4
<1> QED
  BY <1>1, <1>3, <1>4, <1>5

LEMMA FrontAppended ==
  ASSUME NEW s \in Seq(BlockType), NEW b \in BlockType
  PROVE  /\ Append(s, b) \in Seq(BlockType) /\ Append(s, b) # <<>>
         /\ Len(Append(s, b)) = Len(s) + 1
         /\ Front(Append(s, b)) = s /\ Last(Append(s, b)) = b
<1> DEFINE u == Append(s, b)
<1>1. u \in Seq(BlockType) /\ Len(u) = Len(s) + 1 /\ u[Len(s) + 1] = b /\ Len(s) \in Nat
  OBVIOUS
<1>2. \A n \in 1..Len(s) : u[n] = s[n]
  OBVIOUS
<1> HIDE DEF u
<1>3. u # <<>>
  BY <1>1
<1>4. Len(Front(u)) = Len(s) /\ Front(u) \in Seq(BlockType) /\ \A n \in 1..Len(s) : Front(u)[n] = s[n]
  <2>1. /\ Front(u) \in Seq(BlockType) /\ Len(Front(u)) = Len(u) - 1
        /\ \A n \in 1..(Len(u) - 1) : Front(u)[n] = u[n]
    BY <1>1, <1>3, LastBlock
  <2>2. Len(u) - 1 = Len(s)
    BY <1>1
  <2> QED
    BY <1>2, <2>1, <2>2
<1>5. Front(u) = s
  BY <1>4
<1>6. Last(u) = b
  BY <1>1, <1>3, LastBlock
<1> QED
  BY <1>1, <1>3, <1>5, <1>6 DEF u

LEMMA EmptyData ==
  ASSUME NEW c \in ContentType, NEW k \in {"thought", "text"}
  PROVE  AddText(c, k, <<>>) = c
<1>1. /\ c = [thought |-> c.thought, text |-> c.text, calls |-> c.calls]
      /\ c.thought \in Pieces /\ c.text \in Pieces
  BY DEF ContentType
<1>2. \A d \in Pieces : d \o <<>> = d
  BY DEF Pieces
<1> QED
  BY <1>1, <1>2 DEF AddText

\* A block that opens says nothing yet.
LEMMA OpenedHeard ==
  ASSUME NEW s \in Seq(BlockType), NEW b \in BlockType, b.data = <<>>
  PROVE  LET u == Append(s, b)
             o == {Len(u)}
         IN  /\ CallOpen(u, o) <=> b.kind = "call"
             /\ b.kind = "call" => Heard(u, o) = s
             /\ b.kind # "call" => Heard(u, o) = u
             /\ Content(Heard(u, o)) = Content(s)
             /\ b.kind # "call" => Content(u) = Content(s)
             /\ b.kind = "call" => Content(u) = AddCall(Content(s), b.name, <<>>)
             /\ HasCall(u) <=> HasCall(s) \/ b.kind = "call"
             /\ HasCall(Heard(u, o)) <=> HasCall(s)
<1> DEFINE u == Append(s, b)
           o == {Len(u)}
<1>1. Front(u) = s /\ Last(u) = b /\ o # {}
  BY FrontAppended
<1>2. Content(u) = AddBlock(Content(s), b) /\ Content(s) \in ContentType
  BY ContentAppend
<1>3. b.kind \in {"thought", "text", "call"}
  BY DEF BlockType
<1>4. b.kind # "call" => Content(u) = Content(s)
  BY <1>2, <1>3, EmptyData DEF AddBlock
<1>5. b.kind = "call" => Content(u) = AddCall(Content(s), b.name, <<>>)
  BY <1>2 DEF AddBlock
<1>6. HasCall(u) <=> HasCall(s) \/ b.kind = "call"
  <2>1. /\ DOMAIN s = 1..Len(s) /\ DOMAIN u = 1..(Len(s) + 1) /\ u[Len(s) + 1] = b
        /\ \A n \in 1..Len(s) : u[n] = s[n] /\ n \in 1..(Len(s) + 1)
        /\ \A n \in 1..(Len(s) + 1) : n \in 1..Len(s) \/ n = Len(s) + 1
        /\ Len(s) + 1 \in 1..(Len(s) + 1)
    OBVIOUS
  <2> HIDE DEF u
  <2> QED
    BY <2>1 DEF HasCall
<1> HIDE DEF u, o
<1>7. CallOpen(u, o) <=> b.kind = "call"
  BY <1>1 DEF CallOpen
<1>8. Heard(u, o) = IF b.kind = "call" THEN s ELSE u
  BY <1>1, <1>7 DEF Heard
<1> QED
  BY <1>4, <1>5, <1>6, <1>7, <1>8 DEF u, o

LEMMA SaidMore ==
  ASSUME NEW s \in Seq(BlockType), s # <<>>, NEW d \in Pieces
  PROVE  LET u == [s EXCEPT ![Len(s)].data = @ \o d]
         IN  /\ u \in Seq(BlockType) /\ u # <<>> /\ Len(u) = Len(s)
             /\ Last(u) = [Last(s) EXCEPT !.data = @ \o d] /\ Front(u) = Front(s)
             /\ \A n \in 1..Len(s) : u[n].kind = s[n].kind /\ u[n].more = s[n].more
<1> DEFINE n == Len(s)
           b == [Last(s) EXCEPT !.data = @ \o d]
           u == [s EXCEPT ![n] = b]
<1>1. /\ n \in Nat /\ n >= 1 /\ Last(s) = s[n] /\ Last(s) \in BlockType
  BY LastBlock
<1>2. u = [s EXCEPT ![Len(s)].data = @ \o d]
  BY <1>1
<1>3. b \in BlockType /\ b.kind = s[n].kind /\ b.more = s[n].more
  <2>1. \A x, y \in Pieces : x \o y \in Pieces
    BY DEF Pieces
  <2>2. Last(s).data \o d \in Pieces
    BY <1>1, <2>1 DEF BlockType
  <2> QED
    BY <1>1, <2>2 DEF BlockType
<1> HIDE DEF b
<1>4. /\ u \in Seq(BlockType) /\ Len(u) = n /\ u[n] = b /\ n \in 1..n
      /\ \A k \in 1..n : k # n => u[k] = s[k]
  BY <1>1, <1>3
<1> HIDE DEF u, n
<1>5. u # <<>>
  BY <1>1, <1>4
<1>6. Last(u) = b
  BY <1>4, <1>5, LastBlock
<1>7. Front(u) = Front(s)
  <2>1. Front(s) \in Seq(BlockType) /\ Len(Front(s)) = n - 1 /\ \A k \in 1..(n - 1) : Front(s)[k] = s[k]
    BY LastBlock DEF n
  <2>2. Front(u) \in Seq(BlockType) /\ Len(Front(u)) = n - 1 /\ \A k \in 1..(n - 1) : Front(u)[k] = u[k]
    BY <1>4, <1>5, LastBlock
  <2>3. \A k \in 1..(n - 1) : u[k] = s[k]
    BY <1>1, <1>4
  <2> QED
    BY <1>1, <2>1, <2>2, <2>3
<1>8. \A k \in 1..n : u[k].kind = s[k].kind /\ u[k].more = s[k].more
  BY <1>1, <1>3, <1>4
<1> QED
  BY <1>2, <1>4, <1>5, <1>6, <1>7, <1>8 DEF b, n

LEMMA SaidHeard ==
  ASSUME NEW s \in Seq(BlockType), s # <<>>, NEW d \in Pieces
  PROVE  LET u == [s EXCEPT ![Len(s)].data = @ \o d]
             o == {Len(s)}
         IN  /\ Last(s).kind = "call" =>
                  /\ Heard(s, o) = Front(s) /\ Heard(u, o) = Front(s)
                  /\ Content(s) = AddCall(Content(Front(s)), Last(s).name, Last(s).data)
                  /\ Content(u) = AddCall(Content(Front(s)), Last(s).name, Last(s).data \o d)
             /\ Last(s).kind # "call" =>
                  /\ Heard(s, o) = s /\ Heard(u, o) = u
                  /\ Content(u) = AddText(Content(s), Last(s).kind, d)
             /\ HasCall(u) <=> HasCall(s)
<1> DEFINE u == [s EXCEPT ![Len(s)].data = @ \o d]
           o == {Len(s)}
<1>1. /\ u \in Seq(BlockType) /\ u # <<>> /\ Len(u) = Len(s)
      /\ Last(u) = [Last(s) EXCEPT !.data = @ \o d] /\ Front(u) = Front(s)
      /\ \A n \in 1..Len(s) : u[n].kind = s[n].kind
  BY SaidMore, ZenonT(60)
<1>2. /\ Last(s) \in BlockType /\ Front(s) \in Seq(BlockType) /\ s = Append(Front(s), Last(s))
      /\ Last(u) \in BlockType /\ u = Append(Front(s), Last(u))
  BY <1>1, LastBlock
<1> HIDE DEF u
<1>3. /\ Content(Front(s)) \in ContentType
      /\ Content(s) = AddBlock(Content(Front(s)), Last(s))
      /\ Content(u) = AddBlock(Content(Front(s)), Last(u))
  BY <1>2, ContentAppend
<1>4. /\ Last(u).kind = Last(s).kind /\ Last(u).name = Last(s).name /\ Last(u).data = Last(s).data \o d
      /\ Last(s).kind \in {"thought", "text", "call"} /\ Last(s).data \in Pieces
  BY <1>1, <1>2 DEF BlockType
<1>5. HasCall(u) <=> HasCall(s)
  <2>1. DOMAIN u = 1..Len(s) /\ DOMAIN s = 1..Len(s)
    BY <1>1
  <2> QED
    BY <1>1, <2>1 DEF HasCall
<1>6. CASE Last(s).kind = "call"
  <2>1. Heard(s, o) = Front(s) /\ Heard(u, o) = Front(s)
    BY <1>1, <1>4, <1>6 DEF Heard, CallOpen
  <2>2. /\ Content(s) = AddCall(Content(Front(s)), Last(s).name, Last(s).data)
        /\ Content(u) = AddCall(Content(Front(s)), Last(s).name, Last(s).data \o d)
    BY <1>3, <1>4, <1>6 DEF AddBlock
  <2> QED
    BY <1>5, <1>6, <2>1, <2>2 DEF u
<1>7. CASE Last(s).kind # "call"
  <2>1. Heard(s, o) = s /\ Heard(u, o) = u
    BY <1>4, <1>7 DEF Heard, CallOpen
  <2>2. Content(s) = AddText(Content(Front(s)), Last(s).kind, Last(s).data)
    BY <1>3, <1>4, <1>7 DEF AddBlock
  <2>3. Content(u) = AddText(Content(Front(s)), Last(s).kind, Last(s).data \o d)
    BY <1>3, <1>4, <1>7 DEF AddBlock
  <2>4. \A x, y, z \in Pieces : (x \o y) \o z = x \o (y \o z)
    BY DEF Pieces
  <2>5. \A c \in ContentType, k \in {"thought", "text"}, x, y \in Pieces :
           AddText(AddText(c, k, x), k, y) = AddText(c, k, x \o y)
    <3> SUFFICES ASSUME NEW c \in ContentType, NEW k \in {"thought", "text"}, NEW x \in Pieces, NEW y \in Pieces
                 PROVE  AddText(AddText(c, k, x), k, y) = AddText(c, k, x \o y)
      OBVIOUS
    <3>1. /\ c = [thought |-> c.thought, text |-> c.text, calls |-> c.calls]
          /\ c.thought \in Pieces /\ c.text \in Pieces
      BY DEF ContentType
    <3>2. /\ (c.thought \o x) \o y = c.thought \o (x \o y)
          /\ (c.text \o x) \o y = c.text \o (x \o y)
      BY <2>4, <3>1, ZenonT(60)
    <3> QED
      BY <3>1, <3>2 DEF AddText
  <2>6. Content(u) = AddText(Content(s), Last(s).kind, d)
    BY <1>3, <1>4, <1>7, <2>2, <2>3, <2>5
  <2> QED
    BY <1>5, <1>7, <2>1, <2>6 DEF u
<1> QED
  BY <1>6, <1>7

\* Closing a call is hearing it.
LEMMA ClosedHeard ==
  ASSUME NEW s \in Seq(BlockType)
  PROVE  /\ Heard(s, {}) = s
         /\ s # <<>> /\ Last(s).kind = "call" =>
              /\ Heard(s, {Len(s)}) = Front(s) /\ Len(Front(s)) = Len(s) - 1 /\ HasCall(s)
              /\ Content(s) = AddCall(Content(Front(s)), Last(s).name, Last(s).data)
         /\ s # <<>> /\ Last(s).kind # "call" => Heard(s, {Len(s)}) = s
<1>1. Heard(s, {}) = s
  BY DEF Heard, CallOpen
<1>2. ASSUME s # <<>>, Last(s).kind = "call"
      PROVE  /\ Heard(s, {Len(s)}) = Front(s) /\ Len(Front(s)) = Len(s) - 1 /\ HasCall(s)
             /\ Content(s) = AddCall(Content(Front(s)), Last(s).name, Last(s).data)
  <2>1. /\ Len(s) \in 1..Len(s) /\ Last(s) = s[Len(s)] /\ Last(s) \in BlockType
        /\ Front(s) \in Seq(BlockType) /\ s = Append(Front(s), Last(s)) /\ Len(Front(s)) = Len(s) - 1
    BY <1>2, LastBlock
  <2>2. Content(s) = AddBlock(Content(Front(s)), Last(s))
    BY <2>1, ContentAppend
  <2> QED
    BY <1>2, <2>1, <2>2 DEF Heard, CallOpen, HasCall, AddBlock
<1>3. ASSUME s # <<>>, Last(s).kind # "call"
      PROVE  Heard(s, {Len(s)}) = s
  BY <1>3 DEF Heard, CallOpen
<1> QED
  BY <1>1, <1>2, <1>3

\* Where no block goes on in a new part, the events count the blocks.
LEMMA IndexOfWhole ==
  ASSUME NEW s \in Seq(BlockType), Whole(s)
  PROVE  Index(s) = Len(s) - 1
<1>1. {n \in DOMAIN s : ~s[n].more} = 1..Len(s) /\ Len(s) \in Nat
  BY DEF Whole
<1>2. Cardinality(1..Len(s)) = Len(s)
  BY <1>1, FS_Interval, SMTT(30)
<1> QED
  BY <1>1, <1>2 DEF Index

LEMMA NewBlockTyped ==
  ASSUME said \in Seq(BlockType), NEW k \in {"thought", "text", "call"}
  PROVE  /\ NewBlock(k, <<>>) \in BlockType
         /\ NewBlock(k, <<>>).kind = k /\ NewBlock(k, <<>>).data = <<>> /\ ~NewBlock(k, <<>>).more
<1>1. IsFiniteSet(1..Len(said)) /\ DOMAIN said = 1..Len(said)
  BY FS_Interval
<1>2. IsFiniteSet({n \in DOMAIN said : said[n].kind = "call"})
  BY <1>1, FS_Subset
<1>3. NextName \in Int
  BY <1>2, FS_CardinalityType DEF NextName, Calls
<1>4. <<>> \in Pieces /\ NoName \in Int
  BY DEF Pieces, NoName
<1> QED
  BY <1>3, <1>4 DEF NewBlock, Block, BlockType

LEMMA NextPieceTyped ==
  ASSUME said \in Seq(BlockType)
  PROVE  NextPiece \in Pieces /\ NextPiece # <<>>
<1>1. Size(said) \in Nat
  BY SizeTyped
<1> QED
  BY <1>1 DEF NextPiece, Pieces

-----------------------------------------------------------------------------
(* The steps of these providers. *)

\* Only the actions of events are theirs, and every one is delivered.
LEMMA EventsNext ==
  ASSUME FromEvents, Next
  PROVE  /\ Deliver /\ pair' = pair
         /\ \/ EventStart \/ EventSay \/ EventClose \/ EventMore \/ EventCompleted
            \/ \E k \in {"thought", "text", "call"} : EventOpen(k)
            \/ EventReason \/ EventStop
<1>1. Source \notin GeminiSources /\ Source # "chat" /\ Source # "kiro"
  BY DEF FromEvents, GeminiSources
<1>2. ~ChatStep
  BY <1>1 DEF ChatStep, ChatRole, ChatDone, ChatSay, ChatCall, ChatArgs, ChatFinishes, ChatUsage, Chatting
<1>3. ~GeminiStep
  BY <1>1 DEF GeminiStep, GeminiEmpty, GeminiSigned, GeminiDone, GeminiSay, GeminiFinishes, Candidates
<1>4. ~KiroStep
  BY <1>1 DEF KiroStep, KiroSay, KiroWhole, KiroEOF, KiroAgain, KiroFragment, SendKiro
<1>5. Deliver /\ (ClaudeStep \/ EventStep)
  BY <1>2, <1>3, <1>4 DEF Next, ProviderStep
<1>6. Kinds \cup {"call"} = {"thought", "text", "call"}
  BY DEF Kinds
<1>7. \/ EventStart \/ EventSay \/ EventClose \/ EventMore \/ EventCompleted
      \/ \E k \in {"thought", "text", "call"} : EventOpen(k)
      \/ EventReason \/ EventStop
  BY <1>5, <1>6 DEF ClaudeStep, EventStep
<1>8. pair' = pair
  BY <1>7 DEF EventStart, EventSay, EventClose, EventMore, EventCompleted, EventOpen, EventReason, EventStop, Send
<1> QED
  BY <1>5, <1>7, <1>8

\* What is delivered is what the pair's translator makes of the chunk.
LEMMA Delivered ==
  ASSUME Deliver, Source # "kiro", NEW s, s = Translate(pair, [t EXCEPT !.out = <<>>], chunk')
  PROVE  /\ t' = [s EXCEPT !.out = <<>>]
         /\ r' = IF phase' = "done" /\ ~Framed THEN ReadEnd(Reading(Framed, r, s.out))
                 ELSE Reading(Framed, r, s.out)
<1>1. Step(t, chunk') = s
  BY DEF Step
<1> QED
  BY <1>1 DEF Deliver, Reading

LEMMA ProviderInit == Init => Provider
<1> SUFFICES ASSUME Init PROVE Provider
  OBVIOUS
<1>1. said = <<>> /\ phase = "start" /\ open = {} /\ reason = "none"
  BY DEF Init
<1>2. Whole(said)
  BY <1>1 DEF Whole
<1> QED
  BY <1>1, <1>2 DEF Provider

LEMMA ProviderOpens ==
  ASSUME Provider, phase = "saying", open = {}, NEW b \in BlockType, Source = "claude" => ~b.more,
         said' = Append(said, b), open' = {Len(said')}, phase' = "saying", reason' = reason, pair' = pair
  PROVE  Provider'
<1>1. said' \in Seq(BlockType) /\ said' # <<>>
  BY FrontAppended DEF Provider
<1>2. Source = "claude" => Whole(said')
  <2>1. /\ said \in Seq(BlockType)
        /\ Source = "claude" => \A n \in DOMAIN said : ~said[n].more
    BY DEF Provider, Whole
  <2> QED
    BY <2>1 DEF Whole
<1> QED
  BY <1>1, <1>2 DEF Provider, Source

LEMMA ProviderStays ==
  ASSUME Provider, said' = said, open' = {}, pair' = pair,
         phase' \in {"saying", "told", "done"}, phase = "start" => phase' = "saying",
         phase' = "saying" => reason' = "none",
         phase' \in {"told", "done"} => IF HasCall(said) THEN reason' = "tool" ELSE reason' \in {"stop", "length"},
         Source = "codex" => phase' # "told" /\ reason' # "length"
  PROVE  Provider'
BY DEF Provider, Source

LEMMA ProviderNext ==
  ASSUME Provider, FromEvents, Next
  PROVE  Provider'
<1>1. pair' = pair
  BY EventsNext
<1>2. CASE EventStart
  BY <1>1, <1>2, ProviderStays DEF EventStart, Send, Provider
<1>3. CASE EventSay
  <2>1. /\ said # <<>> /\ said \in Seq(BlockType) /\ phase = "saying" /\ open = {Len(said)}
        /\ said' = [said EXCEPT ![Len(said)].data = @ \o NextPiece]
        /\ phase' = phase /\ reason' = reason /\ open' = open /\ reason = "none"
    BY <1>3 DEF EventSay, Saying, Send, Provider
  <2>2. NextPiece \in Pieces
    BY <2>1, NextPieceTyped
  <2> DEFINE u == [said EXCEPT ![Len(said)].data = @ \o NextPiece]
  <2>31. /\ u \in Seq(BlockType) /\ u # <<>> /\ Len(u) = Len(said)
        /\ \A n \in 1..Len(said) : u[n].kind = said[n].kind /\ u[n].more = said[n].more
    BY <2>1, <2>2, SaidMore
  <2>32. said' = u
    BY <2>1
  <2> HIDE DEF u
  <2>3. /\ said' \in Seq(BlockType) /\ said' # <<>> /\ Len(said') = Len(said)
        /\ \A n \in 1..Len(said) : said'[n].more = said[n].more
    BY <2>31, <2>32
  <2>4. Source = "claude" => Whole(said')
    <3>1. DOMAIN said' = 1..Len(said) /\ DOMAIN said = 1..Len(said)
      BY <2>1, <2>3
    <3> QED
      BY <2>3, <3>1 DEF Provider, Whole
  <2> QED
    BY <1>1, <2>1, <2>3, <2>4 DEF Provider, Source
<1>4. CASE EventClose
  BY <1>1, <1>4, ProviderStays DEF EventClose, Saying, Send, Provider
<1>5. CASE EventMore
  <2> DEFINE b == [NewBlock("thought", <<>>) EXCEPT !.more = TRUE]
  <2>1. b \in BlockType
    <3>1. NewBlock("thought", <<>>) \in BlockType
      BY NewBlockTyped DEF Provider
    <3>2. \A x \in BlockType : [x EXCEPT !.more = TRUE] \in BlockType
      BY DEF BlockType
    <3> QED
      BY <3>1, <3>2
  <2>2. /\ phase = "saying" /\ open = {} /\ Source = "codex" /\ said' = Append(said, b) /\ open' = {Len(said')}
        /\ phase' = "saying" /\ reason' = reason
    BY <1>5 DEF EventMore, Saying, Send
  <2> HIDE DEF b
  <2> QED
    BY <1>1, <2>1, <2>2, ProviderOpens
<1>6. CASE EventCompleted
  <2>1. phase = "saying" /\ phase' = "done" /\ said' = said /\ open' = {} /\ reason' = (IF HasCall(said) THEN "tool" ELSE "stop")
    BY <1>6 DEF EventCompleted, Send
  <2> QED
    BY <1>1, <2>1, ProviderStays
<1>7. ASSUME NEW k \in {"thought", "text", "call"}, EventOpen(k)
      PROVE  Provider'
  <2>1. NewBlock(k, <<>>) \in BlockType /\ ~NewBlock(k, <<>>).more
    BY NewBlockTyped DEF Provider
  <2>2. /\ phase = "saying" /\ open = {} /\ said' = Append(said, NewBlock(k, <<>>)) /\ open' = {Len(said')}
        /\ phase' = "saying" /\ reason' = reason
    BY <1>7 DEF EventOpen, Saying, Send
  <2> QED
    BY <1>1, <2>1, <2>2, ProviderOpens
<1>8. CASE EventReason
  <2>1. /\ phase = "saying" /\ phase' = "told" /\ said' = said /\ open' = {} /\ reason' \in Reasons /\ Source = "claude"
    BY <1>8 DEF EventReason, Send
  <2> QED
    BY <1>1, <2>1, ProviderStays DEF Reasons
<1>9. CASE EventStop
  <2>1. /\ phase = "told" /\ phase' = "done" /\ said' = said /\ open' = open /\ reason' = reason /\ Source = "claude"
    BY <1>9 DEF EventStop, Send
  <2> QED
    BY <1>1, <2>1, ProviderStays DEF Provider
<1> QED
  BY <1>2, <1>3, <1>4, <1>5, <1>6, <1>7, <1>8, <1>9, EventsNext

-----------------------------------------------------------------------------
(* What a client makes of an event when there is nothing wrong with it. *)

Unframed(f) == f = FALSE
Framing(f) == f = TRUE
Attentive(f, c) == ~c.ended /\ ~(f /\ ~c.started)
Expectant(f, c) == Attentive(f, c) /\ c.reason = "none"

LEMMA ReadingOpen ==
  ASSUME NEW f, NEW c, Expectant(f, c), NEW i, NEW k, NEW n
  PROVE  Read(f, c, Open(i, k, n)) = ReadOpen(c, Open(i, k, n))
BY DEF Read, Open, Says, Expectant, Attentive

LEMMA ReadingDelta ==
  ASSUME NEW f, NEW c, Expectant(f, c), NEW i, NEW k, NEW d
  PROVE  Read(f, c, Delta(i, k, d)) = ReadDelta(c, Delta(i, k, d))
BY DEF Read, Delta, Says, Expectant, Attentive

LEMMA ReadingCall ==
  ASSUME NEW f, NEW c, Expectant(f, c), NEW i, NEW n, NEW d
  PROVE  Read(f, c, Call(i, n, d)) = ReadCall(c, Call(i, n, d))
BY DEF Read, Call, Says, Expectant, Attentive

LEMMA ReadingClose ==
  ASSUME NEW f, NEW c, Attentive(f, c), NEW i
  PROVE  Read(f, c, Close(i)) = ReadClose(c, Close(i))
BY DEF Read, Close, Says, Attentive

LEMMA ReadingReason ==
  ASSUME NEW f, NEW c, Attentive(f, c), NEW w
  PROVE  Read(f, c, Reason(w)) = ReadReason(c, Reason(w))
BY DEF Read, Reason, Says, Attentive

LEMMA ReadingStop ==
  ASSUME NEW f, NEW c, Attentive(f, c)
  PROVE  Read(f, c, Stop) = ReadEnd(c)
BY DEF Read, Stop, Says, Attentive

-----------------------------------------------------------------------------
(* The steps of a provider of events, as its clients see them. *)

LEMMA OpenStep ==
  ASSUME Provider, FromEvents, NEW k \in {"thought", "text", "call"}, EventOpen(k) \/ (EventMore /\ k = "thought")
  PROVE  /\ phase = "saying" /\ phase' = "saying" /\ reason = "none" /\ reason' = "none"
         /\ open = {} /\ open' = {Len(said')} /\ said \in Seq(BlockType)
         /\ said' \in Seq(BlockType) /\ said' # <<>> /\ Len(said') = Len(said) + 1
         /\ \A n \in 1..Len(said) : said'[n] = said[n]
         /\ Last(said').kind = k /\ Last(said').name \in Int
         /\ \E i : chunk' = Open(i, k, Last(said').name) /\ (Whole(said') => i = Len(said))
         /\ Heard(said, open) = said /\ Content(said) \in ContentType
         /\ Heard(said', open') = IF k = "call" THEN said ELSE said'
         /\ CallOpen(said', open') <=> k = "call"
         /\ Content(said') = IF k = "call" THEN AddCall(Content(said), Last(said').name, <<>>) ELSE Content(said)
         /\ Content(Heard(said', open')) = Content(said)
         /\ HasCall(said') <=> HasCall(said) \/ k = "call"
         /\ HasCall(Heard(said', open')) <=> HasCall(said)
         /\ Gathered(said, open) = <<>>
         /\ Gathered(said', open') = IF k = "call" THEN <<Tool(Len(said), Last(said').name, <<>>)>>
                                     ELSE <<>>
<1> DEFINE x == NewBlock(k, <<>>)
<1>1. x \in BlockType /\ x.kind = k /\ x.data = <<>> /\ ~x.more
  BY NewBlockTyped DEF Provider
<1>2. k = "thought" => x.name = NoName
  BY DEF NewBlock, Block
<1> HIDE DEF x
<1>3. PICK b \in BlockType : /\ b.kind = k /\ b.data = <<>> /\ b.name = x.name
                             /\ said' = Append(said, b)
                             /\ chunk' = Open(Index(said'), k, b.name)
  <2>1. CASE EventOpen(k)
    <3>1. said' = Append(said, x) /\ chunk' = Open(Index(said'), k, Last(said').name)
      BY <2>1 DEF EventOpen, Send, x
    <3>2. Last(said') = x
      BY <1>1, <3>1, FrontAppended DEF Provider
    <3> QED
      BY <1>1, <3>1, <3>2
  <2>2. CASE EventMore /\ k = "thought"
    <3> DEFINE b == [x EXCEPT !.more = TRUE]
    <3>1. said' = Append(said, b) /\ chunk' = Open(Index(said'), k, NoName)
      BY <2>2 DEF EventMore, Send, x
    <3>2. b \in BlockType /\ b.kind = k /\ b.data = <<>> /\ b.name = x.name
      BY <1>1 DEF BlockType
    <3> HIDE DEF b
    <3> QED
      BY <1>2, <2>2, <3>1, <3>2
  <2> QED
    BY <2>1, <2>2
<1>4. /\ phase = "saying" /\ phase' = "saying" /\ reason = "none" /\ reason' = "none"
      /\ open = {} /\ open' = {Len(said')} /\ said \in Seq(BlockType)
  BY DEF EventOpen, EventMore, Saying, Provider
<1>5. /\ said' \in Seq(BlockType) /\ said' # <<>> /\ Len(said') = Len(said) + 1
      /\ Last(said') = b /\ Len(said) \in Nat /\ \A n \in 1..Len(said) : said'[n] = said[n]
  <2> DEFINE u == Append(said, b)
  <2>1. u \in Seq(BlockType) /\ u # <<>> /\ Len(u) = Len(said) + 1 /\ Last(u) = b
    BY <1>4, FrontAppended
  <2>2. Len(said) \in Nat /\ \A n \in 1..Len(said) : u[n] = said[n]
    BY <1>4
  <2>3. said' = u
    BY <1>3
  <2> HIDE DEF u
  <2> QED
    BY <2>1, <2>2, <2>3
<1>6. Whole(said') => Index(said') = Len(said)
  BY <1>5, IndexOfWhole
<1>7. Content(said) \in ContentType
  BY <1>4, ContentAppend
<1>8. /\ CallOpen(said', open') <=> k = "call"
      /\ Heard(said', open') = IF k = "call" THEN said ELSE said'
      /\ Content(Heard(said', open')) = Content(said)
      /\ Content(said') = IF k = "call" THEN AddCall(Content(said), Last(said').name, <<>>) ELSE Content(said)
      /\ HasCall(said') <=> HasCall(said) \/ k = "call"
      /\ HasCall(Heard(said', open')) <=> HasCall(said)
  <2> DEFINE u == Append(said, b)
             o == {Len(u)}
  <2>1. /\ CallOpen(u, o) <=> k = "call"
        /\ Heard(u, o) = IF k = "call" THEN said ELSE u
        /\ Content(Heard(u, o)) = Content(said)
        /\ Content(u) = IF k = "call" THEN AddCall(Content(said), b.name, <<>>) ELSE Content(said)
        /\ HasCall(u) <=> HasCall(said) \/ k = "call"
        /\ HasCall(Heard(u, o)) <=> HasCall(said)
    BY <1>3, <1>4, OpenedHeard
  <2>2. said' = u /\ open' = o
    BY <1>3, <1>4
  <2> HIDE DEF u, o
  <2> QED
    BY <1>5, <2>1, <2>2
<1>9. /\ Heard(said, open) = said /\ Gathered(said, open) = <<>>
      /\ Gathered(said', open') = IF k = "call" THEN <<Tool(Len(said), Last(said').name, <<>>)>>
                                  ELSE <<>>
  <2>1. Len(said') - 1 = Len(said)
    BY <1>5
  <2>2. ~CallOpen(said, open)
    BY <1>4 DEF CallOpen
  <2> QED
    BY <1>3, <1>5, <1>8, <2>1, <2>2 DEF Heard, Gathered
<1>10. /\ Last(said').kind = k /\ Last(said').name \in Int
       /\ \E i : chunk' = Open(i, k, Last(said').name) /\ (Whole(said') => i = Len(said))
  BY <1>3, <1>5, <1>6 DEF BlockType
<1> QED
  BY <1>4, <1>5, <1>7, <1>8, <1>9, <1>10

LEMMA SayStep ==
  ASSUME Provider, FromEvents, EventSay
  PROVE  /\ phase = "saying" /\ phase' = "saying" /\ reason = "none" /\ reason' = "none"
         /\ open = {Len(said)} /\ open' = open /\ said \in Seq(BlockType) /\ said # <<>>
         /\ said' \in Seq(BlockType) /\ said' # <<>> /\ Len(said') = Len(said)
         /\ \A n \in 1..Len(said) : said'[n].kind = said[n].kind /\ said'[n].more = said[n].more
         /\ Last(said).kind \in {"thought", "text", "call"} /\ Last(said).data \in Pieces /\ Last(said).name \in Int
         /\ Front(said) \in Seq(BlockType) /\ Len(Front(said)) = Len(said) - 1
         /\ Content(said) \in ContentType /\ Content(Front(said)) \in ContentType
         /\ HasCall(said') <=> HasCall(said)
         /\ CallOpen(said, open) <=> Last(said).kind = "call"
         /\ CallOpen(said', open') <=> Last(said).kind = "call"
         /\ \E i, d : /\ chunk' = Delta(i, Last(said).kind, d) /\ d \in Pieces
                      /\ Whole(said) => i = Len(said) - 1
                      /\ Last(said).kind = "call" =>
                           /\ Heard(said, open) = Front(said) /\ Heard(said', open') = Front(said)
                           /\ Content(said) = AddCall(Content(Front(said)), Last(said).name, Last(said).data)
                           /\ Content(said') = AddCall(Content(Front(said)), Last(said).name, Last(said).data \o d)
                           /\ Gathered(said, open) =
                                <<Tool(Len(said) - 1, Last(said).name, Last(said).data)>>
                           /\ Gathered(said', open') =
                                <<Tool(Len(said) - 1, Last(said).name, Last(said).data \o d)>>
                      /\ Last(said).kind # "call" =>
                           /\ Heard(said, open) = said /\ Heard(said', open') = said'
                           /\ Content(said') = AddText(Content(said), Last(said).kind, d)
                           /\ Gathered(said, open) = <<>> /\ Gathered(said', open') = <<>>
<1> DEFINE d == NextPiece
           u == [said EXCEPT ![Len(said)].data = @ \o d]
           i == Index(said)
<1>1. /\ phase = "saying" /\ phase' = "saying" /\ reason = "none" /\ reason' = "none"
      /\ open = {Len(said)} /\ open' = open /\ said \in Seq(BlockType) /\ said # <<>>
      /\ said' = u /\ chunk' = Delta(i, Last(said).kind, d)
  BY DEF EventSay, Saying, Send, Provider
<1>2. d \in Pieces
  BY <1>1, NextPieceTyped
<1>3. Whole(said) => i = Len(said) - 1
  BY <1>1, IndexOfWhole
<1> HIDE DEF d, i
<1>4. /\ u \in Seq(BlockType) /\ u # <<>> /\ Len(u) = Len(said)
      /\ Last(u) = [Last(said) EXCEPT !.data = @ \o d]
      /\ \A n \in 1..Len(said) : u[n].kind = said[n].kind /\ u[n].more = said[n].more
  BY <1>1, <1>2, SaidMore
<1>5. /\ Last(said).kind = "call" =>
           /\ Heard(said, {Len(said)}) = Front(said) /\ Heard(u, {Len(said)}) = Front(said)
           /\ Content(said) = AddCall(Content(Front(said)), Last(said).name, Last(said).data)
           /\ Content(u) = AddCall(Content(Front(said)), Last(said).name, Last(said).data \o d)
      /\ Last(said).kind # "call" =>
           /\ Heard(said, {Len(said)}) = said /\ Heard(u, {Len(said)}) = u
           /\ Content(u) = AddText(Content(said), Last(said).kind, d)
      /\ HasCall(u) <=> HasCall(said)
  BY <1>1, <1>2, SaidHeard
<1> HIDE DEF u
<1>6. /\ Last(said) \in BlockType /\ Front(said) \in Seq(BlockType) /\ Len(Front(said)) = Len(said) - 1
  BY <1>1, LastBlock
<1>7. Content(said) \in ContentType /\ Content(Front(said)) \in ContentType
  BY <1>1, <1>6, ContentAppend
<1>8. /\ Last(said).kind \in {"thought", "text", "call"} /\ Last(said).data \in Pieces /\ Last(said).name \in Int
  BY <1>6 DEF BlockType
<1>9. /\ Last(u).kind = Last(said).kind /\ Last(u).name = Last(said).name /\ Last(u).data = Last(said).data \o d
  BY <1>4, <1>6 DEF BlockType
<1>10. /\ CallOpen(said, open) <=> Last(said).kind = "call"
       /\ CallOpen(u, open) <=> Last(said).kind = "call"
  BY <1>1, <1>9 DEF CallOpen
<1>11. /\ Last(said).kind = "call" =>
            /\ Gathered(said, open) = <<Tool(Len(said) - 1, Last(said).name, Last(said).data)>>
            /\ Gathered(u, open) = <<Tool(Len(said) - 1, Last(said).name, Last(said).data \o d)>>
       /\ Last(said).kind # "call" => Gathered(said, open) = <<>> /\ Gathered(u, open) = <<>>
  BY <1>4, <1>9, <1>10 DEF Gathered
<1>12. open' = open /\ said' = u
  BY <1>1
<1>13. /\ CallOpen(said', open') <=> Last(said).kind = "call"
       /\ Gathered(said', open') = Gathered(u, open) /\ Heard(said', open') = Heard(u, {Len(said)})
       /\ Heard(said, open) = Heard(said, {Len(said)}) /\ Content(said') = Content(u)
  BY <1>1, <1>10, <1>12
<1>14. /\ Last(said).kind = "call" =>
            /\ Heard(said, open) = Front(said) /\ Heard(said', open') = Front(said)
            /\ Content(said) = AddCall(Content(Front(said)), Last(said).name, Last(said).data)
            /\ Content(said') = AddCall(Content(Front(said)), Last(said).name, Last(said).data \o d)
            /\ Gathered(said, open) = <<Tool(Len(said) - 1, Last(said).name, Last(said).data)>>
            /\ Gathered(said', open') =
                 <<Tool(Len(said) - 1, Last(said).name, Last(said).data \o d)>>
       /\ Last(said).kind # "call" =>
            /\ Heard(said, open) = said /\ Heard(said', open') = said'
            /\ Content(said') = AddText(Content(said), Last(said).kind, d)
            /\ Gathered(said, open) = <<>> /\ Gathered(said', open') = <<>>
  BY <1>5, <1>11, <1>12, <1>13
<1>15. /\ said' \in Seq(BlockType) /\ said' # <<>> /\ Len(said') = Len(said)
       /\ \A n \in 1..Len(said) : said'[n].kind = said[n].kind /\ said'[n].more = said[n].more
       /\ HasCall(said') <=> HasCall(said)
  BY <1>4, <1>5, <1>12
<1> QED
  BY <1>1, <1>2, <1>3, <1>6, <1>7, <1>8, <1>10, <1>13, <1>14, <1>15

LEMMA CloseStep ==
  ASSUME Provider, FromEvents, EventClose
  PROVE  /\ phase = "saying" /\ phase' = "saying" /\ reason = "none" /\ reason' = "none"
         /\ open = {Len(said)} /\ open' = {} /\ said' = said /\ said \in Seq(BlockType) /\ said # <<>>
         /\ Last(said).kind \in {"thought", "text", "call"} /\ Last(said).data \in Pieces /\ Last(said).name \in Int
         /\ Content(said) \in ContentType /\ Content(Front(said)) \in ContentType
         /\ CallOpen(said, open) <=> Last(said).kind = "call"
         /\ ~CallOpen(said', open')
         /\ Heard(said', open') = said /\ Gathered(said', open') = <<>>
         /\ \E i : /\ chunk' = IF Source = "codex" /\ Last(said).kind = "call"
                               THEN Item(i, "call", Last(said).name, Last(said).data) ELSE Close(i)
                   /\ Whole(said) => i = Len(said) - 1
         /\ Last(said).kind = "call" =>
              /\ Heard(said, open) = Front(said) /\ Len(Front(said)) = Len(said) - 1 /\ HasCall(said)
              /\ Content(said) = AddCall(Content(Front(said)), Last(said).name, Last(said).data)
              /\ Gathered(said, open) = <<Tool(Len(said) - 1, Last(said).name, Last(said).data)>>
         /\ Last(said).kind # "call" => Heard(said, open) = said /\ Gathered(said, open) = <<>>
<1>1. /\ phase = "saying" /\ phase' = "saying" /\ reason = "none" /\ reason' = "none"
      /\ open = {Len(said)} /\ open' = {} /\ said \in Seq(BlockType) /\ said # <<>> /\ said' = said
      /\ chunk' = IF Source = "codex" /\ Last(said).kind = "call"
                  THEN Item(Index(said), "call", Last(said).name, Last(said).data) ELSE Close(Index(said))
  BY DEF EventClose, Saying, Send, Provider
<1>2. Whole(said) => Index(said) = Len(said) - 1
  BY <1>1, IndexOfWhole
<1>3. Last(said) \in BlockType /\ Front(said) \in Seq(BlockType)
  BY <1>1, LastBlock
<1>4. Content(said) \in ContentType /\ Content(Front(said)) \in ContentType
  BY <1>1, <1>3, ContentAppend
<1>5. /\ CallOpen(said, open) <=> Last(said).kind = "call"
      /\ ~CallOpen(said', open')
  BY <1>1 DEF CallOpen
<1>6. /\ Heard(said, {}) = said
      /\ Last(said).kind = "call" =>
           /\ Heard(said, {Len(said)}) = Front(said) /\ Len(Front(said)) = Len(said) - 1 /\ HasCall(said)
           /\ Content(said) = AddCall(Content(Front(said)), Last(said).name, Last(said).data)
      /\ Last(said).kind # "call" => Heard(said, {Len(said)}) = said
  BY <1>1, ClosedHeard
<1>7. /\ Heard(said', open') = said /\ Gathered(said', open') = <<>>
      /\ Last(said).kind = "call" =>
           Gathered(said, open) = <<Tool(Len(said) - 1, Last(said).name, Last(said).data)>>
      /\ Last(said).kind # "call" => Gathered(said, open) = <<>>
  BY <1>1, <1>5, <1>6 DEF Gathered
<1> QED
  BY <1>1, <1>2, <1>3, <1>4, <1>5, <1>6, <1>7 DEF BlockType

LEMMA StillStep ==
  ASSUME Provider, EventStart \/ EventReason \/ EventStop \/ EventCompleted
  PROVE  /\ open = {} /\ open' = {} /\ said' = said /\ said \in Seq(BlockType)
         /\ ~CallOpen(said, open) /\ ~CallOpen(said', open')
         /\ Heard(said, open) = said /\ Heard(said', open') = said
         /\ Gathered(said, open) = <<>> /\ Gathered(said', open') = <<>>
         /\ Content(said) \in ContentType
<1>1. open = {} /\ open' = {} /\ said' = said /\ said \in Seq(BlockType)
  BY DEF EventStart, EventReason, EventStop, EventCompleted, Send, Provider
<1>2. ~CallOpen(said, open) /\ ~CallOpen(said', open')
  BY <1>1 DEF CallOpen
<1>3. Content(said) \in ContentType
  BY <1>1, ContentTyped
<1> QED
  BY <1>1, <1>2, <1>3 DEF Heard, Gathered

-----------------------------------------------------------------------------
(* To the chat format. *)

LEMMA Translates ==
  ASSUME NEW s, NEW x
  PROVE  /\ Translate(<<"claude", "chat">>, s, x) = ClaudeToChat(s, x)
         /\ Translate(<<"codex", "chat">>, s, x) = CodexToChat(s, x)
         /\ Translate(<<"claude", "claude">>, s, x) = Emit(s, <<x>>)
         /\ Translate(<<"codex", "claude">>, s, x) = CodexToClaude(s, x)
         /\ Translate(<<"claude", "gemini">>, s, x) = ClaudeToGemini(s, x)
<1>1. Translate(<<"claude", "chat">>, s, x) = ClaudeToChat(s, x)
  BY DEF Translate
<1>2. Translate(<<"codex", "chat">>, s, x) = CodexToChat(s, x)
  BY DEF Translate
<1>3. Translate(<<"claude", "claude">>, s, x) = Emit(s, <<x>>)
  BY DEF Translate
<1>4. Translate(<<"codex", "claude">>, s, x) = CodexToClaude(s, x)
  BY DEF Translate
<1>5. Translate(<<"claude", "gemini">>, s, x) = ClaudeToGemini(s, x)
  BY DEF Translate
<1> QED
  BY <1>1, <1>2, <1>3, <1>4, <1>5

LEMMA EmptyConcat == \A e, f : <<>> \o <<e>> = <<e>> /\ <<>> \o <<e, f>> = <<e, f>> /\ Append(<<>>, e) = <<e>>
OBVIOUS

LEMMA RemoveOnly == \A e : RemoveAt(<<e>>, 1) = <<>>
BY DEF RemoveAt

LEMMA OnlyChanged == \A x, y : [<<x>> EXCEPT ![1] = y] = <<y>>
OBVIOUS

Grown(one, d) == [one EXCEPT !.calls[1].args = @ \o d]

LEMMA OnlyCallGrows ==
  ASSUME NEW i, NEW n, NEW a, NEW d
  PROVE  Grown(Gatherer(<<>>, <<Tool(i, n, a)>>), d) = Gatherer(<<>>, <<Tool(i, n, a \o d)>>)
<1> DEFINE c == Tool(i, n, a)
           q == <<c>>
           one == Gatherer(<<>>, q)
           e == a \o d
<1>1. q[1] = c /\ \A y : [q EXCEPT ![1] = y] = <<y>>
  BY OnlyChanged
<1>2. one.calls = q /\ one = [out |-> <<>>, calls |-> q]
  BY DEF Gatherer
<1>3. c.args = a /\ c = [at |-> i, name |-> n, args |-> a]
  BY DEF Tool
<1> HIDE DEF c, q, one, e
<1>4. [c EXCEPT !.args = e] = Tool(i, n, e)
  BY <1>3 DEF Tool
<1>5. [one EXCEPT !.calls[1].args = e] = Gatherer(<<>>, [q EXCEPT ![1] = [c EXCEPT !.args = e]])
  BY <1>1, <1>2 DEF Gatherer
<1>6. [one EXCEPT !.calls[1].args = e] = Gatherer(<<>>, <<Tool(i, n, e)>>)
  BY <1>1, <1>4, <1>5
<1>7. one.calls[1].args = a
  BY <1>1, <1>2, <1>3
<1>8. Grown(one, d) = Gatherer(<<>>, <<Tool(i, n, e)>>)
  BY <1>6, <1>7 DEF e, Grown
<1> QED
  BY <1>8 DEF c, q, one, e

LEMMA ClaudeToChatSteps ==
  ASSUME NEW q
  PROVE  LET s == Gatherer(<<>>, q)
             empty == Gatherer(<<>>, <<>>)
             one(i, n, a) == Gatherer(<<>>, <<Tool(i, n, a)>>)
         IN  /\ ClaudeToChat(s, Start) = s /\ ClaudeToChat(s, Stop) = s
             /\ \A i, k, n : k # "call" => ClaudeToChat(s, Open(i, k, n)) = s
             /\ \A i, n : ClaudeToChat(empty, Open(i, "call", n)) = one(i, n, <<>>)
             /\ \A i, k, d : k # "call" => ClaudeToChat(s, Delta(i, k, d)) = Gatherer(<<Delta(Message, k, d)>>, q)
             /\ \A i, n, a, d : ClaudeToChat(one(i, n, a), Delta(i, "call", d)) = one(i, n, a \o d)
             /\ \A i : ClaudeToChat(empty, Close(i)) = empty
             /\ \A i, n, a : ClaudeToChat(one(i, n, a), Close(i)) = Gatherer(<<Call(i, n, a)>>, <<>>)
             /\ \A w : ClaudeToChat(s, Reason(w)) = Gatherer(<<Reason(w)>>, q)
<1> DEFINE s == Gatherer(<<>>, q)
           empty == Gatherer(<<>>, <<>>)
<1>1. ClaudeToChat(s, Start) = s /\ ClaudeToChat(s, Stop) = s
  BY DEF ClaudeToChat, Start, Stop
<1>2. ASSUME NEW i, NEW k, NEW n, k # "call"
      PROVE  ClaudeToChat(s, Open(i, k, n)) = s
  BY <1>2 DEF ClaudeToChat, Open
<1>3. ASSUME NEW i, NEW n
      PROVE  ClaudeToChat(empty, Open(i, "call", n)) = Gatherer(<<>>, <<Tool(i, n, <<>>)>>)
  BY EmptyConcat DEF ClaudeToChat, Open, Gatherer, Tool
<1>4. ASSUME NEW i, NEW k, NEW d, k # "call"
      PROVE  ClaudeToChat(s, Delta(i, k, d)) = Gatherer(<<Delta(Message, k, d)>>, q)
  BY <1>4, EmptyConcat DEF ClaudeToChat, Delta, Emit, Gatherer
<1>5. ASSUME NEW i, NEW n, NEW a
      PROVE  /\ Gathering(Gatherer(<<>>, <<Tool(i, n, a)>>), i)
             /\ GatheredAt(Gatherer(<<>>, <<Tool(i, n, a)>>), i) = 1
  BY DEF Gathering, GatheredAt, Gatherer, Tool
<1>6. ASSUME NEW i, NEW n, NEW a, NEW d
      PROVE  ClaudeToChat(Gatherer(<<>>, <<Tool(i, n, a)>>), Delta(i, "call", d))
               = Gatherer(<<>>, <<Tool(i, n, a \o d)>>)
  <2> DEFINE one == Gatherer(<<>>, <<Tool(i, n, a)>>)
             e == Delta(i, "call", d)
  <2>1. e.ev = "delta" /\ e.kind = "call" /\ e.at = i /\ e.data = d
    BY DEF Delta
  <2>2. Gathering(one, i) /\ GatheredAt(one, i) = 1
    BY <1>5
  <2> HIDE DEF e, one
  <2>3. ClaudeToChat(one, e) = Grown(one, d)
    BY <2>1, <2>2 DEF ClaudeToChat, Grown
  <2> QED
    BY <2>3, OnlyCallGrows DEF e, one
<1>7. ASSUME NEW i
      PROVE  ClaudeToChat(empty, Close(i)) = empty
  BY DEF ClaudeToChat, Close, Gathering, Gatherer
<1>8. ASSUME NEW i, NEW n, NEW a
      PROVE  ClaudeToChat(Gatherer(<<>>, <<Tool(i, n, a)>>), Close(i)) = Gatherer(<<Call(i, n, a)>>, <<>>)
  <2> DEFINE c == Tool(i, n, a)
             one == Gatherer(<<>>, <<c>>)
             e == Close(i)
  <2>1. e.ev = "close" /\ e.at = i
    BY DEF Close
  <2>2. Gathering(one, i) /\ GatheredAt(one, i) = 1
    BY <1>5
  <2>3. one.calls[1] = c /\ one.calls = <<c>> /\ one.out = <<>> /\ one = [out |-> <<>>, calls |-> <<c>>]
    BY DEF Gatherer
  <2>4. c.at = i /\ c.name = n /\ c.args = a
    BY DEF Tool
  <2>5. RemoveAt(<<c>>, 1) = <<>>
    BY RemoveOnly
  <2> HIDE DEF e, one, c
  <2>6. ClaudeToChat(one, e) = [Emit(one, <<Call(i, n, a)>>) EXCEPT !.calls = RemoveAt(@, 1)]
    BY <2>1, <2>2, <2>3, <2>4 DEF ClaudeToChat
  <2>7. Emit(one, <<Call(i, n, a)>>) = [out |-> <<Call(i, n, a)>>, calls |-> <<c>>]
    BY <2>3, EmptyConcat DEF Emit
  <2>8. ClaudeToChat(one, e) = Gatherer(<<Call(i, n, a)>>, <<>>)
    BY <2>5, <2>6, <2>7 DEF Gatherer
  <2> QED
    BY <2>8 DEF e, one, c
<1>9. ASSUME NEW w
      PROVE  ClaudeToChat(s, Reason(w)) = Gatherer(<<Reason(w)>>, q)
  BY EmptyConcat DEF ClaudeToChat, Reason, Emit, Gatherer
<1> QED
  BY <1>1, <1>2, <1>3, <1>4, <1>6, <1>7, <1>8, <1>9

\* What a client of the chat format makes of the four things it is sent.
LEMMA ReadText ==
  ASSUME NEW f, Unframed(f), NEW g, NEW bl, NEW k, NEW d
  PROVE  Read(f, Following(g, bl, "none"), Delta(Message, k, d))
           = Following(AddText(g, k, d), bl, "none")
<1> DEFINE c == Following(g, bl, "none")
<1>1. Expectant(f, c)
  BY DEF Client, Following, Expectant, Attentive, Unframed
<1>2. Read(f, c, Delta(Message, k, d)) = ReadDelta(c, Delta(Message, k, d))
  <2> HIDE DEF c
  <2> QED
    BY <1>1, ReadingDelta
<1> QED
  BY <1>2 DEF ReadDelta, Delta, Client, Following

Written(i, d) == [at |-> i, kind |-> "call", open |-> FALSE, data |-> d, slot |-> i, call |-> 0]

LEMMA CallingTyped ==
  ASSUME NEW next, NEW bl, Calling(bl, next)
  PROVE  /\ bl \in Seq(CallBlock)
         /\ \A m \in DOMAIN bl : bl[m].at \in Int /\ bl[m].at < next /\ ~bl[m].open
<1>1. bl \in Seq(CallBlock) /\ \A m \in DOMAIN bl : bl[m].at < next
  BY DEF Calling
<1>2. \A m \in DOMAIN bl : bl[m] \in CallBlock
  BY <1>1
<1> QED
  BY <1>1, <1>2 DEF CallBlock

LEMMA ReadWhole ==
  ASSUME NEW f, Unframed(f), NEW g, NEW next \in Nat, NEW bl, Calling(bl, next), NEW i \in Int, i >= next, NEW n, NEW d \in Pieces
  PROVE  /\ Read(f, Following(g, bl, "none"), Call(i, n, d))
              = Following(AddCall(g, n, d), Append(bl, Written(i, d)), "none")
         /\ Calling(Append(bl, Written(i, d)), i + 1)
<1> DEFINE c == Following(g, bl, "none")
<1>1. Expectant(f, c)
  BY DEF Client, Following, Expectant, Attentive, Unframed
<1>2. Read(f, c, Call(i, n, d)) = ReadCall(c, Call(i, n, d))
  <2> HIDE DEF c
  <2> QED
    BY <1>1, ReadingCall
<1>3. i # Message /\ ~Has(c, i)
  <2>1. /\ bl \in Seq(CallBlock)
        /\ \A m \in DOMAIN bl : bl[m].at \in Int /\ bl[m].at < next
    BY CallingTyped
  <2> QED
    BY <2>1 DEF Has, Client, Following, Message
<1>4. ReadCall(c, Call(i, n, d)) = Following(AddCall(g, n, d), Append(bl, Written(i, d)), "none")
  BY <1>3 DEF ReadCall, Call, Client, Following, Written
<1>5. Calling(Append(bl, Written(i, d)), i + 1)
  <2>1. Written(i, d) \in CallBlock
    BY DEF Written, CallBlock
  <2>2. /\ bl \in Seq(CallBlock)
        /\ \A m \in DOMAIN bl : bl[m].at \in Int /\ bl[m].at < next
    BY CallingTyped
  <2> DEFINE u == Append(bl, Written(i, d))
  <2>3. /\ u \in Seq(CallBlock) /\ DOMAIN u = 1..(Len(bl) + 1) /\ DOMAIN bl = 1..Len(bl)
        /\ u[Len(bl) + 1] = Written(i, d) /\ \A m \in 1..Len(bl) : u[m] = bl[m]
        /\ \A m \in 1..(Len(bl) + 1) : m \in 1..Len(bl) \/ m = Len(bl) + 1
    BY <2>1, <2>2
  <2>4. Written(i, d).at < i + 1 /\ \A m \in DOMAIN bl : bl[m].at < i + 1
    BY <2>2 DEF Written
  <2> HIDE DEF u
  <2>5. \A m \in DOMAIN u : u[m].at < i + 1
    BY <2>3, <2>4
  <2> QED
    BY <2>3, <2>5 DEF Calling, u
<1> QED
  BY <1>2, <1>4, <1>5

LEMMA ReadWhy ==
  ASSUME NEW f, Unframed(f), NEW g, NEW bl, NEW w
  PROVE  Read(f, Following(g, bl, "none"), Reason(w)) = Following(g, bl, w)
<1> DEFINE c == Following(g, bl, "none")
<1>1. Expectant(f, c)
  BY DEF Client, Following, Expectant, Attentive, Unframed
<1>2. Read(f, c, Reason(w)) = ReadReason(c, Reason(w))
  <2> HIDE DEF c
  <2> QED
    BY <1>1, ReadingReason DEF Expectant
<1> QED
  BY <1>2 DEF ReadReason, Reason, Client, Following

LEMMA ReadOver ==
  ASSUME NEW g, NEW next, NEW bl, Calling(bl, next), NEW w
  PROVE  ReadEnd(Following(g, bl, w)) = Finished(g, bl, w)
<1>1. \A m \in DOMAIN bl : ~bl[m].open
  BY CallingTyped
<1> DEFINE none == {<<"left open", bl[n].kind>> : n \in {m \in DOMAIN bl : bl[m].open}}
<1>2. none = {}
  BY <1>1
<1>3. ReadEnd(Following(g, bl, w)) = [Following(g, bl, w) EXCEPT !.ended = TRUE, !.faults = {} \cup none]
  BY DEF ReadEnd, Client, Following, Finished
<1> HIDE DEF none
<1> QED
  BY <1>2, <1>3 DEF Client, Following, Finished

LEMMA CallingMore ==
  ASSUME NEW n \in Int, NEW m \in Int, n <= m, NEW bl, Calling(bl, n)
  PROVE  Calling(bl, m)
<1>1. bl \in Seq(CallBlock) /\ \A k \in DOMAIN bl : bl[k].at \in Int /\ bl[k].at < n
  BY CallingTyped
<1>2. \A k \in DOMAIN bl : bl[k].at < m
  BY <1>1
<1> QED
  BY <1>1, <1>2 DEF Calling

LEMMA FramedOf == (Target \in {"chat", "gemini"} => ~Framed) /\ (Target = "claude" => Framed) /\ Framed \in BOOLEAN
BY DEF Framed

\* What is delivered to a client of a format whose stream ends when the handler says so.
Shows(events) ==
  \E f : /\ Unframed(f)
         /\ phase' = "done" => r' = ReadEnd(Reading(f, r, events))
         /\ phase' # "done" => r' = Reading(f, r, events)

LEMMA PlainDelivered ==
  ASSUME Deliver, Source # "kiro", Target \in {"chat", "gemini"},
         NEW s, s = Translate(pair, [t EXCEPT !.out = <<>>], chunk')
  PROVE  t' = [s EXCEPT !.out = <<>>] /\ Shows(s.out)
<1> DEFINE f == Framed
<1>1. Unframed(f)
  BY FramedOf DEF Unframed
<1>2. ~f
  BY FramedOf
<1>3. /\ t' = [s EXCEPT !.out = <<>>]
      /\ r' = IF phase' = "done" /\ ~f THEN ReadEnd(Reading(f, r, s.out)) ELSE Reading(f, r, s.out)
  BY Delivered
<1>4. /\ phase' = "done" => r' = ReadEnd(Reading(f, r, s.out))
      /\ phase' # "done" => r' = Reading(f, r, s.out)
  BY <1>2, <1>3
<1> HIDE DEF f
<1> QED
  BY <1>1, <1>3, <1>4 DEF Shows

LEMMA GathererDelivered ==
  ASSUME Deliver, Source # "kiro", Target \in {"chat", "gemini"},
         NEW q, t = Gatherer(<<>>, q), NEW o, NEW p, Translate(pair, Gatherer(<<>>, q), chunk') = Gatherer(o, p)
  PROVE  t' = Gatherer(<<>>, p) /\ Shows(o)
<1> DEFINE s == Gatherer(o, p)
<1>1. [t EXCEPT !.out = <<>>] = t
  BY DEF Gatherer
<1>2. s.out = o /\ [s EXCEPT !.out = <<>>] = Gatherer(<<>>, p)
  BY DEF Gatherer
<1>3. s = Translate(pair, [t EXCEPT !.out = <<>>], chunk')
  BY <1>1
<1> HIDE DEF s
<1> QED
  BY <1>2, <1>3, PlainDelivered

\* What showing each of the chat format's events does to such a client.
LEMMA ShowsNothing ==
  ASSUME Shows(<<>>)
  PROVE  /\ phase' # "done" => r' = r
         /\ phase' = "done" => r' = ReadEnd(r)
BY ReadNothing DEF Shows

LEMMA ShowsText ==
  ASSUME NEW k, NEW d, Shows(<<Delta(Message, k, d)>>), phase' # "done",
         NEW g, NEW bl, r = Following(g, bl, "none")
  PROVE  r' = Following(AddText(g, k, d), bl, "none")
<1>1. PICK f : Unframed(f) /\ r' = Reading(f, r, <<Delta(Message, k, d)>>)
  BY DEF Shows
<1> QED
  BY <1>1, ReadOne, ReadText

LEMMA ShowsCall ==
  ASSUME NEW i \in Nat, NEW n, NEW d \in Pieces, Shows(<<Call(i, n, d)>>), phase' # "done",
         NEW g, NEW bl, Calling(bl, i), r = Following(g, bl, "none")
  PROVE  /\ r' = Following(AddCall(g, n, d), Append(bl, Written(i, d)), "none")
         /\ Calling(Append(bl, Written(i, d)), i + 1)
<1>1. PICK f : Unframed(f) /\ r' = Reading(f, r, <<Call(i, n, d)>>)
  BY DEF Shows
<1>2. i \in Int /\ i >= i
  OBVIOUS
<1> QED
  BY <1>1, <1>2, ReadOne, ReadWhole

LEMMA ShowsReason ==
  ASSUME NEW w, Shows(<<Reason(w)>>), NEW g, NEW bl, NEW next, Calling(bl, next), r = Following(g, bl, "none")
  PROVE  /\ phase' # "done" => r' = Following(g, bl, w)
         /\ phase' = "done" => r' = Finished(g, bl, w)
<1>1. PICK f : /\ Unframed(f)
               /\ phase' = "done" => r' = ReadEnd(Reading(f, r, <<Reason(w)>>))
               /\ phase' # "done" => r' = Reading(f, r, <<Reason(w)>>)
  BY DEF Shows
<1>2. Reading(f, r, <<Reason(w)>>) = Following(g, bl, w)
  BY <1>1, ReadOne, ReadWhy
<1>3. ReadEnd(Following(g, bl, w)) = Finished(g, bl, w)
  BY ReadOver
<1> QED
  BY <1>1, <1>2, <1>3

\* From here on a client is told of by its parts.
LEMMA ClientParts ==
  ASSUME NEW g, NEW bl, NEW w
  PROVE  Following(g, bl, w).blocks = bl /\ Finished(g, bl, w).blocks = bl
BY DEF Following, Finished, Client

LEMMA ClaudeChatDelivered ==
  ASSUME Deliver, pair = <<"claude", "chat">>,
         NEW q, t = Gatherer(<<>>, q), NEW o, NEW p, ClaudeToChat(Gatherer(<<>>, q), chunk') = Gatherer(o, p)
  PROVE  t' = Gatherer(<<>>, p) /\ Shows(o)
<1>1. Source # "kiro" /\ Target \in {"chat", "gemini"}
  BY DEF Source, Target
<1>2. Translate(pair, Gatherer(<<>>, q), chunk') = Gatherer(o, p)
  BY Translates
<1> QED
  BY <1>1, <1>2, GathererDelivered

LEMMA ClaudeChatGoesOn ==
  ASSUME t' = Gatherer(<<>>, Gathered(said', open')), phase' # "done",
         NEW b, r' = Following(Content(Heard(said', open')), b, reason'),
         Calling(b, Len(Heard(said', open')))
  PROVE  ClaudeChat'
<1>1. r'.blocks = b
  BY ClientParts
<1> QED
  BY <1>1 DEF ClaudeChat, ChatTold

LEMMA ClaudeChatEnds ==
  ASSUME t' = Gatherer(<<>>, Gathered(said', open')), phase' = "done",
         NEW b, r' = Finished(Content(Heard(said', open')), b, reason'),
         Calling(b, Len(Heard(said', open')))
  PROVE  ClaudeChat'
<1>1. r'.blocks = b
  BY ClientParts
<1> QED
  BY <1>1 DEF ClaudeChat, ChatTold

LEMMA ClaudeChatNext ==
  ASSUME Provider, Provider', pair = <<"claude", "chat">>, ClaudeChat, Next
  PROVE  ClaudeChat'
<1> DEFINE q == Gathered(said, open)
           next == Len(Heard(said, open))
           bl == r.blocks
<1>1. Source = "claude" /\ Target = "chat" /\ FromEvents
  BY DEF Source, Target, FromEvents
<1>2. Deliver /\ pair' = pair
  BY <1>1, EventsNext
<1>3. /\ t = Gatherer(<<>>, q) /\ Calling(bl, next)
      /\ phase # "done" => r = Following(Content(Heard(said, open)), bl, reason)
  BY DEF ClaudeChat, ChatTold
<1>4. Deliver /\ pair = <<"claude", "chat">> /\ t = Gatherer(<<>>, q)
  BY <1>2, <1>3
<1>5. Whole(said) /\ Whole(said')
  BY <1>1, <1>2 DEF Provider, Source
<1> HIDE DEF q, bl, next
<1>7. ASSUME NEW k \in {"thought", "text", "call"}, EventOpen(k) \/ (EventMore /\ k = "thought")
      PROVE  ClaudeChat'
  <2>1. PICK i : chunk' = Open(i, k, Last(said').name) /\ i = Len(said)
    BY <1>1, <1>5, <1>7, OpenStep
  <2>2. /\ phase = "saying" /\ phase' = "saying" /\ reason = "none" /\ reason' = "none"
        /\ said \in Seq(BlockType) /\ Len(said') = Len(said) + 1
        /\ Heard(said, open) = said /\ q = <<>>
        /\ Heard(said', open') = IF k = "call" THEN said ELSE said'
        /\ Content(Heard(said', open')) = Content(said)
        /\ Gathered(said', open') = IF k = "call" THEN <<Tool(Len(said), Last(said').name, <<>>)>> ELSE <<>>
    BY <1>1, <1>7, OpenStep DEF q
  <2>3. ClaudeToChat(Gatherer(<<>>, q), chunk') = Gatherer(<<>>, Gathered(said', open'))
    BY <2>1, <2>2, ClaudeToChatSteps
  <2>4. t' = Gatherer(<<>>, Gathered(said', open')) /\ Shows(<<>>)
    BY <1>4, <2>3, ClaudeChatDelivered
  <2>5. r' = r
    BY <2>2, <2>4, ShowsNothing
  <2>6. Calling(bl, Len(Heard(said', open')))
    <3>1. next = Len(said) /\ Len(said) \in Int /\ Len(Heard(said', open')) \in {Len(said), Len(said) + 1}
      BY <2>2 DEF next
    <3> QED
      BY <1>3, <3>1, CallingMore
  <2> QED
    BY <1>3, ClaudeChatGoesOn, <2>2, <2>4, <2>5, <2>6
<1>8. CASE EventSay
  <2>1. PICK i, d : /\ chunk' = Delta(i, Last(said).kind, d) /\ d \in Pieces /\ i = Len(said) - 1
                    /\ Last(said).kind = "call" =>
                           /\ Heard(said, open) = Front(said) /\ Heard(said', open') = Front(said)
                           /\ q = <<Tool(Len(said) - 1, Last(said).name, Last(said).data)>>
                           /\ Gathered(said', open') = <<Tool(Len(said) - 1, Last(said).name, Last(said).data \o d)>>
                    /\ Last(said).kind # "call" =>
                           /\ Heard(said, open) = said /\ Heard(said', open') = said'
                           /\ Content(said') = AddText(Content(said), Last(said).kind, d)
                           /\ q = <<>> /\ Gathered(said', open') = <<>>
    BY <1>1, <1>5, <1>8, SayStep DEF q
  <2>2. /\ phase = "saying" /\ phase' = "saying" /\ reason = "none" /\ reason' = "none"
        /\ said \in Seq(BlockType) /\ Len(said') = Len(said)
    BY <1>1, <1>8, SayStep
  <2>3. r = Following(Content(Heard(said, open)), bl, "none")
    BY <1>3, <2>2
  <2>4. CASE Last(said).kind = "call"
    <3>1. ClaudeToChat(Gatherer(<<>>, q), chunk') = Gatherer(<<>>, Gathered(said', open'))
      BY <2>1, <2>4, ClaudeToChatSteps
    <3>2. t' = Gatherer(<<>>, Gathered(said', open')) /\ Shows(<<>>)
      BY <1>4, <3>1, ClaudeChatDelivered
    <3>3. r' = r /\ Heard(said', open') = Heard(said, open)
      BY <2>1, <2>2, <2>4, <3>2, ShowsNothing
    <3> QED
      BY <1>3, ClaudeChatGoesOn, <2>2, <2>3, <3>2, <3>3 DEF next
  <2>5. CASE Last(said).kind # "call"
    <3>1. ClaudeToChat(Gatherer(<<>>, q), chunk') = Gatherer(<<Delta(Message, Last(said).kind, d)>>, <<>>)
      BY <2>1, <2>5, ClaudeToChatSteps
    <3>2. t' = Gatherer(<<>>, <<>>) /\ Shows(<<Delta(Message, Last(said).kind, d)>>)
      BY <1>4, <3>1, ClaudeChatDelivered
    <3>3. r' = Following(AddText(Content(said), Last(said).kind, d), bl, "none")
      <4>2. Heard(said, open) = said
        BY <2>1, <2>5
      <4> QED
        BY <2>2, <2>3, <3>2, <4>2, ShowsText
    <3>4. next = Len(Heard(said', open'))
      BY <2>1, <2>2, <2>5 DEF next
    <3> QED
      BY <1>3, ClaudeChatGoesOn, <2>1, <2>2, <2>5, <3>2, <3>3, <3>4
  <2> QED
    BY <2>4, <2>5
<1>9. CASE EventClose
  <2>1. PICK i : chunk' = Close(i) /\ i = Len(said) - 1
    BY <1>1, <1>5, <1>9, CloseStep
  <2>2. /\ phase = "saying" /\ phase' = "saying" /\ reason = "none" /\ reason' = "none"
        /\ said' = said /\ said \in Seq(BlockType) /\ said # <<>> /\ Last(said).data \in Pieces
        /\ Heard(said', open') = said /\ Gathered(said', open') = <<>>
        /\ Last(said).kind = "call" =>
              /\ Heard(said, open) = Front(said) /\ Len(Front(said)) = Len(said) - 1
              /\ Content(said) = AddCall(Content(Front(said)), Last(said).name, Last(said).data)
              /\ q = <<Tool(Len(said) - 1, Last(said).name, Last(said).data)>>
        /\ Last(said).kind # "call" => Heard(said, open) = said /\ q = <<>>
    BY <1>1, <1>9, CloseStep DEF q
  <2>3. r = Following(Content(Heard(said, open)), bl, "none")
    BY <1>3, <2>2
  <2>4. CASE Last(said).kind = "call"
    <3> DEFINE n == Last(said).name
               d == Last(said).data
    <3>1. ClaudeToChat(Gatherer(<<>>, q), chunk') = Gatherer(<<Call(i, n, d)>>, <<>>)
      BY <2>1, <2>2, <2>4, ClaudeToChatSteps
    <3>2. t' = Gatherer(<<>>, <<>>) /\ Shows(<<Call(i, n, d)>>)
      BY <1>4, <3>1, ClaudeChatDelivered
    <3>3. next = i /\ i \in Nat /\ i >= next /\ i + 1 = Len(said)
      <4>1. Len(said) \in Nat /\ Len(said) >= 1
        BY <2>2, LastBlock
      <4> QED
        BY <2>1, <2>2, <2>4, <4>1 DEF next
    <3>4. /\ r' = Following(AddCall(Content(Front(said)), n, d), Append(bl, Written(i, d)), "none")
          /\ Calling(Append(bl, Written(i, d)), i + 1)
      <4>1. Heard(said, open) = Front(said) /\ d \in Pieces
        BY <2>2, <2>4
      <4> HIDE DEF n, d
      <4> QED
        BY <1>3, <2>2, <2>3, <3>2, <3>3, <4>1, ShowsCall
    <3> QED
      BY ClaudeChatGoesOn, <2>2, <2>4, <3>2, <3>3, <3>4
  <2>5. CASE Last(said).kind # "call"
    <3>1. ClaudeToChat(Gatherer(<<>>, q), chunk') = Gatherer(<<>>, <<>>)
      BY <2>1, <2>2, <2>5, ClaudeToChatSteps
    <3>2. t' = Gatherer(<<>>, <<>>) /\ Shows(<<>>)
      BY <1>4, <3>1, ClaudeChatDelivered
    <3>3. r' = r /\ Heard(said', open') = Heard(said, open)
      BY <2>2, <2>5, <3>2, ShowsNothing
    <3> QED
      BY <1>3, ClaudeChatGoesOn, <2>2, <2>3, <3>2, <3>3 DEF next
  <2> QED
    BY <2>4, <2>5
<1>10. ASSUME EventStart \/ EventReason \/ EventStop
       PROVE  ClaudeChat'
  <2>1. /\ Heard(said, open) = said /\ Heard(said', open') = said /\ q = <<>> /\ Gathered(said', open') = <<>>
        /\ said \in Seq(BlockType) /\ Len(said) \in Nat
    BY <1>10, StillStep DEF q
  <2>2. next = Len(Heard(said', open')) /\ next \in Nat
    BY <2>1 DEF next
  <2>3. CASE EventStart
    <3>1. chunk' = Start /\ phase = "start" /\ phase' = "saying" /\ reason' = reason
      BY <2>3 DEF EventStart, Send
    <3>2. ClaudeToChat(Gatherer(<<>>, q), chunk') = Gatherer(<<>>, <<>>)
      BY <2>1, <3>1, ClaudeToChatSteps
    <3>3. t' = Gatherer(<<>>, <<>>) /\ Shows(<<>>)
      BY <1>4, <3>2, ClaudeChatDelivered
    <3> QED
      BY <1>3, ClaudeChatGoesOn, <2>1, <2>2, <3>1, <3>3, ShowsNothing
  <2>4. CASE EventReason
    <3>1. chunk' = Reason(reason') /\ phase = "saying" /\ phase' = "told" /\ reason = "none"
      BY <2>4 DEF EventReason, Send, Provider
    <3>2. ClaudeToChat(Gatherer(<<>>, q), chunk') = Gatherer(<<Reason(reason')>>, <<>>)
      BY <2>1, <3>1, ClaudeToChatSteps
    <3>3. t' = Gatherer(<<>>, <<>>) /\ Shows(<<Reason(reason')>>)
      BY <1>4, <3>2, ClaudeChatDelivered
    <3>4. r' = Following(Content(Heard(said, open)), bl, reason')
      BY <1>1, <1>3, <2>2, <3>1, <3>3, ShowsReason
    <3> QED
      BY <1>3, ClaudeChatGoesOn, <2>1, <2>2, <3>1, <3>3, <3>4
  <2>5. CASE EventStop
    <3>1. chunk' = Stop /\ phase = "told" /\ phase' = "done" /\ reason' = reason
      BY <2>5 DEF EventStop, Send
    <3>2. ClaudeToChat(Gatherer(<<>>, q), chunk') = Gatherer(<<>>, <<>>)
      BY <2>1, <3>1, ClaudeToChatSteps
    <3>3. t' = Gatherer(<<>>, <<>>) /\ Shows(<<>>)
      BY <1>4, <3>2, ClaudeChatDelivered
    <3>4. r' = Finished(Content(Heard(said, open)), bl, reason)
      BY <1>3, <3>1, <3>3, ShowsNothing, ReadOver
    <3> QED
      BY <1>3, ClaudeChatEnds, <2>1, <2>2, <3>1, <3>3, <3>4
  <2> QED
    BY <1>10, <2>3, <2>4, <2>5
<1>11. ~EventCompleted
  BY <1>1 DEF EventCompleted
<1> QED
  BY <1>1, <1>7, <1>8, <1>9, <1>10, <1>11, EventsNext

\* Codex: calls are written when their items are done, under indexes of their own.
LEMMA CodexToChatSteps ==
  ASSUME NEW m
  PROVE  LET s == Counter(<<>>, m)
         IN  /\ CodexToChat(s, Start) = s
             /\ \A i, k, n : CodexToChat(s, Open(i, k, n)) = s
             /\ \A i, k, d : k # "call" => CodexToChat(s, Delta(i, k, d)) = Counter(<<Delta(Message, k, d)>>, m)
             /\ \A i, d : CodexToChat(s, Delta(i, "call", d)) = s
             /\ \A i : CodexToChat(s, Close(i)) = s
             /\ \A i, n, d : CodexToChat(s, Item(i, "call", n, d)) = Counter(<<Call(m + 1, n, d)>>, m + 1)
<1> DEFINE s == Counter(<<>>, m)
<1>1. CodexToChat(s, Start) = s
  BY DEF CodexToChat, Start
<1>2. ASSUME NEW i, NEW k, NEW n
      PROVE  CodexToChat(s, Open(i, k, n)) = s
  BY DEF CodexToChat, Open
<1>3. ASSUME NEW i, NEW k, NEW d, k # "call"
      PROVE  CodexToChat(s, Delta(i, k, d)) = Counter(<<Delta(Message, k, d)>>, m)
  BY <1>3, EmptyConcat DEF CodexToChat, Delta, Emit, Counter
<1>4. ASSUME NEW i, NEW d
      PROVE  CodexToChat(s, Delta(i, "call", d)) = s
  BY DEF CodexToChat, Delta
<1>5. ASSUME NEW i
      PROVE  CodexToChat(s, Close(i)) = s
  BY DEF CodexToChat, Close
<1>6. ASSUME NEW i, NEW n, NEW d
      PROVE  CodexToChat(s, Item(i, "call", n, d)) = Counter(<<Call(m + 1, n, d)>>, m + 1)
  <2> DEFINE e == Item(i, "call", n, d)
             one == <<Call(m + 1, n, d)>>
  <2>1. e.ev = "item" /\ e.name = n /\ e.data = d
    BY DEF Item
  <2>2. s.last = m /\ s.out = <<>> /\ <<>> \o one = one
    BY EmptyConcat DEF Counter
  <2> HIDE DEF e
  <2>3. CodexToChat(s, e) = [Emit(s, one) EXCEPT !.last = @ + 1]
    BY <2>1, <2>2 DEF CodexToChat
  <2> HIDE DEF one
  <2>4. Emit(s, one) = [out |-> one, last |-> m]
    BY <2>2 DEF Emit, Counter
  <2>5. CodexToChat(s, e) = Counter(one, m + 1)
    BY <2>3, <2>4 DEF Counter
  <2> QED
    BY <2>5 DEF e, one
<1> QED
  BY <1>1, <1>2, <1>3, <1>4, <1>5, <1>6

LEMMA CodexToChatOver ==
  ASSUME NEW m, NEW c, NEW w, w = IF m # -1 THEN "tool" ELSE "stop"
  PROVE  CodexToChat(Counter(<<>>, m), Completed(c)) = Counter(<<Reason(w)>>, m)
<1> DEFINE s == Counter(<<>>, m)
           e == Completed(c)
           one == <<Reason(w)>>
<1>1. e.ev = "completed"
  BY DEF Completed
<1>2. s.last = m /\ s.out = <<>> /\ <<>> \o one = one
  BY EmptyConcat DEF Counter
<1> HIDE DEF e
<1>3. CodexToChat(s, e) = Emit(s, one)
  BY <1>1, <1>2 DEF CodexToChat
<1> HIDE DEF one
<1>4. CodexToChat(s, e) = Counter(one, m)
  BY <1>2, <1>3 DEF Emit, Counter
<1> QED
  BY <1>4 DEF e, one

LEMMA CodexChatDelivered ==
  ASSUME Deliver, pair = <<"codex", "chat">>,
         NEW m, t = Counter(<<>>, m), NEW o, NEW p, CodexToChat(Counter(<<>>, m), chunk') = Counter(o, p)
  PROVE  t' = Counter(<<>>, p) /\ Shows(o)
<1> DEFINE s == Counter(o, p)
<1>1. Source # "kiro" /\ Target \in {"chat", "gemini"}
  BY DEF Source, Target
<1>2. [t EXCEPT !.out = <<>>] = t
  BY DEF Counter
<1>3. s.out = o /\ [s EXCEPT !.out = <<>>] = Counter(<<>>, p)
  BY DEF Counter
<1>4. s = Translate(pair, [t EXCEPT !.out = <<>>], chunk')
  BY <1>2, Translates
<1> HIDE DEF s
<1> QED
  BY <1>1, <1>3, <1>4, PlainDelivered

LEMMA CodexChatGoesOn ==
  ASSUME NEW m \in Int, m >= -1, t' = Counter(<<>>, m), m # -1 <=> HasCall(Heard(said', open')),
         NEW b, Calling(b, m + 1),
         \/ phase' # "done" /\ r' = Following(Content(Heard(said', open')), b, reason')
         \/ phase' = "done" /\ r' = Finished(Content(Heard(said', open')), b, reason')
  PROVE  CodexChat'
<1>1. r'.blocks = b
  BY ClientParts
<1>2. t'.last = m
  BY DEF Counter
<1> QED
  BY <1>1, <1>2 DEF CodexChat, ChatTold

LEMMA CodexChatNext ==
  ASSUME Provider, Provider', pair = <<"codex", "chat">>, CodexChat, Next
  PROVE  CodexChat'
<1> DEFINE m == t.last
           bl == r.blocks
<1>1. Source = "codex" /\ FromEvents
  BY DEF Source, FromEvents
<1>2. /\ t = Counter(<<>>, m) /\ m \in Int /\ m >= -1 /\ Calling(bl, m + 1)
      /\ m # -1 <=> HasCall(Heard(said, open))
      /\ phase # "done" => r = Following(Content(Heard(said, open)), bl, reason)
  BY DEF CodexChat, ChatTold
<1> HIDE DEF m, bl
<1>3. Deliver /\ pair = <<"codex", "chat">> /\ t = Counter(<<>>, m)
  BY <1>1, <1>2, EventsNext
<1>4. ASSUME CodexToChat(Counter(<<>>, m), chunk') = Counter(<<>>, m), phase # "done", phase' # "done", reason' = reason,
             Content(Heard(said', open')) = Content(Heard(said, open)),
             HasCall(Heard(said', open')) <=> HasCall(Heard(said, open))
      PROVE  CodexChat'
  <2>1. t' = Counter(<<>>, m) /\ Shows(<<>>)
    BY <1>3, <1>4, CodexChatDelivered
  <2>2. r' = Following(Content(Heard(said', open')), bl, reason')
    BY <1>2, <1>4, <2>1, ShowsNothing
  <2> QED
    BY <1>2, <1>4, <2>1, <2>2, CodexChatGoesOn
<1>5. ASSUME NEW k \in {"thought", "text", "call"}, EventOpen(k) \/ (EventMore /\ k = "thought")
      PROVE  CodexChat'
  <2>1. PICK i : chunk' = Open(i, k, Last(said').name)
    BY <1>1, <1>5, OpenStep
  <2>2. /\ phase = "saying" /\ phase' = "saying" /\ reason' = reason /\ Heard(said, open) = said
        /\ Content(Heard(said', open')) = Content(said)
        /\ HasCall(Heard(said', open')) <=> HasCall(said)
    BY <1>1, <1>5, OpenStep
  <2>3. CodexToChat(Counter(<<>>, m), chunk') = Counter(<<>>, m)
    BY <2>1, CodexToChatSteps
  <2> QED
    BY <1>4, <2>2, <2>3
<1>6. CASE EventSay
  <2>1. PICK i, d : /\ chunk' = Delta(i, Last(said).kind, d) /\ d \in Pieces
                    /\ Last(said).kind = "call" => Heard(said, open) = Front(said) /\ Heard(said', open') = Front(said)
                    /\ Last(said).kind # "call" =>
                           /\ Heard(said, open) = said /\ Heard(said', open') = said'
                           /\ Content(said') = AddText(Content(said), Last(said).kind, d)
    BY <1>1, <1>6, SayStep
  <2>2. /\ phase = "saying" /\ phase' = "saying" /\ reason = "none" /\ reason' = reason
        /\ HasCall(said') <=> HasCall(said)
    BY <1>1, <1>6, SayStep
  <2>3. CASE Last(said).kind = "call"
    <3>1. CodexToChat(Counter(<<>>, m), chunk') = Counter(<<>>, m)
      BY <2>1, <2>3, CodexToChatSteps
    <3> QED
      BY <1>4, <2>1, <2>2, <2>3, <3>1
  <2>4. CASE Last(said).kind # "call"
    <3>1. CodexToChat(Counter(<<>>, m), chunk') = Counter(<<Delta(Message, Last(said).kind, d)>>, m)
      BY <2>1, <2>4, CodexToChatSteps
    <3>2. t' = Counter(<<>>, m) /\ Shows(<<Delta(Message, Last(said).kind, d)>>)
      BY <1>3, <3>1, CodexChatDelivered
    <3>3. r = Following(Content(said), bl, "none")
      BY <1>2, <2>1, <2>2, <2>4
    <3>4. r' = Following(AddText(Content(said), Last(said).kind, d), bl, "none")
      BY <2>2, <3>2, <3>3, ShowsText
    <3>5. r' = Following(Content(Heard(said', open')), bl, reason')
      BY <2>1, <2>2, <2>4, <3>4
    <3>6. m # -1 <=> HasCall(Heard(said', open'))
      BY <1>2, <2>1, <2>2, <2>4
    <3> QED
      BY <1>2, <2>2, <3>2, <3>5, <3>6, CodexChatGoesOn
  <2> QED
    BY <2>3, <2>4
<1>7. CASE EventClose
  <2>1. PICK i : chunk' = IF Source = "codex" /\ Last(said).kind = "call"
                          THEN Item(i, "call", Last(said).name, Last(said).data) ELSE Close(i)
    BY <1>1, <1>7, CloseStep
  <2>2. /\ phase = "saying" /\ phase' = "saying" /\ reason = "none" /\ reason' = reason
        /\ Heard(said', open') = said /\ Last(said).data \in Pieces
        /\ Last(said).kind = "call" =>
              /\ Heard(said, open) = Front(said) /\ HasCall(said)
              /\ Content(said) = AddCall(Content(Front(said)), Last(said).name, Last(said).data)
        /\ Last(said).kind # "call" => Heard(said, open) = said
    BY <1>1, <1>7, CloseStep
  <2>3. CASE Last(said).kind = "call"
    <3> DEFINE n == Last(said).name
               d == Last(said).data
    <3>1. CodexToChat(Counter(<<>>, m), chunk') = Counter(<<Call(m + 1, n, d)>>, m + 1)
      BY <1>1, <2>1, <2>3, CodexToChatSteps
    <3>2. d \in Pieces /\ Content(said) = AddCall(Content(Front(said)), n, d)
      BY <2>2, <2>3
    <3> HIDE DEF n, d
    <3>3. t' = Counter(<<>>, m + 1) /\ Shows(<<Call(m + 1, n, d)>>)
      BY <1>3, <3>1, CodexChatDelivered
    <3>4. m + 1 \in Nat /\ m + 1 \in Int /\ m + 1 >= -1 /\ m + 1 # -1
      BY <1>2
    <3>5. r = Following(Content(Front(said)), bl, "none")
      BY <1>2, <2>2, <2>3
    <3>6. /\ r' = Following(AddCall(Content(Front(said)), n, d), Append(bl, Written(m + 1, d)), "none")
          /\ Calling(Append(bl, Written(m + 1, d)), (m + 1) + 1)
      BY <1>2, <2>2, <3>2, <3>3, <3>4, <3>5, ShowsCall
    <3>7. r' = Following(Content(Heard(said', open')), Append(bl, Written(m + 1, d)), reason')
      BY <2>2, <3>2, <3>6
    <3>8. HasCall(Heard(said', open'))
      BY <2>2, <2>3
    <3> QED
      BY <2>2, <3>3, <3>4, <3>6, <3>7, <3>8, CodexChatGoesOn
  <2>4. CASE Last(said).kind # "call"
    <3>1. CodexToChat(Counter(<<>>, m), chunk') = Counter(<<>>, m)
      BY <2>1, <2>4, CodexToChatSteps
    <3> QED
      BY <1>4, <2>2, <2>4, <3>1
  <2> QED
    BY <2>3, <2>4
<1>8. CASE EventStart
  <2>1. /\ Heard(said, open) = said /\ Heard(said', open') = said
        /\ chunk' = Start /\ phase = "start" /\ phase' = "saying" /\ reason' = reason
    BY <1>8, StillStep DEF EventStart, Send
  <2>2. CodexToChat(Counter(<<>>, m), chunk') = Counter(<<>>, m)
    BY <2>1, CodexToChatSteps
  <2> QED
    BY <1>4, <2>1, <2>2
<1>9. CASE EventCompleted
  <2>1. /\ Heard(said, open) = said /\ Heard(said', open') = said
        /\ chunk' = Completed(Content(said)) /\ phase = "saying" /\ phase' = "done"
        /\ reason' = (IF HasCall(said) THEN "tool" ELSE "stop")
    BY <1>9, StillStep DEF EventCompleted, Send
  <2>2. CodexToChat(Counter(<<>>, m), chunk') = Counter(<<Reason(reason')>>, m)
    <3>1. reason' = IF m # -1 THEN "tool" ELSE "stop"
      BY <1>2, <2>1
    <3>2. CodexToChat(Counter(<<>>, m), Completed(Content(said))) = Counter(<<Reason(reason')>>, m)
      BY <3>1, CodexToChatOver
    <3> QED
      BY <2>1, <3>2
  <2>3. t' = Counter(<<>>, m) /\ Shows(<<Reason(reason')>>)
    BY <1>3, <2>2, CodexChatDelivered
  <2>4. r = Following(Content(said), bl, "none")
    BY <1>2, <2>1 DEF Provider
  <2>5. r' = Finished(Content(said), bl, reason')
    BY <1>2, <2>1, <2>3, <2>4, ShowsReason
  <2>6. m # -1 <=> HasCall(Heard(said', open'))
    BY <1>2, <2>1
  <2>7. r' = Finished(Content(Heard(said', open')), bl, reason')
    BY <2>1, <2>5
  <2> QED
    BY <1>2, <2>1, <2>3, <2>6, <2>7, CodexChatGoesOn
<1>10. ~EventReason /\ ~EventStop
  BY <1>1 DEF EventReason, EventStop
<1> QED
  BY <1>1, <1>5, <1>6, <1>7, <1>8, <1>9, <1>10, EventsNext

-----------------------------------------------------------------------------
(* To the Claude format. *)

\* The call said last goes on.
LEMMA LastCallGrows ==
  ASSUME NEW h \in ContentType, NEW n \in Int, NEW a \in Pieces, NEW d \in Pieces, NEW g, g = AddCall(h, n, a)
  PROVE  /\ AddArgs(g, Len(g.calls), d) = AddCall(h, n, a \o d)
         /\ Len(g.calls) = Len(h.calls) + 1 /\ Len(AddCall(h, n, a \o d).calls) = Len(g.calls)
<1> DEFINE ToolCall == [name : Int, args : Pieces]
           q == h.calls
           x == [name |-> n, args |-> a]
           e == a \o d
           y == [name |-> n, args |-> e]
           u == Append(q, x)
           v == Append(q, y)
           m == Len(q) + 1
<1>1. /\ h = [thought |-> h.thought, text |-> h.text, calls |-> q] /\ q \in Seq(ToolCall)
  BY DEF ContentType
<1>2. e \in Pieces
  BY DEF Pieces
<1>3. /\ x = [name |-> n, args |-> a] /\ y = [name |-> n, args |-> e]
      /\ x \in ToolCall /\ y \in ToolCall /\ x.args = a
  BY <1>2
<1> HIDE DEF e
<1>4. /\ u \in Seq(ToolCall) /\ Len(u) = m /\ u[m] = x /\ m \in Nat /\ m \in 1..m
      /\ v \in Seq(ToolCall) /\ Len(v) = m /\ v[m] = y
      /\ \A i \in 1..m : i # m => u[i] = q[i] /\ v[i] = q[i]
  <2> HIDE DEF x, y
  <2> QED
    BY <1>1, <1>3
<1>5. /\ g = [thought |-> h.thought, text |-> h.text, calls |-> u]
      /\ AddCall(h, n, e) = [thought |-> h.thought, text |-> h.text, calls |-> v]
  <2>1. g = [h EXCEPT !.calls = u] /\ AddCall(h, n, e) = [h EXCEPT !.calls = v]
    BY DEF AddCall
  <2> HIDE DEF u, v, q
  <2>2. \A w : [h EXCEPT !.calls = w] = [thought |-> h.thought, text |-> h.text, calls |-> w]
    BY DEF ContentType
  <2> QED
    BY <2>1, <2>2
<1> HIDE DEF x, y
<1>6. [x EXCEPT !.args = e] = y
  BY <1>3
<1> HIDE DEF u, v, m, ToolCall
<1>7. [u EXCEPT ![m] = y] = v
  BY <1>4
<1> HIDE DEF q
<1>8. g.calls = u /\ g.thought = h.thought /\ g.text = h.text /\ Len(g.calls) = m /\ u[m].args = a
  BY <1>3, <1>4, <1>5
<1>9. [g EXCEPT !.calls[m].args = e] = [g EXCEPT !.calls = [u EXCEPT ![m] = [x EXCEPT !.args = e]]]
  BY <1>4, <1>8
<1>10. [g EXCEPT !.calls = v] = [thought |-> h.thought, text |-> h.text, calls |-> v]
  BY <1>5
<1>11. [g EXCEPT !.calls[m].args = e] = AddCall(h, n, e)
  BY <1>5, <1>6, <1>7, <1>9, <1>10
<1>12. g.calls[m].args \o d = e
  BY <1>8 DEF e
<1>13. AddCall(h, n, e).calls = v
  BY <1>5
<1>14. AddArgs(g, m, d) = AddCall(h, n, e)
  BY <1>11, <1>12 DEF AddArgs
<1> QED
  BY <1>4, <1>8, <1>13, <1>14 DEF e, q, m

LEMMA NothingSaid ==
  ASSUME NEW h \in ContentType, NEW n \in Int, NEW e \in Pieces, e \o e = e, NEW g, g = AddCall(h, n, e)
  PROVE  AddArgs(g, Len(g.calls), e) = g /\ Len(g.calls) = Len(h.calls) + 1
<1>1. \A d \in Pieces : AddArgs(g, Len(g.calls), d) = AddCall(h, n, e \o d)
  BY LastCallGrows
<1>2. Len(g.calls) = Len(h.calls) + 1
  BY LastCallGrows
<1>3. AddArgs(g, Len(g.calls), e) = AddCall(h, n, e \o e)
  BY <1>1
<1> QED
  BY <1>2, <1>3

LEMMA PlacedAt ==
  ASSUME NEW bl, NEW s \in Seq(BlockType), s # <<>>, NEW o, Placed(bl, s, o),
         NEW c, c.blocks = bl
  PROVE  /\ Len(s) \in 1..Len(s) /\ Len(s) - 1 # Message /\ Len(s) - 1 \in Int
         /\ Has(c, Len(s) - 1) /\ BlockAt(c, Len(s) - 1) = Len(s)
<1>1. Len(s) \in Nat /\ Len(s) >= 1
  BY LastBlock
<1>2. DOMAIN bl = 1..Len(s) /\ \A n \in 1..Len(s) : bl[n].at = n - 1
  BY DEF Placed
<1>3. Has(c, Len(s) - 1)
  BY <1>1, <1>2 DEF Has
<1>4. \A n \in DOMAIN bl : bl[n].at = Len(s) - 1 <=> n = Len(s)
  BY <1>1, <1>2
<1>5. BlockAt(c, Len(s) - 1) = Len(s)
  BY <1>1, <1>2, <1>4 DEF BlockAt
<1> QED
  BY <1>1, <1>3, <1>5 DEF Message

\* Where a block is does not depend on what it says.
LEMMA PlacedLike ==
  ASSUME NEW bl, NEW s, NEW o, Placed(bl, s, o), NEW u, Len(u) = Len(s), \A n \in 1..Len(s) : u[n].kind = s[n].kind
  PROVE  Placed(bl, u, o)
BY DEF Placed

WatchedBlock(i, k, c) == [at |-> i, kind |-> k, open |-> TRUE, data |-> <<>>, slot |-> i, call |-> c]

LEMMA PlacedMore ==
  ASSUME NEW bl, NEW s \in Seq(BlockType), Placed(bl, s, {}), NEW b \in BlockType, NEW c \in Int,
         NEW u, u = Append(s, b), NEW x, x = WatchedBlock(Len(s), b.kind, c), NEW more, more = Append(bl, x),
         NEW z, z = Len(u)
  PROVE  Placed(more, u, {z})
<1> DEFINE m == Len(s)
<1>1. m \in Nat /\ Len(u) = m + 1 /\ u[m + 1] = b /\ \A n \in 1..m : u[n] = s[n]
  OBVIOUS
<1>2. /\ bl \in Seq(ClaudeBlock) /\ Len(bl) = m
      /\ \A n \in 1..m : bl[n].at = n - 1 /\ bl[n].slot = n - 1 /\ bl[n].kind = s[n].kind /\ bl[n].open = FALSE
  BY DEF Placed
<1>3. /\ x \in ClaudeBlock /\ x.at = m /\ x.slot = m /\ x.kind = b.kind /\ x.open = TRUE /\ x.call = c
  <2>1. <<>> \in Pieces /\ b.kind \in {"thought", "text", "call"}
    BY DEF Pieces, BlockType
  <2> QED
    BY <1>1, <2>1 DEF WatchedBlock, ClaudeBlock
<1> HIDE DEF m
<1>4. /\ more \in Seq(ClaudeBlock) /\ Len(more) = m + 1 /\ more[m + 1] = x
      /\ \A n \in 1..m : more[n] = bl[n]
  BY <1>1, <1>2, <1>3
<1>5. \A n \in 1..(m + 1) : n \in 1..m \/ n = m + 1
  BY <1>1
<1>6. \A n \in 1..Len(u) : /\ more[n].at = n - 1 /\ more[n].slot = n - 1 /\ more[n].kind = u[n].kind
                           /\ n \in {Len(u)} => more[n].open = TRUE
                           /\ n \notin {Len(u)} => more[n].open = FALSE
  BY <1>1, <1>2, <1>3, <1>4, <1>5
<1>7. Placed(more, u, {Len(u)})
  BY <1>1, <1>4, <1>6 DEF Placed
<1> QED
  BY <1>1, <1>3, <1>4, <1>7 DEF m

Longer(bl, m, d) == [bl EXCEPT ![m].data = @ \o d]
Shut(bl, m) == [bl EXCEPT ![m].open = FALSE]

LEMMA PlacedLonger ==
  ASSUME NEW bl, NEW s \in Seq(BlockType), s # <<>>, NEW o, Placed(bl, s, o), NEW d \in Pieces
  PROVE  Placed(Longer(bl, Len(s), d), s, o) /\ Longer(bl, Len(s), d)[Len(s)].call = bl[Len(s)].call
<1> DEFINE m == Len(s)
           x == [bl[m] EXCEPT !.data = @ \o d]
           u == [bl EXCEPT ![m] = x]
<1>1. m \in 1..m /\ bl \in Seq(ClaudeBlock) /\ Len(bl) = m /\ bl[m] \in ClaudeBlock /\ m \in Nat
  <2>1. m \in Nat /\ m >= 1
    BY LastBlock
  <2> QED
    BY <2>1 DEF Placed
<1>2. u = Longer(bl, m, d)
  BY <1>1 DEF Longer
<1>3. /\ x \in ClaudeBlock /\ x.at = bl[m].at /\ x.slot = bl[m].slot /\ x.kind = bl[m].kind
      /\ x.open = bl[m].open /\ x.call = bl[m].call
  <2>1. \A e, f \in Pieces : e \o f \in Pieces
    BY DEF Pieces
  <2>2. bl[m].data \o d \in Pieces
    BY <1>1, <2>1 DEF ClaudeBlock
  <2> QED
    BY <1>1, <2>2 DEF ClaudeBlock
<1> HIDE DEF x, m
<1>4. /\ u \in Seq(ClaudeBlock) /\ Len(u) = m /\ u[m] = x
      /\ \A n \in 1..m : n # m => u[n] = bl[n]
  BY <1>1, <1>3
<1> HIDE DEF u
<1>5. Placed(u, s, o)
  BY <1>1, <1>3, <1>4 DEF Placed, m
<1> QED
  BY <1>2, <1>3, <1>4, <1>5 DEF m

LEMMA PlacedShut ==
  ASSUME NEW bl, NEW s \in Seq(BlockType), s # <<>>, Placed(bl, s, {Len(s)})
  PROVE  Placed(Shut(bl, Len(s)), s, {})
<1> DEFINE m == Len(s)
           x == [bl[m] EXCEPT !.open = FALSE]
           u == [bl EXCEPT ![m] = x]
<1>1. m \in 1..m /\ bl \in Seq(ClaudeBlock) /\ Len(bl) = m /\ bl[m] \in ClaudeBlock /\ m \in Nat
  <2>1. m \in Nat /\ m >= 1
    BY LastBlock
  <2> QED
    BY <2>1 DEF Placed
<1>2. u = Shut(bl, m)
  BY <1>1 DEF Shut
<1>3. /\ x \in ClaudeBlock /\ x.at = bl[m].at /\ x.slot = bl[m].slot /\ x.kind = bl[m].kind
      /\ x.open = FALSE
  BY <1>1 DEF ClaudeBlock
<1> HIDE DEF x, m
<1>4. /\ u \in Seq(ClaudeBlock) /\ Len(u) = m /\ u[m] = x
      /\ \A n \in 1..m : n # m => u[n] = bl[n]
  BY <1>1, <1>3
<1> HIDE DEF u
<1>5. \A n \in 1..m : /\ u[n].at = n - 1 /\ u[n].slot = n - 1 /\ u[n].kind = s[n].kind /\ u[n].open = FALSE
  BY <1>1, <1>3, <1>4 DEF Placed, m
<1>6. Placed(u, s, {})
  BY <1>4, <1>5 DEF Placed, m
<1> QED
  BY <1>2, <1>6 DEF m

\* What a client of the Claude format makes of what it is told.
LEMMA WatchingParts ==
  ASSUME NEW g, NEW bl, NEW w
  PROVE  LET c == Watching(g, bl, w)
         IN  /\ c.got = g /\ c.blocks = bl /\ c.reason = w /\ c.faults = {}
             /\ \A f : Framing(f) => Attentive(f, c)
             /\ \A f : Framing(f) /\ w = "none" => Expectant(f, c)
<1> DEFINE c == Watching(g, bl, w)
<1>1. c.got = g /\ c.blocks = bl /\ c.reason = w /\ c.faults = {} /\ c.started = Yes /\ c.ended = No
  BY DEF Watching, Client
<1> HIDE DEF c
<1>2. \A f : Framing(f) => Attentive(f, c)
  BY <1>1 DEF Attentive, Yes, No
<1> QED
  BY <1>1, <1>2 DEF c, Expectant

\* How such a client changes.
Begun(c) == [c EXCEPT !.started = TRUE]
Extended(c, b, h) == [c EXCEPT !.blocks = b, !.got = h]
Blocked(c, b) == [c EXCEPT !.blocks = b]
Reasoned(c, w) == [c EXCEPT !.reason = w]
Ended(c, none) == [c EXCEPT !.ended = TRUE, !.faults = none]

LEMMA WatchingMore ==
  ASSUME NEW g, NEW bl, NEW w, NEW c, c = Watching(g, bl, w), NEW h, NEW b
  PROVE  Extended(c, b, h) = Watching(h, b, w)
<1>1. [Watching(g, bl, w) EXCEPT !.blocks = b] = Watching(g, b, w)
  BY DEF Watching, Client
<1>2. [Watching(g, b, w) EXCEPT !.got = h] = Watching(h, b, w)
  BY DEF Watching, Client
<1> QED
  BY <1>1, <1>2 DEF Extended

LEMMA WatchingOn ==
  ASSUME NEW g, NEW bl, NEW w, NEW c, c = Watching(g, bl, w), NEW b, NEW v
  PROVE  /\ Blocked(c, b) = Watching(g, b, w)
         /\ Reasoned(c, v) = Watching(g, bl, v)
         /\ Ended(c, {}) = Satisfied(g, bl, w)
         /\ Begun(Following(g, bl, w)) = c
<1>1. [Watching(g, bl, w) EXCEPT !.blocks = b] = Watching(g, b, w)
  BY DEF Watching, Client
<1>3. [Watching(g, bl, w) EXCEPT !.reason = v] = Watching(g, bl, v)
  BY DEF Watching, Client
<1>4. [Watching(g, bl, w) EXCEPT !.ended = TRUE] = Satisfied(g, bl, w)
  <2>1. [Watching(g, bl, w) EXCEPT !.ended = Yes] = Satisfied(g, bl, w)
    BY DEF Watching, Satisfied, Client
  <2> QED
    BY <2>1 DEF Yes
<1>5. [Satisfied(g, bl, w) EXCEPT !.faults = {}] = Satisfied(g, bl, w)
  BY DEF Satisfied, Client
<1>6. [Following(g, bl, w) EXCEPT !.started = TRUE] = Watching(g, bl, w)
  <2>1. Following(g, bl, w) = Client(g, bl, No, w, No)
    BY DEF Following, No
  <2>2. [Client(g, bl, No, w, No) EXCEPT !.started = Yes] = Watching(g, bl, w)
    BY DEF Watching, Client
  <2> QED
    BY <2>1, <2>2 DEF Yes
<1> QED
  BY <1>1, <1>3, <1>4, <1>5, <1>6 DEF Blocked, Reasoned, Ended, Begun

LEMMA ReadStart ==
  ASSUME NEW f, Framing(f), NEW g, NEW bl
  PROVE  Read(f, Following(g, bl, "none"), Start) = Watching(g, bl, "none")
<1> DEFINE c == Following(g, bl, "none")
<1>1. /\ ~c.started /\ ~c.ended
  BY DEF Following, Client
<1> HIDE DEF c
<1>2. Read(f, c, Start) = Begun(c)
  BY <1>1 DEF Read, Start, Begun
<1>3. Begun(c) = Watching(g, bl, "none")
  BY WatchingOn DEF c
<1> QED
  BY <1>2, <1>3 DEF c

LEMMA ReadOpens ==
  ASSUME NEW f, Framing(f), NEW s \in Seq(BlockType), NEW bl, Placed(bl, s, {}), NEW g, NEW k, NEW n
  PROVE  LET read == Read(f, Watching(g, bl, "none"), Open(Len(s), k, n))
             more == Append(bl, WatchedBlock(Len(s), k, Len(g.calls) + 1))
         IN  /\ k = "call" => read = Watching(AddCall(g, n, <<>>), more, "none")
             /\ k # "call" => read = Watching(g, more, "none")
<1> DEFINE c == Watching(g, bl, "none")
           e == Open(Len(s), k, n)
           x == WatchedBlock(Len(s), k, Len(g.calls) + 1)
           more == Append(bl, x)
           h == IF k = "call" THEN AddCall(g, n, <<>>) ELSE g
<1>1. /\ c.got = g /\ c.blocks = bl /\ Expectant(f, c)
  BY WatchingParts
<1>2. e.at = Len(s) /\ e.slot = Len(s) /\ e.kind = k /\ e.name = n
  BY DEF Open
<1>3. Read(f, c, e) = ReadOpen(c, e)
  <2> HIDE DEF c
  <2> QED
    BY <1>1, ReadingOpen
<1> HIDE DEF c, e
<1>4. ~Has(c, Len(s)) /\ ~\E m \in DOMAIN bl : bl[m].slot = Len(s)
  <2>1. DOMAIN bl = 1..Len(s) /\ \A m \in 1..Len(s) : bl[m].at = m - 1 /\ bl[m].slot = m - 1
    BY DEF Placed
  <2>2. \A m \in 1..Len(s) : m - 1 # Len(s)
    OBVIOUS
  <2> QED
    BY <1>1, <2>1, <2>2 DEF Has
<1>5. ReadOpen(c, e) = Opened(c, e)
  BY <1>1, <1>2, <1>4 DEF ReadOpen
<1>6. Opened(c, e) = Extended(c, more, h)
  BY <1>1, <1>2 DEF Opened, WatchedBlock, Extended
<1> HIDE DEF x, more, h
<1>7. Extended(c, more, h) = Watching(h, more, "none")
  BY WatchingMore DEF c
<1> QED
  BY <1>3, <1>5, <1>6, <1>7 DEF c, e, x, more, h

More(c, n, d, h) == [c EXCEPT !.blocks[n].data = @ \o d, !.got = h]
Heeded(c, k, n, d) == IF k = "call" THEN AddArgs(c.got, c.blocks[n].call, d) ELSE AddText(c.got, k, d)

LEMMA ReadSays ==
  ASSUME NEW f, Framing(f), NEW s \in Seq(BlockType), s # <<>>, NEW bl, Placed(bl, s, {Len(s)}),
         NEW g, NEW k, k = Last(s).kind, NEW d
  PROVE  LET read == Read(f, Watching(g, bl, "none"), Delta(Len(s) - 1, k, d))
         IN  /\ k = "call" => read = Watching(AddArgs(g, bl[Len(s)].call, d), Longer(bl, Len(s), d), "none")
             /\ k # "call" => read = Watching(AddText(g, k, d), Longer(bl, Len(s), d), "none")
<1> DEFINE c == Watching(g, bl, "none")
           i == Len(s) - 1
           m == Len(s)
           e == Delta(i, k, d)
           h == IF k = "call" THEN AddArgs(g, bl[m].call, d) ELSE AddText(g, k, d)
<1>1. /\ c.got = g /\ c.blocks = bl /\ Expectant(f, c)
  BY WatchingParts
<1>2. e.at = i /\ e.kind = k /\ e.data = d
  BY DEF Delta
<1>3. Read(f, c, e) = ReadDelta(c, e)
  <2> HIDE DEF c
  <2> QED
    BY <1>1, ReadingDelta
<1> HIDE DEF c, e
<1>4. m \in 1..m /\ i # Message /\ Has(c, i) /\ BlockAt(c, i) = m
  BY <1>1, PlacedAt
<1>5. OpenAt(c, i, k)
  <2>1. bl[m].open = TRUE /\ bl[m].kind = k
    BY <1>4, LastBlock DEF Placed
  <2> HIDE DEF i, m
  <2> QED
    BY <1>1, <1>4, <2>1 DEF OpenAt
<1> HIDE DEF i, m
<1>6. ReadDelta(c, e) = Extended(c, Longer(bl, m, d), h)
  <2> DEFINE n == BlockAt(c, e.at)
  <2>1. ReadDelta(c, e) = More(c, n, e.data, Heeded(c, e.kind, n, e.data))
    <3>1. e.at # Message /\ OpenAt(c, e.at, e.kind)
      BY <1>2, <1>4, <1>5
    <3>2. CASE e.kind = "call"
      BY <3>1, <3>2 DEF ReadDelta, More, AddArgs, Heeded
    <3>3. CASE e.kind # "call"
      BY <3>1, <3>3 DEF ReadDelta, More, AddArgs, Heeded
    <3> QED
      BY <3>2, <3>3
  <2>2. n = m
    BY <1>2, <1>4
  <2> HIDE DEF n
  <2>3. Heeded(c, e.kind, n, e.data) = h
    BY <1>1, <1>2, <2>2 DEF Heeded, AddArgs
  <2>4. ReadDelta(c, e) = More(c, m, d, h)
    BY <1>2, <2>1, <2>2, <2>3
  <2> HIDE DEF h
  <2>5. More(c, m, d, h) = Extended(c, Longer(c.blocks, m, d), h)
    BY DEF More, Extended, Longer
  <2> QED
    BY <1>1, <2>4, <2>5
<1> HIDE DEF h
<1>7. Extended(c, Longer(bl, m, d), h) = Watching(h, Longer(bl, m, d), "none")
  BY WatchingMore DEF c
<1> QED
  BY <1>3, <1>6, <1>7 DEF c, e, i, m, h

LEMMA ReadShuts ==
  ASSUME NEW f, Framing(f), NEW s \in Seq(BlockType), s # <<>>, NEW bl, Placed(bl, s, {Len(s)}), NEW g
  PROVE  Read(f, Watching(g, bl, "none"), Close(Len(s) - 1)) = Watching(g, Shut(bl, Len(s)), "none")
<1> DEFINE c == Watching(g, bl, "none")
           i == Len(s) - 1
           m == Len(s)
           e == Close(i)
<1>1. /\ c.blocks = bl /\ Attentive(f, c)
  BY WatchingParts
<1>2. e.at = i
  BY DEF Close
<1>3. Read(f, c, e) = ReadClose(c, e)
  <2> HIDE DEF c
  <2> QED
    BY <1>1, ReadingClose
<1> HIDE DEF c, e
<1>4. m \in 1..m /\ Has(c, i) /\ BlockAt(c, i) = m
  BY <1>1, PlacedAt
<1>5. bl[m].open = TRUE
  BY <1>4 DEF Placed
<1> HIDE DEF i, m
<1>6. ReadClose(c, e) = Blocked(c, Shut(bl, m))
  BY <1>1, <1>2, <1>4, <1>5 DEF ReadClose, Shut, Blocked
<1>7. Blocked(c, Shut(bl, m)) = Watching(g, Shut(bl, m), "none")
  BY WatchingOn DEF c
<1> QED
  BY <1>3, <1>6, <1>7 DEF c, e, i, m

LEMMA ReadTold ==
  ASSUME NEW f, Framing(f), NEW g, NEW bl, NEW w
  PROVE  Read(f, Watching(g, bl, "none"), Reason(w)) = Watching(g, bl, w)
<1> DEFINE c == Watching(g, bl, "none")
<1>1. /\ c.reason = "none" /\ Attentive(f, c)
  BY WatchingParts
<1> HIDE DEF c
<1>2. Read(f, c, Reason(w)) = ReadReason(c, Reason(w))
  BY <1>1, ReadingReason
<1>3. ReadReason(c, Reason(w)) = Reasoned(c, w)
  BY <1>1 DEF ReadReason, Reason, Reasoned
<1>4. Reasoned(c, w) = Watching(g, bl, w)
  BY WatchingOn DEF c
<1> QED
  BY <1>2, <1>3, <1>4 DEF c

LEMMA ReadStops ==
  ASSUME NEW f, Framing(f), NEW g, NEW s, NEW bl, Placed(bl, s, {}), NEW w
  PROVE  Read(f, Watching(g, bl, w), Stop) = Satisfied(g, bl, w)
<1> DEFINE c == Watching(g, bl, w)
           none == {<<"left open", bl[n].kind>> : n \in {m \in DOMAIN bl : bl[m].open}}
<1>1. /\ c.blocks = bl /\ c.faults = {} /\ Attentive(f, c)
  BY WatchingParts
<1> HIDE DEF c
<1>2. Read(f, c, Stop) = ReadEnd(c)
  BY <1>1, ReadingStop
<1>3. none = {}
  <2>1. DOMAIN bl = 1..Len(s) /\ \A m \in 1..Len(s) : bl[m].open = FALSE
    BY DEF Placed
  <2> QED
    BY <2>1
<1>4. ReadEnd(c) = Ended(c, none)
  <2>1. {} \cup none = none
    OBVIOUS
  <2> QED
    BY <1>1, <2>1 DEF ReadEnd, Ended
<1> HIDE DEF none
<1>5. Ended(c, none) = Satisfied(g, bl, w)
  BY <1>3, WatchingOn DEF c
<1> QED
  BY <1>2, <1>4, <1>5 DEF c

\* What is delivered to a client of a format that begins and ends a stream with events.
Tells(events) == \E f : Framing(f) /\ r' = Reading(f, r, events)

LEMMA FramedDelivered ==
  ASSUME Deliver, Source # "kiro", Target = "claude",
         NEW s, s = Translate(pair, [t EXCEPT !.out = <<>>], chunk')
  PROVE  t' = [s EXCEPT !.out = <<>>] /\ Tells(s.out)
<1> DEFINE f == Framed
<1>1. Framing(f)
  BY FramedOf DEF Framing
<1>2. f
  BY FramedOf
<1>3. /\ t' = [s EXCEPT !.out = <<>>]
      /\ r' = IF phase' = "done" /\ ~f THEN ReadEnd(Reading(f, r, s.out)) ELSE Reading(f, r, s.out)
  BY Delivered
<1>4. r' = Reading(f, r, s.out)
  BY <1>2, <1>3
<1> HIDE DEF f
<1> QED
  BY <1>1, <1>3, <1>4 DEF Tells

LEMMA SatisfiedParts ==
  ASSUME NEW g, NEW bl, NEW w
  PROVE  Following(g, bl, w).blocks = bl /\ Watching(g, bl, w).blocks = bl /\ Satisfied(g, bl, w).blocks = bl
BY DEF Following, Watching, Satisfied, Client

LEMMA ClaudeGoesOn ==
  ASSUME NEW b, Placed(b, said', open'), Pointed(b, said', open'),
         \/ phase' \in {"saying", "told"} /\ r' = Watching(Content(said'), b, reason')
         \/ phase' = "done" /\ r' = Satisfied(Content(said'), b, reason')
  PROVE  ClaudeTold'
<1>1. r'.blocks = b
  BY SatisfiedParts
<1> QED
  BY <1>1 DEF ClaudeTold

\* Such a client through each of the provider's steps, when it is told of them.
LEMMA ClientStarts ==
  ASSUME Provider, EventStart, ClaudeTold, Tells(<<Start>>)
  PROVE  ClaudeTold'
<1> DEFINE bl == r.blocks
<1>1. /\ phase = "start" /\ phase' = "saying" /\ reason = "none" /\ reason' = reason /\ open' = open /\ said' = said
  BY DEF EventStart, Send, Provider
<1>2. r = Following(Content(said), bl, "none") /\ Placed(bl, said, open) /\ Pointed(bl, said, open)
  BY <1>1 DEF ClaudeTold
<1> HIDE DEF bl
<1>3. PICK f : Framing(f) /\ r' = Reading(f, r, <<Start>>)
  BY DEF Tells
<1>4. r' = Watching(Content(said), bl, "none")
  BY <1>2, <1>3, ReadOne, ReadStart
<1> QED
  BY <1>1, <1>2, <1>4, ClaudeGoesOn

LEMMA ClientOpens ==
  ASSUME Provider, FromEvents, NEW k \in {"thought", "text", "call"}, EventOpen(k) \/ (EventMore /\ k = "thought"),
         ClaudeTold,
         \/ Tells(<<Open(Len(said), k, Last(said').name)>>)
         \/ k = "call" /\ Tells(<<Open(Len(said), k, Last(said').name), Delta(Len(said), "call", <<>>)>>)
  PROVE  ClaudeTold'
<1> DEFINE bl == r.blocks
           n == Last(said').name
           i == Len(said)
           g == Content(said)
           x == WatchedBlock(i, k, Len(g.calls) + 1)
           more == Append(bl, x)
           u == said'
<1>1. /\ phase = "saying" /\ phase' = "saying" /\ reason = "none" /\ reason' = "none"
      /\ open = {} /\ open' = {Len(u)} /\ said \in Seq(BlockType) /\ g \in ContentType
      /\ u \in Seq(BlockType) /\ u # <<>> /\ Len(u) = i + 1 /\ n \in Int
      /\ Last(u).kind = k
      /\ Content(u) = IF k = "call" THEN AddCall(g, n, <<>>) ELSE g
      /\ CallOpen(u, open') <=> k = "call"
  BY OpenStep
<1>2. Placed(bl, said, {}) /\ r = Watching(g, bl, "none")
  BY <1>1 DEF ClaudeTold
<1>3. PICK b \in BlockType : u = Append(said, b) /\ b.kind = k
  <2>1. \A m \in 1..i : u[m] = said[m]
    BY OpenStep
  <2>2. Last(u) = u[i + 1] /\ Last(u) \in BlockType /\ i \in Nat
    BY <1>1, LastBlock
  <2> DEFINE v == Append(said, Last(u))
  <2>3. v \in Seq(BlockType) /\ Len(v) = i + 1 /\ v[i + 1] = Last(u) /\ \A m \in 1..i : v[m] = said[m]
    BY <1>1, <2>2
  <2>4. \A m \in 1..(i + 1) : m \in 1..i \/ m = i + 1
    BY <2>2
  <2> HIDE DEF v, u
  <2>5. u = v
    BY <1>1, <2>1, <2>2, <2>3, <2>4
  <2> QED
    BY <1>1, <2>2, <2>5 DEF v
<1>4. g.calls \in Seq([name : Int, args : Pieces]) /\ Len(g.calls) + 1 \in Int
  BY <1>1 DEF ContentType
<1> HIDE DEF bl, n, g, u
<1>5. Placed(more, u, {Len(u)}) /\ more[Len(u)].call = Len(g.calls) + 1
  <2>1. PICK c \in Int : c = Len(g.calls) + 1
    BY <1>4
  <2>2. u = Append(said, b) /\ x = WatchedBlock(Len(said), b.kind, c) /\ more = Append(bl, x)
    BY <1>3, <2>1
  <2> HIDE DEF x, more
  <2>3. PICK z : z = Len(u)
    OBVIOUS
  <2>4. Placed(more, u, {z})
    BY <1>1, <1>2, <2>2, <2>3, PlacedMore
  <2>5. more[z] = x
    <3>1. bl \in Seq(ClaudeBlock) /\ Len(bl) = Len(said) /\ z = Len(said) + 1
      BY <1>1, <1>2, <2>3 DEF Placed
    <3>2. more[Len(bl) + 1] = x
      BY <2>2, <3>1
    <3> QED
      BY <3>1, <3>2
  <2>6. x.call = c
    BY <2>2 DEF WatchedBlock
  <2> QED
    BY <2>1, <2>3, <2>4, <2>5, <2>6
<1>6. Pointed(more, u, open')
  <2>1. k = "call" => Len(AddCall(g, n, <<>>).calls) = Len(g.calls) + 1
    <3>1. <<>> \in Pieces
      BY DEF Pieces
    <3> QED
      BY <1>1, <3>1, LastCallGrows
  <2> QED
    BY <1>1, <1>5, <2>1 DEF Pointed
<1>7. CASE Tells(<<Open(i, k, n)>>)
  <2>1. PICK f : Framing(f) /\ r' = Reading(f, r, <<Open(i, k, n)>>)
    BY <1>7 DEF Tells
  <2>2. r' = Watching(Content(u), more, "none")
    BY <1>1, <1>2, <2>1, ReadOne, ReadOpens
  <2> QED
    BY <1>1, <1>5, <1>6, <2>2, ClaudeGoesOn DEF u
<1>8. CASE k = "call" /\ Tells(<<Open(i, k, n), Delta(i, "call", <<>>)>>)
  <2> DEFINE h == AddCall(g, n, <<>>)
             longer == Longer(more, Len(u), <<>>)
  <2>1. PICK f : Framing(f) /\ r' = Reading(f, r, <<Open(i, k, n), Delta(i, "call", <<>>)>>)
    BY <1>8 DEF Tells
  <2>2. Read(f, r, Open(i, k, n)) = Watching(h, more, "none")
    BY <1>1, <1>2, <1>8, <2>1, ReadOpens
  <2>3. <<>> \in Pieces /\ <<>> \o <<>> = <<>>
    BY DEF Pieces
  <2>4. AddArgs(h, Len(h.calls), <<>>) = h /\ Len(h.calls) = Len(g.calls) + 1
    <3>1. /\ \A e : e \in Pieces /\ e \o e = e /\ h = AddCall(g, n, e)
                 => AddArgs(h, Len(h.calls), e) = h /\ Len(h.calls) = Len(g.calls) + 1
          /\ h = AddCall(g, n, <<>>)
      BY <1>1, NothingSaid, SMTT(30)
    <3> HIDE DEF h
    <3> QED
      BY <2>3, <3>1
  <2> HIDE DEF h, more
  <2>5. i = Len(u) - 1 /\ "call" = Last(u).kind
    BY <1>1, <1>8
  <2>6. Read(f, Watching(h, more, "none"), Delta(i, "call", <<>>)) = Watching(AddArgs(h, more[Len(u)].call, <<>>), longer, "none")
    <3>1. \A d : Read(f, Watching(h, more, "none"), Delta(Len(u) - 1, "call", d))
                 = Watching(AddArgs(h, more[Len(u)].call, d), Longer(more, Len(u), d), "none")
      BY <1>1, <1>5, <2>1, <2>5, ReadSays
    <3> QED
      BY <2>5, <3>1 DEF longer
  <2>7. r' = Watching(h, longer, "none")
    BY <1>5, <2>1, <2>2, <2>4, <2>6, ReadTwo
  <2>8. Placed(longer, u, {Len(u)}) /\ longer[Len(u)].call = more[Len(u)].call
    BY <1>1, <1>5, <2>3, PlacedLonger
  <2> HIDE DEF longer
  <2>9. Content(u) = h
    BY <1>1, <1>8 DEF h
  <2>10. Pointed(longer, u, open')
    BY <1>6, <2>8 DEF Pointed
  <2> QED
    BY <1>1, <2>7, <2>8, <2>9, <2>10, ClaudeGoesOn DEF u
<1>9. Tells(<<Open(i, k, n)>>) \/ (k = "call" /\ Tells(<<Open(i, k, n), Delta(i, "call", <<>>)>>))
  BY DEF n
<1> QED
  BY <1>7, <1>8, <1>9

LEMMA ClientHears ==
  ASSUME Provider, FromEvents, EventSay, ClaudeTold, NEW d \in Pieces, chunk' = Delta(Len(said) - 1, Last(said).kind, d),
         Tells(<<chunk'>>)
  PROVE  ClaudeTold'
<1> DEFINE bl == r.blocks
           k == Last(said).kind
           n == Last(said).name
           a == Last(said).data
           g == Content(said)
           h == Content(Front(said))
           m == Len(said)
           longer == Longer(bl, m, d)
<1>1. /\ phase = "saying" /\ phase' = "saying" /\ reason = "none" /\ reason' = "none"
      /\ open = {m} /\ open' = {m} /\ said \in Seq(BlockType) /\ said # <<>>
      /\ Len(said') = m /\ \A j \in 1..m : said'[j].kind = said[j].kind
      /\ k \in {"thought", "text", "call"} /\ a \in Pieces /\ n \in Int
      /\ g \in ContentType /\ h \in ContentType
      /\ CallOpen(said, open) <=> k = "call"
      /\ CallOpen(said', open') <=> k = "call"
  BY SayStep
<1>2. /\ k = "call" => g = AddCall(h, n, a) /\ Content(said') = AddCall(h, n, a \o d)
      /\ k # "call" => Content(said') = AddText(g, k, d)
  <2>1. PICK i, e : /\ chunk' = Delta(i, k, e)
                    /\ k = "call" => g = AddCall(h, n, a) /\ Content(said') = AddCall(h, n, a \o e)
                    /\ k # "call" => Content(said') = AddText(g, k, e)
    BY SayStep
  <2>2. e = d
    BY <2>1 DEF Delta
  <2> QED
    BY <2>1, <2>2
<1>3. Placed(bl, said, {m}) /\ r = Watching(g, bl, "none") /\ (k = "call" => bl[m].call = Len(g.calls))
  BY <1>1 DEF ClaudeTold, Pointed
<1>4. PICK f : Framing(f) /\ r' = Reading(f, r, <<Delta(m - 1, k, d)>>)
  BY DEF Tells
<1>5. Placed(longer, said', {m}) /\ longer[m].call = bl[m].call
  <2>1. Placed(longer, said, {m}) /\ longer[m].call = bl[m].call
    BY <1>1, <1>3, PlacedLonger
  <2> HIDE DEF longer
  <2> QED
    BY <1>1, <2>1, PlacedLike
<1>6. r' = Read(f, Watching(g, bl, "none"), Delta(m - 1, k, d))
  BY <1>3, <1>4, ReadOne
<1>7. CASE k = "call"
  <2>1. r' = Watching(AddArgs(g, bl[m].call, d), longer, "none")
    BY <1>1, <1>3, <1>4, <1>6, <1>7, ReadSays
  <2>2. /\ AddArgs(g, Len(g.calls), d) = AddCall(h, n, a \o d)
        /\ Len(AddCall(h, n, a \o d).calls) = Len(g.calls)
    <3> HIDE DEF g, h, n, a
    <3> QED
      BY <1>1, <1>2, <1>7, LastCallGrows
  <2>3. r' = Watching(Content(said'), longer, "none")
    BY <1>2, <1>3, <1>7, <2>1, <2>2
  <2>4. Pointed(longer, said', open')
    BY <1>1, <1>2, <1>3, <1>5, <1>7, <2>2 DEF Pointed
  <2> HIDE DEF longer
  <2> QED
    BY <1>1, <1>5, <2>3, <2>4, ClaudeGoesOn
<1>8. CASE k # "call"
  <2>1. r' = Watching(AddText(g, k, d), longer, "none")
    BY <1>1, <1>3, <1>4, <1>6, <1>8, ReadSays
  <2>2. Pointed(longer, said', open')
    BY <1>1, <1>8 DEF Pointed
  <2> HIDE DEF longer
  <2> QED
    BY <1>1, <1>2, <1>5, <1>8, <2>1, <2>2, ClaudeGoesOn
<1> QED
  BY <1>7, <1>8

LEMMA ClientCloses ==
  ASSUME Provider, FromEvents, EventClose, ClaudeTold, Tells(<<Close(Len(said) - 1)>>)
  PROVE  ClaudeTold'
<1> DEFINE bl == r.blocks
           m == Len(said)
           shut == Shut(bl, m)
<1>1. /\ phase = "saying" /\ phase' = "saying" /\ reason = "none" /\ reason' = "none"
      /\ open = {m} /\ open' = {} /\ said' = said /\ said \in Seq(BlockType) /\ said # <<>>
      /\ ~CallOpen(said', open')
  BY CloseStep
<1>2. Placed(bl, said, {m}) /\ r = Watching(Content(said), bl, "none")
  BY <1>1 DEF ClaudeTold
<1> HIDE DEF bl
<1>3. PICK f : Framing(f) /\ r' = Reading(f, r, <<Close(m - 1)>>)
  BY DEF Tells
<1>4. r' = Watching(Content(said), shut, "none")
  BY <1>1, <1>2, <1>3, ReadOne, ReadShuts
<1>5. Placed(shut, said, {})
  BY <1>1, <1>2, PlacedShut
<1> HIDE DEF shut
<1>6. Pointed(shut, said', open')
  BY <1>1 DEF Pointed
<1> QED
  BY <1>1, <1>4, <1>5, <1>6, ClaudeGoesOn

LEMMA ClientEnds ==
  ASSUME Provider, ClaudeTold, EventReason \/ EventStop \/ EventCompleted,
         \/ EventReason /\ Tells(<<Reason(reason')>>)
         \/ EventStop /\ Tells(<<Stop>>)
         \/ EventCompleted /\ Tells(<<Reason(reason'), Stop>>)
  PROVE  ClaudeTold'
<1> DEFINE bl == r.blocks
           g == Content(said)
<1>1. open = {} /\ open' = {} /\ said' = said /\ said \in Seq(BlockType) /\ ~CallOpen(said', open')
  BY StillStep
<1>2. phase \in {"saying", "told"} => r = Watching(g, bl, reason)
  BY DEF ClaudeTold
<1>3. Placed(bl, said, {})
  BY <1>1 DEF ClaudeTold
<1>4. Pointed(bl, said', open')
  BY <1>1 DEF Pointed
<1> HIDE DEF bl
<1>5. CASE EventReason /\ Tells(<<Reason(reason')>>)
  <2>1. phase = "saying" /\ phase' = "told" /\ reason = "none"
    BY <1>5 DEF EventReason, Provider
  <2>2. PICK f : Framing(f) /\ r' = Reading(f, r, <<Reason(reason')>>)
    BY <1>5 DEF Tells
  <2>3. r' = Watching(g, bl, reason')
    BY <1>2, <2>1, <2>2, ReadOne, ReadTold
  <2> QED
    BY <1>1, <1>3, <1>4, <2>1, <2>3, ClaudeGoesOn
<1>6. CASE EventStop /\ Tells(<<Stop>>)
  <2>1. phase = "told" /\ phase' = "done" /\ reason' = reason
    BY <1>6 DEF EventStop
  <2>2. PICK f : Framing(f) /\ r' = Reading(f, r, <<Stop>>)
    BY <1>6 DEF Tells
  <2>3. r' = Satisfied(g, bl, reason)
    BY <1>2, <1>3, <2>1, <2>2, ReadOne, ReadStops
  <2> QED
    BY <1>1, <1>3, <1>4, <2>1, <2>3, ClaudeGoesOn
<1>7. CASE EventCompleted /\ Tells(<<Reason(reason'), Stop>>)
  <2>1. phase = "saying" /\ phase' = "done" /\ reason = "none"
    BY <1>7 DEF EventCompleted, Provider
  <2>2. PICK f : Framing(f) /\ r' = Reading(f, r, <<Reason(reason'), Stop>>)
    BY <1>7 DEF Tells
  <2>3. r' = Read(f, Read(f, Watching(g, bl, "none"), Reason(reason')), Stop)
    BY <1>2, <2>1, <2>2, ReadTwo
  <2>4. r' = Satisfied(g, bl, reason')
    BY <1>3, <2>2, <2>3, ReadTold, ReadStops
  <2> QED
    BY <1>1, <1>3, <1>4, <2>1, <2>4, ClaudeGoesOn
<1> QED
  BY <1>5, <1>6, <1>7

\* Claude to Claude: the chunk goes through as it is.
LEMMA ClaudeClaudeNext ==
  ASSUME Provider, Provider', pair = <<"claude", "claude">>, ClaudeClaude, Next
  PROVE  ClaudeClaude'
<1>1. Source = "claude" /\ Target = "claude" /\ FromEvents /\ Source # "kiro"
  BY DEF Source, Target, FromEvents
<1>2. Deliver /\ pair' = pair /\ Whole(said) /\ Whole(said') /\ t = Passing(<<>>) /\ ClaudeTold
  BY <1>1, EventsNext DEF Provider, Source, ClaudeClaude
<1>3. t' = Passing(<<>>) /\ Tells(<<chunk'>>)
  <2> DEFINE s == Passing(<<chunk'>>)
  <2>1. Emit(Passing(<<>>), <<chunk'>>) = s
    BY EmptyConcat DEF Emit, Passing
  <2>2. [t EXCEPT !.out = <<>>] = Passing(<<>>)
    BY <1>2 DEF Passing
  <2>3. Translate(pair, [t EXCEPT !.out = <<>>], chunk') = s
    BY <2>1, <2>2, Translates
  <2>4. s.out = <<chunk'>> /\ [s EXCEPT !.out = <<>>] = Passing(<<>>)
    BY DEF Passing
  <2> HIDE DEF s
  <2> QED
    BY <1>1, <1>2, <2>3, <2>4, FramedDelivered
<1>4. ClaudeTold'
  <2>1. ASSUME NEW k \in {"thought", "text", "call"}, EventOpen(k) \/ (EventMore /\ k = "thought")
        PROVE  ClaudeTold'
    <3>1. chunk' = Open(Len(said), k, Last(said').name)
      BY <1>1, <1>2, <2>1, OpenStep
    <3> QED
      BY <1>1, <1>2, <1>3, <2>1, <3>1, ClientOpens
  <2>2. CASE EventSay
    <3>1. PICK d \in Pieces : chunk' = Delta(Len(said) - 1, Last(said).kind, d)
      BY <1>1, <1>2, <2>2, SayStep
    <3> QED
      BY <1>1, <1>2, <1>3, <2>2, <3>1, ClientHears
  <2>3. CASE EventClose
    <3>1. chunk' = Close(Len(said) - 1)
      BY <1>1, <1>2, <2>3, CloseStep
    <3> QED
      BY <1>1, <1>2, <1>3, <2>3, <3>1, ClientCloses
  <2>4. CASE EventStart
    <3>1. chunk' = Start
      BY <2>4 DEF EventStart, Send
    <3> QED
      BY <1>2, <1>3, <2>4, <3>1, ClientStarts
  <2>5. CASE EventReason
    <3>1. chunk' = Reason(reason')
      BY <2>5 DEF EventReason, Send
    <3> QED
      BY <1>2, <1>3, <2>5, <3>1, ClientEnds
  <2>6. CASE EventStop
    <3>1. chunk' = Stop
      BY <2>6 DEF EventStop, Send
    <3> QED
      BY <1>2, <1>3, <2>6, <3>1, ClientEnds
  <2>7. ~EventCompleted
    BY <1>1 DEF EventCompleted
  <2> QED
    BY <1>1, <2>1, <2>2, <2>3, <2>4, <2>5, <2>6, <2>7, EventsNext
<1> QED
  BY <1>3, <1>4 DEF ClaudeClaude

\* Codex to Claude: events are renamed one by one.
LEMMA CodexToClaudeSteps ==
  ASSUME NEW y
  PROVE  LET s == Marking(<<>>, y)
         IN  /\ CodexToClaude(s, Start) = Marking(<<Start>>, y)
             /\ \A i, k, n : k # "call" => CodexToClaude(s, Open(i, k, n)) = Marking(<<Open(i, k, n)>>, y)
             /\ \A i, n : CodexToClaude(s, Open(i, "call", n)) = Marking(<<Open(i, "call", n), Delta(i, "call", <<>>)>>, Yes)
             /\ \A i, k, d : CodexToClaude(s, Delta(i, k, d)) = Marking(<<Delta(i, k, d)>>, y)
             /\ \A i : CodexToClaude(s, Close(i)) = Marking(<<Close(i)>>, y)
             /\ \A i, k, n, d : CodexToClaude(s, Item(i, k, n, d)) = Marking(<<Close(i)>>, y)
             /\ \A c : y = Yes => CodexToClaude(s, Completed(c)) = Marking(<<Reason("tool"), Stop>>, y)
             /\ \A c : y = No => CodexToClaude(s, Completed(c)) = Marking(<<Reason("stop"), Stop>>, y)
<1> DEFINE s == Marking(<<>>, y)
<1>1. ASSUME NEW e, NEW f
      PROVE  /\ Emit(s, <<e>>) = Marking(<<e>>, y)
             /\ Emit(s, <<e, f>>) = Marking(<<e, f>>, y)
             /\ [Marking(<<e, f>>, y) EXCEPT !.tool = Yes] = Marking(<<e, f>>, Yes)
  BY EmptyConcat DEF Emit, Marking
<1>2. s.tool = y
  BY DEF Marking
<1> HIDE DEF s
<1>3. CodexToClaude(s, Start) = Marking(<<Start>>, y)
  BY <1>1 DEF CodexToClaude, Start
<1>4. ASSUME NEW i, NEW k, NEW n, k # "call"
      PROVE  CodexToClaude(s, Open(i, k, n)) = Marking(<<Open(i, k, n)>>, y)
  <2> DEFINE e == Open(i, k, n)
  <2>1. e.ev = "open" /\ e.kind = k
    BY DEF Open
  <2> HIDE DEF e
  <2>2. CodexToClaude(s, e) = Emit(s, <<e>>)
    BY <1>4, <2>1 DEF CodexToClaude
  <2> QED
    BY <1>1, <2>2 DEF e
<1>5. ASSUME NEW i, NEW n
      PROVE  CodexToClaude(s, Open(i, "call", n)) = Marking(<<Open(i, "call", n), Delta(i, "call", <<>>)>>, Yes)
  <2> DEFINE e == Open(i, "call", n)
             f == Delta(i, "call", <<>>)
  <2>1. e.ev = "open" /\ e.kind = "call" /\ e.at = i /\ e.name = n
    BY DEF Open
  <2>2. CodexToClaude(s, e) = [Emit(s, <<e, f>>) EXCEPT !.tool = Yes]
    <3>1. Open(e.at, "call", e.name) = e /\ Delta(e.at, "call", <<>>) = f
      BY <2>1
    <3> HIDE DEF e, f
    <3> QED
      BY <2>1, <3>1 DEF CodexToClaude, Yes
  <2> HIDE DEF e, f
  <2>3. CodexToClaude(s, e) = Marking(<<e, f>>, Yes)
    BY <1>1, <2>2
  <2> QED
    BY <2>3 DEF e, f
<1>6. ASSUME NEW i, NEW k, NEW d
      PROVE  CodexToClaude(s, Delta(i, k, d)) = Marking(<<Delta(i, k, d)>>, y)
  <2> DEFINE e == Delta(i, k, d)
  <2>1. e.ev = "delta"
    BY DEF Delta
  <2> HIDE DEF e
  <2>2. CodexToClaude(s, e) = Emit(s, <<e>>)
    BY <2>1 DEF CodexToClaude
  <2> QED
    BY <1>1, <2>2 DEF e
<1>7. ASSUME NEW i
      PROVE  CodexToClaude(s, Close(i)) = Marking(<<Close(i)>>, y)
  <2> DEFINE e == Close(i)
  <2>1. e.ev = "close"
    BY DEF Close
  <2> HIDE DEF e
  <2>2. CodexToClaude(s, e) = Emit(s, <<e>>)
    BY <2>1 DEF CodexToClaude
  <2> QED
    BY <1>1, <2>2 DEF e
<1>8. ASSUME NEW i, NEW k, NEW n, NEW d
      PROVE  CodexToClaude(s, Item(i, k, n, d)) = Marking(<<Close(i)>>, y)
  <2> DEFINE e == Item(i, k, n, d)
  <2>1. e.ev = "item" /\ e.at = i
    BY DEF Item
  <2> HIDE DEF e
  <2>2. CodexToClaude(s, e) = Emit(s, <<Close(i)>>)
    BY <2>1 DEF CodexToClaude
  <2> QED
    BY <1>1, <2>2 DEF e
<1>9. ASSUME NEW c
      PROVE  /\ y = Yes => CodexToClaude(s, Completed(c)) = Marking(<<Reason("tool"), Stop>>, y)
             /\ y = No => CodexToClaude(s, Completed(c)) = Marking(<<Reason("stop"), Stop>>, y)
  <2> DEFINE e == Completed(c)
  <2>1. e.ev = "completed"
    BY DEF Completed
  <2> HIDE DEF e
  <2>2. y = Yes => CodexToClaude(s, e) = Emit(s, <<Reason("tool"), Stop>>)
    BY <1>2, <2>1 DEF CodexToClaude, Yes
  <2>3. y = No => CodexToClaude(s, e) = Emit(s, <<Reason("stop"), Stop>>)
    BY <1>2, <2>1 DEF CodexToClaude, No
  <2> QED
    BY <1>1, <2>2, <2>3 DEF e
<1> QED
  BY <1>3, <1>4, <1>5, <1>6, <1>7, <1>8, <1>9 DEF s

LEMMA CodexClaudeDelivered ==
  ASSUME Deliver, pair = <<"codex", "claude">>,
         NEW y, t = Marking(<<>>, y), NEW o, NEW z, CodexToClaude(Marking(<<>>, y), chunk') = Marking(o, z)
  PROVE  t' = Marking(<<>>, z) /\ Tells(o)
<1> DEFINE s == Marking(o, z)
<1>1. Source # "kiro" /\ Target = "claude"
  BY DEF Source, Target
<1>2. [t EXCEPT !.out = <<>>] = t
  BY DEF Marking
<1>3. s.out = o /\ [s EXCEPT !.out = <<>>] = Marking(<<>>, z)
  BY DEF Marking
<1>4. s = Translate(pair, [t EXCEPT !.out = <<>>], chunk')
  BY <1>2, Translates
<1> HIDE DEF s
<1> QED
  BY <1>1, <1>3, <1>4, FramedDelivered

LEMMA CodexClaudeNext ==
  ASSUME Provider, Provider', pair = <<"codex", "claude">>, CodexClaude, Next
  PROVE  CodexClaude'
<1> SUFFICES ASSUME Whole(said') PROVE t' = Marking(<<>>, Seen(said')) /\ ClaudeTold'
  BY DEF CodexClaude
<1> DEFINE y == Seen(said)
<1>1. Source = "codex" /\ FromEvents
  BY DEF Source, FromEvents
<1>2. Deliver /\ pair = <<"codex", "claude">>
  BY <1>1, EventsNext
<1>3. ASSUME Whole(said)
      PROVE  t = Marking(<<>>, y) /\ ClaudeTold
  BY <1>3 DEF CodexClaude
<1>4. HasCall(said) => y = Yes
  BY DEF Seen
<1>5. ~HasCall(said) => y = No
  BY DEF Seen
<1>6. ASSUME NEW k \in {"thought", "text", "call"}, EventOpen(k) \/ (EventMore /\ k = "thought")
      PROVE  t' = Marking(<<>>, Seen(said')) /\ ClaudeTold'
  <2>1. chunk' = Open(Len(said), k, Last(said').name) /\ (HasCall(said') <=> HasCall(said) \/ k = "call")
    BY <1>1, <1>6, OpenStep
  <2>2. Whole(said)
    <3>1. /\ said \in Seq(BlockType) /\ said' \in Seq(BlockType) /\ Len(said') = Len(said) + 1
          /\ \A n \in 1..Len(said) : said'[n] = said[n]
      BY <1>1, <1>6, OpenStep
    <3>2. DOMAIN said = 1..Len(said) /\ DOMAIN said' = 1..(Len(said) + 1) /\ \A n \in 1..Len(said) : n \in 1..(Len(said) + 1)
      BY <3>1
    <3> QED
      BY <3>1, <3>2 DEF Whole
  <2>3. t = Marking(<<>>, y) /\ ClaudeTold
    BY <1>3, <2>2
  <2>4. CASE k = "call"
    <3> DEFINE o == <<Open(Len(said), "call", Last(said').name), Delta(Len(said), "call", <<>>)>>
    <3>1. CodexToClaude(Marking(<<>>, y), chunk') = Marking(o, Yes)
      BY <2>1, <2>4, CodexToClaudeSteps
    <3> HIDE DEF o, y
    <3>2. t' = Marking(<<>>, Yes) /\ Tells(o)
      BY <1>2, <2>3, <3>1, CodexClaudeDelivered
    <3>3. ClaudeTold'
      BY <1>1, <1>6, <2>3, <2>4, <3>2, ClientOpens DEF o
    <3>4. Seen(said') = Yes
      BY <2>1, <2>4 DEF Seen
    <3> QED
      BY <3>2, <3>3, <3>4
  <2>5. CASE k # "call"
    <3> DEFINE o == <<Open(Len(said), k, Last(said').name)>>
    <3>1. CodexToClaude(Marking(<<>>, y), chunk') = Marking(o, y)
      BY <2>1, <2>5, CodexToClaudeSteps
    <3> HIDE DEF o, y
    <3>2. t' = Marking(<<>>, y) /\ Tells(o)
      BY <1>2, <2>3, <3>1, CodexClaudeDelivered
    <3>3. ClaudeTold'
      BY <1>1, <1>6, <2>3, <3>2, ClientOpens DEF o
    <3>4. Seen(said') = y
      BY <2>1, <2>5 DEF Seen, y
    <3> QED
      BY <3>2, <3>3, <3>4
  <2> QED
    BY <2>4, <2>5
<1>7. CASE EventSay
  <2>1. Whole(said) /\ (HasCall(said') <=> HasCall(said))
    <3>1. /\ said \in Seq(BlockType) /\ said' \in Seq(BlockType) /\ Len(said') = Len(said)
          /\ \A n \in 1..Len(said) : said'[n].more = said[n].more
          /\ HasCall(said') <=> HasCall(said)
      BY <1>1, <1>7, SayStep
    <3>2. DOMAIN said = 1..Len(said) /\ DOMAIN said' = 1..Len(said)
      BY <3>1
    <3> QED
      BY <3>1, <3>2 DEF Whole
  <2>2. PICK d \in Pieces : chunk' = Delta(Len(said) - 1, Last(said).kind, d)
    BY <1>1, <1>7, <2>1, SayStep
  <2>3. t = Marking(<<>>, y) /\ ClaudeTold
    BY <1>3, <2>1
  <2>4. CodexToClaude(Marking(<<>>, y), chunk') = Marking(<<chunk'>>, y)
    BY <2>2, CodexToClaudeSteps
  <2>5. Seen(said') = y
    BY <2>1 DEF Seen, y
  <2> HIDE DEF y
  <2>6. t' = Marking(<<>>, y) /\ Tells(<<chunk'>>)
    BY <1>2, <2>3, <2>4, CodexClaudeDelivered
  <2> QED
    BY <1>1, <1>7, <2>2, <2>3, <2>5, <2>6, ClientHears
<1>8. CASE EventClose
  <2>1. said' = said /\ Whole(said)
    BY <1>1, <1>8, CloseStep
  <2>2. chunk' = IF Source = "codex" /\ Last(said).kind = "call"
                 THEN Item(Len(said) - 1, "call", Last(said).name, Last(said).data) ELSE Close(Len(said) - 1)
    BY <1>1, <1>8, <2>1, CloseStep
  <2>3. t = Marking(<<>>, y) /\ ClaudeTold /\ Seen(said') = y
    BY <1>3, <2>1
  <2>4. CodexToClaude(Marking(<<>>, y), chunk') = Marking(<<Close(Len(said) - 1)>>, y)
    BY <2>2, CodexToClaudeSteps
  <2> HIDE DEF y
  <2>5. t' = Marking(<<>>, y) /\ Tells(<<Close(Len(said) - 1)>>)
    BY <1>2, <2>3, <2>4, CodexClaudeDelivered
  <2> QED
    BY <1>1, <1>8, <2>3, <2>5, ClientCloses
<1>9. CASE EventStart
  <2>1. said' = said /\ chunk' = Start
    BY <1>9 DEF EventStart, Send
  <2>2. t = Marking(<<>>, y) /\ ClaudeTold /\ Seen(said') = y
    BY <1>3, <2>1
  <2>3. CodexToClaude(Marking(<<>>, y), chunk') = Marking(<<Start>>, y)
    BY <2>1, CodexToClaudeSteps
  <2> HIDE DEF y
  <2>4. t' = Marking(<<>>, y) /\ Tells(<<Start>>)
    BY <1>2, <2>2, <2>3, CodexClaudeDelivered
  <2> QED
    BY <1>9, <2>2, <2>4, ClientStarts
<1>10. CASE EventCompleted
  <2>1. /\ said' = said /\ chunk' = Completed(Content(said))
        /\ reason' = (IF HasCall(said) THEN "tool" ELSE "stop")
    BY <1>10 DEF EventCompleted, Send
  <2>2. t = Marking(<<>>, y) /\ ClaudeTold /\ Seen(said') = y
    BY <1>3, <2>1
  <2> HIDE DEF y
  <2>3. CodexToClaude(Marking(<<>>, y), chunk') = Marking(<<Reason(reason'), Stop>>, y)
    <3>1. CASE HasCall(said)
      BY <1>4, <2>1, <3>1, CodexToClaudeSteps
    <3>2. CASE ~HasCall(said)
      BY <1>5, <2>1, <3>2, CodexToClaudeSteps
    <3> QED
      BY <3>1, <3>2
  <2>4. t' = Marking(<<>>, y) /\ Tells(<<Reason(reason'), Stop>>)
    BY <1>2, <2>2, <2>3, CodexClaudeDelivered
  <2> QED
    BY <1>10, <2>2, <2>4, ClientEnds
<1>11. ~EventReason /\ ~EventStop
  BY <1>1 DEF EventReason, EventStop
<1> QED
  BY <1>1, <1>6, <1>7, <1>8, <1>9, <1>10, <1>11, EventsNext

-----------------------------------------------------------------------------
(* The whole. *)

\* Streams that begin, go on and end with events, through translators that keep
\* to the provider's blocks: but for a thought of Codex in several summary parts.
Followed ==
  \/ pair \in {<<"claude", "chat">>, <<"codex", "chat">>, <<"claude", "claude">>}
  \/ pair = <<"codex", "claude">> /\ Whole(said)
Kept == FromEvents => Provider /\ ClaudeChat /\ CodexChat /\ ClaudeClaude /\ CodexClaude

LEMMA KeptInit == Init => Kept
<1> SUFFICES ASSUME Init, FromEvents PROVE Kept
  BY DEF Kept
<1>1. /\ said = <<>> /\ phase = "start" /\ open = {} /\ reason = "none" /\ r = Reader0
      /\ \E up : t = New(pair, up)
  BY DEF Init
<1>2. Provider
  BY ProviderInit
<1>3. r = Following(Content(<<>>), <<>>, "none")
  BY <1>1, ContentEmpty DEF Reader0, Following, Client
<1>4. /\ ~CallOpen(said, open) /\ Heard(said, open) = said /\ Gathered(said, open) = <<>>
  BY <1>1 DEF CallOpen, Heard, Gathered
<1>5. r.blocks = <<>>
  BY <1>3, SatisfiedParts
<1>6. \A n : Calling(<<>>, n)
  BY DEF Calling
<1>7. ~HasCall(said) /\ Len(said) = 0
  BY <1>1 DEF HasCall
<1>8. ClaudeChat
  <2> SUFFICES ASSUME pair = <<"claude", "chat">> PROVE t = Gatherer(<<>>, <<>>)
    BY <1>1, <1>3, <1>4, <1>5, <1>6 DEF ClaudeChat, ChatTold
  <2> QED
    BY <1>1 DEF New, NewFor, ClaudeToChat0, Gatherer, GeminiSources
<1>9. CodexChat
  <2> SUFFICES ASSUME pair = <<"codex", "chat">> PROVE t = Counter(<<>>, -1)
    <3>1. Counter(<<>>, -1).last = -1
      BY DEF Counter
    <3> QED
      BY <1>1, <1>3, <1>4, <1>5, <1>6, <1>7, <3>1 DEF CodexChat, ChatTold
  <2> QED
    BY <1>1 DEF New, NewFor, CodexToChat0, Counter, GeminiSources
<1>10. ClaudeTold
  <2>1. Placed(<<>>, said, open)
    BY <1>1, <1>7 DEF Placed
  <2>2. Pointed(<<>>, said, open)
    BY <1>4 DEF Pointed
  <2> QED
    BY <1>1, <1>3, <1>5, <2>1, <2>2 DEF ClaudeTold
<1>11. ClaudeClaude
  <2> SUFFICES ASSUME pair = <<"claude", "claude">> PROVE t = Passing(<<>>)
    BY <1>10 DEF ClaudeClaude
  <2> QED
    BY <1>1 DEF New, NewFor, Nothing, Passing, GeminiSources
<1>12. CodexClaude
  <2> SUFFICES ASSUME pair = <<"codex", "claude">> PROVE t = Marking(<<>>, No)
    BY <1>7, <1>10 DEF CodexClaude, Seen
  <2> QED
    BY <1>1 DEF New, NewFor, CodexToClaude0, Marking, GeminiSources, No
<1> QED
  BY <1>2, <1>8, <1>9, <1>11, <1>12 DEF Kept

LEMMA KeptNext == Kept /\ [Next]_vars => Kept'
<1>1. ASSUME Kept, Next, FromEvents'
      PROVE  Kept'
  <2>1. FromEvents /\ pair' = pair
    <3>1. pair' = pair
      <4>1. ProviderStep
        BY <1>1 DEF Next
      <4> QED
        BY <4>1 DEF ProviderStep, ClaudeStep, EventStep, ChatStep, GeminiStep, KiroStep,
             EventStart, EventSay, EventClose, EventMore, EventCompleted, EventOpen, EventReason, EventStop,
             ChatRole, ChatDone, ChatSay, ChatCall, ChatArgs, ChatFinishes, ChatUsage,
             GeminiEmpty, GeminiSigned, GeminiDone, GeminiSay, GeminiFinishes,
             KiroSay, KiroWhole, KiroEOF, KiroAgain, KiroFragment, SendKiro, Send
    <3> QED
      BY <1>1, <3>1 DEF FromEvents, Source
  <2>2. Provider /\ ClaudeChat /\ CodexChat /\ ClaudeClaude /\ CodexClaude
    BY <1>1, <2>1 DEF Kept
  <2>3. Provider'
    BY <1>1, <2>1, <2>2, ProviderNext
  <2>4. ClaudeChat'
    <3>1. CASE pair = <<"claude", "chat">>
      BY <1>1, <2>2, <2>3, <3>1, ClaudeChatNext
    <3>2. CASE pair # <<"claude", "chat">>
      BY <2>1, <3>2 DEF ClaudeChat
    <3> QED
      BY <3>1, <3>2
  <2>5. CodexChat'
    <3>1. CASE pair = <<"codex", "chat">>
      BY <1>1, <2>2, <2>3, <3>1, CodexChatNext
    <3>2. CASE pair # <<"codex", "chat">>
      BY <2>1, <3>2 DEF CodexChat
    <3> QED
      BY <3>1, <3>2
  <2>6. ClaudeClaude'
    <3>1. CASE pair = <<"claude", "claude">>
      BY <1>1, <2>2, <2>3, <3>1, ClaudeClaudeNext
    <3>2. CASE pair # <<"claude", "claude">>
      BY <2>1, <3>2 DEF ClaudeClaude
    <3> QED
      BY <3>1, <3>2
  <2>7. CodexClaude'
    <3>1. CASE pair = <<"codex", "claude">>
      BY <1>1, <2>2, <2>3, <3>1, CodexClaudeNext
    <3>2. CASE pair # <<"codex", "claude">>
      BY <2>1, <3>2 DEF CodexClaude
    <3> QED
      BY <3>1, <3>2
  <2> QED
    BY <2>3, <2>4, <2>5, <2>6, <2>7 DEF Kept
<1>2. ASSUME Kept, UNCHANGED vars
      PROVE  Kept'
  <2>1. pair' = pair /\ phase' = phase /\ said' = said /\ open' = open /\ reason' = reason /\ t' = t /\ r' = r
    BY <1>2 DEF vars
  <2> QED
    BY <1>2, <2>1 DEF Kept, FromEvents, Source, Provider, ClaudeChat, CodexChat, ClaudeClaude, CodexClaude, ChatTold, ClaudeTold
<1> QED
  BY <1>1, <1>2 DEF Kept

\* What the invariant says of a client: it finds no fault, has what it was told, and knows the end.
LEMMA KeptTold ==
  ASSUME Kept, Followed
  PROVE  /\ Provider /\ r.faults = {} /\ Target \in {"chat", "claude"}
         /\ r.got = Content(Heard(said, open)) \/ r.got = Content(said)
         /\ phase = "done" => r.got = Content(said) /\ r.ended /\ r.reason = reason
<1>1. FromEvents /\ Target \in {"chat", "claude"}
  BY DEF Followed, FromEvents, Source, Target
<1>2. Provider
  BY <1>1 DEF Kept
<1>3. phase = "done" => open = {}
  BY <1>2 DEF Provider
<1>4. phase = "done" => Heard(said, open) = said
  BY <1>3 DEF Heard, CallOpen
<1>5. \A g, bl, w : /\ Following(g, bl, w).faults = {} /\ Following(g, bl, w).got = g
                    /\ Watching(g, bl, w).faults = {} /\ Watching(g, bl, w).got = g
                    /\ Finished(g, bl, w).faults = {} /\ Finished(g, bl, w).got = g
                    /\ Finished(g, bl, w).ended /\ Finished(g, bl, w).reason = w
                    /\ Satisfied(g, bl, w).faults = {} /\ Satisfied(g, bl, w).got = g
                    /\ Satisfied(g, bl, w).ended /\ Satisfied(g, bl, w).reason = w
  BY DEF Following, Watching, Finished, Satisfied, Client, Yes, No
<1>6. CASE pair \in {<<"claude", "chat">>, <<"codex", "chat">>}
  <2>1. \/ phase # "done" /\ r = Following(Content(Heard(said, open)), r.blocks, reason)
        \/ phase = "done" /\ r = Finished(Content(Heard(said, open)), r.blocks, reason)
    BY <1>1, <1>6 DEF Kept, ClaudeChat, CodexChat, ChatTold
  <2> QED
    BY <1>1, <1>2, <1>4, <1>5, <2>1
<1>7. CASE pair \notin {<<"claude", "chat">>, <<"codex", "chat">>}
  <2>1. ClaudeTold
    BY <1>1, <1>7 DEF Kept, Followed, ClaudeClaude, CodexClaude
  <2>2. \/ phase = "start" /\ r = Following(Content(said), r.blocks, reason)
        \/ phase \in {"saying", "told"} /\ r = Watching(Content(said), r.blocks, reason)
        \/ phase = "done" /\ r = Satisfied(Content(said), r.blocks, reason)
    BY <1>2, <2>1 DEF ClaudeTold, Provider
  <2> QED
    BY <1>1, <1>2, <1>5, <2>2
<1> QED
  BY <1>6, <1>7

\* What is heard of a call that is open is what was said before it.
LEMMA HeardSaid ==
  ASSUME NEW s \in Seq(BlockType), NEW o, o = {} \/ s # <<>>
  PROVE  /\ Content(Heard(s, o)).thought = Content(s).thought
         /\ Content(Heard(s, o)).text = Content(s).text
<1>1. CASE ~CallOpen(s, o)
  BY <1>1 DEF Heard
<1>2. CASE CallOpen(s, o)
  <2> DEFINE h == Content(Front(s))
  <2>1. /\ s # <<>> /\ Heard(s, o) = Front(s) /\ Front(s) \in Seq(BlockType)
        /\ Content(s) = AddCall(h, Last(s).name, Last(s).data)
    BY <1>2, ClosedHeard, LastBlock DEF Heard, CallOpen
  <2>2. h \in ContentType
    BY <2>1, ContentTyped
  <2> HIDE DEF h
  <2>3. AddCall(h, Last(s).name, Last(s).data).thought = h.thought /\ AddCall(h, Last(s).name, Last(s).data).text = h.text
    BY <2>2 DEF AddCall, ContentType
  <2> QED
    BY <2>1, <2>3 DEF h
<1> QED
  BY <1>1, <1>2

\* Kept is an invariant: one block at most is open, and client, translator and
\* provider agree on what was said before it (translators to chat) or on all of it.
THEOREM TranslationKept == Spec => []Kept
BY KeptInit, KeptNext, PTL DEF Spec

\* A client of a Claude or Codex stream can follow it, however long the answer is
\* (ConvertClaudeResponseToOpenAI, ConvertCodexResponseToOpenAI, ConvertCodexResponseToClaude).
THEOREM StreamFollowed == Spec => [](Followed => WellFormed)
<1>1. Kept /\ Followed => WellFormed
  BY KeptTold DEF WellFormed
<1> QED
  BY <1>1, TranslationKept, PTL

\* ... has at every moment a prefix of its text and of its thought, and the whole answer at the end ...
THEOREM StreamComplete == Spec => [](Followed => NothingLost)
<1>1. ASSUME Kept, Followed, NEW k \in {"thought", "text", "calls"}
      PROVE  /\ k # "calls" => IsPrefix(r.got[k], Content(said)[k])
             /\ phase = "done" => r.got[k] = Content(said)[k]
  <2>1. /\ said \in Seq(BlockType) /\ (open = {} \/ said # <<>>)
        /\ r.got = Content(Heard(said, open)) \/ r.got = Content(said)
        /\ phase = "done" => r.got = Content(said)
    BY <1>1, KeptTold DEF Provider
  <2>2. r.got.thought = Content(said).thought /\ r.got.text = Content(said).text
    BY <2>1, HeardSaid
  <2>3. k # "calls" => r.got[k] = Content(said)[k] /\ Content(said)[k] \in Pieces
    <3>1. Content(said) \in ContentType
      BY <2>1, ContentTyped
    <3> QED
      BY <2>2, <3>1 DEF ContentType
  <2>4. \A x \in Pieces : IsPrefix(x, x)
    BY DEF IsPrefix, Pieces
  <2> QED
    BY <2>1, <2>3, <2>4
<1>2. Kept /\ Followed => NothingLost
  BY <1>1 DEF NothingLost
<1> QED
  BY <1>2, TranslationKept, PTL

\* ... and is told at the end that it is over, and why.
THEOREM StreamEnds == Spec => [](Followed => ReasonTold)
<1>1. Kept /\ Followed => ReasonTold
  <2> SUFFICES ASSUME Kept, Followed, phase = "done" PROVE ReasonTold
    BY DEF ReasonTold
  <2>1. /\ Provider /\ Target \in {"chat", "claude"} /\ r.ended /\ r.reason = reason
    BY KeptTold
  <2>2. Expected = reason
    BY <2>1 DEF Expected, Provider
  <2> QED
    BY <2>1, <2>2 DEF ReasonTold
<1> QED
  BY <1>1, TranslationKept, PTL

\* ConvertCodexResponseToClaudeNonStream tells a complete answer as the stream does.
THEOREM CodexToClaudeAgrees == Spec => [](pair = <<"codex", "claude">> => UnaryAgrees)
<1>1. Kept /\ pair = <<"codex", "claude">> => UnaryAgrees
  <2> SUFFICES ASSUME Kept, pair = <<"codex", "claude">>, phase = "done" PROVE UnaryAgrees
    BY DEF UnaryAgrees
  <2>1. Provider /\ Target = "claude"
    BY DEF Kept, FromEvents, Source, Target
  <2>2. Expected = IF HasCall(said) THEN "tool" ELSE "stop"
    BY <2>1 DEF Expected, Provider, Source
  <2>3. UnaryAnswer = Unary(said, IF HasCall(said) THEN "tool" ELSE "stop")
    BY DEF UnaryAnswer, CodexToClaudeUnary, GeminiSources
  <2>4. UnaryAnswer.content = Content(said) /\ UnaryAnswer.reason = Expected
    BY <2>2, <2>3 DEF Unary
  <2> QED
    BY <2>4 DEF UnaryAgrees
<1> QED
  BY <1>1, TranslationKept, PTL
=============================================================================
