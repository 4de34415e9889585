------------------------------- MODULE Totals -------------------------------
(***************************************************************************)
(* Sums over finite sets: the total of the values of a function, as the    *)
(* community modules fold it, and what it does when one value changes.     *)
(***************************************************************************)
EXTENDS Integers, FiniteSetsExt, FiniteSetTheorems, TLAPS

\* The sum of f over a finite part D of its domain.
SumOf(f, D) == MapThenSumSet(LAMBDA x : f[x], D)

Pick(D) == CHOOSE x \in D : TRUE

\* Functions on the subsets of D that add up f as the fold does.
Adders(f, D) ==
  {g \in [SUBSET D -> Int] :
     \A E \in SUBSET D : g[E] = IF E = {} THEN 0 ELSE f[Pick(E)] + g[E \ {Pick(E)}]}

-----------------------------------------------------------------------------
\* Induction over the subsets of a finite set, by a set of counterexamples.
LEMMA NoneBad ==
  ASSUME NEW S, IsFiniteSet(S), NEW Bad \in SUBSET (SUBSET S),
         \A D \in Bad : \E E \in Bad : E \subseteq D /\ E # D
  PROVE  Bad = {}
<1>1. IsWellFoundedOn(StrictSubsetOrdering(S), FiniteSubsetsOf(S))
  BY FS_StrictSubsetOrderingWellFounded
<1>2. FiniteSubsetsOf(S) = SUBSET S
  BY FS_FiniteSubsetsOfFinite
<1>3. Bad \subseteq FiniteSubsetsOf(S)
  BY <1>2
<1>4. SUFFICES ASSUME Bad # {} PROVE FALSE
  OBVIOUS
<1>5. \E x \in Bad : \A y \in Bad : ~ (<<y, x>> \in StrictSubsetOrdering(S))
  BY <1>1, <1>3, <1>4, WFMin
<1>6. QED
  BY <1>5 DEF StrictSubsetOrdering

\* What is picked is there.
LEMMA PickIn == \A D : D # {} => Pick(D) \in D
BY DEF Pick

\* Two ways of adding up agree where both are defined.
LEMMA AddersAgree ==
  ASSUME NEW S, IsFiniteSet(S), NEW f, NEW D \in SUBSET S, NEW E \in SUBSET S,
         NEW g \in Adders(f, D), NEW h \in Adders(f, E)
  PROVE  \A F \in SUBSET (D \cap E) : g[F] = h[F]
<1> DEFINE Bad == {F \in SUBSET (D \cap E) : g[F] # h[F]}
<1>1. ASSUME NEW F \in Bad PROVE \E G \in Bad : G \subseteq F /\ G # F
  <2>1. F \in SUBSET D /\ F \in SUBSET E /\ g[F] # h[F]
    OBVIOUS
  <2>2. F # {}
    BY <2>1 DEF Adders
  <2>3. Pick(F) \in F
    BY <2>2, PickIn
  <2>4. /\ g[F] = f[Pick(F)] + g[F \ {Pick(F)}]
        /\ h[F] = f[Pick(F)] + h[F \ {Pick(F)}]
    BY <2>1, <2>2 DEF Adders
  <2>5. F \ {Pick(F)} \in Bad
    BY <2>1, <2>4
  <2> QED
    BY <2>3, <2>5
<1>2. Bad \in SUBSET (SUBSET S)
  OBVIOUS
<1>3. Bad = {}
  <2> HIDE DEF Bad
  <2> QED BY <1>1, <1>2, NoneBad
<1> QED
  BY <1>3

\* There is one for every finite set.
LEMMA AddersExist ==
  ASSUME NEW S, IsFiniteSet(S), NEW f, \A x \in S : f[x] \in Int
  PROVE  \A D \in SUBSET S : Adders(f, D) # {}
<1> DEFINE Bad == {D \in SUBSET S : Adders(f, D) = {}}
           Best(D) == CHOOSE g \in Adders(f, D) : TRUE
<1>1. ASSUME NEW D \in Bad PROVE \E E \in Bad : E \subseteq D /\ E # D
  <2>1. SUFFICES ASSUME \A E \in SUBSET D : E # D => Adders(f, E) # {}
                 PROVE  FALSE
    OBVIOUS
  <2>2. \A E \in SUBSET D : E # D => Best(E) \in Adders(f, E)
    BY <2>1
  <2> DEFINE Value(E) == IF E = {} THEN 0
                         ELSE f[Pick(E)] + Best(E \ {Pick(E)})[E \ {Pick(E)}]
             g == [E \in SUBSET D |-> Value(E)]
  <2>3. \A E \in SUBSET D : E # {} => /\ Pick(E) \in E /\ f[Pick(E)] \in Int
                                      /\ E \ {Pick(E)} \in SUBSET D /\ E \ {Pick(E)} # D
    BY PickIn
  <2>4. ASSUME NEW E \in SUBSET D, E # D PROVE Best(E)[E] = Value(E)
    <3>1. CASE E = {}
      BY <2>2, <2>4, <3>1 DEF Adders
    <3>2. CASE E # {}
      <4> DEFINE R == E \ {Pick(E)}
      <4>1. Best(E) \in Adders(f, E) /\ Best(R) \in Adders(f, R)
        BY <2>2, <2>3, <2>4, <3>2
      <4>2. Best(E)[E] = f[Pick(E)] + Best(E)[R]
        BY <4>1, <3>2 DEF Adders
      <4>3. R \in SUBSET (E \cap R) /\ E \in SUBSET S /\ R \in SUBSET S
        OBVIOUS
      <4>4. Best(E)[R] = Best(R)[R]
        <5> HIDE DEF R, Best
        <5> QED BY <4>1, <4>3, AddersAgree
      <4> QED BY <4>2, <4>4, <3>2
    <3> QED BY <3>1, <3>2
  <2>5. \A E \in SUBSET D : Value(E) \in Int
    <3> TAKE E \in SUBSET D
    <3>1. CASE E = {}
      BY <3>1
    <3>2. CASE E # {}
      <4> DEFINE R == E \ {Pick(E)}
      <4>1. R \in SUBSET D /\ R # D /\ f[Pick(E)] \in Int
        BY <2>3, <3>2
      <4>2. Best(R)[R] \in Int
        BY <4>1, <2>2 DEF Adders
      <4> QED BY <3>2, <4>1, <4>2
    <3> QED BY <3>1, <3>2
  <2>6. ASSUME NEW E \in SUBSET D
        PROVE  g[E] = IF E = {} THEN 0 ELSE f[Pick(E)] + g[E \ {Pick(E)}]
    <3>1. CASE E = {}
      BY <3>1
    <3>2. CASE E # {}
      <4> DEFINE R == E \ {Pick(E)}
      <4>1. R \in SUBSET D /\ R # D
        BY <2>3, <3>2
      <4>2. g[R] = Best(R)[R]
        <5>1. g[R] = Value(R) BY <4>1
        <5>2. Best(R)[R] = Value(R)
          <6> HIDE DEF R, Value, Best
          <6> QED BY <4>1, <2>4
        <5> QED BY <5>1, <5>2
      <4> QED BY <4>2, <3>2
    <3> QED BY <3>1, <3>2
  <2>7. g \in [SUBSET D -> Int]
    <3> HIDE DEF Value
    <3> QED BY <2>5
  <2>8. g \in Adders(f, D)
    <3> HIDE DEF g
    <3> QED BY <2>6, <2>7 DEF Adders
  <2> QED BY <2>8
<1>2. Bad \in SUBSET (SUBSET S)
  OBVIOUS
<1>3. Bad = {}
  <2> HIDE DEF Bad
  <2> QED BY <1>1, <1>2, NoneBad
<1> QED
  BY <1>3

\* The fold of the community modules is the sum an adder gives.
LEMMA SumIsAdder ==
  ASSUME NEW D, IsFiniteSet(D), NEW f, \A x \in D : f[x] \in Int
  PROVE  \E g \in Adders(f, D) : SumOf(f, D) = g[D]
<1> DEFINE Body(g) == [s \in SUBSET D |-> IF s = {} THEN 0
                                       ELSE LET x == CHOOSE x \in s : TRUE
                                            IN  f[x] + g[s \ {x}]]
           iter == CHOOSE g : g = Body(g)
<1>1. SumOf(f, D) = iter[D]
  BY DEF SumOf, MapThenSumSet, MapThenFoldSet
<1>2. PICK g \in Adders(f, D) : TRUE
  BY AddersExist
<1>3. g = Body(g)
  BY <1>2 DEF Adders, Pick
<1>4. iter = Body(iter)
  BY <1>3
<1>5. \A E \in SUBSET D : iter[E] = IF E = {} THEN 0 ELSE f[Pick(E)] + iter[E \ {Pick(E)}]
  <2> HIDE DEF iter
  <2> QED BY <1>4 DEF Pick
<1> DEFINE Bad == {E \in SUBSET D : iter[E] # g[E]}
<1>6. ASSUME NEW E \in Bad PROVE \E F \in Bad : F \subseteq E /\ F # E
  <2> HIDE DEF iter
  <2>1. E # {}
    BY <1>2, <1>5 DEF Adders
  <2>2. Pick(E) \in E
    BY <2>1, PickIn
  <2>3. g[E] = f[Pick(E)] + g[E \ {Pick(E)}] /\ iter[E] = f[Pick(E)] + iter[E \ {Pick(E)}]
    BY <2>1, <1>2, <1>5 DEF Adders
  <2>4. E \ {Pick(E)} \in Bad
    BY <2>3
  <2> QED BY <2>2, <2>4
<1>7. Bad = {}
  <2> HIDE DEF Bad
  <2>1. Bad \in SUBSET (SUBSET D) BY DEF Bad
  <2> QED BY <2>1, <1>6, NoneBad
<1>8. iter[D] = g[D]
  <2> HIDE DEF iter
  <2> QED BY <1>7
<1> QED
  <2> HIDE DEF iter
  <2> QED BY <1>1, <1>2, <1>8

-----------------------------------------------------------------------------
(* The equation of a sum, and what follows from it *)

\* A sum takes the picked element first.
LEMMA SumEquation ==
  ASSUME NEW D, IsFiniteSet(D), NEW f, \A x \in D : f[x] \in Int
  PROVE  /\ SumOf(f, D) \in Int
         /\ SumOf(f, D) = IF D = {} THEN 0 ELSE f[Pick(D)] + SumOf(f, D \ {Pick(D)})
<1>1. PICK g \in Adders(f, D) : SumOf(f, D) = g[D]
  BY SumIsAdder
<1>2. CASE D = {}
  BY <1>1, <1>2 DEF Adders
<1>3. CASE D # {}
  <2> DEFINE R == D \ {Pick(D)}
  <2>1. IsFiniteSet(R) /\ R \in SUBSET D /\ \A x \in R : f[x] \in Int
    BY FS_Subset
  <2>2. PICK h \in Adders(f, R) : SumOf(f, R) = h[R]
    BY <2>1, SumIsAdder
  <2>3. g[R] = h[R]
    <3>1. R \in SUBSET (D \cap R)
      OBVIOUS
    <3> HIDE DEF R
    <3> QED BY <1>1, <2>1, <2>2, <3>1, AddersAgree
  <2>4. g[D] = f[Pick(D)] + g[R] /\ g[D] \in Int
    BY <1>1, <1>3 DEF Adders
  <2> QED BY <1>1, <1>3, <2>2, <2>3, <2>4
<1> QED BY <1>2, <1>3

\* Nothing adds up to nothing.
LEMMA SumEmpty == \A f : SumOf(f, {}) = 0
<1> TAKE f
<1>1. \A x \in {} : f[x] \in Int
  OBVIOUS
<1> QED BY <1>1, SumEquation, FS_EmptySet

\* A sum of integers is one.
LEMMA SumType ==
  ASSUME NEW D, IsFiniteSet(D), NEW f, \A x \in D : f[x] \in Int
  PROVE  SumOf(f, D) \in Int
BY SumEquation

\* Any element may be taken first.
LEMMA SumTake ==
  ASSUME NEW D, IsFiniteSet(D), NEW f, \A x \in D : f[x] \in Int, NEW x \in D
  PROVE  SumOf(f, D) = f[x] + SumOf(f, D \ {x})
<1> DEFINE Bad == {E \in SUBSET D : \E y \in E : SumOf(f, E) # f[y] + SumOf(f, E \ {y})}
<1>0. \A E \in SUBSET D : IsFiniteSet(E) /\ SumOf(f, E) \in Int
  BY FS_Subset, SumType
<1>1. ASSUME NEW E \in Bad PROVE \E F \in Bad : F \subseteq E /\ F # E
  <2>1. PICK y \in E : SumOf(f, E) # f[y] + SumOf(f, E \ {y})
    OBVIOUS
  <2>2. SUFFICES ASSUME \A F \in SUBSET E : F # E =>
                          \A v \in F : SumOf(f, F) = f[v] + SumOf(f, F \ {v})
                 PROVE  FALSE
    OBVIOUS
  <2> DEFINE z == Pick(E)
  <2>3. z \in E
    BY <2>1, PickIn
  <2>4. SumOf(f, E) = f[z] + SumOf(f, E \ {z})
    BY <1>0, <2>1, SumEquation
  <2>5. y # z
    BY <2>1, <2>4
  <2> HIDE DEF z
  <2>6. SumOf(f, E \ {z}) = f[y] + SumOf(f, (E \ {z}) \ {y})
    <3>1. E \ {z} \in SUBSET E /\ E \ {z} # E /\ y \in E \ {z}
      BY <2>3, <2>5
    <3> QED BY <2>2, <3>1
  <2>7. SumOf(f, E \ {y}) = f[z] + SumOf(f, (E \ {y}) \ {z})
    <3>1. E \ {y} \in SUBSET E /\ E \ {y} # E /\ z \in E \ {y}
      BY <2>3, <2>5
    <3> QED BY <2>2, <3>1
  <2>8. (E \ {y}) \ {z} = (E \ {z}) \ {y}
    OBVIOUS
  <2>9. f[y] \in Int /\ f[z] \in Int /\ SumOf(f, (E \ {z}) \ {y}) \in Int
    BY <1>0, <2>3
  <2>10. SumOf(f, E \ {y}) = f[z] + SumOf(f, (E \ {z}) \ {y})
    BY <2>7, <2>8
  <2> HIDE DEF z
  <2>11. SumOf(f, E) = f[z] + (f[y] + SumOf(f, (E \ {z}) \ {y}))
    BY <2>4, <2>6
  <2>12. f[y] + SumOf(f, E \ {y}) = f[y] + (f[z] + SumOf(f, (E \ {z}) \ {y}))
    BY <2>10
  <2>13. SumOf(f, E) = f[y] + SumOf(f, E \ {y})
    BY <2>9, <2>11, <2>12
  <2> QED BY <2>1, <2>13
<1>2. Bad \in SUBSET (SUBSET D)
  OBVIOUS
<1>3. Bad = {}
  <2> HIDE DEF Bad
  <2> QED BY <1>1, <1>2, NoneBad
<1> QED BY <1>3

\* Functions that agree on a set have the same sum over it.
LEMMA SumAgree ==
  ASSUME NEW D, IsFiniteSet(D), NEW f, NEW g, \A x \in D : f[x] \in Int /\ f[x] = g[x]
  PROVE  SumOf(f, D) = SumOf(g, D)
<1> DEFINE Bad == {E \in SUBSET D : SumOf(f, E) # SumOf(g, E)}
<1>1. ASSUME NEW E \in Bad PROVE \E F \in Bad : F \subseteq E /\ F # E
  <2>1. IsFiniteSet(E) /\ \A x \in E : f[x] \in Int /\ g[x] \in Int
    BY FS_Subset
  <2>2. /\ SumOf(f, E) = IF E = {} THEN 0 ELSE f[Pick(E)] + SumOf(f, E \ {Pick(E)})
        /\ SumOf(g, E) = IF E = {} THEN 0 ELSE g[Pick(E)] + SumOf(g, E \ {Pick(E)})
    BY <2>1, SumEquation
  <2>3. E # {} /\ Pick(E) \in E
    BY <2>2, PickIn
  <2>4. f[Pick(E)] = g[Pick(E)]
    BY <2>3
  <2>5. E \ {Pick(E)} \in Bad
    BY <2>2, <2>3, <2>4
  <2> QED BY <2>3, <2>5
<1>2. Bad \in SUBSET (SUBSET D)
  OBVIOUS
<1>3. Bad = {}
  <2> HIDE DEF Bad
  <2> QED BY <1>1, <1>2, NoneBad
<1> QED BY <1>3

\* One changed value moves the sum by its change.
LEMMA SumUpdate ==
  ASSUME NEW D, IsFiniteSet(D), NEW f, NEW g, NEW x \in D,
         \A y \in D : f[y] \in Int, \A y \in D : g[y] \in Int,
         \A y \in D : y # x => f[y] = g[y]
  PROVE  SumOf(g, D) = SumOf(f, D) - f[x] + g[x]
<1>1. SumOf(f, D) = f[x] + SumOf(f, D \ {x}) /\ SumOf(g, D) = g[x] + SumOf(g, D \ {x})
  BY SumTake
<1>2. IsFiniteSet(D \ {x})
  BY FS_Subset
<1>3. SumOf(f, D \ {x}) = SumOf(g, D \ {x}) /\ SumOf(f, D \ {x}) \in Int
  BY <1>2, SumAgree, SumType
<1> QED BY <1>1, <1>3

\* Two functions that differ at most at x.
SameBut(f, g, D, x) == \A y \in D : y # x => f[y] = g[y]

\* The same for functions on the set.
LEMMA SumChange ==
  ASSUME NEW D, IsFiniteSet(D), NEW f \in [D -> Int], NEW g \in [D -> Int], NEW x \in D,
         SameBut(f, g, D, x)
  PROVE  SumOf(g, D) = SumOf(f, D) - f[x] + g[x]
<1>1. (\A y \in D : f[y] \in Int) /\ (\A y \in D : g[y] \in Int)
  OBVIOUS
<1>2. \A y \in D : y # x => f[y] = g[y]
  BY DEF SameBut
<1> QED BY <1>1, <1>2, SumUpdate

\* A new element adds its value.
LEMMA SumAdd ==
  ASSUME NEW D, IsFiniteSet(D), NEW x, x \notin D,
         NEW f, f[x] \in Int, \A y \in D : f[y] \in Int
  PROVE  SumOf(f, D \cup {x}) = SumOf(f, D) + f[x]
<1>1. /\ IsFiniteSet(D \cup {x}) /\ (D \cup {x}) \ {x} = D
      /\ \A y \in D \cup {x} : f[y] \in Int
  BY FS_AddElement
<1>2. SumOf(f, D \cup {x}) = f[x] + SumOf(f, (D \cup {x}) \ {x})
  BY <1>1, SumTake
<1>3. SumOf(f, D \cup {x}) = f[x] + SumOf(f, D)
  BY <1>1, <1>2
<1>4. SumOf(f, D) \in Int /\ f[x] \in Int
  BY SumType
<1> QED BY <1>3, <1>4

\* The sum of a pointwise sum.
LEMMA SumPlus ==
  ASSUME NEW D, IsFiniteSet(D), NEW f, NEW g, NEW h,
         \A x \in D : f[x] \in Int /\ g[x] \in Int /\ h[x] = f[x] + g[x]
  PROVE  SumOf(h, D) = SumOf(f, D) + SumOf(g, D)
<1> DEFINE Bad == {E \in SUBSET D : SumOf(h, E) # SumOf(f, E) + SumOf(g, E)}
<1>1. ASSUME NEW E \in Bad PROVE \E F \in Bad : F \subseteq E /\ F # E
  <2>1. IsFiniteSet(E) /\ \A x \in E : f[x] \in Int /\ g[x] \in Int /\ h[x] \in Int
    BY FS_Subset
  <2>2. E # {}
    <3>1. SumOf(f, {}) = 0 /\ SumOf(g, {}) = 0 /\ SumOf(h, {}) = 0
      BY SumEmpty
    <3>2. SumOf(h, E) # SumOf(f, E) + SumOf(g, E)
      OBVIOUS
    <3>3. E = {} => SumOf(h, E) = 0 /\ SumOf(f, E) = 0 /\ SumOf(g, E) = 0
      BY <3>1
    <3> QED BY <3>2, <3>3
  <2> DEFINE p == Pick(E)
             R == E \ {p}
  <2>3. p \in E /\ IsFiniteSet(R)
    BY <2>1, <2>2, PickIn, FS_Subset
  <2>4. /\ SumOf(f, E) = f[p] + SumOf(f, R) /\ SumOf(g, E) = g[p] + SumOf(g, R)
        /\ SumOf(h, E) = h[p] + SumOf(h, R)
    BY <2>1, <2>3, SumTake
  <2>5. SumOf(f, R) \in Int /\ SumOf(g, R) \in Int /\ SumOf(h, R) \in Int
    BY <2>1, <2>3, SumType
  <2>6. h[p] = f[p] + g[p] /\ f[p] \in Int /\ g[p] \in Int
    BY <2>3
  <2> HIDE DEF p
  <2>7. SumOf(h, R) # SumOf(f, R) + SumOf(g, R)
    BY <2>4, <2>5, <2>6
  <2>8. R \in Bad /\ R \subseteq E /\ R # E
    BY <2>3, <2>7
  <2> QED BY <2>8
<1>2. Bad \in SUBSET (SUBSET D)
  OBVIOUS
<1>3. Bad = {}
  <2> HIDE DEF Bad
  <2> QED BY <1>1, <1>2, NoneBad
<1> QED BY <1>3

\* Zeros add nothing: the sum over a part that holds every other value.
LEMMA SumPart ==
  ASSUME NEW D, IsFiniteSet(D), NEW S \in SUBSET D, NEW f, NEW g,
         \A x \in S : f[x] \in Int /\ g[x] = f[x],
         \A x \in D \ S : g[x] = 0
  PROVE  SumOf(f, S) = SumOf(g, D)
<1>0. IsFiniteSet(S) /\ IsFiniteSet(D \ S)
  BY FS_Subset
<1> DEFINE Bad == {E \in SUBSET (D \ S) : SumOf(g, S \cup E) # SumOf(f, S)}
<1>1. ASSUME NEW E \in Bad PROVE \E F \in Bad : F \subseteq E /\ F # E
  <2>0. IsFiniteSet(E) /\ IsFiniteSet(S \cup E) /\ \A x \in S \cup E : g[x] \in Int
    BY <1>0, FS_Subset
  <2>1. E # {}
    <3>1. SumOf(g, S) = SumOf(f, S)
      BY <1>0, SumAgree
    <3>2. S \cup {} = S
      OBVIOUS
    <3> QED BY <3>1, <3>2
  <2> DEFINE p == Pick(E)
  <2>2. p \in E /\ p \notin S
    BY <2>1, PickIn
  <2> HIDE DEF p
  <2>3. SumOf(g, S \cup E) = g[p] + SumOf(g, (S \cup E) \ {p})
    BY <2>0, <2>2, SumTake
  <2>4. (S \cup E) \ {p} = S \cup (E \ {p}) /\ g[p] = 0
    BY <2>2
  <2>5. SumOf(g, S \cup (E \ {p})) \in Int
    <3>1. IsFiniteSet(S \cup (E \ {p}))
      BY <2>0, FS_Subset
    <3> QED BY <2>0, <3>1, SumType
  <2>6. SumOf(g, S \cup E) = SumOf(g, S \cup (E \ {p}))
    BY <2>3, <2>4, <2>5
  <2>7. E \ {p} \in Bad /\ E \ {p} \subseteq E /\ E \ {p} # E
    BY <2>2, <2>6
  <2> QED BY <2>7
<1>2. Bad \in SUBSET (SUBSET (D \ S))
  OBVIOUS
<1>3. Bad = {}
  <2> HIDE DEF Bad
  <2> QED BY <1>0, <1>1, <1>2, NoneBad
<1>4. SumOf(g, S \cup (D \ S)) = SumOf(f, S)
  BY <1>3
<1>5. S \cup (D \ S) = D
  OBVIOUS
<1> QED BY <1>4, <1>5

\* The sum over two parts.
LEMMA SumSplit ==
  ASSUME NEW D, IsFiniteSet(D), NEW E, IsFiniteSet(E), D \cap E = {},
         NEW f, \A x \in D \cup E : f[x] \in Int
  PROVE  SumOf(f, D \cup E) = SumOf(f, D) + SumOf(f, E)
<1> DEFINE U == D \cup E
           a == [x \in U |-> IF x \in D THEN f[x] ELSE 0]
           b == [x \in U |-> IF x \in E THEN f[x] ELSE 0]
<1>1. IsFiniteSet(U)
  BY FS_Union
<1>2. /\ \A x \in D : f[x] \in Int /\ a[x] = f[x]
      /\ \A x \in U \ D : a[x] = 0
      /\ \A x \in E : f[x] \in Int /\ b[x] = f[x]
      /\ \A x \in U \ E : b[x] = 0
      /\ \A x \in U : a[x] \in Int /\ b[x] \in Int /\ f[x] = a[x] + b[x]
      /\ D \in SUBSET U /\ E \in SUBSET U
  OBVIOUS
<1> HIDE DEF a, b, U
<1>3. SumOf(f, D) = SumOf(a, U)
  BY <1>1, <1>2, SumPart
<1>4. SumOf(f, E) = SumOf(b, U)
  BY <1>1, <1>2, SumPart
<1>5. SumOf(f, U) = SumOf(a, U) + SumOf(b, U)
  BY <1>1, <1>2, SumPlus
<1> QED BY <1>3, <1>4, <1>5 DEF U

\* Without negative values a sum bounds each of them, and is zero only if all are.
LEMMA SumNat ==
  ASSUME NEW D, IsFiniteSet(D), NEW f, \A x \in D : f[x] \in Nat
  PROVE  SumOf(f, D) \in Nat /\ \A x \in D : f[x] <= SumOf(f, D)
<1> DEFINE Bad == {E \in SUBSET D : SumOf(f, E) \notin Nat}
<1>1. ASSUME NEW E \in Bad PROVE \E F \in Bad : F \subseteq E /\ F # E
  <2>1. IsFiniteSet(E) /\ \A x \in E : f[x] \in Int
    BY FS_Subset
  <2>2. SumOf(f, E) = IF E = {} THEN 0 ELSE f[Pick(E)] + SumOf(f, E \ {Pick(E)})
    BY <2>1, SumEquation
  <2>3. E # {} /\ Pick(E) \in E
    BY <2>2, PickIn
  <2>4. f[Pick(E)] \in Nat
    BY <2>3
  <2>5. E \ {Pick(E)} \in Bad
    BY <2>2, <2>3, <2>4
  <2> QED BY <2>3, <2>5
<1>2. Bad \in SUBSET (SUBSET D)
  OBVIOUS
<1>3. Bad = {}
  <2> HIDE DEF Bad
  <2> QED BY <1>1, <1>2, NoneBad
<1>4. ASSUME NEW x \in D PROVE f[x] <= SumOf(f, D)
  <2>1. SumOf(f, D) = f[x] + SumOf(f, D \ {x})
    BY SumTake
  <2>2. SumOf(f, D \ {x}) \in Nat /\ f[x] \in Nat
    BY <1>3
  <2> QED BY <2>1, <2>2
<1> QED BY <1>3, <1>4

\* The sum of one value over a set.
LEMMA SumConstant ==
  ASSUME NEW D, IsFiniteSet(D), NEW c \in Int, NEW f, \A x \in D : f[x] = c
  PROVE  SumOf(f, D) = Cardinality(D) * c
<1> DEFINE Bad == {E \in SUBSET D : SumOf(f, E) # Cardinality(E) * c}
<1>1. ASSUME NEW E \in Bad PROVE \E F \in Bad : F \subseteq E /\ F # E
  <2>1. IsFiniteSet(E) /\ \A x \in E : f[x] \in Int
    BY FS_Subset
  <2>2. SumOf(f, E) = IF E = {} THEN 0 ELSE f[Pick(E)] + SumOf(f, E \ {Pick(E)})
    BY <2>1, SumEquation
  <2>3. E # {}
    <3>1. E = {} => SumOf(f, E) = 0 /\ Cardinality(E) = 0
      BY <2>2, FS_EmptySet
    <3> QED BY <3>1
  <2>4. Pick(E) \in E
    BY <2>3, PickIn
  <2> DEFINE R == E \ {Pick(E)}
  <2>5. Cardinality(R) = Cardinality(E) - 1 /\ Cardinality(E) \in Nat
    BY <2>1, <2>4, FS_RemoveElement, FS_CardinalityType
  <2>6. Cardinality(E) * c = Cardinality(R) * c + c
    <3> DEFINE n == Cardinality(E)
    <3>1. n \in Int /\ Cardinality(R) = n - 1
      BY <2>5
    <3>2. \A m \in Int : m * c = (m - 1) * c + c
      OBVIOUS
    <3> HIDE DEF n, R
    <3>3. n * c = (n - 1) * c + c
      BY <3>1, <3>2
    <3> QED BY <3>1, <3>3 DEF n
  <2>7. SumOf(f, E) = c + SumOf(f, R)
    BY <2>2, <2>3, <2>4
  <2>8. SumOf(f, R) # Cardinality(R) * c
    <3>1. SumOf(f, E) # Cardinality(E) * c
      OBVIOUS
    <3>2. Cardinality(R) * c \in Int
      BY <2>5
    <3> HIDE DEF R
    <3> QED BY <2>6, <2>7, <3>1, <3>2
  <2>9. R \in Bad /\ R \subseteq E /\ R # E
    BY <2>4, <2>8
  <2> QED BY <2>9
<1>2. Bad \in SUBSET (SUBSET D)
  OBVIOUS
<1>3. Bad = {}
  <2> HIDE DEF Bad
  <2> QED BY <1>1, <1>2, NoneBad
<1> QED BY <1>3

\* Values of at most c add up to at most c each: exactly that where each is c,
\* and less where one is less.
LEMMA SumAtMost ==
  ASSUME NEW D, IsFiniteSet(D), NEW c \in Int, NEW f, \A x \in D : f[x] \in Int /\ f[x] <= c
  PROVE  /\ SumOf(f, D) <= Cardinality(D) * c
         /\ \A x \in D : f[x] < c => SumOf(f, D) < Cardinality(D) * c
<1> DEFINE rest == [x \in D |-> c - f[x]]
           full == [x \in D |-> c]
<1>1. /\ \A x \in D : rest[x] \in Nat /\ full[x] = c /\ full[x] = f[x] + rest[x]
      /\ \A x \in D : rest[x] \in Int /\ f[x] \in Int
      /\ \A x \in D : rest[x] = c - f[x]
  OBVIOUS
<1> HIDE DEF rest, full
<1>2. SumOf(full, D) = Cardinality(D) * c
  BY <1>1, SumConstant
<1>3. SumOf(full, D) = SumOf(f, D) + SumOf(rest, D)
  BY <1>1, SumPlus
<1>4. SumOf(rest, D) \in Nat /\ \A x \in D : rest[x] <= SumOf(rest, D)
  BY <1>1, SumNat
<1>5. SumOf(f, D) \in Int
  BY SumType
<1>6. SumOf(f, D) = Cardinality(D) * c - SumOf(rest, D)
  BY <1>2, <1>3, <1>4, <1>5
<1>7. SumOf(full, D) \in Int
  BY <1>1, SumType
<1>8. SumOf(f, D) <= SumOf(full, D)
  BY <1>3, <1>4, <1>5, <1>7
<1>9. ASSUME NEW x \in D, f[x] < c PROVE SumOf(f, D) < SumOf(full, D)
  <2>1. rest[x] \in Nat /\ rest[x] > 0 /\ rest[x] <= SumOf(rest, D)
    BY <1>1, <1>4, <1>9
  <2> QED BY <2>1, <1>3, <1>4, <1>5, <1>7
<1> QED BY <1>2, <1>8, <1>9

\* Adding up under other names.
LEMMA SumRename ==
  ASSUME NEW D, IsFiniteSet(D), NEW E, NEW p \in [D -> E],
         \A x, y \in D : p[x] = p[y] => x = y, \A e \in E : \E x \in D : p[x] = e,
         NEW f, \A e \in E : f[e] \in Int, NEW g, \A x \in D : g[x] = f[p[x]]
  PROVE  SumOf(g, D) = SumOf(f, E)
<1> DEFINE Img(F) == {e \in E : \E x \in F : p[x] = e}
           Bad == {F \in SUBSET D : ~(IsFiniteSet(Img(F)) /\ SumOf(g, F) = SumOf(f, Img(F)))}
<1>1. ASSUME NEW F \in Bad PROVE \E G \in Bad : G \subseteq F /\ G # F
  <2>1. IsFiniteSet(F) /\ \A x \in F : g[x] \in Int
    BY FS_Subset
  <2>2. F # {}
    <3>1. F = {} => Img(F) = {} /\ SumOf(g, F) = 0
      BY SumEmpty
    <3>2. SumOf(f, {}) = 0 /\ IsFiniteSet({})
      BY SumEmpty, FS_EmptySet
    <3>3. ~(IsFiniteSet(Img(F)) /\ SumOf(g, F) = SumOf(f, Img(F)))
      OBVIOUS
    <3> HIDE DEF Img
    <3> QED BY <3>1, <3>2, <3>3
  <2> DEFINE z == Pick(F)
             R == F \ {z}
  <2>3. z \in F
    BY <2>2, PickIn
  <2> HIDE DEF z
  <2>4. SumOf(g, F) = g[z] + SumOf(g, R)
    BY <2>1, <2>3, SumTake
  <2>5. Img(F) = Img(R) \cup {p[z]} /\ p[z] \notin Img(R)
    BY <2>3
  <2>6. SUFFICES ASSUME IsFiniteSet(Img(R)), SumOf(g, R) = SumOf(f, Img(R)) PROVE FALSE
    <3>1. R \in SUBSET D /\ R \subseteq F /\ R # F
      BY <2>3
    <3> QED BY <3>1
  <2>7. IsFiniteSet(Img(F))
    <3>1. IsFiniteSet(Img(R) \cup {p[z]})
      <4> HIDE DEF Img, R
      <4> QED BY <2>6, FS_AddElement
    <3> HIDE DEF Img, R
    <3> QED BY <2>5, <3>1
  <2>8. SumOf(f, Img(F)) = SumOf(f, Img(R)) + f[p[z]]
    <3>1. f[p[z]] \in Int /\ \A y \in Img(R) : f[y] \in Int
      BY <2>3
    <3>2. p[z] \notin Img(R) /\ IsFiniteSet(Img(R))
      BY <2>5, <2>6
    <3> HIDE DEF Img, R
    <3>3. SumOf(f, Img(R) \cup {p[z]}) = SumOf(f, Img(R)) + f[p[z]]
      BY ONLY <3>1, <3>2, SumAdd
    <3> QED BY <2>5, <3>3
  <2>9. g[z] = f[p[z]] /\ g[z] \in Int
    BY <2>3
  <2>10. SumOf(g, R) \in Int
    <3>1. IsFiniteSet(R) /\ \A x \in R : g[x] \in Int
      BY <2>1, FS_Subset
    <3> QED BY <3>1, SumType
  <2>11. SumOf(g, F) = SumOf(f, Img(F))
    <3> HIDE DEF Img, R
    <3> QED BY <2>4, <2>6, <2>8, <2>9, <2>10
  <2>12. ~(IsFiniteSet(Img(F)) /\ SumOf(g, F) = SumOf(f, Img(F)))
    OBVIOUS
  <2> QED BY <2>7, <2>11, <2>12
<1>2. Bad \in SUBSET (SUBSET D)
  OBVIOUS
<1>3. Bad = {}
  <2> HIDE DEF Bad
  <2> QED BY <1>1, <1>2, NoneBad
<1>4. Img(D) = E
  OBVIOUS
<1>5. SumOf(g, D) = SumOf(f, Img(D))
  BY <1>3
<1> HIDE DEF Img
<1> QED BY <1>4, <1>5

-----------------------------------------------------------------------------
(* Least and greatest elements, and counting up *)

\* A finite set of numbers that is not empty has a greatest element.
LEMMA MaxFacts ==
  ASSUME NEW S \in SUBSET Int, IsFiniteSet(S), S # {}
  PROVE  Max(S) \in S /\ \A x \in S : x <= Max(S)
<1> DEFINE Bad == {E \in SUBSET S : E # {} /\ ~\E m \in E : \A x \in E : m >= x}
<1>1. ASSUME NEW E \in Bad PROVE \E F \in Bad : F \subseteq E /\ F # E
  <2>1. PICK y \in E : TRUE
    OBVIOUS
  <2>2. SUFFICES ASSUME E \ {y} \notin Bad PROVE FALSE
    BY <2>1
  <2>3. CASE E \ {y} = {}
    <3>1. y >= y /\ \A x \in E : x = y
      BY <2>3
    <3> QED BY <3>1
  <2>4. CASE E \ {y} # {}
    <3>1. PICK m \in E \ {y} : \A x \in E \ {y} : m >= x
      BY <2>2, <2>4
    <3>2. CASE m >= y
      BY <3>1, <3>2
    <3>3. CASE ~(m >= y)
      <4>1. \A x \in E : y >= x
        BY <3>1, <3>3
      <4> QED BY <4>1
    <3> QED BY <3>2, <3>3
  <2> QED BY <2>3, <2>4
<1>2. Bad \in SUBSET (SUBSET S)
  OBVIOUS
<1>3. Bad = {}
  <2> HIDE DEF Bad
  <2> QED BY <1>1, <1>2, NoneBad
<1>4. \E m \in S : \A x \in S : m >= x
  BY <1>3
<1> QED BY <1>4 DEF Max

\* The least of three, the greatest of two.
LEMMA MinOfThree ==
  ASSUME NEW a \in Int, NEW b \in Int, NEW c \in Int
  PROVE  LET m == Min({a, b, c})
         IN  m \in {a, b, c} /\ m <= a /\ m <= b /\ m <= c
<1>1. \E m \in {a, b, c} : \A x \in {a, b, c} : m <= x
  OBVIOUS
<1> QED BY <1>1 DEF Min

\* The smaller of two.
LEMMA MinOfTwo ==
  ASSUME NEW a \in Int, NEW b \in Int
  PROVE  Min({a, b}) = IF a <= b THEN a ELSE b
<1>1. \E m \in {a, b} : \A x \in {a, b} : m <= x
  OBVIOUS
<1>2. Min({a, b}) \in {a, b} /\ Min({a, b}) <= a /\ Min({a, b}) <= b
  BY <1>1 DEF Min
<1> QED BY <1>2

\* The larger of two.
LEMMA MaxOfTwo ==
  ASSUME NEW a \in Int, NEW b \in Int
  PROVE  Max({a, b}) = IF a >= b THEN a ELSE b
<1>1. \E m \in {a, b} : \A x \in {a, b} : m >= x
  OBVIOUS
<1>2. Max({a, b}) \in {a, b} /\ Max({a, b}) >= a /\ Max({a, b}) >= b
  BY <1>1 DEF Max
<1> QED BY <1>2

\* Induction up to a number, by counterexamples.
LEMMA NoneBadUpTo ==
  ASSUME NEW n \in Nat, NEW Bad \in SUBSET (0 .. n),
         \A k \in Bad : \E j \in Bad : j < k
  PROVE  Bad = {}
<1> DEFINE Sets == {E \in SUBSET (0 .. n) : \E k \in Bad : E = {j \in 0 .. n : j < k}}
<1>1. IsFiniteSet(0 .. n)
  BY FS_Interval
<1>2. ASSUME NEW E \in Sets PROVE \E F \in Sets : F \subseteq E /\ F # E
  <2>1. PICK k \in Bad : E = {j \in 0 .. n : j < k}
    OBVIOUS
  <2>2. PICK i \in Bad : i < k
    BY <2>1
  <2> DEFINE F == {j \in 0 .. n : j < i}
  <2>3. F \in Sets
    BY <2>2
  <2>4. F \subseteq E
    BY <2>1, <2>2
  <2>5. i \in E /\ i \notin F
    BY <2>1, <2>2
  <2> QED BY <2>3, <2>4, <2>5
<1>3. Sets \in SUBSET (SUBSET (0 .. n))
  OBVIOUS
<1>4. Sets = {}
  <2> HIDE DEF Sets
  <2> QED BY <1>1, <1>2, <1>3, NoneBad
<1>5. ASSUME NEW k \in Bad PROVE FALSE
  <2>1. {j \in 0 .. n : j < k} \in Sets
    OBVIOUS
  <2> QED BY <1>4, <2>1
<1> QED BY <1>5

\* A value passed on from step to step, and the steps it may be passed on by.
Steps(n, S) == (1 .. n) \X S
Passed(f, base, next, n) == f[0] = base /\ \A k \in 1 .. n : f[k] = next[<<k, f[k - 1]>>]

\* There is a way to pass a value on through every step.
LEMMA Iterated ==
  ASSUME NEW n \in Nat, NEW S, NEW base \in S, NEW next \in [Steps(n, S) -> S]
  PROVE  \E f \in [0 .. n -> S] : Passed(f, base, next, n)
<1> USE DEF Steps
<1> DEFINE Fills(f, m) == f[0] = base /\ \A k \in 1 .. m : f[k] = next[<<k, f[k - 1]>>]
           Bad == {m \in 0 .. n : ~\E f \in [0 .. m -> S] : Fills(f, m)}
<1>1. ASSUME NEW m \in Bad PROVE \E j \in Bad : j < m
  <2>1. m # 0
    <3> DEFINE f0 == [k \in 0 .. 0 |-> base]
    <3>1. f0 \in [0 .. 0 -> S] /\ Fills(f0, 0)
      OBVIOUS
    <3> HIDE DEF f0, Fills
    <3> QED BY <3>1
  <2>2. m - 1 \in 0 .. n /\ m \in 1 .. n
    BY <2>1
  <2>3. SUFFICES ASSUME NEW f \in [0 .. m - 1 -> S], Fills(f, m - 1) PROVE FALSE
    BY <2>2
  <2> DEFINE h == [k \in 0 .. m |-> IF k = m THEN next[<<m, f[m - 1]>>] ELSE f[k]]
  <2>4. f[m - 1] \in S /\ next[<<m, f[m - 1]>>] \in S
    BY <2>2
  <2>5. h \in [0 .. m -> S]
    BY <2>2, <2>4
  <2>6. h[0] = base
    BY <2>1, <2>3
  <2>7. ASSUME NEW k \in 1 .. m PROVE h[k] = next[<<k, h[k - 1]>>]
    <3>1. CASE k = m
      <4>1. h[k - 1] = f[m - 1]
        BY <2>2, <3>1
      <4> QED BY <3>1, <4>1, <2>2
    <3>2. CASE k # m
      <4>1. k \in 1 .. m - 1 /\ h[k] = f[k] /\ h[k - 1] = f[k - 1]
        BY <3>2
      <4> QED BY <4>1, <2>3
    <3> QED BY <3>1, <3>2
  <2> HIDE DEF h
  <2>8. Fills(h, m)
    BY <2>6, <2>7
  <2> QED BY <2>5, <2>8
<1>2. Bad \in SUBSET (0 .. n)
  OBVIOUS
<1>3. Bad = {}
  <2> HIDE DEF Bad
  <2> QED BY <1>1, <1>2, NoneBadUpTo
<1>4. \E f \in [0 .. n -> S] : Fills(f, n)
  <2>1. n \in 0 .. n
    OBVIOUS
  <2> HIDE DEF Fills
  <2> QED BY <1>3, <2>1
<1> QED BY <1>4 DEF Passed

-----------------------------------------------------------------------------
(* Sums over parts, under other names and up to a place *)

\* g is f without its values on E.
Without(g, f, D, E) == \A x \in D : g[x] = IF x \in E THEN 0 ELSE f[x]

\* Values that are taken out leave the sum of the rest.
LEMMA SumWithout ==
  ASSUME NEW D, IsFiniteSet(D), NEW E \in SUBSET D, NEW f \in [D -> Int], NEW g,
         Without(g, f, D, E)
  PROVE  /\ SumOf(f, D) \in Int /\ SumOf(f, E) \in Int
         /\ SumOf(g, D) = SumOf(f, D) - SumOf(f, E)
<1> DEFINE h == [x \in D |-> IF x \in E THEN f[x] ELSE 0]
<1>1. \A x \in D : g[x] \in Int /\ h[x] \in Int /\ f[x] = g[x] + h[x]
  BY DEF Without
<1>2. \A x \in E : f[x] \in Int /\ h[x] = f[x]
  OBVIOUS
<1>3. \A x \in D \ E : h[x] = 0
  OBVIOUS
<1>4. \A x \in D : f[x] \in Int
  OBVIOUS
<1>5. IsFiniteSet(E) /\ \A x \in E : f[x] \in Int
  BY FS_Subset
<1>6. \A x \in D : g[x] \in Int
  BY <1>1
<1> HIDE DEF h
<1>7. SumOf(f, E) = SumOf(h, D)
  BY <1>2, <1>3, SumPart
<1>8. SumOf(f, D) = SumOf(g, D) + SumOf(h, D)
  BY ONLY <1>1, IsFiniteSet(D), SumPlus
<1>9. SumOf(f, D) \in Int /\ SumOf(f, E) \in Int /\ SumOf(g, D) \in Int
  BY <1>4, <1>5, <1>6, SumType
<1> QED BY <1>7, <1>8, <1>9

\* g names its values through p.
Named(g, f, p, D) == \A x \in D : g[x] = f[p[x]]

\* Adding up under other names, by a bijection.
LEMMA SumBijection ==
  ASSUME NEW D, IsFiniteSet(D), NEW E, NEW p \in Bijection(D, E),
         NEW f \in [E -> Int], NEW g, Named(g, f, p, D)
  PROVE  SumOf(g, D) = SumOf(f, E)
<1>1. /\ p \in [D -> E] /\ \A x, y \in D : p[x] = p[y] => x = y
      /\ \A e \in E : \E x \in D : p[x] = e
  <2>1. p \in Injection(D, E) /\ p \in Surjection(D, E)
    BY DEF Bijection
  <2>2. p \in [D -> E] /\ \A x, y \in D : p[x] = p[y] => x = y
    BY <2>1 DEF Injection, IsInjective
  <2>3. \A e \in E : \E x \in D : p[x] = e
    BY <2>1 DEF Surjection
  <2> QED BY <2>2, <2>3
<1>2. (\A e \in E : f[e] \in Int) /\ (\A x \in D : g[x] = f[p[x]])
  BY DEF Named
<1> QED BY <1>1, <1>2, SumRename

\* A sum up to a place, one place at a time.
LEMMA SumUpTo ==
  ASSUME NEW n \in Nat, NEW f \in [1 .. n -> Int], NEW k \in 1 .. n
  PROVE  /\ SumOf(f, 1 .. k) = SumOf(f, 1 .. (k - 1)) + f[k]
         /\ SumOf(f, 1 .. k) \in Int /\ SumOf(f, 1 .. (k - 1)) \in Int
<1> DEFINE D == 1 .. (k - 1)
<1>1. IsFiniteSet(D)
  <2>1. 1 \in Int /\ k - 1 \in Int
    OBVIOUS
  <2> QED BY ONLY <2>1, FS_Interval
<1>2. 1 .. k = D \cup {k} /\ k \notin D
  OBVIOUS
<1>3. \A y \in D : f[y] \in Int
  OBVIOUS
<1>4. f[k] \in Int
  OBVIOUS
<1> HIDE DEF D
<1>5. SumOf(f, D \cup {k}) = SumOf(f, D) + f[k]
  BY <1>1, <1>2, <1>3, <1>4, SumAdd
<1>6. SumOf(f, D) \in Int
  BY <1>1, <1>3, SumType
<1>7. SumOf(f, 1 .. k) = SumOf(f, D) + f[k]
  BY ONLY <1>2, <1>5
<1>8. SumOf(f, 1 .. k) \in Int
  BY ONLY <1>4, <1>6, <1>7
<1> QED BY ONLY <1>6, <1>7, <1>8 DEF D

\* What is left for place i of a demand m that the places before it serve first.
Served(e, a, m, n) ==
  \A i \in 1 .. n : e[i] = Max({0, Min({a[i], m - SumOf(a, 1 .. (i - 1))})})

\* A demand served in order is served in full, or as far as the supply goes.
LEMMA SumServed ==
  ASSUME NEW n \in Nat, NEW a \in [1 .. n -> Nat], NEW m \in Nat, NEW e,
         Served(e, a, m, n)
  PROVE  /\ \A i \in 1 .. n : e[i] \in Nat /\ e[i] <= a[i]
         /\ m <= SumOf(a, 1 .. n) => SumOf(e, 1 .. n) = m
<1>1. a \in [1 .. n -> Int]
  OBVIOUS
<1>2. \A i \in 1 .. n : SumOf(a, 1 .. (i - 1)) \in Int
  BY <1>1, SumUpTo
<1>3. \A i \in 1 .. n :
        e[i] = IF m - SumOf(a, 1 .. (i - 1)) <= 0 THEN 0
               ELSE IF a[i] <= m - SumOf(a, 1 .. (i - 1)) THEN a[i]
               ELSE m - SumOf(a, 1 .. (i - 1))
  <2> SUFFICES ASSUME NEW i \in 1 .. n
               PROVE  e[i] = IF m - SumOf(a, 1 .. (i - 1)) <= 0 THEN 0
                             ELSE IF a[i] <= m - SumOf(a, 1 .. (i - 1)) THEN a[i]
                             ELSE m - SumOf(a, 1 .. (i - 1))
    OBVIOUS
  <2> DEFINE r == m - SumOf(a, 1 .. (i - 1))
             s == Min({a[i], r})
  <2>1. r \in Int /\ a[i] \in Nat
    BY <1>2
  <2>2. s = IF a[i] <= r THEN a[i] ELSE r
    <3> HIDE DEF r
    <3> QED BY <2>1, MinOfTwo
  <2>3. Max({0, s}) = IF 0 >= s THEN 0 ELSE s
    <3> HIDE DEF s, r
    <3>1. 0 \in Int /\ s \in Int
      BY <2>1, <2>2
    <3> QED BY ONLY <3>1, MaxOfTwo
  <2>4. e[i] = Max({0, s})
    BY DEF Served
  <2> HIDE DEF s, r
  <2> QED BY <2>1, <2>2, <2>3, <2>4 DEF r
<1>4. \A i \in 1 .. n : e[i] \in Nat /\ e[i] <= a[i]
  <2> SUFFICES ASSUME NEW i \in 1 .. n PROVE e[i] \in Nat /\ e[i] <= a[i]
    OBVIOUS
  <2> DEFINE s == SumOf(a, 1 .. (i - 1))
  <2>1. s \in Int /\ a[i] \in Nat
    BY <1>2
  <2>2. e[i] = IF m - s <= 0 THEN 0 ELSE IF a[i] <= m - s THEN a[i] ELSE m - s
    BY <1>3
  <2> HIDE DEF s
  <2> QED BY <2>1, <2>2
<1> DEFINE d == [i \in 1 .. n |-> e[i]]
           A(k) == SumOf(a, 1 .. k)
           E(k) == SumOf(d, 1 .. k)
           Bad == {k \in 0 .. n : E(k) # IF m <= A(k) THEN m ELSE A(k)}
<1>5. d \in [1 .. n -> Int]
  BY <1>4
<1>6. A(0) = 0 /\ E(0) = 0
  <2>1. 1 .. 0 = {}
    OBVIOUS
  <2> HIDE DEF d
  <2> QED BY <2>1, SumEmpty
<1>7. ASSUME NEW k \in 1 .. n
      PROVE  /\ A(k) = A(k - 1) + a[k] /\ A(k) \in Int /\ A(k - 1) \in Int
             /\ E(k) = E(k - 1) + d[k] /\ E(k) \in Int /\ E(k - 1) \in Int
  <2> HIDE DEF d
  <2> QED BY <1>1, <1>5, SumUpTo
<1>8. ASSUME NEW k \in Bad PROVE \E j \in Bad : j < k
  <2>1. k \in 1 .. n
    BY <1>6
  <2>2. /\ d[k] = IF m - A(k - 1) <= 0 THEN 0 ELSE IF a[k] <= m - A(k - 1) THEN a[k]
                  ELSE m - A(k - 1)
        /\ a[k] \in Nat
    BY <1>3, <2>1
  <2>3. E(k) # IF m <= A(k) THEN m ELSE A(k)
    OBVIOUS
  <2>4. k - 1 \in 0 .. n /\ k - 1 < k
    BY <2>1
  <2>5. E(k - 1) # IF m <= A(k - 1) THEN m ELSE A(k - 1)
    <3> DEFINE x == A(k)
               y == A(k - 1)
               u == E(k)
               v == E(k - 1)
    <3>1. x = y + a[k] /\ x \in Int /\ y \in Int /\ u = v + d[k] /\ u \in Int /\ v \in Int
      BY <1>7, <2>1
    <3>2. d[k] = IF m - y <= 0 THEN 0 ELSE IF a[k] <= m - y THEN a[k] ELSE m - y
      BY <2>2
    <3>3. u # IF m <= x THEN m ELSE x
      BY <2>3
    <3> HIDE DEF x, y, u, v, d
    <3>4. v # IF m <= y THEN m ELSE y
      BY <2>2, <3>1, <3>2, <3>3
    <3> QED BY <3>4 DEF y, v
  <2> QED BY <2>4, <2>5
<1>9. Bad = {}
  <2>1. Bad \in SUBSET (0 .. n)
    OBVIOUS
  <2> HIDE DEF Bad
  <2> QED BY <1>8, <2>1, NoneBadUpTo
<1>10. E(n) = IF m <= A(n) THEN m ELSE A(n)
  <2>1. n \in 0 .. n
    OBVIOUS
  <2> HIDE DEF A, E
  <2> QED BY <1>9, <2>1
<1>11. SumOf(e, 1 .. n) = SumOf(d, 1 .. n)
  <2>1. IsFiniteSet(1 .. n)
    BY FS_Interval
  <2>2. \A i \in 1 .. n : e[i] \in Int /\ e[i] = d[i]
    BY <1>4
  <2> HIDE DEF d
  <2> QED BY <2>1, <2>2, SumAgree
<1>12. m <= A(n) => E(n) = m
  <2> HIDE DEF A, E
  <2> QED BY <1>10
<1> QED BY <1>4, <1>11, <1>12
=============================================================================
