----------------------------- MODULE DataLemmas -----------------------------
(***************************************************************************)
(* What the proofs need of operators on data: of the removal of an element *)
(* of a queue (ConcurrentLinkedQueue and ArrayDeque), and of sums over     *)
(* finite sets, as which the properties state what counters hold.          *)
(***************************************************************************)
EXTENDS SequencesExt, Integers, SequenceTheorems, FiniteSetTheorems, WellFoundedInduction, TLAPS

(* What is left of a sequence when one position is taken out.              *)
LEMMA RemoveAtElements ==
  ASSUME NEW S, NEW s \in Seq(S), NEW i \in DOMAIN s
  PROVE  /\ RemoveAt(s, i) \in Seq(S)
         /\ DOMAIN RemoveAt(s, i) = 1 .. Len(s) - 1
         /\ \A j \in DOMAIN RemoveAt(s, i) :
              RemoveAt(s, i)[j] = s[IF j < i THEN j ELSE j + 1]
<1> DEFINE front == SubSeq(s, 1, i - 1)
           back == SubSeq(s, i + 1, Len(s))
<1>1. i \in 1 .. Len(s) /\ Len(s) \in Nat
  OBVIOUS
<1>2. /\ front \in Seq(S) /\ Len(front) = i - 1
      /\ \A j \in 1 .. i - 1 : front[j] = s[j]
  BY <1>1
<1>3. /\ back \in Seq(S) /\ Len(back) = Len(s) - i
      /\ \A j \in 1 .. Len(s) - i : back[j] = s[i + j]
  BY <1>1
<1>4. /\ front \o back \in Seq(S) /\ Len(front \o back) = Len(front) + Len(back)
      /\ \A j \in 1 .. Len(front) + Len(back) :
           (front \o back)[j] = IF j <= Len(front) THEN front[j] ELSE back[j - Len(front)]
  BY <1>2, <1>3, ConcatProperties
<1>. HIDE DEF front, back
<1>5. Len(front) + Len(back) = Len(s) - 1 /\ DOMAIN (front \o back) = 1 .. Len(s) - 1
  BY <1>1, <1>2, <1>3, <1>4, LenProperties
<1>6. ASSUME NEW j \in 1 .. Len(s) - 1
      PROVE  (front \o back)[j] = s[IF j < i THEN j ELSE j + 1]
  <2>1. CASE j < i
    BY <1>1, <1>2, <1>4, <1>5, <2>1
  <2>2. CASE ~(j < i)
    <3>1. j - Len(front) \in 1 .. Len(s) - i /\ i + (j - Len(front)) = j + 1
      BY <1>1, <1>2, <2>2
    <3>2. ~(j <= Len(front)) /\ j \in 1 .. Len(front) + Len(back)
      BY <1>1, <1>2, <1>5, <2>2
    <3>3. (front \o back)[j] = back[j - Len(front)]
      BY <1>4, <3>2
    <3>4. back[j - Len(front)] = s[j + 1]
      BY <1>3, <3>1
    <3> QED
      BY <2>2, <3>3, <3>4
  <2> QED
    BY <2>1, <2>2
<1> QED
  BY <1>4, <1>5, <1>6 DEF RemoveAt, front, back

-----------------------------------------------------------------------------
(* What MapThenSumSet computes, in whatever order it takes the elements.   *)
SumOf(f, S) == MapThenSumSet(LAMBDA x : f[x], S)

Chosen(s) == CHOOSE x \in s : TRUE

(* The recursion of MapThenFoldSet, on the sets of D.                      *)
SolvesSum(f, g, D) ==
  g = [s \in D |-> IF s = {} THEN 0 ELSE f[Chosen(s)] + g[s \ {Chosen(s)}]]

(* Of the numbers in a set, one is least.                                  *)
LEMMA LeastOf ==
  ASSUME NEW N, N \subseteq Nat, N # {}
  PROVE  \E n \in N : \A m \in N : n <= m
<1> DEFINE Below(n) == {m \in N : m < n}
<1>1. PICK top \in N : TRUE
  OBVIOUS
<1> DEFINE low == {n \in N : n <= top}
<1>2. IsFiniteSet(low) /\ low # {} /\ low \subseteq N
  <2>0. N \subseteq Nat /\ top \in Nat
    BY <1>1
  <2>1. low \subseteq 0 .. top /\ top \in Nat
    <3> SUFFICES ASSUME NEW x \in low PROVE x \in 0 .. top
      BY <2>0
    <3>1. x \in N /\ x <= top
      OBVIOUS
    <3>2. x \in Nat
      BY <2>0, <3>1
    <3> QED
      BY <2>0, <3>1, <3>2
  <2>2. IsFiniteSet(0 .. top)
    BY <2>1, FS_Interval
  <2> QED
    BY <2>1, <2>2, FS_Subset
<1>0. \A m, n \in low : n \in Nat /\ m \in Nat /\ Below(n) \subseteq low
  <2> SUFFICES ASSUME NEW n \in low, NEW m \in N, m < n
               PROVE  n \in Nat /\ m <= top
    BY <1>2
  <2>1. n \in Nat /\ m \in Nat /\ top \in Nat /\ n <= top
    BY <1>1, <1>2
  <2> QED
    BY <2>1
<1>3. IsWellFoundedOn(StrictSubsetOrdering(low), SUBSET low)
  BY <1>2, FS_StrictSubsetOrderingWellFounded, FS_FiniteSubsetsOfFinite
<1>4. PICK n \in low : \A m \in low : <<Below(m), Below(n)>> \notin StrictSubsetOrdering(low)
  <2> DEFINE T == {Below(n) : n \in low}
  <2>1. T \subseteq SUBSET low /\ T # {}
    BY <1>0, <1>2
  <2>2. \E A \in T : \A B \in T : <<B, A>> \notin StrictSubsetOrdering(low)
    BY <1>3, <2>1, WFMin
  <2> QED
    BY <2>2
<1>5. ASSUME NEW m \in N, m < n PROVE FALSE
  <2>0. n \in Nat /\ m \in Nat /\ top \in Nat /\ n <= top
    BY <1>1, <1>2
  <2>1. m \in low /\ m \in Nat /\ n \in Nat
    BY <1>5, <2>0
  <2>2. Below(m) \subseteq Below(n) /\ m \in Below(n) /\ m \notin Below(m)
    <3>1. m \in Below(n) /\ m \notin Below(m)
      BY <1>5, <2>1
    <3>2. ASSUME NEW x \in N, x < m PROVE x < n
      <4>1. x \in Nat
        OBVIOUS
      <4> QED
        BY <1>5, <2>1, <3>2, <4>1
    <3> QED
      BY <3>1, <3>2
  <2>3. Below(m) \subseteq low /\ Below(n) \subseteq low
    BY <1>0, <2>1
  <2>4. <<Below(m), Below(n)>> \in StrictSubsetOrdering(low)
    BY <2>2, <2>3 DEF StrictSubsetOrdering
  <2> QED
    BY <1>4, <2>1, <2>4
<1> QED
  BY <1>2, <1>5

(* Of the finite sets in a set, one is smallest.                           *)
LEMMA SmallestSet ==
  ASSUME NEW B, B # {}, \A s \in B : IsFiniteSet(s)
  PROVE  \E s \in B : \A t \in B : Cardinality(s) <= Cardinality(t)
<1> DEFINE N == {Cardinality(s) : s \in B}
<1>1. N \subseteq Nat /\ N # {}
  BY FS_CardinalityType
<1>2. PICK n \in N : \A m \in N : n <= m
  BY <1>1, LeastOf
<1> QED
  BY <1>2

LEMMA PickIsIn ==
  ASSUME NEW s, IsFiniteSet(s), s # {}
  PROVE  /\ Chosen(s) \in s /\ IsFiniteSet(s \ {Chosen(s)})
         /\ Cardinality(s) \in Nat \ {0}
         /\ Cardinality(s \ {Chosen(s)}) = Cardinality(s) - 1
<1>1. Chosen(s) \in s
  BY DEF Chosen
<1> QED
  BY <1>1, FS_RemoveElement, FS_EmptySet, FS_CardinalityType

(* The recursion has a solution.                                           *)
LEMMA SumsExist ==
  ASSUME NEW S, IsFiniteSet(S), NEW f, \A x \in S : f[x] \in Nat
  PROVE  \E g \in [SUBSET S -> Nat] : SolvesSum(f, g, SUBSET S)
<1> DEFINE Sub(n) == {s \in SUBSET S : Cardinality(s) <= n}
           Solved(n) == \E g \in [Sub(n) -> Nat] : SolvesSum(f, g, Sub(n))
           bad == {n \in Nat : ~Solved(n)}
<1>0. \A s \in SUBSET S : IsFiniteSet(s) /\ Cardinality(s) \in Nat
  BY FS_Subset, FS_CardinalityType
<1>1. bad = {}
  <2> SUFFICES ASSUME bad # {} PROVE FALSE
    OBVIOUS
  <2>1. PICK n \in bad : \A m \in bad : n <= m
    <3>1. bad \subseteq Nat
      OBVIOUS
    <3>. HIDE DEF bad
    <3> QED
      BY <3>1, LeastOf
  <2>2. CASE n = 0
    <3> DEFINE g == [s \in Sub(0) |-> 0]
    <3>1. \A s \in Sub(0) : s = {}
      BY <1>0, FS_EmptySet
    <3>2. SolvesSum(f, g, Sub(0)) /\ g \in [Sub(0) -> Nat]
      BY <3>1 DEF SolvesSum
    <3> QED
      BY <2>1, <2>2, <3>2
  <2>3. CASE n # 0
    <3>0. n \in Nat /\ n - 1 \in Nat
      BY <2>1, <2>3
    <3>1. Solved(n - 1)
      <4> SUFFICES ASSUME n - 1 \in bad PROVE FALSE
        BY <3>0
      <4>. HIDE DEF bad
      <4>1. n <= n - 1
        BY <2>1
      <4> QED
        BY <3>0, <4>1
    <3>2. PICK g \in [Sub(n - 1) -> Nat] : SolvesSum(f, g, Sub(n - 1))
      BY <3>1
    <3> DEFINE h == [s \in Sub(n) |-> IF s = {} THEN 0 ELSE f[Chosen(s)] + g[s \ {Chosen(s)}]]
    <3>3. ASSUME NEW s \in Sub(n), s # {}
          PROVE  Chosen(s) \in S /\ s \ {Chosen(s)} \in Sub(n - 1)
      BY <1>0, <2>1, <3>3, PickIsIn
    <3>4. h \in [Sub(n) -> Nat]
      BY <3>2, <3>3
    <3>5. \A s \in Sub(n - 1) : s \in Sub(n) /\ h[s] = g[s]
      <4>1. Sub(n - 1) \subseteq Sub(n)
        BY <1>0, <2>1
      <4> QED
        BY <3>2, <4>1 DEF SolvesSum
    <3>6. SolvesSum(f, h, Sub(n))
      <4>1. \A s \in Sub(n) : h[s] = IF s = {} THEN 0 ELSE f[Chosen(s)] + h[s \ {Chosen(s)}]
        BY <3>3, <3>5
      <4> QED
        BY <4>1 DEF SolvesSum
    <3> QED
      BY <2>1, <3>4, <3>6
  <2> QED
    BY <2>2, <2>3
<1>2. Cardinality(S) \in Nat /\ Sub(Cardinality(S)) = SUBSET S
  BY <1>0, FS_Subset
<1> QED
  BY <1>1, <1>2

(* Solutions agree where their summands do.                                *)
LEMMA SumsAgree ==
  \A S, f, g, T, e, h : SolvesSum(f, g, SUBSET S) /\ SolvesSum(e, h, SUBSET T) =>
    \A U \in SUBSET S :
      IsFiniteSet(U) /\ U \subseteq T /\ (\A x \in U : f[x] = e[x]) => g[U] = h[U]
<1> SUFFICES ASSUME NEW S, NEW f, NEW g, NEW T, NEW e, NEW h,
                    SolvesSum(f, g, SUBSET S), SolvesSum(e, h, SUBSET T), NEW U \in SUBSET S,
                    IsFiniteSet(U), U \subseteq T, \A x \in U : f[x] = e[x]
             PROVE  g[U] = h[U]
  OBVIOUS
<1> DEFINE bad == {s \in SUBSET U : g[s] # h[s]}
<1>1. bad = {}
  <2> SUFFICES ASSUME bad # {} PROVE FALSE
    OBVIOUS
  <2>1. \A s \in SUBSET U : IsFiniteSet(s)
    BY FS_Subset
  <2>2. PICK s \in bad : \A t \in bad : Cardinality(s) <= Cardinality(t)
    BY <2>1, SmallestSet
  <2>3. s \in SUBSET S /\ s \in SUBSET T
    OBVIOUS
  <2>4. s # {}
    BY <2>2, <2>3 DEF SolvesSum
  <2>5. /\ Chosen(s) \in s /\ Cardinality(s \ {Chosen(s)}) = Cardinality(s) - 1
        /\ Cardinality(s) \in Nat
    BY <2>1, <2>4, PickIsIn
  <2>6. g[s \ {Chosen(s)}] = h[s \ {Chosen(s)}]
    BY <2>2, <2>5
  <2>7. g[s] = f[Chosen(s)] + g[s \ {Chosen(s)}] /\ h[s] = e[Chosen(s)] + h[s \ {Chosen(s)}]
    BY <2>3, <2>4 DEF SolvesSum
  <2>8. f[Chosen(s)] = e[Chosen(s)]
    BY <2>5
  <2> QED
    BY <2>2, <2>6, <2>7, <2>8
<1> QED
  BY <1>1

(* The recursion has one solution.                                         *)
LEMMA SumIsUnique ==
  \A S, f, g, h :
    IsFiniteSet(S) /\ SolvesSum(f, g, SUBSET S) /\ SolvesSum(f, h, SUBSET S) => g = h
<1> SUFFICES ASSUME NEW S, NEW f, NEW g, NEW h, IsFiniteSet(S),
                    SolvesSum(f, g, SUBSET S), SolvesSum(f, h, SUBSET S)
             PROVE  g = h
  OBVIOUS
<1>1. \A U \in SUBSET S : g[U] = h[U]
  BY SumsAgree, FS_Subset
<1> QED
  BY <1>1 DEF SolvesSum

(* MapThenSumSet is the solution.                                          *)
LEMMA SumIsSolution ==
  ASSUME NEW S, IsFiniteSet(S), NEW f,
         NEW g \in [SUBSET S -> Nat], SolvesSum(f, g, SUBSET S)
  PROVE  \A U \in SUBSET S : SumOf(f, U) = g[U]
<1> SUFFICES ASSUME NEW U \in SUBSET S PROVE SumOf(f, U) = g[U]
  OBVIOUS
<1> DEFINE k == [s \in SUBSET U |-> g[s]]
<1>1. IsFiniteSet(U) /\ \A s \in SUBSET U : IsFiniteSet(s)
  BY FS_Subset
<1>2. SolvesSum(f, k, SUBSET U)
  <2>1. \A s \in SUBSET U : g[s] = IF s = {} THEN 0 ELSE f[Chosen(s)] + g[s \ {Chosen(s)}]
    BY DEF SolvesSum
  <2> QED
    BY <2>1 DEF SolvesSum
<1>3. ASSUME NEW h, SolvesSum(f, h, SUBSET U)
      PROVE  h = k
  <2>1. ASSUME NEW s \in SUBSET U PROVE h[s] = k[s]
    <3>1. IsFiniteSet(s) /\ s \subseteq U /\ s \subseteq S /\ \A x \in s : f[x] = f[x]
      BY <1>1
    <3>. HIDE DEF k
    <3> QED
      BY <1>2, <1>3, <3>1, SumsAgree
  <2> QED
    BY <1>3, <2>1 DEF SolvesSum
<1>. HIDE DEF k
<1>4. SumOf(f, U) = k[U]
  BY <1>2, <1>3 DEF SumOf, MapThenSumSet, MapThenFoldSet, SolvesSum, Chosen
<1> QED
  BY <1>4 DEF k

(* A sum may begin with any of its elements.                               *)
LEMMA SumRemove ==
  ASSUME NEW S, IsFiniteSet(S), NEW f, \A x \in S : f[x] \in Nat
  PROVE  \A x \in S : SumOf(f, S) = f[x] + SumOf(f, S \ {x})
<1>1. PICK g \in [SUBSET S -> Nat] : SolvesSum(f, g, SUBSET S)
  BY SumsExist
<1> DEFINE Good(s) == \A x \in s : g[s] = f[x] + g[s \ {x}]
           bad == {s \in SUBSET S : ~Good(s)}
<1>2. bad = {}
  <2> SUFFICES ASSUME bad # {} PROVE FALSE
    OBVIOUS
  <2>1. \A s \in SUBSET S : IsFiniteSet(s) /\ Cardinality(s) \in Nat
    BY FS_Subset, FS_CardinalityType
  <2>2. PICK s \in bad : \A t \in bad : Cardinality(s) <= Cardinality(t)
    BY <2>1, SmallestSet
  <2>3. PICK x \in s : g[s] # f[x] + g[s \ {x}]
    BY <2>2
  <2> DEFINE y == Chosen(s)
  <2>4. y \in s /\ g[s] = f[y] + g[s \ {y}]
    BY <1>1, <2>1, <2>3, PickIsIn DEF SolvesSum
  <2>. HIDE DEF y, bad
  <2>5. x # y
    BY <2>3, <2>4
  <2>6. \A z \in s : Good(s \ {z})
    <3> SUFFICES ASSUME NEW z \in s PROVE Good(s \ {z})
      OBVIOUS
    <3>0. s \in SUBSET S /\ IsFiniteSet(s)
      BY <2>1, <2>2 DEF bad
    <3>1. Cardinality(s \ {z}) = Cardinality(s) - 1
      BY <3>0, FS_RemoveElement
    <3> QED
      BY <2>1, <2>2, <3>0, <3>1 DEF bad
  <2>7. g[s \ {y}] = f[x] + g[(s \ {y}) \ {x}] /\ g[s \ {x}] = f[y] + g[(s \ {x}) \ {y}]
    BY <2>4, <2>5, <2>6
  <2>8. (s \ {y}) \ {x} = (s \ {x}) \ {y}
    OBVIOUS
  <2>9. f[x] \in Nat /\ f[y] \in Nat /\ g[(s \ {y}) \ {x}] \in Nat
    BY <2>2, <2>4 DEF bad
  <2>10. g[s] = f[y] + (f[x] + g[(s \ {y}) \ {x}])
    BY <2>4, <2>7
  <2>11. g[s \ {x}] = f[y] + g[(s \ {y}) \ {x}]
    BY <2>7, <2>8
  <2> QED
    BY <2>3, <2>9, <2>10, <2>11
<1> QED
  BY <1>1, <1>2, SumIsSolution

(* Sums of numbers are numbers.                                            *)
LEMMA SumType ==
  ASSUME NEW S, IsFiniteSet(S), NEW f, \A x \in S : f[x] \in Nat
  PROVE  SumOf(f, S) \in Nat
<1>1. PICK g \in [SUBSET S -> Nat] : SolvesSum(f, g, SUBSET S)
  BY SumsExist
<1> QED
  BY <1>1, SumIsSolution

(* What is added to a sum, and what leaves it as it is.                    *)
LEMMA SumEmpty == ASSUME NEW f PROVE SumOf(f, {}) = 0
<1>1. PICK g \in [SUBSET {} -> Nat] : SolvesSum(f, g, SUBSET {})
  BY SumsExist, FS_EmptySet
<1>2. g[{}] = 0
  BY <1>1 DEF SolvesSum
<1>3. \A U \in SUBSET {} : SumOf(f, U) = g[U]
  BY <1>1, SumIsSolution, FS_EmptySet
<1> QED
  BY <1>2, <1>3

LEMMA SumAdd ==
  ASSUME NEW S, IsFiniteSet(S), NEW f, \A x \in S : f[x] \in Nat,
         NEW x, x \notin S, f[x] \in Nat
  PROVE  SumOf(f, S \cup {x}) = SumOf(f, S) + f[x]
<1>1. IsFiniteSet(S \cup {x}) /\ (S \cup {x}) \ {x} = S
  BY FS_AddElement
<1>2. SumOf(f, S \cup {x}) = f[x] + SumOf(f, S)
  BY <1>1, SumRemove
<1> QED
  BY <1>2, SumType

LEMMA SumSame ==
  ASSUME NEW S, IsFiniteSet(S), NEW f, NEW e, \A x \in S : f[x] \in Nat /\ e[x] = f[x]
  PROVE  SumOf(e, S) = SumOf(f, S)
<1>1. PICK g \in [SUBSET S -> Nat] : SolvesSum(f, g, SUBSET S)
  BY SumsExist
<1>2. PICK h \in [SUBSET S -> Nat] : SolvesSum(e, h, SUBSET S)
  <2>1. \A x \in S : e[x] \in Nat
    OBVIOUS
  <2> QED
    BY <2>1, SumsExist
<1>3. g[S] = h[S]
  <2>1. S \subseteq S /\ \A x \in S : f[x] = e[x]
    OBVIOUS
  <2> QED
    BY <1>1, <1>2, <2>1, SumsAgree
<1> QED
  BY <1>1, <1>2, <1>3, SumIsSolution

(* What some elements lose is what the sum loses.                          *)
LEMMA SumSplit ==
  ASSUME NEW S, IsFiniteSet(S), NEW f, \A x \in S : f[x] \in Nat, NEW D \in SUBSET S
  PROVE  SumOf(f, S) = SumOf(f, D) + SumOf([x \in S |-> IF x \in D THEN 0 ELSE f[x]], S)
<1> DEFINE rest(E) == [x \in S |-> IF x \in E THEN 0 ELSE f[x]]
           Good(E) == SumOf(f, S) = SumOf(f, E) + SumOf(rest(E), S)
           bad == {E \in SUBSET S : ~Good(E)}
<1>1. \A E \in SUBSET S : IsFiniteSet(E)
  BY FS_Subset
<1>2. \A E \in SUBSET S : \A x \in S : rest(E)[x] \in Nat /\ (x \in E => rest(E)[x] = 0)
                                      /\ (x \notin E => rest(E)[x] = f[x])
  OBVIOUS
<1>3. \A E \in SUBSET S : SumOf(f, E) \in Nat
  BY <1>1, SumType
<1>. HIDE DEF rest
<1>4. bad = {}
  <2> SUFFICES ASSUME bad # {} PROVE FALSE
    OBVIOUS
  <2>1. PICK E \in bad : \A F \in bad : Cardinality(E) <= Cardinality(F)
    BY <1>1, SmallestSet
  <2>2. E # {}
    <3>1. SumOf(f, {}) = 0
      BY SumEmpty
    <3>2. SumOf(rest({}), S) = SumOf(f, S)
      BY <1>2, SumSame
    <3>3. Good({})
      BY <1>3, <3>1, <3>2
    <3> QED
      BY <2>1, <3>3
  <2>3. PICK x \in E : TRUE
    BY <2>2
  <2> DEFINE F == E \ {x}
  <2>4. F \in SUBSET S /\ E \in SUBSET S /\ x \in S /\ x \notin F /\ x \in E
    OBVIOUS
  <2>5. Good(F)
    <3>1. Cardinality(F) = Cardinality(E) - 1 /\ Cardinality(E) \in Nat
      BY <1>1, <2>4, FS_RemoveElement, FS_CardinalityType
    <3> QED
      BY <2>1, <2>4, <3>1
  <2>6. SumOf(f, E) = f[x] + SumOf(f, F)
    BY <1>1, <2>4, SumRemove
  <2>7. /\ SumOf(rest(F), S) = f[x] + SumOf(rest(F), S \ {x})
        /\ SumOf(rest(E), S) = 0 + SumOf(rest(E), S \ {x})
    <3>1. /\ SumOf(rest(F), S) = rest(F)[x] + SumOf(rest(F), S \ {x})
          /\ SumOf(rest(E), S) = rest(E)[x] + SumOf(rest(E), S \ {x})
      BY <1>2, <2>4, SumRemove
    <3> QED
      BY <1>2, <2>4, <3>1
  <2>8. SumOf(rest(F), S \ {x}) = SumOf(rest(E), S \ {x})
    <3>1. IsFiniteSet(S \ {x})
      BY <1>1
    <3>2. \A y \in S \ {x} : rest(E)[y] \in Nat /\ rest(F)[y] = rest(E)[y]
      BY <1>2, <2>4
    <3> QED
      BY <3>1, <3>2, SumSame
  <2>9. SumOf(rest(E), S \ {x}) \in Nat /\ SumOf(f, F) \in Nat /\ f[x] \in Nat
    <3>1. IsFiniteSet(S \ {x}) /\ \A y \in S \ {x} : rest(E)[y] \in Nat
      BY <1>1, <1>2, <2>4
    <3> QED
      BY <1>3, <2>4, <3>1, SumType
  <2>10. Good(E)
    BY <2>5, <2>6, <2>7, <2>8, <2>9
  <2> QED
    BY <2>1, <2>10
<1>5. Good(D)
  BY <1>4
<1> QED
  BY <1>5 DEF rest
=============================================================================
