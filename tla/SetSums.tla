-------------------------------- MODULE SetSums --------------------------------
(***************************************************************************)
(* Sums over finite sets, as MapThenSumSet computes them: element after    *)
(* element, in whatever order CHOOSE picks them.  The facts hold for every *)
(* finite set; each is proved from a smallest subset that violates it.     *)
(***************************************************************************)
EXTENDS Integers, FiniteSetTheorems, WellFoundedInduction, TLAPS

Pick(s) == CHOOSE x \in s : TRUE

\* sum[s] is the sum of w[x] over the elements x of s, for each s \subseteq S.
Sums(w, S, sum) ==
  sum = [s \in SUBSET S |-> IF s = {} THEN 0 ELSE w[Pick(s)] + sum[s \ {Pick(s)}]]

SumOver(w, S) == (CHOOSE sum : Sums(w, S, sum))[S]

\* A set of subsets has a smallest member.
LEMMA SmallestSubset ==
  ASSUME NEW S, IsFiniteSet(S), NEW T \in SUBSET SUBSET S, T # {}
  PROVE  \E m \in T : \A s \in T : s \subseteq m => s = m
<1>1. IsWellFoundedOn(StrictSubsetOrdering(S), SUBSET S)
  BY FS_StrictSubsetOrderingWellFounded, FS_FiniteSubsetsOfFinite
<1>2. PICK m \in T : \A s \in T : <<s, m>> \notin StrictSubsetOrdering(S)
  BY <1>1, WFMin
<1>3. ASSUME NEW s \in T, s \subseteq m, s # m PROVE FALSE
  <2>1. <<s, m>> \in StrictSubsetOrdering(S)
    BY <1>3 DEF StrictSubsetOrdering
  <2> QED BY <1>2, <2>1
<1> QED BY <1>3

LEMMA Picked ==
  ASSUME NEW s, s # {}
  PROVE  Pick(s) \in s /\ s \ {Pick(s)} \subseteq s /\ s \ {Pick(s)} # s
BY DEF Pick

LEMMA SumsOf ==
  ASSUME NEW w, NEW S, NEW sum, Sums(w, S, sum)
  PROVE  /\ sum[{}] = 0
         /\ \A s \in SUBSET S : s # {} => sum[s] = w[Pick(s)] + sum[s \ {Pick(s)}]
<1> DEFINE f(s) == IF s = {} THEN 0 ELSE w[Pick(s)] + sum[s \ {Pick(s)}]
<1>1. sum = [s \in SUBSET S |-> f(s)]
  BY DEF Sums
<1> HIDE DEF f
<1>2. \A s \in SUBSET S : sum[s] = f(s)
  BY <1>1
<1>3. {} \in SUBSET S
  OBVIOUS
<1> QED BY <1>2, <1>3 DEF f

SameOver(v, w, S) == \A x \in S : v[x] = w[x]

\* Two sums agree where they sum the same.
LEMMA SumsAgree ==
  ASSUME NEW v, NEW w, NEW S, NEW U, U \subseteq S, IsFiniteSet(U),
         NEW a, Sums(v, S, a), NEW b, Sums(w, U, b), SameOver(v, w, U)
  PROVE  \A s \in SUBSET U : a[s] = b[s]
<1> DEFINE T == {s \in SUBSET U : a[s] # b[s]}
<1>1. SUFFICES ASSUME T # {} PROVE FALSE
  OBVIOUS
<1>2. PICK m \in T : \A s \in T : s \subseteq m => s = m
  <2>1. T \in SUBSET SUBSET U
    OBVIOUS
  <2> HIDE DEF T
  <2> QED BY <1>1, <2>1, SmallestSubset
<1>3. m # {}
  BY SumsOf
<1>4. /\ a[m] = v[Pick(m)] + a[m \ {Pick(m)}]
      /\ b[m] = w[Pick(m)] + b[m \ {Pick(m)}]
  BY <1>3, SumsOf
<1>5. a[m \ {Pick(m)}] = b[m \ {Pick(m)}]
  BY <1>2, <1>3, Picked
<1>6. v[Pick(m)] = w[Pick(m)]
  BY <1>3, Picked DEF SameOver
<1> QED BY <1>4, <1>5, <1>6

LEMMA SumOfNone == ASSUME NEW w PROVE SumOver(w, {}) = 0
<1>1. Sums(w, {}, [s \in {{}} |-> 0])
  BY DEF Sums
<1>2. Sums(w, {}, CHOOSE sum : Sums(w, {}, sum))
  BY <1>1
<1> QED BY <1>2, SumsOf DEF SumOver

\* One element is added to a sum.
LEMMA SumUnfolds ==
  ASSUME NEW w, NEW S, IsFiniteSet(S), S # {},
         \E sum : Sums(w, S, sum), \E sum : Sums(w, S \ {Pick(S)}, sum)
  PROVE  SumOver(w, S) = w[Pick(S)] + SumOver(w, S \ {Pick(S)})
<1>1. PICK R : R = S \ {Pick(S)}
  OBVIOUS
<1>2. PICK total : Sums(w, S, total) /\ SumOver(w, S) = total[S]
  BY DEF SumOver
<1>3. PICK rest : Sums(w, R, rest) /\ SumOver(w, R) = rest[R]
  BY <1>1 DEF SumOver
<1>4. R \subseteq S /\ IsFiniteSet(R) /\ SameOver(w, w, R)
  BY <1>1, FS_Subset DEF SameOver
<1>5. \A s \in SUBSET R : total[s] = rest[s]
  BY <1>2, <1>3, <1>4, SumsAgree
<1>6. total[R] = rest[R]
  BY <1>5
<1>7. total[S] = w[Pick(S)] + total[R]
  BY <1>1, <1>2, SumsOf
<1> QED BY <1>1, <1>2, <1>3, <1>6, <1>7

\* There is a sum over every finite set.
LEMMA SumsExist ==
  ASSUME NEW w, NEW S, IsFiniteSet(S)
  PROVE  \E sum : Sums(w, S, sum)
<1> DEFINE T == {s \in SUBSET S : ~ \E sum : Sums(w, s, sum)}
<1>1. SUFFICES ASSUME T # {} PROVE FALSE
  <2>1. S \in SUBSET S
    OBVIOUS
  <2> QED BY <2>1
<1>2. PICK m \in T : \A s \in T : s \subseteq m => s = m
  <2>1. T \in SUBSET SUBSET S
    OBVIOUS
  <2> HIDE DEF T
  <2> QED BY <1>1, <2>1, SmallestSubset
<1>3. \A s \in SUBSET m : s # m => \E sum : Sums(w, s, sum)
  BY <1>2
<1> DEFINE sum == [s \in SUBSET m |-> IF s = {} THEN 0
                                      ELSE w[Pick(s)] + SumOver(w, s \ {Pick(s)})]
<1>4. ASSUME NEW s \in SUBSET m, s # m PROVE sum[s] = SumOver(w, s)
  <2>1. CASE s = {}
    BY <2>1, SumOfNone
  <2>2. CASE s # {}
    <3>1. s \ {Pick(s)} \in SUBSET m /\ s \ {Pick(s)} # m
      BY <1>4, <2>2, Picked
    <3>2. IsFiniteSet(s)
      BY FS_Subset
    <3>3. SumOver(w, s) = w[Pick(s)] + SumOver(w, s \ {Pick(s)})
      BY <1>3, <1>4, <2>2, <3>1, <3>2, SumUnfolds
    <3> QED BY <2>2, <3>3
  <2> QED BY <2>1, <2>2
<1>5. ASSUME NEW s \in SUBSET m, s # {}
      PROVE  SumOver(w, s \ {Pick(s)}) = sum[s \ {Pick(s)}]
  <2>1. s \ {Pick(s)} \in SUBSET m /\ s \ {Pick(s)} # m
    BY <1>5, Picked
  <2> HIDE DEF sum
  <2> QED BY <1>4, <2>1
<1>6. sum = [s \in SUBSET m |-> IF s = {} THEN 0 ELSE w[Pick(s)] + sum[s \ {Pick(s)}]]
  <2>1. \A s \in SUBSET m : (IF s = {} THEN 0 ELSE w[Pick(s)] + SumOver(w, s \ {Pick(s)}))
                          = (IF s = {} THEN 0 ELSE w[Pick(s)] + sum[s \ {Pick(s)}])
    <3> HIDE DEF sum
    <3> QED BY <1>5
  <2>2. PICK f : f = sum
    OBVIOUS
  <2>3. \A s \in SUBSET m : (IF s = {} THEN 0 ELSE w[Pick(s)] + SumOver(w, s \ {Pick(s)}))
                          = (IF s = {} THEN 0 ELSE w[Pick(s)] + f[s \ {Pick(s)}])
    BY <2>1, <2>2
  <2>4. f = [s \in SUBSET m |-> IF s = {} THEN 0 ELSE w[Pick(s)] + f[s \ {Pick(s)}]]
    BY <2>2, <2>3
  <2> QED BY <2>2, <2>4
<1>7. Sums(w, m, sum)
  <2> HIDE DEF sum
  <2> QED BY <1>6 DEF Sums
<1> QED BY <1>2, <1>7

\* Whatever sums w over S finds SumOver(w, S).
LEMMA SumIsUnique ==
  ASSUME NEW w, NEW S, IsFiniteSet(S), NEW sum, Sums(w, S, sum)
  PROVE  sum[S] = SumOver(w, S)
<1> DEFINE total == CHOOSE other : Sums(w, S, other)
<1>1. Sums(w, S, total)
  OBVIOUS
<1> HIDE DEF total
<1>2. S \subseteq S /\ SameOver(w, w, S)
  BY DEF SameOver
<1>3. sum[S] = total[S]
  BY <1>1, <1>2, SumsAgree
<1> QED BY <1>3 DEF SumOver, total

LEMMA SumStep ==
  ASSUME NEW w, NEW S, IsFiniteSet(S), S # {}
  PROVE  SumOver(w, S) = w[Pick(S)] + SumOver(w, S \ {Pick(S)})
BY FS_Subset, SumsExist, SumUnfolds

LEMMA SumType ==
  ASSUME NEW w, NEW S, IsFiniteSet(S), \A x \in S : w[x] \in Int
  PROVE  SumOver(w, S) \in Int
<1> DEFINE T == {s \in SUBSET S : SumOver(w, s) \notin Int}
<1>1. SUFFICES ASSUME T # {} PROVE FALSE
  <2>1. S \in SUBSET S
    OBVIOUS
  <2> QED BY <2>1
<1>2. PICK m \in T : \A s \in T : s \subseteq m => s = m
  <2>1. T \in SUBSET SUBSET S
    OBVIOUS
  <2> HIDE DEF T
  <2> QED BY <1>1, <2>1, SmallestSubset
<1>3. m # {}
  BY SumOfNone
<1>4. SumOver(w, m) = w[Pick(m)] + SumOver(w, m \ {Pick(m)})
  BY <1>3, FS_Subset, SumStep
<1>5. w[Pick(m)] \in Int /\ SumOver(w, m \ {Pick(m)}) \in Int
  BY <1>2, <1>3, Picked
<1> QED BY <1>4, <1>5

\* Any element may be the first: the order does not matter.
LEMMA SumWithout ==
  ASSUME NEW w, NEW S, IsFiniteSet(S), \A x \in S : w[x] \in Int, NEW x \in S
  PROVE  SumOver(w, S) = w[x] + SumOver(w, S \ {x})
<1> DEFINE Off(s) == \E y \in s : SumOver(w, s) # w[y] + SumOver(w, s \ {y})
           T == {s \in SUBSET S : Off(s)}
<1>1. SUFFICES ASSUME T # {} PROVE FALSE
  <2>1. S \in SUBSET S
    OBVIOUS
  <2> QED BY <2>1
<1>2. PICK m \in T : \A s \in T : s \subseteq m => s = m
  <2>1. T \in SUBSET SUBSET S
    OBVIOUS
  <2> HIDE DEF T
  <2> QED BY <1>1, <2>1, SmallestSubset
<1>3. PICK y \in m : SumOver(w, m) # w[y] + SumOver(w, m \ {y})
  OBVIOUS
<1> DEFINE p == Pick(m)
<1>4. SumOver(w, m) = w[p] + SumOver(w, m \ {p}) /\ p \in m
  BY <1>3, FS_Subset, SumStep, Picked
<1>5. y # p
  BY <1>3, <1>4
<1> HIDE DEF p
<1>6. SumOver(w, m \ {p}) = w[y] + SumOver(w, (m \ {p}) \ {y})
  BY <1>2, <1>4, <1>5
<1>7. SumOver(w, m \ {y}) = w[p] + SumOver(w, (m \ {y}) \ {p})
  BY <1>2, <1>4, <1>5
<1>8. (m \ {y}) \ {p} = (m \ {p}) \ {y}
  OBVIOUS
<1>9. w[y] \in Int /\ w[p] \in Int /\ SumOver(w, (m \ {p}) \ {y}) \in Int
  <2>1. (m \ {p}) \ {y} \in SUBSET S
    OBVIOUS
  <2>2. IsFiniteSet((m \ {p}) \ {y})
    BY <2>1, FS_Subset
  <2>3. \A z \in (m \ {p}) \ {y} : w[z] \in Int
    OBVIOUS
  <2> QED BY <1>4, <2>2, <2>3, SumType
<1>10. PICK a \in Int, b \in Int, rest \in Int :
         a = w[y] /\ b = w[p] /\ rest = SumOver(w, (m \ {p}) \ {y})
  BY <1>9
<1>11. SumOver(w, m) = b + (a + rest) /\ SumOver(w, m \ {y}) = b + rest
  BY <1>4, <1>6, <1>7, <1>8, <1>10
<1>12. SumOver(w, m) = w[y] + SumOver(w, m \ {y})
  BY <1>10, <1>11
<1> QED BY <1>3, <1>12
================================================================================
