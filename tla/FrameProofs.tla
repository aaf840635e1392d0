---------------------------- MODULE FrameProofs ----------------------------
(***************************************************************************)
(* What the operators of Frames compute, for every argument: first and     *)
(* last days, sums of weights over days, tickers and groups, fractions     *)
(* over their greatest common divisor, the order of scores, the best of a  *)
(* ranking, the sums and products of fractions in lowest terms, in any     *)
(* order, sets in order, and spells that take turns.  Inductions are over  *)
(* sets of numbers and of subsets.                                         *)
(***************************************************************************)
EXTENDS Frames, FiniteSetTheorems, WellFoundedInduction, TLAPS

-----------------------------------------------------------------------------
(* Days.                                                                   *)

\* Some days have a first one.
LEMMA FirstDay ==
  ASSUME NEW S \in SUBSET Nat, S # {}
  PROVE  Min(S) \in S /\ \A u \in S : Min(S) =< u
<1>. DEFINE less == {ss \in Nat \X Nat : ss[1] < ss[2]}
<1>1. IsWellFoundedOn(less, Nat)
  BY NatLessThanWellFounded DEF OpToRel
<1>2. PICK m \in S : \A k \in S : ~ (<<k, m>> \in less)
  <2>. HIDE DEF less
  <2>. QED
    BY <1>1, WFMin, Zenon
<1>3. \A k \in S : m =< k
  <2>. SUFFICES ASSUME NEW k \in S, k < m
                PROVE  FALSE
    OBVIOUS
  <2>1. <<k, m>> \in less
    OBVIOUS
  <2>. QED
    BY <1>2, <2>1
<1>. QED
  BY <1>3 DEF Min

\* Whole numbers up to a bound have a last one.
LEMMA LastOf ==
  ASSUME NEW n \in Int, NEW S \in SUBSET Int, S # {}, \A u \in S : u =< n
  PROVE  Max(S) \in S /\ \A u \in S : u =< Max(S)
<1>. DEFINE rest == {k \in Nat : n - k \in S}
<1>1. ASSUME NEW u \in S
      PROVE  n - u \in rest
  <2>1. n - u \in Nat /\ n - (n - u) = u
    OBVIOUS
  <2>. QED
    BY <2>1
<1>2. rest \in SUBSET Nat /\ rest # {}
  BY <1>1
<1>3. Min(rest) \in rest /\ \A k \in rest : Min(rest) =< k
  <2>. HIDE DEF rest
  <2>. QED
    BY <1>2, FirstDay
<1>4. ASSUME NEW u \in S
      PROVE  u =< n - Min(rest)
  <2>1. Min(rest) =< n - u /\ Min(rest) \in Nat
    BY <1>1, <1>3
  <2>. QED
    BY <2>1
<1>. DEFINE m == n - Min(rest)
<1>5. m \in S /\ \A u \in S : m >= u
  <2>1. Min(rest) \in Nat
    BY <1>3
  <2>. QED
    BY <1>3, <1>4, <2>1
<1>. HIDE DEF m
<1>. QED
  BY <1>5 DEF Max

\* And so do days.
LEMMA LastDay ==
  ASSUME NEW n \in Nat, NEW S \in SUBSET (1..n), S # {}
  PROVE  Max(S) \in S /\ \A u \in S : u =< Max(S)
<1>1. S \in SUBSET Int /\ n \in Int /\ \A u \in S : u =< n
  OBVIOUS
<1>2. \A T \in SUBSET Int : T # {} /\ (\A u \in T : u =< n) => Max(T) \in T /\ \A u \in T : u =< Max(T)
  BY <1>1, LastOf
<1>. QED
  BY <1>1, <1>2

\* What comes later does not move the first of some days.
LEMMA SameFirst ==
  ASSUME NEW n \in Nat, NEW S \in SUBSET Nat, NEW T \in SUBSET Nat, S # {}, S = T \cap (1..n), ~(0 \in T)
  PROVE  Min(T) = Min(S)
<1>1. Min(S) \in S /\ Min(T) \in T
  BY FirstDay
<1>2. (\A u \in S : Min(S) =< u) /\ \A u \in T : Min(T) =< u
  BY FirstDay
<1>3. Min(S) \in T /\ Min(S) \in 1..n
  BY <1>1
<1>4. Min(T) =< Min(S) /\ Min(T) \in Nat /\ Min(S) \in Nat
  BY <1>1, <1>2, <1>3
<1>5. Min(T) # 0
  BY <1>1
<1>6. Min(T) \in S
  BY <1>1, <1>3, <1>4, <1>5
<1>. QED
  BY <1>2, <1>4, <1>6

-----------------------------------------------------------------------------
(* Induction.                                                              *)

\* A set of numbers that has 0 and all successors has them all.
LEMMA SetInduction ==
  ASSUME NEW T \in SUBSET Nat, 0 \in T, \A n \in T : n + 1 \in T
  PROVE  \A n \in Nat : n \in T
<1>. SUFFICES ASSUME Nat \ T # {} PROVE FALSE
  OBVIOUS
<1>. DEFINE less == {ss \in Nat \X Nat : ss[1] < ss[2]}
<1>1. IsWellFoundedOn(less, Nat)
  BY NatLessThanWellFounded DEF OpToRel
<1>2. PICK m \in Nat \ T : \A k \in Nat \ T : ~ (<<k, m>> \in less)
  <2>. HIDE DEF less
  <2>. QED
    BY <1>1, WFMin, Zenon
<1>3. m - 1 \in Nat /\ m - 1 < m /\ (m - 1) + 1 = m
  OBVIOUS
<1>4. m - 1 \in T
  BY <1>2, <1>3
<1>. QED
  BY <1>3, <1>4

\* A set of subsets of a finite set that has the empty one, and with each
\* those with one more element, has them all.
LEMMA SubsetInduction ==
  ASSUME NEW U, IsFiniteSet(U), NEW P \in SUBSET (SUBSET U), {} \in P,
         \A D \in P : \A x \in U \ D : D \cup {x} \in P
  PROVE  \A D \in SUBSET U : D \in P
<1>. DEFINE T == {n \in Nat : \A D \in SUBSET U : Cardinality(D) = n => D \in P}
<1>1. \A D \in SUBSET U : IsFiniteSet(D) /\ Cardinality(D) \in Nat
  BY FS_Subset, FS_CardinalityType
<1>2. 0 \in T
  <2>1. \A D \in SUBSET U : Cardinality(D) = 0 => D = {}
    BY <1>1, FS_EmptySet
  <2>. QED
    BY <2>1
<1>3. ASSUME NEW n \in T PROVE n + 1 \in T
  <2>. SUFFICES ASSUME NEW D \in SUBSET U, Cardinality(D) = n + 1
                PROVE  D \in P
    OBVIOUS
  <2>1. D # {}
    BY <1>1, FS_EmptySet
  <2>2. PICK x \in D : TRUE
    BY <2>1
  <2>3. Cardinality(D \ {x}) = Cardinality(D) - 1
    BY <1>1, FS_RemoveElement
  <2>4. D \ {x} \in P
    BY <2>3
  <2>5. (D \ {x}) \cup {x} = D /\ x \in U \ (D \ {x})
    OBVIOUS
  <2>. QED
    BY <2>4, <2>5
<1>. HIDE DEF T
<1>4. \A n \in Nat : n \in T
  <2>1. T \in SUBSET Nat
    BY DEF T
  <2>. QED
    BY <1>2, <1>3, <2>1, SetInduction
<1>. QED
  BY <1>1, <1>4 DEF T

-----------------------------------------------------------------------------
(* Sums.                                                                   *)

\* The element a sum adds first, and tables of the sums over some sets.
First(s) == CHOOSE x \in s : TRUE
Sums(i, f, U) ==
  \A s \in SUBSET U : i[s] = IF s = {} THEN 0 ELSE f[First(s)] + i[s \ {First(s)}]

\* Finite sets have such a table.
LEMMA SumsExist ==
  ASSUME NEW U, IsFiniteSet(U), NEW f
  PROVE  \E i : Sums(i, f, U)
<1>. DEFINE next(i, s) == IF s = {} THEN 0 ELSE f[First(s)] + i[s \ {First(s)}]
            T == {n \in Nat : \E i : \A s \in SUBSET U : Cardinality(s) =< n => i[s] = next(i, s)}
<1>1. \A s \in SUBSET U : IsFiniteSet(s) /\ Cardinality(s) \in Nat
  BY FS_Subset, FS_CardinalityType
<1>2. \A s \in SUBSET U : s # {} =>
        First(s) \in s /\ s \ {First(s)} \in SUBSET U /\ Cardinality(s \ {First(s)}) = Cardinality(s) - 1
  BY <1>1, FS_RemoveElement DEF First
<1>3. 0 \in T
  <2>. DEFINE i == [s \in SUBSET U |-> 0]
  <2>1. \A s \in SUBSET U : Cardinality(s) =< 0 => s = {}
    BY <1>1, FS_EmptySet
  <2>2. \A s \in SUBSET U : Cardinality(s) =< 0 => i[s] = next(i, s)
    BY <2>1
  <2>. QED
    BY <2>2
<1>4. ASSUME NEW n \in T PROVE n + 1 \in T
  <2>1. PICK old : \A s \in SUBSET U : Cardinality(s) =< n => old[s] = next(old, s)
    OBVIOUS
  <2>. DEFINE new == [s \in SUBSET U |-> IF Cardinality(s) =< n THEN old[s] ELSE next(old, s)]
  <2>2. ASSUME NEW s \in SUBSET U, Cardinality(s) =< n + 1
        PROVE  new[s] = next(new, s)
    <3>1. CASE s = {}
      BY <2>1, <3>1
    <3>2. CASE s # {}
      <4>1. Cardinality(s \ {First(s)}) =< n /\ s \ {First(s)} \in SUBSET U
        BY <1>1, <1>2, <2>2, <3>2
      <4>2. new[s \ {First(s)}] = old[s \ {First(s)}]
        BY <4>1
      <4>3. new[s] = next(old, s)
        BY <2>1
      <4>. QED
        BY <3>2, <4>2, <4>3
    <3>. QED
      BY <3>1, <3>2
  <2>. HIDE DEF new, next
  <2>. QED
    BY <2>2
<1>. HIDE DEF T
<1>5. Cardinality(U) \in T
  <2>1. T \in SUBSET Nat
    BY DEF T
  <2>2. \A n \in Nat : n \in T
    BY <1>3, <1>4, <2>1, SetInduction
  <2>. QED
    BY <1>1, <2>2
<1>6. \A s \in SUBSET U : Cardinality(s) =< Cardinality(U)
  BY FS_Subset
<1>. QED
  BY <1>5, <1>6 DEF T, Sums

\* And only one.
LEMMA SumsUnique ==
  ASSUME NEW U, IsFiniteSet(U), NEW f, NEW g, \A x \in U : f[x] = g[x],
         NEW i, NEW j, Sums(i, f, U), Sums(j, g, U)
  PROVE  \A s \in SUBSET U : i[s] = j[s]
<1>. DEFINE T == {n \in Nat : \A s \in SUBSET U : Cardinality(s) = n => i[s] = j[s]}
<1>1. \A s \in SUBSET U : IsFiniteSet(s) /\ Cardinality(s) \in Nat
  BY FS_Subset, FS_CardinalityType
<1>2. \A s \in SUBSET U : s # {} =>
        First(s) \in s /\ s \ {First(s)} \in SUBSET U /\ Cardinality(s \ {First(s)}) = Cardinality(s) - 1
  BY <1>1, FS_RemoveElement DEF First
<1>3. 0 \in T
  <2>1. \A s \in SUBSET U : Cardinality(s) = 0 => s = {}
    BY <1>1, FS_EmptySet
  <2>. QED
    BY <2>1 DEF Sums
<1>4. ASSUME NEW n \in T PROVE n + 1 \in T
  <2>. SUFFICES ASSUME NEW s \in SUBSET U, Cardinality(s) = n + 1
                PROVE  i[s] = j[s]
    OBVIOUS
  <2>1. s # {}
    BY FS_EmptySet
  <2>2. i[s \ {First(s)}] = j[s \ {First(s)}]
    BY <1>2, <2>1
  <2>3. f[First(s)] = g[First(s)]
    BY <1>2, <2>1
  <2>. QED
    BY <2>1, <2>2, <2>3 DEF Sums
<1>. HIDE DEF T
<1>5. \A n \in Nat : n \in T
  <2>1. T \in SUBSET Nat
    BY DEF T
  <2>. QED
    BY <1>3, <1>4, <2>1, SetInduction
<1>. QED
  BY <1>1, <1>5 DEF T

\* A sum is what the table of its indices says of all of them.
LEMMA SumIsTabled ==
  ASSUME NEW U, IsFiniteSet(U), NEW f, NEW i, Sums(i, f, U), NEW D \in SUBSET U
  PROVE  SumFunctionOnSet(f, D) = i[D]
<1>. DEFINE F(j) == [s \in SUBSET D |-> IF s = {} THEN 0 ELSE f[First(s)] + j[s \ {First(s)}]]
            iter == CHOOSE j : j = F(j)
            mine == [s \in SUBSET D |-> i[s]]
<1>1. SumFunctionOnSet(f, D) = iter[D]
  BY DEF SumFunctionOnSet, FoldFunctionOnSet, MapThenFoldSet, First
<1>2. mine = F(mine)
  <2>1. ASSUME NEW s \in SUBSET D
        PROVE  mine[s] = F(mine)[s]
    <3>1. s # {} => s \ {First(s)} \in SUBSET D
      OBVIOUS
    <3>. QED
      BY <3>1 DEF Sums
  <2>. QED
    BY <2>1
<1>3. iter = F(iter)
  <2>. HIDE DEF F, mine
  <2>. QED
    BY <1>2
<1>4. Sums(iter, f, D)
  <2>. HIDE DEF iter
  <2>. QED
    BY <1>3 DEF Sums
<1>5. Sums(mine, f, D)
  <2>. HIDE DEF mine
  <2>. QED
    BY <1>2 DEF Sums
<1>6. IsFiniteSet(D)
  BY FS_Subset
<1>7. iter[D] = mine[D]
  <2>. HIDE DEF iter, mine
  <2>. QED
    BY <1>4, <1>5, <1>6, SumsUnique
<1>. QED
  BY <1>1, <1>7

\* Nothing adds up to nothing.
LEMMA SumOfNone ==
  ASSUME NEW f
  PROVE  SumFunctionOnSet(f, {}) = 0
<1>1. PICK i : Sums(i, f, {})
  BY SumsExist, FS_EmptySet
<1>2. SumFunctionOnSet(f, {}) = i[{}]
  BY <1>1, SumIsTabled, FS_EmptySet
<1>3. i[{}] = 0
  BY <1>1 DEF Sums
<1>. QED
  BY <1>2, <1>3

\* Tables of sums of numbers hold numbers.
LEMMA SumsAreWhole ==
  ASSUME NEW U, IsFiniteSet(U), NEW f, \A x \in U : f[x] \in Int, NEW i, Sums(i, f, U)
  PROVE  \A s \in SUBSET U : i[s] \in Int
<1>. DEFINE T == {n \in Nat : \A s \in SUBSET U : Cardinality(s) = n => i[s] \in Int}
<1>1. \A s \in SUBSET U : IsFiniteSet(s) /\ Cardinality(s) \in Nat
  BY FS_Subset, FS_CardinalityType
<1>2. \A s \in SUBSET U : s # {} =>
        First(s) \in s /\ s \ {First(s)} \in SUBSET U /\ Cardinality(s \ {First(s)}) = Cardinality(s) - 1
  BY <1>1, FS_RemoveElement DEF First
<1>3. 0 \in T
  <2>1. \A s \in SUBSET U : Cardinality(s) = 0 => s = {}
    BY <1>1, FS_EmptySet
  <2>2. i[{}] = 0
    BY DEF Sums
  <2>. QED
    BY <2>1, <2>2
<1>4. ASSUME NEW n \in T PROVE n + 1 \in T
  <2>. SUFFICES ASSUME NEW s \in SUBSET U, Cardinality(s) = n + 1
                PROVE  i[s] \in Int
    OBVIOUS
  <2>1. s # {}
    <3>1. n \in Nat /\ n + 1 # 0
      OBVIOUS
    <3>2. Cardinality({}) = 0
      BY FS_EmptySet
    <3>. QED
      BY <3>1, <3>2
  <2>2. i[s \ {First(s)}] \in Int /\ f[First(s)] \in Int
    BY <1>2, <2>1
  <2>3. i[s] = f[First(s)] + i[s \ {First(s)}]
    BY <2>1 DEF Sums
  <2>. QED
    BY <2>2, <2>3
<1>. HIDE DEF T
<1>5. \A n \in Nat : n \in T
  <2>1. T \in SUBSET Nat
    BY DEF T
  <2>. QED
    BY <1>3, <1>4, <2>1, SetInduction
<1>. QED
  BY <1>1, <1>5 DEF T

\* A sum of numbers is one of its terms and the sum of the others, whichever
\* term that is.
LEMMA SumOfOneMore ==
  ASSUME NEW D, IsFiniteSet(D), NEW f, \A x \in D : f[x] \in Int, NEW x \in D
  PROVE  SumFunctionOnSet(f, D) = f[x] + SumFunctionOnSet(f, D \ {x})
<1>1. PICK i : Sums(i, f, D)
  BY SumsExist
<1>2. \A s \in SUBSET D : SumFunctionOnSet(f, s) = i[s] /\ i[s] \in Int
  BY <1>1, SumIsTabled, SumsAreWhole
<1>3. \A s \in SUBSET D : IsFiniteSet(s) /\ Cardinality(s) \in Nat
  BY FS_Subset, FS_CardinalityType
<1>4. \A s \in SUBSET D : \A y \in s :
        s \ {y} \in SUBSET D /\ Cardinality(s \ {y}) = Cardinality(s) - 1
  BY <1>3, FS_RemoveElement
<1>5. \A s \in SUBSET D : s # {} => First(s) \in s /\ i[s] = f[First(s)] + i[s \ {First(s)}]
  BY <1>1 DEF Sums, First
<1>. DEFINE T == {n \in Nat : \A s \in SUBSET D : Cardinality(s) = n =>
                                \A y \in s : i[s] = f[y] + i[s \ {y}]}
<1>6. 0 \in T
  <2>1. \A s \in SUBSET D : Cardinality(s) = 0 => s = {}
    BY <1>3, FS_EmptySet
  <2>. QED
    BY <2>1
<1>7. ASSUME NEW n \in T PROVE n + 1 \in T
  <2>. SUFFICES ASSUME NEW s \in SUBSET D, Cardinality(s) = n + 1, NEW y \in s
                PROVE  i[s] = f[y] + i[s \ {y}]
    OBVIOUS
  <2>. DEFINE z == First(s)
  <2>1. z \in s /\ i[s] = f[z] + i[s \ {z}]
    BY <1>5
  <2>. HIDE DEF z
  <2>2. CASE y = z
    BY <2>1, <2>2
  <2>3. CASE y # z
    <3>1. z \in s \ {y} /\ y \in s \ {z}
      BY <2>1, <2>3
    <3>2. /\ Cardinality(s \ {y}) = n /\ s \ {y} \in SUBSET D
          /\ Cardinality(s \ {z}) = n /\ s \ {z} \in SUBSET D
      BY <1>4, <2>1
    <3>3. i[s \ {y}] = f[z] + i[(s \ {y}) \ {z}] /\ i[s \ {z}] = f[y] + i[(s \ {z}) \ {y}]
      BY <3>1, <3>2
    <3>4. (s \ {y}) \ {z} = (s \ {z}) \ {y} /\ i[(s \ {y}) \ {z}] \in Int
      BY <1>2
    <3>5. f[y] \in Int /\ f[z] \in Int
      BY <2>1
    <3>6. i[s] = f[z] + (f[y] + i[(s \ {y}) \ {z}])
      BY <2>1, <3>3, <3>4
    <3>7. f[y] + i[s \ {y}] = f[y] + (f[z] + i[(s \ {y}) \ {z}])
      BY <3>3
    <3>. QED
      BY <3>4, <3>5, <3>6, <3>7
  <2>. QED
    BY <2>2, <2>3
<1>. HIDE DEF T
<1>8. \A n \in Nat : n \in T
  <2>1. T \in SUBSET Nat
    BY DEF T
  <2>. QED
    BY <1>6, <1>7, <2>1, SetInduction
<1>9. i[D] = f[x] + i[D \ {x}]
  BY <1>3, <1>8 DEF T
<1>. QED
  BY <1>2, <1>9

\* So it can be taken apart one element after the other.
LEMMA SumGrows ==
  ASSUME NEW U, IsFiniteSet(U), NEW f, \A x \in U : f[x] \in Int
  PROVE  \A D \in SUBSET U :
           /\ SumFunctionOnSet(f, D) \in Int
           /\ \A x \in U \ D : SumFunctionOnSet(f, D \cup {x}) = f[x] + SumFunctionOnSet(f, D)
<1>. SUFFICES ASSUME NEW D \in SUBSET U
              PROVE  /\ SumFunctionOnSet(f, D) \in Int
                     /\ \A x \in U \ D : SumFunctionOnSet(f, D \cup {x}) = f[x] + SumFunctionOnSet(f, D)
  OBVIOUS
<1>1. SumFunctionOnSet(f, D) \in Int
  <2>1. PICK i : Sums(i, f, U)
    BY SumsExist
  <2>. QED
    BY <2>1, SumIsTabled, SumsAreWhole
<1>2. ASSUME NEW x \in U \ D
      PROVE  SumFunctionOnSet(f, D \cup {x}) = f[x] + SumFunctionOnSet(f, D)
  <2>1. D \cup {x} \subseteq U /\ (D \cup {x}) \ {x} = D /\ x \in D \cup {x}
    OBVIOUS
  <2>2. IsFiniteSet(D \cup {x}) /\ \A y \in D \cup {x} : f[y] \in Int
    BY <2>1, FS_Subset
  <2>. HIDE DEF SumFunctionOnSet
  <2>. QED
    BY <2>1, <2>2, SumOfOneMore
<1>. QED
  BY <1>1, <1>2

\* Sums of terms that are the same are the same.
LEMMA SameSum ==
  ASSUME NEW D, IsFiniteSet(D), NEW f, NEW g, \A x \in D : f[x] = g[x]
  PROVE  SumFunctionOnSet(f, D) = SumFunctionOnSet(g, D)
<1>1. PICK i : Sums(i, f, D)
  BY SumsExist
<1>2. PICK j : Sums(j, g, D)
  BY SumsExist
<1>3. SumFunctionOnSet(f, D) = i[D] /\ SumFunctionOnSet(g, D) = j[D]
  BY <1>1, <1>2, SumIsTabled
<1>. QED
  BY <1>1, <1>2, <1>3, SumsUnique

\* Sums add up.
LEMMA SumOfSums ==
  ASSUME NEW U, IsFiniteSet(U), NEW f, NEW g, NEW h,
         \A x \in U : f[x] \in Int /\ g[x] \in Int /\ h[x] = f[x] + g[x]
  PROVE  SumFunctionOnSet(h, U) = SumFunctionOnSet(f, U) + SumFunctionOnSet(g, U)
<1>. DEFINE P == {D \in SUBSET U : SumFunctionOnSet(h, D) = SumFunctionOnSet(f, D) + SumFunctionOnSet(g, D)}
<1>1. {} \in P
  <2>1. \A e : SumFunctionOnSet(e, {}) = 0
    BY SumOfNone
  <2>. QED
    BY <2>1
<1>2. ASSUME NEW D \in P, NEW x \in U \ D
      PROVE  D \cup {x} \in P
  <2>1. \A y \in U : h[y] \in Int
    OBVIOUS
  <2>2. /\ SumFunctionOnSet(f, D) \in Int /\ SumFunctionOnSet(f, D \cup {x}) = f[x] + SumFunctionOnSet(f, D)
        /\ SumFunctionOnSet(g, D) \in Int /\ SumFunctionOnSet(g, D \cup {x}) = g[x] + SumFunctionOnSet(g, D)
        /\ SumFunctionOnSet(h, D \cup {x}) = h[x] + SumFunctionOnSet(h, D)
    BY <2>1, SumGrows
  <2>3. f[x] \in Int /\ g[x] \in Int /\ h[x] = f[x] + g[x]
    OBVIOUS
  <2>4. SumFunctionOnSet(h, D \cup {x}) = SumFunctionOnSet(f, D \cup {x}) + SumFunctionOnSet(g, D \cup {x})
    BY <2>2, <2>3
  <2>. QED
    BY <2>4
<1>. HIDE DEF P
<1>3. U \in P
  <2>1. P \in SUBSET (SUBSET U)
    BY DEF P
  <2>. QED
    BY <1>1, <1>2, <2>1, SubsetInduction
<1>. QED
  BY <1>3 DEF P

\* A sum of smaller terms is smaller.
LEMMA SumRises ==
  ASSUME NEW U, IsFiniteSet(U), NEW f, NEW g, \A x \in U : f[x] \in Int /\ g[x] \in Int /\ f[x] =< g[x]
  PROVE  SumFunctionOnSet(f, U) =< SumFunctionOnSet(g, U)
<1>. DEFINE P == {D \in SUBSET U : SumFunctionOnSet(f, D) =< SumFunctionOnSet(g, D)}
<1>1. {} \in P
  <2>1. \A e : SumFunctionOnSet(e, {}) = 0
    BY SumOfNone
  <2>. QED
    BY <2>1
<1>2. ASSUME NEW D \in P, NEW x \in U \ D
      PROVE  D \cup {x} \in P
  <2>1. /\ SumFunctionOnSet(f, D) \in Int /\ SumFunctionOnSet(f, D \cup {x}) = f[x] + SumFunctionOnSet(f, D)
        /\ SumFunctionOnSet(g, D) \in Int /\ SumFunctionOnSet(g, D \cup {x}) = g[x] + SumFunctionOnSet(g, D)
    BY SumGrows
  <2>2. f[x] \in Int /\ g[x] \in Int /\ f[x] =< g[x]
    OBVIOUS
  <2>3. SumFunctionOnSet(f, D) =< SumFunctionOnSet(g, D)
    OBVIOUS
  <2>4. SumFunctionOnSet(f, D \cup {x}) =< SumFunctionOnSet(g, D \cup {x})
    BY <2>1, <2>2, <2>3
  <2>. QED
    BY <2>4
<1>. HIDE DEF P
<1>3. U \in P
  <2>1. P \in SUBSET (SUBSET U)
    BY DEF P
  <2>. QED
    BY <1>1, <1>2, <2>1, SubsetInduction
<1>. QED
  BY <1>3 DEF P

\* A sum of terms that are the same number.
LEMMA SumOfSame ==
  ASSUME NEW U, IsFiniteSet(U), NEW c \in Int, NEW f, \A x \in U : f[x] = c
  PROVE  SumFunctionOnSet(f, U) = Cardinality(U) * c
<1>. DEFINE P == {D \in SUBSET U : SumFunctionOnSet(f, D) = Cardinality(D) * c}
<1>1. {} \in P
  <2>1. SumFunctionOnSet(f, {}) = 0 /\ Cardinality({}) = 0
    BY SumOfNone, FS_EmptySet
  <2>2. SumFunctionOnSet(f, {}) = Cardinality({}) * c
    BY <2>1
  <2>. QED
    BY <2>2
<1>2. ASSUME NEW D \in P, NEW x \in U \ D
      PROVE  D \cup {x} \in P
  <2>1. SumFunctionOnSet(f, D \cup {x}) = f[x] + SumFunctionOnSet(f, D)
    BY SumGrows
  <2>2. IsFiniteSet(D) /\ Cardinality(D) \in Nat
    BY FS_Subset, FS_CardinalityType
  <2>3. Cardinality(D \cup {x}) = Cardinality(D) + 1
    BY <2>2, FS_AddElement
  <2>4. SumFunctionOnSet(f, D) = Cardinality(D) * c /\ f[x] = c
    OBVIOUS
  <2>5. (Cardinality(D) + 1) * c = c + Cardinality(D) * c
    <3>1. \A k \in Nat : (k + 1) * c = c + k * c
      OBVIOUS
    <3>. QED
      BY <2>2, <3>1
  <2>6. SumFunctionOnSet(f, D \cup {x}) = Cardinality(D \cup {x}) * c
    BY <2>1, <2>3, <2>4, <2>5
  <2>. QED
    BY <2>6
<1>. HIDE DEF P
<1>3. U \in P
  <2>1. P \in SUBSET (SUBSET U)
    BY DEF P
  <2>. QED
    BY <1>1, <1>2, <2>1, SubsetInduction
<1>. QED
  BY <1>3 DEF P

\* Zeros do not count.
LEMMA SumWithoutZeros ==
  ASSUME NEW U, IsFiniteSet(U), NEW f, \A x \in U : f[x] \in Int, NEW S \in SUBSET U, \A x \in U \ S : f[x] = 0
  PROVE  SumFunctionOnSet(f, U) = SumFunctionOnSet(f, S)
<1>. DEFINE P == {D \in SUBSET U : SumFunctionOnSet(f, D) = SumFunctionOnSet(f, D \cap S)}
<1>1. {} \in P
  <2>1. {} \cap S = {}
    OBVIOUS
  <2>. QED
    BY <2>1
<1>2. ASSUME NEW D \in P, NEW x \in U \ D
      PROVE  D \cup {x} \in P
  <2>. DEFINE s(E) == SumFunctionOnSet(f, E)
  <2>0. \A E \in SUBSET U : s(E) \in Int /\ \A y \in U \ E : s(E \cup {y}) = f[y] + s(E)
    BY SumGrows
  <2>d. D \in SUBSET U /\ s(D) = s(D \cap S)
    OBVIOUS
  <2>g. ASSUME s(D \cup {x}) = s((D \cup {x}) \cap S)
        PROVE  D \cup {x} \in P
    BY <2>g, <2>d
  <2>. HIDE DEF s, P
  <2>1. s(D \cup {x}) = f[x] + s(D) /\ s(D) \in Int
    BY <2>0, <2>d
  <2>2. CASE x \in S
    <3>1. (D \cup {x}) \cap S = (D \cap S) \cup {x} /\ D \cap S \in SUBSET U /\ x \in U \ (D \cap S)
      BY <2>2, <2>d
    <3>2. s((D \cap S) \cup {x}) = f[x] + s(D \cap S)
      BY <3>1, <2>0
    <3>. QED
      BY <2>1, <2>d, <2>g, <3>1, <3>2
  <2>3. CASE ~(x \in S)
    <3>1. (D \cup {x}) \cap S = D \cap S /\ f[x] = 0
      BY <2>3
    <3>2. s((D \cup {x}) \cap S) = s(D \cap S)
      BY <3>1, Zenon
    <3>3. s(D \cup {x}) = s(D)
      BY <2>1, <3>1
    <3>. QED
      BY <2>d, <2>g, <3>2, <3>3
  <2>. QED
    BY <2>2, <2>3
<1>. HIDE DEF P
<1>3. U \in P
  <2>1. P \in SUBSET (SUBSET U)
    BY DEF P
  <2>. QED
    BY <1>1, <1>2, <2>1, SubsetInduction
<1>4. U \cap S = S
  OBVIOUS
<1>. QED
  BY <1>3, <1>4 DEF P

\* The quotient, times the divisor, is at most the dividend.
LEMMA Quotient ==
  ASSUME NEW n \in Nat, NEW c \in Nat \ {0}
  PROVE  n \div c \in Nat /\ c * (n \div c) =< n
OBVIOUS

\* Some of the equal parts of an amount are not more than the amount.
LEMMA SplitFits ==
  ASSUME NEW U, IsFiniteSet(U), NEW S, IsFiniteSet(S), NEW amount \in Nat
  PROVE  /\ \A x \in U : EqualSplit(S, amount, x) \in Nat
         /\ SumFunction([x \in U |-> EqualSplit(S, amount, x)]) =< amount
<1>. DEFINE f == [x \in U |-> EqualSplit(S, amount, x)]
            c == Cardinality(S)
            both == U \cap S
<1>1. c \in Nat /\ (S # {} => c # 0)
  BY FS_CardinalityType, FS_EmptySet
<1>2. S # {} => amount \div c \in Nat /\ c * (amount \div c) =< amount
  BY <1>1, Quotient
<1>3. \A x \in U : f[x] \in Nat
  BY <1>2 DEF EqualSplit
<1>4. SumFunction(f) = SumFunctionOnSet(f, U)
  BY DEF SumFunction, SumFunctionOnSet, FoldFunction
<1>5. SumFunctionOnSet(f, U) = SumFunctionOnSet(f, both)
  <2>1. \A x \in U \ both : f[x] = 0
    BY DEF EqualSplit
  <2>2. (\A x \in U : f[x] \in Int) /\ both \in SUBSET U
    BY <1>3
  <2>. HIDE DEF f, both
  <2>. QED
    BY <2>1, <2>2, SumWithoutZeros
<1>6. ASSUME both = {}
      PROVE  SumFunctionOnSet(f, both) =< amount
  BY <1>6, SumOfNone
<1>7. ASSUME both # {}
      PROVE  SumFunctionOnSet(f, both) =< amount
  <2>1. amount \div c \in Nat /\ c * (amount \div c) =< amount
    BY <1>2, <1>7
  <2>2. \A x \in both : f[x] = amount \div c
    BY DEF EqualSplit
  <2>3. IsFiniteSet(both) /\ Cardinality(both) =< c /\ Cardinality(both) \in Nat
    BY FS_Subset, FS_CardinalityType
  <2>. DEFINE q == amount \div c
              b == Cardinality(both)
  <2>4. SumFunctionOnSet(f, both) = b * q
    <3>1. q \in Int
      BY <2>1
    <3>. HIDE DEF f, both, q
    <3>. QED
      BY <2>2, <2>3, <3>1, SumOfSame DEF q
  <2>5. b * q =< c * q
    <3>1. b \in Nat /\ c \in Nat /\ q \in Nat /\ b =< c
      BY <1>1, <2>1, <2>3
    <3>. HIDE DEF b, c, q
    <3>. QED
      BY <3>1
  <2>6. b * q \in Int /\ c * q \in Int
    BY <1>1, <2>1, <2>3
  <2>. HIDE DEF b, f
  <2>. QED
    BY <2>1, <2>4, <2>5, <2>6
<1>8. SumFunction(f) =< amount
  BY <1>4, <1>5, <1>6, <1>7
<1>. QED
  BY <1>3, <1>8

-----------------------------------------------------------------------------
(* Divisors: fractions over different denominators are compared over a     *)
(* common one.                                                             *)

Divides(k, a) == \E q \in Int : a = k * q
Common(a, b) == {k \in Nat \ {0} : Divides(k, a) /\ Divides(k, b)}

\* The equation of Euclid's algorithm.
Euclid(f) ==
  [p \in Nat \X Nat |-> IF p[2] = 0 THEN p[1] ELSE f[<<p[2], p[1] % p[2]>>]]

\* Dividing with a remainder.
LEMMA Remainder ==
  ASSUME NEW a \in Nat, NEW b \in Nat \ {0}
  PROVE  a % b \in 0..b - 1 /\ a \div b \in Nat /\ a = b * (a \div b) + (a % b)
<1>1. a % b \in 0..b - 1
  OBVIOUS
<1>2. a \div b \in Nat
  OBVIOUS
<1>3. a = b * (a \div b) + (a % b)
  OBVIOUS
<1>. QED
  BY <1>1, <1>2, <1>3

\* A number and its divisor have the divisors of the divisor and the rest.
LEMMA CommonRest ==
  ASSUME NEW a \in Nat, NEW b \in Nat \ {0}
  PROVE  Common(b, a % b) = Common(a, b)
<1>. DEFINE r == a % b
            v == a \div b
<1>1. r \in Nat /\ v \in Nat /\ a = b * v + r
  BY Remainder
<1>. HIDE DEF r, v
<1>2. ASSUME NEW k \in Nat \ {0}, Divides(k, b), Divides(k, r)
      PROVE  Divides(k, a)
  <2>1. PICK p \in Int : b = k * p
    BY <1>2 DEF Divides
  <2>2. PICK q \in Int : r = k * q
    BY <1>2 DEF Divides
  <2>3. a = (k * p) * v + k * q
    BY <1>1, <2>1, <2>2
  <2>4. (k * p) * v + k * q = k * (p * v + q)
    BY <1>1
  <2>5. p * v + q \in Int
    BY <1>1
  <2>. QED
    BY <2>3, <2>4, <2>5 DEF Divides
<1>3. ASSUME NEW k \in Nat \ {0}, Divides(k, a), Divides(k, b)
      PROVE  Divides(k, r)
  <2>1. PICK p \in Int : a = k * p
    BY <1>3 DEF Divides
  <2>2. PICK q \in Int : b = k * q
    BY <1>3 DEF Divides
  <2>3. r = k * p - (k * q) * v
    BY <1>1, <2>1, <2>2
  <2>4. k * p - (k * q) * v = k * (p - q * v)
    BY <1>1
  <2>5. p - q * v \in Int
    BY <1>1
  <2>. QED
    BY <2>3, <2>4, <2>5 DEF Divides
<1>. QED
  BY <1>2, <1>3 DEF Common, r

\* There is a greatest common divisor.
LEMMA GreatestCommon ==
  ASSUME NEW a \in Nat, NEW b \in Nat \ {0}
  PROVE  Max(Common(a, b)) \in Common(a, b) /\ \A k \in Common(a, b) : k =< Max(Common(a, b)) /\ k =< b
<1>1. 1 \in Common(a, b)
  BY DEF Common, Divides
<1>2. ASSUME NEW k \in Common(a, b)
      PROVE  k =< b
  <2>1. PICK q \in Int : b = k * q
    BY DEF Common, Divides
  <2>2. k \in Nat \ {0}
    BY DEF Common
  <2>3. q > 0
    <3>1. q =< 0 => k * q =< 0
      BY <2>2
    <3>. QED
      BY <2>1, <3>1
  <2>4. k * q >= k
    BY <2>2, <2>3
  <2>. QED
    BY <2>1, <2>4
<1>3. Common(a, b) \in SUBSET Int
  BY DEF Common
<1>4. \A T \in SUBSET Int : T # {} /\ (\A u \in T : u =< b) => Max(T) \in T /\ \A u \in T : u =< Max(T)
  <2>1. b \in Int
    OBVIOUS
  <2>. QED
    BY <2>1, LastOf
<1>. QED
  BY <1>1, <1>2, <1>3, <1>4

\* Euclid's algorithm computes something.
LEMMA EuclidSolvable == \E f : f = Euclid(f)
<1>. DEFINE f == [p \in Nat \X Nat |-> IF p[2] = 0 THEN p[1] ELSE Max(Common(p[1], p[2]))]
<1>1. ASSUME NEW p \in Nat \X Nat
      PROVE  f[p] = Euclid(f)[p]
  <2>1. CASE p[2] = 0
    BY <2>1 DEF Euclid
  <2>2. CASE p[2] # 0
    <3>. DEFINE a == p[1]
                b == p[2]
    <3>1. a \in Nat /\ b \in Nat \ {0}
      BY <2>2
    <3>2. a % b \in Nat
      BY <3>1, Remainder
    <3>3. f[p] = Max(Common(a, b)) /\ Euclid(f)[p] = f[<<b, a % b>>]
      BY <2>2 DEF Euclid
    <3>4. CASE a % b = 0
      <4>1. f[<<b, a % b>>] = b
        BY <3>1, <3>4
      <4>2. b \in Common(b, a % b)
        <5>1. b = b * 1 /\ a % b = b * 0
          BY <3>1, <3>4
        <5>. QED
          BY <3>1, <5>1 DEF Common, Divides
      <4>3. b \in Common(a, b)
        BY <3>1, <4>2, CommonRest
      <4>4. Max(Common(a, b)) \in Common(a, b) /\ \A k \in Common(a, b) : k =< Max(Common(a, b)) /\ k =< b
        BY <3>1, GreatestCommon
      <4>5. Max(Common(a, b)) =< b /\ b =< Max(Common(a, b)) /\ Max(Common(a, b)) \in Nat
        BY <4>3, <4>4 DEF Common
      <4>. HIDE DEF a, b, f
      <4>. QED
        BY <3>1, <3>3, <4>1, <4>5
    <3>5. CASE a % b # 0
      <4>1. f[<<b, a % b>>] = Max(Common(b, a % b))
        BY <3>1, <3>2, <3>5
      <4>. QED
        BY <3>1, <3>3, <4>1, CommonRest
    <3>. QED
      BY <3>4, <3>5
  <2>. QED
    BY <2>1, <2>2
<1>2. f = Euclid(f)
  BY <1>1 DEF Euclid
<1>. QED
  BY <1>2

\* A divisor is positive and divides both.
LEMMA DivisorDivides ==
  ASSUME NEW a \in Nat, NEW b \in Nat \ {0}
  PROVE  Divisor(a, b) \in Common(a, b)
<1>. DEFINE gcd == CHOOSE f : f = Euclid(f)
<1>1. Divisor(a, b) = gcd[<<a, b>>]
  BY DEF Divisor, Euclid
<1>2. gcd = Euclid(gcd)
  BY EuclidSolvable
<1>. HIDE DEF gcd
<1>3. \A x, y \in Nat : gcd[<<x, y>>] = IF y = 0 THEN x ELSE gcd[<<y, x % y>>]
  BY <1>2 DEF Euclid
<1>. DEFINE T == {n \in Nat : \A y \in 1..n : \A x \in Nat : gcd[<<x, y>>] \in Common(x, y)}
<1>4. 0 \in T
  OBVIOUS
<1>5. ASSUME NEW n \in T
      PROVE  n + 1 \in T
  <2>1. n \in Nat /\ \A y \in 1..n : \A x \in Nat : gcd[<<x, y>>] \in Common(x, y)
    OBVIOUS
  <2>2. ASSUME NEW y \in 1..n + 1, NEW x \in Nat
        PROVE  gcd[<<x, y>>] \in Common(x, y)
    <3>0. y \in Nat \ {0} /\ y =< n + 1
      BY <2>1
    <3>1. x % y \in 0..y - 1
      BY <3>0, Remainder
    <3>2. gcd[<<x, y>>] = gcd[<<y, x % y>>]
      BY <1>3, <3>0
    <3>3. CASE x % y = 0
      <4>0. y \in Nat /\ x % y \in Nat
        BY <3>0, <3>3
      <4>1. gcd[<<y, x % y>>] = y
        BY <1>3, <3>3, <4>0
      <4>2. y \in Common(y, x % y)
        <5>1. y = y * 1 /\ x % y = y * 0
          BY <3>0, <3>3
        <5>. QED
          BY <3>0, <5>1 DEF Common, Divides
      <4>. QED
        BY <3>0, <3>2, <4>1, <4>2, CommonRest
    <3>4. CASE x % y # 0
      <4>1. x % y \in 1..n
        BY <2>1, <3>0, <3>1, <3>4
      <4>2. gcd[<<y, x % y>>] \in Common(y, x % y)
        BY <2>1, <3>0, <4>1
      <4>. QED
        BY <3>0, <3>2, <4>2, CommonRest
    <3>. QED
      BY <3>3, <3>4
  <2>. HIDE DEF Common
  <2>. QED
    BY <2>1, <2>2
<1>. HIDE DEF T
<1>6. \A n \in Nat : n \in T
  <2>1. T \in SUBSET Nat
    BY DEF T
  <2>. QED
    BY <1>4, <1>5, <2>1, SetInduction
<1>7. b \in T /\ b \in 1..b
  BY <1>6
<1>8. gcd[<<a, b>>] \in Common(a, b)
  BY <1>7 DEF T
<1>. QED
  BY <1>1, <1>8

-----------------------------------------------------------------------------
(* Rankings.                                                               *)

\* A score is missing or a fraction.
Scored(v) == v = NaN \/ (v.n \in Int /\ v.d \in Nat \ {0})

\* Fractions are compared as if by multiplying crosswise.
LEMMA HigherMeans ==
  ASSUME NEW a, NEW b, a # NaN, b # NaN, Scored(a), Scored(b)
  PROVE  Higher(a, b) <=> a.n * b.d > b.n * a.d
<1>. DEFINE an == a.n
            ad == a.d
            bn == b.n
            bd == b.d
            k == Divisor(ad, bd)
<1>1. an \in Int /\ bn \in Int /\ ad \in Nat \ {0} /\ bd \in Nat \ {0}
  BY DEF Scored
<1>2. Higher(a, b) <=> IF ad = bd THEN an > bn ELSE an * (bd \div k) > bn * (ad \div k)
  BY DEF Higher
<1>3. k \in Common(ad, bd)
  BY <1>1, DivisorDivides
<1>. HIDE DEF k, an, ad, bn, bd
<1>4. k \in Nat \ {0}
  BY <1>3 DEF Common
<1>5. PICK p \in Int : ad = k * p
  BY <1>3 DEF Common, Divides
<1>6. PICK q \in Int : bd = k * q
  BY <1>3 DEF Common, Divides
<1>7. ad \div k = p /\ bd \div k = q
  BY <1>1, <1>4, <1>5, <1>6
<1>8. ASSUME ad = bd
      PROVE  an > bn <=> an * bd > bn * ad
  <2>1. ad > 0
    BY <1>1
  <2>2. an > bn => an * ad > bn * ad
    BY <1>1, <2>1
  <2>3. bn >= an => bn * ad >= an * ad
    BY <1>1, <2>1
  <2>. QED
    BY <1>1, <1>8, <2>2, <2>3
<1>9. an * q > bn * p <=> an * bd > bn * ad
  <2>. DEFINE x == an * q
              y == bn * p
  <2>1. x \in Int /\ y \in Int
    BY <1>1
  <2>2. an * (k * q) = k * x /\ bn * (k * p) = k * y
    BY <1>1, <1>4
  <2>3. an * bd = k * x /\ bn * ad = k * y
    BY <1>5, <1>6, <2>2
  <2>. HIDE DEF x, y
  <2>4. x > y => k * x > k * y
    BY <1>4, <2>1
  <2>5. y >= x => k * y >= k * x
    BY <1>4, <2>1
  <2>6. k * x \in Int /\ k * y \in Int
    BY <1>4, <2>1
  <2>7. x > y <=> k * x > k * y
    BY <2>1, <2>4, <2>5, <2>6
  <2>. QED
    BY <2>3, <2>7 DEF x, y
<1>10. Higher(a, b) <=> an * bd > bn * ad
  BY <1>2, <1>7, <1>8, <1>9
<1>. QED
  BY <1>10 DEF an, ad, bn, bd

\* No score is higher than one that is higher than it, and one that is not
\* higher than another is not higher than what is no lower than that.
LEMMA HigherOrders ==
  ASSUME NEW a, NEW b, NEW c, Scored(a), Scored(b), Scored(c)
  PROVE  /\ ~(Higher(a, b) /\ Higher(b, a))
         /\ ~Higher(b, a) /\ ~Higher(c, b) => ~Higher(c, a)
<1>. DEFINE above(x, y) == x.n * y.d > y.n * x.d
<1>1. \A x, y : x # NaN /\ y # NaN /\ Scored(x) /\ Scored(y) => (Higher(x, y) <=> above(x, y))
  BY HigherMeans
<1>2. \A x : ~Higher(NaN, x)
  BY DEF Higher
<1>3. \A x : x # NaN => Higher(x, NaN)
  BY DEF Higher
<1>4. ~(Higher(a, b) /\ Higher(b, a))
  <2>1. CASE a = NaN \/ b = NaN
    BY <1>2, <2>1
  <2>2. CASE a # NaN /\ b # NaN
    <3>1. a.n * b.d \in Int /\ b.n * a.d \in Int
      BY <2>2 DEF Scored
    <3>2. ~(above(a, b) /\ above(b, a))
      BY <3>1
    <3>. QED
      BY <1>1, <2>2, <3>2
  <2>. QED
    BY <2>1, <2>2
<1>5. ASSUME ~Higher(b, a), ~Higher(c, b)
      PROVE  ~Higher(c, a)
  <2>1. CASE c = NaN
    BY <1>2, <2>1
  <2>2. CASE c # NaN
    <3>1. b # NaN
      BY <1>3, <1>5, <2>2
    <3>2. a # NaN
      BY <1>3, <1>5, <3>1
    <3>. DEFINE an == a.n
                ad == a.d
                bn == b.n
                bd == b.d
                cn == c.n
                cd == c.d
    <3>3. /\ an \in Int /\ bn \in Int /\ cn \in Int
          /\ ad \in Nat /\ ad > 0 /\ bd \in Nat /\ bd > 0 /\ cd \in Nat /\ cd > 0
      BY <2>2, <3>1, <3>2 DEF Scored
    <3>4. ~above(b, a) /\ ~above(c, b)
      BY <1>1, <1>5, <2>2, <3>1, <3>2
    <3>5. an * bd >= bn * ad /\ bn * cd >= cn * bd
      BY <3>3, <3>4
    <3>s. Higher(c, a) <=> above(c, a)
      BY <1>1, <2>2, <3>2
    <3>t. above(c, a) <=> cn * ad > an * cd
      OBVIOUS
    <3>. HIDE DEF an, ad, bn, bd, cn, cd, above
    <3>6. an * bd * cd >= bn * ad * cd /\ bn * cd * ad >= cn * bd * ad
      <4>. DEFINE l == an * bd
                  m == bn * ad
                  u == bn * cd
                  v == cn * bd
      <4>1. l \in Int /\ m \in Int /\ u \in Int /\ v \in Int /\ l >= m /\ u >= v
        BY <3>3, <3>5
      <4>. HIDE DEF l, m, u, v
      <4>2. l * cd >= m * cd
        BY <3>3, <4>1
      <4>3. u * ad >= v * ad
        BY <3>3, <4>1
      <4>. QED
        BY <4>2, <4>3 DEF l, m, u, v
    <3>7. bn * ad * cd = bn * cd * ad /\ an * bd * cd = bd * (an * cd) /\ cn * bd * ad = bd * (cn * ad)
      BY <3>3
    <3>8. ~(cn * ad > an * cd)
      <4>. DEFINE l == an * cd
                  m == cn * ad
      <4>1. l \in Int /\ m \in Int
        BY <3>3
      <4>2. an * bd * cd \in Int /\ bn * ad * cd \in Int /\ cn * bd * ad \in Int
        BY <3>3
      <4>3. bd * l >= bd * m
        BY <3>6, <3>7, <4>2
      <4>. HIDE DEF l, m
      <4>4. m > l => bd * m > bd * l
        BY <3>3, <4>1
      <4>5. bd * m \in Int /\ bd * l \in Int
        BY <3>3, <4>1
      <4>6. ~(m > l)
        BY <4>3, <4>4, <4>5
      <4>. QED
        BY <4>6 DEF l, m
    <3>. QED
      BY <3>8, <3>s, <3>t
  <2>. QED
    BY <2>1, <2>2
<1>. QED
  BY <1>4, <1>5

\* A ranking is a strict order of all of its members.
LEMMA BeforeOrders ==
  ASSUME NEW S \in SUBSET Int, NEW score, \A x \in S : Scored(score[x])
  PROVE  /\ \A x \in S : ~Before(score, x, x)
         /\ \A x, y, z \in S : Before(score, x, y) /\ Before(score, y, z) => Before(score, x, z)
         /\ \A x, y \in S : x # y => Before(score, x, y) \/ Before(score, y, x)
<1>. DEFINE up(x, y) == Higher(score[x], score[y])
<1>1. \A x, y \in S : ~(up(x, y) /\ up(y, x))
  BY HigherOrders
<1>2. \A x, y, z \in S : ~up(y, x) /\ ~up(z, y) => ~up(z, x)
  BY HigherOrders
<1>3. \A x, y \in S : Before(score, x, y) <=> up(x, y) \/ (~up(y, x) /\ x < y)
  BY DEF Before
<1>4. \A x, y, z \in S : (x < y /\ y < z => x < z) /\ ~(x < x) /\ (x # y => x < y \/ y < x)
  OBVIOUS
<1>. HIDE DEF up
<1>5. ASSUME NEW x \in S, NEW y \in S, NEW z \in S, Before(score, x, y), Before(score, y, z)
      PROVE  Before(score, x, z)
  BY <1>1, <1>2, <1>3, <1>4, <1>5
<1>. QED
  BY <1>1, <1>3, <1>4, <1>5

\* The n best are at most n.
LEMMA BestFits ==
  ASSUME NEW S \in SUBSET Int, IsFiniteSet(S), NEW score, \A x \in S : Scored(score[x]), NEW n \in Nat
  PROVE  /\ Best(S, score, n) \subseteq S /\ IsFiniteSet(Best(S, score, n))
         /\ Cardinality(Best(S, score, n)) \in 0..n
<1>. DEFINE ahead(x) == {y \in S : Before(score, y, x)}
            best == {x \in S : Cardinality(ahead(x)) < n}
            f == [x \in best |-> Cardinality(ahead(x))]
<1>1. Best(S, score, n) = best
  BY DEF Best
<1>2. /\ \A x \in S : ~Before(score, x, x)
      /\ \A x, y, z \in S : Before(score, x, y) /\ Before(score, y, z) => Before(score, x, z)
      /\ \A x, y \in S : x # y => Before(score, x, y) \/ Before(score, y, x)
  BY BeforeOrders
<1>3. \A x \in S : IsFiniteSet(ahead(x)) /\ Cardinality(ahead(x)) \in Nat
  BY FS_Subset, FS_CardinalityType
<1>4. ASSUME NEW x \in S, NEW y \in S, Before(score, x, y)
      PROVE  Cardinality(ahead(x)) # Cardinality(ahead(y))
  <2>1. ahead(x) \subseteq ahead(y) /\ x \in ahead(y) /\ x \notin ahead(x)
    BY <1>2, <1>4
  <2>2. IsFiniteSet(ahead(y))
    BY <1>3
  <2>. HIDE DEF ahead
  <2>. QED
    BY <2>1, <2>2, FS_Subset
<1>5. f \in Injection(best, 0..n - 1)
  <2>1. f \in [best -> 0..n - 1]
    <3>1. ASSUME NEW x \in best
          PROVE  Cardinality(ahead(x)) \in 0..n - 1
      <4>1. Cardinality(ahead(x)) \in Nat /\ Cardinality(ahead(x)) < n
        BY <1>3
      <4>. HIDE DEF ahead
      <4>. QED
        BY <4>1
    <3>. HIDE DEF ahead, best
    <3>. QED
      BY <3>1
  <2>2. ASSUME NEW x \in best, NEW y \in best, f[x] = f[y]
        PROVE  x = y
    <3>1. f[x] = Cardinality(ahead(x)) /\ f[y] = Cardinality(ahead(y)) /\ x \in S /\ y \in S
      OBVIOUS
    <3>. HIDE DEF ahead, f
    <3>. QED
      BY <1>2, <1>4, <2>2, <3>1
  <2>. HIDE DEF f, best
  <2>. QED
    BY <2>1, <2>2 DEF Injection, IsInjective
<1>6. IsFiniteSet(0..n - 1) /\ Cardinality(0..n - 1) = n
  BY FS_Interval
<1>. HIDE DEF f, best
<1>7. IsFiniteSet(best) /\ Cardinality(best) =< n
  BY <1>5, <1>6, FS_Injection
<1>8. Cardinality(best) \in Nat
  BY <1>7, FS_CardinalityType
<1>9. best \subseteq S
  BY DEF best
<1>. QED
  BY <1>1, <1>7, <1>8, <1>9

-----------------------------------------------------------------------------
(* Sums of parts.                                                          *)

\* A sum of a function is one over its domain.
LEMMA SumOfFunction ==
  ASSUME NEW f
  PROVE  SumFunction(f) = SumFunctionOnSet(f, DOMAIN f)
BY DEF SumFunction, SumFunctionOnSet, FoldFunction

\* A sum over two sets that share nothing.
LEMMA SumOfUnion ==
  ASSUME NEW U, IsFiniteSet(U), NEW f, \A x \in U : f[x] \in Int,
         NEW A \in SUBSET U, NEW B \in SUBSET U, A \cap B = {}
  PROVE  SumFunctionOnSet(f, A \cup B) = SumFunctionOnSet(f, A) + SumFunctionOnSet(f, B)
<1>. DEFINE s(E) == SumFunctionOnSet(f, E)
            P == {D \in SUBSET B : s(A \cup D) = s(A) + s(D)}
<1>0. \A E \in SUBSET U : s(E) \in Int /\ \A y \in U \ E : s(E \cup {y}) = f[y] + s(E)
  BY SumGrows
<1>1. {} \in P
  <2>1. s({}) = 0 /\ A \cup {} = A
    BY SumOfNone
  <2>2. s(A) \in Int
    BY <1>0
  <2>. HIDE DEF s
  <2>. QED
    BY <2>1, <2>2
<1>2. ASSUME NEW D \in P, NEW x \in B \ D
      PROVE  D \cup {x} \in P
  <2>1. x \in U \ (A \cup D) /\ x \in U \ D
    OBVIOUS
  <2>2. A \cup D \in SUBSET U /\ D \in SUBSET U /\ D \cup {x} \in SUBSET B
    OBVIOUS
  <2>3. s(A \cup D) = s(A) + s(D)
    OBVIOUS
  <2>7. s(A \cup (D \cup {x})) = s((A \cup D) \cup {x})
    <3>1. A \cup (D \cup {x}) = (A \cup D) \cup {x}
      OBVIOUS
    <3>. QED
      BY <3>1, Zenon
  <2>. DEFINE a == s(A)
              d == s(D)
              ad == s(A \cup D)
              ax == s((A \cup D) \cup {x})
              dx == s(D \cup {x})
  <2>5. a \in Int /\ d \in Int /\ f[x] \in Int
    BY <1>0, <2>2
  <2>4. ax = f[x] + ad /\ dx = f[x] + d
    BY <1>0, <2>1, <2>2
  <2>6. ax = a + dx
    <3>1. ad = a + d
      BY <2>3
    <3>. HIDE DEF a, d, ad, ax, dx
    <3>. QED
      BY <3>1, <2>4, <2>5
  <2>8. s(A \cup (D \cup {x})) = s(A) + s(D \cup {x})
    BY <2>6, <2>7
  <2>. HIDE DEF s
  <2>. QED
    BY <2>2, <2>8
<1>. HIDE DEF P
<1>3. B \in P
  <2>1. P \in SUBSET (SUBSET B) /\ IsFiniteSet(B)
    BY FS_Subset DEF P
  <2>. QED
    BY <1>1, <1>2, <2>1, SubsetInduction
<1>. QED
  BY <1>3 DEF P

\* A part of a sum of what is not negative is not more than the sum.
LEMMA SumOfPart ==
  ASSUME NEW U, IsFiniteSet(U), NEW f, \A x \in U : f[x] \in Nat, NEW A \in SUBSET U
  PROVE  /\ SumFunctionOnSet(f, A) \in Nat /\ SumFunctionOnSet(f, U) \in Nat
         /\ SumFunctionOnSet(f, A) =< SumFunctionOnSet(f, U)
<1>. DEFINE P == {D \in SUBSET U : SumFunctionOnSet(f, D) \in Nat}
<1>0. \A E \in SUBSET U : /\ SumFunctionOnSet(f, E) \in Int
                          /\ \A y \in U \ E : SumFunctionOnSet(f, E \cup {y}) = f[y] + SumFunctionOnSet(f, E)
  BY SumGrows
<1>1. {} \in P
  BY SumOfNone
<1>2. ASSUME NEW D \in P, NEW x \in U \ D
      PROVE  D \cup {x} \in P
  <2>1. SumFunctionOnSet(f, D) \in Nat /\ f[x] \in Nat /\ D \in SUBSET U
    OBVIOUS
  <2>2. SumFunctionOnSet(f, D \cup {x}) = f[x] + SumFunctionOnSet(f, D)
    BY <1>0, <2>1
  <2>. QED
    BY <2>1, <2>2
<1>. HIDE DEF P
<1>3. \A D \in SUBSET U : D \in P
  <2>1. P \in SUBSET (SUBSET U)
    BY DEF P
  <2>. QED
    BY <1>1, <1>2, <2>1, SubsetInduction
<1>4. \A D \in SUBSET U : SumFunctionOnSet(f, D) \in Nat
  BY <1>3 DEF P
<1>5. U = A \cup (U \ A) /\ A \cap (U \ A) = {} /\ U \ A \in SUBSET U
  OBVIOUS
<1>6. SumFunctionOnSet(f, A \cup (U \ A)) = SumFunctionOnSet(f, A) + SumFunctionOnSet(f, U \ A)
  <2>1. \A x \in U : f[x] \in Int
    OBVIOUS
  <2>. QED
    BY <1>5, <2>1, SumOfUnion
<1>7. SumFunctionOnSet(f, U) = SumFunctionOnSet(f, A) + SumFunctionOnSet(f, U \ A)
  BY <1>5, <1>6, Zenon
<1>8. SumFunctionOnSet(f, A) \in Nat /\ SumFunctionOnSet(f, U \ A) \in Nat
  BY <1>4
<1>. QED
  BY <1>7, <1>8

\* A sum of multiples.
LEMMA SumScaled ==
  ASSUME NEW U, IsFiniteSet(U), NEW c \in Int, NEW f, NEW h,
         \A x \in U : f[x] \in Int /\ h[x] = c * f[x]
  PROVE  SumFunctionOnSet(h, U) = c * SumFunctionOnSet(f, U)
<1>. DEFINE P == {D \in SUBSET U : SumFunctionOnSet(h, D) = c * SumFunctionOnSet(f, D)}
<1>1. {} \in P
  <2>1. \A e : SumFunctionOnSet(e, {}) = 0
    BY SumOfNone
  <2>. QED
    BY <2>1
<1>2. ASSUME NEW D \in P, NEW x \in U \ D
      PROVE  D \cup {x} \in P
  <2>1. \A y \in U : h[y] \in Int
    OBVIOUS
  <2>2. /\ SumFunctionOnSet(f, D) \in Int /\ SumFunctionOnSet(f, D \cup {x}) = f[x] + SumFunctionOnSet(f, D)
        /\ SumFunctionOnSet(h, D \cup {x}) = h[x] + SumFunctionOnSet(h, D)
    BY <2>1, SumGrows
  <2>3. f[x] \in Int /\ h[x] = c * f[x] /\ SumFunctionOnSet(h, D) = c * SumFunctionOnSet(f, D)
    OBVIOUS
  <2>. DEFINE a == SumFunctionOnSet(f, D)
              b == f[x]
  <2>4. c * b + c * a = c * (b + a)
    <3>1. a \in Int /\ b \in Int
      BY <2>2, <2>3
    <3>. HIDE DEF a, b
    <3>. QED
      BY <3>1
  <2>5. SumFunctionOnSet(h, D \cup {x}) = c * b + c * a
    BY <2>2, <2>3
  <2>6. SumFunctionOnSet(f, D \cup {x}) = b + a
    BY <2>2
  <2>7. SumFunctionOnSet(h, D \cup {x}) = c * SumFunctionOnSet(f, D \cup {x})
    <3>. HIDE DEF a, b
    <3>. QED
      BY <2>4, <2>5, <2>6
  <2>. QED
    BY <2>7
<1>. HIDE DEF P
<1>3. U \in P
  <2>1. P \in SUBSET (SUBSET U)
    BY DEF P
  <2>. QED
    BY <1>1, <1>2, <2>1, SubsetInduction
<1>. QED
  BY <1>3 DEF P

\* The sums of what has the same key add up to not more than the whole.
LEMMA SumByKey ==
  ASSUME NEW U, IsFiniteSet(U), NEW f, \A x \in U : f[x] \in Nat, NEW key, NEW K, IsFiniteSet(K), NEW part, NEW g,
         \A k \in K : /\ part[k] \in SUBSET U /\ \A x \in U : x \in part[k] <=> key[x] = k
                      /\ g[k] = SumFunctionOnSet(f, part[k])
  PROVE  SumFunctionOnSet(g, K) =< SumFunctionOnSet(f, U)
<1>. DEFINE of(D) == {x \in U : key[x] \in D}
            P == {D \in SUBSET K : SumFunctionOnSet(g, D) = SumFunctionOnSet(f, of(D))}
<1>0. \A k \in K : g[k] \in Int
  BY SumOfPart
<1>1. {} \in P
  <2>1. of({}) = {}
    OBVIOUS
  <2>2. \A e : SumFunctionOnSet(e, {}) = 0
    BY SumOfNone
  <2>. QED
    BY <2>1, <2>2
<1>2. ASSUME NEW D \in P, NEW x \in K \ D
      PROVE  D \cup {x} \in P
  <2>. DEFINE mine == part[x]
  <2>1. SumFunctionOnSet(g, D \cup {x}) = g[x] + SumFunctionOnSet(g, D)
    BY <1>0, SumGrows
  <2>2. g[x] = SumFunctionOnSet(f, mine) /\ SumFunctionOnSet(g, D) = SumFunctionOnSet(f, of(D))
    OBVIOUS
  <2>3. /\ mine \in SUBSET U /\ of(D) \in SUBSET U /\ mine \cap of(D) = {}
        /\ of(D \cup {x}) = mine \cup of(D) /\ \A y \in U : f[y] \in Int
    OBVIOUS
  <2>4. SumFunctionOnSet(f, mine \cup of(D)) = SumFunctionOnSet(f, mine) + SumFunctionOnSet(f, of(D))
    <3>. HIDE DEF mine, of
    <3>. QED
      BY <2>3, SumOfUnion
  <2>5. SumFunctionOnSet(g, D \cup {x}) = SumFunctionOnSet(f, of(D \cup {x}))
    <3>. HIDE DEF mine, of
    <3>. QED
      BY <2>1, <2>2, <2>3, <2>4
  <2>. QED
    BY <2>5
<1>3. K \in P
  <2>1. P \in SUBSET (SUBSET K)
    BY DEF P
  <2>. HIDE DEF P
  <2>. QED
    BY <1>1, <1>2, <2>1, SubsetInduction
<1>4. SumFunctionOnSet(g, K) = SumFunctionOnSet(f, of(K)) /\ of(K) \in SUBSET U
  BY <1>3
<1>. HIDE DEF of, P
<1>. QED
  BY <1>4, SumOfPart

-----------------------------------------------------------------------------
(* Fractions in lowest terms.                                              *)

\* Numbers without a common divisor, as Bezout says it.
Coprime(a, b) == \E u, v \in Int : a * u + b * v = 1

\* A fraction in lowest terms, and what it is worth.
Lowest(a) ==
  /\ a = [n |-> a.n, d |-> a.d] /\ a.n \in Int /\ a.d \in Nat \ {0}
  /\ Coprime(a.n, a.d)
Worth(a, n, d) == Lowest(a) /\ n \in Int /\ d \in Nat \ {0} /\ a.n * d = n * a.d

\* A divisor is a combination of the numbers it divides (Bezout).
LEMMA DivisorCombines ==
  ASSUME NEW a \in Nat, NEW b \in Nat \ {0}
  PROVE  \E u, v \in Int : Divisor(a, b) = a * u + b * v
<1>. DEFINE gcd == CHOOSE f : f = Euclid(f)
            Good(x, y) == \E u, v \in Int : gcd[<<x, y>>] = x * u + y * v
<1>1. Divisor(a, b) = gcd[<<a, b>>]
  BY DEF Divisor, Euclid
<1>2. gcd = Euclid(gcd)
  BY EuclidSolvable
<1>. HIDE DEF gcd
<1>3. \A x, y \in Nat : gcd[<<x, y>>] = IF y = 0 THEN x ELSE gcd[<<y, x % y>>]
  BY <1>2 DEF Euclid
<1>. DEFINE T == {n \in Nat : \A y \in 0..n : \A x \in Nat : Good(x, y)}
<1>4. 0 \in T
  <2>1. ASSUME NEW x \in Nat, NEW y \in 0..0
        PROVE  Good(x, y)
    <3>0. y = 0 /\ y \in Nat
      OBVIOUS
    <3>1. gcd[<<x, y>>] = x
      BY <1>3, <3>0
    <3>2. gcd[<<x, y>>] = x * 1 + y * 0 /\ 1 \in Int /\ 0 \in Int
      BY <3>0, <3>1
    <3>. QED
      BY <3>2
  <2>. HIDE DEF Good
  <2>. QED
    BY <2>1
<1>5. ASSUME NEW n \in T
      PROVE  n + 1 \in T
  <2>1. n \in Nat /\ \A y \in 0..n : \A x \in Nat : Good(x, y)
    OBVIOUS
  <2>2. ASSUME NEW x \in Nat
        PROVE  Good(x, n + 1)
    <3>. DEFINE y == n + 1
                r == x % y
                q == x \div y
    <3>1. y \in Nat \ {0}
      BY <2>1
    <3>2. r \in 0..y - 1 /\ q \in Nat /\ x = y * q + r
      BY <3>1, Remainder
    <3>3. gcd[<<x, y>>] = gcd[<<y, r>>]
      BY <1>3, <3>1
    <3>4. r \in 0..n
      BY <2>1, <3>2
    <3>. HIDE DEF r, q
    <3>5. PICK u \in Int, v \in Int : gcd[<<y, r>>] = y * u + r * v
      BY <2>1, <3>1, <3>4
    <3>. HIDE DEF y
    <3>6. r = x - y * q
      BY <3>1, <3>2
    <3>7. r * v = (x - y * q) * v
      BY <3>6
    <3>8. y * u + (x - y * q) * v = x * v + y * (u - q * v)
      BY <3>1, <3>2
    <3>9. u - q * v \in Int
      BY <3>2
    <3>10. gcd[<<x, y>>] = x * v + y * (u - q * v)
      BY <3>3, <3>5, <3>7, <3>8
    <3>11. Good(x, y)
      BY <3>9, <3>10
    <3>. QED
      BY <3>11 DEF y
  <2>3. \A y \in 0..n + 1 : y \in 0..n \/ y = n + 1
    BY <2>1
  <2>. HIDE DEF Good
  <2>. QED
    BY <2>1, <2>2, <2>3
<1>. HIDE DEF T
<1>6. \A n \in Nat : n \in T
  <2>1. T \in SUBSET Nat
    BY DEF T
  <2>. QED
    BY <1>4, <1>5, <2>1, SetInduction
<1>7. b \in T /\ b \in 0..b
  BY <1>6
<1>8. Good(a, b)
  <2>. HIDE DEF Good
  <2>. QED
    BY <1>7 DEF T
<1>. QED
  BY <1>1, <1>8

\* It does not matter in which order two numbers are named.
LEMMA CoprimeSwaps ==
  ASSUME NEW a \in Int, NEW b \in Int, Coprime(a, b)
  PROVE  Coprime(b, a)
<1>1. PICK u \in Int, v \in Int : a * u + b * v = 1
  BY DEF Coprime
<1>2. a * u \in Int /\ b * v \in Int
  OBVIOUS
<1>3. b * v + a * u = 1
  BY <1>1, <1>2
<1>. QED
  BY <1>3 DEF Coprime

\* A number without a common divisor with two others has none with their
\* product.
LEMMA CoprimeProduct ==
  ASSUME NEW a \in Int, NEW b \in Int, NEW c \in Int, Coprime(a, b), Coprime(a, c)
  PROVE  Coprime(a, b * c) /\ Coprime(b * c, a)
<1>1. PICK u \in Int, v \in Int : a * u + b * v = 1
  BY DEF Coprime
<1>2. PICK s \in Int, t \in Int : a * s + c * t = 1
  BY DEF Coprime
<1>3. (a * u + b * v) * (a * s + c * t) = 1
  BY <1>1, <1>2
<1>4. (a * u + b * v) * (a * s + c * t)
        = a * ((u * a) * s + (u * c) * t + (b * v) * s) + (b * c) * (v * t)
  OBVIOUS
<1>. DEFINE e == (u * a) * s + (u * c) * t + (b * v) * s
            g == v * t
<1>5. e \in Int /\ g \in Int
  OBVIOUS
<1>6. a * e + (b * c) * g = 1
  BY <1>3, <1>4
<1>7. (b * c) * g + a * e = 1
  <2>1. a * e \in Int /\ (b * c) * g \in Int
    BY <1>5
  <2>. HIDE DEF e, g
  <2>. QED
    BY <1>6, <2>1
<1>. HIDE DEF e, g
<1>. QED
  BY <1>5, <1>6, <1>7 DEF Coprime

\* Reducing a fraction.
LEMMA RatioReduces ==
  ASSUME NEW n \in Int, NEW d \in Nat \ {0}
  PROVE  \E k \in Nat \ {0} : n = k * Ratio(n, d).n /\ d = k * Ratio(n, d).d /\ Lowest(Ratio(n, d))
<1>. DEFINE m == Abs(n)
            k == Divisor(m, d)
<1>1. m \in Nat /\ (m = n \/ m = -n)
  BY DEF Abs
<1>2. k \in Common(m, d) /\ \E u, v \in Int : k = m * u + d * v
  BY <1>1, DivisorDivides, DivisorCombines
<1>3. Ratio(n, d) = [n |-> n \div k, d |-> d \div k]
  BY DEF Ratio
<1>. HIDE DEF m, k
<1>4. k \in Nat \ {0}
  BY <1>2 DEF Common
<1>5. PICK p \in Int : m = k * p
  BY <1>2 DEF Common, Divides
<1>6. PICK q \in Int : d = k * q
  BY <1>2 DEF Common, Divides
<1>7. PICK u \in Int, v \in Int : k = m * u + d * v
  BY <1>2
<1>8. PICK s \in {1, -1} : n = s * m
  <2>1. n = 1 * m \/ n = (-1) * m
    BY <1>1
  <2>. QED
    BY <2>1
<1>9. n = k * (s * p)
  BY <1>4, <1>5, <1>8
<1>10. n \div k = s * p
  <2>1. s * p \in Int
    OBVIOUS
  <2>2. \A z \in Int : (k * z) \div k = z
    BY <1>4
  <2>. QED
    BY <1>9, <2>1, <2>2
<1>11. d \div k = q
  BY <1>4, <1>6
<1>12. q \in Nat \ {0}
  <2>1. q =< 0 => k * q =< 0
    BY <1>4
  <2>. QED
    BY <1>6, <2>1
<1>13. p * u + q * v = 1
  <2>1. k = k * (p * u + q * v)
    <3>1. m * u + d * v = (k * p) * u + (k * q) * v
      BY <1>5, <1>6
    <3>2. (k * p) * u + (k * q) * v = k * (p * u + q * v)
      BY <1>4
    <3>. QED
      BY <1>7, <3>1, <3>2
  <2>. DEFINE z == p * u + q * v
  <2>2. z \in Int
    OBVIOUS
  <2>. HIDE DEF z
  <2>3. z >= 2 => k * z >= k * 2
    BY <1>4, <2>2
  <2>4. z =< 0 => k * z =< 0
    BY <1>4, <2>2
  <2>5. k = k * z
    BY <2>1 DEF z
  <2>6. z = 1
    BY <1>4, <2>2, <2>3, <2>4, <2>5
  <2>. QED
    BY <2>6 DEF z
<1>14. Coprime(s * p, q)
  <2>1. (s * p) * (s * u) = p * u
    <3>1. s = 1 \/ s = -1
      OBVIOUS
    <3>2. CASE s = 1
      BY <3>2
    <3>3. CASE s = -1
      BY <3>3
    <3>. QED
      BY <3>1, <3>2, <3>3
  <2>2. (s * p) * (s * u) + q * v = 1
    BY <1>13, <2>1
  <2>3. s * u \in Int
    OBVIOUS
  <2>. QED
    BY <2>2, <2>3 DEF Coprime
<1>15. Ratio(n, d) = [n |-> s * p, d |-> q] /\ s * p \in Int
  BY <1>3, <1>10, <1>11
<1>16. Lowest(Ratio(n, d))
  BY <1>12, <1>14, <1>15 DEF Lowest
<1>17. Ratio(n, d).n = s * p /\ Ratio(n, d).d = q
  BY <1>15
<1>18. n = k * Ratio(n, d).n /\ d = k * Ratio(n, d).d
  BY <1>6, <1>9, <1>17
<1>. QED
  BY <1>4, <1>16, <1>18

\* So a fraction is worth what it was made of.
LEMMA RatioWorth ==
  ASSUME NEW n \in Int, NEW d \in Nat \ {0}
  PROVE  Worth(Ratio(n, d), n, d)
<1>. DEFINE r == Ratio(n, d)
<1>1. PICK k \in Nat \ {0} : n = k * r.n /\ d = k * r.d /\ Lowest(r)
  BY RatioReduces
<1>. HIDE DEF r
<1>2. r.n \in Int /\ r.d \in Nat \ {0}
  BY <1>1 DEF Lowest
<1>3. r.n * (k * r.d) = (k * r.n) * r.d
  BY <1>2
<1>4. r.n * d = n * r.d
  BY <1>1, <1>3
<1>. QED
  BY <1>1, <1>4 DEF Worth, r

\* Fractions in lowest terms that are worth the same are the same.
LEMMA WorthIsUnique ==
  ASSUME NEW a, NEW b, NEW n, NEW d, Worth(a, n, d), Worth(b, n, d)
  PROVE  a = b
<1>. DEFINE an == a.n
            ad == a.d
            bn == b.n
            bd == b.d
<1>1. /\ a = [n |-> an, d |-> ad] /\ b = [n |-> bn, d |-> bd] /\ an \in Int /\ bn \in Int
      /\ ad \in Nat \ {0} /\ bd \in Nat \ {0} /\ n \in Int /\ d \in Nat \ {0}
      /\ an * d = n * ad /\ bn * d = n * bd
  BY DEF Worth, Lowest
<1>2. PICK u \in Int, v \in Int : an * u + ad * v = 1
  BY DEF Worth, Lowest, Coprime
<1>3. PICK s \in Int, t \in Int : bn * s + bd * t = 1
  BY DEF Worth, Lowest, Coprime
<1>. HIDE DEF an, ad, bn, bd
<1>4. an * bd = bn * ad
  <2>1. d * (an * bd) = d * (bn * ad)
    <3>1. d * (an * bd) = (an * d) * bd /\ d * (bn * ad) = (bn * d) * ad
      BY <1>1
    <3>2. (n * ad) * bd = (n * bd) * ad
      BY <1>1
    <3>. QED
      BY <1>1, <3>1, <3>2
  <2>. DEFINE x == an * bd
              y == bn * ad
  <2>2. x \in Int /\ y \in Int
    BY <1>1
  <2>3. d * x = d * y
    BY <2>1
  <2>. HIDE DEF x, y
  <2>4. x > y => d * x > d * y
    BY <1>1, <2>2
  <2>5. y > x => d * y > d * x
    BY <1>1, <2>2
  <2>6. x = y
    BY <1>1, <2>2, <2>3, <2>4, <2>5
  <2>. QED
    BY <2>6 DEF x, y
<1>5. \E z \in Int : bd = ad * z
  <2>1. bd = bd * (an * u + ad * v)
    BY <1>1, <1>2
  <2>2. bd * (an * u + ad * v) = (an * bd) * u + (ad * bd) * v
    BY <1>1
  <2>3. (bn * ad) * u + (ad * bd) * v = ad * (bn * u + bd * v)
    BY <1>1
  <2>4. bn * u + bd * v \in Int
    BY <1>1
  <2>. QED
    BY <1>4, <2>1, <2>2, <2>3, <2>4
<1>6. \E z \in Int : ad = bd * z
  <2>1. ad = ad * (bn * s + bd * t)
    BY <1>1, <1>3
  <2>2. ad * (bn * s + bd * t) = (bn * ad) * s + (bd * ad) * t
    BY <1>1
  <2>3. (an * bd) * s + (bd * ad) * t = bd * (an * s + ad * t)
    BY <1>1
  <2>4. an * s + ad * t \in Int
    BY <1>1
  <2>. QED
    BY <1>4, <2>1, <2>2, <2>3, <2>4
<1>7. ASSUME NEW x \in Nat \ {0}, NEW y \in Nat \ {0}, NEW z \in Int, y = x * z
      PROVE  x =< y
  <2>1. z =< 0 => x * z =< 0
    BY <1>7
  <2>2. z >= 1
    BY <1>7, <2>1
  <2>3. x * z >= x
    BY <2>2
  <2>. QED
    BY <1>7, <2>3
<1>8. ad = bd
  <2>1. ad =< bd /\ bd =< ad
    BY <1>1, <1>5, <1>6, <1>7
  <2>. QED
    BY <1>1, <2>1
<1>9. an = bn
  <2>1. an > bn => an * ad > bn * ad
    BY <1>1
  <2>2. bn > an => bn * ad > an * ad
    BY <1>1
  <2>. QED
    BY <1>1, <1>4, <1>8, <2>1, <2>2
<1>. QED
  BY <1>1, <1>8, <1>9

\* What is worth the same crosswise is worth the same.
LEMMA WorthSame ==
  ASSUME NEW a, NEW n, NEW d, Worth(a, n, d), NEW m \in Int, NEW e \in Nat \ {0}, n * e = m * d
  PROVE  Worth(a, m, e)
<1>. DEFINE an == a.n
            ad == a.d
<1>1. an \in Int /\ ad \in Nat \ {0} /\ n \in Int /\ d \in Nat \ {0} /\ an * d = n * ad /\ Lowest(a)
  BY DEF Worth, Lowest
<1>. HIDE DEF an, ad
<1>2. d * (an * e) = d * (m * ad)
  <2>1. d * (an * e) = (an * d) * e /\ d * (m * ad) = (m * d) * ad
    BY <1>1
  <2>2. (n * ad) * e = (n * e) * ad
    BY <1>1
  <2>. QED
    BY <1>1, <2>1, <2>2
<1>. DEFINE x == an * e
            y == m * ad
<1>3. x \in Int /\ y \in Int /\ d * x = d * y
  BY <1>1, <1>2
<1>. HIDE DEF x, y
<1>4. x > y => d * x > d * y
  BY <1>1, <1>3
<1>5. y > x => d * y > d * x
  BY <1>1, <1>3
<1>6. x = y
  BY <1>1, <1>3, <1>4, <1>5
<1>. QED
  BY <1>1, <1>6 DEF x, y, an, ad, Worth

\* Products.
LEMMA TimesWorth ==
  ASSUME NEW a, NEW b, NEW n, NEW d, NEW m, NEW e, Worth(a, n, d), Worth(b, m, e)
  PROVE  Worth(Times(a, b), n * m, d * e)
<1>. DEFINE an == a.n
            ad == a.d
            bn == b.n
            bd == b.d
            left == Ratio(an, bd)
            right == Ratio(bn, ad)
<1>1. /\ an \in Int /\ bn \in Int /\ ad \in Nat \ {0} /\ bd \in Nat \ {0}
      /\ n \in Int /\ d \in Nat \ {0} /\ m \in Int /\ e \in Nat \ {0}
      /\ an * d = n * ad /\ bn * e = m * bd
  BY DEF Worth, Lowest
<1>2. PICK u \in Int, v \in Int : an * u + ad * v = 1
  BY DEF Worth, Lowest, Coprime
<1>3. PICK s \in Int, t \in Int : bn * s + bd * t = 1
  BY DEF Worth, Lowest, Coprime
<1>4. Times(a, b) = [n |-> left.n * right.n, d |-> left.d * right.d]
  BY DEF Times
<1>. HIDE DEF an, ad, bn, bd
<1>5. PICK k \in Nat \ {0} : an = k * left.n /\ bd = k * left.d /\ Lowest(left)
  BY <1>1, RatioReduces
<1>6. PICK j \in Nat \ {0} : bn = j * right.n /\ ad = j * right.d /\ Lowest(right)
  BY <1>1, RatioReduces
<1>. HIDE DEF left, right
<1>. DEFINE ln == left.n
            ld == left.d
            rn == right.n
            rd == right.d
<1>7. ln \in Int /\ rn \in Int /\ ld \in Nat \ {0} /\ rd \in Nat \ {0} /\ Coprime(ln, ld) /\ Coprime(rn, rd)
  BY <1>5, <1>6 DEF Lowest
<1>8. an = k * ln /\ bd = k * ld /\ bn = j * rn /\ ad = j * rd
  BY <1>5, <1>6
<1>. HIDE DEF ln, ld, rn, rd
<1>9. Coprime(ln, rd)
  <2>1. ln * (k * u) + rd * (j * v) = (k * ln) * u + (j * rd) * v
    BY <1>7
  <2>2. ln * (k * u) + rd * (j * v) = 1
    BY <1>2, <1>8, <2>1
  <2>3. k * u \in Int /\ j * v \in Int
    OBVIOUS
  <2>. QED
    BY <2>2, <2>3 DEF Coprime
<1>10. Coprime(rn, ld)
  <2>1. rn * (j * s) + ld * (k * t) = (j * rn) * s + (k * ld) * t
    BY <1>7
  <2>2. rn * (j * s) + ld * (k * t) = 1
    BY <1>3, <1>8, <2>1
  <2>3. j * s \in Int /\ k * t \in Int
    OBVIOUS
  <2>. QED
    BY <2>2, <2>3 DEF Coprime
<1>11. Coprime(ln, ld * rd)
  BY <1>7, <1>9, CoprimeProduct
<1>12. Coprime(rn, ld * rd)
  BY <1>7, <1>10, CoprimeProduct
<1>13. ld * rd \in Nat \ {0} /\ ln * rn \in Int
  <2>1. \A x, y \in Nat \ {0} : x * y \in Nat \ {0}
    OBVIOUS
  <2>. QED
    BY <1>7, <2>1
<1>14. Coprime(ln * rn, ld * rd)
  <2>. DEFINE z == ld * rd
  <2>1. z \in Int /\ Coprime(ln, z) /\ Coprime(rn, z)
    BY <1>11, <1>12, <1>13
  <2>2. Coprime(z, ln) /\ Coprime(z, rn)
    <3>. HIDE DEF z
    <3>. QED
      BY <1>7, <2>1, CoprimeSwaps
  <2>. HIDE DEF z
  <2>3. Coprime(ln * rn, z)
    BY <1>7, <2>1, <2>2, CoprimeProduct
  <2>. QED
    BY <2>3 DEF z
<1>15. Times(a, b) = [n |-> ln * rn, d |-> ld * rd]
  BY <1>4 DEF ln, ld, rn, rd
<1>16. Lowest(Times(a, b))
  BY <1>13, <1>14, <1>15 DEF Lowest
<1>17. (ln * rn) * (d * e) = (n * m) * (ld * rd)
  <2>. DEFINE x == (ln * rn) * (d * e)
              y == (n * m) * (ld * rd)
              c == k * j
  <2>1. c * x = (an * d) * (bn * e)
    <3>1. c * x = ((k * ln) * d) * ((j * rn) * e)
      BY <1>1, <1>7
    <3>. QED
      BY <1>8, <3>1
  <2>2. c * y = (n * ad) * (m * bd)
    <3>1. c * y = (n * (j * rd)) * (m * (k * ld))
      BY <1>1, <1>7
    <3>. QED
      BY <1>8, <3>1
  <2>3. c * x = c * y
    BY <1>1, <2>1, <2>2
  <2>4. x \in Int /\ y \in Int /\ c \in Nat \ {0}
    <3>1. \A f, g \in Nat \ {0} : f * g \in Nat \ {0}
      OBVIOUS
    <3>2. d * e \in Int /\ ld * rd \in Int /\ ln * rn \in Int /\ n * m \in Int /\ c \in Nat \ {0}
      BY <1>1, <1>7, <3>1
    <3>3. \A f, g \in Int : f * g \in Int
      OBVIOUS
    <3>. HIDE DEF c
    <3>. QED
      BY <3>2, <3>3
  <2>. HIDE DEF x, y, c
  <2>5. x > y => c * x > c * y
    BY <2>4
  <2>6. y > x => c * y > c * x
    BY <2>4
  <2>7. x = y
    BY <2>3, <2>4, <2>5, <2>6
  <2>. QED
    BY <2>7 DEF x, y
<1>18. n * m \in Int /\ d * e \in Nat \ {0}
  <2>1. \A f, g \in Nat \ {0} : f * g \in Nat \ {0}
    OBVIOUS
  <2>. QED
    BY <1>1, <2>1
<1>19. Times(a, b).n = ln * rn /\ Times(a, b).d = ld * rd
  BY <1>15
<1>. QED
  BY <1>16, <1>17, <1>18, <1>19 DEF Worth

\* A fraction in lowest terms is worth itself.
LEMMA LowestWorth ==
  ASSUME NEW a, Lowest(a)
  PROVE  Worth(a, a.n, a.d)
BY DEF Lowest, Worth

\* Sums.
LEMMA PlusWorth ==
  ASSUME NEW a, NEW b, NEW n, NEW d, NEW m, NEW e, Worth(a, n, d), Worth(b, m, e)
  PROVE  Worth(Plus(a, b), n * e + m * d, d * e)
<1>. DEFINE an == a.n
            ad == a.d
            bn == b.n
            bd == b.d
            k == Divisor(ad, bd)
            p == ad \div k
            q == bd \div k
            common == IF ad = bd THEN [n |-> an + bn, d |-> ad] ELSE [n |-> an * q + bn * p, d |-> p * bd]
            f == common.n
            g == common.d
<1>1. /\ an \in Int /\ bn \in Int /\ ad \in Nat \ {0} /\ bd \in Nat \ {0}
      /\ n \in Int /\ d \in Nat \ {0} /\ m \in Int /\ e \in Nat \ {0}
      /\ an * d = n * ad /\ bn * e = m * bd
  BY DEF Worth, Lowest
<1>2. Plus(a, b) = Ratio(f, g)
  BY DEF Plus
<1>. HIDE DEF an, ad, bn, bd
<1>3. k \in Nat \ {0} /\ p \in Nat \ {0} /\ q \in Nat \ {0} /\ ad = k * p /\ bd = k * q
  <2>1. k \in Common(ad, bd)
    BY <1>1, DivisorDivides
  <2>. HIDE DEF k
  <2>2. k \in Nat \ {0}
    BY <2>1 DEF Common
  <2>3. PICK x \in Int : ad = k * x
    BY <2>1 DEF Common, Divides
  <2>4. PICK y \in Int : bd = k * y
    BY <2>1 DEF Common, Divides
  <2>5. \A z \in Int : (k * z) \div k = z /\ (z =< 0 => k * z =< 0)
    BY <2>2
  <2>6. ad \div k = x /\ bd \div k = y /\ x > 0 /\ y > 0
    BY <1>1, <2>3, <2>4, <2>5
  <2>. QED
    BY <2>2, <2>3, <2>4, <2>6
<1>. HIDE DEF k, p, q
<1>4. \A x, y \in Nat \ {0} : x * y \in Nat \ {0}
  OBVIOUS
<1>5. \A x, y \in Int : x * y \in Int
  OBVIOUS
<1>6. f \in Int /\ g \in Nat \ {0}
  <2>1. p * bd \in Nat \ {0} /\ an * q + bn * p \in Int
    BY <1>1, <1>3, <1>4
  <2>. QED
    BY <1>1, <2>1
<1>7. f * (ad * bd) = (an * bd + bn * ad) * g
  <2>1. CASE ad = bd
    <3>1. f = an + bn /\ g = ad
      BY <2>1
    <3>2. (an + bn) * (ad * ad) = (an * ad + bn * ad) * ad
      BY <1>1
    <3>. QED
      BY <2>1, <3>1, <3>2
  <2>2. CASE ad # bd
    <3>1. f = an * q + bn * p /\ g = p * bd
      BY <2>2
    <3>2. an * bd + bn * ad = k * (an * q + bn * p)
      BY <1>1, <1>3
    <3>3. ad * bd = k * (p * bd)
      BY <1>1, <1>3
    <3>4. (an * q + bn * p) * (k * (p * bd)) = (k * (an * q + bn * p)) * (p * bd)
      <4>1. \A x, y, z \in Int : x * (z * y) = (z * x) * y
        OBVIOUS
      <4>2. an * q + bn * p \in Int /\ p * bd \in Int /\ k \in Int
        BY <1>1, <1>3, <1>4
      <4>. QED
        BY <4>1, <4>2
    <3>. QED
      BY <3>1, <3>2, <3>3, <3>4
  <2>. QED
    BY <2>1, <2>2
<1>8. Worth(Ratio(f, g), f, g)
  <2>. HIDE DEF f, g
  <2>. QED
    BY <1>6, RatioWorth
<1>. HIDE DEF f, g, common
<1>9. (an * bd + bn * ad) * (d * e) = (n * e + m * d) * (ad * bd)
  <2>1. (an * bd + bn * ad) * (d * e) = (an * d) * (bd * e) + (bn * e) * (ad * d)
    BY <1>1
  <2>2. (n * e + m * d) * (ad * bd) = (n * ad) * (bd * e) + (m * bd) * (ad * d)
    BY <1>1
  <2>. QED
    BY <1>1, <2>1, <2>2
<1>. DEFINE s == an * bd + bn * ad
            w == ad * bd
            z == n * e + m * d
            y == d * e
<1>10. s \in Int /\ w \in Nat \ {0} /\ z \in Int /\ y \in Nat \ {0}
  BY <1>1, <1>4
<1>11. f * w = s * g /\ s * y = z * w
  BY <1>7, <1>9
<1>. HIDE DEF s, w, z, y
<1>12. Worth(Ratio(f, g), s, w)
  BY <1>6, <1>8, <1>10, <1>11, WorthSame
<1>13. Worth(Ratio(f, g), z, y)
  BY <1>10, <1>11, <1>12, WorthSame
<1>. QED
  BY <1>2, <1>13 DEF z, y

\* Differences.
LEMMA MinusWorth ==
  ASSUME NEW a, NEW b, NEW n, NEW d, NEW m, NEW e, Worth(a, n, d), Worth(b, m, e)
  PROVE  Worth(Minus(a, b), n * e + (-m) * d, d * e)
<1>. DEFINE c == [b EXCEPT !.n = -@]
            bn == b.n
            bd == b.d
<1>1. b = [n |-> bn, d |-> bd] /\ bn \in Int /\ bd \in Nat \ {0} /\ m \in Int /\ e \in Nat \ {0} /\ bn * e = m * bd
  BY DEF Worth, Lowest
<1>2. PICK u \in Int, v \in Int : bn * u + bd * v = 1
  BY DEF Worth, Lowest, Coprime
<1>3. c = [n |-> -bn, d |-> bd]
  <2>. HIDE DEF bn, bd
  <2>. QED
    BY <1>1
<1>4. Minus(a, b) = Plus(a, c)
  BY DEF Minus
<1>. HIDE DEF bn, bd, c
<1>5. Coprime(-bn, bd)
  <2>1. (-bn) * (-u) = bn * u
    BY <1>1
  <2>2. (-bn) * (-u) + bd * v = 1
    BY <1>2, <2>1
  <2>. QED
    BY <2>2 DEF Coprime
<1>6. (-bn) * e = (-m) * bd
  <2>1. (-bn) * e = -(bn * e) /\ (-m) * bd = -(m * bd)
    BY <1>1
  <2>. QED
    BY <1>1, <2>1
<1>7. Worth(c, -m, e)
  BY <1>1, <1>3, <1>5, <1>6 DEF Worth, Lowest
<1>. QED
  BY <1>4, <1>7, PlusWorth

-----------------------------------------------------------------------------
(* Folds of fractions.                                                     *)

Combine(k, a, b) == IF k = "times" THEN Times(a, b) ELSE Plus(a, b)
Neutral(k) == IF k = "times" THEN Ratio(1, 1) ELSE Ratio(0, 1)

\* The laws of their arithmetic.
LEMMA CombineLaws ==
  ASSUME NEW k, NEW a, NEW b, NEW c, Lowest(a), Lowest(b), Lowest(c)
  PROVE  /\ Lowest(Combine(k, a, b))
         /\ Combine(k, a, b) = Combine(k, b, a)
         /\ Combine(k, a, Combine(k, b, c)) = Combine(k, b, Combine(k, a, c))
         /\ Combine(k, a, Neutral(k)) = a
         /\ Lowest(Neutral(k))
<1>. DEFINE an == a.n
            ad == a.d
            bn == b.n
            bd == b.d
            cn == c.n
            cd == c.d
<1>1. /\ an \in Int /\ bn \in Int /\ cn \in Int
      /\ ad \in Nat \ {0} /\ bd \in Nat \ {0} /\ cd \in Nat \ {0}
  BY DEF Lowest
<1>2. Worth(a, an, ad) /\ Worth(b, bn, bd) /\ Worth(c, cn, cd)
  BY LowestWorth
<1>. HIDE DEF an, ad, bn, bd, cn, cd
<1>3. \A x, y \in Nat \ {0} : x * y \in Nat \ {0}
  OBVIOUS
<1>4. \A x, y \in Int : x * y \in Int /\ x * y = y * x
  OBVIOUS
<1>5. CASE k = "times"
  <2>1. /\ Worth(Times(a, b), an * bn, ad * bd) /\ Worth(Times(b, a), bn * an, bd * ad)
        /\ Worth(Times(b, c), bn * cn, bd * cd) /\ Worth(Times(a, c), an * cn, ad * cd)
    BY <1>2, TimesWorth
  <2>2. Worth(Times(a, Times(b, c)), an * (bn * cn), ad * (bd * cd))
    BY <1>2, <2>1, TimesWorth
  <2>3. Worth(Times(b, Times(a, c)), bn * (an * cn), bd * (ad * cd))
    BY <1>2, <2>1, TimesWorth
  <2>4. bn * (an * cn) = an * (bn * cn) /\ bd * (ad * cd) = ad * (bd * cd) /\ bn * an = an * bn /\ bd * ad = ad * bd
    BY <1>1
  <2>5. Times(a, Times(b, c)) = Times(b, Times(a, c))
    BY <2>2, <2>3, <2>4, WorthIsUnique
  <2>6. Times(a, b) = Times(b, a)
    BY <2>1, <2>4, WorthIsUnique
  <2>7. Worth(Ratio(1, 1), 1, 1)
    BY RatioWorth
  <2>8. Worth(Times(a, Ratio(1, 1)), an * 1, ad * 1)
    BY <1>2, <2>7, TimesWorth
  <2>9. Times(a, Ratio(1, 1)) = a
    <3>1. an * 1 = an /\ ad * 1 = ad
      BY <1>1
    <3>. QED
      BY <1>2, <2>8, <3>1, WorthIsUnique
  <2>. QED
    BY <1>5, <2>1, <2>5, <2>6, <2>7, <2>9 DEF Combine, Neutral, Worth
<1>6. CASE k # "times"
  <2>1. /\ Worth(Plus(a, b), an * bd + bn * ad, ad * bd) /\ Worth(Plus(b, a), bn * ad + an * bd, bd * ad)
        /\ Worth(Plus(b, c), bn * cd + cn * bd, bd * cd) /\ Worth(Plus(a, c), an * cd + cn * ad, ad * cd)
    BY <1>2, PlusWorth
  <2>2. Worth(Plus(a, Plus(b, c)), an * (bd * cd) + (bn * cd + cn * bd) * ad, ad * (bd * cd))
    BY <1>2, <2>1, PlusWorth
  <2>3. Worth(Plus(b, Plus(a, c)), bn * (ad * cd) + (an * cd + cn * ad) * bd, bd * (ad * cd))
    BY <1>2, <2>1, PlusWorth
  <2>4. /\ bn * (ad * cd) + (an * cd + cn * ad) * bd = an * (bd * cd) + (bn * cd + cn * bd) * ad
        /\ bd * (ad * cd) = ad * (bd * cd) /\ bd * ad = ad * bd
    BY <1>1
  <2>5. Plus(a, Plus(b, c)) = Plus(b, Plus(a, c))
    BY <2>2, <2>3, <2>4, WorthIsUnique
  <2>6. Plus(a, b) = Plus(b, a)
    <3>1. bn * ad + an * bd = an * bd + bn * ad
      BY <1>1, <1>4
    <3>. QED
      BY <2>1, <2>4, <3>1, WorthIsUnique
  <2>7. Worth(Ratio(0, 1), 0, 1)
    BY RatioWorth
  <2>8. Worth(Plus(a, Ratio(0, 1)), an * 1 + 0 * ad, ad * 1)
    BY <1>2, <2>7, PlusWorth
  <2>9. Plus(a, Ratio(0, 1)) = a
    <3>1. an * 1 + 0 * ad = an /\ ad * 1 = ad
      BY <1>1
    <3>. QED
      BY <1>2, <2>8, <3>1, WorthIsUnique
  <2>. QED
    BY <1>6, <2>1, <2>5, <2>6, <2>7, <2>9 DEF Combine, Neutral, Worth
<1>. QED
  BY <1>5, <1>6

\* Tables of the folds over some sets.
Folds(k, i, f, U) ==
  \A s \in SUBSET U : i[s] = IF s = {} THEN Neutral(k) ELSE Combine(k, f[First(s)], i[s \ {First(s)}])

Fold(k, f, U) == (CHOOSE i : Folds(k, i, f, U))[U]

\* Finite sets have such a table.
LEMMA FoldsExist ==
  ASSUME NEW U, IsFiniteSet(U), NEW k, NEW f
  PROVE  \E i : Folds(k, i, f, U)
<1>. DEFINE next(i, s) == IF s = {} THEN Neutral(k) ELSE Combine(k, f[First(s)], i[s \ {First(s)}])
            T == {n \in Nat : \E i : \A s \in SUBSET U : Cardinality(s) =< n => i[s] = next(i, s)}
<1>1. \A s \in SUBSET U : IsFiniteSet(s) /\ Cardinality(s) \in Nat
  BY FS_Subset, FS_CardinalityType
<1>2. \A s \in SUBSET U : s # {} =>
        First(s) \in s /\ s \ {First(s)} \in SUBSET U /\ Cardinality(s \ {First(s)}) = Cardinality(s) - 1
  BY <1>1, FS_RemoveElement DEF First
<1>3. 0 \in T
  <2>. DEFINE i == [s \in SUBSET U |-> Neutral(k)]
  <2>1. \A s \in SUBSET U : Cardinality(s) =< 0 => s = {}
    BY <1>1, FS_EmptySet
  <2>2. \A s \in SUBSET U : Cardinality(s) =< 0 => i[s] = next(i, s)
    BY <2>1
  <2>. QED
    BY <2>2
<1>4. ASSUME NEW n \in T PROVE n + 1 \in T
  <2>1. PICK old : \A s \in SUBSET U : Cardinality(s) =< n => old[s] = next(old, s)
    OBVIOUS
  <2>. DEFINE new == [s \in SUBSET U |-> IF Cardinality(s) =< n THEN old[s] ELSE next(old, s)]
  <2>2. ASSUME NEW s \in SUBSET U, Cardinality(s) =< n + 1
        PROVE  new[s] = next(new, s)
    <3>1. CASE s = {}
      BY <2>1, <3>1
    <3>2. CASE s # {}
      <4>1. Cardinality(s \ {First(s)}) =< n /\ s \ {First(s)} \in SUBSET U
        BY <1>1, <1>2, <2>2, <3>2
      <4>2. new[s \ {First(s)}] = old[s \ {First(s)}]
        BY <4>1
      <4>3. new[s] = next(old, s)
        BY <2>1
      <4>. QED
        BY <3>2, <4>2, <4>3
    <3>. QED
      BY <3>1, <3>2
  <2>. HIDE DEF new, next
  <2>. QED
    BY <2>2
<1>. HIDE DEF T
<1>5. Cardinality(U) \in T
  <2>1. T \in SUBSET Nat
    BY DEF T
  <2>2. \A n \in Nat : n \in T
    BY <1>3, <1>4, <2>1, SetInduction
  <2>. QED
    BY <1>1, <2>2
<1>6. \A s \in SUBSET U : Cardinality(s) =< Cardinality(U)
  BY FS_Subset
<1>. QED
  BY <1>5, <1>6 DEF T, Folds

\* And only one.
LEMMA FoldsUnique ==
  ASSUME NEW U, IsFiniteSet(U), NEW k, NEW f, NEW g, \A x \in U : f[x] = g[x],
         NEW i, NEW j, Folds(k, i, f, U), Folds(k, j, g, U)
  PROVE  \A s \in SUBSET U : i[s] = j[s]
<1>. DEFINE T == {n \in Nat : \A s \in SUBSET U : Cardinality(s) = n => i[s] = j[s]}
<1>1. \A s \in SUBSET U : IsFiniteSet(s) /\ Cardinality(s) \in Nat
  BY FS_Subset, FS_CardinalityType
<1>2. \A s \in SUBSET U : s # {} =>
        First(s) \in s /\ s \ {First(s)} \in SUBSET U /\ Cardinality(s \ {First(s)}) = Cardinality(s) - 1
  BY <1>1, FS_RemoveElement DEF First
<1>3. 0 \in T
  <2>1. \A s \in SUBSET U : Cardinality(s) = 0 => s = {}
    BY <1>1, FS_EmptySet
  <2>. QED
    BY <2>1 DEF Folds
<1>4. ASSUME NEW n \in T PROVE n + 1 \in T
  <2>. SUFFICES ASSUME NEW s \in SUBSET U, Cardinality(s) = n + 1
                PROVE  i[s] = j[s]
    OBVIOUS
  <2>1. s # {}
    BY FS_EmptySet
  <2>2. i[s \ {First(s)}] = j[s \ {First(s)}]
    BY <1>2, <2>1
  <2>3. f[First(s)] = g[First(s)]
    BY <1>2, <2>1
  <2>. QED
    BY <2>1, <2>2, <2>3 DEF Folds
<1>. HIDE DEF T
<1>5. \A n \in Nat : n \in T
  <2>1. T \in SUBSET Nat
    BY DEF T
  <2>. QED
    BY <1>3, <1>4, <2>1, SetInduction
<1>. QED
  BY <1>1, <1>5 DEF T

\* A fold is what the table of its indices says of all of them, as is that of a
\* part.
LEMMA FoldIsTabled ==
  ASSUME NEW U, IsFiniteSet(U), NEW k, NEW f, NEW i, Folds(k, i, f, U)
  PROVE  \A D \in SUBSET U : Fold(k, f, D) = i[D]
<1>. SUFFICES ASSUME NEW D \in SUBSET U
              PROVE  Fold(k, f, D) = i[D]
  OBVIOUS
<1>1. IsFiniteSet(D)
  BY FS_Subset
<1>2. Folds(k, i, f, D)
  <2>1. SUBSET D \subseteq SUBSET U
    OBVIOUS
  <2>. QED
    BY <2>1 DEF Folds
<1>. DEFINE j == CHOOSE j : Folds(k, j, f, D)
<1>3. Folds(k, j, f, D)
  BY <1>2
<1>4. Fold(k, f, D) = j[D]
  BY DEF Fold
<1>. HIDE DEF j
<1>5. j[D] = i[D]
  BY <1>1, <1>2, <1>3, FoldsUnique
<1>. QED
  BY <1>4, <1>5

\* Folds of the same terms are the same.
LEMMA SameFold ==
  ASSUME NEW D, IsFiniteSet(D), NEW k, NEW f, NEW g, \A x \in D : f[x] = g[x]
  PROVE  Fold(k, f, D) = Fold(k, g, D)
<1>1. PICK i : Folds(k, i, f, D)
  BY FoldsExist
<1>2. PICK j : Folds(k, j, g, D)
  BY FoldsExist
<1>3. Fold(k, f, D) = i[D] /\ Fold(k, g, D) = j[D]
  BY <1>1, <1>2, FoldIsTabled
<1>4. \A s \in SUBSET D : i[s] = j[s]
  BY <1>1, <1>2, FoldsUnique
<1>. QED
  BY <1>3, <1>4

\* Tables of folds of fractions hold fractions.
LEMMA FoldsAreLowest ==
  ASSUME NEW U, IsFiniteSet(U), NEW k, NEW f, \A x \in U : Lowest(f[x]), NEW i, Folds(k, i, f, U)
  PROVE  \A s \in SUBSET U : Lowest(i[s])
<1>. DEFINE T == {n \in Nat : \A s \in SUBSET U : Cardinality(s) = n => Lowest(i[s])}
<1>1. \A s \in SUBSET U : IsFiniteSet(s) /\ Cardinality(s) \in Nat
  BY FS_Subset, FS_CardinalityType
<1>2. \A s \in SUBSET U : s # {} =>
        First(s) \in s /\ s \ {First(s)} \in SUBSET U /\ Cardinality(s \ {First(s)}) = Cardinality(s) - 1
  BY <1>1, FS_RemoveElement DEF First
<1>3. 0 \in T
  <2>1. \A s \in SUBSET U : Cardinality(s) = 0 => s = {}
    BY <1>1, FS_EmptySet
  <2>2. i[{}] = Neutral(k)
    BY DEF Folds
  <2>3. Lowest(Ratio(1, 1)) /\ Lowest(Ratio(0, 1))
    BY RatioWorth DEF Worth
  <2>. QED
    BY <2>1, <2>2, <2>3 DEF Neutral
<1>4. ASSUME NEW n \in T PROVE n + 1 \in T
  <2>. SUFFICES ASSUME NEW s \in SUBSET U, Cardinality(s) = n + 1
                PROVE  Lowest(i[s])
    OBVIOUS
  <2>1. s # {}
    <3>1. n \in Nat /\ n + 1 # 0
      OBVIOUS
    <3>2. Cardinality({}) = 0
      BY FS_EmptySet
    <3>. QED
      BY <3>1, <3>2
  <2>2. Lowest(i[s \ {First(s)}]) /\ Lowest(f[First(s)])
    BY <1>2, <2>1
  <2>3. i[s] = Combine(k, f[First(s)], i[s \ {First(s)}])
    BY <2>1 DEF Folds
  <2>. QED
    BY <2>2, <2>3, CombineLaws
<1>. HIDE DEF T
<1>5. \A n \in Nat : n \in T
  <2>1. T \in SUBSET Nat
    BY DEF T
  <2>. QED
    BY <1>3, <1>4, <2>1, SetInduction
<1>. QED
  BY <1>1, <1>5 DEF T

\* Folds of fractions are fractions, and whichever term is taken off first.
LEMMA FoldGrows ==
  ASSUME NEW U, IsFiniteSet(U), NEW k, NEW f, \A x \in U : Lowest(f[x])
  PROVE  /\ Fold(k, f, {}) = Neutral(k)
         /\ \A D \in SUBSET U :
              /\ Lowest(Fold(k, f, D))
              /\ \A x \in D : Fold(k, f, D) = Combine(k, f[x], Fold(k, f, D \ {x}))
<1>1. PICK i : Folds(k, i, f, U)
  BY FoldsExist
<1>2. \A D \in SUBSET U : Fold(k, f, D) = i[D]
  BY <1>1, FoldIsTabled
<1>3. \A s \in SUBSET U : IsFiniteSet(s) /\ Cardinality(s) \in Nat
  BY FS_Subset, FS_CardinalityType
<1>4. \A s \in SUBSET U : \A y \in s :
        s \ {y} \in SUBSET U /\ Cardinality(s \ {y}) = Cardinality(s) - 1
  BY <1>3, FS_RemoveElement
<1>5. /\ i[{}] = Neutral(k)
      /\ \A s \in SUBSET U : s # {} => First(s) \in s /\ i[s] = Combine(k, f[First(s)], i[s \ {First(s)}])
  BY <1>1 DEF Folds, First
<1>6. \A a, b, c : Lowest(a) /\ Lowest(b) /\ Lowest(c) =>
        /\ Lowest(Combine(k, a, b)) /\ Lowest(Neutral(k))
        /\ Combine(k, a, Combine(k, b, c)) = Combine(k, b, Combine(k, a, c))
  BY CombineLaws
<1>7. \A s \in SUBSET U : Lowest(i[s])
  BY <1>1, FoldsAreLowest
<1>. DEFINE T == {n \in Nat : \A s \in SUBSET U : Cardinality(s) = n =>
                                \A y \in s : i[s] = Combine(k, f[y], i[s \ {y}])}
<1>8. 0 \in T
  <2>1. \A s \in SUBSET U : Cardinality(s) = 0 => s = {}
    BY <1>3, FS_EmptySet
  <2>. QED
    BY <2>1
<1>9. ASSUME NEW n \in T PROVE n + 1 \in T
  <2>. SUFFICES ASSUME NEW s \in SUBSET U, Cardinality(s) = n + 1
                PROVE  \A y \in s : i[s] = Combine(k, f[y], i[s \ {y}])
    OBVIOUS
  <2>. DEFINE z == First(s)
  <2>0. s # {}
    <3>1. n \in Nat /\ n + 1 # 0
      OBVIOUS
    <3>2. Cardinality({}) = 0
      BY FS_EmptySet
    <3>. QED
      BY <3>1, <3>2
  <2>1. z \in s /\ i[s] = Combine(k, f[z], i[s \ {z}])
    BY <1>5, <2>0
  <2>. HIDE DEF z
  <2>2. \A y \in s : s \ {y} \in SUBSET U /\ Cardinality(s \ {y}) = n
    BY <1>4
  <2>3. \A y \in s : \A x \in s \ {y} : i[s \ {y}] = Combine(k, f[x], i[(s \ {y}) \ {x}])
    BY <2>2
  <2>5. ASSUME NEW y \in s
        PROVE  i[s] = Combine(k, f[y], i[s \ {y}])
    <3>1. CASE y = z
      BY <2>1, <3>1
    <3>2. CASE y # z
      <4>1. z \in s \ {y} /\ y \in s \ {z}
        BY <2>1, <3>2
      <4>2. i[s \ {y}] = Combine(k, f[z], i[(s \ {y}) \ {z}]) /\ i[s \ {z}] = Combine(k, f[y], i[(s \ {z}) \ {y}])
        BY <2>1, <2>3, <4>1
      <4>3. (s \ {y}) \ {z} = (s \ {z}) \ {y}
        OBVIOUS
      <4>. DEFINE r == i[(s \ {y}) \ {z}]
      <4>4. Lowest(r)
        <5>1. (s \ {y}) \ {z} \in SUBSET U
          OBVIOUS
        <5>. QED
          BY <1>7, <5>1
      <4>5. Lowest(f[y]) /\ Lowest(f[z])
        BY <2>1
      <4>6. i[s] = Combine(k, f[z], Combine(k, f[y], r)) /\ i[s \ {y}] = Combine(k, f[z], r)
        BY <2>1, <4>2, <4>3
      <4>. HIDE DEF r
      <4>. QED
        BY <1>6, <4>4, <4>5, <4>6
    <3>. QED
      BY <3>1, <3>2
  <2>. QED
    BY <2>5
<1>. HIDE DEF T
<1>10. \A n \in Nat : n \in T
  <2>1. T \in SUBSET Nat
    BY DEF T
  <2>. QED
    BY <1>8, <1>9, <2>1, SetInduction
<1>11. \A D \in SUBSET U : Lowest(i[D]) /\ \A x \in D : i[D] = Combine(k, f[x], i[D \ {x}])
  BY <1>3, <1>7, <1>10 DEF T
<1>12. \A D \in SUBSET U : \A x \in D : D \ {x} \in SUBSET U
  OBVIOUS
<1>. QED
  BY <1>2, <1>5, <1>11, <1>12

\* So for each of its terms.
LEMMA FoldOfOneMore ==
  ASSUME NEW D, IsFiniteSet(D), NEW k, NEW f, \A y \in D : Lowest(f[y]), NEW x \in D, NEW E, E = D \ {x}
  PROVE  /\ Fold(k, f, D) = Combine(k, f[x], Fold(k, f, E))
         /\ Lowest(Fold(k, f, D)) /\ Lowest(Fold(k, f, E))
<1>1. D \in SUBSET D /\ E \in SUBSET D
  OBVIOUS
<1>2. /\ \A S \in SUBSET D : Lowest(Fold(k, f, S))
      /\ \A S \in SUBSET D : \A y \in S : Fold(k, f, S) = Combine(k, f[y], Fold(k, f, S \ {y}))
  BY FoldGrows, SMT
<1>. QED
  BY <1>1, <1>2, SMT

\* Neutral terms do not count.
LEMMA FoldWithoutNeutral ==
  ASSUME NEW U, IsFiniteSet(U), NEW k, NEW f, \A x \in U : Lowest(f[x]),
         NEW S \in SUBSET U, \A x \in U \ S : f[x] = Neutral(k)
  PROVE  Fold(k, f, U) = Fold(k, f, S)
<1>0. \A D \in SUBSET U : IsFiniteSet(D)
  BY FS_Subset
<1>. DEFINE P == {D \in SUBSET U : Fold(k, f, D) = Fold(k, f, D \cap S)}
<1>1. {} \in P
  <2>1. {} \cap S = {}
    OBVIOUS
  <2>. QED
    BY <2>1
<1>2. ASSUME NEW D \in P, NEW x \in U \ D
      PROVE  D \cup {x} \in P
  <2>1. D \in SUBSET U /\ Fold(k, f, D) = Fold(k, f, D \cap S)
    OBVIOUS
  <2>. DEFINE E == D \cup {x}
              C == E \cap S
  <2>3. E \in SUBSET U /\ x \in E /\ C \in SUBSET U /\ D = E \ {x}
    BY <2>1
  <2>4. IsFiniteSet(E) /\ IsFiniteSet(C) /\ (\A y \in E : Lowest(f[y])) /\ \A y \in C : Lowest(f[y])
    BY <1>0, <2>3
  <2>. HIDE DEF E
  <2>7. Fold(k, f, E) = Combine(k, f[x], Fold(k, f, D)) /\ Lowest(Fold(k, f, D))
    BY <2>3, <2>4, FoldOfOneMore, SMT
  <2>5. CASE x \in S
    <3>1. D \cap S = C \ {x} /\ x \in C
      BY <2>3, <2>5
    <3>. HIDE DEF C
    <3>3. Fold(k, f, C) = Combine(k, f[x], Fold(k, f, D \cap S))
      BY <2>4, <3>1, FoldOfOneMore, SMT
    <3>4. Fold(k, f, E) = Fold(k, f, C)
      BY <2>1, <2>7, <3>3
    <3>. QED
      BY <2>3, <3>4 DEF E, C
  <2>6. CASE x \notin S
    <3>1. C = D \cap S /\ f[x] = Neutral(k)
      BY <2>3, <2>6
    <3>3. Lowest(Neutral(k))
      BY <2>7, CombineLaws
    <3>4. Combine(k, Neutral(k), Fold(k, f, D)) = Fold(k, f, D)
      BY <2>7, <3>3, CombineLaws
    <3>6. Fold(k, f, E) = Fold(k, f, C)
      BY <2>1, <2>7, <3>1, <3>4, Zenon
    <3>. QED
      BY <2>3, <3>6 DEF E, C
  <2>. QED
    BY <2>5, <2>6
<1>. HIDE DEF P
<1>3. U \in P
  <2>1. P \in SUBSET (SUBSET U)
    BY DEF P
  <2>. QED
    BY <1>1, <1>2, <2>1, SubsetInduction
<1>4. U \cap S = S
  OBVIOUS
<1>. QED
  BY <1>3, <1>4 DEF P

\* What a run has grown to is such a fold.
LEMMA CompoundedIsFold ==
  ASSUME NEW run, IsFiniteSet(DOMAIN run)
  PROVE  Compounded(run) = Fold("times", run, DOMAIN run)
<1>. DEFINE D == DOMAIN run
            F(j) == [s \in SUBSET D |-> IF s = {} THEN Ratio(1, 1)
                                        ELSE Times(run[First(s)], j[s \ {First(s)}])]
            iter == CHOOSE j : j = F(j)
<1>1. Compounded(run) = iter[D]
  BY DEF Compounded, Product, FoldSet, MapThenFoldSet, First
<1>2. PICK i : Folds("times", i, run, D)
  BY FoldsExist
<1>. DEFINE mine == [s \in SUBSET D |-> i[s]]
<1>3. mine = F(mine)
  <2>1. ASSUME NEW s \in SUBSET D
        PROVE  mine[s] = F(mine)[s]
    <3>1. s # {} => s \ {First(s)} \in SUBSET D
      OBVIOUS
    <3>. QED
      BY <1>2, <3>1 DEF Folds, Combine, Neutral
  <2>. QED
    BY <2>1
<1>4. iter = F(iter)
  <2>. HIDE DEF F, mine
  <2>. QED
    BY <1>3
<1>5. Folds("times", iter, run, D)
  <2>. HIDE DEF iter
  <2>. QED
    BY <1>4 DEF Folds, Combine, Neutral
<1>6. Fold("times", run, D) = iter[D]
  <2>. HIDE DEF iter
  <2>. QED
    BY <1>5, FoldIsTabled
<1>. QED
  BY <1>1, <1>6

\* Whole numbers are over one.
LEMMA RatioWhole ==
  ASSUME NEW n \in Nat
  PROVE  Ratio(n, 1) = [n |-> n, d |-> 1]
<1>. DEFINE r == [n |-> n, d |-> 1]
<1>1. Coprime(n, 1)
  <2>1. n * 0 + 1 * 1 = 1
    OBVIOUS
  <2>. QED
    BY <2>1 DEF Coprime
<1>2. r = [n |-> r.n, d |-> r.d] /\ r.n = n /\ r.d = 1
  OBVIOUS
<1>3. Worth(r, n, 1)
  BY <1>1, <1>2 DEF Worth, Lowest
<1>4. Worth(Ratio(n, 1), n, 1)
  BY RatioWorth
<1>. HIDE DEF r
<1>5. Ratio(n, 1) = r
  BY <1>3, <1>4, WorthIsUnique
<1>. QED
  BY <1>5 DEF r

\* What is made of finitely many things is finite.
LEMMA FiniteImage ==
  ASSUME NEW S, IsFiniteSet(S), NEW f
  PROVE  IsFiniteSet({f[x] : x \in S})
<1>. DEFINE T == {f[x] : x \in S}
            g == [x \in S |-> f[x]]
<1>1. g \in Surjection(S, T)
  BY DEF Surjection
<1>. QED
  BY <1>1, FS_Surjection

\* Whole fractions multiply like whole numbers.
LEMMA TimesWhole ==
  ASSUME NEW m \in Nat \ {0}, NEW n \in Nat \ {0}
  PROVE  m * n \in Nat \ {0} /\ Times(Ratio(m, 1), Ratio(n, 1)) = Ratio(m * n, 1)
<1>1. m * n \in Nat \ {0} /\ 1 * 1 = 1
  OBVIOUS
<1>2. Worth(Ratio(m, 1), m, 1) /\ Worth(Ratio(n, 1), n, 1) /\ Worth(Ratio(m * n, 1), m * n, 1)
  BY <1>1, RatioWorth
<1>3. Worth(Times(Ratio(m, 1), Ratio(n, 1)), m * n, 1 * 1)
  BY <1>2, TimesWorth
<1>. QED
  BY <1>1, <1>2, <1>3, WorthIsUnique

-----------------------------------------------------------------------------
(* Sets in order, and spells that take turns.                              *)

\* Sets whose elements pair up are as large.
Pairs(f, S, T) ==
  /\ \A x \in S : f[x] \in T
  /\ \A x, y \in S : f[x] = f[y] => x = y
  /\ \A z \in T : \E x \in S : f[x] = z

LEMMA SameSize ==
  ASSUME NEW S, NEW T, NEW f, Pairs(f, S, T), IsFiniteSet(S)
  PROVE  IsFiniteSet(T) /\ Cardinality(T) = Cardinality(S) /\ Cardinality(S) \in Nat
<1>. DEFINE g == [x \in S |-> f[x]]
<1>1. g \in Bijection(S, T)
  <2>1. g \in [S -> T] /\ (\A x, y \in S : g[x] = g[y] => x = y) /\ \A z \in T : \E x \in S : g[x] = z
    BY DEF Pairs
  <2>. HIDE DEF g
  <2>. QED
    BY <2>1 DEF Bijection, Injection, Surjection, IsInjective
<1>. QED
  BY <1>1, FS_Bijection, FS_CardinalityType DEF ExistsBijection

\* A sequence that has the elements of a set in ascending order.
Rises(s, n, S) ==
  /\ DOMAIN s = 1..n
  /\ \A k \in 1..n : s[k] \in S
  /\ \A j, k \in 1..n : j < k => s[j] < s[k]
  /\ \A x \in S : \E k \in 1..n : s[k] = x

\* How many are not above each tells them apart, up to the size of the set.
Place(S, x) == Cardinality({y \in S : y =< x})

LEMMA PlacesDiffer ==
  ASSUME NEW S \in SUBSET Int, IsFiniteSet(S)
  PROVE  /\ Cardinality(S) \in Nat
         /\ \A x \in S : Place(S, x) \in 1..Cardinality(S)
         /\ \A x, y \in S : x < y => Place(S, x) < Place(S, y)
         /\ \A k \in 1..Cardinality(S) : \E x \in S : Place(S, x) = k
<1>. DEFINE n == Cardinality(S)
            upto(x) == {y \in S : y =< x}
            f == [x \in S |-> Place(S, x)]
<1>1. n \in Nat
  BY FS_CardinalityType
<1>2. ASSUME NEW x \in S
      PROVE  IsFiniteSet(upto(x)) /\ Cardinality(upto(x)) \in 1..n
  <2>1. upto(x) \in SUBSET S /\ x \in upto(x)
    OBVIOUS
  <2>. HIDE DEF upto
  <2>2. IsFiniteSet(upto(x)) /\ Cardinality(upto(x)) =< n /\ Cardinality(upto(x)) \in Nat
    BY <2>1, FS_Subset, FS_CardinalityType
  <2>3. Cardinality(upto(x)) # 0
    BY <2>1, <2>2, FS_EmptySet
  <2>. QED
    BY <1>1, <2>2, <2>3
<1>3. ASSUME NEW x \in S, NEW y \in S, x < y
      PROVE  Place(S, x) < Place(S, y)
  <2>1. upto(x) \in SUBSET upto(y) /\ y \in upto(y) /\ ~(y \in upto(x))
    <3>1. x \in Int /\ y \in Int /\ \A z \in S : z \in Int
      OBVIOUS
    <3>2. \A z \in S : z =< x => z =< y
      BY <1>3, <3>1
    <3>3. y =< y /\ ~(y =< x)
      BY <1>3, <3>1
    <3>. QED
      BY <3>2, <3>3
  <2>2. IsFiniteSet(upto(y)) /\ Cardinality(upto(y)) \in 1..n /\ Cardinality(upto(x)) \in 1..n
    BY <1>2
  <2>. HIDE DEF upto
  <2>3. Cardinality(upto(x)) =< Cardinality(upto(y)) /\ Cardinality(upto(x)) # Cardinality(upto(y))
    BY <2>1, <2>2, FS_Subset
  <2>4. Cardinality(upto(x)) < Cardinality(upto(y))
    BY <1>1, <2>2, <2>3
  <2>. QED
    BY <2>4 DEF upto, Place
<1>4. \A x \in S : Place(S, x) \in 1..n
  BY <1>2 DEF Place
<1>5. f \in Injection(S, 1..n)
  <2>1. \A x, y \in S : Place(S, x) = Place(S, y) => x = y
    <3>. SUFFICES ASSUME NEW x \in S, NEW y \in S, Place(S, x) = Place(S, y), x # y
                  PROVE  FALSE
      OBVIOUS
    <3>1. x < y \/ y < x
      OBVIOUS
    <3>. QED
      BY <1>1, <1>3, <1>4, <3>1
  <2>2. f \in [S -> 1..n] /\ \A x, y \in S : f[x] = f[y] => x = y
    BY <1>4, <2>1
  <2>. HIDE DEF f
  <2>. QED
    BY <2>2 DEF Injection, IsInjective
<1>6. f \in Surjection(S, 1..n)
  <2>1. IsFiniteSet(1..n) /\ Cardinality(1..n) = n
    BY <1>1, FS_Interval
  <2>. HIDE DEF f
  <2>. QED
    BY <1>5, <2>1, FS_Injection
<1>7. \A k \in 1..n : \E x \in S : Place(S, x) = k
  <2>1. \A k \in 1..n : \E x \in S : f[x] = k
    BY <1>6 DEF Surjection
  <2>. QED
    BY <2>1
<1>. QED
  BY <1>1, <1>3, <1>4, <1>7

\* In order they rise.
LEMMA InOrderRises ==
  ASSUME NEW S \in SUBSET Int, IsFiniteSet(S)
  PROVE  Cardinality(S) \in Nat /\ Rises(InOrder(S), Cardinality(S), S)
<1>. DEFINE n == Cardinality(S)
            s == InOrder(S)
<1>1. /\ n \in Nat /\ \A x \in S : Place(S, x) \in 1..n
      /\ \A x, y \in S : x < y => Place(S, x) < Place(S, y)
      /\ \A k \in 1..n : \E x \in S : Place(S, x) = k
  BY PlacesDiffer
<1>2. DOMAIN s = 1..n /\ \A k \in 1..n : s[k] = CHOOSE x \in S : Place(S, x) = k
  BY DEF InOrder, Place
<1>. HIDE DEF s
<1>3. \A k \in 1..n : s[k] \in S /\ Place(S, s[k]) = k
  BY <1>1, <1>2
<1>4. \A x \in S, y \in S : Place(S, x) = Place(S, y) => x = y
  <2>. SUFFICES ASSUME NEW x \in S, NEW y \in S, Place(S, x) = Place(S, y), x # y
                PROVE  FALSE
    OBVIOUS
  <2>1. x < y \/ y < x
    OBVIOUS
  <2>. QED
    BY <1>1, <2>1
<1>5. ASSUME NEW j \in 1..n, NEW k \in 1..n, j < k
      PROVE  s[j] < s[k]
  <2>1. s[j] \in S /\ s[k] \in S /\ Place(S, s[j]) = j /\ Place(S, s[k]) = k
    BY <1>3
  <2>2. s[j] \in Int /\ s[k] \in Int /\ j \in Int /\ k \in Int
    <3>. HIDE DEF n
    <3>1. j \in Int /\ k \in Int
      BY <1>1
    <3>2. s[j] \in Int /\ s[k] \in Int
      BY <2>1
    <3>. QED
      BY <3>1, <3>2
  <2>3. s[k] < s[j] => k < j
    BY <1>1, <2>1
  <2>4. s[j] = s[k] => j = k
    BY <2>1
  <2>5. ~(k < j) /\ j # k
    BY <1>5, <2>2
  <2>. QED
    BY <2>2, <2>3, <2>4, <2>5
<1>6. \A x \in S : \E k \in 1..n : s[k] = x
  BY <1>1, <1>3, <1>4
<1>. QED
  BY <1>1, <1>2, <1>3, <1>5, <1>6 DEF Rises, s

\* There is one such sequence.
LEMMA RisesOnce ==
  ASSUME NEW S \in SUBSET Int, IsFiniteSet(S), NEW n \in Nat, NEW s, Rises(s, n, S)
  PROVE  n = Cardinality(S) /\ \A k \in 1..n : InOrder(S)[k] = s[k]
<1>1. /\ Cardinality(S) \in Nat /\ \A x \in S : Place(S, x) \in 1..Cardinality(S)
      /\ \A x, y \in S : x < y => Place(S, x) < Place(S, y)
  BY PlacesDiffer
<1>2. /\ \A k \in 1..n : s[k] \in S
      /\ \A j, k \in 1..n : j < k => s[j] < s[k]
      /\ \A x \in S : \E k \in 1..n : s[k] = x
  BY DEF Rises
<1>3. \A j, k \in 1..n : j # k => j < k \/ k < j
  OBVIOUS
<1>4. \A j, k \in 1..n : s[j] = s[k] => j = k
  <2>. SUFFICES ASSUME NEW j \in 1..n, NEW k \in 1..n, s[j] = s[k], j # k
                PROVE  FALSE
    OBVIOUS
  <2>1. s[j] < s[k] \/ s[k] < s[j]
    BY <1>2, <1>3
  <2>2. s[j] \in Int
    BY <1>2
  <2>. QED
    BY <2>1, <2>2
<1>5. n = Cardinality(S)
  <2>1. Pairs(s, 1..n, S)
    BY <1>2, <1>4 DEF Pairs
  <2>2. IsFiniteSet(1..n) /\ Cardinality(1..n) = n
    BY FS_Interval
  <2>. QED
    BY <2>1, <2>2, SameSize
<1>6. ASSUME NEW k \in 1..n
      PROVE  Place(S, s[k]) = k
  <2>. DEFINE T == {y \in S : y =< s[k]}
  <2>1. \A j \in 1..k : j \in 1..n /\ (j < k \/ j = k)
    OBVIOUS
  <2>0. \A j \in 1..n : s[j] \in S /\ s[j] \in Int
    BY <1>2
  <2>2. \A j \in 1..k : s[j] \in T
    <3>1. \A j \in 1..k : s[j] < s[k] \/ s[j] = s[k]
      BY <1>2, <2>1
    <3>. QED
      BY <2>0, <2>1, <3>1
  <2>3. \A y \in T : \E j \in 1..k : s[j] = y
    <3>. SUFFICES ASSUME NEW y \in T
                  PROVE  \E j \in 1..k : s[j] = y
      OBVIOUS
    <3>1. PICK j \in 1..n : s[j] = y
      BY <1>2
    <3>2. ~(k < j)
      <4>1. k < j => s[k] < y
        BY <1>2, <3>1
      <4>. QED
        BY <2>0, <3>1, <4>1
    <3>. QED
      BY <3>1, <3>2
  <2>4. Pairs(s, 1..k, T)
    <3>. HIDE DEF T
    <3>. QED
      BY <1>4, <2>1, <2>2, <2>3 DEF Pairs
  <2>5. IsFiniteSet(1..k) /\ Cardinality(1..k) = k
    BY FS_Interval
  <2>6. Cardinality(T) = k
    <3>. HIDE DEF T
    <3>. QED
      BY <2>4, <2>5, SameSize
  <2>. QED
    BY <2>6 DEF Place
<1>7. \A x, y \in S : Place(S, x) = Place(S, y) => x = y
  <2>. SUFFICES ASSUME NEW x \in S, NEW y \in S, Place(S, x) = Place(S, y), x # y
                PROVE  FALSE
    OBVIOUS
  <2>1. x < y \/ y < x
    OBVIOUS
  <2>. QED
    BY <1>1, <2>1
<1>8. ASSUME NEW k \in 1..n
      PROVE  InOrder(S)[k] = s[k]
  <2>1. InOrder(S)[k] = CHOOSE x \in S : Place(S, x) = k
    BY <1>5 DEF InOrder, Place
  <2>. QED
    BY <1>2, <1>6, <1>7, <2>1
<1>. QED
  BY <1>5, <1>8

\* What the spells of a sequence are that take turns.
Turn(first, i) == (i % 2 = 1) = first

\* A sequence of m spells that take turns, each with its end.
Spelled(g, e, m, first) ==
  /\ m \in Nat \ {0} /\ first \in BOOLEAN /\ e[0] = 0
  /\ \A i \in 1..m : e[i - 1] \in Nat /\ e[i] \in Nat /\ e[i - 1] < e[i]
  /\ DOMAIN g = 1..e[m]
  /\ \A i \in 1..m : \A p \in e[i - 1] + 1..e[i] : g[p] = Turn(first, i)

\* Every place is in one spell.
LEMMA InASpell ==
  ASSUME NEW g, NEW e, NEW m, NEW first, Spelled(g, e, m, first)
  PROVE  /\ \A i \in 0..m : e[i] \in Nat
         /\ \A i, j \in 0..m : i < j => e[i] < e[j]
         /\ \A p \in 1..e[m] : \E i \in 1..m : e[i - 1] < p /\ p =< e[i]
         /\ \A i, j \in 1..m : \A p \in Nat :
              e[i - 1] < p /\ p =< e[i] /\ e[j - 1] < p /\ p =< e[j] => i = j
<1>1. /\ m \in Nat \ {0} /\ e[0] = 0
      /\ \A i \in 1..m : e[i - 1] \in Nat /\ e[i] \in Nat /\ e[i - 1] < e[i]
  BY DEF Spelled
<1>2. \A i \in 0..m : e[i] \in Nat
  <2>1. \A i \in 0..m : i = 0 \/ i \in 1..m
    BY <1>1
  <2>. QED
    BY <1>1, <2>1
<1>. DEFINE T == {n \in Nat : n =< m => /\ \A i \in 0..m : i < n => e[i] < e[n]
                                        /\ \A p \in 1..e[n] : \E i \in 1..n : e[i - 1] < p /\ p =< e[i]}
<1>3. 0 \in T
  BY <1>1
<1>4. ASSUME NEW n \in T PROVE n + 1 \in T
  <2>. SUFFICES ASSUME n + 1 =< m
                PROVE  /\ \A i \in 0..m : i < n + 1 => e[i] < e[n + 1]
                       /\ \A p \in 1..e[n + 1] : \E i \in 1..n + 1 : e[i - 1] < p /\ p =< e[i]
    OBVIOUS
  <2>1. /\ n \in 0..m /\ n + 1 \in 1..m /\ (n + 1) - 1 = n
        /\ \A i \in 0..m : i < n => e[i] < e[n]
        /\ \A p \in 1..e[n] : \E i \in 1..n : e[i - 1] < p /\ p =< e[i]
    BY <1>1
  <2>2. e[n] \in Nat /\ e[n + 1] \in Nat /\ e[n] < e[n + 1]
    BY <1>1, <2>1
  <2>. HIDE DEF T
  <2>3. ASSUME NEW i \in 0..m, i < n + 1
        PROVE  e[i] < e[n + 1]
    <3>1. e[i] \in Nat /\ (i < n \/ i = n)
      BY <1>2, <2>1, <2>3
    <3>. QED
      BY <2>1, <2>2, <3>1
  <2>4. ASSUME NEW p \in 1..e[n + 1]
        PROVE  \E i \in 1..n + 1 : e[i - 1] < p /\ p =< e[i]
    <3>0. p \in Nat /\ p =< e[n + 1] /\ n + 1 \in 1..n + 1 /\ \A i \in 1..n : i \in 1..n + 1
      BY <2>1, <2>2
    <3>1. CASE p =< e[n]
      <4>1. p \in 1..e[n]
        BY <2>2, <2>4, <3>1
      <4>2. PICK i \in 1..n : e[i - 1] < p /\ p =< e[i]
        BY <2>1, <4>1
      <4>. QED
        BY <3>0, <4>2
    <3>2. CASE ~(p =< e[n])
      <4>1. e[(n + 1) - 1] < p
        BY <2>1, <2>2, <3>0, <3>2
      <4>. QED
        BY <3>0, <4>1
    <3>. QED
      BY <3>1, <3>2
  <2>. QED
    BY <2>3, <2>4
<1>. HIDE DEF T
<1>5. \A n \in Nat : n \in T
  <2>1. T \in SUBSET Nat
    BY DEF T
  <2>. QED
    BY <1>3, <1>4, <2>1, SetInduction
<1>6. \A i, j \in 0..m : i < j => e[i] < e[j]
  <2>1. \A j \in 0..m : j \in Nat /\ j =< m
    BY <1>1
  <2>. QED
    BY <1>5, <2>1 DEF T
<1>7. \A p \in 1..e[m] : \E i \in 1..m : e[i - 1] < p /\ p =< e[i]
  <2>1. m \in Nat /\ m =< m
    BY <1>1
  <2>. QED
    BY <1>5, <2>1 DEF T
<1>8. ASSUME NEW i \in 1..m, NEW j \in 1..m, NEW p \in Nat,
             e[i - 1] < p, p =< e[i], e[j - 1] < p, p =< e[j], i < j
      PROVE  FALSE
  <2>1. i \in 0..m /\ j - 1 \in 0..m /\ (i < j - 1 \/ i = j - 1)
    BY <1>1, <1>8
  <2>2. e[i] \in Nat /\ e[j - 1] \in Nat
    BY <1>2, <2>1
  <2>3. e[i] < e[j - 1] \/ e[i] = e[j - 1]
    BY <1>6, <2>1
  <2>. QED
    BY <1>8, <2>2, <2>3
<1>9. \A i, j \in 1..m : i = j \/ i < j \/ j < i
  BY <1>1
<1>. QED
  BY <1>2, <1>6, <1>7, <1>8, <1>9

\* It switches as often as spells follow on one another.
LEMMA SpellsSwitch ==
  ASSUME NEW g, NEW e, NEW m, NEW first, Spelled(g, e, m, first)
  PROVE  Cardinality({p \in DOMAIN g : p + 1 \in DOMAIN g /\ g[p] # g[p + 1]}) = m - 1
<1>. DEFINE W == {p \in DOMAIN g : p + 1 \in DOMAIN g /\ g[p] # g[p + 1]}
<1>1. /\ m \in Nat \ {0} /\ first \in BOOLEAN /\ e[0] = 0 /\ DOMAIN g = 1..e[m]
      /\ \A i \in 1..m : e[i - 1] \in Nat /\ e[i] \in Nat /\ e[i - 1] < e[i]
      /\ \A i \in 1..m : \A p \in e[i - 1] + 1..e[i] : g[p] = Turn(first, i)
  BY DEF Spelled
<1>2. /\ \A i \in 0..m : e[i] \in Nat
      /\ \A i, j \in 0..m : i < j => e[i] < e[j]
      /\ \A p \in 1..e[m] : \E i \in 1..m : e[i - 1] < p /\ p =< e[i]
  BY InASpell
<1>3. ASSUME NEW i \in 1..m - 1
      PROVE  e[i] \in W
  <2>1. i \in 1..m /\ i + 1 \in 1..m /\ (i + 1) - 1 = i /\ i \in 0..m /\ m \in 0..m /\ i < m
    BY <1>1
  <2>2. /\ e[i - 1] \in Nat /\ e[i] \in Nat /\ e[i + 1] \in Nat /\ e[m] \in Nat
        /\ e[i - 1] < e[i] /\ e[i] < e[i + 1] /\ e[i] < e[m]
    BY <1>1, <1>2, <2>1
  <2>3. e[i] \in e[i - 1] + 1..e[i] /\ e[i] + 1 \in e[(i + 1) - 1] + 1..e[i + 1]
    BY <2>1, <2>2
  <2>4. g[e[i]] = Turn(first, i) /\ g[e[i] + 1] = Turn(first, i + 1)
    BY <1>1, <2>1, <2>3
  <2>5. Turn(first, i) # Turn(first, i + 1)
    <3>1. (i % 2 = 1) <=> ~((i + 1) % 2 = 1)
      BY <2>1
    <3>. QED
      BY <1>1, <3>1 DEF Turn
  <2>6. e[i] \in 1..e[m] /\ e[i] + 1 \in 1..e[m]
    BY <2>2
  <2>. QED
    BY <1>1, <2>4, <2>5, <2>6
<1>4. ASSUME NEW p \in W
      PROVE  \E i \in 1..m - 1 : e[i] = p
  <2>1. p \in 1..e[m] /\ p + 1 \in 1..e[m] /\ g[p] # g[p + 1]
    BY <1>1
  <2>2. PICK i \in 1..m : e[i - 1] < p /\ p =< e[i]
    BY <1>2, <2>1
  <2>3. e[i - 1] \in Nat /\ e[i] \in Nat /\ e[m] \in Nat /\ p \in Nat
    BY <1>1, <1>2, <2>1
  <2>4. p = e[i]
    <3>. SUFFICES ASSUME p < e[i]
                  PROVE  FALSE
      BY <2>2, <2>3
    <3>1. p \in e[i - 1] + 1..e[i] /\ p + 1 \in e[i - 1] + 1..e[i]
      BY <2>2, <2>3
    <3>. QED
      BY <1>1, <2>1, <3>1
  <2>5. i # m
    BY <2>1, <2>3, <2>4
  <2>6. i \in 1..m - 1
    BY <1>1, <2>5
  <2>. QED
    BY <2>4, <2>6
<1>5. \A i, j \in 1..m - 1 : e[i] = e[j] => i = j
  <2>. SUFFICES ASSUME NEW i \in 1..m - 1, NEW j \in 1..m - 1, i < j
                PROVE  e[i] # e[j]
    BY <1>1
  <2>1. i \in 0..m /\ j \in 0..m
    BY <1>1
  <2>2. e[i] \in Nat /\ e[j] \in Nat /\ e[i] < e[j]
    BY <1>2, <2>1
  <2>. QED
    BY <2>2
<1>6. Pairs(e, 1..m - 1, W)
  <2>. HIDE DEF W
  <2>. QED
    BY <1>3, <1>4, <1>5 DEF Pairs
<1>7. IsFiniteSet(1..m - 1) /\ Cardinality(1..m - 1) = m - 1
  BY <1>1, FS_Interval
<1>. HIDE DEF W
<1>8. Cardinality(W) = m - 1
  BY <1>6, <1>7, SameSize
<1>. QED
  BY <1>8 DEF W

\* Spells as long as those of another sequence, in another order of each kind.
Reordered(e, d, o, m, first) ==
  /\ \A i \in 1..m : o[i] \in 1..m /\ Turn(first, o[i]) = Turn(first, i)
  /\ \A i, j \in 1..m : o[i] = o[j] => i = j
  /\ \A i \in 1..m : e[i] - e[i - 1] = d[o[i]] - d[o[i] - 1]

\* Such sequences are as long, and on as long.
LEMMA SpellsMatch ==
  ASSUME NEW g, NEW h, NEW e, NEW d, NEW o, NEW m, NEW first,
         Spelled(g, e, m, first), Spelled(h, d, m, first), Reordered(e, d, o, m, first)
  PROVE  /\ e[m] = d[m]
         /\ Cardinality({p \in DOMAIN g : g[p]}) = Cardinality({p \in DOMAIN h : h[p]})
<1>. DEFINE in(p) == CHOOSE i \in 1..m : e[i - 1] < p /\ p =< e[i]
            f == [p \in 1..e[m] |-> d[o[in(p)] - 1] + (p - e[in(p) - 1])]
            on == {p \in DOMAIN g : g[p]}
            lit == {p \in DOMAIN h : h[p]}
<1>1. /\ m \in Nat \ {0} /\ DOMAIN g = 1..e[m] /\ DOMAIN h = 1..d[m]
      /\ \A i \in 1..m : e[i - 1] \in Nat /\ e[i] \in Nat /\ e[i - 1] < e[i]
      /\ \A i \in 1..m : d[i - 1] \in Nat /\ d[i] \in Nat /\ d[i - 1] < d[i]
      /\ \A i \in 1..m : \A p \in e[i - 1] + 1..e[i] : g[p] = Turn(first, i)
      /\ \A i \in 1..m : \A p \in d[i - 1] + 1..d[i] : h[p] = Turn(first, i)
  BY DEF Spelled
<1>2. /\ \A i \in 1..m : o[i] \in 1..m /\ Turn(first, o[i]) = Turn(first, i)
      /\ \A i, j \in 1..m : o[i] = o[j] => i = j
      /\ \A i \in 1..m : e[i] - e[i - 1] = d[o[i]] - d[o[i] - 1]
  BY DEF Reordered
<1>3. /\ \A i \in 0..m : e[i] \in Nat
      /\ \A p \in 1..e[m] : \E i \in 1..m : e[i - 1] < p /\ p =< e[i]
      /\ \A i, j \in 1..m : \A p \in Nat :
           e[i - 1] < p /\ p =< e[i] /\ e[j - 1] < p /\ p =< e[j] => i = j
  BY InASpell
<1>4. /\ \A i \in 0..m : d[i] \in Nat
      /\ \A i, j \in 0..m : i < j => d[i] < d[j]
      /\ \A p \in 1..d[m] : \E i \in 1..m : d[i - 1] < p /\ p =< d[i]
      /\ \A i, j \in 1..m : \A p \in Nat :
           d[i - 1] < p /\ p =< d[i] /\ d[j - 1] < p /\ p =< d[j] => i = j
  BY InASpell
<1>5. \A k \in 1..m : \E i \in 1..m : o[i] = k
  <2>. DEFINE q == [i \in 1..m |-> o[i]]
  <2>1. q \in [1..m -> 1..m] /\ \A i, j \in 1..m : q[i] = q[j] => i = j
    BY <1>2
  <2>2. IsFiniteSet(1..m)
    BY <1>1, FS_Interval
  <2>3. q \in Surjection(1..m, 1..m)
    <3>. HIDE DEF q
    <3>1. q \in Injection(1..m, 1..m)
      BY <2>1 DEF Injection, IsInjective
    <3>. QED
      BY <2>2, <3>1, FS_Injection
  <2>4. \A k \in 1..m : \E i \in 1..m : q[i] = k
    <3>. HIDE DEF q
    <3>. QED
      BY <2>3 DEF Surjection
  <2>. QED
    BY <2>4
<1>6. e[m] \in Nat /\ d[m] \in Nat
  BY <1>1
<1>7. ASSUME NEW p \in 1..e[m]
      PROVE  /\ in(p) \in 1..m /\ e[in(p) - 1] < p /\ p =< e[in(p)]
             /\ d[o[in(p)] - 1] < f[p] /\ f[p] =< d[o[in(p)]]
             /\ f[p] \in 1..d[m] /\ h[f[p]] = g[p]
  <2>. DEFINE i == in(p)
              k == o[i]
  <2>1. i \in 1..m /\ e[i - 1] < p /\ p =< e[i]
    BY <1>3
  <2>2. k \in 1..m /\ Turn(first, k) = Turn(first, i) /\ e[i] - e[i - 1] = d[k] - d[k - 1]
    <3>. HIDE DEF i
    <3>. QED
      BY <1>2, <2>1
  <2>3. f[p] = d[k - 1] + (p - e[i - 1])
    OBVIOUS
  <2>. HIDE DEF i, k, f
  <2>4. e[i - 1] \in Nat /\ e[i] \in Nat /\ d[k - 1] \in Nat /\ d[k] \in Nat /\ p \in Nat
    BY <1>1, <1>6, <2>1, <2>2
  <2>5. d[k - 1] < f[p] /\ f[p] =< d[k] /\ f[p] \in Nat
    BY <2>1, <2>2, <2>3, <2>4
  <2>6. d[k] =< d[m]
    <3>1. k \in 0..m /\ m \in 0..m /\ (k < m \/ k = m)
      BY <1>1, <2>2
    <3>. QED
      BY <1>4, <1>6, <2>4, <3>1
  <2>7. f[p] \in 1..d[m]
    BY <1>6, <2>4, <2>5, <2>6
  <2>8. g[p] = Turn(first, i) /\ h[f[p]] = Turn(first, k)
    <3>1. p \in e[i - 1] + 1..e[i] /\ f[p] \in d[k - 1] + 1..d[k]
      BY <2>1, <2>4, <2>5
    <3>. QED
      BY <1>1, <2>1, <2>2, <3>1
  <2>. QED
    BY <2>1, <2>2, <2>5, <2>7, <2>8 DEF i, k
<1>8. ASSUME NEW p \in 1..e[m], NEW q \in 1..e[m], f[p] = f[q]
      PROVE  p = q
  <2>. DEFINE i == in(p)
              j == in(q)
  <2>1. /\ i \in 1..m /\ j \in 1..m /\ f[p] \in 1..d[m]
        /\ d[o[i] - 1] < f[p] /\ f[p] =< d[o[i]] /\ d[o[j] - 1] < f[p] /\ f[p] =< d[o[j]]
    BY <1>7, <1>8
  <2>2. f[p] = d[o[i] - 1] + (p - e[i - 1]) /\ f[q] = d[o[j] - 1] + (q - e[j - 1])
    OBVIOUS
  <2>. HIDE DEF i, j, f
  <2>3. o[i] = o[j] /\ i = j
    <3>1. f[p] \in Nat /\ o[i] \in 1..m /\ o[j] \in 1..m
      BY <1>2, <1>6, <2>1
    <3>2. o[i] = o[j]
      BY <1>4, <2>1, <3>1
    <3>. QED
      BY <1>2, <2>1, <3>2
  <2>4. d[o[i] - 1] \in Nat /\ e[i - 1] \in Nat /\ p \in Nat /\ q \in Nat
    BY <1>1, <1>2, <1>6, <2>1
  <2>. DEFINE a == d[o[i] - 1]
              b == e[i - 1]
  <2>5. f[p] = a + (p - b) /\ f[q] = a + (q - b) /\ a \in Nat /\ b \in Nat
    BY <2>2, <2>3, <2>4
  <2>. HIDE DEF a, b
  <2>6. a + (p - b) = a + (q - b)
    BY <1>8, <2>5
  <2>. QED
    BY <2>4, <2>5, <2>6
<1>9. ASSUME NEW r \in 1..d[m]
      PROVE  \E p \in 1..e[m] : f[p] = r
  <2>1. PICK k \in 1..m : d[k - 1] < r /\ r =< d[k]
    BY <1>4
  <2>2. PICK i \in 1..m : o[i] = k
    BY <1>5
  <2>. DEFINE p == e[i - 1] + (r - d[k - 1])
  <2>3. /\ e[i - 1] \in Nat /\ e[i] \in Nat /\ d[k - 1] \in Nat /\ d[k] \in Nat /\ r \in Nat
        /\ e[i] - e[i - 1] = d[k] - d[k - 1]
    BY <1>1, <1>2, <1>6, <2>2
  <2>4. e[i - 1] < p /\ p =< e[i] /\ p \in Nat
    BY <2>1, <2>3
  <2>5. e[i] =< e[m]
    <3>1. \A a, b \in 0..m : a < b => e[a] < e[b]
      BY InASpell
    <3>2. i \in 0..m /\ m \in 0..m /\ (i < m \/ i = m)
      BY <1>1
    <3>. QED
      BY <1>6, <2>3, <3>1, <3>2
  <2>6. p \in 1..e[m]
    BY <1>6, <2>3, <2>4, <2>5
  <2>7. f[p] = d[o[in(p)] - 1] + (p - e[in(p) - 1])
    BY <2>6
  <2>8. in(p) = i
    <3>1. in(p) \in 1..m /\ e[in(p) - 1] < p /\ p =< e[in(p)]
      BY <1>7, <2>6
    <3>. HIDE DEF in, p
    <3>. QED
      BY <1>3, <2>4, <3>1
  <2>9. f[p] = d[k - 1] + (p - e[i - 1])
    <3>. HIDE DEF in, p, f
    <3>. QED
      BY <2>2, <2>7, <2>8
  <2>10. f[p] = r
    <3>. HIDE DEF f
    <3>. QED
      BY <2>3, <2>9
  <2>. QED
    BY <2>6, <2>10
<1>. HIDE DEF f, in
<1>10. Pairs(f, 1..e[m], 1..d[m])
  BY <1>7, <1>8, <1>9 DEF Pairs
<1>11. Cardinality(1..d[m]) = Cardinality(1..e[m]) /\ IsFiniteSet(1..e[m]) /\ IsFiniteSet(1..d[m])
  BY <1>6, <1>10, FS_Interval, SameSize
<1>12. e[m] = d[m]
  <2>1. \A n \in Nat : Cardinality(1..n) = n
    BY FS_Interval
  <2>. QED
    BY <1>6, <1>11, <2>1
<1>13. Pairs(f, on, lit)
  <2>1. \A p \in on : p \in 1..e[m] /\ g[p]
    BY <1>1
  <2>2. \A p \in on : f[p] \in lit
    BY <1>1, <1>7, <2>1
  <2>3. ASSUME NEW r \in lit
        PROVE  \E p \in on : f[p] = r
    <3>1. r \in 1..d[m] /\ h[r]
      BY <1>1
    <3>2. PICK p \in 1..e[m] : f[p] = r
      BY <1>9, <3>1
    <3>3. g[p] /\ p \in DOMAIN g
      BY <1>1, <1>7, <3>1, <3>2
    <3>. QED
      BY <3>2, <3>3
  <2>. HIDE DEF on, lit
  <2>. QED
    BY <1>8, <2>1, <2>2, <2>3 DEF Pairs
<1>14. IsFiniteSet(on)
  <2>1. on \in SUBSET (1..e[m])
    BY <1>1
  <2>. HIDE DEF on
  <2>. QED
    BY <1>11, <2>1, FS_Subset
<1>. HIDE DEF on, lit
<1>15. Cardinality(lit) = Cardinality(on)
  BY <1>13, <1>14, SameSize
<1>. QED
  BY <1>12, <1>15 DEF on, lit

\* Sequences one after another, up to each.
FlatsUpTo(flat, n, seqs) ==
  flat[1] = seqs[1] /\ \A i \in 2..n : flat[i] = flat[i - 1] \o seqs[i]

\* There are such, and the last is what they flatten to.
LEMMA FlatsExist ==
  ASSUME NEW seqs
  PROVE  \A n \in Nat : n # 0 => \E flat : FlatsUpTo(flat, n, seqs)
<1>. DEFINE T == {n \in Nat : \E flat : FlatsUpTo(flat, n + 1, seqs)}
<1>1. 0 \in T
  <2>. DEFINE flat == [i \in {1} |-> seqs[1]]
  <2>1. FlatsUpTo(flat, 1, seqs)
    BY DEF FlatsUpTo
  <2>. QED
    BY <2>1
<1>2. ASSUME NEW n \in T PROVE n + 1 \in T
  <2>1. PICK old : FlatsUpTo(old, n + 1, seqs)
    OBVIOUS
  <2>. DEFINE new == [i \in 1..n + 2 |-> IF i =< n + 1 THEN old[i] ELSE old[n + 1] \o seqs[n + 2]]
  <2>2. n \in Nat
    OBVIOUS
  <2>3. new[1] = seqs[1]
    BY <2>1, <2>2 DEF FlatsUpTo
  <2>4. ASSUME NEW i \in 2..n + 2
        PROVE  new[i] = new[i - 1] \o seqs[i]
    <3>1. i \in 1..n + 2 /\ i - 1 \in 1..n + 2 /\ i - 1 =< n + 1
      BY <2>2
    <3>2. CASE i =< n + 1
      <4>1. i \in 2..n + 1
        BY <2>2, <3>2
      <4>2. old[i] = old[i - 1] \o seqs[i]
        BY <2>1, <4>1 DEF FlatsUpTo
      <4>. QED
        BY <3>1, <3>2, <4>2
    <3>3. CASE ~(i =< n + 1)
      <4>1. i = n + 2 /\ i - 1 = n + 1
        BY <2>2, <3>3
      <4>2. n + 1 \in 1..n + 2 /\ n + 2 \in 1..n + 2 /\ n + 1 =< n + 1 /\ ~(n + 2 =< n + 1)
        BY <2>2
      <4>3. new[n + 1] = old[n + 1] /\ new[n + 2] = old[n + 1] \o seqs[n + 2]
        BY <4>2
      <4>. HIDE DEF new
      <4>. QED
        BY <4>1, <4>3
    <3>. QED
      BY <3>2, <3>3
  <2>. HIDE DEF new
  <2>5. (n + 1) + 1 = n + 2
    BY <2>2
  <2>6. FlatsUpTo(new, (n + 1) + 1, seqs)
    BY <2>3, <2>4, <2>5 DEF FlatsUpTo
  <2>. QED
    BY <2>2, <2>6
<1>. HIDE DEF T
<1>3. \A n \in Nat : n \in T
  <2>1. T \in SUBSET Nat
    BY DEF T
  <2>. QED
    BY <1>1, <1>2, <2>1, SetInduction
<1>4. ASSUME NEW n \in Nat, n # 0
      PROVE  \E flat : FlatsUpTo(flat, n, seqs)
  <2>1. n - 1 \in Nat /\ (n - 1) + 1 = n
    BY <1>4
  <2>. QED
    BY <1>3, <2>1 DEF T
<1>. QED
  BY <1>4

LEMMA FlattenIsLast ==
  ASSUME NEW seqs, Len(seqs) \in Nat, Len(seqs) # 0
  PROVE  \E flat : FlatsUpTo(flat, Len(seqs), seqs) /\ FlattenSeq(seqs) = flat[Len(seqs)]
<1>1. PICK flats : FlatsUpTo(flats, Len(seqs), seqs)
  BY FlatsExist
<1>. DEFINE B(f) == [i \in 1..Len(seqs) |-> IF i = 1 THEN seqs[i] ELSE f[i - 1] \o seqs[i]]
            h == [i \in 1..Len(seqs) |-> flats[i]]
            flat == CHOOSE f : f = B(f)
<1>2. h = B(h)
  <2>1. ASSUME NEW i \in 1..Len(seqs)
        PROVE  h[i] = IF i = 1 THEN seqs[i] ELSE h[i - 1] \o seqs[i]
    <3>1. CASE i = 1
      BY <1>1, <3>1 DEF FlatsUpTo
    <3>2. CASE i # 1
      <4>1. i \in 2..Len(seqs) /\ i - 1 \in 1..Len(seqs)
        BY <3>2
      <4>. QED
        BY <1>1, <3>2, <4>1 DEF FlatsUpTo
    <3>. QED
      BY <3>1, <3>2
  <2>. QED
    BY <2>1
<1>3. FlattenSeq(seqs) = flat[Len(seqs)]
  BY DEF FlattenSeq
<1>4. flat = B(flat)
  <2>. HIDE DEF B, h
  <2>. QED
    BY <1>2
<1>5. \A i \in 1..Len(seqs) : flat[i] = IF i = 1 THEN seqs[i] ELSE flat[i - 1] \o seqs[i]
  <2>. HIDE DEF flat
  <2>. QED
    BY <1>4
<1>. HIDE DEF flat
<1>6. FlatsUpTo(flat, Len(seqs), seqs)
  <2>1. 1 \in 1..Len(seqs) /\ \A i \in 2..Len(seqs) : i \in 1..Len(seqs) /\ i # 1
    OBVIOUS
  <2>. QED
    BY <1>5, <2>1 DEF FlatsUpTo
<1>. QED
  BY <1>3, <1>6

\* One sequence after another.
LEMMA TwoInARow ==
  ASSUME NEW S, NEW a \in Seq(S), NEW b \in Seq(S)
  PROVE  /\ a \o b \in Seq(S) /\ Len(a) \in Nat /\ Len(b) \in Nat /\ Len(a \o b) = Len(a) + Len(b)
         /\ \A p \in 1..Len(a) : (a \o b)[p] = a[p]
         /\ \A p \in Len(a) + 1..Len(a) + Len(b) : p - Len(a) \in 1..Len(b) /\ (a \o b)[p] = b[p - Len(a)]
<1>1. a \o b \in Seq(S) /\ Len(a) \in Nat /\ Len(b) \in Nat /\ Len(a \o b) = Len(a) + Len(b)
  OBVIOUS
<1>2. \A p \in 1..Len(a) : (a \o b)[p] = a[p]
  OBVIOUS
<1>3. ASSUME NEW p \in Len(a) + 1..Len(a) + Len(b)
      PROVE  p - Len(a) \in 1..Len(b) /\ (a \o b)[p] = b[p - Len(a)]
  <2>1. p \in 1..Len(a) + Len(b) /\ ~(p =< Len(a)) /\ p - Len(a) \in 1..Len(b)
    BY <1>1
  <2>. QED
    BY <1>1, <2>1
<1>. QED
  BY <1>1, <1>2, <1>3

\* Spells of given lengths that take turns.
SpellsOf(spells, lengths, m, first) ==
  /\ m \in Nat \ {0} /\ first \in BOOLEAN
  /\ \A i \in 1..m : lengths[i] \in Nat \ {0}
  /\ Len(spells) = m /\ \A i \in 1..m : spells[i] = [k \in 1..lengths[i] |-> Turn(first, i)]

\* That is what they flatten to.
LEMMA FlattenIsSpelled ==
  ASSUME NEW spells, NEW lengths, NEW m, NEW first, SpellsOf(spells, lengths, m, first)
  PROVE  \E e : Spelled(FlattenSeq(spells), e, m, first) /\ \A i \in 1..m : e[i] - e[i - 1] = lengths[i]
<1>1. /\ m \in Nat /\ m # 0 /\ first \in BOOLEAN /\ \A i \in 1..m : lengths[i] \in Nat \ {0}
      /\ Len(spells) = m /\ \A i \in 1..m : spells[i] = [k \in 1..lengths[i] |-> Turn(first, i)]
  BY DEF SpellsOf
<1>2. PICK flat : FlatsUpTo(flat, m, spells) /\ FlattenSeq(spells) = flat[m]
  BY <1>1, FlattenIsLast
<1>. DEFINE e == [i \in 0..m |-> IF i = 0 THEN 0 ELSE Len(flat[i])]
            good(n) == /\ flat[n] \in Seq(BOOLEAN)
                       /\ \A i \in 1..n : e[i] = e[i - 1] + lengths[i] /\ e[i - 1] \in Nat
                       /\ \A i \in 1..n : \A p \in e[i - 1] + 1..e[i] : flat[n][p] = Turn(first, i)
            T == {n \in Nat : n + 1 =< m => good(n + 1)}
<1>3. \A i \in 1..m : /\ spells[i] \in Seq(BOOLEAN) /\ Len(spells[i]) = lengths[i]
                      /\ \A k \in 1..lengths[i] : spells[i][k] = Turn(first, i)
  <2>. SUFFICES ASSUME NEW i \in 1..m
                PROVE  /\ spells[i] \in Seq(BOOLEAN) /\ Len(spells[i]) = lengths[i]
                       /\ \A k \in 1..lengths[i] : spells[i][k] = Turn(first, i)
    OBVIOUS
  <2>1. spells[i] = [k \in 1..lengths[i] |-> Turn(first, i)] /\ lengths[i] \in Nat
    BY <1>1
  <2>2. Turn(first, i) \in BOOLEAN
    BY DEF Turn
  <2>. QED
    BY <2>1, <2>2
<1>4. e[0] = 0 /\ \A i \in 1..m : e[i] = Len(flat[i])
  BY <1>1
<1>. HIDE DEF e
<1>5. 0 \in T
  <2>1. flat[1] = spells[1] /\ 1 \in 1..m
    BY <1>1, <1>2 DEF FlatsUpTo
  <2>2. flat[1] \in Seq(BOOLEAN) /\ e[1] = lengths[1] /\ lengths[1] \in Nat
    BY <1>1, <1>3, <1>4, <2>1
  <2>3. \A i \in 1..1 : i = 1 /\ i - 1 = 0
    OBVIOUS
  <2>4. good(1)
    BY <1>3, <1>4, <2>1, <2>2, <2>3
  <2>. HIDE DEF good
  <2>. QED
    BY <2>4
<1>6. ASSUME NEW n \in T PROVE n + 1 \in T
  <2>. DEFINE k == n + 1
  <2>. SUFFICES ASSUME k + 1 =< m
                PROVE  good(k + 1)
    <3>. HIDE DEF good
    <3>. QED
      OBVIOUS
  <2>1. /\ n \in Nat /\ k \in Nat /\ k + 1 \in 2..m /\ k + 1 \in 1..m /\ k \in 1..m /\ (k + 1) - 1 = k
        /\ 1..k + 1 = 1..k \cup {k + 1}
    BY <1>1
  <2>2. good(k)
    <3>. HIDE DEF good
    <3>. QED
      BY <1>1, <2>1
  <2>. HIDE DEF k
  <2>3. flat[k + 1] = flat[k] \o spells[k + 1]
    BY <1>2, <2>1 DEF FlatsUpTo
  <2>. DEFINE a == flat[k]
              b == spells[k + 1]
              c == flat[k + 1]
  <2>4. /\ a \in Seq(BOOLEAN) /\ Len(a) = e[k] /\ b \in Seq(BOOLEAN) /\ Len(b) = lengths[k + 1]
        /\ c = a \o b /\ Len(c) = e[k + 1]
        /\ \A j \in 1..lengths[k + 1] : b[j] = Turn(first, k + 1)
    BY <1>3, <1>4, <2>1, <2>2, <2>3
  <2>. HIDE DEF a, b, c, T
  <2>5. c \in Seq(BOOLEAN) /\ e[k + 1] = e[k] + lengths[k + 1] /\ e[k] \in Nat /\ lengths[k + 1] \in Nat
    <3>1. /\ a \in Seq(BOOLEAN) /\ b \in Seq(BOOLEAN) /\ c = a \o b
          /\ Len(a) = e[k] /\ Len(b) = lengths[k + 1] /\ Len(c) = e[k + 1]
      BY <2>4
    <3>2. c \in Seq(BOOLEAN) /\ Len(a) \in Nat /\ Len(b) \in Nat /\ Len(c) = Len(a) + Len(b)
      BY <3>1, TwoInARow
    <3>. QED
      BY <3>1, <3>2
  <2>6. /\ \A p \in 1..e[k] : c[p] = a[p]
        /\ \A p \in e[k] + 1..e[k + 1] : p - e[k] \in 1..lengths[k + 1] /\ c[p] = b[p - e[k]]
    <3>1. /\ a \in Seq(BOOLEAN) /\ b \in Seq(BOOLEAN) /\ c = a \o b
          /\ Len(a) = e[k] /\ Len(b) = lengths[k + 1] /\ e[k + 1] = e[k] + lengths[k + 1]
      BY <2>4, <2>5
    <3>2. \A p \in 1..Len(a) : c[p] = a[p]
      BY <3>1, TwoInARow
    <3>3. \A p \in Len(a) + 1..Len(a) + Len(b) : p - Len(a) \in 1..Len(b) /\ c[p] = b[p - Len(a)]
      BY <3>1, TwoInARow
    <3>. QED
      BY <3>1, <3>2, <3>3
  <2>7. ASSUME NEW i \in 1..k
        PROVE  e[i] =< e[k] /\ e[i - 1] \in Nat /\ e[i] \in Nat
    <3>. DEFINE U == {j \in Nat : i + j =< k => e[i + j] \in Nat /\ e[i] =< e[i + j]}
    <3>1. e[i - 1] \in Nat /\ e[i] \in Nat
      <4>1. e[i - 1] \in Nat /\ e[i] = e[i - 1] + lengths[i]
        BY <2>2
      <4>3. i \in 1..m
        BY <1>1, <2>1
      <4>2. lengths[i] \in Nat
        BY <1>1, <4>3
      <4>. HIDE DEF good, T
      <4>. QED
        BY <4>1, <4>2
    <3>2. 0 \in U
      BY <2>1, <3>1
    <3>3. ASSUME NEW j \in U PROVE j + 1 \in U
      <4>0. j \in Nat
        OBVIOUS
      <4>1. i + j + 1 =< k => i + j + 1 \in 1..k /\ (i + j + 1) - 1 = i + j /\ i + j =< k /\ i + j + 1 \in 1..m
        <5>. HIDE DEF U
        <5>1. i \in Nat /\ i # 0 /\ k \in Nat /\ k < m
          BY <1>1, <2>1
        <5>. QED
          BY <1>1, <4>0, <5>1
      <4>2. i + j + 1 =< k => e[i + j + 1] = e[i + j] + lengths[i + j + 1] /\ lengths[i + j + 1] \in Nat
        <5>1. \A q \in 1..k : e[q] = e[q - 1] + lengths[q]
          BY <2>2
        <5>2. ASSUME i + j + 1 =< k
              PROVE  e[i + j + 1] = e[i + j] + lengths[i + j + 1]
          <6>1. e[i + j + 1] = e[(i + j + 1) - 1] + lengths[i + j + 1]
            BY <4>1, <5>1, <5>2
          <6>2. (i + j + 1) - 1 = i + j
            BY <4>1, <5>2
          <6>. QED
            BY <6>1, <6>2
        <5>. QED
          BY <1>1, <4>1, <5>2
      <4>3. i + (j + 1) = i + j + 1 /\ j + 1 \in Nat
        BY <2>1
      <4>4. i + j + 1 =< k => e[i + j] \in Nat /\ e[i] =< e[i + j]
        BY <4>1
      <4>. DEFINE u == e[i + j]
                  v == e[i + j + 1]
                  w == lengths[i + j + 1]
      <4>5. i + j + 1 =< k => v \in Nat /\ e[i] =< v
        <5>1. i + j + 1 =< k => u \in Nat /\ e[i] =< u /\ v = u + w /\ w \in Nat
          BY <4>2, <4>4
        <5>2. e[i] \in Nat
          BY <3>1
        <5>. HIDE DEF u, v, w
        <5>. QED
          BY <5>1, <5>2
      <4>. QED
        BY <4>3, <4>5
    <3>. HIDE DEF U
    <3>4. \A j \in Nat : j \in U
      <4>1. U \in SUBSET Nat
        BY DEF U
      <4>. QED
        BY <3>2, <3>3, <4>1, SetInduction
    <3>5. k - i \in Nat /\ i + (k - i) = k /\ i + (k - i) =< k
      BY <2>1
    <3>. QED
      BY <3>1, <3>4, <3>5 DEF U
  <2>8. ASSUME NEW i \in 1..k + 1
        PROVE  /\ e[i] = e[i - 1] + lengths[i] /\ e[i - 1] \in Nat
               /\ \A p \in e[i - 1] + 1..e[i] : c[p] = Turn(first, i)
    <3>1. CASE i = k + 1
      BY <2>1, <2>4, <2>5, <2>6, <3>1
    <3>2. CASE i \in 1..k
      <4>1. \A p \in e[i - 1] + 1..e[i] : p \in 1..e[k]
        BY <2>5, <2>7, <3>2
      <4>. QED
        BY <2>2, <2>6, <3>2, <4>1 DEF a
    <3>. QED
      BY <2>1, <3>1, <3>2
  <2>. QED
    BY <2>5, <2>8 DEF c
<1>. HIDE DEF T
<1>7. \A n \in Nat : n \in T
  <2>1. T \in SUBSET Nat
    BY DEF T
  <2>. QED
    BY <1>5, <1>6, <2>1, SetInduction
<1>8. good(m)
  <2>1. m - 1 \in Nat /\ (m - 1) + 1 = m /\ m =< m
    BY <1>1
  <2>. HIDE DEF good
  <2>. QED
    BY <1>7, <2>1 DEF T
<1>9. \A i \in 1..m : e[i - 1] \in Nat /\ e[i] \in Nat /\ e[i - 1] < e[i] /\ e[i] - e[i - 1] = lengths[i]
  BY <1>1, <1>8
<1>10. DOMAIN flat[m] = 1..e[m]
  <2>1. m \in 1..m
    BY <1>1
  <2>. QED
    BY <1>4, <1>8, <2>1
<1>11. Spelled(flat[m], e, m, first)
  BY <1>1, <1>4, <1>8, <1>9, <1>10 DEF Spelled
<1>. QED
  BY <1>2, <1>9, <1>11

=============================================================================
