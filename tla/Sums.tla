-------------------------------- MODULE Sums --------------------------------
(***************************************************************************)
(* Sums over a finite set, as SumFunctionOnSet of the community modules    *)
(* defines them: by a recursive function on the subsets of the set, which  *)
(* takes out one element after the other.  That this function exists, and  *)
(* that the order does not matter, is shown by a smallest counterexample   *)
(* among the subsets of the set.                                           *)
(***************************************************************************)
EXTENDS Integers, Functions, FiniteSetTheorems, TLAPS

\* Induction over the subsets of a finite set, by a smallest counterexample.
LEMMA SmallestSubset ==
    ASSUME NEW S, IsFiniteSet(S), NEW Bad \in SUBSET SUBSET S, Bad # {}
    PROVE  \E T \in Bad : \A U \in Bad : U \subseteq T => U = T
<1>1. Bad \subseteq FiniteSubsetsOf(S)
    BY FS_FiniteSubsetsOfFinite
<1>2. PICK T \in Bad : \A U \in Bad : ~ (<<U, T>> \in StrictSubsetOrdering(S))
    BY <1>1, FS_StrictSubsetOrderingWellFounded, WFMin
<1> QED BY <1>2 DEF StrictSubsetOrdering

\* One step of that recursion; `sum` are the sums of the smaller sets.
Unrolled(f, S, sum) ==
    IF S = {} THEN 0
    ELSE LET x == CHOOSE x \in S : TRUE IN f[x] + sum[S \ {x}]

\* What the definition says: the sum of S is a value of whatever function
\* solves the recursion on the subsets of S.
LEMMA SumIsChosen ==
    ASSUME NEW f, NEW S
    PROVE  SumFunctionOnSet(f, S) =
             (CHOOSE sum : sum = [T \in SUBSET S |-> Unrolled(f, T, sum)])[S]
BY DEF SumFunctionOnSet, FoldFunctionOnSet, MapThenFoldSet, Unrolled

\* A step depends on the sums of the sets with one element less.
LEMMA UnrolledOfSame ==
    ASSUME NEW f, NEW S, NEW g, NEW h, \A x \in S : g[S \ {x}] = h[S \ {x}]
    PROVE  Unrolled(f, S, g) = Unrolled(f, S, h)
<1>1. S # {} => (CHOOSE x \in S : TRUE) \in S
    OBVIOUS
<1> QED BY <1>1 DEF Unrolled

\* The recursion has a solution, and one only: the sums themselves.
LEMMA SumUnrolls ==
    ASSUME NEW f, NEW S, IsFiniteSet(S)
    PROVE  SumFunctionOnSet(f, S) =
             Unrolled(f, S, [T \in SUBSET S |-> SumFunctionOnSet(f, T)])
<1> DEFINE Partial(T) == [U \in SUBSET T |-> SumFunctionOnSet(f, U)]
           Solves(sum, T) == sum = [U \in SUBSET T |-> Unrolled(f, U, sum)]
           Fine(T) == \A sum : Solves(sum, T) <=> sum = Partial(T)
           Bad == {T \in SUBSET S : ~Fine(T)}
<1>1. ASSUME NEW T \in SUBSET S, \A U \in SUBSET T : U # T => Fine(U)
      PROVE  Fine(T)
    <2> DEFINE all == [U \in SUBSET T |->
                          IF U = T THEN Unrolled(f, T, Partial(T))
                          ELSE SumFunctionOnSet(f, U)]
    <2>1. ASSUME NEW U \in SUBSET T, U # T
          PROVE  SumFunctionOnSet(f, U) = Unrolled(f, U, Partial(U))
        <3>1. Partial(U) = [V \in SUBSET U |-> Unrolled(f, V, Partial(U))]
            BY <1>1, <2>1
        <3>2. Partial(U)[U] = Unrolled(f, U, Partial(U))
            BY <3>1
        <3> QED BY <3>2
    <2>2. ASSUME NEW U \in SUBSET T
          PROVE  Unrolled(f, U, Partial(U)) = Unrolled(f, U, all)
        <3>1. \A x \in U : Partial(U)[U \ {x}] = all[U \ {x}]
            OBVIOUS
        <3> HIDE DEF Partial, all
        <3> QED BY <3>1, UnrolledOfSame
    <2>3. Solves(all, T)
        <3>1. ASSUME NEW U \in SUBSET T PROVE all[U] = Unrolled(f, U, all)
            <4>1. CASE U = T
                BY <2>2, <4>1
            <4>2. CASE U # T
                BY <2>1, <2>2, <4>2
            <4> QED BY <4>1, <4>2
        <3>2. all = [U \in SUBSET T |-> all[U]]
            OBVIOUS
        <3> HIDE DEF all
        <3> QED BY <3>1, <3>2
    <2>4. ASSUME NEW sum, Solves(sum, T) PROVE sum = all
        <3>1. ASSUME NEW U \in SUBSET T PROVE sum[U] = Unrolled(f, U, sum)
            BY <2>4
        <3>2. ASSUME NEW U \in SUBSET T, U # T PROVE sum[U] = SumFunctionOnSet(f, U)
            <4> DEFINE part == [V \in SUBSET U |-> sum[V]]
            <4>1. ASSUME NEW V \in SUBSET U
                  PROVE  Unrolled(f, V, sum) = Unrolled(f, V, part)
                <5>1. \A x \in V : sum[V \ {x}] = part[V \ {x}]
                    OBVIOUS
                <5> HIDE DEF part
                <5> QED BY <5>1, UnrolledOfSame
            <4>2. ASSUME NEW V \in SUBSET U PROVE part[V] = Unrolled(f, V, part)
                BY <3>1, <4>1
            <4>3. Solves(part, U)
                <5>1. part = [V \in SUBSET U |-> part[V]]
                    OBVIOUS
                <5> HIDE DEF part
                <5> QED BY <4>2, <5>1
            <4>4. part = Partial(U)
                <5> HIDE DEF part, Partial, Solves
                <5> QED BY <1>1, <3>2, <4>3
            <4>5. part[U] = sum[U] /\ Partial(U)[U] = SumFunctionOnSet(f, U)
                OBVIOUS
            <4> QED BY <4>4, <4>5
        <3>3. sum[T] = Unrolled(f, T, Partial(T))
            <4>1. \A x \in T : sum[T \ {x}] = Partial(T)[T \ {x}]
                BY <3>2
            <4>2. Unrolled(f, T, sum) = Unrolled(f, T, Partial(T))
                <5> HIDE DEF Partial
                <5> QED BY <4>1, UnrolledOfSame
            <4> QED BY <3>1, <4>2
        <3>4. sum = [U \in SUBSET T |-> sum[U]]
            BY <2>4
        <3> HIDE DEF Partial, Solves
        <3> QED BY <3>2, <3>3, <3>4
    <2>5. SumFunctionOnSet(f, T) = all[T]
        <3>1. (CHOOSE sum : Solves(sum, T)) = all
            <4> HIDE DEF all, Solves
            <4> QED BY <2>3, <2>4
        <3> HIDE DEF all
        <3> QED BY <3>1, SumIsChosen
    <2>6. Partial(T) = all
        BY <2>5
    <2> HIDE DEF all, Partial, Solves
    <2> QED BY <2>3, <2>4, <2>6
<1>2. Bad = {}
    <2> SUFFICES ASSUME Bad # {} PROVE FALSE
        OBVIOUS
    <2>1. Bad \in SUBSET SUBSET S
        OBVIOUS
    <2>2. PICK T \in Bad : \A U \in Bad : U \subseteq T => U = T
        <3> HIDE DEF Bad
        <3> QED BY <2>1, SmallestSubset
    <2> HIDE DEF Fine
    <2> QED BY <1>1, <2>2
<1>3. Solves(Partial(S), S)
    <2> HIDE DEF Solves, Partial
    <2> QED BY <1>2
<1>4. Partial(S)[S] = Unrolled(f, S, Partial(S))
    BY <1>3
<1> QED BY <1>4

\* The sum of a set is that of an element and of the rest.
LEMMA SumSteps ==
    ASSUME NEW f, NEW S, IsFiniteSet(S)
    PROVE  /\ S = {} => SumFunctionOnSet(f, S) = 0
           /\ S # {} => \E x \in S :
                SumFunctionOnSet(f, S) = f[x] + SumFunctionOnSet(f, S \ {x})
<1>1. S # {} => (CHOOSE x \in S : TRUE) \in S
    OBVIOUS
<1> QED BY <1>1, SumUnrolls DEF Unrolled

\* A sum of integers is an integer.
LEMMA SumType ==
    ASSUME NEW f, NEW S, IsFiniteSet(S), \A x \in S : f[x] \in Int
    PROVE  SumFunctionOnSet(f, S) \in Int
<1> DEFINE Bad == {T \in SUBSET S : SumFunctionOnSet(f, T) \notin Int}
<1> SUFFICES ASSUME Bad # {} PROVE FALSE
    OBVIOUS
<1>1. Bad \in SUBSET SUBSET S
    OBVIOUS
<1>2. PICK T \in Bad : \A U \in Bad : U \subseteq T => U = T
    <2> HIDE DEF Bad
    <2> QED BY <1>1, SmallestSubset
<1>3. IsFiniteSet(T)
    BY FS_Subset
<1>4. T # {}
    BY <1>3, SumSteps
<1>5. PICK x \in T : SumFunctionOnSet(f, T) = f[x] + SumFunctionOnSet(f, T \ {x})
    BY <1>3, <1>4, SumSteps
<1>6. SumFunctionOnSet(f, T \ {x}) \in Int
    BY <1>2
<1> QED BY <1>5, <1>6

\* Any element may come first.
LEMMA SumRemove ==
    ASSUME NEW f, NEW S, IsFiniteSet(S), \A x \in S : f[x] \in Int, NEW x \in S
    PROVE  SumFunctionOnSet(f, S) = f[x] + SumFunctionOnSet(f, S \ {x})
<1> DEFINE Bad == {T \in SUBSET S : \E y \in T :
                     SumFunctionOnSet(f, T) # f[y] + SumFunctionOnSet(f, T \ {y})}
<1> SUFFICES ASSUME Bad # {} PROVE FALSE
    OBVIOUS
<1>1. Bad \in SUBSET SUBSET S
    OBVIOUS
<1>2. PICK T \in Bad : \A U \in Bad : U \subseteq T => U = T
    <2> HIDE DEF Bad
    <2> QED BY <1>1, SmallestSubset
<1>3. \A U \in SUBSET S : IsFiniteSet(U) /\ SumFunctionOnSet(f, U) \in Int
    BY FS_Subset, SumType
<1>4. PICK y \in T : SumFunctionOnSet(f, T) # f[y] + SumFunctionOnSet(f, T \ {y})
    OBVIOUS
<1>5. PICK z \in T : SumFunctionOnSet(f, T) = f[z] + SumFunctionOnSet(f, T \ {z})
    BY <1>3, SumSteps
<1>6. y # z
    BY <1>4, <1>5
<1>7. T \ {z} \notin Bad /\ T \ {y} \notin Bad
    BY <1>2
<1>8. /\ SumFunctionOnSet(f, T \ {z}) = f[y] + SumFunctionOnSet(f, (T \ {z}) \ {y})
      /\ SumFunctionOnSet(f, T \ {y}) = f[z] + SumFunctionOnSet(f, (T \ {y}) \ {z})
    BY <1>6, <1>7
<1> DEFINE rest == SumFunctionOnSet(f, (T \ {y}) \ {z})
<1>9. SumFunctionOnSet(f, (T \ {z}) \ {y}) = rest
    <2>1. (T \ {z}) \ {y} = (T \ {y}) \ {z}
        OBVIOUS
    <2> QED BY <2>1
<1>10. rest \in Int /\ f[y] \in Int /\ f[z] \in Int
    BY <1>3
<1> HIDE DEF Bad, rest
<1>11. f[z] + (f[y] + rest) = f[y] + (f[z] + rest)
    BY <1>10
<1> QED BY <1>4, <1>5, <1>8, <1>9, <1>11 DEF rest

\* Functions that agree on a set have one sum on it.
LEMMA SumSame ==
    ASSUME NEW f, NEW g, NEW S, IsFiniteSet(S),
           \A x \in S : f[x] \in Int /\ f[x] = g[x]
    PROVE  SumFunctionOnSet(f, S) = SumFunctionOnSet(g, S)
<1> DEFINE Bad == {T \in SUBSET S : SumFunctionOnSet(f, T) # SumFunctionOnSet(g, T)}
<1> SUFFICES ASSUME Bad # {} PROVE FALSE
    OBVIOUS
<1>1. Bad \in SUBSET SUBSET S
    OBVIOUS
<1>2. PICK T \in Bad : \A U \in Bad : U \subseteq T => U = T
    <2> HIDE DEF Bad
    <2> QED BY <1>1, SmallestSubset
<1>3. IsFiniteSet(T)
    BY FS_Subset
<1>4. T # {}
    BY <1>3, SumSteps
<1>5. PICK x \in T : SumFunctionOnSet(f, T) = f[x] + SumFunctionOnSet(f, T \ {x})
    BY <1>3, <1>4, SumSteps
<1>6. SumFunctionOnSet(g, T) = g[x] + SumFunctionOnSet(g, T \ {x})
    <2>1. \A y \in T : g[y] \in Int
        OBVIOUS
    <2> QED BY <1>3, <2>1, SumRemove
<1>7. T \ {x} \notin Bad
    BY <1>2
<1> QED BY <1>5, <1>6, <1>7

\* Sums of disjoint sets add up.
LEMMA SumUnion ==
    ASSUME NEW f, NEW S, NEW T, IsFiniteSet(S), IsFiniteSet(T), S \cap T = {},
           \A x \in S \cup T : f[x] \in Int
    PROVE  SumFunctionOnSet(f, S \cup T) =
             SumFunctionOnSet(f, S) + SumFunctionOnSet(f, T)
<1> DEFINE Bad == {U \in SUBSET T : SumFunctionOnSet(f, S \cup U) #
                     SumFunctionOnSet(f, S) + SumFunctionOnSet(f, U)}
<1> SUFFICES ASSUME Bad # {} PROVE FALSE
    OBVIOUS
<1>1. Bad \in SUBSET SUBSET T
    OBVIOUS
<1>2. PICK U \in Bad : \A V \in Bad : V \subseteq U => V = U
    <2> HIDE DEF Bad
    <2> QED BY <1>1, SmallestSubset
<1>3. \A V \in SUBSET T : /\ IsFiniteSet(V) /\ IsFiniteSet(S \cup V)
                          /\ SumFunctionOnSet(f, V) \in Int
                          /\ SumFunctionOnSet(f, S \cup V) \in Int
    BY FS_Subset, FS_Union, SumType
<1>4. SumFunctionOnSet(f, S) \in Int
    BY SumType
<1>5. U # {}
    <2>1. SumFunctionOnSet(f, {}) = 0
        BY FS_EmptySet, SumSteps
    <2>2. SumFunctionOnSet(f, S \cup {}) = SumFunctionOnSet(f, S) + 0
        <3>1. S \cup {} = S
            OBVIOUS
        <3> QED BY <1>4, <3>1
    <2> QED BY <2>1, <2>2
<1>6. PICK x \in U : x \notin S
    BY <1>5
<1>7. /\ SumFunctionOnSet(f, U) = f[x] + SumFunctionOnSet(f, U \ {x})
      /\ SumFunctionOnSet(f, S \cup U) = f[x] + SumFunctionOnSet(f, (S \cup U) \ {x})
    BY <1>3, SumRemove
<1>8. (S \cup U) \ {x} = S \cup (U \ {x})
    BY <1>6
<1>9. SumFunctionOnSet(f, S \cup (U \ {x})) =
          SumFunctionOnSet(f, S) + SumFunctionOnSet(f, U \ {x})
    BY <1>2
<1> DEFINE ofS == SumFunctionOnSet(f, S)
           rest == SumFunctionOnSet(f, U \ {x})
<1>10. ofS \in Int /\ rest \in Int /\ f[x] \in Int
    BY <1>3, <1>4
<1>11. f[x] + (ofS + rest) = ofS + (f[x] + rest)
    <2> HIDE DEF ofS, rest
    <2> QED BY <1>10
<1>12. SumFunctionOnSet(f, S \cup U) = f[x] + (ofS + rest)
    BY <1>7, <1>8, <1>9
<1>13. SumFunctionOnSet(f, S \cup U) = ofS + SumFunctionOnSet(f, U)
    BY <1>7, <1>11, <1>12
<1> QED BY <1>13

\* The elements of finitely many finite parts are finitely many.
LEMMA PartsAreFinite ==
    ASSUME NEW I, IsFiniteSet(I), NEW part, \A i \in I : IsFiniteSet(part[i])
    PROVE  IsFiniteSet(UNION {part[i] : i \in I})
<1> DEFINE all == {part[i] : i \in I}
           f == [i \in I |-> part[i]]
<1>1. f \in Surjection(I, all)
    BY DEF Surjection
<1>2. IsFiniteSet(all)
    <2> HIDE DEF f, all
    <2> QED BY <1>1, FS_Surjection
<1>3. \A T \in all : IsFiniteSet(T)
    OBVIOUS
<1> HIDE DEF all
<1> QED BY <1>2, <1>3, FS_UNION DEF all

\* The parts, for each index in I, that make up a set and have nothing in
\* common.
IsPartition(part, I, S) ==
    /\ \A x : x \in S <=> \E i \in I : x \in part[i]
    /\ \A i, j \in I : i # j => part[i] \cap part[j] = {}

\* The sums of those parts.
IsSumOfParts(g, f, part, I) == \A i \in I : g[i] = SumFunctionOnSet(f, part[i])

\* The sums of disjoint parts add up to that of the whole.
LEMMA SumOfParts ==
    ASSUME NEW f, NEW I, IsFiniteSet(I), NEW all, IsFiniteSet(all),
           \A x \in all : f[x] \in Int,
           NEW part, IsPartition(part, I, all),
           NEW g, IsSumOfParts(g, f, part, I)
    PROVE  SumFunctionOnSet(g, I) = SumFunctionOnSet(f, all)
<1> DEFINE whole(J) == UNION {part[i] : i \in J}
           Bad == {J \in SUBSET I : SumFunctionOnSet(g, J) # SumFunctionOnSet(f, whole(J))}
<1> SUFFICES ASSUME Bad # {} PROVE FALSE
    <2>1. all = whole(I)
        BY DEF IsPartition
    <2> QED BY <2>1
<1>0. /\ \A i \in I : IsFiniteSet(part[i]) /\ \A x \in part[i] : f[x] \in Int
      /\ \A i, j \in I : i # j => part[i] \cap part[j] = {}
    <2>1. \A i \in I : part[i] \subseteq all
        BY DEF IsPartition
    <2> QED BY <2>1, FS_Subset DEF IsPartition
<1>1. Bad \in SUBSET SUBSET I
    OBVIOUS
<1>2. PICK J \in Bad : \A K \in Bad : K \subseteq J => K = J
    <2> HIDE DEF Bad
    <2> QED BY <1>1, SmallestSubset
<1>3. \A i \in I : g[i] \in Int
    BY <1>0, SumType DEF IsSumOfParts
<1>4. J \subseteq I /\ IsFiniteSet(J)
    BY FS_Subset
<1>5. J # {}
    <2> SUFFICES ASSUME J = {} PROVE FALSE
        OBVIOUS
    <2>1. whole({}) = {}
        OBVIOUS
    <2>2. SumFunctionOnSet(g, {}) = 0 /\ SumFunctionOnSet(f, {}) = 0
        BY FS_EmptySet, SumSteps
    <2> QED BY <2>1, <2>2
<1>6. PICK i \in J : TRUE
    BY <1>5
<1> DEFINE K == J \ {i}
<1>7. SumFunctionOnSet(g, J) = g[i] + SumFunctionOnSet(g, K)
    <2> HIDE DEF Bad
    <2> QED BY <1>3, <1>4, <1>6, SumRemove
<1>8. K \notin Bad
    BY <1>2
<1>9. SumFunctionOnSet(g, K) = SumFunctionOnSet(f, whole(K))
    BY <1>4, <1>8
<1>10. whole(J) = part[i] \cup whole(K) /\ part[i] \cap whole(K) = {}
    BY <1>0, <1>4
<1>11. IsFiniteSet(part[i]) /\ IsFiniteSet(whole(K))
    <2>1. IsFiniteSet(K) /\ K \subseteq I
        BY <1>4, FS_Subset
    <2> HIDE DEF K, Bad
    <2> QED BY <1>0, <1>4, <2>1, PartsAreFinite
<1>12. \A x \in part[i] \cup whole(K) : f[x] \in Int
    BY <1>0, <1>4
<1>13. SumFunctionOnSet(f, whole(J)) = SumFunctionOnSet(f, part[i]) + SumFunctionOnSet(f, whole(K))
    <2> HIDE DEF whole, Bad, K
    <2> QED BY <1>10, <1>11, <1>12, SumUnion
<1>14. g[i] = SumFunctionOnSet(f, part[i])
    BY <1>4 DEF IsSumOfParts
<1> HIDE DEF whole, K
<1> QED BY <1>7, <1>9, <1>13, <1>14

\* The positions of a list.
ArePositions(D) == D \subseteq Nat /\ IsFiniteSet(D)

\* The elements of D of the kind that i has, and those that come first of
\* their kind.
Alike(D, kind, i) == {j \in D : kind[j] = kind[i]}
FirstsOfKind(D, kind) == {i \in D : \A j \in D : j < i => kind[j] # kind[i]}

LEMMA KindsArePartition ==
    ASSUME NEW D, ArePositions(D), NEW kind
    PROVE  LET firsts == FirstsOfKind(D, kind)
           IN  /\ IsFiniteSet(firsts)
               /\ IsPartition([i \in firsts |-> Alike(D, kind, i)], firsts, D)
<1> DEFINE firsts == {i \in D : \A j \in D : j < i => kind[j] # kind[i]}
           alike(i) == {j \in D : kind[j] = kind[i]}
           part == [i \in firsts |-> alike(i)]
<1>1. D \subseteq Nat /\ IsFiniteSet(firsts)
    BY FS_Subset DEF ArePositions
<1>2. ASSUME NEW i \in firsts, NEW j \in firsts, i # j PROVE alike(i) \cap alike(j) = {}
    <2>1. i \in D /\ j \in D /\ (i < j \/ j < i)
        BY <1>1, <1>2
    <2>2. kind[i] # kind[j]
        BY <2>1
    <2> QED BY <2>2
<1>3. ASSUME NEW j \in D PROVE \E i \in firsts : j \in alike(i)
    <2>1. j \in alike(j) /\ alike(j) \subseteq Nat
        BY <1>1
    <2>2. PICK i \in alike(j) : \A k \in alike(j) : ~ (<<k, i>> \in OpToRel(<, Nat))
        <3> HIDE DEF alike
        <3> QED BY <2>1, NatLessThanWellFounded, WFMin
    <2>3. \A k \in alike(j) : ~ (k < i)
        BY <2>1, <2>2 DEF OpToRel
    <2>4. i \in firsts /\ j \in alike(i)
        BY <2>3
    <2> QED BY <2>4
<1>4. IsPartition(part, firsts, D)
    <2>1. \A i \in firsts : part[i] = alike(i) /\ alike(i) \subseteq D
        OBVIOUS
    <2> HIDE DEF part, firsts, alike
    <2> QED BY <1>2, <1>3, <2>1 DEF IsPartition
<1> QED BY <1>1, <1>4 DEF FirstsOfKind, Alike

\* The elements of each kind stand for those of that kind that come first:
\* their sums add up to the sum of all.
LEMMA SumByKind ==
    ASSUME NEW D, ArePositions(D), NEW kind,
           NEW f, \A i \in D : f[i] \in Int,
           NEW firsts, firsts = FirstsOfKind(D, kind),
           NEW g, \A i \in firsts : g[i] = SumFunctionOnSet(f, Alike(D, kind, i))
    PROVE  SumFunctionOnSet(g, firsts) = SumFunctionOnSet(f, D)
<1> DEFINE part == [i \in firsts |-> Alike(D, kind, i)]
<1>1. IsFiniteSet(firsts) /\ IsPartition(part, firsts, D)
    BY KindsArePartition
<1>2. IsSumOfParts(g, f, part, firsts)
    BY DEF IsSumOfParts
<1>3. IsFiniteSet(D)
    BY DEF ArePositions
<1> HIDE DEF part
<1> QED BY <1>1, <1>2, <1>3, SumOfParts

\* The sum of differences is the difference of the sums.
LEMMA SumMinus ==
    ASSUME NEW f, NEW g, NEW h, NEW S, IsFiniteSet(S),
           \A x \in S : f[x] \in Int /\ g[x] \in Int /\ h[x] = f[x] - g[x]
    PROVE  SumFunctionOnSet(h, S) = SumFunctionOnSet(f, S) - SumFunctionOnSet(g, S)
<1> DEFINE Bad == {T \in SUBSET S : SumFunctionOnSet(h, T) #
                     SumFunctionOnSet(f, T) - SumFunctionOnSet(g, T)}
<1> SUFFICES ASSUME Bad # {} PROVE FALSE
    OBVIOUS
<1>1. Bad \in SUBSET SUBSET S
    OBVIOUS
<1>2. PICK T \in Bad : \A U \in Bad : U \subseteq T => U = T
    <2> HIDE DEF Bad
    <2> QED BY <1>1, SmallestSubset
<1>3. IsFiniteSet(T) /\ \A x \in T : f[x] \in Int /\ g[x] \in Int /\ h[x] \in Int
    BY FS_Subset
<1>4. T # {}
    BY <1>3, SumSteps
<1>5. PICK x \in T : TRUE
    BY <1>4
<1> DEFINE U == T \ {x}
           F == SumFunctionOnSet(f, U)
           G == SumFunctionOnSet(g, U)
<1>6. /\ SumFunctionOnSet(f, T) = f[x] + F
      /\ SumFunctionOnSet(g, T) = g[x] + G
      /\ SumFunctionOnSet(h, T) = h[x] + SumFunctionOnSet(h, U)
    BY <1>3, SumRemove
<1>7. F \in Int /\ G \in Int
    <2>1. IsFiniteSet(U) /\ U \subseteq T
        BY <1>3, FS_Subset
    <2> HIDE DEF U
    <2> QED BY <1>3, <2>1, SumType
<1>8. SumFunctionOnSet(h, U) = F - G
    BY <1>2
<1>9. h[x] = f[x] - g[x] /\ f[x] \in Int /\ g[x] \in Int
    OBVIOUS
<1>10. SumFunctionOnSet(h, T) # SumFunctionOnSet(f, T) - SumFunctionOnSet(g, T)
    OBVIOUS
<1> HIDE DEF Bad, F, G
<1>11. (f[x] - g[x]) + (F - G) = (f[x] + F) - (g[x] + G)
    BY <1>7, <1>9
<1> QED BY <1>6, <1>8, <1>9, <1>10, <1>11

\* Errors of the elements add up to an error of the sum: if each of f, times
\* a, is b times that of g to half of e, so is the sum to as many halves.
LEMMA SumError ==
    ASSUME NEW f, NEW g, NEW a \in Int, NEW b \in Int, NEW e \in Nat,
           NEW S, IsFiniteSet(S),
           \A x \in S : /\ f[x] \in Int /\ g[x] \in Int
                       /\ 2 * (a * f[x] - b * g[x]) =< e
                       /\ -e =< 2 * (a * f[x] - b * g[x])
    PROVE  LET error == 2 * (a * SumFunctionOnSet(f, S) - b * SumFunctionOnSet(g, S))
           IN  error =< Cardinality(S) * e /\ -(Cardinality(S) * e) =< error
<1> DEFINE error(T) == 2 * (a * SumFunctionOnSet(f, T) - b * SumFunctionOnSet(g, T))
           bound(T) == Cardinality(T) * e
           Bad == {T \in SUBSET S : ~(error(T) =< bound(T) /\ -bound(T) =< error(T))}
<1> SUFFICES ASSUME Bad # {} PROVE FALSE
    OBVIOUS
<1>1. Bad \in SUBSET SUBSET S
    OBVIOUS
<1>2. PICK T \in Bad : \A U \in Bad : U \subseteq T => U = T
    <2> HIDE DEF Bad
    <2> QED BY <1>1, SmallestSubset
<1>3. IsFiniteSet(T) /\ \A x \in T : f[x] \in Int /\ g[x] \in Int
    BY FS_Subset
<1>4. T # {}
    <2> SUFFICES ASSUME T = {} PROVE FALSE
        OBVIOUS
    <2>1. SumFunctionOnSet(f, {}) = 0 /\ SumFunctionOnSet(g, {}) = 0 /\ Cardinality({}) = 0
        BY FS_EmptySet, SumSteps
    <2>2. error({}) = 0 /\ bound({}) = 0
        BY <2>1
    <2>3. ~(error({}) =< bound({}) /\ -bound({}) =< error({}))
        OBVIOUS
    <2> HIDE DEF error, bound, Bad
    <2> QED BY <2>2, <2>3
<1>5. PICK x \in T : TRUE
    BY <1>4
<1> DEFINE U == T \ {x}
           F == SumFunctionOnSet(f, U)
           G == SumFunctionOnSet(g, U)
           n == Cardinality(U)
<1>6. /\ SumFunctionOnSet(f, T) = f[x] + F
      /\ SumFunctionOnSet(g, T) = g[x] + G
      /\ Cardinality(T) = n + 1
    <2>1. Cardinality(T) = n + 1
        <3>1. Cardinality(U) = Cardinality(T) - 1 /\ Cardinality(T) \in Nat
            BY <1>3, FS_RemoveElement, FS_CardinalityType
        <3> QED BY <3>1
    <2> QED BY <1>3, <2>1, SumRemove
<1>7. F \in Int /\ G \in Int /\ n \in Nat
    <2>1. IsFiniteSet(U) /\ U \subseteq T
        BY <1>3, FS_Subset
    <2> HIDE DEF U
    <2> QED BY <1>3, <2>1, SumType, FS_CardinalityType
<1>8. 2 * (a * F - b * G) =< n * e /\ -(n * e) =< 2 * (a * F - b * G)
    <2>1. U \notin Bad
        BY <1>2
    <2>2. U \in SUBSET S
        BY <1>1
    <2>3. error(U) =< bound(U) /\ -bound(U) =< error(U)
        BY <2>1, <2>2
    <2> QED BY <2>3
<1>9. /\ f[x] \in Int /\ g[x] \in Int
      /\ 2 * (a * f[x] - b * g[x]) =< e /\ -e =< 2 * (a * f[x] - b * g[x])
    OBVIOUS
<1>10. ~(error(T) =< bound(T) /\ -bound(T) =< error(T))
    OBVIOUS
<1>11. error(T) = 2 * (a * (f[x] + F) - b * (g[x] + G)) /\ bound(T) = (n + 1) * e
    BY <1>6
<1> HIDE DEF Bad, F, G, n, error, bound
<1>12. /\ a * (f[x] + F) = a * f[x] + a * F /\ b * (g[x] + G) = b * g[x] + b * G
       /\ (n + 1) * e = n * e + e
       /\ a * f[x] \in Int /\ a * F \in Int /\ b * g[x] \in Int /\ b * G \in Int
       /\ n * e \in Int
    BY <1>7, <1>9
<1>13. /\ error(T) = 2 * (a * f[x] - b * g[x]) + 2 * (a * F - b * G)
       /\ bound(T) = n * e + e
    BY <1>11, <1>12
<1> DEFINE one == 2 * (a * f[x] - b * g[x])
           rest == 2 * (a * F - b * G)
           most == n * e
<1>14. one \in Int /\ rest \in Int /\ most \in Int
    BY <1>12
<1> HIDE DEF one, rest, most
<1>15. ~(one + rest =< most + e /\ -(most + e) =< one + rest)
    BY <1>10, <1>13 DEF one, rest, most
<1>16. rest =< most /\ -most =< rest /\ one =< e /\ -e =< one
    BY <1>8, <1>9 DEF one, rest, most
<1> QED BY <1>14, <1>15, <1>16
----------------------------------------------------------------------------
(* Counting.                                                               *)

\* Parts of n elements each.
AreOfSize(part, I, n) == \A i \in I : IsFiniteSet(part[i]) /\ Cardinality(part[i]) = n

\* As many elements as parts, times the size of each.
LEMMA SizeOfParts ==
    ASSUME NEW I, IsFiniteSet(I), NEW all, NEW part, IsPartition(part, I, all),
           NEW n \in Nat, AreOfSize(part, I, n)
    PROVE  IsFiniteSet(all) /\ Cardinality(all) = n * Cardinality(I)
<1> DEFINE whole(J) == UNION {part[i] : i \in J}
           Bad == {J \in SUBSET I : Cardinality(whole(J)) # n * Cardinality(J)}
<1>1. all = whole(I)
    BY DEF IsPartition
<1>2. \A J \in SUBSET I : IsFiniteSet(J) /\ IsFiniteSet(whole(J))
    <2> TAKE J \in SUBSET I
    <2>1. IsFiniteSet(J) /\ \A i \in J : IsFiniteSet(part[i])
        BY FS_Subset DEF AreOfSize
    <2> QED BY <2>1, PartsAreFinite
<1> SUFFICES ASSUME Bad # {} PROVE FALSE
    <2>1. I \in SUBSET I
        OBVIOUS
    <2> QED BY <1>1, <1>2, <2>1
<1>3. Bad \in SUBSET SUBSET I
    OBVIOUS
<1>4. PICK J \in Bad : \A K \in Bad : K \subseteq J => K = J
    <2> HIDE DEF Bad
    <2> QED BY <1>3, SmallestSubset
<1>5. J # {}
    <2> SUFFICES ASSUME J = {} PROVE FALSE
        OBVIOUS
    <2>1. whole({}) = {} /\ Cardinality({}) = 0 /\ n * 0 = 0
        BY FS_EmptySet
    <2>2. Cardinality(whole({})) # n * Cardinality({})
        OBVIOUS
    <2> HIDE DEF whole, Bad
    <2> QED BY <2>1, <2>2
<1>6. PICK i \in J : TRUE
    BY <1>5
<1> DEFINE K == J \ {i}
           m == Cardinality(K)
<1>7. K \subseteq I /\ K \notin Bad
    BY <1>4
<1>8. Cardinality(whole(K)) = n * m
    BY <1>7
<1>9. whole(J) = part[i] \cup whole(K) /\ part[i] \cap whole(K) = {}
    BY <1>6, <1>7 DEF IsPartition
<1>10. IsFiniteSet(part[i]) /\ Cardinality(part[i]) = n /\ IsFiniteSet(whole(K))
    BY <1>2, <1>6, <1>7 DEF AreOfSize
<1>11. Cardinality(whole(J)) = n + n * m
    <2>1. Cardinality(part[i] \cap whole(K)) = 0
        BY <1>9, FS_EmptySet
    <2>2. Cardinality(part[i] \cup whole(K)) =
            Cardinality(part[i]) + Cardinality(whole(K)) - Cardinality(part[i] \cap whole(K))
        <3> HIDE DEF whole, K
        <3> QED BY <1>10, FS_Union
    <2>3. n * m \in Int /\ m \in Nat
        <3>1. m \in Nat
            BY <1>2, <1>7, FS_CardinalityType
        <3> HIDE DEF m
        <3> QED BY <3>1
    <2> HIDE DEF whole, K, m
    <2> QED BY <1>8, <1>9, <1>10, <2>1, <2>2, <2>3
<1>12. m \in Nat /\ Cardinality(J) = m + 1
    <2>1. IsFiniteSet(J) /\ IsFiniteSet(K)
        BY <1>2, <1>7
    <2>2. m = Cardinality(J) - 1 /\ m \in Nat /\ Cardinality(J) \in Nat
        BY <1>6, <2>1, FS_RemoveElement, FS_CardinalityType
    <2> HIDE DEF m
    <2> QED BY <2>2
<1>13. n * (m + 1) = n + n * m
    <2> HIDE DEF m
    <2> QED BY <1>12
<1>14. Cardinality(whole(J)) # n * Cardinality(J)
    OBVIOUS
<1> HIDE DEF whole, m, Bad
<1> QED BY <1>11, <1>12, <1>13, <1>14

LEMMA TimesGrows ==
    ASSUME NEW p \in Nat, NEW x \in Int, NEW y \in Int, x =< y
    PROVE  p * x \in Int /\ p * y \in Int /\ p * x =< p * y
<1>1. p * (y - x) >= 0 /\ p * (y - x) = p * y - p * x
    OBVIOUS
<1> QED BY <1>1

\* Division rounds down.
LEMMA DivBounds ==
    ASSUME NEW x \in Int, NEW p \in Nat, p # 0
    PROVE  x \div p \in Int /\ p * (x \div p) =< x /\ x < p * (x \div p) + p
OBVIOUS

\* Which of the points a, a + p, ..., a + p * last are in a window.
PointsIn(a, p, last, from, to) ==
    {k \in 0 .. last : from =< a + p * k /\ a + p * k =< to}

\* How many of them: as many as fit in at most, and at least, if the window is
\* among the points, as are sure to fit in.
LEMMA PointsInWindow ==
    ASSUME NEW a \in Int, NEW p \in Nat, p # 0, NEW last \in Nat,
           NEW from \in Int, NEW to \in Int, from =< to,
           NEW K, K = PointsIn(a, p, last, from, to)
    PROVE  /\ IsFiniteSet(K)
           /\ p * Cardinality(K) =< to - from + p
           /\ a =< from /\ to < a + p * last + p =>
                 to - from + 2 - p =< p * Cardinality(K)
<1> DEFINE Inside == a =< from /\ to < a + p * last + p
           x == from - a + p - 1
           y == to - a
           lo == x \div p
           hi == y \div p
<1>1. /\ x \in Int /\ y \in Int
      /\ Inside => x >= 0
    OBVIOUS
<1>2. /\ lo \in Int /\ p * lo =< x /\ x < p * lo + p
      /\ hi \in Int /\ p * hi =< y /\ y < p * hi + p
    <2>1. x \in Int /\ y \in Int
        OBVIOUS
    <2> HIDE DEF x, y
    <2> QED BY <2>1, DivBounds
<1>3. p * lo \in Int /\ p * hi \in Int /\ p * last \in Int
    <2> HIDE DEF lo, hi
    <2> QED BY <1>2
<1> HIDE DEF lo, hi
<1>4. Inside => lo >= 0
    <2> SUFFICES ASSUME Inside, lo =< -1 PROVE FALSE
        BY <1>2
    <2>1. p * lo =< p * (-1) /\ p * (-1) = -p
        BY <1>2, TimesGrows
    <2> QED BY <1>1, <1>2, <1>3, <2>1
<1>5. Inside => hi =< last
    <2> SUFFICES ASSUME Inside, last + 1 =< hi PROVE FALSE
        BY <1>2
    <2>1. p * (last + 1) =< p * hi /\ p * (last + 1) = p * last + p
        BY <1>2, TimesGrows
    <2> QED BY <1>2, <1>3, <2>1
<1>6. /\ K \subseteq lo .. hi
      /\ Inside => K = lo .. hi
    <2>1. ASSUME NEW k \in Int
          PROVE  /\ from =< a + p * k <=> lo =< k
                 /\ a + p * k =< to <=> k =< hi
        <3>0. p * k \in Int
            OBVIOUS
        <3>1. lo =< k => p * lo =< p * k
            BY <1>2, TimesGrows
        <3>2. k =< lo - 1 => p * k =< p * (lo - 1)
            BY <1>2, TimesGrows
        <3>3. k =< hi => p * k =< p * hi
            BY <1>2, TimesGrows
        <3>4. hi + 1 =< k => p * (hi + 1) =< p * k
            BY <1>2, TimesGrows
        <3>5. p * (lo - 1) = p * lo - p /\ p * (hi + 1) = p * hi + p
            BY <1>2
        <3> QED BY <1>2, <1>3, <3>0, <3>1, <3>2, <3>3, <3>4, <3>5
    <2>2. K \subseteq lo .. hi
        BY <1>2, <2>1 DEF PointsIn
    <2>3. ASSUME Inside PROVE lo .. hi \subseteq K
        <3> SUFFICES ASSUME NEW k \in lo .. hi PROVE k \in K
            OBVIOUS
        <3>1. k \in 0 .. last
            BY <1>2, <1>4, <1>5, <2>3
        <3> QED BY <1>2, <2>1, <3>1 DEF PointsIn
    <2> QED BY <2>2, <2>3
<1> DEFINE n == Cardinality(lo .. hi)
<1>7. IsFiniteSet(lo .. hi) /\ n = IF lo > hi THEN 0 ELSE hi - lo + 1
    BY <1>2, FS_Interval
<1>8. /\ IsFiniteSet(K) /\ Cardinality(K) =< n /\ Cardinality(K) \in Nat
      /\ Inside => Cardinality(K) = n
    <2> DEFINE range == lo .. hi
    <2>1. IsFiniteSet(range) /\ K \in SUBSET range
        BY <1>6, <1>7
    <2> HIDE DEF range
    <2>2. IsFiniteSet(K) /\ Cardinality(K) =< Cardinality(range)
        BY <2>1, FS_Subset
    <2> HIDE DEF Inside
    <2>3. Inside => K = range
        BY <1>6 DEF range
    <2> QED BY <2>2, <2>3, FS_CardinalityType DEF range
<1>9. n \in Int /\ p * n =< y - x + 2 * p - 1 /\ y - x + 1 =< p * n
    <2>1. CASE lo > hi
        <3>1. p * hi =< p * (lo - 1) /\ p * (lo - 1) = p * lo - p
            BY <1>2, <2>1, TimesGrows
        <3>2. n = 0 /\ p * 0 = 0
            BY <1>7, <2>1
        <3> HIDE DEF n
        <3> QED BY <1>2, <1>3, <3>1, <3>2
    <2>2. CASE ~(lo > hi)
        <3>1. n = hi - lo + 1
            BY <1>7, <2>2
        <3> HIDE DEF n
        <3>2. n \in Int /\ p * n = p * hi - p * lo + p
            BY <1>2, <3>1
        <3> QED BY <1>2, <1>3, <3>2
    <2> QED BY <2>1, <2>2
<1> HIDE DEF n
<1>10. p * Cardinality(K) =< p * n /\ p * n \in Int /\ p * Cardinality(K) \in Int
    BY <1>8, <1>9, TimesGrows
<1>11. p * Cardinality(K) =< to - from + p
    BY <1>9, <1>10
<1>12. Inside => to - from + 2 - p =< p * Cardinality(K)
    BY <1>8, <1>9
<1> QED BY <1>8, <1>11, <1>12
=============================================================================
