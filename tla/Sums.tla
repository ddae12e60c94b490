-------------------------------- MODULE Sums --------------------------------
(***************************************************************************)
(* What SumFunctionOnSet of the community module Functions computes.  It   *)
(* is a recursive function, of which nothing can be said before one knows  *)
(* that the equation defining it has a solution.  The theorems of the      *)
(* library about recursion and induction take operators as parameters; the *)
(* lemmas below are proved from a minimal counterexample instead, which is *)
(* an element of a set.                                                    *)
(***************************************************************************)
EXTENDS FiniteSetTheorems, TLAPS

-----------------------------------------------------------------------------
(* Induction *)

\* A set of subsets of a finite set has a minimal element.
LEMMA MinimalSubset ==
  ASSUME NEW S, IsFiniteSet(S), NEW T, T \subseteq SUBSET S, T # {}
  PROVE  \E s \in T : \A t \in T : t \subseteq s => t = s
<1>1. IsWellFoundedOn(StrictSubsetOrdering(S), SUBSET S)
  BY FS_StrictSubsetOrderingWellFounded, FS_FiniteSubsetsOfFinite
<1>2. \E s \in T : \A t \in T : ~ (<<t, s>> \in StrictSubsetOrdering(S))
  BY <1>1, WFMin
<1> QED
  BY <1>2 DEF StrictSubsetOrdering

\* Induction over the subsets of a finite set: a set of them that has every
\* subset whose strict subsets it has, has them all.
LEMMA SubsetInduction ==
  ASSUME NEW S, IsFiniteSet(S), NEW T,
         \A s \in SUBSET S : (\A t \in SUBSET s : t # s => t \in T) => s \in T
  PROVE  \A s \in SUBSET S : s \in T
<1> DEFINE bad == {s \in SUBSET S : s \notin T}
<1>1. ASSUME bad # {} PROVE FALSE
  <2>1. bad \subseteq SUBSET S
    OBVIOUS
  <2> HIDE DEF bad
  <2>2. \E s \in bad : \A t \in bad : t \subseteq s => t = s
    BY <1>1, <2>1, MinimalSubset
  <2> USE DEF bad
  <2> QED
    BY <2>2
<1> QED
  BY <1>1

\* The image of a finite set.
LEMMA FiniteImage ==
  ASSUME NEW I, IsFiniteSet(I), NEW g
  PROVE  IsFiniteSet({g[i] : i \in I})
<1> DEFINE image == {g[i] : i \in I}
           onto == [i \in I |-> g[i]]
<1>1. onto \in Surjection(I, image)
  BY DEF Surjection
<1> HIDE DEF onto, image
<1>2. IsFiniteSet(image)
  BY <1>1, FS_Surjection
<1> QED
  BY <1>2 DEF image

-----------------------------------------------------------------------------
(* The recursion has exactly one solution *)

Choice(s) == CHOOSE x \in s : TRUE

\* h is the recursive function behind the sum of f over the subsets of S.
IsSum(h, f, S) ==
    h = [s \in SUBSET S |-> IF s = {} THEN 0
                            ELSE f[Choice(s)] + h[s \ {Choice(s)}]]

\* SumFunctionOnSet by its definition.
LEMMA SumUnfolds ==
  ASSUME NEW f, NEW S
  PROVE  SumFunctionOnSet(f, S) = (CHOOSE h : IsSum(h, f, S))[S]
  BY DEF SumFunctionOnSet, FoldFunctionOnSet, MapThenFoldSet, IsSum, Choice

\* One step of the recursion.
LEMMA SumEquation ==
  ASSUME NEW f, NEW S, NEW h, IsSum(h, f, S), NEW s \in SUBSET S
  PROVE  /\ s = {} => h[s] = 0
         /\ s # {} => /\ Choice(s) \in s
                      /\ h[s] = f[Choice(s)] + h[s \ {Choice(s)}]
  BY DEF IsSum, Choice

\* The functions f and g are equal on S.
Agree(f, g, S) == \A x \in S : f[x] = g[x]

\* A solution agrees with those over its subsets, and so do the solutions for
\* two functions that agree there.
LEMMA SumUnique ==
  ASSUME NEW f, NEW g, NEW S, NEW T \in SUBSET S, IsFiniteSet(T),
         NEW h, IsSum(h, f, S), NEW k, IsSum(k, g, T), Agree(f, g, T)
  PROVE  \A s \in SUBSET T : h[s] = k[s]
<1> DEFINE same == {s \in SUBSET T : h[s] = k[s]}
<1>1. ASSUME NEW s \in SUBSET T, \A t \in SUBSET s : t # s => t \in same
      PROVE  s \in same
  <2> s \in SUBSET S /\ s \in SUBSET T
    OBVIOUS
  <2>1. CASE s = {}
    <3>1. h[s] = 0
      BY <2>1, SumEquation
    <3>2. k[s] = 0
      BY <2>1, SumEquation
    <3> QED
      BY <3>1, <3>2
  <2>2. CASE s # {}
    <3> DEFINE x == Choice(s)
    <3>1. x \in s /\ h[s] = f[x] + h[s \ {x}] /\ k[s] = g[x] + k[s \ {x}]
      BY <2>2, SumEquation
    <3> HIDE DEF x
    <3>2. s \ {x} \in same
      BY <1>1, <3>1
    <3> QED
      BY <3>1, <3>2 DEF Agree
  <2> QED
    BY <2>1, <2>2
<1> HIDE DEF same
<1>2. \A s \in SUBSET T : s \in same
  BY <1>1, SubsetInduction
<1> QED
  BY <1>2 DEF same

\* In particular the solutions for one function.
LEMMA SumAgrees ==
  ASSUME NEW f, NEW S, NEW T \in SUBSET S, IsFiniteSet(T),
         NEW h, IsSum(h, f, S), NEW k, IsSum(k, f, T)
  PROVE  h[T] = k[T]
<1>1. Agree(f, f, T)
  BY DEF Agree
<1>2. \A s \in SUBSET T : h[s] = k[s]
  BY <1>1, SumUnique
<1> QED
  BY <1>2

\* Over a finite set there is a solution.
LEMMA SumExists ==
  ASSUME NEW f, NEW S, IsFiniteSet(S)
  PROVE  \E h : IsSum(h, f, S)
<1> DEFINE solved == {T \in SUBSET S : \E h : IsSum(h, f, T)}
<1>1. ASSUME NEW T \in SUBSET S, \A t \in SUBSET T : t # T => t \in solved
      PROVE  T \in solved
  <2> DEFINE part(t) == CHOOSE h : IsSum(h, f, t)
             rest(s) == s \ {Choice(s)}
             whole == [s \in SUBSET T |->
                         IF s = {} THEN 0
                         ELSE f[Choice(s)] + part(rest(s))[rest(s)]]
  <2>1. \A t \in SUBSET T : t # T => IsSum(part(t), f, t)
    BY <1>1
  <2>2. ASSUME NEW s \in SUBSET T, s # {}
        PROVE  Choice(s) \in s /\ rest(s) \in SUBSET T /\ rest(s) # T
    BY <2>2 DEF Choice
  <2> HIDE DEF part
  <2>3. ASSUME NEW s \in SUBSET T, s # T PROVE whole[s] = part(s)[s]
    <3>1. IsSum(part(s), f, s)
      BY <2>1, <2>3
    <3>2. CASE s = {}
      BY <3>1, <3>2, SumEquation
    <3>3. CASE s # {}
      <4>1. part(s)[s] = f[Choice(s)] + part(s)[rest(s)]
        BY <3>1, <3>3, SumEquation
      <4>2. IsSum(part(rest(s)), f, rest(s)) /\ rest(s) \subseteq s
        BY <2>1, <2>2, <3>3
      <4>3. IsFiniteSet(rest(s))
        BY <2>2, <3>3, FS_Subset
      <4> HIDE DEF rest
      <4>4. part(rest(s))[rest(s)] = part(s)[rest(s)]
        BY <3>1, <4>2, <4>3, SumAgrees
      <4> QED
        BY <3>3, <4>1, <4>4
    <3> QED
      BY <3>2, <3>3
  <2>4. ASSUME NEW s \in SUBSET T, s # {}
        PROVE  part(rest(s))[rest(s)] = whole[rest(s)]
    BY <2>2, <2>3, <2>4
  <2>5. \A s \in SUBSET T :
           whole[s] = IF s = {} THEN 0 ELSE f[Choice(s)] + whole[rest(s)]
    BY <2>4
  <2>6. IsSum(whole, f, T)
    BY <2>5 DEF IsSum
  <2> QED
    BY <2>6
<1> HIDE DEF solved
<1>2. S \in solved
  BY <1>1, SubsetInduction
<1> QED
  BY <1>2 DEF solved

\* The sum is what the solution gives, whichever finite set it was solved on.
LEMMA SumValue ==
  ASSUME NEW f, NEW S, IsFiniteSet(S), NEW h, IsSum(h, f, S), NEW T \in SUBSET S
  PROVE  SumFunctionOnSet(f, T) = h[T]
<1> DEFINE k == CHOOSE k : IsSum(k, f, T)
<1>1. IsFiniteSet(T)
  BY FS_Subset
<1>2. IsSum(k, f, T)
  BY <1>1, SumExists
<1>3. SumFunctionOnSet(f, T) = k[T]
  BY SumUnfolds
<1> HIDE DEF k
<1> QED
  BY <1>1, <1>2, <1>3, SumAgrees

-----------------------------------------------------------------------------
(* Laws of sums *)

\* f takes natural numbers on S.
Counts(f, S) == \A x \in S : f[x] \in Nat

\* The empty sum.
LEMMA SumEmpty ==
  ASSUME NEW f
  PROVE  SumFunctionOnSet(f, {}) = 0
<1>1. IsFiniteSet({})
  BY FS_EmptySet
<1>2. PICK h : IsSum(h, f, {})
  BY <1>1, SumExists
<1>3. {} \in SUBSET {} /\ h[{}] = 0
  BY <1>2, SumEquation
<1> QED
  BY <1>1, <1>2, <1>3, SumValue

\* The sum of a set that is not empty, by the element that the recursion takes.
LEMMA SumChoice ==
  ASSUME NEW f, NEW S, IsFiniteSet(S), S # {}
  PROVE  /\ Choice(S) \in S
         /\ SumFunctionOnSet(f, S)
               = f[Choice(S)] + SumFunctionOnSet(f, S \ {Choice(S)})
<1>1. PICK h : IsSum(h, f, S)
  BY SumExists
<1>2. S \in SUBSET S /\ S \ {Choice(S)} \in SUBSET S
  OBVIOUS
<1>3. Choice(S) \in S /\ h[S] = f[Choice(S)] + h[S \ {Choice(S)}]
  BY <1>1, <1>2, SumEquation
<1>4. SumFunctionOnSet(f, S) = h[S]
  BY <1>1, <1>2, SumValue
<1>5. SumFunctionOnSet(f, S \ {Choice(S)}) = h[S \ {Choice(S)}]
  BY <1>1, <1>2, SumValue
<1> QED
  BY <1>3, <1>4, <1>5

\* A sum depends on the summands only.
LEMMA SumSame ==
  ASSUME NEW f, NEW g, NEW S, IsFiniteSet(S), Agree(f, g, S)
  PROVE  SumFunctionOnSet(f, S) = SumFunctionOnSet(g, S)
<1>1. PICK h : IsSum(h, f, S)
  BY SumExists
<1>2. PICK k : IsSum(k, g, S)
  BY SumExists
<1>3. S \in SUBSET S
  OBVIOUS
<1>4. h[S] = k[S]
  BY <1>1, <1>2, <1>3, SumUnique
<1> QED
  BY <1>1, <1>2, <1>3, <1>4, SumValue

\* A sum of natural numbers is one.
LEMMA SumIsNat ==
  ASSUME NEW f, NEW S, IsFiniteSet(S), Counts(f, S)
  PROVE  SumFunctionOnSet(f, S) \in Nat
<1> DEFINE counted == {T \in SUBSET S : SumFunctionOnSet(f, T) \in Nat}
<1>1. ASSUME NEW T \in SUBSET S, \A t \in SUBSET T : t # T => t \in counted
      PROVE  T \in counted
  <2>1. CASE T = {}
    BY <2>1, SumEmpty
  <2>2. CASE T # {}
    <3>1. IsFiniteSet(T)
      BY FS_Subset
    <3> DEFINE x == Choice(T)
    <3>2. x \in T /\ SumFunctionOnSet(f, T) = f[x] + SumFunctionOnSet(f, T \ {x})
      BY <2>2, <3>1, SumChoice
    <3> HIDE DEF x
    <3>3. T \ {x} \in counted
      BY <1>1, <3>2
    <3>4. f[x] \in Nat
      BY <3>2 DEF Counts
    <3> QED
      BY <3>2, <3>3, <3>4
  <2> QED
    BY <2>1, <2>2
<1> HIDE DEF counted
<1>2. S \in counted
  BY <1>1, SubsetInduction
<1> QED
  BY <1>2 DEF counted

\* Any element may be summed first.
LEMMA SumRemove ==
  ASSUME NEW f, NEW S, IsFiniteSet(S), Counts(f, S), NEW x \in S
  PROVE  SumFunctionOnSet(f, S) = f[x] + SumFunctionOnSet(f, S \ {x})
<1> DEFINE good == {T \in SUBSET S : \A y \in T :
                       SumFunctionOnSet(f, T) = f[y] + SumFunctionOnSet(f, T \ {y})}
<1>1. ASSUME NEW T \in SUBSET S, \A t \in SUBSET T : t # T => t \in good
      PROVE  T \in good
  <2> SUFFICES ASSUME NEW y \in T
               PROVE  SumFunctionOnSet(f, T) = f[y] + SumFunctionOnSet(f, T \ {y})
    OBVIOUS
  <2>1. IsFiniteSet(T)
    BY FS_Subset
  <2> DEFINE z == Choice(T)
  <2>2. z \in T /\ SumFunctionOnSet(f, T) = f[z] + SumFunctionOnSet(f, T \ {z})
    BY <2>1, SumChoice
  <2> HIDE DEF z
  <2>3. CASE y = z
    BY <2>2, <2>3
  <2>4. CASE y # z
    <3>1. T \ {y} \in good /\ T \ {z} \in good
      BY <1>1, <2>2
    <3>2. SumFunctionOnSet(f, T \ {z}) = f[y] + SumFunctionOnSet(f, (T \ {z}) \ {y})
      BY <2>4, <3>1
    <3>3. SumFunctionOnSet(f, T \ {y}) = f[z] + SumFunctionOnSet(f, (T \ {y}) \ {z})
      BY <2>2, <2>4, <3>1
    <3>4. (T \ {z}) \ {y} = (T \ {y}) \ {z}
      OBVIOUS
    <3>5. IsFiniteSet((T \ {z}) \ {y}) /\ Counts(f, (T \ {z}) \ {y})
      <4>1. (T \ {z}) \ {y} \in SUBSET S
        OBVIOUS
      <4> QED
        BY <4>1, FS_Subset DEF Counts
    <3>6. SumFunctionOnSet(f, (T \ {z}) \ {y}) \in Nat /\ f[y] \in Nat /\ f[z] \in Nat
      BY <2>2, <3>5, SumIsNat DEF Counts
    <3> DEFINE rest == SumFunctionOnSet(f, (T \ {z}) \ {y})
    <3>7. SumFunctionOnSet(f, T) = f[z] + (f[y] + rest)
      BY <2>2, <3>2
    <3>8. SumFunctionOnSet(f, T \ {y}) = f[z] + rest
      BY <3>3, <3>4
    <3>9. rest \in Nat
      BY <3>6
    <3> HIDE DEF rest
    <3> QED
      BY <3>6, <3>7, <3>8, <3>9
  <2> QED
    BY <2>3, <2>4
<1> HIDE DEF good
<1>2. S \in good
  BY <1>1, SubsetInduction
<1> QED
  BY <1>2 DEF good

\* The sum over two disjoint sets.
LEMMA SumUnion ==
  ASSUME NEW f, NEW S, IsFiniteSet(S), NEW T, IsFiniteSet(T), S \cap T = {},
         Counts(f, S), Counts(f, T)
  PROVE  SumFunctionOnSet(f, S \cup T) = SumFunctionOnSet(f, S) + SumFunctionOnSet(f, T)
<1> DEFINE good == {U \in SUBSET T : SumFunctionOnSet(f, S \cup U)
                                        = SumFunctionOnSet(f, S) + SumFunctionOnSet(f, U)}
<1>1. SumFunctionOnSet(f, S) \in Nat
  BY SumIsNat
<1>2. ASSUME NEW U \in SUBSET T, \A t \in SUBSET U : t # U => t \in good
      PROVE  U \in good
  <2>1. CASE U = {}
    <3>1. S \cup U = S /\ SumFunctionOnSet(f, U) = 0
      BY <2>1, SumEmpty
    <3> QED
      BY <1>1, <3>1
  <2>2. CASE U # {}
    <3>1. PICK x \in U : TRUE
      BY <2>2
    <3>2. IsFiniteSet(U) /\ IsFiniteSet(S \cup U) /\ IsFiniteSet(U \ {x})
      BY FS_Subset, FS_Union
    <3>3. Counts(f, U) /\ Counts(f, S \cup U) /\ Counts(f, U \ {x})
      BY DEF Counts
    <3>4. SumFunctionOnSet(f, U) = f[x] + SumFunctionOnSet(f, U \ {x})
      BY <3>2, <3>3, SumRemove
    <3>5. SumFunctionOnSet(f, S \cup U) = f[x] + SumFunctionOnSet(f, (S \cup U) \ {x})
      BY <3>2, <3>3, SumRemove
    <3>6. (S \cup U) \ {x} = S \cup (U \ {x})
      OBVIOUS
    <3>7. U \ {x} \in good
      BY <1>2
    <3>8. f[x] \in Nat /\ SumFunctionOnSet(f, U \ {x}) \in Nat
      BY <3>2, <3>3, SumIsNat DEF Counts
    <3> DEFINE a == SumFunctionOnSet(f, S)
               b == SumFunctionOnSet(f, U \ {x})
    <3>9. SumFunctionOnSet(f, S \cup U) = f[x] + (a + b)
      BY <3>5, <3>6, <3>7
    <3>10. SumFunctionOnSet(f, U) = f[x] + b /\ a \in Nat /\ b \in Nat /\ f[x] \in Nat
      BY <1>1, <3>4, <3>8
    <3>11. SumFunctionOnSet(f, S \cup U) = a + SumFunctionOnSet(f, U)
      <4> HIDE DEF a, b
      <4> QED
        BY <3>9, <3>10
    <3> QED
      BY <3>11
  <2> QED
    BY <2>1, <2>2
<1> HIDE DEF good
<1>3. T \in good
  BY <1>2, SubsetInduction
<1> QED
  BY <1>3 DEF good

\* A sum may be indexed by any other set of the same size.
LEMMA SumIndexed ==
  ASSUME NEW f, NEW I, IsFiniteSet(I), NEW g,
         \A i, j \in I : g[i] = g[j] => i = j,
         Counts(f, {g[i] : i \in I})
  PROVE  SumFunctionOnSet(f, {g[i] : i \in I}) = SumFunctionOnSet([i \in I |-> f[g[i]]], I)
<1> DEFINE image(J) == {g[i] : i \in J}
           h == [i \in I |-> f[g[i]]]
           good == {J \in SUBSET I : SumFunctionOnSet(f, image(J)) = SumFunctionOnSet(h, J)}
<1>1. ASSUME NEW J \in SUBSET I, \A t \in SUBSET J : t # J => t \in good
      PROVE  J \in good
  <2>1. CASE J = {}
    <3>1. image(J) = {}
      BY <2>1
    <3> HIDE DEF image, h
    <3> QED
      BY <2>1, <3>1, SumEmpty
  <2>2. CASE J # {}
    <3>1. PICK i \in J : TRUE
      BY <2>2
    <3>2. IsFiniteSet(J) /\ IsFiniteSet(image(J))
      <4>1. IsFiniteSet(J)
        BY FS_Subset
      <4> QED
        BY <4>1, FiniteImage
    <3>3. Counts(h, J) /\ Counts(f, image(J))
      BY DEF Counts
    <3>4. g[i] \in image(J) /\ image(J) \ {g[i]} = image(J \ {i}) /\ h[i] = f[g[i]]
      OBVIOUS
    <3>5. J \ {i} \in good
      BY <1>1
    <3>6. SumFunctionOnSet(f, image(J \ {i})) = SumFunctionOnSet(h, J \ {i})
      BY <3>5
    <3> HIDE DEF image, h, good
    <3>7. SumFunctionOnSet(f, image(J)) = f[g[i]] + SumFunctionOnSet(f, image(J) \ {g[i]})
      BY <3>2, <3>3, <3>4, SumRemove
    <3>8. SumFunctionOnSet(h, J) = h[i] + SumFunctionOnSet(h, J \ {i})
      BY <3>2, <3>3, SumRemove
    <3> QED
      BY <3>4, <3>6, <3>7, <3>8 DEF good
  <2> QED
    BY <2>1, <2>2
<1> HIDE DEF good
<1>2. I \in good
  BY <1>1, SubsetInduction
<1> QED
  BY <1>2 DEF good

\* A sum may be taken group by group.
LEMMA SumGrouped ==
  ASSUME NEW f, NEW K, IsFiniteSet(K), NEW group,
         \A k \in K : IsFiniteSet(group[k]) /\ Counts(f, group[k]),
         \A k, l \in K : k # l => group[k] \cap group[l] = {}
  PROVE  SumFunctionOnSet(f, UNION {group[k] : k \in K})
            = SumFunctionOnSet([k \in K |-> SumFunctionOnSet(f, group[k])], K)
<1> DEFINE all(J) == UNION {group[k] : k \in J}
           h == [k \in K |-> SumFunctionOnSet(f, group[k])]
           good == {J \in SUBSET K : /\ IsFiniteSet(all(J))
                                     /\ SumFunctionOnSet(f, all(J)) = SumFunctionOnSet(h, J)}
<1>1. Counts(h, K)
  BY SumIsNat DEF Counts
<1>2. ASSUME NEW J \in SUBSET K, \A t \in SUBSET J : t # J => t \in good
      PROVE  J \in good
  <2>1. CASE J = {}
    <3>1. all(J) = {}
      BY <2>1
    <3> HIDE DEF all, h
    <3> QED
      BY <2>1, <3>1, SumEmpty, FS_EmptySet
  <2>2. CASE J # {}
    <3>1. PICK k \in J : TRUE
      BY <2>2
    <3>2. IsFiniteSet(J) /\ Counts(h, J) /\ h[k] = SumFunctionOnSet(f, group[k])
      BY <1>1, FS_Subset DEF Counts
    <3>3. /\ all(J) = group[k] \cup all(J \ {k})
          /\ group[k] \cap all(J \ {k}) = {}
      OBVIOUS
    <3>4. J \ {k} \in good
      BY <1>2
    <3>5. /\ IsFiniteSet(all(J \ {k}))
          /\ SumFunctionOnSet(f, all(J \ {k})) = SumFunctionOnSet(h, J \ {k})
      BY <3>4
    <3>6. Counts(f, all(J \ {k})) /\ Counts(f, group[k]) /\ IsFiniteSet(group[k])
      BY DEF Counts
    <3> DEFINE one == group[k]
               others == all(J \ {k})
    <3> HIDE DEF all, h, one, others
    <3>7. SumFunctionOnSet(h, J) = h[k] + SumFunctionOnSet(h, J \ {k})
      BY <3>2, SumRemove
    <3>8. /\ IsFiniteSet(one) /\ IsFiniteSet(others) /\ one \cap others = {}
          /\ Counts(f, one) /\ Counts(f, others)
      BY <3>3, <3>5, <3>6 DEF one, others
    <3>9. SumFunctionOnSet(f, one \cup others)
             = SumFunctionOnSet(f, one) + SumFunctionOnSet(f, others)
      BY <3>8, SumUnion
    <3>10. IsFiniteSet(one \cup others)
      BY <3>8, FS_Union
    <3>11. all(J) = one \cup others
      BY <3>3 DEF one, others
    <3>12. SumFunctionOnSet(f, all(J)) = SumFunctionOnSet(h, J)
      BY <3>2, <3>5, <3>7, <3>9, <3>11 DEF one, others
    <3> QED
      BY <3>10, <3>11, <3>12
  <2> QED
    BY <2>1, <2>2
<1> HIDE DEF good
<1>3. K \in good
  BY <1>2, SubsetInduction
<1> QED
  BY <1>3 DEF good

\* The sum of two.
LEMMA SumOfTwo ==
  ASSUME NEW f, f[1] \in Nat, f[2] \in Nat
  PROVE  SumFunctionOnSet(f, {1, 2}) = f[1] + f[2]
<1>1. IsFiniteSet({1, 2}) /\ IsFiniteSet({2})
  <2>1. IsFiniteSet({2}) /\ {1, 2} = {2} \cup {1}
    BY FS_Singleton
  <2>2. IsFiniteSet({2} \cup {1})
    BY <2>1, FS_AddElement
  <2> QED
    BY <2>1, <2>2
<1>2. Counts(f, {1, 2}) /\ Counts(f, {2})
  BY DEF Counts
<1>3. {1, 2} \ {1} = {2} /\ {2} \ {2} = {}
  OBVIOUS
<1>4. SumFunctionOnSet(f, {1, 2}) = f[1] + SumFunctionOnSet(f, {2})
  <2>1. 1 \in {1, 2}
    OBVIOUS
  <2>2. SumFunctionOnSet(f, {1, 2}) = f[1] + SumFunctionOnSet(f, {1, 2} \ {1})
    BY <1>1, <1>2, <2>1, SumRemove
  <2> QED
    BY <1>3, <2>2
<1>5. SumFunctionOnSet(f, {2}) = f[2] + SumFunctionOnSet(f, {})
  <2>1. 2 \in {2}
    OBVIOUS
  <2>2. SumFunctionOnSet(f, {2}) = f[2] + SumFunctionOnSet(f, {2} \ {2})
    BY <1>1, <1>2, <2>1, SumRemove
  <2> QED
    BY <1>3, <2>2
<1> QED
  BY <1>4, <1>5, SumEmpty
=============================================================================
